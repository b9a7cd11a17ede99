SPECIFICATION Spec
CONSTANTS
    Payloads <- MCPayloads
    Bounds <- MCBounds
INVARIANTS
    StackAgrees
    HonestProofsVerify
    RewritesShow
CHECK_DEADLOCK FALSE
