--------------------------- MODULE MCConformance ----------------------------
(***************************************************************************)
(* The suite on every store there is, on in-memory stores with one defect  *)
(* each, and on a store whose sequencer another transaction holds back.    *)
(***************************************************************************)
EXTENDS Conformance

MCDates == Y2000..Y2030
MCPeriodIds == {"conformance-2026-02", "conformance-2026-03"}
MCPaths == {<<9, n>> : n \in 1..5} \cup {<<10>>, <<20>>, <<30>>}
MCPolicy == [currency |-> "Any", required_dimensions |-> {}, max_value_date_drift_days |-> None]

MCSetups ==
    [kind : Kinds, defect : {None}, held : {FALSE}]
    \cup [kind : {"memory"}, defect : DOMAIN CaughtBy, held : {FALSE}]
    \cup [kind : {"deferred"}, defect : {None}, held : {TRUE}]
=============================================================================
