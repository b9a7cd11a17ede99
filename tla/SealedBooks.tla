----------------------------- MODULE SealedBooks ----------------------------
(***************************************************************************)
(* What a journal promises about the periods it has sealed, and nothing    *)
(* else: the booking dates of the log in log order, the last frozen date,  *)
(* and for every seal the date it closes and the length of the log it      *)
(* closed over.                                                            *)
(***************************************************************************)
EXTENDS Values

VARIABLES
    dates,          \* the booking date of every entry, in log order
    frozen,         \* the last date that accepts no entry, 0 when none
    seals           \* the seals taken, oldest first

sealed_vars == <<dates, frozen, seals>>

\* Nothing is booked; the calendar may come with sealed periods.
SealedInit == dates = <<>> /\ frozen \in Dates \cup {0} /\ seals = <<>>

\* Entries booked after the frozen date join the log, one or several at once.
Book ==
    /\ dates' \in Seq(Dates)
    /\ Len(dates') > Len(dates)
    /\ \A i \in DOMAIN dates : dates'[i] = dates[i]
    /\ \A i \in DOMAIN dates' : i > Len(dates) => dates'[i] > frozen
    /\ UNCHANGED <<frozen, seals>>

\* Dates close without a seal: a period moved to Sealed, or defined as such.
Freeze(date) ==
    /\ date > frozen
    /\ frozen' = date
    /\ UNCHANGED <<dates, seals>>

\* A seal closes over the whole log, and every date up to its own.
SealThrough(date) ==
    /\ date > frozen
    /\ frozen' = date
    /\ seals' = Append(seals, [end |-> date, size |-> Len(dates)])
    /\ UNCHANGED dates

SealedNext == Book \/ \E date \in Dates : Freeze(date) \/ SealThrough(date)

SealedSpec == SealedInit /\ [][SealedNext]_sealed_vars

-----------------------------------------------------------------------------
\* A seal is never restated: every entry the log gained after a seal is booked
\* after the date that seal closed.
NeverRestated ==
    \A s \in DOMAIN seals :
        \A i \in DOMAIN dates : i > seals[s].size => dates[i] > seals[s].end
=============================================================================
