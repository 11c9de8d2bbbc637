---------------------------- MODULE ThreadGrants ----------------------------
(***************************************************************************)
(* What the posting protocol promises about one alert, whatever the        *)
(* processes, the network and the operators do.  A thread is sent under a  *)
(* numbered grant (a reservation).  One grant is open at a time; the next  *)
(* one is handed out only after an operator withdrew the open one, and     *)
(* none after the thread was finished.  Under one grant X receives every   *)
(* segment at most once and in order, so any number of crashes and         *)
(* timeouts leave a prefix of the thread there.                            *)
(***************************************************************************)
EXTENDS Naturals

CONSTANTS NumSegments, MaxGrants

VARIABLES
    row,         \* "absent", "IN_PROGRESS" or "final"
    granted,     \* grants handed out so far
    delivered    \* grant -> the segments X accepted under it

vars == <<row, granted, delivered>>

Segment == 1..NumSegments
Grants == 1..MaxGrants

Init ==
    /\ row = "absent"
    /\ granted = 0
    /\ delivered = [g \in Grants |-> {}]

Grant ==
    /\ row = "absent"
    /\ row' = "IN_PROGRESS"
    /\ granted' = granted + 1
    /\ UNCHANGED delivered

Send(g, s) ==
    /\ g <= granted
    /\ s \notin delivered[g]
    /\ \A t \in 1..(s - 1) : t \in delivered[g]
    /\ delivered' = [delivered EXCEPT ![g] = @ \cup {s}]
    /\ UNCHANGED <<row, granted>>

Withdraw ==
    /\ row = "IN_PROGRESS"
    /\ row' = "absent"
    /\ UNCHANGED <<granted, delivered>>

Finish ==
    /\ row = "IN_PROGRESS"
    /\ row' = "final"
    /\ UNCHANGED <<granted, delivered>>

Next ==
    \/ Grant \/ Withdraw \/ Finish
    \/ \E g \in Grants, s \in Segment : Send(g, s)

Spec == Init /\ [][Next]_vars
=============================================================================
