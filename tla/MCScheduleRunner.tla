-------------------------- MODULE MCScheduleRunner --------------------------
(* Small instances of ScheduleRunner for TLC.                              *)
EXTENDS ScheduleRunner, TLC

CONSTANTS e1, e2, b1, b2, p1, p2

MCProfileOf1 == b1 :> p1
MCOrder1 == <<b1>>
MCProfileOf2 == b1 :> p1 @@ b2 :> p2
MCOrder2 == <<b2, b1>>
MCPlannedFirst == <<b1, b2>>

MCUpOrRefused1 == {[b \in {b1} |-> "up"], [b \in {b1} |-> "refused"]}
MCUp2 == {[b \in {b1, b2} |-> "up"]}
MCUpOrRefused2 == MCUp2 \cup {[b \in {b1, b2} |-> "refused"]}
MCUpOrFailed2 == MCUp2 \cup {b1 :> "failed" @@ b2 :> "up"}

MCPlans == {{p1}}
MCEitherPlan == {{p1}, {p2}}
MCConnected1 == {{}, {p1}}
MCConnected2 == {{p1, p2}}

\* Two entries on the calendar with a destination in common, the earlier one
\* due at 1 (the clock's origin is arbitrary); nobody edits the calendar or
\* the routing.
ContendInit ==
    /\ now = 0
    /\ \E at \in {f \in [Id -> StartTimes] : \E id \in Id : f[id] = 1} :
         w = [InitWorld EXCEPT !.state = [id \in Id |-> "planned"], !.startsAt = at,
                               !.auto = [id \in Id |-> TRUE],
                               !.names = e1 :> {p1} @@ e2 :> {p1, p2}]

ContendNext ==
    \/ \E id \in Id : Delete(id) \/ CancelCountdown(id) \/ StartNow(id)
    \/ \E adopt \in BOOLEAN : StreamingStart(adopt)
    \/ StreamingStop
    \/ System

ContendSpec == ContendInit /\ [][ContendNext]_vars
=============================================================================
