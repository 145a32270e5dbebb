---------------------------- MODULE OutputPhases ----------------------------
(***************************************************************************)
(* What a listener may rely on of a libobs stream output: the order of the *)
(* phases its signals announce.  MultistreamEngine gives its outputs these *)
(* phases; OutputLife shows that libobs and rtmp-stream keep to them.      *)
(***************************************************************************)

VARIABLE phase

Init == phase = "none"

Move(from, to) == phase \in from /\ phase' \in to

Create == Move({"none"}, {"ready"})

\* The connect is asynchronous; a refused start signals nothing.
Start == Move({"ready"}, {"connecting", "down"})

\* start, or stop with an error.
ConnectEnds == Move({"connecting"}, {"active", "down"})

\* reconnect, or stop with an error while the encoders are detached.
Drop == Move({"active"}, {"retrying", "draining"})

\* reconnect_success, or stop with an error after the last retry.
RetryEnds == Move({"retrying"}, {"active", "down"})

Drain == Move({"draining"}, {"down"})

\* Once a running output is asked to stop, any signal may come and none is
\* promised until it is destroyed.
Stop == Move({"connecting", "active", "retrying"}, {"stopping"})

\* An output that was not asked to stop is only destroyed once it is over.
Destroy == Move({"stopping", "draining", "down"}, {"none"})

Next ==
    \/ Create
    \/ Start
    \/ ConnectEnds
    \/ Drop
    \/ RetryEnds
    \/ Drain
    \/ Stop
    \/ Destroy

Spec == Init /\ [][Next]_phase
=============================================================================
