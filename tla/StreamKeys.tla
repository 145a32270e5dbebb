----------------------------- MODULE StreamKeys -----------------------------
(***************************************************************************)
(* What the fan-out engine promises the platforms: one stream key carries  *)
(* one stream.  A binding's output takes a profile's key only while no     *)
(* other output uses it, keeps that key, and gives it back.                *)
(***************************************************************************)

CONSTANTS
    Binding,    \* output bindings
    Profile,    \* stream profiles, each holding one stream key
    None        \* no profile

VARIABLE key    \* key[b]: profile whose key b's output is using, or None

Init == key = [b \in Binding |-> None]

Acquire(b, p) ==
    /\ key[b] = None
    /\ \A c \in Binding : key[c] # p
    /\ key' = [key EXCEPT ![b] = p]

Release(b) ==
    /\ key[b] # None
    /\ key' = [key EXCEPT ![b] = None]

Next == \E b \in Binding : Release(b) \/ \E p \in Profile : Acquire(b, p)

Spec == Init /\ [][Next]_key

=============================================================================
