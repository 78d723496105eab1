--------------------------- MODULE BaselineHandoff ---------------------------
(***************************************************************************)
(* What scenario/baseline.py promises: a single-consumer handoff of a      *)
(* healthy window.  A window is offered once, taken at most once, and what *)
(* was taken or dropped never comes back.                                  *)
(***************************************************************************)
CONSTANT Windows    \* identities of the captured windows

VARIABLES
    slot,       \* the set with the window on offer, or the empty set
    taken       \* windows that a case has used as its reused baseline

Init == slot = {} /\ taken = {}

Publish(w) == w \notin taken /\ slot' = {w} /\ UNCHANGED taken

Take(w) == slot = {w} /\ slot' = {} /\ taken' = taken \cup {w}

Drop == slot # {} /\ slot' = {} /\ UNCHANGED taken

Next == Drop \/ \E w \in Windows : Publish(w) \/ Take(w)

Spec == Init /\ [][Next]_<<slot, taken>>
=============================================================================
