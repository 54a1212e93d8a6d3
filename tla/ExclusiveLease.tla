-------------------------- MODULE ExclusiveLease --------------------------
(***************************************************************************)
(* What the interaction lease of an agent promises: there is one holder at *)
(* most, nobody takes the lease from a holder, and it changes hands only   *)
(* through a state in which nobody has it.                                 *)
(***************************************************************************)
CONSTANT Holder

VARIABLE holder  \* who may answer, an Option

Init == holder = {}

Acquire(h) == holder \subseteq {h} /\ holder' = {h}

\* Released by the holder or expired.
Lose == holder # {} /\ holder' = {}

Next == Lose \/ \E h \in Holder : Acquire(h)

Spec == Init /\ [][Next]_holder
===========================================================================
