-------------------------------- MODULE Fifo ---------------------------------
(***************************************************************************)
(* What a bounded first-in first-out channel promises: items leave in the  *)
(* order they came, none is lost, none is delivered twice, and never more  *)
(* than Capacity are inside.  Several items may enter or leave in a step.  *)
(***************************************************************************)
EXTENDS Integers, Sequences

CONSTANTS Item, Capacity

VARIABLES
    q,    \* the items inside, oldest first
    out   \* the items the last Get delivered

vars == <<q, out>>

Init == q = <<>> /\ out = <<>>

Put ==
    /\ Len(q') > Len(q) /\ Len(q') <= Capacity
    /\ SubSeq(q', 1, Len(q)) = q
    /\ \A i \in DOMAIN q' : q'[i] \in Item
    /\ UNCHANGED out

Get ==
    \E n \in 1..Len(q) :
      /\ out' = SubSeq(q, 1, n)
      /\ q' = SubSeq(q, n + 1, Len(q))

Spec == Init /\ [][Put \/ Get]_vars
==============================================================================
