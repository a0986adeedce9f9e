------------------------------ MODULE MCBusPipe ------------------------------
(* Instances of BusPipe for TLC. *)
EXTENDS BusPipe

\* A task feeding a reader that comes and goes.
Restless == {[overwrite |-> FALSE, isr |-> FALSE, resubscribe |-> TRUE]}
==============================================================================
