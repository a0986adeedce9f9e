----------------------------- MODULE MCTaskTree ------------------------------
(* Instances of TaskTree for TLC. *)
EXTENDS TaskTree

Root(p, priv) == [priority |-> p, privileged |-> priv]
Ask(policy, max) == [policy |-> policy, max |-> max]

\* A privileged supervisor and a user task.
Supervised == <<Root(1, TRUE), Root(1, FALSE)>>

\* The same two, at the highest priority there is.
Supreme == <<Root(2, TRUE), Root(2, FALSE)>>

\* Tasks that spawn, kill and sleep; tasks that fault under changing policies;
\* tasks that save or are granted windows and are restarted.
Trees == {{"kill", "sleep"}, {"fault", "policy"}, {"fault", "save"}, {"fault", "grant"}}
Asks == {Ask(V_FAULT_DEFAULT, 0), Ask(V_FAULT_RESTART, 1), Ask(V_FAULT_PANIC, 0)}
==============================================================================
