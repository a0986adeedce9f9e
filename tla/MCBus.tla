-------------------------------- MODULE MCBus --------------------------------
(* Instance of Bus for TLC: one reader of an overwrite topic. *)
EXTENDS Bus

CONSTANTS to, sa, p1

CopyOnly == {[topics |-> {to}, producers |-> 1, topicOf |-> [s \in Sub |-> to],
              reserve |-> [t \in Topic |-> 0], peek |-> FALSE, leave |-> {}, calls |-> 3]}
==============================================================================
