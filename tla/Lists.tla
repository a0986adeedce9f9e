-------------------------------- MODULE Lists --------------------------------
(***************************************************************************)
(* The intrusive linked lists of the kernel (TCB.next/prev, TCB.wait_next, *)
(* rmutex_t.next_held, v_wnode.next), as sequences whose head is the first *)
(* element.  A node is on a list at most once, so a list is named by its   *)
(* elements.                                                               *)
(***************************************************************************)
EXTENDS Integers, Sequences, FiniteSets, SequencesExt

\* remove_task / wait_q_remove: q without x; q itself when x is not on it.
Unlink(q, x) ==
    IF x \in ToSet(q) THEN RemoveAt(q, CHOOSE i \in DOMAIN q : q[i] = x) ELSE q

\* No node is linked twice.
NoDup(q) == \A i, j \in DOMAIN q : q[i] = q[j] => i = j

\* The length of the longest prefix of q with all its nodes in S.
PrefixLen(q, S) == Cardinality({i \in 1..Len(q) : \A j \in 1..i : q[j] \in S})
==============================================================================
