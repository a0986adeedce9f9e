------------------------------- MODULE MCKernel -------------------------------
(* Instances of Kernel for TLC: the idle task and two or three others. *)
EXTENDS Kernel, TLC

CONSTANTS idle, ta, tb, tc, s1, s2, m1

\* The tasks of an instance in the order main() creates them.
Two == <<idle, ta, tb>>
Three == <<idle, ta, tb, tc>>
TwoTasks == ToSet(Two)
ThreeTasks == ToSet(Three)

\* Each task one priority above the one created before it.
TwoRising == [t \in TwoTasks |-> CHOOSE i \in 0..2 : Two[i + 1] = t]
ThreeRising == [t \in ThreeTasks |-> CHOOSE i \in 0..3 : Three[i + 1] = t]

ReadyOf(boot) ==
    [p \in Priority |-> SelectSeq(boot, LAMBDA t : BasePriority[t] = p)]
ReadyTwo == ReadyOf(Two)
ReadyThree == ReadyOf(Three)

Forever == {V_WAIT_FOREVER}
ForeverOr1 == {V_WAIT_FOREVER, 1}
Binary == [s \in Sem |-> 1]
Taken == [s \in Sem |-> 0]
OneFd == {<<s1>>}
TwoFds == {<<s1, s2>>}
==============================================================================
