--------------------------- MODULE MCRunLifecycle ---------------------------
EXTENDS RunLifecycle

\* The plans of two subtasks without a cycle.
AcyclicPlans == {p \in [Subtasks -> SUBSET Subtasks] : \E i \in Subtasks : p[i] = {} /\
                    \A j \in Subtasks \ {i} : p[j] \subseteq {i}}
=============================================================================
