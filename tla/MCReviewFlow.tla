---------------------------- MODULE MCReviewFlow ----------------------------
(* ReviewFlow on two subtasks. *)
EXTENDS ReviewFlow, TLC

Symmetry == Permutations(Subtasks)

\* Bound: in a run that is resumed or loses its server there are two requests at most, and
\* a resumed run's git works in a temporary worktree.
Bounded ==
    /\ resumes + crashes = 0 \/ Cardinality({r \in Requests : req[r] # Free}) <= 2
    /\ resumes = 0 \/ ~inCheckout
=============================================================================
