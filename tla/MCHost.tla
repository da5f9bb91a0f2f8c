------------------------------- MODULE MCHost -------------------------------
(* Host on a few of everything, with one part that moves in a behaviour. *)
EXTENDS Host

VARIABLE part

\* Plans: all ways for three subtasks to need each other, and plans with nothing in them,
\* with an id twice, with one subtask too many, or with agents who may be gone.
Subtask(i, what, needs, agent) == [id |-> i, what |-> what, needs |-> needs, agent |-> agent]
Shapes == {[k \in 1..3 |-> Subtask(k, "x", f[k], "researcher")] : f \in [1..3 -> SUBSET (1..3)]}
MCTyped == { <<>>,
    <<Subtask(1, "x", {}, "custom"), Subtask(1, "x", {}, "custom")>>,
    [k \in 1..4 |-> Subtask(k, "x", {}, "custom")],
    <<Subtask(1, "x", {}, "custom"), Subtask(2, "x", {1}, "nobody")>>,
    <<Subtask(1, "x", {2}, "custom"), Subtask(2, "x", {1}, "custom")>>,
    <<Subtask(1, "y", {9}, "custom")>> }
MCDrafts == Shapes \cup MCTyped

\* A suite of three tasks: one whose tool is missing, one that nothing grades, and one of
\* two projects with two graders.
Golden(missing, setup, parts, graded) ==
    [missing |-> missing, setup |-> setup, parts |-> parts, graded |-> graded]
MCSuite == <<Golden(TRUE, FALSE, 1, 0), Golden(FALSE, FALSE, 1, 0), Golden(FALSE, TRUE, 2, 2)>>
MCRepeats == <<2, 1, 1>>

\* One sandbox is missing; one comparison goes through the value there is.
MCTier == [r1 |-> "container", r2 |-> "bwrap"]
MCValues == [j1 |-> <<"v1", "ambient">>, j2 |-> <<"v2">>]

\* Where the others stand while one is looked at.
AtRest == /\ part # 9 => hired = {}
          /\ part # 10 => sha = "a" /\ suite = "golden"

MCInit == part \in 1..11 /\ HostInit /\ AtRest
MCNext ==
    /\ UNCHANGED part
    /\ \/ part = 1 /\ MemoryStep
       \/ part = 2 /\ GraphStep
       \/ part = 3 /\ CodeStep
       \/ part = 4 /\ ProcessStep
       \/ part = 5 /\ PushStep
       \/ part = 6 /\ AlertStep
       \/ part = 7 /\ ConsoleStep
       \/ part = 8 /\ BackupStep
       \/ part = 9 /\ PlanStep
       \/ part = 10 /\ EvalStep
       \/ part = 11 /\ AmbientStep
Spec == MCInit /\ [][MCNext]_<<hostVars, part>>
=============================================================================
