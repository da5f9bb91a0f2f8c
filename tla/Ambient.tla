------------------------------ MODULE Ambient -------------------------------
(***************************************************************************)
(* What the runs of one server share without saying so: the sandbox that   *)
(* the run started last has configured (execution.py), PYTHONPATH while a  *)
(* tool's command runs (ToolBox._deps_env), and the knob that an A/B       *)
(* comparison sets in the environment, from a thread (evals/ab.py).        *)
(***************************************************************************)
EXTENDS Integers, FiniteSets, Sequences

CONSTANTS
    Runs, Tier,     \* Tier[r]: the sandbox of r's settings
    Lacking,        \* the tiers whose program is not installed
    Jobs, Values,   \* Values[j]: the knob's values that comparison j goes through
    Pinned,         \* the value the replay settings give the knob's field
    MaxCommands     \* bound

VARIABLES
    run,        \* run -> "idle", "running", "done"
    conf,       \* _SANDBOX_CONFIG; before any run, what the environment says
    deps,       \* the runs with packages of their own
    path,       \* PYTHONPATH: whose packages it leads with, innermost first
    tool,       \* the run whose tool holds the loop, with the path it found
    commands,   \* commands spawned so far
    knob,       \* the knob in the environment
    job,        \* job -> [pc, arm, baseline, prev, value]
    \* history
    alone,      \* the runs since whose start nothing else was configured
    overlapped, \* two comparisons were under way at once
    last        \* the last command: whose, of which kind, in which sandbox, which path

vars == <<run, conf, deps, path, tool, commands, knob, job, alone, overlapped, last>>

PlainTier == "subprocess"
Nobody == [owner |-> {}, prev |-> <<>>]
IdleJob == [pc |-> "idle", arm |-> 1, baseline |-> "ambient", prev |-> "ambient",
            value |-> "ambient"]
NoCommand == [of |-> {}, kind |-> "none", tier |-> PlainTier, path |-> <<>>]

Init == /\ run = [r \in Runs |-> "idle"] /\ conf = PlainTier /\ deps = {} /\ path = <<>>
        /\ tool = Nobody /\ commands = 0
        /\ knob = "ambient" /\ job = [j \in Jobs |-> IdleJob]
        /\ alone = {} /\ overlapped = FALSE /\ last = NoCommand

LoopFree == tool = Nobody
run_vars == <<run, deps, path, tool, commands, last>>
job_vars == <<knob, job, overlapped>>

(* Engine._run_task: the sandbox is bound as the run starts.               *)
Start(r) ==
    /\ LoopFree /\ run[r] = "idle"
    /\ run' = [run EXCEPT ![r] = "running"]
    /\ conf' = Tier[r] /\ alone' = {r}
    /\ UNCHANGED <<deps, path, tool, commands, last, job_vars>>

End(r) ==
    /\ LoopFree /\ run[r] = "running"
    /\ run' = [run EXCEPT ![r] = "done"]
    /\ UNCHANGED <<conf, alone, deps, path, tool, commands, last, job_vars>>

(* _apply_sandbox_backend: a tier whose program is missing falls back.     *)
Applied == IF conf \in Lacking THEN PlainTier ELSE conf

Spawn(r, kind, env) ==
    /\ run[r] = "running" /\ commands < MaxCommands /\ commands' = commands + 1
    /\ last' = [of |-> {r}, kind |-> kind, tier |-> Applied, path |-> env]

(* _deps_env puts back what it found.                                      *)
Restored == tool.prev

(* run_command and run_tests: the command holds the loop until it ends.    *)
Tool(r) ==
    /\ LoopFree
    /\ tool' = [owner |-> {r}, prev |-> path]
    /\ path' = IF r \in deps THEN <<r>> \o path ELSE path
    /\ Spawn(r, "tool", path')
    /\ UNCHANGED <<run, conf, alone, deps, job_vars>>

ToolEnds ==
    /\ ~LoopFree
    /\ path' = IF tool.owner \subseteq deps THEN Restored ELSE path
    /\ tool' = Nobody
    /\ UNCHANGED <<run, conf, alone, deps, commands, last, job_vars>>

(* install_packages, without the packages of the run on the path.          *)
Install(r) ==
    /\ LoopFree /\ Spawn(r, "install", path)
    /\ deps' \in {deps, deps \cup {r}}
    /\ UNCHANGED <<run, conf, alone, path, tool, job_vars>>

(* The checks of a verification are spawned by a thread, at any time.      *)
Check(r) ==
    /\ Spawn(r, "check", path)
    /\ UNCHANGED <<run, conf, alone, deps, path, tool, job_vars>>

-----------------------------------------------------------------------------
Arm(j) == job[j].arm
Value(j) == Values[j][Arm(j)]

(* POST /api/ab: run_ab in a thread.                                       *)
Compare(j) ==
    /\ LoopFree /\ job[j].pc = "idle" /\ Arm(j) = 1
    /\ overlapped' = (overlapped \/ \E i \in Jobs : job[i].pc # "idle")
    /\ job' = [job EXCEPT ![j].pc = "arm", ![j].baseline = knob]
    /\ UNCHANGED <<run_vars, conf, alone, knob>>

Override(j) ==
    /\ job[j].pc = "arm" /\ Arm(j) <= Len(Values[j])
    /\ knob' = Value(j)
    /\ job' = [job EXCEPT ![j].pc = "set", ![j].prev = knob]
    /\ UNCHANGED <<run_vars, conf, alone, overlapped>>

(* _knob_delta: the settings are loaded, and what differs from the ones    *)
(* without the knob is taken over.                                         *)
Load(j) ==
    /\ job[j].pc = "set"
    /\ job' = [job EXCEPT ![j].pc = "run",
                          ![j].value = IF knob = job[j].baseline THEN Pinned ELSE knob]
    /\ UNCHANGED <<run_vars, conf, alone, knob, overlapped>>

(* An arm runs an engine of its own, which configures the sandbox too.     *)
RunArm(j) ==
    /\ job[j].pc = "run" /\ job' = [job EXCEPT ![j].pc = "ran"]
    /\ conf' = PlainTier /\ alone' = {}
    /\ UNCHANGED <<run_vars, knob, overlapped>>

(* The arm is over, or raised, which ends the comparison.                  *)
Restore(j) ==
    /\ job[j].pc \in {"set", "run", "ran"}
    /\ knob' = job[j].prev
    /\ job' = [job EXCEPT ![j].pc = IF @ = "ran" THEN "arm" ELSE "idle",
                          ![j].arm = @ + 1]
    /\ UNCHANGED <<run_vars, conf, alone, overlapped>>

Compared(j) ==
    /\ job[j].pc = "arm" /\ Arm(j) > Len(Values[j])
    /\ job' = [job EXCEPT ![j].pc = "idle"]
    /\ UNCHANGED <<run_vars, conf, alone, knob, overlapped>>

Next == \/ \E r \in Runs : Start(r) \/ End(r) \/ Tool(r) \/ Install(r) \/ Check(r)
        \/ ToolEnds
        \/ \E j \in Jobs : \/ Compare(j) \/ Override(j) \/ Load(j) \/ RunArm(j)
                           \/ Restore(j) \/ Compared(j)

Spec == Init /\ [][Next]_vars

-----------------------------------------------------------------------------
(* A run that nothing else was started after runs its commands in the      *)
(* sandbox of its own settings, or in the weaker one that takes its place. *)
AloneInOwnTier == \A r \in alone : run[r] = "running" => conf = Tier[r]

(* PYTHONPATH is as the server found it whenever no tool's command runs,   *)
(* and a tool's command finds its own packages and nobody else's there.    *)
PathIsOwn == /\ LoopFree => path = <<>>
             /\ last.kind = "tool" => \A k \in DOMAIN last.path : last.path[k] \in last.of
             /\ last.kind = "install" => last.path = <<>>

(* As long as no two comparisons overlapped, the knob is back when none is *)
(* under way, and an arm runs with the value it is named for where that is *)
(* not the one the environment had anyway.                                 *)
KnobIsOwn == ~overlapped =>
    /\ (\A j \in Jobs : job[j].pc \in {"idle", "arm"}) => knob = "ambient"
    /\ \A j \in Jobs : job[j].pc = "ran" =>
            job[j].value = (IF Value(j) = "ambient" THEN Pinned ELSE Value(j))

AmbientSound == AloneInOwnTier /\ PathIsOwn /\ KnobIsOwn

(* Said of the sandbox (engine.py:383-385), not true of it: every command  *)
(* of a run runs in the sandbox of the run's own settings.                 *)
TierIsOwn == \A r \in Runs : r \in last.of =>
                last.tier = (IF Tier[r] \in Lacking THEN PlainTier ELSE Tier[r])

(* Said of the knob (ab.py:10), not true of it: the value it had is always *)
(* restored.                                                               *)
KnobRestored == (\A j \in Jobs : job[j].pc = "idle") => knob = "ambient"

(* Said of an arm (ab.py:157), not true of it: its value is applied, also  *)
(* where it is the one the environment has.                                *)
ArmHasValue == \A j \in Jobs : job[j].pc = "ran" => job[j].value = Value(j)
=============================================================================
