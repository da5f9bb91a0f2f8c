------------------------------ MODULE Processes ------------------------------
(***************************************************************************)
(* The child processes of the server (execution.py and its callers): the   *)
(* commands of an agent's tools, which run on the event loop itself; the   *)
(* tests at the end of a run, awaited on it; the checks of a verification, *)
(* in threads; and the app of a project's checkout.  Children of the first *)
(* two kinds are registered under the run's id for the kill of a cancel.   *)
(***************************************************************************)
EXTENDS Integers, FiniteSets

CONSTANTS
    Runs,
    MaxStarts,  \* bound: commands started
    MaxCancels, MaxCrashes, MaxApps \* bounds

VARIABLES
    run,        \* "execute", "finalize", "closed" or "cancelled"
    call,       \* run -> kind -> what its caller is doing
    child,      \* run -> kind -> is the process of the last call alive
    registry,   \* _process_registry: which of them are registered
    loop,       \* the run whose tool holds the event loop, if any
    app,        \* _app_procs: the project's app, as the server knows it
    apps,       \* apps alive, by number
    starts, cancels, crashes,
    \* history
    astray,     \* children nobody waits for
    stale       \* a kill went to a process already reaped

vars == <<run, call, child, registry, loop, app, apps, starts, cancels, crashes,
          astray, stale>>

Kinds == {"tool", "tests", "check"}
Tagged == {"tool", "tests"}
Pairs == Runs \X Kinds
Free == {}

Init == /\ run = [r \in Runs |-> "execute"]
        /\ call = [p \in Pairs |-> "none"]
        /\ child = [p \in Pairs |-> FALSE]
        /\ registry = {} /\ loop = Free
        /\ app = 0 /\ apps = {}
        /\ starts = 0 /\ cancels = 0 /\ crashes = 0
        /\ astray = {} /\ stale = FALSE

(* Mutant: a tool's command runs in a thread, beside the loop.             *)
MutantHeld(r, kind) == Free
Held(r, kind) == IF kind = "tool" THEN {r} ELSE loop

(* run_command and run_command_sync up to the wait: the group's id is      *)
(* registered when there is a tag, and the checks give none.               *)
Start(r, kind) ==
    /\ call[<<r, kind>>] = "none" /\ ~child[<<r, kind>>] /\ starts < MaxStarts
    /\ run[r] = IF kind = "tests" THEN "finalize" ELSE "execute"
    /\ loop = Free
    /\ call' = [call EXCEPT ![<<r, kind>>] = "waiting"]
    /\ child' = [child EXCEPT ![<<r, kind>>] = TRUE]
    /\ registry' = IF kind \in Tagged THEN registry \cup {<<r, kind>>} ELSE registry
    /\ loop' = Held(r, kind)
    /\ starts' = starts + 1
    /\ UNCHANGED <<run, app, apps, cancels, crashes, astray, stale>>

(* The process ends by itself, or its whole group is killed at the timeout *)
Exit(r, kind) ==
    /\ child[<<r, kind>>]
    /\ child' = [child EXCEPT ![<<r, kind>>] = FALSE]
    /\ astray' = astray \ {<<r, kind>>}
    /\ UNCHANGED <<run, call, registry, loop, app, apps, starts, cancels, crashes, stale>>

(* communicate returns and the finally clause unregisters: for a tool still*)
(* on the loop, for a check in its thread.                                 *)
Return(r, kind) ==
    /\ call[<<r, kind>>] = "waiting" /\ ~child[<<r, kind>>]
    /\ kind = "tests" => loop = Free
    /\ call' = [call EXCEPT ![<<r, kind>>] = "none"]
    /\ registry' = registry \ {<<r, kind>>}
    /\ loop' = IF kind = "tool" THEN Free ELSE loop
    /\ UNCHANGED <<run, child, app, apps, starts, cancels, crashes, astray, stale>>

(* The engine goes on: to the tests of the finished run, then to its end.  *)
Finalize(r) ==
    /\ loop = Free /\ run[r] = "execute"
    /\ \A k \in Kinds : call[<<r, k>>] = "none"
    /\ run' = [run EXCEPT ![r] = "finalize"]
    /\ UNCHANGED <<call, child, registry, loop, app, apps, starts, cancels, crashes,
                   astray, stale>>

Close(r) ==
    /\ loop = Free /\ run[r] = "finalize" /\ call[<<r, "tests">>] = "none"
    /\ run' = [run EXCEPT ![r] = "closed"]
    /\ UNCHANGED <<call, child, registry, loop, app, apps, starts, cancels, crashes,
                   astray, stale>>

(* terminate_tag: the registered groups of a run.                          *)
Terminated(R, r) == {p \in R : p[1] = r}

(* A cancel is delivered at an await.  The awaited tests leave through     *)
(* their finally clause, unregistered and alive, before the engine asks    *)
(* for the kill of what the run has registered; a check's thread goes on.  *)
Cancel(r) ==
    /\ loop = Free /\ run[r] \in {"execute", "finalize"} /\ cancels < MaxCancels
    /\ LET left == registry \ {<<r, "tests">>}
           hit == Terminated(left, r)
           dead == {p \in hit : ~child[p]}
       IN  /\ registry' = left \ hit
           /\ child' = [p \in Pairs |-> child[p] /\ p \notin hit]
           /\ stale' = (stale \/ dead # {})
    /\ astray' = astray \cup {p \in {<<r, "tests">>} : child[p]}
    /\ call' = [call EXCEPT ![<<r, "tests">>] = "none"]
    /\ run' = [run EXCEPT ![r] = "cancelled"]
    /\ cancels' = cancels + 1
    /\ UNCHANGED <<loop, app, apps, starts, crashes>>

(* A resumed run executes again in the same workspace.                     *)
Resume(r) ==
    /\ loop = Free /\ run[r] = "cancelled"
    /\ run' = [run EXCEPT ![r] = "execute"]
    /\ UNCHANGED <<call, child, registry, loop, app, apps, starts, cancels, crashes,
                   astray, stale>>

(* start_project_app: one app of the project at a time, in a session of    *)
(* its own.                                                                *)
StartApp ==
    /\ loop = Free /\ app \notin apps /\ app < MaxApps
    /\ \E n \in 1 .. MaxApps :
          /\ n \notin apps /\ n > app
          /\ app' = n /\ apps' = apps \cup {n}
    /\ UNCHANGED <<run, call, child, registry, loop, starts, cancels, crashes, astray, stale>>

(* The app ends: on the SIGTERM of stop_project_app, when it pleases, or   *)
(* of itself.  What the server knows of it is read off the process.        *)
EndApp(n) ==
    /\ n \in apps
    /\ apps' = apps \ {n}
    /\ UNCHANGED <<run, call, child, registry, loop, app, starts, cancels, crashes,
                   astray, stale>>

(* The server dies with its threads; every child is in its own session.    *)
Crash ==
    /\ crashes < MaxCrashes
    /\ run' = [r \in Runs |-> IF run[r] = "closed" THEN "closed" ELSE "cancelled"]
    /\ call' = [p \in Pairs |-> "none"]
    /\ registry' = {} /\ loop' = Free /\ app' = 0
    /\ astray' = {p \in Pairs : child[p]}
    /\ crashes' = crashes + 1
    /\ UNCHANGED <<child, apps, starts, cancels, stale>>

Next ==
    \/ \E r \in Runs, k \in Kinds : Start(r, k) \/ Exit(r, k) \/ Return(r, k)
    \/ \E r \in Runs : Finalize(r) \/ Close(r) \/ Cancel(r) \/ Resume(r)
    \/ StartApp \/ \E n \in 1 .. MaxApps : EndApp(n)
    \/ Crash

(* A child process has a caller that waits for it, unless it went astray;  *)
(* until a crash only the tests of a run's end do that, by a cancel that   *)
(* reaches the run there.                                                  *)
EachIsWaitedFor == \A p \in Pairs : child[p] => call[p] = "waiting" \/ p \in astray

StrayAreTests == crashes = 0 => \A p \in astray : p[2] = "tests"

(* The kill of a cancel never reaches the id of a process already reaped,  *)
(* which the system may have given to another: commands of tools hold the  *)
(* loop until they are unregistered.                                       *)
NoStaleKill == ~stale

(* What is registered is what its caller waits for.                        *)
RegisteredIsWaited == \A p \in registry : call[p] = "waiting" /\ p[2] \in Tagged

(* A project has one app at a time, until a crash forgets it.              *)
OneApp == crashes = 0 => Cardinality(apps) <= 1

ProcessesSound == EachIsWaitedFor /\ StrayAreTests /\ NoStaleKill /\ RegisteredIsWaited /\ OneApp

(* execution.py:281 "children spawned by run_command/run_workspace_tests   *)
(* do not outlive a cancelled run": the tests of its end do.               *)
NoneOutlivesCancel == \A r \in Runs, k \in Tagged :
    run[r] = "cancelled" /\ crashes = 0 => ~child[<<r, k>>]
=============================================================================
