------------------------------- MODULE Server -------------------------------
(***************************************************************************)
(* The server process: its task queue, and beside it what it does on a     *)
(* timer or for a request that starts no run: the GitHub poller, the       *)
(* project registry with its maintenance tick, and the schedules.          *)
(*                                                                         *)
(* Each keeps its state in a file or a table of its own, and no step of    *)
(* one reads or writes the state of another; what a tick enqueues is the   *)
(* Submit of the queue, whichever tick it comes from.  They share one      *)
(* process, so that their steps interleave.                                *)
(***************************************************************************)
EXTENDS TaskQueue, Cron

CONSTANTS
    Issues, Junk, Comments, StreamOf, MaxFaults,                    \* of the poller
    Projects, Workspaces, Workers, MaxOps, MaxHours, MaxCrashes,    \* of the registry
    Ids, Crons, Intervals, MaxRequests, MaxMishaps                  \* of the schedules

VARIABLES
    open, posted, ghClock, started, disk, mem, ghStage, left, dirty, faults, passedOver,
    reg, groups, regTorn, groupsTorn, actor, due, hour, ops, crashes, asked, fires,
    table, minute, stage, snapshot, counted, waiting, requests, mishaps, fired, strays

Poll == INSTANCE GithubPoller WITH clock <- ghClock, runs <- started, stage <- ghStage
Reg == INSTANCE Registry WITH clock <- hour, MaxClock <- MaxHours
Sched == INSTANCE Schedules WITH clock <- minute, started <- counted, MaxClock <- MaxMinutes

ASSUME ServerAssumption ==
    /\ Poll!GithubAssumption /\ Reg!RegistryAssumption /\ Sched!SchedulesAssumption
    /\ Crons \subseteq DOMAIN Expressions

poller == <<open, posted, ghClock, started, disk, mem, ghStage, left, dirty, faults, passedOver>>
registry == <<reg, groups, regTorn, groupsTorn, actor, due, hour, ops, crashes, asked, fires>>
schedules ==
    <<table, minute, stage, snapshot, counted, waiting, requests, mishaps, fired, strays>>
serverVars == <<vars, poller, registry, schedules>>

ServerInit == Init /\ Poll!Init /\ Reg!Init /\ Sched!Init

ServerNext ==
    \/ Next /\ UNCHANGED <<poller, registry, schedules>>
    \/ Poll!Next /\ UNCHANGED <<vars, registry, schedules>>
    \/ Reg!Next /\ UNCHANGED <<vars, poller, schedules>>
    \/ Sched!Next /\ UNCHANGED <<vars, poller, registry>>

ServerSpec == ServerInit /\ [][ServerNext]_serverVars

-----------------------------------------------------------------------------
(* One part at a time: what the others do is nothing to it. *)

\* Where the others stand while one is looked at.
AtRest == ServerInit /\ reg = Reg!Empty

PollerAlone ==
    /\ AtRest
    /\ [][Poll!Next /\ UNCHANGED <<vars, registry, schedules>>]_serverVars
    /\ WF_poller(Poll!Tick)

RegistryAlone ==
    /\ ServerInit
    /\ [][Reg!Next /\ UNCHANGED <<vars, poller, schedules>>]_serverVars
    /\ \A a \in Reg!Actors : WF_registry(Reg!Step(a))
    /\ WF_registry(Reg!Tick)

SchedulesAlone ==
    /\ AtRest
    /\ [][Sched!Next /\ UNCHANGED <<vars, poller, registry>>]_serverVars
    /\ WF_schedules(Sched!Tick)

-----------------------------------------------------------------------------
(* What each of them promises. *)

\* The poller answers everything once, and once more for each time it forgot (GithubPoller).
PollerSound == Poll!PollerSound

\* What is asked on GitHub is answered with a run (GithubPoller).
AllStarted == Poll!AllStarted

\* A project is in one workspace, whose dependencies can be ordered (Registry).
WorkspacesSound == Reg!WorkspacesSound

\* One at a time, the operations on the registry lose nothing (Registry).
RegistryKept == Reg!RegistryKept

\* A project that opts in to maintenance is run (Registry).
OptInServed == Reg!OptInServed

\* next_fire finds the first minute that matches, from any time of the year (Cron).
NextFireIsFirst == FirstFrom(minute)

\* A row fires once for each time it is due (Schedules).
SchedulesSound == Sched!SchedulesSound

\* A due schedule fires (Schedules).
DueIsServed == Sched!DueIsServed

\* All of them, whatever the steps of the others in between.
ServerSound ==
    QueueInv /\ PollerSound /\ WorkspacesSound /\ RegistryKept /\ SchedulesSound
=============================================================================
