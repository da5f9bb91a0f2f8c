-------------------------------- MODULE Host --------------------------------
(***************************************************************************)
(* The parts that stand beside the runs on one host.  What they keep is in *)
(* files, databases and processes of their own, and no step of one reads   *)
(* or writes the state of another: a step of the host is a step of one of  *)
(* them, and their steps come in any order.                                *)
(***************************************************************************)
EXTENDS Integers, Sequences, FiniteSets

CONSTANTS
    Askers, Scopes, Texts, MemoryCap, MaxIds, MaxEdits, MaxFailures,    \* of the memory
    Savers, Indexer, Domain, RunLayer, MaxWeight, MaxWork,              \* of the graph
    Trees, Files, MaxVersion, MaxPasses,                                \* of the code index
    Runs, MaxStarts, MaxCancels, MaxApps,                               \* of the processes
    Threads, Browsers, MaxCalls,                                        \* of the browsers
    Levels, Channels, MaxMonth, MaxTicks,                               \* of the alerts
    Names, MaxValue, MaxRequests,                                       \* of the console
    Jsons, Dbs, MaxWrites, MaxBackups, MaxRestores,                     \* of the backups
    Drafts, Typed, Builtin, Custom, Default, PlanCap,                   \* of the plans
    MaxRevisions, MaxSubmits, MaxStops, MaxResumes,
    Suite, Repeats, Shas, Suites,                                       \* of the golden suite
    Tier, Lacking, Jobs, Values, Pinned, MaxCommands,                   \* of what runs share
    MaxCrashes                                                          \* bound, for each part

VARIABLES
    rows, vectors, last, writing, edits, failures, raced, unembedded, doubted, swallowed,
    graphFile, disk, unlinked, mem, place, holder, indexed, loads, graphCrashes, owed,
    removed, distilled, crossed,
    tree, files, chunks, pass, passes, mixed,
    run, call, child, registry, loop, app, apps, starts, cancels, procCrashes, astray, stale,
    pushFile, subs, keyFile, key, minted, handed, op, calls, pushCrashes, members, clash,
    keyRace,
    month, spend, alertFile, state, tick, ticks, alertCrashes, told, reset, missed,
    stores, content, saving, live, cookies, issued, requests, restarts, asked, cut, revoked,
    up, data, kept, filling, staging, aside, restoring, writes, backups, restores, hostCrashes,
    latest, truth,
    editor, hired, row, queued, engine, stored, passed, begun, refused, revisions, submits,
    stops, resumes,
    step, task, attempts, card, cards, engines, lines, newline, recorded, sha, suite, evals,
    evalCrashes,
    started, conf, deps, path, tool, commands, knob, arms, alone, overlapped, command

Mem == INSTANCE Memory WITH call <- writing, Actors <- Askers, Cap <- MemoryCap
Graph == INSTANCE KnowledgeGraph WITH
    Runs <- Savers, file <- graphFile, at <- place, crashes <- graphCrashes
Code == INSTANCE CodeIndex
Proc == INSTANCE Processes WITH crashes <- procCrashes
Subs == INSTANCE PushStore WITH file <- pushFile, crashes <- pushCrashes
Alerts == INSTANCE SpendAlerts WITH file <- alertFile, crashes <- alertCrashes
Users == INSTANCE Console WITH
    MaxCalls <- MaxRequests, file <- stores, calls <- requests, crashes <- restarts
Arch == INSTANCE Backup WITH crashes <- hostCrashes
Plans == INSTANCE Planning WITH
    Cap <- PlanCap, MaxEdits <- MaxRevisions, job <- queued, edits <- revisions
Scores == INSTANCE Evals WITH at <- step, tries <- attempts, crashes <- evalCrashes
Around == INSTANCE Ambient WITH run <- started, job <- arms, last <- command

\* What the parts take for granted.  A store that is capped keeps something: a cap of zero
\* means no cap.
ASSUME MemoryAssumption == MemoryCap \in Nat \ {0}
\* The code indexer saves to the graph, the distiller is somebody else.
ASSUME GraphAssumption == Indexer \in Savers /\ Graph!Distiller \notin Savers
ASSUME IndexAssumption == MaxVersion \in Nat
ASSUME AlertsAssumption == Levels \in Nat /\ MaxMonth \in Nat \ {0}
ASSUME ConsoleAssumption == MaxValue \in Nat
\* A store is either of the two kinds.
ASSUME BackupAssumption == Jsons \cap Dbs = {}
\* Plans are lists; the agent of subtasks of nobody is built in.
ASSUME PlansAssumption ==
    /\ \A p \in Drafts : p \in Seq({p[k] : k \in DOMAIN p})
    /\ Typed \subseteq Drafts /\ Default \in Builtin /\ PlanCap \in Nat
\* A task of the suite has at least one part; a command runs the tasks some number of times.
ASSUME SuiteAssumption ==
    /\ Suite \in Seq([missing : BOOLEAN, setup : BOOLEAN, parts : Nat \ {0}, graded : Nat])
    /\ Repeats \in Seq(Nat)
ASSUME AmbientAssumption == \A j \in Jobs : Len(Values[j]) \in Nat

memory == <<rows, vectors, last, writing, edits, failures, raced, unembedded, doubted,
            swallowed>>
graph == <<graphFile, disk, unlinked, mem, place, holder, indexed, loads, graphCrashes, owed,
           removed, distilled, crossed>>
index == <<tree, files, chunks, pass, passes, mixed>>
processes == <<run, call, child, registry, loop, app, apps, starts, cancels, procCrashes,
               astray, stale>>
browsers == <<pushFile, subs, keyFile, key, minted, handed, op, calls, pushCrashes, members,
              clash, keyRace>>
alerts == <<month, spend, alertFile, state, tick, ticks, alertCrashes, told, reset, missed>>
console == <<stores, content, saving, live, cookies, issued, requests, restarts, asked, cut,
             revoked>>
archives == <<up, data, kept, filling, staging, aside, restoring, writes, backups, restores,
              hostCrashes, latest, truth>>
plans == <<editor, hired, row, queued, engine, stored, passed, begun, refused, revisions,
           submits, stops, resumes>>
evaluation == <<step, task, attempts, card, cards, engines, lines, newline, recorded, sha,
                suite, evals, evalCrashes>>
ambience == <<started, conf, deps, path, tool, commands, knob, arms, alone, overlapped,
              command>>
hostVars == <<memory, graph, index, processes, browsers, alerts, console, archives, plans,
              evaluation, ambience>>

HostInit == /\ Mem!Init /\ Graph!Init /\ Code!Init /\ Proc!Init
            /\ Subs!Init /\ Alerts!Init /\ Users!Init /\ Arch!Init
            /\ Plans!Init /\ Scores!Init /\ Around!Init

\* A step of part k leaves all the others as they are.
Only(k) ==
    /\ IF k = 1 THEN TRUE ELSE UNCHANGED memory
    /\ IF k = 2 THEN TRUE ELSE UNCHANGED graph
    /\ IF k = 3 THEN TRUE ELSE UNCHANGED index
    /\ IF k = 4 THEN TRUE ELSE UNCHANGED processes
    /\ IF k = 5 THEN TRUE ELSE UNCHANGED browsers
    /\ IF k = 6 THEN TRUE ELSE UNCHANGED alerts
    /\ IF k = 7 THEN TRUE ELSE UNCHANGED console
    /\ IF k = 8 THEN TRUE ELSE UNCHANGED archives
    /\ IF k = 9 THEN TRUE ELSE UNCHANGED plans
    /\ IF k = 10 THEN TRUE ELSE UNCHANGED evaluation
    /\ IF k = 11 THEN TRUE ELSE UNCHANGED ambience

MemoryStep == Mem!Next /\ Only(1)
GraphStep == Graph!Next /\ Only(2)
CodeStep == Code!Next /\ Only(3)
ProcessStep == Proc!Next /\ Only(4)
PushStep == Subs!Next /\ Only(5)
AlertStep == Alerts!Next /\ Only(6)
ConsoleStep == Users!Next /\ Only(7)
BackupStep == Arch!Next /\ Only(8)
PlanStep == Plans!Next /\ Only(9)
EvalStep == Scores!Next /\ Only(10)
AmbientStep == Around!Next /\ Only(11)

HostNext == \/ MemoryStep \/ GraphStep \/ CodeStep \/ ProcessStep
            \/ PushStep \/ AlertStep \/ ConsoleStep \/ BackupStep
            \/ PlanStep \/ EvalStep \/ AmbientStep

HostSpec == HostInit /\ [][HostNext]_hostVars

-----------------------------------------------------------------------------
\* The rows of the memory store and their vectors agree, but where calls met on an id, an
\* embedding failed or a lesson was edited; the cap holds in any case (Memory).
MemorySound == Mem!MemorySound

\* What runs saved to the knowledge graph stays, but for saves a distillation or a crash fell
\* into, and what was distilled away comes back only with a run that holds or asserts it; the
\* rows of the code index tell which chunks are there, but where passes met or were cut
\* (KnowledgeGraph, CodeIndex).
KnowledgeSound == Graph!GraphSound /\ Code!IndexSound

\* Every child process has a caller that waits for it, but for those gone astray, until a
\* crash only the last tests of a cancelled run; and what runs of one process share is as a
\* run alone, a tool, and comparisons that do not overlap expect it (Processes, Ambient).
ProcessesSound == Proc!ProcessesSound /\ Around!AmbientSound

\* Browsers that subscribed are told, with the key they know, and every threshold of the
\* month's spend is told once (PushStore, SpendAlerts).
NoticesSound == Subs!PushSound /\ Alerts!AlertsSound

\* The stores the console edits hold what it was told; archives are complete, and no restore
\* deletes anything (Console, Backup).
StoresSound == Users!ConsoleSound /\ Arch!BackupSound

\* Plans that cannot be run are refused and no others, and a resumed run works on the plan
\* it began with (Planning).
PlansSound == Plans!PlansSound

\* The suite is green when everything passed, and its history keeps the scores (Evals).
EvalsSound == Scores!EvalsSound
=============================================================================
