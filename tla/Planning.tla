------------------------------ MODULE Planning ------------------------------
(***************************************************************************)
(* From a plan to the subtasks a run works on, for one run id: the plan    *)
(* editor of the console (web/server.py), the orchestrator's clean-up      *)
(* (agents/orchestrator.py), the engine's checks before it starts          *)
(* (engine.py, orchestration/task.py), the plan and the checkpoints a      *)
(* resume reads.  Whoever wrote the plan, model, user or an earlier        *)
(* attempt, it is a list of subtasks with anything in it.                  *)
(*                                                                         *)
(* Default is among Builtin, and Typed among Drafts.                       *)
(***************************************************************************)
EXTENDS Integers, Sequences, FiniteSets

CONSTANTS
    Drafts,         \* what the orchestrator may answer: sequences of subtasks
    Typed,          \* those among them that come by way of the editor
    Builtin,        \* agents that are always there
    Custom,         \* agents the console saves and deletes
    Default,        \* the agent of subtasks of nobody, "researcher"
    Cap,            \* settings.max_plan_subtasks
    MaxEdits, MaxSubmits, MaxStops, MaxResumes      \* bounds

VARIABLES
    editor,     \* the plan on the screen
    hired,      \* custom_agents.json
    row,        \* the status of the run
    job,        \* its entry in the queue: the plan that came along, if any
    engine,     \* the attempt under way: its plan, agents, finished subtasks
    stored,     \* plan_json
    passed,     \* checkpoints: subtask id -> the subtask that passed under it
    \* history
    begun,      \* the plan the first accepted attempt worked on
    refused,    \* the plan refused last
    edits, submits, stops, resumes

vars == <<editor, hired, row, job, engine, stored, passed, begun, refused, edits, submits,
          stops, resumes>>

NoPlan == [some |-> FALSE, tasks |-> <<>>]
Plan(p) == [some |-> TRUE, tasks |-> p]
NoJob == [some |-> FALSE, plan |-> NoPlan, resume |-> FALSE]
Job(p, again) == [some |-> TRUE, plan |-> p, resume |-> again]
Idle == [at |-> "none"]
Ids(p) == {p[k].id : k \in DOMAIN p}

Init == /\ editor = NoPlan /\ hired \in SUBSET Custom
        /\ row = "absent" /\ job = NoJob /\ engine = Idle
        /\ stored = NoPlan
        /\ passed = [i \in UNION {Ids(p) : p \in Drafts} |-> {}]
        /\ begun = NoPlan /\ refused = NoPlan
        /\ edits = 0 /\ submits = 0 /\ stops = 0 /\ resumes = 0

(* _sanitize: unknown agents give way to the default one, dependencies on  *)
(* nothing or on oneself go.                                               *)
Sanitized(p, known) == [k \in DOMAIN p |->
    [id |-> p[k].id, what |-> p[k].what,
     needs |-> {d \in p[k].needs : d \in Ids(p) /\ d # p[k].id},
     agent |-> IF p[k].agent \in known THEN p[k].agent ELSE Default]]

(* Kahn's sort in validate takes subtasks off as long as what one needs is *)
(* off: in the end the least set is off that lets no more come off.        *)
NoMore(p, off) == \A k \in DOMAIN p :
    p[k].needs \subseteq {p[j].id : j \in off} => k \in off
Sorted(p) == {k \in DOMAIN p : \A off \in SUBSET DOMAIN p : NoMore(p, off) => k \in off}

(* The size cap, and validate: duplicate ids, dangling needs, cycles.      *)
Accepted(p) ==
    /\ Cardinality(Ids(p)) <= Cap
    /\ Cardinality(Ids(p)) = Len(p)
    /\ \A k \in DOMAIN p : p[k].needs \subseteq Ids(p)
    /\ Sorted(p) = DOMAIN p

-----------------------------------------------------------------------------
(* POST /api/plan, and /api/plan/refine, which takes the plan on the       *)
(* screen along; each answers with a run id of its own.                    *)
MakePlan == /\ row = "absent" /\ edits < MaxEdits /\ edits' = edits + 1
            /\ \E p \in Typed : editor' = Plan(Sanitized(p, Builtin \cup hired))
            /\ UNCHANGED <<hired, row, job, engine, stored, passed, begun, refused, submits,
                           stops, resumes>>

(* The user changes the plan; nothing looks at it before the run does.     *)
Edit == /\ editor.some /\ edits < MaxEdits /\ edits' = edits + 1
        /\ \E p \in Typed : editor' = Plan(p)
        /\ UNCHANGED <<hired, row, job, engine, stored, passed, begun, refused, submits,
                       stops, resumes>>

(* Custom agents come and go.                                              *)
Hire == /\ edits < MaxEdits /\ edits' = edits + 1
        /\ \E a \in Custom : hired' = IF a \in hired THEN hired \ {a} ELSE hired \cup {a}
        /\ UNCHANGED <<editor, row, job, engine, stored, passed, begun, refused, submits,
                       stops, resumes>>

Enqueue(j) == row' = "queued" /\ job' = j

(* POST /api/run with the plan on the screen and the id that came with it: *)
(* the id may be in use, by a request that came twice.                     *)
Approve == /\ editor.some /\ submits < MaxSubmits /\ submits' = submits + 1
           /\ Enqueue(Job(editor, FALSE))
           /\ UNCHANGED <<editor, hired, engine, stored, passed, begun, refused, edits, stops,
                          resumes>>

(* POST /api/run and a playbook: no plan, and an id of its own.            *)
RunUnplanned == /\ row = "absent" /\ ~editor.some
                /\ submits < MaxSubmits /\ submits' = submits + 1
                /\ Enqueue(Job(NoPlan, FALSE))
                /\ UNCHANGED <<editor, hired, engine, stored, passed, begun, refused, edits,
                               stops, resumes>>

(* resume_task refuses a run that is on or that ended well.                *)
Resume == /\ engine = Idle /\ row \in {"failed", "stopped"}
          /\ resumes < MaxResumes /\ resumes' = resumes + 1
          /\ Enqueue(Job(NoPlan, TRUE))
          /\ UNCHANGED <<editor, hired, engine, stored, passed, begun, refused, edits, submits,
                         stops>>

(* _pump drops the entry of a run that is on; _run_task builds the engine, *)
(* with the agents of the moment.                                          *)
Start == /\ job.some /\ job' = NoJob
         /\ IF engine # Idle THEN UNCHANGED <<row, engine>>
            ELSE /\ row' = "running"
                 /\ engine' = [at |-> "preparing", plan |-> job.plan, resume |-> job.resume,
                               known |-> Builtin \cup hired]
         /\ UNCHANGED <<editor, hired, stored, passed, begun, refused, edits, submits, stops,
                        resumes>>

(* Mutant: a resume without the plan that came along plans afresh.         *)
MutantChosen(e) == IF e.plan.some THEN {e.plan.tasks} ELSE Drafts

(* The plan a run works on: the one that came along, or the checkpointed   *)
(* one, or what the orchestrator answers.                                  *)
Chosen(e) == CASE e.plan.some -> {e.plan.tasks}
               [] ~e.plan.some /\ e.resume -> {stored.tasks}
               [] OTHER -> Drafts

Refuse(p) == /\ row' = "failed" /\ engine' = Idle /\ refused' = p
             /\ UNCHANGED <<stored, begun>>

(* A resume with nothing stored fails loudly.                              *)
NothingToResume == /\ engine.at = "preparing"
                   /\ engine.resume /\ ~engine.plan.some /\ ~stored.some
                   /\ Refuse(refused)
                   /\ UNCHANGED <<editor, hired, job, passed, edits, submits, stops, resumes>>

(* The plan is cleaned, checked, stored; a resume takes over what passed.  *)
Ready ==
    /\ engine.at = "preparing"
    /\ engine.resume /\ ~engine.plan.some => stored.some
    /\ \E p \in Chosen(engine) :
          LET clean == Sanitized(p, engine.known)
          IN  IF ~Accepted(clean) THEN Refuse(Plan(clean))
              ELSE /\ row' = "running" /\ stored' = Plan(clean)
                   /\ begun' = IF begun.some THEN begun ELSE Plan(clean)
                   /\ engine' = [at |-> "running", plan |-> clean, known |-> engine.known,
                                 done |-> IF engine.resume
                                          THEN {i \in Ids(clean) : passed[i] # {}} ELSE {}]
                   /\ UNCHANGED refused
    /\ UNCHANGED <<editor, hired, job, passed, edits, submits, stops, resumes>>

Open(e) == {k \in DOMAIN e.plan : e.plan[k].id \notin e.done}

(* The scheduler, in short: a subtask passes once those it needs have, and *)
(* is checkpointed.                                                        *)
Pass == /\ engine.at = "running"
        /\ \E k \in Open(engine) :
              /\ engine.plan[k].needs \subseteq engine.done
              /\ engine' = [engine EXCEPT !.done = @ \cup {engine.plan[k].id}]
              /\ passed' = [passed EXCEPT ![engine.plan[k].id] = {engine.plan[k]}]
        /\ UNCHANGED <<editor, hired, row, job, stored, begun, refused, edits, submits, stops,
                       resumes>>

(* A run of no subtasks counts as failed.                                  *)
End == /\ engine.at = "running" /\ Open(engine) = {}
       /\ engine' = Idle
       /\ row' = IF engine.plan = <<>> THEN "failed" ELSE "completed"
       /\ UNCHANGED <<editor, hired, job, stored, passed, begun, refused, edits, submits,
                      stops, resumes>>

(* Cancelled, failed, or a task that failed with the rest undone.          *)
Stop == /\ engine # Idle /\ stops < MaxStops /\ stops' = stops + 1
        /\ engine' = Idle /\ row' = "stopped"
        /\ UNCHANGED <<editor, hired, job, stored, passed, begun, refused, edits, submits,
                       resumes>>

(* The server goes down and comes up: a running row is interrupted, and    *)
(* the queue keeps only what is not over.                                  *)
Restart == /\ engine # Idle /\ stops < MaxStops /\ stops' = stops + 1
           /\ engine' = Idle
           /\ row' = IF row = "running" THEN "stopped" ELSE row
           /\ job' = IF row' = "queued" THEN job ELSE NoJob
           /\ UNCHANGED <<editor, hired, stored, passed, begun, refused, edits, submits,
                          resumes>>

Next == \/ MakePlan \/ Edit \/ Hire \/ Approve \/ RunUnplanned \/ Resume \/ Start
        \/ NothingToResume \/ Ready \/ Pass \/ End \/ Stop \/ Restart

Spec == Init /\ [][Next]_vars

-----------------------------------------------------------------------------
Working == engine.at = "running"

(* A plan is in order when its subtasks can be numbered so that each needs *)
(* only earlier ones: ids differ, and nothing waits for itself.            *)
InOrder(p) ==
    /\ \A j, k \in DOMAIN p : p[j].id = p[k].id => j = k
    /\ \E rank \in [Ids(p) -> 1 .. Len(p)] :
          \A k \in DOMAIN p : \A d \in p[k].needs : d \in Ids(p) /\ rank[d] < rank[p[k].id]

(* Whoever wrote it, the plan a run works on is in order and names agents  *)
(* the engine has, so that no session is asked for one that is not there.  *)
WellFormed == Working => /\ InOrder(engine.plan) /\ Len(engine.plan) <= Cap
                         /\ \A k \in DOMAIN engine.plan : engine.plan[k].agent \in engine.known

(* No plan is refused that is in order and small enough.                   *)
RefusedIsWrong == refused.some => ~InOrder(refused.tasks) \/ Len(refused.tasks) > Cap

(* A run never waits for subtasks that wait for each other.                *)
NeverStuck == Working /\ Open(engine) # {} =>
    \E k \in Open(engine) : engine.plan[k].needs \subseteq engine.done

(* The work of a plan: its subtasks without the agents, who may have gone. *)
Work(p) == [k \in DOMAIN p |-> [id |-> p[k].id, what |-> p[k].what, needs |-> p[k].needs]]

(* An id submitted once stands for one plan, however often it is resumed   *)
(* and whatever becomes of the agents.                                     *)
ResumedAsPlanned == Working /\ submits <= 1 => Work(engine.plan) = Work(begun.tasks)

(* What a checkpoint says has passed is the subtask of the plan at hand.   *)
Fits(i) == \A s \in passed[i] : \E k \in DOMAIN engine.plan :
    /\ engine.plan[k].id = i
    /\ engine.plan[k].what = s.what /\ engine.plan[k].needs = s.needs
CheckpointsFitOnce == Working /\ submits <= 1 => \A i \in engine.done : Fits(i)

PlansSound == /\ WellFormed /\ RefusedIsWrong /\ NeverStuck
              /\ ResumedAsPlanned /\ CheckpointsFitOnce

(* engine.py:394 "new subtask ids get matched against old checkpoints":    *)
(* they do when an id is approved twice, with a change in between, and the *)
(* second attempt is stopped and resumed.                                  *)
CheckpointsFit == Working => \A i \in engine.done : Fits(i)
=============================================================================
