------------------------------ MODULE Registry ------------------------------
(***************************************************************************)
(* The project registry (projects.py), the workspaces that group projects  *)
(* (workspaces.py) and the maintenance policy kept inside a project's      *)
(* policy (maintenance.py), with the tick that starts maintenance runs.    *)
(*                                                                         *)
(* Each of the two JSON files is read whole and written whole, without a   *)
(* lock: the event loop serves create, archive, policy and workspace       *)
(* requests itself, and hands import, delete, the maintenance policy and   *)
(* the tick's marks to worker threads.  A write truncates the file before  *)
(* it fills it, and a file that does not parse counts as empty; the        *)
(* registry is then written back with the default project alone, which     *)
(* always exists and is left out here.                                     *)
(***************************************************************************)
EXTENDS Integers, Sequences, FiniteSets, Functions

CONSTANTS
    Projects, Workspaces,
    Workers,        \* threads that serve requests; a subset of Actors
    MaxOps,         \* bound: requests served
    MaxClock,       \* bound: hours, the cadence of maintenance being one
    MaxCrashes      \* bound

\* What is assumed of them.
RegistryAssumption ==
    /\ IsFiniteSet(Projects) /\ IsFiniteSet(Workspaces) /\ IsFiniteSet(Workers)
    /\ {"loop", "tick"} \cap Workers = {}
    /\ MaxOps \in Nat /\ MaxClock \in Nat \ {0} /\ MaxCrashes \in Nat

VARIABLES
    reg, groups,        \* the two files
    regTorn, groupsTorn,\* truncated and not yet filled, each
    actor,              \* the operation each actor is in
    due,                \* projects the tick still has to mark
    clock, ops, crashes,
    asked,              \* history: what the operations that ended ask the files to hold
    fires               \* history: maintenance runs enqueued, by project, since it was registered,
                        \* and hour

files == <<reg, groups, regTorn, groupsTorn>>
vars == <<files, actor, due, clock, ops, crashes, asked, fires>>

Actors == {"loop", "tick"} \cup Workers
Hours == 1..MaxClock

NewEntry == [archived |-> FALSE, policy |-> [budget |-> FALSE, on |-> FALSE, last |-> 0]]
Empty == <<>>
NoGroup == [members |-> {}, deps |-> {}]

\* A project that is deleted leaves its workspace first.  Mutant: it does not.
DeleteInPlace == <<"look", "reg">>
DeletePhases == <<"look", "groups", "reg">>

\* What an operation does, in order: a look at the registry, a change of either file.
Phases(kind) ==
    CASE kind \in {"register", "archive"} -> <<"reg">>
      [] kind \in {"policy", "maintain", "mark"} -> <<"look", "reg">>
      [] kind = "delete" -> DeletePhases
      [] kind = "assign" -> <<"look", "groups">>
      [] kind \in {"unassign", "ungroup", "deps"} -> <<"groups">>
      [] kind = "due" -> <<"look">>

LoopKinds == {"register", "archive", "policy", "assign", "unassign", "ungroup", "deps"}
WorkerKinds == {"register", "maintain", "delete"}

Idle == [kind |-> "none", p |-> "none", w |-> "none", todo |-> <<>>, step |-> "read",
         entries |-> Empty, policy |-> NewEntry.policy, copy |-> [w \in Workspaces |-> NoGroup]]

Busy(a) == actor[a].todo # <<>>
Phase(a) == Head(actor[a].todo)

\* Nothing yet, or some projects in one workspace.
First == CHOOSE w \in Workspaces : TRUE
Init ==
    /\ \E S \in {{}, Projects} :
        /\ reg = [p \in S |-> NewEntry]
        /\ groups = [w \in Workspaces |->
                       IF w = First THEN [NoGroup EXCEPT !.members = S] ELSE NoGroup]
    /\ regTorn = FALSE /\ groupsTorn = FALSE
    /\ actor = [a \in Actors |-> Idle] /\ due = {}
    /\ clock = 1 /\ ops = 0 /\ crashes = 0
    /\ asked = [reg |-> reg, disturbed |-> FALSE]
    /\ fires = [p \in Projects |-> [h \in Hours |-> 0]]

-----------------------------------------------------------------------------
(* What an operation makes of the files it read. *)

\* _cadence_elapsed: never run, or an hour ago.  Mutants: an hour is not waited
\* for; a first run is.
ElapsedAlways(last) == last <= clock
ElapsedLater(last) == last # 0 /\ last + 1 <= clock
Elapsed(last) == last = 0 \/ last + 1 <= clock

Due(items) ==
    {p \in DOMAIN items :
        ~items[p].archived /\ items[p].policy.on /\ Elapsed(items[p].policy.last)}

Marked(policy) == [policy EXCEPT !.last = clock]

Applies(o, items) == IF o.kind = "register" THEN o.p \notin DOMAIN items ELSE o.p \in DOMAIN items

\* _update_entry replaces the policy by the one merged from an earlier look.
Registered(o, items) ==
    CASE o.kind = "register" ->
           [p \in DOMAIN items \cup {o.p} |-> IF p = o.p THEN NewEntry ELSE items[p]]
      [] o.kind = "archive" -> [items EXCEPT ![o.p].archived = ~items[o.p].archived]
      [] o.kind = "policy" -> [items EXCEPT ![o.p].policy = [o.policy EXCEPT !.budget = TRUE]]
      [] o.kind = "maintain" -> [items EXCEPT ![o.p].policy = [o.policy EXCEPT !.on = TRUE]]
      [] o.kind = "mark" -> [items EXCEPT ![o.p].policy = Marked(o.policy)]
      [] o.kind = "delete" -> Restrict(items, DOMAIN items \ {o.p})

\* _remove_member prunes every dependency that touches the member.
\* Mutant: it drops the member alone.
RemoveMemberOnly(g, p) == [g EXCEPT !.members = @ \ {p}]
RemoveMember(g, p) ==
    [members |-> g.members \ {p}, deps |-> {d \in g.deps : p \notin {d[1], d[2]}}]

\* _dependency_waves never gets stuck: of whatever remains, something depends on none of it.
Acyclic(D) ==
    \A rest \in (SUBSET Projects) \ {{}} :
        \E p \in rest : \A q \in rest : <<p, q>> \notin D

\* A project is in one workspace: assigning moves it.
Assigned(o, g) ==
    [w \in Workspaces |-> IF w = o.w THEN [g[w] EXCEPT !.members = @ \cup {o.p}]
                          ELSE RemoveMember(g[w], o.p)]

Grouped(o, g) ==
    CASE o.kind = "assign" -> {Assigned(o, g)}
      [] o.kind = "unassign" -> {[g EXCEPT ![o.w] = RemoveMember(@, o.p)]}
      [] o.kind = "delete" -> {[w \in Workspaces |-> RemoveMember(g[w], o.p)]}
      [] o.kind = "ungroup" -> {[g EXCEPT ![o.w] = NoGroup]}
      [] o.kind = "deps" ->
           {[g EXCEPT ![o.w].deps = D] : D \in {D \in SUBSET (g[o.w].members \X g[o.w].members) : Acyclic(D)}}

-----------------------------------------------------------------------------
(* Steps of an actor. *)

Set(a, o) == actor' = [actor EXCEPT ![a] = o]
Rest(o) == IF Len(o.todo) = 1 THEN Idle ELSE [o EXCEPT !.todo = Tail(o.todo), !.step = "read"]

Disturbs(a) == \E b \in Actors \ {a} : Busy(b)
Starts(a, o) ==
    /\ ~Busy(a)
    /\ Set(a, [o EXCEPT !.todo = Phases(o.kind)])
    /\ asked' = [asked EXCEPT !.disturbed = @ \/ Disturbs(a)]

Request(a) ==
    /\ ops < MaxOps /\ ops' = ops + 1
    /\ \E k \in (IF a = "loop" THEN LoopKinds ELSE WorkerKinds), p \in Projects, w \in Workspaces :
         Starts(a, [Idle EXCEPT !.kind = k, !.p = p, !.w = w])
    /\ UNCHANGED <<files, due, clock, crashes, fires>>

\* The registry is read.  One that does not parse is empty, and about to be written so.
LooksUp(a, items) ==
    LET o == actor[a]
    IN  IF o.kind = "due"
        THEN /\ Set(a, Idle)
             /\ due' = Due(items)
             /\ fires' = [p \in Projects |->
                            [fires[p] EXCEPT ![clock] = @ + (IF p \in Due(items) THEN 1 ELSE 0)]]
        ELSE /\ Set(a, CASE Phase(a) = "look" /\ o.p \in DOMAIN items ->
                              Rest([o EXCEPT !.policy = items[o.p].policy])
                         [] Phase(a) = "reg" /\ Applies(o, items) ->
                              [o EXCEPT !.entries = items, !.step = "truncate"]
                         [] OTHER -> Idle)
             /\ UNCHANGED <<due, fires>>

Reads(a) ==
    /\ Busy(a) /\ Phase(a) \in {"look", "reg"} /\ actor[a].step = "read"
    /\ IF regTorn
       THEN Set(a, [actor[a] EXCEPT !.step = "heal"]) /\ UNCHANGED <<due, fires>>
       ELSE LooksUp(a, reg)
    /\ UNCHANGED <<files, clock, ops, crashes, asked>>

Heals(a) ==
    /\ Busy(a) /\ actor[a].step = "heal"
    /\ reg' = Empty /\ regTorn' = FALSE
    /\ LooksUp(a, Empty)
    /\ UNCHANGED <<groups, groupsTorn, clock, ops, crashes, asked>>

\* A delete whose project is in no workspace leaves the workspaces alone.
ReadsGroups(a) ==
    /\ Busy(a) /\ Phase(a) = "groups" /\ actor[a].step = "read"
    /\ LET o == actor[a]
           member == \E w \in Workspaces : o.p \in groups[w].members
       IN  Set(a, CASE o.kind = "delete" /\ (groupsTorn \/ ~member) -> Rest(o)
                    [] o.kind = "unassign" /\ ~groupsTorn /\ o.p \notin groups[o.w].members -> Idle
                    [] groupsTorn /\ o.kind # "delete" -> Idle
                    [] OTHER -> [o EXCEPT !.copy = groups, !.step = "truncate"])
    /\ UNCHANGED <<files, due, clock, ops, crashes, asked, fires>>

Truncates(a) ==
    /\ Busy(a) /\ actor[a].step = "truncate"
    /\ Set(a, [actor[a] EXCEPT !.step = "fill"])
    /\ IF Phase(a) = "reg" THEN regTorn' = TRUE /\ UNCHANGED groupsTorn
                           ELSE groupsTorn' = TRUE /\ UNCHANGED regTorn
    /\ UNCHANGED <<reg, groups, due, clock, ops, crashes, asked, fires>>

FillsRegistry(a) ==
    /\ Busy(a) /\ Phase(a) = "reg" /\ actor[a].step = "fill"
    /\ LET o == actor[a]
       IN  /\ reg' = Registered(o, o.entries) /\ regTorn' = FALSE
           /\ asked' = IF asked.disturbed THEN asked
                       ELSE [asked EXCEPT !.reg = Registered([o EXCEPT !.policy =
                                 IF o.p \in DOMAIN asked.reg THEN asked.reg[o.p].policy ELSE o.policy],
                                                                    asked.reg)]
           /\ fires' = IF o.kind = "delete" THEN [fires EXCEPT ![o.p] = [h \in Hours |-> 0]]
                       ELSE fires
           /\ Set(a, Idle)
    /\ UNCHANGED <<groups, groupsTorn, due, clock, ops, crashes>>

FillsGroups(a) ==
    /\ Busy(a) /\ Phase(a) = "groups" /\ actor[a].step = "fill"
    /\ groups' \in Grouped(actor[a], actor[a].copy) /\ groupsTorn' = FALSE
    /\ Set(a, Rest(actor[a]))
    /\ UNCHANGED <<reg, regTorn, due, clock, ops, crashes, asked, fires>>

-----------------------------------------------------------------------------
(* The tick, the clock and crashes. *)

\* Due projects are read and their runs enqueued; then each is marked, once.
TickLooks ==
    /\ due = {}
    /\ Starts("tick", [Idle EXCEPT !.kind = "due"])
    /\ UNCHANGED <<files, due, clock, ops, crashes, fires>>

Marks(p) ==
    /\ p \in due /\ due' = due \ {p}
    /\ Starts("tick", [Idle EXCEPT !.kind = "mark", !.p = p])
    /\ UNCHANGED <<files, clock, ops, crashes, fires>>

\* A tick takes far less than the cadence.
HourPasses ==
    /\ clock < MaxClock /\ clock' = clock + 1
    /\ ~Busy("tick") /\ due = {}
    /\ UNCHANGED <<files, actor, due, ops, crashes, asked, fires>>

Crash ==
    /\ crashes < MaxCrashes /\ crashes' = crashes + 1
    /\ asked' = [asked EXCEPT !.disturbed = @ \/ due # {} \/ \E a \in Actors : Busy(a)]
    /\ actor' = [a \in Actors |-> Idle] /\ due' = {}
    /\ UNCHANGED <<files, clock, ops, fires>>

Step(a) == Reads(a) \/ Heals(a) \/ ReadsGroups(a) \/ Truncates(a) \/ FillsRegistry(a) \/ FillsGroups(a)
Tick == TickLooks \/ \E p \in Projects : Marks(p)

Next ==
    \/ \E a \in Actors : Step(a)
    \/ \E a \in Actors \ {"tick"} : Request(a)
    \/ Tick \/ HourPasses \/ Crash

Spec == /\ Init /\ [][Next]_vars
        /\ \A a \in Actors : WF_vars(Step(a))
        /\ WF_vars(Tick)

-----------------------------------------------------------------------------
(* Properties. *)

\* The type of the registry; maintenance ran in the past; what workers serve.
TypeOK ==
    /\ DOMAIN reg \subseteq Projects
    /\ \A p \in DOMAIN reg : reg[p].policy.last \in 0..clock
    /\ due \subseteq Projects
    /\ \A a \in Actors : actor[a].step \in {"read", "heal", "truncate", "fill"}
    /\ \A a \in Actors \ {"loop"} : Busy(a) => actor[a].kind \in WorkerKinds \cup {"due", "mark"}

\* Whatever overlaps, and wherever a crash comes: every entry is one, a project is in one
\* workspace, and the dependencies of a workspace are among its members, without a cycle.
WorkspacesSound ==
    /\ TypeOK
    /\ \A v, w \in Workspaces : v # w => groups[v].members \cap groups[w].members = {}
    /\ \A w \in Workspaces : /\ groups[w].deps \subseteq groups[w].members \X groups[w].members
                             /\ Acyclic(groups[w].deps)

\* One at a time, the operations lose nothing: the registry holds what they asked for,
\* and a workspace has registered projects only.
RegistryAsAsked ==
    ~asked.disturbed /\ (\A a \in Actors : ~Busy(a)) =>
        /\ reg = asked.reg /\ ~regTorn
        /\ \A w \in Workspaces : groups[w].members \subseteq DOMAIN reg

\* What mark_maintenance_started promises: a project does not fire twice in one window.
FiresOncePerWindow == \A p \in Projects, h \in Hours : fires[p][h] <= 1
MarkedOnce == ~asked.disturbed => FiresOncePerWindow

\* Both: while no two of them overlap, what was asked and what was marked is kept.
RegistryKept == RegistryAsAsked /\ MarkedOnce

\* A project that opts in is run, and marked so, or it is archived or deleted.
Waits(p) == /\ p \in DOMAIN reg
            /\ reg[p].policy.on /\ ~reg[p].archived /\ reg[p].policy.last = 0
OptInServed == \A p \in Projects : Waits(p) ~> ~Waits(p)
=============================================================================
