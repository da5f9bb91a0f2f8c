----------------------------- MODULE Attention -----------------------------
(***************************************************************************)
(* Attention: the agents of a live run ask their operator, and wait.       *)
(* RunControl (orchestration/run_control.py) keeps the open requests and   *)
(* the steering notes of a run; the Broker of web/server.py keeps its      *)
(* events for the sockets and the home screen; an operator reads the home  *)
(* screen, in the console or through `ada attend' (attend.py), and sends   *)
(* the answer as a steering note.                                          *)
(*                                                                         *)
(* A run may stop and be resumed.  It then gets a new RunControl, whose    *)
(* numbering starts again, but keeps the Broker of its last attempt for as *)
(* long as that is not evicted.  Requests are named here by the attempt    *)
(* they are of as well as by the id the code gives them.                   *)
(***************************************************************************)
EXTENDS Integers, Sequences, FiniteSets, Functions, SequencesExt, TLC

CONSTANTS
    Agents,         \* agents of the run that may be at work together
    Clients,        \* where operators read and answer
    Terminal,       \* those of them that are `ada attend'
    Inputs,         \* what operators type: "allow", "deny" or something else
    Sockets,        \* sockets that follow the run
    MaxAttempts,    \* bound: the run starts and is resumed
    MaxAsks,        \* bound: requests of one attempt
    MaxSends,       \* bound: answers sent
    None

ASSUME AttentionAssumption ==
    /\ Terminal \subseteq Clients /\ IsFiniteSet(Agents)
    /\ Inputs \subseteq {"allow", "deny", "other"}
    /\ MaxAttempts \in Nat /\ MaxAsks \in Nat /\ MaxSends \in Nat

VARIABLES
    attempt,    \* how often the run was started
    live,       \* it has a RunControl
    asks,       \* requests opened in this attempt
    pending,    \* RunControl._pending: what each open request was answered, or None
    notes,      \* RunControl._steer
    loop,       \* answers on their way to a future (call_soon_threadsafe)
    agent,      \* the id each agent waits on, or what it does
    events,     \* Broker.events: the requests and the end of the run
    listed,     \* app.state.brokers has it
    broker,     \* which Broker object that is
    timers,     \* the Broker objects with an eviction due
    socket,     \* what each socket was sent, and what is queued for it
    view,       \* the requests each client has read and not answered
    seen,       \* the ids `ada attend' has shown
    sent,       \* history: how many answers were sent
    taken,      \* history: those a request took, and the request
    heard,      \* history: what agents were told
    given       \* history: notes put in the context of a subtask, in order

control == <<asks, pending, notes, loop>>
hub == <<events, listed, broker, timers>>
operators == <<view, seen>>
history == <<sent, taken, heard, given>>
vars == <<attempt, live, control, agent, hub, socket, operators, history>>

Kinds == {"ask", "permission"}

\* The ids of requests; a request, named by its attempt too; and an answer to one: it goes
\* to the request with its id, and is about the one its operator read.
Ids == Kinds \X (1..MaxAsks)
Requests == [of : 0..MaxAttempts, id : Ids]
Notes == [no : 1..MaxSends, id : Ids, about : Requests, input : Inputs, body : Inputs \cup {"deny"}]

\* A future that is not resolved has no answer: None is none.
ASSUME NoneAssumption == None \notin Notes

\* What an agent does when it does not wait on the request with some id.
Idle == <<"idle">>
AtWork == <<"works">>

Closed == [on |-> FALSE, of |-> 0, got |-> <<>>, queue |-> <<>>]
Following(b) == {s \in Sockets : socket[s].on /\ socket[s].of = b}

Init ==
    /\ attempt = 0 /\ live = FALSE
    /\ asks = 0 /\ pending = <<>> /\ notes = <<>> /\ loop = <<>>
    /\ agent = [a \in Agents |-> Idle]
    /\ events = <<>> /\ listed = FALSE /\ broker = 0 /\ timers = {}
    /\ socket = [s \in Sockets |-> Closed]
    /\ view = [c \in Clients |-> {}] /\ seen = [c \in Terminal |-> {}]
    /\ sent = 0 /\ taken = {} /\ heard = {} /\ given = <<>>

-----------------------------------------------------------------------------
(* The Broker. *)

\* Broker.publish: kept, and queued for every subscriber.
Publish(e) ==
    /\ events' = Append(events, e)
    /\ socket' = [s \in Sockets |-> IF s \in Following(broker)
                                    THEN [socket[s] EXCEPT !.queue = Append(@, e)]
                                    ELSE socket[s]]

\* Broker.subscribe: the backlog is replayed.  Mutant: a socket hears what comes next.
Joined == [on |-> TRUE, of |-> broker, got |-> <<>>, queue |-> <<>>]
Subscribed == [on |-> TRUE, of |-> broker, got |-> <<>>, queue |-> events]

Connects(s) ==
    /\ ~socket[s].on /\ listed
    /\ socket' = [socket EXCEPT ![s] = Subscribed]
    /\ UNCHANGED <<attempt, live, control, agent, hub, operators, history>>

\* The socket is closed by an event that ends a run.
Sends(s) ==
    /\ socket[s].on /\ socket[s].queue # <<>>
    /\ LET e == Head(socket[s].queue)
       IN  socket' = [socket EXCEPT ![s] =
                IF e.type = "end" THEN Closed
                ELSE [socket[s] EXCEPT !.got = Append(@, e), !.queue = Tail(@)]]
    /\ UNCHANGED <<attempt, live, control, agent, hub, operators, history>>

\* _evict_broker_later, at the end of the grace period of a run that ended.
Evicts(b) ==
    /\ b \in timers
    /\ timers' = timers \ {b}
    /\ listed' = (listed /\ b # broker)
    /\ UNCHANGED <<attempt, live, control, agent, events, broker, socket, operators, history>>

-----------------------------------------------------------------------------
(* The run. *)

\* What waits is cancelled.
AllStop == agent' = [a \in Agents |-> Idle]

NewControl == asks' = 0 /\ pending' = <<>> /\ notes' = <<>>

\* resume_task and _start keep a Broker that is still there.
Starts ==
    /\ ~live /\ attempt < MaxAttempts
    /\ attempt' = attempt + 1 /\ live' = TRUE
    /\ NewControl
    /\ IF listed THEN UNCHANGED <<events, broker, listed>>
       ELSE events' = <<>> /\ broker' = broker + 1 /\ listed' = TRUE
    /\ UNCHANGED <<loop, agent, timers, socket, operators, history>>

\* drain_steer: the next subtask to start takes every note.
TakesUp(a) ==
    /\ live /\ agent[a] = Idle
    /\ agent' = [agent EXCEPT ![a] = AtWork]
    /\ given' = given \o notes
    /\ notes' = <<>>
    /\ UNCHANGED <<attempt, live, asks, pending, loop, hub, socket, operators, sent, taken, heard>>

\* open_request, and the event that shows it.
Asks(a, kind) ==
    /\ live /\ agent[a] = AtWork /\ asks < MaxAsks
    /\ asks' = asks + 1
    /\ LET id == <<kind, asks + 1>>
       IN  /\ pending' = [i \in DOMAIN pending \cup {id} |-> IF i = id THEN None ELSE pending[i]]
           /\ agent' = [agent EXCEPT ![a] = id]
           /\ Publish([type |-> "asked", id |-> id, of |-> attempt])
    /\ UNCHANGED <<attempt, live, notes, loop, listed, broker, timers, operators, history>>

Waits(a) == agent[a] \notin {Idle, AtWork}

Tells(a, note) ==
    /\ heard' = heard \cup {[of |-> attempt, id |-> agent[a], by |-> note]}
    /\ pending' = Restrict(pending, DOMAIN pending \ {agent[a]})
    /\ agent' = [agent EXCEPT ![a] = AtWork]
    /\ UNCHANGED <<attempt, live, asks, notes, loop, hub, socket, operators, sent, taken, given>>

Wakes(a) == Waits(a) /\ pending[agent[a]] # None /\ Tells(a, pending[agent[a]])

\* attention_timeout.  It may strike when the answer is on its way, or already there:
\* which of the two the waiter sees depends on the interpreter's wait_for.
\* Mutant: no timeout.
WaitsForever(a) == FALSE
TimesOut(a) == Waits(a) /\ Tells(a, None)

Finishes(a) ==
    /\ agent[a] = AtWork
    /\ agent' = [agent EXCEPT ![a] = Idle]
    /\ UNCHANGED <<attempt, live, control, hub, socket, operators, history>>

\* The run completes, fails or is cancelled: what waits is cancelled, an event ends the
\* stream, RunControl is dropped, and the Broker is to go after a while.
Ends ==
    /\ live
    /\ live' = FALSE
    /\ AllStop
    /\ NewControl
    /\ Publish([type |-> "end"])
    /\ timers' = timers \cup {broker}
    /\ UNCHANGED <<attempt, loop, listed, broker, operators, history>>

\* Nothing of it is on disk: the run is found interrupted by the next start.
ServerStops ==
    /\ attempt > 0
    /\ live' = FALSE
    /\ AllStop
    /\ NewControl /\ loop' = <<>>
    /\ events' = <<>> /\ listed' = FALSE /\ timers' = {}
    /\ socket' = [s \in Sockets |-> Closed]
    /\ UNCHANGED <<attempt, broker, operators, history>>

-----------------------------------------------------------------------------
(* The operators. *)

\* get_home: for each request not yet answered the first event with its id.
Matching(id) == {k \in DOMAIN events : events[k].type = "asked" /\ events[k].id = id}

FirstOf(K) == CHOOSE k \in K : \A j \in K : k <= j
Unanswered == {id \in DOMAIN pending : pending[id] = None}
Shown(id, e) == [id |-> id, about |-> [of |-> e.of, id |-> e.id]]
HomeItems ==
    IF ~live \/ ~listed THEN {}
    ELSE {Shown(id, events[FirstOf(Matching(id))]) : id \in {j \in Unanswered : Matching(j) # {}}}

\* run_attend shows a request once; the console shows what there is.
Reads(c) ==
    LET fresh == IF c \in Terminal THEN {i \in HomeItems : i.id \notin seen[c]} ELSE HomeItems
    IN  /\ view[c] = {} /\ fresh # {}
        /\ view' = [view EXCEPT ![c] = fresh]
        /\ seen' = IF c \in Terminal
                   THEN [seen EXCEPT ![c] = @ \cup {i.id : i \in fresh}] ELSE seen
    /\ UNCHANGED <<attempt, live, control, agent, hub, socket, history>>

Skips(c) ==
    /\ view[c] # {}
    /\ view' = [view EXCEPT ![c] = {}]
    /\ UNCHANGED <<attempt, live, control, agent, hub, socket, seen, history>>

\* build_note: to a permission request, what is not understood is a denial.
Worded(id, input) == IF id[1] = "permission" /\ input = "other" THEN "deny" ELSE input

Open(id) == id \in DOMAIN pending /\ pending[id] = None

\* _try_answer: a request that is open takes the note.
Takes(note) ==
    /\ loop' = Append(loop, [of |-> attempt, note |-> note])
    /\ taken' = taken \cup {[of |-> attempt, note |-> note]}

\* RunControl.steer.  Mutant: a note is queued all the same.
QueuesAll(note) ==
    /\ notes' = Append(notes, note)
    /\ IF Open(note.id) THEN Takes(note) ELSE UNCHANGED <<loop, taken>>

Steer(note) ==
    \/ Open(note.id) /\ Takes(note) /\ UNCHANGED notes
    \/ ~Open(note.id) /\ notes' = Append(notes, note) /\ UNCHANGED <<loop, taken>>

\* POST /api/run/../steer; 404 when the run has no RunControl.
Answers(c, item, input) ==
    /\ item \in view[c] /\ sent < MaxSends
    /\ view' = [view EXCEPT ![c] = @ \ {item}]
    /\ LET note == [no |-> sent + 1, id |-> item.id, about |-> item.about,
                    input |-> input, body |-> Worded(item.id, input)]
       IN  /\ sent' = sent + 1
           /\ IF live THEN Steer(note) ELSE UNCHANGED <<notes, loop, taken>>
    /\ UNCHANGED <<attempt, live, asks, pending, agent, hub, socket, seen, heard, given>>

\* The loop runs the callback: the future is resolved, unless it was.
\* Mutant: the last answer wins.
SetAnyway(id) == id \in DOMAIN pending
NotDone(id) == Open(id)

HandsOver ==
    /\ loop # <<>>
    /\ loop' = Tail(loop)
    /\ pending' = IF Head(loop).of = attempt /\ NotDone(Head(loop).note.id)
                  THEN [pending EXCEPT ![Head(loop).note.id] = Head(loop).note]
                  ELSE pending
    /\ UNCHANGED <<attempt, live, asks, notes, agent, hub, socket, operators, history>>

-----------------------------------------------------------------------------
AgentStep(a) ==
    \/ TakesUp(a) \/ Wakes(a) \/ TimesOut(a) \/ Finishes(a)
    \/ \E kind \in Kinds : Asks(a, kind)

ClientStep(c) ==
    \/ Reads(c) \/ Skips(c)
    \/ \E item \in view[c], input \in Inputs : Answers(c, item, input)

Next ==
    \/ Starts \/ Ends \/ ServerStops \/ HandsOver
    \/ \E a \in Agents : AgentStep(a)
    \/ \E c \in Clients : ClientStep(c)
    \/ \E s \in Sockets : Connects(s) \/ Sends(s)
    \/ \E b \in timers : Evicts(b)

\* The event loop runs its timers; nobody has to answer, and no run has to end.
Spec == Init /\ [][Next]_vars /\ \A a \in Agents : WF_vars(Wakes(a) \/ TimesOut(a))

-----------------------------------------------------------------------------
(* Properties. *)

\* The type of every variable.
TypeOK ==
    /\ attempt \in 0..MaxAttempts /\ asks \in 0..MaxAsks
    /\ DOMAIN pending \subseteq Ids
    /\ \A a \in Agents : Waits(a) => live /\ agent[a] \in DOMAIN pending
    /\ timers \subseteq 1..broker
    /\ \A c \in Clients : \A i \in view[c] : i.id \in Ids
    /\ sent <= MaxSends

\* What an agent hears was said of its own request: of the very one when it was read off
\* the same attempt, or else of one with the same id in an earlier attempt of the run.
AnswerMeant ==
    \A h \in heard : h.by # None =>
        /\ h.by.about.id = h.id
        /\ h.by.about.of <= h.of

\* Of several answers to one request, taken before the first of them reaches the agent,
\* the agent hears the first, and no other (the fut.done() of the callback).
FirstAnswerHeard ==
    \A h \in heard : h.by # None =>
        /\ [of |-> h.of, note |-> h.by] \in taken
        /\ \A t \in taken : t.of = h.of /\ t.note.id = h.id => h.by.no <= t.note.no

\* _request_permission: the agent takes anything but a denial for a grant; it is granted
\* only what an operator allowed in so many words.
GrantedMeansAllowed ==
    \A h \in heard : h.id[1] = "permission" /\ h.by # None /\ h.by.body # "deny"
                        => h.by.input = "allow"

\* What an agent hears is the first answer to its own request, and a grant only what
\* the operator allowed.
HeardRight == TypeOK /\ AnswerMeant /\ FirstAnswerHeard /\ GrantedMeansAllowed

\* An answer is for the agent that waits, or a note for one subtask to come, never both
\* and never for two (drain_steer empties what it returns).
ToldOnce ==
    /\ IsInjective(given)
    /\ \A k \in DOMAIN given, h \in heard : h.by # given[k]

\* A socket is sent every event of its Broker once, in order, from the first, however
\* late it joined.
SocketHearsAll ==
    \A s \in Sockets : socket[s].on /\ socket[s].of = broker =>
        socket[s].got \o socket[s].queue = events

\* Both: whoever is told, is told once and all of it.
ToldRight == ToldOnce /\ SocketHearsAll

\* No agent waits for ever, whether or not anybody reads what it asked.
WaitsEnd == \A a \in Agents : Waits(a) ~> ~Waits(a)

\* What the documents say: an open request is on the home screen, and it is the request
\* that is shown there.
OpenRequestsSurface ==
    \A id \in Unanswered :
        [id |-> id, about |-> [of |-> attempt, id |-> id]] \in HomeItems
=============================================================================
