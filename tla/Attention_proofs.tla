--------------------------- MODULE Attention_proofs ---------------------------
(***************************************************************************)
(* Theorems about Attention, for every number of agents, clients, sockets, *)
(* attempts, requests and answers.                                         *)
(***************************************************************************)
EXTENDS Attention, TLAPS, WellFoundedInduction

Asked == [type : {"asked"}, id : Ids, of : 0..MaxAttempts]
Events == Asked \cup [type : {"end"}]
Sent == [of : 0..MaxAttempts, note : Notes]
States == [on : BOOLEAN, of : Nat, got : Seq(Events), queue : Seq(Events)]

\* The requests of this attempt.
Now == Kinds \X (1..asks)

RunTyped ==
    /\ attempt \in 0..MaxAttempts /\ live \in BOOLEAN
    /\ asks \in 0..MaxAsks /\ sent \in 0..MaxSends
    /\ pending \in [DOMAIN pending -> Notes \cup {None}] /\ DOMAIN pending \subseteq Now
    /\ notes \in Seq(Notes) /\ given \in Seq(Notes)
    /\ loop \in Seq(Sent) /\ taken \subseteq Sent
    /\ agent \in [Agents -> Ids \cup {Idle, AtWork}]
    /\ \A h \in heard : h.by \in Notes \cup {None}

HubTyped ==
    /\ broker \in Nat /\ timers \subseteq 1..broker /\ (live \/ listed => broker > 0)
    /\ events \in Seq(Events)
    /\ socket \in [Sockets -> States]
    /\ view \in [Clients -> SUBSET [id : Ids, about : Requests]]

\* Every agent that waits does so on a request of its own.
WaitsApart ==
    /\ \A a \in Agents : Waits(a) => live /\ agent[a] \in DOMAIN pending
    /\ \A a, b \in Agents : Waits(a) /\ Waits(b) /\ agent[a] = agent[b] => a = b

\* What operators read is a request of this attempt of the run, or of an earlier one.
ReadRight ==
    /\ \A k \in DOMAIN events : events[k].type = "asked" => events[k].of <= attempt
    /\ \A c \in Clients : \A i \in view[c] : i.about.id = i.id /\ i.about.of <= attempt

\* What a request took was said of a request with its id, and worded as build_note does.
TakenRight ==
    \A t \in taken :
        /\ t.of <= attempt /\ (live /\ t.of = attempt => t.note.id \in Now)
        /\ t.note.about.id = t.note.id /\ t.note.about.of <= t.of
        /\ t.note.body = Worded(t.note.id, t.note.input)
        /\ t.note.no <= sent

\* The callbacks run in the order the answers were taken.
InOrder ==
    /\ \A k \in DOMAIN loop : loop[k] \in taken
    /\ \A j, k \in DOMAIN loop : j < k => loop[j].note.no < loop[k].note.no

\* The first answer that the request with an id, in some attempt, took.
FirstTaken(of, id, n) ==
    /\ [of |-> of, note |-> n] \in taken /\ n.id = id
    /\ \A t \in taken : t.of = of /\ t.note.id = id => n.no <= t.note.no

\* All that an open request took is on its way to it; one that is resolved has the first.
FirstAnswers ==
    /\ \A id \in DOMAIN pending :
        IF pending[id] = None
        THEN \A t \in taken : t.of = attempt /\ t.note.id = id => \E k \in DOMAIN loop : loop[k] = t
        ELSE FirstTaken(attempt, id, pending[id])
    /\ \A h \in heard : h.by # None => FirstTaken(h.of, h.id, h.by)

\* Answers are numbered as they are sent: a note is queued once, and is no request's.
NotesApart ==
    /\ \A k \in DOMAIN notes : notes[k].no <= sent
    /\ \A k \in DOMAIN given : given[k].no <= sent
    /\ \A j, k \in DOMAIN notes : notes[j].no = notes[k].no => j = k
    /\ \A j, k \in DOMAIN given : given[j].no = given[k].no => j = k
    /\ \A j \in DOMAIN notes, k \in DOMAIN given : notes[j].no # given[k].no
    /\ \A t \in taken : /\ \A k \in DOMAIN notes : t.note.no # notes[k].no
                        /\ \A k \in DOMAIN given : t.note.no # given[k].no

\* No socket follows a Broker that is still to come.
SocketsFollow ==
    /\ \A s \in Sockets : socket[s].on => socket[s].of <= broker
    /\ SocketHearsAll

AskInv ==
    /\ RunTyped /\ HubTyped /\ WaitsApart /\ ReadRight /\ TakenRight
    /\ InOrder /\ FirstAnswers /\ NotesApart /\ SocketsFollow

-----------------------------------------------------------------------------
(* What operators read and send. *)

\* A set of numbers that is not empty has a least one: FirstOf picks it.
LEMMA FirstIsIn ==
    ASSUME NEW K \in SUBSET Nat, K # {}
    PROVE  FirstOf(K) \in K
<1> DEFINE R == OpToRel(<, Nat)
<1>1. IsWellFoundedOn(R, Nat)
  BY NatLessThanWellFounded, Zenon
<1>2. \A x, y \in Nat : <<x, y>> \in R <=> x < y
  BY DEF OpToRel
<1> HIDE DEF R
<1>3. PICK m \in K : \A y \in K : ~(<<y, m>> \in R)
  BY <1>1, WFMin
<1>4. \A j \in K : m <= j
  <2> TAKE j \in K
  <2>1. m \in Nat /\ j \in Nat
    OBVIOUS
  <2>2. ~(j < m)
    BY <1>2, <1>3, <2>1
  <2> QED
    BY <2>1, <2>2
<1> QED
  BY <1>3, <1>4 DEF FirstOf

\* What the home screen shows of a request: its id, and an event with the same id, of this
\* attempt or of an earlier one.
LEMMA HomeRight ==
    ASSUME AskInv, NEW i \in HomeItems
    PROVE  /\ i \in [id : Ids, about : Requests]
           /\ i.about.id = i.id /\ i.about.of <= attempt
<1>1. PICK id \in Unanswered : /\ Matching(id) # {}
                               /\ i = [id |-> id, about |->
                                          [of |-> events[FirstOf(Matching(id))].of,
                                           id |-> events[FirstOf(Matching(id))].id]]
  BY DEF HomeItems, Shown
<1> DEFINE k == FirstOf(Matching(id))
<1>2. events \in Seq(Events) /\ DOMAIN events = 1..Len(events) /\ Len(events) \in Nat
  BY DEF AskInv, HubTyped
<1>3. Matching(id) \subseteq Nat
  BY <1>2 DEF Matching
<1>4. k \in Matching(id)
  BY <1>1, <1>3, FirstIsIn
<1> HIDE DEF k
<1>5. k \in DOMAIN events /\ events[k].type = "asked" /\ events[k].id = id
  BY <1>4 DEF Matching
<1>6. events[k] \in Asked
  BY <1>2, <1>5 DEF Events
<1>7. i = [id |-> id, about |-> [of |-> events[k].of, id |-> events[k].id]]
  BY <1>1 DEF k
<1>8. events[k].of <= attempt
  BY <1>5 DEF AskInv, ReadRight
<1> QED
  BY <1>5, <1>6, <1>7, <1>8 DEF Asked, Requests

\* The answer an operator sends to a request read before.
Reply(item, input) ==
    [no |-> sent + 1, id |-> item.id, about |-> item.about,
     input |-> input, body |-> Worded(item.id, input)]

LEMMA ReplyRight ==
    ASSUME AskInv, NEW c \in Clients, NEW item \in view[c], NEW input \in Inputs, sent < MaxSends
    PROVE  /\ Reply(item, input) \in Notes
           /\ Reply(item, input).no = sent + 1 /\ Reply(item, input).id = item.id
           /\ Reply(item, input).about = item.about /\ Reply(item, input).input = input
           /\ Reply(item, input).body = Worded(item.id, input)
           /\ item.about.id = item.id /\ item.about.of <= attempt
           /\ sent \in Nat /\ sent + 1 \in Nat
<1>1. item \in [id : Ids, about : Requests] /\ item.about.id = item.id /\ item.about.of <= attempt
  BY DEF AskInv, HubTyped, ReadRight
<1>2. Worded(item.id, input) \in Inputs \cup {"deny"}
  BY DEF Worded
<1>3. sent + 1 \in 1..MaxSends /\ sent \in Nat
  BY AttentionAssumption DEF AskInv, RunTyped
<1> QED
  BY <1>1, <1>2, <1>3 DEF Reply, Notes

-----------------------------------------------------------------------------
(* Types, and who waits on what. *)

\* The part of the state that RunTyped and WaitsApart are about, in the steps that leave
\* it alone.
LEMMA TypedStep ==
    ASSUME AskInv, [Next]_vars
    PROVE  RunTyped' /\ WaitsApart'
<1> USE DEF control, hub, operators, history
<1>1. CASE UNCHANGED vars
  BY <1>1 DEF AskInv, RunTyped, Now, WaitsApart, Waits, vars
<1>2. CASE Starts
  <2>1. RunTyped'
    BY <1>2, AttentionAssumption DEF AskInv, RunTyped, Now, Starts, NewControl
  <2> QED
    BY <1>2, <2>1 DEF AskInv, WaitsApart, Waits, Starts
<1>3. CASE Ends \/ ServerStops
  <2>1. /\ asks' = 0 /\ pending' = <<>> /\ notes' = <<>> /\ live' = FALSE
        /\ agent' = [a \in Agents |-> Idle] /\ loop' \in {loop, <<>>}
        /\ UNCHANGED <<attempt, history>>
    BY <1>3 DEF Ends, ServerStops, NewControl, AllStop
  <2>2. agent' \in [Agents -> Ids \cup {Idle, AtWork}]
    BY <2>1
  <2>3. pending' \in [DOMAIN pending' -> Notes \cup {None}] /\ DOMAIN pending' = {}
    BY <2>1
  <2>5. loop' \in Seq(Sent) /\ notes' \in Seq(Notes)
    <3>1. loop \in Seq(Sent) /\ <<>> \in Seq(Sent) /\ <<>> \in Seq(Notes)
      BY DEF AskInv, RunTyped
    <3> QED
      BY <2>1, <3>1
  <2>6. asks' \in 0..MaxAsks /\ live' \in BOOLEAN /\ DOMAIN pending' \subseteq Now'
    <3>1. 0 \in 0..MaxAsks
      BY AttentionAssumption
    <3> QED
      BY <2>1, <2>3, <3>1
  <2>4. RunTyped'
    BY <2>1, <2>2, <2>3, <2>5, <2>6 DEF AskInv, RunTyped
  <2> QED
    BY <2>1, <2>4 DEF AskInv, WaitsApart, Waits
<1>4. CASE HandsOver
  <2>1. Head(loop) \in Sent /\ Tail(loop) \in Seq(Sent)
    BY <1>4 DEF AskInv, RunTyped, HandsOver
  <2>2. DOMAIN pending' = DOMAIN pending /\ pending' \in [DOMAIN pending -> Notes \cup {None}]
    BY <1>4, <2>1 DEF AskInv, RunTyped, HandsOver, Sent
  <2> QED
    BY <1>4, <2>1, <2>2 DEF AskInv, RunTyped, Now, WaitsApart, Waits, HandsOver
<1>5. ASSUME NEW a \in Agents, TakesUp(a)
      PROVE  RunTyped' /\ WaitsApart'
  <2>1. agent' \in [Agents -> Ids \cup {Idle, AtWork}] /\ \A b \in Agents : b # a => agent'[b] = agent[b]
    BY <1>5 DEF AskInv, RunTyped, TakesUp
  <2>2. agent'[a] = AtWork
    BY <1>5 DEF AskInv, RunTyped, TakesUp
  <2>3. given' \in Seq(Notes) /\ notes' \in Seq(Notes)
    BY <1>5 DEF AskInv, RunTyped, TakesUp
  <2>4. RunTyped'
    BY <1>5, <2>1, <2>3 DEF AskInv, RunTyped, Now, TakesUp
  <2> QED
    BY <1>5, <2>1, <2>2, <2>4 DEF AskInv, WaitsApart, Waits, TakesUp
<1>6. ASSUME NEW a \in Agents, NEW note \in Notes \cup {None}, Waits(a), Tells(a, note)
      PROVE  RunTyped' /\ WaitsApart'
  <2>1. agent' \in [Agents -> Ids \cup {Idle, AtWork}] /\ \A b \in Agents : b # a => agent'[b] = agent[b]
    BY <1>6 DEF AskInv, RunTyped, Tells
  <2>2. agent'[a] = AtWork
    BY <1>6 DEF AskInv, RunTyped, Tells
  <2>3. DOMAIN pending' = DOMAIN pending \ {agent[a]}
        /\ pending' = [i \in DOMAIN pending \ {agent[a]} |-> pending[i]]
    BY <1>6 DEF Tells, Restrict
  <2>5. pending' \in [DOMAIN pending' -> Notes \cup {None}] /\ DOMAIN pending' \subseteq Now
    BY <2>3 DEF AskInv, RunTyped
  <2>6. \A h \in heard' : h.by \in Notes \cup {None}
    BY <1>6 DEF AskInv, RunTyped, Tells
  <2>4. RunTyped'
    BY <1>6, <2>1, <2>5, <2>6 DEF AskInv, RunTyped, Now, Tells
  <2> QED
    BY <1>6, <2>1, <2>2, <2>3, <2>4 DEF AskInv, WaitsApart, Waits, Tells
<1>7. ASSUME NEW a \in Agents, Finishes(a)
      PROVE  RunTyped' /\ WaitsApart'
  <2>1. agent' \in [Agents -> Ids \cup {Idle, AtWork}] /\ \A b \in Agents : b # a => agent'[b] = agent[b]
    BY <1>7 DEF AskInv, RunTyped, Finishes
  <2>2. agent'[a] = Idle
    BY <1>7 DEF AskInv, RunTyped, Finishes
  <2>3. RunTyped'
    BY <1>7, <2>1 DEF AskInv, RunTyped, Now, Finishes
  <2> QED
    BY <1>7, <2>1, <2>2, <2>3 DEF AskInv, WaitsApart, Waits, Finishes
<1>8. ASSUME NEW a \in Agents, NEW kind \in Kinds, Asks(a, kind)
      PROVE  RunTyped' /\ WaitsApart'
  <2> DEFINE id == <<kind, asks + 1>>
  <2>1. asks \in Nat /\ asks' = asks + 1 /\ asks' \in 0..MaxAsks
    BY <1>8, AttentionAssumption DEF AskInv, RunTyped, Asks
  <2>2. id \in Ids /\ id \in Now' /\ Now \subseteq Now' /\ id \notin Now
    BY <2>1 DEF Ids, Now
  <2>3. pending' = [i \in DOMAIN pending \cup {id} |-> IF i = id THEN None ELSE pending[i]]
        /\ agent' = [agent EXCEPT ![a] = id]
    BY <1>8 DEF Asks
  <2> HIDE DEF id
  <2>4. agent' \in [Agents -> Ids \cup {Idle, AtWork}] /\ \A b \in Agents : b # a => agent'[b] = agent[b]
    BY <2>2, <2>3 DEF AskInv, RunTyped
  <2>5. agent'[a] = id
    BY <2>3 DEF AskInv, RunTyped
  <2>6. DOMAIN pending' = DOMAIN pending \cup {id} /\ pending' \in [DOMAIN pending' -> Notes \cup {None}]
    BY <2>3 DEF AskInv, RunTyped
  <2>7. RunTyped'
    BY <1>8, <2>1, <2>2, <2>4, <2>6 DEF AskInv, RunTyped, Asks
  <2>8. id \notin DOMAIN pending
    BY <2>2 DEF AskInv, RunTyped
  <2> QED
    BY <1>8, <2>4, <2>5, <2>6, <2>7, <2>8 DEF AskInv, WaitsApart, Waits, Asks
<1>9. ASSUME NEW c \in Clients, Reads(c) \/ Skips(c)
      PROVE  RunTyped' /\ WaitsApart'
  BY <1>9 DEF AskInv, RunTyped, Now, WaitsApart, Waits, Reads, Skips
<1>10. ASSUME NEW c \in Clients, NEW item \in view[c], NEW input \in Inputs, Answers(c, item, input)
       PROVE  RunTyped' /\ WaitsApart'
  <2> DEFINE note == Reply(item, input)
  <2>1. sent' = sent + 1 /\ sent < MaxSends /\ note \in Notes
    BY <1>10, ReplyRight DEF Answers
  <2>2. IF live THEN Steer(note) ELSE UNCHANGED <<notes, loop, taken>>
    BY <1>10 DEF Answers, Reply
  <2> HIDE DEF note
  <2>3. notes' \in Seq(Notes) /\ loop' \in Seq(Sent) /\ taken' \subseteq Sent
    <3>1. [of |-> attempt, note |-> note] \in Sent
      BY <2>1 DEF AskInv, RunTyped, Sent
    <3>2. /\ notes' = notes \/ notes' = Append(notes, note)
          /\ loop' = loop \/ loop' = Append(loop, [of |-> attempt, note |-> note])
          /\ taken' \subseteq taken \cup {[of |-> attempt, note |-> note]}
      BY <2>2 DEF Steer, Takes
    <3>6. notes \in Seq(Notes) /\ loop \in Seq(Sent)
      BY DEF AskInv, RunTyped
    <3>3. notes' \in Seq(Notes)
      BY <2>1, <3>2, <3>6
    <3>4. loop' \in Seq(Sent)
      BY <3>1, <3>2, <3>6
    <3>5. taken' \subseteq Sent
      BY <3>1, <3>2 DEF AskInv, RunTyped
    <3> QED
      BY <3>3, <3>4, <3>5
  <2> QED
    BY <1>10, <2>1, <2>3, AttentionAssumption DEF AskInv, RunTyped, Now, WaitsApart, Waits, Answers
<1>11. ASSUME NEW s \in Sockets, Connects(s) \/ Sends(s)
       PROVE  RunTyped' /\ WaitsApart'
  BY <1>11 DEF AskInv, RunTyped, Now, WaitsApart, Waits, Connects, Sends
<1>12. ASSUME NEW b \in timers, Evicts(b)
       PROVE  RunTyped' /\ WaitsApart'
  BY <1>12 DEF AskInv, RunTyped, Now, WaitsApart, Waits, Evicts
<1>13. ASSUME NEW a \in Agents, Wakes(a) \/ TimesOut(a)
       PROVE  \E note \in Notes \cup {None} : Waits(a) /\ Tells(a, note)
  BY <1>13 DEF AskInv, RunTyped, WaitsApart, Wakes, TimesOut
<1> QED
  BY <1>1, <1>2, <1>3, <1>4, <1>5, <1>6, <1>7, <1>8, <1>9, <1>10, <1>11, <1>12, <1>13
     DEF Next, AgentStep, ClientStep

-----------------------------------------------------------------------------
(* The Broker, its sockets, and what operators read. *)

Eventful == /\ events \in Seq(Events)
            /\ \A k \in DOMAIN events : events[k].type = "asked" => events[k].of <= attempt
Followed == /\ socket \in [Sockets -> States]
              /\ SocketsFollow

\* An event queued last is sent last; the head of what is queued goes to the end of what
\* was sent.
LEMMA QueuedLast ==
    ASSUME NEW S
    PROVE  \A got, queue \in Seq(S) : \A e \in S : got \o Append(queue, e) = Append(got \o queue, e)
OBVIOUS

LEMMA SentNext ==
    ASSUME NEW S, NEW got \in Seq(S), NEW queue \in Seq(S), queue # <<>>
    PROVE  Append(got, Head(queue)) \o Tail(queue) = got \o queue
OBVIOUS

\* The events are those there were, and the last.
LEMMA Appended ==
    ASSUME NEW S, NEW q \in Seq(S), NEW e \in S
    PROVE  /\ Append(q, e) \in Seq(S)
           /\ \A k \in DOMAIN Append(q, e) :
                 Append(q, e)[k] = e \/ (k \in DOMAIN q /\ Append(q, e)[k] = q[k])
<1>1. /\ Append(q, e) \in Seq(S) /\ Len(q) \in Nat /\ DOMAIN q = 1..Len(q)
      /\ DOMAIN Append(q, e) = 1..(Len(q) + 1)
  OBVIOUS
<1>2. Append(q, e)[Len(q) + 1] = e /\ \A k \in 1..Len(q) : Append(q, e)[k] = q[k]
  OBVIOUS
<1> QED
  BY <1>1, <1>2

\* An event that is published is kept, and queued for the sockets of the Broker.
LEMMA PublishStep ==
    ASSUME AskInv, NEW e \in Events, e.type = "asked" => e.of <= attempt,
           Publish(e), UNCHANGED <<broker, attempt>>
    PROVE  Eventful' /\ Followed'
<1>1. Eventful'
  <2>1. events \in Seq(Events) /\ events' = Append(events, e)
    BY DEF AskInv, HubTyped, Publish
  <2>2. /\ events' \in Seq(Events)
        /\ \A k \in DOMAIN events' : events'[k] = e \/ (k \in DOMAIN events /\ events'[k] = events[k])
    BY <2>1, Appended
  <2> QED
    BY <2>1, <2>2 DEF AskInv, ReadRight, Eventful
<1>2. ASSUME NEW s \in Sockets
      PROVE  /\ socket'[s] \in States
             /\ socket'[s].on => socket'[s].of <= broker
             /\ socket'[s].on /\ socket'[s].of = broker
                   => socket'[s].got \o socket'[s].queue = events'
  <2>1. /\ socket[s] \in States
        /\ socket[s].on => socket[s].of <= broker
        /\ socket[s].on /\ socket[s].of = broker => socket[s].got \o socket[s].queue = events
    BY DEF AskInv, HubTyped, SocketsFollow, SocketHearsAll
  <2>2. CASE s \notin Following(broker)
    <3>1. socket'[s] = socket[s]
      BY <2>2 DEF Publish
    <3> QED
      BY <2>1, <2>2, <3>1, Zenon DEF Following, Publish
  <2>3. CASE s \in Following(broker)
    <3>1. socket'[s] = [socket[s] EXCEPT !.queue = Append(@, e)]
      BY <2>3 DEF Publish
    <3>2. socket[s].on /\ socket[s].of = broker
      BY <2>3 DEF Following
    <3>3. /\ socket[s].got \in Seq(Events) /\ socket[s].queue \in Seq(Events)
      BY <2>1 DEF States
    <3>4. socket[s].got \o Append(socket[s].queue, e) = Append(socket[s].got \o socket[s].queue, e)
      <4>1. \A got, queue \in Seq(Events) :
                \A x \in Events : got \o Append(queue, x) = Append(got \o queue, x)
        BY QueuedLast
      <4> QED
        BY <3>3, <4>1
    <3>5. Append(socket[s].queue, e) \in Seq(Events)
      BY <3>3, Appended
    <3>6. /\ socket'[s] \in States /\ socket'[s].on = socket[s].on /\ socket'[s].of = socket[s].of
          /\ socket'[s].got = socket[s].got /\ socket'[s].queue = Append(socket[s].queue, e)
      BY <2>1, <3>1, <3>5 DEF States
    <3>7. events' = Append(events, e)
      BY DEF Publish
    <3> QED
      BY <2>1, <3>2, <3>4, <3>6, <3>7, Zenon
  <2> QED
    BY <2>2, <2>3
<1>3. socket' = [s \in Sockets |-> socket'[s]]
  BY DEF Publish
<1> QED
  BY <1>1, <1>2, <1>3 DEF Followed, SocketsFollow, SocketHearsAll

\* Whatever step is taken, the sockets of the present Broker are sent its events.
LEMMA HubStep ==
    ASSUME AskInv, [Next]_vars
    PROVE  HubTyped' /\ ReadRight' /\ SocketsFollow'
<1> USE DEF control, hub, operators, history
<1>0. /\ broker \in Nat /\ timers \subseteq 1..broker /\ attempt \in Nat /\ (live \/ listed => broker > 0)
      /\ socket \in [Sockets -> States] /\ SocketsFollow /\ Eventful
      /\ view \in [Clients -> SUBSET [id : Ids, about : Requests]]
      /\ \A c \in Clients : \A i \in view[c] : i.about.id = i.id /\ i.about.of <= attempt
  BY AttentionAssumption DEF AskInv, HubTyped, RunTyped, ReadRight, Eventful
<1> DEFINE Views == /\ view' \in [Clients -> SUBSET [id : Ids, about : Requests]]
                    /\ \A c \in Clients : \A i \in view'[c] : i.about.id = i.id /\ i.about.of <= attempt'
           Rest == broker' \in Nat /\ timers' \subseteq 1..broker' /\ (live' \/ listed' => broker' > 0)
<1>f. ASSUME Views, Rest, Eventful', Followed' PROVE HubTyped' /\ ReadRight' /\ SocketsFollow'
  BY <1>f DEF HubTyped, ReadRight, Eventful, Followed
<1>s. ASSUME UNCHANGED <<socket, broker, events>> PROVE Followed'
  BY <1>0, <1>s DEF Followed, SocketsFollow, SocketHearsAll
<1>e. ASSUME UNCHANGED <<events, attempt>> PROVE Eventful'
  BY <1>0, <1>e DEF Eventful
<1>v. ASSUME UNCHANGED <<view, attempt>> PROVE Views
  BY <1>0, <1>v
<1> HIDE DEF Views, Rest
<1>1. CASE Starts
  <2>1. Rest
    BY <1>0, <1>1 DEF Rest, Starts
  <2>2. Views
    <3>1. \A c \in Clients : \A i \in view[c] : i.about.of \in Nat /\ i.about.of <= attempt
      BY <1>0, AttentionAssumption DEF Requests
    <3> QED
      BY <1>0, <1>1, <3>1 DEF Views, Starts
  <2>3. Eventful'
    <3>1. CASE listed
      <4>1. \A k \in DOMAIN events : events[k].type = "asked" => events[k].of \in Nat
        <5>1. \A k \in DOMAIN events : events[k] \in Events
          BY <1>0 DEF Eventful
        <5> QED
          BY <5>1, AttentionAssumption DEF Events, Asked
      <4>2. attempt' = attempt + 1 /\ events' = events
        BY <1>1, <3>1 DEF Starts
      <4> QED
        BY <1>0, <4>1, <4>2 DEF Eventful
    <3>2. CASE ~listed
      BY <1>1, <3>2 DEF Eventful, Starts
    <3> QED
      BY <3>1, <3>2
  <2>4. Followed'
    <3>1. CASE listed
      BY <1>1, <1>s, <3>1 DEF Starts
    <3>2. CASE ~listed
      <4>1. broker' = broker + 1 /\ socket' = socket
        BY <1>1, <3>2 DEF Starts
      <4>2. \A s \in Sockets : socket[s].on => socket[s].of <= broker /\ socket[s].of \in Nat
        BY <1>0 DEF SocketsFollow, States
      <4>3. \A s \in Sockets : socket'[s].on => socket'[s].of <= broker' /\ socket'[s].of # broker'
        BY <1>0, <4>1, <4>2
      <4> QED
        BY <1>0, <4>1, <4>3 DEF Followed, SocketsFollow, SocketHearsAll
    <3> QED
      BY <3>1, <3>2
  <2> QED
    BY <2>1, <2>2, <2>3, <2>4, <1>f
<1>2. CASE Ends
  <2>1. Rest
    BY <1>0, <1>2 DEF Rest, Ends
  <2>2. Views
    BY <1>2, <1>v DEF Ends
  <2>3. [type |-> "end"] \in Events /\ [type |-> "end"].type # "asked"
    BY DEF Events
  <2>4. Eventful' /\ Followed'
    BY <1>2, <2>3, PublishStep DEF Ends
  <2> QED
    BY <2>1, <2>2, <2>4, <1>f
<1>3. CASE ServerStops
  <2>1. Rest
    BY <1>0, <1>3 DEF Rest, ServerStops
  <2>2. Views
    BY <1>3, <1>v DEF ServerStops
  <2>3. Eventful'
    BY <1>3 DEF Eventful, ServerStops
  <2>4. Followed'
    <3>1. Closed \in States /\ Closed.on = FALSE
      BY DEF Closed, States
    <3>2. socket' = [s \in Sockets |-> Closed]
      BY <1>3 DEF ServerStops
    <3> QED
      BY <3>1, <3>2 DEF Followed, SocketsFollow, SocketHearsAll
  <2> QED
    BY <2>1, <2>2, <2>3, <2>4, <1>f
<1>4. ASSUME NEW a \in Agents, NEW kind \in Kinds, Asks(a, kind)
      PROVE  HubTyped' /\ ReadRight' /\ SocketsFollow'
  <2> DEFINE e == [type |-> "asked", id |-> <<kind, asks + 1>>, of |-> attempt]
  <2>1. Rest
    BY <1>0, <1>4 DEF Rest, Asks
  <2>2. Views
    BY <1>4, <1>v DEF Asks
  <2>3. e \in Events /\ e.of <= attempt
    <3>1. asks + 1 \in 1..MaxAsks /\ attempt \in 0..MaxAttempts /\ attempt <= attempt
      BY <1>4, AttentionAssumption DEF AskInv, RunTyped, Asks
    <3> QED
      BY <3>1 DEF Events, Asked, Ids
  <2>4. Publish(e) /\ UNCHANGED <<broker, attempt>>
    BY <1>4 DEF Asks
  <2> HIDE DEF e
  <2>5. Eventful' /\ Followed'
    BY <2>3, <2>4, PublishStep
  <2> QED
    BY <2>1, <2>2, <2>5, <1>f
<1>5. CASE /\ UNCHANGED <<attempt, hub, socket, view>>
           /\ live' = live
  <2>1. Rest
    BY <1>0, <1>5 DEF Rest
  <2> QED
    BY <2>1, <1>5, <1>s, <1>e, <1>v, <1>f
<1>6. ASSUME NEW c \in Clients, Reads(c)
      PROVE  HubTyped' /\ ReadRight' /\ SocketsFollow'
  <2>1. UNCHANGED <<attempt, live, hub, socket>>
    BY <1>6 DEF Reads
  <2>2. PICK fresh \in SUBSET HomeItems : view' = [view EXCEPT ![c] = fresh]
    BY <1>6 DEF Reads
  <2>3. \A i \in fresh : i \in [id : Ids, about : Requests] /\ i.about.id = i.id /\ i.about.of <= attempt
    BY HomeRight
  <2>4. Views
    BY <1>0, <2>1, <2>2, <2>3 DEF Views
  <2>5. Rest
    BY <1>0, <2>1 DEF Rest
  <2> QED
    BY <2>1, <2>4, <2>5, <1>s, <1>e, <1>f
<1>7. ASSUME NEW c \in Clients, Skips(c) \/ \E item \in view[c], input \in Inputs : Answers(c, item, input)
      PROVE  HubTyped' /\ ReadRight' /\ SocketsFollow'
  <2>1. UNCHANGED <<attempt, live, hub, socket>>
    BY <1>7 DEF Skips, Answers
  <2>2. PICK S \in SUBSET view[c] : view' = [view EXCEPT ![c] = S]
    BY <1>7 DEF Skips, Answers
  <2>3. Views
    BY <1>0, <2>1, <2>2 DEF Views
  <2>4. Rest
    BY <1>0, <2>1 DEF Rest
  <2> QED
    BY <2>1, <2>3, <2>4, <1>s, <1>e, <1>f
<1>8. ASSUME NEW s \in Sockets, Connects(s) \/ Sends(s)
      PROVE  HubTyped' /\ ReadRight' /\ SocketsFollow'
  <2>1. UNCHANGED <<attempt, live, hub, view>>
    BY <1>8 DEF Connects, Sends
  <2>2. PICK st : socket' = [socket EXCEPT ![s] = st] /\
                  \/ st = Subscribed
                  \/ st = Closed
                  \/ /\ socket[s].on /\ socket[s].queue # <<>>
                     /\ st = [socket[s] EXCEPT !.got = Append(@, Head(socket[s].queue)), !.queue = Tail(@)]
    <3>1. CASE Connects(s)
      BY <3>1 DEF Connects
    <3>2. CASE Sends(s)
      <4>1. CASE Head(socket[s].queue).type = "end"
        BY <3>2, <4>1 DEF Sends
      <4>2. CASE Head(socket[s].queue).type # "end"
        <5> DEFINE st == [socket[s] EXCEPT !.got = Append(@, Head(socket[s].queue)), !.queue = Tail(@)]
        <5>1. socket' = [socket EXCEPT ![s] = IF Head(socket[s].queue).type = "end" THEN Closed ELSE st]
          BY <3>2 DEF Sends
        <5>2. socket[s].on /\ socket[s].queue # <<>>
          BY <3>2 DEF Sends
        <5>3. socket' = [socket EXCEPT ![s] = st]
          BY <4>2, <5>1
        <5> QED
          BY <5>2, <5>3
      <4> QED
        BY <4>1, <4>2
    <3> QED
      BY <1>8, <3>1, <3>2
  <2>3. /\ st \in States
        /\ st.on => st.of <= broker
        /\ st.on /\ st.of = broker => st.got \o st.queue = events
    <3>1. CASE st = Subscribed
      <4>1. <<>> \in Seq(Events) /\ events \in Seq(Events) /\ <<>> \o events = events
        BY <1>0 DEF Eventful
      <4>2. broker <= broker
        BY <1>0
      <4> QED
        BY <1>0, <3>1, <4>1, <4>2 DEF Subscribed, States
    <3>2. CASE st = Closed
      BY <3>2 DEF Closed, States
    <3>3. CASE /\ socket[s].on /\ socket[s].queue # <<>>
               /\ st = [socket[s] EXCEPT !.got = Append(@, Head(socket[s].queue)), !.queue = Tail(@)]
      <4>1. /\ socket[s] \in States /\ socket[s].of <= broker
            /\ socket[s].of = broker => socket[s].got \o socket[s].queue = events
        BY <1>0, <3>3 DEF SocketsFollow, SocketHearsAll
      <4>2. socket[s].got \in Seq(Events) /\ socket[s].queue \in Seq(Events)
        BY <4>1 DEF States
      <4>3. /\ Append(socket[s].got, Head(socket[s].queue)) \in Seq(Events)
            /\ Tail(socket[s].queue) \in Seq(Events)
        BY <3>3, <4>2
      <4>4. Append(socket[s].got, Head(socket[s].queue)) \o Tail(socket[s].queue)
              = socket[s].got \o socket[s].queue
        BY <3>3, <4>2, SentNext
      <4> QED
        BY <3>3, <4>1, <4>3, <4>4 DEF States
    <3> QED
      BY <2>2, <3>1, <3>2, <3>3
  <2>4. socket' \in [Sockets -> States] /\ socket'[s] = st
        /\ \A r \in Sockets : r # s => socket'[r] = socket[r]
    BY <1>0, <2>2, <2>3
  <2>5. Followed'
    BY <1>0, <2>1, <2>3, <2>4 DEF Followed, SocketsFollow, SocketHearsAll
  <2>6. Rest
    BY <1>0, <2>1 DEF Rest
  <2> QED
    BY <2>1, <2>5, <2>6, <1>e, <1>v, <1>f
<1>9. ASSUME NEW b \in timers, Evicts(b)
      PROVE  HubTyped' /\ ReadRight' /\ SocketsFollow'
  <2>1. Rest
    BY <1>0, <1>9 DEF Rest, Evicts
  <2> QED
    BY <1>9, <2>1, <1>s, <1>e, <1>v, <1>f DEF Evicts
<1>10. ASSUME HandsOver \/ UNCHANGED vars \/ \E a \in Agents : TakesUp(a) \/ Wakes(a) \/ TimesOut(a) \/ Finishes(a)
       PROVE  UNCHANGED <<attempt, hub, socket, view>> /\ live' = live
  BY <1>10 DEF HandsOver, vars, TakesUp, Wakes, TimesOut, Tells, Finishes
<1> QED
  BY <1>1, <1>2, <1>3, <1>4, <1>5, <1>6, <1>7, <1>8, <1>9, <1>10 DEF Next, AgentStep, ClientStep

-----------------------------------------------------------------------------
(* The answers. *)

\* An answer that is taken comes after all that were sent before, so it is first only where
\* none was taken yet.
LEMMA AnswersStep ==
    ASSUME AskInv, NEW c \in Clients, NEW item \in view[c], NEW input \in Inputs, Answers(c, item, input)
    PROVE  TakenRight' /\ InOrder' /\ FirstAnswers' /\ NotesApart'
<1> USE DEF operators
<1> DEFINE note == Reply(item, input)
           t0 == [of |-> attempt, note |-> note]
<1>1. /\ sent' = sent + 1 /\ sent < MaxSends /\ sent \in Nat
      /\ UNCHANGED <<attempt, live, asks, pending, agent, heard, given>>
  BY ReplyRight DEF Answers
<1>2. /\ note \in Notes /\ note.no = sent + 1 /\ note.id = item.id /\ note.about = item.about
      /\ note.input = input /\ note.body = Worded(item.id, input)
      /\ item.about.id = item.id /\ item.about.of <= attempt
  BY <1>1, ReplyRight
<1>3. IF live THEN Steer(note) ELSE UNCHANGED <<notes, loop, taken>>
  BY DEF Answers, Reply
<1>4. t0 \in Sent /\ t0.of = attempt /\ t0.note = note
  BY <1>2 DEF AskInv, RunTyped, Sent
<1> HIDE DEF note, t0
<1>5. \/ UNCHANGED <<notes, loop, taken>>
      \/ notes' = Append(notes, note) /\ UNCHANGED <<loop, taken>>
      \/ /\ live /\ Open(note.id) /\ UNCHANGED notes
         /\ loop' = Append(loop, t0) /\ taken' = taken \cup {t0}
  BY <1>3 DEF Steer, Takes, t0
<1>6. /\ attempt \in Nat /\ DOMAIN pending \subseteq Now
      /\ taken \subseteq Sent /\ loop \in Seq(Sent) /\ notes \in Seq(Notes) /\ given \in Seq(Notes)
      /\ \A t \in Sent : t.note.no \in Nat /\ t.of \in Nat
  BY AttentionAssumption DEF AskInv, RunTyped, Sent, Notes
<1>7. TakenRight'
  <2>1. ASSUME NEW t \in taken
        PROVE  /\ t.of <= attempt /\ (live /\ t.of = attempt => t.note.id \in Now)
               /\ t.note.about.id = t.note.id /\ t.note.about.of <= t.of
               /\ t.note.body = Worded(t.note.id, t.note.input)
               /\ t.note.no <= sent'
    BY <1>1, <1>6, <2>1 DEF AskInv, TakenRight
  <2>2. ASSUME t0 \in taken', t0 \notin taken
        PROVE  /\ t0.of <= attempt /\ (live /\ t0.of = attempt => t0.note.id \in Now)
               /\ t0.note.about.id = t0.note.id /\ t0.note.about.of <= t0.of
               /\ t0.note.body = Worded(t0.note.id, t0.note.input)
               /\ t0.note.no <= sent'
    <3>1. note.id \in Now
      BY <1>5, <1>6, <2>2 DEF Open
    <3> QED
      BY <1>1, <1>2, <1>4, <1>6, <3>1
  <2>3. taken' \subseteq taken \cup {t0} /\ Now' = Now
    BY <1>1, <1>5 DEF Now
  <2> QED
    BY <1>1, <2>1, <2>2, <2>3 DEF TakenRight
<1>8. InOrder'
  <2>1. CASE UNCHANGED <<loop, taken>>
    BY <2>1 DEF AskInv, InOrder
  <2>2. CASE loop' = Append(loop, t0) /\ taken' = taken \cup {t0}
    <3>1. /\ DOMAIN loop' = 1..(Len(loop) + 1) /\ DOMAIN loop = 1..Len(loop) /\ Len(loop) \in Nat
          /\ loop'[Len(loop) + 1] = t0 /\ \A k \in DOMAIN loop : loop'[k] = loop[k]
      BY <1>4, <1>6, <2>2
    <3>2. \A k \in DOMAIN loop : loop[k].note.no < t0.note.no /\ loop[k] \in taken
      BY <1>1, <1>2, <1>4, <1>6 DEF AskInv, InOrder, TakenRight
    <3>3. \A k \in DOMAIN loop' : loop'[k] \in taken'
      BY <2>2, <3>1, <3>2
    <3>4. ASSUME NEW j \in DOMAIN loop', NEW k \in DOMAIN loop', j < k
          PROVE  loop'[j].note.no < loop'[k].note.no
      <4>1. j \in DOMAIN loop
        BY <3>1, <3>4
      <4>2. CASE k \in DOMAIN loop
        BY <3>1, <3>4, <4>1, <4>2 DEF AskInv, InOrder
      <4>3. CASE k = Len(loop) + 1
        BY <3>1, <3>2, <4>1, <4>3
      <4> QED
        BY <3>1, <4>2, <4>3
    <3> QED
      BY <3>3, <3>4 DEF InOrder
  <2> QED
    BY <1>5, <2>1, <2>2
<1>9. FirstAnswers'
  <2>1. ASSUME NEW of, NEW id, NEW n, FirstTaken(of, id, n)
        PROVE  FirstTaken(of, id, n)'
    <3>1. [of |-> of, note |-> n] \in taken /\ n.no <= sent /\ n.no \in Nat
      BY <1>6, <2>1 DEF AskInv, TakenRight, FirstTaken
    <3>2. n.no <= t0.note.no
      BY <1>1, <1>2, <1>4, <3>1
    <3> QED
      BY <1>5, <2>1, <3>1, <3>2 DEF FirstTaken
  <2>2. ASSUME NEW id \in DOMAIN pending, pending[id] = None, NEW t \in taken',
               t.of = attempt, t.note.id = id
        PROVE  \E k \in DOMAIN loop' : loop'[k] = t
    <3>1. CASE t \in taken
      <4>1. PICK k \in DOMAIN loop : loop[k] = t
        BY <2>2, <3>1 DEF AskInv, FirstAnswers
      <4>2. k \in DOMAIN loop' /\ loop'[k] = loop[k]
        <5>1. CASE loop' = loop
          BY <5>1
        <5>2. CASE loop' = Append(loop, t0)
          BY <1>4, <1>6, <5>2
        <5> QED
          BY <1>5, <5>1, <5>2
      <4> QED
        BY <4>1, <4>2
    <3>2. CASE t \notin taken
      <4>1. t = t0 /\ loop' = Append(loop, t0)
        BY <1>5, <3>2
      <4>2. Len(loop) + 1 \in DOMAIN loop' /\ loop'[Len(loop) + 1] = t0
        BY <1>4, <1>6, <4>1
      <4> QED
        BY <4>1, <4>2
    <3> QED
      BY <3>1, <3>2
  <2>3. /\ \A id \in DOMAIN pending : pending[id] # None => FirstTaken(attempt, id, pending[id])
        /\ \A h \in heard : h.by # None => FirstTaken(h.of, h.id, h.by)
    BY DEF AskInv, FirstAnswers
  <2>4. \A h \in heard : h.by # None => FirstTaken(h.of, h.id, h.by)'
    BY <2>1, <2>3
  <2>5. \A id \in DOMAIN pending : pending[id] # None => FirstTaken(attempt, id, pending[id])'
    BY <1>1, <2>1, <2>3
  <2> QED
    BY <1>1, <2>2, <2>4, <2>5 DEF FirstAnswers, FirstTaken
<1>10. NotesApart'
  <2>1. /\ \A k \in DOMAIN notes : notes[k].no <= sent /\ notes[k].no \in Nat
        /\ \A k \in DOMAIN given : given[k].no <= sent /\ given[k].no \in Nat
        /\ \A t \in taken : t.note.no <= sent /\ t.note.no \in Nat
    <3>1. /\ \A k \in DOMAIN notes : notes[k] \in Notes
          /\ \A k \in DOMAIN given : given[k] \in Notes
      BY <1>6
    <3>2. \A n \in Notes : n.no \in Nat
      BY AttentionAssumption DEF Notes
    <3>3. \A t \in taken : t.note \in Notes
      BY <1>6 DEF Sent
    <3> QED
      BY <3>1, <3>2, <3>3 DEF AskInv, NotesApart, TakenRight
  <2>2. CASE UNCHANGED <<notes, taken>>
    BY <1>1, <2>1, <2>2 DEF AskInv, NotesApart
  <2>3. CASE notes' = Append(notes, note) /\ UNCHANGED taken
    <3>1. /\ DOMAIN notes' = 1..(Len(notes) + 1) /\ DOMAIN notes = 1..Len(notes) /\ Len(notes) \in Nat
          /\ notes'[Len(notes) + 1] = note /\ \A k \in DOMAIN notes : notes'[k] = notes[k]
      BY <1>2, <1>6, <2>3
    <3>2. \A k \in DOMAIN notes' : k \in DOMAIN notes \/ k = Len(notes) + 1
      BY <3>1
    <3>3. \A k \in DOMAIN notes' : \/ notes'[k].no = sent + 1 /\ k = Len(notes) + 1
                                   \/ k \in DOMAIN notes /\ notes'[k] = notes[k]
      BY <1>2, <3>1, <3>2
    <3> QED
      BY <1>1, <2>1, <2>3, <3>3 DEF AskInv, NotesApart
  <2>4. CASE UNCHANGED notes /\ taken' = taken \cup {t0}
    BY <1>1, <1>2, <1>4, <2>1, <2>4 DEF AskInv, NotesApart
  <2> QED
    BY <1>5, <2>2, <2>3, <2>4
<1> QED
  BY <1>7, <1>8, <1>9, <1>10

\* Whatever step is taken, what an agent hears is the first answer its request took.
LEMMA HeardStep ==
    ASSUME AskInv, [Next]_vars
    PROVE  TakenRight' /\ InOrder' /\ FirstAnswers'
<1> USE DEF control, hub, operators, history
<1>0. /\ attempt \in Nat /\ asks \in Nat /\ loop \in Seq(Sent) /\ taken \subseteq Sent
      /\ pending \in [DOMAIN pending -> Notes \cup {None}] /\ DOMAIN pending \subseteq Now
      /\ \A t \in taken : t.of \in Nat /\ t.of <= attempt /\ t.note.about.of <= t.of
  BY AttentionAssumption DEF AskInv, RunTyped, TakenRight, Sent
<1>1. ASSUME UNCHANGED <<attempt, live, asks, pending, loop, taken, heard, sent>>
      PROVE  TakenRight' /\ InOrder' /\ FirstAnswers'
  BY <1>1 DEF AskInv, TakenRight, InOrder, FirstAnswers, FirstTaken, Now
\* What was heard before stays first while nothing more is taken.
<1>h. ASSUME UNCHANGED <<taken, heard>>
      PROVE  \A h \in heard' : h.by # None => FirstTaken(h.of, h.id, h.by)'
  BY <1>h DEF AskInv, FirstAnswers, FirstTaken
<1>2. CASE Starts
  <2>1. /\ attempt' = attempt + 1 /\ UNCHANGED <<loop, taken, heard, sent>>
        /\ DOMAIN pending' = {}
    BY <1>2 DEF Starts, NewControl
  <2>2. \A t \in taken : t.of <= attempt' /\ t.of # attempt'
    BY <1>0, <2>1
  <2>3. TakenRight'
    BY <2>1, <2>2 DEF AskInv, TakenRight
  <2>4. FirstAnswers'
    BY <2>1, <1>h DEF FirstAnswers
  <2> QED
    BY <2>1, <2>3, <2>4 DEF AskInv, InOrder
<1>3. CASE Ends \/ ServerStops
  <2>1. /\ live' = FALSE /\ UNCHANGED <<attempt, taken, heard, sent>>
        /\ DOMAIN pending' = {} /\ loop' \in {loop, <<>>}
    BY <1>3 DEF Ends, ServerStops, NewControl
  <2>2. TakenRight'
    BY <2>1 DEF AskInv, TakenRight
  <2>3. InOrder'
    <3>1. CASE loop' = loop
      BY <2>1, <3>1 DEF AskInv, InOrder
    <3>2. CASE loop' = <<>>
      BY <3>2 DEF InOrder
    <3> QED
      BY <2>1, <3>1, <3>2
  <2>4. FirstAnswers'
    BY <2>1, <1>h DEF FirstAnswers
  <2> QED
    BY <2>2, <2>3, <2>4
<1>4. CASE HandsOver
  <2> DEFINE t0 == Head(loop)
             id0 == t0.note.id
  <2>1. /\ loop # <<>> /\ loop' = Tail(loop)
        /\ UNCHANGED <<attempt, live, asks, taken, heard, sent>>
    BY <1>4 DEF HandsOver
  <2>2. pending' = IF t0.of = attempt /\ Open(id0) THEN [pending EXCEPT ![id0] = t0.note] ELSE pending
    BY <1>4 DEF HandsOver, NotDone
  <2>3. /\ Len(loop) \in Nat \ {0} /\ DOMAIN loop = 1..Len(loop) /\ t0 = loop[1]
        /\ DOMAIN loop' = 1..(Len(loop) - 1) /\ \A k \in DOMAIN loop' : loop'[k] = loop[k + 1]
    BY <1>0, <2>1
  <2>4. t0 \in taken /\ t0 \in Sent
    BY <1>0, <2>3 DEF AskInv, InOrder
  <2> HIDE DEF t0
  <2>5. TakenRight'
    BY <2>1 DEF AskInv, TakenRight, Now
  <2>6. InOrder'
    <3>1. \A k \in DOMAIN loop' : k + 1 \in DOMAIN loop
      BY <2>3
    <3>2. \A k \in DOMAIN loop' : loop'[k] \in taken'
      BY <2>1, <2>3, <3>1 DEF AskInv, InOrder
    <3>3. ASSUME NEW j \in DOMAIN loop', NEW k \in DOMAIN loop', j < k
          PROVE  loop'[j].note.no < loop'[k].note.no
      <4>1. j + 1 < k + 1 /\ j + 1 \in DOMAIN loop /\ k + 1 \in DOMAIN loop
        BY <2>3, <3>1, <3>3
      <4> QED
        BY <2>3, <4>1 DEF AskInv, InOrder
    <3> QED
      BY <3>2, <3>3 DEF InOrder
  <2>7. ASSUME NEW t \in taken, NEW k \in DOMAIN loop, loop[k] = t
        PROVE  t = t0 \/ ((\E j \in DOMAIN loop' : loop'[j] = t) /\ t0.note.no < t.note.no)
    <3>1. CASE k = 1
      BY <2>3, <2>7, <3>1
    <3>2. CASE k # 1
      <4>1. k - 1 \in DOMAIN loop' /\ (k - 1) + 1 = k /\ 1 \in DOMAIN loop /\ 1 < k
        BY <2>3, <3>2
      <4>2. loop'[k - 1] = t
        BY <2>3, <2>7, <4>1
      <4>3. t0.note.no < t.note.no
        BY <2>3, <2>7, <4>1 DEF AskInv, InOrder
      <4> QED
        BY <4>1, <4>2, <4>3
    <3> QED
      BY <3>1, <3>2
  <2>8. ASSUME NEW id \in DOMAIN pending,
               IF pending[id] = None
               THEN \A t \in taken : t.of = attempt /\ t.note.id = id => \E k \in DOMAIN loop : loop[k] = t
               ELSE FirstTaken(attempt, id, pending[id])
        PROVE  IF pending'[id] = None
               THEN \A t \in taken : t.of = attempt /\ t.note.id = id => \E k \in DOMAIN loop' : loop'[k] = t
               ELSE FirstTaken(attempt, id, pending'[id])
    <3>1. CASE t0.of = attempt /\ Open(id0) /\ id = id0
      <4>1. pending'[id] = t0.note /\ pending[id] = None
        BY <2>2, <3>1 DEF Open
      <4>2. t0.note \in Notes /\ t0.note # None
        BY <2>4, NoneAssumption DEF Sent
      <4>3. [of |-> attempt, note |-> t0.note] = t0
        BY <2>4, <3>1 DEF Sent
      <4>4. \A t \in taken : t.of = attempt /\ t.note.id = id => t0.note.no <= t.note.no
        <5>1. \A t \in taken : t.note.no \in Nat
          BY <1>0 DEF Sent, Notes
        <5>2. ASSUME NEW t \in taken, t.of = attempt, t.note.id = id
              PROVE  t = t0 \/ t0.note.no < t.note.no
          BY <2>7, <2>8, <4>1, <5>2
        <5> QED
          BY <2>4, <5>1, <5>2
      <4> QED
        BY <2>4, <3>1, <4>1, <4>2, <4>3, <4>4 DEF FirstTaken
    <3>2. CASE ~(t0.of = attempt /\ Open(id0) /\ id = id0)
      <4>1. pending'[id] = pending[id]
        BY <2>2, <3>2
      <4>2. CASE pending[id] = None
        <5>1. \A t \in taken : t.of = attempt /\ t.note.id = id => t # t0
          BY <3>2, <4>2 DEF Open
        <5> QED
          BY <2>7, <2>8, <4>1, <4>2, <5>1
      <4>3. CASE pending[id] # None
        BY <2>8, <4>1, <4>3
      <4> QED
        BY <4>2, <4>3
    <3> QED
      BY <3>1, <3>2
  <2>9. DOMAIN pending' = DOMAIN pending
    BY <2>2
  <2>10. \A id \in DOMAIN pending :
           IF pending'[id] = None
           THEN \A t \in taken : t.of = attempt /\ t.note.id = id => \E k \in DOMAIN loop' : loop'[k] = t
           ELSE FirstTaken(attempt, id, pending'[id])
    BY <2>8 DEF AskInv, FirstAnswers
  <2>11. FirstAnswers'
    BY <2>1, <2>9, <2>10, <1>h DEF FirstAnswers, FirstTaken
  <2> QED
    BY <2>5, <2>6, <2>11
<1>5. ASSUME NEW a \in Agents, TakesUp(a) \/ Finishes(a)
      PROVE  TakenRight' /\ InOrder' /\ FirstAnswers'
  BY <1>1, <1>5 DEF TakesUp, Finishes
<1>6. ASSUME NEW a \in Agents, NEW note, Waits(a), note = None \/ note = pending[agent[a]], Tells(a, note)
      PROVE  TakenRight' /\ InOrder' /\ FirstAnswers'
  <2> DEFINE h0 == [of |-> attempt, id |-> agent[a], by |-> note]
  <2>1. /\ UNCHANGED <<attempt, live, asks, loop, taken, sent>>
        /\ heard' = heard \cup {h0} /\ h0.of = attempt /\ h0.id = agent[a] /\ h0.by = note
    BY <1>6 DEF Tells
  <2>2. /\ DOMAIN pending' = DOMAIN pending \ {agent[a]}
        /\ \A id \in DOMAIN pending' : pending'[id] = pending[id]
        /\ agent[a] \in DOMAIN pending
    BY <1>6 DEF Tells, Restrict, AskInv, WaitsApart
  <2> HIDE DEF h0
  <2>3. note # None => FirstTaken(attempt, agent[a], note)
    BY <1>6, <2>2 DEF AskInv, FirstAnswers
  <2>4. \A h \in heard' : h.by # None => FirstTaken(h.of, h.id, h.by)
    BY <2>1, <2>3 DEF AskInv, FirstAnswers
  <2>5. FirstAnswers'
    BY <2>1, <2>2, <2>4 DEF AskInv, FirstAnswers, FirstTaken
  <2> QED
    BY <2>1, <2>5 DEF AskInv, TakenRight, InOrder, Now
<1>7. ASSUME NEW a \in Agents, NEW kind \in Kinds, Asks(a, kind)
      PROVE  TakenRight' /\ InOrder' /\ FirstAnswers'
  <2> DEFINE id0 == <<kind, asks + 1>>
  <2>1. /\ live /\ asks' = asks + 1 /\ UNCHANGED <<attempt, live, loop, taken, heard, sent>>
        /\ pending' = [i \in DOMAIN pending \cup {id0} |-> IF i = id0 THEN None ELSE pending[i]]
    BY <1>7 DEF Asks
  <2>2. id0 \notin Now /\ Now \subseteq Now'
    BY <1>0, <2>1 DEF Now
  <2> HIDE DEF id0
  <2>3. TakenRight'
    BY <2>1, <2>2 DEF AskInv, TakenRight
  <2>4. ASSUME NEW t \in taken, t.of = attempt
        PROVE  t.note.id # id0
    BY <2>1, <2>2, <2>4 DEF AskInv, TakenRight
  <2>5. id0 \notin DOMAIN pending
    BY <1>0, <2>2
  <2>6. ASSUME NEW id \in DOMAIN pending'
        PROVE  IF pending'[id] = None
               THEN \A t \in taken : t.of = attempt /\ t.note.id = id => \E k \in DOMAIN loop : loop[k] = t
               ELSE FirstTaken(attempt, id, pending'[id])
    <3>1. CASE id = id0
      BY <2>1, <2>4, <3>1
    <3>2. CASE id # id0
      BY <2>1, <2>6, <3>2 DEF AskInv, FirstAnswers
    <3> QED
      BY <3>1, <3>2
  <2>7. FirstAnswers'
    BY <2>1, <2>6, <1>h DEF FirstAnswers, FirstTaken
  <2> QED
    BY <2>1, <2>3, <2>7 DEF AskInv, InOrder
<1>8. ASSUME NEW c \in Clients, Reads(c) \/ Skips(c)
      PROVE  TakenRight' /\ InOrder' /\ FirstAnswers'
  BY <1>1, <1>8 DEF Reads, Skips
<1>9. ASSUME NEW s \in Sockets, Connects(s) \/ Sends(s)
      PROVE  TakenRight' /\ InOrder' /\ FirstAnswers'
  BY <1>1, <1>9 DEF Connects, Sends
<1>10. ASSUME NEW b \in timers, Evicts(b)
       PROVE  TakenRight' /\ InOrder' /\ FirstAnswers'
  BY <1>1, <1>10 DEF Evicts
<1>11. CASE UNCHANGED vars
  BY <1>1, <1>11 DEF vars
<1>12. ASSUME NEW a \in Agents, Wakes(a) \/ TimesOut(a)
       PROVE  \E note : /\ Waits(a) /\ Tells(a, note)
                        /\ note = None \/ note = pending[agent[a]]
  BY <1>12 DEF Wakes, TimesOut
<1> QED
  BY <1>2, <1>3, <1>4, <1>5, <1>6, <1>7, <1>8, <1>9, <1>10, <1>11, <1>12, AnswersStep
     DEF Next, AgentStep, ClientStep

\* Whatever step is taken, a note that was taken up by a subtask is no other's, and no
\* agent's answer.
LEMMA NotesStep ==
    ASSUME AskInv, [Next]_vars
    PROVE  NotesApart'
<1> USE DEF control, hub, operators, history
<1>1. ASSUME UNCHANGED <<given, taken, sent>>, notes' = notes \/ notes' = <<>>
      PROVE  NotesApart'
  <2>1. CASE notes' = notes
    BY <1>1, <2>1 DEF AskInv, NotesApart
  <2>2. CASE notes' = <<>>
    BY <1>1, <2>2 DEF AskInv, NotesApart
  <2> QED
    BY <1>1, <2>1, <2>2
<1>2. ASSUME NEW a \in Agents, TakesUp(a)
      PROVE  NotesApart'
  <2>1. given' = given \o notes /\ notes' = <<>> /\ UNCHANGED <<taken, sent>>
    BY <1>2 DEF TakesUp
  <2>2. /\ given \in Seq(Notes) /\ notes \in Seq(Notes)
        /\ Len(given) \in Nat /\ Len(notes) \in Nat
        /\ DOMAIN given = 1..Len(given) /\ DOMAIN notes = 1..Len(notes)
    BY DEF AskInv, RunTyped
  <2>3. /\ DOMAIN given' = 1..(Len(given) + Len(notes))
        /\ \A k \in 1..Len(given) : given'[k] = given[k]
        /\ \A k \in (Len(given) + 1)..(Len(given) + Len(notes)) : given'[k] = notes[k - Len(given)]
    BY <2>1, <2>2
  <2>4. ASSUME NEW k \in DOMAIN given'
        PROVE  \/ k \in DOMAIN given /\ given'[k] = given[k]
               \/ /\ k \notin DOMAIN given /\ k - Len(given) \in DOMAIN notes
                  /\ given'[k] = notes[k - Len(given)]
    BY <2>2, <2>3
  <2>5. ASSUME NEW j \in DOMAIN given', NEW k \in DOMAIN given', given'[j].no = given'[k].no
        PROVE  j = k
    <3>1. CASE j \in DOMAIN given /\ k \in DOMAIN given
      BY <2>4, <2>5, <3>1 DEF AskInv, NotesApart
    <3>2. CASE j \notin DOMAIN given /\ k \notin DOMAIN given
      <4>1. j - Len(given) = k - Len(given)
        BY <2>4, <2>5, <3>2 DEF AskInv, NotesApart
      <4> QED
        BY <2>2, <2>3, <4>1
    <3>3. CASE j \in DOMAIN given /\ k \notin DOMAIN given
      BY <2>4, <2>5, <3>3 DEF AskInv, NotesApart
    <3>4. CASE j \notin DOMAIN given /\ k \in DOMAIN given
      BY <2>4, <2>5, <3>4 DEF AskInv, NotesApart
    <3> QED
      BY <3>1, <3>2, <3>3, <3>4
  <2>6. \A k \in DOMAIN given' : /\ given'[k].no <= sent
                                 /\ \A t \in taken : t.note.no # given'[k].no
    BY <2>4 DEF AskInv, NotesApart
  <2> QED
    BY <2>1, <2>5, <2>6 DEF NotesApart
<1>3. CASE Starts \/ Ends \/ ServerStops \/ HandsOver \/ UNCHANGED vars
  BY <1>1, <1>3 DEF Starts, Ends, ServerStops, NewControl, HandsOver, vars
<1>4. ASSUME NEW a \in Agents, \/ Wakes(a) \/ TimesOut(a) \/ Finishes(a)
                               \/ \E kind \in Kinds : Asks(a, kind)
      PROVE  NotesApart'
  BY <1>1, <1>4 DEF Wakes, TimesOut, Tells, Finishes, Asks
<1>5. ASSUME NEW c \in Clients, Reads(c) \/ Skips(c)
      PROVE  NotesApart'
  BY <1>1, <1>5 DEF Reads, Skips
<1>6. ASSUME NEW s \in Sockets, Connects(s) \/ Sends(s)
      PROVE  NotesApart'
  BY <1>1, <1>6 DEF Connects, Sends
<1>7. ASSUME NEW b \in timers, Evicts(b)
      PROVE  NotesApart'
  BY <1>1, <1>7 DEF Evicts
<1> QED
  BY <1>2, <1>3, <1>4, <1>5, <1>6, <1>7, AnswersStep DEF Next, AgentStep, ClientStep

-----------------------------------------------------------------------------
(* The theorems. *)

\* The inductive invariant holds before anything is started.
LEMMA InitHolds == Init => AskInv
<1> SUFFICES ASSUME Init PROVE AskInv
  OBVIOUS
<1>1. /\ attempt = 0 /\ live = FALSE /\ asks = 0 /\ pending = <<>> /\ notes = <<>> /\ loop = <<>>
      /\ agent = [a \in Agents |-> Idle]
      /\ events = <<>> /\ listed = FALSE /\ broker = 0 /\ timers = {}
      /\ socket = [s \in Sockets |-> Closed] /\ view = [c \in Clients |-> {}]
      /\ sent = 0 /\ taken = {} /\ heard = {} /\ given = <<>>
  BY DEF Init
<1>2. /\ <<>> \in Seq(Notes) /\ <<>> \in Seq(Sent) /\ <<>> \in Seq(Events)
      /\ DOMAIN <<>> = {} /\ <<>> \in [{} -> Notes \cup {None}]
  OBVIOUS
<1>3. agent \in [Agents -> Ids \cup {Idle, AtWork}] /\ view \in [Clients -> SUBSET [id : Ids, about : Requests]]
  BY <1>1
<1>4. RunTyped
  <2>1. 0 \in 0..MaxAttempts /\ 0 \in 0..MaxAsks /\ 0 \in 0..MaxSends
    BY AttentionAssumption
  <2>2. pending \in [DOMAIN pending -> Notes \cup {None}] /\ DOMAIN pending \subseteq Now
    BY <1>1, <1>2
  <2>3. notes \in Seq(Notes) /\ given \in Seq(Notes) /\ loop \in Seq(Sent) /\ taken \subseteq Sent
    BY <1>1, <1>2
  <2>4. \A h \in heard : h.by \in Notes \cup {None}
    BY <1>1
  <2> QED
    BY <1>1, <1>3, <2>1, <2>2, <2>3, <2>4 DEF RunTyped
<1>5. Closed \in States /\ Closed.on = FALSE
  BY <1>2 DEF Closed, States
<1>6. HubTyped /\ SocketsFollow
  BY <1>1, <1>2, <1>3, <1>5 DEF HubTyped, SocketsFollow, SocketHearsAll
<1>7. WaitsApart
  BY <1>1 DEF WaitsApart, Waits
<1>8. ReadRight /\ TakenRight /\ InOrder /\ FirstAnswers /\ NotesApart
  BY <1>1, <1>2 DEF ReadRight, TakenRight, InOrder, FirstAnswers, NotesApart
<1> QED
  BY <1>4, <1>6, <1>7, <1>8 DEF AskInv

\* Of the requests, the answers on their way to them, the notes and the sockets, in every
\* state of the run and of its attempts.
THEOREM AskInvariantHolds == Spec => []AskInv
<1>1. AskInv /\ [Next]_vars => AskInv'
  BY TypedStep, HubStep, HeardStep, NotesStep DEF AskInv
<1> QED
  BY <1>1, InitHolds, PTL DEF Spec

\* What an agent hears is the first answer to its own request, and a grant only what the
\* operator allowed, however the answers, the timeouts and the attempts of the run interleave
\* (RunControl.wait_answer, _try_answer, build_note).
THEOREM AgentsHearRight == Spec => []HeardRight
<1>1. AskInv => HeardRight
  <2> SUFFICES ASSUME AskInv PROVE HeardRight
    OBVIOUS
  <2>1. TypeOK
    <3>1. Now \subseteq Ids
      BY AttentionAssumption DEF AskInv, RunTyped, Now, Ids
    <3>2. sent <= MaxSends
      BY AttentionAssumption DEF AskInv, RunTyped
    <3> QED
      BY <3>1, <3>2 DEF AskInv, RunTyped, HubTyped, WaitsApart, TypeOK
  <2>2. ASSUME NEW h \in heard, h.by # None
        PROVE  LET t == [of |-> h.of, note |-> h.by]
               IN  /\ t \in taken /\ h.by.id = h.id /\ h.by.about.id = h.by.id
                   /\ h.by.about.of <= h.of /\ h.by.body = Worded(h.by.id, h.by.input)
                   /\ h.by.input \in Inputs
    <3>1. [of |-> h.of, note |-> h.by] \in taken /\ h.by.id = h.id
      BY <2>2 DEF AskInv, FirstAnswers, FirstTaken
    <3>2. h.by.input \in Inputs
      BY <2>2, <3>1 DEF AskInv, RunTyped, Sent, Notes
    <3> QED
      BY <3>1, <3>2 DEF AskInv, TakenRight
  <2>3. AnswerMeant
    BY <2>2 DEF AnswerMeant
  <2>4. FirstAnswerHeard
    BY DEF AskInv, FirstAnswers, FirstTaken, FirstAnswerHeard
  <2>5. GrantedMeansAllowed
    <3> SUFFICES ASSUME NEW h \in heard, h.id[1] = "permission", h.by # None, h.by.body # "deny"
                 PROVE  h.by.input = "allow"
      BY DEF GrantedMeansAllowed
    <3>1. h.by.input \in {"allow", "deny", "other"}
      BY <2>2, AttentionAssumption
    <3> QED
      BY <2>2, <3>1 DEF Worded
  <2> QED
    BY <2>1, <2>3, <2>4, <2>5 DEF HeardRight
<1> QED
  BY <1>1, AskInvariantHolds, PTL

\* An answer is told to one agent or becomes a note of one subtask, never both, and a
\* socket is sent all events of its Broker in order, however late it joined
\* (RunControl.steer and drain_steer, Broker.publish and subscribe).
THEOREM EveryoneToldRight == Spec => []ToldRight
<1>1. AskInv => ToldRight
  <2> SUFFICES ASSUME AskInv PROVE ToldRight
    OBVIOUS
  <2>1. IsInjective(given)
    BY DEF AskInv, NotesApart, IsInjective
  <2>2. ASSUME NEW k \in DOMAIN given, NEW h \in heard
        PROVE  h.by # given[k]
    <3>1. CASE h.by = None
      <4>1. given[k] \in Notes
        BY <2>2 DEF AskInv, RunTyped
      <4> QED
        BY <3>1, <4>1, NoneAssumption
    <3>2. CASE h.by # None
      <4>1. [of |-> h.of, note |-> h.by] \in taken
        BY <3>2 DEF AskInv, FirstAnswers, FirstTaken
      <4> QED
        BY <4>1 DEF AskInv, NotesApart
    <3> QED
      BY <3>1, <3>2
  <2> QED
    BY <2>1, <2>2 DEF AskInv, SocketsFollow, ToldRight, ToldOnce
<1> QED
  BY <1>1, AskInvariantHolds, PTL
=============================================================================
