-------------------------- MODULE ReviewFlow_proofs --------------------------
(***************************************************************************)
(* Theorems about ReviewFlow, for every set of subtasks and requests and   *)
(* any number of changes, resumes and crashes.                             *)
(***************************************************************************)
EXTENDS ReviewFlow, TLAPS

\* The changes that were made, and those that are a subtask's alone.
Made == {c \in Changes : c \in recorded[c.of]}
Mine(i) == recorded[i] \ Shared

\* What requests of each kind work on, and how far they get.
Shape(r) ==
    \/ /\ req[r].op = "accept" /\ req[r].at \in {"git", "head", "record"}
       /\ req[r].at = "head" => inCheckout
       /\ \E i \in Subtasks : /\ req[r].subs = {i}
                              /\ req[r].picks \subseteq recorded[i] /\ req[r].picks # {}
    \/ /\ req[r].op = "rollback" /\ req[r].at \in {"git", "record"}
       /\ \E i \in Subtasks : /\ req[r].subs = {i} /\ decision[i] # "none"
                              /\ i \notin disturbed => accepted[i] # 0 /\ req[r].commit = accepted[i]
    \/ req[r].op = "deliver" /\ req[r].at \in {"git", "reads"} /\ req[r].subs = Subtasks
    \/ /\ req[r].op = "deliver" /\ req[r].at = "record"
       /\ \A i \in req[r].subs \ disturbed : decision[i] = "none"
    \/ req[r].op = "gc" /\ req[r].at = "git" /\ req[r].subs = {}

Shaped ==
    /\ inCheckout \in BOOLEAN
    /\ \A r \in Requests : InFlight(r) => Shape(r)

\* Subtasks on which two requests overlap are disturbed.
Apart ==
    \A r, q \in Requests : r # q /\ InFlight(r) /\ InFlight(q) =>
        Touched(req[r].subs, req[q].subs) \subseteq disturbed

\* A commit recorded for some subtasks is of what was their merge commit, and takes nothing
\* away, but for disturbed ones.
IsOwn(l, rec, d, S, k) ==
    /\ k \in DOMAIN l
    /\ \A c \in l[k].adds \cup l[k].removes : \E i \in Subtasks : i \in S \cup d /\ c \in rec[i]
    /\ S \cap d = {} => /\ l[k].removes = {}
                        /\ \A c \in l[k].adds : \E i \in Subtasks : i \in S /\ c \in rec[i]

OwnCommit(S, k) == IsOwn(log, recorded, disturbed, S, k)

\* A commit is the pick of a request, unless that is disturbed.
IsPick(l, d, x, k) == x.subs \cap d = {} => l[k].adds = x.picks

\* What a request has committed, or is about to revert.
CommitsOf(l, rec, d, x) ==
    /\ x.op = "accept" /\ x.at = "head"
         => IsOwn(l, rec, d, x.subs, Len(l)) /\ IsPick(l, d, x, Len(l))
    /\ x.op = "accept" /\ x.at = "record"
         => IsOwn(l, rec, d, x.subs, x.commit) /\ IsPick(l, d, x, x.commit)
    /\ x.op = "rollback" /\ x.at = "git" => IsOwn(l, rec, d, x.subs, x.commit)

CommitsOwn ==
    /\ \A i \in Subtasks : accepted[i] # 0 => decision[i] # "none" /\ OwnCommit({i}, accepted[i])
    /\ \A r \in Requests : CommitsOf(log, recorded, disturbed, req[r])

\* Whatever is anywhere was made, and what is on record to be accepted was a merge commit.
Known ==
    /\ work \cup head \cup onTarget \cup mergedIn \subseteq Made
    /\ \A k \in DOMAIN log : log[k].adds \cup log[k].removes \subseteq Made
    /\ \A i \in Subtasks : recorded[i] \subseteq Made /\ mergeOf[i] \subseteq recorded[i]

\* What was merged, picked, or is on record as accepted is in the history of the target.
Landed ==
    /\ mergedIn \subseteq Brought
    /\ \A c \in work \ late : decision[c.of] = "accepted" => c \in Brought \/ PassedOver(c)
    /\ \A r \in Requests :
        /\ req[r].op = "accept" /\ req[r].at \in {"head", "record"} => req[r].picks \subseteq Brought
        /\ req[r].op = "deliver" /\ req[r].at \in {"reads", "record"} => work \ late \subseteq mergedIn

\* When the branch is gone, or about to go, all was decided, and nothing lost.
GoneDecided ==
    ~branch \/ (\E r \in Requests : req[r].op = "gc") =>
        /\ \A i \in Subtasks : decision[i] # "none"
        /\ \A c \in work \ late : c \in Brought \/ PassedOver(c)

\* The request that has changed the target and not yet recorded so.
Moves(r, op, i) == req[r].op = op /\ req[r].at \in {"head", "record"} /\ i \in req[r].subs
Moving(i) == \E r \in Requests : Moves(r, "accept", i) \/ Moves(r, "rollback", i)

Agrees(i) ==
    /\ decision[i] = "accepted" => Decided(i) \subseteq onTarget \cup Shared
    /\ accepted[i] = 0 => onTarget \cap Of(i) \subseteq mergedIn \cup Shared
    /\ decision[i] = "rolled_back" => Decided(i) \cap onTarget \subseteq mergedIn \cup Shared

\* Target and decisions agree of every subtask no request has moved and not yet recorded.
AgreedOf(i) ==
    /\ Moving(i) \/ Agrees(i)
    /\ decision[i] = "none" => mergedIn \cap Of(i) \subseteq onTarget \cup Shared
    /\ \A r \in Requests :
        /\ Moves(r, "accept", i) => req[r].picks \subseteq onTarget \cup Shared
        /\ Moves(r, "rollback", i) => log[accepted[i]].adds \cap onTarget \subseteq mergedIn \cup Shared

Agreed == \A i \in Subtasks \ disturbed : AgreedOf(i)

ReviewInv ==
    TypeOK /\ Shaped /\ Apart /\ CommitsOwn /\ Known /\ Landed /\ GoneDecided /\ Agreed

-----------------------------------------------------------------------------
(* What the steps have in common. *)

Entry == [adds : SUBSET Changes, removes : SUBSET Changes]

\* A change is of a subtask.
LEMMA ChangeOf == \A c \in Changes : c.of \in Subtasks
BY DEF Changes

\* The types, one by one.
LEMMA Types ==
    ASSUME TypeOK
    PROVE  /\ work \subseteq Changes /\ head \subseteq Changes /\ onTarget \subseteq Changes
           /\ mergedIn \subseteq Changes /\ late \subseteq Changes /\ disturbed \subseteq Subtasks
           /\ mergeOf \in [Subtasks -> SUBSET Changes] /\ recorded \in [Subtasks -> SUBSET Changes]
           /\ log \in Seq(Entry) /\ Len(log) \in Nat /\ DOMAIN log = 1..Len(log)
           /\ \A k \in DOMAIN log : log[k].adds \subseteq Changes /\ log[k].removes \subseteq Changes
           /\ decision \in [Subtasks -> Decisions] /\ accepted \in [Subtasks -> 0..Len(log)]
           /\ req \in [Requests -> Request]
<1>1. log \in Seq(Entry) /\ Len(log) \in Nat /\ DOMAIN log = 1..Len(log)
  BY DEF TypeOK, Entry
<1>2. \A k \in DOMAIN log : log[k] \in Entry
  BY <1>1
<1>3. \A k \in DOMAIN log : log[k].adds \subseteq Changes /\ log[k].removes \subseteq Changes
  BY <1>2 DEF Entry
<1>4. /\ work \subseteq Changes /\ head \subseteq Changes /\ onTarget \subseteq Changes
      /\ mergedIn \subseteq Changes /\ late \subseteq Changes
      /\ mergeOf \in [Subtasks -> SUBSET Changes] /\ recorded \in [Subtasks -> SUBSET Changes]
  BY Zenon DEF TypeOK
<1> QED
  BY <1>1, <1>3, <1>4 DEF TypeOK

\* The log only grows.
LogGrows ==
    /\ log' \in Seq(Entry) /\ Len(log) <= Len(log') /\ Len(log') \in Nat /\ DOMAIN log' = 1..Len(log')
    /\ \A k \in DOMAIN log : k \in DOMAIN log' /\ log'[k] = log[k]

\* So does what was ever recorded, or disturbed.
Growing ==
    /\ LogGrows /\ disturbed \subseteq disturbed'
    /\ \A i \in Subtasks : recorded[i] \subseteq recorded'[i]

\* A commit is the last of the log, and adds to its history.
LEMMA CommitFacts ==
    ASSUME TypeOK, NEW adds \in SUBSET Changes, NEW removes \in SUBSET Changes, Commit(adds, removes)
    PROVE  /\ LogGrows /\ Len(log') = Len(log) + 1 /\ Len(log') \in DOMAIN log' /\ Len(log') \notin DOMAIN log
           /\ log'[Len(log')].adds = adds /\ log'[Len(log')].removes = removes
           /\ \A k \in DOMAIN log' : k \in DOMAIN log \/ k = Len(log')
           /\ onTarget' = (onTarget \ removes) \cup adds
<1> DEFINE e == [adds |-> adds, removes |-> removes]
<1>1. e \in Entry /\ e.adds = adds /\ e.removes = removes
  BY DEF Entry
<1>2. log' = Append(log, e) /\ onTarget' = (onTarget \ removes) \cup adds
  BY DEF Commit
<1> HIDE DEF e
<1>3. log \in Seq(Entry) /\ Len(log) \in Nat /\ DOMAIN log = 1..Len(log)
  BY Types
<1>4. /\ log' \in Seq(Entry) /\ Len(log') = Len(log) + 1 /\ DOMAIN log' = 1..(Len(log) + 1)
      /\ log'[Len(log) + 1] = e /\ \A k \in 1..Len(log) : log'[k] = log[k]
  BY <1>1, <1>2, <1>3
<1> QED
  BY <1>1, <1>2, <1>3, <1>4 DEF LogGrows

LEMMA LogStays ==
    ASSUME TypeOK, UNCHANGED log
    PROVE  LogGrows
<1>1. log \in Seq(Entry) /\ Len(log) \in Nat /\ DOMAIN log = 1..Len(log)
  BY Types
<1> QED
  BY <1>1 DEF LogGrows

\* The history keeps what it has, and has what was added.
LEMMA BroughtGrows ==
    ASSUME LogGrows
    PROVE  Brought \subseteq Brought' /\ \A k \in DOMAIN log' : log'[k].adds \subseteq Brought'
BY DEF LogGrows, Brought

\* What is made stays so, and what is shared.
LEMMA SharedGrows ==
    ASSUME Growing
    PROVE  Shared \subseteq Shared' /\ Made \subseteq Made'
<1>1. Shared \subseteq Shared'
  BY DEF Growing, Shared
<1>2. Made \subseteq Made'
  BY ChangeOf DEF Growing, Made
<1> QED
  BY <1>1, <1>2

\* No change of one's own was ever another's merge commit.
LEMMA MineApart ==
    ASSUME NEW i \in Subtasks, NEW j \in Subtasks, i # j, NEW c \in Changes, c \in recorded[i]
    PROVE  c \notin Mine(j)
BY DEF Mine, Shared

\* What a commit is of stays so.
LEMMA OwnStays ==
    ASSUME Growing, NEW S, NEW k, OwnCommit(S, k)
    PROVE  IsOwn(log', recorded', disturbed', S, k)
BY DEF OwnCommit, IsOwn, Growing, LogGrows

\* A change passed over stays so.
LEMMA PassedStays ==
    ASSUME Growing, NEW c \in Made, PassedOver(c), accepted[c.of] # 0 => accepted'[c.of] # 0
    PROVE  PassedOver(c)'
<1>1. c.of \in Subtasks /\ c \in recorded[c.of]
  BY ChangeOf DEF Made
<1> QED
  BY <1>1 DEF PassedOver, Growing

\* What a subtask was decided upon was its merge commit.
LEMMA DecidedMine ==
    ASSUME CommitsOwn, Known, NEW i \in Subtasks \ disturbed
    PROVE  /\ Decided(i) \subseteq recorded[i]
           /\ Of(i) \cap Made \subseteq recorded[i]
           /\ accepted[i] # 0 => /\ accepted[i] \in DOMAIN log /\ decision[i] # "none"
                                 /\ Decided(i) = log[accepted[i]].adds
<1>1. Of(i) \cap Made \subseteq recorded[i]
  BY DEF Of, Made
<1>2. CASE accepted[i] # 0
  <2>1. IsOwn(log, recorded, disturbed, {i}, accepted[i]) /\ decision[i] # "none"
    BY <1>2 DEF CommitsOwn, OwnCommit
  <2>2. \A c \in log[accepted[i]].adds : c \in recorded[i]
    BY <2>1 DEF IsOwn
  <2> QED
    BY <1>1, <1>2, <2>1, <2>2 DEF Decided, IsOwn
<1>3. CASE accepted[i] = 0
  BY <1>1, <1>3 DEF Decided, Known
<1> QED
  BY <1>2, <1>3

\* Requests that are there, and work on no more than before, are as far apart.
LEMMA ApartStays ==
    ASSUME Apart, disturbed \subseteq disturbed', UNCHANGED inCheckout,
           \A q \in Requests : InFlight(q)' => InFlight(q) /\ req'[q].subs \subseteq req[q].subs
    PROVE  Apart'
<1> SUFFICES ASSUME NEW r \in Requests, NEW q \in Requests, r # q, InFlight(r)', InFlight(q)'
             PROVE  Touched(req[r].subs, req[q].subs)' \subseteq disturbed'
  BY DEF Apart
<1>1. Touched(req[r].subs, req[q].subs) \subseteq disturbed
  BY DEF Apart
<1>2. req'[r].subs \subseteq req[r].subs /\ req'[q].subs \subseteq req[q].subs
  OBVIOUS
<1> QED
  BY <1>1, <1>2 DEF Touched

\* Commits stay those of their subtasks, when nothing new is committed.
LEMMA CommitsOfStays ==
    ASSUME Growing, Len(log') = Len(log), NEW x, CommitsOf(log, recorded, disturbed, x),
           x.op = "accept" /\ x.at = "record" => x.commit \in DOMAIN log,
           x.op = "accept" /\ x.at = "head" => Len(log) \in DOMAIN log
    PROVE  CommitsOf(log', recorded', disturbed', x)
<1>1. \A S, k : IsOwn(log, recorded, disturbed, S, k) => IsOwn(log', recorded', disturbed', S, k)
  BY OwnStays DEF OwnCommit
<1>2. \A k \in DOMAIN log : IsPick(log, disturbed, x, k) => IsPick(log', disturbed', x, k)
  BY DEF IsPick, Growing, LogGrows
<1> QED
  BY <1>1, <1>2 DEF CommitsOf

LEMMA CommitsStay ==
    ASSUME CommitsOwn, Growing, UNCHANGED <<accepted, decision>>,
           \A q \in Requests : CommitsOf(log', recorded', disturbed', req'[q])
    PROVE  CommitsOwn'
<1>1. ASSUME NEW i \in Subtasks, accepted[i] # 0
      PROVE  decision[i] # "none" /\ IsOwn(log', recorded', disturbed', {i}, accepted[i])
  <2>1. OwnCommit({i}, accepted[i]) /\ decision[i] # "none"
    BY <1>1 DEF CommitsOwn
  <2> QED
    BY <2>1, OwnStays
<1> QED
  BY <1>1 DEF CommitsOwn, OwnCommit

\* Requests that are as they were, or over, have committed what they had.
LEMMA CommitsIdle ==
    ASSUME TypeOK, CommitsOwn, Growing, Len(log') = Len(log), NEW q \in Requests,
           req'[q] = req[q] \/ req'[q].at \notin {"git", "head", "record"}
    PROVE  CommitsOf(log', recorded', disturbed', req'[q])
<1>1. CASE req'[q] = req[q]
  <2>1. CommitsOf(log, recorded, disturbed, req[q])
    BY DEF CommitsOwn
  <2>2. /\ req[q].op = "accept" /\ req[q].at = "record" => req[q].commit \in DOMAIN log
        /\ req[q].op = "accept" /\ req[q].at = "head" => Len(log) \in DOMAIN log
    BY <2>1 DEF CommitsOf, IsOwn
  <2> QED
    BY <1>1, <2>1, <2>2, CommitsOfStays
<1>2. CASE req'[q].at \notin {"git", "head", "record"}
  BY <1>2 DEF CommitsOf
<1> QED
  BY <1>1, <1>2

\* Where a step touches neither the target nor what was made, all stays known.
LEMMA KnownStays ==
    ASSUME Known, Growing, NEW X, X \subseteq Made', UNCHANGED recorded,
           work' \subseteq work, head' \subseteq head, onTarget' \cup mergedIn' \subseteq onTarget \cup mergedIn \cup X,
           \A k \in DOMAIN log' : k \in DOMAIN log \/ log'[k].adds \cup log'[k].removes \subseteq X,
           \A i \in Subtasks : mergeOf'[i] \subseteq mergeOf[i]
    PROVE  Known'
<1>1. Made \subseteq Made'
  BY SharedGrows
<1>2. work' \cup head' \cup onTarget' \cup mergedIn' \subseteq Made'
  BY <1>1 DEF Known
<1>3. \A k \in DOMAIN log' : log'[k].adds \cup log'[k].removes \subseteq Made'
  <2> SUFFICES ASSUME NEW k \in DOMAIN log' PROVE log'[k].adds \cup log'[k].removes \subseteq Made'
    OBVIOUS
  <2>1. CASE k \in DOMAIN log
    BY <1>1, <2>1 DEF Known, Growing, LogGrows
  <2> QED
    BY <2>1
<1>4. \A i \in Subtasks : recorded'[i] \subseteq Made' /\ mergeOf'[i] \subseteq recorded'[i]
  BY <1>1 DEF Known
<1> QED
  BY <1>2, <1>3, <1>4 DEF Known

\* What is decided stays so, and what is in the history.
LEMMA GoneStays ==
    ASSUME GoneDecided, Known, Growing,
           \A i \in Subtasks : decision[i] # "none" => decision'[i] # "none",
           \A i \in Subtasks : accepted[i] # 0 => accepted'[i] # 0,
           ~branch' \/ (\E r \in Requests : req'[r].op = "gc") =>
               /\ ~branch \/ \E r \in Requests : req[r].op = "gc"
               /\ work' \ late' \subseteq work \ late
    PROVE  GoneDecided'
<1> SUFFICES ASSUME ~branch' \/ \E r \in Requests : req'[r].op = "gc"
             PROVE  /\ \A i \in Subtasks : decision'[i] # "none"
                    /\ \A c \in work' \ late' : c \in Brought' \/ PassedOver(c)'
  BY DEF GoneDecided
<1>1. (\A i \in Subtasks : decision[i] # "none") /\ \A c \in work \ late : c \in Brought \/ PassedOver(c)
  BY DEF GoneDecided
<1>2. ASSUME NEW c \in work' \ late'
      PROVE  c \in Brought' \/ PassedOver(c)'
  <2>1. c \in work \ late /\ c \in Made /\ c.of \in Subtasks
    BY <1>2, ChangeOf DEF Known, Made
  <2>2. CASE c \in Brought
    BY <2>2, BroughtGrows DEF Growing
  <2>3. CASE PassedOver(c)
    BY <2>1, <2>3, PassedStays
  <2> QED
    BY <1>1, <2>1, <2>2, <2>3
<1> QED
  BY <1>1, <1>2

\* What is accepted or rolled back by the request that moves a subtask.
LEMMA MovesOf ==
    ASSUME Shaped, NEW q \in Requests, NEW i \in Subtasks
    PROVE  /\ Moves(q, "accept", i) => req[q].picks \subseteq recorded[i]
           /\ Moves(q, "rollback", i) /\ i \notin disturbed
                => accepted[i] # 0 /\ req[q].commit = accepted[i] /\ decision[i] # "none"
<1>1. Moves(q, "accept", i) \/ Moves(q, "rollback", i) => Shape(q)
  BY DEF Moves, Shaped, InFlight
<1> QED
  BY <1>1 DEF Moves, Shape

\* A request moves what it moved before.
SameMoves(q, i) ==
    /\ Moves(q, "accept", i)' <=> Moves(q, "accept", i)
    /\ Moves(q, "rollback", i)' <=> Moves(q, "rollback", i)
    /\ Moves(q, "accept", i) => req'[q].picks = req[q].picks

\* Where a step moves no request and changes neither target nor decisions, they agree
\* as before.
LEMMA AgreedStays ==
    ASSUME Shaped, Agreed, CommitsOwn, Known, Growing, UNCHANGED <<onTarget, mergedIn, decision, accepted>>,
           \A i \in Subtasks : decision[i] # "none" => (work' \ late') \cap Of(i) \subseteq work \ late,
           \A q \in Requests, i \in Subtasks \ disturbed' : SameMoves(q, i)
    PROVE  Agreed'
<1> SUFFICES ASSUME NEW i \in Subtasks \ disturbed' PROVE AgreedOf(i)'
  BY DEF Agreed
<1>1. i \in Subtasks \ disturbed /\ AgreedOf(i)
  BY DEF Agreed, Growing
<1>2. Moving(i)' <=> Moving(i)
  BY DEF Moving, SameMoves
<1>3. Shared \subseteq Shared'
  BY SharedGrows
<1>4. accepted[i] # 0 => log'[accepted[i]] = log[accepted[i]]
  BY <1>1, DecidedMine DEF Growing, LogGrows
<1>5. decision[i] # "none" => Decided(i)' \subseteq Decided(i)
  <2>1. CASE accepted[i] # 0
    BY <1>4, <2>1 DEF Decided
  <2>2. CASE accepted[i] = 0
    BY <1>1, <2>2 DEF Decided
  <2> QED
    BY <2>1, <2>2
<1>6. Agrees(i) => Agrees(i)'
  BY <1>3, <1>5 DEF Agrees
<1>7. decision'[i] = "none" => mergedIn' \cap Of(i) \subseteq onTarget' \cup Shared'
  BY <1>1, <1>3 DEF AgreedOf
<1>8. ASSUME NEW r \in Requests
      PROVE  /\ Moves(r, "accept", i)' => req'[r].picks \subseteq onTarget' \cup Shared'
             /\ Moves(r, "rollback", i)'
                  => log'[accepted'[i]].adds \cap onTarget' \subseteq mergedIn' \cup Shared'
  <2>1. SameMoves(r, i)
    BY <1>8
  <2>2. Moves(r, "accept", i)' => req'[r].picks \subseteq onTarget' \cup Shared'
    BY <1>1, <1>3, <2>1 DEF AgreedOf, SameMoves
  <2>3. ASSUME Moves(r, "rollback", i)'
        PROVE  log'[accepted'[i]].adds \cap onTarget' \subseteq mergedIn' \cup Shared'
    <3>1. log[accepted[i]].adds \cap onTarget \subseteq mergedIn \cup Shared
      BY <1>1, <2>1, <2>3 DEF AgreedOf, SameMoves
    <3>2. accepted[i] # 0
      BY <1>1, <2>1, <2>3, MovesOf DEF SameMoves
    <3> QED
      BY <1>3, <1>4, <3>1, <3>2
  <2> QED
    BY <2>2, <2>3
<1> QED
  BY <1>1, <1>2, <1>6, <1>7, <1>8 DEF AgreedOf

\* Requests work on subtasks.
LEMMA SubsTyped ==
    ASSUME TypeOK, NEW r \in Requests
    PROVE  /\ req[r].subs \subseteq Subtasks /\ req[r].picks \subseteq Changes
           /\ req[r].commit \in Nat /\ req[r] \in Request
<1>1. req[r] \in Request
  BY Types
<1> QED
  BY <1>1 DEF Request

-----------------------------------------------------------------------------
(* Requests start, are refused, read. *)

LEMMA StartStep ==
    ASSUME ReviewInv, NEW r \in Requests, NEW op, NEW subs \in SUBSET Subtasks,
           NEW picks \in SUBSET Changes, NEW commit \in Nat,
           Starts(r, op, subs, picks, commit),
           \/ op = "accept" /\ \E i \in Subtasks : subs = {i} /\ picks = mergeOf[i] /\ picks # {}
           \/ op = "rollback" /\ \E i \in Subtasks : /\ subs = {i} /\ decision[i] # "none"
                                                     /\ accepted[i] # 0 /\ commit = accepted[i]
           \/ op = "deliver" /\ subs = Subtasks
           \/ op = "gc" /\ subs = {} /\ FullyAccepted
    PROVE  ReviewInv'
<1> DEFINE new == [op |-> op, subs |-> subs, picks |-> picks, at |-> "git", commit |-> commit]
           hit == UNION {Touched(subs, req[q].subs) : q \in {q \in Requests : InFlight(q)}}
<1>1. /\ req[r] = Free /\ req' = [req EXCEPT ![r] = new] /\ disturbed' = disturbed \cup hit
      /\ UNCHANGED <<runVars, gitVars, reviewVars, crashes>>
  BY DEF Starts
<1>2. TypeOK /\ Shaped /\ Apart /\ CommitsOwn /\ Known /\ Landed /\ GoneDecided /\ Agreed
  BY DEF ReviewInv
<1>3. /\ new \in Request /\ new.op = op /\ new.subs = subs /\ new.picks = picks
      /\ new.at = "git" /\ new.commit = commit
  BY DEF Request, Stages
<1>4. req[r].at = "free" /\ req[r].op = "none"
  BY <1>1 DEF Free
<1> HIDE DEF new
<1>5. req' \in [Requests -> Request] /\ req'[r] = new /\ \A q \in Requests : q # r => req'[q] = req[q]
  BY <1>1, <1>2, <1>3, Types
<1>6. hit \subseteq Subtasks
  <2>1. \A q \in Requests : req[q].subs \subseteq Subtasks
    BY <1>2, SubsTyped
  <2> QED
    BY <2>1 DEF Touched
<1>7. \A q \in Requests : InFlight(q) => Touched(subs, req[q].subs) \subseteq disturbed'
  BY <1>1
<1> HIDE DEF hit
<1> USE DEF runVars, gitVars, reviewVars
<1>8. Growing
  BY <1>1, <1>2, LogStays DEF Growing
<1>9. TypeOK'
  <2>1. disturbed' \subseteq Subtasks
    BY <1>1, <1>2, <1>6, Types
  <2>2. \A q \in Requests : req'[q].op = "accept" /\ req'[q].at = "record" => req'[q].commit \in DOMAIN log'
    BY <1>1, <1>2, <1>3, <1>5 DEF TypeOK
  <2> QED
    BY <1>1, <1>2, <1>5, <2>1, <2>2 DEF TypeOK
<1>10. Shaped'
  <2>1. ASSUME NEW q \in Requests, q # r, InFlight(q)'
        PROVE  Shape(q)'
    <3>1. Shape(q) /\ req'[q] = req[q]
      BY <1>2, <1>5, <2>1 DEF Shaped, InFlight
    <3> QED
      BY <1>1, <1>8, <3>1 DEF Shape, Growing
  <2>2. Shape(r)'
    BY <1>1, <1>2, <1>3, <1>5 DEF Shape, Known
  <2> QED
    BY <1>1, <1>2, <2>1, <2>2 DEF Shaped
<1>11. Apart'
  <2> SUFFICES ASSUME NEW p \in Requests, NEW q \in Requests, p # q, InFlight(p)', InFlight(q)'
               PROVE  Touched(req[p].subs, req[q].subs)' \subseteq disturbed'
    BY DEF Apart
  <2>1. CASE p # r /\ q # r
    BY <1>1, <1>2, <1>5, <1>8, <2>1 DEF Apart, InFlight, Touched, Growing
  <2>2. CASE p = r
    <3>1. InFlight(q) /\ req'[q] = req[q] /\ req'[p].subs = subs
      BY <1>3, <1>5, <2>2 DEF InFlight
    <3> QED
      BY <1>1, <1>7, <3>1 DEF Touched
  <2>3. CASE q = r
    <3>1. InFlight(p) /\ req'[p] = req[p] /\ req'[q].subs = subs
      BY <1>3, <1>5, <2>3 DEF InFlight
    <3>2. Touched(req[p].subs, subs) \subseteq Touched(subs, req[p].subs)
      BY DEF Touched
    <3> QED
      BY <1>1, <1>7, <3>1, <3>2 DEF Touched
  <2> QED
    BY <2>1, <2>2, <2>3
<1>12. CommitsOwn'
  <2>1. ASSUME NEW q \in Requests, q # r
        PROVE  CommitsOf(log', recorded', disturbed', req'[q])
    BY <1>1, <1>2, <1>5, <1>8, <2>1, CommitsIdle
  <2>2. CommitsOf(log', recorded', disturbed', req'[r])
    <3>1. op = "rollback" => IsOwn(log', recorded', disturbed', subs, commit)
      <4> SUFFICES ASSUME op = "rollback" PROVE IsOwn(log', recorded', disturbed', subs, commit)
        OBVIOUS
      <4>1. OwnCommit(subs, commit)
        BY <1>2 DEF CommitsOwn
      <4> QED
        BY <1>8, <4>1, OwnStays
    <3> QED
      BY <1>3, <1>5, <3>1 DEF CommitsOf
  <2>3. \A q \in Requests : CommitsOf(log', recorded', disturbed', req'[q])
    BY <2>1, <2>2
  <2> QED
    BY <1>1, <1>2, <1>8, <2>3, CommitsStay
<1>13. Known'
  BY <1>1, <1>2 DEF Known, Made
<1>14. Landed'
  BY <1>1, <1>2, <1>3, <1>5 DEF Landed, Brought, PassedOver
<1>15. GoneDecided'
  <2>1. CASE op = "gc"
    <3>1. \A i \in Subtasks : decision[i] = "accepted"
      BY <2>1 DEF FullyAccepted
    <3>2. \A c \in work \ late : c \in Brought \/ PassedOver(c)
      BY <1>2, <3>1, ChangeOf DEF Landed, Known, Made
    <3> QED
      BY <1>1, <3>1, <3>2 DEF GoneDecided, Brought, PassedOver
  <2>2. CASE op # "gc"
    <3>1. (\E q \in Requests : req'[q].op = "gc") => \E q \in Requests : req[q].op = "gc"
      BY <1>3, <1>5, <2>2
    <3> QED
      BY <1>1, <1>2, <1>8, <3>1, GoneStays
  <2> QED
    BY <2>1, <2>2
<1>16. Agreed'
  <2>1. \A q \in Requests, i \in Subtasks \ disturbed' : SameMoves(q, i)
    BY <1>3, <1>4, <1>5 DEF Moves, SameMoves
  <2> QED
    BY <1>1, <1>2, <1>8, <2>1, AgreedStays
<1> QED
  BY <1>9, <1>10, <1>11, <1>12, <1>13, <1>14, <1>15, <1>16 DEF ReviewInv

\* A request that gets further, or is over, and changes nothing else.
LEMMA MoveStep ==
    ASSUME ReviewInv, NEW r \in Requests, NEW x \in Request, InFlight(r),
           req' = [req EXCEPT ![r] = x],
           UNCHANGED <<runVars, log, onTarget, mergedIn, reviewVars, crashes, disturbed>>,
           UNCHANGED branch \/ (branch' = FALSE /\ req[r].op = "gc"),
           \/ x = Done
           \/ /\ x.subs \subseteq req[r].subs /\ Shape(r)'
              /\ \/ /\ x.op = "accept" /\ x.at = "record" /\ x.picks = req[r].picks
                    /\ IsOwn(log, recorded, disturbed, x.subs, x.commit) /\ IsPick(log, disturbed, x, x.commit)
                    /\ req[r].op = "accept" /\ req[r].at = "head"
                 \/ x.op = "deliver" /\ x.at = "record" /\ req[r].op = "deliver" /\ req[r].at = "reads",
           \A i \in Subtasks : /\ Moves(r, "accept", i)' <=> Moves(r, "accept", i)
                               /\ Moves(r, "rollback", i)' <=> Moves(r, "rollback", i)
    PROVE  ReviewInv'
<1> USE DEF runVars, gitVars, reviewVars
<1>1. TypeOK /\ Shaped /\ Apart /\ CommitsOwn /\ Known /\ Landed /\ GoneDecided /\ Agreed
  BY DEF ReviewInv
<1>2. req' \in [Requests -> Request] /\ req'[r] = x /\ \A q \in Requests : q # r => req'[q] = req[q]
  BY <1>1, Types
<1>3. Done.op = "none" /\ Done.at = "done" /\ Done.subs = {}
  BY DEF Done, Free
<1>4. Growing
  BY <1>1, LogStays DEF Growing
<1>5. TypeOK'
  <2>1. \A q \in Requests : req'[q].op = "accept" /\ req'[q].at = "record" => req'[q].commit \in DOMAIN log'
    BY <1>1, <1>2, <1>3 DEF TypeOK, IsOwn
  <2> QED
    BY <1>1, <1>2, <2>1 DEF TypeOK
<1>6. Shaped'
  <2>1. ASSUME NEW q \in Requests, q # r, InFlight(q)'
        PROVE  Shape(q)'
    BY <1>1, <1>2, <2>1 DEF Shaped, Shape, InFlight
  <2>2. InFlight(r)' => Shape(r)'
    BY <1>2, <1>3 DEF InFlight
  <2> QED
    BY <1>1, <2>1, <2>2 DEF Shaped
<1>7. Apart'
  <2>1. \A q \in Requests : InFlight(q)' => InFlight(q) /\ req'[q].subs \subseteq req[q].subs
    BY <1>2, <1>3 DEF InFlight
  <2> QED
    BY <1>1, <2>1, ApartStays
<1>8. CommitsOwn'
  <2>1. ASSUME NEW q \in Requests
        PROVE  CommitsOf(log', recorded', disturbed', req'[q])
    <3>1. CASE q # r
      BY <1>1, <1>2, <1>4, <3>1, CommitsIdle
    <3>2. CASE q = r
      BY <1>2, <1>3, <3>2 DEF CommitsOf
    <3> QED
      BY <3>1, <3>2
  <2> QED
    BY <1>1, <1>4, <2>1, CommitsStay
<1>9. Known'
  BY <1>1 DEF Known, Made
<1>10. Landed'
  <2>1. ASSUME NEW q \in Requests
        PROVE  /\ req'[q].op = "accept" /\ req'[q].at \in {"head", "record"} => req'[q].picks \subseteq Brought
               /\ req'[q].op = "deliver" /\ req'[q].at \in {"reads", "record"} => work \ late \subseteq mergedIn
    <3>1. CASE q # r
      BY <1>1, <1>2, <3>1 DEF Landed
    <3>2. CASE q = r
      BY <1>1, <1>2, <1>3, <3>2 DEF Landed
    <3> QED
      BY <3>1, <3>2
  <2> QED
    BY <1>1, <2>1 DEF Landed, Brought, PassedOver
<1>11. GoneDecided'
  <2>1. (\E q \in Requests : req'[q].op = "gc") => \E q \in Requests : req[q].op = "gc"
    BY <1>2, <1>3
  <2>2. ~branch' => ~branch \/ \E q \in Requests : req[q].op = "gc"
    OBVIOUS
  <2> QED
    BY <1>1, <1>4, <2>1, <2>2, GoneStays
<1>12. Agreed'
  <2>1. ASSUME NEW q \in Requests, NEW i \in Subtasks \ disturbed'
        PROVE  SameMoves(q, i)
    <3>1. CASE q # r
      BY <1>2, <3>1 DEF Moves, SameMoves
    <3>2. CASE q = r
      <4>1. Moves(r, "accept", i) => x.picks = req[r].picks
        BY <1>2, <1>3 DEF Moves
      <4> QED
        BY <1>2, <3>2, <4>1 DEF SameMoves
    <3> QED
      BY <3>1, <3>2
  <2> QED
    BY <1>1, <1>4, <2>1, AgreedStays
<1> QED
  BY <1>5, <1>6, <1>7, <1>8, <1>9, <1>10, <1>11, <1>12 DEF ReviewInv

\* Git refuses, HEAD is read, a delivery reads the reviews.
LEMMA WaitStep ==
    ASSUME ReviewInv, NEW r \in Requests, Refused(r) \/ ReadsHead(r) \/ DeliverReads(r)
    PROVE  ReviewInv'
<1>1. /\ TypeOK /\ Shaped /\ CommitsOwn
      /\ req \in [Requests -> Request] /\ req[r] \in Request /\ Len(log) \in Nat
      /\ req[r].subs \subseteq Subtasks
  BY Types, SubsTyped DEF ReviewInv
<1>2. CASE Refused(r)
  <2>1. req[r].at = "git" /\ req' = [req EXCEPT ![r] = Done] /\ InFlight(r)
    BY <1>2 DEF Refused, InFlight
  <2>2. Done \in Request /\ Done.at = "done"
    BY DEF Done, Free, Request, Stages
  <2>3. req'[r] = Done
    BY <1>1, <2>1
  <2>4. \A i : ~Moves(r, "accept", i) /\ ~Moves(r, "rollback", i)
    BY <2>1 DEF Moves
  <2>5. \A i : ~Moves(r, "accept", i)' /\ ~Moves(r, "rollback", i)'
    BY <2>2, <2>3 DEF Moves
  <2> QED
    BY <1>2, <2>1, <2>2, <2>4, <2>5, MoveStep DEF Refused, gitVars
<1>3. CASE ReadsHead(r)
  <2> DEFINE x == [req[r] EXCEPT !.at = "record", !.commit = Len(log)]
  <2>1. req[r].at = "head" /\ InFlight(r) /\ req' = [req EXCEPT ![r] = x]
    BY <1>1, <1>3 DEF ReadsHead, InFlight
  <2>2. /\ x \in Request /\ x.op = req[r].op /\ x.subs = req[r].subs /\ x.picks = req[r].picks
        /\ x.at = "record" /\ x.commit = Len(log)
    BY <1>1 DEF Request, Stages
  <2> HIDE DEF x
  <2>3. req'[r] = x
    BY <1>1, <2>1
  <2>4. req[r].op = "accept" /\ Shape(r)
    BY <1>1, <2>1 DEF Shaped, Shape
  <2>5. IsOwn(log, recorded, disturbed, x.subs, x.commit) /\ IsPick(log, disturbed, x, x.commit)
    <3>1. CommitsOf(log, recorded, disturbed, req[r])
      BY <1>1 DEF CommitsOwn
    <3> QED
      BY <2>1, <2>2, <2>4, <3>1 DEF CommitsOf, IsPick
  <2>6. Shape(r)'
    BY <1>3, <2>1, <2>2, <2>3, <2>4 DEF Shape, ReadsHead, runVars, reviewVars
  <2>7. \A i : /\ Moves(r, "accept", i)' <=> Moves(r, "accept", i)
               /\ Moves(r, "rollback", i)' <=> Moves(r, "rollback", i)
    BY <2>1, <2>2, <2>3 DEF Moves
  <2> QED
    BY <1>3, <2>1, <2>2, <2>4, <2>5, <2>6, <2>7, MoveStep DEF ReadsHead, gitVars
<1>4. CASE DeliverReads(r)
  <2> DEFINE S == {i \in Subtasks : decision[i] = "none"}
             x == [req[r] EXCEPT !.at = "record", !.subs = S]
  <2>1. req[r].at = "reads" /\ InFlight(r) /\ req' = [req EXCEPT ![r] = x]
    BY <1>1, <1>4 DEF DeliverReads, InFlight
  <2>2. /\ x \in Request /\ x.op = req[r].op /\ x.subs = S /\ x.at = "record"
    BY <1>1 DEF Request, Stages
  <2> HIDE DEF x
  <2>3. req'[r] = x
    BY <1>1, <2>1
  <2>4. req[r].op = "deliver" /\ req[r].subs = Subtasks
    BY <1>1, <2>1 DEF Shaped, Shape
  <2>5. Shape(r)'
    BY <1>4, <2>2, <2>3, <2>4 DEF Shape, DeliverReads, runVars, reviewVars
  <2>6. \A i : /\ Moves(r, "accept", i)' <=> Moves(r, "accept", i)
               /\ Moves(r, "rollback", i)' <=> Moves(r, "rollback", i)
    BY <2>2, <2>3, <2>4 DEF Moves
  <2> QED
    BY <1>4, <2>1, <2>2, <2>4, <2>5, <2>6, MoveStep DEF DeliverReads, gitVars
<1> QED
  BY <1>2, <1>3, <1>4

-----------------------------------------------------------------------------
(* Git. *)

\* Who commits while the HEAD of an accept is still to be read disturbs it; and a subtask
\* that is not disturbed is no other request's.
LEMMA Others ==
    ASSUME ReviewInv, NEW r \in Requests, NEW q \in Requests, r # q, InFlight(r), InFlight(q)
    PROVE  /\ req[r].subs \cap req[q].subs \subseteq disturbed
           /\ inCheckout /\ req[r].subs # {} /\ req[q].subs # {}
                => req[r].subs \cup req[q].subs \subseteq disturbed
BY DEF ReviewInv, Apart, Touched

\* A commit of a request brings what is of its subtasks, so that what other requests have on
\* record stays theirs.
LEMMA GitStep ==
    ASSUME ReviewInv, NEW r \in Requests, NEW x \in Request, NEW X \in SUBSET Made,
           req[r].at = "git", req' = [req EXCEPT ![r] = x],
           UNCHANGED <<runVars, reviewVars, crashes, disturbed, branch>>,
           LogGrows, onTarget' \cup mergedIn' \subseteq onTarget \cup mergedIn \cup X,
           log' = log \/ (Len(log') \notin DOMAIN log /\ Len(log') \in DOMAIN log'),
           x.op = req[r].op, x.op # "gc", x.subs = req[r].subs, Shape(r)', x.at \in {"head", "record", "reads"},
           \A c \in X : \E i \in Subtasks : i \in req[r].subs \cup disturbed /\ c \in recorded[i],
           \A k \in DOMAIN log' : k \in DOMAIN log \/ log'[k].adds \cup log'[k].removes \subseteq X,
           CommitsOf(log', recorded, disturbed, x)
    PROVE  TypeOK' /\ Shaped' /\ Apart' /\ CommitsOwn' /\ Known' /\ GoneDecided'
<1> USE DEF runVars, reviewVars
<1>1. TypeOK /\ Shaped /\ Apart /\ CommitsOwn /\ Known /\ GoneDecided
  BY DEF ReviewInv
<1>2. req' \in [Requests -> Request] /\ req'[r] = x /\ \A q \in Requests : q # r => req'[q] = req[q]
  BY <1>1, Types
<1>3. Growing
  BY DEF Growing
<1>4. TypeOK'
  <2>1. \A q \in Requests : req'[q].op = "accept" /\ req'[q].at = "record" => req'[q].commit \in DOMAIN log'
    BY <1>1, <1>2 DEF TypeOK, IsOwn, LogGrows, CommitsOf
  <2>2. accepted' \in [Subtasks -> 0..Len(log')]
    BY <1>1, Types DEF LogGrows
  <2>3. log' \in Seq([adds : SUBSET Changes, removes : SUBSET Changes])
    BY DEF LogGrows, Entry
  <2>4. onTarget' \subseteq Changes /\ mergedIn' \subseteq Changes
    BY <1>1, Types DEF Made
  <2>5. /\ {work', head', onTarget', mergedIn', late'} \subseteq SUBSET Changes
        /\ {mergeOf', recorded'} \subseteq [Subtasks -> SUBSET Changes]
    BY <1>1, <2>4, Types
  <2> QED
    BY <1>1, <1>2, <2>1, <2>2, <2>3, <2>5 DEF TypeOK
<1>5. Shaped'
  <2>1. ASSUME NEW q \in Requests, q # r, InFlight(q)'
        PROVE  Shape(q)'
    BY <1>1, <1>2, <2>1 DEF Shaped, Shape, InFlight
  <2> QED
    BY <1>1, <2>1 DEF Shaped
<1>6. Apart'
  <2>1. \A q \in Requests : InFlight(q)' => InFlight(q) /\ req'[q].subs \subseteq req[q].subs
    BY <1>2 DEF InFlight
  <2> QED
    BY <1>1, <2>1, ApartStays
<1>7. ASSUME NEW q \in Requests, q # r
      PROVE  CommitsOf(log', recorded', disturbed', req'[q])
  <2>1. req'[q] = req[q]
    BY <1>2, <1>7
  <2>2. CASE log' = log
    BY <1>1, <1>3, <2>1, <2>2, CommitsIdle
  <2>3. CASE Len(log') \notin DOMAIN log /\ Len(log') \in DOMAIN log'
    <3>1. CASE req[q].op = "accept" /\ req[q].at = "head"
      <4>1. InFlight(q) /\ InFlight(r)
        BY <3>1 DEF InFlight
      <4>2. inCheckout /\ \E i \in Subtasks : req[q].subs = {i}
        BY <1>1, <3>1, <4>1 DEF Shaped, Shape
      <4>3. req[r].subs # {}
        BY <1>1, <4>1, <4>2 DEF Shaped, Shape
      <4>4. req[r].subs \cup req[q].subs \subseteq disturbed
        BY <1>7, <4>1, <4>2, <4>3, Others
      <4>5. \A c \in log'[Len(log')].adds \cup log'[Len(log')].removes :
                \E i \in Subtasks : i \in disturbed /\ c \in recorded[i]
        BY <2>3, <4>4
      <4>6. req[q].subs \cap disturbed # {}
        BY <4>2, <4>4
      <4> QED
        BY <2>1, <2>3, <3>1, <4>5, <4>6 DEF IsOwn, IsPick, CommitsOf
    <3>2. CASE ~(req[q].op = "accept" /\ req[q].at = "head")
      <4>1. CommitsOf(log, recorded, disturbed, req[q])
        BY <1>1 DEF CommitsOwn
      <4>2. \A k : IsOwn(log, recorded, disturbed, req[q].subs, k)
                     => IsOwn(log', recorded', disturbed', req[q].subs, k)
        BY <1>3, OwnStays DEF OwnCommit
      <4>3. \A k \in DOMAIN log : IsPick(log, disturbed, req[q], k) => IsPick(log', disturbed', req[q], k)
        BY DEF IsPick, LogGrows
      <4> QED
        BY <2>1, <3>2, <4>1, <4>2, <4>3 DEF CommitsOf, IsOwn
    <3> QED
      BY <3>1, <3>2
  <2> QED
    BY <2>2, <2>3
<1>8. CommitsOwn'
  <2>1. \A q \in Requests : CommitsOf(log', recorded', disturbed', req'[q])
    BY <1>2, <1>7
  <2> QED
    BY <1>1, <1>3, <2>1, CommitsStay
<1>9. Known'
  <2>1. X \subseteq Made'
    BY DEF Made
  <2> QED
    BY <1>1, <1>3, <2>1, KnownStays
<1>10. GoneDecided'
  <2>1. (\E q \in Requests : req'[q].op = "gc") => \E q \in Requests : req[q].op = "gc"
    BY <1>2
  <2> QED
    BY <1>1, <1>3, <2>1, GoneStays
<1> QED
  BY <1>4, <1>5, <1>6, <1>8, <1>9, <1>10

\* What a request did to changes of others leaves target and decisions of a subtask agreed.
LEMMA AgreedGit ==
    ASSUME ReviewInv, NEW j \in Subtasks \ disturbed, Growing, Known',
           UNCHANGED <<decision, accepted, recorded, work, late, disturbed>>, mergedIn \subseteq mergedIn',
           \A c \in Mine(j) : /\ c \in onTarget => c \in onTarget'
                              /\ c \in onTarget' => c \in onTarget \cup mergedIn'
                              /\ c \in mergedIn' => c \in mergedIn \cup onTarget',
           \A q \in Requests : SameMoves(q, j)
    PROVE  AgreedOf(j)'
<1>1. Shaped /\ CommitsOwn /\ Known /\ AgreedOf(j)
  BY DEF ReviewInv, Agreed
<1>2. Shared' = Shared /\ Made' = Made
  BY DEF Shared, Made
<1>3. /\ Decided(j) \subseteq recorded[j] /\ Of(j) \cap Made \subseteq recorded[j]
      /\ accepted[j] # 0 => log[accepted[j]].adds \subseteq recorded[j] /\ log'[accepted[j]] = log[accepted[j]]
  BY <1>1, DecidedMine DEF Growing, LogGrows
<1>4. Decided(j)' = Decided(j)
  BY <1>3 DEF Decided
<1>5. onTarget' \cup mergedIn' \subseteq Made
  BY <1>2 DEF Known
<1>6. \A c \in recorded[j] : c \in Mine(j) \/ c \in Shared
  BY DEF Mine
<1>7. Agrees(j) => Agrees(j)'
  <2> SUFFICES ASSUME Agrees(j) PROVE Agrees(j)'
    OBVIOUS
  <2>1. decision'[j] = "accepted" => Decided(j)' \subseteq onTarget' \cup Shared'
    BY <1>2, <1>3, <1>4, <1>6 DEF Agrees
  <2>2. accepted'[j] = 0 => onTarget' \cap Of(j) \subseteq mergedIn' \cup Shared'
    BY <1>2, <1>3, <1>5, <1>6 DEF Agrees
  <2>3. decision'[j] = "rolled_back" => Decided(j)' \cap onTarget' \subseteq mergedIn' \cup Shared'
    BY <1>2, <1>3, <1>4, <1>6 DEF Agrees
  <2> QED
    BY <2>1, <2>2, <2>3 DEF Agrees
<1>8. Moving(j)' <=> Moving(j)
  BY DEF Moving, SameMoves
<1>9. decision'[j] = "none" => mergedIn' \cap Of(j) \subseteq onTarget' \cup Shared'
  BY <1>1, <1>2, <1>3, <1>5, <1>6 DEF AgreedOf
<1>10. ASSUME NEW q \in Requests
       PROVE  /\ Moves(q, "accept", j)' => req'[q].picks \subseteq onTarget' \cup Shared'
              /\ Moves(q, "rollback", j)'
                   => log'[accepted'[j]].adds \cap onTarget' \subseteq mergedIn' \cup Shared'
  <2>1. SameMoves(q, j)
    BY <1>10
  <2>2. Moves(q, "accept", j)' => req'[q].picks \subseteq onTarget' \cup Shared'
    <3>1. Moves(q, "accept", j) => /\ req[q].picks \subseteq recorded[j]
                                   /\ req[q].picks \subseteq onTarget \cup Shared
      BY <1>1, MovesOf DEF AgreedOf
    <3> QED
      BY <1>2, <1>6, <2>1, <3>1 DEF SameMoves
  <2>3. Moves(q, "rollback", j)' => log'[accepted'[j]].adds \cap onTarget' \subseteq mergedIn' \cup Shared'
    <3>1. Moves(q, "rollback", j) => /\ accepted[j] # 0
                                     /\ log[accepted[j]].adds \cap onTarget \subseteq mergedIn \cup Shared
      BY <1>1, MovesOf DEF AgreedOf
    <3> QED
      BY <1>2, <1>3, <1>6, <2>1, <3>1 DEF SameMoves
  <2> QED
    BY <2>2, <2>3
<1> QED
  BY <1>7, <1>8, <1>9, <1>10, <1>1 DEF AgreedOf

\* A pick brings the merge commit of one subtask to the target.
LEMMA PickStep ==
    ASSUME ReviewInv, NEW r \in Requests, AcceptPicks(r)
    PROVE  ReviewInv'
<1> DEFINE P == req[r].picks
<1>1. /\ TypeOK /\ Shaped /\ CommitsOwn /\ Landed /\ Agreed /\ Known
      /\ req \in [Requests -> Request] /\ req[r] \in Request /\ disturbed \subseteq Subtasks
      /\ P \subseteq Changes
  BY Types, SubsTyped DEF ReviewInv
<1>2. /\ req[r].op = "accept" /\ req[r].at = "git" /\ InFlight(r)
      /\ UNCHANGED <<runVars, reviewVars, crashes, disturbed, branch, mergedIn>>
      /\ Commit(P, {})
  BY DEF AcceptPicks, InFlight, CherryPick
<1>3. PICK i \in Subtasks : req[r].subs = {i} /\ P \subseteq recorded[i]
  BY <1>1, <1>2 DEF Shaped, Shape
<1>4. P \subseteq Made
  BY <1>1, <1>3 DEF Known
<1>5. /\ LogGrows /\ Len(log') = Len(log) + 1 /\ Len(log') \in DOMAIN log' /\ Len(log') \notin DOMAIN log
      /\ log'[Len(log')].adds = P /\ log'[Len(log')].removes = {}
      /\ \A k \in DOMAIN log' : k \in DOMAIN log \/ k = Len(log')
      /\ onTarget' = onTarget \cup P
  <2>1. {} \in SUBSET Changes /\ P \in SUBSET Changes
    BY <1>1
  <2>2. (onTarget \ {}) \cup P = onTarget \cup P
    OBVIOUS
  <2> HIDE DEF P
  <2> QED
    BY <1>1, <1>2, <2>1, <2>2, CommitFacts
<1> DEFINE x == [req[r] EXCEPT !.at = IF inCheckout THEN "head" ELSE "record",
                               !.commit = IF inCheckout THEN 0 ELSE Len(log')]
<1>6. req' = [req EXCEPT ![r] = x]
  BY <1>1 DEF AcceptPicks
<1>7. /\ x \in Request /\ x.op = "accept" /\ x.subs = {i} /\ x.picks = P /\ x.at \in {"head", "record"}
      /\ x.at = "head" => inCheckout
      /\ x.at = "record" => x.commit = Len(log')
  <2>1. Len(log') \in Nat
    BY <1>5 DEF LogGrows
  <2> QED
    BY <1>1, <1>2, <1>3, <2>1 DEF Request, Stages
<1> HIDE DEF x
<1>8. req'[r] = x /\ \A q \in Requests : q # r => req'[q] = req[q]
  BY <1>1, <1>6
<1>9. IsOwn(log', recorded, disturbed, {i}, Len(log'))
  BY <1>3, <1>5 DEF IsOwn
<1>10. Shape(r)'
  <2>1. P # {}
    BY <1>1, <1>2 DEF Shaped, Shape
  <2>2. inCheckout' = inCheckout /\ recorded' = recorded
    BY <1>2 DEF runVars
  <2> QED
    BY <1>3, <1>7, <1>8, <2>1, <2>2 DEF Shape
<1>11. TypeOK' /\ Shaped' /\ Apart' /\ CommitsOwn' /\ Known' /\ GoneDecided'
  <2>1. \A k \in DOMAIN log' : k \in DOMAIN log \/ log'[k].adds \cup log'[k].removes \subseteq P
    BY <1>5
  <2>2. onTarget' \cup mergedIn' \subseteq onTarget \cup mergedIn \cup P
    BY <1>2, <1>5
  <2>3. \A c \in P : \E s \in Subtasks : s \in req[r].subs \cup disturbed /\ c \in recorded[s]
    BY <1>3
  <2>4. /\ UNCHANGED <<runVars, reviewVars, crashes, disturbed, branch>>
        /\ x.op = req[r].op /\ x.op # "gc" /\ x.subs = req[r].subs /\ x.at \in {"head", "record", "reads"}
    BY <1>2, <1>3, <1>7
  <2>5. CommitsOf(log', recorded, disturbed, x)
    BY <1>5, <1>7, <1>9 DEF CommitsOf, IsPick
  <2>6. P \in SUBSET Made
    BY <1>4
  <2>7. LogGrows /\ Len(log') \notin DOMAIN log /\ Len(log') \in DOMAIN log'
    BY <1>5
  <2>8. req[r].at = "git" /\ x \in Request
    BY <1>2, <1>7
  <2> HIDE DEF P
  <2> QED
    BY <1>6, <1>10, <2>1, <2>2, <2>3, <2>4, <2>5, <2>6, <2>7, <2>8, GitStep
<1>12. Growing
  BY <1>2, <1>5 DEF Growing, runVars
<1>13. Landed'
  <2>1. Brought \subseteq Brought' /\ P \subseteq Brought'
    BY <1>5, BroughtGrows
  <2>2. ASSUME NEW q \in Requests
        PROVE  /\ req'[q].op = "accept" /\ req'[q].at \in {"head", "record"} => req'[q].picks \subseteq Brought'
               /\ req'[q].op = "deliver" /\ req'[q].at \in {"reads", "record"} => work \ late \subseteq mergedIn
    BY <1>1, <1>7, <1>8, <2>1 DEF Landed
  <2> QED
    BY <1>1, <1>2, <2>1, <2>2 DEF Landed, PassedOver, runVars, reviewVars
<1>14. Agreed'
  <2> SUFFICES ASSUME NEW j \in Subtasks \ disturbed
               PROVE  AgreedOf(j)'
    BY <1>2 DEF Agreed
  <2>1. CASE j = i
    <3>1. Moves(r, "accept", j)'
      BY <1>7, <1>8, <2>1 DEF Moves
    <3>2. ASSUME NEW q \in Requests, q # r
          PROVE  ~Moves(q, "accept", j)' /\ ~Moves(q, "rollback", j)'
      <4> SUFFICES ASSUME Moves(q, "accept", j)' \/ Moves(q, "rollback", j)' PROVE FALSE
        OBVIOUS
      <4>1. req'[q] = req[q]
        BY <1>8, <3>2
      <4>2. InFlight(q) /\ j \in req[q].subs \cap req[r].subs
        BY <1>3, <2>1, <4>1 DEF Moves, InFlight
      <4> QED
        BY <1>2, <3>2, <4>2, Others
    <3>3. ~Moves(r, "rollback", j)'
      BY <1>7, <1>8 DEF Moves
    <3>4. req'[r].picks \subseteq onTarget'
      BY <1>5, <1>7, <1>8
    <3>5. decision'[j] = "none" => mergedIn' \cap Of(j) \subseteq onTarget' \cup Shared'
      BY <1>1, <1>2, <1>5 DEF Agreed, AgreedOf, Shared, runVars, reviewVars
    <3> QED
      BY <3>1, <3>2, <3>3, <3>4, <3>5 DEF AgreedOf, Moving
  <2>2. CASE j # i
    <3>1. \A q \in Requests : SameMoves(q, j)
      BY <1>2, <1>3, <1>7, <1>8, <2>2 DEF Moves, SameMoves
    <3>2. \A c \in Mine(j) : c \notin P
      BY <1>1, <1>3, <2>2, MineApart
    <3>3. \A c \in Mine(j) : c \in onTarget' <=> c \in onTarget
      BY <1>5, <3>2
    <3>4. UNCHANGED <<decision, accepted, recorded, work, late, disturbed>> /\ mergedIn' = mergedIn
      BY <1>2 DEF runVars, reviewVars
    <3> QED
      BY <1>11, <1>12, <3>1, <3>3, <3>4, AgreedGit
  <2> QED
    BY <2>1, <2>2
<1> QED
  BY <1>11, <1>13, <1>14 DEF ReviewInv

\* A revert takes the pick of one subtask off the target, or what disturbed ones came with it.
LEMMA RevertStep ==
    ASSUME ReviewInv, NEW r \in Requests, RollbackReverts(r)
    PROVE  ReviewInv'
<1> DEFINE A == log[req[r].commit].adds
           R == log[req[r].commit].removes
           x == [req[r] EXCEPT !.at = "record"]
<1>1. /\ TypeOK /\ Shaped /\ Landed /\ Agreed /\ Known /\ CommitsOwn
      /\ req \in [Requests -> Request] /\ req[r] \in Request /\ disturbed \subseteq Subtasks
  BY Types, SubsTyped DEF ReviewInv
<1>2. /\ req[r].op = "rollback" /\ req[r].at = "git" /\ InFlight(r)
      /\ UNCHANGED <<runVars, reviewVars, crashes, disturbed, branch, mergedIn>>
      /\ Commit(R, A) /\ req' = [req EXCEPT ![r] = x]
  BY <1>1 DEF RollbackReverts, InFlight, Revert
<1>3. PICK i \in Subtasks : /\ req[r].subs = {i} /\ decision[i] # "none"
                            /\ i \notin disturbed => accepted[i] # 0 /\ req[r].commit = accepted[i]
  BY <1>1, <1>2 DEF Shaped, Shape
<1>4. IsOwn(log, recorded, disturbed, {i}, req[r].commit)
  BY <1>1, <1>2, <1>3 DEF CommitsOwn, CommitsOf
<1>5. A \in SUBSET Changes /\ R \in SUBSET Changes /\ req[r].commit \in DOMAIN log /\ A \cup R \in SUBSET Made
  BY <1>1, <1>4, Types DEF IsOwn, Known
<1>6. /\ \A c \in A \cup R : \E s \in Subtasks : s \in req[r].subs \cup disturbed /\ c \in recorded[s]
      /\ i \notin disturbed => R = {}
  BY <1>3, <1>4 DEF IsOwn
<1>7. i \notin disturbed => A = log[accepted[i]].adds /\ accepted[i] \in DOMAIN log
  BY <1>3, <1>5
<1> HIDE DEF A, R
<1>8. /\ LogGrows /\ Len(log') = Len(log) + 1 /\ Len(log') \in DOMAIN log' /\ Len(log') \notin DOMAIN log
      /\ log'[Len(log')].adds = R /\ log'[Len(log')].removes = A
      /\ \A k \in DOMAIN log' : k \in DOMAIN log \/ k = Len(log')
      /\ onTarget' = (onTarget \ A) \cup R
  BY <1>1, <1>2, <1>5, CommitFacts
<1>9. x \in Request /\ x.op = "rollback" /\ x.subs = {i} /\ x.at = "record" /\ x.commit = req[r].commit
  BY <1>1, <1>2, <1>3 DEF Request, Stages
<1> HIDE DEF x
<1>10. req'[r] = x /\ \A q \in Requests : q # r => req'[q] = req[q]
  BY <1>1, <1>2
<1>11. Shape(r)'
  BY <1>2, <1>3, <1>9, <1>10 DEF Shape, reviewVars
<1>12. TypeOK' /\ Shaped' /\ Apart' /\ CommitsOwn' /\ Known' /\ GoneDecided'
  <2>1. \A k \in DOMAIN log' : k \in DOMAIN log \/ log'[k].adds \cup log'[k].removes \subseteq A \cup R
    BY <1>8
  <2>2. onTarget' \cup mergedIn' \subseteq onTarget \cup mergedIn \cup (A \cup R)
    BY <1>2, <1>8
  <2>3. /\ UNCHANGED <<runVars, reviewVars, crashes, disturbed, branch>>
        /\ x.op = req[r].op /\ x.op # "gc" /\ x.subs = req[r].subs /\ x.at \in {"head", "record", "reads"}
    BY <1>2, <1>3, <1>9
  <2>4. CommitsOf(log', recorded, disturbed, x)
    BY <1>9 DEF CommitsOf
  <2> QED
    BY <1>2, <1>5, <1>6, <1>8, <1>9, <1>11, <2>1, <2>2, <2>3, <2>4, GitStep
<1>13. Growing
  BY <1>2, <1>8 DEF Growing, runVars
<1>14. Landed'
  <2>1. Brought \subseteq Brought'
    BY <1>8, BroughtGrows
  <2>2. ASSUME NEW q \in Requests
        PROVE  /\ req'[q].op = "accept" /\ req'[q].at \in {"head", "record"} => req'[q].picks \subseteq Brought'
               /\ req'[q].op = "deliver" /\ req'[q].at \in {"reads", "record"} => work \ late \subseteq mergedIn
    BY <1>1, <1>9, <1>10, <2>1 DEF Landed
  <2> QED
    BY <1>1, <1>2, <2>1, <2>2 DEF Landed, PassedOver, runVars, reviewVars
<1>15. Agreed'
  <2> SUFFICES ASSUME NEW j \in Subtasks \ disturbed
               PROVE  AgreedOf(j)'
    BY <1>2 DEF Agreed
  <2>1. CASE j = i
    <3>1. Moves(r, "rollback", j)'
      BY <1>9, <1>10, <2>1 DEF Moves
    <3>2. \A q \in Requests : ~Moves(q, "accept", j)'
      <4> SUFFICES ASSUME NEW q \in Requests, Moves(q, "accept", j)' PROVE FALSE
        OBVIOUS
      <4>1. q # r /\ req'[q] = req[q]
        BY <1>9, <1>10 DEF Moves
      <4>2. InFlight(q) /\ j \in req[q].subs \cap req[r].subs
        BY <1>3, <2>1, <4>1 DEF Moves, InFlight
      <4> QED
        BY <1>2, <4>1, <4>2, Others
    <3>3. log'[accepted'[j]].adds \cap onTarget' = {}
      <4>1. log'[accepted'[j]].adds = A
        BY <1>2, <1>7, <1>8, <2>1 DEF LogGrows, reviewVars
      <4> QED
        BY <1>6, <1>8, <2>1, <4>1
    <3>4. decision'[j] # "none"
      BY <1>2, <1>3, <2>1 DEF reviewVars
    <3> QED
      BY <3>1, <3>2, <3>3, <3>4 DEF AgreedOf, Moving
  <2>2. CASE j # i
    <3>1. \A q \in Requests : SameMoves(q, j)
      BY <1>2, <1>3, <1>9, <1>10, <2>2 DEF Moves, SameMoves
    <3>2. \A c \in Mine(j) : c \notin A \cup R
      <4> SUFFICES ASSUME NEW c \in A \cup R PROVE c \notin Mine(j)
        OBVIOUS
      <4>1. PICK s \in Subtasks : s \in {i} \cup disturbed /\ c \in recorded[s]
        BY <1>3, <1>6
      <4> QED
        BY <1>5, <2>2, <4>1, MineApart
    <3>3. \A c \in Mine(j) : c \in onTarget' <=> c \in onTarget
      BY <1>8, <3>2
    <3>4. UNCHANGED <<decision, accepted, recorded, work, late, disturbed>> /\ mergedIn' = mergedIn
      BY <1>2 DEF runVars, reviewVars
    <3> QED
      BY <1>12, <1>13, <3>1, <3>3, <3>4, AgreedGit
  <2> QED
    BY <2>1, <2>2
<1> QED
  BY <1>12, <1>14, <1>15 DEF ReviewInv

\* A merge brings all the work there is.
LEMMA MergeFacts ==
    ASSUME ReviewInv, MergeBranch
    PROVE  /\ LogGrows
           /\ log' = log \/ (Len(log') \notin DOMAIN log /\ Len(log') \in DOMAIN log')
           /\ \A k \in DOMAIN log' : k \in DOMAIN log \/ log'[k].adds \cup log'[k].removes \subseteq work
           /\ onTarget \subseteq onTarget' /\ onTarget' \subseteq onTarget \cup work
           /\ mergedIn' = mergedIn \cup work /\ mergedIn' \subseteq mergedIn \cup onTarget'
           /\ mergedIn' \subseteq Brought'
<1>1. TypeOK /\ work \subseteq Changes /\ mergedIn \subseteq Brought
  BY Types DEF ReviewInv, Landed
<1>2. mergedIn' = mergedIn \cup work
  BY DEF MergeBranch
<1>3. CASE work \subseteq mergedIn
  <2>1. UNCHANGED <<log, onTarget>>
    BY <1>3 DEF MergeBranch
  <2> QED
    BY <1>1, <1>2, <1>3, <2>1, LogStays DEF Brought
<1>4. CASE ~(work \subseteq mergedIn)
  <2> DEFINE W == work \ mergedIn
  <2>1. Commit(W, {}) /\ W \in SUBSET Changes /\ {} \in SUBSET Changes /\ W \subseteq work
    BY <1>1, <1>4 DEF MergeBranch
  <2>2. mergedIn' = mergedIn \cup W
    BY <1>2
  <2> HIDE DEF W
  <2>3. /\ LogGrows /\ Len(log') \in DOMAIN log' /\ Len(log') \notin DOMAIN log
        /\ log'[Len(log')].adds = W /\ log'[Len(log')].removes = {}
        /\ \A k \in DOMAIN log' : k \in DOMAIN log \/ k = Len(log')
        /\ onTarget' = (onTarget \ {}) \cup W
    BY <1>1, <2>1, CommitFacts
  <2>4. W \subseteq Brought' /\ Brought \subseteq Brought'
    BY <2>3, BroughtGrows
  <2> QED
    BY <1>1, <1>2, <2>1, <2>2, <2>3, <2>4
<1> QED
  BY <1>3, <1>4

LEMMA MergeStep ==
    ASSUME ReviewInv, NEW r \in Requests, DeliverMerges(r)
    PROVE  ReviewInv'
<1> DEFINE x == [req[r] EXCEPT !.at = "reads"]
<1>1. /\ TypeOK /\ Shaped /\ Landed /\ Agreed /\ Known
      /\ req \in [Requests -> Request] /\ req[r] \in Request /\ work \subseteq Changes
  BY Types, SubsTyped DEF ReviewInv
<1>2. /\ req[r].op = "deliver" /\ req[r].at = "git" /\ InFlight(r) /\ MergeBranch
      /\ UNCHANGED <<runVars, reviewVars, crashes, disturbed, branch>>
      /\ req' = [req EXCEPT ![r] = x]
  BY <1>1 DEF DeliverMerges, InFlight, MergeBranch
<1>3. req[r].subs = Subtasks
  BY <1>1, <1>2 DEF Shaped, Shape
<1>4. x \in Request /\ x.op = "deliver" /\ x.subs = Subtasks /\ x.at = "reads"
  BY <1>1, <1>2, <1>3 DEF Request, Stages
<1> HIDE DEF x
<1>5. req'[r] = x /\ \A q \in Requests : q # r => req'[q] = req[q]
  BY <1>1, <1>2
<1>6. /\ LogGrows
      /\ log' = log \/ (Len(log') \notin DOMAIN log /\ Len(log') \in DOMAIN log')
      /\ \A k \in DOMAIN log' : k \in DOMAIN log \/ log'[k].adds \cup log'[k].removes \subseteq work
      /\ onTarget \subseteq onTarget' /\ onTarget' \subseteq onTarget \cup work
      /\ mergedIn' = mergedIn \cup work /\ mergedIn' \subseteq mergedIn \cup onTarget'
      /\ mergedIn' \subseteq Brought'
  BY <1>2, MergeFacts
<1>7. Shape(r)'
  BY <1>4, <1>5 DEF Shape
<1>8. TypeOK' /\ Shaped' /\ Apart' /\ CommitsOwn' /\ Known' /\ GoneDecided'
  <2>1. onTarget' \cup mergedIn' \subseteq onTarget \cup mergedIn \cup work
    BY <1>6
  <2>2. /\ work \in SUBSET Made
        /\ \A c \in work : \E i \in Subtasks : i \in req[r].subs \cup disturbed /\ c \in recorded[i]
    BY <1>1, <1>3, ChangeOf DEF Known, Made
  <2>3. /\ x.op = req[r].op /\ x.op # "gc" /\ x.subs = req[r].subs /\ x.at \in {"head", "record", "reads"}
        /\ CommitsOf(log', recorded, disturbed, x)
    BY <1>2, <1>3, <1>4 DEF CommitsOf
  <2> QED
    BY <1>2, <1>4, <1>6, <1>7, <2>1, <2>2, <2>3, GitStep
<1>9. Growing
  BY <1>2, <1>6 DEF Growing, runVars
<1>10. Landed'
  <2>1. Brought \subseteq Brought'
    BY <1>6, BroughtGrows
  <2>2. ASSUME NEW q \in Requests
        PROVE  /\ req'[q].op = "accept" /\ req'[q].at \in {"head", "record"} => req'[q].picks \subseteq Brought'
               /\ req'[q].op = "deliver" /\ req'[q].at \in {"reads", "record"} => work \ late \subseteq mergedIn'
    BY <1>1, <1>4, <1>5, <1>6, <2>1 DEF Landed
  <2> QED
    BY <1>1, <1>2, <1>6, <2>1, <2>2 DEF Landed, PassedOver, runVars, reviewVars
<1>11. Agreed'
  <2> SUFFICES ASSUME NEW j \in Subtasks \ disturbed
               PROVE  AgreedOf(j)'
    BY <1>2 DEF Agreed
  <2>1. \A q \in Requests : SameMoves(q, j)
    BY <1>2, <1>4, <1>5 DEF Moves, SameMoves
  <2>2. \A c \in Mine(j) : /\ c \in onTarget => c \in onTarget'
                           /\ c \in onTarget' => c \in onTarget \cup mergedIn'
                           /\ c \in mergedIn' => c \in mergedIn \cup onTarget'
    BY <1>6
  <2>3. UNCHANGED <<decision, accepted, recorded, work, late, disturbed>> /\ mergedIn \subseteq mergedIn'
    BY <1>2, <1>6 DEF runVars, reviewVars
  <2> QED
    BY <1>8, <1>9, <2>1, <2>2, <2>3, AgreedGit
<1> QED
  BY <1>8, <1>10, <1>11 DEF ReviewInv

\* The branch is collected.
LEMMA CollectStep ==
    ASSUME ReviewInv, NEW r \in Requests, GcRemoves(r)
    PROVE  ReviewInv'
<1>1. req \in [Requests -> Request]
  BY Types DEF ReviewInv
<1>2. req[r].op = "gc" /\ req[r].at = "git" /\ req' = [req EXCEPT ![r] = Done] /\ InFlight(r)
  BY DEF GcRemoves, InFlight
<1>3. Done \in Request /\ Done.at = "done"
  BY DEF Done, Free, Request, Stages
<1>4. req'[r] = Done
  BY <1>1, <1>2
<1>5. \A i : /\ Moves(r, "accept", i)' <=> Moves(r, "accept", i)
             /\ Moves(r, "rollback", i)' <=> Moves(r, "rollback", i)
  BY <1>2, <1>3, <1>4 DEF Moves
<1> QED
  BY <1>2, <1>3, <1>5, MoveStep DEF GcRemoves
-----------------------------------------------------------------------------
(* The record. *)

\* A decision is committed for a subtask whose request is over with it.
LEMMA RecordStep ==
    ASSUME ReviewInv, NEW r \in Requests, NEW x \in Request, InFlight(r), req' = [req EXCEPT ![r] = x],
           UNCHANGED <<runVars, gitVars, crashes, disturbed>>,
           NEW i \in Subtasks, i \in req[r].subs,
           NEW d \in {"accepted", "rolled_back"}, decision' = [decision EXCEPT ![i] = d],
           NEW k \in 0..Len(log), accepted' = [accepted EXCEPT ![i] = k],
           k # 0 => OwnCommit({i}, k), accepted[i] # 0 => k # 0,
           \/ x = Done
           \/ /\ x.op = "deliver" /\ x.at = "record" /\ x.subs = req[r].subs \ {i}
              /\ req[r].op = "deliver" /\ req[r].at = "record",
           d = "accepted" =>
               \A c \in (work \ late) \cap Of(i) : c \in Brought \/ (k # 0 /\ recorded[i] # {c}),
           i \notin disturbed => Agrees(i)',
           \A j \in Subtasks \ {i} : ~Moves(r, "accept", j) /\ ~Moves(r, "rollback", j)
    PROVE  ReviewInv'
<1> USE DEF runVars, gitVars
<1>1. TypeOK /\ Shaped /\ Apart /\ CommitsOwn /\ Known /\ Landed /\ GoneDecided /\ Agreed
  BY DEF ReviewInv
<1>2. req' \in [Requests -> Request] /\ req'[r] = x /\ \A q \in Requests : q # r => req'[q] = req[q]
  BY <1>1, Types
<1>3. Done.op = "none" /\ Done.at = "done" /\ Done.subs = {}
  BY DEF Done, Free
<1>4. Growing
  BY <1>1, LogStays DEF Growing
<1>5. /\ decision' \in [Subtasks -> Decisions] /\ decision'[i] = d /\ d # "none"
      /\ \A j \in Subtasks : j # i => decision'[j] = decision[j]
      /\ accepted' \in [Subtasks -> 0..Len(log)] /\ accepted'[i] = k
      /\ \A j \in Subtasks : j # i => accepted'[j] = accepted[j]
  BY <1>1, Types DEF Decisions
<1>6. x.subs \subseteq req[r].subs /\ (x.op = "none" \/ x.op = "deliver")
  BY <1>3
<1>7. TypeOK'
  <2>1. \A q \in Requests : req'[q].op = "accept" /\ req'[q].at = "record" => req'[q].commit \in DOMAIN log'
    BY <1>1, <1>2, <1>6 DEF TypeOK
  <2> QED
    BY <1>1, <1>2, <1>5, <2>1 DEF TypeOK
<1>8. Shaped'
  <2>1. ASSUME NEW q \in Requests, q # r, InFlight(q)'
        PROVE  Shape(q)'
    <3>1. req'[q] = req[q] /\ InFlight(q) /\ Shape(q)
      BY <1>1, <1>2, <2>1 DEF InFlight, Shaped
    <3>2. i \in req[q].subs => i \in disturbed
      BY <2>1, <3>1, Others
    <3>3. req[q].subs \subseteq Subtasks
      BY <1>1, SubsTyped
    <3> QED
      BY <1>5, <3>1, <3>2, <3>3 DEF Shape
  <2>2. ASSUME InFlight(r)' PROVE Shape(r)'
    <3>1. /\ x.op = "deliver" /\ x.at = "record" /\ x.subs = req[r].subs \ {i}
          /\ req[r].op = "deliver" /\ req[r].at = "record"
      BY <1>2, <1>3, <2>2 DEF InFlight
    <3>2. Shape(r) /\ req[r].subs \subseteq Subtasks
      BY <1>1, SubsTyped DEF Shaped
    <3> QED
      BY <1>2, <1>5, <3>1, <3>2 DEF Shape
  <2> QED
    BY <1>1, <2>1, <2>2 DEF Shaped
<1>9. Apart'
  <2>1. \A q \in Requests : InFlight(q)' => InFlight(q) /\ req'[q].subs \subseteq req[q].subs
    BY <1>2, <1>6 DEF InFlight
  <2> QED
    BY <1>1, <2>1, ApartStays
<1>10. CommitsOwn'
  <2>1. \A j \in Subtasks : accepted'[j] # 0 => decision'[j] # "none" /\ OwnCommit({j}, accepted'[j])
    BY <1>1, <1>5 DEF CommitsOwn
  <2>2. ASSUME NEW q \in Requests
        PROVE  CommitsOf(log', recorded', disturbed', req'[q])
    <3>1. CASE q # r
      BY <1>1, <1>2, <1>4, <3>1, CommitsIdle
    <3>2. CASE q = r
      BY <1>2, <1>6, <3>2 DEF CommitsOf
    <3> QED
      BY <3>1, <3>2
  <2> QED
    BY <2>1, <2>2 DEF CommitsOwn, OwnCommit
<1>11. Known'
  BY <1>1 DEF Known, Made
<1>12. Landed'
  <2>1. ASSUME NEW q \in Requests
        PROVE  /\ req'[q].op = "accept" /\ req'[q].at \in {"head", "record"} => req'[q].picks \subseteq Brought
               /\ req'[q].op = "deliver" /\ req'[q].at \in {"reads", "record"} => work \ late \subseteq mergedIn
    <3>1. CASE q # r
      BY <1>1, <1>2, <3>1 DEF Landed
    <3>2. CASE q = r
      BY <1>1, <1>2, <1>3, <3>2 DEF Landed
    <3> QED
      BY <3>1, <3>2
  <2>2. ASSUME NEW c \in work \ late, decision'[c.of] = "accepted"
        PROVE  c \in Brought \/ PassedOver(c)'
    <3>1. c \in Changes /\ c.of \in Subtasks
      BY <1>1, Types, ChangeOf
    <3>2. CASE c.of = i
      <4>1. c \in Of(i) /\ d = "accepted"
        BY <1>5, <2>2, <3>1, <3>2 DEF Of
      <4> QED
        BY <1>5, <2>2, <3>2, <4>1 DEF PassedOver
    <3>3. CASE c.of # i
      BY <1>1, <1>5, <2>2, <3>1, <3>3 DEF Landed, PassedOver
    <3> QED
      BY <3>2, <3>3
  <2> QED
    BY <1>1, <2>1, <2>2 DEF Landed, Brought
<1>13. GoneDecided'
  <2>1. (\E q \in Requests : req'[q].op = "gc") => \E q \in Requests : req[q].op = "gc"
    BY <1>2, <1>6
  <2>2. \A j \in Subtasks : /\ decision[j] # "none" => decision'[j] # "none"
                            /\ accepted[j] # 0 => accepted'[j] # 0
    BY <1>5
  <2> QED
    BY <1>1, <1>4, <2>1, <2>2, GoneStays
<1>14. Agreed'
  <2> SUFFICES ASSUME NEW j \in Subtasks \ disturbed
               PROVE  AgreedOf(j)'
    BY DEF Agreed
  <2>1. CASE j = i
    <3>1. Agrees(j)' /\ decision'[j] # "none"
      BY <1>5, <2>1
    <3>2. \A q \in Requests : ~Moves(q, "accept", j)' /\ ~Moves(q, "rollback", j)'
      <4> SUFFICES ASSUME NEW q \in Requests, Moves(q, "accept", j)' \/ Moves(q, "rollback", j)' PROVE FALSE
        OBVIOUS
      <4>1. q # r /\ req'[q] = req[q]
        BY <1>2, <1>6 DEF Moves
      <4>2. InFlight(q) /\ j \in req[q].subs \cap req[r].subs
        BY <2>1, <4>1 DEF Moves, InFlight
      <4> QED
        BY <4>1, <4>2, Others
    <3> QED
      BY <3>1, <3>2 DEF AgreedOf
  <2>2. CASE j # i
    <3>1. \A q \in Requests : SameMoves(q, j)
      <4> SUFFICES ASSUME NEW q \in Requests PROVE SameMoves(q, j)
        OBVIOUS
      <4>1. CASE q # r
        BY <1>2, <4>1 DEF Moves, SameMoves
      <4>2. CASE q = r
        <5>1. ~Moves(r, "accept", j) /\ ~Moves(r, "rollback", j)
          BY <2>2
        <5>2. ~Moves(r, "accept", j)' /\ ~Moves(r, "rollback", j)'
          BY <1>2, <1>6 DEF Moves
        <5> QED
          BY <4>2, <5>1, <5>2 DEF SameMoves
      <4> QED
        BY <4>1, <4>2
    <3>2. AgreedOf(j) /\ accepted'[j] = accepted[j] /\ decision'[j] = decision[j]
      BY <1>1, <1>5, <2>2 DEF Agreed
    <3>3. (Moving(j)' <=> Moving(j)) /\ (Agrees(j)' <=> Agrees(j))
      BY <3>1, <3>2 DEF Moving, SameMoves, Agrees, Decided, Shared
    <3> QED
      BY <3>1, <3>2, <3>3 DEF AgreedOf, SameMoves, Shared
  <2> QED
    BY <2>1, <2>2
<1> QED
  BY <1>7, <1>8, <1>9, <1>10, <1>11, <1>12, <1>13, <1>14 DEF ReviewInv

\* An accept, a rollback and a delivery commit their decisions.
LEMMA DecideStep ==
    ASSUME ReviewInv, NEW r \in Requests, AcceptRecords(r) \/ RollbackRecords(r) \/ DeliverRecords(r)
    PROVE  ReviewInv'
<1>1. /\ TypeOK /\ Shaped /\ CommitsOwn /\ Landed /\ Agreed
      /\ req \in [Requests -> Request] /\ req[r] \in Request /\ req[r].subs \subseteq Subtasks
      /\ DOMAIN log = 1..Len(log) /\ Len(log) \in Nat /\ accepted \in [Subtasks -> 0..Len(log)]
      /\ decision \in [Subtasks -> Decisions]
  BY Types, SubsTyped DEF ReviewInv
<1>2. Done \in Request /\ Done.op = "none" /\ Done.at = "done"
  BY DEF Done, Free, Request, Stages
<1>3. \A i \in Subtasks : accepted[i] # 0 => OwnCommit({i}, accepted[i]) /\ decision[i] # "none"
  BY <1>1 DEF CommitsOwn
<1>4. \A i \in Subtasks : accepted = [accepted EXCEPT ![i] = accepted[i]]
  BY <1>1
<1>5. CASE AcceptRecords(r)
  <2>1. /\ req[r].op = "accept" /\ req[r].at = "record" /\ InFlight(r) /\ req' = [req EXCEPT ![r] = Done]
        /\ UNCHANGED <<runVars, gitVars, crashes, disturbed>>
    BY <1>5 DEF AcceptRecords, InFlight
  <2>2. PICK i \in req[r].subs : /\ decision' = [decision EXCEPT ![i] = "accepted"]
                                 /\ accepted' = [accepted EXCEPT ![i] = req[r].commit]
    BY <1>5 DEF AcceptRecords
  <2>3. req[r].subs = {i} /\ i \in Subtasks /\ req[r].picks \subseteq recorded[i] /\ req[r].picks # {}
    BY <1>1, <2>1, <2>2 DEF Shaped, Shape
  <2>4. /\ OwnCommit({i}, req[r].commit) /\ req[r].commit \in 0..Len(log) /\ req[r].commit # 0
        /\ i \notin disturbed => log[req[r].commit].adds = req[r].picks
    <3>1. OwnCommit(req[r].subs, req[r].commit) /\ IsPick(log, disturbed, req[r], req[r].commit)
      BY <1>1, <2>1 DEF CommitsOwn, CommitsOf, OwnCommit
    <3>2. req[r].commit \in DOMAIN log
      BY <1>1, <2>1 DEF TypeOK
    <3> QED
      BY <1>1, <2>3, <3>1, <3>2 DEF IsPick
  <2>5. \A c \in (work \ late) \cap Of(i) : c \in Brought \/ (req[r].commit # 0 /\ recorded[i] # {c})
    <3>1. req[r].picks \subseteq Brought
      BY <1>1, <2>1 DEF Landed
    <3> QED
      BY <2>3, <2>4, <3>1
  <2>6. i \notin disturbed => Agrees(i)'
    <3> SUFFICES ASSUME i \notin disturbed PROVE Agrees(i)'
      OBVIOUS
    <3>1. Moves(r, "accept", i) /\ AgreedOf(i)
      BY <1>1, <2>1, <2>3 DEF Agreed, Moves
    <3>2. req[r].picks \subseteq onTarget \cup Shared
      BY <3>1 DEF AgreedOf
    <3>3. decision'[i] = "accepted" /\ accepted'[i] = req[r].commit
      BY <1>1, <2>2, <2>3
    <3>4. Decided(i)' = req[r].picks
      BY <2>1, <2>4, <3>3 DEF Decided, gitVars
    <3> QED
      BY <2>1, <2>4, <3>2, <3>3, <3>4 DEF Agrees, Shared, gitVars, runVars
  <2>7. \A j \in Subtasks \ {i} : ~Moves(r, "accept", j) /\ ~Moves(r, "rollback", j)
    BY <2>3 DEF Moves
  <2> QED
    BY <1>2, <2>1, <2>2, <2>3, <2>4, <2>5, <2>6, <2>7, RecordStep
<1>6. CASE RollbackRecords(r)
  <2>1. /\ req[r].op = "rollback" /\ req[r].at = "record" /\ InFlight(r) /\ req' = [req EXCEPT ![r] = Done]
        /\ UNCHANGED <<runVars, gitVars, crashes, disturbed>> /\ accepted' = accepted
    BY <1>6 DEF RollbackRecords, InFlight
  <2>2. PICK i \in req[r].subs : decision' = [decision EXCEPT ![i] = "rolled_back"]
    BY <1>6 DEF RollbackRecords
  <2>3. req[r].subs = {i} /\ i \in Subtasks
    BY <1>1, <2>1, <2>2 DEF Shaped, Shape
  <2>4. i \notin disturbed => Agrees(i)'
    <3> SUFFICES ASSUME i \notin disturbed PROVE Agrees(i)'
      OBVIOUS
    <3>1. Moves(r, "rollback", i) /\ AgreedOf(i)
      BY <1>1, <2>1, <2>3 DEF Agreed, Moves
    <3>2. log[accepted[i]].adds \cap onTarget \subseteq mergedIn \cup Shared /\ accepted[i] # 0
      BY <1>1, <2>3, <3>1, MovesOf DEF AgreedOf
    <3>3. decision'[i] = "rolled_back"
      BY <1>1, <2>2, <2>3
    <3>4. Decided(i)' = log[accepted[i]].adds
      BY <2>1, <3>2 DEF Decided, gitVars
    <3> QED
      BY <2>1, <3>2, <3>3, <3>4 DEF Agrees, Shared, gitVars, runVars
  <2>5. \A j \in Subtasks \ {i} : ~Moves(r, "accept", j) /\ ~Moves(r, "rollback", j)
    BY <2>3 DEF Moves
  <2>6. accepted[i] \in 0..Len(log) /\ accepted' = [accepted EXCEPT ![i] = accepted[i]]
        /\ (accepted[i] # 0 => OwnCommit({i}, accepted[i]))
    BY <1>1, <1>3, <1>4, <2>1, <2>3
  <2> QED
    BY <1>2, <2>1, <2>2, <2>3, <2>4, <2>5, <2>6, RecordStep
<1>7. CASE DeliverRecords(r)
  <2>1. /\ req[r].op = "deliver" /\ req[r].at = "record" /\ InFlight(r)
        /\ UNCHANGED <<runVars, gitVars, crashes, disturbed>> /\ accepted' = accepted
    BY <1>7 DEF DeliverRecords, InFlight
  <2>2. \A j : ~Moves(r, "accept", j) /\ ~Moves(r, "rollback", j)
    BY <2>1 DEF Moves
  <2>3. CASE req[r].subs = {}
    <3>1. req' = [req EXCEPT ![r] = Done] /\ UNCHANGED decision
      BY <1>7, <2>3 DEF DeliverRecords
    <3>2. req'[r] = Done
      BY <1>1, <3>1
    <3>3. \A j : ~Moves(r, "accept", j)' /\ ~Moves(r, "rollback", j)'
      BY <1>2, <3>2 DEF Moves
    <3> QED
      BY <1>2, <2>1, <2>2, <3>1, <3>3, MoveStep DEF gitVars, reviewVars
  <2>4. CASE req[r].subs # {}
    <3>1. PICK i \in req[r].subs : /\ decision' = [decision EXCEPT ![i] = "accepted"]
                                   /\ req' = [req EXCEPT ![r].subs = @ \ {i}]
      BY <1>7, <2>4 DEF DeliverRecords
    <3> DEFINE x == [req[r] EXCEPT !.subs = req[r].subs \ {i}]
    <3>2. req' = [req EXCEPT ![r] = x] /\ i \in Subtasks
      BY <1>1, <3>1
    <3>3. x \in Request /\ x.op = "deliver" /\ x.at = "record" /\ x.subs = req[r].subs \ {i}
      BY <1>1, <2>1 DEF Request
    <3> HIDE DEF x
    <3>4. work \ late \subseteq mergedIn /\ mergedIn \subseteq Brought
      BY <1>1, <2>1 DEF Landed
    <3>5. i \notin disturbed => Agrees(i)'
      <4> SUFFICES ASSUME i \notin disturbed PROVE Agrees(i)'
        OBVIOUS
      <4>1. decision[i] = "none" /\ accepted[i] = 0
        BY <1>1, <1>3, <2>1, <3>1, <3>2 DEF Shaped, Shape
      <4>2. ~Moving(i)
        <5> SUFFICES ASSUME NEW q \in Requests, Moves(q, "accept", i) \/ Moves(q, "rollback", i) PROVE FALSE
          BY DEF Moving
        <5>1. q # r /\ InFlight(q) /\ i \in req[q].subs
          BY <2>2 DEF Moves, InFlight
        <5> QED
          BY <2>1, <3>1, <5>1, Others
      <4>3. Agrees(i) /\ mergedIn \cap Of(i) \subseteq onTarget \cup Shared
        BY <1>1, <3>2, <4>1, <4>2 DEF Agreed, AgreedOf
      <4>4. decision'[i] = "accepted" /\ accepted'[i] = 0
        BY <1>1, <2>1, <3>1, <3>2, <4>1
      <4>5. Decided(i)' \subseteq mergedIn \cap Of(i)
        BY <2>1, <3>4, <4>4 DEF Decided, runVars
      <4> QED
        BY <2>1, <4>1, <4>3, <4>4, <4>5 DEF Agrees, Shared, gitVars, runVars
    <3>6. accepted[i] \in 0..Len(log) /\ accepted' = [accepted EXCEPT ![i] = accepted[i]]
          /\ (accepted[i] # 0 => OwnCommit({i}, accepted[i]))
      BY <1>1, <1>3, <1>4, <2>1, <3>2
    <3> QED
      BY <2>1, <2>2, <3>1, <3>2, <3>3, <3>4, <3>5, <3>6, RecordStep
  <2> QED
    BY <2>3, <2>4
<1> QED
  BY <1>5, <1>6, <1>7
-----------------------------------------------------------------------------
(* Rejections, the run, crashes. *)

LEMMA RejectStep ==
    ASSUME ReviewInv, NEW i \in Subtasks, Reject(i)
    PROVE  ReviewInv'
<1> DEFINE hit == UNION {{i} \cap req[q].subs : q \in {q \in Requests : InFlight(q)}}
<1> USE DEF runVars, gitVars
<1>1. TypeOK /\ Shaped /\ Apart /\ CommitsOwn /\ Known /\ Landed /\ GoneDecided /\ Agreed
  BY DEF ReviewInv
<1>2. /\ ~LoopHeld /\ decision' = [decision EXCEPT ![i] = "rejected"]
      /\ disturbed' = disturbed \cup hit /\ hit \subseteq {i}
      /\ UNCHANGED <<runVars, gitVars, accepted, req, crashes>>
  BY DEF Reject
<1>3. \A q \in Requests : InFlight(q) /\ i \in req[q].subs => i \in disturbed'
  BY <1>2
<1> HIDE DEF hit
<1>4. Growing
  BY <1>1, <1>2, LogStays DEF Growing
<1>5. /\ decision' \in [Subtasks -> Decisions] /\ decision'[i] = "rejected"
      /\ \A j \in Subtasks : j # i => decision'[j] = decision[j]
  BY <1>1, <1>2, Types DEF Decisions
<1>6. TypeOK'
  <2>1. disturbed' \subseteq Subtasks
    BY <1>1, <1>2, Types
  <2> QED
    BY <1>1, <1>2, <1>5, <2>1 DEF TypeOK
<1>7. Shaped'
  <2>1. ASSUME NEW q \in Requests, InFlight(q)'
        PROVE  Shape(q)'
    <3>1. InFlight(q) /\ Shape(q) /\ req'[q] = req[q]
      BY <1>1, <1>2, <2>1 DEF InFlight, Shaped
    <3>2. ~(req[q].op = "deliver" /\ req[q].at = "record")
      BY <1>2 DEF LoopHeld
    <3> QED
      BY <1>2, <1>5, <3>1, <3>2 DEF Shape
  <2> QED
    BY <1>1, <1>2, <2>1 DEF Shaped
<1>8. Apart'
  <2>1. \A q \in Requests : InFlight(q)' => InFlight(q) /\ req'[q].subs \subseteq req[q].subs
    BY <1>2 DEF InFlight
  <2> QED
    BY <1>1, <1>2, <1>4, <2>1, ApartStays DEF Growing
<1>9. CommitsOwn'
  <2>1. ASSUME NEW j \in Subtasks, accepted[j] # 0
        PROVE  decision'[j] # "none" /\ IsOwn(log', recorded', disturbed', {j}, accepted[j])
    <3>1. OwnCommit({j}, accepted[j]) /\ decision[j] # "none"
      BY <1>1, <2>1 DEF CommitsOwn
    <3> QED
      BY <1>4, <1>5, <3>1, OwnStays
  <2>2. \A q \in Requests : CommitsOf(log', recorded', disturbed', req'[q])
    BY <1>1, <1>2, <1>4, CommitsIdle
  <2> QED
    BY <1>2, <2>1, <2>2 DEF CommitsOwn, OwnCommit
<1>10. Known'
  BY <1>1, <1>2 DEF Known, Made
<1>11. Landed'
  <2>1. \A c \in work \ late : decision'[c.of] = "accepted" => decision[c.of] = "accepted"
    <3>1. \A c \in work : c.of \in Subtasks
      BY <1>1, Types, ChangeOf
    <3> QED
      BY <1>5, <3>1
  <2> QED
    BY <1>1, <1>2, <2>1 DEF Landed, Brought, PassedOver
<1>12. GoneDecided'
  <2>1. \A j \in Subtasks : decision[j] # "none" => decision'[j] # "none"
    BY <1>5
  <2> QED
    BY <1>1, <1>2, <1>4, <2>1, GoneStays
<1>13. Agreed'
  <2> SUFFICES ASSUME NEW j \in Subtasks \ disturbed' PROVE AgreedOf(j)'
    BY DEF Agreed
  <2>1. j \in Subtasks \ disturbed /\ AgreedOf(j)
    BY <1>1, <1>2 DEF Agreed
  <2>2. \A q \in Requests : SameMoves(q, j)
    BY <1>2 DEF Moves, SameMoves
  <2>3. Moving(j)' <=> Moving(j)
    BY <2>2 DEF Moving, SameMoves
  <2>4. Decided(j)' = Decided(j) /\ Shared' = Shared
    BY <1>2 DEF Decided, Shared
  <2>5. CASE j = i
    <3>1. ~Moving(j) /\ \A q \in Requests : ~Moves(q, "accept", j)' /\ ~Moves(q, "rollback", j)'
      BY <1>2, <1>3, <2>5 DEF Moving, Moves, InFlight
    <3>2. Agrees(j)
      BY <2>1, <3>1 DEF AgreedOf
    <3>3. Agrees(j)' /\ decision'[j] # "none"
      BY <1>2, <1>5, <2>4, <2>5, <3>2 DEF Agrees
    <3> QED
      BY <3>1, <3>3 DEF AgreedOf
  <2>6. CASE j # i
    <3>1. decision'[j] = decision[j]
      BY <1>5, <2>1, <2>6
    <3>2. Agrees(j)' <=> Agrees(j)
      BY <1>2, <2>4, <3>1 DEF Agrees
    <3> QED
      BY <1>2, <2>1, <2>2, <2>3, <2>4, <3>1, <3>2 DEF AgreedOf, SameMoves
  <2> QED
    BY <2>5, <2>6
<1> QED
  BY <1>6, <1>7, <1>8, <1>9, <1>10, <1>11, <1>12, <1>13 DEF ReviewInv

\* A step of the run that brings nothing to the branch, or makes it anew.
LEMMA IdleStep ==
    ASSUME ReviewInv, UNCHANGED <<inCheckout, recorded, late, log, onTarget, mergedIn, reviewVars, req, disturbed>>,
           work' \subseteq work, head' \subseteq head, mergeOf' \in [Subtasks -> SUBSET Changes],
           \A i \in Subtasks : mergeOf'[i] \subseteq mergeOf[i],
           run' \in Terminal \cup {"running"}, resumes' \in Nat, crashes' \in Nat,
           branch' = TRUE \/ UNCHANGED branch
    PROVE  ReviewInv'
<1> USE DEF reviewVars
<1>1. TypeOK /\ Shaped /\ Apart /\ CommitsOwn /\ Known /\ Landed /\ GoneDecided /\ Agreed
  BY DEF ReviewInv
<1>2. Growing
  BY <1>1, LogStays DEF Growing
<1>3. TypeOK'
  <2>1. work' \subseteq Changes /\ head' \subseteq Changes /\ recorded' \in [Subtasks -> SUBSET Changes]
    BY <1>1, Types
  <2>2. {work', head', onTarget', mergedIn', late'} \subseteq SUBSET Changes
    BY <1>1, <2>1, Types
  <2>3. {mergeOf', recorded'} \subseteq [Subtasks -> SUBSET Changes] /\ branch' \in BOOLEAN
    BY <1>1, <2>1 DEF TypeOK
  <2> QED
    BY <1>1, <2>2, <2>3 DEF TypeOK
<1>4. Shaped' /\ Apart'
  BY <1>1 DEF Shaped, Shape, InFlight, Apart, Touched
<1>5. CommitsOwn'
  BY <1>1 DEF CommitsOwn, OwnCommit
<1>6. Known'
  <2>1. {} \subseteq Made' /\ \A k \in DOMAIN log' : k \in DOMAIN log
    OBVIOUS
  <2> QED
    BY <1>1, <1>2, <2>1, KnownStays
<1>7. Landed'
  BY <1>1 DEF Landed, Brought, PassedOver
<1>8. GoneDecided'
  BY <1>1, <1>2, GoneStays
<1>9. Agreed'
  <2>1. \A q \in Requests, i \in Subtasks \ disturbed' : SameMoves(q, i)
    BY DEF Moves, SameMoves
  <2> QED
    BY <1>1, <1>2, <2>1, AgreedStays
<1> QED
  BY <1>3, <1>4, <1>5, <1>6, <1>7, <1>8, <1>9 DEF ReviewInv

LEMMA ResumeStep ==
    ASSUME ReviewInv, ResumeRun
    PROVE  ReviewInv'
<1>1. TypeOK /\ mergeOf \in [Subtasks -> SUBSET Changes] /\ resumes \in Nat /\ crashes \in Nat
  <2>1. TypeOK
    BY DEF ReviewInv
  <2> QED
    BY <2>1, Types DEF TypeOK
<1>2. PICK restored \in SUBSET Subtasks :
        mergeOf' = [i \in Subtasks |-> IF i \in restored THEN {} ELSE mergeOf[i]]
  BY DEF ResumeRun
<1>3. /\ mergeOf' \in [Subtasks -> SUBSET Changes]
      /\ \A i \in Subtasks : mergeOf'[i] \subseteq mergeOf[i]
  BY <1>1, <1>2
<1>4. /\ UNCHANGED <<inCheckout, recorded, late, log, onTarget, mergedIn, reviewVars, req, disturbed>>
      /\ work' \subseteq work /\ head' \subseteq head /\ run' \in Terminal \cup {"running"}
      /\ resumes' \in Nat /\ crashes' \in Nat /\ branch' = TRUE
  BY <1>1 DEF ResumeRun
<1> QED
  BY <1>3, <1>4, IdleStep

LEMMA ConflictStep ==
    ASSUME ReviewInv, NEW i \in Subtasks, MergeConflicts(i)
    PROVE  ReviewInv'
<1>1. TypeOK /\ mergeOf \in [Subtasks -> SUBSET Changes]
  BY Types DEF ReviewInv
<1>2. mergeOf' = [mergeOf EXCEPT ![i] = {}]
  BY DEF MergeConflicts
<1>3. /\ mergeOf' \in [Subtasks -> SUBSET Changes]
      /\ \A j \in Subtasks : mergeOf'[j] \subseteq mergeOf[j]
  BY <1>1, <1>2
<1>4. /\ UNCHANGED <<inCheckout, recorded, late, log, onTarget, mergedIn, reviewVars, req, disturbed>>
      /\ work' \subseteq work /\ head' \subseteq head /\ run' \in Terminal \cup {"running"}
      /\ resumes' \in Nat /\ crashes' \in Nat /\ UNCHANGED branch
  BY <1>1 DEF MergeConflicts, TypeOK, gitVars
<1> QED
  BY <1>3, <1>4, IdleStep

\* An attempt puts its change on the branch, or none, and the head on record.
LEMMA AttemptStep ==
    ASSUME ReviewInv, NEW i \in Subtasks, NEW change \in SUBSET Of(i), Merges(i, change)
    PROVE  ReviewInv'
<1> USE DEF gitVars, reviewVars
<1>1. /\ TypeOK /\ Shaped /\ Apart /\ CommitsOwn /\ Known /\ Landed /\ GoneDecided /\ Agreed
      /\ work \subseteq Changes /\ head \subseteq Changes /\ late \subseteq Changes
      /\ mergeOf \in [Subtasks -> SUBSET Changes] /\ recorded \in [Subtasks -> SUBSET Changes]
  BY Types DEF ReviewInv
<1>2. /\ branch /\ work' = work \cup change /\ head' = IF change = {} THEN head ELSE change
      /\ recorded' = [recorded EXCEPT ![i] = recorded[i] \cup head']
      /\ UNCHANGED <<inCheckout, run, resumes, gitVars, reviewVars, req, crashes, disturbed>>
  BY <1>1 DEF Merges
<1>3. PICK m \in {head', mergeOf[i]} : mergeOf' = [mergeOf EXCEPT ![i] = m]
  BY DEF Merges
<1>4. /\ late \subseteq late' /\ late' \subseteq late \cup change
      /\ decision[i] # "none" => change \subseteq late'
      /\ (\E r \in Requests : InFlight(r) /\ req[r].op = "deliver") => change \subseteq late'
  BY DEF Merges
<1>5. /\ change \subseteq Changes /\ head' \subseteq Changes /\ \A c \in change : c.of = i
  BY <1>1, <1>2 DEF Of
<1>6. /\ recorded' \in [Subtasks -> SUBSET Changes] /\ recorded'[i] = recorded[i] \cup head'
      /\ \A j \in Subtasks : j # i => recorded'[j] = recorded[j]
      /\ mergeOf' \in [Subtasks -> SUBSET Changes] /\ mergeOf'[i] = m
      /\ \A j \in Subtasks : j # i => mergeOf'[j] = mergeOf[j]
  BY <1>1, <1>2, <1>3, <1>5
<1>7. Growing
  BY <1>1, <1>2, <1>6, LogStays DEF Growing
<1>8. TypeOK'
  <2>1. {work', head', onTarget', mergedIn', late'} \subseteq SUBSET Changes
    <3>1. work' \subseteq Changes /\ late' \subseteq Changes
      BY <1>1, <1>2, <1>4, <1>5
    <3> QED
      BY <1>1, <1>2, <1>5, <3>1, Types
  <2>2. {mergeOf', recorded'} \subseteq [Subtasks -> SUBSET Changes]
    BY <1>6
  <2> QED
    BY <1>1, <1>2, <2>1, <2>2 DEF TypeOK
<1>9. Shaped'
  <2>1. ASSUME NEW q \in Requests, InFlight(q)'
        PROVE  Shape(q)'
    <3>1. Shape(q) /\ req'[q] = req[q]
      BY <1>1, <1>2, <2>1 DEF InFlight, Shaped
    <3> QED
      BY <1>2, <1>7, <3>1 DEF Shape, Growing
  <2> QED
    BY <1>1, <1>2, <2>1 DEF Shaped
<1>10. Apart'
  BY <1>1, <1>2 DEF Apart, InFlight, Touched
<1>11. CommitsOwn'
  <2>1. \A q \in Requests : CommitsOf(log', recorded', disturbed', req'[q])
    BY <1>1, <1>2, <1>7, CommitsIdle
  <2> QED
    BY <1>1, <1>2, <1>7, <2>1, CommitsStay
<1>12. Known'
  <2>1. Made \subseteq Made'
    BY <1>7, SharedGrows
  <2>2. change \subseteq Made'
    <3>1. change \subseteq recorded'[i]
      BY <1>2, <1>6
    <3> QED
      BY <1>5, <3>1 DEF Made
  <2>3. head' \subseteq Made'
    BY <1>1, <1>2, <2>1, <2>2 DEF Known
  <2>4. \A j \in Subtasks : recorded'[j] \subseteq Made' /\ mergeOf'[j] \subseteq recorded'[j]
    <3> SUFFICES ASSUME NEW j \in Subtasks
                 PROVE  recorded'[j] \subseteq Made' /\ mergeOf'[j] \subseteq recorded'[j]
      OBVIOUS
    <3>1. recorded[j] \subseteq Made /\ mergeOf[j] \subseteq recorded[j]
      BY <1>1 DEF Known
    <3>2. CASE j = i
      BY <1>6, <2>1, <2>3, <3>1, <3>2
    <3>3. CASE j # i
      BY <1>6, <2>1, <3>1, <3>3
    <3> QED
      BY <3>2, <3>3
  <2> QED
    BY <1>1, <1>2, <2>1, <2>2, <2>3, <2>4 DEF Known
<1>13. decision[i] # "none" => work' \ late' \subseteq work \ late
  BY <1>2, <1>4
<1>14. Landed'
  <2>1. ASSUME NEW c \in work' \ late', decision[c.of] = "accepted"
        PROVE  c \in Brought \/ PassedOver(c)'
    <3>1. c \in work \ late
      BY <1>2, <1>4, <1>5, <2>1
    <3>2. c \in Brought \/ PassedOver(c)
      BY <1>1, <2>1, <3>1 DEF Landed
    <3>3. c \in Made
      BY <1>1, <3>1 DEF Known
    <3> QED
      BY <1>2, <1>7, <3>2, <3>3, PassedStays
  <2>2. ASSUME NEW q \in Requests, req[q].op = "deliver", req[q].at \in {"reads", "record"}
        PROVE  work' \ late' \subseteq mergedIn
    <3>1. change \subseteq late'
      BY <1>4, <2>2 DEF InFlight
    <3> QED
      BY <1>1, <1>2, <1>4, <2>2, <3>1 DEF Landed
  <2> QED
    BY <1>1, <1>2, <2>1, <2>2 DEF Landed, Brought
<1>15. GoneDecided'
  <2>1. (\E r \in Requests : req[r].op = "gc") => work' \ late' \subseteq work \ late
    BY <1>1, <1>13 DEF GoneDecided
  <2> QED
    BY <1>1, <1>2, <1>7, <2>1, GoneStays
<1>16. Agreed'
  <2>1. ASSUME NEW j \in Subtasks, decision[j] # "none"
        PROVE  (work' \ late') \cap Of(j) \subseteq work \ late
    <3>1. CASE j = i
      BY <1>13, <2>1, <3>1
    <3>2. CASE j # i
      BY <1>2, <1>4, <1>5, <3>2 DEF Of
    <3> QED
      BY <3>1, <3>2
  <2>2. \A q \in Requests, j \in Subtasks \ disturbed' : SameMoves(q, j)
    BY <1>2 DEF Moves, SameMoves
  <2> QED
    BY <1>1, <1>2, <1>7, <2>1, <2>2, AgreedStays
<1> QED
  BY <1>8, <1>9, <1>10, <1>11, <1>12, <1>14, <1>15, <1>16 DEF ReviewInv
\* A session ends, and may merge its branch at once.
LEMMA EndStep ==
    ASSUME ReviewInv, RunEnds
    PROVE  ReviewInv'
<1> USE DEF reviewVars
<1>1. /\ TypeOK /\ Shaped /\ Apart /\ CommitsOwn /\ Known /\ Landed /\ GoneDecided /\ Agreed
      /\ work \subseteq Changes /\ onTarget \subseteq Changes /\ mergedIn \subseteq Changes
      /\ mergeOf \in [Subtasks -> SUBSET Changes] /\ branch \in BOOLEAN
      /\ resumes \in Nat /\ crashes \in Nat
  <2>1. TypeOK
    BY DEF ReviewInv
  <2> QED
    BY <2>1, Types DEF ReviewInv, TypeOK
<1>2. /\ UNCHANGED <<inCheckout, work, head, mergeOf, recorded, resumes, late, reviewVars, req, crashes, disturbed>>
      /\ run' \in Terminal
      /\ UNCHANGED gitVars \/ (~inCheckout /\ MergeBranch)
  BY DEF RunEnds
<1>3. CASE UNCHANGED gitVars
  BY <1>1, <1>2, <1>3, IdleStep DEF gitVars
<1>4. CASE ~inCheckout /\ MergeBranch
  <2>1. /\ LogGrows
        /\ \A k \in DOMAIN log' : k \in DOMAIN log \/ log'[k].adds \cup log'[k].removes \subseteq work
        /\ onTarget \subseteq onTarget' /\ onTarget' \subseteq onTarget \cup work
        /\ mergedIn' = mergedIn \cup work /\ mergedIn' \subseteq mergedIn \cup onTarget'
        /\ mergedIn' \subseteq Brought' /\ UNCHANGED branch
    BY <1>4, MergeFacts DEF MergeBranch
  <2>2. Growing
    BY <1>2, <2>1 DEF Growing
  <2>3. TypeOK'
    <3>1. {work', head', onTarget', mergedIn', late'} \subseteq SUBSET Changes
      <4>1. onTarget' \subseteq Changes /\ mergedIn' \subseteq Changes
        BY <1>1, <2>1
      <4> QED
        BY <1>1, <1>2, <4>1, Types
    <3>2. {mergeOf', recorded'} \subseteq [Subtasks -> SUBSET Changes]
      BY <1>1, <1>2, Types
    <3>3. /\ log' \in Seq([adds : SUBSET Changes, removes : SUBSET Changes])
          /\ accepted' \in [Subtasks -> 0..Len(log')]
      BY <1>1, <1>2, <2>1, Types DEF LogGrows, Entry
    <3>4. \A q \in Requests : req'[q].op = "accept" /\ req'[q].at = "record" => req'[q].commit \in DOMAIN log'
      BY <1>1, <1>2, <2>1 DEF TypeOK, LogGrows
    <3> QED
      BY <1>1, <1>2, <2>1, <3>1, <3>2, <3>3, <3>4 DEF TypeOK
  <2>4. Shaped' /\ Apart'
    BY <1>1, <1>2 DEF Shaped, Shape, InFlight, Apart, Touched
  <2>5. CommitsOwn'
    <3>1. ASSUME NEW q \in Requests
          PROVE  CommitsOf(log', recorded', disturbed', req'[q])
      <4>1. CommitsOf(log, recorded, disturbed, req[q])
        BY <1>1 DEF CommitsOwn
      <4>2. ~(req[q].op = "accept" /\ req[q].at = "head")
        BY <1>1, <1>4 DEF Shaped, Shape, InFlight
      <4>3. \A k : IsOwn(log, recorded, disturbed, req[q].subs, k)
                     => IsOwn(log', recorded', disturbed', req[q].subs, k)
        BY <2>2, OwnStays DEF OwnCommit
      <4>4. \A k \in DOMAIN log : IsPick(log, disturbed, req[q], k) => IsPick(log', disturbed', req[q], k)
        BY <1>2, <2>1 DEF IsPick, LogGrows
      <4> QED
        BY <1>2, <4>1, <4>2, <4>3, <4>4 DEF CommitsOf, IsOwn
    <3> QED
      BY <1>1, <1>2, <2>2, <3>1, CommitsStay
  <2>6. Known'
    <3>1. work \subseteq Made'
      BY <1>1, <1>2 DEF Known, Made
    <3>2. onTarget' \cup mergedIn' \subseteq onTarget \cup mergedIn \cup work
      BY <2>1
    <3> QED
      BY <1>1, <1>2, <2>1, <2>2, <3>1, <3>2, KnownStays
  <2>7. Landed'
    <3>1. Brought \subseteq Brought'
      BY <2>1, BroughtGrows
    <3>2. ASSUME NEW q \in Requests
          PROVE  /\ req[q].op = "accept" /\ req[q].at \in {"head", "record"} => req[q].picks \subseteq Brought'
                 /\ req[q].op = "deliver" /\ req[q].at \in {"reads", "record"} => work \ late \subseteq mergedIn'
      BY <1>1, <2>1, <3>1 DEF Landed
    <3>3. \A c \in work \ late : decision[c.of] = "accepted" => c \in Brought' \/ PassedOver(c)
      BY <1>1, <3>1 DEF Landed
    <3> QED
      BY <1>2, <2>1, <3>2, <3>3 DEF Landed, PassedOver
  <2>8. GoneDecided'
    BY <1>1, <1>2, <2>1, <2>2, GoneStays
  <2>9. Agreed'
    <3> SUFFICES ASSUME NEW j \in Subtasks \ disturbed PROVE AgreedOf(j)'
      BY <1>2 DEF Agreed
    <3>1. \A q \in Requests : SameMoves(q, j)
      BY <1>2 DEF Moves, SameMoves
    <3>2. \A c \in Mine(j) : /\ c \in onTarget => c \in onTarget'
                             /\ c \in onTarget' => c \in onTarget \cup mergedIn'
                             /\ c \in mergedIn' => c \in mergedIn \cup onTarget'
      BY <2>1
    <3>3. UNCHANGED <<decision, accepted, recorded, work, late, disturbed>> /\ mergedIn \subseteq mergedIn'
      BY <1>2, <2>1
    <3> QED
      BY <2>2, <2>6, <3>1, <3>2, <3>3, AgreedGit
  <2> QED
    BY <2>3, <2>4, <2>5, <2>6, <2>7, <2>8, <2>9 DEF ReviewInv
<1> QED
  BY <1>2, <1>3, <1>4

\* A crash disturbs whatever is under way, and leaves no request.
LEMMA CrashStep ==
    ASSUME ReviewInv, Crash
    PROVE  ReviewInv'
<1> DEFINE hit == UNION {req[r].subs : r \in {q \in Requests : InFlight(q)}}
<1> USE DEF gitVars, reviewVars
<1>1. /\ TypeOK /\ Shaped /\ Apart /\ CommitsOwn /\ Known /\ Landed /\ GoneDecided /\ Agreed
      /\ disturbed \subseteq Subtasks
  BY Types DEF ReviewInv
<1>2. /\ UNCHANGED <<inCheckout, late, work, head, mergeOf, recorded, resumes, gitVars, reviewVars>>
      /\ crashes' = crashes + 1 /\ disturbed' = disturbed \cup hit
      /\ req' = [r \in Requests |-> IF InFlight(r) THEN Done ELSE req[r]]
      /\ run' = IF run = "running" THEN "partial" ELSE run
  BY DEF Crash
<1>3. \A q \in Requests : InFlight(q) => req[q].subs \subseteq disturbed'
  BY <1>2
<1>4. hit \subseteq Subtasks
  <2>1. \A q \in Requests : req[q].subs \subseteq Subtasks
    BY <1>1, SubsTyped
  <2> QED
    BY <2>1
<1> HIDE DEF hit
<1>5. Done \in Request /\ Done.op = "none" /\ Done.at = "done"
  BY DEF Done, Free, Request, Stages
<1>6. /\ req' \in [Requests -> Request]
      /\ \A q \in Requests : /\ ~InFlight(q)' /\ req'[q].at \in {"free", "done"}
                             /\ req'[q].op = "gc" => req[q].op = "gc"
  <2>1. req' \in [Requests -> Request]
    BY <1>1, <1>2, <1>5, Types
  <2>2. \A q \in Requests : req'[q] = IF InFlight(q) THEN Done ELSE req[q]
    BY <1>2
  <2> QED
    BY <1>5, <2>1, <2>2 DEF InFlight
<1>7. Growing
  BY <1>1, <1>2, LogStays DEF Growing
<1>8. TypeOK'
  <2>1. disturbed' \subseteq Subtasks /\ crashes' \in Nat /\ run' \in Terminal \cup {"running"}
    BY <1>1, <1>2, <1>4 DEF TypeOK, Terminal
  <2> QED
    BY <1>1, <1>2, <1>6, <2>1 DEF TypeOK
<1>9. Shaped' /\ Apart'
  BY <1>1, <1>2, <1>6 DEF Shaped, Apart
<1>10. CommitsOwn'
  <2>1. \A q \in Requests : CommitsOf(log', recorded', disturbed', req'[q])
    BY <1>6 DEF CommitsOf
  <2> QED
    BY <1>1, <1>2, <1>7, <2>1, CommitsStay
<1>11. Known'
  BY <1>1, <1>2 DEF Known, Made
<1>12. Landed'
  <2>1. \A q \in Requests : req'[q].at \notin {"head", "record", "reads"}
    BY <1>6
  <2> QED
    BY <1>1, <1>2, <2>1 DEF Landed, Brought, PassedOver
<1>13. GoneDecided'
  BY <1>1, <1>2, <1>6, <1>7, GoneStays
<1>14. Agreed'
  <2>1. ASSUME NEW q \in Requests, NEW i \in Subtasks \ disturbed'
        PROVE  SameMoves(q, i)
    BY <1>3, <1>6 DEF Moves, InFlight, SameMoves
  <2> QED
    BY <1>1, <1>2, <1>7, <2>1, AgreedStays
<1> QED
  BY <1>8, <1>9, <1>10, <1>11, <1>12, <1>13, <1>14 DEF ReviewInv

-----------------------------------------------------------------------------
(* The theorems. *)

LEMMA InitHolds == Init => ReviewInv
<1> SUFFICES ASSUME Init PROVE ReviewInv
  OBVIOUS
<1>1. Free \in Request /\ Free.op = "none" /\ Free.at = "free"
  BY DEF Free, Request, Stages
<1>2. \A r \in Requests : req[r] = Free
  BY DEF Init
<1>3. log = <<>> /\ Len(log) = 0 /\ DOMAIN log = {} /\ log \in Seq(Entry)
  BY DEF Init
<1>4. TypeOK
  <2>1. /\ {work, head, onTarget, mergedIn, late} \subseteq SUBSET Changes
        /\ {mergeOf, recorded} \subseteq [Subtasks -> SUBSET Changes]
    BY DEF Init
  <2> QED
    BY <1>1, <1>2, <1>3, <2>1 DEF Init, TypeOK, Terminal, Decisions, Entry
<1>5. Shaped /\ Apart /\ CommitsOwn
  BY <1>1, <1>2, ReviewAssumption DEF Init, Shaped, InFlight, Apart, CommitsOwn, CommitsOf
<1>6. Known /\ Landed /\ GoneDecided
  BY <1>1, <1>2, <1>3 DEF Init, Known, Landed, GoneDecided
<1>7. Agreed
  BY <1>1, <1>2 DEF Init, Agreed, AgreedOf, Agrees, Moves
<1> QED
  BY <1>4, <1>5, <1>6, <1>7 DEF ReviewInv

LEMMA StepHolds == ReviewInv /\ [Next]_vars => ReviewInv'
<1> SUFFICES ASSUME ReviewInv, [Next]_vars PROVE ReviewInv'
  OBVIOUS
<1>1. CASE RunEnds \/ ResumeRun \/ Crash
  BY <1>1, EndStep, ResumeStep, CrashStep
<1>2. ASSUME NEW i \in Subtasks, MergesChange(i) \/ MergesNothing(i) \/ MergeConflicts(i) \/ Reject(i)
      PROVE  ReviewInv'
  <2>1. CASE MergesChange(i)
    <3>1. PICK c \in Of(i) : Merges(i, {c})
      BY <2>1 DEF MergesChange
    <3> QED
      BY <3>1, AttemptStep
  <2>2. CASE MergesNothing(i)
    BY <2>2, AttemptStep DEF MergesNothing
  <2> QED
    BY <1>2, <2>1, <2>2, ConflictStep, RejectStep
<1>3. ASSUME NEW r \in Requests, NEW i \in Subtasks, AcceptStarts(r, i)
      PROVE  ReviewInv'
  <2>1. mergeOf[i] \in SUBSET Changes
    BY Types DEF ReviewInv
  <2>2. {i} \in SUBSET Subtasks /\ 0 \in Nat /\ Starts(r, "accept", {i}, mergeOf[i], 0) /\ mergeOf[i] # {}
    BY <1>3 DEF AcceptStarts
  <2> QED
    BY <2>1, <2>2, StartStep
<1>4. ASSUME NEW r \in Requests, NEW i \in Subtasks, RollbackStarts(r, i)
      PROVE  ReviewInv'
  <2>1. accepted[i] \in Nat
    BY Types DEF ReviewInv
  <2>2. /\ {i} \in SUBSET Subtasks /\ {} \in SUBSET Changes
        /\ Starts(r, "rollback", {i}, {}, accepted[i])
        /\ decision[i] # "none" /\ accepted[i] # 0
    BY <1>4 DEF RollbackStarts
  <2> QED
    BY <2>1, <2>2, StartStep
<1>5. ASSUME NEW r \in Requests, DeliverStarts(r)
      PROVE  ReviewInv'
  <2>1. /\ Subtasks \in SUBSET Subtasks /\ {} \in SUBSET Changes /\ 0 \in Nat
        /\ Starts(r, "deliver", Subtasks, {}, 0)
    BY <1>5 DEF DeliverStarts
  <2> QED
    BY <2>1, StartStep
<1>6. ASSUME NEW r \in Requests, GcReports(r)
      PROVE  ReviewInv'
  <2>1. /\ {} \in SUBSET Subtasks /\ {} \in SUBSET Changes /\ 0 \in Nat
        /\ Starts(r, "gc", {}, {}, 0) /\ FullyAccepted
    BY <1>6 DEF GcReports
  <2> QED
    BY <2>1, StartStep
<1>7. ASSUME NEW r \in Requests, AcceptPicks(r) \/ RollbackReverts(r) \/ DeliverMerges(r) \/ GcRemoves(r)
      PROVE  ReviewInv'
  BY <1>7, PickStep, RevertStep, MergeStep, CollectStep
<1>8. ASSUME NEW r \in Requests, Refused(r) \/ ReadsHead(r) \/ DeliverReads(r)
      PROVE  ReviewInv'
  BY <1>8, WaitStep
<1>9. ASSUME NEW r \in Requests, AcceptRecords(r) \/ RollbackRecords(r) \/ DeliverRecords(r)
      PROVE  ReviewInv'
  BY <1>9, DecideStep
<1>10. CASE UNCHANGED vars
  <2>1. UNCHANGED <<inCheckout, run, work, head, mergeOf, recorded, resumes, late, branch, log, onTarget,
                    mergedIn, reviewVars, req, crashes, disturbed>>
    BY <1>10 DEF vars, runVars, gitVars
  <2>2. /\ mergeOf \in [Subtasks -> SUBSET Changes]
        /\ run \in Terminal \cup {"running"} /\ resumes \in Nat /\ crashes \in Nat
    <3>1. TypeOK
      BY DEF ReviewInv
    <3> QED
      BY <3>1, Types DEF TypeOK
  <2> QED
    BY <2>1, <2>2, IdleStep
<1> QED
  BY <1>1, <1>2, <1>3, <1>4, <1>5, <1>6, <1>7, <1>8, <1>9, <1>10 DEF Next

\* In every reachable state, however often a subtask is attempted, and whatever requests
\* overlap, are refused or die with the server: a commit on record for a subtask is of what
\* was its merge commit, two requests share a subtask only when it is disturbed, what a
\* branch held that is gone was decided, and target and decisions agree of every subtask
\* that is not disturbed and that no request is about to record (worktree_merge of vcs.py,
\* the review handlers of web/server.py, gc.cleanup).
THEOREM ReviewInvariantHolds == Spec => []ReviewInv
<1>1. Init => ReviewInv
  BY InitHolds
<1>2. ReviewInv /\ [Next]_vars => ReviewInv'
  BY StepHolds
<1> QED
  BY <1>1, <1>2, PTL DEF Spec

\* What is recorded and what git holds agree of every subtask no request is at, but for
\* changes that were another's merge commit too, and for subtasks two requests worked on
\* at once; and no branch is collected with work on it that was decided and never brought,
\* but what an accept passed over for another merge commit of its subtask.
THEOREM ReviewStaysSound == Spec => []ReviewSound
<1>1. ReviewInv => ReviewSound
  <2> SUFFICES ASSUME ReviewInv PROVE ReviewSound
    OBVIOUS
  <2>1. ASSUME NEW i \in Subtasks, Quiet(i)
        PROVE  Agrees(i)
    <3>1. ~Moving(i)
      BY <2>1 DEF Quiet, Moving, Moves, InFlight
    <3>2. i \in Subtasks \ disturbed
      BY <2>1 DEF Quiet
    <3> QED
      BY <3>1, <3>2 DEF ReviewInv, Agreed, AgreedOf
  <2>2. TargetMatchesDecisions
    BY <2>1 DEF TargetMatchesDecisions, Agrees
  <2>3. NoWorkLost
    BY DEF ReviewInv, GoneDecided, NoWorkLost
  <2> QED
    BY <2>2, <2>3 DEF ReviewInv, ReviewSound
<1> QED
  BY <1>1, ReviewInvariantHolds, PTL

\* Whatever leaves the target leaves it by the rollback of a subtask whose merge commit it
\* was, or of a disturbed one.
THEOREM RollbacksTakeOwn == Spec => RollbackTakesOwn
<1>1. ASSUME ReviewInv, [Next]_vars, NEW c \in onTarget \ onTarget'
      PROVE  \E r \in Requests : /\ req[r].op = "rollback"
                                 /\ \/ \E i \in req[r].subs : c \in recorded[i]
                                    \/ req[r].subs \subseteq disturbed
  <2>1. \A adds, removes : Commit(adds, removes) /\ c \notin removes => FALSE
    BY DEF Commit
  <2>2. \E r \in Requests : RollbackReverts(r)
    <3>1. \A r, op, subs, picks, commit : ~Starts(r, op, subs, picks, commit)
      BY DEF Starts, gitVars
    <3>2. onTarget' # onTarget
      OBVIOUS
    <3>3. \A r : /\ ~ReadsHead(r) /\ ~AcceptRecords(r) /\ ~RollbackRecords(r) /\ ~DeliverReads(r)
                 /\ ~DeliverRecords(r) /\ ~Refused(r) /\ ~GcRemoves(r)
      BY <3>2 DEF ReadsHead, AcceptRecords, RollbackRecords, DeliverReads, DeliverRecords, Refused, GcRemoves, gitVars
    <3>4. \A r : ~AcceptPicks(r) /\ ~DeliverMerges(r)
      BY <2>1, <3>2 DEF AcceptPicks, CherryPick, DeliverMerges, MergeBranch
    <3>5. ~RunEnds /\ ~ResumeRun /\ ~Crash
      BY <2>1, <3>2 DEF RunEnds, ResumeRun, Crash, MergeBranch, gitVars
    <3>6. \A j : ~Reject(j) /\ ~MergeConflicts(j) /\ ~MergesNothing(j) /\ ~MergesChange(j)
      BY <3>2 DEF Reject, MergeConflicts, MergesNothing, MergesChange, Merges, gitVars
    <3>7. ~UNCHANGED vars
      BY <3>2 DEF vars, gitVars
    <3>8. \A r : ~DeliverStarts(r) /\ ~GcReports(r) /\ \A j : ~AcceptStarts(r, j) /\ ~RollbackStarts(r, j)
      BY <3>1 DEF AcceptStarts, RollbackStarts, DeliverStarts, GcReports
    <3> QED
      BY <1>1, <3>3, <3>4, <3>5, <3>6, <3>7, <3>8 DEF Next
  <2>3. PICK r \in Requests : RollbackReverts(r)
    BY <2>2
  <2>4. /\ req[r].op = "rollback" /\ req[r].at = "git" /\ InFlight(r)
        /\ c \in log[req[r].commit].adds
    BY <2>1, <2>3 DEF RollbackReverts, Revert, InFlight
  <2>5. PICK k \in Subtasks : req[r].subs = {k}
    BY <1>1, <2>4 DEF ReviewInv, Shaped, Shape
  <2>6. IsOwn(log, recorded, disturbed, {k}, req[r].commit)
    BY <1>1, <2>4, <2>5 DEF ReviewInv, CommitsOwn, CommitsOf
  <2>7. c \in recorded[k] \/ k \in disturbed
    BY <2>4, <2>6 DEF IsOwn
  <2> QED
    BY <2>4, <2>5, <2>7
<1>2. ReviewInv /\ [Next]_vars =>
        [\A c \in onTarget \ onTarget' :
            \E r \in Requests :
                /\ req[r].op = "rollback"
                /\ \/ \E i \in req[r].subs : c \in recorded[i]
                   \/ req[r].subs \subseteq disturbed]_vars
  BY <1>1
<1> QED
  BY <1>2, ReviewInvariantHolds, PTL DEF Spec, RollbackTakesOwn
=============================================================================
