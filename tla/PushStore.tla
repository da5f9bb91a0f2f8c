------------------------------ MODULE PushStore ------------------------------
(***************************************************************************)
(* Web Push (web/push.py and its callers in web/server.py): the file of    *)
(* subscriptions is read and rewritten by the handlers, on the event loop, *)
(* and by the threads that send, which prune what the push service calls   *)
(* gone; the key pair is made by whichever thread first finds none.  Every *)
(* file is truncated and then filled, and read as empty in between.        *)
(***************************************************************************)
EXTENDS Integers, FiniteSets

CONSTANTS
    Threads,    \* threads that look up the key or send
    Browsers,   \* one endpoint each
    MaxCalls, MaxCrashes    \* bounds

VARIABLES
    file,       \* push_subscriptions.json: "none", "torn" or "whole"
    subs,       \* its subscriptions: an endpoint and the key it was made with
    keyFile, key,   \* vapid.json
    minted,     \* key pairs ever made
    handed,     \* public keys given to browsers
    op,         \* what the loop and each thread are doing
    calls, crashes,
    \* history
    members,    \* endpoints added and neither removed nor reported gone
    clash,      \* rewrites of the subscriptions met, or a crash cut one
    keyRace     \* two threads made the key pair at once

vars == <<file, subs, keyFile, key, minted, handed, op, calls, crashes, members,
          clash, keyRace>>

Loop == "loop"
Actors == Threads \cup {Loop}
Idle == [at |-> "idle"]
Listed == IF file = "whole" THEN subs ELSE {}
Endpoints(S) == {s.endpoint : s \in S}
Rewriting == {a \in Actors : op[a].at \in {"save", "fill"}}

Init == /\ file = "none" /\ subs = {} /\ keyFile = "none" /\ key = 0 /\ minted = 0
        /\ handed = {} /\ op = [a \in Actors |-> Idle]
        /\ calls = 0 /\ crashes = 0
        /\ members = {} /\ clash = FALSE /\ keyRace = FALSE

(* A rewrite: the list it read, and what is to become of it.               *)
Save(a, S, M, then) ==
    /\ op' = [op EXCEPT ![a] = [at |-> "save", subs |-> S, members |-> M, then |-> then]]
    /\ clash' = (clash \/ Rewriting # {})

(* add_subscription, once per endpoint, with a key the browser was given.  *)
Subscribe(e) ==
    /\ op[Loop] = Idle /\ calls < MaxCalls
    /\ \E k \in handed :
          Save(Loop, {s \in Listed : s.endpoint # e} \cup {[endpoint |-> e, key |-> k]},
               {e}, Idle)
    /\ calls' = calls + 1
    /\ UNCHANGED <<file, subs, keyFile, key, minted, handed, crashes, members, keyRace>>

(* Mutant: the list a send went through is written back without the one.   *)
MutantBase(a) == IF op[a].at = "prune" THEN op[a].listed ELSE Listed
Base(a) == Listed

(* remove_subscription rewrites the file only when there is one to drop;   *)
(* it sees none while another is writing.                                  *)
Remove(a, e, then) ==
    /\ IF e \in Endpoints(Base(a))
       THEN Save(a, {s \in Base(a) : s.endpoint # e}, {}, then)
       ELSE op' = [op EXCEPT ![a] = then] /\ clash' = (clash \/ Rewriting # {})
    /\ members' = members \ {e}
    /\ UNCHANGED <<file, subs, keyFile, key, minted, handed, crashes, keyRace>>

Unsubscribe(e) == /\ op[Loop] = Idle /\ calls < MaxCalls
                  /\ Remove(Loop, e, Idle)
                  /\ calls' = calls + 1

Truncate(a) ==
    /\ op[a].at = "save"
    /\ file' = "torn"
    /\ op' = [op EXCEPT ![a].at = "fill"]
    /\ UNCHANGED <<subs, keyFile, key, minted, handed, calls, crashes, members, clash, keyRace>>

(* Of two writers on one file the shorter may leave the end of the other's *)
(* text behind its own.                                                    *)
Fill(a) ==
    /\ op[a].at = "fill"
    /\ file' \in IF clash THEN {"whole", "torn"} ELSE {"whole"}
    /\ subs' = IF file' = "whole" THEN op[a].subs ELSE {}
    /\ members' = members \cup op[a].members
    /\ op' = [op EXCEPT ![a] = @.then]
    /\ UNCHANGED <<keyFile, key, minted, handed, calls, crashes, clash, keyRace>>

(* ensure_vapid_keys, for push_status or before a send: the pair on file,  *)
(* or a new one.                                                           *)
NeedKey(t, goal) ==
    /\ op[t] = Idle /\ calls < MaxCalls
    /\ goal = "send" => Listed # {}
    /\ calls' = calls + 1
    /\ IF keyFile = "whole"
       THEN /\ op' = [op EXCEPT ![t] = [at |-> "key", goal |-> goal, key |-> key]]
            /\ UNCHANGED <<minted, keyRace>>
       ELSE /\ minted' = minted + 1
            /\ op' = [op EXCEPT ![t] = [at |-> "mint", goal |-> goal, key |-> minted + 1]]
            /\ keyRace' = (keyRace \/ \E a \in Threads : op[a].at \in {"mint", "keep"})
    /\ UNCHANGED <<file, subs, keyFile, key, handed, crashes, members, clash>>

StoreKey(t) ==
    \/ /\ op[t].at = "mint"
       /\ keyFile' = "torn" /\ op' = [op EXCEPT ![t].at = "keep"]
       /\ UNCHANGED <<file, subs, key, minted, handed, calls, crashes, members, clash, keyRace>>
    \/ /\ op[t].at = "keep"
       /\ keyFile' = "whole" /\ key' = op[t].key
       /\ op' = [op EXCEPT ![t].at = "key"]
       /\ UNCHANGED <<file, subs, minted, handed, calls, crashes, members, clash, keyRace>>

(* The status call hands the public key out; a send lists who to send to.  *)
HaveKey(t) ==
    /\ op[t].at = "key"
    /\ IF op[t].goal = "status"
       THEN handed' = handed \cup {op[t].key} /\ op' = [op EXCEPT ![t] = Idle]
       ELSE /\ op' = [op EXCEPT ![t] = [at |-> "send", key |-> @.key, listed |-> Listed,
                                        todo |-> Listed, gone |-> {}]]
            /\ UNCHANGED handed
    /\ UNCHANGED <<file, subs, keyFile, key, minted, calls, crashes, members, clash, keyRace>>

(* One push: delivered, failed (as it is whenever the key is not the one   *)
(* the subscription was made with), or the service says it is gone.        *)
Push(t) ==
    /\ op[t].at = "send"
    /\ \E s \in op[t].todo :
          \/ op' = [op EXCEPT ![t].todo = @ \ {s}]
          \/ op' = [op EXCEPT ![t].todo = @ \ {s}, ![t].gone = @ \cup {s.endpoint}]
    /\ UNCHANGED <<file, subs, keyFile, key, minted, handed, calls, crashes, members,
                   clash, keyRace>>

(* Then the gone ones are removed, each by a rewrite of its own.           *)
Pruning(t) ==
    /\ op[t].at = "send" /\ op[t].todo = {}
    /\ op' = [op EXCEPT ![t] = [at |-> "prune", listed |-> @.listed, gone |-> @.gone]]
    /\ UNCHANGED <<file, subs, keyFile, key, minted, handed, calls, crashes, members,
                   clash, keyRace>>

Prune(t) ==
    /\ op[t].at = "prune"
    /\ IF op[t].gone = {}
       THEN /\ op' = [op EXCEPT ![t] = Idle]
            /\ UNCHANGED <<file, subs, keyFile, key, minted, handed, crashes, members,
                           clash, keyRace>>
       ELSE \E e \in op[t].gone : Remove(t, e, [op[t] EXCEPT !.gone = @ \ {e}])
    /\ UNCHANGED calls

(* The server dies; a file being written stays cut.                        *)
Crash ==
    /\ crashes < MaxCrashes
    /\ crashes' = crashes + 1
    /\ clash' = (clash \/ Rewriting # {})
    /\ op' = [a \in Actors |-> Idle]
    /\ UNCHANGED <<file, subs, keyFile, key, minted, handed, calls, members, keyRace>>

Next ==
    \/ \E e \in Browsers : Subscribe(e) \/ Unsubscribe(e)
    \/ \E a \in Actors : Truncate(a) \/ Fill(a)
    \/ \E t \in Threads : \/ NeedKey(t, "status") \/ NeedKey(t, "send")
                          \/ StoreKey(t) \/ HaveKey(t) \/ Push(t) \/ Pruning(t) \/ Prune(t)
    \/ Crash

(* Whoever subscribed is on file, and whoever left or is gone is not,      *)
(* unless two rewrites met or a crash cut one.                             *)
SubscribersKept == ~clash /\ Rewriting = {} => Endpoints(Listed) = members

(* Pushes are signed with the key the subscriptions were made with, unless *)
(* two threads made the pair at once; a crash does not change it.          *)
KeysAgree == ~keyRace /\ keyFile = "whole" => \A s \in subs : s.key = key

PushSound == SubscribersKept /\ KeysAgree

(* web/push.py:11 "auto-generated once": a second pair may replace the one *)
(* a browser has already been given.                                       *)
MintedOnce == keyFile = "whole" => \A k \in handed : k = key
=============================================================================
