------------------------------- MODULE Console -------------------------------
(***************************************************************************)
(* The JSON stores the console edits: users (web/users.py), the users of   *)
(* runs, custom agents (agents/custom.py) and the settings overlay         *)
(* (config.py).  Their handlers run to the end on the event loop, so none  *)
(* meets another; but every save truncates its file and fills it, a crash  *)
(* in between leaves it cut, and a cut file reads as empty, which the next *)
(* save makes the truth.                                                   *)
(***************************************************************************)
EXTENDS Integers, FiniteSets

CONSTANTS
    Names,      \* users, agents, settings: the keys of every store
    MaxValue,   \* bound: values and tokens
    MaxCalls, MaxCrashes    \* bounds

VARIABLES
    file,       \* store -> "none", "torn" or "whole"
    content,    \* store -> name -> value, 0 when there is none
    saving,     \* the save under way on the loop, if any
    live,       \* app.state.base_settings: the overlay as last applied
    cookies,    \* sessions: the tokens browsers hold
    issued,     \* tokens given out, one after the other
    calls, crashes,
    \* history
    asked,      \* store -> name -> value, as the answered requests left it
    cut,        \* stores a crash cut
    revoked     \* tokens of deleted users

vars == <<file, content, saving, live, cookies, issued, calls, crashes, asked, cut, revoked>>

Stores == {"users", "runs", "agents", "settings"}
Contents == 1 .. MaxValue
Empty == [n \in Names |-> 0]
Nothing == [at |-> "nothing"]
(* The tolerant reads: a missing or unreadable file is an empty one.       *)
Loaded(s) == IF file[s] = "whole" THEN content[s] ELSE Empty

Init == /\ file = [s \in Stores |-> "none"] /\ content = [s \in Stores |-> Empty]
        /\ saving = Nothing /\ live = Empty /\ cookies = {} /\ issued = 0
        /\ calls = 0 /\ crashes = 0
        /\ asked = [s \in Stores |-> Empty] /\ cut = {} /\ revoked = {}

(* A request that changes one name of a store; 0 deletes it.               *)
Change(s, n, v) ==
    /\ saving = Nothing /\ calls < MaxCalls
    /\ calls' = calls + 1
    /\ file' = [file EXCEPT ![s] = "torn"]
    /\ saving' = [at |-> s, new |-> [Loaded(s) EXCEPT ![n] = v], name |-> n, value |-> v]

(* create_user refuses a name that is taken, and makes a new token.        *)
CreateUser(n) ==
    /\ Loaded("users")[n] = 0 /\ issued < MaxValue
    /\ Change("users", n, issued + 1)
    /\ issued' = issued + 1
    /\ UNCHANGED <<content, live, cookies, crashes, asked, cut, revoked>>

DeleteUser(n) ==
    /\ Loaded("users")[n] # 0
    /\ Change("users", n, 0)
    /\ UNCHANGED <<content, live, cookies, issued, crashes, asked, cut, revoked>>

(* _remember_run_user: whose run it is; runs are never forgotten.          *)
RememberRun(n, v) ==
    /\ Change("runs", n, v)
    /\ UNCHANGED <<content, live, cookies, issued, crashes, asked, cut, revoked>>

(* save_custom_agent updates by name, delete_custom_agent needs one there. *)
SaveAgent(n, v) ==
    /\ v = 0 => Loaded("agents")[n] # 0
    /\ Change("agents", n, v)
    /\ UNCHANGED <<content, live, cookies, issued, crashes, asked, cut, revoked>>

(* patch_global_settings and delete_global_setting: save_overrides merges  *)
(* the key into the overlay, or takes it out.                              *)
PatchSetting(n, v) ==
    /\ Change("settings", n, v)
    /\ UNCHANGED <<content, live, cookies, issued, crashes, asked, cut, revoked>>

(* apply_overrides: the overlay of the console over the environment.       *)
Applied(new, n) == new

(* The file is filled and the request answered.                            *)
Save ==
    /\ saving # Nothing
    /\ LET s == saving.at
           n == saving.name
       IN  /\ file' = [file EXCEPT ![s] = "whole"]
           /\ content' = [content EXCEPT ![s] = saving.new]
           /\ live' = IF s = "settings" THEN Applied(saving.new, n) ELSE live
           /\ asked' = [asked EXCEPT ![s][n] = saving.value]
           /\ revoked' = IF s = "users" /\ saving.value = 0
                         THEN revoked \cup {t \in Contents : t = asked[s][n]} ELSE revoked
    /\ saving' = Nothing
    /\ UNCHANGED <<cookies, issued, calls, crashes, cut>>

(* resolve_user: the name a token belongs to.                              *)
Resolved(t) == {n \in Names : t # 0 /\ Loaded("users")[n] = t}

(* login keeps the raw token in a cookie, and so every request resolves it *)
(* anew; logout drops it.                                                  *)
Login(t) ==
    /\ saving = Nothing /\ Resolved(t) # {}
    /\ cookies' = cookies \cup {t}
    /\ UNCHANGED <<file, content, saving, live, issued, calls, crashes, asked, cut, revoked>>

Logout(t) ==
    /\ saving = Nothing /\ t \in cookies
    /\ cookies' = cookies \ {t}
    /\ UNCHANGED <<file, content, saving, live, issued, calls, crashes, asked, cut, revoked>>

(* The server dies and starts again, applying the overlay it finds.        *)
Restart ==
    /\ crashes < MaxCrashes
    /\ crashes' = crashes + 1
    /\ cut' = IF saving = Nothing THEN cut ELSE cut \cup {saving.at}
    /\ saving' = Nothing
    /\ live' = Loaded("settings")
    /\ UNCHANGED <<file, content, cookies, issued, calls, asked, revoked>>

Next ==
    \/ \E n \in Names : \/ CreateUser(n) \/ DeleteUser(n)
                        \/ \E v \in Contents : RememberRun(n, v)
                        \/ \E v \in Contents \cup {0} : SaveAgent(n, v) \/ PatchSetting(n, v)
    \/ \E t \in Contents : Login(t) \/ Logout(t)
    \/ Save \/ Restart

(* Every answered request stands, unless a crash cut the store.            *)
AskedIsKept == \A s \in Stores \ cut :
    saving = Nothing \/ saving.at # s => Loaded(s) = asked[s]

(* What new runs get is what a restart would give them.                    *)
LiveIsOverlay == saving = Nothing => live = Loaded("settings")

(* A session ends with its user: a revoked token never resolves again, not *)
(* for a new user of the name, and not after any crash.                    *)
RevokedStaysOut == \A t \in revoked : Resolved(t) = {}

ConsoleSound == AskedIsKept /\ LiveIsOverlay /\ RevokedStaysOut

(* config.py:605 "existing keys are kept, given keys are updated": not     *)
(* once a crash has cut the file.                                          *)
NothingForgotten == \A n \in Names :
    saving = Nothing /\ file["settings"] = "whole" => content["settings"][n] = asked["settings"][n]
=============================================================================
