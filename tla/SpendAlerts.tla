----------------------------- MODULE SpendAlerts -----------------------------
(***************************************************************************)
(* Budget alerts: the tick of web/server.py, analytics.check_spend_alerts  *)
(* and the channels of notify.py.  The thresholds that fired this month    *)
(* are written to a file before the first message about them goes out; the *)
(* file is truncated and filled, and one cut by a crash reads as empty.    *)
(* The spend is the level it reached: the number of thresholds it crosses. *)
(* A cap of 0 turns the tick off; it is positive here.                     *)
(***************************************************************************)
EXTENDS Integers, FiniteSets

CONSTANTS
    Levels,     \* the number of thresholds
    Channels,   \* the configured channels, Web Push among them
    MaxMonth, MaxTicks, MaxCrashes      \* bounds

VARIABLES
    month, spend,
    file,       \* spend_alerts.json: "none", "torn" or "whole"
    state,      \* the month it is about, and what fired in it
    tick,       \* where the tick is
    ticks, crashes,
    \* history
    told,       \* month -> threshold -> channel: how often it was tried
    reset,      \* months whose file a crash cut
    missed      \* alerts a crash came before the end of

vars == <<month, spend, file, state, tick, ticks, crashes, told, reset, missed>>

Thresholds == 1 .. Levels
Months == 1 .. MaxMonth
Idle == [at |-> "idle"]

Init == /\ month = 1 /\ spend = 0
        /\ file = "none" /\ state = [month |-> 0, fired |-> {}]
        /\ tick = Idle /\ ticks = 0 /\ crashes = 0
        /\ told = [m \in Months |-> [th \in Thresholds |-> [c \in Channels |-> 0]]]
        /\ reset = {} /\ missed = {}

(* Runs are paid for, or leave the 30-day window, which ignores the month. *)
Spend ==
    /\ spend' \in 0 .. Levels /\ spend' \in {spend - 1, spend + 1}
    /\ UNCHANGED <<month, file, state, tick, ticks, crashes, told, reset, missed>>

Month ==
    /\ month < MaxMonth /\ month' = month + 1
    /\ UNCHANGED <<spend, file, state, tick, ticks, crashes, told, reset, missed>>

Fired(s, m) == IF s.month = m THEN s.fired ELSE {}

(* check_spend_alerts: the thresholds newly crossed; the file is rewritten *)
(* when there are any, or for a new month.                                 *)
Check ==
    /\ tick = Idle /\ ticks < MaxTicks
    /\ ticks' = ticks + 1
    /\ LET known == IF file = "whole" THEN state ELSE [month |-> 0, fired |-> {}]
           old == Fired(known, month)
           new == {th \in Thresholds : th <= spend} \ old
       IN  IF new # {} \/ known.month # month
           THEN /\ file' = "torn"
                /\ tick' = [at |-> "save", month |-> month, fired |-> old \cup new,
                            alerts |-> new]
           ELSE UNCHANGED <<file, tick>>
    /\ UNCHANGED <<month, spend, state, crashes, told, reset, missed>>

Fill ==
    /\ tick.at = "save"
    /\ file' = "whole"
    /\ state' = [month |-> tick.month, fired |-> tick.fired]
    /\ tick' = [at |-> "send", month |-> tick.month, alerts |-> tick.alerts, left |-> Channels]
    /\ UNCHANGED <<month, spend, ticks, crashes, told, reset, missed>>

(* notify_event and the push: the alerts in the order of their thresholds, *)
(* every channel for each, whatever became of the one before.              *)
Tell ==
    /\ tick.at = "send" /\ tick.alerts # {}
    /\ \E th \in tick.alerts, c \in tick.left :
          /\ \A x \in tick.alerts : th <= x
          /\ told' = [told EXCEPT ![tick.month][th][c] = @ + 1]
          /\ tick' = IF tick.left = {c}
                     THEN [tick EXCEPT !.alerts = @ \ {th}, !.left = Channels]
                     ELSE [tick EXCEPT !.left = @ \ {c}]
    /\ UNCHANGED <<month, spend, file, state, ticks, crashes, reset, missed>>

Done ==
    /\ tick.at = "send" /\ tick.alerts = {}
    /\ tick' = Idle
    /\ UNCHANGED <<month, spend, file, state, ticks, crashes, told, reset, missed>>

Crash ==
    /\ tick # Idle /\ crashes < MaxCrashes
    /\ crashes' = crashes + 1
    /\ reset' = IF tick.at = "save" THEN reset \cup {tick.month} ELSE reset
    /\ missed' = missed \cup {<<tick.month, th>> : th \in tick.alerts}
    /\ tick' = Idle
    /\ UNCHANGED <<month, spend, file, state, ticks, told>>

Next == Spend \/ Month \/ Check \/ Fill \/ Tell \/ Done \/ Crash

(* A threshold is told at most once a month on a channel, unless a crash   *)
(* cut the file that remembers it, however the spend moves and whatever    *)
(* fails.                                                                  *)
OncePerMonth == \A m \in Months \ reset, th \in Thresholds, c \in Channels :
    told[m][th][c] <= 1

(* What the file says has fired was told on every channel, unless the tick *)
(* is still at it or a crash came between.                                 *)
FiredIsTold == \A th \in Thresholds :
    file = "whole" /\ tick.at # "send" /\ th \in state.fired
    /\ <<state.month, th>> \notin missed => \A c \in Channels : told[state.month][th][c] >= 1

AlertsSound == OncePerMonth /\ FiredIsTold

(* analytics.py:311 "a threshold alerts at most once per month": not after *)
(* a crash cut the file.                                                   *)
NeverTwice == \A m \in Months, th \in Thresholds, c \in Channels : told[m][th][c] <= 1
=============================================================================
