----------------------------- MODULE Admission -----------------------------
(***************************************************************************)
(* When a strategy may send an order at all: the kill switch, the market's *)
(* hours and the rate limit, which are checks 1 to 4 of                    *)
(* PreTradeRiskEngine::check, around the rest of submit_order.  A strategy *)
(* may be in submit_order on several threads at once: its own (on_tick),   *)
(* the normalizer's (on_candle) and the main thread (on_stop).  Each load, *)
(* and the critical section of rl_mtx_ in which try_consume runs, is a     *)
(* step of its own.  The limits that come after them, module Exposure, may *)
(* answer anything here.                                                   *)
(*                                                                         *)
(* Time is counted in minutes.  The steady clock is `now'; the system      *)
(* clock shows minute (StartMinute + now) of the UTC week, Sunday 00:00    *)
(* being minute 0.                                                         *)
(***************************************************************************)
EXTENDS Integers

CONSTANTS
  Strategies,
  Callers,       \* threads that call into a strategy
  max_rate,      \* what accrues in a bucket per minute, in parts of a token
  burst,         \* tokens a full bucket holds
  Unit,          \* parts of a token
  StartMinute,   \* minute of the week the engine starts at
  MaxTime        \* bound: minutes

ASSUME BucketAssumption ==
  max_rate \in Nat /\ burst \in Nat /\ Unit \in Nat \ {0}
ASSUME ClockAssumption == StartMinute \in Nat /\ MaxTime \in Nat

VARIABLES
  global_kill_switch,
  now,
  tokens,        \* per strategy: tokens_, in parts
  last_refill,   \* per strategy: last_refill_ns_
  gate,          \* per call: the step of submit_order it is at
  window,        \* ghost: a moment in the past ...
  consumed,      \* ghost: ... and the tokens each strategy took since then
  inside,        \* ghost: the calls under way when the switch was engaged
  admitted       \* ghost: orders of each call since the switch was engaged

admissionVars == <<global_kill_switch, now, tokens, last_refill, gate, window,
                   consumed, inside, admitted>>

\* c = <<strategy, thread>>: a thread is in at most one submit_order of a strategy.
Calls == Strategies \X Callers

AdmissionInit ==
  /\ global_kill_switch = FALSE
  /\ now = 0
  /\ tokens = [s \in Strategies |-> burst * Unit]
  /\ last_refill = [s \in Strategies |-> 0]
  /\ gate = [c \in Calls |-> "out"]
  /\ window = 0
  /\ consumed = [s \in Strategies |-> 0]
  /\ inside = {}
  /\ admitted = [c \in Calls |-> 0]

-----------------------------------------------------------------------------
(* MarketHours::is_open *)

wday(minute) == (minute \div 1440) % 7
tm_hour(minute) == (minute % 1440) \div 60
tm_min(minute) == minute % 60

\* Five hours and thirty minutes are added field by field.  The carry from the
\* minutes is tested after they were reduced modulo 60, so it is never taken,
\* and the weekday is that of UTC.
is_open(minute) ==
  LET h    == (tm_hour(minute) + 5) % 24
      m    == (tm_min(minute) + 30) % 60
      hhmm == h * 100 + m
  IN wday(minute) \notin {0, 6} /\ 915 <= hhmm /\ hhmm < 1530

Minute == StartMinute + now

-----------------------------------------------------------------------------
(* submit_order, call c *)

\* mutant: the answer of the kill switch is dropped
CheckKillIgnored(c) ==
  /\ gate[c] = "out"
  /\ gate' = [gate EXCEPT ![c] = "hours"]
  /\ UNCHANGED <<global_kill_switch, now, tokens, last_refill, window, consumed,
                 inside, admitted>>

\* Checks 1 and 2.  halted_strategies_ is always empty: engage_strategy_kill is
\* declared and not defined, and nothing else adds to the set.
CheckKill(c) ==
  /\ gate[c] = "out"
  /\ ~ global_kill_switch
  /\ gate' = [gate EXCEPT ![c] = "hours"]
  /\ UNCHANGED <<global_kill_switch, now, tokens, last_refill, window, consumed,
                 inside, admitted>>

\* Check 3
CheckHours(c) ==
  /\ gate[c] = "hours"
  /\ gate' = [gate EXCEPT ![c] = IF is_open(Minute) THEN "rate" ELSE "out"]
  /\ UNCHANGED <<global_kill_switch, now, tokens, last_refill, window, consumed,
                 inside, admitted>>

\* The bucket after the refill of try_consume
Refilled(s) ==
  LET new_tokens == tokens[s] + (now - last_refill[s]) * max_rate
  IN IF new_tokens < burst * Unit THEN new_tokens ELSE burst * Unit

\* mutant: last_refill_ns_ is only stored when a token is taken
TryConsumeKeepsStamp(c) ==
  LET s == c[1]
  IN /\ gate[c] = "rate"
     /\ IF Refilled(s) >= Unit
          THEN /\ tokens' = [tokens EXCEPT ![s] = Refilled(s) - Unit]
               /\ consumed' = [consumed EXCEPT ![s] = @ + 1]
               /\ gate' = [gate EXCEPT ![c] = "submit"]
               /\ last_refill' = [last_refill EXCEPT ![s] = now]
          ELSE /\ tokens' = [tokens EXCEPT ![s] = Refilled(s)]
               /\ gate' = [gate EXCEPT ![c] = "out"]
               /\ UNCHANGED <<consumed, last_refill>>
     /\ UNCHANGED <<global_kill_switch, now, window, inside, admitted>>

\* Check 4: try_consume under rl_mtx_, so that its loads and stores are one step
TryConsume(c) ==
  LET s == c[1]
  IN /\ gate[c] = "rate"
     /\ last_refill' = [last_refill EXCEPT ![s] = now]
     /\ IF Refilled(s) >= Unit
          THEN /\ tokens' = [tokens EXCEPT ![s] = Refilled(s) - Unit]
               /\ consumed' = [consumed EXCEPT ![s] = @ + 1]
               /\ gate' = [gate EXCEPT ![c] = "submit"]
          ELSE /\ tokens' = [tokens EXCEPT ![s] = Refilled(s)]
               /\ gate' = [gate EXCEPT ![c] = "out"]
               /\ UNCHANGED consumed
     /\ UNCHANGED <<global_kill_switch, now, window, inside, admitted>>

\* The remaining checks pass and oms_.submit is called ...
SubmitOrder(c) ==
  /\ gate[c] = "submit"
  /\ gate' = [gate EXCEPT ![c] = "out"]
  /\ admitted' = [admitted EXCEPT ![c] = IF global_kill_switch THEN @ + 1 ELSE @]
  /\ UNCHANGED <<global_kill_switch, now, tokens, last_refill, window, consumed,
                 inside>>

\* ... or one of them rejects the order; the token is gone.
RejectOrder(c) ==
  /\ gate[c] = "submit"
  /\ gate' = [gate EXCEPT ![c] = "out"]
  /\ UNCHANGED <<global_kill_switch, now, tokens, last_refill, window, consumed,
                 inside, admitted>>

-----------------------------------------------------------------------------
EngageGlobalKillSwitch ==
  /\ ~ global_kill_switch
  /\ global_kill_switch' = TRUE
  /\ inside' = {c \in Calls : gate[c] # "out"}
  /\ admitted' = [c \in Calls |-> 0]
  /\ UNCHANGED <<now, tokens, last_refill, gate, window, consumed>>

DisengageGlobalKillSwitch ==
  /\ global_kill_switch
  /\ global_kill_switch' = FALSE
  /\ inside' = {}
  /\ admitted' = [c \in Calls |-> 0]
  /\ UNCHANGED <<now, tokens, last_refill, gate, window, consumed>>

Clock ==
  /\ now < MaxTime
  /\ now' = now + 1
  /\ UNCHANGED <<global_kill_switch, tokens, last_refill, gate, window, consumed,
                 inside, admitted>>

\* Not a step of the program: from here on, tokens are counted anew.
OpenWindow ==
  /\ window' = now
  /\ consumed' = [s \in Strategies |-> 0]
  /\ UNCHANGED <<global_kill_switch, now, tokens, last_refill, gate, inside,
                 admitted>>

AdmissionNext ==
  \/ \E c \in Calls :
       \/ CheckKill(c) \/ CheckHours(c) \/ TryConsume(c)
       \/ SubmitOrder(c) \/ RejectOrder(c)
  \/ EngageGlobalKillSwitch \/ DisengageGlobalKillSwitch
  \/ Clock \/ OpenWindow

AdmissionSpec == AdmissionInit /\ [][AdmissionNext]_admissionVars

-----------------------------------------------------------------------------
\* Every variable has the type of the member it stands for; a bucket never holds
\* more than burst tokens, and no time stamp is in the future.
AdmissionTypeOK ==
  /\ global_kill_switch \in BOOLEAN
  /\ now \in Nat
  /\ tokens \in [Strategies -> 0 .. burst * Unit]
  /\ last_refill \in [Strategies -> 0 .. now]
  /\ gate \in [Calls -> {"out", "hours", "rate", "submit"}]
  /\ window \in 0 .. now
  /\ consumed \in [Strategies -> Nat]
  /\ inside \subseteq Calls
  /\ admitted \in [Calls -> Nat]

\* Whatever the moments of its calls, a strategy takes no more tokens in a window
\* of time than a full bucket holds and accrues in the window: idle time is not
\* saved up beyond burst, and no stretch of time refills the bucket twice.
RateBound ==
  \A s \in Strategies :
    consumed[s] * Unit <= burst * Unit + (now - window) * max_rate

\* The kill switch stops the flow although check reads it once, at its beginning:
\* after it is engaged only the calls that were in submit_order at that moment, on
\* whatever thread, get an order through, and each of them one.
KillSwitchBounds ==
  \A c \in Calls : admitted[c] <= IF c \in inside THEN 1 ELSE 0

\* The India time of a minute of the UTC week, and the hours the market is said
\* to be open: 09:15 to 15:30, Monday to Friday
ist(minute) == minute + 330
hhmm_ist(minute) == tm_hour(ist(minute)) * 100 + tm_min(ist(minute))
StatedOpen(minute) ==
  wday(ist(minute)) \in 1 .. 5 /\ 915 <= hhmm_ist(minute) /\ hhmm_ist(minute) < 1530

\* The gate of check 3 is open in the hours MarketHours is said to keep.
HoursAsStated == is_open(Minute) = StatedOpen(Minute)
=============================================================================
