----------------------------- MODULE WSHandler -----------------------------
(***************************************************************************)
(* The market-data connection of market_data/upstox_ws_handler.cpp: the    *)
(* chain of asynchronous steps from /authorize to the read loop, the       *)
(* reconnect timer with its back-off, the subscription that is sent on     *)
(* every connection, and stop(), which the main thread runs step by step   *)
(* beside the IO thread.                                                   *)
(*                                                                         *)
(* At most one step of the chain is under way, `op'.  It is either an      *)
(* asynchronous operation whose handler the IO thread will run, or code    *)
(* that is running now (Running below).  The handlers of one io_context    *)
(* run one after the other, and none begins after ioc.stop().              *)
(***************************************************************************)
EXTENDS Naturals

CONSTANT MAX_RECONNECT_DELAY

ASSUME DelayAssumption == MAX_RECONNECT_DELAY \in Nat \ {0}

VARIABLES
  op,          \* the step of the connection's chain
  timer,       \* reconnect_timer_: "off", "armed", or "expired": its handler is queued
  ws,          \* ws_ # nullptr
  connected,   \* connected_
  stop,        \* stop_
  delay,       \* reconnect_delay_s_
  wanted,      \* subscribed_keys_ is not empty
  subscription, \* the last async_write of the subscription on this connection
  closing,     \* how far the main thread is in stop()
  ioc,         \* "running" or "stopped"
  attempts     \* ghost: calls of do_reconnect since stop_ was set

wsVars == <<op, timer, ws, connected, stop, delay, wanted, subscription, closing,
            ioc, attempts>>

Running == {"authorize", "lost", "failed", "arming"}
OnStream == {"connect", "tls", "upgrade", "read"}
Chain == {"none", "resolve"} \cup Running \cup OnStream

\* After subscribe() and with start()'s do_authorize under way, which runs on the
\* main thread; subscribe() was called before it and found no connection.
WSInit ==
  /\ op = "authorize"
  /\ timer = "off"
  /\ ws = FALSE /\ connected = FALSE /\ stop = FALSE
  /\ delay = 1
  /\ wanted = TRUE
  /\ subscription = "none"
  /\ closing = "out"
  /\ ioc = "running"
  /\ attempts = 0

\* The IO thread can begin a handler.
HandlerRuns == ioc = "running" /\ op \notin Running

-----------------------------------------------------------------------------
(* The chain.  Every failure ends in schedule_reconnect, op = "failed".      *)

\* do_authorize: fetch_ws_url is a blocking request; it throws, or returns no URL
\* or one that does not parse, or the name is looked up.
Authorize ==
  /\ op = "authorize"
  /\ op' \in {"resolve", "failed"}
  /\ UNCHANGED <<timer, ws, connected, stop, delay, wanted, subscription, closing,
                 ioc, attempts>>

\* do_connect makes the stream.
Resolved ==
  /\ HandlerRuns /\ op = "resolve"
  /\ \/ op' = "connect" /\ ws' = TRUE
     \/ op' = "failed" /\ UNCHANGED ws
  /\ UNCHANGED <<timer, connected, stop, delay, wanted, subscription, closing, ioc,
                 attempts>>

Connected ==
  /\ HandlerRuns /\ op = "connect"
  /\ op' \in {"tls", "failed"}
  /\ UNCHANGED <<timer, ws, connected, stop, delay, wanted, subscription, closing,
                 ioc, attempts>>

Secured ==
  /\ HandlerRuns /\ op = "tls"
  /\ op' \in {"upgrade", "failed"}
  /\ UNCHANGED <<timer, ws, connected, stop, delay, wanted, subscription, closing,
                 ioc, attempts>>

UpgradeFailed ==
  /\ HandlerRuns /\ op = "upgrade"
  /\ op' = "failed"
  /\ UNCHANGED <<timer, ws, connected, stop, delay, wanted, subscription, closing,
                 ioc, attempts>>

\* The back-off is reset, the subscription sent and the read loop begins; stop_ is
\* not looked at.
Upgraded ==
  /\ HandlerRuns /\ op = "upgrade"
  /\ op' = "read"
  /\ connected' = TRUE
  /\ delay' = 1
  /\ subscription' = IF wanted THEN "pending" ELSE "none"
  /\ UNCHANGED <<timer, ws, stop, wanted, closing, ioc, attempts>>

\* The write of do_send_subscription: an error is only logged, and what is sent is
\* read from a string that is gone when do_send_subscription returns, so that the
\* server may get something else ("lost" too).
Subscribed ==
  /\ HandlerRuns /\ subscription = "pending"
  /\ subscription' \in {"sent", "lost"}
  /\ UNCHANGED <<op, timer, ws, connected, stop, delay, wanted, closing, ioc, attempts>>

\* do_read's handler.  A frame goes to on_frame (module MarketData) and the next read
\* begins, which changes nothing here.  With stop_ set the handler returns, whatever
\* the result, which may be that of stop()'s close(); else an error ends the loop.
ReadStops ==
  /\ HandlerRuns /\ op = "read"
  /\ stop
  /\ op' = "none"
  /\ UNCHANGED <<timer, ws, connected, stop, delay, wanted, subscription, closing,
                 ioc, attempts>>

ReadFails ==
  /\ HandlerRuns /\ op = "read"
  /\ ~ stop
  /\ op' = "lost"
  /\ UNCHANGED <<timer, ws, connected, stop, delay, wanted, subscription, closing,
                 ioc, attempts>>

Lost ==
  /\ op = "lost"
  /\ op' = "failed"
  /\ connected' = FALSE
  /\ UNCHANGED <<timer, ws, stop, delay, wanted, subscription, closing, ioc, attempts>>

-----------------------------------------------------------------------------
(* schedule_reconnect and do_reconnect *)

\* mutant: the flag is not looked at
ScheduleAlways ==
  /\ op = "failed"
  /\ op' = "arming" /\ connected' = FALSE
  /\ UNCHANGED <<timer, ws, stop, delay, wanted, subscription, closing, ioc, attempts>>

Schedule ==
  /\ op = "failed"
  /\ IF stop THEN op' = "none" /\ UNCHANGED connected
             ELSE op' = "arming" /\ connected' = FALSE
  /\ UNCHANGED <<timer, ws, stop, delay, wanted, subscription, closing, ioc, attempts>>

\* mutant: no further attempt once the back-off has reached its maximum
ArmUpToMaximum ==
  /\ op = "arming"
  /\ op' = "none"
  /\ timer' = IF delay < MAX_RECONNECT_DELAY THEN "armed" ELSE timer
  /\ delay' = IF 2 * delay < MAX_RECONNECT_DELAY THEN 2 * delay ELSE MAX_RECONNECT_DELAY
  /\ UNCHANGED <<ws, connected, stop, wanted, subscription, closing, ioc, attempts>>

Arm ==
  /\ op = "arming"
  /\ op' = "none"
  /\ timer' = "armed"
  /\ delay' = IF 2 * delay < MAX_RECONNECT_DELAY THEN 2 * delay ELSE MAX_RECONNECT_DELAY
  /\ UNCHANGED <<ws, connected, stop, wanted, subscription, closing, ioc, attempts>>

\* From now on cancel() no longer reaches the handler.
TimerExpires ==
  /\ timer = "armed"
  /\ timer' = "expired"
  /\ UNCHANGED <<op, ws, connected, stop, delay, wanted, subscription, closing, ioc,
                 attempts>>

\* do_reconnect: ws_.reset(), which also ends what was under way on the stream,
\* and do_authorize; stop_ is not looked at
Reconnect ==
  /\ HandlerRuns /\ timer = "expired"
  /\ timer' = "off"
  /\ ws' = FALSE
  /\ subscription' = "none"
  /\ op' = "authorize"
  /\ attempts' = IF stop THEN attempts + 1 ELSE attempts
  /\ UNCHANGED <<connected, stop, delay, wanted, closing, ioc>>

-----------------------------------------------------------------------------
(* stop(), on the main thread, and main's ioc.stop() *)

StopFlag ==
  /\ closing = "out"
  /\ closing' = "flagged"
  /\ stop' = TRUE
  /\ UNCHANGED <<op, timer, ws, connected, delay, wanted, subscription, ioc, attempts>>

StopTimer ==
  /\ closing = "flagged"
  /\ closing' = "cancelled"
  /\ timer' = IF timer = "armed" THEN "off" ELSE timer
  /\ UNCHANGED <<op, ws, connected, stop, delay, wanted, subscription, ioc, attempts>>

\* if (ws_ && is_connected()) ws_->close(...)
StopClose ==
  /\ closing = "cancelled"
  /\ closing' = IF ws /\ connected THEN "close" ELSE "done"
  /\ UNCHANGED <<op, timer, ws, connected, stop, delay, wanted, subscription, ioc,
                 attempts>>

\* close() is a blocking call; connected_ stays as it is.
Closed ==
  /\ closing = "close"
  /\ closing' = "done"
  /\ UNCHANGED <<op, timer, ws, connected, stop, delay, wanted, subscription, ioc,
                 attempts>>

IocStop ==
  /\ closing = "done" /\ ioc = "running"
  /\ ioc' = "stopped"
  /\ UNCHANGED <<op, timer, ws, connected, stop, delay, wanted, subscription, closing,
                 attempts>>

\* unsubscribe(keys) of all keys; the server is not told.  It has no caller.
Unsubscribe ==
  /\ closing = "out" /\ wanted
  /\ wanted' = FALSE
  /\ UNCHANGED <<op, timer, ws, connected, stop, delay, subscription, closing, ioc,
                 attempts>>

-----------------------------------------------------------------------------
\* What the IO thread is bound to do, main's part of start() included
IO ==
  \/ Authorize \/ Resolved \/ Connected \/ Secured \/ UpgradeFailed \/ Upgraded
  \/ Subscribed \/ ReadStops \/ Lost \/ Schedule \/ Arm \/ Reconnect

StopCall == StopFlag \/ StopTimer \/ StopClose \/ Closed

WSNext == IO \/ ReadFails \/ TimerExpires \/ StopCall \/ IocStop \/ Unsubscribe

\* The IO thread runs what is ready, time passes, and every step of connecting ends
\* sooner or later, well or not (the code sets no time limit of its own).  A
\* connection need never break, and nobody need ever call stop().
WSFairness ==
  /\ WF_wsVars(IO)
  /\ WF_wsVars(TimerExpires)

WSSpec == WSInit /\ [][WSNext]_wsVars /\ WSFairness

-----------------------------------------------------------------------------
\* Every variable has the type of the member it stands for.
WSTypeOK ==
  /\ op \in Chain
  /\ timer \in {"off", "armed", "expired"}
  /\ ws \in BOOLEAN /\ connected \in BOOLEAN /\ stop \in BOOLEAN /\ wanted \in BOOLEAN
  /\ delay \in 1 .. MAX_RECONNECT_DELAY
  /\ subscription \in {"none", "pending", "sent", "lost"}
  /\ closing \in {"out", "flagged", "cancelled", "close", "done"}
  /\ ioc \in {"running", "stopped"}
  /\ attempts \in Nat

\* do_reconnect destroys the stream without asking who uses it.  Still nobody ever
\* loses the stream it works on: no reconnect is due while an operation of the chain
\* is under way (so there are never two chains either), and the main thread inside
\* close() keeps its stream, although it tested ws_ and connected_ before.
StreamKept ==
  /\ timer # "off" => op = "none" /\ ~ connected
  /\ op \in OnStream => ws
  /\ closing = "close" => ws

\* stop() cannot take back a timer whose handler is queued, nor one that is armed
\* after its cancel(): a reconnect may still begin after it, but no more than one.
OneAttemptAfterStop == attempts <= 1
=============================================================================
