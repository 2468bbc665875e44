---------------------------- MODULE RedisClient ----------------------------
(***************************************************************************)
(* transport/redis_client.cpp over hiredis (external).  A write appends a  *)
(* command to the connection's buffer under mtx_; flush sends the buffer,  *)
(* reads the replies and goes on reading until an error ends it: when all  *)
(* replies are in, that is the time-out of one second.  So every flush     *)
(* reconnects.  ctx_ is tested before mtx_ is locked and used after.       *)
(***************************************************************************)
EXTENDS Naturals, Sequences

CONSTANTS
  RedisUsers,   \* threads
  NoThread

ASSUME UsersAssumption == NoThread \notin RedisUsers

VARIABLES
  ctx,        \* ctx_: "up" or "null"
  mtx,        \* the holder of mtx_
  redis_pc,   \* per thread: where it is in a call
  pending,    \* per thread: the command it is about to append
  pipeline,   \* commands in the buffer of ctx_
  stored,     \* per kind of command, the newest value Redis holds
  refused,    \* ghost: a reconnect of flush has failed
  crashed     \* a null context was used: the process is gone

redisVars == <<ctx, mtx, redis_pc, pending, pipeline, stored, refused, crashed>>

\* A command is [kind, value]; values count up.
Kinds == {"position", "tick"}
NoCommand == [kind |-> "position", value |-> 0]

\* The constructor; connect may fail.
RedisInit ==
  /\ ctx \in {"up", "null"}
  /\ mtx = NoThread
  /\ redis_pc = [t \in RedisUsers |-> "out"]
  /\ pending = [t \in RedisUsers |-> NoCommand]
  /\ pipeline = << >>
  /\ stored = [k \in Kinds |-> 0]
  /\ refused = FALSE
  /\ crashed = FALSE

\* publish_position, publish_tick (and publish_risk_counters, set_kill_switch, which
\* have no caller) up to the lock; without a context they return.
Write(t, cmd) ==
  /\ redis_pc[t] = "out"
  /\ redis_pc' = [redis_pc EXCEPT ![t] = IF ctx = "null" THEN "out" ELSE "append"]
  /\ pending' = [pending EXCEPT ![t] = IF ctx = "null" THEN NoCommand ELSE cmd]
  /\ UNCHANGED <<ctx, mtx, pipeline, stored, refused, crashed>>

\* The critical section: redisAppendCommand
AppendCommand(t) ==
  /\ redis_pc[t] = "append" /\ mtx = NoThread
  /\ redis_pc' = [redis_pc EXCEPT ![t] = "out"]
  /\ pending' = [pending EXCEPT ![t] = NoCommand]
  /\ IF ctx = "null"
       THEN crashed' = TRUE /\ UNCHANGED pipeline
       ELSE pipeline' = Append(pipeline, pending[t]) /\ UNCHANGED crashed
  /\ UNCHANGED <<ctx, mtx, stored, refused>>

\* flush up to the lock ...
Flush(t) ==
  /\ redis_pc[t] = "out"
  /\ redis_pc' = [redis_pc EXCEPT ![t] = IF ctx = "null" THEN "out" ELSE "flush"]
  /\ UNCHANGED <<ctx, mtx, pending, pipeline, stored, refused, crashed>>

\* ... the lock ...
FlushLock(t) ==
  /\ redis_pc[t] = "flush" /\ mtx = NoThread
  /\ IF ctx = "null"
       THEN crashed' = TRUE /\ UNCHANGED <<mtx, redis_pc>>
       ELSE /\ mtx' = t
            /\ redis_pc' = [redis_pc EXCEPT ![t] = "drain"]
            /\ UNCHANGED crashed
  /\ UNCHANGED <<ctx, pending, pipeline, stored, refused>>

\* What Redis holds after the first n commands of the buffer
StoredAfter(n) ==
  [k \in Kinds |->
     LET writes == {i \in 1 .. n : pipeline[i].kind = k}
     IN IF writes = {} THEN stored[k]
        ELSE pipeline[CHOOSE i \in writes : \A j \in writes : j <= i].value]

\* mutant: mtx_ is not held while the connection is replaced
FlushDrainUnlocked(t, n) ==
  /\ redis_pc[t] = "drain"
  /\ stored' = StoredAfter(n)
  /\ pipeline' = << >>
  /\ ctx' = "null"
  /\ redis_pc' = [redis_pc EXCEPT ![t] = "reconnect"]
  /\ mtx' = NoThread
  /\ UNCHANGED <<pending, refused, crashed>>

\* mutant: the replies are not waited for
FlushDrainSendsNothing(t, n) ==
  /\ redis_pc[t] = "drain"
  /\ pipeline' = << >>
  /\ ctx' = "null"
  /\ redis_pc' = [redis_pc EXCEPT ![t] = "reconnect"]
  /\ UNCHANGED <<mtx, pending, stored, refused, crashed>>

\* ... n commands reach Redis, all of them unless the connection breaks; the loop
\* ends with an error either way and the context is freed with what it held ...
FlushDrain(t, n) ==
  /\ redis_pc[t] = "drain"
  /\ stored' = StoredAfter(n)
  /\ pipeline' = << >>
  /\ ctx' = "null"
  /\ redis_pc' = [redis_pc EXCEPT ![t] = "reconnect"]
  /\ UNCHANGED <<mtx, pending, refused, crashed>>

\* mutant: mtx_ stays locked when the connection is refused
FlushReconnectKeepsLock(t) ==
  /\ redis_pc[t] = "reconnect"
  /\ redis_pc' = [redis_pc EXCEPT ![t] = "out"]
  /\ ctx' \in {"up", "null"}
  /\ mtx' = IF ctx' = "up" THEN NoThread ELSE mtx
  /\ refused' = (refused \/ ctx' = "null")
  /\ UNCHANGED <<pending, pipeline, stored, crashed>>

\* ... connect, well or not.
FlushReconnect(t) ==
  /\ redis_pc[t] = "reconnect"
  /\ redis_pc' = [redis_pc EXCEPT ![t] = "out"]
  /\ mtx' = NoThread
  /\ ctx' \in {"up", "null"}
  /\ refused' = (refused \/ ctx' = "null")
  /\ UNCHANGED <<pending, pipeline, stored, crashed>>

\* ctx_ is tested outside the mutex, so a thread may come to use a context that
\* flush has replaced meanwhile.  It meets a null pointer only if a reconnect failed:
\* as long as Redis accepts connections a thread that passed the test
\* finds a context under the lock.
NullOnlyAfterRefusal == crashed => refused
=============================================================================
