---------------------------- MODULE WorkerLeader ----------------------------
(***************************************************************************)
(* Leader election of the worker process: internal/database/leader.go and  *)
(* the part of cmd/worker/main.go that acquires, loses and releases        *)
(* leadership.                                                             *)
(*                                                                         *)
(* Every worker replica opens a dedicated Postgres session and polls       *)
(* pg_try_advisory_lock on it.  The lock belongs to the SESSION.  When a   *)
(* session's connection breaks, two things happen independently and in     *)
(* either order: Postgres reaps the session and frees the lock, and the    *)
(* process notices at its next heartbeat ping.                             *)
(***************************************************************************)
EXTENDS Naturals

CONSTANTS
    Workers,   \* the worker replicas
    Nobody,    \* the lock is free
    Orphan     \* the lock is held by a session whose client has gone away

ASSUME WorkersAssumption ==
    /\ Nobody \notin Workers
    /\ Orphan \notin Workers
    /\ Nobody # Orphan

VARIABLES
    phase,     \* phase[w]: where worker w's main() is
    conn,      \* conn[w]: the dedicated leader connection of w
    lock,      \* the session that holds the advisory lock, server side
    cancelled, \* cancelled[w]: the ctx every loop of w was started with
    sawLost    \* sawLost[w]: LeaderHandle.lostCh of w is closed

leaderVars == <<phase, conn, lock, cancelled, sawLost>>

(***************************************************************************)
(* "down"     not running (the container will be restarted)                *)
(* "polling"  inside AcquireLeader's loop                                  *)
(* "leading"  past AcquireLeader, all loops started, blocked in select     *)
(* "draining" past the select: cancel() done, waiting for the loops        *)
(***************************************************************************)
Phases == {"down", "polling", "leading", "draining"}

LeaderTypeOK ==
    /\ phase \in [Workers -> Phases]
    /\ conn \in [Workers -> {"none", "ok", "broken"}]
    /\ lock \in Workers \cup {Nobody, Orphan}
    /\ cancelled \in [Workers -> BOOLEAN]
    /\ sawLost \in [Workers -> BOOLEAN]

LeaderInit ==
    /\ phase = [w \in Workers |-> "down"]
    /\ conn = [w \in Workers |-> "none"]
    /\ lock = Nobody
    /\ cancelled = [w \in Workers |-> FALSE]
    /\ sawLost = [w \in Workers |-> FALSE]

\* The loops of w have been started and have not been waited for.
Running(w) == phase[w] \in {"leading", "draining"}

\* The loops of w may start new work: their ctx has not been cancelled.
Active(w) == Running(w) /\ ~cancelled[w]

\* What the death of w's client leaves on the server: its session goes on
\* holding the lock until Postgres reaps it.
AbandonSession(w) == lock' = IF lock = w THEN Orphan ELSE lock

\* pgx.Connect at the top of AcquireLeader (a failed connect is log.Fatalf:
\* the process stays down).
Connect(w) ==
    /\ phase[w] = "down"
    /\ phase' = [phase EXCEPT ![w] = "polling"]
    /\ conn' = [conn EXCEPT ![w] = "ok"]
    /\ UNCHANGED <<lock, cancelled, sawLost>>

\* Mutant of TryLockWins: the boolean `got' is not looked at.
TryLockIgnoresGot(w) ==
    /\ phase[w] = "polling"
    /\ conn[w] = "ok"
    /\ lock' = IF lock = Nobody THEN w ELSE lock
    /\ phase' = [phase EXCEPT ![w] = "leading"]
    /\ cancelled' = [cancelled EXCEPT ![w] = FALSE]
    /\ sawLost' = [sawLost EXCEPT ![w] = FALSE]
    /\ UNCHANGED conn

\* pg_try_advisory_lock returns true: AcquireLeader returns the handle and
\* main starts every loop on a fresh ctx.
TryLockWins(w) ==
    /\ phase[w] = "polling"
    /\ conn[w] = "ok"
    /\ lock = Nobody
    /\ lock' = w
    /\ phase' = [phase EXCEPT ![w] = "leading"]
    /\ cancelled' = [cancelled EXCEPT ![w] = FALSE]
    /\ sawLost' = [sawLost EXCEPT ![w] = FALSE]
    /\ UNCHANGED conn

\* Mutant of TryLockError: the poll loop retries on the dead connection.
TryLockErrorRetries(w) ==
    /\ phase[w] = "polling"
    /\ conn[w] = "broken"
    /\ UNCHANGED leaderVars

\* The lock query fails on a broken connection: close, return the error,
\* log.Fatalf.
TryLockError(w) ==
    /\ phase[w] = "polling"
    /\ conn[w] = "broken"
    /\ phase' = [phase EXCEPT ![w] = "down"]
    /\ conn' = [conn EXCEPT ![w] = "none"]
    /\ UNCHANGED <<lock, cancelled, sawLost>>

\* The network, a restarted backend or pg_terminate_backend breaks the
\* connection.  Nobody has noticed yet.
ConnectionBreaks(w) ==
    /\ conn[w] = "ok"
    /\ conn' = [conn EXCEPT ![w] = "broken"]
    /\ UNCHANGED <<phase, lock, cancelled, sawLost>>

\* Postgres ends the session of a broken connection, which frees its lock.
ServerReaps ==
    /\ \/ lock = Orphan
       \/ lock \in Workers /\ conn[lock] = "broken"
    /\ lock' = Nobody
    /\ UNCHANGED <<phase, conn, cancelled, sawLost>>

\* Mutant of Release: closes lostCh but not the connection.
ReleaseKeepsConnection(w) ==
    /\ sawLost' = [sawLost EXCEPT ![w] = TRUE]
    /\ UNCHANGED <<conn, lock>>

\* LeaderHandle.Release: once only, closes the connection (the server frees
\* the lock if it is still reachable) and closes lostCh.
Release(w) ==
    /\ conn' = [conn EXCEPT ![w] = "none"]
    /\ lock' = IF lock = w
                 THEN IF conn[w] = "ok" THEN Nobody ELSE Orphan
                 ELSE lock
    /\ sawLost' = [sawLost EXCEPT ![w] = TRUE]

\* Mutant of HeartbeatFails: the goroutine returns without Release.
HeartbeatGivesUp(w) ==
    /\ Running(w)
    /\ ~sawLost[w]
    /\ conn[w] = "broken"
    /\ UNCHANGED leaderVars

\* The heartbeat ping fails: Release from the heartbeat goroutine.
HeartbeatFails(w) ==
    /\ Running(w)
    /\ ~sawLost[w]
    /\ conn[w] = "broken"
    /\ Release(w)
    /\ UNCHANGED <<phase, cancelled>>

\* The goroutine blocked on Lost() calls cancel().
CancelOnLost(w) ==
    /\ Running(w)
    /\ sawLost[w]
    /\ ~cancelled[w]
    /\ cancelled' = [cancelled EXCEPT ![w] = TRUE]
    /\ UNCHANGED <<phase, conn, lock, sawLost>>

\* main leaves its select and calls cancel().
LeaveSelect(w) ==
    /\ phase[w] = "leading"
    /\ phase' = [phase EXCEPT ![w] = "draining"]
    /\ cancelled' = [cancelled EXCEPT ![w] = TRUE]
    /\ UNCHANGED <<conn, lock, sawLost>>

\* SIGINT or SIGTERM while leading.
Signal(w) == LeaveSelect(w)

\* ctx.Done() in the same select: leadership was lost.
LeaveOnCancel(w) == cancelled[w] /\ LeaveSelect(w)

\* Every loop has been waited for: main returns and its deferred Release
\* runs.  Release is a no-op the second time.
Exit(w) ==
    /\ phase[w] = "draining"
    /\ phase' = [phase EXCEPT ![w] = "down"]
    /\ IF sawLost[w] THEN UNCHANGED <<conn, lock, sawLost>> ELSE Release(w)
    /\ UNCHANGED cancelled

\* kill -9, a panic, SIGTERM before signal.Notify, or a power failure.
Crash(w) ==
    /\ phase[w] # "down"
    /\ phase' = [phase EXCEPT ![w] = "down"]
    /\ conn' = [conn EXCEPT ![w] = "none"]
    /\ AbandonSession(w)
    /\ UNCHANGED <<cancelled, sawLost>>

LeaderNext ==
    \/ ServerReaps
    \/ \E w \in Workers :
          \/ Connect(w)
          \/ TryLockWins(w)
          \/ TryLockError(w)
          \/ ConnectionBreaks(w)
          \/ HeartbeatFails(w)
          \/ CancelOnLost(w)
          \/ Signal(w)
          \/ LeaveOnCancel(w)
          \/ Exit(w)
          \/ Crash(w)

\* What a live worker, and Postgres, do without being told to.  Faults and
\* signals are not fair.
LeaderFairness ==
    /\ WF_leaderVars(ServerReaps)
    /\ \A w \in Workers :
         /\ WF_leaderVars(Connect(w))
         /\ SF_leaderVars(TryLockWins(w))
         /\ WF_leaderVars(TryLockError(w))
         /\ WF_leaderVars(HeartbeatFails(w))
         /\ WF_leaderVars(CancelOnLost(w))
         /\ WF_leaderVars(LeaveOnCancel(w))
         /\ WF_leaderVars(Exit(w))

LeaderSpec == LeaderInit /\ [][LeaderNext]_leaderVars /\ LeaderFairness

----------------------------------------------------------------------------
(* Properties.                                                             *)

\* A worker whose loops run and whose leader connection is intact holds the
\* advisory lock: so two workers with intact connections never run jobs at
\* the same time, and a graceful shutdown (cancel, wait, then the deferred
\* Release) never hands the lock over while loops still run.
HealthyLeaderHoldsLock ==
    \A w \in Workers : Running(w) /\ conn[w] = "ok" => lock = w

\* The lock never outlives its owner: a session that holds it belongs to a
\* running worker that has not released its handle.
LockOwnerRuns ==
    lock \in Workers => Running(lock) /\ conn[lock] # "none" /\ ~sawLost[lock]

\* A leader whose connection has broken stops scheduling work: heartbeat,
\* Release, Lost() and cancel() chain through.
BrokenLeaderStops ==
    \A w \in Workers : (Running(w) /\ conn[w] # "ok") ~> ~Active(w)

\* Failover: whenever the lock is free or held by a dead session, some
\* replica becomes leader.
Failover == (lock \in {Nobody, Orphan}) ~> (lock \in Workers)

=============================================================================
