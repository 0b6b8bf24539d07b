----------------------------- MODULE WorkerProofs -----------------------------
(***************************************************************************)
(* The worker process, for any set of replicas, any number of exports and  *)
(* any number of faults.                                                   *)
(*                                                                         *)
(* Election: a running worker with an intact connection holds the lock,    *)
(* and the lock belongs to nobody but a running worker that has not        *)
(* released it.  Queue: the export queue only moves the election along its *)
(* own steps, a row has one holder until it is requeued, completed means a *)
(* whole file, an abandoned row needs a fault, and a settled row stays     *)
(* settled.                                                                *)
(***************************************************************************)
EXTENDS ExportQueue, TLAPS

\* The inductive invariant: types, and the two halves of the bond between
\* the lock on the server and the process that believes it holds it.
LeaderInv == LeaderTypeOK /\ HealthyLeaderHoldsLock /\ LockOwnerRuns

LEMMA LeaderInitInv == LeaderInit => LeaderInv
BY WorkersAssumption
   DEF LeaderInit, LeaderInv, LeaderTypeOK, HealthyLeaderHoldsLock, LockOwnerRuns,
       Running, Phases

\* Every action of the election preserves the invariant.
LEMMA LeaderStepInv == LeaderInv /\ [LeaderNext]_leaderVars => LeaderInv'
<1> SUFFICES ASSUME LeaderInv, [LeaderNext]_leaderVars
             PROVE  LeaderInv'
  OBVIOUS
<1> USE WorkersAssumption
        DEF LeaderInv, LeaderTypeOK, HealthyLeaderHoldsLock, LockOwnerRuns, Running, Phases
<1>1. CASE ServerReaps
  BY <1>1 DEF ServerReaps
<1>2. ASSUME NEW w \in Workers, Connect(w) PROVE LeaderInv'
  BY <1>2 DEF Connect
<1>3. ASSUME NEW w \in Workers, TryLockWins(w) PROVE LeaderInv'
  BY <1>3 DEF TryLockWins
<1>4. ASSUME NEW w \in Workers, TryLockError(w) PROVE LeaderInv'
  BY <1>4 DEF TryLockError
<1>5. ASSUME NEW w \in Workers, ConnectionBreaks(w) PROVE LeaderInv'
  BY <1>5 DEF ConnectionBreaks
<1>6. ASSUME NEW w \in Workers, HeartbeatFails(w) PROVE LeaderInv'
  BY <1>6 DEF HeartbeatFails, Release
<1>7. ASSUME NEW w \in Workers, CancelOnLost(w) PROVE LeaderInv'
  BY <1>7 DEF CancelOnLost
<1>8. ASSUME NEW w \in Workers, LeaveSelect(w) PROVE LeaderInv'
  BY <1>8 DEF LeaveSelect
<1>9. ASSUME NEW w \in Workers, Exit(w) PROVE LeaderInv'
  <2>1. CASE sawLost[w]
    BY <1>9, <2>1 DEF Exit
  <2>2. CASE ~sawLost[w]
    BY <1>9, <2>2 DEF Exit, Release
  <2> QED BY <2>1, <2>2
<1>10. ASSUME NEW w \in Workers, Crash(w) PROVE LeaderInv'
  BY <1>10 DEF Crash, AbandonSession
<1>11. CASE UNCHANGED leaderVars
  BY <1>11 DEF leaderVars
<1> QED
  BY <1>1, <1>2, <1>3, <1>4, <1>5, <1>6, <1>7, <1>8, <1>9, <1>10, <1>11
     DEF LeaderNext, Signal, LeaveOnCancel

\* In every reachable state the variables have their types.
THEOREM LeaderTypeCorrect == LeaderSpec => []LeaderTypeOK
<1>1. LeaderInv => LeaderTypeOK BY DEF LeaderInv
<1> QED BY LeaderInitInv, LeaderStepInv, <1>1, PTL DEF LeaderSpec

\* A worker that runs jobs over an intact leader connection holds the
\* advisory lock, for any number of replicas, crashes and broken sessions.
THEOREM HealthyLeaderHolds == LeaderSpec => []HealthyLeaderHoldsLock
<1>1. LeaderInv => HealthyLeaderHoldsLock BY DEF LeaderInv
<1> QED BY LeaderInitInv, LeaderStepInv, <1>1, PTL DEF LeaderSpec

\* The lock is never left with a worker that has exited or released it.
THEOREM LockOwnerIsRunning == LeaderSpec => []LockOwnerRuns
<1>1. LeaderInv => LockOwnerRuns BY DEF LeaderInv
<1> QED BY LeaderInitInv, LeaderStepInv, <1>1, PTL DEF LeaderSpec

----------------------------------------------------------------------------
(* The export queue.                                                       *)

\* A goroutine holds a row exactly between its claim and its last statement.
HoldsItsRow ==
    \A w \in Workers : stage[w] \in {"claimed", "ffmpeg", "muxed", "failing"} <=> job[w] # NoExport

\* Only a worker past its election has an export goroutine.
LeadsWhileExporting == \A w \in Workers : ~Running(w) => stage[w] = "off"

\* A row that was never requeued is in processing for as long as it is held.
HeldIsProcessing ==
    \A w \in Workers :
        job[w] # NoExport /\ ~requeued[job[w]] => status[job[w]] = "processing"

\* FFmpeg's exit status can be trusted unless a requeue let another FFmpeg
\* write the same path.
MuxedIsWhole ==
    \A w \in Workers :
        stage[w] = "muxed" /\ ~requeued[job[w]] => output[job[w]] = "whole"

\* Before the first fault nothing has been cancelled, lost or broken.
NothingLostYet ==
    faults = 0 => \A w \in Workers : /\ ~cancelled[w] /\ ~sawLost[w]
                                     /\ conn[w] # "broken" /\ phase[w] # "draining"

QueueInv ==
    /\ LeaderInv
    /\ QueueInvariant /\ HoldsItsRow /\ HeldIsProcessing /\ MuxedIsWhole
    /\ LeadsWhileExporting /\ NothingLostYet /\ AbandonedNeedsFault

\* Whatever the queue does to the election is a step of the election.
LEMMA QueueElects == [Next]_vars => [LeaderNext]_leaderVars
<1> SUFFICES ASSUME Next PROVE [LeaderNext]_leaderVars
  BY DEF vars
<1>1. ASSUME NEW e \in Exports, CreateExport(e) \/ TimeoutElapses(e) PROVE UNCHANGED leaderVars
  BY <1>1 DEF CreateExport, TimeoutElapses
<1>2. CASE Reap
  BY <1>2 DEF Reap, LeaderNext
<1>3. ASSUME NEW w \in Workers, Goroutine(w) \/ ClaimAnswerLost(w) PROVE UNCHANGED leaderVars
  BY <1>3 DEF Goroutine, StartWorker, ClaimNextExport, PrepareFails, StartFFmpeg, FFmpegSucceeds,
              FFmpegFails, MarkCompleted, MarkFailed, UpdateExportStatus, StopLoop, ClaimAnswerLost
<1>4. ASSUME NEW w \in Workers,
             \/ Election(w) \/ BecomeLeader(w) \/ OnSignal(w) \/ OnCancelled(w)
             \/ ExitAfterWait(w) \/ CrashWorker(w) \/ BreakConnection(w)
      PROVE  LeaderNext
  BY <1>4 DEF Election, BecomeLeader, OnSignal, OnCancelled, ExitAfterWait, CrashWorker,
              BreakConnection, LeaderNext
<1> QED BY <1>1, <1>2, <1>3, <1>4 DEF Next

LEMMA QueueInitInv == Init => QueueInv
<1> SUFFICES ASSUME Init PROVE QueueInv
  OBVIOUS
<1>1. LeaderInv
  BY LeaderInitInv DEF Init
<1>2. TypeOK
  BY <1>1, ExportAssumption DEF LeaderInv, Init, TypeOK, Stages, NoExport
<1>3. ClaimsAreExclusive /\ CompletedIsWhole /\ HoldsItsRow /\ HeldIsProcessing /\ MuxedIsWhole
  BY DEF Init, ClaimsAreExclusive, CompletedIsWhole, HoldsItsRow, HeldIsProcessing, MuxedIsWhole
<1>4. NothingLostYet /\ AbandonedNeedsFault /\ LeadsWhileExporting
  BY DEF Init, LeaderInit, NothingLostYet, AbandonedNeedsFault, LeadsWhileExporting
<1> QED BY <1>1, <1>2, <1>3, <1>4 DEF QueueInv, QueueInvariant

\* What the invariant says about rows, files and goroutines, and about faults.
RowsInv == /\ ClaimsAreExclusive /\ CompletedIsWhole
           /\ HoldsItsRow /\ HeldIsProcessing /\ MuxedIsWhole
FaultInv == NothingLostYet /\ AbandonedNeedsFault

\* A step of the election that keeps every goroutine where it is, or moves one
\* that holds no row, leaves the rows as they were.
LEMMA RowsStay ==
    ASSUME TypeOK, RowsInv, UNCHANGED <<status, output, requeued, job>>,
           \/ UNCHANGED stage
           \/ \E w \in Workers, s \in {"off", "boot", "idle", "stopped"} :
                 job[w] = NoExport /\ stage' = [stage EXCEPT ![w] = s]
    PROVE  RowsInv'
BY DEF RowsInv, TypeOK, ClaimsAreExclusive, CompletedIsWhole, HoldsItsRow, HeldIsProcessing,
       MuxedIsWhole

\* Every action of the queue keeps the rows in order.
LEMMA RowsStep == QueueInv /\ Next => RowsInv'
<1> SUFFICES ASSUME QueueInv, Next PROVE RowsInv'
  OBVIOUS
<1>a. TypeOK /\ RowsInv
  BY DEF QueueInv, QueueInvariant, RowsInv
<1>1. ASSUME NEW e \in Exports, CreateExport(e) PROVE RowsInv'
  BY <1>a, <1>1 DEF CreateExport, RowsInv, TypeOK, ClaimsAreExclusive, CompletedIsWhole, HoldsItsRow,
                    HeldIsProcessing, MuxedIsWhole
<1>2. ASSUME NEW e \in Exports, TimeoutElapses(e) PROVE RowsInv'
  BY <1>a, <1>2, RowsStay DEF TimeoutElapses
<1>3. CASE Reap
  BY <1>a, <1>3, RowsStay DEF Reap, queueVars
<1>4. ASSUME NEW w \in Workers, StartWorker(w) PROVE RowsInv'
  BY <1>a, <1>4 DEF StartWorker, Exec, Fault, Stuck, RowsInv, TypeOK, ClaimsAreExclusive,
                    CompletedIsWhole, HoldsItsRow, HeldIsProcessing, MuxedIsWhole
<1>5. ASSUME NEW w \in Workers, ClaimNextExport(w) PROVE RowsInv'
  BY <1>a, <1>5 DEF ClaimNextExport, MarkProcessing, Pending, RowsInv, TypeOK, ClaimsAreExclusive,
                    CompletedIsWhole, HoldsItsRow, HeldIsProcessing, MuxedIsWhole, NoExport, Exports
<1>6. ASSUME NEW w \in Workers, PrepareFails(w) PROVE RowsInv'
  BY <1>a, <1>6 DEF PrepareFails, RowsInv, TypeOK, ClaimsAreExclusive, CompletedIsWhole, HoldsItsRow,
                    HeldIsProcessing, MuxedIsWhole
<1>7. ASSUME NEW w \in Workers, StartFFmpeg(w) PROVE RowsInv'
  BY <1>a, <1>7 DEF StartFFmpeg, RowsInv, TypeOK, ClaimsAreExclusive, CompletedIsWhole, HoldsItsRow,
                    HeldIsProcessing, MuxedIsWhole
<1>8. ASSUME NEW w \in Workers, FFmpegSucceeds(w) PROVE RowsInv'
  BY <1>a, <1>8 DEF FFmpegSucceeds, RowsInv, TypeOK, ClaimsAreExclusive, CompletedIsWhole,
                    HoldsItsRow, HeldIsProcessing, MuxedIsWhole
<1>9. ASSUME NEW w \in Workers, FFmpegFails(w) PROVE RowsInv'
  BY <1>a, <1>9 DEF FFmpegFails, RowsInv, TypeOK, ClaimsAreExclusive, CompletedIsWhole, HoldsItsRow,
                    HeldIsProcessing, MuxedIsWhole
<1>10. ASSUME NEW w \in Workers, MarkCompleted(w) PROVE RowsInv'
  BY <1>a, <1>10 DEF MarkCompleted, UpdateExportStatus, Exec, Fault, RowsInv, TypeOK,
                     ClaimsAreExclusive, CompletedIsWhole, HoldsItsRow, HeldIsProcessing, MuxedIsWhole
<1>11. ASSUME NEW w \in Workers, MarkFailed(w) PROVE RowsInv'
  BY <1>a, <1>11 DEF MarkFailed, UpdateExportStatus, Exec, Fault, RowsInv, TypeOK,
                     ClaimsAreExclusive, CompletedIsWhole, HoldsItsRow, HeldIsProcessing, MuxedIsWhole
<1>12. ASSUME NEW w \in Workers, ClaimAnswerLost(w) PROVE RowsInv'
  BY <1>a, <1>12 DEF ClaimAnswerLost, MarkProcessing, Pending, RowsInv, TypeOK, ClaimsAreExclusive,
                     CompletedIsWhole, HoldsItsRow, HeldIsProcessing, MuxedIsWhole
<1>13. ASSUME NEW w \in Workers, CrashWorker(w) PROVE RowsInv'
  BY <1>a, <1>13 DEF CrashWorker, RowsInv, TypeOK, ClaimsAreExclusive, CompletedIsWhole, HoldsItsRow,
                     HeldIsProcessing, MuxedIsWhole
<1>14. ASSUME NEW w \in Workers, StopLoop(w) \/ ExitAfterWait(w) PROVE RowsInv'
  BY <1>a, <1>14, RowsStay DEF StopLoop, ExitAfterWait, RowsInv, HoldsItsRow
<1>15. ASSUME NEW w \in Workers, BecomeLeader(w) PROVE RowsInv'
  <2>1. job[w] = NoExport
    BY <1>15 DEF BecomeLeader, TryLockWins, QueueInv, LeadsWhileExporting, HoldsItsRow, Running
  <2> QED BY <1>a, <1>15, <2>1, RowsStay DEF BecomeLeader
<1>16. ASSUME NEW w \in Workers,
              Election(w) \/ OnSignal(w) \/ OnCancelled(w) \/ BreakConnection(w)
       PROVE  RowsInv'
  BY <1>a, <1>16, RowsStay DEF Election, OnSignal, OnCancelled, BreakConnection, queueVars
<1> QED
  BY <1>1, <1>2, <1>3, <1>4, <1>5, <1>6, <1>7, <1>8, <1>9, <1>10, <1>11, <1>12, <1>13, <1>14,
     <1>15, <1>16 DEF Next, Goroutine

\* Every action keeps the types and the goroutines within a term of office.
LEMMA QueueTypeStep == QueueInv /\ Next => TypeOK' /\ LeadsWhileExporting'
<1> SUFFICES ASSUME QueueInv, Next PROVE TypeOK' /\ LeadsWhileExporting'
  OBVIOUS
<1>a. TypeOK /\ LeadsWhileExporting /\ LeaderTypeOK'
  BY QueueElects, LeaderStepInv DEF QueueInv, QueueInvariant, LeaderInv
<1> DEFINE Rows == /\ status' \in [Exports -> {"absent", "pending", "processing", "completed", "failed"}]
                   /\ overdue' \in [Exports -> BOOLEAN]
                   /\ output' \in [Exports -> {"none", "torn", "whole"}]
                   /\ requeued' \in [Exports -> BOOLEAN]
                   /\ stage' \in [Workers -> Stages]
                   /\ job' \in [Workers -> Exports \cup {NoExport}]
                   /\ faults' \in 0..MaxFaults
           Office == LeadsWhileExporting'
<1> SUFFICES Rows /\ Office
  BY <1>a DEF TypeOK
<1>b. Fault => faults' \in 0..MaxFaults
  BY <1>a, ExportAssumption DEF Fault, TypeOK
<1>c. UNCHANGED faults => faults' \in 0..MaxFaults
  BY <1>a DEF TypeOK
<1> USE <1>a DEF TypeOK, Stages, LeadsWhileExporting, Running, leaderVars
<1>1. ASSUME NEW e \in Exports, CreateExport(e) \/ TimeoutElapses(e) PROVE Rows /\ Office
  BY <1>1 DEF CreateExport, TimeoutElapses
<1>2. ASSUME NEW w \in Workers, StartWorker(w) PROVE Rows /\ Office
  <2>1. faults' \in 0..MaxFaults
    BY <1>2, <1>b, <1>c DEF StartWorker, Exec
  <2> QED BY <1>2, <2>1 DEF StartWorker, Exec
<1>3. ASSUME NEW w \in Workers, ClaimNextExport(w) PROVE Rows /\ Office
  BY <1>3 DEF ClaimNextExport, MarkProcessing
<1>4. ASSUME NEW w \in Workers, ClaimAnswerLost(w) PROVE Rows /\ Office
  BY <1>4, <1>b DEF ClaimAnswerLost, MarkProcessing
<1>5. ASSUME NEW w \in Workers,
             PrepareFails(w) \/ StartFFmpeg(w) \/ FFmpegSucceeds(w) \/ FFmpegFails(w) \/ StopLoop(w)
      PROVE  Rows /\ Office
  BY <1>5 DEF PrepareFails, StartFFmpeg, FFmpegSucceeds, FFmpegFails, StopLoop
<1>6. ASSUME NEW w \in Workers, MarkCompleted(w) \/ MarkFailed(w) PROVE Rows /\ Office
  <2>1. faults' \in 0..MaxFaults
    BY <1>6, <1>b, <1>c DEF MarkCompleted, MarkFailed, UpdateExportStatus, Exec
  <2> QED BY <1>6, <2>1 DEF MarkCompleted, MarkFailed, UpdateExportStatus, Exec
<1>7. ASSUME NEW w \in Workers, BecomeLeader(w) PROVE Rows /\ Office
  <2>1. Rows
    BY <1>7 DEF BecomeLeader
  <2>2. Office
    BY <1>7 DEF BecomeLeader, TryLockWins, LeaderTypeOK
  <2> QED BY <2>1, <2>2
<1>8. ASSUME NEW w \in Workers, OnSignal(w) PROVE Rows /\ Office
  BY <1>8, <1>b DEF OnSignal, Signal, LeaveSelect, queueVars
<1>9. ASSUME NEW w \in Workers, OnCancelled(w) PROVE Rows /\ Office
  BY <1>9 DEF OnCancelled, LeaveOnCancel, LeaveSelect, queueVars
<1>10. ASSUME NEW w \in Workers, ExitAfterWait(w) PROVE Rows /\ Office
  BY <1>10 DEF ExitAfterWait, Exit
<1>11. ASSUME NEW w \in Workers, CrashWorker(w) PROVE Rows /\ Office
  BY <1>11, <1>b DEF CrashWorker, Crash
<1>12. ASSUME NEW w \in Workers, BreakConnection(w) PROVE Rows /\ Office
  BY <1>12, <1>b DEF BreakConnection, ConnectionBreaks, queueVars
<1>13. ASSUME NEW w \in Workers, Election(w) PROVE Rows /\ Office
  <2>1. CASE Connect(w)
    BY <1>13, <2>1 DEF Election, Connect, queueVars
  <2>2. CASE TryLockError(w)
    BY <1>13, <2>2 DEF Election, TryLockError, queueVars
  <2>3. CASE HeartbeatFails(w) \/ CancelOnLost(w)
    BY <1>13, <2>3 DEF Election, HeartbeatFails, CancelOnLost, queueVars
  <2> QED BY <1>13, <2>1, <2>2, <2>3 DEF Election
<1>14. ASSUME Reap PROVE Rows /\ Office
  BY <1>14 DEF Reap, ServerReaps, queueVars
<1> QED
  BY <1>1, <1>2, <1>3, <1>4, <1>5, <1>6, <1>7, <1>8, <1>9, <1>10, <1>11, <1>12, <1>13, <1>14
     DEF Next, Goroutine

\* Every action keeps the account of faults: before the first one nothing is
\* cancelled, so every claimed row is written back by its holder.
LEMMA FaultStep == QueueInv /\ Next => FaultInv'
<1> SUFFICES ASSUME QueueInv, Next PROVE FaultInv'
  OBVIOUS
<1>a. TypeOK /\ FaultInv /\ HoldsItsRow
  BY DEF QueueInv, QueueInvariant, FaultInv
<1>b. faults \in Nat /\ (Fault => faults' # 0)
  BY <1>a, ExportAssumption DEF TypeOK, Fault
<1>c. CASE Fault
  BY <1>b, <1>c DEF FaultInv, NothingLostYet, AbandonedNeedsFault
<1> USE <1>a DEF TypeOK, FaultInv, NothingLostYet, AbandonedNeedsFault, leaderVars
<1>1. ASSUME NEW e \in Exports, CreateExport(e) \/ TimeoutElapses(e) PROVE FaultInv'
  BY <1>1 DEF CreateExport, TimeoutElapses
<1>2. ASSUME NEW w \in Workers, StartWorker(w), ~Fault PROVE FaultInv'
  BY <1>2 DEF StartWorker, Exec, Stuck
<1>3. ASSUME NEW w \in Workers, ClaimNextExport(w) PROVE FaultInv'
  <2>1. job[w] = NoExport
    BY <1>3 DEF ClaimNextExport, HoldsItsRow
  <2> QED BY <1>3, <2>1 DEF ClaimNextExport, MarkProcessing, NoExport, Exports
<1>4. ASSUME NEW w \in Workers,
             PrepareFails(w) \/ StartFFmpeg(w) \/ FFmpegSucceeds(w) \/ FFmpegFails(w) \/ StopLoop(w)
      PROVE  FaultInv'
  BY <1>4 DEF PrepareFails, StartFFmpeg, FFmpegSucceeds, FFmpegFails, StopLoop
<1>5. ASSUME NEW w \in Workers, MarkCompleted(w) \/ MarkFailed(w), ~Fault PROVE FaultInv'
  <2>1. UNCHANGED <<leaderVars, faults>>
    BY <1>5 DEF MarkCompleted, MarkFailed, UpdateExportStatus, Exec
  <2>2. NothingLostYet'
    BY <2>1
  <2>3. ASSUME NEW e \in Exports, status'[e] = "processing", faults' = 0
        PROVE  \E v \in Workers : job'[v] = e
    <3>1. ~cancelled[w] /\ job[w] \in Exports
      BY <1>5, <2>1, <2>3 DEF MarkCompleted, MarkFailed, HoldsItsRow
    <3>2. status[e] = "processing" /\ job[w] # e
      BY <1>5, <2>3, <3>1 DEF MarkCompleted, MarkFailed, UpdateExportStatus, Exec
    <3>3. PICK v \in Workers : job[v] = e
      BY <2>1, <2>3, <3>2
    <3>4. job'[v] = e
      BY <1>5, <3>2, <3>3 DEF MarkCompleted, MarkFailed, UpdateExportStatus
    <3> QED BY <3>4
  <2> QED BY <2>2, <2>3
<1>6. ASSUME NEW w \in Workers, BecomeLeader(w) PROVE FaultInv'
  BY <1>6 DEF BecomeLeader, TryLockWins
<1>7. ASSUME NEW w \in Workers, OnCancelled(w) PROVE FaultInv'
  BY <1>7 DEF OnCancelled, LeaveOnCancel, LeaveSelect, queueVars
<1>8. ASSUME NEW w \in Workers, ExitAfterWait(w) PROVE FaultInv'
  BY <1>8 DEF ExitAfterWait, Exit
<1>9. ASSUME NEW w \in Workers, Election(w) PROVE FaultInv'
  BY <1>9 DEF Election, Connect, TryLockError, HeartbeatFails, CancelOnLost, queueVars, LeaderTypeOK
<1>10. ASSUME Reap PROVE FaultInv'
  BY <1>10 DEF Reap, ServerReaps, queueVars
<1>11. ASSUME NEW w \in Workers,
              ClaimAnswerLost(w) \/ OnSignal(w) \/ CrashWorker(w) \/ BreakConnection(w)
       PROVE  Fault
  BY <1>11 DEF ClaimAnswerLost, OnSignal, CrashWorker, BreakConnection
<1> QED
  BY <1>c, <1>1, <1>2, <1>3, <1>4, <1>5, <1>6, <1>7, <1>8, <1>9, <1>10, <1>11 DEF Next, Goroutine

LEMMA QueueStepInv == QueueInv /\ [Next]_vars => QueueInv'
<1> SUFFICES ASSUME QueueInv, [Next]_vars PROVE QueueInv'
  OBVIOUS
<1>1. LeaderInv'
  BY QueueElects, LeaderStepInv DEF QueueInv
<1>2. CASE Next
  BY <1>1, <1>2, QueueTypeStep, RowsStep, FaultStep DEF QueueInv, QueueInvariant, RowsInv, FaultInv
<1>3. CASE UNCHANGED vars
  BY <1>1, <1>3
     DEF QueueInv, QueueInvariant, TypeOK, LeaderInv, ClaimsAreExclusive, CompletedIsWhole,
         HoldsItsRow, HeldIsProcessing, MuxedIsWhole, LeadsWhileExporting, Running, NothingLostYet,
         AbandonedNeedsFault, vars, leaderVars, queueVars
<1> QED BY <1>2, <1>3

\* The queue runs inside the election: every behaviour of the exports is, on
\* the election's variables, a behaviour of it, so a running worker with an
\* intact connection holds the lock while it exports.
THEOREM QueueImplementsElection ==
    Spec => /\ LeaderInit /\ [][LeaderNext]_leaderVars
            /\ [](HealthyLeaderHoldsLock /\ LockOwnerRuns)
<1>1. Init => LeaderInit
  BY DEF Init
<1>2. LeaderInv => HealthyLeaderHoldsLock /\ LockOwnerRuns
  BY DEF LeaderInv
<1> QED BY <1>1, <1>2, QueueElects, LeaderInitInv, LeaderStepInv, PTL DEF Spec

\* The rows are what their status says: one holder per row until a requeue
\* takes it, and a whole file behind every completed row.
THEOREM QueueIsInvariant == Spec => []QueueInvariant
<1>1. QueueInv => QueueInvariant BY DEF QueueInv
<1> QED BY QueueInitInv, QueueStepInv, <1>1, PTL DEF Spec

\* A row is left in processing without a worker only after a crash, a signal,
\* a broken connection or a failed statement.
THEOREM AbandonedOnlyByFault == Spec => []AbandonedNeedsFault
<1>1. QueueInv => AbandonedNeedsFault BY DEF QueueInv
<1> QED BY QueueInitInv, QueueStepInv, <1>1, PTL DEF Spec

\* No step of any worker, however stale, takes a completed or failed export
\* back to pending or processing.
THEOREM SettledStaysSettled == Spec => SettledIsNotReopened
<1> DEFINE Kept == \A e \in Exports :
                      status[e] \in {"completed", "failed"} => status'[e] \in {"completed", "failed"}
<1>1. QueueInv /\ [Next]_vars => [Kept]_vars
  <2> SUFFICES ASSUME QueueInv, Next PROVE Kept
    OBVIOUS
  <2>a. TypeOK
    BY DEF QueueInv, QueueInvariant
  <2> USE <2>a DEF TypeOK
  <2>1. ASSUME NEW e \in Exports, CreateExport(e) \/ TimeoutElapses(e) PROVE Kept
    BY <2>1 DEF CreateExport, TimeoutElapses
  <2>2. ASSUME NEW w \in Workers, StartWorker(w) PROVE Kept
    BY <2>2 DEF StartWorker, Exec, Stuck
  <2>3. ASSUME NEW w \in Workers, ClaimNextExport(w) \/ ClaimAnswerLost(w) PROVE Kept
    BY <2>3 DEF ClaimNextExport, ClaimAnswerLost, MarkProcessing, Pending
  <2>4. ASSUME NEW w \in Workers, MarkCompleted(w) \/ MarkFailed(w) PROVE Kept
    BY <2>4 DEF MarkCompleted, MarkFailed, UpdateExportStatus, Exec
  <2>5. ASSUME NEW w \in Workers,
               \/ PrepareFails(w) \/ StartFFmpeg(w) \/ FFmpegSucceeds(w) \/ FFmpegFails(w)
               \/ StopLoop(w) \/ BecomeLeader(w) \/ ExitAfterWait(w) \/ CrashWorker(w)
        PROVE  Kept
    BY <2>5 DEF PrepareFails, StartFFmpeg, FFmpegSucceeds, FFmpegFails, StopLoop, BecomeLeader,
                ExitAfterWait, CrashWorker
  <2>6. ASSUME NEW w \in Workers,
               Election(w) \/ OnSignal(w) \/ OnCancelled(w) \/ BreakConnection(w)
        PROVE  Kept
    BY <2>6 DEF Election, OnSignal, OnCancelled, BreakConnection, queueVars
  <2>7. CASE Reap
    BY <2>7 DEF Reap, queueVars
  <2> QED BY <2>1, <2>2, <2>3, <2>4, <2>5, <2>6, <2>7 DEF Next, Goroutine
<1> QED BY QueueInitInv, QueueStepInv, <1>1, PTL DEF Spec, SettledIsNotReopened
============================================================================
