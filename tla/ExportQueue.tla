----------------------------- MODULE ExportQueue -----------------------------
(***************************************************************************)
(* The video-export queue (internal/export/export.go and the export        *)
(* statements of internal/database/db.go) run by leader-elected workers.   *)
(*                                                                         *)
(* A job is a row of the exports table.  Exports are numbered in the order *)
(* of their created_at, so the oldest pending row is the smallest one.     *)
(* `overdue' abstracts started_at: the row was claimed longer ago than     *)
(* stuckJobTimeout.                                                        *)
(***************************************************************************)
EXTENDS WorkerLeader

CONSTANTS
    MaxExports,  \* exports the API creates
    MaxFaults    \* crashes, signals, broken connections and failed statements

ASSUME ExportAssumption == MaxExports \in Nat /\ MaxFaults \in Nat

Exports == 1..MaxExports
NoExport == 0

VARIABLES
    status,    \* status[e]: the row's status column, "absent" before INSERT
    overdue,   \* overdue[e]: started_at < NOW() - stuckJobTimeout
    output,    \* output[e]: the file export_<id>.mp4
    requeued,  \* requeued[e]: some RequeueStuckExports picked the row (history)
    stage,     \* stage[w]: where the export goroutine of worker w is
    job,       \* job[w]: the export it has claimed, or NoExport
    faults     \* faults injected so far

queueVars == <<status, overdue, output, requeued, stage, job>>
vars == <<leaderVars, queueVars, faults>>

Stages == {"off", "boot", "idle", "claimed", "ffmpeg", "muxed", "failing", "stopped"}

TypeOK ==
    /\ LeaderTypeOK
    /\ status \in [Exports -> {"absent", "pending", "processing", "completed", "failed"}]
    /\ overdue \in [Exports -> BOOLEAN]
    /\ output \in [Exports -> {"none", "torn", "whole"}]
    /\ requeued \in [Exports -> BOOLEAN]
    /\ stage \in [Workers -> Stages]
    /\ job \in [Workers -> Exports \cup {NoExport}]
    /\ faults \in 0..MaxFaults

Init ==
    /\ LeaderInit
    /\ status = [e \in Exports |-> "absent"]
    /\ overdue = [e \in Exports |-> FALSE]
    /\ output = [e \in Exports |-> "none"]
    /\ requeued = [e \in Exports |-> FALSE]
    /\ stage = [w \in Workers |-> "off"]
    /\ job = [w \in Workers |-> NoExport]
    /\ faults = 0

Fault == faults < MaxFaults /\ faults' = faults + 1

Pending == {e \in Exports : status[e] = "pending"}

----------------------------------------------------------------------------
(* The API process and the clock.                                          *)

\* HandleCreateExport -> CreateExport.
CreateExport(e) ==
    /\ status[e] = "absent"
    /\ \A d \in 1..(e - 1) : status[d] # "absent"
    /\ status' = [status EXCEPT ![e] = "pending"]
    /\ UNCHANGED <<leaderVars, overdue, output, requeued, stage, job, faults>>

\* stuckJobTimeout passes since started_at.
TimeoutElapses(e) ==
    /\ status[e] = "processing"
    /\ ~overdue[e]
    /\ overdue' = [overdue EXCEPT ![e] = TRUE]
    /\ UNCHANGED <<leaderVars, status, output, requeued, stage, job, faults>>

----------------------------------------------------------------------------
(* The export goroutine of worker w.                                       *)

\* A statement run with the worker's ctx: it fails at once when the ctx is
\* cancelled, may fail on a database fault, and otherwise takes effect.
Exec(w, Effect, NoEffect) ==
    \/ ~cancelled[w] /\ Effect /\ UNCHANGED faults
    \/ cancelled[w] /\ NoEffect /\ UNCHANGED faults
    \/ ~cancelled[w] /\ NoEffect /\ Fault

\* Mutant of Stuck: the WHERE clause loses its status test.
StuckAnyStatus == {e \in Exports : overdue[e]}

Stuck == {e \in Exports : status[e] = "processing" /\ overdue[e]}

\* Worker.Start: RequeueStuckExports once, then go runLoop.
StartWorker(w) ==
    /\ stage[w] = "boot"
    /\ stage' = [stage EXCEPT ![w] = "idle"]
    /\ Exec(w,
            /\ status' = [e \in Exports |-> IF e \in Stuck THEN "pending" ELSE status[e]]
            /\ overdue' = [e \in Exports |-> overdue[e] /\ e \notin Stuck]
            /\ requeued' = [e \in Exports |-> requeued[e] \/ e \in Stuck],
            UNCHANGED <<status, overdue, requeued>>)
    /\ UNCHANGED <<leaderVars, output, job>>

\* Mutant of MarkProcessing: the row is not checked to be pending any more.
MarkProcessingUnchecked(e) ==
    /\ status[e] \in {"pending", "processing"}
    /\ status' = [status EXCEPT ![e] = "processing"]
    /\ overdue' = [overdue EXCEPT ![e] = FALSE]

\* The UPDATE ... WHERE id = (SELECT ... FOR UPDATE SKIP LOCKED) statement.
MarkProcessing(e) ==
    /\ e \in Pending
    /\ \A d \in Pending : e <= d
    /\ status' = [status EXCEPT ![e] = "processing"]
    /\ overdue' = [overdue EXCEPT ![e] = FALSE]

\* drainQueue -> ClaimNextExport returns a row.
ClaimNextExport(w) ==
    /\ stage[w] = "idle"
    /\ ~cancelled[w]
    /\ \E e \in Exports :
         /\ MarkProcessing(e)
         /\ job' = [job EXCEPT ![w] = e]
    /\ stage' = [stage EXCEPT ![w] = "claimed"]
    /\ UNCHANGED <<leaderVars, output, requeued, faults>>

\* The claim commits but its answer is lost with the pool connection (or to
\* a cancel that arrives while the row is being read): drainQueue returns.
ClaimAnswerLost(w) ==
    /\ stage[w] = "idle"
    /\ ~cancelled[w]
    /\ Fault
    /\ \E e \in Exports : MarkProcessing(e)
    /\ UNCHANGED <<leaderVars, output, requeued, stage, job>>

\* Mutant of PrepareFails: an early return that forgets markFailed.
PrepareReturnsEarly(w) ==
    /\ stage[w] = "claimed"
    /\ stage' = [stage EXCEPT ![w] = "idle"]
    /\ job' = [job EXCEPT ![w] = NoExport]
    /\ UNCHANGED <<leaderVars, status, overdue, output, requeued, faults>>

\* processExport up to FFmpeg: no segments, a failed query or an unwritable
\* concat list ends in markFailed; a cancelled ctx fails the query.
PrepareFails(w) ==
    /\ stage[w] = "claimed"
    /\ stage' = [stage EXCEPT ![w] = "failing"]
    /\ UNCHANGED <<leaderVars, status, overdue, output, requeued, job, faults>>

\* exec.CommandContext(ctx, ffmpeg -y ...): truncates the output file.
StartFFmpeg(w) ==
    /\ stage[w] = "claimed"
    /\ ~cancelled[w]
    /\ stage' = [stage EXCEPT ![w] = "ffmpeg"]
    /\ output' = [output EXCEPT ![job[w]] = "torn"]
    /\ UNCHANGED <<leaderVars, status, overdue, requeued, job, faults>>

\* FFmpeg exits 0.  If another FFmpeg is writing the same path, or has
\* written it meanwhile, the bytes on disk may be anything.
FFmpegSucceeds(w) ==
    /\ stage[w] = "ffmpeg"
    /\ stage' = [stage EXCEPT ![w] = "muxed"]
    /\ \E result \in {"whole"} \cup (IF requeued[job[w]] THEN {"torn"} ELSE {}) :
         output' = [output EXCEPT ![job[w]] = result]
    /\ UNCHANGED <<leaderVars, status, overdue, requeued, job, faults>>

\* Mutant of FFmpegFails: the exit status of FFmpeg is ignored.
FFmpegErrorIgnored(w) ==
    /\ stage[w] = "ffmpeg"
    /\ stage' = [stage EXCEPT ![w] = "muxed"]
    /\ UNCHANGED <<leaderVars, status, overdue, output, requeued, job, faults>>

\* FFmpeg exits non-zero, or CommandContext kills it because ctx is done.
FFmpegFails(w) ==
    /\ stage[w] = "ffmpeg"
    /\ stage' = [stage EXCEPT ![w] = "failing"]
    /\ UNCHANGED <<leaderVars, status, overdue, output, requeued, job, faults>>

\* UpdateExportStatus(ctx, id, ...): by id alone, whatever the row says now.
\* Its error is only logged; either way drainQueue goes on.
UpdateExportStatus(w, s) ==
    /\ Exec(w, status' = [status EXCEPT ![job[w]] = s], UNCHANGED status)
    /\ stage' = [stage EXCEPT ![w] = "idle"]
    /\ job' = [job EXCEPT ![w] = NoExport]
    /\ UNCHANGED <<leaderVars, overdue, output, requeued>>

MarkCompleted(w) == stage[w] = "muxed" /\ UpdateExportStatus(w, "completed")
\* Mutant of MarkFailed: a failed job ends the poll loop.
MarkFailedReturns(w) ==
    /\ stage[w] = "failing"
    /\ Exec(w, status' = [status EXCEPT ![job[w]] = "failed"], UNCHANGED status)
    /\ stage' = [stage EXCEPT ![w] = "stopped"]
    /\ job' = [job EXCEPT ![w] = NoExport]
    /\ UNCHANGED <<leaderVars, overdue, output, requeued>>

MarkFailed(w) == stage[w] = "failing" /\ UpdateExportStatus(w, "failed")

\* runLoop sees ctx.Done() and returns.
StopLoop(w) ==
    /\ stage[w] = "idle"
    /\ cancelled[w]
    /\ stage' = [stage EXCEPT ![w] = "stopped"]
    /\ UNCHANGED <<leaderVars, status, overdue, output, requeued, job, faults>>

----------------------------------------------------------------------------
(* The worker process around it.                                           *)

BecomeLeader(w) ==
    /\ TryLockWins(w)
    /\ stage' = [stage EXCEPT ![w] = "boot"]
    /\ UNCHANGED <<status, overdue, output, requeued, job, faults>>

\* main leaves its select, which it reaches after every Start.
OnSignal(w) ==
    /\ stage[w] # "boot"
    /\ Fault
    /\ Signal(w)
    /\ UNCHANGED queueVars

OnCancelled(w) ==
    /\ stage[w] # "boot"
    /\ LeaveOnCancel(w)
    /\ UNCHANGED <<queueVars, faults>>

\* exportWorker.Wait() returns, main returns, deferred Release.
ExitAfterWait(w) ==
    /\ stage[w] = "stopped"
    /\ Exit(w)
    /\ stage' = [stage EXCEPT ![w] = "off"]
    /\ UNCHANGED <<status, overdue, output, requeued, job, faults>>

CrashWorker(w) ==
    /\ Fault
    /\ Crash(w)
    /\ stage' = [stage EXCEPT ![w] = "off"]
    /\ job' = [job EXCEPT ![w] = NoExport]
    /\ UNCHANGED <<status, overdue, output, requeued>>

BreakConnection(w) == Fault /\ ConnectionBreaks(w) /\ UNCHANGED queueVars

Election(w) ==
    /\ \/ Connect(w)
       \/ TryLockError(w)
       \/ HeartbeatFails(w)
       \/ CancelOnLost(w)
    /\ UNCHANGED <<queueVars, faults>>

Reap == ServerReaps /\ UNCHANGED <<queueVars, faults>>

Goroutine(w) ==
    \/ StartWorker(w)
    \/ ClaimNextExport(w)
    \/ PrepareFails(w)
    \/ StartFFmpeg(w)
    \/ FFmpegSucceeds(w)
    \/ FFmpegFails(w)
    \/ MarkCompleted(w)
    \/ MarkFailed(w)
    \/ StopLoop(w)

Next ==
    \/ \E e \in Exports : CreateExport(e) \/ TimeoutElapses(e)
    \/ Reap
    \/ \E w \in Workers :
         \/ Goroutine(w)
         \/ ClaimAnswerLost(w)
         \/ Election(w)
         \/ BecomeLeader(w)
         \/ OnSignal(w)
         \/ OnCancelled(w)
         \/ ExitAfterWait(w)
         \/ CrashWorker(w)
         \/ BreakConnection(w)

\* Live processes and the clock move on; faults are never owed.
Fairness ==
    /\ WF_vars(Reap)
    /\ \A e \in Exports : WF_vars(TimeoutElapses(e))
    /\ \A w \in Workers :
         /\ WF_vars(Goroutine(w))
         /\ WF_vars(Election(w))
         /\ SF_vars(BecomeLeader(w))
         /\ WF_vars(OnCancelled(w))
         /\ WF_vars(ExitAfterWait(w))

Spec == Init /\ [][Next]_vars /\ Fairness

----------------------------------------------------------------------------
(* Properties.                                                             *)

\* ClaimNextExport hands a row to one worker: two workers hold the same
\* export only if RequeueStuckExports took it from the first one.
ClaimsAreExclusive ==
    \A v, w \in Workers :
        v # w /\ job[v] = job[w] /\ job[v] # NoExport => requeued[job[v]]

\* A row that says completed and was never requeued has its whole file.
CompletedIsWhole ==
    \A e \in Exports : status[e] = "completed" /\ ~requeued[e] => output[e] = "whole"

\* The rows are what their status says: the types, one holder per row, a whole
\* file behind every completed one.
QueueInvariant == TypeOK /\ ClaimsAreExclusive /\ CompletedIsWhole

\* Without a fault no row is 'processing' with no worker processing it: each
\* way out of processExport writes a final status.
AbandonedNeedsFault ==
    \A e \in Exports :
        status[e] = "processing" /\ faults = 0 => \E w \in Workers : job[w] = e

\* A settled export is never put back on the queue, however late a stale
\* worker, a restart or a requeue comes.
SettledIsNotReopened ==
    [][\A e \in Exports :
         status[e] \in {"completed", "failed"} => status'[e] \in {"completed", "failed"}]_vars

\* Every pending export is eventually claimed, whatever crashes, signals and
\* lost sessions precede it.
PendingIsClaimed ==
    \A e \in Exports : status[e] = "pending" ~> status[e] # "pending"

=============================================================================
