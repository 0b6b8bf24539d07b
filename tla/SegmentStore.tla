----------------------------- MODULE SegmentStore -----------------------------
(***************************************************************************)
(* The recordings of one camera in continuous mode: FFmpeg runs that write *)
(* segment files, the watcher of each run that registers them, the restart *)
(* loop (internal/recording/engine.go), and the retention manager that     *)
(* deletes rows and then files (internal/recording/retention.go).          *)
(*                                                                         *)
(* Segments are numbered in the order of their names, which is the order   *)
(* of time.  A file's modification time is abstracted to the run that last *)
(* wrote it: a watcher's startedAt lies after every write of earlier runs. *)
(***************************************************************************)
EXTENDS Naturals, FiniteSets

CONSTANTS
    MaxSegments, MaxRuns,
    Cap,        \* segments a location may hold before retention prunes it
    Batch,      \* rows one DeleteOldestSegmentsByPath takes
    MaxFaults   \* failed inserts, failed removals and retention crashes

Segments == 1..MaxSegments
Runs == 0..MaxRuns

ASSUME SegmentAssumption ==
    /\ MaxSegments \in Nat /\ MaxRuns \in Nat
    /\ Cap \in Nat /\ Batch \in Nat \ {0} /\ MaxFaults \in Nat

VARIABLES
    run,      \* number of FFmpeg runs so far
    alive,    \* FFmpeg of the current run is running, and so is its watcher
    last,     \* the newest segment; while alive FFmpeg is writing it
    file,     \* file[s]: the file on disk
    writtenIn,\* writtenIn[s]: the run that wrote it
    rows,     \* rows[s]: rows of the segments table for it
    seen,     \* the watcher's seen map
    scan,     \* entries of the watcher's directory listing still to process
    doomed,   \* paths whose rows retention has deleted, files still to remove
    budget,   \* segments the current capacity pass has still to free
    indexed,  \* history: segments that ever had a row
    lost,     \* history: segments whose INSERT failed
    faults

disk == <<run, alive, last, file, writtenIn>>
watcher == <<seen, scan>>
retention == <<doomed, budget>>
history == <<indexed, lost>>
vars == <<disk, rows, watcher, retention, history, faults>>

OnDisk(s) == file[s] \in {"writing", "whole", "torn"}

TypeOK ==
    /\ run \in Runs /\ alive \in BOOLEAN
    /\ last \in 0..MaxSegments
    /\ file \in [Segments -> {"none", "writing", "whole", "torn", "removed"}]
    /\ writtenIn \in [Segments -> Runs]
    /\ rows \in [Segments -> Nat]
    /\ seen \subseteq Segments /\ scan \subseteq Segments
    /\ doomed \subseteq Segments /\ budget \in 0..MaxSegments
    /\ indexed \subseteq Segments /\ lost \subseteq Segments
    /\ faults \in 0..MaxFaults

Init ==
    /\ run = 0 /\ alive = FALSE /\ last = 0
    /\ file = [s \in Segments |-> "none"]
    /\ writtenIn = [s \in Segments |-> 0]
    /\ rows = [s \in Segments |-> 0]
    /\ seen = {} /\ scan = {}
    /\ doomed = {} /\ budget = 0
    /\ indexed = {} /\ lost = {}
    /\ faults = 0

Fault == faults < MaxFaults /\ faults' = faults + 1

----------------------------------------------------------------------------
(* recordLoop and FFmpeg.                                                  *)

\* runFFmpeg: a new process and a new watcher.
StartRun ==
    /\ ~alive
    /\ run < MaxRuns
    /\ alive' = TRUE
    /\ run' = run + 1
    /\ seen' = {} /\ scan' = {}
    /\ UNCHANGED <<last, file, writtenIn, rows, retention, history, faults>>

\* FFmpeg opens the next segment.  The previous one gets its moov a moment
\* later.
Rotate ==
    /\ alive
    /\ last < MaxSegments
    /\ last' = last + 1
    /\ file' = [file EXCEPT ![last + 1] = "writing"]
    /\ writtenIn' = [writtenIn EXCEPT ![last + 1] = run]
    /\ UNCHANGED <<run, alive, rows, watcher, retention, history, faults>>

FinalizeFile(s) ==
    /\ alive
    /\ s < last
    /\ file[s] = "writing"
    /\ file' = [file EXCEPT ![s] = "whole"]
    /\ UNCHANGED <<run, alive, last, writtenIn, rows, watcher, retention, history, faults>>

\* The process ends: the stream broke, the stall watchdog or Stop killed it,
\* or the server died.  Open files end up playable or torn, and the deferred
\* runCancel ends the watcher.
RunEnds ==
    /\ alive
    /\ alive' = FALSE
    /\ \E outcome \in {"whole", "torn"} :
         file' = [s \in Segments |-> IF file[s] = "writing" THEN outcome ELSE file[s]]
    /\ seen' = {} /\ scan' = {}
    /\ UNCHANGED <<run, last, writtenIn, rows, retention, history, faults>>

----------------------------------------------------------------------------
(* watchSegments, every 10 s.                                              *)

\* The last entry of the listing, taken for the one FFmpeg has open.
Newest(s) == OnDisk(s) /\ \A t \in Segments : OnDisk(t) => t <= s

\* Mutant of BeginScan: the newest segment is marked as seen.
BeginScanMarksNewest ==
    /\ alive
    /\ scan = {}
    /\ scan' = {s \in Segments \ seen : OnDisk(s) /\ ~Newest(s)}
    /\ seen' = seen \cup {s \in Segments : Newest(s)}
    /\ UNCHANGED <<disk, rows, retention, history, faults>>

\* ReadDir; entries already seen and the newest are skipped.
BeginScan ==
    /\ alive
    /\ scan = {}
    /\ scan' = {s \in Segments \ seen : OnDisk(s) /\ ~Newest(s)}
    /\ scan' # {}
    /\ UNCHANGED <<disk, rows, seen, retention, history, faults>>

\* Mutant of FromEarlierRun: every restart registers the backlog again.
FromEarlierRunNever(s) == FALSE

\* info.ModTime().Before(startedAt).
FromEarlierRun(s) == writtenIn[s] < run

\* One entry of the listing, in name order.
ScanEntry(s) ==
    /\ s \in scan /\ \A t \in scan : s <= t
    /\ scan' = scan \ {s}
    /\ \/ \* gone since the listing, or the codec probe finds no moov: next scan
          /\ ~OnDisk(s) \/ (~FromEarlierRun(s) /\ file[s] # "whole")
          /\ UNCHANGED <<rows, seen, history, faults>>
       \/ \* an old file: "already in the DB"
          /\ OnDisk(s) /\ FromEarlierRun(s)
          /\ seen' = seen \cup {s}
          /\ UNCHANGED <<rows, history, faults>>
       \/ \* InsertSegment
          /\ file[s] = "whole" /\ ~FromEarlierRun(s)
          /\ seen' = seen \cup {s}
          /\ rows' = [rows EXCEPT ![s] = @ + 1]
          /\ indexed' = indexed \cup {s}
          /\ UNCHANGED <<lost, faults>>
       \/ \* InsertSegment fails; the file is marked seen all the same
          /\ file[s] = "whole" /\ ~FromEarlierRun(s)
          /\ Fault
          /\ seen' = seen \cup {s}
          /\ lost' = lost \cup {s}
          /\ UNCHANGED <<rows, indexed>>
    /\ UNCHANGED <<disk, retention>>

----------------------------------------------------------------------------
(* RetentionManager.cleanup: one pass at a time, rows before files.        *)

Indexed == {s \in Segments : rows[s] > 0}

\* DELETE ... RETURNING file_path, then the caller's loop over the paths.
DeleteRows(gone) ==
    /\ rows' = [s \in Segments |-> IF s \in gone THEN 0 ELSE rows[s]]
    /\ doomed' = gone

\* Mutant of DeleteOldSegments: files first, rows when they are gone.
DeleteOldSegmentsFilesFirst(cutoff) ==
    /\ doomed = {} /\ budget = 0
    /\ doomed' = {s \in Indexed : s < cutoff}
    /\ doomed' # {}
    /\ UNCHANGED <<disk, rows, watcher, budget, history, faults>>

\* enforceRetentionDays: the rows that end before the cutoff.
DeleteOldSegments(cutoff) ==
    LET old == {s \in Indexed : s < cutoff}
    IN  /\ doomed = {} /\ budget = 0
        /\ old # {}
        /\ DeleteRows(old)
        /\ UNCHANGED <<disk, watcher, budget, history, faults>>

\* enforceStorageCaps: usage is the sum over the rows.
OverCap ==
    /\ doomed = {} /\ budget = 0
    /\ Cardinality(Indexed) > Cap
    /\ budget' = Cardinality(Indexed) - Cap
    /\ UNCHANGED <<disk, rows, watcher, doomed, history, faults>>

\* enforceCapacitySafetyValve: usage is what the file system says.
ValveTrips ==
    /\ doomed = {} /\ budget = 0
    /\ LET used == Cardinality({s \in Segments : OnDisk(s)})
       IN  used > Cap /\ budget' = used - Cap
    /\ UNCHANGED <<disk, rows, watcher, doomed, history, faults>>

\* Mutant of OldestRows: the newest rows go first.
OldestRowsReversed(n) ==
    {s \in Indexed : Cardinality({t \in Indexed : t >= s}) <= n}

\* ORDER BY start_time ASC LIMIT n.
OldestRows(n) == {s \in Indexed : Cardinality({t \in Indexed : t <= s}) <= n}

\* One round of either loop, which goes on until enough is freed ...
DeleteOldestSegmentsByPath ==
    /\ doomed = {} /\ budget > 0 /\ Indexed # {}
    /\ LET oldest == OldestRows(Batch)
       IN  /\ DeleteRows(oldest)
           /\ budget' = IF Cardinality(oldest) < budget
                          THEN budget - Cardinality(oldest) ELSE 0
    /\ UNCHANGED <<disk, watcher, history, faults>>

\* ... or nothing is left to delete.
PassGivesUp ==
    /\ doomed = {} /\ budget > 0 /\ Indexed = {}
    /\ budget' = 0
    /\ UNCHANGED <<disk, rows, watcher, doomed, history, faults>>

\* removeSegmentAndCache; a file that cannot be removed is logged and left.
RemoveFile(s) ==
    /\ s \in doomed
    /\ doomed' = doomed \ {s}
    /\ \/ file' = [file EXCEPT ![s] = "removed"] /\ UNCHANGED faults
       \/ Fault /\ UNCHANGED file
    /\ UNCHANGED <<run, alive, last, writtenIn, rows, watcher, budget, history>>

\* The process of the retention manager dies; the next one starts afresh.
RetentionCrash ==
    /\ doomed # {} \/ budget > 0
    /\ Fault
    /\ doomed' = {} /\ budget' = 0
    /\ UNCHANGED <<disk, rows, watcher, history>>

Cleanup ==
    \/ \E cutoff \in Segments : DeleteOldSegments(cutoff)
    \/ OverCap
    \/ ValveTrips
    \/ DeleteOldestSegmentsByPath
    \/ PassGivesUp
    \/ \E s \in Segments : RemoveFile(s)

Next ==
    \/ StartRun
    \/ Rotate
    \/ \E s \in Segments : FinalizeFile(s)
    \/ RunEnds
    \/ BeginScan
    \/ \E s \in Segments : ScanEntry(s)
    \/ Cleanup
    \/ RetentionCrash

\* The watcher's ticker, FFmpeg's muxer and the retention loops go on; new
\* segments, ends of runs and cutoffs are not owed.
Spec ==
    /\ Init /\ [][Next]_vars
    /\ WF_vars(BeginScan)
    /\ \A s \in Segments :
         WF_vars(ScanEntry(s)) /\ WF_vars(FinalizeFile(s)) /\ WF_vars(RemoveFile(s))
    /\ WF_vars(DeleteOldestSegmentsByPath)

----------------------------------------------------------------------------
(* Properties.                                                             *)

\* Every row of the timeline plays: its file is on disk, finalized, and has
\* not been removed, whatever restarts, scans and retention passes overlap
\* and wherever retention crashes.
RowsPlay ==
    \A s \in Segments : rows[s] > 0 => file[s] = "whole"

\* The table has no UNIQUE constraint; still a file gets one row, over any
\* number of restarts and rescans.
OneRowPerFile ==
    \A s \in Segments : rows[s] <= 1

\* Retention never leaves an older recording on the timeline when it takes a
\* newer one, in the age pass, the cap and the safety valve alike.
OldestGoFirst ==
    [][\A s, t \in Segments :
         t < s /\ rows[s] > 0 /\ rows'[s] = 0 => rows'[t] = 0]_vars

\* A segment that FFmpeg has rotated away from is registered, unless its run
\* ends first or the INSERT fails.
RotatedIsIndexed ==
    \A s \in Segments :
        (alive /\ writtenIn[s] = run /\ s < last /\ OnDisk(s))
            ~> (s \in indexed \cup lost \/ ~alive \/ writtenIn[s] < run)

=============================================================================
