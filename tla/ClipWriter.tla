------------------------------ MODULE ClipWriter ------------------------------
(***************************************************************************)
(* Event-triggered clips: internal/recording/clip_writer.go and the ring   *)
(* cleaner of internal/recording/engine.go.  FFmpeg writes short segments  *)
(* into a ring directory; a trigger opens a clip window with pre- and      *)
(* post-buffer; a goroutine waits for the window to end and copies its     *)
(* segments; a ticker deletes old segments while nobody needs them.        *)
(*                                                                         *)
(* The clock ticks once per ring segment, which is also the 5 s margin of  *)
(* collectRingSegments and CleanRingBuffer.  Each critical section and     *)
(* each file operation is an action.                                       *)
(***************************************************************************)
EXTENDS Integers

CONSTANTS
    PreBuffer, PostBuffer,  \* seconds of the camera settings, in ticks
    MaxLag,                 \* delay from time.Now() in the caller to the lock
    MaxClips, MaxClock

Margin == 1
Clips == 1..MaxClips
Times == 0..MaxClock

ASSUME ClipAssumption ==
    /\ PreBuffer \in Nat /\ PostBuffer \in Nat \ {0}
    /\ MaxLag \in 0..PreBuffer
    /\ MaxClips \in Nat /\ MaxClock \in Nat

VARIABLES
    now,
    ring,         \* segment files in ringDir, by start time
    recording, finalizing, recordingEnd,  \* the fields under cw.mu
    writer,       \* writer[c]: where the writeClip goroutine of clip c is
    start,        \* start[c]: clipStart
    end,          \* end[c]: actualEnd
    todo,         \* todo[c]: segments collected and not yet copied
    copied,       \* copied[c]: segments in the clip directory
    saved,        \* saved[c]: the clip has its row
    cleaner,      \* where CleanRingBuffer is: idle, past its check, removing
    victims,      \* what it is going to remove
    triggered,    \* history: the event times TriggerEvent was called with
    leadUp,       \* history: leadUp[c]: the pre-buffer present at the trigger
    exposed       \* history: clips that met a cleaner past its check, or
                  \* another clip being finalized

shared == <<recording, finalizing, recordingEnd>>
clip == <<start, end, todo, copied, saved>>
clipHistory == <<triggered, leadUp, exposed>>
clipVars == <<now, ring, shared, writer, clip, cleaner, victims, clipHistory>>

Phases == {"none", "waiting", "expired", "finalizing", "copying", "leaving", "done"}

ClipTypeOK ==
    /\ now \in Times
    /\ ring \subseteq Times
    /\ recording \in BOOLEAN /\ finalizing \in BOOLEAN
    /\ recordingEnd \in Times
    /\ writer \in [Clips -> Phases]
    /\ start \in [Clips -> Int]
    /\ end \in [Clips -> Times]
    /\ todo \in [Clips -> SUBSET Times]
    /\ copied \in [Clips -> SUBSET Times]
    /\ saved \in [Clips -> BOOLEAN]
    /\ cleaner \in {"idle", "checked", "removing"}
    /\ victims \subseteq Times
    /\ triggered \subseteq Times
    /\ leadUp \in [Clips -> SUBSET Times]
    /\ exposed \subseteq Clips

ClipInit ==
    /\ now = 0
    /\ ring = {0}
    /\ recording = FALSE /\ finalizing = FALSE
    /\ recordingEnd = 0
    /\ writer = [c \in Clips |-> "none"]
    /\ start = [c \in Clips |-> 0]
    /\ end = [c \in Clips |-> 0]
    /\ todo = [c \in Clips |-> {}]
    /\ copied = [c \in Clips |-> {}]
    /\ saved = [c \in Clips |-> FALSE]
    /\ cleaner = "idle" /\ victims = {}
    /\ triggered = {}
    /\ leadUp = [c \in Clips |-> {}]
    /\ exposed = {}

Goto(c, from, to) == writer[c] = from /\ writer' = [writer EXCEPT ![c] = to]

\* FFmpeg starts the next ring segment.
Tick ==
    /\ now < MaxClock
    /\ now' = now + 1
    /\ ring' = ring \cup {now + 1}
    /\ UNCHANGED <<shared, writer, clip, cleaner, victims, clipHistory>>

----------------------------------------------------------------------------
(* TriggerEvent, called with event time t.                                 *)

\* Mutant of ExtendClip: a trigger during a recording is ignored.
ExtendClipIgnored(t) ==
    /\ recording
    /\ triggered' = triggered \cup {t}
    /\ UNCHANGED <<now, ring, shared, writer, clip, cleaner, victims, leadUp, exposed>>

\* ... while a clip is recording: extend its window.
ExtendClip(t) ==
    /\ recording
    /\ recordingEnd' = IF t + PostBuffer > recordingEnd THEN t + PostBuffer ELSE recordingEnd
    /\ triggered' = triggered \cup {t}
    /\ UNCHANGED <<now, ring, recording, finalizing, writer, clip, cleaner, victims,
                   leadUp, exposed>>

\* The ring segments that collectRingSegments takes for a window.
InWindow(from, to) == {s \in ring : s < to /\ s > from - Margin}

\* ... otherwise: open a new clip and start its goroutine.
StartClip(c, t) ==
    /\ ~recording
    /\ \A d \in Clips : d < c => writer[d] # "none"
    /\ Goto(c, "none", "waiting")
    /\ recording' = TRUE
    /\ recordingEnd' = t + PostBuffer
    /\ start' = [start EXCEPT ![c] = t - PreBuffer]
    /\ triggered' = triggered \cup {t}
    /\ leadUp' = [leadUp EXCEPT ![c] = InWindow(t - PreBuffer, t + PostBuffer)]
    /\ exposed' = IF cleaner = "idle" THEN exposed ELSE exposed \cup {c}
    /\ UNCHANGED <<now, ring, finalizing, end, todo, copied, saved, cleaner, victims>>

TriggerEvent ==
    \E t \in Times :
        /\ now - MaxLag <= t /\ t <= now
        /\ t + PostBuffer <= MaxClock
        /\ ExtendClip(t) \/ \E c \in Clips : StartClip(c, t)

----------------------------------------------------------------------------
(* writeClip.                                                              *)

\* The wait loop reads recordingEnd under the lock and finds it passed.
WaitOver(c) ==
    /\ recordingEnd <= now
    /\ Goto(c, "waiting", "expired")
    /\ UNCHANGED <<now, ring, shared, clip, cleaner, victims, clipHistory>>

\* Being finalized: the goroutine owes the deferred reset of the flag.
Finalizing(c) == writer[c] \in {"finalizing", "copying", "leaving"}

\* Mutant of BeginFinalize: `recording' is not cleared.
BeginFinalizeKeepsRecording(c) ==
    /\ Goto(c, "expired", "finalizing")
    /\ end' = [end EXCEPT ![c] = recordingEnd]
    /\ finalizing' = TRUE
    /\ UNCHANGED <<now, ring, recording, recordingEnd, start, todo, copied, saved, cleaner,
                   victims, clipHistory>>

\* The second critical section.
BeginFinalize(c) ==
    /\ Goto(c, "expired", "finalizing")
    /\ end' = [end EXCEPT ![c] = recordingEnd]
    /\ recording' = FALSE
    /\ finalizing' = TRUE
    /\ exposed' = LET others == {d \in Clips : Finalizing(d)}
                  IN  exposed \cup others \cup (IF others = {} THEN {} ELSE {c})
    /\ UNCHANGED <<now, ring, recordingEnd, start, todo, copied, saved, cleaner, victims,
                   triggered, leadUp>>

\* collectRingSegments; with nothing to copy, or when the directory cannot be
\* read, the goroutine returns.
CollectRingSegments(c) ==
    \E found \in {InWindow(start[c], end[c]), {}} :
        /\ Goto(c, "finalizing", IF found = {} THEN "leaving" ELSE "copying")
        /\ todo' = [todo EXCEPT ![c] = found]
        /\ UNCHANGED <<now, ring, shared, start, end, copied, saved, cleaner, victims, clipHistory>>

\* Mutant of CopySegment: an unreadable segment is tried again.
CopySegmentRetries(c, s) ==
    /\ writer[c] = "copying"
    /\ s \in todo[c] /\ \A x \in todo[c] : s <= x
    /\ s \in ring
    /\ copied' = [copied EXCEPT ![c] = @ \cup {s}]
    /\ todo' = [todo EXCEPT ![c] = @ \ {s}]
    /\ UNCHANGED <<now, ring, shared, writer, start, end, saved, cleaner, victims, clipHistory>>

\* One round of the copy loop, oldest first; a segment that is gone is skipped.
\* The destination disk takes every write.
CopySegment(c, s) ==
    /\ writer[c] = "copying"
    /\ s \in todo[c] /\ \A x \in todo[c] : s <= x
    /\ copied' = [copied EXCEPT ![c] = IF s \in ring THEN @ \cup {s} ELSE @]
    /\ todo' = [todo EXCEPT ![c] = @ \ {s}]
    /\ UNCHANGED <<now, ring, shared, writer, start, end, saved, cleaner, victims, clipHistory>>

\* InsertSegment; its failure is logged.
InsertSegment(c) ==
    /\ todo[c] = {}
    /\ Goto(c, "copying", "leaving")
    /\ \E ok \in BOOLEAN : saved' = [saved EXCEPT ![c] = ok]
    /\ UNCHANGED <<now, ring, shared, start, end, todo, copied, cleaner, victims, clipHistory>>

\* The deferred reset.
Leave(c) ==
    /\ Goto(c, "leaving", "done")
    /\ finalizing' = FALSE
    /\ UNCHANGED <<now, ring, recording, recordingEnd, clip, cleaner, victims, clipHistory>>

WriteClip(c) ==
    \/ WaitOver(c)
    \/ BeginFinalize(c)
    \/ CollectRingSegments(c)
    \/ \E s \in Times : CopySegment(c, s)
    \/ InsertSegment(c)
    \/ Leave(c)

----------------------------------------------------------------------------
(* CleanRingBuffer, every 5 s.                                             *)

\* Mutant of CleanCheck: only `recording' is tested.
CleanCheckRecordingOnly ==
    /\ cleaner = "idle"
    /\ ~recording
    /\ cleaner' = "checked"
    /\ UNCHANGED <<now, ring, shared, writer, clip, victims, clipHistory>>

\* It reads the two flags under the lock and returns when one is set.
CleanCheck ==
    /\ cleaner = "idle"
    /\ ~recording /\ ~finalizing
    /\ cleaner' = "checked"
    /\ UNCHANGED <<now, ring, shared, writer, clip, victims, clipHistory>>

\* Without the lock it takes the time and lists the directory ...
CleanList ==
    /\ cleaner = "checked"
    /\ victims' = {s \in ring : s < now - (PreBuffer + Margin)}
    /\ cleaner' = "removing"
    /\ UNCHANGED <<now, ring, shared, writer, clip, clipHistory>>

\* ... and removes what is too old, file by file in name order.
CleanRemove ==
    /\ cleaner = "removing"
    /\ IF victims = {}
         THEN cleaner' = "idle" /\ UNCHANGED <<ring, victims>>
         ELSE \E s \in victims : /\ \A x \in victims : s <= x
                                 /\ victims' = victims \ {s}
                                 /\ ring' = ring \ {s}
                                 /\ UNCHANGED cleaner
    /\ UNCHANGED <<now, shared, writer, clip, clipHistory>>

ClipNext ==
    \/ Tick
    \/ TriggerEvent
    \/ \E c \in Clips : WriteClip(c)
    \/ CleanCheck
    \/ CleanList
    \/ CleanRemove

\* Time passes and started goroutines run; events are not owed.
ClipSpec ==
    /\ ClipInit /\ [][ClipNext]_clipVars
    /\ WF_clipVars(Tick)
    /\ \A c \in Clips : WF_clipVars(WriteClip(c))

----------------------------------------------------------------------------
(* Properties.                                                             *)

Open(c) == writer[c] \in {"waiting", "expired"}

\* `recording' is set exactly while one goroutine is waiting for its window to
\* end, so a trigger always extends a live clip or starts one.
RecordingHasOneWriter ==
    /\ recording <=> \E c \in Clips : Open(c)
    /\ \A c, d \in Clips : Open(c) /\ Open(d) => c = d

\* Where the window of c ends: cw.recordingEnd until it is finalized.
WindowEnd(c) == IF Open(c) THEN recordingEnd ELSE end[c]

\* Every trigger, with its post-buffer, lies in the window of some clip,
\* however it interleaves with a goroutine that ends its wait, and also when
\* two callers reach the lock in the wrong order.
TriggersAreCovered ==
    \A t \in triggered :
        \E c \in Clips :
            writer[c] # "none" /\ start[c] <= t /\ t + PostBuffer <= WindowEnd(c)

\* The pre-buffer survives until it is copied: a clip that met no cleaner past
\* its check and no other clip being finalized has every segment of its
\* lead-up, for any number of clips and cleaner rounds in between.
LeadUpIsKept ==
    \A c \in Clips \ exposed : saved[c] => leadUp[c] \subseteq copied[c]

\* Every clip that was started is finalized, also when segments vanish while
\* it is copied.
ClipsAreFinalized ==
    \A c \in Clips : writer[c] = "waiting" ~> writer[c] = "done"

=============================================================================
