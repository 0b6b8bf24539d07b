--------------------------- MODULE RecordingProofs ---------------------------
(***************************************************************************)
(* The two halves of internal/recording.                                   *)
(*                                                                         *)
(* Clips, for any buffers, any number of clips and any length of time: the *)
(* flag `recording' belongs to exactly one goroutine, the windows of the   *)
(* clips cover every trigger with its post-buffer, and the pre-buffer of a *)
(* clip is not deleted before it is copied.                                *)
(*                                                                         *)
(* Segments, for any number of segments, FFmpeg runs and faults: every row *)
(* plays, a file has at most one row, and retention takes the oldest rows  *)
(* first.                                                                  *)
(***************************************************************************)
EXTENDS ClipWriter, SegmentStore, FiniteSetTheorems, TLAPS

\* A clip was opened by a trigger that lies in the past, so its pre-buffer
\* reaches back at least as far as any caller still on its way to the lock.
OpenedInPast ==
    \A c \in Clips : writer[c] # "none" => start[c] + PreBuffer <= now

ClipInv == ClipTypeOK /\ RecordingHasOneWriter /\ OpenedInPast /\ TriggersAreCovered

LEMMA ClipInitially == ClipInit => ClipInv
<1> SUFFICES ASSUME ClipInit PROVE ClipInv
  OBVIOUS
<1>1. ClipTypeOK
  <2>1. 0 \in Times /\ {0} \subseteq Times
    BY ClipAssumption DEF Times
  <2>2. /\ writer \in [Clips -> Phases] /\ start \in [Clips -> Int]
        /\ end \in [Clips -> Times] /\ saved \in [Clips -> BOOLEAN]
    BY <2>1 DEF ClipInit, Phases
  <2>3. /\ todo \in [Clips -> SUBSET Times] /\ copied \in [Clips -> SUBSET Times]
        /\ leadUp \in [Clips -> SUBSET Times]
    BY DEF ClipInit
  <2> QED BY <2>1, <2>2, <2>3 DEF ClipInit, ClipTypeOK
<1>2. RecordingHasOneWriter /\ OpenedInPast
  BY DEF ClipInit, RecordingHasOneWriter, OpenedInPast, Open
<1>3. TriggersAreCovered
  BY DEF ClipInit, TriggersAreCovered
<1> QED BY <1>1, <1>2, <1>3 DEF ClipInv

\* The steps of a goroutine behind its wait, and of the cleaner, leave alone
\* what decides whether a trigger is covered.
LEMMA QuietStep ==
    ASSUME ClipInv,
           UNCHANGED <<now, recording, recordingEnd, start, end, triggered>>,
           NEW c \in Clips, NEW from \in Phases, NEW to \in Phases,
           Goto(c, from, to),
           from # "none", to # "none",
           from \in {"waiting", "expired"} <=> to \in {"waiting", "expired"}
    PROVE  RecordingHasOneWriter' /\ OpenedInPast' /\ TriggersAreCovered'
<1>1. \A d \in Clips : /\ Open(d)' <=> Open(d)
                       /\ writer'[d] # "none" <=> writer[d] # "none"
  BY DEF ClipInv, ClipTypeOK, Goto, Open
<1>2. \A d \in Clips : WindowEnd(d)' = WindowEnd(d)
  BY <1>1 DEF WindowEnd
<1>3. RecordingHasOneWriter'
  BY <1>1 DEF ClipInv, RecordingHasOneWriter
<1>4. OpenedInPast'
  BY <1>1 DEF ClipInv, OpenedInPast
<1>5. TriggersAreCovered'
  BY <1>1, <1>2 DEF ClipInv, TriggersAreCovered
<1> QED BY <1>3, <1>4, <1>5

LEMMA ClipTypeStep == ClipInv /\ [ClipNext]_clipVars => ClipTypeOK'
<1> SUFFICES ASSUME ClipInv, [ClipNext]_clipVars PROVE ClipTypeOK'
  OBVIOUS
<1> USE ClipAssumption DEF ClipInv, ClipTypeOK, shared, clip, clipHistory
<1>1. CASE Tick
  BY <1>1 DEF Tick, Times
<1>2. CASE TriggerEvent
  <2>1. PICK t \in Times : /\ t + PostBuffer <= MaxClock
                           /\ ExtendClip(t) \/ \E c \in Clips : StartClip(c, t)
    BY <1>2 DEF TriggerEvent
  <2>2. t \in Nat /\ t + PostBuffer \in Times /\ t - PreBuffer \in Int
    BY <2>1 DEF Times
  <2>3. CASE ExtendClip(t)
    BY <2>2, <2>3 DEF ExtendClip
  <2>4. ASSUME NEW c \in Clips, StartClip(c, t) PROVE ClipTypeOK'
    <3>1. writer' \in [Clips -> Phases]
      BY <2>4 DEF StartClip, Goto, Phases
    <3>2. leadUp' \in [Clips -> SUBSET Times]
      BY <2>4 DEF StartClip, InWindow
    <3>3. start' \in [Clips -> Int] /\ recordingEnd' \in Times
      BY <2>2, <2>4 DEF StartClip
    <3>4. triggered' \subseteq Times /\ exposed' \subseteq Clips
      BY <2>1, <2>4 DEF StartClip
    <3> QED BY <2>4, <3>1, <3>2, <3>3, <3>4 DEF StartClip
  <2> QED BY <2>1, <2>3, <2>4
<1>3. ASSUME NEW c \in Clips, WaitOver(c) PROVE ClipTypeOK'
  BY <1>3 DEF WaitOver, Goto, Phases
<1>4. ASSUME NEW c \in Clips, BeginFinalize(c) PROVE ClipTypeOK'
  <2>1. exposed' \subseteq Clips
    BY <1>4 DEF BeginFinalize
  <2>2. writer' \in [Clips -> Phases] /\ end' \in [Clips -> Times]
    BY <1>4 DEF BeginFinalize, Goto, Phases
  <2> QED BY <1>4, <2>1, <2>2 DEF BeginFinalize
<1>5. ASSUME NEW c \in Clips, CollectRingSegments(c) PROVE ClipTypeOK'
  <2>1. PICK found \in {InWindow(start[c], end[c]), {}} :
              /\ Goto(c, "finalizing", IF found = {} THEN "leaving" ELSE "copying")
              /\ todo' = [todo EXCEPT ![c] = found]
              /\ UNCHANGED <<now, ring, shared, start, end, copied, saved, cleaner, victims, clipHistory>>
    BY <1>5 DEF CollectRingSegments
  <2>2. found \subseteq Times
    BY DEF InWindow
  <2>3. writer' \in [Clips -> Phases]
    BY <2>1 DEF Goto, Phases
  <2>4. todo' \in [Clips -> SUBSET Times]
    BY <2>1, <2>2
  <2> QED BY <2>1, <2>3, <2>4
<1>6. ASSUME NEW c \in Clips, NEW s \in Times, CopySegment(c, s) PROVE ClipTypeOK'
  <2>1. copied' \in [Clips -> SUBSET Times] /\ todo' \in [Clips -> SUBSET Times]
    BY <1>6 DEF CopySegment
  <2> QED BY <1>6, <2>1 DEF CopySegment
<1>7. ASSUME NEW c \in Clips, InsertSegment(c) PROVE ClipTypeOK'
  BY <1>7 DEF InsertSegment, Goto, Phases
<1>8. ASSUME NEW c \in Clips, Leave(c) PROVE ClipTypeOK'
  BY <1>8 DEF Leave, Goto, Phases
<1>9. CASE CleanCheck
  BY <1>9 DEF CleanCheck
<1>10. CASE CleanList
  BY <1>10 DEF CleanList
<1>11. CASE CleanRemove
  BY <1>11 DEF CleanRemove
<1>12. CASE UNCHANGED clipVars
  BY <1>12 DEF clipVars
<1> QED
  BY <1>1, <1>2, <1>3, <1>4, <1>5, <1>6, <1>7, <1>8, <1>9, <1>10, <1>11, <1>12
  DEF ClipNext, WriteClip

LEMMA ClipCoverStep ==
    ClipInv /\ [ClipNext]_clipVars => RecordingHasOneWriter' /\ OpenedInPast' /\ TriggersAreCovered'
<1> DEFINE Rest == RecordingHasOneWriter /\ OpenedInPast /\ TriggersAreCovered
<1> SUFFICES ASSUME ClipInv, [ClipNext]_clipVars PROVE Rest'
  OBVIOUS
<1> USE DEF ClipInv, ClipTypeOK, shared, clip, clipHistory
<1>p. {"none", "waiting", "expired", "finalizing", "copying", "leaving", "done"} = Phases
  BY DEF Phases
<1>n. /\ now \in Nat /\ recordingEnd \in Nat /\ PreBuffer \in Nat /\ PostBuffer \in Nat
      /\ MaxLag \in Nat /\ MaxLag <= PreBuffer
      /\ \A t \in Times : t \in Nat
      /\ \A c \in Clips : end[c] \in Nat /\ start[c] \in Int
  BY ClipAssumption DEF Times
\* Time passes, or a step that touches none of the variables involved.
<1>q. ASSUME UNCHANGED <<recording, recordingEnd, writer, start, end, triggered>>,
             now' \in Nat, now <= now'
      PROVE  Rest'
  <2>1. RecordingHasOneWriter'
    BY <1>q DEF RecordingHasOneWriter, Open
  <2>2. OpenedInPast'
    BY <1>q, <1>n DEF OpenedInPast
  <2>3. TriggersAreCovered'
    BY <1>q DEF TriggersAreCovered, WindowEnd, Open
  <2> QED BY <2>1, <2>2, <2>3
<1>1. CASE Tick
  BY <1>1, <1>q, <1>n DEF Tick
<1>2. ASSUME NEW t \in Times, now - MaxLag <= t, t <= now, ExtendClip(t) PROVE Rest'
  <2>1. PICK c \in Clips : Open(c) /\ \A d \in Clips : Open(d) => d = c
    BY <1>2 DEF ExtendClip, RecordingHasOneWriter
  <2>2. /\ UNCHANGED <<now, recording, writer, start, end>>
        /\ triggered' = triggered \cup {t}
        /\ recordingEnd' = IF t + PostBuffer > recordingEnd THEN t + PostBuffer
                                                            ELSE recordingEnd
    BY <1>2 DEF ExtendClip
  <2>3. /\ recordingEnd' \in Nat
        /\ recordingEnd <= recordingEnd' /\ t + PostBuffer <= recordingEnd'
    BY <2>2, <1>n
  <2>4. \A d \in Clips : WindowEnd(d) \in Nat /\ WindowEnd(d)' \in Nat
                         /\ WindowEnd(d) <= WindowEnd(d)'
    BY <2>2, <2>3, <1>n DEF WindowEnd, Open
  <2>5. RecordingHasOneWriter' /\ OpenedInPast'
    BY <2>2 DEF RecordingHasOneWriter, OpenedInPast, Open
  <2>6. writer[c] # "none" /\ start[c] <= t /\ t + PostBuffer <= WindowEnd(c)'
    <3>1. writer[c] # "none"
      BY <2>1 DEF Open
    <3>2. start[c] + PreBuffer <= now
      BY <3>1 DEF OpenedInPast
    <3>3. WindowEnd(c)' = recordingEnd'
      BY <2>1, <2>2 DEF WindowEnd, Open
    <3>4. start[c] <= t
      BY <3>2, <1>2, <1>n
    <3> QED BY <3>1, <3>3, <3>4, <2>3
  <2>7. ASSUME NEW u \in triggered
        PROVE \E d \in Clips : /\ writer[d] # "none" /\ start[d] <= u
                               /\ u + PostBuffer <= WindowEnd(d)'
    <3>1. PICK d \in Clips : /\ writer[d] # "none" /\ start[d] <= u
                             /\ u + PostBuffer <= WindowEnd(d)
      BY DEF TriggersAreCovered
    <3>2. u + PostBuffer \in Nat
      BY <1>n
    <3>3. u + PostBuffer <= WindowEnd(d)'
      BY <3>1, <3>2, <2>4
    <3> QED BY <3>1, <3>3
  <2>8. TriggersAreCovered'
    BY <2>2, <2>6, <2>7 DEF TriggersAreCovered
  <2> QED BY <2>5, <2>8
<1>3. ASSUME NEW t \in Times, t <= now, NEW c \in Clips, StartClip(c, t) PROVE Rest'
  <2>1. /\ ~recording /\ recording' /\ recordingEnd' = t + PostBuffer
        /\ writer[c] = "none" /\ writer' = [writer EXCEPT ![c] = "waiting"]
        /\ start' = [start EXCEPT ![c] = t - PreBuffer]
        /\ triggered' = triggered \cup {t}
        /\ UNCHANGED <<now, end>>
    BY <1>3 DEF StartClip, Goto
  <2>2. \A d \in Clips : ~Open(d)
    BY <2>1 DEF RecordingHasOneWriter
  <2>3. Open(c)' /\ \A d \in Clips : d # c => ~Open(d)'
    BY <2>1, <2>2 DEF Open
  <2>4. RecordingHasOneWriter'
    BY <2>1, <2>3 DEF RecordingHasOneWriter
  <2>5. OpenedInPast'
    BY <2>1, <1>3, <1>n DEF OpenedInPast
  <2>6. WindowEnd(c)' = t + PostBuffer /\ start'[c] <= t /\ writer'[c] # "none"
    BY <2>1, <2>3, <1>n DEF WindowEnd
  <2>7. ASSUME NEW u \in triggered
        PROVE \E d \in Clips : /\ writer'[d] # "none" /\ start'[d] <= u
                               /\ u + PostBuffer <= WindowEnd(d)'
    <3>1. PICK d \in Clips : /\ writer[d] # "none" /\ start[d] <= u
                             /\ u + PostBuffer <= WindowEnd(d)
      BY DEF TriggersAreCovered
    <3>2. d # c
      BY <2>1, <3>1
    <3>3. writer'[d] = writer[d] /\ start'[d] = start[d] /\ WindowEnd(d)' = WindowEnd(d)
      BY <2>1, <2>2, <2>3, <3>2 DEF WindowEnd
    <3> QED BY <3>1, <3>3
  <2>8. t + PostBuffer <= WindowEnd(c)'
    <3>1. t + PostBuffer \in Int
      BY <1>n
    <3>2. t + PostBuffer <= t + PostBuffer
      BY <3>1
    <3> QED BY <2>6, <3>2
  <2>9. TriggersAreCovered'
    BY <2>1, <2>6, <2>7, <2>8 DEF TriggersAreCovered
  <2> QED BY <2>4, <2>5, <2>9
<1>4. ASSUME NEW c \in Clips, WaitOver(c) PROVE Rest'
  BY <1>4, <1>p, QuietStep DEF WaitOver
<1>5. ASSUME NEW c \in Clips, BeginFinalize(c) PROVE Rest'
  <2>1. /\ writer[c] = "expired" /\ writer' = [writer EXCEPT ![c] = "finalizing"]
        /\ end' = [end EXCEPT ![c] = recordingEnd]
        /\ ~recording'
        /\ UNCHANGED <<now, recordingEnd, start, triggered>>
    BY <1>5 DEF BeginFinalize, Goto
  <2>2. Open(c) /\ \A d \in Clips : ~Open(d)'
    BY <2>1 DEF Open, RecordingHasOneWriter
  <2>3. RecordingHasOneWriter'
    BY <2>1, <2>2 DEF RecordingHasOneWriter
  <2>4. \A d \in Clips : writer'[d] # "none" <=> writer[d] # "none"
    BY <2>1
  <2>5. OpenedInPast'
    BY <2>1, <2>4 DEF OpenedInPast
  <2>6. \A d \in Clips : WindowEnd(d)' = WindowEnd(d)
    <3>1. WindowEnd(c)' = WindowEnd(c)
      BY <2>1, <2>2 DEF WindowEnd
    <3>2. \A d \in Clips : d # c => ~Open(d)
      BY <2>2 DEF RecordingHasOneWriter
    <3> QED BY <2>1, <2>2, <3>1, <3>2 DEF WindowEnd
  <2>7. TriggersAreCovered'
    BY <2>1, <2>4, <2>6 DEF TriggersAreCovered
  <2> QED BY <2>3, <2>5, <2>7
<1>6. ASSUME NEW c \in Clips, CollectRingSegments(c) PROVE Rest'
  <2>1. \/ Goto(c, "finalizing", "leaving")
        \/ Goto(c, "finalizing", "copying")
    BY <1>6 DEF CollectRingSegments
  <2>2. UNCHANGED <<now, recording, recordingEnd, start, end, triggered>>
    BY <1>6 DEF CollectRingSegments
  <2> QED BY <2>1, <2>2, <1>p, QuietStep
<1>7. ASSUME NEW c \in Clips, NEW s \in Times, CopySegment(c, s) PROVE Rest'
  BY <1>7, <1>q, <1>n DEF CopySegment
<1>8. ASSUME NEW c \in Clips, InsertSegment(c) PROVE Rest'
  BY <1>8, <1>p, QuietStep DEF InsertSegment
<1>9. ASSUME NEW c \in Clips, Leave(c) PROVE Rest'
  BY <1>9, <1>p, QuietStep DEF Leave
<1>10. CASE CleanCheck \/ CleanList \/ CleanRemove
  BY <1>10, <1>q, <1>n DEF CleanCheck, CleanList, CleanRemove
<1>11. CASE UNCHANGED clipVars
  BY <1>11, <1>q, <1>n DEF clipVars
<1>12. TriggerEvent => Rest'
  BY <1>2, <1>3 DEF TriggerEvent
<1> QED
  BY <1>1, <1>4, <1>5, <1>6, <1>7, <1>8, <1>9, <1>10, <1>11, <1>12 DEF ClipNext, WriteClip

LEMMA ClipInductive == ClipSpec => []ClipInv
<1>1. ClipInv /\ [ClipNext]_clipVars => ClipInv'
  BY ClipTypeStep, ClipCoverStep DEF ClipInv
<1> QED BY <1>1, ClipInitially, PTL DEF ClipSpec

\* Type correctness of the clip writer and the ring cleaner.
THEOREM ClipTypeCorrect == ClipSpec => []ClipTypeOK
<1>1. ClipInv => ClipTypeOK
  BY DEF ClipInv
<1> QED BY <1>1, ClipInductive, PTL

\* `recording' is set exactly while one writeClip goroutine waits for its
\* window: TriggerEvent never extends a window that nobody watches.
THEOREM OneWriterPerRecording == ClipSpec => []RecordingHasOneWriter
<1>1. ClipInv => RecordingHasOneWriter
  BY DEF ClipInv
<1> QED BY <1>1, ClipInductive, PTL

\* Every trigger and its post-buffer lie in the window of some clip, for any
\* interleaving of TriggerEvent with the two critical sections of writeClip.
THEOREM NoTriggerIsDropped == ClipSpec => []TriggersAreCovered
<1>1. ClipInv => TriggersAreCovered
  BY DEF ClipInv
<1> QED BY <1>1, ClipInductive, PTL

----------------------------------------------------------------------------
(* The pre-buffer.                                                         *)

\* The lead-up of a clip lies in its window, which only grows.
LeadUpInWindow ==
    \A c \in Clips : writer[c] # "none" =>
        \A s \in leadUp[c] : start[c] - Margin < s /\ s < WindowEnd(c)

\* A clip that met nobody keeps the cleaner away from its trigger to its last
\* copy: first with `recording', then with `finalizing', which no other
\* goroutine resets under it.
CleanerKeptOut ==
    \A c \in Clips \ exposed :
        /\ Open(c) \/ Finalizing(c) => cleaner = "idle" /\ leadUp[c] \subseteq ring
        /\ Finalizing(c) => finalizing /\ \A d \in Clips : Finalizing(d) => d = c

\* The copy loop loses no segment of the lead-up, and the row comes after it.
LeadUpIsCopied ==
    \A c \in Clips \ exposed :
        /\ writer[c] = "copying" => leadUp[c] \subseteq copied[c] \cup todo[c]
        /\ saved[c] => writer[c] \in {"leaving", "done"} /\ leadUp[c] \subseteq copied[c]

LeadUpInv == ClipInv /\ LeadUpInWindow /\ CleanerKeptOut /\ LeadUpIsCopied

LEMMA LeadUpInit == ClipInit => LeadUpInv
<1> SUFFICES ASSUME ClipInit PROVE LeadUpInv
  OBVIOUS
<1>1. LeadUpInWindow /\ CleanerKeptOut /\ LeadUpIsCopied
  BY DEF ClipInit, LeadUpInWindow, CleanerKeptOut, LeadUpIsCopied, Open, Finalizing
<1> QED BY <1>1, ClipInitially DEF LeadUpInv

\* Windows only grow, and a lead-up is fixed when its clip is opened.
LEMMA WindowStep == LeadUpInv /\ ClipNext => LeadUpInWindow'
<1> SUFFICES ASSUME LeadUpInv, ClipNext PROVE LeadUpInWindow'
  OBVIOUS
<1>n. /\ recordingEnd \in Nat /\ \A t \in Times : t \in Nat
      /\ \A c \in Clips : /\ end[c] \in Nat /\ start[c] \in Int
                          /\ leadUp[c] \subseteq Times
      /\ writer \in [Clips -> Phases] /\ leadUp \in [Clips -> SUBSET Times]
      /\ start \in [Clips -> Int] /\ end \in [Clips -> Times] /\ ring \subseteq Times
      /\ PreBuffer \in Nat /\ PostBuffer \in Nat
  BY ClipAssumption DEF Times, LeadUpInv, ClipInv, ClipTypeOK
<1>o. LeadUpInWindow /\ RecordingHasOneWriter
  BY DEF LeadUpInv, ClipInv
<1> USE DEF shared, clip, clipHistory
\* The windows of the clips that are open stay where they are.
<1>q. ASSUME UNCHANGED <<recordingEnd, start, end, leadUp>>,
             \A c \in Clips : /\ writer'[c] # "none" => writer[c] # "none"
                              /\ Open(c)' <=> Open(c)
      PROVE  LeadUpInWindow'
  BY <1>q, <1>o DEF LeadUpInWindow, WindowEnd
<1>s. ASSUME NEW c \in Clips, NEW from \in Phases, NEW to \in Phases, Goto(c, from, to),
             from # "none", Open(c) => to = "expired", to = "expired" => Open(c), to # "waiting",
             UNCHANGED <<recordingEnd, start, end, leadUp>>
      PROVE  LeadUpInWindow'
  <2>1. \A d \in Clips : /\ writer'[d] # "none" => writer[d] # "none"
                         /\ Open(d)' <=> Open(d)
    BY <1>s, <1>n DEF Goto, Open
  <2> QED BY <1>s, <2>1, <1>q
<1>p. {"none", "waiting", "expired", "finalizing", "copying", "leaving", "done"} = Phases
  BY DEF Phases
<1>1. CASE Tick \/ CleanCheck \/ CleanList \/ CleanRemove
  BY <1>1, <1>q DEF Tick, CleanCheck, CleanList, CleanRemove, Open
<1>2. ASSUME NEW t \in Times, ExtendClip(t) PROVE LeadUpInWindow'
  <2>1. recordingEnd' \in Nat /\ recordingEnd <= recordingEnd'
    BY <1>2, <1>n DEF ExtendClip
  <2>2. \A c \in Clips : WindowEnd(c) \in Nat /\ WindowEnd(c)' \in Nat /\ WindowEnd(c) <= WindowEnd(c)'
    BY <1>2, <1>n, <2>1 DEF ExtendClip, WindowEnd, Open
  <2>3. ASSUME NEW c \in Clips, writer'[c] # "none", NEW s \in leadUp'[c]
        PROVE  start'[c] - Margin < s /\ s < WindowEnd(c)'
    <3>1. s \in leadUp[c] /\ s \in Nat /\ start'[c] = start[c] /\ writer[c] # "none"
      BY <1>2, <2>3, <1>n DEF ExtendClip
    <3>2. start[c] - Margin < s /\ s < WindowEnd(c)
      BY <3>1, <1>o DEF LeadUpInWindow
    <3> QED BY <3>1, <3>2, <2>2
  <2> QED BY <2>3 DEF LeadUpInWindow
<1>3. ASSUME NEW t \in Times, NEW c \in Clips, StartClip(c, t) PROVE LeadUpInWindow'
  <2>1. /\ writer[c] = "none" /\ writer' = [writer EXCEPT ![c] = "waiting"] /\ ~recording
        /\ recordingEnd' = t + PostBuffer
        /\ start' = [start EXCEPT ![c] = t - PreBuffer]
        /\ leadUp' = [leadUp EXCEPT ![c] = InWindow(t - PreBuffer, t + PostBuffer)]
        /\ end' = end
    BY <1>3 DEF StartClip, Goto
  <2>2. \A d \in Clips : ~Open(d)
    BY <2>1, <1>o DEF RecordingHasOneWriter
  <2>3. ASSUME NEW d \in Clips, writer'[d] # "none", NEW s \in leadUp'[d]
        PROVE  start'[d] - Margin < s /\ s < WindowEnd(d)'
    <3>1. CASE d = c
      <4>1. s \in InWindow(t - PreBuffer, t + PostBuffer) /\ start'[d] = t - PreBuffer
        BY <3>1, <2>1, <2>3, <1>n
      <4>2. WindowEnd(d)' = t + PostBuffer
        BY <3>1, <2>1, <1>n DEF WindowEnd, Open
      <4>3. s \in Nat /\ t - PreBuffer \in Int
        BY <4>1, <1>n DEF InWindow
      <4> QED BY <4>1, <4>2, <4>3 DEF InWindow, Margin
    <3>2. CASE d # c
      <4>1. /\ writer'[d] = writer[d] /\ start'[d] = start[d] /\ leadUp'[d] = leadUp[d]
            /\ WindowEnd(d)' = WindowEnd(d)
        BY <3>2, <2>1, <2>2, <1>n DEF WindowEnd, Open
      <4> QED BY <4>1, <2>3, <1>o DEF LeadUpInWindow
    <3> QED BY <3>1, <3>2
  <2> QED BY <2>3 DEF LeadUpInWindow
<1>4. ASSUME NEW c \in Clips, WaitOver(c) PROVE LeadUpInWindow'
  BY <1>4, <1>s, <1>p DEF WaitOver, Goto, Open
<1>5. ASSUME NEW c \in Clips, BeginFinalize(c) PROVE LeadUpInWindow'
  <2>1. /\ writer[c] = "expired" /\ writer' = [writer EXCEPT ![c] = "finalizing"]
        /\ end' = [end EXCEPT ![c] = recordingEnd]
        /\ UNCHANGED <<recordingEnd, start, leadUp>>
    BY <1>5 DEF BeginFinalize, Goto
  <2>2. \A d \in Clips : d # c => ~Open(d)
    BY <2>1, <1>o DEF RecordingHasOneWriter, Open
  <2>3. \A d \in Clips : WindowEnd(d)' = WindowEnd(d) /\ (writer'[d] # "none" => writer[d] # "none")
    BY <2>1, <2>2, <1>n DEF WindowEnd, Open
  <2> QED BY <2>1, <2>3, <1>o DEF LeadUpInWindow
<1>6. ASSUME NEW c \in Clips, CollectRingSegments(c) PROVE LeadUpInWindow'
  <2>1. \/ Goto(c, "finalizing", "leaving")
        \/ Goto(c, "finalizing", "copying")
    BY <1>6 DEF CollectRingSegments
  <2> QED BY <1>6, <2>1, <1>s, <1>p DEF CollectRingSegments, Goto, Open
<1>7. ASSUME NEW c \in Clips, NEW s \in Times, CopySegment(c, s) PROVE LeadUpInWindow'
  BY <1>7, <1>q DEF CopySegment, Open
<1>8. ASSUME NEW c \in Clips, InsertSegment(c) PROVE LeadUpInWindow'
  BY <1>8, <1>s, <1>p DEF InsertSegment, Goto, Open
<1>9. ASSUME NEW c \in Clips, Leave(c) PROVE LeadUpInWindow'
  BY <1>9, <1>s, <1>p DEF Leave, Goto, Open
<1> QED BY <1>1, <1>2, <1>3, <1>4, <1>5, <1>6, <1>7, <1>8, <1>9 DEF ClipNext, TriggerEvent, WriteClip

\* The two flags keep the cleaner out, and the copy loop takes what is there.
LEMMA KeptStep == LeadUpInv /\ ClipNext => CleanerKeptOut' /\ LeadUpIsCopied'
<1> DEFINE Kept == CleanerKeptOut /\ LeadUpIsCopied
<1> SUFFICES ASSUME LeadUpInv, ClipNext PROVE Kept'
  OBVIOUS
<1>a. ClipTypeOK /\ RecordingHasOneWriter /\ CleanerKeptOut /\ LeadUpIsCopied /\ LeadUpInWindow
  BY DEF LeadUpInv, ClipInv
<1> USE <1>a DEF ClipTypeOK, shared, clip, clipHistory
<1>1. CASE Tick
  BY <1>1 DEF Tick, CleanerKeptOut, LeadUpIsCopied, Open, Finalizing
<1>2. ASSUME NEW t \in Times, ExtendClip(t) PROVE Kept'
  BY <1>2 DEF ExtendClip, CleanerKeptOut, LeadUpIsCopied, Open, Finalizing
<1>3. ASSUME NEW t \in Times, NEW c \in Clips, StartClip(c, t) PROVE Kept'
  <2>1. InWindow(t - PreBuffer, t + PostBuffer) \subseteq ring
    BY DEF InWindow
  <2>2. CleanerKeptOut'
    BY <1>3, <2>1 DEF StartClip, Goto, CleanerKeptOut, Open, Finalizing
  <2>3. LeadUpIsCopied'
    BY <1>3 DEF StartClip, Goto, LeadUpIsCopied
  <2> QED BY <2>2, <2>3
<1>4. ASSUME NEW c \in Clips, WaitOver(c) PROVE Kept'
  BY <1>4 DEF WaitOver, Goto, CleanerKeptOut, LeadUpIsCopied, Open, Finalizing
<1>5. ASSUME NEW c \in Clips, BeginFinalize(c) PROVE Kept'
  <2>1. CleanerKeptOut'
    BY <1>5 DEF BeginFinalize, Goto, CleanerKeptOut, Open, Finalizing
  <2>2. LeadUpIsCopied'
    BY <1>5 DEF BeginFinalize, Goto, LeadUpIsCopied
  <2> QED BY <2>1, <2>2
<1>6. ASSUME NEW c \in Clips, CollectRingSegments(c) PROVE Kept'
  <2>1. PICK found \in {InWindow(start[c], end[c]), {}} :
              /\ Goto(c, "finalizing", IF found = {} THEN "leaving" ELSE "copying")
              /\ todo' = [todo EXCEPT ![c] = found]
              /\ UNCHANGED <<now, ring, shared, start, end, copied, saved, cleaner, victims, clipHistory>>
    BY <1>6 DEF CollectRingSegments
  <2>2. CleanerKeptOut'
    BY <2>1 DEF Goto, CleanerKeptOut, Open, Finalizing
  <2>3. c \notin exposed => leadUp[c] \subseteq InWindow(start[c], end[c])
    BY <2>1 DEF Goto, CleanerKeptOut, LeadUpInWindow, WindowEnd, Open, Finalizing, InWindow
  <2>4. LeadUpIsCopied'
    BY <2>1, <2>3 DEF Goto, LeadUpIsCopied
  <2> QED BY <2>2, <2>4
<1>7. ASSUME NEW c \in Clips, NEW s \in Times, CopySegment(c, s) PROVE Kept'
  <2>1. CleanerKeptOut'
    BY <1>7 DEF CopySegment, CleanerKeptOut, Open, Finalizing
  <2>2. c \notin exposed /\ s \in leadUp[c] => s \in ring
    BY <1>7 DEF CopySegment, CleanerKeptOut, Finalizing
  <2>3. LeadUpIsCopied'
    BY <1>7, <2>2 DEF CopySegment, LeadUpIsCopied
  <2> QED BY <2>1, <2>3
<1>8. ASSUME NEW c \in Clips, InsertSegment(c) PROVE Kept'
  <2>1. CleanerKeptOut'
    BY <1>8 DEF InsertSegment, Goto, CleanerKeptOut, Open, Finalizing
  <2>2. LeadUpIsCopied'
    BY <1>8 DEF InsertSegment, Goto, LeadUpIsCopied
  <2> QED BY <2>1, <2>2
<1>9. ASSUME NEW c \in Clips, Leave(c) PROVE Kept'
  <2>1. CleanerKeptOut'
    BY <1>9 DEF Leave, Goto, CleanerKeptOut, Open, Finalizing
  <2>2. LeadUpIsCopied'
    BY <1>9 DEF Leave, Goto, LeadUpIsCopied
  <2> QED BY <2>1, <2>2
<1>10. CASE CleanCheck
  BY <1>10 DEF CleanCheck, CleanerKeptOut, LeadUpIsCopied, Open, Finalizing, RecordingHasOneWriter
<1>11. CASE CleanList \/ CleanRemove
  BY <1>11 DEF CleanList, CleanRemove, CleanerKeptOut, LeadUpIsCopied, Open, Finalizing
<1> QED
  BY <1>1, <1>2, <1>3, <1>4, <1>5, <1>6, <1>7, <1>8, <1>9, <1>10, <1>11
     DEF ClipNext, TriggerEvent, WriteClip

\* The pre-buffer of a clip that met no cleaner past its check and no other
\* clip being finalized is in the clip when its row is, for any number of
\* clips, triggers and cleaner rounds.
THEOREM LeadUpSurvives == ClipSpec => []LeadUpIsKept
<1>1. LeadUpInv /\ [ClipNext]_clipVars => LeadUpInv'
  <2> SUFFICES ASSUME LeadUpInv, [ClipNext]_clipVars PROVE LeadUpInv'
    OBVIOUS
  <2>1. ClipInv'
    BY ClipTypeStep, ClipCoverStep DEF LeadUpInv, ClipInv
  <2>2. CASE ClipNext
    BY <2>1, <2>2, WindowStep, KeptStep DEF LeadUpInv
  <2>3. CASE UNCHANGED clipVars
    BY <2>1, <2>3 DEF LeadUpInv, LeadUpInWindow, CleanerKeptOut, LeadUpIsCopied, WindowEnd, Open,
                      Finalizing, clipVars, shared, clip, clipHistory
  <2> QED BY <2>2, <2>3
<1>2. LeadUpInv => LeadUpIsKept
  BY DEF LeadUpInv, LeadUpIsCopied, LeadUpIsKept
<1> QED BY LeadUpInit, <1>1, <1>2, PTL DEF ClipSpec

-----------------------------------------------------------------------------
(* Segments *)

\* What makes RowsPlay inductive: later segments do not exist yet, no file is
\* from a future run, only a live watcher scans and it scans nothing it has
\* seen, and a segment of this run that has, or just had, a row was seen, so
\* no second row can follow while retention removes its file.
StoreInv ==
    /\ \A s \in Segments :
         /\ s > last => file[s] = "none"
         /\ writtenIn[s] <= run
         /\ s \in scan => s \notin seen
         /\ s \in doomed => rows[s] = 0 /\ s <= last
         /\ alive /\ writtenIn[s] = run /\ (rows[s] > 0 \/ s \in doomed) => s \in seen
    /\ ~alive => scan = {}

SegmentInv == TypeOK /\ StoreInv /\ RowsPlay /\ OneRowPerFile

LEMMA SegmentsFinite ==
    ASSUME NEW S \in SUBSET Segments
    PROVE  IsFiniteSet(S) /\ Cardinality(S) \in 0..MaxSegments
<1>1. IsFiniteSet(Segments) /\ Cardinality(Segments) = MaxSegments
  BY FS_Interval, SegmentAssumption DEF Segments
<1>2. IsFiniteSet(S) /\ Cardinality(S) <= MaxSegments /\ Cardinality(S) \in Nat
  BY <1>1, FS_Subset, FS_CardinalityType
<1> QED BY <1>2, SegmentAssumption

LEMMA SegmentInit == Init => SegmentInv
<1> SUFFICES ASSUME Init PROVE SegmentInv
  OBVIOUS
<1>1. TypeOK
  <2>1. 0 \in 0..MaxRuns /\ 0 \in 0..MaxSegments /\ 0 \in 0..MaxFaults
    BY SegmentAssumption
  <2>2. /\ file \in [Segments -> {"none", "writing", "whole", "torn", "removed"}]
        /\ writtenIn \in [Segments -> 0..MaxRuns]
        /\ rows \in [Segments -> Nat]
    BY <2>1 DEF Init
  <2> QED BY <2>1, <2>2 DEF Init, TypeOK, Runs
<1>2. StoreInv
  BY DEF Init, StoreInv
<1>3. RowsPlay /\ OneRowPerFile
  BY DEF Init, RowsPlay, OneRowPerFile
<1> QED BY <1>1, <1>2, <1>3 DEF SegmentInv

LEMMA SegmentTypeStep == SegmentInv /\ [Next]_vars => TypeOK'
<1> SUFFICES ASSUME SegmentInv, [Next]_vars PROVE TypeOK'
  OBVIOUS
<1> USE SegmentAssumption
    DEF SegmentInv, TypeOK, Runs, disk, watcher, retention, history
<1>1. CASE StartRun
  BY <1>1 DEF StartRun
<1>2. CASE Rotate
  <2>1. last + 1 \in Segments /\ last' \in 0..MaxSegments
    BY <1>2 DEF Rotate, Segments
  <2> QED BY <1>2, <2>1 DEF Rotate
<1>3. ASSUME NEW s \in Segments, FinalizeFile(s) PROVE TypeOK'
  BY <1>3 DEF FinalizeFile
<1>4. CASE RunEnds
  BY <1>4 DEF RunEnds
<1>5. CASE BeginScan
  BY <1>5 DEF BeginScan
<1>6. ASSUME NEW s \in Segments, ScanEntry(s) PROVE TypeOK'
  <2>1. rows' = rows \/ rows' = [rows EXCEPT ![s] = @ + 1]
    BY <1>6 DEF ScanEntry
  <2>2. rows' \in [Segments -> Nat]
    BY <2>1
  <2>3. seen' \subseteq Segments /\ scan' \subseteq Segments
    BY <1>6 DEF ScanEntry
  <2>4. indexed' \subseteq Segments /\ lost' \subseteq Segments /\ faults' \in 0..MaxFaults
    BY <1>6 DEF ScanEntry, Fault
  <2> QED BY <1>6, <2>2, <2>3, <2>4 DEF ScanEntry
<1>7. ASSUME NEW cutoff \in Segments, DeleteOldSegments(cutoff) PROVE TypeOK'
  BY <1>7 DEF DeleteOldSegments, DeleteRows, Indexed
<1>8. CASE OverCap
  <2>1. Cardinality(Indexed) \in 0..MaxSegments
    BY SegmentsFinite DEF Indexed
  <2>2. budget' \in 0..MaxSegments
    BY <1>8, <2>1 DEF OverCap
  <2> QED BY <1>8, <2>2 DEF OverCap
<1>9. CASE ValveTrips
  <2>1. Cardinality({s \in Segments : OnDisk(s)}) \in 0..MaxSegments
    BY SegmentsFinite
  <2>2. budget' \in 0..MaxSegments
    BY <1>9, <2>1 DEF ValveTrips
  <2> QED BY <1>9, <2>2 DEF ValveTrips
<1>10. CASE DeleteOldestSegmentsByPath
  <2>1. OldestRows(Batch) \subseteq Segments
    BY DEF OldestRows, Indexed
  <2>2. Cardinality(OldestRows(Batch)) \in 0..MaxSegments
    BY <2>1, SegmentsFinite
  <2>3. budget' \in 0..MaxSegments
    BY <1>10, <2>2 DEF DeleteOldestSegmentsByPath
  <2>4. rows' \in [Segments -> Nat] /\ doomed' \subseteq Segments
    BY <1>10, <2>1 DEF DeleteOldestSegmentsByPath, DeleteRows
  <2> QED BY <1>10, <2>3, <2>4 DEF DeleteOldestSegmentsByPath
<1>11. CASE PassGivesUp
  BY <1>11 DEF PassGivesUp
<1>12. ASSUME NEW s \in Segments, RemoveFile(s) PROVE TypeOK'
  BY <1>12 DEF RemoveFile, Fault
<1>13. CASE RetentionCrash
  BY <1>13 DEF RetentionCrash, Fault
<1>14. CASE UNCHANGED vars
  BY <1>14 DEF vars
<1> QED
  BY <1>1, <1>2, <1>3, <1>4, <1>5, <1>6, <1>7, <1>8, <1>9, <1>10, <1>11, <1>12, <1>13, <1>14
  DEF Next, Cleanup

LEMMA SegmentStoreStep == SegmentInv /\ [Next]_vars => StoreInv' /\ RowsPlay' /\ OneRowPerFile'
<1> DEFINE Rest == StoreInv /\ RowsPlay /\ OneRowPerFile
<1> SUFFICES ASSUME SegmentInv, [Next]_vars PROVE Rest'
  OBVIOUS
<1> USE DEF SegmentInv, TypeOK, StoreInv, RowsPlay, OneRowPerFile,
        disk, watcher, retention, history
<1>s. \A s \in Segments : s \in Nat
  BY DEF Segments
<1>1. CASE StartRun
  BY <1>1 DEF StartRun, Runs
<1>2. CASE Rotate
  <2>1. last \in Nat /\ last' = last + 1 /\ last + 1 \in Segments
    BY <1>2, SegmentAssumption DEF Rotate, Segments
  <2>2. file[last + 1] = "none"
    BY <2>1
  <2>3. rows[last + 1] = 0
    BY <2>1, <2>2
  <2>4. \A s \in Segments : s > last' => s # last + 1 /\ s > last
    BY <2>1, <1>s
  <2>5. run \in Nat
    BY DEF Runs
  <2>6. last + 1 \notin doomed
    BY <2>1
  <2>7. /\ file' = [file EXCEPT ![last + 1] = "writing"]
        /\ writtenIn' = [writtenIn EXCEPT ![last + 1] = run]
        /\ UNCHANGED <<run, alive, rows, seen, scan, doomed>>
    BY <1>2 DEF Rotate
  <2>8. RowsPlay' /\ OneRowPerFile'
    BY <2>1, <2>3, <2>7
  <2>9. ASSUME NEW s \in Segments
        PROVE  /\ s > last' => file'[s] = "none"
               /\ writtenIn'[s] <= run
               /\ s \in doomed => s <= last'
               /\ alive /\ writtenIn'[s] = run /\ (rows[s] > 0 \/ s \in doomed) => s \in seen
    <3>1. CASE s = last + 1
      BY <2>1, <2>3, <2>4, <2>5, <2>6, <2>7, <3>1
    <3>2. CASE s # last + 1
      BY <2>1, <2>4, <2>7, <3>2, <1>s
    <3> QED BY <3>1, <3>2
  <2> QED BY <2>7, <2>8, <2>9
<1>3. ASSUME NEW s \in Segments, FinalizeFile(s) PROVE Rest'
  BY <1>3, <1>s DEF FinalizeFile
<1>4. CASE RunEnds
  BY <1>4 DEF RunEnds
<1>5. CASE BeginScan
  BY <1>5 DEF BeginScan
<1>6. ASSUME NEW s \in Segments, ScanEntry(s) PROVE Rest'
  <2>1. CASE UNCHANGED rows /\ seen \subseteq seen'
    BY <1>6, <2>1 DEF ScanEntry
  <2>2. CASE /\ file[s] = "whole" /\ ~FromEarlierRun(s)
             /\ seen' = seen \cup {s}
             /\ rows' = [rows EXCEPT ![s] = @ + 1]
    <3>1. alive /\ s \notin seen /\ writtenIn[s] = run
      BY <1>6, <2>2 DEF ScanEntry, FromEarlierRun, Runs
    <3>2. rows[s] = 0 /\ s \notin doomed
      BY <3>1
    <3> QED BY <1>6, <2>2, <3>1, <3>2 DEF ScanEntry
  <2> QED BY <1>6, <2>1, <2>2 DEF ScanEntry
<1>7. ASSUME NEW gone \in SUBSET Indexed, DeleteRows(gone),
             UNCHANGED <<disk, watcher>>
      PROVE  Rest'
  <2>1. \A s \in gone : s \in Segments /\ rows[s] > 0 /\ s <= last
    BY <1>7, <1>s DEF Indexed
  <2> QED BY <1>7, <2>1 DEF DeleteRows
<1>8. ASSUME NEW cutoff \in Segments, DeleteOldSegments(cutoff) PROVE Rest'
  BY <1>7, <1>8 DEF DeleteOldSegments
<1>9. CASE OverCap \/ ValveTrips \/ PassGivesUp
  BY <1>9 DEF OverCap, ValveTrips, PassGivesUp
<1>10. CASE DeleteOldestSegmentsByPath
  BY <1>7, <1>10 DEF DeleteOldestSegmentsByPath, OldestRows
<1>11. ASSUME NEW s \in Segments, RemoveFile(s) PROVE Rest'
  <2>1. rows[s] = 0 /\ s \in Nat /\ last \in Nat /\ ~(s > last)
    BY <1>11, <1>s DEF RemoveFile
  <2>2. /\ file' = [file EXCEPT ![s] = "removed"] \/ file' = file
        /\ doomed' = doomed \ {s}
        /\ UNCHANGED <<run, alive, last, writtenIn, rows, seen, scan>>
    BY <1>11 DEF RemoveFile
  <2> QED BY <2>1, <2>2
<1>12. CASE RetentionCrash
  BY <1>12 DEF RetentionCrash
<1>13. CASE UNCHANGED vars
  BY <1>13 DEF vars
<1> QED
  BY <1>1, <1>2, <1>3, <1>4, <1>5, <1>6, <1>8, <1>9, <1>10, <1>11, <1>12, <1>13
  DEF Next, Cleanup

LEMMA SegmentInductive == Spec => []SegmentInv
<1>1. SegmentInv /\ [Next]_vars => SegmentInv'
  BY SegmentTypeStep, SegmentStoreStep DEF SegmentInv
<1> QED BY <1>1, SegmentInit, PTL DEF Spec

\* Type correctness of the recorder, its watcher and retention.
THEOREM SegmentTypeCorrect == Spec => []TypeOK
<1>1. SegmentInv => TypeOK
  BY DEF SegmentInv
<1> QED BY <1>1, SegmentInductive, PTL

\* Every row of the segments table refers to a finalized file on disk,
\* wherever FFmpeg, the watcher and retention are, for any number of runs.
THEOREM EveryRowPlays == Spec => []RowsPlay
<1>1. SegmentInv => RowsPlay
  BY DEF SegmentInv
<1> QED BY <1>1, SegmentInductive, PTL

\* watchSegments never registers a file twice, over any number of restarts.
THEOREM NoDuplicateRows == Spec => []OneRowPerFile
<1>1. SegmentInv => OneRowPerFile
  BY DEF SegmentInv
<1> QED BY <1>1, SegmentInductive, PTL

\* ORDER BY start_time LIMIT n takes a prefix of the timeline.
LEMMA OldestIsPrefix ==
    ASSUME NEW n \in Nat, NEW s \in OldestRows(n), NEW t \in Indexed, t < s
    PROVE  t \in OldestRows(n)
<1> DEFINE upto(x) == {y \in Indexed : y <= x}
<1>1. upto(s) \subseteq Segments /\ upto(t) \subseteq Segments
  BY DEF Indexed
<1>2. upto(t) \subseteq upto(s)
  BY DEF Indexed, Segments, OldestRows
<1>3. Cardinality(upto(t)) <= Cardinality(upto(s))
  BY <1>1, <1>2, SegmentsFinite, FS_Subset
<1>4. Cardinality(upto(s)) <= n /\ Cardinality(upto(t)) \in Nat /\ Cardinality(upto(s)) \in Nat
  BY <1>1, SegmentsFinite DEF OldestRows
<1>5. Cardinality(upto(t)) <= n
  BY <1>3, <1>4
<1> QED BY <1>5 DEF OldestRows

\* No retention pass takes a row and leaves an older one, for every batch size,
\* cap, cutoff and point where a pass was cut short.
THEOREM RetentionIsOldestFirst == Spec => OldestGoFirst
<1> DEFINE Prefix == \A s, t \in Segments :
                       t < s /\ rows[s] > 0 /\ rows'[s] = 0 => rows'[t] = 0
<1>1. ASSUME SegmentInv, [Next]_vars PROVE Prefix
  <2> USE <1>1 DEF SegmentInv, TypeOK
  <2>1. CASE UNCHANGED rows
    BY <2>1
  <2>2. ASSUME NEW x \in Segments, ScanEntry(x) PROVE Prefix
    <3>1. \/ UNCHANGED rows
          \/ rows' = [rows EXCEPT ![x] = rows[x] + 1]
      BY <2>2 DEF ScanEntry
    <3> QED BY <3>1
  <2>3. ASSUME NEW gone \in SUBSET Indexed, DeleteRows(gone),
               \A s \in gone, t \in Indexed : t < s => t \in gone
        PROVE  Prefix
    <3> SUFFICES ASSUME NEW s \in Segments, NEW t \in Segments,
                        t < s, rows[s] > 0, rows'[s] = 0
                 PROVE  rows'[t] = 0
      OBVIOUS
    <3>1. s \in gone
      BY <2>3 DEF DeleteRows
    <3>2. CASE t \in Indexed
      BY <2>3, <3>1, <3>2 DEF DeleteRows
    <3>3. CASE t \notin Indexed
      BY <2>3, <3>3 DEF DeleteRows, Indexed
    <3> QED BY <3>2, <3>3
  <2>4. ASSUME NEW cutoff \in Segments, DeleteOldSegments(cutoff) PROVE Prefix
    <3> DEFINE old == {s \in Indexed : s < cutoff}
    <3>1. \A s \in old, t \in Indexed : t < s => t \in old
      BY DEF Indexed, Segments
    <3> QED BY <2>3, <2>4, <3>1 DEF DeleteOldSegments
  <2>5. CASE DeleteOldestSegmentsByPath
    <3>1. OldestRows(Batch) \subseteq Indexed
      BY DEF OldestRows
    <3>2. \A s \in OldestRows(Batch), t \in Indexed : t < s => t \in OldestRows(Batch)
      BY OldestIsPrefix, SegmentAssumption
    <3> QED BY <2>3, <2>5, <3>1, <3>2 DEF DeleteOldestSegmentsByPath
  <2> QED BY <2>1, <2>2, <2>4, <2>5
          DEF Next, Cleanup, vars, StartRun, Rotate, FinalizeFile, RunEnds, BeginScan,
              OverCap, ValveTrips, PassGivesUp, RemoveFile, RetentionCrash
<1>2. SegmentInv /\ [Next]_vars => [Prefix]_vars
  BY <1>1
<1> QED BY <1>2, SegmentInductive, PTL DEF Spec, OldestGoFirst

=============================================================================
