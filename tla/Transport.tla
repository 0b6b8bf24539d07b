------------------------------ MODULE Transport ------------------------------
(***************************************************************************)
(* The transport bar and the track of Timeline.tsx, with the page's seek    *)
(* handlers and the keyboard shortcuts of useKeyboardShortcuts.ts: how the  *)
(* monitor moves between live view and a time of the past.  Times are       *)
(* steps before the present; a drag collects pointer movement and hands it  *)
(* on once per frame.                                                       *)
(***************************************************************************)
EXTENDS Integers, FiniteSets, FiniteSetsExt

CONSTANTS Present,      \* the present; time 0 is the oldest
          EventTimes,   \* times of the events in the list
          MaxDelta      \* bound: movement collected in a frame

ASSUME TransportAssumption == Present \in Nat /\ EventTimes \subseteq 0..Present /\ MaxDelta \in Nat

Ahead == Present + MaxDelta    \* as far as a drag or the date field may reach

VARIABLES
    live, at, speed, paused,    \* the page: mode, playbackTime, rate, pause
    hand, delta, frame,         \* a drag: pointer, movement not yet applied, frame requested
    scrubbing,                  \* the page's flag
    bar                         \* date field, camera menu, help, zoom

transportVars == <<live, at, speed, paused, hand, delta, frame, scrubbing, bar>>
dragVars == <<hand, delta, frame, scrubbing>>

Now == IF live THEN Present ELSE at     \* currentTime of the bar

(* The one type invariant. *)
TransportTypeOK ==
    /\ live \in BOOLEAN /\ at \in (0 - MaxDelta)..Ahead /\ speed \in {1, 2} /\ paused \in BOOLEAN
    /\ hand \in {"none", "mouse", "touch"} /\ delta \in (0 - MaxDelta)..MaxDelta
    /\ frame \in BOOLEAN /\ scrubbing \in BOOLEAN
    /\ bar \in [editing : BOOLEAN, menu : BOOLEAN, help : BOOLEAN, zoom : 1..3]

-----------------------------------------------------------------------------
(* The page's handlers. *)
handleTimelineSeek(t) == live' = FALSE /\ at' = t /\ speed' = IF live THEN 1 ELSE speed
(* Mutant of handleGoLive: the effect that resets the speed is gone. *)
GoLiveAtSpeed == live' = TRUE /\ at' = Present /\ UNCHANGED speed
handleGoLive == live' = TRUE /\ at' = Present /\ speed' = 1

Clip(t) == Max({t, 0 - MaxDelta})   \* bound of the model, not of the code
Buttons == hand = "none" /\ UNCHANGED <<paused, dragVars, bar>>

(* Forward past the present snaps to live, backward has no end.               *)
JumpAhead(n) == handleTimelineSeek(Min({Now + n, Ahead}))   \* mutant
jumpForward(n) == IF Now + n >= Present THEN handleGoLive ELSE handleTimelineSeek(Now + n)
jumpBack(n) == handleTimelineSeek(Clip(Now - n))
JumpButtons == Buttons /\ \E n \in 1..2 : jumpForward(n) \/ jumpBack(n)
skipSeconds(n) ==
    /\ Buttons
    /\ IF n > 0 /\ Now + n >= Present THEN handleGoLive ELSE handleTimelineSeek(Clip(Now + n))

(* The first of the list, newest first, that is older than the time shown;    *)
(* and the last that is newer.  Without one, an hour.                         *)
skipToPrevEvent ==
    LET older == {e \in EventTimes : e < Now}
    IN Buttons /\ IF older # {} THEN handleTimelineSeek(Max(older)) ELSE jumpBack(2)
skipToNextEvent ==
    LET newer == {e \in EventTimes : e > Now}
    IN Buttons /\ IF newer # {} THEN handleTimelineSeek(Min(newer)) ELSE jumpForward(2)

GoLiveButton == Buttons /\ ~live /\ handleGoLive
(* A click on the track or on a marker. *)
handleTrackClick(t) == Buttons /\ t \in 0..Present /\ handleTimelineSeek(t)
seekToMarker(t) == Buttons /\ t \in EventTimes /\ handleTimelineSeek(t)

handleTogglePause ==
    /\ ~live /\ hand = "none" /\ paused' = ~paused /\ UNCHANGED <<live, at, speed, dragVars, bar>>
handleSetPlaybackRate(r) ==
    /\ ~live /\ hand = "none" /\ speed' = r /\ UNCHANGED <<live, at, paused, dragVars, bar>>
(* The frame step reaches every tile as a window event; the page keeps nothing. *)
handleStepFrame == ~live /\ UNCHANGED transportVars

(* The keyboard, unless a field has the focus. *)
Keys == ~bar.editing /\ UNCHANGED <<paused, dragVars>>
ShortcutSeek ==
    /\ Keys /\ UNCHANGED bar
    /\ \/ ~live /\ handleTimelineSeek(Clip(at - 1))                                \* ArrowLeft
       \/ ~live /\ IF at + 1 <= Present THEN handleTimelineSeek(at + 1) ELSE handleGoLive
       \/ handleGoLive                                                             \* L
       \/ IF live THEN handleTimelineSeek(Present) ELSE handleGoLive               \* Space
ShortcutHelp ==
    /\ Keys /\ UNCHANGED <<live, at, speed>>
    /\ \/ bar' = [bar EXCEPT !.help = ~@]                       \* ?
       \/ bar.help /\ bar' = [bar EXCEPT !.help = FALSE]        \* Escape

-----------------------------------------------------------------------------
(* The drag.  Moves collect until the frame; a release cancels the frame and   *)
(* applies what is left.                                                       *)
Grab(by) ==
    /\ hand = "none" /\ hand' = by /\ scrubbing' = TRUE /\ delta' = 0 /\ frame' = FALSE
    /\ UNCHANGED <<live, at, speed, paused, bar>>
handleMouseDown == Grab("mouse")
handleTouchStart == Grab("touch")
handlePointerMove ==
    /\ hand # "none"
    /\ \E d \in {-1, 1} : delta' = delta + d /\ delta' \in (0 - MaxDelta)..MaxDelta
    /\ frame' = TRUE
    /\ UNCHANGED <<live, at, speed, paused, hand, scrubbing, bar>>
panFromDelta ==
    IF delta = 0 THEN UNCHANGED <<live, at, speed>>
    ELSE handleTimelineSeek(Min({Clip(Now + delta), Ahead}))
FrameFires ==
    /\ frame /\ frame' = FALSE /\ panFromDelta /\ delta' = 0
    /\ UNCHANGED <<paused, hand, scrubbing, bar>>
(* Mutant of Release: the frame is cancelled and its movement dropped. *)
ReleaseDropping ==
    /\ hand # "none" /\ hand' = "none" /\ scrubbing' = FALSE /\ frame' = FALSE
    /\ UNCHANGED <<live, at, speed, delta, paused, bar>>
Release ==
    /\ hand # "none" /\ hand' = "none" /\ scrubbing' = FALSE
    /\ frame' = FALSE /\ panFromDelta /\ delta' = 0
    /\ UNCHANGED <<paused, bar>>
(* touchcancel has no handler: the listeners stay, and the next touch adds its *)
(* own.                                                                        *)
TouchCancelled ==
    /\ hand = "touch" /\ hand' = "none"
    /\ UNCHANGED <<live, at, speed, paused, delta, frame, scrubbing, bar>>

-----------------------------------------------------------------------------
(* The date field: Enter and blur seek to any date, Escape drops it. *)
startEditingTime ==
    /\ ~bar.editing /\ bar' = [bar EXCEPT !.editing = TRUE]
    /\ UNCHANGED <<live, at, speed, paused, dragVars>>
handleGoTo(t) ==
    /\ bar.editing /\ bar' = [bar EXCEPT !.editing = FALSE] /\ handleTimelineSeek(t)
    /\ UNCHANGED <<paused, dragVars>>
EscapeField ==
    /\ bar.editing /\ bar' = [bar EXCEPT !.editing = FALSE]
    /\ UNCHANGED <<live, at, speed, paused, dragVars>>
CameraMenu ==
    /\ bar' = [bar EXCEPT !.menu = ~@] /\ UNCHANGED <<live, at, speed, paused, dragVars>>
Zoom ==
    /\ \E z \in {bar.zoom - 1, bar.zoom + 1} \cap 1..3 : bar' = [bar EXCEPT !.zoom = z]
    /\ UNCHANGED <<live, at, speed, paused, dragVars>>

TransportInit ==
    /\ live = TRUE /\ at = Present /\ speed = 1 /\ paused = FALSE
    /\ hand = "none" /\ delta = 0 /\ frame = FALSE /\ scrubbing = FALSE
    /\ bar = [editing |-> FALSE, menu |-> FALSE, help |-> FALSE, zoom |-> 2]
TransportStep ==
    \/ JumpButtons \/ \E n \in {-2, -1, 1, 2} : skipSeconds(n)
    \/ skipToPrevEvent \/ skipToNextEvent \/ GoLiveButton
    \/ \E t \in 0..Present : handleTrackClick(t) \/ seekToMarker(t)
    \/ handleTogglePause \/ \E r \in {1, 2} : handleSetPlaybackRate(r)
    \/ handleStepFrame \/ ShortcutSeek \/ ShortcutHelp
    \/ handleMouseDown \/ handleTouchStart \/ handlePointerMove \/ FrameFires \/ Release
    \/ TouchCancelled
    \/ startEditingTime \/ \E t \in 0..Ahead : handleGoTo(t)
    \/ EscapeField \/ CameraMenu \/ Zoom

(* Live view plays at normal speed however it is entered, so that coming back   *)
(* to playback does not inherit a speed whose control was hidden.               *)
LiveAtNormalSpeed == live => speed = 1

(* No movement of the pointer is dropped: when a drag has been let go nothing   *)
(* collected is left unapplied.                                                 *)
DragIsApplied == hand = "none" /\ ~scrubbing => delta = 0 \/ frame

(* Buttons and keys never lead past the present; only the hand on the track and *)
(* the date field can.                                                          *)
ButtonsStayBehindNow ==
    [][at' > Present => at' <= at \/ hand # "none" \/ bar.editing \/ frame]_transportVars
==============================================================================
