--------------------------- MODULE MonitorDialogs ---------------------------
(***************************************************************************)
(* The dialogs and side pages of the monitor: ExportDialog.tsx, the speaker *)
(* bar of the peek view (app/page.tsx), the storage banner, and the pins of *)
(* MapView.tsx.  Dates, file sizes, coordinates and pictures are data.      *)
(***************************************************************************)
EXTENDS Naturals, FiniteSets

CONSTANTS Pins,        \* cameras that can be placed on the map
          MaxTimers,   \* bound: ends of a message that are still to come
          MaxJobs      \* bound: export jobs made

ASSUME DialogAssumption == {MaxTimers, MaxJobs} \subseteq Nat

VARIABLES export, speaker, banner, map

dialogVars == <<export, speaker, banner, map>>

(* The one type invariant. *)
DialogTypeOK ==
    /\ export \in [open : BOOLEAN, busy : BOOLEAN, posts : 0..MaxJobs, lists : 0..MaxJobs, jobs : 0..MaxJobs]
    /\ speaker \in [peeking : BOOLEAN, bar : BOOLEAN, loading : BOOLEAN, playing : BOOLEAN,
                    calls : SUBSET {"play", "stop"}, timers : 0..MaxTimers]
    /\ banner \in BOOLEAN
    /\ map \in [shown : BOOLEAN, edit : BOOLEAN, drag : {"none"} \cup Pins,
                 placed : SUBSET Pins, saved : SUBSET Pins]

-----------------------------------------------------------------------------
(* ExportDialog: its state lives as long as the dialog; requests live longer. *)
ExportOnly == UNCHANGED <<speaker, banner, map>>
OpenExport ==
    /\ ~export.open
    /\ export' = [export EXCEPT !.open = TRUE, !.busy = FALSE, !.lists = IF @ < MaxJobs THEN @ + 1 ELSE @]
    /\ ExportOnly
CloseExport == export.open /\ export' = [export EXCEPT !.open = FALSE] /\ ExportOnly
ExportEnabled == export.open /\ ~export.busy   \* camera and dates are filled in
handleExport ==
    /\ ExportEnabled /\ export.posts + export.jobs < MaxJobs
    /\ export' = [export EXCEPT !.busy = TRUE, !.posts = @ + 1] /\ ExportOnly
(* The job is made: the list is loaded again, and only then the button returns. *)
ExportCreated ==
    /\ export.posts > 0 /\ export.lists < MaxJobs
    /\ export' = [export EXCEPT !.posts = @ - 1, !.jobs = @ + 1, !.lists = @ + 1] /\ ExportOnly
(* Mutant of ExportFails: the flag is cleared only when the job was made. *)
ExportFailsBusy ==
    /\ export.posts > 0 /\ export' = [export EXCEPT !.posts = @ - 1] /\ ExportOnly
ExportFails ==
    /\ export.posts > 0
    /\ export' = [export EXCEPT !.posts = @ - 1, !.busy = FALSE] /\ ExportOnly
(* loadExports swallows its errors, so the dialog goes on either way. *)
loadExports ==
    /\ export.lists > 0
    /\ export' = [export EXCEPT !.lists = @ - 1, !.busy = @ /\ (export.posts > 0 \/ export.lists > 1)]
    /\ ExportOnly

-----------------------------------------------------------------------------
(* The speaker bar. *)
SpeakerOnly == UNCHANGED <<export, banner, map>>
PeekOpens ==
    /\ ~speaker.peeking /\ speaker' = [speaker EXCEPT !.peeking = TRUE, !.loading = TRUE] /\ SpeakerOnly
PeekCloses == speaker.peeking /\ speaker' = [speaker EXCEPT !.peeking = FALSE] /\ SpeakerOnly
getSpeakerInfo ==
    /\ speaker.loading
    /\ \E some \in BOOLEAN : speaker' = [speaker EXCEPT !.loading = FALSE, !.bar = some \/ @]
    /\ SpeakerOnly
PlayMessage ==
    /\ speaker.peeking /\ speaker.bar /\ ~speaker.playing /\ "play" \notin speaker.calls
    /\ speaker' = [speaker EXCEPT !.playing = TRUE, !.calls = @ \cup {"play"}] /\ SpeakerOnly
PlayStarted ==
    /\ "play" \in speaker.calls /\ speaker.timers < MaxTimers
    /\ speaker' = [speaker EXCEPT !.calls = @ \ {"play"}, !.timers = @ + 1] /\ SpeakerOnly
(* Mutant of PlayFails: no catch. *)
PlayFailsUncaught ==
    /\ "play" \in speaker.calls /\ speaker' = [speaker EXCEPT !.calls = @ \ {"play"}] /\ SpeakerOnly
PlayFails ==
    /\ "play" \in speaker.calls
    /\ speaker' = [speaker EXCEPT !.calls = @ \ {"play"}, !.playing = FALSE] /\ SpeakerOnly
(* Stop can be pressed before the message has started; its error is not caught. *)
PressStop ==
    /\ speaker.peeking /\ speaker.bar /\ speaker.playing /\ "stop" \notin speaker.calls
    /\ speaker' = [speaker EXCEPT !.calls = @ \cup {"stop"}] /\ SpeakerOnly
StopReturns ==
    /\ "stop" \in speaker.calls
    /\ \E ok \in BOOLEAN : speaker' = [speaker EXCEPT !.calls = @ \ {"stop"}, !.playing = @ /\ ~ok]
    /\ SpeakerOnly
(* The timer of a message that was stopped ends the next one's state, too. *)
MessageEnds ==
    /\ speaker.timers > 0
    /\ speaker' = [speaker EXCEPT !.timers = @ - 1, !.playing = FALSE] /\ SpeakerOnly

(* GET /api/storage/status with every page change; a failure changes nothing. *)
StorageStatus == banner' \in BOOLEAN /\ UNCHANGED <<export, speaker, map>>

-----------------------------------------------------------------------------
(* The map: positions are read on mount and written whenever there are any.   *)
MapOnly == UNCHANGED <<export, speaker, banner>>
SavedAlways(placed, saved) == placed   \* mutant: the guard is gone
Saved(placed, saved) == IF placed = {} THEN saved ELSE placed

(* The commit of the mount: both effects run on the empty state, then the      *)
(* positions read take its place and are written back.                         *)
MapMounts ==
    /\ ~map.shown
    /\ map' = [map EXCEPT !.shown = TRUE, !.edit = FALSE, !.drag = "none", !.placed = map.saved,
                          !.saved = Saved({}, @)]
    /\ MapOnly
MapUnmounts == map.shown /\ map' = [map EXCEPT !.shown = FALSE, !.placed = {}, !.drag = "none"] /\ MapOnly
ToggleEdit == map.shown /\ map.drag = "none" /\ map' = [map EXCEPT !.edit = ~@] /\ MapOnly
handlePinDown(p) ==
    /\ map.shown /\ map.edit /\ map.drag = "none" /\ map' = [map EXCEPT !.drag = p] /\ MapOnly
handlePinMove ==
    /\ map.shown /\ map.drag # "none"
    /\ map' = [map EXCEPT !.placed = @ \cup {map.drag}, !.saved = Saved(map.placed \cup {map.drag}, @)]
    /\ MapOnly
handlePinUp == map.drag # "none" /\ map' = [map EXCEPT !.drag = "none"] /\ MapOnly

(* Pins are drawn when placed, all of them while editing; a click peeks.       *)
PinsShown == IF map.edit THEN Pins ELSE map.placed
PinClicked(p) ==
    /\ map.shown /\ ~map.edit /\ p \in PinsShown
    /\ map' = [map EXCEPT !.shown = FALSE, !.placed = {}]
    /\ speaker' = [speaker EXCEPT !.peeking = TRUE, !.loading = TRUE]
    /\ UNCHANGED <<export, banner>>

DialogInit ==
    /\ export = [open |-> FALSE, busy |-> FALSE, posts |-> 0, lists |-> 0, jobs |-> 0]
    /\ speaker = [peeking |-> FALSE, bar |-> FALSE, loading |-> FALSE, playing |-> FALSE,
                  calls |-> {}, timers |-> 0]
    /\ banner = FALSE
    /\ map = [shown |-> FALSE, edit |-> FALSE, drag |-> "none", placed |-> {}, saved |-> {}]
PlayReturns == PlayStarted \/ PlayFails
ExportReturns == ExportCreated \/ ExportFails
DialogStep ==
    \/ OpenExport \/ CloseExport \/ handleExport \/ ExportReturns \/ loadExports
    \/ PeekOpens \/ PeekCloses \/ getSpeakerInfo \/ PlayMessage \/ PressStop \/ PlayReturns \/ StopReturns \/ MessageEnds
    \/ StorageStatus
    \/ MapMounts \/ MapUnmounts \/ ToggleEdit \/ handlePinMove \/ handlePinUp
    \/ \E p \in Pins : handlePinDown(p) \/ PinClicked(p)

(* The export button comes back after every outcome of the request and of the   *)
(* list that follows it.                                                        *)
ExportButtonReturns == export.busy ~> ~export.busy

(* The speaker bar does not stay in its playing state: a failed call and a      *)
(* failed stop both end in buttons that can be pressed.                         *)
SpeakerQuiets == speaker.playing ~> ~speaker.playing

(* A pin that has been placed stays placed: leaving the map and coming back     *)
(* never writes the empty state of the new component over the saved positions.  *)
PinsStay == [][map.saved \subseteq map'.saved]_dialogVars
==============================================================================
