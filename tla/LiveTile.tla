------------------------------ MODULE LiveTile ------------------------------
(***************************************************************************)
(* The live half of a tile: the stream session that VideoPlayer.tsx opens   *)
(* with hls.js or, under the lowlatency_live flag, with lib/mse-player.ts,  *)
(* the VCA zones drawn over the picture, and the PTZ buttons.  The playback *)
(* half is module VideoPlayer.  Frames, codecs and zoom are data.           *)
(***************************************************************************)
EXTENDS Naturals, FiniteSets

VARIABLES
    isLive,      \* the page's mode, false when the tile is not mounted
    lowLatency,  \* the flag, known once its request returns
    session,     \* the stream
    hasZones,    \* zones are drawn
    zoneCalls,   \* requests for zones, by whether their effect still stands
    ptz          \* button held, camera told to move, 50 ms stop timer

tileVars == <<isLive, lowLatency, session, hasZones, zoneCalls, ptz>>

Opening == {"starting", "open", "offered", "ready"}

(* The one type invariant. *)
TileTypeOK ==
    /\ isLive \in BOOLEAN /\ lowLatency \in BOOLEAN
    /\ session \in Opening \cup {"off", "playing", "error", "frozen", "stuck"}
    /\ hasZones \in BOOLEAN /\ zoneCalls \subseteq {"current", "cancelled"}
    /\ ptz \in [held : BOOLEAN, moving : BOOLEAN, timer : BOOLEAN]

(* The buttons are drawn over a live picture only: no spinner, no error.     *)
PtzShown(s) == s \in {"playing", "frozen"}

(* The stream is s from now on.  Buttons that go take the press with them;   *)
(* nobody tells the camera to stop.                                          *)
SessionBecomes(s) ==
    /\ session' = s
    /\ ptz' = IF PtzShown(s) THEN ptz ELSE [ptz EXCEPT !.held = FALSE]

-----------------------------------------------------------------------------
(* The live effect and the zones effect, when the tile becomes live and when *)
(* it stops being so.  Their cleanups close the stream and cancel the call.  *)
GoLive ==
    /\ isLive' = TRUE /\ SessionBecomes("starting")
    /\ zoneCalls' = zoneCalls \cup {"current"}
    /\ UNCHANGED <<lowLatency, hasZones>>

(* Mutant: the cleanup forgets the call under way. *)
LeaveLiveUncancelled ==
    /\ isLive' = FALSE /\ SessionBecomes("off")
    /\ hasZones' = FALSE
    /\ UNCHANGED <<lowLatency, zoneCalls>>
LeaveLive ==
    /\ isLive' = FALSE /\ SessionBecomes("off")
    /\ hasZones' = FALSE
    /\ zoneCalls' = {"cancelled" : c \in zoneCalls}
    /\ UNCHANGED lowLatency

(* hls.js has parsed the manifest. *)
HlsManifest ==
    /\ isLive /\ ~lowLatency /\ session = "starting"
    /\ SessionBecomes("playing") /\ UNCHANGED <<isLive, lowLatency, hasZones, zoneCalls>>

(* The MSE player: media source open, socket open and codecs offered, codecs *)
(* agreed, first frames appended and the live edge sought.                   *)
MseAdvances ==
    /\ isLive /\ lowLatency
    /\ \/ session = "starting" /\ SessionBecomes("open")
       \/ session = "open"     /\ SessionBecomes("offered")
       \/ session = "offered"  /\ SessionBecomes("ready")
       \/ session = "ready"    /\ SessionBecomes("playing")
    /\ UNCHANGED <<isLive, lowLatency, hasZones, zoneCalls>>

(* A fatal error of either player; neither is started again by itself.       *)
StreamFails ==
    /\ isLive /\ session \in Opening \cup {"playing"}
    /\ lowLatency => session # "starting"
    /\ SessionBecomes("error") /\ UNCHANGED <<isLive, lowLatency, hasZones, zoneCalls>>

(* Close codes 1000 and 1005 are not reported: the picture stands still, or   *)
(* the spinner turns, until the effect runs again.                           *)
MseClosedNormally ==
    /\ isLive /\ lowLatency /\ session \in {"offered", "ready", "playing"}
    /\ session' = IF session = "playing" THEN "frozen" ELSE "stuck"
    /\ UNCHANGED <<isLive, lowLatency, hasZones, zoneCalls, ptz>>

(* toggleCellQuality bumps qualityKey: the live effect runs again.           *)
toggleCellQuality ==
    /\ isLive /\ SessionBecomes("starting")
    /\ UNCHANGED <<isLive, lowLatency, hasZones, zoneCalls>>

FlagArrives ==
    /\ ~lowLatency /\ lowLatency' = TRUE
    /\ IF isLive THEN SessionBecomes("starting") ELSE UNCHANGED <<session, ptz>>
    /\ UNCHANGED <<isLive, hasZones, zoneCalls>>

(* A reply whose effect has been cleaned up is dropped. *)
ZonesReply(c) ==
    /\ c \in zoneCalls /\ zoneCalls' = zoneCalls \ {c}
    /\ hasZones' = (hasZones \/ c = "current")
    /\ UNCHANGED <<isLive, lowLatency, session, ptz>>

-----------------------------------------------------------------------------
(* The PTZ buttons *)
PtzOnly == UNCHANGED <<isLive, lowLatency, session, hasZones, zoneCalls>>

(* Mutant: a press leaves the stop timer of the release before it armed. *)
PTZStartUncleared ==
    /\ PtzShown(session) /\ ~ptz.held
    /\ ptz' = [ptz EXCEPT !.held = TRUE, !.moving = TRUE]
    /\ PtzOnly
handlePTZStart ==
    /\ PtzShown(session) /\ ~ptz.held
    /\ ptz' = [held |-> TRUE, moving |-> TRUE, timer |-> FALSE]
    /\ PtzOnly
(* mouseup, touchend or the pointer leaving the button *)
handlePTZStop ==
    /\ PtzShown(session) /\ ptz.moving
    /\ ptz' = [ptz EXCEPT !.held = FALSE, !.timer = TRUE]
    /\ PtzOnly
PTZStopTimer ==
    /\ ptz.timer
    /\ ptz' = [ptz EXCEPT !.moving = FALSE, !.timer = FALSE]
    /\ PtzOnly

TileInit ==
    /\ isLive = TRUE /\ lowLatency = FALSE /\ session = "starting"
    /\ hasZones = FALSE /\ zoneCalls = {"current"}
    /\ ptz = [held |-> FALSE, moving |-> FALSE, timer |-> FALSE]

TileStep ==
    \/ HlsManifest \/ MseAdvances \/ StreamFails \/ MseClosedNormally
    \/ toggleCellQuality \/ FlagArrives
    \/ \E c \in {"current", "cancelled"} : ZonesReply(c)
    \/ handlePTZStart \/ handlePTZStop \/ PTZStopTimer

(* While a PTZ button is held the camera moves: the delayed stop of an        *)
(* earlier release never falls into a later press.                            *)
HeldKeepsMoving == ptz.held => ptz.moving /\ ~ptz.timer

(* Zones are drawn over live pictures only, even when their reply arrives     *)
(* after the tile has gone to playback or the page has been left.             *)
ZonesOnlyLive == hasZones => isLive
==============================================================================
