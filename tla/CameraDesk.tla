----------------------------- MODULE CameraDesk -----------------------------
(***************************************************************************)
(* The cameras tab: CameraManager.tsx (the list with its deletions, the add *)
(* form, the network scan, the settings dialog), the vendor panels of       *)
(* MilesightAdvanced.tsx and the zone editor, VCAZoneEditor.tsx with its    *)
(* hooks.  Names, addresses, pictures and coordinates are data.             *)
(***************************************************************************)
EXTENDS Naturals, FiniteSets

CONSTANTS Cams,       \* cameras of the list, and devices of the network
          MaxPoints,  \* bound: corners of a zone being drawn
          MaxZones    \* bound: zones being created together

ASSUME PointsAssumption == MaxPoints \in Nat /\ MaxPoints >= 3 /\ MaxZones \in Nat

VARIABLES roster,   \* the list, the selection and the deletions
          dialog,   \* the settings dialog: one of its fields
          newcam,   \* the form of a new camera
          scan,     \* the discovered devices
          panel,    \* one vendor panel: usePanel and useSaver
          zone,     \* the zone editor: drawing, dragging, the rules
          still     \* useVCASnapshot

camVars == <<roster, dialog, newcam, scan, panel, zone, still>>

-----------------------------------------------------------------------------
(* The list.  selected may hold a camera that is gone; a bulk deletion works     *)
(* through the ids it copied while the boxes stay live.                          *)
RosterOnly == UNCHANGED <<dialog, newcam, scan, panel, zone, still>>
CamerasArrive == roster' = [roster EXCEPT !.shown = roster.server] /\ RosterOnly     \* onRefresh, and the parent's own
toggleSelect(c) ==
    /\ c \in roster.shown
    /\ roster' = [roster EXCEPT !.selected = IF c \in @ THEN @ \ {c} ELSE @ \cup {c}] /\ RosterOnly
toggleSelectAll ==       \* compares sizes
    /\ roster.shown # {}
    /\ roster' = [roster EXCEPT !.selected = IF Cardinality(@) = Cardinality(roster.shown) THEN {} ELSE roster.shown]
    /\ RosterOnly
AskBulkDelete == roster.selected # {} /\ roster' = [roster EXCEPT !.asking = ~@] /\ RosterOnly
ClearSelection == ~roster.asking /\ roster' = [roster EXCEPT !.selected = {}] /\ RosterOnly
handleBulkDelete ==
    /\ roster.selected # {} /\ roster.asking /\ ~roster.bulk
    /\ roster' = [roster EXCEPT !.bulk = TRUE, !.ids = roster.selected, !.agreed = @ \cup roster.selected] /\ RosterOnly
(* Mutant of BulkDeleteNext: the loop reads the live selection. *)
BulkDeleteLive ==
    /\ roster.bulk /\ roster.ids # {}
    /\ \E c \in roster.ids \cup roster.selected : \E ok \in BOOLEAN :
          roster' = [roster EXCEPT !.ids = @ \ {c}, !.server = IF ok THEN @ \ {c} ELSE @]
    /\ RosterOnly
BulkDeleteNext ==
    /\ roster.bulk /\ roster.ids # {}
    /\ \E c \in roster.ids : \E ok \in BOOLEAN :
          roster' = [roster EXCEPT !.ids = @ \ {c}, !.server = IF ok THEN @ \ {c} ELSE @]
    /\ RosterOnly
BulkDeleteEnds ==
    /\ roster.bulk /\ roster.ids = {}
    /\ roster' = [roster EXCEPT !.bulk = FALSE, !.asking = FALSE, !.selected = {}] /\ RosterOnly
AskDelete(c) == c \in roster.shown /\ roster' = [roster EXCEPT !.confirmId = {c}] /\ RosterOnly
CancelDelete == roster.confirmId # {} /\ roster' = [roster EXCEPT !.confirmId = {}] /\ RosterOnly
handleDeleteCamera ==
    /\ roster.confirmId # {} /\ roster.confirmId \subseteq roster.shown
    /\ roster' = [roster EXCEPT !.single = @ \cup roster.confirmId, !.agreed = @ \cup roster.confirmId] /\ RosterOnly
(* Either way the question is taken back, whichever camera it is about by now. *)
CameraDeleted ==
    /\ \E c \in roster.single : \E ok \in BOOLEAN :
          roster' = [roster EXCEPT !.single = @ \ {c}, !.confirmId = {}, !.server = IF ok THEN @ \ {c} ELSE @]
    /\ RosterOnly
RosterStep ==
    \/ CamerasArrive \/ toggleSelectAll \/ AskBulkDelete \/ ClearSelection \/ handleBulkDelete \/ BulkDeleteNext
    \/ BulkDeleteEnds \/ CancelDelete \/ handleDeleteCamera \/ CameraDeleted
    \/ \E c \in Cams : toggleSelect(c) \/ AskDelete(c)

-----------------------------------------------------------------------------
(* The dialog saves a field when it loses the focus and when Save & Close finds  *)
(* it changed.  Changed means different from editingCamera, which the handlers   *)
(* of the address, stream, user and switches keep up to date and those of the    *)
(* name and the group do not.                                                    *)
DialogOnly == UNCHANGED <<roster, newcam, scan, panel, zone, still>>
Kinds == {"address", "name", "switch"}
Values == {1, 2}
EditCamera(k) ==
    /\ ~dialog.open
    /\ dialog' = [dialog EXCEPT !.open = TRUE, !.kind = k, !.editing = dialog.stored, !.field = dialog.stored,
                                !.last = dialog.stored, !.how = "none"]
    /\ DialogOnly
TypeField(v) == dialog.open /\ dialog.kind # "switch" /\ dialog' = [dialog EXCEPT !.field = v] /\ DialogOnly
handleUpdate(d, v) == [d EXCEPT !.puts = @ \cup {v}, !.last = v]
(* Mutant of onBlur: editingCamera is never brought up to date. *)
BlurLikeName ==
    /\ dialog.open /\ dialog.kind # "switch" /\ dialog.field # dialog.editing
    /\ dialog' = handleUpdate(dialog, dialog.field) /\ DialogOnly
onBlur ==
    /\ dialog.open /\ dialog.kind # "switch" /\ dialog.field # dialog.editing
    /\ dialog' = IF dialog.kind = "name" THEN handleUpdate(dialog, dialog.field)
                 ELSE [handleUpdate(dialog, dialog.field) EXCEPT !.editing = dialog.field]
    /\ DialogOnly
FlipSwitch ==
    /\ dialog.open /\ dialog.kind = "switch"
    /\ dialog' = LET v == 3 - dialog.editing IN [handleUpdate(dialog, v) EXCEPT !.editing = v, !.field = v]
    /\ DialogOnly
UpdateDone ==
    /\ \E v \in dialog.puts : \E ok \in BOOLEAN :
          dialog' = [dialog EXCEPT !.puts = @ \ {v}, !.stored = IF ok THEN v ELSE @]
    /\ DialogOnly
CloseDialog ==        \* Close: what was typed and not blurred is gone
    /\ dialog.open /\ ~dialog.saving /\ dialog' = [dialog EXCEPT !.open = FALSE, !.how = "close"] /\ DialogOnly
handleSaveAndClose ==
    /\ dialog.open /\ ~dialog.saving
    /\ dialog' = IF dialog.field = dialog.editing THEN [dialog EXCEPT !.open = FALSE, !.how = "save"]
                 ELSE [dialog EXCEPT !.saving = TRUE, !.body = dialog.field]
    /\ DialogOnly
(* A success closes the dialog with what was typed since; a failure keeps it. *)
DialogSaved ==
    /\ dialog.saving
    /\ \E ok \in BOOLEAN :
          dialog' = IF ok THEN [dialog EXCEPT !.saving = FALSE, !.open = FALSE, !.how = "saved", !.stored = dialog.body,
                                              !.last = dialog.body]
                    ELSE [dialog EXCEPT !.saving = FALSE]
    /\ DialogOnly
RebootDevice == dialog.open /\ ~dialog.rebooting /\ dialog' = [dialog EXCEPT !.rebooting = TRUE] /\ DialogOnly
RebootAnswered == dialog.rebooting /\ dialog' = [dialog EXCEPT !.rebooting = FALSE] /\ DialogOnly
DialogStep ==
    \/ onBlur \/ FlipSwitch \/ UpdateDone \/ CloseDialog \/ handleSaveAndClose \/ DialogSaved \/ RebootDevice \/ RebootAnswered
    \/ (\E k \in Kinds : EditCamera(k)) \/ (\E v \in Values : TypeField(v))

-----------------------------------------------------------------------------
(* A new camera: the form stays editable, and can be closed by a click beside    *)
(* it, while the camera is probed for up to a minute.                            *)
NewcamOnly == UNCHANGED <<roster, dialog, scan, panel, zone, still>>
Classes == {"continuous", "sense"}
OpenAdd == newcam' = [newcam EXCEPT !.open = TRUE] /\ NewcamOnly
CloseAdd == newcam.open /\ newcam' = [newcam EXCEPT !.open = FALSE] /\ NewcamOnly
CancelAdd == newcam.open /\ ~newcam.adding /\ newcam' = [newcam EXCEPT !.open = FALSE, !.error = FALSE] /\ NewcamOnly
FillAdd(k) == newcam.open /\ newcam' = [newcam EXCEPT !.class = k, !.address = TRUE] /\ NewcamOnly
handleAdd ==
    /\ newcam.open /\ newcam.address /\ ~newcam.adding
    /\ newcam' = [newcam EXCEPT !.adding = TRUE, !.error = FALSE, !.sent = newcam.class] /\ NewcamOnly
(* Mutant of CameraAdded: the class that stands in the form. *)
CameraAddedForm ==
    /\ newcam.adding
    /\ \E ok \in BOOLEAN :
          newcam' = IF ok THEN [newcam EXCEPT !.adding = FALSE, !.open = FALSE, !.class = "continuous", !.address = FALSE,
                                              !.webhook = @ \/ newcam.class = "sense"]
                    ELSE [newcam EXCEPT !.adding = FALSE, !.error = TRUE]
    /\ NewcamOnly
(* The webhook is shown for the class the server created. *)
CameraAdded ==
    /\ newcam.adding
    /\ \E ok \in BOOLEAN :
          newcam' = IF ok THEN [newcam EXCEPT !.adding = FALSE, !.open = FALSE, !.class = "continuous", !.address = FALSE,
                                              !.webhook = @ \/ newcam.sent = "sense"]
                    ELSE [newcam EXCEPT !.adding = FALSE, !.error = TRUE]
    /\ NewcamOnly
WebhookDone == newcam.webhook /\ newcam' = [newcam EXCEPT !.webhook = FALSE] /\ NewcamOnly
NewcamStep ==
    OpenAdd \/ CloseAdd \/ CancelAdd \/ (\E k \in Classes : FillAdd(k)) \/ handleAdd \/ CameraAdded \/ WebhookDone

-----------------------------------------------------------------------------
(* Discovery: the button of the page starts a scan while another is running, and *)
(* a late answer replaces the devices under a selection.                         *)
ScanOnly == UNCHANGED <<roster, dialog, newcam, panel, zone, still>>
handleDiscover ==
    /\ scan.running < 2 /\ ~scan.addingBulk /\ (scan.open => ~scan.discovering)   \* the bound: two scans
    /\ scan' = [scan EXCEPT !.open = TRUE, !.discovering = TRUE, !.selected = {}, !.running = @ + 1] /\ ScanOnly
ScanEnds ==
    /\ scan.running > 0
    /\ \E found \in SUBSET Cams : scan' = [scan EXCEPT !.running = @ - 1, !.discovering = FALSE, !.devices = found]
    /\ ScanOnly
ScanFails == scan.running > 0 /\ scan' = [scan EXCEPT !.running = @ - 1, !.discovering = FALSE] /\ ScanOnly
CloseDiscovery == scan.open /\ scan' = [scan EXCEPT !.open = FALSE] /\ ScanOnly
toggleDeviceSelection(d) ==
    /\ scan.open /\ ~scan.discovering /\ d \in scan.devices
    /\ scan' = [scan EXCEPT !.selected = IF d \in @ THEN @ \ {d} ELSE @ \cup {d}] /\ ScanOnly
toggleAllDevices ==
    /\ scan.open /\ ~scan.discovering /\ scan.devices # {}
    /\ scan' = [scan EXCEPT !.selected = IF Cardinality(@) = Cardinality(scan.devices) THEN {} ELSE scan.devices] /\ ScanOnly
handleLoadPreview(d) ==
    /\ scan.open /\ ~scan.discovering /\ d \in scan.devices /\ d \notin scan.loading
    /\ scan' = [scan EXCEPT !.loading = @ \cup {d}] /\ ScanOnly
PreviewEnds == \E d \in scan.loading : scan' = [scan EXCEPT !.loading = @ \ {d}] /\ ScanOnly
(* Mutant of handleBulkAdd: every selected address. *)
BulkAddSelected ==
    /\ scan.open /\ scan.selected # {} /\ ~scan.addingBulk
    /\ scan' = [scan EXCEPT !.addingBulk = TRUE, !.creating = scan.selected, !.seen = scan.devices] /\ ScanOnly
(* A selected address that is no longer listed is skipped. *)
handleBulkAdd ==
    /\ scan.open /\ scan.selected # {} /\ ~scan.addingBulk
    /\ scan' = [scan EXCEPT !.addingBulk = TRUE, !.creating = scan.selected \cap scan.devices, !.seen = scan.devices]
    /\ ScanOnly
(* All settled, failures unnoticed; the dialog closes. *)
BulkAddEnds ==
    /\ scan.addingBulk /\ scan' = [scan EXCEPT !.addingBulk = FALSE, !.open = FALSE, !.creating = {}, !.seen = {}] /\ ScanOnly
ScanStep ==
    \/ handleDiscover \/ ScanEnds \/ ScanFails \/ CloseDiscovery \/ toggleAllDevices \/ PreviewEnds \/ handleBulkAdd \/ BulkAddEnds
    \/ \E d \in Cams : toggleDeviceSelection(d) \/ handleLoadPreview(d)

-----------------------------------------------------------------------------
(* A vendor panel.  A tab of one panel shows its form when the last read came    *)
(* back; the tabs of two show it as long as there is something to show.          *)
PanelOnly == UNCHANGED <<roster, dialog, newcam, scan, zone, still>>
FormShown(p) == IF p.many THEN p.data # 0 ELSE ~p.loading /\ ~p.error /\ p.data # 0
reload == panel' = [panel EXCEPT !.loading = TRUE, !.error = FALSE] /\ PanelOnly
PanelRead ==
    /\ panel.loading
    /\ \E ok \in BOOLEAN :
          panel' = IF ok THEN [panel EXCEPT !.loading = FALSE, !.data = 1] ELSE [panel EXCEPT !.loading = FALSE, !.error = TRUE]
    /\ PanelOnly
EditPanel == FormShown(panel) /\ panel' = [panel EXCEPT !.data = 2] /\ PanelOnly
PressReload == FormShown(panel) /\ ~panel.saving /\ reload
(* Mutant of savePanel: a form of defaults before the read. *)
SaveAlways ==
    /\ ~panel.saving
    /\ panel' = [panel EXCEPT !.saving = TRUE, !.message = "none", !.body = panel.data] /\ PanelOnly
savePanel ==
    /\ FormShown(panel) /\ ~panel.saving
    /\ panel' = [panel EXCEPT !.saving = TRUE, !.message = "none", !.body = panel.data] /\ PanelOnly
(* Mutant of PanelSaved: no finally. *)
PanelSavedOnly ==
    /\ panel.saving
    /\ \E ok \in BOOLEAN :
          panel' = IF ok THEN [panel EXCEPT !.saving = FALSE, !.message = "saved", !.timer = TRUE]
                   ELSE [panel EXCEPT !.message = "error"]
    /\ PanelOnly
PanelSaved ==
    /\ panel.saving
    /\ \E ok \in BOOLEAN :
          panel' = IF ok THEN [panel EXCEPT !.saving = FALSE, !.message = "saved", !.timer = TRUE]
                   ELSE [panel EXCEPT !.saving = FALSE, !.message = "error"]
    /\ PanelOnly
(* The three seconds of a success also take away the error of the next save. *)
MessageExpires == panel.timer /\ panel' = [panel EXCEPT !.timer = FALSE, !.message = "none"] /\ PanelOnly
(* setTab: another panel starts from nothing; the reboot and preset buttons only talk. *)
ChoosePanel(m) ==
    /\ panel' = [many |-> m, loading |-> TRUE, error |-> FALSE, data |-> 0, saving |-> FALSE, body |-> 1,
                 message |-> "none", timer |-> FALSE]
    /\ PanelOnly
rebootPanel == panel' = [panel EXCEPT !.message = "none"] /\ PanelOnly
handleGoto == FormShown(panel) /\ panel' = [panel EXCEPT !.message = "none"] /\ PanelOnly
PanelStep ==
    \/ PanelRead \/ EditPanel \/ PressReload \/ savePanel \/ PanelSaved \/ MessageExpires \/ rebootPanel \/ handleGoto
    \/ \E m \in BOOLEAN : ChoosePanel(m)

-----------------------------------------------------------------------------
(* The zone editor.  A corner is placed by a click; a polygon is finished by a   *)
(* click on its first corner, a double click or the button, a tripwire by its    *)
(* second click.  Nothing stops a second finish while the first is being saved.  *)
ZoneOnly == UNCHANGED <<roster, dialog, newcam, scan, panel, still>>
ZoneTypes == {"polygon", "linecross"}
minPoints(t) == IF t = "linecross" THEN 2 ELSE 3
ChooseType(t) ==
    /\ zone.mode = "idle" /\ zone' = [zone EXCEPT !.mode = "drawing", !.type = t, !.points = 0, !.selected = FALSE] /\ ZoneOnly
CancelDrawing == zone.mode = "drawing" /\ zone' = [zone EXCEPT !.mode = "idle", !.points = 0] /\ ZoneOnly
UndoPoint == zone.mode = "drawing" /\ zone.points > 0 /\ zone' = [zone EXCEPT !.points = @ - 1] /\ ZoneOnly
finishDrawing(z, n) ==
    IF n < minPoints(z.type) \/ z.finishing = MaxZones THEN z
    ELSE [z EXCEPT !.finishing = @ + 1, !.made = @ \cup {[type |-> z.type, points |-> n]}]
(* Mutant of ClickCanvas: the second corner of a tripwire is only placed. *)
ClickCanvasLate ==
    /\ zone.mode = "drawing" /\ ~zone.dragging
    /\ zone' = IF zone.type = "linecross" /\ zone.points + 1 > 2 THEN finishDrawing(zone, zone.points + 1)
               ELSE [zone EXCEPT !.points = IF @ < MaxPoints THEN @ + 1 ELSE @]
    /\ ZoneOnly
ClickCanvas ==
    /\ zone.mode = "drawing" /\ ~zone.dragging
    /\ zone' = IF zone.type = "linecross" /\ zone.points + 1 >= 2 THEN finishDrawing(zone, zone.points + 1)
               ELSE [zone EXCEPT !.points = IF @ < MaxPoints THEN @ + 1 ELSE @]
    /\ ZoneOnly
CloseShape ==        \* the first corner, the double click
    /\ zone.mode = "drawing" /\ zone.type # "linecross" /\ zone.points >= 3
    /\ zone' = finishDrawing(zone, zone.points) /\ ZoneOnly
SaveZone ==
    /\ zone.mode = "drawing" /\ zone.points >= minPoints(zone.type) /\ zone' = finishDrawing(zone, zone.points) /\ ZoneOnly
(* Mutant of ZoneSaved: the drawing is put away after a success only. *)
ZoneSavedOnly ==
    /\ zone.finishing > 0
    /\ \E ok \in BOOLEAN :
          zone' = IF ok THEN [zone EXCEPT !.finishing = @ - 1, !.mode = "idle", !.points = 0] ELSE [zone EXCEPT !.finishing = @ - 1]
    /\ ZoneOnly
(* Saved and listed again, or refused: the drawing is put away, be it the next one. *)
ZoneSaved ==
    /\ zone.finishing > 0
    /\ zone' = [zone EXCEPT !.finishing = @ - 1, !.mode = "idle", !.points = 0] /\ ZoneOnly
ClickZone(s) == zone.mode = "idle" /\ ~zone.dragging /\ zone' = [zone EXCEPT !.selected = s] /\ ZoneOnly
onMouseDown == zone.mode = "idle" /\ zone.selected /\ zone' = [zone EXCEPT !.dragging = TRUE] /\ ZoneOnly
onMouseUp == zone.dragging /\ zone' = [zone EXCEPT !.dragging = FALSE] /\ ZoneOnly   \* sends the rule as it stands
handleDeleteRule == zone.mode = "idle" /\ zone' = [zone EXCEPT !.selected = FALSE] /\ ZoneOnly
ZoneStep ==
    \/ CancelDrawing \/ UndoPoint \/ ClickCanvas \/ CloseShape \/ SaveZone \/ ZoneSaved \/ onMouseDown \/ onMouseUp
    \/ handleDeleteRule \/ (\E t \in ZoneTypes : ChooseType(t)) \/ (\E s \in BOOLEAN : ClickZone(s))

(* The picture behind the zones: the camera's own, else a frame of the stream    *)
(* that is waited for five seconds, else none.                                   *)
StillOnly == UNCHANGED <<roster, dialog, newcam, scan, panel, zone>>
loadSnapshot == still \in {"error"} /\ still' = "onvif" /\ StillOnly      \* Retry
OnvifAnswers == still = "onvif" /\ still' \in {"loaded", "error", "hls"} /\ StillOnly
PlaylistAnswers == still = "hls" /\ still' \in {"frame", "error"} /\ StillOnly
FrameArrives == still = "frame" /\ still' \in {"loaded", "error"} /\ StillOnly
FrameWaits == still = "frame" /\ UNCHANGED camVars      \* mutant of FrameTimeout: no timer
FrameTimeout == still = "frame" /\ still' = "error" /\ StillOnly
StillStep == loadSnapshot \/ OnvifAnswers \/ PlaylistAnswers \/ FrameArrives \/ FrameTimeout

-----------------------------------------------------------------------------
CamInit ==
    /\ roster = [server |-> Cams, shown |-> {}, selected |-> {}, asking |-> FALSE, bulk |-> FALSE, ids |-> {}, agreed |-> {},
                 confirmId |-> {}, single |-> {}]
    /\ dialog = [open |-> FALSE, kind |-> "name", editing |-> 1, field |-> 1, stored |-> 1, puts |-> {}, saving |-> FALSE,
                 body |-> 1, last |-> 1, how |-> "none", rebooting |-> FALSE]
    /\ newcam = [open |-> FALSE, class |-> "continuous", address |-> FALSE, adding |-> FALSE, error |-> FALSE,
                 sent |-> "continuous", webhook |-> FALSE]
    /\ scan = [open |-> FALSE, discovering |-> FALSE, running |-> 0, devices |-> {}, selected |-> {}, loading |-> {},
               addingBulk |-> FALSE, creating |-> {}, seen |-> {}]
    /\ panel = [many |-> FALSE, loading |-> TRUE, error |-> FALSE, data |-> 0, saving |-> FALSE, body |-> 1,
                message |-> "none", timer |-> FALSE]
    /\ zone = [mode |-> "idle", type |-> "polygon", points |-> 0, selected |-> FALSE, dragging |-> FALSE, finishing |-> 0, made |-> {}]
    /\ still = "onvif"

CamParts == {"cameralist", "cameradialog", "newcamera", "discovery", "vendorpanel", "zones", "snapshot"}
CamStep(p) ==
    \/ p = "cameralist" /\ RosterStep
    \/ p = "cameradialog" /\ DialogStep
    \/ p = "newcamera" /\ NewcamStep
    \/ p = "discovery" /\ ScanStep
    \/ p = "vendorpanel" /\ PanelStep
    \/ p = "zones" /\ ZoneStep
    \/ p = "snapshot" /\ StillStep

(* The one type invariant. *)
CamTypeOK ==
    /\ roster.selected \subseteq Cams /\ roster.server \subseteq Cams /\ Cardinality(roster.confirmId) <= 1
    /\ dialog.puts \subseteq Values /\ dialog.field \in Values /\ newcam.class \in Classes
    /\ scan.running \in 0..2 /\ scan.devices \subseteq Cams /\ panel.data \in 0..2
    /\ zone.points \in 0..MaxPoints /\ zone.finishing \in 0..MaxZones
    /\ still \in {"onvif", "hls", "frame", "loaded", "error"}

(* No camera is deleted that was not on the list when Yes was pressed, although  *)
(* the boxes stay live while a bulk deletion works through its cameras.          *)
OnlyConfirmedAreDeleted == Cams \ roster.server \subseteq roster.agreed

(* Save & Close "commits the current values": an address that stands in the      *)
(* field when the dialog closes itself was the last one sent, whatever was saved *)
(* on leaving the field before.                                                  *)
SaveSendsWhatStands == dialog.how = "save" /\ dialog.kind = "address" => dialog.last = dialog.field

(* A camera created as push-only shows its webhook, the only time its token is   *)
(* offered, although the form may have been edited or closed meanwhile.          *)
WebhookIsOffered ==
    [][newcam.adding /\ ~newcam'.adding /\ ~newcam'.error /\ newcam.sent = "sense" => newcam'.webhook]_camVars

(* Only devices that are still listed are added, although a late scan replaces   *)
(* the list under the selection.                                                 *)
OnlyListedAreAdded == scan.creating \subseteq scan.seen

(* Nothing is written to a camera that was not first read from it: "a bad write  *)
(* can silently brick a production camera".                                      *)
NothingWrittenUnread == panel.saving => panel.body # 0

(* The save button of a panel returns.                                           *)
PanelSaveReturns == panel.saving ~> ~panel.saving

(* A stored tripwire has exactly two ends and any other zone at least three      *)
(* corners, however corners were placed, undone and shapes finished twice.       *)
ZonesAreShapes == \A z \in zone.made : IF z.type = "linecross" THEN z.points = 2 ELSE z.points >= 3

(* A finished drawing is put away.                                               *)
DrawingEnds == zone.finishing > 0 ~> zone.mode = "idle"

(* The zone editor never waits for its picture for ever, although the video      *)
(* element may never report a frame.                                             *)
SnapshotSettles == still = "frame" ~> still \in {"loaded", "error"}
=============================================================================
