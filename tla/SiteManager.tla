---------------------------- MODULE SiteManager ----------------------------
(***************************************************************************)
(* The site manager of the administration page: SiteConfigModal.tsx and the *)
(* panels it opens (components/admin), each with its own state and its own  *)
(* requests, and the audit trail.  Labels, addresses, times and coordinates *)
(* are data.  A panel's state is lost when another one is chosen; what its  *)
(* requests do at the server is not.                                        *)
(***************************************************************************)
EXTENDS Naturals, Sequences, FiniteSets

CONSTANTS Windows,     \* windows of a recording or monitoring schedule
          Markers,     \* cameras that can be placed on the site map
          MaxSaves     \* bound: saves of the map under way together

ASSUME WindowsAssumption == Windows # {}      \* a schedule is stored in the older format

VARIABLES details,   \* CreateSiteModal
          cam,       \* one camera of CameraSection
          spk,       \* one speaker of SpeakerSection
          sop,       \* one procedure of SiteSOPModal
          access,    \* UserAssignmentModal
          danger,    \* DangerZone
          policy,    \* SiteRecordingPanel
          schedule,  \* SiteScheduleModal
          rules,     \* NotificationRulesModal
          sitemap,   \* SiteMapModal
          audit      \* AuditLogPanel and AuditLogExport

siteVars == <<details, cam, spk, sop, access, danger, policy, schedule, rules, sitemap, audit>>

-----------------------------------------------------------------------------
(* Site details.  A stored address holds the city a number of times: the form   *)
(* reads the whole address into its street field and joins the fields again.    *)
DetailsOnly == UNCHANGED <<cam, spk, sop, access, danger, policy, schedule, rules, sitemap, audit>>
fullAddress(d) == IF d.city /\ d.street < 2 THEN d.street + 1 ELSE d.street
SiteArrives ==    \* also after every save and when the window gets the focus
    /\ details' = [details EXCEPT !.loaded = TRUE, !.street = details.stored, !.named = TRUE] /\ DetailsOnly
TypeCity == details' = [details EXCEPT !.city = ~@] /\ DetailsOnly
TypeStreet == details' = [details EXCEPT !.street = 0] /\ DetailsOnly
TypeName == details' = [details EXCEPT !.named = TRUE] /\ DetailsOnly   \* and chooses the company
handleSubmit1 ==
    /\ details.named /\ ~details.pending
    /\ details' = [details EXCEPT !.pending = TRUE, !.body = fullAddress(details)] /\ DetailsOnly
SiteSaved ==
    /\ details.pending
    /\ \E ok \in BOOLEAN : details' = [details EXCEPT !.pending = FALSE, !.stored = IF ok THEN details.body ELSE @]
    /\ DetailsOnly
DetailsStep == SiteArrives \/ TypeCity \/ TypeStreet \/ TypeName \/ handleSubmit1 \/ SiteSaved

-----------------------------------------------------------------------------
(* Devices.  shown is the site the last master list had for the device. *)
CamOnly == UNCHANGED <<details, spk, sop, access, danger, policy, schedule, rules, sitemap, audit>>
MasterList == cam' = [cam EXCEPT !.shown = cam.site] /\ CamOnly
handleAssign == cam.shown = "none" /\ cam.call = "none" /\ cam' = [cam EXCEPT !.call = "assign", !.error = FALSE] /\ CamOnly
handleUnassign == cam.shown = "here" /\ cam.call = "none" /\ cam' = [cam EXCEPT !.call = "unassign", !.error = FALSE] /\ CamOnly
handleMove == cam.shown = "other" /\ cam.call = "none" /\ cam' = [cam EXCEPT !.call = "move", !.error = FALSE] /\ CamOnly
(* Mutant of CameraReply: a move is an unassignment followed by an assignment. *)
CameraReplyInTwo ==
    /\ cam.call # "none"
    /\ \E ok \in BOOLEAN :
          cam' = IF ~ok THEN [cam EXCEPT !.call = "none", !.error = TRUE]
                 ELSE IF cam.call = "move" THEN [cam EXCEPT !.site = "none", !.call = "assign"]
                 ELSE [cam EXCEPT !.site = IF cam.call = "unassign" THEN "none" ELSE "here", !.call = "none"]
    /\ CamOnly
(* One call for each: the server's assignment overwrites the old site. *)
CameraReply ==
    /\ cam.call # "none"
    /\ \E ok \in BOOLEAN :
          cam' = IF ~ok THEN [cam EXCEPT !.call = "none", !.error = TRUE]
                 ELSE [cam EXCEPT !.site = IF cam.call = "unassign" THEN "none" ELSE "here", !.call = "none"]
    /\ CamOnly
handleTestCamera == cam.shown = "none" /\ ~cam.testing /\ cam' = [cam EXCEPT !.testing = TRUE] /\ CamOnly
CameraTested == cam.testing /\ cam' = [cam EXCEPT !.testing = FALSE] /\ CamOnly
ConfigureZones == cam.shown = "here" /\ cam' = [cam EXCEPT !.zones = ~@] /\ CamOnly
CameraStep ==
    \/ MasterList \/ handleAssign \/ handleUnassign \/ handleMove \/ CameraReply
    \/ handleTestCamera \/ CameraTested \/ ConfigureZones

(* A speaker is moved by two calls, and no failure is shown. *)
SpkOnly == UNCHANGED <<details, cam, sop, access, danger, policy, schedule, rules, sitemap, audit>>
SpeakerCalls == [none |-> <<"assign">>, here |-> <<"unassign">>, other |-> <<"unassign", "assign">>]
SpeakerList == spk' = [spk EXCEPT !.shown = spk.site] /\ SpkOnly
SpeakerButton == spk.calls = <<>> /\ spk' = [spk EXCEPT !.calls = SpeakerCalls[spk.shown]] /\ SpkOnly
SpeakerReply ==
    /\ spk.calls # <<>>
    /\ \E ok \in BOOLEAN :
          spk' = IF ~ok THEN [spk EXCEPT !.calls = <<>>]
                 ELSE [spk EXCEPT !.site = IF Head(spk.calls) = "unassign" THEN "none" ELSE "here", !.calls = Tail(@)]
    /\ SpkOnly
SpeakerStep == SpeakerList \/ SpeakerButton \/ SpeakerReply

-----------------------------------------------------------------------------
(* Standard procedures: one of them, with the contacts no form shows. *)
SopOnly == UNCHANGED <<details, cam, spk, access, danger, policy, schedule, rules, sitemap, audit>>
NoSop == [exists |-> FALSE, contacts |-> FALSE]
SopsArrive == sop' = [sop EXCEPT !.loading = FALSE, !.row = sop.stored] /\ SopOnly   \* no catch: else for ever
AddForm == sop' = [sop EXCEPT !.adding = ~@] /\ SopOnly
handleAddSOP ==
    /\ sop.adding /\ ~sop.stored.exists
    /\ sop' = [sop EXCEPT !.calls = @ \cup {"add"}] /\ SopOnly
ToggleExpand == sop.row.exists /\ sop' = [sop EXCEPT !.expanded = ~@] /\ SopOnly
startEdit == sop.row.exists /\ sop' = [sop EXCEPT !.editing = TRUE, !.expanded = TRUE] /\ SopOnly
CancelEdit == sop.editing /\ sop' = [sop EXCEPT !.editing = FALSE] /\ SopOnly
(* Mutant of handleSaveEdit: the form's fields only. *)
SaveFieldsOnly ==
    /\ sop.editing /\ sop.expanded /\ sop.row.exists
    /\ sop' = [sop EXCEPT !.calls = @ \cup {"save"}, !.sent = FALSE] /\ SopOnly
(* The update is a whole record: the contacts come from the row. *)
handleSaveEdit ==
    /\ sop.editing /\ sop.expanded /\ sop.row.exists
    /\ sop' = [sop EXCEPT !.calls = @ \cup {"save"}, !.sent = sop.row.contacts] /\ SopOnly
handleDeleteSOP == sop.row.exists /\ sop' = [sop EXCEPT !.calls = @ \cup {"delete"}] /\ SopOnly
(* Only a success changes the list; an error is not caught. *)
SopReply ==
    /\ \E c \in sop.calls : \E ok \in BOOLEAN :
          sop' = LET left == [sop EXCEPT !.calls = @ \ {c}]
                 IN  CASE ~ok -> left
                       [] ok /\ c = "add" -> [left EXCEPT !.stored = [exists |-> TRUE, contacts |-> FALSE],
                                                          !.row = [exists |-> TRUE, contacts |-> FALSE], !.adding = FALSE]
                       [] ok /\ c = "save" -> [left EXCEPT !.stored.contacts = @ /\ sop.sent, !.editing = FALSE]
                       [] ok /\ c = "delete" -> [left EXCEPT !.stored = NoSop, !.row = NoSop]
    /\ SopOnly
SopStep ==
    \/ SopsArrive \/ AddForm \/ handleAddSOP \/ ToggleExpand \/ startEdit \/ CancelEdit \/ handleSaveEdit
    \/ handleDeleteSOP \/ SopReply

-----------------------------------------------------------------------------
(* User access: the checkboxes of two users. *)
AccessOnly == UNCHANGED <<details, cam, spk, sop, danger, policy, schedule, rules, sitemap, audit>>
Staff == {1, 2}
UsersArrive == access.loading /\ \E ok \in BOOLEAN : access' = [access EXCEPT !.loading = FALSE, !.failed = ~ok] /\ AccessOnly
handleToggle(u) ==
    /\ ~access.loading /\ ~access.failed /\ access.saving = 0
    /\ access' = [access EXCEPT !.saving = u] /\ AccessOnly
ToggleReply ==
    /\ access.saving # 0
    /\ \E ok \in BOOLEAN :
          access' = [access EXCEPT !.saving = 0, !.ticked[access.saving] = IF ok THEN ~@ ELSE @]
    /\ AccessOnly
AccessStep == UsersArrive \/ (\E u \in Staff : handleToggle(u)) \/ ToggleReply

-----------------------------------------------------------------------------
(* Archive and delete.  The panel's own apiFetch does not look at the status,   *)
(* so a refused request counts as done.                                         *)
DangerOnly == UNCHANGED <<details, cam, spk, sop, access, policy, schedule, rules, sitemap, audit>>
handleArchive == danger.open /\ ~danger.archiving /\ ~danger.archived /\ danger' = [danger EXCEPT !.archiving = TRUE] /\ DangerOnly
Archived ==
    /\ danger.archiving
    /\ \E net \in BOOLEAN : danger' = [danger EXCEPT !.archiving = FALSE, !.archived = net, !.timer = net]
    /\ DangerOnly
ArchiveCloses == danger.timer /\ danger' = [danger EXCEPT !.timer = FALSE, !.open = FALSE] /\ DangerOnly
TypeDelete == danger.open /\ danger' = [danger EXCEPT !.word = ~@] /\ DangerOnly
handleDelete == danger.open /\ danger.word /\ ~danger.deleting /\ danger' = [danger EXCEPT !.deleting = TRUE] /\ DangerOnly
Deleted ==
    /\ danger.deleting
    /\ \E net \in BOOLEAN : danger' = [danger EXCEPT !.deleting = FALSE, !.open = @ /\ ~net]
    /\ DangerOnly
(* Done, or another panel; the manager may be opened again while the timer runs. *)
CloseManager == danger.open /\ danger' = [danger EXCEPT !.open = FALSE] /\ DangerOnly
OpenManager ==
    /\ ~danger.open /\ danger' = [danger EXCEPT !.open = TRUE, !.archived = FALSE, !.word = FALSE] /\ DangerOnly
DangerStep ==
    \/ handleArchive \/ Archived \/ ArchiveCloses \/ TypeDelete \/ handleDelete \/ Deleted \/ CloseManager \/ OpenManager

-----------------------------------------------------------------------------
(* Recording and retention.  A stored schedule is empty, a list of windows, or  *)
(* the single window of the older format.                                       *)
PolicyOnly == UNCHANGED <<details, cam, spk, sop, access, danger, schedule, rules, sitemap, audit>>
parseListOnly(raw) == IF raw.format = "list" THEN raw.windows ELSE {}   \* mutant: no legacy format
parseSchedule(raw) == IF raw.format = "empty" THEN {} ELSE raw.windows
OpenPolicy ==
    /\ policy' = [policy EXCEPT !.loading = TRUE, !.shown = {}, !.fresh = FALSE] /\ PolicyOnly
(* A failed load leaves the defaults in the form, ready to be saved. *)
PolicyArrives ==
    /\ policy.loading
    /\ \E ok \in BOOLEAN :
          policy' = [policy EXCEPT !.loading = FALSE, !.fresh = ok, !.shown = IF ok THEN parseSchedule(policy.stored) ELSE {}]
    /\ PolicyOnly
(* addWindow, updateWindow, toggleDay and removeWindow of ScheduleWindowsEditor. *)
updateWindow(w) ==
    /\ ~policy.loading
    /\ policy' = [policy EXCEPT !.fresh = FALSE, !.shown = IF w \in @ THEN @ \ {w} ELSE @ \cup {w}] /\ PolicyOnly
applyPreset(ws) == ~policy.loading /\ policy' = [policy EXCEPT !.fresh = FALSE, !.shown = ws] /\ PolicyOnly
(* Retention, mode, buffers and triggers. *)
EditPolicy == ~policy.loading /\ policy' = [policy EXCEPT !.fresh = FALSE] /\ PolicyOnly
save ==
    /\ ~policy.loading /\ ~policy.saving
    /\ policy' = [policy EXCEPT !.saving = TRUE,
                    !.body = [format |-> IF policy.shown = {} THEN "empty" ELSE "list", windows |-> policy.shown]]
    /\ PolicyOnly
PolicySaved ==
    /\ policy.saving
    /\ \E ok \in BOOLEAN :
          policy' = [policy EXCEPT !.saving = FALSE, !.stored = IF ok THEN policy.body ELSE @, !.fresh = @ /\ ~ok]
    /\ PolicyOnly
PolicyStep ==
    \/ OpenPolicy \/ PolicyArrives \/ EditPolicy \/ save \/ PolicySaved
    \/ (\E w \in Windows : updateWindow(w)) \/ (\E ws \in SUBSET Windows : applyPreset(ws))

(* The monitoring schedule: every arrival of the site replaces the windows,     *)
(* edited or not.                                                               *)
ScheduleOnly == UNCHANGED <<details, cam, spk, sop, access, danger, policy, rules, sitemap, audit>>
ScheduleArrives == schedule' = [schedule EXCEPT !.windows = schedule.stored] /\ ScheduleOnly
EditSchedule(ws) == schedule' = [schedule EXCEPT !.windows = ws, !.dirty = TRUE] /\ ScheduleOnly
handleSave ==
    /\ schedule.dirty /\ ~schedule.pending
    /\ schedule' = [schedule EXCEPT !.pending = TRUE, !.body = schedule.windows] /\ ScheduleOnly
ScheduleSaved ==
    /\ schedule.pending
    /\ \E ok \in BOOLEAN : schedule' = [schedule EXCEPT !.pending = FALSE, !.stored = IF ok THEN schedule.body ELSE @]
    /\ ScheduleOnly
ScheduleStep == ScheduleArrives \/ (\E ws \in SUBSET Windows : EditSchedule(ws)) \/ handleSave \/ ScheduleSaved

-----------------------------------------------------------------------------
(* Alert rules. *)
RulesOnly == UNCHANGED <<details, cam, spk, sop, access, danger, policy, schedule, sitemap, audit>>
RulesArrive == rules.loading /\ rules' = [rules EXCEPT !.loading = FALSE] /\ RulesOnly
ShowRuleForm == rules' = [rules EXCEPT !.form = TRUE] /\ RulesOnly
FillRule == rules.form /\ rules' = [rules EXCEPT !.complete = ~@] /\ RulesOnly   \* name, severities, channels
resetForm == rules.form /\ rules' = [rules EXCEPT !.form = FALSE, !.complete = FALSE] /\ RulesOnly
handleCreate ==
    /\ rules.form /\ rules.complete /\ ~rules.saving
    /\ rules' = [rules EXCEPT !.saving = TRUE] /\ RulesOnly
RuleCreated ==
    /\ rules.saving
    /\ \E ok \in BOOLEAN :
          rules' = IF ok THEN [rules EXCEPT !.saving = FALSE, !.form = FALSE, !.complete = FALSE, !.some = TRUE]
                   ELSE [rules EXCEPT !.saving = FALSE]
    /\ RulesOnly
DeleteRule == rules.some /\ rules' = [rules EXCEPT !.some = FALSE] /\ RulesOnly
RulesStep == RulesArrive \/ ShowRuleForm \/ FillRule \/ resetForm \/ handleCreate \/ RuleCreated \/ DeleteRule

-----------------------------------------------------------------------------
(* The site map.  Each save writes the whole list, and its reply replaces the   *)
(* list on the screen; two of them may come back in either order.               *)
MapModalOnly == UNCHANGED <<details, cam, spk, sop, access, danger, policy, schedule, rules, audit>>
unmappedCameras == Markers \ sitemap.shown
SaveMarkers(m, list) == [m EXCEPT !.saving = TRUE, !.puts = @ \cup {list}]
MapArrives == sitemap.loading /\ sitemap' = [sitemap EXCEPT !.loading = FALSE, !.shown = sitemap.stored] /\ MapModalOnly
startPlacing(c) ==
    /\ ~sitemap.loading /\ c \in unmappedCameras
    /\ sitemap' = [sitemap EXCEPT !.mode = "place", !.held = {c}] /\ MapModalOnly
MaySave == Cardinality(sitemap.puts) + Cardinality(sitemap.replies) < MaxSaves   \* the bound
handleMapClick ==
    /\ sitemap.mode = "place" /\ MaySave
    /\ sitemap' = [SaveMarkers(sitemap, sitemap.shown \cup sitemap.held) EXCEPT !.mode = "view", !.held = {}]
    /\ MapModalOnly
handleMarkerMouseDown(c) ==
    /\ ~sitemap.loading /\ c \in sitemap.shown
    /\ sitemap' = [sitemap EXCEPT !.mode = "drag", !.held = {c}] /\ MapModalOnly
handleMapMouseUp ==
    /\ sitemap.mode = "drag" /\ MaySave
    /\ sitemap' = [SaveMarkers(sitemap, sitemap.shown) EXCEPT !.mode = "view", !.held = {}] /\ MapModalOnly
updateMarker == MaySave /\ ~sitemap.loading /\ sitemap.shown # {} /\ sitemap' = SaveMarkers(sitemap, sitemap.shown) /\ MapModalOnly
removeMarker(c) ==
    /\ MaySave /\ ~sitemap.loading /\ c \in sitemap.shown
    /\ sitemap' = SaveMarkers(sitemap, sitemap.shown \ {c}) /\ MapModalOnly
(* The server takes the lists one after the other; the replies may overtake. *)
MarkersStored ==
    /\ \E list \in sitemap.puts :
          sitemap' = [sitemap EXCEPT !.puts = @ \ {list}, !.stored = list, !.replies = @ \cup {list}]
    /\ MapModalOnly
MarkersRefused ==
    /\ \E list \in sitemap.puts : sitemap' = [sitemap EXCEPT !.puts = @ \ {list}, !.saving = FALSE]
    /\ MapModalOnly
MarkersSaved ==
    /\ \E list \in sitemap.replies :
          sitemap' = [sitemap EXCEPT !.replies = @ \ {list}, !.saving = FALSE, !.shown = list]
    /\ MapModalOnly
handleFloorPlanUpload == ~sitemap.uploading /\ sitemap' = [sitemap EXCEPT !.uploading = TRUE] /\ MapModalOnly
(* The reply brings the markers the server has. *)
FloorPlanStored ==
    /\ sitemap.uploading
    /\ \E ok \in BOOLEAN :
          sitemap' = [sitemap EXCEPT !.uploading = FALSE, !.shown = IF ok THEN sitemap.stored ELSE @]
    /\ MapModalOnly
SiteMapStep ==
    \/ MapArrives \/ handleMapClick \/ handleMapMouseUp \/ updateMarker \/ MarkersStored \/ MarkersRefused \/ MarkersSaved
    \/ handleFloorPlanUpload \/ FloorPlanStored
    \/ \E c \in Markers : startPlacing(c) \/ handleMarkerMouseDown(c) \/ removeMarker(c)

-----------------------------------------------------------------------------
(* The audit trail: entries are the days they fall in; the export writes what   *)
(* the filters leave.                                                           *)
AuditOnly == UNCHANGED <<details, cam, spk, sop, access, danger, policy, schedule, rules, sitemap>>
filteredEntries(a) == {e \in a.entries : e <= a.range}
AuditArrives ==
    /\ audit.loading
    /\ \E ok \in BOOLEAN : audit' = [audit EXCEPT !.loading = FALSE, !.error = ~ok, !.entries = IF ok THEN 1..3 ELSE {}]
    /\ AuditOnly
SetRange(r) == audit' = [audit EXCEPT !.range = r] /\ AuditOnly
(* Mutant of exportCSV: the button does not wait. *)
ExportAtOnce == audit' = [audit EXCEPT !.files = @ \cup {[range |-> audit.range, entries |-> filteredEntries(audit)]}] /\ AuditOnly
exportCSV ==     \* exportJSON alike
    /\ ~audit.loading /\ ~audit.error
    /\ audit' = [audit EXCEPT !.files = @ \cup {[range |-> audit.range, entries |-> filteredEntries(audit)]}]
    /\ AuditOnly
AuditStep == AuditArrives \/ (\E r \in 1..3 : SetRange(r)) \/ exportCSV

-----------------------------------------------------------------------------
SiteInit ==
    /\ details = [loaded |-> FALSE, street |-> 0, city |-> FALSE, named |-> FALSE, pending |-> FALSE, body |-> 0, stored |-> 1]
    /\ cam = [site |-> "other", shown |-> "none", call |-> "none", error |-> FALSE, testing |-> FALSE, zones |-> FALSE]
    /\ spk = [site |-> "other", shown |-> "none", calls |-> <<>>]
    /\ sop = [loading |-> TRUE, stored |-> [exists |-> TRUE, contacts |-> TRUE], row |-> NoSop, adding |-> FALSE,
              editing |-> FALSE, expanded |-> FALSE, calls |-> {}, sent |-> FALSE]
    /\ access = [loading |-> TRUE, failed |-> FALSE, saving |-> 0, ticked |-> [u \in Staff |-> FALSE]]
    /\ danger = [open |-> TRUE, archiving |-> FALSE, archived |-> FALSE, timer |-> FALSE, word |-> FALSE, deleting |-> FALSE]
    /\ policy = [loading |-> FALSE, fresh |-> FALSE, shown |-> {}, saving |-> FALSE, body |-> [format |-> "empty", windows |-> {}],
                 stored |-> [format |-> "legacy", windows |-> {CHOOSE w \in Windows : TRUE}]]
    /\ schedule = [windows |-> {}, stored |-> {}, body |-> {}, dirty |-> FALSE, pending |-> FALSE]
    /\ rules = [loading |-> TRUE, form |-> FALSE, complete |-> FALSE, saving |-> FALSE, some |-> FALSE]
    /\ sitemap = [loading |-> TRUE, shown |-> {}, stored |-> {}, mode |-> "view", held |-> {}, puts |-> {}, replies |-> {}, saving |-> FALSE,
                  uploading |-> FALSE]
    /\ audit = [loading |-> TRUE, error |-> FALSE, entries |-> {}, range |-> 2, files |-> {}]

(* setTab: one panel at a time. *)
SiteParts == {"details", "camera", "speaker", "sops", "access", "danger", "policy", "schedule", "rules", "sitemap", "audit"}
SiteStep(p) ==
    \/ p = "details" /\ DetailsStep
    \/ p = "camera" /\ CameraStep
    \/ p = "speaker" /\ SpeakerStep
    \/ p = "sops" /\ SopStep
    \/ p = "access" /\ AccessStep
    \/ p = "danger" /\ DangerStep
    \/ p = "policy" /\ PolicyStep
    \/ p = "schedule" /\ ScheduleStep
    \/ p = "rules" /\ RulesStep
    \/ p = "sitemap" /\ SiteMapStep
    \/ p = "audit" /\ AuditStep

(* The one type invariant. *)
SiteTypeOK ==
    /\ details.stored \in 0..2 /\ cam.site \in {"none", "here", "other"} /\ spk.site \in {"none", "here", "other"}
    /\ access.saving \in {0} \cup Staff /\ policy.shown \subseteq Windows /\ schedule.windows \subseteq Windows
    /\ sitemap.shown \subseteq Markers /\ sitemap.puts \subseteq SUBSET Markers /\ sitemap.mode \in {"view", "place", "drag"}
    /\ audit.entries \subseteq 1..3

(* A camera that is moved is never left without a site: "assigning to the new   *)
(* site moves it atomically"; only an unassignment takes its site away.         *)
MovedCameraKeepsASite == [][cam.site # "none" /\ cam'.site = "none" => cam.call = "unassign"]_siteVars

(* The contacts of a procedure survive every edit of it, although no form shows *)
(* them and an update is a whole record.                                        *)
ContactsSurvive == [][sop.stored.contacts /\ sop'.stored.exists => sop'.stored.contacts]_siteVars

(* A policy that was read and not touched shows the windows the recorder uses,  *)
(* those of the older format included.                                          *)
ShownWindowsAreStored == policy.fresh => policy.shown = policy.stored.windows

(* An exported file holds every entry of its range: it is never written from a  *)
(* list that has not come or could not be read.                                 *)
ExportIsWhole == \A f \in audit.files : f.entries = 1..f.range
=============================================================================
