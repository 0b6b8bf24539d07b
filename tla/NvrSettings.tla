---------------------------- MODULE NvrSettings ----------------------------
(***************************************************************************)
(* The NVR settings, components/SettingsPage.tsx: the system settings and   *)
(* their draft, the storage locations with the folder picker, the speakers  *)
(* and their messages, the event log and the audit log.  Each tab has its   *)
(* own requests; figures, paths and file names are data.                    *)
(***************************************************************************)
EXTENDS Naturals, FiniteSets

CONSTANTS Folders,     \* folders the picker can go to
          Filters,     \* filters of the event log
          MaxQueries   \* bound: reads of one kind under way together

ASSUME FiltersAssumption == Filters # {} /\ MaxQueries \in Nat

VARIABLES draft,     \* settings, settingsDraft and its save
          store,     \* the storage tab
          picker,    \* the folder picker
          sound,     \* the speakers tab
          evlog,     \* EventLogTab
          trail      \* the audit log tab

settingsVars == <<draft, store, picker, sound, evlog, trail>>

-----------------------------------------------------------------------------
(* The draft is a copy of the stored settings; a version stands for their values. *)
DraftOnly == UNCHANGED <<store, picker, sound, evlog, trail>>
SettingsArrive == draft.value = 0 /\ draft' = [draft EXCEPT !.value = draft.stored] /\ DraftOnly   \* a failure: stays empty
patchDraft(v) == draft.value # 0 /\ draft' = [draft EXCEPT !.value = v] /\ DraftOnly
handleSaveSettings ==
    /\ draft.value # 0 /\ ~draft.saving
    /\ draft' = [draft EXCEPT !.saving = TRUE, !.body = draft.value] /\ DraftOnly
(* The reply replaces the draft, what was typed meanwhile included. *)
SettingsSaved ==
    /\ draft.saving
    /\ \E ok \in BOOLEAN :
          draft' = IF ok THEN [draft EXCEPT !.saving = FALSE, !.stored = draft.body, !.value = draft.body]
                   ELSE [draft EXCEPT !.saving = FALSE]
    /\ DraftOnly
DraftStep == SettingsArrive \/ (\E v \in 1..3 : patchDraft(v)) \/ handleSaveSettings \/ SettingsSaved

-----------------------------------------------------------------------------
(* Storage: the form of a new location and the form of an edited one may both be *)
(* open; the picker fills the edited one whenever there is one.                  *)
StoreOnly == UNCHANGED <<draft, picker, sound, evlog, trail>>
loadStorageLocations(s) == [s EXCEPT !.loading = TRUE, !.reads = IF @ < MaxQueries THEN @ + 1 ELSE @]
OpenStorage == store' = loadStorageLocations(store) /\ StoreOnly
(* The flag is cleared by whichever read comes back, failed or not. *)
LocationsArrive ==
    /\ store.reads > 0 /\ store' = [store EXCEPT !.reads = @ - 1, !.loading = FALSE] /\ StoreOnly
AddLocation == store' = [store EXCEPT !.adding = ~@, !.newPath = 0] /\ StoreOnly
EditLocation == ~store.editing /\ ~store.loading /\ store' = [store EXCEPT !.editing = TRUE, !.editPath = store.path] /\ StoreOnly
CancelLocation == store.editing /\ store' = [store EXCEPT !.editing = FALSE] /\ StoreOnly
handleAddLocation ==
    /\ store.adding /\ store.newPath # 0 /\ store' = [store EXCEPT !.calls = @ \cup {"add"}] /\ StoreOnly
handleUpdateLocation ==
    /\ store.editing /\ store' = [store EXCEPT !.calls = @ \cup {"update"}, !.body = store.editPath] /\ StoreOnly
handleDeleteLocation ==
    /\ ~store.editing /\ ~store.loading /\ store' = [store EXCEPT !.calls = @ \cup {"delete"}] /\ StoreOnly
(* A success closes its form and reads the list again; a failure says nothing. *)
LocationReply ==
    /\ \E c \in store.calls : \E ok \in BOOLEAN :
          store' = LET left == [store EXCEPT !.calls = @ \ {c}]
                   IN  IF ~ok THEN left
                       ELSE loadStorageLocations(
                              CASE c = "add" -> [left EXCEPT !.adding = FALSE, !.newPath = 0]
                                [] c = "update" -> [left EXCEPT !.editing = FALSE, !.path = left.body]
                                [] c = "delete" -> left)
    /\ StoreOnly
StorageCards == IF store.loading THEN {} ELSE {store.path}
StoreStep ==
    \/ OpenStorage \/ LocationsArrive \/ AddLocation \/ EditLocation \/ CancelLocation
    \/ handleAddLocation \/ handleUpdateLocation \/ handleDeleteLocation \/ LocationReply

(* The picker: the folders listed are those of the reply that came last. *)
PickerOnly == UNCHANGED <<draft, sound, evlog, trail>>
openFolderPicker ==
    /\ ~picker.open /\ (store.adding \/ store.editing)
    /\ picker' = [picker EXCEPT !.open = TRUE] /\ UNCHANGED store /\ PickerOnly
navigatePicker(f) ==
    /\ picker.open /\ picker' = [picker EXCEPT !.path = f, !.asked = @ \cup {f}] /\ UNCHANGED store /\ PickerOnly
FoldersArrive ==
    /\ \E f \in picker.asked : picker' = [picker EXCEPT !.asked = @ \ {f}, !.listed = f]
    /\ UNCHANGED store /\ PickerOnly
ClosePicker == picker.open /\ picker' = [picker EXCEPT !.open = FALSE] /\ UNCHANGED store /\ PickerOnly
(* Mutant of selectPickerPath: the folder whose list is shown. *)
SelectListed ==
    /\ picker.open /\ picker.path # 0
    /\ store' = IF store.editing THEN [store EXCEPT !.editPath = picker.listed] ELSE [store EXCEPT !.newPath = picker.listed]
    /\ picker' = [picker EXCEPT !.open = FALSE] /\ PickerOnly
selectPickerPath ==
    /\ picker.open /\ picker.path # 0
    /\ store' = IF store.editing THEN [store EXCEPT !.editPath = picker.path] ELSE [store EXCEPT !.newPath = picker.path]
    /\ picker' = [picker EXCEPT !.open = FALSE] /\ PickerOnly
(* The forms are behind the picker while it is open. *)
FormsBehind == ~picker.open /\ (AddLocation \/ EditLocation \/ CancelLocation)
PickerStep ==
    \/ openFolderPicker \/ (\E f \in Folders : navigatePicker(f)) \/ FoldersArrive \/ ClosePicker \/ selectPickerPath
    \/ FormsBehind

-----------------------------------------------------------------------------
(* Speakers: the lists are read while drawing, whenever both are empty, so with  *)
(* nothing registered every answer asks again.                                   *)
SoundOnly == UNCHANGED <<draft, store, picker, evlog, trail>>
Drawn(s) == IF s.open /\ ~s.speakers /\ ~s.messages /\ ~s.adding THEN [s EXCEPT !.reads = TRUE] ELSE s
OpenSpeakers == ~sound.open /\ sound' = Drawn([sound EXCEPT !.open = TRUE]) /\ SoundOnly
LeaveSpeakers == sound.open /\ sound' = [sound EXCEPT !.open = FALSE] /\ SoundOnly
ListsArrive ==
    /\ sound.reads
    /\ sound' = Drawn([sound EXCEPT !.reads = FALSE, !.speakers = sound.server.speakers, !.messages = sound.server.messages])
    /\ SoundOnly
handleAddSpeaker == sound.open /\ ~sound.adding /\ sound' = [sound EXCEPT !.adding = TRUE] /\ SoundOnly
SpeakerAdded ==
    /\ sound.adding
    /\ \E ok \in BOOLEAN :
          sound' = Drawn([sound EXCEPT !.adding = FALSE, !.server.speakers = @ \/ ok, !.reads = @ \/ ok])
    /\ SoundOnly
handleUploadMsg == sound.open /\ ~sound.uploading /\ sound' = [sound EXCEPT !.uploading = TRUE] /\ SoundOnly
MessageUploaded ==
    /\ sound.uploading
    /\ \E ok \in BOOLEAN :
          sound' = Drawn([sound EXCEPT !.uploading = FALSE, !.server.messages = @ \/ ok, !.reads = @ \/ ok])
    /\ SoundOnly
RemoveSpeaker == sound.open /\ sound.speakers /\ sound' = [sound EXCEPT !.server.speakers = FALSE, !.reads = TRUE] /\ SoundOnly
RemoveMessage == sound.open /\ sound.messages /\ sound' = [sound EXCEPT !.server.messages = FALSE, !.reads = TRUE] /\ SoundOnly
SoundStep ==
    \/ OpenSpeakers \/ LeaveSpeakers \/ ListsArrive \/ handleAddSpeaker \/ SpeakerAdded \/ handleUploadMsg
    \/ MessageUploaded \/ RemoveSpeaker \/ RemoveMessage

-----------------------------------------------------------------------------
(* The event log asks when a filter changes, every ten seconds, and on demand.   *)
(* Answers are taken in any order; a failed one leaves the loading flag set.     *)
EvlogOnly == UNCHANGED <<draft, store, picker, sound, trail>>
loadEvents(l) == [l EXCEPT !.loading = TRUE, !.asked = IF Cardinality(@) < MaxQueries THEN @ \cup {l.filter} ELSE @]
SetEventFilter(f) == f # evlog.filter /\ evlog' = loadEvents([evlog EXCEPT !.filter = f]) /\ EvlogOnly
(* Mutant of AutoRefresh: the interval keeps the first filter. *)
AutoRefreshFirst == evlog.auto /\ evlog' = [evlog EXCEPT !.asked = @ \cup {CHOOSE f \in Filters : TRUE}] /\ EvlogOnly
AutoRefresh == evlog.auto /\ evlog' = loadEvents(evlog) /\ EvlogOnly
ToggleAuto == evlog' = [evlog EXCEPT !.auto = ~@] /\ EvlogOnly
PressRefresh == ~evlog.loading /\ evlog' = loadEvents(evlog) /\ EvlogOnly
EventsArrive ==
    /\ \E f \in evlog.asked : evlog' = [evlog EXCEPT !.asked = @ \ {f}, !.shown = f, !.loading = FALSE]
    /\ EvlogOnly
EventsFail == \E f \in evlog.asked : evlog' = [evlog EXCEPT !.asked = @ \ {f}] /\ EvlogOnly
EvlogStep ==
    (\E f \in Filters : SetEventFilter(f)) \/ AutoRefresh \/ ToggleAuto \/ PressRefresh \/ EventsArrive \/ EventsFail

(* The audit log asks only when Search is pressed, for the page that is set then. *)
TrailOnly == UNCHANGED <<draft, store, picker, sound, evlog>>
SearchAudit == trail' = [trail EXCEPT !.asked = @ \cup {trail.page}] /\ TrailOnly
AuditPageArrives == \E n \in trail.asked : trail' = [trail EXCEPT !.asked = @ \ {n}, !.shown = n, !.total = 3] /\ TrailOnly
AuditNext == trail.total > 1 /\ trail.page + 1 < trail.total /\ trail' = [trail EXCEPT !.page = @ + 1] /\ TrailOnly
AuditPrevious == trail.total > 1 /\ trail.page > 0 /\ trail' = [trail EXCEPT !.page = @ - 1] /\ TrailOnly
TrailStep == SearchAudit \/ AuditPageArrives \/ AuditNext \/ AuditPrevious

-----------------------------------------------------------------------------
SettingsInit ==
    /\ draft = [value |-> 0, stored |-> 1, body |-> 1, saving |-> FALSE]
    /\ store = [loading |-> FALSE, reads |-> 0, adding |-> FALSE, editing |-> FALSE, newPath |-> 0, editPath |-> 0,
                path |-> 9, body |-> 9, calls |-> {}]
    /\ picker = [open |-> FALSE, path |-> 0, asked |-> {}, listed |-> 0]
    /\ sound = [open |-> FALSE, speakers |-> FALSE, messages |-> FALSE, adding |-> FALSE, uploading |-> FALSE, reads |-> FALSE,
                server |-> [speakers |-> FALSE, messages |-> FALSE]]
    /\ evlog = loadEvents([filter |-> CHOOSE f \in Filters : TRUE, shown |-> "none", asked |-> {}, loading |-> TRUE, auto |-> TRUE])
    /\ trail = [page |-> 0, asked |-> {}, shown |-> 0, total |-> 0]

SettingsParts == {"settings", "storage", "picker", "speakers", "eventlog", "auditlog"}
SettingsStep(p) ==
    \/ p = "settings" /\ DraftStep
    \/ p = "storage" /\ StoreStep
    \/ p = "picker" /\ PickerStep
    \/ p = "speakers" /\ SoundStep
    \/ p = "eventlog" /\ EvlogStep
    \/ p = "auditlog" /\ TrailStep

(* The one type invariant. *)
SettingsTypeOK ==
    /\ draft.value \in 0..3 /\ draft.stored \in 1..3 /\ store.reads \in 0..MaxQueries
    /\ picker.asked \subseteq Folders /\ picker.path \in {0} \cup Folders
    /\ evlog.filter \in Filters /\ evlog.asked \subseteq Filters /\ Cardinality(evlog.asked) <= MaxQueries
    /\ trail.page \in 0..2 /\ trail.shown \in 0..2

(* The folder that was chosen is the folder that is filled in, whatever list of  *)
(* folders came back last while the user went on.                                *)
ChosenFolderIsFilledIn ==
    [][picker.open /\ <<store.newPath, store.editPath>> # <<store'.newPath, store'.editPath>>
       => picker.path \in {store'.newPath, store'.editPath}]_settingsVars
=============================================================================
