-------------------------- MODULE BackofficeProofs --------------------------
(***************************************************************************)
(* The pages outside the console and the monitor, for every number of       *)
(* accounts, sites, windows, markers, folders, filters, cameras, findings,  *)
(* tickets and jobs: BackofficeInvariant is an invariant of them, and only  *)
(* the writes that are meant are made.  Each variable has an inductive      *)
(* invariant of its own: the type of its record, and what relates its       *)
(* fields.  A step of a part moves the variables of that part only.         *)
(***************************************************************************)
EXTENDS Backoffice, FiniteSetTheorems, WellFoundedInduction, TLAPS

-----------------------------------------------------------------------------
(* The invariants of the administration page *)

CamsInv == cams \in [tab : Tabs, loaded : BOOLEAN, reads : 0..MaxLoads]

FirmInv ==
    firm \in [shown : BOOLEAN, creating : BOOLEAN, lost : BOOLEAN, editing : BOOLEAN, puts : 0..2, deletes : 0..1]

(* The page of the table may lie behind its last one, never behind MaxSites. *)
TableType == [sites : 0..MaxSites, matching : 0..MaxSites, page : 0..MaxSites, cards : BOOLEAN]
TableInv ==
    /\ table \in TableType
    /\ table.matching <= table.sites

AccountTypes == {"internal", "customer"}
Roles == StaffRoles \cup CustomerRoles
SeenType == [type : AccountTypes, role : Roles, admin : BOOLEAN, org : BOOLEAN]
PostType == [from : AccountTypes, account : [role : Roles, org : BOOLEAN]]
FormType ==
    [shown : BOOLEAN, type : AccountTypes, role : Roles, admin : BOOLEAN, org : BOOLEAN, filled : BOOLEAN,
     busy : BOOLEAN, post : SUBSET PostType, listing : BOOLEAN, made : SUBSET PostType, seen : SeenType]

(* No request or account that came from the customer form has a staff role. *)
CustomersOnly(posts) == \A p \in posts : p.from = "customer" => p.account.role \in CustomerRoles

(* The closure may be older than the form, but not across the two types: the   *)
(* role on the screen is one of its type, and with the customer form on the    *)
(* screen the handler holds a customer role as well.                           *)
FormInv ==
    /\ form \in FormType
    /\ form.type = "internal" => form.role \in StaffRoles
    /\ form.type = "customer" =>
         form.role \in CustomerRoles /\ form.seen.type = "customer" /\ form.seen.role \in CustomerRoles
    /\ CustomersOnly(form.post) /\ CustomersOnly(form.made)

CallType == [user : Accounts, to : {"deleted"} \cup StaffRoles]
RowsInv ==
    rows \in [list : SUBSET Accounts, gone : SUBSET Accounts, roles : [Accounts -> StaffRoles], reads : 0..MaxLoads,
              calls : SUBSET CallType, loading : BOOLEAN, loaded : BOOLEAN]

(* The one flag of the profile form says whether a request is under way. *)
ProfileInv ==
    /\ profile \in [user : {"none"} \cup Accounts, saving : BOOLEAN, puts : SUBSET ({"none"} \cup Accounts),
                    pwd : {"none"} \cup Accounts, pwds : SUBSET ({"none"} \cup Accounts)]
    /\ ~profile.saving => profile.puts = {}
    /\ profile.puts # {} => \E u \in profile.puts : profile.puts = {u}

AdminInv == CamsInv /\ FirmInv /\ TableInv /\ FormInv /\ RowsInv /\ ProfileInv

-----------------------------------------------------------------------------
(* The invariants of the site manager *)

Places == {"none", "here", "other"}

DetailsInv ==
    details \in [loaded : BOOLEAN, street : 0..2, city : BOOLEAN, named : BOOLEAN, pending : BOOLEAN, body : 0..2,
                 stored : 0..2]

CamInv ==
    cam \in [site : Places, shown : Places, call : {"none", "assign", "unassign", "move"}, error : BOOLEAN,
             testing : BOOLEAN, zones : BOOLEAN]

SpkInv == spk \in [site : Places, shown : Places, calls : Seq({"assign", "unassign"})]

SopRecord == [exists : BOOLEAN, contacts : BOOLEAN]
SopType ==
    [loading : BOOLEAN, stored : SopRecord, row : SopRecord, adding : BOOLEAN, editing : BOOLEAN, expanded : BOOLEAN,
     calls : SUBSET {"add", "save", "delete"}, sent : BOOLEAN]

(* While the stored procedure has contacts nobody is about to add another one, *)
(* and a row on the screen and an update under way have them too.              *)
SopInv ==
    /\ sop \in SopType
    /\ sop.stored.contacts =>
         /\ sop.stored.exists /\ "add" \notin sop.calls
         /\ sop.row.exists => sop.row.contacts
         /\ "save" \in sop.calls => sop.sent

AccessInv ==
    access \in [loading : BOOLEAN, failed : BOOLEAN, saving : {0} \cup Staff, ticked : [Staff -> BOOLEAN]]

ScheduleType == [format : {"empty", "list", "legacy"}, windows : SUBSET Windows]

(* A schedule that is written as empty has no windows. *)
EmptyIsEmpty(raw) == raw.format = "empty" => raw.windows = {}
PolicyInv ==
    /\ policy \in [loading : BOOLEAN, fresh : BOOLEAN, shown : SUBSET Windows, saving : BOOLEAN,
                   body : ScheduleType, stored : ScheduleType]
    /\ EmptyIsEmpty(policy.body) /\ EmptyIsEmpty(policy.stored)
    /\ ShownWindowsAreStored

ScheduleInv ==
    schedule \in [windows : SUBSET Windows, stored : SUBSET Windows, body : SUBSET Windows, dirty : BOOLEAN,
                  pending : BOOLEAN]

SitemapInv ==
    sitemap \in [loading : BOOLEAN, shown : SUBSET Markers, stored : SUBSET Markers, mode : {"view", "place", "drag"},
                 held : SUBSET Markers, puts : SUBSET SUBSET Markers, replies : SUBSET SUBSET Markers,
                 saving : BOOLEAN, uploading : BOOLEAN]

(* A list that came without an error is complete. *)
AuditInv ==
    /\ audit \in [loading : BOOLEAN, error : BOOLEAN, entries : SUBSET (1..3), range : 1..3,
                  files : SUBSET [range : 1..3, entries : SUBSET (1..3)]]
    /\ ~audit.loading /\ ~audit.error => audit.entries = 1..3
    /\ ExportIsWhole

SiteInv ==
    /\ DetailsInv /\ CamInv /\ SpkInv /\ SopInv /\ AccessInv /\ PolicyInv /\ ScheduleInv /\ SitemapInv /\ AuditInv

-----------------------------------------------------------------------------
(* The invariants of the settings page *)

DraftInv == draft \in [value : 0..3, stored : 1..3, body : 1..3, saving : BOOLEAN]

Paths == {0, 9} \cup Folders
StoreType ==
    [loading : BOOLEAN, reads : 0..MaxQueries, adding : BOOLEAN, editing : BOOLEAN, newPath : Paths,
     editPath : Paths, path : Paths, body : Paths, calls : SUBSET {"add", "update", "delete"}]
StoreInv == store \in StoreType

PickerInv ==
    picker \in [open : BOOLEAN, path : {0} \cup Folders, asked : SUBSET Folders, listed : {0} \cup Folders]

EvlogType ==
    [filter : Filters, shown : {"none"} \cup Filters, asked : SUBSET Filters, loading : BOOLEAN, auto : BOOLEAN]
WithinQueries(queries) == IsFiniteSet(queries) /\ Cardinality(queries) <= MaxQueries
EvlogInv == evlog \in EvlogType /\ WithinQueries(evlog.asked)

TrailInv == trail \in [page : 0..2, asked : SUBSET (0..2), shown : 0..2, total : {0, 3}]

(* The storage tab is exercised with the picker closed, or together with it. *)
SettingsInv ==
    /\ DraftInv /\ StoreInv /\ PickerInv /\ EvlogInv /\ TrailInv
    /\ part # "picker" => ~picker.open

-----------------------------------------------------------------------------
(* The invariants of the camera manager *)

(* Who is being deleted, one by one or in bulk, was agreed to. *)
RosterInv ==
    /\ roster \in [server : SUBSET Cams, shown : SUBSET Cams, selected : SUBSET Cams, asking : BOOLEAN, bulk : BOOLEAN,
                   ids : SUBSET Cams, agreed : SUBSET Cams, confirmId : SUBSET Cams, single : SUBSET Cams]
    /\ roster.ids \subseteq roster.agreed /\ roster.single \subseteq roster.agreed
    /\ OnlyConfirmedAreDeleted
    /\ roster.confirmId # {} => \E c \in roster.confirmId : roster.confirmId = {c}

(* An open dialog has not been closed in any way, it saves only while it is     *)
(* open, and for an address editingCamera is what was sent last.                *)
DialogInv ==
    /\ dialog \in [open : BOOLEAN, kind : Kinds, editing : Values, field : Values, stored : Values,
                   puts : SUBSET Values, saving : BOOLEAN, body : Values, last : Values,
                   how : {"none", "close", "save", "saved"}, rebooting : BOOLEAN]
    /\ dialog.saving => dialog.open
    /\ dialog.open => dialog.how = "none"
    /\ dialog.open /\ dialog.kind = "address" => dialog.last = dialog.editing
    /\ SaveSendsWhatStands

NewcamInv ==
    newcam \in [open : BOOLEAN, class : Classes, address : BOOLEAN, adding : BOOLEAN, error : BOOLEAN,
                sent : Classes, webhook : BOOLEAN]

ScanInv ==
    /\ scan \in [open : BOOLEAN, discovering : BOOLEAN, running : 0..2, devices : SUBSET Cams, selected : SUBSET Cams,
                 loading : SUBSET Cams, addingBulk : BOOLEAN, creating : SUBSET Cams, seen : SUBSET Cams]
    /\ OnlyListedAreAdded

PanelInv ==
    /\ panel \in [many : BOOLEAN, loading : BOOLEAN, error : BOOLEAN, data : 0..2, saving : BOOLEAN, body : 0..2,
                  message : {"none", "saved", "error"}, timer : BOOLEAN]
    /\ NothingWrittenUnread

(* A tripwire that is being drawn has one end at most: the second one ends it. *)
ZoneType ==
    [mode : {"idle", "drawing"}, type : ZoneTypes, points : 0..MaxPoints, selected : BOOLEAN,
     dragging : BOOLEAN, finishing : 0..MaxZones, made : SUBSET [type : ZoneTypes, points : Nat]]
ZoneInv ==
    /\ zone \in ZoneType
    /\ zone.mode = "drawing" /\ zone.type = "linecross" => zone.points <= 1
    /\ ZonesAreShapes

StillInv == still \in {"onvif", "hls", "frame", "loaded", "error"}

CameraInv == RosterInv /\ DialogInv /\ NewcamInv /\ ScanInv /\ PanelInv /\ ZoneInv /\ StillInv

-----------------------------------------------------------------------------
(* The invariants of the portal *)

QueueType ==
    [stored : SUBSET Findings, reviewed : SUBSET Findings, messages : SUBSET Findings, rows : [Findings -> 0..1],
     loading : BOOLEAN, answered : BOOLEAN, answer : SUBSET Findings, error : BOOLEAN, sent : SUBSET Findings,
     corrected : SUBSET Findings, target : SUBSET Findings, value : BOOLEAN, hidden : SUBSET Findings]
QueueInv ==
    /\ queue \in QueueType
    /\ queue.target # {} => \E f \in queue.target : queue.target = {f}
    /\ HiddenFindingsAreReviewed

(* A thread is loaded only for a view of a ticket, and a request that is under  *)
(* way names a ticket.                                                          *)
Views == {"list", "compose"} \cup Tickets
SupportCall ==
    [op : {"none", "new", "reply", "status"}, ticket : {"none"} \cup Tickets, stage : {"none", "write", "read"}]
SupportType ==
    [open : BOOLEAN, view : Views, stored : SUBSET Tickets, tickets : SUBSET Tickets, thread : {"none"} \cup Tickets,
     draft : BOOLEAN, busy : BOOLEAN, call : SupportCall, loading : BOOLEAN]
SupportInv ==
    /\ support \in SupportType
    /\ support.loading => support.view \in Tickets
    /\ support.busy => support.call.op # "none" /\ support.call.ticket \in Tickets

ShareInv ==
    /\ share \in [modal : BOOLEAN, menu : BOOLEAN, exporting : BOOLEAN, error : BOOLEAN, choice : Expiries,
                  asked : Expiries, generating : BOOLEAN, link : {0} \cup Expiries, expires : {0} \cup Expiries]
    /\ ShownExpiryIsTheLinks

(* A label on its way to the server is skipped or has a verdict. *)
LabelBody == [job : {0} \cup Jobs, skip : BOOLEAN, verdict : BOOLEAN]
Judged(labels) == \A l \in labels : l.skip \/ l.verdict
LabelType ==
    [job : {0} \cup Jobs, open : SUBSET Jobs, empty : BOOLEAN, verdict : BOOLEAN,
     claims : SUBSET {"start", "submit"}, saving : BOOLEAN, sending : SUBSET LabelBody, last : SUBSET LabelBody]
LabelInv ==
    /\ label \in LabelType
    /\ Judged(label.sending) /\ Judged(label.last)

PortalInv == QueueInv /\ SupportInv /\ ShareInv /\ LabelInv

-----------------------------------------------------------------------------
SessionInv == SessionTypeOK /\ WritesAppliedOnce /\ SignedOutIsRevoked

(* The inductive invariant of the pages. *)
BackofficeInv == StreamTypeOK /\ SessionInv /\ AdminInv /\ SiteInv /\ SettingsInv /\ CameraInv /\ PortalInv

-----------------------------------------------------------------------------
(* The administration page keeps its invariants *)

LEMMA CamsKept == ASSUME CamsInv, TabStep PROVE CamsInv'
<1> USE AdminAssumption DEF CamsInv
<1>1. ASSUME NEW t \in Tabs, handleTabChange(t) PROVE CamsInv'
  <2> DEFINE n == IF t \in {"settings", "health"} /\ ~cams.loaded /\ cams.reads < MaxLoads
                  THEN cams.reads + 1 ELSE cams.reads
  <2>1. n \in 0..MaxLoads
    OBVIOUS
  <2>2. cams' = [cams EXCEPT !.tab = t, !.reads = n]
    BY <1>1 DEF handleTabChange
  <2> HIDE DEF n
  <2> QED BY <2>1, <2>2
<1>2. CASE refreshCameras
  <2> DEFINE n == cams.reads - 1
  <2>1. n \in 0..MaxLoads
    BY <1>2 DEF refreshCameras
  <2>2. cams' = [cams EXCEPT !.loaded = TRUE, !.reads = n]
    BY <1>2 DEF refreshCameras
  <2> HIDE DEF n
  <2> QED BY <2>1, <2>2
<1> QED BY <1>1, <1>2 DEF TabStep

LEMMA FirmKept == ASSUME FirmInv, FirmStep PROVE FirmInv'
<1> USE DEF FirmInv
<1>1. CASE ShowCreateCompany \/ handleCreateCompany \/ CompanyCreated \/ CardEdits
  BY <1>1 DEF ShowCreateCompany, handleCreateCompany, CompanyCreated, CardEdits
<1>2. CASE handleSaveCompany
  BY <1>2 DEF handleSaveCompany
<1>3. CASE handleDeleteCompany
  BY <1>3 DEF handleDeleteCompany
<1>4. CASE useApiAction
  <2>1. ASSUME NEW ok \in BOOLEAN, firm.puts > 0, firm' = [firm EXCEPT !.puts = @ - 1, !.editing = @ /\ ~ok]
        PROVE  FirmInv'
    <3> DEFINE n == firm.puts - 1
               e == firm.editing /\ ~ok
    <3>1. n \in 0..2 /\ e \in BOOLEAN
      BY <2>1
    <3>2. firm' = [firm EXCEPT !.puts = n, !.editing = e]
      BY <2>1
    <3> HIDE DEF n, e
    <3> QED BY <3>1, <3>2
  <2>2. ASSUME NEW ok \in BOOLEAN, firm' = [firm EXCEPT !.deletes = 0, !.editing = @ /\ ~ok]
        PROVE  FirmInv'
    <3> DEFINE e == firm.editing /\ ~ok
    <3>1. e \in BOOLEAN /\ 0 \in 0..1
      BY <2>2
    <3>2. firm' = [firm EXCEPT !.deletes = 0, !.editing = e]
      BY <2>2
    <3> HIDE DEF e
    <3> QED BY <3>1, <3>2
  <2> QED BY <1>4, <2>1, <2>2 DEF useApiAction
<1> QED BY <1>1, <1>2, <1>3, <1>4 DEF FirmStep

(* Half of the matching sites, rounded up, is not more than all of them. *)
LEMMA PagesBound == ASSUME NEW m \in Nat, NEW p \in Nat, p + 1 < (m + 1) \div 2 PROVE p + 1 <= m
OBVIOUS

LEMMA TableKept == ASSUME TableInv, TableStep PROVE TableInv'
<1> USE AdminAssumption DEF TableInv, TableType
<1>1. ASSUME NEW n \in 0..MaxSites, filteredSites(n) PROVE TableInv'
  <2>1. table' = [table EXCEPT !.matching = n, !.page = 0] /\ n <= table.sites /\ 0 \in 0..MaxSites
    BY <1>1 DEF filteredSites
  <2> QED BY <2>1
<1>2. CASE PageNext
  <2>1. table.page + 1 <= table.matching
    BY <1>2, PagesBound DEF PageNext, Pages
  <2> QED BY <1>2, <2>1 DEF PageNext
<1>3. CASE PagePrevious
  BY <1>3 DEF PagePrevious
<1>4. CASE ViewMode
  BY <1>4 DEF ViewMode
<1>5. ASSUME NEW n \in 0..MaxSites, table' = [table EXCEPT !.sites = n, !.matching = n] PROVE TableInv'
  <2>1. table' \in TableType
    BY <1>5
  <2>2. table'.matching <= table'.sites
    <3>1. table'.matching = n /\ table'.sites = n
      BY <1>5
    <3> QED BY <3>1
  <2> QED BY <2>1, <2>2
<1>6. CASE LeaveSites
  <2>1. table' = [table EXCEPT !.matching = table.sites, !.page = 0, !.cards = FALSE] /\ 0 \in 0..MaxSites
    BY <1>6 DEF LeaveSites
  <2>2. table' \in TableType
    BY <2>1
  <2>3. table'.matching <= table'.sites
    <3>1. table'.matching = table.sites /\ table'.sites = table.sites
      BY <2>1
    <3> QED BY <3>1
  <2> QED BY <2>2, <2>3
<1> QED BY <1>1, <1>2, <1>3, <1>4, <1>5, <1>6 DEF TableStep, onRefresh

LEMMA RowsKept == ASSUME RowsInv, RowsStep PROVE RowsInv'
<1> USE AdminAssumption DEF RowsInv, CallType
<1>1. CASE OpenUsers
  <2> DEFINE n == rows.reads + 1
  <2>1. n \in 0..MaxLoads
    BY <1>1 DEF OpenUsers
  <2>2. rows' = [rows EXCEPT !.reads = n, !.loading = TRUE]
    BY <1>1 DEF OpenUsers
  <2> HIDE DEF n
  <2> QED BY <2>1, <2>2
<1>2. CASE loadPlatformUsers
  <2> DEFINE n == rows.reads - 1
  <2>1. n \in 0..MaxLoads
    BY <1>2 DEF loadPlatformUsers
  <2>2. PICK list \in SUBSET Accounts :
          rows' = [rows EXCEPT !.reads = n, !.list = list, !.loading = FALSE, !.loaded = TRUE]
    BY <1>2, ZenonT(40) DEF loadPlatformUsers
  <2> HIDE DEF n
  <2> QED BY <2>1, <2>2
<1>3. ASSUME NEW u \in Accounts, handleDeleteUser(u) PROVE RowsInv'
  BY <1>3 DEF handleDeleteUser
<1>4. ASSUME NEW u \in Accounts, NEW r \in StaffRoles, handleRoleChange(u, r) PROVE RowsInv'
  BY <1>4 DEF handleRoleChange
<1>5. ASSUME NEW c \in rows.calls, RowReply(c) PROVE RowsInv'
  <2> DEFINE done == [rows EXCEPT !.calls = @ \ {c}]
  <2>1. PICK ok \in BOOLEAN :
          rows' = IF ~ok THEN done
                  ELSE IF c.to = "deleted" THEN [done EXCEPT !.gone = @ \cup {c.user}, !.list = @ \ {c.user}]
                  ELSE [done EXCEPT !.roles[c.user] = c.to]
    BY <1>5 DEF RowReply
  <2>2. c.user \in Accounts /\ (c.to # "deleted" => c.to \in StaffRoles)
    BY <1>5
  <2>3. CASE ~ok
    BY <2>1, <2>3
  <2>4. CASE ok /\ c.to = "deleted"
    BY <2>1, <2>2, <2>4
  <2>5. CASE ok /\ c.to # "deleted"
    <3> DEFINE f == [rows.roles EXCEPT ![c.user] = c.to]
    <3>1. f \in [Accounts -> StaffRoles]
      BY <2>2, <2>5
    <3>2. rows' = [rows EXCEPT !.calls = @ \ {c}, !.roles = f]
      BY <2>1, <2>5
    <3> HIDE DEF f
    <3> QED BY <3>1, <3>2
  <2> QED BY <2>3, <2>4, <2>5
<1> QED BY <1>1, <1>2, <1>3, <1>4, <1>5 DEF RowsStep

LEMMA ProfileKept == ASSUME ProfileInv, ProfileStep PROVE ProfileInv'
<1> USE DEF ProfileInv
<1>1. CASE handleSaveProfile
  BY <1>1 DEF handleSaveProfile
<1>2. CASE ProfileSaved
  BY <1>2, ZenonT(40) DEF ProfileSaved
<1>3. CASE handleChangePassword \/ PasswordChanged
  <2>1. CASE handleChangePassword
    BY <2>1 DEF handleChangePassword
  <2>2. CASE PasswordChanged
    BY <2>2 DEF PasswordChanged
  <2> QED BY <1>3, <2>1, <2>2
<1>4. ASSUME NEW u \in Accounts, openEditProfile(u) \/ OpenPassword(u) PROVE ProfileInv'
  BY <1>4 DEF openEditProfile, OpenPassword
<1> QED BY <1>1, <1>2, <1>3, <1>4 DEF ProfileStep

LEMMA FormKept == ASSUME FormInv, FormStep PROVE FormInv'
<1> USE DEF FormInv, FormType, SeenType, AccountTypes, Roles, StaffRoles, CustomerRoles, CustomersOnly
<1>1. CASE ShowCreateUser \/ TickAdmin \/ PickCompany
  <2>1. CASE ShowCreateUser
    BY <2>1 DEF ShowCreateUser
  <2>2. CASE TickAdmin
    BY <2>2 DEF TickAdmin
  <2>3. CASE PickCompany
    BY <2>3 DEF PickCompany
  <2> QED BY <1>1, <2>1, <2>2, <2>3
<1>2. CASE TypeText
  BY <1>2 DEF TypeText, Fresh
<1>3. CASE handleCreateUser
  <2> DEFINE p == [from |-> form.type, account |-> Asked(form.seen)]
  <2>1. Asked(form.seen) \in [role : Roles, org : BOOLEAN]
    BY DEF Asked
  <2>2. p \in PostType
    BY <2>1 DEF PostType
  <2>3. p.from = "customer" => p.account.role \in CustomerRoles
    BY DEF Asked
  <2>4. form' = [form EXCEPT !.busy = TRUE, !.post = {p}]
    BY <1>3 DEF handleCreateUser
  <2> HIDE DEF p
  <2> QED BY <2>2, <2>3, <2>4
<1>4. CASE UserCreated
  <2> DEFINE seen == [type |-> "internal", role |-> "soc_operator", admin |-> FALSE, org |-> FALSE]
  <2>1. form' = [shown |-> FALSE, type |-> "internal", role |-> "soc_operator", admin |-> FALSE, org |-> FALSE,
                 filled |-> FALSE, busy |-> TRUE, post |-> {}, listing |-> TRUE, made |-> form.post, seen |-> seen]
    BY <1>4 DEF UserCreated, EmptyForm, Fresh
  <2>2. seen \in SeenType
    OBVIOUS
  <2> HIDE DEF seen
  <2> QED BY <2>1, <2>2
<1>5. CASE CreateUserFails \/ ListReturns
  <2>1. CASE CreateUserFails
    BY <2>1 DEF CreateUserFails
  <2>2. CASE ListReturns
    BY <2>2 DEF ListReturns
  <2> QED BY <1>5, <2>1, <2>2
<1>6. ASSUME NEW t \in {"internal", "customer"}, PickType(t) PROVE FormInv'
  <2>1. CASE t = "internal"
    <3> DEFINE next == [form EXCEPT !.type = "internal", !.role = "admin", !.org = FALSE]
    <3>1. form' = next \/ form' = Fresh(next)
      BY <1>6, <2>1 DEF PickType
    <3>2. CASE form' = next
      BY <3>2
    <3>3. CASE form' = Fresh(next)
      BY <3>3, ZenonT(40) DEF Fresh
    <3> QED BY <3>1, <3>2, <3>3
  <2>2. CASE t = "customer"
    <3> DEFINE next == [form EXCEPT !.type = "customer", !.role = "viewer", !.org = FALSE]
    <3>1. form' = IF form.role = "viewer" THEN next ELSE Fresh(next)
      BY <1>6, <2>2 DEF PickType
    <3>2. CASE form.role = "viewer"
      BY <3>1, <3>2
    <3>3. CASE form.role # "viewer"
      BY <3>1, <3>3 DEF Fresh
    <3> QED BY <3>2, <3>3
  <2> QED BY <2>1, <2>2
<1>7. ASSUME NEW r \in CustomerRoles, PickRole(r) PROVE FormInv'
  BY <1>7 DEF PickRole, Fresh
<1> QED BY <1>1, <1>2, <1>3, <1>4, <1>5, <1>6, <1>7 DEF FormStep, FormReply

-----------------------------------------------------------------------------
(* The site manager keeps its invariants *)

LEMMA DetailsKept == ASSUME DetailsInv, DetailsStep PROVE DetailsInv'
<1> USE DEF DetailsInv
<1>1. CASE SiteArrives \/ TypeCity \/ TypeStreet \/ TypeName
  <2>1. 0 \in 0..2
    OBVIOUS
  <2> QED BY <1>1, <2>1 DEF SiteArrives, TypeCity, TypeStreet, TypeName
<1>2. CASE handleSubmit1
  <2> DEFINE n == fullAddress(details)
  <2>1. n \in 0..2
    BY DEF fullAddress
  <2>2. details' = [details EXCEPT !.pending = TRUE, !.body = n]
    BY <1>2 DEF handleSubmit1
  <2> HIDE DEF n
  <2> QED BY <2>1, <2>2
<1>3. CASE SiteSaved
  BY <1>3 DEF SiteSaved
<1> QED BY <1>1, <1>2, <1>3 DEF DetailsStep

LEMMA CameraKept == ASSUME CamInv, CameraStep PROVE CamInv'
<1> USE DEF CamInv, Places
<1>1. CASE MasterList \/ handleAssign \/ handleUnassign \/ handleMove
  BY <1>1 DEF MasterList, handleAssign, handleUnassign, handleMove
<1>2. CASE CameraReply
  BY <1>2 DEF CameraReply
<1>3. CASE handleTestCamera \/ CameraTested \/ ConfigureZones
  BY <1>3 DEF handleTestCamera, CameraTested, ConfigureZones
<1> QED BY <1>1, <1>2, <1>3 DEF CameraStep

LEMMA SpeakerKept == ASSUME SpkInv, SpeakerStep PROVE SpkInv'
<1> USE DEF SpkInv, Places
<1>1. CASE SpeakerList
  BY <1>1 DEF SpeakerList
<1>2. CASE SpeakerButton
  <2>1. SpeakerCalls[spk.shown] \in Seq({"assign", "unassign"})
    <3>1. /\ <<"assign">> \in Seq({"assign", "unassign"})
          /\ <<"unassign">> \in Seq({"assign", "unassign"})
          /\ <<"unassign", "assign">> \in Seq({"assign", "unassign"})
      OBVIOUS
    <3>2. SpeakerCalls["none"] = <<"assign">> /\ SpeakerCalls["here"] = <<"unassign">>
          /\ SpeakerCalls["other"] = <<"unassign", "assign">>
      BY DEF SpeakerCalls
    <3>3. spk.shown \in {"none", "here", "other"}
      OBVIOUS
    <3> QED BY <3>1, <3>2, <3>3, Zenon
  <2> QED BY <1>2, <2>1 DEF SpeakerButton
<1>3. CASE SpeakerReply
  <2>1. Tail(spk.calls) \in Seq({"assign", "unassign"}) /\ <<>> \in Seq({"assign", "unassign"})
    BY <1>3 DEF SpeakerReply
  <2> QED BY <1>3, <2>1 DEF SpeakerReply
<1> QED BY <1>1, <1>2, <1>3 DEF SpeakerStep

LEMMA SopKept == ASSUME SopInv, SopStep PROVE SopInv'
<1> USE DEF SopInv, SopType, SopRecord, NoSop
<1>1. CASE SopsArrive
  BY <1>1 DEF SopsArrive
<1>2. CASE AddForm \/ ToggleExpand \/ startEdit \/ CancelEdit
  <2>1. CASE AddForm
    BY <2>1 DEF AddForm
  <2>2. CASE ToggleExpand
    BY <2>2 DEF ToggleExpand
  <2>3. CASE startEdit
    BY <2>3 DEF startEdit
  <2>4. CASE CancelEdit
    BY <2>4 DEF CancelEdit
  <2> QED BY <1>2, <2>1, <2>2, <2>3, <2>4
<1>3. CASE handleAddSOP
  BY <1>3 DEF handleAddSOP
<1>4. CASE handleSaveEdit
  BY <1>4 DEF handleSaveEdit
<1>5. CASE handleDeleteSOP
  BY <1>5 DEF handleDeleteSOP
<1>6. ASSUME NEW c \in sop.calls, NEW ok \in BOOLEAN,
             sop' = LET left == [sop EXCEPT !.calls = @ \ {c}]
                    IN  CASE ~ok -> left
                          [] ok /\ c = "add" -> [left EXCEPT !.stored = [exists |-> TRUE, contacts |-> FALSE],
                                                             !.row = [exists |-> TRUE, contacts |-> FALSE], !.adding = FALSE]
                          [] ok /\ c = "save" -> [left EXCEPT !.stored.contacts = @ /\ sop.sent, !.editing = FALSE]
                          [] ok /\ c = "delete" -> [left EXCEPT !.stored = NoSop, !.row = NoSop]
      PROVE  SopInv'
  <2>1. CASE ~ok
    BY <1>6, <2>1
  <2>2. CASE ok /\ c = "add"
    BY <1>6, <2>2
  <2>3. CASE ok /\ c = "save"
    <3> DEFINE kept == sop.stored.contacts /\ sop.sent
               stored == [sop.stored EXCEPT !.contacts = kept]
    <3>1. kept \in BOOLEAN /\ stored \in SopRecord /\ stored.contacts = kept /\ stored.exists = sop.stored.exists
      OBVIOUS
    <3>2. sop' = [sop EXCEPT !.calls = @ \ {c}, !.stored = stored, !.editing = FALSE]
      BY <1>6, <2>3
    <3>3. kept => sop.stored.contacts
      OBVIOUS
    <3> HIDE DEF kept, stored
    <3> QED BY <3>1, <3>2, <3>3
  <2>4. CASE ok /\ c = "delete"
    BY <1>6, <2>4
  <2> QED BY <1>6, <2>1, <2>2, <2>3, <2>4
<1> QED BY <1>1, <1>2, <1>3, <1>4, <1>5, <1>6 DEF SopStep, SopReply

LEMMA AccessKept == ASSUME AccessInv, AccessStep PROVE AccessInv'
<1> USE DEF AccessInv
<1>1. CASE UsersArrive
  BY <1>1 DEF UsersArrive
<1>2. ASSUME NEW u \in Staff, handleToggle(u) PROVE AccessInv'
  BY <1>2 DEF handleToggle
<1>3. CASE ToggleReply
  <2>1. PICK ok \in BOOLEAN :
          access' = [access EXCEPT !.saving = 0, !.ticked[access.saving] = IF ok THEN ~@ ELSE @]
    BY <1>3 DEF ToggleReply
  <2> DEFINE b == IF ok THEN ~access.ticked[access.saving] ELSE access.ticked[access.saving]
             f == [access.ticked EXCEPT ![access.saving] = b]
  <2>2. b \in BOOLEAN
    BY <1>3 DEF ToggleReply
  <2>3. f \in [Staff -> BOOLEAN]
    BY <2>2
  <2>4. access' = [access EXCEPT !.saving = 0, !.ticked = f]
    BY <2>1
  <2> HIDE DEF f, b
  <2> QED BY <2>3, <2>4
<1> QED BY <1>1, <1>2, <1>3 DEF AccessStep

LEMMA PolicyKept == ASSUME PolicyInv, PolicyStep PROVE PolicyInv'
<1> USE DEF PolicyInv, ScheduleType, EmptyIsEmpty, ShownWindowsAreStored
<1>1. CASE OpenPolicy
  BY <1>1 DEF OpenPolicy
<1>2. CASE PolicyArrives
  BY <1>2, ZenonT(40) DEF PolicyArrives, parseSchedule
<1>3. CASE EditPolicy
  BY <1>3 DEF EditPolicy
<1>4. CASE save
  BY <1>4 DEF save
<1>5. CASE PolicySaved
  BY <1>5 DEF PolicySaved
<1>6. ASSUME NEW w \in Windows, updateWindow(w) PROVE PolicyInv'
  BY <1>6 DEF updateWindow
<1>7. ASSUME NEW ws0 \in SUBSET Windows, applyPreset(ws0) PROVE PolicyInv'
  BY <1>7 DEF applyPreset
<1> QED BY <1>1, <1>2, <1>3, <1>4, <1>5, <1>6, <1>7 DEF PolicyStep

LEMMA ScheduleKept == ASSUME ScheduleInv, ScheduleStep PROVE ScheduleInv'
BY DEF ScheduleInv, ScheduleStep, ScheduleArrives, EditSchedule, handleSave, ScheduleSaved

LEMMA SitemapKept == ASSUME SitemapInv, SiteMapStep PROVE SitemapInv'
<1> USE DEF SitemapInv
<1>1. CASE MapArrives
  BY <1>1 DEF MapArrives
<1>2. CASE handleMapClick
  BY <1>2 DEF handleMapClick, SaveMarkers
<1>3. CASE handleMapMouseUp
  BY <1>3 DEF handleMapMouseUp, SaveMarkers
<1>4. CASE updateMarker
  BY <1>4 DEF updateMarker, SaveMarkers
<1>5. CASE MarkersStored
  <2>1. PICK list \in sitemap.puts :
          sitemap' = [sitemap EXCEPT !.puts = @ \ {list}, !.stored = list, !.replies = @ \cup {list}]
    BY <1>5 DEF MarkersStored
  <2>2. /\ list \in SUBSET Markers /\ sitemap.puts \ {list} \in SUBSET SUBSET Markers
        /\ sitemap.replies \cup {list} \in SUBSET SUBSET Markers
    OBVIOUS
  <2> QED BY <2>1, <2>2
<1>6. CASE MarkersRefused
  <2>1. PICK list \in sitemap.puts : sitemap' = [sitemap EXCEPT !.puts = @ \ {list}, !.saving = FALSE]
    BY <1>6 DEF MarkersRefused
  <2>2. sitemap.puts \ {list} \in SUBSET SUBSET Markers
    OBVIOUS
  <2> QED BY <2>1, <2>2
<1>7. CASE MarkersSaved
  <2>1. PICK list \in sitemap.replies :
          sitemap' = [sitemap EXCEPT !.replies = @ \ {list}, !.saving = FALSE, !.shown = list]
    BY <1>7 DEF MarkersSaved
  <2>2. list \in SUBSET Markers /\ sitemap.replies \ {list} \in SUBSET SUBSET Markers
    OBVIOUS
  <2> QED BY <2>1, <2>2
<1>8. CASE handleFloorPlanUpload \/ FloorPlanStored
  <2>1. CASE handleFloorPlanUpload
    BY <2>1 DEF handleFloorPlanUpload
  <2>2. CASE FloorPlanStored
    BY <2>2 DEF FloorPlanStored
  <2> QED BY <1>8, <2>1, <2>2
<1>9. ASSUME NEW c \in Markers, startPlacing(c) \/ handleMarkerMouseDown(c) \/ removeMarker(c) PROVE SitemapInv'
  <2>1. CASE startPlacing(c)
    BY <2>1 DEF startPlacing
  <2>2. CASE handleMarkerMouseDown(c)
    BY <2>2 DEF handleMarkerMouseDown
  <2>3. CASE removeMarker(c)
    <3>1. sitemap.puts \cup {sitemap.shown \ {c}} \in SUBSET SUBSET Markers
      OBVIOUS
    <3> QED BY <2>3, <3>1 DEF removeMarker, SaveMarkers
  <2> QED BY <1>9, <2>1, <2>2, <2>3
<1> QED BY <1>1, <1>2, <1>3, <1>4, <1>5, <1>6, <1>7, <1>8, <1>9 DEF SiteMapStep

LEMMA AuditKept == ASSUME AuditInv, AuditStep PROVE AuditInv'
<1> USE DEF AuditInv, ExportIsWhole
<1>1. CASE AuditArrives
  BY <1>1 DEF AuditArrives
<1>2. ASSUME NEW r \in 1..3, SetRange(r) PROVE AuditInv'
  BY <1>2 DEF SetRange
<1>3. CASE exportCSV
  <2> DEFINE f == [range |-> audit.range, entries |-> filteredEntries(audit)]
  <2>1. audit.range \in 1..3 /\ audit.entries = 1..3
    BY <1>3 DEF exportCSV
  <2>2. filteredEntries(audit) = 1..audit.range
    BY <2>1 DEF filteredEntries
  <2>3. f \in [range : 1..3, entries : SUBSET (1..3)] /\ f.entries = 1..f.range
    BY <2>1, <2>2
  <2>4. audit' = [audit EXCEPT !.files = @ \cup {f}]
    BY <1>3 DEF exportCSV
  <2> HIDE DEF f
  <2> QED BY <2>3, <2>4
<1> QED BY <1>1, <1>2, <1>3 DEF AuditStep

-----------------------------------------------------------------------------
(* The settings page keeps its invariants *)

LEMMA DraftKept == ASSUME DraftInv, DraftStep PROVE DraftInv'
<1> USE DEF DraftInv
<1>1. CASE SettingsArrive
  BY <1>1 DEF SettingsArrive
<1>2. ASSUME NEW v \in 1..3, patchDraft(v) PROVE DraftInv'
  BY <1>2 DEF patchDraft
<1>3. CASE handleSaveSettings
  <2>1. draft' = [draft EXCEPT !.saving = TRUE, !.body = draft.value] /\ draft.value \in 1..3
    BY <1>3 DEF handleSaveSettings
  <2> QED BY <2>1
<1>4. CASE SettingsSaved
  <2>1. draft.body \in 0..3
    OBVIOUS
  <2>2. PICK ok \in BOOLEAN :
          draft' = IF ok THEN [draft EXCEPT !.saving = FALSE, !.stored = draft.body, !.value = draft.body]
                   ELSE [draft EXCEPT !.saving = FALSE]
    BY <1>4 DEF SettingsSaved
  <2>3. CASE ok
    BY <2>1, <2>2, <2>3
  <2>4. CASE ~ok
    BY <2>2, <2>4
  <2> QED BY <2>3, <2>4
<1> QED BY <1>1, <1>2, <1>3, <1>4 DEF DraftStep

(* Reading the locations again keeps the type of the tab. *)
LEMMA LoadKeepsStore == ASSUME NEW s \in StoreType PROVE loadStorageLocations(s) \in StoreType
<1> DEFINE n == IF s.reads < MaxQueries THEN s.reads + 1 ELSE s.reads
<1>1. n \in 0..MaxQueries
  BY FiltersAssumption DEF StoreType
<1>2. loadStorageLocations(s) = [s EXCEPT !.loading = TRUE, !.reads = n]
  BY DEF loadStorageLocations
<1> HIDE DEF n
<1> QED BY <1>1, <1>2 DEF StoreType

(* The forms of the storage tab, which the picker's part has as well. *)
LEMMA StoreFormsKept == ASSUME StoreInv, AddLocation \/ EditLocation \/ CancelLocation PROVE StoreInv'
<1>1. 0 \in Paths
  BY DEF Paths
<1> QED BY <1>1 DEF StoreInv, StoreType, AddLocation, EditLocation, CancelLocation

LEMMA StoreKept == ASSUME StoreInv, StoreStep PROVE StoreInv'
<1>t. store \in StoreType
  BY DEF StoreInv
<1>i. store' \in StoreType => StoreInv'
  BY DEF StoreInv
<1>0. 0 \in Paths
  BY DEF Paths
<1>1. CASE OpenStorage
  BY <1>1, <1>t, <1>i, LoadKeepsStore DEF OpenStorage
<1>2. CASE LocationsArrive
  <2> DEFINE n == store.reads - 1
  <2>1. n \in 0..MaxQueries
    BY <1>2, <1>t, FiltersAssumption DEF LocationsArrive, StoreType
  <2>2. store' = [store EXCEPT !.reads = n, !.loading = FALSE]
    BY <1>2 DEF LocationsArrive
  <2> HIDE DEF n
  <2> QED BY <1>t, <1>i, <2>1, <2>2 DEF StoreType
<1>3. CASE AddLocation \/ EditLocation \/ CancelLocation
  BY <1>3, StoreFormsKept
<1>4. CASE handleAddLocation \/ handleUpdateLocation \/ handleDeleteLocation
  BY <1>4 DEF handleAddLocation, handleUpdateLocation, handleDeleteLocation, StoreInv, StoreType
<1>5. ASSUME NEW c \in store.calls, NEW ok \in BOOLEAN,
             store' = LET left == [store EXCEPT !.calls = @ \ {c}]
                      IN  IF ~ok THEN left
                          ELSE loadStorageLocations(
                                 CASE c = "add" -> [left EXCEPT !.adding = FALSE, !.newPath = 0]
                                   [] c = "update" -> [left EXCEPT !.editing = FALSE, !.path = left.body]
                                   [] c = "delete" -> left)
      PROVE  StoreInv'
  <2> DEFINE left == [store EXCEPT !.calls = @ \ {c}]
             closed == CASE c = "add" -> [left EXCEPT !.adding = FALSE, !.newPath = 0]
                         [] c = "update" -> [left EXCEPT !.editing = FALSE, !.path = left.body]
                         [] c = "delete" -> left
  <2>1. left \in StoreType /\ c \in {"add", "update", "delete"}
    BY <1>t DEF StoreType
  <2>2. closed \in StoreType
    <3>1. [left EXCEPT !.adding = FALSE, !.newPath = 0] \in StoreType
      BY <2>1, <1>0 DEF StoreType
    <3>2. [left EXCEPT !.editing = FALSE, !.path = left.body] \in StoreType
      BY <2>1 DEF StoreType
    <3> HIDE DEF left
    <3> QED BY <2>1, <3>1, <3>2
  <2>3. store' = IF ~ok THEN left ELSE loadStorageLocations(closed)
    BY <1>5
  <2> HIDE DEF left, closed
  <2> QED BY <2>1, <2>2, <2>3, <1>i, LoadKeepsStore
<1> QED BY <1>1, <1>2, <1>3, <1>4, <1>5 DEF StoreStep, LocationReply

LEMMA PickerKept == ASSUME StoreInv, PickerInv, PickerStep PROVE StoreInv' /\ PickerInv'
<1>1. CASE openFolderPicker
  BY <1>1 DEF openFolderPicker, StoreInv, PickerInv
<1>2. ASSUME NEW f \in Folders, navigatePicker(f) PROVE StoreInv' /\ PickerInv'
  BY <1>2 DEF navigatePicker, StoreInv, PickerInv
<1>3. CASE FoldersArrive
  BY <1>3 DEF FoldersArrive, StoreInv, PickerInv
<1>4. CASE ClosePicker
  BY <1>4 DEF ClosePicker, StoreInv, PickerInv
<1>5. CASE selectPickerPath
  <2>1. picker.path \in Paths
    BY DEF PickerInv, Paths
  <2>2. StoreInv'
    BY <1>5, <2>1 DEF selectPickerPath, StoreInv, StoreType
  <2>3. PickerInv'
    BY <1>5 DEF selectPickerPath, PickerInv
  <2> QED BY <2>2, <2>3
<1>6. CASE FormsBehind
  <2>1. StoreInv'
    BY <1>6, StoreFormsKept DEF FormsBehind
  <2>2. UNCHANGED picker
    BY <1>6 DEF FormsBehind, AddLocation, EditLocation, CancelLocation, StoreOnly
  <2> QED BY <2>1, <2>2 DEF PickerInv
<1> QED BY <1>1, <1>2, <1>3, <1>4, <1>5, <1>6 DEF PickerStep

(* One more query, when there is room for it. *)
LEMMA QueryFits ==
    ASSUME NEW S, NEW f, WithinQueries(S)
    PROVE  WithinQueries(IF Cardinality(S) < MaxQueries THEN S \cup {f} ELSE S)
<1>1. Cardinality(S) \in Nat /\ IsFiniteSet(S \cup {f}) /\ Cardinality(S \cup {f}) <= Cardinality(S) + 1
  <2>1. IsFiniteSet(S)
    BY DEF WithinQueries
  <2>2. IsFiniteSet(S \cup {f})
    BY <2>1, FS_AddElement
  <2>3. Cardinality(S) \in Nat
    BY <2>1, FS_CardinalityType
  <2>4. Cardinality(S \cup {f}) = IF f \in S THEN Cardinality(S) ELSE Cardinality(S) + 1
    BY <2>1, FS_AddElement
  <2> QED BY <2>2, <2>3, <2>4
<1>2. Cardinality(S \cup {f}) \in Nat
  BY <1>1, FS_CardinalityType
<1> QED BY <1>1, <1>2, FiltersAssumption DEF WithinQueries

LEMMA QueryLess == ASSUME NEW S, NEW f, WithinQueries(S) PROVE WithinQueries(S \ {f})
<1>1. Cardinality(S) \in Nat /\ IsFiniteSet(S \ {f}) /\ Cardinality(S \ {f}) <= Cardinality(S)
  <2>1. IsFiniteSet(S)
    BY DEF WithinQueries
  <2>2. IsFiniteSet(S \ {f}) /\ Cardinality(S \ {f}) <= Cardinality(S)
    BY <2>1, FS_Subset
  <2>3. Cardinality(S) \in Nat
    BY <2>1, FS_CardinalityType
  <2> QED BY <2>2, <2>3
<1>2. Cardinality(S \ {f}) \in Nat
  BY <1>1, FS_CardinalityType
<1> QED BY <1>1, <1>2, FiltersAssumption DEF WithinQueries

LEMMA LoadKeepsEvlog ==
    ASSUME NEW l \in EvlogType, WithinQueries(l.asked)
    PROVE  loadEvents(l) \in EvlogType /\ WithinQueries(loadEvents(l).asked)
<1> DEFINE a == IF Cardinality(l.asked) < MaxQueries THEN l.asked \cup {l.filter} ELSE l.asked
<1>1. WithinQueries(a)
  BY QueryFits
<1>2. a \in SUBSET Filters
  BY DEF EvlogType
<1>3. loadEvents(l) = [l EXCEPT !.loading = TRUE, !.asked = a]
  BY DEF loadEvents
<1> HIDE DEF a
<1> QED BY <1>1, <1>2, <1>3 DEF EvlogType

LEMMA EvlogKept == ASSUME EvlogInv, EvlogStep PROVE EvlogInv'
<1>t. evlog \in EvlogType /\ WithinQueries(evlog.asked)
  BY DEF EvlogInv
<1>i. evlog' \in EvlogType /\ WithinQueries(evlog'.asked) => EvlogInv'
  BY DEF EvlogInv, EvlogType, WithinQueries
<1>1. ASSUME NEW f \in Filters, SetEventFilter(f) PROVE EvlogInv'
  <2> DEFINE l == [evlog EXCEPT !.filter = f]
  <2>1. l \in EvlogType /\ l.asked = evlog.asked
    BY <1>t DEF EvlogType
  <2>2. evlog' = loadEvents(l)
    BY <1>1 DEF SetEventFilter
  <2> HIDE DEF l
  <2> QED BY <1>t, <1>i, <2>1, <2>2, LoadKeepsEvlog
<1>2. CASE AutoRefresh \/ PressRefresh
  BY <1>2, <1>t, <1>i, LoadKeepsEvlog DEF AutoRefresh, PressRefresh
<1>3. CASE ToggleAuto
  <2>1. evlog' \in EvlogType /\ evlog'.asked = evlog.asked
    BY <1>3, <1>t DEF ToggleAuto, EvlogType
  <2> QED BY <1>t, <1>i, <2>1
<1>4. ASSUME NEW f \in evlog.asked, evlog' = [evlog EXCEPT !.asked = @ \ {f}, !.shown = f, !.loading = FALSE]
      PROVE  EvlogInv'
  <2>1. evlog' \in EvlogType /\ evlog'.asked = evlog.asked \ {f}
    BY <1>4, <1>t DEF EvlogType
  <2> QED BY <1>t, <1>i, <2>1, QueryLess
<1>5. ASSUME NEW f \in evlog.asked, evlog' = [evlog EXCEPT !.asked = @ \ {f}] PROVE EvlogInv'
  <2>1. evlog' \in EvlogType /\ evlog'.asked = evlog.asked \ {f}
    BY <1>5, <1>t DEF EvlogType
  <2> QED BY <1>t, <1>i, <2>1, QueryLess
<1> QED BY <1>1, <1>2, <1>3, <1>4, <1>5 DEF EvlogStep, EventsArrive, EventsFail

LEMMA TrailKept == ASSUME TrailInv, TrailStep PROVE TrailInv'
<1> USE DEF TrailInv
<1>1. CASE SearchAudit
  BY <1>1 DEF SearchAudit
<1>2. CASE AuditPageArrives
  BY <1>2, ZenonT(40) DEF AuditPageArrives
<1>3. CASE AuditNext
  <2> DEFINE n == trail.page + 1
  <2>1. n \in 0..2 /\ trail' = [trail EXCEPT !.page = n]
    BY <1>3 DEF AuditNext
  <2> HIDE DEF n
  <2> QED BY <2>1
<1>4. CASE AuditPrevious
  <2> DEFINE n == trail.page - 1
  <2>1. n \in 0..2 /\ trail' = [trail EXCEPT !.page = n]
    BY <1>4 DEF AuditPrevious
  <2> HIDE DEF n
  <2> QED BY <2>1
<1> QED BY <1>1, <1>2, <1>3, <1>4 DEF TrailStep

-----------------------------------------------------------------------------
(* The camera manager keeps its invariants *)

LEMMA RosterKept == ASSUME RosterInv, RosterStep PROVE RosterInv'
<1> USE DEF RosterInv, OnlyConfirmedAreDeleted
<1>1. CASE CamerasArrive \/ toggleSelectAll
  BY <1>1 DEF CamerasArrive, toggleSelectAll
<1>2. CASE AskBulkDelete \/ ClearSelection \/ BulkDeleteEnds \/ CancelDelete
  BY <1>2 DEF AskBulkDelete, ClearSelection, BulkDeleteEnds, CancelDelete
<1>3. CASE handleBulkDelete
  BY <1>3 DEF handleBulkDelete
<1>4. CASE BulkDeleteNext
  BY <1>4, ZenonT(40) DEF BulkDeleteNext
<1>5. CASE handleDeleteCamera
  BY <1>5 DEF handleDeleteCamera
<1>6. CASE CameraDeleted
  BY <1>6, ZenonT(40) DEF CameraDeleted
<1>7. ASSUME NEW c \in Cams, toggleSelect(c) PROVE RosterInv'
  BY <1>7 DEF toggleSelect
<1>8. ASSUME NEW c \in Cams, AskDelete(c) PROVE RosterInv'
  BY <1>8 DEF AskDelete
<1> QED BY <1>1, <1>2, <1>3, <1>4, <1>5, <1>6, <1>7, <1>8 DEF RosterStep

LEMMA DialogKept == ASSUME DialogInv, DialogStep PROVE DialogInv'
<1> USE DEF DialogInv, SaveSendsWhatStands
<1>1. CASE onBlur
  BY <1>1 DEF onBlur, handleUpdate
<1>2. CASE FlipSwitch
  <2> DEFINE v == 3 - dialog.editing
  <2>1. v \in Values
    BY DEF Values
  <2>2. dialog' = [handleUpdate(dialog, v) EXCEPT !.editing = v, !.field = v]
    BY <1>2 DEF FlipSwitch
  <2> HIDE DEF v
  <2>3. dialog' = [dialog EXCEPT !.puts = @ \cup {v}, !.last = v, !.editing = v, !.field = v]
    BY <2>2 DEF handleUpdate
  <2>4. dialog.open /\ dialog.kind = "switch"
    BY <1>2 DEF FlipSwitch
  <2> QED BY <2>1, <2>3, <2>4
<1>3. CASE UpdateDone
  BY <1>3, ZenonT(40) DEF UpdateDone
<1>4. CASE CloseDialog \/ handleSaveAndClose
  <2>1. CASE CloseDialog
    BY <2>1 DEF CloseDialog
  <2>2. CASE handleSaveAndClose
    BY <2>2 DEF handleSaveAndClose
  <2> QED BY <1>4, <2>1, <2>2
<1>5. CASE DialogSaved
  BY <1>5, ZenonT(40) DEF DialogSaved
<1>6. CASE RebootDevice \/ RebootAnswered
  BY <1>6 DEF RebootDevice, RebootAnswered
<1>7. ASSUME NEW k \in Kinds, EditCamera(k) PROVE DialogInv'
  BY <1>7 DEF EditCamera
<1>8. ASSUME NEW v \in Values, TypeField(v) PROVE DialogInv'
  BY <1>8 DEF TypeField
<1> QED BY <1>1, <1>2, <1>3, <1>4, <1>5, <1>6, <1>7, <1>8 DEF DialogStep

LEMMA NewcamKept == ASSUME NewcamInv, NewcamStep PROVE NewcamInv'
<1> USE DEF NewcamInv, Classes
<1>1. CASE OpenAdd \/ CloseAdd \/ CancelAdd \/ handleAdd \/ WebhookDone
  BY <1>1 DEF OpenAdd, CloseAdd, CancelAdd, handleAdd, WebhookDone
<1>2. ASSUME NEW k \in Classes, FillAdd(k) PROVE NewcamInv'
  BY <1>2 DEF FillAdd
<1>3. CASE CameraAdded
  <2> DEFINE w == newcam.webhook \/ newcam.sent = "sense"
  <2>1. w \in BOOLEAN
    OBVIOUS
  <2>2. PICK ok \in BOOLEAN :
          newcam' = IF ok THEN [newcam EXCEPT !.adding = FALSE, !.open = FALSE, !.class = "continuous", !.address = FALSE,
                                              !.webhook = w]
                    ELSE [newcam EXCEPT !.adding = FALSE, !.error = TRUE]
    BY <1>3 DEF CameraAdded
  <2> HIDE DEF w
  <2> QED BY <2>1, <2>2
<1> QED BY <1>1, <1>2, <1>3 DEF NewcamStep

LEMMA ScanKept == ASSUME ScanInv, ScanStep PROVE ScanInv'
<1> USE DEF ScanInv, OnlyListedAreAdded
<1>1. CASE handleDiscover
  <2> DEFINE n == scan.running + 1
  <2>1. n \in 0..2 /\ scan' = [scan EXCEPT !.open = TRUE, !.discovering = TRUE, !.selected = {}, !.running = n]
    BY <1>1 DEF handleDiscover
  <2> HIDE DEF n
  <2> QED BY <2>1
<1>2. CASE ScanEnds \/ ScanFails
  <2> DEFINE n == scan.running - 1
  <2>0. scan.running > 0
    BY <1>2, Zenon DEF ScanEnds, ScanFails
  <2>1. n \in 0..2
    BY <2>0
  <2>2. CASE ScanEnds
    <3>1. PICK found \in SUBSET Cams : scan' = [scan EXCEPT !.running = n, !.discovering = FALSE, !.devices = found]
      BY <2>2 DEF ScanEnds
    <3> HIDE DEF n
    <3> QED BY <2>1, <3>1
  <2>3. CASE ScanFails
    <3>1. scan' = [scan EXCEPT !.running = n, !.discovering = FALSE]
      BY <2>3 DEF ScanFails
    <3> HIDE DEF n
    <3> QED BY <2>1, <3>1
  <2> QED BY <1>2, <2>2, <2>3
<1>3. CASE CloseDiscovery \/ toggleAllDevices \/ PreviewEnds
  BY <1>3 DEF CloseDiscovery, toggleAllDevices, PreviewEnds
<1>4. CASE handleBulkAdd \/ BulkAddEnds
  <2>1. CASE handleBulkAdd
    BY <2>1 DEF handleBulkAdd
  <2>2. CASE BulkAddEnds
    BY <2>2 DEF BulkAddEnds
  <2> QED BY <1>4, <2>1, <2>2
<1>5. ASSUME NEW d \in Cams, toggleDeviceSelection(d) \/ handleLoadPreview(d) PROVE ScanInv'
  BY <1>5 DEF toggleDeviceSelection, handleLoadPreview
<1> QED BY <1>1, <1>2, <1>3, <1>4, <1>5 DEF ScanStep

LEMMA PanelKept == ASSUME PanelInv, PanelStep PROVE PanelInv'
<1>n. 0 \in 0..2 /\ 1 \in 0..2 /\ 2 \in 0..2
  OBVIOUS
<1> USE <1>n DEF PanelInv, NothingWrittenUnread
<1>1. CASE PanelRead
  BY <1>1 DEF PanelRead
<1>2. CASE EditPanel \/ PressReload
  BY <1>2 DEF EditPanel, PressReload, reload
<1>3. CASE savePanel
  <2>1. panel.data # 0
    BY <1>3 DEF savePanel, FormShown
  <2> QED BY <1>3, <2>1 DEF savePanel
<1>4. CASE PanelSaved
  BY <1>4, ZenonT(40) DEF PanelSaved
<1>5. CASE MessageExpires \/ rebootPanel \/ handleGoto
  BY <1>5 DEF MessageExpires, rebootPanel, handleGoto
<1>6. ASSUME NEW m \in BOOLEAN, ChoosePanel(m) PROVE PanelInv'
  BY <1>6 DEF ChoosePanel
<1> QED BY <1>1, <1>2, <1>3, <1>4, <1>5, <1>6 DEF PanelStep

(* A shape is finished with corners enough, a tripwire with no more. *)
LEMMA FinishKept ==
    ASSUME ZoneInv, NEW n \in Nat, zone.type = "linecross" => n <= 2, zone' = finishDrawing(zone, n)
    PROVE  ZoneInv'
<1>1. CASE n < minPoints(zone.type) \/ zone.finishing = MaxZones
  BY <1>1 DEF ZoneInv, finishDrawing, ZonesAreShapes
<1>2. CASE ~(n < minPoints(zone.type) \/ zone.finishing = MaxZones)
  <2> DEFINE z == [type |-> zone.type, points |-> n]
             m == zone.finishing + 1
  <2>1. z \in [type : ZoneTypes, points : Nat]
    BY DEF ZoneInv, ZoneType
  <2>2. IF z.type = "linecross" THEN z.points = 2 ELSE z.points >= 3
    BY <1>2 DEF minPoints
  <2>3. m \in 0..MaxZones
    BY <1>2, PointsAssumption DEF ZoneInv, ZoneType
  <2>4. zone' = [zone EXCEPT !.finishing = m, !.made = @ \cup {z}]
    BY <1>2 DEF finishDrawing
  <2> HIDE DEF z, m
  <2>5. zone' \in ZoneType
    <3> DEFINE more == zone.made \cup {z}
    <3>1. more \in SUBSET [type : ZoneTypes, points : Nat]
      BY <2>1 DEF ZoneInv, ZoneType
    <3>2. zone' = [zone EXCEPT !.finishing = m, !.made = more]
      BY <2>4
    <3>3. zone \in ZoneType
      BY DEF ZoneInv
    <3> HIDE DEF more
    <3> QED BY <2>3, <3>1, <3>2, <3>3 DEF ZoneType
  <2>6. /\ zone'.mode = zone.mode /\ zone'.type = zone.type /\ zone'.points = zone.points
        /\ zone'.made = zone.made \cup {z}
    BY <2>4 DEF ZoneInv, ZoneType
  <2> QED BY <2>2, <2>5, <2>6 DEF ZoneInv, ZonesAreShapes
<1> QED BY <1>1, <1>2

(* A step that stores no zone, and does not place the second end of a tripwire. *)
LEMMA DrawKept ==
    ASSUME ZoneInv, zone' \in ZoneType, zone'.made = zone.made,
           zone'.mode = "drawing" /\ zone'.type = "linecross" => zone'.points <= 1
    PROVE  ZoneInv'
BY DEF ZoneInv, ZonesAreShapes

LEMMA ZoneKept == ASSUME ZoneInv, ZoneStep PROVE ZoneInv'
<1>t. zone \in ZoneType /\ zone.points \in 0..MaxPoints /\ zone.finishing \in 0..MaxZones /\ 0 \in 0..MaxPoints
  BY PointsAssumption DEF ZoneInv, ZoneType
<1>d. zone.mode = "drawing" /\ zone.type = "linecross" => zone.points <= 1
  BY DEF ZoneInv
<1>1. ASSUME NEW t \in ZoneTypes, ChooseType(t) PROVE ZoneInv'
  <2>1. zone' = [zone EXCEPT !.mode = "drawing", !.type = t, !.points = 0, !.selected = FALSE]
    BY <1>1 DEF ChooseType
  <2>2. zone' \in ZoneType /\ zone'.made = zone.made /\ zone'.points = 0
    BY <2>1, <1>t DEF ZoneType
  <2> QED BY <2>2, DrawKept
<1>2. CASE CancelDrawing
  <2>1. zone' = [zone EXCEPT !.mode = "idle", !.points = 0]
    BY <1>2 DEF CancelDrawing
  <2>2. zone' \in ZoneType /\ zone'.made = zone.made /\ zone'.points = 0
    BY <2>1, <1>t DEF ZoneType
  <2> QED BY <2>2, DrawKept
<1>3. CASE UndoPoint
  <2> DEFINE n == zone.points - 1
  <2>1. n \in 0..MaxPoints /\ n <= zone.points
    BY <1>3, <1>t, PointsAssumption DEF UndoPoint
  <2>2. zone' = [zone EXCEPT !.points = n]
    BY <1>3 DEF UndoPoint
  <2>3. zone' \in ZoneType /\ zone'.made = zone.made /\ zone'.points = n /\ zone'.type = zone.type /\ zone'.mode = zone.mode
    <3> HIDE DEF n
    <3> QED BY <2>1, <2>2, <1>t DEF ZoneType
  <2>4. zone'.mode = "drawing" /\ zone'.type = "linecross" => zone'.points <= 1
    BY <2>1, <2>3, <1>t, <1>d
  <2> QED BY <2>3, <2>4, DrawKept
<1>4. CASE ClickCanvas
  <2>1. CASE zone.type = "linecross" /\ zone.points + 1 >= 2
    <3>1. zone.points + 1 = 2
      BY <1>4, <2>1, <1>t, <1>d DEF ClickCanvas
    <3>2. zone' = finishDrawing(zone, zone.points + 1)
      BY <1>4, <2>1 DEF ClickCanvas
    <3>3. zone' = finishDrawing(zone, 2)
      BY <3>1, <3>2
    <3> QED BY <3>3, FinishKept
  <2>2. CASE ~(zone.type = "linecross" /\ zone.points + 1 >= 2)
    <3> DEFINE n == IF zone.points < MaxPoints THEN zone.points + 1 ELSE zone.points
    <3>1. n \in 0..MaxPoints /\ (zone.type = "linecross" => n <= 1)
      BY <2>2, <1>t, PointsAssumption
    <3>2. zone' = [zone EXCEPT !.points = n]
      BY <1>4, <2>2 DEF ClickCanvas
    <3> HIDE DEF n
    <3>3. zone' \in ZoneType /\ zone'.made = zone.made /\ zone'.points = n /\ zone'.type = zone.type
      BY <3>1, <3>2, <1>t DEF ZoneType
    <3> QED BY <3>1, <3>3, DrawKept
  <2> QED BY <2>1, <2>2
<1>5. CASE CloseShape
  BY <1>5, <1>t, FinishKept DEF CloseShape
<1>6. CASE SaveZone
  <2>1. zone.type = "linecross" => zone.points <= 2
    BY <1>6, <1>t, <1>d DEF SaveZone
  <2> QED BY <1>6, <1>t, <2>1, FinishKept DEF SaveZone
<1>7. CASE ZoneSaved
  <2> DEFINE n == zone.finishing - 1
  <2>1. n \in 0..MaxZones
    BY <1>7, <1>t, PointsAssumption DEF ZoneSaved
  <2>2. zone' = [zone EXCEPT !.finishing = n, !.mode = "idle", !.points = 0]
    BY <1>7 DEF ZoneSaved
  <2> HIDE DEF n
  <2>3. zone' \in ZoneType /\ zone'.made = zone.made /\ zone'.points = 0
    BY <2>1, <2>2, <1>t DEF ZoneType
  <2> QED BY <2>3, DrawKept
<1>8. ASSUME NEW b \in BOOLEAN, NEW e \in BOOLEAN, zone' = [zone EXCEPT !.selected = b, !.dragging = e]
      PROVE  ZoneInv'
  <2>1. /\ zone' \in ZoneType /\ zone'.made = zone.made /\ zone'.points = zone.points
        /\ zone'.mode = zone.mode /\ zone'.type = zone.type
    BY <1>8, <1>t DEF ZoneType
  <2> QED BY <1>d, <2>1, DrawKept
<1>9. CASE onMouseDown \/ onMouseUp \/ handleDeleteRule \/ \E s \in BOOLEAN : ClickZone(s)
  <2>1. PICK b \in BOOLEAN : zone' = [zone EXCEPT !.selected = b] \/ zone' = [zone EXCEPT !.dragging = b]
    BY <1>9 DEF onMouseDown, onMouseUp, handleDeleteRule, ClickZone
  <2>2. zone.selected \in BOOLEAN /\ zone.dragging \in BOOLEAN
    BY <1>t DEF ZoneType
  <2>3. [zone EXCEPT !.selected = b] = [zone EXCEPT !.selected = b, !.dragging = zone.dragging]
    BY <1>t DEF ZoneType
  <2>4. [zone EXCEPT !.dragging = b] = [zone EXCEPT !.selected = zone.selected, !.dragging = b]
    BY <1>t DEF ZoneType
  <2> QED BY <1>8, <2>1, <2>2, <2>3, <2>4
<1> QED BY <1>1, <1>2, <1>3, <1>4, <1>5, <1>6, <1>7, <1>9 DEF ZoneStep

LEMMA StillKept == ASSUME StillInv, StillStep PROVE StillInv'
BY DEF StillInv, StillStep, loadSnapshot, OnvifAnswers, PlaylistAnswers, FrameArrives, FrameTimeout

-----------------------------------------------------------------------------
(* The portal and the labelling page keep their invariants *)

LEMMA QueueKept == ASSUME QueueInv, QueueStep PROVE QueueInv'
<1>t. queue \in QueueType
  BY DEF QueueInv
<1>n. 0 \in 0..1 /\ 1 \in 0..1
  OBVIOUS
<1>1. CASE QueueRead \/ QueueFails \/ loadQueue
  <2>1. CASE QueueRead
    BY <2>1 DEF QueueRead, QueueInv, QueueType, HiddenFindingsAreReviewed
  <2>2. CASE QueueFails
    BY <2>2 DEF QueueFails, QueueInv, QueueType, HiddenFindingsAreReviewed
  <2>3. CASE loadQueue
    BY <2>3 DEF loadQueue, QueueInv, QueueType, HiddenFindingsAreReviewed
  <2> QED BY <1>1, <2>1, <2>2, <2>3
<1>2. CASE QueueArrives
  <2>1. Listed(queue.answer) \in [Findings -> 0..1]
    BY <1>n DEF Listed
  <2> QED BY <1>2, <2>1 DEF QueueArrives, QueueInv, QueueType, HiddenFindingsAreReviewed
<1>3. CASE ChooseCorrection \/ CancelCorrection
  <2>1. CASE ChooseCorrection
    BY <2>1 DEF ChooseCorrection, QueueInv, QueueType, HiddenFindingsAreReviewed
  <2>2. CASE CancelCorrection
    BY <2>2 DEF CancelCorrection, QueueInv, QueueType, HiddenFindingsAreReviewed
  <2> QED BY <1>3, <2>1, <2>2
<1>4. ASSUME NEW f \in Findings, Detected(f) PROVE QueueInv'
  BY <1>4 DEF Detected, QueueInv, QueueType, HiddenFindingsAreReviewed
<1>5. ASSUME NEW f \in Findings, Received(f) PROVE QueueInv'
  <2> DEFINE r == [queue.rows EXCEPT ![f] = IF @ = 0 THEN 1 ELSE @]
  <2>1. r \in [Findings -> 0..1]
    BY <1>t DEF QueueType
  <2>2. queue' = [queue EXCEPT !.messages = @ \ {f}, !.rows = r, !.hidden = @ \ {f}]
    BY <1>5 DEF Received
  <2> HIDE DEF r
  <2> QED BY <2>1, <2>2 DEF QueueInv, QueueType, HiddenFindingsAreReviewed
<1>6. ASSUME NEW f \in Findings, handleValidate(f) \/ handleSubmitCorrection(f) PROVE QueueInv'
  BY <1>6 DEF handleValidate, handleSubmitCorrection, QueueInv, QueueType, HiddenFindingsAreReviewed
<1>7. ASSUME NEW f \in Findings, handleFalsePositive(f) PROVE QueueInv'
  BY <1>7 DEF handleFalsePositive, QueueInv, QueueType, HiddenFindingsAreReviewed
<1>8. ASSUME NEW f \in Findings, ReviewDone(f) PROVE QueueInv'
  <2> DEFINE q == [queue EXCEPT !.sent = @ \ {f}, !.corrected = @ \ {f}]
             r == [queue.rows EXCEPT ![f] = 0]
             t == IF f \in queue.corrected THEN {} ELSE queue.target
             v == queue.value /\ f \notin queue.corrected
  <2>1. PICK ok \in BOOLEAN :
          queue' = IF ~ok THEN q
                   ELSE [q EXCEPT !.reviewed = @ \cup {f}, !.rows[f] = 0, !.hidden = @ \cup {f},
                                  !.target = IF f \in queue.corrected THEN {} ELSE @,
                                  !.value = @ /\ f \notin queue.corrected]
    BY <1>8 DEF ReviewDone
  <2>2. CASE ~ok
    BY <2>1, <2>2 DEF QueueInv, QueueType, HiddenFindingsAreReviewed
  <2>3. CASE ok
    <3>1. r \in [Findings -> 0..1]
      BY <1>t, <1>n DEF QueueType
    <3>2. /\ t \in SUBSET Findings /\ v \in BOOLEAN
          /\ t # {} => \E g \in t : t = {g}
      BY <1>t DEF QueueInv, QueueType
    <3>3. queue' = [queue EXCEPT !.sent = @ \ {f}, !.corrected = @ \ {f}, !.reviewed = @ \cup {f}, !.rows = r,
                                 !.hidden = @ \cup {f}, !.target = t, !.value = v]
      BY <2>1, <2>3, <1>t DEF QueueType
    <3> HIDE DEF r, t, v
    <3> QED BY <3>1, <3>2, <3>3 DEF QueueInv, QueueType, HiddenFindingsAreReviewed
  <2> QED BY <2>2, <2>3
<1> QED BY <1>1, <1>2, <1>3, <1>4, <1>5, <1>6, <1>7, <1>8 DEF QueueStep

LEMMA SupportKept == ASSUME SupportInv, SupportStep PROVE SupportInv'
<1>t. support \in SupportType
  BY DEF SupportInv
<1>1. CASE OpenWidget \/ CloseWidget \/ PollTickets \/ TypeDraft
  BY <1>1 DEF OpenWidget, CloseWidget, PollTickets, TypeDraft, SupportInv, SupportType
<1>2. CASE PollThread \/ ThreadArrives \/ ThreadFails \/ SendFails
  BY <1>2 DEF PollThread, InThread, ThreadArrives, ThreadFails, SendFails, SupportInv, SupportType
<1>v. ASSUME NEW v \in Views, NEW th \in {"none"} \cup Tickets, NEW d \in BOOLEAN,
             support' = [support EXCEPT !.view = v, !.loading = v \in Tickets, !.thread = th, !.draft = d]
      PROVE  SupportInv'
  <2> DEFINE l == v \in Tickets
  <2>1. l \in BOOLEAN
    OBVIOUS
  <2>2. support' = [support EXCEPT !.view = v, !.loading = l, !.thread = th, !.draft = d]
    BY <1>v
  <2>3. l => v \in Tickets
    OBVIOUS
  <2> HIDE DEF l
  <2> QED BY <2>1, <2>2, <2>3 DEF SupportInv, SupportType
<1>s. support.thread \in {"none"} \cup Tickets /\ support.draft \in BOOLEAN
  BY <1>t DEF SupportType
<1>w. ASSUME NEW v \in Views, support' = SetView(support, v) PROVE SupportInv'
  <2>1. support' = [support EXCEPT !.view = v, !.loading = v \in Tickets, !.thread = support.thread,
                                   !.draft = support.draft]
    BY <1>w, <1>t DEF SetView, SupportType
  <2> QED BY <1>v, <1>s, <2>1
<1>3. CASE Compose
  <2>1. support' = SetView(support, "compose") /\ "compose" \in Views
    BY <1>3 DEF Compose, Views
  <2> QED BY <1>w, <2>1
<1>4. CASE GoBack
  <2>1. support' = [support EXCEPT !.view = "list", !.loading = "list" \in Tickets, !.thread = "none", !.draft = FALSE]
    BY <1>4 DEF GoBack, SetView
  <2>2. "list" \in Views
    BY DEF Views
  <2> QED BY <1>v, <2>1, <2>2
<1>5. ASSUME NEW t \in Tickets, PickTicket(t) PROVE SupportInv'
  <2>1. support' = SetView(support, t) /\ t \in Views
    BY <1>5 DEF PickTicket, Views
  <2> QED BY <1>w, <2>1
<1>6. ASSUME NEW op \in {"new", "reply", "status"}, NEW t \in Tickets, Send(op, t) PROVE SupportInv'
  <2> DEFINE c == [op |-> op, ticket |-> t, stage |-> "write"]
  <2>1. c \in SupportCall /\ c.op # "none" /\ c.ticket \in Tickets
    BY DEF SupportCall
  <2>2. support' = [support EXCEPT !.busy = TRUE, !.call = c]
    BY <1>6 DEF Send
  <2> HIDE DEF c
  <2> QED BY <2>1, <2>2 DEF SupportInv, SupportType
<1>7. ASSUME NEW t \in Tickets, handleSendNew(t) PROVE SupportInv'
  BY <1>6, <1>7 DEF handleSendNew
<1>8. CASE handleReply
  BY <1>6, <1>8 DEF handleReply, InThread
<1>9. CASE handleUpdateStatus
  BY <1>6, <1>9, <1>s DEF handleUpdateStatus
<1>10. CASE WriteAnswered
  <2> DEFINE c == [support.call EXCEPT !.stage = "read"]
             d == support.draft /\ support.call.op = "status"
  <2>1. support.busy /\ support.call.op # "none" /\ support.call.ticket \in Tickets /\ support.call \in SupportCall
    BY <1>10 DEF WriteAnswered, SupportInv, SupportType
  <2>2. c \in SupportCall /\ c.op = support.call.op /\ c.ticket = support.call.ticket
    BY <2>1 DEF SupportCall
  <2>3. d \in BOOLEAN
    BY <1>s
  <2>4. support' = [support EXCEPT !.call = c, !.stored = @ \cup {support.call.ticket}, !.draft = d]
    BY <1>10 DEF WriteAnswered
  <2> HIDE DEF c, d
  <2> QED BY <2>1, <2>2, <2>3, <2>4 DEF SupportInv, SupportType
<1>11. CASE ReadAnswered
  <2> DEFINE done == [support EXCEPT !.busy = FALSE]
             tk == support.call.ticket
  <2>1. /\ support.busy /\ support.call.op \in {"new", "reply", "status"} /\ tk \in Tickets
    BY <1>11 DEF ReadAnswered, SupportInv, SupportType, SupportCall
  <2>2. support' = CASE support.call.op = "new" -> SetView([done EXCEPT !.tickets = support.stored], tk)
                     [] support.call.op = "reply" -> [done EXCEPT !.thread = tk]
                     [] support.call.op = "status" -> [done EXCEPT !.thread = tk, !.tickets = support.stored]
    BY <1>11 DEF ReadAnswered
  <2>3. CASE support.call.op = "new"
    <3>1. support' = [support EXCEPT !.busy = FALSE, !.tickets = support.stored, !.view = tk, !.loading = TRUE]
      BY <2>1, <2>2, <2>3, <1>t DEF SetView, SupportType
    <3>2. tk \in Views
      BY <2>1 DEF Views
    <3> HIDE DEF tk
    <3> QED BY <2>1, <3>1, <3>2 DEF SupportInv, SupportType
  <2>4. CASE support.call.op = "reply"
    <3>1. support' = [support EXCEPT !.busy = FALSE, !.thread = tk]
      BY <2>2, <2>4
    <3> HIDE DEF tk
    <3> QED BY <2>1, <3>1 DEF SupportInv, SupportType
  <2>5. CASE support.call.op = "status"
    <3>1. support' = [support EXCEPT !.busy = FALSE, !.thread = tk, !.tickets = support.stored]
      BY <2>2, <2>5
    <3> HIDE DEF tk
    <3> QED BY <2>1, <3>1 DEF SupportInv, SupportType
  <2> QED BY <2>1, <2>3, <2>4, <2>5
<1> QED BY <1>1, <1>2, <1>3, <1>4, <1>5, <1>7, <1>8, <1>9, <1>10, <1>11 DEF SupportStep

LEMMA ShareKept == ASSUME ShareInv, ShareStep PROVE ShareInv'
<1> USE DEF ShareInv, ShownExpiryIsTheLinks
<1>1. CASE handleExport \/ ExportEnds \/ ToggleExportMenu
  BY <1>1 DEF handleExport, ExportEnds, ToggleExportMenu
<1>2. CASE OpenShare \/ CloseShare
  BY <1>2 DEF OpenShare, CloseShare
<1>3. ASSUME NEW x \in Expiries, setShareExpiry(x) PROVE ShareInv'
  BY <1>3 DEF setShareExpiry
<1>4. CASE handleGenerateLink
  BY <1>4 DEF handleGenerateLink
<1>5. CASE LinkMade
  BY <1>5 DEF LinkMade
<1> QED BY <1>1, <1>2, <1>3, <1>4, <1>5 DEF ShareStep

(* A set of numbers that is not empty has a least one. *)
LEMMA LeastNumber ==
    ASSUME NEW S, S \subseteq Nat, S # {}
    PROVE  \E x \in S : \A y \in S : x <= y
<1> DEFINE R == {ss \in Nat \X Nat : ss[1] < ss[2]}
<1>1. R = OpToRel(<, Nat)
  BY DEF OpToRel
<1>2. IsWellFoundedOn(OpToRel(<, Nat), Nat)
  BY NatLessThanWellFounded
<1>3. IsWellFoundedOn(R, Nat)
  BY <1>1, <1>2, Zenon
<1> HIDE DEF R
<1>4. \E x \in S : \A y \in S : ~(<<y, x>> \in R)
  BY <1>3, WFMin
<1>5. PICK x \in S : \A y \in S : ~(<<y, x>> \in R)
  BY <1>4, Zenon
<1>6. \A a, b \in Nat : b < a => <<b, a>> \in R
  BY DEF R
<1>7. \A y \in S : y \in Nat /\ x \in Nat /\ ~(y < x)
  BY <1>5, <1>6, Zenon
<1>8. \A y \in S : x <= y
  BY <1>7
<1> QED BY <1>8

LEMMA LabelKept == ASSUME LabelInv, LabelStep PROVE LabelInv'
<1>t. label \in LabelType /\ Judged(label.sending) /\ Judged(label.last)
  BY DEF LabelInv
<1>c. ASSUME NEW by \in label.claims
      PROVE  /\ ClaimEnds(by) \in LabelType /\ ClaimEnds(by).open = label.open
             /\ ClaimEnds(by).sending = label.sending /\ ClaimEnds(by).last = label.last
  <2> DEFINE s == label.saving /\ by = "start"
  <2>1. s \in BOOLEAN /\ ClaimEnds(by) = [label EXCEPT !.claims = @ \ {by}, !.saving = s]
    BY <1>t DEF ClaimEnds, LabelType
  <2> HIDE DEF s
  <2> QED BY <1>t, <2>1 DEF LabelType
<1>1. CASE StartLabeling
  <2>1. label' = [label EXCEPT !.verdict = FALSE, !.claims = @ \cup {"start"}]
    BY <1>1 DEF StartLabeling, claimNext, resetForm2
  <2> QED BY <1>t, <2>1 DEF LabelInv, LabelType
<1>2. CASE ClaimAnswered
  <2>1. PICK by \in label.claims :
          label' = IF label.open = {} THEN [ClaimEnds(by) EXCEPT !.job = 0, !.empty = TRUE]
                   ELSE LET j == CHOOSE x \in label.open : \A y \in label.open : x <= y
                        IN  [ClaimEnds(by) EXCEPT !.job = j, !.empty = FALSE, !.open = @ \ {j}]
    BY <1>2 DEF ClaimAnswered
  <2> DEFINE e == ClaimEnds(by)
             j == CHOOSE x \in label.open : \A y \in label.open : x <= y
  <2>2. e \in LabelType /\ e.sending = label.sending /\ e.last = label.last
    BY <1>c
  <2>3. CASE label.open = {}
    <3>1. label' = [e EXCEPT !.job = 0, !.empty = TRUE]
      BY <2>1, <2>3
    <3> HIDE DEF e
    <3> QED BY <1>t, <2>2, <3>1 DEF LabelInv, LabelType
  <2>4. CASE label.open # {}
    <3>1. label.open \subseteq Nat
      BY <1>t, PortalAssumption DEF LabelType
    <3>2. j \in label.open
      <4>1. \E x \in label.open : \A y \in label.open : x <= y
        BY <2>4, <3>1, LeastNumber
      <4> QED BY <4>1, Zenon
    <3>3. j \in Jobs
      BY <1>t, <3>2 DEF LabelType
    <3>4. label' = [e EXCEPT !.job = j, !.empty = FALSE, !.open = @ \ {j}]
      BY <2>1, <2>4
    <3> HIDE DEF e, j
    <3> QED BY <1>t, <2>2, <3>3, <3>4 DEF LabelInv, LabelType
  <2> QED BY <2>3, <2>4
<1>3. CASE ClaimFails
  <2>1. PICK by \in label.claims : label' = ClaimEnds(by)
    BY <1>3 DEF ClaimFails
  <2> QED BY <1>t, <1>c, <2>1 DEF LabelInv
<1>4. CASE PressVerdict
  <2>1. label' = [label EXCEPT !.verdict = TRUE]
    BY <1>4 DEF PressVerdict
  <2> QED BY <1>t, <2>1 DEF LabelInv, LabelType
<1>5. ASSUME NEW j \in Jobs, OpenFromQueue(j) PROVE LabelInv'
  <2>1. label' = [label EXCEPT !.verdict = FALSE, !.job = j]
    BY <1>5 DEF OpenFromQueue, resetForm2
  <2> QED BY <1>t, <2>1 DEF LabelInv, LabelType
<1>6. ASSUME NEW body \in LabelBody, body.skip \/ body.verdict, Submit(body) PROVE LabelInv'
  <2>1. label' = [label EXCEPT !.saving = TRUE, !.sending = @ \cup {body}]
    BY <1>6 DEF Submit
  <2>2. label' \in LabelType /\ label'.sending = label.sending \cup {body} /\ label'.last = label.last
    BY <1>t, <2>1 DEF LabelType
  <2> QED BY <1>t, <1>6, <2>2 DEF LabelInv, Judged
<1>7. CASE submitLabel
  <2> DEFINE body == [job |-> label.job, skip |-> FALSE, verdict |-> label.verdict]
  <2>1. body \in LabelBody /\ body.verdict /\ Submit(body)
    BY <1>7, <1>t DEF submitLabel, LabelBody, LabelType
  <2> HIDE DEF body
  <2> QED BY <1>6, <2>1
<1>8. CASE skipLabel
  <2> DEFINE body == [job |-> label.job, skip |-> TRUE, verdict |-> FALSE]
  <2>1. body \in LabelBody /\ body.skip /\ Submit(body)
    BY <1>8, <1>t DEF skipLabel, LabelBody, LabelType
  <2> HIDE DEF body
  <2> QED BY <1>6, <2>1
<1>9. CASE LabelStored
  <2>1. PICK l \in label.sending :
          label' = [label EXCEPT !.sending = @ \ {l}, !.last = {l}, !.verdict = FALSE, !.claims = @ \cup {"submit"}]
    BY <1>9, ZenonT(40) DEF LabelStored, claimNext, resetForm2
  <2>2. label' \in LabelType /\ label'.sending = label.sending \ {l} /\ label'.last = {l}
    BY <1>t, <2>1 DEF LabelType
  <2> QED BY <1>t, <2>2 DEF LabelInv, Judged
<1>10. CASE LabelRefused
  <2>1. PICK l \in label.sending : label' = [label EXCEPT !.sending = @ \ {l}, !.saving = FALSE]
    BY <1>10 DEF LabelRefused
  <2>2. label' \in LabelType /\ label'.sending = label.sending \ {l} /\ label'.last = label.last
    BY <1>t, <2>1 DEF LabelType
  <2> QED BY <1>t, <2>2 DEF LabelInv, Judged
<1> QED BY <1>1, <1>2, <1>3, <1>4, <1>5, <1>7, <1>8, <1>9, <1>10 DEF LabelStep

-----------------------------------------------------------------------------
(* The alert stream and the session keep theirs *)

LEMMA StreamKept == ASSUME StreamTypeOK, StreamStep PROVE StreamTypeOK'
<1> USE DEF StreamTypeOK, Status
<1>1. CASE Start
  BY <1>1 DEF Start, connect
<1>2. CASE TicketSettles
  BY <1>2 DEF TicketSettles
<1>3. CASE OpenThrows
  BY <1>3 DEF OpenThrows, scheduleReconnect
<1>4. CASE onopen
  <2>1. BaseDelay \in BaseDelay .. MaxDelay
    BY DelayAssumption
  <2> QED BY <1>4, <2>1 DEF onopen
<1>5. CASE onclose
  BY <1>5 DEF onclose, scheduleReconnect
<1>6. CASE TimerFires
  <2>1. Doubled \in BaseDelay .. MaxDelay
    BY DelayAssumption DEF Doubled
  <2> QED BY <1>6, <2>1 DEF TimerFires, connect
<1>7. CASE destroy
  BY <1>7 DEF destroy
<1> QED BY <1>1, <1>2, <1>3, <1>4, <1>5, <1>6, <1>7 DEF StreamStep

AppType ==
    [at : {"boot", "login", "home", "leaving", "signout"}, user : BOOLEAN, saved : BOOLEAN, loading : BOOLEAN,
     menu : BOOLEAN]
ReqType == [phase : {"none", "mint", "send", "remint", "resend"}, token : Tokens]

(* Leaving everything about the write alone leaves what is said of it alone. *)
LEMMA WritesUnmoved ==
    ASSUME SessionInv, UNCHANGED writeVars PROVE WritesAppliedOnce' /\ req' \in ReqType /\ UNCHANGED <<asked, applied>>
BY DEF SessionInv, SessionTypeOK, WritesAppliedOnce, writeVars, ReqType

(* The steps that move the browser and leave the write alone. *)
LEMMA AppKept ==
    ASSUME SessionInv,
           \/ MeReply \/ CsrfArrives \/ handleSubmit \/ LoginReply \/ ToggleMenu \/ logout \/ LogoutReply \/ SignOutLands
           \/ SessionExpires \/ \E t \in Tokens : CsrfRotates(t)
    PROVE  SessionInv'
<1>t. /\ jar \in [session : BOOLEAN, csrf : Tokens] /\ valid \in BOOLEAN /\ sso \in BOOLEAN /\ app \in AppType
      /\ req \in ReqType /\ asked \in 0..MaxWrites /\ applied \in 0..MaxWrites /\ rotations \in 0..MaxRotations
      /\ logoutLost \in BOOLEAN /\ SignedOutIsRevoked
  BY DEF SessionInv, SessionTypeOK, AppType, ReqType
<1>w. UNCHANGED writeVars
  BY DEF MeReply, CsrfArrives, handleSubmit, LoginReply, ToggleMenu, logout, LogoutReply, SignOutLands,
         SessionExpires, CsrfRotates
<1>x. WritesAppliedOnce' /\ req' \in ReqType /\ UNCHANGED <<asked, applied>>
  BY <1>w, WritesUnmoved
<1>i. ASSUME jar' \in [session : BOOLEAN, csrf : Tokens], valid' \in BOOLEAN, sso' \in BOOLEAN, app' \in AppType,
             rotations' \in 0..MaxRotations, logoutLost' \in BOOLEAN, SignedOutIsRevoked'
      PROVE  SessionInv'
  BY <1>i, <1>t, <1>x DEF SessionInv, SessionTypeOK, AppType, ReqType
<1>1. CASE MeReply
  <2>1. app' \in AppType /\ app'.at # "signout" /\ UNCHANGED <<jar, valid, sso, rotations, logoutLost>>
    BY <1>t, <1>1 DEF MeReply, AppType
  <2> QED BY <1>t, <1>i, <2>1 DEF SignedOutIsRevoked
<1>2. CASE CsrfArrives
  <2>1. Minted \in Tokens
    BY <1>t DEF Minted, Tokens
  <2>2. jar' = [jar EXCEPT !.csrf = Minted] /\ UNCHANGED <<valid, sso, app, rotations, logoutLost>>
    BY <1>2 DEF CsrfArrives
  <2>3. jar' \in [session : BOOLEAN, csrf : Tokens] /\ jar'.session = jar.session
    BY <1>t, <2>1, <2>2
  <2> QED BY <1>t, <1>i, <2>2, <2>3 DEF SignedOutIsRevoked
<1>3. CASE handleSubmit
  <2>1. app' \in AppType /\ app'.at # "signout" /\ UNCHANGED <<jar, valid, sso, rotations, logoutLost>>
    BY <1>t, <1>3 DEF handleSubmit, AppType
  <2> QED BY <1>t, <1>i, <2>1 DEF SignedOutIsRevoked
<1>4. CASE LoginReply
  <2>1. CASE jar' = [session |-> TRUE, csrf |-> 1] /\ valid' = TRUE
             /\ app' = [app EXCEPT !.at = "home", !.user = TRUE, !.saved = TRUE, !.loading = FALSE]
    <3>1. app' \in AppType /\ app'.at = "home"
      BY <1>t, <2>1 DEF AppType
    <3>3. 1 \in Tokens
      BY DEF Tokens
    <3>4. jar' \in [session : BOOLEAN, csrf : Tokens]
      BY <2>1, <3>3
    <3>2. UNCHANGED <<sso, rotations, logoutLost>>
      BY <1>4 DEF LoginReply
    <3> QED BY <1>t, <1>i, <2>1, <3>1, <3>2, <3>4 DEF SignedOutIsRevoked
  <2>2. CASE app' = [app EXCEPT !.loading = FALSE] /\ UNCHANGED <<jar, valid>>
    <3>1. app' \in AppType /\ app'.at = app.at
      BY <1>t, <2>2 DEF AppType
    <3>2. UNCHANGED <<sso, rotations, logoutLost>>
      BY <1>4 DEF LoginReply
    <3> QED BY <1>t, <1>i, <2>2, <3>1, <3>2 DEF SignedOutIsRevoked
  <2> QED BY <1>4, <2>1, <2>2 DEF LoginReply
<1>5. CASE ToggleMenu
  <2>1. app' \in AppType /\ app'.at = "home" /\ UNCHANGED <<jar, valid, sso, rotations, logoutLost>>
    BY <1>t, <1>5 DEF ToggleMenu, AppType
  <2> QED BY <1>t, <1>i, <2>1 DEF SignedOutIsRevoked
<1>6. CASE logout
  <2>1. app' \in AppType /\ app'.at = "leaving" /\ UNCHANGED <<jar, valid, sso, rotations, logoutLost>>
    BY <1>t, <1>6 DEF logout, AppType
  <2> QED BY <1>t, <1>i, <2>1 DEF SignedOutIsRevoked
<1>7. CASE LogoutReply
  <2>1. app' \in AppType
    BY <1>t, <1>7 DEF LogoutReply, SignedOut, AppType
  <2>2. CASE jar' = [session |-> FALSE, csrf |-> 0] /\ valid' = FALSE /\ UNCHANGED logoutLost
    <3>1. jar' \in [session : BOOLEAN, csrf : Tokens] /\ ~valid'
      BY <2>2 DEF Tokens
    <3>2. UNCHANGED <<sso, rotations>>
      BY <1>7 DEF LogoutReply
    <3> QED BY <1>t, <1>i, <2>1, <2>2, <3>1, <3>2 DEF SignedOutIsRevoked
  <2>3. CASE logoutLost' = TRUE /\ UNCHANGED <<jar, valid>>
    <3>1. UNCHANGED <<sso, rotations>>
      BY <1>7 DEF LogoutReply
    <3> QED BY <1>t, <1>i, <2>1, <2>3, <3>1 DEF SignedOutIsRevoked
  <2> QED BY <1>7, <2>2, <2>3 DEF LogoutReply
<1>8. CASE SignOutLands
  <2>1. app' \in AppType /\ app'.at = "boot" /\ sso' = FALSE /\ logoutLost' = FALSE /\ UNCHANGED <<jar, valid, rotations>>
    BY <1>t, <1>8 DEF SignOutLands, Rebooted, AppType
  <2> QED BY <1>t, <1>i, <2>1 DEF SignedOutIsRevoked
<1>9. CASE SessionExpires
  <2>1. valid' = FALSE /\ UNCHANGED <<jar, sso, app, rotations, logoutLost>>
    BY <1>9 DEF SessionExpires
  <2> QED BY <1>t, <1>i, <2>1 DEF SignedOutIsRevoked
<1>10. ASSUME NEW t \in Tokens, CsrfRotates(t) PROVE SessionInv'
  <2>1. jar' \in [session : BOOLEAN, csrf : Tokens] /\ jar'.session = jar.session
    BY <1>t, <1>10 DEF CsrfRotates
  <2>2. rotations' \in 0..MaxRotations
    BY <1>t, <1>10, SessionAssumption DEF CsrfRotates
  <2>3. UNCHANGED <<valid, sso, app, logoutLost>>
    BY <1>10 DEF CsrfRotates
  <2> QED BY <1>t, <1>i, <2>1, <2>2, <2>3 DEF SignedOutIsRevoked
<1> QED BY <1>1, <1>2, <1>3, <1>4, <1>5, <1>6, <1>7, <1>8, <1>9, <1>10

(* The steps of a write.  One that is under way has been asked for and not yet   *)
(* been made, so there is room for it in both counters.                          *)
LEMMA WriteKept == ASSUME SessionInv, authFetch \/ RequestStep PROVE SessionInv'
<1>t. /\ jar \in [session : BOOLEAN, csrf : Tokens] /\ valid \in BOOLEAN /\ sso \in BOOLEAN /\ app \in AppType
      /\ req \in ReqType /\ asked \in 0..MaxWrites /\ applied \in 0..MaxWrites /\ rotations \in 0..MaxRotations
      /\ logoutLost \in BOOLEAN /\ SignedOutIsRevoked /\ WritesAppliedOnce
  BY DEF SessionInv, SessionTypeOK, AppType, ReqType
<1>u. applied \in Nat /\ asked \in Nat /\ applied <= asked /\ (req # Idle => applied + 1 <= asked)
  BY <1>t DEF WritesAppliedOnce
<1>d. Idle \in ReqType
  BY DEF Idle, ReqType, Tokens
<1>s. req.phase # "none" => req # Idle
  BY DEF Idle
<1>i. ASSUME jar' \in [session : BOOLEAN, csrf : Tokens], app' \in AppType, req' \in ReqType,
             asked' \in 0..MaxWrites, applied' \in 0..MaxWrites, SignedOutIsRevoked', WritesAppliedOnce',
             UNCHANGED <<valid, sso, rotations, logoutLost>>
      PROVE  SessionInv'
  BY <1>i, <1>t DEF SessionInv, SessionTypeOK, AppType, ReqType
<1>1. CASE authFetch
  <2> DEFINE p == IF jar.csrf = 0 THEN "mint" ELSE "send"
  <2>1. p \in {"none", "mint", "send", "remint", "resend"} /\ jar.csrf \in Tokens
    BY <1>t
  <2>2. req' = [phase |-> p, token |-> jar.csrf]
    BY <1>1 DEF authFetch
  <2> HIDE DEF p
  <2>3. req' \in ReqType
    BY <2>1, <2>2 DEF ReqType
  <2>4. asked' = asked + 1 /\ asked < MaxWrites /\ req = Idle
        /\ UNCHANGED <<jar, valid, sso, app, applied, rotations, logoutLost>>
    BY <1>1 DEF authFetch
  <2>5. asked' \in 0..MaxWrites /\ applied' + 1 <= asked' /\ applied' <= asked'
    BY <1>u, <2>4, SessionAssumption
  <2>6. WritesAppliedOnce'
    BY <1>u, <2>4, <2>5 DEF WritesAppliedOnce
  <2>7. SignedOutIsRevoked'
    BY <1>t, <2>4 DEF SignedOutIsRevoked
  <2> QED BY <1>t, <1>i, <2>3, <2>4, <2>5, <2>6, <2>7
<1>2. CASE bootstrapCSRFToken
  <2>1. PICK fresh \in {0, Minted} :
          /\ jar' = [jar EXCEPT !.csrf = IF fresh = 0 THEN @ ELSE fresh]
          /\ req' = IF req.phase = "mint" THEN [phase |-> "send", token |-> fresh]
                    ELSE IF fresh # 0 /\ fresh # req.token THEN [phase |-> "resend", token |-> fresh]
                    ELSE Idle
    BY <1>2 DEF bootstrapCSRFToken
  <2>2. fresh \in Tokens
    BY <1>t DEF Minted, Tokens
  <2>3. jar' \in [session : BOOLEAN, csrf : Tokens] /\ jar'.session = jar.session
    BY <1>t, <2>1, <2>2
  <2>4. req' \in ReqType
    BY <1>d, <2>1, <2>2 DEF ReqType
  <2>5. req # Idle /\ UNCHANGED <<valid, sso, app, asked, applied, rotations, logoutLost>>
    BY <1>2, <1>s DEF bootstrapCSRFToken
  <2>6. WritesAppliedOnce'
    BY <1>u, <2>5 DEF WritesAppliedOnce
  <2>7. SignedOutIsRevoked'
    BY <1>t, <2>3, <2>5 DEF SignedOutIsRevoked
  <2> QED BY <1>t, <1>i, <2>3, <2>4, <2>5, <2>6, <2>7
<1>3. CASE Unauthorized
  <2>1. req' = Idle /\ UNCHANGED <<jar, valid, sso, asked, applied, rotations, logoutLost>>
    BY <1>3 DEF Unauthorized, Done
  <2>2. app' \in AppType /\ app'.at = "boot"
    BY <1>3, <1>t DEF Unauthorized, Rebooted, AppType
  <2>3. WritesAppliedOnce' /\ SignedOutIsRevoked'
    BY <1>u, <2>1, <2>2 DEF WritesAppliedOnce, SignedOutIsRevoked
  <2> QED BY <1>t, <1>i, <1>d, <2>1, <2>2, <2>3
<1>4. CASE Refused
  <2>1. req' \in ReqType /\ req # Idle /\ UNCHANGED <<jar, valid, sso, app, asked, applied, rotations, logoutLost>>
    BY <1>4, <1>t, <1>d, <1>s DEF Refused, Sending, ReqType
  <2>2. WritesAppliedOnce' /\ SignedOutIsRevoked'
    BY <1>t, <1>u, <2>1 DEF WritesAppliedOnce, SignedOutIsRevoked
  <2> QED BY <1>t, <1>i, <2>1, <2>2
<1>5. CASE Accepted \/ AnswerLost
  <2>1. req # Idle /\ req' = Idle /\ applied' = applied + 1
        /\ UNCHANGED <<jar, valid, sso, app, asked, rotations, logoutLost>>
    BY <1>5, <1>s DEF Accepted, AnswerLost, Sending, Done
  <2>2. applied' \in 0..MaxWrites /\ applied' <= asked' /\ applied' \in Nat
    BY <1>t, <1>u, <2>1, SessionAssumption
  <2>3. WritesAppliedOnce' /\ SignedOutIsRevoked'
    BY <1>t, <2>1, <2>2 DEF WritesAppliedOnce, SignedOutIsRevoked
  <2> QED BY <1>t, <1>i, <1>d, <2>1, <2>2, <2>3
<1> QED BY <1>1, <1>2, <1>3, <1>4, <1>5 DEF RequestStep

LEMMA SessionKept == ASSUME SessionInv, SessionStep PROVE SessionInv'
BY AppKept, WriteKept DEF SessionStep

-----------------------------------------------------------------------------
(* The parts of the administration page together *)

(* A step of one part leaves the variables of the others alone. *)
LEMMA AdminApart ==
    /\ (TabStep => CamsOnly)
    /\ (FirmStep => FirmOnly)
    /\ (OperatorStep => OpsOnly)
    /\ (TableStep => TableOnly)
    /\ (FormStep => FormOnly)
    /\ (RowsStep => RowsOnly)
    /\ (ProfileStep => ProfileOnly)
<1>1. TabStep => CamsOnly
  BY Zenon DEF TabStep, handleTabChange, refreshCameras
<1>2. FirmStep => FirmOnly
  BY Zenon DEF FirmStep, ShowCreateCompany, handleCreateCompany, CompanyCreated, CardEdits, handleSaveCompany,
                 handleDeleteCompany, useApiAction
<1>3. OperatorStep => OpsOnly
  BY Zenon DEF OperatorStep, OperatorsArrive, ShowCreateOperator, handleCreateOperator, OperatorCreated
<1>4. TableStep => TableOnly
  BY Zenon DEF TableStep, filteredSites, PageNext, PagePrevious, ViewMode, onRefresh, LeaveSites
<1>5. FormStep => FormOnly
  BY Zenon DEF FormStep, ShowCreateUser, TypeText, TickAdmin, PickCompany, handleCreateUser, FormReply,
                 PickType, PickRole, UserCreated, CreateUserFails, ListReturns
<1>6. RowsStep => RowsOnly
  BY Zenon DEF RowsStep, OpenUsers, loadPlatformUsers, RowReply, handleDeleteUser, handleRoleChange
<1>7. ProfileStep => ProfileOnly
  BY Zenon DEF ProfileStep, handleSaveProfile, ProfileSaved, handleChangePassword, PasswordChanged,
                 openEditProfile, OpenPassword
<1> QED BY <1>1, <1>2, <1>3, <1>4, <1>5, <1>6, <1>7

LEMMA AdminUnmoved ==
    /\ (CamsInv /\ UNCHANGED cams => CamsInv')
    /\ (FirmInv /\ UNCHANGED firm => FirmInv')
    /\ (TableInv /\ UNCHANGED table => TableInv')
    /\ (FormInv /\ UNCHANGED form => FormInv')
    /\ (RowsInv /\ UNCHANGED rows => RowsInv')
    /\ (ProfileInv /\ UNCHANGED profile => ProfileInv')
<1>1. CamsInv /\ UNCHANGED cams => CamsInv'
  BY DEF CamsInv
<1>2. FirmInv /\ UNCHANGED firm => FirmInv'
  BY DEF FirmInv
<1>3. TableInv /\ UNCHANGED table => TableInv'
  BY DEF TableInv
<1>4. FormInv /\ UNCHANGED form => FormInv'
  BY DEF FormInv, CustomersOnly
<1>5. RowsInv /\ UNCHANGED rows => RowsInv'
  BY DEF RowsInv
<1>6. ProfileInv /\ UNCHANGED profile => ProfileInv'
  BY DEF ProfileInv
<1> QED BY <1>1, <1>2, <1>3, <1>4, <1>5, <1>6

LEMMA AdminKept == ASSUME AdminInv, NEW p, AdminStep(p) PROVE AdminInv'
<1> USE AdminUnmoved DEF AdminInv
<1>1. CASE TabStep
  BY <1>1, CamsKept, AdminApart DEF CamsOnly
<1>2. CASE FirmStep
  BY <1>2, FirmKept, AdminApart DEF FirmOnly
<1>3. CASE OperatorStep
  BY <1>3, AdminApart DEF OpsOnly
<1>4. CASE TableStep
  BY <1>4, TableKept, AdminApart DEF TableOnly
<1>5. CASE FormStep
  BY <1>5, FormKept, AdminApart DEF FormOnly
<1>6. CASE RowsStep
  BY <1>6, RowsKept, AdminApart DEF RowsOnly
<1>7. CASE ProfileStep
  BY <1>7, ProfileKept, AdminApart DEF ProfileOnly
<1> QED BY <1>1, <1>2, <1>3, <1>4, <1>5, <1>6, <1>7 DEF AdminStep

-----------------------------------------------------------------------------
(* The parts of the site manager together *)

(* A step of one part leaves the variables of the others alone. *)
LEMMA SiteApart ==
    /\ (DetailsStep => DetailsOnly)
    /\ (CameraStep => CamOnly)
    /\ (SpeakerStep => SpkOnly)
    /\ (SopStep => SopOnly)
    /\ (AccessStep => AccessOnly)
    /\ (DangerStep => DangerOnly)
    /\ (PolicyStep => PolicyOnly)
    /\ (ScheduleStep => ScheduleOnly)
    /\ (RulesStep => RulesOnly)
    /\ (SiteMapStep => MapModalOnly)
    /\ (AuditStep => AuditOnly)
<1>1. DetailsStep => DetailsOnly
  BY Zenon DEF DetailsStep, SiteArrives, TypeCity, TypeStreet, TypeName, handleSubmit1, SiteSaved
<1>2. CameraStep => CamOnly
  BY Zenon DEF CameraStep, MasterList, handleAssign, handleUnassign, handleMove, CameraReply,
                 handleTestCamera, CameraTested, ConfigureZones
<1>3. SpeakerStep => SpkOnly
  BY Zenon DEF SpeakerStep, SpeakerList, SpeakerButton, SpeakerReply
<1>4. SopStep => SopOnly
  BY Zenon DEF SopStep, SopsArrive, AddForm, handleAddSOP, ToggleExpand, startEdit, CancelEdit,
                 handleSaveEdit, handleDeleteSOP, SopReply
<1>5. AccessStep => AccessOnly
  BY Zenon DEF AccessStep, UsersArrive, handleToggle, ToggleReply
<1>6. DangerStep => DangerOnly
  BY Zenon DEF DangerStep, handleArchive, Archived, ArchiveCloses, TypeDelete, handleDelete, Deleted,
                 CloseManager, OpenManager
<1>7. PolicyStep => PolicyOnly
  BY Zenon DEF PolicyStep, OpenPolicy, PolicyArrives, EditPolicy, save, PolicySaved, updateWindow, applyPreset
<1>8. ScheduleStep => ScheduleOnly
  BY Zenon DEF ScheduleStep, ScheduleArrives, EditSchedule, handleSave, ScheduleSaved
<1>9. RulesStep => RulesOnly
  BY Zenon DEF RulesStep, RulesArrive, ShowRuleForm, FillRule, resetForm, handleCreate, RuleCreated,
                 DeleteRule
<1>10. SiteMapStep => MapModalOnly
  BY Zenon DEF SiteMapStep, MapArrives, handleMapClick, handleMapMouseUp, updateMarker, MarkersStored,
                 MarkersRefused, MarkersSaved, handleFloorPlanUpload, FloorPlanStored, startPlacing,
                 handleMarkerMouseDown, removeMarker
<1>11. AuditStep => AuditOnly
  BY Zenon DEF AuditStep, AuditArrives, SetRange, exportCSV
<1> QED BY <1>1, <1>2, <1>3, <1>4, <1>5, <1>6, <1>7, <1>8, <1>9, <1>10, <1>11

LEMMA SiteUnmoved ==
    /\ (DetailsInv /\ UNCHANGED details => DetailsInv')
    /\ (CamInv /\ UNCHANGED cam => CamInv')
    /\ (SpkInv /\ UNCHANGED spk => SpkInv')
    /\ (SopInv /\ UNCHANGED sop => SopInv')
    /\ (AccessInv /\ UNCHANGED access => AccessInv')
    /\ (PolicyInv /\ UNCHANGED policy => PolicyInv')
    /\ (ScheduleInv /\ UNCHANGED schedule => ScheduleInv')
    /\ (SitemapInv /\ UNCHANGED sitemap => SitemapInv')
    /\ (AuditInv /\ UNCHANGED audit => AuditInv')
<1>1. DetailsInv /\ UNCHANGED details => DetailsInv'
  BY DEF DetailsInv
<1>2. CamInv /\ UNCHANGED cam => CamInv'
  BY DEF CamInv
<1>3. SpkInv /\ UNCHANGED spk => SpkInv'
  BY DEF SpkInv
<1>4. SopInv /\ UNCHANGED sop => SopInv'
  BY DEF SopInv
<1>5. AccessInv /\ UNCHANGED access => AccessInv'
  BY DEF AccessInv
<1>6. PolicyInv /\ UNCHANGED policy => PolicyInv'
  BY DEF PolicyInv, EmptyIsEmpty, ShownWindowsAreStored
<1>7. ScheduleInv /\ UNCHANGED schedule => ScheduleInv'
  BY DEF ScheduleInv
<1>8. SitemapInv /\ UNCHANGED sitemap => SitemapInv'
  BY DEF SitemapInv
<1>9. AuditInv /\ UNCHANGED audit => AuditInv'
  BY DEF AuditInv, ExportIsWhole
<1> QED BY <1>1, <1>2, <1>3, <1>4, <1>5, <1>6, <1>7, <1>8, <1>9

LEMMA SiteKept == ASSUME SiteInv, NEW p, SiteStep(p) PROVE SiteInv'
<1> USE SiteUnmoved DEF SiteInv
<1>1. CASE DetailsStep
  BY <1>1, DetailsKept, SiteApart DEF DetailsOnly
<1>2. CASE CameraStep
  BY <1>2, CameraKept, SiteApart DEF CamOnly
<1>3. CASE SpeakerStep
  BY <1>3, SpeakerKept, SiteApart DEF SpkOnly
<1>4. CASE SopStep
  BY <1>4, SopKept, SiteApart DEF SopOnly
<1>5. CASE AccessStep
  BY <1>5, AccessKept, SiteApart DEF AccessOnly
<1>6. CASE DangerStep
  BY <1>6, SiteApart DEF DangerOnly
<1>7. CASE PolicyStep
  BY <1>7, PolicyKept, SiteApart DEF PolicyOnly
<1>8. CASE ScheduleStep
  BY <1>8, ScheduleKept, SiteApart DEF ScheduleOnly
<1>9. CASE RulesStep
  BY <1>9, SiteApart DEF RulesOnly
<1>10. CASE SiteMapStep
  BY <1>10, SitemapKept, SiteApart DEF MapModalOnly
<1>11. CASE AuditStep
  BY <1>11, AuditKept, SiteApart DEF AuditOnly
<1> QED BY <1>1, <1>2, <1>3, <1>4, <1>5, <1>6, <1>7, <1>8, <1>9, <1>10, <1>11 DEF SiteStep

-----------------------------------------------------------------------------
(* The parts of the settings page together *)

(* A step of one part leaves the variables of the others alone. *)
LEMMA SettingsApart ==
    /\ (DraftStep => DraftOnly)
    /\ (StoreStep => StoreOnly)
    /\ (PickerStep => PickerOnly)
    /\ (SoundStep => SoundOnly)
    /\ (EvlogStep => EvlogOnly)
    /\ (TrailStep => TrailOnly)
<1>1. DraftStep => DraftOnly
  BY Zenon DEF DraftStep, SettingsArrive, patchDraft, handleSaveSettings, SettingsSaved
<1>2. StoreStep => StoreOnly
  BY Zenon DEF StoreStep, OpenStorage, LocationsArrive, AddLocation, EditLocation, CancelLocation,
                 handleAddLocation, handleUpdateLocation, handleDeleteLocation, LocationReply
<1>3. PickerStep => PickerOnly
  <2>1. FormsBehind => StoreOnly
    BY Zenon DEF FormsBehind, AddLocation, EditLocation, CancelLocation
  <2>2. StoreOnly => PickerOnly
    BY DEF StoreOnly, PickerOnly
  <2> QED BY <2>1, <2>2, Zenon
          DEF PickerStep, openFolderPicker, navigatePicker, FoldersArrive, ClosePicker, selectPickerPath
<1>4. SoundStep => SoundOnly
  BY Zenon DEF SoundStep, OpenSpeakers, LeaveSpeakers, ListsArrive, handleAddSpeaker, SpeakerAdded,
                 handleUploadMsg, MessageUploaded, RemoveSpeaker, RemoveMessage
<1>5. EvlogStep => EvlogOnly
  BY Zenon DEF EvlogStep, SetEventFilter, AutoRefresh, ToggleAuto, PressRefresh, EventsArrive, EventsFail
<1>6. TrailStep => TrailOnly
  BY Zenon DEF TrailStep, SearchAudit, AuditPageArrives, AuditNext, AuditPrevious
<1> QED BY <1>1, <1>2, <1>3, <1>4, <1>5, <1>6

LEMMA SettingsUnmoved ==
    /\ (DraftInv /\ UNCHANGED draft => DraftInv')
    /\ (StoreInv /\ UNCHANGED store => StoreInv')
    /\ (PickerInv /\ UNCHANGED picker => PickerInv')
    /\ (EvlogInv /\ UNCHANGED evlog => EvlogInv')
    /\ (TrailInv /\ UNCHANGED trail => TrailInv')
<1>1. DraftInv /\ UNCHANGED draft => DraftInv'
  BY DEF DraftInv
<1>2. StoreInv /\ UNCHANGED store => StoreInv'
  BY DEF StoreInv
<1>3. PickerInv /\ UNCHANGED picker => PickerInv'
  BY DEF PickerInv
<1>4. EvlogInv /\ UNCHANGED evlog => EvlogInv'
  BY DEF EvlogInv
<1>5. TrailInv /\ UNCHANGED trail => TrailInv'
  BY DEF TrailInv
<1> QED BY <1>1, <1>2, <1>3, <1>4, <1>5

LEMMA SettingsKept ==
    ASSUME SettingsInv, part \in SettingsParts, SettingsStep(part), UNCHANGED part
    PROVE  SettingsInv'
<1> USE SettingsUnmoved
<1>i. DraftInv /\ StoreInv /\ PickerInv /\ EvlogInv /\ TrailInv
  BY DEF SettingsInv
<1>1. CASE part = "settings" /\ DraftStep
  BY <1>i, <1>1, DraftKept, SettingsApart DEF DraftOnly, SettingsInv
<1>2. CASE part = "storage" /\ StoreStep
  BY <1>i, <1>2, StoreKept, SettingsApart DEF StoreOnly, SettingsInv
<1>3. CASE part = "picker" /\ PickerStep
  BY <1>i, <1>3, PickerKept, SettingsApart DEF PickerOnly, SettingsInv
<1>4. CASE part = "speakers" /\ SoundStep
  BY <1>i, <1>4, SettingsApart DEF SoundOnly, SettingsInv
<1>5. CASE part = "eventlog" /\ EvlogStep
  BY <1>i, <1>5, EvlogKept, SettingsApart DEF EvlogOnly, SettingsInv
<1>6. CASE part = "auditlog" /\ TrailStep
  BY <1>i, <1>6, TrailKept, SettingsApart DEF TrailOnly, SettingsInv
<1> QED BY <1>1, <1>2, <1>3, <1>4, <1>5, <1>6 DEF SettingsStep

-----------------------------------------------------------------------------
(* The parts of the camera manager together *)

(* A step of one part leaves the variables of the others alone. *)
LEMMA CamApart ==
    /\ (RosterStep => RosterOnly)
    /\ (DialogStep => DialogOnly)
    /\ (NewcamStep => NewcamOnly)
    /\ (ScanStep => ScanOnly)
    /\ (PanelStep => PanelOnly)
    /\ (ZoneStep => ZoneOnly)
    /\ (StillStep => StillOnly)
<1>1. RosterStep => RosterOnly
  BY Zenon DEF RosterStep, CamerasArrive, toggleSelectAll, AskBulkDelete, ClearSelection, handleBulkDelete,
                 BulkDeleteNext, BulkDeleteEnds, CancelDelete, handleDeleteCamera, CameraDeleted,
                 toggleSelect, AskDelete
<1>2. DialogStep => DialogOnly
  BY Zenon DEF DialogStep, onBlur, FlipSwitch, UpdateDone, CloseDialog, handleSaveAndClose, DialogSaved,
                 RebootDevice, RebootAnswered, EditCamera, TypeField
<1>3. NewcamStep => NewcamOnly
  BY Zenon DEF NewcamStep, OpenAdd, CloseAdd, CancelAdd, FillAdd, handleAdd, CameraAdded, WebhookDone
<1>4. ScanStep => ScanOnly
  BY Zenon DEF ScanStep, handleDiscover, ScanEnds, ScanFails, CloseDiscovery, toggleAllDevices, PreviewEnds,
                 handleBulkAdd, BulkAddEnds, toggleDeviceSelection, handleLoadPreview
<1>5. PanelStep => PanelOnly
  BY Zenon DEF PanelStep, PanelRead, EditPanel, PressReload, savePanel, PanelSaved, MessageExpires,
                 rebootPanel, handleGoto, ChoosePanel, reload
<1>6. ZoneStep => ZoneOnly
  BY Zenon DEF ZoneStep, CancelDrawing, UndoPoint, ClickCanvas, CloseShape, SaveZone, ZoneSaved, onMouseDown,
                 onMouseUp, handleDeleteRule, ChooseType, ClickZone
<1>7. StillStep => StillOnly
  BY Zenon DEF StillStep, loadSnapshot, OnvifAnswers, PlaylistAnswers, FrameArrives, FrameTimeout
<1> QED BY <1>1, <1>2, <1>3, <1>4, <1>5, <1>6, <1>7

LEMMA CamUnmoved ==
    /\ (RosterInv /\ UNCHANGED roster => RosterInv')
    /\ (DialogInv /\ UNCHANGED dialog => DialogInv')
    /\ (NewcamInv /\ UNCHANGED newcam => NewcamInv')
    /\ (ScanInv /\ UNCHANGED scan => ScanInv')
    /\ (PanelInv /\ UNCHANGED panel => PanelInv')
    /\ (ZoneInv /\ UNCHANGED zone => ZoneInv')
    /\ (StillInv /\ UNCHANGED still => StillInv')
<1>1. RosterInv /\ UNCHANGED roster => RosterInv'
  BY DEF RosterInv, OnlyConfirmedAreDeleted
<1>2. DialogInv /\ UNCHANGED dialog => DialogInv'
  BY DEF DialogInv, SaveSendsWhatStands
<1>3. NewcamInv /\ UNCHANGED newcam => NewcamInv'
  BY DEF NewcamInv
<1>4. ScanInv /\ UNCHANGED scan => ScanInv'
  BY DEF ScanInv, OnlyListedAreAdded
<1>5. PanelInv /\ UNCHANGED panel => PanelInv'
  BY DEF PanelInv, NothingWrittenUnread
<1>6. ZoneInv /\ UNCHANGED zone => ZoneInv'
  BY DEF ZoneInv, ZonesAreShapes
<1>7. StillInv /\ UNCHANGED still => StillInv'
  BY DEF StillInv
<1> QED BY <1>1, <1>2, <1>3, <1>4, <1>5, <1>6, <1>7

LEMMA CamKept == ASSUME CameraInv, NEW p, CamStep(p) PROVE CameraInv'
<1> USE CamUnmoved DEF CameraInv
<1>1. CASE RosterStep
  BY <1>1, RosterKept, CamApart DEF RosterOnly
<1>2. CASE DialogStep
  BY <1>2, DialogKept, CamApart DEF DialogOnly
<1>3. CASE NewcamStep
  BY <1>3, NewcamKept, CamApart DEF NewcamOnly
<1>4. CASE ScanStep
  BY <1>4, ScanKept, CamApart DEF ScanOnly
<1>5. CASE PanelStep
  BY <1>5, PanelKept, CamApart DEF PanelOnly
<1>6. CASE ZoneStep
  BY <1>6, ZoneKept, CamApart DEF ZoneOnly
<1>7. CASE StillStep
  BY <1>7, StillKept, CamApart DEF StillOnly
<1> QED BY <1>1, <1>2, <1>3, <1>4, <1>5, <1>6, <1>7 DEF CamStep

-----------------------------------------------------------------------------
(* The parts of the portal together *)

(* A step of one part leaves the variables of the others alone. *)
LEMMA PortalApart ==
    /\ (QueueStep => QueueOnly)
    /\ (SupportStep => SupportOnly)
    /\ (ShareStep => ShareOnly)
    /\ (LabelStep => LabelOnly)
<1>1. QueueStep => QueueOnly
  BY Zenon DEF QueueStep, QueueRead, QueueArrives, QueueFails, loadQueue, ChooseCorrection, CancelCorrection,
                 Detected, Received, handleValidate, handleFalsePositive, handleSubmitCorrection, ReviewDone
<1>2. SupportStep => SupportOnly
  BY Zenon DEF SupportStep, OpenWidget, CloseWidget, PollTickets, Compose, GoBack, TypeDraft, PollThread,
                 ThreadArrives, ThreadFails, handleReply, handleUpdateStatus, WriteAnswered, ReadAnswered,
                 SendFails, PickTicket, handleSendNew
<1>3. ShareStep => ShareOnly
  BY Zenon DEF ShareStep, handleExport, ExportEnds, ToggleExportMenu, OpenShare, CloseShare, setShareExpiry,
                 handleGenerateLink, LinkMade
<1>4. LabelStep => LabelOnly
  BY Zenon DEF LabelStep, StartLabeling, ClaimAnswered, ClaimFails, PressVerdict, submitLabel, skipLabel,
                 LabelStored, LabelRefused, OpenFromQueue, Submit
<1> QED BY <1>1, <1>2, <1>3, <1>4

LEMMA PortalUnmoved ==
    /\ (QueueInv /\ UNCHANGED queue => QueueInv')
    /\ (SupportInv /\ UNCHANGED support => SupportInv')
    /\ (ShareInv /\ UNCHANGED share => ShareInv')
    /\ (LabelInv /\ UNCHANGED label => LabelInv')
<1>1. QueueInv /\ UNCHANGED queue => QueueInv'
  BY DEF QueueInv, HiddenFindingsAreReviewed
<1>2. SupportInv /\ UNCHANGED support => SupportInv'
  BY DEF SupportInv
<1>3. ShareInv /\ UNCHANGED share => ShareInv'
  BY DEF ShareInv, ShownExpiryIsTheLinks
<1>4. LabelInv /\ UNCHANGED label => LabelInv'
  BY DEF LabelInv, Judged
<1> QED BY <1>1, <1>2, <1>3, <1>4

LEMMA PortalKept == ASSUME PortalInv, NEW p, PortalStep(p) PROVE PortalInv'
<1> USE PortalUnmoved DEF PortalInv
<1>1. CASE QueueStep
  BY <1>1, QueueKept, PortalApart DEF QueueOnly
<1>2. CASE SupportStep
  BY <1>2, SupportKept, PortalApart DEF SupportOnly
<1>3. CASE ShareStep
  BY <1>3, ShareKept, PortalApart DEF ShareOnly
<1>4. CASE LabelStep
  BY <1>4, LabelKept, PortalApart DEF LabelOnly
<1> QED BY <1>1, <1>2, <1>3, <1>4 DEF PortalStep

-----------------------------------------------------------------------------
(* The first state *)

LEMMA AdminStarts == AdminInit => AdminInv
<1> SUFFICES ASSUME AdminInit PROVE AdminInv
  OBVIOUS
<1> USE AdminAssumption
<1>z. 0 \in 0..MaxLoads /\ 0 \in 0..MaxSites /\ MaxSites \in 0..MaxSites /\ 0 \in 0..2 /\ 0 \in 0..1
  OBVIOUS
<1>1. CamsInv
  BY <1>z DEF AdminInit, CamsInv, Tabs
<1>2. FirmInv
  BY <1>z DEF AdminInit, FirmInv
<1>3. TableInv
  BY <1>z DEF AdminInit, TableInv, TableType
<1>4. FormInv
  <2> DEFINE seen == [type |-> "internal", role |-> "soc_operator", admin |-> FALSE, org |-> FALSE]
             first == [shown |-> FALSE, type |-> "internal", role |-> "soc_operator", admin |-> FALSE, org |-> FALSE,
                       filled |-> FALSE, busy |-> FALSE, post |-> {}, listing |-> FALSE, made |-> {}, seen |-> seen]
  <2>1. seen \in SeenType
    BY DEF SeenType, AccountTypes, Roles, StaffRoles
  <2>2. form = [first EXCEPT !.seen = seen]
    BY DEF AdminInit, EmptyForm, Fresh
  <2> HIDE DEF seen
  <2>3. form = first
    BY <2>2
  <2>4. form \in FormType
    BY <2>1, <2>3 DEF FormType, AccountTypes, Roles, StaffRoles
  <2> QED BY <2>3, <2>4 DEF FormInv, CustomersOnly, StaffRoles
<1>5. RowsInv
  <2>1. [u \in Accounts |-> "admin"] \in [Accounts -> StaffRoles]
    BY DEF StaffRoles
  <2> QED BY <1>z, <2>1 DEF AdminInit, RowsInv
<1>6. ProfileInv
  BY DEF AdminInit, ProfileInv
<1> QED BY <1>1, <1>2, <1>3, <1>4, <1>5, <1>6 DEF AdminInv

LEMMA SiteStarts == SiteInit => SiteInv
<1> SUFFICES ASSUME SiteInit PROVE SiteInv
  OBVIOUS
<1>1. DetailsInv
  BY DEF SiteInit, DetailsInv
<1>2. CamInv
  BY DEF SiteInit, CamInv, Places
<1>3. SpkInv
  <2>1. <<>> \in Seq({"assign", "unassign"})
    OBVIOUS
  <2> QED BY <2>1 DEF SiteInit, SpkInv, Places
<1>4. SopInv
  BY DEF SiteInit, SopInv, SopType, SopRecord, NoSop
<1>5. AccessInv
  BY DEF SiteInit, AccessInv
<1>6. PolicyInv
  <2> DEFINE w == CHOOSE w \in Windows : TRUE
             old == [format |-> "legacy", windows |-> {w}]
             none == [format |-> "empty", windows |-> {}]
  <2>1. w \in Windows
    BY WindowsAssumption
  <2>2. policy = [loading |-> FALSE, fresh |-> FALSE, shown |-> {}, saving |-> FALSE, body |-> none, stored |-> old]
    BY DEF SiteInit
  <2> HIDE DEF w
  <2>3. old \in ScheduleType /\ none \in ScheduleType /\ EmptyIsEmpty(old) /\ EmptyIsEmpty(none)
    BY <2>1 DEF ScheduleType, EmptyIsEmpty
  <2> HIDE DEF old, none
  <2> QED BY <2>2, <2>3 DEF PolicyInv, ShownWindowsAreStored
<1>7. ScheduleInv
  BY DEF SiteInit, ScheduleInv
<1>8. SitemapInv
  BY DEF SiteInit, SitemapInv
<1>9. AuditInv
  BY DEF SiteInit, AuditInv, ExportIsWhole
<1> QED BY <1>1, <1>2, <1>3, <1>4, <1>5, <1>6, <1>7, <1>8, <1>9 DEF SiteInv

LEMMA SettingsStart == SettingsInit => SettingsInv
<1> SUFFICES ASSUME SettingsInit PROVE SettingsInv
  OBVIOUS
<1> USE FiltersAssumption
<1>z. 0 \in 0..MaxQueries
  OBVIOUS
<1>1. DraftInv
  BY DEF SettingsInit, DraftInv
<1>2. StoreInv
  BY <1>z DEF SettingsInit, StoreInv, StoreType, Paths
<1>3. PickerInv /\ ~picker.open
  BY DEF SettingsInit, PickerInv
<1>4. EvlogInv
  <2> DEFINE f == CHOOSE f \in Filters : TRUE
             l == [filter |-> f, shown |-> "none", asked |-> {}, loading |-> TRUE, auto |-> TRUE]
  <2>1. f \in Filters
    OBVIOUS
  <2>2. evlog = loadEvents(l)
    BY DEF SettingsInit
  <2> HIDE DEF f
  <2>3. l \in EvlogType /\ l.asked = {}
    BY <2>1 DEF EvlogType
  <2>4. WithinQueries({})
    BY FS_EmptySet DEF WithinQueries
  <2> HIDE DEF l
  <2> QED BY <2>2, <2>3, <2>4, LoadKeepsEvlog DEF EvlogInv
<1>5. TrailInv
  BY DEF SettingsInit, TrailInv
<1> QED BY <1>1, <1>2, <1>3, <1>4, <1>5 DEF SettingsInv

LEMMA CamStarts == CamInit => CameraInv
<1> SUFFICES ASSUME CamInit PROVE CameraInv
  OBVIOUS
<1> USE PointsAssumption
<1>1. RosterInv
  BY DEF CamInit, RosterInv, OnlyConfirmedAreDeleted
<1>2. DialogInv
  BY DEF CamInit, DialogInv, Kinds, Values, SaveSendsWhatStands
<1>3. NewcamInv
  BY DEF CamInit, NewcamInv, Classes
<1>4. ScanInv
  BY DEF CamInit, ScanInv, OnlyListedAreAdded
<1>5. PanelInv
  BY DEF CamInit, PanelInv, NothingWrittenUnread
<1>6. ZoneInv
  <2>1. 0 \in 0..MaxPoints /\ 0 \in 0..MaxZones
    OBVIOUS
  <2> QED BY <2>1 DEF CamInit, ZoneInv, ZoneType, ZoneTypes, ZonesAreShapes
<1>7. StillInv
  BY DEF CamInit, StillInv
<1> QED BY <1>1, <1>2, <1>3, <1>4, <1>5, <1>6, <1>7 DEF CameraInv

LEMMA PortalStarts == PortalInit => PortalInv
<1> SUFFICES ASSUME PortalInit PROVE PortalInv
  OBVIOUS
<1>1. QueueInv
  <2>1. Listed({}) \in [Findings -> 0..1]
    BY DEF Listed
  <2> QED BY <2>1 DEF PortalInit, QueueInv, QueueType, HiddenFindingsAreReviewed
<1>2. SupportInv
  <2> DEFINE t == CHOOSE t \in Tickets : TRUE
             call == [op |-> "none", ticket |-> "none", stage |-> "none"]
  <2>1. t \in Tickets
    BY PortalAssumption
  <2>2. support = [open |-> FALSE, view |-> "list", stored |-> {t}, tickets |-> {}, thread |-> "none",
                   draft |-> FALSE, busy |-> FALSE, call |-> call, loading |-> FALSE]
    BY DEF PortalInit
  <2>3. call \in SupportCall
    BY DEF SupportCall
  <2> HIDE DEF t, call
  <2> QED BY <2>1, <2>2, <2>3 DEF SupportInv, SupportType, Views
<1>3. ShareInv
  BY DEF PortalInit, ShareInv, Expiries, ShownExpiryIsTheLinks
<1>4. LabelInv
  BY DEF PortalInit, LabelInv, LabelType, Judged
<1> QED BY <1>1, <1>2, <1>3, <1>4 DEF PortalInv

LEMMA SessionStarts == SessionInit => SessionInv
<1> SUFFICES ASSUME SessionInit PROVE SessionInv
  OBVIOUS
<1>1. 0 \in Tokens /\ 0 \in 0..MaxWrites /\ 0 \in 0..MaxRotations
  BY SessionAssumption DEF Tokens
<1>2. SessionTypeOK
  <2>1. PICK s \in BOOLEAN : jar = [session |-> s, csrf |-> 0]
    BY DEF SessionInit
  <2>2. jar \in [session : BOOLEAN, csrf : Tokens] /\ valid \in BOOLEAN
    BY <1>1, <2>1 DEF SessionInit
  <2>3. req \in [phase : {"none", "mint", "send", "remint", "resend"}, token : Tokens]
    BY <1>1 DEF SessionInit, Idle
  <2> QED BY <1>1, <2>2, <2>3 DEF SessionInit, SessionTypeOK
<1> QED BY <1>2 DEF SessionInit, SessionInv, WritesAppliedOnce, SignedOutIsRevoked

LEMMA StreamStarts == StreamInit => StreamTypeOK
<1>1. BaseDelay \in BaseDelay .. MaxDelay
  BY DelayAssumption
<1> QED BY <1>1 DEF StreamInit, StreamTypeOK, Status

LEMMA BackofficeStarts == Init => BackofficeInv
BY StreamStarts, SessionStarts, AdminStarts, SiteStarts, SettingsStart, CamStarts, PortalStarts, Zenon
DEF Init, BackofficeInv

-----------------------------------------------------------------------------
(* The pages together *)

LEMMA StreamUnmoved == StreamTypeOK /\ UNCHANGED streamVars => StreamTypeOK'
BY DEF streamVars, StreamTypeOK
LEMMA SessionUnmoved == SessionInv /\ UNCHANGED sessionVars => SessionInv'
BY DEF sessionVars, SessionInv, SessionTypeOK, WritesAppliedOnce, SignedOutIsRevoked
LEMMA AdminStays == AdminInv /\ UNCHANGED adminVars => AdminInv'
BY AdminUnmoved DEF adminVars, AdminInv
LEMMA SiteStays == SiteInv /\ UNCHANGED siteVars => SiteInv'
BY SiteUnmoved DEF siteVars, SiteInv
LEMMA SettingsStay == SettingsInv /\ UNCHANGED <<part, settingsVars>> => SettingsInv'
BY SettingsUnmoved DEF settingsVars, SettingsInv
LEMMA CamStays == CameraInv /\ UNCHANGED camVars => CameraInv'
BY CamUnmoved DEF camVars, CameraInv
LEMMA PortalStays == PortalInv /\ UNCHANGED portalVars => PortalInv'
BY PortalUnmoved DEF portalVars, PortalInv

(* A step is the step of one page, or of none, and leaves the others alone. *)
LEMMA OnePage ==
    ASSUME [Next]_vars
    PROVE  /\ UNCHANGED part
           /\ StreamStep \/ UNCHANGED streamVars
           /\ SessionStep \/ UNCHANGED sessionVars
           /\ AdminStep(part) \/ UNCHANGED adminVars
           /\ SiteStep(part) \/ UNCHANGED siteVars
           /\ (part \in SettingsParts /\ SettingsStep(part)) \/ UNCHANGED settingsVars
           /\ CamStep(part) \/ UNCHANGED camVars
           /\ PortalStep(part) \/ UNCHANGED portalVars
BY Zenon DEF Next, vars

LEMMA BackofficeKept == BackofficeInv /\ [Next]_vars => BackofficeInv'
<1> SUFFICES ASSUME BackofficeInv, [Next]_vars PROVE BackofficeInv'
  OBVIOUS
<1> USE OnePage DEF BackofficeInv
<1>1. StreamTypeOK'
  BY StreamKept, StreamUnmoved
<1>2. SessionInv'
  BY SessionKept, SessionUnmoved
<1>3. AdminInv'
  BY AdminKept, AdminStays
<1>4. SiteInv'
  BY SiteKept, SiteStays
<1>5. SettingsInv'
  BY SettingsKept, SettingsStay
<1>6. CameraInv'
  BY CamKept, CamStays
<1>7. PortalInv'
  BY PortalKept, PortalStays
<1> QED BY <1>1, <1>2, <1>3, <1>4, <1>5, <1>6, <1>7

(* A set that is empty or has one element has at most one. *)
LEMMA AtMostOne == ASSUME NEW S, S # {} => \E x \in S : S = {x} PROVE Cardinality(S) <= 1
<1>1. CASE S = {}
  BY <1>1, FS_EmptySet
<1>2. CASE S # {}
  BY <1>2, FS_Singleton
<1> QED BY <1>1, <1>2

LEMMA TypesFollow == BackofficeInv => TypeOK
<1> SUFFICES ASSUME BackofficeInv PROVE TypeOK
  OBVIOUS
<1>1. StreamTypeOK /\ SessionTypeOK
  BY DEF BackofficeInv, SessionInv
<1>2. AdminTypeOK
  <2>1. cams.tab \in Tabs /\ cams.reads \in 0..MaxLoads /\ firm.puts \in 0..2
    BY DEF BackofficeInv, AdminInv, CamsInv, FirmInv
  <2>2. table.page \in 0..MaxSites /\ table.matching \in 0..table.sites
    BY AdminAssumption DEF BackofficeInv, AdminInv, TableInv, TableType
  <2>3. form.role \in StaffRoles \cup CustomerRoles /\ form.type \in {"internal", "customer"}
    BY DEF BackofficeInv, AdminInv, FormInv, FormType, Roles, AccountTypes
  <2>4. rows.list \subseteq Accounts /\ rows.reads \in 0..MaxLoads
    BY DEF BackofficeInv, AdminInv, RowsInv
  <2>5. profile.user \in {"none"} \cup Accounts /\ profile.pwd \in {"none"} \cup Accounts
    BY DEF BackofficeInv, AdminInv, ProfileInv
  <2> QED BY <2>1, <2>2, <2>3, <2>4, <2>5 DEF AdminTypeOK
<1>3. SiteTypeOK
  <2>1. details.stored \in 0..2 /\ cam.site \in {"none", "here", "other"} /\ spk.site \in {"none", "here", "other"}
    BY DEF BackofficeInv, SiteInv, DetailsInv, CamInv, SpkInv, Places
  <2>2. access.saving \in {0} \cup Staff /\ policy.shown \subseteq Windows /\ schedule.windows \subseteq Windows
    BY DEF BackofficeInv, SiteInv, AccessInv, PolicyInv, ScheduleInv
  <2>3. /\ sitemap.shown \subseteq Markers /\ sitemap.puts \subseteq SUBSET Markers
        /\ sitemap.mode \in {"view", "place", "drag"} /\ audit.entries \subseteq 1..3
    BY DEF BackofficeInv, SiteInv, SitemapInv, AuditInv
  <2> QED BY <2>1, <2>2, <2>3 DEF SiteTypeOK
<1>4. SettingsTypeOK
  <2>1. draft.value \in 0..3 /\ draft.stored \in 1..3 /\ store.reads \in 0..MaxQueries
    BY DEF BackofficeInv, SettingsInv, DraftInv, StoreInv, StoreType
  <2>2. picker.asked \subseteq Folders /\ picker.path \in {0} \cup Folders
    BY DEF BackofficeInv, SettingsInv, PickerInv
  <2>3. evlog.filter \in Filters /\ evlog.asked \subseteq Filters /\ Cardinality(evlog.asked) <= MaxQueries
    BY DEF BackofficeInv, SettingsInv, EvlogInv, EvlogType, WithinQueries
  <2>4. trail.page \in 0..2 /\ trail.shown \in 0..2
    BY DEF BackofficeInv, SettingsInv, TrailInv
  <2> QED BY <2>1, <2>2, <2>3, <2>4 DEF SettingsTypeOK
<1>5. CamTypeOK
  <2>1. roster.selected \subseteq Cams /\ roster.server \subseteq Cams
    BY DEF BackofficeInv, CameraInv, RosterInv
  <2>2. Cardinality(roster.confirmId) <= 1
    BY AtMostOne DEF BackofficeInv, CameraInv, RosterInv
  <2>3. dialog.puts \subseteq Values /\ dialog.field \in Values /\ newcam.class \in Classes
    BY DEF BackofficeInv, CameraInv, DialogInv, NewcamInv
  <2>4. scan.running \in 0..2 /\ scan.devices \subseteq Cams /\ panel.data \in 0..2
    BY DEF BackofficeInv, CameraInv, ScanInv, PanelInv
  <2>5. zone.points \in 0..MaxPoints /\ zone.finishing \in 0..MaxZones
    BY DEF BackofficeInv, CameraInv, ZoneInv, ZoneType
  <2> QED BY <2>1, <2>2, <2>3, <2>4, <2>5 DEF CamTypeOK, BackofficeInv, CameraInv, StillInv
<1>6. PortalTypeOK
  <2>1. queue.rows \in [Findings -> 0..2] /\ queue.stored \subseteq Findings
    BY DEF BackofficeInv, PortalInv, QueueInv, QueueType
  <2>2. Cardinality(queue.target) <= 1
    BY AtMostOne DEF BackofficeInv, PortalInv, QueueInv
  <2>3. support.view \in {"list", "compose"} \cup Tickets /\ support.thread \in {"none"} \cup Tickets
    BY DEF BackofficeInv, PortalInv, SupportInv, SupportType, Views
  <2>4. share.link \in {0} \cup Expiries /\ label.job \in {0} \cup Jobs
    BY DEF BackofficeInv, PortalInv, ShareInv, LabelInv, LabelType
  <2> QED BY <2>1, <2>2, <2>3, <2>4 DEF PortalTypeOK
<1> QED BY <1>1, <1>2, <1>3, <1>4, <1>5, <1>6 DEF TypeOK

LEMMA ShownFollows == BackofficeInv => BackofficeInvariant
<1> SUFFICES ASSUME BackofficeInv PROVE BackofficeInvariant
  OBVIOUS
<1>1. ShownWindowsAreStored /\ ExportIsWhole /\ HiddenFindingsAreReviewed /\ ShownExpiryIsTheLinks
  BY DEF BackofficeInv, SiteInv, PolicyInv, AuditInv, PortalInv, QueueInv, ShareInv
<1>2. FindingListedOnce
  <2>1. queue.rows \in [Findings -> 0..1]
    BY DEF BackofficeInv, PortalInv, QueueInv, QueueType
  <2>2. \A f \in Findings : queue.rows[f] \in 0..1
    BY <2>1
  <2> QED BY <2>2 DEF FindingListedOnce
<1> QED BY <1>1, <1>2, TypesFollow DEF BackofficeInvariant

(* The state parts of OnlyMeantWrites. *)
LEMMA MeantFollows ==
    BackofficeInv =>
      /\ WritesAppliedOnce /\ SignedOutIsRevoked /\ StaffNeedsStaffForm /\ OneProfileSave
      /\ OnlyConfirmedAreDeleted /\ OnlyListedAreAdded /\ SaveSendsWhatStands
      /\ NothingWrittenUnread /\ ZonesAreShapes /\ LabelsHaveAVerdict
<1> SUFFICES ASSUME BackofficeInv
             PROVE  /\ WritesAppliedOnce /\ SignedOutIsRevoked /\ StaffNeedsStaffForm /\ OneProfileSave
                    /\ OnlyConfirmedAreDeleted /\ OnlyListedAreAdded /\ SaveSendsWhatStands
                    /\ NothingWrittenUnread /\ ZonesAreShapes /\ LabelsHaveAVerdict
  OBVIOUS
<1>1. WritesAppliedOnce /\ SignedOutIsRevoked
  BY DEF BackofficeInv, SessionInv
<1>2. StaffNeedsStaffForm
  BY DEF BackofficeInv, AdminInv, FormInv, CustomersOnly, StaffNeedsStaffForm
<1>3. OneProfileSave
  BY AtMostOne DEF BackofficeInv, AdminInv, ProfileInv, OneProfileSave
<1>4. OnlyConfirmedAreDeleted /\ OnlyListedAreAdded /\ SaveSendsWhatStands /\ NothingWrittenUnread /\ ZonesAreShapes
  BY DEF BackofficeInv, CameraInv, RosterInv, ScanInv, DialogInv, PanelInv, ZoneInv
<1>5. LabelsHaveAVerdict
  BY DEF BackofficeInv, PortalInv, LabelInv, Judged, LabelsHaveAVerdict
<1> QED BY <1>1, <1>2, <1>3, <1>4, <1>5

-----------------------------------------------------------------------------
(* What a step may never do *)

MoveLeavesASite == cam.site # "none" /\ cam'.site = "none" => cam.call = "unassign"
LEMMA CameraStaysOnASite == ASSUME CamInv, CameraStep PROVE MoveLeavesASite
<1> USE DEF CamInv, Places, MoveLeavesASite
<1>1. CASE MasterList \/ handleAssign \/ handleUnassign \/ handleMove \/ handleTestCamera \/ CameraTested \/ ConfigureZones
  BY <1>1 DEF MasterList, handleAssign, handleUnassign, handleMove, handleTestCamera, CameraTested, ConfigureZones
<1>2. CASE CameraReply
  BY <1>2 DEF CameraReply
<1> QED BY <1>1, <1>2 DEF CameraStep

EditKeepsContacts == sop.stored.contacts /\ sop'.stored.exists => sop'.stored.contacts
LEMMA SopKeepsContacts == ASSUME SopInv, SopStep PROVE EditKeepsContacts
<1>t. sop \in SopType /\ (sop.stored.contacts => "add" \notin sop.calls /\ ("save" \in sop.calls => sop.sent))
  BY DEF SopInv
<1>1. CASE SopsArrive \/ AddForm \/ handleAddSOP \/ ToggleExpand \/ startEdit \/ CancelEdit \/ handleSaveEdit \/ handleDeleteSOP
  <2>1. sop'.stored = sop.stored
    BY <1>t, <1>1 DEF SopsArrive, AddForm, handleAddSOP, ToggleExpand, startEdit, CancelEdit, handleSaveEdit,
                      handleDeleteSOP, SopType
  <2> QED BY <2>1 DEF EditKeepsContacts
<1>2. CASE SopReply
  <2>1. PICK c \in sop.calls, ok \in BOOLEAN :
          sop' = LET left == [sop EXCEPT !.calls = @ \ {c}]
                 IN  CASE ~ok -> left
                       [] ok /\ c = "add" -> [left EXCEPT !.stored = [exists |-> TRUE, contacts |-> FALSE],
                                                          !.row = [exists |-> TRUE, contacts |-> FALSE], !.adding = FALSE]
                       [] ok /\ c = "save" -> [left EXCEPT !.stored.contacts = @ /\ sop.sent, !.editing = FALSE]
                       [] ok /\ c = "delete" -> [left EXCEPT !.stored = NoSop, !.row = NoSop]
    BY <1>2 DEF SopReply
  <2>2. CASE ~ok
    <3>1. sop'.stored = sop.stored
      BY <1>t, <2>1, <2>2 DEF SopType
    <3> QED BY <3>1 DEF EditKeepsContacts
  <2>3. CASE ok /\ c = "add"
    BY <1>t, <2>3 DEF EditKeepsContacts
  <2>4. CASE ok /\ c = "save"
    <3>1. sop'.stored.contacts = (sop.stored.contacts /\ sop.sent)
      BY <1>t, <2>1, <2>4 DEF SopType, SopRecord
    <3> QED BY <1>t, <2>4, <3>1 DEF EditKeepsContacts
  <2>5. CASE ok /\ c = "delete"
    <3>1. ~sop'.stored.exists
      BY <1>t, <2>1, <2>5 DEF SopType, NoSop
    <3> QED BY <3>1 DEF EditKeepsContacts
  <2> QED BY <1>t, <2>2, <2>3, <2>4, <2>5 DEF SopType
<1> QED BY <1>1, <1>2 DEF SopStep

FillsInTheChosen ==
    picker.open /\ <<store.newPath, store.editPath>> # <<store'.newPath, store'.editPath>>
      => picker.path \in {store'.newPath, store'.editPath}
LEMMA PickerFillsIn == ASSUME StoreInv, PickerStep PROVE FillsInTheChosen
<1> USE DEF FillsInTheChosen
<1>1. CASE openFolderPicker \/ (\E f \in Folders : navigatePicker(f)) \/ FoldersArrive \/ ClosePicker
  BY <1>1 DEF openFolderPicker, navigatePicker, FoldersArrive, ClosePicker
<1>2. CASE selectPickerPath
  BY <1>2 DEF selectPickerPath, StoreInv, StoreType
<1>3. CASE FormsBehind
  BY <1>3 DEF FormsBehind
<1> QED BY <1>1, <1>2, <1>3 DEF PickerStep

OffersTheWebhook == newcam.adding /\ ~newcam'.adding /\ ~newcam'.error /\ newcam.sent = "sense" => newcam'.webhook
LEMMA NewcamOffersTheWebhook == ASSUME NewcamInv, NewcamStep PROVE OffersTheWebhook
<1> USE DEF OffersTheWebhook
<1>1. CASE OpenAdd \/ CloseAdd \/ CancelAdd \/ (\E k \in Classes : FillAdd(k)) \/ handleAdd \/ WebhookDone
  <2>1. newcam'.adding = newcam.adding \/ ~newcam.adding
    BY <1>1 DEF OpenAdd, CloseAdd, CancelAdd, FillAdd, handleAdd, WebhookDone, NewcamInv
  <2> QED BY <2>1
<1>2. CASE CameraAdded
  <2>1. PICK ok \in BOOLEAN :
          newcam' = IF ok THEN [newcam EXCEPT !.adding = FALSE, !.open = FALSE, !.class = "continuous", !.address = FALSE,
                                              !.webhook = @ \/ newcam.sent = "sense"]
                    ELSE [newcam EXCEPT !.adding = FALSE, !.error = TRUE]
    BY <1>2 DEF CameraAdded
  <2>2. CASE ok
    <3>1. newcam'.webhook = (newcam.webhook \/ newcam.sent = "sense")
      BY <2>1, <2>2 DEF NewcamInv
    <3> QED BY <3>1
  <2>3. CASE ~ok
    <3>1. newcam'.error
      BY <2>1, <2>3 DEF NewcamInv
    <3> QED BY <3>1
  <2> QED BY <2>2, <2>3
<1> QED BY <1>1, <1>2 DEF NewcamStep

LEMMA SitesAreKept == BackofficeInv /\ [Next]_vars => [MoveLeavesASite]_siteVars /\ [EditKeepsContacts]_siteVars
<1> SUFFICES ASSUME BackofficeInv, SiteStep(part) PROVE MoveLeavesASite /\ EditKeepsContacts
  BY OnePage
<1>1. CamInv /\ SopInv
  BY DEF BackofficeInv, SiteInv
<1>2. UNCHANGED cam => MoveLeavesASite
  BY DEF MoveLeavesASite
<1>3. UNCHANGED sop => EditKeepsContacts
  BY DEF EditKeepsContacts
<1>4. CASE CameraStep
  <2>1. UNCHANGED sop
    BY <1>4, SiteApart DEF CamOnly
  <2> QED BY <1>1, <1>3, <1>4, <2>1, CameraStaysOnASite
<1>5. CASE SopStep
  <2>1. UNCHANGED cam
    BY <1>5, SiteApart DEF SopOnly
  <2> QED BY <1>1, <1>2, <1>5, <2>1, SopKeepsContacts
<1>6. CASE ~CameraStep /\ ~SopStep
  <2>1. UNCHANGED <<cam, sop>>
    BY <1>6, SiteApart DEF SiteStep, DetailsOnly, SpkOnly, AccessOnly, DangerOnly, PolicyOnly, ScheduleOnly, RulesOnly,
                           MapModalOnly, AuditOnly
  <2> QED BY <1>2, <1>3, <2>1
<1> QED BY <1>4, <1>5, <1>6

LEMMA FoldersAreChosen == BackofficeInv /\ [Next]_vars => [FillsInTheChosen]_settingsVars
<1> SUFFICES ASSUME BackofficeInv, SettingsStep(part) PROVE FillsInTheChosen
  BY OnePage
<1>1. StoreInv /\ (part # "picker" => ~picker.open)
  BY DEF BackofficeInv, SettingsInv
<1>2. CASE part = "picker"
  <2>1. PickerStep
    BY <1>2 DEF SettingsStep
  <2> QED BY <1>1, <2>1, PickerFillsIn
<1>3. CASE part # "picker"
  BY <1>1, <1>3 DEF FillsInTheChosen
<1> QED BY <1>2, <1>3

LEMMA WebhooksAreOffered == BackofficeInv /\ [Next]_vars => [OffersTheWebhook]_camVars
<1> SUFFICES ASSUME BackofficeInv, CamStep(part) PROVE OffersTheWebhook
  BY OnePage
<1>1. NewcamInv
  BY DEF BackofficeInv, CameraInv
<1>2. CASE NewcamStep
  BY <1>1, <1>2, NewcamOffersTheWebhook
<1>3. CASE ~NewcamStep
  <2>1. UNCHANGED newcam
    BY <1>3, CamApart DEF CamStep, RosterOnly, DialogOnly, ScanOnly, PanelOnly, ZoneOnly, StillOnly
  <2> QED BY <2>1 DEF OffersTheWebhook
<1> QED BY <1>2, <1>3

-----------------------------------------------------------------------------
(* The invariant holds in every reachable state. *)
LEMMA BackofficeInvHolds == Spec => []BackofficeInv
BY BackofficeStarts, BackofficeKept, PTL DEF Spec

(* The alert stream among the other pages is the stream of StreamSpec: whatever *)
(* is proved of it alone (one activity at a time in lib/ws-alerts.ts, a status  *)
(* badge that is never better than the link) holds in the browser as a whole.   *)
THEOREM PagesRunTheStream == Spec => StreamSpec
<1>1. Init => StreamInit
  BY DEF Init
<1>2. [Next]_vars => [StreamStep]_streamVars
  BY OnePage
<1> QED BY <1>1, <1>2, PTL DEF Spec, StreamSpec

(* What a page shows is so, for every number of windows, findings, tickets and  *)
(* links: a policy that was read shows the stored windows, the legacy format    *)
(* included (parseSchedule), an exported file is whole (exportCSV), a finding   *)
(* the socket and the first read both bring is listed once and is hidden only   *)
(* after its review was stored (PendingReviewQueue), the expiry shown under a   *)
(* link is the link's own (handleGenerateLink).                                 *)
THEOREM PagesShowWhatIsSo == Spec => []BackofficeInvariant
BY BackofficeInvHolds, ShownFollows, PTL

(* Only the writes that are meant are made, for every number of accounts,       *)
(* cameras, folders and jobs: authFetch applies a write once although it sends  *)
(* it again, logout leaves no good session unless the request was lost, the     *)
(* stale closure of handleCreateUser makes no staff account of a customer, and  *)
(* cameras, zones, contacts, folders and labels are written as they were        *)
(* confirmed, drawn, read, chosen and judged.                                   *)
THEOREM OnlyMeantWritesAreMade == Spec => OnlyMeantWrites
<1>1. Spec => [](WritesAppliedOnce /\ SignedOutIsRevoked /\ StaffNeedsStaffForm /\ OneProfileSave)
  BY BackofficeInvHolds, MeantFollows, PTL
<1>2. Spec => [](OnlyConfirmedAreDeleted /\ OnlyListedAreAdded /\ SaveSendsWhatStands)
  BY BackofficeInvHolds, MeantFollows, PTL
<1>3. Spec => [](NothingWrittenUnread /\ ZonesAreShapes /\ LabelsHaveAVerdict)
  BY BackofficeInvHolds, MeantFollows, PTL
<1>4. Spec => MovedCameraKeepsASite
  BY BackofficeInvHolds, SitesAreKept, PTL DEF Spec, MovedCameraKeepsASite, MoveLeavesASite
<1>5. Spec => ContactsSurvive
  BY BackofficeInvHolds, SitesAreKept, PTL DEF Spec, ContactsSurvive, EditKeepsContacts
<1>6. Spec => ChosenFolderIsFilledIn
  BY BackofficeInvHolds, FoldersAreChosen, PTL DEF Spec, ChosenFolderIsFilledIn, FillsInTheChosen
<1>7. Spec => WebhookIsOffered
  BY BackofficeInvHolds, WebhooksAreOffered, PTL DEF Spec, WebhookIsOffered, OffersTheWebhook
<1> QED BY <1>1, <1>2, <1>3, <1>4, <1>5, <1>6, <1>7, PTL DEF OnlyMeantWrites
=============================================================================
