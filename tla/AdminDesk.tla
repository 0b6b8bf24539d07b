----------------------------- MODULE AdminDesk -----------------------------
(***************************************************************************)
(* The administration page, app/admin/page.tsx: the registry (companies,    *)
(* sites, operators, cameras of the NVR tabs) and the user accounts.  Names,*)
(* addresses and pictures are data; a field is told apart only where a      *)
(* handler may see an older value of it than the screen shows.              *)
(***************************************************************************)
EXTENDS Naturals, FiniteSets

CONSTANTS Accounts,     \* the other users' accounts that exist when the page opens
          MaxSites,     \* bound: sites on the table
          MaxLoads      \* bound: reads of one list under way together

ASSUME AdminAssumption == MaxSites \in Nat /\ MaxLoads \in Nat

VARIABLES cams,      \* [tab, loaded, reads]: the tabs and the lazily loaded camera list
          firm,      \* the create form and one card of a company
          ops,       \* operators and their create form
          table,     \* the sites table
          form,      \* the create form of an account, and what was made from it
          rows,      \* platformUsers
          profile    \* the inline forms of a row

adminVars == <<cams, firm, ops, table, form, rows, profile>>

Tabs == {"sites", "operators", "users", "settings", "health", "audit"}
StaffRoles    == {"admin", "soc_operator"}
CustomerRoles == {"site_manager", "viewer"}

-----------------------------------------------------------------------------
(* The tabs.  The forms below keep their state while another tab is shown, so   *)
(* each of them is taken with its own tab in front.                             *)
CamsOnly == UNCHANGED <<firm, ops, table, form, rows, profile>>
(* The camera tabs read the cameras until a read has come back. *)
handleTabChange(t) ==
    /\ cams' = [cams EXCEPT !.tab = t,
                  !.reads = IF t \in {"settings", "health"} /\ ~cams.loaded /\ @ < MaxLoads THEN @ + 1 ELSE @]
    /\ CamsOnly
(* Mutant of refreshCameras: a failed read leaves the flag alone. *)
CamerasIfRead ==
    /\ cams.reads > 0
    /\ \E ok \in BOOLEAN : cams' = [cams EXCEPT !.loaded = @ \/ ok, !.reads = @ - 1]
    /\ CamsOnly
(* The read returns: a failure keeps the old list and still counts as loaded. *)
refreshCameras ==
    /\ cams.reads > 0 /\ cams' = [cams EXCEPT !.loaded = TRUE, !.reads = @ - 1] /\ CamsOnly
TabStep == (\E t \in Tabs : handleTabChange(t)) \/ refreshCameras

FirmOnly == UNCHANGED <<cams, ops, table, form, rows, profile>>
ShowCreateCompany ==
    /\ firm' = [firm EXCEPT !.shown = ~@] /\ FirmOnly
handleCreateCompany ==
    /\ firm.shown /\ ~firm.creating
    /\ firm' = [firm EXCEPT !.creating = TRUE] /\ FirmOnly
(* No catch: after a failed call the button stays busy for good. *)
CompanyCreated ==
    /\ firm.creating /\ ~firm.lost
    /\ \E ok \in BOOLEAN :
          firm' = IF ok THEN [firm EXCEPT !.creating = FALSE, !.shown = FALSE] ELSE [firm EXCEPT !.lost = TRUE]
    /\ FirmOnly
(* The card of a company: its fields keep the values of its first render. *)
CardEdits == firm' = [firm EXCEPT !.editing = ~@] /\ FirmOnly
handleSaveCompany ==
    /\ firm.editing /\ firm.puts < 2
    /\ firm' = [firm EXCEPT !.puts = @ + 1] /\ FirmOnly
handleDeleteCompany ==
    /\ firm.deletes = 0 /\ firm' = [firm EXCEPT !.deletes = 1] /\ FirmOnly
(* useApiAction: a toast either way, and what follows only on success. *)
useApiAction ==
    /\ \/ /\ firm.puts > 0
          /\ \E ok \in BOOLEAN :
                firm' = [firm EXCEPT !.puts = @ - 1, !.editing = @ /\ ~ok]
       \/ /\ firm.deletes > 0
          /\ \E ok \in BOOLEAN : firm' = [firm EXCEPT !.deletes = 0, !.editing = @ /\ ~ok]
    /\ FirmOnly
FirmStep ==
    \/ ShowCreateCompany \/ handleCreateCompany \/ CompanyCreated
    \/ CardEdits \/ handleSaveCompany \/ handleDeleteCompany \/ useApiAction

OpsOnly == UNCHANGED <<cams, firm, table, form, rows, profile>>
OperatorsArrive ==
    /\ ops.reading /\ ops' = [ops EXCEPT !.reading = FALSE] /\ OpsOnly
ShowCreateOperator == ops' = [ops EXCEPT !.shown = ~@] /\ OpsOnly
handleCreateOperator ==
    /\ ops.shown /\ ~ops.creating
    /\ ops' = [ops EXCEPT !.creating = TRUE, !.post = TRUE] /\ OpsOnly
(* Mutant of OperatorCreated: the flag is cleared on success only. *)
OperatorCreatedOrStuck ==
    /\ ops.post
    /\ \E ok \in BOOLEAN :
          ops' = [ops EXCEPT !.post = FALSE, !.creating = ~ok, !.shown = @ /\ ~ok]
    /\ OpsOnly
OperatorCreated ==
    /\ ops.post
    /\ \E ok \in BOOLEAN :
          ops' = [ops EXCEPT !.post = FALSE, !.creating = FALSE, !.shown = @ /\ ~ok]
    /\ OpsOnly
OperatorStep == OperatorsArrive \/ ShowCreateOperator \/ handleCreateOperator \/ OperatorCreated

(* The table of sites, two sites to the page here.  The page goes back to the   *)
(* first one with a filter, not when the list gets shorter.                     *)
TableOnly == UNCHANGED <<cams, firm, ops, form, rows, profile>>
Pages == (table.matching + 1) \div 2
filteredSites(n) ==
    /\ n <= table.sites /\ table' = [table EXCEPT !.matching = n, !.page = 0] /\ TableOnly
PageNext == Pages > 1 /\ table.page + 1 < Pages /\ table' = [table EXCEPT !.page = @ + 1] /\ TableOnly
PagePrevious == Pages > 1 /\ table.page > 0 /\ table' = [table EXCEPT !.page = @ - 1] /\ TableOnly
ViewMode == table' = [table EXCEPT !.cards = ~@] /\ TableOnly

(* Companies and sites are read again: the table may shrink under its page. *)
onRefresh == \E n \in 0..MaxSites : table' = [table EXCEPT !.sites = n, !.matching = n] /\ TableOnly
(* Leaving the tab unmounts the table. *)
LeaveSites == table' = [table EXCEPT !.matching = table.sites, !.page = 0, !.cards = FALSE] /\ TableOnly
TableStep ==
    \/ (\E n \in 0..MaxSites : filteredSites(n)) \/ PageNext \/ PagePrevious \/ ViewMode \/ onRefresh \/ LeaveSites

-----------------------------------------------------------------------------
(* The accounts.  form.seen is what the memoised handleCreateUser closed over:  *)
(* it is renewed when the name, the password, the address or the role changes,  *)
(* and not when the type, the admin box or the company does.                    *)
Fresh(f) == [f EXCEPT !.seen = [type |-> f.type, role |-> f.role, admin |-> f.admin, org |-> f.org]]
FormOnly == UNCHANGED <<cams, firm, ops, table, rows, profile>>
EmptyForm == Fresh([shown |-> FALSE, type |-> "internal", role |-> "soc_operator", admin |-> FALSE, org |-> FALSE,
                    filled |-> FALSE, busy |-> FALSE, post |-> {}, listing |-> FALSE, made |-> {},
                    seen |-> [type |-> "internal", role |-> "soc_operator", admin |-> FALSE, org |-> FALSE]])

ShowCreateUser == form' = [form EXCEPT !.shown = ~@] /\ FormOnly
(* Mutant of PickType: the role is left as it is. *)
PickTypeOnly(t) ==
    /\ form.shown /\ form' = [form EXCEPT !.type = t, !.org = FALSE] /\ FormOnly
(* The type brings its default role along, and with it a new closure. *)
PickType(t) ==
    /\ form.shown
    /\ LET role == IF t = "internal" THEN "admin" ELSE "viewer"
           next == [form EXCEPT !.type = t, !.role = role, !.org = FALSE]
       IN  form' = IF role = form.role THEN next ELSE Fresh(next)
    /\ FormOnly
(* Name, password, display name, email or phone. *)
TypeText == form.shown /\ form' = Fresh([form EXCEPT !.filled = TRUE]) /\ FormOnly
PickRole(r) ==
    /\ form.shown /\ form.type = "customer" /\ r # form.role
    /\ form' = Fresh([form EXCEPT !.role = r]) /\ FormOnly
TickAdmin == form.shown /\ form.type = "internal" /\ form' = [form EXCEPT !.admin = ~@] /\ FormOnly
PickCompany == form.shown /\ form.type = "customer" /\ form' = [form EXCEPT !.org = TRUE] /\ FormOnly

(* The button looks at the screen, the request at the closure. *)
CreateEnabled == form.shown /\ form.filled /\ (form.type = "customer" => form.org) /\ ~form.busy
Asked(seen) ==
    IF seen.type = "internal"
    THEN [role |-> IF seen.admin THEN "admin" ELSE "soc_operator", org |-> FALSE]
    ELSE [role |-> seen.role, org |-> seen.org]
handleCreateUser ==
    /\ CreateEnabled
    /\ form' = [form EXCEPT !.busy = TRUE, !.post = {[from |-> form.type, account |-> Asked(form.seen)]}]
    /\ FormOnly
(* The form is emptied, made is the account just made; the form stays busy until the list has been read again. *)
UserCreated ==
    /\ form.post # {}
    /\ form' = [EmptyForm EXCEPT !.busy = TRUE, !.listing = TRUE, !.made = form.post] /\ FormOnly
(* Mutant of CreateUserFails: the flag is cleared inside the try. *)
CreateUserFailsBusy == form.post # {} /\ form' = [form EXCEPT !.post = {}] /\ FormOnly
CreateUserFails == form.post # {} /\ form' = [form EXCEPT !.post = {}, !.busy = FALSE] /\ FormOnly
ListReturns == form.listing /\ form' = [form EXCEPT !.listing = FALSE, !.busy = FALSE] /\ FormOnly
FormReply == UserCreated \/ CreateUserFails \/ ListReturns
FormStep ==
    \/ ShowCreateUser \/ TypeText \/ TickAdmin \/ PickCompany \/ handleCreateUser \/ FormReply
    \/ (\E t \in {"internal", "customer"} : PickType(t)) \/ (\E r \in CustomerRoles : PickRole(r))

RowsOnly == UNCHANGED <<cams, firm, ops, table, form, profile>>
(* The users tab, or the operators tab, opens before a list has come; or a user *)
(* has been created.                                                            *)
OpenUsers ==
    /\ rows.reads < MaxLoads /\ rows' = [rows EXCEPT !.reads = @ + 1, !.loading = TRUE] /\ RowsOnly
(* A list comes, or not; it is what the server had when it was asked, so a user *)
(* deleted since may come back.                                                 *)
loadPlatformUsers ==
    /\ rows.reads > 0
    /\ \E list \in {rows.list} \cup {Accounts \ gone : gone \in SUBSET rows.gone} :
          rows' = [rows EXCEPT !.reads = @ - 1, !.list = list, !.loading = FALSE, !.loaded = TRUE]
    /\ RowsOnly
(* A row is drawn when no list is awaited; an admin's own row has no such buttons. *)
RowsShown == IF rows.loading THEN {} ELSE rows.list
RowButtons(u) == u \in RowsShown /\ Cardinality(rows.calls) < MaxLoads
handleDeleteUser(u) ==
    /\ RowButtons(u)
    /\ rows' = [rows EXCEPT !.calls = @ \cup {[user |-> u, to |-> "deleted"]}] /\ RowsOnly
handleRoleChange(u, r) ==
    /\ RowButtons(u)
    /\ rows' = [rows EXCEPT !.calls = @ \cup {[user |-> u, to |-> r]}] /\ RowsOnly
(* The replies are applied as they come, two for one user in either order. *)
RowReply(c) ==
    /\ c \in rows.calls
    /\ \E ok \in BOOLEAN :
          rows' = LET done == [rows EXCEPT !.calls = @ \ {c}]
                  IN  IF ~ok THEN done
                      ELSE IF c.to = "deleted" THEN [done EXCEPT !.gone = @ \cup {c.user}, !.list = @ \ {c.user}]
                      ELSE [done EXCEPT !.roles[c.user] = c.to]
    /\ RowsOnly
RowsStep ==
    \/ OpenUsers \/ loadPlatformUsers \/ (\E c \in rows.calls : RowReply(c))
    \/ \E u \in Accounts : handleDeleteUser(u) \/ \E r \in StaffRoles : handleRoleChange(u, r)

ProfileOnly == UNCHANGED <<cams, firm, ops, table, form, rows>>
openEditProfile(u) ==
    /\ profile' = [profile EXCEPT !.user = IF @ = u THEN "none" ELSE u] /\ ProfileOnly
ProfileForm == profile.user # "none"
PasswordForm == profile.pwd # "none"
(* Mutant of handleSaveProfile: another row may be saved meanwhile. *)
SaveProfileAgain ==
    /\ ProfileForm
    /\ profile' = [profile EXCEPT !.saving = TRUE, !.puts = @ \cup {profile.user}] /\ ProfileOnly
(* One flag for all rows: a second save waits for the first. *)
handleSaveProfile ==
    /\ ProfileForm /\ ~profile.saving
    /\ profile' = [profile EXCEPT !.saving = TRUE, !.puts = @ \cup {profile.user}] /\ ProfileOnly
(* The reply closes whichever row is open by then. *)
ProfileSaved ==
    /\ \E u \in profile.puts : \E ok \in BOOLEAN :
          profile' = [profile EXCEPT !.puts = @ \ {u}, !.saving = FALSE, !.user = IF ok THEN "none" ELSE @]
    /\ ProfileOnly
OpenPassword(u) == profile' = [profile EXCEPT !.pwd = u] /\ ProfileOnly
(* No flag here: Update may be pressed again; a success closes the form, for     *)
(* whichever user it is open by then.                                           *)
handleChangePassword ==
    /\ PasswordForm /\ profile' = [profile EXCEPT !.pwds = @ \cup {profile.pwd}] /\ ProfileOnly
PasswordChanged ==
    /\ \E u \in profile.pwds : \E ok \in BOOLEAN :
          profile' = [profile EXCEPT !.pwds = @ \ {u}, !.pwd = IF ok THEN "none" ELSE @]
    /\ ProfileOnly
ProfileStep ==
    \/ handleSaveProfile \/ ProfileSaved \/ handleChangePassword \/ PasswordChanged
    \/ \E u \in Accounts : openEditProfile(u) \/ OpenPassword(u)

AdminInit ==
    /\ cams = [tab |-> "sites", loaded |-> FALSE, reads |-> 0]
    /\ firm = [shown |-> FALSE, creating |-> FALSE, lost |-> FALSE, editing |-> FALSE, puts |-> 0, deletes |-> 0]
    /\ ops = [reading |-> TRUE, shown |-> FALSE, creating |-> FALSE, post |-> FALSE]
    /\ table = [sites |-> MaxSites, matching |-> MaxSites, page |-> 0, cards |-> FALSE]
    /\ form = EmptyForm
    /\ rows = [list |-> {}, gone |-> {}, roles |-> [u \in Accounts |-> "admin"], reads |-> 0, calls |-> {},
               loading |-> FALSE, loaded |-> FALSE]
    /\ profile = [user |-> "none", saving |-> FALSE, puts |-> {}, pwd |-> "none", pwds |-> {}]
(* The step of one of the page's parts. *)
AdminParts == {"tabs", "firm", "operators", "sites", "account", "users", "profile"}
AdminStep(p) ==
    \/ p = "tabs" /\ TabStep
    \/ p = "firm" /\ FirmStep
    \/ p = "operators" /\ OperatorStep
    \/ p = "sites" /\ TableStep
    \/ p = "account" /\ FormStep
    \/ p = "users" /\ RowsStep
    \/ p = "profile" /\ ProfileStep

-----------------------------------------------------------------------------
(* The one type invariant. *)
AdminTypeOK ==
    /\ cams.tab \in Tabs /\ cams.reads \in 0..MaxLoads /\ firm.puts \in 0..2
    /\ table.page \in 0..MaxSites /\ table.matching \in 0..table.sites
    /\ form.role \in StaffRoles \cup CustomerRoles /\ form.type \in {"internal", "customer"}
    /\ rows.list \subseteq Accounts /\ rows.reads \in 0..MaxLoads
    /\ profile.user \in {"none"} \cup Accounts /\ profile.pwd \in {"none"} \cup Accounts

(* No account made with the customer form on screen gets a staff role, although *)
(* the handler may run with older fields: choosing the type always changes the  *)
(* role, which renews the handler.                                              *)
StaffNeedsStaffForm == \A p \in form.made : p.from = "customer" => p.account.role \in CustomerRoles

(* A profile is written by one request at a time, whichever rows are opened and *)
(* closed while it is under way.                                                *)
OneProfileSave == Cardinality(profile.puts) <= 1

(* The camera tabs stop waiting whether or not the list could be read. *)
CamerasSettle == (cams.tab = "health" /\ cams.reads > 0) ~> cams.loaded

(* The create buttons of operators and of accounts come back after every        *)
(* outcome, the list of users that follows included.                            *)
OperatorButtonReturns == ops.creating ~> ~ops.creating
AccountButtonReturns == form.busy ~> ~form.busy
=============================================================================
