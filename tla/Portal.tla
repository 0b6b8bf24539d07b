------------------------------- MODULE Portal -------------------------------
(***************************************************************************)
(* The customer portal's own state and the labelling page: the review queue *)
(* of safety findings (PendingReviewQueue.tsx), the support conversation    *)
(* (SupportWidget.tsx), the evidence link (EvidenceExportButton.tsx) and    *)
(* the annotation of AI verdicts (admin/labeling/page.tsx).                 *)
(***************************************************************************)
EXTENDS Naturals, FiniteSets

CONSTANTS Findings,   \* findings of the review queue
          Tickets,    \* support tickets
          Jobs        \* label jobs: their ids

ASSUME PortalAssumption == Tickets # {} /\ Jobs \subseteq Nat

VARIABLES queue,     \* PendingReviewQueue
          support,   \* SupportWidget
          share,     \* EvidenceExportButton
          label      \* LabelingPage

portalVars == <<queue, support, share, label>>

-----------------------------------------------------------------------------
(* The queue is read once (and again after an error); the socket adds to it.     *)
(* rows counts how often a finding is on the list.                               *)
QueueOnly == UNCHANGED <<support, share, label>>
Listed(ids) == [f \in Findings |-> IF f \in ids THEN 1 ELSE 0]
pending == {f \in Findings : queue.rows[f] > 0}
Detected(f) ==       \* the worker stores a finding and publishes it
    /\ f \notin queue.stored
    /\ queue' = [queue EXCEPT !.stored = @ \cup {f}, !.messages = @ \cup {f}] /\ QueueOnly
QueueRead ==         \* the server answers the read; the answer is on its way
    /\ queue.loading /\ ~queue.answered
    /\ queue' = [queue EXCEPT !.answered = TRUE, !.answer = queue.stored \ queue.reviewed] /\ QueueOnly
(* The answer replaces the list, what the socket brought meanwhile included. *)
QueueArrives ==
    /\ queue.loading /\ queue.answered
    /\ queue' = [queue EXCEPT !.loading = FALSE, !.answered = FALSE, !.rows = Listed(queue.answer), !.hidden = {}] /\ QueueOnly
QueueFails == queue.loading /\ queue' = [queue EXCEPT !.loading = FALSE, !.answered = FALSE, !.error = TRUE] /\ QueueOnly
loadQueue == queue.error /\ ~queue.loading /\ queue' = [queue EXCEPT !.loading = TRUE, !.error = FALSE] /\ QueueOnly
(* Mutant of Received: no look for duplicates. *)
ReceivedBlindly(f) ==
    /\ f \in queue.messages
    /\ queue' = [queue EXCEPT !.messages = @ \ {f}, !.rows[f] = IF @ < 2 THEN @ + 1 ELSE @, !.hidden = @ \ {f}] /\ QueueOnly
Received(f) ==
    /\ f \in queue.messages
    /\ queue' = [queue EXCEPT !.messages = @ \ {f}, !.rows[f] = IF @ = 0 THEN 1 ELSE @, !.hidden = @ \ {f}] /\ QueueOnly
Reviewable(f) == f \in pending /\ ~queue.loading /\ ~queue.error
(* Mutant of handleValidate: the row goes before the answer. *)
ValidateAtOnce(f) ==
    /\ Reviewable(f) /\ f \notin queue.target
    /\ queue' = [queue EXCEPT !.sent = @ \cup {f}, !.rows[f] = 0, !.hidden = @ \cup {f}] /\ QueueOnly
handleValidate(f) ==
    /\ Reviewable(f) /\ f \notin queue.target /\ queue' = [queue EXCEPT !.sent = @ \cup {f}] /\ QueueOnly
handleFalsePositive(f) == Reviewable(f) /\ queue' = [queue EXCEPT !.target = {f}] /\ QueueOnly
ChooseCorrection == queue.target # {} /\ queue' = [queue EXCEPT !.value = TRUE] /\ QueueOnly
CancelCorrection == queue.target # {} /\ queue' = [queue EXCEPT !.target = {}, !.value = FALSE] /\ QueueOnly
handleSubmitCorrection(f) ==
    /\ Reviewable(f) /\ f \in queue.target /\ queue.value
    /\ queue' = [queue EXCEPT !.corrected = @ \cup {f}] /\ QueueOnly
(* A success removes the row; the success of a correction also closes the form,  *)
(* whichever finding it is open for.                                             *)
ReviewDone(f) ==
    /\ f \in queue.sent \cup queue.corrected
    /\ \E ok \in BOOLEAN :
          queue' = LET q == [queue EXCEPT !.sent = @ \ {f}, !.corrected = @ \ {f}]
                   IN  IF ~ok THEN q
                       ELSE [q EXCEPT !.reviewed = @ \cup {f}, !.rows[f] = 0, !.hidden = @ \cup {f},
                                      !.target = IF f \in queue.corrected THEN {} ELSE @,
                                      !.value = @ /\ f \notin queue.corrected]
    /\ QueueOnly
QueueStep ==
    \/ QueueRead \/ QueueArrives \/ QueueFails \/ loadQueue \/ ChooseCorrection \/ CancelCorrection
    \/ \E f \in Findings : Detected(f) \/ Received(f) \/ handleValidate(f) \/ handleFalsePositive(f)
                             \/ handleSubmitCorrection(f) \/ ReviewDone(f)

-----------------------------------------------------------------------------
(* Support.  One send at a time, which leaving the conversation does not stop:   *)
(* its answer sets the thread, or the view, of whatever is open by then.         *)
SupportOnly == UNCHANGED <<queue, share, label>>
InThread == support.view \in Tickets
(* The effect of [view]: a load at once; the answers of the view before are dropped. *)
SetView(s, v) == [s EXCEPT !.view = v, !.loading = v \in Tickets]
OpenWidget == ~support.open /\ support' = [support EXCEPT !.open = TRUE] /\ SupportOnly
CloseWidget == support.open /\ support' = [support EXCEPT !.open = FALSE] /\ SupportOnly
PollTickets == support' = [support EXCEPT !.tickets = support.stored] /\ SupportOnly
PickTicket(t) ==
    /\ support.open /\ support.view = "list" /\ t \in support.tickets /\ support' = SetView(support, t) /\ SupportOnly
Compose == support.open /\ support.view = "list" /\ support' = SetView(support, "compose") /\ SupportOnly
GoBack ==
    /\ support.open /\ support.view # "list"
    /\ support' = [SetView(support, "list") EXCEPT !.thread = "none", !.draft = FALSE] /\ SupportOnly
TypeDraft == support.open /\ support.view # "list" /\ support' = [support EXCEPT !.draft = TRUE] /\ SupportOnly
(* Mutant of PollThread: the thread is read once. *)
PollOnce == FALSE /\ UNCHANGED portalVars
PollThread == InThread /\ support' = [support EXCEPT !.loading = TRUE] /\ SupportOnly      \* every thirty seconds
ThreadArrives == support.loading /\ support' = [support EXCEPT !.loading = FALSE, !.thread = support.view] /\ SupportOnly
ThreadFails == support.loading /\ support' = [support EXCEPT !.loading = FALSE] /\ SupportOnly
Send(op, t) == support' = [support EXCEPT !.busy = TRUE, !.call = [op |-> op, ticket |-> t, stage |-> "write"]]
handleSendNew(t) ==
    /\ support.open /\ support.view = "compose" /\ support.draft /\ ~support.busy /\ t \notin support.stored
    /\ Send("new", t) /\ SupportOnly
handleReply ==       \* to the ticket of the view, not the one that is drawn
    /\ support.open /\ InThread /\ support.thread # "none" /\ support.draft /\ ~support.busy
    /\ Send("reply", support.view) /\ SupportOnly
handleUpdateStatus ==
    /\ support.open /\ InThread /\ support.thread # "none" /\ ~support.busy /\ Send("status", support.thread) /\ SupportOnly
WriteAnswered ==
    /\ support.busy /\ support.call.stage = "write"
    /\ support' = [support EXCEPT !.call.stage = "read", !.stored = @ \cup {support.call.ticket},
                                  !.draft = @ /\ support.call.op = "status"]
    /\ SupportOnly
ReadAnswered ==
    /\ support.busy /\ support.call.stage = "read"
    /\ support' = LET done == [support EXCEPT !.busy = FALSE]
                  IN  CASE support.call.op = "new" -> SetView([done EXCEPT !.tickets = support.stored], support.call.ticket)
                        [] support.call.op = "reply" -> [done EXCEPT !.thread = support.call.ticket]
                        [] support.call.op = "status" -> [done EXCEPT !.thread = support.call.ticket, !.tickets = support.stored]
    /\ SupportOnly
(* Mutant of SendFails: no finally. *)
SendStays == support.busy /\ support' = [support EXCEPT !.call.stage = "failed"] /\ SupportOnly
SendFails == support.busy /\ support' = [support EXCEPT !.busy = FALSE] /\ SupportOnly
SupportStep ==
    \/ OpenWidget \/ CloseWidget \/ PollTickets \/ Compose \/ GoBack \/ TypeDraft \/ PollThread \/ ThreadArrives
    \/ ThreadFails \/ handleReply \/ handleUpdateStatus \/ WriteAnswered \/ ReadAnswered \/ SendFails
    \/ \E t \in Tickets : PickTicket(t) \/ handleSendNew(t)

-----------------------------------------------------------------------------
(* The evidence link: the choice of the expiry stays open while a link is made.  *)
ShareOnly == UNCHANGED <<queue, support, label>>
Expiries == {1, 2}
handleExport == ~share.modal /\ ~share.exporting /\ share' = [share EXCEPT !.exporting = TRUE, !.error = FALSE, !.menu = FALSE] /\ ShareOnly
ExportEnds == share.exporting /\ \E ok \in BOOLEAN : share' = [share EXCEPT !.exporting = FALSE, !.error = ~ok] /\ ShareOnly
ToggleExportMenu == ~share.modal /\ share' = [share EXCEPT !.menu = ~@] /\ ShareOnly
OpenShare == ~share.modal /\ share.menu /\ share' = [share EXCEPT !.modal = TRUE, !.menu = FALSE, !.link = 0, !.expires = 0] /\ ShareOnly
CloseShare == share.modal /\ share' = [share EXCEPT !.modal = FALSE] /\ ShareOnly
setShareExpiry(x) == share.modal /\ share.link = 0 /\ share' = [share EXCEPT !.choice = x] /\ ShareOnly
handleGenerateLink ==
    /\ share.modal /\ share.link = 0 /\ ~share.generating
    /\ share' = [share EXCEPT !.generating = TRUE, !.asked = share.choice] /\ ShareOnly
(* Mutant of LinkMade: the expiry that is chosen now. *)
LinkMadeChoice ==
    /\ share.generating
    /\ \E ok \in BOOLEAN :
          share' = IF ok THEN [share EXCEPT !.generating = FALSE, !.link = share.asked, !.expires = share.choice]
                   ELSE [share EXCEPT !.generating = FALSE]
    /\ ShareOnly
(* The server's own date is shown; the reopened dialog may get the link asked for before. *)
LinkMade ==
    /\ share.generating
    /\ \E ok \in BOOLEAN :
          share' = IF ok THEN [share EXCEPT !.generating = FALSE, !.link = share.asked, !.expires = share.asked]
                   ELSE [share EXCEPT !.generating = FALSE]
    /\ ShareOnly
ShareStep ==
    \/ handleExport \/ ExportEnds \/ ToggleExportMenu \/ OpenShare \/ CloseShare \/ (\E x \in Expiries : setShareExpiry(x))
    \/ handleGenerateLink \/ LinkMade

-----------------------------------------------------------------------------
(* Labelling.  Saving a label claims the next job; the keys work all the time.   *)
(* last is the label the server stored last.                                     *)
LabelOnly == UNCHANGED <<queue, support, share>>
resetForm2(l) == [l EXCEPT !.verdict = FALSE]
claimNext(l, by) == [resetForm2(l) EXCEPT !.claims = @ \cup {by}]
StartLabeling == label.job = 0 /\ label.claims = {} /\ label' = claimNext(label, "start") /\ LabelOnly
(* The end of a submission ends saving, another one under way or not. *)
ClaimEnds(by) == [label EXCEPT !.claims = @ \ {by}, !.saving = @ /\ by = "start"]
ClaimAnswered ==
    /\ \E by \in label.claims :
          label' = IF label.open = {} THEN [ClaimEnds(by) EXCEPT !.job = 0, !.empty = TRUE]
                   ELSE LET j == CHOOSE x \in label.open : \A y \in label.open : x <= y
                        IN  [ClaimEnds(by) EXCEPT !.job = j, !.empty = FALSE, !.open = @ \ {j}]
    /\ LabelOnly
ClaimFails == \E by \in label.claims : label' = ClaimEnds(by) /\ LabelOnly
PressVerdict == ~label.verdict /\ label' = [label EXCEPT !.verdict = TRUE] /\ LabelOnly
OpenFromQueue(j) == label' = [resetForm2(label) EXCEPT !.job = j] /\ LabelOnly      \* not claimed
Submit(body) == label' = [label EXCEPT !.saving = TRUE, !.sending = @ \cup {body}] /\ LabelOnly
(* Mutant of submitLabel: only the button looks for a verdict. *)
SubmitUnchecked ==
    label.job # 0 /\ ~label.saving /\ Submit([job |-> label.job, skip |-> FALSE, verdict |-> label.verdict])
submitLabel ==        \* the button, Enter
    label.job # 0 /\ label.verdict /\ ~label.saving /\ Submit([job |-> label.job, skip |-> FALSE, verdict |-> label.verdict])
skipLabel ==          \* S does not look at saving
    label.job # 0 /\ Submit([job |-> label.job, skip |-> TRUE, verdict |-> FALSE])
LabelStored ==
    /\ \E l \in label.sending :
          label' = claimNext([label EXCEPT !.sending = @ \ {l}, !.last = {l}], "submit")
    /\ LabelOnly
(* Mutant of LabelRefused: saving is ended by a success only. *)
RefusedAndStuck == \E l \in label.sending : label' = [label EXCEPT !.sending = @ \ {l}] /\ LabelOnly
LabelRefused == \E l \in label.sending : label' = [label EXCEPT !.sending = @ \ {l}, !.saving = FALSE] /\ LabelOnly
LabelStep ==
    \/ StartLabeling \/ ClaimAnswered \/ ClaimFails \/ PressVerdict \/ submitLabel \/ skipLabel \/ LabelStored \/ LabelRefused
    \/ \E j \in Jobs : OpenFromQueue(j)

-----------------------------------------------------------------------------
PortalInit ==
    /\ queue = [stored |-> {}, reviewed |-> {}, messages |-> {}, rows |-> Listed({}), loading |-> TRUE, answered |-> FALSE,
                answer |-> {}, error |-> FALSE, sent |-> {}, corrected |-> {}, target |-> {}, value |-> FALSE, hidden |-> {}]
    /\ support = [open |-> FALSE, view |-> "list", stored |-> {CHOOSE t \in Tickets : TRUE}, tickets |-> {}, thread |-> "none",
                  draft |-> FALSE, busy |-> FALSE, call |-> [op |-> "none", ticket |-> "none", stage |-> "none"], loading |-> FALSE]
    /\ share = [modal |-> FALSE, menu |-> FALSE, exporting |-> FALSE, error |-> FALSE, choice |-> 2, asked |-> 2, generating |-> FALSE,
                link |-> 0, expires |-> 0]
    /\ label = [job |-> 0, open |-> Jobs, empty |-> FALSE, verdict |-> FALSE, claims |-> {"start"}, saving |-> FALSE,
                sending |-> {}, last |-> {}]

PortalParts == {"reviewqueue", "support", "share", "labeling"}
PortalStep(p) ==
    \/ p = "reviewqueue" /\ QueueStep
    \/ p = "support" /\ SupportStep
    \/ p = "share" /\ ShareStep
    \/ p = "labeling" /\ LabelStep

(* The one type invariant. *)
PortalTypeOK ==
    /\ queue.rows \in [Findings -> 0..2] /\ queue.stored \subseteq Findings /\ Cardinality(queue.target) <= 1
    /\ support.view \in {"list", "compose"} \cup Tickets /\ support.thread \in {"none"} \cup Tickets
    /\ share.link \in {0} \cup Expiries /\ label.job \in {0} \cup Jobs

(* A finding is listed once, although the socket and the first read both bring it. *)
FindingListedOnce == \A f \in Findings : queue.rows[f] <= 1

(* A finding taken off the list was stored as reviewed: a failed review keeps it *)
(* in front of the customer.                                                     *)
HiddenFindingsAreReviewed == queue.hidden \subseteq queue.reviewed

(* The send buttons of the support widget return.                                *)
SupportReturns == support.busy ~> ~support.busy

(* The expiry under a link is the link's own, although another one can be chosen *)
(* while the link is made.                                                       *)
ShownExpiryIsTheLinks == share.link # 0 => share.expires = share.link

(* No label without a verdict is stored, by the button or by a key.              *)
LabelsHaveAVerdict == \A l \in label.last : l.skip \/ l.verdict

(* The labelling page's buttons return.                                          *)
LabelingReturns == label.saving ~> ~label.saving
=============================================================================
