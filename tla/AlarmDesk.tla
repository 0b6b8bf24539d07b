------------------------------ MODULE AlarmDesk ------------------------------
(***************************************************************************)
(* What one operator does at the desk with one alarm: the alert feed's      *)
(* claims, the status picker, the hand-off and wrap-up dialogs of the       *)
(* console page, and the workflow of ActiveAlarmView (assess, respond,      *)
(* resolve) with its deterrence popover, escalation and key shortcuts.      *)
(* OperatorConsole has the life of the alarms; this module has the widgets, *)
(* each with the timers and requests it leaves behind when it is unmounted. *)
(* Which picture is shown (view mode, child alarm, boxes, map) is layout:   *)
(* of those clicks only the action log entry is kept.                       *)
(***************************************************************************)
EXTENDS Naturals, FiniteSets

CONSTANTS MaxEsc,      \* bound: escalation levels
          MaxCalls,    \* bound: requests and timers left behind together
          WrapUpTicks  \* WRAPUP_SECONDS, 60 in the code

ASSUME BoundsAreSet == {MaxEsc, MaxCalls, WrapUpTicks} \subseteq Nat \ {0}

VARIABLES
    scene,     \* "console" or "alarm": which page is mounted
    status,    \* operatorStatus
    active,    \* this alarm is the active one
    claim,     \* assigned_operator_id of the feed's copy
    level,     \* escalation_level of the active copy and of the feed's
    log,       \* kinds of entry in the action log after the claim's
    last,      \* lastDisposition is set
    view,      \* local state of ActiveAlarmView
    desk,      \* local state of the console page and its dialogs
    fires,     \* deterrence requests of this view in flight
    closers,   \* pending 1.6 s timers that close the popover of this view
    handoffs   \* hand-offs pending at the server, at most one here

vars == <<scene, status, active, claim, level, log, last, view, desk, fires,
          closers, handoffs>>

Codes == {"false", "verified"}   \* a card of either column
FreshView == [tab |-> "assess", disp |-> "", prefix |-> "", timer |-> FALSE,
              sops |-> FALSE, checked |-> FALSE, confirm |-> FALSE,
              popover |-> FALSE, busy |-> FALSE, feedback |-> FALSE]
FreshDesk == [picker |-> FALSE, dialog |-> "none", loaded |-> FALSE,
              target |-> FALSE, creating |-> FALSE, countdown |-> WrapUpTicks]

ViewType == [tab : {"assess", "respond", "resolve"}, disp : Codes \cup {""},
             prefix : {"", "f", "v"}, timer : BOOLEAN, sops : BOOLEAN,
             checked : BOOLEAN, confirm : BOOLEAN, popover : BOOLEAN,
             busy : BOOLEAN, feedback : BOOLEAN]
DeskType == [picker : BOOLEAN, dialog : {"none", "incoming", "create", "evidence"},
             loaded : BOOLEAN, target : BOOLEAN, creating : BOOLEAN,
             countdown : 0..WrapUpTicks]

(* The one type invariant. *)
TypeOK ==
    /\ scene \in {"console", "alarm"}
    /\ status \in {"available", "engaged", "wrap_up", "break", "away"}
    /\ active \in BOOLEAN
    /\ claim \in {"free", "mine", "other"}
    /\ level \in [active : 0..MaxEsc, feed : 0..MaxEsc]
    /\ log \subseteq {"auto", "sop", "escalated"}
    /\ last \in BOOLEAN
    /\ view \in ViewType /\ desk \in DeskType
    /\ fires \in 0..MaxCalls
    /\ closers \in 0..MaxCalls
    /\ handoffs \in 0..1

-----------------------------------------------------------------------------
(* The validation score shown while the operator ticks the factors. *)
Factors == {"video_verified", "person_detected", "suspicious_behavior",
            "weapon_observed", "active_crime", "multi_camera_evidence",
            "multi_sensor_evidence", "audio_verified", "talkdown_ignored",
            "auth_failure", "ai_corroborated"}

(* A mutant: the AI's agreement is counted as corroboration. *)
PreviewCountingAI(f) ==
    CASE "video_verified" \notin f                      -> 0
      [] f \cap {"weapon_observed", "active_crime"} # {} -> 4
      [] f \ {"video_verified", "person_detected"} # {}  -> 3
      [] "person_detected" \in f                         -> 2
      [] OTHER                                           -> 1

previewAVSScore(f) ==
    IF "video_verified" \notin f THEN 0
    ELSE IF f \cap {"weapon_observed", "active_crime"} # {} THEN 4
    ELSE IF f \cap {"suspicious_behavior", "multi_camera_evidence", "multi_sensor_evidence",
                    "audio_verified", "talkdown_ignored", "auth_failure"} # {} THEN 3
    ELSE IF "person_detected" \in f THEN 2 ELSE 1

(* What the score of the server means: the highest rung of the ladder whose  *)
(* condition holds, and nothing at all without the operator's own eyes.      *)
Corroboration == Factors \ {"video_verified", "person_detected", "weapon_observed",
                            "active_crime", "ai_corroborated"}
ComputeScore(f) ==
    LET rungs == {1} \cup {n \in 2..4 :
                     \/ n = 2 /\ "person_detected" \in f
                     \/ n = 3 /\ \E c \in Corroboration : c \in f
                     \/ n = 4 /\ ("weapon_observed" \in f \/ "active_crime" \in f)}
    IN IF "video_verified" \in f THEN CHOOSE n \in rungs : \A m \in rungs : m <= n ELSE 0

-----------------------------------------------------------------------------
Init ==
    /\ scene = "console" /\ status = "available" /\ active = FALSE
    /\ claim \in {"free", "other"}
    /\ level = [active |-> 0, feed |-> 0]
    /\ log = {} /\ last = FALSE
    /\ view = FreshView /\ desk = FreshDesk
    /\ fires = 0 /\ closers = 0 /\ handoffs = 0

(* The view goes: the answers and timers it waits for change nothing any more. *)
Unmounted == view' = FreshView /\ closers' = 0 /\ fires' = 0

ViewShown     == scene = "alarm" /\ active
AssessShown   == ViewShown /\ view.tab = "assess"
RespondShown  == ViewShown /\ view.tab = "respond"
ResolveShown  == ViewShown /\ view.tab = "resolve"
WrapUpShown   == scene = "console" /\ status = "wrap_up" /\ last
FeedShown     == scene = "console" /\ ~WrapUpShown
EvidenceShown == scene = "console" /\ desk.dialog = "evidence" /\ last
IncomingShown == desk.dialog = "incoming" /\ desk.loaded /\ handoffs > 0
CreateShown   == desk.dialog = "create"

-----------------------------------------------------------------------------
(* Alert feed *)

handleClaim ==
    /\ FeedShown /\ claim = "free"
    /\ claim' = "mine"
    /\ UNCHANGED <<scene, status, active, level, log, last, view, desk, fires, closers, handoffs>>

(* A mutant: the claim is cleared the way JavaScript clears a field. *)
ReleaseToUndefined ==
    /\ FeedShown /\ claim = "mine"
    /\ claim' = "undefined"
    /\ UNCHANGED <<scene, status, active, level, log, last, view, desk, fires, closers, handoffs>>

handleRelease ==
    /\ FeedShown /\ claim = "mine"
    /\ claim' = "free"
    /\ UNCHANGED <<scene, status, active, level, log, last, view, desk, fires, closers, handoffs>>

(* A click engages the alarm, even one that another operator has; the copy   *)
(* may be the polled one, whose escalation level the server gives.           *)
OpenAlarm(polled) ==
    /\ FeedShown /\ desk.dialog = "none" /\ ~last
    /\ active' = TRUE /\ status' = "engaged" /\ claim' = "mine"
    /\ log' = {}
    /\ level' = [level EXCEPT !.active = IF polled THEN 0 ELSE level.feed]
    /\ UNCHANGED <<scene, last, view, desk, fires, closers, handoffs>>

(* The pushed route is mounted; the console page and its dialogs go. *)
EnterAlarmPage ==
    /\ scene = "console" /\ active
    /\ scene' = "alarm" /\ view' = FreshView /\ desk' = FreshDesk
    /\ UNCHANGED <<status, active, claim, level, log, last, fires, closers, handoffs>>

EnterConsole ==
    /\ scene = "alarm" /\ ~active
    /\ scene' = "console" /\ desk' = FreshDesk
    /\ UNCHANGED <<status, active, claim, level, log, last, view, fires, closers, handoffs>>

-----------------------------------------------------------------------------
(* Status *)

ToggleStatusPicker ==
    /\ FeedShown /\ status \notin {"engaged", "wrap_up"}
    /\ desk' = [desk EXCEPT !.picker = ~@]
    /\ UNCHANGED <<scene, status, active, claim, level, log, last, view, fires, closers, handoffs>>

(* The open menu does not look at the status again. *)
setOperatorStatus(s) ==
    /\ FeedShown /\ desk.picker
    /\ status' = s
    /\ desk' = [desk EXCEPT !.picker = FALSE]
    /\ UNCHANGED <<scene, active, claim, level, log, last, view, fires, closers, handoffs>>

-----------------------------------------------------------------------------
(* Wrap-up *)

(* A mutant: the tick that reaches zero leaves it at that. *)
CountDownOnly ==
    /\ WrapUpShown
    /\ desk' = [desk EXCEPT !.countdown = IF @ = 0 THEN WrapUpTicks ELSE @ - 1]
    /\ UNCHANGED <<scene, status, active, claim, level, log, last, view, fires, closers, handoffs>>

(* The overlay counts down and lets the operator go at zero. *)
WrapUpTick ==
    /\ WrapUpShown
    /\ IF desk.countdown > 0
       THEN desk' = [desk EXCEPT !.countdown = @ - 1] /\ UNCHANGED <<status, last>>
       ELSE status' = "available" /\ last' = FALSE /\ desk' = desk
    /\ UNCHANGED <<scene, active, claim, level, log, view, fires, closers, handoffs>>

ReadyForNext ==
    /\ WrapUpShown /\ ~EvidenceShown
    /\ status' = "available" /\ last' = FALSE
    /\ UNCHANGED <<scene, active, claim, level, log, view, desk, fires, closers, handoffs>>

ExportEvidence ==
    /\ WrapUpShown /\ desk.dialog = "none"
    /\ desk' = [desk EXCEPT !.dialog = "evidence"]
    /\ UNCHANGED <<scene, status, active, claim, level, log, last, view, fires, closers, handoffs>>

-----------------------------------------------------------------------------
(* Shift hand-off *)

OpenHandoff ==
    /\ scene = "console" /\ desk.dialog = "none"
    /\ desk' = [desk EXCEPT !.dialog = "incoming", !.loaded = FALSE,
                            !.target = FALSE, !.creating = FALSE]
    /\ UNCHANGED <<scene, status, active, claim, level, log, last, view, fires, closers, handoffs>>

(* The pending hand-offs and the operators on shift are in. *)
HandoffLoaded ==
    /\ desk.dialog \in {"incoming", "create"} /\ ~desk.loaded
    /\ desk' = [desk EXCEPT !.loaded = TRUE]
    /\ UNCHANGED <<scene, status, active, claim, level, log, last, view, fires, closers, handoffs>>

HandoffTab(t) ==
    /\ desk.dialog \in {"incoming", "create"} \ {t}
    /\ desk' = [desk EXCEPT !.dialog = t]
    /\ UNCHANGED <<scene, status, active, claim, level, log, last, view, fires, closers, handoffs>>

ChooseTarget ==
    /\ CreateShown /\ desk.loaded /\ ~desk.target
    /\ desk' = [desk EXCEPT !.target = TRUE]
    /\ UNCHANGED <<scene, status, active, claim, level, log, last, view, fires, closers, handoffs>>

handleCreate ==
    /\ CreateShown /\ desk.target /\ ~desk.creating
    /\ desk' = [desk EXCEPT !.creating = TRUE]
    /\ UNCHANGED <<scene, status, active, claim, level, log, last, view, fires, closers, handoffs>>

(* The server has it and the dialog closes. *)
HandoffCreated ==
    /\ desk.creating /\ handoffs = 0
    /\ handoffs' = handoffs + 1
    /\ desk' = [desk EXCEPT !.dialog = "none", !.creating = FALSE]
    /\ UNCHANGED <<scene, status, active, claim, level, log, last, view, fires, closers>>

handleAccept ==
    /\ IncomingShown
    /\ handoffs' = handoffs - 1
    /\ UNCHANGED <<scene, status, active, claim, level, log, last, view, desk, fires, closers>>

(* Escape, the cross or the backdrop; a request that fails leaves creating   *)
(* set, and closing the dialog is then the only way out.                     *)
CloseDialogs ==
    /\ scene = "console" /\ (desk.dialog # "none" \/ desk.picker)
    /\ desk' = [desk EXCEPT !.dialog = "none", !.picker = FALSE, !.creating = FALSE]
    /\ UNCHANGED <<scene, status, active, claim, level, log, last, view, fires, closers, handoffs>>

-----------------------------------------------------------------------------
(* Active alarm: tabs, log, procedures *)

SetTab(t) ==
    /\ ViewShown /\ view.tab # t
    /\ view' = [view EXCEPT !.tab = t]
    /\ UNCHANGED <<scene, status, active, claim, level, log, last, desk, fires, closers, handoffs>>

(* A click that only changes the picture leaves an entry in the log. *)
LogEntry(offered) ==
    /\ offered /\ "auto" \notin log
    /\ log' = log \cup {"auto"}
    /\ UNCHANGED <<scene, status, active, claim, level, last, view, desk, fires, closers, handoffs>>

SwitchView     == LogEntry(ViewShown)      \* snapshot, clip, live
SwitchCamera   == LogEntry(ViewShown)      \* an adjacent camera, or a child alarm's
TimelineSwitch == LogEntry(AssessShown)    \* a child alarm of the incident timeline
copyPhone      == LogEntry(RespondShown)   \* a number of the call tree
quickLog       == LogEntry(RespondShown)   \* spoke to contact, voicemail, ...

(* The site's procedures arrive with no step done. *)
SOPsLoaded ==
    /\ ViewShown /\ ~view.sops
    /\ view' = [view EXCEPT !.sops = TRUE, !.checked = FALSE]
    /\ UNCHANGED <<scene, status, active, claim, level, log, last, desk, fires, closers, handoffs>>

(* A mutant: the tick is written down when it is taken back. *)
ToggleLogsUnchecking ==
    /\ RespondShown /\ view.sops
    /\ view' = [view EXCEPT !.checked = ~@]
    /\ log' = IF view.checked THEN log \cup {"sop"} ELSE log
    /\ UNCHANGED <<scene, status, active, claim, level, last, desk, fires, closers, handoffs>>

toggleSopStep ==
    /\ RespondShown /\ view.sops
    /\ view' = [view EXCEPT !.checked = ~@]
    /\ log' = IF view.checked THEN log ELSE log \cup {"sop"}
    /\ UNCHANGED <<scene, status, active, claim, level, last, desk, fires, closers, handoffs>>

(* The two buttons under the AI's assessment: one answer per mounted view. *)
handleFeedback ==
    /\ AssessShown /\ ~view.feedback
    /\ view' = [view EXCEPT !.feedback = TRUE]
    /\ log' = log \cup {"auto"}
    /\ UNCHANGED <<scene, status, active, claim, level, last, desk, fires, closers, handoffs>>

-----------------------------------------------------------------------------
(* Active alarm: escalation *)

ToggleConfirm ==
    /\ ViewShown
    /\ view' = [view EXCEPT !.confirm = ~@]
    /\ UNCHANGED <<scene, status, active, claim, level, log, last, desk, fires, closers, handoffs>>

escalateActiveAlarm ==
    /\ ViewShown /\ view.confirm /\ level.active < MaxEsc
    /\ level' = [active |-> level.active + 1, feed |-> level.active + 1]
    /\ log' = log \cup {"escalated"}
    /\ view' = [view EXCEPT !.confirm = FALSE]
    /\ UNCHANGED <<scene, status, active, claim, last, desk, fires, closers, handoffs>>

-----------------------------------------------------------------------------
(* Active alarm: deterrence popover *)

ToggleDeterrence ==
    /\ ViewShown /\ ~view.busy
    /\ view' = [view EXCEPT !.popover = ~@]
    /\ UNCHANGED <<scene, status, active, claim, level, log, last, desk, fires, closers, handoffs>>

(* A mutant: the buttons of the popover stay alive during the round trip. *)
FireAgain ==
    /\ ViewShown /\ view.popover
    /\ fires < MaxCalls
    /\ view' = [view EXCEPT !.busy = TRUE]
    /\ fires' = fires + 1
    /\ UNCHANGED <<scene, status, active, claim, level, log, last, desk, closers, handoffs>>

FireDeterrence ==
    /\ ViewShown /\ view.popover /\ ~view.busy
    /\ fires < MaxCalls
    /\ view' = [view EXCEPT !.busy = TRUE]
    /\ fires' = fires + 1
    /\ UNCHANGED <<scene, status, active, claim, level, log, last, desk, closers, handoffs>>

(* It is answered or fails: the buttons come back and a timer will close the *)
(* popover, whichever is open by then.                                       *)
DeterrenceAnswered ==
    /\ ViewShown /\ fires > 0 /\ closers < MaxCalls
    /\ fires' = fires - 1
    /\ view' = [view EXCEPT !.busy = FALSE]
    /\ closers' = closers + 1
    /\ UNCHANGED <<scene, status, active, claim, level, log, last, desk, handoffs>>

PopoverTimer ==
    /\ closers > 0
    /\ closers' = closers - 1
    /\ view' = [view EXCEPT !.popover = FALSE]
    /\ UNCHANGED <<scene, status, active, claim, level, log, last, desk, fires, handoffs>>

-----------------------------------------------------------------------------
(* Active alarm: disposition *)

(* A mutant: the prefix key forgets to arm its timer. *)
PrefixWithoutTimer(p) ==
    /\ ViewShown
    /\ view' = [view EXCEPT !.prefix = p]
    /\ UNCHANGED <<scene, status, active, claim, level, log, last, desk, fires, closers, handoffs>>

(* F or V: the next digit picks a card, for the next 1.5 s. *)
PressPrefix(p) ==
    /\ ViewShown
    /\ view' = [view EXCEPT !.prefix = p, !.timer = TRUE]
    /\ UNCHANGED <<scene, status, active, claim, level, log, last, desk, fires, closers, handoffs>>

PressDigit ==
    /\ ViewShown /\ view.prefix # ""
    /\ view' = [view EXCEPT !.disp = IF view.prefix = "f" THEN "false" ELSE "verified",
                            !.prefix = "", !.timer = FALSE]
    /\ UNCHANGED <<scene, status, active, claim, level, log, last, desk, fires, closers, handoffs>>

PrefixTimer ==
    /\ view.timer
    /\ view' = [view EXCEPT !.prefix = "", !.timer = FALSE]
    /\ UNCHANGED <<scene, status, active, claim, level, log, last, desk, fires, closers, handoffs>>

(* A card of the resolve tab; the chosen one again takes the choice back. *)
PickCard(c) ==
    /\ ResolveShown
    /\ view' = [view EXCEPT !.disp = IF @ = c THEN "" ELSE c]
    /\ UNCHANGED <<scene, status, active, claim, level, log, last, desk, fires, closers, handoffs>>

(* The submission has succeeded (OperatorConsole has its steps). *)
handleSubmit ==
    /\ ResolveShown /\ view.disp # ""
    /\ active' = FALSE /\ status' = "wrap_up" /\ last' = TRUE /\ log' = {}
    /\ Unmounted
    /\ UNCHANGED <<scene, claim, level, desk, handoffs>>

handleAbandon ==
    /\ ViewShown
    /\ active' = FALSE /\ status' = "available" /\ log' = {} /\ claim' = "free"
    /\ Unmounted
    /\ UNCHANGED <<scene, level, last, desk, handoffs>>

-----------------------------------------------------------------------------
Next ==
    \/ handleClaim \/ handleRelease \/ \E p \in BOOLEAN : OpenAlarm(p)
    \/ EnterAlarmPage \/ EnterConsole
    \/ ToggleStatusPicker
    \/ \E s \in {"available", "break", "away"} : setOperatorStatus(s)
    \/ WrapUpTick \/ ReadyForNext \/ ExportEvidence
    \/ OpenHandoff \/ HandoffLoaded \/ ChooseTarget \/ handleCreate
    \/ HandoffCreated \/ handleAccept \/ CloseDialogs
    \/ \E t \in {"incoming", "create"} : HandoffTab(t)
    \/ \E t \in {"assess", "respond", "resolve"} : SetTab(t)
    \/ SwitchView \/ SwitchCamera \/ TimelineSwitch \/ copyPhone \/ quickLog
    \/ SOPsLoaded \/ toggleSopStep \/ handleFeedback
    \/ ToggleConfirm \/ escalateActiveAlarm
    \/ ToggleDeterrence \/ FireDeterrence \/ DeterrenceAnswered
    \/ PopoverTimer
    \/ \E p \in {"f", "v"} : PressPrefix(p)
    \/ PressDigit \/ PrefixTimer
    \/ \E c \in Codes : PickCard(c)
    \/ handleSubmit \/ handleAbandon

(* Timers fire and a due effect runs. *)
Fairness == WF_vars(WrapUpTick) /\ WF_vars(PrefixTimer) /\ WF_vars(EnterConsole)

Spec == Init /\ [][Next]_vars /\ Fairness

-----------------------------------------------------------------------------
(* Properties *)

(* deterrenceBusy: a view never has two sirens on the way.  One that was    *)
(* fired before the alarm was released and opened again is not counted:     *)
(* nothing in the code remembers it.                                        *)
OneDeterrenceRunning == fires <= 1

(* Every procedure step shown as done has its entry in the action log that  *)
(* goes to the server with the disposition.                                 *)
CompletedStepsAreLogged == view.checked => "sop" \in log

(* An F or V typed by accident is forgotten again: a digit long afterwards  *)
(* does not pick a disposition.                                             *)
PrefixExpires == view.prefix # "" ~> view.prefix = ""

(* Nobody stays in wrap-up: the countdown makes the operator available      *)
(* again, whatever dialogs are opened meanwhile.                            *)
WrapUpEnds == status = "wrap_up" ~> status # "wrap_up"

(* The score the operator is shown is the one the server will record, for   *)
(* every set of factors.                                                    *)
PreviewIsTheScore == \A f \in SUBSET Factors : previewAVSScore(f) = ComputeScore(f)

(* What the view shows before the submission is what the record will say:   *)
(* the types, a logged entry for every step shown as done, and the score.   *)
DeskInvariant == TypeOK /\ CompletedStepsAreLogged /\ PreviewIsTheScore

(* Nothing the desk waits for lasts: a stray prefix key is forgotten and    *)
(* wrap-up ends.                                                            *)
TimersRunOut == PrefixExpires /\ WrapUpEnds
=============================================================================
