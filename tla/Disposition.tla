----------------------------- MODULE Disposition -----------------------------
(***************************************************************************)
(* An operator dispositions an alarm (HandleCreateSecurityEvent), the AI   *)
(* pipeline writes its verdicts on the same alarm, and a supervisor signs  *)
(* the event off (VerifySecurityEvent).  Each SQL statement is an action;  *)
(* requests of several operators interleave.                               *)
(***************************************************************************)
EXTENDS Naturals

CONSTANTS
    Users, Supervisors, NoUser,
    Requests,   \* POST /events requests; each creates one security event
    UserOf,     \* UserOf[r]: the operator in the JWT
    AlarmOf,    \* AlarmOf[r]: the alarm it dispositions
    FalsePositive \* the requests whose disposition code is false_positive_*

Alarms == {AlarmOf[r] : r \in Requests}
NoRequest == "none"

ASSUME DispositionAssumption ==
    /\ NoUser \notin Users
    /\ NoRequest \notin Requests
    /\ Supervisors \subseteq Users
    /\ UserOf \in [Requests -> Users]
    /\ AlarmOf \in [Requests -> Alarms]
    /\ FalsePositive \subseteq Requests

VARIABLES
    step,        \* step[r]: how far the handler of r has come
    disposedBy,  \* security_events.disposed_by_user_id
    verifiedBy,  \* security_events.verified_by_user_id
    ackedAt,     \* active_alarms.acknowledged_at: the request that set it
    ackUser,     \* active_alarms.acknowledged_by_user_id
    ackCallsign, \* active_alarms.acknowledged_by_callsign
    threat,      \* active_alarms.ai_threat_level: "", "threat" or "calm"
    aiTier,      \* verdicts the AI pipeline has written: none, snapshot, video
    readThreat,  \* readThreat[r]: what ComputeAICorrectness of r has read
    aiCorrect,   \* active_alarms.ai_was_correct
    failed       \* history: the statements <<r, name>> that failed

alarmVars == <<ackedAt, ackUser, ackCallsign, threat, aiTier, aiCorrect>>
dispositionVars == <<step, disposedBy, verifiedBy, alarmVars, readThreat, failed>>

Steps == {"new", "inserted", "closed", "acknowledged", "judging", "done"}

DispositionTypeOK ==
    /\ step \in [Requests -> Steps]
    /\ disposedBy \in [Requests -> Users \cup {NoUser}]
    /\ verifiedBy \in [Requests -> Users \cup {NoUser}]
    /\ ackedAt \in [Alarms -> Requests \cup {NoRequest}]
    /\ ackUser \in [Alarms -> Users \cup {NoUser}]
    /\ ackCallsign \in [Alarms -> Users \cup {NoUser}]
    /\ threat \in [Alarms -> {"", "threat", "calm"}]
    /\ aiTier \in [Alarms -> 0..2]
    /\ readThreat \in [Requests -> {"", "threat", "calm"}]
    /\ aiCorrect \in [Alarms -> {"unset", "right", "wrong"}]
    /\ failed \subseteq Requests \X {"close", "acknowledge"}

DispositionInit ==
    /\ step = [r \in Requests |-> "new"]
    /\ disposedBy = [r \in Requests |-> NoUser]
    /\ verifiedBy = [r \in Requests |-> NoUser]
    /\ ackedAt = [a \in Alarms |-> NoRequest]
    /\ ackUser = [a \in Alarms |-> NoUser]
    /\ ackCallsign = [a \in Alarms |-> NoUser]
    /\ threat = [a \in Alarms |-> ""]
    /\ aiTier = [a \in Alarms |-> 0]
    /\ readThreat = [r \in Requests |-> ""]
    /\ aiCorrect = [a \in Alarms |-> "unset"]
    /\ failed = {}

Advance(r, from, to) == step[r] = from /\ step' = [step EXCEPT ![r] = to]

\* SQL COALESCE over a column that holds null or a value.
Coalesce(column, null, value) == IF column = null THEN value ELSE column

----------------------------------------------------------------------------
(* HandleCreateSecurityEvent, request r.                                   *)

\* What input.DisposedByUserID holds when the INSERT runs: the handler sets
\* it from the claims only after CreateSecurityEvent has returned.
DisposedByAtInsert(r) == NoUser

\* CreateSecurityEvent: the INSERT.  When it fails the handler answers 500 and
\* nothing has changed.
InsertEvent(r) ==
    /\ Advance(r, "new", "inserted")
    /\ disposedBy' = [disposedBy EXCEPT ![r] = DisposedByAtInsert(r)]
    /\ UNCHANGED <<verifiedBy, alarmVars, readThreat, failed>>

\* The columns that both acknowledging statements fill, unless they are set.
SignAcknowledgement(r) ==
    /\ ackedAt' = [ackedAt EXCEPT ![AlarmOf[r]] = Coalesce(@, NoRequest, r)]
    /\ ackCallsign' = [ackCallsign EXCEPT ![AlarmOf[r]] = Coalesce(@, NoUser, UserOf[r])]

\* Mutant of CloseAlarm: the callsign is overwritten.
CloseAlarmOverwrites(r) ==
    /\ Advance(r, "inserted", "closed")
    /\ ackedAt' = [ackedAt EXCEPT ![AlarmOf[r]] = Coalesce(@, NoRequest, r)]
    /\ ackCallsign' = [ackCallsign EXCEPT ![AlarmOf[r]] = UserOf[r]]
    /\ UNCHANGED <<disposedBy, verifiedBy, ackUser, threat, aiTier, readThreat, aiCorrect, failed>>

\* CreateSecurityEvent: closes the alarm and records the callsign; an error is
\* ignored.
CloseAlarm(r) ==
    /\ Advance(r, "inserted", "closed")
    /\ \/ SignAcknowledgement(r) /\ UNCHANGED failed
       \/ failed' = failed \cup {<<r, "close">>} /\ UNCHANGED <<ackedAt, ackCallsign>>
    /\ UNCHANGED <<disposedBy, verifiedBy, ackUser, threat, aiTier, readThreat, aiCorrect>>

\* Mutant of AcknowledgeAlarm: WHERE acknowledged = false.
AcknowledgeOnlyOpen(r) ==
    /\ Advance(r, "closed", "acknowledged")
    /\ ackUser' = [ackUser EXCEPT ![AlarmOf[r]] =
                     IF ackedAt[AlarmOf[r]] = NoRequest THEN UserOf[r] ELSE @]
    /\ UNCHANGED <<disposedBy, verifiedBy, ackedAt, ackCallsign, threat, aiTier, readThreat,
                   aiCorrect, failed>>

\* AcknowledgeAlarm with the operator's user id and callsign; an error is
\* ignored.
AcknowledgeAlarm(r) ==
    /\ Advance(r, "closed", "acknowledged")
    /\ \/ /\ SignAcknowledgement(r)
          /\ ackUser' = [ackUser EXCEPT ![AlarmOf[r]] = Coalesce(@, NoUser, UserOf[r])]
          /\ UNCHANGED failed
       \/ /\ failed' = failed \cup {<<r, "acknowledge">>}
          /\ UNCHANGED <<ackedAt, ackUser, ackCallsign>>
    /\ UNCHANGED <<disposedBy, verifiedBy, threat, aiTier, readThreat, aiCorrect>>

\* ComputeAICorrectness, SELECT: it returns when there is no assessment or the
\* query fails.
ReadAssessment(r) ==
    \E found \in {threat[AlarmOf[r]], ""} :
        /\ readThreat' = [readThreat EXCEPT ![r] = found]
        /\ Advance(r, "acknowledged", IF found = "" THEN "done" ELSE "judging")
        /\ UNCHANGED <<disposedBy, verifiedBy, alarmVars, failed>>

\* The table in ComputeAICorrectness' comment.
Judge(assessment, r) ==
    IF (assessment = "threat") = (r \notin FalsePositive) THEN "right" ELSE "wrong"

\* ComputeAICorrectness, UPDATE; its error is ignored.
StoreCorrectness(r) ==
    /\ Advance(r, "judging", "done")
    /\ \/ aiCorrect' = [aiCorrect EXCEPT ![AlarmOf[r]] = Judge(readThreat[r], r)]
       \/ UNCHANGED aiCorrect
    /\ UNCHANGED <<disposedBy, verifiedBy, ackedAt, ackUser, ackCallsign, threat, aiTier,
                   readThreat, failed>>

----------------------------------------------------------------------------

\* UpdateAlarmAI: the snapshot verdict, later the refined video verdict.
UpdateAlarmAI(a, verdict) ==
    /\ aiTier[a] < 2
    /\ aiTier' = [aiTier EXCEPT ![a] = @ + 1]
    /\ threat' = [threat EXCEPT ![a] = verdict]
    /\ UNCHANGED <<step, disposedBy, verifiedBy, ackedAt, ackUser, ackCallsign,
                   readThreat, aiCorrect, failed>>

\* Mutant of Verifiable: verified_at IS NULL is missing.
VerifiableAgain(r, u) == disposedBy[r] = NoUser \/ disposedBy[r] # u

\* The WHERE clause of VerifySecurityEvent.
Verifiable(r, u) ==
    /\ verifiedBy[r] = NoUser
    /\ disposedBy[r] = NoUser \/ disposedBy[r] # u

\* HandleVerifySecurityEvent by supervisor u: one conditional UPDATE; anything
\* else is an error answer that changes nothing.
VerifySecurityEvent(r, u) ==
    /\ step[r] # "new"
    /\ u \in Supervisors
    /\ Verifiable(r, u)
    /\ verifiedBy' = [verifiedBy EXCEPT ![r] = u]
    /\ UNCHANGED <<step, disposedBy, alarmVars, readThreat, failed>>

DispositionNext ==
    \/ \E r \in Requests :
         \/ InsertEvent(r)
         \/ CloseAlarm(r)
         \/ AcknowledgeAlarm(r)
         \/ ReadAssessment(r)
         \/ StoreCorrectness(r)
         \/ \E u \in Supervisors : VerifySecurityEvent(r, u)
    \/ \E a \in Alarms, verdict \in {"threat", "calm"} : UpdateAlarmAI(a, verdict)

DispositionSpec == DispositionInit /\ [][DispositionNext]_dispositionVars

----------------------------------------------------------------------------
(* Properties.                                                             *)

\* The first signature and the first acknowledgement stand: no later request
\* of another operator or supervisor replaces who signed or when the alarm
\* was first acted on.
FirstActionStands ==
    [][/\ \A r \in Requests : verifiedBy[r] # NoUser => verifiedBy'[r] = verifiedBy[r]
       /\ \A a \in Alarms :
            /\ ackedAt[a] # NoRequest => ackedAt'[a] = ackedAt[a]
            /\ ackUser[a] # NoUser => ackUser'[a] = ackUser[a]
            /\ ackCallsign[a] # NoUser => ackCallsign'[a] = ackCallsign[a]]_dispositionVars

\* acknowledged_at and the callsign come from the same operator, however many
\* dispositions of one alarm race: the SLA report credits who was first.
AckTimeMatchesCallsign ==
    \A a \in Alarms : ackedAt[a] # NoRequest => ackCallsign[a] = UserOf[ackedAt[a]]

\* A disposition that has been answered took its alarm out of the queue, unless
\* both statements that do so failed, and the alarm names a user, unless the
\* one that records it failed: neither depends on what other requests did.
DoneMeansAcknowledged ==
    \A r \in Requests :
        step[r] = "done" =>
            /\ \/ ackedAt[AlarmOf[r]] # NoRequest
               \/ {<<r, "close">>, <<r, "acknowledge">>} \subseteq failed
            /\ ackUser[AlarmOf[r]] # NoUser \/ <<r, "acknowledge">> \in failed

\* platform_db.go and router.go: the four-eyes rule.  Nobody signs off an
\* event that he or she dispositioned.
FourEyes ==
    \A r \in Requests : verifiedBy[r] # UserOf[r]

=============================================================================
