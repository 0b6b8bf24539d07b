-------------------------- MODULE DispositionProofs --------------------------
(***************************************************************************)
(* How an alarm is dispositioned, at the server and at the desk.            *)
(*                                                                         *)
(* Server, for any number of operators, requests and alarms, and whichever *)
(* of the handler's statements fail: the acknowledgement of an alarm names *)
(* one operator, it is never rewritten, and an answered disposition made   *)
(* it.                                                                     *)
(*                                                                         *)
(* Desk, for every bound on escalations, pending calls and wrap-up ticks:  *)
(* the preview of the validation score is the server's score for every set *)
(* of factors, a step shown as done has its entry in the log, and a view   *)
(* never has two sirens on the way.                                        *)
(***************************************************************************)
EXTENDS Disposition, AlarmDesk, TLAPS

-----------------------------------------------------------------------------
(* The server *)

\* Callsign and time are written together: an alarm without the one is
\* without the other.
UnackedHasNoCallsign ==
    \A a \in Alarms : ackedAt[a] = NoRequest => ackCallsign[a] = NoUser

\* What each statement of request r has established once it is behind r.
TookEffect(r) ==
    /\ step[r] \in {"closed", "acknowledged", "judging", "done"} =>
         ackedAt[AlarmOf[r]] # NoRequest \/ <<r, "close">> \in failed
    /\ step[r] \in {"acknowledged", "judging", "done"} =>
         \/ ackedAt[AlarmOf[r]] # NoRequest /\ ackUser[AlarmOf[r]] # NoUser
         \/ <<r, "acknowledge">> \in failed

StatementsTookEffect == \A r \in Requests : TookEffect(r)

DispositionInv ==
    DispositionTypeOK /\ AckTimeMatchesCallsign /\ UnackedHasNoCallsign /\ StatementsTookEffect

LEMMA AlarmOfType ==
    ASSUME NEW r \in Requests
    PROVE  AlarmOf[r] \in Alarms /\ UserOf[r] \in Users
BY DispositionAssumption DEF Alarms

LEMMA NextTier == \A n \in 0..2 : n < 2 => n + 1 \in 0..2
OBVIOUS

LEMMA DispositionInitInv == DispositionInit => DispositionInv
<1> SUFFICES ASSUME DispositionInit PROVE DispositionInv
  OBVIOUS
<1>1. DispositionTypeOK
  <2>1. /\ step \in [Requests -> Steps]
        /\ readThreat \in [Requests -> {"", "threat", "calm"}]
        /\ threat \in [Alarms -> {"", "threat", "calm"}]
        /\ aiCorrect \in [Alarms -> {"unset", "right", "wrong"}]
    BY DEF DispositionInit, Steps
  <2>2. /\ disposedBy \in [Requests -> Users \cup {NoUser}]
        /\ verifiedBy \in [Requests -> Users \cup {NoUser}]
        /\ ackedAt \in [Alarms -> Requests \cup {NoRequest}]
        /\ ackUser \in [Alarms -> Users \cup {NoUser}]
        /\ ackCallsign \in [Alarms -> Users \cup {NoUser}]
    BY DEF DispositionInit
  <2>3. aiTier \in [Alarms -> 0..2]
    <3>1. aiTier = [a \in Alarms |-> 0]
      BY DEF DispositionInit
    <3> QED BY <3>1
  <2>4. failed \subseteq Requests \X {"close", "acknowledge"}
    BY DEF DispositionInit
  <2> QED BY <2>1, <2>2, <2>3, <2>4 DEF DispositionTypeOK
<1>2. AckTimeMatchesCallsign /\ UnackedHasNoCallsign
  BY DEF DispositionInit, AckTimeMatchesCallsign, UnackedHasNoCallsign
<1>3. StatementsTookEffect
  BY DEF DispositionInit, StatementsTookEffect, TookEffect
<1> QED BY <1>1, <1>2, <1>3 DEF DispositionInv

LEMMA DispositionTypeStep == DispositionInv /\ [DispositionNext]_dispositionVars => DispositionTypeOK'
<1> SUFFICES ASSUME DispositionInv, [DispositionNext]_dispositionVars PROVE DispositionTypeOK'
  OBVIOUS
<1> USE AlarmOfType DEF DispositionInv, DispositionTypeOK, alarmVars
<1>a. ASSUME NEW r \in Requests, NEW to \in Steps, NEW from, Advance(r, from, to)
      PROVE  step' \in [Requests -> Steps]
  BY <1>a DEF Advance
<1>s. Steps = {"new", "inserted", "closed", "acknowledged", "judging", "done"}
  BY DEF Steps
<1>c. ASSUME NEW r \in Requests, SignAcknowledgement(r)
      PROVE  /\ ackedAt' \in [Alarms -> Requests \cup {NoRequest}]
             /\ ackCallsign' \in [Alarms -> Users \cup {NoUser}]
  BY <1>c DEF SignAcknowledgement, Coalesce
<1>1. ASSUME NEW r \in Requests, InsertEvent(r) PROVE DispositionTypeOK'
  BY <1>1, <1>a, <1>s DEF InsertEvent, DisposedByAtInsert
<1>2. ASSUME NEW r \in Requests, CloseAlarm(r) PROVE DispositionTypeOK'
  <2>1. step' \in [Requests -> Steps]
    BY <1>2, <1>a, <1>s DEF CloseAlarm
  <2>2. failed' \subseteq Requests \X {"close", "acknowledge"}
    <3>1. failed' = failed \/ failed' = failed \cup {<<r, "close">>}
      BY <1>2 DEF CloseAlarm
    <3>2. <<r, "close">> \in Requests \X {"close", "acknowledge"}
      OBVIOUS
    <3> QED BY <3>1, <3>2
  <2>3. /\ ackedAt' \in [Alarms -> Requests \cup {NoRequest}]
        /\ ackCallsign' \in [Alarms -> Users \cup {NoUser}]
    BY <1>2, <1>c DEF CloseAlarm
  <2> QED BY <1>2, <2>1, <2>2, <2>3 DEF CloseAlarm
<1>3. ASSUME NEW r \in Requests, AcknowledgeAlarm(r) PROVE DispositionTypeOK'
  <2>1. step' \in [Requests -> Steps]
    BY <1>3, <1>a, <1>s DEF AcknowledgeAlarm
  <2>2. failed' \subseteq Requests \X {"close", "acknowledge"}
    <3>1. failed' = failed \/ failed' = failed \cup {<<r, "acknowledge">>}
      BY <1>3 DEF AcknowledgeAlarm
    <3>2. <<r, "acknowledge">> \in Requests \X {"close", "acknowledge"}
      OBVIOUS
    <3> QED BY <3>1, <3>2
  <2>3. /\ ackedAt' \in [Alarms -> Requests \cup {NoRequest}]
        /\ ackCallsign' \in [Alarms -> Users \cup {NoUser}]
    BY <1>3, <1>c DEF AcknowledgeAlarm
  <2>4. ackUser' \in [Alarms -> Users \cup {NoUser}]
    <3>1. \/ ackUser' = ackUser
          \/ ackUser' = [ackUser EXCEPT ![AlarmOf[r]] =
                           Coalesce(ackUser[AlarmOf[r]], NoUser, UserOf[r])]
      BY <1>3 DEF AcknowledgeAlarm
    <3>2. Coalesce(ackUser[AlarmOf[r]], NoUser, UserOf[r]) \in Users \cup {NoUser}
      BY DEF Coalesce
    <3> QED BY <3>1, <3>2
  <2> QED BY <1>3, <2>1, <2>2, <2>3, <2>4 DEF AcknowledgeAlarm
<1>4. ASSUME NEW r \in Requests, ReadAssessment(r) PROVE DispositionTypeOK'
  <2>1. PICK found \in {threat[AlarmOf[r]], ""} :
            /\ readThreat' = [readThreat EXCEPT ![r] = found]
            /\ Advance(r, "acknowledged", IF found = "" THEN "done" ELSE "judging")
            /\ UNCHANGED <<disposedBy, verifiedBy, alarmVars, failed>>
    BY <1>4 DEF ReadAssessment
  <2>2. step' \in [Requests -> Steps]
    BY <2>1, <1>a, <1>s
  <2>3. readThreat' \in [Requests -> {"", "threat", "calm"}]
    BY <2>1
  <2> QED BY <2>1, <2>2, <2>3
<1>5. ASSUME NEW r \in Requests, StoreCorrectness(r) PROVE DispositionTypeOK'
  <2>1. aiCorrect' \in [Alarms -> {"unset", "right", "wrong"}]
    BY <1>5 DEF StoreCorrectness, Judge
  <2> QED BY <1>5, <2>1, <1>a, <1>s DEF StoreCorrectness
<1>6. ASSUME NEW r \in Requests, NEW u \in Supervisors, VerifySecurityEvent(r, u) PROVE DispositionTypeOK'
  BY <1>6, DispositionAssumption DEF VerifySecurityEvent
<1>7. ASSUME NEW a \in Alarms, NEW verdict \in {"threat", "calm"}, UpdateAlarmAI(a, verdict)
      PROVE  DispositionTypeOK'
  <2>1. aiTier[a] < 2 /\ aiTier' = [aiTier EXCEPT ![a] = aiTier[a] + 1]
    BY <1>7 DEF UpdateAlarmAI
  <2>2. aiTier' \in [Alarms -> 0..2]
    <3>1. aiTier[a] \in 0..2
      OBVIOUS
    <3>2. aiTier[a] + 1 \in 0..2
      BY <2>1, <3>1, NextTier
    <3> QED BY <2>1, <3>2
  <2>3. threat' \in [Alarms -> {"", "threat", "calm"}]
    BY <1>7 DEF UpdateAlarmAI
  <2> QED BY <1>7, <2>2, <2>3 DEF UpdateAlarmAI
<1>8. CASE UNCHANGED dispositionVars
  BY <1>8 DEF dispositionVars
<1> QED BY <1>1, <1>2, <1>3, <1>4, <1>5, <1>6, <1>7, <1>8 DEF DispositionNext

\* An acknowledging statement that succeeds, whoever came first.
LEMMA SignStep ==
    ASSUME DispositionInv, NEW r \in Requests, SignAcknowledgement(r)
    PROVE  /\ AckTimeMatchesCallsign' /\ UnackedHasNoCallsign'
           /\ ackedAt'[AlarmOf[r]] # NoRequest
           /\ \A a \in Alarms : ackedAt[a] # NoRequest => ackedAt'[a] = ackedAt[a]
           /\ \A a \in Alarms : ackCallsign[a] # NoUser => ackCallsign'[a] = ackCallsign[a]
<1>1. /\ AlarmOf[r] \in Alarms /\ UserOf[r] \in Users
      /\ r # NoRequest /\ UserOf[r] # NoUser
  BY AlarmOfType, DispositionAssumption
<1>2. ASSUME NEW a \in Alarms, a # AlarmOf[r]
      PROVE  ackedAt'[a] = ackedAt[a] /\ ackCallsign'[a] = ackCallsign[a]
  BY <1>2 DEF DispositionInv, DispositionTypeOK, SignAcknowledgement
<1>3. /\ ackedAt'[AlarmOf[r]] = Coalesce(ackedAt[AlarmOf[r]], NoRequest, r)
      /\ ackCallsign'[AlarmOf[r]] = Coalesce(ackCallsign[AlarmOf[r]], NoUser, UserOf[r])
  BY <1>1 DEF DispositionInv, DispositionTypeOK, SignAcknowledgement
<1>4. /\ ackedAt'[AlarmOf[r]] # NoRequest
      /\ ackedAt[AlarmOf[r]] # NoRequest => ackedAt'[AlarmOf[r]] = ackedAt[AlarmOf[r]]
      /\ ackCallsign[AlarmOf[r]] # NoUser => ackCallsign'[AlarmOf[r]] = ackCallsign[AlarmOf[r]]
      /\ ackCallsign'[AlarmOf[r]] = UserOf[ackedAt'[AlarmOf[r]]]
  <2>1. CASE ackedAt[AlarmOf[r]] = NoRequest
    <3>1. ackCallsign[AlarmOf[r]] = NoUser
      BY <2>1, <1>1 DEF DispositionInv, UnackedHasNoCallsign
    <3> QED BY <2>1, <3>1, <1>1, <1>3 DEF Coalesce
  <2>2. CASE ackedAt[AlarmOf[r]] # NoRequest
    <3>1. ackedAt[AlarmOf[r]] \in Requests
      BY <2>2, <1>1 DEF DispositionInv, DispositionTypeOK
    <3>2. ackCallsign[AlarmOf[r]] = UserOf[ackedAt[AlarmOf[r]]]
      BY <2>2, <1>1 DEF DispositionInv, AckTimeMatchesCallsign
    <3>3. ackCallsign[AlarmOf[r]] # NoUser
      BY <3>1, <3>2, AlarmOfType, DispositionAssumption
    <3> QED BY <2>2, <3>2, <3>3, <1>3 DEF Coalesce
  <2> QED BY <2>1, <2>2
<1>5. AckTimeMatchesCallsign'
  BY <1>2, <1>4 DEF DispositionInv, AckTimeMatchesCallsign
<1>6. UnackedHasNoCallsign'
  BY <1>2, <1>4 DEF DispositionInv, UnackedHasNoCallsign
<1> QED BY <1>2, <1>4, <1>5, <1>6

LEMMA DispositionStep ==
    DispositionInv /\ [DispositionNext]_dispositionVars =>
        AckTimeMatchesCallsign' /\ UnackedHasNoCallsign' /\ StatementsTookEffect'
<1> DEFINE Rest == AckTimeMatchesCallsign /\ UnackedHasNoCallsign /\ StatementsTookEffect
<1> SUFFICES ASSUME DispositionInv, [DispositionNext]_dispositionVars PROVE Rest'
  OBVIOUS
<1> USE AlarmOfType DEF DispositionInv, DispositionTypeOK, alarmVars
<1>q. ASSUME UNCHANGED <<ackedAt, ackCallsign>>
      PROVE  AckTimeMatchesCallsign' /\ UnackedHasNoCallsign'
  BY <1>q DEF AckTimeMatchesCallsign, UnackedHasNoCallsign
<1>1. ASSUME NEW r \in Requests, InsertEvent(r) PROVE Rest'
  BY <1>1, <1>q DEF InsertEvent, Advance, StatementsTookEffect, TookEffect
<1>2. ASSUME NEW r \in Requests, CloseAlarm(r) PROVE Rest'
  <2>1. CASE SignAcknowledgement(r) /\ UNCHANGED failed
    <3>1. /\ ackedAt'[AlarmOf[r]] # NoRequest
          /\ \A a \in Alarms : ackedAt[a] # NoRequest => ackedAt'[a] # NoRequest
      BY <2>1, SignStep
    <3>2. step' = [step EXCEPT ![r] = "closed"] /\ UNCHANGED <<ackUser, failed>>
      BY <1>2, <2>1 DEF CloseAlarm, Advance
    <3>3. ASSUME NEW q \in Requests PROVE TookEffect(q)'
      <4>1. CASE q = r
        BY <3>1, <3>2, <4>1 DEF TookEffect
      <4>2. CASE q # r
        <5>1. step'[q] = step[q] /\ TookEffect(q)
          BY <3>2, <4>2 DEF StatementsTookEffect
        <5> QED BY <3>1, <3>2, <5>1 DEF TookEffect
      <4> QED BY <4>1, <4>2
    <3>4. StatementsTookEffect'
      BY <3>3 DEF StatementsTookEffect
    <3> QED BY <2>1, <3>4, SignStep
  <2>2. CASE failed' = failed \cup {<<r, "close">>} /\ UNCHANGED <<ackedAt, ackCallsign>>
    <3>1. StatementsTookEffect'
      BY <1>2, <2>2 DEF CloseAlarm, Advance, StatementsTookEffect, TookEffect
    <3> QED BY <2>2, <3>1, <1>q
  <2> QED BY <1>2, <2>1, <2>2 DEF CloseAlarm
<1>3. ASSUME NEW r \in Requests, AcknowledgeAlarm(r) PROVE Rest'
  <2>1. CASE /\ SignAcknowledgement(r)
             /\ ackUser' = [ackUser EXCEPT ![AlarmOf[r]] = Coalesce(@, NoUser, UserOf[r])]
             /\ UNCHANGED failed
    <3>1. ackUser'[AlarmOf[r]] # NoUser
      BY <2>1, DispositionAssumption DEF Coalesce
    <3>2. \A a \in Alarms : ackUser[a] # NoUser => ackUser'[a] # NoUser
      BY <2>1, <3>1
    <3>3. /\ ackedAt'[AlarmOf[r]] # NoRequest
          /\ \A a \in Alarms : ackedAt[a] # NoRequest => ackedAt'[a] # NoRequest
      BY <2>1, SignStep
    <3>4. step' = [step EXCEPT ![r] = "acknowledged"] /\ UNCHANGED failed
      BY <1>3, <2>1 DEF AcknowledgeAlarm, Advance
    <3>5. ASSUME NEW q \in Requests PROVE TookEffect(q)'
      <4>1. CASE q = r
        BY <3>1, <3>3, <3>4, <4>1 DEF TookEffect
      <4>2. CASE q # r
        <5>1. step'[q] = step[q] /\ TookEffect(q)
          BY <3>4, <4>2 DEF StatementsTookEffect
        <5> QED BY <3>2, <3>3, <3>4, <5>1 DEF TookEffect
      <4> QED BY <4>1, <4>2
    <3>6. StatementsTookEffect'
      BY <3>5 DEF StatementsTookEffect
    <3> QED BY <2>1, <3>6, SignStep
  <2>2. CASE /\ failed' = failed \cup {<<r, "acknowledge">>}
             /\ UNCHANGED <<ackedAt, ackUser, ackCallsign>>
    <3>1. StatementsTookEffect'
      BY <1>3, <2>2 DEF AcknowledgeAlarm, Advance, StatementsTookEffect, TookEffect
    <3> QED BY <2>2, <3>1, <1>q
  <2> QED BY <1>3, <2>1, <2>2 DEF AcknowledgeAlarm
<1>4. ASSUME NEW r \in Requests, ReadAssessment(r) PROVE Rest'
  <2>1. step[r] = "acknowledged" /\ \E to \in {"done", "judging"} :
            step' = [step EXCEPT ![r] = to]
    BY <1>4 DEF ReadAssessment, Advance
  <2>2. UNCHANGED <<ackedAt, ackUser, ackCallsign, failed>>
    BY <1>4 DEF ReadAssessment
  <2> QED BY <2>1, <2>2, <1>q DEF StatementsTookEffect, TookEffect
<1>5. ASSUME NEW r \in Requests, StoreCorrectness(r) PROVE Rest'
  BY <1>5, <1>q DEF StoreCorrectness, Advance, StatementsTookEffect, TookEffect
<1>6. ASSUME UNCHANGED <<step, ackedAt, ackUser, ackCallsign, failed>> PROVE Rest'
  BY <1>6, <1>q DEF StatementsTookEffect, TookEffect
<1>7. ASSUME NEW r \in Requests, NEW u \in Supervisors, VerifySecurityEvent(r, u) PROVE Rest'
  BY <1>6, <1>7 DEF VerifySecurityEvent
<1>8. ASSUME NEW a \in Alarms, NEW verdict \in {"threat", "calm"}, UpdateAlarmAI(a, verdict)
      PROVE  Rest'
  BY <1>6, <1>8 DEF UpdateAlarmAI
<1>9. CASE UNCHANGED dispositionVars
  BY <1>6, <1>9 DEF dispositionVars
<1> QED BY <1>1, <1>2, <1>3, <1>4, <1>5, <1>7, <1>8, <1>9 DEF DispositionNext

LEMMA DispositionInductive == DispositionSpec => []DispositionInv
<1>1. DispositionInv /\ [DispositionNext]_dispositionVars => DispositionInv'
  BY DispositionTypeStep, DispositionStep DEF DispositionInv
<1> QED BY <1>1, DispositionInitInv, PTL DEF DispositionSpec

\* Type correctness of the disposition handlers and the columns they write.
THEOREM DispositionTypeCorrect == DispositionSpec => []DispositionTypeOK
<1>1. DispositionInv => DispositionTypeOK
  BY DEF DispositionInv
<1> QED BY <1>1, DispositionInductive, PTL

\* acknowledged_at and acknowledged_by_callsign of an alarm always come from
\* one request, for any number of racing dispositions and failed statements.
THEOREM AckNamesFirstOperator == DispositionSpec => []AckTimeMatchesCallsign
<1>1. DispositionInv => AckTimeMatchesCallsign
  BY DEF DispositionInv
<1> QED BY <1>1, DispositionInductive, PTL

\* An answered disposition took its alarm out of the dispatch queue unless
\* both of its own UPDATEs failed.
THEOREM AnsweredIsAcknowledged == DispositionSpec => []DoneMeansAcknowledged
<1>1. DispositionInv => DoneMeansAcknowledged
  BY DEF DispositionInv, StatementsTookEffect, TookEffect, DoneMeansAcknowledged
<1> QED BY <1>1, DispositionInductive, PTL

\* No later request rewrites who signed an event off, who acknowledged an
\* alarm, or when.
THEOREM FirstSignatureStands == DispositionSpec => FirstActionStands
<1> DEFINE Signed == \A r \in Requests :
                       verifiedBy[r] # NoUser => verifiedBy'[r] = verifiedBy[r]
           Acked == \A a \in Alarms :
                      /\ ackedAt[a] # NoRequest => ackedAt'[a] = ackedAt[a]
                      /\ ackUser[a] # NoUser => ackUser'[a] = ackUser[a]
                      /\ ackCallsign[a] # NoUser => ackCallsign'[a] = ackCallsign[a]
<1>1. ASSUME DispositionInv, [DispositionNext]_dispositionVars PROVE Signed
  <2>1. CASE UNCHANGED verifiedBy
    BY <2>1
  <2>2. ASSUME NEW r \in Requests, NEW u \in Supervisors, VerifySecurityEvent(r, u)
        PROVE  Signed
    BY <1>1, <2>2 DEF VerifySecurityEvent, Verifiable, DispositionInv, DispositionTypeOK
  <2> QED BY <1>1, <2>1, <2>2
          DEF DispositionNext, dispositionVars, InsertEvent, CloseAlarm, AcknowledgeAlarm, ReadAssessment,
              StoreCorrectness, UpdateAlarmAI
<1>2. ASSUME DispositionInv, [DispositionNext]_dispositionVars PROVE Acked
  <2>1. CASE UNCHANGED <<ackedAt, ackUser, ackCallsign>>
    BY <2>1
  <2>2. ASSUME NEW r \in Requests, CloseAlarm(r) PROVE Acked
    BY <1>2, <2>2, SignStep DEF CloseAlarm
  <2>3. ASSUME NEW r \in Requests, AcknowledgeAlarm(r) PROVE Acked
    <3>1. \A a \in Alarms : ackUser[a] # NoUser => ackUser'[a] = ackUser[a]
      BY <1>2, <2>3 DEF AcknowledgeAlarm, Coalesce, DispositionInv, DispositionTypeOK
    <3> QED BY <1>2, <2>3, <3>1, SignStep DEF AcknowledgeAlarm
  <2> QED BY <1>2, <2>1, <2>2, <2>3
          DEF DispositionNext, dispositionVars, alarmVars, InsertEvent, ReadAssessment, StoreCorrectness,
              UpdateAlarmAI, VerifySecurityEvent
<1>3. DispositionInv /\ [DispositionNext]_dispositionVars => [Signed /\ Acked]_dispositionVars
  BY <1>1, <1>2
<1> QED BY <1>3, DispositionInductive, PTL DEF DispositionSpec, FirstActionStands

-----------------------------------------------------------------------------
(* The score *)

(* The highest rung of a ladder is the one that bounds the others. *)
LEMMA TopRung ==
    ASSUME NEW rungs \in SUBSET (1..4), NEW n \in rungs, \A m \in rungs : m <= n
    PROVE  (CHOOSE k \in rungs : \A m \in rungs : m <= k) = n
<1>1. \A k \in rungs : (\A m \in rungs : m <= k) => k = n
  OBVIOUS
<1> QED BY <1>1

(* For every set of factors the nested conditions of previewAVSScore find    *)
(* the highest rung that the server's ladder has.                            *)
LEMMA PreviewFindsTopRung == PreviewIsTheScore
<1> SUFFICES ASSUME NEW f \in SUBSET Factors PROVE previewAVSScore(f) = ComputeScore(f)
  BY DEF PreviewIsTheScore
<1> DEFINE helped == \E c \in Corroboration : c \in f
           crime  == "weapon_observed" \in f \/ "active_crime" \in f
           person == "person_detected" \in f
           rungs  == {1} \cup {n \in 2..4 : \/ n = 2 /\ person
                                            \/ n = 3 /\ helped
                                            \/ n = 4 /\ crime}
           top    == CHOOSE n \in rungs : \A m \in rungs : m <= n
<1>1. ComputeScore(f) = IF "video_verified" \in f THEN top ELSE 0
  BY DEF ComputeScore
<1>2. Corroboration = {"suspicious_behavior", "multi_camera_evidence", "multi_sensor_evidence",
                       "audio_verified", "talkdown_ignored", "auth_failure"}
  BY DEF Corroboration, Factors
<1>3. helped <=> f \cap {"suspicious_behavior", "multi_camera_evidence", "multi_sensor_evidence",
                         "audio_verified", "talkdown_ignored", "auth_failure"} # {}
  BY <1>2
<1>4. crime <=> f \cap {"weapon_observed", "active_crime"} # {}
  OBVIOUS
<1> HIDE DEF helped, crime, person
<1>r. rungs \in SUBSET (1..4)
  OBVIOUS
<1>5. CASE crime
  <2>1. 4 \in rungs /\ \A m \in rungs : m <= 4
    BY <1>5
  <2>2. top = 4
    BY <2>1, <1>r, TopRung
  <2> QED BY <1>1, <1>4, <1>5, <2>2 DEF previewAVSScore
<1>6. CASE ~crime /\ helped
  <2>1. 3 \in rungs /\ \A m \in rungs : m <= 3
    BY <1>6
  <2>2. top = 3
    BY <2>1, <1>r, TopRung
  <2> QED BY <1>1, <1>3, <1>4, <1>6, <2>2 DEF previewAVSScore
<1>7. CASE ~crime /\ ~helped /\ person
  <2>1. 2 \in rungs /\ \A m \in rungs : m <= 2
    BY <1>7
  <2>2. top = 2
    BY <2>1, <1>r, TopRung
  <2> QED BY <1>1, <1>3, <1>4, <1>7, <2>2 DEF previewAVSScore, person
<1>8. CASE ~crime /\ ~helped /\ ~person
  <2>1. 1 \in rungs /\ \A m \in rungs : m <= 1
    BY <1>8
  <2>2. top = 1
    BY <2>1, <1>r, TopRung
  <2> QED BY <1>1, <1>3, <1>4, <1>8, <2>2 DEF previewAVSScore, person
<1> QED BY <1>5, <1>6, <1>7, <1>8

-----------------------------------------------------------------------------
(* The desk *)

(* A view that is not shown holds nothing: it was never opened, or its       *)
(* unmounting dropped its state, its requests and its timers.                *)
ClosedViewIsFresh == ~ViewShown => view = FreshView /\ fires = 0 /\ closers = 0

(* deterrenceBusy says exactly whether a siren is on the way. *)
BusyCountsFires == fires = IF view.busy THEN 1 ELSE 0

DeskInv == TypeOK /\ CompletedStepsAreLogged /\ ClosedViewIsFresh /\ BusyCountsFires

LEMMA FreshTypes == FreshView \in ViewType /\ FreshDesk \in DeskType
BY BoundsAreSet DEF FreshView, FreshDesk, ViewType, DeskType, Codes

LEMMA DeskInit == Init => DeskInv
<1> SUFFICES ASSUME Init PROVE DeskInv
  OBVIOUS
<1>1. TypeOK
  <2>1. MaxEsc \in Nat /\ MaxCalls \in Nat
    BY BoundsAreSet
  <2>2. level \in [active : 0..MaxEsc, feed : 0..MaxEsc]
    BY <2>1 DEF Init
  <2>3. view \in ViewType /\ desk \in DeskType /\ 0 \in 0..MaxCalls
    BY <2>1, FreshTypes DEF Init
  <2>4. fires \in 0..MaxCalls /\ closers \in 0..MaxCalls /\ handoffs \in 0..1
    BY <2>3 DEF Init
  <2>5. /\ scene \in {"console", "alarm"}
        /\ status \in {"available", "engaged", "wrap_up", "break", "away"}
        /\ claim \in {"free", "mine", "other"}
        /\ active \in BOOLEAN /\ last \in BOOLEAN /\ log \subseteq {"auto", "sop", "escalated"}
    BY DEF Init
  <2> QED BY <2>2, <2>3, <2>4, <2>5 DEF TypeOK
<1>2. CompletedStepsAreLogged /\ ClosedViewIsFresh /\ BusyCountsFires
  BY DEF Init, CompletedStepsAreLogged, ClosedViewIsFresh, BusyCountsFires, FreshView
<1> QED BY <1>1, <1>2 DEF DeskInv

(* Every action of the desk keeps the types. *)
LEMMA DeskTypeStep == DeskInv /\ Next => TypeOK'
<1> SUFFICES ASSUME DeskInv, Next PROVE TypeOK'
  OBVIOUS
<1>a. TypeOK
  BY DEF DeskInv
<1>v. view \in ViewType /\ desk \in DeskType
  BY <1>a DEF TypeOK
<1>n. MaxEsc \in Nat /\ MaxCalls \in Nat /\ WrapUpTicks \in Nat /\ 0 \in 0..MaxCalls
  BY BoundsAreSet
<1>1. CASE handleClaim \/ handleRelease \/ ReadyForNext
  BY <1>1, <1>a, <1>n DEF handleClaim, handleRelease, ReadyForNext, TypeOK
<1>2. CASE handleAccept
  BY <1>2, <1>a, <1>n DEF handleAccept, IncomingShown, TypeOK
<1>3. ASSUME NEW p \in BOOLEAN, OpenAlarm(p) PROVE TypeOK'
  BY <1>3, <1>a, <1>n DEF OpenAlarm, TypeOK
<1>4. CASE EnterAlarmPage
  <2>1. view' \in ViewType
    BY <1>4, FreshTypes DEF EnterAlarmPage
  <2>2. desk' \in DeskType
    BY <1>4, FreshTypes DEF EnterAlarmPage
  <2> QED BY <1>4, <1>a, <1>n, <2>1, <2>2 DEF EnterAlarmPage, TypeOK
<1>5. CASE EnterConsole
  <2>1. desk' \in DeskType
    BY <1>5, FreshTypes DEF EnterConsole
  <2> QED BY <1>5, <1>a, <1>n, <2>1 DEF EnterConsole, TypeOK
<1>6. CASE WrapUpTick
  <2>1. desk' \in DeskType
    BY <1>6, <1>v, <1>n DEF WrapUpTick, DeskType
  <2> QED BY <1>6, <1>a, <1>n, <2>1 DEF WrapUpTick, TypeOK
<1>7. ASSUME NEW s \in {"available", "break", "away"}, setOperatorStatus(s) PROVE TypeOK'
  <2>1. desk' \in DeskType
    BY <1>7, <1>v, <1>n DEF setOperatorStatus, DeskType
  <2> QED BY <1>7, <1>a, <1>n, <2>1 DEF setOperatorStatus, TypeOK
<1>8. ASSUME NEW t \in {"incoming", "create"}, HandoffTab(t) PROVE TypeOK'
  <2>1. desk' \in DeskType
    BY <1>8, <1>v, <1>n DEF HandoffTab, DeskType
  <2> QED BY <1>8, <1>a, <1>n, <2>1 DEF HandoffTab, TypeOK
<1>9. CASE ToggleStatusPicker \/ ExportEvidence \/ OpenHandoff \/ HandoffLoaded
  <2>1. desk' \in DeskType
    BY <1>9, <1>v, <1>n DEF ToggleStatusPicker, ExportEvidence, OpenHandoff, HandoffLoaded, DeskType
  <2> QED BY <1>9, <1>a, <1>n, <2>1 DEF ToggleStatusPicker, ExportEvidence, OpenHandoff, HandoffLoaded, TypeOK
<1>10. CASE ChooseTarget \/ handleCreate \/ CloseDialogs
  <2>1. desk' \in DeskType
    BY <1>10, <1>v, <1>n DEF ChooseTarget, handleCreate, CloseDialogs, DeskType
  <2> QED BY <1>10, <1>a, <1>n, <2>1 DEF ChooseTarget, handleCreate, CloseDialogs, TypeOK
<1>11. CASE HandoffCreated
  <2>1. desk' \in DeskType
    BY <1>11, <1>v, <1>n DEF HandoffCreated, DeskType
  <2> QED BY <1>11, <1>a, <1>n, <2>1 DEF HandoffCreated, TypeOK
<1>12. ASSUME NEW t \in {"assess", "respond", "resolve"}, SetTab(t) PROVE TypeOK'
  <2>1. view' \in ViewType
    BY <1>12, <1>v DEF SetTab, ViewType, Codes
  <2> QED BY <1>12, <1>a, <1>n, <2>1 DEF SetTab, TypeOK
<1>13. CASE SwitchView \/ SwitchCamera \/ TimelineSwitch \/ copyPhone \/ quickLog
  BY <1>13, <1>a, <1>n DEF SwitchView, SwitchCamera, TimelineSwitch, copyPhone, quickLog, LogEntry, TypeOK
<1>14. CASE SOPsLoaded \/ toggleSopStep \/ handleFeedback
  <2>1. view' \in ViewType
    BY <1>14, <1>v DEF SOPsLoaded, toggleSopStep, handleFeedback, ViewType, Codes
  <2> QED BY <1>14, <1>a, <1>n, <2>1 DEF SOPsLoaded, toggleSopStep, handleFeedback, TypeOK
<1>15. CASE ToggleConfirm \/ ToggleDeterrence \/ PressDigit \/ PrefixTimer
  <2>1. view' \in ViewType
    BY <1>15, <1>v DEF ToggleConfirm, ToggleDeterrence, PressDigit, PrefixTimer, ViewType, Codes
  <2> QED BY <1>15, <1>a, <1>n, <2>1 DEF ToggleConfirm, ToggleDeterrence, PressDigit, PrefixTimer, TypeOK
<1>16. CASE escalateActiveAlarm
  <2>1. view' \in ViewType
    BY <1>16, <1>v DEF escalateActiveAlarm, ViewType, Codes
  <2> QED BY <1>16, <1>a, <1>n, <2>1 DEF escalateActiveAlarm, TypeOK
<1>17. CASE FireDeterrence \/ DeterrenceAnswered \/ PopoverTimer
  <2>1. view' \in ViewType
    BY <1>17, <1>v DEF FireDeterrence, DeterrenceAnswered, PopoverTimer, ViewType, Codes
  <2> QED BY <1>17, <1>a, <1>n, <2>1 DEF FireDeterrence, DeterrenceAnswered, PopoverTimer, TypeOK
<1>18. ASSUME NEW p \in {"f", "v"}, PressPrefix(p) PROVE TypeOK'
  <2>1. view' \in ViewType
    BY <1>18, <1>v DEF PressPrefix, ViewType, Codes
  <2> QED BY <1>18, <1>a, <1>n, <2>1 DEF PressPrefix, TypeOK
<1>19. ASSUME NEW c \in Codes, PickCard(c) PROVE TypeOK'
  <2>1. view' \in ViewType
    BY <1>19, <1>v DEF PickCard, ViewType, Codes
  <2> QED BY <1>19, <1>a, <1>n, <2>1 DEF PickCard, TypeOK
<1>20. CASE handleSubmit
  <2>1. view' \in ViewType
    BY <1>20, FreshTypes DEF handleSubmit, Unmounted
  <2> QED BY <1>20, <1>a, <1>n, <2>1 DEF handleSubmit, Unmounted, TypeOK
<1>21. CASE handleAbandon
  <2>1. view' \in ViewType
    BY <1>21, FreshTypes DEF handleAbandon, Unmounted
  <2> QED BY <1>21, <1>a, <1>n, <2>1 DEF handleAbandon, Unmounted, TypeOK
<1> QED
  BY <1>1, <1>2, <1>3, <1>4, <1>5, <1>6, <1>7, <1>8, <1>9, <1>10, <1>11, <1>12, <1>13, <1>14,
     <1>15, <1>16, <1>17, <1>18, <1>19, <1>20, <1>21 DEF Next

(* Every action keeps a closed view empty, its siren counted and its ticked  *)
(* steps logged.                                                             *)
LEMMA DeskViewStep ==
    DeskInv /\ Next => CompletedStepsAreLogged' /\ ClosedViewIsFresh' /\ BusyCountsFires'
<1> DEFINE Rest == CompletedStepsAreLogged /\ ClosedViewIsFresh /\ BusyCountsFires
<1> SUFFICES ASSUME DeskInv, Next PROVE Rest'
  OBVIOUS
<1>a. /\ Rest /\ view \in ViewType /\ fires \in Nat /\ active \in BOOLEAN
      /\ ~FreshView.checked /\ ~FreshView.busy
  BY BoundsAreSet DEF DeskInv, TypeOK, FreshView
(* The widgets outside the view touch neither its state nor the log. *)
<1>o. ASSUME UNCHANGED <<scene, active, log, view, fires, closers>> PROVE Rest'
  BY <1>a, <1>o DEF CompletedStepsAreLogged, ClosedViewIsFresh, BusyCountsFires, ViewShown
<1>w. ASSUME ViewShown, UNCHANGED <<scene, active, fires>>, log \subseteq log',
             view'.busy = view.busy, view'.checked => view.checked \/ "sop" \in log'
      PROVE  Rest'
  BY <1>a, <1>w DEF CompletedStepsAreLogged, ClosedViewIsFresh, BusyCountsFires, ViewShown
<1>1. CASE \/ handleClaim \/ handleRelease \/ ReadyForNext \/ handleAccept \/ WrapUpTick
           \/ ToggleStatusPicker \/ ExportEvidence \/ OpenHandoff \/ HandoffLoaded \/ ChooseTarget
           \/ handleCreate \/ HandoffCreated \/ CloseDialogs
  BY <1>1, <1>o DEF handleClaim, handleRelease, ReadyForNext, handleAccept, WrapUpTick,
           ToggleStatusPicker, ExportEvidence, OpenHandoff, HandoffLoaded, ChooseTarget,
           handleCreate, HandoffCreated, CloseDialogs
<1>2. ASSUME NEW p \in BOOLEAN, OpenAlarm(p) PROVE Rest'
  BY <1>2, <1>a DEF OpenAlarm, FeedShown, CompletedStepsAreLogged, ClosedViewIsFresh,
                    BusyCountsFires, ViewShown
<1>3. CASE EnterAlarmPage
  BY <1>3, <1>a DEF EnterAlarmPage, CompletedStepsAreLogged, ClosedViewIsFresh, BusyCountsFires,
                    ViewShown
<1>4. CASE EnterConsole
  BY <1>4, <1>a DEF EnterConsole, CompletedStepsAreLogged, ClosedViewIsFresh, BusyCountsFires,
                    ViewShown
<1>5. ASSUME NEW s, setOperatorStatus(s) \/ HandoffTab(s) PROVE Rest'
  BY <1>5, <1>o DEF setOperatorStatus, HandoffTab
<1>6. ASSUME NEW t, SetTab(t) \/ PressPrefix(t) PROVE Rest'
  <2>1. view'.busy = view.busy /\ view'.checked = view.checked
    BY <1>6, <1>a DEF SetTab, PressPrefix, ViewType
  <2> QED BY <1>6, <2>1, <1>w DEF SetTab, PressPrefix
<1>7. ASSUME NEW c, PickCard(c) PROVE Rest'
  <2>1. view'.busy = view.busy /\ view'.checked = view.checked
    BY <1>7, <1>a DEF PickCard, ViewType
  <2> QED BY <1>7, <2>1, <1>w DEF PickCard, ResolveShown
<1>8. CASE SwitchView \/ SwitchCamera \/ TimelineSwitch \/ copyPhone \/ quickLog
  BY <1>8, <1>w DEF SwitchView, SwitchCamera, TimelineSwitch, copyPhone, quickLog, LogEntry,
                    AssessShown, RespondShown
<1>9. CASE SOPsLoaded
  <2>1. view'.busy = view.busy /\ view'.checked = FALSE
    BY <1>9, <1>a DEF SOPsLoaded, ViewType
  <2> QED BY <1>9, <2>1, <1>w DEF SOPsLoaded
<1>10. CASE toggleSopStep
  <2>1. view'.busy = view.busy /\ (view'.checked <=> ~view.checked)
    BY <1>10, <1>a DEF toggleSopStep, ViewType
  <2> QED BY <1>10, <2>1, <1>w DEF toggleSopStep, RespondShown
<1>11. CASE handleFeedback \/ ToggleConfirm \/ ToggleDeterrence \/ PressDigit
  <2>1. view'.busy = view.busy /\ view'.checked = view.checked
    <3>1. CASE handleFeedback \/ ToggleConfirm
      BY <3>1, <1>a DEF handleFeedback, ToggleConfirm, ViewType
    <3>2. CASE ToggleDeterrence
      BY <3>2, <1>a DEF ToggleDeterrence, ViewType
    <3>3. CASE PressDigit
      BY <3>3, <1>a DEF PressDigit, ViewType
    <3> QED BY <1>11, <3>1, <3>2, <3>3
  <2> QED BY <1>11, <2>1, <1>w DEF handleFeedback, ToggleConfirm, ToggleDeterrence, PressDigit,
                                   AssessShown
<1>12. CASE escalateActiveAlarm
  <2>1. view'.busy = view.busy /\ view'.checked = view.checked
    BY <1>12, <1>a DEF escalateActiveAlarm, ViewType
  <2> QED BY <1>12, <2>1, <1>w DEF escalateActiveAlarm
(* A timer of a view that is gone does not go off: it has been dropped. *)
<1>13. CASE PopoverTimer \/ PrefixTimer
  <2>1. view'.busy = view.busy /\ view'.checked = view.checked
    BY <1>13, <1>a DEF PopoverTimer, PrefixTimer, ViewType
  <2>2. ViewShown
    <3>1. ~FreshView.timer
      BY DEF FreshView
    <3> QED BY <1>13, <1>a, <3>1 DEF PopoverTimer, PrefixTimer, ClosedViewIsFresh
  <2> QED BY <1>13, <2>1, <2>2, <1>w DEF PopoverTimer, PrefixTimer
<1>14. CASE FireDeterrence
  <2>1. view'.busy = TRUE /\ view'.checked = view.checked
    BY <1>14, <1>a DEF FireDeterrence, ViewType
  <2>2. fires' = 1
    BY <1>14, <1>a DEF FireDeterrence, BusyCountsFires
  <2> QED BY <1>14, <1>a, <2>1, <2>2 DEF FireDeterrence, CompletedStepsAreLogged,
             ClosedViewIsFresh, BusyCountsFires, ViewShown
<1>15. CASE DeterrenceAnswered
  <2>1. view'.busy = FALSE /\ view'.checked = view.checked
    BY <1>15, <1>a DEF DeterrenceAnswered, ViewType
  <2>2. fires' = 0
    BY <1>15, <1>a DEF DeterrenceAnswered, BusyCountsFires
  <2> QED BY <1>15, <1>a, <2>1, <2>2 DEF DeterrenceAnswered, CompletedStepsAreLogged,
             ClosedViewIsFresh, BusyCountsFires, ViewShown
<1>16. CASE handleSubmit \/ handleAbandon
  BY <1>16, <1>a DEF handleSubmit, handleAbandon, Unmounted, CompletedStepsAreLogged,
                     ClosedViewIsFresh, BusyCountsFires, ViewShown
<1> QED
  BY <1>1, <1>2, <1>3, <1>4, <1>5, <1>6, <1>7, <1>8, <1>9, <1>10, <1>11, <1>12, <1>13, <1>14,
     <1>15, <1>16 DEF Next

LEMMA DeskInductive == Spec => []DeskInv
<1>1. DeskInv /\ [Next]_vars => DeskInv'
  <2>1. CASE Next
    BY <2>1, DeskTypeStep, DeskViewStep DEF DeskInv
  <2>2. CASE UNCHANGED vars
    BY <2>2 DEF DeskInv, TypeOK, CompletedStepsAreLogged, ClosedViewIsFresh, BusyCountsFires,
                ViewShown, vars
  <2> QED BY <2>1, <2>2
<1> QED BY <1>1, DeskInit, PTL DEF Spec

(* What the view shows is what the record will say: the types, an entry in   *)
(* the action log for every step shown as done, however tabs, procedures and *)
(* alarms change, and the server's score in the preview of every choice of   *)
(* factors.                                                                  *)
THEOREM DeskIsInvariant == Spec => []DeskInvariant
<1>1. DeskInv => DeskInvariant
  BY PreviewFindsTopRung DEF DeskInv, DeskInvariant
<1> QED BY <1>1, DeskInductive, PTL

(* A view has at most one deterrence request in flight, through popovers that *)
(* close by themselves and views that are unmounted in the middle of it.      *)
THEOREM OneSirenPerView == Spec => []OneDeterrenceRunning
<1>1. DeskInv => OneDeterrenceRunning
  BY DEF DeskInv, BusyCountsFires, OneDeterrenceRunning
<1> QED BY <1>1, DeskInductive, PTL
=============================================================================
