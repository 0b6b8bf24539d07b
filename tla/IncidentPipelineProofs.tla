----------------------- MODULE IncidentPipelineProofs -----------------------
(***************************************************************************)
(* For any finite set of events, sites and faults: the alarm count of an   *)
(* incident never under-reports, no alarm loses its incident, and no       *)
(* incident is less severe than an alarm counted in it.                    *)
(***************************************************************************)
EXTENDS IncidentPipeline, FiniteSetTheorems, TLAPS

\* What the goroutine's program counter says of its local variables: who is
\* about to insert or attach has an incident number, who has found an open
\* incident did not create it, and only an attach can be without effect.
LocalsInv ==
    \A a \in Alarms :
        /\ pc[a] \in {"numbered", "found"} => inc[a] \in Incidents
        /\ pc[a] = "found" => ~isNew[a]
        /\ pc[a] \in {"idle", "fired", "none", "numbered", "found"} => ~detached[a]
        /\ isNew[a] => ~detached[a]

\* The inductive invariant.
PipelineInv ==
    /\ TypeOK
    /\ LocalsInv
    /\ CountCoversAlarms
    /\ AlarmKeepsIncident
    /\ SeverityCoversAlarms

LEMMA MembersFinite ==
    ASSUME NEW i
    PROVE  IsFiniteSet(Members(i)) /\ Cardinality(Members(i)) \in Nat
<1>1. Members(i) \subseteq Alarms
  BY DEF Members
<1> QED BY <1>1, FS_Subset, FS_CardinalityType, PipelineAssumption

\* A step that adds no member and lowers no count keeps the counts covering.
LEMMA CountsKeep ==
    ASSUME CountCoversAlarms, TypeOK, TypeOK',
           \A i \in Incidents : Members(i)' \subseteq Members(i),
           \A i \in Incidents : row'[i].exists => row[i].exists /\ row[i].count <= row'[i].count
    PROVE  CountCoversAlarms'
<1> SUFFICES ASSUME NEW i \in Incidents, Exists(i)'
             PROVE  Cardinality(Members(i)') <= row'[i].count
  BY DEF CountCoversAlarms
<1>1. row'[i].exists /\ row[i].exists /\ row[i].count <= row'[i].count
  BY DEF Exists
<1>2. Cardinality(Members(i)) <= row[i].count
  BY <1>1 DEF CountCoversAlarms, Exists
<1>3. Cardinality(Members(i)') <= Cardinality(Members(i)) /\ Cardinality(Members(i)') \in Nat
  BY MembersFinite, FS_Subset, FS_CardinalityType
<1>4. row[i].count \in Nat /\ row'[i].count \in Nat
  BY DEF TypeOK, RowType
<1> QED BY <1>1, <1>2, <1>3, <1>4, MembersFinite

LEMMA PipelineInit == Init => PipelineInv
<1> SUFFICES ASSUME Init PROVE PipelineInv
  OBVIOUS
<1> USE PipelineAssumption DEF Init
<1>1. Cardinality(Alarms) \in Nat
  BY FS_CardinalityType
<1>2. TypeOK
  BY <1>1 DEF TypeOK, RowType, NoRow, States, Times, Codes, Severities
<1>3. LocalsInv /\ CountCoversAlarms /\ AlarmKeepsIncident /\ SeverityCoversAlarms
  BY DEF LocalsInv, CountCoversAlarms, AlarmKeepsIncident, SeverityCoversAlarms, Exists,
         Counted, NoRow
<1> QED BY <1>2, <1>3 DEF PipelineInv

\* What the three assignments of the UPDATE do to one row.
LEMMA RowUpdate ==
    ASSUME NEW r \in RowType, NEW s, NEW t
    PROVE  /\ [r EXCEPT !.count = @ + 1, !.severity = s, !.last = t].exists = r.exists
           /\ [r EXCEPT !.count = @ + 1, !.severity = s, !.last = t].count = r.count + 1
           /\ [r EXCEPT !.count = @ + 1, !.severity = s, !.last = t].severity = s
BY DEF RowType

LEMMA AttachedRow ==
    ASSUME TypeOK, NEW a \in Alarms, Exists(inc[a])
    PROVE  /\ Attached(a) \in [Incidents ->
                 RowType]
           /\ \A i \in Incidents :
                /\ Attached(a)[i].exists = row[i].exists
                /\ row[i].severity <= Attached(a)[i].severity
                /\ i # inc[a] => Attached(a)[i] = row[i]
           /\ SeverityOf[a] <= Attached(a)[inc[a]].severity
           /\ Attached(a)[inc[a]].count = row[inc[a]].count + 1
<1> USE PipelineAssumption DEF TypeOK, Exists
<1>1. SeverityOf[a] \in 1..3 /\ ts[a] \in Times /\ inc[a] \in Incidents
  BY DEF Severities
<1>2. \A s \in 1..3 : /\ Raise(s, SeverityOf[a]) \in 1..3
                       /\ s <= Raise(s, SeverityOf[a])
                       /\ SeverityOf[a] <= Raise(s, SeverityOf[a])
  BY <1>1 DEF Raise
<1>3. \A i \in Incidents : i # inc[a] => Attached(a)[i] = row[i]
  BY <1>1 DEF Attached
<1>4. Attached(a)[inc[a]] = [row[inc[a]] EXCEPT !.count = @ + 1,
                                                !.severity = Raise(@, SeverityOf[a]),
                                                !.last = ts[a]]
  BY <1>1 DEF Attached
<1>5. Attached(a)[inc[a]] \in RowType
  <2>1. row[inc[a]] \in RowType
    BY <1>1
  <2>2. Raise(row[inc[a]].severity, SeverityOf[a]) \in 1..3 /\ row[inc[a]].count + 1 \in Nat
    BY <1>2, <2>1 DEF RowType, Severities
  <2> QED BY <1>1, <1>4, <2>1, <2>2 DEF RowType, Severities
<1>6. DOMAIN Attached(a) = Incidents /\ Attached(a) = [i \in Incidents |-> Attached(a)[i]]
  BY DEF Attached
<1>7. \A i \in Incidents : row[i] \in RowType /\ row[i].severity \in 1..3 /\ row[i].count \in Nat
  BY DEF Severities, RowType
<1>8. Attached(a) \in [Incidents -> RowType]
  BY <1>3, <1>5, <1>6, <1>7
<1>9. /\ Attached(a)[inc[a]].exists = row[inc[a]].exists
      /\ Attached(a)[inc[a]].count = row[inc[a]].count + 1
      /\ Attached(a)[inc[a]].severity = Raise(row[inc[a]].severity, SeverityOf[a])
  <2> DEFINE r == row[inc[a]]
  <2>1. r \in RowType
    BY <1>1, <1>7
  <2>2. Attached(a)[inc[a]] = [r EXCEPT !.count = @ + 1,
                                        !.severity = Raise(r.severity, SeverityOf[a]),
                                        !.last = ts[a]]
    BY <1>4, <2>1 DEF RowType
  <2> HIDE DEF r
  <2>3. /\ Attached(a)[inc[a]].exists = r.exists
        /\ Attached(a)[inc[a]].count = r.count + 1
        /\ Attached(a)[inc[a]].severity = Raise(r.severity, SeverityOf[a])
    BY <2>1, <2>2, RowUpdate
  <2> QED BY <2>3 DEF r
<1>10. \A i \in Incidents : /\ Attached(a)[i].exists = row[i].exists
                             /\ row[i].severity <= Attached(a)[i].severity
  <2> SUFFICES ASSUME NEW i \in Incidents
               PROVE  /\ Attached(a)[i].exists = row[i].exists
                      /\ row[i].severity <= Attached(a)[i].severity
    OBVIOUS
  <2>1. CASE i = inc[a]
    BY <1>2, <1>7, <1>9, <2>1
  <2>2. CASE i # inc[a]
    BY <1>3, <1>7, <2>2
  <2> QED BY <2>1, <2>2
<1>11. SeverityOf[a] <= Attached(a)[inc[a]].severity
  BY <1>1, <1>2, <1>7, <1>9
<1> QED BY <1>3, <1>8, <1>9, <1>10, <1>11

LEMMA PipelineTypeStep == PipelineInv /\ [Next]_vars => TypeOK'
<1> SUFFICES ASSUME PipelineInv, [Next]_vars PROVE TypeOK'
  OBVIOUS
<1> USE PipelineAssumption DEF PipelineInv, TypeOK, RowType, Goto, Fault, locals, tables, States, Times
<1>1. CASE Tick
  BY <1>1 DEF Tick
<1>2. CASE ServerCrash
  BY <1>2 DEF ServerCrash
<1>3. ASSUME NEW a \in Alarms, Fire(a) PROVE TypeOK'
  BY <1>3 DEF Fire, Keys
<1>4. ASSUME NEW a \in Alarms, Goroutine(a) PROVE TypeOK'
  <2>1. CASE FindOpenIncident(a)
    BY <2>1 DEF FindOpenIncident, Open
  <2>2. CASE FindNoIncident(a)
    BY <2>2 DEF FindNoIncident
  <2>3. CASE NextIncidentID(a)
    BY <2>3 DEF NextIncidentID
  <2>4. CASE InsertIncident(a)
    BY <2>4 DEF InsertIncident, LocalsInv, Severities
  <2>5. CASE CreateIncidentFails(a)
    BY <2>5 DEF CreateIncidentFails
  <2>6. CASE AttachAlarmToIncident(a)
    <3>1. CASE UNCHANGED row
      <4>1. /\ pc' = [pc EXCEPT ![a] = "linked"]
            /\ faults' = faults \/ (faults < MaxFaults /\ faults' = faults + 1)
            /\ detached' = detached \/ detached' = [detached EXCEPT ![a] = TRUE]
            /\ UNCHANGED <<now, mutedUntil, ts, inc, isNew, code, acked, acking>>
        BY <2>6 DEF AttachAlarmToIncident
      <4>2. pc' \in [Alarms -> States] /\ faults' \in 0..MaxFaults
        BY <4>1
      <4>3. detached' \in [Alarms -> BOOLEAN]
        BY <4>1
      <4> QED BY <3>1, <4>1, <4>2, <4>3
    <3>2. CASE /\ Exists(inc[a])
               /\ row' = Attached(a)
               /\ UNCHANGED <<detached, faults>>
      BY <2>6, <3>2, AttachedRow DEF AttachAlarmToIncident
    <3> QED BY <2>6, <3>1, <3>2 DEF AttachAlarmToIncident
  <2>7. CASE NextAlarmCode(a)
    BY <2>7 DEF NextAlarmCode
  <2>8. CASE InsertAlarm(a)
    BY <2>8 DEF InsertAlarm
  <2>9. CASE CreateAlarmFails(a)
    BY <2>9 DEF CreateAlarmFails
  <2>10. CASE Compensate(a)
    <3>1. NoRow \in RowType
      BY DEF NoRow, Severities
    <3>2. row' = row \/ row' = [row EXCEPT ![inc[a]] = NoRow]
      BY <2>10 DEF Compensate
    <3>3. row' \in [Incidents ->
            RowType]
      BY <3>1, <3>2
    <3>4. faults' \in 0..MaxFaults /\ pc' \in [Alarms -> States]
      BY <2>10 DEF Compensate
    <3> QED BY <2>10, <3>3, <3>4 DEF Compensate
  <2> QED
    BY <1>4, <2>1, <2>2, <2>3, <2>4, <2>5, <2>6, <2>7, <2>8, <2>9, <2>10 DEF Goroutine
<1>5. ASSUME NEW a \in Alarms, AcknowledgeAlarm(a) PROVE TypeOK'
  BY <1>5 DEF AcknowledgeAlarm
<1>6. ASSUME NEW i \in Incidents, AcknowledgeIncident(i) PROVE TypeOK'
  BY <1>6 DEF AcknowledgeIncident
<1>7. ASSUME NEW i \in Incidents, AcknowledgeChildren(i) PROVE TypeOK'
  BY <1>7 DEF AcknowledgeChildren
<1>8. CASE UNCHANGED vars
  BY <1>8 DEF vars
<1> QED BY <1>1, <1>2, <1>3, <1>4, <1>5, <1>6, <1>7, <1>8 DEF Next

LEMMA LocalsStep == PipelineInv /\ [Next]_vars => LocalsInv'
<1> SUFFICES ASSUME PipelineInv, [Next]_vars PROVE LocalsInv'
  OBVIOUS
<1> USE DEF PipelineInv, TypeOK, LocalsInv, Goto, locals, tables
<1>1. CASE Tick
  BY <1>1 DEF Tick
<1>2. CASE ServerCrash
  BY <1>2 DEF ServerCrash
<1>3. ASSUME NEW a \in Alarms, Fire(a) PROVE LocalsInv'
  BY <1>3 DEF Fire
<1>4. ASSUME NEW a \in Alarms, Goroutine(a) PROVE LocalsInv'
  <2>1. CASE FindOpenIncident(a)
    BY <2>1 DEF FindOpenIncident, Open
  <2>2. CASE FindNoIncident(a)
    BY <2>2 DEF FindNoIncident
  <2>3. CASE NextIncidentID(a)
    BY <2>3 DEF NextIncidentID
  <2>4. CASE InsertIncident(a)
    BY <2>4 DEF InsertIncident
  <2>5. CASE CreateIncidentFails(a)
    BY <2>5 DEF CreateIncidentFails
  <2>6. CASE AttachAlarmToIncident(a)
    BY <2>6 DEF AttachAlarmToIncident
  <2>7. CASE NextAlarmCode(a)
    BY <2>7 DEF NextAlarmCode
  <2>8. CASE InsertAlarm(a)
    BY <2>8 DEF InsertAlarm
  <2>9. CASE CreateAlarmFails(a)
    BY <2>9 DEF CreateAlarmFails
  <2>10. CASE Compensate(a)
    BY <2>10 DEF Compensate
  <2> QED
    BY <1>4, <2>1, <2>2, <2>3, <2>4, <2>5, <2>6, <2>7, <2>8, <2>9, <2>10 DEF Goroutine
<1>5. ASSUME NEW a \in Alarms, AcknowledgeAlarm(a) PROVE LocalsInv'
  BY <1>5 DEF AcknowledgeAlarm
<1>6. ASSUME NEW i \in Incidents, AcknowledgeIncident(i) PROVE LocalsInv'
  BY <1>6 DEF AcknowledgeIncident
<1>7. ASSUME NEW i \in Incidents, AcknowledgeChildren(i) PROVE LocalsInv'
  BY <1>7 DEF AcknowledgeChildren
<1>8. CASE UNCHANGED vars
  BY <1>8 DEF vars
<1> QED BY <1>1, <1>2, <1>3, <1>4, <1>5, <1>6, <1>7, <1>8 DEF Next

\* The alarm_count = 1 test protects everybody else: when the creator's
\* compensating delete matches, it is the incident's only counted alarm.
LEMMA DeleteIsAlone ==
    ASSUME PipelineInv, NEW a \in Alarms, pc[a] = "failed", isNew[a], Deletable(inc[a])
    PROVE  Exists(inc[a]) /\ Members(inc[a]) = {a}
<1>1. Counted(a)
  BY DEF PipelineInv, LocalsInv, Counted
<1>2. Exists(inc[a])
  BY <1>1 DEF PipelineInv, AlarmKeepsIncident
<1>3. a \in Members(inc[a])
  BY <1>1 DEF Members
<1>4. Cardinality(Members(inc[a])) <= 1
  BY <1>2 DEF PipelineInv, CountCoversAlarms, Deletable, Exists
<1>5. IsFiniteSet(Members(inc[a])) /\ Cardinality(Members(inc[a])) \in Nat
  BY MembersFinite
<1>6. /\ IsFiniteSet(Members(inc[a]) \ {a})
      /\ Cardinality(Members(inc[a]) \ {a}) = Cardinality(Members(inc[a])) - 1
  BY <1>3, <1>5, FS_RemoveElement
<1>7. Cardinality(Members(inc[a]) \ {a}) \in Nat
  BY <1>6, FS_CardinalityType
<1>8. Cardinality(Members(inc[a]) \ {a}) = 0
  BY <1>4, <1>5, <1>6, <1>7
<1>9. Members(inc[a]) \ {a} = {}
  BY <1>6, <1>8, FS_EmptySet
<1> QED BY <1>2, <1>3, <1>9

LEMMA KeepsStep == PipelineInv /\ [Next]_vars => AlarmKeepsIncident' /\ SeverityCoversAlarms'
<1> SUFFICES ASSUME PipelineInv, [Next]_vars PROVE AlarmKeepsIncident' /\ SeverityCoversAlarms'
  OBVIOUS
<1> USE DEF PipelineInv, TypeOK, RowType, AlarmKeepsIncident, SeverityCoversAlarms, Counted, Exists,
            Goto, locals, tables
<1>1. CASE Tick
  BY <1>1 DEF Tick
<1>2. CASE ServerCrash
  BY <1>2 DEF ServerCrash
<1>3. ASSUME NEW a \in Alarms, Fire(a) PROVE AlarmKeepsIncident' /\ SeverityCoversAlarms'
  BY <1>3 DEF Fire
<1>4. ASSUME NEW a \in Alarms, Goroutine(a) PROVE AlarmKeepsIncident' /\ SeverityCoversAlarms'
  <2>1. CASE FindOpenIncident(a)
    BY <2>1 DEF FindOpenIncident, Open
  <2>2. CASE FindNoIncident(a)
    BY <2>2 DEF FindNoIncident
  <2>3. CASE NextIncidentID(a)
    BY <2>3 DEF NextIncidentID
  <2>4. CASE InsertIncident(a)
    <3>1. inc[a] \in Incidents /\ ~row[inc[a]].exists /\ ~detached[a]
      BY <2>4 DEF InsertIncident, LocalsInv
    <3>2. /\ row'[inc[a]].exists /\ row'[inc[a]].severity = SeverityOf[a]
          /\ \A i \in Incidents : i # inc[a] => row'[i] = row[i]
      BY <2>4, <3>1 DEF InsertIncident
    <3>3. SeverityOf[a] \in Nat
      BY PipelineAssumption DEF Severities
    <3> QED BY <2>4, <3>1, <3>2, <3>3 DEF InsertIncident
  <2>5. CASE CreateIncidentFails(a)
    BY <2>5 DEF CreateIncidentFails
  <2>6. CASE AttachAlarmToIncident(a)
    <3>1. CASE detached' = [detached EXCEPT ![a] = TRUE] /\ UNCHANGED row
      BY <2>6, <3>1 DEF AttachAlarmToIncident
    <3>2. CASE /\ Exists(inc[a])
               /\ row' = Attached(a)
               /\ UNCHANGED <<detached, faults>>
      <4>1. /\ \A i \in Incidents : row'[i].exists = row[i].exists
            /\ \A i \in Incidents : row[i].severity <= row'[i].severity
            /\ SeverityOf[a] <= row'[inc[a]].severity
        BY <3>2, AttachedRow
      <4>2. \A i \in Incidents : row[i].severity \in Nat /\ row'[i].severity \in Nat
        BY PipelineTypeStep DEF Severities
      <4>3. \A b \in Alarms : SeverityOf[b] \in Nat
        BY PipelineAssumption DEF Severities
      <4> QED BY <2>6, <3>2, <4>1, <4>2, <4>3 DEF AttachAlarmToIncident
    <3> QED BY <2>6, <3>1, <3>2 DEF AttachAlarmToIncident
  <2>7. CASE NextAlarmCode(a)
    BY <2>7 DEF NextAlarmCode
  <2>8. CASE InsertAlarm(a)
    BY <2>8 DEF InsertAlarm, Insertable
  <2>9. CASE CreateAlarmFails(a)
    BY <2>9 DEF CreateAlarmFails
  <2>10. CASE Compensate(a)
    <3>1. CASE UNCHANGED row
      BY <2>10, <3>1 DEF Compensate
    <3>2. CASE isNew[a] /\ Deletable(inc[a]) /\ row' = [row EXCEPT ![inc[a]] = NoRow]
      <4>1. Members(inc[a]) = {a}
        BY <2>10, <3>2, DeleteIsAlone DEF Compensate
      <4>2. \A b \in Alarms : b # a /\ (Counted(b) \/ pc[b] = "stored") => inc[b] # inc[a]
        BY <3>2, <4>1 DEF Members, Deletable, Stored
      <4> QED BY <2>10, <3>2, <4>2 DEF Compensate
    <3> QED BY <2>10, <3>1, <3>2 DEF Compensate
  <2> QED
    BY <1>4, <2>1, <2>2, <2>3, <2>4, <2>5, <2>6, <2>7, <2>8, <2>9, <2>10 DEF Goroutine
<1>5. ASSUME NEW a \in Alarms, AcknowledgeAlarm(a) PROVE AlarmKeepsIncident' /\ SeverityCoversAlarms'
  BY <1>5 DEF AcknowledgeAlarm
<1>6. ASSUME NEW i \in Incidents, AcknowledgeIncident(i) PROVE AlarmKeepsIncident' /\ SeverityCoversAlarms'
  BY <1>6 DEF AcknowledgeIncident
<1>7. ASSUME NEW i \in Incidents, AcknowledgeChildren(i) PROVE AlarmKeepsIncident' /\ SeverityCoversAlarms'
  BY <1>7 DEF AcknowledgeChildren
<1>8. CASE UNCHANGED vars
  BY <1>8 DEF vars
<1> QED BY <1>1, <1>2, <1>3, <1>4, <1>5, <1>6, <1>7, <1>8 DEF Next

\* The two steps that add a member also raise the count: attaching by one,
\* inserting from no row and no member to one of each.
LEMMA CountsAttach ==
    ASSUME PipelineInv, TypeOK', NEW a \in Alarms, AttachAlarmToIncident(a),
           Exists(inc[a]), row' = Attached(a)
    PROVE  CountCoversAlarms'
<1> SUFFICES ASSUME NEW i \in Incidents, Exists(i)'
             PROVE  Cardinality(Members(i)') <= row'[i].count
  BY DEF CountCoversAlarms
<1> USE DEF PipelineInv
<1>1. Exists(i) /\ row[i].count \in Nat /\ Cardinality(Members(i)) <= row[i].count
  BY AttachedRow DEF Exists, CountCoversAlarms, TypeOK, RowType
<1>2. Members(i)' \subseteq Members(i) \cup {a}
  BY DEF AttachAlarmToIncident, Members, Counted, Goto, locals, TypeOK
<1>3. CASE i = inc[a]
  <2>1. row'[i].count = row[i].count + 1
    BY <1>3, AttachedRow
  <2>2. a \notin Members(i) /\ IsFiniteSet(Members(i)) /\ Cardinality(Members(i)) \in Nat
    BY MembersFinite DEF AttachAlarmToIncident, Members, Counted
  <2>3. /\ IsFiniteSet(Members(i) \cup {a})
        /\ Cardinality(Members(i) \cup {a}) = Cardinality(Members(i)) + 1
    BY <2>2, FS_AddElement
  <2>4. /\ Cardinality(Members(i)') <= Cardinality(Members(i) \cup {a})
        /\ Cardinality(Members(i)') \in Nat
    BY <1>2, <2>3, FS_Subset, FS_CardinalityType
  <2> QED BY <1>1, <2>1, <2>2, <2>3, <2>4
<1>4. CASE i # inc[a]
  <2>1. row'[i] = row[i]
    BY <1>4, AttachedRow
  <2>2. Members(i)' \subseteq Members(i)
    BY <1>2, <1>4 DEF AttachAlarmToIncident, Members, locals
  <2>3. Cardinality(Members(i)') <= Cardinality(Members(i)) /\ Cardinality(Members(i)') \in Nat
    BY <2>2, MembersFinite, FS_Subset, FS_CardinalityType
  <2> QED BY <1>1, <2>1, <2>3, MembersFinite
<1> QED BY <1>3, <1>4

LEMMA CountsInsert ==
    ASSUME PipelineInv, TypeOK', NEW a \in Alarms, InsertIncident(a)
    PROVE  CountCoversAlarms'
<1> SUFFICES ASSUME NEW i \in Incidents, Exists(i)'
             PROVE  Cardinality(Members(i)') <= row'[i].count
  BY DEF CountCoversAlarms
<1> USE DEF PipelineInv
<1>1. Members(i)' \subseteq Members(i) \cup {a}
  BY DEF InsertIncident, Members, Counted, Goto, locals, TypeOK
<1>2. CASE i = inc[a]
  <2>1. Members(i) = {}
    BY <1>2 DEF InsertIncident, Members, AlarmKeepsIncident
  <2>2. Members(i)' \subseteq {a}
    BY <1>1, <2>1
  <2>3. Cardinality(Members(i)') <= 1
    <3>1. IsFiniteSet({a}) /\ Cardinality({a}) = 1
      BY FS_Singleton
    <3>2. Cardinality(Members(i)') <= Cardinality({a})
      BY <2>2, <3>1, FS_Subset
    <3> QED BY <3>1, <3>2
  <2>4. row'[i].count = 1
    <3> DEFINE new == [exists |-> TRUE, site |-> SiteOf[a], status |-> "active",
                       count |-> 1, severity |-> SeverityOf[a], last |-> ts[a]]
    <3>1. row' = [row EXCEPT ![inc[a]] = new]
      BY DEF InsertIncident
    <3>2. new.count = 1
      OBVIOUS
    <3> HIDE DEF new
    <3>3. row'[i] = new
      BY <1>2, <3>1 DEF TypeOK
    <3> QED BY <3>2, <3>3
  <2> QED BY <2>3, <2>4
<1>3. CASE i # inc[a]
  <2>1. row'[i] = row[i]
    BY <1>3 DEF InsertIncident, TypeOK
  <2>2. Members(i)' \subseteq Members(i)
    BY <1>1, <1>3 DEF InsertIncident, Members, locals
  <2>3. Cardinality(Members(i)') <= Cardinality(Members(i)) /\ Cardinality(Members(i)') \in Nat
    BY <2>2, MembersFinite, FS_Subset, FS_CardinalityType
  <2>4. Cardinality(Members(i)) <= row[i].count /\ row[i].count \in Nat
    BY <2>1 DEF CountCoversAlarms, Exists, TypeOK, RowType
  <2> QED BY <2>1, <2>3, <2>4, MembersFinite
<1> QED BY <1>2, <1>3

LEMMA CountsStep == PipelineInv /\ [Next]_vars => CountCoversAlarms'
<1> SUFFICES ASSUME PipelineInv, [Next]_vars PROVE CountCoversAlarms'
  OBVIOUS
<1>t. TypeOK /\ TypeOK'
  BY PipelineTypeStep DEF PipelineInv
<1> DEFINE Shrinks == \A i \in Incidents : Members(i)' \subseteq Members(i)
           Covers == \A i \in Incidents :
                       row'[i].exists => row[i].exists /\ row[i].count <= row'[i].count
<1>k. Shrinks /\ Covers => CountCoversAlarms'
  BY <1>t, CountsKeep DEF PipelineInv
<1>n. \A i \in Incidents : row[i].count \in Nat
  BY <1>t DEF TypeOK, RowType
<1>u. UNCHANGED row => Covers
  BY <1>n
<1>m. UNCHANGED <<pc, inc, detached>> => Shrinks
  BY DEF Members, Counted
<1>1. CASE Tick
  BY <1>1, <1>k, <1>u, <1>m DEF Tick, tables, locals
<1>2. CASE ServerCrash
  <2>1. Shrinks
    BY <1>2, <1>t DEF ServerCrash, Members, Counted, locals, TypeOK
  <2> QED BY <1>2, <2>1, <1>k, <1>u DEF ServerCrash
<1>3. ASSUME NEW a \in Alarms, Fire(a) PROVE CountCoversAlarms'
  <2>1. Shrinks
    BY <1>3, <1>t DEF Fire, Goto, Members, Counted, tables, TypeOK
  <2> QED BY <1>3, <2>1, <1>k, <1>u DEF Fire, tables
<1>4. ASSUME NEW a \in Alarms, Goroutine(a) PROVE CountCoversAlarms'
  <2> USE DEF Goto, Members, Counted, locals, tables
  <2>1. CASE FindOpenIncident(a)
    <3>1. Shrinks
      BY <2>1, <1>t DEF FindOpenIncident, TypeOK
    <3> QED BY <2>1, <3>1, <1>k, <1>u DEF FindOpenIncident
  <2>2. CASE FindNoIncident(a)
    <3>1. Shrinks
      BY <2>2, <1>t DEF FindNoIncident, TypeOK
    <3> QED BY <2>2, <3>1, <1>k, <1>u DEF FindNoIncident
  <2>3. CASE NextIncidentID(a)
    <3>1. Shrinks
      BY <2>3, <1>t DEF NextIncidentID, TypeOK
    <3> QED BY <2>3, <3>1, <1>k, <1>u DEF NextIncidentID
  <2>4. CASE InsertIncident(a)
    BY <2>4, <1>t, CountsInsert
  <2>5. CASE CreateIncidentFails(a)
    <3>1. Shrinks
      BY <2>5, <1>t DEF CreateIncidentFails, TypeOK
    <3> QED BY <2>5, <3>1, <1>k, <1>u DEF CreateIncidentFails
  <2>6. CASE AttachAlarmToIncident(a)
    <3>1. CASE Exists(inc[a]) /\ row' = Attached(a)
      BY <2>6, <3>1, <1>t, CountsAttach
    <3>2. CASE detached' = [detached EXCEPT ![a] = TRUE] /\ UNCHANGED row
      <4>1. Shrinks
        BY <2>6, <3>2, <1>t DEF AttachAlarmToIncident, TypeOK
      <4> QED BY <3>2, <4>1, <1>k, <1>u
    <3> QED BY <2>6, <3>1, <3>2 DEF AttachAlarmToIncident
  <2>7. CASE NextAlarmCode(a)
    <3>1. Shrinks
      BY <2>7, <1>t DEF NextAlarmCode, TypeOK
    <3> QED BY <2>7, <3>1, <1>k, <1>u DEF NextAlarmCode
  <2>8. CASE InsertAlarm(a)
    <3>1. Shrinks
      BY <2>8, <1>t DEF InsertAlarm, TypeOK
    <3> QED BY <2>8, <3>1, <1>k, <1>u DEF InsertAlarm
  <2>9. CASE CreateAlarmFails(a)
    <3>1. Shrinks
      BY <2>9, <1>t DEF CreateAlarmFails, TypeOK
    <3> QED BY <2>9, <3>1, <1>k, <1>u DEF CreateAlarmFails
  <2>10. CASE Compensate(a)
    <3>1. Shrinks
      BY <2>10, <1>t DEF Compensate, TypeOK
    <3>2. Covers
      <4>1. CASE UNCHANGED row
        BY <4>1, <1>u
      <4>2. CASE row' = [row EXCEPT ![inc[a]] = NoRow]
        BY <4>2, <1>t, <1>n DEF TypeOK, NoRow
      <4> QED BY <2>10, <4>1, <4>2 DEF Compensate
    <3> QED BY <3>1, <3>2, <1>k
  <2> QED
    BY <1>4, <2>1, <2>2, <2>3, <2>4, <2>5, <2>6, <2>7, <2>8, <2>9, <2>10 DEF Goroutine
<1>5. ASSUME NEW a \in Alarms, AcknowledgeAlarm(a) PROVE CountCoversAlarms'
  BY <1>5, <1>k, <1>u, <1>m DEF AcknowledgeAlarm, locals
<1>6. ASSUME NEW i \in Incidents, AcknowledgeIncident(i) PROVE CountCoversAlarms'
  <2>1. \A j \in Incidents : row'[j].exists = row[j].exists /\ row'[j].count = row[j].count
    BY <1>6, <1>t DEF AcknowledgeIncident, TypeOK, RowType
  <2>2. Covers
    BY <2>1, <1>n
  <2> QED BY <1>6, <2>2, <1>k, <1>m DEF AcknowledgeIncident, locals
<1>7. ASSUME NEW i \in Incidents, AcknowledgeChildren(i) PROVE CountCoversAlarms'
  BY <1>7, <1>k, <1>u, <1>m DEF AcknowledgeChildren, locals
<1>8. CASE UNCHANGED vars
  BY <1>8, <1>k, <1>u, <1>m DEF vars, locals, tables
<1> QED BY <1>1, <1>2, <1>3, <1>4, <1>5, <1>6, <1>7, <1>8 DEF Next

LEMMA PipelineInductive == Spec => []PipelineInv
<1>1. Init => PipelineInv
  BY PipelineInit
<1>2. PipelineInv /\ [Next]_vars => PipelineInv'
  BY PipelineTypeStep, LocalsStep, KeepsStep, CountsStep DEF PipelineInv
<1> QED BY <1>1, <1>2, PTL DEF Spec

\* Every variable of the alarm pipeline keeps its type, whatever the events,
\* sites, clock and number of faults.
THEOREM PipelineTypeCorrect == Spec => []TypeOK
<1>1. PipelineInv => TypeOK
  BY DEF PipelineInv
<1> QED BY <1>1, PipelineInductive, PTL

\* The alarm_count that AttachAlarmToIncident increments and the compensating
\* delete tests never under-reports the alarms counted in an incident.
THEOREM CountNeverUnderReports == Spec => []CountCoversAlarms
<1>1. PipelineInv => CountCoversAlarms
  BY DEF PipelineInv
<1> QED BY <1>1, PipelineInductive, PTL

\* No counted or stored alarm loses its incident to the compensating delete of
\* another goroutine, however their statements interleave.
THEOREM NoAlarmLosesItsIncident == Spec => []AlarmKeepsIncident
<1>1. PipelineInv => AlarmKeepsIncident
  BY DEF PipelineInv
<1> QED BY <1>1, PipelineInductive, PTL

\* The severity CASE of AttachAlarmToIncident keeps an incident at least as
\* severe as each alarm counted in it.
THEOREM SeverityNeverUnderstated == Spec => []SeverityCoversAlarms
<1>1. PipelineInv => SeverityCoversAlarms
  BY DEF PipelineInv
<1> QED BY <1>1, PipelineInductive, PTL

=============================================================================
