-------------------------- MODULE IncidentPipeline --------------------------
(***************************************************************************)
(* From a camera event to a SOC dispatch item: the alarm goroutine that    *)
(* autoStartCameras starts per event (cmd/server/main.go), the incident    *)
(* and alarm statements it runs (internal/database/platform_db.go,         *)
(* soc_ids.go), and the operators' acknowledgements.                       *)
(*                                                                         *)
(* Every goroutine runs its statements one by one against the shared       *)
(* tables, in no transaction, so each statement is an action.  Time is a   *)
(* coarse clock; Window is the correlation window, Cooldown the alarm      *)
(* rate limit, both in its ticks.                                          *)
(***************************************************************************)
EXTENDS Naturals, FiniteSets

CONSTANTS
    Alarms,      \* the camera events, one alarm goroutine each
    SiteOf,      \* SiteOf[a]: the site of a's camera
    KeyOf,       \* KeyOf[a]: the cooldown key, camera:motion or camera:type
    SeverityOf,  \* SeverityOf[a]: 1 medium, 2 high, 3 critical
    MaxIncidents,\* incident numbers of the year
    MaxClock, Window, Cooldown,
    MaxFaults    \* failed statements and server crashes

Severities == 1..3
Incidents == 1..MaxIncidents
NoIncident == 0
Codes == 0..Cardinality(Alarms)
Sites == {SiteOf[a] : a \in Alarms}
Keys == {KeyOf[a] : a \in Alarms}
Times == 0..MaxClock

ASSUME PipelineAssumption ==
    /\ IsFiniteSet(Alarms)
    /\ SiteOf \in [Alarms -> Sites]
    /\ KeyOf \in [Alarms -> Keys]
    /\ SeverityOf \in [Alarms -> Severities]
    /\ MaxIncidents \in Nat
    /\ MaxClock \in Nat /\ Window \in Nat /\ Cooldown \in Nat /\ MaxFaults \in Nat

VARIABLES
    now,        \* the clock
    mutedUntil, \* mutedUntil[k]: alarmLastFired[k] + 60 s, 0 if k never fired
    pc,         \* pc[a]: where the goroutine of event a is
    ts,         \* ts[a]: its `now'
    inc,        \* inc[a]: the incident it found or numbered
    isNew,      \* isNew[a]: isNewIncident
    code,       \* code[a]: the alarm code it drew
    acked,      \* acked[a]: active_alarms.acknowledged
    detached,   \* detached[a]: the attach statement of a had no effect
    row,        \* row[i]: the incidents row i
    acking,     \* acknowledge requests between their two statements
    faults

tables == <<acked, detached, row, acking>>
locals == <<ts, inc, isNew, code>>
vars == <<now, mutedUntil, pc, locals, tables, faults>>

NoRow == [exists |-> FALSE, site |-> "none", status |-> "none",
          count |-> 0, severity |-> 1, last |-> 0]

\* The goroutine's states.  From "linked" on the alarm counts in its incident;
\* "stored" means the active_alarms row exists; "dropped" means it never will.
States == {"idle", "fired", "none", "numbered", "found", "linked", "coded",
           "failed", "stored", "dropped"}

RowType ==
    [exists : BOOLEAN, site : Sites \cup {"none"},
     status : {"none", "active", "acknowledged"},
     count : Nat, severity : Severities, last : Times]

Exists(i) == i \in Incidents /\ row[i].exists

TypeOK ==
    /\ now \in Times
    /\ mutedUntil \in [Keys -> 0..(MaxClock + Cooldown)]
    /\ pc \in [Alarms -> States]
    /\ ts \in [Alarms -> Times]
    /\ inc \in [Alarms -> Incidents \cup {NoIncident}]
    /\ isNew \in [Alarms -> BOOLEAN]
    /\ code \in [Alarms -> Codes]
    /\ acked \in [Alarms -> BOOLEAN]
    /\ detached \in [Alarms -> BOOLEAN]
    /\ row \in [Incidents -> RowType]
    /\ acking \subseteq Incidents
    /\ faults \in 0..MaxFaults

Init ==
    /\ now = 0
    /\ mutedUntil = [k \in Keys |-> 0]
    /\ pc = [a \in Alarms |-> "idle"]
    /\ ts = [a \in Alarms |-> 0]
    /\ inc = [a \in Alarms |-> NoIncident]
    /\ isNew = [a \in Alarms |-> FALSE]
    /\ code = [a \in Alarms |-> 0]
    /\ acked = [a \in Alarms |-> FALSE]
    /\ detached = [a \in Alarms |-> FALSE]
    /\ row = [i \in Incidents |-> NoRow]
    /\ acking = {}
    /\ faults = 0

Fault == faults < MaxFaults /\ faults' = faults + 1
Goto(a, state) == pc' = [pc EXCEPT ![a] = state]

Tick ==
    /\ now < MaxClock
    /\ now' = now + 1
    /\ UNCHANGED <<mutedUntil, pc, locals, tables, faults>>

----------------------------------------------------------------------------
(* The alarm goroutine of event a.                                         *)

\* allowAlarm: at most one alarm per key and cooldown.
AllowAlarm(k) == now >= mutedUntil[k]

\* The event callback starts the goroutine, which takes `now'.
Fire(a) ==
    /\ pc[a] = "idle"
    /\ AllowAlarm(KeyOf[a])
    /\ mutedUntil' = [mutedUntil EXCEPT ![KeyOf[a]] = now + Cooldown]
    /\ ts' = [ts EXCEPT ![a] = now]
    /\ Goto(a, "fired")
    /\ UNCHANGED <<now, inc, isNew, code, tables, faults>>

\* The rows FindOpenIncident's WHERE clause selects.
Open(a) ==
    {i \in Incidents :
        /\ row[i].exists
        /\ row[i].site = SiteOf[a]
        /\ row[i].status = "active"
        /\ row[i].last + Window >= ts[a]}

\* FindOpenIncident returns the open incident with the latest alarm.
FindOpenIncident(a) ==
    /\ pc[a] = "fired"
    /\ \E i \in Open(a) :
         /\ \A j \in Open(a) : row[j].last <= row[i].last
         /\ inc' = [inc EXCEPT ![a] = i]
    /\ isNew' = [isNew EXCEPT ![a] = FALSE]
    /\ Goto(a, "found")
    /\ UNCHANGED <<now, mutedUntil, ts, code, tables, faults>>

\* ... or nil: there is none, or the query failed.
FindNoIncident(a) ==
    /\ pc[a] = "fired"
    /\ (Open(a) = {} /\ UNCHANGED faults) \/ Fault
    /\ isNew' = [isNew EXCEPT ![a] = TRUE]
    /\ Goto(a, "none")
    /\ UNCHANGED <<now, mutedUntil, ts, inc, code, tables>>

\* NextIncidentID: MAX(seq) + 1 over the rows of this year.
NextIncidentID(a) ==
    /\ pc[a] = "none"
    /\ \E i \in Incidents :
         /\ \A j \in Incidents : Exists(j) => j < i
         /\ i = 1 \/ Exists(i - 1)
         /\ inc' = [inc EXCEPT ![a] = i]
    /\ Goto(a, "numbered")
    /\ UNCHANGED <<now, mutedUntil, ts, isNew, code, tables, faults>>

\* The INSERT of CreateIncident.
InsertIncident(a) ==
    /\ pc[a] = "numbered"
    /\ ~Exists(inc[a])
    /\ row' = [row EXCEPT ![inc[a]] =
                [exists |-> TRUE, site |-> SiteOf[a], status |-> "active",
                 count |-> 1, severity |-> SeverityOf[a], last |-> ts[a]]]
    /\ Goto(a, "linked")
    /\ UNCHANGED <<now, mutedUntil, locals, acked, detached, acking, faults>>

\* Mutant of CreateIncidentFails: a taken number is not an error.
CreateIncidentUpserts(a) ==
    /\ pc[a] \in {"none", "numbered"}
    /\ inc[a] # NoIncident
    /\ Goto(a, "linked")
    /\ UNCHANGED <<now, mutedUntil, locals, tables, faults>>

\* CreateIncident fails: the number is taken (primary key), or the database
\* failed.  The goroutine logs and returns.
CreateIncidentFails(a) ==
    /\ \/ pc[a] = "numbered" /\ Exists(inc[a]) /\ UNCHANGED faults
       \/ pc[a] \in {"none", "numbered"} /\ Fault
    /\ Goto(a, "dropped")
    /\ UNCHANGED <<now, mutedUntil, locals, tables>>

\* Mutant of Raise: the latest alarm sets the severity.
RaiseToLatest(old, new) == new

\* The severity CASE of the UPDATE: never lower than it was.
Raise(old, new) == IF new > old THEN new ELSE old

\* The rows after the UPDATE of AttachAlarmToIncident.
Attached(a) ==
    [row EXCEPT ![inc[a]].count = @ + 1,
                ![inc[a]].severity = Raise(@, SeverityOf[a]),
                ![inc[a]].last = ts[a]]

\* AttachAlarmToIncident: by id alone.  With the row gone it changes nothing;
\* the goroutine ignores its error.
AttachAlarmToIncident(a) ==
    /\ pc[a] = "found"
    /\ \/ /\ Exists(inc[a])
          /\ row' = Attached(a)
          /\ UNCHANGED <<detached, faults>>
       \/ /\ IF Exists(inc[a]) THEN Fault ELSE UNCHANGED faults
          /\ detached' = [detached EXCEPT ![a] = TRUE]
          /\ UNCHANGED row
    /\ Goto(a, "linked")
    /\ UNCHANGED <<now, mutedUntil, locals, acked, acking>>

Stored == {a \in Alarms : pc[a] = "stored"}

\* NextAlarmCode: MAX(seq) + 1 over today's rows.
NextAlarmCode(a) ==
    /\ pc[a] = "linked"
    /\ \E c \in Codes \ {0} :
         /\ \A b \in Stored : code[b] < c
         /\ c = 1 \/ \E b \in Stored : code[b] = c - 1
         /\ code' = [code EXCEPT ![a] = c]
    /\ Goto(a, "coded")
    /\ UNCHANGED <<now, mutedUntil, ts, inc, isNew, tables, faults>>

\* The constraints on active_alarms: the foreign key to incidents and the
\* unique alarm_code.
Insertable(a) == Exists(inc[a]) /\ \A b \in Stored : code[b] # code[a]

\* CreateActiveAlarm returns true; the goroutine broadcasts and is done.
InsertAlarm(a) ==
    /\ pc[a] = "coded"
    /\ Insertable(a)
    /\ Goto(a, "stored")
    /\ UNCHANGED <<now, mutedUntil, locals, tables, faults>>

\* CreateActiveAlarm fails on a constraint or a database fault.
CreateAlarmFails(a) ==
    /\ \/ pc[a] = "coded" /\ ~Insertable(a) /\ UNCHANGED faults
       \/ pc[a] \in {"linked", "coded"} /\ Fault
    /\ Goto(a, "failed")
    /\ UNCHANGED <<now, mutedUntil, locals, tables>>

\* Mutant of Deletable: the WHERE clause and the foreign key are gone.
DeletableAlways(i) == TRUE

\* DELETE ... WHERE id = $1 AND alarm_count = 1, unless an alarm refers to it.
Deletable(i) == row[i].count = 1 /\ \A b \in Stored : inc[b] # i

\* The compensating delete of a freshly created incident, then return.
Compensate(a) ==
    /\ pc[a] = "failed"
    /\ \/ /\ isNew[a] /\ Deletable(inc[a])
          /\ row' = [row EXCEPT ![inc[a]] = NoRow]
          /\ UNCHANGED faults
       \/ /\ ~(isNew[a] /\ Deletable(inc[a]))
          /\ UNCHANGED <<row, faults>>
       \/ isNew[a] /\ Fault /\ UNCHANGED row
    /\ Goto(a, "dropped")
    /\ UNCHANGED <<now, mutedUntil, locals, acked, detached, acking>>

----------------------------------------------------------------------------
(* Operators and crashes.                                                  *)

\* AcknowledgeIncident, first statement: the incident.
AcknowledgeIncident(i) ==
    /\ Exists(i)
    /\ row' = [row EXCEPT ![i].status = "acknowledged"]
    /\ acking' = acking \cup {i}
    /\ UNCHANGED <<now, mutedUntil, pc, locals, acked, detached, faults>>

\* AcknowledgeIncident, second statement: its child alarms.
AcknowledgeChildren(i) ==
    /\ i \in acking
    /\ acking' = acking \ {i}
    /\ acked' = [a \in Alarms |-> acked[a] \/ (a \in Stored /\ inc[a] = i)]
    /\ UNCHANGED <<now, mutedUntil, pc, locals, detached, row, faults>>

\* AcknowledgeAlarm, when an operator dispositions one alarm.
AcknowledgeAlarm(a) ==
    /\ a \in Stored
    /\ ~acked[a]
    /\ acked' = [acked EXCEPT ![a] = TRUE]
    /\ UNCHANGED <<now, mutedUntil, pc, locals, detached, row, acking, faults>>

\* The server dies with every goroutine and request; the cooldown map is gone.
ServerCrash ==
    /\ Fault
    /\ pc' = [a \in Alarms |->
                IF pc[a] \in {"idle", "stored", "dropped"} THEN pc[a] ELSE "dropped"]
    /\ mutedUntil' = [k \in Keys |-> 0]
    /\ acking' = {}
    /\ UNCHANGED <<now, locals, acked, detached, row>>

Goroutine(a) ==
    \/ FindOpenIncident(a)
    \/ FindNoIncident(a)
    \/ NextIncidentID(a)
    \/ InsertIncident(a)
    \/ CreateIncidentFails(a)
    \/ AttachAlarmToIncident(a)
    \/ NextAlarmCode(a)
    \/ InsertAlarm(a)
    \/ CreateAlarmFails(a)
    \/ Compensate(a)

Next ==
    \/ Tick
    \/ ServerCrash
    \/ \E a \in Alarms : Fire(a) \/ Goroutine(a) \/ AcknowledgeAlarm(a)
    \/ \E i \in Incidents : AcknowledgeIncident(i) \/ AcknowledgeChildren(i)

Spec == Init /\ [][Next]_vars

----------------------------------------------------------------------------
(* Properties.                                                             *)

\* a has been counted in its incident and has not given up.
Counted(a) == pc[a] \in {"linked", "coded", "failed", "stored"} /\ ~detached[a]

Members(i) == {a \in Alarms : inc[a] = i /\ Counted(a)}

\* alarm_count never under-reports: it is at least the number of alarms that
\* were counted in and not dropped, through races, failures, compensating
\* deletes and reuse of a deleted number.  This is what makes the test
\* alarm_count = 1 of the compensating delete safe.
CountCoversAlarms ==
    \A i \in Incidents : Exists(i) => Cardinality(Members(i)) <= row[i].count

\* No alarm loses its incident: whoever is counted in, or stored, refers to a
\* row that exists.
AlarmKeepsIncident ==
    \A a \in Alarms : Counted(a) \/ pc[a] = "stored" => Exists(inc[a])

\* An incident is at least as severe as each alarm counted in it, whatever
\* the order in which concurrent alarms attach.
SeverityCoversAlarms ==
    \A a \in Alarms : Counted(a) => SeverityOf[a] <= row[inc[a]].severity

=============================================================================
