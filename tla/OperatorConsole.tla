--------------------------- MODULE OperatorConsole ---------------------------
(***************************************************************************)
(* The SOC operator's console of the web client: the operator store, the   *)
(* console page and its alert feed, the alarm page and the submission of a *)
(* disposition (frontend/src/stores/operator-store.ts, app/operator/*,      *)
(* components/operator/ActiveAlarmView.tsx, AlertFeed.tsx).                 *)
(*                                                                         *)
(* One operator, one tab.  What runs concurrently is the asynchronous part *)
(* of the client: a poll, a socket message, the incident seed, an incident *)
(* fetch, a submission and a route change are each in flight while the     *)
(* operator goes on clicking, and their callbacks act on the store as it   *)
(* is when they run.  The server is external: it raises alarms, answers    *)
(* and may lose a request or its reply.                                    *)
(***************************************************************************)
EXTENDS Naturals, FiniteSets, Sequences, SequencesExt

CONSTANTS
    NumAlarms,     \* bound: alarms the server raises, numbered as they are raised
    Incidents,     \* incident ids (INC-*)
    IncidentOf,    \* the incident_id of an alarm, None for a legacy alarm
    None,          \* null
    Console,       \* the route /operator
    FeedCap,       \* alertFeed keeps this many alerts (200)
    DismissCap,    \* dismissedIds keeps this many ids (500)
    Slots,         \* bound: submissions that can be in flight together
    MaxFetches,    \* bound: incident fetches in flight together
    MaxEvents,     \* bound: recorded dispositions
    MaxHandled     \* bound: shiftStats.alarmsHandled

ASSUME CapsAreSet == {FeedCap, DismissCap, NumAlarms} \subseteq Nat \ {0} /\ MaxEvents \in Nat
ASSUME SlotsAreFinite == IsFiniteSet(Slots)
Alarms == 1..NumAlarms

ASSUME IncidentOfAssumption == IncidentOf \in [Alarms -> Incidents \cup {None}]
ASSUME RoutesDiffer ==
    /\ Console \notin Alarms \cup Incidents \cup {None}
    /\ None \notin Alarms \cup Incidents
    /\ Alarms \cap Incidents = {}

VARIABLES
    raised,      \* server: how many alarms there are
    acked,       \* server: acknowledged alarms
    disposed,    \* server: the alarms that have a disposition
    events,      \* server: how many dispositions are recorded
    wire,        \* socket messages sent and not yet delivered: ids
    rest,        \* alarms of the last applied poll of /alerts
    seed,        \* the incidents of a getActiveIncidents answer on its way
    detail,      \* incident fetches in flight, see Fetch
    loaded,      \* the incident page has its incident
    store,       \* the operator store, see StoreType
    page, nav,   \* the mounted route and the route being pushed
    submitting,  \* ActiveAlarmView waits for its submission
    flight,      \* the submissions: handleSubmit past its first await
    settled,     \* history: alarms closed here by their own submission
    overtaken    \* history: alarms a submission of another alarm dismissed

server   == <<raised, acked, disposed, events>>
network  == <<wire, rest, seed, detail>>
screen   == <<loaded, page, nav, submitting>>
history  == <<settled, overtaken>>
vars     == <<server, network, store, screen, flight, history>>

Routes    == {Console} \cup Alarms \cup Incidents
Statuses  == {"available", "engaged", "wrap_up"}
Idle      == [stage |-> "idle"]
Submit    == [stage : {"post", "recorded", "ack"}, alarm : Alarms,
              inc : Incidents \cup {None}, live : BOOLEAN]
(* seen is the active alarm of the render that sent the fetch, live whether *)
(* the page that sent it is still mounted.                                  *)
Fetch     == [inc : Incidents, seen : Alarms \cup {None}, live : BOOLEAN]

(* feedAck are the alerts of the feed that are marked acknowledged.  The    *)
(* claims, the action log and the statuses the operator sets by hand are in *)
(* AlarmDesk: nothing here reads them.                                      *)
StoreType ==
    [feed : Seq(Alarms), feedAck : SUBSET Alarms,
     incidents : SUBSET Incidents, dismissed : Seq(Alarms),
     active : Alarms \cup {None}, status : Statuses, last : Alarms \cup {None},
     handled : Nat]

(* The one type invariant. *)
TypeOK ==
    /\ raised \in 0..NumAlarms /\ acked \subseteq Alarms
    /\ disposed \subseteq Alarms /\ events \in Nat
    /\ wire \subseteq Alarms \cup Incidents
    /\ rest \subseteq Alarms
    /\ seed \subseteq Incidents
    /\ detail \subseteq Fetch
    /\ loaded \in BOOLEAN
    /\ store \in StoreType
    /\ page \in Routes /\ nav \in Routes \cup {None}
    /\ submitting \in BOOLEAN
    /\ flight \in [Slots -> Submit \cup {Idle}]
    /\ settled \subseteq Alarms /\ overtaken \subseteq Alarms

-----------------------------------------------------------------------------
(* Server (external) *)

Known == 1..raised
ChildrenOf(i) == {a \in Known : IncidentOf[a] = i}
(* The incidents the server lists as active: one with an open alarm. *)
ActiveIncidents == {i \in Incidents : ChildrenOf(i) \ acked # {}}
(* The latest alarm of an incident: the one with the greatest ts. *)
Latest(i) == Max(ChildrenOf(i))

-----------------------------------------------------------------------------
(* Operator store *)

(* The end of the list falls off when it is full. *)
Capped(seq, cap) == SubSeq(seq, 1, IF Len(seq) > cap THEN cap ELSE Len(seq))
LastOf(seq, cap) == SubSeq(seq, IF Len(seq) > cap THEN Len(seq) - cap + 1 ELSE 1, Len(seq))

addAlert(s, a) ==
    IF a \in ToSet(s.dismissed) THEN s
    ELSE [s EXCEPT !.feed = Capped(<<a>> \o @, FeedCap)]

upsertIncident(s, i) == [s EXCEPT !.incidents = @ \cup {i}]

dismissAlarm(s, a) ==
    IF a \in ToSet(s.dismissed) THEN s
    ELSE [s EXCEPT !.dismissed = LastOf(Append(@, a), DismissCap)]

(* A mutant: the alert is acknowledged in the feed and not remembered. *)
AcknowledgeInFeedOnly(s, a) ==
    [s EXCEPT !.feedAck = @ \cup ({a} \cap ToSet(s.feed))]

acknowledgeAlert(s, a) ==
    dismissAlarm([s EXCEPT !.feedAck = @ \cup ({a} \cap ToSet(s.feed))], a)

(* The places of the feed with an alarm of incident i, and those alarms in   *)
(* the order of the feed.                                                   *)
PlacesOf(feed, i) == {n \in DOMAIN feed : IncidentOf[feed[n]] = i}
Children(feed, i) ==
    LET P == PlacesOf(feed, i)
    IN [m \in 1..Cardinality(P) |->
           feed[CHOOSE n \in P : Cardinality({k \in P : k < n}) = m - 1]]

acknowledgeIncident(s, i) ==
    LET children == Children(s.feed, i)
    IN [s EXCEPT !.incidents = @ \ {i},
                 !.feedAck   = @ \cup ToSet(children),
                 !.dismissed = LastOf(@ \o children, DismissCap)]

engageAlarm(s, a) == [s EXCEPT !.active = a, !.status = "engaged"]
(* A mutant: the presence value instead of the workflow status. *)
AbandonToPresence(s) == [s EXCEPT !.active = None, !.status = "on_shift"]

abandonAlarm(s)   == [s EXCEPT !.active = None, !.status = "available"]

(* resolveAlarm closes whichever alarm is active when it runs. *)
resolveAlarm(s) ==
    IF s.active = None
    THEN [s EXCEPT !.status = "wrap_up"]
    ELSE [acknowledgeAlert(s, s.active) EXCEPT
             !.active = None, !.status = "wrap_up", !.last = s.active,
             !.handled = @ + 1]

exitWrapUp(s) == [s EXCEPT !.status = "available", !.last = None]

EmptyStore ==
    [feed |-> <<>>, feedAck |-> {}, incidents |-> {},
     dismissed |-> <<>>, active |-> None, status |-> "available",
     last |-> None, handled |-> 0]

(* partialize: what survives a reload of the page. *)
Persisted(s) ==
    [EmptyStore EXCEPT !.dismissed = s.dismissed, !.handled = s.handled]

-----------------------------------------------------------------------------
(* What the pages show *)

(* The merged alerts of the console page: a polled copy wins over the feed's, *)
(* and the polled ones are all open.                                        *)
displayAlerts ==
    {a \in rest \cup ToSet(store.feed) :
        /\ a \in rest \/ a \notin store.feedAck
        /\ a \notin ToSet(store.dismissed)}

(* The feed offers the incidents and the alerts that have none. *)
orphanAlerts == {a \in displayAlerts : IncidentOf[a] = None}

WrapUpShown == page = Console /\ store.status = "wrap_up" /\ store.last # None

(* The alarm of the alarm page; None while it is loading or not found. *)
ShownAlarm ==
    CASE page \in Alarms    -> IF store.active = page THEN store.active ELSE None
      [] page \in Incidents -> IF \E d \in detail : d.live THEN None
                               ELSE store.active
      [] OTHER              -> None

-----------------------------------------------------------------------------
Init ==
    /\ raised = 0 /\ acked = {} /\ disposed = {} /\ events = 0
    /\ wire = {} /\ rest = {}
    /\ seed = {} /\ detail = {} /\ loaded = FALSE
    /\ store = EmptyStore
    /\ page = Console /\ nav = None /\ submitting = FALSE
    /\ flight = [k \in Slots |-> Idle]
    /\ settled = {} /\ overtaken = {}

(* The server stores an alarm with its incident and broadcasts both; the    *)
(* messages are sent to this tab when its stream is connected, and only the *)
(* console page has one.                                                    *)
RaiseAlarm(connected) ==
    LET a == raised + 1 IN
    /\ raised < NumAlarms
    /\ connected => page = Console
    /\ raised' = a
    /\ wire' = IF connected THEN wire \cup {a} \cup ({IncidentOf[a]} \ {None}) ELSE wire
    /\ UNCHANGED <<acked, disposed, events, rest, seed, detail, store, screen, flight, history>>

(* A mutant: the list is fetched once and never again. *)
PollOnce(n, before) ==
    /\ rest = {}
    /\ rest' = (1..n) \ (acked \ before)
    /\ UNCHANGED <<server, wire, seed, detail, store, screen, flight, history>>

(* useAlerts polls while a page is mounted.  An answer lists the open       *)
(* alarms as the server saw them when it computed it, which may be some     *)
(* time ago: before the n-th alarm, before some of the acknowledgements.    *)
PollReply(n, before) ==
    /\ rest' = (1..n) \ (acked \ before)
    /\ UNCHANGED <<server, wire, seed, detail, store, screen, flight, history>>

FreshPoll == PollReply(raised, {})

(* The socket closes: what it had not delivered is lost. *)
SocketCloses ==
    /\ wire # {}
    /\ wire' = {}
    /\ UNCHANGED <<server, rest, seed, detail, store, screen, flight, history>>

(* useAlertStream hands a message to the store. *)
SocketMessage(m) ==
    /\ m \in wire
    /\ wire' = wire \ {m}
    /\ store' = IF m \in Alarms THEN addAlert(store, m) ELSE upsertIncident(store, m)
    /\ UNCHANGED <<server, rest, seed, detail, screen, flight, history>>

(* getActiveIncidents, sent when the console page mounted, is answered: the *)
(* handler runs even when the page has gone.                                *)
SeedReply ==
    /\ seed # {}
    /\ seed' = {}
    /\ store' = [store EXCEPT !.incidents = @ \cup seed]
    /\ UNCHANGED <<server, wire, rest, detail, screen, flight, history>>

-----------------------------------------------------------------------------
(* The console page *)

ClickAlert(a) ==
    /\ page = Console /\ ~WrapUpShown
    /\ a \in orphanAlerts
    /\ store' = engageAlarm(store, a)
    /\ nav' = a
    /\ UNCHANGED <<server, network, loaded, page, submitting, flight, history>>

ClickIncident(i) ==
    /\ page = Console /\ ~WrapUpShown
    /\ i \in store.incidents
    /\ nav' = i
    /\ UNCHANGED <<server, network, store, loaded, page, submitting, flight, history>>

(* A mutant: the guard only looks at the engaged status. *)
EngagedStatusGuard ==
    /\ page = Console
    /\ store.status = "engaged" /\ store.active = None
    /\ store' = [store EXCEPT !.status = "available"]
    /\ UNCHANGED <<server, network, screen, flight, history>>

(* The page's guard against a status whose alarm or disposition is gone. *)
StaleStatusGuard ==
    /\ page = Console
    /\ \/ store.status = "engaged" /\ store.active = None
       \/ store.status = "wrap_up" /\ store.last = None
    /\ store' = [store EXCEPT !.status = "available"]
    /\ UNCHANGED <<server, network, screen, flight, history>>

(* The button of the wrap-up overlay, or its countdown. *)
ReadyForNext ==
    /\ WrapUpShown
    /\ store' = exitWrapUp(store)
    /\ UNCHANGED <<server, network, screen, flight, history>>

-----------------------------------------------------------------------------
(* Routes *)

(* The pushed route replaces the page: what was mounted goes, with its      *)
(* local state and, for the console, its stream; submissions go on.         *)
FinishNavigation ==
    /\ nav # None
    /\ page' = nav /\ nav' = None
    /\ IF nav = page
       THEN UNCHANGED <<submitting, loaded, flight, wire, seed, detail>>
       ELSE /\ submitting' = FALSE /\ loaded' = FALSE
            /\ flight' = [k \in Slots |->
                 IF flight[k] = Idle THEN Idle ELSE [flight[k] EXCEPT !.live = FALSE]]
            /\ wire' = {}
            /\ seed' = IF nav = Console THEN ActiveIncidents ELSE seed
            /\ LET old == {[d EXCEPT !.live = FALSE] : d \in detail}
               IN IF nav \in Incidents
                  THEN /\ Cardinality(old) < MaxFetches
                       /\ detail' = old \cup {[inc |-> nav, seen |-> store.active, live |-> TRUE]}
                  ELSE detail' = old
    /\ UNCHANGED <<server, rest, store, history>>

(* The Back link of the loading screen, and the browser's own. *)
GoBack ==
    /\ page # Console
    /\ nav # Console
    /\ nav' = Console
    /\ UNCHANGED <<server, network, store, loaded, page, submitting, flight, history>>

(* The tab is reloaded: only the persisted part of the store comes back and *)
(* the requests in flight are dropped.                                      *)
Reload ==
    /\ store # Persisted(store)
    /\ store' = Persisted(store)
    /\ wire' = {} /\ rest' = {}
    /\ seed' = IF page = Console THEN ActiveIncidents ELSE {}
    /\ detail' = IF page \in Incidents THEN {[inc |-> page, seen |-> None, live |-> TRUE]} ELSE {}
    /\ loaded' = FALSE /\ nav' = None /\ submitting' = FALSE
    /\ flight' = [k \in Slots |-> Idle]
    /\ UNCHANGED <<server, page, history>>

-----------------------------------------------------------------------------
(* The alarm page *)

(* The effect of an alarm route: it engages its alarm whenever another one, *)
(* or none, is active and the alarm is in the feed or the last poll.        *)
EngageEffect ==
    /\ page \in Alarms
    /\ store.active # page
    /\ page \in rest \cup ToSet(store.feed)
    /\ store' = engageAlarm(store, page)
    /\ UNCHANGED <<server, network, screen, flight, history>>

(* The incident fetch is answered, to a page that may have gone: the latest *)
(* alarm is engaged unless it was the active one when the fetch was sent.   *)
IncidentReply(d) ==
    /\ d \in detail
    /\ ChildrenOf(d.inc) # {}
    /\ detail' = detail \ {d}
    /\ loaded' = (loaded \/ d.live)
    /\ store' = IF d.seen = Latest(d.inc) THEN store
                ELSE engageAlarm(store, Latest(d.inc))
    /\ UNCHANGED <<server, wire, rest, seed, page, nav, submitting, flight, history>>

IncidentFetchFails(d) ==
    /\ d \in detail
    /\ detail' = detail \ {d}
    /\ loaded' = (loaded /\ ~d.live)
    /\ UNCHANGED <<server, wire, rest, seed, store, page, nav, submitting, flight, history>>

(* handleSubmit up to its first await, once a disposition is picked (the    *)
(* picking is in AlarmDesk).                                                *)
SubmitDisposition(k) ==
    /\ ShownAlarm # None
    /\ ~submitting
    /\ flight[k] = Idle
    /\ submitting' = TRUE
    /\ flight' = [flight EXCEPT ![k] =
         [stage |-> "post", alarm |-> ShownAlarm,
          inc |-> IF page \in Incidents /\ loaded THEN page ELSE None,
          live |-> TRUE]]
    /\ UNCHANGED <<server, network, store, loaded, page, nav, history>>

(* The server (external) records the event and acknowledges the alarm. *)
PostRecorded(k) ==
    /\ flight[k] # Idle /\ flight[k].stage = "post"
    /\ events < MaxEvents /\ events' = events + 1
    /\ disposed' = disposed \cup {flight[k].alarm}
    /\ acked' = acked \cup {flight[k].alarm}
    /\ flight' = [flight EXCEPT ![k].stage = "recorded"]
    /\ UNCHANGED <<raised, network, store, screen, history>>

(* A mutant: the error is swallowed and the submission goes on. *)
PostErrorSwallowed(k) ==
    /\ flight[k] # Idle /\ flight[k].stage \in {"post", "recorded"}
    /\ flight' = [flight EXCEPT ![k].stage = "recorded"]
    /\ UNCHANGED <<server, network, store, screen, history>>

(* The request, or the answer, is lost: createSecurityEvent throws, nobody *)
(* catches it and submitting stays set in the view that sent it.           *)
PostFails(k) ==
    /\ flight[k] # Idle /\ flight[k].stage \in {"post", "recorded"}
    /\ flight' = [flight EXCEPT ![k] = Idle]
    /\ UNCHANGED <<server, network, store, screen, history>>

(* The answer is in; for an incident its acknowledgement is sent next and   *)
(* may reach the server or not: both end in acknowledgeIncident here.       *)
AcknowledgeIncidentSent(k, reaches) ==
    /\ flight[k] # Idle /\ flight[k].stage = "recorded" /\ flight[k].inc # None
    /\ flight' = [flight EXCEPT ![k].stage = "ack"]
    /\ acked' = IF reaches THEN acked \cup ChildrenOf(flight[k].inc) ELSE acked
    /\ UNCHANGED <<raised, disposed, events, network, store, screen, history>>

(* A mutant: the alarm is resolved here before the server has answered. *)
ResolveUnposted(k) ==
    /\ flight[k] # Idle /\ flight[k].stage = "post"
    /\ store.handled < MaxHandled
    /\ store' = resolveAlarm(store)
    /\ settled' = settled /\ overtaken' = overtaken
    /\ flight' = [flight EXCEPT ![k] = Idle]
    /\ submitting' = FALSE /\ nav' = Console
    /\ UNCHANGED <<server, network, loaded, page>>

(* handleSubmit after its last await: the incident and the active alarm are *)
(* closed in the store, and the view, if it is still there, goes back.      *)
ResolveSubmission(k) ==
    LET f      == flight[k]
        before == IF f.inc = None THEN store ELSE acknowledgeIncident(store, f.inc)
    IN  /\ f # Idle
        /\ f.stage = IF f.inc = None THEN "recorded" ELSE "ack"
        /\ store.handled < MaxHandled
        /\ store' = resolveAlarm(before)
        /\ settled' = IF store.active = f.alarm THEN settled \cup {f.alarm} ELSE settled
        /\ overtaken' = overtaken \cup ({store.active} \ {f.alarm, None})
             \cup (IF f.inc # None /\ IncidentOf[f.alarm] # f.inc
                   THEN ToSet(before.dismissed) \ ToSet(store.dismissed) ELSE {})
        /\ flight' = [flight EXCEPT ![k] = Idle]
        /\ IF f.live THEN /\ submitting' = FALSE
                          /\ nav' = Console
                     ELSE UNCHANGED <<submitting, nav>>
        /\ UNCHANGED <<server, network, loaded, page>>

(* Release: the alarm goes back to the queue.  The button is never disabled. *)
handleAbandon ==
    /\ ShownAlarm # None
    /\ store' = abandonAlarm(store)
    /\ nav' = Console
    /\ UNCHANGED <<server, network, loaded, page, submitting, flight, history>>

-----------------------------------------------------------------------------
Next ==
    \/ \E c \in BOOLEAN : RaiseAlarm(c)
    \/ \E n \in 0..raised, before \in SUBSET acked : PollReply(n, before)
    \/ SocketCloses
    \/ \E m \in Alarms \cup Incidents : SocketMessage(m)
    \/ SeedReply
    \/ \E a \in Alarms : ClickAlert(a)
    \/ \E i \in Incidents : ClickIncident(i)
    \/ StaleStatusGuard \/ ReadyForNext
    \/ FinishNavigation \/ GoBack \/ Reload
    \/ EngageEffect
    \/ \E d \in detail : IncidentReply(d) \/ IncidentFetchFails(d)
    \/ \E k \in Slots : \/ SubmitDisposition(k) \/ PostRecorded(k) \/ PostFails(k)
                        \/ \E r \in BOOLEAN : AcknowledgeIncidentSent(k, r)
                        \/ ResolveSubmission(k)
    \/ handleAbandon

(* React runs a due effect and finishes a pushed route; the poll is repeated *)
(* every 15 s and one sent late enough is answered with the present state.   *)
Fairness ==
    /\ WF_vars(StaleStatusGuard) /\ WF_vars(FinishNavigation)
    /\ WF_vars(FreshPoll)

Spec == Init /\ [][Next]_vars /\ Fairness

-----------------------------------------------------------------------------
(* Properties *)

(* An alarm closed here is not shown again, whatever a late poll, socket    *)
(* message or reload brings: that is what dismissedIds is for, until it has  *)
(* as many ids as it keeps.                                                  *)
ClosedStaysClosed == Len(store.dismissed) < DismissCap => settled \cap displayAlerts = {}

(* Every alarm this tab hides has a disposition on the server, its own or   *)
(* that of the incident it was closed with, unless a submission finished    *)
(* while another alarm was active.                                          *)
HiddenWasRecorded ==
    \A a \in ToSet(store.dismissed) \ overtaken :
        a \in disposed \/ \E b \in disposed : IncidentOf[b] = IncidentOf[a] /\ IncidentOf[a] # None

(* The operator's count of handled alarms never runs ahead of the           *)
(* dispositions the server has.                                             *)
HandledIsRecorded == store.handled <= events

Stale == /\ page = Console
         /\ \/ store.status = "engaged" /\ store.active = None
            \/ store.status = "wrap_up" /\ store.last = None
(* The console is never stuck in a status the operator cannot change: one   *)
(* that stands for an alarm or a disposition that is gone is given up.      *)
StaleStatusClears == Stale ~> ~Stale

(* An alarm the socket lost still reaches the console through the poll.     *)
PollFillsTheGap ==
    \A a \in Alarms : a \in Known ~> (a \in rest \/ a \in acked)

(* What the operator sees is backed by the server: the types, and that an   *)
(* alarm hidden here, or counted as handled, has its disposition.           *)
ConsoleInvariant == TypeOK /\ HiddenWasRecorded /\ HandledIsRecorded
=============================================================================
