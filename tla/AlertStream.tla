----------------------------- MODULE AlertStream -----------------------------
(***************************************************************************)
(* The alert socket of the operator console, class AlertStream of           *)
(* lib/ws-alerts.ts: a ticket is fetched, a socket opened with it (or       *)
(* without, when the fetch fails), and every loss schedules another attempt *)
(* after a delay that doubles up to a limit.  destroy() may come at any     *)
(* moment.  Delays are in seconds; what the socket carries is the business  *)
(* of OperatorConsole.                                                      *)
(***************************************************************************)
EXTENDS Integers

CONSTANTS BaseDelay, MaxDelay     \* reconnectDelay at first, maxReconnectDelay

ASSUME DelayAssumption ==
    BaseDelay \in Nat /\ MaxDelay \in Nat /\ 0 < BaseDelay /\ BaseDelay <= MaxDelay

VARIABLES
    fetching,        \* the ticket request is under way
    ws,              \* the socket
    reconnectTimer,  \* the timer is armed
    reconnectDelay,
    attempted,       \* reconnectAttempts > 0
    status, destroyed

streamVars == <<fetching, ws, reconnectTimer, reconnectDelay, attempted, status, destroyed>>

Status == {"connecting", "connected", "disconnected", "reconnecting"}

(* The one type invariant. *)
StreamTypeOK ==
    /\ fetching \in BOOLEAN /\ ws \in {"none", "connecting", "open", "closing"}
    /\ reconnectTimer \in BOOLEAN /\ reconnectDelay \in BaseDelay .. MaxDelay
    /\ attempted \in BOOLEAN /\ status \in Status /\ destroyed \in BOOLEAN

-----------------------------------------------------------------------------
(* connect(): nothing once destroyed. *)
connect ==
    IF destroyed THEN UNCHANGED <<fetching, status>>
    ELSE fetching' = TRUE /\ status' = IF attempted THEN "reconnecting" ELSE "connecting"

scheduleReconnect ==
    IF destroyed THEN UNCHANGED <<reconnectTimer, attempted>>
    ELSE reconnectTimer' = TRUE /\ attempted' = TRUE

(* The hook's effect: the handlers are registered, then connect(). *)
Start ==
    /\ ~fetching /\ ws = "none" /\ ~reconnectTimer /\ ~attempted /\ status = "disconnected"
    /\ ~destroyed /\ connect
    /\ UNCHANGED <<ws, reconnectTimer, reconnectDelay, attempted, destroyed>>

(* _openWS after the request, with a ticket or without one. *)
TicketSettles ==
    /\ fetching /\ fetching' = FALSE
    /\ ws' = IF destroyed THEN ws ELSE "connecting"
    /\ UNCHANGED <<reconnectTimer, reconnectDelay, attempted, status, destroyed>>
(* The constructor throws: _openWS reports and schedules. *)
OpenThrows ==
    /\ fetching /\ ~destroyed /\ fetching' = FALSE
    /\ status' = "disconnected" /\ scheduleReconnect
    /\ UNCHANGED <<ws, reconnectDelay, destroyed>>
onopen ==
    /\ ws = "connecting" /\ ws' = "open"
    /\ reconnectDelay' = BaseDelay /\ attempted' = FALSE /\ status' = "connected"
    /\ UNCHANGED <<fetching, reconnectTimer, destroyed>>
(* Mutant of onclose: the status is left as it was. *)
CloseSilently ==
    /\ ws # "none" /\ ws' = "none" /\ scheduleReconnect
    /\ UNCHANGED <<fetching, reconnectDelay, status, destroyed>>
(* Mutant of onclose: the stream connects at once and schedules as well. *)
CloseReconnects ==
    /\ ws # "none" /\ ws' = "none" /\ scheduleReconnect /\ connect
    /\ UNCHANGED <<reconnectDelay, destroyed>>
onclose ==
    /\ ws # "none" /\ ws' = "none" /\ status' = "disconnected" /\ scheduleReconnect
    /\ UNCHANGED <<fetching, reconnectDelay, destroyed>>
(* Mutant of Doubled: the limit is checked before doubling. *)
DoubledLate == IF reconnectDelay < MaxDelay THEN 2 * reconnectDelay ELSE reconnectDelay
Doubled == IF 2 * reconnectDelay < MaxDelay THEN 2 * reconnectDelay ELSE MaxDelay
(* Mutant of TimerFires: the delay grows, nobody connects. *)
TimerOnly ==
    /\ reconnectTimer /\ reconnectTimer' = FALSE /\ reconnectDelay' = Doubled
    /\ UNCHANGED <<fetching, ws, attempted, status, destroyed>>
TimerFires ==
    /\ reconnectTimer /\ reconnectTimer' = FALSE
    /\ reconnectDelay' = Doubled /\ connect
    /\ UNCHANGED <<ws, attempted, destroyed>>
destroy ==
    /\ ~destroyed /\ destroyed' = TRUE /\ reconnectTimer' = FALSE
    /\ ws' = IF ws = "none" THEN "none" ELSE "closing"
    /\ UNCHANGED <<fetching, reconnectDelay, attempted, status>>

StreamInit ==
    /\ fetching = FALSE /\ ws = "none" /\ reconnectTimer = FALSE
    /\ reconnectDelay = BaseDelay /\ attempted = FALSE
    /\ status = "disconnected" /\ destroyed = FALSE
StreamStep ==
    \/ Start \/ TicketSettles \/ OpenThrows \/ onopen \/ onclose \/ TimerFires \/ destroy
StreamSpec == StreamInit /\ [][StreamStep]_streamVars

-----------------------------------------------------------------------------
(* There is one activity at a time, a request, a socket or a timer: a flapping *)
(* network never leaves two sockets that deliver each alarm twice, and after   *)
(* destroy() no timer is left that could open another one.                     *)
OneActivity ==
    /\ ~(fetching /\ ws # "none") /\ ~(fetching /\ reconnectTimer) /\ ~(ws # "none" /\ reconnectTimer)
    /\ destroyed => ~reconnectTimer /\ ws \in {"none", "closing"}

(* The stream implements the link the console sees. *)
Link == INSTANCE AlertLink WITH
    link <- IF destroyed THEN "gone" ELSE IF ws = "open" THEN "up" ELSE "down",
    told <- IF destroyed THEN "gone" ELSE status

(* The console's status badge is never better than the link: the stream, seen  *)
(* through its status and its socket, takes only steps of AlertLink.           *)
ImplementsLink == Link!Spec
==============================================================================
