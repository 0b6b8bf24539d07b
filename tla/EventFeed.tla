------------------------------ MODULE EventFeed ------------------------------
(***************************************************************************)
(* The monitor's list of events, app/page.tsx: pushed over a web socket     *)
(* that reconnects with a fresh ticket, refilled by a poll that replaces    *)
(* the copies it brings, and shown in the panel's detail dialog.  An event  *)
(* is stored without a picture first; the picture follows.  The 200-row cap *)
(* of the list is not reached by the events of an instance.                 *)
(***************************************************************************)
EXTENDS Naturals, FiniteSets

CONSTANTS Events,       \* events of an instance
          MaxPolls      \* bound: polls under way

VARIABLES
    server,    \* per event: "no", "bare" (no picture) or "full"
    rows,      \* the page's copy of each event
    pushes,    \* socket messages under way: <<event, with picture>>
    polls,     \* answers under way, each the list the server had
    ticket, socket, retry, unmounted,   \* the connection
    detail     \* event of the open dialog and the copy taken by the click

feedVars == <<server, rows, pushes, polls, ticket, socket, retry, unmounted, detail>>
linkVars == <<ticket, socket, retry, unmounted>>

Copy == {"no", "bare", "full"}
NoEvent == "none"
Closed == [of |-> NoEvent, copy |-> "no"]

(* The one type invariant. *)
FeedTypeOK ==
    /\ server \in [Events -> Copy] /\ rows \in [Events -> Copy]
    /\ pushes \subseteq Events \X BOOLEAN
    /\ polls \subseteq [Events -> Copy]
    /\ ticket \in BOOLEAN /\ socket \in {"none", "opening", "open", "closing"}
    /\ retry \in BOOLEAN /\ unmounted \in BOOLEAN
    /\ detail \in [of : Events \cup {NoEvent}, copy : Copy]

-----------------------------------------------------------------------------
(* The server: it broadcasts what it stores, to whoever is connected.        *)
Broadcast(e, pic) == pushes' = IF socket = "open" THEN pushes \cup {<<e, pic>>} ELSE pushes
EventStored(e) ==
    /\ server[e] = "no" /\ server' = [server EXCEPT ![e] = "bare"]
    /\ Broadcast(e, FALSE) /\ UNCHANGED <<rows, polls, detail, linkVars>>
PictureStored(e) ==
    /\ server[e] = "bare" /\ server' = [server EXCEPT ![e] = "full"]
    /\ Broadcast(e, TRUE) /\ UNCHANGED <<rows, polls, detail, linkVars>>

-----------------------------------------------------------------------------
(* connect(): a ticket, then a socket with or without it. *)
connect == ticket' = TRUE
TicketReply ==
    /\ ticket /\ ticket' = FALSE
    /\ socket' = IF unmounted THEN socket ELSE "opening"
    /\ UNCHANGED <<server, rows, pushes, polls, retry, unmounted, detail>>
SocketOpens ==
    /\ socket = "opening" /\ socket' = "open"
    /\ UNCHANGED <<server, rows, pushes, polls, ticket, retry, unmounted, detail>>
(* Mutant of onclose: it connects at once and arms the timer as well. *)
CloseAndConnect ==
    /\ socket # "none" /\ socket' = "none" /\ pushes' = {}
    /\ retry' = ~unmounted /\ ticket' = ~unmounted
    /\ UNCHANGED <<server, rows, polls, unmounted, detail>>
(* Mutant of onclose: the loss is not followed by a retry. *)
CloseForGood ==
    /\ socket # "none" /\ socket' = "none" /\ pushes' = {}
    /\ UNCHANGED <<server, rows, polls, ticket, retry, unmounted, detail>>
onclose ==
    /\ socket # "none" /\ socket' = "none" /\ pushes' = {}
    /\ retry' = ~unmounted
    /\ UNCHANGED <<server, rows, polls, ticket, unmounted, detail>>
RetryTimer ==
    /\ retry /\ retry' = FALSE /\ connect
    /\ UNCHANGED <<server, rows, pushes, polls, socket, unmounted, detail>>
(* The page goes: the timer is cleared, the socket closed; a ticket under way *)
(* finds it gone.                                                             *)
Unmount ==
    /\ ~unmounted /\ unmounted' = TRUE /\ retry' = FALSE
    /\ socket' = IF socket = "none" THEN "none" ELSE "closing"
    /\ detail' = Closed
    /\ UNCHANGED <<server, rows, pushes, polls, ticket>>

(* onmessage: a new event goes in front, a picture is put to its event.       *)
Better(e, pic, row) == IF ~pic THEN "bare" ELSE IF row = "no" THEN "no" ELSE "full"
onmessage(m) ==
    /\ m \in pushes /\ socket = "open"
    /\ m[2] => <<m[1], FALSE>> \notin pushes
    /\ pushes' = pushes \ {m}
    /\ rows' = [rows EXCEPT ![m[1]] = Better(m[1], m[2], @)]
    /\ UNCHANGED <<server, polls, detail, linkVars>>

(* loadTimeline's event query, every 30 s; its copies replace the old ones.   *)
PollSent ==
    /\ ~unmounted /\ Cardinality(polls) < MaxPolls
    /\ polls' = polls \cup {server}
    /\ UNCHANGED <<server, rows, pushes, detail, linkVars>>
(* Mutant: copies the page has are kept. *)
MergeKeepingOld(answer) == [e \in Events |-> IF rows[e] # "no" THEN rows[e] ELSE answer[e]]
MergePolled(answer) == [e \in Events |-> IF answer[e] # "no" THEN answer[e] ELSE rows[e]]
PollReply(answer) ==
    /\ answer \in polls /\ polls' = polls \ {answer}
    /\ rows' = MergePolled(answer)
    /\ UNCHANGED <<server, pushes, detail, linkVars>>

-----------------------------------------------------------------------------
(* The detail dialog shows the list's copy of its event, else the clicked one. *)
setDetailEvent(e) ==
    /\ ~unmounted /\ rows[e] # "no"
    /\ detail' = [of |-> e, copy |-> rows[e]]
    /\ UNCHANGED <<server, rows, pushes, polls, linkVars>>
CloseDetail ==
    /\ detail # Closed /\ detail' = Closed
    /\ UNCHANGED <<server, rows, pushes, polls, linkVars>>
ClickedCopy == detail.copy   \* mutant: the snapshot of the click
activeDetailEvent == IF detail.of # NoEvent /\ rows[detail.of] # "no" THEN rows[detail.of] ELSE detail.copy

FeedInit ==
    /\ server = [e \in Events |-> "no"] /\ rows = server
    /\ pushes = {} /\ polls = {}
    /\ ticket = TRUE /\ socket = "none" /\ retry = FALSE /\ unmounted = FALSE
    /\ detail = Closed
FeedStep ==
    \/ \E e \in Events : EventStored(e) \/ PictureStored(e) \/ setDetailEvent(e)
    \/ TicketReply \/ SocketOpens \/ onclose \/ RetryTimer \/ Unmount
    \/ \E m \in pushes : onmessage(m)
    \/ PollSent \/ \E answer \in polls : PollReply(answer)
    \/ CloseDetail

FeedReply == \E answer \in polls : PollReply(answer)

(* There is one way to the server at a time, a ticket, a socket or a timer:   *)
(* a flapping connection never multiplies its sockets and no event is pushed   *)
(* twice.                                                                      *)
OneLink ==
    Cardinality({x \in {1} : ticket} \cup {x \in {2} : socket # "none"} \cup {x \in {3} : retry}) <= 1

(* Every stored picture reaches the list for good, whether its push is lost,   *)
(* an older answer overtakes it, or the socket was down when it was sent.      *)
PicturesArrive ==
    <>[](unmounted \/ \A e \in Events : server[e] = "full" => rows[e] = "full")

(* A dialog left open on an event shows the picture that comes after the click. *)
DialogCatchesUp ==
    <>[](detail.of # NoEvent /\ server[detail.of] = "full" => activeDetailEvent = "full" \/ unmounted)
==============================================================================
