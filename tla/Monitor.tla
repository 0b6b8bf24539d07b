------------------------------- MODULE Monitor -------------------------------
(***************************************************************************)
(* The monitor page, app/page.tsx, as the sum of its parts.  Each behaviour *)
(* exercises one part: the camera wall, a live tile, the scope of the       *)
(* timeline, the event feed, the event panel, the transport bar, or the     *)
(* dialogs.  What a part hears from another one (the mode, the reported     *)
(* cameras, the pushed events) is an input of its own module that may take  *)
(* any value the other part can send.                                       *)
(***************************************************************************)
EXTENDS CameraGrid, LiveTile, MonitorScope, EventFeed, EventPanel, Transport, MonitorDialogs

VARIABLE part

vars == <<part, gridVars, tileVars, scopeVars, feedVars, panelVars, transportVars, dialogVars>>

Parts == {"grid", "tile", "scope", "feed", "panel", "transport", "dialogs"}

Init ==
    /\ part \in Parts
    /\ GridInit /\ TileInit /\ ScopeInit /\ FeedInit /\ PanelInit /\ TransportInit /\ DialogInit

Next ==
    /\ UNCHANGED part
    /\ \/ part = "grid" /\ GridStep
          /\ UNCHANGED <<tileVars, scopeVars, feedVars, panelVars, transportVars, dialogVars>>
       \/ part = "tile" /\ (TileStep \/ GoLive \/ LeaveLive)
          /\ UNCHANGED <<gridVars, scopeVars, feedVars, panelVars, transportVars, dialogVars>>
       \/ part = "scope" /\ ScopeStep
          /\ UNCHANGED <<gridVars, tileVars, feedVars, panelVars, transportVars, dialogVars>>
       \/ part = "feed" /\ FeedStep
          /\ UNCHANGED <<gridVars, tileVars, scopeVars, panelVars, transportVars, dialogVars>>
       \/ part = "panel" /\ PanelStep
          /\ UNCHANGED <<gridVars, tileVars, scopeVars, feedVars, transportVars, dialogVars>>
       \/ part = "transport" /\ TransportStep
          /\ UNCHANGED <<gridVars, tileVars, scopeVars, feedVars, panelVars, dialogVars>>
       \/ part = "dialogs" /\ DialogStep
          /\ UNCHANGED <<gridVars, tileVars, scopeVars, feedVars, panelVars, transportVars>>

(* The intervals go off, requests and sockets answer.  A timeline query may    *)
(* fail any number of times, not for ever.                                     *)
Fairness ==
    /\ WF_scopeVars(part = "scope" /\ PollTimeline) /\ SF_scopeVars(part = "scope" /\ AnyReply)
    /\ WF_feedVars(part = "feed" /\ PollSent) /\ WF_feedVars(part = "feed" /\ FeedReply)
    /\ WF_feedVars(part = "feed" /\ TicketReply) /\ WF_feedVars(part = "feed" /\ SocketOpens)
    /\ WF_feedVars(part = "feed" /\ RetryTimer)
    /\ WF_dialogVars(part = "dialogs" /\ ExportReturns) /\ WF_dialogVars(part = "dialogs" /\ loadExports)
    /\ WF_dialogVars(part = "dialogs" /\ PlayReturns) /\ WF_dialogVars(part = "dialogs" /\ MessageEnds)
    /\ WF_panelVars(part = "panel" /\ FetchReturns)

Spec == Init /\ [][Next]_vars /\ Fairness

(* The link of the event feed comes back: a lost socket is followed by another *)
(* one for as long as the page stands.                                         *)
LinkComesBack == (part = "feed" /\ socket = "none") ~> (socket # "none" \/ unmounted)

(* The one type invariant: every part's. *)
TypeOK ==
    /\ GridTypeOK /\ TileTypeOK /\ ScopeTypeOK /\ FeedTypeOK /\ PanelTypeOK /\ TransportTypeOK
    /\ DialogTypeOK

(* What the page shows is so: the types, a wall that a reload would show again, *)
(* one link that brings each event once, rows that the filters ask for, a       *)
(* layout toggle that is on only with a layout, zones over live pictures only.  *)
MonitorInvariant ==
    /\ TypeOK /\ ShownIsStored /\ OneLink /\ RowsMatchFilters /\ LayoutToggleIsHonest /\ ZonesOnlyLive

(* What a hand does to the page is done and nothing else: a held PTZ button     *)
(* moves the camera, live view runs at normal speed, a drag is applied to its   *)
(* end, a conversion loses no camera, buttons do not lead past the present,     *)
(* pins stay.                                                                   *)
HandsAreObeyed ==
    /\ [](HeldKeepsMoving /\ LiveAtNormalSpeed /\ DragIsApplied)
    /\ ConversionKeepsCameras /\ ButtonsStayBehindNow /\ PinsStay

(* What was late, lost or failed is made up for: the timeline follows its       *)
(* scope, the link comes back, pictures reach the list and the open dialog, and *)
(* the list, the export button and the speaker bar stop waiting.                *)
PageCatchesUp ==
    /\ TimelineFollowsScope /\ LinkComesBack /\ PicturesArrive /\ DialogCatchesUp
    /\ PanelLoadingEnds /\ ExportButtonReturns /\ SpeakerQuiets
==============================================================================
