----------------------------- MODULE Backoffice -----------------------------
(***************************************************************************)
(* The browser outside the operator's console and the monitor page, as the  *)
(* sum of its parts: the alert stream, the session, the administration      *)
(* page, the site manager, the settings page, the camera manager and the    *)
(* customer portal.  A behaviour exercises one part; no part reads the      *)
(* state of another one.                                                    *)
(***************************************************************************)
EXTENDS AlertStream, Session, AdminDesk, SiteManager, NvrSettings, CameraDesk, Portal

VARIABLE part

vars == <<part, streamVars, sessionVars, adminVars, siteVars, settingsVars, camVars, portalVars>>

Parts == {"stream", "session"} \cup AdminParts \cup SiteParts \cup SettingsParts \cup CamParts \cup PortalParts

Init ==
    /\ part \in Parts
    /\ StreamInit /\ SessionInit /\ AdminInit /\ SiteInit /\ SettingsInit /\ CamInit /\ PortalInit
    /\ part # "session" => jar.session /\ ~sso       \* the other parts' pages are behind the login

Next ==
    /\ UNCHANGED part
    /\ \/ part = "stream" /\ StreamStep
          /\ UNCHANGED <<sessionVars, adminVars, siteVars, settingsVars, camVars, portalVars>>
       \/ part = "session" /\ SessionStep
          /\ UNCHANGED <<streamVars, adminVars, siteVars, settingsVars, camVars, portalVars>>
       \/ part \in AdminParts /\ AdminStep(part)
          /\ UNCHANGED <<streamVars, sessionVars, siteVars, settingsVars, camVars, portalVars>>
       \/ part \in SiteParts /\ SiteStep(part)
          /\ UNCHANGED <<streamVars, sessionVars, adminVars, settingsVars, camVars, portalVars>>
       \/ part \in SettingsParts /\ SettingsStep(part)
          /\ UNCHANGED <<streamVars, sessionVars, adminVars, siteVars, camVars, portalVars>>
       \/ part \in CamParts /\ CamStep(part)
          /\ UNCHANGED <<streamVars, sessionVars, adminVars, siteVars, settingsVars, portalVars>>
       \/ part \in PortalParts /\ PortalStep(part)
          /\ UNCHANGED <<streamVars, sessionVars, adminVars, siteVars, settingsVars, camVars>>

(* Timers and intervals go off and requests are answered, by a result or an     *)
(* error.  Where a property needs a success (a socket opens, a read of the      *)
(* event log or of a thread arrives), it may fail any number of times, not for  *)
(* ever.                                                                        *)
StreamFairness ==
    /\ WF_streamVars(part = "stream" /\ Start) /\ SF_streamVars(part = "stream" /\ TicketSettles)
    /\ SF_streamVars(part = "stream" /\ onopen) /\ WF_streamVars(part = "stream" /\ TimerFires)
PageFairness ==
    /\ WF_sessionVars(part = "session" /\ RequestStep)
    /\ WF_adminVars(part = "tabs" /\ refreshCameras) /\ WF_adminVars(part = "operators" /\ OperatorCreated)
    /\ WF_adminVars(part = "account" /\ FormReply)
    /\ WF_settingsVars(part = "eventlog" /\ AutoRefresh) /\ SF_settingsVars(part = "eventlog" /\ EventsArrive)
    /\ WF_camVars(part = "vendorpanel" /\ PanelSaved) /\ WF_camVars(part = "zones" /\ ZoneSaved)
    /\ WF_camVars(part = "snapshot" /\ FrameTimeout)
    /\ WF_portalVars(part = "support" /\ (ReadAnswered \/ SendFails)) /\ WF_portalVars(part = "support" /\ PollThread)
    /\ SF_portalVars(part = "support" /\ ThreadArrives)
    /\ WF_portalVars(part = "labeling" /\ (LabelStored \/ LabelRefused))
    /\ WF_portalVars(part = "labeling" /\ (ClaimAnswered \/ ClaimFails))

Spec == Init /\ [][Next]_vars /\ StreamFairness /\ PageFairness

-----------------------------------------------------------------------------
(* The one type invariant: every part's.  The reconnect delay of the alert      *)
(* stream stays between its first value and its limit.                          *)
TypeOK ==
    /\ StreamTypeOK /\ SessionTypeOK /\ AdminTypeOK /\ SiteTypeOK /\ SettingsTypeOK /\ CamTypeOK /\ PortalTypeOK

(* Every form is usable again after a request that disabled it, whatever the    *)
(* answer and the reads that follow it: operators, accounts, vendor panels,     *)
(* zone drawing, support and labelling.                                         *)
FormsComeBack ==
    /\ OperatorButtonReturns /\ AccountButtonReturns /\ PanelSaveReturns /\ DrawingEnds
    /\ SupportReturns /\ LabelingReturns

(* The alert stream comes back: scheduleReconnect() retries for as long as the  *)
(* console stands, whatever failed, the ticket, the constructor or the socket.  *)
StreamComesBack == (part = "stream" /\ ws # "open") ~> (ws = "open" \/ destroyed)

(* The event log shows the filter that is set: with automatic refresh on, late  *)
(* answers of an earlier filter are replaced.                                   *)
EventLogCatchesUp ==
    \A f \in Filters : (part = "eventlog" /\ evlog.filter = f) ~> (evlog.shown = f \/ evlog.filter # f \/ ~evlog.auto)

(* A thread that stays open is shown, although a load fails or an answer to     *)
(* another ticket arrives: the widget reads it again every thirty seconds.      *)
ThreadCatchesUp ==
    \A t \in Tickets : (part = "support" /\ support.view = t) ~> (support.thread = t \/ support.view # t)

(* What a page shows is so: the types, and the windows, exported entries,       *)
(* findings and expiry shown are those the server has.                          *)
BackofficeInvariant ==
    /\ TypeOK /\ ShownWindowsAreStored /\ ExportIsWhole /\ FindingListedOnce
    /\ HiddenFindingsAreReviewed /\ ShownExpiryIsTheLinks

(* No write is made that was not meant, however late the answers come and       *)
(* whatever is edited meanwhile: writes and profiles once, no staff account     *)
(* from the customer form, only confirmed cameras and listed devices, values as *)
(* they stand, nothing to a camera that was not read, zones that are shapes,    *)
(* labels with a verdict, a moved camera with a site, contacts that survive,    *)
(* the folder that was chosen, a webhook that is offered, a revoked session.    *)
OnlyMeantWrites ==
    /\ [](WritesAppliedOnce /\ SignedOutIsRevoked /\ StaffNeedsStaffForm /\ OneProfileSave)
    /\ [](OnlyConfirmedAreDeleted /\ OnlyListedAreAdded /\ SaveSendsWhatStands)
    /\ [](NothingWrittenUnread /\ ZonesAreShapes /\ LabelsHaveAVerdict)
    /\ MovedCameraKeepsASite /\ ContactsSurvive /\ ChosenFolderIsFilledIn /\ WebhookIsOffered

(* No page waits for ever: the stream reconnects, an ended session is noticed,  *)
(* forms come back, camera tabs and zone pictures settle, the event log and an  *)
(* open thread catch up.                                                        *)
PagesRecover ==
    /\ StreamComesBack /\ ExpiryIsNoticed /\ FormsComeBack /\ CamerasSettle /\ SnapshotSettles
    /\ EventLogCatchesUp /\ ThreadCatchesUp
=============================================================================
