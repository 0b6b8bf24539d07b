---------------------------- MODULE MonitorProofs ----------------------------
(***************************************************************************)
(* The monitor page for every number of cameras, layouts, presets, events   *)
(* and pins: MonitorInvariant is an invariant of the page, and what a hand  *)
(* does to it is done.  Each part has an inductive invariant of its own;    *)
(* the page's is their conjunction.                                         *)
(***************************************************************************)
EXTENDS Monitor, FiniteSetTheorems, WellFoundedInduction, TLAPS

-----------------------------------------------------------------------------
(* Least and greatest members *)

(* A set of numbers that is not empty has a least one. *)
LEMMA LeastNumber ==
    ASSUME NEW S, S \subseteq Nat, S # {}
    PROVE  \E x \in S : \A y \in S : x <= y
<1> DEFINE R == {ss \in Nat \X Nat : ss[1] < ss[2]}
<1>1. R = OpToRel(<, Nat)
  BY DEF OpToRel
<1>2. IsWellFoundedOn(OpToRel(<, Nat), Nat)
  BY NatLessThanWellFounded
<1>3. IsWellFoundedOn(R, Nat)
  BY <1>1, <1>2, Zenon
<1> HIDE DEF R
<1>4. \E x \in S : \A y \in S : ~(<<y, x>> \in R)
  BY <1>3, WFMin
<1>5. PICK x \in S : \A y \in S : ~(<<y, x>> \in R)
  BY <1>4, Zenon
<1>6. \A a, b \in Nat : b < a => <<b, a>> \in R
  BY DEF R
<1>7. \A y \in S : y \in Nat /\ x \in Nat /\ ~(y < x)
  BY <1>5, <1>6, Zenon
<1>8. \A y \in S : x <= y
  BY <1>7
<1> QED BY <1>8

LEMMA LeastOf ==
    ASSUME NEW S, S \subseteq Nat, S # {}
    PROVE  Min(S) \in S /\ \A y \in S : Min(S) <= y
<1>1. PICK x \in S : \A y \in S : x <= y
  BY LeastNumber
<1> QED BY <1>1 DEF Min

LEMMA GreatestOf ==
    ASSUME NEW S, S \subseteq Nat, S # {}, NEW bound \in Nat, \A x \in S : x <= bound
    PROVE  Max(S) \in S /\ \A y \in S : y <= Max(S)
<1> DEFINE U == {b \in Nat : \A x \in S : x <= b}
<1>1. bound \in U
  OBVIOUS
<1>2. PICK b \in U : \A y \in U : b <= y
  BY <1>1, LeastNumber
<1>3. b \in S
  <2> SUFFICES ASSUME b \notin S PROVE FALSE
    OBVIOUS
  <2>1. b # 0
    <3>1. PICK x \in S : TRUE
      OBVIOUS
    <3>2. x \in Nat /\ x <= b /\ x # b
      OBVIOUS
    <3> QED BY <3>2
  <2>2. b - 1 \in Nat /\ \A x \in S : x <= b - 1
    BY <2>1
  <2>3. b - 1 \in U
    BY <2>2
  <2> QED BY <1>2, <2>3
<1>4. \A y \in S : b >= y
  OBVIOUS
<1>5. Max(S) \in S /\ \A y \in S : Max(S) >= y
  BY <1>3, <1>4, Zenon DEF Max
<1>6. \A y \in S : Max(S) \in Nat /\ y \in Nat
  BY <1>5
<1> QED BY <1>5, <1>6

LEMMA MaxOfTwo ==
    ASSUME NEW a \in Int, NEW b \in Int
    PROVE  Max({a, b}) = IF a >= b THEN a ELSE b
  BY DEF Max

LEMMA MinOfTwo ==
    ASSUME NEW a \in Int, NEW b \in Int
    PROVE  Min({a, b}) = IF a <= b THEN a ELSE b
  BY DEF Min

-----------------------------------------------------------------------------
(* The live tile *)

TileInv ==
    /\ TileTypeOK /\ HeldKeepsMoving /\ ZonesOnlyLive
    /\ "current" \in zoneCalls => isLive

LEMMA TileStarts == TileInit => TileInv
<1> SUFFICES ASSUME TileInit PROVE TileInv
  OBVIOUS
<1>1. ptz \in [held : BOOLEAN, moving : BOOLEAN, timer : BOOLEAN] /\ ~ptz.held
  BY DEF TileInit
<1>2. isLive /\ isLive \in BOOLEAN /\ lowLatency \in BOOLEAN /\ ~hasZones /\ hasZones \in BOOLEAN
  BY DEF TileInit
<1>3. session \in Opening /\ zoneCalls = {"current"}
  BY DEF TileInit, Opening
<1> QED
  BY <1>1, <1>2, <1>3 DEF TileInv, TileTypeOK, HeldKeepsMoving, ZonesOnlyLive

LEMMA TileKept == TileInv /\ (TileStep \/ GoLive \/ LeaveLive) => TileInv'
<1> SUFFICES ASSUME TileInv, TileStep \/ GoLive \/ LeaveLive PROVE TileInv'
  OBVIOUS
<1> USE DEF TileInv, TileTypeOK, HeldKeepsMoving, ZonesOnlyLive, Opening, SessionBecomes, PtzShown,
            PtzOnly
<1>1. CASE GoLive
  BY <1>1 DEF GoLive
<1>2. CASE LeaveLive
  BY <1>2 DEF LeaveLive
<1>3. CASE HlsManifest
  BY <1>3 DEF HlsManifest
<1>4. CASE MseAdvances
  BY <1>4 DEF MseAdvances
<1>5. CASE StreamFails
  BY <1>5 DEF StreamFails
<1>6. CASE MseClosedNormally
  BY <1>6 DEF MseClosedNormally
<1>7. CASE toggleCellQuality
  BY <1>7 DEF toggleCellQuality
<1>8. CASE FlagArrives
  BY <1>8 DEF FlagArrives
<1>9. CASE \E c \in {"current", "cancelled"} : ZonesReply(c)
  BY <1>9 DEF ZonesReply
<1>10. CASE handlePTZStart
  BY <1>10 DEF handlePTZStart
<1>11. CASE handlePTZStop
  BY <1>11 DEF handlePTZStop
<1>12. CASE PTZStopTimer
  BY <1>12 DEF PTZStopTimer
<1> QED
  BY <1>1, <1>2, <1>3, <1>4, <1>5, <1>6, <1>7, <1>8, <1>9, <1>10, <1>11, <1>12 DEF TileStep

-----------------------------------------------------------------------------
(* The scope of the timeline *)

LEMMA ScopeStarts == ScopeInit => ScopeTypeOK
  BY ScopeAssumption DEF ScopeInit, ScopeTypeOK

LEMMA ScopeKept == ScopeTypeOK /\ ScopeStep => ScopeTypeOK'
<1> SUFFICES ASSUME ScopeTypeOK, ScopeStep PROVE ScopeTypeOK'
  OBVIOUS
<1>1. \A iso \in Lenses \cup {NoLens}, ids \in SUBSET Lenses : Wanted(iso, ids) \in SUBSET Lenses
  BY DEF Wanted
<1>2. Changes => changes' \in 0..MaxChanges
  BY ScopeAssumption DEF Changes, ScopeTypeOK
<1> USE DEF ScopeTypeOK, Ask
<1>3. ASSUME NEW p \in {"live", "analytics", "map"}, switchPage(p) PROVE ScopeTypeOK'
  BY <1>2, <1>3 DEF switchPage
<1>4. ASSUME NEW S \in SUBSET Lenses, CamerasLoaded(S) \/ handleVisibleCamerasChange(S)
      PROVE  ScopeTypeOK'
  BY <1>1, <1>2, <1>4 DEF CamerasLoaded, handleVisibleCamerasChange
<1>5. ASSUME NEW c \in Lenses \cup {NoLens}, onIsolateCamera(c) PROVE ScopeTypeOK'
  BY <1>1, <1>2, <1>5 DEF onIsolateCamera
<1>6. ASSUME NEW c \in Lenses, Peek(c) PROVE ScopeTypeOK'
  BY <1>1, <1>2, <1>6 DEF Peek
<1>7. CASE ClosePeek
  BY <1>1, <1>7 DEF ClosePeek
<1>8. CASE PollTimeline
  BY <1>1, <1>8 DEF PollTimeline
<1>9. ASSUME NEW s \in queries, TimelineReply(s) \/ TimelineFails(s) PROVE ScopeTypeOK'
  BY <1>9 DEF TimelineReply, TimelineFails
<1> QED
  BY <1>3, <1>4, <1>5, <1>6, <1>7, <1>8, <1>9 DEF ScopeStep

-----------------------------------------------------------------------------
(* The event feed *)

(* A ticket, a socket and a timer exclude each other. *)
FeedInv ==
    /\ FeedTypeOK
    /\ ticket => socket = "none" /\ ~retry
    /\ retry => socket = "none"
    /\ OneLink

LEMMA LinksExclude ==
    (ticket => socket = "none" /\ ~retry) /\ (retry => socket = "none") => OneLink
<1> SUFFICES ASSUME ticket => socket = "none" /\ ~retry, retry => socket = "none" PROVE OneLink
  OBVIOUS
<1> DEFINE ways == {x \in {1} : ticket} \cup {x \in {2} : socket # "none"} \cup {x \in {3} : retry}
<1>1. ways = {} \/ \E x : ways = {x}
  <2>1. CASE ticket
    <3>1. ways = {1}
      BY <2>1
    <3> QED BY <3>1
  <2>2. CASE ~ticket /\ retry
    <3>1. ways = {3}
      BY <2>2
    <3> QED BY <3>1
  <2>3. CASE ~ticket /\ ~retry /\ socket # "none"
    <3>1. ways = {2}
      BY <2>3
    <3> QED BY <3>1
  <2>4. CASE ~ticket /\ ~retry /\ socket = "none"
    BY <2>4
  <2> QED BY <2>1, <2>2, <2>3, <2>4
<1>2. Cardinality(ways) = 0 \/ Cardinality(ways) = 1
  <2> HIDE DEF ways
  <2> QED BY <1>1, FS_EmptySet, FS_Singleton
<1>3. Cardinality(ways) <= 1
  BY <1>2
<1> QED BY <1>3 DEF OneLink

LEMMA FeedStarts == FeedInit => FeedInv
<1> SUFFICES ASSUME FeedInit PROVE FeedInv
  OBVIOUS
<1>1. FeedTypeOK
  BY DEF FeedInit, FeedTypeOK, Copy, Closed
<1>2. (ticket => socket = "none" /\ ~retry) /\ (retry => socket = "none")
  BY DEF FeedInit
<1> QED BY <1>1, <1>2, LinksExclude DEF FeedInv

LEMMA FeedKept == FeedInv /\ FeedStep => FeedInv'
<1> SUFFICES ASSUME FeedInv, FeedStep PROVE FeedInv'
  OBVIOUS
<1> DEFINE Alone == (ticket => socket = "none" /\ ~retry) /\ (retry => socket = "none")
<1>0. SUFFICES FeedTypeOK' /\ Alone'
  <2>1. Alone' => OneLink'
    BY LinksExclude, PTL
  <2> QED BY <2>1 DEF FeedInv
<1> USE DEF FeedInv, FeedTypeOK, Copy, linkVars
<1>1. ASSUME NEW e \in Events, EventStored(e) \/ PictureStored(e) PROVE FeedTypeOK' /\ Alone'
  <2>1. server' \in [Events -> Copy]
    BY <1>1 DEF EventStored, PictureStored
  <2>2. pushes' \subseteq Events \X BOOLEAN
    <3>1. <<e, FALSE>> \in Events \X BOOLEAN /\ <<e, TRUE>> \in Events \X BOOLEAN
      OBVIOUS
    <3>2. pushes' = pushes \/ pushes' = pushes \cup {<<e, FALSE>>} \/ pushes' = pushes \cup {<<e, TRUE>>}
      BY <1>1, Zenon DEF EventStored, PictureStored, Broadcast
    <3> QED BY <3>1, <3>2, Zenon DEF FeedInv, FeedTypeOK
  <2>3. UNCHANGED <<rows, polls, detail, ticket, socket, retry, unmounted>>
    BY <1>1, Zenon DEF EventStored, PictureStored, linkVars
  <2> QED BY <2>1, <2>2, <2>3, Zenon DEF FeedInv, FeedTypeOK
<1>2. ASSUME NEW e \in Events, setDetailEvent(e) PROVE FeedTypeOK' /\ Alone'
  BY <1>2 DEF setDetailEvent
<1>3. CASE TicketReply
  BY <1>3 DEF TicketReply
<1>4. CASE SocketOpens
  BY <1>4 DEF SocketOpens
<1>5. CASE onclose
  BY <1>5 DEF onclose
<1>6. CASE RetryTimer
  BY <1>6 DEF RetryTimer, connect
<1>7. CASE Unmount
  BY <1>7 DEF Unmount, Closed
<1>8. ASSUME NEW m \in pushes, onmessage(m) PROVE FeedTypeOK' /\ Alone'
  BY <1>8 DEF onmessage, Better
<1>9. CASE PollSent
  BY <1>9 DEF PollSent
<1>10. ASSUME NEW answer \in polls, PollReply(answer) PROVE FeedTypeOK' /\ Alone'
  BY <1>10 DEF PollReply, MergePolled
<1>11. CASE CloseDetail
  BY <1>11 DEF CloseDetail, Closed
<1> QED
  BY <1>1, <1>2, <1>3, <1>4, <1>5, <1>6, <1>7, <1>8, <1>9, <1>10, <1>11 DEF FeedStep

-----------------------------------------------------------------------------
(* The event panel *)

PanelInv == PanelTypeOK /\ LayoutToggleIsHonest

Panel == [open : BOOLEAN, scopeOn : BOOLEAN, custom : BOOLEAN, typeOn : BOOLEAN,
          chosen : SUBSET Cameras, remote : SUBSET Cameras, fetches : SUBSET (SUBSET Cameras),
          debounce : BOOLEAN, loading : BOOLEAN]

(* The filter is applied where the rows are drawn, not where they arrive; the  *)
(* empty layout, which would ask for every camera, is excluded by the toggle.   *)
LEMMA ShownMatches == PanelInv => RowsMatchFilters
<1> SUFFICES ASSUME PanelInv, NEW c \in displayedEvents(panel, liveRows, layoutIds)
             PROVE  /\ panel.typeOn
                    /\ panel.chosen # {} => c \in panel.chosen
                    /\ panel.chosen = {} /\ panel.scopeOn => c \in layoutIds
  BY DEF RowsMatchFilters
<1>1. matchesFilters(panel, layoutIds, c)
  BY Zenon DEF displayedEvents
<1> QED BY <1>1, Zenon DEF matchesFilters, effectiveCameraIds, PanelInv, LayoutToggleIsHonest

LEMMA PanelStarts == PanelInit => PanelInv
<1> SUFFICES ASSUME PanelInit PROVE PanelInv
  OBVIOUS
<1>1. panel \in Panel
  BY DEF PanelInit, Panel
<1>2. ~panel.scopeOn /\ liveRows = {} /\ layoutIds = {}
  BY DEF PanelInit
<1> QED BY <1>1, <1>2 DEF PanelInv, PanelTypeOK, LayoutToggleIsHonest, Panel

(* After an effect has run, the toggle is on only with a layout. *)
LEMMA RerenderedIsHonest ==
    ASSUME NEW p \in Panel, NEW ids
    PROVE  Rerendered(p, ids) \in Panel /\ (Rerendered(p, ids).scopeOn => ids # {})
  BY DEF Rerendered, AutoClear, Panel

LEMMA PanelKept == PanelInv /\ PanelStep => PanelInv'
<1> SUFFICES ASSUME PanelInv, PanelStep PROVE PanelInv'
  OBVIOUS
<1>0. panel \in Panel /\ liveRows \subseteq Cameras /\ layoutIds \subseteq Cameras
      /\ (panel.scopeOn => layoutIds # {})
  BY DEF PanelInv, PanelTypeOK, LayoutToggleIsHonest, Panel
<1>1. ASSUME panel' \in Panel, liveRows' \subseteq Cameras, layoutIds' \subseteq Cameras,
             panel'.scopeOn => layoutIds' # {}
      PROVE  PanelInv'
  BY <1>1 DEF PanelInv, PanelTypeOK, LayoutToggleIsHonest, Panel
<1>2. ASSUME NEW p \in Panel, Filter(p) PROVE PanelInv'
  <2>1. panel' = Rerendered(p, layoutIds) /\ liveRows' = liveRows /\ layoutIds' = layoutIds
    BY <1>2 DEF Filter
  <2>2. panel' \in Panel /\ (panel'.scopeOn => layoutIds' # {})
    BY <2>1, RerenderedIsHonest
  <2> QED BY <1>0, <1>1, <2>1, <2>2
<1>3. CASE toggleType
  <2>1. [panel EXCEPT !.typeOn = ~@] \in Panel
    BY <1>0 DEF Panel
  <2> QED BY <1>2, <1>3, <2>1 DEF toggleType
<1>4. ASSUME NEW c \in Cameras, toggleCamera(c) PROVE PanelInv'
  <2>1. [panel EXCEPT !.chosen = IF c \in @ THEN @ \ {c} ELSE @ \cup {c}] \in Panel
    BY <1>0 DEF Panel
  <2> QED BY <1>2, <1>4, <2>1 DEF toggleCamera
<1>5. CASE ClearCameras
  <2>1. [panel EXCEPT !.chosen = {}] \in Panel
    BY <1>0 DEF Panel
  <2> QED BY <1>2, <1>5, <2>1 DEF ClearCameras
<1>6. CASE ToggleLayout
  <2>1. [panel EXCEPT !.scopeOn = ~@] \in Panel
    BY <1>0 DEF Panel
  <2> QED BY <1>2, <1>6, <2>1 DEF ToggleLayout
<1>7. CASE ToggleRange
  <2>1. [panel EXCEPT !.custom = ~@] \in Panel
    BY <1>0 DEF Panel
  <2> QED BY <1>2, <1>7, <2>1 DEF ToggleRange
<1>8. CASE LayoutReported
  <2>1. PICK ids \in SUBSET Cameras :
           layoutIds' = ids /\ panel' = IF panel.scopeOn THEN Rerendered(panel, ids) ELSE panel
    BY <1>8 DEF LayoutReported
  <2>2. panel' \in Panel /\ (panel'.scopeOn => ids # {})
    BY <1>0, <2>1, RerenderedIsHonest
  <2> QED BY <1>0, <1>1, <1>8, <2>1, <2>2 DEF LayoutReported
<1>9. ASSUME NEW c \in Cameras, EventPushed(c) PROVE PanelInv'
  BY <1>0, <1>1, <1>9 DEF EventPushed
<1>10. CASE OpenOrClose
  <2>1. panel' \in Panel /\ panel'.scopeOn = panel.scopeOn
    BY <1>0, <1>10 DEF OpenOrClose, Panel
  <2> QED BY <1>0, <1>1, <1>10, <2>1 DEF OpenOrClose
<1>11. CASE fetchEvents
  <2>1. effectiveCameraIds(panel, layoutIds) \in SUBSET Cameras
    BY <1>0 DEF effectiveCameraIds, Panel
  <2>2. panel' \in Panel /\ panel'.scopeOn = panel.scopeOn
    BY <1>0, <1>11, <2>1 DEF fetchEvents, Panel
  <2> QED BY <1>0, <1>1, <1>11, <2>2 DEF fetchEvents
<1>12. ASSUME NEW scope \in panel.fetches, FetchAnswered(scope) PROVE PanelInv'
  <2>1. scope \in SUBSET Cameras
    BY <1>0 DEF Panel
  <2>2. \A rs \in Answers(scope) : rs \in SUBSET Cameras
    BY <2>1 DEF Answers
  <2>3. PICK rs \in SUBSET Cameras :
           panel' = [panel EXCEPT !.fetches = @ \ {scope}, !.remote = rs, !.loading = FALSE]
    BY <1>12, <2>2, Zenon DEF FetchAnswered
  <2>4. panel' \in Panel /\ panel'.scopeOn = panel.scopeOn
    BY <1>0, <2>3 DEF Panel
  <2> QED BY <1>0, <1>1, <1>12, <2>4 DEF FetchAnswered
<1>13. ASSUME NEW scope \in panel.fetches, FetchFails(scope) PROVE PanelInv'
  <2>1. panel' \in Panel /\ panel'.scopeOn = panel.scopeOn
    BY <1>0, <1>13 DEF FetchFails, Panel
  <2> QED BY <1>0, <1>1, <1>13, <2>1 DEF FetchFails
<1> QED
  BY <1>3, <1>4, <1>5, <1>6, <1>7, <1>8, <1>9, <1>10, <1>11, <1>12, <1>13 DEF PanelStep, FetchReturns

-----------------------------------------------------------------------------
(* The dialogs and the map *)

(* Every job made or asked for counts against the bound; a map on the screen   *)
(* shows at least what is saved.                                               *)
DialogInv ==
    /\ DialogTypeOK
    /\ export.posts + export.jobs <= MaxJobs
    /\ map.shown => map.saved \subseteq map.placed

Export == [open : BOOLEAN, busy : BOOLEAN, posts : 0..MaxJobs, lists : 0..MaxJobs, jobs : 0..MaxJobs]
Speaker == [peeking : BOOLEAN, bar : BOOLEAN, loading : BOOLEAN, playing : BOOLEAN,
            calls : SUBSET {"play", "stop"}, timers : 0..MaxTimers]
Map == [shown : BOOLEAN, edit : BOOLEAN, drag : {"none"} \cup Pins, placed : SUBSET Pins, saved : SUBSET Pins]

ExportPart == export \in Export /\ export.posts + export.jobs <= MaxJobs
MapPart == map \in Map /\ (map.shown => map.saved \subseteq map.placed)

LEMMA DialogParts == DialogInv <=> ExportPart /\ speaker \in Speaker /\ banner \in BOOLEAN /\ MapPart
  BY DEF DialogInv, DialogTypeOK, ExportPart, MapPart, Export, Speaker, Map

LEMMA DialogStarts == DialogInit => DialogInv
<1> SUFFICES ASSUME DialogInit PROVE DialogInv
  OBVIOUS
<1>1. 0 \in 0..MaxJobs /\ 0 \in 0..MaxTimers /\ MaxJobs \in Nat
  BY DialogAssumption
<1>2. ExportPart
  BY <1>1 DEF DialogInit, ExportPart, Export
<1>3. speaker \in Speaker
  BY <1>1 DEF DialogInit, Speaker
<1>4. MapPart
  BY DEF DialogInit, MapPart, Map
<1> QED BY <1>2, <1>3, <1>4, DialogParts DEF DialogInit

LEMMA DialogKept == DialogInv /\ DialogStep => DialogInv'
<1> SUFFICES ASSUME DialogInv, DialogStep PROVE DialogInv'
  OBVIOUS
<1>0. MaxJobs \in Nat /\ MaxTimers \in Nat
  BY DialogAssumption
<1>a. ExportPart /\ speaker \in Speaker /\ banner \in BOOLEAN /\ MapPart
  BY DialogParts
<1>b. SUFFICES ExportPart' /\ speaker' \in Speaker /\ banner' \in BOOLEAN /\ MapPart'
  BY DEF DialogInv, DialogTypeOK, ExportPart, MapPart, Export, Speaker, Map
<1>c. ASSUME ExportPart', ExportOnly PROVE ExportPart' /\ speaker' \in Speaker /\ banner' \in BOOLEAN /\ MapPart'
  BY <1>a, <1>c, Zenon DEF ExportOnly, MapPart
<1>d. ASSUME speaker' \in Speaker, SpeakerOnly
      PROVE  ExportPart' /\ speaker' \in Speaker /\ banner' \in BOOLEAN /\ MapPart'
  BY <1>a, <1>d, Zenon DEF SpeakerOnly, MapPart, ExportPart
<1>e. ASSUME MapPart', MapOnly PROVE ExportPart' /\ speaker' \in Speaker /\ banner' \in BOOLEAN /\ MapPart'
  BY <1>a, <1>e, Zenon DEF MapOnly, ExportPart
<1>1. CASE OpenExport
  <2>1. export.lists \in 0..MaxJobs /\ (export.lists < MaxJobs => export.lists + 1 \in 0..MaxJobs)
    BY <1>0, <1>a DEF ExportPart, Export
  <2>2. export' \in Export /\ export'.posts = export.posts /\ export'.jobs = export.jobs
    BY <1>a, <1>1, <2>1 DEF OpenExport, ExportPart, Export
  <2> QED BY <1>a, <1>c, <1>1, <2>2 DEF OpenExport, ExportPart
<1>2. CASE CloseExport
  <2>1. export' \in Export /\ export'.posts = export.posts /\ export'.jobs = export.jobs
    BY <1>a, <1>2 DEF CloseExport, ExportPart, Export
  <2> QED BY <1>a, <1>c, <1>2, <2>1 DEF CloseExport, ExportPart
<1>3. CASE handleExport
  <2>1. export.posts \in Nat /\ export.jobs \in Nat /\ export.posts + export.jobs < MaxJobs
    BY <1>0, <1>a, <1>3 DEF handleExport, ExportPart, Export
  <2>2. export.posts + 1 \in 0..MaxJobs
    BY <1>0, <2>1
  <2>3. export' \in Export /\ export'.posts = export.posts + 1 /\ export'.jobs = export.jobs
    BY <1>a, <1>3, <2>2 DEF handleExport, ExportPart, Export
  <2>4. export'.posts + export'.jobs <= MaxJobs
    BY <1>0, <2>1, <2>3
  <2> QED BY <1>c, <1>3, <2>3, <2>4 DEF handleExport, ExportPart
<1>4. CASE ExportCreated
  <2>1. /\ export.posts \in 0..MaxJobs /\ export.jobs \in 0..MaxJobs /\ export.lists \in 0..MaxJobs
        /\ export.posts + export.jobs <= MaxJobs
    BY <1>a DEF ExportPart, Export
  <2>2. export.posts - 1 \in 0..MaxJobs /\ export.jobs + 1 \in 0..MaxJobs /\ export.lists + 1 \in 0..MaxJobs
    BY <1>0, <1>4, <2>1 DEF ExportCreated
  <2>3. export' \in Export /\ export'.posts = export.posts - 1 /\ export'.jobs = export.jobs + 1
    BY <1>a, <1>4, <2>2 DEF ExportCreated, ExportPart, Export
  <2>4. export'.posts + export'.jobs <= MaxJobs
    BY <1>0, <2>1, <2>3
  <2> QED BY <1>c, <1>4, <2>3, <2>4 DEF ExportCreated, ExportPart
<1>5. CASE ExportFails
  <2>1. export.posts \in 0..MaxJobs /\ export.jobs \in 0..MaxJobs /\ export.posts + export.jobs <= MaxJobs
    BY <1>a DEF ExportPart, Export
  <2>2. export.posts - 1 \in 0..MaxJobs
    BY <1>0, <1>5, <2>1 DEF ExportFails
  <2>3. export' \in Export /\ export'.posts = export.posts - 1 /\ export'.jobs = export.jobs
    BY <1>a, <1>5, <2>2 DEF ExportFails, ExportPart, Export
  <2>4. export'.posts + export'.jobs <= MaxJobs
    BY <1>0, <2>1, <2>3
  <2> QED BY <1>c, <1>5, <2>3, <2>4 DEF ExportFails, ExportPart
<1>6. CASE loadExports
  <2>1. export.lists \in 0..MaxJobs /\ export.lists > 0
    BY <1>a, <1>6 DEF loadExports, ExportPart, Export
  <2>2. export.lists - 1 \in 0..MaxJobs
    BY <1>0, <2>1
  <2>3. (export.busy /\ (export.posts > 0 \/ export.lists > 1)) \in BOOLEAN
    OBVIOUS
  <2>4. export' \in Export /\ export'.posts = export.posts /\ export'.jobs = export.jobs
    <3> DEFINE b == export.busy /\ (export.posts > 0 \/ export.lists > 1)
               l == export.lists - 1
    <3>1. b \in BOOLEAN /\ l \in 0..MaxJobs /\ export' = [export EXCEPT !.lists = l, !.busy = b]
      BY <1>6, <2>2 DEF loadExports
    <3> HIDE DEF b, l
    <3> QED BY <1>a, <3>1 DEF ExportPart, Export
  <2> QED BY <1>a, <1>c, <1>6, <2>4 DEF loadExports, ExportPart
<1>7. CASE PeekOpens \/ PeekCloses \/ getSpeakerInfo
  <2>1. speaker' \in Speaker
    BY <1>a, <1>7 DEF PeekOpens, PeekCloses, getSpeakerInfo, Speaker
  <2> QED BY <1>d, <1>7, <2>1 DEF PeekOpens, PeekCloses, getSpeakerInfo
<1>8. CASE PlayMessage \/ PressStop \/ PlayFails \/ StopReturns
  <2>1. speaker' \in Speaker
    BY <1>a, <1>8 DEF PlayMessage, PressStop, PlayFails, StopReturns, Speaker
  <2> QED BY <1>d, <1>8, <2>1 DEF PlayMessage, PressStop, PlayFails, StopReturns
<1>9. CASE PlayStarted \/ MessageEnds
  <2>1. speaker.timers \in 0..MaxTimers
    BY <1>a DEF Speaker
  <2>2. /\ speaker.timers < MaxTimers => speaker.timers + 1 \in 0..MaxTimers
        /\ speaker.timers > 0 => speaker.timers - 1 \in 0..MaxTimers
    BY <1>0, <2>1
  <2>3. CASE PlayStarted
    <3>1. speaker' \in Speaker
      BY <1>a, <2>2, <2>3 DEF PlayStarted, Speaker
    <3> QED BY <1>d, <2>3, <3>1 DEF PlayStarted
  <2>4. CASE MessageEnds
    <3>1. speaker' \in Speaker
      BY <1>a, <2>2, <2>4 DEF MessageEnds, Speaker
    <3> QED BY <1>d, <2>4, <3>1 DEF MessageEnds
  <2> QED BY <1>9, <2>3, <2>4
<1>10. CASE StorageStatus
  BY <1>a, <1>10 DEF StorageStatus, ExportPart, MapPart
<1>11. CASE MapMounts
  <2>1. MapPart'
    BY <1>a, <1>11 DEF MapMounts, Saved, MapPart, Map
  <2> QED BY <1>e, <1>11, <2>1 DEF MapMounts
<1>12. CASE MapUnmounts \/ ToggleEdit \/ handlePinUp
  <2>1. MapPart'
    BY <1>a, <1>12 DEF MapUnmounts, ToggleEdit, handlePinUp, MapPart, Map
  <2> QED BY <1>e, <1>12, <2>1 DEF MapUnmounts, ToggleEdit, handlePinUp
<1>13. CASE handlePinMove
  <2>1. map.drag \in Pins
    BY <1>a, <1>13 DEF handlePinMove, MapPart, Map
  <2>2. MapPart'
    BY <1>a, <1>13, <2>1 DEF handlePinMove, Saved, MapPart, Map
  <2> QED BY <1>e, <1>13, <2>2 DEF handlePinMove
<1>14. ASSUME NEW p \in Pins, handlePinDown(p)
       PROVE  ExportPart' /\ speaker' \in Speaker /\ banner' \in BOOLEAN /\ MapPart'
  <2>1. MapPart'
    BY <1>a, <1>14 DEF handlePinDown, MapPart, Map
  <2> QED BY <1>e, <1>14, <2>1 DEF handlePinDown
<1>15. ASSUME NEW p \in Pins, PinClicked(p)
       PROVE  ExportPart' /\ speaker' \in Speaker /\ banner' \in BOOLEAN /\ MapPart'
  <2>1. MapPart'
    BY <1>a, <1>15 DEF PinClicked, MapPart, Map
  <2>2. speaker' \in Speaker
    BY <1>a, <1>15 DEF PinClicked, Speaker
  <2> QED BY <1>a, <1>15, <2>1, <2>2 DEF PinClicked, ExportPart
<1> QED
  BY <1>1, <1>2, <1>3, <1>4, <1>5, <1>6, <1>7, <1>8, <1>9, <1>10, <1>11, <1>12, <1>13, <1>14, <1>15
  DEF DialogStep, ExportReturns, PlayReturns

(* Nothing takes a saved position away. *)
LEMMA PinsKept == DialogInv /\ DialogStep => map.saved \subseteq map'.saved
<1> SUFFICES ASSUME DialogInv, DialogStep PROVE map.saved \subseteq map'.saved
  OBVIOUS
<1> USE DEF DialogInv, DialogTypeOK
<1>1. CASE MapMounts \/ MapUnmounts \/ ToggleEdit \/ handlePinUp
  BY <1>1 DEF MapMounts, MapUnmounts, ToggleEdit, handlePinUp, Saved
<1>2. CASE handlePinMove
  BY <1>2 DEF handlePinMove, Saved
<1>3. ASSUME NEW p \in Pins, handlePinDown(p) \/ PinClicked(p) PROVE map.saved \subseteq map'.saved
  BY <1>3 DEF handlePinDown, PinClicked
<1>4. ASSUME map' = map PROVE map.saved \subseteq map'.saved
  BY <1>4
<1> QED
  BY <1>1, <1>2, <1>3, <1>4
  DEF DialogStep, ExportReturns, PlayReturns, OpenExport, CloseExport, handleExport, ExportCreated,
      ExportFails, loadExports, PeekOpens, PeekCloses, getSpeakerInfo, PlayMessage, PressStop,
      PlayStarted, PlayFails, StopReturns, MessageEnds, StorageStatus, ExportOnly, SpeakerOnly

-----------------------------------------------------------------------------
(* The transport bar *)

(* A hand on the track is known to the page as scrubbing. *)
TransportInv ==
    /\ TransportTypeOK /\ LiveAtNormalSpeed /\ DragIsApplied
    /\ hand # "none" => scrubbing

(* What a seek to a time, or a return to live, leaves of the invariant. *)
Moved == (\E t \in (0 - MaxDelta)..Ahead : handleTimelineSeek(t)) \/ handleGoLive

(* A button moves to a time that is not later than the one it started from, or  *)
(* than the present.                                                            *)
Behind == (\E t \in (0 - MaxDelta)..Ahead : handleTimelineSeek(t) /\ (t <= Present \/ t <= at)) \/ handleGoLive

LEMMA TransportStarts == TransportInit => TransportInv
<1> SUFFICES ASSUME TransportInit PROVE TransportInv
  OBVIOUS
<1>1. Present \in Nat /\ MaxDelta \in Nat
  BY TransportAssumption
<1>2. at \in (0 - MaxDelta)..Ahead /\ delta \in (0 - MaxDelta)..MaxDelta
  BY <1>1 DEF TransportInit, Ahead
<1>3. bar \in [editing : BOOLEAN, menu : BOOLEAN, help : BOOLEAN, zoom : 1..3]
  BY DEF TransportInit
<1> QED
  BY <1>2, <1>3 DEF TransportInit, TransportInv, TransportTypeOK, LiveAtNormalSpeed, DragIsApplied

LEMMA MovedKeepsTypes ==
    ASSUME TransportInv, Moved
    PROVE  live' \in BOOLEAN /\ at' \in (0 - MaxDelta)..Ahead /\ speed' \in {1, 2} /\ LiveAtNormalSpeed'
<1>1. Present \in (0 - MaxDelta)..Ahead
  BY TransportAssumption DEF Ahead
<1> QED
  BY <1>1 DEF Moved, handleTimelineSeek, handleGoLive, TransportInv, TransportTypeOK, LiveAtNormalSpeed

LEMMA NowIsBounded ==
    ASSUME TransportInv
    PROVE  /\ Now \in (0 - MaxDelta)..Ahead /\ (Now <= Present \/ Now <= at)
           /\ 0 - MaxDelta \in Int /\ Ahead \in Int /\ Present \in 0..Ahead
  BY TransportAssumption DEF Now, TransportInv, TransportTypeOK, Ahead

LEMMA ClipIsBounded ==
    ASSUME NEW t \in Int, t <= Ahead
    PROVE  Clip(t) \in (0 - MaxDelta)..Ahead /\ (Clip(t) <= Present \/ Clip(t) <= t)
<1>1. 0 - MaxDelta \in Int /\ 0 - MaxDelta <= Present /\ 0 - MaxDelta <= Ahead /\ Ahead \in Int
  BY TransportAssumption DEF Ahead
<1>2. Clip(t) = IF t >= 0 - MaxDelta THEN t ELSE 0 - MaxDelta
  BY <1>1, MaxOfTwo DEF Clip
<1> QED BY <1>1, <1>2

LEMMA BackIsBehind ==
    ASSUME TransportInv, NEW n \in Int, n < 0
    PROVE  Clip(Now + n) \in (0 - MaxDelta)..Ahead /\ (Clip(Now + n) <= Present \/ Clip(Now + n) <= at)
<1>1. Now + n \in Int /\ Now + n <= Ahead /\ (Now + n <= Present \/ Now + n <= at)
  BY NowIsBounded, TransportAssumption DEF TransportInv, TransportTypeOK
<1>2. Clip(Now + n) \in (0 - MaxDelta)..Ahead /\ (Clip(Now + n) <= Present \/ Clip(Now + n) <= Now + n)
  BY <1>1, ClipIsBounded
<1>3. at \in Int /\ Present \in Int /\ Clip(Now + n) \in Int
  BY <1>2, TransportAssumption DEF TransportInv, TransportTypeOK
<1> QED BY <1>1, <1>2, <1>3

LEMMA ForwardIsBehind ==
    ASSUME TransportInv, NEW n \in Int, n > 0, ~(Now + n >= Present)
    PROVE  /\ Now + n \in (0 - MaxDelta)..Ahead /\ Now + n <= Present
           /\ Clip(Now + n) = Now + n
<1>1. Now + n \in (0 - MaxDelta)..Ahead /\ Now + n <= Present /\ Now + n \in Int
  BY NowIsBounded, TransportAssumption
<1>2. Now + n >= 0 - MaxDelta /\ 0 - MaxDelta \in Int
  BY <1>1, TransportAssumption
<1> QED BY <1>1, <1>2, MaxOfTwo DEF Clip

LEMMA JumpsAreBehind ==
    ASSUME TransportInv, NEW n \in 1..2, jumpForward(n) \/ jumpBack(n)
    PROVE  Behind
<1>1. CASE jumpBack(n)
  <2>1. 0 - n \in Int /\ 0 - n < 0 /\ Now + (0 - n) = Now - n
    BY NowIsBounded
  <2> QED BY <1>1, <2>1, BackIsBehind DEF jumpBack, Behind
<1>2. CASE jumpForward(n)
  <2>1. n \in Int /\ n > 0
    OBVIOUS
  <2> QED BY <1>2, <2>1, ForwardIsBehind DEF jumpForward, Behind
<1> QED BY <1>1, <1>2

(* Every button and every key. *)
Pressed ==
    \/ JumpButtons \/ \E n \in {-2, -1, 1, 2} : skipSeconds(n)
    \/ skipToPrevEvent \/ skipToNextEvent \/ GoLiveButton
    \/ \E t \in 0..Present : handleTrackClick(t) \/ seekToMarker(t)
    \/ ShortcutSeek

LEMMA PressedIsBehind ==
    ASSUME TransportInv, Pressed
    PROVE  Behind /\ UNCHANGED <<paused, hand, delta, frame, scrubbing, bar>>
<1>0. UNCHANGED <<paused, hand, delta, frame, scrubbing, bar>>
  BY Zenon DEF Pressed, JumpButtons, skipSeconds, skipToPrevEvent, skipToNextEvent, GoLiveButton, handleTrackClick,
         seekToMarker, ShortcutSeek, Buttons, Keys, dragVars
<1> SUFFICES Behind
  BY <1>0
<1>a. 0..Present \subseteq (0 - MaxDelta)..Ahead
  BY TransportAssumption DEF Ahead
<1>b. \A t \in 0..Present : handleTimelineSeek(t) => Behind
  <2> SUFFICES ASSUME NEW t \in 0..Present, handleTimelineSeek(t) PROVE Behind
    OBVIOUS
  <2>1. t \in (0 - MaxDelta)..Ahead /\ t <= Present
    BY <1>a
  <2> QED BY <2>1 DEF Behind
<1>1. CASE JumpButtons
  BY <1>1, JumpsAreBehind DEF JumpButtons
<1>2. ASSUME NEW n \in {-2, -1, 1, 2}, skipSeconds(n) PROVE Behind
  <2>1. CASE n < 0
    <3>1. n \in Int /\ ~(n > 0)
      BY <2>1
    <3> QED BY <1>2, <2>1, <3>1, BackIsBehind DEF skipSeconds, Behind
  <2>2. CASE n > 0
    <3>1. n \in Int
      OBVIOUS
    <3> QED BY <1>2, <2>2, <3>1, ForwardIsBehind DEF skipSeconds, Behind
  <2> QED BY <2>1, <2>2
<1>3. CASE skipToPrevEvent
  <2> DEFINE older == {e \in EventTimes : e < Now}
  <2>1. CASE older # {}
    <3>1. older \subseteq 0..Present /\ Present \in Nat
      BY TransportAssumption
    <3>2. older \subseteq Nat /\ \A x \in older : x <= Present
      BY <3>1
    <3>3. Max(older) \in older
      <4> HIDE DEF older
      <4> QED BY <2>1, <3>1, <3>2, GreatestOf
    <3>4. Max(older) \in 0..Present
      BY <3>1, <3>3
    <3>5. handleTimelineSeek(Max(older))
      BY <1>3, <2>1 DEF skipToPrevEvent
    <3> QED BY <1>b, <3>4, <3>5
  <2>2. CASE older = {}
    BY <1>3, <2>2, JumpsAreBehind DEF skipToPrevEvent
  <2> QED BY <2>1, <2>2
<1>4. CASE skipToNextEvent
  <2> DEFINE newer == {e \in EventTimes : e > Now}
  <2>1. CASE newer # {}
    <3>1. newer \subseteq 0..Present /\ Present \in Nat
      BY TransportAssumption
    <3>2. newer \subseteq Nat
      BY <3>1
    <3>3. Min(newer) \in newer
      <4> HIDE DEF newer
      <4> QED BY <2>1, <3>2, LeastOf
    <3>4. Min(newer) \in 0..Present
      BY <3>1, <3>3
    <3>5. handleTimelineSeek(Min(newer))
      BY <1>4, <2>1 DEF skipToNextEvent
    <3> QED BY <1>b, <3>4, <3>5
  <2>2. CASE newer = {}
    BY <1>4, <2>2, JumpsAreBehind DEF skipToNextEvent
  <2> QED BY <2>1, <2>2
<1>5. CASE GoLiveButton
  BY <1>5 DEF GoLiveButton, Behind
<1>6. ASSUME NEW t \in 0..Present, handleTrackClick(t) \/ seekToMarker(t) PROVE Behind
  BY <1>b, <1>6 DEF handleTrackClick, seekToMarker
<1>7. CASE ShortcutSeek
  <2>1. CASE handleGoLive
    BY <2>1 DEF Behind
  <2>2. CASE handleTimelineSeek(Present)
    <3>1. Present \in 0..Present
      BY TransportAssumption
    <3> QED BY <1>b, <2>2, <3>1
  <2>3. CASE ~live /\ handleTimelineSeek(Clip(at - 1))
    <3>1. -1 \in Int /\ -1 < 0 /\ Now = at /\ at \in Int
      BY <2>3 DEF Now, TransportInv, TransportTypeOK
    <3>2. at - 1 = Now + (-1)
      BY <3>1
    <3> QED BY <2>3, <3>1, <3>2, BackIsBehind DEF Behind
  <2>4. CASE at + 1 <= Present /\ handleTimelineSeek(at + 1)
    <3>1. at + 1 \in (0 - MaxDelta)..Ahead
      BY <2>4, TransportAssumption DEF TransportInv, TransportTypeOK, Ahead
    <3> QED BY <2>4, <3>1 DEF Behind
  <2> QED BY <1>7, <2>1, <2>2, <2>3, <2>4 DEF ShortcutSeek
<1> QED
  BY <1>1, <1>2, <1>3, <1>4, <1>5, <1>6, <1>7 DEF Pressed

LEMMA PanIsMove ==
    ASSUME TransportInv, panFromDelta
    PROVE  Moved \/ UNCHANGED <<live, at, speed>>
<1>1. CASE delta = 0
  BY <1>1, Zenon DEF panFromDelta
<1>2. CASE delta # 0
  <2>1. Now + delta \in Int /\ Ahead \in Int /\ 0 - MaxDelta \in Int /\ 0 - MaxDelta <= Ahead
    BY NowIsBounded, TransportAssumption DEF TransportInv, TransportTypeOK, Ahead
  <2>2. Clip(Now + delta) \in Int /\ Clip(Now + delta) >= 0 - MaxDelta
    BY <2>1, MaxOfTwo DEF Clip
  <2>3. Min({Clip(Now + delta), Ahead}) \in (0 - MaxDelta)..Ahead
    BY <2>1, <2>2, MinOfTwo
  <2> QED BY <1>2, <2>3, Zenon DEF panFromDelta, Moved
<1> QED BY <1>1, <1>2

LEMMA TransportKept == TransportInv /\ TransportStep => TransportInv'
<1> SUFFICES ASSUME TransportInv, TransportStep PROVE TransportInv'
  OBVIOUS
<1>a. MaxDelta \in Nat /\ 0 \in (0 - MaxDelta)..MaxDelta
  BY TransportAssumption
<1>b. ASSUME Moved \/ UNCHANGED <<live, at, speed>>
      PROVE  live' \in BOOLEAN /\ at' \in (0 - MaxDelta)..Ahead /\ speed' \in {1, 2} /\ LiveAtNormalSpeed'
  <2>1. CASE Moved
    BY <2>1, MovedKeepsTypes
  <2>2. CASE UNCHANGED <<live, at, speed>>
    BY <2>2, Zenon DEF TransportInv, TransportTypeOK, LiveAtNormalSpeed
  <2> QED BY <1>b, <2>1, <2>2
<1>c. ASSUME Moved \/ UNCHANGED <<live, at, speed>>, UNCHANGED <<paused, hand, delta, frame, scrubbing>>,
             bar' \in [editing : BOOLEAN, menu : BOOLEAN, help : BOOLEAN, zoom : 1..3]
      PROVE  TransportInv'
  BY <1>b, <1>c, Zenon DEF TransportInv, TransportTypeOK, DragIsApplied
<1>d. bar \in [editing : BOOLEAN, menu : BOOLEAN, help : BOOLEAN, zoom : 1..3]
  BY DEF TransportInv, TransportTypeOK
<1>1. CASE Pressed
  <2>1. Behind /\ UNCHANGED <<paused, hand, delta, frame, scrubbing, bar>>
    BY <1>1, PressedIsBehind
  <2>2. Moved
    BY <2>1 DEF Behind, Moved
  <2> QED BY <1>c, <1>d, <2>1, <2>2
<1>2. CASE handleTogglePause
  BY <1>2 DEF handleTogglePause, dragVars, TransportInv, TransportTypeOK, LiveAtNormalSpeed, DragIsApplied
<1>3. ASSUME NEW r \in {1, 2}, handleSetPlaybackRate(r) PROVE TransportInv'
  BY <1>3 DEF handleSetPlaybackRate, dragVars, TransportInv, TransportTypeOK, LiveAtNormalSpeed, DragIsApplied
<1>4. CASE handleStepFrame
  BY <1>c, <1>d, <1>4 DEF handleStepFrame, transportVars
<1>5. CASE ShortcutHelp
  <2>1. bar' \in [editing : BOOLEAN, menu : BOOLEAN, help : BOOLEAN, zoom : 1..3]
    BY <1>d, <1>5 DEF ShortcutHelp
  <2> QED BY <1>c, <1>5, <2>1 DEF ShortcutHelp, Keys, dragVars
<1>6. CASE handleMouseDown \/ handleTouchStart
  <2>1. /\ hand' \in {"none", "mouse", "touch"} /\ scrubbing' = TRUE /\ delta' = 0 /\ frame' = FALSE
        /\ UNCHANGED <<live, at, speed, paused, bar>>
    BY <1>6 DEF handleMouseDown, handleTouchStart, Grab
  <2> QED BY <1>a, <1>b, <1>d, <2>1 DEF TransportInv, TransportTypeOK, DragIsApplied
<1>7. CASE handlePointerMove
  BY <1>7 DEF handlePointerMove, TransportInv, TransportTypeOK, LiveAtNormalSpeed, DragIsApplied
<1>8. CASE FrameFires
  <2>1. Moved \/ UNCHANGED <<live, at, speed>>
    BY <1>8, PanIsMove DEF FrameFires
  <2> QED BY <1>a, <1>b, <1>d, <1>8, <2>1 DEF FrameFires, TransportInv, TransportTypeOK, DragIsApplied
<1>9. CASE Release
  <2>1. Moved \/ UNCHANGED <<live, at, speed>>
    BY <1>9, PanIsMove DEF Release
  <2> QED BY <1>a, <1>b, <1>d, <1>9, <2>1 DEF Release, TransportInv, TransportTypeOK, DragIsApplied
<1>10. CASE TouchCancelled
  BY <1>10 DEF TouchCancelled, TransportInv, TransportTypeOK, LiveAtNormalSpeed, DragIsApplied
<1>11. CASE startEditingTime \/ EscapeField \/ CameraMenu
  <2>1. bar' \in [editing : BOOLEAN, menu : BOOLEAN, help : BOOLEAN, zoom : 1..3]
    BY <1>d, <1>11 DEF startEditingTime, EscapeField, CameraMenu
  <2> QED BY <1>c, <1>11, <2>1 DEF startEditingTime, EscapeField, CameraMenu, dragVars
<1>12. ASSUME NEW t \in 0..Ahead, handleGoTo(t) PROVE TransportInv'
  <2>1. bar' \in [editing : BOOLEAN, menu : BOOLEAN, help : BOOLEAN, zoom : 1..3]
    BY <1>d, <1>12 DEF handleGoTo
  <2>2. t \in (0 - MaxDelta)..Ahead
    BY <1>a, TransportAssumption DEF Ahead
  <2> QED BY <1>c, <1>12, <2>1, <2>2 DEF handleGoTo, Moved, dragVars
<1>13. CASE Zoom
  <2>1. bar' \in [editing : BOOLEAN, menu : BOOLEAN, help : BOOLEAN, zoom : 1..3]
    BY <1>d, <1>13 DEF Zoom
  <2> QED BY <1>c, <1>13, <2>1 DEF Zoom, dragVars
<1> QED
  BY <1>1, <1>2, <1>3, <1>4, <1>5, <1>6, <1>7, <1>8, <1>9, <1>10, <1>11, <1>12, <1>13
  DEF TransportStep, Pressed

(* Only a hand on the track, the date field or the frame of a drag that was    *)
(* cancelled leads past the present.                                           *)
LEMMA StaysBehind ==
    TransportInv /\ TransportStep =>
        (at' > Present => at' <= at \/ hand # "none" \/ bar.editing \/ frame)
<1> SUFFICES ASSUME TransportInv, TransportStep, hand = "none", ~bar.editing, ~frame
             PROVE  at' > Present => at' <= at
  OBVIOUS
<1>1. CASE Pressed
  <2>1. Behind
    BY <1>1, PressedIsBehind
  <2>2. CASE handleGoLive
    BY <2>2, TransportAssumption DEF handleGoLive
  <2>3. ASSUME NEW t \in (0 - MaxDelta)..Ahead, handleTimelineSeek(t), t <= Present \/ t <= at
        PROVE  at' > Present => at' <= at
    BY <2>3, TransportAssumption DEF handleTimelineSeek
  <2> QED BY <2>1, <2>2, <2>3 DEF Behind
<1>2. CASE UNCHANGED at
  BY <1>2 DEF TransportInv, TransportTypeOK
<1> QED
  BY <1>1, <1>2
  DEF TransportStep, Pressed, handleTogglePause, handleSetPlaybackRate, handleStepFrame, ShortcutHelp,
      handleMouseDown, handleTouchStart, Grab, handlePointerMove, FrameFires, Release, TouchCancelled,
      startEditingTime, handleGoTo, EscapeField, CameraMenu, Zoom, transportVars

-----------------------------------------------------------------------------
(* The camera wall *)

(* A finite set of numbers has a greatest member: its members, counted out,    *)
(* are bounded up to every place of the count.                                 *)
LEMMA FiniteIsBounded ==
    ASSUME NEW S, S \subseteq Nat, IsFiniteSet(S)
    PROVE  \E bound \in Nat : \A x \in S : x <= bound
<1>1. PICK n \in Nat : ExistsSurjection(1..n, S)
  BY FS_NatSurjection
<1>2. PICK f : f \in Surjection(1..n, S)
  BY <1>1 DEF ExistsSurjection
<1>3. f \in [1..n -> S] /\ \A t \in S : \E i \in 1..n : f[i] = t
  BY <1>2 DEF Surjection
<1> DEFINE Bad == {k \in 0..n : ~\E b \in Nat : \A i \in 1..k : f[i] <= b}
<1>4. Bad = {}
  <2> SUFFICES ASSUME Bad # {} PROVE FALSE
    OBVIOUS
  <2>1. Bad \subseteq Nat
    OBVIOUS
  <2>2. PICK k \in Bad : \A j \in Bad : k <= j
    <3> HIDE DEF Bad
    <3> QED BY <2>1, LeastNumber
  <2>3. k # 0
    <3>1. \A i \in 1..0 : f[i] <= 0
      OBVIOUS
    <3> QED BY <3>1
  <2>4. k - 1 \in 0..n /\ k \in 1..n /\ k - 1 \notin Bad
    <3>1. k \in 0..n
      BY DEF Bad
    <3>2. k - 1 \in 0..n /\ k \in 1..n /\ ~(k <= k - 1)
      BY <2>3, <3>1
    <3> HIDE DEF Bad
    <3> QED BY <2>2, <3>2
  <2>5. PICK b \in Nat : \A i \in 1..(k - 1) : f[i] <= b
    BY <2>4
  <2>6. f[k] \in Nat
    BY <1>3, <2>4
  <2>7. \A i \in 1..k : f[i] \in Nat /\ f[i] <= b + f[k]
    <3> SUFFICES ASSUME NEW i \in 1..k PROVE f[i] \in Nat /\ f[i] <= b + f[k]
      OBVIOUS
    <3>0. i \in 1..n
      BY <2>4
    <3>1. f[i] \in Nat
      BY <1>3, <3>0
    <3>2. i = k \/ i \in 1..(k - 1)
      BY <2>4
    <3> QED BY <2>5, <2>6, <3>1, <3>2
  <2>8. b + f[k] \in Nat
    BY <2>6
  <2> QED BY <2>7, <2>8
<1>5. PICK b \in Nat : \A i \in 1..n : f[i] <= b
  BY <1>4
<1> QED BY <1>3, <1>5

LEMMA LargestPreset ==
    Max(Presets) \in Presets /\ Max(Presets) \in Nat \ {0} /\ \A p \in Presets : p <= Max(Presets)
<1>1. Presets \subseteq Nat /\ Presets # {} /\ IsFiniteSet(Presets)
  BY GridAssumption
<1>2. PICK bound \in Nat : \A x \in Presets : x <= bound
  BY <1>1, FiniteIsBounded
<1>3. Max(Presets) \in Presets /\ \A p \in Presets : p <= Max(Presets)
  BY <1>1, <1>2, GreatestOf
<1> QED BY <1>3, GridAssumption

(* A preset is chosen, and one with room for them all if there is one. *)
LEMMA PresetHasRoom ==
    ASSUME NEW n \in Nat
    PROVE  PresetFor(n) \in Presets /\ (n <= Max(Presets) => n <= PresetFor(n))
<1>0. Presets \subseteq Nat
  BY GridAssumption
<1> DEFINE fits == {p \in Presets : p >= n}
<1>1. CASE fits = {}
  <2>1. PresetFor(n) = Max(Presets)
    BY <1>1 DEF PresetFor
  <2> QED BY <1>1, <2>1, LargestPreset
<1>2. CASE fits # {}
  <2>1. fits \subseteq Nat
    BY GridAssumption
  <2>2. Min(fits) \in fits
    <3> HIDE DEF fits
    <3> QED BY <1>2, <2>1, LeastOf
  <2>3. PresetFor(n) = Min(fits)
    BY <1>2 DEF PresetFor
  <2>4. PresetFor(n) \in Presets /\ PresetFor(n) >= n /\ PresetFor(n) \in Nat
    BY <2>1, <2>2, <2>3
  <2> QED BY <2>4
<1> QED BY <1>1, <1>2

LEMMA AssignmentsAre ==
    \A f : f \in Assignments <=> f \in [DOMAIN f -> Cams] /\ DOMAIN f \subseteq Cells
  BY DEF Assignments

LEMMA RestrictedAssignment ==
    ASSUME NEW f \in Assignments, NEW S, S \subseteq DOMAIN f
    PROVE  /\ Restrict(f, S) \in Assignments /\ DOMAIN Restrict(f, S) = S
           /\ \A c \in S : Restrict(f, S)[c] = f[c]
<1>1. DOMAIN Restrict(f, S) = S /\ \A c \in S : Restrict(f, S)[c] = f[c]
  BY DEF Restrict
<1>2. Restrict(f, S) \in [S -> Cams]
  BY AssignmentsAre DEF Restrict
<1> QED BY <1>1, <1>2, AssignmentsAre

LEMMA NoCellsIsAssignment ==
    NoCells \in Assignments /\ DOMAIN NoCells = {} /\ \A n : Restrict(NoCells, {}) = NoCells
<1>1. DOMAIN NoCells = {} /\ NoCells \in [{} -> Cams]
  BY DEF NoCells
<1>2. Restrict(NoCells, {}) = NoCells
  BY DEF NoCells, Restrict
<1> QED BY <1>1, <1>2, AssignmentsAre

(* A layout holds what its mode has: cells of its preset, or a canvas. *)
WellMade(l) ==
    /\ l \in Layout
    /\ \A c \in DOMAIN l.slots : c <= l.preset
    /\ l.mode = "freeform" => l.slots = NoCells
    /\ l.mode = "static" => l.items = {}

GridInv ==
    /\ GridTypeOK
    /\ WellMade(grid.layout) /\ \A n \in DOMAIN layouts : WellMade(layouts[n])
    /\ grid.mounted \/ grid.active = Nobody
    /\ ShownIsStored

(* What a handler hands to Commit: the layout on the screen has the mode of    *)
(* the saved one, whose name is the stored one.                                *)
Ready(g, saved, name) ==
    /\ g \in Grid /\ WellMade(g.layout) /\ (g.mounted \/ g.active = Nobody)
    /\ DOMAIN saved \subseteq Names /\ saved \in [DOMAIN saved -> Layout]
    /\ \A n \in DOMAIN saved : WellMade(saved[n])
    /\ g.active \in DOMAIN saved \cup {Nobody}
    /\ g.active # Nobody => name = g.active /\ saved[g.active].mode = g.layout.mode

LEMMA StaticIsWellMade ==
    ASSUME NEW p \in Presets, NEW f \in Assignments, \A c \in DOMAIN f : c <= p
    PROVE  WellMade(Static(p, f)) /\ Static(p, f).mode = "static"
  BY DEF WellMade, Static, Layout

LEMMA FreeformIsWellMade ==
    ASSUME NEW p \in Presets, NEW items \in SUBSET Cams
    PROVE  WellMade(Freeform(p, items)) /\ Freeform(p, items).mode = "freeform"
  BY NoCellsIsAssignment DEF WellMade, Freeform, Layout

(* Validation drops cells, nothing else. *)
LEMMA ValidatedIsSmaller ==
    ASSUME NEW slots \in Assignments, NEW n, NEW cams
    PROVE  /\ Validated(slots, n, cams) \in Assignments
           /\ DOMAIN Validated(slots, n, cams) \subseteq DOMAIN slots
           /\ slots = NoCells => Validated(slots, n, cams) = NoCells
<1>1. CASE cams = {}
  BY <1>1 DEF Validated
<1>2. CASE cams # {}
  <2> DEFINE S == {c \in DOMAIN slots : c <= n /\ slots[c] \in cams}
  <2>1. Validated(slots, n, cams) = Restrict(slots, S)
    BY <1>2 DEF Validated
  <2>2. Restrict(slots, S) \in Assignments /\ DOMAIN Restrict(slots, S) = S
    BY RestrictedAssignment
  <2>3. slots = NoCells => S = {}
    BY NoCellsIsAssignment
  <2>4. slots = NoCells => Restrict(slots, S) = NoCells
    BY <2>3, NoCellsIsAssignment
  <2> QED BY <2>1, <2>2, <2>4
<1> QED BY <1>1, <1>2

LEMMA ValidatedLayout ==
    ASSUME NEW l, WellMade(l), NEW n, NEW cams
    PROVE  /\ WellMade([l EXCEPT !.slots = Validated(@, n, cams)])
           /\ [l EXCEPT !.slots = Validated(@, n, cams)].mode = l.mode
<1> DEFINE v == Validated(l.slots, n, cams)
<1>1. l.slots \in Assignments
  BY DEF WellMade, Layout
<1>2. v \in Assignments /\ DOMAIN v \subseteq DOMAIN l.slots /\ (l.slots = NoCells => v = NoCells)
  BY <1>1, ValidatedIsSmaller
<1> HIDE DEF v
<1>3. WellMade([l EXCEPT !.slots = v]) /\ [l EXCEPT !.slots = v].mode = l.mode
  BY <1>2 DEF WellMade, Layout
<1> QED BY <1>3 DEF v

(* Autosave writes into the saved layout what the screen has of its mode. *)
LEMMA AutosavedFits ==
    ASSUME NEW g, NEW saved, NEW name, Ready(g, saved, name)
    PROVE  /\ DOMAIN Autosaved(g, saved) = DOMAIN saved
           /\ Autosaved(g, saved) \in [DOMAIN saved -> Layout]
           /\ \A n \in DOMAIN saved : WellMade(Autosaved(g, saved)[n])
           /\ g.active # Nobody =>
                 /\ Autosaved(g, saved)[g.active].mode = g.layout.mode
                 /\ Autosaved(g, saved)[g.active].slots = g.layout.slots
                 /\ Autosaved(g, saved)[g.active].items = g.layout.items
<1>0. /\ WellMade(g.layout) /\ saved \in [DOMAIN saved -> Layout]
      /\ \A n \in DOMAIN saved : WellMade(saved[n])
      /\ g.active # Nobody => g.active \in DOMAIN saved /\ saved[g.active].mode = g.layout.mode
  BY DEF Ready
<1>1. CASE g.active \notin DOMAIN saved
  BY <1>0, <1>1 DEF Autosaved
<1>2. CASE g.active \in DOMAIN saved
  <2> DEFINE l == saved[g.active]
             new == IF l.mode = "static" THEN [l EXCEPT !.preset = g.layout.preset, !.slots = g.layout.slots]
                    ELSE [l EXCEPT !.items = g.layout.items]
  <2>1. Autosaved(g, saved) = [saved EXCEPT ![g.active] = new]
    BY <1>2 DEF Autosaved
  <2>2. WellMade(l)
    BY <1>0, <1>2
  <2>3. WellMade(new) /\ new.mode = l.mode
    BY <1>0, <2>2 DEF WellMade, Layout
  <2>4. l.mode = g.layout.mode => new.slots = g.layout.slots /\ new.items = g.layout.items
    BY <1>0, <2>2 DEF WellMade, Layout
  <2>5. new \in Layout
    BY <2>3 DEF WellMade
  <2> HIDE DEF l, new
  <2>6. /\ DOMAIN Autosaved(g, saved) = DOMAIN saved
        /\ Autosaved(g, saved) \in [DOMAIN saved -> Layout]
        /\ Autosaved(g, saved)[g.active] = new
        /\ \A n \in DOMAIN saved : n # g.active => Autosaved(g, saved)[n] = saved[n]
    BY <1>0, <1>2, <2>1, <2>5
  <2>7. \A n \in DOMAIN saved : WellMade(Autosaved(g, saved)[n])
    BY <1>0, <2>3, <2>6
  <2>8. g.active # Nobody => l.mode = g.layout.mode
    BY <1>0 DEF l
  <2> QED BY <2>3, <2>4, <2>6, <2>7, <2>8
<1> QED BY <1>1, <1>2

LEMMA VisibleIsLoaded ==
    ASSUME NEW g, NEW cams \in SUBSET Cams
    PROVE  Visible(g, cams) \subseteq Cams
  BY DEF Visible

(* The effects after a handler keep the wall and the storage in step. *)
LEMMA CommitKeeps ==
    ASSUME NEW g, NEW saved, NEW cams \in SUBSET Cams, Ready(g, saved, stored'),
           stored' \in Names \cup {Nobody}, cameras' = cams, Commit(g, saved, cams)
    PROVE  GridInv' /\ grid'.active = g.active /\ grid'.layout.mode = g.layout.mode
<1> DEFINE valid == [g EXCEPT !.layout.slots = Validated(@, g.layout.preset, cams)]
           l == [g.layout EXCEPT !.slots = Validated(@, g.layout.preset, cams)]
<1>0. g \in Grid /\ WellMade(g.layout)
  BY DEF Ready
<1>1. WellMade(l) /\ l.mode = g.layout.mode
  BY <1>0, ValidatedLayout
<1>2. valid = [g EXCEPT !.layout = l]
  OBVIOUS
<1>3. grid' = valid /\ layouts' = Autosaved(valid, saved) /\ reported' = Visible(valid, cams)
  BY DEF Commit
<1>4. l \in Layout
  BY <1>1 DEF WellMade
<1> HIDE DEF l, valid
<1>5. valid \in Grid /\ valid.layout = l /\ valid.active = g.active /\ valid.mounted = g.mounted
  BY <1>0, <1>2, <1>4 DEF Grid
<1>6. Ready(valid, saved, stored')
  BY <1>1, <1>5 DEF Ready
<1>7. /\ DOMAIN layouts' = DOMAIN saved /\ layouts' \in [DOMAIN saved -> Layout]
      /\ \A n \in DOMAIN saved : WellMade(layouts'[n])
      /\ valid.active # Nobody =>
            /\ layouts'[valid.active].mode = valid.layout.mode
            /\ layouts'[valid.active].slots = valid.layout.slots
            /\ layouts'[valid.active].items = valid.layout.items
  BY <1>3, <1>6, AutosavedFits
<1>8. reported' \subseteq Cams
  BY <1>3, VisibleIsLoaded
<1>9. GridTypeOK'
  BY <1>1, <1>3, <1>5, <1>6, <1>7, <1>8 DEF GridTypeOK, Ready, WellMade
<1>10. ShownIsStored'
  BY <1>3, <1>5, <1>6, <1>7 DEF ShownIsStored, Ready
<1>11. WellMade(grid'.layout) /\ (\A n \in DOMAIN layouts' : WellMade(layouts'[n]))
  BY <1>1, <1>3, <1>5, <1>7
<1>12. grid'.mounted \/ grid'.active = Nobody
  BY <1>3, <1>6 DEF Ready
<1>13. GridInv'
  BY <1>9, <1>10, <1>11, <1>12 DEF GridInv, WellMade
<1> QED BY <1>1, <1>3, <1>5, <1>13

(* The screen as it stands may be committed, with any picker, hand or editing   *)
(* state and any cells the preset has.                                          *)
LEMMA StandingIsReady ==
    ASSUME GridInv, grid.mounted
    PROVE  Ready(grid, layouts, stored)
  BY DEF GridInv, GridTypeOK, Ready, ShownIsStored

(* The step that ConversionKeepsCameras allows. *)
KeepsOnWall ==
    (/\ grid.active # Nobody /\ grid'.active = grid.active /\ grid'.layout.mode # grid.layout.mode
     /\ Cardinality(Visible(grid, cameras)) <= Max(Presets))
    => Visible(grid, cameras) \subseteq Visible(grid', cameras')

LEMMA GridStarts == GridInit => GridInv
<1> SUFFICES ASSUME GridInit PROVE GridInv
  OBVIOUS
<1>0. DefaultPreset \in Presets /\ \A c \in DOMAIN NoCells : c <= DefaultPreset
  BY GridAssumption, NoCellsIsAssignment
<1>1. WellMade(Static(DefaultPreset, NoCells))
  BY <1>0, StaticIsWellMade, NoCellsIsAssignment
<1>2. Static(DefaultPreset, NoCells) \in Layout
  BY <1>1 DEF WellMade
<1>3. /\ grid.active = Nobody /\ grid.layout = Static(DefaultPreset, NoCells) /\ grid.mounted
      /\ grid \in Grid
  BY <1>2 DEF GridInit, Unloaded, Grid
<1>4. DOMAIN layouts = {} /\ layouts \in [{} -> Layout] /\ stored = Nobody /\ cameras = {} /\ reported = {}
  BY DEF GridInit
<1> QED BY <1>1, <1>3, <1>4 DEF GridInv, GridTypeOK, ShownIsStored, WellMade

(* A handler that leaves the mode of the active layout alone. *)
LEMMA CommitInMode ==
    ASSUME NEW g, NEW saved, NEW cams \in SUBSET Cams, Ready(g, saved, stored'),
           stored' \in Names \cup {Nobody}, cameras' = cams, Commit(g, saved, cams),
           g.active # Nobody /\ g.active = grid.active => g.layout.mode = grid.layout.mode
    PROVE  GridInv' /\ KeepsOnWall
<1>1. GridInv' /\ grid'.active = g.active /\ grid'.layout.mode = g.layout.mode
  BY CommitKeeps
<1> QED BY <1>1 DEF KeepsOnWall

(* A handler that touches neither layout nor name. *)
LEMMA CommitControls ==
    ASSUME GridInv, grid.mounted, NEW g \in Grid, g.layout = grid.layout, g.active = grid.active, g.mounted,
           cameras' \in SUBSET Cams, stored' = stored, Commit(g, layouts, cameras')
    PROVE  GridInv' /\ KeepsOnWall
<1>1. Ready(g, layouts, stored')
  BY StandingIsReady DEF Ready
<1>2. stored' \in Names \cup {Nobody}
  BY DEF GridInv, GridTypeOK
<1> DEFINE cams == cameras'
<1>3. cams \in SUBSET Cams /\ cameras' = cams /\ Commit(g, layouts, cams)
  OBVIOUS
<1> HIDE DEF cams
<1> QED BY <1>1, <1>2, <1>3, CommitInMode

LEMMA GridControls ==
    ASSUME GridInv,
           \/ CamerasChange \/ ClickOutside \/ ToggleAdding \/ ToggleEditing \/ onDragStart
           \/ onResizeStart \/ onDragEnd \/ onResizeEnd \/ \E c \in Cells : TogglePicker(c)
    PROVE  GridInv' /\ KeepsOnWall
<1>0. grid \in Grid /\ cameras \in SUBSET Cams
  BY DEF GridInv, GridTypeOK
<1>1. ASSUME NEW g \in Grid, grid.mounted, g.layout = grid.layout, g.active = grid.active, g.mounted,
             stored' = stored, cameras' = cameras, Commit(g, layouts, cameras)
      PROVE  GridInv' /\ KeepsOnWall
  BY <1>0, <1>1, CommitControls
<1>2. CASE CamerasChange
  <2>1. cameras' \in SUBSET Cams /\ stored' = stored
    BY <1>2 DEF CamerasChange
  <2>2. CASE grid.mounted
    <3>1. Commit(grid, layouts, cameras')
      BY <1>2, <2>2 DEF CamerasChange
    <3> QED BY <1>0, <2>1, <2>2, <3>1, CommitControls
  <2>3. CASE ~grid.mounted
    <3>1. grid' = grid /\ layouts' = layouts /\ reported' = reported
      BY <1>2, <2>3 DEF CamerasChange
    <3> QED BY <2>1, <3>1 DEF GridInv, GridTypeOK, ShownIsStored, WellMade, KeepsOnWall
  <2> QED BY <2>2, <2>3
<1>3. CASE ClickOutside
  <2>1. [grid EXCEPT !.picker = 0, !.adding = FALSE] \in Grid
    BY <1>0 DEF Grid
  <2> QED BY <1>0, <1>1, <1>3, <2>1 DEF ClickOutside, Handler, Grid
<1>4. CASE ToggleAdding
  <2>1. [grid EXCEPT !.adding = ~@] \in Grid
    BY <1>0 DEF Grid
  <2> QED BY <1>0, <1>1, <1>4, <2>1 DEF ToggleAdding, OnCanvas, Handler, Grid
<1>5. CASE ToggleEditing
  <2>1. [grid EXCEPT !.editing = ~@] \in Grid
    BY <1>0 DEF Grid
  <2> QED BY <1>0, <1>1, <1>5, <2>1 DEF ToggleEditing, OnCanvas, Handler, Grid
<1>6. CASE onDragStart \/ onResizeStart
  <2>1. /\ grid' \in Grid /\ grid'.layout = grid.layout /\ grid'.active = grid.active
        /\ grid'.mounted = grid.mounted
        /\ UNCHANGED <<cameras, layouts, stored, reported>>
    BY <1>0, <1>6 DEF onDragStart, onResizeStart, OnCanvas, Handler, Grid
  <2> QED BY <2>1 DEF GridInv, GridTypeOK, ShownIsStored, WellMade, KeepsOnWall
<1>7. CASE onDragEnd \/ onResizeEnd
  <2>1. [grid EXCEPT !.hand = "none"] \in Grid
    BY <1>0 DEF Grid
  <2> QED BY <1>0, <1>1, <1>7, <2>1 DEF onDragEnd, onResizeEnd, Grid
<1>8. ASSUME NEW c \in Cells, TogglePicker(c) PROVE GridInv' /\ KeepsOnWall
  <2>1. [grid EXCEPT !.picker = IF @ = c THEN 0 ELSE c] \in Grid
    BY <1>0 DEF Grid
  <2> QED BY <1>0, <1>1, <1>8, <2>1 DEF TogglePicker, Handler, Grid
<1> QED BY <1>2, <1>3, <1>4, <1>5, <1>6, <1>7, <1>8

(* A handler that changes the active layout and keeps its mode. *)
LEMMA CommitEdited ==
    ASSUME GridInv, grid.mounted, NEW g \in Grid, WellMade(g.layout), g.layout.mode = grid.layout.mode,
           g.active = grid.active, g.mounted,
           UNCHANGED <<cameras, stored>>, Commit(g, layouts, cameras)
    PROVE  GridInv' /\ KeepsOnWall
<1>1. Ready(g, layouts, stored')
  BY StandingIsReady DEF Ready
<1>2. stored' \in Names \cup {Nobody} /\ cameras \in SUBSET Cams /\ cameras' = cameras
  BY DEF GridInv, GridTypeOK
<1> QED BY <1>1, <1>2, CommitInMode

LEMMA EditedStatic ==
    ASSUME GridInv, grid.layout.mode = "static", NEW p \in Presets, NEW f \in Assignments,
           \A c \in DOMAIN f : c <= p
    PROVE  LET l == [grid.layout EXCEPT !.preset = p, !.slots = f]
           IN  WellMade(l) /\ l \in Layout /\ l.mode = "static"
  BY DEF GridInv, WellMade, Layout

LEMMA GridEdits ==
    ASSUME GridInv,
           \/ \E c \in Cells, k \in Cams \cup {Nobody} : handleAssignCamera(c, k)
           \/ \E p \in Presets : handleStaticPresetChange(p)
           \/ \E k \in Cams : handleAddFreeformCamera(k)
    PROVE  GridInv' /\ KeepsOnWall
<1>0. /\ grid \in Grid /\ cameras \in SUBSET Cams /\ WellMade(grid.layout)
      /\ grid.layout \in Layout /\ grid.layout.slots \in Assignments /\ grid.layout.preset \in Presets
      /\ \A c \in DOMAIN grid.layout.slots : c <= grid.layout.preset
  BY DEF GridInv, GridTypeOK, WellMade, Layout
<1>1. ASSUME NEW c \in Cells, NEW k \in Cams \cup {Nobody}, handleAssignCamera(c, k)
      PROVE  GridInv' /\ KeepsOnWall
  <2> DEFINE slots == grid.layout.slots
             freed == Restrict(slots, {d \in DOMAIN slots : d # c /\ slots[d] # k})
             filled == IF k = Nobody THEN freed
                       ELSE [d \in DOMAIN freed \cup {c} |-> IF d = c THEN k ELSE freed[d]]
             l == [grid.layout EXCEPT !.slots = filled]
             g == [grid EXCEPT !.picker = 0, !.layout.slots = filled]
  <2>1. /\ Handler /\ grid.layout.mode = "static" /\ c <= grid.layout.preset
        /\ k # Nobody => k \in Offered(c)
        /\ Commit(g, layouts, cameras) /\ stored' = stored
    BY <1>1, Zenon DEF handleAssignCamera
  <2>2. k # Nobody => k \in Cams
    BY <1>0, <2>1 DEF Offered
  <2>3. freed \in Assignments /\ DOMAIN freed \subseteq DOMAIN slots
    BY <1>0, RestrictedAssignment
  <2>4. DOMAIN freed \subseteq Cells /\ freed \in [DOMAIN freed -> Cams]
    BY <2>3, AssignmentsAre
  <2>5. filled \in Assignments /\ \A d \in DOMAIN filled : d <= grid.layout.preset
    <3>1. CASE k = Nobody
      BY <1>0, <2>3, <3>1
    <3>2. CASE k # Nobody
      <4> DEFINE put == [d \in DOMAIN freed \cup {c} |-> IF d = c THEN k ELSE freed[d]]
      <4> HIDE DEF freed
      <4>1. DOMAIN put = DOMAIN freed \cup {c} /\ put \in [DOMAIN freed \cup {c} -> Cams]
        BY <2>2, <2>4, <3>2
      <4>2. DOMAIN freed \cup {c} \subseteq Cells
        BY <2>4
      <4>3. \A d \in DOMAIN put : d <= grid.layout.preset
        BY <1>0, <2>1, <2>3, <4>1
      <4> HIDE DEF put
      <4>4. put \in Assignments
        BY <4>1, <4>2, AssignmentsAre
      <4> QED BY <3>2, <4>3, <4>4 DEF put
    <3> QED BY <3>1, <3>2
  <2> HIDE DEF filled
  <2>6. l = [grid.layout EXCEPT !.preset = grid.layout.preset, !.slots = filled]
    BY <1>0 DEF Layout
  <2>7. WellMade(l) /\ l \in Layout /\ l.mode = "static"
    BY <1>0, <2>1, <2>5, <2>6, EditedStatic
  <2>8. g = [grid EXCEPT !.picker = 0, !.layout = l]
    BY <1>0 DEF Grid
  <2> HIDE DEF l, g
  <2>9. g \in Grid /\ g.layout = l /\ g.active = grid.active /\ g.mounted = grid.mounted
    BY <1>0, <2>7, <2>8 DEF Grid
  <2> QED BY <2>1, <2>7, <2>9, CommitEdited DEF Handler
<1>2. ASSUME NEW p \in Presets, handleStaticPresetChange(p) PROVE GridInv' /\ KeepsOnWall
  <2> DEFINE slots == grid.layout.slots
             kept == Restrict(slots, {d \in DOMAIN slots : d <= p})
             l == [grid.layout EXCEPT !.preset = p, !.slots = kept]
             g == [grid EXCEPT !.layout = l]
  <2>1. kept \in Assignments /\ \A d \in DOMAIN kept : d <= p
    BY <1>0, RestrictedAssignment
  <2>2. Handler /\ grid.layout.mode = "static" /\ stored' = stored
    BY <1>2 DEF handleStaticPresetChange
  <2>3. [grid EXCEPT !.layout.preset = p,
                     !.layout.slots = Restrict(@, {d \in DOMAIN @ : d <= p})] = g
    BY <1>0 DEF Grid, Layout
  <2>4. Commit(g, layouts, cameras)
    BY <1>2, <2>3 DEF handleStaticPresetChange
  <2> HIDE DEF kept
  <2>5. WellMade(l) /\ l \in Layout /\ l.mode = "static"
    BY <2>1, <2>2, EditedStatic
  <2> HIDE DEF l
  <2>6. g \in Grid /\ g.layout = l /\ g.active = grid.active /\ g.mounted = grid.mounted
    BY <1>0, <2>5 DEF Grid
  <2> HIDE DEF g
  <2> QED BY <2>2, <2>4, <2>5, <2>6, CommitEdited DEF Handler
<1>3. ASSUME NEW k \in Cams, handleAddFreeformCamera(k) PROVE GridInv' /\ KeepsOnWall
  <2> DEFINE l == [grid.layout EXCEPT !.items = @ \cup {k}]
             g == [grid EXCEPT !.layout = l, !.adding = FALSE]
  <2>1. Handler /\ grid.layout.mode = "freeform" /\ stored' = stored
    BY <1>3 DEF handleAddFreeformCamera, OnCanvas
  <2>2. [grid EXCEPT !.layout.items = @ \cup {k}, !.adding = FALSE] = g
    BY <1>0 DEF Grid, Layout
  <2>3. Commit(g, layouts, cameras)
    BY <1>3, <2>2 DEF handleAddFreeformCamera
  <2>4. WellMade(l) /\ l \in Layout /\ l.mode = "freeform"
    BY <1>0, <2>1 DEF WellMade, Layout
  <2> HIDE DEF l
  <2>5. g \in Grid /\ g.layout = l /\ g.active = grid.active /\ g.mounted = grid.mounted
    BY <1>0, <2>4 DEF Grid
  <2> HIDE DEF g
  <2> QED BY <2>1, <2>3, <2>4, <2>5, CommitEdited DEF Handler
<1> QED BY <1>1, <1>2, <1>3

LEMMA UnloadedIsGrid ==
    /\ Unloaded \in Grid /\ WellMade(Unloaded.layout) /\ Unloaded.active = Nobody
    /\ [Unloaded EXCEPT !.mounted = TRUE] \in Grid
<1>0. DefaultPreset \in Presets /\ \A c \in DOMAIN NoCells : c <= DefaultPreset
  BY GridAssumption, NoCellsIsAssignment
<1>1. WellMade(Static(DefaultPreset, NoCells))
  BY <1>0, StaticIsWellMade, NoCellsIsAssignment
<1>2. Static(DefaultPreset, NoCells) \in Layout
  BY <1>1 DEF WellMade
<1> QED BY <1>1, <1>2 DEF Unloaded, Grid

LEMMA GridNames ==
    ASSUME GridInv,
           \/ GridMounts \/ GridUnmounts \/ NewLayout
           \/ \E n \in Names, mode \in {"static", "freeform"}, p \in Presets : handleCreateLayout(n, mode, p)
           \/ \E n \in Names : handleLoadLayout(n) \/ handleDeleteLayout(n)
    PROVE  GridInv' /\ KeepsOnWall
<1>0. /\ grid \in Grid /\ cameras \in SUBSET Cams /\ WellMade(grid.layout) /\ grid.layout \in Layout
      /\ grid.layout.preset \in Presets /\ stored \in Names \cup {Nobody}
      /\ DOMAIN layouts \subseteq Names /\ layouts \in [DOMAIN layouts -> Layout]
      /\ \A n \in DOMAIN layouts : WellMade(layouts[n])
      /\ grid.active \in DOMAIN layouts \cup {Nobody} /\ grid.active \in Names \cup {Nobody}
      /\ grid.mounted \in BOOLEAN /\ DefaultPreset \in Presets
  BY GridAssumption DEF GridInv, GridTypeOK, WellMade, Layout, Grid
<1>1. CASE GridMounts
  <2> DEFINE g == Restored(stored)
  <2>1. /\ ~grid.mounted /\ Commit(g, layouts, cameras) /\ cameras' = cameras /\ stored' = stored
        /\ grid.active = Nobody
    BY <1>1 DEF GridMounts, GridInv
  <2>2. CASE stored \notin DOMAIN layouts
    <3>1. g = [Unloaded EXCEPT !.mounted = TRUE]
      BY <2>2 DEF Restored
    <3>2. g \in Grid /\ WellMade(g.layout) /\ g.active = Nobody
      BY <3>1, UnloadedIsGrid DEF Grid
    <3> HIDE DEF g
    <3>3. Ready(g, layouts, stored')
      BY <1>0, <3>2 DEF Ready
    <3> QED BY <1>0, <2>1, <3>2, <3>3, CommitInMode
  <2>3. CASE stored \in DOMAIN layouts
    <3> DEFINE l == layouts[stored]
               m == IF l.mode = "static" THEN [l EXCEPT !.slots = Validated(@, DefaultPreset, cameras)]
                    ELSE [l EXCEPT !.preset = DefaultPreset]
    <3>1. g = [Unloaded EXCEPT !.mounted = TRUE, !.active = stored, !.layout = m]
      BY <2>3 DEF Restored
    <3>2. WellMade(l)
      BY <1>0, <2>3
    <3>3. l.mode = "static" => WellMade(m) /\ m.mode = l.mode
      BY <3>2, ValidatedLayout
    <3>4. l.mode # "static" => WellMade(m) /\ m.mode = l.mode
      <4> SUFFICES ASSUME l.mode # "static" PROVE WellMade(m) /\ m.mode = l.mode
        OBVIOUS
      <4>1. m = [l EXCEPT !.preset = DefaultPreset] /\ l.mode = "freeform"
        BY <3>2 DEF WellMade, Layout
      <4>2. l.slots = NoCells
        BY <3>2, <4>1 DEF WellMade
      <4> QED BY <1>0, <3>2, <4>1, <4>2, NoCellsIsAssignment DEF WellMade, Layout
    <3>5. WellMade(m) /\ m.mode = l.mode /\ m \in Layout
      BY <3>3, <3>4 DEF WellMade
    <3> HIDE DEF m, g
    <3>6. g \in Grid /\ g.layout = m /\ g.active = stored /\ g.mounted
      BY <1>0, <2>3, <3>1, <3>5, UnloadedIsGrid DEF Grid
    <3>7. Ready(g, layouts, stored')
      BY <1>0, <2>1, <2>3, <3>5, <3>6 DEF Ready
    <3>8. ~(g.active # Nobody /\ g.active = grid.active)
      BY <2>1
    <3> QED BY <1>0, <2>1, <3>7, <3>8, CommitInMode
  <2> QED BY <2>2, <2>3
<1>2. CASE GridUnmounts
  <2>1. grid' = Unloaded /\ UNCHANGED <<cameras, layouts, stored, reported>>
    BY <1>2 DEF GridUnmounts
  <2>2. grid' \in Grid /\ WellMade(grid'.layout) /\ grid'.active = Nobody
    BY <2>1, UnloadedIsGrid
  <2> QED BY <2>1, <2>2 DEF GridInv, GridTypeOK, ShownIsStored, WellMade, KeepsOnWall
<1>3. CASE NewLayout
  <2> DEFINE g == [grid EXCEPT !.active = Nobody]
  <2>1. Commit(g, layouts, cameras) /\ stored' = Nobody /\ cameras' = cameras
    BY <1>3 DEF NewLayout, Handler
  <2>2. g \in Grid /\ g.active = Nobody /\ g.layout = grid.layout
    BY <1>0 DEF Grid
  <2> HIDE DEF g
  <2>3. Ready(g, layouts, stored')
    BY <1>0, <2>2 DEF Ready
  <2> QED BY <1>0, <2>1, <2>2, <2>3, CommitInMode
<1>4. ASSUME NEW n \in Names, NEW mode \in {"static", "freeform"}, NEW p \in Presets,
             handleCreateLayout(n, mode, p)
      PROVE  GridInv' /\ KeepsOnWall
  <2> DEFINE new == IF mode = "static" THEN Static(p, NoCells) ELSE Freeform(grid.layout.preset, {})
             g == [grid EXCEPT !.active = n, !.layout = new, !.editing = @ \/ mode = "freeform"]
             saved == [m \in DOMAIN layouts \cup {n} |-> IF m = n THEN new ELSE layouts[m]]
  <2>1. /\ grid.active = Nobody /\ grid.mounted /\ Commit(g, saved, cameras) /\ stored' = n
        /\ cameras' = cameras
    BY <1>4, Zenon DEF handleCreateLayout, PromptShown, Handler
  <2>2. \A c \in DOMAIN NoCells : c <= p
    BY NoCellsIsAssignment
  <2>3. WellMade(new) /\ new \in Layout
    BY <1>0, <2>2, NoCellsIsAssignment, StaticIsWellMade, FreeformIsWellMade DEF WellMade
  <2> HIDE DEF new
  <2>4. /\ g \in Grid /\ g.active = n /\ g.layout = new /\ g.mounted = grid.mounted
    <3> DEFINE e == grid.editing \/ mode = "freeform"
    <3>1. e \in BOOLEAN /\ g = [grid EXCEPT !.active = n, !.layout = new, !.editing = e]
      OBVIOUS
    <3> HIDE DEF e, g
    <3> QED BY <1>0, <2>3, <3>1 DEF Grid
  <2>5. /\ DOMAIN saved = DOMAIN layouts \cup {n} /\ saved \in [DOMAIN layouts \cup {n} -> Layout]
        /\ saved[n] = new /\ \A m \in DOMAIN layouts : m # n => saved[m] = layouts[m]
    BY <1>0, <2>3
  <2> HIDE DEF g, saved
  <2>6. \A m \in DOMAIN saved : WellMade(saved[m])
    BY <1>0, <2>3, <2>5
  <2>7. Ready(g, saved, stored')
    BY <1>0, <2>1, <2>3, <2>4, <2>5, <2>6 DEF Ready
  <2> QED BY <1>0, <2>1, <2>7, CommitInMode
<1>5. ASSUME NEW n \in Names, handleLoadLayout(n) PROVE GridInv' /\ KeepsOnWall
  <2> DEFINE l == layouts[n]
             m == IF l.mode = "static" THEN l ELSE [l EXCEPT !.preset = grid.layout.preset]
             g == [grid EXCEPT !.active = n, !.layout = m, !.editing = @ /\ l.mode = "static"]
  <2>1. /\ n \in DOMAIN layouts /\ grid.mounted /\ Commit(g, layouts, cameras) /\ stored' = n
        /\ cameras' = cameras
    BY <1>5, Zenon DEF handleLoadLayout, Handler
  <2>2. WellMade(l)
    BY <1>0, <2>1
  <2>3. WellMade(m) /\ m.mode = l.mode /\ m \in Layout
    <3>1. CASE l.mode = "static"
      BY <2>2, <3>1 DEF WellMade
    <3>2. CASE l.mode # "static"
      <4>1. m = [l EXCEPT !.preset = grid.layout.preset] /\ l.mode = "freeform" /\ l.slots = NoCells
        BY <2>2, <3>2 DEF WellMade, Layout
      <4> QED BY <1>0, <2>2, <4>1, NoCellsIsAssignment DEF WellMade, Layout
    <3> QED BY <3>1, <3>2
  <2> HIDE DEF m
  <2>4. g \in Grid /\ g.active = n /\ g.layout = m /\ g.mounted = grid.mounted
    <3> DEFINE e == grid.editing /\ l.mode = "static"
    <3>1. e \in BOOLEAN /\ g = [grid EXCEPT !.active = n, !.layout = m, !.editing = e]
      OBVIOUS
    <3> HIDE DEF e, g
    <3> QED BY <1>0, <2>3, <3>1 DEF Grid
  <2> HIDE DEF g
  <2>5. Ready(g, layouts, stored')
    BY <1>0, <2>1, <2>3, <2>4 DEF Ready
  <2>6. g.active # Nobody /\ g.active = grid.active => g.layout.mode = grid.layout.mode
    BY <2>1, <2>3, <2>4 DEF GridInv, ShownIsStored
  <2> QED BY <1>0, <2>1, <2>5, <2>6, CommitInMode
<1>6. ASSUME NEW n \in Names, handleDeleteLayout(n) PROVE GridInv' /\ KeepsOnWall
  <2> DEFINE g == [grid EXCEPT !.active = IF @ = n THEN Nobody ELSE @]
             saved == Restrict(layouts, DOMAIN layouts \ {n})
  <2>1. /\ grid.mounted /\ Commit(g, saved, cameras) /\ cameras' = cameras
        /\ stored' = IF grid.active = n THEN Nobody ELSE stored
    BY <1>6, Zenon DEF handleDeleteLayout, Handler
  <2>2. g \in Grid /\ g.layout = grid.layout /\ g.active = IF grid.active = n THEN Nobody ELSE grid.active
    BY <1>0 DEF Grid
  <2>3. /\ DOMAIN saved = DOMAIN layouts \ {n} /\ saved \in [DOMAIN layouts \ {n} -> Layout]
        /\ \A m \in DOMAIN layouts \ {n} : saved[m] = layouts[m]
    BY <1>0 DEF Restrict
  <2>4. g.mounted = grid.mounted
    BY <1>0 DEF Grid
  <2> HIDE DEF g, saved
  <2>5. g.active # Nobody => stored' = g.active /\ layouts[g.active].mode = grid.layout.mode
    BY <2>1, <2>2 DEF GridInv, ShownIsStored
  <2>6. Ready(g, saved, stored')
    BY <1>0, <2>1, <2>2, <2>3, <2>4, <2>5 DEF Ready
  <2>7. stored' \in Names \cup {Nobody}
    BY <1>0, <2>1
  <2> QED BY <1>0, <2>1, <2>2, <2>6, <2>7, CommitInMode
<1> QED BY <1>1, <1>2, <1>3, <1>4, <1>5, <1>6

(* Cameras put one to a cell into as many cells as there are cameras fill the   *)
(* cells with all of them.                                                      *)
LEMMA OneToACell ==
    ASSUME NEW V, IsFiniteSet(V), NEW f \in [1..Cardinality(V) -> V],
           \A c, d \in 1..Cardinality(V) : f[c] = f[d] => c = d
    PROVE  \A k \in V : \E c \in 1..Cardinality(V) : f[c] = k
<1> DEFINE n == Cardinality(V)
<1>1. n \in Nat
  BY FS_CardinalityType
<1>2. f \in Injection(1..n, V)
  BY DEF Injection, IsInjective
<1>3. IsFiniteSet(1..n) /\ Cardinality(1..n) = IF 1 > n THEN 0 ELSE n - 1 + 1
  BY <1>1, FS_Interval
<1>4. Cardinality(1..n) = n
  BY <1>1, <1>3
<1>5. f \in Surjection(1..n, V)
  <2> HIDE DEF n
  <2>1. Cardinality(1..n) = Cardinality(V)
    BY <1>4 DEF n
  <2> QED BY <1>2, <2>1, FS_Injection
<1> QED BY <1>5 DEF Surjection

(* What a conversion makes is a layout of the other mode. *)
LEMMA ConvertedIsWellMade ==
    ASSUME GridInv,
           NEW l \in IF grid.layout.mode = "static" THEN staticToFreeform(grid.layout.slots)
                     ELSE freeformToStatic(grid.layout.items)
    PROVE  WellMade(l) /\ l.mode # grid.layout.mode
<1>0. /\ cameras \in SUBSET Cams /\ grid.layout \in Layout
      /\ grid.layout.preset \in Presets /\ grid.layout.slots \in Assignments
      /\ grid.layout.items \in SUBSET Cams /\ grid.layout.mode \in {"static", "freeform"}
  BY DEF GridInv, GridTypeOK, WellMade, Layout
<1>1. CASE grid.layout.mode = "static"
  <2>1. l = Freeform(grid.layout.preset, Range(grid.layout.slots))
    BY <1>1 DEF staticToFreeform
  <2>2. Range(grid.layout.slots) \in SUBSET Cams
    BY <1>0, AssignmentsAre DEF Range
  <2> QED BY <1>0, <1>1, <2>1, <2>2, FreeformIsWellMade
<1>2. CASE grid.layout.mode # "static"
  <2> DEFINE V == grid.layout.items \cap cameras
             n == Cardinality(V)
             p == PresetFor(n)
             used == 1 .. Min({n, p})
  <2>1. PICK f \in [used -> V] : l = Static(p, f)
    BY <1>2 DEF freeformToStatic
  <2>2. IsFiniteSet(V) /\ V \subseteq Cams
    BY <1>0, GridAssumption, FS_Subset
  <2>3. n \in Nat
    BY <2>2, FS_CardinalityType
  <2>4. p \in Presets /\ p \in Nat
    BY <2>3, PresetHasRoom, GridAssumption
  <2> HIDE DEF n, p, V
  <2>5. used \subseteq 1..p
    <3>1. n \in Int /\ p \in Int
      BY <2>3, <2>4
    <3>2. Min({n, p}) = IF n <= p THEN n ELSE p
      BY <3>1, MinOfTwo
    <3> QED BY <2>3, <2>4, <3>2
  <2>6. 1..p \subseteq Cells
    BY <2>4, LargestPreset DEF Cells
  <2> HIDE DEF used
  <2>7. \A c \in used : c <= p
    BY <2>4, <2>5
  <2>8. f \in Assignments /\ DOMAIN f = used
    BY <2>2, <2>5, <2>6, AssignmentsAre
  <2> QED BY <1>0, <1>2, <2>1, <2>4, <2>7, <2>8, StaticIsWellMade
<1> QED BY <1>1, <1>2

LEMMA GridConverts ==
    ASSUME GridInv, handleConvertLayout
    PROVE  GridInv' /\ KeepsOnWall
<1>0. /\ grid \in Grid /\ cameras \in SUBSET Cams /\ grid.layout \in Layout
      /\ grid.layout.slots \in Assignments /\ grid.layout.items \in SUBSET Cams
      /\ grid.layout.mode \in {"static", "freeform"} /\ stored \in Names \cup {Nobody}
      /\ DOMAIN layouts \subseteq Names /\ layouts \in [DOMAIN layouts -> Layout]
      /\ \A n \in DOMAIN layouts : WellMade(layouts[n])
      /\ grid.active \in DOMAIN layouts \cup {Nobody} /\ grid.mounted \in BOOLEAN
  BY DEF GridInv, GridTypeOK, WellMade, Layout, Grid
<1>1. /\ grid.mounted /\ grid.active # Nobody /\ cameras' = cameras /\ stored' = stored
  BY DEF handleConvertLayout, Handler
<1>2. stored = grid.active /\ grid.active \in DOMAIN layouts
  BY <1>0, <1>1 DEF GridInv, ShownIsStored
<1>3. PICK l \in IF grid.layout.mode = "static" THEN staticToFreeform(grid.layout.slots)
                 ELSE freeformToStatic(grid.layout.items) :
         Commit([grid EXCEPT !.layout = l, !.editing = (l.mode = "freeform")],
                [layouts EXCEPT ![grid.active] = l], cameras)
  BY Zenon DEF handleConvertLayout
<1>4. WellMade(l) /\ l.mode # grid.layout.mode /\ l \in Layout
  BY <1>3, ConvertedIsWellMade DEF WellMade
<1> DEFINE e == (l.mode = "freeform")
           g == [grid EXCEPT !.layout = l, !.editing = e]
           saved == [layouts EXCEPT ![grid.active] = l]
<1>5. e \in BOOLEAN /\ Commit(g, saved, cameras)
  BY <1>3
<1> HIDE DEF e
<1>6. g \in Grid /\ g.layout = l /\ g.active = grid.active /\ g.mounted = grid.mounted
  BY <1>0, <1>4, <1>5 DEF Grid
<1>7. /\ DOMAIN saved = DOMAIN layouts /\ saved \in [DOMAIN layouts -> Layout] /\ saved[grid.active] = l
      /\ \A n \in DOMAIN layouts : n # grid.active => saved[n] = layouts[n]
  BY <1>0, <1>2, <1>4
<1> HIDE DEF g, saved
<1>8. \A n \in DOMAIN saved : WellMade(saved[n])
  BY <1>0, <1>4, <1>7
<1>9. Ready(g, saved, stored')
  BY <1>0, <1>1, <1>2, <1>4, <1>6, <1>7, <1>8 DEF Ready
<1>10. GridInv'
  BY <1>0, <1>1, <1>5, <1>9, CommitKeeps
<1>11. SUFFICES ASSUME Cardinality(Visible(grid, cameras)) <= Max(Presets)
                PROVE  Visible(grid, cameras) \subseteq Visible(grid', cameras')
  BY <1>10 DEF KeepsOnWall
<1> DEFINE v == Validated(l.slots, l.preset, cameras)
<1>12. grid' = [g EXCEPT !.layout.slots = v]
  BY <1>5, <1>6 DEF Commit
<1>13. /\ grid'.active = grid.active /\ grid'.layout.mode = l.mode /\ grid'.layout.items = l.items
       /\ grid'.layout.slots = v
  <2> HIDE DEF v
  <2> QED BY <1>4, <1>6, <1>12 DEF Grid, Layout
<1> HIDE DEF v
<1>14. CASE grid.layout.mode = "static"
  <2>1. l = Freeform(grid.layout.preset, Range(grid.layout.slots))
    BY <1>3, <1>14 DEF staticToFreeform
  <2>2. l.mode = "freeform" /\ l.items = Range(grid.layout.slots)
    BY <2>1 DEF Freeform
  <2> QED BY <1>1, <1>13, <1>14, <2>2 DEF Visible
<1>15. CASE grid.layout.mode # "static"
  <2> DEFINE V == grid.layout.items \cap cameras
             n == Cardinality(V)
             p == PresetFor(n)
             used == 1 .. Min({n, p})
  <2>1. PICK f \in [used -> V] : l = Static(p, f) /\ \A c, d \in used : f[c] = f[d] => c = d
    BY <1>3, <1>15 DEF freeformToStatic
  <2>2. Visible(grid, cameras) = V
    BY <1>1, <1>15 DEF Visible
  <2>3. IsFiniteSet(V) /\ V \subseteq Cams /\ V \subseteq cameras
    BY <1>0, GridAssumption, FS_Subset
  <2>4. n \in Nat
    BY <2>3, FS_CardinalityType
  <2>5. p \in Nat /\ n <= p
    <3>1. n <= Max(Presets)
      BY <1>11, <2>2
    <3>2. PresetFor(n) \in Presets /\ n <= PresetFor(n)
      <4> HIDE DEF n
      <4> QED BY <2>4, <3>1, PresetHasRoom
    <3> QED BY <3>2, GridAssumption
  <2>6. l.mode = "static" /\ l.slots = f /\ l.preset = p
    BY <2>1 DEF Static
  <2> HIDE DEF V, p
  <2>7. used = 1..n
    <3> HIDE DEF n
    <3> QED BY <2>4, <2>5, MinOfTwo
  <2>8. \A k \in V : \E c \in 1..n : f[c] = k
    <3>1. f \in [1..n -> V] /\ \A c, d \in 1..n : f[c] = f[d] => c = d
      <4> HIDE DEF n, used
      <4> QED BY <2>1, <2>7
    <3> QED BY <2>3, <3>1, OneToACell
  <2> HIDE DEF n, used
  <2>9. v = f \/ V = {}
    <3>1. CASE cameras = {}
      BY <2>3, <3>1
    <3>2. CASE cameras # {}
      <4>1. {c \in DOMAIN f : c <= p /\ f[c] \in cameras} = 1..n /\ DOMAIN f = 1..n
        BY <2>1, <2>3, <2>4, <2>5, <2>7
      <4>2. v = Restrict(f, 1..n)
        BY <2>6, <3>2, <4>1 DEF Validated, v
      <4>3. Restrict(f, 1..n) = f
        BY <2>1, <2>7 DEF Restrict
      <4> QED BY <4>2, <4>3
    <3> QED BY <3>1, <3>2
  <2>10. CASE v = f
    <3>1. \A k \in V : k \in Range(f)
      BY <2>1, <2>7, <2>8 DEF Range
    <3>2. Visible(grid', cameras') = Range(f) \cap cameras
      BY <1>1, <1>13, <2>6, <2>10 DEF Visible
    <3> QED BY <2>2, <2>3, <3>1, <3>2
  <2> QED BY <2>2, <2>9, <2>10
<1> QED BY <1>14, <1>15

LEMMA GridKept == GridInv /\ GridStep => GridInv' /\ KeepsOnWall
<1> SUFFICES ASSUME GridInv, GridStep PROVE GridInv' /\ KeepsOnWall
  OBVIOUS
<1> QED BY GridControls, GridEdits, GridNames, GridConverts DEF GridStep

-----------------------------------------------------------------------------
(* The page *)

MonitorInv ==
    GridInv /\ TileInv /\ ScopeTypeOK /\ FeedInv /\ PanelInv /\ TransportInv /\ DialogInv

LEMMA InvSuffices ==
    MonitorInv => MonitorInvariant /\ HeldKeepsMoving /\ LiveAtNormalSpeed /\ DragIsApplied
  BY ShownMatches
  DEF MonitorInv, MonitorInvariant, TypeOK, GridInv, TileInv, FeedInv, PanelInv, TransportInv, DialogInv

LEMMA MonitorStarts == Init => MonitorInv
  BY GridStarts, TileStarts, ScopeStarts, FeedStarts, PanelStarts, TransportStarts, DialogStarts
  DEF Init, MonitorInv

LEMMA GridUnmoved == GridInv /\ UNCHANGED gridVars => GridInv'
  BY DEF gridVars, GridInv, GridTypeOK, ShownIsStored, WellMade
LEMMA TileUnmoved == TileInv /\ UNCHANGED tileVars => TileInv'
  BY DEF tileVars, TileInv, TileTypeOK, HeldKeepsMoving, ZonesOnlyLive
LEMMA ScopeUnmoved == ScopeTypeOK /\ UNCHANGED scopeVars => ScopeTypeOK'
  BY DEF scopeVars, ScopeTypeOK
LEMMA FeedUnmoved == FeedInv /\ UNCHANGED feedVars => FeedInv'
  BY DEF feedVars, FeedInv, FeedTypeOK, OneLink
LEMMA PanelUnmoved == PanelInv /\ UNCHANGED panelVars => PanelInv'
  BY DEF panelVars, PanelInv, PanelTypeOK, LayoutToggleIsHonest
LEMMA TransportUnmoved == TransportInv /\ UNCHANGED transportVars => TransportInv'
  BY DEF transportVars, TransportInv, TransportTypeOK, LiveAtNormalSpeed, DragIsApplied
LEMMA DialogUnmoved == DialogInv /\ UNCHANGED dialogVars => DialogInv'
  BY DEF dialogVars, DialogInv, DialogTypeOK

(* Each step is a step of one part and leaves the others alone. *)
LEMMA MonitorKept == MonitorInv /\ [Next]_vars => MonitorInv'
<1> SUFFICES ASSUME MonitorInv, [Next]_vars PROVE MonitorInv'
  OBVIOUS
<1>1. GridInv'
  BY GridKept, GridUnmoved, Zenon DEF MonitorInv, Next, vars
<1>2. TileInv'
  BY TileKept, TileUnmoved, Zenon DEF MonitorInv, Next, vars
<1>3. ScopeTypeOK'
  BY ScopeKept, ScopeUnmoved, Zenon DEF MonitorInv, Next, vars
<1>4. FeedInv'
  BY FeedKept, FeedUnmoved, Zenon DEF MonitorInv, Next, vars
<1>5. PanelInv'
  BY PanelKept, PanelUnmoved, Zenon DEF MonitorInv, Next, vars
<1>6. TransportInv'
  BY TransportKept, TransportUnmoved, Zenon DEF MonitorInv, Next, vars
<1>7. DialogInv'
  BY DialogKept, DialogUnmoved, Zenon DEF MonitorInv, Next, vars
<1> QED BY <1>1, <1>2, <1>3, <1>4, <1>5, <1>6, <1>7 DEF MonitorInv

(* What the page shows is so, for every installation: the wall is the stored   *)
(* one (CameraGrid.tsx), the event feed has one link (app/page.tsx), the rows   *)
(* of the panel are the ones asked for (EventListPanel.tsx), zones lie over     *)
(* live pictures only (VideoPlayer.tsx).                                        *)
THEOREM PageShowsWhatIsSo == Spec => []MonitorInvariant
<1>1. Spec => []MonitorInv
  BY MonitorStarts, MonitorKept, PTL DEF Spec
<1> QED BY <1>1, InvSuffices, PTL

(* What a hand does to the page is done, for every installation: PTZ buttons,   *)
(* drags, layout conversions, transport buttons and pins.                       *)
THEOREM PageObeysHands == Spec => HandsAreObeyed
<1>1. Spec => []MonitorInv
  BY MonitorStarts, MonitorKept, PTL DEF Spec
<1>2. MonitorInv /\ [Next]_vars => [KeepsOnWall]_gridVars
  BY GridKept, Zenon DEF MonitorInv, Next, vars
<1>3. MonitorInv /\ [Next]_vars
        => [at' > Present => at' <= at \/ hand # "none" \/ bar.editing \/ frame]_transportVars
  BY StaysBehind, Zenon DEF MonitorInv, Next, vars
<1>4. MonitorInv /\ [Next]_vars => [map.saved \subseteq map'.saved]_dialogVars
  BY PinsKept, Zenon DEF MonitorInv, Next, vars
<1>5. Spec => [](HeldKeepsMoving /\ LiveAtNormalSpeed /\ DragIsApplied)
  BY <1>1, InvSuffices, PTL
<1>6. Spec => ConversionKeepsCameras
  BY <1>1, <1>2, PTL DEF Spec, ConversionKeepsCameras, KeepsOnWall
<1>7. Spec => ButtonsStayBehindNow
  BY <1>1, <1>3, PTL DEF Spec, ButtonsStayBehindNow
<1>8. Spec => PinsStay
  BY <1>1, <1>4, PTL DEF Spec, PinsStay
<1> QED BY <1>5, <1>6, <1>7, <1>8, PTL DEF HandsAreObeyed
==============================================================================
