----------------------------- MODULE EventPanel -----------------------------
(***************************************************************************)
(* The slide-out list of events, EventListPanel.tsx: filters, a debounced   *)
(* query per change of them, and the rows it shows from its own answer and  *)
(* from the page's live list.  There is one event per camera, so a set of   *)
(* events is the set of their cameras; sort order and grouping are layout.  *)
(***************************************************************************)
EXTENDS Naturals, FiniteSets

CONSTANTS Cameras,      \* cameras with an event
          MaxFetches    \* bound: queries under way

VARIABLES panel, liveRows, layoutIds

panelVars == <<panel, liveRows, layoutIds>>

(* The one type invariant. *)
PanelTypeOK ==
    /\ panel \in [open : BOOLEAN, scopeOn : BOOLEAN, custom : BOOLEAN, typeOn : BOOLEAN,
                   chosen : SUBSET Cameras, remote : SUBSET Cameras, fetches : SUBSET (SUBSET Cameras),
                   debounce : BOOLEAN, loading : BOOLEAN]
    /\ liveRows \subseteq Cameras /\ layoutIds \subseteq Cameras

(* Explicit choice first, then the layout; empty stands for every camera.    *)
effectiveCameraIds(p, ids) ==
    IF p.chosen # {} THEN p.chosen ELSE IF p.scopeOn THEN ids ELSE {}

matchesFilters(p, ids, c) ==
    LET scope == effectiveCameraIds(p, ids) IN p.typeOn /\ (scope = {} \/ c \in scope)

(* Mutant: the answer of the query is taken to match the filters. *)
RowsUnfiltered(p, rows, ids) ==
    p.remote \cup {c \in rows : ~p.custom /\ matchesFilters(p, ids, c)}
displayedEvents(p, rows, ids) ==
    {c \in p.remote \cup (IF p.custom THEN {} ELSE rows) : matchesFilters(p, ids, c)}

-----------------------------------------------------------------------------
(* A change of the filters: the layout toggle clears itself when the layout  *)
(* is empty, and the debounce starts anew when the query would differ.       *)
NoAutoClear(p, ids) == p
AutoClear(p, ids) == [p EXCEPT !.scopeOn = @ /\ ids # {}]
Rerendered(p, ids) == [AutoClear(p, ids) EXCEPT !.debounce = TRUE]
Filter(p) == panel' = Rerendered(p, layoutIds) /\ UNCHANGED <<liveRows, layoutIds>>

toggleType      == panel.open /\ Filter([panel EXCEPT !.typeOn = ~@])
toggleCamera(c) ==
    /\ panel.open
    /\ Filter([panel EXCEPT !.chosen = IF c \in @ THEN @ \ {c} ELSE @ \cup {c}])
ClearCameras    == panel.open /\ panel.chosen # {} /\ Filter([panel EXCEPT !.chosen = {}])
ToggleLayout    == panel.open /\ layoutIds # {} /\ Filter([panel EXCEPT !.scopeOn = ~@])
ToggleRange     == panel.open /\ Filter([panel EXCEPT !.custom = ~@])

(* The grid reports another set of cameras; an event is pushed. *)
LayoutReported ==
    /\ \E ids \in SUBSET Cameras :
          /\ layoutIds' = ids
          /\ panel' = IF panel.scopeOn THEN Rerendered(panel, ids) ELSE panel
    /\ UNCHANGED liveRows
EventPushed(c) ==
    /\ c \notin liveRows /\ liveRows' = liveRows \cup {c} /\ UNCHANGED <<panel, layoutIds>>

OpenOrClose == panel' = [panel EXCEPT !.open = ~@] /\ UNCHANGED <<liveRows, layoutIds>>

-----------------------------------------------------------------------------
(* fetchEvents, when the debounce has run out. *)
fetchEvents ==
    /\ panel.debounce /\ Cardinality(panel.fetches) < MaxFetches
    /\ panel' = [panel EXCEPT !.debounce = FALSE, !.loading = TRUE,
                              !.fetches = @ \cup {effectiveCameraIds(panel, layoutIds)}]
    /\ UNCHANGED <<liveRows, layoutIds>>

(* The answer: every camera of the scope, or of all; of several cameras those *)
(* whose own query fails are empty.  Answers come in any order.               *)
Answers(scope) ==
    IF scope = {} THEN {Cameras} ELSE IF Cardinality(scope) = 1 THEN {scope} ELSE SUBSET scope

(* Mutant: the flag is cleared on the way out of the try block only. *)
FetchFailsLoading(scope) ==
    /\ scope \in panel.fetches /\ Cardinality(scope) <= 1
    /\ panel' = [panel EXCEPT !.fetches = @ \ {scope}, !.remote = {}]
    /\ UNCHANGED <<liveRows, layoutIds>>
FetchAnswered(scope) ==
    /\ scope \in panel.fetches
    /\ \E rows \in Answers(scope) :
          panel' = [panel EXCEPT !.fetches = @ \ {scope}, !.remote = rows, !.loading = FALSE]
    /\ UNCHANGED <<liveRows, layoutIds>>
FetchFails(scope) ==
    /\ scope \in panel.fetches /\ Cardinality(scope) <= 1
    /\ panel' = [panel EXCEPT !.fetches = @ \ {scope}, !.remote = {}, !.loading = FALSE]
    /\ UNCHANGED <<liveRows, layoutIds>>
FetchReturns == \E scope \in panel.fetches : FetchAnswered(scope) \/ FetchFails(scope)

PanelInit ==
    /\ panel = [open |-> FALSE, scopeOn |-> FALSE, custom |-> FALSE, typeOn |-> TRUE, chosen |-> {},
                remote |-> {}, fetches |-> {}, debounce |-> TRUE, loading |-> FALSE]
    /\ liveRows = {} /\ layoutIds = {}
PanelStep ==
    \/ toggleType \/ ClearCameras \/ ToggleLayout \/ ToggleRange \/ LayoutReported \/ OpenOrClose
    \/ \E c \in Cameras : toggleCamera(c) \/ EventPushed(c)
    \/ fetchEvents \/ FetchReturns

(* Every row shown is one the filters ask for, although answers to earlier    *)
(* filters arrive late and out of order and replace the newer ones.           *)
RowsMatchFilters ==
    \A c \in displayedEvents(panel, liveRows, layoutIds) :
        /\ panel.typeOn
        /\ panel.chosen # {} => c \in panel.chosen
        /\ panel.chosen = {} /\ panel.scopeOn => c \in layoutIds

(* The toggle "This layout" is on only while there is a layout: the button     *)
(* never claims a scope the list does not have.                                *)
LayoutToggleIsHonest == panel.scopeOn => layoutIds # {}

(* The list does not stay in its loading state. *)
PanelLoadingEnds == panel.loading ~> ~panel.loading
==============================================================================
