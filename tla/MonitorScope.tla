---------------------------- MODULE MonitorScope ----------------------------
(***************************************************************************)
(* What the monitor's timeline is about, app/page.tsx: the cameras of the   *)
(* active layout as the grid reports them, unless one camera is isolated by *)
(* the timeline's menu or peeked at, and the density buckets queried for    *)
(* that scope.  Queries are sent on every change and by a timer, and their  *)
(* answers are applied as they come.                                        *)
(***************************************************************************)
EXTENDS Naturals, FiniteSets

CONSTANTS Lenses,       \* cameras
          MaxQueries,   \* bound: queries under way
          MaxChanges    \* bound: changes of the scope

ASSUME ScopeAssumption == MaxChanges \in Nat

VARIABLES page, listed, peek, isolated, restore, layoutSet, shownFor, queries, changes

scopeVars == <<page, listed, peek, isolated, restore, layoutSet, shownFor, queries, changes>>

NoLens == "none"

(* The one type invariant; the empty set as a scope is every camera. *)
ScopeTypeOK ==
    /\ page \in {"live", "analytics", "map"} /\ listed \subseteq Lenses
    /\ {peek, isolated, restore} \subseteq Lenses \cup {NoLens}
    /\ layoutSet \subseteq Lenses /\ shownFor \subseteq Lenses
    /\ queries \subseteq SUBSET Lenses /\ changes \in 0..MaxChanges

(* The cameras loadTimeline asks for. *)
Wanted(iso, ids) == IF iso # NoLens THEN {iso} ELSE ids

(* Mutant: the timer keeps the first render's closure. *)
AskStale(iso, ids) == queries' = queries \cup {{}}
(* The effect of loadTimeline: a query at once. *)
Ask(iso, ids) == queries' = queries \cup {Wanted(iso, ids)}
Changes == changes < MaxChanges /\ changes' = changes + 1
MayAsk == Cardinality(queries) < MaxQueries

-----------------------------------------------------------------------------
switchPage(p) ==
    /\ p # page /\ page' = p /\ Changes
    /\ UNCHANGED <<listed, peek, isolated, restore, layoutSet, shownFor, queries>>

(* loadCameras: a peeked camera may no longer be among the listed ones. *)
CamerasLoaded(S) ==
    /\ listed' = S /\ Changes
    /\ UNCHANGED <<page, peek, isolated, restore, layoutSet, shownFor, queries>>

(* handleVisibleCamerasChange: the grid of the live page reports its set. *)
handleVisibleCamerasChange(S) ==
    /\ page = "live" /\ S \subseteq listed /\ S # layoutSet /\ MayAsk /\ Changes
    /\ layoutSet' = S /\ Ask(isolated, S)
    /\ UNCHANGED <<page, listed, peek, isolated, restore, shownFor>>

(* The timeline's camera menu; the peek dialog covers it. *)
onIsolateCamera(c) ==
    /\ page = "live" /\ ~(peek \in listed) /\ c \in listed \cup {NoLens} /\ MayAsk /\ Changes
    /\ isolated' = IF c = isolated THEN NoLens ELSE c
    /\ Ask(isolated', layoutSet)
    /\ UNCHANGED <<page, listed, peek, restore, layoutSet, shownFor>>

(* A double click on a tile or a click on a pin of the map. *)
PeekFrom == page = "live" \/ page = "map"
Peek(c) ==
    /\ PeekFrom /\ c \in listed /\ peek \notin listed /\ c # peek /\ MayAsk /\ Changes
    /\ page' = "live" /\ peek' = c
    /\ restore' = isolated /\ isolated' = c /\ Ask(c, layoutSet)
    /\ UNCHANGED <<listed, layoutSet, shownFor>>
(* The cross, the backdrop or a double click while it is drawn, Escape always. *)
ClosePeek ==
    /\ peek # NoLens /\ peek' = NoLens /\ MayAsk
    /\ isolated' = restore /\ restore' = NoLens /\ Ask(restore, layoutSet)
    /\ UNCHANGED <<page, listed, layoutSet, shownFor, changes>>

(* The interval, every 30 or 60 seconds; answers in any order; errors ignored. *)
PollTimeline ==
    /\ MayAsk /\ Ask(isolated, layoutSet)
    /\ UNCHANGED <<page, listed, peek, isolated, restore, layoutSet, shownFor, changes>>
TimelineReply(s) ==
    /\ s \in queries /\ queries' = queries \ {s} /\ shownFor' = s
    /\ UNCHANGED <<page, listed, peek, isolated, restore, layoutSet, changes>>
TimelineFails(s) ==
    /\ s \in queries /\ queries' = queries \ {s}
    /\ UNCHANGED <<page, listed, peek, isolated, restore, layoutSet, shownFor, changes>>
AnyReply == \E s \in queries : TimelineReply(s)

ScopeInit ==
    /\ page = "live" /\ listed = {} /\ peek = NoLens /\ isolated = NoLens /\ restore = NoLens
    /\ layoutSet = {} /\ shownFor = {} /\ queries = {{}} /\ changes = 0
ScopeStep ==
    \/ \E p \in {"live", "analytics", "map"} : switchPage(p)
    \/ \E S \in SUBSET Lenses : CamerasLoaded(S) \/ handleVisibleCamerasChange(S)
    \/ \E c \in Lenses \cup {NoLens} : onIsolateCamera(c)
    \/ \E c \in Lenses : Peek(c)
    \/ ClosePeek \/ PollTimeline
    \/ \E s \in queries : TimelineReply(s) \/ TimelineFails(s)

(* The timeline ends up showing the scope in force: when the operator leaves it *)
(* alone, the answer to an older scope that came last is replaced.              *)
TimelineFollowsScope == <>[](shownFor = Wanted(isolated, layoutSet))
==============================================================================
