----------------------------- MODULE CameraGrid -----------------------------
(***************************************************************************)
(* The layout of the camera wall, CameraGrid.tsx: named layouts kept in the *)
(* browser's storage, either a static grid whose cells hold cameras or a    *)
(* freeform canvas.  A preset is its number of cells; what a freeform       *)
(* layout keeps beside its cameras, position and size, is the order in      *)
(* which a conversion may meet them.  The grid is mounted while the page    *)
(* shows the monitor and starts from storage each time.                     *)
(***************************************************************************)
EXTENDS Naturals, FiniteSets, Functions, FiniteSetsExt

CONSTANTS Cams,          \* cameras of the installation
          Names,         \* layout names
          Presets,       \* cells of the static presets
          DefaultPreset  \* the preset of a grid that has loaded nothing yet

ASSUME GridAssumption ==
    /\ Presets \subseteq Nat \ {0} /\ IsFiniteSet(Presets) /\ DefaultPreset \in Presets
    /\ IsFiniteSet(Cams)

Nobody == "none"       \* no layout is active, no camera
Cells == 1 .. Max(Presets)
NoCells == [c \in {} |-> Nobody]

VARIABLES
    cameras,   \* the list the page has loaded
    layouts,   \* storage: name -> layout, only for saved names
    stored,    \* storage: name of the active layout
    grid,      \* state of the mounted component
    reported   \* cameras last reported to the page

gridVars == <<cameras, layouts, stored, grid, reported>>

Assignments == UNION {[S -> Cams] : S \in SUBSET Cells}
Layout == [mode : {"static", "freeform"}, preset : Presets, slots : Assignments, items : SUBSET Cams]

Grid == [mounted : BOOLEAN, active : Names \cup {Nobody}, layout : Layout, editing : BOOLEAN,
         picker : Cells \cup {0}, adding : BOOLEAN, hand : {"none", "drag", "resize"}]

(* The one type invariant. *)
GridTypeOK ==
    /\ cameras \subseteq Cams /\ reported \subseteq Cams
    /\ DOMAIN layouts \subseteq Names /\ layouts \in [DOMAIN layouts -> Layout]
    /\ stored \in Names \cup {Nobody}
    /\ grid \in Grid /\ grid.active \in DOMAIN layouts \cup {Nobody}
    /\ \A c \in DOMAIN grid.layout.slots : c <= grid.layout.preset

Static(n, slots) == [mode |-> "static", preset |-> n, slots |-> slots, items |-> {}]
Freeform(n, items) == [mode |-> "freeform", preset |-> n, slots |-> NoCells, items |-> items]
Unloaded == [mounted |-> FALSE, active |-> Nobody, layout |-> Static(DefaultPreset, NoCells),
             editing |-> FALSE, picker |-> 0, adding |-> FALSE, hand |-> "none"]

-----------------------------------------------------------------------------
(* The effects that follow a change of the state. *)

(* Assignments to cells the preset has and to cameras that are loaded.       *)
Validated(slots, n, cams) ==
    IF cams = {} THEN slots
    ELSE Restrict(slots, {c \in DOMAIN slots : c <= n /\ slots[c] \in cams})

(* What the parent is told: the cameras of the active layout that are loaded. *)
Visible(g, cams) ==
    IF g.active = Nobody THEN {}
    ELSE (IF g.layout.mode = "static" THEN Range(g.layout.slots) ELSE g.layout.items) \cap cams

(* The autosave goes by the mode of the saved layout. *)
Autosaved(g, saved) ==
    IF g.active \notin DOMAIN saved THEN saved
    ELSE [saved EXCEPT ![g.active] =
            IF @.mode = "static" THEN [@ EXCEPT !.preset = g.layout.preset, !.slots = g.layout.slots]
            ELSE [@ EXCEPT !.items = g.layout.items]]

(* A handler left the component in g and storage in saved: validation, then  *)
(* autosave and report.                                                      *)
Commit(g, saved, cams) ==
    LET valid == [g EXCEPT !.layout.slots = Validated(@, g.layout.preset, cams)]
    IN /\ grid' = valid
       /\ layouts' = Autosaved(valid, saved)
       /\ reported' = Visible(valid, cams)

-----------------------------------------------------------------------------
(* On mount: the active layout as stored.  The validation effect of the same *)
(* commit still sees the default preset, so a wall that already has its      *)
(* cameras keeps the first cells only.                                       *)
Restored(n) ==
    IF n \notin DOMAIN layouts THEN [Unloaded EXCEPT !.mounted = TRUE]
    ELSE [Unloaded EXCEPT !.mounted = TRUE, !.active = n,
            !.layout = IF layouts[n].mode = "static"
                       THEN [layouts[n] EXCEPT !.slots = Validated(@, DefaultPreset, cameras)]
                       ELSE [layouts[n] EXCEPT !.preset = DefaultPreset]]
GridMounts ==
    /\ ~grid.mounted
    /\ Commit(Restored(stored), layouts, cameras)
    /\ UNCHANGED <<cameras, stored>>

GridUnmounts ==
    /\ grid.mounted /\ grid.hand = "none" /\ grid' = Unloaded
    /\ UNCHANGED <<cameras, layouts, stored, reported>>

(* The page has loaded the list of cameras. *)
CamerasChange ==
    /\ \E S \in SUBSET Cams :
          /\ cameras' = S
          /\ IF grid.mounted THEN Commit(grid, layouts, S) ELSE UNCHANGED <<grid, layouts, reported>>
    /\ UNCHANGED stored

(* The handlers run in a mounted grid whose list is up to date. *)
Handler == grid.mounted /\ grid.hand = "none" /\ UNCHANGED cameras

(* setPickerOpenSlot: a click on an empty cell or on the gear of a full one. *)
TogglePicker(c) ==
    /\ Handler /\ grid.active # Nobody /\ grid.layout.mode = "static" /\ c <= grid.layout.preset
    /\ Commit([grid EXCEPT !.picker = IF @ = c THEN 0 ELSE c], layouts, cameras)
    /\ UNCHANGED stored
ClickOutside ==
    /\ Handler /\ (grid.picker # 0 \/ grid.adding)
    /\ Commit([grid EXCEPT !.picker = 0, !.adding = FALSE], layouts, cameras)
    /\ UNCHANGED stored

(* The picker offers the loaded cameras that no other cell uses. *)
Offered(c) ==
    {k \in cameras : \A d \in DOMAIN grid.layout.slots : grid.layout.slots[d] = k => d = c}

handleAssignCamera(c, k) ==
    LET slots == grid.layout.slots
        freed == Restrict(slots, {d \in DOMAIN slots : d # c /\ slots[d] # k})
    IN /\ Handler /\ grid.active # Nobody /\ grid.layout.mode = "static" /\ grid.picker = c
       /\ c <= grid.layout.preset
       /\ k = Nobody => c \in DOMAIN slots
       /\ k # Nobody => k \in Offered(c)
       /\ Commit([grid EXCEPT !.picker = 0,
                    !.layout.slots = IF k = Nobody THEN freed
                                     ELSE [d \in DOMAIN freed \cup {c} |-> IF d = c THEN k ELSE freed[d]]],
                 layouts, cameras)
       /\ UNCHANGED stored

(* Mutant of handleStaticPresetChange: the cells that go keep their cameras. *)
PresetChangeOnly(n) ==
    /\ Handler /\ grid.active # Nobody /\ grid.layout.mode = "static"
    /\ Commit([grid EXCEPT !.layout.preset = n], layouts, cameras)
    /\ UNCHANGED stored
handleStaticPresetChange(n) ==
    /\ Handler /\ grid.active # Nobody /\ grid.layout.mode = "static"
    /\ Commit([grid EXCEPT !.layout.preset = n,
                           !.layout.slots = Restrict(@, {d \in DOMAIN @ : d <= n})],
              layouts, cameras)
    /\ UNCHANGED stored

(* "New Layout" leaves the active one and shows the prompt. *)
NewLayout ==
    /\ Handler
    /\ Commit([grid EXCEPT !.active = Nobody], layouts, cameras)
    /\ stored' = Nobody

(* The prompt: the mode and the preset are chosen, a saved name is replaced.  *)
PromptShown == Handler /\ grid.active = Nobody
handleCreateLayout(n, mode, p) ==
    LET new == IF mode = "static" THEN Static(p, NoCells) ELSE Freeform(grid.layout.preset, {})
    IN /\ PromptShown
       /\ Commit([grid EXCEPT !.active = n, !.layout = new, !.editing = @ \/ mode = "freeform"],
                 [m \in DOMAIN layouts \cup {n} |-> IF m = n THEN new ELSE layouts[m]], cameras)
       /\ stored' = n

handleLoadLayout(n) ==
    /\ Handler /\ n \in DOMAIN layouts
    /\ LET l == layouts[n]
       IN Commit([grid EXCEPT !.active = n,
                    !.layout = IF l.mode = "static" THEN l ELSE [l EXCEPT !.preset = grid.layout.preset],
                    !.editing = @ /\ l.mode = "static"], layouts, cameras)
    /\ stored' = n

handleDeleteLayout(n) ==
    /\ Handler /\ n \in DOMAIN layouts
    /\ Commit([grid EXCEPT !.active = IF @ = n THEN Nobody ELSE @],
              Restrict(layouts, DOMAIN layouts \ {n}), cameras)
    /\ stored' = IF grid.active = n THEN Nobody ELSE stored

(* Mutant of PresetFor: the comparison is off by one. *)
PresetBelow(n) ==
    LET fits == {p \in Presets : p + 1 >= n} IN IF fits = {} THEN Max(Presets) ELSE Min(fits)
(* The smallest preset that holds n cameras, else the largest. *)
PresetFor(n) ==
    LET fits == {p \in Presets : p >= n} IN IF fits = {} THEN Max(Presets) ELSE Min(fits)

(* Freeform to static: the loaded cameras, in some order of their positions,  *)
(* fill the first cells.                                                      *)
freeformToStatic(items) ==
    LET count == Cardinality(items \cap cameras)
        p     == PresetFor(count)
        used  == 1 .. Min({count, p})
    IN {Static(p, f) : f \in {g \in [used -> items \cap cameras] :
                                 \A c, d \in used : g[c] = g[d] => c = d}}
staticToFreeform(slots) == {Freeform(grid.layout.preset, Range(slots))}

(* Mutant of handleConvertLayout: the saved layout keeps its mode.            *)
ConvertOnScreen ==
    /\ Handler /\ grid.active # Nobody
    /\ \E l \in IF grid.layout.mode = "static" THEN staticToFreeform(grid.layout.slots)
                ELSE freeformToStatic(grid.layout.items) :
          Commit([grid EXCEPT !.layout = l, !.editing = (l.mode = "freeform")], layouts, cameras)
    /\ UNCHANGED stored
handleConvertLayout ==
    /\ Handler /\ grid.active # Nobody
    /\ \E l \in IF grid.layout.mode = "static" THEN staticToFreeform(grid.layout.slots)
                ELSE freeformToStatic(grid.layout.items) :
          Commit([grid EXCEPT !.layout = l, !.editing = (l.mode = "freeform")],
                 [layouts EXCEPT ![grid.active] = l], cameras)
    /\ UNCHANGED stored

-----------------------------------------------------------------------------
(* The freeform canvas *)
OnCanvas == Handler /\ grid.active # Nobody /\ grid.layout.mode = "freeform"

ToggleAdding ==
    /\ OnCanvas /\ Commit([grid EXCEPT !.adding = ~@], layouts, cameras) /\ UNCHANGED stored
handleAddFreeformCamera(k) ==
    /\ OnCanvas /\ grid.adding /\ k \in cameras \ grid.layout.items
    /\ Commit([grid EXCEPT !.layout.items = @ \cup {k}, !.adding = FALSE], layouts, cameras)
    /\ UNCHANGED stored
ToggleEditing ==
    /\ OnCanvas /\ Commit([grid EXCEPT !.editing = ~@], layouts, cameras) /\ UNCHANGED stored

(* A tile is taken by its handle; the pointer is captured until it is let go. *)
onDragStart ==
    /\ OnCanvas /\ grid.editing /\ grid.layout.items \cap cameras # {}
    /\ grid' = [grid EXCEPT !.hand = "drag"] /\ UNCHANGED <<layouts, stored, reported>>
onResizeStart ==
    /\ OnCanvas /\ grid.editing /\ grid.layout.items \cap cameras # {}
    /\ grid' = [grid EXCEPT !.hand = "resize"] /\ UNCHANGED <<layouts, stored, reported>>
onDragEnd ==
    /\ grid.mounted /\ grid.hand = "drag"
    /\ Commit([grid EXCEPT !.hand = "none"], layouts, cameras) /\ UNCHANGED <<cameras, stored>>
onResizeEnd ==
    /\ grid.mounted /\ grid.hand = "resize"
    /\ Commit([grid EXCEPT !.hand = "none"], layouts, cameras) /\ UNCHANGED <<cameras, stored>>

-----------------------------------------------------------------------------
GridInit ==
    /\ cameras = {} /\ layouts = [n \in {} |-> Unloaded.layout] /\ stored = Nobody
    /\ grid = [Unloaded EXCEPT !.mounted = TRUE] /\ reported = {}

GridStep ==
    \/ GridMounts \/ GridUnmounts \/ CamerasChange
    \/ \E c \in Cells : TogglePicker(c) \/ \E k \in Cams \cup {Nobody} : handleAssignCamera(c, k)
    \/ ClickOutside \/ NewLayout \/ handleConvertLayout
    \/ \E p \in Presets : handleStaticPresetChange(p)
    \/ \E n \in Names, mode \in {"static", "freeform"}, p \in Presets : handleCreateLayout(n, mode, p)
    \/ \E n \in Names : handleLoadLayout(n) \/ handleDeleteLayout(n)
    \/ ToggleAdding \/ ToggleEditing \/ \E k \in Cams : handleAddFreeformCamera(k)
    \/ onDragStart \/ onResizeStart \/ onDragEnd \/ onResizeEnd

(* What is on the wall is what a reload would show: mode, cells and cameras of *)
(* the active layout are always in storage, through conversion, deletion, a    *)
(* replaced name and a changing list of cameras.                               *)
ShownIsStored ==
    grid.mounted /\ grid.active # Nobody =>
        /\ stored = grid.active
        /\ LET saved == layouts[grid.active]
           IN /\ saved.mode = grid.layout.mode
              /\ saved.slots = grid.layout.slots /\ saved.items = grid.layout.items

(* A conversion keeps every camera on the wall as long as a preset has room    *)
(* for them all.                                                               *)
ConversionKeepsCameras ==
    [][(/\ grid.active # Nobody /\ grid'.active = grid.active /\ grid'.layout.mode # grid.layout.mode
        /\ Cardinality(Visible(grid, cameras)) <= Max(Presets))
        => Visible(grid, cameras) \subseteq Visible(grid', cameras')]_gridVars
==============================================================================
