------------------------------- MODULE Canvas -------------------------------
(***************************************************************************)
(* The diagram (TopologyCanvas.tsx) on top of the model it edits: what is  *)
(* selected on it, beside the one part the rest of the window takes as     *)
(* selected, the armed library part, the context menu and the rename       *)
(* dialog.  React Flow reports clicks on what it shows as changes of the   *)
(* selection; it reports nothing when the diagram shows another system.    *)
(* Positions, sizes, the viewport and what is only drawn are left out.     *)
(***************************************************************************)
EXTENDS ModelEdits

VARIABLES
  selectedNodes, selectedEdges,
  placing,    \* library part that the next click on the pane drops, or None
  toPlace,    \* the part such a click has put on a timer, or None
  menu,       \* context menu: a part, Pane, or None
  renaming    \* part the rename dialog was opened for, or None

selection == <<selectedNodes, selectedEdges>>
popups == <<placing, toPlace, menu, renaming>>
canvasVars == <<vars, selection, popups>>
model == <<project, history, shown, clipboard, next, edits, looks>>

Pane == 0  \* no part has this number
ShownParts == In(project, activeSystemId)
ShownWires == Within(project.wires, ShownParts)
Kinds == {"part", Container}

\* Rendering: a newly selected part that is not among the selected nodes takes
\* their place; none selected any more clears them; no change leaves them.
Follow(nodes) ==
    selectedNodes' =
        IF selectedElementId' = selectedElementId THEN nodes
        ELSE IF selectedElementId' = None THEN {}
        ELSE IF selectedElementId' \in nodes THEN nodes
        ELSE {selectedElementId'}

\* An armed part belongs to the system it was armed on.
StaysArmed == placing' = IF activeSystemId' = activeSystemId THEN placing ELSE None

-----------------------------------------------------------------------------
(* Selecting.                                                               *)

ClickPart(n) ==
    /\ n \notin selectedNodes
    /\ Select(n)
    /\ Follow((selectedNodes \ ShownParts) \cup {n})
    /\ selectedEdges' = selectedEdges \ ShownWires
    /\ UNCHANGED popups

\* Ctrl or Shift held: the part joins or leaves; the one selected last is shown
\* in Properties.
ToggleClick(n) ==
    LET nodes == IF n \in selectedNodes THEN selectedNodes \ {n}
                 ELSE selectedNodes \cup {n}
    IN /\ \E last \in IF n \in nodes THEN {n}
                      ELSE IF nodes = {} THEN {None} ELSE nodes : Select(last)
       /\ Follow(nodes)
       /\ UNCHANGED <<selectedEdges, popups>>

ClickWire(w) ==
    LET nodes == selectedNodes \ ShownParts IN
    /\ IF nodes = selectedNodes THEN UNCHANGED model
       ELSE \E last \in IF nodes = {} THEN {None} ELSE nodes : Select(last)
    /\ Follow(nodes)
    /\ selectedEdges' = (selectedEdges \ ShownWires) \cup {w}
    /\ UNCHANGED popups

\* A click beside the parts drops the armed part, or clears the selection.
PaneClick ==
    /\ menu' = None
    /\ \/ /\ placing # None /\ toPlace = None
          /\ toPlace' = placing /\ placing' = None
          /\ UNCHANGED <<model, selection, renaming>>
       \/ /\ placing = None
          /\ selectedNodes' = {} /\ selectedEdges' = {}
          /\ Select(None)
          /\ UNCHANGED <<placing, toPlace, renaming>>

SelectAll ==
    /\ menu = Pane /\ menu' = None
    /\ selectedNodes' = ShownParts
    /\ UNCHANGED <<model, selectedEdges, placing, toPlace, renaming>>

-----------------------------------------------------------------------------
(* Adding, wiring, copying.                                                 *)

Arm(def) ==  \* in the Components panel; Escape disarms
    /\ placing' = IF placing = None THEN def ELSE None
    /\ UNCHANGED <<model, selection, toPlace, menu, renaming>>

Place ==
    /\ toPlace # None /\ toPlace' = None
    /\ AddElement(toPlace)
    /\ Follow(selectedNodes)
    /\ UNCHANGED <<selectedEdges, placing, menu, renaming>>

\* Dropped on the diagram; by keyboard or double-click only into a system that
\* is there, which the drop does not ask.
Drop(def) ==
    /\ AddElement(def)
    /\ Follow(selectedNodes)
    /\ UNCHANGED <<selectedEdges, popups>>

Connect ==
    /\ \E a, b \in {end \in Ends(project) : end[1] \in ShownParts} :
       \E old \in {{}} \cup {{w} : w \in ShownWires} :
          /\ a[1] # b[1] /\ Port(project, a).kind # "signal"
          /\ AddConnection(a, b, old)
    /\ Follow(selectedNodes)
    /\ UNCHANGED <<selectedEdges, popups>>

\* Ctrl+C, Ctrl+D, Ctrl+V with the pointer over the diagram, or the menu.
FromMenu(on) == menu' = menu \/ (menu \in on /\ menu' = None)
ByMenu(on) == FromMenu(on) /\ UNCHANGED <<placing, toPlace, renaming>>

Copy ==
    /\ CopyElements(selectedNodes)
    /\ UNCHANGED selection
    /\ ByMenu(Els(project))

CopyIn ==
    /\ \/ DuplicateElements(selectedNodes) /\ ByMenu(Els(project))
       \/ PasteClipboard /\ ByMenu({Pane})
    /\ LET new == In(project', activeSystemId) \ Els(project)
       IN Follow(IF new = {} THEN selectedNodes ELSE new)
    /\ UNCHANGED selectedEdges

StartDrag ==
    /\ Drag
    /\ UNCHANGED <<selection, popups>>

-----------------------------------------------------------------------------
(* Removing.                                                                *)

\* Del or Backspace: React Flow names the selected parts and wires it shows,
\* and the wires of those parts.
DeleteKey ==
    LET parts == selectedNodes \cap ShownParts
        wires == {w \in ShownWires : w \in selectedEdges \/ Touches(w, parts)}
    IN /\ RemoveElements(parts, wires)
       /\ Follow(selectedNodes)
       /\ UNCHANGED <<selectedEdges, popups>>

\* deleteSelection: the button of the toolbar, or Delete in the menu.
DeleteSelection ==
    /\ RemoveElements(selectedNodes, selectedEdges)
    /\ selectedNodes' = {} /\ selectedEdges' = {}
    /\ FromMenu(Els(project)) /\ StaysArmed /\ UNCHANGED <<toPlace, renaming>>

-----------------------------------------------------------------------------
(* The menu, the rename dialog, and the rest of the window.                 *)

OpenMenu ==
    \/ /\ menu' = Pane
       /\ UNCHANGED <<model, selection, placing, toPlace, renaming>>
    \/ \E n \in ShownParts :
         /\ menu' = n
         /\ UNCHANGED <<selectedEdges, placing, toPlace, renaming>>
         /\ IF n \in selectedNodes THEN UNCHANGED <<model, selectedNodes>>
            ELSE Select(n) /\ selectedNodes' = {n}

AskName ==
    /\ menu \notin {None, Pane} /\ renaming = None
    /\ renaming' = menu /\ menu' = None
    /\ UNCHANGED <<model, selection, placing, toPlace>>

\* The part may be gone by then: nothing is renamed, but a step is recorded.
Rename ==
    /\ renaming # None /\ renaming' = None
    /\ \/ UNCHANGED <<model, selection>>
       \/ /\ \E v \in Values :
               IF renaming \in Els(project) THEN EditElement(renaming, v)
               ELSE Update(project, <<"part", renaming>>)
                    /\ UNCHANGED <<shown, clipboard, next>>
          /\ Follow(selectedNodes)
          /\ UNCHANGED selectedEdges
    /\ UNCHANGED <<placing, toPlace, menu>>

\* A container opened, which a first click has selected, or a step of the
\* breadcrumb; or Parameters in the menu of a container.
ShowSystem ==
    /\ \/ /\ \E s \in Breadcrumb \cup (Systems(project) \cap ShownParts \cap selectedNodes) :
                SetActiveSystem(s)
          /\ UNCHANGED menu
       \/ /\ menu \in Systems(project) \cap ShownParts /\ menu' = None
          /\ SetActiveSystem(menu)
    /\ Follow(selectedNodes)
    /\ StaysArmed
    /\ UNCHANGED <<selectedEdges, toPlace, renaming>>

Elsewhere ==
    /\ Panels \/ \E e \in ShownParts, v \in Values : MovePin(e, v)
    /\ Follow(selectedNodes) /\ StaysArmed
    /\ UNCHANGED <<selectedEdges, toPlace, menu, renaming>>

CanvasInit ==
    /\ Init
    /\ selectedNodes = {} /\ selectedEdges = {}
    /\ placing = None /\ toPlace = None /\ menu = None /\ renaming = None

CanvasNext ==
    \/ \E n \in ShownParts : ClickPart(n) \/ ToggleClick(n)
    \/ \E w \in ShownWires : ClickWire(w)
    \/ PaneClick \/ SelectAll
    \/ \E def \in Kinds : Arm(def) \/ Drop(def)
    \/ Place \/ Connect \/ Copy \/ CopyIn \/ StartDrag
    \/ DeleteKey \/ DeleteSelection
    \/ OpenMenu \/ AskName \/ Rename \/ ShowSystem \/ Elsewhere

CanvasSpec == CanvasInit /\ [][CanvasNext]_canvasVars

-----------------------------------------------------------------------------
\* "Delete selection (Del)" (TopologyCanvas.tsx:663): the button removes what
\* is selected on the diagram, as the key does, or the part that Properties
\* shows, with what is inside; no other part or wire of a system not shown.
DeletesWhatIsShown ==
    [][DeleteSelection =>
         LET opened == Systems(project) \cap {activeSystemId, selectedElementId}
             reach == {selectedElementId} \cup UNION {Inside(project, s) : s \in opened}
         IN /\ Els(project) \ Els(project') \subseteq reach
            /\ \A w \in project.wires \ project'.wires : Touches(w, reach)]_canvasVars
=============================================================================
