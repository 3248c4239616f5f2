---------------------------- MODULE ModelEdits ----------------------------
(***************************************************************************)
(* The edits of the open model and their undo history (projectStore.ts):   *)
(* parts, subsystems, wires, data-bus links, ports, cases and overrides,   *)
(* copy and paste, and what of the model the window shows.                 *)
(*                                                                         *)
(* A part or a case is a number, a later one made later, so that the order *)
(* of an array is the order of its numbers.  The system a container opens  *)
(* has the container's number; Root is the top system.  A link is a set of *)
(* two ends <<part, port>>.  Of a part's label, parameters, table policies *)
(* and places only one field is kept; sizes and positions are left out.    *)
(***************************************************************************)
EXTENDS Integers, Sequences, FiniteSets, SequencesExt

CONSTANTS
  Starts,        (* Models the window may open with.                      *)
  HISTORY_LIMIT, (* Steps that can be undone.                             *)
  Values,        (* Values of a field.                                    *)
  StudyIds,      (* Studies a sweep may add.                              *)
  PortIds,       (* Names of the ports of scripts.                        *)
  FirstNew,      (* A number above those of the parts of Starts.           *)
  None,
  MaxEdits,      (* Bound: calls that edit, undo or redo.                 *)
  MaxPicked,     (* Bound: parts selected at once.                        *)
  MaxLooks,      (* Bound: selections, copies, systems and cases shown.   *)
  MaxSteps       (* Bound: the two together.                              *)

ASSUME LimitAssumption == {HISTORY_LIMIT, FirstNew} \subseteq Nat \ {0} /\ None \notin Nat
ASSUME BoundsAssumption == {MaxEdits, MaxPicked, MaxLooks, MaxSteps} \subseteq Nat

VARIABLES
  project,
  past, future,   \* models to undo to, oldest first; to redo to, next first
  lastEdit,       \* the field edited last, None when the burst is over
  activeSystemId, selectedElementId, activeCaseId,
  clipboard,
  next,           \* a number no part has had
  edits, looks    \* counters for the bounds

shown == <<activeSystemId, selectedElementId, activeCaseId>>
history == <<past, future, lastEdit>>
vars == <<project, history, shown, clipboard, next, edits, looks>>

Root == 0
Container == "container.system"
Els(p) == DOMAIN p.els
Systems(p) == DOMAIN p.parent
In(p, s) == {e \in Els(p) : p.els[e].home = s}
Cases(p) == ToSet(p.cases)

-----------------------------------------------------------------------------
(* Ports and links.                                                         *)

\* The ports of the library: a part has a shaft and two signals, a script (or a
\* monitor) only the ports it is given, a container none.
Static(def) ==
    IF def = "part"
    THEN {[id |-> "shaft", kind |-> "mechanical", dir |-> "both"],
          [id |-> "in", kind |-> "signal", dir |-> "input"],
          [id |-> "out", kind |-> "signal", dir |-> "output"]}
    ELSE {}

PortsOf(p, e) == Static(p.els[e].def) \cup p.els[e].dyn
Ends(p) == UNION {{<<e, port.id>> : port \in PortsOf(p, e)} : e \in Els(p)}
Port(p, end) == CHOOSE port \in PortsOf(p, end[1]) : port.id = end[2]
Touches(link, S) == \E end \in link : end[1] \in S
Within(links, S) == {link \in links : \A end \in link : end[1] \in S}

\* The outputs that feed an input, through the data bus or a wire.
SourcesOf(p, end) ==
    {src \in UNION {l \ {end} : l \in {k \in p.bus \cup p.wires : end \in k}} :
        Port(p, src).dir = "output"}

-----------------------------------------------------------------------------
(* A model the engine can read.  The window opens with one.                 *)

DynamicPort == [id : PortIds, kind : {"signal"}, dir : {"input", "output"}]
PartRecord == [def : {"part", "script", Container}, home : Nat, val : Values \cup {0},
               dyn : SUBSET DynamicPort]

\* Parts with numbers below n, each port with a name of its own; links of two ends.
PartsType(p, n) ==
    /\ p.els \in [Els(p) -> PartRecord] /\ Els(p) \subseteq 1..(n - 1)
    /\ \A e \in Els(p) :
         /\ p.els[e].dyn # {} => p.els[e].def = "script"
         /\ \A x, y \in p.els[e].dyn : x.id = y.id => x = y
LinksType(p) == \A l \in p.wires \cup p.bus : \E a, b \in Ends(p) : l = {a, b}

ModelType(p, n) ==
    /\ DOMAIN p = {"els", "parent", "wires", "bus", "cases", "over", "studies"}
    /\ PartsType(p, n) /\ LinksType(p)
    /\ p.parent \in [Systems(p) -> Nat \cup {None}]
    /\ p.cases \in Seq(1..(n - 1)) /\ IsInjective(p.cases)
    /\ DOMAIN p.over = Cases(p) /\ p.studies \subseteq StudyIds

\* Every system but the top one belongs to one container, which is in the
\* system above it, and every part is in a system that exists.
SystemsOwned(p) ==
    /\ Systems(p) = {Root} \cup {e \in Els(p) : p.els[e].def = Container}
    /\ p.parent[Root] = None
    /\ \A s \in Systems(p) \ {Root} : p.parent[s] = p.els[s].home
    /\ \A e \in Els(p) : p.els[e].home \in Systems(p) \cap 0..(e - 1)

\* A wire joins two ports of one kind in one system, a data-bus link two signals.
LinksHold(p) ==
    /\ \A w \in p.wires : \A a, b \in w :
         Port(p, a).kind = Port(p, b).kind /\ p.els[a[1]].home = p.els[b[1]].home
    /\ \A l \in p.bus : \A end \in l : Port(p, end).kind = "signal"

\* An input takes one signal: the engine would silently keep only the last
\* link (projectStore.ts:1162).
OneSource(p) ==
    \A end \in Ends(p) :
        Port(p, end).dir = "input" => \A x, y \in SourcesOf(p, end) : x = y

Readable(p) == SystemsOwned(p) /\ LinksHold(p) /\ OneSource(p) /\ p.cases # <<>>

ASSUME StartsAssumption == \A p \in Starts : ModelType(p, FirstNew) /\ Readable(p)

-----------------------------------------------------------------------------
(* The undo history.                                                        *)

Pushed(s, p) ==
    IF Len(s) < HISTORY_LIMIT THEN Append(s, p) ELSE Append(Tail(s), p)
Record == past' = Pushed(past, project) /\ future' = <<>>

\* updateProject with history: an edit of the field edited last, soon after
\* it, joins the entry of the first.  The clock is left open.
Edit == /\ edits < MaxEdits /\ edits + looks < MaxSteps
        /\ edits' = edits + 1 /\ UNCHANGED looks
Look == /\ looks < MaxLooks /\ edits + looks < MaxSteps
        /\ looks' = looks + 1
        /\ UNCHANGED <<project, history, next, edits>>

Update(p, field) ==
    /\ Edit
    /\ project' = p
    /\ lastEdit' = field
    /\ \/ Record
       \/ field # None /\ lastEdit = field /\ UNCHANGED <<past, future>>

Quiet(p) ==  \* updateProject without history
    /\ Edit
    /\ project' = p
    /\ UNCHANGED history

-----------------------------------------------------------------------------
(* Parts.                                                                   *)

NewPart(def, home) == [def |-> def, home |-> home, dyn |-> {}, val |-> 0]

WithPart(p, id, part, s) ==
    [p EXCEPT !.els = [e \in DOMAIN @ \cup {id} |-> IF e = id THEN part ELSE @[e]],
              !.parent = IF part.def # Container THEN @
                         ELSE [t \in DOMAIN @ \cup {id} |->
                                  IF t = id THEN s ELSE @[t]]]

\* In a system that is gone nothing is added, but a step is recorded and the
\* part that was not added is selected.
AddElement(def) ==
    LET s == activeSystemId IN
    /\ Update(IF s \in Systems(project)
              THEN WithPart(project, next, NewPart(def, s), s)
              ELSE project, None)
    /\ selectedElementId' = next
    /\ next' = next + 1
    /\ UNCHANGED <<activeSystemId, activeCaseId, clipboard>>

\* beginHistory at the start of a drag, then the positions, which are left out.
Drag ==
    /\ Edit
    /\ Record
    /\ lastEdit' = None
    /\ UNCHANGED <<project, shown, clipboard, next>>

\* renameElement, setParameter and setTableOutside join a burst.
WithValue(p, e, v) == [p EXCEPT !.els[e].val = v]
EditElement(e, v) ==
    Update(WithValue(project, e, v), <<"part", e>>) /\ UNCHANGED <<shown, clipboard, next>>

\* A pin of the part, moved with Shift held: a step is recorded when it is pressed
\* and another, of the same model, when it is let go.
MovePin(e, v) ==
    /\ Edit
    /\ project' = WithValue(project, e, v)
    /\ past' = Pushed(Pushed(past, project), project) /\ future' = <<>>
    /\ lastEdit' = None
    /\ UNCHANGED <<shown, clipboard, next>>

\* The systems under a system, itself included.  A child has a higher number.
Tree(p, s) ==
    LET under[t \in Systems(p) \cup {s}] ==
          t = s \/ (t > s /\ p.parent[t] # None /\ under[p.parent[t]])
    IN {t \in Systems(p) : under[t]}
Inside(p, s) == {e \in Els(p) : p.els[e].home \in Tree(p, s)}

Without(p, ids, links) ==
    LET opened == ids \cap Systems(p)
        gone == ids \cup UNION {Inside(p, s) : s \in opened}
        closed == UNION {Tree(p, s) : s \in opened}
        Left(S) == {l \in S : l \notin links /\ ~Touches(l, gone)}
    IN [p EXCEPT !.els = [e \in DOMAIN @ \ gone |-> @[e]],
                 !.parent = [s \in DOMAIN @ \ closed |-> @[s]],
                 !.wires = Left(@), !.bus = Left(@)]

ShownAfter(p, s) == IF s \in Systems(p) THEN s ELSE Root

RemoveElements(ids, links) ==
    LET p == Without(project, ids, links) IN
    /\ ids # {} \/ links # {}
    /\ Update(p, None)
    /\ selectedElementId' = IF selectedElementId \in ids THEN None
                            ELSE selectedElementId
    /\ activeSystemId' = ShownAfter(p, activeSystemId)
    /\ UNCHANGED <<activeCaseId, clipboard, next>>

-----------------------------------------------------------------------------
(* Copies.                                                                  *)

Selection(p, s, ids) ==
    [els |-> [e \in ids \cap In(p, s) |-> p.els[e]],
     wires |-> Within(p.wires, ids), bus |-> Within(p.bus, ids)]

Renumbered(link, id) == {<<id[end[1]], end[2]>> : end \in link}
MutantCopies(links, id) ==
    {{<<IF end[1] \in DOMAIN id THEN id[end[1]] ELSE end[1], end[2]>> : end \in l} :
        l \in {k \in links : Touches(k, DOMAIN id)}}
Copies(links, id) == {Renumbered(l, id) : l \in Within(links, DOMAIN id)}

\* One part of the clipboard, with the systems under it as they are now: the
\* copy of part x gets number n + x.  Parts copied before it may be among them.
\* Links are copied where both ends are in one system, as in the code.
PasteOne(acc, e, part, target) ==
    LET p == acc.p
        n == acc.next
        sub == IF e \in Systems(p) THEN Tree(p, e) ELSE {}
        inner == {x \in Els(p) : p.els[x].home \in sub}
        New(links) == UNION {Copies(links, [x \in In(p, s) |-> n + x]) : s \in sub}
        id == inner \cup {e}
        systems == {x \in inner : p.els[x].def = Container}
                   \cup IF part.def = Container THEN {e} ELSE {}
        Home(x) == IF x = e THEN target ELSE n + p.els[x].home
    IN [p |-> [p EXCEPT
                 !.els = [y \in DOMAIN @ \cup {n + x : x \in id} |->
                    IF y \in DOMAIN @ THEN @[y]
                    ELSE [(IF y = n + e THEN part ELSE @[y - n])
                             EXCEPT !.home = Home(y - n)]],
                 !.parent = [t \in DOMAIN @ \cup {n + x : x \in systems} |->
                    IF t \in DOMAIN @ THEN @[t] ELSE Home(t - n)],
                 !.wires = @ \cup New(@), !.bus = @ \cup New(@)],
        next |-> 2 * n,
        id |-> [x \in DOMAIN acc.id \cup {e} |->
                   IF x = e THEN n + e ELSE acc.id[x]]]

CloneElementsInto(target, data) ==
    IF target \notin Systems(project)
    THEN [p |-> project, next |-> next, id |-> <<>>]
    ELSE LET upTo[e \in 0..(next - 1)] ==
               IF e = 0 THEN [p |-> project, next |-> next, id |-> <<>>]
               ELSE IF e \in DOMAIN data.els
                    THEN PasteOne(upTo[e - 1], e, data.els[e], target)
                    ELSE upTo[e - 1]
             all == upTo[next - 1]
         IN [all EXCEPT !.p.wires = @ \cup Copies(data.wires, all.id),
                        !.p.bus = @ \cup Copies(data.bus, all.id)]

Insert(data) ==
    LET all == CloneElementsInto(activeSystemId, data)
        copied == DOMAIN all.id
    IN /\ Update(all.p, None)
       /\ next' = all.next
       /\ selectedElementId' =
            IF copied = {} THEN selectedElementId
            ELSE all.id[CHOOSE e \in copied : \A x \in copied : x <= e]
       /\ UNCHANGED <<activeSystemId, activeCaseId, clipboard>>

CopyElements(ids) ==
    /\ ids # {}
    /\ clipboard' = Selection(project, activeSystemId, ids)
    /\ Look
    /\ UNCHANGED shown

DuplicateElements(ids) ==
    ids # {} /\ Insert(Selection(project, activeSystemId, ids))

PasteClipboard ==
    clipboard # None /\ DOMAIN clipboard.els # {} /\ Insert(clipboard)

-----------------------------------------------------------------------------
(* Links and ports.                                                         *)

MutantMayLink(p, a, b) ==
    /\ Port(p, a).kind = "signal" /\ Port(p, b).kind = "signal"
    /\ {a, b} \notin p.bus
MayLink(p, a, b) ==
    LET input == {end \in {a, b} : Port(p, end).dir # "output"} IN
    /\ Port(p, a).kind = "signal" /\ Port(p, b).kind = "signal"
    /\ {a, b} \notin p.bus
    \* one input and one output: the input may have no source yet
    /\ Cardinality(input) = 1 => \A end \in input : SourcesOf(p, end) = {}

AddDataBus(a, b) ==
    /\ MayLink(project, a, b)
    /\ Update([project EXCEPT !.bus = @ \cup {{a, b}}], None)
    /\ UNCHANGED <<shown, clipboard, next>>

\* A wire drawn on the canvas, or an end of one moved: then the old wire goes.
\* The ports looked up are those of the library.  A signal goes to the data bus.
AddConnection(a, b, old) ==
    /\ \A end \in {a, b} : \E port \in Static(project.els[end[1]].def) : port.id = end[2]
    /\ Port(project, a).kind = Port(project, b).kind
    /\ \/ Port(project, a).kind = "signal" /\ AddDataBus(a, b)
       \/ /\ Port(project, a).kind # "signal"
          /\ {a, b} \notin project.wires \ old
          /\ Update([project EXCEPT !.wires = (@ \ old) \cup {{a, b}}], None)
          /\ UNCHANGED <<shown, clipboard, next>>

RemoveDataBus(l) ==
    /\ Update([project EXCEPT !.bus = @ \ {l}], None)
    /\ UNCHANGED <<shown, clipboard, next>>

\* The ports of a script: one is added, removed or renamed.
PortEdits(dyn) ==
    LET ids == {port.id : port \in dyn} IN
    {dyn \cup {[id |-> i, kind |-> "signal", dir |-> d]} :
        i \in PortIds \ ids, d \in {"input", "output"}}
    \cup {dyn \ {port} : port \in dyn}
    \cup {(dyn \ {port}) \cup {[port EXCEPT !.id = i]} :
            port \in dyn, i \in PortIds \ ids}

WithPorts(p, e, dyn) ==
    LET q == [p EXCEPT !.els[e].dyn = dyn]
        Left(S) == {l \in S : l \subseteq Ends(q)}
    IN [q EXCEPT !.wires = Left(@), !.bus = Left(@)]

SetDynamicPorts(e, dyn) ==
    Update(WithPorts(project, e, dyn), None) /\ UNCHANGED <<shown, clipboard, next>>

\* The name of the project; it is left out, but not the step to undo.
RenameSystem ==
    Update(project, <<"system", Root>>) /\ UNCHANGED <<shown, clipboard, next>>

-----------------------------------------------------------------------------
(* Cases and studies.  Numbers of cases come from the same counter.         *)

WithCase(p, i, c, over) ==
    [p EXCEPT !.cases = InsertAt(@, i, c),
              !.over = [d \in DOMAIN @ \cup {c} |-> IF d = c THEN over ELSE @[d]]]

AddCase ==
    /\ Update(WithCase(project, Len(project.cases) + 1, next, <<>>), None)
    /\ activeCaseId' = next
    /\ next' = next + 1
    /\ UNCHANGED <<activeSystemId, selectedElementId, clipboard>>

\* The tabs hand on the active case.  Undo may have taken it away: then nothing is
\* copied, but a step is recorded and a case that is not there becomes active.
DuplicateCase(c) ==
    /\ Update(IF c \notin Cases(project) THEN project
              ELSE WithCase(project, 1 + CHOOSE i \in DOMAIN project.cases : project.cases[i] = c,
                            next, project.over[c]), None)
    /\ activeCaseId' = next
    /\ next' = next + 1
    /\ UNCHANGED <<activeSystemId, selectedElementId, clipboard>>

MutantCaseAfter(p, c) == activeCaseId
CaseAfter(p, c) == IF activeCaseId = c THEN p.cases[1] ELSE activeCaseId

\* The filter of removeCase; no two cases have one id.
WithoutCase(p, c) ==
    LET i == CHOOSE i \in DOMAIN p.cases : p.cases[i] = c IN
    IF c \notin Cases(p) THEN p
    ELSE [p EXCEPT !.cases = RemoveAt(@, i), !.over = [d \in DOMAIN @ \ {c} |-> @[d]]]

RemoveCase(c) ==
    LET p == WithoutCase(project, c) IN
    /\ Len(project.cases) > 1
    /\ Update(p, None)
    /\ activeCaseId' = CaseAfter(p, c)
    /\ UNCHANGED <<activeSystemId, selectedElementId, clipboard, next>>

SetActiveCase(c) ==
    /\ activeCaseId' = c
    /\ Look
    /\ UNCHANGED <<activeSystemId, selectedElementId, clipboard>>

\* Duration, step, pacing and kind of a case: left out as well.
SetCaseField(c) ==
    Update(project, <<"case", c>>) /\ UNCHANGED <<shown, clipboard, next>>

\* Overrides of a case, one field per part; they stay when the part goes.
SetCaseOverride(c, e, v) ==
    /\ Update([project EXCEPT !.over[c] =
                  [x \in DOMAIN @ \cup {e} |-> IF x = e THEN v ELSE @[x]]],
              <<"over", c, e>>)
    /\ UNCHANGED <<shown, clipboard, next>>

ClearCaseOverride(c, e) ==
    /\ Update([project EXCEPT !.over[c] = [x \in DOMAIN @ \ {e} |-> @[x]]], None)
    /\ UNCHANGED <<shown, clipboard, next>>

\* A sweep adds its table, the user removes it: not a step to undo.
SaveStudy ==
    \E s \in StudyIds \ project.studies :
        /\ Quiet([project EXCEPT !.studies = @ \cup {s}])
        /\ UNCHANGED <<shown, clipboard, next>>

RemoveStudy(s) ==
    Quiet([project EXCEPT !.studies = @ \ {s}]) /\ UNCHANGED <<shown, clipboard, next>>

-----------------------------------------------------------------------------
(* Undo, redo and what is shown.                                            *)

MutantKeepStudies(target, current) == target
KeepStudies(target, current) == [target EXCEPT !.studies = current.studies]

Undo ==
    /\ past # <<>>
    /\ Edit
    /\ project' = KeepStudies(Last(past), project)
    /\ past' = Front(past)
    /\ future' = <<project>> \o
         (IF Len(future) < HISTORY_LIMIT THEN future ELSE Front(future))
    /\ UNCHANGED <<lastEdit, shown, clipboard, next>>

Redo ==
    /\ future # <<>>
    /\ Edit
    /\ project' = KeepStudies(Head(future), project)
    /\ future' = Tail(future)
    /\ past' = Pushed(past, project)
    /\ UNCHANGED <<lastEdit, shown, clipboard, next>>

Select(e) ==
    /\ selectedElementId' = e
    /\ Look
    /\ UNCHANGED <<activeSystemId, activeCaseId, clipboard>>

SetActiveSystem(s) ==
    /\ activeSystemId' = s
    /\ selectedElementId' = None
    /\ Look
    /\ UNCHANGED <<activeCaseId, clipboard>>

\* The breadcrumb: the systems above the one shown, and itself.  Empty when the
\* system shown is gone: then only a data check, redo or a removal leads back.
Breadcrumb == {t \in Systems(project) : activeSystemId \in Tree(project, t)}

JumpTo(e) ==  \* from a data check: its system is shown
    /\ activeSystemId' = project.els[e].home /\ selectedElementId' = e
    /\ Look
    /\ UNCHANGED <<activeCaseId, clipboard>>

-----------------------------------------------------------------------------
Init ==
    /\ project \in Starts
    /\ past = <<>> /\ future = <<>> /\ lastEdit = None
    /\ activeSystemId = Root /\ selectedElementId = None
    /\ activeCaseId = project.cases[1]
    /\ clipboard = None
    /\ next = FirstNew
    /\ edits = 0 /\ looks = 0

-----------------------------------------------------------------------------
(* What the panels and the tabs of the ribbon call, and with what.          *)

HomeTab ==
    \/ Undo \/ Redo
    \/ selectedElementId # None /\ RemoveElements({selectedElementId}, {})

ProjectTab == RenameSystem

ChooseCase == \E c \in Cases(project) : SetActiveCase(c)

SimulationsTab ==
    ChooseCase \/ AddCase \/ DuplicateCase(activeCaseId) \/ RemoveCase(activeCaseId)

\* Falls back to the first case when the active one is gone.
CaseOfPanel == IF activeCaseId \in Cases(project) THEN activeCaseId ELSE project.cases[1]

CaseSettings == ChooseCase \/ SetCaseField(CaseOfPanel)
CaseOverrides ==
    \/ \E e \in Els(project), v \in Values : SetCaseOverride(CaseOfPanel, e, v)
    \/ \E e \in DOMAIN project.over[CaseOfPanel] : ClearCaseOverride(CaseOfPanel, e)
SavedStudies == \E s \in project.studies : RemoveStudy(s)

ElementsPanel ==
    \E e \in In(project, activeSystemId) :
        Select(e) \/ (e \in Systems(project) /\ SetActiveSystem(e))

\* Monitors of every system; a script stands for a monitor.
MonitorsPanel == \E e \in Els(project) : project.els[e].def = "script" /\ Select(e)

\* A row of the checks; the part may be gone by now.
ChecksPanel == \E e \in Els(project) : JumpTo(e)

DataBusPanel ==
    \/ \E a, b \in Ends(project) : AddDataBus(a, b)
    \/ \E l \in project.bus : RemoveDataBus(l)

PortsEditor(e) ==
    /\ project.els[e].def = "script"
    /\ \E dyn \in PortEdits(project.els[e].dyn) : SetDynamicPorts(e, dyn)

\* In Properties for the part selected, in a dialog for the part it was opened on.
ElementForm ==
    \/ \E e \in Els(project) : PortsEditor(e) \/ \E v \in Values : EditElement(e, v)
    \/ selectedElementId \in Systems(project) /\ SetActiveSystem(selectedElementId)

Panels ==
    \/ HomeTab \/ ProjectTab \/ SimulationsTab
    \/ CaseSettings \/ CaseOverrides \/ SavedStudies \/ SaveStudy
    \/ ElementsPanel \/ MonitorsPanel \/ ChecksPanel \/ DataBusPanel \/ ElementForm

\* What is done on the canvas, with the parts of the system it shows.
Diagram ==
    LET shownParts == In(project, activeSystemId)
        picked == {S \in SUBSET shownParts : Cardinality(S) <= MaxPicked}
        shownEnds == {end \in Ends(project) : end[1] \in shownParts}
        shownWires == Within(project.wires, shownParts)
    IN \/ \E def \in {"part", "script", Container} : AddElement(def)
       \/ \E ids \in picked, links \in {{}} \cup {{w} : w \in shownWires} :
              RemoveElements(ids, links)
       \/ \E ids \in picked : CopyElements(ids) \/ DuplicateElements(ids)
       \/ PasteClipboard \/ Drag \/ \E e \in shownParts, v \in Values : MovePin(e, v)
       \/ \E a, b \in shownEnds, old \in {{}} \cup {{w} : w \in shownWires} :
              a[1] # b[1] /\ AddConnection(a, b, old)
       \/ \E s \in Breadcrumb \cup (shownParts \cap Systems(project)) : SetActiveSystem(s)

Next == Panels \/ Diagram

Spec == Init /\ [][Next]_vars

-----------------------------------------------------------------------------
(* Properties.                                                              *)

Models == {project} \cup ToSet(past) \cup ToSet(future)

\* Type correctness of the editor's state, the history and the clipboard.
TypeOK ==
    /\ Len(past) <= HISTORY_LIMIT /\ Len(future) <= HISTORY_LIMIT
    /\ \A p \in Models : ModelType(p, next)
    /\ clipboard = None \/ (PartsType(clipboard, next) /\ LinksType(clipboard))
    /\ edits \in 0..MaxEdits /\ looks \in 0..MaxLooks

\* Whatever is edited, copied, removed, undone and redone, in whatever order,
\* the model stays one the engine can read: no link to a port that is gone, no
\* system without its container, no input with two sources, at least one case.
WellFormed == TypeOK /\ Readable(project)

\* A copy stands alone: parts that paste or duplicate add are linked to one
\* another, never to a part that was there, and change no part that was there.
CopiesStandAlone ==
    [][Els(project') \subseteq Els(project) \/ Undo \/ Redo \/
       LET old == Els(project)
           new == (project'.wires \ project.wires) \cup (project'.bus \ project.bus)
       IN /\ ~\E l \in new : Touches(l, old)
          /\ project.wires \subseteq project'.wires /\ project.bus \subseteq project'.bus
          /\ old \subseteq Els(project') /\ \A e \in old : project'.els[e] = project.els[e]]_vars

\* The system and the case on screen are only taken away by undo or redo,
\* which leave them as they were; every other edit shows one that is there.
ShownStays ==
    [][\/ activeSystemId' \in Systems(project') /\ activeCaseId' \in Cases(project')
       \/ Undo \/ Redo
       \/ activeSystemId \notin Systems(project) \/ activeCaseId \notin Cases(project)]_vars

\* Undo and redo neither lose the table of a study nor bring back one that
\* was removed: only a sweep and its removal change the studies.
StudiesKept ==
    [][project'.studies # project.studies => SaveStudy \/ SavedStudies]_vars
=============================================================================
