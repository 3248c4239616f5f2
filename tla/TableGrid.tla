------------------------------ MODULE TableGrid ------------------------------
(***************************************************************************)
(* The table editors of the Properties panel (Table1DEditor, Table2DEditor *)
(* and the SpreadsheetGrid they share): cells are selected, edited in      *)
(* place, pasted, cleared, rows and columns added and deleted, while the   *)
(* order of the rows follows their axis values.  A table maps an outer     *)
(* axis value to a map from inner axis values to values; a flat one has    *)
(* the outer value 0 only.  Its grid has a row for each inner and a column *)
(* for each outer value; row 0 and column 0 hold the axis values.          *)
(***************************************************************************)
EXTENDS Integers, Sequences, FiniteSets, SequencesExt, FiniteSetsExt

CONSTANTS
  MaxNumber,   (* Bound: numbers in tables are 0..MaxNumber.              *)
  PastedTexts, (* Bound: texts in a pasted block.                         *)
  MaxChanges,  (* Bound: changes of the table.                            *)
  MaxMoves     (* Bound: clicks and arrow keys.                           *)

Empty == -1  \* texts of a cell that are no number
Bad == -2
Numbers == 0..MaxNumber
ASSUME GridAssumption == MaxNumber \in Nat /\ PastedTexts \subseteq Numbers \cup {Empty, Bad}

VARIABLES
  flat,     \* Table1DEditor, with the axis values in column 0 only
  table,
  anchor, active,  \* the selection, which may lie outside a table that shrank
  editRef,  \* the edit in progress, or NoEdit
  input,    \* the edit whose input is on screen, or NoEdit
  changes, moves  \* counters for the bounds

gridVars == <<flat, table, anchor, active, editRef, input, changes, moves>>
NoEdit == [cell |-> <<0, 0>>, text |-> Empty]

-----------------------------------------------------------------------------
(* The grid of a table, and back.                                           *)

OuterKeys(t) == SetToSortSeq(DOMAIN t, <)
InnerKeys(t) == SetToSortSeq(UNION {DOMAIN t[o] : o \in DOMAIN t}, <)
Cells(t) == (0..Len(InnerKeys(t))) \X (0..Len(OuterKeys(t)))

gridText(t) ==
    LET outer == OuterKeys(t)
        inner == InnerKeys(t)
        Value(o, i) == IF i \in DOMAIN t[o] THEN t[o][i] ELSE Empty
    IN [cell \in (0..Len(inner)) \X (0..Len(outer)) |->
           IF cell = <<0, 0>> THEN Empty
           ELSE IF cell[1] = 0 THEN outer[cell[2]]
           ELSE IF cell[2] = 0 THEN inner[cell[1]]
           ELSE Value(outer[cell[2]], inner[cell[1]])]

RowsOf(g) == Max({cell[1] : cell \in DOMAIN g})
ColsOf(g) == Max({cell[2] : cell \in DOMAIN g})
RowAxis(g) == [r \in 1..RowsOf(g) |-> g[<<r, 0>>]]
ColAxis(g) == [c \in 1..ColsOf(g) |-> g[<<0, c>>]]

\* A row or column without an axis value gets one beyond all others.
asKeys(raw) ==
    LET top == Max({0} \cup Range(raw)) IN
    [i \in DOMAIN raw |->
        IF raw[i] \in Numbers THEN raw[i]
        ELSE top + Cardinality({j \in 1..i : raw[j] \notin Numbers})]

\* parseGrid, rebuild: the last of several values at one point stays.
parseGrid(g) ==
    LET outer == asKeys(ColAxis(g))
        inner == asKeys(RowAxis(g))
        filled == {cell \in DOMAIN g : cell[1] > 0 /\ cell[2] > 0 /\ g[cell] \in Numbers}
        At(o, i) == {cell \in filled : inner[cell[1]] = i /\ outer[cell[2]] = o}
        latest(cells) == CHOOSE x \in cells : \A y \in cells :
            y[1] < x[1] \/ (y[1] = x[1] /\ y[2] <= x[2])
    IN [o \in Range(outer) |->
           [i \in {inner[cell[1]] : cell \in {x \in filled : outer[x[2]] = o}} |->
               g[latest(At(o, i))]]]

Stored(t) == DOMAIN t \subseteq Numbers /\ Range(InnerKeys(t)) \subseteq Numbers

\* axisIssue, numberIssue: what is refused; text out of order is not.
MutantAxisRefused(keys, i, text) == text \in {Empty, Bad}
AxisRefused(keys, i, text) ==
    text \in {Empty, Bad} \/ \E j \in DOMAIN keys \ {i} : keys[j] = text

validate(cell, text) ==
    IF cell[1] = 0 THEN AxisRefused(OuterKeys(table), cell[2], text)
    ELSE IF cell[2] = 0 THEN AxisRefused(InnerKeys(table), cell[1], text)
    ELSE text = Bad \/ (flat /\ text = Empty)

isEditable(cell) ==
    cell \in Cells(table) /\ cell # <<0, 0>> /\ (flat => cell[1] # 0)

-----------------------------------------------------------------------------
onChange(t) ==
    /\ changes < MaxChanges /\ changes' = changes + 1
    /\ Stored(t) /\ table' = t
NoChange == UNCHANGED <<table, changes>>

onCommit(cell, text) == onChange(parseGrid([gridText(table) EXCEPT ![cell] = text]))

SelectOne(cell) == anchor' = cell /\ active' = cell
SelectSame == UNCHANGED <<anchor, active>>
Selected ==
    (Min({anchor[1], active[1]})..Max({anchor[1], active[1]}))
        \X (Min({anchor[2], active[2]})..Max({anchor[2], active[2]}))
ClampTo(r, c) ==
    <<Min({Len(InnerKeys(table)), Max({0, r})}), Min({Len(OuterKeys(table)), Max({0, c})})>>

\* commitEdit: the edit in progress, if any, is stored or, when its text is
\* refused, kept open; it is dropped when focus has left.
MutantEdited == input
Edited == editRef

Refused ==
    /\ gridText(table)[Edited.cell] # Edited.text
    /\ validate(Edited.cell, Edited.text)
Commit ==
    /\ editRef' = NoEdit
    /\ IF gridText(table)[Edited.cell] = Edited.text THEN NoChange
       ELSE onCommit(Edited.cell, Edited.text)
commitOnBlur ==
    IF Edited = NoEdit \/ Edited.cell \notin Cells(table) THEN UNCHANGED editRef /\ NoChange
    ELSE IF Refused THEN editRef' = NoEdit /\ NoChange
    ELSE Commit

commitByKey ==  \* Enter, Tab
    /\ editRef # NoEdit /\ input = editRef
    /\ IF Refused THEN UNCHANGED <<table, changes, anchor, active, editRef>>
       ELSE /\ Commit
            /\ \E step \in {<<1, 0>>, <<0, 1>>} :
                 SelectOne(ClampTo(editRef.cell[1] + step[1], editRef.cell[2] + step[2]))
    /\ UNCHANGED <<flat, input, moves>>

cancelEdit ==
    /\ editRef # NoEdit /\ editRef' = NoEdit
    /\ UNCHANGED <<flat, table, changes, anchor, active, input, moves>>

\* React draws the editor, or takes it away; one that had the focus loses it
\* then, and its blur handler runs.
Render ==
    /\ input # editRef
    /\ input' = editRef
    /\ IF input # NoEdit /\ editRef = NoEdit THEN commitOnBlur
       ELSE UNCHANGED editRef /\ NoChange
    /\ SelectSame /\ UNCHANGED <<flat, moves>>

\* Focus goes elsewhere, or to the grid with a click, which then selects.
FocusLeaves ==
    /\ editRef # NoEdit /\ input = editRef
    /\ commitOnBlur
    /\ SelectSame /\ UNCHANGED <<flat, input, moves>>

Moved == changes < MaxChanges /\ moves < MaxMoves /\ moves' = moves + 1
Click(cell, shift) ==
    /\ Moved
    /\ input = editRef /\ (editRef # NoEdit => editRef.cell # cell)
    /\ commitOnBlur
    /\ active' = cell /\ anchor' = IF shift THEN anchor ELSE cell
    /\ UNCHANGED <<flat, input>>

-----------------------------------------------------------------------------
(* With the focus on the grid, and no edit in progress.                     *)

Idle == editRef = NoEdit /\ input = NoEdit
IdleSame == UNCHANGED <<flat, anchor, active, editRef, input, moves>>

\* A double-click, Enter, F2 or a character; what is typed is put down at once.
startEdit(text) ==
    /\ Idle /\ isEditable(active) /\ changes < MaxChanges
    /\ editRef' = [cell |-> active, text |-> text]
    /\ NoChange /\ SelectSame /\ UNCHANGED <<flat, input, moves>>

\* Text that was refused is typed again.
Retype(text) ==
    /\ editRef # NoEdit /\ input = editRef /\ Refused
    /\ editRef' = [editRef EXCEPT !.text = text] /\ input' = editRef'
    /\ NoChange /\ SelectSame /\ UNCHANGED <<flat, moves>>

\* moveActive: also out of a place the table no longer has.
MoveActive(step, extend) ==
    LET cell == ClampTo(active[1] + step[1], active[2] + step[2]) IN
    /\ Idle /\ Moved
    /\ active' = cell /\ anchor' = IF extend THEN anchor ELSE cell
    /\ NoChange /\ UNCHANGED <<flat, editRef, input>>

PasteCell(text) ==
    /\ Idle /\ isEditable(active)
    /\ gridText(table)[active] # text /\ ~validate(active, text)
    /\ onCommit(active, text)
    /\ IdleSame

\* A flat table's block starts in row 1 at least, is cut at its two columns,
\* and adds rows that count on from the row above with the value 0; a map's
\* adds empty cells, and never writes the corner.
Pasted(block) ==
    LET g == gridText(table)
        r0 == IF flat THEN Max({1, active[1]}) ELSE active[1]
        c0 == IF flat THEN Min({1, active[2]}) ELSE active[2]
        placed == {<<r0 + at[1], c0 + at[2]>> : at \in DOMAIN block} \ {<<0, 0>>}
        lastRow == Max({RowsOf(g)} \cup {cell[1] : cell \in placed})
        lastCol == IF flat THEN 1 ELSE Max({ColsOf(g)} \cup {cell[2] : cell \in placed})
        Given(cell) == IF cell \in placed THEN block[<<cell[1] - r0, cell[2] - c0>>]
                       ELSE IF cell \in DOMAIN g THEN g[cell] ELSE Empty
        flatKey[r \in 0..lastRow] ==
            IF r <= RowsOf(g) \/ <<r, 0>> \in placed THEN Given(<<r, 0>>)
            ELSE Max({0, flatKey[r - 1]}) + 1
    IN [cell \in (0..lastRow) \X (0..lastCol) |->
           IF ~flat \/ cell \in placed \/ cell \in DOMAIN g THEN Given(cell)
           ELSE IF cell[2] = 0 THEN flatKey[cell[1]] ELSE 0]

\* Nothing is pasted when one cell of the result is refused.
AxisPasteRefused(raw, existing) ==
    \E i \in DOMAIN raw :
        \/ raw[i] = Bad \/ (raw[i] = Empty /\ i <= existing)
        \/ \E j \in 1..(i - 1) : raw[i] \in Numbers /\ raw[i] = raw[j]
PasteRefused(g) ==
    \/ AxisPasteRefused(ColAxis(g), Len(OuterKeys(table)))
    \/ AxisPasteRefused(RowAxis(g), IF flat THEN RowsOf(g) ELSE Len(InnerKeys(table)))
    \/ \E cell \in DOMAIN g : /\ cell[1] > 0 /\ cell[2] > 0
                              /\ g[cell] = Bad \/ (flat /\ g[cell] = Empty)

Blocks == UNION {[cells -> PastedTexts] : cells \in {{<<0, 0>>, <<0, 1>>}, {<<0, 0>>, <<1, 0>>}}}
PasteBlock ==
    /\ Idle /\ changes < MaxChanges
    /\ \E g \in {Pasted(block) : block \in Blocks} :
         ~PasteRefused(g) /\ onChange(parseGrid(g))
    /\ IdleSame

\* Delete: a flat table gets zeros, a map empty cells, and a row of it without
\* a value goes.  A selection below the last row of a map stops it with an error.
ClearRange ==
    LET g == gridText(table)
        body == {cell \in Selected : cell[1] > 0 /\ cell[2] > 0}
    IN /\ Idle
       /\ flat \/ \A cell \in body : cell[1] <= RowsOf(g)
       /\ onChange(parseGrid([cell \in DOMAIN g |->
              IF cell \in body THEN IF flat THEN 0 ELSE Empty ELSE g[cell]]))
       /\ IdleSame

\* Extrapolates the last step; Fallback stands for 500 and 50.
Fallback == 1
nextAxisKey(keys) ==
    IF Len(keys) = 0 THEN Fallback
    ELSE IF Len(keys) = 1 THEN keys[1] + Fallback
    ELSE 2 * keys[Len(keys)] - keys[Len(keys) - 1]

addRow ==
    LET keys == InnerKeys(table)
        new == nextAxisKey(keys)
        Value(o) == IF flat /\ keys # <<>> THEN table[o][keys[Len(keys)]] ELSE 0
    IN /\ Idle
       /\ onChange([o \in DOMAIN table |->
              [i \in DOMAIN table[o] \cup {new} |->
                  IF i = new THEN Value(o) ELSE table[o][i]]])
       /\ IdleSame

addColumn ==
    LET new == nextAxisKey(OuterKeys(table)) IN
    /\ Idle /\ ~flat
    /\ onChange([o \in DOMAIN table \cup {new} |->
           IF o = new THEN [i \in Range(InnerKeys(table)) |-> 0] ELSE table[o]])
    /\ IdleSame

\* The selected rows or columns, unless no other is left.
deleteRows ==
    LET keys == InnerKeys(table)
        drop == {keys[r] : r \in {cell[1] : cell \in Selected} \cap DOMAIN keys}
    IN /\ Idle /\ Range(keys) \ drop # {} /\ (flat \/ drop # {})
       /\ onChange([o \in DOMAIN table |->
              [i \in DOMAIN table[o] \ drop |-> table[o][i]]])
       /\ IdleSame

deleteCols ==
    LET keys == OuterKeys(table)
        keep == DOMAIN table \ {keys[c] : c \in {cell[2] : cell \in Selected} \cap DOMAIN keys}
    IN /\ Idle /\ ~flat /\ keep \notin {{}, DOMAIN table}
       /\ onChange([o \in keep |-> table[o]])
       /\ IdleSame

Steps == {<<1, 0>>, <<-1, 0>>, <<0, 1>>, <<0, -1>>}
Paste == \/ \E text \in PastedTexts : PasteCell(text)
         \/ PasteBlock

GridInit ==
    /\ flat \in BOOLEAN
    /\ table = IF flat THEN (0 :> (1 :> 0 @@ 2 :> 1)) ELSE (1 :> (1 :> 0 @@ 2 :> 1)) @@ (2 :> (2 :> 0))
    /\ anchor = <<1, 0>> /\ active = <<1, 0>>
    /\ editRef = NoEdit /\ input = NoEdit /\ changes = 0 /\ moves = 0

GridNext ==
    \/ \E cell \in Cells(table), shift \in BOOLEAN : Click(cell, shift)
    \/ \E text \in Numbers \cup {Empty, Bad} : startEdit(text) \/ Retype(text)
    \/ commitByKey \/ cancelEdit \/ Render \/ FocusLeaves
    \/ \E step \in Steps, extend \in BOOLEAN : MoveActive(step, extend)
    \/ Paste \/ ClearRange \/ addRow \/ addColumn \/ deleteRows \/ deleteCols

-----------------------------------------------------------------------------
Points(t) == UNION {{<<o, i>> : i \in DOMAIN t[o]} : o \in DOMAIN t}
PlaceOf(p) == <<CHOOSE r \in DOMAIN InnerKeys(table) : InnerKeys(table)[r] = p[2],
                CHOOSE c \in DOMAIN OuterKeys(table) : OuterKeys(table)[c] = p[1]>>
Reaches(cells, p) ==
    \E cell \in cells : cell \in {PlaceOf(p), <<PlaceOf(p)[1], 0>>, <<0, PlaceOf(p)[2]>>}

\* "Text that validate rejects is never committed ... so no value is dropped
\* silently" (SpreadsheetGrid.tsx), and an edit is committed once: whatever
\* moves or goes meanwhile, an edit changes the points of its own cell only, a
\* new axis value takes all its points along, and a paste, Delete or a deletion
\* changes what it is asked to.
GridKeepsRest ==
    [][LET edited == IF editRef = NoEdit THEN {} ELSE {editRef.cell}
           pasted == {<<active[1] + r, active[2] + c>> : r, c \in {0, 1}}
           rows == {cell[1] : cell \in Selected}
           cols == {cell[2] : cell \in Selected}
       IN /\ \A p \in Points(table) :
               \/ p \in Points(table') /\ table'[p[1]][p[2]] = table[p[1]][p[2]]
               \/ Reaches(edited, p)
               \/ ClearRange /\ PlaceOf(p) \in Selected
               \/ deleteRows /\ PlaceOf(p)[1] \in rows
               \/ deleteCols /\ PlaceOf(p)[2] \in cols
               \/ Paste /\ Reaches(pasted, p)
          /\ (\E cell \in edited : 0 \in {cell[1], cell[2]}) =>
                Cardinality(Points(table')) = Cardinality(Points(table))]_gridVars
=============================================================================
