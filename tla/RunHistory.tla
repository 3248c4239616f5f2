---------------------------- MODULE RunHistory ----------------------------
(***************************************************************************)
(* The runs the editor lists (projectStore.ts): one run or a sweep in      *)
(* progress (run, runSweep, executeRun, storeRun), the load of the stored  *)
(* runs (loadRunHistory), their removal (removeRun, clearRuns), and the    *)
(* runs shown in Results, while the project may be replaced at any await.  *)
(* The engine's store is a set of runs; RunStore says how it keeps them.   *)
(* A run is a number, a later one started later; lists are newest first,   *)
(* so a list is a set here.  A replacement of the project starts at its    *)
(* answer; EditorSession has what comes before.                            *)
(***************************************************************************)
EXTENDS Integers, Sequences, FiniteSets, FiniteSetsExt, Functions

CONSTANTS
  Projects,  (* Project ids.                                              *)
  Kept,      (* Runs of the first project, stored before the window opens. *)
  MAX_RUNS,  (* Runs listed.                                              *)
  VALUES,    (* Values of a sweep.                                        *)
  None,
  MaxRuns,   (* Bound: runs, the kept ones included.                      *)
  MaxCalls,  (* Bound: presses of Run or Sweep.                           *)
  MaxSwaps,  (* Bound: replacements of the project.                       *)
  MaxRemovals, (* Bound: removals and clears.                             *)
  MaxPicks   (* Bound: choices of the runs shown.                         *)

ASSUME SizesAssumption ==
    /\ Projects # {}
    /\ MAX_RUNS \in Nat \ {0} /\ VALUES \in Nat \ {0}
    /\ Kept \in 0..MaxRuns
    /\ {MaxRuns, MaxCalls, MaxSwaps, MaxRemovals, MaxPicks} \subseteq Nat
ASSUME NoneAssumption == None \notin Projects \cup Int

VARIABLES
  project,   \* the open project
  about,     \* per run started: its project, its call, its point, its state
  runs,      \* the runs listed
  activeRunId, overlayRunIds,
  storedRunCount, runsLoading,
  load,      \* the newest loadRunHistory; an older one's answers are dropped
  deletes,   \* the DELETE requests on their way
  question,  \* the dialog before a removal: a run, All, or None
  call,      \* run or runSweep in progress
  sweepAborted,
  disk,      \* the runs stored
  calls, swaps, removals, picks,  \* counters for the bounds
  everStored \* history: the runs that were stored at some time

shown == <<runs, activeRunId, overlayRunIds>>
list == <<shown, storedRunCount, runsLoading>>
bounds == <<calls, swaps, removals, picks>>
vars == <<project, about, list, load, deletes, question, call, sweepAborted,
          disk, bounds, everStored>>

Idle == [at |-> "idle", project |-> None, sweep |-> FALSE, point |-> 0,
         run |-> 0, rows |-> <<>>, pruned |-> {}, stored |-> 0]
All == 0  \* every run of the project

running == call.at # "idle"

Newest(S) == {r \in S : Cardinality({q \in S : q > r}) < MAX_RUNS}
NewestOf(S) == IF S = {} THEN None ELSE Max(S)
Of(p, S) == {r \in S : about[r].project = p}
Complete(S) == {r \in S : about[r].state = "complete"}

\* A complete run that is not a sweep point, before any other.
mainRunOf(S) ==
    LET main == {r \in Complete(S) : about[r].point = 0}
    IN  NewestOf(IF main = {} THEN S ELSE main)

Run(p, c, point) == [project |-> p, call |-> c, point |-> point, state |-> "running"]

Init ==
    LET first == CHOOSE p \in Projects : TRUE IN
      /\ project = first
      /\ about = [r \in 1..Kept |-> [Run(first, 0, 0) EXCEPT !.state = "complete"]]
      /\ disk = 1..Kept /\ everStored = disk
      /\ runs = Newest(1..Kept)
      /\ activeRunId = NewestOf(runs) /\ overlayRunIds = {}
      /\ storedRunCount = Kept /\ runsLoading = FALSE
      /\ load = None /\ deletes = {} /\ question = None
      /\ call = Idle /\ sweepAborted = FALSE
      /\ calls = 0 /\ swaps = 0 /\ removals = 0 /\ picks = 0

-----------------------------------------------------------------------------
(* The list *)

\* dropRuns: off the list, the chart and the overlays.
dropRuns(gone) ==
    /\ runs' = runs \ gone
    /\ activeRunId' = IF activeRunId \in gone THEN NewestOf(runs \ gone) ELSE activeRunId
    /\ overlayRunIds' = overlayRunIds \ gone

Load(p) == [project |-> p, at |-> "asked", index |-> {}, toRead |-> {},
            lead |-> None, loaded |-> {}]
loadRunHistory(p) == load' = Load(p)
MutantCurrent == load # None
Current == load # None /\ load.project = project
Shown == Newest(load.index)

\* GET /api/runs answers with what is stored at that time; it may fail.
ListRuns ==
    /\ Current /\ load.at = "asked"
    /\ \/ load' = [load EXCEPT !.at = "listed", !.index = Of(load.project, disk)]
       \/ load' = [load EXCEPT !.at = "failed"]
    /\ UNCHANGED <<project, about, list, deletes, question, call, sweepAborted, disk, bounds, everStored>>

ListFailed ==
    /\ Current /\ load.at = "failed"
    /\ runsLoading' = FALSE
    /\ load' = None
    /\ UNCHANGED <<project, about, shown, storedRunCount, deletes, question, call,
                   sweepAborted, disk, bounds, everStored>>

\* The main run is read before the others, if it is not in memory.
ListArrives ==
    /\ Current /\ load.at = "listed"
    /\ storedRunCount' = Cardinality(load.index)
    /\ runsLoading' = TRUE
    /\ LET toRead == Shown \ runs
           main == mainRunOf(Shown)
       IN  load' = [load EXCEPT !.at = "reading", !.toRead = toRead,
                                !.lead = IF main \in toRead THEN main ELSE None]
    /\ UNCHANGED <<project, about, shown, deletes, question, call, sweepAborted, disk, bounds, everStored>>

\* fetchRun: a run that is gone by now, or cannot be read, is left out.
ReadRun ==
    /\ Current /\ load.at = "reading"
    /\ \E r \in IF load.lead = None THEN load.toRead ELSE load.toRead \cap {load.lead} :
         \E loaded \in {load.loaded, load.loaded \cup ({r} \cap disk)} :
           load' = [load EXCEPT !.toRead = @ \ {r}, !.loaded = loaded]
    /\ UNCHANGED <<project, about, list, deletes, question, call, sweepAborted, disk, bounds, everStored>>

\* merge: the runs stored, with those in memory that are not.
MutantMerged == Newest(Shown \cap (runs \cup load.loaded))
MutantMergedLive ==
    Newest({r \in runs : about[r].state = "running"} \cup (Shown \cap (runs \cup load.loaded)))
Merged == Newest((runs \ load.index) \cup (Shown \cap (runs \cup load.loaded)))

merge(done) ==
    /\ Current /\ load.at = "reading"
    /\ runs' = Merged
    /\ activeRunId' = IF activeRunId \in Merged THEN activeRunId ELSE mainRunOf(Merged)
    /\ overlayRunIds' = overlayRunIds \cap Merged
    /\ runsLoading' = ~done
    /\ UNCHANGED <<project, about, storedRunCount, deletes, question, call, sweepAborted,
                   disk, bounds, everStored>>

MergeLead ==
    /\ load # None /\ load.lead # None /\ load.lead \notin load.toRead
    /\ merge(FALSE)
    /\ load' = [load EXCEPT !.lead = None]

MergeAll ==
    /\ load # None /\ load.lead = None /\ load.toRead = {}
    /\ merge(TRUE)
    /\ load' = None

\* An answer after the project was replaced.
Stale ==
    /\ load # None /\ ~Current
    /\ load' = None
    /\ UNCHANGED <<project, about, list, deletes, question, call, sweepAborted, disk, bounds, everStored>>

-----------------------------------------------------------------------------
(* Replacing the project *)

NothingShown ==
    /\ runs' = {} /\ activeRunId' = None /\ overlayRunIds' = {}
    /\ storedRunCount' = 0 /\ runsLoading' = FALSE

Replace ==
    /\ swaps < MaxSwaps /\ swaps' = swaps + 1
    /\ NothingShown
    /\ UNCHANGED <<about, deletes, question, call, sweepAborted, disk, calls, removals, picks, everStored>>

\* openProject, importProject
OpenProject == \E p \in Projects : Replace /\ project' = p /\ loadRunHistory(p)

\* newProject keeps a load in flight, which is not current any more; an
\* example or a copy gives it up.
NewProject ==
    /\ \E p \in Projects \ {project} :
         /\ \A r \in DOMAIN about : about[r].project # p
         /\ project' = p
    /\ Replace
    /\ load' \in {load, None}

-----------------------------------------------------------------------------
(* Removing runs.  The buttons are disabled during a run; Ctrl+Enter starts  *)
(* one behind the dialog.                                                    *)

Ask ==
    /\ question = None /\ ~running
    /\ removals < MaxRemovals /\ removals' = removals + 1
    /\ \/ activeRunId \in runs /\ question' = activeRunId
       \/ runs # {} /\ question' = All
    /\ UNCHANGED <<project, about, list, load, deletes, call, sweepAborted, disk,
                   calls, swaps, picks, everStored>>

KeepRuns ==  \* Cancel
    /\ question # None /\ question' = None
    /\ UNCHANGED <<project, about, list, load, deletes, call, sweepAborted, disk, bounds,
                   everStored>>

\* A load in flight must not list the runs again.
GiveUpLoad == load' = None

Delete(gone) ==
    /\ question' = None
    /\ GiveUpLoad
    /\ deletes' = deletes \cup {[project |-> project, run |-> gone, at |-> "sent", stored |-> 0]}
    /\ UNCHANGED <<project, about, call, sweepAborted, disk, bounds, everStored>>

removeRun ==
    /\ question \in Int \ {All}
    /\ dropRuns({question})
    /\ Delete(question)
    /\ UNCHANGED <<storedRunCount, runsLoading>>

clearRuns ==
    /\ question = All
    /\ NothingShown
    /\ Delete(All)

\* The engine deletes one run, or every run of the project.  An error is that it
\* failed, that the run was not stored (404), or that its answer was lost.
DeleteStored ==
    \E d \in deletes :
      LET gone == Of(d.project, disk) \cap IF d.run = All THEN disk ELSE {d.run}
          left == disk \ gone
          Answer(at, stored) ==
            deletes' = (deletes \ {d}) \cup {[d EXCEPT !.at = at, !.stored = stored]}
      IN  /\ d.at = "sent"
          /\ \/ /\ d.run = All \/ gone # {}
                /\ disk' = left /\ Answer("deleted", Cardinality(Of(d.project, left)))
             \/ disk' \in {disk, left} /\ Answer("failed", 0)
          /\ UNCHANGED <<project, about, list, load, question, call, sweepAborted, bounds,
                         everStored>>

\* The next older run is listed, or what was not deleted is put back.
DeleteAnswered ==
    \E d \in deletes :
      /\ d.at # "sent"
      /\ deletes' = deletes \ {d}
      /\ storedRunCount' = IF d.run # All /\ d.at = "deleted" /\ project = d.project
                           THEN d.stored ELSE storedRunCount
      /\ IF d.run # All \/ d.at = "failed" THEN loadRunHistory(d.project) ELSE UNCHANGED load
      /\ UNCHANGED <<project, about, shown, runsLoading, question, call, sweepAborted, disk,
                     bounds, everStored>>

-----------------------------------------------------------------------------
(* A run, or a sweep *)

Press(sweep) ==
    /\ ~running
    /\ calls < MaxCalls /\ calls' = calls + 1
    /\ Len(about) + (IF sweep THEN VALUES ELSE 1) <= MaxRuns
    /\ call' = [Idle EXCEPT !.at = "gate", !.project = project, !.sweep = sweep]
    /\ UNCHANGED <<project, about, runs, activeRunId, storedRunCount, runsLoading, load,
                   deletes, question, sweepAborted, disk, swaps, removals, picks, everStored>>

PressRun == Press(FALSE) /\ overlayRunIds' = {}
RunSweep == Press(TRUE) /\ UNCHANGED overlayRunIds

\* passesRunGate
Gate ==
    /\ call.at = "gate"
    /\ \/ call' = Idle /\ UNCHANGED sweepAborted
       \/ /\ call' = [call EXCEPT !.at = "next"]
          /\ sweepAborted' = IF call.sweep THEN FALSE ELSE sweepAborted
    /\ UNCHANGED <<project, about, list, load, deletes, question, disk, bounds, everStored>>

StopRun ==
    /\ running /\ ~sweepAborted
    /\ sweepAborted' = TRUE
    /\ UNCHANGED <<project, about, list, load, deletes, question, call, disk, bounds, everStored>>

MorePoints == IF call.sweep THEN call.point < VALUES /\ ~sweepAborted ELSE call.point = 0

\* executeRun: the run is listed first, and shown.
Listed(r) == Newest(runs \cup {r})

StartPoint ==
    /\ call.at = "next" /\ MorePoints
    /\ LET r == Len(about) + 1
           point == call.point + 1
       IN  /\ about' = Append(about, Run(call.project, calls, IF call.sweep THEN point ELSE 0))
           /\ runs' = Listed(r)
           /\ activeRunId' = r
           /\ call' = [call EXCEPT !.at = "live", !.point = point, !.run = r]
    /\ UNCHANGED <<project, overlayRunIds, storedRunCount, runsLoading, load, deletes,
                   question, sweepAborted, disk, bounds, everStored>>

\* The result is there, and the model's fingerprint.
PointEnds ==
    /\ call.at = "live"
    /\ \E state \in {"complete", "incomplete"} : about' = [about EXCEPT ![call.run].state = state]
    /\ activeRunId' = call.run
    /\ call' = [call EXCEPT !.at = "storing"]
    /\ UNCHANGED <<project, runs, overlayRunIds, storedRunCount, runsLoading, load, deletes,
                   question, sweepAborted, disk, bounds, everStored>>

\* This point's run: the newest of the sweep that has no row yet.
PointRun(listed) == NewestOf({r \in listed : about[r].call = calls} \ Range(call.rows))

MutantTabled(listed) == call' = [call EXCEPT !.at = "storing"]
Tabled(listed) ==
    call' = [call EXCEPT !.at = "next", !.pruned = {}, !.rows = Append(@, PointRun(listed))]

\* The connection drops: what arrived is stored, if the run is still listed.
PointLost ==
    /\ call.at = "live"
    /\ about' = [about EXCEPT ![call.run].state = "incomplete"]
    /\ IF call.run \in runs THEN call' = [call EXCEPT !.at = "storing"] ELSE Tabled(runs)
    /\ UNCHANGED <<project, list, load, deletes, question, sweepAborted, disk, bounds, everStored>>

\* PUT /api/runs: the engine may prune the oldest of the project, which it tells,
\* and runs of others; or fail.
StoreRun ==
    /\ call.at = "storing"
    /\ LET own == Of(call.project, disk)
       IN  \E last \in own \cup {0}, others \in SUBSET (disk \ own) :
           LET pruned == {r \in own : r <= last} IN
             /\ disk' = (disk \cup {call.run}) \ (pruned \cup others)
             /\ call' = [call EXCEPT !.at = "stored", !.pruned = pruned,
                            !.stored = Cardinality(Of(call.project, disk'))]
    /\ everStored' = everStored \cup {call.run}
    /\ UNCHANGED <<project, about, list, load, deletes, question, sweepAborted, bounds>>

StoreAnswered ==
    /\ call.at = "stored"
    /\ IF project = call.project
       THEN dropRuns(call.pruned) /\ storedRunCount' = call.stored
       ELSE UNCHANGED <<shown, storedRunCount>>
    /\ Tabled(runs')
    /\ UNCHANGED <<project, about, runsLoading, load, deletes, question, sweepAborted,
                   disk, bounds, everStored>>

\* It fails, or its answer is lost: the run stays listed, for this session only.
StoreFails ==
    /\ call.at \in {"storing", "stored"}
    /\ Tabled(runs)
    /\ UNCHANGED <<project, about, list, load, deletes, question, sweepAborted, disk, bounds, everStored>>

\* The whole family is shown: the lowest value first, the others over it.
CallEnds ==
    /\ call.at = "next" /\ ~MorePoints
    /\ call' = Idle
    /\ LET family == {r \in runs : about[r].call = calls}
           chart == IF Complete(family) # {} THEN Complete(family)
                    ELSE {r \in family : \A q \in family : about[r].point <= about[q].point}
           first == CHOOSE r \in chart : \A q \in chart : about[r].point <= about[q].point
       IN  IF call.sweep /\ family # {}
           THEN activeRunId' = first /\ overlayRunIds' = chart \ {first}
           ELSE UNCHANGED <<activeRunId, overlayRunIds>>
    /\ UNCHANGED <<project, about, runs, storedRunCount, runsLoading, load, deletes, question,
                   sweepAborted, disk, bounds, everStored>>

-----------------------------------------------------------------------------
(* Results *)

Pick ==
    /\ picks < MaxPicks /\ picks' = picks + 1
    /\ UNCHANGED <<project, about, runs, storedRunCount, runsLoading, load, deletes, question,
                   call, sweepAborted, disk, calls, swaps, removals, everStored>>

setActiveRun ==
    /\ \E r \in runs : activeRunId' = r /\ overlayRunIds' = overlayRunIds \ {r}
    /\ Pick

toggleOverlayRun ==
    /\ \E r \in runs \ {activeRunId} :
         overlayRunIds' = SymDiff(overlayRunIds, {r})
    /\ Pick
    /\ UNCHANGED activeRunId

Sibling(r, q) == about[r].call = about[q].call /\ about[r].point > 0

\* "Overlay family" in Results, and "Clear".
setOverlayRuns ==
    /\ overlayRunIds' \in {{}} \cup {{r \in Complete(runs) \ {a} : Sibling(r, a)} : a \in runs \cap {activeRunId}}
    /\ Pick
    /\ UNCHANGED activeRunId
-----------------------------------------------------------------------------
Loads == ListRuns \/ ListFailed \/ ListArrives \/ ReadRun \/ MergeLead \/ MergeAll \/ Stale
Removes == Ask \/ KeepRuns \/ removeRun \/ clearRuns \/ DeleteStored \/ DeleteAnswered
Proceeds == Gate \/ StartPoint \/ PointEnds \/ PointLost \/ StoreRun \/ StoreAnswered
            \/ StoreFails \/ CallEnds

Next ==
    \/ Loads
    \/ OpenProject \/ NewProject
    \/ Removes
    \/ PressRun \/ RunSweep \/ StopRun \/ Proceeds
    \/ setActiveRun \/ toggleOverlayRun \/ setOverlayRuns

\* A solve, and every request of a call, ends: LiveRun has the first, and the
\* browser settles a request with an answer or an error.
Spec == Init /\ [][Next]_vars /\ WF_vars(Proceeds) /\ WF_vars(Loads) /\ WF_vars(DeleteStored \/ DeleteAnswered)

-----------------------------------------------------------------------------
(* Properties *)

Info == [project: Projects, call: 0..MaxCalls, point: 0..VALUES,
         state: {"running", "complete", "incomplete"}]

ListOK ==
    /\ runs \subseteq DOMAIN about /\ Cardinality(runs) <= MAX_RUNS
    /\ activeRunId \in DOMAIN about \cup {None} /\ overlayRunIds \subseteq DOMAIN about
    /\ storedRunCount \in Nat /\ runsLoading \in BOOLEAN

LoadOK ==
    load \in [project: Projects, at: {"asked", "listed", "failed", "reading"},
              index: SUBSET everStored, toRead: SUBSET everStored,
              lead: everStored \cup {None}, loaded: SUBSET everStored] \cup {None}

RemovalsOK ==
    /\ deletes \subseteq [project: Projects, run: DOMAIN about \cup {All},
                          at: {"sent", "deleted", "failed"}, stored: Nat]
    /\ question \in DOMAIN about \cup {All, None}

CallOK ==
    /\ call \in [at: {"idle", "gate", "next", "live", "storing", "stored"},
                  project: Projects \cup {None}, sweep: BOOLEAN, point: 0..VALUES,
                  run: DOMAIN about \cup {0}, rows: Seq(DOMAIN about \cup {None}),
                  pruned: SUBSET everStored, stored: Nat]
    /\ sweepAborted \in BOOLEAN

\* Also: no more than MAX_RUNS runs are listed, and what is listed, shown, loaded,
\* stored or asked about is a run that was started.
TypeOK ==
    /\ project \in Projects
    /\ about \in Seq(Info)
    /\ ListOK /\ LoadOK /\ RemovalsOK /\ CallOK
    /\ disk \subseteq everStored /\ everStored \subseteq DOMAIN about
    /\ calls \in 0..MaxCalls /\ swaps \in 0..MaxSwaps
    /\ removals \in 0..MaxRemovals /\ picks \in 0..MaxPicks

\* A run in progress stays listed until the history is cleared or the project
\* replaced, also when the list is cut or a load is merged.
RunInProgressKept ==
    [][\A r \in runs \ runs' : about[r].state = "running" => runs' = {}]_vars

\* A load brings in runs of the open project alone.
LoadsOwnRuns ==
    [][\A r \in runs' \ runs :
          r \in DOMAIN about => about[r].project = project']_vars

\* A run that was never stored leaves the list only when newer ones push it out,
\* when the user removes it, or with its project.
UnstoredKept ==
    [][\A r \in runs \ (runs' \cup everStored) :
          \/ Cardinality({q \in runs' : q > r}) >= MAX_RUNS
          \/ question \in {r, All} /\ question' = None
          \/ swaps' # swaps]_vars

\* A run or a sweep ends.
CallsEnd == running ~> ~running
=============================================================================
