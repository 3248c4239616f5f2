------------------------------ MODULE RunStore ------------------------------
(***************************************************************************)
(* The stored runs of all projects (backend/app/run_store.py): a folder    *)
(* per project with a file per run and an index of them.  Each operation   *)
(* holds the module's _lock from its first read to its last write, so one  *)
(* is under way at a time (`op`); it changes several files one after the   *)
(* other, and may stop between any two: a write fails, or the process is   *)
(* killed.  Project files are saved and deleted without this lock.         *)
(***************************************************************************)
EXTENDS Integers, FiniteSets, FiniteSetsExt

CONSTANTS
  Projects,            (* Project ids.                                      *)
  RunIds,              (* Run ids.                                          *)
  Starts,              (* When a run can have been started (startedAt).     *)
  Sizes,               (* The bytes a run can take on disk.                 *)
  BUDGET_BYTES,        (* Budget of one project's runs.                     *)
  TOTAL_BUDGET_BYTES,  (* Budget of all projects' runs together.            *)
  None,                (* No operation, no run.                             *)
  MaxPuts              (* Bound: runs stored in a behaviour.                *)

ASSUME ProjectsAssumption ==
    /\ IsFiniteSet(Projects) /\ IsFiniteSet(RunIds) /\ IsFiniteSet(Starts)
    /\ Starts \subseteq Int
    /\ IsFiniteSet(Sizes) /\ Sizes \subseteq Nat \ {0}
ASSUME BudgetAssumption ==
    /\ BUDGET_BYTES \in Nat
    /\ TOTAL_BUDGET_BYTES \in Nat
    /\ MaxPuts \in Nat

\* A stored run, and its entry in an index: they have the same fields here.
Run == [id: RunIds, start: Starts, bytes: Sizes]

VARIABLES
  files,   \* [Projects -> set of [run, time]], the run files, with their mtime
  index,   \* [Projects -> set of entries], index.json; one that is missing
           \* or cannot be read counts as empty
  saved,   \* the projects that have a project file
  op,      \* the operation that holds _lock, or None
  leaving, \* projects whose file was deleted and whose runs are to be cleared
  puts,    \* runs stored so far: the mtime of the next file (bound)
  stale    \* history: [Projects -> ids whose file, still there, was replaced by
           \* a save that stopped before it wrote the index]

vars == <<files, index, saved, op, leaving, puts, stale>>

File == [run: Run, time: 1..MaxPuts]

Runs(p) == {f.run : f \in files[p]}
Ids(runs) == {r.id : r \in runs}
Bytes(runs) == MapThenSumSet(LAMBDA r : r.bytes, runs)
AllFiles == UNION {{[project |-> p, file |-> f] : f \in files[p]} : p \in Projects}
TotalBytes == MapThenSumSet(LAMBDA a : a.file.run.bytes, AllFiles)

-----------------------------------------------------------------------------
\* _load_index: the entries of an index for exactly the runs on disk.  Entries
\* without a file are dropped, files without an entry are read back in.
Loaded(p) ==
    LET kept == {e \in index[p] : e.id \in Ids(Runs(p))}
    IN  kept \cup {r \in Runs(p) : r.id \notin Ids(kept)}

\* The index is written again if that changed it.
MutantRepair(p) == UNCHANGED index
Repair(p) == index' = [index EXCEPT ![p] = Loaded(p)]

Operation ==
    [step: {"file", "prune", "trim", "deleted", "clear"},
     project: Projects,
     run: Run \cup {None},      \* the run being stored
     entries: SUBSET Run,       \* the index to be written, and answered
     pruned: SUBSET RunIds,     \* deleted to make room for the run
     unsaved: SUBSET Projects,  \* without a project file, at the sort
     folders: SUBSET Projects,  \* indexes to repair after the trim
     before: SUBSET RunIds]     \* history: the project's runs at the start

Init ==
    /\ files = [p \in Projects |-> {}]
    /\ index = [p \in Projects |-> {}]
    /\ saved \in SUBSET Projects
    /\ op = None
    /\ leaving = {}
    /\ puts = 0
    /\ stale = [p \in Projects |-> {}]

Begin(step, p, r, entries) ==
    /\ op = None
    /\ op' = [step |-> step, project |-> p, run |-> r, entries |-> entries,
              pruned |-> {}, unsaved |-> {}, folders |-> {}, before |-> Ids(Runs(p))]

At(step) == op # None /\ op.step = step

\* The operation returns, and _lock is free again.  A save answers with
\* `entries` and `pruned`.
Return == op' = None

Unlink(p, id) ==
    /\ files' = [files EXCEPT ![p] = {f \in @ : f.run.id # id}]
    /\ stale' = [stale EXCEPT ![p] = @ \ {id}]

-----------------------------------------------------------------------------
\* GET .../runs: the index is repaired first.
ListRuns(p) ==
    /\ op = None
    /\ Repair(p)
    /\ UNCHANGED <<files, saved, op, leaving, puts, stale>>

\* PUT .../runs/{id}: save_run, step by step.
SaveRun(p, r) ==
    /\ puts < MaxPuts
    /\ puts' = puts + 1
    /\ Begin("file", p, r, {e \in Loaded(p) : e.id # r.id})
    /\ Repair(p)
    /\ UNCHANGED <<files, saved, leaving, stale>>

MutantWriteRun ==
    /\ At("file")
    /\ files' = [files EXCEPT ![op.project] = @ \cup {[run |-> op.run, time |-> puts]}]
    /\ op' = [op EXCEPT !.step = "prune", !.entries = @ \cup {op.run}]
    /\ UNCHANGED <<index, saved, leaving, puts, stale>>
WriteRun ==
    /\ At("file")
    /\ LET p == op.project
           others == {f \in files[p] : f.run.id # op.run.id}
       IN  /\ files' = [files EXCEPT ![p] = others \cup {[run |-> op.run, time |-> puts]}]
           /\ stale' = IF others = files[p] THEN stale
                       ELSE [stale EXCEPT ![p] = @ \cup {op.run.id}]
    /\ op' = [op EXCEPT !.step = "prune", !.entries = @ \cup {op.run}]
    /\ UNCHANGED <<index, saved, leaving, puts>>

\* The oldest runs go until the project's runs fit its budget; never the new one.
Prunable == op.entries \ {op.run}
MutantOverBudget == Bytes(Prunable) > BUDGET_BYTES
OverBudget == Bytes(op.entries) > BUDGET_BYTES /\ Prunable # {}

PruneRun ==
    /\ At("prune")
    /\ OverBudget
    /\ \E e \in Prunable :
          /\ \A d \in Prunable : e.start <= d.start
          /\ Unlink(op.project, e.id)
          /\ op' = [op EXCEPT !.entries = @ \ {e}, !.pruned = @ \cup {e.id}]
    /\ UNCHANGED <<index, saved, leaving, puts>>

WriteIndex ==
    /\ At("prune")
    /\ ~OverBudget
    /\ index' = [index EXCEPT ![op.project] = op.entries]
    /\ stale' = [stale EXCEPT ![op.project] = @ \ {op.run.id}]
    /\ op' = [op EXCEPT !.step = "trim", !.unsaved = Projects \ saved]
    /\ UNCHANGED <<files, saved, leaving, puts>>

\* _trim_total: projects without a file first, then the oldest run files.
Trimmable == {a \in AllFiles : ~(a.project = op.project /\ a.file.run.id = op.run.id)}
GoesBefore(a, b) ==
    IF (a.project \in op.unsaved) = (b.project \in op.unsaved)
    THEN a.file.time <= b.file.time
    ELSE a.project \in op.unsaved
OverTotal == TotalBytes > TOTAL_BUDGET_BYTES /\ Trimmable # {}

\* A run of the same project is one of those the caller is told of.
MutantTold(a) == op
Told(a) ==
    IF a.project = op.project
    THEN [op EXCEPT !.entries = {e \in @ : e.id # a.file.run.id},
                    !.pruned = @ \cup {a.file.run.id}]
    ELSE op

TrimRun ==
    /\ At("trim")
    /\ OverTotal
    /\ \E a \in Trimmable :
          /\ \A b \in Trimmable : GoesBefore(a, b)
          /\ Unlink(a.project, a.file.run.id)
          /\ op' = [Told(a) EXCEPT !.folders = @ \cup {a.project}]
    /\ UNCHANGED <<index, saved, leaving, puts>>

RepairIndex ==
    /\ At("trim")
    /\ ~OverTotal
    /\ \E p \in op.folders :
          /\ Repair(p)
          /\ op' = [op EXCEPT !.folders = @ \ {p}]
    /\ UNCHANGED <<files, saved, leaving, puts, stale>>

RunSaved ==
    /\ At("trim")
    /\ ~OverTotal
    /\ op.folders = {}
    /\ Return
    /\ UNCHANGED <<files, index, saved, leaving, puts, stale>>

\* DELETE .../runs/{id}: the file, then its entry.
DeleteRun(p, id) ==
    /\ id \in Ids(Runs(p))
    /\ Begin("deleted", p, None, {})
    /\ Unlink(p, id)
    /\ UNCHANGED <<index, saved, leaving, puts>>

RunDeleted ==
    /\ At("deleted")
    /\ Repair(op.project)
    /\ Return
    /\ UNCHANGED <<files, saved, leaving, puts, stale>>

\* clear_runs removes the folder, its files one after the other.
ClearRuns(p) ==
    /\ Begin("clear", p, None, {})
    /\ UNCHANGED <<files, index, saved, leaving, puts, stale>>

RemoveFile ==
    /\ At("clear")
    /\ LET p == op.project
       IN  \/ \E f \in files[p] : Unlink(p, f.run.id) /\ UNCHANGED index
          \/ /\ index[p] # {}
             /\ index' = [index EXCEPT ![p] = {}]
             /\ UNCHANGED <<files, stale>>
    /\ UNCHANGED <<saved, op, leaving, puts>>

RunsCleared ==
    /\ At("clear")
    /\ files[op.project] = {} /\ index[op.project] = {}
    /\ Return
    /\ UNCHANGED <<files, index, saved, leaving, puts, stale>>

-----------------------------------------------------------------------------
\* Project files come and go without _lock; DELETE /api/projects/{id} clears
\* the project's runs after the file is gone.
SaveProject(p) ==
    /\ p \notin saved
    /\ saved' = saved \cup {p}
    /\ UNCHANGED <<files, index, op, leaving, puts, stale>>

RemoveProject(p) ==
    /\ p \in saved
    /\ saved' = saved \ {p}
    /\ leaving' = leaving \cup {p}
    /\ UNCHANGED <<files, index, op, puts, stale>>

ClearRemoved(p) ==
    /\ p \in leaving
    /\ leaving' = leaving \ {p}
    /\ Begin("clear", p, None, {})
    /\ UNCHANGED <<files, index, saved, puts, stale>>

\* The index file goes missing.
IndexLost(p) ==
    /\ index' = [index EXCEPT ![p] = {}]
    /\ UNCHANGED <<files, saved, op, leaving, puts, stale>>

\* A write or a removal fails: the operation ends there, with an error.
OperationFails ==
    /\ op # None
    /\ Return
    /\ UNCHANGED <<files, index, saved, leaving, puts, stale>>

\* The process is killed and started again.
Crash ==
    /\ op' = None
    /\ leaving' = {}
    /\ UNCHANGED <<files, index, saved, puts, stale>>

Next ==
    \/ \E p \in Projects :
          \/ ListRuns(p)
          \/ \E r \in Run : SaveRun(p, r)
          \/ \E id \in RunIds : DeleteRun(p, id)
          \/ ClearRuns(p)
          \/ SaveProject(p) \/ RemoveProject(p) \/ ClearRemoved(p)
          \/ IndexLost(p)
    \/ WriteRun \/ PruneRun \/ WriteIndex \/ TrimRun \/ RepairIndex \/ RunSaved
    \/ RunDeleted \/ RemoveFile \/ RunsCleared
    \/ OperationFails \/ Crash

Spec == Init /\ [][Next]_vars

-----------------------------------------------------------------------------
(* Properties *)

\* Also: a folder holds one file per run id.
TypeOK ==
    /\ files \in [Projects -> SUBSET File]
    /\ \A p \in Projects : \A f, g \in files[p] : f.run.id = g.run.id => f = g
    /\ index \in [Projects -> SUBSET Run]
    /\ saved \in SUBSET Projects
    /\ op \in Operation \cup {None}
    /\ leaving \in SUBSET Projects
    /\ puts \in 0..MaxPuts
    /\ stale \in [Projects -> SUBSET RunIds]

\* Whatever operation stopped wherever, the project's list shows the runs on disk,
\* each once and as its file holds it; but for a run that was replaced by a save
\* that stopped before the index, whose old entry nothing repairs.
IndexTrue ==
    \A p \in Projects :
        /\ \A r \in Runs(p) : r.id \in stale[p] \/ r \in Loaded(p)
        /\ \A e \in Loaded(p) :
              /\ e.id \in stale[p] \/ e \in Runs(p)
              /\ \A d \in Loaded(p) : d.id = e.id => d = e

\* What a save answers is so: the new run is stored, the runs listed are those
\* on disk, and those it names as deleted are exactly the project's runs that
\* are gone since it began, by either budget.
SaveAnswersTruly ==
    [][RunSaved =>
          LET p == op.project
          IN  /\ op.run \in Runs(p)
              /\ Ids(op.entries) = Ids(Runs(p))
              /\ op.pruned = op.before \ Ids(Runs(p))]_vars

\* After a save the project's runs, and all runs together, fit their budgets,
\* or only the new run is left; but where the index misstates a replaced run.
BudgetsKept ==
    [][RunSaved =>
          /\ \/ Bytes(Runs(op.project)) <= BUDGET_BYTES
             \/ Runs(op.project) = {op.run}
             \/ stale[op.project] # {}
          /\ TotalBytes <= TOTAL_BUDGET_BYTES \/ Trimmable = {}]_vars
=============================================================================
