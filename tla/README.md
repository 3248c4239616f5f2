# Verification of SimStudio: models, checks and proofs

TLA+ modules of the parts of SimStudio where the order of events matters: how
project files are saved, what an editor window does while it waits, how the
model is edited and undone, how a live run is streamed and stopped, how runs are
stored and listed, how scripts are run and killed, how the desktop app starts and
closes. Each module is translated from the source under `src/`; each property is
checked by TLC on a small instance and the central ones are proved by TLAPS for
every instance.

## 1. The system

SimStudio is a desktop (or browser) editor for vehicle models, and a local
engine that stores projects and simulates them.

```
 desktop/src/main.js ── starts/stops ──> engine process (FastAPI, backend/app)
        │                                   main.py: HTTP handlers in a thread pool,
   opens a window                           one WebSocket per live run
        │                                     │            │              │
 frontend/src (React, one event loop)     storage.py   run_store.py   solver/ (a thread per run)
   projectStore.ts ── HTTP (api.ts) ─────────┘            │              │
                  └─── WebSocket (runSimulationLive) ─────┼──────────────┘
   localStorage: the draft (persist.ts)                   └─ files      sandbox.py ── worker process
```

### Components, their state and operations

| Component | State | Operations | What makes it correct |
|---|---|---|---|
| Project storage (`storage.py`, `main.py`) | `<id>.json`, `.bak`, `.backups/<id>/`, `_save_lock` | save with `If-Match` / `If-None-Match`, delete, list and read backups | no save overwrites a version it did not check; files are never torn; the last backups are there; a failed save gives the lock back |
| Editor session (`projectStore.ts`, `uiStore.ts`, `dialog.ts`, `Ribbon.tsx`) | `project`, `revision`, `dirty`, `saveQueue`, the dialog slot, requests in flight | edit, save, open, new, example, import, restore, answer a dialog | `dirty` is honest; edits are not lost without a question; a save overwrites only what its project comes from; every save ends |
| Run store (`run_store.py`) | run files, `index.json`, `_lock` | save_run with two budgets, list, delete, clear, repair | the index agrees with the files after any crash; a save answers truly; budgets are kept; the new run survives |
| Live run (`main.py` 307–397, `api.ts` 262–330, `executeRun`) | event queue, control list, socket, handle | start, step, set_param, cancel, done, disconnect | the result comes after all events and exactly once; a cancel or a lost client ends the solver |
| Run history (`projectStore.ts` 486–722, 1561–1725, 1781–1828) | `runs`, `activeRunId`, `overlayRunIds`, `storedRunCount`, the load in flight | run, sweep, load, store, remove, clear, stop, pick | a run in progress stays listed; a load brings no other project's runs; a run not stored is not dropped silently; every call ends |
| Editor history (`projectStore.ts` 441–484, 830–1240) | `project`, `past`, `future`, `clipboard`, what is shown | every edit with coalescing, copy, paste, undo, redo, cases, studies | the model is always one the engine can read; a copy stands alone; undo leaves studies alone |
| Data checks (`projectStore.ts` 1534–1560, 1732–1750, 1834–1860) | `dataChecks`, a timer, requests in flight | check, gate, re-check | checks shown become those of the model shown |
| Diagram and table editors (`TopologyCanvas.tsx`, `SpreadsheetGrid.tsx`, `PropertiesPanel.tsx`) | selection, menu, armed part; cell selected, edit in progress | click, delete, drop, rename; edit, paste, clear, add, delete | what is deleted is what is shown; an edit changes its own cell, once |
| Curves (`chartUtils.ts`) | none | thinning of long series | every peak is drawn |
| Draft (`App.tsx`, `persist.ts`) | one localStorage entry per origin, a timer | save after 800 ms, clear, flush, restore | a crash loses no more than the last 800 ms |
| Desktop shell (`desktop/src/main.js`, `old-projects.js`) | engine process and port, window, message box, projects folder | start, wait, close, reload, save first, copy old projects | nothing unsaved leaves unasked; the engine outlives the window; no half copy |
| Solver loop (`core.py`) | step, times, recorded series, cancel flags | step, record, pace, cancel, fail | status and recorded times agree with what was solved |
| Script sandbox (`sandbox.py`, `sandbox_worker.py`) | worker, watchdog, `_deadline`, `_dead`, parameters sent | init, run, kill, close | outputs are of the step asked; a hung script ends; no worker is left |
| Master and slaves (`master.py`, `slave.py`, `runtime.py`) | variable pool, slave clocks | step with rate divisors | the program uses one fixed order |
| Network, domains, maps, verdict, validation, schemas, library | none over time | pure functions | numeric, outside TLC and TLAPS |

### Interactions and hard behaviour

* Handlers run in a thread pool. Saves of projects are serialised by
  `_save_lock`, **deletes are not**; other programs know no lock.
* The run store has its own lock, and project files come and go without it.
* The editor is one event loop, so each callback is atomic, but every `await`
  (request, file read, dialog) lets everything else happen. The store is read
  again after an await in some places and not in others.
* The dialog slot holds one dialog. Opening another replaces it, and the promise
  of the first never settles.
* The process may be killed between any two file operations; a request may be
  applied and its answer lost.

* The sandbox's watchdog and the solver thread share `_deadline`, `_dead` and
  `_timed_out` without a lock, and either may kill the worker.
* The desktop shell asks the page before it unloads, while the page saves, the
  user makes further changes and the engine may be gone.

The hazards are listed with their lines and properties in `PROJECT.json`.

## 2. Modules

| Module | Models | Checked / proved by |
|---|---|---|
| `ConditionalFile` | abstract: one file whose writes carry a condition (a compare-and-swap cell) | refined by `ProjectStorage` |
| `ProjectStorage` | `storage.py`: a save, one action per file operation; delete; other programs; crash | `MCProjectStorage`, `ProjectStorage_proofs` |
| `EditorSession` | `projectStore.ts`: one window | its four configurations, `EditorSession_proofs` |
| `RunStore` | `run_store.py`: every operation, one action per file operation | `MCRunStore`, `RunStore_proofs` |
| `RunChannel` | abstract: what the editor sees of a live run, the recorded steps in order and then their result | refined by `LiveRun` |
| `LiveRun` | one live run: the editor's handle, the socket, the engine's handler, the solver thread | its two configurations, `LiveRun_proofs` |
| `RunHistory` | `projectStore.ts`: the list of runs, one run or sweep, loads and removals | `RunHistory.cfg`, `RunHistory_proofs` |
| `ModelEdits` | `projectStore.ts`: every edit of the model, undo, redo, copies, as the panels call them | `MCModelEdits`, `MCMachines`, `ModelEdits_proofs` |
| `Canvas` | `TopologyCanvas.tsx` on top of `ModelEdits` | `MCCanvas` |
| `DataChecks` | `projectStore.ts`: checks asked for, the gate, the re-check | `MCMachines` |
| `TableGrid` | `SpreadsheetGrid.tsx` and the two table editors | `MCMachines` |
| `Thinning` | `chartUtils.ts`: what is drawn of a long series | `MCMachines`, `Machines_proofs` |
| `Desktop` | `main.js`, `old-projects.js`, the page's draft and saves, over several launches | `MCMachines`, `Desktop_proofs` |
| `Sandbox` | `sandbox.py`, `sandbox_worker.py`: solver thread, watchdog, worker | `MCMachines`, `Machines_proofs` |
| `Machines` | six of these, side by side | `MCMachines` |

`RunHistory` takes the engine's store as a set of runs (`RunStore` has its steps)
and a solve as something that ends (`LiveRun`); `EditorSession` has what comes
before a project is replaced. `Canvas` uses the actions of `ModelEdits`.
`Machines` is no composition: the six machines share no state, a behaviour
chooses one (`subject`) and the others stand still, so that one TLC run answers
for all of them.

### ProjectStorage

State: `file`, `bak` and `backups` are the files; `lock` is `_save_lock`;
`pc`, `req`, `cur`, `tmp`, `drop` and `answer` are each handler thread's place,
request, `current`, temporary file, backups to unlink and reply. A content is an
element of `Data`; its revision is `revision_of[content]`, an injective map to
numbers (in the code a truncated SHA-256). The order of revisions has nothing to
do with that of the contents; it matters because backups are sorted by name.

| Code (`storage.py`) | Action |
|---|---|
| `with _save_lock` 248 | `AcquireLock`, and `Leave` for every way out |
| `path.exists()` 249, `read_bytes` 250 | `CheckExists`, `ReadCurrent` (the file may be gone in between) |
| the two `RevisionConflict`s 250–259 | `Refused`, in `Decide` |
| `_write_atomic` 219–232 | `OpenTmp`, `FlushTmp`, then `ReplaceBak` / `ReplaceBackup` / `ReplaceFile` |
| `_keep_backup` 277–294 | `KeepBackup`, `ReplaceBackup`, `StampBackup`, `PruneBackups` |
| an `OSError` anywhere | `WriteFails` |
| `delete_project` 333–338 | `DeleteProject`: its `unlink`; the test before it changes nothing |

`_replace` retries a rename that Windows refuses; the retries are one action
that succeeds, or `WriteFails`. Temporary files have unique names, so those a
crash leaves behind are never read again.

`WritesInSave` says whether other programs may write between a save's check and
its rename. The code cannot prevent it, so the properties about overwriting hold
without it (run `project_storage`) and fail with it (run `project_storage_other`).
`ClockForward` says that the clock advances between two backups; without it two
backups may be sorted the wrong way and `BackupsKeepLast` fails.

### EditorSession

One window, with the engine's check-and-write as one step (what
`ProjectStorage` is shown to implement) and other windows as `OthersWrite` and
`OthersDelete`. A version is a number that stands for a content and for its
revision, so every edit is new content: the case of two versions with equal
content is left out. `project.copy` counts the projects that were opened, so
that the same file opened again is another object, as in the store.

| Code | Actions |
|---|---|
| `updateProject` 441–467 | `Edit` |
| `saveRemote` 1333–1386 | `SaveRemote`, `StartSave`, `EngineRefuses`, `EngineSaves`, `SaveAnswered`, `ConflictAnswered`, `Overwrite`, `CancelSave`, `SaveFails` |
| `confirmReplaceProject` 1862–1876 | `ConfirmReplace`, `DontSave`, `KeepOpen`, `SaveFirst`, `Resume` |
| `openProject`, `openExample` 1253–1310 | `Choose`, `ReadProject`, `OpenArrives`, `ReadFails` |
| `newProject`, `importProject`, `openAsCopy` | `Undertake`, from `Choose`, `ReadArrives`, `DontSave` or `Resume` |
| `Ribbon.tsx`: import and restore read a file first | `ChooseAndRead`, `ReadArrives` |
| `uiStore.openDialog`: takes the slot | `dialog' = ...` in `ConfirmReplace`, `ConflictAnswered` |

`Settled` says that the promise callbacks that are due have run: the microtasks
of an event come before the next event. Ctrl+S works under a dialog; clicks do
not. Undo and redo, the sweep (which adds a study when it ends) and the delete
of a project are not in this module; this window's interface has no delete.

`base`, `crossed`, `kept`, `own` and `gaveUp` are history variables: the
properties need them and no guard reads them.

### RunStore

`files[p]` are the run files of project `p` with their modification times,
`index[p]` is `index.json`. `_lock` is held through an operation, so there is
one operation (`op`) at a time, and each file it writes or deletes is one step:
`WriteRun`, `PruneRun`*, `WriteIndex`, `TrimRun`*, `RepairIndex`*, `RunSaved`;
`DeleteRun`, `RunDeleted`; `ClearRuns`, `RemoveFile`*, `RunsCleared`. `Loaded`
is `_load_index`: drop the entries without a file, read back the files without
an entry. `OperationFails` and `Crash` may end an operation after any step. A
missing or unreadable index counts as empty. Modification times are all
different, which `_trim_total` sorts by; runs started at the same time are kept
(in `PruneRun` either may go first). A run file is written to a side file first, so
it is whole or not there; one that is damaged on the disk later, which `_load_index`
leaves in place and unlisted, is not modelled. `stale[p]` are the runs of `p` whose file a
save replaced, and whose entry in the index is still the one before.

### LiveRun

Four parties and what lies between them: the editor (`socket`, `seen`, `shown`,
`stage`, `liveEdits`), the connection (`up`, `down`, `link`), the handler's event
loop (`pending` for `pending_control`, `calls` for callbacks handed over by
`call_soon_threadsafe`, `events` for the queue, `done` for `sim_future.done()`)
and the solver thread (`solver` is its place, `step` the loop's variable).

| Code | Actions |
|---|---|
| `runSimulationLive` (`api.ts` 262–330) | `Opens`, `Receive`, `ConnectionLost`, `Send` |
| `executeRun` (`projectStore.ts` 641–722) | `Flush`, `Settle`, `StoreRun`, `RunEnds` |
| `stopRun`, `setParameter`, `logLiveEdit` | `StopRun`, `SetParameter`, `SameTime` |
| `run_simulation_live` (`main.py` 307–398) | `Accept`, `NeverStarts`, `ReceiveControl`, `ReceiveFails`, `RunCallback`, `SendEvent`, `SendResult` |
| `simulate` (`core.py` 59–416) | `Begin`, `Poll`, `Solve`, `PacePoll`, `PaceOver`, `PaceCancelled`, `Record`, `Return`, `Raise` |

A step's physics is a choice: it is solved, or it ends the run (`Solve`); so is
the judgement of the whole run (`Return`), and an exception nobody catches may
come anywhere (`Raise`). "warning" counts as a success. Text messages travel by
the same queue and are left out, as is `client_gone` of a client that is slow
but connected. All edits are of one parameter, so two at the same time shown are
always merged. `applied` are the control messages the solver was given, in order; a
message is sent only while the connection is up. A connection breaks as a whole and
loses what is on its way; TCP does not reorder, so `up` and `down` are queues. One
solver thread and one handler are one run: another window's run shares nothing with
it.

`heard`, `unheard` and `madeAt` are history variables.

### RunHistory

A run is a number, a later one started later, so the list is a set and "newest"
is a maximum. `about[r]` is the run's project, call, sweep point and state.

| Code (`projectStore.ts`) | Actions |
|---|---|
| `loadRunHistory` | `ListRuns`, `ListFailed`, `ListArrives`, `ReadRun`, `MergeLead`, `MergeAll`, `Stale` |
| `run`, `runSweep`, the gate, `stopRun` | `PressRun`, `RunSweep`, `Gate`, `StopRun`, `CallEnds` |
| `executeRun`, `storeRun` | `StartPoint`, `PointEnds`, `PointLost`, `StoreRun`, `StoreAnswered`, `StoreFails` |
| `removeRun`, `clearRuns` | `Ask`, `KeepRuns`, `removeRun`, `clearRuns`, `DeleteStored`, `DeleteAnswered` |
| a project opened, new, restored | `OpenProject`, `NewProject` |
| the Results page | `setActiveRun`, `toggleOverlayRun`, `setOverlayRuns` |

An engine may have stored or deleted a run though its answer was lost; then the
list is as after a failure (`StoreFails`, `DeleteStored`), which is also what a run
that was never stored looks like to Delete (404).

A Stop pressed while a sweep waits for its gate is forgotten (`Gate` resets
`sweepAborted`, as the code does), and `activeRunId` may name a run that is not
in the list when the project was replaced during a run; nothing in the
repository denies either, so they are in the model and not in a finding.
Another step of the model is worth a look and has no run: `executeRun` (634) lists
its run without asking which project is open, and New and Open are not held back
by a run. When one of them answers while the gate is awaited, or between two
points of a sweep, `StartPoint` puts a run of the project left behind at the head
of the other's list, where it may push the oldest off. `storeRun` (574) and the
study of a sweep (1692) do look. The invariant `about[r].project = project`, for
every listed run, fails in four steps: press Run, open the other project, gate,
start. `LoadsOwnRuns` is about what loads add, not about this.
`TypeOK` of this module is proved and not in the run, which has nothing to add
to it.

### ModelEdits and Canvas

Parts and cases are numbers from one counter, so the order of an array is the
order of its numbers, and a container's system has the container's number. One
action per store operation; `Panels` and `Diagram` say which panel calls it with
what, and the arguments range over what that panel offers, which may be gone by
then: a dialog stays open over Undo.

A model the engine can read (`ModelType` and `Readable`) is what the window is
taken to start from (`StartsAssumption`; neither Open nor Import checks it in the
window, and of a project that cannot be read when it is opened nothing is said here),
and what `WellFormed` says every edit leaves: each part is in
a system that exists, each system belongs to one container, links join ports that
exist and fit, an input has one source, there is a case, and ports, links and
cases are told apart by what names them. `PortIds` are the names a script's ports
may have. `CloneElementsInto` folds over the parts to be copied in the order of
their numbers, as the code's loop does.

`Update` is `updateProject` with history: an edit of the field edited last may
join the entry before it (the 1200 ms of `EDIT_COALESCE_MS` are left
open). Some calls of it record a
step that changes nothing, and the model keeps that: adding to a system that is
gone, renaming a part that is gone, duplicating a case that Undo took away (which
makes a case active that does not exist), and a pin moved with Shift held, which
takes two undos (`MovePin`).

`Canvas` adds React Flow's selection, which is the window's own and is not
`selectedElementId`: `Follow` is the effect that keeps the two together, and it
does nothing when the diagram shows another system.

### DataChecks, TableGrid, Thinning

`DataChecks`: a model is told apart by the edit that made it. `Show` is the
answer to the button and to the gate, `Answer` and `Fail` those of any request;
`Recheck` is the timer, which waits for the end of a run.

`TableGrid`: `editRef` is the ref that holds the edit, `input` the one on screen
(`Render` brings them together, `FocusLeaves` is the blur). A grid is computed
from the table and parsed back on every change, so rows move when an axis value
changes. `ClearRange` stops at a selection below a map's last row, where the
code throws (`PropertiesPanel.tsx` 330).

`Thinning`: the loop of `chartUtils.ts` with its integer divisions, from every
set of short series at once; `Draw` and `Widen` are its two outcomes.

### Desktop

| Code | Actions |
|---|---|
| `requestSingleInstanceLock`, `createWindow` | `Launch`, `ChoosePort`, `Spawn`, `Healthy`, `Deadline`, `CloseEarly` |
| `old-projects.js` | `LookForOld`, `CopyStep` |
| engine process and its exit handler | `EngineUp`, `EngineExit` |
| `askBeforeUnsavedUnload` | `Leave`, `Unload`, `DontSave`, `Cancel`, `SaveFirst`, `SaveEnds`, `SavedThen` |
| `will-quit`, a kill | `Quit`, `Crash` |
| `App.tsx`, `persist.ts`: the draft | `DraftDue`, `Flush`, `Open`, `Change` |
| `saveRemote`, as the page and the shell see it | `SaveInPage` and `SaveEnds`, by `Saved` or `SavedLate` |

The storage of a page belongs to its origin, so a draft is kept by port: a launch
that gets another port does not see the drafts of the last. An engine that exits
by itself while the window waits is noticed only at the deadline of 40 s, since
the exit handler clears the handle the wait looks at; and the kill that should
follow a `SIGTERM` after 3 s is a timer of an app that has ended, so it is in
no action.

### Sandbox

| Code | Actions |
|---|---|
| `ScriptSandbox.__init__`, `_init` | `StartSandbox`, `InitAnswered`, `InitFails`, then `BuildModel` for the rest of `RunContext` |
| `run` | `RunScript`, `SendParam`, `SendStep`, `StepAnswered`, `RecvFails`, `StepLost` |
| `_watchdog` | `ReadDeadline`, `Compare`, `Overrun`, `KillBegins`, `KillEnds` |
| `close` | `Close`, `Joined`, `JoinTimesOut` |
| `worker_main` | `WorkerStarts`, `Receive`, `WorkerAnswers`, `WorkerStops` |

The watchdog's test is three reads without a lock, so it may kill the worker of a
step that was answered since; the run then ends with an error, and
`OutputsAreOfTheStep` says that it never ends with a wrong answer. A script that
hangs is a worker that stays "busy". An exception in the rest of
`RunContext.__init__` leaves the worker and the watchdog to nobody: `ScriptsEnd`
excepts that state (`abandoned`).

## 3. Runs

| Run | Result | Shows |
|---|---|---|
| `project_storage` | pass | two threads, three contents, three saves with every precondition, deletes, other writers outside a save, failures and crashes anywhere: `TypeOK`, `FilesWhole`, `SaveInv`, `BackupsKeepLast`, `NoSilentOverwrite`, `LockGivenBack`, and refinement of `ConditionalFile` (`ImplementsCell`) |
| `project_storage_other` | violation of `NoSilentOverwrite` | another program writes between the check and the rename and is overwritten unseen |
| `editor_session` | pass | one window: `TypeOK`, `CleanMeansStored`, `OverwritesOwnVersion`, `NoConflictWithItself`, `ReplacesWithLeave`, `SavesFinish` |
| `editor_session_replace` | violation of `AsksBeforeReplacing` | edits made while a project is fetched are discarded with no question |
| `editor_session_overwrite` | violation of `OverwritesWhenAsked` | a save's answer gives its revision to the project that replaced the saved one, whose own save then overwrites the file unasked |
| `editor_session_dialog` | violation of `EveryDialogAnswered` | a dialog replaces the conflict dialog: that save, and every later one, waits for ever |
| `live_run` | pass | one run of three points with edits, a stop, a broken connection and a failing solver at any time: `TypeOK`, `StopGetsThere`, `SnapshotTrue`, `StopEnds`, `LostClientStops`, and refinement of `RunChannel` (`ImplementsChannel`) |
| `live_run_stop` | violation of `StopIsHeard` | a Stop while the socket is connecting is dropped, and the run is solved to its end |
| `run_store` | pass | two projects, three run ids, both budgets, replaced runs, deletes, clears, failures, crashes and a lost index: `TypeOK`, `IndexTrue`, `SaveAnswersTruly`, `BudgetsKept` |
| `run_history` | pass | two projects, one stored run, a run or a sweep of two points, one switch, one removal, loads in batches: `RunInProgressKept`, `LoadsOwnRuns`, `UnstoredKept`, `CallsEnd` |
| `machines` | pass | `ModelEdits`: `WellFormed`, `CopiesStandAlone`, `ShownStays`, `StudiesKept`; `DataChecks`: `ChecksFollow`; `TableGrid`: `GridKeepsRest`; `Thinning`: `PeaksDrawn`; `Desktop`: `DraftHoldsWork`, `EngineKept`, `NothingLostUnasked`, `OldProjectsWhole`; `Sandbox`: `OutputsAreOfTheStep`, `ScriptsEnd` |
| `canvas_delete` | violation of `DeletesWhatIsShown` | the toolbar's Delete removes parts and wires selected in a system that is no longer shown |

The six violations are disagreements between the code and what the repository
says of it; `PROJECT.json` quotes the lines. Each passing property that a
finding touches has that case, and no more, as an exception: `crossed` in
`OverwritesOwnVersion`, a fetched project in `ReplacesWithLeave`, a dialog taken
over in `SavesFinish`, a Stop before the socket opens in `StopGetsThere` and
`StopEnds`. In `RunStore` one more case is an exception and not a
run: when a save *replaces* a stored run and stops before it writes the index,
the old entry stays (`run_store.py` 60–87 looks only for missing ids), although
its header says the index is repaired when it falls out of step. `stale` marks
those runs.

### Bounds, and why they are enough

* `project_storage`: two threads are the least that race, and three saves let a
  third version push the first out of `KEEP_BACKUPS = 2` backups. Three
  contents make "neither the one read nor the one saved" possible. The order of
  the revisions differs from that of the contents.
* `editor_session`: two ids (the file on disk, and one for what is new), three
  versions (the first, an edit, another window's), two copies, one read and two
  saves at a time: enough for a queue of saves, a second save that overtakes a
  replacement, and each of the three findings.
* `run_store`: three stored runs of sizes 1 and 2 with budgets 3 and 4, so that
  either budget can be the one that prunes and the two can prune in one save;
  three ids and two start times, so that a run can be replaced and ties occur.
  Projects and run ids are interchangeable (`Symmetry`); no liveness is checked
  in that run.
* `live_run`: steps 0 to 2 and `output_every = 3`, so that the first step is
  recorded as a multiple, the next is not, and the last is recorded for being
  the last; two edits (merged or not, applied or not) and one Stop.
* `run_history`: a list of two (`MAX_RUNS`) and three runs, so that one is cut;
  a stored run that a load brings back; one replacement of the project, during
  whatever else is under way; one removal or clear.
* `machines`, model: it starts with a container, a part and a script with a link
  between them, so that copies, removals and port edits have something to break;
  three edits and two undoable steps push one out; four steps in all.
  Checks: three models, three requests, one undo, so that answers may cross.
  Grid: two changes, two moves, numbers 0 to 3 and a number that is new to the
  table. Charts: every series of up to eight samples with two values and none, or
  two of four, limits 1 to 5. Shell: two launches, so that a crash in the first
  is seen by the second, and two edits. Scripts: two blocks, two values of the
  parameters, three steps.
* `canvas_delete`: as the model's, with three looks and two edits.

`CHECK_DEADLOCK FALSE` stands where the bounds use up every step (all saves
asked, all versions made) and where a quiet system has nothing to do.

### Fairness

`ProjectStorage`: weak fairness of a thread inside its save. Nothing in the
with-block waits for another thread, so the operating system runs it on.
Requests, deletes, other programs, failures and crashes have none.
`EditorSession`: weak fairness of callbacks that are due (`Resume`,
`StartSave`), of a request being answered or failing (`EngineAnswers`; a request
that never ends is cut off by the browser as a failure) and of the user answering
a dialog on screen (`UserAnswers`). Edits and clicks have none. The finding about
`EveryDialogAnswered` therefore does not rest on a user who walks away.
`LiveRun`: weak fairness of the browser's and the event loop's handlers, and of
the solver thread's own steps, which wait for nobody. There is none for the end
of a pacing pause (`PaceOver`): at a small real-time factor it may be as far
away as one likes, and a stop must not wait for it. The thread polls in the
pause (`PacePoll`), which the code does every 50 ms. There is none for
`LinkBreaks`, `Opens`, the user or `Raise`.
`RunHistory`: weak fairness of a call in progress (`Proceeds`: a solve and a
request end; `LiveRun` has the first), of a load (`Loads`) and of a delete.
`DataChecks`: of the timer (`Recheck`), of a request's end, and of a run's end.
`ScriptsFair`: of the engine's two threads and of time going past a deadline.
The worker has none: a script may never return, and `ScriptsEnd` holds anyway.
`SolverStep` holds the end of a run (`Close`) as well; the bound on steps makes
that no more than that a run has an end.

## 4. Proofs

`ProjectStorage_proofs` proves, for any number of threads, contents, backups and
saves:

| Theorem | Statement |
|---|---|
| `TypeCorrect` | `Spec => []TypeOK` |
| `SavesAreChecked` | `Spec => []SaveInv` |
| `SavesAreAtomic` | `Spec => []FilesWhole` |
| `SavesOverwriteKnowingly` | `~WritesInSave /\ Spec` implies `NoSilentOverwrite` |
| `SavesKeepBackups` | `ClockForward /\ ~WritesInSave /\ Spec` implies `[]BackupsKeepLast` |
| `StorageImplementsCell` | `~WritesInSave /\ Spec` implies `ImplementsCell` |

Assumptions: `NamesAssumption`, `RevisionAssumption` (revisions are numbers and
different contents have different ones, i.e. no hash collision) and
`BoundsAssumption`.

The inductive invariant is `IInv == TypeOK /\ SaveInv /\ FilesWhole`.
`SaveInv` has three parts. `LockInv`: exactly the lock's holder is inside the
with-block. `WriteInv`: a temporary file belongs to the write its thread is at
and holds that write's bytes, or part of them; without it `FilesWhole` is not
inductive, since a rename could bring anything. `CheckInv`: from the check to
the rename the condition holds of the version read, and that is the version on
disk, or the file was deleted. It needs `LockInv` (no other thread renames in
between) and `~WritesInSave` (no other program does). `NextIInv` has one step
per action. `NoSilentOverwrite` is an action property that follows from
`CheckInv` before the step. `BackupsKeepLast` rests on `KeepInv`: the clock counts
the versions replaced, the backup taken at time *i* holds the *i*-th of them, none
of the last `KEEP_BACKUPS` times is without a backup, and what a save is about to
prune is older than those. Both conditions are needed: `project_storage` shows the
property for a clock that goes forward, and the names of the backups are the clock.
For the refinement each thread's phase is mapped (`Phase`): *asked* until the
check, *accepted* until the rename, *committed* until the lock is released;
`StepMaps` shows that each step is one of the cell's or changes nothing it sees.

`EditorSession_proofs` proves, for any number of projects, versions, copies,
reads and saves:

| Theorem | Statement |
|---|---|
| `TypeCorrect` | `Spec => []TypeOK` |
| `StarIsHonest` | `Spec => []CleanMeansStored` |
| `SavesOverwriteOwn` | `Spec => OverwritesOwnVersion` |
| `NoOwnConflict` | `Spec => NoConflictWithItself` |
| `ReplacesOnlyWithLeave` | `Spec => ReplacesWithLeave` |

Assumptions: `IdsAssumption`, `BoundsAssumption` and `NoneAssumption` (`None`
is none of the values it stands beside).

`IInv` adds five parts to `TypeOK`. `NumbersInv` and `MadeInv`: versions and
copies are numbered in the order they are made, so an edit or a replacement
differs from every project a save has in hand. Without it `StoredInv`, which
says that what a save wrote is the open project as it stands or an older one, is
not inductive. `BaseInv`: the revision is that of the version the copy comes
from, unless an answer crossed. `OwnInv` follows the window's last write: while
its answer is on the way the save under way did it, then the copy carries its
revision, and so does the next save; since saves queue, no save is sent in
between. `StepKinds` sorts the 22 actions into eight kinds (a step leaves the
core alone, replaces the project, moves a save on, gives it up, or is one of
four actions), and each part is shown for each kind. `ReplacesOnlyWithLeave`
needs `TypeOK` only, and a look at every action that can replace a project.

`RunStore_proofs` proves, for any projects, runs, sizes, budgets and number of
saves:

| Theorem | Statement |
|---|---|
| `RunStoreTypes` | `Spec => []TypeOK` |
| `RunStoreIndex` | `Spec => []IndexTrue` |
| `RunStoreAnswers` | `Spec => SaveAnswersTruly` |
| `RunStoreBudgets` | `Spec => BudgetsKept` |

Assumptions: `ProjectsAssumption`, `BudgetAssumption`. `IInv` says, for each place
of the operation, how what it holds in memory agrees with the disk: the entries of
a save are its project's runs (`EntriesInv`, but for stale ones), they are exactly
those once the run's file is written (`StoredInv`), and before that the index has
just been repaired (`FileInv`). `IndexInv` is what is left when it stops: an entry
whose run is on disk is that run, or stale. Which runs are pruned makes no
difference to any of this. The budgets do need the bytes: `BudgetInv` says that from
the write of the index on the entries fit, since the trim only takes some away.
`Bytes` is a sum by `MapThenSumSet`, which takes the elements one after the other,
so the module begins with what is true of such sums: there is one for every finite
set (`SumsExist`, put together from those of the smaller sets), the order does not
matter (`SumWithout`), and a part sums to no more than the whole (`SumOfPart`). Each
is proved from a smallest counterexample, which takes the place of induction.

`LiveRun_proofs` proves, for any number of steps, edits and presses of Stop:

| Theorem | Statement |
|---|---|
| `LiveRunTypes` | `Spec => []TypeOK` |
| `LiveRunStop` | `Spec => []StopGetsThere` |
| `LiveRunSnapshot` | `Spec => []SnapshotTrue` |
| `LiveRunImplements` | `Spec => ImplementsChannel` |

Assumptions: `StepsAssumption`, `BoundsAssumption`. The refinement rests on
`FlowInv`: what the editor has seen, what is on its way down, the queued events and
the callbacks not yet run are, one after the other, the recorded steps
(`Underway`); once the handler has closed, all of them are sent and how the run
ended is the last message (`Delivered`). It needs to know where handler and solver
are in relation to each other (`StartInv`, `HandlerInv`), that the solver's return
is its last callback (`CallsInv`), and that a "success" has recorded
the last step and a "cancelled" run has not (`TimesInv`, `ResultInv`). A broken connection loses what was
on its way and the channel promises nothing more. For `SnapshotTrue`, `OrderInv`
says that edits stay in order over the three queues they pass, `LogInv` that the
log tells every edit until the snapshot is taken, and `SentInv` that no edit on its
way is missing in the snapshot.

`RunHistory_proofs` proves, for any projects, runs, sweeps, replacements, removals
and length of the list:

| Theorem | Statement |
|---|---|
| `RunHistoryTypes` | `Spec => []TypeOK` |
| `RunHistoryInProgress` | `Spec => RunInProgressKept` |
| `RunHistoryOwn` | `Spec => LoadsOwnRuns` |
| `RunHistoryUnstored` | `Spec => UnstoredKept` |

Assumptions: `SizesAssumption`, `NoneAssumption`. The invariant follows the one run
that may be in progress: it is that of the call (`CallInv`), the newest
(`RunningInv`), and neither stored nor asked about (`EndedInv`), so that no load,
removal or cut of the list takes it away. `LoadInv` says that a load lists runs of
the project it was asked for, though that may no longer be the one open.

`ModelEdits_proofs` proves, for any models to start from that the engine can read,
any length of the history, any values, studies and port names, and any number of
edits:

| Theorem | Statement |
|---|---|
| `ModelWellFormed` | `Spec => []WellFormed` |
| `ModelCopies` | `Spec => CopiesStandAlone` |
| `ModelShown` | `Spec => ShownStays` |
| `ModelStudies` | `Spec => StudiesKept` |

Assumptions: `LimitAssumption`, `BoundsAssumption`, `StartsAssumption`. That the
model on screen can be read is not inductive: Undo brings back any model of the
history, and Paste puts what was copied from one model into another. `IInv`
therefore says that every model that is open or in the history can be read, that a
number means one kind of part in all of them, and that what is on the clipboard
could be pasted into any of them. The proof has two layers. First one lemma per
operator, on one model: what a part, a link, ports, a removal, a case or a copy
make of a model that can be read (`PartAdded`, `WireAdded`, `BusAdded`, `PortsSet`,
`PartsRemoved`, `CaseAdded`, `CaseRemoved`, `Copied`, `PastedOne`, and `Cloned` for
the fold of a paste, by a smallest counterexample). Then one step per action, which
adds one model to those that are known (`OneMore`, `Stepped`).

`Desktop_proofs` proves, for any number of launches and edits:

| Theorem | Statement |
|---|---|
| `DraftKept` | `DeskSpec => []DraftHoldsWork` |
| `EngineStays` | `DeskSpec => []EngineKept` |
| `AsksBeforeLoss` | `DeskSpec => NothingLostUnasked` |
| `FolderStaysWhole` | `DeskSpec => OldProjectsWhole` |

Assumption: `DesktopAssumption`. `DeskSpec` is the machine that `Machines` runs
beside the others. The inductive invariant is `DeskInv`: `DeskTypeOK`;
`ShownInv` (there is a page only from an engine with a port, and what belongs to
a page goes with it), without which a timer could outlive its page;
`EngineInv`, which is `EngineKept` seen from the page; `DraftInv`, which adds to
`DraftHoldsWork` that a draft that is due is of an edit, since `Flush` writes
only then. The lemmas go by kind of step: the page stays as it is (`PageKept`),
goes (`PageGone`), opens from a draft (`PageOpens`) or is saved (`PageSaved`);
`NextInv` sorts the 21 actions into these. `AsksBeforeLoss` needs that projects
are numbered in the order of their edits; `FolderStaysWhole` needs no invariant.

`Machines_proofs` proves, of the sandbox, for any blocks, values of their parameters and number
of steps:

| Theorem | Statement |
|---|---|
| `AnswersBelong` | `SandboxSpec => OutputsAreOfTheStep` |

The protocol has no request numbers (`sandbox_worker.py` 53), so that an answer
belongs to its step follows from what else may be on its way. The inductive
invariant `TalkInv` says that, for each place of the solver thread: what lies in
`requests`, what the worker is at, whether an answer waits, and whether the
worker holds the parameters the engine has sent (`Level`) or lacks this run's
edit (`Behind`). A worker that is gone is allowed everywhere, so the watchdog,
the clock and the worker's end are one lemma (`WorkerMayEnd`); so are the steps
after which no step is asked any more (`NoMoreSteps`). It assumes
`SandboxAssumption`.

Of the charts it proves, for series of any length and any limit:

| Theorem | Statement |
|---|---|
| `ChartsKeepPeaks` | `ThinSpec => []PeaksDrawn` |

It assumes `ThinningAssumption`. The buckets are bounded by two integer divisions
with no remainder carried over; `BucketsCover` shows that they leave no sample
out: sample *i* of *n* is in bucket `((i + 1) * buckets - 1) \div n`. The lowest
sample of a bucket is no higher than any other of it (`ExtremesAre`), so the bucket
that holds the lowest sample of all picks one of its value (`PickHasPeaks`).

Only model-checked:

* Liveness (`LockGivenBack`, `SavesFinish`, `StopEnds`, `LostClientStops`,
  `CallsEnd`, `ChecksFollow`, `ScriptsEnd`): it needs fairness and ENABLED, which
  the prover does not treat. The two abstract specifications state none.
* `GridKeepsRest`: a grid is made by sorting the axis values, and the proof needs
  that a table made from the grid of a table is that table again.

## 5. Plan

Done, in this order: `ConditionalFile`, `ProjectStorage` and its proofs,
`EditorSession` and its proofs, `RunStore`, `RunChannel`, `LiveRun`,
`RunHistory`, `ModelEdits`, `Canvas`, `DataChecks`, `TableGrid`, `Thinning`,
`Desktop` and its proofs, `Sandbox` and its proof.

Then the proofs of `ProjectStorage`'s backups, `RunStore`, `LiveRun`, `RunHistory`,
`ModelEdits` and `Thinning`.

To come: `GridKeepsRest`, in `Machines_proofs`. It needs three lemmas: the sorted
sequence of a finite set of numbers is one (`SetToSortSeq`), `parseGrid` undoes
`gridText` on a table that can be stored, and what a grid with one cell, or one
axis value, changed makes of the table.

## 6. Not modelled

* The physics (`domains.py`, `maps.py`, `profiles.py`, `verdict.py`): equations
  over real numbers, which neither TLC nor TLAPS can check.
* The construction of a network, validation, schemas and the library: pure
  functions or catalogs, with nothing ordered in time.
* Master and slaves: the program builds the master with no routes and with slaves
  that all step every time (`core.py` 108), so that a fixed order of numeric
  updates is left.
* What the sandbox forbids a script, the Windows job object, request checks.
* The results page but for the runs it picks, the layout of the panels, the
  profile editor and the forms' local state, the move of settings from older
  names (`storageKeys.ts`): each is local to one view, or only drawn.
* The shell's menus, documents and log file; packaging and scripts.

`PROJECT.json` gives every component's status and reason.

## 7. Running

```
tlc -workers 2 -config ProjectStorage.cfg MCProjectStorage
tlc -workers 2 -config EditorSession.cfg EditorSession
tlc -workers 2 -config RunStore.cfg MCRunStore
tlc -workers 2 -config LiveRun.cfg LiveRun
tlc -workers 2 -config RunHistory.cfg RunHistory
tlc -workers 2 -config Machines.cfg MCMachines
tlc -workers 2 -config Canvas.cfg MCCanvas
tlapm ProjectStorage_proofs.tla
tlapm EditorSession_proofs.tla
tlapm Desktop_proofs.tla
tlapm RunStore_proofs.tla
tlapm LiveRun_proofs.tla
tlapm RunHistory_proofs.tla
tlapm ModelEdits_proofs.tla
tlapm Machines_proofs.tla
```
