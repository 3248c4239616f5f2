------------------------------ MODULE Desktop ------------------------------
(***************************************************************************)
(* The desktop shell (main.js, old-projects.js) and the page it shows      *)
(* (App.tsx, persist.ts): one launch after another of the app, its window, *)
(* its engine process and its port, the questions before unsaved changes   *)
(* are unloaded, the recovery draft the page keeps in the storage of its   *)
(* origin, and the copy of the projects saved under the app's old name.    *)
(* Electron and the operating system may end the app or the engine at any  *)
(* time.  Menus, documents and logs are left out; the page holds one       *)
(* project, told apart by the edit that made it.                           *)
(***************************************************************************)
EXTENDS Integers, FiniteSets

CONSTANTS
  OldProjects,  (* Whether the old app has projects.                      *)
  MaxLaunches,  (* Bound: launches of the app.                            *)
  MaxVersions   (* Bound: edits, over all launches.                       *)

ASSUME DesktopAssumption ==
    OldProjects \in BOOLEAN /\ {MaxLaunches, MaxVersions} \subseteq Nat

VARIABLES
  start,     \* createWindow: "off" when no app runs, then the step it is at
  loaded,    \* the window shows the engine's page
  work,     \* the project in the page: the edit that made it, 0 the example
  dirty,     \* it has unsaved changes
  edited,    \* the page has seen a change of it
  timer,     \* the draft of the last change is due
  drafts,    \* by port, that is by origin: the draft in localStorage
  full,      \* the storage refused the last draft
  closing,   \* askBeforeUnsavedUnload: a close came before the beforeunload
  unload,    \* unload under way: "close", "reload" or "none"
  asked,     \* the message box: what it asks about, or "none"
  saving,    \* lightsimSave calls under way, by what follows: "close", "reload"
  saved,     \* those answered true, before the shell acts on it
  backend,   \* the shell's handle on the engine is set
  engine,    \* the process: "none", "starting", "up", "told" to stop
  port,      \* port of the engine; the file holds savedPort, 0 at first
  savedPort,
  to, partial, \* the projects folder, and the folder the copy goes to first
  filed,     \* the project in its file
  launches, newest \* counters for the bounds

page == <<work, dirty, edited, timer>>
storage == <<drafts, full>>
leaving == <<closing, unload, asked, saving, saved>>
windowVars == <<loaded, page, storage, leaving>>
engineVars == <<backend, engine, port, savedPort>>
folders == <<to, partial, filed>>
deskVars == <<start, windowVars, engineVars, folders, launches, newest>>

On == start # "off"

-----------------------------------------------------------------------------
(* Starting: createWindow.                                                  *)

\* requestSingleInstanceLock: a second launch only brings the window to front.
Launch ==
    /\ ~On /\ launches < MaxLaunches
    /\ launches' = launches + 1
    /\ start' = "look"
    /\ UNCHANGED <<windowVars, engineVars, folders, newest>>

\* copyOldProjects does nothing once the folder has something in it.
LookForOld ==
    /\ start = "look"
    /\ IF to \in {"missing", "empty"} /\ OldProjects
       THEN start' = "copy" /\ partial' = "missing"
       ELSE start' = "port" /\ UNCHANGED partial
    /\ UNCHANGED <<windowVars, engineVars, to, filed, launches, newest>>

\* The copy goes to a side folder, which is renamed when it is complete.
MutantCopyFiles == to' = (IF to = "part" THEN "old" ELSE "part") /\ UNCHANGED partial
CopyFiles ==
    /\ partial' = IF partial = "missing" THEN "part" ELSE "old"
    /\ UNCHANGED to

CopyStep ==
    /\ start = "copy"
    /\ \/ partial # "old" /\ CopyFiles /\ UNCHANGED start
       \/ /\ partial = "old" /\ to = "empty"     \* rmdir
          /\ to' = "missing" /\ UNCHANGED <<partial, start>>
       \/ /\ partial = "old" /\ to = "missing"   \* rename
          /\ to' = "old" /\ partial' = "missing" /\ start' = "port"
       \/ /\ partial' = "missing" /\ start' = "port"  \* a step failed
          /\ UNCHANGED to
    /\ UNCHANGED <<windowVars, engineVars, filed, launches, newest>>

\* The port of the last launch when no other program has it, else any other
\* free one; the file may not be written.  An engine that outlives its app keeps its port.
Ports == 1..(MaxLaunches + 1)
Taken == {0} \cup IF engine = "none" THEN {} ELSE {port}
ChoosePort ==
    /\ start = "port" /\ start' = "spawn"
    /\ \E p \in Ports \ Taken, others, written \in BOOLEAN :
         /\ (p = savedPort) <=> ~others /\ savedPort \notin Taken
         /\ port' = p
         /\ savedPort' = IF written THEN p ELSE savedPort
    /\ UNCHANGED <<windowVars, backend, engine, folders, launches, newest>>

\* startBackend makes the projects folder.  An engine of an earlier launch that
\* has not ended is not followed any further.
Spawn ==
    /\ start = "spawn" /\ start' = "wait"
    /\ backend' = TRUE /\ engine' = "starting"
    /\ to' = IF to = "missing" THEN "empty" ELSE to
    /\ UNCHANGED <<windowVars, port, savedPort, partial, filed, launches, newest>>

EngineUp ==
    /\ engine = "starting" /\ engine' = "up"
    /\ UNCHANGED <<start, windowVars, backend, port, savedPort, folders, launches, newest>>

\* The process ends by itself, or as told; its exit handler clears the handle,
\* so that waitForBackend does not see it and waits for its deadline.
EngineExit ==
    /\ engine # "none" /\ engine' = "none"
    /\ backend' = FALSE
    /\ UNCHANGED <<start, windowVars, port, savedPort, folders, launches, newest>>

-----------------------------------------------------------------------------
(* The page: the project it opens with, its edits, saves and drafts.        *)

NoDraft == [project |-> 0, clean |-> TRUE, none |-> TRUE]
Draft(project, clean) == [project |-> project, clean |-> clean, none |-> FALSE]

\* saveDraft over what the storage holds, which may refuse, and keeps that.
saveDraft(stored, project, clean) ==
    \/ drafts' = [stored EXCEPT ![port] = Draft(project, clean)] /\ full' = FALSE
    \/ drafts' = stored /\ full' = TRUE

\* init: unsaved work is restored; a project saved since is read again from its
\* file, or the copy in the draft taken; without a draft the example is opened,
\* and recorded.  A change after this one is an edit.
Open(stored) ==
    LET draft == stored[port] IN
    /\ loaded' = TRUE /\ edited' = FALSE /\ timer' = FALSE
    /\ dirty' = ~draft.clean
    /\ work' \in IF draft.clean /\ draft.project > 0 THEN {draft.project, filed}
                  ELSE {draft.project}
    /\ IF draft.clean /\ draft.project = 0 THEN saveDraft(stored, 0, TRUE)
       ELSE drafts' = stored /\ full' = FALSE

\* waitForBackend: the health answer.
Healthy ==
    /\ start = "wait" /\ engine = "up"
    /\ start' = "shown" /\ Open(drafts)
    /\ UNCHANGED <<leaving, engineVars, folders, launches, newest>>

\* updateProject: the draft waits for 800 ms without a change.
Change ==
    /\ loaded /\ asked = "none" /\ newest < MaxVersions
    /\ newest' = newest + 1 /\ work' = newest + 1
    /\ dirty' = TRUE /\ edited' = TRUE /\ timer' = TRUE
    /\ UNCHANGED <<start, loaded, storage, leaving, engineVars, folders, launches>>

MutantDraftDue ==
    /\ timer /\ timer' = FALSE
    /\ saveDraft(drafts, work, TRUE)
    /\ UNCHANGED <<start, loaded, work, dirty, edited, leaving, engineVars,
                   folders, launches, newest>>
DraftDue ==
    /\ timer /\ timer' = FALSE
    /\ saveDraft(drafts, work, FALSE)
    /\ UNCHANGED <<start, loaded, work, dirty, edited, leaving, engineVars,
                   folders, launches, newest>>

\* saveRemote: the engine writes the file.
Written ==
    /\ engine = "up" /\ filed' = work
    /\ to' = IF to = "empty" THEN "own" ELSE to

\* The draft is clean from then on.
Saved ==
    /\ Written
    /\ dirty' = FALSE
    /\ IF dirty THEN edited' = TRUE /\ timer' = FALSE /\ saveDraft(drafts, work, TRUE)
       ELSE UNCHANGED <<edited, timer, storage>>

\* Answered after another edit, or not at all: the page stays as it is.
SavedLate == Written /\ UNCHANGED <<dirty, edited, timer, storage>>

SaveInPage ==
    /\ loaded /\ asked = "none"
    /\ Saved \/ SavedLate
    /\ UNCHANGED <<start, loaded, work, leaving, engineVars, partial, launches, newest>>

\* beforeunload: the draft is written at once.
Flush == IF edited THEN saveDraft(drafts, work, ~dirty) ELSE UNCHANGED storage
Flushed == {drafts} \cup
    IF edited THEN {[drafts EXCEPT ![port] = Draft(work, ~dirty)]} ELSE {}

-----------------------------------------------------------------------------
(* The window is gone, all windows are closed, the app quits: will-quit     *)
(* tells the engine to stop and the app ends.  The kill that should follow  *)
(* after 3 s has no app to send it.                                         *)

NoPage ==
    /\ loaded' = FALSE /\ work' = 0
    /\ dirty' = FALSE /\ edited' = FALSE /\ timer' = FALSE
NoLeaving ==
    /\ unload' = "none" /\ asked' = "none" /\ saving' = {} /\ saved' = {}
Quit ==
    /\ start' = "off" /\ NoPage /\ NoLeaving /\ closing' = FALSE
    /\ engine' = IF backend THEN "told" ELSE engine
    /\ backend' = FALSE
    /\ UNCHANGED <<port, savedPort, folders, launches, newest>>

\* The deadline for the engine, and a window closed before it shows the page.
Deadline == start = "wait" /\ Quit /\ UNCHANGED storage
CloseEarly == On /\ start # "wait" /\ ~loaded /\ Quit /\ UNCHANGED storage

\* The app is killed, or the machine stops: nothing is cleaned up.
Crash ==
    /\ On /\ start' = "off" /\ NoPage /\ NoLeaving /\ closing' = FALSE
    /\ backend' = FALSE
    /\ \E ends \in BOOLEAN : engine' = IF ends THEN "none" ELSE engine
    /\ UNCHANGED <<storage, port, savedPort, folders, launches, newest>>

MutantRequest(kind) ==
    /\ unload' = kind /\ closing' = (kind = "close")
    /\ engine' = IF kind = "close" /\ backend THEN "told" ELSE engine
    /\ UNCHANGED <<backend, port, savedPort>>
\* A close (the button, the menu's Quit, app.quit) or a reload.
Request(kind) ==
    /\ unload' = kind
    /\ closing' = (closing \/ kind = "close")
    /\ UNCHANGED engineVars

Leave ==
    /\ loaded /\ asked = "none" /\ unload = "none"
    /\ \E kind \in {"close", "reload"} : Request(kind)
    /\ UNCHANGED <<start, loaded, page, storage, asked, saving, saved, folders,
                   launches, newest>>

\* The page is gone, and its answers to lightsimSave go with it.  A reload needs
\* the engine to serve the page: without one the window stays blank.
Unloaded ==
    \/ unload = "close" /\ Quit
    \/ /\ unload = "reload" /\ NoLeaving
       /\ engine # "up" /\ NoPage
       /\ UNCHANGED <<start, closing, engineVars, folders, launches, newest>>
Reloaded(stored) ==
    /\ unload = "reload" /\ engine = "up" /\ NoLeaving /\ Open(stored)
    /\ UNCHANGED <<start, closing, engineVars, folders, launches, newest>>

\* beforeunload: the draft is written; a page with unsaved changes refuses, and
\* the shell asks.
Unload ==
    /\ loaded /\ unload # "none" /\ asked = "none"
    /\ \/ ~dirty /\ Unloaded /\ Flush
       \/ ~dirty /\ \E stored \in Flushed : Reloaded(stored)
       \/ /\ dirty /\ Flush
          /\ asked' = IF closing THEN "close" ELSE "reload"
          /\ closing' = FALSE
          /\ UNCHANGED <<start, loaded, page, unload, saving, saved,
                         engineVars, folders, launches, newest>>

DontSave == asked # "none" /\ (Reloaded(drafts) \/ (Unloaded /\ UNCHANGED storage))

Cancel ==
    /\ asked # "none" /\ asked' = "none" /\ unload' = "none"
    /\ UNCHANGED <<start, loaded, page, storage, closing, saving, saved, engineVars,
                   folders, launches, newest>>

SaveFirst ==
    /\ asked # "none" /\ asked' = "none" /\ unload' = "none"
    /\ saving' = saving \cup {asked}
    /\ UNCHANGED <<start, loaded, page, storage, closing, saved, engineVars, folders,
                   launches, newest>>

\* lightsimSave ends: true when nothing is left unsaved, else the window stays.
SaveEnds ==
    /\ \E kind \in saving :
         /\ saving' = saving \ {kind}
         /\ \/ Saved /\ saved' = saved \cup {kind}
            \/ SavedLate /\ UNCHANGED saved
            \/ UNCHANGED <<to, filed, dirty, edited, timer, storage, saved>>
    /\ UNCHANGED <<start, loaded, work, closing, unload, asked, engineVars, partial,
                   launches, newest>>

\* win.close or reload: beforeunload is asked once more.
MutantProceed(kind) == kind = "close" /\ Quit /\ UNCHANGED storage
Proceed(kind) ==
    /\ Request(kind)
    /\ saved' = saved \ {kind}
    /\ UNCHANGED <<start, loaded, page, storage, asked, saving, folders, launches, newest>>

SavedThen ==
    /\ loaded /\ asked = "none" /\ unload = "none"
    /\ \E kind \in saved : Proceed(kind)

DeskInit ==
    /\ start = "off" /\ loaded = FALSE /\ closing = FALSE
    /\ work = 0 /\ dirty = FALSE /\ edited = FALSE /\ timer = FALSE
    /\ drafts = [p \in Ports |-> NoDraft] /\ full = FALSE /\ filed = 0
    /\ unload = "none" /\ asked = "none" /\ saving = {} /\ saved = {}
    /\ backend = FALSE /\ engine = "none" /\ port = 0 /\ savedPort = 0
    /\ to \in {"missing", "empty", "own"} /\ partial = "missing"
    /\ launches = 0 /\ newest = 0

DeskNext ==
    \/ Launch \/ LookForOld \/ CopyStep \/ ChoosePort \/ Spawn
    \/ EngineUp \/ EngineExit \/ Healthy \/ Deadline \/ CloseEarly \/ Crash
    \/ Change \/ DraftDue \/ SaveInPage \/ Leave \/ Unload
    \/ DontSave \/ Cancel \/ SaveFirst \/ SaveEnds \/ SavedThen

DeskSpec == DeskInit /\ [][DeskNext]_deskVars

-----------------------------------------------------------------------------
\* Unsaved edits leave the window only by a save, by "Don't save", or with the
\* app's process: also those made while the save asked for is under way.
NothingLostUnasked ==
    [][loaded /\ dirty => \/ loaded' /\ dirty' /\ work' >= work
                          \/ SaveInPage \/ SaveEnds \/ DontSave \/ Crash]_deskVars

\* Unsaved work is in the draft of this origin, unless its last edit is not
\* 800 ms old or the storage refused it: a crash, and "Don't save", lose no more,
\* and a draft said to be clean never stands for work that is not saved.
DraftHoldsWork ==
    loaded /\ dirty /\ ~full /\ (timer => asked # "none")
        => drafts[port] = Draft(work, FALSE)

\* The shell stops the engine only once the window is gone: a window that asks,
\* saves, or stays after Cancel still has an engine (main.js:407-408).
EngineKept == On => engine # "told" \/ ~loaded

\* The projects folder is never a part of a copy, whenever the app is killed,
\* and a folder the user saved in is never replaced by one.
OldProjectsWhole ==
    [][to' # "part" /\ (to = "own" => to' = "own")]_deskVars
=============================================================================
