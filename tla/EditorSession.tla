--------------------------- MODULE EditorSession ---------------------------
(***************************************************************************)
(* One editor window (frontend/src/store/projectStore.ts): the open        *)
(* project, its `dirty` flag and the revision it is based on, the queue of *)
(* saves, the one dialog the window can show, and what replaces the open   *)
(* project: Open, New, Import, Restore.  Saves, reads and dialogs are      *)
(* awaited, so everything else may happen in between.  The engine checks   *)
(* and writes a save in one step (ConditionalFile, which ProjectStorage    *)
(* implements).  Other windows and programs meet this one only on disk:    *)
(* they write and delete files whenever they like.                         *)
(*                                                                         *)
(* A version is a number: it stands for a content and for the revision     *)
(* (a hash of the content) that names it.                                  *)
(***************************************************************************)
EXTENDS Integers, Sequences, FiniteSets

CONSTANTS
  Ids,          (* Project ids.                                             *)
  OnDisk,       (* The projects on disk at first.                           *)
  None,         (* No file, no revision, no dialog, nothing under way.      *)
  MaxVersions,  (* Bound: versions ever made, by this window or elsewhere.  *)
  MaxCopies,    (* Bound: projects opened one after the other.              *)
  MaxReads,     (* Bound: reads under way at the same time.                 *)
  MaxSaves      (* Bound: saves asked.                                      *)

ASSUME IdsAssumption ==
    /\ IsFiniteSet(Ids)
    /\ OnDisk \subseteq Ids
    /\ OnDisk # {}
    /\ None \notin Ids \cup Nat
ASSUME BoundsAssumption ==
    /\ MaxVersions \in Nat
    /\ Cardinality(OnDisk) <= MaxVersions
    /\ MaxCopies \in Nat \ {0}
    /\ MaxReads \in Nat
    /\ MaxSaves \in Nat

VARIABLES
  disk,      \* [Ids -> version or None], the project files
  project,   \* the open project: [id, copy, version], one object per value
  revision,  \* the version the open copy says it is based on, or None
  dirty,     \* the open project has unsaved changes
  dialog,    \* the dialog on screen: None, Conflict, or what would replace
             \* the open project once its unsaved changes are dealt with
  queue,     \* saveQueue: for each save that waits, what it was asked for
  saving,    \* the save under way, or None
  resume,    \* a replacement whose "Save" has just ended, or None
  opening,   \* reads under way: what each is for, and the version it read
  made,      \* versions made so far (bound)
  copies,    \* projects opened so far (bound)
  saves,     \* saves asked so far (bound)
  used,      \* the ids in use: a new project gets another one
  base,      \* history: the version on disk the open copy really comes from
  crossed,   \* history: `revision` is the answer to the save of another copy
  kept,      \* history: the open project, as it stands, was written to its
             \* file, or is new and untouched
  own,       \* history: the last write of a project file, if this window did
             \* it and its answer was not lost: [copy, version], or None
  gaveUp     \* history: the user chose to lose the open project as it stands

history == <<base, crossed, kept, own, gaveUp>>
open == <<project, revision, dirty, copies, used, base, crossed, kept, gaveUp>>
vars == <<disk, project, revision, dirty, dialog, queue, saving, resume,
          opening, made, copies, saves, used, history>>

Version == 1..MaxVersions
Project == [id: Ids, copy: 1..MaxCopies, version: Version]

\* What can replace the open project.  A project that is new to the disk gets
\* a fresh id; the file an import reads brings its own.
Replacement ==
    [kind: {"open", "import"}, id: Ids] \cup [kind: {"new", "example", "restore"}, id: {None}]

\* The dialog of a save that was refused.
Conflict == [kind |-> "conflict", id |-> None]

\* Replacements that first read something: a file the user picked, a backup.
ReadsFirst(what) == what.kind \in {"import", "restore"}

\* Replacements whose project is fetched after the user was asked.
FetchesLater(what) == what.kind \in {"open", "example"}

\* How far a save is: with the engine ("sent", and "resent" to overwrite),
\* answered ("saved", "conflict"), or waiting for the user ("dialog").
Save == [project: Project, revision: Version \cup {None}, for: Replacement \cup {None},
         stage: {"sent", "saved", "conflict", "dialog", "resent"},
         base: Version \cup {None}, crossed: BOOLEAN]

\* The last write of a project file.
Write == [copy: 1..MaxCopies, version: Version]

ASSUME NoneAssumption == None \notin Replacement \cup {Conflict} \cup Save \cup Write

\* A read under way, and the version it read: only "open" reads a file.
Read == {o \in [what: Replacement, got: Version \cup {None}] :
            o.got # None => o.what.kind = "open"}

Init ==
    /\ disk \in [Ids -> Version \cup {None}]
    /\ \A i \in Ids : disk[i] = None <=> i \notin OnDisk
    /\ \A i, j \in OnDisk : disk[i] = disk[j] => i = j
    /\ made = Cardinality(OnDisk)
    /\ \A i \in OnDisk : disk[i] <= made
    /\ \E i \in OnDisk :
          /\ project = [id |-> i, copy |-> 1, version |-> disk[i]]
          /\ revision = disk[i]
          /\ base = disk[i]
    /\ dirty = FALSE
    /\ dialog = None
    /\ queue = <<>>
    /\ saving = None
    /\ resume = None
    /\ opening = {}
    /\ copies = 1
    /\ saves = 0
    /\ used = OnDisk
    /\ crossed = FALSE
    /\ kept = TRUE
    /\ own = None
    /\ gaveUp = FALSE

\* Promise callbacks that are due run before the next event: what follows a
\* save that has ended, and the save that waited for it.
MutantQueue == TRUE
QueueIsFree == saving = None
Settled == resume = None /\ ~(QueueIsFree /\ queue # <<>>)

\* A dialog covers the window: the rest of it gets no clicks.
Clickable == Settled /\ dialog = None

-----------------------------------------------------------------------------
\* A project takes the place of the open one.  `rev` is the version it was
\* read from, None when it is not on disk yet.
Become(id, version, rev, unsaved) ==
    /\ copies' = copies + 1
    /\ project' = [id |-> id, copy |-> copies', version |-> version]
    /\ revision' = rev
    /\ dirty' = unsaved
    /\ used' = used \cup {id}
    /\ base' = rev
    /\ crossed' = FALSE
    /\ kept' = ~unsaved
    /\ gaveUp' = FALSE

\* Bound: a project can still be opened, with a version and an id of its own.
CanBecome(what) ==
    /\ copies < MaxCopies
    /\ FetchesLater(what) => Cardinality(opening) < MaxReads
    /\ what.kind # "open" => made < MaxVersions
    /\ what.kind \in {"new", "example", "restore"} => used # Ids

\* newProject, importProject and openAsCopy replace the project at once;
\* openProject and openExample read it first.  `reads` are the other reads;
\* `leave` tells whether the user chose to lose the open project as it is.
Undertake(what, reads, leave) ==
    /\ CanBecome(what)
    /\ \/ /\ FetchesLater(what)
          /\ opening' = reads \cup {[what |-> what, got |-> None]}
          /\ gaveUp' = (gaveUp \/ leave)
          /\ UNCHANGED <<project, revision, dirty, copies, used, base, crossed, kept, made>>
       \/ /\ ~FetchesLater(what)
          /\ opening' = reads
          /\ made' = made + 1
          /\ \/ what.kind = "import" /\ Become(what.id, made', None, TRUE)
             \/ /\ what.kind # "import"
                /\ \E id \in Ids \ used : Become(id, made', None, what.kind = "restore")

\* confirmReplaceProject, up to its dialog.  A dialog takes the place of the
\* one on screen, whose caller then never hears of an answer.
ConfirmReplace(what, reads) ==
    \/ ~dirty /\ Undertake(what, reads, FALSE) /\ UNCHANGED dialog
    \/ /\ dirty
       /\ dialog' = what
       /\ opening' = reads
       /\ UNCHANGED <<open, made>>

\* The user clicks Open, New or an example.
Choose(what) ==
    /\ Clickable
    /\ ~ReadsFirst(what)
    /\ ConfirmReplace(what, opening)
    /\ UNCHANGED <<disk, queue, saving, resume, saves, own>>

\* The user picks a file to import or a backup to restore: it is read first,
\* and the user is asked when it has been read.
ChooseAndRead(what) ==
    /\ Clickable
    /\ ReadsFirst(what)
    /\ Cardinality(opening) < MaxReads
    /\ opening' = opening \cup {[what |-> what, got |-> None]}
    /\ UNCHANGED <<disk, open, dialog, queue, saving, resume, made, saves, own>>

ReadArrives(o) ==
    /\ Settled
    /\ o \in opening /\ ReadsFirst(o.what)
    /\ ConfirmReplace(o.what, opening \ {o})
    /\ UNCHANGED <<disk, queue, saving, resume, saves, own>>

\* The answer to "Save changes to ...?".
DontSave ==
    /\ Settled
    /\ dialog \in Replacement
    /\ dialog' = None
    /\ Undertake(dialog, opening, TRUE)
    /\ UNCHANGED <<disk, queue, saving, resume, saves, own>>

KeepOpen ==
    /\ Settled
    /\ dialog \in Replacement
    /\ dialog' = None
    /\ UNCHANGED <<disk, open, queue, saving, resume, opening, made, saves, own>>

\* saveRemote puts a save at the end of saveQueue.
Enqueue(for) ==
    /\ Settled
    /\ saves < MaxSaves
    /\ saves' = saves + 1
    /\ queue' = Append(queue, for)
    /\ UNCHANGED <<disk, open, saving, resume, opening, made, own>>

SaveFirst == dialog \in Replacement /\ dialog' = None /\ Enqueue(dialog)

\* Ctrl+S reaches the window under a dialog, too.
SaveRemote == Enqueue(None) /\ UNCHANGED dialog

\* The rest of confirmReplaceProject after its save: it goes ahead if nothing
\* is unsaved now.
MutantNothingUnsaved == TRUE
NothingUnsaved == ~dirty

Resume ==
    /\ resume # None
    /\ resume' = None
    /\ \/ NothingUnsaved /\ Undertake(resume, opening, FALSE)
       \/ /\ ~NothingUnsaved \/ ~CanBecome(resume)
          /\ UNCHANGED <<open, opening, made>>
    /\ UNCHANGED <<disk, dialog, queue, saving, saves, own>>

-----------------------------------------------------------------------------
\* openProject and openExample, when the engine answers.
ReadProject(o) ==
    /\ o \in opening /\ o.what.kind = "open" /\ o.got = None
    /\ disk[o.what.id] # None
    /\ opening' = (opening \ {o}) \cup {[o EXCEPT !.got = disk[o.what.id]]}
    /\ UNCHANGED <<disk, open, dialog, queue, saving, resume, made, saves, own>>

OpenArrives(o) ==
    /\ Settled
    /\ o \in opening /\ FetchesLater(o.what)
    /\ opening' = opening \ {o}
    /\ copies < MaxCopies
    /\ \/ /\ o.got # None
          /\ Become(o.what.id, o.got, o.got, FALSE)
          /\ UNCHANGED made
       \/ /\ o.what.kind = "example"
          /\ made < MaxVersions
          /\ made' = made + 1
          /\ \E id \in Ids \ used : Become(id, made', None, FALSE)
    /\ UNCHANGED <<disk, dialog, queue, saving, resume, saves, own>>

\* The project is gone, the engine does not answer, the backup cannot be read:
\* a message, and the open project stays.
ReadFails(o) ==
    /\ Settled
    /\ o \in opening
    /\ opening' = opening \ {o}
    /\ UNCHANGED <<disk, open, dialog, queue, saving, resume, made, saves, own>>

\* updateProject makes a new project object of every edit.
Edit ==
    /\ Settled
    /\ made < MaxVersions
    /\ made' = made + 1
    /\ project' = [project EXCEPT !.version = made']
    /\ dirty' = TRUE
    /\ kept' = FALSE
    /\ gaveUp' = FALSE
    /\ UNCHANGED <<disk, revision, dialog, queue, saving, resume, opening,
                    copies, saves, used, base, crossed, own>>

-----------------------------------------------------------------------------
\* A queued save starts when the one before it has ended, from the project and
\* the revision of that moment.
StartSave ==
    /\ queue # <<>>
    /\ QueueIsFree
    /\ queue' = Tail(queue)
    /\ saving' = [project |-> project, revision |-> revision, for |-> Head(queue),
                  stage |-> "sent", base |-> base, crossed |-> crossed]
    /\ UNCHANGED <<disk, open, dialog, resume, opening, made, saves, own>>

To(stage) == saving' = [saving EXCEPT !.stage = stage]

\* If-Match names the revision; without one, If-None-Match: *.  The second
\* save, after "Overwrite", has no condition.
MutantConflicts == saving.revision # None /\ disk[saving.project.id] # saving.revision
Conflicts ==
    IF saving.revision = None THEN disk[saving.project.id] # None
                              ELSE disk[saving.project.id] # saving.revision

EngineRefuses ==
    /\ saving # None /\ saving.stage = "sent"
    /\ Conflicts
    /\ To("conflict")
    /\ UNCHANGED <<disk, open, dialog, queue, resume, opening, made, saves, own>>

EngineSaves ==
    /\ saving # None
    /\ \/ saving.stage = "resent"
       \/ saving.stage = "sent" /\ ~Conflicts
    /\ To("saved")
    /\ disk' = [disk EXCEPT ![saving.project.id] = saving.project.version]
    /\ kept' = (kept \/ project = saving.project)
    /\ own' = [copy |-> saving.project.copy, version |-> saving.project.version]
    /\ UNCHANGED <<project, revision, dirty, copies, used, base, crossed, gaveUp,
                    dialog, queue, resume, opening, made, saves>>

\* The save's promise resolves, and with it what waited for it.
MutantFinish ==
    /\ saving' = IF saving.stage = "saved" THEN None ELSE saving
    /\ resume' = saving.for
Finish == saving' = None /\ resume' = saving.for

\* An edit made while the save was in flight is still unsaved.
MutantStillUnsaved == FALSE
StillUnsaved == project # saving.project

SaveAnswered ==
    /\ Settled
    /\ saving # None /\ saving.stage = "saved"
    /\ dirty' = StillUnsaved
    /\ revision' = saving.project.version
    /\ crossed' = (project.copy # saving.project.copy)
    /\ base' = IF crossed' THEN base ELSE revision'
    /\ Finish
    /\ UNCHANGED <<disk, project, copies, used, kept, dialog, queue, opening,
                    made, saves, own, gaveUp>>

\* The engine cannot be reached or fails, before the file is replaced or after:
\* a message, and nothing else changes.
SaveFails ==
    /\ Settled
    /\ saving # None /\ saving.stage \in {"sent", "resent", "saved", "conflict"}
    /\ own' = IF saving.stage = "saved" THEN None ELSE own
    /\ Finish
    /\ UNCHANGED <<disk, open, dialog, queue, opening, made, saves>>

ConflictAnswered ==
    /\ Settled
    /\ saving # None /\ saving.stage = "conflict"
    /\ To("dialog")
    /\ dialog' = Conflict
    /\ UNCHANGED <<disk, open, queue, resume, opening, made, saves, own>>

Overwrite ==
    /\ Settled
    /\ dialog = Conflict
    /\ dialog' = None
    /\ To("resent")
    /\ UNCHANGED <<disk, open, queue, resume, opening, made, saves, own>>

CancelSave ==
    /\ Settled
    /\ dialog = Conflict
    /\ dialog' = None
    /\ Finish
    /\ UNCHANGED <<disk, open, queue, opening, made, saves, own>>

-----------------------------------------------------------------------------
\* Another window or program saves a project, or deletes it.
OthersWrite(id) ==
    /\ made < MaxVersions
    /\ id \in used
    /\ made' = made + 1
    /\ disk' = [disk EXCEPT ![id] = made']
    /\ UNCHANGED <<open, dialog, queue, saving, resume, opening, saves, own>>

OthersDelete(id) ==
    /\ disk[id] # None
    /\ disk' = [disk EXCEPT ![id] = None]
    /\ UNCHANGED <<open, dialog, queue, saving, resume, opening, made, saves, own>>

EngineAnswers == EngineRefuses \/ EngineSaves \/ SaveAnswered \/ ConflictAnswered \/ SaveFails
UserAnswers == DontSave \/ KeepOpen \/ SaveFirst \/ Overwrite \/ CancelSave

Next ==
    \/ \E what \in Replacement : Choose(what) \/ ChooseAndRead(what)
    \/ \E o \in opening : ReadArrives(o) \/ ReadProject(o) \/ OpenArrives(o) \/ ReadFails(o)
    \/ Edit
    \/ SaveRemote
    \/ Resume
    \/ StartSave
    \/ EngineAnswers
    \/ UserAnswers
    \/ \E id \in Ids : OthersWrite(id) \/ OthersDelete(id)

\* A callback that is due runs, a request is answered or fails, and the user
\* answers a dialog that stays on screen.
Fairness ==
    /\ WF_vars(Resume)
    /\ WF_vars(StartSave)
    /\ WF_vars(EngineAnswers)
    /\ WF_vars(UserAnswers)

Spec == Init /\ [][Next]_vars /\ Fairness

-----------------------------------------------------------------------------
(* Properties *)

Conflicted == saving # None /\ saving.stage = "dialog"

\* Also: the dialog about a conflict is that of the save under way, and
\* nothing comes of a save while its callbacks are due.
TypeOK ==
    /\ disk \in [Ids -> Version \cup {None}]
    /\ project \in Project
    /\ revision \in Version \cup {None}
    /\ dirty \in BOOLEAN
    /\ dialog \in Replacement \cup {Conflict, None}
    /\ dialog = Conflict => Conflicted
    /\ queue \in Seq(Replacement \cup {None})
    /\ saving \in Save \cup {None}
    /\ resume \in Replacement \cup {None}
    /\ opening \in SUBSET Read
    /\ made \in 0..MaxVersions
    /\ copies \in 1..MaxCopies
    /\ saves \in 0..MaxSaves
    /\ used \in SUBSET Ids
    /\ base \in Version \cup {None}
    /\ crossed \in BOOLEAN
    /\ kept \in BOOLEAN
    /\ own \in Write \cup {None}
    /\ gaveUp \in BOOLEAN

\* The star is honest: a project shown without unsaved changes is, as it
\* stands, a version that was written to its file, unless it is new and
\* untouched (`dirty`, which every dialog about losing work goes by).
CleanMeansStored == ~dirty => kept

\* The step replaces a project file, and not with leave to overwrite it: which
\* version goes?
ReplacesUnasked == EngineSaves /\ saving.stage = "sent"
VersionLost == disk[saving.project.id]

\* A save replaces only the version its project comes from, unless the user
\* chose to overwrite, or the answer to the save of another project had
\* given this one a revision that is not its own.
OverwritesOwnVersion ==
    [][ReplacesUnasked => VersionLost \in {None, saving.base} \/ saving.crossed]_vars

\* As it is documented: without the user's choice no save replaces a version
\* its project does not come from.
OverwritesWhenAsked ==
    [][ReplacesUnasked => VersionLost \in {None, saving.base}]_vars

\* The last write of a project file was this window's, of that copy and version.
IsOwn(copy, version) == own # None /\ own = [copy |-> copy, version |-> version]

\* A project's save is not refused because of the project's own earlier save,
\* whose answer had arrived (the reason for saveQueue).
NoConflictWithItself ==
    [][(saving # None /\ EngineRefuses)
          => ~IsOwn(saving.project.copy, disk[saving.project.id])]_vars

\* The open project is replaced only when nothing is unsaved or the user chose
\* to lose that very state of it, however long the read or the save before it
\* took; but for a project that was fetched meanwhile.
ReplacesWithLeave ==
    [][project'.copy # project.copy
          => \/ ~dirty
             \/ gaveUp \/ DontSave
             \/ \E o \in opening \ opening' : FetchesLater(o.what)]_vars

\* As it is documented, with no exception.
AsksBeforeReplacing ==
    [][project'.copy # project.copy => ~dirty \/ gaveUp \/ DontSave]_vars

\* A save ends, whatever the engine and the user answer, unless another dialog
\* took the place of the one it waits for; and the next one starts.
SavesFinish == saving # None ~> saving = None \/ (Conflicted /\ dialog # Conflict)

\* As it is documented: a dialog's caller hears what the user answers.
EveryDialogAnswered == Conflicted ~> ~Conflicted
=============================================================================
