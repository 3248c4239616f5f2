------------------------ MODULE EditorSession_proofs ------------------------
(***************************************************************************)
(* Proofs about EditorSession: its type invariant, that `dirty` is honest, *)
(* that a save overwrites only what its project comes from, that no save   *)
(* conflicts with one of the window's own, and that a project is replaced  *)
(* only with leave.  For every number of projects, versions and saves.     *)
(***************************************************************************)
EXTENDS EditorSession, FiniteSetTheorems, SequenceTheorems, TLAPS

USE IdsAssumption, BoundsAssumption, NoneAssumption

\* Versions and copies are numbered in the order they are made.
NumbersInv ==
    /\ project.version <= made
    /\ project.copy = copies
    /\ saving # None => saving.project.version <= made /\ saving.project.copy <= copies
    /\ own # None => own.copy <= copies

\* So are the versions on disk and those a read has got.
MadeInv ==
    /\ \A i \in Ids : disk[i] # None => disk[i] <= made
    /\ \A o \in opening : o.got # None => o.got <= made

\* What a save wrote is the open project, unless that was edited or replaced.
StoredInv ==
    /\ ~dirty => kept
    /\ (saving # None /\ saving.stage = "saved" /\ project = saving.project) => kept

\* The revision says where the copy comes from, unless an answer crossed.
BaseInv ==
    /\ crossed \/ revision = base
    /\ saving # None => saving.crossed \/ saving.revision = saving.base

\* A copy whose save was answered carries the revision of that save.
OwnInv ==
    /\ (saving # None /\ saving.stage = "saved") =>
          own = [copy |-> saving.project.copy, version |-> saving.project.version]
    /\ (own # None /\ own.copy = project.copy) =>
          \/ revision = own.version
          \/ saving # None /\ saving.stage = "saved"
    /\ (own # None /\ saving # None /\ saving.stage = "sent"
           /\ own.copy = saving.project.copy) => saving.revision = own.version

IInv == TypeOK /\ NumbersInv /\ MadeInv /\ StoredInv /\ BaseInv /\ OwnInv

-----------------------------------------------------------------------------
(* The type invariant.                                                      *)

\* The first project is one that is on disk.
LEMMA InitIInv == Init => IInv
<1> SUFFICES ASSUME Init PROVE IInv
  OBVIOUS
<1>1. made \in Nat /\ made <= MaxVersions
  <2>1. IsFiniteSet(OnDisk)
    BY FS_Subset
  <2>2. QED
    BY <2>1, FS_CardinalityType DEF Init
<1>2. PICK i \in OnDisk :
          /\ project = [id |-> i, copy |-> 1, version |-> disk[i]]
          /\ revision = disk[i]
          /\ base = disk[i]
  BY DEF Init
<1>3. disk[i] \in Version /\ disk[i] <= made /\ i \in Ids
  BY <1>2 DEF Init
<1>4. TypeOK
  <2>1. /\ disk \in [Ids -> Version \cup {None}]
        /\ project \in Project
        /\ {revision, base} \subseteq Version \cup {None}
        /\ made \in 0..MaxVersions
    BY <1>1, <1>2, <1>3 DEF Init, Project
  <2>2. /\ dialog \in Replacement \cup {Conflict, None}
        /\ dialog = Conflict => Conflicted
        /\ queue \in Seq(Replacement \cup {None})
        /\ saving \in Save \cup {None}
        /\ resume \in Replacement \cup {None}
        /\ opening \in SUBSET Read
        /\ own \in Write \cup {None}
    BY DEF Init
  <2>3. /\ copies \in 1..MaxCopies
        /\ saves \in 0..MaxSaves
        /\ used \in SUBSET Ids
    BY DEF Init
  <2>4. /\ dirty \in BOOLEAN
        /\ crossed \in BOOLEAN
        /\ kept \in BOOLEAN
        /\ gaveUp \in BOOLEAN
    BY DEF Init
  <2>5. QED
    BY <2>1, <2>2, <2>3, <2>4 DEF TypeOK
<1>5. NumbersInv /\ MadeInv /\ StoredInv /\ BaseInv /\ OwnInv
  BY <1>2, <1>3 DEF Init, NumbersInv, MadeInv, StoredInv, BaseInv, OwnInv
<1>6. QED
  BY <1>4, <1>5 DEF IInv

\* A project that takes the place of the open one is well typed.
LEMMA BecomeType ==
  ASSUME TypeOK, NEW id \in Ids, NEW version \in Version, NEW rev \in Version \cup {None},
         NEW unsaved \in BOOLEAN, copies < MaxCopies, Become(id, version, rev, unsaved)
  PROVE  /\ project' \in Project /\ revision' \in Version \cup {None}
         /\ dirty' \in BOOLEAN /\ copies' \in 1..MaxCopies /\ used' \in SUBSET Ids
         /\ base' \in Version \cup {None} /\ crossed' \in BOOLEAN
         /\ kept' \in BOOLEAN /\ gaveUp' \in BOOLEAN
<1>1. copies' = copies + 1 /\ copies' \in 1..MaxCopies
  BY DEF TypeOK, Become
<1>2. project' \in Project
  BY <1>1 DEF Become, Project
<1>3. used' \in SUBSET Ids
  BY DEF TypeOK, Become
<1>4. dirty' \in BOOLEAN /\ crossed' \in BOOLEAN /\ kept' \in BOOLEAN /\ gaveUp' \in BOOLEAN
  BY Zenon DEF Become
<1>5. QED
  BY <1>1, <1>2, <1>3, <1>4 DEF Become

\* What Undertake changes stays well typed.
LEMMA UndertakeType ==
  ASSUME TypeOK, NEW what \in Replacement,
         NEW reads \in SUBSET Read,
         NEW leave \in BOOLEAN, Undertake(what, reads, leave)
  PROVE  /\ project' \in Project /\ revision' \in Version \cup {None}
         /\ dirty' \in BOOLEAN /\ copies' \in 1..MaxCopies /\ used' \in SUBSET Ids
         /\ base' \in Version \cup {None} /\ crossed' \in BOOLEAN
         /\ kept' \in BOOLEAN /\ gaveUp' \in BOOLEAN
         /\ made' \in 0..MaxVersions
         /\ opening' \in SUBSET Read
<1>1. CASE FetchesLater(what)
  <2>1. [what |-> what, got |-> None] \in Read
    BY DEF Read
  <2>2. opening' \in SUBSET Read
    BY <1>1, <2>1 DEF Undertake
  <2>3. gaveUp' \in BOOLEAN
    BY <1>1, Zenon DEF Undertake
  <2>4. QED
    BY <1>1, <2>2, <2>3 DEF TypeOK, Undertake
<1>2. CASE ~FetchesLater(what)
  <2>1. /\ copies < MaxCopies /\ made' = made + 1 /\ opening' = reads
        /\ \/ what.kind = "import" /\ Become(what.id, made', None, TRUE)
           \/ /\ what.kind # "import"
              /\ \E id \in Ids \ used : Become(id, made', None, what.kind = "restore")
    BY <1>2 DEF Undertake, CanBecome
  <2>2. made < MaxVersions
    BY <1>2 DEF Undertake, CanBecome, FetchesLater
  <2>3. made' \in Version /\ made' \in 0..MaxVersions
    BY <2>1, <2>2 DEF TypeOK, Version
  <2>4. CASE what.kind = "import" /\ Become(what.id, made', None, TRUE)
    <3>1. what.id \in Ids
      BY <2>4 DEF Replacement
    <3>2. QED
      BY <2>1, <2>3, <2>4, <3>1, BecomeType
  <2>5. CASE \E id \in Ids \ used : Become(id, made', None, what.kind = "restore")
    BY <2>1, <2>3, <2>5, BecomeType
  <2>6. QED
    BY <2>1, <2>4, <2>5
<1>3. QED
  BY <1>1, <1>2

\* So does what ConfirmReplace changes, its dialog included.
LEMMA ConfirmType ==
  ASSUME TypeOK, NEW what \in Replacement,
         NEW reads \in SUBSET Read,
         ConfirmReplace(what, reads),
         UNCHANGED <<disk, queue, saving, resume, saves, own>>
  PROVE  TypeOK'
<1>1. CASE Undertake(what, reads, FALSE) /\ UNCHANGED dialog
  <2>1. UNCHANGED <<disk, dialog, queue, saving, resume, saves, own>>
    BY <1>1
  <2>2. QED
    BY <1>1, <2>1, UndertakeType DEF TypeOK, Conflicted
<1>2. CASE dialog' = what /\ opening' = reads /\ UNCHANGED <<open, made>>
  <2>1. what # Conflict
    BY DEF Replacement, Conflict
  <2>2. QED
    BY <1>2, <2>1 DEF TypeOK, open
<1>3. QED
  BY <1>1, <1>2 DEF ConfirmReplace

\* And what follows the answer to a dialog, or a save that has ended.
LEMMA LeaveType ==
  ASSUME TypeOK, NEW what \in Replacement, NEW leave \in BOOLEAN,
         Undertake(what, opening, leave),
         dialog' \in {dialog, None}, resume' \in {resume, None},
         UNCHANGED <<disk, queue, saving, saves, own>>
  PROVE  TypeOK'
<1>1. opening \in SUBSET Read
  BY DEF TypeOK
<1>2. dialog' \in Replacement \cup {Conflict, None} /\ (dialog' = Conflict => Conflicted')
  BY DEF TypeOK, Conflicted
<1>3. QED
  BY <1>1, <1>2, UndertakeType DEF TypeOK

\* Every step of the window, the engine, the user and other programs.
LEMMA NextType == TypeOK /\ [Next]_vars => TypeOK'
<1> SUFFICES ASSUME TypeOK, [Next]_vars PROVE TypeOK'
  OBVIOUS
<1>1. ASSUME NEW what \in Replacement, Choose(what) PROVE TypeOK'
  BY <1>1, ConfirmType DEF Choose, TypeOK
<1>2. ASSUME NEW what \in Replacement, ChooseAndRead(what) PROVE TypeOK'
  <2>1. [what |-> what, got |-> None] \in Read
    BY DEF Read
  <2>2. opening' \in SUBSET Read
    BY <1>2, <2>1 DEF TypeOK, ChooseAndRead
  <2>3. QED
    BY <1>2, <2>2 DEF TypeOK, Conflicted, ChooseAndRead, open
<1>3. ASSUME NEW o \in opening, ReadArrives(o) PROVE TypeOK'
  <2>1. o.what \in Replacement
    BY DEF TypeOK, Read
  <2>2. opening \ {o} \in SUBSET Read
    BY DEF TypeOK
  <2>3. QED
    BY <1>3, <2>1, <2>2, ConfirmType DEF ReadArrives
<1>4. ASSUME NEW o \in opening, ReadProject(o) PROVE TypeOK'
  <2>1. o \in Read
    BY DEF TypeOK
  <2>2. o.what.id \in Ids
    BY <1>4, <2>1 DEF ReadProject, Replacement, Read
  <2>3. [o EXCEPT !.got = disk[o.what.id]] \in Read
    BY <1>4, <2>1, <2>2 DEF TypeOK, Read, ReadProject
  <2>4. opening' \in SUBSET Read
    BY <1>4, <2>3 DEF TypeOK, ReadProject
  <2>5. QED
    BY <1>4, <2>4 DEF TypeOK, Conflicted, ReadProject, open
<1>5. ASSUME NEW o \in opening, OpenArrives(o) PROVE TypeOK'
  <2>1. opening' \in SUBSET Read
    BY <1>5 DEF TypeOK, OpenArrives
  <2>2. CASE o.got # None /\ made' = made /\ Become(o.what.id, o.got, o.got, FALSE)
    <3>1. o.what \in Replacement /\ o.got \in Version /\ o.what.kind = "open"
      BY <2>2 DEF TypeOK, Read
    <3>2. o.what.id \in Ids
      BY <3>1 DEF Replacement
    <3>3. QED
      BY <1>5, <2>1, <2>2, <3>1, <3>2, BecomeType DEF TypeOK, Conflicted, OpenArrives
  <2>3. CASE /\ made < MaxVersions /\ made' = made + 1
             /\ \E id \in Ids \ used : Become(id, made', None, FALSE)
    <3>1. made' \in Version /\ made' \in 0..MaxVersions
      BY <2>3 DEF TypeOK, Version
    <3>2. QED
      BY <1>5, <2>1, <2>3, <3>1, BecomeType DEF TypeOK, Conflicted, OpenArrives
  <2>4. QED
    BY <1>5, <2>2, <2>3 DEF OpenArrives
<1>6. ASSUME NEW o \in opening, ReadFails(o) PROVE TypeOK'
  BY <1>6 DEF TypeOK, Conflicted, ReadFails, open
<1>7. ASSUME Edit PROVE TypeOK'
  <2>1. made' \in 0..MaxVersions /\ made' \in Version
    BY <1>7 DEF TypeOK, Edit, Version
  <2>2. project' \in Project
    BY <1>7, <2>1 DEF TypeOK, Edit, Project
  <2>3. dirty' \in BOOLEAN /\ kept' \in BOOLEAN /\ gaveUp' \in BOOLEAN
    BY <1>7 DEF Edit
  <2>4. QED
    BY <1>7, <2>1, <2>2, <2>3 DEF TypeOK, Conflicted, Edit
<1>8. ASSUME NEW for \in Replacement \cup {None}, Enqueue(for), dialog' \in {dialog, None}
      PROVE  TypeOK'
  <2>1. saves' \in 0..MaxSaves
    BY <1>8 DEF TypeOK, Enqueue
  <2>2. queue' \in Seq(Replacement \cup {None})
    BY <1>8 DEF TypeOK, Enqueue
  <2>3. QED
    BY <1>8, <2>1, <2>2 DEF TypeOK, Conflicted, Enqueue, open
<1>9. ASSUME Resume PROVE TypeOK'
  <2>1. resume \in Replacement
    BY <1>9 DEF TypeOK, Resume
  <2>2. CASE Undertake(resume, opening, FALSE)
    BY <1>9, <2>1, <2>2, LeaveType DEF Resume
  <2>3. CASE UNCHANGED <<open, opening, made>>
    BY <1>9, <2>3 DEF TypeOK, Conflicted, Resume, open
  <2>4. QED
    BY <1>9, <2>2, <2>3 DEF Resume
<1>10. ASSUME StartSave PROVE TypeOK'
  <2>1. Head(queue) \in Replacement \cup {None}
    BY <1>10 DEF TypeOK, StartSave
  <2>2. saving' \in Save
    BY <1>10, <2>1 DEF TypeOK, StartSave, Save
  <2>3. queue' \in Seq(Replacement \cup {None})
    BY <1>10 DEF TypeOK, StartSave
  <2>4. dialog' # Conflict
    BY <1>10 DEF TypeOK, StartSave, QueueIsFree, Conflicted
  <2>5. QED
    BY <1>10, <2>2, <2>3, <2>4 DEF TypeOK, StartSave, open
<1>11. ASSUME EngineRefuses PROVE TypeOK'
  BY <1>11 DEF TypeOK, Conflicted, EngineRefuses, To, Save, open
<1>12. ASSUME EngineSaves PROVE TypeOK'
  <2>1. saving \in Save /\ saving.stage \in {"sent", "resent"}
    BY <1>12 DEF TypeOK, EngineSaves
  <2>2. saving' \in Save /\ dialog # Conflict
    BY <1>12, <2>1 DEF TypeOK, Conflicted, EngineSaves, To, Save
  <2>3. saving.project \in Project
    BY <2>1 DEF Save
  <2>4. disk' \in [Ids -> Version \cup {None}] /\ own' \in Write
    BY <1>12, <2>3 DEF TypeOK, EngineSaves, Project, Write
  <2>5. kept' \in BOOLEAN
    BY <1>12, Zenon DEF EngineSaves
  <2>6. QED
    BY <1>12, <2>2, <2>4, <2>5 DEF TypeOK, EngineSaves
<1>13. ASSUME SaveAnswered PROVE TypeOK'
  <2>1. saving \in Save /\ saving.stage = "saved"
    BY <1>13 DEF TypeOK, SaveAnswered
  <2>2. revision' \in Version /\ resume' \in Replacement \cup {None} /\ saving' = None
    BY <1>13, <2>1 DEF SaveAnswered, Finish, Save, Project
  <2>3. dirty' \in BOOLEAN /\ crossed' \in BOOLEAN
    BY <1>13, Zenon DEF SaveAnswered, StillUnsaved
  <2>4. base' \in Version \cup {None}
    BY <1>13, <2>2 DEF TypeOK, SaveAnswered
  <2>5. dialog # Conflict
    BY <1>13 DEF TypeOK, SaveAnswered, Conflicted
  <2>6. QED
    BY <1>13, <2>2, <2>3, <2>4, <2>5 DEF TypeOK, SaveAnswered
<1>14. ASSUME SaveFails PROVE TypeOK'
  <2>1. saving \in Save /\ saving.stage # "dialog"
    BY <1>14 DEF TypeOK, SaveFails
  <2>2. resume' \in Replacement \cup {None} /\ saving' = None /\ dialog # Conflict
    BY <1>14, <2>1 DEF TypeOK, SaveFails, Finish, Save, Conflicted
  <2>3. QED
    BY <1>14, <2>2 DEF TypeOK, SaveFails, open
<1>15. ASSUME ConflictAnswered PROVE TypeOK'
  <2>1. saving' \in Save /\ saving'.stage = "dialog" /\ dialog' = Conflict
    BY <1>15 DEF TypeOK, ConflictAnswered, To, Save
  <2>2. saving' # None
    BY <1>15, <2>1 DEF Save
  <2>3. QED
    BY <1>15, <2>1, <2>2 DEF TypeOK, Conflicted, ConflictAnswered, open
<1>16. ASSUME Overwrite PROVE TypeOK'
  BY <1>16 DEF TypeOK, Conflicted, Overwrite, To, Save, open
<1>17. ASSUME CancelSave PROVE TypeOK'
  <2>1. saving \in Save
    BY <1>17 DEF TypeOK, CancelSave, Conflicted
  <2>2. resume' \in Replacement \cup {None} /\ saving' = None /\ dialog' = None
    BY <1>17, <2>1 DEF CancelSave, Finish, Save
  <2>3. QED
    BY <1>17, <2>2 DEF TypeOK, CancelSave, open
<1>18. ASSUME DontSave PROVE TypeOK'
  BY <1>18, LeaveType DEF DontSave
<1>19. ASSUME KeepOpen PROVE TypeOK'
  BY <1>19 DEF TypeOK, KeepOpen, open
<1>20. ASSUME NEW id \in Ids, OthersWrite(id) PROVE TypeOK'
  <2>1. made' \in 0..MaxVersions /\ made' \in Version
    BY <1>20 DEF TypeOK, OthersWrite, Version
  <2>2. disk' \in [Ids -> Version \cup {None}]
    BY <1>20, <2>1 DEF TypeOK, OthersWrite
  <2>3. QED
    BY <1>20, <2>1, <2>2 DEF TypeOK, Conflicted, OthersWrite, open
<1>21. ASSUME NEW id \in Ids, OthersDelete(id) PROVE TypeOK'
  <2>1. disk' \in [Ids -> Version \cup {None}]
    BY <1>21 DEF TypeOK, OthersDelete
  <2>2. QED
    BY <1>21, <2>1 DEF TypeOK, Conflicted, OthersDelete, open
<1>22. CASE UNCHANGED vars
  BY <1>22 DEF TypeOK, Conflicted, vars, history
<1>23. ASSUME SaveFirst PROVE TypeOK'
  BY <1>8, <1>23 DEF SaveFirst
<1>24. ASSUME SaveRemote PROVE TypeOK'
  BY <1>8, <1>24 DEF SaveRemote
<1>25. QED
  BY <1>1, <1>2, <1>3, <1>4, <1>5, <1>6, <1>7, <1>9, <1>10, <1>11, <1>12, <1>13, <1>14,
     <1>15, <1>16, <1>17, <1>18, <1>19, <1>20, <1>21, <1>22, <1>23, <1>24
     DEF Next, EngineAnswers, UserAnswers

-----------------------------------------------------------------------------
(* The other invariants.  A step is of one of eight kinds, as far as they   *)
(* are concerned.                                                           *)

core == <<project, revision, dirty, copies, base, crossed, kept>>

\* The open project, the save under way and the last write stay.
Quiet == made' \in Nat /\ made' >= made /\ UNCHANGED <<core, saving, own>>

\* A project takes the place of the open one.
Replaces ==
    /\ copies' = copies + 1
    /\ project'.copy = copies' /\ project'.version <= made'
    /\ revision' = base'
    /\ ~dirty' => kept'
    /\ made' \in Nat /\ made' >= made
    /\ UNCHANGED <<saving, own>>

\* The save goes on to another stage, and writes nothing.
MovesOn ==
    /\ saving # None /\ saving.stage # "saved"
    /\ \E stage \in {"conflict", "dialog", "resent"} : To(stage)
    /\ UNCHANGED <<core, made, own>>

\* The save ends, and the window knows no more than before.
GivesUp ==
    /\ saving # None /\ saving' = None
    /\ own' = IF saving.stage = "saved" THEN None ELSE own
    /\ UNCHANGED <<core, made>>

\* A project that takes the place of the open one does so without a save.
LEMMA BecomeKind ==
  ASSUME NEW id, NEW version, NEW rev, NEW unsaved \in BOOLEAN,
         Become(id, version, rev, unsaved), version <= made',
         made' \in Nat, made' >= made, UNCHANGED <<saving, own>>
  PROVE  Replaces
<1>1. ~dirty' => kept'
  BY Zenon DEF Become
<1>2. QED
  BY <1>1 DEF Become, Replaces

\* What Undertake and ConfirmReplace come down to.
LEMMA UndertakeKind ==
  ASSUME TypeOK, NEW what \in Replacement, NEW reads, NEW leave \in BOOLEAN,
         Undertake(what, reads, leave), UNCHANGED <<saving, own>>
  PROVE  Quiet \/ Replaces
<1>1. CASE FetchesLater(what)
  BY <1>1 DEF TypeOK, Undertake, Quiet, core
<1>2. CASE ~FetchesLater(what)
  <2>1. /\ made < MaxVersions /\ made' = made + 1
        /\ \/ what.kind = "import" /\ Become(what.id, made', None, TRUE)
           \/ /\ what.kind # "import"
              /\ \E id \in Ids \ used : Become(id, made', None, what.kind = "restore")
    BY <1>2 DEF Undertake, CanBecome, FetchesLater
  <2>2. made' <= made' /\ made' \in Nat /\ made' >= made
    BY <2>1 DEF TypeOK
  <2>3. CASE what.kind = "import" /\ Become(what.id, made', None, TRUE)
    BY <2>2, <2>3, BecomeKind
  <2>4. CASE \E id \in Ids \ used : Become(id, made', None, what.kind = "restore")
    BY <2>2, <2>4, BecomeKind
  <2>5. QED
    BY <2>1, <2>3, <2>4
<1>3. QED
  BY <1>1, <1>2

\* ConfirmReplace may also do no more than ask.
LEMMA ConfirmKind ==
  ASSUME TypeOK, NEW what \in Replacement, NEW reads,
         ConfirmReplace(what, reads), UNCHANGED <<saving, own>>
  PROVE  Quiet \/ Replaces
<1>1. CASE Undertake(what, reads, FALSE)
  BY <1>1, UndertakeKind
<1>2. CASE UNCHANGED <<open, made>>
  BY <1>2 DEF TypeOK, Quiet, core, open
<1>3. QED
  BY <1>1, <1>2 DEF ConfirmReplace

\* Every step, by kind.
LEMMA StepKinds ==
  ASSUME TypeOK, MadeInv, [Next]_vars
  PROVE  Quiet \/ Replaces \/ MovesOn \/ GivesUp \/ Edit \/ StartSave \/ EngineSaves \/ SaveAnswered
<1> USE DEF Quiet, core, open
<1>0. made \in Nat
  BY DEF TypeOK
<1>1. ASSUME NEW what \in Replacement, Choose(what) PROVE Quiet \/ Replaces
  BY <1>1, ConfirmKind DEF Choose
<1>2. ASSUME NEW what \in Replacement, ChooseAndRead(what) PROVE Quiet
  BY <1>0, <1>2 DEF ChooseAndRead
<1>3. ASSUME NEW o \in opening, ReadArrives(o) PROVE Quiet \/ Replaces
  <2>1. o.what \in Replacement
    BY DEF TypeOK, Read
  <2>2. QED
    BY <1>3, <2>1, ConfirmKind DEF ReadArrives
<1>4. ASSUME NEW o \in opening, ReadProject(o) PROVE Quiet
  BY <1>0, <1>4 DEF ReadProject
<1>5. ASSUME NEW o \in opening, OpenArrives(o) PROVE Replaces
  <2>1. CASE o.got # None /\ made' = made /\ Become(o.what.id, o.got, o.got, FALSE)
    <3>1. o.got <= made' /\ made' \in Nat /\ made' >= made
      BY <1>0, <2>1 DEF MadeInv
    <3>2. QED
      BY <1>5, <2>1, <3>1, BecomeKind DEF OpenArrives
  <2>2. CASE /\ made < MaxVersions /\ made' = made + 1
             /\ \E id \in Ids \ used : Become(id, made', None, FALSE)
    <3>1. made' <= made' /\ made' \in Nat /\ made' >= made
      BY <1>0, <2>2
    <3>2. QED
      BY <1>5, <2>2, <3>1, BecomeKind DEF OpenArrives
  <2>3. QED
    BY <1>5, <2>1, <2>2 DEF OpenArrives
<1>6. ASSUME NEW o \in opening, ReadFails(o) PROVE Quiet
  BY <1>0, <1>6 DEF ReadFails
<1>7. ASSUME NEW for, Enqueue(for) PROVE Quiet
  BY <1>0, <1>7 DEF Enqueue
<1>8. ASSUME Resume PROVE Quiet \/ Replaces
  <2>1. resume \in Replacement
    BY <1>8 DEF TypeOK, Resume
  <2>2. QED
    <3>1. CASE Undertake(resume, opening, FALSE)
      BY <1>8, <2>1, <3>1, UndertakeKind DEF Resume
    <3>2. CASE UNCHANGED <<open, opening, made>>
      BY <1>0, <1>8, <3>2 DEF Resume
    <3>3. QED
      BY <1>8, <3>1, <3>2 DEF Resume
<1>9. ASSUME EngineRefuses PROVE MovesOn
  BY <1>9 DEF EngineRefuses, MovesOn
<1>10. ASSUME ConflictAnswered PROVE MovesOn
  BY <1>10 DEF ConflictAnswered, MovesOn
<1>11. ASSUME Overwrite PROVE MovesOn
  BY <1>11 DEF TypeOK, Conflicted, Overwrite, MovesOn
<1>12. ASSUME SaveFails PROVE GivesUp
  BY <1>12 DEF SaveFails, Finish, GivesUp
<1>13. ASSUME CancelSave PROVE GivesUp
  BY <1>13 DEF TypeOK, Conflicted, CancelSave, Finish, GivesUp
<1>14. ASSUME DontSave PROVE Quiet \/ Replaces
  BY <1>14, UndertakeKind DEF DontSave
<1>15. ASSUME KeepOpen PROVE Quiet
  BY <1>0, <1>15 DEF KeepOpen
<1>16. ASSUME NEW id \in Ids, OthersWrite(id) PROVE Quiet
  BY <1>0, <1>16 DEF OthersWrite
<1>17. ASSUME NEW id \in Ids, OthersDelete(id) PROVE Quiet
  BY <1>0, <1>17 DEF OthersDelete
<1>18. CASE UNCHANGED vars
  BY <1>0, <1>18 DEF vars, history
<1>19. QED
  BY <1>1, <1>2, <1>3, <1>4, <1>5, <1>6, <1>7, <1>8, <1>9, <1>10, <1>11, <1>12, <1>13,
     <1>14, <1>15, <1>16, <1>17, <1>18
     DEF Next, EngineAnswers, UserAnswers, SaveFirst, SaveRemote

\* A project file changes to nothing, to a new version, or to what a save says.
LEMMA DiskStep ==
  ASSUME TypeOK, [Next]_vars, NEW i \in Ids
  PROVE  \/ disk'[i] \in {disk[i], None, made'}
         \/ saving # None /\ disk'[i] = saving.project.version
<1> USE DEF open
<1>1. ASSUME EngineSaves PROVE saving # None /\ disk'[i] \in {disk[i], saving.project.version}
  BY <1>1 DEF TypeOK, EngineSaves
<1>2. ASSUME NEW id \in Ids, OthersWrite(id) PROVE disk'[i] \in {disk[i], made'}
  BY <1>2 DEF TypeOK, OthersWrite
<1>3. ASSUME NEW id \in Ids, OthersDelete(id) PROVE disk'[i] \in {disk[i], None}
  BY <1>3 DEF TypeOK, OthersDelete
<1>4. ASSUME NEW what \in Replacement, Choose(what) \/ ChooseAndRead(what) PROVE disk' = disk
  BY <1>4 DEF Choose, ChooseAndRead
<1>5. ASSUME NEW o \in opening, ReadArrives(o) \/ ReadProject(o) \/ OpenArrives(o) \/ ReadFails(o)
      PROVE  disk' = disk
  BY <1>5 DEF ReadArrives, ReadProject, OpenArrives, ReadFails
<1>6. ASSUME Edit \/ SaveRemote \/ Resume \/ StartSave \/ UserAnswers PROVE disk' = disk
  BY <1>6 DEF Edit, SaveRemote, Resume, StartSave, UserAnswers, DontSave, KeepOpen, SaveFirst,
              Enqueue, Overwrite, CancelSave
<1>7. ASSUME EngineRefuses \/ SaveAnswered \/ ConflictAnswered \/ SaveFails PROVE disk' = disk
  BY <1>7 DEF EngineRefuses, SaveAnswered, ConflictAnswered, SaveFails
<1>8. CASE UNCHANGED vars
  BY <1>8 DEF vars
<1>9. QED
  BY <1>1, <1>2, <1>3, <1>4, <1>5, <1>6, <1>7, <1>8 DEF Next, EngineAnswers

\* A read under way has been under way, has read nothing, or a file as it is.
LEMMA OpeningStep ==
  ASSUME TypeOK, [Next]_vars, NEW o, o \in opening'
  PROVE  o \in opening \/ o.got = None \/ \E i \in Ids : o.got = disk[i]
<1> USE DEF open
<1>1. ASSUME NEW what, NEW reads \in SUBSET opening, NEW leave, Undertake(what, reads, leave)
      PROVE  o \in opening \/ o.got = None
  <2>1. opening' = reads \/ opening' = reads \cup {[what |-> what, got |-> None]}
    BY <1>1, Zenon DEF Undertake
  <2>2. QED
    BY <2>1
<1>2. ASSUME NEW what, NEW reads \in SUBSET opening, ConfirmReplace(what, reads)
      PROVE  o \in opening \/ o.got = None
  BY <1>1, <1>2 DEF ConfirmReplace
<1>3. ASSUME NEW what \in Replacement, Choose(what) PROVE o \in opening \/ o.got = None
  BY <1>2, <1>3 DEF Choose
<1>4. ASSUME NEW what \in Replacement, ChooseAndRead(what) PROVE o \in opening \/ o.got = None
  BY <1>4 DEF ChooseAndRead
<1>5. ASSUME NEW r \in opening, ReadArrives(r) PROVE o \in opening \/ o.got = None
  <2>1. opening \ {r} \in SUBSET opening
    OBVIOUS
  <2>2. QED
    BY <1>2, <1>5, <2>1 DEF ReadArrives
<1>6. ASSUME NEW r \in opening, ReadProject(r)
      PROVE  o \in opening \/ \E i \in Ids : o.got = disk[i]
  <2>1. r \in Read /\ r.what.id \in Ids
    BY <1>6 DEF TypeOK, ReadProject, Replacement, Read
  <2>2. o \in opening \/ o = [r EXCEPT !.got = disk[r.what.id]]
    BY <1>6 DEF ReadProject
  <2>3. QED
    BY <2>1, <2>2 DEF Read
<1>7. ASSUME NEW r \in opening, OpenArrives(r) \/ ReadFails(r) PROVE o \in opening
  BY <1>7 DEF OpenArrives, ReadFails
<1>8. ASSUME Resume \/ DontSave PROVE o \in opening \/ o.got = None
  BY <1>1, <1>8 DEF Resume, DontSave
<1>9. ASSUME Edit \/ SaveRemote \/ StartSave \/ KeepOpen \/ SaveFirst \/ Overwrite \/ CancelSave
      PROVE  opening' = opening
  BY <1>9 DEF Edit, SaveRemote, StartSave, KeepOpen, SaveFirst, Enqueue, Overwrite, CancelSave
<1>10. ASSUME EngineAnswers PROVE opening' = opening
  BY <1>10 DEF EngineAnswers, EngineRefuses, EngineSaves, SaveAnswered, ConflictAnswered, SaveFails
<1>11. ASSUME NEW id \in Ids, OthersWrite(id) \/ OthersDelete(id) PROVE opening' = opening
  BY <1>11 DEF OthersWrite, OthersDelete
<1>12. CASE UNCHANGED vars
  BY <1>12 DEF vars
<1>13. QED
  BY <1>3, <1>4, <1>5, <1>6, <1>7, <1>8, <1>9, <1>10, <1>11, <1>12 DEF Next, UserAnswers

\* The numbers stay in order.
LEMMA NextNumbers ==
  ASSUME TypeOK, TypeOK', NumbersInv, MadeInv, [Next]_vars
  PROVE  NumbersInv' /\ MadeInv' /\ made' >= made
<1>1. /\ made \in Nat /\ made' \in Nat /\ copies \in Nat
      /\ project \in Project /\ project.version \in Nat /\ project.copy \in Nat
      /\ own # None => own.copy \in Nat
      /\ saving # None => /\ saving.project \in Project
                          /\ saving.project.version \in Nat
                          /\ saving.project.copy \in Nat
      /\ \A i \in Ids : disk[i] # None => disk[i] \in Nat
      /\ \A o \in opening : o.got # None => o.got \in Nat
  BY DEF TypeOK, Project, Save, Version, Read, Write
<1>2. NumbersInv' /\ made' >= made
  <2>1. CASE Quiet
    BY <1>1, <2>1 DEF Quiet, core, NumbersInv
  <2>2. CASE Replaces
    BY <1>1, <2>2 DEF Replaces, NumbersInv
  <2>3. CASE MovesOn
    BY <1>1, <2>3 DEF TypeOK, MovesOn, To, Save, core, NumbersInv
  <2>4. CASE GivesUp
    BY <1>1, <2>4 DEF GivesUp, core, NumbersInv
  <2>5. CASE Edit
    BY <1>1, <2>5 DEF Edit, Project, NumbersInv
  <2>6. CASE StartSave
    BY <1>1, <2>6 DEF StartSave, open, NumbersInv
  <2>7. CASE EngineSaves
    BY <1>1, <2>7 DEF TypeOK, EngineSaves, To, Save, NumbersInv
  <2>8. CASE SaveAnswered
    BY <1>1, <2>8 DEF SaveAnswered, Finish, NumbersInv
  <2>9. QED
    BY <2>1, <2>2, <2>3, <2>4, <2>5, <2>6, <2>7, <2>8, StepKinds
<1>3. \A i \in Ids : disk'[i] # None => disk'[i] <= made'
  BY <1>1, <1>2, DiskStep DEF NumbersInv, MadeInv
<1>4. \A o \in opening' : o.got # None => o.got <= made'
  BY <1>1, <1>2, OpeningStep DEF MadeInv
<1>5. QED
  BY <1>2, <1>3, <1>4 DEF MadeInv

\* The star stays honest: the answer to a save clears it only for the very
\* project that was written.
LEMMA NextStored ==
  ASSUME TypeOK, NumbersInv, MadeInv, StoredInv, [Next]_vars
  PROVE  StoredInv'
<1>1. /\ made \in Nat /\ copies \in Nat
      /\ saving # None => /\ saving.project.version \in Nat
                          /\ saving.project.copy \in Nat
  BY DEF TypeOK, Project, Save, Version
<1>2. CASE Quiet
  BY <1>2 DEF Quiet, core, StoredInv
<1>3. CASE Replaces
  BY <1>1, <1>3 DEF Replaces, NumbersInv, StoredInv
<1>4. CASE MovesOn
  BY <1>4 DEF TypeOK, MovesOn, To, Save, core, StoredInv
<1>5. CASE GivesUp
  BY <1>5 DEF GivesUp, core, StoredInv
<1>6. CASE Edit
  <2>1. dirty' /\ saving' = saving
    BY <1>6 DEF Edit
  <2>2. project'.version = made + 1
    BY <1>6 DEF TypeOK, Project, Edit
  <2>3. saving # None => project' # saving.project
    BY <1>1, <2>2 DEF NumbersInv
  <2>4. QED
    BY <2>1, <2>3 DEF StoredInv
<1>7. CASE StartSave
  BY <1>7 DEF StartSave, open, StoredInv
<1>8. CASE EngineSaves
  <2>1. saving \in Save /\ saving'.project = saving.project /\ project' = project
    BY <1>8 DEF TypeOK, EngineSaves, To, Save
  <2>2. dirty' = dirty /\ kept' = (kept \/ project = saving.project)
    BY <1>8 DEF EngineSaves
  <2>3. QED
    BY <2>1, <2>2 DEF StoredInv
<1>9. CASE SaveAnswered
  <2>1. dirty' = (project # saving.project) /\ kept' = kept /\ saving' = None
    BY <1>9 DEF SaveAnswered, StillUnsaved, Finish
  <2>2. saving # None /\ saving.stage = "saved"
    BY <1>9 DEF SaveAnswered
  <2>3. QED
    BY <2>1, <2>2 DEF StoredInv
<1>10. QED
  BY <1>2, <1>3, <1>4, <1>5, <1>6, <1>7, <1>8, <1>9, StepKinds

\* The revision goes on saying where the copy comes from.
LEMMA NextBase ==
  ASSUME TypeOK, MadeInv, BaseInv, [Next]_vars
  PROVE  BaseInv'
<1>1. CASE Quiet
  BY <1>1 DEF Quiet, core, BaseInv
<1>2. CASE Replaces
  BY <1>2 DEF Replaces, BaseInv
<1>3. CASE MovesOn
  BY <1>3 DEF TypeOK, MovesOn, To, Save, core, BaseInv
<1>4. CASE GivesUp
  BY <1>4 DEF GivesUp, core, BaseInv
<1>5. CASE Edit
  BY <1>5 DEF Edit, BaseInv
<1>6. CASE StartSave
  BY <1>6 DEF StartSave, open, BaseInv
<1>7. CASE EngineSaves
  BY <1>7 DEF TypeOK, EngineSaves, To, Save, BaseInv
<1>8. CASE SaveAnswered
  BY <1>8 DEF SaveAnswered, Finish, BaseInv
<1>9. QED
  BY <1>1, <1>2, <1>3, <1>4, <1>5, <1>6, <1>7, <1>8, StepKinds

\* A copy goes on carrying the revision of its last save.
LEMMA NextOwn ==
  ASSUME TypeOK, NumbersInv, MadeInv, OwnInv, [Next]_vars
  PROVE  OwnInv'
<1>1. /\ copies \in Nat
      /\ own # None => own.copy \in Nat
      /\ saving # None => saving.project.copy \in Nat
  BY DEF TypeOK, Project, Save, Write
<1>2. CASE Quiet
  BY <1>2 DEF Quiet, core, OwnInv
<1>3. CASE Replaces
  BY <1>1, <1>3 DEF Replaces, NumbersInv, OwnInv
<1>4. CASE MovesOn
  BY <1>4 DEF TypeOK, MovesOn, To, Save, core, OwnInv
<1>5. CASE GivesUp
  BY <1>5 DEF GivesUp, core, OwnInv
<1>6. CASE Edit
  <2>1. project'.copy = project.copy
    BY <1>6 DEF TypeOK, Project, Edit
  <2>2. UNCHANGED <<revision, saving, own>>
    BY <1>6 DEF Edit
  <2>3. QED
    BY <2>1, <2>2 DEF OwnInv
<1>7. CASE StartSave
  <2>1. /\ saving = None
        /\ saving'.project = project /\ saving'.revision = revision /\ saving'.stage = "sent"
        /\ UNCHANGED <<project, revision, own>>
    BY <1>7 DEF StartSave, QueueIsFree, open
  <2>2. QED
    BY <2>1 DEF OwnInv
<1>8. CASE EngineSaves
  <2>1. saving # None /\ saving' # None
    BY <1>8 DEF TypeOK, EngineSaves, To, Save
  <2>2. saving'.stage = "saved" /\ saving'.project = saving.project
    BY <1>8 DEF TypeOK, EngineSaves, To, Save
  <2>3. own' = [copy |-> saving.project.copy, version |-> saving.project.version]
    BY <1>8 DEF EngineSaves
  <2>4. QED
    BY <2>1, <2>2, <2>3 DEF OwnInv
<1>9. CASE SaveAnswered
  <2>1. saving # None /\ saving.stage = "saved" /\ saving' = None
    BY <1>9 DEF SaveAnswered, Finish
  <2>2. revision' = saving.project.version /\ own' = own
    BY <1>9 DEF SaveAnswered
  <2>3. own.version = saving.project.version
    BY <2>1 DEF OwnInv
  <2>4. QED
    BY <2>1, <2>2, <2>3 DEF OwnInv
<1>10. QED
  BY <1>2, <1>3, <1>4, <1>5, <1>6, <1>7, <1>8, <1>9, StepKinds

\* The inductive invariant.
LEMMA NextIInv == IInv /\ [Next]_vars => IInv'
BY NextType, NextNumbers, NextStored, NextBase, NextOwn DEF IInv

\* It holds in every behaviour.
LEMMA Invariant == Spec => []IInv
<1>1. Init => IInv
  BY InitIInv
<1>2. IInv /\ [Next]_vars => IInv'
  BY NextIInv
<1>3. QED
  BY <1>1, <1>2, PTL DEF Spec

-----------------------------------------------------------------------------
(* The theorems.                                                            *)

\* The window's state stays well typed, and the dialog about a conflict is
\* that of the save under way, whatever came between.
THEOREM TypeCorrect == Spec => []TypeOK
<1>1. IInv => TypeOK
  BY DEF IInv
<1>2. QED
  BY <1>1, Invariant, PTL

\* A project shown without unsaved changes was written as it stands, or is new
\* and untouched: updateProject makes a new object of every edit, saveRemote
\* compares the object it saved with the open one.
THEOREM StarIsHonest == Spec => []CleanMeansStored
<1>1. IInv => CleanMeansStored
  BY DEF IInv, StoredInv, CleanMeansStored
<1>2. QED
  BY <1>1, Invariant, PTL

\* The conditional save of saveRemote replaces only the version its project
\* comes from, but for the revision that the answer to another project's save
\* left behind.
THEOREM SavesOverwriteOwn == Spec => OverwritesOwnVersion
<1>1. IInv /\ [Next]_vars =>
        [ReplacesUnasked => VersionLost \in {None, saving.base} \/ saving.crossed]_vars
  <2> SUFFICES ASSUME IInv, EngineSaves, saving.stage = "sent"
               PROVE  VersionLost \in {None, saving.base} \/ saving.crossed
    BY DEF ReplacesUnasked
  <2>1. saving # None /\ ~Conflicts
    BY DEF EngineSaves
  <2>2. saving.crossed \/ saving.revision = saving.base
    BY <2>1 DEF IInv, BaseInv
  <2>3. VersionLost \in {None, saving.revision}
    BY <2>1 DEF Conflicts, VersionLost
  <2>4. QED
    BY <2>2, <2>3
<1>2. QED
  BY <1>1, Invariant, PTL DEF Spec, OverwritesOwnVersion

\* saveQueue does what it is for: a save starts from the revision of the one
\* before it, so the engine never refuses it for the window's own write.
THEOREM NoOwnConflict == Spec => NoConflictWithItself
<1>1. IInv /\ [Next]_vars =>
        [(saving # None /\ EngineRefuses) => ~IsOwn(saving.project.copy, disk[saving.project.id])]_vars
  <2> SUFFICES ASSUME IInv, saving # None, EngineRefuses,
                      IsOwn(saving.project.copy, disk[saving.project.id])
               PROVE  FALSE
    OBVIOUS
  <2>1. saving.stage = "sent" /\ Conflicts
    BY DEF EngineRefuses
  <2>2. /\ own # None
        /\ own.copy = saving.project.copy
        /\ own.version = disk[saving.project.id]
    BY DEF IsOwn
  <2>3. saving.revision = disk[saving.project.id]
    BY <2>1, <2>2 DEF IInv, OwnInv
  <2>4. QED
    BY <2>1, <2>3 DEF Conflicts
<1>2. QED
  BY <1>1, Invariant, PTL DEF Spec, NoConflictWithItself

\* Nothing takes the place of the open project against the user's will, however
\* long a read or a save takes: confirmReplaceProject asks again after its save,
\* and only what openProject and openExample fetched comes in without a look.
THEOREM ReplacesOnlyWithLeave == Spec => ReplacesWithLeave
<1> DEFINE Same == project'.copy = project.copy
           Leave == \/ ~dirty
                    \/ gaveUp \/ DontSave
                    \/ \E o \in opening \ opening' : FetchesLater(o.what)
<1>1. TypeOK /\ [Next]_vars => (project'.copy # project.copy => Leave)
  <2> SUFFICES ASSUME TypeOK, [Next]_vars PROVE Same \/ Leave
    OBVIOUS
  <2> USE DEF open
  <2>1. ASSUME NEW what, NEW reads, ConfirmReplace(what, reads) PROVE Same \/ Leave
    BY <2>1 DEF ConfirmReplace
  <2>2. ASSUME NEW what \in Replacement, Choose(what) \/ ChooseAndRead(what) PROVE Same \/ Leave
    BY <2>1, <2>2 DEF Choose, ChooseAndRead
  <2>3. ASSUME NEW o \in opening, ReadArrives(o) PROVE Same \/ Leave
    BY <2>1, <2>3 DEF ReadArrives
  <2>4. ASSUME NEW o \in opening, ReadProject(o) \/ ReadFails(o) PROVE Same
    BY <2>4 DEF ReadProject, ReadFails
  <2>5. ASSUME NEW o \in opening, OpenArrives(o) PROVE Leave
    <3>1. o \in opening \ opening' /\ FetchesLater(o.what)
      BY <2>5 DEF OpenArrives
    <3>2. QED
      BY <3>1
  <2>6. ASSUME Edit PROVE Same
    BY <2>6 DEF TypeOK, Project, Edit
  <2>7. ASSUME Resume PROVE Same \/ Leave
    BY <2>7 DEF Resume, NothingUnsaved
  <2>8. ASSUME SaveRemote \/ StartSave \/ KeepOpen \/ SaveFirst \/ Overwrite \/ CancelSave PROVE Same
    BY <2>8 DEF SaveRemote, StartSave, KeepOpen, SaveFirst, Enqueue, Overwrite, CancelSave
  <2>9. ASSUME EngineAnswers PROVE Same
    BY <2>9 DEF EngineAnswers, EngineRefuses, EngineSaves, SaveAnswered, ConflictAnswered, SaveFails
  <2>10. ASSUME NEW id \in Ids, OthersWrite(id) \/ OthersDelete(id) PROVE Same
    BY <2>10 DEF OthersWrite, OthersDelete
  <2>11. CASE UNCHANGED vars
    BY <2>11 DEF vars
  <2>12. QED
    BY <2>2, <2>3, <2>4, <2>5, <2>6, <2>7, <2>8, <2>9, <2>10, <2>11 DEF Next, UserAnswers
<1>2. TypeOK /\ [Next]_vars => [project'.copy # project.copy => Leave]_vars
  BY <1>1
<1>3. Spec => []TypeOK
  BY TypeCorrect
<1>4. QED
  BY <1>2, <1>3, PTL DEF Spec, ReplacesWithLeave

=============================================================================
