--------------------------- MODULE ProjectStorage ---------------------------
(***************************************************************************)
(* The files of one project on disk: <id>.json, <id>.json.bak and the      *)
(* backups folder .backups/<id>/, and the request handlers that change     *)
(* them (backend/app/storage.py behind PUT and DELETE                      *)
(* /api/projects/{id}).  Handlers run in a pool of threads; saves take     *)
(* _save_lock, a delete does not, and another program may write the file   *)
(* whenever it likes.  The process may be killed between any two steps.    *)
(***************************************************************************)
EXTENDS Integers, Sequences, FiniteSets

CONSTANTS
  Writers,       (* Handler threads that may be saving at the same time.    *)
  Data,          (* The contents a project file can have.                   *)
  revision_of,   (* [Data -> Nat], the hash that names a content.           *)
  None,          (* No file, no condition, no answer, no lock holder.       *)
  AnyVersion,    (* The condition "*": any version, but there must be one.  *)
  Torn,          (* A file that is only partly written.                     *)
  KEEP_BACKUPS,  (* Backups kept per project.                               *)
  MaxSaves,      (* Bound: save requests in a behaviour.                    *)
  WritesInSave,  (* BOOLEAN: another program may also write the file after  *)
                 (* a save checked it, not only when no save is under way.  *)
  ClockForward   (* BOOLEAN: the wall clock advances between two backups.   *)

ASSUME NamesAssumption ==
    /\ None \notin Data \cup Writers \cup Nat \cup {AnyVersion}
    /\ AnyVersion \notin Nat
    /\ Torn \notin Data \cup {None}
ASSUME RevisionAssumption ==
    /\ revision_of \in [Data -> Nat]
    /\ \A c, d \in Data : revision_of[c] = revision_of[d] => c = d
ASSUME BoundsAssumption ==
    /\ KEEP_BACKUPS \in Nat \ {0}
    /\ MaxSaves \in Nat
    /\ WritesInSave \in BOOLEAN
    /\ ClockForward \in BOOLEAN

VARIABLES
  file,      \* <id>.json: a content, or None when there is no file
  bak,       \* <id>.json.bak
  backups,   \* the files of .backups/<id>/, each named by time and revision
  clock,     \* the time of the last backup
  lock,      \* _save_lock: the thread that holds it, or None
  pc,        \* what each handler thread does next
  req,       \* the request each thread serves
  cur,       \* `current`: the version each thread read
  tmp,       \* the temporary file each thread writes
  drop,      \* the backups each thread has still to drop
  answer,    \* what each thread told its client
  saves,     \* requests so far (bound)
  replaced   \* history: the versions that saves replaced, or set out to
             \* replace and backed up, in order

disk == <<file, bak, backups, clock>>
vars == <<disk, lock, pc, req, cur, tmp, drop, answer, saves, replaced>>

Times == 1..MaxSaves

\* A backup is named by the time it was taken and the revision it holds.
Backup == [at: Times, rev: Nat, data: Data \cup {Torn}]

\* The preconditions of a save: If-Match names a revision or "*" (AnyVersion),
\* If-None-Match: * is create_only.  A missing file has no revision.
Request ==
    [data: Data,
     expected: {None, AnyVersion} \cup {revision_of[d] : d \in Data},
     create_only: BOOLEAN]

Matches(r, version) ==
    version # None /\ (r.expected = AnyVersion \/ revision_of[version] = r.expected)

Refused(r, version) ==
    \/ r.create_only /\ version # None
    \/ r.expected # None /\ ~Matches(r, version)

\* _backup_files sorts by name: the time, then the revision.
Older(b, c) ==
    \/ b.at < c.at
    \/ b.at = c.at /\ b.rev < c.rev

Newest(B) == CHOOSE b \in B : \A c \in B : c = b \/ Older(c, b)

\* kept[: n], the n oldest of B.
MutantOldestOf(B, n) == {b \in B : Cardinality({c \in B : Older(c, b)}) <= n}
OldestOf(B, n) == {b \in B : Cardinality({c \in B : Older(c, b)}) < n}

\* The history with one more version, unless it is the last one already.
Note(version) ==
    IF version = None \/ (replaced # <<>> /\ replaced[Len(replaced)] = version)
    THEN replaced ELSE Append(replaced, version)

\* How far a save is, as its client and ConditionalFile see it.
Phase(w) ==
    CASE pc[w] = "idle" -> "none"
      [] pc[w] \in {"waiting", "exists", "read"} -> "asked"
      [] pc[w] \in {"bak", "keep", "backup", "stamp", "prune", "write"} -> "accepted"
      [] pc[w] = "release" -> "committed"

\* The bytes the atomic write under way is to put in place.
MutantPayload(w) == req[w].data
Payload(w) == IF pc[w] = "write" THEN req[w].data ELSE cur[w]

-----------------------------------------------------------------------------
Init ==
    /\ file \in Data \cup {None}
    /\ bak = None
    /\ backups = {}
    /\ clock = 0
    /\ lock = None
    /\ pc = [w \in Writers |-> "idle"]
    /\ req = [w \in Writers |-> None]
    /\ cur = [w \in Writers |-> None]
    /\ tmp = [w \in Writers |-> None]
    /\ drop = [w \in Writers |-> {}]
    /\ answer = [w \in Writers |-> None]
    /\ saves = 0
    /\ replaced = <<>>

Goto(w, step) == pc' = [pc EXCEPT ![w] = step]

MutantLeave(w, reply) ==
    /\ Goto(w, "idle")
    /\ lock' = IF reply = "error" THEN lock ELSE None
    /\ req' = [req EXCEPT ![w] = None]
    /\ cur' = [cur EXCEPT ![w] = None]
    /\ answer' = [answer EXCEPT ![w] = reply]

\* The with-block ends, by a return or an exception: the thread forgets its
\* request and what it read, and the client is told.
Leave(w, reply) ==
    /\ Goto(w, "idle")
    /\ lock' = None
    /\ req' = [req EXCEPT ![w] = None]
    /\ cur' = [cur EXCEPT ![w] = None]
    /\ answer' = [answer EXCEPT ![w] = reply]

\* PUT /api/projects/{id} arrives.
PutProject(w, r) ==
    /\ pc[w] = "idle"
    /\ saves < MaxSaves
    /\ saves' = saves + 1
    /\ req' = [req EXCEPT ![w] = r]
    /\ answer' = [answer EXCEPT ![w] = None]
    /\ Goto(w, "waiting")
    /\ UNCHANGED <<disk, lock, cur, tmp, drop, replaced>>

MutantNoLock == TRUE
LockIsFree == lock = None

AcquireLock(w) ==
    /\ pc[w] = "waiting"
    /\ LockIsFree
    /\ lock' = w
    /\ Goto(w, "exists")
    /\ UNCHANGED <<disk, req, cur, tmp, drop, answer, saves, replaced>>

\* The checks of the precondition on the version read, and the first write.
Decide(w, current) ==
    /\ \/ /\ Refused(req[w], current)
          /\ Leave(w, "conflict")
       \/ /\ ~Refused(req[w], current)
          /\ cur' = [cur EXCEPT ![w] = current]
          /\ Goto(w, IF current = None THEN "write" ELSE "bak")
          /\ UNCHANGED <<lock, req, answer>>
    /\ UNCHANGED <<disk, tmp, drop, saves, replaced>>

CheckExists(w) ==
    /\ pc[w] = "exists"
    /\ \/ file = None /\ Decide(w, None)
       \/ /\ file # None
          /\ Goto(w, "read")
          /\ UNCHANGED <<disk, lock, req, cur, tmp, drop, answer, saves, replaced>>

\* The file may have been deleted since path.exists(): read_bytes then raises.
ReadCurrent(w) ==
    /\ pc[w] = "read"
    /\ \/ file # None /\ Decide(w, file)
       \/ /\ file = None
          /\ Leave(w, "error")
          /\ UNCHANGED <<disk, tmp, drop, saves, replaced>>

-----------------------------------------------------------------------------
\* _write_atomic: create the temporary file, fill and flush it, rename it.
OpenTmp(w) ==
    /\ pc[w] \in {"bak", "backup", "write"}
    /\ tmp[w] = None
    /\ tmp' = [tmp EXCEPT ![w] = Torn]
    /\ UNCHANGED <<disk, lock, pc, req, cur, drop, answer, saves, replaced>>

FlushTmp(w) ==
    /\ tmp[w] = Torn
    /\ tmp' = [tmp EXCEPT ![w] = Payload(w)]
    /\ UNCHANGED <<disk, lock, pc, req, cur, drop, answer, saves, replaced>>

MutantRenamesEarly(w) == tmp[w] # None
Flushed(w) == tmp[w] \notin {None, Torn}

\* os.replace takes the temporary file away; `step` tells which write it ends.
Rename(w, step) ==
    /\ pc[w] = step
    /\ Flushed(w)
    /\ tmp' = [tmp EXCEPT ![w] = None]

ReplaceBak(w) ==
    /\ Rename(w, "bak")
    /\ bak' = tmp[w]
    /\ Goto(w, IF cur[w] = req[w].data THEN "write" ELSE "keep")
    /\ UNCHANGED <<file, backups, clock, lock, req, cur, drop, answer, saves, replaced>>

\* _keep_backup: nothing to do when the newest backup holds this version; its
\* time is read from the project file, which may be gone by now.
KeepBackup(w) ==
    /\ pc[w] = "keep"
    /\ LET kept == backups # {} /\ Newest(backups).rev = revision_of[cur[w]]
       IN  \/ /\ kept \/ file # None
              /\ Goto(w, IF kept THEN "write" ELSE "backup")
              /\ UNCHANGED <<lock, req, cur, answer>>
           \/ ~kept /\ file = None /\ Leave(w, "error")
    /\ UNCHANGED <<disk, tmp, drop, saves, replaced>>

ReplaceBackup(w) ==
    /\ Rename(w, "backup")
    /\ \E t \in Times :
          /\ ClockForward => t = clock + 1
          /\ clock' = t
          /\ LET new == [at |-> t, rev |-> revision_of[cur[w]], data |-> tmp[w]]
             IN  backups' = {b \in backups : b.at # t \/ b.rev # new.rev} \cup {new}
    /\ drop' = [drop EXCEPT ![w] = OldestOf(backups, Cardinality(backups) + 1 - KEEP_BACKUPS)]
    /\ replaced' = Note(cur[w])
    /\ Goto(w, "stamp")
    /\ UNCHANGED <<file, bak, lock, req, cur, answer, saves>>

\* os.utime gives the backup the time of the version it holds.
StampBackup(w) ==
    /\ pc[w] = "stamp"
    /\ Goto(w, "prune")
    /\ UNCHANGED <<disk, lock, req, cur, tmp, drop, answer, saves, replaced>>

\* Drop the oldest backup over the limit; a file that cannot be removed stays.
PruneBackups(w) ==
    /\ pc[w] = "prune"
    /\ \/ /\ drop[w] = {}
          /\ Goto(w, "write")
          /\ UNCHANGED <<backups, drop>>
       \/ \E old \in OldestOf(drop[w], 1) :
             /\ drop' = [drop EXCEPT ![w] = @ \ {old}]
             /\ backups' \in {backups, backups \ {old}}
             /\ UNCHANGED pc
    /\ UNCHANGED <<file, bak, clock, lock, req, cur, tmp, answer, saves, replaced>>

ReplaceFile(w) ==
    /\ Rename(w, "write")
    /\ file' = tmp[w]
    /\ replaced' = IF file = tmp[w] THEN replaced ELSE Note(file)
    /\ Goto(w, "release")
    /\ UNCHANGED <<bak, backups, clock, lock, req, cur, drop, answer, saves>>

ReleaseLock(w) ==
    /\ pc[w] = "release"
    /\ Leave(w, "saved")
    /\ UNCHANGED <<disk, tmp, drop, saves, replaced>>

\* An OSError of any write: a full disk, a rename Windows keeps refusing, ...
WriteFails(w) ==
    /\ pc[w] \in {"bak", "backup", "stamp", "write"}
    /\ Leave(w, "error")
    /\ tmp' = [tmp EXCEPT ![w] = None]
    /\ drop' = [drop EXCEPT ![w] = {}]
    /\ UNCHANGED <<disk, saves, replaced>>

-----------------------------------------------------------------------------
\* DELETE /api/projects/{id}: exists() and unlink(), without _save_lock; the
\* unlink takes whatever version is there by then, and keeps no copy of it.
DeleteProject ==
    /\ file # None
    /\ file' = None
    /\ UNCHANGED <<bak, backups, clock, lock, pc, req, cur, tmp, drop, answer, saves, replaced>>

\* Another program, which knows nothing of the lock, writes the file.
OtherProgramWrites(d) ==
    /\ WritesInSave \/ \A w \in Writers : Phase(w) # "accepted"
    /\ file' = d
    /\ UNCHANGED <<bak, backups, clock, lock, pc, req, cur, tmp, drop, answer, saves, replaced>>

\* The process is killed and started again.  What it left in temporary files
\* has a name nothing reads.
Crash ==
    /\ \E w \in Writers : pc[w] # "idle"
    /\ lock' = None
    /\ pc' = [w \in Writers |-> "idle"]
    /\ tmp' = [w \in Writers |-> None]
    /\ drop' = [w \in Writers |-> {}]
    /\ answer' = [w \in Writers |-> None]
    /\ req' = [w \in Writers |-> None]
    /\ cur' = [w \in Writers |-> None]
    /\ UNCHANGED <<disk, saves, replaced>>

SaveStep(w) ==
    \/ CheckExists(w) \/ ReadCurrent(w)
    \/ OpenTmp(w) \/ FlushTmp(w)
    \/ ReplaceBak(w) \/ KeepBackup(w) \/ ReplaceBackup(w)
    \/ StampBackup(w) \/ PruneBackups(w)
    \/ ReplaceFile(w) \/ ReleaseLock(w)

Next ==
    \/ \E w \in Writers :
          \/ \E r \in Request : PutProject(w, r)
          \/ AcquireLock(w)
          \/ SaveStep(w)
          \/ WriteFails(w)
    \/ DeleteProject
    \/ \E d \in Data : OtherProgramWrites(d)
    \/ Crash

\* A thread that holds the lock runs on: nothing in the with-block waits.
Fairness == \A w \in Writers : WF_vars(SaveStep(w))

Spec == Init /\ [][Next]_vars /\ Fairness

-----------------------------------------------------------------------------
(* Properties *)

TypeOK ==
    /\ file \in Data \cup {None}
    /\ bak \in Data \cup {None, Torn}
    /\ backups \in SUBSET Backup
    /\ clock \in Times \cup {0}
    /\ lock \in Writers \cup {None}
    /\ pc \in [Writers -> {"idle", "waiting", "exists", "read", "bak", "keep",
                           "backup", "stamp", "prune", "write", "release"}]
    /\ req \in [Writers -> Request \cup {None}]
    /\ cur \in [Writers -> Data \cup {None}]
    /\ tmp \in [Writers -> Data \cup {None, Torn}]
    /\ drop \in [Writers -> SUBSET Backup]
    /\ answer \in [Writers -> {"saved", "conflict", "error", None}]
    /\ saves \in 0..MaxSaves
    /\ replaced \in Seq(Data)

\* What the lock protects, and why a save may trust what it read: only the
\* holder is inside the with-block; a temporary file belongs to the write it
\* is for; and from its check to its rename a save's condition holds of the
\* version it read, which is the one on disk unless that was deleted.
Holding(step) == step \notin {"idle", "waiting"}

LockInv ==
    \A w \in Writers : Holding(pc[w]) <=> lock = w

WriteInv ==
    \A w \in Writers :
        /\ pc[w] # "idle" => req[w] \in Request
        /\ pc[w] \in {"bak", "keep", "backup", "stamp", "prune"} => cur[w] \in Data
        /\ tmp[w] # None => /\ pc[w] \in {"bak", "backup", "write"}
                            /\ tmp[w] \in {Torn, Payload(w)}

CheckInv ==
    \A w \in Writers :
        /\ Phase(w) \in {"none", "asked"} => cur[w] = None
        /\ Phase(w) = "accepted" => /\ ~Refused(req[w], cur[w])
                                    /\ WritesInSave \/ file \in {cur[w], None}

SaveInv == LockInv /\ WriteInv /\ CheckInv

\* No crash and no failed write leaves a project file, its .bak or a backup
\* half written (storage.py: "Saves are all-or-nothing").
FilesWhole ==
    /\ Torn \notin {file, bak}
    /\ \A b \in backups : b.data # Torn /\ b.rev = revision_of[b.data]

\* A save replaces a version only if its condition holds of that very version,
\* the one on disk at the moment of the rename ("never silently overwrite").
\* The file may have been deleted since the check: then nothing is replaced.
NoSilentOverwrite ==
    [][\A w \in Writers :
          (pc[w] = "write" /\ pc'[w] = "release" /\ file # None)
              => ~Refused(req[w], file)]_vars

\* The last KEEP_BACKUPS versions that saves replaced can be restored, at every
\* moment, with a save under way, failed or killed included ("which keep the
\* last KEEP_BACKUPS versions").
BackupsKeepLast ==
    \A i \in 1..Len(replaced) :
        i > Len(replaced) - KEEP_BACKUPS => \E b \in backups : b.data = replaced[i]

\* Whoever takes _save_lock gives it back, whatever fails on the way: no save
\* waits for ever behind a failed one.
LockGivenBack == \A w \in Writers : lock = w ~> lock # w

\* Every step is a step of the compare-and-swap cell of ConditionalFile, or
\* none: a client sees a save happen at once, in full, or not at all.
Cell == INSTANCE ConditionalFile WITH
    call <- [w \in Writers |-> Phase(w)],
    request <- req,
    base <- cur

ImplementsCell == Cell!Spec
=============================================================================
