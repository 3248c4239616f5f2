----------------------- MODULE ProjectStorage_proofs -----------------------
(***************************************************************************)
(* The saves of ProjectStorage, proved for any number of handler threads,  *)
(* contents and saves.  The inductive invariant is SaveInv, with the types *)
(* and FilesWhole: a save may trust the version it read because only the   *)
(* holder of _save_lock is past its check, and a temporary file holds the  *)
(* bytes of the write it is for once it is flushed.                        *)
(***************************************************************************)
EXTENDS ProjectStorage, FiniteSetTheorems, TLAPS

IInv == TypeOK /\ SaveInv /\ FilesWhole

USE NamesAssumption, RevisionAssumption, BoundsAssumption

\* The inductive invariant, with the parts of SaveInv side by side.
LEMMA IInvParts ==
  IInv <=> TypeOK /\ LockInv /\ WriteInv /\ CheckInv /\ FilesWhole
BY DEF IInv, SaveInv

\* Nothing is under way at first.
LEMMA InitIInv == Init => IInv
<1> SUFFICES ASSUME Init PROVE IInv
  OBVIOUS
<1>1. TypeOK
  BY DEF TypeOK, Times, Backup, Request, LockInv, WriteInv, Payload, Init
<1>2. LockInv
  BY DEF TypeOK, LockInv, Holding, Init
<1>3. WriteInv
  BY DEF TypeOK, Request, LockInv, Holding, WriteInv, Payload, Init
<1>4. CheckInv
  BY DEF TypeOK, LockInv, Holding, CheckInv, WriteInv, Payload, Phase,
         Init
<1>5. FilesWhole
  BY DEF TypeOK, Backup, WriteInv, Payload, FilesWhole, Init
<1>6. QED
  BY <1>1, <1>2, <1>3, <1>4, <1>5, IInvParts

\* A thread that leaves the with-block gives up the lock, its request and what
\* it read, and leaves no temporary file: nothing is left for the invariant.
LEMMA LeaveKeeps ==
  ASSUME IInv, NEW w \in Writers, NEW reply \in {"saved", "conflict", "error"},
         Holding(pc[w]), Leave(w, reply),
         UNCHANGED <<disk, saves, replaced>>,
         tmp' = [tmp EXCEPT ![w] = None], drop' \in [Writers -> SUBSET Backup]
  PROVE  IInv'
<1>0. TypeOK /\ LockInv /\ WriteInv /\ CheckInv /\ FilesWhole
  BY IInvParts
<1>1. TypeOK'
  BY <1>0
     DEF TypeOK, Times, Backup, Request, LockInv, WriteInv, Payload,
         disk, Goto, Leave
<1>2. LockInv'
  BY <1>0
     DEF TypeOK, LockInv, Holding, disk, Goto, Leave
<1>3. WriteInv'
  BY <1>0
     DEF TypeOK, Request, LockInv, Holding, WriteInv, Payload, disk,
         Goto, Leave
<1>4. CheckInv'
  BY <1>0
     DEF TypeOK, LockInv, Holding, CheckInv, WriteInv, Payload, Phase,
         disk, Goto, Leave
<1>5. FilesWhole'
  BY <1>0
     DEF TypeOK, Backup, WriteInv, Payload, FilesWhole, disk, Goto, Leave
<1>6. QED
  BY <1>1, <1>2, <1>3, <1>4, <1>5
     DEF IInv, SaveInv

\* Outside its three writes a thread has no temporary file.
LEMMA NoTmp ==
  ASSUME IInv, NEW w \in Writers, pc[w] \notin {"bak", "backup", "write"}
  PROVE  tmp[w] = None /\ tmp = [tmp EXCEPT ![w] = None]
BY DEF IInv, SaveInv, WriteInv, TypeOK

\* The decision on the version on disk: refused, the thread leaves; accepted,
\* CheckInv holds of it because the version read is the version on disk.
LEMMA DecideKeeps ==
  ASSUME IInv, NEW w \in Writers, pc[w] \in {"exists", "read"}, Decide(w, file)
  PROVE  IInv'
<1>0. TypeOK /\ LockInv /\ WriteInv /\ CheckInv /\ FilesWhole
  BY IInvParts
<1>1. CASE Refused(req[w], file)
  <2>1. Leave(w, "conflict") /\ UNCHANGED <<disk, tmp, drop, saves, replaced>>
    BY <1>1 DEF Decide
  <2>2. QED
    BY <1>0, <2>1, NoTmp, LeaveKeeps DEF Holding, TypeOK
<1>2. CASE ~Refused(req[w], file)
  <2>0. /\ cur' = [cur EXCEPT ![w] = file]
        /\ pc' = [pc EXCEPT ![w] = IF file = None THEN "write" ELSE "bak"]
        /\ UNCHANGED <<disk, lock, req, tmp, drop, answer, saves, replaced>>
    BY <1>2 DEF Decide, Goto
  <2>1. TypeOK'
    BY <1>0, <1>2, <2>0, NoTmp
       DEF TypeOK, Times, Backup, Request, LockInv, WriteInv, Payload,
           disk
  <2>2. LockInv'
    BY <1>0, <1>2, <2>0, NoTmp
       DEF TypeOK, LockInv, Holding, disk
  <2>3. WriteInv'
    BY <1>0, <1>2, <2>0, NoTmp
       DEF TypeOK, Request, LockInv, Holding, WriteInv, Payload, disk,
           Goto
  <2>4. CheckInv'
    BY <1>0, <1>2, <2>0, NoTmp
       DEF TypeOK, LockInv, Holding, CheckInv, WriteInv, Payload,
           Phase, disk
  <2>5. FilesWhole'
    BY <1>0, <1>2, <2>0, NoTmp
       DEF TypeOK, Backup, WriteInv, Payload, FilesWhole, disk
  <2>6. QED
    BY <2>1, <2>2, <2>3, <2>4, <2>5
       DEF IInv, SaveInv
<1>3. QED
  BY <1>1, <1>2

\* Every step of every thread, a delete, another program and a crash keep it.
LEMMA NextIInv == IInv /\ [Next]_vars => IInv'
<1> SUFFICES ASSUME IInv, [Next]_vars PROVE IInv'
  OBVIOUS
<1>0. TypeOK /\ LockInv /\ WriteInv /\ CheckInv /\ FilesWhole
  BY IInvParts
<1>1. ASSUME NEW w \in Writers, NEW r \in Request, PutProject(w, r) PROVE IInv'
  <2>1. TypeOK'
    BY <1>1, <1>0
       DEF TypeOK, Times, Backup, Request, LockInv, WriteInv, Payload,
           disk, Goto, PutProject
  <2>2. LockInv'
    BY <1>1, <1>0
       DEF TypeOK, LockInv, Holding, disk, Goto, PutProject
  <2>3. WriteInv'
    BY <1>1, <1>0
       DEF TypeOK, Request, LockInv, Holding, WriteInv, Payload, disk,
           Goto, PutProject
  <2>4. CheckInv'
    BY <1>1, <1>0
       DEF TypeOK, LockInv, Holding, CheckInv, WriteInv, Payload,
           Phase, disk, Goto, PutProject
  <2>5. FilesWhole'
    BY <1>1, <1>0
       DEF TypeOK, Backup, WriteInv, Payload, FilesWhole, disk, Goto,
           PutProject
  <2>6. QED
    BY <2>1, <2>2, <2>3, <2>4, <2>5
       DEF IInv, SaveInv
<1>2. ASSUME NEW w \in Writers, AcquireLock(w) PROVE IInv'
  <2>1. TypeOK'
    BY <1>2, <1>0
       DEF TypeOK, Times, Backup, Request, LockInv, WriteInv, Payload,
           disk, Goto, AcquireLock, LockIsFree
  <2>2. LockInv'
    BY <1>2, <1>0
       DEF TypeOK, LockInv, Holding, disk, Goto, AcquireLock,
           LockIsFree
  <2>3. WriteInv'
    BY <1>2, <1>0
       DEF TypeOK, Request, LockInv, Holding, WriteInv, Payload, disk,
           Goto, AcquireLock, LockIsFree
  <2>4. CheckInv'
    BY <1>2, <1>0
       DEF TypeOK, LockInv, Holding, CheckInv, WriteInv, Payload,
           Phase, disk, Goto, AcquireLock, LockIsFree
  <2>5. FilesWhole'
    BY <1>2, <1>0
       DEF TypeOK, Backup, WriteInv, Payload, FilesWhole, disk, Goto,
           AcquireLock, LockIsFree
  <2>6. QED
    BY <2>1, <2>2, <2>3, <2>4, <2>5
       DEF IInv, SaveInv
<1>3. ASSUME NEW w \in Writers, CheckExists(w) PROVE IInv'
  <2>1. CASE file = None
    BY <1>3, <2>1, DecideKeeps DEF CheckExists
  <2>2. CASE file # None
    <3>0. /\ pc[w] = "exists" /\ pc' = [pc EXCEPT ![w] = "read"]
          /\ UNCHANGED <<disk, lock, req, cur, tmp, drop, answer, saves, replaced>>
      BY <1>3, <2>2 DEF CheckExists, Goto
    <3>1. TypeOK'
      BY <1>0, <3>0
         DEF TypeOK, Times, Backup, Request, LockInv, WriteInv,
             Payload, disk
    <3>2. LockInv'
      BY <1>0, <3>0
         DEF TypeOK, LockInv, Holding, disk
    <3>3. WriteInv'
      BY <1>0, <3>0
         DEF TypeOK, Request, LockInv, Holding, WriteInv, Payload,
             disk
    <3>4. CheckInv'
      BY <1>0, <3>0
         DEF TypeOK, LockInv, Holding, CheckInv, WriteInv, Payload,
             Phase, disk
    <3>5. FilesWhole'
      BY <1>0, <3>0
         DEF TypeOK, Backup, WriteInv, Payload, FilesWhole, disk,
             Goto
    <3>6. QED
      BY <3>1, <3>2, <3>3, <3>4, <3>5
         DEF IInv, SaveInv
  <2>3. QED
    BY <2>1, <2>2
<1>4. ASSUME NEW w \in Writers, ReadCurrent(w) PROVE IInv'
  <2>1. CASE file # None
    BY <1>4, <2>1, DecideKeeps DEF ReadCurrent
  <2>2. CASE file = None
    BY <1>4, <1>0, <2>2, NoTmp, LeaveKeeps DEF ReadCurrent, Holding, TypeOK
  <2>3. QED
    BY <2>1, <2>2
<1>5. ASSUME NEW w \in Writers, OpenTmp(w) PROVE IInv'
  <2>1. TypeOK'
    BY <1>5, <1>0
       DEF TypeOK, Times, Backup, Request, LockInv, WriteInv, Payload,
           disk, Goto, OpenTmp
  <2>2. LockInv'
    BY <1>5, <1>0
       DEF TypeOK, LockInv, Holding, disk, Goto, OpenTmp
  <2>3. WriteInv'
    BY <1>5, <1>0
       DEF TypeOK, Request, LockInv, Holding, WriteInv, Payload, disk,
           Goto, OpenTmp
  <2>4. CheckInv'
    BY <1>5, <1>0
       DEF TypeOK, LockInv, Holding, CheckInv, WriteInv, Payload,
           Phase, disk, Goto, OpenTmp
  <2>5. FilesWhole'
    BY <1>5, <1>0
       DEF TypeOK, Backup, WriteInv, Payload, FilesWhole, disk, Goto,
           OpenTmp
  <2>6. QED
    BY <2>1, <2>2, <2>3, <2>4, <2>5
       DEF IInv, SaveInv
<1>6. ASSUME NEW w \in Writers, FlushTmp(w) PROVE IInv'
  <2>1. TypeOK'
    BY <1>6, <1>0
       DEF TypeOK, Times, Backup, Request, LockInv, WriteInv, Payload,
           disk, Goto, FlushTmp
  <2>2. LockInv'
    BY <1>6, <1>0
       DEF TypeOK, LockInv, Holding, disk, Goto, FlushTmp
  <2>3. WriteInv'
    BY <1>6, <1>0
       DEF TypeOK, Request, LockInv, Holding, WriteInv, Payload, disk,
           Goto, FlushTmp
  <2>4. CheckInv'
    BY <1>6, <1>0
       DEF TypeOK, LockInv, Holding, CheckInv, WriteInv, Payload,
           Phase, disk, Goto, FlushTmp
  <2>5. FilesWhole'
    BY <1>6, <1>0
       DEF TypeOK, Backup, WriteInv, Payload, FilesWhole, disk, Goto,
           FlushTmp
  <2>6. QED
    BY <2>1, <2>2, <2>3, <2>4, <2>5
       DEF IInv, SaveInv
<1>7. ASSUME NEW w \in Writers, ReplaceBak(w) PROVE IInv'
  <2>1. TypeOK'
    BY <1>7, <1>0
       DEF TypeOK, Times, Backup, Request, LockInv, WriteInv, Payload,
           disk, Goto, ReplaceBak, Rename, Flushed
  <2>2. LockInv'
    BY <1>7, <1>0
       DEF TypeOK, LockInv, Holding, disk, Goto, ReplaceBak, Rename,
           Flushed
  <2>3. WriteInv'
    BY <1>7, <1>0
       DEF TypeOK, Request, LockInv, Holding, WriteInv, Payload, disk,
           Goto, ReplaceBak, Rename, Flushed
  <2>4. CheckInv'
    BY <1>7, <1>0
       DEF TypeOK, LockInv, Holding, CheckInv, WriteInv, Payload,
           Phase, disk, Goto, ReplaceBak, Rename, Flushed
  <2>5. FilesWhole'
    BY <1>7, <1>0
       DEF TypeOK, Backup, WriteInv, Payload, FilesWhole, disk, Goto,
           ReplaceBak, Rename, Flushed
  <2>6. QED
    BY <2>1, <2>2, <2>3, <2>4, <2>5
       DEF IInv, SaveInv
<1>8. ASSUME NEW w \in Writers, KeepBackup(w) PROVE IInv'
  <2>1. CASE Leave(w, "error")
    BY <1>8, <1>0, <2>1, NoTmp, LeaveKeeps DEF KeepBackup, Holding, TypeOK
  <2>2. CASE ~Leave(w, "error")
    <3>0. /\ pc[w] = "keep"
          /\ pc' = [pc EXCEPT ![w] = "write"] \/ pc' = [pc EXCEPT ![w] = "backup"]
          /\ UNCHANGED <<disk, lock, req, cur, tmp, drop, answer, saves, replaced>>
      BY <1>8, <2>2 DEF KeepBackup, Goto
    <3>1. TypeOK'
      BY <1>0, <3>0
         DEF TypeOK, Times, Backup, Request, LockInv, WriteInv,
             Payload, disk
    <3>2. LockInv'
      BY <1>0, <3>0
         DEF TypeOK, LockInv, Holding, disk
    <3>3. WriteInv'
      BY <1>0, <3>0
         DEF TypeOK, Request, LockInv, Holding, WriteInv, Payload,
             disk
    <3>4. CheckInv'
      BY <1>0, <3>0
         DEF TypeOK, LockInv, Holding, CheckInv, WriteInv, Payload,
             Phase, disk
    <3>5. FilesWhole'
      BY <1>0, <3>0
         DEF TypeOK, Backup, WriteInv, Payload, FilesWhole, disk,
             Goto
    <3>6. QED
      BY <3>1, <3>2, <3>3, <3>4, <3>5
         DEF IInv, SaveInv
  <2>3. QED
    BY <2>1, <2>2
<1>9. ASSUME NEW w \in Writers, ReplaceBackup(w) PROVE IInv'
  <2>1. TypeOK'
    BY <1>9, <1>0
       DEF TypeOK, Times, Backup, Request, LockInv, WriteInv, Payload,
           disk, Goto, ReplaceBackup, Rename, Flushed, OldestOf, Note
  <2>2. LockInv'
    BY <1>9, <1>0
       DEF TypeOK, LockInv, Holding, disk, Goto, ReplaceBackup, Rename,
           Flushed, OldestOf, Note
  <2>3. WriteInv'
    BY <1>9, <1>0
       DEF TypeOK, Request, LockInv, Holding, WriteInv, Payload, disk,
           Goto, ReplaceBackup, Rename, Flushed, OldestOf, Note
  <2>4. CheckInv'
    BY <1>9, <1>0
       DEF TypeOK, LockInv, Holding, CheckInv, WriteInv, Payload,
           Phase, disk, Goto, ReplaceBackup, Rename, Flushed, OldestOf,
           Note
  <2>5. FilesWhole'
    <3>1. tmp[w] \in Data /\ tmp[w] = cur[w] /\ file' = file /\ bak' = bak
      BY <1>9, <1>0 DEF ReplaceBackup, Rename, Flushed, WriteInv, Payload, TypeOK
    <3>2. PICK t \in Times : backups' \subseteq
                 backups \cup {[at |-> t, rev |-> revision_of[cur[w]], data |-> tmp[w]]}
      BY <1>9 DEF ReplaceBackup
    <3>3. QED
      BY <1>0, <3>1, <3>2 DEF FilesWhole
  <2>6. QED
    BY <2>1, <2>2, <2>3, <2>4, <2>5
       DEF IInv, SaveInv
<1>10. ASSUME NEW w \in Writers, StampBackup(w) PROVE IInv'
  <2>1. TypeOK'
    BY <1>10, <1>0
       DEF TypeOK, Times, Backup, Request, LockInv, WriteInv, Payload,
           disk, Goto, StampBackup
  <2>2. LockInv'
    BY <1>10, <1>0
       DEF TypeOK, LockInv, Holding, disk, Goto, StampBackup
  <2>3. WriteInv'
    BY <1>10, <1>0
       DEF TypeOK, Request, LockInv, Holding, WriteInv, Payload, disk,
           Goto, StampBackup
  <2>4. CheckInv'
    BY <1>10, <1>0
       DEF TypeOK, LockInv, Holding, CheckInv, WriteInv, Payload,
           Phase, disk, Goto, StampBackup
  <2>5. FilesWhole'
    BY <1>10, <1>0
       DEF TypeOK, Backup, WriteInv, Payload, FilesWhole, disk, Goto,
           StampBackup
  <2>6. QED
    BY <2>1, <2>2, <2>3, <2>4, <2>5
       DEF IInv, SaveInv
<1>11. ASSUME NEW w \in Writers, PruneBackups(w) PROVE IInv'
  <2>0. /\ pc[w] = "prune" /\ drop' \in [Writers -> SUBSET Backup]
        /\ backups' \in SUBSET backups
        /\ pc' = pc \/ pc' = [pc EXCEPT ![w] = "write"]
        /\ UNCHANGED <<file, bak, clock, lock, req, cur, tmp, answer, saves, replaced>>
    BY <1>11, <1>0 DEF PruneBackups, Goto, TypeOK
  <2>1. TypeOK'
    BY <1>0, <2>0
       DEF TypeOK, Times, Backup, Request, LockInv, WriteInv, Payload,
           disk, Goto
  <2>2. LockInv'
    BY <1>0, <2>0
       DEF TypeOK, LockInv, Holding
  <2>3. WriteInv'
    BY <1>0, <2>0
       DEF TypeOK, Request, LockInv, Holding, WriteInv, Payload, disk,
           Goto
  <2>4. CheckInv'
    BY <1>0, <2>0
       DEF TypeOK, LockInv, Holding, CheckInv, WriteInv, Payload,
           Phase
  <2>5. FilesWhole'
    BY <1>0, <2>0
       DEF TypeOK, Backup, WriteInv, Payload, FilesWhole
  <2>6. QED
    BY <2>1, <2>2, <2>3, <2>4, <2>5
       DEF IInv, SaveInv
<1>12. ASSUME NEW w \in Writers, ReplaceFile(w) PROVE IInv'
  <2>1. TypeOK'
    BY <1>12, <1>0
       DEF TypeOK, Times, Backup, Request, LockInv, WriteInv, Payload,
           disk, Goto, ReplaceFile, Rename, Flushed, Note
  <2>2. LockInv'
    BY <1>12, <1>0
       DEF TypeOK, LockInv, Holding, disk, Goto, ReplaceFile, Rename,
           Flushed, Note
  <2>3. WriteInv'
    BY <1>12, <1>0
       DEF TypeOK, Request, LockInv, Holding, WriteInv, Payload, disk,
           Goto, ReplaceFile, Rename, Flushed, Note
  <2>4. CheckInv'
    BY <1>12, <1>0
       DEF TypeOK, LockInv, Holding, CheckInv, WriteInv, Payload,
           Phase, disk, Goto, ReplaceFile, Rename, Flushed, Note
  <2>5. FilesWhole'
    BY <1>12, <1>0
       DEF TypeOK, Backup, WriteInv, Payload, FilesWhole, disk, Goto,
           ReplaceFile, Rename, Flushed, Note
  <2>6. QED
    BY <2>1, <2>2, <2>3, <2>4, <2>5
       DEF IInv, SaveInv
<1>13. ASSUME NEW w \in Writers, ReleaseLock(w) PROVE IInv'
  BY <1>13, <1>0, NoTmp, LeaveKeeps DEF ReleaseLock, Holding, TypeOK
<1>14. ASSUME NEW w \in Writers, WriteFails(w) PROVE IInv'
  BY <1>14, <1>0, LeaveKeeps DEF WriteFails, Holding, TypeOK
<1>15. ASSUME DeleteProject PROVE IInv'
  <2>1. TypeOK'
    BY <1>15, <1>0
       DEF TypeOK, Times, Backup, Request, LockInv, WriteInv, Payload,
           disk, Goto, DeleteProject
  <2>2. LockInv'
    BY <1>15, <1>0
       DEF TypeOK, LockInv, Holding, disk, Goto, DeleteProject
  <2>3. WriteInv'
    BY <1>15, <1>0
       DEF TypeOK, Request, LockInv, Holding, WriteInv, Payload, disk,
           Goto, DeleteProject
  <2>4. CheckInv'
    BY <1>15, <1>0
       DEF TypeOK, LockInv, Holding, CheckInv, WriteInv, Payload,
           Phase, disk, Goto, DeleteProject
  <2>5. FilesWhole'
    BY <1>15, <1>0
       DEF TypeOK, Backup, WriteInv, Payload, FilesWhole, disk, Goto,
           DeleteProject
  <2>6. QED
    BY <2>1, <2>2, <2>3, <2>4, <2>5
       DEF IInv, SaveInv
<1>16. ASSUME NEW d \in Data, OtherProgramWrites(d) PROVE IInv'
  <2>1. TypeOK'
    BY <1>16, <1>0
       DEF TypeOK, Times, Backup, Request, LockInv, WriteInv, Payload,
           disk, Goto, OtherProgramWrites
  <2>2. LockInv'
    BY <1>16, <1>0
       DEF TypeOK, LockInv, Holding, disk, Goto, OtherProgramWrites
  <2>3. WriteInv'
    BY <1>16, <1>0
       DEF TypeOK, Request, LockInv, Holding, WriteInv, Payload, disk,
           Goto, OtherProgramWrites
  <2>4. CheckInv'
    BY <1>16, <1>0
       DEF TypeOK, LockInv, Holding, CheckInv, WriteInv, Payload,
           Phase, disk, Goto, OtherProgramWrites
  <2>5. FilesWhole'
    BY <1>16, <1>0
       DEF TypeOK, Backup, WriteInv, Payload, FilesWhole, disk, Goto,
           OtherProgramWrites
  <2>6. QED
    BY <2>1, <2>2, <2>3, <2>4, <2>5
       DEF IInv, SaveInv
<1>17. ASSUME Crash PROVE IInv'
  <2>1. TypeOK'
    BY <1>17, <1>0
       DEF TypeOK, Times, Backup, Request, LockInv, WriteInv, Payload,
           disk, Goto, Crash
  <2>2. LockInv'
    BY <1>17, <1>0
       DEF TypeOK, LockInv, Holding, disk, Goto, Crash
  <2>3. WriteInv'
    BY <1>17, <1>0
       DEF TypeOK, Request, LockInv, Holding, WriteInv, Payload, disk,
           Goto, Crash
  <2>4. CheckInv'
    BY <1>17, <1>0
       DEF TypeOK, LockInv, Holding, CheckInv, WriteInv, Payload,
           Phase, disk, Goto, Crash
  <2>5. FilesWhole'
    BY <1>17, <1>0
       DEF TypeOK, Backup, WriteInv, Payload, FilesWhole, disk, Goto,
           Crash
  <2>6. QED
    BY <2>1, <2>2, <2>3, <2>4, <2>5
       DEF IInv, SaveInv
<1>18. CASE UNCHANGED vars
  <2>1. TypeOK'
    BY <1>18, <1>0
       DEF TypeOK, Times, Backup, Request, LockInv, WriteInv, Payload,
           disk, Goto, vars
  <2>2. LockInv'
    BY <1>18, <1>0
       DEF TypeOK, LockInv, Holding, disk, Goto, vars
  <2>3. WriteInv'
    BY <1>18, <1>0
       DEF TypeOK, Request, LockInv, Holding, WriteInv, Payload, disk,
           Goto, vars
  <2>4. CheckInv'
    BY <1>18, <1>0
       DEF TypeOK, LockInv, Holding, CheckInv, WriteInv, Payload,
           Phase, disk, Goto, vars
  <2>5. FilesWhole'
    BY <1>18, <1>0
       DEF TypeOK, Backup, WriteInv, Payload, FilesWhole, disk, Goto,
           vars
  <2>6. QED
    BY <2>1, <2>2, <2>3, <2>4, <2>5
       DEF IInv, SaveInv
<1>19. QED
  BY <1>1, <1>2, <1>3, <1>4, <1>5, <1>6, <1>7, <1>8, <1>9, <1>10, <1>11, <1>12, <1>13, <1>14, <1>15, <1>16, <1>17, <1>18 DEF Next, SaveStep

\* The type invariant of the save protocol, for every number of threads.
THEOREM TypeCorrect == Spec => []TypeOK
<1>1. IInv => TypeOK
  BY DEF IInv
<1>2. QED
  BY <1>1, InitIInv, NextIInv, PTL DEF Spec

\* The lock, the temporary files and the check a save relies on.
THEOREM SavesAreChecked == Spec => []SaveInv
<1>1. IInv => SaveInv
  BY DEF IInv
<1>2. QED
  BY <1>1, InitIInv, NextIInv, PTL DEF Spec

\* No crash and no failed write leaves a torn project file or backup.
THEOREM SavesAreAtomic == Spec => []FilesWhole
<1>1. IInv => FilesWhole
  BY DEF IInv
<1>2. QED
  BY <1>1, InitIInv, NextIInv, PTL DEF Spec

\* A save never silently replaces a version its condition does not hold of, as
\* long as no other program writes between the check and the rename.
THEOREM SavesOverwriteKnowingly ==
  ASSUME ~WritesInSave
  PROVE  Spec => NoSilentOverwrite
<1> DEFINE Knowing == \A w \in Writers :
          (pc[w] = "write" /\ pc'[w] = "release" /\ file # None)
              => ~Refused(req[w], file)
<1>1. IInv => Knowing
  BY DEF IInv, SaveInv, CheckInv, Phase
<1>2. IInv /\ [Next]_vars => [Knowing]_vars
  BY <1>1
<1>3. QED
  BY <1>2, InitIInv, NextIInv, PTL DEF Spec, NoSilentOverwrite

-----------------------------------------------------------------------------
(* The backups, when the clock goes forward and no other program writes      *)
(* between the check and the rename: the backup taken at time i holds the    *)
(* i-th version replaced, and none of the last KEEP_BACKUPS times is lost.   *)

BackupsInv ==
    /\ Len(replaced) = clock
    /\ \A b \in backups : b.at \in 1..clock /\ b.data = replaced[b.at]
    /\ \A i \in 1..clock : i > clock - KEEP_BACKUPS => \E b \in backups : b.at = i

\* A save backs up a version the newest backup does not hold, then has it there;
\* what it is to drop is older than the last KEEP_BACKUPS.
KeepingInv ==
    \A w \in Writers :
        /\ pc[w] = "backup" /\ clock # 0 => replaced[clock] # cur[w]
        /\ pc[w] \in {"stamp", "prune"} =>
              /\ clock # 0 /\ replaced[clock] = cur[w]
              /\ \A b \in drop[w] : b.at <= clock - KEEP_BACKUPS
        /\ pc[w] = "write" /\ cur[w] \notin {None, req[w].data} =>
              clock # 0 /\ replaced[clock] = cur[w]

KeepInv == BackupsInv /\ KeepingInv

\* The newest backup is that of the last version replaced.
LEMMA NewestBackup ==
  ASSUME IInv, BackupsInv, backups # {}
  PROVE  /\ clock # 0 /\ clock \in 1..Len(replaced)
         /\ Newest(backups) \in backups /\ Newest(backups).data = replaced[clock]
<1>0. /\ clock \in Nat /\ Len(replaced) = clock
      /\ \A b \in backups : b \in Backup /\ b.at \in 1..clock /\ b.data = replaced[b.at]
  BY DEF BackupsInv, IInv, TypeOK, Times
<1>1. clock # 0
  BY <1>0
<1>2. PICK b \in backups : b.at = clock
  BY <1>0, <1>1 DEF BackupsInv
<1>3. ASSUME NEW c \in backups PROVE c = b \/ Older(c, b)
  <2>1. c.at \in 1..clock /\ c.data = replaced[c.at] /\ c.rev = revision_of[c.data]
    BY <1>0 DEF IInv, FilesWhole
  <2>2. b.at = clock /\ b.data = replaced[b.at] /\ b.rev = revision_of[b.data]
    BY <1>0, <1>2 DEF IInv, FilesWhole
  <2>3. CASE c.at = clock
    <3>1. c \in Backup /\ b \in Backup
      BY <1>0
    <3>2. c = b
      BY <2>1, <2>2, <2>3, <3>1 DEF Backup
    <3>3. QED
      BY <3>2
  <2>4. CASE c.at < clock
    BY <1>2, <2>4 DEF Older
  <2>5. QED
    BY <1>0, <2>1, <2>3, <2>4
<1>4. ASSUME NEW c \in backups, \A d \in backups : d = c \/ Older(d, c)
      PROVE  c = b
  <2>1. CASE Older(b, c)
    <3>1. c.at <= clock /\ c.at \in Nat /\ b.rev \in Nat /\ c.rev \in Nat
      BY <1>0 DEF Backup
    <3>2. c = b \/ Older(c, b)
      BY <1>3
    <3>3. QED
      BY <1>0, <1>2, <2>1, <3>1, <3>2 DEF Older
  <2>2. QED
    BY <1>4, <2>1
<1>5. Newest(backups) = b
  BY <1>3, <1>4 DEF Newest
<1>6. QED
  BY <1>0, <1>1, <1>2, <1>5

\* What a save is to drop once it has taken a backup: never one of the last
\* KEEP_BACKUPS - 1 that are there.
LEMMA OldestAreOld ==
  ASSUME IInv, BackupsInv,
         NEW b \in OldestOf(backups, Cardinality(backups) + 1 - KEEP_BACKUPS)
  PROVE  b.at <= clock + 1 - KEEP_BACKUPS
<1> DEFINE older == {c \in backups : Older(c, b)}
           late == {c \in backups : c.at >= b.at}
           at == [c \in backups |-> c.at]
<1>0. /\ clock \in Nat
      /\ b \in backups /\ Cardinality(older) < Cardinality(backups) + 1 - KEEP_BACKUPS
  BY DEF OldestOf, IInv, TypeOK, Times
<1>1. ASSUME NEW c \in backups
      PROVE  /\ c \in Backup /\ c.at \in 1..clock
             /\ c.data = replaced[c.at] /\ c.rev = revision_of[c.data]
  BY DEF IInv, TypeOK, FilesWhole, BackupsInv
<1>2. ASSUME NEW c \in backups, NEW d \in backups, c.at = d.at PROVE c = d
  <2>1. c.data = d.data /\ c.rev = d.rev /\ c \in Backup /\ d \in Backup
    BY <1>1, <1>2
  <2>2. QED
    BY <1>2, <2>1 DEF Backup
<1>3. ASSUME NEW S \in SUBSET backups, NEW lo \in Int, NEW hi \in Int,
             \A c \in S : c.at \in lo..hi
      PROVE  IsFiniteSet(S) /\ Cardinality(S) \in Nat /\ Cardinality(S) <= Cardinality(lo..hi)
  <2> DEFINE f == [c \in S |-> c.at]
  <2>1. f \in Injection(S, lo..hi)
    <3>1. f \in [S -> lo..hi]
      BY <1>3
    <3>2. \A c, d \in S : f[c] = f[d] => c = d
      BY <1>2
    <3>3. QED
      BY <3>1, <3>2 DEF Injection, IsInjective
  <2>2. IsFiniteSet(lo..hi)
    BY FS_Interval
  <2>3. QED
    BY <2>1, <2>2, FS_Injection, FS_CardinalityType
<1>4. IsFiniteSet(backups)
  <2>1. backups \in SUBSET backups /\ 1 \in Int /\ clock \in Int /\ \A c \in backups : c.at \in 1..clock
    BY <1>0, <1>1
  <2>2. QED
    BY <1>3, <2>1
<1>5. older \in SUBSET backups /\ late \in SUBSET backups /\ backups = older \cup late /\ older \cap late = {}
  <2>1. ASSUME NEW c \in backups PROVE Older(c, b) <=> ~(c.at >= b.at)
    <3>1. c.at \in Nat /\ b.at \in Nat
      BY <1>0, <1>1
    <3>2. ASSUME c.at = b.at PROVE ~Older(c, b)
      <4>1. c = b /\ b.rev \in Nat
        BY <1>0, <1>1, <1>2, <3>2 DEF Backup
      <4>2. QED
        BY <3>1, <4>1 DEF Older
    <3>3. ASSUME c.at # b.at PROVE Older(c, b) <=> c.at < b.at
      BY <3>3 DEF Older
    <3>4. QED
      BY <3>1, <3>2, <3>3
  <2>2. QED
    BY <2>1
<1>6. Cardinality(backups) = Cardinality(older) + Cardinality(late)
  <2> HIDE DEF older, late
  <2>1. IsFiniteSet(older) /\ IsFiniteSet(late)
    BY <1>4, <1>5, FS_Subset
  <2>2. Cardinality(backups) = Cardinality(older) + Cardinality(late) - Cardinality({})
    BY <1>5, <2>1, FS_Union
  <2>3. Cardinality({}) = 0 /\ Cardinality(older) \in Nat /\ Cardinality(late) \in Nat
    BY <2>1, FS_EmptySet, FS_CardinalityType
  <2>4. QED
    BY <2>2, <2>3
<1>7. /\ Cardinality(late) \in Nat /\ Cardinality(older) \in Nat
      /\ Cardinality(late) <= Cardinality(b.at .. clock)
  <2>1. b.at \in Int /\ clock \in Int
    BY <1>0, <1>1
  <2>2. \A c \in late : c.at \in b.at .. clock
    BY <1>0, <1>1
  <2> HIDE DEF older, late
  <2>3. Cardinality(older) \in Nat
    BY <1>4, <1>5, FS_Subset, FS_CardinalityType
  <2>5. QED
    BY <1>3, <1>5, <2>1, <2>2, <2>3
<1>8. Cardinality(b.at .. clock) = clock - b.at + 1
  <2>1. \A i, j \in Int : i <= j => Cardinality(i .. j) = j - i + 1
    BY ONLY FS_Interval
  <2>2. b.at \in 1..clock /\ clock \in Int
    BY <1>0, <1>1
  <2>3. b.at \in Int /\ b.at <= clock
    BY ONLY <2>2
  <2>4. QED
    BY ONLY <2>1, <2>2, <2>3
<1> HIDE DEF older, late
<1>9. b.at \in Int /\ KEEP_BACKUPS \in Int
  BY <1>0, <1>1
<1>10. QED
  BY <1>0, <1>6, <1>7, <1>8, <1>9

\* Note adds a version when it is not the last one replaced.
LEMMA Noted ==
  ASSUME IInv, BackupsInv, NEW d \in Data, clock # 0 => replaced[clock] # d
  PROVE  /\ Len(Note(d)) = clock + 1 /\ Note(d)[clock + 1] = d
         /\ \A i \in 1..clock : Note(d)[i] = replaced[i]
<1>1. replaced \in Seq(Data) /\ Len(replaced) = clock /\ clock \in Nat
  BY DEF BackupsInv, IInv, TypeOK, Times
<1>2. Note(d) = Append(replaced, d)
  BY <1>1 DEF Note
<1>3. QED
  BY <1>1, <1>2

LEMMA BackedUp ==
  ASSUME ClockForward, IInv, KeepInv, NEW w \in Writers, ReplaceBackup(w)
  PROVE  KeepInv'
<1> DEFINE new == [at |-> clock + 1, rev |-> revision_of[cur[w]], data |-> cur[w]]
<1>0. /\ TypeOK /\ LockInv /\ WriteInv /\ BackupsInv /\ KeepingInv /\ IInv
      /\ clock \in Nat /\ Len(replaced) = clock
  BY DEF IInv, SaveInv, KeepInv, BackupsInv, TypeOK, Times
<1>1. /\ pc[w] = "backup" /\ cur[w] \in Data /\ tmp[w] = cur[w]
  BY <1>0 DEF ReplaceBackup, Rename, Flushed, WriteInv, Payload
<1>2. clock' = clock + 1 /\ backups' = {b \in backups : b.at # clock + 1 \/ b.rev # new.rev} \cup {new}
  BY <1>1 DEF ReplaceBackup
<1>3. backups' = backups \cup {new}
  <2>1. \A b \in backups : b.at # clock + 1
    BY <1>0 DEF BackupsInv
  <2>2. QED
    BY <1>2, <2>1
<1>4. replaced' = Note(cur[w])
  BY DEF ReplaceBackup
<1>5. /\ Len(replaced') = clock + 1 /\ replaced'[clock + 1] = cur[w]
      /\ \A i \in 1..clock : replaced'[i] = replaced[i]
  BY <1>0, <1>1, <1>4, Noted DEF KeepingInv
<1>6. BackupsInv'
  <2>1. ASSUME NEW b \in backups' PROVE b.at \in 1..clock' /\ b.data = replaced'[b.at]
    <3>1. CASE b \in backups
      <4>1. b.at \in 1..clock /\ b.data = replaced[b.at]
        BY <1>0, <3>1 DEF BackupsInv
      <4>2. QED
        BY <1>0, <1>2, <1>5, <4>1
    <3>2. CASE b = new
      <4>1. b.at = clock + 1 /\ b.data = cur[w]
        BY <3>2
      <4>2. QED
        BY <1>0, <1>2, <1>5, <4>1
    <3>3. QED
      BY <1>3, <3>1, <3>2
  <2>2. ASSUME NEW i \in 1..clock', i > clock' - KEEP_BACKUPS
        PROVE  \E b \in backups' : b.at = i
    <3>1. CASE i = clock + 1
      <4>1. new \in backups' /\ new.at = clock + 1
        BY <1>3
      <4>2. QED
        BY <3>1, <4>1
    <3>2. CASE i # clock + 1
      <4>1. i \in 1..clock /\ i > clock - KEEP_BACKUPS
        BY <1>0, <1>2, <2>2, <3>2
      <4>2. QED
        BY <1>0, <1>3, <4>1 DEF BackupsInv
    <3>3. QED
      BY <3>1, <3>2
  <2>3. QED
    BY <1>2, <1>5, <2>1, <2>2 DEF BackupsInv
<1>7. KeepingInv'
  <2>1. /\ pc' = [pc EXCEPT ![w] = "stamp"] /\ UNCHANGED <<cur, req>>
        /\ drop' = [drop EXCEPT ![w] = OldestOf(backups, Cardinality(backups) + 1 - KEEP_BACKUPS)]
    BY DEF ReplaceBackup, Goto
  <2>2. pc'[w] = "stamp" /\ drop'[w] = OldestOf(backups, Cardinality(backups) + 1 - KEEP_BACKUPS)
    BY <1>0, <2>1 DEF TypeOK
  <2>3. \A b \in drop'[w] : b.at <= clock' - KEEP_BACKUPS
    BY <1>0, <1>2, <2>2, OldestAreOld
  <2>4. ASSUME NEW v \in Writers, v # w PROVE pc'[v] \in {"idle", "waiting"}
    BY <1>0, <1>1, <2>1, <2>4 DEF LockInv, Holding, TypeOK
  <2>5. clock' # 0 /\ replaced'[clock'] = cur'[w]
    BY <1>0, <1>2, <1>5, <2>1
  <2>6. ASSUME NEW v \in Writers
        PROVE  /\ pc'[v] = "backup" /\ clock' # 0 => replaced'[clock'] # cur'[v]
               /\ pc'[v] \in {"stamp", "prune"} =>
                     /\ clock' # 0 /\ replaced'[clock'] = cur'[v]
                     /\ \A b \in drop'[v] : b.at <= clock' - KEEP_BACKUPS
               /\ pc'[v] = "write" /\ cur'[v] \notin {None, req'[v].data} =>
                     clock' # 0 /\ replaced'[clock'] = cur'[v]
    <3>1. CASE v = w
      BY <2>2, <2>3, <2>5, <3>1
    <3>2. CASE v # w
      BY <2>4, <3>2
    <3>3. QED
      BY <3>1, <3>2
  <2>7. QED
    BY <2>6 DEF KeepingInv
<1>8. QED
  BY <1>6, <1>7 DEF KeepInv

\* A step that leaves the backups and the history alone, and moves one thread.
LEMMA KeepsBackups ==
  ASSUME IInv, BackupsInv, UNCHANGED <<backups, clock, replaced>>
  PROVE  BackupsInv'
BY DEF BackupsInv

LEMMA KeepsKeeping ==
  ASSUME IInv, KeepingInv, UNCHANGED <<backups, clock, replaced>>, NEW w \in Writers,
         \A v \in Writers \ {w} : /\ pc'[v] = pc[v] /\ cur'[v] = cur[v]
                                  /\ req'[v] = req[v] /\ drop'[v] = drop[v],
         pc'[w] \notin {"backup", "stamp", "prune"},
         pc'[w] = "write" => cur'[w] \in {None, req'[w].data}
  PROVE  KeepingInv'
<1>1. ASSUME NEW v \in Writers
      PROVE  /\ pc'[v] = "backup" /\ clock' # 0 => replaced'[clock'] # cur'[v]
             /\ pc'[v] \in {"stamp", "prune"} =>
                   /\ clock' # 0 /\ replaced'[clock'] = cur'[v]
                   /\ \A b \in drop'[v] : b.at <= clock' - KEEP_BACKUPS
             /\ pc'[v] = "write" /\ cur'[v] \notin {None, req'[v].data} =>
                   clock' # 0 /\ replaced'[clock'] = cur'[v]
  <2>1. CASE v = w
    BY <2>1
  <2>2. CASE v # w
    BY <2>2 DEF KeepingInv
  <2>3. QED
    BY <2>1, <2>2
<1>2. QED
  BY <1>1 DEF KeepingInv

\* KeepBackup skips the copy when the newest backup holds the version read.
LEMMA BackupChosen ==
  ASSUME IInv, KeepInv, NEW w \in Writers, KeepBackup(w)
  PROVE  KeepInv'
<1>0. TypeOK /\ WriteInv /\ BackupsInv /\ KeepingInv /\ Len(replaced) = clock /\ replaced \in Seq(Data)
  BY DEF IInv, SaveInv, KeepInv, BackupsInv, TypeOK
<1>1. UNCHANGED <<backups, clock, replaced, drop>> /\ pc[w] = "keep" /\ cur[w] \in Data
  BY <1>0 DEF KeepBackup, disk, WriteInv
<1>2. BackupsInv'
  BY <1>0, <1>1, KeepsBackups
<1>3. KeepingInv'
  <2>1. CASE Leave(w, "error")
    <3>1. pc' = [pc EXCEPT ![w] = "idle"] /\ req' = [req EXCEPT ![w] = None] /\ cur' = [cur EXCEPT ![w] = None]
      BY <2>1 DEF Leave, Goto
    <3>2. QED
      BY <1>0, <1>1, <3>1, KeepsKeeping DEF TypeOK
  <2>2. CASE ~Leave(w, "error")
    <3> DEFINE kept == backups # {} /\ Newest(backups).rev = revision_of[cur[w]]
    <3>1. /\ pc' = [pc EXCEPT ![w] = IF kept THEN "write" ELSE "backup"]
          /\ UNCHANGED <<req, cur>>
      BY <2>2 DEF KeepBackup, Goto
    <3>2. kept => clock # 0 /\ replaced[clock] = cur[w]
      <4>1. ASSUME backups # {}, Newest(backups).rev = revision_of[cur[w]]
            PROVE  clock # 0 /\ replaced[clock] = cur[w]
        <5>1. /\ clock # 0 /\ clock \in 1..Len(replaced)
              /\ Newest(backups) \in backups /\ Newest(backups).data = replaced[clock]
          BY <1>0, <4>1, NewestBackup
        <5>2. Newest(backups).rev = revision_of[replaced[clock]] /\ replaced[clock] \in Data
          BY <1>0, <5>1 DEF IInv, FilesWhole
        <5>3. QED
          BY <1>1, <4>1, <5>1, <5>2
      <4>2. QED
        BY <4>1
    <3>3. ~kept /\ clock # 0 => replaced[clock] # cur[w]
      <4>1. ASSUME backups # {}, Newest(backups).rev # revision_of[cur[w]]
            PROVE  replaced[clock] # cur[w]
        <5>1. Newest(backups) \in backups /\ Newest(backups).data = replaced[clock]
          BY <1>0, <4>1, NewestBackup
        <5>2. Newest(backups).rev = revision_of[replaced[clock]]
          BY <5>1 DEF IInv, FilesWhole
        <5>3. QED
          BY <4>1, <5>2
      <4>2. ASSUME clock # 0 PROVE backups # {}
        <5>1. clock \in 1..clock /\ clock > clock - KEEP_BACKUPS
          BY <1>0, <4>2 DEF TypeOK, Times
        <5>2. QED
          BY <1>0, <5>1 DEF BackupsInv
      <4>3. QED
        BY <4>1, <4>2
    <3> HIDE DEF kept
    <3>4. pc'[w] = IF kept THEN "write" ELSE "backup"
      BY <1>0, <3>1 DEF TypeOK
    <3>5. \A v \in Writers \ {w} : pc'[v] = pc[v]
      BY <1>0, <3>1 DEF TypeOK
    <3>6. ASSUME NEW v \in Writers
          PROVE  /\ pc'[v] = "backup" /\ clock' # 0 => replaced'[clock'] # cur'[v]
                 /\ pc'[v] \in {"stamp", "prune"} =>
                       /\ clock' # 0 /\ replaced'[clock'] = cur'[v]
                       /\ \A b \in drop'[v] : b.at <= clock' - KEEP_BACKUPS
                 /\ pc'[v] = "write" /\ cur'[v] \notin {None, req'[v].data} =>
                       clock' # 0 /\ replaced'[clock'] = cur'[v]
      <4>1. CASE v = w
        BY <1>1, <3>1, <3>2, <3>3, <3>4, <4>1
      <4>2. CASE v # w
        BY <1>0, <1>1, <3>1, <3>5, <4>2 DEF KeepingInv
      <4>3. QED
        BY <4>1, <4>2
    <3>7. QED
      BY <3>6 DEF KeepingInv
  <2>3. QED
    BY <2>1, <2>2
<1>4. QED
  BY <1>2, <1>3 DEF KeepInv

\* What is dropped is older than the last KEEP_BACKUPS.
LEMMA BackupsPruned ==
  ASSUME IInv, KeepInv, NEW w \in Writers, PruneBackups(w)
  PROVE  KeepInv'
<1>0. /\ TypeOK /\ BackupsInv /\ KeepingInv /\ clock \in Nat
      /\ UNCHANGED <<clock, replaced, cur, req>> /\ pc[w] = "prune"
      /\ clock # 0 /\ replaced[clock] = cur[w]
      /\ \A b \in drop[w] : b.at <= clock - KEEP_BACKUPS
  BY DEF IInv, KeepInv, KeepingInv, PruneBackups, TypeOK, Times
<1>1. PICK gone \in SUBSET drop[w] : backups' = backups \ gone
  <2>1. CASE backups' = backups
    <3>1. backups' = backups \ {} /\ {} \in SUBSET drop[w]
      BY <2>1
    <3>2. QED
      BY <3>1
  <2>2. CASE backups' # backups
    <3>1. PICK old \in OldestOf(drop[w], 1) : backups' = backups \ {old}
      BY <2>2 DEF PruneBackups
    <3>2. QED
      BY <3>1 DEF OldestOf
  <2>3. QED
    BY <2>1, <2>2
<1>2. BackupsInv'
  <2>1. ASSUME NEW i \in 1..clock, i > clock - KEEP_BACKUPS
        PROVE  \E b \in backups' : b.at = i
    <3>1. PICK b \in backups : b.at = i
      BY <1>0, <2>1 DEF BackupsInv
    <3>2. b \notin gone
      BY <1>0, <2>1, <3>1
    <3>3. QED
      BY <1>1, <3>1, <3>2
  <2>2. QED
    BY <1>0, <1>1, <2>1 DEF BackupsInv
<1>3. /\ pc'[w] \in {"prune", "write"} /\ drop'[w] \subseteq drop[w]
      /\ \A v \in Writers \ {w} : pc'[v] = pc[v] /\ drop'[v] = drop[v]
  BY <1>0 DEF PruneBackups, Goto, TypeOK
<1>4. ASSUME NEW v \in Writers
      PROVE  /\ pc'[v] = "backup" /\ clock' # 0 => replaced'[clock'] # cur'[v]
             /\ pc'[v] \in {"stamp", "prune"} =>
                   /\ clock' # 0 /\ replaced'[clock'] = cur'[v]
                   /\ \A b \in drop'[v] : b.at <= clock' - KEEP_BACKUPS
             /\ pc'[v] = "write" /\ cur'[v] \notin {None, req'[v].data} =>
                   clock' # 0 /\ replaced'[clock'] = cur'[v]
  <2>1. CASE v = w
    BY <1>0, <1>3, <2>1
  <2>2. CASE v # w
    <3>1. pc'[v] = pc[v] /\ drop'[v] = drop[v] /\ cur'[v] = cur[v] /\ req'[v] = req[v]
      BY <1>0, <1>3, <2>2
    <3>2. QED
      BY <1>0, <3>1 DEF KeepingInv
  <2>3. QED
    BY <2>1, <2>2
<1>5. QED
  BY <1>2, <1>4 DEF KeepInv, KeepingInv

\* The rename of a save replaces a version that was backed up, or none.
LEMMA FileReplaced ==
  ASSUME ~WritesInSave, IInv, KeepInv, NEW w \in Writers, ReplaceFile(w)
  PROVE  UNCHANGED <<backups, clock, replaced>>
<1>0. /\ TypeOK /\ WriteInv /\ CheckInv /\ BackupsInv /\ KeepingInv
      /\ Len(replaced) = clock
  BY DEF IInv, SaveInv, KeepInv, BackupsInv
<1>1. pc[w] = "write" /\ tmp[w] = req[w].data
  BY <1>0 DEF ReplaceFile, Rename, Flushed, WriteInv, Payload
<1>2. file \in {cur[w], None}
  BY <1>0, <1>1 DEF CheckInv, Phase
<1>3. replaced' = IF file = tmp[w] THEN replaced ELSE Note(file)
  BY DEF ReplaceFile
<1>4. file # None /\ file # tmp[w] => replaced # <<>> /\ replaced[Len(replaced)] = file
  <2>1. ASSUME file # None, file # tmp[w]
        PROVE  clock # 0 /\ replaced[clock] = file
    BY <1>0, <1>1, <1>2, <2>1 DEF KeepingInv
  <2>2. QED
    BY <1>0, <2>1
<1>5. QED
  BY <1>3, <1>4 DEF Note, ReplaceFile

LEMMA KeepStep ==
  ASSUME ClockForward, ~WritesInSave, IInv, KeepInv, [Next]_vars
  PROVE  KeepInv'
<1>0. TypeOK /\ LockInv /\ BackupsInv /\ KeepingInv
  BY DEF IInv, SaveInv, KeepInv
<1>1. ASSUME UNCHANGED <<backups, clock, replaced>>, KeepingInv'
      PROVE  KeepInv'
  BY <1>0, <1>1, KeepsBackups DEF KeepInv
<1>2. ASSUME NEW w \in Writers, NEW step \in {"idle", "waiting", "exists", "read", "bak", "keep", "release"},
             pc' = [pc EXCEPT ![w] = step], UNCHANGED <<backups, clock, replaced>>,
             \A v \in Writers \ {w} : cur'[v] = cur[v] /\ req'[v] = req[v] /\ drop'[v] = drop[v]
      PROVE  KeepInv'
  <2>1. pc'[w] = step /\ \A v \in Writers \ {w} : pc'[v] = pc[v]
    BY <1>0, <1>2 DEF TypeOK
  <2>2. QED
    BY <1>0, <1>1, <1>2, <2>1, KeepsKeeping
<1>3. ASSUME NEW w \in Writers, NEW r \in Request, PutProject(w, r) PROVE KeepInv'
  BY <1>0, <1>2, <1>3 DEF PutProject, Goto, disk, TypeOK
<1>4. ASSUME NEW w \in Writers, AcquireLock(w) PROVE KeepInv'
  BY <1>0, <1>2, <1>4 DEF AcquireLock, Goto, disk, TypeOK
<1>5. ASSUME NEW w \in Writers, NEW reply, Leave(w, reply),
             UNCHANGED <<disk, replaced>>, \A v \in Writers \ {w} : drop'[v] = drop[v]
      PROVE  KeepInv'
  BY <1>0, <1>2, <1>5 DEF Leave, Goto, disk, TypeOK
<1>6. ASSUME NEW w \in Writers, NEW version, Decide(w, version) PROVE KeepInv'
  <2>1. UNCHANGED <<disk, tmp, drop, saves, replaced>>
    BY <1>6 DEF Decide
  <2>2. CASE Leave(w, "conflict")
    BY <1>5, <2>1, <2>2
  <2>3. CASE /\ cur' = [cur EXCEPT ![w] = version]
             /\ pc' = [pc EXCEPT ![w] = IF version = None THEN "write" ELSE "bak"]
             /\ UNCHANGED <<lock, req, answer>>
    <3>1. /\ pc'[w] \in {"write", "bak"} /\ (pc'[w] = "write" => cur'[w] = None)
          /\ \A v \in Writers \ {w} : pc'[v] = pc[v] /\ cur'[v] = cur[v]
      BY <1>0, <2>3 DEF TypeOK
    <3>2. QED
      BY <1>0, <1>1, <2>1, <2>3, <3>1, KeepsKeeping DEF disk
  <2>4. QED
    BY <1>6, <2>2, <2>3 DEF Decide, Goto
<1>7. ASSUME NEW w \in Writers, CheckExists(w) PROVE KeepInv'
  BY <1>2, <1>6, <1>7 DEF CheckExists, Goto, disk
<1>8. ASSUME NEW w \in Writers, ReadCurrent(w) PROVE KeepInv'
  BY <1>5, <1>6, <1>8 DEF ReadCurrent
<1>9. ASSUME UNCHANGED <<pc, cur, req, drop, backups, clock, replaced>> PROVE KeepInv'
  BY <1>0, <1>1, <1>9 DEF KeepingInv
<1>10. ASSUME NEW w \in Writers, OpenTmp(w) \/ FlushTmp(w) PROVE KeepInv'
  BY <1>9, <1>10 DEF OpenTmp, FlushTmp, disk
<1>11. ASSUME NEW w \in Writers, ReplaceBak(w) PROVE KeepInv'
  <2>1. /\ pc' = [pc EXCEPT ![w] = IF cur[w] = req[w].data THEN "write" ELSE "keep"]
        /\ UNCHANGED <<cur, req, drop, backups, clock, replaced>>
    BY <1>11 DEF ReplaceBak, Goto
  <2>2. /\ pc'[w] \in {"write", "keep"} /\ (pc'[w] = "write" => cur'[w] = req'[w].data)
        /\ \A v \in Writers \ {w} : pc'[v] = pc[v]
    BY <1>0, <2>1 DEF TypeOK
  <2>3. QED
    BY <1>0, <1>1, <2>1, <2>2, KeepsKeeping
<1>12. ASSUME NEW w \in Writers, StampBackup(w) PROVE KeepInv'
  <2>1. /\ pc[w] = "stamp" /\ UNCHANGED <<cur, req, drop, backups, clock, replaced>>
        /\ pc' = [pc EXCEPT ![w] = "prune"]
    BY <1>12 DEF StampBackup, Goto, disk
  <2>2. pc'[w] = "prune" /\ \A v \in Writers \ {w} : pc'[v] = pc[v]
    BY <1>0, <2>1 DEF TypeOK
  <2>3. KeepingInv'
    BY <1>0, <2>1, <2>2 DEF KeepingInv
  <2>4. QED
    BY <1>1, <2>1, <2>3
<1>13. ASSUME NEW w \in Writers, ReplaceFile(w) PROVE KeepInv'
  <2>1. UNCHANGED <<backups, clock, replaced>>
    BY <1>13, FileReplaced
  <2>2. QED
    BY <1>2, <1>13, <2>1 DEF ReplaceFile, Goto
<1>14. ASSUME NEW w \in Writers, ReleaseLock(w) PROVE KeepInv'
  BY <1>5, <1>14 DEF ReleaseLock
<1>15. ASSUME NEW w \in Writers, WriteFails(w) PROVE KeepInv'
  BY <1>0, <1>5, <1>15 DEF WriteFails, TypeOK
<1>16. ASSUME DeleteProject \/ \E d \in Data : OtherProgramWrites(d) PROVE KeepInv'
  BY <1>9, <1>16 DEF DeleteProject, OtherProgramWrites
<1>17. CASE Crash
  <2>1. UNCHANGED <<backups, clock, replaced>> /\ \A w \in Writers : pc'[w] = "idle"
    BY <1>17 DEF Crash, disk
  <2>2. QED
    BY <1>1, <2>1 DEF KeepingInv
<1>18. CASE UNCHANGED vars
  BY <1>9, <1>18 DEF vars, disk
<1>19. QED
  BY <1>3, <1>4, <1>7, <1>8, <1>10, <1>11, <1>12, <1>13, <1>14, <1>15, <1>16, <1>17, <1>18,
     BackupChosen, BackedUp, BackupsPruned
     DEF Next, SaveStep

\* The last KEEP_BACKUPS versions that saves replaced can be restored, whatever
\* fails, crashes or cannot be removed, as long as the clock goes forward (the
\* backups are named by it) and other programs keep out of a save.
THEOREM SavesKeepBackups ==
  ASSUME ClockForward, ~WritesInSave
  PROVE  Spec => []BackupsKeepLast
<1>1. Init => KeepInv
  BY DEF Init, KeepInv, BackupsInv, KeepingInv
<1>2. IInv /\ KeepInv /\ [Next]_vars => KeepInv'
  BY KeepStep
<1>3. IInv /\ KeepInv => BackupsKeepLast
  <2> SUFFICES ASSUME IInv, KeepInv, NEW i \in 1..Len(replaced), i > Len(replaced) - KEEP_BACKUPS
               PROVE  \E b \in backups : b.data = replaced[i]
    BY DEF BackupsKeepLast
  <2>1. Len(replaced) = clock
    BY DEF KeepInv, BackupsInv
  <2>2. PICK b \in backups : b.at = i
    BY <2>1 DEF KeepInv, BackupsInv
  <2>3. QED
    BY <2>2 DEF KeepInv, BackupsInv
<1>4. QED
  BY <1>1, <1>2, <1>3, InitIInv, NextIInv, PTL DEF Spec

-----------------------------------------------------------------------------
(* The steps of a save, seen as steps of the compare-and-swap cell.        *)

\* How a step of one thread changes the phases the cell sees.
LEMMA PhaseStep ==
  ASSUME TypeOK, NEW w \in Writers, NEW step, pc' = [pc EXCEPT ![w] = step]
  PROVE  [v \in Writers |-> Phase(v)]' =
           [[v \in Writers |-> Phase(v)] EXCEPT ![w] = Phase(w)']
<1>1. \A v \in Writers : v # w => Phase(v)' = Phase(v)
  BY DEF Phase, TypeOK
<1>2. QED
  BY <1>1

\* A thread that leaves the with-block without writing ends its call.
LEMMA LeaveEnds ==
  ASSUME TypeOK, NEW w \in Writers, NEW reply, Leave(w, reply), UNCHANGED file
  PROVE  Cell!End(w, reply)
<1>1. pc' = [pc EXCEPT ![w] = "idle"] /\ Phase(w)' = "none"
  BY DEF Leave, Goto, Phase, TypeOK
<1>2. QED
  BY <1>1, PhaseStep DEF Leave, Cell!End

\* The step stays within one phase: the cell sees nothing.
LEMMA SamePhase ==
  ASSUME TypeOK, NEW w \in Writers, NEW step, pc' = [pc EXCEPT ![w] = step],
         Phase(w)' = Phase(w), UNCHANGED <<file, req, cur, answer>>
  PROVE  UNCHANGED Cell!vars
BY PhaseStep DEF Cell!vars

\* The check of the precondition is where the cell accepts or refuses.
LEMMA DecideMaps ==
  ASSUME TypeOK, NEW w \in Writers, pc[w] \in {"exists", "read"}, Decide(w, file)
  PROVE  Cell!Accept(w) \/ Cell!Refuse(w)
<1>1. Phase(w) = "asked"
  BY DEF Phase
<1>2. CASE Refused(req[w], file)
  <2>1. Leave(w, "conflict") /\ UNCHANGED file
    BY <1>2 DEF Decide, disk
  <2>2. QED
    BY <1>1, <1>2, <2>1, LeaveEnds DEF Cell!Refuse
<1>3. CASE ~Refused(req[w], file)
  <2>1. /\ cur' = [cur EXCEPT ![w] = file]
        /\ pc' = [pc EXCEPT ![w] = IF file = None THEN "write" ELSE "bak"]
        /\ UNCHANGED <<file, req, answer>>
    BY <1>3 DEF Decide, Goto, disk
  <2>2. Phase(w)' = "accepted"
    BY <2>1 DEF Phase, TypeOK
  <2>3. QED
    BY <1>1, <1>3, <2>1, <2>2, PhaseStep DEF Cell!Accept
<1>4. QED
  BY <1>2, <1>3

\* No call is under way at first, whatever the file is.
LEMMA InitMaps == Init => Cell!Init
BY DEF Init, Cell!Init, Phase

\* Every step is a step of the cell, or leaves what the cell sees alone.
LEMMA StepMaps ==
  ASSUME ~WritesInSave, IInv, [Next]_vars
  PROVE  [Cell!Next]_(Cell!vars)
<1>0. TypeOK /\ LockInv /\ WriteInv /\ CheckInv
  BY IInvParts
<1>1. ASSUME NEW w \in Writers, NEW r \in Request, PutProject(w, r) PROVE Cell!Ask(w)
  <2>1. /\ pc[w] = "idle" /\ pc' = [pc EXCEPT ![w] = "waiting"]
        /\ req' = [req EXCEPT ![w] = r] /\ answer' = [answer EXCEPT ![w] = None]
        /\ UNCHANGED <<file, cur>>
    BY <1>1 DEF PutProject, Goto, disk
  <2>2. Phase(w) = "none" /\ Phase(w)' = "asked"
    BY <1>0, <2>1 DEF Phase, TypeOK
  <2>3. QED
    BY <1>0, <2>1, <2>2, PhaseStep DEF Cell!Ask
<1>2. ASSUME NEW w \in Writers, AcquireLock(w) PROVE UNCHANGED Cell!vars
  <2>1. /\ pc[w] = "waiting" /\ pc' = [pc EXCEPT ![w] = "exists"]
        /\ UNCHANGED <<file, req, cur, answer>>
    BY <1>2, <1>0 DEF AcquireLock, Goto, disk
  <2>2. Phase(w)' = Phase(w)
    BY <1>0, <2>1 DEF Phase, TypeOK
  <2>3. QED
    BY <1>0, <2>1, <2>2, SamePhase
<1>3. ASSUME NEW w \in Writers, CheckExists(w)
     PROVE Cell!Accept(w) \/ Cell!Refuse(w) \/ UNCHANGED Cell!vars
  <2>1. CASE file = None
    BY <1>3, <1>0, <2>1, DecideMaps DEF CheckExists
  <2>2. CASE file # None
    <3>1. /\ pc[w] = "exists" /\ pc' = [pc EXCEPT ![w] = "read"]
          /\ UNCHANGED <<file, req, cur, answer>>
      BY <1>3, <2>2 DEF CheckExists, Goto, disk
    <3>2. Phase(w)' = Phase(w)
      BY <1>0, <3>1 DEF Phase, TypeOK
    <3>3. QED
      BY <1>0, <3>1, <3>2, SamePhase
  <2>3. QED
    BY <2>1, <2>2
<1>4. ASSUME NEW w \in Writers, ReadCurrent(w)
     PROVE Cell!Accept(w) \/ Cell!Refuse(w) \/ Cell!Fail(w)
  <2>1. CASE file # None
    BY <1>4, <1>0, <2>1, DecideMaps DEF ReadCurrent
  <2>2. CASE file = None
    <3>1. Phase(w) = "asked" /\ Leave(w, "error") /\ UNCHANGED file
      BY <1>4, <2>2 DEF ReadCurrent, disk, Phase
    <3>2. QED
      BY <1>0, <3>1, LeaveEnds DEF Cell!Fail
  <2>3. QED
    BY <2>1, <2>2
<1>5. ASSUME NEW w \in Writers, OpenTmp(w) PROVE UNCHANGED Cell!vars
  BY <1>5 DEF OpenTmp, disk, Cell!vars, Phase
<1>6. ASSUME NEW w \in Writers, FlushTmp(w) PROVE UNCHANGED Cell!vars
  BY <1>6 DEF FlushTmp, disk, Cell!vars, Phase
<1>7. ASSUME NEW w \in Writers, ReplaceBak(w) PROVE UNCHANGED Cell!vars
  <2>1. /\ pc[w] = "bak" /\ pc' = [pc EXCEPT ![w] = IF cur[w] = req[w].data THEN "write" ELSE "keep"]
        /\ UNCHANGED <<file, req, cur, answer>>
    BY <1>7, <1>0 DEF ReplaceBak, Rename, Goto, disk
  <2>2. Phase(w)' = Phase(w)
    BY <1>0, <2>1 DEF Phase, TypeOK
  <2>3. QED
    BY <1>0, <2>1, <2>2, SamePhase
<1>8. ASSUME NEW w \in Writers, KeepBackup(w) PROVE Cell!Fail(w) \/ UNCHANGED Cell!vars
  <2>1. CASE Leave(w, "error")
    <3>1. Phase(w) = "accepted" /\ UNCHANGED file
      BY <1>8 DEF KeepBackup, disk, Phase
    <3>2. QED
      BY <1>0, <2>1, <3>1, LeaveEnds DEF Cell!Fail
  <2>2. CASE ~Leave(w, "error")
    <3>1. PICK step \in {"write", "backup"} : pc' = [pc EXCEPT ![w] = step]
      BY <1>8, <2>2 DEF KeepBackup, Goto
    <3>2. pc[w] = "keep" /\ UNCHANGED <<file, req, cur, answer>>
      BY <1>8, <2>2 DEF KeepBackup, disk
    <3>3. Phase(w)' = Phase(w)
      BY <1>0, <3>1, <3>2 DEF Phase, TypeOK
    <3>4. QED
      BY <1>0, <3>1, <3>2, <3>3, SamePhase
  <2>3. QED
    BY <2>1, <2>2
<1>9. ASSUME NEW w \in Writers, ReplaceBackup(w) PROVE UNCHANGED Cell!vars
  <2>1. /\ pc[w] = "backup" /\ pc' = [pc EXCEPT ![w] = "stamp"]
        /\ UNCHANGED <<file, req, cur, answer>>
    BY <1>9, <1>0 DEF ReplaceBackup, Rename, Goto, disk
  <2>2. Phase(w)' = Phase(w)
    BY <1>0, <2>1 DEF Phase, TypeOK
  <2>3. QED
    BY <1>0, <2>1, <2>2, SamePhase
<1>10. ASSUME NEW w \in Writers, StampBackup(w) PROVE UNCHANGED Cell!vars
  <2>1. /\ pc[w] = "stamp" /\ pc' = [pc EXCEPT ![w] = "prune"]
        /\ UNCHANGED <<file, req, cur, answer>>
    BY <1>10, <1>0 DEF StampBackup, Goto, disk
  <2>2. Phase(w)' = Phase(w)
    BY <1>0, <2>1 DEF Phase, TypeOK
  <2>3. QED
    BY <1>0, <2>1, <2>2, SamePhase
<1>11. ASSUME NEW w \in Writers, PruneBackups(w) PROVE UNCHANGED Cell!vars
  <2>1. PICK step \in {"prune", "write"} : pc' = [pc EXCEPT ![w] = step]
    BY <1>11, <1>0 DEF PruneBackups, Goto, TypeOK
  <2>2. pc[w] = "prune" /\ UNCHANGED <<file, req, cur, answer>>
    BY <1>11 DEF PruneBackups
  <2>3. Phase(w)' = Phase(w)
    BY <1>0, <2>1, <2>2 DEF Phase, TypeOK
  <2>4. QED
    BY <1>0, <2>1, <2>2, <2>3, SamePhase
<1>12. ASSUME NEW w \in Writers, ReplaceFile(w) PROVE Cell!Commit(w)
  <2>1. /\ pc[w] = "write" /\ pc' = [pc EXCEPT ![w] = "release"]
        /\ file' = tmp[w] /\ tmp[w] \notin {None, Torn}
        /\ UNCHANGED <<req, cur, answer>>
    BY <1>12 DEF ReplaceFile, Rename, Flushed, Goto
  <2>2. Phase(w) = "accepted" /\ Phase(w)' = "committed"
    BY <1>0, <2>1 DEF Phase, TypeOK
  <2>3. file \in {cur[w], None}
    BY <1>0, <2>2 DEF CheckInv
  <2>4. tmp[w] = req[w].data
    BY <1>0, <2>1 DEF WriteInv, Payload
  <2>5. QED
    BY <1>0, <2>1, <2>2, <2>3, <2>4, PhaseStep DEF Cell!Commit
<1>13. ASSUME NEW w \in Writers, ReleaseLock(w) PROVE Cell!Report(w)
  <2>1. Phase(w) = "committed" /\ Leave(w, "saved") /\ UNCHANGED file
    BY <1>13 DEF ReleaseLock, disk, Phase
  <2>2. QED
    BY <1>0, <2>1, LeaveEnds DEF Cell!Report
<1>14. ASSUME NEW w \in Writers, WriteFails(w) PROVE Cell!Fail(w)
  <2>1. Phase(w) = "accepted" /\ Leave(w, "error") /\ UNCHANGED file
    BY <1>14 DEF WriteFails, disk, Phase
  <2>2. QED
    BY <1>0, <2>1, LeaveEnds DEF Cell!Fail
<1>15. ASSUME DeleteProject PROVE Cell!Delete
  BY <1>15 DEF DeleteProject, Cell!Delete, Phase
<1>16. ASSUME NEW d \in Data, OtherProgramWrites(d) PROVE Cell!WriteElsewhere
  <2>1. /\ \A w \in Writers : Phase(w) # "accepted"
        /\ file' = d /\ UNCHANGED <<pc, req, cur, answer>>
    BY <1>16 DEF OtherProgramWrites
  <2>2. [w \in Writers |-> Phase(w)]' = [w \in Writers |-> Phase(w)]
    BY <2>1 DEF Phase
  <2>3. QED
    BY <2>1, <2>2 DEF Cell!WriteElsewhere
<1>17. ASSUME Crash PROVE Cell!Crash
  BY <1>17 DEF Crash, Cell!Crash, Phase, disk
<1>18. CASE UNCHANGED vars
  BY <1>18 DEF vars, disk, Cell!vars, Phase
<1>19. QED
  BY <1>1, <1>2, <1>3, <1>4, <1>5, <1>6, <1>7, <1>8, <1>9, <1>10, <1>11, <1>12, <1>13, <1>14, <1>15, <1>16, <1>17, <1>18 DEF Next, SaveStep, Cell!Next

\* The files of a project behave like a compare-and-swap cell: a client sees a
\* save happen at once, in full, against the version it was checked with.
THEOREM StorageImplementsCell ==
  ASSUME ~WritesInSave
  PROVE  Spec => ImplementsCell
<1>1. IInv /\ [Next]_vars => [Cell!Next]_(Cell!vars)
  BY StepMaps
<1>2. QED
  BY <1>1, InitMaps, InitIInv, NextIInv, PTL DEF Spec, ImplementsCell, Cell!Spec
============================================================================
