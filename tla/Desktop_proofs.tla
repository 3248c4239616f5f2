--------------------------- MODULE Desktop_proofs ---------------------------
(***************************************************************************)
(* Proofs about the desktop shell and its page, for any number of launches *)
(* and edits: what is unsaved is not lost unasked, the draft holds it, the *)
(* engine is not stopped under a window, and the projects folder is whole. *)
(***************************************************************************)
EXTENDS Desktop, TLAPS

Drafts(last) ==
    {NoDraft} \cup {Draft(project, clean) : project \in 0..last, clean \in BOOLEAN}

\* The page's flags, and every project is one of the edits made so far.
DeskTypeOK ==
    /\ loaded \in BOOLEAN /\ dirty \in BOOLEAN /\ edited \in BOOLEAN
    /\ timer \in BOOLEAN /\ full \in BOOLEAN /\ backend \in BOOLEAN
    /\ newest \in Nat /\ work \in 0..newest /\ filed \in 0..newest
    /\ drafts \in [Ports -> Drafts(newest)]
    /\ port \in Ports \cup {0}
    /\ to \in {"missing", "empty", "own", "old"}

\* A page is shown only once there is an engine with a port to show it from;
\* only a page has a draft that is due, asks before it is unloaded, and saves.
ShownInv ==
    /\ loaded => start = "shown"
    /\ timer \/ asked # "none" \/ saving # {} => loaded
    /\ start \in {"spawn", "wait", "shown"} => port \in Ports

\* The engine was not told to stop while there is a page.
EngineInv == loaded => engine # "told"

\* A draft that is due is of an edit; a question follows a written draft.
DraftInv == (timer => edited) /\ DraftHoldsWork

DeskInv == DeskTypeOK /\ ShownInv /\ EngineInv /\ DraftInv

-----------------------------------------------------------------------------
\* What saveDraft leaves in the storage: a draft of the project it was given,
\* or what was there, when the storage is full.
LEMMA SavedDraft ==
    ASSUME NEW STATE last, last \in Nat,
           NEW STATE stored, stored \in [Ports -> Drafts(last)],
           NEW STATE project, project \in 0..last, NEW STATE clean, clean \in BOOLEAN, port \in Ports,
           saveDraft(stored, project, clean)
    PROVE  /\ drafts' \in [Ports -> Drafts(last)]
           /\ full' \in BOOLEAN
           /\ ~full' => drafts'[port] = Draft(project, clean)
  <1> DEFINE D == Drafts(last)
  <1>1. Draft(project, clean) \in D /\ stored \in [Ports -> D]
    BY DEF Drafts
  <1> HIDE DEF D
  <1>2. /\ drafts' \in [Ports -> D] /\ full' \in BOOLEAN
        /\ ~full' => drafts'[port] = Draft(project, clean)
    BY <1>1 DEF saveDraft
  <1> QED BY <1>2 DEF D

\* The page that opens from a storage of drafts: nothing is due, and if it is
\* unsaved it is what the draft of this origin holds.
LEMMA Opened ==
    ASSUME DeskTypeOK, NEW STATE stored, stored \in [Ports -> Drafts(newest)], port \in Ports,
           Open(stored)
    PROVE  /\ loaded' = TRUE /\ edited' = FALSE /\ timer' = FALSE
           /\ dirty' \in BOOLEAN /\ full' \in BOOLEAN
           /\ work' \in 0..newest
           /\ drafts' \in [Ports -> Drafts(newest)]
           /\ dirty' => drafts'[port] = Draft(work', FALSE)
  <1> DEFINE draft == stored[port]
  <1>1. /\ draft.clean \in BOOLEAN /\ draft.project \in 0..newest
        /\ ~draft.clean => draft = Draft(draft.project, FALSE)
    <2>1. draft \in Drafts(newest) /\ 0 \in 0..newest
      BY DEF DeskTypeOK
    <2>2. CASE draft = NoDraft
      BY <2>1, <2>2 DEF NoDraft
    <2>3. CASE draft # NoDraft
      <3>1. PICK p \in 0..newest, c \in BOOLEAN : draft = Draft(p, c)
        BY <2>1, <2>3 DEF Drafts
      <3>2. draft.clean = c /\ draft.project = p
        BY <3>1 DEF Draft
      <3>3. ~c => c = FALSE
        OBVIOUS
      <3> HIDE DEF draft
      <3> QED BY <3>1, <3>2, <3>3
    <2> QED BY <2>2, <2>3
  <1>2. /\ loaded' = TRUE /\ edited' = FALSE /\ timer' = FALSE
        /\ dirty' = ~draft.clean
        /\ work' \in 0..newest
        /\ ~draft.clean => work' = draft.project
    BY <1>1 DEF Open, DeskTypeOK
  <1>3. CASE draft.clean /\ draft.project = 0
    <2>1. saveDraft(stored, 0, TRUE)
      BY <1>3 DEF Open
    <2>2. newest \in Nat /\ 0 \in 0..newest
      BY DEF DeskTypeOK
    <2> QED BY <1>2, <1>3, <2>1, <2>2, SavedDraft
  <1>4. CASE ~(draft.clean /\ draft.project = 0)
    <2>1. drafts' = stored /\ full' = FALSE
      BY <1>4 DEF Open
    <2> QED BY <1>1, <1>2, <2>1
  <1> QED BY <1>3, <1>4

-----------------------------------------------------------------------------
LEMMA InitInv == DeskInit => DeskInv
  <1> SUFFICES ASSUME DeskInit PROVE DeskInv
    OBVIOUS
  <1>1. drafts \in [Ports -> Drafts(newest)]
    BY DEF DeskInit, Drafts
  <1>2. ~loaded /\ ~timer /\ start = "off" /\ asked = "none" /\ saving = {}
    BY DEF DeskInit
  <1>3. newest \in Nat /\ work \in 0..newest /\ filed \in 0..newest
    BY DEF DeskInit
  <1>4. port \in Ports \cup {0} /\ to \in {"missing", "empty", "own", "old"}
    BY DEF DeskInit
  <1>5. DeskTypeOK
    BY <1>1, <1>3, <1>4 DEF DeskInit, DeskTypeOK
  <1> QED BY <1>2, <1>5 DEF DeskInv, ShownInv, EngineInv, DraftInv, DraftHoldsWork

-----------------------------------------------------------------------------
(* The kinds of steps.                                                      *)

Places == /\ port' \in Ports \cup {0} /\ backend' \in BOOLEAN
          /\ to' \in {"missing", "empty", "own", "old"}

\* The page, its storage and what is asked of it stay, or a question goes.
LEMMA PageKept ==
    ASSUME DeskInv, UNCHANGED <<loaded, page, storage, filed, newest>>,
           loaded => UNCHANGED <<start, port>> /\ engine' # "told",
           asked' \in {asked, "none"}, asked # "none" \/ saving' = saving, Places,
           start' \in {"spawn", "wait", "shown"} => port' \in Ports
    PROVE  DeskInv'
  <1>1. DeskTypeOK'
    BY DEF DeskInv, DeskTypeOK, page, storage, Places
  <1>2. ShownInv' /\ EngineInv'
    BY DEF DeskInv, ShownInv, EngineInv, page, storage
  <1>3. DraftInv'
    BY DEF DeskInv, DraftInv, ShownInv, DraftHoldsWork, Draft, page, storage
  <1> QED BY <1>1, <1>2, <1>3 DEF DeskInv

\* The page is gone.
LEMMA PageGone ==
    ASSUME DeskInv, NoPage, NoLeaving, UNCHANGED <<port, to, filed, newest>>,
           drafts' \in [Ports -> Drafts(newest)], full' \in BOOLEAN,
           start' \in {start, "off"}, backend' \in BOOLEAN
    PROVE  DeskInv'
  <1>1. DeskTypeOK'
    <2>1. drafts' \in [Ports -> Drafts(newest')] /\ newest' \in Nat
      BY DEF DeskInv, DeskTypeOK
    <2>2. work' \in 0..newest' /\ filed' \in 0..newest'
      BY DEF DeskInv, DeskTypeOK, NoPage
    <2>3. port' \in Ports \cup {0} /\ to' \in {"missing", "empty", "own", "old"}
      BY DEF DeskInv, DeskTypeOK
    <2> QED BY <2>1, <2>2, <2>3 DEF DeskTypeOK, NoPage
  <1>2. ShownInv' /\ EngineInv'
    BY DEF DeskInv, ShownInv, EngineInv, NoPage, NoLeaving
  <1>3. DraftInv'
    BY DEF DraftInv, DraftHoldsWork, NoPage
  <1> QED BY <1>1, <1>2, <1>3 DEF DeskInv

\* A page opens on what the storage holds.
LEMMA PageOpens ==
    ASSUME DeskInv, NEW STATE stored, stored \in [Ports -> Drafts(newest)],
           Open(stored), UNCHANGED <<engineVars, to, filed, newest>>,
           port \in Ports, engine = "up", start' = "shown"
    PROVE  DeskInv'
  <1>1. DeskTypeOK
    BY DEF DeskInv
  <1>2. /\ loaded' = TRUE /\ edited' = FALSE /\ timer' = FALSE
        /\ dirty' \in BOOLEAN /\ full' \in BOOLEAN
        /\ work' \in 0..newest
        /\ drafts' \in [Ports -> Drafts(newest)]
        /\ dirty' => drafts'[port] = Draft(work', FALSE)
    BY <1>1, Opened
  <1>3. DeskTypeOK'
    BY <1>1, <1>2 DEF DeskTypeOK, engineVars
  <1>4. ShownInv' /\ EngineInv'
    BY <1>2 DEF ShownInv, EngineInv, engineVars
  <1>5. DraftInv'
    BY <1>2 DEF DraftInv, DraftHoldsWork, Draft, engineVars
  <1> QED BY <1>3, <1>4, <1>5 DEF DeskInv

\* A save that succeeds: what was unsaved is saved, and nothing else changes.
LEMMA PageSaved ==
    ASSUME DeskInv, loaded, Saved, asked' = asked, saving' \subseteq saving,
           UNCHANGED <<start, loaded, work, engineVars, newest>>
    PROVE  DeskInv'
  <1>1. DeskTypeOK /\ port \in Ports
    BY DEF DeskInv, ShownInv
  <1>2. drafts' \in [Ports -> Drafts(newest)] /\ full' \in BOOLEAN
    <2>1. CASE dirty
      <3>1. saveDraft(drafts, work, TRUE)
        BY <2>1 DEF Saved
      <3> QED BY <1>1, <3>1, SavedDraft DEF DeskTypeOK
    <2>2. CASE ~dirty
      BY <1>1, <2>2 DEF Saved, DeskTypeOK, storage
    <2> QED BY <2>1, <2>2
  <1>3. /\ edited' \in BOOLEAN /\ timer' \in BOOLEAN /\ dirty' = FALSE
        /\ timer' => edited'
    BY <1>1 DEF Saved, DeskTypeOK, DeskInv, DraftInv
  <1>4. DeskTypeOK'
    <2>1. drafts' \in [Ports -> Drafts(newest')] /\ newest' \in Nat
      BY <1>1, <1>2 DEF DeskTypeOK
    <2>2. work' \in 0..newest' /\ filed' \in 0..newest'
      BY <1>1 DEF DeskTypeOK, Saved, Written
    <2>3. port' \in Ports \cup {0} /\ to' \in {"missing", "empty", "own", "old"}
      BY <1>1 DEF DeskTypeOK, Saved, Written, engineVars
    <2>4. loaded' \in BOOLEAN /\ backend' \in BOOLEAN
      BY <1>1 DEF DeskTypeOK, engineVars
    <2> QED BY <1>2, <1>3, <2>1, <2>2, <2>3, <2>4 DEF DeskTypeOK
  <1>5. ShownInv' /\ EngineInv'
    BY DEF DeskInv, ShownInv, EngineInv, engineVars
  <1>6. DraftInv'
    <2>1. DraftHoldsWork'
      BY <1>3 DEF DraftHoldsWork
    <2> QED BY <1>3, <2>1 DEF DraftInv
  <1> QED BY <1>4, <1>5, <1>6 DEF DeskInv

\* A save that is answered late: only the file changes.
LEMMA PageKeptBySave ==
    ASSUME DeskInv, loaded, SavedLate, asked' = asked, saving' \subseteq saving,
           UNCHANGED <<start, loaded, work, engineVars, newest>>
    PROVE  DeskInv'
  <1>1. DeskTypeOK'
    BY DEF SavedLate, Written, storage, engineVars, DeskInv, DeskTypeOK
  <1>2. ShownInv' /\ EngineInv'
    BY DEF SavedLate, engineVars, DeskInv, ShownInv, EngineInv
  <1>3. DraftInv'
    BY DEF SavedLate, storage, engineVars, DeskInv, DraftInv, DraftHoldsWork, Draft
  <1> QED BY <1>1, <1>2, <1>3 DEF DeskInv

-----------------------------------------------------------------------------
(* Every step.                                                              *)

LEMMA ChangeInv == DeskInv /\ Change => DeskInv'
  <1> SUFFICES ASSUME DeskInv, Change PROVE DeskInv'
    OBVIOUS
  <1>1. newest \in Nat /\ newest' = newest + 1 /\ work' = newest'
    BY DEF Change, DeskInv, DeskTypeOK
  <1>2. drafts' \in [Ports -> Drafts(newest')]
    <2>1. Drafts(newest) \subseteq Drafts(newest')
      BY <1>1 DEF Drafts
    <2>2. drafts \in [Ports -> Drafts(newest)] /\ drafts' = drafts
      BY DEF Change, storage, DeskInv, DeskTypeOK
    <2> QED BY <2>1, <2>2
  <1>3. work' \in 0..newest' /\ filed' \in 0..newest'
    BY <1>1 DEF Change, folders, DeskInv, DeskTypeOK
  <1>4. DeskTypeOK'
    BY <1>1, <1>2, <1>3 DEF Change, storage, engineVars, folders, DeskInv, DeskTypeOK
  <1>5. ShownInv' /\ EngineInv'
    BY DEF Change, leaving, engineVars, DeskInv, ShownInv, EngineInv
  <1>6. DraftInv'
    BY DEF Change, leaving, DraftInv, DraftHoldsWork
  <1> QED BY <1>4, <1>5, <1>6 DEF DeskInv

LEMMA DraftDueInv == DeskInv /\ DraftDue => DeskInv'
  <1> SUFFICES ASSUME DeskInv, DraftDue PROVE DeskInv'
    OBVIOUS
  <1>1. DeskTypeOK /\ port \in Ports
    BY DEF DeskInv, ShownInv, DraftDue
  <1>2. /\ drafts' \in [Ports -> Drafts(newest)] /\ full' \in BOOLEAN
        /\ ~full' => drafts'[port] = Draft(work, FALSE)
    BY <1>1, SavedDraft DEF DraftDue, DeskTypeOK
  <1>3. DeskTypeOK'
    BY <1>1, <1>2 DEF DraftDue, engineVars, folders, DeskTypeOK
  <1>4. ShownInv' /\ EngineInv'
    BY DEF DraftDue, leaving, engineVars, DeskInv, ShownInv, EngineInv
  <1>5. DraftInv'
    <2>1. ~timer' /\ work' = work /\ port' = port
      BY DEF DraftDue, engineVars
    <2> QED BY <1>2, <2>1 DEF DraftInv, DraftHoldsWork
  <1> QED BY <1>3, <1>4, <1>5 DEF DeskInv

\* What beforeunload leaves in the storage.
LEMMA FlushedDrafts ==
    ASSUME DeskInv, loaded
    PROVE  /\ Flushed \subseteq [Ports -> Drafts(newest)]
           /\ Flush => /\ drafts' \in [Ports -> Drafts(newest)] /\ full' \in BOOLEAN
                       /\ edited /\ dirty /\ ~full' => drafts'[port] = Draft(work, FALSE)
  <1> DEFINE D == Drafts(newest)
  <1>1. /\ port \in Ports /\ drafts \in [Ports -> D] /\ full \in BOOLEAN
        /\ newest \in Nat /\ work \in 0..newest
        /\ (~dirty) \in BOOLEAN /\ Draft(work, ~dirty) \in D
    <2>1. /\ port \in Ports /\ drafts \in [Ports -> D] /\ full \in BOOLEAN
          /\ newest \in Nat /\ work \in 0..newest /\ dirty \in BOOLEAN
      BY DEF DeskInv, DeskTypeOK, ShownInv
    <2>2. (~dirty) \in BOOLEAN
      BY <2>1
    <2>3. \A project \in 0..newest, clean \in BOOLEAN : Draft(project, clean) \in D
      BY DEF Drafts
    <2>4. Draft(work, ~dirty) \in D
      BY <2>1, <2>2, <2>3, Zenon
    <2> QED BY <2>1, <2>2, <2>4
  <1>2. Flushed \subseteq [Ports -> D]
    <2> HIDE DEF D
    <2> QED BY <1>1 DEF Flushed
  <1>3. ASSUME Flush
        PROVE  /\ drafts' \in [Ports -> D] /\ full' \in BOOLEAN
               /\ edited /\ dirty /\ ~full' => drafts'[port] = Draft(work, FALSE)
    <2>1. CASE edited
      <3>1. saveDraft(drafts, work, ~dirty)
        BY <1>3, <2>1 DEF Flush
      <3>2. /\ drafts' \in [Ports -> D] /\ full' \in BOOLEAN
            /\ ~full' => drafts'[port] = Draft(work, ~dirty)
        BY <1>1, <3>1, SavedDraft
      <3>3. dirty => Draft(work, ~dirty) = Draft(work, FALSE)
        BY DEF Draft
      <3> QED BY <3>2, <3>3
    <2>2. CASE ~edited
      BY <1>1, <1>3, <2>2 DEF Flush, storage
    <2> QED BY <2>1, <2>2
  <1> QED BY <1>2, <1>3

LEMMA UnloadedInv ==
    ASSUME DeskInv, loaded, Unloaded,
           drafts' \in [Ports -> Drafts(newest)], full' \in BOOLEAN
    PROVE  DeskInv'
  <1>1. NoPage /\ NoLeaving /\ start' \in {start, "off"}
    BY DEF Unloaded, Quit
  <1>2. UNCHANGED <<port, to, filed, newest>> /\ backend' \in BOOLEAN
    BY DEF Unloaded, Quit, engineVars, folders, DeskInv, DeskTypeOK
  <1> QED BY <1>1, <1>2, PageGone

LEMMA ReloadedInv ==
    ASSUME DeskInv, loaded, NEW STATE stored, stored \in [Ports -> Drafts(newest)],
           Reloaded(stored)
    PROVE  DeskInv'
  <1>1. port \in Ports /\ start' = "shown" /\ engine = "up" /\ Open(stored)
    BY DEF DeskInv, ShownInv, Reloaded
  <1>2. UNCHANGED <<engineVars, to, filed, newest>>
    BY DEF Reloaded, folders
  <1> QED BY <1>1, <1>2, PageOpens

LEMMA UnloadInv == DeskInv /\ Unload => DeskInv'
  <1> SUFFICES ASSUME DeskInv, Unload PROVE DeskInv'
    OBVIOUS
  <1>1. loaded
    BY DEF Unload
  <1>2. CASE ~dirty /\ Unloaded /\ Flush
    BY <1>1, <1>2, FlushedDrafts, UnloadedInv
  <1>3. CASE ~dirty /\ \E stored \in Flushed : Reloaded(stored)
    <2>1. PICK stored \in Flushed : Reloaded(stored)
      BY <1>3
    <2>2. stored \in [Ports -> Drafts(newest)]
      BY <1>1, <2>1, FlushedDrafts
    <2> QED BY <1>1, <2>1, <2>2, ReloadedInv
  <1>4. CASE /\ dirty /\ Flush
             /\ asked' = IF closing THEN "close" ELSE "reload"
             /\ closing' = FALSE
             /\ UNCHANGED <<start, loaded, page, unload, saving, saved,
                            engineVars, folders, launches, newest>>
    <2>1. /\ drafts' \in [Ports -> Drafts(newest)] /\ full' \in BOOLEAN
          /\ edited /\ ~full' => drafts'[port] = Draft(work, FALSE)
      BY <1>1, <1>4, FlushedDrafts
    <2>2. DeskTypeOK'
      BY <1>4, <2>1 DEF page, engineVars, folders, DeskInv, DeskTypeOK
    <2>3. ShownInv' /\ EngineInv'
      BY <1>1, <1>4 DEF page, engineVars, DeskInv, ShownInv, EngineInv
    <2>4. DraftInv'
      <3>1. /\ UNCHANGED <<loaded, work, dirty, edited, timer, port>>
            /\ timer => edited
        BY <1>4 DEF page, engineVars, DeskInv, DraftInv
      <3>2. CASE edited
        BY <2>1, <3>1, <3>2 DEF DraftInv, DraftHoldsWork
      <3>3. CASE ~edited
        <4>1. UNCHANGED storage /\ ~timer
          BY <1>4, <3>1, <3>3 DEF Flush
        <4> QED BY <3>1, <4>1 DEF storage, DeskInv, DraftInv, DraftHoldsWork
      <3> QED BY <3>2, <3>3
    <2> QED BY <2>2, <2>3, <2>4 DEF DeskInv
  <1> QED BY <1>2, <1>3, <1>4 DEF Unload

LEMMA DontSaveInv == DeskInv /\ DontSave => DeskInv'
  <1> SUFFICES ASSUME DeskInv, DontSave PROVE DeskInv'
    OBVIOUS
  <1>1. loaded /\ drafts \in [Ports -> Drafts(newest)] /\ full \in BOOLEAN
    BY DEF DontSave, DeskInv, ShownInv, DeskTypeOK
  <1>2. CASE Reloaded(drafts)
    BY <1>1, <1>2, ReloadedInv
  <1>3. CASE Unloaded /\ UNCHANGED storage
    BY <1>1, <1>3, UnloadedInv DEF storage
  <1> QED BY <1>2, <1>3 DEF DontSave

LEMMA NextInv == DeskInv /\ [DeskNext]_deskVars => DeskInv'
  <1> SUFFICES ASSUME DeskInv, [DeskNext]_deskVars PROVE DeskInv'
    OBVIOUS
  <1> USE DEF windowVars, engineVars, folders, leaving
  <1>1. CASE Launch
    BY <1>1, PageKept DEF Launch, Places, DeskInv, DeskTypeOK, ShownInv, EngineInv, On
  <1>2. CASE LookForOld
    BY <1>2, PageKept DEF LookForOld, Places, DeskInv, DeskTypeOK, ShownInv, EngineInv
  <1>3. CASE CopyStep
    BY <1>3, PageKept
    DEF CopyStep, CopyFiles, Places, DeskInv, DeskTypeOK, ShownInv, EngineInv
  <1>4. CASE ChoosePort
    BY <1>4, PageKept DEF ChoosePort, Places, DeskInv, DeskTypeOK, ShownInv, EngineInv
  <1>5. CASE Spawn
    BY <1>5, PageKept DEF Spawn, Places, DeskInv, DeskTypeOK, ShownInv, EngineInv
  <1>6. CASE EngineUp \/ EngineExit
    BY <1>6, PageKept
    DEF EngineUp, EngineExit, Places, DeskInv, DeskTypeOK, ShownInv, EngineInv
  <1>7. CASE Leave
    BY <1>7, PageKept DEF Leave, Request, Places, DeskInv, DeskTypeOK, ShownInv, EngineInv
  <1>8. CASE Cancel \/ SaveFirst
    BY <1>8, PageKept
    DEF Cancel, SaveFirst, Places, DeskInv, DeskTypeOK, ShownInv, EngineInv
  <1>9. CASE SavedThen
    BY <1>9, PageKept
    DEF SavedThen, Proceed, Request, Places, DeskInv, DeskTypeOK, ShownInv, EngineInv
  <1>10. CASE Deadline \/ CloseEarly
    BY <1>10, PageGone
    DEF Deadline, CloseEarly, Quit, storage, DeskInv, DeskTypeOK
  <1>11. CASE Crash
    BY <1>11, PageGone DEF Crash, storage, DeskInv, DeskTypeOK
  <1>12. CASE Healthy
    <2>1. port \in Ports /\ drafts \in [Ports -> Drafts(newest)]
      BY <1>12 DEF Healthy, DeskInv, DeskTypeOK, ShownInv
    <2> QED BY <1>12, <2>1, PageOpens DEF Healthy
  <1>13. CASE SaveInPage
    BY <1>13, PageSaved, PageKeptBySave DEF SaveInPage
  <1>14. CASE SaveEnds
    <2>1. loaded /\ saving' \subseteq saving
      BY <1>14 DEF SaveEnds, DeskInv, ShownInv
    <2>2. CASE Saved
      BY <1>14, <2>1, <2>2, PageSaved DEF SaveEnds
    <2>3. CASE SavedLate
      BY <1>14, <2>1, <2>3, PageKeptBySave DEF SaveEnds
    <2>4. CASE UNCHANGED <<to, filed, dirty, edited, timer, storage, saved>>
      <3>1. DeskTypeOK'
        BY <1>14, <2>4 DEF SaveEnds, storage, DeskInv, DeskTypeOK
      <3>2. ShownInv' /\ EngineInv'
        BY <1>14, <2>1, <2>4 DEF SaveEnds, storage, DeskInv, ShownInv, EngineInv
      <3>3. DraftInv'
        BY <1>14, <2>4 DEF SaveEnds, storage, DeskInv, DraftInv, DraftHoldsWork, Draft
      <3> QED BY <3>1, <3>2, <3>3 DEF DeskInv
    <2> QED BY <1>14, <2>2, <2>3, <2>4 DEF SaveEnds
  <1>15. CASE UNCHANGED deskVars
    BY <1>15, PageKept
    DEF deskVars, Places, DeskInv, DeskTypeOK, ShownInv, EngineInv
  <1> QED
    BY <1>1, <1>2, <1>3, <1>4, <1>5, <1>6, <1>7, <1>8, <1>9, <1>10, <1>11, <1>12,
       <1>13, <1>14, <1>15, ChangeInv, DraftDueInv, UnloadInv, DontSaveInv
    DEF DeskNext

-----------------------------------------------------------------------------
(* The theorems.                                                            *)

LEMMA DeskInvariant == DeskSpec => []DeskInv
  BY InitInv, NextInv, PTL DEF DeskSpec

\* Unsaved work is in the draft of the page's origin, however often the app was
\* launched, killed and given another port (App.tsx's flush, main.js's question).
THEOREM DraftKept == DeskSpec => []DraftHoldsWork
  <1>1. DeskInv => DraftHoldsWork
    BY DEF DeskInv, DraftInv
  <1> QED BY <1>1, DeskInvariant, PTL

\* A window that shows the page has an engine nobody told to stop.
THEOREM EngineStays == DeskSpec => []EngineKept
  <1>1. DeskInv => EngineKept
    BY DEF DeskInv, EngineInv, EngineKept
  <1> QED BY <1>1, DeskInvariant, PTL

\* Unsaved edits go only with a save, with "Don't save", or with the process.
THEOREM AsksBeforeLoss == DeskSpec => NothingLostUnasked
  <1>1. ASSUME DeskInv, [DeskNext]_deskVars, loaded, dirty,
               ~SaveInPage, ~SaveEnds, ~DontSave, ~Crash
        PROVE  loaded' /\ dirty' /\ work' >= work
    <2>1. start = "shown" /\ work \in 0..newest /\ newest \in Nat
      BY <1>1 DEF DeskInv, DeskTypeOK, ShownInv
    <2>2. CASE Change
      BY <1>1, <2>1, <2>2 DEF Change
    <2>3. CASE UNCHANGED <<loaded, work, dirty>>
      BY <1>1, <2>1, <2>3
    <2>4. CASE Launch \/ LookForOld \/ CopyStep \/ ChoosePort \/ Spawn \/ Healthy
               \/ Deadline \/ CloseEarly
      BY <1>1, <2>1, <2>4
      DEF Launch, On, LookForOld, CopyStep, ChoosePort, Spawn, Healthy, Deadline,
          CloseEarly
    <2>5. CASE EngineUp \/ EngineExit \/ DraftDue \/ Leave \/ Cancel \/ SaveFirst
               \/ SavedThen \/ UNCHANGED deskVars
      BY <2>3, <2>5
      DEF EngineUp, EngineExit, DraftDue, Leave, Cancel, SaveFirst, SavedThen, Proceed,
          deskVars, windowVars, page
    <2>6. CASE Unload
      BY <1>1, <2>3, <2>6 DEF Unload, page
    <2> QED BY <1>1, <2>2, <2>4, <2>5, <2>6 DEF DeskNext
  <1>2. DeskInv /\ [DeskNext]_deskVars =>
          [loaded /\ dirty => \/ loaded' /\ dirty' /\ work' >= work
                             \/ SaveInPage \/ SaveEnds \/ DontSave \/ Crash]_deskVars
    BY <1>1
  <1> QED BY <1>2, DeskInvariant, PTL DEF DeskSpec, NothingLostUnasked

\* The projects folder is never part of a copy, and a copy never replaces one
\* that has a project saved under the new name (old-projects.js).
THEOREM FolderStaysWhole == DeskSpec => OldProjectsWhole
  <1>1. DeskTypeOK /\ [DeskNext]_deskVars => to' # "part" /\ (to = "own" => to' = "own")
    <2> SUFFICES ASSUME DeskTypeOK, [DeskNext]_deskVars
                 PROVE  to' # "part" /\ (to = "own" => to' = "own")
      OBVIOUS
    <2>1. to # "part"
      BY DEF DeskTypeOK
    <2>2. CASE CopyStep
      BY <2>1, <2>2 DEF CopyStep, CopyFiles
    <2>3. CASE Spawn
      BY <2>1, <2>3 DEF Spawn
    <2>4. CASE SaveInPage \/ SaveEnds
      BY <2>1, <2>4 DEF SaveInPage, SaveEnds, Saved, SavedLate, Written
    <2>5. CASE UNCHANGED to
      BY <2>1, <2>5
    <2>6. CASE Launch \/ LookForOld \/ ChoosePort \/ EngineUp \/ EngineExit \/ Healthy
               \/ Crash \/ Change \/ DraftDue \/ Leave \/ Cancel \/ SaveFirst
      BY <2>5, <2>6
      DEF Launch, LookForOld, ChoosePort, EngineUp, EngineExit, Healthy, Crash, Change,
          DraftDue, Leave, Cancel, SaveFirst, folders
    <2>7. CASE Deadline \/ CloseEarly \/ Unload \/ DontSave \/ SavedThen
      BY <2>5, <2>7
      DEF Deadline, CloseEarly, Unload, DontSave, SavedThen, Proceed, Unloaded,
          Reloaded, Quit, folders
    <2>8. CASE UNCHANGED deskVars
      BY <2>5, <2>8 DEF deskVars, folders
    <2> QED BY <2>2, <2>3, <2>4, <2>6, <2>7, <2>8 DEF DeskNext
  <1>2. DeskTypeOK /\ [DeskNext]_deskVars =>
          [to' # "part" /\ (to = "own" => to' = "own")]_deskVars
    BY <1>1
  <1>3. DeskInv => DeskTypeOK
    BY DEF DeskInv
  <1> QED BY <1>2, <1>3, DeskInvariant, PTL DEF DeskSpec, OldProjectsWhole

=============================================================================
