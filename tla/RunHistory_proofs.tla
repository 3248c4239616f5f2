------------------------- MODULE RunHistory_proofs -------------------------
(***************************************************************************)
(* The editor's list of runs, proved for any number of projects, runs,     *)
(* sweep values, replacements and removals, and any length of the list.    *)
(* The invariant follows the one run that may be in progress: it is that   *)
(* of the call, the newest, and neither stored nor asked about, so that no *)
(* load, removal or cut of the list takes it away.                         *)
(***************************************************************************)
EXTENDS RunHistory, FiniteSetTheorems, SequenceTheorems, WellFoundedInduction, TLAPS

\* Only the run of the call is in progress, and it is the newest.
RunningInv ==
    \A r \in DOMAIN about :
        about[r].state = "running" => call.at = "live" /\ call.run = r

CallInv ==
    /\ call.at # "idle" => call.project \in Projects
    /\ call.at \in {"live", "storing", "stored"} => call.run \in DOMAIN about
    /\ call.at = "live" => call.run = Len(about)

\* It is not stored, and no dialog asks about it.
EndedInv ==
    /\ \A r \in everStored : about[r].state # "running"
    /\ question \in DOMAIN about => about[question].state # "running"

\* A load lists runs of its project.
LoadInv ==
    load # None => \A r \in load.index : about[r].project = load.project

IInv == TypeOK /\ RunningInv /\ CallInv /\ EndedInv /\ LoadInv

-----------------------------------------------------------------------------
(* Sets of runs.                                                            *)

\* A set of numbers has a least one.
LEMMA LeastNat ==
    ASSUME NEW T \in SUBSET Nat, T # {}
    PROVE  \E m \in T : \A x \in T : m <= x
  <1> DEFINE Below(x) == 0..x
             F == {Below(x) : x \in T}
  <1>1. F \subseteq FiniteSubsetsOf(Nat)
    <2>1. ASSUME NEW x \in T PROVE Below(x) \subseteq Nat /\ IsFiniteSet(Below(x))
      BY FS_Interval
    <2> QED BY <2>1 DEF FiniteSubsetsOf
  <1>2. PICK U \in F : \A V \in F : ~(<<V, U>> \in StrictSubsetOrdering(Nat))
    <2>1. F # {}
      OBVIOUS
    <2> HIDE DEF F
    <2> QED BY <1>1, <2>1, WFMin, FS_StrictSubsetOrderingWellFounded
  <1>3. PICK m \in T : U = Below(m)
    OBVIOUS
  <1>4. ASSUME NEW x \in T, x < m PROVE FALSE
    <2>1. Below(x) \in SUBSET Nat /\ Below(m) \in SUBSET Nat /\ Below(x) \subseteq Below(m)
      BY <1>4
    <2>2. m \in Below(m) /\ m \notin Below(x)
      BY <1>4
    <2>3. <<Below(x), Below(m)>> \in StrictSubsetOrdering(Nat)
      BY <2>1, <2>2 DEF StrictSubsetOrdering
    <2> QED BY <1>2, <1>3, <2>3
  <1> QED BY <1>4

\* Runs are numbers up to n: a set of them has a newest one.
LEMMA NewestIs ==
    ASSUME NEW n \in Nat, NEW S \in SUBSET (1..n), S # {}
    PROVE  Max(S) \in S /\ \A x \in S : x <= Max(S)
  <1> DEFINE T == {n - x : x \in S}
  <1>1. T \in SUBSET Nat /\ T # {}
    <2>1. \A x \in S : n - x \in Nat
      OBVIOUS
    <2> QED BY <2>1
  <1>2. PICK m \in T : \A x \in T : m <= x
    <2> HIDE DEF T
    <2> QED BY <1>1, LeastNat
  <1>3. PICK y \in S : m = n - y
    OBVIOUS
  <1>4. \A x \in S : y >= x
    BY <1>2, <1>3
  <1> QED BY <1>4 DEF Max

LEMMA OldestIs ==
    ASSUME NEW n \in Nat, NEW S \in SUBSET (1..n), S # {}
    PROVE  \E y \in S : \A x \in S : y <= x
  <1>1. S \in SUBSET Nat
    OBVIOUS
  <1> QED BY <1>1, LeastNat

\* The newest of a set are no more than MAX_RUNS, a run is cut only for MAX_RUNS
\* newer ones that stay, and the newest of all always stays.
Newer(S, r) == {q \in S : q > r}

LEMMA NewestBounds ==
    ASSUME NEW n \in Nat, NEW S \in SUBSET (1..n)
    PROVE  /\ Newest(S) \subseteq S
           /\ IsFiniteSet(Newest(S)) /\ Cardinality(Newest(S)) <= MAX_RUNS
           /\ \A r \in S \ Newest(S) : Cardinality(Newer(Newest(S), r)) >= MAX_RUNS
           /\ \A r \in S : (\A q \in S : q <= r) => r \in Newest(S)
  <1> USE SizesAssumption
  <1> DEFINE N == Newest(S)
  <1>1. /\ N \subseteq S /\ \A r \in S : r \in N <=> Cardinality(Newer(S, r)) < MAX_RUNS
    BY DEF Newest, Newer
  <1>2. ASSUME NEW T \in SUBSET S
        PROVE  IsFiniteSet(T) /\ Cardinality(T) \in Nat
    <2>1. IsFiniteSet(1..n)
      BY FS_Interval
    <2>2. IsFiniteSet(S) /\ IsFiniteSet(T)
      BY <2>1, FS_Subset
    <2> QED BY <2>2, FS_CardinalityType
  <1>3. ASSUME NEW U \in SUBSET S, NEW T \in SUBSET U
        PROVE  Cardinality(T) <= Cardinality(U)
    <2>1. IsFiniteSet(U)
      BY <1>2
    <2> QED BY <2>1, FS_Subset
  <1>0. \A x \in S : x \in Int
    OBVIOUS
  <1> HIDE DEF N
  <1>4. Cardinality(N) <= MAX_RUNS
    <2>1. CASE N = {}
      BY <2>1, FS_EmptySet
    <2>2. CASE N # {}
      <3>1. PICK y \in N : \A x \in N : y <= x
        BY <1>1, <2>2, OldestIs
      <3>2. N \ {y} \subseteq Newer(S, y)
        BY <1>1, <3>1 DEF Newer
      <3>3. Cardinality(N \ {y}) = Cardinality(N) - 1
        BY <1>1, <1>2, FS_RemoveElement
      <3>4. Cardinality(N \ {y}) <= Cardinality(Newer(S, y))
        <4>1. Newer(S, y) \in SUBSET S /\ N \ {y} \in SUBSET S
          BY <1>1 DEF Newer
        <4> QED BY <1>3, <3>2, <4>1
      <3>5. Cardinality(Newer(S, y)) < MAX_RUNS /\ Newer(S, y) \in SUBSET S
        BY <1>1 DEF Newer
      <3>6. Cardinality(Newer(S, y)) \in Nat /\ Cardinality(N) \in Nat
        BY <1>1, <1>2, <3>5
      <3> QED BY <3>3, <3>4, <3>5, <3>6
    <2> QED BY <2>1, <2>2
  <1>5. ASSUME NEW r \in S \ N
        PROVE  Cardinality(Newer(N, r)) >= MAX_RUNS
    <2> DEFINE M == {q \in S \ N : q >= r}
    <2>1. Max(M) \in M /\ \A x \in M : x <= Max(M)
      <3>1. r \in M
        <4>1. r \in Int
          BY <1>0
        <4> QED BY <4>1
      <3>2. M \in SUBSET (1..n)
        OBVIOUS
      <3> HIDE DEF M
      <3> QED BY <3>1, <3>2, NewestIs
    <2>2. PICK m \in S \ N : m >= r /\ \A q \in S \ N : q >= r => q <= m
      BY <2>1
    <2>3. Newer(S, m) \subseteq Newer(N, r)
      <3>1. ASSUME NEW q \in S, q > m PROVE q \in N /\ q > r
        BY <1>0, <2>2, <3>1
      <3> QED BY <3>1 DEF Newer
    <2>4. Newer(S, m) \in SUBSET S /\ Newer(N, r) \in SUBSET S
      BY <1>1 DEF Newer
    <2>5. ~(Cardinality(Newer(S, m)) < MAX_RUNS)
      BY <1>1, <2>2
    <2>6. Cardinality(Newer(S, m)) <= Cardinality(Newer(N, r))
      BY <1>3, <2>3, <2>4
    <2>7. Cardinality(Newer(S, m)) \in Nat /\ Cardinality(Newer(N, r)) \in Nat
      BY <1>2, <2>4
    <2> QED BY <2>5, <2>6, <2>7
  <1>6. ASSUME NEW r \in S, \A q \in S : q <= r
        PROVE  r \in N
    <2>1. Newer(S, r) = {}
      <3>1. ASSUME NEW q \in S, q > r PROVE FALSE
        <4>1. q <= r /\ q \in Int /\ r \in Int
          BY <1>0, <1>6
        <4> QED BY <3>1, <4>1
      <3> QED BY <3>1 DEF Newer
    <2>2. Cardinality(Newer(S, r)) = 0
      BY <2>1, FS_EmptySet
    <2> QED BY <1>1, <2>2
  <1> QED BY <1>1, <1>2, <1>4, <1>5, <1>6 DEF N

-----------------------------------------------------------------------------
(* What the operators of RunHistory do to the runs that were started.       *)

LEMMA Started ==
    ASSUME TypeOK
    PROVE  /\ Len(about) \in Nat /\ DOMAIN about = 1..Len(about)
           /\ \A r \in DOMAIN about : about[r] \in Info
           /\ None \notin DOMAIN about /\ All \notin DOMAIN about
  BY NoneAssumption DEF TypeOK, All

\* Any number of runs can be counted.
LEMMA Counted ==
    ASSUME TypeOK, NEW S \in SUBSET DOMAIN about
    PROVE  Cardinality(S) \in Nat
  <1>1. IsFiniteSet(DOMAIN about)
    BY Started, FS_Interval
  <1> QED BY <1>1, FS_Subset, FS_CardinalityType

\* A point that starts is one more run, the newest.
LEMMA Appended ==
    ASSUME TypeOK, StartPoint
    PROVE  /\ DOMAIN about' = 1..(Len(about) + 1) /\ Len(about') = Len(about) + 1
           /\ \A r \in DOMAIN about : about'[r] = about[r]
           /\ about'[Len(about) + 1].project = call.project
           /\ about'[Len(about) + 1].state = "running"
  <1> about \in Seq(Info)
    BY DEF TypeOK
  <1> DEFINE i == Run(call.project, calls, IF call.sweep THEN call.point + 1 ELSE 0)
  <1>1. about' = Append(about, i)
    BY DEF StartPoint
  <1>2. i.project = call.project /\ i.state = "running"
    BY DEF Run
  <1> HIDE DEF i
  <1> QED BY <1>1, <1>2

LEMMA Picked ==
    ASSUME TypeOK, NEW S \in SUBSET DOMAIN about
    PROVE  NewestOf(S) \in S \cup {None} /\ mainRunOf(S) \in S \cup {None}
  <1>1. ASSUME NEW T \in SUBSET DOMAIN about PROVE NewestOf(T) \in T \cup {None}
    <2>1. T # {} => Max(T) \in T
      BY Started, NewestIs
    <2> QED BY <2>1 DEF NewestOf
  <1>2. NewestOf(S) \in S \cup {None}
    BY <1>1
  <1>3. mainRunOf(S) \in S \cup {None}
    <2> DEFINE main == {r \in Complete(S) : about[r].point = 0}
    <2>1. main \in SUBSET S
      BY DEF Complete
    <2>2. NewestOf(main) \in S \cup {None}
      BY <1>1, <2>1
    <2> QED BY <1>2, <2>2 DEF mainRunOf
  <1> QED BY <1>2, <1>3

\* What a step leaves of the runs that were started: all, in their projects, and
\* none that had ended starts again.
LEMMA Grows ==
    ASSUME TypeOK, CallInv, [Next]_vars
    PROVE  /\ about' \in Seq(Info) /\ DOMAIN about \subseteq DOMAIN about'
           /\ \A r \in DOMAIN about : /\ about'[r].project = about[r].project
                                      /\ about[r].state # "running" => about'[r].state # "running"
           /\ everStored \subseteq everStored'
  <1> about \in Seq(Info)
    BY DEF TypeOK
  <1>1. CASE StartPoint
    <2> DEFINE i == Run(call.project, calls, IF call.sweep THEN call.point + 1 ELSE 0)
    <2>1. i \in Info
      <3>1. call.project \in Projects /\ calls \in 0..MaxCalls
        BY <1>1 DEF StartPoint, CallInv, TypeOK
      <3>2. call.sweep => call.point + 1 \in 0..VALUES
        BY <1>1, SizesAssumption DEF StartPoint, MorePoints, TypeOK, CallOK
      <3>3. 0 \in 0..VALUES
        BY SizesAssumption
      <3> QED BY <3>1, <3>2, <3>3 DEF Run, Info
    <2>2. about' = Append(about, i) /\ UNCHANGED everStored
      BY <1>1 DEF StartPoint
    <2> HIDE DEF i
    <2> QED BY <2>1, <2>2
  <1>2. CASE PointEnds \/ PointLost
    <2>1. PICK state \in {"complete", "incomplete"} : about' = [about EXCEPT ![call.run].state = state]
      BY <1>2 DEF PointEnds, PointLost
    <2>2. call.run \in DOMAIN about /\ UNCHANGED everStored
      BY <1>2 DEF PointEnds, PointLost, CallInv
    <2> DEFINE i == [about[call.run] EXCEPT !.state = state]
    <2>3. i \in Info /\ i.project = about[call.run].project /\ i.state # "running"
      BY <2>2, Started DEF Info
    <2>4. about' = [about EXCEPT ![call.run] = i]
      BY <2>1
    <2> HIDE DEF i
    <2> QED BY <2>2, <2>3, <2>4, ExceptSeq, Started
  <1>3. CASE StoreRun
    BY <1>3 DEF StoreRun
  <1>4. ASSUME \/ Loads \/ OpenProject \/ NewProject \/ Removes \/ PressRun \/ RunSweep
               \/ StopRun \/ Gate \/ StoreAnswered \/ StoreFails \/ CallEnds
               \/ setActiveRun \/ toggleOverlayRun \/ setOverlayRuns \/ UNCHANGED vars
        PROVE  UNCHANGED <<about, everStored>>
    BY <1>4 DEF Loads, Removes, ListRuns, ListFailed, ListArrives, ReadRun, MergeLead, MergeAll,
            merge, Stale, OpenProject, NewProject, Replace, Ask, KeepRuns, removeRun, clearRuns, Delete,
            DeleteStored, DeleteAnswered, PressRun, RunSweep, Press, StopRun, Gate, StoreAnswered,
            StoreFails, CallEnds, setActiveRun, toggleOverlayRun, setOverlayRuns, Pick, vars
  <1> QED BY <1>1, <1>2, <1>3, <1>4 DEF Next, Proceeds

-----------------------------------------------------------------------------
(* Types.                                                                   *)

\* A list that is cut keeps its bound, and some of it keeps it too.
LEMMA CutList ==
    ASSUME TypeOK, NEW S \in SUBSET DOMAIN about
    PROVE  /\ Newest(S) \subseteq S /\ Cardinality(Newest(S)) <= MAX_RUNS
           /\ \A r \in S \ Newest(S) : Cardinality(Newer(Newest(S), r)) >= MAX_RUNS
           /\ \A r \in S : (\A q \in S : q <= r) => r \in Newest(S)
  BY Started, NewestBounds

LEMMA LessList ==
    ASSUME TypeOK, NEW S \in SUBSET runs
    PROVE  S \subseteq DOMAIN about /\ Cardinality(S) <= MAX_RUNS
  <1>1. IsFiniteSet(DOMAIN about) /\ runs \in SUBSET DOMAIN about
    BY Started, FS_Interval DEF TypeOK, ListOK
  <1>2. IsFiniteSet(runs)
    BY <1>1, FS_Subset
  <1>3. Cardinality(S) <= Cardinality(runs)
    BY <1>2, FS_Subset
  <1>4. Cardinality(S) \in Nat /\ Cardinality(runs) \in Nat
    BY <1>1, Counted
  <1> QED BY <1>1, <1>3, <1>4, SizesAssumption DEF TypeOK, ListOK

LEMMA DropKeeps ==
    ASSUME TypeOK, NEW gone, dropRuns(gone)
    PROVE  /\ runs' \subseteq DOMAIN about /\ Cardinality(runs') <= MAX_RUNS
           /\ activeRunId' \in DOMAIN about \cup {None} /\ overlayRunIds' \subseteq DOMAIN about
  <1>1. runs' \subseteq DOMAIN about /\ Cardinality(runs') <= MAX_RUNS
    BY LessList DEF dropRuns
  <1>2. NewestOf(runs \ gone) \in DOMAIN about \cup {None}
    BY <1>1, Picked DEF dropRuns
  <1> QED BY <1>1, <1>2 DEF dropRuns, TypeOK, ListOK

LEMMA LoadLists ==
    ASSUME TypeOK, load # None
    PROVE  /\ load.index \subseteq everStored /\ load.index \subseteq DOMAIN about
           /\ load.toRead \subseteq everStored /\ load.loaded \subseteq everStored
           /\ load.project \in Projects
           /\ Shown \subseteq load.index
           /\ Merged \subseteq DOMAIN about /\ Cardinality(Merged) <= MAX_RUNS
  <1>1. /\ load.index \subseteq everStored /\ load.index \subseteq DOMAIN about
        /\ load.toRead \subseteq everStored /\ load.loaded \subseteq everStored
        /\ load.project \in Projects
    BY DEF TypeOK, LoadOK
  <1>2. Shown \subseteq load.index
    BY <1>1, CutList DEF Shown
  <1>3. (runs \ load.index) \cup (Shown \cap (runs \cup load.loaded)) \in SUBSET DOMAIN about
    BY <1>1, <1>2 DEF TypeOK, ListOK
  <1> QED BY <1>1, <1>2, <1>3, CutList DEF Merged

LEMMA MergeKeeps ==
    ASSUME TypeOK, NEW done \in BOOLEAN, merge(done), load # None
    PROVE  /\ runs' \subseteq DOMAIN about /\ Cardinality(runs') <= MAX_RUNS
           /\ activeRunId' \in DOMAIN about \cup {None} /\ overlayRunIds' \subseteq DOMAIN about
           /\ storedRunCount' \in Nat /\ runsLoading' \in BOOLEAN
           /\ UNCHANGED about
  <1>1. runs' \subseteq DOMAIN about /\ Cardinality(runs') <= MAX_RUNS
    BY LoadLists DEF merge
  <1>2. mainRunOf(Merged) \in DOMAIN about \cup {None}
    BY LoadLists, Picked
  <1> QED BY <1>1, <1>2 DEF merge, TypeOK, ListOK

\* The lowest value of a set of runs: the chart of a sweep.
LEMMA LowestOf ==
    ASSUME TypeOK, NEW S \in SUBSET DOMAIN about, S # {}
    PROVE  \E r \in S : \A q \in S : about[r].point <= about[q].point
  <1> DEFINE points == {about[r].point : r \in S}
  <1>1. points \in SUBSET Nat /\ points # {}
    BY Started, SizesAssumption DEF Info
  <1>2. PICK m \in points : \A x \in points : m <= x
    <2> HIDE DEF points
    <2> QED BY <1>1, LeastNat
  <1> QED BY <1>2

LEMMA FamilyShown ==
    ASSUME TypeOK, CallEnds
    PROVE  activeRunId' \in DOMAIN about \cup {None} /\ overlayRunIds' \subseteq DOMAIN about
  <1> DEFINE family == {r \in runs : about[r].call = calls}
             chart == IF Complete(family) # {} THEN Complete(family)
                      ELSE {r \in family : \A q \in family : about[r].point <= about[q].point}
             first == CHOOSE r \in chart : \A q \in chart : about[r].point <= about[q].point
  <1>1. family \in SUBSET DOMAIN about /\ chart \subseteq family
    BY DEF TypeOK, ListOK, Complete
  <1>2. ASSUME family # {} PROVE first \in chart
    <2>1. chart # {}
      <3>1. \E r \in family : \A q \in family : about[r].point <= about[q].point
        <4> HIDE DEF family
        <4> QED BY <1>1, <1>2, LowestOf
      <3> QED BY <3>1
    <2> HIDE DEF chart
    <2>2. \E r \in chart : \A q \in chart : about[r].point <= about[q].point
      BY <1>1, <2>1, LowestOf
    <2> QED BY <2>2
  <1>3. \/ family # {} /\ activeRunId' = first /\ overlayRunIds' = chart \ {first}
        \/ UNCHANGED <<activeRunId, overlayRunIds>>
    BY DEF CallEnds
  <1> HIDE DEF family, chart, first
  <1> QED BY <1>1, <1>2, <1>3 DEF TypeOK, ListOK

LEMMA ListStep ==
    ASSUME TypeOK, CallInv, [Next]_vars
    PROVE  ListOK'
  <1> DOMAIN about \subseteq DOMAIN about'
    BY Grows
  <1>1. CASE UNCHANGED list
    BY <1>1 DEF list, shown, TypeOK, ListOK
  <1>2. CASE ListFailed \/ ListArrives
    <2>1. storedRunCount' \in Nat
      <3>1. ListArrives => Cardinality(load.index) \in Nat
        BY LoadLists, Counted DEF ListArrives, Current
      <3> QED BY <1>2, <3>1 DEF ListFailed, ListArrives, TypeOK, ListOK
    <2> QED BY <1>2, <2>1 DEF ListFailed, ListArrives, TypeOK, ListOK, shown
  <1>3. CASE MergeLead \/ MergeAll
    BY <1>3, MergeKeeps DEF MergeLead, MergeAll, ListOK
  <1>4. CASE OpenProject \/ NewProject \/ clearRuns
    <2>1. NothingShown
      BY <1>4 DEF OpenProject, NewProject, Replace, clearRuns
    <2>2. runs' = {} /\ Cardinality(runs') = 0
      BY <2>1, FS_EmptySet DEF NothingShown
    <2>3. Cardinality(runs') <= MAX_RUNS
      BY <2>2, SizesAssumption
    <2> QED BY <2>1, <2>2, <2>3 DEF NothingShown, ListOK
  <1>5. CASE removeRun
    BY <1>5, DropKeeps DEF removeRun, ListOK, TypeOK
  <1>6. CASE DeleteAnswered
    <2>1. storedRunCount' \in Nat
      BY <1>6 DEF DeleteAnswered, TypeOK, ListOK, RemovalsOK
    <2> QED BY <1>6, <2>1 DEF DeleteAnswered, TypeOK, ListOK, shown
  <1>7. CASE PressRun
    BY <1>7 DEF PressRun, Press, TypeOK, ListOK
  <1>8. CASE StartPoint
    <2> DEFINE n == Len(about) + 1
    <2>1. /\ runs' = Newest(runs \cup {n}) /\ activeRunId' = n
          /\ UNCHANGED <<overlayRunIds, storedRunCount, runsLoading>>
      BY <1>8 DEF StartPoint, Listed
    <2>2. n \in Nat /\ DOMAIN about' = 1..n
      BY <1>8, Started, Appended
    <2>3. runs \cup {n} \in SUBSET (1..n)
      BY <2>2, Started DEF TypeOK, ListOK
    <2> HIDE DEF n
    <2>4. runs' \subseteq 1..n /\ Cardinality(runs') <= MAX_RUNS
      BY <2>1, <2>2, <2>3, NewestBounds
    <2>5. n \in 1..n
      BY <2>3
    <2> QED BY <2>1, <2>2, <2>4, <2>5 DEF TypeOK, ListOK
  <1>9. CASE PointEnds
    BY <1>9 DEF PointEnds, CallInv, TypeOK, ListOK
  <1>10. CASE StoreAnswered
    <2>1. CASE dropRuns(call.pruned) /\ storedRunCount' = call.stored
      BY <1>10, <2>1, DropKeeps DEF StoreAnswered, TypeOK, ListOK, CallOK
    <2>2. CASE UNCHANGED <<shown, storedRunCount>>
      BY <1>10, <2>2 DEF StoreAnswered, shown, TypeOK, ListOK
    <2> QED BY <1>10, <2>1, <2>2 DEF StoreAnswered
  <1>11. CASE CallEnds
    BY <1>11, FamilyShown DEF CallEnds, TypeOK, ListOK
  <1>12. CASE setActiveRun
    BY <1>12 DEF setActiveRun, Pick, TypeOK, ListOK
  <1>13. CASE toggleOverlayRun
    BY <1>13 DEF toggleOverlayRun, Pick, SymDiff, TypeOK, ListOK
  <1>14. CASE setOverlayRuns
    BY <1>14 DEF setOverlayRuns, Pick, Complete, TypeOK, ListOK
  <1>15. ASSUME \/ ListRuns \/ ReadRun \/ Stale \/ Ask \/ KeepRuns \/ DeleteStored \/ RunSweep \/ StopRun
                \/ Gate \/ PointLost \/ StoreRun \/ StoreFails \/ UNCHANGED vars
         PROVE  UNCHANGED list
    BY <1>15 DEF ListRuns, ReadRun, Stale, Ask, KeepRuns, DeleteStored, RunSweep, Press, StopRun, Gate,
             PointLost, StoreRun, StoreFails, vars, list, shown
  <1> QED BY <1>1, <1>2, <1>3, <1>4, <1>5, <1>6, <1>7, <1>8, <1>9, <1>10, <1>11, <1>12, <1>13,
             <1>14, <1>15 DEF Next, Loads, Removes, Proceeds

LEMMA LoadStep ==
    ASSUME TypeOK, CallInv, [Next]_vars
    PROVE  LoadOK'
  <1> DEFINE Loading == [project: Projects, at: {"asked", "listed", "failed", "reading"},
                         index: SUBSET everStored, toRead: SUBSET everStored,
                         lead: everStored \cup {None}, loaded: SUBSET everStored]
  <1>0. load \in Loading \cup {None} /\ everStored \subseteq everStored' /\ None \notin everStored
    <2>1. None \notin everStored
      BY Started DEF TypeOK
    <2> QED BY <2>1, Grows DEF TypeOK, LoadOK
  <1>1. ASSUME load' \in Loading \cup {None}
        PROVE  LoadOK'
    BY <1>0, <1>1 DEF LoadOK
  <1>2. load # None => load \in Loading
    BY <1>0
  <1>3. CASE ListRuns
    <2>1. Of(load.project, disk) \in SUBSET everStored
      BY DEF Of, TypeOK
    <2>2. load \in Loading
      BY <1>2, <1>3 DEF ListRuns, Current
    <2> QED BY <1>1, <1>3, <2>1, <2>2 DEF ListRuns
  <1>4. CASE ListArrives
    <2>1. load \in Loading /\ load # None
      BY <1>2, <1>4 DEF ListArrives, Current
    <2> DEFINE toRead == Shown \ runs
               lead == IF mainRunOf(Shown) \in toRead THEN mainRunOf(Shown) ELSE None
    <2>2. toRead \in SUBSET everStored
      BY <2>1, LoadLists
    <2>3. lead \in everStored \cup {None}
      BY <2>2
    <2>4. load' = [load EXCEPT !.at = "reading", !.toRead = toRead, !.lead = lead]
      BY <1>4 DEF ListArrives
    <2> HIDE DEF toRead, lead
    <2> QED BY <1>1, <2>1, <2>2, <2>3, <2>4
  <1>5. CASE ReadRun
    <2>1. load \in Loading
      BY <1>2, <1>5 DEF ReadRun, Current
    <2>2. PICK r : \E loaded \in {load.loaded, load.loaded \cup ({r} \cap disk)} :
              load' = [load EXCEPT !.toRead = @ \ {r}, !.loaded = loaded]
      BY <1>5 DEF ReadRun
    <2>4. load.loaded \in SUBSET everStored /\ disk \subseteq everStored
      <3>1. disk \subseteq everStored
        BY DEF TypeOK
      <3> QED BY <2>1, <3>1
    <2>5. load.loaded \cup ({r} \cap disk) \in SUBSET everStored
      BY <2>4
    <2>6. PICK loaded \in SUBSET everStored :
              load' = [load EXCEPT !.toRead = @ \ {r}, !.loaded = loaded]
      BY <2>2, <2>4, <2>5
    <2>3. load.toRead \ {r} \in SUBSET everStored
      BY <2>1
    <2> QED BY <1>1, <2>1, <2>3, <2>6
  <1>6. CASE MergeLead
    <2>1. load \in Loading /\ load' = [load EXCEPT !.lead = None]
      BY <1>2, <1>6 DEF MergeLead
    <2> QED BY <1>1, <2>1
  <1>7. ASSUME NEW p \in Projects, load' = Load(p)
        PROVE  LoadOK'
    <2>1. Load(p) \in Loading
      BY DEF Load
    <2> QED BY <1>1, <1>7, <2>1
  <1>8. CASE DeleteAnswered
    <2>1. PICK d \in deletes : load' \in {Load(d.project), load}
      BY <1>8 DEF DeleteAnswered, loadRunHistory
    <2>2. d.project \in Projects
      BY <2>1 DEF TypeOK, RemovalsOK
    <2>3. CASE load' = Load(d.project)
      BY <1>7, <2>2, <2>3
    <2>4. CASE load' = load
      BY <1>0, <1>1, <2>4
    <2> QED BY <2>1, <2>3, <2>4
  <1>9. CASE OpenProject
    BY <1>7, <1>9 DEF OpenProject, loadRunHistory
  <1>10. ASSUME \/ ListFailed \/ MergeAll \/ Stale \/ NewProject \/ Ask \/ KeepRuns \/ removeRun \/ clearRuns
                \/ DeleteStored \/ PressRun \/ RunSweep \/ StopRun \/ Proceeds
                \/ setActiveRun \/ toggleOverlayRun \/ setOverlayRuns \/ UNCHANGED vars
         PROVE  load' \in {load, None}
    BY <1>10 DEF ListFailed, MergeAll, Stale, NewProject, Ask, KeepRuns, removeRun, clearRuns, Delete,
             GiveUpLoad, DeleteStored, PressRun, RunSweep, Press, StopRun, Proceeds, Gate, StartPoint,
             PointEnds, PointLost, StoreRun, StoreAnswered, StoreFails, CallEnds, setActiveRun,
             toggleOverlayRun, setOverlayRuns, Pick, vars
  <1> QED BY <1>0, <1>1, <1>3, <1>4, <1>5, <1>6, <1>8, <1>9, <1>10 DEF Next, Loads, Removes

LEMMA RemovalsStep ==
    ASSUME TypeOK, CallInv, [Next]_vars
    PROVE  RemovalsOK'
  <1> DEFINE Deletes == [project: Projects, run: DOMAIN about \cup {All},
                         at: {"sent", "deleted", "failed"}, stored: Nat]
  <1>0. /\ deletes \subseteq Deletes /\ question \in DOMAIN about \cup {All, None}
        /\ DOMAIN about \subseteq DOMAIN about'
    BY Grows DEF TypeOK, RemovalsOK
  <1>1. ASSUME deletes' \subseteq Deletes, question' \in DOMAIN about \cup {All, None}
        PROVE  RemovalsOK'
    BY <1>0, <1>1 DEF RemovalsOK
  <1>2. CASE Ask
    BY <1>0, <1>1, <1>2 DEF Ask, TypeOK, ListOK
  <1>3. CASE removeRun \/ clearRuns
    <2>1. PICK gone \in DOMAIN about \cup {All} : Delete(gone)
      BY <1>0, <1>3, NoneAssumption DEF removeRun, clearRuns
    <2>2. [project |-> project, run |-> gone, at |-> "sent", stored |-> 0] \in Deletes
      BY DEF TypeOK
    <2> QED BY <1>0, <1>1, <2>1, <2>2 DEF Delete
  <1>4. CASE DeleteStored
    <2>1. PICK d \in deletes, at \in {"deleted", "failed"}, left \in SUBSET disk :
              \E stored \in {Cardinality(Of(d.project, left)), 0} :
                deletes' = (deletes \ {d}) \cup {[d EXCEPT !.at = at, !.stored = stored]}
      BY <1>4 DEF DeleteStored
    <2>2. Cardinality(Of(d.project, left)) \in Nat
      <3>1. Of(d.project, left) \in SUBSET DOMAIN about
        BY DEF Of, TypeOK
      <3> QED BY <3>1, Counted
    <2>3. ASSUME NEW stored \in Nat
          PROVE  [d EXCEPT !.at = at, !.stored = stored] \in Deletes
      BY <1>0
    <2>4. UNCHANGED question
      BY <1>4 DEF DeleteStored
    <2>6. PICK stored \in Nat : deletes' = (deletes \ {d}) \cup {[d EXCEPT !.at = at, !.stored = stored]}
      BY <2>1, <2>2
    <2>7. [d EXCEPT !.at = at, !.stored = stored] \in Deletes
      BY <2>3
    <2> HIDE DEF Deletes
    <2>5. deletes' \subseteq Deletes
      BY <1>0, <2>6, <2>7
    <2> QED BY <1>0, <1>1, <2>4, <2>5
  <1>5. CASE DeleteAnswered
    BY <1>0, <1>1, <1>5 DEF DeleteAnswered
  <1>7. CASE KeepRuns
    BY <1>0, <1>1, <1>7 DEF KeepRuns
  <1>6. ASSUME \/ Loads \/ OpenProject \/ NewProject \/ PressRun \/ RunSweep
               \/ StopRun \/ Proceeds
               \/ setActiveRun \/ toggleOverlayRun \/ setOverlayRuns \/ UNCHANGED vars
        PROVE  UNCHANGED <<deletes, question>>
    BY <1>6 DEF Loads, ListRuns, ListFailed, ListArrives, ReadRun, MergeLead, MergeAll, merge,
            Stale, OpenProject, NewProject, Replace, PressRun, RunSweep, Press, StopRun, Proceeds,
            Gate, StartPoint, PointEnds, PointLost, StoreRun, StoreAnswered, StoreFails, CallEnds,
            setActiveRun, toggleOverlayRun, setOverlayRuns, Pick, vars
  <1> QED BY <1>0, <1>1, <1>2, <1>3, <1>4, <1>5, <1>6, <1>7 DEF Next, Removes

\* The row of a point: its run, or None when it is not listed any more.
LEMMA RowOf ==
    ASSUME TypeOK, NEW listed \in SUBSET DOMAIN about
    PROVE  PointRun(listed) \in DOMAIN about \cup {None}
  <1> DEFINE S == {r \in listed : about[r].call = calls} \ Range(call.rows)
  <1>1. S \in SUBSET DOMAIN about
    OBVIOUS
  <1> HIDE DEF S
  <1>2. NewestOf(S) \in DOMAIN about \cup {None}
    BY <1>1, Picked
  <1> QED BY <1>2 DEF PointRun, S

LEMMA CallStep ==
    ASSUME TypeOK, CallInv, [Next]_vars
    PROVE  CallOK'
  <1> DEFINE CallsOf(R, S) ==
                 [at: {"idle", "gate", "next", "live", "storing", "stored"},
                  project: Projects \cup {None}, sweep: BOOLEAN, point: 0..VALUES,
                  run: R \cup {0}, rows: Seq(R \cup {None}), pruned: SUBSET S, stored: Nat]
  <1>0. call \in CallsOf(DOMAIN about, everStored) /\ sweepAborted \in BOOLEAN
    BY DEF TypeOK, CallOK
  <1>1. CallsOf(DOMAIN about, everStored) \subseteq CallsOf(DOMAIN about', everStored')
    <2>1. ASSUME NEW c \in CallsOf(DOMAIN about, everStored)
          PROVE  c \in CallsOf(DOMAIN about', everStored')
      <3>1. c.rows \in Seq(DOMAIN about' \cup {None})
        <4>1. DOMAIN about \cup {None} \subseteq DOMAIN about' \cup {None}
          BY Grows
        <4>2. Seq(DOMAIN about \cup {None}) \subseteq Seq(DOMAIN about' \cup {None})
          BY <4>1
        <4> QED BY <4>2
      <3>2. c.pruned \subseteq everStored' /\ c.run \in DOMAIN about' \cup {0}
        BY Grows
      <3> QED BY <3>1, <3>2
    <2> HIDE DEF CallsOf
    <2> QED BY <2>1
  <1>2. ASSUME call' \in CallsOf(DOMAIN about, everStored), sweepAborted' \in BOOLEAN
        PROVE  CallOK'
    <2>1. call' \in CallsOf(DOMAIN about', everStored')
      BY <1>1, <1>2
    <2> QED BY <1>2, <2>1 DEF CallOK
  <1>3. Idle \in CallsOf(DOMAIN about, everStored)
    BY SizesAssumption DEF Idle
  <1>4. CASE PressRun \/ RunSweep
    <2>1. PICK sweep \in BOOLEAN : Press(sweep)
      BY <1>4 DEF PressRun, RunSweep
    <2>2. call' = [Idle EXCEPT !.at = "gate", !.project = project, !.sweep = sweep]
      BY <2>1 DEF Press
    <2>3. call' \in CallsOf(DOMAIN about, everStored)
      BY <1>3, <2>2 DEF TypeOK
    <2> QED BY <1>0, <1>2, <2>1, <2>3 DEF Press
  <1>5. CASE Gate
    <2>1. call' = Idle \/ call' = [call EXCEPT !.at = "next"]
      BY <1>5 DEF Gate
    <2>2. call' \in CallsOf(DOMAIN about, everStored)
      BY <1>0, <1>3, <2>1
    <2> QED BY <1>0, <1>2, <1>5, <2>2 DEF Gate
  <1>6. CASE StopRun
    BY <1>0, <1>2, <1>6 DEF StopRun
  <1>7. CASE StartPoint
    <2> DEFINE n == Len(about) + 1
    <2>1. call' = [call EXCEPT !.at = "live", !.point = call.point + 1, !.run = n]
      BY <1>7 DEF StartPoint
    <2>2. n \in DOMAIN about'
      BY <1>7, Started, Appended
    <2>3. call.point + 1 \in 0..VALUES
      <3>1. call.point \in 0..VALUES /\ (call.point < VALUES \/ call.point = 0)
        BY <1>0, <1>7 DEF StartPoint, MorePoints
      <3> QED BY <3>1, SizesAssumption
    <2> HIDE DEF n
    <2>4. call \in CallsOf(DOMAIN about', everStored')
      BY <1>0, <1>1
    <2>5. call' \in CallsOf(DOMAIN about', everStored')
      BY <2>1, <2>2, <2>3, <2>4
    <2> QED BY <1>0, <1>7, <2>5 DEF StartPoint, CallOK
  <1>8. CASE PointEnds
    <2>1. call' = [call EXCEPT !.at = "storing"] /\ UNCHANGED sweepAborted
      BY <1>8 DEF PointEnds
    <2> QED BY <1>0, <1>2, <2>1
  <1>9. ASSUME NEW listed \in SUBSET DOMAIN about, Tabled(listed)
        PROVE  call' \in CallsOf(DOMAIN about, everStored)
    <2>1. call' = [call EXCEPT !.at = "next", !.pruned = {}, !.rows = Append(call.rows, PointRun(listed))]
      BY <1>9 DEF Tabled
    <2>2. Append(call.rows, PointRun(listed)) \in Seq(DOMAIN about \cup {None})
      <3>1. PointRun(listed) \in DOMAIN about \cup {None} /\ call.rows \in Seq(DOMAIN about \cup {None})
        BY <1>0, RowOf
      <3> QED BY <3>1, AppendProperties
    <2> QED BY <1>0, <2>1, <2>2
  <1>10. runs \in SUBSET DOMAIN about
    BY DEF TypeOK, ListOK
  <1>11. CASE PointLost
    <2>1. CASE call' = [call EXCEPT !.at = "storing"]
      <3>1. call' \in CallsOf(DOMAIN about, everStored)
        BY <1>0, <2>1
      <3> QED BY <1>0, <1>2, <1>11, <3>1 DEF PointLost
    <2>2. CASE Tabled(runs)
      <3>1. call' \in CallsOf(DOMAIN about, everStored)
        BY <1>9, <1>10, <2>2
      <3> QED BY <1>0, <1>2, <1>11, <3>1 DEF PointLost
    <2> QED BY <1>11, <2>1, <2>2 DEF PointLost
  <1>12. CASE StoreRun
    <2>1. /\ everStored' = everStored \cup {call.run}
          /\ UNCHANGED <<about, sweepAborted>>
      BY <1>12 DEF StoreRun
    <2>2. PICK pruned \in SUBSET Of(call.project, disk) :
              /\ disk' \subseteq disk \cup {call.run}
              /\ call' = [call EXCEPT !.at = "stored", !.pruned = pruned,
                             !.stored = Cardinality(Of(call.project, disk'))]
      <3>1. PICK last \in Of(call.project, disk) \cup {0},
                 others \in SUBSET (disk \ Of(call.project, disk)) :
              LET pruned == {r \in Of(call.project, disk) : r <= last} IN
                /\ disk' = (disk \cup {call.run}) \ (pruned \cup others)
                /\ call' = [call EXCEPT !.at = "stored", !.pruned = pruned,
                               !.stored = Cardinality(Of(call.project, disk'))]
        BY <1>12 DEF StoreRun
      <3> QED BY <3>1
    <2>3. pruned \in SUBSET everStored'
      BY <2>1 DEF Of, TypeOK
    <2>4. Cardinality(Of(call.project, disk')) \in Nat
      <3>1. Of(call.project, disk') \in SUBSET DOMAIN about
        BY <1>12, <2>2 DEF Of, TypeOK, StoreRun, CallInv
      <3> QED BY <3>1, Counted
    <2>5. call \in CallsOf(DOMAIN about', everStored')
      BY <1>0, <1>1
    <2>6. call' \in CallsOf(DOMAIN about', everStored')
      BY <2>2, <2>3, <2>4, <2>5
    <2> QED BY <1>0, <2>1, <2>6 DEF CallOK
  <1>13. CASE StoreAnswered
    <2>1. runs' \in SUBSET DOMAIN about
      BY <1>10, <1>13 DEF StoreAnswered, dropRuns, shown
    <2>2. call' \in CallsOf(DOMAIN about, everStored)
      <3>1. Tabled(runs')
        BY <1>13 DEF StoreAnswered
      <3> QED BY <1>9, <2>1, <3>1
    <2> QED BY <1>0, <1>2, <1>13, <2>2 DEF StoreAnswered
  <1>14. CASE StoreFails
    <2>1. call' \in CallsOf(DOMAIN about, everStored)
      BY <1>9, <1>10, <1>14 DEF StoreFails
    <2> QED BY <1>0, <1>2, <1>14, <2>1 DEF StoreFails
  <1>15. CASE CallEnds
    BY <1>0, <1>2, <1>3, <1>15 DEF CallEnds
  <1>16. ASSUME \/ Loads \/ OpenProject \/ NewProject \/ Removes
                \/ setActiveRun \/ toggleOverlayRun \/ setOverlayRuns \/ UNCHANGED vars
         PROVE  UNCHANGED <<call, sweepAborted>>
    BY <1>16 DEF Loads, ListRuns, ListFailed, ListArrives, ReadRun, MergeLead, MergeAll, merge,
             Stale, OpenProject, NewProject, Replace, Removes, Ask, KeepRuns, removeRun, clearRuns, Delete,
             DeleteStored, DeleteAnswered, setActiveRun, toggleOverlayRun, setOverlayRuns, Pick, vars
  <1> QED BY <1>0, <1>2, <1>4, <1>5, <1>6, <1>7, <1>8, <1>11, <1>12, <1>13, <1>14, <1>15, <1>16
          DEF Next, Proceeds

\* The other variables, and all together.
LEMMA TypeStep ==
    ASSUME TypeOK, CallInv, [Next]_vars
    PROVE  TypeOK'
  <1>1. ListOK' /\ LoadOK' /\ RemovalsOK' /\ CallOK' /\ about' \in Seq(Info)
    BY ListStep, LoadStep, RemovalsStep, CallStep, Grows
  <1>2. project' \in Projects
    <2>1. UNCHANGED project \/ OpenProject \/ NewProject
      BY DEF Next, Loads, ListRuns, ListFailed, ListArrives, ReadRun, MergeLead, MergeAll, merge,
             Stale, Removes, Ask, KeepRuns, removeRun, clearRuns, Delete, DeleteStored, DeleteAnswered,
             PressRun, RunSweep, Press, StopRun, Proceeds, Gate, StartPoint, PointEnds, PointLost,
             StoreRun, StoreAnswered, StoreFails, CallEnds, setActiveRun, toggleOverlayRun,
             setOverlayRuns, Pick, vars
    <2> QED BY <2>1 DEF OpenProject, NewProject, TypeOK
  <1>3. disk' \subseteq everStored' /\ everStored' \subseteq DOMAIN about'
    <2>1. CASE StoreRun
      BY <2>1, Grows DEF StoreRun, CallInv, TypeOK
    <2>2. CASE DeleteStored
      BY <2>2 DEF DeleteStored, TypeOK
    <2>3. ASSUME \/ Loads \/ OpenProject \/ NewProject \/ Ask \/ KeepRuns \/ removeRun \/ clearRuns
                 \/ DeleteAnswered \/ PressRun \/ RunSweep \/ StopRun \/ Gate \/ StartPoint
                 \/ PointEnds \/ PointLost \/ StoreAnswered \/ StoreFails \/ CallEnds
                 \/ setActiveRun \/ toggleOverlayRun \/ setOverlayRuns \/ UNCHANGED vars
          PROVE  UNCHANGED <<disk, everStored>>
      BY <2>3 DEF Loads, ListRuns, ListFailed, ListArrives, ReadRun, MergeLead, MergeAll, merge,
             Stale, OpenProject, NewProject, Replace, Ask, KeepRuns, removeRun, clearRuns, Delete,
             DeleteAnswered, PressRun, RunSweep, Press, StopRun, Gate, StartPoint, PointEnds,
             PointLost, StoreAnswered, StoreFails, CallEnds, setActiveRun, toggleOverlayRun,
             setOverlayRuns, Pick, vars
    <2> QED BY <2>1, <2>2, <2>3, Grows DEF Next, Removes, Proceeds, TypeOK
  <1>4. calls' \in 0..MaxCalls /\ swaps' \in 0..MaxSwaps
        /\ removals' \in 0..MaxRemovals /\ picks' \in 0..MaxPicks
    <2>1. \/ UNCHANGED bounds
          \/ calls < MaxCalls /\ calls' = calls + 1 /\ UNCHANGED <<swaps, removals, picks>>
          \/ swaps < MaxSwaps /\ swaps' = swaps + 1 /\ UNCHANGED <<calls, removals, picks>>
          \/ removals < MaxRemovals /\ removals' = removals + 1 /\ UNCHANGED <<calls, swaps, picks>>
          \/ picks < MaxPicks /\ picks' = picks + 1 /\ UNCHANGED <<calls, swaps, removals>>
      BY DEF Next, Loads, ListRuns, ListFailed, ListArrives, ReadRun, MergeLead, MergeAll, merge,
             Stale, OpenProject, NewProject, Replace, Removes, Ask, KeepRuns, removeRun, clearRuns, Delete,
             DeleteStored, DeleteAnswered, PressRun, RunSweep, Press, StopRun, Proceeds, Gate,
             StartPoint, PointEnds, PointLost, StoreRun, StoreAnswered, StoreFails, CallEnds,
             setActiveRun, toggleOverlayRun, setOverlayRuns, Pick, vars, bounds
    <2>2. /\ calls \in 0..MaxCalls /\ swaps \in 0..MaxSwaps
          /\ removals \in 0..MaxRemovals /\ picks \in 0..MaxPicks
      BY DEF TypeOK
    <2>3. {MaxCalls, MaxSwaps, MaxRemovals, MaxPicks} \subseteq Nat
      BY SizesAssumption
    <2> QED BY <2>1, <2>2, <2>3 DEF bounds
  <1> QED BY <1>1, <1>2, <1>3, <1>4 DEF TypeOK

LEMMA TypeInit ==
    ASSUME Init
    PROVE  TypeOK
  <1> DEFINE first == CHOOSE p \in Projects : TRUE
             i == [Run(first, 0, 0) EXCEPT !.state = "complete"]
  <1>1. first \in Projects /\ Kept \in Nat /\ 0 \in 0..MaxCalls /\ 0 \in 0..VALUES
    BY SizesAssumption
  <1>2. i \in Info
    BY <1>1 DEF Run, Info
  <1>3. about = [r \in 1..Kept |-> i]
    BY DEF Init
  <1>4. /\ project = first /\ disk = 1..Kept /\ everStored = disk
        /\ runs = Newest(1..Kept) /\ activeRunId = NewestOf(runs) /\ overlayRunIds = {}
        /\ storedRunCount = Kept /\ runsLoading = FALSE
        /\ load = None /\ deletes = {} /\ question = None
        /\ call = Idle /\ sweepAborted = FALSE
        /\ calls = 0 /\ swaps = 0 /\ removals = 0 /\ picks = 0
    BY DEF Init
  <1> HIDE DEF first, i
  <1>5. about \in Seq(Info) /\ DOMAIN about = 1..Kept
    BY <1>1, <1>2, <1>3
  <1>6. runs \subseteq 1..Kept /\ Cardinality(runs) <= MAX_RUNS
    BY <1>1, <1>4, NewestBounds
  <1>7. activeRunId \in DOMAIN about \cup {None}
    <2>1. runs # {} => Max(runs) \in runs
      BY <1>1, <1>6, NewestIs
    <2> QED BY <1>4, <1>5, <1>6, <2>1 DEF NewestOf
  <1>8. ListOK
    BY <1>1, <1>4, <1>5, <1>6, <1>7 DEF ListOK
  <1>9. CallOK
    <2>1. Idle.rows \in Seq(DOMAIN about \cup {None})
      BY DEF Idle
    <2> QED BY <1>1, <1>4, <2>1 DEF CallOK, Idle
  <1>10. LoadOK /\ RemovalsOK
    BY <1>4 DEF LoadOK, RemovalsOK
  <1>11. /\ calls \in 0..MaxCalls /\ swaps \in 0..MaxSwaps
         /\ removals \in 0..MaxRemovals /\ picks \in 0..MaxPicks
    BY <1>4, SizesAssumption
  <1> QED BY <1>1, <1>4, <1>5, <1>8, <1>9, <1>10, <1>11 DEF TypeOK

-----------------------------------------------------------------------------
(* The run in progress, what is stored, and the load.                       *)

LEMMA IInvInit ==
    ASSUME Init
    PROVE  IInv
  <1>1. \A r \in DOMAIN about : about[r].state = "complete"
    BY DEF Init, Run
  <1>2. TypeOK
    BY TypeInit
  <1>3. call.at = "idle" /\ load = None /\ question = None /\ everStored \subseteq DOMAIN about
    BY <1>2 DEF Init, Idle, TypeOK
  <1> QED BY <1>1, <1>2, <1>3 DEF IInv, RunningInv, CallInv, EndedInv, LoadInv

LEMMA RunKept ==
    ASSUME TypeOK, CallInv, [Next]_vars, NEW r \in DOMAIN about
    PROVE  /\ about'[r].project = about[r].project
           /\ about[r].state # "running" => about'[r].state # "running"
  BY Grows

LEMMA GrownTo ==
    ASSUME TypeOK, CallInv, [Next]_vars
    PROVE  Len(about') \in Nat /\ DOMAIN about' = 1..Len(about')
  <1>1. about' \in Seq(Info)
    BY Grows
  <1> QED BY <1>1

\* Only the steps of a call change it, each at its time.
LEMMA CallKept ==
    ASSUME [Next]_vars
    PROVE  \/ UNCHANGED <<call, about>>
           \/ PressRun \/ RunSweep \/ Gate \/ StartPoint \/ PointEnds \/ PointLost \/ StoreRun
           \/ StoreAnswered \/ StoreFails \/ CallEnds
  BY DEF Next, Loads, ListRuns, ListFailed, ListArrives, ReadRun, MergeLead, MergeAll, merge,
         Stale, OpenProject, NewProject, Replace, Removes, Ask, KeepRuns, removeRun, clearRuns, Delete,
         DeleteStored, DeleteAnswered, StopRun, Proceeds, setActiveRun, toggleOverlayRun,
         setOverlayRuns, Pick, vars

LEMMA CallInvStep ==
    ASSUME TypeOK, CallInv, [Next]_vars
    PROVE  CallInv'
  <1>0. DOMAIN about \subseteq DOMAIN about' /\ call \in [at: {"idle", "gate", "next", "live", "storing", "stored"},
                  project: Projects \cup {None}, sweep: BOOLEAN, point: 0..VALUES,
                  run: DOMAIN about \cup {0}, rows: Seq(DOMAIN about \cup {None}),
                  pruned: SUBSET everStored, stored: Nat]
    BY Grows DEF TypeOK, CallOK
  <1>1. CASE UNCHANGED <<call, about>>
    BY <1>1 DEF CallInv
  <1>2. CASE PressRun \/ RunSweep
    <2>1. PICK sweep \in BOOLEAN : Press(sweep)
      BY <1>2 DEF PressRun, RunSweep
    <2>2. call'.at = "gate" /\ call'.project = project
      BY <2>1 DEF Press, Idle
    <2>3. project \in Projects
      BY DEF TypeOK
    <2> QED BY <2>2, <2>3 DEF CallInv
  <1>3. CASE Gate \/ CallEnds
    <2>1. \/ call' = Idle
          \/ /\ call' = [call EXCEPT !.at = "next"]
             /\ call.at # "idle"
      BY <1>3 DEF Gate, CallEnds
    <2>2. CASE call' = Idle
      BY <2>2 DEF Idle, CallInv
    <2>3. CASE call' = [call EXCEPT !.at = "next"] /\ call.at # "idle"
      <3>1. call'.at = "next" /\ call'.project = call.project
        BY <1>0, <2>3
      <3> QED BY <2>3, <3>1 DEF CallInv
    <2> QED BY <2>1, <2>2, <2>3
  <1>4. CASE StartPoint
    <2>1. /\ call' = [call EXCEPT !.at = "live", !.point = call.point + 1, !.run = Len(about) + 1]
          /\ call.at = "next"
      BY <1>4 DEF StartPoint
    <2>2. Len(about) + 1 \in DOMAIN about' /\ Len(about') = Len(about) + 1
      BY <1>4, Started, Appended
    <2> QED BY <1>0, <2>1, <2>2 DEF CallInv
  <1>5. CASE PointEnds
    BY <1>0, <1>5 DEF PointEnds, CallInv
  <1>6. CASE PointLost
    BY <1>0, <1>6 DEF PointLost, Tabled, CallInv
  <1>7. CASE StoreRun
    <2>1. call.at = "storing" /\ call'.at = "stored" /\ call'.run = call.run /\ call'.project = call.project
      BY <1>0, <1>7 DEF StoreRun
    <2> QED BY <1>0, <2>1 DEF CallInv
  <1>8. CASE StoreAnswered \/ StoreFails
    <2>1. call.at # "idle" /\ call'.at = "next" /\ call'.project = call.project
      BY <1>0, <1>8 DEF StoreAnswered, StoreFails, Tabled
    <2> QED BY <1>0, <2>1 DEF CallInv
  <1> QED BY <1>1, <1>2, <1>3, <1>4, <1>5, <1>6, <1>7, <1>8, CallKept

LEMMA RunningInvStep ==
    ASSUME TypeOK, CallInv, RunningInv, [Next]_vars
    PROVE  RunningInv'
  <1>1. CASE UNCHANGED <<call, about>>
    BY <1>1 DEF RunningInv
  <1>2. CASE PressRun \/ RunSweep \/ Gate \/ StoreRun \/ StoreAnswered \/ StoreFails \/ CallEnds
    <2>1. call.at # "live" /\ UNCHANGED about
      BY <1>2 DEF PressRun, RunSweep, Press, running, Gate, StoreRun, StoreAnswered, StoreFails,
              CallEnds
    <2> QED BY <2>1 DEF RunningInv
  <1>3. CASE StartPoint
    <2>1. call'.at = "live" /\ call'.run = Len(about) + 1
      BY <1>3 DEF StartPoint, TypeOK, CallOK
    <2>2. ASSUME NEW r \in DOMAIN about PROVE about'[r].state # "running"
      <3>1. call.at # "live"
        BY <1>3 DEF StartPoint
      <3> QED BY <1>3, <3>1, Appended DEF RunningInv
    <2>3. DOMAIN about' = DOMAIN about \cup {Len(about) + 1}
      BY <1>3, Appended, Started
    <2> QED BY <2>1, <2>2, <2>3 DEF RunningInv
  <1>4. CASE PointEnds \/ PointLost
    <2>1. PICK state \in {"complete", "incomplete"} : about' = [about EXCEPT ![call.run].state = state]
      BY <1>4 DEF PointEnds, PointLost
    <2>2. call.run \in DOMAIN about
      BY <1>4 DEF PointEnds, PointLost, CallInv
    <2>3. ASSUME NEW r \in DOMAIN about PROVE about'[r].state # "running"
      <3>1. CASE r = call.run
        BY <2>1, <2>2, <3>1, Started DEF Info
      <3>2. CASE r # call.run
        BY <2>1, <2>2, <3>2 DEF RunningInv
      <3> QED BY <3>1, <3>2
    <2>4. DOMAIN about' = DOMAIN about
      BY <2>1
    <2> QED BY <2>3, <2>4 DEF RunningInv
  <1> QED BY <1>1, <1>2, <1>3, <1>4, CallKept

LEMMA EndedInvStep ==
    ASSUME TypeOK, CallInv, RunningInv, EndedInv, [Next]_vars
    PROVE  EndedInv'
  <1>1. ASSUME NEW r \in everStored' PROVE about'[r].state # "running"
    <2>1. everStored' = everStored \/ (StoreRun /\ everStored' = everStored \cup {call.run})
      <3>1. StoreRun \/ UNCHANGED everStored
        BY DEF Next, Loads, ListRuns, ListFailed, ListArrives, ReadRun, MergeLead, MergeAll, merge,
             Stale, OpenProject, NewProject, Replace, Removes, Ask, KeepRuns, removeRun, clearRuns, Delete,
             DeleteStored, DeleteAnswered, PressRun, RunSweep, Press, StopRun, Proceeds, Gate,
             StartPoint, PointEnds, PointLost, StoreAnswered, StoreFails, CallEnds, setActiveRun,
             toggleOverlayRun, setOverlayRuns, Pick, vars
      <3> QED BY <3>1 DEF StoreRun
    <2>2. StoreRun => call.run \in DOMAIN about /\ about[call.run].state # "running"
      BY DEF StoreRun, CallInv, RunningInv
    <2>3. \A q \in everStored : q \in DOMAIN about /\ about[q].state # "running"
      BY DEF EndedInv, TypeOK
    <2>4. r \in DOMAIN about /\ about[r].state # "running"
      BY <1>1, <2>1, <2>2, <2>3
    <2> QED BY <2>4, RunKept
  <1>2. ASSUME question' \in DOMAIN about' PROVE about'[question'].state # "running"
    <2>1. CASE UNCHANGED question
      <3>1. question \in DOMAIN about
        <4>1. question \notin {All, None}
          <5>1. Len(about') \in Nat /\ DOMAIN about' = 1..Len(about')
            BY GrownTo
          <5>2. question \in Int /\ question # 0
            BY <1>2, <2>1, <5>1
          <5> QED BY <5>2, NoneAssumption DEF All
        <4> QED BY <4>1 DEF TypeOK, RemovalsOK
      <3>2. about[question].state # "running"
        BY <3>1 DEF EndedInv
      <3> QED BY <2>1, <3>1, <3>2, RunKept
    <2>2. CASE Ask
      <3>1. question' \in DOMAIN about /\ about' = about
        BY <1>2, <2>2 DEF Ask
      <3>2. call.at # "live"
        BY <2>2 DEF Ask, running
      <3> QED BY <3>1, <3>2 DEF RunningInv
    <2>3. CASE KeepRuns \/ removeRun \/ clearRuns
      <3>1. question' = None
        BY <2>3 DEF KeepRuns, removeRun, clearRuns, Delete
      <3>2. None \notin DOMAIN about'
        BY GrownTo, NoneAssumption
      <3> QED BY <1>2, <3>1, <3>2
    <2>4. UNCHANGED question \/ Ask \/ KeepRuns \/ removeRun \/ clearRuns
      BY DEF Next, Loads, ListRuns, ListFailed, ListArrives, ReadRun, MergeLead, MergeAll, merge,
             Stale, OpenProject, NewProject, Replace, Removes,
             DeleteStored, DeleteAnswered, PressRun, RunSweep, Press, StopRun, Proceeds, Gate,
             StartPoint, PointEnds, PointLost, StoreRun, StoreAnswered, StoreFails, CallEnds,
             setActiveRun, toggleOverlayRun, setOverlayRuns, Pick, vars
    <2> QED BY <2>1, <2>2, <2>3, <2>4
  <1> QED BY <1>1, <1>2 DEF EndedInv

LEMMA LoadInvStep ==
    ASSUME TypeOK, CallInv, LoadInv, [Next]_vars
    PROVE  LoadInv'
  <1>1. ASSUME load # None, load' # None,
               load'.index = load.index, load'.project = load.project
        PROVE  LoadInv'
    <2>1. \A r \in load.index : r \in DOMAIN about /\ about[r].project = load.project
      BY <1>1, LoadLists DEF LoadInv
    <2>2. \A r \in load.index : about'[r].project = load.project
      BY <2>1, RunKept
    <2> QED BY <1>1, <2>2 DEF LoadInv
  <1>2. ASSUME load' # None, load'.index = {}
        PROVE  LoadInv'
    BY <1>2 DEF LoadInv
  <1>3. CASE load' = None
    BY <1>3 DEF LoadInv
  <1>4. load # None => load \in [project: Projects, at: {"asked", "listed", "failed", "reading"},
              index: SUBSET everStored, toRead: SUBSET everStored,
              lead: everStored \cup {None}, loaded: SUBSET everStored]
    BY DEF TypeOK, LoadOK
  <1>5. CASE ListRuns
    <2>1. load # None /\ UNCHANGED about
      BY <1>5 DEF ListRuns, Current
    <2>2. CASE load' = [load EXCEPT !.at = "listed", !.index = Of(load.project, disk)]
      <3>1. load'.index = Of(load.project, disk) /\ load'.project = load.project
        BY <1>4, <2>1, <2>2
      <3> QED BY <2>1, <3>1 DEF LoadInv, Of
    <2>3. CASE load' = [load EXCEPT !.at = "failed"]
      <3>1. load'.index = load.index /\ load'.project = load.project
        BY <1>4, <2>1, <2>3
      <3> QED BY <1>1, <1>3, <2>1, <3>1
    <2> QED BY <1>5, <2>2, <2>3 DEF ListRuns
  <1>6. CASE ListArrives \/ ReadRun \/ MergeLead
    <2>1. load # None /\ load'.index = load.index /\ load'.project = load.project
      BY <1>4, <1>6 DEF ListArrives, ReadRun, MergeLead, Current
    <2> QED BY <1>1, <1>3, <2>1
  <1>7. ASSUME NEW p, load' = Load(p)
        PROVE  LoadInv'
    BY <1>2, <1>7 DEF Load, LoadInv
  <1>8. CASE UNCHANGED load
    BY <1>1, <1>3, <1>8
  <1>9. ASSUME \/ OpenProject \/ NewProject \/ removeRun \/ clearRuns \/ DeleteAnswered
               \/ ListFailed \/ MergeAll \/ Stale
        PROVE  UNCHANGED load \/ load' = None \/ \E p : load' = Load(p)
    BY <1>9 DEF OpenProject, NewProject, removeRun, clearRuns, Delete, GiveUpLoad, DeleteAnswered,
            loadRunHistory, ListFailed, MergeAll, Stale
  <1>10. ASSUME \/ Ask \/ KeepRuns \/ DeleteStored \/ PressRun \/ RunSweep \/ StopRun \/ Proceeds
                \/ setActiveRun \/ toggleOverlayRun \/ setOverlayRuns \/ UNCHANGED vars
         PROVE  UNCHANGED load
    BY <1>10 DEF Ask, KeepRuns, DeleteStored, PressRun, RunSweep, Press, StopRun, Proceeds, Gate, StartPoint,
             PointEnds, PointLost, StoreRun, StoreAnswered, StoreFails, CallEnds, setActiveRun,
             toggleOverlayRun, setOverlayRuns, Pick, vars
  <1> QED BY <1>3, <1>5, <1>6, <1>7, <1>8, <1>9, <1>10 DEF Next, Loads, Removes

LEMMA IInvStep ==
    ASSUME IInv, [Next]_vars
    PROVE  IInv'
  BY TypeStep, RunningInvStep, CallInvStep, EndedInvStep, LoadInvStep DEF IInv

LEMMA Invariance == Spec => []IInv
  <1>1. Init => IInv
    BY IInvInit
  <1>2. IInv /\ [Next]_vars => IInv'
    BY IInvStep
  <1> QED BY <1>1, <1>2, PTL DEF Spec

-----------------------------------------------------------------------------
(* What leaves the list, and what comes in.                                 *)

\* The steps that change the list of runs.
LEMMA ListChanges ==
    ASSUME [Next]_vars
    PROVE  \/ UNCHANGED runs
           \/ MergeLead \/ MergeAll \/ OpenProject \/ NewProject \/ removeRun \/ clearRuns
           \/ StartPoint \/ StoreAnswered
  BY DEF Next, Loads, ListRuns, ListFailed, ListArrives, ReadRun, Stale, Removes, Ask, KeepRuns, DeleteStored,
         DeleteAnswered, PressRun, RunSweep, Press, StopRun, Proceeds, Gate, PointEnds, PointLost,
         StoreRun, StoreFails, CallEnds, setActiveRun, toggleOverlayRun, setOverlayRuns, Pick,
         vars, list, shown

\* What a load makes of the list: what it leaves out was stored, or has as many
\* newer runs as are listed; what it brings in was stored for the open project.
LEMMA MergeShows ==
    ASSUME IInv, MergeLead \/ MergeAll
    PROVE  /\ \A r \in runs \ runs' :
                 r \in everStored \/ Cardinality(Newer(runs', r)) >= MAX_RUNS
           /\ \A r \in runs \ everStored : (\A q \in DOMAIN about : q <= r) => r \in runs'
           /\ \A r \in runs' \ runs : about[r].project = project
           /\ UNCHANGED <<about, project, everStored>>
  <1> TypeOK
    BY DEF IInv
  <1>1. /\ load # None /\ load.project = project /\ runs' = Merged
        /\ UNCHANGED <<about, project, everStored>>
    BY DEF MergeLead, MergeAll, merge, Current
  <1> DEFINE S == (runs \ load.index) \cup (Shown \cap (runs \cup load.loaded))
  <1>2. S \in SUBSET DOMAIN about /\ runs' = Newest(S)
    BY <1>1, LoadLists DEF Merged, TypeOK, ListOK
  <1>3. \A r \in runs : r \in everStored \/ r \in S
    BY <1>1, LoadLists
  <1>4. \A r \in S : r \in runs \/ r \in load.index
    BY <1>1, LoadLists
  <1>5. \A r \in load.index : about[r].project = project
    BY <1>1 DEF IInv, LoadInv
  <1> HIDE DEF S
  <1>6. /\ runs' \subseteq S
        /\ \A r \in S \ runs' : Cardinality(Newer(runs', r)) >= MAX_RUNS
        /\ \A r \in S : (\A q \in S : q <= r) => r \in runs'
    BY <1>2, CutList
  <1> QED BY <1>1, <1>2, <1>3, <1>4, <1>5, <1>6

\* What the start of a point makes of the list.
LEMMA StartShows ==
    ASSUME IInv, StartPoint
    PROVE  /\ runs' \subseteq runs \cup {Len(about) + 1}
           /\ \A r \in runs \ runs' : Cardinality(Newer(runs', r)) >= MAX_RUNS
           /\ \A r \in DOMAIN about : about[r].state # "running"
  <1> DEFINE n == Len(about) + 1
  <1>1. runs' = Newest(runs \cup {n}) /\ call.at = "next"
    BY DEF StartPoint, Listed
  <1>2. n \in Nat /\ runs \cup {n} \in SUBSET (1..n)
    BY Started DEF IInv, TypeOK, ListOK
  <1>3. \A r \in DOMAIN about : about[r].state # "running"
    BY <1>1 DEF IInv, RunningInv
  <1> HIDE DEF n
  <1>4. runs' \subseteq runs \cup {n} /\ \A r \in (runs \cup {n}) \ runs' : Cardinality(Newer(runs', r)) >= MAX_RUNS
    BY <1>1, <1>2, NewestBounds
  <1> QED BY <1>3, <1>4 DEF n

LEMMA InProgressStep ==
    ASSUME IInv, [Next]_vars, NEW r \in runs \ runs', about[r].state = "running"
    PROVE  runs' = {}
  <1>1. /\ r \in DOMAIN about /\ call.at = "live" /\ r = Len(about)
        /\ r \notin everStored /\ r # question
    BY DEF IInv, TypeOK, ListOK, RunningInv, CallInv, EndedInv
  <1>2. \A q \in DOMAIN about : q <= r
    BY <1>1, Started DEF IInv
  <1>3. ~(MergeLead \/ MergeAll)
    BY <1>1, <1>2, MergeShows
  <1>4. ~StartPoint /\ ~StoreAnswered
    BY <1>1 DEF StartPoint, StoreAnswered
  <1>5. ~removeRun
    BY <1>1 DEF removeRun, dropRuns
  <1>6. CASE OpenProject \/ NewProject \/ clearRuns
    BY <1>6 DEF OpenProject, NewProject, clearRuns, Replace, NothingShown
  <1> QED BY <1>3, <1>4, <1>5, <1>6, ListChanges

LEMMA OwnStep ==
    ASSUME IInv, [Next]_vars, NEW r \in runs' \ runs, r \in DOMAIN about
    PROVE  about[r].project = project'
  <1>1. CASE MergeLead \/ MergeAll
    BY <1>1, MergeShows
  <1>2. CASE StartPoint
    <2>1. r = Len(about) + 1
      BY <1>2, StartShows
    <2> QED BY <2>1, Started DEF IInv
  <1>3. ASSUME \/ UNCHANGED runs \/ OpenProject \/ NewProject \/ removeRun \/ clearRuns \/ StoreAnswered
        PROVE  runs' \subseteq runs
    BY <1>3 DEF OpenProject, NewProject, removeRun, clearRuns, StoreAnswered, Replace, NothingShown,
            dropRuns, shown
  <1> QED BY <1>1, <1>2, <1>3, ListChanges

LEMMA UnstoredStep ==
    ASSUME IInv, [Next]_vars, NEW r \in runs \ (runs' \cup everStored)
    PROVE  \/ Cardinality(Newer(runs', r)) >= MAX_RUNS
           \/ question \in {r, All} /\ question' = None
           \/ swaps' # swaps
  <1>1. CASE MergeLead \/ MergeAll
    BY <1>1, MergeShows
  <1>2. CASE StartPoint
    BY <1>2, StartShows
  <1>3. CASE OpenProject \/ NewProject
    BY <1>3 DEF OpenProject, NewProject, Replace, IInv, TypeOK
  <1>4. CASE removeRun \/ clearRuns
    BY <1>4 DEF removeRun, clearRuns, Delete, dropRuns
  <1>5. CASE StoreAnswered
    <2>1. call.pruned \subseteq everStored
      BY DEF IInv, TypeOK, CallOK
    <2>2. runs \ call.pruned \subseteq runs'
      BY <1>5 DEF StoreAnswered, dropRuns, shown
    <2> QED BY <2>1, <2>2
  <1> QED BY <1>1, <1>2, <1>3, <1>4, <1>5, ListChanges

-----------------------------------------------------------------------------
(* The theorems.                                                            *)

\* No more than MAX_RUNS runs are listed (mergeRuns, executeRun), and every run
\* that is listed, shown, loaded, stored or asked about was started.
THEOREM RunHistoryTypes == Spec => []TypeOK
  <1>1. IInv => TypeOK
    BY DEF IInv
  <1> QED BY <1>1, Invariance, PTL

\* A run in progress stays listed until the history is cleared or the project
\* replaced, whatever is loaded, removed or cut meanwhile (loadRunHistory, removeRun).
THEOREM RunHistoryInProgress == Spec => RunInProgressKept
  <1>1. IInv /\ [Next]_vars =>
            [\A r \in runs \ runs' : about[r].state = "running" => runs' = {}]_vars
    BY InProgressStep
  <1> QED BY <1>1, Invariance, PTL DEF Spec, RunInProgressKept

\* A load that was asked for one project never lists its runs in another, also
\* when the project is replaced between its requests (loadRunHistory).
THEOREM RunHistoryOwn == Spec => LoadsOwnRuns
  <1>1. IInv /\ [Next]_vars =>
            [\A r \in runs' \ runs : r \in DOMAIN about => about[r].project = project']_vars
    BY OwnStep
  <1> QED BY <1>1, Invariance, PTL DEF Spec, LoadsOwnRuns

\* A run that was never stored is dropped from the list only for newer ones, for
\* the user's removal or with its project (merge, executeRun, storeRun).
THEOREM RunHistoryUnstored == Spec => UnstoredKept
  <1>1. IInv /\ [Next]_vars =>
            [\A r \in runs \ (runs' \cup everStored) :
                \/ Cardinality({q \in runs' : q > r}) >= MAX_RUNS
                \/ question \in {r, All} /\ question' = None
                \/ swaps' # swaps]_vars
    BY UnstoredStep DEF Newer
  <1> QED BY <1>1, Invariance, PTL DEF Spec, UnstoredKept

=============================================================================
