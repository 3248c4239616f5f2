-------------------------- MODULE RunStore_proofs --------------------------
(***************************************************************************)
(* The stored runs of RunStore, proved for any number of projects, runs    *)
(* and saves, and any budgets.  What the operation under way holds in      *)
(* memory (op.entries) must agree with the files at each of its steps, and *)
(* with the index on disk whenever it stops: IInv says how.  It does not   *)
(* need the bytes, only the budgets do (BudgetInv): they are added up with *)
(* the sums over finite sets that the module begins with.                  *)
(***************************************************************************)
EXTENDS RunStore, FiniteSetTheorems, WellFoundedInduction, TLAPS

-----------------------------------------------------------------------------
(* Sums over finite sets, whichever element is taken first.                 *)

\* Some set of a family of finite sets has no smaller one in the family.
LEMMA SmallestSet ==
    ASSUME NEW S, IsFiniteSet(S), NEW F \in SUBSET SUBSET S, F # {}
    PROVE  \E U \in F : \A x \in U : \A V \in SUBSET (U \ {x}) : V \notin F
  <1>1. F \subseteq FiniteSubsetsOf(S)
    BY FS_Subset DEF FiniteSubsetsOf
  <1>2. PICK U \in F : \A V \in F : ~(<<V, U>> \in StrictSubsetOrdering(S))
    BY <1>1, WFMin, FS_StrictSubsetOrderingWellFounded
  <1>3. ASSUME NEW x \in U, NEW V \in SUBSET (U \ {x}), V \in F PROVE FALSE
    <2>1. V \in SUBSET S /\ U \in SUBSET S /\ V \subseteq U /\ V # U
      BY <1>3
    <2> QED BY <1>2, <1>3, <2>1 DEF StrictSubsetOrdering
  <1> QED BY <1>3

\* The sums of MapThenSumSet: it takes one element after the other.
Pick(s) == CHOOSE x \in s : TRUE

LEMMA Picked == ASSUME NEW s, s # {} PROVE Pick(s) \in s
  BY DEF Pick

Sums(f, S, w) ==
    f = [s \in SUBSET S |-> IF s = {} THEN 0 ELSE w[Pick(s)] + f[s \ {Pick(s)}]]
Sum(w, S) == (CHOOSE f : Sums(f, S, w))[S]

LEMMA SumsAt ==
    ASSUME NEW S, NEW w, NEW f, Sums(f, S, w), NEW s \in SUBSET S
    PROVE  f[s] = IF s = {} THEN 0 ELSE w[Pick(s)] + f[s \ {Pick(s)}]
  BY DEF Sums

\* Two such functions agree where both are defined.
LEMMA SumsAgree ==
    ASSUME NEW S, NEW T, IsFiniteSet(S), NEW w, NEW f, NEW g, Sums(f, S, w), Sums(g, T, w),
           NEW A \in SUBSET (S \cap T)
    PROVE  f[A] = g[A]
  <1> DEFINE F == {U \in SUBSET (S \cap T) : f[U] # g[U]}
  <1>1. SUFFICES ASSUME F # {} PROVE FALSE
    OBVIOUS
  <1>2. F \in SUBSET SUBSET S
    OBVIOUS
  <1>3. PICK U \in F : \A x \in U : \A V \in SUBSET (U \ {x}) : V \notin F
    <2> HIDE DEF F
    <2> QED BY <1>1, <1>2, SmallestSet
  <1>4. U # {}
    BY SumsAt
  <1>5. U \ {Pick(U)} \in SUBSET (S \cap T) /\ U \ {Pick(U)} \notin F
    BY <1>3, <1>4, Picked
  <1>6. f[U] = w[Pick(U)] + f[U \ {Pick(U)}] /\ g[U] = w[Pick(U)] + g[U \ {Pick(U)}]
    BY <1>4, SumsAt
  <1> QED BY <1>5, <1>6

\* There is such a function: put together from those of the smaller sets.
LEMMA SumsExist ==
    ASSUME NEW S, IsFiniteSet(S), NEW w
    PROVE  \E f : Sums(f, S, w)
  <1> DEFINE F == {U \in SUBSET S : ~ \E f : Sums(f, U, w)}
  <1>1. SUFFICES ASSUME F # {} PROVE FALSE
    OBVIOUS
  <1>2. F \in SUBSET SUBSET S
    OBVIOUS
  <1>3. PICK U \in F : \A x \in U : \A V \in SUBSET (U \ {x}) : V \notin F
    <2> HIDE DEF F
    <2> QED BY <1>1, <1>2, SmallestSet
  <1> DEFINE G(V) == CHOOSE g : Sums(g, V, w)
             Less(V) == V \ {Pick(V)}
             h == [V \in SUBSET U |-> IF V = {} THEN 0 ELSE w[Pick(V)] + G(Less(V))[Less(V)]]
  <1>4. ASSUME NEW V \in SUBSET U, V # {}
        PROVE  Less(V) \in SUBSET U /\ Sums(G(Less(V)), Less(V), w) /\ IsFiniteSet(Less(V))
    <2>1. Pick(V) \in U /\ Less(V) \in SUBSET (U \ {Pick(V)})
      BY <1>4, Picked
    <2>2. \E g : Sums(g, Less(V), w)
      BY <1>3, <2>1
    <2> QED BY <2>1, <2>2, FS_Subset
  <1>5. ASSUME NEW V \in SUBSET U, V # {}
        PROVE  h[Less(V)] = G(Less(V))[Less(V)]
    <2> DEFINE W == Less(V)
    <2>1. W \in SUBSET U /\ Sums(G(W), W, w) /\ IsFiniteSet(W)
      BY <1>4, <1>5
    <2>2. CASE W = {}
      <3>1. G(W)[W] = 0
        BY <2>1, <2>2, SumsAt
      <3> QED BY <2>2, <3>1
    <2>3. CASE W # {}
      <3>1. Less(W) \in SUBSET U /\ Sums(G(Less(W)), Less(W), w)
        BY <1>4, <2>1, <2>3
      <3>2. G(W)[W] = w[Pick(W)] + G(W)[Less(W)]
        <4> HIDE DEF G, W
        <4> QED BY <2>1, <2>3, SumsAt
      <3>3. G(W)[Less(W)] = G(Less(W))[Less(W)]
        <4>1. Less(W) \in SUBSET (W \cap Less(W))
          OBVIOUS
        <4> HIDE DEF G, W, Less
        <4> QED BY <2>1, <3>1, <4>1, SumsAgree
      <3>4. h[W] = w[Pick(W)] + G(Less(W))[Less(W)]
        <4> HIDE DEF G, W, Less
        <4> QED BY <2>1, <2>3
      <3> QED BY <3>2, <3>3, <3>4
    <2> QED BY <2>2, <2>3
  <1>6. Sums(h, U, w)
    <2>1. ASSUME NEW V \in SUBSET U
          PROVE  h[V] = IF V = {} THEN 0 ELSE w[Pick(V)] + h[Less(V)]
      <3>1. V # {} => h[Less(V)] = G(Less(V))[Less(V)]
        BY <1>5
      <3> HIDE DEF G, Less
      <3> QED BY <3>1
    <2>2. h = [V \in SUBSET U |-> IF V = {} THEN 0 ELSE w[Pick(V)] + G(Less(V))[Less(V)]]
      OBVIOUS
    <2> HIDE DEF h, G
    <2>3. h = [V \in SUBSET U |-> IF V = {} THEN 0 ELSE w[Pick(V)] + h[Less(V)]]
      BY <2>1, <2>2
    <2> QED BY <2>3 DEF Sums
  <1> QED BY <1>3, <1>6

LEMMA SumIs ==
    ASSUME NEW S, IsFiniteSet(S), NEW w, NEW f, Sums(f, S, w), NEW A \in SUBSET S
    PROVE  f[A] = Sum(w, A)
  <1>1. IsFiniteSet(A)
    BY FS_Subset
  <1>2. Sums(CHOOSE g : Sums(g, A, w), A, w)
    BY <1>1, SumsExist
  <1> QED BY <1>1, <1>2, SumsAgree DEF Sum

LEMMA SumAt ==
    ASSUME NEW S, IsFiniteSet(S), NEW w
    PROVE  Sum(w, S) = IF S = {} THEN 0 ELSE w[Pick(S)] + Sum(w, S \ {Pick(S)})
  <1>1. PICK f : Sums(f, S, w)
    BY SumsExist
  <1>2. f[S] = Sum(w, S) /\ f[S \ {Pick(S)}] = Sum(w, S \ {Pick(S)})
    BY <1>1, SumIs
  <1> QED BY <1>1, <1>2, SumsAt

LEMMA SumNat ==
    ASSUME NEW S, IsFiniteSet(S), NEW w, \A x \in S : w[x] \in Nat
    PROVE  Sum(w, S) \in Nat
  <1> DEFINE F == {U \in SUBSET S : Sum(w, U) \notin Nat}
  <1>1. SUFFICES ASSUME F # {} PROVE FALSE
    OBVIOUS
  <1>2. F \in SUBSET SUBSET S
    OBVIOUS
  <1>3. PICK U \in F : \A x \in U : \A V \in SUBSET (U \ {x}) : V \notin F
    <2> HIDE DEF F
    <2> QED BY <1>1, <1>2, SmallestSet
  <1>4. IsFiniteSet(U)
    BY FS_Subset
  <1>5. U # {}
    BY <1>4, SumAt
  <1>6. Pick(U) \in U /\ Sum(w, U \ {Pick(U)}) \in Nat
    BY <1>3, <1>5, Picked
  <1> QED BY <1>4, <1>5, <1>6, SumAt

\* The order does not matter: any element may be taken first.
LEMMA SumWithout ==
    ASSUME NEW S, IsFiniteSet(S), NEW w, \A x \in S : w[x] \in Nat, NEW y \in S
    PROVE  Sum(w, S) = w[y] + Sum(w, S \ {y})
  <1> DEFINE F == {U \in SUBSET S : \E z \in U : Sum(w, U) # w[z] + Sum(w, U \ {z})}
  <1>1. SUFFICES ASSUME F # {} PROVE FALSE
    OBVIOUS
  <1>2. F \in SUBSET SUBSET S
    OBVIOUS
  <1>3. PICK U \in F : \A x \in U : \A V \in SUBSET (U \ {x}) : V \notin F
    <2> HIDE DEF F
    <2> QED BY <1>1, <1>2, SmallestSet
  <1>4. IsFiniteSet(U)
    BY FS_Subset
  <1>5. PICK z \in U : Sum(w, U) # w[z] + Sum(w, U \ {z})
    OBVIOUS
  <1> DEFINE x == Pick(U)
  <1>6. x \in U /\ Sum(w, U) = w[x] + Sum(w, U \ {x})
    BY <1>4, <1>5, SumAt, Picked
  <1>7. x # z
    BY <1>5, <1>6
  <1>8. U \ {x} \notin F /\ U \ {z} \notin F
    BY <1>3, <1>6
  <1>9. Sum(w, U \ {x}) = w[z] + Sum(w, (U \ {x}) \ {z})
    BY <1>7, <1>8
  <1>10. Sum(w, U \ {z}) = w[x] + Sum(w, (U \ {z}) \ {x})
    BY <1>6, <1>7, <1>8
  <1>11. (U \ {x}) \ {z} = (U \ {z}) \ {x}
    OBVIOUS
  <1>12. Sum(w, (U \ {z}) \ {x}) \in Nat /\ w[x] \in Nat /\ w[z] \in Nat
    BY <1>4, <1>6, FS_Subset, SumNat
  <1>13. Sum(w, U \ {x}) = w[z] + Sum(w, (U \ {z}) \ {x})
    BY <1>9, <1>11
  <1> HIDE DEF x, F
  <1> QED BY <1>5, <1>6, <1>10, <1>12, <1>13

\* A part adds up to no more than the whole.
LEMMA SumOfPart ==
    ASSUME NEW S, IsFiniteSet(S), NEW w, \A x \in S : w[x] \in Nat, NEW T \in SUBSET S
    PROVE  Sum(w, T) <= Sum(w, S)
  <1> DEFINE F == {U \in SUBSET S : T \subseteq U /\ ~(Sum(w, T) <= Sum(w, U))}
  <1>1. SUFFICES ASSUME F # {} PROVE FALSE
    OBVIOUS
  <1>2. F \in SUBSET SUBSET S
    OBVIOUS
  <1>3. PICK U \in F : \A x \in U : \A V \in SUBSET (U \ {x}) : V \notin F
    <2> HIDE DEF F
    <2> QED BY <1>1, <1>2, SmallestSet
  <1>4. IsFiniteSet(U) /\ IsFiniteSet(T)
    BY FS_Subset
  <1>5. Sum(w, T) \in Nat
    BY <1>4, SumNat
  <1>6. PICK y \in U : y \notin T
    <2>1. T \subseteq U /\ ~(Sum(w, T) <= Sum(w, U))
      BY <1>3
    <2>2. T # U
      BY <1>5, <2>1
    <2> QED BY <2>1, <2>2
  <1>7. Sum(w, U) = w[y] + Sum(w, U \ {y}) /\ w[y] \in Nat
    BY <1>4, SumWithout
  <1>8. Sum(w, U \ {y}) \in Nat
    BY <1>4, FS_Subset, SumNat
  <1>9. Sum(w, T) <= Sum(w, U \ {y})
    BY <1>3, <1>6
  <1> QED BY <1>5, <1>7, <1>8, <1>9

\* Bytes is such a sum.
LEMMA BytesSum ==
    ASSUME NEW S, IsFiniteSet(S), NEW D, S \subseteq D
    PROVE  Bytes(S) = Sum([r \in D |-> r.bytes], S)
  <1> DEFINE w == [r \in D |-> r.bytes]
             B(f) == f = [s \in SUBSET S |->
                            IF s = {} THEN 0 ELSE Pick(s).bytes + f[s \ {Pick(s)}]]
  <1>1. Bytes(S) = (CHOOSE f : B(f))[S]
    BY DEF Bytes, MapThenSumSet, MapThenFoldSet, Pick
  <1>2. ASSUME NEW f PROVE B(f) <=> Sums(f, S, w)
    <2>1. \A s \in SUBSET S : s # {} => Pick(s) \in D
      BY Picked
    <2>2. \A s \in SUBSET S : s # {} => w[Pick(s)] = Pick(s).bytes
      BY <2>1
    <2> HIDE DEF w
    <2>3. [s \in SUBSET S |-> IF s = {} THEN 0 ELSE Pick(s).bytes + f[s \ {Pick(s)}]]
            = [s \in SUBSET S |-> IF s = {} THEN 0 ELSE w[Pick(s)] + f[s \ {Pick(s)}]]
      BY <2>2
    <2> QED BY <2>3 DEF Sums
  <1>3. \E f : B(f)
    BY <1>2, SumsExist
  <1> HIDE DEF w, B
  <1>4. Sums(CHOOSE f : B(f), S, w)
    BY <1>2, <1>3
  <1>5. (CHOOSE f : B(f))[S] = Sum(w, S)
    BY <1>4, SumIs
  <1> QED BY <1>1, <1>5 DEF w

\* And so is TotalBytes.
LEMMA TotalNat ==
    ASSUME IsFiniteSet(AllFiles), \A a \in AllFiles : a.file.run.bytes \in Nat
    PROVE  TotalBytes \in Nat
  <1> DEFINE w == [a \in AllFiles |-> a.file.run.bytes]
             B(f) == f = [s \in SUBSET AllFiles |->
                            IF s = {} THEN 0 ELSE Pick(s).file.run.bytes + f[s \ {Pick(s)}]]
  <1>1. TotalBytes = (CHOOSE f : B(f))[AllFiles]
    BY DEF TotalBytes, MapThenSumSet, MapThenFoldSet, Pick
  <1>2. ASSUME NEW f PROVE B(f) <=> Sums(f, AllFiles, w)
    <2>1. \A s \in SUBSET AllFiles : s # {} => w[Pick(s)] = Pick(s).file.run.bytes
      <3>1. \A s \in SUBSET AllFiles : s # {} => Pick(s) \in AllFiles
        BY Picked
      <3> QED BY <3>1
    <2> HIDE DEF w
    <2>2. [s \in SUBSET AllFiles |->
             IF s = {} THEN 0 ELSE Pick(s).file.run.bytes + f[s \ {Pick(s)}]]
            = [s \in SUBSET AllFiles |-> IF s = {} THEN 0 ELSE w[Pick(s)] + f[s \ {Pick(s)}]]
      BY <2>1
    <2> QED BY <2>2 DEF Sums
  <1>3. \A a \in AllFiles : w[a] \in Nat
    OBVIOUS
  <1>4. \E f : B(f)
    BY <1>2, SumsExist
  <1> HIDE DEF w, B
  <1>5. Sums(CHOOSE f : B(f), AllFiles, w)
    BY <1>2, <1>4
  <1>6. (CHOOSE f : B(f))[AllFiles] = Sum(w, AllFiles)
    BY <1>5, SumIs
  <1> QED BY <1>1, <1>3, <1>6, SumNat

-----------------------------------------------------------------------------
\* One entry per run.
OneEach(entries) == \A d, e \in entries : d.id = e.id => d = e

\* An entry in the index of a run on disk is that run, or a replaced one.
IndexInv ==
    \A p \in Projects :
        /\ OneEach(index[p])
        /\ \A e \in index[p] :
              e.id \in Ids(Runs(p)) => e.id \in stale[p] \/ e \in Runs(p)

\* The entries of a save are the project's runs, until it stops.
Saving == At("file") \/ At("prune") \/ At("trim")
EntriesInv ==
    Saving =>
        /\ op.run \in Run /\ puts \in 1..MaxPuts
        /\ OneEach(op.entries)
        /\ \A e \in op.entries : e.id \in stale[op.project] \/ e \in Runs(op.project)

\* Before the run's file is written: the index was repaired.
FileInv ==
    At("file") =>
        /\ Ids(index[op.project]) \subseteq Ids(Runs(op.project))
        /\ Ids(op.entries) = Ids(Runs(op.project)) \ {op.run.id}
        /\ op.pruned = {}
        /\ op.before = Ids(Runs(op.project))

\* Once it is: it stays, and what the save will answer is so.
StoredInv ==
    At("prune") \/ At("trim") =>
        /\ op.run \in Runs(op.project)
        /\ op.run \in op.entries
        /\ Ids(op.entries) = Ids(Runs(op.project))
        /\ op.pruned = op.before \ Ids(Runs(op.project))
        /\ Ids(Runs(op.project)) \subseteq op.before \cup {op.run.id}

IInv == TypeOK /\ IndexInv /\ EntriesInv /\ FileInv /\ StoredInv

USE ProjectsAssumption, BudgetAssumption

-----------------------------------------------------------------------------
(* What the operators of RunStore do to the runs on disk.                   *)

\* Removing a file removes the run with that id, and no other.
LEMMA UnlinkRuns ==
    ASSUME TypeOK, NEW p \in Projects, NEW id, Unlink(p, id)
    PROVE  /\ Runs(p)' = {r \in Runs(p) : r.id # id}
           /\ Ids(Runs(p)') = Ids(Runs(p)) \ {id}
           /\ stale'[p] = stale[p] \ {id}
           /\ \A q \in Projects \ {p} : Runs(q)' = Runs(q) /\ stale'[q] = stale[q]
  <1>1. /\ files'[p] = {f \in files[p] : f.run.id # id} /\ stale'[p] = stale[p] \ {id}
        /\ \A q \in Projects \ {p} : files'[q] = files[q] /\ stale'[q] = stale[q]
    BY DEF Unlink, TypeOK
  <1>2. Runs(p)' = {r \in Runs(p) : r.id # id}
    BY <1>1 DEF Runs
  <1>3. Ids(Runs(p)') = Ids(Runs(p)) \ {id}
    BY <1>2 DEF Ids
  <1> QED BY <1>1, <1>2, <1>3 DEF Runs

\* A folder holds one run per id.
LEMMA RunsTyped ==
    ASSUME TypeOK, NEW p \in Projects
    PROVE  /\ Runs(p) \subseteq Run /\ OneEach(Runs(p))
           /\ Ids(Runs(p)) \subseteq RunIds
  <1>1. files[p] \subseteq File /\ \A f, g \in files[p] : f.run.id = g.run.id => f = g
    BY DEF TypeOK
  <1>2. Runs(p) \subseteq Run /\ OneEach(Runs(p))
    BY <1>1 DEF Runs, File, OneEach
  <1> QED BY <1>2 DEF Ids, Run

\* The index, read and repaired, lists the runs on disk, each once.
LEMMA LoadedRuns ==
    ASSUME TypeOK, IndexInv, NEW p \in Projects
    PROVE  /\ Loaded(p) \subseteq Run /\ OneEach(Loaded(p))
           /\ Ids(Loaded(p)) = Ids(Runs(p))
           /\ \A e \in Loaded(p) : e.id \in stale[p] \/ e \in Runs(p)
           /\ \A r \in Runs(p) : r.id \in stale[p] \/ r \in Loaded(p)
  <1> DEFINE kept == {e \in index[p] : e.id \in Ids(Runs(p))}
             others == {r \in Runs(p) : r.id \notin Ids(kept)}
  <1>1. Loaded(p) = kept \cup others
    BY DEF Loaded
  <1>2. Runs(p) \subseteq Run /\ OneEach(Runs(p))
    BY RunsTyped
  <1>3. /\ kept \subseteq Run /\ OneEach(kept)
        /\ \A e \in kept : e.id \in stale[p] \/ e \in Runs(p)
    <2>1. /\ index[p] \subseteq Run /\ OneEach(index[p])
          /\ \A e \in index[p] : e.id \in Ids(Runs(p)) => e.id \in stale[p] \/ e \in Runs(p)
      BY DEF TypeOK, IndexInv
    <2> QED BY <2>1 DEF OneEach
  <1>4. ASSUME NEW e \in kept, NEW r \in others
        PROVE  e.id # r.id
    <2>1. e.id \in Ids(kept)
      BY DEF Ids
    <2> HIDE DEF kept
    <2>2. r.id \notin Ids(kept)
      OBVIOUS
    <2> QED BY <2>1, <2>2
  <1>5. Ids(kept) \subseteq Ids(Runs(p))
    BY DEF Ids
  <1>6. Ids(kept \cup others) = Ids(Runs(p))
    BY <1>5 DEF Ids
  <1>7. OneEach(kept \cup others)
    BY <1>2, <1>3, <1>4 DEF OneEach
  <1>8. ASSUME NEW r \in Runs(p), r \notin others
        PROVE  r.id \in stale[p] \/ r \in kept
    <2>1. PICK e \in kept : e.id = r.id
      BY <1>8 DEF Ids
    <2>2. e \in Runs(p) => e = r
      BY <1>2, <2>1 DEF OneEach
    <2> QED BY <1>3, <2>1, <2>2
  <1> HIDE DEF kept, others
  <1>9. others \subseteq Runs(p)
    BY DEF others
  <1> QED BY <1>1, <1>2, <1>3, <1>6, <1>7, <1>8, <1>9

\* A run's file replaces the one with its id, if there is one.
LEMMA WriteRuns ==
    ASSUME TypeOK, EntriesInv, WriteRun, NEW p \in Projects, p = op.project
    PROVE  /\ Runs(p)' = {r \in Runs(p) : r.id # op.run.id} \cup {op.run}
           /\ Ids(Runs(p)') = Ids(Runs(p)) \cup {op.run.id}
           /\ \A q \in Projects \ {p} : Runs(q)' = Runs(q) /\ stale'[q] = stale[q]
           /\ stale'[p] = IF op.run.id \in Ids(Runs(p)) THEN stale[p] \cup {op.run.id}
                          ELSE stale[p]
  <1> DEFINE others == {f \in files[p] : f.run.id # op.run.id}
  <1>1. op.run \in Run
    BY DEF WriteRun, At, EntriesInv, Saving
  <1>2. /\ files'[p] = others \cup {[run |-> op.run, time |-> puts]}
        /\ \A q \in Projects \ {p} : files'[q] = files[q] /\ stale'[q] = stale[q]
        /\ stale'[p] = IF others = files[p] THEN stale[p] ELSE stale[p] \cup {op.run.id}
    BY <1>1 DEF WriteRun, TypeOK
  <1>3. Runs(p)' = {f.run : f \in files'[p]}
    BY DEF Runs
  <1>4. Runs(p)' = {r \in Runs(p) : r.id # op.run.id} \cup {op.run}
    <2>1. Runs(p)' = {f.run : f \in others} \cup {op.run}
      <3> DEFINE new == [run |-> op.run, time |-> puts]
      <3>1. new.run = op.run /\ files'[p] = others \cup {new}
        BY <1>2
      <3> HIDE DEF new, others
      <3> QED BY <1>3, <3>1
    <2>2. {f.run : f \in others} = {r \in Runs(p) : r.id # op.run.id}
      BY DEF Runs
    <2> QED BY <2>1, <2>2
  <1>5. Ids(Runs(p)') = Ids(Runs(p)) \cup {op.run.id}
    BY <1>4 DEF Ids
  <1>6. (others = files[p]) <=> op.run.id \notin Ids(Runs(p))
    BY DEF Ids, Runs
  <1>7. \A q \in Projects \ {p} : Runs(q)' = Runs(q)
    BY <1>2 DEF Runs
  <1> QED BY <1>2, <1>4, <1>5, <1>6, <1>7

-----------------------------------------------------------------------------
(* What a step may do to the disk, and to the operation under way.          *)

\* op is an operation where one is under way.
LEMMA OpTyped ==
    ASSUME TypeOK
    PROVE  /\ op # None => op \in Operation
           /\ \A step : At(step) => op # None
  BY DEF TypeOK, At

LEMMA DiskSteps ==
    ASSUME TypeOK, [Next]_vars
    PROVE  \/ UNCHANGED <<files, stale, index>>
           \/ UNCHANGED <<files, stale>> /\ \E p \in Projects : Repair(p)
           \/ UNCHANGED <<files, stale>> /\ \E p \in Projects : index' = [index EXCEPT ![p] = {}]
           \/ UNCHANGED index /\ \E p \in Projects, id \in RunIds : Unlink(p, id)
           \/ WriteRun
           \/ WriteIndex
  <1>1. ASSUME NEW p \in Projects,
               \/ ListRuns(p) \/ \E r \in Run : SaveRun(p, r)
               \/ ClearRuns(p) \/ SaveProject(p) \/ RemoveProject(p) \/ ClearRemoved(p)
               \/ IndexLost(p)
        PROVE  \/ UNCHANGED <<files, stale, index>>
               \/ UNCHANGED <<files, stale>> /\ Repair(p)
               \/ UNCHANGED <<files, stale>> /\ index' = [index EXCEPT ![p] = {}]
    BY <1>1 DEF ListRuns, SaveRun, ClearRuns, SaveProject, RemoveProject, ClearRemoved, IndexLost
  <1>2. ASSUME NEW p \in Projects, NEW id \in RunIds, DeleteRun(p, id)
        PROVE  UNCHANGED index /\ Unlink(p, id)
    BY <1>2 DEF DeleteRun
  <1>3. CASE PruneRun
    <2>1. op \in Operation
      BY <1>3, OpTyped DEF PruneRun
    <2>2. PICK e \in Prunable : Unlink(op.project, e.id)
      BY <1>3 DEF PruneRun
    <2>3. op.project \in Projects /\ e.id \in RunIds
      BY <2>1 DEF Prunable, Operation, Run
    <2> QED BY <1>3, <2>2, <2>3 DEF PruneRun
  <1>4. CASE TrimRun
    <2>1. PICK a \in Trimmable : Unlink(a.project, a.file.run.id)
      BY <1>4 DEF TrimRun
    <2>2. a.project \in Projects /\ a.file \in File
      BY DEF Trimmable, AllFiles, TypeOK
    <2> QED BY <1>4, <2>1, <2>2 DEF TrimRun, File, Run
  <1>5. CASE RepairIndex \/ RunDeleted
    <2>1. UNCHANGED <<files, stale>> /\ \E p \in op.folders \cup {op.project} : Repair(p)
      BY <1>5 DEF RepairIndex, RunDeleted
    <2>2. op \in Operation
      BY <1>5, OpTyped DEF RepairIndex, RunDeleted
    <2>3. op.folders \cup {op.project} \subseteq Projects
      BY <2>2 DEF Operation
    <2> QED BY <2>1, <2>3
  <1>6. CASE RemoveFile
    <2>1. op \in Operation
      BY <1>6, OpTyped DEF RemoveFile
    <2>2. op.project \in Projects
      BY <2>1 DEF Operation
    <2>3. \A f \in files[op.project] : f.run.id \in RunIds
      BY <2>2 DEF TypeOK, File, Run
    <2> QED BY <1>6, <2>2, <2>3 DEF RemoveFile
  <1>7. CASE RunSaved \/ RunsCleared \/ OperationFails \/ Crash \/ UNCHANGED vars
    BY <1>7 DEF RunSaved, RunsCleared, OperationFails, Crash, vars
  <1> QED BY <1>1, <1>2, <1>3, <1>4, <1>5, <1>6, <1>7 DEF Next

\* The operation: one at a time, and only its own steps change it.
LEMMA OpSteps ==
    ASSUME [Next]_vars
    PROVE  \/ /\ UNCHANGED <<op, files, stale, puts>>
              /\ UNCHANGED index \/ \E p \in Projects : index' = [index EXCEPT ![p] = {}]
           \/ UNCHANGED op /\ (op = None \/ At("clear"))
           \/ op' = None
           \/ \E p \in Projects, r \in Run : SaveRun(p, r)
           \/ \E p \in Projects, step \in {"deleted", "clear"} : Begin(step, p, None, {})
           \/ WriteRun \/ PruneRun \/ WriteIndex \/ TrimRun \/ RepairIndex
  BY DEF Next, ListRuns, DeleteRun, ClearRuns, SaveProject, RemoveProject, ClearRemoved, IndexLost,
         RunSaved, RunDeleted, RemoveFile, RunsCleared, OperationFails, Crash, Return, vars

-----------------------------------------------------------------------------
LEMMA IInvInit == Init => IInv
  <1> SUFFICES ASSUME Init PROVE IInv
    OBVIOUS
  <1>1. TypeOK
    BY DEF Init, TypeOK
  <1>2. IndexInv
    BY DEF Init, IndexInv, OneEach
  <1>3. EntriesInv /\ FileInv /\ StoredInv
    BY DEF Init, EntriesInv, FileInv, StoredInv, Saving, At
  <1> QED BY <1>1, <1>2, <1>3 DEF IInv

LEMMA OpTypeStep ==
    ASSUME TypeOK, IndexInv, EntriesInv, [Next]_vars
    PROVE  op' \in Operation \cup {None}
  <1>1. CASE UNCHANGED op \/ op' = None
    BY <1>1 DEF TypeOK
  <1>2. ASSUME NEW p \in Projects, NEW r \in Run, SaveRun(p, r)
        PROVE  op' \in Operation
    <2>1. Loaded(p) \subseteq Run /\ Ids(Runs(p)) \subseteq RunIds
      BY LoadedRuns, RunsTyped
    <2>2. {e \in Loaded(p) : e.id # r.id} \subseteq Run
      BY <2>1
    <2> QED BY <1>2, <2>1, <2>2 DEF SaveRun, Begin, Operation
  <1>3. ASSUME NEW p \in Projects, NEW step \in {"deleted", "clear"}, Begin(step, p, None, {})
        PROVE  op' \in Operation
    <2>1. Ids(Runs(p)) \subseteq RunIds
      BY RunsTyped
    <2> QED BY <1>3, <2>1 DEF Begin, Operation
  <1>4. ASSUME op # None PROVE op \in Operation
    BY <1>4, OpTyped
  <1>5. CASE WriteRun
    <2>1. op.run \in Run
      BY <1>5 DEF WriteRun, At, EntriesInv, Saving
    <2> QED BY <1>4, <1>5, <2>1 DEF WriteRun, At, Operation
  <1>6. CASE PruneRun
    <2>1. PICK e \in Prunable : op' = [op EXCEPT !.entries = @ \ {e}, !.pruned = @ \cup {e.id}]
      BY <1>6 DEF PruneRun
    <2>2. op \in Operation
      BY <1>4, <1>6 DEF PruneRun, At
    <2>3. e.id \in RunIds
      BY <2>2 DEF Prunable, Operation, Run
    <2> QED BY <2>1, <2>2, <2>3 DEF Operation
  <1>7. CASE WriteIndex
    BY <1>4, <1>7 DEF WriteIndex, At, Operation, TypeOK
  <1>8. CASE TrimRun
    <2>1. PICK a \in Trimmable : op' = [Told(a) EXCEPT !.folders = @ \cup {a.project}]
      BY <1>8 DEF TrimRun
    <2>2. op \in Operation
      BY <1>4, <1>8 DEF TrimRun, At
    <2>3. a.project \in Projects /\ a.file.run.id \in RunIds
      BY DEF Trimmable, AllFiles, TypeOK, File, Run
    <2>4. Told(a) \in Operation
      BY <2>2, <2>3 DEF Told, Operation
    <2> QED BY <2>1, <2>3, <2>4 DEF Operation
  <1>9. CASE RepairIndex
    BY <1>4, <1>9 DEF RepairIndex, At, Operation
  <1> QED BY <1>1, <1>2, <1>3, <1>5, <1>6, <1>7, <1>8, <1>9, OpSteps

DiskOK ==
    /\ files \in [Projects -> SUBSET File]
    /\ \A p \in Projects : \A f, g \in files[p] : f.run.id = g.run.id => f = g
    /\ index \in [Projects -> SUBSET Run]
    /\ stale \in [Projects -> SUBSET RunIds]

LEMMA DiskTypeStep ==
    ASSUME TypeOK, IndexInv, EntriesInv, [Next]_vars
    PROVE  DiskOK'
  <1> DiskOK
    BY DEF DiskOK, TypeOK
  <1>1. CASE UNCHANGED <<files, stale, index>>
    BY <1>1 DEF DiskOK
  <1>2. ASSUME UNCHANGED <<files, stale>>, NEW p \in Projects,
               Repair(p) \/ index' = [index EXCEPT ![p] = {}]
        PROVE  DiskOK'
    <2>1. Loaded(p) \subseteq Run
      BY LoadedRuns
    <2>2. index' \in [Projects -> SUBSET Run]
      BY <1>2, <2>1 DEF Repair, DiskOK
    <2> QED BY <1>2, <2>2 DEF DiskOK
  <1>3. ASSUME UNCHANGED index, NEW p \in Projects, NEW id \in RunIds, Unlink(p, id)
        PROVE  DiskOK'
    <2>1. /\ files'[p] = {f \in files[p] : f.run.id # id}
          /\ \A q \in Projects \ {p} : files'[q] = files[q]
      BY <1>3 DEF Unlink, DiskOK
    <2>2. \A q \in Projects : files'[q] \subseteq files[q]
      BY <2>1
    <2>3. \A q \in Projects : \A f, g \in files'[q] : f.run.id = g.run.id => f = g
      BY <2>2 DEF DiskOK
    <2>4. files' \in [Projects -> SUBSET File] /\ stale' \in [Projects -> SUBSET RunIds]
      BY <1>3 DEF Unlink, DiskOK
    <2> QED BY <1>3, <2>3, <2>4 DEF DiskOK
  <1>4. CASE WriteRun
    <2> DEFINE p == op.project
               others == {f \in files[p] : f.run.id # op.run.id}
               new == [run |-> op.run, time |-> puts]
    <2>1. op.run \in Run /\ puts \in 1..MaxPuts /\ op \in Operation
      BY <1>4, OpTyped DEF WriteRun, At, EntriesInv, Saving
    <2>2. p \in Projects /\ new \in File /\ op.run.id \in RunIds /\ new.run = op.run
      BY <2>1 DEF Operation, File, Run
    <2>3. files' = [files EXCEPT ![p] = others \cup {new}]
      BY <1>4 DEF WriteRun
    <2>4. files' \in [Projects -> SUBSET File] /\ stale' \in [Projects -> SUBSET RunIds]
      BY <1>4, <2>2 DEF WriteRun, DiskOK
    <2>5. ASSUME NEW q \in Projects, NEW f \in files'[q], NEW g \in files'[q],
                 f.run.id = g.run.id
          PROVE  f = g
      <3>1. CASE q # p
        BY <2>2, <2>3, <2>5, <3>1 DEF DiskOK
      <3>2. CASE q = p
        <4>1. f \in others \cup {new} /\ g \in others \cup {new}
          BY <2>2, <2>3, <2>5, <3>2 DEF DiskOK
        <4>2. \A h \in others : h \in files[p] /\ h.run.id # new.run.id
          BY <2>2
        <4> HIDE DEF others, new
        <4> QED BY <2>2, <2>5, <4>1, <4>2 DEF DiskOK
      <3> QED BY <3>1, <3>2
    <2> QED BY <1>4, <2>4, <2>5 DEF DiskOK, WriteRun
  <1>5. CASE WriteIndex
    <2>1. op \in Operation
      BY <1>5, OpTyped DEF WriteIndex, At
    <2> QED BY <1>5, <2>1 DEF WriteIndex, Operation, DiskOK
  <1> QED BY <1>1, <1>2, <1>3, <1>4, <1>5, DiskSteps

LEMMA TypeStep ==
    ASSUME TypeOK, IndexInv, EntriesInv, [Next]_vars
    PROVE  TypeOK'
  <1>1. saved' \in SUBSET Projects /\ leaving' \in SUBSET Projects
    BY DEF TypeOK, Next, ListRuns, SaveRun, DeleteRun, ClearRuns, SaveProject, RemoveProject,
           ClearRemoved, IndexLost, WriteRun, PruneRun, WriteIndex, TrimRun, RepairIndex,
           RunSaved, RunDeleted, RemoveFile, RunsCleared, OperationFails, Crash, vars
  <1>2. puts' \in 0..MaxPuts
    <2>1. ASSUME NEW p \in Projects, NEW r \in Run, SaveRun(p, r)
          PROVE  puts' \in 0..MaxPuts
      BY <2>1 DEF SaveRun, TypeOK
    <2>2. ASSUME NEW p \in Projects,
                 \/ ListRuns(p) \/ \E id \in RunIds : DeleteRun(p, id)
                 \/ ClearRuns(p) \/ SaveProject(p) \/ RemoveProject(p) \/ ClearRemoved(p)
                 \/ IndexLost(p)
          PROVE  UNCHANGED puts
      BY <2>2 DEF ListRuns, DeleteRun, ClearRuns, SaveProject, RemoveProject, ClearRemoved,
                  IndexLost
    <2>3. ASSUME \/ WriteRun \/ PruneRun \/ WriteIndex \/ TrimRun \/ RepairIndex \/ RunSaved
                 \/ RunDeleted \/ RemoveFile \/ RunsCleared \/ OperationFails \/ Crash
                 \/ UNCHANGED vars
          PROVE  UNCHANGED puts
      BY <2>3 DEF WriteRun, PruneRun, WriteIndex, TrimRun, RepairIndex, RunSaved, RunDeleted,
                  RemoveFile, RunsCleared, OperationFails, Crash, vars
    <2> QED BY <2>1, <2>2, <2>3 DEF Next, TypeOK
  <1> QED BY <1>1, <1>2, DiskTypeStep, OpTypeStep DEF TypeOK, DiskOK

LEMMA IndexStep ==
    ASSUME TypeOK, IndexInv, EntriesInv, FileInv, StoredInv, [Next]_vars
    PROVE  IndexInv'
  <1> SUFFICES ASSUME NEW q \in Projects
               PROVE  /\ OneEach(index'[q])
                      /\ \A e \in index'[q] :
                            e.id \in Ids(Runs(q)') => e.id \in stale'[q] \/ e \in Runs(q)'
    BY DEF IndexInv, OneEach, Ids
  <1>1. /\ OneEach(index[q]) /\ index[q] \subseteq Run
        /\ \A e \in index[q] : e.id \in Ids(Runs(q)) => e.id \in stale[q] \/ e \in Runs(q)
    BY DEF IndexInv, TypeOK
  <1>2. CASE UNCHANGED <<files, stale, index>>
    BY <1>1, <1>2 DEF Runs
  <1>3. ASSUME UNCHANGED <<files, stale>>, NEW p \in Projects,
               Repair(p) \/ index' = [index EXCEPT ![p] = {}]
        PROVE  /\ OneEach(index'[q])
               /\ \A e \in index'[q] :
                     e.id \in Ids(Runs(q)') => e.id \in stale'[q] \/ e \in Runs(q)'
    <2>1. Runs(q)' = Runs(q) /\ stale'[q] = stale[q]
      BY <1>3 DEF Runs
    <2>2. index'[q] = index[q] \/ index'[q] = Loaded(q) \/ index'[q] = {}
      BY <1>3 DEF Repair, TypeOK
    <2>3. OneEach(Loaded(q)) /\ \A e \in Loaded(q) : e.id \in stale[q] \/ e \in Runs(q)
      BY LoadedRuns
    <2>4. OneEach({})
      BY DEF OneEach
    <2> QED BY <1>1, <2>1, <2>2, <2>3, <2>4
  <1>4. ASSUME UNCHANGED index, NEW p \in Projects, NEW id \in RunIds, Unlink(p, id)
        PROVE  /\ OneEach(index'[q])
               /\ \A e \in index'[q] :
                     e.id \in Ids(Runs(q)') => e.id \in stale'[q] \/ e \in Runs(q)'
    <2>1. CASE q = p
      <3>1. /\ Runs(q)' = {r \in Runs(q) : r.id # id} /\ Ids(Runs(q)') = Ids(Runs(q)) \ {id}
            /\ stale'[q] = stale[q] \ {id}
        BY <1>4, <2>1, UnlinkRuns
      <3> QED BY <1>1, <1>4, <3>1
    <2>2. CASE q # p
      <3>1. Runs(q)' = Runs(q) /\ stale'[q] = stale[q]
        BY <1>4, <2>2, UnlinkRuns
      <3> QED BY <1>1, <1>4, <3>1
    <2> QED BY <2>1, <2>2
  <1>5. CASE WriteRun
    <2>1. op \in Operation /\ At("file") /\ UNCHANGED index
      BY <1>5, OpTyped DEF WriteRun
    <2>2. op.project \in Projects
      BY <2>1 DEF Operation
    <2>3. CASE q = op.project
      <3>1. /\ Runs(q)' = {r \in Runs(q) : r.id # op.run.id} \cup {op.run}
            /\ Ids(Runs(q)') = Ids(Runs(q)) \cup {op.run.id}
            /\ stale'[q] = IF op.run.id \in Ids(Runs(q)) THEN stale[q] \cup {op.run.id}
                           ELSE stale[q]
        BY <1>5, <2>3, WriteRuns
      <3>2. \A e \in index[q] : e.id \in Ids(Runs(q))
        BY <2>1, <2>3 DEF FileInv, Ids
      <3> QED BY <1>1, <2>1, <3>1, <3>2
    <2>4. CASE q # op.project
      <3>1. Runs(q)' = Runs(q) /\ stale'[q] = stale[q]
        BY <1>5, <2>2, <2>4, WriteRuns
      <3> QED BY <1>1, <2>1, <3>1
    <2> QED BY <2>3, <2>4
  <1>6. CASE WriteIndex
    <2>1. op \in Operation /\ At("prune") /\ Saving /\ UNCHANGED files
      BY <1>6, OpTyped DEF WriteIndex, Saving
    <2>2. op.project \in Projects
      BY <2>1 DEF Operation
    <2>3. Runs(q)' = Runs(q)
      BY <2>1 DEF Runs
    <2>4. CASE q = op.project
      <3>1. index'[q] = op.entries /\ stale'[q] = stale[q] \ {op.run.id}
        BY <1>6, <2>4 DEF WriteIndex, TypeOK
      <3>2. op.run \in op.entries /\ op.run \in Runs(q)
        BY <2>1, <2>4 DEF StoredInv
      <3>3. OneEach(op.entries) /\ \A e \in op.entries : e.id \in stale[q] \/ e \in Runs(q)
        BY <2>1, <2>4 DEF EntriesInv
      <3>4. \A e \in op.entries : e.id = op.run.id => e = op.run
        BY <3>2, <3>3 DEF OneEach
      <3> QED BY <2>3, <3>1, <3>2, <3>3, <3>4
    <2>5. CASE q # op.project
      <3>1. index'[q] = index[q] /\ stale'[q] = stale[q]
        BY <1>6, <2>5 DEF WriteIndex, TypeOK
      <3> QED BY <1>1, <2>3, <3>1
    <2> QED BY <2>4, <2>5
  <1> QED BY <1>2, <1>3, <1>4, <1>5, <1>6, DiskSteps

-----------------------------------------------------------------------------
(* The save.  Its steps are the only ones that change its project's files;  *)
(* the index may be lost meanwhile, and projects come and go.               *)

\* A new save starts with the entries of the repaired index.
LEMMA BeginSave ==
    ASSUME TypeOK, IndexInv, NEW p \in Projects, NEW r \in Run, SaveRun(p, r)
    PROVE  EntriesInv' /\ FileInv' /\ StoredInv'
  <1>1. /\ op'.step = "file" /\ op'.project = p /\ op'.run = r
        /\ op'.entries = {e \in Loaded(p) : e.id # r.id}
        /\ op'.pruned = {} /\ op'.before = Ids(Runs(p))
    BY DEF SaveRun, Begin
  <1>2. /\ Runs(p)' = Runs(p) /\ stale' = stale /\ index'[p] = Loaded(p)
    BY DEF SaveRun, Repair, Runs, TypeOK
  <1>3. /\ OneEach(Loaded(p)) /\ Ids(Loaded(p)) = Ids(Runs(p))
        /\ \A e \in Loaded(p) : e.id \in stale[p] \/ e \in Runs(p)
    BY LoadedRuns
  <1>4. puts' \in 1..MaxPuts
    BY DEF SaveRun, TypeOK
  <1>5. OneEach(op'.entries) /\ \A e \in op'.entries : e.id \in stale[p] \/ e \in Runs(p)
    BY <1>1, <1>3 DEF OneEach
  <1>6. Ids(op'.entries) = Ids(Runs(p)) \ {r.id}
    BY <1>1, <1>3 DEF Ids
  <1>7. EntriesInv'
    BY <1>1, <1>2, <1>4, <1>5 DEF EntriesInv, OneEach
  <1>8. FileInv'
    BY <1>1, <1>2, <1>3, <1>6 DEF FileInv, Ids
  <1>9. StoredInv'
    BY <1>1 DEF StoredInv, At
  <1> QED BY <1>7, <1>8, <1>9

\* The run's file is written, and its entry added.
LEMMA WriteRunKeeps ==
    ASSUME TypeOK, EntriesInv, FileInv, WriteRun
    PROVE  EntriesInv' /\ FileInv' /\ StoredInv'
  <1> PICK p \in Projects : p = op.project
    BY OpTyped DEF WriteRun, Operation
  <1>1. /\ op.run \in Run /\ puts \in 1..MaxPuts /\ OneEach(op.entries)
        /\ \A e \in op.entries : e.id \in stale[p] \/ e \in Runs(p)
        /\ Ids(op.entries) = Ids(Runs(p)) \ {op.run.id}
        /\ op.pruned = {} /\ op.before = Ids(Runs(p))
    BY DEF WriteRun, EntriesInv, FileInv, Saving
  <1>2. /\ op'.step = "prune" /\ op'.project = p /\ op'.run = op.run
        /\ op'.entries = op.entries \cup {op.run}
        /\ op'.pruned = op.pruned /\ op'.before = op.before /\ puts' = puts
    BY OpTyped DEF WriteRun, Operation
  <1>3. /\ Runs(p)' = {r \in Runs(p) : r.id # op.run.id} \cup {op.run}
        /\ Ids(Runs(p)') = Ids(Runs(p)) \cup {op.run.id}
        /\ stale[p] \subseteq stale'[p]
    BY WriteRuns
  <1>4. \A e \in op.entries : e.id # op.run.id
    BY <1>1 DEF Ids
  <1>5. OneEach(op'.entries) /\ \A e \in op'.entries : e.id \in stale'[p] \/ e \in Runs(p)'
    BY <1>1, <1>2, <1>3, <1>4 DEF OneEach
  <1>6. Ids(op'.entries) = Ids(op.entries) \cup {op.run.id}
    BY <1>2 DEF Ids
  <1>7. EntriesInv'
    BY <1>1, <1>2, <1>5 DEF EntriesInv, OneEach
  <1>8. StoredInv'
    BY <1>1, <1>2, <1>3, <1>6 DEF StoredInv, Ids
  <1>9. FileInv'
    BY <1>2 DEF FileInv, At
  <1> QED BY <1>7, <1>8, <1>9

\* What a run of the save's project that is removed, but the new one, changes.
LEMMA RemoveKeeps ==
    ASSUME TypeOK, EntriesInv, StoredInv, At("prune") \/ At("trim"),
           NEW id \in RunIds \ {op.run.id}, Unlink(op.project, id),
           op'.step = op.step, op'.project = op.project, op'.run = op.run,
           op'.entries = {e \in op.entries : e.id # id}, op'.pruned = op.pruned \cup {id},
           op'.before = op.before, id \in Ids(Runs(op.project)), puts' = puts
    PROVE  EntriesInv' /\ FileInv' /\ StoredInv'
  <1> PICK p \in Projects : p = op.project
    BY OpTyped DEF Operation
  <1>1. /\ op.run \in Run /\ puts \in 1..MaxPuts /\ OneEach(op.entries)
        /\ \A e \in op.entries : e.id \in stale[p] \/ e \in Runs(p)
    BY DEF EntriesInv, Saving
  <1>2. /\ op.run \in Runs(p) /\ Ids(op.entries) = Ids(Runs(p))
        /\ op.pruned = op.before \ Ids(Runs(p)) /\ Ids(Runs(p)) \subseteq op.before \cup {op.run.id}
        /\ op.run \in op.entries
    BY DEF StoredInv
  <1>3. /\ Runs(p)' = {r \in Runs(p) : r.id # id} /\ Ids(Runs(p)') = Ids(Runs(p)) \ {id}
        /\ stale'[p] = stale[p] \ {id}
    BY UnlinkRuns
  <1>4. OneEach(op'.entries) /\ \A e \in op'.entries : e.id \in stale'[p] \/ e \in Runs(p)'
    BY <1>1, <1>3 DEF OneEach
  <1>5. Ids(op'.entries) = Ids(op.entries) \ {id}
    BY DEF Ids
  <1>6. EntriesInv'
    BY <1>1, <1>4 DEF EntriesInv, OneEach
  <1>7. op'.pruned = op'.before \ Ids(Runs(p)')
    BY <1>2, <1>3
  <1>8. /\ op'.run \in Runs(p)' /\ op'.run \in op'.entries
        /\ Ids(op'.entries) = Ids(Runs(p)') /\ Ids(Runs(p)') \subseteq op'.before \cup {op'.run.id}
    BY <1>2, <1>3, <1>5
  <1>9. StoredInv'
    BY <1>7, <1>8 DEF StoredInv, At, Ids
  <1>10. FileInv'
    BY DEF FileInv, At
  <1> QED BY <1>6, <1>9, <1>10

LEMMA PruneRunKeeps ==
    ASSUME TypeOK, IndexInv, EntriesInv, StoredInv, PruneRun
    PROVE  EntriesInv' /\ FileInv' /\ StoredInv'
  <1>1. op \in Operation /\ At("prune")
    BY OpTyped DEF PruneRun
  <1>2. PICK e \in Prunable :
            /\ Unlink(op.project, e.id)
            /\ op' = [op EXCEPT !.entries = @ \ {e}, !.pruned = @ \cup {e.id}]
    BY DEF PruneRun
  <1>3. /\ OneEach(op.entries) /\ op.entries \subseteq Run
        /\ op.run \in op.entries /\ Ids(op.entries) = Ids(Runs(op.project))
    BY <1>1 DEF EntriesInv, StoredInv, Saving, Operation
  <1>4. e \in op.entries /\ e # op.run /\ e.id \in RunIds
    BY <1>3 DEF Prunable, Run
  <1>5. e.id # op.run.id /\ \A d \in op.entries : d.id = e.id => d = e
    BY <1>3, <1>4 DEF OneEach
  <1>6. op.entries \ {e} = {d \in op.entries : d.id # e.id}
    BY <1>4, <1>5
  <1>7. e.id \in Ids(Runs(op.project))
    BY <1>3, <1>4 DEF Ids
  <1>8. /\ op'.step = op.step /\ op'.project = op.project /\ op'.run = op.run
        /\ op'.entries = op.entries \ {e} /\ op'.pruned = op.pruned \cup {e.id}
        /\ op'.before = op.before
    BY <1>1, <1>2 DEF Operation
  <1>9. puts' = puts
    BY DEF PruneRun
  <1> QED BY <1>1, <1>2, <1>4, <1>5, <1>6, <1>7, <1>8, <1>9, RemoveKeeps

\* Nothing of the project's runs is removed.
LEMMA StayKeeps ==
    ASSUME TypeOK, EntriesInv, StoredInv, At("prune") \/ At("trim"),
           op'.step \in {op.step, "trim"}, op'.project = op.project, op'.run = op.run,
           op'.entries = op.entries, op'.pruned = op.pruned, op'.before = op.before,
           NEW p \in Projects, p = op.project, Runs(p)' = Runs(p), puts' = puts,
           stale[p] \subseteq stale'[p] \cup {op.run.id}
    PROVE  EntriesInv' /\ FileInv' /\ StoredInv'
  <1>1. /\ op.run \in Run /\ puts \in 1..MaxPuts /\ OneEach(op.entries)
        /\ \A e \in op.entries : e.id \in stale[p] \/ e \in Runs(p)
    BY DEF EntriesInv, Saving
  <1>2. /\ op.run \in Runs(p) /\ Ids(op.entries) = Ids(Runs(p)) /\ op.run \in op.entries
        /\ op.pruned = op.before \ Ids(Runs(p)) /\ Ids(Runs(p)) \subseteq op.before \cup {op.run.id}
    BY DEF StoredInv
  <1>3. \A e \in op.entries : e.id \in stale'[p] \/ e \in Runs(p)
    <2>1. \A e \in op.entries : e.id = op.run.id => e = op.run
      BY <1>1, <1>2 DEF OneEach
    <2> QED BY <1>1, <1>2, <2>1
  <1>4. EntriesInv'
    BY <1>1, <1>3 DEF EntriesInv, OneEach
  <1>5. StoredInv'
    BY <1>2 DEF StoredInv, Ids
  <1>6. FileInv'
    BY DEF FileInv, At
  <1> QED BY <1>4, <1>5, <1>6

LEMMA WriteIndexKeeps ==
    ASSUME TypeOK, EntriesInv, StoredInv, WriteIndex
    PROVE  EntriesInv' /\ FileInv' /\ StoredInv'
  <1>1. op \in Operation /\ At("prune")
    BY OpTyped DEF WriteIndex
  <1> PICK p \in Projects : p = op.project
    BY <1>1 DEF Operation
  <1>2. /\ op'.step = "trim" /\ op'.project = op.project /\ op'.run = op.run
        /\ op'.entries = op.entries /\ op'.pruned = op.pruned /\ op'.before = op.before
    BY <1>1 DEF WriteIndex, Operation
  <1>3. Runs(p)' = Runs(p) /\ puts' = puts
    BY DEF WriteIndex, Runs
  <1>4. stale[p] \subseteq stale'[p] \cup {op.run.id}
    BY DEF WriteIndex, TypeOK
  <1> QED BY <1>1, <1>2, <1>3, <1>4, StayKeeps

\* A run of any project goes: the caller is told of it if it is the save's.
LEMMA TrimRunKeeps ==
    ASSUME TypeOK, EntriesInv, StoredInv, TrimRun
    PROVE  EntriesInv' /\ FileInv' /\ StoredInv'
  <1>1. op \in Operation /\ At("trim") /\ puts' = puts
    BY OpTyped DEF TrimRun
  <1>2. PICK a \in Trimmable :
            /\ Unlink(a.project, a.file.run.id)
            /\ op' = [Told(a) EXCEPT !.folders = @ \cup {a.project}]
    BY DEF TrimRun
  <1> DEFINE id == a.file.run.id
  <1>3. /\ a.project \in Projects /\ a.file \in files[a.project] /\ id \in RunIds
        /\ ~(a.project = op.project /\ id = op.run.id)
    BY DEF Trimmable, AllFiles, TypeOK, File, Run
  <1>4. id \in Ids(Runs(a.project))
    BY <1>3 DEF Ids, Runs
  <1>5. CASE a.project = op.project
    <2>1. Told(a) = [op EXCEPT !.entries = {e \in @ : e.id # id}, !.pruned = @ \cup {id}]
      BY <1>5 DEF Told
    <2>2. id \in RunIds \ {op.run.id} /\ Unlink(op.project, id)
      BY <1>2, <1>3, <1>5
    <2> HIDE DEF id
    <2>3. op' = [[op EXCEPT !.entries = {e \in @ : e.id # id}, !.pruned = @ \cup {id}]
                    EXCEPT !.folders = @ \cup {op.project}]
      BY <1>2, <1>5, <2>1
    <2>4. /\ op'.step = op.step /\ op'.project = op.project
          /\ op'.run = op.run /\ op'.entries = {e \in op.entries : e.id # id}
          /\ op'.pruned = op.pruned \cup {id} /\ op'.before = op.before
      BY <1>1, <2>3 DEF Operation
    <2> QED BY <1>1, <1>4, <1>5, <2>2, <2>4, RemoveKeeps
  <1>6. CASE a.project # op.project
    <2> PICK p \in Projects : p = op.project
      BY <1>1 DEF Operation
    <2>1. /\ op'.step = op.step /\ op'.project = op.project /\ op'.run = op.run
          /\ op'.entries = op.entries /\ op'.pruned = op.pruned /\ op'.before = op.before
      BY <1>1, <1>2, <1>6 DEF Told, Operation
    <2>2. Runs(p)' = Runs(p) /\ stale'[p] = stale[p]
      BY <1>2, <1>3, <1>6, UnlinkRuns
    <2> QED BY <1>1, <2>1, <2>2, StayKeeps
  <1> QED BY <1>5, <1>6

LEMMA SaveStep ==
    ASSUME IInv, [Next]_vars
    PROVE  EntriesInv' /\ FileInv' /\ StoredInv'
  <1> TypeOK /\ IndexInv /\ EntriesInv /\ FileInv /\ StoredInv
    BY DEF IInv
  <1>1. CASE /\ UNCHANGED <<op, files, stale, puts>>
             /\ UNCHANGED index \/ \E p \in Projects : index' = [index EXCEPT ![p] = {}]
    <2>1. \A p \in Projects : Runs(p)' = Runs(p) /\ Ids(index'[p]) \subseteq Ids(index[p])
      BY <1>1 DEF Runs, TypeOK, Ids
    <2>2. op # None => op.project \in Projects
      BY OpTyped DEF Operation
    <2>3. EntriesInv'
      BY <1>1, <2>1, <2>2, OpTyped DEF EntriesInv, Saving, At
    <2>4. FileInv'
      BY <1>1, <2>1, <2>2 DEF FileInv, At, Ids
    <2>5. StoredInv'
      BY <1>1, <2>1, <2>2 DEF StoredInv, At, Ids
    <2> QED BY <2>3, <2>4, <2>5
  <1>2. CASE UNCHANGED op /\ (op = None \/ At("clear"))
    BY <1>2 DEF EntriesInv, FileInv, StoredInv, Saving, At
  <1>3. CASE op' = None
    BY <1>3 DEF EntriesInv, FileInv, StoredInv, Saving, At
  <1>4. ASSUME NEW p \in Projects, NEW step \in {"deleted", "clear"}, Begin(step, p, None, {})
        PROVE  EntriesInv' /\ FileInv' /\ StoredInv'
    <2>1. op'.step = step
      BY <1>4 DEF Begin
    <2> QED BY <2>1 DEF EntriesInv, FileInv, StoredInv, Saving, At
  <1>5. CASE RepairIndex
    <2>1. op \in Operation /\ At("trim")
      BY <1>5, OpTyped DEF RepairIndex
    <2> PICK p \in Projects : p = op.project
      BY <2>1 DEF Operation
    <2>2. /\ op'.step = op.step /\ op'.project = op.project /\ op'.run = op.run
          /\ op'.entries = op.entries /\ op'.pruned = op.pruned /\ op'.before = op.before
      BY <1>5, <2>1 DEF RepairIndex, Operation
    <2>3. Runs(p)' = Runs(p) /\ stale' = stale /\ puts' = puts
      BY <1>5 DEF RepairIndex, Runs
    <2> QED BY <2>1, <2>2, <2>3, StayKeeps
  <1> QED BY <1>1, <1>2, <1>3, <1>4, <1>5, BeginSave, WriteRunKeeps, PruneRunKeeps,
             WriteIndexKeeps, TrimRunKeeps, OpSteps

-----------------------------------------------------------------------------
LEMMA IInvStep == IInv /\ [Next]_vars => IInv'
  BY TypeStep, IndexStep, SaveStep DEF IInv

\* The invariant of the stored runs, which all that follows rests on.
LEMMA Invariance == Spec => []IInv
  BY IInvInit, IInvStep, PTL DEF Spec

\* Every variable keeps its type, and a folder never holds two files of one run.
THEOREM RunStoreTypes == Spec => []TypeOK
  <1>1. IInv => TypeOK
    BY DEF IInv
  <1> QED BY <1>1, Invariance, PTL

\* Wherever an operation stops, whatever fails and whenever the process dies, a
\* project's list shows exactly the runs on disk, each once and as its file holds
\* it; but for a run whose replacement stopped before the index was written.
THEOREM RunStoreIndex == Spec => []IndexTrue
  <1>1. IInv => IndexTrue
    <2>1. ASSUME IInv, NEW p \in Projects
          PROVE  /\ \A r \in Runs(p) : r.id \in stale[p] \/ r \in Loaded(p)
                 /\ \A e \in Loaded(p) :
                       /\ e.id \in stale[p] \/ e \in Runs(p)
                       /\ \A d \in Loaded(p) : d.id = e.id => d = e
      BY <2>1, LoadedRuns DEF IInv, OneEach
    <2> QED BY <2>1 DEF IndexTrue
  <1> QED BY <1>1, Invariance, PTL

\* What a save answers is so: its run is stored, the runs it lists are those on
\* disk, and the runs it names as deleted are exactly those of the project that
\* are gone since it began.
THEOREM RunStoreAnswers == Spec => SaveAnswersTruly
  <1>1. IInv /\ RunSaved =>
          LET p == op.project
          IN  /\ op.run \in Runs(p)
              /\ Ids(op.entries) = Ids(Runs(p))
              /\ op.pruned = op.before \ Ids(Runs(p))
    BY DEF IInv, StoredInv, RunSaved
  <1>2. IInv => [RunSaved =>
          LET p == op.project
          IN  /\ op.run \in Runs(p)
              /\ Ids(op.entries) = Ids(Runs(p))
              /\ op.pruned = op.before \ Ids(Runs(p))]_vars
    BY <1>1
  <1> QED BY <1>2, Invariance, PTL DEF SaveAnswersTruly

\* There are finitely many runs, so those of all projects can be added up.
LEMMA RunsFinite == IsFiniteSet(Run) /\ IsFiniteSet(File)
  <1> DEFINE Triples == (RunIds \X Starts) \X Sizes
             run == [t \in Triples |-> [id |-> t[1][1], start |-> t[1][2], bytes |-> t[2]]]
             file == [t \in Run \X (1..MaxPuts) |-> [run |-> t[1], time |-> t[2]]]
  <1>1. IsFiniteSet(Triples)
    BY FS_Product
  <1>2. Run \subseteq {run[t] : t \in Triples}
    <2>1. ASSUME NEW r \in Run PROVE \E t \in Triples : r = run[t]
      <3>1. <<<<r.id, r.start>>, r.bytes>> \in Triples
        BY DEF Run
      <3>2. r = [id |-> r.id, start |-> r.start, bytes |-> r.bytes]
        BY DEF Run
      <3> QED BY <3>1, <3>2
    <2> QED BY <2>1
  <1>3. IsFiniteSet({run[t] : t \in Triples})
    <2>1. run \in Surjection(Triples, {run[t] : t \in Triples})
      BY DEF Surjection
    <2> HIDE DEF run, Triples
    <2> QED BY <1>1, <2>1, FS_Surjection
  <1>4. IsFiniteSet(Run)
    BY <1>2, <1>3, FS_Subset
  <1>5. IsFiniteSet(Run \X (1..MaxPuts))
    <2>1. IsFiniteSet(1..MaxPuts)
      BY FS_Interval
    <2> QED BY <1>4, <2>1, FS_Product
  <1>6. File \subseteq {file[t] : t \in Run \X (1..MaxPuts)}
    <2>1. ASSUME NEW f \in File PROVE \E t \in Run \X (1..MaxPuts) : f = file[t]
      <3>1. <<f.run, f.time>> \in Run \X (1..MaxPuts)
        BY DEF File
      <3>2. f = [run |-> f.run, time |-> f.time]
        BY DEF File
      <3> QED BY <3>1, <3>2
    <2> QED BY <2>1
  <1>7. IsFiniteSet({file[t] : t \in Run \X (1..MaxPuts)})
    <2>1. file \in Surjection(Run \X (1..MaxPuts), {file[t] : t \in Run \X (1..MaxPuts)})
      BY DEF Surjection
    <2> HIDE DEF file
    <2> QED BY <1>5, <2>1, FS_Surjection
  <1>8. IsFiniteSet(File)
    BY <1>6, <1>7, FS_Subset
  <1> QED BY <1>4, <1>8

LEMMA TotalTyped ==
    ASSUME TypeOK
    PROVE  TotalBytes \in Nat
  <1> DEFINE Of(p) == {[project |-> p, file |-> f] : f \in files[p]}
  <1>1. ASSUME NEW p \in Projects PROVE IsFiniteSet(Of(p))
    <2> DEFINE in == [f \in files[p] |-> [project |-> p, file |-> f]]
    <2>1. IsFiniteSet(files[p])
      BY RunsFinite, FS_Subset DEF TypeOK
    <2>2. in \in Surjection(files[p], Of(p))
      BY DEF Surjection
    <2> HIDE DEF in, Of
    <2> QED BY <2>1, <2>2, FS_Surjection
  <1>2. IsFiniteSet({Of(p) : p \in Projects})
    <2> DEFINE of == [p \in Projects |-> Of(p)]
    <2>1. of \in Surjection(Projects, {Of(p) : p \in Projects})
      BY DEF Surjection
    <2> HIDE DEF of, Of
    <2> QED BY <2>1, FS_Surjection
  <1>3. AllFiles = UNION {Of(p) : p \in Projects}
    BY DEF AllFiles
  <1>4. IsFiniteSet(AllFiles)
    <2> HIDE DEF Of
    <2>1. \A T \in {Of(p) : p \in Projects} : IsFiniteSet(T)
      BY <1>1
    <2> QED BY <1>2, <1>3, <2>1, FS_UNION
  <1>5. ASSUME NEW a \in AllFiles PROVE a.file.run.bytes \in Nat
    <2>1. PICK p \in Projects : \E f \in files[p] : a = [project |-> p, file |-> f]
      BY DEF AllFiles
    <2>2. a.file \in File
      BY <2>1 DEF TypeOK
    <2>3. a.file.run \in Run
      BY <2>2 DEF File
    <2> QED BY <2>3 DEF Run
  <1> QED BY <1>4, <1>5, TotalNat

\* Fewer runs take no more bytes.
LEMMA FewerBytes ==
    ASSUME NEW S \in SUBSET Run, NEW T \in SUBSET S
    PROVE  Bytes(T) <= Bytes(S) /\ Bytes(T) \in Nat /\ Bytes(S) \in Nat
  <1> DEFINE w == [r \in Run |-> r.bytes]
  <1>1. IsFiniteSet(S) /\ IsFiniteSet(T)
    BY RunsFinite, FS_Subset
  <1>2. \A r \in S : w[r] \in Nat
    BY DEF Run
  <1>3. Bytes(S) = Sum(w, S) /\ Bytes(T) = Sum(w, T)
    BY <1>1, BytesSum
  <1> HIDE DEF w
  <1> QED BY <1>1, <1>2, <1>3, SumOfPart, SumNat

-----------------------------------------------------------------------------
(* The budgets.                                                             *)

\* From the write of the index on, the save's runs fit the project's budget.
BudgetInv ==
    At("trim") => Bytes(op.entries) <= BUDGET_BYTES \/ op.entries = {op.run}

\* What the trim takes from the entries leaves them within the budget.
LEMMA FewerFit ==
    ASSUME TypeOK, BudgetInv, At("trim"), op'.run = op.run,
           op'.entries \subseteq op.entries, op.run \in op'.entries
    PROVE  BudgetInv'
  <1>1. op.entries \in SUBSET Run
    BY OpTyped DEF Operation
  <1>2. Bytes(op'.entries) <= Bytes(op.entries)
        /\ Bytes(op'.entries) \in Nat /\ Bytes(op.entries) \in Nat
    BY <1>1, FewerBytes
  <1>3. CASE Bytes(op.entries) <= BUDGET_BYTES
    <2>1. Bytes(op'.entries) <= BUDGET_BYTES
      BY <1>2, <1>3
    <2> QED BY <2>1 DEF BudgetInv
  <1>4. CASE op.entries = {op.run}
    <2>1. op'.entries = {op'.run}
      BY <1>4
    <2> QED BY <2>1 DEF BudgetInv
  <1> QED BY <1>3, <1>4 DEF BudgetInv

LEMMA BudgetStep ==
    ASSUME IInv, IInv', BudgetInv, [Next]_vars
    PROVE  BudgetInv'
  <1> TypeOK /\ StoredInv /\ StoredInv'
    BY DEF IInv
  <1>1. CASE op' = op
    BY <1>1 DEF BudgetInv, At
  <1>2. CASE op' = None
    BY <1>2 DEF BudgetInv, At
  <1>3. ASSUME NEW p \in Projects, NEW r \in Run, SaveRun(p, r)
        PROVE  BudgetInv'
    <2>1. op'.step = "file"
      BY <1>3 DEF SaveRun, Begin
    <2> QED BY <2>1 DEF BudgetInv, At
  <1>4. ASSUME NEW p \in Projects, NEW step \in {"deleted", "clear"}, Begin(step, p, None, {})
        PROVE  BudgetInv'
    <2>1. op'.step = step
      BY <1>4 DEF Begin
    <2> QED BY <2>1 DEF BudgetInv, At
  <1>5. CASE WriteRun \/ PruneRun
    <2>1. op \in Operation /\ op'.step = "prune"
      BY <1>5, OpTyped DEF WriteRun, PruneRun, At, Operation
    <2> QED BY <2>1 DEF BudgetInv, At
  <1>6. CASE WriteIndex
    <2>1. op \in Operation /\ At("prune") /\ ~OverBudget
      BY <1>6, OpTyped DEF WriteIndex
    <2>2. op'.entries = op.entries /\ op'.run = op.run
      BY <1>6, <2>1 DEF WriteIndex, Operation
    <2>3. op.run \in op.entries /\ op.entries \in SUBSET Run
      BY <2>1 DEF StoredInv, Operation
    <2>4. Bytes(op.entries) \in Nat
      BY <2>3, FewerBytes
    <2>5. Bytes(op.entries) <= BUDGET_BYTES \/ op.entries = {op.run}
      <3>1. Bytes(op.entries) <= BUDGET_BYTES \/ ~(Bytes(op.entries) > BUDGET_BYTES)
               => Bytes(op.entries) <= BUDGET_BYTES
        BY <2>4
      <3>2. Prunable = {} => op.entries = {op.run}
        BY <2>3 DEF Prunable
      <3>3. ~(Bytes(op.entries) > BUDGET_BYTES) \/ Prunable = {}
        BY <2>1 DEF OverBudget
      <3> QED BY <3>1, <3>2, <3>3
    <2> QED BY <2>2, <2>5 DEF BudgetInv
  <1>7. CASE TrimRun
    <2>1. op \in Operation /\ At("trim")
      BY <1>7, OpTyped DEF TrimRun
    <2>2. PICK a \in Trimmable : op' = [Told(a) EXCEPT !.folders = @ \cup {a.project}]
      BY <1>7 DEF TrimRun
    <2>3. /\ Told(a) \in Operation
          /\ Told(a).step = op.step /\ Told(a).run = op.run
          /\ Told(a).entries \subseteq op.entries
      <3> DEFINE id == a.file.run.id
      <3>1. id \in RunIds
        <4>1. a.project \in Projects /\ a.file \in files[a.project]
          BY DEF Trimmable, AllFiles
        <4>2. a.file \in File
          BY <4>1 DEF TypeOK
        <4> QED BY <4>2 DEF File, Run
      <3>2. CASE a.project = op.project
        <4>1. Told(a) = [op EXCEPT !.entries = {e \in @ : e.id # id}, !.pruned = @ \cup {id}]
          BY <3>2 DEF Told
        <4>2. Told(a) \in Operation
          BY <2>1, <3>1, <3>2 DEF Told, Operation
        <4>3. Told(a).step = op.step /\ Told(a).run = op.run
          BY <2>1, <4>1 DEF Operation
        <4>4. Told(a).entries = {e \in op.entries : e.id # id}
          BY <2>1, <4>1 DEF Operation
        <4> QED BY <4>2, <4>3, <4>4
      <3>3. CASE a.project # op.project
        BY <2>1, <3>3 DEF Told
      <3> QED BY <3>2, <3>3
    <2>4. op'.step = op.step /\ op'.run = op.run /\ op'.entries \subseteq op.entries
      BY <2>2, <2>3 DEF Operation
    <2>5. At("trim")' \/ op' = None
      BY <2>1, <2>4 DEF At
    <2>6. CASE At("trim")'
      <3>1. op.run \in op'.entries
        BY <2>4, <2>6 DEF StoredInv
      <3> QED BY <2>1, <2>4, <3>1, FewerFit
    <2> QED BY <2>5, <2>6, <1>2
  <1>8. CASE RepairIndex
    <2>1. op \in Operation /\ At("trim")
      BY <1>8, OpTyped DEF RepairIndex
    <2>2. op'.run = op.run /\ op'.entries = op.entries
      BY <1>8, <2>1 DEF RepairIndex, Operation
    <2>3. op.run \in op'.entries
      BY <2>1, <2>2 DEF StoredInv
    <2> QED BY <2>1, <2>2, <2>3, FewerFit
  <1> QED BY <1>1, <1>2, <1>3, <1>4, <1>5, <1>6, <1>7, <1>8, OpSteps

LEMMA BudgetInvariance == Spec => []BudgetInv
  <1>1. Init => BudgetInv
    BY DEF Init, BudgetInv, At
  <1>2. IInv /\ IInv' /\ BudgetInv /\ [Next]_vars => BudgetInv'
    BY BudgetStep
  <1> QED BY <1>1, <1>2, Invariance, PTL DEF Spec

\* When a save returns, its project's runs fit their budget or the new one alone
\* is left, unless a replaced run's entry tells a size that is no longer true; and
\* all projects' runs fit theirs, or nothing but the new run is left.
THEOREM RunStoreBudgets == Spec => BudgetsKept
  <1>1. ASSUME IInv, BudgetInv, RunSaved
        PROVE  /\ \/ Bytes(Runs(op.project)) <= BUDGET_BYTES
                  \/ Runs(op.project) = {op.run}
                  \/ stale[op.project] # {}
               /\ TotalBytes <= TOTAL_BUDGET_BYTES \/ Trimmable = {}
    <2>1. /\ TypeOK /\ At("trim") /\ ~OverTotal /\ op \in Operation
          /\ EntriesInv /\ StoredInv
      BY <1>1, OpTyped DEF IInv, RunSaved
    <2> PICK p \in Projects : p = op.project
      BY <2>1 DEF Operation
    <2>2. ASSUME stale[p] = {} PROVE Runs(p) = op.entries
      <3>1. op.entries \subseteq Runs(p) /\ Ids(op.entries) = Ids(Runs(p))
        BY <2>1, <2>2 DEF EntriesInv, StoredInv, Saving
      <3>2. OneEach(Runs(p))
        BY <2>1, RunsTyped
      <3>3. ASSUME NEW r \in Runs(p) PROVE r \in op.entries
        <4>1. PICK e \in op.entries : e.id = r.id
          BY <3>1 DEF Ids
        <4> QED BY <3>1, <3>2, <4>1 DEF OneEach
      <3> QED BY <3>1, <3>3
    <2>3. Bytes(op.entries) <= BUDGET_BYTES \/ op.entries = {op.run}
      BY <1>1, <2>1 DEF BudgetInv
    <2>4. TotalBytes <= TOTAL_BUDGET_BYTES \/ Trimmable = {}
      <3>1. TotalBytes \in Nat
        BY <2>1, TotalTyped
      <3>2. ~(TotalBytes > TOTAL_BUDGET_BYTES) \/ Trimmable = {}
        BY <2>1 DEF OverTotal
      <3> QED BY <3>1, <3>2
    <2> QED BY <2>2, <2>3, <2>4
  <1>2. IInv /\ BudgetInv =>
          [RunSaved =>
             /\ \/ Bytes(Runs(op.project)) <= BUDGET_BYTES
                \/ Runs(op.project) = {op.run}
                \/ stale[op.project] # {}
             /\ TotalBytes <= TOTAL_BUDGET_BYTES \/ Trimmable = {}]_vars
    BY <1>1
  <1> QED BY <1>2, Invariance, BudgetInvariance, PTL DEF BudgetsKept
=============================================================================
