------------------------------ MODULE Thinning ------------------------------
(***************************************************************************)
(* What the charts draw of long series (chartUtils.ts, used by the Results *)
(* panel for the time and X-Y charts and by the mini charts): series on    *)
(* one time grid are thinned together, to the samples where any of them is *)
(* lowest or highest in its bucket, with wider and wider buckets until no  *)
(* more than a limit are left.  The model starts from every set of short   *)
(* series, with a limit as small.                                          *)
(***************************************************************************)
EXTENDS Integers, Sequences, FiniteSets, FiniteSetsExt

CONSTANTS
  Null,       (* The value of a sample that has none.                     *)
  Levels,     (* Values of samples.                                       *)
  MaxLength,  (* Bound: samples of a single series; half of it for two.   *)
  MaxLimit    (* Bound: limits, MAX_PLOT_POINTS in the code.              *)

ASSUME ThinningAssumption ==
    Levels \subseteq Int /\ Null \notin Levels /\ {MaxLength, MaxLimit} \subseteq Nat

VARIABLES
  series,   \* the series, sample i of each at the same time
  limit,    \* max
  buckets,  \* how many the next pick makes, 0 when none is needed
  drawn     \* the samples to draw, {} until they are known

thinVars == <<series, limit, buckets, drawn>>

Samples == 0..(Min({Len(s) : s \in series}) - 1)
Value(s, i) == s[i + 1]

MutantBucket(b) ==
    (b * Cardinality(Samples)) \div buckets
        .. ((b + 1) * Cardinality(Samples)) \div buckets - 2
Bucket(b) ==
    (b * Cardinality(Samples)) \div buckets
        .. ((b + 1) * Cardinality(Samples)) \div buckets - 1

\* The first of the lowest, and of the highest, samples among some.
Extremes(s, among) ==
    LET valued == {i \in among : Value(s, i) # Null}
        lows == {i \in valued : \A j \in valued : Value(s, i) <= Value(s, j)}
        highs == {i \in valued : \A j \in valued : Value(s, i) >= Value(s, j)}
    IN IF valued = {} THEN {} ELSE {Min(lows), Min(highs)}

pick ==
    {0, Cardinality(Samples) - 1}
        \cup UNION {Extremes(s, Bucket(b)) : s \in series, b \in 0..(buckets - 1)}

ThinInit ==
    /\ series \in {{s} : s \in UNION {[1..n -> Levels \cup {Null}] : n \in 1..MaxLength}}
             \cup {{s, t} : s, t \in UNION {[1..n -> Levels \cup {Null}] :
                                                  n \in 1..(MaxLength \div 2)}}
    /\ limit \in 1..MaxLimit
    /\ IF Cardinality(Samples) <= limit THEN buckets = 0 /\ drawn = Samples
       ELSE buckets = Max({1, limit \div 2}) /\ drawn = {}

\* Enough thinned, or with the widest bucket, is drawn; else fewer buckets.
Draw ==
    /\ drawn = {} /\ buckets > 0
    /\ Cardinality(pick) <= limit \/ buckets = 1
    /\ drawn' = pick
    /\ UNCHANGED <<series, limit, buckets>>

Widen ==
    /\ drawn = {} /\ Cardinality(pick) > limit /\ buckets > 1
    /\ buckets' = Max({1, Min({buckets - 1, (buckets * limit) \div Cardinality(pick)})})
    /\ UNCHANGED <<series, limit, drawn>>

ThinNext == Draw \/ Widen

ThinSpec == ThinInit /\ [][ThinNext]_thinVars

-----------------------------------------------------------------------------
\* "No peak or dip is ever dropped" (chartUtils.ts): each series is drawn with
\* its lowest and highest values, and from the first sample to the last; more
\* than the limit is drawn only when one bucket is left.
PeaksDrawn ==
    drawn # {} =>
        /\ {0, Cardinality(Samples) - 1} \subseteq drawn /\ drawn \subseteq Samples
        /\ Cardinality(drawn) <= limit \/ buckets = 1
        /\ \A s \in series :
             {Value(s, i) : i \in Extremes(s, Samples)} \subseteq {Value(s, i) : i \in drawn}
=============================================================================
