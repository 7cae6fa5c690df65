----------------------- MODULE RoutingWeights_proofs ------------------------
(* Theorems about RoutingWeights, for any finite set of backends, any      *)
(* scores and any fraction; the behaviour that produces the inputs is the  *)
(* one of MCRoutingWeights, where a ranking grows entry by entry.          *)
EXTENDS MCRoutingWeights, FiniteSetTheorems, WellFoundedInduction, TLAPS

-----------------------------------------------------------------------------
(* Rounding.                                                               *)

LEMMA DivisionWithRest ==
    ASSUME NEW n \in Nat, NEW d \in Nat \ {0}
    PROVE  /\ n \div d \in Nat /\ n % d \in 0 .. d - 1
           /\ n = d * (n \div d) + (n % d)
OBVIOUS

\* Rounding is off by a half at most.
LEMMA RoundIsClose ==
    ASSUME NEW n \in Nat, NEW d \in Nat \ {0}
    PROVE  /\ RoundHalfEven(n, d) \in Nat
           /\ 2 * d * RoundHalfEven(n, d) <= 2 * n + d
           /\ 2 * d * RoundHalfEven(n, d) >= 2 * n - d
<1>1. PICK q \in Nat, r \in 0 .. d - 1 : q = n \div d /\ r = n % d /\ n = d * q + r
  BY DivisionWithRest
<1>2. \/ RoundHalfEven(n, d) = q /\ 2 * r <= d
      \/ RoundHalfEven(n, d) = q + 1 /\ 2 * r >= d
  BY <1>1 DEF RoundHalfEven
<1>3. 2 * d * q = 2 * n - 2 * r /\ 2 * d * (q + 1) = 2 * n - 2 * r + 2 * d
  BY <1>1
<1>. QED  BY <1>1, <1>2, <1>3

-----------------------------------------------------------------------------
(* The heaviest backend.                                                   *)

AtLeast(S, i) == {j \in S : i <= j}

\* A finite non-empty set of naturals has a greatest element.
LEMMA FiniteSetHasTop ==
    ASSUME NEW S \in SUBSET Nat, IsFiniteSet(S), S # {}
    PROVE  \E m \in S : \A n \in S : n <= m
<1>. DEFINE Cuts == {AtLeast(S, i) : i \in S}
<1>1. Cuts \subseteq FiniteSubsetsOf(S) /\ Cuts # {}
  <2>1. \A i \in S : IsFiniteSet(AtLeast(S, i)) /\ AtLeast(S, i) \in SUBSET S
    BY FS_Subset DEF AtLeast
  <2>. QED  BY <2>1 DEF FiniteSubsetsOf
<1>. HIDE DEF Cuts
<1>2. PICK C \in Cuts : \A D \in Cuts : <<D, C>> \notin StrictSubsetOrdering(S)
  BY <1>1, FS_StrictSubsetOrderingWellFounded, WFMin
<1>. USE DEF Cuts
<1>3. PICK m \in S : C = AtLeast(S, m)
  OBVIOUS
<1>4. ASSUME NEW n \in S, ~(n <= m)  PROVE FALSE
  <2>1. n \in Nat /\ m \in Nat
    OBVIOUS
  <2>2. AtLeast(S, n) \subseteq AtLeast(S, m)
    <3>1. ASSUME NEW j \in S, n <= j PROVE m <= j
      <4>1. j \in Nat
        OBVIOUS
      <4>. QED  BY <1>4, <2>1, <3>1, <4>1
    <3>. QED  BY <3>1 DEF AtLeast
  <2>3. <<AtLeast(S, n), AtLeast(S, m)>> \in StrictSubsetOrdering(S)
    <3>1. m \in AtLeast(S, m) /\ m \notin AtLeast(S, n)
      BY <1>4, <2>1 DEF AtLeast
    <3>2. AtLeast(S, n) \in SUBSET S /\ AtLeast(S, m) \in SUBSET S
      BY DEF AtLeast
    <3>. QED  BY <2>2, <3>1, <3>2 DEF StrictSubsetOrdering
  <2>4. AtLeast(S, n) \in Cuts
    OBVIOUS
  <2>. QED  BY <1>2, <1>3, <2>3, <2>4
<1>. QED  BY <1>4

\* The weights of a pool: positive where there is an entry.
Pools == {w \in [Backends -> (Nat \ {0}) \cup {Absent}] : Entries(w) # {}}

LEMMA EntriesArePositive ==
    ASSUME NEW w \in Pools, NEW b \in Entries(w)
    PROVE  w[b] \in Nat /\ w[b] >= 1
BY DEF Pools, Entries

LEMMA TopIsGreatest ==
    ASSUME NEW w \in Pools
    PROVE  /\ Top(w) \in Nat /\ Top(w) >= 1
           /\ \E b \in Entries(w) : w[b] = Top(w)
           /\ \A b \in Entries(w) : w[b] <= Top(w)
<1>. DEFINE S == {w[b] : b \in Entries(w)}
<1>1. S \in SUBSET Nat /\ S # {}
  BY EntriesArePositive DEF Pools
<1>2. IsFiniteSet(S)
  <2>1. IsFiniteSet(Entries(w))
    BY BackendsAssumption, FS_Subset DEF Entries
  <2>. DEFINE f == [b \in Entries(w) |-> w[b]]
  <2>2. f \in Surjection(Entries(w), S)
    BY DEF Surjection
  <2>. QED  BY <2>1, <2>2, FS_Surjection
<1>3. \E m \in S : \A n \in S : n <= m
  <2>. HIDE DEF S
  <2>. QED  BY <1>1, <1>2, FiniteSetHasTop
<1>4. \E m \in S : \A b \in Entries(w) : w[b] <= m
  BY <1>3
<1>5. Top(w) \in S /\ \A b \in Entries(w) : w[b] <= Top(w)
  BY <1>4 DEF Top
<1>. QED  BY <1>5, EntriesArePositive

\* A map with the same entries as another, that is nowhere above its top and
\* reaches it, has the same top.
LEMMA TopIsUnique ==
    ASSUME NEW w \in Pools, NEW m \in Nat,
           \E b \in Entries(w) : w[b] = m,
           \A b \in Entries(w) : w[b] <= m
    PROVE  Top(w) = m
<1>1. PICK b \in Entries(w) : w[b] = Top(w)
  BY TopIsGreatest
<1>2. PICK c \in Entries(w) : w[c] = m
  OBVIOUS
<1>3. Top(w) <= m /\ m <= Top(w) /\ Top(w) \in Nat
  BY <1>1, <1>2, TopIsGreatest
<1>. QED  BY <1>3

-----------------------------------------------------------------------------
(* The rail.                                                               *)

\* The floor of a pool is a weight, and not above the heaviest.
LEMMA FloorBelowTop ==
    ASSUME NEW w \in Pools
    PROVE  /\ ClampFloor(w) \in Nat /\ ClampFloor(w) >= 1
           /\ ClampFloor(w) <= Top(w)
<1>. DEFINE t == Top(w)
            q == RoundHalfEven(t * FractionNum, FractionDen)
<1>1. t \in Nat /\ t >= 1
  BY TopIsGreatest
<1>2. /\ FractionNum \in Nat /\ FractionDen \in Nat /\ FractionDen > 0
      /\ FractionNum <= FractionDen
  BY FractionAssumption
<1>. HIDE DEF t
<1>3. t * FractionNum \in Nat /\ t * FractionNum <= t * FractionDen
  BY <1>1, <1>2
<1>4. q \in Nat /\ 2 * FractionDen * q <= 2 * (t * FractionNum) + FractionDen
  BY <1>2, <1>3, RoundIsClose
<1>. HIDE DEF q
<1>5. q <= t
  <2>. SUFFICES ASSUME q >= t + 1 PROVE FALSE
    BY <1>1, <1>4
  <2>1. FractionDen * q >= FractionDen * (t + 1)
    BY <1>1, <1>2, <1>4
  <2>2. FractionDen * (t + 1) = t * FractionDen + FractionDen
    BY <1>1, <1>2
  <2>. QED  BY <1>1, <1>2, <1>3, <1>4, <2>1, <2>2
<1>6. ClampFloor(w) = AtLeastOne(q)
  BY DEF ClampFloor, q, t
<1>. QED  BY <1>1, <1>4, <1>5, <1>6 DEF AtLeastOne, t

\* With the rail on, an entry is raised to the floor or left alone, and the
\* heaviest stay as they are.
LEMMA ClampRaisesToFloor ==
    ASSUME NEW w \in Pools, FractionNum # 0
    PROVE  /\ ClampWeightSkew(w) \in Pools
           /\ Entries(ClampWeightSkew(w)) = Entries(w)
           /\ \A b \in Entries(w) :
                ClampWeightSkew(w)[b] = IF w[b] < ClampFloor(w) THEN ClampFloor(w) ELSE w[b]
           /\ Top(ClampWeightSkew(w)) = Top(w)
<1>. DEFINE c == ClampWeightSkew(w)
            f == ClampFloor(w)
<1>1. c = [b \in Backends |-> IF w[b] = Absent THEN Absent
                              ELSE IF w[b] < f THEN f ELSE w[b]]
  BY DEF ClampWeightSkew, Pools
<1>2. f \in Nat /\ f >= 1 /\ f <= Top(w) /\ f # Absent
  BY FloorBelowTop, AbsentAssumption
<1>. HIDE DEF c, f
<1>3. /\ \A b \in Entries(w) : c[b] = IF w[b] < f THEN f ELSE w[b]
      /\ Entries(c) = Entries(w)
  BY <1>1, <1>2 DEF Entries
<1>4. c \in Pools
  BY <1>1, <1>2, <1>3 DEF Pools
<1>5. Top(c) = Top(w)
  <2>1. PICK b \in Entries(w) : w[b] = Top(w)
    BY TopIsGreatest
  <2>2. c[b] = Top(w) /\ \A a \in Entries(c) : c[a] <= Top(w)
    BY <1>2, <1>3, <2>1, TopIsGreatest
  <2>. QED  BY <1>3, <1>4, <2>1, <2>2, TopIsGreatest, TopIsUnique
<1>. QED  BY <1>3, <1>4, <1>5 DEF c, f

\* With the rail off, or on: what the three theorems need of it.
LEMMA ClampKeepsOrder ==
    ASSUME NEW w \in Pools
    PROVE  /\ Entries(ClampWeightSkew(w)) = Entries(w)
           /\ \A a, b \in Entries(w) :
                /\ w[a] <= w[b] => ClampWeightSkew(w)[a] <= ClampWeightSkew(w)[b]
                /\ w[b] = Top(w) => ClampWeightSkew(w)[b] = w[b]
<1>1. CASE FractionNum = 0
  BY <1>1 DEF ClampWeightSkew
<1>2. CASE FractionNum # 0
  BY <1>2, ClampRaisesToFloor, FloorBelowTop, TopIsGreatest, EntriesArePositive
<1>. QED  BY <1>1, <1>2

\* The floor depends on the top only, which the rail keeps.
LEMMA ClampTwice ==
    ASSUME NEW w \in Pools
    PROVE  ClampWeightSkew(ClampWeightSkew(w)) = ClampWeightSkew(w)
<1>1. CASE FractionNum = 0
  BY <1>1 DEF ClampWeightSkew
<1>2. CASE FractionNum # 0
  <2>. DEFINE c == ClampWeightSkew(w)
  <2>1. /\ c \in Pools /\ Entries(c) = Entries(w) /\ Top(c) = Top(w)
        /\ \A b \in Entries(w) :
             c[b] = IF w[b] < ClampFloor(w) THEN ClampFloor(w) ELSE w[b]
    BY <1>2, ClampRaisesToFloor
  <2>. HIDE DEF c
  <2>2. ClampFloor(c) = ClampFloor(w)
    BY <2>1 DEF ClampFloor
  <2>3. \A b \in Entries(c) : ~(c[b] < ClampFloor(c))
    BY <2>1, <2>2, FloorBelowTop, EntriesArePositive
  <2>4. ClampWeightSkew(c) = [b \in Backends |-> IF c[b] = Absent THEN Absent
                                ELSE IF c[b] < ClampFloor(c) THEN ClampFloor(c) ELSE c[b]]
    BY <1>2, <2>1 DEF ClampWeightSkew, Pools
  <2>5. c = [b \in Backends |-> c[b]]
    BY <2>1 DEF Pools
  <2>6. \A b \in Backends : ClampWeightSkew(c)[b] = c[b]
    BY <2>3, <2>4 DEF Entries
  <2>7. ClampWeightSkew(c) = [b \in Backends |-> ClampWeightSkew(c)[b]]
    BY <2>4
  <2>8. ClampWeightSkew(c) = c
    BY <2>5, <2>6, <2>7
  <2>. QED  BY <2>8 DEF c
<1>. QED  BY <1>1, <1>2

\* With a fraction of three quarters or more, the floor of a pool whose top
\* is at least 7 is more than two thirds of that top.
LEMMA FloorAboveTwoThirds ==
    ASSUME NEW w \in Pools, Top(w) >= 7, 4 * FractionNum >= 3 * FractionDen
    PROVE  2 * Top(w) < 3 * ClampFloor(w)
<1>. DEFINE t == Top(w)
            n == t * FractionNum
            q == RoundHalfEven(n, FractionDen)
<1>1. t \in Nat /\ t >= 7
  BY TopIsGreatest
<1>2. FractionNum \in Nat /\ FractionDen \in Nat /\ FractionDen > 0
  BY FractionAssumption
<1>. HIDE DEF t
<1>3. n \in Nat /\ 4 * n >= 3 * (t * FractionDen)
  <2>1. t * (4 * FractionNum) >= t * (3 * FractionDen)
    BY <1>1, <1>2
  <2>. QED  BY <1>1, <1>2, <2>1
<1>. HIDE DEF n
<1>4. q \in Nat /\ 2 * FractionDen * q >= 2 * n - FractionDen
  <2>1. n \in Nat /\ FractionDen \in Nat \ {0}
    BY <1>2, <1>3
  <2>. QED  BY <2>1, RoundIsClose
<1>. HIDE DEF q
<1>5. FractionDen * (4 * q) >= FractionDen * (3 * t - 2)
  BY <1>1, <1>2, <1>3, <1>4
<1>6. 4 * q >= 3 * t - 2
  BY <1>1, <1>2, <1>4, <1>5
<1>7. 3 * q > 2 * t
  BY <1>1, <1>4, <1>6
<1>8. ClampFloor(w) = AtLeastOne(q)
  BY DEF ClampFloor, q, n, t
<1>. QED  BY <1>1, <1>4, <1>7, <1>8 DEF AtLeastOne, t

-----------------------------------------------------------------------------
(* The weights handle_routing computes.                                    *)

\* The merge is a pool: positive weights, and one for each live backend.
LEMMA MergeIsPool ==
    ASSUME NEW r \in [Backends -> Scores \cup {Absent}],
           NEW l \in (SUBSET Backends) \ {{}}
    PROVE  /\ Merge(ScoresToWeights(r), l) \in Pools
           /\ l \subseteq Entries(Merge(ScoresToWeights(r), l))
<1>. DEFINE s == ScoresToWeights(r)
            m == Merge(s, l)
<1>1. \A b \in Backends : s[b] = Absent \/ (s[b] \in Nat \ {0})
  <2>. SUFFICES ASSUME NEW b \in Backends, r[b] # Absent
                PROVE  s[b] \in Nat \ {0}
    BY DEF ScoresToWeights
  <2>1. r[b] \in Nat
    BY ScoresAssumption
  <2>2. RoundHalfEven(r[b], 10) \in Nat
    BY <2>1, RoundIsClose
  <2>3. s[b] = AtLeastOne(RoundHalfEven(r[b], 10))
    BY DEF ScoresToWeights
  <2>. QED  BY <2>2, <2>3 DEF AtLeastOne
<1>. HIDE DEF s
<1>2. 1 # Absent
  BY AbsentAssumption
<1>3. m = [b \in Backends |-> IF s[b] # Absent THEN s[b]
                             ELSE IF b \in l THEN 1 ELSE Absent]
  BY DEF Merge, FloorWeight
<1>. HIDE DEF m
<1>4. m \in [Backends -> (Nat \ {0}) \cup {Absent}]
  BY <1>1, <1>3
<1>5. \A b \in l : m[b] # Absent
  BY <1>2, <1>3
<1>. QED  BY <1>4, <1>5 DEF Pools, Entries, m, s

\* What the behaviour keeps: an envelope, a pool and their weights.
InputInv ==
    /\ ranking \in [Backends -> Scores \cup {Absent}]
    /\ live \in (SUBSET Backends) \ {{}}
    /\ pooled = PoolWeights(ranking, live)

LEMMA InputsStand == Spec => []InputInv
<1>1. Init => InputInv
  BY DEF Init, InputInv
<1>2. InputInv /\ [Next]_vars => InputInv'
  BY DEF InputInv, Next, vars
<1>. QED  BY <1>1, <1>2, PTL DEF Spec

\* The whole live pool carries traffic, a backend scored lower than another
\* never ends up heavier, and the best one keeps its own weight.
THEOREM OrderKept == Spec => []OrderAndPoolKept
<1>1. InputInv => OrderAndPoolKept
  BY MergeIsPool, ClampKeepsOrder DEF InputInv, OrderAndPoolKept, PoolWeights
<1>. QED  BY <1>1, InputsStand, PTL

\* A second pass of the rail changes nothing.
THEOREM ClampSettles == Spec => []ClampIsIdempotent
<1>1. InputInv => ClampIsIdempotent
  BY MergeIsPool, ClampTwice DEF InputInv, ClampIsIdempotent, PoolWeights
<1>. QED  BY <1>1, InputsStand, PTL

\* The skew stays below the detector's outlier margin with any fraction of
\* three quarters or more.
THEOREM SkewStaysBelowMargin ==
    ASSUME 4 * FractionNum >= 3 * FractionDen
    PROVE  Spec => []SkewBelowOutlierMargin
<1>1. InputInv => SkewBelowOutlierMargin
  <2>. SUFFICES ASSUME InputInv, NEW a \in Entries(pooled), NEW b \in Entries(pooled),
                       Top(pooled) >= 7
                PROVE  2 * pooled[a] < 3 * pooled[b]
    BY DEF SkewBelowOutlierMargin
  <2>. DEFINE w == Merge(ScoresToWeights(ranking), live)
  <2>1. w \in Pools /\ pooled = ClampWeightSkew(w)
    BY MergeIsPool DEF InputInv, PoolWeights
  <2>2. FractionNum # 0
    BY FractionAssumption
  <2>. HIDE DEF w
  <2>3. /\ pooled \in Pools /\ Top(pooled) = Top(w) /\ Entries(pooled) = Entries(w)
        /\ pooled[b] = IF w[b] < ClampFloor(w) THEN ClampFloor(w) ELSE w[b]
    BY <2>1, <2>2, ClampRaisesToFloor
  <2>4. 2 * Top(w) < 3 * ClampFloor(w) /\ ClampFloor(w) \in Nat /\ Top(w) \in Nat
    BY <2>1, <2>3, FloorAboveTwoThirds, FloorBelowTop, TopIsGreatest
  <2>5. pooled[a] <= Top(w) /\ pooled[a] \in Nat
    BY <2>3, TopIsGreatest, EntriesArePositive
  <2>6. pooled[b] >= ClampFloor(w) /\ pooled[b] \in Nat
    BY <2>1, <2>3, <2>4, EntriesArePositive
  <2>. QED  BY <2>4, <2>5, <2>6
<1>. QED  BY <1>1, InputsStand, PTL

\* With scores of at most one, whatever is ranked and whatever is live, the
\* weights handle_routing hands over are between 1 and 100, and there are
\* some: the closure LbSidecar assumes of the weights its adapter takes
\* holds of the weights 1 .. 100.
THEOREM WeightsAreClosed ==
    ASSUME Scores \subseteq 0 .. 1000,
           NEW r \in [Backends -> Scores \cup {Absent}],
           NEW l \in (SUBSET Backends) \ {{}}
    PROVE  /\ PoolWeights(r, l) \in [Backends -> (1 .. 100) \cup {Absent}]
           /\ Entries(PoolWeights(r, l)) # {}
<1>. DEFINE m == Merge(ScoresToWeights(r), l)
            w == PoolWeights(r, l)
<1>1. m \in Pools /\ w = ClampWeightSkew(m)
  BY MergeIsPool DEF PoolWeights
<1>2. \A b \in Entries(m) : m[b] <= 100
  <2>1. ASSUME NEW b \in Backends, r[b] # Absent
        PROVE  ScoresToWeights(r)[b] <= 100
    <3>. DEFINE q == RoundHalfEven(r[b], 10)
    <3>1. r[b] \in 0 .. 1000
      BY <2>1
    <3>2. r[b] \in Nat /\ r[b] <= 1000
      BY <3>1
    <3>3. 10 \in Nat \ {0}
      OBVIOUS
    <3>4. q \in Nat /\ 2 * 10 * q <= 2 * r[b] + 10
      BY <3>2, <3>3, RoundIsClose
    <3>5. ScoresToWeights(r)[b] = AtLeastOne(q)
      BY <2>1 DEF ScoresToWeights
    <3>. HIDE DEF q
    <3>6. q <= 100
      BY <3>2, <3>4
    <3>. QED  BY <3>4, <3>5, <3>6 DEF AtLeastOne
  <2>2. \A b \in Backends : r[b] = Absent => ScoresToWeights(r)[b] = Absent
    BY DEF ScoresToWeights
  <2>3. ASSUME NEW b \in Entries(m) PROVE m[b] <= 100
    <3>1. b \in Backends /\ ((m[b] = ScoresToWeights(r)[b] /\ m[b] # Absent) \/ m[b] = 1)
      BY DEF Merge, FloorWeight, Entries
    <3>. QED  BY <2>1, <2>2, <3>1
  <2>. QED  BY <2>3
<1>. HIDE DEF m, w
<1>3. w \in Pools /\ Top(w) = Top(m) /\ Entries(w) = Entries(m)
  <2>1. CASE FractionNum = 0
    BY <1>1, <2>1 DEF ClampWeightSkew
  <2>2. CASE FractionNum # 0
    BY <1>1, <2>2, ClampRaisesToFloor
  <2>. QED  BY <2>1, <2>2
<1>4. Top(m) \in Nat /\ Top(m) <= 100
  BY <1>1, <1>2, TopIsGreatest
<1>5. \A b \in Entries(w) : w[b] \in 1 .. 100
  <2>. SUFFICES ASSUME NEW b \in Entries(w) PROVE w[b] \in 1 .. 100
    OBVIOUS
  <2>1. w[b] \in Nat /\ w[b] >= 1
    BY <1>3, EntriesArePositive
  <2>2. w[b] <= Top(m)
    BY <1>3, TopIsGreatest
  <2>. QED  BY <1>4, <2>1, <2>2
<1>6. w \in [Backends -> (1 .. 100) \cup {Absent}] /\ Entries(w) # {}
  BY <1>3, <1>5 DEF Pools, Entries
<1>. QED  BY <1>6 DEF w
=============================================================================
