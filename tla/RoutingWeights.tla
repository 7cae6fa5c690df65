--------------------------- MODULE RoutingWeights ---------------------------
(***************************************************************************)
(* How the lb-sidecar turns a routing recommendation into NGINX weights    *)
(* (services/lb-sidecar/runloop.py): the scores of the ranked backends     *)
(* become integer weights, they are laid over a floor weight for the whole *)
(* live pool, and the skew of the result is bounded from below.            *)
(*                                                                         *)
(* A dict of weights is a function on the backends, Absent where there is  *)
(* no entry.  A score in (0, 1] is counted in thousandths.                 *)
(***************************************************************************)
EXTENDS Integers

CONSTANTS
    Backends,
    Absent,                          \* no entry: not a natural number
    FractionNum, FractionDen         \* MIN_ACTIVE_WEIGHT_FRACTION

ASSUME AbsentAssumption == Absent \in Int \ Nat
ASSUME FractionAssumption ==
    /\ FractionNum \in Nat /\ FractionDen \in Nat \ {0}
    /\ FractionNum <= FractionDen

\* KNOWN_BACKEND_FLOOR_WEIGHT
FloorWeight == 1

\* Python's round(n / d): to the nearest integer, a tie to the even one.
RoundHalfEven(n, d) ==
    LET q == n \div d
        r == 2 * (n % d)
    IN  IF r < d THEN q ELSE IF r > d THEN q + 1 ELSE q + (q % 2)

AtLeastOne(n) == IF n < 1 THEN 1 ELSE n

Entries(w) == {b \in Backends : w[b] # Absent}

\* A dict with the same weight for every backend of a pool.
EqualWeights(live) == [b \in Backends |-> IF b \in live THEN 1 ELSE Absent]

\* scores_to_weights: max(1, round(score * 100)).
ScoresToWeights(ranking) ==
    [b \in Backends |-> IF ranking[b] = Absent THEN Absent
                        ELSE AtLeastOne(RoundHalfEven(ranking[b], 10))]

\* Mutant of Merge: a partial ranking replaces the pool.
MergeWithoutFloor(ranked, live) == ranked

\* handle_routing's merge: the ranking over a floor for every live backend.
\* A ranked backend that is not live stays in.
Merge(ranked, live) ==
    [b \in Backends |-> IF ranked[b] # Absent THEN ranked[b]
                        ELSE IF b \in live THEN FloorWeight
                        ELSE Absent]

Top(w) == CHOOSE m \in {w[b] : b \in Entries(w)} :
            \A b \in Entries(w) : w[b] <= m

\* clamp_weight_skew: every weight is raised to a fraction of the top one.
\* A fraction of 0 turns the rail off.
ClampFloor(w) == AtLeastOne(RoundHalfEven(Top(w) * FractionNum, FractionDen))

\* Mutant of ClampWeightSkew: min for max.
ClampFromAbove(w) ==
    IF Entries(w) = {} \/ FractionNum = 0 THEN w
    ELSE [b \in Backends |-> IF w[b] = Absent THEN Absent
                             ELSE IF w[b] > ClampFloor(w) THEN ClampFloor(w)
                             ELSE w[b]]

ClampWeightSkew(w) ==
    IF Entries(w) = {} \/ FractionNum = 0 THEN w
    ELSE [b \in Backends |-> IF w[b] = Absent THEN Absent
                             ELSE IF w[b] < ClampFloor(w) THEN ClampFloor(w)
                             ELSE w[b]]

\* Mutant of PoolWeights: the ranking is clamped before it meets the pool.
ClampThenMerge(ranking, live) ==
    Merge(ClampWeightSkew(ScoresToWeights(ranking)), live)

\* The weights handle_routing hands to the adapter.
PoolWeights(ranking, live) ==
    ClampWeightSkew(Merge(ScoresToWeights(ranking), live))
=============================================================================
