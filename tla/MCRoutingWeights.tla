-------------------------- MODULE MCRoutingWeights --------------------------
(***************************************************************************)
(* RoutingWeights over bounded inputs: a behaviour grows a ranking entry   *)
(* by entry and feeds each stage to handle_routing's arithmetic.           *)
(***************************************************************************)
EXTENDS RoutingWeights, FiniteSets

AbsentValue == -1

CONSTANT Scores                      \* scores a ranking may hold, in 1/1000

ASSUME BackendsAssumption == IsFiniteSet(Backends)
ASSUME ScoresAssumption == Scores \subseteq Nat

VARIABLES ranking, live, pooled      \* an envelope, the pool, the weights

vars == <<ranking, live, pooled>>

Init ==
    /\ ranking = [b \in Backends |-> Absent]
    /\ live \in (SUBSET Backends) \ {{}}
    /\ pooled = PoolWeights(ranking, live)

\* An envelope that ranks one backend more.
Next ==
    /\ \E b \in Backends, s \in Scores :
         /\ ranking[b] = Absent
         /\ ranking' = [ranking EXCEPT ![b] = s]
    /\ UNCHANGED live
    /\ pooled' = PoolWeights(ranking', live)

Spec == Init /\ [][Next]_vars

-----------------------------------------------------------------------------
\* The whole live pool carries traffic, and the rail keeps the ranking's
\* order: a backend scored lower than another never ends up heavier, and
\* the best one keeps its own weight.
OrderAndPoolKept ==
    LET raw == Merge(ScoresToWeights(ranking), live)
    IN  /\ live \subseteq Entries(pooled)
        /\ \A a, b \in Entries(raw) :
             /\ raw[a] <= raw[b] => pooled[a] <= pooled[b]
             /\ raw[b] = Top(raw) => pooled[b] = raw[b]

\* A second pass of the rail changes nothing: applying an already applied
\* recommendation is the no-op the adapter's comparison relies on.
ClampIsIdempotent == ClampWeightSkew(pooled) = pooled

\* The skew stays below the detector's outlier margin of 1.5 as soon as the
\* best score of a ranking is worth at least seven hundredths, as it is in
\* every normalised ranking of up to fourteen backends.
SkewBelowOutlierMargin ==
    \A a, b \in Entries(pooled) :
        Top(pooled) >= 7 => 2 * pooled[a] < 3 * pooled[b]
=============================================================================
