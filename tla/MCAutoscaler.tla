---------------------------- MODULE MCAutoscaler ----------------------------
(* Values of Autoscaler's constants for TLC. *)
EXTENDS Autoscaler

WidePolicy    == [min |-> 1, max |-> 2, capacity |-> 10,
                  cooldown |-> 1, inCooldown |-> 0, confirmations |-> 1]
TightPolicy   == [min |-> 1, max |-> 1, capacity |-> 10,
                  cooldown |-> 0, inCooldown |-> 1, confirmations |-> 2]
TwoPolicies == {WidePolicy, TightPolicy}

(* "respect min_backends": a backend that is removed leaves no less than the *)
(* policy's minimum, also after a remove of Docker that failed.              *)
MinBackendsRespected ==
    [][\A t \in Threads :
         job[t].action = In /\ job'[t].done > job[t].done =>
            Cardinality(RunningReplicas') >= policy.min]_vars

(* "the container is left in place (stopped, but not removed)" on a          *)
(* healthcheck timeout, and the count announced is "the count actually       *)
(* REACHED", also when the stop fails.                                       *)
ReachedCountIsAnnounced ==
    \A t \in Threads :
        At(t, "publish") /\ ~contended[t] => FinalCount(job[t]) = BackendCount
=============================================================================
