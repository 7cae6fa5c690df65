----------------------------- MODULE HealthLoop -----------------------------
(***************************************************************************)
(* The health loop closed: the anomaly-detector publishes verdicts, the    *)
(* lb-sidecar benches and re-admits backends, and what a backend serves    *)
(* decides which rows the detector's next query finds.  A benched backend  *)
(* gets no traffic, so its rows run out of the query window and it falls   *)
(* silent.                                                                 *)
(*                                                                         *)
(* On the way a publish may fail, the connection to the bus may break,     *)
(* either process may die at any step, and the operator may switch safe    *)
(* mode on; the first MaxFaults of these are in the model.                 *)
(*                                                                         *)
(* The pool does not scale here, and the sidecar is what handle_anomaly    *)
(* makes of it: the exclusions the adapter has rendered, taken one verdict *)
(* at a time, in order, with the quorum guard.                             *)
(***************************************************************************)
EXTENDS AnomalyDetector

CONSTANTS
    Retention,       \* cycles a backend's last row stays in the query window
    MaxFaults        \* bound: failures, crashes and switches to safe mode

ASSUME RetentionAssumption == Retention \in Nat \ {0}
ASSUME MaxFaultsAssumption == MaxFaults \in Nat

VARIABLES
    down,            \* backends the sidecar has rendered "down"
    trace,           \* cycles for which the query still finds rows of each
    faults,          \* how many there have been
    lost,            \* history: backends with a stored re-admission not sent
    unread           \* history: those whose unhealthy row, the last word on
                     \* them, the detector did not read at its start

loopVars == <<down, trace, faults, lost, unread>>
vars == <<detectorVars, loopVars>>

-----------------------------------------------------------------------------
\* The exclusion would leave less than (N+1)//2 of the pool active.
BreaksQuorum(b) ==
    Cardinality(Backends \ (down \cup {b})) < (Cardinality(Backends) + 1) \div 2

\* handle_anomaly: only "unhealthy" benches; "degraded" re-admits as well.
Applied(v, d) ==
    IF v[2] # "unhealthy" THEN d \ {v[1]}
    ELSE IF BreaksQuorum(v[1]) THEN d ELSE d \cup {v[1]}

\* The sidecar takes the oldest verdict.
SidecarHandles ==
    /\ bus # <<>>
    /\ down' = Applied(Head(bus), down)
    /\ bus' = Tail(bus)
    /\ UNCHANGED <<states, cycle, health, trace, faults, lost, unread>>

\* A cycle over the rows of the backends that served since the last one and
\* of those whose rows are still in the window.
InferenceCycle ==
    \E busy \in SUBSET (Backends \ down) :
        /\ trace' = [b \in Backends |->
                       IF b \in busy THEN Retention
                       ELSE IF trace[b] > 0 THEN trace[b] - 1 ELSE 0]
        /\ LET rows == {b \in Backends : trace'[b] > 0}
           IN  \E seen \in [rows -> Status \cup {"low"}] :
               \E outliers \in SUBSET {b \in rows : Gated(gate[b], seen[b]).status \in Bad} :
                 ScoreCycle(seen, outliers)
        /\ UNCHANGED <<down, faults, lost, unread>>

-----------------------------------------------------------------------------
Pending(b) == {i \in 1..Len(bus) : bus[i][1] = b}

\* The last verdict on b in flight re-admits it.
ReadmissionInFlight(b) ==
    \E i \in Pending(b) : /\ bus[i][2] # "unhealthy"
                          /\ \A j \in Pending(b) : j <= i

\* Pass 3 and 3b for one backend.  Safe mode stores a re-admission and
\* withholds it; any other verdict makes up for one that was lost.
Judges(b) ==
    /\ StoreVerdict(b) \/ ProbeSilent(b)
    /\ lost' = IF /\ safe /\ health'[b] # "unhealthy"
                  /\ b \in down \/ Pending(b) # {}
               THEN lost \cup {b} ELSE lost \ {b}
    /\ unread' = unread \ {b}
    /\ UNCHANGED <<down, trace, faults>>

Fault == faults < MaxFaults /\ faults' = faults + 1

\* The backend whose re-admission is not published when the cycle ends here.
Unsent == {b \in Backends : sending \in {<<b, "healthy">>, <<b, "degraded">>}}

BusRefuses ==
    /\ Fault /\ PublishFails
    /\ lost' = lost \cup Unsent
    /\ UNCHANGED <<down, trace, unread>>

\* The detector dies at any step, and a new one starts.  It may have been
\* away for any time, so any of the rows may be too old to be read.
DetectorCrash ==
    /\ Fault
    /\ \E read \in SUBSET Backends :
         /\ DetectorStart(read)
         /\ unread' = {b \in Backends \ read : health[b] = "unhealthy"}
    /\ lost' = lost \cup Unsent
    /\ UNCHANGED <<down, trace>>

\* The sidecar's connection to Redis breaks; what was on it is lost.
BusDrops ==
    /\ Fault /\ bus # <<>>
    /\ bus' = <<>>
    /\ lost' = lost \cup {b \in Backends : ReadmissionInFlight(b)}
    /\ UNCHANGED <<states, cycle, health, down, trace, unread>>

\* Mutant of Hydrated: a row that is fine does not lift what upstream.conf says.
OnlyExcludes(read, d) == d \cup {b \in read : health[b] = "unhealthy"}

\* _hydrate_excluded_from_db: a row that was read decides, the file where
\* there is none.
Hydrated(read, d) ==
    {b \in Backends : IF b \in read /\ health[b] # Nothing
                      THEN health[b] = "unhealthy" ELSE b \in d}

\* The sidecar dies: a new one hydrates and then subscribes.  It reads the
\* rows of the last HEALTH_HYDRATION_WINDOW_SECONDS, and none when the
\* database is unreachable.  What was on its way to the old one is lost.
SidecarRestart ==
    /\ Fault
    /\ \E read \in SUBSET Backends : down' = Hydrated(read, down)
    /\ bus' = <<>>
    /\ lost' = (lost \cup {b \in Backends : ReadmissionInFlight(b)}) \cap down'
    /\ UNCHANGED <<states, cycle, health, trace, unread>>

SafeModeOn  == Fault /\ SetSafeMode(TRUE) /\ UNCHANGED <<down, trace, lost, unread>>
SafeModeOff == SetSafeMode(FALSE) /\ UNCHANGED loopVars

-----------------------------------------------------------------------------
Init ==
    /\ DetectorInit
    /\ down = {}
    /\ trace = [b \in Backends |-> 0]
    /\ faults = 0
    /\ lost = {} /\ unread = {}

DetectorStep ==
    \/ \E b \in Backends : Judges(b)
    \/ Publish /\ UNCHANGED loopVars
    \/ InferenceCycle

FaultStep == BusRefuses \/ DetectorCrash \/ BusDrops \/ SidecarRestart
             \/ SafeModeOn \/ SafeModeOff

Next == DetectorStep \/ SidecarHandles \/ FaultStep

\* The detector's loop and the sidecar's loop keep running.  Nothing makes a
\* process restart.
Fairness == WF_vars(DetectorStep) /\ WF_vars(SidecarHandles)

Spec == Init /\ [][Next]_vars /\ Fairness

-----------------------------------------------------------------------------
(* Properties.                                                             *)

\* The type invariant of the loop.
LoopTypeOK ==
    /\ DetectorTypeOK
    /\ down \subseteq Backends
    /\ trace \in [Backends -> 0..Retention]
    /\ faults \in 0..MaxFaults
    /\ lost \subseteq Backends
    /\ unread \subseteq Backends

\* The last word on b that the sidecar has yet to hear re-admits it.
WillBeIncluded(b) ==
    \/ b \in Unsent
    \/ sending # <<b, "unhealthy">> /\ ReadmissionInFlight(b)

\* A backend the sidecar has benched, and no verdict under way brings back,
\* is one the detector keeps a clock for, so that someone still works on
\* every exclusion: the two processes disagree about who is out only over a
\* re-admission that a failure or safe mode took, or over a row that a
\* restarted detector did not read, and no other failure, crash or restart
\* of either process parts them.
EveryExclusionIsTracked ==
    \A b \in down :
        WillBeIncluded(b) \/ clock[b] # NoClock \/ b \in lost \cup unread

\* recovery_reinclude: "re-admit a long-excluded backend so it can earn its
\* health back": no backend stays out for ever without fresh evidence
\* against it, unless its re-admission was lost, a restarted detector did
\* not read its row or safe mode stays on.
ExclusionsEnd ==
    \A b \in Backends :
        <>[](b \in down) =>
            []<>(left[b] = "unhealthy" \/ b \in lost \cup unread \/ safe)

\* recovery_reinclude_silent: "we re-probe it again after the next window
\* instead of giving up after a single attempt": a backend with a clock that
\* stays without metrics is offered to the sidecar again and again, also
\* when one of the attempts fails to be published.
SilentBackendsAreProbed ==
    \A b \in Backends :
        <>[](clock[b] # NoClock /\ trace[b] = 0) =>
            []<>(sending = <<b, "healthy">> \/ safe)
=============================================================================
