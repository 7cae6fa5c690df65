------------------------------ MODULE LbSidecar ------------------------------
(***************************************************************************)
(* services/lb-sidecar: the process that turns what the decision plane     *)
(* publishes (routing, anomaly, policy and scale messages) into NGINX      *)
(* configuration, through the NginxAdapter.                                *)
(*                                                                         *)
(* One run-loop thread handles messages one at a time; threads of the HTTP *)
(* server call the same adapter for an operator.  Redis pub/sub keeps no   *)
(* message, so what the loop handles next is any message a publisher may   *)
(* have sent: late, lost, reordered against the other channels, or stale   *)
(* against Docker.  A new process re-reads upstream.conf and then the last *)
(* verdicts in backend_health before it takes messages.                    *)
(***************************************************************************)
EXTENDS NginxAdapter, FiniteSets

CONSTANTS
    Loop,            \* the run-loop thread; the other threads are HTTP's
    Seed,            \* ALL_BACKENDS: the fallback when Docker names no one
    Addresses,       \* keys that are ip:port: they resolve without DNS
    Scores,          \* scores of a ranking, in thousandths
    Thresholds,      \* values of rl_confidence_threshold, in thousandths
    FractionNum, FractionDen,
    MayScale,        \* TRUE iff containers may start and stop
    MayRestart,      \* TRUE iff the process may be restarted
    DockerFaults     \* TRUE iff the Docker query may fail

ASSUME LoopAssumption == Loop \in Threads
ASSUME SeedAssumption == Seed \in (SUBSET Backends) \ {{}}
ASSUME AddressesAssumption == Addresses \subseteq Backends
ASSUME BackendsAssumption == IsFiniteSet(Backends)

VARIABLES
    pool,            \* running containers with the backend label (Docker)
    health,          \* latest backend_health verdict of each backend
    phase,           \* "hydrate" after a start, then "ready"
    rows,            \* hydration: the rows of backend_health it fetched
    todo,            \* hydration: those not yet applied
    view,            \* live_backends of the message in hand; {} between two
    verdict,         \* handle_anomaly: past its guards, not yet excluded
    safeMode,        \* PolicyState.safe_mode
    threshold,       \* PolicyState.rl_confidence_threshold
    blind,           \* history: view is the seed list of a failed query
    late             \* history: running backends that started after the query

policyState == <<safeMode, threshold>>
hydration == <<phase, rows, todo>>
message == <<view, verdict, blind, late>>
sidecarVars == <<pool, health, hydration, message, policyState>>
vars == <<adapterVars, sidecarVars>>

RW == INSTANCE RoutingWeights

\* What handle_routing computes is among the weights an adapter may be given.
ASSUME ClosedAssumption ==
    \A ranking \in [Backends -> Scores \cup {Absent}],
       live \in (SUBSET Backends) \ {{}} :
         RW!PoolWeights(ranking, live) \in WeightMap

NoVerdict == "none"
Status == {"healthy", "unhealthy"}       \* degraded is handled as healthy

-----------------------------------------------------------------------------
\* What discover_all_backends makes of an answer: the running containers, or
\* the seed list when there are none.
Answer == IF pool = {} THEN Seed ELSE pool

\* Its results: the seed list, too, when the Docker daemon fails.
Discovered == {Answer} \cup (IF DockerFaults THEN {Seed} ELSE {})

\* Hydration is over: the loop subscribes and HTTP is let in.
Ready == phase' = "ready" /\ rows' = {} /\ todo' = {}

\* The loop is between two messages.
LoopFree == phase = "ready" /\ Idle(Loop) /\ view = {}

\* It has asked Docker and called no handler yet, or one that is still to act.
InHand == Idle(Loop) /\ view # {} /\ verdict = NoVerdict

\* The handler has called the adapter and is done with its view.
Handled == view' = {} /\ verdict' = NoVerdict /\ blind' = FALSE /\ late' = {}

\* (N+1)//2 of the known backends would no longer be active without b.
ExcludingWouldEmptyPool(b) ==
    /\ Known # {}
    /\ Cardinality(Known \ (excluded \cup {b})) < (Cardinality(Known) + 1) \div 2

\* max(scores) against the policy's threshold; a threshold of 0 is no gate.
Confident(ranking) ==
    threshold > 0 => \E b \in Backends : ranking[b] >= threshold

-----------------------------------------------------------------------------
(* The message handlers of the run loop.  Each is called with the backends   *)
(* Docker named a moment before; containers start and stop in between.      *)

\* A message that parses: the discovery cache is dropped and Docker asked.
\* Which message it is shows in the handler that takes the view.
TakeMessage ==
    /\ LoopFree
    /\ \/ view' = Answer /\ blind' = FALSE
       \/ DockerFaults /\ view' = Seed /\ blind' = TRUE
    /\ late' = {}
    /\ UNCHANGED <<adapterVars, pool, health, hydration, verdict, policyState>>

\* A message that changes nothing: a shadow envelope, a ranking below the
\* threshold, a verdict on a backend that is not in the view, or one the
\* quorum guard refuses.
Dismiss ==
    /\ InHand
    /\ Handled
    /\ UNCHANGED <<adapterVars, pool, health, hydration, policyState>>

\* handle_routing on an active envelope.  The ranking may name backends that
\* are not live, or no backend at all.
HandleRouting ==
    /\ InHand
    /\ \E ranking \in [Backends -> Scores \cup {Absent}] :
         /\ Confident(ranking)
         /\ SetUpstreamWeights(Loop, RW!PoolWeights(ranking, view))
    /\ Handled
    /\ UNCHANGED <<pool, health, hydration, policyState>>

\* handle_anomaly up to the exclusion.
HandleUnhealthy(b) ==
    /\ InHand
    /\ b \in view
    /\ ~ExcludingWouldEmptyPool(b)
    /\ verdict' = b
    /\ UNCHANGED <<adapterVars, pool, health, hydration, view, blind, late,
                   policyState>>

\* The exclusion the guards let through.
ApplyVerdict ==
    /\ verdict # NoVerdict /\ Idle(Loop)
    /\ ExcludeBackend(Loop, verdict)
    /\ Handled
    /\ UNCHANGED <<pool, health, hydration, policyState>>

HandleHealthy(b) ==
    /\ InHand
    /\ b \in view
    /\ IncludeBackend(Loop, b)
    /\ Handled
    /\ UNCHANGED <<pool, health, hydration, policyState>>

\* Mutant of HandlePolicy: safe mode forgets the exclusions.
SafeModeForgetsExclusions(sm, th) ==
    /\ InHand
    /\ safeMode' = sm
    /\ threshold' = th
    /\ \/ /\ sm
          /\ weights' = RW!EqualWeights(view)
          /\ excluded' = {}
          /\ UNCHANGED algorithm
          /\ StartRender(Loop)
       \/ ~sm /\ UNCHANGED adapterVars
    /\ Handled
    /\ UNCHANGED <<pool, health, hydration>>

\* handle_policy: the snapshot is replaced whatever its version; safe mode
\* goes back to equal weights.
HandlePolicy(sm, th) ==
    /\ InHand
    /\ safeMode' = sm
    /\ threshold' = th
    /\ \/ sm /\ SetUpstreamWeights(Loop, RW!EqualWeights(view))
       \/ ~sm /\ UNCHANGED adapterVars
    /\ Handled
    /\ UNCHANGED <<pool, health, hydration>>

\* handle_scale: reconcile the exclusions, then equal weights.
HandleScale ==
    /\ InHand
    /\ ReconcileAndSet(Loop, view, RW!EqualWeights(view))
    /\ Handled
    /\ UNCHANGED <<pool, health, hydration, policyState>>

-----------------------------------------------------------------------------
(* The operator's HTTP requests; 503 until the sidecar is ready.           *)

PostWeights(t) ==
    /\ phase = "ready"
    /\ \E w \in WeightMap : SetUpstreamWeights(t, w)
    /\ UNCHANGED sidecarVars

PostAlgorithm(t) ==
    /\ phase = "ready"
    /\ \E a \in Algorithms : SetAlgorithm(t, a)
    /\ UNCHANGED sidecarVars

-----------------------------------------------------------------------------
(* _render_and_reload.  A message handler catches the error and the loop    *)
(* goes on; hydration gives up on the rows it has left.                    *)

RenderGoesOn(t) ==
    /\ Guard(t) \/ Resolve(t) \/ Render(t) \/ Write(t) \/ Reload(t)
    /\ UNCHANGED sidecarVars

RenderFails(t) ==
    /\ Raises(t)
    /\ IF phase = "hydrate" THEN Ready ELSE UNCHANGED hydration
    /\ UNCHANGED <<pool, health, message, policyState>>

-----------------------------------------------------------------------------
(* Start-up.                                                               *)

\* The process is replaced: the adapter reads upstream.conf, the policy
\* snapshot is the default one, and the rows to hydrate are read: those of
\* the last HEALTH_HYDRATION_WINDOW_SECONDS, which may be any, and none when
\* the database is unreachable.
Boot ==
    /\ MayRestart
    /\ \E seed \in Discovered : Restart(seed)
    /\ phase' = "hydrate"
    /\ rows' \in SUBSET {r \in Backends \X Status : health[r[1]] = r[2]}
    /\ todo' = rows'
    /\ Handled
    /\ safeMode' = FALSE
    /\ threshold' = 0
    /\ UNCHANGED <<pool, health>>

\* Mutant of HydrateRow: only unhealthy rows are applied.
HydrateUnhealthyOnly ==
    /\ phase = "hydrate" /\ Idle(Loop)
    /\ \E r \in todo :
         /\ \/ r[2] = "unhealthy" /\ ExcludeBackend(Loop, r[1])
            \/ r[2] = "healthy" /\ NothingToDo(Loop)
         /\ todo' = todo \ {r}
    /\ UNCHANGED <<pool, health, phase, rows, message, policyState>>

\* _hydrate_excluded_from_db applies one row: no membership guard, no quorum.
HydrateRow ==
    /\ phase = "hydrate" /\ Idle(Loop)
    /\ \E r \in todo :
         /\ \/ r[2] = "unhealthy" /\ ExcludeBackend(Loop, r[1])
            \/ r[2] = "healthy" /\ IncludeBackend(Loop, r[1])
         /\ todo' = todo \ {r}
    /\ UNCHANGED <<pool, health, phase, rows, message, policyState>>

\* Every row has been applied.
Hydrated ==
    /\ phase = "hydrate" /\ Idle(Loop) /\ todo = {}
    /\ Ready
    /\ UNCHANGED <<adapterVars, pool, health, message, policyState>>

-----------------------------------------------------------------------------
(* The environment: containers, DNS, and the detector's rows.              *)

\* The name of a new container takes a while to reach Docker's DNS.
ContainerStarts(b) ==
    /\ MayScale
    /\ b \notin pool \cup Addresses
    /\ pool' = pool \cup {b}
    /\ late' = IF view = {} THEN {} ELSE late \cup {b}
    /\ UNCHANGED <<adapterVars, health, hydration, view, verdict, blind,
                   policyState>>

ContainerStops(b) ==
    /\ MayScale
    /\ b \in pool
    /\ pool' = pool \ {b}
    /\ resolvable' = resolvable \ {b}
    /\ late' = late \ {b}
    /\ UNCHANGED <<memory, conf, served, locals>>
    /\ UNCHANGED <<health, hydration, view, verdict, blind, policyState>>

NameResolves(b) ==
    /\ b \in pool \ resolvable
    /\ resolvable' = resolvable \cup {b}
    /\ UNCHANGED <<memory, conf, served, locals, sidecarVars>>

\* anomaly-detector inserts a backend_health row.
HealthRow(b, s) ==
    /\ MayRestart
    /\ health[b] # s
    /\ health' = [health EXCEPT ![b] = s]
    /\ UNCHANGED <<adapterVars, pool, hydration, message, policyState>>

-----------------------------------------------------------------------------
Init ==
    /\ AdapterInit
    /\ Known = Seed
    /\ pool \in (SUBSET (Seed \ Addresses)) \ {{}}
    /\ resolvable = pool \cup Addresses
    /\ health = [b \in Backends |-> "none"]
    /\ phase = "ready"
    /\ rows = {} /\ todo = {}
    /\ view = {} /\ verdict = NoVerdict
    /\ safeMode = FALSE
    /\ threshold = 0
    /\ blind = FALSE /\ late = {}

LoopNext ==
    \/ TakeMessage \/ Dismiss
    \/ HandleRouting \/ HandleScale
    \/ \E b \in Backends : HandleUnhealthy(b) \/ HandleHealthy(b)
    \/ ApplyVerdict
    \/ \E sm \in BOOLEAN, th \in Thresholds : HandlePolicy(sm, th)
    \/ HydrateRow \/ Hydrated
    \/ RenderGoesOn(Loop) \/ RenderFails(Loop)

HttpNext ==
    \E t \in Threads \ {Loop} :
        PostWeights(t) \/ PostAlgorithm(t) \/ RenderGoesOn(t) \/ RenderFails(t)

EnvNext ==
    \/ Boot
    \/ \E b \in Backends :
         \/ ContainerStarts(b) \/ ContainerStops(b) \/ NameResolves(b)
         \/ \E s \in Status : HealthRow(b, s)

Next == LoopNext \/ HttpNext \/ EnvNext

Spec == Init /\ [][Next]_vars

-----------------------------------------------------------------------------
(* Properties.                                                             *)

\* The type invariant of the sidecar; the adapter's is AdapterTypeOK.
SidecarTypeOK ==
    /\ AdapterTypeOK
    /\ pool \subseteq Backends
    /\ health \in [Backends -> Status \cup {"none"}]
    /\ phase \in {"hydrate", "ready"}
    /\ rows \subseteq Backends \X Status
    /\ todo \subseteq rows
    /\ view \subseteq Backends
    /\ verdict \in Backends \cup {NoVerdict}
    /\ blind \in BOOLEAN
    /\ late \subseteq pool
    /\ safeMode \in BOOLEAN
    /\ threshold \in Thresholds \cup {0}

QuorumOf(w, x) ==
    2 * Cardinality(Listed(w) \ x) >= Cardinality(Listed(w))

\* "Drop the active pool below a working quorum": no step that takes a
\* backend out of service leaves less than half of the known ones active.
\* The guard reads the adapter and the exclusion comes later, and an HTTP
\* request may shrink the pool in between.
ExclusionsKeepQuorum ==
    [][\A b \in Known' : b \in excluded' \ excluded
         => QuorumOf(weights', excluded')]_vars

\* "Anomaly exclusion is unconditional": no sequence of routing, policy and
\* scale messages and of operator requests lifts the exclusion of a running
\* backend; only a verdict on that backend or a restart does.  A scale event
\* reconciles against an answer of Docker that is a moment old, and what it
\* may lift is bounded: a backend that started after the question, or one
\* that is not in the seed list when the question failed.
LiveExclusionStands ==
    [][\A b \in pool : b \in excluded /\ b \notin excluded' =>
         \/ HandleHealthy(b) \/ HydrateRow \/ Boot
         \/ HandleScale /\ (b \in late \/ (blind /\ b \notin Seed))]_vars

\* A restart that reads backend_health to the end is in the state the rows
\* say, whatever upstream.conf said: they, not the file, are the truth.
HydrationRestoresVerdicts ==
    [][Hydrated => \A r \in rows : r[2] = "unhealthy" <=> r[1] \in excluded]_vars

\* "safe_mode ... must dominate any AI signal": while the sidecar's policy
\* snapshot says safe mode, the weights are equal.
SafeModeDominates ==
    safeMode /\ LoopFree => \A b \in Known : weights[b] = 1
=============================================================================
