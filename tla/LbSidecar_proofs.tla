-------------------------- MODULE LbSidecar_proofs --------------------------
(* Theorems about the lb-sidecar and the adapter it drives, for any finite *)
(* set of backends and any weights, algorithms, threads, scores and        *)
(* thresholds, with or without faults.                                     *)
EXTENDS LbSidecar, FiniteSetTheorems, TLAPS

-----------------------------------------------------------------------------
(* The adapter.                                                            *)

-----------------------------------------------------------------------------
\* The empty configuration and every rendering of well-typed fields are
\* configurations.
LEMMA EmptyIsConfig == Empty \in Config
BY AlgorithmsAssumption DEF Empty, Config, Line, Absent, Down

LEMMA RenderIsConfig ==
    ASSUME NEW w \in [Backends -> Weight], NEW x, NEW u, NEW a \in Algorithms
    PROVE  RenderConf(w, x, a, u) \in Config
<1>1. ASSUME NEW v \in Weights PROVE Shown(v) \in Line
  <2>1. v \in Nat
    BY WeightsAssumption
  <2>2. CASE v < 1
    BY <2>2, WeightsAssumption DEF Shown, Line
  <2>3. CASE ~(v < 1)
    BY <2>1, <2>3 DEF Shown, Line
  <2>. QED  BY <2>2, <2>3
<1>2. \A b \in Backends : w[b] # Absent => w[b] \in Weights
  BY DEF Weight
<1>. QED  BY <1>1, <1>2 DEF RenderConf, Config, Line

\* A rendering reflects the fields it was made from, whatever hosts the
\* pre-flight left out.
LEMMA RenderReflects ==
    ASSUME NEW u, AdapterTypeOK
    PROVE  Reflects(RenderConf(weights, excluded, algorithm, u))
BY DEF RenderConf, Reflects, AdapterTypeOK, Known, Listed

-----------------------------------------------------------------------------
\* The type invariant is preserved by every step of every thread.
THEOREM AdapterTypeCorrect == AdapterSpec => []AdapterTypeOK
<1>1. AdapterInit => AdapterTypeOK
  <2>. SUFFICES ASSUME AdapterInit PROVE AdapterTypeOK
    OBVIOUS
  <2>1. weights \in [Backends -> Weight] /\ weights \in [Backends -> Line]
    BY WeightsAssumption DEF AdapterInit, Weight, Line, Absent, Down
  <2>2. conf \in Config /\ served \in Config
    BY <2>1, AlgorithmsAssumption DEF AdapterInit, Config
  <2>. QED
    BY <2>1, <2>2, EmptyIsConfig, AlgorithmsAssumption DEF AdapterInit, AdapterTypeOK
<1>2. AdapterTypeOK /\ [AdapterNext]_adapterVars => AdapterTypeOK'
  <2>. SUFFICES ASSUME AdapterTypeOK, [AdapterNext]_adapterVars
                PROVE  AdapterTypeOK'
    OBVIOUS
  <2>. USE EmptyIsConfig DEF AdapterTypeOK
  <2>1. ASSUME NEW t \in Threads, Call(t) PROVE AdapterTypeOK'
    <3>1. CASE \E w \in WeightMap : SetUpstreamWeights(t, w)
      BY <3>1 DEF SetUpstreamWeights, WeightMap, NothingToDo, StartRender,
                  Return, Overlap, memory
    <3>2. CASE \E b \in Backends : ExcludeBackend(t, b) \/ IncludeBackend(t, b)
      BY <3>2 DEF ExcludeBackend, IncludeBackend, NothingToDo, StartRender,
                  Return, Overlap, memory
    <3>3. CASE \E w \in WeightMap : ReconcileAndSet(t, Listed(w), w)
      BY <3>3 DEF ReconcileAndSet, WeightMap, StartRender, Return, Overlap
    <3>4. CASE \E a \in Algorithms : SetAlgorithm(t, a)
      <4>1. [b \in Backends |-> IF b \in Known THEN 1 ELSE Absent]
              \in [Backends -> Weight]
        BY WeightsAssumption DEF Weight
      <4>. QED
        BY <3>4, <4>1 DEF SetAlgorithm, NothingToDo, StartRender, Return,
                          Overlap, memory
    <3>. QED  BY <2>1, <3>1, <3>2, <3>3, <3>4 DEF Call
  <2>2. ASSUME NEW t \in Threads, RenderStep(t) PROVE AdapterTypeOK'
    <3>1. CASE Guard(t)
      BY <3>1 DEF Guard, Return, Advance, memory
    <3>2. CASE Resolve(t)
      BY <3>2 DEF Resolve, Advance, memory, UnresolvedHosts, Known, Listed
    <3>3. CASE Render(t)
      BY <3>3, RenderIsConfig DEF Render, Advance, memory
    <3>4. CASE Write(t)
      BY <3>4 DEF Write, Advance, memory
    <3>5. CASE Reload(t)
      BY <3>5 DEF Reload, Return, memory
    <3>6. CASE Raises(t)
      BY <3>6 DEF Raises, WriteRaises, ReloadRaises, Return, memory
    <3>. QED  BY <2>2, <3>1, <3>2, <3>3, <3>4, <3>5, <3>6 DEF RenderStep
  <2>3. CASE DnsChange
    BY <2>3 DEF DnsChange, memory, locals
  <2>4. ASSUME NEW seed \in SUBSET Backends, Restart(seed)
        PROVE  AdapterTypeOK'
    <3>1. weights' \in [Backends -> Weight]
      BY <2>4, WeightsAssumption
      DEF Restart, LoadStateFromConf, Config, Line, Weight, Absent, Down
    <3>2. excluded' \subseteq Backends /\ algorithm' \in Algorithms
      BY <2>4 DEF Restart, LoadStateFromConf, Config
    <3>. QED  BY <2>4, <3>1, <3>2 DEF Restart
  <2>5. CASE UNCHANGED adapterVars
    BY <2>5 DEF adapterVars, memory, locals
  <2>. QED  BY <2>1, <2>2, <2>3, <2>4, <2>5 DEF AdapterNext
<1>. QED  BY <1>1, <1>2, PTL DEF AdapterSpec

-----------------------------------------------------------------------------
\* The invariant behind UncontendedRenderIsExact: what an uncontended call
\* holds in its locals, and then what it has put on disk, renders the fields.
ExactInv ==
    \A t \in Threads : ~contended[t] =>
        /\ pc[t] = "write" => Reflects(text[t])
        /\ pc[t] = "reload" => Reflects(conf)

\* A step that changes neither the fields nor the file, and lets no thread but
\* t move, preserves what the other threads know.
LEMMA OthersKeepExact ==
    ASSUME AdapterTypeOK, ExactInv, NEW t \in Threads, NEW u \in Threads,
           u # t, contended'[u] = (contended[u] \/ ~Idle(u)),
           pc'[u] = pc[u]
    PROVE  ~contended'[u] => /\ pc'[u] # "write"
                             /\ pc'[u] # "reload"
BY DEF Idle

\* After a call that no other thread interfered with, upstream.conf renders
\* the adapter's fields exactly, whatever faults and races came before.
THEOREM UncontendedRenderCorrect == AdapterSpec => []UncontendedRenderIsExact
<1>1. AdapterInit => ExactInv
  BY DEF AdapterInit, ExactInv
<1>2. AdapterTypeOK /\ ExactInv /\ [AdapterNext]_adapterVars => ExactInv'
  <2>. SUFFICES ASSUME AdapterTypeOK, ExactInv, [AdapterNext]_adapterVars
                PROVE  ExactInv'
    OBVIOUS
  \* A thread that starts or ends a call holds no rendering; one that another
  \* thread interrupts is contended from then on.
  <2>1. ASSUME NEW t \in Threads, Return(t) \/ StartRender(t)
        PROVE  ExactInv'
    <3>. SUFFICES ASSUME NEW u \in Threads, ~contended'[u]
                  PROVE  pc'[u] # "write" /\ pc'[u] # "reload"
      BY DEF ExactInv
    <3>1. CASE u = t
      BY <2>1, <3>1 DEF Return, StartRender, AdapterTypeOK
    <3>2. CASE u # t
      BY <2>1, <3>2, OthersKeepExact
      DEF Return, StartRender, Overlap, AdapterTypeOK
    <3>. QED  BY <3>1, <3>2
  <2>2. ASSUME NEW t \in Threads, Call(t) PROVE ExactInv'
    BY <2>1, <2>2
    DEF Call, SetUpstreamWeights, ExcludeBackend, IncludeBackend,
        ReconcileAndSet, SetAlgorithm, NothingToDo
  <2>3. ASSUME NEW t \in Threads, RenderStep(t) PROVE ExactInv'
    <3>1. ASSUME NEW next, Advance(t, next), next \notin {"write", "reload"}
          PROVE  ExactInv'
      <4>. SUFFICES ASSUME NEW u \in Threads, ~contended'[u]
                    PROVE  pc'[u] # "write" /\ pc'[u] # "reload"
        BY DEF ExactInv
      <4>1. CASE u = t
        BY <3>1, <4>1 DEF Advance, AdapterTypeOK
      <4>2. CASE u # t
        BY <3>1, <4>2, OthersKeepExact DEF Advance, AdapterTypeOK
      <4>. QED  BY <4>1, <4>2
    <3>2. CASE Guard(t) \/ Resolve(t) \/ Reload(t) \/ Raises(t)
      BY <2>1, <3>1, <3>2
      DEF Guard, Resolve, Reload, Raises, WriteRaises, ReloadRaises
    <3>3. CASE Render(t)
      <4>. SUFFICES ASSUME NEW u \in Threads, ~contended'[u]
                    PROVE  /\ pc'[u] = "write" => Reflects(text[u])'
                           /\ pc'[u] # "reload"
        BY DEF ExactInv
      <4>1. CASE u = t
        <5>1. pc'[u] = "write"
          BY <3>3, <4>1 DEF Render, Advance, AdapterTypeOK
        <5>2. text'[u] = RenderConf(weights, excluded, algorithm, skip[t])
          BY <3>3, <4>1 DEF Render, AdapterTypeOK
        <5>3. Reflects(text'[u])
          BY <5>2, RenderReflects
        <5>. QED
          BY <3>3, <5>1, <5>3
          DEF Render, memory, Reflects, Known, Listed
      <4>2. CASE u # t
        BY <3>3, <4>2, OthersKeepExact DEF Render, Advance, AdapterTypeOK
      <4>. QED  BY <4>1, <4>2
    <3>4. CASE Write(t)
      <4>. SUFFICES ASSUME NEW u \in Threads, ~contended'[u]
                    PROVE  /\ pc'[u] # "write"
                           /\ pc'[u] = "reload" => Reflects(conf)'
        BY DEF ExactInv
      <4>1. CASE u = t
        <5>1. pc'[u] = "reload" /\ ~contended[u]
          BY <3>4, <4>1 DEF Write, Advance, AdapterTypeOK
        <5>2. Reflects(text[t])
          BY <3>4, <4>1, <5>1 DEF ExactInv, Write
        <5>. QED
          BY <3>4, <5>1, <5>2 DEF Write, memory, Reflects, Known, Listed
      <4>2. CASE u # t
        BY <3>4, <4>2, OthersKeepExact DEF Write, Advance, AdapterTypeOK
      <4>. QED  BY <4>1, <4>2
    <3>. QED  BY <2>3, <3>2, <3>3, <3>4 DEF RenderStep
  <2>4. CASE DnsChange \/ UNCHANGED adapterVars
    BY <2>4 DEF DnsChange, adapterVars, memory, locals, ExactInv, Reflects,
                Known, Listed
  <2>5. ASSUME NEW seed \in SUBSET Backends, Restart(seed)
        PROVE  ExactInv'
    BY <2>5 DEF Restart, ExactInv
  <2>. QED  BY <2>2, <2>3, <2>4, <2>5 DEF AdapterNext
<1>3. ExactInv => UncontendedRenderIsExact
  BY DEF ExactInv, UncontendedRenderIsExact
<1>. QED  BY <1>1, <1>2, <1>3, AdapterTypeCorrect, PTL DEF AdapterSpec

-----------------------------------------------------------------------------
\* The file between two calls of a thread that has the adapter to itself: it
\* routes to nothing the fields do not route to, and shows every exclusion of
\* a known backend.
ShowsExclusions(c) == \A b \in Known \cap excluded : c.server[b] = Down

Settled(c) == Honours(c) /\ ShowsExclusions(c)

\* The invariant behind the next two theorems.  A file that reflects the
\* fields when the call ends is settled; the calls that change a field and
\* render nothing, and the render that the safety net stops, keep it so.
SettledInv ==
    \A t \in Threads :
        /\ Idle(t) => AllExcluded \/ Settled(conf)
        /\ pc[t] = "write" => Reflects(text[t])
        /\ pc[t] = "reload" => Reflects(conf)

\* A rendering is settled.
LEMMA ReflectsSettles ==
    ASSUME NEW c \in Config, AdapterTypeOK, Reflects(c)
    PROVE  Settled(c)
BY DEF Settled, Honours, ShowsExclusions, Reflects, Active, Known, Listed, Config,
       Absent, Down, AdapterTypeOK

\* A line that is not absent or down has a weight.
LEMMA ActiveLineIsWeight ==
    ASSUME NEW n \in Line, n > 0 PROVE n \in Nat
BY WeightsAssumption DEF Line, Absent, Down

LEMMA SettledInitially == AdapterInit => SettledInv
<1>. SUFFICES ASSUME AdapterInit PROVE Settled(conf) /\ \A t \in Threads : pc[t] = "idle"
  BY DEF SettledInv
<1>. QED
  BY DEF AdapterInit, Settled, Honours, ShowsExclusions, Active, Known, Listed, Shown,
         Absent

\* The one thread there is moves, or the environment does.
LEMMA SettledStep ==
    ASSUME NEW one, Threads = {one}, ~Faults,
           AdapterTypeOK, SettledInv, [AdapterNext]_adapterVars
    PROVE  SettledInv'
<1>. USE DEF AdapterTypeOK
<1>1. ASSUME UNCHANGED <<memory, conf>>, pc'[one] = "idle",
             AllExcluded \/ Settled(conf)
      PROVE  SettledInv'
  BY <1>1 DEF SettledInv, Idle, AllExcluded, Settled, Honours, ShowsExclusions, Known,
              Listed, Active, memory
<1>2. ASSUME pc'[one] \notin {"idle", "write", "reload"}
      PROVE  SettledInv'
  BY <1>2 DEF SettledInv, Idle
<1>3. Idle(one) => AllExcluded \/ Settled(conf)
  BY DEF SettledInv
<1>4. ASSUME Idle(one), NothingToDo(one) PROVE SettledInv'
  BY <1>1, <1>3, <1>4 DEF NothingToDo, Return
<1>5. ASSUME StartRender(one) PROVE SettledInv'
  BY <1>2, <1>5 DEF StartRender
<1>6. CASE Call(one)
  <2>1. CASE \E w \in WeightMap : SetUpstreamWeights(one, w)
    BY <1>4, <1>5, <2>1 DEF SetUpstreamWeights
  <2>2. CASE \E b \in Backends : ExcludeBackend(one, b) \/ IncludeBackend(one, b)
    BY <1>4, <1>5, <2>2 DEF ExcludeBackend, IncludeBackend
  \* The exclusions of backends that are gone are dropped without a render,
  \* when the weights stay as they are.
  <2>3. ASSUME NEW w \in WeightMap, ReconcileAndSet(one, Listed(w), w)
        PROVE  SettledInv'
    <3>1. CASE StartRender(one)
      BY <1>5, <3>1
    <3>2. CASE w = weights /\ Return(one) /\ UNCHANGED <<weights, conf>>
      <4>1. /\ Idle(one) /\ excluded' = excluded \cap Known
            /\ algorithm' = algorithm
        BY <2>3, <3>2 DEF ReconcileAndSet, Known
      <4>2. AllExcluded \/ Settled(conf)
        BY <1>3, <4>1
      <4>3. CASE AllExcluded
        BY <3>2, <4>1, <4>3 DEF AllExcluded, Known, Listed, SettledInv, Return, Idle
      <4>4. CASE Settled(conf)
        <5>1. Settled(conf)'
          BY <3>2, <4>1, <4>4
          DEF Settled, Honours, ShowsExclusions, Known, Listed, Active
        <5>. QED  BY <3>2, <5>1 DEF SettledInv, Return, Idle
      <4>. QED  BY <4>2, <4>3, <4>4
    <3>. QED  BY <2>3, <3>1, <3>2 DEF ReconcileAndSet
  <2>4. CASE \E a \in Algorithms : SetAlgorithm(one, a)
    BY <1>4, <1>5, <2>4 DEF SetAlgorithm
  <2>. QED  BY <1>6, <2>1, <2>2, <2>3, <2>4 DEF Call
<1>7. CASE RenderStep(one)
  <2>1. CASE Guard(one)
    BY <1>1, <1>2, <2>1 DEF Guard, Return, Advance
  <2>2. CASE Resolve(one)
    BY <1>2, <2>2 DEF Resolve, Advance
  <2>3. CASE Render(one)
    <3>1. pc'[one] = "write"
      BY <2>3 DEF Render, Advance
    <3>2. text'[one] = RenderConf(weights, excluded, algorithm, skip[one])
      BY <2>3 DEF Render
    <3>3. Reflects(text'[one])
      BY <3>2, RenderReflects
    <3>4. Reflects(text[one])'
      BY <2>3, <3>3 DEF Render, memory, Reflects, Known, Listed
    <3>. QED  BY <3>1, <3>4 DEF SettledInv, Idle
  <2>4. CASE Write(one)
    <3>1. pc'[one] = "reload" /\ Reflects(text[one])
      BY <2>4 DEF Write, Advance, SettledInv
    <3>2. Reflects(conf)'
      BY <2>4, <3>1 DEF Write, memory, Reflects, Known, Listed
    <3>. QED  BY <3>1, <3>2 DEF SettledInv, Idle
  <2>5. CASE Reload(one) \/ Raises(one)
    <3>1. pc[one] = "reload"
      BY <2>5 DEF Reload, Raises, WriteRaises, ReloadRaises
    <3>2. Settled(conf)
      BY <3>1, ReflectsSettles DEF SettledInv
    <3>. QED
      BY <1>1, <2>5, <3>2 DEF Reload, Raises, WriteRaises, ReloadRaises, Return
  <2>. QED  BY <1>7, <2>1, <2>2, <2>3, <2>4, <2>5 DEF RenderStep
<1>8. CASE DnsChange \/ UNCHANGED adapterVars
  BY <1>8 DEF DnsChange, adapterVars, memory, locals, SettledInv, Idle, AllExcluded,
              Settled, Honours, ShowsExclusions, Reflects, Known, Listed, Active
\* The constructor takes its fields from the file.
<1>9. ASSUME NEW seed \in SUBSET Backends, Restart(seed) PROVE SettledInv'
  <2>1. \A b \in Backends : conf.server[b] \in Line
    BY DEF Config
  <2>2. Honours(conf)'
    <3>. SUFFICES ASSUME NEW b \in Backends, conf.server[b] > 0
                  PROVE  /\ weights'[b] # Absent /\ b \notin excluded'
                         /\ conf.server[b] = Shown(weights'[b])
      BY <1>9 DEF Restart, LoadStateFromConf, Honours, Known, Listed, Active
    <3>1. weights'[b] = conf.server[b]
      BY <1>9 DEF Restart, LoadStateFromConf
    <3>2. conf.server[b] \in Nat
      BY <2>1, ActiveLineIsWeight
    <3>3. b \notin excluded'
      BY <1>9, <3>2 DEF Restart, LoadStateFromConf, Down
    <3>. QED
      BY <3>1, <3>2, <3>3 DEF Shown, Absent
  <2>3. ShowsExclusions(conf)'
    BY <1>9 DEF Restart, LoadStateFromConf, ShowsExclusions
  <2>. QED  BY <1>9, <2>2, <2>3 DEF Restart, SettledInv, Settled, Idle
<1>. QED  BY <1>6, <1>7, <1>8, <1>9 DEF AdapterNext

\* With the adapter to itself and a disk that works, a thread leaves a file
\* between two calls that routes to no excluded or unknown backend, unless
\* every backend is excluded.
THEOREM SettledFileCorrect ==
    ASSUME NEW one, Threads = {one}, ~Faults
    PROVE  AdapterSpec => []SettledFileHonoursMemory
<1>1. AdapterTypeOK /\ SettledInv /\ [AdapterNext]_adapterVars => SettledInv'
  BY SettledStep
<1>2. SettledInv => SettledFileHonoursMemory
  BY DEF SettledInv, SettledFileHonoursMemory, Quiet, Settled
<1>. QED
  BY <1>1, <1>2, SettledInitially, AdapterTypeCorrect, PTL DEF AdapterSpec

\* Under the same conditions a restart imports every exclusion whose host
\* still resolves: what was in the fields had reached the file.
THEOREM ExclusionsSurvive ==
    ASSUME NEW one, Threads = {one}, ~Faults
    PROVE  AdapterSpec => ExclusionSurvivesRestart
<1>. DEFINE Survives ==
       (\E seed \in (SUBSET Backends) \ {{}} : Restart(seed)) /\ Quiet /\ ~AllExcluded
         => Known \cap excluded \cap resolvable \subseteq excluded'
<1>1. AdapterTypeOK /\ SettledInv /\ [AdapterNext]_adapterVars => SettledInv'
  BY SettledStep
<1>2. SettledInv => [Survives]_adapterVars
  <2>. SUFFICES ASSUME SettledInv, Quiet, ~AllExcluded,
                       NEW seed, Restart(seed),
                       NEW b \in Known \cap excluded \cap resolvable
                PROVE  b \in excluded'
    OBVIOUS
  <2>1. Settled(conf)
    BY DEF SettledInv, Quiet
  <2>2. conf.server[b] = Down
    BY <2>1 DEF Settled, ShowsExclusions
  <2>. QED  BY <2>2 DEF Restart, LoadStateFromConf
<1>. QED
  BY <1>1, <1>2, SettledInitially, AdapterTypeCorrect, PTL
  DEF AdapterSpec, ExclusionSurvivesRestart

-----------------------------------------------------------------------------
(* The sidecar.                                                            *)
-----------------------------------------------------------------------------
\* The pool a handler believes in is never empty, nor outside the backends.
LEMMA DiscoveredIsAPool ==
    ASSUME pool \subseteq Backends, NEW live \in Discovered
    PROVE  live \in (SUBSET Backends) \ {{}}
BY SeedAssumption DEF Discovered, Answer

\* A map of equal weights names exactly the pool it was made for.
LEMMA EqualWeightsOfPool ==
    ASSUME NEW live \in (SUBSET Backends) \ {{}}
    PROVE  /\ RW!EqualWeights(live) \in WeightMap
           /\ Listed(RW!EqualWeights(live)) = live
<1>1. RW!EqualWeights(live) \in [Backends -> Weight]
  BY WeightsAssumption DEF RW!EqualWeights, Weight
<1>2. \A b \in Backends : RW!EqualWeights(live)[b] # Absent <=> b \in live
  BY DEF RW!EqualWeights, Absent
<1>3. Listed(RW!EqualWeights(live)) = live
  BY <1>2 DEF Listed
<1>. QED  BY <1>1, <1>3 DEF WeightMap

-----------------------------------------------------------------------------
\* What is the sidecar's own in the type invariant.
OwnTypeOK ==
    /\ pool \subseteq Backends
    /\ health \in [Backends -> Status \cup {"none"}]
    /\ phase \in {"hydrate", "ready"}
    /\ rows \subseteq Backends \X Status
    /\ todo \subseteq rows
    /\ view \subseteq Backends
    /\ verdict \in Backends \cup {NoVerdict}
    /\ blind \in BOOLEAN
    /\ late \subseteq pool
    /\ safeMode \in BOOLEAN
    /\ threshold \in Thresholds \cup {0}

\* The sidecar's own part of the type invariant holds by itself.
LEMMA OwnTypeCorrect == Spec => []OwnTypeOK
<1>1. Init => OwnTypeOK
  BY SeedAssumption DEF Init, OwnTypeOK, Status
<1>2. OwnTypeOK /\ [Next]_vars => OwnTypeOK'
  <2>. SUFFICES ASSUME OwnTypeOK, [Next]_vars PROVE OwnTypeOK'
    OBVIOUS
  <2>. USE DEF OwnTypeOK
  <2>1. CASE TakeMessage
    <3>1. view' \in Discovered
      BY <2>1 DEF TakeMessage, Discovered
    <3>2. view' \subseteq Backends
      BY <3>1, DiscoveredIsAPool
    <3>. QED  BY <2>1, <3>2 DEF TakeMessage, hydration, policyState
  <2>2. CASE Dismiss \/ HandleRouting \/ HandleScale \/ ApplyVerdict
    BY <2>2 DEF Dismiss, HandleRouting, HandleScale, ApplyVerdict, Handled,
                hydration, policyState
  <2>3. ASSUME NEW b \in Backends, HandleUnhealthy(b) \/ HandleHealthy(b)
        PROVE  OwnTypeOK'
    BY <2>3 DEF HandleUnhealthy, HandleHealthy, Handled, hydration, policyState
  <2>4. ASSUME NEW sm \in BOOLEAN, NEW th \in Thresholds, HandlePolicy(sm, th)
        PROVE  OwnTypeOK'
    BY <2>4 DEF HandlePolicy, Handled, hydration
  <2>5. CASE HydrateRow
    BY <2>5 DEF HydrateRow, message, policyState
  <2>6. CASE Hydrated
    BY <2>6 DEF Hydrated, Ready, message, policyState
  <2>7. ASSUME NEW t, RenderGoesOn(t) \/ RenderFails(t) PROVE OwnTypeOK'
    BY <2>7 DEF RenderGoesOn, RenderFails, Ready, sidecarVars, hydration,
                message, policyState
  <2>8. ASSUME NEW t, PostWeights(t) \/ PostAlgorithm(t) PROVE OwnTypeOK'
    BY <2>8 DEF PostWeights, PostAlgorithm, sidecarVars, hydration, message,
                policyState
  <2>9. CASE Boot
    <3>1. rows' \subseteq Backends \X Status
      BY <2>9 DEF Boot
    <3>. QED  BY <2>9, <3>1 DEF Boot, Handled
  <2>10. ASSUME NEW b \in Backends, ContainerStarts(b) \/ ContainerStops(b)
         PROVE  OwnTypeOK'
    BY <2>10 DEF ContainerStarts, ContainerStops, hydration, policyState
  <2>11. ASSUME NEW b \in Backends, NameResolves(b) PROVE OwnTypeOK'
    BY <2>11 DEF NameResolves, sidecarVars, hydration, message, policyState
  <2>12. ASSUME NEW b \in Backends, NEW s \in Status, HealthRow(b, s)
         PROVE  OwnTypeOK'
    BY <2>12 DEF HealthRow, hydration, message, policyState
  <2>13. CASE UNCHANGED vars
    BY <2>13 DEF vars, sidecarVars, hydration, message, policyState
  <2>. QED  BY <2>1, <2>2, <2>3, <2>4, <2>5, <2>6, <2>7, <2>8, <2>9, <2>10,
               <2>11, <2>12, <2>13 DEF Next, LoopNext, HttpNext, EnvNext
<1>. QED  BY <1>1, <1>2, PTL DEF Spec

-----------------------------------------------------------------------------
\* Whatever messages, requests, failures and restarts come, all the sidecar
\* does to the fields, the file and NGINX is a sequence of calls of the
\* adapter: it implements the adapter's specification.
THEOREM SidecarImplementsAdapter == Spec => AdapterSpec
<1>1. Init => AdapterInit
  BY DEF Init
<1>2. OwnTypeOK /\ [Next]_vars => [AdapterNext]_adapterVars
  <2>. SUFFICES ASSUME OwnTypeOK, Next PROVE [AdapterNext]_adapterVars
    BY DEF vars
  <2>. USE LoopAssumption DEF OwnTypeOK
  <2>0. ASSUME NEW t \in Threads, Call(t) \/ RenderStep(t)
        PROVE  [AdapterNext]_adapterVars
    BY <2>0 DEF AdapterNext
  <2>1. CASE HandleRouting
    <3>1. PICK ranking \in [Backends -> Scores \cup {Absent}] :
             SetUpstreamWeights(Loop, RW!PoolWeights(ranking, view))
      BY <2>1 DEF HandleRouting
    <3>2. RW!PoolWeights(ranking, view) \in WeightMap
      BY <2>1, ClosedAssumption DEF HandleRouting, InHand
    <3>. QED  BY <2>0, <3>1, <3>2 DEF Call
  <2>2. CASE HandleScale
    <3>1. ReconcileAndSet(Loop, view, RW!EqualWeights(view))
      BY <2>2 DEF HandleScale
    <3>2. /\ RW!EqualWeights(view) \in WeightMap
          /\ Listed(RW!EqualWeights(view)) = view
      BY <2>2, EqualWeightsOfPool DEF HandleScale, InHand
    <3>. QED  BY <2>0, <3>1, <3>2 DEF Call
  <2>3. ASSUME TakeMessage \/ Dismiss \/ \E b \in Backends : HandleUnhealthy(b)
        PROVE  UNCHANGED adapterVars
    BY <2>3 DEF TakeMessage, Dismiss, HandleUnhealthy
  <2>4. ASSUME NEW b \in Backends, HandleHealthy(b)
        PROVE  [AdapterNext]_adapterVars
    BY <2>0, <2>4 DEF HandleHealthy, Call
  <2>5. CASE ApplyVerdict
    BY <2>0, <2>5 DEF ApplyVerdict, Call
  <2>6. ASSUME NEW sm \in BOOLEAN, NEW th \in Thresholds, HandlePolicy(sm, th)
        PROVE  [AdapterNext]_adapterVars
    <3>1. CASE UNCHANGED adapterVars
      BY <3>1
    <3>2. CASE SetUpstreamWeights(Loop, RW!EqualWeights(view))
      <4>1. RW!EqualWeights(view) \in WeightMap
        BY <2>6, EqualWeightsOfPool DEF HandlePolicy, InHand
      <4>. QED  BY <2>0, <3>2, <4>1 DEF Call
    <3>. QED  BY <2>6, <3>1, <3>2 DEF HandlePolicy
  <2>7. CASE HydrateRow
    <3>1. PICK r \in todo : ExcludeBackend(Loop, r[1]) \/ IncludeBackend(Loop, r[1])
      BY <2>7 DEF HydrateRow
    <3>2. r[1] \in Backends
      OBVIOUS
    <3>. QED  BY <2>0, <3>1, <3>2 DEF Call
  <2>8. CASE Hydrated
    BY <2>8 DEF Hydrated
  <2>9. ASSUME NEW t \in Threads, RenderGoesOn(t) \/ RenderFails(t)
        PROVE  [AdapterNext]_adapterVars
    BY <2>0, <2>9 DEF RenderGoesOn, RenderFails, RenderStep
  <2>10. ASSUME NEW t \in Threads, PostWeights(t) \/ PostAlgorithm(t)
         PROVE  [AdapterNext]_adapterVars
    BY <2>0, <2>10 DEF PostWeights, PostAlgorithm, Call
  <2>11. CASE Boot
    <3>1. PICK seed \in Discovered : Restart(seed)
      BY <2>11 DEF Boot
    <3>. QED  BY <3>1, DiscoveredIsAPool DEF AdapterNext
  <2>12. ASSUME NEW b \in Backends,
                ContainerStarts(b) \/ \E s \in Status : HealthRow(b, s)
         PROVE  UNCHANGED adapterVars
    BY <2>12 DEF ContainerStarts, HealthRow
  <2>13. ASSUME NEW b \in Backends, ContainerStops(b)
         PROVE  [AdapterNext]_adapterVars
    <3>1. CASE b \in resolvable
      BY <2>13, <3>1 DEF ContainerStops, DnsChange, AdapterNext
    <3>2. CASE b \notin resolvable
      BY <2>13, <3>2 DEF ContainerStops, adapterVars
    <3>. QED  BY <3>1, <3>2
  <2>14. ASSUME NEW b \in Backends, NameResolves(b)
         PROVE  [AdapterNext]_adapterVars
    BY <2>14 DEF NameResolves, DnsChange, AdapterNext
  <2>. QED  BY <2>1, <2>2, <2>3, <2>4, <2>5, <2>6, <2>7, <2>8, <2>9, <2>10,
               <2>11, <2>12, <2>13, <2>14
            DEF Next, LoopNext, HttpNext, EnvNext
<1>. QED  BY <1>1, <1>2, OwnTypeCorrect, PTL DEF Spec, AdapterSpec

\* Inside the sidecar too, a render nobody interfered with is exact.
THEOREM SidecarRenderCorrect == Spec => []UncontendedRenderIsExact
BY SidecarImplementsAdapter, UncontendedRenderCorrect, PTL

\* The type invariant of the sidecar, with the adapter's in it.
THEOREM SidecarTypeCorrect == Spec => []SidecarTypeOK
<1>1. OwnTypeOK /\ AdapterTypeOK => SidecarTypeOK
  BY DEF OwnTypeOK, SidecarTypeOK
<1>. QED
  BY <1>1, OwnTypeCorrect, SidecarImplementsAdapter, AdapterTypeCorrect, PTL
-----------------------------------------------------------------------------
\* What a handler may rely on in its view: the running containers are in it,
\* but for those that started after Docker was asked; a query that failed has
\* left the seed list.
ViewInv ==
    /\ view # {} /\ ~blind => pool \subseteq view \cup late
    /\ blind => view = Seed

LEMMA ViewCorrect == Spec => []ViewInv
<1>1. Init => ViewInv
  BY DEF Init, ViewInv
<1>2. OwnTypeOK /\ ViewInv /\ [Next]_vars => ViewInv'
  <2>. SUFFICES ASSUME OwnTypeOK, ViewInv, [Next]_vars PROVE ViewInv'
    OBVIOUS
  <2>. USE DEF ViewInv
  <2>1. CASE TakeMessage
    BY <2>1 DEF TakeMessage, Answer
  <2>2. ASSUME Handled PROVE ViewInv'
    BY <2>2 DEF Handled
  <2>3. CASE \/ Dismiss \/ HandleRouting \/ HandleScale \/ ApplyVerdict \/ Boot
             \/ \E b \in Backends : HandleHealthy(b)
             \/ \E sm \in BOOLEAN, th \in Thresholds : HandlePolicy(sm, th)
    BY <2>2, <2>3 DEF Dismiss, HandleRouting, HandleScale, ApplyVerdict, Boot,
                      HandleHealthy, HandlePolicy
  <2>4. ASSUME UNCHANGED <<pool, view, blind, late>> PROVE ViewInv'
    BY <2>4
  <2>5. CASE \/ HydrateRow \/ Hydrated \/ UNCHANGED vars
             \/ \E t \in Threads : \/ RenderGoesOn(t) \/ RenderFails(t)
                                   \/ PostWeights(t) \/ PostAlgorithm(t)
             \/ \E b \in Backends : \/ HandleUnhealthy(b) \/ NameResolves(b)
                                    \/ \E s \in Status : HealthRow(b, s)
    BY <2>4, <2>5
    DEF HydrateRow, Hydrated, RenderGoesOn, RenderFails, PostWeights,
        PostAlgorithm, HandleUnhealthy, NameResolves, HealthRow, vars,
        sidecarVars, message
  <2>6. ASSUME NEW b \in Backends, ContainerStarts(b) \/ ContainerStops(b)
        PROVE  ViewInv'
    BY <2>6 DEF ContainerStarts, ContainerStops
  <2>. QED  BY <2>1, <2>3, <2>5, <2>6, LoopAssumption
            DEF Next, LoopNext, HttpNext, EnvNext
<1>. QED  BY <1>1, <1>2, OwnTypeCorrect, PTL DEF Spec

\* No message and no operator request lifts the exclusion of a running
\* backend, only a verdict on it or a restart: a scale event, whose answer of
\* Docker is old when it is used, lifts at most those of backends that started
\* in between or, when the query failed, of those the seed list does not name.
THEOREM LiveExclusionCorrect == Spec => LiveExclusionStands
<1>. DEFINE Lifts(b) == \/ HandleHealthy(b) \/ HydrateRow \/ Boot
                        \/ HandleScale /\ (b \in late \/ (blind /\ b \notin Seed))
            Stands == \A b \in pool : b \in excluded /\ b \notin excluded'
                         => Lifts(b)
<1>1. ViewInv /\ [Next]_vars => [Stands]_vars
  <2>. SUFFICES ASSUME ViewInv, Next, NEW b \in pool, b \in excluded, b \notin excluded'
                PROVE  Lifts(b)
    OBVIOUS
  <2>1. ASSUME NEW t, NEW w, SetUpstreamWeights(t, w) PROVE FALSE
    BY <2>1 DEF SetUpstreamWeights, NothingToDo, memory
  <2>2. CASE TakeMessage \/ Dismiss \/ HandleRouting
    BY <2>1, <2>2 DEF TakeMessage, Dismiss, HandleRouting, adapterVars, memory
  <2>3. CASE HandleScale
    <3>1. b \notin view /\ view # {}
      BY <2>3 DEF HandleScale, ReconcileAndSet, InHand
    <3>2. b \in late \/ (blind /\ b \notin Seed)
      BY <3>1 DEF ViewInv
    <3>. QED  BY <2>3, <3>2
  <2>4. ASSUME NEW c \in Backends, HandleUnhealthy(c) PROVE FALSE
    BY <2>4 DEF HandleUnhealthy, adapterVars, memory
  <2>5. ASSUME NEW c \in Backends, HandleHealthy(c) PROVE HandleHealthy(b)
    <3>1. b = c
      BY <2>5 DEF HandleHealthy, IncludeBackend, NothingToDo, memory
    <3>. QED  BY <2>5, <3>1
  <2>6. CASE ApplyVerdict
    BY <2>6 DEF ApplyVerdict, ExcludeBackend, NothingToDo, memory
  <2>7. ASSUME NEW sm \in BOOLEAN, NEW th \in Thresholds, HandlePolicy(sm, th)
        PROVE  FALSE
    BY <2>1, <2>7 DEF HandlePolicy, adapterVars, memory
  <2>8. CASE Hydrated
    BY <2>8 DEF Hydrated, adapterVars, memory
  <2>9. ASSUME NEW t \in Threads, RenderGoesOn(t) \/ RenderFails(t) PROVE FALSE
    BY <2>9 DEF RenderGoesOn, RenderFails, Guard, Resolve, Render, Write,
                Reload, Raises, WriteRaises, ReloadRaises, memory
  <2>10. ASSUME NEW t \in Threads, PostWeights(t) \/ PostAlgorithm(t)
         PROVE  FALSE
    BY <2>1, <2>10 DEF PostWeights, PostAlgorithm, SetAlgorithm, NothingToDo,
                       memory
  <2>11. ASSUME NEW c \in Backends,
                \/ ContainerStarts(c) \/ ContainerStops(c) \/ NameResolves(c)
                \/ \E s \in Status : HealthRow(c, s)
         PROVE  FALSE
    BY <2>11 DEF ContainerStarts, ContainerStops, NameResolves, HealthRow,
                 adapterVars, memory
  <2>. QED  BY <2>2, <2>3, <2>4, <2>5, <2>6, <2>7, <2>8, <2>9, <2>10, <2>11,
               LoopAssumption
            DEF Next, LoopNext, HttpNext, EnvNext
<1>. QED  BY <1>1, ViewCorrect, PTL DEF Spec, LiveExclusionStands

-----------------------------------------------------------------------------
\* The run loop alone, on a disk that works: the file between two messages,
\* and after a hydration, honours the fields.
THEOREM SidecarFileSettles ==
    ASSUME Threads = {Loop}, ~Faults
    PROVE  Spec => []SettledFileHonoursMemory
<1>1. AdapterSpec => []SettledFileHonoursMemory
  BY SettledFileCorrect
<1>. QED  BY <1>1, SidecarImplementsAdapter, PTL

\* ... and what the file says of exclusions survives the sidecar's restart.
THEOREM SidecarExclusionsSurvive ==
    ASSUME Threads = {Loop}, ~Faults
    PROVE  Spec => ExclusionSurvivesRestart
<1>1. AdapterSpec => ExclusionSurvivesRestart
  BY ExclusionsSurvive
<1>. QED  BY <1>1, SidecarImplementsAdapter, PTL

-----------------------------------------------------------------------------
\* What hydration has done so far: every row it has applied still stands, as
\* no two rows speak of one backend and nothing else touches the exclusions.
HydrationInv ==
    phase = "hydrate" =>
        /\ view = {} /\ verdict = NoVerdict
        /\ \A r, s \in rows : r[1] = s[1] => r = s
        /\ \A r \in rows \ todo : r[2] = "unhealthy" <=> r[1] \in excluded

LEMMA HydrationStep ==
    ASSUME OwnTypeOK, HydrationInv, [Next]_vars
    PROVE  HydrationInv'
<1>1. ASSUME phase' = "ready" PROVE HydrationInv'
  BY <1>1 DEF HydrationInv
<1>2. ASSUME UNCHANGED <<hydration, view, verdict, excluded>> PROVE HydrationInv'
  BY <1>2 DEF HydrationInv, hydration
\* The handlers wait for the end of hydration.
<1>3. ASSUME phase = "ready", UNCHANGED phase PROVE HydrationInv'
  BY <1>1, <1>3
<1>4. CASE \/ TakeMessage \/ Dismiss \/ HandleRouting \/ HandleScale
           \/ \E b \in Backends : HandleUnhealthy(b) \/ HandleHealthy(b)
           \/ \E sm \in BOOLEAN, th \in Thresholds : HandlePolicy(sm, th)
  BY <1>3, <1>4 DEF TakeMessage, Dismiss, HandleRouting, HandleScale,
                    HandleUnhealthy, HandleHealthy, HandlePolicy, LoopFree, InHand,
                    HydrationInv, OwnTypeOK, hydration
<1>5. CASE ApplyVerdict
  BY <1>3, <1>5 DEF ApplyVerdict, HydrationInv, OwnTypeOK, hydration
<1>6. CASE HydrateRow
  <2>1. PICK r \in todo :
           /\ \/ r[2] = "unhealthy" /\ ExcludeBackend(Loop, r[1])
              \/ r[2] = "healthy" /\ IncludeBackend(Loop, r[1])
           /\ todo' = todo \ {r}
    BY <1>6 DEF HydrateRow
  <2>2. /\ phase = "hydrate" /\ UNCHANGED <<phase, rows, view, verdict>>
    BY <1>6 DEF HydrateRow, message
  <2>3. /\ r[2] = "unhealthy" <=> r[1] \in excluded'
        /\ \A b : b # r[1] => (b \in excluded' <=> b \in excluded)
    BY <2>1 DEF ExcludeBackend, IncludeBackend, NothingToDo, memory
  <2>4. ASSUME NEW s \in rows \ todo'
        PROVE  s[2] = "unhealthy" <=> s[1] \in excluded'
    <3>1. CASE s = r
      BY <2>3, <3>1
    <3>2. CASE s # r
      <4>1. s \in rows \ todo /\ s[1] # r[1]
        BY <2>1, <2>2, <3>2 DEF HydrationInv, OwnTypeOK
      <4>. QED  BY <2>2, <2>3, <4>1 DEF HydrationInv
    <3>. QED  BY <3>1, <3>2
  <2>. QED  BY <2>2, <2>4 DEF HydrationInv
<1>7. CASE Hydrated
  BY <1>1, <1>7 DEF Hydrated, Ready
<1>8. ASSUME NEW t, RenderGoesOn(t) \/ RenderFails(t) PROVE HydrationInv'
  <2>1. UNCHANGED <<view, verdict, excluded>>
    BY <1>8 DEF RenderGoesOn, RenderFails, Guard, Resolve, Render, Write, Reload,
                Raises, WriteRaises, ReloadRaises, memory, sidecarVars, message
  <2>2. phase' = "ready" \/ UNCHANGED hydration
    BY <1>8 DEF RenderGoesOn, RenderFails, Ready, sidecarVars
  <2>. QED  BY <1>1, <1>2, <2>1, <2>2
<1>9. ASSUME NEW t, PostWeights(t) \/ PostAlgorithm(t) PROVE HydrationInv'
  BY <1>3, <1>9 DEF PostWeights, PostAlgorithm, sidecarVars, hydration
<1>10. CASE Boot
  <2>1. \A r, s \in rows' : r[1] = s[1] => r = s
    BY <1>10 DEF Boot
  <2>. QED  BY <1>10, <2>1 DEF Boot, Handled, HydrationInv
<1>11. ASSUME NEW b \in Backends,
              \/ ContainerStarts(b) \/ ContainerStops(b) \/ NameResolves(b)
              \/ \E s \in Status : HealthRow(b, s)
       PROVE  HydrationInv'
  BY <1>2, <1>11 DEF ContainerStarts, ContainerStops, NameResolves, HealthRow,
                     adapterVars, memory, sidecarVars, message
<1>12. CASE UNCHANGED vars
  BY <1>2, <1>12 DEF vars, adapterVars, memory, sidecarVars, message
<1>. QED  BY <1>4, <1>5, <1>6, <1>7, <1>8, <1>9, <1>10, <1>11, <1>12
          DEF Next, LoopNext, HttpNext, EnvNext

\* A hydration that comes to its end leaves the exclusions the rows say, in
\* whatever order it took them and whatever upstream.conf said.
THEOREM HydrationCorrect == Spec => HydrationRestoresVerdicts
<1>. DEFINE Restored == Hydrated => \A r \in rows : r[2] = "unhealthy" <=> r[1] \in excluded
<1>1. Init => HydrationInv
  BY DEF Init, HydrationInv
<1>2. OwnTypeOK /\ HydrationInv /\ [Next]_vars => HydrationInv'
  BY HydrationStep
<1>3. HydrationInv => [Restored]_vars
  BY DEF HydrationInv, Hydrated
<1>. QED
  BY <1>1, <1>2, <1>3, OwnTypeCorrect, PTL DEF Spec, HydrationRestoresVerdicts

=============================================================================
