# Verification of SmartLoad's decision plane

SmartLoad steers an NGINX load balancer with several services that talk over
Redis pub/sub and share a TimescaleDB database. This directory holds TLA+ models
of the parts where interleavings, failures and stale views decide what NGINX
ends up doing, TLC configurations that check them on small instances, and TLAPS
proofs of the results that hold for every instance. Paths below are relative to
the repository root; `PROJECT.json` maps each definition to the lines it stands
for, and lists hazards, runs, mutants, findings and theorems.

## 1. The system

    access log -> lb-otel-shipper -> collector -> telemetry
                                                      |
                       .------------------------------'
                       v
                  TimescaleDB  ->  anomaly-detector  --smartload.anomaly-->  lb-sidecar
                       |        ->  rl-engine         --smartload.routing-->      |
                       |        ->  forecasting --smartload.forecast--> autoscaler |
                       |                                 |--smartload.scale------->|
                  backend_health <-- anomaly-detector                              v
                       '-- read once when the sidecar starts -->     upstream.conf -> NGINX
    policy-manager --smartload.policy--> every service
    operator-ui (bff) --HTTP--> manual scale, manual isolate, policy, weights

Each service has one background thread (the run loop) and a threaded HTTP
server in the same process. Redis pub/sub keeps nothing: a message published
while the receiver is down or reconnecting is lost. Channels are independent,
so nothing orders messages of different publishers. An envelope older than its
channel's TTL is dropped by the receiver (`services/shared/contracts.py:177`).

### Components

| Component | State | Operations | What is hard | What makes it correct |
|---|---|---|---|---|
| **NGINX adapter** `services/shared/lb_adapters/nginx` | fields `_weights`, `_excluded`, `_algorithm`; the file `upstream.conf`; NGINX's loaded configuration | `set_upstream_weights`, `exclude_backend`, `include_backend`, `reconcile_excluded`, `set_algorithm`, constructor that re-reads the file | no lock, two threads, a DNS wait in the middle of a render, write and reload can fail, restart from the file | the file renders the fields; no excluded backend is routed to; exclusions survive a restart |
| **LB sidecar** `services/lb-sidecar` | `PolicyState`, exclusion and weights through the adapter, `BackendRegistry` | handlers of four channels, hydration from `backend_health`, HTTP writes, reconnects | messages out of order, stale or lost; Docker's view changes or fails; restart in the middle of anything | quorum of active backends; an exclusion is lifted only by a verdict; safe mode dominates; hydration restores the verdicts |
| **Anomaly detector** `services/anomaly-detector` | per backend: stability gate, outlier streak, exclusion clock, "already re-admitted" flag; rows in `backend_health` | inference cycle (score, gate, peer suppression, recovery, publish), policy reload, manual isolate, restart hydration | a benched backend produces no evidence; restart; operator and loop write the same rows | benched and tracked are the same set; every exclusion ends unless there is fresh evidence; operator isolates stand |
| **Routing weights** `services/lb-sidecar/runloop.py` | none | `scores_to_weights`, the floor merge, `clamp_weight_skew` | rounding, ties, floors, partial rankings | order kept, whole pool served, skew below the detector's margin, idempotence |
| **Autoscaler** `services/autoscaler` | policy, three cooldown clocks, confirmation streak, the ceiling in its cluster client; the containers | forecast and fallback readings, two controllers, manual scale, policy messages, cluster client | manual scale on an HTTP thread against the loop; a failure after containers were started; a healthcheck that times out in the middle of a jump | the pool stays within the policy's bounds, cooldowns hold, a scale-in is confirmed, the announced count is the true one |
| **Policy manager** `services/policy-manager` | `policy.yaml` with its version, audit rows, named strategies | `POST` policy, `POST` strategy: read, merge, check, write, audit, publish | eight request threads without a lock; an empty file between truncation and write; crashes; publishes out of version order, or lost | the bounds are ordered wherever they are read; services hold policies somebody wrote; those that were told agree with the file |
| **RL engine** `services/rl-engine` | mode, policy, verdicts with their age, a database session | inference cycle, policy and verdict messages, start-up pull, reconnect, `/health` | verdicts expire while cycles fail; the database goes away at any point | verdicts hold their time; a broken session is replaced; a stuck loop is visible |
| **Forecasting** `services/forecasting` | fitted model, policy | fit and publish ticks, policy messages | numeric | follows the policy like the other services that compare versions |
| **Log shipper, resource collector, telemetry** `services/lb-otel-shipper`, `services/resource-collector`, `services/telemetry` | name cache, buffer, drop counters; the metrics table | tail, resolve, flush, post; poll, post; ingest in a transaction | reused addresses, DNS failures, refused and late posts, restarts, rotation | nothing vanishes uncounted; a batch is stored whole; an old owner of an address is forgotten |
| **Shared contracts and library** `services/shared` | none | envelope building, parsing, TTL, configuration, metrics | malformed and stale input | parse never raises; stale is dropped |
| **Adapter stubs** | none | raise `NotImplementedError` | - | - |
| **Operator UI backend** `services/operator-ui/bff` and the stream of the **client SDK** | ring buffers, a queue per stream | aggregate, proxy, live feed over server-sent events | a stream opens while the feed appends and broadcasts; full queues; silence | no entry falls between replay and live; silence ends no stream |
| **Demo UI** `tools/demo-ui`, test backends, web UI, experiments | - | - | outside the decision plane | - |

### How the modelled parts interact

- The sidecar's run loop and its HTTP threads call the **same adapter object**,
  synchronously and without a lock. The composition is by `EXTENDS`: every
  sidecar action that touches the adapter is an adapter operation on a thread.
- The detector and the sidecar meet in three places: the anomaly channel, the
  `backend_health` table, and, through NGINX, the traffic that produces the
  detector's next rows. `HealthLoop` closes that loop.
- The operator enters through HTTP threads: weights and algorithm at the
  sidecar (`LbSidecar`), isolate at the detector (`OperatorIsolation`), scale
  at the autoscaler (`Autoscaler`).
- The autoscaler meets the others through messages: its forecasts are readings
  of any demand at any time, and the containers it starts and stops are the
  container events of `LbSidecar`. The two are not composed.
- Every service lives by a copy of the policy that reaches it over a channel
  that forgets. `PolicyPath` composes the manager with the services that pull,
  read the file, or only listen, and shows the whole to be a register.
- What the detector and the RL engine call a backend is a name the log shipper
  found for an address. `TelemetryPath` follows a request from the log to the
  table.

## 2. Modules

| Module | Models | Extends |
|---|---|---|
| `NginxAdapter` | the adapter object, `upstream.conf`, NGINX's loaded configuration, DNS | |
| `RoutingWeights` | the arithmetic of `handle_routing` as operators | |
| `LbSidecar` | message handlers, hydration, HTTP writes, restarts, Docker and DNS | `NginxAdapter`; `INSTANCE RoutingWeights` |
| `AnomalyDetector` | one detector process and its channel | |
| `HealthLoop` | detector, channel, sidecar and traffic in a loop, with fairness | `AnomalyDetector` |
| `OperatorIsolation` | the health loop with an operator | `HealthLoop` |
| `Autoscaler` | control loop, manual scale, both controllers, the Docker cluster client | |
| `PolicyManager` | the file, its write and the requests on threads | |
| `PolicyRegister` | what the policy path promises: a register with lagging copies | |
| `PolicyPath` | manager, channel and the services that follow the policy | `PolicyManager`; `INSTANCE PolicyRegister` |
| `RlEngine` | the engine's loop, its verdicts, its database session, `/health` | |
| `DeliveryLedger` | what the telemetry path promises: a ledger of what is under way, stored and lost | |
| `TelemetryPath` | access log, log shipper, resource collector, OpenTelemetry collector, ingestion | `INSTANCE DeliveryLedger` |
| `LiveEngines` | the live feed of the operator UI and its client | |
| `LbSidecar_proofs`, `RoutingWeights_proofs`, `Autoscaler_proofs`, `HealthLoop_proofs`, `PolicyPath_proofs`, `LiveEngines_proofs`, `RlEngine_proofs`, `TelemetryPath_proofs` | theorems; those of the adapter are in `LbSidecar_proofs` | the module they are about, `TLAPS` |
| `MC*` | model values and symmetry sets; `MCRoutingWeights` also enumerates inputs and holds the properties of the arithmetic | the module they check |

Definitions marked "Mutant of" in the modules are broken variants of the
definition that follows them. Nothing uses them; `PROJECT.json` names, for every
checked property, a mutant that violates it, which shows the property depends on
the code it is about.

### NginxAdapter

A method call is `Call(t)`: it changes the fields at once, and, unless there
was nothing to change, enters `_render_and_reload`, whose steps (`Guard`,
`Resolve`, `Render`, `Write`, `Reload`, or an exception) are separate actions, so
a second thread can run between any two of them. The two locals that live across
a step are variables: the hosts that did not resolve (`skip`) and the rendered
text (`text`).

- A dict of weights is a function with `Absent` (-1) where there is no key. A
  file is a function to `Absent`, `Down` (0, the `server ... down;` line) or the
  shown weight, with the algorithm.
- `_reload_nginx` refuses a file without servers and one that names an *active*
  host DNS does not know (`Loads`); `down` hosts are not looked up, as the comment
  at `services/shared/lb_adapters/nginx/__init__.py:187` relies on.
- `reconcile_excluded` does not render by itself. The only caller follows it
  with `set_upstream_weights` on the same thread; the pair is one action up to
  the start of the render.
- `contended` is a history variable: TRUE for a call during which another thread
  took a step. No action reads it.
- `AdapterInit` is the state with the shipped `upstream.conf`.

### RoutingWeights

Pure operators: `scores_to_weights` with Python's rounding of halves to even,
the merge over floor weight 1 for every live backend (a ranked backend that is
not live stays in, as in the code), and `clamp_weight_skew`. Scores are in
thousandths, and the fraction is a pair of integers (3/4 for 0.75).

### LbSidecar

One action per message handler, hydration step, HTTP write and environment
event. What is deliberately coarse or fine:

- The loop handles *any* message a publisher may have sent. This covers delay,
  loss, duplication and reordering between channels, and needs no queue. Message
  parsing and the TTL drop only remove behaviours.
- A message is two steps at least: `TakeMessage` asks Docker and keeps the answer
  in `view`, as the dispatch in `app.py` does before it calls a handler; the handler
  then acts on `view`, while containers have started and stopped. `Dismiss` is a
  message that changes nothing. The answer is the running containers, or the
  seed list if none runs or the query fails.
- `handle_anomaly` is two actions more, `HandleUnhealthy` (membership and quorum
  guard) and `ApplyVerdict` (the exclusion), because the guard reads the adapter
  and an HTTP thread may change it before the exclusion.
- `blind` (the view is the seed list of a failed query) and `late` (backends that
  started after the query) are history variables: no guard reads them.
- `Boot` replaces the process at any step: the adapter re-reads the file,
  `PolicyState` is the default, and the rows to hydrate are fetched once: those of
  the last `HEALTH_HYDRATION_WINDOW_SECONDS` (300), which may be any of them, and
  none if the database is unreachable. `HydrateRow` then applies them one by one
  with a full render each. An exception ends hydration, as the `try` around the
  loop does.
- Keys are translated already: `BackendRegistry` (ip:port to container name) is
  left out. `Addresses` are keys that are ip:port and need no DNS.

### AnomalyDetector, HealthLoop, OperatorIsolation

- Time is counted in inference cycles; an exclusion clock stops at `Window`.
  What is compared in the code is "aged past the window or not", and a later
  clock reading makes no difference.
- The engine's verdict is an input: any status, or `low` for too few samples.
  The outlier margin of peer suppression is an input too (`outliers`, any set of
  scored backends); a surge, in which nobody is an outlier, is the empty set.
- `ScoreCycle` is passes 1 and 2, which nobody else can observe. Pass 3 is one
  action per backend (`StoreVerdict`, the recovery rules and the database row),
  then `Publish`; pass 3b (`ProbeSilent`) likewise. Order among the backends is
  any.
- A publish that raises (`PublishFails`) ends the cycle: what pass 3 has not
  handled yet is dropped, the clocks and rows stay. Safe mode (`safe`) stores
  verdicts and withholds them; it changes between two cycles, as one thread does
  both.
- `DetectorStart` is a new process with `_hydrate_exclusion_clocks`, which arms a
  clock for the unhealthy rows it has read. The query returns those of the last
  `EXCLUSION_HYDRATION_WINDOW_SECONDS` (300), and none when it fails; a detector
  may have been away for any time, so it reads any subset. It knows no policy, so
  it starts outside safe mode. In `HealthLoop` it may come at any step
  (`DetectorCrash`), also between a row and its publish.
- Failures in `HealthLoop`: a publish raises (`BusRefuses`), a process dies
  (`DetectorCrash`, `SidecarRestart`), a connection breaks with a verdict on it
  (`BusDrops`), safe mode is switched on. `MaxFaults` bounds them together.
  `lost` and `unread` are history variables: the backends whose re-admission was
  stored and then not delivered, and those whose unhealthy row, the last word on
  them, a restarted detector did not read. No action reads them.
- A new sidecar hydrates its exclusions from the rows it reads and, where it
  reads none, from the file (`Hydrated`), before it subscribes. It has the same
  window and the same unreachable database.
- In `HealthLoop` the sidecar is reduced to what `handle_anomaly` does to the
  set of excluded backends, one verdict at a time with the quorum guard. A
  benched backend serves nothing, so its rows leave the query window after
  `Retention` cycles and it falls silent; an active one serves in a cycle or
  not.
- `OperatorIsolation` adds `POST /api/v1/isolate`: publish first, then the row.

### Autoscaler

- A container is `none`, `stopped` or `running`; replicas 1 to `Compose` come
  from docker-compose, the others were provisioned. `job[t]` holds the locals of
  the actuation thread `t` is in: where it is, its direction, the count it
  started from, its goal, the rounds done and the container it has chosen.
- One action is one Docker call. A method that lists the containers and then
  acts on one is two actions, so the list may be stale, and a container may be
  gone, or started already, when it is acted on. `WaitForHealthy` is either
  outcome of the healthcheck, and on a timeout either outcome of the stop, whose
  failure the code swallows: then the container goes on running. A `run` that fails
  may have created a container that did not start. A `remove` that fails after
  its `stop` makes `scale_in` stop another backend (`FallsBack`).
- `Reading` is a forecast or a fallback reading: count, `_decide` and the choice
  to act in one step. Between the count and the decision the loop makes no call,
  so a single step of another thread in between is the same step just before or
  just after. What the merge leaves out is a manual scale that changes its last
  container *and* stamps the clocks within that moment. `HandlePolicy` is a policy message that is accepted.
- `Actuated`, `Stuck` and `Aborted` are the three ends of a round: a backend
  more, the client's `None`, an exception. Then `Record`, `Publish`, `Stamp`, each
  of which may be where the job ends.
- Each manual request builds a client of its own and so takes the ceiling of
  the policy in force; the loop keeps the one it was started with (`ceiling`).
- `contended`, `quiet`, `unrecorded`, `readings` and the field `half` of a job are
  history: no guard of an action reads them. `quiet` counts, for the clocks the
  controller looks at, the ticks since the cluster client reported a backend added
  or removed, which the code's clocks (`age`) only approximate. `half` says that a
  call of Docker failed half-way and was taken for one that changed nothing: a
  container stopped and not removed, or started and not stopped again.

### PolicyManager, PolicyRegister, PolicyPath

- A policy is its version and the two fields the cross-field check relates; a
  field nothing relates behaves as either. `Absent` is a key that is not there.
- A request is `Load` (read, merge, check, bump), then the write, then the
  publish, on any of several threads and without a lock. If `policy.yaml` is a
  file mount, the rename fails and the write is two steps, `Truncate` and `Fill`:
  in between every reader sees no policy. Two requests may both have truncated
  the file before either fills it, and the second text goes over the first; a
  shorter one then leaves the tail of the longer. The keys are sorted, so the tail
  is a suffix of the list of keys, with `policy_version` last, and of a key that is
  there twice YAML takes the last (`Tails`, `Overlaid`). A cut in the middle of a line
  leaves something that does not parse (`Garbled`). `texts` are the texts such a
  tail may come from. A write may fail and the process may stop at each point.
- A service is `down`, has `read` the fields, is started but not subscribed
  (`off`) or `on`. The autoscaler reads the file twice (`ReadFields`,
  `ReadVersion`, `autoscaler/app.py:1022-1034`) and takes a default of its own for
  a bound that is not there (`WithDefaults`, `load_policy`), the RL engine asks the
  manager (`Pull`), the others start with defaults. Those in `Comparing` drop an
  older version.
- `PolicyRegister` is the abstract specification: a set of policies on offer, and
  copies that lag, skip and are forgotten, never go back at a service that
  compares, and are taken whole except by a service that reads twice and
  completes what it reads. A policy that is written while another is may leave a
  blend, which has each part from one of the two. What is on offer may be
  withdrawn. `PolicyPath` implements it (`ImplementsRegister`): on offer is what a
  service may still be handed (`Offered`: the texts of the file, the policies about
  to be published, the messages), the readers are the services that read twice,
  and only valid policies are written.
- `fresh`, `mixed` (the file has been a mixture of two texts) and `guessed` (services
  that work by a default of theirs) are history variables.

### RlEngine

- Time passes in poll intervals; an age stops one past the limit it is
  compared with. A cycle is one action, because only its own thread sees its
  parts: eviction, query, ranking, publish. It may be late and may fail.
- `quiet` is the age of `_last_inference_monotonic`, and `Never` before it is
  set, which `/health` does not call stale.
- A session is `open`, `broken` by an outage, or `closed` after a reconnect that
  failed. Scores are reduced to who is ranked.
- `told` is a history variable: the last verdict handled, which does not expire.

### DeliveryLedger, TelemetryPath

- A request is its number and stands for its data points. A tick is longer than
  the flush interval and `Ttl` ticks are `RESOLVE_CACHE_TTL_S`.
- A sample of the resource collector is a number as well: `Poll` names the
  container that has the address now, without a cache, and posts in the same step.
- The OpenTelemetry collector is external: it queues, exports, may be answered
  late and export again, lose its queue in a restart, or give a batch up
  (`GiveUp`): `otelcol-config.yaml` leaves its retry and queue limits at their
  defaults. It exports the batches as they came; merging two is not modelled.
- An insert that fails stores nothing, or everything when only the answer to the
  commit is lost; `telemetry` counts the rows as dropped in both cases.
- `gone` and `late` are history variables: requests nobody read, that went with a
  process or that the collector gave up; and how often each was stored by an
  insert that was answered too late.
- `DeliveryLedger` is the abstract specification: requests are under way, stored
  a number of times, or lost, and may be both stored and lost: who does not learn
  that a batch was written counts it as lost. `TelemetryPath`
  implements it (`ImplementsLedger`): under way is what is in the file, the buffer
  or a batch (`Underway`), lost is `dropped` and `gone` together.

### LiveEngines

- An entry is its number in the order of publication. The ring, the bus and each
  queue have a lock of their own; a step holds one of them.
- `Register` and `CopyRing` are two steps, as are `AppendToRing` and
  `CopySubscribers`, and each `Put` is one of its own.
- `ReadTimeout` belongs to the client of a stream; time passes only when no
  stream has anything to send.
- `due` is a history variable: entries that came in after a stream was
  registered and have not been sent or dropped.

## 3. What TLC checks

All runs use small sets of model values. Runs with a liveness property or an
expected violation use no symmetry.

### Runs that pass

| Run | Instance | Shows |
|---|---|---|
| `RoutingWeights` | 3 backends, 12 scores, every live pool | `OrderAndPoolKept`, `ClampIsIdempotent`, `SkewBelowOutlierMargin` |
| `SidecarLoop` | 2 backends, 1 of them in the seed list, that come and go between query and handler, Docker queries that fail, loop thread only | `LiveExclusionStands`, `SettledFileHonoursMemory` |
| `SidecarRestart` | 2 backends that come and go, Docker queries that fail, restart at any step that reads any of the rows, rows that change | `SidecarTypeOK`, `HydrationRestoresVerdicts`, `ExclusionSurvivesRestart` |
| `SidecarRaces` | 2 backends, loop and HTTP thread, 2 algorithms, faults | `UncontendedRenderIsExact`: a call nobody interfered with leaves a file that renders the fields, whatever failed before; refinement: the sidecar implements `AdapterSpec` |
| `HealthLoop` | 2 backends, advisory mode, one failure anywhere: a publish, the connection, either process (back with any of the rows), or safe mode | `LoopTypeOK`, `EveryExclusionIsTracked`, `ExclusionsEnd`, `SilentBackendsAreProbed` |
| `Scaling` | loop and operator, up to 2 containers, 2 policies that replace each other, both controllers, every call may fail, some half-way, restarts | `AutoscalerTypeOK`, `AnnouncedCountIsTrue`, `ScalingWithinBounds`, `RecordedActionsCoolDown`, `ScaleInIsConfirmed` |
| `PolicyPath` | 2 request threads, 2 updates, both ways of mounting the file, overlapping writes in place, a file with a bound missing, and one service of each kind in turn | `PolicyPathTypeOK`, `BoundsAreOrdered`, `FreshServicesAgree`, `FreshPolicyIsAdopted`, refinement `ImplementsRegister` |
| `RlEngine` | 2 backends of which one is ranked, one outage, one policy update | `RlTypeOK`, `VerdictsHoldTheirTime`, `StuckLoopIsVisible`, `BrokenSessionIsReplaced` |
| `TelemetryPath` | 1 address that changes hands, 3 requests or samples, 2 failures, a collector that gives up | `TelemetryTypeOK`, `NothingVanishes`, `CopiesAreExplained`, `BatchesAreWhole`, `OldOwnerIsForgotten`, `BufferIsShipped`, refinement `ImplementsLedger` |
| `LiveEngines` | 2 streams with different timeouts, rings and queues of 1, 2 channels, 2 entries | `LiveEnginesTypeOK`, `NoGap`, `EntriesReachStream`, `SilenceEndsNoStream` |

### Bounds, and why they are enough

- **Backends.** Two show every relation between a backend and the others, and
  contain both interesting pools (one left, none left). In `SidecarLoop` one is in
  the seed list and one is not, which is what a failed query tells apart. Only the
  quorum needs three (`QuorumRace`): up to two known backends its floor is the last
  one.
- **Threads.** Two: the loop and one HTTP request. More threads only add
  renders of the same kind; the proofs cover any number.
- **Weights {1}, score 10.** The state properties of the sidecar distinguish
  "has an entry" and "has none"; the arithmetic is checked separately over
  scores with ties (15, 25, 65, 105), small values where the floor of 1 decides
  (1, 30), and 1000. `SafeMode` uses real weights, because it is about them.
- **Detector.** `MinPeers` 2 with two backends (suppression engages or not,
  depending on who is in the query), `Confirmations` 1, `Window` 2 (a clock that
  is running, and one that has run out), `Retention` 1 (rows outlive traffic by a
  cycle), `BusMax` 1 (a verdict waits while the detector goes on; `Publish`
  blocks at the bound, which delays the detector and removes no order of the
  verdicts). In the code the defaults are larger; only the relations "not yet"
  and "reached" matter. `FlipCycles` is 1 here: any raw status may come in any
  cycle, so a gate that needs more cycles only delays a verdict, and
  `RecoveryTrap` has 2. `MaxFaults` 1: the properties relate one failure to
  what the processes make of it afterwards, and `ExclusionsTracked` proves the
  safety property for any number of failures and any of these constants.
- **Autoscaler.** One replica of docker-compose and one that can be provisioned
  show both ways to add and both ways to remove a backend, and a jump of two
  when overlapping scale-ins have left none running. The wide policy allows two
  backends, the tight one only one, so a policy change can leave the pool above
  its bound; they also differ in cooldowns and confirmations (1 and 2). A demand
  of 5 wants one backend, 15 wants two. `MaxAge` 1 and `MaxStreak` 2 are the largest
  values any clock or streak is compared with; beyond them nothing changes.
  What a call that fails half-way does to the counts is excepted by name (`half`);
  `DecommissionFailure` and `SwallowedStop` show why.
- **Policy.** Two requests show every interleaving of read, write and publish;
  `MaxVersion` 3 leaves room for two updates after the first file and one after
  versions started again. One service at a time, because services do not act on
  each other here. Bounds are 1 to 3, the defaults 1 and 2. Of the two updates one
  leaves a bound open, is above its default, and would cross the other once merged.
  `MaxQueue` 0: a request starts when the messages before it
  are handled, and two requests under way still put two messages in one queue.
- **RL engine.** `MaxRanked` 1 of 2 backends (one the router does not look at),
  `VerdictTtl` and `StaleAfter` 1 (in force, expired).
- **Telemetry.** Three requests fill a batch, the next one, and leave a line
  unread; `Ttl` 2 tells a cache entry that ages from one that is renewed. The
  address changes hands once; the theorems below cover any number of times.
- **Live feed.** Capacity 1 is full with one entry and overwritten by the
  second; two streams let one be served while the other's queue is full.
- Deadlock checking is off in two runs. In `RoutingWeights` a complete ranking
  cannot grow. In `PolicyPath` a garbled `policy.yaml` stops every request and
  every start-up until an operator repairs it, which the model does not do.

### Fairness

`HealthLoop` assumes weak fairness of the detector's loop as a whole and of the
sidecar's loop. Both are daemon threads that catch every exception of an
iteration and go on, so an enabled step is eventually taken. The detector's own
database connection is assumed to answer once it is open. Nothing is assumed of operators, of
traffic, of failures or of restarts, of which there are at most `MaxFaults`; a
process killed over and over would never age a clock up to the window.

`PolicyPath` has each service take the next message (`get_message` with a
timeout of a second in every loop). `RlEngine` has the loop handle messages and
finish cycles and time pass; the daemon thread catches what an iteration raises.
Publishes may fail, but not for ever. `TelemetryPath` has the tail loop, the
collector's exporter and the clock go on. `LiveEngines` has the feed's thread go
on with the message in hand and each generator while it has work. For a generator
(`SendReplay`, `SendLive`) this assumes a client that drains its socket: the
server asks for the next entry when the last one is written, and a client that
stops reading stops its stream for good, while its queue fills and drops. Nothing
is assumed of Redis or publishers.

### Runs that find a disagreement

Each checks one statement of a comment, docstring or document, quoted in
`PROJECT.json` "findings", against what the code does.

| Run | Statement | What happens |
|---|---|---|
| `SafeMode` | safe mode "must dominate any AI signal" (`docs/SOURCE_OF_TRUTH.html:5063`) | `handle_routing` does not look at `safe_mode`: a recommendation under way is applied after it |
| `RecoveryTrap` | a long-excluded backend is re-admitted (`anomaly-detector/runloop.py:593`) | in auto-isolate mode a healthy verdict clears the clock and is not published: the backend stays benched and nobody tracks it |

`RecoveryTrap` is the same model and the same property as `HealthLoop`; the
mode is the only difference that matters, and in advisory mode the property holds.

### Further configurations

These reproduce other disagreements of the same kind. They are not part of the
list of runs; each ends with the violation named here.

| Configuration | Module, property | Statement and what happens |
|---|---|---|
| `AdapterHalfApplied.cfg` | `NginxAdapter`, `NeverHalfApplied` | "state mutation is all-or-nothing" (`lb_adapters/base.py:32`): the field changes before the render; if the reload fails, NGINX keeps routing to the excluded backend and the retry is an early return |
| `QuorumRace.cfg` | `MCLbSidecar`, `ExclusionsKeepQuorum` | a verdict that would exclude the last active backend "is refused" (`lb-sidecar/runloop.py:577`): an operator's `POST` of weights between the guard and the exclusion takes the other backends out, and the verdict excludes the last one. With the loop alone nothing comes in between, and the property says no more than the guard |
| `OperatorIsolate.cfg` | `MCOperatorIsolation`, `OperatorIsolateStands` | "operator isolates are untouched" (`anomaly-detector/runloop.py:611`): a detector restart arms a clock for the operator's row, and recovery re-admits the backend |
| `LostReadmission.cfg` | `MCHealthLoop`, `NoExclusionIsForgotten` | "this one healthy verdict MUST be published" (`anomaly-detector/app.py:305`): when the publish raises, or safe mode withholds it, the clock is cleared already and nobody publishes it again |
| `CooldownBypass.cfg` | `MCAutoscaler`, `CooldownRespected` | "respect autoscaler_cooldown_seconds" (`autoscaler/decisions.py:12`): the clocks are stamped after the audit row and the envelope, so if either fails, containers have changed and no cooldown runs. The loop's database connection is opened once, so after a dropped connection every reading may act |
| `LongOutage.cfg` | `MCHealthLoop`, `RestartArmsEveryClock` | "re-arm exclusion clocks for backends left `down` by a prior process so the silent-backend recovery can free them" (`anomaly-detector/app.py:504`): the query takes rows of the last 300 seconds. A backend that was excluded longer ago is `down` in `upstream.conf`, gets no traffic, has no clock, and stays out for ever |
| `SwallowedStop.cfg` | `MCAutoscaler`, `ReachedCountIsAnnounced` | a timed-out container is "left in place (stopped, but not removed)" (`autoscaler/cluster_client.py:252`) and the count announced is the one "actually REACHED" (`autoscaler/app.py:291`): the error of the `stop` is swallowed (`:297-299`), the container runs on, and a backend that serves is not counted |
| `DefaultBounds.cfg` | `MCPolicyPath`, `DefaultsKeepOrder` | missing fields "fall back to defaults on startup. *Invalid* values are rejected in both cases" (`policy-manager/validation.py:12`): a file with `min_backends` alone is valid to the manager, and the autoscaler completes it with a default maximum that may be below it |
| `OverlappingWrites.cfg` | `MCPolicyPath`, `DiskKeepsOrder` | "the merged policy must satisfy every cross-field invariant" (`policy-manager/validation.py:14`): two writes in place that overlap may leave a file that parses, with a bound from each |
| `DecommissionFailure.cfg` | `MCAutoscaler`, `MinBackendsRespected` | "respect min_backends" (`autoscaler/decisions.py:11`): when `remove` fails after `stop`, `scale_in` takes it for "nothing happened" and stops a second backend |
| `RlReconnect.cfg` | `MCRlEngine`, `OutageEnds` | "retrying next tick" (`rl-engine/app.py:417`): a reconnect that fails leaves a closed connection, whose `InterfaceError` is not the `OperationalError` that triggers the next reconnect |
| `Rotation.cfg` | `MCTelemetryPath`, `RotationIsFollowed` | "handles log rotation" (`lb-otel-shipper/app.py:258`): the file is never opened again while the process lives |
| `SilentStream.cfg` | `MCLiveEngines`, `NoStreamTimesOut` | the comment line is "sent every 15s to keep idle connections alive" (`docs/asyncapi/smartload-v1.yaml:163`): the SDK's default read timeout is 10 s |

### Observations without a run

- The docstring of the adapter's constructor (`nginx/__init__.py:68-76`) says a reload
  with unresolved hosts is deferred; the code (`:238-241`) leaves the hosts out
  and reloads. The model follows the code.
- A host left out that way comes back with the next render. The scale event for
  it may be a no-op, as the weights already match, and then nothing renders.
- The comment on `clamp_weight_skew` bounds the skew by 1/fraction. With
  rounding and weights under 7 it may exceed that, which is why
  `SkewBelowOutlierMargin` has the premise `Top >= 7`.
- Hydration excludes without the quorum guard.
- The sidecar subscribes after hydration: a verdict in between is lost until
  the detector repeats it.
- "Never exclude the last active backend" (`lb-sidecar/runloop.py:576`): the guard
  counts known keys, among them those of containers that have stopped, so the
  last *running* backend can be excluded.
- "Anomaly exclusion is unconditional" (`docs/SOURCE_OF_TRUTH.html:4563`): when the
  Docker query fails during a scale event, exclusions are reconciled against
  the seed list, and a running backend that is not on it loses its exclusion. So
  does one that starts between the query and the reconcile.
  `LiveExclusionStands` allows these two and nothing else.
- The docstring of `_make_cluster_client` (`autoscaler/app.py:257-261`) says the client is
  rebuilt on each cycle, with the ceiling of the policy in force. The loop builds
  it once (`:485`), so a raised `max_backends` is never provisioned by the loop.
- "each cluster.scale_out() blocks on the new container's healthcheck"
  (`autoscaler/app.py:295-297`): the container a timed-out provision leaves behind is
  stopped, so the next scale-out *starts* it, and `start` waits for nothing.
- With the target controller and a policy whose bounds have moved past the
  pool, `_clip` moves the pool into the bounds in one action, past `max_step_out`
  and `max_step_in`.
- A manual scale-out does not reset the confirmation streak, and a manual scale
  under way does not hold the loop back: the clocks are stamped at its end. Two
  actuations that overlap may pass a bound together, and then record counts
  that are not true. The properties of counts are about an actuation that no other
  thread interferes with.
- Detector and sidecar: a re-admission that is stored and not published, because
  the publish raises, safe mode is on, or the process dies, is dropped for good.
  So is a probe of a silent backend if the detector is restarted before the next
  one: its row says healthy, and hydration arms no clock. A restarted detector
  starts outside safe mode and asks nobody for the policy.
- Policy manager: "operators may safely retry" and "a subsequent successful POST
  will republish" (`policy-manager/app.py:215-225`, `:418-445`): the same body
  posted again changes nothing and is answered before the publish. A request
  that reads a truncated file starts versions again, and services that compare
  reject what follows until it catches up. Two fills that overlap may leave a
  file that does not parse, or one that does and that nobody wrote: the manager
  merges the next update into it, and whoever reads it takes it for a policy.
  What is published is ordered all the same, because a request sends the policy
  it has merged and checked itself.
- The BFF's preview accepts other operating modes (`operator-ui/bff/app.py:592`)
  than the manager (`policy-manager/validation.py:25`); the RL engine takes
  `hybrid` and keeps the mode it has for any other, so hybrid to classical-only
  leaves it active.
- RL engine: its thread dies without a trace if the database is down when it
  starts, and `/health` does not show it, because the staleness test waits for a
  first cycle. Only the first rows by name are ranked, and the router's smoothed
  values are kept by position in that order, not by backend
  (`policies/monotone/policy.py:83-100`). A manual isolate expires for it with the
  verdict's time to live. A policy update it misses is not asked for again.
- Live feed: an entry may be sent twice, in the replay and live. What is
  published while the feed reconnects is lost. Each of the server's two workers
  has a feed of its own, and a generator that is never started never
  unregisters its queue.
- Telemetry: after a late answer the collector exports a batch again and the
  rows are there twice, as the table has no key (`init.sql:10`). A post that
  times out counts as dropped although it may have been delivered, and so do rows
  whose commit was made and not answered. What the collector gives up is in
  its own log and in no counter of the services. After a failed
  look-up the raw address names the backend for the cache's time to live.
- Advisory mode still excludes: `should_publish` lets every verdict through and
  the sidecar does not know the mode.

## 4. What is proved

Checked by TLAPS for any finite set of backends and any values of the other
constants, under the named assumptions of the modules: weights are naturals and
contain 1; `round_robin` is an algorithm; the loop is one of the threads; the
seed list is a non-empty set of backends; and the weights `handle_routing`
computes are among those an adapter may be given (`ClosedAssumption`, a closure
of the constant `Weights` under the arithmetic; TLC evaluates it in every run, and
`WeightsAreClosed` proves it for the weights 1 to 100 of the code).

| Theorem | Statement |
|---|---|
| `AdapterTypeCorrect` | `AdapterSpec => []AdapterTypeOK` |
| `UncontendedRenderCorrect` | `AdapterSpec => []UncontendedRenderIsExact` |
| `SidecarImplementsAdapter` | `Spec => AdapterSpec`, with the identity as refinement mapping |
| `SidecarTypeCorrect` | `Spec => []SidecarTypeOK` |
| `SidecarRenderCorrect` | `Spec => []UncontendedRenderIsExact` |
| `LiveExclusionCorrect` | `Spec => LiveExclusionStands` |
| `SettledFileCorrect` | `AdapterSpec => []SettledFileHonoursMemory` for one thread and a disk that works |
| `ExclusionsSurvive` | `AdapterSpec => ExclusionSurvivesRestart` under the same conditions |
| `SidecarFileSettles`, `SidecarExclusionsSurvive` | the same two of the sidecar, for the loop alone and a disk that works |
| `HydrationCorrect` | `Spec => HydrationRestoresVerdicts` |

The arguments:

- *Type correctness* is not immediate for the adapter, because the constructor
  reads weights back from a file that an earlier process wrote: it needs the file
  and the rendered text in the invariant, and that a rendering of well-typed fields is a
  configuration (`RenderIsConfig`).
- *UncontendedRenderIsExact* is not inductive. `ExactInv` adds the step before:
  an uncontended thread about to write holds a text that reflects the fields.
  `Resolve` may be stale, because `Reflects` allows any active host to be left
  out. A step of another thread makes the call contended.
- *Refinement.* `OwnTypeOK` types the sidecar's own variables, so that the pool
  in a handler is non-empty; then each handler is shown to be one adapter call,
  each render step an adapter step, a container that stops or a name that resolves
  a `DnsChange`, `Boot` a `Restart`, and the rest a stutter. The adapter's
  results then hold in the sidecar without a second proof.
- *LiveExclusionStands* is an action property. `ViewInv` relates the view of the
  message in hand to the backends that run now: a running backend that is not in
  the view has started since the query (`late`), or the view is the seed list of
  a query that failed (`blind`). `reconcile_excluded` then keeps the exclusions of all
  others, and no other step but the three named ones removes one. It holds for any
  number of threads, with failing queries and restarts.
- *The settled file.* `SettledInv` follows a call to its end: a text about to be
  written reflects the fields, so does the file before the reload, and an idle
  thread leaves every excluded backend that is in the file shown as `down`
  (`Settled`), or all of them are excluded. A failing write or a second thread
  between two steps breaks it, which is why both are excluded, as in the runs;
  what holds with them is `UncontendedRenderIsExact`. The restart is then a reading
  of a settled file. The sidecar inherits both through the refinement.
- *Hydration.* `HydrationInv` says of each row already applied that the fields are
  as it says. It needs no assumption, because HTTP and the loop are not let in
  before hydration is over.

Of the arithmetic, for any finite set of backends, any scores that are naturals,
and any fraction of at most one:

| Theorem | Statement |
|---|---|
| `OrderKept` | `Spec => []OrderAndPoolKept` |
| `ClampSettles` | `Spec => []ClampIsIdempotent` |
| `SkewStaysBelowMargin` | `Spec => []SkewBelowOutlierMargin` if the fraction is at least 3/4 |
| `WeightsAreClosed` | with scores up to 1, `PoolWeights` is between 1 and 100 and not empty |

`Spec` is the behaviour of `MCRoutingWeights`, which reaches every ranking. The
arguments rest on two facts: rounding to even is off by at most a half
(`RoundIsClose`), so the floor lies between 1 and the top weight, and above two
thirds of it if that is at least 7; and the rail keeps the top weight
(`ClampRaisesToFloor`), so a second pass computes the same floor. That a finite set of naturals has a
greatest element (`FiniteSetHasTop`) comes from the well-founded order of its
subsets.

Of the autoscaler, for any number of replicas and threads, any policies whose
minimum is at most their maximum, and any tuning:

| Theorem | Statement |
|---|---|
| `AutoscalerTypeCorrect` | `Spec => []AutoscalerTypeOK` |
| `ScaleInConfirmed` | `Spec => ScaleInIsConfirmed` |
| `CooldownCorrect` | `Spec => RecordedActionsCoolDown` |
| `AnnouncedCountCorrect` | `Spec => []AnnouncedCountIsTrue` |
| `BoundsCorrect` | `Spec => ScalingWithinBounds` |

- *Types.* The number of rounds done must stay within the plan, which needs the
  shape of a job: its goal lies on the side of its base that its action says, and
  a job that is still working has rounds left.
- *Confirmation.* The streak is at most the number of readings since the loop
  last scaled out, because a scale-out reads a demand that does not qualify and
  so resets it.
- *Cooldown.* A clock that is not in `unrecorded` is at most as old as the
  backends have been quiet, or the job that changed them has yet to stamp it; with
  every thread idle the second case is gone.
- *Counts.* `CountInv` says of an uncontended job, program point by program
  point, how many containers run: the count it has reached, or one less between
  `stop` and `remove`. It also says that the container chosen is still in the
  state in which it was chosen, that a goal lies within the bounds of the policy
  in force on the side of its direction, and that a job which looks for
  something finds it. All of it is said of jobs in which no call of Docker failed
  half-way: of the others the statements are false (`DecommissionFailure`,
  `SwallowedStop`), and whatever else fails or times out breaks neither.

Of the health loop, for any backends and any values of the other constants:

| Theorem | Statement |
|---|---|
| `LoopTypeCorrect` | `Spec => []LoopTypeOK` |
| `ExclusionsTracked` | `Spec => []EveryExclusionIsTracked` in advisory mode |

`EveryExclusionIsTracked` speaks of what the sidecar has done; the detector acts
on what it has written. `TrackInv` ties the two together: the verdict being sent is
the one stored (`RowSent`); a backend without a row is neither down nor on the
bus (`NoRowNotDown`); an unhealthy row has a clock (`UnhealthyHasClock`); and
a backend that is or may become down, although its row says otherwise, has its
re-admission under way or lost (`ReadmissionUnderway`). A crash keeps it
because hydration re-creates the third part from the rows; a broken connection
because the lost re-admissions are then in `lost`. A detector that reads only some
of the rows arms only those clocks, and the others are in `unread` until their next
row (`UnhealthyHasClock` excepts them). Advisory mode is needed: in
the other mode healthy verdicts are stored and not sent (`RecoveryTrap`).

Of the policy path, for any threads, services, updates and deployments:

| Theorem | Statement |
|---|---|
| `PolicyPathTypeCorrect` | `Spec => []PolicyPathTypeOK` |
| `BoundsOrdered` | `Spec => []BoundsAreOrdered` |
| `FreshAgree` | `Spec => []FreshServicesAgree` |
| `PathImplementsRegister` | `Spec => ImplementsRegister` |

`BoundsAreOrdered` needs the policies under way: what a job holds and what waits
in an inbox is valid and complete (`Offers`), whatever the file has become, because
a request checks what it has merged. Until the file is a mixture, all of `texts` are
valid as well; afterwards only who reads the file is excepted, and a reader that
has filled in a default until its next message. `FreshServicesAgree` needs that the
last message of a service that is `fresh` is the file's policy, and, without one,
that it holds what it makes of the file (`Seen`) or a higher version. For the
refinement, a fill is a write of a blend of the policy and one on offer
(`OverlaidIsBlend`: of a key that is there twice one value counts), a message or a
publish that is over withdraws what was on offer, and every other step of the path
is a whole copy, half a copy by a reader, a restart, or a stutter.

Of the live feed, for any channels, streams, capacities and timeouts:

| Theorem | Statement |
|---|---|
| `LiveTypeCorrect` | `Spec => []LiveEnginesTypeOK` |
| `ReplayMeetsLive` | `Spec => []NoGap` |
| `HeartbeatKeepsStreams` | `Spec => []SilenceEndsNoStream` |

`NoGap` needs little more to be inductive: a closed stream has nothing due, only
a stream that copied the rings has a copy, and the thread has a message in hand
while it works on one. Between append and broadcast the entry is the one in hand,
so it is not lost when a ring overwrites it before a stream has copied it. The
silence of a stream never passes the heartbeat while it can send, because time
does not pass over a heartbeat that is due.

Of the RL engine, for any finite set of backends and any limits:

| Theorem | Statement |
|---|---|
| `RlTypeCorrect` | `Spec => []RlTypeOK` |
| `VerdictsHold` | `Spec => VerdictsHoldTheirTime` |

The engine forgets an expired verdict only when a cycle evicts it. The invariant
says that the verdict kept is the one told as long as that is in force.

Of the telemetry path, for any finite set of addresses, any time to live, and
any number of requests, failures, restarts and changes of address:

| Theorem | Statement |
|---|---|
| `TelemetryTypeCorrect` | `Spec => []TelemetryTypeOK` |
| `NothingIsLostSilently` | `Spec => []NothingVanishes` |
| `LedgerIsKept` | `Spec => ImplementsLedger` |
| `BatchesWhole` | `Spec => BatchesAreWhole` |
| `CopiesExplained` | `Spec => []CopiesAreExplained` |
| `OldOwnersForgotten` | `Spec => OldOwnerIsForgotten` |

- *Places.* `PlaceInv` says that a request is in one place at a time: no line of
  the file is in the buffer, nothing in the file or the buffer is in a batch, no two
  batches share a row (`Apart`), and what is accounted for is exactly what was
  served or sampled. Without the first parts the ledger would not be kept: a batch
  that leaves would take along, or leave behind, a copy somewhere else. Each
  action is shown to be one entry of the ledger (`AcceptStep`, `LoseStep`,
  `DeliverStep`) or a move within the path (`MoveStep`).
- *Batches* are whole because the insert is (`InsertIsWhole`) and because of
  `Apart`: a row that is written can belong to one batch only.
- *Copies.* `CopiesInv`: what has not reached the collector is not in the table,
  and what waits for an export has at most a copy for each of its inserts that
  were answered too late (`late`). A post of the shipper or the resource collector
  that is answered too late is no such insert, so these two make no copy.
- *Giving up.* `GiveUp` takes a batch out of the middle of the queue; that the
  others keep their rows apart is `BatchesRemoval`.
- *Names.* `CacheInv`: an entry names the owner or the address, or it has less time
  left than the owner needs to reach the time to live.
- `SampledRows` numbers the rows of a poll whatever order `SetToSeq` chooses.

### Only model-checked

Liveness: `ExclusionsEnd`, `SilentBackendsAreProbed`, `FreshPolicyIsAdopted`,
`EntriesReachStream`, `StuckLoopIsVisible`, `BrokenSessionIsReplaced` and
`BufferIsShipped`. Temporal reasoning under fairness needs `ENABLED`, which is
beyond the prover. Every other property that a passing run checks is a theorem,
some of them under the hypotheses the tables name. What a run or a further
configuration finds violated has none.

## 5. What is not modelled

- Detector: failing database writes and queries, the gate's hold limit (off by
  default), and the arithmetic of the engines and of the outlier margin.
- Sidecar: `BackendRegistry` (a reused address keeps the old name until a miss)
  and the discovery cache within one message.
- Autoscaler: the read-only endpoints and the dry run; the square-root sizing
  law; the clock that tells a stale forecast, because a reading may come at any
  time; container lists that fail; containers that die by themselves.
- Policy manager: audit rows, which are only displayed; the per-field checks
  and the catalogue of strategies, which turn a body into an update or a 400.
- RL engine: scores, trained policies and training; the engine's state for
  display.
- Forecasting: fit and prediction are numeric; its messages are the readings of
  `Autoscaler`, and it follows the policy like any comparing service.
- Telemetry's read endpoints are SQL aggregates; the resource collector's
  arithmetic on `docker stats` and the counters it logs.
- The operator UI's other endpoints aggregate, proxy and format; the SDK's other
  calls are single requests.
- The shared library parses, configures and logs; the adapter stubs raise
  `NotImplementedError`.
- `tools/demo-ui`, the test backends, the web UI, and the experiments and
  training scripts, which are the larger part of the repository's Python, drive
  or evaluate the system from outside and take no decision in it.

## 6. Plan

Done: adapter, sidecar, health loop with failures, autoscaler, policy path with
its abstract register, RL engine, telemetry path, live feed. What would come next:

1. **`ScalePath`**: autoscaler, scale event and `LbSidecar` composed; a started
   container is eventually in the file.
2. **`BackendRegistry`** inside `LbSidecar`.
3. **Load runs** of `tools/demo-ui/bff/app.py:786-1047`: four server workers share
   the state of a run in Redis; two starts may both pass the "already in progress"
   test.
4. **Proofs**: what the new components promise; `DetectorStart` and the recovery
   rules as lemmas of their own, for theorems about `OperatorIsolation`.

## 7. Running

    tlc -config SidecarLoop.cfg MCLbSidecar.tla
    tlapm LbSidecar_proofs.tla
    tlc -config Scaling.cfg MCAutoscaler.tla

`Scaling` has about 3.1 million distinct states, `SidecarRestart` 1.2 million; `HealthLoop`, `TelemetryPath` and
`PolicyPath` have about 400 000 each and take as long, most of it for liveness.
