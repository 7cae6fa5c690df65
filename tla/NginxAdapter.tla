---------------------------- MODULE NginxAdapter ----------------------------
(***************************************************************************)
(* The load-balancer adapter of services/shared/lb_adapters/nginx: the     *)
(* object that owns upstream.conf and asks NGINX to reload it.             *)
(*                                                                         *)
(* The adapter keeps three fields in memory (weights, excluded, algorithm) *)
(* and has no lock.  Two threads of the lb-sidecar call it: the run loop   *)
(* and a thread of the HTTP server.  A call first changes the fields and   *)
(* then runs _render_and_reload, which this module cuts where another      *)
(* thread or a failure can get between: guard, resolve, render, write,     *)
(* reload.                                                                 *)
(***************************************************************************)
EXTENDS Integers

CONSTANTS
    Backends,        \* upstream keys, host:port
    Weights,         \* weights a caller may ask for
    Algorithms,      \* NGINX balancing methods
    Threads,         \* threads that call the adapter
    Faults           \* TRUE iff a file write or an nginx reload may fail

Absent == -1         \* no entry for the backend (in weights or in a file)
Down   == 0          \* the file's "server ... down;" line

ASSUME WeightsAssumption == Weights \subseteq Nat /\ 1 \in Weights
ASSUME FaultsAssumption == Faults \in BOOLEAN
\* NGINX's default is one of the methods.
ASSUME AlgorithmsAssumption == "round_robin" \in Algorithms

VARIABLES
    weights,         \* NginxAdapter._weights: Absent, or the weight asked for
    excluded,        \* NginxAdapter._excluded
    algorithm,       \* NginxAdapter._algorithm
    conf,            \* upstream.conf on disk
    served,          \* the configuration NGINX runs with
    resolvable,      \* hosts that DNS resolves now
    pc,              \* where each thread is in _render_and_reload
    skip,            \* its local `unresolved`
    text,            \* its local `conf`
    contended        \* history: another thread stepped during the call

memory == <<weights, excluded, algorithm>>
locals == <<pc, skip, text, contended>>
adapterVars == <<memory, conf, served, resolvable, locals>>

-----------------------------------------------------------------------------
Weight == Weights \cup {Absent}
Line   == {Absent, Down} \cup {w \in Weights : w > 0}
Config == [server : [Backends -> Line], algorithm : Algorithms]
Empty  == [server |-> [b \in Backends |-> Absent], algorithm |-> "round_robin"]

Listed(w) == {b \in Backends : w[b] # Absent}     \* the keys of the dict w
Known     == Listed(weights)
Active(c) == {b \in Backends : c.server[b] > 0}

\* A weight as the file shows it: max(1, weight).
Shown(w) == IF w < 1 THEN 1 ELSE w

\* Mutant of RenderConf: the exclusions are not looked at.
RenderForgetsExclusions(w, x, a, unresolved) ==
    [server    |-> [b \in Backends |->
                      IF w[b] = Absent \/ b \in unresolved THEN Absent
                      ELSE Shown(w[b])],
     algorithm |-> a]

\* What _render_conf writes for the fields, the unresolved hosts left out.
RenderConf(w, x, a, unresolved) ==
    [server    |-> [b \in Backends |->
                      IF w[b] = Absent THEN Absent
                      ELSE IF b \in x THEN Down
                      ELSE IF b \in unresolved THEN Absent
                      ELSE Shown(w[b])],
     algorithm |-> a]

\* Every backend with an entry is excluded: an all-down upstream.
AllExcluded == Known # {} /\ Known \subseteq excluded

\* _retained_conf_still_serviceable: the file has a server that resolves.
RetainedServiceable == Active(conf) \cap resolvable # {}

\* _unresolved_hosts
UnresolvedHosts == {b \in Known \ excluded : b \notin resolvable}

-----------------------------------------------------------------------------
Idle(t) == pc[t] = "idle"
Quiet   == \A t \in Threads : Idle(t)

\* A step of t spoils every call of another thread that is in progress.
Overlap(t) ==
    contended' = [u \in Threads |->
                    IF u = t THEN \E v \in Threads \ {t} : ~Idle(v)
                    ELSE contended[u] \/ ~Idle(u)]

\* t moves on inside _render_and_reload.
Advance(t, next) ==
    /\ pc' = [pc EXCEPT ![t] = next]
    /\ contended' = [u \in Threads |-> contended[u] \/ (u # t /\ ~Idle(u))]

\* t's call ends; its locals are dropped.
Return(t) ==
    /\ pc' = [pc EXCEPT ![t] = "idle"]
    /\ skip' = [skip EXCEPT ![t] = {}]
    /\ text' = [text EXCEPT ![t] = Empty]
    /\ contended' = [u \in Threads |->
                       IF u = t THEN FALSE ELSE contended[u] \/ ~Idle(u)]

\* t's call has changed a field and enters _render_and_reload.
StartRender(t) ==
    /\ pc' = [pc EXCEPT ![t] = "guard"]
    /\ Overlap(t)
    /\ UNCHANGED <<skip, text, conf, served, resolvable>>

\* t's call finds nothing to change and returns at once.
NothingToDo(t) ==
    /\ Return(t)
    /\ UNCHANGED <<memory, conf, served, resolvable>>

-----------------------------------------------------------------------------
(* The public methods.                                                     *)

SetUpstreamWeights(t, w) ==
    /\ Idle(t)
    /\ \/ w = weights /\ NothingToDo(t)
       \/ /\ w # weights
          /\ weights' = w
          /\ UNCHANGED <<excluded, algorithm>>
          /\ StartRender(t)

\* Mutant of ExcludeBackend: the file is left for the next render.
ExcludeWithoutRender(t, b) ==
    /\ Idle(t)
    /\ excluded' = excluded \cup {b}
    /\ Return(t)
    /\ UNCHANGED <<weights, algorithm, conf, served, resolvable>>

ExcludeBackend(t, b) ==
    /\ Idle(t)
    /\ \/ b \in excluded /\ NothingToDo(t)
       \/ /\ b \notin excluded
          /\ excluded' = excluded \cup {b}
          /\ UNCHANGED <<weights, algorithm>>
          /\ StartRender(t)

IncludeBackend(t, b) ==
    /\ Idle(t)
    /\ \/ b \notin excluded /\ NothingToDo(t)
       \/ /\ b \in excluded
          /\ excluded' = excluded \ {b}
          /\ UNCHANGED <<weights, algorithm>>
          /\ StartRender(t)

\* Mutant of ReconcileAndSet: the set difference is the wrong way round.
ReconcileSwapped(t, live, w) ==
    /\ Idle(t)
    /\ excluded' = excluded \ live
    /\ UNCHANGED algorithm
    /\ \/ /\ w = weights
          /\ Return(t)
          /\ UNCHANGED <<weights, conf, served, resolvable>>
       \/ /\ w # weights
          /\ weights' = w
          /\ StartRender(t)

\* reconcile_excluded(live) and the set_upstream_weights that follows it.
ReconcileAndSet(t, live, w) ==
    /\ Idle(t)
    /\ excluded' = excluded \cap live
    /\ UNCHANGED algorithm
    /\ \/ /\ w = weights
          /\ Return(t)
          /\ UNCHANGED <<weights, conf, served, resolvable>>
       \/ /\ w # weights
          /\ weights' = w
          /\ StartRender(t)

SetAlgorithm(t, a) ==
    /\ Idle(t)
    /\ \/ a = algorithm /\ NothingToDo(t)
       \/ /\ a # algorithm
          /\ algorithm' = a
          /\ weights' = [b \in Backends |->
                           IF b \in Known THEN 1 ELSE Absent]
          /\ UNCHANGED excluded
          /\ StartRender(t)

-----------------------------------------------------------------------------
(* _render_and_reload, step by step.                                       *)

\* The all-excluded safety net keeps the file if it still serves.
Guard(t) ==
    /\ pc[t] = "guard"
    /\ \/ /\ AllExcluded /\ RetainedServiceable
          /\ Return(t)
       \/ /\ ~(AllExcluded /\ RetainedServiceable)
          /\ Advance(t, "resolve")
          /\ UNCHANGED <<skip, text>>
    /\ UNCHANGED <<memory, conf, served, resolvable>>

\* The DNS pre-flight: up to a second in which other threads run.
Resolve(t) ==
    /\ pc[t] = "resolve"
    /\ skip' = [skip EXCEPT ![t] = UnresolvedHosts]
    /\ Advance(t, "render")
    /\ UNCHANGED <<memory, conf, served, resolvable, text>>

Render(t) ==
    /\ pc[t] = "render"
    /\ text' = [text EXCEPT ![t] =
                  RenderConf(weights, excluded, algorithm, skip[t])]
    /\ Advance(t, "write")
    /\ UNCHANGED <<memory, conf, served, resolvable, skip>>

\* _atomic_write: the file is replaced whole, or the write raises.
Write(t) ==
    /\ pc[t] = "write"
    /\ conf' = text[t]
    /\ Advance(t, "reload")
    /\ UNCHANGED <<memory, served, resolvable, skip, text>>

WriteRaises(t) ==
    /\ Faults
    /\ pc[t] = "write"
    /\ Return(t)
    /\ UNCHANGED <<memory, conf, served, resolvable>>

\* NGINX refuses an upstream without servers and one that names an active
\* host DNS does not know.
Loads(c) == /\ \E b \in Backends : c.server[b] # Absent
            /\ Active(c) \subseteq resolvable

\* _reload_nginx: NGINX loads the file as it is now.
Reload(t) ==
    /\ pc[t] = "reload"
    /\ Loads(conf)
    /\ served' = conf
    /\ Return(t)
    /\ UNCHANGED <<memory, conf, resolvable>>

ReloadRaises(t) ==
    /\ pc[t] = "reload"
    /\ Faults \/ ~Loads(conf)
    /\ Return(t)
    /\ UNCHANGED <<memory, conf, served, resolvable>>

Raises(t) == WriteRaises(t) \/ ReloadRaises(t)

RenderStep(t) ==
    Guard(t) \/ Resolve(t) \/ Render(t) \/ Write(t) \/ Reload(t) \/ Raises(t)

-----------------------------------------------------------------------------
(* The environment: DNS, and a restart of the process.                     *)

\* A host appears in or leaves DNS.
DnsChange ==
    /\ \E b \in Backends :
         resolvable' = IF b \in resolvable THEN resolvable \ {b}
                                           ELSE resolvable \cup {b}
    /\ UNCHANGED <<memory, conf, served, locals>>

\* Mutant of LoadStateFromConf: a "down" line is read as weight 0.
LoadDownAsWeight(seed) ==
    /\ weights' = [b \in Backends |->
                      IF conf.server[b] # Absent THEN conf.server[b]
                      ELSE IF b \in seed THEN 1 ELSE Absent]
    /\ excluded' = {b \in resolvable : conf.server[b] = Down}
    /\ algorithm' = conf.algorithm

\* Mutant of LoadStateFromConf: "down" lines are not imported.
LoadWithoutExclusions(seed) ==
    /\ weights' = [b \in Backends |->
                      IF conf.server[b] > 0 THEN conf.server[b]
                      ELSE IF b \in seed THEN 1 ELSE Absent]
    /\ excluded' = {}
    /\ algorithm' = conf.algorithm

\* The constructor: every seed has weight 1, then _load_state_from_conf
\* imports the file, dropping a "down" line whose host no longer resolves.
LoadStateFromConf(seed) ==
    LET inherited == {b \in resolvable : conf.server[b] = Down}
    IN  /\ weights' = [b \in Backends |->
                         IF conf.server[b] > 0 THEN conf.server[b]
                         ELSE IF b \in seed \cup inherited THEN 1
                         ELSE Absent]
        /\ excluded' = inherited
        /\ algorithm' = conf.algorithm

\* The process dies at any point and a new one builds the adapter.
Restart(seed) ==
    /\ LoadStateFromConf(seed)
    /\ pc' = [t \in Threads |-> "idle"]
    /\ skip' = [t \in Threads |-> {}]
    /\ text' = [t \in Threads |-> Empty]
    /\ contended' = [t \in Threads |-> FALSE]
    /\ UNCHANGED <<conf, served, resolvable>>

-----------------------------------------------------------------------------
\* The shipped upstream.conf names every seed; NGINX runs with it.
AdapterInit ==
    /\ \E seed \in (SUBSET Backends) \ {{}} :
         /\ weights = [b \in Backends |-> IF b \in seed THEN 1 ELSE Absent]
         /\ conf = [server |-> weights, algorithm |-> "round_robin"]
         /\ served = conf
    /\ excluded = {}
    /\ algorithm = "round_robin"
    /\ resolvable \in SUBSET Backends
    /\ pc = [t \in Threads |-> "idle"]
    /\ skip = [t \in Threads |-> {}]
    /\ text = [t \in Threads |-> Empty]
    /\ contended = [t \in Threads |-> FALSE]

\* A dict of weights as a caller builds it: never empty.
WeightMap == {w \in [Backends -> Weight] : Listed(w) # {}}

Call(t) ==
    \/ \E w \in WeightMap : SetUpstreamWeights(t, w)
    \/ \E b \in Backends : ExcludeBackend(t, b) \/ IncludeBackend(t, b)
    \/ \E w \in WeightMap : ReconcileAndSet(t, Listed(w), w)
    \/ \E a \in Algorithms : SetAlgorithm(t, a)

AdapterNext ==
    \/ \E t \in Threads : Call(t) \/ RenderStep(t)
    \/ DnsChange
    \/ \E seed \in (SUBSET Backends) \ {{}} : Restart(seed)

AdapterSpec == AdapterInit /\ [][AdapterNext]_adapterVars

-----------------------------------------------------------------------------
(* Properties.                                                             *)

\* The type invariant of the adapter.
AdapterTypeOK ==
    /\ weights \in [Backends -> Weight]
    /\ excluded \subseteq Backends
    /\ algorithm \in Algorithms
    /\ conf \in Config
    /\ served \in Config
    /\ resolvable \subseteq Backends
    /\ pc \in [Threads -> {"idle", "guard", "resolve", "render",
                           "write", "reload"}]
    /\ skip \in [Threads -> SUBSET Backends]
    /\ text \in [Threads -> Config]
    /\ contended \in [Threads -> BOOLEAN]

\* The configuration c is a rendering of the fields; only a backend that is
\* not excluded may have been left out of it.
Reflects(c) ==
    /\ c.algorithm = algorithm
    /\ \A b \in Backends :
         /\ b \notin Known => c.server[b] = Absent
         /\ b \in Known \cap excluded => c.server[b] = Down
         /\ b \in Known \ excluded =>
                c.server[b] \in {Absent, Shown(weights[b])}

\* The configuration c routes to no backend the fields do not route to, and
\* with the weight they give it.
Honours(c) ==
    /\ c.algorithm = algorithm
    /\ \A b \in Active(c) : /\ b \in Known \ excluded
                            /\ c.server[b] = Shown(weights[b])

\* A call that no other thread interfered with leaves a file that renders
\* the fields exactly, whatever earlier failures and races had left on disk:
\* _render_and_reload always renders everything, never a difference.
UncontendedRenderIsExact ==
    \A t \in Threads : pc[t] = "reload" /\ ~contended[t] => Reflects(conf)

\* Called by one thread, with a disk that works, the adapter leaves a file
\* that routes to no excluded or unknown backend once the call is over; only
\* an upstream with every backend excluded keeps its last good file.
SettledFileHonoursMemory == Quiet => AllExcluded \/ Honours(conf)

\* An exclusion the adapter held between two calls is imported again by
\* _load_state_from_conf when the process restarts, as long as the host
\* still resolves, even after the fields and the file were changed by any
\* sequence of calls.
ExclusionSurvivesRestart ==
    [][(\E seed \in (SUBSET Backends) \ {{}} : Restart(seed))
         /\ Quiet /\ ~AllExcluded
       => Known \cap excluded \cap resolvable \subseteq excluded']_adapterVars

\* base.py: "state mutation is all-or-nothing": between two calls NGINX never
\* routes to a backend that the fields say is excluded or unknown.
NeverHalfApplied == Quiet => AllExcluded \/ Honours(served)
=============================================================================
