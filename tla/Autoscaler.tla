------------------------------ MODULE Autoscaler ------------------------------
(***************************************************************************)
(* services/autoscaler: a control loop that turns forecasts (or, when they *)
(* go stale, the observed rate) into containers started, created, stopped  *)
(* and removed, and an HTTP endpoint through which an operator scales by   *)
(* hand.  Both run the same Docker calls, write an audit row, announce the *)
(* change on smartload.scale and stamp the cooldown clocks, in that order, *)
(* with no lock around the whole.                                          *)
(*                                                                         *)
(* Every Docker call that looks at the containers and every one that       *)
(* changes one is a step: a healthcheck takes up to half a minute in which *)
(* the other threads go on.  Time is counted in ticks, demand in requests  *)
(* per second.  Nothing but the autoscaler starts or stops a container.    *)
(***************************************************************************)
EXTENDS Integers, FiniteSets

CONSTANTS
    Threads, Loop,   \* the control loop; the other threads are HTTP's
    Compose,         \* replicas 1..Compose come from docker-compose
    Replicas,        \* bound: the highest replica number
    Policies,        \* policies an operator may publish
    Demands,         \* readings: max(predicted, offered) of a forecast
    Provisioning,    \* AUTOSCALER_PROVISIONING_ENABLED
    Headroom, Deadband,              \* of the target controller, in percent
    MaxStepOut, MaxStepIn,           \* its step caps, 0 for none
    OutCooldown, InCooldown,         \* its cooldowns, in ticks
    MaxAge,          \* bound: ticks after which a clock no longer matters
    MaxStreak,       \* bound: readings after which a streak no longer matters
    Failing          \* the calls of Docker, the database and Redis that may fail

Slots == 1..Replicas

Policy == [min : Nat, max : Slots, capacity : Nat,
           cooldown : 0..MaxAge, inCooldown : 0..MaxAge,
           confirmations : 0..MaxStreak]

ASSUME ThreadsAssumption == Loop \in Threads
ASSUME ReplicasAssumption ==
    Compose \in Nat /\ Replicas \in Nat \ {0} /\ Compose <= Replicas
ASSUME PolicyAssumption ==
    /\ MaxAge \in Nat /\ MaxStreak \in Nat
    /\ Policies \subseteq Policy /\ Policies # {}
    /\ \A p \in Policies : p.min <= p.max
ASSUME TuningAssumption ==
    /\ Demands \subseteq Nat
    /\ {Headroom, Deadband, MaxStepOut, MaxStepIn} \subseteq Nat
    /\ {OutCooldown, InCooldown} \subseteq 0..MaxAge
ASSUME SwitchesAssumption ==
    /\ Provisioning \in BOOLEAN
    /\ Failing \subseteq {"start", "run", "stop", "remove", "insert", "publish"}

VARIABLES
    replica,         \* each container: "none", "stopped" or "running"
    kind,            \* CONTROLLER_KIND: "step" or "target", set at deployment
    policy,          \* _policy
    ceiling,         \* max_backends_ceiling of the loop's cluster client
    age,             \* ticks since each cooldown clock was stamped
    streak,          \* _scale_in_confirm_streak
    job,             \* what each thread is doing; its field "half" is
                     \* history: a call of it failed, having changed what runs
    contended,       \* history: another thread stepped during the job
    quiet,           \* history: ticks since the changes each clock is for,
                     \* those the cluster client reported
    unrecorded,      \* history: clocks a failed action has not stamped
    readings         \* history: readings of the step controller since the loop
                     \* last scaled out

memory == <<policy, ceiling, age, streak>>
history == <<contended, quiet, unrecorded, readings>>
vars == <<replica, kind, memory, job, history>>

Out == "scale_out"
In  == "scale_in"
Clocks == {"any", Out, In}       \* _last_action_monotonic and the directed ones

\* The clock the controller looks at before action a.
ClockOf(a) == IF kind = "step" THEN "any" ELSE a

NoJob == [pc |-> "idle", action |-> "noop", base |-> 0, goal |-> 0,
          done |-> 0, slot |-> 1, ceiling |-> 1, half |-> FALSE]

-----------------------------------------------------------------------------
RunningReplicas == {i \in Slots : replica[i] = "running"}
Labelled        == {i \in Slots : replica[i] # "none"}
Stopped         == {i \in Slots : replica[i] = "stopped"}
Dynamic         == {i \in Slots : i > Compose}

\* get_backend_count
BackendCount == Cardinality(RunningReplicas)

Lowest(S)  == CHOOSE i \in S : \A j \in S : i <= j
Highest(S) == CHOOSE i \in S : \A j \in S : j <= i
Least(a, b)    == IF a <= b THEN a ELSE b
Greatest(a, b) == IF a >= b THEN a ELSE b
Clip(n)        == Greatest(policy.min, Least(policy.max, n))

-----------------------------------------------------------------------------
(* The controllers: the backend count wanted for a reading d of n backends. *)

\* The reading is below what one backend less would serve.
BelowShed(d, n) == d < (n - 1) * policy.capacity

Qualifies(d, n) ==
    policy.capacity > 0 /\ n > policy.min /\ BelowShed(d, n)

\* Mutant of NextStreak: the streak survives a high reading.
StreakKept(d, n) ==
    IF Qualifies(d, n) THEN Least(streak + 1, MaxStreak) ELSE streak

\* _decide: consecutive readings that qualify for a scale-in.
NextStreak(d, n) ==
    IF Qualifies(d, n) THEN Least(streak + 1, MaxStreak) ELSE 0

\* scale_in_cooldown
ScaleInCooldown ==
    IF policy.inCooldown > 0 THEN policy.inCooldown ELSE policy.cooldown

\* Mutant of StepGoal: max_backends itself may be exceeded.
StepGoalPastMax(d, n) ==
    IF /\ d > n * policy.capacity
       /\ n <= policy.max
       /\ age["any"] >= policy.cooldown
    THEN n + 1
    ELSE IF /\ Qualifies(d, n)
            /\ age["any"] >= ScaleInCooldown
            /\ NextStreak(d, n) >= policy.confirmations
    THEN n - 1
    ELSE n

\* decide: one backend at a time, one clock, and confirmation of a scale-in.
StepGoal(d, n) ==
    IF policy.capacity = 0 THEN n
    ELSE IF /\ d > n * policy.capacity
            /\ n < policy.max
            /\ age["any"] >= policy.cooldown
    THEN n + 1
    ELSE IF /\ BelowShed(d, n)
            /\ n > policy.min
            /\ age["any"] >= ScaleInCooldown
            /\ NextStreak(d, n) >= policy.confirmations
    THEN n - 1
    ELSE n

\* target_for_load with the headroom law: a rounded-up division.
TargetForLoad(d) ==
    Clip((d * (100 + Headroom) + 100 * policy.capacity - 1)
            \div (100 * policy.capacity))

Capped(step, cap) == IF cap > 0 THEN Least(step, cap) ELSE step

\* decide_target: a jump to the size wanted, a clock for each direction, and
\* a deadband for a scale-in.
TargetGoal(d, n) ==
    IF policy.capacity = 0 THEN n
    ELSE LET want == TargetForLoad(d)
         IN  IF want > n /\ age[Out] >= OutCooldown
             THEN Clip(n + Capped(want - n, MaxStepOut))
             ELSE IF /\ want < n
                     /\ 100 * (n - 1) * policy.capacity
                            >= d * (100 + Headroom + Deadband)
                     /\ age[In] >= InCooldown
             THEN Clip(n - Capped(n - want, MaxStepIn))
             ELSE n

Goal(d, n) == IF kind = "step" THEN StepGoal(d, n) ELSE TargetGoal(d, n)

-----------------------------------------------------------------------------
Idle(t) == job[t] = NoJob

\* t's job becomes j; every job of another thread has been interfered with.
Moves(t, j) ==
    /\ job' = [job EXCEPT ![t] = j]
    /\ contended' = [u \in Threads |->
                       IF u # t THEN contended[u] \/ ~Idle(u)
                       ELSE /\ j # NoJob
                            /\ IF Idle(t) THEN \E v \in Threads \ {t} : ~Idle(v)
                                          ELSE contended[t]]

At(t, pc) == job[t].pc = pc
GoTo(t, pc) == Moves(t, [job[t] EXCEPT !.pc = pc])

Direction(from, to) == IF to > from THEN Out ELSE IF to < from THEN In ELSE "noop"
FirstStep(action) == IF action = Out THEN "find stopped" ELSE "find dynamic"
Steps(j) == IF j.action = Out THEN j.goal - j.base ELSE j.base - j.goal

\* Mutant of LastRound: one round of the loop too many.
OneRoundMore(j) == j.done = Steps(j)

\* actuate_to_target: this is the last of range(steps).
LastRound(j) == j.done + 1 = Steps(j)

\* Mutant of FinalCount: what it wanted.
IntendedCount(j) == j.goal

\* The count a job records: what it reached.
FinalCount(j) ==
    IF j.action = Out THEN j.base + j.done
    ELSE IF j.action = In THEN j.base - j.done
    ELSE j.base

\* One backend more has been added or removed by t.
Actuated(t) ==
    LET j == job[t]
    IN  /\ Moves(t, [j EXCEPT !.done = @ + 1, !.slot = 1,
                              !.pc = IF LastRound(j) THEN "record"
                                     ELSE FirstStep(j.action)])
        /\ quiet' = [c \in Clocks |-> IF c = ClockOf(j.action) THEN 0
                                      ELSE quiet[c]]
        /\ UNCHANGED <<kind, memory, unrecorded, readings>>

\* The cluster client returns None: the jump ends where it got to.  The loop
\* drops a decision that changed nothing, an operator's request is recorded.
Stuck(t, half) ==
    /\ IF t = Loop /\ job[t].done = 0
       THEN Moves(t, NoJob)
       ELSE Moves(t, [job[t] EXCEPT !.pc = "record", !.slot = 1,
                                    !.half = @ \/ half])
    /\ UNCHANGED <<kind, memory, quiet, unrecorded, readings>>

\* An exception ends the job: the loop goes on with the next message, the
\* request answers 500.
Aborted(t) ==
    /\ Moves(t, NoJob)
    /\ unrecorded' = IF job[t].done > 0
                     THEN unrecorded \cup {ClockOf(job[t].action)} ELSE unrecorded
    /\ UNCHANGED <<replica, kind, memory, quiet, readings>>

\* t takes container i from the list it has read.
Chooses(t, i, pc) ==
    /\ Moves(t, [job[t] EXCEPT !.pc = pc, !.slot = i])
    /\ UNCHANGED <<replica, kind, memory, quiet, unrecorded, readings>>

\* A container is stopped and not removed: t goes on as if it still ran.
FallsBack(t) ==
    /\ Moves(t, [job[t] EXCEPT !.pc = "find running", !.half = TRUE])
    /\ UNCHANGED <<replica, kind, memory, quiet, unrecorded, readings>>

Proceeds(t, pc) ==
    /\ GoTo(t, pc)
    /\ UNCHANGED <<kind, memory, quiet, unrecorded, readings>>

-----------------------------------------------------------------------------
(* The messages of the control loop.                                       *)

\* A forecast, or the observed rate when forecasts are stale: the count is
\* read, _decide chooses, and a decision to act starts a job.
Reading(d) ==
    LET n == BackendCount
        g == Goal(d, n)
    IN  /\ Idle(Loop)
        /\ streak' = NextStreak(d, n)
        /\ readings' = IF kind = "target" \/ g > n THEN 0
                       ELSE Least(readings + 1, MaxStreak)
        /\ Moves(Loop, IF g = n THEN NoJob
                       ELSE [NoJob EXCEPT !.pc = FirstStep(Direction(n, g)),
                                          !.action = Direction(n, g),
                                          !.base = n, !.goal = g,
                                          !.ceiling = ceiling])
        /\ UNCHANGED <<replica, kind, policy, ceiling, age, quiet, unrecorded>>

\* An envelope that is not older than the policy in force.
HandlePolicy(p) ==
    /\ Idle(Loop)
    /\ policy' = p
    /\ Moves(Loop, NoJob)
    /\ UNCHANGED <<replica, kind, ceiling, age, streak,
                   quiet, unrecorded, readings>>

-----------------------------------------------------------------------------
(* POST /api/v1/scale, up to its plan.                                     *)

\* The target is validated against the policy as it is now.
ManualRequest(t, n) ==
    /\ Idle(t)
    /\ n \in policy.min..policy.max
    /\ Moves(t, [NoJob EXCEPT !.pc = "query", !.goal = n])
    /\ UNCHANGED <<replica, kind, memory, quiet, unrecorded, readings>>

\* A cluster client of its own, and the count to start from.
ManualPlan(t) ==
    LET n == BackendCount
        a == Direction(n, job[t].goal)
    IN  /\ At(t, "query")
        /\ Moves(t, [job[t] EXCEPT !.pc = IF a = "noop" THEN "record"
                                          ELSE FirstStep(a),
                                   !.action = a, !.base = n,
                                   !.ceiling = policy.max])
        /\ UNCHANGED <<replica, kind, memory, quiet, unrecorded, readings>>

-----------------------------------------------------------------------------
(* cluster.scale_out: start a stopped container, else create one.          *)

FindStopped(t) ==
    /\ At(t, "find stopped")
    /\ \/ /\ Stopped # {}
          /\ Chooses(t, Lowest(Stopped), "start")
       \/ /\ Stopped = {}
          /\ Proceeds(t, "provision")
          /\ UNCHANGED replica

\* Starting what another thread has started meanwhile succeeds as well; what
\* it has removed raises.
StartContainer(t) ==
    /\ At(t, "start")
    /\ \/ /\ replica[job[t].slot] # "none"
          /\ replica' = [replica EXCEPT ![job[t].slot] = "running"]
          /\ Actuated(t)
       \/ /\ "start" \in Failing \/ replica[job[t].slot] = "none"
          /\ Aborted(t)

\* provision refuses at the ceiling its client was built with.
MayProvision(t) ==
    Provisioning /\ Cardinality(Labelled) < job[t].ceiling /\ Slots # Labelled

Provision(t) ==
    /\ At(t, "provision")
    /\ \/ /\ MayProvision(t)
          /\ Chooses(t, Lowest(Slots \ Labelled), "create")
       \/ /\ ~MayProvision(t)
          /\ Stuck(t, FALSE) /\ UNCHANGED replica

\* containers.run: a name that is taken, or Docker, makes it fail; it may have
\* created a container that did not start.
CreateContainer(t) ==
    /\ At(t, "create")
    /\ \/ /\ replica[job[t].slot] = "none"
          /\ replica' = [replica EXCEPT ![job[t].slot] = "running"]
          /\ Proceeds(t, "wait healthy")
       \/ /\ "run" \in Failing \/ replica[job[t].slot] # "none"
          /\ Stuck(t, FALSE) /\ UNCHANGED replica
       \/ /\ "run" \in Failing /\ replica[job[t].slot] = "none"
          /\ replica' = [replica EXCEPT ![job[t].slot] = "stopped"]
          /\ Stuck(t, FALSE)

\* _wait_for_healthy: on a timeout the container is stopped and left there;
\* when the stop fails nobody notices, and it goes on running.
WaitForHealthy(t) ==
    /\ At(t, "wait healthy")
    /\ \/ /\ replica[job[t].slot] = "running"
          /\ Actuated(t) /\ UNCHANGED replica
       \/ /\ replica' = [replica EXCEPT ![job[t].slot] =
                           IF @ = "none" THEN "none" ELSE "stopped"]
          /\ Stuck(t, FALSE)
       \/ /\ "stop" \in Failing
          /\ Stuck(t, TRUE) /\ UNCHANGED replica

-----------------------------------------------------------------------------
(* cluster.scale_in: remove a dynamic container, else stop one.            *)

FindDynamic(t) ==
    /\ At(t, "find dynamic")
    /\ \/ /\ RunningReplicas \cap Dynamic # {}
          /\ Chooses(t, Highest(RunningReplicas \cap Dynamic), "decommission")
       \/ /\ RunningReplicas \cap Dynamic = {}
          /\ Proceeds(t, "find running")
          /\ UNCHANGED replica

\* decommission stops the container and then removes it, running or not; one
\* that is gone makes it fall back to stop.
Decommission(t) ==
    /\ At(t, "decommission")
    /\ \/ /\ replica[job[t].slot] # "none"
          /\ replica' = [replica EXCEPT ![job[t].slot] = "stopped"]
          /\ Proceeds(t, "remove")
       \/ /\ "stop" \in Failing \/ replica[job[t].slot] = "none"
          /\ Proceeds(t, "find running") /\ UNCHANGED replica

\* A remove that fails makes it fall back to stop as well, and the container
\* it has stopped is not counted.
RemoveContainer(t) ==
    /\ At(t, "remove")
    /\ \/ /\ replica[job[t].slot] # "none"
          /\ replica' = [replica EXCEPT ![job[t].slot] = "none"]
          /\ Actuated(t)
       \/ /\ "remove" \in Failing \/ replica[job[t].slot] = "none"
          /\ FallsBack(t)

FindRunning(t) ==
    /\ At(t, "find running")
    /\ \/ /\ RunningReplicas # {}
          /\ Chooses(t, Highest(RunningReplicas), "stop")
       \/ /\ RunningReplicas = {}
          /\ Stuck(t, FALSE) /\ UNCHANGED replica

StopContainer(t) ==
    /\ At(t, "stop")
    /\ \/ /\ replica[job[t].slot] # "none"
          /\ replica' = [replica EXCEPT ![job[t].slot] = "stopped"]
          /\ Actuated(t)
       \/ /\ "stop" \in Failing \/ replica[job[t].slot] = "none"
          /\ Aborted(t)

-----------------------------------------------------------------------------
(* The end of apply_decision and of post_manual_scale.                     *)

\* The scaling_events row.
Record(t) ==
    /\ At(t, "record")
    /\ \/ Proceeds(t, "publish") /\ UNCHANGED replica
       \/ "insert" \in Failing /\ Aborted(t)

\* The envelope on smartload.scale.
Publish(t) ==
    /\ At(t, "publish")
    /\ \/ Proceeds(t, "stamp") /\ UNCHANGED replica
       \/ "publish" \in Failing /\ Aborted(t)

\* Mutant of Stamp: only the clock of the direction.
StampDirectionOnly(t) ==
    /\ At(t, "stamp")
    /\ age' = [c \in Clocks |-> IF c = job[t].action THEN 0 ELSE age[c]]
    /\ unrecorded' = unrecorded \ {"any", job[t].action}
    /\ Moves(t, NoJob)
    /\ UNCHANGED <<replica, kind, policy, ceiling, streak, quiet, readings>>

\* The cooldown clocks: the common one, and the one of the direction taken.
Stamp(t) ==
    /\ At(t, "stamp")
    /\ LET stamped == {"any"} \cup (IF job[t].done > 0 THEN {job[t].action} ELSE {})
       IN  /\ age' = [c \in Clocks |-> IF c \in stamped THEN 0 ELSE age[c]]
           /\ unrecorded' = unrecorded \ stamped
    /\ Moves(t, NoJob)
    /\ UNCHANGED <<replica, kind, policy, ceiling, streak, quiet, readings>>

-----------------------------------------------------------------------------
(* Time, and a restart of the process.                                     *)

TimePasses ==
    /\ age' = [c \in Clocks |-> Least(age[c] + 1, MaxAge)]
    /\ quiet' = [c \in Clocks |-> Least(quiet[c] + 1, MaxAge)]
    /\ UNCHANGED <<replica, kind, policy, ceiling, streak, job, contended,
                   unrecorded, readings>>

\* A new process knows no action; its loop's cluster client is built from the
\* policy file.
Start(p) ==
    /\ policy' = p
    /\ ceiling' = p.max
    /\ age' = [c \in Clocks |-> MaxAge]
    /\ streak' = 0
    /\ job' = [t \in Threads |-> NoJob]
    /\ contended' = [t \in Threads |-> FALSE]
    /\ quiet' = [c \in Clocks |-> MaxAge]
    /\ unrecorded' = {}
    /\ readings' = 0

Restart(p) == Start(p) /\ UNCHANGED <<replica, kind>>

-----------------------------------------------------------------------------
\* docker-compose has started its replicas.
Init ==
    /\ replica = [i \in Slots |-> IF i <= Compose THEN "running" ELSE "none"]
    /\ kind \in {"step", "target"}
    /\ policy \in Policies
    /\ ceiling = policy.max
    /\ age = [c \in Clocks |-> MaxAge]
    /\ streak = 0
    /\ job = [t \in Threads |-> NoJob]
    /\ contended = [t \in Threads |-> FALSE]
    /\ quiet = [c \in Clocks |-> MaxAge]
    /\ unrecorded = {}
    /\ readings = 0

\* cluster.scale_out and cluster.scale_in, one call of Docker at a time.
ClusterStep(t) ==
    \/ FindStopped(t) \/ StartContainer(t)
    \/ Provision(t) \/ CreateContainer(t) \/ WaitForHealthy(t)
    \/ FindDynamic(t) \/ Decommission(t) \/ RemoveContainer(t)
    \/ FindRunning(t) \/ StopContainer(t)

JobStep(t) == ClusterStep(t) \/ Record(t) \/ Publish(t) \/ Stamp(t)

Next ==
    \/ \E d \in Demands : Reading(d)
    \/ \E p \in Policies : HandlePolicy(p) \/ Restart(p)
    \/ \E t \in Threads \ {Loop} :
         ManualPlan(t) \/ \E n \in 0..Replicas : ManualRequest(t, n)
    \/ \E t \in Threads : JobStep(t)
    \/ TimePasses

Spec == Init /\ [][Next]_vars

-----------------------------------------------------------------------------
(* Properties.                                                             *)

Job == [pc : {"idle", "query", "find stopped", "start", "provision", "create",
              "wait healthy", "find dynamic", "decommission", "remove",
              "find running", "stop", "record", "publish", "stamp"},
        action : {Out, In, "noop"}, base : 0..Replicas, goal : 0..Replicas,
        done : 0..Replicas, slot : Slots, ceiling : Slots, half : BOOLEAN]

\* The type invariant of the autoscaler.
AutoscalerTypeOK ==
    /\ replica \in [Slots -> {"none", "stopped", "running"}]
    /\ kind \in {"step", "target"}
    /\ policy \in Policies
    /\ ceiling \in Slots
    /\ age \in [Clocks -> 0..MaxAge]
    /\ streak \in 0..MaxStreak
    /\ job \in [Threads -> Job]
    /\ \A t \in Threads : job[t].done <= Steps(job[t]) \/ job[t].action = "noop"
    /\ contended \in [Threads -> BOOLEAN]
    /\ quiet \in [Clocks -> 0..MaxAge]
    /\ unrecorded \subseteq Clocks
    /\ readings \in 0..MaxStreak

\* "respect max_backends", "respect min_backends": a backend added by a
\* decision, or for an operator, that no other thread interfered with leaves
\* no more than the policy's maximum running, one removed no less than its
\* minimum, whatever timed out or was refused on the way, but for a call of
\* Docker that failed half-way.
ScalingWithinBounds ==
    [][\A t \in Threads :
         ~contended[t] /\ ~job[t].half /\ job'[t].done > job[t].done =>
            /\ job[t].action = Out => Cardinality(RunningReplicas') <= policy.max
            /\ job[t].action = In  => Cardinality(RunningReplicas') >= policy.min]_vars

\* "recording the count actually REACHED, never the intended target if the
\* cluster ran out mid-jump": the count announced by a job that no other
\* thread interfered with is the number of running backends, unless a call
\* of Docker failed half-way: a container that was stopped and not removed,
\* or started and not stopped again, which the code takes for unchanged.
AnnouncedCountIsTrue ==
    \A t \in Threads :
        At(t, "publish") /\ ~contended[t] /\ ~job[t].half =>
            FinalCount(job[t]) = BackendCount

\* The controller's cooldown for an action.
CooldownOf(a) ==
    IF kind = "step" THEN IF a = Out THEN policy.cooldown ELSE ScaleInCooldown
    ELSE IF a = Out THEN OutCooldown ELSE InCooldown

Decides(a) == Idle(Loop) /\ job'[Loop] # NoJob /\ job'[Loop].action = a

\* Manual actions and the loop's own keep the loop quiet for the cooldown:
\* with no request in progress, it acts only when the backends have been left
\* alone, in its direction for the target controller, for as long as the
\* policy in force says, unless a failure kept the last change unrecorded.
RecordedActionsCoolDown ==
    [][\A a \in {Out, In} :
         /\ Decides(a) /\ ClockOf(a) \notin unrecorded
         /\ \A t \in Threads \ {Loop} : Idle(t)
         => quiet[ClockOf(a)] >= CooldownOf(a)]_vars

\* "respect autoscaler_cooldown_seconds": the same without the exception.
CooldownRespected ==
    [][\A a \in {Out, In} :
         Decides(a) /\ (\A t \in Threads \ {Loop} : Idle(t))
         => quiet[ClockOf(a)] >= CooldownOf(a)]_vars

\* "a single low reading right after a scale-out cannot satisfy the
\* confirmation count": the step controller removes a backend only when it
\* has taken the policy's number of readings since it last added one.
ScaleInIsConfirmed ==
    [][Decides(In) /\ kind = "step" => readings' >= policy.confirmations]_vars
=============================================================================
