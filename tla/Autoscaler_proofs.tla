-------------------------- MODULE Autoscaler_proofs --------------------------
(* Theorems about Autoscaler, for any number of replicas, threads and      *)
(* policies, any readings and any tuning of the controllers.               *)
EXTENDS Autoscaler, FiniteSetTheorems, WellFoundedInduction, TLAPS

-----------------------------------------------------------------------------
(* Counting.                                                               *)

\* The running backends are finitely many, and no more than the replicas.
LEMMA CountIsBounded ==
    /\ IsFiniteSet(RunningReplicas)
    /\ BackendCount \in 0..Replicas
<1>1. IsFiniteSet(Slots) /\ Cardinality(Slots) = Replicas
  BY FS_Interval, ReplicasAssumption DEF Slots
<1>2. RunningReplicas \in SUBSET Slots
  BY DEF RunningReplicas
<1>3. IsFiniteSet(RunningReplicas) /\ Cardinality(RunningReplicas) <= Replicas
  BY <1>1, <1>2, FS_Subset
<1>4. Cardinality(RunningReplicas) \in Nat
  BY <1>3, FS_CardinalityType
<1>. QED  BY <1>3, <1>4, ReplicasAssumption DEF BackendCount

\* Starting a container that is not running adds one backend.
LEMMA OneStarts ==
    ASSUME replica \in [Slots -> {"none", "stopped", "running"}],
           NEW i \in Slots, replica[i] # "running",
           replica' = [replica EXCEPT ![i] = "running"]
    PROVE  BackendCount' = BackendCount + 1
<1>1. RunningReplicas' = RunningReplicas \cup {i}
  BY DEF RunningReplicas
<1>2. i \notin RunningReplicas
  BY DEF RunningReplicas
<1>3. Cardinality(RunningReplicas \cup {i}) = Cardinality(RunningReplicas) + 1
  BY <1>2, CountIsBounded, FS_AddElement
<1>. QED  BY <1>1, <1>3 DEF BackendCount

\* Stopping or removing a running container takes one backend away.
LEMMA OneStops ==
    ASSUME replica \in [Slots -> {"none", "stopped", "running"}],
           NEW i \in Slots, replica[i] = "running",
           NEW s \in {"none", "stopped"}, replica' = [replica EXCEPT ![i] = s]
    PROVE  BackendCount' = BackendCount - 1
<1>1. RunningReplicas' = RunningReplicas \ {i}
  BY DEF RunningReplicas
<1>2. i \in RunningReplicas
  BY DEF RunningReplicas
<1>3. Cardinality(RunningReplicas \ {i}) = Cardinality(RunningReplicas) - 1
  BY <1>2, CountIsBounded, FS_RemoveElement
<1>. QED  BY <1>1, <1>3 DEF BackendCount

\* What happens to a container that does not run changes no count.
LEMMA NoneStops ==
    ASSUME replica \in [Slots -> {"none", "stopped", "running"}],
           NEW i \in Slots, replica[i] # "running",
           NEW s \in {"none", "stopped"}, replica' = [replica EXCEPT ![i] = s]
    PROVE  BackendCount' = BackendCount
<1>1. RunningReplicas' = RunningReplicas
  BY DEF RunningReplicas
<1>. QED  BY <1>1 DEF BackendCount

-----------------------------------------------------------------------------
(* Lists of containers.                                                    *)

\* A non-empty set of naturals has a least element.
LEMMA NaturalsHaveALeast ==
    ASSUME NEW S \in SUBSET Nat, S # {}
    PROVE  \E i \in S : \A j \in S : i <= j
<1>. DEFINE Below == {0..i : i \in S}
<1>1. Below \subseteq FiniteSubsetsOf(Nat) /\ Below # {}
  <2>1. \A i \in S : IsFiniteSet(0..i) /\ 0..i \in SUBSET Nat
    BY FS_Interval
  <2>. QED  BY <2>1 DEF FiniteSubsetsOf
<1>2. PICK B \in Below :
        \A C \in Below : <<C, B>> \notin StrictSubsetOrdering(Nat)
  BY <1>1, FS_StrictSubsetOrderingWellFounded, WFMin
<1>3. PICK i \in S : B = 0..i
  OBVIOUS
<1>4. ASSUME NEW j \in S, j < i  PROVE FALSE
  <2>1. i \in Nat /\ j \in Nat
    OBVIOUS
  <2>2. 0..j \subseteq 0..i /\ i \in 0..i /\ i \notin 0..j
    BY <1>4, <2>1
  <2>3. <<0..j, 0..i>> \in StrictSubsetOrdering(Nat)
    BY <2>1, <2>2 DEF StrictSubsetOrdering
  <2>. QED  BY <1>2, <1>3, <2>3
<1>. QED  BY <1>4

\* The lowest and the highest of a non-empty set of slots are in it.
LEMMA EndsOfSlots ==
    ASSUME NEW S \in SUBSET Slots, S # {}
    PROVE  Lowest(S) \in S /\ Highest(S) \in S
<1>. DEFINE Mirror == {Replicas - i : i \in S}
<1>1. S \in SUBSET Nat /\ Mirror \in SUBSET Nat /\ Mirror # {}
  <2>1. \A i \in S : i \in Nat /\ Replicas - i \in Nat
    BY ReplicasAssumption DEF Slots
  <2>. QED  BY <2>1
<1>2. \E i \in S : \A j \in S : i <= j
  BY <1>1, NaturalsHaveALeast
<1>3. PICK m \in Mirror : \A k \in Mirror : m <= k
  BY <1>1, NaturalsHaveALeast
<1>4. PICK i \in S : m = Replicas - i
  OBVIOUS
<1>5. ASSUME NEW j \in S  PROVE j <= i
  <2>1. Replicas - i <= Replicas - j
    BY <1>3, <1>4
  <2>. QED  BY <1>1, <2>1, ReplicasAssumption
<1>. QED  BY <1>2, <1>4, <1>5 DEF Lowest, Highest
-----------------------------------------------------------------------------
(* The controllers.                                                        *)

\* The policy in force is one the constants allow.
LEMMA PolicyIsBounded ==
    ASSUME policy \in Policies
    PROVE  /\ policy \in Policy
           /\ policy.min \in Nat /\ policy.max \in Slots
           /\ policy.min <= policy.max /\ policy.max <= Replicas
           /\ policy.capacity \in Nat
           /\ policy.cooldown \in 0..MaxAge /\ policy.inCooldown \in 0..MaxAge
           /\ policy.confirmations \in 0..MaxStreak
BY PolicyAssumption, ReplicasAssumption DEF Policy, Slots

\* Whatever it is given, _clip returns a size within the bounds.
LEMMA ClipIsBounded ==
    ASSUME policy \in Policies, NEW n \in Int
    PROVE  Clip(n) \in policy.min..policy.max
BY PolicyIsBounded, ReplicasAssumption DEF Clip, Greatest, Least, Slots

\* target_for_load stays within the bounds.
LEMMA TargetIsBounded ==
    ASSUME policy \in Policies, NEW d \in Demands, policy.capacity # 0
    PROVE  TargetForLoad(d) \in policy.min..policy.max
<1>1. /\ d \in Nat /\ Headroom \in Nat
      /\ policy.capacity \in Nat \ {0}
  BY PolicyIsBounded, TuningAssumption
<1>2. /\ d * (100 + Headroom) \in Int
      /\ 100 * policy.capacity \in Nat \ {0}
  BY <1>1
<1>3. (d * (100 + Headroom) + 100 * policy.capacity - 1)
         \div (100 * policy.capacity) \in Int
  BY <1>2
<1>. QED  BY <1>3, ClipIsBounded DEF TargetForLoad

LEMMA CappedIsLess ==
    ASSUME NEW m \in Nat, NEW cap \in Nat
    PROVE  Capped(m, cap) \in Nat /\ Capped(m, cap) <= m
BY DEF Capped, Least

\* A jump towards a larger size is not one to a smaller, clipped or not.
LEMMA OutIsNotLess ==
    ASSUME policy \in Policies, NEW d \in Demands, policy.capacity # 0,
           NEW n \in 0..Replicas, TargetForLoad(d) > n
    PROVE  LET g == Clip(n + Capped(TargetForLoad(d) - n, MaxStepOut))
           IN  g \in policy.min..policy.max /\ g >= n
<1>. DEFINE want == TargetForLoad(d)
            new == n + Capped(want - n, MaxStepOut)
<1>1. /\ want \in Nat /\ want <= policy.max /\ policy.max \in Nat
      /\ n \in Nat /\ policy.min \in Nat /\ MaxStepOut \in Nat
  BY TargetIsBounded, PolicyIsBounded, ReplicasAssumption, TuningAssumption
  DEF Slots
<1>2. want - n \in Nat
  BY <1>1
<1>3. Capped(want - n, MaxStepOut) \in Nat
  BY <1>1, <1>2, CappedIsLess
<1>4. new \in Int /\ new >= n
  BY <1>1, <1>3
<1>. HIDE DEF want, new
<1>5. Clip(new) \in policy.min..policy.max
  BY <1>4, ClipIsBounded
<1>6. n <= policy.max
  BY <1>1 DEF want
<1>7. Clip(new) >= n
  BY <1>1, <1>4, <1>6 DEF Clip, Greatest, Least
<1>. QED  BY <1>5, <1>7 DEF want, new

\* A jump towards a smaller size is not one to a larger.
LEMMA InIsNotMore ==
    ASSUME policy \in Policies, NEW d \in Demands, policy.capacity # 0,
           NEW n \in 0..Replicas, TargetForLoad(d) < n
    PROVE  LET g == Clip(n - Capped(n - TargetForLoad(d), MaxStepIn))
           IN  g \in policy.min..policy.max /\ g <= n
<1>. DEFINE want == TargetForLoad(d)
            new == n - Capped(n - want, MaxStepIn)
<1>1. /\ want \in Nat /\ want >= policy.min /\ policy.max \in Nat
      /\ n \in Nat /\ policy.min \in Nat /\ MaxStepIn \in Nat
  BY TargetIsBounded, PolicyIsBounded, ReplicasAssumption, TuningAssumption
  DEF Slots
<1>2. n - want \in Nat
  BY <1>1
<1>3. Capped(n - want, MaxStepIn) \in Nat
  BY <1>1, <1>2, CappedIsLess
<1>4. new \in Int /\ new <= n
  BY <1>1, <1>3
<1>. HIDE DEF want, new
<1>5. Clip(new) \in policy.min..policy.max
  BY <1>4, ClipIsBounded
<1>6. n >= policy.min
  BY <1>1 DEF want
<1>7. Clip(new) <= n
  BY <1>1, <1>4, <1>6 DEF Clip, Greatest, Least
<1>. QED  BY <1>5, <1>7 DEF want, new

\* A controller never asks for more than the policy's maximum when it adds a
\* backend, nor for less than its minimum when it removes one.
LEMMA GoalIsBounded ==
    ASSUME policy \in Policies, NEW d \in Demands, NEW n \in 0..Replicas
    PROVE  /\ Goal(d, n) \in 0..Replicas
           /\ Goal(d, n) > n => Goal(d, n) <= policy.max
           /\ Goal(d, n) < n => Goal(d, n) >= policy.min
<1>1. CASE kind = "step"
  <2>1. StepGoal(d, n) \in {n, n + 1, n - 1}
    BY DEF StepGoal
  <2>2. StepGoal(d, n) = n + 1 => n < policy.max
    BY DEF StepGoal
  <2>3. StepGoal(d, n) = n - 1 => n > policy.min
    BY DEF StepGoal
  <2>. QED  BY <1>1, <2>1, <2>2, <2>3, PolicyIsBounded, ReplicasAssumption
            DEF Goal, Slots
<1>2. CASE kind # "step"
  <2>1. \/ TargetGoal(d, n) = n
        \/ /\ policy.capacity # 0 /\ TargetForLoad(d) > n
           /\ TargetGoal(d, n)
                 = Clip(n + Capped(TargetForLoad(d) - n, MaxStepOut))
        \/ /\ policy.capacity # 0 /\ TargetForLoad(d) < n
           /\ TargetGoal(d, n)
                 = Clip(n - Capped(n - TargetForLoad(d), MaxStepIn))
    BY DEF TargetGoal
  <2>2. \/ TargetGoal(d, n) = n
        \/ TargetGoal(d, n) \in policy.min..policy.max
    BY <2>1, OutIsNotLess, InIsNotMore
  <2>. QED  BY <1>2, <2>2, PolicyIsBounded, ReplicasAssumption DEF Goal, Slots
<1>. QED  BY <1>1, <1>2

-----------------------------------------------------------------------------
(* Jobs.                                                                   *)

OutSteps == {"find stopped", "start", "provision", "create", "wait healthy"}
InSteps  == {"find dynamic", "decommission", "remove", "find running", "stop"}

\* A job has a direction while it talks to Docker, and does not go past its
\* goal.
JobShape(j) ==
    /\ j \in Job
    /\ j.pc = "idle" => j = NoJob
    /\ j.pc \in {"idle", "query"} => j.action = "noop"
    /\ j.pc \in OutSteps => j.action = Out /\ j.base + j.done < j.goal
    /\ j.pc \in InSteps => j.action = In /\ j.goal + j.done < j.base
    /\ j.action = Out => j.base + j.done <= j.goal
    /\ j.action = In => j.goal + j.done <= j.base
    /\ j.action = "noop" => j.done = 0

LEMMA JobFields ==
    ASSUME NEW j, JobShape(j)
    PROVE  /\ j.action \in {Out, In, "noop"} /\ j.slot \in Slots
           /\ j.base \in 0..Replicas /\ j.goal \in 0..Replicas
           /\ j.done \in 0..Replicas /\ j.ceiling \in Slots
           /\ Replicas \in Nat
BY ReplicasAssumption DEF JobShape, Job

LEMMA NoJobHasShape == JobShape(NoJob)
BY ReplicasAssumption
   DEF JobShape, NoJob, Job, Slots, OutSteps, InSteps, Out, In

\* A direction fits the way from one count to another.
Fits(a, pc, n, g) ==
    \/ a = Out /\ n < g /\ pc = "find stopped"
    \/ a = In /\ g < n /\ pc = "find dynamic"
    \/ a = "noop" /\ pc = "record"

LEMMA DirectionFits ==
    ASSUME NEW n \in 0..Replicas, NEW g \in 0..Replicas
    PROVE  LET a == Direction(n, g)
           IN  Fits(a, IF a = "noop" THEN "record" ELSE FirstStep(a), n, g)
BY ReplicasAssumption DEF Fits, Direction, FirstStep, Out, In

\* A job that has just been planned.
LEMMA PlannedJobHasShape ==
    ASSUME NEW h \in Job, h.done = 0, NEW pc, NEW a,
           NEW n \in 0..Replicas, NEW g \in 0..Replicas, NEW c \in Slots,
           Fits(a, pc, n, g)
    PROVE  /\ JobShape([h EXCEPT !.pc = pc, !.action = a, !.base = n,
                                 !.goal = g, !.ceiling = c])
           /\ h.goal = g => JobShape([h EXCEPT !.pc = pc, !.action = a,
                                               !.base = n, !.ceiling = c])
<1>1. /\ a \in {Out, In, "noop"}
      /\ pc \in {"find stopped", "find dynamic", "record"}
  BY DEF Fits
<1>2. /\ a = Out => n + 0 < g /\ n + 0 <= g /\ pc \in {"find stopped"}
      /\ a = In => g + 0 < n /\ g + 0 <= n /\ pc \in {"find dynamic"}
      /\ a = "noop" => pc \in {"record"}
  <2>1. \A x, y \in 0..Replicas : x < y => x + 0 < y /\ x + 0 <= y
    BY ReplicasAssumption
  <2>. QED  BY <2>1 DEF Fits, Out, In
<1>3. JobShape([h EXCEPT !.pc = pc, !.action = a, !.base = n,
                         !.goal = g, !.ceiling = c])
  <2>. DEFINE k == [h EXCEPT !.pc = pc, !.action = a, !.base = n,
                            !.goal = g, !.ceiling = c]
  <2>1. k \in Job
    BY <1>1 DEF Job
  <2>2. /\ k.pc = pc /\ k.action = a /\ k.base = n /\ k.goal = g /\ k.done = 0
    BY <1>1 DEF Job
  <2>. HIDE DEF k
  <2>3. JobShape(k)
    BY <1>1, <1>2, <2>1, <2>2 DEF JobShape, OutSteps, InSteps, Out, In
  <2>. QED  BY <2>3 DEF k
<1>4. ASSUME h.goal = g
      PROVE  JobShape([h EXCEPT !.pc = pc, !.action = a, !.base = n,
                                !.ceiling = c])
  <2>. DEFINE k == [h EXCEPT !.pc = pc, !.action = a, !.base = n,
                            !.ceiling = c]
  <2>1. k \in Job
    BY <1>1 DEF Job
  <2>2. /\ k.pc = pc /\ k.action = a /\ k.base = n /\ k.goal = g /\ k.done = 0
    BY <1>1, <1>4 DEF Job
  <2>. HIDE DEF k
  <2>3. JobShape(k)
    BY <1>1, <1>2, <2>1, <2>2 DEF JobShape, OutSteps, InSteps, Out, In
  <2>. QED  BY <2>3 DEF k
<1>. QED  BY <1>3, <1>4

\* What the clocks, the streak and the rest need of their types.
OtherTypes ==
    /\ replica \in [Slots -> {"none", "stopped", "running"}]
    /\ kind \in {"step", "target"}
    /\ policy \in Policies
    /\ ceiling \in Slots
    /\ age \in [Clocks -> 0..MaxAge]
    /\ streak \in 0..MaxStreak
    /\ quiet \in [Clocks -> 0..MaxAge]
    /\ unrecorded \subseteq Clocks
    /\ readings \in 0..MaxStreak

\* The inductive form of the type invariant.
TypeInv ==
    /\ OtherTypes
    /\ job = [t \in Threads |-> job[t]]
    /\ \A t \in Threads : JobShape(job[t])
    /\ contended \in [Threads -> BOOLEAN]

LEMMA TypeInvImpliesTypeOK == TypeInv => AutoscalerTypeOK
<1>. SUFFICES ASSUME TypeInv PROVE AutoscalerTypeOK
  OBVIOUS
<1>1. job \in [Threads -> Job]
  BY DEF TypeInv, JobShape
<1>2. ASSUME NEW t \in Threads
      PROVE  job[t].done <= Steps(job[t]) \/ job[t].action = "noop"
  <2>1. JobShape(job[t])
    BY DEF TypeInv
  <2>. QED  BY <2>1, JobFields DEF JobShape, Steps, Out, In
<1>. QED  BY <1>1, <1>2 DEF TypeInv, OtherTypes, AutoscalerTypeOK

\* A step that gives one thread a job of the right shape keeps them all so.
LEMMA MovesKeepShape ==
    ASSUME TypeInv, NEW t \in Threads, NEW j, JobShape(j), Moves(t, j)
    PROVE  /\ job' = [u \in Threads |-> job'[u]]
           /\ \A u \in Threads : JobShape(job'[u])
           /\ contended' \in [Threads -> BOOLEAN]
<1>1. job' = [job EXCEPT ![t] = j]
  BY DEF Moves
<1>2. job' = [u \in Threads |-> IF u = t THEN j ELSE job[u]]
  BY <1>1 DEF TypeInv
<1>3. \A u \in Threads : JobShape(job'[u])
  BY <1>2 DEF TypeInv
<1>4. contended' = [u \in Threads |->
                      IF u # t THEN contended[u] \/ ~Idle(u)
                      ELSE /\ j # NoJob
                           /\ IF Idle(t) THEN \E v \in Threads \ {t} : ~Idle(v)
                                         ELSE contended[t]]
  BY DEF Moves
<1>5. \A u \in Threads : contended'[u] \in BOOLEAN
  BY <1>4 DEF TypeInv
<1>. QED  BY <1>2, <1>3, <1>4, <1>5

\* Such a step keeps the invariant, if it keeps the other types.
LEMMA MovesKeepTypes ==
    ASSUME TypeInv, NEW t \in Threads, NEW j, JobShape(j), Moves(t, j),
           OtherTypes'
    PROVE  TypeInv'
BY MovesKeepShape DEF TypeInv

\* A step of a job to a place in the code with the same direction.
LEMMA GoToKeepsShape ==
    ASSUME TypeInv, NEW t \in Threads, NEW pc, NEW i \in Slots,
           \/ job[t].pc \in OutSteps /\ pc \in OutSteps \cup {"record"}
           \/ job[t].pc \in InSteps /\ pc \in InSteps \cup {"record"}
           \/ pc \in {"publish", "stamp"} /\ job[t].pc \notin {"idle", "query"}
    PROVE  /\ JobShape([job[t] EXCEPT !.pc = pc])
           /\ JobShape([job[t] EXCEPT !.pc = pc, !.slot = i])
           /\ \A h \in BOOLEAN :
                JobShape([job[t] EXCEPT !.pc = pc, !.half = h])
           /\ \A h \in BOOLEAN :
                JobShape([job[t] EXCEPT !.pc = pc, !.slot = i, !.half = h])
<1>1. JobShape(job[t])
  BY DEF TypeInv
<1>2. pc \in OutSteps \cup InSteps \cup {"record", "publish", "stamp"}
  OBVIOUS
<1>3. ASSUME NEW h \in BOOLEAN
      PROVE  JobShape([job[t] EXCEPT !.pc = pc, !.half = h])
  BY <1>1, <1>2 DEF JobShape, Job, OutSteps, InSteps
<1>4. ASSUME NEW h \in BOOLEAN
      PROVE  JobShape([job[t] EXCEPT !.pc = pc, !.slot = i, !.half = h])
  BY <1>1, <1>2 DEF JobShape, Job, OutSteps, InSteps
<1>5. /\ JobShape([job[t] EXCEPT !.pc = pc])
      /\ JobShape([job[t] EXCEPT !.pc = pc, !.slot = i])
  BY <1>1, <1>2 DEF JobShape, Job, OutSteps, InSteps
<1>. QED  BY <1>3, <1>4, <1>5

\* One more backend added or removed.
LEMMA OneMoreKeepsShape ==
    ASSUME NEW j, JobShape(j), j.pc \in OutSteps \cup InSteps
    PROVE  JobShape([j EXCEPT !.done = @ + 1, !.slot = 1,
                              !.pc = IF LastRound(j) THEN "record"
                                     ELSE FirstStep(j.action)])
<1>. DEFINE pc == IF LastRound(j) THEN "record" ELSE FirstStep(j.action)
<1>1. /\ j \in Job /\ Replicas \in Nat /\ 1 \in Slots
      /\ j.base \in 0..Replicas /\ j.goal \in 0..Replicas
      /\ j.done \in 0..Replicas
  BY JobFields, ReplicasAssumption DEF JobShape, Slots
<1>2. \/ /\ j.action = Out /\ j.base + j.done < j.goal
         /\ pc = IF j.done + 1 = j.goal - j.base THEN "record"
                 ELSE "find stopped"
      \/ /\ j.action = In /\ j.goal + j.done < j.base
         /\ pc = IF j.done + 1 = j.base - j.goal THEN "record"
                 ELSE "find dynamic"
  BY DEF JobShape, LastRound, Steps, FirstStep, Out, In
<1>. HIDE DEF pc
<1>3. /\ j.done + 1 \in 0..Replicas
      /\ j.action = Out => j.base + (j.done + 1) <= j.goal
      /\ j.action = In => j.goal + (j.done + 1) <= j.base
      /\ j.action = Out /\ j.done + 1 # j.goal - j.base
            => j.base + (j.done + 1) < j.goal
      /\ j.action = In /\ j.done + 1 # j.base - j.goal
            => j.goal + (j.done + 1) < j.base
  <2>1. \A a, b, c \in 0..Replicas : a + c < b =>
          /\ c + 1 \in 0..Replicas
          /\ a + (c + 1) <= b
          /\ c + 1 # b - a => a + (c + 1) < b
    BY <1>1
  <2>2. Out # In
    BY DEF Out, In
  <2>. QED  BY <1>1, <1>2, <2>1, <2>2
<1>4. \/ /\ j.action = Out /\ pc \in {"record", "find stopped"}
         /\ pc = "find stopped" => j.base + (j.done + 1) < j.goal
      \/ /\ j.action = In /\ pc \in {"record", "find dynamic"}
         /\ pc = "find dynamic" => j.goal + (j.done + 1) < j.base
  BY <1>2, <1>3
<1>5. JobShape([j EXCEPT !.done = @ + 1, !.slot = 1, !.pc = pc])
  BY <1>1, <1>3, <1>4 DEF JobShape, Job, OutSteps, InSteps, Out, In
<1>. QED  BY <1>5 DEF pc

-----------------------------------------------------------------------------
(* Type correctness.                                                       *)

Containers == [Slots -> {"none", "stopped", "running"}]

\* The step of a thread that adds or removes a backend.
LEMMA ActuatedKeepsTypes ==
    ASSUME TypeInv, replica' \in Containers, NEW t \in Threads,
           job[t].pc \in OutSteps \cup InSteps, Actuated(t)
    PROVE  TypeInv'
<1>. DEFINE j == job[t]
            k == [j EXCEPT !.done = @ + 1, !.slot = 1,
                           !.pc = IF LastRound(j) THEN "record"
                                  ELSE FirstStep(j.action)]
<1>1. JobShape(k)
  BY OneMoreKeepsShape DEF TypeInv
<1>2. Moves(t, k) /\ UNCHANGED <<kind, memory, unrecorded, readings>>
  BY DEF Actuated
<1>3. quiet' \in [Clocks -> 0..MaxAge]
  <2>1. quiet' = [c \in Clocks |-> IF c = ClockOf(j.action) THEN 0 ELSE quiet[c]]
    BY DEF Actuated
  <2>2. 0 \in 0..MaxAge
    BY PolicyAssumption
  <2>. QED  BY <2>1, <2>2 DEF TypeInv, OtherTypes
<1>4. OtherTypes'
  BY <1>2, <1>3 DEF TypeInv, OtherTypes, memory, Containers
<1>. QED  BY <1>1, <1>2, <1>4, MovesKeepTypes

\* The step of a thread whose Docker call came back with nothing.
LEMMA StuckKeepsTypes ==
    ASSUME TypeInv, replica' \in Containers, NEW t \in Threads,
           NEW half \in BOOLEAN,
           job[t].pc \in OutSteps \cup InSteps, Stuck(t, half)
    PROVE  TypeInv'
<1>1. OtherTypes'
  BY DEF Stuck, TypeInv, OtherTypes, memory, Containers
<1>2. 1 \in Slots
  BY ReplicasAssumption DEF Slots
<1>. DEFINE h == job[t].half \/ half
<1>3. JobShape([job[t] EXCEPT !.pc = "record", !.slot = 1, !.half = h])
  <2>1. h \in BOOLEAN
    OBVIOUS
  <2>. HIDE DEF h
  <2>. QED  BY <1>2, <2>1, GoToKeepsShape
<1>. QED  BY <1>1, <1>3, NoJobHasShape, MovesKeepTypes DEF Stuck

\* The step of a thread that could stop its container and not remove it.
LEMMA FallsBackKeepsTypes ==
    ASSUME TypeInv, NEW t \in Threads, job[t].pc \in InSteps, FallsBack(t)
    PROVE  TypeInv'
<1>1. OtherTypes'
  BY DEF FallsBack, TypeInv, OtherTypes, memory
<1>2. JobShape([job[t] EXCEPT !.pc = "find running", !.half = TRUE])
  <2>1. 1 \in Slots
    BY ReplicasAssumption DEF Slots
  <2>2. "find running" \in InSteps /\ TRUE \in BOOLEAN
    BY DEF InSteps
  <2>. QED  BY <2>1, <2>2, GoToKeepsShape
<1>. QED  BY <1>1, <1>2, MovesKeepTypes DEF FallsBack

\* The step of a thread that an exception ends.
LEMMA AbortedKeepsTypes ==
    ASSUME TypeInv, NEW t \in Threads, Aborted(t)
    PROVE  TypeInv'
<1>1. job[t].done > 0 => job[t].action \in {Out, In}
  BY JobFields DEF TypeInv, JobShape
<1>2. unrecorded' \subseteq Clocks
  BY <1>1 DEF Aborted, TypeInv, OtherTypes, Clocks, ClockOf
<1>3. OtherTypes'
  BY <1>2 DEF Aborted, TypeInv, OtherTypes, memory
<1>. QED  BY <1>3, NoJobHasShape, MovesKeepTypes DEF Aborted

\* The other steps of a thread on its way through the code.
LEMMA ProceedsKeepsTypes ==
    ASSUME TypeInv, replica' \in Containers, NEW t \in Threads, NEW pc,
           \/ job[t].pc \in OutSteps /\ pc \in OutSteps \cup {"record"}
           \/ job[t].pc \in InSteps /\ pc \in InSteps \cup {"record"}
           \/ pc \in {"publish", "stamp"} /\ job[t].pc \notin {"idle", "query"},
           \/ Proceeds(t, pc)
           \/ \E i \in Slots : Chooses(t, i, pc)
    PROVE  TypeInv'
<1>1. CASE Proceeds(t, pc)
  <2>1. OtherTypes'
    BY <1>1 DEF Proceeds, TypeInv, OtherTypes, memory, Containers
  <2>2. 1 \in Slots
    BY ReplicasAssumption DEF Slots
  <2>3. JobShape([job[t] EXCEPT !.pc = pc])
    BY <2>2, GoToKeepsShape
  <2>. QED  BY <1>1, <2>1, <2>3, MovesKeepTypes DEF Proceeds, GoTo
<1>2. CASE \E i \in Slots : Chooses(t, i, pc)
  <2>1. PICK i \in Slots : Chooses(t, i, pc)
    BY <1>2
  <2>2. OtherTypes'
    BY <2>1 DEF Chooses, TypeInv, OtherTypes, memory
  <2>3. JobShape([job[t] EXCEPT !.pc = pc, !.slot = i])
    BY GoToKeepsShape
  <2>. QED  BY <2>1, <2>2, <2>3, MovesKeepTypes DEF Chooses
<1>. QED  BY <1>1, <1>2

\* One call of Docker in cluster.scale_out or cluster.scale_in.
LEMMA ClusterStepKeepsTypes ==
    ASSUME TypeInv, NEW t \in Threads, ClusterStep(t)
    PROVE  TypeInv'
<1>. USE DEF At
<1>0. /\ replica \in Containers
      /\ job[t].slot \in Slots
      /\ \A i \in Slots, s \in {"none", "stopped", "running"} :
            [replica EXCEPT ![i] = s] \in Containers
  BY JobFields DEF TypeInv, OtherTypes, Containers
<1>1. CASE FindStopped(t)
  <2>1. Stopped # {} => Lowest(Stopped) \in Slots
    BY EndsOfSlots DEF Stopped
  <2>. QED  BY <1>0, <1>1, <2>1, ProceedsKeepsTypes
            DEF FindStopped, OutSteps, Chooses
<1>2. CASE StartContainer(t)
  <2>1. CASE replica' = [replica EXCEPT ![job[t].slot] = "running"] /\ Actuated(t)
    BY <1>0, <1>2, <2>1, ActuatedKeepsTypes DEF StartContainer, OutSteps
  <2>2. CASE Aborted(t)
    BY <2>2, AbortedKeepsTypes
  <2>. QED  BY <1>2, <2>1, <2>2 DEF StartContainer
<1>3. CASE Provision(t)
  <2>1. CASE MayProvision(t) /\ Chooses(t, Lowest(Slots \ Labelled), "create")
    <3>1. Lowest(Slots \ Labelled) \in Slots
      BY <2>1, EndsOfSlots DEF MayProvision, Labelled
    <3>. QED  BY <1>0, <1>3, <2>1, <3>1, ProceedsKeepsTypes
              DEF Provision, OutSteps, Chooses
  <2>2. CASE Stuck(t, FALSE) /\ UNCHANGED replica
    BY <1>0, <1>3, <2>2, StuckKeepsTypes DEF Provision, OutSteps
  <2>. QED  BY <1>3, <2>1, <2>2 DEF Provision
<1>4. CASE CreateContainer(t)
  <2>1. CASE /\ replica' = [replica EXCEPT ![job[t].slot] = "running"]
             /\ Proceeds(t, "wait healthy")
    BY <1>0, <1>4, <2>1, ProceedsKeepsTypes DEF CreateContainer, OutSteps
  <2>2. CASE Stuck(t, FALSE) /\ UNCHANGED replica
    BY <1>0, <1>4, <2>2, StuckKeepsTypes DEF CreateContainer, OutSteps
  <2>3. CASE /\ replica' = [replica EXCEPT ![job[t].slot] = "stopped"]
             /\ Stuck(t, FALSE)
    BY <1>0, <1>4, <2>3, StuckKeepsTypes DEF CreateContainer, OutSteps
  <2>. QED  BY <1>4, <2>1, <2>2, <2>3 DEF CreateContainer
<1>5. CASE WaitForHealthy(t)
  <2>1. CASE Actuated(t) /\ UNCHANGED replica
    BY <1>0, <1>5, <2>1, ActuatedKeepsTypes DEF WaitForHealthy, OutSteps
  <2>2. CASE /\ replica' = [replica EXCEPT ![job[t].slot] =
                              IF @ = "none" THEN "none" ELSE "stopped"]
             /\ Stuck(t, FALSE)
    <3>1. replica' \in Containers
      BY <1>0, <2>2
    <3>. QED  BY <1>5, <2>2, <3>1, StuckKeepsTypes DEF WaitForHealthy, OutSteps
  <2>3. CASE Stuck(t, TRUE) /\ UNCHANGED replica
    BY <1>0, <1>5, <2>3, StuckKeepsTypes DEF WaitForHealthy, OutSteps
  <2>. QED  BY <1>5, <2>1, <2>2, <2>3 DEF WaitForHealthy
<1>6. CASE FindDynamic(t)
  <2>1. RunningReplicas \cap Dynamic # {}
          => Highest(RunningReplicas \cap Dynamic) \in Slots
    BY EndsOfSlots DEF Dynamic
  <2>. QED  BY <1>0, <1>6, <2>1, ProceedsKeepsTypes
            DEF FindDynamic, InSteps, Chooses
<1>7. CASE Decommission(t)
  BY <1>0, <1>7, ProceedsKeepsTypes DEF Decommission, InSteps
<1>8. CASE RemoveContainer(t)
  <2>1. CASE replica' = [replica EXCEPT ![job[t].slot] = "none"] /\ Actuated(t)
    BY <1>0, <1>8, <2>1, ActuatedKeepsTypes DEF RemoveContainer, InSteps
  <2>2. CASE FallsBack(t)
    BY <1>8, <2>2, FallsBackKeepsTypes DEF RemoveContainer, InSteps
  <2>. QED  BY <1>8, <2>1, <2>2 DEF RemoveContainer
<1>9. CASE FindRunning(t)
  <2>1. CASE RunningReplicas # {} /\ Chooses(t, Highest(RunningReplicas), "stop")
    <3>1. Highest(RunningReplicas) \in Slots
      BY <2>1, EndsOfSlots DEF RunningReplicas
    <3>. QED  BY <1>0, <1>9, <2>1, <3>1, ProceedsKeepsTypes
              DEF FindRunning, InSteps, Chooses
  <2>2. CASE Stuck(t, FALSE) /\ UNCHANGED replica
    BY <1>0, <1>9, <2>2, StuckKeepsTypes DEF FindRunning, InSteps
  <2>. QED  BY <1>9, <2>1, <2>2 DEF FindRunning
<1>10. CASE StopContainer(t)
  <2>1. CASE replica' = [replica EXCEPT ![job[t].slot] = "stopped"] /\ Actuated(t)
    BY <1>0, <1>10, <2>1, ActuatedKeepsTypes DEF StopContainer, InSteps
  <2>2. CASE Aborted(t)
    BY <2>2, AbortedKeepsTypes
  <2>. QED  BY <1>10, <2>1, <2>2 DEF StopContainer
<1>. QED  BY <1>1, <1>2, <1>3, <1>4, <1>5, <1>6, <1>7, <1>8, <1>9, <1>10
          DEF ClusterStep

\* The end of a job.
LEMMA EndKeepsTypes ==
    ASSUME TypeInv, NEW t \in Threads, Record(t) \/ Publish(t) \/ Stamp(t)
    PROVE  TypeInv'
<1>0. replica \in Containers
  BY DEF TypeInv, OtherTypes, Containers
<1>1. CASE Record(t)
  BY <1>0, <1>1, ProceedsKeepsTypes, AbortedKeepsTypes DEF Record, At
<1>2. CASE Publish(t)
  BY <1>0, <1>2, ProceedsKeepsTypes, AbortedKeepsTypes DEF Publish, At
<1>3. CASE Stamp(t)
  <2>1. age' \in [Clocks -> 0..MaxAge]
    <3>1. \A c \in Clocks : 0 \in 0..MaxAge /\ age[c] \in 0..MaxAge
      BY PolicyAssumption DEF TypeInv, OtherTypes
    <3>2. \A c \in Clocks : age'[c] \in {0, age[c]}
      BY <1>3 DEF Stamp
    <3>3. age' = [c \in Clocks |-> age'[c]]
      BY <1>3 DEF Stamp
    <3>. QED  BY <3>1, <3>2, <3>3
  <2>2. unrecorded' \subseteq unrecorded
    BY <1>3 DEF Stamp
  <2>3. OtherTypes'
    BY <1>3, <2>1, <2>2 DEF Stamp, TypeInv, OtherTypes
  <2>. QED  BY <1>3, <2>3, NoJobHasShape, MovesKeepTypes DEF Stamp
<1>. QED  BY <1>1, <1>2, <1>3

\* The messages of the loop and the requests of an operator.
LEMMA InputsKeepTypes ==
    ASSUME TypeInv
    PROVE  /\ \A d \in Demands : Reading(d) => TypeInv'
           /\ \A p \in Policies : HandlePolicy(p) => TypeInv'
           /\ \A t \in Threads : ManualPlan(t) => TypeInv'
           /\ \A t \in Threads, n \in 0..Replicas : ManualRequest(t, n) => TypeInv'
<1>0. /\ policy \in Policies /\ ceiling \in Slots
      /\ streak \in 0..MaxStreak /\ readings \in 0..MaxStreak
      /\ MaxStreak \in Nat /\ Replicas \in Nat /\ 1 \in Slots
      /\ Loop \in Threads
  BY PolicyAssumption, ReplicasAssumption, ThreadsAssumption
  DEF TypeInv, OtherTypes, Slots
<1>1. ASSUME NEW d \in Demands, Reading(d)  PROVE TypeInv'
  <2>. DEFINE n == BackendCount
              g == Goal(d, n)
              a == Direction(n, g)
              j == [NoJob EXCEPT !.pc = FirstStep(a), !.action = a,
                                 !.base = n, !.goal = g, !.ceiling = ceiling]
  <2>1. n \in 0..Replicas /\ g \in 0..Replicas
    BY <1>0, CountIsBounded, GoalIsBounded
  <2>2. g # n => JobShape(j)
    <3>. SUFFICES ASSUME g # n  PROVE JobShape(j)
      OBVIOUS
    <3>1. Fits(a, FirstStep(a), n, g)
      BY <2>1, DirectionFits DEF Direction, Out, In
    <3>2. NoJob \in Job /\ NoJob.done = 0
      BY NoJobHasShape DEF JobShape, NoJob
    <3>. HIDE DEF n, g, a
    <3>. QED  BY <1>0, <2>1, <3>1, <3>2, PlannedJobHasShape
  <2>3. Moves(Loop, IF g = n THEN NoJob ELSE j)
    BY <1>1 DEF Reading
  <2>4. /\ streak' \in 0..MaxStreak
        /\ readings' \in 0..MaxStreak
    <3>1. \A m \in 0..MaxStreak : Least(m + 1, MaxStreak) \in 0..MaxStreak
      BY <1>0 DEF Least
    <3>. QED  BY <1>0, <1>1, <3>1 DEF Reading, NextStreak
  <2>5. OtherTypes'
    BY <1>1, <2>4 DEF Reading, TypeInv, OtherTypes
  <2>. QED  BY <1>0, <2>2, <2>3, <2>5, NoJobHasShape, MovesKeepTypes
<1>2. ASSUME NEW p \in Policies, HandlePolicy(p)  PROVE TypeInv'
  <2>1. OtherTypes'
    BY <1>2 DEF HandlePolicy, TypeInv, OtherTypes
  <2>. QED  BY <1>0, <1>2, <2>1, NoJobHasShape, MovesKeepTypes DEF HandlePolicy
<1>3. ASSUME NEW t \in Threads, ManualPlan(t)  PROVE TypeInv'
  <2>. DEFINE n == BackendCount
              g == job[t].goal
              a == Direction(n, g)
              pc == IF a = "noop" THEN "record" ELSE FirstStep(a)
              j == [job[t] EXCEPT !.pc = pc, !.action = a, !.base = n,
                                  !.ceiling = policy.max]
  <2>1. /\ job[t] \in Job /\ job[t].done = 0
        /\ n \in 0..Replicas /\ g \in 0..Replicas /\ policy.max \in Slots
    BY <1>0, <1>3, CountIsBounded, PolicyIsBounded, JobFields
    DEF ManualPlan, At, TypeInv, JobShape
  <2>2. Moves(t, j) /\ OtherTypes'
    BY <1>3 DEF ManualPlan, TypeInv, OtherTypes, memory
  <2>3. Fits(a, pc, n, g)
    BY <2>1, DirectionFits
  <2>4. JobShape(j)
    <3>. HIDE DEF n, a, pc
    <3>. QED  BY <2>1, <2>3, PlannedJobHasShape
  <2>. QED  BY <2>2, <2>4, MovesKeepTypes
<1>4. ASSUME NEW t \in Threads, NEW n \in 0..Replicas, ManualRequest(t, n)
      PROVE  TypeInv'
  <2>. DEFINE j == [NoJob EXCEPT !.pc = "query", !.goal = n]
  <2>1. JobShape(j)
    <3>1. /\ NoJob \in Job /\ NoJob.done = 0 /\ NoJob.action = "noop"
      BY NoJobHasShape DEF JobShape, NoJob
    <3>. QED  BY <1>0, <3>1 DEF JobShape, Job, OutSteps, InSteps, Out, In
  <2>2. Moves(t, j) /\ OtherTypes'
    BY <1>4 DEF ManualRequest, TypeInv, OtherTypes, memory
  <2>. QED  BY <2>1, <2>2, MovesKeepTypes
<1>. QED  BY <1>1, <1>2, <1>3, <1>4

\* Time and restarts.
LEMMA TimeAndRestartsKeepTypes ==
    ASSUME TypeInv
    PROVE  /\ TimePasses => TypeInv'
           /\ \A p \in Policies : Restart(p) => TypeInv'
<1>1. ASSUME TimePasses  PROVE TypeInv'
  <2>1. \A m \in 0..MaxAge : Least(m + 1, MaxAge) \in 0..MaxAge
    BY PolicyAssumption DEF Least
  <2>2. age' \in [Clocks -> 0..MaxAge] /\ quiet' \in [Clocks -> 0..MaxAge]
    BY <1>1, <2>1 DEF TimePasses, TypeInv, OtherTypes
  <2>3. OtherTypes'
    BY <1>1, <2>2 DEF TimePasses, TypeInv, OtherTypes
  <2>. QED  BY <1>1, <2>3 DEF TimePasses, TypeInv
<1>2. ASSUME NEW p \in Policies, Restart(p)  PROVE TypeInv'
  <2>1. MaxAge \in 0..MaxAge /\ 0 \in 0..MaxStreak /\ p.max \in Slots
    BY PolicyAssumption DEF Policy
  <2>2. OtherTypes'
    BY <1>2, <2>1 DEF Restart, Start, TypeInv, OtherTypes
  <2>. QED  BY <1>2, <2>2, NoJobHasShape DEF Restart, Start, TypeInv
<1>. QED  BY <1>1, <1>2

\* The state of the autoscaler stays well-typed under every reading, policy,
\* request, failure and restart; no job goes past its goal.
THEOREM AutoscalerTypeInv == Spec => []TypeInv
<1>1. Init => TypeInv
  <2>. SUFFICES ASSUME Init PROVE TypeInv
    OBVIOUS
  <2>1. /\ MaxAge \in 0..MaxAge /\ 0 \in 0..MaxStreak
        /\ policy.max \in Slots
    BY PolicyAssumption DEF Policy, Init
  <2>2. OtherTypes
    BY <2>1 DEF Init, OtherTypes
  <2>. QED  BY <2>2, NoJobHasShape DEF Init, TypeInv
<1>2. TypeInv /\ [Next]_vars => TypeInv'
  <2>. SUFFICES ASSUME TypeInv, [Next]_vars PROVE TypeInv'
    OBVIOUS
  <2>1. CASE UNCHANGED vars
    BY <2>1 DEF vars, memory, history, TypeInv, OtherTypes
  <2>2. CASE Next
    BY <2>2, InputsKeepTypes, TimeAndRestartsKeepTypes, ClusterStepKeepsTypes,
       EndKeepsTypes
    DEF Next, JobStep
  <2>. QED  BY <2>1, <2>2
<1>. QED  BY <1>1, <1>2, PTL DEF Spec

THEOREM AutoscalerTypeCorrect == Spec => []AutoscalerTypeOK
BY AutoscalerTypeInv, TypeInvImpliesTypeOK, PTL

-----------------------------------------------------------------------------
(* Who decides.                                                            *)

\* A step of a job belongs to a thread that has one, and moves that thread.
LEMMA JobStepMovesOne ==
    ASSUME NEW t \in Threads, JobStep(t)
    PROVE  /\ job[t].pc # "idle"
           /\ \E j : Moves(t, j)
<1>1. job[t].pc # "idle"
  BY DEF JobStep, ClusterStep, FindStopped, StartContainer, Provision,
         CreateContainer, WaitForHealthy, FindDynamic, Decommission,
         RemoveContainer, FindRunning, StopContainer, Record, Publish, Stamp, At
<1>2. ASSUME NEW pc, Proceeds(t, pc)  PROVE \E j : Moves(t, j)
  BY <1>2 DEF Proceeds, GoTo
<1>3. ASSUME NEW i, NEW pc, Chooses(t, i, pc)  PROVE \E j : Moves(t, j)
  BY <1>3 DEF Chooses
<1>4. /\ \A half : Stuck(t, half) => \E j : Moves(t, j)
      /\ FallsBack(t) \/ Aborted(t) \/ Actuated(t) => \E j : Moves(t, j)
  BY DEF Stuck, FallsBack, Aborted, Actuated
<1>5. \/ \E pc : Proceeds(t, pc)
      \/ \E i, pc : Chooses(t, i, pc)
      \/ \E half \in BOOLEAN : Stuck(t, half)
      \/ FallsBack(t) \/ Aborted(t) \/ Actuated(t)
      \/ Stamp(t)
  BY DEF JobStep, ClusterStep, FindStopped, StartContainer, Provision,
         CreateContainer, WaitForHealthy, FindDynamic, Decommission,
         RemoveContainer, FindRunning, StopContainer, Record, Publish
<1>6. Stamp(t) => \E j : Moves(t, j)
  BY DEF Stamp
<1>. QED  BY <1>1, <1>2, <1>3, <1>4, <1>5, <1>6

\* A step of another thread leaves a thread's job alone.
LEMMA OthersLeaveJob ==
    ASSUME TypeInv, NEW t \in Threads, NEW j, Moves(t, j),
           NEW u \in Threads, u # t
    PROVE  job'[u] = job[u] /\ (contended'[u] <=> contended[u] \/ ~Idle(u))
BY DEF Moves, TypeInv

\* Only a reading starts a job of the loop.
LEMMA OnlyReadingsDecide ==
    ASSUME TypeInv, Next, NEW a, Decides(a)
    PROVE  \E d \in Demands : Reading(d)
<1>0. job[Loop] = NoJob /\ job'[Loop] # NoJob /\ Loop \in Threads
  BY ThreadsAssumption DEF Decides, Idle
<1>1. ASSUME NEW t \in Threads, NEW j, Moves(t, j)  PROVE t = Loop /\ j # NoJob
  BY <1>0, <1>1 DEF Moves, TypeInv
<1>2. ASSUME NEW t \in Threads, JobStep(t)  PROVE FALSE
  BY <1>0, <1>1, <1>2, JobStepMovesOne DEF NoJob
<1>3. ASSUME NEW t \in Threads \ {Loop}, ManualPlan(t)  PROVE FALSE
  BY <1>1, <1>3 DEF ManualPlan
<1>4. ASSUME NEW t \in Threads \ {Loop}, NEW n, ManualRequest(t, n)  PROVE FALSE
  BY <1>1, <1>4 DEF ManualRequest
<1>5. ASSUME NEW p, HandlePolicy(p) \/ Restart(p)  PROVE FALSE
  BY <1>0, <1>1, <1>5 DEF HandlePolicy, Restart, Start
<1>6. ASSUME TimePasses  PROVE FALSE
  BY <1>0, <1>6 DEF TimePasses
<1>. QED  BY <1>2, <1>3, <1>4, <1>5, <1>6 DEF Next

-----------------------------------------------------------------------------
(* Confirmation of a scale-in.                                             *)

\* The streak never exceeds the readings since the loop last scaled out: a
\* reading that asks for another backend is above what one backend less serves.
StreakInv == kind = "step" => streak <= readings

LEMMA ReadingKeepsStreak ==
    ASSUME TypeInv, StreakInv, kind = "step", NEW d \in Demands, Reading(d)
    PROVE  /\ streak' <= readings'
           /\ Decides(In) => readings' >= policy.confirmations
<1>. DEFINE n == BackendCount
<1>1. /\ n \in 0..Replicas /\ d \in Nat /\ policy.capacity \in Nat
      /\ policy.confirmations \in 0..MaxStreak /\ MaxStreak \in Nat
      /\ streak \in 0..MaxStreak /\ readings \in 0..MaxStreak
      /\ streak <= readings
  BY CountIsBounded, PolicyIsBounded, TuningAssumption, PolicyAssumption
  DEF TypeInv, OtherTypes, StreakInv
<1>2. /\ streak' = NextStreak(d, n)
      /\ readings' = IF StepGoal(d, n) > n THEN 0
                     ELSE Least(readings + 1, MaxStreak)
  BY DEF Reading, Goal
<1>3. \A x, y \in 0..MaxStreak : x <= y =>
         /\ Least(x + 1, MaxStreak) <= Least(y + 1, MaxStreak)
         /\ Least(x + 1, MaxStreak) \in 0..MaxStreak
  BY <1>1 DEF Least
<1>4. NextStreak(d, n) \in {0, Least(streak + 1, MaxStreak)}
  BY DEF NextStreak
<1>5. StepGoal(d, n) > n => NextStreak(d, n) = 0
  <2>1. SUFFICES ASSUME StepGoal(d, n) > n PROVE ~BelowShed(d, n)
    BY DEF NextStreak, Qualifies
  <2>2. ~(n > n) /\ ~(n - 1 > n)
    BY <1>1
  <2>3. d > n * policy.capacity
    BY <2>1, <2>2 DEF StepGoal
  <2>4. (n - 1) * policy.capacity <= n * policy.capacity
    BY <1>1
  <2>. QED  BY <1>1, <2>3, <2>4 DEF BelowShed
<1>6. streak' <= readings'
  BY <1>1, <1>2, <1>3, <1>4, <1>5
<1>7. ASSUME Decides(In)  PROVE readings' >= policy.confirmations
  <2>. DEFINE g == StepGoal(d, n)
  <2>1. /\ Goal(d, n) = g
        /\ g \in 0..Replicas
    BY GoalIsBounded, CountIsBounded DEF Goal, TypeInv, OtherTypes
  <2>2. job'[Loop].action = In /\ job'[Loop] # NoJob
    BY <1>7 DEF Decides
  <2>3. g # n /\ job'[Loop].action = Direction(n, g)
    BY <2>1, <2>2, ThreadsAssumption DEF Reading, Moves, TypeInv
  <2>4. g < n
    BY <1>1, <2>1, <2>2, <2>3 DEF Direction, In, Out
  <2>5. ~(n < n) /\ ~(n + 1 < n)
    BY <1>1
  <2>6. NextStreak(d, n) >= policy.confirmations
    BY <2>4, <2>5 DEF StepGoal
  <2>. QED  BY <1>1, <1>2, <1>3, <1>4, <1>6, <2>1, <2>4, <2>6
<1>. QED  BY <1>6, <1>7

\* No other step touches the streak or the count of readings, but a restart.
LEMMA OthersLeaveReadings ==
    ASSUME Next, ~\E d \in Demands : Reading(d)
    PROVE  /\ kind' = kind
           /\ \/ streak' = streak /\ readings' = readings
              \/ streak' = 0 /\ readings' = 0
<1>1. ASSUME NEW t, NEW half,
             Actuated(t) \/ Stuck(t, half) \/ FallsBack(t) \/ Aborted(t)
      PROVE  UNCHANGED <<kind, streak, readings>>
  BY <1>1 DEF Actuated, Stuck, FallsBack, Aborted, memory
<1>2. ASSUME NEW t, NEW pc, Proceeds(t, pc)
      PROVE  UNCHANGED <<kind, streak, readings>>
  BY <1>2 DEF Proceeds, memory
<1>3. ASSUME NEW t, NEW i, NEW pc, Chooses(t, i, pc)
      PROVE  UNCHANGED <<kind, streak, readings>>
  BY <1>3 DEF Chooses, memory
<1>4. ASSUME NEW t \in Threads, JobStep(t)
      PROVE  UNCHANGED <<kind, streak, readings>>
  <2>1. \/ \E pc : Proceeds(t, pc)
        \/ \E i, pc : Chooses(t, i, pc)
        \/ \E half \in BOOLEAN : Stuck(t, half)
        \/ FallsBack(t) \/ Aborted(t) \/ Actuated(t)
        \/ Stamp(t)
    BY <1>4
    DEF JobStep, ClusterStep, FindStopped, StartContainer, Provision,
        CreateContainer, WaitForHealthy, FindDynamic, Decommission,
        RemoveContainer, FindRunning, StopContainer, Record, Publish
  <2>2. Stamp(t) => UNCHANGED <<kind, streak, readings>>
    BY DEF Stamp
  <2>. QED  BY <1>1, <1>2, <1>3, <2>1, <2>2
<1>5. ASSUME NEW t, ManualPlan(t) \/ \E n : ManualRequest(t, n)
      PROVE  UNCHANGED <<kind, streak, readings>>
  BY <1>5 DEF ManualPlan, ManualRequest, memory
<1>6. ASSUME NEW p, HandlePolicy(p)
      PROVE  UNCHANGED <<kind, streak, readings>>
  BY <1>6 DEF HandlePolicy
<1>7. ASSUME NEW p, Restart(p)
      PROVE  kind' = kind /\ streak' = 0 /\ readings' = 0
  BY <1>7 DEF Restart, Start
<1>8. TimePasses => UNCHANGED <<kind, streak, readings>>
  BY DEF TimePasses
<1>. QED  BY <1>4, <1>5, <1>6, <1>7, <1>8 DEF Next

\* With the step controller, no backend is removed before the policy's number
\* of readings has been taken since the loop last added one.
THEOREM ScaleInConfirmed == Spec => ScaleInIsConfirmed
<1>1. Init => StreakInv
  BY DEF Init, StreakInv
<1>2. TypeInv /\ StreakInv /\ [Next]_vars
        => /\ StreakInv'
           /\ Decides(In) /\ kind = "step" => readings' >= policy.confirmations
  <2>. SUFFICES ASSUME TypeInv, StreakInv, [Next]_vars
                PROVE  /\ StreakInv'
                       /\ Decides(In) /\ kind = "step"
                             => readings' >= policy.confirmations
    OBVIOUS
  <2>1. CASE UNCHANGED vars
    BY <2>1 DEF vars, memory, history, StreakInv, Decides, Idle
  <2>2. CASE \E d \in Demands : Reading(d)
    BY <2>2, ReadingKeepsStreak DEF StreakInv, Reading
  <2>3. CASE Next /\ ~\E d \in Demands : Reading(d)
    <3>1. ~Decides(In)
      BY <2>3, OnlyReadingsDecide
    <3>2. StreakInv'
      BY <2>3, OthersLeaveReadings DEF StreakInv
    <3>. QED  BY <3>1, <3>2
  <2>. QED  BY <2>1, <2>2, <2>3
<1>3. TypeInv /\ StreakInv /\ [Next]_vars
        => [Decides(In) /\ kind = "step"
              => readings' >= policy.confirmations]_vars
  BY <1>2
<1>. QED  BY <1>1, <1>2, <1>3, AutoscalerTypeInv, PTL
          DEF Spec, ScaleInIsConfirmed

-----------------------------------------------------------------------------
(* Cooldowns.                                                              *)

\* A job in progress has changed the backends and not yet stamped clock c.
Pending(c) == \E t \in Threads : job[t].done > 0 /\ c = ClockOf(job[t].action)

\* A clock shows no more than the time since the last change it is about,
\* unless a job still has to stamp it or a failed one never did.
StampInv == \A c \in Clocks : age[c] <= quiet[c] \/ c \in unrecorded \/ Pending(c)

\* A step of a thread that keeps what its job owes, or marks it unrecorded.
LEMMA DebtsAreKept ==
    ASSUME TypeInv, StampInv, NEW t \in Threads, NEW j, Moves(t, j),
           UNCHANGED <<age, quiet, kind>>, unrecorded \subseteq unrecorded',
           job[t].done > 0 => \/ j.done > 0 /\ j.action = job[t].action
                              \/ ClockOf(job[t].action) \in unrecorded'
    PROVE  StampInv'
<1>. SUFFICES ASSUME NEW c \in Clocks
              PROVE  age'[c] <= quiet'[c] \/ c \in unrecorded' \/ Pending(c)'
  BY DEF StampInv
<1>1. CASE age[c] <= quiet[c] \/ c \in unrecorded
  BY <1>1
<1>2. CASE Pending(c)
  <2>1. PICK u \in Threads : job[u].done > 0 /\ c = ClockOf(job[u].action)
    BY <1>2 DEF Pending
  <2>2. CASE u = t
    <3>1. job'[t] = j
      BY DEF Moves, TypeInv
    <3>. QED  BY <2>1, <2>2, <3>1 DEF Pending, ClockOf
  <2>3. CASE u # t
    BY <2>1, <2>3, OthersLeaveJob DEF Pending, ClockOf
  <2>. QED  BY <2>2, <2>3
<1>. QED  BY <1>1, <1>2 DEF StampInv

LEMMA BumpedFields ==
    ASSUME NEW j \in Job, NEW pc
    PROVE  LET k == [j EXCEPT !.done = @ + 1, !.slot = 1, !.pc = pc]
           IN  k.done = j.done + 1 /\ k.action = j.action
  BY DEF Job

\* A backend added or removed: its job now owes the clocks it sets to zero.
LEMMA ActuatedKeepsStamps ==
    ASSUME TypeInv, StampInv, NEW t \in Threads, Actuated(t)
    PROVE  StampInv'
<1>. DEFINE j == job[t]
            k == [j EXCEPT !.done = @ + 1, !.slot = 1,
                           !.pc = IF LastRound(j) THEN "record"
                                  ELSE FirstStep(j.action)]
<1>1. /\ job' = [job EXCEPT ![t] = k] /\ UNCHANGED <<age, unrecorded, kind>>
      /\ quiet' = [c \in Clocks |-> IF c = ClockOf(j.action) THEN 0 ELSE quiet[c]]
  BY DEF Actuated, Moves, memory
<1>2. j \in Job /\ j.done \in Nat
  BY JobFields DEF TypeInv, JobShape
<1>3. k.done = j.done + 1 /\ k.action = j.action
  BY <1>2, BumpedFields
<1>4. job'[t] = k /\ \A u \in Threads : u # t => job'[u] = job[u]
  BY <1>1 DEF TypeInv
<1>. HIDE DEF k, j
<1>5. k.done > 0
  BY <1>2, <1>3
<1>6. ASSUME NEW c \in Clocks, c = ClockOf(j.action)  PROVE Pending(c)'
  BY <1>1, <1>3, <1>4, <1>5, <1>6 DEF Pending, ClockOf
<1>7. ASSUME NEW c \in Clocks, c # ClockOf(j.action)
      PROVE  age'[c] <= quiet'[c] \/ c \in unrecorded' \/ Pending(c)'
  <2>1. quiet'[c] = quiet[c] /\ age'[c] = age[c]
    BY <1>1, <1>7
  <2>2. Pending(c) => Pending(c)'
    BY <1>1, <1>4, <1>7 DEF Pending, ClockOf, j
  <2>. QED  BY <1>1, <2>1, <2>2 DEF StampInv
<1>. QED  BY <1>6, <1>7 DEF StampInv

\* Stamping pays what the job owes.
LEMMA StampKeepsStamps ==
    ASSUME TypeInv, StampInv, NEW t \in Threads, Stamp(t)
    PROVE  StampInv'
<1>. DEFINE paid == {"any"} \cup
                      (IF job[t].done > 0 THEN {job[t].action} ELSE {})
<1>1. /\ age' = [c \in Clocks |-> IF c \in paid THEN 0 ELSE age[c]]
      /\ unrecorded' = unrecorded \ paid
      /\ Moves(t, NoJob) /\ UNCHANGED <<quiet, kind>>
  BY DEF Stamp
<1>2. ASSUME NEW c \in Clocks
      PROVE  age'[c] <= quiet'[c] \/ c \in unrecorded' \/ Pending(c)'
  <2>1. CASE c \in paid
    <3>1. age'[c] = 0 /\ quiet[c] \in 0..MaxAge /\ MaxAge \in Nat
      BY <1>1, <2>1, PolicyAssumption DEF TypeInv, OtherTypes
    <3>. QED  BY <1>1, <3>1
  <2>2. CASE c \notin paid
    <3>1. age'[c] = age[c] /\ (c \in unrecorded => c \in unrecorded')
      BY <1>1, <2>2
    <3>2. Pending(c) => Pending(c)'
      <4>1. SUFFICES ASSUME NEW u \in Threads, job[u].done > 0,
                            c = ClockOf(job[u].action)
                     PROVE  Pending(c)'
        BY DEF Pending
      <4>2. u # t
        BY <2>2, <4>1 DEF ClockOf
      <4>. QED  BY <1>1, <4>1, <4>2, OthersLeaveJob DEF Pending, ClockOf
    <3>. QED  BY <1>1, <3>1, <3>2 DEF StampInv
  <2>. QED  BY <2>1, <2>2
<1>. QED  BY <1>2 DEF StampInv

LEMMA NextKeepsStamps ==
    ASSUME TypeInv, StampInv, Next
    PROVE  StampInv'
<1>1. ASSUME NEW t \in Threads, JobStep(t)  PROVE StampInv'
  <2>1. job[t] \in Job /\ 1 \in Slots
    BY ReplicasAssumption DEF TypeInv, JobShape, Slots
  <2>2. ASSUME NEW pc, Proceeds(t, pc)  PROVE StampInv'
    <3>1. /\ [job[t] EXCEPT !.pc = pc].done = job[t].done
          /\ [job[t] EXCEPT !.pc = pc].action = job[t].action
      BY <2>1 DEF Job
    <3>. QED  BY <2>2, <3>1, DebtsAreKept DEF Proceeds, GoTo, memory
  <2>3. ASSUME NEW pc, NEW i, Chooses(t, i, pc)  PROVE StampInv'
    <3>1. /\ [job[t] EXCEPT !.pc = pc, !.slot = i].done = job[t].done
          /\ [job[t] EXCEPT !.pc = pc, !.slot = i].action = job[t].action
      BY <2>1 DEF Job
    <3>. QED  BY <2>3, <3>1, DebtsAreKept DEF Chooses, memory
  <2>4. ASSUME NEW half, Stuck(t, half)  PROVE StampInv'
    <3>1. CASE t = Loop /\ job[t].done = 0
      BY <2>4, <3>1, DebtsAreKept DEF Stuck, memory
    <3>2. CASE ~(t = Loop /\ job[t].done = 0)
      <4>. DEFINE k == [job[t] EXCEPT !.pc = "record", !.slot = 1,
                                      !.half = @ \/ half]
      <4>1. k.done = job[t].done /\ k.action = job[t].action
        BY <2>1 DEF Job
      <4>2. Moves(t, k) /\ UNCHANGED <<age, quiet, kind, unrecorded>>
        BY <2>4, <3>2 DEF Stuck, memory
      <4>. HIDE DEF k
      <4>. QED  BY <4>1, <4>2, DebtsAreKept
    <3>. QED  BY <3>1, <3>2
  <2>7. ASSUME FallsBack(t)  PROVE StampInv'
    <3>. DEFINE k == [job[t] EXCEPT !.pc = "find running", !.half = TRUE]
    <3>1. k.done = job[t].done /\ k.action = job[t].action
      BY <2>1 DEF Job
    <3>2. Moves(t, k) /\ UNCHANGED <<age, quiet, kind, unrecorded>>
      BY <2>7 DEF FallsBack, memory
    <3>. HIDE DEF k
    <3>. QED  BY <3>1, <3>2, DebtsAreKept
  <2>5. ASSUME Aborted(t)  PROVE StampInv'
    BY <2>5, DebtsAreKept DEF Aborted, memory
  <2>6. \/ \E pc : Proceeds(t, pc)
        \/ \E i, pc : Chooses(t, i, pc)
        \/ \E half \in BOOLEAN : Stuck(t, half)
        \/ FallsBack(t) \/ Aborted(t) \/ Actuated(t)
        \/ Stamp(t)
    BY <1>1
    DEF JobStep, ClusterStep, FindStopped, StartContainer, Provision,
        CreateContainer, WaitForHealthy, FindDynamic, Decommission,
        RemoveContainer, FindRunning, StopContainer, Record, Publish
  <2>. QED  BY <2>2, <2>3, <2>4, <2>5, <2>6, <2>7, ActuatedKeepsStamps, StampKeepsStamps
<1>2. ASSUME NEW t \in Threads, Idle(t) \/ job[t].pc = "query"
      PROVE  ~(job[t].done > 0)
  BY <1>2 DEF Idle, NoJob, TypeInv, JobShape
<1>3. ASSUME NEW d \in Demands, Reading(d)  PROVE StampInv'
  BY <1>2, <1>3, DebtsAreKept, ThreadsAssumption DEF Reading
<1>4. ASSUME NEW p, HandlePolicy(p)  PROVE StampInv'
  BY <1>2, <1>4, DebtsAreKept, ThreadsAssumption DEF HandlePolicy
<1>5. ASSUME NEW t \in Threads, ManualPlan(t)  PROVE StampInv'
  BY <1>2, <1>5, DebtsAreKept DEF ManualPlan, At, memory
<1>6. ASSUME NEW t \in Threads, NEW n, ManualRequest(t, n)  PROVE StampInv'
  BY <1>2, <1>6, DebtsAreKept DEF ManualRequest, memory
<1>7. ASSUME NEW p, Restart(p)  PROVE StampInv'
  BY <1>7, PolicyAssumption DEF Restart, Start, StampInv
<1>8. ASSUME TimePasses  PROVE StampInv'
  <2>1. \A x, y \in 0..MaxAge : x <= y => Least(x + 1, MaxAge) <= Least(y + 1, MaxAge)
    BY PolicyAssumption DEF Least
  <2>2. ASSUME NEW c \in Clocks, age[c] <= quiet[c]  PROVE age'[c] <= quiet'[c]
    BY <1>8, <2>1, <2>2 DEF TimePasses, TypeInv, OtherTypes
  <2>. QED  BY <1>8, <2>2 DEF TimePasses, StampInv, Pending, ClockOf
<1>. QED  BY <1>1, <1>3, <1>4, <1>5, <1>6, <1>7, <1>8 DEF Next

\* A decision of the loop looks at a clock that is old enough.
LEMMA DecisionsWait ==
    ASSUME TypeInv, NEW d \in Demands, Reading(d), NEW a \in {Out, In}, Decides(a)
    PROVE  age[ClockOf(a)] >= CooldownOf(a)
<1>. DEFINE n == BackendCount
            g == Goal(d, n)
<1>1. n \in 0..Replicas /\ g \in 0..Replicas
  BY GoalIsBounded, CountIsBounded DEF TypeInv, OtherTypes
<1>2. g # n /\ Direction(n, g) = a
  BY ThreadsAssumption DEF Decides, Reading, Moves, TypeInv
<1>3. \/ a = Out /\ g > n
      \/ a = In /\ g < n
  BY <1>1, <1>2 DEF Direction, Out, In
<1>4. ~(n > n) /\ ~(n - 1 > n) /\ ~(n + 1 < n)
  BY <1>1
<1>5. CASE kind = "step"
  <2>1. g = StepGoal(d, n)
    BY <1>5 DEF Goal
  <2>2. a = Out => age["any"] >= policy.cooldown
    BY <1>3, <1>4, <2>1 DEF StepGoal, Out, In
  <2>3. a = In => age["any"] >= ScaleInCooldown
    BY <1>3, <1>4, <2>1 DEF StepGoal, Out, In
  <2>. QED  BY <1>5, <2>2, <2>3 DEF ClockOf, CooldownOf
<1>6. CASE kind # "step"
  <2>1. g = TargetGoal(d, n)
    BY <1>6 DEF Goal
  <2>2. policy \in Policies /\ Replicas \in Nat
    BY ReplicasAssumption DEF TypeInv, OtherTypes
  <2>. HIDE DEF n, g
  <2>3. a = Out => age[Out] >= OutCooldown
    <3>. SUFFICES ASSUME g > n, ~(age[Out] >= OutCooldown)  PROVE FALSE
      BY <1>3 DEF Out, In
    <3>1. /\ policy.capacity # 0 /\ TargetForLoad(d) < n
          /\ g = Clip(n - Capped(n - TargetForLoad(d), MaxStepIn))
      BY <1>4, <2>1 DEF TargetGoal
    <3>2. g <= n
      BY <1>1, <2>2, <3>1, InIsNotMore
    <3>. QED  BY <1>1, <2>2, <3>2
  <2>4. a = In => age[In] >= InCooldown
    <3>. SUFFICES ASSUME g < n, ~(age[In] >= InCooldown)  PROVE FALSE
      BY <1>3 DEF Out, In
    <3>1. ~(n < n)
      BY <1>1, <2>2
    <3>2. /\ policy.capacity # 0 /\ TargetForLoad(d) > n
          /\ g = Clip(n + Capped(TargetForLoad(d) - n, MaxStepOut))
      BY <2>1, <3>1 DEF TargetGoal
    <3>3. g >= n
      BY <1>1, <2>2, <3>2, OutIsNotLess
    <3>. QED  BY <1>1, <2>2, <3>3
  <2>. QED  BY <1>3, <1>6, <2>3, <2>4 DEF ClockOf, CooldownOf, Out, In
<1>. QED  BY <1>5, <1>6

\* With no request in progress and its clock not left behind by a failure, the
\* loop acts only after the backends have been left alone for the cooldown.
THEOREM CooldownCorrect == Spec => RecordedActionsCoolDown
<1>. DEFINE Waits(a) ==
              /\ Decides(a) /\ ClockOf(a) \notin unrecorded
              /\ \A t \in Threads \ {Loop} : Idle(t)
              => quiet[ClockOf(a)] >= CooldownOf(a)
<1>1. Init => StampInv
  BY PolicyAssumption DEF Init, StampInv
<1>2. TypeInv /\ StampInv /\ [Next]_vars => StampInv'
  <2>1. StampInv /\ UNCHANGED vars => StampInv'
    BY DEF vars, memory, history, StampInv, Pending, ClockOf
  <2>. QED  BY <2>1, NextKeepsStamps
<1>3. ASSUME TypeInv, StampInv, [Next]_vars, NEW a \in {Out, In}
      PROVE  Waits(a)
  <2>. SUFFICES ASSUME Decides(a), ClockOf(a) \notin unrecorded,
                       \A t \in Threads \ {Loop} : Idle(t)
                PROVE  quiet[ClockOf(a)] >= CooldownOf(a)
    OBVIOUS
  <2>1. Next
    BY <1>3 DEF Decides, Idle, vars
  <2>2. PICK d \in Demands : Reading(d)
    BY <1>3, <2>1, OnlyReadingsDecide
  <2>3. age[ClockOf(a)] >= CooldownOf(a)
    BY <1>3, <2>2, DecisionsWait
  <2>4. ~Pending(ClockOf(a))
    <3>1. \A t \in Threads : job[t] = NoJob
      BY <2>2 DEF Reading, Idle
    <3>. QED  BY <3>1 DEF Pending, NoJob
  <2>5. ClockOf(a) \in Clocks
    BY DEF ClockOf, Clocks
  <2>6. age[ClockOf(a)] <= quiet[ClockOf(a)]
    BY <1>3, <2>4, <2>5 DEF StampInv
  <2>7. /\ age[ClockOf(a)] \in Int /\ quiet[ClockOf(a)] \in Int
        /\ CooldownOf(a) \in Int
    BY <1>3, <2>5, PolicyIsBounded, PolicyAssumption, TuningAssumption
    DEF TypeInv, OtherTypes, CooldownOf, ScaleInCooldown, Policy
  <2>. QED  BY <2>3, <2>6, <2>7
<1>4. TypeInv /\ StampInv /\ [Next]_vars => [\A a \in {Out, In} : Waits(a)]_vars
  BY <1>3
<1>. QED  BY <1>1, <1>2, <1>4, AutoscalerTypeInv, PTL
          DEF Spec, RecordedActionsCoolDown

-----------------------------------------------------------------------------
(* The count a job announces, and the bounds it keeps, as long as no other *)
(* thread interferes with it and no call of Docker fails half-way.         *)

-----------------------------------------------------------------------------
(* The invariant.                                                          *)

\* What a job has reached, with a container it has created and not yet counted
\* and one it has stopped and not yet removed.
Reached(j) ==
    FinalCount(j) + (IF j.pc = "wait healthy" THEN 1 ELSE 0)
                  - (IF j.pc = "remove" THEN 1 ELSE 0)

\* The container a job has chosen is still what it was when it chose it.
ChoiceStands(j) ==
    /\ j.pc \in {"start", "remove"} => replica[j.slot] = "stopped"
    /\ j.pc = "create" => replica[j.slot] = "none"
    /\ j.pc \in {"wait healthy", "decommission", "stop"}
          => replica[j.slot] = "running"

\* The goal is still within the policy's bounds.
GoalFits(j) ==
    /\ j.pc \in OutSteps \cup {"query"} => j.goal <= policy.max
    /\ j.pc \in InSteps \cup {"query"} => j.goal >= policy.min

Exact(j) ==
    /\ j.pc # "query" => BackendCount = Reached(j)
    /\ ChoiceStands(j)
    /\ GoalFits(j)

CountInv ==
    \A t \in Threads : contended[t] \/ Idle(t) \/ job[t].half \/ Exact(job[t])

-----------------------------------------------------------------------------
(* The steps of a job.                                                     *)

\* A step that leaves the account of the job alone.
Same(t) ==
    /\ job'[t].action = job[t].action /\ job'[t].base = job[t].base
    /\ job'[t].goal = job[t].goal /\ job'[t].done = job[t].done

LEMMA ProceedsFields ==
    ASSUME TypeInv, NEW t \in Threads, NEW pc, Proceeds(t, pc)
    PROVE  /\ Same(t) /\ job'[t].pc = pc /\ job'[t].slot = job[t].slot
           /\ policy' = policy /\ job'[t].half = job[t].half
<1>1. job[t] \in Job
  BY DEF TypeInv, JobShape
<1>2. job'[t] = [job[t] EXCEPT !.pc = pc] /\ policy' = policy
  BY DEF TypeInv, Proceeds, GoTo, Moves, memory
<1>. QED  BY <1>1, <1>2 DEF Same, Job

LEMMA ChoosesFields ==
    ASSUME TypeInv, NEW t \in Threads, NEW i, NEW pc, Chooses(t, i, pc)
    PROVE  /\ Same(t) /\ job'[t].pc = pc /\ job'[t].slot = i
           /\ policy' = policy /\ replica' = replica
           /\ job'[t].half = job[t].half
<1>1. job[t] \in Job
  BY DEF TypeInv, JobShape
<1>2. /\ job'[t] = [job[t] EXCEPT !.pc = pc, !.slot = i]
      /\ policy' = policy /\ replica' = replica
  BY DEF TypeInv, Chooses, Moves, memory
<1>. QED  BY <1>1, <1>2 DEF Same, Job

LEMMA StuckFields ==
    ASSUME TypeInv, NEW t \in Threads, NEW half, Stuck(t, half),
           job'[t] # NoJob
    PROVE  /\ Same(t) /\ job'[t].pc = "record" /\ policy' = policy
           /\ job[t].half \/ half => job'[t].half
<1>. DEFINE h == job[t].half \/ half
<1>1. job[t] \in Job
  BY DEF TypeInv, JobShape
<1>2. /\ job'[t] = [job[t] EXCEPT !.pc = "record", !.slot = 1, !.half = h]
      /\ policy' = policy
  BY DEF TypeInv, Stuck, Moves, memory
<1>3. job'[t].half = h
  <2>. HIDE DEF h
  <2>. QED  BY <1>1, <1>2 DEF Job
<1>. QED  BY <1>1, <1>2, <1>3 DEF Same, Job

LEMMA FallsBackFields ==
    ASSUME TypeInv, NEW t \in Threads, FallsBack(t)
    PROVE  Same(t) /\ job'[t].half
<1>1. job[t] \in Job
  BY DEF TypeInv, JobShape
<1>2. job'[t] = [job[t] EXCEPT !.pc = "find running", !.half = TRUE]
  BY DEF TypeInv, FallsBack, Moves
<1>. QED  BY <1>1, <1>2 DEF Same, Job

LEMMA ActuatedFields ==
    ASSUME TypeInv, NEW t \in Threads, Actuated(t)
    PROVE  /\ job'[t].action = job[t].action /\ job'[t].base = job[t].base
           /\ job'[t].goal = job[t].goal /\ job'[t].done = job[t].done + 1
           /\ job'[t].pc \in {"record", FirstStep(job[t].action)}
           /\ policy' = policy /\ job'[t].half = job[t].half
<1>. DEFINE pc == IF LastRound(job[t]) THEN "record" ELSE FirstStep(job[t].action)
<1>1. job[t] \in Job /\ pc \in {"record", FirstStep(job[t].action)}
  BY DEF TypeInv, JobShape
<1>2. /\ job'[t] = [job[t] EXCEPT !.done = @ + 1, !.slot = 1, !.pc = pc]
      /\ policy' = policy
  BY DEF TypeInv, Actuated, Moves, memory
<1>. HIDE DEF pc
<1>. QED  BY <1>1, <1>2 DEF Job

LEMMA FinalCountIsInt ==
    ASSUME NEW j, JobShape(j)
    PROVE  FinalCount(j) \in Int
BY JobFields DEF FinalCount

\* The count of backends agrees with what a job at pc has reached.
Agrees(count, pc, f) ==
    /\ pc = "wait healthy" => count = f + 1
    /\ pc = "remove" => count = f - 1
    /\ pc \notin {"wait healthy", "remove"} => count = f

LEMMA AgreesIsSum ==
    ASSUME NEW count, NEW pc, NEW f \in Int
    PROVE  Agrees(count, pc, f)
             <=> count = f + (IF pc = "wait healthy" THEN 1 ELSE 0)
                           - (IF pc = "remove" THEN 1 ELSE 0)
<1>1. f + 1 - 0 = f + 1 /\ f + 0 - 1 = f - 1 /\ f + 0 - 0 = f
  OBVIOUS
<1>2. CASE pc = "wait healthy"
  BY <1>1, <1>2 DEF Agrees
<1>3. CASE pc = "remove"
  BY <1>1, <1>3 DEF Agrees
<1>4. CASE pc # "wait healthy" /\ pc # "remove"
  BY <1>1, <1>4 DEF Agrees
<1>. QED  BY <1>2, <1>3, <1>4

LEMMA AgreesIsReached ==
    ASSUME NEW count, NEW j, JobShape(j)
    PROVE  Agrees(count, j.pc, FinalCount(j)) <=> count = Reached(j)
<1>1. FinalCount(j) \in Int
  BY FinalCountIsInt
<1>. QED  BY <1>1, AgreesIsSum DEF Reached

\* A job that goes on with the account it had.
LEMMA SameStaysExact ==
    ASSUME TypeInv, NEW t \in Threads, Exact(job[t]), Same(t),
           policy' = policy, job'[t].pc \notin {"idle", "query"},
           Agrees(BackendCount', job'[t].pc, FinalCount(job[t])),
           ChoiceStands(job[t])',
           job'[t].pc \in OutSteps => job[t].pc \in OutSteps,
           job'[t].pc \in InSteps => job[t].pc \in InSteps
    PROVE  Exact(job[t])'
<1>1. FinalCount(job[t])' = FinalCount(job[t]) /\ FinalCount(job[t]) \in Int
  BY FinalCountIsInt DEF FinalCount, Same, TypeInv
<1>2. GoalFits(job[t])'
  BY DEF Exact, GoalFits, Same
<1>3. BackendCount' = Reached(job[t])'
  <2>1. Reached(job[t])' = FinalCount(job[t])'
                             + (IF job'[t].pc = "wait healthy" THEN 1 ELSE 0)
                             - (IF job'[t].pc = "remove" THEN 1 ELSE 0)
    BY DEF Reached
  <2>2. BackendCount' = FinalCount(job[t])
                          + (IF job'[t].pc = "wait healthy" THEN 1 ELSE 0)
                          - (IF job'[t].pc = "remove" THEN 1 ELSE 0)
    BY <1>1, AgreesIsSum
  <2>. QED  BY <1>1, <2>1, <2>2
<1>4. job'[t].pc # "query" => BackendCount' = Reached(job[t])'
  BY <1>3
<1>. QED  BY <1>2, <1>4 DEF Exact

\* The cluster has nothing more to give, and nothing is half done.
LEMMA StuckStaysExact ==
    ASSUME TypeInv, NEW t \in Threads, NEW half, Exact(job[t]), Stuck(t, half),
           job'[t] # NoJob, BackendCount' = FinalCount(job[t])
    PROVE  Exact(job[t])'
<1>1. ChoiceStands(job[t])' /\ Agrees(BackendCount', "record", FinalCount(job[t]))
  BY StuckFields DEF ChoiceStands, Agrees
<1>. QED  BY <1>1, StuckFields, SameStaysExact DEF OutSteps, InSteps

\* A backend has been added or removed, and the count has followed.
LEMMA ActuatedStaysExact ==
    ASSUME TypeInv, NEW t \in Threads, Exact(job[t]), Actuated(t),
           \/ job[t].pc \in OutSteps /\ BackendCount' = FinalCount(job[t]) + 1
           \/ job[t].pc \in InSteps /\ BackendCount' = FinalCount(job[t]) - 1
    PROVE  Exact(job[t])'
<1>1. JobShape(job[t])
  BY DEF TypeInv
<1>2. Out # In /\ \A pc \in OutSteps : pc \notin InSteps
  BY DEF OutSteps, InSteps, Out, In
<1>3. \/ /\ job[t].pc \in OutSteps /\ job[t].action = Out
         /\ job'[t].pc \in {"record", "find stopped"}
      \/ /\ job[t].pc \in InSteps /\ job[t].action = In
         /\ job'[t].pc \in {"record", "find dynamic"}
  BY <1>1, ActuatedFields DEF JobShape, FirstStep, OutSteps, InSteps, Out, In
<1>4. job[t].base \in Int /\ job[t].done \in Int
  BY <1>1, JobFields
<1>5. ASSUME job[t].pc \in OutSteps  PROVE BackendCount' = FinalCount(job[t])'
  <2>1. FinalCount(job[t]) = job[t].base + job[t].done /\ job'[t].action = Out
    BY <1>2, <1>3, <1>5, ActuatedFields DEF FinalCount
  <2>2. BackendCount' = job[t].base + job[t].done + 1
    BY <1>2, <1>4, <1>5, <2>1
  <2>3. BackendCount' = job'[t].base + job'[t].done
    BY <1>4, <2>2, ActuatedFields
  <2>. QED  BY <2>1, <2>3 DEF FinalCount
<1>6. ASSUME job[t].pc \in InSteps  PROVE BackendCount' = FinalCount(job[t])'
  <2>1. FinalCount(job[t]) = job[t].base - job[t].done /\ job'[t].action = In
    BY <1>2, <1>3, <1>6, ActuatedFields DEF FinalCount
  <2>2. BackendCount' = job[t].base - job[t].done - 1
    BY <1>2, <1>4, <1>6, <2>1
  <2>3. BackendCount' = job'[t].base - job'[t].done
    BY <1>4, <2>2, ActuatedFields
  <2>. QED  BY <1>2, <2>1, <2>3 DEF FinalCount
<1>7. Reached(job[t])' = BackendCount'
  <2>1. job'[t].pc # "wait healthy" /\ job'[t].pc # "remove"
    BY <1>3
  <2>2. Reached(job[t])' = FinalCount(job[t])' + 0 - 0
    BY <2>1 DEF Reached
  <2>3. FinalCount(job[t]) \in Int
    BY <1>1, FinalCountIsInt
  <2>4. BackendCount' \in Int
    BY <2>3
  <2>5. BackendCount' = FinalCount(job[t])'
    BY <1>3, <1>5, <1>6
  <2>. QED  BY <2>2, <2>4, <2>5
<1>8. GoalFits(job[t])' /\ ChoiceStands(job[t])'
  BY <1>3, ActuatedFields DEF Exact, GoalFits, ChoiceStands, OutSteps, InSteps
<1>. QED  BY <1>7, <1>8 DEF Exact

\* It has chosen a container, which is as it found it.
LEMMA ChoosesStaysExact ==
    ASSUME TypeInv, NEW t \in Threads, NEW i, NEW pc, Exact(job[t]),
           Chooses(t, i, pc), BackendCount = FinalCount(job[t]),
           \/ job[t].pc \in OutSteps /\ pc = "start" /\ replica[i] = "stopped"
           \/ job[t].pc \in OutSteps /\ pc = "create" /\ replica[i] = "none"
           \/ /\ job[t].pc \in InSteps /\ pc \in {"decommission", "stop"}
              /\ replica[i] = "running"
    PROVE  Exact(job[t])'
<1>1. /\ Same(t) /\ job'[t].pc = pc /\ job'[t].slot = i
      /\ policy' = policy /\ replica' = replica
  BY ChoosesFields
<1>2. ChoiceStands(job[t])'
  BY <1>1 DEF ChoiceStands
<1>3. BackendCount' = BackendCount
  BY <1>1 DEF BackendCount, RunningReplicas
<1>4. Agrees(BackendCount', job'[t].pc, FinalCount(job[t]))
  BY <1>1, <1>3 DEF Agrees
<1>5. /\ job'[t].pc \in OutSteps => job[t].pc \in OutSteps
      /\ job'[t].pc \in InSteps => job[t].pc \in InSteps
      /\ job'[t].pc \notin {"idle", "query"}
  BY <1>1 DEF OutSteps, InSteps
<1>. QED  BY <1>1, <1>2, <1>4, <1>5, SameStaysExact

\* It has got to another place in the code, with or without a container.
LEMMA ProceedsStaysExact ==
    ASSUME TypeInv, NEW t \in Threads, NEW pc, Exact(job[t]), Proceeds(t, pc),
           Agrees(BackendCount', pc, FinalCount(job[t])),
           \/ pc \in {"publish", "stamp"}
           \/ job[t].pc \in OutSteps /\ pc = "provision"
           \/ job[t].pc \in InSteps /\ pc = "find running"
           \/ /\ job[t].pc \in OutSteps /\ pc = "wait healthy"
              /\ replica'[job[t].slot] = "running"
           \/ /\ job[t].pc \in InSteps /\ pc = "remove"
              /\ replica'[job[t].slot] = "stopped"
    PROVE  Exact(job[t])'
<1>1. /\ Same(t) /\ job'[t].pc = pc /\ job'[t].slot = job[t].slot
      /\ policy' = policy
  BY ProceedsFields
<1>2. ChoiceStands(job[t])'
  BY <1>1 DEF ChoiceStands
<1>3. Agrees(BackendCount', job'[t].pc, FinalCount(job[t]))
  BY <1>1
<1>4. /\ job'[t].pc \in OutSteps => job[t].pc \in OutSteps
      /\ job'[t].pc \in InSteps => job[t].pc \in InSteps
      /\ job'[t].pc \notin {"idle", "query"}
  BY <1>1 DEF OutSteps, InSteps
<1>. QED  BY <1>1, <1>2, <1>3, <1>4, SameStaysExact

\* A step of cluster.scale_out or cluster.scale_in, unless it ends the job or
\* fails half-way.
LEMMA ClusterStepStaysExact ==
    ASSUME TypeInv, NEW t \in Threads,
           Exact(job[t]), ClusterStep(t), job'[t] # NoJob
    PROVE  job'[t].half \/ Exact(job[t])'
<1>. USE DEF At
<1>. DEFINE i == job[t].slot
            f == FinalCount(job[t])
<1>1. /\ replica \in Containers /\ i \in Slots /\ f \in Int
      /\ ChoiceStands(job[t])
  BY JobFields, FinalCountIsInt DEF TypeInv, OtherTypes, Containers, Exact
<1>2. job[t].pc # "query" => Agrees(BackendCount, job[t].pc, f)
  BY AgreesIsReached DEF TypeInv, Exact
<1>3. ~Aborted(t)
  BY DEF Aborted, Moves, TypeInv
<1>4. replica' = replica => BackendCount' = BackendCount
  BY DEF BackendCount, RunningReplicas
<1>. HIDE DEF f
<1>5. CASE FindStopped(t)
  <2>1. BackendCount' = f
    BY <1>2, <1>4, <1>5 DEF FindStopped, Chooses, Agrees
  <2>2. CASE Stopped # {} /\ Chooses(t, Lowest(Stopped), "start")
    <3>1. replica[Lowest(Stopped)] = "stopped"
      BY <2>2, EndsOfSlots DEF Stopped
    <3>2. BackendCount = f
      BY <1>5, <1>2 DEF FindStopped, Agrees
    <3>. QED  BY <1>5, <2>2, <3>1, <3>2, ChoosesStaysExact
              DEF FindStopped, OutSteps, InSteps, f
  <2>3. CASE Proceeds(t, "provision")
    BY <1>5, <2>1, <2>3, ProceedsStaysExact
    DEF FindStopped, OutSteps, InSteps, Agrees, f
  <2>. QED  BY <1>5, <2>2, <2>3 DEF FindStopped
<1>6. CASE StartContainer(t)
  <2>1. Actuated(t) /\ replica' = [replica EXCEPT ![i] = "running"]
    BY <1>3, <1>6 DEF StartContainer
  <2>2. replica[i] # "running" /\ BackendCount = f
    BY <1>1, <1>2, <1>6 DEF StartContainer, ChoiceStands, Agrees
  <2>3. BackendCount' = f + 1
    BY <1>1, <2>1, <2>2, OneStarts DEF Containers
  <2>. QED  BY <1>6, <2>1, <2>3, ActuatedStaysExact
            DEF StartContainer, OutSteps, f
<1>7. CASE Provision(t)
  <2>1. BackendCount' = f
    BY <1>2, <1>4, <1>7 DEF Provision, Chooses, Agrees
  <2>2. CASE MayProvision(t) /\ Chooses(t, Lowest(Slots \ Labelled), "create")
    <3>1. replica[Lowest(Slots \ Labelled)] = "none"
      BY <2>2, EndsOfSlots DEF MayProvision, Labelled
    <3>2. BackendCount = f
      BY <1>7, <1>2 DEF Provision, Agrees
    <3>. QED  BY <1>7, <2>2, <3>1, <3>2, ChoosesStaysExact
              DEF Provision, OutSteps, InSteps, f
  <2>3. CASE Stuck(t, FALSE)
    BY <1>7, <2>1, <2>3, StuckStaysExact DEF Provision, f
  <2>. QED  BY <1>7, <2>2, <2>3 DEF Provision
<1>8. CASE CreateContainer(t)
  <2>1. BackendCount = f /\ replica[i] = "none"
    BY <1>1, <1>2, <1>8 DEF CreateContainer, ChoiceStands, Agrees
  <2>2. CASE /\ replica' = [replica EXCEPT ![i] = "running"]
             /\ Proceeds(t, "wait healthy")
    <3>1. BackendCount' = f + 1
      BY <1>1, <2>1, <2>2, OneStarts DEF Containers
    <3>. QED  BY <1>1, <1>8, <2>2, <3>1, ProceedsStaysExact
              DEF CreateContainer, OutSteps, InSteps, Agrees, Containers, f
  <2>3. CASE Stuck(t, FALSE) /\ UNCHANGED replica
    BY <1>4, <2>1, <2>3, StuckStaysExact DEF f
  <2>4. CASE /\ replica' = [replica EXCEPT ![i] = "stopped"]
             /\ Stuck(t, FALSE)
    <3>1. BackendCount' = f
      BY <1>1, <2>1, <2>4, NoneStops DEF Containers
    <3>. QED  BY <2>4, <3>1, StuckStaysExact DEF f
  <2>. QED  BY <1>8, <2>2, <2>3, <2>4 DEF CreateContainer
<1>9. CASE WaitForHealthy(t)
  <2>1. BackendCount = f + 1 /\ replica[i] = "running"
    BY <1>1, <1>2, <1>9 DEF WaitForHealthy, ChoiceStands, Agrees
  <2>2. CASE Actuated(t) /\ UNCHANGED replica
    BY <1>4, <1>9, <2>1, <2>2, ActuatedStaysExact
    DEF WaitForHealthy, OutSteps, f
  <2>3. CASE /\ replica' = [replica EXCEPT ![i] =
                              IF @ = "none" THEN "none" ELSE "stopped"]
             /\ Stuck(t, FALSE)
    <3>1. BackendCount' = BackendCount - 1
      BY <1>1, <2>1, <2>3, OneStops DEF Containers
    <3>2. BackendCount' = f
      BY <1>1, <2>1, <3>1
    <3>. QED  BY <2>3, <3>2, StuckStaysExact DEF f
  <2>4. CASE Stuck(t, TRUE)
    BY <2>4, StuckFields
  <2>. QED  BY <1>9, <2>2, <2>3, <2>4 DEF WaitForHealthy
<1>10. CASE FindDynamic(t)
  <2>. DEFINE dynamic == RunningReplicas \cap Dynamic
  <2>1. BackendCount' = f
    BY <1>2, <1>4, <1>10 DEF FindDynamic, Chooses, Agrees
  <2>2. CASE dynamic # {} /\ Chooses(t, Highest(dynamic), "decommission")
    <3>1. replica[Highest(dynamic)] = "running"
      BY <2>2, EndsOfSlots DEF RunningReplicas
    <3>2. BackendCount = f
      BY <1>10, <1>2 DEF FindDynamic, Agrees
    <3>. QED  BY <1>10, <2>2, <3>1, <3>2, ChoosesStaysExact
              DEF FindDynamic, OutSteps, InSteps, f
  <2>3. CASE Proceeds(t, "find running")
    BY <1>10, <2>1, <2>3, ProceedsStaysExact
    DEF FindDynamic, OutSteps, InSteps, Agrees, f
  <2>. QED  BY <1>10, <2>2, <2>3 DEF FindDynamic
<1>11. CASE Decommission(t)
  <2>1. BackendCount = f /\ replica[i] = "running"
    BY <1>1, <1>2, <1>11 DEF Decommission, ChoiceStands, Agrees
  <2>2. CASE /\ replica' = [replica EXCEPT ![i] = "stopped"]
             /\ Proceeds(t, "remove")
    <3>1. BackendCount' = f - 1
      BY <1>1, <2>1, <2>2, OneStops DEF Containers
    <3>. QED  BY <1>1, <1>11, <2>2, <3>1, ProceedsStaysExact
              DEF Decommission, OutSteps, InSteps, Agrees, Containers, f
  <2>3. CASE Proceeds(t, "find running") /\ UNCHANGED replica
    BY <1>4, <1>11, <2>1, <2>3, ProceedsStaysExact
    DEF Decommission, OutSteps, InSteps, Agrees, f
  <2>. QED  BY <1>11, <2>2, <2>3 DEF Decommission
<1>12. CASE RemoveContainer(t)
  <2>1. BackendCount = f - 1 /\ replica[i] = "stopped"
    BY <1>1, <1>2, <1>12 DEF RemoveContainer, ChoiceStands, Agrees
  <2>2. CASE replica' = [replica EXCEPT ![i] = "none"] /\ Actuated(t)
    <3>1. BackendCount' = f - 1
      BY <1>1, <2>1, <2>2, NoneStops DEF Containers
    <3>. QED  BY <1>12, <2>2, <3>1, ActuatedStaysExact
              DEF RemoveContainer, InSteps, f
  <2>3. CASE FallsBack(t)
    BY <2>3, FallsBackFields
  <2>. QED  BY <1>12, <2>2, <2>3 DEF RemoveContainer
<1>13. CASE FindRunning(t)
  <2>1. BackendCount' = f
    BY <1>2, <1>4, <1>13 DEF FindRunning, Chooses, Agrees
  <2>2. CASE /\ RunningReplicas # {}
             /\ Chooses(t, Highest(RunningReplicas), "stop")
    <3>1. replica[Highest(RunningReplicas)] = "running"
      BY <2>2, EndsOfSlots DEF RunningReplicas
    <3>2. BackendCount = f
      BY <1>13, <1>2 DEF FindRunning, Agrees
    <3>. QED  BY <1>13, <2>2, <3>1, <3>2, ChoosesStaysExact
              DEF FindRunning, OutSteps, InSteps, f
  <2>3. CASE Stuck(t, FALSE)
    BY <2>1, <2>3, StuckStaysExact DEF f
  <2>. QED  BY <1>13, <2>2, <2>3 DEF FindRunning
<1>14. CASE StopContainer(t)
  <2>1. Actuated(t) /\ replica' = [replica EXCEPT ![i] = "stopped"]
    BY <1>3, <1>14 DEF StopContainer
  <2>2. replica[i] = "running" /\ BackendCount = f
    BY <1>1, <1>2, <1>14 DEF StopContainer, ChoiceStands, Agrees
  <2>3. BackendCount' = f - 1
    BY <1>1, <2>1, <2>2, OneStops DEF Containers
  <2>. QED  BY <1>14, <2>1, <2>3, ActuatedStaysExact
            DEF StopContainer, InSteps, f
<1>. QED  BY <1>5, <1>6, <1>7, <1>8, <1>9, <1>10, <1>11, <1>12, <1>13, <1>14
          DEF ClusterStep

\* Recording and announcing change neither the account nor the containers.
LEMMA JobStepStaysExact ==
    ASSUME TypeInv, NEW t \in Threads,
           Exact(job[t]), JobStep(t), job'[t] # NoJob
    PROVE  job'[t].half \/ Exact(job[t])'
<1>1. CASE ClusterStep(t)
  BY <1>1, ClusterStepStaysExact
<1>2. CASE Record(t) \/ Publish(t)
  <2>1. ~Aborted(t)
    BY DEF Aborted, Moves, TypeInv
  <2>2. PICK pc \in {"publish", "stamp"} : Proceeds(t, pc) /\ UNCHANGED replica
    BY <1>2, <2>1 DEF Record, Publish
  <2>3. job[t].pc \in {"record", "publish"}
    BY <1>2 DEF Record, Publish, At
  <2>4. BackendCount = FinalCount(job[t])
    BY <2>3, AgreesIsReached DEF TypeInv, Exact, Agrees
  <2>5. BackendCount' = BackendCount
    BY <2>2 DEF BackendCount, RunningReplicas
  <2>6. Agrees(BackendCount', pc, FinalCount(job[t]))
    BY <2>4, <2>5 DEF Agrees
  <2>. QED  BY <2>2, <2>6, ProceedsStaysExact
<1>3. CASE Stamp(t)
  BY <1>3 DEF Stamp, Moves, TypeInv
<1>. QED  BY <1>1, <1>2, <1>3 DEF JobStep

\* A job remembers a call that failed half-way.
LEMMA HalfStays ==
    ASSUME TypeInv, NEW t \in Threads, JobStep(t), job'[t] # NoJob, job[t].half
    PROVE  job'[t].half
<1>1. ~Aborted(t) /\ ~Stamp(t)
  BY DEF Aborted, Stamp, Moves, TypeInv
<1>2. \/ \E pc : Proceeds(t, pc)
      \/ \E i, pc : Chooses(t, i, pc)
      \/ \E half \in BOOLEAN : Stuck(t, half)
      \/ FallsBack(t) \/ Actuated(t)
  BY <1>1
  DEF JobStep, ClusterStep, FindStopped, StartContainer, Provision,
      CreateContainer, WaitForHealthy, FindDynamic, Decommission,
      RemoveContainer, FindRunning, StopContainer, Record, Publish
<1>. QED  BY <1>2, ProceedsFields, ChoosesFields, StuckFields, FallsBackFields,
             ActuatedFields

-----------------------------------------------------------------------------
(* The invariant is kept.                                                  *)

\* It is enough to look at the thread that moves.
LEMMA MoverDecides ==
    ASSUME TypeInv, CountInv, NEW t \in Threads, NEW j, Moves(t, j),
           \/ j = NoJob
           \/ contended'[t]
           \/ job'[t].half
           \/ Exact(job[t])'
    PROVE  CountInv'
<1>. SUFFICES ASSUME NEW u \in Threads
              PROVE  \/ contended'[u] \/ job'[u] = NoJob \/ job'[u].half
                     \/ Exact(job[u])'
  BY DEF CountInv, Idle
<1>1. CASE u = t
  BY <1>1 DEF Moves, TypeInv
<1>2. CASE u # t
  BY <1>2, OthersLeaveJob DEF Idle
<1>. QED  BY <1>1, <1>2

LEMMA JobStepKeepsCounts ==
    ASSUME TypeInv, CountInv, NEW t \in Threads, JobStep(t)
    PROVE  CountInv'
<1>1. PICK j : Moves(t, j)
  BY JobStepMovesOne
<1>2. job'[t] = j /\ ~Idle(t)
  <2>1. job'[t] = j
    BY <1>1 DEF Moves, TypeInv
  <2>2. job[t].pc # "idle"
    BY JobStepMovesOne
  <2>. QED  BY <2>1, <2>2 DEF Idle, NoJob
<1>3. ASSUME j # NoJob, ~contended'[t]  PROVE job'[t].half \/ Exact(job[t])'
  <2>1. ~contended[t]
    BY <1>1, <1>2, <1>3 DEF Moves, TypeInv
  <2>2. job[t].half \/ Exact(job[t])
    BY <1>2, <2>1 DEF CountInv
  <2>. QED  BY <1>2, <1>3, <2>2, JobStepStaysExact, HalfStays
<1>. QED  BY <1>1, <1>3, MoverDecides

\* The job a reading starts is planned from the count it has read.
LEMMA ReadingKeepsCounts ==
    ASSUME TypeInv, CountInv, NEW d \in Demands, Reading(d)
    PROVE  CountInv'
<1>. DEFINE n == BackendCount
            g == Goal(d, n)
            a == Direction(n, g)
            j == [NoJob EXCEPT !.pc = FirstStep(a), !.action = a,
                               !.base = n, !.goal = g, !.ceiling = ceiling]
<1>1. Loop \in Threads /\ Moves(Loop, IF g = n THEN NoJob ELSE j)
  BY ThreadsAssumption DEF Reading
<1>2. CASE g = n
  BY <1>1, <1>2, MoverDecides
<1>3. CASE g # n
  <2>1. /\ n \in 0..Replicas /\ g \in 0..Replicas
        /\ g > n => g <= policy.max
        /\ g < n => g >= policy.min
    BY CountIsBounded, GoalIsBounded DEF TypeInv, OtherTypes
  <2>2. \/ a = Out /\ g > n /\ FirstStep(a) = "find stopped"
        \/ a = In /\ g < n /\ FirstStep(a) = "find dynamic"
    BY <1>3, <2>1, ReplicasAssumption DEF Direction, FirstStep, Out, In
  <2>3. /\ job'[Loop] = j /\ policy' = policy /\ BackendCount' = n
    BY <1>1, <1>3 DEF Moves, TypeInv, Reading, BackendCount, RunningReplicas
  <2>4. /\ job'[Loop].pc = FirstStep(a) /\ job'[Loop].action = a
        /\ job'[Loop].base = n /\ job'[Loop].goal = g /\ job'[Loop].done = 0
    BY <2>3 DEF NoJob
  <2>. HIDE DEF n, g, a
  <2>5. FinalCount(job[Loop])' = n
    <3>1. n + 0 = n /\ n - 0 = n
      BY <2>1
    <3>. QED  BY <2>2, <2>4, <3>1 DEF FinalCount
  <2>6. Agrees(BackendCount', job'[Loop].pc, FinalCount(job[Loop])')
    BY <2>2, <2>3, <2>4, <2>5 DEF Agrees
  <2>7. ChoiceStands(job[Loop])' /\ GoalFits(job[Loop])'
    BY <2>1, <2>2, <2>3, <2>4 DEF ChoiceStands, GoalFits, OutSteps, InSteps
  <2>8. BackendCount' = Reached(job[Loop])'
    <3>1. FinalCount(job[Loop])' \in Int
      BY <2>1, <2>5
    <3>2. Reached(job[Loop])' = FinalCount(job[Loop])' + 0 - 0
      BY <2>2, <2>4 DEF Reached
    <3>. QED  BY <2>3, <2>5, <3>1, <3>2
  <2>9. Exact(job[Loop])'
    BY <2>7, <2>8 DEF Exact
  <2>. QED  BY <1>1, <1>3, <2>9, MoverDecides DEF n, g, a
<1>. QED  BY <1>2, <1>3

\* A request is validated against the policy, and planned from the count.
LEMMA ManualRequestKeepsCounts ==
    ASSUME TypeInv, CountInv, NEW t \in Threads, NEW n, ManualRequest(t, n)
    PROVE  CountInv'
<1>1. /\ Moves(t, [NoJob EXCEPT !.pc = "query", !.goal = n])
      /\ policy' = policy /\ n \in policy.min..policy.max
  BY DEF ManualRequest, memory
<1>2. job'[t].pc = "query" /\ job'[t].goal = n
  BY <1>1 DEF Moves, TypeInv, NoJob
<1>3. policy.min \in Int /\ policy.max \in Int
  BY PolicyIsBounded, ReplicasAssumption DEF TypeInv, OtherTypes, Slots
<1>4. Exact(job[t])'
  BY <1>1, <1>2, <1>3 DEF Exact, ChoiceStands, GoalFits
<1>. QED  BY <1>1, <1>4, MoverDecides

LEMMA ManualPlanKeepsCounts ==
    ASSUME TypeInv, CountInv, NEW t \in Threads, ManualPlan(t)
    PROVE  CountInv'
<1>. DEFINE n == BackendCount
            g == job[t].goal
            a == Direction(n, g)
            pc == IF a = "noop" THEN "record" ELSE FirstStep(a)
            j == [job[t] EXCEPT !.pc = pc, !.action = a, !.base = n,
                                !.ceiling = policy.max]
<1>1. /\ Moves(t, j) /\ policy' = policy /\ replica' = replica
      /\ job[t].pc = "query"
  BY DEF ManualPlan, At, memory
<1>2. /\ job[t] \in Job /\ job[t].done = 0 /\ job[t] # NoJob
      /\ n \in 0..Replicas /\ g \in 0..Replicas /\ Replicas \in Nat
  BY <1>1, CountIsBounded, JobFields, ReplicasAssumption
  DEF TypeInv, JobShape, NoJob
<1>3. \/ a = Out /\ g > n /\ pc = "find stopped"
      \/ a = In /\ g < n /\ pc = "find dynamic"
      \/ a = "noop" /\ pc = "record"
  BY <1>2 DEF Direction, FirstStep, Out, In
<1>4. job'[t] = j /\ BackendCount' = n
  BY <1>1 DEF Moves, TypeInv, BackendCount, RunningReplicas
<1>0. job'[t].half = job[t].half
  <2>. HIDE DEF n, a, pc
  <2>. QED  BY <1>2, <1>4 DEF Job
<1>5. ASSUME ~contended'[t], ~job'[t].half  PROVE Exact(job[t])'
  <2>. HIDE DEF n, a, pc
  <2>1. /\ job'[t].pc = pc /\ job'[t].action = a /\ job'[t].base = n
        /\ job'[t].goal = g /\ job'[t].done = 0
    BY <1>2, <1>4 DEF Job
  <2>2. j # NoJob
    BY <1>3, <1>4, <2>1 DEF NoJob
  <2>3. ~contended[t]
    BY <1>1, <1>2, <1>5, <2>2 DEF Moves, TypeInv, Idle
  <2>4. Exact(job[t])
    BY <1>0, <1>2, <1>5, <2>3 DEF CountInv, Idle
  <2>5. policy.min <= g /\ g <= policy.max
    BY <1>1, <2>4, PolicyIsBounded, ReplicasAssumption
    DEF Exact, GoalFits, TypeInv, OtherTypes, Slots
  <2>6. FinalCount(job[t])' = n
    <3>1. n + 0 = n /\ n - 0 = n
      BY <1>2
    <3>. QED  BY <1>3, <2>1, <3>1 DEF FinalCount, Out, In
  <2>7. ChoiceStands(job[t])' /\ GoalFits(job[t])'
    BY <1>1, <1>3, <2>1, <2>5 DEF ChoiceStands, GoalFits, OutSteps, InSteps
  <2>8. Reached(job[t])' = FinalCount(job[t])' + 0 - 0
    BY <1>3, <2>1 DEF Reached
  <2>. QED  BY <1>2, <1>4, <2>6, <2>7, <2>8 DEF Exact
<1>. QED  BY <1>1, <1>5, MoverDecides

LEMMA NextKeepsCounts ==
    ASSUME TypeInv, CountInv, [Next]_vars
    PROVE  CountInv'
<1>1. CASE UNCHANGED vars
  BY <1>1 DEF vars, memory, history, CountInv, Idle, Exact, ChoiceStands,
              GoalFits, BackendCount, RunningReplicas
<1>2. ASSUME NEW p, HandlePolicy(p)  PROVE CountInv'
  BY <1>2, ThreadsAssumption, MoverDecides DEF HandlePolicy
<1>3. ASSUME NEW p, Restart(p)  PROVE CountInv'
  BY <1>3 DEF Restart, Start, CountInv, Idle
<1>4. ASSUME TimePasses  PROVE CountInv'
  BY <1>4 DEF TimePasses, CountInv, Idle, Exact, ChoiceStands, GoalFits,
              BackendCount, RunningReplicas
<1>. QED  BY <1>1, <1>2, <1>3, <1>4, JobStepKeepsCounts, ReadingKeepsCounts,
             ManualRequestKeepsCounts, ManualPlanKeepsCounts DEF Next

-----------------------------------------------------------------------------
(* The theorems.                                                           *)

LEMMA CountInvHolds == Spec => []CountInv
<1>1. Init => CountInv
  BY DEF Init, CountInv, Idle
<1>2. TypeInv /\ CountInv /\ [Next]_vars => CountInv'
  BY NextKeepsCounts
<1>. QED  BY <1>1, <1>2, AutoscalerTypeInv, PTL DEF Spec

\* The count announced by a job that no other thread interfered with, and no
\* call of Docker left half done, is the number of running backends: whatever
\* timed out, was refused or raised on the way.
THEOREM AnnouncedCountCorrect == Spec => []AnnouncedCountIsTrue
<1>1. TypeInv /\ CountInv => AnnouncedCountIsTrue
  <2>. SUFFICES ASSUME TypeInv, CountInv, NEW t \in Threads,
                       At(t, "publish"), ~contended[t], ~job[t].half
                PROVE  FinalCount(job[t]) = BackendCount
    BY DEF AnnouncedCountIsTrue
  <2>1. Exact(job[t]) /\ job[t].pc = "publish"
    BY DEF CountInv, Idle, At, NoJob
  <2>. QED  BY <2>1, AgreesIsReached DEF Exact, TypeInv, Agrees
<1>. QED  BY <1>1, CountInvHolds, AutoscalerTypeInv, PTL

\* Only a call of Docker that succeeds brings a job forward.
LEMMA OnlyActuatedCounts ==
    ASSUME TypeInv, [Next]_vars, NEW t \in Threads, job'[t].done > job[t].done
    PROVE  /\ Actuated(t) /\ ~Idle(t)
           /\ job[t].pc \in OutSteps \cup InSteps
<1>1. /\ job[t].done \in Nat /\ NoJob.done = 0
      /\ ~(job[t].done > job[t].done) /\ ~(0 > job[t].done)
  BY JobFields DEF TypeInv, NoJob
<1>2. ~Same(t) /\ job'[t] # NoJob /\ job'[t] # job[t]
  BY <1>1 DEF Same
<1>3. ASSUME NEW u \in Threads, NEW j, Moves(u, j)  PROVE u = t /\ job'[t] = j
  BY <1>2, <1>3 DEF Moves, TypeInv
<1>4. /\ ~(\E pc : Proceeds(t, pc)) /\ ~(\E i, pc : Chooses(t, i, pc))
      /\ ~(\E half \in BOOLEAN : Stuck(t, half)) /\ ~FallsBack(t)
      /\ ~Aborted(t) /\ ~Stamp(t)
  BY <1>2, <1>3, ProceedsFields, ChoosesFields, StuckFields, FallsBackFields
  DEF Aborted, Stamp
<1>5. ASSUME JobStep(t)
      PROVE  Actuated(t) /\ job[t].pc \in OutSteps \cup InSteps
  BY <1>4, <1>5
  DEF JobStep, ClusterStep, FindStopped, StartContainer, Provision,
      CreateContainer, WaitForHealthy, FindDynamic, Decommission,
      RemoveContainer, FindRunning, StopContainer, Record, Publish,
      At, OutSteps, InSteps
<1>6. ASSUME NEW u \in Threads, JobStep(u)  PROVE u = t
  BY <1>3, <1>6, JobStepMovesOne
<1>7. ASSUME NEW d, Reading(d)  PROVE FALSE
  <2>. DEFINE n == BackendCount
              g == Goal(d, n)
              j == IF g = n THEN NoJob
                   ELSE [NoJob EXCEPT !.pc = FirstStep(Direction(n, g)),
                                      !.action = Direction(n, g), !.base = n,
                                      !.goal = g, !.ceiling = ceiling]
  <2>1. Moves(Loop, j)
    BY <1>7 DEF Reading
  <2>2. j.done = 0
    BY DEF NoJob
  <2>. HIDE DEF j
  <2>. QED  BY <1>1, <1>3, <2>1, <2>2, ThreadsAssumption
<1>8. ASSUME NEW p, HandlePolicy(p) \/ Restart(p)  PROVE FALSE
  BY <1>2, <1>3, <1>8, ThreadsAssumption DEF HandlePolicy, Restart, Start
<1>9. ASSUME NEW u \in Threads, NEW n, ManualRequest(u, n)  PROVE FALSE
  <2>. DEFINE j == [NoJob EXCEPT !.pc = "query", !.goal = n]
  <2>1. Moves(u, j)
    BY <1>9 DEF ManualRequest
  <2>2. j.done = 0
    BY DEF NoJob
  <2>. HIDE DEF j
  <2>. QED  BY <1>1, <1>3, <2>1, <2>2
<1>10. ASSUME NEW u \in Threads, ManualPlan(u)  PROVE FALSE
  <2>1. u = t
    BY <1>3, <1>10 DEF ManualPlan
  <2>2. job[t] \in Job
    BY DEF TypeInv, JobShape
  <2>3. job'[t].done = job[t].done
    BY <1>10, <2>1, <2>2 DEF ManualPlan, Moves, TypeInv, Job
  <2>. QED  BY <1>1, <2>3
<1>11. ~TimePasses /\ ~UNCHANGED vars
  BY <1>2 DEF TimePasses, vars
<1>12. JobStep(t)
  BY <1>6, <1>7, <1>8, <1>9, <1>10, <1>11 DEF Next
<1>13. job[t].pc # "idle"
  BY <1>12, JobStepMovesOne
<1>. QED  BY <1>5, <1>12, <1>13 DEF Idle, NoJob

\* A backend added or removed by a job that no other thread interfered with,
\* and no call of Docker left half done, keeps the policy's bounds.
THEOREM BoundsCorrect == Spec => ScalingWithinBounds
<1>. DEFINE Bounded(t) ==
              ~contended[t] /\ ~job[t].half /\ job'[t].done > job[t].done =>
                /\ job[t].action = Out => Cardinality(RunningReplicas') <= policy.max
                /\ job[t].action = In  => Cardinality(RunningReplicas') >= policy.min
<1>1. ASSUME TypeInv, TypeInv', CountInv, CountInv', [Next]_vars,
             NEW t \in Threads
      PROVE  Bounded(t)
  <2>. SUFFICES ASSUME ~contended[t], ~job[t].half, job'[t].done > job[t].done
                PROVE  /\ job[t].action = Out
                            => Cardinality(RunningReplicas') <= policy.max
                       /\ job[t].action = In
                            => Cardinality(RunningReplicas') >= policy.min
    OBVIOUS
  <2>1. /\ Actuated(t) /\ ~Idle(t)
        /\ job[t].pc \in OutSteps \cup InSteps
    BY <1>1, OnlyActuatedCounts
  <2>2. Exact(job[t])
    BY <1>1, <2>1 DEF CountInv
  <2>3. /\ job'[t].action = job[t].action /\ job'[t].goal = job[t].goal
        /\ job'[t].pc \in {"record", FirstStep(job[t].action)}
        /\ policy' = policy /\ job'[t].half = job[t].half
    BY <1>1, <2>1, ActuatedFields
  <2>4. job'[t].pc \in {"record", "find stopped", "find dynamic"}
    BY <2>3 DEF FirstStep
  <2>5. ~contended'[t] /\ job'[t] # NoJob
    <3>1. job'[t] # NoJob
      <4>1. NoJob.pc \notin {"record", "find stopped", "find dynamic"}
        BY DEF NoJob
      <4>. QED  BY <2>4, <4>1
    <3>2. PICK j : Moves(t, j)
      BY <2>1 DEF Actuated
    <3>. QED  BY <1>1, <2>1, <3>1, <3>2 DEF Moves, TypeInv
  <2>6. Exact(job[t])'
    BY <1>1, <2>3, <2>5 DEF CountInv, Idle
  <2>7. BackendCount' = FinalCount(job'[t])
    <3>1. JobShape(job'[t])
      BY <1>1 DEF TypeInv
    <3>2. FinalCount(job'[t]) \in Int
      BY <3>1, FinalCountIsInt
    <3>3. Reached(job'[t]) = FinalCount(job'[t]) + 0 - 0
      BY <2>4 DEF Reached
    <3>4. BackendCount' = Reached(job'[t])
      BY <2>4, <2>6 DEF Exact
    <3>. QED  BY <3>2, <3>3, <3>4
  <2>8. JobShape(job[t]) /\ JobShape(job'[t])
    BY <1>1 DEF TypeInv
  <2>9. BackendCount' = Cardinality(RunningReplicas')
    BY DEF BackendCount
  <2>10. policy.min \in Int /\ policy.max \in Int
    BY <1>1, PolicyIsBounded, ReplicasAssumption DEF TypeInv, OtherTypes, Slots
  <2>11. CASE job[t].action = Out
    <3>1. FinalCount(job'[t]) = job'[t].base + job'[t].done /\ Out # In
      BY <2>3, <2>11 DEF FinalCount, Out, In
    <3>2. FinalCount(job'[t]) <= job[t].goal /\ FinalCount(job'[t]) \in Int
      BY <2>3, <2>8, <2>11, <3>1, JobFields DEF JobShape
    <3>3. job[t].pc \in OutSteps
      BY <2>1, <2>8, <2>11, <3>1 DEF JobShape
    <3>4. job[t].goal <= policy.max /\ job[t].goal \in Int
      BY <2>2, <2>8, <3>3, JobFields DEF Exact, GoalFits
    <3>. QED  BY <2>7, <2>9, <2>10, <2>11, <3>1, <3>2, <3>4
  <2>12. CASE job[t].action = In
    <3>1. FinalCount(job'[t]) = job'[t].base - job'[t].done /\ Out # In
      BY <2>3, <2>12 DEF FinalCount, Out, In
    <3>2. /\ job[t].goal + job'[t].done <= job'[t].base
          /\ job'[t].base \in Int /\ job'[t].done \in Int
          /\ job[t].goal \in Int
      BY <2>3, <2>8, <2>12, JobFields DEF JobShape
    <3>3. job[t].pc \in InSteps
      BY <2>1, <2>8, <2>12, <3>1 DEF JobShape
    <3>4. job[t].goal >= policy.min
      BY <2>2, <3>3 DEF Exact, GoalFits
    <3>5. FinalCount(job'[t]) >= policy.min
      BY <2>10, <3>1, <3>2, <3>4
    <3>. QED  BY <2>7, <2>9, <2>12, <3>1, <3>5
  <2>. QED  BY <2>11, <2>12
<1>2. TypeInv /\ TypeInv' /\ CountInv /\ CountInv' /\ [Next]_vars
        => [\A t \in Threads : Bounded(t)]_vars
  BY <1>1
<1>. QED  BY <1>2, CountInvHolds, AutoscalerTypeInv, PTL
          DEF Spec, ScalingWithinBounds
=============================================================================
