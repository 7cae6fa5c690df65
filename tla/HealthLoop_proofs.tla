------------------------- MODULE HealthLoop_proofs --------------------------
(* Theorems about HealthLoop, for any backends, windows and number of       *)
(* failures, crashes and restarts.                                          *)
EXTENDS HealthLoop, SequenceTheorems, TLAPS

Gates == [status : Status, pending : Status \cup {Nothing}, count : 0..(FlipCycles - 1)]

USE DEF NoVerdict, Nothing, NoClock, Status, Bad

-----------------------------------------------------------------------------
\* The stability gate: a confirmed status is one of the three, and a pending
\* flip is counted below the threshold.
LEMMA GatedType ==
    ASSUME NEW g \in Gates, NEW raw \in Status \cup {"low"}
    PROVE  Gated(g, raw) \in Gates
<1>. DEFINE new == IF raw = "low" THEN "healthy" ELSE raw
            n   == IF g.pending = new THEN g.count + 1 ELSE 1
<1>1. new \in Status /\ n \in Nat /\ n >= 1 /\ 0 \in 0..(FlipCycles - 1)
  BY CyclesAssumption DEF Gates
<1>2. [g EXCEPT !.pending = Nothing, !.count = 0] \in Gates
  BY <1>1 DEF Gates
<1>3. [Clean EXCEPT !.status = new] \in Gates
  BY <1>1 DEF Gates, Clean
<1>. HIDE DEF new, n
<1>4. ~(n >= FlipCycles) => [g EXCEPT !.pending = new, !.count = n] \in Gates
  <2>1. ~(n >= FlipCycles) => n \in 0..(FlipCycles - 1)
    BY <1>1, CyclesAssumption
  <2>. QED  BY <1>1, <2>1 DEF Gates
<1>5. \/ Gated(g, raw) = g
      \/ Gated(g, raw) = [g EXCEPT !.pending = Nothing, !.count = 0]
      \/ Gated(g, raw) = [Clean EXCEPT !.status = new]
      \/ ~(n >= FlipCycles) /\ Gated(g, raw) = [g EXCEPT !.pending = new, !.count = n]
  BY DEF Gated, new, n
<1>. QED  BY <1>2, <1>3, <1>4, <1>5

LEMMA StreakType ==
    ASSUME streak \in [Backends -> 0..Confirmations], NEW b \in Backends, NEW status, NEW outliers
    PROVE  Streak(b, status, outliers) \in 0..Confirmations
BY CyclesAssumption DEF Streak

LEMMA SuppressedType ==
    ASSUME NEW status \in Status, NEW s
    PROVE  Suppressed(status, s) \in Status
BY DEF Suppressed

\* What pass 3 stores for one backend.
LEMMA ReincludeType ==
    ASSUME DetectorTypeOK, NEW b \in Backends, left[b] # Nothing
    PROVE  /\ RecoveryReinclude(b).status \in Status
           /\ RecoveryReinclude(b).clock \in NoClock..Window
           /\ RecoveryReinclude(b).emitted \in BOOLEAN
           /\ RecoveryReinclude(b).status = "unhealthy" => RecoveryReinclude(b).clock # NoClock
<1>. DEFINE due   == left[b] = "degraded" /\ clock[b] = Window /\ ~emitted[b]
            fresh == left[b] = "unhealthy" /\ clock[b] = NoClock
<1>1. left[b] \in Status /\ clock[b] \in NoClock..Window /\ emitted[b] \in BOOLEAN
  BY DEF DetectorTypeOK
<1>2. Window \in Nat \ {0}
  BY CyclesAssumption
<1>3. /\ RecoveryReinclude(b).status = IF due THEN "healthy" ELSE left[b]
      /\ RecoveryReinclude(b).clock = IF fresh THEN 0
                                      ELSE IF due \/ left[b] = "healthy" THEN NoClock
                                      ELSE clock[b]
      /\ RecoveryReinclude(b).emitted = (due \/ (emitted[b] /\ left[b] # "healthy" /\ ~fresh))
  BY DEF RecoveryReinclude
<1>. QED  BY <1>1, <1>2, <1>3

-----------------------------------------------------------------------------
(* Type correctness.                                                        *)

Verdicts == Backends \X Status

LEMMA LoopTypeInit == Init => LoopTypeOK
<1>. SUFFICES ASSUME Init PROVE LoopTypeOK
  OBVIOUS
<1>1. 0 \in 0..(FlipCycles - 1) /\ 0 \in 0..Confirmations /\ -1 \in -1..Window
  BY CyclesAssumption
<1>2. bus \in Seq(Backends \X Status) /\ Len(bus) <= BusMax
  BY CyclesAssumption, EmptySeq DEF Init, DetectorInit
<1>3. DetectorTypeOK
  BY <1>1, <1>2 DEF Init, DetectorInit, DetectorTypeOK, Clean
<1>. QED  BY <1>3, RetentionAssumption, MaxFaultsAssumption DEF Init, LoopTypeOK

LEMMA JudgesType == ASSUME LoopTypeOK, NEW b \in Backends, Judges(b) PROVE LoopTypeOK'
<1>. USE DEF LoopTypeOK
<1>1. /\ lost' \subseteq Backends /\ unread' \subseteq Backends
      /\ UNCHANGED <<down, trace, faults>>
  BY DEF Judges
<1>2. CASE StoreVerdict(b)
  <2>. DEFINE r == RecoveryReinclude(b)
  <2>1. r.status \in Status /\ r.clock \in NoClock..Window /\ r.emitted \in BOOLEAN
    BY <1>2, ReincludeType DEF StoreVerdict
  <2>2. /\ clock' = [clock EXCEPT ![b] = r.clock]
        /\ emitted' = [emitted EXCEPT ![b] = r.emitted]
        /\ health' = [health EXCEPT ![b] = r.status]
        /\ left' = [left EXCEPT ![b] = Nothing]
        /\ sending' \in {<<b, r.status>>, NoVerdict}
        /\ UNCHANGED <<gate, streak, safe, silent, bus>>
    BY <1>2 DEF StoreVerdict
  <2>. HIDE DEF r
  <2>3. DetectorTypeOK'
    BY <2>1, <2>2 DEF DetectorTypeOK
  <2>. QED  BY <1>1, <2>3
<1>3. CASE ProbeSilent(b)
  <2>1. Clean \in Gates /\ 0 \in NoClock..Window
    BY CyclesAssumption DEF Clean, Gates
  <2>2. /\ clock' = [clock EXCEPT ![b] = 0]
        /\ emitted' = [emitted EXCEPT ![b] = TRUE]
        /\ gate' = [gate EXCEPT ![b] = Clean]
        /\ health' = [health EXCEPT ![b] = "healthy"]
        /\ silent' = silent \ {b}
        /\ sending' \in {<<b, "healthy">>, NoVerdict}
        /\ UNCHANGED <<streak, safe, left, bus>>
    BY <1>3 DEF ProbeSilent
  <2>3. DetectorTypeOK'
    BY <2>1, <2>2 DEF DetectorTypeOK, Gates
  <2>. QED  BY <1>1, <2>3
<1>. QED  BY <1>2, <1>3 DEF Judges

LEMMA CycleType == ASSUME LoopTypeOK, InferenceCycle PROVE LoopTypeOK'
<1>. USE DEF LoopTypeOK
<1>1. PICK busy \in SUBSET (Backends \ down) :
        /\ trace' = [b \in Backends |->
                       IF b \in busy THEN Retention
                       ELSE IF trace[b] > 0 THEN trace[b] - 1 ELSE 0]
        /\ \E seen \in [{b \in Backends : trace'[b] > 0} -> Status \cup {"low"}],
              outliers \in SUBSET Backends : ScoreCycle(seen, outliers)
  BY DEF InferenceCycle
<1>2. trace' \in [Backends -> 0..Retention]
  BY <1>1, RetentionAssumption
<1>. DEFINE rows == {b \in Backends : trace'[b] > 0}
<1>3. PICK seen \in [rows -> Status \cup {"low"}], outliers \in SUBSET Backends :
        ScoreCycle(seen, outliers)
  BY <1>1
<1>. HIDE DEF rows
<1>4. DOMAIN seen = rows /\ rows \subseteq Backends
  BY DEF rows
<1>5. gate' \in [Backends -> Gates]
  <2>1. gate' = [b \in Backends |-> IF b \in rows THEN Gated(gate[b], seen[b]) ELSE gate[b]]
    BY <1>3, <1>4 DEF ScoreCycle
  <2>2. \A b \in Backends : gate[b] \in Gates
    BY DEF DetectorTypeOK, Gates
  <2>3. \A b \in rows : Gated(gate[b], seen[b]) \in Gates
    BY <1>4, <2>2, GatedType
  <2>. QED  BY <2>1, <2>2, <2>3
<1>6. streak' \in [Backends -> 0..Confirmations]
  <2>1. streak' = [b \in Backends |->
                     IF b \in rows /\ Compared(rows)
                     THEN Streak(b, gate'[b].status, outliers) ELSE streak[b]]
    BY <1>3, <1>4 DEF ScoreCycle
  <2>2. streak \in [Backends -> 0..Confirmations]
    BY DEF DetectorTypeOK
  <2>3. \A b \in Backends : Streak(b, gate'[b].status, outliers) \in 0..Confirmations
    BY <2>2, StreakType
  <2>. QED  BY <2>1, <2>2, <2>3
<1>7. left' \in [Backends -> Status \cup {Nothing}]
  <2>1. left' = [b \in Backends |->
                   IF b \notin rows THEN Nothing
                   ELSE IF Compared(rows) THEN Suppressed(gate'[b].status, streak'[b])
                        ELSE gate'[b].status]
    BY <1>3, <1>4 DEF ScoreCycle
  <2>2. \A b \in Backends : gate'[b].status \in Status
    BY <1>5 DEF Gates
  <2>3. \A b \in Backends : Suppressed(gate'[b].status, streak'[b]) \in Status
    BY <2>2, SuppressedType
  <2>. QED  BY <2>1, <2>2, <2>3
<1>8. clock' \in [Backends -> NoClock..Window]
  <2>1. clock' = [b \in Backends |-> IF clock[b] \in 0..(Window - 1)
                                     THEN clock[b] + 1 ELSE clock[b]]
    BY <1>3 DEF ScoreCycle
  <2>2. clock \in [Backends -> NoClock..Window]
    BY DEF DetectorTypeOK
  <2>. QED  BY <2>1, <2>2, CyclesAssumption
<1>9. silent' \subseteq Backends /\ UNCHANGED <<emitted, safe, sending, health, bus>>
  BY <1>3 DEF ScoreCycle
<1>10. DetectorTypeOK'
  BY <1>5, <1>6, <1>7, <1>8, <1>9 DEF DetectorTypeOK, Gates
<1>. QED  BY <1>2, <1>10 DEF InferenceCycle

LEMMA StartType ==
    ASSUME LoopTypeOK, NEW read \in SUBSET Backends, DetectorStart(read)
    PROVE  DetectorTypeOK'
<1>. USE DEF LoopTypeOK
<1>. DEFINE armed == {b \in read : health[b] = "unhealthy"}
<1>1. /\ Clean \in Gates /\ [Clean EXCEPT !.status = "unhealthy"] \in Gates
      /\ 0 \in NoClock..Window /\ NoClock \in NoClock..Window /\ 0 \in 0..Confirmations
  BY CyclesAssumption DEF Clean, Gates
<1>2. /\ gate' = [b \in Backends |-> IF b \in armed THEN [Clean EXCEPT !.status = "unhealthy"]
                                                    ELSE Clean]
      /\ clock' = [b \in Backends |-> IF b \in armed THEN 0 ELSE NoClock]
      /\ streak' = [b \in Backends |-> 0]
      /\ emitted' = [b \in Backends |-> FALSE]
      /\ left' = [b \in Backends |-> Nothing]
      /\ safe' = FALSE /\ silent' = {} /\ sending' = NoVerdict
      /\ UNCHANGED <<health, bus>>
  BY DEF DetectorStart
<1>. HIDE DEF armed
<1>. QED  BY <1>1, <1>2 DEF DetectorTypeOK, Gates

LEMMA BusTypes ==
    ASSUME LoopTypeOK
    PROVE  /\ <<>> \in Seq(Verdicts) /\ Len(<<>>) <= BusMax
           /\ bus # <<>> => /\ Head(bus) \in Verdicts
                            /\ Tail(bus) \in Seq(Verdicts)
                            /\ Len(Tail(bus)) <= BusMax
           /\ \A v \in Verdicts : Len(bus) < BusMax =>
                 Append(bus, v) \in Seq(Verdicts) /\ Len(Append(bus, v)) <= BusMax
<1>1. bus \in Seq(Verdicts) /\ Len(bus) <= BusMax /\ Len(bus) \in Nat /\ BusMax \in Nat
  BY CyclesAssumption, LenProperties DEF LoopTypeOK, DetectorTypeOK, Verdicts
<1>2. <<>> \in Seq(Verdicts) /\ Len(<<>>) <= BusMax
  BY <1>1, EmptySeq
<1>3. bus # <<>> => /\ Head(bus) \in Verdicts /\ Tail(bus) \in Seq(Verdicts)
                    /\ Len(Tail(bus)) = Len(bus) - 1
  BY <1>1, HeadTailProperties
<1>4. \A v \in Verdicts : Append(bus, v) \in Seq(Verdicts) /\ Len(Append(bus, v)) = Len(bus) + 1
  BY <1>1, AppendProperties
<1>. QED  BY <1>1, <1>2, <1>3, <1>4

LEMMA LoopTypeNext == LoopTypeOK /\ [Next]_vars => LoopTypeOK'
<1>. SUFFICES ASSUME LoopTypeOK, [Next]_vars PROVE LoopTypeOK'
  OBVIOUS
<1>. USE DEF LoopTypeOK
<1>0. faults < MaxFaults => faults + 1 \in 0..MaxFaults
  BY MaxFaultsAssumption
<1>1. ASSUME NEW b \in Backends, Judges(b) PROVE LoopTypeOK'
  BY <1>1, JudgesType
<1>2. CASE Publish /\ UNCHANGED loopVars
  <2>1. sending \in Verdicts /\ Len(bus) < BusMax /\ bus' = Append(bus, sending)
    BY <1>2 DEF Publish, DetectorTypeOK, Verdicts
  <2>2. bus' \in Seq(Backends \X Status) /\ Len(bus') <= BusMax
    BY <2>1, BusTypes DEF Verdicts
  <2>. QED  BY <1>2, <2>2 DEF Publish, DetectorTypeOK, states, loopVars
<1>3. CASE InferenceCycle
  BY <1>3, CycleType
<1>4. CASE SidecarHandles
  <2>1. bus # <<>> /\ bus' = Tail(bus) /\ down' = Applied(Head(bus), down)
    BY <1>4 DEF SidecarHandles
  <2>2. /\ bus' \in Seq(Backends \X Status) /\ Len(bus') <= BusMax
        /\ Head(bus) \in Verdicts
    BY <2>1, BusTypes DEF Verdicts
  <2>3. down' \subseteq Backends
    BY <2>1, <2>2 DEF Applied, Verdicts
  <2>. QED  BY <1>4, <2>2, <2>3 DEF SidecarHandles, DetectorTypeOK, states, cycle
<1>5. CASE BusRefuses
  <2>1. lost' \subseteq Backends /\ faults' \in 0..MaxFaults
    BY <1>0, <1>5 DEF BusRefuses, Fault, Unsent
  <2>. QED  BY <1>5, <2>1 DEF BusRefuses, PublishFails, DetectorTypeOK, states
<1>6. CASE DetectorCrash
  <2>1. /\ lost' \subseteq Backends /\ unread' \subseteq Backends
        /\ faults' \in 0..MaxFaults
    BY <1>0, <1>6 DEF DetectorCrash, Fault, Unsent
  <2>. QED  BY <1>6, <2>1, StartType DEF DetectorCrash
<1>7. CASE BusDrops
  <2>1. lost' \subseteq Backends /\ faults' \in 0..MaxFaults
    BY <1>0, <1>7 DEF BusDrops, Fault
  <2>2. bus' \in Seq(Backends \X Status) /\ Len(bus') <= BusMax
    BY <1>7, BusTypes DEF BusDrops, Verdicts
  <2>. QED  BY <1>7, <2>1, <2>2 DEF BusDrops, DetectorTypeOK, states, cycle
<1>8. CASE SidecarRestart
  <2>1. lost' \subseteq Backends /\ faults' \in 0..MaxFaults /\ down' \subseteq Backends
    BY <1>0, <1>8 DEF SidecarRestart, Fault, Hydrated
  <2>2. bus' \in Seq(Backends \X Status) /\ Len(bus') <= BusMax
    BY <1>8, BusTypes DEF SidecarRestart, Verdicts
  <2>. QED  BY <1>8, <2>1, <2>2 DEF SidecarRestart, DetectorTypeOK, states, cycle
<1>9. CASE SafeModeOn \/ SafeModeOff
  <2>1. faults' \in 0..MaxFaults
    BY <1>0, <1>9 DEF SafeModeOn, SafeModeOff, Fault, loopVars
  <2>. QED  BY <1>9, <2>1 DEF SafeModeOn, SafeModeOff, SetSafeMode, DetectorTypeOK, loopVars, cycle
<1>10. CASE UNCHANGED vars
  BY <1>10 DEF vars, detectorVars, loopVars, states, cycle, DetectorTypeOK
<1>. QED
  BY <1>1, <1>2, <1>3, <1>4, <1>5, <1>6, <1>7, <1>8, <1>9, <1>10
     DEF Next, DetectorStep, FaultStep

\* Every reachable state of the closed health loop is well typed.
THEOREM LoopTypeCorrect == Spec => []LoopTypeOK
BY LoopTypeInit, LoopTypeNext, PTL DEF Spec

-----------------------------------------------------------------------------
(* Tracking.  The row of a backend is what both processes start from, so    *)
(* the argument goes by the row: an unhealthy one has a clock, and any      *)
(* other on a backend that is or may get benched is in flight or lost.      *)

MayBeDown(b) == b \in down \/ Pending(b) # {}

RowSent == sending # NoVerdict => health[sending[1]] = sending[2]

NoRowNotDown == \A b \in Backends : health[b] = Nothing => ~MayBeDown(b)

UnhealthyHasClock ==
    \A b \in Backends : health[b] = "unhealthy" => clock[b] # NoClock \/ b \in unread

ReadmissionUnderway ==
    \A b \in Backends : MayBeDown(b) /\ health[b] # "unhealthy"
                         => WillBeIncluded(b) \/ b \in lost

TrackInv == /\ LoopTypeOK
            /\ RowSent /\ NoRowNotDown /\ UnhealthyHasClock /\ ReadmissionUnderway

LEMMA TrackInvInit == Init => TrackInv
<1>. SUFFICES ASSUME Init PROVE TrackInv
  OBVIOUS
<1>1. LoopTypeOK
  BY LoopTypeInit
<1>2. bus = <<>> /\ down = {} /\ sending = NoVerdict /\ health = [b \in Backends |-> Nothing]
  BY DEF Init, DetectorInit
<1>3. \A b \in Backends : Pending(b) = {}
  BY <1>2, EmptySeq DEF Pending
<1>. QED
  BY <1>1, <1>2, <1>3
     DEF TrackInv, RowSent, NoRowNotDown, UnhealthyHasClock, ReadmissionUnderway, MayBeDown

\* Verdicts on the bus: what a new one at the end and taking the first change.
LEMMA InFlightAppend ==
    ASSUME LoopTypeOK, NEW v \in Verdicts, bus' = Append(bus, v), NEW b \in Backends
    PROVE  /\ Pending(b)' = {} => Pending(b) = {} /\ b # v[1]
           /\ b = v[1] => Pending(b)' # {} /\ (v[2] # "unhealthy" => ReadmissionInFlight(b)')
           /\ b # v[1] => /\ Pending(b) = {} => Pending(b)' = {}
                          /\ ReadmissionInFlight(b) => ReadmissionInFlight(b)'
<1>1. /\ Len(bus) \in Nat /\ Len(bus') = Len(bus) + 1
      /\ \A i \in 1..Len(bus) : bus'[i] = bus[i]
      /\ bus'[Len(bus) + 1] = v
  BY AppendProperties, LenProperties DEF LoopTypeOK, DetectorTypeOK, Verdicts
<1>2. Pending(b)' = Pending(b) \cup (IF b = v[1] THEN {Len(bus) + 1} ELSE {})
  BY <1>1 DEF Pending
<1>3. ASSUME b = v[1], v[2] # "unhealthy" PROVE ReadmissionInFlight(b)'
  <2>1. Len(bus) + 1 \in Pending(b)' /\ \A j \in Pending(b)' : j <= Len(bus) + 1
    BY <1>1, <1>2, <1>3 DEF Pending
  <2>. QED  BY <1>1, <1>3, <2>1 DEF ReadmissionInFlight
<1>4. ASSUME b # v[1], ReadmissionInFlight(b) PROVE ReadmissionInFlight(b)'
  <2>1. PICK i \in Pending(b) : bus[i][2] # "unhealthy" /\ \A j \in Pending(b) : j <= i
    BY <1>4 DEF ReadmissionInFlight
  <2>2. i \in 1..Len(bus) /\ Pending(b)' = Pending(b)
    BY <1>2, <1>4 DEF Pending
  <2>. QED  BY <1>1, <2>1, <2>2 DEF ReadmissionInFlight
<1>. QED  BY <1>2, <1>3, <1>4

LEMMA InFlightTail ==
    ASSUME LoopTypeOK, bus # <<>>, bus' = Tail(bus), NEW b \in Backends
    PROVE  /\ Head(bus) \in Verdicts
           /\ Pending(b)' # {} => Pending(b) # {}
           /\ b # Head(bus)[1] => (Pending(b) # {} => Pending(b)' # {})
           /\ Pending(b)' # {} => (ReadmissionInFlight(b) => ReadmissionInFlight(b)')
           /\ Pending(b)' = {} /\ ReadmissionInFlight(b)
                => Head(bus)[1] = b /\ Head(bus)[2] # "unhealthy"
<1>1. /\ Len(bus) \in Nat \ {0} /\ Len(bus') = Len(bus) - 1
      /\ \A i \in 1..(Len(bus) - 1) : bus'[i] = bus[i + 1]
      /\ Head(bus) = bus[1]
  BY HeadTailProperties, EmptySeq, LenProperties DEF LoopTypeOK, DetectorTypeOK
<1>2. Head(bus) \in Verdicts
  BY BusTypes
<1>3. \A i \in 1..Len(bus) : i \in Pending(b) <=> bus[i][1] = b
  BY DEF Pending
<1>4. \A i \in 1..(Len(bus) - 1) : i \in Pending(b)' <=> i + 1 \in Pending(b)
  BY <1>1 DEF Pending
<1>5. Pending(b) \subseteq 1..Len(bus) /\ Pending(b)' \subseteq 1..(Len(bus) - 1)
  BY <1>1 DEF Pending
<1>6. \A i \in Pending(b) : i # 1 => i - 1 \in Pending(b)'
  BY <1>1, <1>4, <1>5
<1>7. \A i \in Pending(b)' : i + 1 \in Pending(b)
  BY <1>4, <1>5
<1>8. 1 \in Pending(b) <=> Head(bus)[1] = b
  BY <1>1, <1>3, <1>5
<1>9. ASSUME ReadmissionInFlight(b), Pending(b)' # {} PROVE ReadmissionInFlight(b)'
  <2>1. PICK i \in Pending(b) : bus[i][2] # "unhealthy" /\ \A j \in Pending(b) : j <= i
    BY <1>9 DEF ReadmissionInFlight
  <2>2. PICK k \in Pending(b)' : TRUE
    BY <1>9
  <2>3. i \in 1..Len(bus) /\ k \in 1..(Len(bus) - 1) /\ k + 1 <= i
    BY <1>5, <1>7, <2>1, <2>2
  <2>4. i - 1 \in Pending(b)' /\ bus'[i - 1] = bus[i]
    BY <1>1, <1>6, <2>1, <2>3
  <2>5. \A j \in Pending(b)' : j <= i - 1
    BY <1>1, <1>5, <1>7, <2>1, <2>3
  <2>. QED  BY <2>1, <2>4, <2>5 DEF ReadmissionInFlight
<1>10. ASSUME ReadmissionInFlight(b), Pending(b)' = {}
       PROVE  Head(bus)[1] = b /\ Head(bus)[2] # "unhealthy"
  <2>1. PICK i \in Pending(b) : bus[i][2] # "unhealthy"
    BY <1>10 DEF ReadmissionInFlight
  <2>2. i = 1
    BY <1>6, <1>10, <2>1
  <2>. QED  BY <1>1, <1>8, <2>1, <2>2
<1>. QED  BY <1>2, <1>6, <1>7, <1>8, <1>9, <1>10

LEMMA TrackJudges ==
    ASSUME Response = "advisory", TrackInv, NEW b \in Backends, Judges(b)
    PROVE  TrackInv'
<1>. DEFINE word == health'[b]
<1>1. LoopTypeOK /\ LoopTypeOK'
  BY JudgesType DEF TrackInv
<1>2. /\ sending = NoVerdict
      /\ health' = [health EXCEPT ![b] = word] /\ word \in Status
      /\ sending' = IF safe THEN NoVerdict ELSE <<b, word>>
      /\ \A a \in Backends : a # b => clock'[a] = clock[a]
      /\ word = "unhealthy" => clock'[b] # NoClock
      /\ UNCHANGED <<bus, down>>
      /\ unread' = unread \ {b}
  <2>1. health \in [Backends -> Status \cup {Nothing}] /\ clock \in [Backends -> NoClock..Window]
    BY <1>1 DEF LoopTypeOK, DetectorTypeOK
  <2>2. CASE StoreVerdict(b)
    <3>. DEFINE r == RecoveryReinclude(b)
    <3>1. /\ sending = NoVerdict /\ left[b] # Nothing
          /\ health' = [health EXCEPT ![b] = r.status]
          /\ clock' = [clock EXCEPT ![b] = r.clock]
          /\ sending' = IF (r.readmit /\ ~safe) \/ ShouldPublish(r.status)
                        THEN <<b, r.status>> ELSE NoVerdict
          /\ bus' = bus /\ down' = down /\ unread' = unread \ {b}
      BY <2>2 DEF StoreVerdict, Judges
    <3>2. r.status \in Status /\ (r.status = "unhealthy" => r.clock # NoClock)
      BY <1>1, <3>1, ReincludeType DEF LoopTypeOK
    <3>3. ShouldPublish(r.status) = ~safe
      BY DEF ShouldPublish
    <3>. HIDE DEF r
    <3>4. health'[b] = r.status /\ clock'[b] = r.clock
      BY <2>1, <3>1
    <3>. QED  BY <2>1, <3>1, <3>2, <3>3, <3>4
  <2>3. CASE ProbeSilent(b)
    <3>1. /\ sending = NoVerdict
          /\ health' = [health EXCEPT ![b] = "healthy"]
          /\ clock' = [clock EXCEPT ![b] = 0]
          /\ sending' = IF safe THEN NoVerdict ELSE <<b, "healthy">>
          /\ bus' = bus /\ down' = down /\ unread' = unread \ {b}
      BY <2>3 DEF ProbeSilent, Judges
    <3>. QED  BY <2>1, <3>1
  <2>. QED  BY <2>2, <2>3 DEF Judges
<1>3. lost' = IF safe /\ word # "unhealthy" /\ (b \in down \/ Pending(b) # {})
              THEN lost \cup {b} ELSE lost \ {b}
  BY DEF Judges
<1>4. \A a \in Backends : /\ Pending(a)' = Pending(a)
                          /\ ReadmissionInFlight(a)' = ReadmissionInFlight(a)
  BY <1>2 DEF Pending, ReadmissionInFlight
<1>. HIDE DEF word
<1>5. health'[b] = word /\ \A a \in Backends : a # b => health'[a] = health[a]
  BY <1>1, <1>2 DEF LoopTypeOK, DetectorTypeOK
<1>6. RowSent'
  BY <1>2, <1>5 DEF RowSent
<1>7. NoRowNotDown'
  BY <1>2, <1>4, <1>5 DEF NoRowNotDown, MayBeDown, TrackInv
<1>8. UnhealthyHasClock'
  BY <1>2, <1>5 DEF UnhealthyHasClock, TrackInv
<1>9. ASSUME NEW a \in Backends, MayBeDown(a)', health'[a] # "unhealthy"
      PROVE  WillBeIncluded(a)' \/ a \in lost'
  <2>1. MayBeDown(a)
    BY <1>2, <1>4, <1>9 DEF MayBeDown
  <2>2. CASE a = b /\ safe
    BY <1>3, <1>5, <1>9, <2>1, <2>2 DEF MayBeDown
  <2>3. CASE a = b /\ ~safe
    BY <1>2, <1>5, <1>9, <2>3 DEF WillBeIncluded, Unsent
  <2>4. CASE a # b
    <3>1. WillBeIncluded(a) \/ a \in lost
      BY <1>5, <1>9, <2>1, <2>4 DEF ReadmissionUnderway, TrackInv
    <3>2. a \notin Unsent /\ sending' # <<a, "unhealthy">>
      BY <1>2, <2>4 DEF Unsent
    <3>. QED  BY <1>3, <1>4, <2>4, <3>1, <3>2 DEF WillBeIncluded
  <2>. QED  BY <2>2, <2>3, <2>4
<1>. QED  BY <1>1, <1>6, <1>7, <1>8, <1>9 DEF TrackInv, ReadmissionUnderway

LEMMA TrackCycle == ASSUME TrackInv, InferenceCycle PROVE TrackInv'
<1>1. LoopTypeOK'
  BY CycleType DEF TrackInv
<1>2. /\ UNCHANGED <<down, lost, unread, sending, health, bus>>
      /\ \A b \in Backends : clock[b] # NoClock => clock'[b] # NoClock
  <2>1. clock \in [Backends -> NoClock..Window]
    BY DEF TrackInv, LoopTypeOK, DetectorTypeOK
  <2>2. /\ UNCHANGED <<down, lost, unread, sending, health, bus>>
        /\ clock' = [b \in Backends |-> IF clock[b] \in 0..(Window - 1)
                                        THEN clock[b] + 1 ELSE clock[b]]
    BY DEF InferenceCycle, ScoreCycle
  <2>. QED  BY <2>1, <2>2, CyclesAssumption
<1>3. \A b \in Backends : /\ Pending(b)' = Pending(b)
                          /\ ReadmissionInFlight(b)' = ReadmissionInFlight(b)
  BY <1>2 DEF Pending, ReadmissionInFlight
<1>4. RowSent' /\ NoRowNotDown' /\ UnhealthyHasClock' /\ ReadmissionUnderway'
  BY <1>2, <1>3 DEF TrackInv, RowSent, NoRowNotDown, UnhealthyHasClock, ReadmissionUnderway,
                    MayBeDown, WillBeIncluded, Unsent
<1>. QED  BY <1>1, <1>4 DEF TrackInv

LEMMA TrackPublish == ASSUME TrackInv, Publish, UNCHANGED loopVars PROVE TrackInv'
<1>1. LoopTypeOK
  BY DEF TrackInv
<1>2. sending \in Verdicts /\ bus' = Append(bus, sending) /\ sending' = NoVerdict
  BY <1>1 DEF Publish, LoopTypeOK, DetectorTypeOK, Verdicts
<1>3. UNCHANGED <<clock, health, down, lost, unread>>
  BY DEF Publish, states, loopVars
<1>4. LoopTypeOK'
  BY <1>1, LoopTypeNext DEF Next, DetectorStep
<1>5. health[sending[1]] = sending[2] /\ sending[1] \in Backends /\ sending[2] \in Status
      /\ sending = <<sending[1], sending[2]>>
  BY <1>2 DEF TrackInv, RowSent, Verdicts
<1>6. RowSent'
  BY <1>2 DEF RowSent
<1>7. NoRowNotDown'
  <2>1. ASSUME NEW b \in Backends, health[b] = Nothing PROVE Pending(b)' = {} /\ b \notin down
    BY <1>1, <1>2, <1>5, <2>1, InFlightAppend DEF TrackInv, NoRowNotDown, MayBeDown
  <2>. QED  BY <1>3, <2>1 DEF NoRowNotDown, MayBeDown
<1>8. UnhealthyHasClock'
  BY <1>3 DEF TrackInv, UnhealthyHasClock
<1>9. ASSUME NEW b \in Backends, MayBeDown(b)', health'[b] # "unhealthy"
      PROVE  WillBeIncluded(b)' \/ b \in lost'
  <2>1. sending' # <<b, "unhealthy">>
    BY <1>2
  <2>2. CASE b = sending[1]
    BY <1>1, <1>2, <1>3, <1>5, <1>9, <2>1, <2>2, InFlightAppend DEF WillBeIncluded
  <2>3. CASE b # sending[1]
    <3>1. MayBeDown(b)
      BY <1>1, <1>2, <1>3, <1>9, <2>3, InFlightAppend DEF MayBeDown
    <3>2. b \notin Unsent
      BY <1>5, <2>3 DEF Unsent
    <3>3. ReadmissionInFlight(b) \/ b \in lost
      BY <1>3, <1>9, <3>1, <3>2 DEF TrackInv, ReadmissionUnderway, WillBeIncluded
    <3>. QED  BY <1>1, <1>2, <1>3, <2>1, <2>3, <3>3, InFlightAppend DEF WillBeIncluded
  <2>. QED  BY <2>2, <2>3
<1>. QED  BY <1>4, <1>6, <1>7, <1>8, <1>9 DEF TrackInv, ReadmissionUnderway

LEMMA TrackSidecar == ASSUME TrackInv, SidecarHandles PROVE TrackInv'
<1>1. LoopTypeOK
  BY DEF TrackInv
<1>2. /\ bus # <<>> /\ bus' = Tail(bus) /\ down' = Applied(Head(bus), down)
      /\ UNCHANGED <<clock, health, sending, lost, unread>>
  BY DEF SidecarHandles, states, cycle
<1>3. LoopTypeOK'
  BY <1>1, LoopTypeNext DEF Next
<1>4. Head(bus) \in Verdicts
  BY <1>1, BusTypes, <1>2
<1>5. /\ \A b \in Backends : b \in down' => b \in down \/ (b = Head(bus)[1] /\ Pending(b) # {})
      /\ Head(bus)[2] # "unhealthy" => Head(bus)[1] \notin down'
  <2>1. \A b \in Backends : b = Head(bus)[1] => Pending(b) # {}
    <3>1. Len(bus) \in Nat \ {0} /\ Head(bus) = bus[1]
      BY <1>1, <1>2, EmptySeq, LenProperties DEF LoopTypeOK, DetectorTypeOK
    <3>. QED  BY <3>1 DEF Pending
  <2>. QED  BY <1>2, <1>4, <2>1 DEF Applied
<1>6. \A b \in Backends : MayBeDown(b)' => MayBeDown(b)
  BY <1>1, <1>2, <1>5, InFlightTail DEF MayBeDown
<1>7. RowSent' /\ NoRowNotDown' /\ UnhealthyHasClock'
  BY <1>2, <1>6 DEF TrackInv, RowSent, NoRowNotDown, UnhealthyHasClock
<1>8. ASSUME NEW b \in Backends, MayBeDown(b)', health'[b] # "unhealthy"
      PROVE  WillBeIncluded(b)' \/ b \in lost'
  <2>1. WillBeIncluded(b) \/ b \in lost
    BY <1>2, <1>6, <1>8 DEF TrackInv, ReadmissionUnderway
  <2>2. CASE b \in Unsent \/ b \in lost
    BY <1>2, <2>2 DEF WillBeIncluded, Unsent
  <2>3. CASE sending # <<b, "unhealthy">> /\ ReadmissionInFlight(b)
    <3>1. CASE Pending(b)' # {}
      BY <1>1, <1>2, <2>3, <3>1, InFlightTail DEF WillBeIncluded
    <3>2. CASE Pending(b)' = {}
      BY <1>1, <1>2, <1>5, <1>8, <2>3, <3>2, InFlightTail DEF MayBeDown
    <3>. QED  BY <3>1, <3>2
  <2>. QED  BY <2>1, <2>2, <2>3 DEF WillBeIncluded
<1>. QED  BY <1>3, <1>7, <1>8 DEF TrackInv, ReadmissionUnderway

LEMMA TrackFaults == ASSUME TrackInv, FaultStep PROVE TrackInv'
<1>1. LoopTypeOK
  BY DEF TrackInv
<1>2. LoopTypeOK'
  BY <1>1, LoopTypeNext DEF Next
<1>3. ASSUME UNCHANGED <<bus, down, health>>, sending' = NoVerdict, lost' = lost \cup Unsent,
             UnhealthyHasClock'
      PROVE  TrackInv'
  <2>1. \A b \in Backends : /\ Pending(b)' = Pending(b)
                            /\ ReadmissionInFlight(b)' = ReadmissionInFlight(b)
    BY <1>3 DEF Pending, ReadmissionInFlight
  <2>2. RowSent' /\ NoRowNotDown'
    BY <1>3, <2>1 DEF TrackInv, RowSent, NoRowNotDown, MayBeDown
  <2>3. ReadmissionUnderway'
    BY <1>3, <2>1 DEF TrackInv, ReadmissionUnderway, MayBeDown, WillBeIncluded
  <2>. QED  BY <1>2, <1>3, <2>2, <2>3 DEF TrackInv
<1>4. CASE BusRefuses
  <2>1. UNCHANGED <<bus, down, health, clock, unread>> /\ sending' = NoVerdict /\ lost' = lost \cup Unsent
    BY <1>4 DEF BusRefuses, PublishFails, states
  <2>. QED  BY <1>3, <2>1 DEF TrackInv, UnhealthyHasClock
<1>5. CASE DetectorCrash
  <2>1. /\ UNCHANGED <<bus, down, health>> /\ sending' = NoVerdict /\ lost' = lost \cup Unsent
    BY <1>5 DEF DetectorCrash, DetectorStart
  <2>2. PICK read \in SUBSET Backends :
          /\ clock' = [b \in Backends |->
                         IF b \in {a \in read : health[a] = "unhealthy"}
                         THEN 0 ELSE NoClock]
          /\ unread' = {b \in Backends \ read : health[b] = "unhealthy"}
    BY <1>5 DEF DetectorCrash, DetectorStart
  <2>. QED  BY <1>3, <2>1, <2>2 DEF UnhealthyHasClock
<1>6. CASE BusDrops \/ SidecarRestart
  <2>1. bus' = <<>> /\ UNCHANGED <<clock, health, sending, unread>>
    BY <1>6 DEF BusDrops, SidecarRestart, states, cycle
  <2>2. \A b \in Backends : Pending(b)' = {}
    BY <2>1, EmptySeq DEF Pending
  <2>3. RowSent' /\ UnhealthyHasClock'
    BY <2>1 DEF TrackInv, RowSent, UnhealthyHasClock
  <2>4. CASE BusDrops
    <3>1. down' = down /\ lost' = lost \cup {b \in Backends : ReadmissionInFlight(b)}
      BY <2>4 DEF BusDrops
    <3>2. NoRowNotDown'
      BY <2>1, <2>2, <3>1 DEF TrackInv, NoRowNotDown, MayBeDown
    <3>3. ReadmissionUnderway'
      BY <2>1, <2>2, <3>1 DEF TrackInv, ReadmissionUnderway, MayBeDown, WillBeIncluded, Unsent
    <3>. QED  BY <1>2, <2>3, <3>2, <3>3 DEF TrackInv
  <2>5. CASE SidecarRestart
    <3>1. PICK read \in SUBSET Backends : down' = Hydrated(read, down)
      BY <2>5 DEF SidecarRestart
    <3>2. \A b \in Backends : b \in down' => health[b] = "unhealthy" \/ b \in down
      BY <3>1 DEF Hydrated
    <3>3. NoRowNotDown'
      BY <2>1, <2>2, <3>2 DEF TrackInv, NoRowNotDown, MayBeDown
    <3>4. ASSUME NEW b \in Backends, b \in down', health[b] # "unhealthy"
          PROVE  b \in Unsent \/ b \in lost'
      <4>1. WillBeIncluded(b) \/ b \in lost
        BY <3>2, <3>4 DEF TrackInv, ReadmissionUnderway, MayBeDown
      <4>. QED  BY <2>5, <3>4, <4>1 DEF SidecarRestart, WillBeIncluded
    <3>5. ReadmissionUnderway'
      BY <2>1, <2>2, <3>4 DEF ReadmissionUnderway, MayBeDown, WillBeIncluded, Unsent
    <3>. QED  BY <1>2, <2>3, <3>3, <3>5 DEF TrackInv
  <2>. QED  BY <1>6, <2>4, <2>5
<1>7. CASE SafeModeOn \/ SafeModeOff
  <2>1. UNCHANGED <<bus, down, lost, unread, health, clock, sending>>
    BY <1>7 DEF SafeModeOn, SafeModeOff, SetSafeMode, cycle, loopVars
  <2>2. \A b \in Backends : /\ Pending(b)' = Pending(b)
                            /\ ReadmissionInFlight(b)' = ReadmissionInFlight(b)
    BY <2>1 DEF Pending, ReadmissionInFlight
  <2>. QED
    BY <1>2, <2>1, <2>2 DEF TrackInv, RowSent, NoRowNotDown, UnhealthyHasClock,
                            ReadmissionUnderway, MayBeDown, WillBeIncluded, Unsent
<1>. QED  BY <1>4, <1>5, <1>6, <1>7 DEF FaultStep

LEMMA TrackInvNext ==
    ASSUME Response = "advisory", TrackInv, [Next]_vars
    PROVE  TrackInv'
<1>1. CASE UNCHANGED vars
  <2>1. LoopTypeOK'
    BY LoopTypeNext DEF TrackInv
  <2>2. UNCHANGED <<bus, down, lost, unread, health, clock, sending>>
    BY <1>1 DEF vars, detectorVars, loopVars, states, cycle
  <2>3. \A b \in Backends : /\ Pending(b)' = Pending(b)
                            /\ ReadmissionInFlight(b)' = ReadmissionInFlight(b)
    BY <2>2 DEF Pending, ReadmissionInFlight
  <2>. QED
    BY <2>1, <2>2, <2>3 DEF TrackInv, RowSent, NoRowNotDown, UnhealthyHasClock,
                            ReadmissionUnderway, MayBeDown, WillBeIncluded, Unsent
<1>. QED
  BY <1>1, TrackJudges, TrackCycle, TrackPublish, TrackSidecar, TrackFaults
     DEF Next, DetectorStep

\* In advisory mode the detector keeps a clock for every exclusion that no
\* verdict under way ends, unless its re-admission was lost or the detector
\* started without reading its row, however many publishes fail, messages
\* get lost and processes restart, and however long they stay away.
THEOREM ExclusionsTracked ==
    ASSUME Response = "advisory"
    PROVE  Spec => []EveryExclusionIsTracked
<1>1. TrackInv => EveryExclusionIsTracked
  <2>. SUFFICES ASSUME TrackInv, NEW b \in down
                PROVE  WillBeIncluded(b) \/ clock[b] # NoClock \/ b \in lost \cup unread
    BY DEF EveryExclusionIsTracked
  <2>1. b \in Backends /\ MayBeDown(b)
    BY DEF TrackInv, LoopTypeOK, MayBeDown
  <2>2. CASE health[b] = "unhealthy"
    BY <2>1, <2>2 DEF TrackInv, UnhealthyHasClock
  <2>3. CASE health[b] # "unhealthy"
    BY <2>1, <2>3 DEF TrackInv, ReadmissionUnderway
  <2>. QED  BY <2>2, <2>3
<1>2. TrackInv /\ [Next]_vars => TrackInv'
  BY TrackInvNext
<1>. QED  BY TrackInvInit, <1>1, <1>2, PTL DEF Spec
=============================================================================
