--------------------------- MODULE RlEngine_proofs ---------------------------
(* Theorems about RlEngine, for any backends, limits, modes and bounds.    *)
EXTENDS RlEngine, SequenceTheorems, TLAPS

\* A verdict is in the table while it is fresh, and what is in the table is
\* the one handled last.
TableInv ==
    \A b \in Backends :
       IF verdict[b] # "none" THEN verdict[b] = told[b]
       ELSE told[b] = "none" \/ age[b] > VerdictTtl

RlInv == RlTypeOK /\ TableInv

-----------------------------------------------------------------------------
LEMMA FromPayloadIsPolicy ==
    ASSUME NEW payload \in Policies,
           NEW p \in [version : 0 .. MaxVersion, mode : {"shadow", "hybrid"}, safe : BOOLEAN]
    PROVE  FromPayload(payload, p)
              \in [version : 0 .. MaxVersion, mode : {"shadow", "hybrid"}, safe : BOOLEAN]
BY DEF FromPayload, Policies

LEMMA InboxTail ==
    ASSUME inbox \in Seq(Messages), inbox # <<>>, Len(inbox) <= MaxInbox
    PROVE  /\ Head(inbox) \in Messages
           /\ Tail(inbox) \in Seq(Messages)
           /\ Len(Tail(inbox)) <= MaxInbox
BY HeadTailProperties, LenProperties, BoundsAssumption

LEMMA InboxAppend ==
    ASSUME NEW m \in Messages, inbox \in Seq(Messages), Len(inbox) < MaxInbox
    PROVE  /\ Append(inbox, m) \in Seq(Messages)
           /\ Len(Append(inbox, m)) <= MaxInbox
BY AppendProperties, LenProperties, BoundsAssumption

LEMMA EvictKeepsTable == RlInv /\ Evict /\ UNCHANGED told => TableInv'
BY LimitsAssumption DEF RlInv, RlTypeOK, TableInv, Evict, Kept

LEMMA KeptIsTable ==
    RlTypeOK => Kept \in [Backends -> Verdicts \cup {"none"}]
BY DEF RlTypeOK, Kept

LEMMA LaterIsBounded ==
    ASSUME NEW limit \in Nat, NEW n \in 0 .. limit
    PROVE  Later(n, limit) \in 0 .. limit /\ Later(n, limit) >= n
BY DEF Later

-----------------------------------------------------------------------------
LEMMA RlInvInit == Init => RlInv
<1>. SUFFICES ASSUME Init PROVE RlInv
  OBVIOUS
<1>1. <<>> \in Seq(Messages) /\ Len(<<>>) = 0
  BY EmptySeq
<1>2. RlTypeOK
  <2>1. /\ manager \in Policies
        /\ policy \in [version : 0 .. MaxVersion, mode : {"shadow", "hybrid"}, safe : BOOLEAN]
        /\ output \in [mode : {"none", "shadow", "active"}, ranked : SUBSET Backends]
    BY BoundsAssumption, ModesAssumption DEF Init, Policies, DefaultPolicy, NoOutput
  <2>2. outages \in 0 .. MaxOutages
    BY OutagesAssumption, BoundsAssumption DEF Init
  <2>. QED  BY <1>1, <2>1, <2>2, BoundsAssumption, LimitsAssumption
            DEF Init, RlTypeOK, Never
<1>. QED  BY <1>2 DEF Init, RlInv, TableInv

LEMMA RlInvNext == RlInv /\ [Next]_vars => RlInv'
<1>. SUFFICES ASSUME RlInv, [Next]_vars PROVE RlInv'
  OBVIOUS
<1>. USE LimitsAssumption, BoundsAssumption DEF RlInv, RlTypeOK, TableInv, loopVars
<1>1. ASSUME NEW mode \in Modes, NEW safe \in BOOLEAN, Post(mode, safe) PROVE RlInv'
  <2>1. manager' \in Policies
    <3>1. manager.version + 1 \in 0 .. MaxVersion
      BY <1>1 DEF Post, Policies
    <3>. QED  BY <1>1, <3>1 DEF Post, Policies
  <2>2. [kind |-> "policy", body |-> manager'] \in Messages
    BY <2>1 DEF Messages
  <2>3. inbox' \in Seq(Messages) /\ Len(inbox') <= MaxInbox
    BY <1>1, <2>2, InboxAppend DEF Post, Send
  <2>. QED  BY <1>1, <2>1, <2>3 DEF Post
<1>2. ASSUME NEW b \in Backends, NEW status \in {"healthy", "unhealthy"}, Judge(b, status)
      PROVE  RlInv'
  <2>1. [kind |-> "verdict", body |-> <<b, status>>] \in Messages
    BY DEF Messages, Verdicts
  <2>2. inbox' \in Seq(Messages) /\ Len(inbox') <= MaxInbox
    BY <1>2, <2>1, InboxAppend DEF Judge, Send
  <2>. QED  BY <1>2, <2>2 DEF Judge
<1>3. CASE DbDown
  <2>1. outages' \in 0 .. MaxOutages
    BY <1>3 DEF DbDown
  <2>2. conn' \in {"none", "open", "broken", "closed"} /\ db' = FALSE
    BY <1>3 DEF DbDown
  <2>3. UNCHANGED <<manager, inbox, loop, policy, verdict, age, due, quiet, output, told>>
    BY <1>3 DEF DbDown
  <2>. QED  BY <2>1, <2>2, <2>3
<1>4. CASE DbUp
  BY <1>4 DEF DbUp
<1>5. CASE Pull
  BY <1>5, FromPayloadIsPolicy DEF Pull
<1>6. CASE Start
  BY <1>6 DEF Start
<1>7. CASE HandlePolicy
  <2>1. Head(inbox).body \in Policies
    BY <1>7, InboxTail DEF HandlePolicy, Messages
  <2>2. policy' \in [version : 0 .. MaxVersion, mode : {"shadow", "hybrid"}, safe : BOOLEAN]
    BY <1>7, <2>1, FromPayloadIsPolicy DEF HandlePolicy
  <2>. QED  BY <1>7, <2>2, InboxTail DEF HandlePolicy
<1>8. CASE HandleVerdict
  <2>. DEFINE b == Head(inbox).body[1]  status == Head(inbox).body[2]
  <2>1. Head(inbox).body \in Backends \X Verdicts
    BY <1>8, InboxTail DEF HandleVerdict, Messages
  <2>2. b \in Backends /\ status \in Verdicts /\ status # "none"
    BY <2>1 DEF Verdicts
  <2>3. /\ verdict' = [verdict EXCEPT ![b] = status]
        /\ age' = [age EXCEPT ![b] = 0]
        /\ told' = [told EXCEPT ![b] = status]
        /\ inbox' = Tail(inbox)
        /\ UNCHANGED <<manager, loop, db, outages, policy, conn, due, quiet, output>>
    BY <1>8 DEF HandleVerdict
  <2>4. inbox' \in Seq(Messages) /\ Len(inbox') <= MaxInbox
    BY <1>8, <2>3, InboxTail DEF HandleVerdict
  <2>. HIDE DEF b, status
  <2>. QED  BY <2>2, <2>3, <2>4
<1>9. ASSUME NEW rows \in SUBSET Backends,
             NEW local \in [rows -> {"healthy", "unhealthy", "unknown"}],
             Cycle(rows, local)
      PROVE  RlInv'
  <2>1. TableInv' /\ verdict' \in [Backends -> Verdicts \cup {"none"}]
    BY <1>9, EvictKeepsTable, KeptIsTable DEF Cycle, Evict
  <2>2. output' \in [mode : {"none", "shadow", "active"}, ranked : SUBSET Backends]
    <3>1. Ranked(rows, local, Kept) \in SUBSET Backends
      BY DEF Ranked
    <3>2. EffectiveMode(policy) \in {"shadow", "active"}
      BY DEF EffectiveMode
    <3>3. output' = output \/ \E m \in {"shadow", "active"} :
             output' = [mode |-> m, ranked |-> Ranked(rows, local, Kept)]
      BY <1>9, <3>2 DEF Cycle
    <3>. QED  BY <3>1, <3>3
  <2>3. /\ quiet' = 0 /\ due' = FALSE
        /\ UNCHANGED <<manager, inbox, loop, db, outages, policy, conn, told, age>>
    BY <1>9 DEF Cycle, Evict
  <2>4. quiet' \in 0 .. StaleAfter + 1
    BY <2>3
  <2>5. RlTypeOK'
    BY <2>1, <2>2, <2>3, <2>4
  <2>. QED  BY <2>1, <2>5
<1>10. CASE PublishFails
  <2>1. TableInv' /\ verdict' \in [Backends -> Verdicts \cup {"none"}]
    BY <1>10, EvictKeepsTable, KeptIsTable DEF PublishFails, Evict
  <2>. QED  BY <1>10, <2>1 DEF PublishFails, Evict
<1>11. CASE CycleFindsBroken
  <2>1. TableInv' /\ verdict' \in [Backends -> Verdicts \cup {"none"}]
    BY <1>11, EvictKeepsTable, KeptIsTable DEF CycleFindsBroken, Evict
  <2>. QED  BY <1>11, <2>1 DEF CycleFindsBroken, Evict, Reconnect, NotTicked
<1>12. CASE CycleFindsClosed
  <2>1. TableInv' /\ verdict' \in [Backends -> Verdicts \cup {"none"}]
    BY <1>12, EvictKeepsTable, KeptIsTable DEF CycleFindsClosed, Evict
  <2>. QED  BY <1>12, <2>1 DEF CycleFindsClosed, Evict, NotTicked
<1>13. CASE Tick
  <2>1. \A b \in Backends : /\ age'[b] \in 0 .. VerdictTtl + 1
                            /\ age'[b] >= age[b]
    BY <1>13, LaterIsBounded DEF Tick
  <2>2. age' \in [Backends -> 0 .. VerdictTtl + 1]
    BY <1>13, <2>1 DEF Tick
  <2>3. quiet' \in {Never} \cup 0 .. StaleAfter + 1
    BY <1>13, LaterIsBounded DEF Tick
  <2>4. output' \in [mode : {"none", "shadow", "active"}, ranked : SUBSET Backends]
    BY <1>13 DEF Tick, NoOutput
  <2>5. TableInv'
    BY <1>13, <2>1 DEF Tick
  <2>. QED  BY <1>13, <2>2, <2>3, <2>4, <2>5 DEF Tick
<1>14. CASE UNCHANGED vars
  BY <1>14 DEF vars
<1>. QED
  BY <1>1, <1>2, <1>3, <1>4, <1>5, <1>6, <1>7, <1>8, <1>9, <1>10, <1>11, <1>12,
     <1>13, <1>14 DEF Next, SomeCycle

-----------------------------------------------------------------------------
\* Every reachable state is well typed.
THEOREM RlTypeCorrect == Spec => []RlTypeOK
<1>1. RlInv => RlTypeOK
  BY DEF RlInv
<1>. QED  BY RlInvInit, RlInvNext, <1>1, PTL DEF Spec

\* What a cycle ranks follows the last verdict for its time to live, and the
\* telemetry after it.
LEMMA RankingFollowsVerdicts ==
    ASSUME RlInv, NEW rows \in SUBSET Backends \ {{}},
           NEW local \in [rows -> {"healthy", "unhealthy", "unknown"}],
           Cycle(rows, local), NEW b \in rows,
           Cardinality({a \in rows : a <= b}) <= MaxRanked
    PROVE  b \in output'.ranked <=>
              IF told[b] # "none" /\ age[b] <= VerdictTtl
              THEN told[b] \in Eligible
              ELSE local[b] \in Eligible
<1>1. output'.ranked = Ranked(rows, local, Kept)
  BY DEF Cycle
<1>2. b \in output'.ranked <=> HealthOf(b, local, Kept) \in Eligible
  BY <1>1 DEF Ranked
<1>3. b \in Backends
  OBVIOUS
<1>4. Kept[b] = IF told[b] # "none" /\ age[b] <= VerdictTtl THEN told[b] ELSE "none"
  BY <1>3, LimitsAssumption DEF Kept, RlInv, RlTypeOK, TableInv
<1>. QED  BY <1>2, <1>4 DEF HealthOf

\* The time to live of a verdict, for every step of every behaviour.
THEOREM VerdictsHold == Spec => VerdictsHoldTheirTime
<1>. DEFINE Step ==
       \A rows \in SUBSET Backends \ {{}} :
         \A local \in [rows -> {"healthy", "unhealthy", "unknown"}] :
            Cycle(rows, local) => \A b \in rows :
               Cardinality({a \in rows : a <= b}) <= MaxRanked =>
                  (b \in output'.ranked <=>
                     IF told[b] # "none" /\ age[b] <= VerdictTtl
                     THEN told[b] \in Eligible
                     ELSE local[b] \in Eligible)
<1>1. RlInv => Step
  BY RankingFollowsVerdicts
<1>2. RlInv /\ [Next]_vars => [Step]_vars
  BY <1>1
<1>. QED  BY RlInvInit, RlInvNext, <1>2, PTL DEF Spec, VerdictsHoldTheirTime
=============================================================================
