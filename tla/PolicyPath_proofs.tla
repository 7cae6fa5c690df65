-------------------------- MODULE PolicyPath_proofs -------------------------
(* Theorems about PolicyPath, for any threads, services, updates, bounds   *)
(* and deployments.                                                        *)
EXTENDS PolicyPath, SequenceTheorems, TLAPS

USE DEF Fields, Absent

-----------------------------------------------------------------------------
LEMMA BlankPolicies ==
    /\ NoPolicy \in ValidPolicy
    /\ NoPolicy \in Policy
    /\ Garbled \notin Policy
    /\ Idle \in Jobs
BY MaxBackendsAssumption, MaxVersionAssumption
   DEF NoPolicy, Garbled, Policy, ValidPolicy, Values, Ordered, Idle, Jobs

\* What a request is about to write: one version up, whole and ordered.
LEMMA MergedIsValid ==
    ASSUME NEW p \in Policy, NEW u \in Values, p.version < MaxVersion,
           ChecksMerged(p.fields, u)
    PROVE  [version |-> NextVersion(p), fields |-> Merge(p.fields, u)] \in ValidPolicy
<1>1. Merge(p.fields, u) \in Values
  BY DEF Merge, Policy, Values
<1>2. NextVersion(p) \in 0 .. MaxVersion
  BY MaxVersionAssumption DEF NextVersion, Policy
<1>. QED  BY <1>1, <1>2 DEF Policy, ValidPolicy, ChecksMerged

\* A mixture of two policies is a policy, if not an ordered one.
LEMMA OverlaidIsPolicy ==
    ASSUME NEW p \in Policy, NEW q \in Policy, NEW keys
    PROVE  Overlaid(p, q, keys) \in Policy
<1>. DEFINE tail == [f \in Fields |-> IF f \in keys THEN q.fields[f] ELSE Absent]
<1>1. p.fields \in Values /\ q.fields \in Values /\ 0 \in 0 .. MaxBackends
  BY MaxBackendsAssumption DEF Policy
<1>2. Merge(p.fields, tail) \in Values
  BY <1>1 DEF Merge, Values
<1>3. /\ p.version \in 0 .. MaxVersion /\ q.version \in 0 .. MaxVersion
  BY DEF Policy
<1>. QED  BY <1>2, <1>3 DEF Overlaid, Policy

\* What a reader takes the fields of a file for.
LEMMA CompletedFields ==
    ASSUME NEW p \in Policy
    PROVE  /\ WithDefaults(p.fields) \in Values
           /\ Publishable(p) => WithDefaults(p.fields) = p.fields
BY DefaultsAssumption DEF WithDefaults, Publishable, Policy, Values

\* A file that may be published is the same to every service.
LEMMA WholeFileIsSeen ==
    ASSUME NEW c, file \in Policy, Publishable(file)
    PROVE  Seen(c) = file
<1>1. WithDefaults(file.fields) = file.fields
  BY CompletedFields
<1>2. [file EXCEPT !.fields = file.fields] = file
  BY DEF Policy
<1>. QED  BY <1>1, <1>2 DEF Seen

\* What is last in a sequence once its head was taken.
LEMMA LastOfTail ==
    ASSUME NEW S, NEW s \in Seq(S), s # <<>>
    PROVE  /\ Tail(s) # <<>> => Tail(s)[Len(Tail(s))] = s[Len(s)]
           /\ Tail(s) = <<>> => Head(s) = s[Len(s)]
<1>1. /\ Len(s) \in Nat \ {0}
      /\ Tail(s) \in Seq(S)
      /\ Len(Tail(s)) = Len(s) - 1
      /\ \A i \in 1 .. Len(Tail(s)) : Tail(s)[i] = s[i + 1]
  BY EmptySeq, HeadTailProperties
<1>2. ASSUME Tail(s) # <<>> PROVE Tail(s)[Len(Tail(s))] = s[Len(s)]
  <2>1. Len(Tail(s)) \in Nat \ {0}
    BY <1>1, <1>2, EmptySeq
  <2>. QED  BY <1>1, <2>1
<1>3. ASSUME Tail(s) = <<>> PROVE Head(s) = s[Len(s)]
  <2>1. Len(Tail(s)) = 0
    BY <1>3, EmptySeq
  <2>2. Len(s) - 1 = 0 /\ Len(s) \in Nat
    BY <1>1, <2>1
  <2>3. Head(SubSeq(s, 1, Len(s))) = s[1]
    BY <1>1, HeadTailOfSubSeq
  <2>4. Len(s) = 1
    BY <2>2
  <2>. QED  BY <2>3, <2>4, SubSeqFull
<1>. QED  BY <1>2, <1>3

-----------------------------------------------------------------------------
\* PolicyPathTypeOK holds in every state: the version stays in its range and
\* no queue, copy or job ever holds a file that did not parse.
THEOREM PolicyPathTypeCorrect == Spec => []PolicyPathTypeOK
<1>. USE DEF PolicyPathTypeOK
<1>1. ASSUME Init PROVE PolicyPathTypeOK
  <2>1. file \in Policy /\ texts = {file}
    BY <1>1, InitialAssumption DEF Init, ManagerInit, ValidPolicy
  <2>2. job \in [Threads -> Jobs] /\ mount \in Mounts /\ mixed = FALSE
    BY <1>1, BlankPolicies DEF Init, ManagerInit
  <2>3. inbox \in [Consumers -> Seq(Policy)] /\ held \in [Consumers -> Policy]
    BY <1>1, BlankPolicies, EmptySeq DEF Init
  <2>4. /\ link \in [Consumers -> {"absent", "down", "read", "off", "on"}]
        /\ fresh \in [Consumers -> BOOLEAN] /\ guessed = {}
    BY <1>1 DEF Init
  <2>. QED  BY <2>1, <2>2, <2>3, <2>4
<1>2. PolicyPathTypeOK /\ [Next]_vars => PolicyPathTypeOK'
  <2>. SUFFICES ASSUME PolicyPathTypeOK, [Next]_vars PROVE PolicyPathTypeOK'
    OBVIOUS
  <2>. USE BlankPolicies
  <2>1. ASSUME NEW t \in Threads, NEW u \in Updates, Request(t, u)
        PROVE  PolicyPathTypeOK'
    <3>1. /\ file \in Policy /\ u \in Values
          /\ file.version < MaxVersion /\ ChecksMerged(file.fields, u)
      BY <2>1, UpdatesAssumption DEF Request, Load
    <3>. DEFINE new == [version |-> NextVersion(file), fields |-> Merge(file.fields, u)]
    <3>2. new \in Policy
      BY <3>1, MergedIsValid DEF ValidPolicy
    <3>3. job' = [job EXCEPT ![t] = [pc |-> "write", new |-> new]]
      BY <2>1 DEF Request, Load
    <3>4. [pc |-> "write", new |-> new] \in Jobs
      BY <3>2 DEF Jobs
    <3>5. job' \in [Threads -> Jobs]
      BY <3>3, <3>4
    <3>. QED  BY <2>1, <3>5 DEF Request, Load, consumerVars
  <2>2. ASSUME NEW t \in Threads, Save(t) PROVE PolicyPathTypeOK'
    <3>1. job[t].new \in Policy
      BY DEF Jobs
    <3>2. job' \in [Threads -> Jobs]
      <4>1. PICK l \in {"publish", "fill"} : Goto(t, l)
        BY <2>2 DEF Save, Replace, Truncate, Fill
      <4>2. [job[t] EXCEPT !.pc = l] \in Jobs
        BY DEF Jobs
      <4>. QED  BY <4>1, <4>2 DEF Goto
    <3>3. fresh' \in [Consumers -> BOOLEAN]
      BY <2>2 DEF Save, Outdated
    <3>4. CASE Replace(t) \/ Truncate(t)
      BY <2>2, <3>1, <3>2, <3>3, <3>4 DEF Save, Replace, Truncate
    <3>5. CASE Fill(t)
      <4>1. file' \in Policy \cup {Garbled}
        <5>1. ASSUME NEW old \in (IF file = Garbled THEN texts ELSE {file}), NEW keys
              PROVE  Overlaid(job[t].new, old, keys) \in Policy
          BY <3>1, OverlaidIsPolicy
        <5>. QED  BY <3>5, <5>1 DEF Fill
      <4>2. texts' \subseteq Policy /\ mixed' \in BOOLEAN
        BY <3>1, <3>5, <4>1 DEF Fill
      <4>. QED  BY <2>2, <3>2, <3>3, <3>5, <4>1, <4>2 DEF Save, Fill
    <3>. QED  BY <2>2, <3>4, <3>5 DEF Save
  <2>3. ASSUME NEW t \in Threads, Publish(t) PROVE PolicyPathTypeOK'
    <3>1. job[t].new \in Policy
      BY DEF Jobs
    <3>2. job' \in [Threads -> Jobs]
      BY <2>3 DEF Publish, EndPublish, Quit
    <3>3. inbox' \in [Consumers -> Seq(Policy)]
      BY <2>3, <3>1, AppendProperties DEF Publish
    <3>4. fresh' \in [Consumers -> BOOLEAN]
      BY <2>3 DEF Publish
    <3>. QED  BY <2>3, <3>2, <3>3, <3>4 DEF Publish, EndPublish
  <2>4. ASSUME NEW t \in Threads, PublishLost(t) PROVE PolicyPathTypeOK'
    BY <2>4 DEF PublishLost, EndPublish, Quit, consumerVars
  <2>5. CASE Fail
    BY <2>5 DEF Fail, ManagerCrash, WriteFails, Quit, consumerVars
  <2>6. ASSUME NEW c \in Consumers, Receive(c) PROVE PolicyPathTypeOK'
    <3>1. Head(inbox[c]) \in Policy /\ Tail(inbox[c]) \in Seq(Policy)
      BY <2>6, HeadTailProperties DEF Receive
    <3>2. Adopted(c, Head(inbox[c])) \in Policy
      BY <3>1 DEF Adopted
    <3>. QED  BY <2>6, <3>1, <3>2 DEF Receive, managerVars
  <2>7. ASSUME NEW c \in Consumers, ReadFields(c) \/ ReadVersion(c)
        PROVE  PolicyPathTypeOK'
    <3>1. file \in Policy /\ held[c] \in Policy
      BY <2>7 DEF ReadFields, ReadVersion
    <3>2. /\ [held[c] EXCEPT !.fields = WithDefaults(file.fields)] \in Policy
          /\ [held[c] EXCEPT !.version = file.version] \in Policy
      BY <3>1, CompletedFields DEF Policy
    <3>3. held' \in [Consumers -> Policy]
      BY <2>7, <3>2 DEF ReadFields, ReadVersion
    <3>. QED  BY <2>7, <3>3 DEF ReadFields, ReadVersion, managerVars
  <2>8. ASSUME NEW c \in Consumers, Pull(c) PROVE PolicyPathTypeOK'
    BY <2>8 DEF Pull, managerVars
  <2>9. ASSUME NEW c \in Consumers, Start(c) \/ Subscribe(c) PROVE PolicyPathTypeOK'
    BY <2>9 DEF Start, Subscribe, managerVars
  <2>10. ASSUME NEW c \in Consumers, Disconnect(c) \/ Restart(c) PROVE PolicyPathTypeOK'
    <3>1. inbox' \in [Consumers -> Seq(Policy)]
      <4>1. <<>> \in Seq(Policy)
        BY EmptySeq
      <4>2. inbox' = [inbox EXCEPT ![c] = <<>>]
        BY <2>10 DEF Disconnect, Restart
      <4>. QED  BY <4>1, <4>2
    <3>2. fresh' \in [Consumers -> BOOLEAN] /\ held' \in [Consumers -> Policy]
      BY <2>10 DEF Disconnect, Restart
    <3>. QED  BY <2>10, <3>1, <3>2 DEF Disconnect, Restart, managerVars
  <2>11. CASE UNCHANGED vars
    BY <2>11 DEF vars, managerVars, consumerVars
  <2>. QED  BY <2>1, <2>2, <2>3, <2>4, <2>5, <2>6, <2>7, <2>8, <2>9, <2>10,
               <2>11 DEF Next, ConsumerStep
<1>. QED  BY <1>1, <1>2, PTL DEF Spec

-----------------------------------------------------------------------------
\* What is put on the channel.
Offers == {p \in ValidPolicy : Publishable(p)}

\* What makes the bounds' order and the register inductive: the file is what
\* was last written or a mixture of it, and whatever a request is about to
\* write and the channel carries is valid.
PathInv ==
    /\ texts # {}
    /\ file # Garbled => file \in texts
    /\ mixed \/ texts \subseteq ValidPolicy
    /\ \A t \in Threads : job[t].new \in ValidPolicy
    /\ inbox \in [Consumers -> Seq(Offers)]
    /\ \A c \in Consumers : \/ Ordered(held[c].fields)
                            \/ mixed /\ c \in Readers \cup Pullers
                            \/ c \in guessed
    /\ \A c \in Consumers : link[c] \in {"absent", "down"} => held[c] = NoPolicy
    /\ \A c \in Consumers : link[c] = "read" => c \in Readers

\* A sequence is one over any set its elements are in.
LEMMA ListedIn ==
    ASSUME NEW S, NEW T, NEW s \in Seq(S), \A i \in DOMAIN s : s[i] \in T
    PROVE  s \in Seq(T)
<1>1. Len(s) \in Nat /\ DOMAIN s = 1 .. Len(s) /\ s \in [1 .. Len(s) -> S]
  BY LenProperties
<1>2. s \in [1 .. Len(s) -> T]
  BY <1>1
<1>. QED  BY <1>1, <1>2, SeqDef

LEMMA GotoMoves ==
    ASSUME job \in [Threads -> Jobs], NEW t \in Threads, NEW l,
           job' = [job EXCEPT ![t].pc = l]
    PROVE  /\ job'[t].new = job[t].new /\ job'[t].pc = l
           /\ \A s \in Threads \ {t} : job'[s] = job[s]
<1>1. [job[t] EXCEPT !.pc = l].new = job[t].new /\ [job[t] EXCEPT !.pc = l].pc = l
  BY DEF Jobs
<1>. QED  BY <1>1

LEMMA PathInvCorrect == Spec => []PathInv
<1>. USE DEF PathInv
<1>1. ASSUME Init PROVE PathInv
  <2>1. file \in ValidPolicy /\ texts = {file}
    BY <1>1, InitialAssumption DEF Init, ManagerInit
  <2>2. \A t \in Threads : job[t].new \in ValidPolicy
    BY <1>1, BlankPolicies DEF Init, ManagerInit, Idle
  <2>3. inbox \in [Consumers -> Seq(Offers)]
    BY <1>1, EmptySeq DEF Init
  <2>4. \A c \in Consumers : held[c] = NoPolicy /\ link[c] \in {"absent", "down"}
    BY <1>1 DEF Init
  <2>5. Ordered(NoPolicy.fields)
    BY BlankPolicies DEF ValidPolicy
  <2>. QED  BY <2>1, <2>2, <2>3, <2>4, <2>5
<1>2. PolicyPathTypeOK /\ PathInv /\ [Next]_vars => PathInv'
  <2>. SUFFICES ASSUME PolicyPathTypeOK, PathInv, [Next]_vars PROVE PathInv'
    OBVIOUS
  <2>. USE BlankPolicies DEF PolicyPathTypeOK
  <2>1. ASSUME NEW t \in Threads, NEW u \in Updates, Request(t, u) PROVE PathInv'
    <3>1. /\ file \in Policy /\ u \in Values
          /\ file.version < MaxVersion /\ ChecksMerged(file.fields, u)
      BY <2>1, UpdatesAssumption DEF Request, Load
    <3>. DEFINE new == [version |-> NextVersion(file), fields |-> Merge(file.fields, u)]
    <3>2. new \in ValidPolicy
      BY <3>1, MergedIsValid
    <3>3. job' = [job EXCEPT ![t] = [pc |-> "write", new |-> new]]
      BY <2>1 DEF Request, Load
    <3>4. UNCHANGED <<file, texts, mixed, consumerVars>>
      BY <2>1 DEF Request, Load
    <3>. HIDE DEF new
    <3>. QED  BY <3>2, <3>3, <3>4 DEF consumerVars
  <2>2. ASSUME NEW t \in Threads, Save(t) PROVE PathInv'
    <3>1. PICK l \in {"publish", "fill"} : Goto(t, l)
      BY <2>2 DEF Save, Replace, Truncate, Fill
    <3>2. /\ texts' # {}
          /\ file' # Garbled => file' \in texts'
          /\ mixed' \/ texts' \subseteq ValidPolicy
          /\ mixed => mixed'
      <4>1. CASE Replace(t) \/ Truncate(t)
        BY <4>1 DEF Replace, Truncate
      <4>2. CASE Fill(t)
        BY <4>2 DEF Fill
      <4>. QED  BY <2>2, <4>1, <4>2 DEF Save
    <3>3. /\ job'[t].new = job[t].new
          /\ \A s \in Threads \ {t} : job'[s] = job[s]
      BY <3>1, GotoMoves DEF Goto
    <3>4. UNCHANGED <<inbox, held, link, guessed>>
      BY <2>2 DEF Save
    <3>5. \A s \in Threads : job'[s].new \in ValidPolicy
      BY <3>3
    <3>. QED  BY <3>2, <3>4, <3>5
  <2>3. ASSUME NEW t \in Threads, Publish(t) PROVE PathInv'
    <3>1. job[t].new \in Offers
      BY <2>3 DEF Publish, Offers
    <3>2. inbox' \in [Consumers -> Seq(Offers)]
      BY <2>3, <3>1, AppendProperties DEF Publish
    <3>3. \A s \in Threads : job'[s].new \in ValidPolicy
      BY <2>3 DEF Publish, EndPublish, Quit, Idle
    <3>. QED  BY <2>3, <3>2, <3>3 DEF Publish, EndPublish
  <2>4. ASSUME NEW t \in Threads, PublishLost(t) PROVE PathInv'
    <3>1. \A s \in Threads : job'[s].new \in ValidPolicy
      BY <2>4 DEF PublishLost, EndPublish, Quit, Idle
    <3>. QED  BY <2>4, <3>1 DEF PublishLost, EndPublish, consumerVars
  <2>5. CASE Fail
    <3>1. \A t \in Threads : job'[t] \in {job[t], Idle}
      BY <2>5 DEF Fail, ManagerCrash, WriteFails, Quit
    <3>2. \A t \in Threads : job'[t].new \in ValidPolicy
      BY <3>1 DEF Idle
    <3>3. UNCHANGED <<file, texts, mixed, inbox, held, link, guessed>>
      BY <2>5 DEF Fail, ManagerCrash, WriteFails, consumerVars
    <3>. QED  BY <3>2, <3>3
  <2>6. ASSUME NEW c \in Consumers, Receive(c) PROVE PathInv'
    <3>. DEFINE p == Head(inbox[c])
    <3>1. /\ p \in Offers /\ Tail(inbox[c]) \in Seq(Offers)
          /\ link[c] = "on"
      BY <2>6, HeadTailProperties DEF Receive
    <3>2. inbox' \in [Consumers -> Seq(Offers)]
      BY <2>6, <3>1 DEF Receive
    <3>3. Ordered(p.fields)
      BY <3>1 DEF Offers, ValidPolicy
    <3>4. /\ held' = [held EXCEPT ![c] = Adopted(c, p)]
          /\ guessed' = IF held'[c] = p THEN guessed \ {c} ELSE guessed
          /\ UNCHANGED <<managerVars, link>>
      BY <2>6 DEF Receive
    <3>. HIDE DEF p
    <3>5. held'[c] \in {held[c], p} /\ \A d \in Consumers \ {c} : held'[d] = held[d]
      BY <3>4 DEF Adopted
    <3>6. \A d \in Consumers : \/ Ordered(held'[d].fields)
                               \/ mixed /\ d \in Readers \cup Pullers
                               \/ d \in guessed'
      BY <3>3, <3>4, <3>5
    <3>7. \A d \in Consumers : link[d] \in {"absent", "down"} => held'[d] = NoPolicy
      BY <3>1, <3>5
    <3>. QED  BY <3>2, <3>4, <3>6, <3>7 DEF managerVars
  <2>7. ASSUME NEW c \in Consumers, ReadFields(c) PROVE PathInv'
    <3>1. /\ file \in Policy /\ file \in texts /\ c \in Readers
          /\ held' = [held EXCEPT ![c].fields = WithDefaults(file.fields)]
          /\ guessed' = IF Publishable(file) THEN guessed ELSE guessed \cup {c}
          /\ link' = [link EXCEPT ![c] = "read"]
          /\ UNCHANGED <<managerVars, inbox>>
      BY <2>7 DEF ReadFields
    <3>2. held'[c].fields = WithDefaults(file.fields)
      BY <3>1 DEF Policy
    <3>3. mixed \/ c \in guessed' \/ Ordered(held'[c].fields)
      BY <3>1, <3>2, CompletedFields DEF ValidPolicy
    <3>4. \A d \in Consumers : \/ Ordered(held'[d].fields)
                               \/ mixed /\ d \in Readers \cup Pullers
                               \/ d \in guessed'
      BY <3>1, <3>3
    <3>5. \A d \in Consumers : /\ link'[d] \in {"absent", "down"} => held'[d] = NoPolicy
                               /\ link'[d] = "read" => d \in Readers
      BY <3>1
    <3>. QED  BY <3>1, <3>4, <3>5 DEF managerVars
  <2>12. ASSUME NEW c \in Consumers, ReadVersion(c) PROVE PathInv'
    <3>1. /\ link[c] = "read"
          /\ held' = [held EXCEPT ![c].version = file.version]
          /\ link' = [link EXCEPT ![c] = "off"]
          /\ UNCHANGED <<managerVars, inbox, guessed>>
      BY <2>12 DEF ReadVersion
    <3>2. \A d \in Consumers : held'[d].fields = held[d].fields
      BY <3>1 DEF Policy
    <3>3. \A d \in Consumers : /\ link'[d] \in {"absent", "down"} => held'[d] = NoPolicy
                               /\ link'[d] = "read" => d \in Readers
      BY <3>1
    <3>. QED  BY <3>1, <3>2, <3>3 DEF managerVars
  <2>8. ASSUME NEW c \in Consumers, Pull(c) PROVE PathInv'
    <3>1. mixed \/ Ordered(file.fields)
      BY <2>8 DEF Pull, ValidPolicy
    <3>2. \A d \in Consumers : \/ Ordered(held'[d].fields)
                               \/ mixed /\ d \in Readers \cup Pullers
                               \/ d \in guessed
      BY <2>8, <3>1 DEF Pull
    <3>3. \A d \in Consumers : /\ link'[d] \in {"absent", "down"} => held'[d] = NoPolicy
                               /\ link'[d] = "read" => d \in Readers
      BY <2>8 DEF Pull
    <3>. QED  BY <2>8, <3>2, <3>3 DEF Pull, managerVars
  <2>9. ASSUME NEW c \in Consumers, Start(c) \/ Subscribe(c) PROVE PathInv'
    BY <2>9 DEF Start, Subscribe, managerVars
  <2>10. ASSUME NEW c \in Consumers, Disconnect(c) \/ Restart(c) PROVE PathInv'
    <3>1. <<>> \in Seq(Offers)
      BY EmptySeq
    <3>2. inbox' = [inbox EXCEPT ![c] = <<>>]
      BY <2>10 DEF Disconnect, Restart
    <3>3. inbox' \in [Consumers -> Seq(Offers)]
      BY <3>1, <3>2
    <3>4. UNCHANGED managerVars
      BY <2>10 DEF Disconnect, Restart
    <3>5. \A d \in Consumers :
              /\ \/ held'[d] = NoPolicy
                 \/ held'[d] = held[d] /\ (d \in guessed => d \in guessed')
              /\ link'[d] \in {"absent", "down"} => held'[d] = NoPolicy
              /\ link'[d] = "read" => d \in Readers
      BY <2>10 DEF Disconnect, Restart
    <3>6. Ordered(NoPolicy.fields)
      BY DEF ValidPolicy
    <3>. QED  BY <3>3, <3>4, <3>5, <3>6 DEF managerVars
  <2>11. CASE UNCHANGED vars
    BY <2>11 DEF vars, managerVars, consumerVars
  <2>. QED  BY <2>1, <2>2, <2>3, <2>4, <2>5, <2>6, <2>7, <2>8, <2>9, <2>10,
               <2>11, <2>12 DEF Next, ConsumerStep
<1>. QED  BY <1>1, <1>2, PolicyPathTypeCorrect, PTL DEF Spec

\* BoundsAreOrdered: min_backends never exceeds max_backends on the channel,
\* however the requests of policy-manager's threads interleave and whichever
\* writes fail; nor on disk or at a service, unless writes in place have
\* overlapped or a reader works by a default of its own.
THEOREM BoundsOrdered == Spec => []BoundsAreOrdered
<1>1. PathInv => BoundsAreOrdered
  <2>. SUFFICES ASSUME PathInv PROVE BoundsAreOrdered
    OBVIOUS
  <2>1. mixed \/ Ordered(file.fields)
    BY DEF PathInv, ValidPolicy, Garbled, Ordered
  <2>2. ASSUME NEW c \in Consumers, NEW i \in DOMAIN inbox[c]
        PROVE  Ordered(inbox[c][i].fields)
    <3>1. inbox[c] \in Seq(Offers)
      BY DEF PathInv
    <3>2. inbox[c][i] \in Offers
      BY <3>1, ElementOfSeq, LenProperties
    <3>. QED  BY <3>2 DEF Offers, ValidPolicy
  <2>. QED  BY <2>1, <2>2 DEF PathInv, BoundsAreOrdered
<1>. QED  BY <1>1, PathInvCorrect, PTL

-----------------------------------------------------------------------------
\* What is on offer, part by part.
LEMMA OfferedParts ==
    \A p : p \in Offered <=>
        \/ p \in texts
        \/ \E t \in Threads : job[t].pc = "publish" /\ p = job[t].new
        \/ \E c \in Consumers : \E i \in DOMAIN inbox[c] : p = inbox[c][i]
BY DEF Offered

\* Nothing new is on offer when no text, no request about to publish and no
\* message is new.
LEMMA NothingNew ==
    ASSUME texts' \subseteq texts,
           \A t \in Threads : job'[t].pc = "publish" => job'[t] = job[t],
           \A c \in Consumers : \A i \in DOMAIN inbox'[c] : inbox'[c][i] \in Offered
    PROVE  Register!Withdraw
<1>1. ASSUME NEW p \in Offered' PROVE p \in Offered
  <2>1. CASE p \in texts'
    BY <2>1 DEF Offered
  <2>2. CASE \E t \in Threads : job'[t].pc = "publish" /\ p = job'[t].new
    <3>1. PICK t \in Threads : job[t].pc = "publish" /\ p = job[t].new
      BY <2>2
    <3>. QED  BY <3>1, OfferedParts
  <2>3. CASE \E c \in Consumers : \E i \in DOMAIN inbox'[c] : p = inbox'[c][i]
    BY <2>3
  <2>4. \/ p \in texts'
        \/ \E t \in Threads : job'[t].pc = "publish" /\ p = job'[t].new
        \/ \E c \in Consumers : \E i \in DOMAIN inbox'[c] : p = inbox'[c][i]
    BY DEF Offered
  <2>. QED  BY <2>1, <2>2, <2>3, <2>4
<1>. QED  BY <1>1 DEF Register!Withdraw

\* A text left over another has each of its parts from one of the two.
LEMMA OverlaidIsBlend ==
    ASSUME NEW p \in Policy, NEW q \in Policy, NEW keys
    PROVE  Register!Blend(Overlaid(p, q, keys), p, q)
BY DEF Register!Blend, Overlaid, Merge, Policy, Values

\* ImplementsRegister: every step of the manager's threads, the channel and
\* the services is a step of the register.
THEOREM PathImplementsRegister == Spec => ImplementsRegister
<1>. DEFINE Step == [Register!Next]_<<Offered, held>>
<1>1. Init => Register!Init
  <2>. SUFFICES ASSUME Init PROVE Register!Init
    OBVIOUS
  <2>1. ASSUME NEW p \in Offered PROVE p \in ValidPolicy
    <3>1. p \in texts
      BY OfferedParts DEF Init, ManagerInit, Idle
    <3>. QED  BY <3>1, InitialAssumption DEF Init, ManagerInit
  <2>. QED  BY <2>1 DEF Init, Register!Init
<1>2. PolicyPathTypeOK /\ PathInv /\ [Next]_vars => Step
  <2>. SUFFICES ASSUME PolicyPathTypeOK, PathInv, [Next]_vars PROVE Step
    OBVIOUS
  <2>1. \A c \in Consumers : \A i \in DOMAIN inbox[c] : inbox[c][i] \in Offered
    BY OfferedParts
  <2>2. ASSUME Register!Withdraw, UNCHANGED held PROVE Step
    BY <2>2 DEF Register!Next
  <2>3. ASSUME UNCHANGED <<texts, job, inbox>> PROVE Register!Withdraw
    BY <2>3 DEF Offered, Register!Withdraw
  <2>4. ASSUME NEW t \in Threads, NEW u \in Updates, Request(t, u) PROVE Step
    <3>1. UNCHANGED <<texts, inbox, held>>
      BY <2>4 DEF Request, Load, consumerVars
    <3>2. \A s \in Threads : job'[s].pc = "publish" => job'[s] = job[s]
      BY <2>4 DEF Request, Load, PolicyPathTypeOK
    <3>3. Register!Withdraw
      BY <2>1, <3>1, <3>2, NothingNew
    <3>. QED  BY <2>2, <3>1, <3>3
  <2>5. ASSUME NEW t \in Threads, Save(t) PROVE Step
    <3>. DEFINE new == job[t].new
    <3>1. UNCHANGED <<inbox, held>> /\ new \in ValidPolicy
      BY <2>5 DEF Save, PathInv
    <3>2. PICK l \in {"publish", "fill"} : Goto(t, l)
      BY <2>5 DEF Save, Replace, Truncate, Fill
    <3>3. /\ job'[t].new = job[t].new
          /\ \A s \in Threads \ {t} : job'[s] = job[s]
      BY <3>2, GotoMoves DEF Goto, PolicyPathTypeOK
    <3>4. \A r \in Offered' \ Offered : r \in texts' \/ r = new
      <4>. SUFFICES ASSUME NEW r \in Offered', r \notin Offered, r \notin texts'
                    PROVE  r = new
        OBVIOUS
      <4>1. \/ \E s \in Threads : job'[s].pc = "publish" /\ r = job'[s].new
            \/ \E c \in Consumers : \E i \in DOMAIN inbox'[c] : r = inbox'[c][i]
        BY DEF Offered
      <4>2. ~ \E c \in Consumers : \E i \in DOMAIN inbox'[c] : r = inbox'[c][i]
        BY <2>1, <3>1
      <4>3. PICK s \in Threads : job'[s].pc = "publish" /\ r = job'[s].new
        BY <4>1, <4>2
      <4>4. s \in Threads \ {t} => r \in Offered
        BY <3>3, <4>3, OfferedParts
      <4>. QED  BY <3>3, <4>3, <4>4
    <3>. HIDE DEF new
    <3>5. CASE Truncate(t)
      <4>1. Goto(t, "fill") /\ texts' = {NoPolicy}
        BY <3>5 DEF Truncate
      <4>2. job'[t].pc = "fill"
        BY <4>1, GotoMoves DEF Goto, PolicyPathTypeOK
      <4>3. \A r \in Offered' \ Offered : r = NoPolicy
        <5>. SUFFICES ASSUME NEW r \in Offered', r \notin Offered, r \notin texts'
                      PROVE  FALSE
          BY <4>1
        <5>1. \/ \E s \in Threads : job'[s].pc = "publish" /\ r = job'[s].new
              \/ \E c \in Consumers : \E i \in DOMAIN inbox'[c] : r = inbox'[c][i]
          BY DEF Offered
        <5>2. PICK s \in Threads : job'[s].pc = "publish" /\ r = job'[s].new
          BY <2>1, <3>1, <5>1
        <5>3. s \in Threads \ {t}
          BY <4>2, <5>2
        <5>. QED  BY <3>3, <5>2, <5>3, OfferedParts
      <4>4. PICK q \in texts : TRUE
        BY DEF PathInv
      <4>5. q \in Offered /\ Register!Write(NoPolicy, q)
        BY <3>1, <4>3, <4>4, OfferedParts DEF Register!Write
      <4>. QED  BY <4>5, BlankPolicies DEF Register!Next
    <3>6. CASE Replace(t)
      <4>1. texts' = {new}
        BY <3>6 DEF Replace, new
      <4>2. PICK q \in texts : TRUE
        BY DEF PathInv
      <4>3. q \in Offered /\ Register!Write(new, q)
        BY <3>1, <3>4, <4>1, <4>2, OfferedParts DEF Register!Write
      <4>. QED  BY <3>1, <4>3 DEF Register!Next
    <3>7. CASE Fill(t)
      <4>1. texts' = texts \cup ({new, file'} \ {Garbled})
        BY <3>7 DEF Fill, new
      <4>2. PICK old \in texts : file' = Garbled \/ Register!Blend(file', new, old)
        <5>1. CASE file' = Garbled
          BY <5>1 DEF PathInv
        <5>2. CASE file' # Garbled
          <6>1. PICK old \in (IF file = Garbled THEN texts ELSE {file}), keys \in Tails :
                    file' = Overlaid(new, old, keys)
            BY <3>7, <5>2 DEF Fill, new
          <6>2. old \in texts
            BY <6>1 DEF PathInv
          <6>3. old \in Policy /\ new \in Policy
            BY <3>1, <6>2 DEF PolicyPathTypeOK, ValidPolicy
          <6>4. Register!Blend(file', new, old)
            BY <6>1, <6>3, OverlaidIsBlend
          <6>. QED  BY <6>2, <6>4
        <5>. QED  BY <5>1, <5>2
      <4>3. \A r \in Offered' \ Offered : r = new \/ Register!Blend(r, new, old)
        BY <3>4, <4>1, <4>2, OfferedParts
      <4>4. old \in Offered /\ Register!Write(new, old)
        BY <3>1, <4>2, <4>3, OfferedParts DEF Register!Write
      <4>. QED  BY <3>1, <4>4 DEF Register!Next
    <3>. QED  BY <2>5, <3>5, <3>6, <3>7 DEF Save
  <2>6. ASSUME NEW t \in Threads, Publish(t) \/ PublishLost(t) PROVE Step
    <3>1. UNCHANGED <<texts, held>> /\ job[t].pc = "publish" /\ Quit(t)
      BY <2>6 DEF Publish, PublishLost, EndPublish, consumerVars
    <3>2. \A s \in Threads : job'[s].pc = "publish" => job'[s] = job[s]
      BY <3>1 DEF Quit, Idle, PolicyPathTypeOK
    <3>3. ASSUME NEW c \in Consumers, NEW i \in DOMAIN inbox'[c]
          PROVE  inbox'[c][i] \in Offered
      <4>1. job[t].new \in Offered
        BY <3>1, OfferedParts
      <4>2. inbox'[c] \in {inbox[c], Append(inbox[c], job[t].new)}
        BY <2>6 DEF Publish, PublishLost, consumerVars
      <4>3. inbox[c] \in Seq(Offered)
        BY <2>1, ListedIn DEF PolicyPathTypeOK
      <4>4. inbox'[c] \in Seq(Offered)
        <5>1. Append(inbox[c], job[t].new) \in Seq(Offered)
          BY <4>1, <4>3, AppendProperties
        <5>. QED  BY <4>2, <4>3, <5>1
      <4>5. \A S : \A q \in Seq(S) : \A k \in DOMAIN q : q[k] \in S
        BY ElementOfSeq, LenProperties
      <4>. QED  BY <4>4, <4>5
    <3>4. Register!Withdraw
      BY <3>1, <3>2, <3>3, NothingNew
    <3>. QED  BY <2>2, <3>1, <3>4
  <2>7. CASE Fail
    <3>1. UNCHANGED <<texts, inbox, held>>
      BY <2>7 DEF Fail, ManagerCrash, WriteFails, consumerVars
    <3>2. \A s \in Threads : job'[s].pc = "publish" => job'[s] = job[s]
      BY <2>7 DEF Fail, ManagerCrash, WriteFails, Quit, Idle, PolicyPathTypeOK
    <3>3. Register!Withdraw
      BY <2>1, <3>1, <3>2, NothingNew
    <3>. QED  BY <2>2, <3>1, <3>3
  <2>8. ASSUME NEW c \in Consumers, Receive(c) PROVE Step
    <3>. DEFINE p == Head(inbox[c])
    <3>1. /\ p \in Offered
          /\ \A i \in DOMAIN Tail(inbox[c]) : Tail(inbox[c])[i] \in Offered
      <4>1. inbox[c] \in Seq(Policy) /\ inbox[c] # <<>>
        BY <2>8 DEF Receive, PolicyPathTypeOK
      <4>3. inbox[c] \in Seq(Offered)
        BY <2>1, <4>1, ListedIn
      <4>. QED  BY <4>1, <4>3, HeadTailProperties, ElementOfSeq, LenProperties
    <3>2. /\ held' = [held EXCEPT ![c] = Adopted(c, p)]
          /\ inbox' = [inbox EXCEPT ![c] = Tail(inbox[c])]
          /\ UNCHANGED <<texts, job>>
      BY <2>8 DEF Receive, managerVars
    <3>. HIDE DEF p
    <3>3. Register!Withdraw
      <4>1. \A d \in Consumers : \A i \in DOMAIN inbox'[d] : inbox'[d][i] \in Offered
        BY <2>1, <3>1, <3>2 DEF PolicyPathTypeOK
      <4>. QED  BY <3>2, <4>1, NothingNew
    <3>4. CASE c \in Comparing /\ p.version < held[c].version
      <4>1. UNCHANGED held
        BY <3>2, <3>4 DEF Adopted, PolicyPathTypeOK
      <4>. QED  BY <2>2, <3>3, <4>1
    <3>5. CASE ~(c \in Comparing /\ p.version < held[c].version)
      <4>1. held' = [held EXCEPT ![c] = p]
        BY <3>2, <3>5 DEF Adopted
      <4>2. held[c].version \in Int /\ p.version \in Int
        <5>1. p \in Policy
          BY <2>8, HeadTailProperties DEF p, Receive, PolicyPathTypeOK
        <5>. QED  BY <5>1 DEF PolicyPathTypeOK, Policy
      <4>3. c \in Comparing => held[c].version <= p.version
        BY <3>5, <4>2
      <4>4. Register!Take(c, p)
        BY <3>3, <4>1, <4>3 DEF Register!Take
      <4>. QED  BY <3>1, <4>4 DEF Register!Next
    <3>. QED  BY <3>4, <3>5
  <2>9. ASSUME NEW c \in Consumers, ReadFields(c) PROVE Step
    <3>1. file \in Offered /\ file.fields \in Values /\ c \in Readers
      BY <2>9, OfferedParts DEF ReadFields, PathInv, PolicyPathTypeOK, Policy
    <3>2. Register!Withdraw
      BY <2>3, <2>9 DEF ReadFields, managerVars
    <3>3. held' = [held EXCEPT ![c].fields =
                       [v \in Values |-> WithDefaults(v)][file.fields]]
      BY <2>9, <3>1 DEF ReadFields
    <3>4. Register!TakeFields(c, file)
      BY <3>1, <3>2, <3>3 DEF Register!TakeFields
    <3>. QED  BY <3>1, <3>4 DEF Register!Next
  <2>10. ASSUME NEW c \in Consumers, ReadVersion(c) PROVE Step
    <3>1. file \in Offered
      BY <2>10, OfferedParts DEF ReadVersion, PathInv
    <3>2. Register!Withdraw
      BY <2>3, <2>10 DEF ReadVersion, managerVars
    <3>3. Register!TakeVersion(c, file)
      BY <2>10, <3>2 DEF ReadVersion, PathInv, Register!TakeVersion
    <3>. QED  BY <3>1, <3>3 DEF Register!Next
  <2>11. ASSUME NEW c \in Consumers, Pull(c) PROVE Step
    <3>1. file \in Offered /\ held[c] = NoPolicy
      BY <2>11, OfferedParts DEF Pull, PathInv
    <3>2. held[c].version <= file.version
      BY <2>11, <3>1 DEF Pull, NoPolicy, PolicyPathTypeOK, Policy
    <3>3. Register!Withdraw
      BY <2>3, <2>11 DEF Pull, managerVars
    <3>4. Register!Take(c, file)
      BY <2>11, <3>2, <3>3 DEF Pull, Register!Take
    <3>. QED  BY <3>1, <3>4 DEF Register!Next
  <2>12. ASSUME NEW c \in Consumers, Start(c) \/ Subscribe(c) PROVE Step
    BY <2>2, <2>3, <2>12 DEF Start, Subscribe, managerVars
  <2>13. ASSUME NEW c \in Consumers, Disconnect(c) \/ Restart(c) PROVE Step
    <3>1. UNCHANGED <<texts, job>> /\ inbox' = [inbox EXCEPT ![c] = <<>>]
      BY <2>13 DEF Disconnect, Restart, managerVars
    <3>2. \A d \in Consumers : inbox'[d] \in {<<>>, inbox[d]}
      BY <3>1 DEF PolicyPathTypeOK
    <3>3. \A d \in Consumers : \A i \in DOMAIN inbox'[d] : inbox'[d][i] \in Offered
      BY <2>1, <3>2
    <3>4. Register!Withdraw
      BY <3>1, <3>3, NothingNew
    <3>5. CASE Disconnect(c)
      BY <2>2, <3>4, <3>5 DEF Disconnect
    <3>6. CASE Restart(c)
      <4>1. Register!Forget(c)
        BY <3>4, <3>6 DEF Restart, Register!Forget
      <4>. QED  BY <4>1 DEF Register!Next
    <3>. QED  BY <2>13, <3>5, <3>6
  <2>14. CASE UNCHANGED vars
    BY <2>2, <2>3, <2>14 DEF vars, managerVars, consumerVars
  <2>. QED  BY <2>4, <2>5, <2>6, <2>7, <2>8, <2>9, <2>10, <2>11, <2>12, <2>13,
               <2>14 DEF Next, ConsumerStep
<1>. QED  BY <1>1, <1>2, PolicyPathTypeCorrect, PathInvCorrect, PTL
          DEF Spec, ImplementsRegister

-----------------------------------------------------------------------------
\* The policy c works by is the file as it reads it, or one of a version taken
\* back since.
Agrees(c) == \/ held[c] = Seen(c)
             \/ c \in Comparing /\ held[c].version > file.version

\* What makes FreshServicesAgree inductive: a fresh service is past its
\* first read, and the last message that waits for it, if any, is the file.
FreshInv ==
    \A c \in Consumers :
        /\ link[c] # "on" => inbox[c] = <<>>
        /\ fresh[c] =>
              /\ link[c] \in {"off", "on"}
              /\ inbox[c] # <<>> => inbox[c][Len(inbox[c])] = file
              /\ inbox[c] = <<>> => Agrees(c)

\* FreshServicesAgree: a service that was last handed what is in the file now
\* and has no message left works by the file, or by a higher version.
THEOREM FreshAgree == Spec => []FreshServicesAgree
<1>1. Init => FreshInv
  BY DEF Init, FreshInv
<1>2. PolicyPathTypeOK /\ PathInv /\ FreshInv /\ [Next]_vars => FreshInv'
  <2>. SUFFICES ASSUME PolicyPathTypeOK, PathInv, FreshInv, [Next]_vars PROVE FreshInv'
    OBVIOUS
  <2>. USE DEF FreshInv, Agrees, Seen
  <2>1. ASSUME NEW t \in Threads, NEW u \in Updates, Request(t, u) PROVE FreshInv'
    BY <2>1 DEF Request, Load, consumerVars
  <2>2. ASSUME NEW t \in Threads, Save(t) PROVE FreshInv'
    BY <2>2 DEF Save, Outdated
  <2>3. ASSUME NEW t \in Threads, Publish(t) PROVE FreshInv'
    <3>1. UNCHANGED <<file, link, held>>
      BY <2>3 DEF Publish, EndPublish
    <3>2. ASSUME NEW c \in On
          PROVE  /\ inbox'[c] # <<>>
                 /\ inbox'[c][Len(inbox'[c])] = job[t].new
      <4>1. c \in Consumers /\ inbox[c] \in Seq(Policy) /\ job[t].new \in Policy
        BY DEF On, PolicyPathTypeOK, Jobs
      <4>2. inbox'[c] = Append(inbox[c], job[t].new)
        BY <2>3, <3>2, <4>1 DEF Publish
      <4>. QED  BY <4>1, <4>2, AppendProperties, LenProperties
    <3>3. ASSUME NEW c \in Consumers \ On
          PROVE  inbox'[c] = inbox[c] /\ fresh'[c] = fresh[c]
      BY <2>3 DEF Publish
    <3>4. \A c \in On : fresh'[c] = (job[t].new = file) /\ link[c] = "on" /\ c \in Consumers
      BY <2>3 DEF Publish, On
    <3>5. ASSUME NEW c \in Consumers
          PROVE  /\ link'[c] # "on" => inbox'[c] = <<>>
                 /\ fresh'[c] =>
                       /\ link'[c] \in {"off", "on"}
                       /\ inbox'[c] # <<>> => inbox'[c][Len(inbox'[c])] = file'
                       /\ inbox'[c] = <<>> => Agrees(c)'
      <4>1. CASE c \in On
        BY <3>1, <3>2, <3>4, <4>1
      <4>2. CASE c \notin On
        BY <3>1, <3>3, <4>2
      <4>. QED  BY <4>1, <4>2
    <3>. QED  BY <3>5
  <2>4. ASSUME NEW t \in Threads, PublishLost(t) PROVE FreshInv'
    BY <2>4 DEF PublishLost, EndPublish, consumerVars
  <2>5. CASE Fail
    BY <2>5 DEF Fail, ManagerCrash, WriteFails, consumerVars
  <2>6. ASSUME NEW c \in Consumers, Receive(c) PROVE FreshInv'
    <3>1. /\ inbox[c] # <<>> /\ link[c] = "on" /\ inbox[c] \in Seq(Policy)
          /\ inbox' = [inbox EXCEPT ![c] = Tail(inbox[c])]
          /\ held' = [held EXCEPT ![c] = Adopted(c, Head(inbox[c]))]
          /\ UNCHANGED <<file, link, fresh>>
      BY <2>6 DEF Receive, managerVars, PolicyPathTypeOK
    <3>2. /\ Tail(inbox[c]) # <<>> =>
                Tail(inbox[c])[Len(Tail(inbox[c]))] = inbox[c][Len(inbox[c])]
          /\ Tail(inbox[c]) = <<>> => Head(inbox[c]) = inbox[c][Len(inbox[c])]
      BY <3>1, LastOfTail
    <3>3. inbox'[c] = Tail(inbox[c]) /\ held'[c] = Adopted(c, Head(inbox[c]))
      BY <3>1 DEF PolicyPathTypeOK
    <3>4. Adopted(c, file) = file \/ (c \in Comparing /\ held[c].version > file.version
                                        /\ Adopted(c, file) = held[c])
      <4>1. held[c].version \in Int /\ file.version \in Int
        BY DEF PolicyPathTypeOK, Policy, Garbled
      <4>. QED  BY <4>1 DEF Adopted
    <3>5. fresh[c] /\ inbox'[c] = <<>> => Agrees(c)'
      <4>. SUFFICES ASSUME fresh[c], Tail(inbox[c]) = <<>> PROVE Agrees(c)'
        BY <3>3
      <4>1. Head(inbox[c]) = file /\ Head(inbox[c]) \in Offers
        BY <3>1, <3>2, HeadTailProperties DEF PathInv
      <4>2. Seen(c) = file
        BY <4>1, WholeFileIsSeen DEF Offers, ValidPolicy
      <4>. QED  BY <3>1, <3>3, <3>4, <4>1, <4>2
    <3>6. fresh[c] /\ inbox'[c] # <<>> => inbox'[c][Len(inbox'[c])] = file'
      BY <3>1, <3>2, <3>3
    <3>7. \A d \in Consumers \ {c} : inbox'[d] = inbox[d] /\ held'[d] = held[d]
      BY <3>1 DEF PolicyPathTypeOK
    <3>. QED  BY <3>1, <3>5, <3>6, <3>7
  <2>7. ASSUME NEW c \in Consumers, ReadFields(c) PROVE FreshInv'
    <3>1. ~fresh[c] /\ inbox[c] = <<>>
      BY <2>7 DEF ReadFields
    <3>. QED  BY <2>7, <3>1 DEF ReadFields, managerVars, PolicyPathTypeOK
  <2>8. ASSUME NEW c \in Consumers, ReadVersion(c) PROVE FreshInv'
    <3>1. fresh'[c] => held'[c] = Seen(c)
      <4>1. held[c] \in Policy /\ file \in Policy /\ c \in Readers
        BY <2>8 DEF ReadVersion, PolicyPathTypeOK, PathInv
      <4>2. held[c].fields = Seen(c).fields
               => [held[c] EXCEPT !.version = file.version] = Seen(c)
        BY <4>1 DEF Policy
      <4>. QED  BY <2>8, <4>2 DEF ReadVersion, PolicyPathTypeOK
    <3>2. inbox[c] = <<>>
      BY <2>8 DEF ReadVersion
    <3>. QED  BY <2>8, <3>1, <3>2 DEF ReadVersion, managerVars, PolicyPathTypeOK
  <2>9. ASSUME NEW c \in Consumers, Pull(c) PROVE FreshInv'
    BY <2>9, ReadersAssumption DEF Pull, managerVars, PolicyPathTypeOK
  <2>10. ASSUME NEW c \in Consumers, Start(c) \/ Subscribe(c) PROVE FreshInv'
    BY <2>10 DEF Start, Subscribe, managerVars, PolicyPathTypeOK
  <2>11. ASSUME NEW c \in Consumers, Disconnect(c) \/ Restart(c) PROVE FreshInv'
    BY <2>11 DEF Disconnect, Restart, managerVars, PolicyPathTypeOK
  <2>12. CASE UNCHANGED vars
    BY <2>12 DEF vars, managerVars, consumerVars
  <2>. QED  BY <2>1, <2>2, <2>3, <2>4, <2>5, <2>6, <2>7, <2>8, <2>9, <2>10,
               <2>11, <2>12 DEF Next, ConsumerStep
<1>3. FreshInv => FreshServicesAgree
  BY DEF FreshInv, Agrees, FreshServicesAgree
<1>. QED  BY <1>1, <1>2, <1>3, PolicyPathTypeCorrect, PathInvCorrect, PTL DEF Spec
=============================================================================
