------------------------ MODULE TelemetryPath_proofs ------------------------
(* Theorems about TelemetryPath, for any addresses, containers, time to    *)
(* live and bounds.                                                        *)
EXTENDS TelemetryPath, SequenceTheorems, FiniteSetTheorems, TLAPS

Line == [id : Requests, addr : Addresses]
Row == [id : Requests, name : Containers \cup Addresses]

\* No two of the lines, or rows, have the same number.
OneEach(rows) == \A i, j \in DOMAIN rows : i # j => rows[i].id # rows[j].id

\* No two of the batches have a row of the same number.
Apart(batches) ==
    \A i, j \in DOMAIN batches : i # j => Ids(batches[i]) \cap Ids(batches[j]) = {}

-----------------------------------------------------------------------------
(* Numbers of rows and of batches under the operations of a queue. *)

LEMMA NothingEmpty ==
    /\ Ids(<<>>) = {} /\ Batches(<<>>) = {}
    /\ OneEach(<<>>) /\ Apart(<<>>)
<1>1. DOMAIN <<>> = {}
  OBVIOUS
<1>. QED  BY <1>1 DEF Ids, Batches, OneEach, Apart

\* Where the elements of a sequence are after Append ...
LEMMA AppendDomain ==
    ASSUME NEW R, NEW s \in Seq(R), NEW e \in R
    PROVE  /\ DOMAIN Append(s, e) = (DOMAIN s) \cup {Len(s) + 1}
           /\ Len(s) + 1 \notin DOMAIN s
           /\ \A i \in DOMAIN s : Append(s, e)[i] = s[i]
           /\ Append(s, e)[Len(s) + 1] = e
<1>1. /\ Len(s) \in Nat /\ DOMAIN s = 1 .. Len(s)
      /\ Append(s, e) \in Seq(R)
      /\ Len(Append(s, e)) = Len(s) + 1
      /\ \A i \in 1 .. Len(s) : Append(s, e)[i] = s[i]
      /\ Append(s, e)[Len(s) + 1] = e
  BY LenProperties, AppendProperties
<1>2. DOMAIN Append(s, e) = 1 .. (Len(s) + 1)
  BY <1>1, LenProperties
<1>3. 1 .. (Len(s) + 1) = (1 .. Len(s)) \cup {Len(s) + 1}
  BY <1>1
<1>4. Len(s) + 1 \notin 1 .. Len(s)
  BY <1>1
<1>. QED  BY <1>1, <1>2, <1>3, <1>4

\* ... and after Tail.
LEMMA TailDomain ==
    ASSUME NEW R, NEW s \in Seq(R), s # <<>>
    PROVE  /\ Head(s) = s[1] /\ Head(s) \in R /\ 1 \in DOMAIN s
           /\ Tail(s) \in Seq(R)
           /\ \A i \in DOMAIN Tail(s) : /\ i + 1 \in (DOMAIN s) \ {1}
                                        /\ Tail(s)[i] = s[i + 1]
           /\ \A i \in (DOMAIN s) \ {1} : /\ i - 1 \in DOMAIN Tail(s)
                                          /\ Tail(s)[i - 1] = s[i]
<1>1. /\ Len(s) \in Nat \ {0} /\ DOMAIN s = 1 .. Len(s)
      /\ Head(s) \in R /\ Tail(s) \in Seq(R)
      /\ Len(Tail(s)) = Len(s) - 1
      /\ \A i \in 1 .. Len(Tail(s)) : Tail(s)[i] = s[i + 1]
  BY EmptySeq, LenProperties, HeadTailProperties
<1>2. DOMAIN Tail(s) = 1 .. (Len(s) - 1)
  BY <1>1, LenProperties
<1>3. Head(s) = s[1]
  BY <1>1, SubSeqFull, HeadTailOfSubSeq
<1>4. ASSUME NEW i \in DOMAIN Tail(s)
      PROVE  i + 1 \in (DOMAIN s) \ {1} /\ Tail(s)[i] = s[i + 1]
  BY <1>1, <1>2
<1>5. ASSUME NEW i \in (DOMAIN s) \ {1}
      PROVE  i - 1 \in DOMAIN Tail(s) /\ Tail(s)[i - 1] = s[i]
  <2>1. i \in Nat /\ i - 1 \in 1 .. (Len(s) - 1) /\ (i - 1) + 1 = i
    BY <1>1
  <2>. QED  BY <1>1, <1>2, <2>1
<1>. QED  BY <1>1, <1>3, <1>4, <1>5

\* Where an element was before the one at i was taken out.
Before(i, j) == IF j < i THEN j ELSE j + 1

LEMMA RemovalDomain ==
    ASSUME NEW R, NEW s \in Seq(R), NEW i \in DOMAIN s
    PROVE  /\ RemoveAt(s, i) \in Seq(R)
           /\ \A j \in DOMAIN RemoveAt(s, i) :
                  /\ Before(i, j) \in (DOMAIN s) \ {i}
                  /\ RemoveAt(s, i)[j] = s[Before(i, j)]
           /\ \A k \in (DOMAIN s) \ {i} :
                  \E j \in DOMAIN RemoveAt(s, i) : RemoveAt(s, i)[j] = s[k]
<1>. DEFINE n == Len(s)
            front == SubSeq(s, 1, i - 1)
            back == SubSeq(s, i + 1, n)
            rest == RemoveAt(s, i)
<1>1. n \in Nat /\ DOMAIN s = 1 .. n /\ i \in 1 .. n /\ \A k \in 1 .. n : s[k] \in R
  BY LenProperties, ElementOfSeq
<1>2. /\ front \in Seq(R) /\ Len(front) = i - 1
      /\ \A j \in 1 .. i - 1 : front[j] = s[j]
  <2>1. 1 \in Int /\ i - 1 \in Int /\ \A k \in 1 .. i - 1 : s[k] \in R
    BY <1>1
  <2>2. /\ front \in Seq(R)
        /\ Len(front) = IF 1 <= i - 1 THEN (i - 1) - 1 + 1 ELSE 0
        /\ \A j \in 1 .. (i - 1) - 1 + 1 : front[j] = s[1 + j - 1]
    BY <2>1, SubSeqProperties
  <2>. QED  BY <1>1, <2>2
<1>3. /\ back \in Seq(R) /\ Len(back) = n - i
      /\ \A j \in 1 .. n - i : back[j] = s[i + j]
  <2>1. i + 1 \in Int /\ n \in Int /\ \A k \in i + 1 .. n : s[k] \in R
    BY <1>1
  <2>2. /\ back \in Seq(R)
        /\ Len(back) = IF i + 1 <= n THEN n - (i + 1) + 1 ELSE 0
        /\ \A j \in 1 .. n - (i + 1) + 1 : back[j] = s[(i + 1) + j - 1]
    BY <2>1, SubSeqProperties
  <2>. HIDE DEF n, back
  <2>3. /\ n - (i + 1) + 1 = n - i
        /\ \A j \in 1 .. n - i : (i + 1) + j - 1 = i + j
        /\ i + 1 <= n \/ n - i = 0
    BY <1>1
  <2>. QED  BY <2>2, <2>3
<1>4. rest = front \o back
  BY DEF RemoveAt
<1>. HIDE DEF n, front, back, rest
<1>5. /\ rest \in Seq(R) /\ Len(rest) = n - 1
      /\ \A j \in 1 .. n - 1 : rest[j] = IF j <= i - 1 THEN front[j] ELSE back[j - (i - 1)]
  <2>1. /\ rest \in Seq(R) /\ Len(rest) = Len(front) + Len(back)
        /\ \A j \in 1 .. Len(front) + Len(back) :
              rest[j] = IF j <= Len(front) THEN front[j] ELSE back[j - Len(front)]
    BY <1>2, <1>3, <1>4, ConcatProperties
  <2>2. (i - 1) + (n - i) = n - 1
    BY <1>1
  <2>. QED  BY <1>2, <1>3, <2>1, <2>2
<1>6. DOMAIN rest = 1 .. n - 1
  BY <1>5, LenProperties
<1>7. ASSUME NEW j \in 1 .. n - 1
      PROVE  Before(i, j) \in (1 .. n) \ {i} /\ rest[j] = s[Before(i, j)]
  <2>1. CASE j < i
    BY <1>1, <1>2, <1>5, <2>1 DEF Before
  <2>2. CASE ~(j < i)
    <3>1. j - (i - 1) \in 1 .. n - i /\ i + (j - (i - 1)) = j + 1
      BY <1>1, <2>2
    <3>2. ~(j <= i - 1)
      BY <1>1, <2>2
    <3>3. rest[j] = back[j - (i - 1)]
      BY <1>5, <3>2
    <3>4. back[j - (i - 1)] = s[j + 1]
      BY <1>3, <3>1
    <3>. QED  BY <1>1, <2>2, <3>3, <3>4 DEF Before
  <2>. QED  BY <2>1, <2>2
<1>8. ASSUME NEW k \in (1 .. n) \ {i}
      PROVE  \E j \in 1 .. n - 1 : rest[j] = s[k]
  <2>1. CASE k < i
    <3>1. k \in 1 .. n - 1 /\ Before(i, k) = k
      BY <1>1, <2>1 DEF Before
    <3>. QED  BY <1>7, <3>1
  <2>2. CASE ~(k < i)
    <3>1. k - 1 \in 1 .. n - 1 /\ Before(i, k - 1) = k
      BY <1>1, <2>2 DEF Before
    <3>. QED  BY <1>7, <3>1
  <2>. QED  BY <2>1, <2>2
<1>. QED  BY <1>1, <1>5, <1>6, <1>7, <1>8 DEF rest

LEMMA IdsAppend ==
    ASSUME NEW R, NEW s \in Seq(R), NEW e \in R
    PROVE  /\ Ids(Append(s, e)) = Ids(s) \cup {e.id}
           /\ OneEach(s) /\ e.id \notin Ids(s) => OneEach(Append(s, e))
<1>. USE AppendDomain
<1>1. Ids(Append(s, e)) = Ids(s) \cup {e.id}
  BY DEF Ids
<1>2. ASSUME OneEach(s), e.id \notin Ids(s) PROVE OneEach(Append(s, e))
  BY <1>2 DEF Ids, OneEach
<1>. QED  BY <1>1, <1>2

LEMMA IdsTail ==
    ASSUME NEW R, NEW s \in Seq(R), s # <<>>
    PROVE  /\ Ids(s) = {Head(s).id} \cup Ids(Tail(s))
           /\ OneEach(s) => OneEach(Tail(s)) /\ Head(s).id \notin Ids(Tail(s))
<1>1. Ids(s) \subseteq {Head(s).id} \cup Ids(Tail(s))
  <2>. SUFFICES ASSUME NEW i \in DOMAIN s
                PROVE  s[i].id \in {Head(s).id} \cup Ids(Tail(s))
    BY DEF Ids
  <2>1. CASE i = 1
    BY <2>1, TailDomain
  <2>2. CASE i # 1
    <3>1. i - 1 \in DOMAIN Tail(s) /\ Tail(s)[i - 1] = s[i]
      BY <2>2, TailDomain
    <3>. QED  BY <3>1 DEF Ids
  <2>. QED  BY <2>1, <2>2
<1>2. {Head(s).id} \cup Ids(Tail(s)) \subseteq Ids(s)
  <2>1. Head(s).id \in Ids(s)
    BY TailDomain DEF Ids
  <2>2. \A i \in DOMAIN Tail(s) : Tail(s)[i].id \in Ids(s)
    BY TailDomain DEF Ids
  <2>. QED  BY <2>1, <2>2 DEF Ids
<1>3. ASSUME OneEach(s) PROVE OneEach(Tail(s)) /\ Head(s).id \notin Ids(Tail(s))
  <2>1. OneEach(Tail(s))
    <3>. SUFFICES ASSUME NEW i \in DOMAIN Tail(s), NEW j \in DOMAIN Tail(s), i # j
                  PROVE  Tail(s)[i].id # Tail(s)[j].id
      BY DEF OneEach
    <3>1. i + 1 # j + 1
      BY TailDomain, LenProperties
    <3>. QED  BY <1>3, <3>1, TailDomain DEF OneEach
  <2>2. \A i \in DOMAIN Tail(s) : Tail(s)[i].id # Head(s).id
    BY <1>3, TailDomain DEF OneEach
  <2>. QED  BY <2>1, <2>2 DEF Ids
<1>. QED  BY <1>1, <1>2, <1>3

LEMMA BatchesAppend ==
    ASSUME NEW R, NEW s \in Seq(R), NEW e \in R
    PROVE  /\ Batches(Append(s, e)) = Batches(s) \cup Ids(e)
           /\ Apart(s) /\ Ids(e) \cap Batches(s) = {} => Apart(Append(s, e))
<1>. USE AppendDomain
<1>1. Batches(Append(s, e)) \subseteq Batches(s) \cup Ids(e)
  BY DEF Batches
<1>2. Batches(s) \cup Ids(e) \subseteq Batches(Append(s, e))
  BY DEF Batches
<1>3. ASSUME Apart(s), Ids(e) \cap Batches(s) = {} PROVE Apart(Append(s, e))
  <2>1. \A i \in DOMAIN s : Ids(s[i]) \cap Ids(e) = {}
    BY <1>3 DEF Batches
  <2>. QED  BY <1>3, <2>1 DEF Apart
<1>. QED  BY <1>1, <1>2, <1>3

LEMMA BatchesTail ==
    ASSUME NEW R, NEW s \in Seq(R), s # <<>>
    PROVE  /\ Batches(s) = Ids(Head(s)) \cup Batches(Tail(s))
           /\ Apart(s) => Apart(Tail(s)) /\ Ids(Head(s)) \cap Batches(Tail(s)) = {}
<1>1. Batches(s) \subseteq Ids(Head(s)) \cup Batches(Tail(s))
  <2>. SUFFICES ASSUME NEW i \in DOMAIN s
                PROVE  Ids(s[i]) \subseteq Ids(Head(s)) \cup Batches(Tail(s))
    BY DEF Batches
  <2>1. CASE i = 1
    BY <2>1, TailDomain
  <2>2. CASE i # 1
    <3>1. i - 1 \in DOMAIN Tail(s) /\ Tail(s)[i - 1] = s[i]
      BY <2>2, TailDomain
    <3>. QED  BY <3>1 DEF Batches
  <2>. QED  BY <2>1, <2>2
<1>2. Ids(Head(s)) \cup Batches(Tail(s)) \subseteq Batches(s)
  <2>1. Ids(Head(s)) \subseteq Batches(s)
    BY TailDomain DEF Batches
  <2>2. \A i \in DOMAIN Tail(s) : Ids(Tail(s)[i]) \subseteq Batches(s)
    BY TailDomain DEF Batches
  <2>. QED  BY <2>1, <2>2 DEF Batches
<1>3. ASSUME Apart(s) PROVE Apart(Tail(s)) /\ Ids(Head(s)) \cap Batches(Tail(s)) = {}
  <2>1. Apart(Tail(s))
    <3>. SUFFICES ASSUME NEW i \in DOMAIN Tail(s), NEW j \in DOMAIN Tail(s), i # j
                  PROVE  Ids(Tail(s)[i]) \cap Ids(Tail(s)[j]) = {}
      BY DEF Apart
    <3>1. i + 1 # j + 1
      BY TailDomain, LenProperties
    <3>. QED  BY <1>3, <3>1, TailDomain DEF Apart
  <2>2. \A i \in DOMAIN Tail(s) : Ids(Head(s)) \cap Ids(Tail(s)[i]) = {}
    BY <1>3, TailDomain DEF Apart
  <2>. QED  BY <2>1, <2>2 DEF Batches
<1>. QED  BY <1>1, <1>2, <1>3

LEMMA BatchesRemoval ==
    ASSUME NEW R, NEW s \in Seq(R), NEW i \in DOMAIN s
    PROVE  /\ Batches(s) = Ids(s[i]) \cup Batches(RemoveAt(s, i))
           /\ Apart(s) => /\ Apart(RemoveAt(s, i))
                          /\ Ids(s[i]) \cap Batches(RemoveAt(s, i)) = {}
<1>1. Batches(s) \subseteq Ids(s[i]) \cup Batches(RemoveAt(s, i))
  <2>. SUFFICES ASSUME NEW k \in DOMAIN s
                PROVE  Ids(s[k]) \subseteq Ids(s[i]) \cup Batches(RemoveAt(s, i))
    BY DEF Batches
  <2>1. CASE k = i
    BY <2>1
  <2>2. CASE k # i
    <3>1. PICK j \in DOMAIN RemoveAt(s, i) : RemoveAt(s, i)[j] = s[k]
      BY <2>2, RemovalDomain
    <3>. QED  BY <3>1 DEF Batches
  <2>. QED  BY <2>1, <2>2
<1>2. Ids(s[i]) \cup Batches(RemoveAt(s, i)) \subseteq Batches(s)
  <2>1. \A j \in DOMAIN RemoveAt(s, i) : Ids(RemoveAt(s, i)[j]) \subseteq Batches(s)
    BY RemovalDomain DEF Batches
  <2>. QED  BY <2>1 DEF Batches
<1>3. ASSUME Apart(s)
      PROVE  /\ Apart(RemoveAt(s, i))
             /\ Ids(s[i]) \cap Batches(RemoveAt(s, i)) = {}
  <2>1. Apart(RemoveAt(s, i))
    <3>. SUFFICES ASSUME NEW j \in DOMAIN RemoveAt(s, i), NEW k \in DOMAIN RemoveAt(s, i),
                         j # k
                  PROVE  Ids(RemoveAt(s, i)[j]) \cap Ids(RemoveAt(s, i)[k]) = {}
      BY DEF Apart
    <3>1. j \in Int /\ k \in Int /\ i \in Int
      <4>1. DOMAIN s = 1 .. Len(s) /\ Len(s) \in Nat
        BY LenProperties
      <4>2. RemoveAt(s, i) \in Seq(R)
        BY RemovalDomain
      <4>3. DOMAIN RemoveAt(s, i) = 1 .. Len(RemoveAt(s, i)) /\ Len(RemoveAt(s, i)) \in Nat
        BY <4>2, LenProperties
      <4>. QED  BY <4>1, <4>3
    <3>2. Before(i, j) # Before(i, k)
      BY <3>1 DEF Before
    <3>. QED  BY <1>3, <3>2, RemovalDomain DEF Apart
  <2>2. \A j \in DOMAIN RemoveAt(s, i) : Ids(s[i]) \cap Ids(RemoveAt(s, i)[j]) = {}
    BY <1>3, RemovalDomain DEF Apart
  <2>. QED  BY <2>1, <2>2 DEF Batches
<1>. QED  BY <1>1, <1>2, <1>3

LEMMA IdsAreRequests ==
    /\ \A s \in Seq(Line) \cup Seq(Row) : Ids(s) \subseteq Requests
    /\ \A s \in Seq(Seq(Row)) : Batches(s) \subseteq Requests
<1>1. ASSUME NEW s \in Seq(Line) \cup Seq(Row) PROVE Ids(s) \subseteq Requests
  <2>1. CASE s \in Seq(Line)
    <3>1. \A i \in DOMAIN s : s[i] \in Line
      BY <2>1, LenProperties
    <3>. QED  BY <3>1 DEF Ids, Line
  <2>2. CASE s \in Seq(Row)
    <3>1. \A i \in DOMAIN s : s[i] \in Row
      BY <2>2, LenProperties
    <3>. QED  BY <3>1 DEF Ids, Row
  <2>. QED  BY <2>1, <2>2
<1>2. ASSUME NEW s \in Seq(Seq(Row)) PROVE Batches(s) \subseteq Requests
  <2>1. \A i \in DOMAIN s : s[i] \in Seq(Row)
    BY LenProperties
  <2>. QED  BY <1>1, <2>1 DEF Batches
<1>. QED  BY <1>1, <1>2

\* The rows of a poll: whatever order the containers are visited in, the
\* samples are numbered on from the last one.
LEMMA SampledRows ==
    ASSUME TelemetryTypeOK, NEW S \in SUBSET Addresses, Sample(S)
    PROVE  /\ Cardinality(S) \in Nat
           /\ Sampled(S) \in Seq(Row)
           /\ Ids(Sampled(S)) = (served + 1) .. served'
<1>. DEFINE n == Cardinality(S)
            order == SetToSeq(S)
<1>1. IsFiniteSet(S)
  BY AddressesAssumption, FS_Subset
<1>2. n \in Nat /\ ExistsBijection(1 .. n, S)
  BY <1>1, FS_CardinalityType
<1>3. \E f \in [1 .. n -> S] : IsInjective(f)
  BY <1>2 DEF ExistsBijection, Bijection, Injection
<1>4. order \in [1 .. n -> S]
  BY <1>3 DEF SetToSeq
<1>. HIDE DEF n, order
<1>5. served \in Nat /\ served' = served + n /\ served' \in 0 .. MaxRequests
  BY <1>2, BoundsAssumption DEF Sample, TelemetryTypeOK, n
<1>6. Sampled(S) = [i \in 1 .. n |-> [id |-> served + i, name |-> owner[order[i]]]]
  BY <1>4 DEF Sampled, order
<1>7. \A i \in 1 .. n : [id |-> served + i, name |-> owner[order[i]]] \in Row
  <2>. SUFFICES ASSUME NEW i \in 1 .. n
                PROVE  [id |-> served + i, name |-> owner[order[i]]] \in Row
    OBVIOUS
  <2>1. served + i \in Requests
    BY <1>2, <1>5, BoundsAssumption DEF Requests
  <2>2. owner[order[i]] \in Containers
    BY <1>4 DEF TelemetryTypeOK
  <2>. QED  BY <2>1, <2>2 DEF Row
<1>8. Sampled(S) \in [1 .. n -> Row]
  BY <1>6, <1>7
<1>9. Sampled(S) \in Seq(Row)
  BY <1>2, <1>8, SeqDef
<1>10. Ids(Sampled(S)) = (served + 1) .. (served + n)
  <2>1. Ids(Sampled(S)) = {served + i : i \in 1 .. n}
    BY <1>6 DEF Ids
  <2>2. \A k \in (served + 1) .. (served + n) : k - served \in 1 .. n /\ served + (k - served) = k
    BY <1>2, <1>5
  <2>3. \A i \in 1 .. n : served + i \in (served + 1) .. (served + n)
    BY <1>2, <1>5
  <2>4. (served + 1) .. (served + n) \subseteq {served + i : i \in 1 .. n}
    BY <2>2
  <2>. QED  BY <2>1, <2>3, <2>4
<1>. QED  BY <1>2, <1>5, <1>9, <1>10 DEF n

-----------------------------------------------------------------------------
LEMMA TypeInit == Init => TelemetryTypeOK
BY EmptySeq, TtlAssumption, BoundsAssumption DEF Init, TelemetryTypeOK

LEMMA TypeStep ==
    ASSUME TelemetryTypeOK, [Next]_vars
    PROVE  TelemetryTypeOK'
<1>. USE TtlAssumption, BoundsAssumption
<1>0. CASE UNCHANGED vars
  BY <1>0 DEF TelemetryTypeOK, vars
<1>1. ASSUME NEW a \in Addresses, NEW c \in Containers, Replace(a, c) PROVE TelemetryTypeOK'
  BY <1>1 DEF Replace, TelemetryTypeOK
<1>2. ASSUME NEW a \in Addresses, Serve(a) PROVE TelemetryTypeOK'
  <2>1. served + 1 \in Requests /\ served' \in 0 .. MaxRequests
    BY <1>2 DEF Serve, TelemetryTypeOK, Requests
  <2>2. [id |-> served + 1, addr |-> a] \in Line
    BY <2>1 DEF Line
  <2>3. unread' \in Seq(Line)
    <3>1. unread \in Seq(Line)
      BY DEF TelemetryTypeOK, Line
    <3>. QED  BY <1>2, <2>2, <3>1, AppendProperties DEF Serve
  <2>4. gone' \subseteq Requests
    BY <1>2, <2>1 DEF Serve, TelemetryTypeOK
  <2>. QED  BY <1>2, <2>1, <2>3, <2>4 DEF Serve, TelemetryTypeOK, Line
<1>3. CASE Rotate
  BY <1>3 DEF Rotate, TelemetryTypeOK
<1>4. ASSUME NEW answered \in BOOLEAN, ReadLine(answered) PROVE TelemetryTypeOK'
  <2>. DEFINE line == Head(unread)
              entry == IF cache[line.addr].left > 0 THEN AfterHit(cache[line.addr])
                       ELSE [name |-> Resolved(line.addr, answered), left |-> Ttl]
  <2>1. line \in Line /\ Tail(unread) \in Seq(Line)
    BY <1>4, HeadTailProperties DEF ReadLine, TelemetryTypeOK, Line
  <2>2. entry \in [name : Containers \cup Addresses, left : 0 .. Ttl]
    BY <2>1 DEF TelemetryTypeOK, AfterHit, Resolved, Line
  <2>. HIDE DEF entry
  <2>3. [id |-> line.id, name |-> entry.name] \in Row
    BY <2>1, <2>2 DEF Line, Row
  <2>4. buffer' \in Seq(Row)
    BY <1>4, <2>3, AppendProperties DEF ReadLine, TelemetryTypeOK, Row, entry
  <2>5. cache' \in [Addresses -> [name : Containers \cup Addresses, left : 0 .. Ttl]]
    BY <1>4, <2>2 DEF ReadLine, TelemetryTypeOK, entry
  <2>. QED  BY <1>4, <2>1, <2>4, <2>5 DEF ReadLine, TelemetryTypeOK, Line, Row
<1>5. CASE Flush
  BY <1>5, AppendProperties, EmptySeq DEF Flush, TelemetryTypeOK
<1>6. CASE FlushFails
  <2>1. Ids(buffer) \subseteq Requests
    BY IdsAreRequests DEF TelemetryTypeOK, Row
  <2>2. buffer \in Seq(Row) /\ sending \in Seq(Seq(Row))
    BY DEF TelemetryTypeOK, Row
  <2>3. Append(sending, buffer) \in Seq(Seq(Row))
    BY <2>2, AppendProperties
  <2>4. buffer' \in Seq(Row) /\ sending' \in Seq(Seq(Row))
    BY <1>6, <2>2, <2>3, EmptySeq DEF FlushFails
  <2>5. dropped' \subseteq Requests
    BY <1>6, <2>1 DEF FlushFails, CountDropped, TelemetryTypeOK
  <2>. QED  BY <1>6, <2>4, <2>5 DEF FlushFails, TelemetryTypeOK, Row
<1>7. CASE RestartShipper
  <2>1. Ids(buffer) \cup Ids(unread) \subseteq Requests
    BY IdsAreRequests DEF TelemetryTypeOK, Row, Line
  <2>. QED  BY <1>7, <2>1, EmptySeq DEF RestartShipper, TelemetryTypeOK
<1>8. ASSUME NEW S \in SUBSET Addresses, Poll(S) \/ PollFails(S) PROVE TelemetryTypeOK'
  <2>1. Sample(S)
    BY <1>8 DEF Poll, PollFails
  <2>2. /\ Cardinality(S) \in Nat
        /\ Sampled(S) \in Seq(Row) /\ Ids(Sampled(S)) \subseteq Requests
    BY <2>1, SampledRows, IdsAreRequests
  <2>3. served' \in 0 .. MaxRequests
    BY <2>1, <2>2 DEF Sample, TelemetryTypeOK
  <2>4. sending' \in Seq(Seq(Row))
    <3>1. sending \in Seq(Seq(Row))
      BY DEF TelemetryTypeOK, Row
    <3>2. Append(sending, Sampled(S)) \in Seq(Seq(Row))
      BY <2>2, <3>1, AppendProperties
    <3>. QED  BY <1>8, <3>1, <3>2 DEF Poll, PollFails
  <2>5. dropped' \subseteq Requests
    BY <1>8, <2>2 DEF Poll, PollFails, CountDropped, TelemetryTypeOK
  <2>. QED  BY <2>1, <2>3, <2>4, <2>5, <1>8 DEF Sample, Poll, PollFails, TelemetryTypeOK, Row
<1>9. CASE Export \/ ExportDropped \/ ExportLate
  <2>1. Head(sending) \in Seq(Row) /\ Tail(sending) \in Seq(Seq(Row))
    BY <1>9, HeadTailProperties DEF Export, ExportDropped, ExportLate, TelemetryTypeOK, Row
  <2>2. Len(Head(sending)) \in Nat /\ \A i \in DOMAIN Head(sending) : Head(sending)[i] \in Row
    BY <2>1, LenProperties
  <2>3. PICK n \in 0 .. Len(Head(sending)) : Insert(Head(sending), n)
    BY <1>9, <2>2 DEF Export, ExportDropped, ExportLate
  <2>4. stored' \in [Requests -> Nat]
    BY <2>3 DEF Insert, TelemetryTypeOK
  <2>5. names' \in [Requests -> SUBSET (Containers \cup Addresses)]
    <3>1. \A r \in Requests : {Head(sending)[i].name : i \in {k \in DOMAIN Head(sending) : Head(sending)[k].id = r}}
                                \subseteq Containers \cup Addresses
      BY <2>2 DEF Row
    <3>. QED  BY <2>3, <3>1 DEF Insert, TelemetryTypeOK
  <2>6. Ids(Head(sending)) \subseteq Requests
    BY <2>1, IdsAreRequests
  <2>7. sending' \in Seq(Seq(Row)) /\ dropped' \subseteq Requests
    BY <1>9, <2>1, <2>6 DEF Export, ExportDropped, ExportLate, TelemetryTypeOK, Row
  <2>8. late' \in [Requests -> Nat]
    <3>1. late \in [Requests -> Nat]
      BY DEF TelemetryTypeOK
    <3>2. CASE Export \/ ExportDropped
      BY <3>1, <3>2 DEF Export, ExportDropped
    <3>3. CASE ExportLate
      BY <3>1, <3>3 DEF ExportLate
    <3>. QED  BY <1>9, <3>2, <3>3
  <2>. QED
    BY <1>9, <2>4, <2>5, <2>7, <2>8 DEF Export, ExportDropped, ExportLate, TelemetryTypeOK, Row
<1>10. CASE RestartCollector
  <2>1. Batches(sending) \subseteq Requests
    BY IdsAreRequests DEF TelemetryTypeOK, Row
  <2>2. gone' \subseteq Requests /\ sending' = <<>>
    BY <1>10, <2>1 DEF RestartCollector, TelemetryTypeOK
  <2>. QED  BY <1>10, <2>2, EmptySeq DEF RestartCollector, TelemetryTypeOK
<1>12. ASSUME NEW i \in DOMAIN sending, GiveUp(i) PROVE TelemetryTypeOK'
  <2>1. sending \in Seq(Seq(Row)) /\ sending[i] \in Seq(Row)
    BY LenProperties DEF TelemetryTypeOK, Row
  <2>2. sending' \in Seq(Seq(Row))
    BY <1>12, <2>1, RemovalDomain DEF GiveUp
  <2>3. gone' \subseteq Requests
    BY <1>12, <2>1, IdsAreRequests DEF GiveUp, TelemetryTypeOK
  <2>. QED  BY <1>12, <2>2, <2>3 DEF GiveUp, TelemetryTypeOK, Row
<1>11. CASE Tick
  <2>1. tenure' \in [Addresses -> 0 .. Ttl]
    BY <1>11 DEF Tick, Later, TelemetryTypeOK
  <2>2. ASSUME NEW a \in Addresses
        PROVE  [cache[a] EXCEPT !.left = IF @ > 0 THEN @ - 1 ELSE 0]
                  \in [name : Containers \cup Addresses, left : 0 .. Ttl]
    <3>1. cache[a] \in [name : Containers \cup Addresses, left : 0 .. Ttl]
      BY DEF TelemetryTypeOK
    <3>2. (IF cache[a].left > 0 THEN cache[a].left - 1 ELSE 0) \in 0 .. Ttl
      BY <3>1
    <3>. QED  BY <3>1, <3>2
  <2>3. cache' \in [Addresses -> [name : Containers \cup Addresses, left : 0 .. Ttl]]
    BY <1>11, <2>2 DEF Tick
  <2>. QED  BY <1>11, <2>1, <2>3 DEF Tick, TelemetryTypeOK
<1>. QED
  BY <1>0, <1>1, <1>2, <1>3, <1>4, <1>5, <1>6, <1>7, <1>8, <1>9, <1>10, <1>11, <1>12
     DEF Next, Read

\* TelemetryTypeOK holds in every state: only containers and addresses are
\* ever named, and only requests that were served or sampled have rows.
THEOREM TelemetryTypeCorrect == Spec => []TelemetryTypeOK
BY TypeInit, TypeStep, PTL DEF Spec

-----------------------------------------------------------------------------
(* Places. *)

Accounted == Underway \cup dropped \cup gone \cup {r \in Requests : stored[r] > 0}

\* A request that is under way is in one place, and what was served or
\* sampled, and nothing else, is accounted for.
PlaceInv ==
    /\ OneEach(unread) /\ Apart(sending)
    /\ Ids(unread) \cap Ids(buffer) = {}
    /\ Batches(sending) \cap (Ids(unread) \cup Ids(buffer)) = {}
    /\ Accounted = 1 .. served

LedgerStep == [Ledger!Next]_<<Underway, stored, dropped \cup gone>>

\* New numbers are fresh in the ledger.
LEMMA NewIsFresh ==
    ASSUME TelemetryTypeOK, PlaceInv, NEW n \in Nat, n > served, n \in Requests
    PROVE  /\ n \notin Accounted
           /\ n \in Ledger!Fresh
<1>1. n \notin Accounted
  BY DEF PlaceInv, TelemetryTypeOK
<1>2. stored[n] = 0
  BY <1>1 DEF Accounted, TelemetryTypeOK
<1>. QED  BY <1>1, <1>2 DEF Accounted, Ledger!Fresh

\* Requests that are let in.
LEMMA AcceptStep ==
    ASSUME TelemetryTypeOK, PlaceInv,
           NEW kept \in SUBSET Requests, NEW missed \in SUBSET Requests,
           served' \in Nat, served <= served',
           kept \cup missed = (served + 1) .. served',
           Underway' = Underway \cup kept,
           dropped' \cup gone' = dropped \cup gone \cup missed,
           stored' = stored
    PROVE  Accounted' = 1 .. served' /\ LedgerStep
<1>1. served \in Nat
  BY BoundsAssumption DEF TelemetryTypeOK
<1>2. kept \cup missed \subseteq Ledger!Fresh
  <2>. SUFFICES ASSUME NEW n \in kept \cup missed PROVE n \in Ledger!Fresh
    OBVIOUS
  <2>1. n \in Nat /\ n > served /\ n \in Requests
    BY <1>1
  <2>. QED  BY <2>1, NewIsFresh
<1>3. Accounted' = Accounted \cup ((served + 1) .. served')
  BY DEF Accounted
<1>4. 1 .. served' = (1 .. served) \cup ((served + 1) .. served')
  BY <1>1
<1>5. Ledger!Accept(kept, missed)
  BY DEF Ledger!Accept
<1>. QED  BY <1>2, <1>3, <1>4, <1>5 DEF PlaceInv, LedgerStep, Ledger!Next

\* Requests that are given up.
LEMMA LoseStep ==
    ASSUME PlaceInv, NEW S \in SUBSET Underway,
           Underway' \in {Underway, Underway \ S},
           dropped' \cup gone' = dropped \cup gone \cup S,
           stored' = stored, served' = served
    PROVE  Accounted' = 1 .. served' /\ LedgerStep
<1>1. Accounted' = Accounted
  BY DEF Accounted
<1>2. Ledger!Lose(S)
  BY DEF Ledger!Lose
<1>. QED  BY <1>1, <1>2 DEF PlaceInv, LedgerStep, Ledger!Next

\* Requests that are written, or written and counted as dropped.
LEMMA DeliverStep ==
    ASSUME TelemetryTypeOK, PlaceInv, NEW S \in SUBSET Underway, S \subseteq Requests,
           Underway' \in {Underway, Underway \ S},
           stored' = [r \in Requests |-> IF r \in S THEN stored[r] + 1 ELSE stored[r]],
           dropped' \cup gone' \in {dropped \cup gone, dropped \cup gone \cup S},
           served' = served
    PROVE  Accounted' = 1 .. served' /\ LedgerStep
<1>1. {r \in Requests : stored'[r] > 0} = {r \in Requests : stored[r] > 0} \cup S
  BY DEF TelemetryTypeOK
<1>2. Accounted' = Accounted
  BY <1>1 DEF Accounted
<1>3. Ledger!Deliver(S)
  BY DEF Ledger!Deliver
<1>. QED  BY <1>2, <1>3 DEF PlaceInv, LedgerStep, Ledger!Next

\* Requests that move on.
LEMMA MoveStep ==
    ASSUME PlaceInv, Underway' = Underway, dropped' \cup gone' = dropped \cup gone,
           stored' = stored, served' = served
    PROVE  Accounted' = 1 .. served' /\ LedgerStep
BY DEF Accounted, PlaceInv, LedgerStep

-----------------------------------------------------------------------------
(* Each action keeps every request in its place and makes a ledger step. *)

LEMMA ServePlaces ==
    ASSUME TelemetryTypeOK, PlaceInv, NEW a \in Addresses, Serve(a)
    PROVE  PlaceInv' /\ LedgerStep
<1>. DEFINE n == served + 1
<1>1. n \in Nat /\ served \in Nat /\ n > served /\ n \in Requests /\ served' = n
  BY BoundsAssumption DEF Serve, TelemetryTypeOK, Requests
<1>2. n \notin Accounted
  BY <1>1, NewIsFresh
<1>3. {n} = (served + 1) .. served' /\ {n} \in SUBSET Requests /\ {} \in SUBSET Requests
  BY <1>1
<1>. HIDE DEF n
<1>4. CASE current
  <2>1. unread' = Append(unread, [id |-> n, addr |-> a])
    BY <1>4 DEF Serve, n
  <2>2. unread \in Seq(Line) /\ [id |-> n, addr |-> a] \in Line
    BY <1>1 DEF TelemetryTypeOK, Line
  <2>3. Ids(unread') = Ids(unread) \cup {n}
    BY <2>1, <2>2, IdsAppend
  <2>4. n \notin Ids(unread)
    BY <1>2 DEF Accounted, Underway
  <2>5. OneEach(unread')
    BY <2>1, <2>2, <2>4, IdsAppend DEF PlaceInv
  <2>6. /\ sending' = sending /\ buffer' = buffer /\ stored' = stored
        /\ dropped' = dropped /\ gone' = gone
    BY <1>4 DEF Serve
  <2>7. Underway' = Underway \cup {n}
    BY <2>3, <2>6 DEF Underway, Batches, Ids
  <2>8. Accounted' = 1 .. served' /\ LedgerStep
    <3>1. /\ dropped' \cup gone' = dropped \cup gone \cup {}
          /\ {n} \cup {} = (served + 1) .. served'
          /\ served' \in Nat /\ served <= served'
      BY <1>1, <1>3, <2>6
    <3>. QED  BY <1>3, <2>6, <2>7, <3>1, AcceptStep
  <2>9. n \notin Ids(buffer) \cup Batches(sending)
    BY <1>2 DEF Accounted, Underway
  <2>. QED  BY <2>3, <2>5, <2>6, <2>8, <2>9 DEF PlaceInv
<1>5. CASE ~current
  <2>1. /\ sending' = sending /\ buffer' = buffer /\ stored' = stored
        /\ dropped' = dropped /\ unread' = unread /\ gone' = gone \cup {n}
    BY <1>5 DEF Serve, n
  <2>2. Underway' = Underway \cup {}
    BY <2>1 DEF Underway
  <2>3. Accounted' = 1 .. served' /\ LedgerStep
    <3>1. /\ dropped' \cup gone' = dropped \cup gone \cup {n}
          /\ {} \cup {n} = (served + 1) .. served'
          /\ served' \in Nat /\ served <= served'
      BY <1>1, <1>3, <2>1
    <3>. QED  BY <1>3, <2>1, <2>2, <3>1, AcceptStep
  <2>. QED  BY <2>1, <2>3 DEF PlaceInv
<1>. QED  BY <1>4, <1>5

\* The line that is read goes from the file to the buffer.
LEMMA ReadMoves ==
    ASSUME TelemetryTypeOK, NEW answered \in BOOLEAN, ReadLine(answered)
    PROVE  /\ Ids(unread) = {Head(unread).id} \cup Ids(unread')
           /\ OneEach(unread) => OneEach(unread') /\ Head(unread).id \notin Ids(unread')
           /\ Ids(buffer') = Ids(buffer) \cup {Head(unread).id}
<1>1. unread # <<>> /\ unread \in Seq(Line) /\ unread' = Tail(unread)
  BY DEF ReadLine, TelemetryTypeOK, Line
<1>. DEFINE h == Head(unread).id
<1>2. Ids(buffer') = Ids(buffer) \cup {h}
  <2>1. PICK nm : buffer' = Append(buffer, [id |-> h, name |-> nm])
    BY DEF ReadLine
  <2>. DEFINE Wider == Row \cup {[id |-> h, name |-> nm]}
  <2>2. buffer \in Seq(Row)
    BY DEF TelemetryTypeOK, Row
  <2>3. buffer \in Seq(Wider) /\ [id |-> h, name |-> nm] \in Wider
    BY <2>2, SeqMonotonic
  <2>. HIDE DEF Wider
  <2>4. Ids(buffer') = Ids(buffer) \cup {[id |-> h, name |-> nm].id}
    BY <2>1, <2>3, IdsAppend
  <2>. QED  BY <2>4
<1>. QED  BY <1>1, <1>2, IdsTail

LEMMA ReadPlaces ==
    ASSUME TelemetryTypeOK, PlaceInv, NEW answered \in BOOLEAN, ReadLine(answered)
    PROVE  PlaceInv' /\ LedgerStep
<1>. DEFINE h == Head(unread).id
<1>1. /\ Ids(unread) = {h} \cup Ids(unread')
      /\ OneEach(unread') /\ h \notin Ids(unread')
      /\ Ids(buffer') = Ids(buffer) \cup {h}
  BY ReadMoves DEF PlaceInv
<1>. HIDE DEF h
<1>2. /\ sending' = sending /\ stored' = stored /\ served' = served
      /\ dropped' \cup gone' = dropped \cup gone
  BY DEF ReadLine
<1>3. Underway' = Underway
  BY <1>1, <1>2 DEF Underway
<1>4. Accounted' = 1 .. served' /\ LedgerStep
  BY <1>2, <1>3, MoveStep
<1>. QED  BY <1>1, <1>2, <1>4 DEF PlaceInv

LEMMA FlushPlaces ==
    ASSUME TelemetryTypeOK, PlaceInv, Flush \/ FlushFails
    PROVE  PlaceInv' /\ LedgerStep
<1>1. buffer \in Seq(Row) /\ sending \in Seq(Seq(Row))
  BY DEF TelemetryTypeOK, Row
<1>2. Batches(Append(sending, buffer)) = Batches(sending) \cup Ids(buffer)
  BY <1>1, BatchesAppend
<1>3. Apart(Append(sending, buffer))
  BY <1>1, BatchesAppend DEF PlaceInv
<1>4. /\ unread' = unread /\ stored' = stored /\ served' = served
      /\ Ids(buffer') = {}
  BY NothingEmpty DEF Flush, FlushFails
<1>5. CASE sending' = Append(sending, buffer)
  <2>1. Underway' = Underway
    BY <1>2, <1>4, <1>5 DEF Underway
  <2>2. Accounted' = 1 .. served' /\ LedgerStep
    <3>1. CASE Flush
      BY <1>4, <2>1, <3>1, MoveStep DEF Flush
    <3>2. CASE FlushFails
      <4>1. dropped' \cup gone' = dropped \cup gone \cup Ids(buffer)
        BY <3>2 DEF FlushFails, CountDropped
      <4>2. Ids(buffer) \in SUBSET Underway
        BY DEF Underway
      <4>. QED  BY <1>4, <2>1, <4>1, <4>2, LoseStep
    <3>. QED  BY <3>1, <3>2
  <2>. QED  BY <1>2, <1>3, <1>4, <1>5, <2>2 DEF PlaceInv
<1>6. CASE FlushFails /\ sending' = sending
  <2>1. Underway' = Underway \ Ids(buffer)
    BY <1>4, <1>6 DEF Underway, PlaceInv
  <2>2. dropped' \cup gone' = dropped \cup gone \cup Ids(buffer)
    BY <1>6 DEF FlushFails, CountDropped
  <2>3. Ids(buffer) \in SUBSET Underway
    BY DEF Underway
  <2>4. Accounted' = 1 .. served' /\ LedgerStep
    BY <1>4, <2>1, <2>2, <2>3, LoseStep
  <2>. QED  BY <1>4, <1>6, <2>4 DEF PlaceInv
<1>. QED  BY <1>5, <1>6 DEF Flush, FlushFails

LEMMA RestartShipperPlaces ==
    ASSUME TelemetryTypeOK, PlaceInv, RestartShipper
    PROVE  PlaceInv' /\ LedgerStep
<1>. DEFINE S == Ids(unread) \cup Ids(buffer)
<1>1. /\ unread' = <<>> /\ Ids(unread') = {} /\ Ids(buffer') = {}
      /\ sending' = sending /\ stored' = stored /\ served' = served
      /\ dropped' \cup gone' = dropped \cup gone \cup S
  BY NothingEmpty DEF RestartShipper
<1>2. S \in SUBSET Underway
  BY DEF Underway
<1>3. Underway' = Underway \ S
  BY <1>1 DEF Underway, PlaceInv
<1>4. Accounted' = 1 .. served' /\ LedgerStep
  BY <1>1, <1>2, <1>3, LoseStep
<1>. QED  BY <1>1, <1>4, NothingEmpty DEF PlaceInv

LEMMA PollPlaces ==
    ASSUME TelemetryTypeOK, PlaceInv, NEW C \in SUBSET Addresses, Poll(C) \/ PollFails(C)
    PROVE  PlaceInv' /\ LedgerStep
<1>. DEFINE rows == Sampled(C)
            S == (served + 1) .. served'
<1>1. Sample(C)
  BY DEF Poll, PollFails
<1>2. Cardinality(C) \in Nat /\ rows \in Seq(Row) /\ Ids(rows) = S
  BY <1>1, SampledRows
<1>. HIDE DEF rows
<1>3. /\ served \in Nat /\ served' \in Nat /\ served <= served' /\ served' <= MaxRequests
      /\ unread' = unread /\ buffer' = buffer /\ stored' = stored /\ gone' = gone
  BY <1>1, <1>2, BoundsAssumption DEF Sample, TelemetryTypeOK
<1>4. S \in SUBSET Requests
  BY <1>3, BoundsAssumption DEF Requests
<1>5. S \cap Accounted = {}
  BY <1>3 DEF PlaceInv
<1>. HIDE DEF S
<1>6. sending \in Seq(Seq(Row))
  BY DEF TelemetryTypeOK, Row
<1>7. Batches(Append(sending, rows)) = Batches(sending) \cup S
  BY <1>2, <1>6, BatchesAppend
<1>8. Apart(Append(sending, rows))
  BY <1>2, <1>5, <1>6, BatchesAppend DEF PlaceInv, Accounted, Underway
<1>9. {} \in SUBSET Requests /\ S \cup {} = S /\ {} \cup S = S /\ S \cup S = S
  OBVIOUS
<1>10. \/ dropped' = dropped /\ sending' = Append(sending, rows)
       \/ dropped' = dropped \cup S /\ sending' \in {sending, Append(sending, rows)}
  BY <1>2 DEF Poll, PollFails, CountDropped, rows
<1>11. CASE sending' = Append(sending, rows)
  <2>1. Underway' = Underway \cup S
    BY <1>3, <1>7, <1>11 DEF Underway
  <2>2. Accounted' = 1 .. served' /\ LedgerStep
    <3>1. CASE dropped' = dropped
      <4>1. dropped' \cup gone' = dropped \cup gone \cup {}
        BY <1>3, <3>1
      <4>. QED  BY <1>3, <1>4, <1>9, <2>1, <4>1, AcceptStep DEF S
    <3>2. CASE dropped' = dropped \cup S
      <4>1. dropped' \cup gone' = dropped \cup gone \cup S
        BY <1>3, <3>2
      <4>. QED  BY <1>3, <1>4, <1>9, <2>1, <4>1, AcceptStep DEF S
    <3>. QED  BY <1>10, <3>1, <3>2
  <2>. QED
    BY <1>3, <1>5, <1>7, <1>8, <1>11, <2>2 DEF PlaceInv, Accounted, Underway
<1>12. CASE dropped' = dropped \cup S /\ sending' = sending
  <2>1. Underway' = Underway \cup {}
    BY <1>3, <1>12 DEF Underway
  <2>2. dropped' \cup gone' = dropped \cup gone \cup S
    BY <1>3, <1>12
  <2>3. Accounted' = 1 .. served' /\ LedgerStep
    BY <1>3, <1>4, <1>9, <2>1, <2>2, AcceptStep DEF S
  <2>. QED  BY <1>3, <1>12, <2>3 DEF PlaceInv
<1>. QED  BY <1>10, <1>11, <1>12

\* What an export does to the table: every row of the batch, or none.
LEMMA InsertIsWhole ==
    ASSUME TelemetryTypeOK, NEW rows, NEW n, Insert(rows, n)
    PROVE  \/ stored' = [r \in Requests |-> IF r \in Ids(rows) THEN stored[r] + 1 ELSE stored[r]]
           \/ n # Len(rows) /\ stored' = stored
<1>1. CASE n = Len(rows)
  BY <1>1 DEF Insert, Committed
<1>2. CASE n # Len(rows)
  <2>1. stored' = [r \in Requests |-> stored[r]]
    BY <1>2 DEF Insert, Committed
  <2>. QED  BY <1>2, <2>1 DEF TelemetryTypeOK
<1>. QED  BY <1>1, <1>2

\* Where the first batch is, and where it is not.
LEMMA FirstBatch ==
    ASSUME TelemetryTypeOK, PlaceInv, sending # <<>>
    PROVE  /\ Head(sending) = sending[1] /\ 1 \in DOMAIN sending
           /\ Len(Head(sending)) \in Nat
           /\ Ids(Head(sending)) \in SUBSET Underway
           /\ Ids(Head(sending)) \in SUBSET Requests
           /\ Batches(sending) = Ids(Head(sending)) \cup Batches(Tail(sending))
           /\ Ids(Head(sending)) \cap Batches(Tail(sending)) = {}
           /\ Apart(Tail(sending))
<1>1. sending \in Seq(Seq(Row))
  BY DEF TelemetryTypeOK, Row
<1>2. /\ Head(sending) = sending[1] /\ 1 \in DOMAIN sending
      /\ Head(sending) \in Seq(Row)
  BY <1>1, TailDomain
<1>3. /\ Batches(sending) = Ids(Head(sending)) \cup Batches(Tail(sending))
      /\ Ids(Head(sending)) \cap Batches(Tail(sending)) = {}
      /\ Apart(Tail(sending))
  BY <1>1, BatchesTail DEF PlaceInv
<1>4. Ids(Head(sending)) \in SUBSET Requests /\ Len(Head(sending)) \in Nat
  BY <1>2, IdsAreRequests, LenProperties
<1>. QED  BY <1>2, <1>3, <1>4 DEF Underway

LEMMA ExportPlaces ==
    ASSUME TelemetryTypeOK, PlaceInv, Export \/ ExportDropped \/ ExportLate
    PROVE  PlaceInv' /\ LedgerStep
<1>. DEFINE S == Ids(Head(sending))
<1>1. sending # <<>>
  BY DEF Export, ExportDropped, ExportLate
<1>2. /\ S \in SUBSET Underway /\ S \in SUBSET Requests
      /\ Batches(sending) = S \cup Batches(Tail(sending))
      /\ S \cap Batches(Tail(sending)) = {}
      /\ Apart(Tail(sending)) /\ Len(Head(sending)) \in Nat
  BY <1>1, FirstBatch
<1>3. unread' = unread /\ buffer' = buffer /\ served' = served /\ gone' = gone
  BY DEF Export, ExportDropped, ExportLate
<1>4. CASE sending' = Tail(sending)
  <2>1. Underway' = Underway \ S
    <3>1. S \cap (Ids(unread) \cup Ids(buffer)) = {}
      BY <1>2 DEF PlaceInv
    <3>. HIDE DEF S
    <3>. QED  BY <1>2, <1>3, <1>4, <3>1 DEF Underway
  <2>2. Accounted' = 1 .. served' /\ LedgerStep
    <3>1. CASE Export
      <4>1. stored' = [r \in Requests |-> IF r \in S THEN stored[r] + 1 ELSE stored[r]]
        BY <3>1, InsertIsWhole DEF Export
      <4>2. dropped' \cup gone' = dropped \cup gone
        BY <1>3, <3>1 DEF Export
      <4>. QED  BY <1>2, <1>3, <2>1, <4>1, <4>2, DeliverStep
    <3>2. CASE ExportDropped
      <4>1. PICK n \in 0 .. Len(Head(sending)) : Insert(Head(sending), n)
        BY <3>2 DEF ExportDropped
      <4>2. dropped' \cup gone' = dropped \cup gone \cup S
        BY <1>3, <3>2 DEF ExportDropped
      <4>3. CASE stored' = stored
        BY <1>2, <1>3, <2>1, <4>2, <4>3, LoseStep
      <4>4. CASE stored' = [r \in Requests |-> IF r \in S THEN stored[r] + 1 ELSE stored[r]]
        BY <1>2, <1>3, <2>1, <4>2, <4>4, DeliverStep
      <4>. QED  BY <4>1, <4>3, <4>4, InsertIsWhole
    <3>3. CASE ExportLate
      <4>1. stored' = [r \in Requests |-> IF r \in S THEN stored[r] + 1 ELSE stored[r]]
        BY <3>3, InsertIsWhole DEF ExportLate
      <4>2. dropped' \cup gone' = dropped \cup gone
        BY <1>3, <3>3 DEF ExportLate
      <4>. QED  BY <1>2, <1>3, <2>1, <4>1, <4>2, DeliverStep
    <3>. QED  BY <3>1, <3>2, <3>3
  <2>. QED  BY <1>2, <1>3, <1>4, <2>2 DEF PlaceInv
<1>5. CASE ExportLate /\ sending' = sending
  <2>1. stored' = [r \in Requests |-> IF r \in S THEN stored[r] + 1 ELSE stored[r]]
    BY <1>5, InsertIsWhole DEF ExportLate
  <2>2. Underway' = Underway /\ dropped' \cup gone' = dropped \cup gone
    BY <1>3, <1>5 DEF ExportLate, Underway
  <2>3. Accounted' = 1 .. served' /\ LedgerStep
    BY <1>2, <1>3, <2>1, <2>2, DeliverStep
  <2>. QED  BY <1>3, <1>5, <2>3 DEF PlaceInv
<1>. QED  BY <1>4, <1>5 DEF Export, ExportDropped, ExportLate

LEMMA RestartCollectorPlaces ==
    ASSUME TelemetryTypeOK, PlaceInv, RestartCollector
    PROVE  PlaceInv' /\ LedgerStep
<1>. DEFINE S == Batches(sending)
<1>1. /\ sending' = <<>> /\ Batches(sending') = {}
      /\ unread' = unread /\ buffer' = buffer /\ stored' = stored /\ served' = served
      /\ dropped' \cup gone' = dropped \cup gone \cup S
  BY NothingEmpty DEF RestartCollector
<1>2. S \in SUBSET Underway
  BY DEF Underway
<1>3. Underway' = Underway \ S
  BY <1>1 DEF Underway, PlaceInv
<1>4. Accounted' = 1 .. served' /\ LedgerStep
  BY <1>1, <1>2, <1>3, LoseStep
<1>. QED  BY <1>1, <1>4, NothingEmpty DEF PlaceInv

LEMMA GiveUpPlaces ==
    ASSUME TelemetryTypeOK, PlaceInv, NEW i \in DOMAIN sending, GiveUp(i)
    PROVE  PlaceInv' /\ LedgerStep
<1>. DEFINE S == Ids(sending[i])
<1>1. /\ sending' = RemoveAt(sending, i)
      /\ unread' = unread /\ buffer' = buffer /\ stored' = stored /\ served' = served
      /\ dropped' \cup gone' = dropped \cup gone \cup S
  BY DEF GiveUp
<1>2. sending \in Seq(Seq(Row))
  BY DEF TelemetryTypeOK, Row
<1>3. /\ Batches(sending) = S \cup Batches(sending')
      /\ S \cap Batches(sending') = {}
      /\ Apart(sending')
  BY <1>1, <1>2, BatchesRemoval DEF PlaceInv
<1>. HIDE DEF S
<1>4. S \in SUBSET Underway
  BY <1>3 DEF Underway
<1>5. Underway' = Underway \ S
  BY <1>1, <1>3 DEF Underway, PlaceInv
<1>6. Accounted' = 1 .. served' /\ LedgerStep
  BY <1>1, <1>4, <1>5, LoseStep
<1>. QED  BY <1>1, <1>3, <1>6 DEF PlaceInv

\* An action that moves no row.
LEMMA StillPlaces ==
    ASSUME PlaceInv,
           UNCHANGED <<served, unread, buffer, sending, stored, dropped, gone>>
    PROVE  PlaceInv' /\ LedgerStep
<1>1. Underway' = Underway /\ dropped' \cup gone' = dropped \cup gone
  BY DEF Underway
<1>2. Accounted' = 1 .. served' /\ LedgerStep
  BY <1>1, MoveStep
<1>. QED  BY <1>2 DEF PlaceInv

LEMMA PlaceStep ==
    ASSUME TelemetryTypeOK, PlaceInv, [Next]_vars
    PROVE  PlaceInv' /\ LedgerStep
<1>1. CASE UNCHANGED vars
  BY <1>1, StillPlaces DEF vars
<1>2. ASSUME NEW a \in Addresses, NEW c \in Containers, Replace(a, c)
      PROVE  PlaceInv' /\ LedgerStep
  BY <1>2, StillPlaces DEF Replace
<1>3. CASE Rotate \/ Tick
  BY <1>3, StillPlaces DEF Rotate, Tick
<1>4. CASE Read
  BY <1>4, ReadPlaces DEF Read
<1>. QED
  BY <1>1, <1>2, <1>3, <1>4, ServePlaces, FlushPlaces, RestartShipperPlaces, PollPlaces,
     ExportPlaces, GiveUpPlaces, RestartCollectorPlaces DEF Next

LEMMA PlacesCorrect == Spec => [](TelemetryTypeOK /\ PlaceInv)
<1>1. Init => TelemetryTypeOK
  BY TypeInit
<1>2. Init => PlaceInv
  BY NothingEmpty, BoundsAssumption
     DEF Init, PlaceInv, Accounted, Underway
<1>3. TelemetryTypeOK /\ PlaceInv /\ [Next]_vars => (TelemetryTypeOK /\ PlaceInv)'
  BY TypeStep, PlaceStep
<1>. QED  BY <1>1, <1>2, <1>3, PTL DEF Spec

\* NothingVanishes holds in every state: whatever is refused, late, rotated,
\* restarted or rolled back, and in whatever order, a request that NGINX
\* logged or a sample that was taken is in the table, on its way, or in one
\* of the accounts of what was lost.
THEOREM NothingIsLostSilently == Spec => []NothingVanishes
<1>1. PlaceInv => NothingVanishes
  <2>. SUFFICES ASSUME PlaceInv, NEW r \in 1 .. served
                PROVE  \/ r \in Ids(unread) \cup Ids(buffer) \cup Batches(sending)
                       \/ stored[r] > 0
                       \/ r \in dropped \cup gone
    BY DEF NothingVanishes
  <2>. QED  BY DEF PlaceInv, Accounted, Underway
<1>. QED  BY <1>1, PlacesCorrect, PTL

\* The path implements DeliveryLedger: every step of NGINX, of the shipper,
\* of the collector and of the ingestion is one entry of the ledger or none.
THEOREM LedgerIsKept == Spec => ImplementsLedger
<1>1. Init => Ledger!Init
  BY NothingEmpty DEF Init, Ledger!Init, Underway
<1>2. TelemetryTypeOK /\ PlaceInv /\ [Next]_vars => LedgerStep
  BY PlaceStep
<1>. QED  BY <1>1, <1>2, PlacesCorrect, PTL DEF Spec, ImplementsLedger, LedgerStep

-----------------------------------------------------------------------------
(* Batches. *)

\* BatchesAreWhole: a step writes all rows of a batch or none, also when the
\* batch is written for the second time or the database fails half-way.
THEOREM BatchesWhole == Spec => BatchesAreWhole
<1>. DEFINE Whole(i) == (\E r \in Ids(sending[i]) : stored'[r] > stored[r])
                           => (\A r \in Ids(sending[i]) : stored'[r] > stored[r])
<1>1. ASSUME TelemetryTypeOK, PlaceInv, [Next]_vars
      PROVE  \A i \in DOMAIN sending : Whole(i)
  <2>. SUFFICES ASSUME NEW i \in DOMAIN sending, NEW q \in Ids(sending[i]), stored'[q] > stored[q]
                PROVE  \A r \in Ids(sending[i]) : stored'[r] > stored[r]
    OBVIOUS
  <2>1. Ids(sending[i]) \subseteq Requests
    <3>1. sending \in Seq(Seq(Row))
      BY <1>1 DEF TelemetryTypeOK, Row
    <3>. QED  BY <3>1, IdsAreRequests DEF Batches
  <2>2. ~(stored[q] > stored[q])
    BY <1>1, <2>1 DEF TelemetryTypeOK
  <2>3. stored' # stored
    BY <2>2
  <2>4. Export \/ ExportDropped \/ ExportLate
    BY <1>1, <2>3 DEF Next, vars, Replace, Serve, Rotate, Read, ReadLine, Flush, FlushFails,
          RestartShipper, Poll, PollFails, Sample, GiveUp, RestartCollector, Tick
  <2>5. sending # <<>> /\ \E n \in Nat : Insert(Head(sending), n)
    <3>1. sending # <<>>
      BY <2>4 DEF Export, ExportDropped, ExportLate
    <3>2. Len(Head(sending)) \in Nat
      BY <1>1, <3>1, FirstBatch
    <3>. QED  BY <2>4, <3>1, <3>2 DEF Export, ExportDropped, ExportLate
  <2>6. stored' = [r \in Requests |->
                      IF r \in Ids(Head(sending)) THEN stored[r] + 1 ELSE stored[r]]
    BY <1>1, <2>3, <2>5, InsertIsWhole
  <2>7. q \in Ids(sending[1]) /\ 1 \in DOMAIN sending /\ Head(sending) = sending[1]
    BY <1>1, <2>1, <2>2, <2>5, <2>6, FirstBatch
  <2>8. i = 1
    BY <1>1, <2>7 DEF PlaceInv, Apart
  <2>. QED  BY <1>1, <2>1, <2>6, <2>7, <2>8 DEF TelemetryTypeOK
<1>. QED  BY <1>1, PlacesCorrect, PTL DEF Spec, BatchesAreWhole

-----------------------------------------------------------------------------
(* Copies. *)

\* What has not reached the collector has no copy, and what waits for an
\* export has one for every late answer at the most.
CopiesInv ==
    \A r \in Requests :
        /\ r \in Ids(unread) \cup Ids(buffer) => stored[r] = 0
        /\ r \in Batches(sending) => stored[r] <= late[r]
        /\ stored[r] <= 1 + late[r]

LEMMA CopiesStep ==
    ASSUME TelemetryTypeOK, PlaceInv, CopiesInv, [Next]_vars
    PROVE  CopiesInv'
<1>. USE DEF CopiesInv
<1>0. /\ stored \in [Requests -> Nat] /\ late \in [Requests -> Nat] /\ served \in Nat
      /\ unread \in Seq(Line) /\ buffer \in Seq(Row) /\ sending \in Seq(Seq(Row))
  BY BoundsAssumption DEF TelemetryTypeOK, Line, Row
<1>1. ASSUME UNCHANGED <<unread, buffer, sending, stored, late>>
      PROVE  CopiesInv'
  BY <1>0, <1>1
<1>2. ASSUME UNCHANGED <<stored, late>>,
             \A q \in Requests : q \in Ids(unread') \cup Ids(buffer')
                => q \in Ids(unread) \cup Ids(buffer) \/ stored[q] = 0,
             \A q \in Requests : q \in Batches(sending')
                => q \in Batches(sending) \/ stored[q] = 0
      PROVE  CopiesInv'
  BY <1>0, <1>2
<1>3. ASSUME NEW a \in Addresses, Serve(a) PROVE CopiesInv'
  <2>1. served + 1 \in Nat /\ served + 1 > served /\ served + 1 \in Requests
    BY <1>0, <1>3, BoundsAssumption DEF Serve, Requests
  <2>2. stored[served + 1] = 0
    BY <2>1, NewIsFresh DEF Ledger!Fresh
  <2>3. Ids(unread') \subseteq Ids(unread) \cup {served + 1}
    <3>. DEFINE line == [id |-> served + 1, addr |-> a]
    <3>1. line \in Line
      BY <2>1 DEF Line
    <3>2. unread' \in {unread, Append(unread, line)}
      BY <1>3 DEF Serve
    <3>3. line.id = served + 1
      OBVIOUS
    <3>. HIDE DEF line
    <3>4. Ids(Append(unread, line)) = Ids(unread) \cup {served + 1}
      BY <1>0, <3>1, <3>3, IdsAppend
    <3>. QED  BY <3>2, <3>4
  <2>. QED  BY <1>2, <1>3, <2>2, <2>3 DEF Serve
<1>4. ASSUME NEW answered \in BOOLEAN, ReadLine(answered) PROVE CopiesInv'
  <2>1. Ids(unread') \cup Ids(buffer') \subseteq Ids(unread) \cup Ids(buffer)
    BY <1>4, ReadMoves
  <2>. QED  BY <1>2, <1>4, <2>1 DEF ReadLine
<1>5. CASE Flush \/ FlushFails
  <2>2. Batches(Append(sending, buffer)) = Batches(sending) \cup Ids(buffer)
    BY <1>0, BatchesAppend
  <2>3. Ids(unread') \cup Ids(buffer') \subseteq Ids(unread)
    BY <1>5, NothingEmpty DEF Flush, FlushFails
  <2>4. Batches(sending') \subseteq Batches(sending) \cup Ids(buffer)
    BY <1>5, <2>2 DEF Flush, FlushFails
  <2>. QED  BY <1>2, <1>5, <2>3, <2>4 DEF Flush, FlushFails
<1>6. CASE RestartShipper
  <2>1. Ids(unread') \cup Ids(buffer') = {}
    BY <1>6, NothingEmpty DEF RestartShipper
  <2>. QED  BY <1>2, <1>6, <2>1 DEF RestartShipper
<1>7. ASSUME NEW C \in SUBSET Addresses, Poll(C) \/ PollFails(C)
      PROVE  CopiesInv'
  <2>1. Sample(C)
    BY <1>7 DEF Poll, PollFails
  <2>2. /\ Sampled(C) \in Seq(Row) /\ Cardinality(C) \in Nat
        /\ Ids(Sampled(C)) = (served + 1) .. served'
    BY <2>1, SampledRows
  <2>3. served' \in Nat
    BY <1>0, <2>1, <2>2 DEF Sample
  <2>4. Batches(sending') \subseteq Batches(sending) \cup Ids(Sampled(C))
    <3>. DEFINE rows == Sampled(C)
    <3>. HIDE DEF rows
    <3>1. Batches(Append(sending, rows)) = Batches(sending) \cup Ids(rows)
      <4>1. rows \in Seq(Row)
        BY <2>2 DEF rows
      <4>. QED  BY <1>0, <4>1, BatchesAppend
    <3>. QED  BY <1>7, <3>1 DEF Poll, PollFails, rows
  <2>5. \A q \in Requests : q \in Ids(Sampled(C)) => stored[q] = 0
    <3>. SUFFICES ASSUME NEW q \in Requests, q \in (served + 1) .. served' PROVE stored[q] = 0
      BY <2>2
    <3>1. q \in Nat /\ q > served
      BY <1>0, <2>3
    <3>. QED  BY <3>1, NewIsFresh DEF Ledger!Fresh
  <2>. QED  BY <1>2, <1>7, <2>1, <2>4, <2>5 DEF Sample, Poll, PollFails
<1>8. CASE Export \/ ExportDropped \/ ExportLate
  <2>. DEFINE S == Ids(Head(sending))
  <2>1. sending # <<>>
    BY <1>8 DEF Export, ExportDropped, ExportLate
  <2>2. /\ S \in SUBSET Underway /\ S \in SUBSET Requests
        /\ Batches(sending) = S \cup Batches(Tail(sending))
        /\ S \cap Batches(Tail(sending)) = {} /\ Len(Head(sending)) \in Nat
    BY <2>1, FirstBatch
  <2>3. S \cap (Ids(unread) \cup Ids(buffer)) = {}
    BY <2>2 DEF PlaceInv
  <2>7. \E n \in 0 .. Len(Head(sending)) : Insert(Head(sending), n)
    BY <1>8, <2>2 DEF Export, ExportDropped, ExportLate
  <2>8. \/ stored' = stored /\ ~ExportLate
        \/ stored' = [r \in Requests |-> IF r \in S THEN stored[r] + 1 ELSE stored[r]]
    <3>1. CASE ExportLate
      BY <3>1, InsertIsWhole DEF ExportLate
    <3>2. CASE ~ExportLate
      BY <2>7, <3>2, InsertIsWhole
    <3>. QED  BY <3>1, <3>2
  <2>. HIDE DEF S
  <2>4. unread' = unread /\ buffer' = buffer
    BY <1>8 DEF Export, ExportDropped, ExportLate
  <2>5. CASE stored' = stored /\ ~ExportLate
    <3>1. sending' = Tail(sending) /\ UNCHANGED late
      BY <1>8, <2>5 DEF Export, ExportDropped
    <3>. QED  BY <1>2, <2>2, <2>4, <2>5, <3>1
  <2>6. CASE stored' = [r \in Requests |-> IF r \in S THEN stored[r] + 1 ELSE stored[r]]
    <3>1. \/ late' = late /\ sending' = Tail(sending)
          \/ /\ late' = [r \in Requests |-> IF r \in S THEN late[r] + 1 ELSE late[r]]
             /\ sending' = sending
      BY <1>8 DEF Export, ExportDropped, ExportLate, S
    <3>2. ASSUME NEW r \in Requests
          PROVE  /\ r \in Ids(unread') \cup Ids(buffer') => stored'[r] = 0
                 /\ r \in Batches(sending') => stored'[r] <= late'[r]
                 /\ stored'[r] <= 1 + late'[r]
      <4>1. /\ stored[r] \in Nat /\ late[r] \in Nat
            /\ stored'[r] = IF r \in S THEN stored[r] + 1 ELSE stored[r]
            /\ Ids(unread') = Ids(unread) /\ Ids(buffer') = Ids(buffer)
        BY <1>0, <2>4, <2>6
      <4>2. r \in S => r \notin Ids(unread) \cup Ids(buffer) /\ stored[r] <= late[r]
        BY <2>2, <2>3
      <4>3. CASE late' = late /\ sending' = Tail(sending)
        <5>1. r \in Batches(sending') => r \notin S /\ stored[r] <= late[r]
          BY <2>2, <4>3
        <5>. QED  BY <4>1, <4>2, <4>3, <5>1
      <4>4. CASE /\ late' = [q \in Requests |-> IF q \in S THEN late[q] + 1 ELSE late[q]]
                 /\ sending' = sending
        <5>1. late'[r] = IF r \in S THEN late[r] + 1 ELSE late[r]
          BY <4>4
        <5>2. r \in Batches(sending') => stored[r] <= late[r]
          BY <4>4
        <5>. QED  BY <4>1, <4>2, <5>1, <5>2
      <4>. QED  BY <3>1, <4>3, <4>4
    <3>. QED  BY <3>2
  <2>. QED  BY <2>5, <2>6, <2>8
<1>9. CASE RestartCollector
  BY <1>2, <1>9, NothingEmpty DEF RestartCollector
<1>11. ASSUME NEW i \in DOMAIN sending, GiveUp(i) PROVE CopiesInv'
  <2>1. Batches(sending') \subseteq Batches(sending)
    BY <1>0, <1>11, BatchesRemoval DEF GiveUp
  <2>. QED  BY <1>2, <1>11, <2>1 DEF GiveUp
<1>10. CASE Rotate
  BY <1>2, <1>10 DEF Rotate
<1>. QED
  BY <1>1, <1>3, <1>4, <1>5, <1>6, <1>7, <1>8, <1>9, <1>10, <1>11
     DEF Next, Read, Replace, Tick, vars

\* CopiesAreExplained holds in every state: no request has more copies in the
\* table than one and the late answers to its own inserts.  What was posted
\* and refused, or taken although the answer was late, is never posted again.
THEOREM CopiesExplained == Spec => []CopiesAreExplained
<1>1. Init => CopiesInv
  BY NothingEmpty DEF Init, CopiesInv
<1>2. TelemetryTypeOK /\ PlaceInv /\ CopiesInv /\ [Next]_vars => CopiesInv'
  BY CopiesStep
<1>3. CopiesInv => CopiesAreExplained
  BY DEF CopiesInv, CopiesAreExplained
<1>. QED  BY <1>1, <1>2, <1>3, PlacesCorrect, PTL DEF Spec

-----------------------------------------------------------------------------
(* Names. *)

\* What an address resolved to is its container's, or was before the
\* container had it longer than the entry has already been kept.
CacheInv ==
    \A a \in Addresses :
        cache[a].left > 0
            => \/ cache[a].name \in {owner[a], a}
               \/ tenure[a] + cache[a].left <= Ttl

LEMMA CacheStep ==
    ASSUME TelemetryTypeOK, CacheInv, [Next]_vars
    PROVE  CacheInv'
<1>. USE TtlAssumption DEF CacheInv
<1>1. CASE UNCHANGED <<owner, tenure, cache>>
  BY <1>1
<1>2. ASSUME NEW a \in Addresses, NEW c \in Containers, Replace(a, c) PROVE CacheInv'
  BY <1>2 DEF Replace, TelemetryTypeOK
<1>3. ASSUME NEW answered \in BOOLEAN, ReadLine(answered) PROVE CacheInv'
  BY <1>3 DEF ReadLine, AfterHit, Resolved, TelemetryTypeOK
<1>4. CASE RestartShipper
  BY <1>4 DEF RestartShipper
<1>5. CASE Tick
  <2>. SUFFICES ASSUME NEW a \in Addresses, cache'[a].left > 0
                PROVE  \/ cache'[a].name \in {owner'[a], a}
                       \/ tenure'[a] + cache'[a].left <= Ttl
    OBVIOUS
  <2>1. cache[a] \in [name : Containers \cup Addresses, left : 0 .. Ttl] /\ tenure[a] \in 0 .. Ttl
    BY DEF TelemetryTypeOK
  <2>2. cache'[a] = [cache[a] EXCEPT !.left = IF @ > 0 THEN @ - 1 ELSE 0]
    BY <1>5 DEF Tick
  <2>3. cache'[a].name = cache[a].name /\ cache[a].left > 0 /\ cache'[a].left = cache[a].left - 1
    BY <2>1, <2>2
  <2>4. owner' = owner /\ tenure'[a] = Later(tenure[a])
    BY <1>5 DEF Tick
  <2>. QED  BY <2>1, <2>3, <2>4 DEF Later
<1>. QED
  BY <1>1, <1>2, <1>3, <1>4, <1>5
     DEF Next, vars, Serve, Rotate, Read, Flush, FlushFails, Poll, PollFails, Sample, Export,
         ExportDropped, ExportLate, GiveUp, RestartCollector

\* OldOwnerIsForgotten: once a container has had its address for a time to
\* live, no line is put down to the one before it, however many look-ups hit
\* or failed and whenever the address changed hands.
THEOREM OldOwnersForgotten == Spec => OldOwnerIsForgotten
<1>1. Init => TelemetryTypeOK /\ CacheInv
  BY TypeInit DEF Init, CacheInv
<1>2. TelemetryTypeOK /\ CacheInv /\ [Next]_vars => (TelemetryTypeOK /\ CacheInv)'
  BY TypeStep, CacheStep
<1>3. Spec => [](TelemetryTypeOK /\ CacheInv)
  BY <1>1, <1>2, PTL DEF Spec
<1>4. ASSUME TelemetryTypeOK, CacheInv
      PROVE  \A a \in Addresses :
                (Read /\ Head(unread).addr = a /\ tenure[a] = Ttl)
                    => buffer'[Len(buffer')].name \in {owner[a], a}
  <2>. SUFFICES ASSUME NEW a \in Addresses, Read, Head(unread).addr = a, tenure[a] = Ttl
                PROVE  buffer'[Len(buffer')].name \in {owner[a], a}
    OBVIOUS
  <2>1. PICK answered \in BOOLEAN : ReadLine(answered)
    BY DEF Read
  <2>. DEFINE entry == IF cache[a].left > 0 THEN AfterHit(cache[a])
                       ELSE [name |-> Resolved(a, answered), left |-> Ttl]
              row == [id |-> Head(unread).id, name |-> entry.name]
  <2>2. entry.name \in {owner[a], a}
    BY <1>4, TtlAssumption DEF CacheInv, TelemetryTypeOK, AfterHit, Resolved
  <2>3. buffer' = Append(buffer, row)
    BY <2>1 DEF ReadLine
  <2>4. row \in Row
    <3>1. unread \in Seq(Line) /\ unread # <<>>
      BY <1>4, <2>1 DEF ReadLine, TelemetryTypeOK, Line
    <3>2. Head(unread) \in Line
      BY <3>1, HeadTailProperties
    <3>3. entry.name \in Containers \cup Addresses
      BY <1>4, <2>2 DEF TelemetryTypeOK
    <3>. HIDE DEF entry
    <3>. QED  BY <3>2, <3>3 DEF Line, Row
  <2>. HIDE DEF entry
  <2>5. buffer'[Len(buffer')] = row
    <3>1. buffer \in Seq(Row)
      BY <1>4 DEF TelemetryTypeOK, Row
    <3>. QED  BY <2>3, <2>4, <3>1, AppendProperties
  <2>. QED  BY <2>2, <2>5
<1>. QED  BY <1>3, <1>4, PTL DEF Spec, OldOwnerIsForgotten
=============================================================================
