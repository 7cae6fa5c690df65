-------------------------- MODULE LiveEngines_proofs -------------------------
(* Theorems about LiveEngines, for any channels, streams, capacities and   *)
(* bounds.                                                                 *)
EXTENDS LiveEngines, SequenceTheorems, TLAPS

Message == Channels \X Entries

\* What NoGap rests on: only a stream that was registered has entries due,
\* and only one that copied the rings has a copy; there is a message in hand
\* whenever the thread works on one.
LiveInv ==
    /\ LiveEnginesTypeOK
    /\ stage # "listen" => hand \in Message
    /\ \A s \in Streams : conn[s] = "closed" => due[s] = {}
    /\ \A s \in Streams : conn[s] \in {"closed", "open"} => replay[s] = {}
    /\ NoGap

-----------------------------------------------------------------------------
LEMMA LastOfSequence ==
    ASSUME NEW S, NEW seq \in Seq(S), NEW n \in Nat \ {0}
    PROVE  /\ LastOf(seq, n) \in Seq(S)
           /\ Len(LastOf(seq, n)) <= n
<1>1. CASE Len(seq) > n
  <2>1. Len(seq) - n + 1 \in 1 .. Len(seq) + 1 /\ Len(seq) \in Nat
    BY <1>1, LenProperties
  <2>. DEFINE low == Len(seq) - n + 1
  <2>2. \A i \in low .. Len(seq) : seq[i] \in S
    BY <2>1, ElementOfSeq
  <2>3. SubSeq(seq, low, Len(seq)) \in Seq(S)
    BY <2>1, <2>2, SubSeqProperties
  <2>4. Len(SubSeq(seq, low, Len(seq))) <= n
    BY <2>1, SubSeqProperties
  <2>. QED  BY <1>1, <2>3, <2>4 DEF LastOf
<1>2. CASE ~(Len(seq) > n)
  BY <1>2, SubSeqFull, LenProperties DEF LastOf
<1>. QED  BY <1>1, <1>2

LEMMA EntriesInAppend ==
    ASSUME NEW S, NEW seq \in Seq(S), NEW e \in S
    PROVE  /\ Append(seq, e) \in Seq(S)
           /\ Len(Append(seq, e)) = Len(seq) + 1
           /\ ToSet(Append(seq, e)) = ToSet(seq) \cup {e}
<1>1. /\ Append(seq, e) \in Seq(S)
      /\ Len(Append(seq, e)) = Len(seq) + 1
      /\ \A i \in 1 .. Len(seq) : Append(seq, e)[i] = seq[i]
      /\ Append(seq, e)[Len(seq) + 1] = e
  BY AppendProperties
<1>2. Len(seq) \in Nat
  BY LenProperties
<1>3. DOMAIN Append(seq, e) = 1 .. Len(seq) + 1 /\ DOMAIN seq = 1 .. Len(seq)
  BY <1>1, LenProperties
<1>. QED  BY <1>1, <1>2, <1>3 DEF ToSet

LEMMA EntriesInTail ==
    ASSUME NEW S, NEW seq \in Seq(S), seq # <<>>
    PROVE  /\ Head(seq) \in S
           /\ Tail(seq) \in Seq(S)
           /\ Len(Tail(seq)) < Len(seq)
           /\ ToSet(seq) \subseteq ToSet(Tail(seq)) \cup {Head(seq)}
<1>1. /\ Head(seq) \in S
      /\ Tail(seq) \in Seq(S)
      /\ Len(Tail(seq)) = Len(seq) - 1
      /\ \A i \in 1 .. Len(Tail(seq)) : Tail(seq)[i] = seq[i + 1]
  BY HeadTailProperties
<1>2. Len(seq) \in Nat \ {0}
  BY EmptySeq, LenProperties
<1>3. DOMAIN seq = 1 .. Len(seq) /\ DOMAIN Tail(seq) = 1 .. (Len(seq) - 1)
  BY <1>1, LenProperties
<1>4. Head(seq) = seq[1]
  OBVIOUS
<1>5. ASSUME NEW i \in 1 .. Len(seq), i # 1
      PROVE  seq[i] \in ToSet(Tail(seq))
  <2>1. i - 1 \in 1 .. (Len(seq) - 1) /\ Tail(seq)[i - 1] = seq[i]
    BY <1>1, <1>2, <1>5
  <2>. QED  BY <1>3, <2>1 DEF ToSet
<1>. QED  BY <1>1, <1>2, <1>3, <1>4, <1>5 DEF ToSet

LEMMA RecentIsEntries ==
    ASSUME NEW rings \in [Channels -> Seq(Entries)]
    PROVE  Recent(rings) \subseteq Entries
<1>1. ASSUME NEW c \in Channels PROVE ToSet(rings[c]) \subseteq Entries
  BY LenProperties, ElementOfSeq DEF ToSet
<1>. QED  BY <1>1 DEF Recent

LEMMA MessageParts ==
    ASSUME NEW e \in Message
    PROVE  e[1] \in Channels /\ e[2] \in Entries
BY DEF Message

-----------------------------------------------------------------------------
LEMMA LiveInvInit == Init => LiveInv
<1>. SUFFICES ASSUME Init PROVE LiveInv
  OBVIOUS
<1>1. <<>> \in Seq(Entries) /\ <<>> \in Seq(Channels \X Entries) /\ Len(<<>>) = 0
  BY EmptySeq
<1>2. LiveEnginesTypeOK
  <2>1. /\ ring \in [Channels -> Seq(Entries)]
        /\ \A c \in Channels : Len(ring[c]) <= RingCapacity
    BY <1>1, CapacitiesAssumption DEF Init
  <2>2. /\ queue \in [Streams -> Seq(Entries)]
        /\ \A s \in Streams : Len(queue[s]) <= QueueCapacity
    BY <1>1, CapacitiesAssumption DEF Init
  <2>3. /\ published \in 0 .. MaxEvents
        /\ wire \in Seq(Channels \X Entries)
        /\ hand = NoMessage
    BY <1>1, MaxEventsAssumption DEF Init
  <2>4. /\ silence \in [Streams -> Nat]
        /\ due \in [Streams -> SUBSET Entries]
        /\ replay \in [Streams -> SUBSET Entries]
    BY DEF Init
  <2>. QED  BY <2>1, <2>2, <2>3, <2>4 DEF Init, LiveEnginesTypeOK
<1>3. \A s \in Streams : due[s] = {} /\ replay[s] = {}
  BY DEF Init
<1>4. stage = "listen"
  BY DEF Init
<1>5. NoGap
  BY <1>3 DEF NoGap
<1>. QED  BY <1>2, <1>3, <1>4, <1>5 DEF LiveInv

LEMMA LiveInvNext == LiveInv /\ [Next]_vars => LiveInv'
<1>. SUFFICES ASSUME LiveInv, [Next]_vars PROVE LiveInv'
  OBVIOUS
<1>. USE DEF LiveInv, LiveEnginesTypeOK, NoGap, Underway, feedVars, streamVars
<1>1. ASSUME NEW c \in Channels, Publish(c) PROVE LiveInv'
  <2>1. published + 1 \in Entries /\ published' \in 0 .. MaxEvents
    BY <1>1, MaxEventsAssumption DEF Publish, Entries
  <2>2. Append(wire, <<c, published + 1>>) \in Seq(Channels \X Entries)
    BY <2>1, EntriesInAppend
  <2>. QED  BY <1>1, <2>1, <2>2 DEF Publish
<1>2. CASE Connect
  BY <1>2 DEF Connect
<1>3. CASE Disconnect
  BY <1>3, EmptySeq DEF Disconnect
<1>4. CASE Take
  <2>1. hand' \in Message /\ wire' \in Seq(Channels \X Entries)
    BY <1>4, EntriesInTail DEF Take, Message
  <2>2. stage' = "append"
    BY <1>4 DEF Take, Follows
  <2>. QED  BY <1>4, <2>1, <2>2 DEF Take, Message
<1>5. CASE AppendToRing
  <2>. DEFINE c == hand[1]  n == hand[2]
  <2>1. c \in Channels /\ n \in Entries
    BY <1>5, MessageParts DEF AppendToRing
  <2>2. /\ LastOf(Append(ring[c], n), RingCapacity) \in Seq(Entries)
        /\ Len(LastOf(Append(ring[c], n), RingCapacity)) <= RingCapacity
    <3>1. Append(ring[c], n) \in Seq(Entries)
      BY <2>1, EntriesInAppend
    <3>. QED  BY ONLY <3>1, LastOfSequence, CapacitiesAssumption
  <2>3. ring' = [ring EXCEPT ![c] = LastOf(Append(ring[c], n), RingCapacity)]
    BY <1>5 DEF AppendToRing
  <2>4. /\ ring' \in [Channels -> Seq(Entries)]
        /\ \A d \in Channels : Len(ring'[d]) <= RingCapacity
    BY <2>1, <2>2, <2>3
  <2>5. /\ due' \in [Streams -> SUBSET Entries]
        /\ \A s \in Streams : /\ due'[s] \subseteq due[s] \cup {n}
                              /\ conn[s] = "closed" => due'[s] = {}
    BY <1>5, <2>1 DEF AppendToRing, Open
  <2>6. /\ stage = "append" /\ stage' = "broadcast"
        /\ UNCHANGED <<published, link, wire, hand, todo, conn, queue, replay, silence>>
    BY <1>5 DEF AppendToRing, Follows
  <2>. QED  BY <2>4, <2>5, <2>6
<1>6. CASE CopySubscribers
  <2>1. \A s \in Streams : due[s] # {} => s \in todo'
    BY <1>6 DEF CopySubscribers, Open
  <2>. QED  BY <1>6, <2>1 DEF CopySubscribers, Open
<1>7. ASSUME NEW s \in Streams, Put(s) PROVE LiveInv'
  <2>1. hand[2] \in Entries
    BY <1>7, MessageParts DEF Put
  <2>2. CASE Len(queue[s]) < QueueCapacity
    <3>. DEFINE longer == Append(queue[s], hand[2])
    <3>1. /\ longer \in Seq(Entries)
          /\ Len(longer) = Len(queue[s]) + 1
          /\ ToSet(longer) = ToSet(queue[s]) \cup {hand[2]}
      BY <2>1, EntriesInAppend
    <3>2. Len(longer) <= QueueCapacity
      BY <2>2, <3>1, LenProperties, CapacitiesAssumption
    <3>3. queue' = [queue EXCEPT ![s] = longer] /\ todo' = todo \ {s}
      BY <1>7, <2>2 DEF Put
    <3>4. UNCHANGED <<published, link, wire, stage, hand, ring, conn, replay, silence, due>>
      BY <1>7, <2>2 DEF Put
    <3>. HIDE DEF longer
    <3>5. LiveEnginesTypeOK'
      BY <3>1, <3>2, <3>3, <3>4
    <3>6. NoGap'
      <4>1. SUFFICES ASSUME NEW r \in Streams, NEW n \in due[r]
                     PROVE  n \in replay[r] \cup ToSet(queue'[r]) \/ Underway(n, r)'
        BY <3>4
      <4>2. CASE r = s
        BY <3>1, <3>3, <3>4, <4>2
      <4>3. CASE r # s
        BY <3>3, <3>4, <4>3
      <4>. QED  BY <4>2, <4>3
    <3>. QED  BY <3>4, <3>5, <3>6
  <2>3. CASE ~(Len(queue[s]) < QueueCapacity)
    <3>1. due' = [due EXCEPT ![s] = @ \ {hand[2]}] /\ todo' = todo \ {s}
      BY <1>7, <2>3 DEF Put
    <3>2. UNCHANGED <<published, link, wire, stage, hand, ring, conn, queue, replay, silence>>
      BY <1>7, <2>3 DEF Put
    <3>3. NoGap'
      BY <3>1, <3>2
    <3>. QED  BY <3>1, <3>2, <3>3
  <2>. QED  BY <2>2, <2>3
<1>8. CASE EndBroadcast
  BY <1>8 DEF EndBroadcast, Follows
<1>9. ASSUME NEW s \in Streams, Register(s) PROVE LiveInv'
  BY <1>9 DEF Register
<1>10. ASSUME NEW s \in Streams, CopyRing(s) PROVE LiveInv'
  BY <1>10, RecentIsEntries DEF CopyRing
<1>11. ASSUME NEW s \in Streams, SendReplay(s) PROVE LiveInv'
  BY <1>11 DEF SendReplay
<1>12. ASSUME NEW s \in Streams, SendLive(s) PROVE LiveInv'
  <2>. DEFINE rest == Tail(queue[s])  first == Head(queue[s])
  <2>1. /\ rest \in Seq(Entries)
        /\ Len(rest) < Len(queue[s])
        /\ ToSet(queue[s]) \subseteq ToSet(rest) \cup {first}
    BY <1>12, EntriesInTail DEF SendLive
  <2>2. Len(rest) <= QueueCapacity
    BY <2>1, LenProperties, CapacitiesAssumption
  <2>3. /\ queue' = [queue EXCEPT ![s] = rest]
        /\ due' = [due EXCEPT ![s] = @ \ {first}]
        /\ silence' = [silence EXCEPT ![s] = 0]
        /\ UNCHANGED <<feedVars, conn, replay>>
    BY <1>12 DEF SendLive
  <2>. HIDE DEF rest, first
  <2>4. LiveEnginesTypeOK'
    BY <2>1, <2>2, <2>3
  <2>5. NoGap'
    BY <2>1, <2>3
  <2>. QED  BY <2>3, <2>4, <2>5
<1>13. ASSUME NEW s \in Streams, SendHeartbeat(s) PROVE LiveInv'
  BY <1>13 DEF SendHeartbeat
<1>14. ASSUME NEW s \in Streams, ClientLeaves(s) PROVE LiveInv'
  BY <1>14 DEF ClientLeaves
<1>15. ASSUME NEW s \in Streams, ReadTimesOut(s) PROVE LiveInv'
  BY <1>15 DEF ReadTimesOut
<1>16. ASSUME NEW s \in Streams, Unregister(s) PROVE LiveInv'
  <2>1. <<>> \in Seq(Entries) /\ Len(<<>>) = 0
    BY EmptySeq
  <2>. QED  BY <1>16, <2>1, CapacitiesAssumption DEF Unregister
<1>17. CASE Tick
  BY <1>17 DEF Tick
<1>18. CASE UNCHANGED vars
  BY <1>18 DEF vars
<1>. QED
  BY <1>1, <1>2, <1>3, <1>4, <1>5, <1>6, <1>7, <1>8, <1>9, <1>10, <1>11, <1>12,
     <1>13, <1>14, <1>15, <1>16, <1>17, <1>18 DEF Next, FeedNext, StreamNext

\* The feed leaves no gap between the replay and the live part of a stream,
\* however the request, the generator and the feed's thread interleave.
THEOREM ReplayMeetsLive == Spec => []NoGap
<1>1. LiveInv => NoGap
  BY DEF LiveInv
<1>. QED  BY LiveInvInit, LiveInvNext, <1>1, PTL DEF Spec

\* Every reachable state is well typed.
THEOREM LiveTypeCorrect == Spec => []LiveEnginesTypeOK
<1>1. LiveInv => LiveEnginesTypeOK
  BY DEF LiveInv
<1>. QED  BY LiveInvInit, LiveInvNext, <1>1, PTL DEF Spec

-----------------------------------------------------------------------------
\* No stream is silent for longer than a heartbeat.
QuietInv ==
    /\ silence \in [Streams -> 0 .. Heartbeat]
    /\ conn \in [Streams -> {"closed", "open", "live", "left", "ended"}]
    /\ SilenceEndsNoStream

\* A client whose read timeout is longer than the heartbeat never loses its
\* stream to silence, whatever the other streams do.
THEOREM HeartbeatKeepsStreams == Spec => []SilenceEndsNoStream
<1>1. Init => QuietInv
  BY TicksAssumption DEF Init, QuietInv, SilenceEndsNoStream
<1>2. QuietInv /\ [Next]_vars => QuietInv'
  <2>. SUFFICES ASSUME QuietInv, [Next]_vars PROVE QuietInv'
    OBVIOUS
  <2>. USE TicksAssumption DEF QuietInv, SilenceEndsNoStream, feedVars, streamVars
  <2>1. ASSUME NEW c \in Channels, Publish(c) PROVE QuietInv'
    BY <2>1 DEF Publish
  <2>2. CASE FeedNext
    <3>1. UNCHANGED <<conn, silence>>
      BY <2>2 DEF FeedNext, Connect, Disconnect, Take, AppendToRing, CopySubscribers,
                  Put, EndBroadcast
    <3>. QED  BY <3>1
  <2>3. ASSUME NEW s \in Streams, StreamNext(s) PROVE QuietInv'
    <3>1. CASE Register(s) \/ CopyRing(s)
      BY <3>1 DEF Register, CopyRing
    <3>2. CASE SendReplay(s) \/ SendLive(s) \/ SendHeartbeat(s)
      BY <3>2 DEF SendReplay, SendLive, SendHeartbeat
    <3>3. CASE ClientLeaves(s) \/ Unregister(s)
      <4>1. /\ \/ conn' = [conn EXCEPT ![s] = "left"]
               \/ conn' = [conn EXCEPT ![s] = "closed"]
            /\ silence' = silence \/ silence' = [silence EXCEPT ![s] = 0]
        BY <3>3 DEF ClientLeaves, Unregister
      <4>. HIDE DEF feedVars, streamVars
      <4>. QED  BY <4>1
    <3>4. CASE ReadTimesOut(s)
      <4>1. silence[s] \in 0 .. Heartbeat /\ silence[s] >= ReadTimeout[s]
        BY <3>4 DEF ReadTimesOut
      <4>2. ReadTimeout[s] \in Nat /\ ~(ReadTimeout[s] > Heartbeat)
        BY <4>1
      <4>3. conn' = [conn EXCEPT ![s] = "ended"] /\ silence' = silence
        BY <3>4 DEF ReadTimesOut, feedVars
      <4>. QED  BY <4>2, <4>3
    <3>. QED  BY <2>3, <3>1, <3>2, <3>3, <3>4 DEF StreamNext
  <2>4. CASE Tick
    <3>1. \A s \in Streams : conn[s] = "live" => silence[s] < Heartbeat
      BY <2>4 DEF Tick, HeartbeatDue
    <3>. QED  BY <2>4, <3>1 DEF Tick
  <2>5. CASE UNCHANGED vars
    BY <2>5 DEF vars
  <2>. QED  BY <2>1, <2>2, <2>3, <2>4, <2>5 DEF Next
<1>3. QuietInv => SilenceEndsNoStream
  BY DEF QuietInv
<1>. QED  BY <1>1, <1>2, <1>3, PTL DEF Spec
=============================================================================
