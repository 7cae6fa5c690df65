---------------------------- MODULE LiveEngines -----------------------------
(***************************************************************************)
(* The live feed of the operator UI: services/operator-ui/bff/engines.py,  *)
(* the stream endpoint of bff/app.py, and the stream's client in           *)
(* clients/python/smartload_client/engines.py.                             *)
(*                                                                         *)
(* One thread takes messages from Redis, appends each to a ring per        *)
(* channel and puts it into the queue of every open stream.  A request for *)
(* a stream registers a queue, then copies the rings, and its generator    *)
(* sends the copy followed by what comes in on the queue.  The ring, the   *)
(* bus and each queue have a lock of their own and nothing spans them.     *)
(*                                                                         *)
(* An entry is its number in the order of publication, which is the order  *)
(* of its timestamp.  This is one worker process: the server runs two,     *)
(* each with a feed of its own.                                            *)
(***************************************************************************)
EXTENDS Integers, SequencesExt

CONSTANTS
    Channels,       \* what the feed subscribes to
    Streams,        \* connections that may be open at once
    RingCapacity,   \* entries kept for each channel
    QueueCapacity,  \* entries that wait for one stream
    Heartbeat,      \* ticks of silence after which a stream sends a comment
    ReadTimeout,    \* for each stream: ticks of silence after which its client gives up
    MaxEvents       \* bound: messages published

Entries == 1 .. MaxEvents

ASSUME CapacitiesAssumption == /\ RingCapacity \in Nat \ {0}
                               /\ QueueCapacity \in Nat \ {0}
ASSUME TicksAssumption == /\ Heartbeat \in Nat \ {0}
                          /\ ReadTimeout \in [Streams -> Nat \ {0}]
ASSUME MaxEventsAssumption == MaxEvents \in Nat

VARIABLES
    published,      \* how many messages have been published
    link,           \* is the feed subscribed to Redis
    wire,           \* messages on its connection: channel and number
    stage,          \* what subscriber_loop does next with the message in hand
    hand,           \* that message
    todo,           \* streams whose queue bus.broadcast still has to fill
    ring,           \* RingBuffer._buf
    conn,           \* each stream: closed, open, live, left by its client, ended
    queue,          \* its queue.Queue
    replay,         \* what is left of the copy of the rings it sends first
    silence,        \* ticks since it was last sent something
    due             \* history: entries since it was opened, not sent or dropped

feedVars == <<published, link, wire, stage, hand, todo, ring>>
streamVars == <<conn, queue, replay, silence, due>>
vars == <<feedVars, streamVars>>

-----------------------------------------------------------------------------
NoMessage == <<"none", 0>>

Open == {s \in Streams : conn[s] # "closed"}    \* EngineEventBus._subs

\* Mutant of LastOf: one more than the capacity stays.
KeepsOneMore(seq, n) == SubSeq(seq, IF Len(seq) > n + 1 THEN Len(seq) - n ELSE 1, Len(seq))

\* deque(maxlen): the last n of a sequence.
LastOf(seq, n) == SubSeq(seq, IF Len(seq) > n THEN Len(seq) - n + 1 ELSE 1, Len(seq))

\* RingBuffer.recent: all rings together; its order is that of the numbers.
Recent(rings) == UNION {ToSet(rings[c]) : c \in Channels}

\* Mutant of Follows: broadcast first, append afterwards.
BroadcastsFirst(st) ==
    CASE st = "listen" -> "broadcast" [] st = "put" -> "append" [] OTHER -> "listen"

\* The order of subscriber_loop: append, broadcast, next message.
Follows(st) ==
    CASE st = "listen" -> "append" [] st = "append" -> "broadcast" [] OTHER -> "listen"

-----------------------------------------------------------------------------
Init ==
    /\ published = 0
    /\ link = FALSE
    /\ wire = <<>>
    /\ stage = "listen" /\ hand = NoMessage /\ todo = {}
    /\ ring = [c \in Channels |-> <<>>]
    /\ conn = [s \in Streams |-> "closed"]
    /\ queue = [s \in Streams |-> <<>>]
    /\ replay = [s \in Streams |-> {}]
    /\ silence = [s \in Streams |-> 0]
    /\ due = [s \in Streams |-> {}]

(* A service publishes; Redis keeps nothing for a feed that is not there. *)
Publish(c) ==
    /\ published < MaxEvents
    /\ published' = published + 1
    /\ wire' = IF link THEN Append(wire, <<c, published + 1>>) ELSE wire
    /\ UNCHANGED <<link, stage, hand, todo, ring, streamVars>>

-----------------------------------------------------------------------------
(* subscriber_loop. *)

Connect ==
    /\ ~link /\ stage = "listen"
    /\ link' = TRUE
    /\ UNCHANGED <<published, wire, stage, hand, todo, ring, streamVars>>

(* The connection breaks; what was on it is lost. *)
Disconnect ==
    /\ link
    /\ link' = FALSE
    /\ wire' = <<>>
    /\ UNCHANGED <<published, stage, hand, todo, ring, streamVars>>

Take ==
    /\ stage = "listen" /\ wire # <<>>
    /\ hand' = Head(wire)
    /\ wire' = Tail(wire)
    /\ stage' = Follows("listen")
    /\ UNCHANGED <<published, link, todo, ring, streamVars>>

AppendToRing ==
    LET c == hand[1]  n == hand[2]
    IN  /\ stage = "append"
        /\ ring' = [ring EXCEPT ![c] = LastOf(Append(@, n), RingCapacity)]
        /\ due' = [s \in Streams |-> IF s \in Open THEN due[s] \cup {n} ELSE due[s]]
        /\ stage' = Follows("append")
        /\ UNCHANGED <<published, link, wire, hand, todo, conn, queue, replay, silence>>

(* broadcast copies the list of queues under its lock. *)
CopySubscribers ==
    /\ stage = "broadcast"
    /\ todo' = Open
    /\ stage' = "put"
    /\ UNCHANGED <<published, link, wire, hand, ring, streamVars>>

(* put_nowait: a full queue loses the entry. *)
Put(s) ==
    /\ stage = "put" /\ s \in todo
    /\ todo' = todo \ {s}
    /\ IF Len(queue[s]) < QueueCapacity
       THEN /\ queue' = [queue EXCEPT ![s] = Append(@, hand[2])]
            /\ UNCHANGED due
       ELSE /\ due' = [due EXCEPT ![s] = @ \ {hand[2]}]
            /\ UNCHANGED queue
    /\ UNCHANGED <<published, link, wire, stage, hand, ring, conn, replay, silence>>

EndBroadcast ==
    /\ stage = "put" /\ todo = {}
    /\ stage' = Follows("put")
    /\ UNCHANGED <<published, link, wire, hand, todo, ring, streamVars>>

-----------------------------------------------------------------------------
(* ui_engines_stream and its generator. *)

Register(s) ==
    /\ conn[s] = "closed"
    /\ conn' = [conn EXCEPT ![s] = "open"]
    /\ UNCHANGED <<feedVars, queue, replay, silence, due>>

CopyRing(s) ==
    /\ conn[s] = "open"
    /\ conn' = [conn EXCEPT ![s] = "live"]
    /\ replay' = [replay EXCEPT ![s] = Recent(ring)]
    /\ UNCHANGED <<feedVars, queue, silence, due>>

SendReplay(s) ==
    /\ conn[s] = "live"
    /\ \E n \in replay[s] :
          /\ \A m \in replay[s] : n <= m
          /\ replay' = [replay EXCEPT ![s] = @ \ {n}]
          /\ due' = [due EXCEPT ![s] = @ \ {n}]
    /\ silence' = [silence EXCEPT ![s] = 0]
    /\ UNCHANGED <<feedVars, conn, queue>>

\* Mutant of SendLive: entries are sent when two are there.
SendsInPairs(s) ==
    /\ conn[s] = "live" /\ replay[s] = {} /\ Len(queue[s]) > 1
    /\ queue' = [queue EXCEPT ![s] = Tail(@)]
    /\ due' = [due EXCEPT ![s] = @ \ {Head(queue[s])}]
    /\ silence' = [silence EXCEPT ![s] = 0]
    /\ UNCHANGED <<feedVars, conn, replay>>

SendLive(s) ==
    /\ conn[s] = "live" /\ replay[s] = {} /\ queue[s] # <<>>
    /\ queue' = [queue EXCEPT ![s] = Tail(@)]
    /\ due' = [due EXCEPT ![s] = @ \ {Head(queue[s])}]
    /\ silence' = [silence EXCEPT ![s] = 0]
    /\ UNCHANGED <<feedVars, conn, replay>>

Idle(s) == conn[s] = "live" /\ replay[s] = {} /\ queue[s] = <<>>

\* Mutant of HeartbeatDue: one tick late.
HeartbeatLate(s) == Idle(s) /\ silence[s] > Heartbeat

\* q.get(timeout=HEARTBEAT_INTERVAL_SECONDS) raised Empty.
HeartbeatDue(s) == Idle(s) /\ silence[s] >= Heartbeat

SendHeartbeat(s) ==
    /\ HeartbeatDue(s)
    /\ silence' = [silence EXCEPT ![s] = 0]
    /\ UNCHANGED <<feedVars, conn, queue, replay, due>>

(* The client closes the stream, or its socket read times out.  The server *)
(* learns of it when it next sends.                                        *)
ClientLeaves(s) ==
    /\ conn[s] = "live"
    /\ conn' = [conn EXCEPT ![s] = "left"]
    /\ UNCHANGED <<feedVars, queue, replay, silence, due>>

ReadTimesOut(s) ==
    /\ conn[s] = "live" /\ silence[s] >= ReadTimeout[s]
    /\ conn' = [conn EXCEPT ![s] = "ended"]
    /\ UNCHANGED <<feedVars, queue, replay, silence, due>>

(* The generator's finally: bus.unsubscribe. *)
Unregister(s) ==
    /\ conn[s] \in {"left", "ended"}
    /\ conn' = [conn EXCEPT ![s] = "closed"]
    /\ queue' = [queue EXCEPT ![s] = <<>>]
    /\ replay' = [replay EXCEPT ![s] = {}]
    /\ silence' = [silence EXCEPT ![s] = 0]
    /\ due' = [due EXCEPT ![s] = {}]
    /\ todo' = todo \ {s}
    /\ UNCHANGED <<published, link, wire, stage, hand, ring>>

(* A tick is seconds; a stream that has something to send does so sooner. *)
Tick ==
    /\ \A s \in Streams : conn[s] = "live" => Idle(s) /\ ~HeartbeatDue(s)
    /\ \E s \in Streams : conn[s] = "live" /\ silence[s] < ReadTimeout[s]
    /\ silence' = [s \in Streams |-> IF conn[s] = "live" THEN silence[s] + 1 ELSE silence[s]]
    /\ UNCHANGED <<feedVars, conn, queue, replay, due>>

FeedNext == Connect \/ Disconnect \/ Take \/ AppendToRing \/ CopySubscribers
            \/ (\E s \in Streams : Put(s)) \/ EndBroadcast

StreamNext(s) == Register(s) \/ CopyRing(s) \/ SendReplay(s) \/ SendLive(s)
                 \/ SendHeartbeat(s) \/ ClientLeaves(s) \/ ReadTimesOut(s)
                 \/ Unregister(s)

Next == (\E c \in Channels : Publish(c)) \/ FeedNext \/ Tick
        \/ \E s \in Streams : StreamNext(s)

(* The feed's thread goes on with the message in hand, and each generator  *)
(* while it has work and a client that reads what it is sent; a client     *)
(* that left is noticed at the next heartbeat.                             *)
Spec == /\ Init /\ [][Next]_vars
        /\ WF_vars(AppendToRing \/ CopySubscribers \/ EndBroadcast)
        /\ \A s \in Streams : /\ WF_vars(Put(s))
                              /\ WF_vars(CopyRing(s))
                              /\ WF_vars(SendReplay(s) \/ SendLive(s))
                              /\ WF_vars(Unregister(s))

-----------------------------------------------------------------------------
(* Every variable holds a value of its kind, rings and queues within their *)
(* capacities.                                                             *)
LiveEnginesTypeOK ==
    /\ published \in 0 .. MaxEvents
    /\ link \in BOOLEAN
    /\ wire \in Seq(Channels \X Entries)
    /\ stage \in {"listen", "append", "broadcast", "put"}
    /\ hand \in (Channels \X Entries) \cup {NoMessage}
    /\ todo \subseteq Streams
    /\ ring \in [Channels -> Seq(Entries)]
    /\ \A c \in Channels : Len(ring[c]) <= RingCapacity
    /\ conn \in [Streams -> {"closed", "open", "live", "left", "ended"}]
    /\ queue \in [Streams -> Seq(Entries)]
    /\ \A s \in Streams : Len(queue[s]) <= QueueCapacity
    /\ replay \in [Streams -> SUBSET Entries]
    /\ silence \in [Streams -> Nat]
    /\ due \in [Streams -> SUBSET Entries]

\* The feed has yet to offer n to stream s.
Underway(n, s) == /\ hand[2] = n
                  /\ stage = "broadcast" \/ (stage = "put" /\ s \in todo)

(* No gap between replay and live: an entry that came in after a stream    *)
(* was registered is in the copy of the rings it starts with, in its       *)
(* queue, or about to be put there, until it is sent or a full queue drops *)
(* it, although registering, copying, appending and broadcasting hold no   *)
(* lock in common.  The order "register, then copy" against "append, then  *)
(* broadcast" is what makes it so.                                         *)
NoGap ==
    \A s \in Streams : \A n \in due[s] :
        n \in replay[s] \cup ToSet(queue[s]) \/ Underway(n, s)

(* Every entry that comes in while a stream is open is sent on it, dropped *)
(* at its full queue, or the stream closes.                                *)
EntriesReachStream ==
    \A s \in Streams, n \in Entries : (n \in due[s]) ~> (n \notin due[s])

(* Silence on the control bus ends no stream whose client waits longer     *)
(* than a heartbeat: the comment the generator sends comes before the      *)
(* client's read gives up.                                                 *)
SilenceEndsNoStream ==
    \A s \in Streams : ReadTimeout[s] > Heartbeat => conn[s] # "ended"
=============================================================================
