---------------------------- MODULE MCLiveEngines ---------------------------
(* LiveEngines for TLC: two streams.                                       *)
EXTENDS LiveEngines

CONSTANTS s1, s2

\* One client waits longer than a heartbeat of one tick, the other does not.
MixedTimeouts == (s1 :> 2) @@ (s2 :> 1)

\* The default read timeout of the Python client is 10 s and the comment
\* comes every 15 s: 2 and 3 ticks of 5 s.
ClientTimeouts == [s \in Streams |-> 2]
FeedHeartbeat == 3

(* Stronger than SilenceEndsNoStream: the comment "is sent every 15s to     *)
(* keep idle connections alive" (docs/asyncapi/smartload-v1.yaml:163), but  *)
(* a client with the default timeout is gone by then.                      *)
NoStreamTimesOut == \A s \in Streams : conn[s] # "ended"
=============================================================================
