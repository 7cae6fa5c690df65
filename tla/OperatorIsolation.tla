-------------------------- MODULE OperatorIsolation --------------------------
(***************************************************************************)
(* The health loop with an operator in it: POST /api/v1/isolate on the     *)
(* anomaly-detector runs on a thread of the HTTP server, beside the loop,  *)
(* and "bypasses the engine's run loop and the publish gate entirely".     *)
(***************************************************************************)
EXTENDS HealthLoop

VARIABLES
    isolated,        \* backends the operator benched and has not restored
    request          \* a manual verdict that is published and not yet stored

operatorVars == <<vars, isolated, request>>

OperatorInit == Init /\ isolated = {} /\ request = NoVerdict

\* post_manual_isolate publishes first ...
PublishManual(b, status) ==
    /\ request = NoVerdict /\ Len(bus) < BusMax
    /\ bus' = Append(bus, <<b, status>>)
    /\ request' = <<b, status>>
    /\ isolated' = IF status = "unhealthy" THEN isolated \cup {b}
                                           ELSE isolated \ {b}
    /\ UNCHANGED <<states, cycle, health, loopVars>>

\* ... and then writes the backend_health row.
StoreManual ==
    /\ request # NoVerdict
    /\ health' = [health EXCEPT ![request[1]] = request[2]]
    /\ request' = NoVerdict
    /\ UNCHANGED <<states, cycle, bus, loopVars, isolated>>

OperatorNext ==
    \/ Next /\ UNCHANGED <<isolated, request>>
    \/ \E b \in Backends, status \in Status : PublishManual(b, status)
    \/ StoreManual

OperatorSpec == OperatorInit /\ [][OperatorNext]_operatorVars

-----------------------------------------------------------------------------
\* recovery_reinclude: the manual path "never flows through here ..., so
\* operator isolates are untouched": recovery does not offer a backend to
\* the sidecar again once the sidecar has benched it for the operator.
OperatorIsolateStands ==
    [][\A b \in isolated :
         b \in down /\ Pending(b) = {} => ~ProbeSilent(b)]_operatorVars
=============================================================================
