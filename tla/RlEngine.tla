------------------------------ MODULE RlEngine ------------------------------
(***************************************************************************)
(* The run loop of services/rl-engine: app.py, the pure helpers of         *)
(* runloop.py and the router it serves by default,                         *)
(* policies/monotone/policy.py.                                            *)
(*                                                                         *)
(* One daemon thread does everything: it takes one message from Redis per  *)
(* iteration (a policy or a health verdict), and once per poll interval    *)
(* runs a cycle: evict old verdicts, read the window of telemetry rows,    *)
(* rank the backends, publish.  It opens its database connection itself,   *)
(* before the loop proper and again when a query finds it broken.  GET     *)
(* /health looks at how long ago the last cycle ended well.                *)
(*                                                                         *)
(* Backends are numbers in the order of their names.  Time passes in poll  *)
(* intervals.  Scores are abstracted to which backends are ranked.         *)
(***************************************************************************)
EXTENDS Integers, Sequences, FiniteSets

CONSTANTS
    Backends,       \* numbers, in the order of the names
    MaxRanked,      \* N_MAX_BACKENDS: the router looks at so many rows
    VerdictTtl,     \* intervals for which a verdict is authoritative
    StaleAfter,     \* intervals after which /health calls the loop stale
    ActivePinned,   \* RL_MODE = active
    Modes,          \* operating modes the manager accepts
    MaxVersion,     \* bound: policies the manager publishes
    MaxInbox,       \* bound: messages waiting on the subscription
    MaxOutages      \* bound: database outages

ASSUME BackendsAssumption == Backends \subseteq Nat /\ IsFiniteSet(Backends)
ASSUME LimitsAssumption == /\ MaxRanked \in Nat \ {0}
                           /\ VerdictTtl \in Nat /\ StaleAfter \in Nat
                           /\ ActivePinned \in BOOLEAN
ASSUME ModesAssumption == "classical-only" \in Modes
ASSUME OutagesAssumption == MaxOutages \in Nat \ {0}
ASSUME BoundsAssumption == /\ MaxVersion \in Nat
                           /\ MaxInbox \in Nat
                           /\ MaxOutages \in Nat

Verdicts == {"healthy", "degraded", "unhealthy"}
Health == Verdicts \cup {"unknown"}
Eligible == {"healthy", "degraded"}                 \* policy_base.ELIGIBLE_HEALTH

Never == -1

VARIABLES
    manager,        \* the policy manager's policy
    inbox,          \* messages waiting on the loop's subscription
    loop,           \* the daemon thread: starting, pulled, running or dead
    policy,         \* _engine_policy
    verdict,        \* _anomaly_health: status, or none
    age,            \* intervals since the last verdict was handled
    db,             \* is the database there
    conn,           \* db_conn: none, open, broken by an outage, closed
    due,            \* has next_tick come
    quiet,          \* intervals since _last_inference_monotonic, or Never
    output,         \* the recommendation of this interval, if any
    outages,        \* database outages so far
    told            \* history: the last verdict handled, kept

loopVars == <<policy, verdict, age, conn, due, quiet, output, told>>
vars == <<manager, inbox, loop, db, outages, loopVars>>

-----------------------------------------------------------------------------
(* runloop.py *)

DefaultPolicy == [version |-> 0, mode |-> "shadow", safe |-> FALSE]

\* Mutant of FromPayload: any mode is taken over.
TakesAnyMode(payload, current) == payload

\* policy_from_payload: a mode it does not know keeps the one in force.
FromPayload(payload, current) ==
    [payload EXCEPT !.mode = IF payload.mode = "hybrid" THEN "hybrid" ELSE current.mode]

\* effective_mode: the router asks for active in hybrid mode, and every gate
\* must agree.
EffectiveMode(p) ==
    IF p.mode = "hybrid" /\ ~p.safe /\ ActivePinned THEN "active" ELSE "shadow"

\* Mutant of HealthOf: telemetry before the detector's verdict.
TelemetryFirst(b, local, known) ==
    IF local[b] = "unknown" /\ known[b] # "none" THEN known[b] ELSE local[b]

\* build_state_from_rows: the detector's verdict before local classification.
HealthOf(b, local, known) == IF known[b] # "none" THEN known[b] ELSE local[b]

\* MonotonePolicy.act: the eligible ones of the first MaxRanked rows.
Ranked(rows, local, known) ==
    {b \in rows : /\ Cardinality({a \in rows : a <= b}) <= MaxRanked
                  /\ HealthOf(b, local, known) \in Eligible}

\* _evict_stale_anomaly_health
Kept == [b \in Backends |-> IF age[b] > VerdictTtl THEN "none" ELSE verdict[b]]

-----------------------------------------------------------------------------
NoOutput == [mode |-> "none", ranked |-> {}]

Init ==
    /\ manager = [version |-> 0, mode |-> "classical-only", safe |-> FALSE]
    /\ inbox = <<>>
    /\ loop = "starting"
    /\ policy = DefaultPolicy
    /\ verdict = [b \in Backends |-> "none"]
    /\ age = [b \in Backends |-> 0]
    /\ db \in BOOLEAN
    /\ conn = "none"
    /\ due = TRUE
    /\ quiet = Never
    /\ output = NoOutput
    /\ outages = IF db THEN 0 ELSE 1
    /\ told = [b \in Backends |-> "none"]

(* What the loop hears of: nothing, before it subscribed or once it died.  *)
Send(message) == inbox' = IF loop = "running" THEN Append(inbox, message) ELSE inbox

Post(mode, safe) ==
    /\ manager.version < MaxVersion /\ Len(inbox) < MaxInbox
    /\ manager' = [version |-> manager.version + 1, mode |-> mode, safe |-> safe]
    /\ Send([kind |-> "policy", body |-> manager'])
    /\ UNCHANGED <<loop, db, outages, loopVars>>

Judge(b, status) ==
    /\ Len(inbox) < MaxInbox
    /\ loop = "running"
    /\ Send([kind |-> "verdict", body |-> <<b, status>>])
    /\ UNCHANGED <<manager, loop, db, outages, loopVars>>

(* The database goes away and takes every session with it. *)
DbDown ==
    /\ db /\ outages < MaxOutages
    /\ db' = FALSE
    /\ outages' = outages + 1
    /\ conn' = IF conn = "open" THEN "broken" ELSE conn
    /\ UNCHANGED <<manager, inbox, loop, policy, verdict, age, due, quiet, output, told>>

DbUp ==
    /\ ~db
    /\ db' = TRUE
    /\ UNCHANGED <<manager, inbox, loop, outages, loopVars>>

-----------------------------------------------------------------------------
(* _pull_initial_policy: the manager may not answer. *)
Pull ==
    /\ loop = "starting"
    /\ loop' = "pulled"
    /\ policy' \in {policy, FromPayload(manager, policy)}
    /\ UNCHANGED <<manager, inbox, db, outages, verdict, age, conn, due, quiet, output, told>>

(* The thread subscribes and connects, and only then enters the loop that  *)
(* catches what is raised.                                                 *)
Start ==
    /\ loop = "pulled"
    /\ IF db THEN loop' = "running" /\ conn' = "open"
             ELSE loop' = "dead" /\ UNCHANGED conn
    /\ UNCHANGED <<manager, inbox, db, outages, policy, verdict, age, due, quiet, output, told>>

(* _handle_policy_message *)
HandlePolicy ==
    LET payload == Head(inbox).body
    IN  /\ loop = "running" /\ inbox # <<>> /\ Head(inbox).kind = "policy"
        /\ inbox' = Tail(inbox)
        /\ policy' = IF payload.version < policy.version THEN policy
                     ELSE FromPayload(payload, policy)
        /\ UNCHANGED <<manager, loop, db, outages, verdict, age, conn, due, quiet,
                       output, told>>

(* _handle_anomaly_message *)
HandleVerdict ==
    LET b == Head(inbox).body[1]  status == Head(inbox).body[2]
    IN  /\ loop = "running" /\ inbox # <<>> /\ Head(inbox).kind = "verdict"
        /\ inbox' = Tail(inbox)
        /\ verdict' = [verdict EXCEPT ![b] = status]
        /\ age' = [age EXCEPT ![b] = 0]
        /\ told' = [told EXCEPT ![b] = status]
        /\ UNCHANGED <<manager, loop, db, outages, policy, conn, due, quiet, output>>

(* _inference_cycle evicts first, whatever comes of the query. *)
Evict == /\ verdict' = Kept
         /\ UNCHANGED age

CycleDue == loop = "running" /\ due

(* The rows of the window: those of the backends that were heard of in it, *)
(* and what their averages say.                                            *)
Cycle(rows, local) ==
    /\ CycleDue /\ conn = "open"
    /\ Evict
    /\ output' = IF rows = {} THEN output
                 ELSE LET ranked == Ranked(rows, local, Kept)
                      IN [mode |-> IF ranked = {} THEN "shadow" ELSE EffectiveMode(policy),
                          ranked |-> ranked]
    /\ quiet' = 0
    /\ due' = FALSE
    /\ UNCHANGED <<manager, inbox, loop, db, outages, policy, conn, told>>

(* The publish raises: nothing is noted, and the cycle is still due after  *)
(* the backoff.                                                            *)
PublishFails ==
    /\ CycleDue /\ conn = "open"
    /\ Evict
    /\ UNCHANGED <<manager, inbox, loop, db, outages, policy, conn, due, quiet, output, told>>

\* Mutant of Reconnect: the broken connection is kept.
KeepsSession == UNCHANGED conn

\* The connection is closed, then opened anew if the database is there.
Reconnect == conn' = IF db THEN "open" ELSE "closed"

\* Mutant of NotTicked: a cycle that failed counts as one that ended well.
CountsAsTick == quiet' = 0

\* What a failed cycle does to _last_inference_monotonic.
NotTicked == UNCHANGED quiet

(* The query finds the session broken: OperationalError. *)
CycleFindsBroken ==
    /\ CycleDue /\ conn = "broken"
    /\ Evict
    /\ Reconnect
    /\ NotTicked
    /\ due' = FALSE
    /\ UNCHANGED <<manager, inbox, loop, db, outages, policy, output, told>>

(* cursor() of a closed connection raises InterfaceError, which is not an  *)
(* OperationalError: the cycle reports that the database is fine.          *)
CycleFindsClosed ==
    /\ CycleDue /\ conn = "closed"
    /\ Evict
    /\ NotTicked
    /\ due' = FALSE
    /\ UNCHANGED <<manager, inbox, loop, db, outages, policy, conn, output, told>>

(* A poll interval passes; the loop is not slower than that. *)
Later(n, limit) == IF n < limit THEN n + 1 ELSE n

Tick ==
    /\ loop \in {"running", "dead"} /\ ~CycleDue
    /\ due' = TRUE
    /\ quiet' = IF quiet = Never THEN Never ELSE Later(quiet, StaleAfter + 1)
    /\ age' = [b \in Backends |-> Later(age[b], VerdictTtl + 1)]
    /\ output' = NoOutput
    /\ UNCHANGED <<manager, inbox, loop, policy, verdict, db, conn, outages, told>>

SomeCycle == \/ \E rows \in SUBSET Backends :
                   \E local \in [rows -> {"healthy", "unhealthy", "unknown"}] :
                      Cycle(rows, local)
             \/ CycleFindsBroken
             \/ CycleFindsClosed

Next == \/ \E mode \in Modes, safe \in BOOLEAN : Post(mode, safe)
        \/ \E b \in Backends, status \in {"healthy", "unhealthy"} : Judge(b, status)
        \/ DbDown \/ DbUp
        \/ Pull \/ Start \/ HandlePolicy \/ HandleVerdict
        \/ SomeCycle \/ PublishFails
        \/ Tick

(* The thread goes on, time passes, and Redis does not fail for ever: a    *)
(* cycle that can end is not kept from it by failing publishes alone.      *)
Spec == /\ Init /\ [][Next]_vars
        /\ WF_vars(HandlePolicy \/ HandleVerdict)
        /\ WF_vars(SomeCycle)
        /\ WF_vars(Tick)

-----------------------------------------------------------------------------
(* /health says degraded: the staleness test, or the database itself. *)
Degraded == ~db \/ quiet > StaleAfter

Policies == [version : 0 .. MaxVersion, mode : Modes, safe : BOOLEAN]
Messages == [kind : {"policy"}, body : Policies]
            \cup [kind : {"verdict"}, body : Backends \X Verdicts]

(* Every variable holds a value of its kind. *)
RlTypeOK ==
    /\ manager \in Policies
    /\ inbox \in Seq(Messages)
    /\ policy \in [version : 0 .. MaxVersion, mode : {"shadow", "hybrid"}, safe : BOOLEAN]
    /\ loop \in {"starting", "pulled", "running", "dead"}
    /\ Len(inbox) <= MaxInbox
    /\ verdict \in [Backends -> Verdicts \cup {"none"}]
    /\ age \in [Backends -> 0 .. VerdictTtl + 1]
    /\ told \in [Backends -> Verdicts \cup {"none"}]
    /\ conn \in {"none", "open", "broken", "closed"}
    /\ db \in BOOLEAN /\ due \in BOOLEAN
    /\ quiet \in {Never} \cup 0 .. StaleAfter + 1
    /\ output \in [mode : {"none", "shadow", "active"}, ranked : SUBSET Backends]
    /\ outages \in 0 .. MaxOutages

(* A verdict is authoritative for its time to live and no longer, whatever *)
(* was skipped, retried or lost in between: a recommendation ranks a       *)
(* backend the router looks at if and only if the verdict handled last     *)
(* finds it eligible or, once that has expired, its telemetry does.        *)
VerdictsHoldTheirTime ==
    [][\A rows \in SUBSET Backends \ {{}} :
         \A local \in [rows -> {"healthy", "unhealthy", "unknown"}] :
            Cycle(rows, local) => \A b \in rows :
               Cardinality({a \in rows : a <= b}) <= MaxRanked =>
                  (b \in output'.ranked <=>
                     IF told[b] # "none" /\ age[b] <= VerdictTtl
                     THEN told[b] \in Eligible
                     ELSE local[b] \in Eligible)]_vars

(* A loop that ticked once and cannot go on is seen: /health turns to      *)
(* degraded, also when the database and Redis answer its own checks.       *)
StuckLoopIsVisible == (quiet # Never /\ conn = "closed") ~> Degraded

(* A session that an outage broke is replaced at the next cycle, if the    *)
(* database is there by then.                                              *)
BrokenSessionIsReplaced == (conn = "broken" /\ db) ~> (conn = "open" \/ ~db)

(* After its last outage the loop gets its database back: "DB reconnect    *)
(* failed ...; retrying next tick" (app.py:417).                           *)
OutageEnds == <>[](db /\ loop = "running") => []<>(conn = "open")
=============================================================================
