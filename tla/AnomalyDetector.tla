--------------------------- MODULE AnomalyDetector ---------------------------
(***************************************************************************)
(* services/anomaly-detector: a loop that scores every backend once a      *)
(* cycle, holds each verdict until it is stable, suppresses it when the    *)
(* whole pool is overloaded, and then, backend by backend, writes the      *)
(* verdict to backend_health and publishes it on smartload.anomaly.  An    *)
(* exclusion clock per benched backend drives its way back.                *)
(*                                                                         *)
(* Latencies and error rates are abstracted to what the loop compares:     *)
(* the engine's raw status, "low" for too few samples, "none" for no rows, *)
(* and the backends past the outlier margin.  Time is counted in cycles.   *)
(***************************************************************************)
EXTENDS Integers, Sequences, FiniteSets

CONSTANTS
    Backends,
    FlipCycles,          \* flip_confirmation_cycles
    MinPeers,            \* overload_min_peers
    Confirmations,       \* overload_exclusion_confirmations
    Window,              \* recovery_window_seconds, in cycles
    Response,            \* anomaly_response: "auto-isolate" or "advisory"
    BusMax               \* bound: verdicts in flight on smartload.anomaly

ASSUME CyclesAssumption ==
    /\ FlipCycles \in Nat \ {0} /\ Confirmations \in Nat \ {0}
    /\ MinPeers \in Nat /\ Window \in Nat \ {0} /\ BusMax \in Nat \ {0}
ASSUME ResponseAssumption == Response \in {"auto-isolate", "advisory"}

Status  == {"healthy", "degraded", "unhealthy"}
Nothing == "none"
NoVerdict == <<>>
NoClock == -1
Bad     == {"degraded", "unhealthy"}     \* _EXCLUDABLE_STATUSES

VARIABLES
    gate,            \* BackendState: confirmed status, pending flip, its count
    streak,          \* BackendState.outlier_streak
    clock,           \* cycles since excluded_since_monotonic, up to Window
    emitted,         \* BackendState.recovery_reinclude_emitted
    safe,            \* EnginePolicy.safe_mode, as this process knows it
    left,            \* pass 3: the verdicts it has yet to handle
    silent,          \* pass 3b: silent backends whose clock has run out
    sending,         \* a verdict that is stored and not yet published
    health,          \* the latest backend_health row of each backend
    bus              \* smartload.anomaly: verdicts the sidecar will receive

states == <<gate, streak, clock, emitted, safe>>
cycle  == <<left, silent, sending>>
detectorVars == <<states, cycle, health, bus>>

-----------------------------------------------------------------------------
Clean == [status |-> "healthy", pending |-> Nothing, count |-> 0]

\* Mutant of Gated: one cycle too many before a flip is confirmed.
GatedLate(g, raw) ==
    LET new == IF raw = "low" THEN "healthy" ELSE raw
        n   == IF g.pending = new THEN g.count + 1 ELSE 1
    IN  IF raw = "low" /\ g.status # "healthy" THEN g
        ELSE IF new = g.status THEN [g EXCEPT !.pending = Nothing, !.count = 0]
        ELSE IF n > FlipCycles THEN [Clean EXCEPT !.status = new]
        ELSE [g EXCEPT !.pending = new, !.count = n]

\* apply_stability_gate without a hold limit: few samples hold a bad status,
\* and a new status must be seen FlipCycles times in a row.
Gated(g, raw) ==
    LET new == IF raw = "low" THEN "healthy" ELSE raw
        n   == IF g.pending = new THEN g.count + 1 ELSE 1
    IN  IF raw = "low" /\ g.status # "healthy" THEN g
        ELSE IF new = g.status THEN [g EXCEPT !.pending = Nothing, !.count = 0]
        ELSE IF n >= FlipCycles THEN [Clean EXCEPT !.status = new]
        ELSE [g EXCEPT !.pending = new, !.count = n]

\* peer_suppress_verdicts engages with enough scored backends.
Compared(scored) == Cardinality(scored) >= 2 /\ Cardinality(scored) >= MinPeers

\* The streak it leaves: one more cycle as an outlier, or none.
Streak(b, status, outliers) ==
    IF status \notin Bad \/ b \notin outliers THEN 0
    ELSE IF streak[b] < Confirmations THEN streak[b] + 1 ELSE streak[b]

\* A bad verdict stands only for a sustained outlier.
Suppressed(status, s) ==
    IF status \in Bad /\ s < Confirmations THEN "healthy" ELSE status

\* Mutant of ShouldPublish: healthy verdicts are noise in either mode.
PublishTroubleOnly(status) == ~safe /\ status # "healthy"

\* should_publish
ShouldPublish(status) == ~safe /\ (Response = "advisory" \/ status # "healthy")

-----------------------------------------------------------------------------
CycleOver ==
    /\ \A b \in Backends : left[b] = Nothing
    /\ silent = {} /\ sending = NoVerdict

\* _inference_cycle, passes 1 and 2: score, gate and suppress every backend
\* the query found.  "seen" is what the engine says of each; "outliers" are
\* those past the margin, none of them during a surge.  No other thread
\* looks at these fields.
ScoreCycle(seen, outliers) ==
    LET scored == DOMAIN seen
        age    == [b \in Backends |-> IF clock[b] \in 0..(Window - 1)
                                      THEN clock[b] + 1 ELSE clock[b]]
    IN  /\ CycleOver
        /\ gate' = [b \in Backends |-> IF b \in scored THEN Gated(gate[b], seen[b])
                                                       ELSE gate[b]]
        /\ streak' = [b \in Backends |->
                        IF b \in scored /\ Compared(scored)
                        THEN Streak(b, gate'[b].status, outliers) ELSE streak[b]]
        /\ left' = [b \in Backends |->
                      IF b \notin scored THEN Nothing
                      ELSE IF Compared(scored)
                           THEN Suppressed(gate'[b].status, streak'[b])
                           ELSE gate'[b].status]
        /\ clock' = age
        /\ silent' = {b \in Backends \ scored : age[b] = Window}
        /\ UNCHANGED <<emitted, safe, sending, health, bus>>

\* recovery_reinclude for the verdict on b: a fresh exclusion starts the
\* clock, a healthy verdict clears it, and a degraded one is turned, once per
\* exclusion, into a probationary "healthy" when the clock has run out.
RecoveryReinclude(b) ==
    LET due   == left[b] = "degraded" /\ clock[b] = Window /\ ~emitted[b]
        fresh == left[b] = "unhealthy" /\ clock[b] = NoClock
    IN  [readmit |-> due,
         status  |-> IF due THEN "healthy" ELSE left[b],
         clock   |-> IF fresh THEN 0
                     ELSE IF due \/ left[b] = "healthy" THEN NoClock
                     ELSE clock[b],
         emitted |-> due \/ (emitted[b] /\ left[b] # "healthy" /\ ~fresh)]

\* Pass 3 for one backend, up to the publish: recovery, then the result is
\* stored.
StoreVerdict(b) ==
    LET r == RecoveryReinclude(b)
    IN  /\ left[b] # Nothing /\ sending = NoVerdict
        /\ clock' = [clock EXCEPT ![b] = r.clock]
        /\ emitted' = [emitted EXCEPT ![b] = r.emitted]
        /\ health' = [health EXCEPT ![b] = r.status]
        /\ left' = [left EXCEPT ![b] = Nothing]
        /\ sending' = IF (r.readmit /\ ~safe) \/ ShouldPublish(r.status)
                      THEN <<b, r.status>> ELSE NoVerdict
        /\ UNCHANGED <<gate, streak, safe, silent, bus>>

\* Mutant of ProbeSilent: one attempt per exclusion.
ProbeSilentOnce(b) ==
    /\ \A a \in Backends : left[a] = Nothing
    /\ b \in silent /\ sending = NoVerdict
    /\ silent' = silent \ {b}
    /\ IF emitted[b] THEN UNCHANGED <<states, health, sending>>
       ELSE /\ clock' = [clock EXCEPT ![b] = 0]
            /\ emitted' = [emitted EXCEPT ![b] = TRUE]
            /\ gate' = [gate EXCEPT ![b] = Clean]
            /\ health' = [health EXCEPT ![b] = "healthy"]
            /\ sending' = IF safe THEN NoVerdict ELSE <<b, "healthy">>
            /\ UNCHANGED <<streak, safe>>
    /\ UNCHANGED <<left, bus>>

\* Pass 3b for one backend: recovery_reinclude_silent re-arms the clock and
\* re-admits a backend that has been benched for the window without metrics.
ProbeSilent(b) ==
    /\ \A a \in Backends : left[a] = Nothing
    /\ b \in silent /\ sending = NoVerdict
    /\ silent' = silent \ {b}
    /\ clock' = [clock EXCEPT ![b] = 0]
    /\ emitted' = [emitted EXCEPT ![b] = TRUE]
    /\ gate' = [gate EXCEPT ![b] = Clean]
    /\ health' = [health EXCEPT ![b] = "healthy"]
    /\ sending' = IF safe THEN NoVerdict ELSE <<b, "healthy">>
    /\ UNCHANGED <<streak, safe, left, bus>>

\* publish_envelope
Publish ==
    /\ sending # NoVerdict /\ Len(bus) < BusMax
    /\ bus' = Append(bus, sending)
    /\ sending' = NoVerdict
    /\ UNCHANGED <<states, left, silent, health>>

\* publish_envelope raises: the exception ends the cycle, and with it what
\* was left to handle; the clocks and rows stay as they were written.
PublishFails ==
    /\ sending # NoVerdict
    /\ left' = [b \in Backends |-> Nothing]
    /\ silent' = {}
    /\ sending' = NoVerdict
    /\ UNCHANGED <<states, health, bus>>

\* A policy message, handled between two cycles.
SetSafeMode(on) ==
    /\ CycleOver /\ safe # on
    /\ safe' = on
    /\ UNCHANGED <<gate, streak, clock, emitted, cycle, health, bus>>

\* Mutant of DetectorStart: no hydration of the exclusion clocks.
StartWithoutClocks(read) ==
    /\ gate' = [b \in Backends |-> Clean]
    /\ streak' = [b \in Backends |-> 0]
    /\ clock' = [b \in Backends |-> NoClock]
    /\ emitted' = [b \in Backends |-> FALSE]
    /\ safe' = FALSE
    /\ left' = [b \in Backends |-> Nothing]
    /\ silent' = {}
    /\ sending' = NoVerdict
    /\ UNCHANGED <<health, bus>>

\* A new process: no memory of any backend nor of the policy, then
\* _hydrate_exclusion_clocks arms the clock of every backend whose last row
\* is unhealthy, among the rows it has read: those of the last
\* EXCLUSION_HYDRATION_WINDOW_SECONDS, and none when the query fails.
DetectorStart(read) ==
    LET armed == {b \in read : health[b] = "unhealthy"}
    IN  /\ gate' = [b \in Backends |->
                      IF b \in armed THEN [Clean EXCEPT !.status = "unhealthy"]
                                     ELSE Clean]
        /\ streak' = [b \in Backends |-> 0]
        /\ clock' = [b \in Backends |-> IF b \in armed THEN 0 ELSE NoClock]
        /\ emitted' = [b \in Backends |-> FALSE]
        /\ safe' = FALSE
        /\ left' = [b \in Backends |-> Nothing]
        /\ silent' = {}
        /\ sending' = NoVerdict
        /\ UNCHANGED <<health, bus>>

DetectorInit ==
    /\ gate = [b \in Backends |-> Clean]
    /\ streak = [b \in Backends |-> 0]
    /\ clock = [b \in Backends |-> NoClock]
    /\ emitted = [b \in Backends |-> FALSE]
    /\ safe = FALSE
    /\ left = [b \in Backends |-> Nothing]
    /\ silent = {}
    /\ sending = NoVerdict
    /\ health = [b \in Backends |-> Nothing]
    /\ bus = <<>>

\* The type invariant of the detector.
DetectorTypeOK ==
    /\ gate \in [Backends -> [status : Status, pending : Status \cup {Nothing},
                              count : 0..(FlipCycles - 1)]]
    /\ streak \in [Backends -> 0..Confirmations]
    /\ clock \in [Backends -> NoClock..Window]
    /\ emitted \in [Backends -> BOOLEAN]
    /\ safe \in BOOLEAN
    /\ left \in [Backends -> Status \cup {Nothing}]
    /\ silent \subseteq Backends
    /\ sending \in (Backends \X Status) \cup {NoVerdict}
    /\ health \in [Backends -> Status \cup {Nothing}]
    /\ bus \in Seq(Backends \X Status) /\ Len(bus) <= BusMax
=============================================================================
