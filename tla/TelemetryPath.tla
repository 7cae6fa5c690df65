--------------------------- MODULE TelemetryPath ----------------------------
(***************************************************************************)
(* How a request becomes a row of the metrics table: NGINX writes a line   *)
(* to its access log, services/lb-otel-shipper/app.py tails the log, names *)
(* the backend, buffers and posts; the OpenTelemetry collector (external,  *)
(* infrastructure/otel-collector/otelcol-config.yaml) queues and exports;  *)
(* services/telemetry/app.py writes the rows.                              *)
(* The resource collector, services/resource-collector/app.py, posts to    *)
(* the same collector what Docker says of each running container.          *)
(*                                                                         *)
(* A line names an address.  Docker gives the address of a removed         *)
(* container to the next one, the shipper keeps what an address resolved   *)
(* to for RESOLVE_CACHE_TTL_S, and what it keeps is the instance every     *)
(* decision downstream is about.  A request is its number and stands for   *)
(* its three data points; a sample of a container is a number as well.     *)
(***************************************************************************)
EXTENDS Integers, SequencesExt

CONSTANTS
    Addresses,      \* ip:port of a backend
    Containers,     \* names
    Ttl,            \* RESOLVE_CACHE_TTL_S, in ticks
    MaxRequests,    \* bound: requests served and containers sampled
    MaxFaults,      \* bound: restarts, refused and late posts, rotations
    MaxChanges      \* bound: containers placed

Requests == 1 .. MaxRequests

ASSUME TtlAssumption == Ttl \in Nat \ {0}
ASSUME AddressesAssumption == IsFiniteSet(Addresses)
ASSUME NamesAssumption == Addresses \cap Containers = {}
ASSUME BoundsAssumption == MaxRequests \in Nat /\ MaxFaults \in Nat /\ MaxChanges \in Nat

VARIABLES
    owner,          \* which container has an address
    tenure,         \* ticks it has had it, to Ttl
    served,         \* requests NGINX has logged, and samples taken
    current,        \* is the file the shipper reads the one NGINX writes
    unread,         \* lines of it the shipper has not read
    cache,          \* _name_cache: a name and the ticks it is valid for
    buffer,         \* rows not flushed
    sending,        \* batches the collector has to export
    stored,         \* copies of each request in the metrics table
    names,          \* the instances its rows name
    dropped,        \* requests in batches counted as dropped, here or there
    gone,           \* history: nobody read, lost with a process, or given up
    late,           \* history: times each was written and answered too late
    faults, changes \* for the bounds

vars == <<owner, tenure, served, current, unread, cache, buffer, sending,
          stored, names, dropped, gone, late, faults, changes>>

-----------------------------------------------------------------------------
Later(n) == IF n = Ttl THEN n ELSE n + 1

\* Ids of a sequence of rows or lines.
Ids(rows) == {rows[i].id : i \in DOMAIN rows}

\* Ids of a sequence of batches.
Batches(batches) == UNION {Ids(batches[i]) : i \in DOMAIN batches}

\* Between the log and the table.
Underway == Ids(unread) \cup Ids(buffer) \cup Batches(sending)

Init ==
    /\ owner \in [Addresses -> Containers]
    /\ tenure = [a \in Addresses |-> 0]
    /\ served = 0
    /\ current = TRUE
    /\ unread = <<>>
    /\ cache = [a \in Addresses |-> [name |-> a, left |-> 0]]
    /\ buffer = <<>>
    /\ sending = <<>>
    /\ stored = [r \in Requests |-> 0]
    /\ names = [r \in Requests |-> {}]
    /\ dropped = {}
    /\ gone = {}
    /\ late = [r \in Requests |-> 0]
    /\ faults = 0 /\ changes = 0

-----------------------------------------------------------------------------
(* Docker and NGINX. *)

(* A container leaves and another gets its address. *)
Replace(a, c) ==
    /\ changes < MaxChanges /\ owner[a] # c
    /\ changes' = changes + 1
    /\ owner' = [owner EXCEPT ![a] = c]
    /\ tenure' = [tenure EXCEPT ![a] = 0]
    /\ UNCHANGED <<served, current, unread, cache, buffer, sending, stored, names,
                   dropped, gone, late, faults>>

Serve(a) ==
    /\ served < MaxRequests
    /\ served' = served + 1
    /\ IF current
       THEN unread' = Append(unread, [id |-> served + 1, addr |-> a]) /\ UNCHANGED gone
       ELSE gone' = gone \cup {served + 1} /\ UNCHANGED unread
    /\ UNCHANGED <<owner, tenure, current, cache, buffer, sending, stored, names,
                   dropped, late, faults, changes>>

(* The log is rotated: the handle stays with the old file. *)
Rotate ==
    /\ current /\ faults < MaxFaults
    /\ current' = FALSE
    /\ faults' = faults + 1
    /\ UNCHANGED <<owner, tenure, served, unread, cache, buffer, sending, stored,
                   names, dropped, gone, late, changes>>

-----------------------------------------------------------------------------
(* lb-otel-shipper *)

\* Mutant of AfterHit: a hit extends the entry.
SlidingExpiry(entry) == [entry EXCEPT !.left = Ttl]

\* A cache hit leaves the entry as it is.
AfterHit(entry) == entry

\* Mutant of Resolved: a failed look-up leaves no name.
NoFallback(a, answered) == IF answered THEN owner[a] ELSE "none"

\* DNS, or the address itself when it does not answer.
Resolved(a, answered) == IF answered THEN owner[a] ELSE a

(* One line: _resolve_ip_to_name answers from the cache, or resolves and   *)
(* keeps what it got, the address after a failure too.                     *)
ReadLine(answered) ==
    LET line == Head(unread)
        a == line.addr
        hit == cache[a].left > 0
        entry == IF hit THEN AfterHit(cache[a])
                 ELSE [name |-> Resolved(a, answered), left |-> Ttl]
    IN  /\ unread # <<>>
        /\ unread' = Tail(unread)
        /\ cache' = [cache EXCEPT ![a] = entry]
        /\ buffer' = Append(buffer, [id |-> line.id, name |-> entry.name])
        /\ UNCHANGED <<owner, tenure, served, current, sending, stored, names, dropped,
                       gone, late, faults, changes>>

\* Mutant of FlushDue: only a full batch is flushed.
FullBatchOnly(rows) == Len(rows) > 1

\* A tick is longer than FLUSH_INTERVAL.
FlushDue(rows) == rows # <<>>

(* post_envelope: the collector takes the batch ... *)
Flush ==
    /\ FlushDue(buffer)
    /\ sending' = Append(sending, buffer)
    /\ buffer' = <<>>
    /\ UNCHANGED <<owner, tenure, served, current, unread, cache, stored, names,
                   dropped, gone, late, faults, changes>>

\* Mutant of CountDropped: a refusal is logged and not counted.
OnlyLogs(rows) == UNCHANGED dropped

CountDropped(rows) == dropped' = dropped \cup Ids(rows)

\* Mutant of FlushFails: what was not answered in time is posted again.
FlushReposted ==
    /\ FlushDue(buffer) /\ faults < MaxFaults
    /\ faults' = faults + 1
    /\ sending' \in {sending, Append(sending, buffer)}
    /\ UNCHANGED <<owner, tenure, served, current, unread, cache, buffer, stored, names,
                   dropped, gone, late, changes>>

(* ... or refuses it, or takes it but answers after POST_TIMEOUT_S: either *)
(* way the batch counts as dropped and is not sent again.                  *)
FlushFails ==
    /\ FlushDue(buffer) /\ faults < MaxFaults
    /\ faults' = faults + 1
    /\ sending' \in {sending, Append(sending, buffer)}
    /\ buffer' = <<>>
    /\ CountDropped(buffer)
    /\ UNCHANGED <<owner, tenure, served, current, unread, cache, stored, names, gone,
                   late, changes>>

(* The process restarts: at the end of the file NGINX writes now. *)
RestartShipper ==
    /\ faults < MaxFaults
    /\ faults' = faults + 1
    /\ gone' = gone \cup Ids(unread) \cup Ids(buffer)
    /\ unread' = <<>> /\ buffer' = <<>>
    /\ current' = TRUE
    /\ cache' = [a \in Addresses |-> [name |-> a, left |-> 0]]
    /\ UNCHANGED <<owner, tenure, served, sending, stored, names, dropped, late,
                   changes>>

-----------------------------------------------------------------------------
(* resource-collector *)

(* The rows of a cycle: Docker says which container has an address now, and *)
(* one whose stats fail has no row.                                         *)
Sampled(addresses) ==
    LET order == SetToSeq(addresses)
    IN  [i \in DOMAIN order |-> [id |-> served + i, name |-> owner[order[i]]]]

(* A cycle's rows are new samples; a cycle without rows posts nothing. *)
Sample(addresses) ==
    /\ addresses # {} /\ served + Cardinality(addresses) <= MaxRequests
    /\ served' = served + Cardinality(addresses)
    /\ UNCHANGED <<owner, tenure, current, unread, cache, buffer, stored, names, gone,
                   late, changes>>

(* poll_once and post_envelope *)
Poll(addresses) ==
    /\ Sample(addresses)
    /\ sending' = Append(sending, Sampled(addresses))
    /\ UNCHANGED <<dropped, faults>>

(* Refused, or taken and answered late: counted, and not sent again. *)
PollFails(addresses) ==
    /\ faults < MaxFaults
    /\ Sample(addresses)
    /\ faults' = faults + 1
    /\ sending' \in {sending, Append(sending, Sampled(addresses))}
    /\ CountDropped(Sampled(addresses))

-----------------------------------------------------------------------------
(* The collector exports to ingest_otlp; n rows are inserted before the    *)
(* database fails, or all of them.                                         *)

\* Mutant of Committed: no transaction.
AutoCommitted(rows, n) == Ids(SubSeq(rows, 1, n))

\* with conn: all rows or none.
Committed(rows, n) == IF n = Len(rows) THEN Ids(rows) ELSE {}

Insert(rows, n) ==
    LET done == Committed(rows, n)
    IN  /\ stored' = [r \in Requests |-> IF r \in done THEN stored[r] + 1 ELSE stored[r]]
        /\ names' = [r \in Requests |->
                        IF r \in done
                        THEN names[r] \cup {rows[i].name : i \in {k \in DOMAIN rows : rows[k].id = r}}
                        ELSE names[r]]

(* Written, and 200: the collector forgets the batch. *)
Export ==
    /\ sending # <<>>
    /\ Insert(Head(sending), Len(Head(sending)))
    /\ sending' = Tail(sending)
    /\ UNCHANGED <<owner, tenure, served, current, unread, cache, buffer, dropped, gone,
                   late, faults, changes>>

(* The database fails, or its answer to the commit is lost after it has    *)
(* committed: counted as dropped either way, and 200 all the same.         *)
ExportDropped ==
    /\ sending # <<>> /\ faults < MaxFaults
    /\ faults' = faults + 1
    /\ \E n \in 0 .. Len(Head(sending)) : Insert(Head(sending), n)
    /\ dropped' = dropped \cup Ids(Head(sending))
    /\ sending' = Tail(sending)
    /\ UNCHANGED <<owner, tenure, served, current, unread, cache, buffer, gone, late,
                   changes>>

(* Written, but the answer is late: the collector keeps the batch and     *)
(* exports it again.                                                       *)
ExportLate ==
    /\ sending # <<>> /\ faults < MaxFaults
    /\ faults' = faults + 1
    /\ Insert(Head(sending), Len(Head(sending)))
    /\ late' = [r \in Requests |->
                   IF r \in Ids(Head(sending)) THEN late[r] + 1 ELSE late[r]]
    /\ UNCHANGED <<owner, tenure, served, current, unread, cache, buffer, sending, dropped,
                   gone, changes>>

(* The collector has tried for as long as it does by default, or got an    *)
(* answer it does not try again after, or had no room for the batch.  It   *)
(* says so in its own log, and no service counts it.                       *)
GiveUp(i) ==
    /\ i \in DOMAIN sending /\ faults < MaxFaults
    /\ faults' = faults + 1
    /\ gone' = gone \cup Ids(sending[i])
    /\ sending' = RemoveAt(sending, i)
    /\ UNCHANGED <<owner, tenure, served, current, unread, cache, buffer, stored, names,
                   dropped, late, changes>>

(* Its queue is in memory. *)
RestartCollector ==
    /\ sending # <<>> /\ faults < MaxFaults
    /\ faults' = faults + 1
    /\ gone' = gone \cup Batches(sending)
    /\ sending' = <<>>
    /\ UNCHANGED <<owner, tenure, served, current, unread, cache, buffer, stored, names,
                   dropped, late, changes>>

(* Time passes; the shipper reads and flushes within a tick. *)
Tick ==
    /\ unread = <<>> /\ ~FlushDue(buffer)
    /\ tenure' = [a \in Addresses |-> Later(tenure[a])]
    /\ cache' = [a \in Addresses |->
                    [cache[a] EXCEPT !.left = IF @ > 0 THEN @ - 1 ELSE 0]]
    /\ UNCHANGED <<owner, served, current, unread, buffer, sending, stored, names,
                   dropped, gone, late, faults, changes>>

Read == ReadLine(TRUE) \/ ReadLine(FALSE)

Next == \/ \E a \in Addresses, c \in Containers : Replace(a, c)
        \/ \E a \in Addresses : Serve(a)
        \/ Rotate \/ Read \/ Flush \/ FlushFails \/ RestartShipper
        \/ \E sampled \in SUBSET Addresses : Poll(sampled) \/ PollFails(sampled)
        \/ Export \/ ExportDropped \/ ExportLate \/ RestartCollector
        \/ \E i \in DOMAIN sending : GiveUp(i)
        \/ Tick

(* The tail loop, the collector and the clock go on. *)
Spec == /\ Init /\ [][Next]_vars
        /\ WF_vars(Read) /\ WF_vars(Flush) /\ WF_vars(Export) /\ WF_vars(Tick)

-----------------------------------------------------------------------------
(* Every variable holds a value of its kind. *)
TelemetryTypeOK ==
    /\ owner \in [Addresses -> Containers]
    /\ tenure \in [Addresses -> 0 .. Ttl]
    /\ served \in 0 .. MaxRequests
    /\ current \in BOOLEAN
    /\ unread \in Seq([id : Requests, addr : Addresses])
    /\ cache \in [Addresses -> [name : Containers \cup Addresses, left : 0 .. Ttl]]
    /\ buffer \in Seq([id : Requests, name : Containers \cup Addresses])
    /\ sending \in Seq(Seq([id : Requests, name : Containers \cup Addresses]))
    /\ stored \in [Requests -> Nat]
    /\ names \in [Requests -> SUBSET (Containers \cup Addresses)]
    /\ dropped \subseteq Requests /\ gone \subseteq Requests
    /\ late \in [Requests -> Nat]

(* What the shipper says of an address is at most a time to live old: once *)
(* a container has had its address that long, no line is put down to the   *)
(* one that had it before, however often the address was looked up.  (A    *)
(* younger container's lines may be: the cache is not told of the change.) *)
OldOwnerIsForgotten ==
    [][\A a \in Addresses :
         (Read /\ Head(unread).addr = a /\ tenure[a] = Ttl)
            => buffer'[Len(buffer')].name \in {owner[a], a}]_vars

(* Nothing vanishes in silence: each request and each sample is on its way, *)
(* in the table, counted by one of the drop counters, was lost with a      *)
(* process or an unread file, or was given up by the collector, which is   *)
(* what no counter of the system shows.                                    *)
NothingVanishes ==
    \A r \in 1 .. served :
        \/ r \in Ids(unread) \cup Ids(buffer) \cup Batches(sending)
        \/ stored[r] > 0
        \/ r \in dropped \cup gone

(* The table has no key that would refuse a second copy: what keeps the    *)
(* copies down is that nobody but the collector sends anything twice.  A   *)
(* request has one copy, and one more for every time an insert of its own  *)
(* batch was answered too late: a post that was answered too late, by the  *)
(* shipper or the resource collector, makes none, nor does any failure of  *)
(* another request.                                                        *)
CopiesAreExplained == \A r \in Requests : stored[r] <= 1 + late[r]

(* A batch reaches the table whole or not at all: of the rows that were    *)
(* flushed together, no cycle downstream ever sees only some.              *)
BatchesAreWhole ==
    [][\A i \in DOMAIN sending :
         LET ids == Ids(sending[i])
         IN  (\E r \in ids : stored'[r] > stored[r])
                => (\A r \in ids : stored'[r] > stored[r])]_vars

(* The whole path keeps the ledger of DeliveryLedger: a request is under   *)
(* way in one place or lost to account, nothing is stored but what was     *)
(* under way, one copy at a time, and nothing that left the path is ever   *)
(* taken up again, by a re-opened log, a restarted shipper or an export.   *)
Ledger == INSTANCE DeliveryLedger WITH underway <- Underway, lost <- dropped \cup gone

ImplementsLedger ==
    Ledger!Init /\ [][Ledger!Next]_<<Underway, stored, dropped \cup gone>>

(* A line that was read is posted, also when no other line follows. *)
BufferIsShipped == \A r \in Requests : (r \in Ids(buffer)) ~> (r \notin Ids(buffer))

(* "Re-opens the file if a read returns nothing for REOPEN_BACKOFF seconds *)
(* - handles log rotation cheaply without inotify" (lb-otel-shipper        *)
(* app.py:258).                                                            *)
RotationIsFollowed == ~current ~> current
=============================================================================
