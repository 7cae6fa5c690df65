---------------------------- MODULE PolicyManager ---------------------------
(***************************************************************************)
(* services/policy-manager: the HTTP service that owns policy.yaml.  A     *)
(* POST reads the file, merges and checks the update, writes the file      *)
(* back one version up, records it and publishes it.  The server runs its  *)
(* handlers on eight threads and takes no lock, so requests interleave.    *)
(*                                                                         *)
(* A policy is its version and its two fields the cross-field check        *)
(* relates; a field no check relates behaves as either of these.  Absent   *)
(* stands for a key that is not in the file.                               *)
(***************************************************************************)
EXTENDS Integers

CONSTANTS
    Threads,        \* request threads of the server
    MaxBackends,    \* largest value of either field
    Updates,        \* bodies that may be posted: Absent for a key not given
    Initial,        \* what policy.yaml may hold when the system is first started
    Mounts,         \* how the file is mounted: "file" (bind mount) or "dir"
    MaxVersion      \* bound: updates the model follows

Fields  == {"min_backends", "max_backends"}
Absent  == 0
Values  == [Fields -> 0 .. MaxBackends]
Policy  == [version : 0 .. MaxVersion, fields : Values]

\* {}: what load_policy makes of a missing or empty file.
NoPolicy == [version |-> 0, fields |-> [f \in Fields |-> Absent]]
\* A file that is no YAML mapping: load_policy raises.
Garbled  == [version |-> -1, fields |-> [f \in Fields |-> Absent]]

\* min_backends <= max_backends, where both are there.
Ordered(v) == \/ Absent \in {v["min_backends"], v["max_backends"]}
              \/ v["min_backends"] <= v["max_backends"]

ValidPolicy == {p \in Policy : Ordered(p.fields)}

ASSUME MaxBackendsAssumption == MaxBackends \in Nat
ASSUME UpdatesAssumption == Updates \subseteq Values
ASSUME InitialAssumption == Initial \subseteq ValidPolicy
ASSUME MaxVersionAssumption == MaxVersion \in Nat

VARIABLES
    file,           \* policy.yaml
    mount,          \* whether a rename onto it works ("dir") or not ("file")
    job,            \* the request each thread serves
    texts,          \* what was written to the file since it was last emptied
    mixed           \* history: the file has been a mixture of two texts

managerVars == <<file, mount, job, texts, mixed>>

-----------------------------------------------------------------------------
\* {**existing, **user_updates}
Merge(v, u) == [f \in Fields |-> IF u[f] = Absent THEN v[f] ELSE u[f]]

\* What a cut may leave of a text whose keys are sorted: nothing, or its last
\* keys, policy_version being the very last.
Tails == {{}, {"policy_version"}, {"min_backends", "policy_version"},
          {"max_backends", "min_backends", "policy_version"}}

\* The text of new over a longer one of old: what is left of old stands behind
\* it, and of a key that is there twice the last one counts.
Overlaid(new, old, keys) ==
    [version |-> IF "policy_version" \in keys /\ old.version # Absent
                 THEN old.version ELSE new.version,
     fields  |-> Merge(new.fields, [f \in Fields |->
                          IF f \in keys THEN old.fields[f] ELSE Absent])]

\* Mutant of ChecksMerged: the body alone is checked.
ChecksBodyOnly(v, u) == Ordered(u)

\* validate_merged_policy: the checks run on the merged policy, not the body.
ChecksMerged(v, u) == Ordered(Merge(v, u))

\* Mutant of NextVersion: the bump is applied twice.
BumpsTwice(p) == p.version + 2

NextVersion(p) == p.version + 1

Idle == [pc |-> "idle", new |-> NoPolicy]
Jobs == [pc : {"idle", "write", "fill", "publish"}, new : Policy]

Goto(t, label) == job' = [job EXCEPT ![t].pc = label]
Quit(t)        == job' = [job EXCEPT ![t] = Idle]

(* _REQUIRED_FOR_PUBLISH: both fields must be there. *)
Publishable(p) == \A f \in Fields : p.fields[f] # Absent

-----------------------------------------------------------------------------
ManagerInit == /\ file \in Initial
               /\ mount \in Mounts
               /\ job = [t \in Threads |-> Idle]
               /\ texts = {file}
               /\ mixed = FALSE

(* load_policy, validate_updates, _changed_fields and the bump.  A body    *)
(* that fails a check, a merge that changes nothing and a file that does   *)
(* not parse are answered here and change nothing.                         *)
Load(t, u) ==
    LET merged == Merge(file.fields, u)
    IN  /\ job[t].pc = "idle"
        /\ file # Garbled
        /\ ChecksMerged(file.fields, u)
        /\ merged # file.fields
        /\ file.version < MaxVersion
        /\ job' = [job EXCEPT ![t] = [pc |-> "write",
                       new |-> [version |-> NextVersion(file), fields |-> merged]]]
        /\ UNCHANGED <<file, mount, texts, mixed>>

(* The temporary file is renamed onto policy.yaml. *)
Replace(t) ==
    /\ job[t].pc = "write"
    /\ mount = "dir"
    /\ file' = job[t].new
    /\ texts' = {job[t].new}
    /\ Goto(t, "publish")
    /\ UNCHANGED <<mount, mixed>>

(* The rename fails with EBUSY and open(path, "w") empties the file. *)
Truncate(t) ==
    /\ job[t].pc = "write"
    /\ mount = "file"
    /\ file' = NoPolicy
    /\ texts' = {NoPolicy}
    /\ Goto(t, "fill")
    /\ UNCHANGED <<mount, mixed>>

(* The buffered text reaches the file when it is closed.  Over the text of *)
(* another request that was opened as early, the longer tail stays; what   *)
(* is left behind a text that does not parse may be of any earlier one.    *)
Fill(t) ==
    LET older == IF file = Garbled THEN texts ELSE {file}
    IN  /\ job[t].pc = "fill"
        /\ \/ \E old \in older, keys \in Tails : file' = Overlaid(job[t].new, old, keys)
           \/ file # NoPolicy /\ file' = Garbled
        /\ texts' = texts \cup ({job[t].new, file'} \ {Garbled})
        /\ mixed' = (mixed \/ file' \notin {job[t].new, Garbled})
        /\ Goto(t, "publish")
        /\ UNCHANGED mount

(* The write raises and the answer is 500: the file stays as it is, which  *)
(* is empty once it was truncated.                                         *)
WriteFails(t) ==
    /\ job[t].pc \in {"write", "fill"}
    /\ Quit(t)
    /\ UNCHANGED <<file, mount, texts, mixed>>

(* The process dies: every request with it. *)
ManagerCrash ==
    /\ \E t \in Threads : job[t].pc # "idle"
    /\ job' = [t \in Threads |-> Idle]
    /\ UNCHANGED <<file, mount, texts, mixed>>

(* The audit rows are written, or not, between the file and this step;     *)
(* nothing reads them back.  Skipped or failed, the publish is not tried   *)
(* again: the module that has subscribers says what reaches them.          *)
EndPublish(t) ==
    /\ job[t].pc = "publish"
    /\ Quit(t)
    /\ UNCHANGED <<file, mount, texts, mixed>>
=============================================================================
