----------------------------- MODULE PolicyPath -----------------------------
(***************************************************************************)
(* The policy's way from policy-manager to the services: the channel       *)
(* smartload.policy, a Redis pub/sub channel that keeps nothing for a      *)
(* subscriber that is not connected, and what each service does with a     *)
(* policy that reaches it.                                                 *)
(*                                                                         *)
(* The services differ.  The detector, the forecaster, the RL engine and   *)
(* the autoscaler drop an update older than theirs; the sidecar takes      *)
(* every one.  Before it subscribes, the autoscaler reads the file (twice, *)
(* the second time for the version), a default standing in for a bound     *)
(* that is not there, and the RL engine asks the manager; the others start *)
(* from defaults.                                                          *)
(***************************************************************************)
EXTENDS PolicyManager, Sequences

CONSTANTS
    Consumers,      \* services that subscribe to smartload.policy
    Comparing,      \* those that reject an older version
    Readers,        \* those that read policy.yaml at start
    Pullers,        \* those that get it from the manager at start
    Defaults,       \* what a reader takes for a bound that is not in the file
    Deployments,    \* sets of services that run together
    MaxQueue        \* bound: messages that may wait when a request starts

VARIABLES
    link,           \* how far each service is: absent, down, read, off, on
    inbox,          \* messages on its connection
    held,           \* the policy it works by
    fresh,          \* history: the last policy handed to it is the file's
    guessed         \* history: services that work by a default of theirs

consumerVars == <<link, inbox, held, fresh, guessed>>
vars == <<managerVars, consumerVars>>

ASSUME ReadersAssumption == Readers \cap Pullers = {}
ASSUME DefaultsAssumption ==
    Defaults \in Values /\ \A f \in Fields : Defaults[f] # Absent
ASSUME DeploymentsAssumption == Deployments \subseteq SUBSET Consumers
ASSUME MaxQueueAssumption == MaxQueue \in Nat

-----------------------------------------------------------------------------
On == {c \in Consumers : link[c] = "on"}

\* The file changed under what the services were handed.
Outdated == [c \in Consumers |-> fresh[c] /\ file' = file]

Init ==
    /\ ManagerInit
    /\ \E deployed \in Deployments :
          link = [c \in Consumers |-> IF c \in deployed THEN "down" ELSE "absent"]
    /\ inbox = [c \in Consumers |-> <<>>]
    /\ held = [c \in Consumers |-> NoPolicy]
    /\ fresh = [c \in Consumers |-> FALSE]
    /\ guessed = {}

-----------------------------------------------------------------------------
(* policy-manager. *)

Request(t, u) == /\ \A c \in Consumers : Len(inbox[c]) <= MaxQueue
                 /\ Load(t, u)
                 /\ UNCHANGED consumerVars

Save(t) == /\ Replace(t) \/ Truncate(t) \/ Fill(t)
           /\ fresh' = Outdated
           /\ UNCHANGED <<link, inbox, held, guessed>>

Fail == /\ ManagerCrash \/ \E t \in Threads : WriteFails(t)
        /\ UNCHANGED consumerVars

(* _publish_policy: to whoever is subscribed now. *)
Publish(t) ==
    /\ EndPublish(t)
    /\ Publishable(job[t].new)
    /\ inbox' = [c \in Consumers |->
                    IF c \in On THEN Append(inbox[c], job[t].new) ELSE inbox[c]]
    /\ fresh' = [c \in Consumers |->
                    IF c \in On THEN job[t].new = file ELSE fresh[c]]
    /\ UNCHANGED <<link, held, guessed>>

(* Redis is unreachable, or a required field is missing. *)
PublishLost(t) == /\ EndPublish(t)
                  /\ UNCHANGED consumerVars

-----------------------------------------------------------------------------
(* The services. *)

\* load_policy of the autoscaler: data.get(key, default).
WithDefaults(v) == [f \in Fields |-> IF v[f] = Absent THEN Defaults[f] ELSE v[f]]

\* The file as service c takes it.
Seen(c) == IF c \in Readers THEN [file EXCEPT !.fields = WithDefaults(@)] ELSE file

\* Mutant of Adopted: no version guard.
AdoptsAnything(c, p) == p

\* Mutant of Adopted: an update of the same version is dropped too.
DropsEqualVersion(c, p) == IF c \in Comparing /\ p.version <= held[c].version
                           THEN held[c] ELSE p

\* policy_from_payload and the version guard of _handle_policy_message.
Adopted(c, p) == IF c \in Comparing /\ p.version < held[c].version
                 THEN held[c] ELSE p

\* Mutant of Receive: a stale message is left where it is.
ReceiveStops(c) ==
    /\ link[c] = "on"
    /\ inbox[c] # <<>>
    /\ held[c].version < Head(inbox[c]).version
    /\ held' = [held EXCEPT ![c] = Adopted(c, Head(inbox[c]))]
    /\ guessed' = IF held'[c] = Head(inbox[c]) THEN guessed \ {c} ELSE guessed
    /\ inbox' = [inbox EXCEPT ![c] = Tail(@)]
    /\ UNCHANGED <<managerVars, link, fresh>>

Receive(c) ==
    /\ link[c] = "on"
    /\ inbox[c] # <<>>
    /\ held' = [held EXCEPT ![c] = Adopted(c, Head(inbox[c]))]
    /\ guessed' = IF held'[c] = Head(inbox[c]) THEN guessed \ {c} ELSE guessed
    /\ inbox' = [inbox EXCEPT ![c] = Tail(@)]
    /\ UNCHANGED <<managerVars, link, fresh>>

(* main of the autoscaler: load_policy, with a default for a bound the     *)
(* file does not hold.  A file that does not parse ends the process, which *)
(* starts again.                                                           *)
ReadFields(c) ==
    /\ link[c] = "down" /\ c \in Readers
    /\ file # Garbled
    /\ held' = [held EXCEPT ![c].fields = WithDefaults(file.fields)]
    /\ guessed' = IF Publishable(file) THEN guessed ELSE guessed \cup {c}
    /\ link' = [link EXCEPT ![c] = "read"]
    /\ UNCHANGED <<managerVars, inbox, fresh>>

(* main of the autoscaler: the file again, for policy_version. *)
ReadVersion(c) ==
    /\ link[c] = "read"
    /\ file # Garbled
    /\ held' = [held EXCEPT ![c].version = file.version]
    /\ fresh' = [fresh EXCEPT ![c] = (held[c].fields = Seen(c).fields)]
    /\ link' = [link EXCEPT ![c] = "off"]
    /\ UNCHANGED <<managerVars, inbox, guessed>>

(* _pull_initial_policy; GET answers 404 for an empty file and 500 for one *)
(* that does not parse, and the engine keeps its defaults.                 *)
Pull(c) ==
    /\ link[c] = "down" /\ c \in Pullers
    /\ file # Garbled
    /\ held' = [held EXCEPT ![c] = file]
    /\ fresh' = [fresh EXCEPT ![c] = TRUE]
    /\ link' = [link EXCEPT ![c] = "off"]
    /\ UNCHANGED <<managerVars, inbox, guessed>>

(* A service that asks nobody, or a pull that failed. *)
Start(c) ==
    /\ link[c] = "down" /\ c \notin Readers
    /\ link' = [link EXCEPT ![c] = "off"]
    /\ UNCHANGED <<managerVars, inbox, held, fresh, guessed>>

Subscribe(c) ==
    /\ link[c] = "off"
    /\ link' = [link EXCEPT ![c] = "on"]
    /\ UNCHANGED <<managerVars, inbox, held, fresh, guessed>>

(* The connection breaks; what waited on it is lost. *)
Disconnect(c) ==
    /\ link[c] = "on"
    /\ link' = [link EXCEPT ![c] = "off"]
    /\ inbox' = [inbox EXCEPT ![c] = <<>>]
    /\ fresh' = [fresh EXCEPT ![c] = fresh[c] /\ inbox[c] = <<>>]
    /\ UNCHANGED <<managerVars, held, guessed>>

(* The process stops and comes back with nothing. *)
Restart(c) ==
    /\ link[c] \in {"read", "off", "on"}
    /\ link' = [link EXCEPT ![c] = "down"]
    /\ inbox' = [inbox EXCEPT ![c] = <<>>]
    /\ held' = [held EXCEPT ![c] = NoPolicy]
    /\ fresh' = [fresh EXCEPT ![c] = FALSE]
    /\ guessed' = guessed \ {c}
    /\ UNCHANGED managerVars

ConsumerStep(c) ==
    \/ Receive(c) \/ ReadFields(c) \/ ReadVersion(c) \/ Pull(c) \/ Start(c)
    \/ Subscribe(c) \/ Disconnect(c) \/ Restart(c)

Next == \/ \E t \in Threads, u \in Updates : Request(t, u)
        \/ \E t \in Threads : Save(t) \/ Publish(t) \/ PublishLost(t)
        \/ Fail
        \/ \E c \in Consumers : ConsumerStep(c)

(* Each service's loop takes the next message within a second. *)
Spec == Init /\ [][Next]_vars /\ \A c \in Consumers : WF_vars(Receive(c))

-----------------------------------------------------------------------------
(* Every variable keeps its type: in particular the version never outruns  *)
(* the updates, although it may fall when a request reads a truncated file.  *)
PolicyPathTypeOK ==
    /\ file \in Policy \cup {Garbled}
    /\ mount \in Mounts
    /\ job \in [Threads -> Jobs]
    /\ texts \subseteq Policy
    /\ link \in [Consumers -> {"absent", "down", "read", "off", "on"}]
    /\ inbox \in [Consumers -> Seq(Policy)]
    /\ held \in [Consumers -> Policy]
    /\ fresh \in [Consumers -> BOOLEAN]
    /\ mixed \in BOOLEAN
    /\ guessed \subseteq Readers

(* Whatever requests interleave, whatever write is cut short, the bounds   *)
(* on the channel are ordered, and so are those on disk and at every       *)
(* service: no service scales between a minimum and a smaller maximum.     *)
(* Lost updates do not break this, because a request writes the whole      *)
(* merged policy and never its own keys alone; nor does the autoscaler's   *)
(* second read, which takes the version only.  Two things do: writes in    *)
(* place that overlapped, at the disk and at who reads it, and a bound     *)
(* that is not in the file, at a reader that has a default for it.         *)
BoundsAreOrdered ==
    /\ mixed \/ Ordered(file.fields)
    /\ \A c \in Consumers :
          /\ \/ Ordered(held[c].fields)
             \/ mixed /\ c \in Readers \cup Pullers
             \/ c \in guessed
          /\ \A i \in DOMAIN inbox[c] : Ordered(inbox[c][i].fields)

(* A service that was last handed what is now in the file, and has worked  *)
(* off its messages, works by the file: by none of the updates that        *)
(* overtook one another on the way, and by nothing it held before.  The    *)
(* one exception is a service that compares versions and has seen a higher *)
(* one than the file shows, which needs a version that was taken back.     *)
FreshServicesAgree ==
    \A c \in Consumers :
        fresh[c] /\ inbox[c] = <<>> =>
            \/ held[c] = Seen(c)
            \/ c \in Comparing /\ held[c].version > file.version

(* A published policy that stays the file's reaches every service that was *)
(* subscribed, however many stale messages are before it.                  *)
FreshPolicyIsAdopted ==
    \A c \in Consumers :
        fresh[c] ~> \/ ~fresh[c]
                    \/ held[c] = Seen(c)
                    \/ c \in Comparing /\ held[c].version > file.version

(* What a service may still be handed. *)
Offered ==
    texts \cup {job[t].new : t \in {u \in Threads : job[u].pc = "publish"}}
          \cup UNION {{inbox[c][i] : i \in DOMAIN inbox[c]} : c \in Consumers}

(* The register the services may rely on. *)
Register == INSTANCE PolicyRegister
                WITH offered <- Offered, TwoReads <- Readers, Policies <- ValidPolicy, Default <- NoPolicy,
                     Completed <- [v \in Values |-> WithDefaults(v)]

(* Every step of the path is a step of the register: what a service works  *)
(* by was written whole and valid, or is what two overlapping writes left  *)
(* of the policies they were given; and it is not older than what the      *)
(* service held.                                                           *)
ImplementsRegister == Register!Init /\ [][Register!Next]_<<Offered, held>>
=============================================================================
