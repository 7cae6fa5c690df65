--------------------------- MODULE PolicyRegister ---------------------------
(***************************************************************************)
(* What the policy path promises to the services that live by the policy:  *)
(* a register that is only ever given valid policies, of which each        *)
(* service holds a copy it took whole, and a service that compares         *)
(* versions never takes an older one.  A write that overlaps another may   *)
(* leave a blend of the two beside what was given.  The copies may lag,    *)
(* skip values, and be forgotten by a restart; only a service that reads   *)
(* version and fields separately may come up with the two of different     *)
(* policies, and it completes the fields it reads.                         *)
(***************************************************************************)
EXTENDS Integers

CONSTANTS
    Consumers,      \* services that hold a copy
    Comparing,      \* those that compare the version of an offer with theirs
    TwoReads,       \* those that read fields and version one after the other
    Policies,       \* policies that may be written
    Completed,      \* what such a service makes of the fields it reads
    Default         \* the copy of a service that has just started

VARIABLES
    offered,        \* the policies a service may take
    held            \* the copy each service holds

registerVars == <<offered, held>>

Init == /\ offered \subseteq Policies
        /\ held = [c \in Consumers |-> Default]

\* b has each of its parts from p or from q.
Blend(b, p, q) == /\ b.version \in {p.version, q.version}
                  /\ \A f \in DOMAIN p.fields : b.fields[f] \in {p.fields[f], q.fields[f]}

\* The register is given p, perhaps while it is being given q.
Write(p, q) == /\ UNCHANGED held
               /\ \A r \in offered' \ offered : r = p \/ Blend(r, p, q)

\* Any step of a service may be the last for which a policy was on offer.
Withdraw == offered' \subseteq offered

Take(c, p) == /\ c \in Comparing => held[c].version <= p.version
              /\ held' = [held EXCEPT ![c] = p]
              /\ Withdraw

TakeFields(c, p) == /\ c \in TwoReads
                    /\ held' = [held EXCEPT ![c].fields = Completed[p.fields]]
                    /\ Withdraw

TakeVersion(c, p) == /\ c \in TwoReads
                     /\ held' = [held EXCEPT ![c].version = p.version]
                     /\ Withdraw

Forget(c) == /\ held' = [held EXCEPT ![c] = Default]
             /\ Withdraw

Next == \/ Withdraw /\ UNCHANGED held
        \/ \E p \in Policies, q \in offered : Write(p, q)
        \/ \E c \in Consumers : Forget(c)
        \/ \E c \in Consumers, p \in offered :
               Take(c, p) \/ TakeFields(c, p) \/ TakeVersion(c, p)

Spec == Init /\ [][Next]_registerVars
=============================================================================
