--------------------------- MODULE DeliveryLedger ---------------------------
(***************************************************************************)
(* What the telemetry path promises of every request and sample, wherever  *)
(* it is on the way: from the moment it exists it is under way or known to *)
(* be lost; it reaches the table from being under way and from nowhere     *)
(* else, one copy at a time; it never comes back once it has left; and     *)
(* leaving the way is being stored or being lost.  It may be both: a batch *)
(* that was given up may have been taken, and one that was written may be  *)
(* written again.                                                          *)
(***************************************************************************)
EXTENDS Integers

CONSTANT Requests

VARIABLES
    underway,       \* requests somewhere between the log and the table
    stored,         \* copies of each in the table
    lost            \* counted as dropped, or gone with a process or a file

ledgerVars == <<underway, stored, lost>>

\* Requests the path has not met.
Fresh == {r \in Requests : stored[r] = 0} \ (underway \cup lost)

Init == /\ underway = {}
        /\ stored = [r \in Requests |-> 0]
        /\ lost = {}

(* New requests: kept, missed, or missed by the account and yet kept. *)
Accept(kept, missed) ==
    /\ underway' = underway \cup kept
    /\ lost' = lost \cup missed
    /\ UNCHANGED stored

(* A copy of each is written; they may stay to be written again, and who   *)
(* does not learn that they were written counts them as lost.              *)
Deliver(S) ==
    /\ stored' = [r \in Requests |-> IF r \in S THEN stored[r] + 1 ELSE stored[r]]
    /\ underway' \in {underway, underway \ S}
    /\ lost' \in {lost, lost \cup S}

(* Given up, and yet they may be on their way. *)
Lose(S) ==
    /\ lost' = lost \cup S
    /\ underway' \in {underway, underway \ S}
    /\ UNCHANGED stored

Next == \/ \E S \in SUBSET underway : Deliver(S) \/ Lose(S)
        \/ \E kept, missed \in SUBSET Fresh : Accept(kept, missed)

Spec == Init /\ [][Next]_ledgerVars
=============================================================================
