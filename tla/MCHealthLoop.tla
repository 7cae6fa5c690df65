---------------------------- MODULE MCHealthLoop ----------------------------
(* Two backends: one may be benched, the other is the peer it is compared  *)
(* with and the quorum that must stay.                                     *)
EXTENDS HealthLoop, TLC

(* Stronger than EveryExclusionIsTracked: "this one healthy verdict MUST be  *)
(* published" (services/anomaly-detector/app.py:305), so no exclusion is     *)
(* left to nobody.  A publish that raises or safe mode drops it for good.    *)
NoExclusionIsForgotten ==
    \A b \in down : WillBeIncluded(b) \/ clock[b] # NoClock \/ b \in unread

(* "Re-arm exclusion clocks for backends left `down` by a prior process so   *)
(* the silent-backend recovery can free them" (app.py:504): a detector that  *)
(* starts has a clock for all of them.  It reads only the rows of the last   *)
(* 300 seconds.                                                              *)
RestartArmsEveryClock ==
    \A b \in down : WillBeIncluded(b) \/ clock[b] # NoClock \/ b \in lost
=============================================================================
