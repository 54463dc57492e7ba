------------------------------ MODULE MCRegistry ------------------------------
(* Small instances of Registry for TLC.                                    *)
EXTENDS Registry

CONSTANTS alice, bob

\* Two members pool one GB each behind alice's endpoint.
PairShares == [m \in {alice, bob} |-> 1]

\* One claim below nothing and one above everything: both are capped.
WildReports == {-1, 3}
==============================================================================
