------------------------------ MODULE MCExchange ------------------------------
(* Small instances of Exchange for TLC.                                    *)
EXTENDS Exchange, TLC

CONSTANTS v1, v2, key1, key2, modelA, modelB

MessageSymmetry == Permutations(Messages)

\* Three versions of the roster: the peer changes its key and its model from the first
\* to the second, and the third no longer lists the sender.
ThreeRosters == {1, 2, 3}
Changing == <<[key |-> key1, model |-> modelA, lists |-> TRUE],
              [key |-> key2, model |-> modelB, lists |-> TRUE],
              [key |-> key2, model |-> modelB, lists |-> FALSE]>>
==============================================================================
