------------------------ MODULE MCCorrectionDelivery ------------------------
EXTENDS CorrectionDelivery, TLC

\* Doubling delays.
MCBackoff == [k \in 1 .. MaxAttempts |-> 2 ^ (k - 1)]

Symmetry == Permutations(Recipients) \cup Permutations(Notifiers) \cup Permutations(Retriers)
=============================================================================
