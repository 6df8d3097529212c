------------------------------ MODULE MCInbox ------------------------------
EXTENDS Inbox, TLC

CONSTANTS e1, e2, b1, b2, b3

Object(expires_at, key_until, defects) ==
    [sent_at |-> 0, expires_at |-> expires_at, key_from |-> 0, key_until |-> key_until,
     defects |-> defects]

\* Two good envelopes (the key of e2 ends before its window does), two good bundles
\* and one that fails after the replay query.
Objects == (e1 :> Object(2, 9, {})) @@ (e2 :> Object(3, 2, {})) @@
           (b1 :> Object(3, 9, {})) @@ (b2 :> Object(2, 9, {})) @@ (b3 :> Object(3, 9, {"hash_mismatch"}))
MCSigned == [m \in Envelopes \cup Bundles |-> Objects[m]]

\* e1 also travels in every bundle.
MCContents == [b \in Bundles |-> IF b = b1 THEN {e1} ELSE Envelopes]

Symmetry == Permutations(Receivers) \cup Permutations(Importers)
============================================================================
