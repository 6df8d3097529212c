SPECIFICATION Spec
CONSTANTS
    Receivers = {r1, r2}
    Importers = {i1}
    Envelopes = {e1, e2}
    Bundles = {b1, b2, b3}
    Signed <- MCSigned
    Online = {e1, e2}
    Grace = 1
    MaxDelay = 1
    MaxTime = 3
    MaxCount = 2
    e1 = e1
    e2 = e2
    b1 = b1
    b2 = b2
    b3 = b3
    Contents <- MCContents
    None = None
SYMMETRY Symmetry
INVARIANTS
    AcceptedOnce
    HonestReplay
    LedgerIsComplete
