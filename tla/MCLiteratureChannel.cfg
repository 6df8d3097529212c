SPECIFICATION Spec
CONSTANTS
    p1 = p1
    p2 = p2
    None = None
    Processes = {p1, p2}
    Papers <- MCPapers
    About <- MCAbout
    Works <- MCWorks
    FirstArxiv <- MCFirstArxiv
    Queries <- MCQueries
    MaxResults = 3
    HashOrder <- MCHashOrder
    FirstDisk <- MCFirstDisk
    Prose <- MCProse
    SmallLetter <- MCSmallLetter
    BlobPath <- MCBlobPath
    MaxRepairs = 1
    MaxRetries = 1
    MinIncluded = 1
    Work <- MCWork
SYMMETRY Symmetry
CHECK_DEADLOCK FALSE
INVARIANTS
    WatchesAreHonest
    EntriesAreAnchored
    ModelIsNotShopped
    MeasurementsMatchTheRatings
    AuditsSpeakOfWhatTheyName
