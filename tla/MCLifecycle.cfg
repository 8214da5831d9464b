\* Queue, runners, observers, deadlines, eviction and shutdown; no purge.
SPECIFICATION Spec
CONSTANTS
    NoObj = NoObj
    Boot = Boot
    Ids <- ThreeIds
    Objs = {r1, r2, r3}
    Consumers = {"c1", "c2"}
    ConsumerOf <- ThreeOwners
    Artifacts <- TwoFiles
    ArtifactOf <- CollidingFile
    ScopeOf <- FileOwners
    Ephemeral = {"b"}
    Observers = {w1}
    Readers = {}
    Concurrency = 1
    RecordLimit = 2
    QueueLimit = 1
    AgingIds = {}
    PurgeIds = {}
    ScopePurgeIds = {}
SYMMETRY ObjectSymmetry
INVARIANTS
    LimitsAreExact UnobservedWorkIsPersistent CompletedPathsAreDisjoint
PROPERTIES
    CancellationIsFinal
CHECK_DEADLOCK FALSE
