\* Three jobs compete for one slot, two of them wait, and both sessions purge.
SPECIFICATION Spec
CONSTANTS
    NoObj = NoObj
    Boot = Boot
    Ids <- ThreeIds
    Objs = {r1, r2, r3}
    Consumers = {"c1", "c2"}
    ConsumerOf <- ThreeOwners
    Artifacts <- ThreeIds
    ArtifactOf <- OwnFile
    ScopeOf <- ThreeOwners
    Ephemeral = {"b"}
    Observers = {}
    Readers = {}
    Concurrency = 1
    RecordLimit = 3
    QueueLimit = 2
    AgingIds = {}
    PurgeIds = {}
    ScopePurgeIds = {"a", "z"}
SYMMETRY ObjectSymmetry
INVARIANTS
    QueueIsExact QuarantineIsSound
PROPERTIES
    StartsInOrder
CHECK_DEADLOCK FALSE
