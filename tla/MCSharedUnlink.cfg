\* The request that shares its file with another of the same session is purged.
SPECIFICATION Spec
CONSTANTS
    NoObj = NoObj
    Boot = Boot
    Ids <- TwoIds
    Objs = {r1, r2, r3}
    Consumers = {"c1"}
    ConsumerOf <- OneOwner
    Artifacts = {"a"}
    ArtifactOf <- SharedFile
    ScopeOf <- OneScope
    Ephemeral = {"b"}
    Observers = {}
    Readers = {x1}
    Concurrency = 1
    RecordLimit = 2
    QueueLimit = 1
    AgingIds = {}
    PurgeIds = {"a"}
    ScopePurgeIds = {}
SYMMETRY ObjectSymmetry
PROPERTY
    UnlinksOnlyUnreadFiles
CHECK_DEADLOCK FALSE
