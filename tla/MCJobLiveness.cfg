\* Two jobs of one session and one slot, with a reader and both purges.
SPECIFICATION FairSpec
CONSTANTS
    NoObj = NoObj
    Boot = Boot
    Ids <- TwoIds
    Objs = {r1, r2}
    Consumers = {"c1"}
    ConsumerOf <- OneOwner
    Artifacts = {"a"}
    ArtifactOf <- SharedFile
    ScopeOf <- OneScope
    Ephemeral = {}
    Observers = {}
    Readers = {x1}
    Concurrency = 1
    RecordLimit = 2
    QueueLimit = 1
    AgingIds = {}
    PurgeIds = {"a"}
    ScopePurgeIds = {"b"}
PROPERTIES
    JobsFinish PurgesEnd ShutdownDrains
CHECK_DEADLOCK FALSE
