\* Two requests of one session sharing a file, a reader, both kinds of purge.
SPECIFICATION Spec
CONSTANTS
    NoObj = NoObj
    Boot = Boot
    Ids <- TwoIds
    Objs = {r1, r2, r3}
    Consumers = {"c1"}
    ConsumerOf <- OneOwner
    Artifacts = {"a"}
    ArtifactOf <- SharedFile
    ScopeOf <- OneScope
    Ephemeral = {}
    Observers = {w1}
    Readers = {x1}
    Concurrency = 1
    RecordLimit = 2
    QueueLimit = 1
    AgingIds = {"a"}
    PurgeIds = {"a"}
    ScopePurgeIds = {"b"}
SYMMETRY ObjectSymmetry
INVARIANTS
    TypeOK LiveRunnersAreCurrent ScopeIsQuiescent ScopePurgeInvariant AccountsAreExact
PROPERTIES
    ActiveRecordsStay ImplementsCacheScope
CHECK_DEADLOCK FALSE
