CONSTANTS
    t1 = t1
    t2 = t2
    p1 = p1
    None = None
    Tabs = {t1}
    Projects = {p1}
    Times <- OneTime
    ManualLimit = 1
    TemporaryLimit = 1
    VersionLimit = 2
    SessionLimit = 1
    QueueLimit = 2
    Restores = TRUE
SPECIFICATION Spec
PROPERTIES
    ReplacedWorkIsRejected
