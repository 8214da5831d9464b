CONSTANTS
    t1 = t1
    t2 = t2
    p1 = p1
    None = None
    Tabs = {t1, t2}
    Projects = {p1}
    Times <- OneTime
    ManualLimit = 1
    TemporaryLimit = 1
    VersionLimit = 1
    SessionLimit = 1
    QueueLimit = 2
    Restores = FALSE
SPECIFICATION FairSpec
PROPERTIES
    ExitEnds
    CleanupEnds
