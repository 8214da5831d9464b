CONSTANTS
    t1 = t1
    t2 = t2
    p1 = p1
    None = None
    Tabs = {t1}
    Projects = {p1}
    Times <- MCTimes
    ManualLimit = 1
    TemporaryLimit = 2
    VersionLimit = 3
    SessionLimit = 1
    QueueLimit = 1
    Restores = TRUE
SPECIFICATION Spec
INVARIANTS
    LastSaveIsListed
    DraftInvariant
    BaselineTracksSavedDrafts
PROPERTIES
    RestoreCanBeUndone
