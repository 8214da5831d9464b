\* Exports and cleanups of one project against crashes and a second tab.
SPECIFICATION Spec
CONSTANTS
    t1 = t1
    t2 = t2
    None = None
    Tabs = {t1, t2}
    VersionLimit = 2
    SessionLimit = 3
    QueueLimit = 2
SYMMETRY TabSymmetry
CONSTRAINT AdmissionIsSure
CHECK_DEADLOCK FALSE
INVARIANTS
    CleanupInvariant
    OneEditor
PROPERTIES
    OnlyExportedWorkIsDeleted
    BoundMaterialIsPurged
    DeletedForGood
