\* The three restarts of DESKTOP_RUNTIME_RESTART_DELAYS_MS.
SPECIFICATION FairSpec
CONSTANT Retries = 3
PROPERTY PersistentFailureEnds
CHECK_DEADLOCK FALSE
