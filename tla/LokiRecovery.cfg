\* A second backup runs into whatever the first one and a restore left behind.
SPECIFICATION RecoverySpec
CONSTANTS
    MaxBackups = 2
CHECK_DEADLOCK FALSE
INVARIANTS
    UsableArchiveIsCold
    RecoveredOrReported
    AlloyStopsFirstStartsLast
    ValidationServesArchive
