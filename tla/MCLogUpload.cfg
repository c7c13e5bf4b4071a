SPECIFICATION Spec
CONSTANTS
    MaxLogs = 2
INVARIANTS
    ZeroMeansStored
    StaleOnlyByDeath
PROPERTIES
    ArchiveSpec
    ScriptEnds
