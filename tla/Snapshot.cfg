SPECIFICATION SnapshotSpec
CONSTANTS
    MemoryTables <- MCMemoryTables
    StateTables <- MCStateTables
    Mood = "mood"
    Keyed <- MCKeyed
    MaxRow = 2
    MaxBackups = 1
INVARIANTS
    RestoreIsExact
    IdsNeverClash
PROPERTIES
    ThoughtsOutlive
