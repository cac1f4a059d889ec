SPECIFICATION ContentSpec
CONSTANTS
    None = None
    Documents <- MCDocuments
    Edits <- MCEdits
INVARIANTS
    LoadsWhatWasSaved
    CompiledWorldResolves
CHECK_DEADLOCK FALSE
