SPECIFICATION Spec
CONSTANTS
    Upload = {f1, f2}
    Deletion = {d1}
    Download = {g1}
    None = None
    MaxCrashes = 1
CHECK_DEADLOCK FALSE
INVARIANTS
    LiveReceiptsAreKept
    FilesAreAccountedFor
PROPERTIES
    UnneededFilesGo
