CONSTANTS
    Documents = {d1, d2}
    FileWorkers = {w1, w2, w3}
    NoDocument = NoDocument
SPECIFICATION FilesSpec
SYMMETRY Symmetry
INVARIANTS
    OrphanOnlyByEarlyRemoval
    UploadedHasFile
CHECK_DEADLOCK FALSE
