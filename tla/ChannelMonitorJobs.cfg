SPECIFICATION PartsSpec
CONSTANTS
    Jobs = {j1, j2}
    NoJob = NoJob
    Limit = 4
    MaxFile = 2
    MaxVideo = 3
    MaxJob = 4
    MaxSize = 4
SYMMETRY Symmetry
INVARIANTS
    SlotAndFolder
    ToldIsKept
    ZipIsTheFolders
    MediaWithinLimit
