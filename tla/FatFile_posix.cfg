SPECIFICATION Spec
CONSTANTS
    LastCluster = 4
    SlackIsFree = FALSE
    File = {"a", "b"}
    BytesPerSector = 2
    SectorsPerCluster = 2
    Lengths = {2, 5}
    Offsets = {0, 4}
    Rewritten = {"a"}
    MaxSize = 7
    Careful = TRUE
INVARIANTS ClustersAccountedFor
PROPERTIES ImplementsPosixFile
