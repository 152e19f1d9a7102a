SPECIFICATION Spec
CONSTANTS
    Kinds = {"sd1", "sdhc", "mmc"}
    BlockCount = 6
    BlockSize = 2
    Limit41 = 2
    MaxPolls = 1
    LateFaults = FALSE
    NumberOfPages = 2
    SectorsPerPage = 2
    EndOfPartition = 5
    MaxSectors = 3
    MaxLost = 1

    
    
    
PROPERTIES
    MountEnds
CHECK_DEADLOCK FALSE
