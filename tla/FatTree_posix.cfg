SPECIFICATION Spec
CONSTANTS
    LastCluster = 4
    SlackIsFree = FALSE
    SlotsPerCluster = 4
    Names = {"a", "b"}
    LongNames = {"b"}
    Careful = TRUE
INVARIANTS ClustersFound
 
