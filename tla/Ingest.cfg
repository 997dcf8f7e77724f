SPECIFICATION Spec
CONSTANTS
    Names = {1, 2, 3, 4, 5, 6, 7, 8, 9}
    Inputs <- MCInputs
    Flags <- MCFlags
    Hdfs = {1, 2, 4}
    HdfScale = 2
    ChunkSize = 2
    Unset <- MCUnset
    UnsetCount = {0, 1}
    SizeRange = 256
    Absent = Absent
    MaxRuns = 3
INVARIANTS
    TypeOK
    HeaderIsLast
    SplitExact
    DegreesLoaded
PROPERTIES
    InterruptedStays
