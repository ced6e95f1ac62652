CONSTANTS
    Threads <- MC_Threads
    Writers <- MC_Writer
    WriteOps <- MC_AllWrites
    ReadOps <- MC_CachedReads
    WriterReads <- MC_DefaultReads
    FVCols <- MC_AllFV
    Names <- MC_Names
    Projects <- MC_Projects
    Specs <- MC_Specs
    Intervals = {}
    MaxIntervals = 0
    MaxCalls = 3
    NoFile = NoFile
    None = None
    Absent = Absent
SPECIFICATION Spec
INVARIANTS
    TypeOK
    CollectionsUnique
    CommitCarriesCall
PROPERTIES
    CallsReturn
