CONSTANTS
    Threads <- MC_Threads
    Writers <- MC_Writer
    WriteOps <- MC_EntityWrites
    ReadOps <- MC_DefaultReads
    WriterReads <- MC_NoReads
    FVCols <- MC_NoFV
    Names <- MC_Names
    Projects <- MC_Projects
    Specs <- MC_Specs
    Intervals = {}
    MaxIntervals = 0
    MaxCalls = 2
    NoFile = NoFile
    None = None
    Absent = Absent
SPECIFICATION Spec
INVARIANTS
    CollectionsUnique
