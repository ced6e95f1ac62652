CONSTANTS
    Clients <- MC_Clients1
    Clones <- MC_Clones1
    Names <- MC_Names
    Projects <- MC_Projects1
    Specs <- MC_Specs
    Intervals <- MC_NoIntervals
    Infras <- MC_NoInfras
    TTL = 0
    MaxTime = 0
    MaxIntervals = 1
    CommitFlags <- MC_CommitAlways
    NoFile = NoFile
    None = None
    Absent = Absent
SPECIFICATION Spec
INVARIANTS
    CloneHoldsSnapshot
