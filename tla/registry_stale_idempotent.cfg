CONSTANTS
    Clients <- MC_Clients2
    Clones <- MC_NoClones
    Names <- MC_Names
    Projects <- MC_Projects1
    Specs <- MC_Specs
    Intervals <- MC_Intervals
    Infras <- MC_Infras
    TTL = 0
    MaxTime = 0
    MaxIntervals = 1
    CommitFlags <- MC_CommitBoth
    NoFile = NoFile
    None = None
    Absent = Absent
SPECIFICATION Spec
INVARIANTS
    ApplyThenGet
