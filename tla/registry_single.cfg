CONSTANTS
    Clients <- MC_Clients1
    Clones <- MC_NoClones
    Names <- MC_Names
    Projects <- MC_Projects1
    Specs <- MC_Specs
    Intervals <- MC_Intervals
    Infras <- MC_Infras
    TTL = 0
    MaxTime = 1
    MaxIntervals = 1
    CommitFlags <- MC_CommitBoth
    NoFile = NoFile
    None = None
    Absent = Absent
SPECIFICATION Spec
INVARIANTS
    TypeOK
    CollectionsUnique
    FeatureViewNamesDisjoint
    PendingWritesVisible
VIEW MC_ViewPending
