CONSTANTS
    Names <- MC_Names1
    NameOrder <- MC_Order1
    Projects <- MC_Projects2
    Specs <- MC_Specs
    DiffKinds <- MC_OneKind
    Intervals = {}
    MaxIntervals = 0
    None = None
    Absent = Absent
SPECIFICATION Spec
INVARIANTS
    DiffSelfUnchanged
