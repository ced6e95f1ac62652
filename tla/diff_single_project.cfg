CONSTANTS
    Names <- MC_Names2
    NameOrder <- MC_Order2
    Projects <- MC_Projects1
    Specs <- MC_Specs
    DiffKinds <- MC_Kinds
    Intervals = {}
    MaxIntervals = 0
    None = None
    Absent = Absent
SPECIFICATION Spec
INVARIANTS
    DiffMatchesReference
    ToDictCanonical
