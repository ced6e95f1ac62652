CONSTANTS
    Features <- MC_Features
    Dummy = "__dummy_id"
    OneofCases <- MC_Cases
    Payload <- MC_Payload
    Default <- MC_Default
    EntityKeys <- MC_EntityKeys
    ValueTypes <- MC_ValueTypes
    Null = "NULL"
    MaxRows = 2
    None = None
SPECIFICATION Spec
INVARIANTS
    ToDictFaithful
    EntityRowsMatchReference
