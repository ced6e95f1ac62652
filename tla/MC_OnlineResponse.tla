------------------------- MODULE MC_OnlineResponse -------------------------
EXTENDS OnlineResponse

MC_Features == {"f", "__dummy_id"}
MC_Cases == {"int64_val", "int64_list_val"}
MC_Payload == [int64_val |-> "one", int64_list_val |-> "ones"]
MC_Default == [int64_val |-> "zero", int64_list_val |-> "empty"]
MC_EntityKeys == {"e1", "e2"}
MC_ValueTypes == {"INT64", "STRING"}
=============================================================================
