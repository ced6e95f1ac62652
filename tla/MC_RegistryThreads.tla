------------------------- MODULE MC_RegistryThreads -------------------------
EXTENDS RegistryThreads

MC_Threads == {"t1", "t2"}
MC_Writer == {"t1"}
MC_Thread1 == {"t1"}
MC_AllReads == {"get", "get_cached"}
MC_NoReads == {}
MC_Names == {"n1"}
MC_Projects == {"p1"}
MC_Specs == {"s1", "s2"}
MC_AllWrites == {"apply_entity", "apply_feature_service",
                 "apply_feature_view", "delete_entity"}
MC_EntityWrites == {"apply_entity"}
MC_ServiceWrites == {"apply_feature_service"}
MC_CachedReads == {"get_cached"}
MC_DefaultReads == {"get"}
MC_AllFV == {"feature_views", "on_demand_feature_views", "request_feature_views"}
MC_NoFV == {}
=============================================================================
