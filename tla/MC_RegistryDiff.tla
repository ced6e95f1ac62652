-------------------------- MODULE MC_RegistryDiff --------------------------
EXTENDS RegistryDiff

MC_Names1 == {"n1"}
MC_Names2 == {"n1", "n2"}
MC_Order1 == <<"n1">>
MC_Order2 == <<"n1", "n2">>
MC_Projects1 == {"p1"}
MC_Projects2 == {"p1", "p2"}
MC_Specs == {"s1", "s2"}
MC_Kinds == {"entities", "feature_views"}
MC_OneKind == {"feature_views"}
=============================================================================
