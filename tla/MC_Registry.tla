---------------------------- MODULE MC_Registry ----------------------------
EXTENDS Registry

MC_Clients1 == {"c1"}
MC_Clients2 == {"c1", "c2"}
MC_NoClones == {}
MC_Clones1 == {"d1"}
MC_Names == {"n1"}
MC_Names2 == {"n1", "n2"}
MC_Projects1 == {"p1"}
MC_Projects2 == {"p1", "p2"}
MC_Specs == {"s1", "s2"}
MC_Intervals == {"i1"}
MC_NoIntervals == {}
MC_Infras == {"inf1"}
MC_NoInfras == {}
MC_CommitBoth == {TRUE, FALSE}
MC_CommitAlways == {TRUE}
\* Fingerprint views for runs whose properties do not read the ghost
\* variables: a ghost never influences the other variables' futures.
MC_ViewPending == <<store, cache, created, now, unsaved, backend>>
MC_ViewState == <<store, cache, created, now, backend>>
\* Sessions in which the registry is never torn down once it exists
MC_NextKeepFile == Next /\ (store # NoFile => store' # NoFile)
MC_SpecKeepFile == Init /\ [][MC_NextKeepFile]_vars
=============================================================================
