---------------------------- MODULE RegistryProto ----------------------------
(***************************************************************************)
(* The RegistryProto snapshot of src/sdk/python/feast/registry.py and the *)
(* pure operations the Registry methods perform on it: the linear scans   *)
(* by (name, project), the deletes, the feature-view name map and the     *)
(* to_proto() of an applied object.  Registry (one step per method) and   *)
(* RegistryThreads (one step per statement group) both extend it.         *)
(***************************************************************************)
EXTENDS Naturals, Sequences, SequencesExt

CONSTANTS
    Names,          \* spec.name of catalog objects
    Projects,       \* spec.project
    Specs,          \* the rest of an object's spec, abstracted to a value
    Intervals,      \* (start_date, end_date) pairs passed to apply_materialization
    MaxIntervals,   \* bound on a feature view's materialization_intervals
    None,           \* Python None
    Absent          \* a lookup that finds no object

ASSUME MaxIntervals \in Nat

FVKinds == {"feature_views", "on_demand_feature_views", "request_feature_views"}
Collections == FVKinds \cup {"entities", "feature_services"}
Keys == Collections \X Names \X Projects

Obj == [name: Names, project: Projects, spec: Specs,
        intervals: BoundedSeq(Intervals, MaxIntervals)]

\* RegistryProto() with registry_schema_version set: empty collections, empty infra
EmptyProto == [c \in Collections |-> <<>>] @@ ("infra" :> None)

Matches(o, n, p) == o.name = n /\ o.project = p

\* Linear scan "for proto in registry.<coll>: if name and project match"
Lookup(reg, k) ==
    LET i == SelectInSeq(reg[k[1]], LAMBDA o: Matches(o, k[2], k[3]))
    IN IF i = 0 THEN Absent ELSE reg[k[1]][i]

Found(reg, col, n, p) == Lookup(reg, <<col, n, p>>) # Absent

\* Mutant: the old entry is never deleted before the append
DelFirst_NoDelete(seq, n, p) == seq

\* "del registry.<coll>[idx]; break" for the first match
DelFirst(seq, n, p) == RemoveFirstMatch(seq, LAMBDA o: Matches(o, n, p))

\* apply_feature_service deletes while enumerating and has no break: after
\* "del coll[idx]" the iterator moves on to idx+1 of the shortened list.
RECURSIVE DelEnumerating(_, _, _, _)
DelEnumerating(seq, i, n, p) ==
    IF i > Len(seq) THEN seq
    ELSE IF Matches(seq[i], n, p)
         THEN DelEnumerating(RemoveAt(seq, i), i + 1, n, p)
         ELSE DelEnumerating(seq, i + 1, n, p)

\* Mutant: to_proto() without "proto.spec.project = project"
Stamp_NoProject(n, p, s) ==
    [name |-> n, project |-> None, spec |-> s, intervals |-> <<>>]

\* to_proto() of the object passed to apply_*, then "spec.project = project";
\* a definition from the user's repo carries no materialization intervals.
Stamp(n, p, s) == [name |-> n, project |-> p, spec |-> s, intervals |-> <<>>]

\* Mutant: the merge forgets the on-demand feature views
NameOwner_NoOnDemand(reg, n) ==
    LET has(col) == \E i \in 1..Len(reg[col]) : reg[col][i].name = n
    IN IF has("request_feature_views") THEN "request_feature_views"
       ELSE IF has("feature_views") THEN "feature_views"
       ELSE None

\* _existing_feature_view_names_to_fvs merges {**odfvs, **fvs, **request_fvs}
\* keyed by name only (every project): the collection whose entry a name
\* maps to, the later dictionaries overriding the earlier ones.
NameOwner(reg, n) ==
    LET has(col) == \E i \in 1..Len(reg[col]) : reg[col][i].name = n
    IN IF has("request_feature_views") THEN "request_feature_views"
       ELSE IF has("feature_views") THEN "feature_views"
       ELSE IF has("on_demand_feature_views") THEN "on_demand_feature_views"
       ELSE None

\* _check_conflicting_feature_view_names: the name is taken by another type
ConflictingName(reg, col, n) == NameOwner(reg, n) \notin {None, col}

-----------------------------------------------------------------------------
(* Reads over one snapshot (after _get_registry_proto has returned it)    *)

\* The loop of a list_* method: the entries of the project, in order
ListIn(reg, col, p) == SelectSeq(reg[col], LAMBDA o : o.project = p)

ListEntities(reg, p) == ListIn(reg, "entities", p)
ListFeatureServices(reg, p) == ListIn(reg, "feature_services", p)
ListOnDemandFeatureViews(reg, p) == ListIn(reg, "on_demand_feature_views", p)
ListFeatureViews(reg, p) == ListIn(reg, "feature_views", p)
ListRequestFeatureViews(reg, p) == ListIn(reg, "request_feature_views", p)

\* The get_* methods: the first (name, project) match, Absent for the
\* kind-specific NotFoundException.  There is no get for request feature
\* views.
GetFeatureService(reg, n, p) == Lookup(reg, <<"feature_services", n, p>>)
GetEntity(reg, n, p) == Lookup(reg, <<"entities", n, p>>)
GetOnDemandFeatureView(reg, n, p) == Lookup(reg, <<"on_demand_feature_views", n, p>>)
GetFeatureView(reg, n, p) == Lookup(reg, <<"feature_views", n, p>>)

-----------------------------------------------------------------------------
(* Shape of a proto the Registry keeps correct; used by the invariants.   *)

\* No collection holds two entries with one (name, project).
UniqueIn(reg) ==
    \A col \in Collections : \A i, j \in 1..Len(reg[col]) :
        i # j => ~Matches(reg[col][i], reg[col][j].name, reg[col][j].project)

\* No feature-view name is held by two of the feature-view collections.
NamesDisjointIn(reg) ==
    \A n \in Names : \A c1, c2 \in FVKinds :
        (/\ \E i \in 1..Len(reg[c1]) : reg[c1][i].name = n
         /\ \E j \in 1..Len(reg[c2]) : reg[c2][j].name = n) => c1 = c2

=============================================================================
