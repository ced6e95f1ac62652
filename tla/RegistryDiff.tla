----------------------------- MODULE RegistryDiff -----------------------------
(***************************************************************************)
(* The pure functions of registry.py that read whole snapshots:           *)
(* Registry.diff_between (the change set between a current and a new      *)
(* RegistryProto) and Registry.to_dict (the per-kind, name-sorted view of *)
(* one project).  tag_proto_objects_for_keep_delete_add, FcoDiff's        *)
(* diff_between and RegistryDiff.add_fco_diff live outside src/ and are   *)
(* modelled from spec section 4.5.  Both snapshots are inputs picked in   *)
(* Init among the protos the Registry can hold (no (name, project) twice  *)
(* in a collection); no step changes them.                                *)
(***************************************************************************)
EXTENDS RegistryProto, TLC

CONSTANTS
    DiffKinds,  \* the collections the inputs may populate
    NameOrder   \* the names in Python string order

ASSUME DiffKinds \subseteq Collections /\ ToSet(NameOrder) = Names

VARIABLES cur, new

dvars == <<cur, new>>

\* diff_between walks the object types in this order; feature_tables is
\* always empty in a proto this Registry writes, so it adds no record.
ObjectTypes == <<"entities", "feature_views", "on_demand_feature_views",
                 "request_feature_views", "feature_services">>

\* attribute_to_object_type_str
TypeStr == [entities |-> "entity", feature_views |-> "feature view",
            on_demand_feature_views |-> "on demand feature view",
            request_feature_views |-> "request feature view",
            feature_services |-> "feature service"]

Transitions == {"CREATE", "DELETE", "UPDATE", "UNCHANGED"}

NamesOf(seq) == {seq[i].name : i \in 1..Len(seq)}

\* tag_proto_objects_for_keep_delete_add (spec 4.5 step 1), in input order
TagKeep(cs, ns) == SelectSeq(ns, LAMBDA e : e.name \in NamesOf(cs))
TagDelete(cs, ns) == SelectSeq(cs, LAMBDA e : e.name \notin NamesOf(ns))
TagAdd(cs, ns) == SelectSeq(ns, LAMBDA e : e.name \notin NamesOf(cs))

\* FcoDiff(name, object_type, current, new, property_diffs, transition)
FcoDiff(n, t, c, w, tr) ==
    [name |-> n, type |-> t, current |-> c, new |-> w, transition |-> tr]

\* diff_between of feast.diff (spec 4.5 step 2): compares the objects' specs
FcoDiffBetween(c, w, t) ==
    FcoDiff(w.name, t, c, w, IF c.spec = w.spec THEN "UNCHANGED" ELSE "UPDATE")

\* Mutant: current_obj_proto is the new object itself
DiffOfType_KeepVsSelf(cr, nr, col) ==
    LET cs == cr[col]  ns == nr[col]  t == TypeStr[col]
        add == TagAdd(cs, ns)  del == TagDelete(cs, ns)  keep == TagKeep(cs, ns)
    IN [i \in 1..Len(add) |-> FcoDiff(add[i].name, t, None, add[i], "CREATE")]
       \o [i \in 1..Len(del) |-> FcoDiff(del[i].name, t, del[i], None, "DELETE")]
       \o [i \in 1..Len(keep) |-> FcoDiffBetween(keep[i], keep[i], t)]

\* One object type of diff_between: a CREATE per object to add, a DELETE
\* per object to delete, then per kept object the diff against the first
\* current object of that name ("[_e for _e in ... if _e.spec.name ==
\* e.spec.name][0]"), matching by name only.
DiffOfType(cr, nr, col) ==
    LET cs == cr[col]  ns == nr[col]  t == TypeStr[col]
        add == TagAdd(cs, ns)  del == TagDelete(cs, ns)  keep == TagKeep(cs, ns)
        first(e) == cs[SelectInSeq(cs, LAMBDA x : x.name = e.name)]
    IN [i \in 1..Len(add) |-> FcoDiff(add[i].name, t, None, add[i], "CREATE")]
       \o [i \in 1..Len(del) |-> FcoDiff(del[i].name, t, del[i], None, "DELETE")]
       \o [i \in 1..Len(keep) |-> FcoDiffBetween(first(keep[i]), keep[i], t)]

\* Registry.diff_between: the records of every object type, in type order
\* (add_fco_diff appends)
DiffBetween(cr, nr) ==
    FlattenSeq([i \in 1..Len(ObjectTypes) |-> DiffOfType(cr, nr, ObjectTypes[i])])

-----------------------------------------------------------------------------
(* Projection                                                              *)

Rank(n) == CHOOSE i \in 1..Len(NameOrder) : NameOrder[i] = n

\* Mutant: the lists are rendered without sorted(..., key=name)
ToDict_Unsorted(reg, p) ==
    [entities |-> ListEntities(reg, p),
     feature_views |-> ListFeatureViews(reg, p),
     feature_services |-> ListFeatureServices(reg, p),
     on_demand_feature_views |-> ListOnDemandFeatureViews(reg, p),
     request_feature_views |-> ListRequestFeatureViews(reg, p)]

\* to_dict(project): each list_* of the project, sorted by name (the
\* MessageToDict rendering of each object is left out)
ToDict(reg, p) ==
    LET byName(s) == SortSeq(s, LAMBDA a, b : Rank(a.name) < Rank(b.name))
    IN [entities |-> byName(ListEntities(reg, p)),
        feature_views |-> byName(ListFeatureViews(reg, p)),
        feature_services |-> byName(ListFeatureServices(reg, p)),
        on_demand_feature_views |-> byName(ListOnDemandFeatureViews(reg, p)),
        request_feature_views |-> byName(ListRequestFeatureViews(reg, p))]

-----------------------------------------------------------------------------

\* The collections of a proto the Registry can hold: no (name, project) twice
Coll == {s \in BoundedSeq([name: Names, project: Projects, spec: Specs,
                           intervals: {<<>>}],
                          Cardinality(Names) * Cardinality(Projects)) :
            \A i, j \in 1..Len(s) : i # j => ~Matches(s[i], s[j].name, s[j].project)}

Protos == {[c \in Collections |-> IF c \in DiffKinds THEN f[c] ELSE <<>>]
              @@ ("infra" :> None) : f \in [DiffKinds -> Coll]}

Init == cur \in Protos /\ new \in Protos

Next == UNCHANGED dvars

Spec == Init /\ [][Next]_dvars

\* The proto with every collection in reverse order
Reversed(reg) == [c \in Collections |-> Reverse(reg[c])] @@ ("infra" :> None)

\* The spec of the entry of a collection with the given name
SpecNamed(seq, n) == seq[SelectInSeq(seq, LAMBDA o : o.name = n)].spec

\* The set-based reference of spec 4.5: per kind, CREATE for a name only in
\* the new proto, DELETE for a name only in the current one, UPDATE for a
\* name in both whose spec changed.
RefChanges(cr, nr) ==
    UNION {LET cn == NamesOf(cr[col])  nn == NamesOf(nr[col])
               rec(n, tr) == [name |-> n, type |-> TypeStr[col], transition |-> tr]
           IN {rec(n, "CREATE") : n \in nn \ cn}
              \cup {rec(n, "DELETE") : n \in cn \ nn}
              \cup {rec(n, "UPDATE") :
                      n \in {m \in cn \cap nn :
                               SpecNamed(cr[col], m) # SpecNamed(nr[col], m)}}
           : col \in DiffKinds}

\* The changes a change set reports, without the objects and order
Changes(d) ==
    {[name |-> d[i].name, type |-> d[i].type, transition |-> d[i].transition] :
        i \in {j \in 1..Len(d) : d[j].transition # "UNCHANGED"}}

-----------------------------------------------------------------------------

\* diff_between reports exactly the changes of spec 4.5 -- a CREATE, DELETE
\* or UPDATE per object that was added, removed or changed, and nothing for
\* an unchanged one -- and exactly one record per object of either proto.
DiffMatchesReference ==
    LET d == DiffBetween(cur, new)
    IN /\ Changes(d) = RefChanges(cur, new)
       /\ Len(d) = Cardinality({<<d[i].type, d[i].name>> : i \in 1..Len(d)})

\* Spec section 8: diff(S, S) is empty -- every record diff_between makes
\* for a snapshot against itself is UNCHANGED.  The kept object is compared
\* with the first current object of the same name, whatever its project.
DiffSelfUnchanged == Changes(DiffBetween(cur, cur)) = {}

\* Spec 4.6: to_dict renders each kind of one project sorted by name, so two
\* registries holding the same objects in any order render equally, and
\* the rendering holds exactly the project's objects.
ToDictCanonical ==
    \A p \in Projects :
        /\ ToDict(cur, p) = ToDict(Reversed(cur), p)
        /\ \A col \in DOMAIN ToDict(cur, p) :
               ToSet(ToDict(cur, p)[col]) = ToSet(ListIn(cur, col, p))

=============================================================================
