--------------------------- MODULE RegistryCatalog ---------------------------
(***************************************************************************)
(* What the registry promises its callers (spec sections 3, 4.1, 4.3 and  *)
(* 4.4), with the collections' order and the cache abstracted away: the   *)
(* persisted catalog maps every (collection, name, project) to at most one *)
(* object, and each call changes it by one operation on one key, or sets  *)
(* the infra, or erases or creates the registry as a whole.               *)
(***************************************************************************)
EXTENDS RegistryProto

CONSTANT Infras     \* Infra objects passed to update_infra

VARIABLES
    catalog,    \* catalog[<<coll, name, project>>]: the persisted object, or Absent
    infra,      \* the persisted infra, or None
    present     \* the backend holds a registry snapshot

avars == <<catalog, infra, present>>

NoObjects == [k \in Keys |-> Absent]

Init ==
    /\ catalog = NoObjects
    /\ infra = None
    /\ present = FALSE

\* Explicit initialization persists an empty snapshot where there was none
Create ==
    /\ ~present
    /\ present' = TRUE
    /\ UNCHANGED <<catalog, infra>>

\* apply(object, project): the object, stamped with its project and with no
\* materialization intervals, replaces whatever the key held; a feature-view
\* variant is refused when another variant holds the name in that project.
Put(k, s) ==
    /\ k[1] \in FVKinds =>
           \A other \in FVKinds \ {k[1]} : catalog[<<other, k[2], k[3]>>] = Absent
    /\ catalog' = [catalog EXCEPT ![k] = Stamp(k[2], k[3], s)]
    /\ present' = TRUE
    /\ UNCHANGED infra

\* delete(name, project) of an object that exists
Unset(k) ==
    /\ catalog[k] # Absent
    /\ catalog' = [catalog EXCEPT ![k] = Absent]
    /\ UNCHANGED <<infra, present>>

\* applyMaterialization: one interval more, in call order
Materialize(k, iv) ==
    /\ k[1] = "feature_views"
    /\ catalog[k] # Absent
    /\ Len(catalog[k].intervals) < MaxIntervals
    /\ catalog' = [catalog EXCEPT ![k].intervals = Append(@, iv)]
    /\ UNCHANGED <<infra, present>>

SetInfra(i) ==
    /\ infra' = i
    /\ present' = TRUE
    /\ UNCHANGED catalog

\* erase(): the backend holds no snapshot, so no object either
Erase ==
    /\ present
    /\ present' = FALSE
    /\ catalog' = NoObjects
    /\ infra' = None

Next ==
    \/ Create
    \/ Erase
    \/ \E k \in Keys : \/ Unset(k)
                       \/ \E s \in Specs : Put(k, s)
                       \/ \E iv \in Intervals : Materialize(k, iv)
    \/ \E i \in Infras : SetInfra(i)

Spec == Init /\ [][Next]_avars

=============================================================================
