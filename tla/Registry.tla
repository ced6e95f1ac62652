------------------------------ MODULE Registry ------------------------------
(***************************************************************************)
(* The feast Registry (src/sdk/python/feast/registry.py): a catalog held  *)
(* as one RegistryProto snapshot in a RegistryStore, read and written     *)
(* through a per-instance cache (cached_registry_proto, its creation time *)
(* and a TTL).  Several Registry instances (Clients, e.g. processes that  *)
(* run `feast apply` or `feast materialize`) share one store.  Each       *)
(* public method of one instance is one atomic step: its refresh         *)
(* (_prepare_registry_for_changes / _get_registry_proto), its scan and    *)
(* mutation of the cached proto, and its optional commit().  clone()     *)
(* makes a new instance (one of Clones) bound to a no-op backend.         *)
(***************************************************************************)
EXTENDS RegistryProto, TLC

CONSTANTS
    Clients,        \* Registry instances sharing one store
    Clones,         \* instances clone() may create
    Infras,         \* Infra objects passed to update_infra
    TTL,            \* cache_ttl_seconds (0 = never expires)
    MaxTime,        \* bound on the clock read by datetime.now()
    CommitFlags,    \* the values callers pass as commit=
    NoFile          \* the store holds no registry file

ASSUME TTL \in Int /\ MaxTime \in Nat
ASSUME CommitFlags \subseteq BOOLEAN /\ CommitFlags # {}
ASSUME Clients \cap Clones = {}

VARIABLES
    store,      \* the RegistryStore's registry proto, or NoFile
    cache,      \* cache[c]: cached_registry_proto of instance c, or None
    created,    \* created[c]: cached_registry_proto_created, or None
    now,        \* datetime.now(), in seconds
    unsaved,    \* ghost: unsaved[c][<<coll, name, project>>] is what c last
                \* wrote there without committing it
    last,       \* ghost: the apply_* call the last step returned from or
                \* raised in, or None
    backend     \* backend[c]: c's _registry_store: "store" (the shared one),
                \* "noop" (NoopRegistryStore), "unbound" (not cloned yet)

vars == <<store, cache, created, now, unsaved, last, backend>>

Instances == Clients \cup Clones

-----------------------------------------------------------------------------
(* Cache & refresh controller                                              *)

\* cached_registry_proto_ttl: cache_ttl_seconds, and 0 for a clone
TTLOf(c) == IF backend[c] = "noop" THEN 0 ELSE TTL

\* _registry_store.get_registry_proto(): the shared store's proto, NoFile
\* for FileNotFoundError; the no-op backend returns nothing (None).
Loaded(c) == IF backend[c] = "noop" THEN None ELSE store

\* Mutant: a ttl of 0 is read as "expire at once" instead of infinity
Expired_ZeroTTLExpires(c) ==
    \/ cache[c] = None
    \/ created[c] = None
    \/ TTLOf(c) >= 0 /\ now > created[c] + TTLOf(c)

\* _get_registry_proto: "expired" (0 ttl means infinity)
Expired(c) ==
    \/ cache[c] = None
    \/ created[c] = None
    \/ TTLOf(c) > 0 /\ now > created[c] + TTLOf(c)

\* The cached proto after _prepare_registry_for_changes: the cache if it has
\* not expired, else a reload; FileNotFoundError yields a fresh empty proto.
\* None (a no-op reload) fails the methods' assert self.cached_registry_proto.
PrepCache(c) ==
    IF ~Expired(c) THEN cache[c]
    ELSE IF Loaded(c) = NoFile THEN EmptyProto ELSE Loaded(c)

PrepCreated(c) == IF ~Expired(c) THEN created[c] ELSE now

\* The store after c's _registry_store.update_registry_proto(reg): the
\* no-op backend drops it.
Persist(c, reg) == IF backend[c] = "store" THEN reg ELSE store

\* The end of a mutating method of c whose cached proto ends as reg after
\* writing the keys in the domain of writes: "if commit: self.commit()".
Finish(c, reg, writes, commit, out) ==
    /\ last' = out
    /\ cache' = [cache EXCEPT ![c] = reg]
    /\ created' = [created EXCEPT ![c] = PrepCreated(c)]
    /\ store' = IF commit THEN Persist(c, reg) ELSE store
    /\ unsaved' = [unsaved EXCEPT ![c] = IF commit THEN <<>> ELSE writes @@ @]

\* A method of c that raises after _prepare_registry_for_changes: the
\* refresh has happened, nothing is written and commit() is not reached.
Raise(c, out) == Finish(c, PrepCache(c), <<>>, FALSE, out)

\* The record of an apply_* call kept in the ghost variable last
Call(op, c, col, n, p, s, commit) ==
    [op |-> op, client |-> c, col |-> col, name |-> n, project |-> p,
     spec |-> s, commit |-> commit]

Tick ==
    /\ now < MaxTime
    /\ now' = now + 1
    /\ last' = None
    /\ UNCHANGED <<store, cache, created, unsaved>>

\* _get_registry_proto(allow_cache); it stands for every read method
\* (get_*, list_*, get_infra, refresh, the reads of to_dict), which change
\* no state other than through it.  A reload with allow_cache=False is an
\* explicit refresh and drops c's unsaved writes.
GetRegistryProto(c, allowCache) ==
    /\ ~(allowCache /\ ~Expired(c))
    /\ Loaded(c) # NoFile
    /\ cache' = [cache EXCEPT ![c] = Loaded(c)]
    /\ created' = [created EXCEPT ![c] = now]
    /\ unsaved' = IF allowCache THEN unsaved ELSE [unsaved EXCEPT ![c] = <<>>]
    /\ last' = None
    /\ UNCHANGED <<store, now>>

\* _get_registry_proto finding the cache valid, or the store raising
\* FileNotFoundError: no state changes.
GetRegistryProtoNoLoad(c, allowCache) ==
    /\ (allowCache /\ ~Expired(c)) \/ Loaded(c) = NoFile
    /\ last' = None
    /\ UNCHANGED <<store, cache, created, now, unsaved>>

\* _initialize_registry: refresh; on FileNotFoundError write an empty proto
\* straight to the store (the cache is left as it was).
InitializeRegistry(c) ==
    \/ /\ Loaded(c) # NoFile
       /\ GetRegistryProto(c, FALSE)
    \/ /\ Loaded(c) = NoFile
       /\ store' = EmptyProto
       /\ last' = None
       /\ UNCHANGED <<cache, created, now, unsaved>>

\* commit(): "if self.cached_registry_proto: update_registry_proto(...)"
Commit(c) ==
    /\ cache[c] # None
    /\ store' = Persist(c, cache[c])
    /\ unsaved' = [unsaved EXCEPT ![c] = <<>>]
    /\ last' = None
    /\ UNCHANGED <<cache, created, now>>

\* teardown(): the store removes the registry file (the no-op one does not)
Teardown(c) ==
    /\ store' = IF backend[c] = "store" THEN NoFile ELSE store
    /\ last' = None
    /\ UNCHANGED <<cache, created, now, unsaved>>

\* clone(): a new Registry d with ttl 0, a deep copy of c's cached proto
\* (an empty proto when c has none), created now, bound to a no-op store
Clone(c, d) ==
    /\ backend[c] # "unbound" /\ backend[d] = "unbound"
    /\ backend' = [backend EXCEPT ![d] = "noop"]
    /\ cache' = [cache EXCEPT ![d] = IF cache[c] = None THEN EmptyProto ELSE cache[c]]
    /\ created' = [created EXCEPT ![d] = now]
    /\ last' = None
    /\ UNCHANGED <<store, now, unsaved>>

\* A mutating method whose refresh leaves no cached proto (a no-op reload
\* of a clone): "assert self.cached_registry_proto" raises AssertionError
\* (apply_feature_service, which has no assert, raises AttributeError at
\* the same point; either way nothing else changes).
AssertionFails(c) ==
    /\ PrepCache(c) = None
    /\ Raise(c, None)
    /\ UNCHANGED now

-----------------------------------------------------------------------------
(* CRUD engine: each method refreshes, scans, mutates, and maybe commits  *)

\* update_infra: infra.CopyFrom(...)
UpdateInfra(c, inf, commit) ==
    /\ Finish(c, [PrepCache(c) EXCEPT !.infra = inf], <<>>, commit, None)
    /\ UNCHANGED now

\* apply_entity: delete the first (name, project) match, append
ApplyEntity(c, n, p, s, commit) ==
    LET reg == PrepCache(c)
        e   == Stamp(n, p, s)
    IN /\ Finish(c, [reg EXCEPT !.entities = Append(DelFirst(@, n, p), e)],
                  <<"entities", n, p>> :> e, commit,
                  Call("apply", c, "entities", n, p, s, commit))
       /\ UNCHANGED now

\* apply_feature_service: delete every match while enumerating, append
ApplyFeatureService(c, n, p, s, commit) ==
    LET reg == PrepCache(c)
        fs  == Stamp(n, p, s)
    IN /\ Finish(c, [reg EXCEPT !.feature_services =
                         Append(DelEnumerating(@, 1, n, p), fs)],
                  <<"feature_services", n, p>> :> fs, commit,
                  Call("apply", c, "feature_services", n, p, s, commit))
       /\ UNCHANGED now

\* apply_feature_view raising ConflictingFeatureViewNames after the refresh
ApplyFeatureViewConflict(c, col, n, p, s, commit) ==
    /\ ConflictingName(PrepCache(c), col, n)
    /\ Raise(c, None)
    /\ UNCHANGED now

\* apply_feature_view: an existing equal view of the same type returns
\* early, before commit(); otherwise delete the old entry and append.
\* Equality (FeatureView.__eq__, outside src/) is taken to compare the spec.
ApplyFeatureView(c, col, n, p, s, commit) ==
    LET reg == PrepCache(c)
        fv  == Stamp(n, p, s)
        old == Lookup(reg, <<col, n, p>>)
    IN /\ ~ConflictingName(reg, col, n)
       /\ IF old # Absent /\ old.spec = s
          THEN Finish(c, reg, <<>>, FALSE, Call("apply", c, col, n, p, s, commit))
          ELSE Finish(c, [reg EXCEPT ![col] = Append(DelFirst(@, n, p), fv)],
                      <<col, n, p>> :> fv, commit,
                      Call("apply", c, col, n, p, s, commit))
       /\ UNCHANGED now

\* apply_materialization: append (start, end) to the first matching entry of
\* feature_views, move it to the end; FeatureViewNotFoundException otherwise.
ApplyMaterialization(c, n, p, iv, commit) ==
    LET reg == PrepCache(c)
        old == Lookup(reg, <<"feature_views", n, p>>)
        new == [old EXCEPT !.intervals = Append(@, iv)]
    IN /\ IF old = Absent
          THEN Raise(c, None)
          ELSE /\ Len(old.intervals) < MaxIntervals
               /\ Finish(c, [reg EXCEPT !.feature_views =
                                 Append(DelFirst(@, n, p), new)],
                         <<"feature_views", n, p>> :> new, commit, None)
       /\ UNCHANGED now

\* delete_entity / delete_feature_service: delete the first match, or raise
DeleteFromCollection(c, col, n, p, commit) ==
    LET reg == PrepCache(c)
    IN /\ IF Found(reg, col, n, p)
          THEN Finish(c, [reg EXCEPT ![col] = DelFirst(@, n, p)],
                      <<col, n, p>> :> Absent, commit, None)
          ELSE Raise(c, None)
       /\ UNCHANGED now

DeleteEntity(c, n, p, commit) == DeleteFromCollection(c, "entities", n, p, commit)

DeleteFeatureService(c, n, p, commit) ==
    DeleteFromCollection(c, "feature_services", n, p, commit)

\* delete_feature_view: feature_views first, then request_feature_views;
\* on_demand_feature_views are not searched.
DeleteFeatureView(c, n, p, commit) ==
    LET reg == PrepCache(c)
    IN IF Found(reg, "feature_views", n, p)
       THEN DeleteFromCollection(c, "feature_views", n, p, commit)
       ELSE DeleteFromCollection(c, "request_feature_views", n, p, commit)

-----------------------------------------------------------------------------

Init ==
    /\ store = NoFile
    /\ cache = [c \in Instances |-> None]
    /\ created = [c \in Instances |-> None]
    /\ now = 0
    /\ unsaved = [c \in Instances |-> <<>>]
    /\ last = None
    /\ backend = [c \in Instances |-> IF c \in Clients THEN "store" ELSE "unbound"]

Next ==
    \/ \E c \in Instances, d \in Clones : Clone(c, d)
    \/ /\ UNCHANGED backend
       /\ \/ Tick
          \/ \E c \in Instances :
              /\ backend[c] # "unbound"
              /\ \/ \E a \in BOOLEAN : GetRegistryProto(c, a) \/ GetRegistryProtoNoLoad(c, a)
                 \/ InitializeRegistry(c)
                 \/ Commit(c)
                 \/ Teardown(c)
                 \/ AssertionFails(c)
                 \/ \E cm \in CommitFlags :
                     /\ PrepCache(c) # None
                     /\ \/ \E inf \in Infras : UpdateInfra(c, inf, cm)
                        \/ \E n \in Names, p \in Projects :
                            \/ DeleteEntity(c, n, p, cm)
                            \/ DeleteFeatureService(c, n, p, cm)
                            \/ DeleteFeatureView(c, n, p, cm)
                            \/ \E iv \in Intervals : ApplyMaterialization(c, n, p, iv, cm)
                            \/ \E s \in Specs :
                                \/ ApplyEntity(c, n, p, s, cm)
                                \/ ApplyFeatureService(c, n, p, s, cm)
                                \/ \E col \in FVKinds :
                                    \/ ApplyFeatureView(c, col, n, p, s, cm)
                                    \/ ApplyFeatureViewConflict(c, col, n, p, s, cm)

Spec == Init /\ [][Next]_vars

-----------------------------------------------------------------------------
(* Properties                                                              *)

\* What a caller reads for every key with allow_cache=False: the get_* of
\* the key's kind, and for a request feature view (no get) the first entry
\* of that name in list_request_feature_views; NotFound (Absent) when the
\* store has no file.
ReadKey(reg, k) ==
    CASE k[1] = "entities"                -> GetEntity(reg, k[2], k[3])
      [] k[1] = "feature_views"           -> GetFeatureView(reg, k[2], k[3])
      [] k[1] = "on_demand_feature_views" -> GetOnDemandFeatureView(reg, k[2], k[3])
      [] k[1] = "feature_services"        -> GetFeatureService(reg, k[2], k[3])
      [] OTHER ->
           LET l == ListRequestFeatureViews(reg, k[3])
               i == SelectInSeq(l, LAMBDA o : o.name = k[2])
           IN IF i = 0 THEN Absent ELSE l[i]

StoreCatalog == [k \in Keys |-> IF store = NoFile THEN Absent ELSE ReadKey(store, k)]

StoreInfra == IF store = NoFile THEN None ELSE store.infra

Catalog == INSTANCE RegistryCatalog
               WITH catalog <- StoreCatalog, infra <- StoreInfra,
                    present <- (store # NoFile)

TypeOK ==
    /\ now \in 0..MaxTime
    /\ \A c \in Instances :
        /\ created[c] \in 0..MaxTime \cup {None}
        /\ DOMAIN unsaved[c] \subseteq Keys
        /\ \A k \in DOMAIN unsaved[c] : unsaved[c][k] \in Obj \cup {Absent}
    /\ \A reg \in ({store} \cup {cache[c] : c \in Instances}) \ {NoFile, None} :
        /\ reg.infra \in Infras \cup {None}
        /\ \A col \in Collections : reg[col] \in Seq(Obj)

\* Within every collection of the store and of every cache, at most one
\* entry has a given (name, project): the scans of apply_* delete the old
\* entry (first match, or every match while enumerating) before appending,
\* and a delete_* removes the first match only.
CollectionsUnique ==
    \A reg \in ({store} \cup {cache[c] : c \in Instances}) \ {NoFile, None} :
        UniqueIn(reg)

\* A feature-view name is used by at most one of the three feature-view
\* collections, in every project together: _check_conflicting_feature_view_names
\* runs on the refreshed cache before apply_feature_view appends, and the
\* store only ever receives whole cached protos.
FeatureViewNamesDisjoint ==
    \A reg \in ({store} \cup {cache[c] : c \in Instances}) \ {NoFile, None} :
        NamesDisjointIn(reg)

\* A write a Registry instance made with commit=False stays visible in its
\* cache until it commits or explicitly reloads (allow_cache=False): the
\* class comment says writes modify the cached proto and must then be
\* persisted with commit().  Broken if a later write's
\* _prepare_registry_for_changes reloads the cache because the TTL expired.
PendingWritesVisible ==
    \A c \in Instances : \A k \in DOMAIN unsaved[c] :
        Lookup(cache[c], k) = unsaved[c][k]

\* Spec section 8: apply(O) (commit=True) followed by get(O.name, O.project),
\* which reads the store (allow_cache=False), returns an object equal to O.
\* Broken when apply_feature_view finds an equal view in a cache that is
\* stale or holds an uncommitted write and returns before commit().
ApplyThenGet ==
    (last # None /\ last.op = "apply" /\ last.commit) =>
        /\ store # NoFile
        /\ Found(store, last.col, last.name, last.project)
        /\ Lookup(store, <<last.col, last.name, last.project>>).spec = last.spec

\* Spec section 2: clone() produces an isolated deep copy of the snapshot,
\* for speculative edits that never reach durable storage.  A clone holds
\* a snapshot from its creation on, so its apply_*/delete_* calls have a
\* proto to edit.  Broken when a read of the clone with the default
\* allow_cache=False reloads from the NoopRegistryStore, which returns
\* nothing: the copy is gone and every later write fails its assert.
CloneHoldsSnapshot ==
    \A d \in Clones : backend[d] = "noop" => cache[d] # None

\* The registry implements the catalog of RegistryCatalog: every change a
\* call makes to the store is one catalog operation -- apply (delete the old
\* entry, append), delete, apply_materialization, update_infra, the explicit
\* initialization or teardown.  Broken when a commit() writes a cached
\* snapshot that differs from the store in more than the call's own change.
CatalogRefinement == Catalog!Spec

=============================================================================
