# TLA+ models of the feast registry

This directory holds TLA+ models of the feast feature-store registry,
`src/sdk/python/feast/registry.py`, and the TLC configurations that check them.
`PROJECT.json` lists the components, the runs, the mutants that show each
property can fail, the map from each TLA+ definition to the source lines it
models, the findings, and the hazards.

## 1. Inventory

### Components

| Component | Source | State | Operations |
|---|---|---|---|
| Backend registry store | `RegistryStore` classes, outside `src/`; chosen by `get_registry_store_class_from_scheme/type` (registry.py:71-92) | one serialized `RegistryProto`, or no file | `get_registry_proto` (raises `FileNotFoundError`), `update_registry_proto` (replaces the whole proto), `teardown` |
| Cache & refresh controller | `Registry._get_registry_proto`, `_prepare_registry_for_changes`, `commit`, `refresh`, `_initialize_registry` (registry.py:217-224, 698-705, 754-797) | per `Registry` instance: `cached_registry_proto`, `cached_registry_proto_created`, `cached_registry_proto_ttl`, `_refresh_lock` | reload the proto when `allow_cache` is false or the cache has expired (a TTL of 0 never expires); on a missing file, writes start from an empty proto |
| CRUD engine | `apply_*`, `get_*`, `list_*`, `delete_*`, `update_infra`, `get_infra` (registry.py:226-697) | the six collections of the cached proto: `entities`, `feature_views`, `on_demand_feature_views`, `request_feature_views`, `feature_services`, `infra` | refresh; linear scan by (name, project); delete the old entry then append; optional `commit()` |
| Materialization tracker | `apply_materialization` (registry.py:499-541) | `materialization_intervals` of a feature view | append one interval, move the entry to the end, commit |
| Diff engine | `Registry.diff_between` (registry.py:149-215) | none (pure) | CREATE/DELETE/UPDATE records per object type |
| Projection | `Registry.to_dict` (registry.py:711-752) | none, but it performs five separate `list_*` reads | per-type lists for one project, sorted by name |
| Clone | `Registry.clone` (registry.py:136-146) | a deep copy of the cache, backed by `NoopRegistryStore` | speculative edits that never reach the store |
| Online response | `online_response.py` | none | proto → dict/DataFrame conversion, entity-row type inference |

### How the components interact

Every mutating method of the CRUD engine calls `_prepare_registry_for_changes`.
That method calls `_get_registry_proto(allow_cache=True)` under `_refresh_lock`.
The method then scans and mutates `cached_registry_proto` in place, outside the
lock, and calls `commit()` if `commit=True`. `commit()` writes the whole cached
proto to the store. Reads call `_get_registry_proto` with the caller's
`allow_cache`, which defaults to False, so by default every read reloads the
store. Several `Registry` instances share one store, for example two processes
running `feast apply` and `feast materialize`. Each instance has its own cache.
The store only ever holds whole protos, so the last commit wins.

### What is hard

- **Stale state.** A cache is used until its TTL runs out. The idempotence
  check of `apply_feature_view` reads that cache and may return before
  `commit()`.
- **Hidden reloads.** A write made with `commit=False` lives only in the cache.
  Any reload drops it: a later write after the TTL has run out, or a default
  read.
- **Interleaving.** Two processes commit whole protos. The later commit
  wins, which spec section 1 states as the design. Two
  threads on one instance share the cache. Only the reload is under the lock;
  the scan and the append are not.
- **Clones.** A clone is bound to a no-op store, and its reads still
  default to a reload.
- **Ordering.** `apply_feature_service` deletes inside `enumerate` without a
  `break`. Apply and materialization move the entry to the end of its
  collection.

### What makes each component correct

- Cache: a valid cache is returned unchanged. A TTL of 0 never expires. Writes
  made with `commit=False` stay in the cache until they are committed.
- CRUD: within a collection, (name, project) is unique. A feature-view name
  lives in at most one of the three feature-view collections.
  `apply(commit=True)` followed by `get` returns the object. A failed call
  mutates nothing.
- Materialization: intervals accumulate in call order.
- Diff: `diff(S, S)` is empty. The result does not depend on collection order.
- Projection: it is idempotent and sorted.

## 2. Plan and status

1. **`RegistryProto`** (built). The snapshot and the pure operations of the
   methods on it: scans, deletes, the feature-view name map, `to_proto`, and
   the `list_*`/`get_*` reads. Both state models extend it.
2. **`Registry`** (built). One or more `Registry` instances share a store.
   Each public method of an instance is one atomic step. It covers the cache
   controller, the CRUD engine and the materialization tracker.
   `MC_Registry` instantiates it.
3. **`RegistryThreads`** (built). Several threads on one instance, each
   method split at its reads and writes of shared state.
4. **`RegistryCatalog`** (built). The abstract catalog. `Registry` refines it
   through `INSTANCE RegistryCatalog WITH`.
5. **`RegistryDiff`** (built). `diff_between` and `to_dict` as operators,
   checked against set-based references.
6. **`OnlineResponse`** (built). `OnlineResponse.__init__`/`to_dict` and
   `_infer_online_entity_rows` as operators, checked against references
   over every small response and entity-row list.
7. `clone` (built, in `Registry`): a clone is an instance bound to the
   no-op backend.
8. Not built: `to_dict` as five separate reloads racing a commit (see
   section 10).

## 3. The `Registry` module

State:

| Variable | Code |
|---|---|
| `store` | the RegistryStore's proto, or `NoFile` |
| `cache[c]` | `cached_registry_proto` of instance `c`, or `None` |
| `created[c]` | `cached_registry_proto_created` |
| `now` | `datetime.now()` in whole seconds, advanced by `Tick` |
| `unsaved[c]` | ghost: what `c` last wrote under each (collection, name, project) without committing |
| `last` | ghost: the `apply_*` call the last step returned from, or raised `ConflictingFeatureViewNames` in |
| `backend[c]` | `c`'s `_registry_store`: `"store"` (the shared one), `"noop"` (`NoopRegistryStore`), `"unbound"` (a clone not created yet) |

Instances are `Clients` (constructed with the shared store) and `Clones`
(created by `clone()`).

**Protos.** A proto is a record of five sequences of objects plus `infra`.
An object is `[name, project, spec, intervals]`. `spec` abstracts every other
field of the object's spec to a model value. Sequences keep the collection
order, because the code deletes by index and appends. The round trips
`from_proto`/`to_proto` keep every modelled field.

**Actions.** Actions correspond one to one to methods:
- `GetRegistryProto` and `GetRegistryProtoNoLoad` stand for every read:
  `get_*`, `list_*`, `get_infra` and `refresh`.
- `InitializeRegistry`, `Commit`, `Teardown`, `UpdateInfra`, `ApplyEntity`,
  `ApplyFeatureService`, `ApplyFeatureView`, `ApplyFeatureViewConflict`,
  `ApplyMaterialization`, `DeleteEntity`, `DeleteFeatureService` and
  `DeleteFeatureView` each model the method of the same name.
  `ApplyFeatureView` includes the early return.
- `PrepCache` and `PrepCreated` model `_prepare_registry_for_changes`.
- `Finish` is the trailing `if commit: self.commit()`.
- `Raise` is an exception raised after the refresh: the refresh stays, and
  nothing else happens.
- `Clone(c, d)` is `c.clone()` creating `d` (registry.py:136-146). `d` gets
  ttl 0, the no-op backend, `created = now`, and `c`'s cache, or an empty
  proto when `c`'s cache is `None`. Every action above applies to clones as
  well. `TTLOf`, `Loaded` and `Persist` give each instance's ttl, its
  store's load and the store after its `update_registry_proto`.
- `AssertionFails` is `assert self.cached_registry_proto` failing after
  `_prepare_registry_for_changes` when the reload returned `None`. Only a
  clone's reload can do that.

**Refinement.** `Catalog == INSTANCE RegistryCatalog WITH catalog <-
StoreCatalog, ...` maps the store to the abstract catalog. `StoreCatalog` is
what the `get_*` of each key's kind returns with `allow_cache=False`, or
`Absent`. Request feature views have no `get_*`, so for them it is the first
entry of `list_request_feature_views` with that name. `CatalogRefinement` is
the abstract `Spec`, checked as a `PROPERTY`. `RegistryCatalog` allows these
operations:
- `Put`: apply, refused for a feature view whose name another variant holds in
  the same project;
- `Unset`: delete an existing object;
- `Materialize`: add one interval;
- `SetInfra`;
- `Create`: explicit initialization;
- `Erase`: teardown.

**Abstractions and assumptions.**
- `FeatureView.__eq__` lives outside `src/`. It is taken to compare the spec.
- Objects passed to `apply_*` carry no materialization intervals. These are
  definitions from the user's repository.
- `_existing_feature_view_names_to_fvs` (lines 807-817) returns
  `{**odfvs, **fvs, **request_fvs}`: a map keyed by name alone, across every
  project, as spec 4.3 states the conflict rule.
- Validation errors (`is_valid`, `ensure_valid`) happen before any state is
  touched, so they are not modelled.
- `NoopRegistryStore` (module `feast.registry_store`) is not in the
  repository. Following spec section 2 ("a no-op backend, for speculative
  edits that must never reach durable storage"), its `get_registry_proto`
  is taken to return `None`, and its `update_registry_proto` and `teardown`
  to do nothing. With that, a clone's first default read
  (`allow_cache=False`) sets its cache to `None`, and its later writes fail
  the assert (finding 3).

## 4. The `RegistryThreads` module

Only `_get_registry_proto` holds `_refresh_lock`. Each method is therefore
split into the steps where it touches shared state:

| pc | Code |
|---|---|
| `acquire`, `load` | `with self._refresh_lock:`, then the body of `_get_registry_proto`; the lock is released on every path |
| `empty` | the `FileNotFoundError` handler of `_prepare_registry_for_changes`, outside the lock |
| `check` | `_check_conflicting_feature_view_names` |
| `scan` | the loop that finds and deletes the old entry: `ScanEntity`, `ScanFeatureService`, `ScanFeatureView`, `DeleteEntityScan` |
| `append` | `AppendStep` |
| `commit` | `commit()` |

**Other state.**
- `lock` is the thread that holds `_refresh_lock`.
- `call[t]` is the method a thread runs and its arguments.
- `calls[t]` counts calls, bounded by `MaxCalls`.

**Local references.** `apply_feature_service` keeps the proto it prepared in
the local `registry`. `apply_feature_view` binds
`existing_feature_views_of_same_type` before its loop. When another thread
replaces `cached_registry_proto`, these references point to a detached
object. `detached[t]` keeps that object's value. The scan and append then
mutate it, and `commit()` writes the new cache. `apply_entity` re-reads
`self.cached_registry_proto` at every use.

**Writes modelled.** `apply_entity`, `apply_feature_service`,
`apply_feature_view` (all three feature-view types) and `delete_entity`:
the writes whose scan, append or local reference another thread can split.
`apply_materialization`, `delete_feature_view`, `delete_feature_service`
and `update_infra` are not split into steps. Their shape is the same as
`delete_entity`'s or a plain field replacement, and the atomic `Registry`
model covers them.

**Bounds.** The TTL is 0, so a cached read reloads only an empty cache. Every
call passes `commit=True`. `Terminated` lets a run whose threads have made
all their calls stutter, so deadlock checking stays on.

## 5. The `RegistryDiff` module

**State.** The two input protos are variables picked in `Init`. No step
changes them. The inputs range over every proto the Registry can hold: each
collection has at most one entry per (name, project).

**Diff.**
- `DiffOfType` and `DiffBetween` translate `diff_between`. For each object
  type they emit a CREATE per added object and a DELETE per deleted object.
  Each kept object is diffed against the first current object with the same
  name.
- The helpers from outside `src/` are modelled from spec 4.5, in input order:
  `tag_proto_objects_for_keep_delete_add`, `FcoDiff` and its
  `diff_between`. A transition is UPDATE when the spec changed, else
  UNCHANGED.
- `feature_tables` is always empty in the protos this Registry writes, so it
  is left out.
- `RefChanges` is the set-based reference of spec 4.5.

**Projection.** `ToDict` is `to_dict`: the five `list_*` of one project,
each sorted by name. `NameOrder` gives Python's string order of the names.
The `MessageToDict` rendering is left out.

## 6. The `OnlineResponse` module

**State.** The variables `resp` and `rows` are a response and a list of
entity rows picked in `Init`; no step changes them.

**Response.** A response is the set of requested feature names (its status
keys) and a sequence of records. Each record maps every requested feature
to a `Value`: its oneof case, or `"none"` when unset, and a payload.
- `Strip` is the constructor: it deletes `DUMMY_ENTITY_ID` from every
  record.
- `Field` is the protobuf map read `row[feature]`. A missing key yields an
  unset `Value`, never `KeyError`.
- `ValType` is the first loop of `to_dict`: the case of the first record
  that sets the feature.
- `Render` is `getattr(row[feature], val_type)`: the payload, or the case's
  default when the record sets another case or none.
- `ToDict` is `to_dict`; a response with no record raises `IndexError`.
- `to_df` is pandas rendering and is left out.

**Entity rows.** A row maps entity names to a proto `Value` of some feast
type or to a Python value of some type or `None`.
- `ProtoTypes`, `PyValues`, `KeyError` and `TypeMap` follow the two loops
  that build `entity_type_map`.
- `ToProto` converts a Python value; `None` gives an unset `Value`.
- `InferOnlineEntityRows` returns the set of outcomes. When two entities
  fail differently, the one raised depends on dict order, so either error
  is possible.
- `python_values_to_feast_value_type` is in `type_map.py`, which is not in
  this repository. `PyInfer` assumes it returns the one type of the
  non-`None` values, raises `TypeError` for two and `ValueError` for none.
- A proto `Value` passed as an entity is taken to be set: the type of an
  unset one is again decided in `type_map.py`.

## 7. Runs

| Run | Bounds | Checks | Result |
|---|---|---|---|
| `registry_single` | 1 client, 1 name, 1 project, 2 specs, 1 interval, 1 infra, TTL 0, MaxTime 1, commit ∈ {T, F} | `TypeOK`, `CollectionsUnique`, `FeatureViewNamesDisjoint`, `PendingWritesVisible` | pass (~177k states) |
| `registry_ttl_pending` | 1 client, TTL 1, MaxTime 2 | `PendingWritesVisible` | violation (finding 1) |
| `registry_stale_idempotent` | 2 clients, TTL 0, commit ∈ {T, F} | `ApplyThenGet` | violation (finding 2) |
| `registry_clone_read` | 1 client, 1 clone, TTL 0, MaxTime 0, commit = T | `CloneHoldsSnapshot` | violation (finding 3) |
| `registry_refinement` | 1 client and 1 clone, 1 name, TTL 0, MaxTime 0, commit = T, 1 infra, 1 interval; sessions that never tear down an existing registry (`MC_SpecKeepFile`) | `CatalogRefinement` | pass (~27k states) |
| `registry_teardown_resurrect` | 1 client, no clone, 1 name, TTL 1, MaxTime 2, commit = T, 1 infra, 1 interval; teardown allowed | `CatalogRefinement` | violation (finding 6) |
| `threads_serialized` | 2 threads, 3 calls each. `t1` calls the four modelled writes (all three feature-view types) and default reads; `t2` reads with `allow_cache=True` | `TypeOK`, `CollectionsUnique`, `CommitCarriesCall`, `CallsReturn` | pass (~69k states) |
| `threads_read_duplicate` | `t1` calls `apply_entity`; `t2` makes default reads; 2 calls each | `CollectionsUnique` | violation (finding 4) |
| `threads_service_lost` | `t1` calls `apply_feature_service`; `t2` makes default reads | `CommitCarriesCall` | violation (finding 5) |
| `diff_single_project` | every pair of protos over 2 names, 1 project, 2 specs, with `entities` and `feature_views` populated (28,561 pairs) | `DiffMatchesReference`, `ToDictCanonical` | pass |
| `online_conversion` | responses of 0-2 records over one feature and the dummy entity, two oneof cases; 1-2 entity rows over 2 entities, 2 types, `None` (138,528 pairs) | `ToDictFaithful`, `EntityRowsMatchReference` | pass |
| `diff_cross_project` | 1 name, 2 projects, `feature_views` only | `DiffSelfUnchanged` | violation (finding 7) |

**Why these bounds are enough.**
- One name is enough for every conflict, duplicate and idempotence case,
  because every rule of the code is per name. Two names are used where order
  across names matters: the diff and `to_dict`.
- Two specs separate the early return for an equal view from a replacement.
- TTL 1 with MaxTime 2 makes the cache both fresh and expired.
- Two clients give a stale cache.
- One clone is enough, because a clone of a clone is built by the same
  action. The refinement run, which has the clone, keeps the clock still
  (TTL 0, MaxTime 0). A clone's ttl is 0 whatever the registry's is, and
  the client's expiry is checked by `registry_single` and
  `registry_ttl_pending`. With the clock running, the run does not finish
  in five minutes.
- `threads_serialized` has one writer. Its second thread reads with
  `allow_cache=True` at TTL 0, so it reloads only an empty cache. The run
  shows that cached reads never disturb a write and that every call
  returns. Concurrent default reads are the subject of the two violation
  runs. Two concurrent writers are the race spec section 5 leaves to
  callers, so no run has them.
- Two records, two oneof cases and an unset value cover every path of
  `to_dict`: the scan past unset records and a record of the other case.
  Two entities, two types and `None` cover every raise of
  `_infer_online_entity_rows` and both keys failing together.
- Three calls per thread let a write, a reload and a second write of the same
  key interleave with the other thread.

**Views.** The `Registry` pass runs use a TLC `VIEW` that leaves out the ghost
variables their properties do not read.

**Refinement bound.** The passing refinement run leaves out teardown. With
teardown, `CatalogRefinement` fails (finding 6).

**Runs kept to twelve.** The two-client safety run was dropped. Its
invariants hold of each proto, and every proto a client commits is built by
the same operations `registry_single` checks. The run showing that the
diff's sequence follows collection order was dropped as well. `diff_between`
is marked unfinished in the code (a TODO at line 148). `DiffMatchesReference`
compares sets of changes, and the input pairs include every reordering of
the collections, so the set of changes is order-independent.
`diff(S, S)` within one project is among those pairs as well.

## 8. Findings

1. **Uncommitted writes vanish on TTL expiry** (`registry_ttl_pending`).
   `feast apply` applies each object with `commit=False` and commits at the
   end. If the TTL runs out in between, the next
   `_prepare_registry_for_changes` re-runs the load. The cache becomes the
   stored proto or, with no registry file, a fresh empty proto. Either way
   the earlier writes are dropped. No error is raised. The class comment and spec section 7 say
   in-memory writes stay until `commit()`.
2. **The idempotent early return skips `commit()`**
   (`registry_stale_idempotent`). `apply_feature_view(commit=True)` returns at
   line 443 when the cache already holds an equal view, even if the cache is
   stale or the view was written with `commit=False` and never committed. Spec section 8 says apply then get
   returns the object.
3. **A clone loses its snapshot on its first read** (`registry_clone_read`).
   `clone()` copies the cache, but the clone's reads keep the default
   `allow_cache=False`. Its first `get_*`/`list_*`/`refresh()` therefore
   reloads from the `NoopRegistryStore`, whose answer is `None`. That value
   replaces the copy, and every later `apply_*`/`delete_*` of the clone
   fails its assert. Spec section 2 describes a clone as an isolated copy
   for speculative edits. The finding rests on the no-op store returning
   nothing. That class is outside the repository (section 3).
4. **A concurrent read duplicates an entity** (`threads_read_duplicate`).
   `apply_entity` deletes the old entry, then appends to
   `self.cached_registry_proto`, which it re-reads. A default
   `get_*`/`list_*`/`refresh()` on another thread in between reloads the
   store, so the new entry lands next to the reloaded old one. `commit()`
   then persists both. Spec section 5 asks callers to serialize mutating
   operations only; here a single writer is enough.
5. **A concurrent read loses a committed apply** (`threads_service_lost`).
   A default read on another thread while `apply_feature_service` runs
   replaces the cache. `commit()` then persists a proto without the service,
   and `apply(commit=True)` returns normally.
6. **Teardown is undone by the next write** (`registry_teardown_resurrect`).
   `teardown()` erases the store but leaves the instance's cache valid. The
   same instance's next write with `commit=True` persists that cache, so the
   erased infra and objects come back with the new object. Spec 4.1 says
   erase removes the catalog.
7. **diff(S, S) is not empty across projects** (`diff_cross_project`). The
   kept object is compared with the first current object of the same name,
   whatever its project. Spec section 8 says diff(S, S) is empty.

## 9. Fairness and liveness

**Registry.** `Registry` and `RegistryCatalog` state only safety. Every step
there is a caller's call, and nothing obliges a caller to call.

**RegistryThreads.** `RegistryThreads` assumes weak fairness of each thread's
in-call steps (`WF_vars(Step(t))`): a running thread keeps being scheduled.
Starting a call has no fairness.

**CallsReturn.** It says every call returns. It needs the lock to be released
on every path, the store's `FileNotFoundError` included, which `with`
guarantees. Weak fairness is enough only because calls are bounded: the lock
is then eventually free for good. Python's `Lock` is not fair, so with
unbounded calls a thread could starve.

## 10. Not modelled

- **Store selection by URI scheme.** It is configuration and has no state.
- **The store classes.** They are outside `src/`; only their contract is
  used. Backend failures other than a missing file are not modelled.
- **`NoopRegistryStore` itself.** It is outside the repository. `clone` is
  modelled with the contract stated in section 3.
- **`to_dict` racing a commit.** Its five reloads are modelled only over one
  snapshot.
- **`OnlineResponse.to_df`.** It is pandas rendering of `to_dict`.
- **Deleting an on-demand feature view.** The registry has no such
  operation. A missing operation is not a reachable state, so no property
  of a run shows it (hazard at registry.py:658).
- **Two threads writing at once.** This is the race spec section 5 documents.
  The thread runs keep one writer.
- **Logging.**
