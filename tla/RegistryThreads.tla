--------------------------- MODULE RegistryThreads ---------------------------
(***************************************************************************)
(* Several threads calling one Registry instance (registry.py): they share *)
(* cached_registry_proto and _refresh_lock.  Only _get_registry_proto runs *)
(* under the lock; the scans, deletes and appends of the apply_* methods   *)
(* and commit() run outside it, so each method is split into the steps at  *)
(* which it reads or writes shared state:                                   *)
(*   acquire / load  the "with self._refresh_lock" block;                  *)
(*   empty           the FileNotFoundError handler of                      *)
(*                   _prepare_registry_for_changes (after the lock);       *)
(*   check           _check_conflicting_feature_view_names;                 *)
(*   scan            the for-loop that finds (and deletes) the old entry;  *)
(*   append          the append of the new proto;                          *)
(*   commit          commit(), which writes the cached proto to the store. *)
(* apply_feature_service keeps the proto returned by                      *)
(* _prepare_registry_for_changes in a local variable, and apply_feature_  *)
(* view binds the repeated field of its type before its loop: when another *)
(* thread then replaces cached_registry_proto, these local references      *)
(* point to a detached object, which the model keeps as a value.  The TTL *)
(* is 0 (never expires), so a cached read reloads only an empty cache;    *)
(* every call passes commit=True.                                          *)
(***************************************************************************)
EXTENDS RegistryProto

CONSTANTS
    Threads,    \* threads calling one Registry instance
    Writers,    \* the threads that call mutating methods
    WriteOps,   \* the mutating methods the writers call
    ReadOps,    \* the reads every thread calls
    WriterReads, \* the reads the writers call as well
    FVCols,     \* feature-view types passed to apply_feature_view
    MaxCalls,   \* bound on the calls each thread makes
    NoFile      \* the store holds no registry file

\* "get": refresh(), or any get_*/list_* with the default allow_cache=False;
\* "get_cached": a get_*/list_* with allow_cache=True.
Reads == {"get", "get_cached"}
Writes == {"apply_entity", "apply_feature_service", "apply_feature_view",
           "delete_entity"}

ASSUME /\ Writers \subseteq Threads /\ WriteOps \subseteq Writes
       /\ ReadOps \cup WriterReads \subseteq Reads /\ FVCols \subseteq FVKinds
       /\ MaxCalls \in Nat

VARIABLES
    store,      \* the RegistryStore's proto, or NoFile
    cache,      \* cached_registry_proto, or None
    lock,       \* _refresh_lock: the thread holding it, or None
    pc,         \* pc[t]: the next step of thread t's current call
    call,       \* call[t]: the method t runs and its arguments
    detached,   \* detached[t]: None while t's local reference is (or would
                \* be) cached_registry_proto; the object it points to once
                \* another thread replaced the cache
    calls       \* calls[t]: calls t has started

vars == <<store, cache, lock, pc, call, detached, calls>>

PCs == {"idle", "acquire", "load", "empty", "check", "scan", "append", "commit"}

\* The collection a method touches
ColsOf(op) ==
    CASE op = "apply_feature_view"    -> FVCols
      [] op = "apply_feature_service" -> {"feature_services"}
      [] OTHER                        -> {"entities"}

\* Where a write goes once _prepare_registry_for_changes has returned
AfterPrep(op) == IF op = "apply_feature_view" THEN "check" ELSE "scan"

\* t is between taking a local reference to the cached proto and its append
HoldsRef(t) ==
    /\ call[t].op \in {"apply_feature_service", "apply_feature_view"}
    /\ pc[t] \in {"scan", "append"}

\* t assigns a new object to cached_registry_proto: the other threads' local
\* references keep pointing to the old one.
Rebind(t) ==
    [u \in Threads |-> IF u # t /\ HoldsRef(u) /\ detached[u] = None
                       THEN cache ELSE detached[u]]

\* The proto that t's local reference points to
Target(t) == IF detached[t] = None THEN cache ELSE detached[t]

\* t mutates the object its local reference points to
WriteTarget(t, reg) ==
    IF detached[t] = None
    THEN cache' = reg /\ UNCHANGED detached
    ELSE detached' = [detached EXCEPT ![t] = reg] /\ UNCHANGED cache

\* The call returns or raises: its local references die with it
Return(t) ==
    /\ pc' = [pc EXCEPT ![t] = "idle"]
    /\ detached' = [detached EXCEPT ![t] = None]

-----------------------------------------------------------------------------

Init ==
    /\ store = NoFile
    /\ cache = None
    /\ lock = None
    /\ pc = [t \in Threads |-> "idle"]
    /\ call = [t \in Threads |-> [op |-> "get", col |-> "entities",
                                  name |-> CHOOSE n \in Names : TRUE,
                                  project |-> CHOOSE p \in Projects : TRUE,
                                  spec |-> CHOOSE s \in Specs : TRUE]]
    /\ detached = [t \in Threads |-> None]
    /\ calls = [t \in Threads |-> 0]

\* A thread calls a method (a read, or for a writer also a write)
Start(t) ==
    /\ pc[t] = "idle"
    /\ calls[t] < MaxCalls
    /\ \E op \in ReadOps \cup (IF t \in Writers THEN WriteOps \cup WriterReads ELSE {}) :
       \E col \in ColsOf(op), n \in Names, p \in Projects, s \in Specs :
          call' = [call EXCEPT ![t] = [op |-> op, col |-> col, name |-> n,
                                       project |-> p, spec |-> s]]
    /\ pc' = [pc EXCEPT ![t] = "acquire"]
    /\ calls' = [calls EXCEPT ![t] = @ + 1]
    /\ UNCHANGED <<store, cache, lock, detached>>

\* with self._refresh_lock: (blocks while another thread holds it)
Acquire(t) ==
    /\ pc[t] = "acquire"
    /\ lock = None
    /\ lock' = t
    /\ pc' = [pc EXCEPT ![t] = "load"]
    /\ UNCHANGED <<store, cache, call, detached, calls>>

\* Mutant: the body is entered with lock.acquire() and left with a
\* lock.release() that the FileNotFoundError of the store skips
Load_NoReleaseOnRaise(t) ==
    LET op     == call[t].op
        next   == IF op \in Writes THEN AfterPrep(op) ELSE "idle"
        cached == op # "get" /\ cache # None
    IN /\ pc[t] = "load"
       /\ lock' = IF ~cached /\ store = NoFile THEN t ELSE None
       /\ \/ /\ cached
             /\ pc' = [pc EXCEPT ![t] = next]
             /\ UNCHANGED <<store, cache, detached>>
          \/ /\ ~cached /\ store # NoFile
             /\ cache' = store
             /\ detached' = Rebind(t)
             /\ pc' = [pc EXCEPT ![t] = next]
             /\ UNCHANGED store
          \/ /\ ~cached /\ store = NoFile
             /\ pc' = [pc EXCEPT ![t] = IF op \in Writes THEN "empty" ELSE "idle"]
             /\ UNCHANGED <<store, cache, detached>>
       /\ UNCHANGED <<call, calls>>

\* Mutant: a ttl of 0 is read as "expire at once", so every call reloads
Load_ZeroTTLExpires(t) ==
    LET op     == call[t].op
        next   == IF op \in Writes THEN AfterPrep(op) ELSE "idle"
    IN /\ pc[t] = "load"
       /\ lock' = None
       /\ \/ /\ store # NoFile
             /\ cache' = store
             /\ detached' = Rebind(t)
             /\ pc' = [pc EXCEPT ![t] = next]
             /\ UNCHANGED store
          \/ /\ store = NoFile
             /\ pc' = [pc EXCEPT ![t] = IF op \in Writes THEN "empty" ELSE "idle"]
             /\ UNCHANGED <<store, cache, detached>>
       /\ UNCHANGED <<call, calls>>

\* The body of the with-block in _get_registry_proto: a valid cache is
\* returned when allow_cache (TTL 0: valid once set); otherwise the store
\* is read into a new cached_registry_proto, or FileNotFoundError propagates
\* (to the handler of _prepare_registry_for_changes for a write).  Leaving
\* the block releases the lock on every path.
Load(t) ==
    LET op     == call[t].op
        next   == IF op \in Writes THEN AfterPrep(op) ELSE "idle"
        cached == op # "get" /\ cache # None
    IN /\ pc[t] = "load"
       /\ lock' = None
       /\ \/ /\ cached
             /\ pc' = [pc EXCEPT ![t] = next]
             /\ UNCHANGED <<store, cache, detached>>
          \/ /\ ~cached /\ store # NoFile
             /\ cache' = store
             /\ detached' = Rebind(t)
             /\ pc' = [pc EXCEPT ![t] = next]
             /\ UNCHANGED store
          \/ /\ ~cached /\ store = NoFile
             /\ pc' = [pc EXCEPT ![t] = IF op \in Writes THEN "empty" ELSE "idle"]
             /\ UNCHANGED <<store, cache, detached>>
       /\ UNCHANGED <<call, calls>>

\* except FileNotFoundError: a new empty RegistryProto becomes the cache
\* (outside the lock)
Empty(t) ==
    /\ pc[t] = "empty"
    /\ cache' = EmptyProto
    /\ detached' = Rebind(t)
    /\ pc' = [pc EXCEPT ![t] = AfterPrep(call[t].op)]
    /\ UNCHANGED <<store, lock, call, calls>>

\* _check_conflicting_feature_view_names on the current cache: raise, or
\* bind existing_feature_views_of_same_type and go on
Check(t) ==
    /\ pc[t] = "check"
    /\ IF ConflictingName(cache, call[t].col, call[t].name)
       THEN Return(t)
       ELSE /\ pc' = [pc EXCEPT ![t] = "scan"]
            /\ UNCHANGED detached
    /\ UNCHANGED <<store, cache, lock, call, calls>>

\* apply_entity's loop over self.cached_registry_proto.entities: delete the
\* first match
ScanEntity(t) ==
    /\ pc[t] = "scan" /\ call[t].op = "apply_entity"
    /\ cache' = [cache EXCEPT !.entities =
                     DelFirst(@, call[t].name, call[t].project)]
    /\ pc' = [pc EXCEPT ![t] = "append"]
    /\ UNCHANGED <<store, lock, call, detached, calls>>

\* apply_feature_service's loop over registry.feature_services (the local
\* reference), deleting every match while enumerating
ScanFeatureService(t) ==
    /\ pc[t] = "scan" /\ call[t].op = "apply_feature_service"
    /\ WriteTarget(t, [Target(t) EXCEPT !.feature_services =
                         DelEnumerating(@, 1, call[t].name, call[t].project)])
    /\ pc' = [pc EXCEPT ![t] = "append"]
    /\ UNCHANGED <<store, lock, call, calls>>

\* apply_feature_view's loop over the bound list: return on an equal view,
\* else delete the first match
ScanFeatureView(t) ==
    LET c   == call[t]
        old == Lookup(Target(t), <<c.col, c.name, c.project>>)
    IN /\ pc[t] = "scan" /\ c.op = "apply_feature_view"
       /\ IF old # Absent /\ old.spec = c.spec
          THEN Return(t) /\ UNCHANGED cache
          ELSE /\ WriteTarget(t, [Target(t) EXCEPT ![c.col] =
                                    DelFirst(@, c.name, c.project)])
               /\ pc' = [pc EXCEPT ![t] = "append"]
       /\ UNCHANGED <<store, lock, call, calls>>

\* delete_entity's loop: delete the first match and commit, or raise
\* EntityNotFoundException
DeleteEntityScan(t) ==
    /\ pc[t] = "scan" /\ call[t].op = "delete_entity"
    /\ IF Found(cache, "entities", call[t].name, call[t].project)
       THEN /\ cache' = [cache EXCEPT !.entities =
                            DelFirst(@, call[t].name, call[t].project)]
            /\ pc' = [pc EXCEPT ![t] = "commit"]
            /\ UNCHANGED detached
       ELSE Return(t) /\ UNCHANGED cache
    /\ UNCHANGED <<store, lock, call, calls>>

\* "<coll>.append(proto)" to the object the method's reference points to:
\* self.cached_registry_proto re-read by apply_entity, the local reference
\* of the other two
AppendStep(t) ==
    LET c == call[t]
    IN /\ pc[t] = "append"
       /\ cache' = IF detached[t] = None
                   THEN [cache EXCEPT ![c.col] =
                            Append(@, Stamp(c.name, c.project, c.spec))]
                   ELSE cache
       /\ detached' = [detached EXCEPT ![t] = None]
       /\ pc' = [pc EXCEPT ![t] = "commit"]
       /\ UNCHANGED <<store, lock, call, calls>>

\* commit(): the store receives the whole cached proto as it is now
Commit(t) ==
    /\ pc[t] = "commit"
    /\ store' = IF cache # None THEN cache ELSE store
    /\ Return(t)
    /\ UNCHANGED <<cache, lock, call, calls>>

\* Every thread has made its calls
Terminated ==
    /\ \A t \in Threads : pc[t] = "idle" /\ calls[t] = MaxCalls
    /\ UNCHANGED vars

\* The steps of a call in progress
Step(t) ==
    \/ Acquire(t) \/ Load(t) \/ Empty(t) \/ Check(t)
    \/ ScanEntity(t) \/ ScanFeatureService(t) \/ ScanFeatureView(t)
    \/ DeleteEntityScan(t) \/ AppendStep(t) \/ Commit(t)

Next == (\E t \in Threads : Start(t) \/ Step(t)) \/ Terminated

\* A thread that is running keeps running: the interpreter schedules every
\* runnable thread.  Nothing obliges a caller to make a call.
Spec == Init /\ [][Next]_vars /\ \A t \in Threads : WF_vars(Step(t))

-----------------------------------------------------------------------------

TypeOK ==
    /\ store # None /\ cache # NoFile
    /\ lock \in Threads \cup {None}
    /\ pc \in [Threads -> PCs]
    /\ calls \in [Threads -> 0..MaxCalls]
    /\ \A t \in Threads :
        /\ call[t].op \in Reads \cup Writes
        /\ call[t].col \in ColsOf(call[t].op)
    /\ \A reg \in ({store, cache} \cup {detached[t] : t \in Threads})
                     \ {NoFile, None} :
        \A col \in Collections : reg[col] \in Seq(Obj)

\* Within every collection of the store and of the cache at most one entry
\* has a given (name, project), whatever the threads interleave: each apply_*
\* deletes the old entry before appending, and a cached read does not
\* replace the cache under a write in progress.
CollectionsUnique ==
    \A reg \in {store, cache} \ {NoFile, None} : UniqueIn(reg)

\* When a call reaches commit(), the cached proto that commit() writes holds
\* the call's own change: the object apply_* appended, or no entry for the
\* entity delete_entity removed.  Broken when another thread replaced
\* cached_registry_proto in between, so the change went to a detached proto.
CommitCarriesCall ==
    \A t \in Threads : pc[t] = "commit" =>
        LET c == call[t]
            k == <<c.col, c.name, c.project>>
        IN IF c.op = "delete_entity" THEN Lookup(cache, k) = Absent
           ELSE Lookup(cache, k) = Stamp(c.name, c.project, c.spec)

\* Every call returns: a thread blocked on _refresh_lock eventually gets it,
\* because the with-block releases it on every path, the FileNotFoundError
\* of the store included.
CallsReturn == \A t \in Threads : pc[t] # "idle" ~> pc[t] = "idle"

=============================================================================
