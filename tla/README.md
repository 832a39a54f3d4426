# TLA+ models of corto

corto is an in-memory object store with a scope tree, typed objects, observers,
subscribers and mounts that connect the store to external data.  It is a
multi-threaded C library: every thread of a process may declare, define, look up,
update, delete, observe and notify, and most of the synchronisation is hand made
(atomic counters, per object locks, thread local administrations, lock-free reads
of arrays).  This directory holds TLA+ models of those protocols, TLC
configurations that check small instances of them, and TLAPS proofs for all
instances.  Paths below are relative to the repository (`src/src/...` in
`PROJECT.json`).

Check a run with `tlc -workers 2 -config <cfg> <module>.tla`, a proof module with
`tlapm <module>.tla`.

## 1. Inventory

| Component | State it keeps | Operations | Interacts with |
|---|---|---|---|
| Object lifecycle (`store/object.c`, `object.h`) | per object: reference count, VALID and DELETED bits, write lock, place in the scope of its parent; per thread: the "declared admin" in TLS | declare, create, define, lookup, claim, release, delete, update_begin/end/cancel, update | notifies observers on every phase; constructors and destructors are callbacks |
| Scope tree (`store/object.c`) | red-black tree per scope under a `scopeLock`, unknown (forward declared) objects, orphans | adopt, orphan, drop, recursive delete, scope walk | lifecycle (claims of children), mounts (resume and suspend) |
| Ownership and sources (`store/object.c`) | source of the thread, source of each object | set_source, owned, checks in update and delete | mounts set their own source |
| Observers (`vstore/observer.c`, `observer_event.c`) | per observable: lists and arrays of observers; per observer a count; `observerAdmin`, a stack of the arrays each thread is iterating | notify, observe, unobserve | called by the lifecycle; a callback may call anything |
| Mount event queues (`vstore/mount.c`) | `events`, `historicalEvents`, `lastPoll`, `quit`, one thread per mount | post, poll, batch and history notify, destruct | publishers post from notifications; callbacks of the mount may cause events |
| Mount subscriptions (`vstore/mount.c`) | list of (parent, expr, mask) with a count each and placeholders | subscribeOrMount, unsubscribeOrUnmount | subscribers and aligned selects |
| Mount resume and query (`vstore/mount.c`) | none of its own | resume, query, historyQuery, id | lifecycle, select |
| Subscribers (`vstore/subscriber.c`, `subscriber_event.c`) | entity admin with a copy per thread, `isAligning`, `alignMutex`, `alignQueue`, shared values with a count | subscribe, unsubscribe, notifySubscribers, align, flush | select (alignment), observers (notify), mounts |
| Select (`vstore/select.c`, `result.c`, `query.c`) | a stack of frames with iterators and the mounts of each scope | select, next, release | scope tree, mounts |
| Autoloader, routers (`vstore/loader.c`, `router*.c`, `route.c`) | loaded packages; routes | on_query, match | mounts |
| Access control (`secure/key.c`, `lock.c`) | locks in an entity admin, session per thread | authorize, register lock | lifecycle, select |
| Method tables and overloading (`lang/interface.c`, `store/object.c`, `lang/delegate.c`) | method table per interface | bind, resolve, overload | type system |
| Type system (`lang/*.c`, `native/type.c`, `store/typecache.c`) | size, alignment, members of a type | init, construct, castable, compatible | lifecycle (types are objects) |
| Cycle collector (`store/collect.c`) | work lists of one run | collect | lifecycle |
| Values, walks, serializers, conversions (`store/*_ser.c`, `walk.c`, `value.c`, `ptr.c`, `convert.c`, `operator.c`, `expr.c`) | none that outlives a call | visit, compare, copy, convert | type system |
| Bootstrap and generated bindings (`store/bootstrap.c`, `c/src/*.c`) | table of builtin objects | start, stop | all |

Behaviours that are hard:

* **interleaving** - an object is found in the tree and claimed in two steps; two
  threads delete the same object; a notification iterates an array that another
  thread replaces; publishers post while a mount polls;
* **waiting** - a redeclarer waits on the read lock until the declarer defines or
  deletes; an unobserve spins until nobody uses the old array; a publisher stops
  when the queue is full; a destruct of a mount joins its thread;
* **re-entrance** - callbacks notify, observe, unobserve and delete;
* **partial failure** - `init` and `construct` can fail after the object was made
  visible;
* **counting** - references of an object, arrays of an observer, queues of an event.

What makes each component correct:

* *lifecycle*: references are exact, nobody uses a freed object, constructor and
  destructor run once, a name belongs to one object until that is deleted, writers
  exclude each other, calls return;
* *observers*: an array in use is not freed, each array is freed exactly once, the
  data of an observer outlives the arrays that refer to it, observe and unobserve
  return;
* *mount queues*: an event lives as long as it is queued, the events of an object
  are handled in order and the latest one is not lost, a history is complete, the
  queue is bounded, publishers go on, a destruct returns;
* *subscribers*: what a subscriber has seen is, when all is quiet, what is in the store;
  events of an object come in order although an alignment comes in between; a shared
  value is freed once, by the last that uses it;
* *mount subscriptions*: a mount is told once when a query gets its first user and once
  when the last one leaves, and nothing is left after a destruct;
* *scope tree*: references are exact through drops, nested deletes and failures, an
  object that is not deleted is found under its name, the collector leaves nothing;
* *select*: every object once, whichever mount has it and whatever is added or
  deleted meanwhile, only what was asked for, and the claims are given back;
* *types and values*: members do not overlap, an allocation has one owner, a copy is
  equal, a text reads back, a cast keeps the number;
* *methods*: the nearest overload answers, an override takes the place of what it overrides;
* *services* (paths, formats, fluent requests, resumes, the autoloader): what was asked
  for is what is returned, also when calls are made inside each other.

`PROJECT.json` lists the components with their status and, under `hazards`, each
hazard with the line where it bites and the properties that cover it.

## 2. Modules

| Module | What it is |
|---|---|
| `NamedObject` | abstract: what the store promises about the objects of one name |
| `ObjectStore` | detailed: `store/object.c` for several threads, one action per atomic step; implements `NamedObject` |
| `ObserverArrays` | detailed: `vstore/observer.c`, notification through arrays and their reclamation |
| `MountQueue` | detailed: the event queues and the polling thread of a mount, `vstore/mount.c` |
| `ObjectTree` | detailed: `store/object.c` for one thread and a whole tree, and `store/collect.c` |
| `SubscriberAlign` | detailed: `vstore/subscriber.c`, notification, alignment and its queue, shared values |
| `MountSubscriptions` | detailed: the subscriptions of a mount, `vstore/mount.c` |
| `Subscribers` | the two before, composed: the alignment of a subscriber tells a mount |
| `Select` | detailed: `vstore/select.c`, the iterator over scopes and mounts |
| `Types` | functions: layout, flags and cache of types (`lang/*.c`, `store/typecache.c`) |
| `Values` | functions: init, copy, compare and free of values in a heap (`store/*_ser.c`, `free.c`, `ptr.c`); extends `Types` |
| `Strings` | functions: values as text and back (`store/string_ser.c`, `string_deser.c`); extends `Values` |
| `Primitives` | functions: casts and operators of primitives (`store/convert.c`, `operator.c`, `value.c`, `lang/primitive.c`) |
| `MCValues` | the application that uses values: a source and a destination |
| `Methods` | detailed: overloads, method tables, interfaces and delegates (`lang/interface.c`, `class.c`, `delegate.c`, `store/object.c`) |
| `Paths`, `Formats`, `Fluent`, `Resume`, `Loader` | small: names of objects, the list of formats, chains of calls, results of mounts, the autoloader |
| `Services` | `Formats`, `Fluent` and `Resume` side by side, with their properties |
| `MCServices` | instances of the five for TLC, one per behaviour: `Services` with `Paths` and `Loader` |
| `MC*` | the other instances for TLC |
| `*_proofs` | TLAPS proofs: `ObserverArrays_proofs`, `MountQueue_proofs`, `ObjectStore_proofs`, `ObjectStoreLife_proofs`, `Subscribers_proofs`, `MountSubscriptions_proofs`, `Select_proofs` about the module of that name, `Services_proofs` about `Services` |

Conventions that all of them share:

* `pc[t]` is where thread t is; an action is named after the code that it stands
  for, and `Goto(t, p, q)` is the step from one program point to another.
* A section under a lock that also protects every other access to the same state is
  one step; every atomic operation and every unprotected access is a step of its
  own.
* Memory is never reused where threads are modelled: an allocation is an element that
  goes from `unused` to `live` to `freed`.  An access to one that is `freed` sets `fault`,
  and so does a failed assertion that aborts the process.  After a fault nothing happens:
  what the C program does then is undefined, and no property but the one that forbids the
  fault says anything about it.
* What one thread does in nested calls (`ObjectTree`, `MountSubscriptions`, `Resume`,
  `Fluent`) is a stack of frames in the state; a step does what the innermost call does up
  to its next call, so that callbacks can make any call in between.
* A *setup* or *program* is a constant choice that `Init` makes; the `MC` modules name the sets.
* Bounds are constants or fields of a constant: calls per thread (`calls`,
  `MaxOps`, `posts`), allocations (`Obj`, `MaxArrays`), depth (`MaxDepth`), events
  (`MaxEvents`).
* A definition with a comment that begins with *Mutant* is a plausible bug.  No
  specification uses it; it is there to show that a property can fail.

### ObjectStore

`Obj` are the allocations for objects of one name in one scope.  `mem`,
`hasParent`, `refcount`, `valid`, `deleted`, `writer`, `readers` are fields of the
object header; `inScope` is what the tree of the parent has under the name;
`declaredBy` is the declared admin in the TLS of a thread.  `held` counts the
references that a client has been given and not given back, and is what
`RefcountIsExact` compares the counter to.

| Action | Code (`store/object.c`) |
|---|---|
| `DeclareNew`, `DeclareExisting` | `corto_declareChild_intern` up to the unlock in `corto_adopt` |
| `InitSucceeds`, `InitFails`, `InitFailed` | `corto_init`; on failure `corto_orphan` and `corto_deinit_scope` |
| `RedeclareClaim`, `RedeclareNoWait`, `RedeclareWait`, `ReadBegin`, `ReadDeleted`, `AssertValid`, `ReadEnd` | the branch for a name that is bound: claim, wait on the read lock, look at the state |
| `CreateDefine` | `corto_create_intern` after the declare |
| `Define`, `Construct`, `ConstructFails`, `SetValid`, `NotifyDefined` | `corto_define_intern`, `corto_notifyDefined`, `corto_declaredByMeRemove` |
| `Lookup`, `LookupClaim`, `LookupReset` | `corto_lookup_intern`, which claims after the scope is unlocked |
| `StartClaim`, `Claim`, `StartRelease`, `Release` | `corto_claim`, `corto_release` |
| `StartDelete` .. `Dealloc` | `corto_delete` and the steps of `corto_destruct` |
| `UpdateBegin` .. `UpdateCancel` | `corto_update_begin`, `_end`, `_cancel` |
| `InstantUpdate` .. `InstantUnlock` | `corto_update` |

A *program* says which operations each thread calls and how often, which callbacks
of the type may fail, and whether the threads *quiesce*: drop a last reference only
when the object is no longer found under its name and nobody is between finding
and claiming it.  Without that discipline the code frees objects under a lookup
(run `store_lookup_freed`), so that no statement about references holds; with it
the statements are the ones that a user of the store relies on.  `Init` chooses one
of the programs, so that one run checks several.

`NamedObject` has the phases absent, declared, defined, deleted, freed and the
binding of the name.  The refinement mapping `phaseOf` reads the phase from the
memory, the state bits and the history of the destructor: between the clearing of
VALID and the setting of DELETED the object still counts as defined.

### ObserverArrays

A list is the `onSelf` or `onChild` list of one observable; `current` is its
array.  `frame[t]` is the slot of thread t in `observerAdmin`: one element per
nested notification, with the array that it iterates, whether it is registered
(`sp` includes it), the observers still to be called, and the `free` flag with
which an inner unobserve delegates freeing.  `late` is a history variable: the
array was replaced before it was registered.  An event goes through the lists of
`Path`, which is how an event bubbles from an object to its parent.

| Action | Code (`vstore/observer.c`) |
|---|---|
| `Notify`, `NotifyDone` | `corto_notify` |
| `PushRead`, `Register`, `Pop` | `corto_observersPush` (read, then publish), `corto_observersPop` |
| `CallObserver`, `CallbackReturn` | the loop of `corto_notify_observers_intern`; in between the thread is a client again, so that a callback can make any call |
| `Observe`, `Add` | `corto_observer_observe`, up to the unlock |
| `Unobserve`, `Remove` | `corto_observer_unobserve`, up to the unlock |
| `Await`, `Scan`, `ScanSelf`, `ScanDone`, `Return` | `corto_observersWaitForUnused` for each replaced array, and what follows |

The order in which an observer is added to its lists is left open, as is the order
in which observers of an array are called; the code fixes both, so the model has
more behaviours than the code and what it shows holds for any order.  The count of
an observer is changed without an atomic operation; where two threads can do so at
once (`Counting`) a decrement may be lost.

### MountQueue

Sections under the lock of the mount are one step.  Events are numbered in the
order in which `corto_mount_post` has the lock; `refcount` is that of the event
object.  A *setup* is a mount (mask, `queue.max`) and how much its publishers post.

| Action | Code (`vstore/mount.c`) |
|---|---|
| `Post` | `corto_mount_post` up to the decision to throttle |
| `PollWasLate`, `QueueNotFull` | the two loops in which a publisher stops |
| `CheckQuit`, `Poll`, `BatchNotify`, `HistoryBatchNotify`, `Handle`, `Handled`, `PollDone` | `corto_mount_thread`, `corto_mount_onPoll`, `corto_mount_notify` |
| `Quit`, `Join` | `corto_mount_destruct` |

### ObjectTree

`obj[o]` is the header of an object with its place in the tree: `parent`, `scope` (what is
under each name), `count`, `valid`, `deleted`, `source`, `resumed`, the type and one
reference as its value.  `initial` has the objects that the application still has from
their declare, `held` the claims it made.  A placeholder of the type *unknown* stands for
a parent that is not declared yet.

| Action | Code |
|---|---|
| `Declare`, `StartPath`, `DeclareNext`, `Finish`, `CreateFails`, `CreateReturns` | `corto_declareChild_intern`, `corto_declareChildRecursive_intern`, `corto_create_intern`, `corto_adopt` |
| `DefineBegin`, `DefineEnd` | `corto_define_intern` with the constructor in between |
| `ReleaseBegin`, `DestructBegin` .. `DestructLeave`, `DeinitScope`, `FreeObject` | `corto_release`, the steps of `corto_destruct`, `corto_deinit_scope` |
| `DeleteBegin`, `DeleteEnd`, `DropBegin` .. `DropLast` | `corto_delete`, `corto_drop` over the children it claimed |
| `Claim`, `Release`, `SetRef`, `Lookup`, `Resume`, `ResumeReturns`, `SetSource` | the calls of those names |
| `Traverse` .. `TraverseNext`, `CollectValue`, `CollectObject`, `CollectEnds` | `store/collect.c`, called by `corto_stop` |

### Subscribers

`SubscriberAlign` follows a change of an object (`Define`, `Update`, `Delete`, `Publish`) through
`corto_notify_subscribersById`: `Walk` over the subscribers that match, `LockAlign`
(the first, unlocked read of `isAligning`), `Invoke` (the conversion into the content type
of the subscriber, once per format and notification), `Deliver` (the second read:
queue, post to a dispatcher or call), `NotifyEnd`.  `HandleEvent` is a dispatcher.
`Subscribe`, `AlignBegin`, `AlignObject`, `AlignEnd`, `Flush`, `FlushEnd` are
`corto_subscriber_subscribe` and its select; `Unsubscribe` the reverse.  A value has a
version; `shared` and `mem` are the count and the memory of a converted one, `seen` the
last event that a subscriber has handled for an object.

Only an update takes the write lock of the object while it notifies (`writer`; `corto_update`, and from
`corto_update_begin` to `corto_update_end`).  A new object is in the store and notified without it
(`corto_notifyDefined`), a DELETE is notified without it before the object leaves the store
(`corto_destruct`), and a value for an object that is not in the store is passed on by `corto_publish`
without any object.  So an update is notified at once with a define, a delete or publications,
and only updates of one object exclude each other.  Of deletes, one that finds the object deleted does not
notify.  Three histories say what happened; no guard reads them.  `past`, of an
event: the changes of the object whose notification had ended when this one began.  `alone`: the objects whose last
change began when no other change of them was being notified.  `raced`: the subscribers for which a thread had begun to notify
when they registered, or began between that and their turn to align, or while the align queue was flushed, or
had still to come to them when `isAligning` was cleared.

`MountSubscriptions` has the list of `(from, select)` with counts and contexts.  `MountSubscribe` and
`MountUnsubscribe` are the locked halves of `corto_mount_subscribeOrMount` and
`corto_mount_unsubscribeOrUnmount`, `Tell` and `TellUnsubscribed` the callbacks without
the lock (`CallbackSubscribes`: a callback that subscribes to the mount itself), `Settle` the
second locked half, which looks the subscription up again, `MountDestruct` the destruct.
`Subscribers` composes the two: a thread that aligns calls the mount before it reads the
store, with the align mutex held, and unsubscribing calls it again.

### Select

A frame of `stack` is an object with an iterator, over its scope or over what a mount
returned.  `Run` and `NextSegment` are `corto_selectRun` and `corto_selectSplitScope` (the
segments of the scope of the request, and the mounts on the way); `VisitObject`,
`AskMount`, `VisitResult` and `Unwind` the loop of `corto_selectTree`; `HasNext` and
`Leave` what the application calls; `Write` another thread that adds or deletes an object
between two reads, which makes the iterator of a scope start again behind the last key.
`claims` counts the references of the select and `yielded` what it has returned.

### Types, Values, Strings, Primitives

These are pure functions, as the code is.  A type is a record that the constructors
compute (`Struct`, `Union`, `Array`, `Sequence`, `List`, ...) with its flags and the
`fields` of the cache.  A value is a tree in which everything behind a pointer is
`[b, v]`: `b` is the allocation.  The functions of `Values` take and return the memory, so
that a double free, a read of an unwritten word or a leak shows.  `MCValues` is the
application: it writes literals into a source, copies it over a destination that may hold
anything, writes it as a text and reads that into the destination, deletes one; apart from these it
casts a *cell* of a primitive type.  The widths of the primitives have 2 to 5
bits, so that every word of every type is tried.

### Methods

`DeclareMethod` and `DeclareFunction` are the `init` of methods and functions with the
overload checks, `StartConstruct`, `BindMethod`, `FinishConstruct` the construct of
a class or interface: the copy of the table of the base, `corto_interface_bindMethod` for
each method in any order, the vectors of the interfaces and the delegate of the constructor.
`Lookup` and `Distance` are `corto_overload` and `corto_lookup_functionFromSequence`; `SizeOf`,
`FfiTypes` and `Copied` the three countings of the slots of a call in `function.c`,
`cdeclhandler.c` and `invoke.c`.

### Services

| Module | State | Actions and code |
|---|---|---|
| `Paths` | a tree of objects with the builtin ones | `Declare`, `Replace`, `Delete`; `FullPath`, `Path`, `LookupFrom`, `Resolve` are `corto_fullpath`, `corto_path`, `corto_lookup`, `corto_resolve` |
| `Formats` | the list of formats, what threads use | `Lookup`, `Load` (without the lock), `Add`: `corto_fmt_lookup` |
| `Fluent` | the request in the TLS of a thread, chains inside each other | `Begin`, `Set`, `End`, `Declared`, `Evaluated`: the fluent calls of `select.c`, `subscriber.c`, `observer.c` |
| `Resume` | source, attributes and list of results in the TLS, the calls under way | `Select`, `Return`, `EndQuery`, `Resume`, `Take`, `EndDefine`, `EndExplicit`: `corto_mount_query`, `corto_mount_return`, `corto_mount_resume` |
| `Loader` | packages on disk, in the store and loaded | `Construct`, `Destruct`, `Install`, `Lookup`, `Declare`, `Delete`, `Query`: `loader.c` |

## 3. Runs

| Run | Shows |
|---|---|
| `store_safety` | three threads, two allocations, three programs (an owner with a redeclarer and a lookup; updates of an object that is being defined; a creator that drops its object under a lookup): exact reference counts, no dangling reference, the life of an object (`Lifecycle`: destructed once, the name is bound until the deletion, one writer), refinement of `NamedObject` |
| `store_returns` | creators that race, a deletion of the undefined object, failing constructors: constructed and destructed at most once, and every call returns |
| `store_lookup_freed` | violation: a lookup claims an object that has been freed |
| `observers_lists` | two threads, two lists, bubbling events, callbacks: registered arrays are allocated; each array has one owner and the count of an observer covers the arrays it is in (`ListsAreCounted`) |
| `observers_returns` | two threads that do everything on one list: waits are ordered, observe and unobserve return, replaced arrays are freed |
| `mount_queues` | mounts that coalesce (with re-entrant callbacks), that keep a history (one with a single publisher that fills the queue), that queue single events, with destructs: events of an object in order (`HandledInOrder`), none lost (`NothingIsLost`), queues sound (`QueueIsSound`), posted events handled, and nobody waits for ever (`WaitersGoOn`) |
| `subscribers_pass` | three threads, two subscribers: two threads define, update and delete objects at once while a third one subscribes, values are shared in formats, and two threads subscribe the same queries of a mount: `Converged`, `SharedIsExact`, `SubscriptionsAreSound`, `SeenInOrder`, `SubscriberCallsReturn` |
| `tree_pass` | declares in scopes and by paths, nested deletes from destructors, failing constructors, sources and resumes, cycles of references and their collection: `ReferencesAreSound`, `TreeIsConsistent`, `NothingIsLeft` |
| `select_pass` | some hundred selects over a tree of eight objects, with pages, types, filters, single objects, mounts of all kinds and two changes by another thread: `EachOnce`, `YieldedIsAsked`, `StoreClaimsAreReturned`, `SelectEnds` |
| `methods_pass` | an interface, a class that implements it and one that inherits from that, with every choice of two methods of a catalog for each; a package with up to three functions: `LookupIsNearest`, `VtablesAreSound` |
| `values_pass` | 27 pairs of types, three operations: `MemoryIsSound`, `ValuesCompare`, `WrittenIsReadBack`; cells of all primitive types: `PrimitivesAgree` |
| `services_pass` | the five services: `PathsAreFound`, `OneOfEach`, `RequestsAreOwn`, `ResultsAreOwn`, `PackagesAreFound` |

A property is often the conjunction of a few named parts, which are next to it in the
module; when it fails, TLC is asked for the parts.

### Bounds, and why they are enough

*Store.* The races of the lifecycle are about two threads at one object and a third
that comes by; two allocations let a name be bound again while the previous object
is being taken apart.  Four or five calls are a whole life (declare, define, claim,
delete, release) and two or three are enough for every call another thread can
interpose.  *Observers.* Two observers and two lists give every array an older and a
newer one; depth 2 gives an outer and an inner notification, the least in which
delegation of the freeing matters; five calls are observe, notify, and from the
callback observe or unobserve, with another thread doing the same.  `MaxArrays`
is not reached before the calls are used up in `observers_lists`.  *Mounts.* Two
objects are the least with which coalescing and order differ; five or six events with
`queue.max` of 2 to 4 fill the queue, and the poll comes in between.
*Subscribers.* One thread that subscribes and two that notify are the least with which
an event is queued, overtaken or flushed; one of the two makes two calls, so that changes that overlap come before
one that does not; `MaxValues` 6 and `MaxSubscriptions` 4 are not
reached before the calls are used up.  *Tree.* Three objects (`MaxObjects`) give a
parent, a child and one that replaces, deletes or refers to either; four calls, and
one from a callback.  *Select.* A tree of two levels below the root is the least in which the
walk comes back to a scope that has changed while it was below.  *Values.* `MaxOps` 3 is
write, copy or read, and write or copy again over what is there; sequences and lists have up to
two elements.  *Methods.* Two methods in each of three classes (`MaxMethods`) make an
override, an overload of it and both at once; three functions (`MaxFunctions`) make an
ambiguity that a third one resolves.  *Services.* Paths: three objects of the application, at
most four above each other, are paths up, down and across.  Formats: two threads and four
allocations.  Fluent: three chains, depth two.  Resume: calls of depth two, two results.
Loader: three packages, one inside another whose library makes only an object inside itself, and one that
makes nothing at all, and two loaders.

### Fairness

`ObjectStore`: weak fairness of the calls under way (`GoOn`), not of the client: a
thread that is inside a call runs on whenever it can, which is what a preemptive
scheduler and a mutex give; nobody has to start a call, and what a client does
between `update_begin` and `update_end` is not fair.  `CallsReturn` therefore
excepts a waiter whose declarer never comes back to define or delete the object.
`ObserverArrays`: the same, and callbacks return.  `MountQueue`: the thread of the mount
runs, a publisher that may go on does, a destruct that was started goes on to its
join; posting and starting a destruct are not fair.  `Subscribers`: the calls of each
thread go on, and dispatchers handle what was posted to them.  `Select`: the application asks for
results until there are none (`Walk`); that it leaves early and that others write is
not fair.

`CHECK_DEADLOCK FALSE` is in every configuration because the calls are bounded: a
program that has made all of its calls stops, which is no deadlock of the code.
Threads that wait for each other are found by the liveness properties instead.

## 4. What is proved

A theorem holds for every value of the constants that the named assumptions of the
modules (`ASSUME`) allow: all sets of threads, objects, lists and programs, and all
bounds.  TLC checked each invariant below on the run of its module before it was proved.

| Module | Theorems | What they establish |
|---|---|---|
| `ObserverArrays_proofs` | `TypeCorrect`, `RegisteredArrayIsAllocated`, `ListsAreAlwaysCounted`, `NoCircleOfWaits` | an array that was registered before it was replaced is not freed while a notification uses it; every array has one owner that frees it, and the count of an observer covers the arrays it is in; with one list nobody waits in a circle |
| `MountQueue_proofs` | `TypeCorrect`, `EventsAreHandledInOrder`, `NoEventIsLost`, `QueueOfOnePublisherIsBounded`, `QueuesAreSound` | the events of an object in order, none lost, and freed once and after they were handled |
| `ObjectStore_proofs` | `TypeCorrect`, `ReferencesAreCounted`, `HeldIsNeverFreed`, `NothingIsUsedAfterFree` | exact reference counts and no use after free |
| `ObjectStoreLife_proofs` | `LifecycleIsKept`, `ObjectsAreDestructedOnce`, `PromiseIsKept`, `UndeletedNeverFaults` | the life of an object, and that `ObjectStore` implements `NamedObject` |
| `Subscribers_proofs` | `SubscribersAreInOrder`, `EventsAreSeenInOrder`, `ValuesAreShared`, `SubscribersConverge` | the events about an object reach a subscriber in the order of its changes, and the last one is its present state; the count of a value that events share is exact |
| `MountSubscriptions_proofs` | `MountSubscriptionsAreSound` | a mount is told of the queries that have users, and no subscription is used after it was freed |
| `Services_proofs` | `FormatsAreShared`, `ChainsAreOwn`, `CallsAreNested` | one instance of a format; chains and queries inside each other do not mix |
| `Select_proofs` | `ClaimsAreReleased`, `ResultsAreAsked`, `NothingIsReturnedTwice`, `NothingStayingIsMissed`, `EachIsReturned` | while others declare and delete, a select over the store releases what it claimed, returns what is asked for, nothing twice, and misses nothing that stays; when nobody does, its pages are full |

### ObserverArrays

From `ObserverAssumption` and `ListsAssumption` (an observer is in finitely many lists) only.
`TypeOK` is inductive as it stands because it contains `ThreadOK`, which ties the frames of a
thread to its program counter and its wait.  `RegisteredIsAllocated` is not inductive: it says
nothing of the arrays that are about to be freed.  The invariant is `Safe`:

* `Bounded`: arrays that were not allocated yet are referred to by nobody;
* `CurrentLive`: the array of a list is allocated;
* `ReplacedUnlinked`: an array in `olds` or `waiting` is no longer that of a list, so that
  nobody can still come to register it except late;
* `ScannedClear`: a thread that was scanned does not use the array that is waited for;
* `FlagClear`: a notification with the flag `free` set is the only one that uses its array;
* `RegisteredIsAllocated` itself.

An array is freed at the end of a scan, when every other thread was found not to use
it and could not start to (it is unlinked), or by the outermost notification of the thread
that replaced it, when the scan of the others was done already.

`ListsAreCounted` follows from `Kept`, which adds two groups.  `Own` says who frees an array:
`Accounted` (an allocated array has exactly one owner, a list, a replacer, a waiter or a
flagged notification, and any other array has none) and `Delegation`.  `Books` says that the count of
an observer covers the arrays that it is in, also when two decrements without a lock become one:
the counts err on the side of a leak.

`NoCircleOfWaits` has the hypothesis `OneList`, that of an object whose events do not bubble.
With one list arrays are numbered in the order in which they were current, and the invariant
`Ordered` says that a thread which replaced an array uses no newer one; a wait is thus always for
an older array.  With two lists TLC finds a circle, so
that the hypothesis is needed.

### MountQueue

The invariant `IInv`: which events the lists have (`OrderInv`: the events of an object are in the
order handled, batch, queue, and at most one in each of the last two), what became of
those that are in none (`LatestIsKept`, `HistoryIsComplete`), the references (`CountInv`) and the
bound (`BoundInv`: the queue is full only while its one publisher stands at `full`).
`QueuesAreSound` is about mounts with one of the two queues (`OneQueue`): with both, an event has two places
and one reference, see section 5.  `QueueIsBounded` says itself that it is about one publisher.

### ObjectStore

`TypeCorrect` holds for every program.  The others have the hypothesis `[]Disciplined`: the program
quiesces (`Quiesce`: the last reference to an object is dropped when it is no longer
bound nor found, as `RefcountIsExact` says itself), and no `corto_create` is at its implicit
delete of an object whose constructor failed (`CreatesDefine`).  Behaviours that break either are those of
section 5, and TLC has traces in which the count is wrong.  The invariant `RefInv`:

* `CountIsExact`: the count is the number of references, which are those that the callers hold and
  those that calls under way carry, plus one for the place in the tree while a
  destruct takes the object out;
* `NeededIsKept`: an object that is bound, or found and not yet claimed, is held by somebody or is
  still being initialized.  This is what makes a claim outside of the scope lock safe;
* `LastIsLast`, `OneAtATime`: once the last reference is dropped nobody else has the object, and
  one thread alone destructs it;
* `CallInv`: what is true at each point of a call.

`NothingIsUsedAfterFree` and the theorems on the life of an object also assume that no `init` fails, which
leaves the object locked.  The state bits are read and written without a lock, so that `Lifecycle` depends on
how the store is used (`Careful`); two ways are proved right:

* `Owned`: one thread defines and deletes, the others declare, look up, claim and
  release.  `OwnedLife` follows the owner and says at which stage its object is;
* `Undeleted`: every thread declares, defines and updates, and nobody deletes.  `UndeletedLife` says that the
  declarer has the write lock until the object is defined, and a writer while it writes.

`PromiseIsKept` is the refinement: every step is a step of `NamedObject` or leaves its
variables alone, by cases over the actions.

### Subscribers

`EventsAreSeenInOrder` proves the action property `SeenInOrder` from `SubscriberAssumption`.  The property is about
every program, the subscribers that are not in `raced` (section 5), and pairs of changes of which one began when the
notification of the other had ended: changes that overlap can come to a subscriber in either order, and only
two updates never do overlap.  The invariant `OrderInv`:

* `Locks`: who is between the lock and the unlock of an align mutex has it, and a subscriber that is
  being aligned, or has events in its align queue, is aligned by a thread;
* `Windows`: no subscriber that is not raced is notified and aligned at once (`Apart`), which follows from the mutex for
  threads that saw `isAligning`, and from `NotYet` and `NoMore` for those that did not;
* `Versions`: the past of every event, under way, queued or handled, is of changes whose notification has ended and
  that are not the last one of the object (`Settled`), so that nothing in a queue is later than a change that begins now;
* `Ordered`: for each subscriber that is not raced, what it handled, what its dispatcher has, and what waits in its
  align queue, is in an order that the changes can have: none comes after one that has it in its past;
* `Sync`: outside of an alignment an event is delivered at once exactly when there is no dispatcher.

`ValuesAreShared` is about every program, as `SharedIsExact` is: while no fault happened, the count that a
serialized value carries is the number of its users (the caches of the notifications under way and the events in a
dispatcher's queue).  The invariant `SharedInv` stands on `OrderInv`:

* `Unshared`: an event in an align queue has no shared value, because a subscriber with a
  dispatcher that is aligned while it is notified would be a fault;
* `Counts`: for each value, that it has no users while it is unused or freed, that a value which was never counted is in one
  cache only, and that otherwise the count is the number of its users.

`SubscribersConverge` proves `Converged` under three hypotheses about the program (`Followed`), which the setups of the
run satisfy: nobody who changes objects has an entity that leaves his own changes out (`Unsourced`), what is
published is not in the store (`Disjoint`), and nothing is deleted when subscribers come and go
(`Remembered`; section 5 says what happens otherwise).  The invariant `FollowInv`, on `OrderInv`, is about the last event
that a subscriber is given of an object: the last one of its align queue, or else of its dispatcher, or else the one it handled (`Final`):

* `Follows`: for a subscriber that was aligned with the object, and an object whose last change overlapped with no other
  (`alone`), that event is its present state (`UpToDate`), or a
  notification about it is still to reach the subscriber (`Reached`); for a subscriber that is not aligned yet, it says
  nothing that its next alignment will not tell it again (`Unaware`, `Present`);
* `StillToCome`: a change that is notified while a subscriber is aligned reaches it after the alignment, so
  that what the alignment did not see is not lost;
* `Single`: one notification goes on about an object that is `alone`, with its present version, and what is notified to
  exist is in the store unless it is deleted meanwhile;
* `Members`, `Stays`: who is aligned is in the list of subscribers, and stays in it when nobody unsubscribes, so that
  every delete reaches it.

What overlapped earlier does no harm: as soon as a change begins with no other one under way, whatever the subscriber was
given before is replaced by it.  That is why `Follows` speaks of the other objects only where nothing was deleted, and why the
step that matters in the proof is a change that makes its object `alone` again.

`MountSubscriptionsAreSound` is about the mount below: `SubscriptionsAreSound` for every mount and all users
with `Regular`, which are the setups of the run made general: contexts are not shared between queries, calls about one scope
overlap only when they are subscribes of one query, and either subscribers with one scope have
one query (`OneSelect`; on_subscribe may then call the mount again), or calls about one scope
do not overlap at all and do not recurse, and a mount with both masks has no subscriber for its own
scope (`OneAtATime`).  Section 5 says what happens otherwise.  The invariant `ToldInv` follows each call
from its first unlock:

* `CallOK`: a call that opens a subscription has its placeholder in the list, or the subscription of
  another select that it counted in advance (`Lent`); one that tells of an unsubscribe has a subscription that
  is still allocated and that nobody finds any more;
* `Together`: of the calls about one scope that overlap, at most one opens a subscription;
* `ListOK`, `CountOK`: a subscription in the list that is no placeholder has the contexts that the
  mount returned, and its count is the number of users, plus one while it is lent;
* `QueryOK`: the mount was told of a query when it is in the list, or a call is about to list it, or
  to tell that it is not.

`CallsOpen` relates the calls to the threads: who is in a call to the mount is waiting for it.

### Services

`FormatsAreShared`: the list is unique because a loader searches it again before it adds its own
(`ListIsUnique`, `OwnFormats`).  `ChainsAreOwn`: the request in the thread's memory belongs to the innermost
chain (`RequestsKept`, `Numbered`), under `Restrained`: no chain is written while a mount is declared for another, and no chain calls
`toNow` after `fromTime`, which would clear the time that was set.  (With `TimeFirst` FALSE `toNow` before `fromTime`, and either of them
alone, is free.)  The two exceptions are in section 5, and the constants of the run say the same.
`CallsAreNested`: each frame of the stack has what its caller will find again (`Contexts`,
`FramesOwn`, `StoreIsSound`).

### Select

The theorems are about selects over the store: with mounts the claim of an item is dropped when
the mount is asked and hidden results pass without a match (section 5).  The setups have any scopes, filters, types,
pages and concurrent declares and deletes.  `Typed` is their type invariant; it contains the frames of
the stack, and that no mount was loaded.

* `ClaimsAreReleased`, for one expression, from `ClaimsAreCounted`: until the end an object has
  as many claims as there are frames with it, and one for the segment and one for the item that it
  is.  Entering a scope takes one, leaving it, the next item and the end give them back.
* `ResultsAreAsked`, from `AskedInv`: the frames above the first are in the scope of the
  expression (`Rooted`), and what is about to be returned was matched.  `AllKnown` says that no object has the
  type `unknown`: such an object is a hidden result, after which the next one passes without a match (section 5).
* `NothingIsReturnedTwice`, for one expression, from `OnceInv`: a frame is that of the object which the frame
  below it read last (`Nested`), so that the stack is one path down the tree, and everything
  that was returned lies before that path in depth-first order (`Passed`).  A scope that changed is read again behind
  the last item, and `Passed` says for the innermost frame that nothing returned is behind it.
* `NothingStayingIsMissed`, for one expression, from `MissInv` and the two invariants above: what is in the store from
  the start to the end and is asked for is returned.  Every such object was returned or is still to come
  (`Unmissed`): it lies below a frame, by a name behind the key that the frame has read last
  (`Remains`), and a visit takes exactly the visited object away from what remains (`VisitReads`).  A scope that
  changed is read again from the last item, and what makes this right is `Following`: that item is never behind what
  the frame has read (`NotAhead`), so that reading again can only bring back objects, not skip them.
  `Walking` says that the scopes on the way to an object that stays are there
  (`SelectAssumption` says so of the store at the start, and a delete takes the scope with all that is below it),
  and `Ended` that an iteration that ends has a full page, has found its one object, or has nothing left to read.
* `EachIsReturned`, for one expression and a store at rest (`Undisturbed`), from `PageInv` on top of these: `EachOnce` as
  a whole.  What the walk has left behind was skipped or returned, one by one (`Counted`), and skipping ends at the
  offset (`Paged`).

`NothingStayingIsMissed` has three hypotheses besides `AllKnown` and the one expression over the store.  `Quiet`: the other thread leaves a scope alone that is about to be read,
which is where the code does miss objects (section 5); the run assumes it too.  `NothingComesBack`: nothing is
declared again that was deleted, for what was away when its scope was read is rightly not returned.  And the select is
not for one object (the mask `self`): such a select returns the one that it finds, which may be deleted before the end, so
that nothing it returned is there any more; without writes it is covered by `EachIsReturned`.

`EachIsReturned` is the one theorem of these with a store at rest: how many results there are behind
an offset is not determined while objects come and go.  `PageCounts` leaves out pages behind an offset with a filter or a type,
because the offset also counts objects that do not match (section 5).

The first, the second and the last state a property of the run; the third and the fourth are the parts
`NeverTwice` and `NothingIsMissed` of `EachOnce`, also under changes.  Mounts
are loaded and filtered in the module with `InOrder`, not with `SelectSeq`, which is defined by a recursion that
the provers cannot use.

### What stays with TLC

* *Liveness* (`CallsReturn`, `ObserveReturns`, `ReplacedIsFreed`, `PostedIsHandled`, `WaitersGoOn`, `SelectEnds`,
  `SubscriberCallsReturn`): it needs fairness, hence ENABLED, which the prover does
  not treat.
* *Recursive definitions* (`PathsAreFound`, `MemoryIsSound`, `ValuesCompare`, `WrittenIsReadBack`,
  `PrimitivesAgree`, `LookupIsNearest`, `VtablesAreSound`): what they compute for every input
  takes an induction over data that the installed provers cannot do, and the
  modules declare RECURSIVE operators.
* *Not proved*: the selects with mounts or several expressions (of these, `ResultsAreAsked` is the only theorem on
  several expressions), the three properties of `ObjectTree`, and the action property `PackagesAreFound` of `Loader`.  They are within reach of the prover but long: the
  first need an invariant on the mounts that were asked and what they mask, and one of `ObjectTree` has to cover each frame of the
  calls that delete inside each other.

## 5. Where the code and its comments disagree

`store_lookup_freed` refutes a comment, and `findings` in `PROJECT.json` quotes it.  More
were met while the models were written.  They explain the preconditions of the
properties, and the setups that the runs leave out.

*Store.*
* A lookup that raced with the last release stores 0 in a count that the destruct has
  incremented (`object.c:3445`): the object is then never freed.  Hence
  `RefcountIsExact` is about programs that quiesce.
* A create whose constructor fails deletes the object that others redeclared, and a
  second `corto_orphan` of one object removes *by name* (`object.c:583`), which can be
  the name of a newer object.  Hence the programs with failing creates are in
  `store_returns`, which checks `DestructedOnce`, and not in the refinement.
* A redeclare that finds its object deleted returns it without a reference
  (`object.c:1458`; the comment at 1451 says that the declare is tried again), after which
  counts are no longer exact.
* When `init` fails the object stays write locked (`object.c:1475`), and a thread
  that waits for it waits forever: `init` does not fail in `store_returns`.
* Two threads that delete the same object can both call the destructor, the second of
  which is fatal (`object.c:2069`, `object.c:959`): the programs have one deleter.
* `corto_update_end` on an object that was deleted since `corto_update_begin` does
  not unlock it (`object.c:3888`).
* An observer of DELETE that declares under the object that is being deleted leaves a child
  behind, since the scope was dropped before (`object.c:2080`; `store.h:225`).
* `corto_drop` releases each child a second time for its place in the scope, also when a callback has
  taken that place: it then gives up a reference of somebody else.
* When a constraint fails, the unknown object that was replaced is lost with its subtree
  (`object.c:556-561`).
* The collector does not find cycles through the parent of a parent (`collect.c:191`;
  `bootstrap.c:1326` says all objects are removed), frees an object whose `cycles` bit is set and claims it
  later (`collect.c:250-262`), and aborts beyond 256 entries in its buffer.

*Observers.*
* Between the read of an array and its registration it can be freed (`observer.c:274`; the
  comment at 162 says that this must be addressed, and the one at 1117 that nobody can have the array): `RegisteredIsAllocated` is about the arrays
  that were registered before they were replaced.
* An unobserve in a callback frees the data of an observer that an array of the outer
  notification still has (`observer.c:1246`).
* Two callbacks that unobserve each other's object wait for each other for ever
  (`observer.c:334`; the comment at 20 says that deadlocks are prevented, which they are
  within one thread).

*Mounts and subscribers.*
* With several publishers a mount queue can pass `queue.max`, after which the
  comparison for equality in the wait loop (`mount.c:726`) lets a stopped publisher
  go on early: `QueueIsBounded` is about one publisher.
* A publisher that is stopped when its mount is destructed never goes on, since
  nobody polls any more: `PublisherGoesOn` excepts it.
* An event in both queues has one reference (`mount.c:576`; the comment at 543 says it
  must have two): the mounts of the run have one.
* `isAligning` is cleared before the queue is flushed (`subscriber.c:947`; the comments at 927
  and 935 say that messages are not delivered before it and end up in the queue): an event that comes then overtakes.  `Converged` and
  `SeenInOrder` are about subscribers that no change reaches in that
  window: the history `raced` has the others.  The same holds for a notification that has read `isAligning` before the
  alignment of a subscriber that registers has set it (`subscriber.c:483`): it delivers past the alignment.
* Only updates are notified with the object locked.  A DEFINE (`object.c:1832`), a DELETE (`object.c:2095`)
  and what `corto_publish` passes on for an object that is not in the store (`object.c:3731-3736`) are notified
  without the lock, so that a DELETE can overtake the UPDATE, or the DEFINE, of another thread: the subscriber gets the DELETE first and
  then the older event, and keeps an object that is gone.  The setups `Direct` and `Dispatched` of `MCSubscribers` have these behaviours;
  `SeenInOrder` orders the changes that did not overlap, and `Converged` is about objects whose last change overlapped with no other.
* A subscriber that unsubscribes, and subscribes again after an object was deleted, is never told that the object is
  gone: an alignment defines what is there and says nothing of the rest (`subscriber.c:937`).
  `SubscribersConverge` is about programs that do not do both.
* The queue of an alignment is written under the mutex and read without it; a replaced event
  and the events of an alignment are not freed; an event that goes to a dispatcher in the
  format of its publisher has its value freed by the publisher.
* A notifier that has the write lock of an object can wait for an aligner that wants to
  read the object; this is not modelled.
* A callback of a mount that subscribes to the mount recurses into the same search
  (`mount.c:1290`; the comment at 1273 says that the placeholder prevents it); unsubscribes read the counts outside of the lock; a
  mount that returns 0 as context is never told of the end; `on_unmount` is not
  called by a destruct.  When two threads subscribe one new query while a subscription of another select has
  the scope, both call `on_subscribe`, and `on_unsubscribe` is called once; a mount with both masks that is subscribed
  at `.` with several selects does not undo the `mountCount` of the subscription that it found (`mount.c:1323`), which
  then stays in the list.  `bootstrap.h:1449` binds `publish` to `corto_mount_unsubscribe`.

*Select.*
* A scope that changes before its first object was read continues behind the name of its
  parent (`select.c:823`; the comment at 818 says behind the
  value that was last iterated): the other thread of the run pauses there (`Quiet`).
* After a hidden result (of a mount, or an unknown object) the next object of the store passes without its match
  (`select.c:376`; the comment at 372 says that it is
  the item that is not filtered): hidden results come behind the store's.
* The claim of an item is dropped when a mount is asked (`select.c:663`), and the segments'
  when the next expression starts: `StoreClaimsAreReturned` is about selects of one
  expression without mounts.
* Of several expressions the later ones run only when the first matched a single object; the second
  mount of a scope is asked at a stale location; the offset counts objects that do not match and is
  given to mounts again; a mount that is a local source of one scope masks objects of a whole
  tree; results of a scope are not matched by type; a single object without a filter that
  does not match loops.  The setups leave these combinations out.

*Types and values.*
* A union does not account for the place of its cases behind the discriminator in every
  alignment; optional members are not counted as resources; the cache ends at a member that
  is an iterator, and `corto_free` ignores maps, values of type any and several kinds of optional and
  sequence members.
* A copy of an empty list into a sequence copies nothing; a list that becomes shorter by a
  copy leaks boxed elements; unions with texts leak; maps are not copied.
* Collections of scalars are compared with `memcmp`, optional members at the wrong
  address, an empty list is greater than one that is NULL.  Hence
  `ValuesCompare` compares types without optional members and collections of scalars only.
* A 16 bit binary is read as a signed number; words with the highest bit set, and an empty bitmask, do
  not read back; operands of the same width and different sign are compared in the
  type of the left one.  The type system lets enumerations and bitmasks be
  cast to and from widths that have no conversion.
* The reader of texts skips a character after a discriminator (`string_deser.c:337`), does not
  escape quotes, keeps old elements of a sequence for `{}`, and leaks a copy of every text.
  `null` and the empty text do not read back as what they are.  The writer numbers an
  anonymous object before its contents and the reader after: `<0>` inside a nested one means
  the outer one.

*Methods.*
* The result of the interface check of a class is that of the last method only (`class.c:32`; the
  comment at 68 says that all of them are validated).
* A declaration that is ambiguous ends in an assertion when it is bound; a function whose `init`
  fails leaves others marked as overloaded; a delegate is bound before it is
  validated; an override is not overridable again; the parameters of delegates are never
  compared.

*Services.*
* The path from one branch to another is not resolved by a lookup (`object.c:3104`; `store.h:1151`
  promises that it is, `src/test/store/src/RelativeName.c:47` pins the text): `PathIsFound` is about objects above
  and below.  A lookup returns unknown objects below a builtin scope.
* A format that fails to load leaks.  A chain that subscribes a mount declares the mount before it
  takes its request out of the thread; `toNow` clears what `fromTime` has set, so that their order matters.
* A mount that iterates its own results and also returns some leaks the list; with
  `filterResults` the iterator is not released when more results follow the match.
* A lookup of a package whose library makes only objects inside it returns the place holder of type unknown that these objects have as
  parent: after the load the loader looks the package up once more without a resume (`loader.c:311-322`; the comment
  at 286 has such a package created from its `project.json`).  `PlaceOnly` in `Loader`; the run has such a package.
* A package of which only a placeholder exists counts as loaded and is never loaded; a
  loader whose construction fails does not give up its count.

## 6. What is not modelled

`ObjectStore`: nested scopes and several names (in `ObjectTree`, for one thread), anonymous
and void objects (void objects are in `ObjectTree`, anonymous ones in `Strings`),
ownership (in `ObjectTree`), the `align` and observable headers (an object without an
observable header has no lock).  `ObjectTree`: several threads, type checks of a
redeclaration.
`ObserverArrays`: requests that are delayed until an observer is aligned, event masks
and dispatchers, `corto__deinitObservable` of an observable with observers (it changes
counts without a lock and leaves the arrays, `object.c:787`), the leaks of
`observer.c:1229` and `1317`; the order of nested frees of lists is left open.  The order in
which observers are added to lists and called, fixed by the code, is any.
`MountQueue`: how long a publisher is delayed, mounts
without a sample rate (`corto_mount_post` then calls the handler itself), the lists
that a mount leaves behind when it is destructed with events in its queues; that a DEFINE is replaced by
an UPDATE (`mount.c:577`) is coalescing like any other.
`SubscriberAlign`: the matching of expressions (a subscriber has a set of keys), the deadlock
between write locks and the alignment, `isAligning` of more than one entity per subscriber, two destructs of one object at once (see *Store* in section 5).
`Select`: mounts below the scope of a tree query, attributes, `instanceof`, content
types, the resume of single objects, actions on mounts, `CORTO_MAX_MOUNTS`.
`Values`: lists of lists, maps, values of type any, lists that shrink, texts in unions (of a case that is left, an optional one that is not set
is a fault when its type can have resources: `corto_ptr_free` then reads through NULL, `copy_ser.c:114`);
comparison of collections of structs.  `Primitives`: fractions, division, the undefined cast of a
negative float to an unsigned type.  `Methods`: metaprocedures, remote calls, signatures of
delegates.  `Resume`: history queries.  `Loader`: packages that are not loaded automatically.

Without a module: *Routers* match patterns in one pass over texts, without state (their match
keeps `maxMatched` at its start value, and takes `maxArgs` from the own scope only).  *Access
control* takes part only when a key is installed.  *Bootstrap* creates the builtin objects from tables.
*Small vstore classes*, *type walks and memory dumps*, *metaprocedures* and types that only set a
field are forwarders.  *Generated bindings* are generated.  `PROJECT.json` has a note for
each.

## 7. What is left

The models stand; what is left is to prove more.  The modules below have no RECURSIVE operator.

1. The properties of `Select` with mounts.
2. `ReferencesAreSound` of `ObjectTree`.
