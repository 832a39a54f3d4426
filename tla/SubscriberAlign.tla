-------------------------- MODULE SubscriberAlign --------------------------
(***************************************************************************)
(* Subscribers as src/vstore/subscriber.c implements them: threads that    *)
(* change objects notify all matching subscribers, while other threads     *)
(* subscribe, which first aligns the subscriber with what is in the store. *)
(* Events that would be delivered during the alignment have to come after  *)
(* it.  Values are serialized once per format, and are shared by a count.  *)
(*                                                                         *)
(* An update is notified while the write lock of the object is held, what  *)
(* defines, deletes or publishes it is not (store/object.c): changes of an *)
(* object can overlap, and an event has a record of those that were over   *)
(* when its change began.  Of the value of an object only a version is     *)
(* modelled.  The admin of subscribers, a container of the platform        *)
(* library, gives each notification the entities that are in it at its     *)
(* start.                                                                  *)
(***************************************************************************)
EXTENDS Integers, Sequences, FiniteSets, SequencesExt

CONSTANTS
    Thread,     \* threads of the program
    Subscriber,
    Instance,   \* instances to subscribe for; some may be sources of threads
    Key,        \* named objects
    Format,     \* content types
    MaxValues   \* bound: serialized values

NoFormat == "none"
NoInstance == "none"
ValueId == 1..MaxValues
Entity == Subscriber \X (Instance \cup {NoInstance})

\* A subscriber: has it a dispatcher, its contentType, the depth of its `from',
\* and the objects which its query (from, select, type) matches.
SubscriberConfig == [dispatcher: BOOLEAN, format: Format \cup {NoFormat}, depth: Nat,
                     keys: SUBSET Key]

\* A program: the subscribers, the objects that each thread changes, or of which
\* it publishes values in a format as long as they are not in the store; its
\* source; the entities it subscribes; and how many calls it makes.
Programs == [sub: [Subscriber -> SubscriberConfig], changes: [Thread -> SUBSET Key],
             publishes: [Thread -> SUBSET Key], format: Format \cup {NoFormat},
             deletes: BOOLEAN, unsubscribes: BOOLEAN,
             source: [Thread -> Instance \cup {NoInstance}],
             subscribes: [Thread -> SUBSET Entity], calls: [Thread -> Nat]]

NoThread == "nobody"

ASSUME SubscriberAssumption ==
    /\ NoFormat \notin Format /\ NoInstance \notin Instance /\ NoThread \notin Thread
    /\ Subscriber # {} /\ Key # {}
    /\ MaxValues \in Nat

VARIABLES
    program,    \* fixed at the start
    version,    \* versions of the objects so far
    bound,      \* the objects that are in the store
    writer,     \* the thread that has the write lock of the object in the store
    alone,      \* history: the objects whose last change began when no other was notified
    registered, \* corto_subscriber_admin: the entities
    isAligning, \* this->isAligning
    holder,     \* the thread that has this->alignMutex
    alignQueue, \* this->alignQueue
    posted,     \* the events that the dispatcher of a subscriber has yet to handle
    seen,       \* history: the event about each object that was handled last
    aligned,    \* history: the subscribers that are subscribed and aligned
    raced,      \* history: the subscribers of which isAligning was read, or is going to be, in
                \* the windows from registering to aligning and from there to the flushed queue
    pc,         \* where each thread is
    event,      \* the change that a thread notifies
    todo,       \* the entities that it has still to notify, or objects to align
    current,    \* the entity that it notifies or aligns
    locked,     \* local variable isAligning of corto_notify_subscribersById
    sync,       \* local variable synchronous of corto_subscriber_invoke
    cache,      \* local variable cache: the value for each format
    mem,        \* of each value
    shared,     \* shared_count of each value, -1 without a counter
    budget,     \* calls that a thread can still make
    fault       \* "none", or what went wrong first

storeVars == <<version, bound, writer, alone>>
adminVars == <<registered, aligned, raced>>
alignVars == <<isAligning, holder, alignQueue>>
localVars == <<event, todo, current, locked, sync, cache>>
valueVars == <<mem, shared>>
subscriberVars == <<program, storeVars, adminVars, alignVars, posted, seen, pc, localVars,
                    valueVars, budget, fault>>

\* An event about an object: its version, the changes whose notification had ended before,
\* whether it is in the store (a DELETE says that it is not), and the serialized value, if any.
NoEvent(k) == [key |-> k, version |-> 0, past |-> {}, exists |-> FALSE, value |-> 0]

SubscriberInit(p) ==
    /\ program = p
    /\ version = [k \in Key |-> 0] /\ bound = {} /\ alone = {}
    /\ writer = [k \in Key |-> NoThread]
    /\ registered = {} /\ aligned = {} /\ raced = {}
    /\ isAligning = [s \in Subscriber |-> FALSE]
    /\ holder = [s \in Subscriber |-> NoThread]
    /\ alignQueue = [s \in Subscriber |-> <<>>]
    /\ posted = [s \in Subscriber |-> <<>>]
    /\ seen = [s \in Subscriber |-> [k \in Key |-> NoEvent(k)]]
    /\ pc = [t \in Thread |-> "idle"]
    /\ event = [t \in Thread |-> NoEvent(CHOOSE k \in Key : TRUE)]
    /\ todo = [t \in Thread |-> {}]
    /\ current = [t \in Thread |-> <<CHOOSE s \in Subscriber : TRUE, NoInstance>>]
    /\ locked = [t \in Thread |-> FALSE] /\ sync = [t \in Thread |-> FALSE]
    /\ cache = [t \in Thread |-> [f \in Format |-> 0]]
    /\ mem = [v \in ValueId |-> "unused"]
    /\ shared = [v \in ValueId |-> -1]
    /\ budget = p.calls
    /\ fault = "none"

Config(s) == program.sub[s]
HasDispatcher(s) == Config(s).dispatcher
Sub(t) == current[t][1]
Goto(t, p, q) == pc[t] = p /\ pc' = [pc EXCEPT ![t] = q]
Fault(what) == fault' = IF fault = "none" THEN what ELSE fault
NoFault == UNCHANGED fault

\* A value that is used is allocated.
Access(v) == IF v # 0 /\ mem[v] = "freed" THEN Fault("use_after_free") ELSE NoFault

(***************************************************************************)
(* corto_fmtcache, fmt_data                                                *)
(***************************************************************************)
FreeValues == {v \in ValueId : mem[v] = "unused"}
NewValue == CHOOSE v \in FreeValues : \A w \in FreeValues : v <= w

\* Mutant: the notification does not count itself.
CountFirstAsOne(v, copy) ==
    IF ~copy THEN shared ELSE [shared EXCEPT ![v] = IF @ = -1 THEN 1 ELSE @ + 1]

\* The count when the value is copied into an event: the first counter also
\* counts the notification.
CountShared(v, copy) ==
    IF ~copy THEN shared ELSE [shared EXCEPT ![v] = IF @ = -1 THEN 2 ELSE @ + 1]

\* corto_fmtcache_serialize: the value in the format of the subscriber, which is
\* made when no subscriber has asked for it.  Without a format it is the object.
Serialize(t, f, copy) ==
    IF f = NoFormat THEN /\ event' = [event EXCEPT ![t].value = 0]
                         /\ UNCHANGED <<cache, mem, shared>>
    ELSE LET v == IF cache[t][f] # 0 THEN cache[t][f] ELSE NewValue
         IN /\ cache[t][f] = 0 => FreeValues # {}
            /\ event' = [event EXCEPT ![t].value = v]
            /\ cache' = [cache EXCEPT ![t][f] = v]
            /\ mem' = IF cache[t][f] = 0 THEN [mem EXCEPT ![v] = "live"] ELSE mem
            /\ shared' = CountShared(v, copy)

\* corto_fmt_data_deinit for each of the values vs: the last user frees it.
Drop(vs) ==
    /\ shared' = [v \in ValueId |-> IF v \in vs /\ shared[v] > 0 THEN shared[v] - 1 ELSE shared[v]]
    /\ mem' = [v \in ValueId |-> IF v \in vs /\ shared[v] \in {-1, 1} THEN "freed" ELSE mem[v]]
    /\ IF \E v \in vs : mem[v] = "borrowed" /\ shared[v] \in {-1, 1}
       THEN Fault("publisher's value freed")
       ELSE IF \E v \in vs : mem[v] = "freed" THEN Fault("freed twice")
       ELSE NoFault

(***************************************************************************)
(* corto_notify_subscribersById                                            *)
(***************************************************************************)
\* The threads that notify, and those in the windows in which isAligning is not to be relied on.
Notifying == {t \in Thread : pc[t] \in {"walk", "lock", "invoke", "deliver"}}
Enrolling == {t \in Thread : pc[t] \in {"align", "flush"}}

\* The changes of an object that are notified, and those whose notification has ended.
Underway(k) == {t \in Notifying : event[t].key = k}
Ended(k) == {v \in 1..version[k] : \A t \in Underway(k) : event[t].version # v}

\* Who is notified of key k by thread t: the query matches, and the instance is
\* not the source of the notification.
Notified(t, k) == {e \in registered :
    /\ k \in Config(e[1]).keys
    /\ e[2] = NoInstance \/ e[2] # program.source[t]}

\* The values that the cache starts with: that of the publisher, which owns it.
Change(t, k, exists, f) ==
    /\ budget[t] > 0 /\ budget' = [budget EXCEPT ![t] = @ - 1]
    /\ Goto(t, "idle", "walk")
    /\ version' = [version EXCEPT ![k] = @ + 1]
    /\ event' = [event EXCEPT ![t] = [key |-> k, version |-> version[k] + 1, past |-> Ended(k),
                                      exists |-> exists, value |-> 0]]
    /\ alone' = IF Underway(k) = {} THEN alone \cup {k} ELSE alone \ {k}
    /\ raced' = raced \cup {Sub(u) : u \in Enrolling}
    /\ todo' = [todo EXCEPT ![t] = Notified(t, k)]
    /\ IF f = NoFormat
       THEN /\ cache' = [cache EXCEPT ![t] = [g \in Format |-> 0]]
            /\ UNCHANGED mem
       ELSE /\ FreeValues # {}
            /\ cache' = [cache EXCEPT ![t] = [g \in Format |-> IF g = f THEN NewValue ELSE 0]]
            /\ mem' = [mem EXCEPT ![NewValue] = "borrowed"]
    /\ UNCHANGED <<program, registered, aligned, alignVars, posted, seen, current, locked, sync,
                   shared, fault>>

\* corto_define: a new object is in the store before its DEFINE is notified, without its lock.
Define(t, k) ==
    /\ k \in program.changes[t] \ bound
    /\ Change(t, k, TRUE, NoFormat)
    /\ bound' = bound \cup {k} /\ UNCHANGED writer

\* corto_update, also of an object that is being defined or deleted by another thread.
Update(t, k) ==
    /\ k \in program.changes[t] \cap bound
    /\ writer[k] = NoThread /\ writer' = [writer EXCEPT ![k] = t]
    /\ Change(t, k, TRUE, NoFormat)
    /\ UNCHANGED bound

\* corto_delete of an object that is not being deleted; it leaves the store after the
\* notification, for which the lock is not taken.
Delete(t, k) ==
    /\ k \in program.changes[t] \cap bound /\ program.deletes
    /\ \A u \in Underway(k) : event[u].exists
    /\ Change(t, k, FALSE, NoFormat)
    /\ UNCHANGED <<bound, writer>>

\* corto_publish of a value for an object that is not in the store.
Publish(t, k) ==
    /\ k \in program.publishes[t] \ bound
    /\ Change(t, k, TRUE, program.format)
    /\ UNCHANGED <<bound, writer>>

\* Subscribers are notified from the depth of the object up to the root.
Deepest(es) == {e \in es : \A f \in es : Config(f[1]).depth <= Config(e[1]).depth}

\* The next subscriber; isAligning is read without the mutex.
Walk(t) ==
    /\ pc[t] = "walk"
    /\ \E e \in Deepest(todo[t]) :
        /\ Goto(t, "walk", IF isAligning[e[1]] THEN "lock" ELSE "invoke")
        /\ current' = [current EXCEPT ![t] = e]
        /\ todo' = [todo EXCEPT ![t] = @ \ {e}]
        /\ locked' = [locked EXCEPT ![t] = isAligning[e[1]]]
        /\ UNCHANGED <<program, storeVars, adminVars, alignVars, posted, seen, event, sync,
                       cache, valueVars, budget, fault>>

LockAlign(t) ==
    /\ Goto(t, "lock", "invoke")
    /\ holder[Sub(t)] = NoThread
    /\ holder' = [holder EXCEPT ![Sub(t)] = t]
    /\ UNCHANGED <<program, storeVars, adminVars, isAligning, alignQueue, posted, seen,
                   localVars, valueVars, budget, fault>>

\* Mutant: the mutex is not unlocked.
KeepMutex(t) == UNCHANGED holder

Unlock(t) == holder' = [holder EXCEPT ![Sub(t)] = IF locked[t] THEN NoThread ELSE @]

\* The end of the notification: the lock is released, and a new object has one of its own;
\* the values are given up, except that of the publisher when no event shares it.
NotifyEnd(t) ==
    /\ todo[t] = {}
    /\ Goto(t, "walk", "idle")
    /\ bound' = IF event[t].exists THEN bound ELSE bound \ {event[t].key}
    /\ writer' = [writer EXCEPT ![event[t].key] = IF @ = t \/ ~event[t].exists THEN NoThread ELSE @]
    /\ Drop({cache[t][f] : f \in Format} \
              ({0} \cup {v \in ValueId : mem[v] = "borrowed" /\ shared[v] = -1}))
    /\ UNCHANGED <<program, version, alone, adminVars, alignVars, posted, seen, localVars, budget>>

(***************************************************************************)
(* corto_subscriber_invoke                                                 *)
(***************************************************************************)
\* Whether to deliver synchronously: isAligning is read again.
Invoke(t) ==
    /\ Goto(t, "invoke", "deliver")
    /\ LET s == Sub(t)
           synchronous == ~HasDispatcher(s) /\ ~isAligning[s]
       IN /\ sync' = [sync EXCEPT ![t] = synchronous]
          /\ Serialize(t, Config(s).format, ~synchronous)
    /\ UNCHANGED <<program, storeVars, adminVars, alignVars, posted, seen, todo, current,
                   locked, budget, fault>>

SameKey(q, ev) == {i \in DOMAIN q : q[i].key = ev.key}

\* corto_subscriber_addToAlignQueue: an event replaces one about the same object.
AddToAlignQueue(q, ev) ==
    IF SameKey(q, ev) = {} THEN Append(q, ev)
    ELSE [i \in DOMAIN q |-> IF i \in SameKey(q, ev) THEN ev ELSE q[i]]

\* The callback of the subscriber is called with the event.
Callback(s, ev) == seen' = [seen EXCEPT ![s][ev.key] = ev]

\* Synchronously: the callback.  Otherwise to the align queue or the dispatcher,
\* for which isAligning is read a third time.
Deliver(t) ==
    LET s == Sub(t)
        ev == event[t]
    IN /\ Goto(t, "deliver", "walk")
       /\ IF sync[t]
          THEN /\ Callback(s, ev)
               /\ Access(ev.value)
               /\ UNCHANGED <<alignQueue, posted>>
          ELSE IF isAligning[s]
          THEN /\ alignQueue' = [alignQueue EXCEPT ![s] = AddToAlignQueue(@, ev)]
               /\ IF holder[s] # t THEN Fault("list changed by two threads") ELSE NoFault
               /\ UNCHANGED <<seen, posted>>
          ELSE /\ posted' = [posted EXCEPT ![s] = Append(@, ev)]
               /\ IF HasDispatcher(s) THEN NoFault ELSE Fault("no dispatcher")
               /\ UNCHANGED <<seen, alignQueue>>
       /\ Unlock(t)
       /\ UNCHANGED <<program, storeVars, adminVars, isAligning, localVars, valueVars, budget>>

\* corto_subscriber_event_handle in a thread of the dispatcher, and the deinit of
\* the event that follows.
HandleEvent(s) ==
    /\ posted[s] # <<>>
    /\ Callback(s, Head(posted[s]))
    /\ posted' = [posted EXCEPT ![s] = Tail(@)]
    /\ Drop({Head(posted[s]).value} \ {0})
    /\ UNCHANGED <<program, storeVars, adminVars, alignVars, pc, localVars, budget>>

(***************************************************************************)
(* corto_subscriber_subscribe                                              *)
(***************************************************************************)
\* The entity is added to the admin before the alignment.
Subscribe(t, e) ==
    /\ e \in program.subscribes[t] \ registered
    /\ budget[t] > 0 /\ budget' = [budget EXCEPT ![t] = @ - 1]
    /\ Goto(t, "idle", "align")
    /\ registered' = registered \cup {e}
    /\ raced' = IF Notifying = {} THEN raced ELSE raced \cup {e[1]}
    /\ current' = [current EXCEPT ![t] = e]
    /\ UNCHANGED <<program, storeVars, aligned, alignVars, posted, seen, event, todo, locked,
                   sync, cache, valueVars, fault>>

\* The mutex is taken; next the mounts are told, see Subscribers.
AlignBegin(t) ==
    LET s == Sub(t) IN
    /\ Goto(t, "align", "mounts")
    /\ holder[s] = NoThread
    /\ holder' = [holder EXCEPT ![s] = t]
    /\ isAligning' = [isAligning EXCEPT ![s] = TRUE]
    /\ todo' = [todo EXCEPT ![t] = Config(s).keys]
    /\ locked' = [locked EXCEPT ![t] = TRUE]
    /\ UNCHANGED <<program, storeVars, adminVars, alignQueue, posted, seen, event, current,
                   sync, cache, valueVars, budget, fault>>

\* The object as it is, after all the changes whose notification has ended.
Selected(k) == [NoEvent(k) EXCEPT !.version = version[k], !.past = Ended(k) \ {version[k]},
                                  !.exists = TRUE]

\* The select returns an object, when it is in the store by then: a DEFINE is
\* put in the align queue, with a value of its own that is not shared.
AlignObject(t) ==
    LET s == Sub(t) IN
    /\ pc[t] = "aligning" /\ UNCHANGED pc
    /\ \E k \in todo[t] :
          /\ todo' = [todo EXCEPT ![t] = @ \ {k}]
          /\ alignQueue' = [alignQueue EXCEPT ![s] =
                IF k \notin bound THEN @
                ELSE AddToAlignQueue(@, Selected(k))]
    /\ UNCHANGED <<program, storeVars, adminVars, isAligning, holder, posted, seen, event,
                   current, locked, sync, cache, valueVars, budget, fault>>

\* A thread that is about to take the mutex of a subscriber.
WaitsFor(u, s) == pc[u] = "lock" /\ Sub(u) = s

\* Mutant: the mutex is unlocked before the queue is flushed.
AlignEndUnlocks(t) ==
    /\ todo[t] = {}
    /\ Goto(t, "aligning", "flush")
    /\ isAligning' = [isAligning EXCEPT ![Sub(t)] = FALSE]
    /\ holder' = [holder EXCEPT ![Sub(t)] = NoThread]
    /\ UNCHANGED <<program, storeVars, adminVars, alignQueue, posted, seen, localVars,
                   valueVars, budget, fault>>

\* Notifications that have still to come to the subscriber do not wait for the mutex.
AlignEnd(t) ==
    /\ todo[t] = {}
    /\ Goto(t, "aligning", "flush")
    /\ isAligning' = [isAligning EXCEPT ![Sub(t)] = FALSE]
    /\ raced' = IF \A u \in Notifying : WaitsFor(u, Sub(t)) \/ \A e \in todo[u] : e[1] # Sub(t)
                THEN raced ELSE raced \cup {Sub(t)}
    /\ UNCHANGED <<program, storeVars, registered, aligned, holder, alignQueue, posted, seen, localVars,
                   valueVars, budget, fault>>

\* Mutant: the last event is not flushed.
MustFlushMore(t) == pc[t] = "flush" /\ Len(alignQueue[Sub(t)]) > 1

\* There is an event to flush.
MustFlush(t) == pc[t] = "flush" /\ alignQueue[Sub(t)] # <<>>

\* corto_subscriber_flushAlignQueue: the first event is delivered, synchronously
\* when there is no dispatcher.
Flush(t) ==
    LET s == Sub(t)
        ev == Head(alignQueue[s])
    IN /\ MustFlush(t) /\ UNCHANGED pc
       /\ alignQueue' = [alignQueue EXCEPT ![s] = Tail(@)]
       /\ IF HasDispatcher(s)
          THEN /\ posted' = [posted EXCEPT ![s] = Append(@, ev)]
               /\ UNCHANGED <<seen, valueVars, fault>>
          ELSE /\ Callback(s, ev)
               /\ Drop({ev.value} \ {0})
               /\ UNCHANGED posted
       /\ UNCHANGED <<program, storeVars, adminVars, isAligning, holder, localVars, budget>>

FlushEnd(t) ==
    /\ ~MustFlush(t)
    /\ Goto(t, "flush", "idle")
    /\ Unlock(t)
    /\ aligned' = aligned \cup {Sub(t)}
    /\ UNCHANGED <<program, storeVars, registered, raced, isAligning, alignQueue, posted, seen,
                   localVars, valueVars, budget, fault>>

(***************************************************************************)
(* corto_subscriber_unsubscribe; the mounts are told next.                 *)
(***************************************************************************)
Unsubscribe(t, e) ==
    /\ e \in program.subscribes[t] \cap registered /\ program.unsubscribes
    /\ budget[t] > 0 /\ budget' = [budget EXCEPT ![t] = @ - 1]
    /\ \A u \in Thread : pc[u] \in {"align", "mounts", "aligning", "flush"} => current[u] # e
    /\ Goto(t, "idle", "unsubscribe")
    /\ registered' = registered \ {e}
    /\ aligned' = IF \E f \in registered' : f[1] = e[1] THEN aligned ELSE aligned \ {e[1]}
    /\ current' = [current EXCEPT ![t] = e]
    /\ UNCHANGED <<program, storeVars, raced, alignVars, posted, seen, event, todo, locked, sync,
                   cache, valueVars, fault>>

StartCall(t) ==
    \/ \E k \in Key : Define(t, k) \/ Update(t, k) \/ Delete(t, k) \/ Publish(t, k)
    \/ \E e \in Entity : Subscribe(t, e) \/ Unsubscribe(t, e)

SubscriberGoOn(t) ==
    \/ Walk(t) \/ LockAlign(t) \/ Invoke(t) \/ Deliver(t) \/ NotifyEnd(t)
    \/ AlignBegin(t) \/ AlignObject(t) \/ AlignEnd(t) \/ Flush(t) \/ FlushEnd(t)

(***************************************************************************)
(* Properties                                                              *)
(***************************************************************************)
Resting == \A t \in Thread : pc[t] = "idle"

\* When nothing is under way, a subscriber that is aligned has handled last, for each object
\* that its query matches and whose last change overlapped with no other, an event with the
\* present version if the object is in the store, and a DELETE or nothing if it is not.
Converged ==
    fault = "none" /\ Resting =>
        \A s \in aligned \ raced : \A k \in Config(s).keys :
            /\ alignQueue[s] = <<>>
            /\ posted[s] = <<>> /\ k \in alone /\ (\E t \in Thread : k \in program.changes[t]) =>
                  /\ seen[s][k].exists = (k \in bound)
                  /\ k \in bound => seen[s][k].version = version[k]

\* The notification of change a had ended when change b began.
Before(a, b) == a.version \in b.past

SeenNewer == \A s \in Subscriber \ raced : \A k \in Key :
    seen'[s][k] # seen[s][k] => ~Before(seen'[s][k], seen[s][k])

\* No event about an object is handled after one of a change that began when its own notification
\* had ended, also when the alignment comes in between: only changes that overlapped, which
\* two updates do not, can be seen in either order.
SeenInOrder == [][SeenNewer]_seen

\* The events of a queue of each subscriber that have value v.
InQueue(kind, queue, v) ==
    UNION {{<<kind, s, i>> : i \in {j \in DOMAIN queue[s] : queue[s][j].value = v}} : s \in Subscriber}

\* Who may still use a value: a notification that has it in its cache, and the events that
\* share it, one that is about to be delivered and those that were not handled.
Users(v) ==
    {<<"cache", t, 0>> : t \in {u \in Notifying : \E f \in Format : cache[u][f] = v}}
    \cup {<<"event", t, 0>> : t \in {u \in Thread : pc[u] = "deliver" /\ ~sync[u] /\ event[u].value = v}}
    \cup InQueue("queued", alignQueue, v) \cup InQueue("posted", posted, v)

\* The count of a shared value is exact: a value that somebody uses is not freed,
\* it is freed when the last one is done with it, and only once.
SharedIsExact ==
    fault = "none" => \A v \in ValueId :
        /\ shared[v] >= 0 => shared[v] = Cardinality(Users(v))
        /\ mem[v] = "live" <=> Users(v) # {} /\ mem[v] # "borrowed"
=============================================================================
