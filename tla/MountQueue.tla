----------------------------- MODULE MountQueue -----------------------------
(***************************************************************************)
(* The event queues of a mount with a sampleRate, as src/vstore/mount.c    *)
(* implements them: threads that notify post events (corto_mount_post),    *)
(* one thread of the mount polls (corto_mount_thread, corto_mount_onPoll), *)
(* and the mount may be destructed (corto_mount_destruct).                 *)
(*                                                                         *)
(* The sections under the lock of the mount are one step each.  An event   *)
(* is one event object; the events are numbered in the order in which      *)
(* corto_mount_post has the lock.  Of the throttling only whether a        *)
(* publisher stops until the queues are polled is modelled, not the delays *)
(* that spread the posts over a period.                                    *)
(***************************************************************************)
EXTENDS Integers, Sequences, FiniteSets, SequencesExt

CONSTANTS
    Publisher,  \* threads that notify
    Poller,     \* the thread of the mount
    Key,        \* the objects that the events are about
    MaxEvents,  \* bound: events in all
    Setup       \* the mounts and their publishers, see Setups

Thread == Publisher \cup {Poller}
Event == 1..MaxEvents

\* A mount: the bits of policy.mask that matter to the queues, policy.queue.max
\* (0 when it is not set), how many events each thread causes (a bound), and
\* whether the mount may be destructed.
Setups == [mask: (SUBSET {"notify", "batch", "history"}) \ {{}}, max: Nat,
           posts: [Thread -> Nat], destructs: BOOLEAN]

ASSUME MountAssumption ==
    /\ Poller \notin Publisher
    /\ MaxEvents \in Nat
    /\ Setup \subseteq Setups

VARIABLES
    setup,      \* the mount and its publishers, fixed at the start
    events,     \* this->events
    historical, \* this->historicalEvents
    quit,       \* this->quit
    gone,       \* corto_mount_destruct is past the join of the thread
    last,       \* the event that was posted last
    key,        \* the objects that the events so far are about
    refcount,   \* the reference count of an event object, 0 once it is freed
    pc,         \* where each thread is
    polled,     \* this->lastPoll has changed since corto_mount_post read it
    batch,      \* local variable `events' of corto_mount_onPoll
    history,    \* local variable `historicalEvents' of corto_mount_onPoll
    handled,    \* history: the events given to corto_mount_notify
    recorded,   \* history: the events given to on_history_batch_notify
    budget,     \* the events that a thread can still cause
    fault       \* "none", or what went wrong first

queues == <<events, historical>>
polling == <<batch, history>>
ghosts == <<handled, recorded>>
vars == <<setup, queues, quit, gone, last, key, refcount, pc, polled, polling, ghosts,
          budget, fault>>

Mask == setup.mask
QueueMax == setup.max

Init ==
    /\ setup \in Setup
    /\ events = <<>> /\ historical = <<>>
    /\ quit = FALSE /\ gone = FALSE
    /\ last = 0
    /\ key = <<>>
    /\ refcount = [e \in Event |-> 0]
    /\ pc = [t \in Thread |-> IF t = Poller THEN "check" ELSE "idle"]
    /\ polled = [t \in Thread |-> FALSE]
    /\ batch = <<>> /\ history = <<>>
    /\ handled = <<>> /\ recorded = <<>>
    /\ budget = setup.posts
    /\ fault = "none"

Goto(t, p, q) == pc[t] = p /\ pc' = [pc EXCEPT ![t] = q]

\* Events are used that are still allocated.
Access(es) == fault' = IF \A e \in es : refcount[e] > 0 THEN fault ELSE "use_after_free"

(***************************************************************************)
(* corto_mount_post                                                        *)
(***************************************************************************)
Historical == "history" \in Mask
Coalesced == Mask \cap {"notify", "batch"} # {}

\* Mutant: events about other objects are replaced as well.
AnyEvent(k) == DOMAIN events

\* corto_mount_findEvent: the queued events about the same object.
SameObject(k) == {i \in DOMAIN events : key[events[i]] = k}

\* Mutant: the latest event is put in front.
EnqueueFirst(e, k) == [queue |-> <<e>> \o events, released |-> {}]

\* An event for an object that is in the queue is replaced by the latest one,
\* and released.
Enqueue(e, k) ==
    IF SameObject(k) = {} THEN [queue |-> Append(events, e), released |-> {}]
    ELSE [queue |-> [i \in DOMAIN events |-> IF i \in SameObject(k) THEN e ELSE events[i]],
          released |-> {events[i] : i \in SameObject(k)}]

\* Every event is kept in the historical queue.
Recorded(e, k) == Append(historical, e)

\* collectCount
CollectCount == LET n == QueueMax \div 10 IN IF n < 2 THEN 2 ELSE IF n > 10 THEN 10 ELSE n

\* Where the code of a thread goes on after it caused an event.
AfterPost(t) == IF t = Poller THEN "callback" ELSE "idle"

\* What follows an append that made the queue n events long.  A publisher that
\* finds that the poll is late stops until it took place.
Throttle(t, n) ==
    IF QueueMax = 0 THEN {AfterPost(t)}
    ELSE IF n > CollectCount /\ n < QueueMax THEN {AfterPost(t), "late"}
    ELSE IF n = QueueMax THEN {"full"}
    ELSE {AfterPost(t)}

\* The size that corto_mount_post looks at.
Size == IF Historical THEN Len(historical) ELSE Len(events)

\* A publisher posts, or a callback of the mount causes an event for the mount.
\* The event has a second reference when it was appended to both queues.
Post(t, k) ==
    /\ ~gone
    /\ budget[t] > 0 /\ last < MaxEvents
    /\ budget' = [budget EXCEPT ![t] = @ - 1]
    /\ LET e == last + 1
           added == Coalesced /\ SameObject(k) = {}
           released == IF Coalesced THEN Enqueue(e, k).released ELSE {}
       IN /\ last' = e
          /\ key' = Append(key, k)
          /\ historical' = IF Historical THEN Recorded(e, k) ELSE historical
          /\ events' = IF Coalesced THEN Enqueue(e, k).queue ELSE events
          /\ refcount' = [f \in Event |->
                CASE f = e -> IF Historical /\ added THEN 2 ELSE 1
                  [] f \in released -> refcount[f] - 1
                  [] OTHER -> refcount[f]]
          /\ Access(released)
    /\ \E q \in Throttle(t, IF Historical THEN Len(historical') ELSE Len(events')) :
          Goto(t, AfterPost(t), q)
    /\ polled' = [polled EXCEPT ![t] = FALSE]
    /\ UNCHANGED <<quit, gone, polling, ghosts>>

\* The publisher waits for the next poll.
PollWasLate(t) ==
    /\ polled[t]
    /\ Goto(t, "late", AfterPost(t))
    /\ UNCHANGED <<queues, quit, gone, last, key, refcount, polled, polling, ghosts,
                   budget, fault>>

\* The queue has reached its maximum: the publisher looks until it has not.
QueueNotFull(t) ==
    /\ Size # QueueMax
    /\ Goto(t, "full", AfterPost(t))
    /\ UNCHANGED <<queues, quit, gone, last, key, refcount, polled, polling, ghosts,
                   budget, fault>>

(***************************************************************************)
(* corto_mount_thread and corto_mount_onPoll                               *)
(***************************************************************************)
CheckQuit ==
    /\ Goto(Poller, "check", IF quit THEN "stopped" ELSE "poll")
    /\ UNCHANGED <<queues, quit, gone, last, key, refcount, polled, polling, ghosts,
                   budget, fault>>

\* Mutant: lastPoll is not updated.
PollUntimed ==
    /\ Goto(Poller, "poll", "batch")
    /\ batch' = events /\ events' = <<>>
    /\ history' = historical /\ historical' = <<>>
    /\ UNCHANGED <<quit, gone, last, key, refcount, polled, ghosts, budget, fault>>

Poll ==
    /\ Goto(Poller, "poll", "batch")
    /\ polled' = [t \in Thread |-> TRUE]
    /\ batch' = events /\ events' = <<>>
    /\ history' = historical /\ historical' = <<>>
    /\ UNCHANGED <<quit, gone, last, key, refcount, ghosts, budget, fault>>

\* on_batch_notify is given the events.
BatchNotify ==
    /\ Goto(Poller, "batch", "history")
    /\ IF "batch" \in Mask THEN Access(ToSet(batch)) ELSE UNCHANGED fault
    /\ UNCHANGED <<queues, quit, gone, last, key, refcount, polled, polling,
                   ghosts, budget>>

\* Mutant: the historical events are not released.
HistoryKept ==
    /\ Goto(Poller, "history", "handle")
    /\ Access(ToSet(history))
    /\ recorded' = recorded \o history
    /\ history' = <<>>
    /\ UNCHANGED <<queues, quit, gone, last, key, refcount, polled, batch, handled,
                   budget>>

\* on_history_batch_notify is given the historical events, which are released.
HistoryBatchNotify ==
    /\ Goto(Poller, "history", "handle")
    /\ Access(ToSet(history))
    /\ recorded' = recorded \o history
    /\ refcount' = [e \in Event |->
                       IF e \in ToSet(history) THEN refcount[e] - 1 ELSE refcount[e]]
    /\ history' = <<>>
    /\ UNCHANGED <<queues, quit, gone, last, key, polled, batch, handled, budget>>

\* corto_mount_notify, which may call on_notify, on_mount and on_unmount.
Handle ==
    /\ batch # <<>>
    /\ Goto(Poller, "handle", "callback")
    /\ Access({Head(batch)})
    /\ handled' = Append(handled, Head(batch))
    /\ UNCHANGED <<queues, quit, gone, last, key, refcount, polled, polling,
                   recorded, budget>>

\* The event is released; if it is not the last reference the process aborts.
Handled ==
    /\ Goto(Poller, "callback", "handle")
    /\ fault' = IF refcount[Head(batch)] = 1 THEN fault ELSE "event_is_leaking"
    /\ refcount' = [refcount EXCEPT ![Head(batch)] = @ - 1]
    /\ batch' = Tail(batch)
    /\ UNCHANGED <<queues, quit, gone, last, key, polled, history, ghosts, budget>>

\* Mutant: only the first event is handled.
PollDoneEarly ==
    /\ Goto(Poller, "handle", "check")
    /\ UNCHANGED <<queues, quit, gone, last, key, refcount, polled, polling, ghosts,
                   budget, fault>>

\* The poll is done: the thread sleeps for the rest of the period.
PollDone ==
    /\ batch = <<>>
    /\ Goto(Poller, "handle", "check")
    /\ UNCHANGED <<queues, quit, gone, last, key, refcount, polled, polling, ghosts,
                   budget, fault>>

(***************************************************************************)
(* corto_mount_destruct                                                    *)
(***************************************************************************)
Quit ==
    /\ setup.destructs
    /\ ~quit
    /\ quit' = TRUE
    /\ UNCHANGED <<queues, gone, last, key, refcount, pc, polled, polling, ghosts,
                   budget, fault>>

\* corto_thread_join returned, and the subscriber is destructed.
Join ==
    /\ quit /\ ~gone
    /\ pc[Poller] = "stopped"
    /\ gone' = TRUE
    /\ UNCHANGED <<queues, quit, last, key, refcount, pc, polled, polling, ghosts,
                   budget, fault>>

(***************************************************************************)
(* The specification                                                       *)
(***************************************************************************)
PollStep ==
    \/ CheckQuit \/ Poll \/ BatchNotify \/ HistoryBatchNotify
    \/ Handle \/ Handled \/ PollDone

Unblock(t) == PollWasLate(t) \/ QueueNotFull(t)

\* Nothing happens after an undefined step, and the mount keeps its setup.
GoOn == fault = "none" /\ UNCHANGED setup

Next == /\ GoOn
        /\ \/ \E t \in Thread : (\E k \in Key : Post(t, k)) \/ Unblock(t)
           \/ PollStep \/ Quit \/ Join

Spec == Init /\ [][Next]_vars

\* The thread of the mount runs, its callbacks return, a blocked publisher
\* sees that it can go on, and a destruct that was started is completed.
FairSpec ==
    /\ Spec
    /\ WF_vars(GoOn /\ PollStep)
    /\ \A t \in Thread : WF_vars(GoOn /\ Unblock(t))
    /\ WF_vars(GoOn /\ Join)

(***************************************************************************)
(* Type invariant                                                          *)
(***************************************************************************)
Place == {"idle", "late", "full", "check", "poll", "batch", "history", "handle",
          "callback", "stopped"}

Typed ==
    /\ setup \in Setup
    /\ events \in Seq(Event) /\ historical \in Seq(Event)
    /\ quit \in BOOLEAN /\ gone \in BOOLEAN
    /\ last \in 0..MaxEvents
    /\ key \in Seq(Key)
    /\ refcount \in [Event -> Int]
    /\ pc \in [Thread -> Place]
    /\ polled \in [Thread -> BOOLEAN]
    /\ batch \in Seq(Event) /\ history \in Seq(Event)
    /\ handled \in Seq(Event) /\ recorded \in Seq(Event)
    /\ budget \in [Thread -> Nat]
    /\ fault \in {"none", "use_after_free", "event_is_leaking"}

\* What the thread of the mount has in each place.
WellFormed ==
    /\ Len(key) = last
    /\ \A t \in Publisher : pc[t] \in {"idle", "late", "full"}
    /\ pc[Poller] # "idle"
    /\ pc[Poller] = "callback" => batch # <<>>
    /\ pc[Poller] \in {"check", "poll", "stopped"} => batch = <<>> /\ history = <<>>
    /\ gone => quit /\ pc[Poller] = "stopped"

TypeOK == Typed /\ WellFormed

(***************************************************************************)
(* Properties                                                              *)
(***************************************************************************)
\* How often an event is in a queue, or in a list of the poll under way.
Copies(e) ==
    LET all == events \o historical \o batch \o history
    IN Cardinality({i \in DOMAIN all : all[i] = e})

\* An event has one reference for each queue that it is in: an event that was
\* replaced or handled is freed, and no other one is.
RefcountIsExact == \A e \in Event : e <= last => refcount[e] = Copies(e)

\* The mount is not given an older event of an object after a newer one.
HandledInOrder ==
    \A i, j \in DOMAIN handled :
        i < j /\ key[handled[i]] = key[handled[j]] => handled[i] < handled[j]

\* The latest event of an object is not lost: it was handled, or it will be.
LatestIsKept ==
    Coalesced => \A e \in 1..last :
        (\A f \in 1..last : key[f] = key[e] => f <= e)
            => e \in ToSet(events) \cup ToSet(batch) \cup ToSet(handled)

\* The history of a mount is complete and in order, whatever objects it is of.
HistoryIsComplete ==
    Historical => recorded \o history \o historical = [e \in 1..last |-> e]

\* No event is lost: the latest of each object, or all of them, reach the mount.
NothingIsLost == LatestIsKept /\ HistoryIsComplete

\* With one publisher the queue does not outgrow queue.max.
QueueIsBounded ==
    QueueMax > 0 /\ (\E t \in Thread : \A u \in Thread \ {t} : setup.posts[u] = 0)
        => Len(events) <= QueueMax /\ Len(historical) <= QueueMax

\* The queues hold what they should: each event as often as it is referred to,
\* and no more of them than a single publisher may have waiting.
QueueIsSound == TypeOK /\ RefcountIsExact /\ QueueIsBounded

\* A publisher that is stopped goes on, unless the mount is destructed.
PublisherGoesOn ==
    \A t \in Publisher : pc[t] \in {"late", "full"} ~> pc[t] = "idle" \/ quit

\* An event is handled, or replaced by a newer one, or the mount is destructed.
PostedIsHandled ==
    \A e \in Event :
        (Coalesced /\ e <= last) ~> \/ e \in ToSet(handled) \/ quit
                                   \/ \E f \in e + 1 .. last : key[f] = key[e]

\* A destruct of the mount returns.
DestructReturns == quit ~> gone

\* Nobody waits for ever: neither a publisher for the mount nor the thread that
\* destructs the mount for the thread that polls it.
WaitersGoOn == PublisherGoesOn /\ DestructReturns

=============================================================================
