-------------------------- MODULE MountQueue_proofs --------------------------
(***************************************************************************)
(* Proofs about MountQueue, for any number of publishers, objects, events  *)
(* and mounts: type correctness; the events of an object are handled in    *)
(* order; none is lost; and the queues are bounded for one publisher.  For *)
(* the mounts that have one queue the reference counts are exact.          *)
(***************************************************************************)
EXTENDS MountQueue, SequenceTheorems, FiniteSetTheorems, TLAPS

(***************************************************************************)
(* The inductive invariant                                                 *)
(***************************************************************************)
\* The mount is in a callback, for the first event of the batch.
InCallback == pc[Poller] \in {"callback", "late", "full"}

\* What a poll under way has.
PollOK ==
    /\ InCallback => batch # <<>>
    /\ InCallback \/ pc[Poller] = "handle" => history = <<>>

TypeInv == TypeOK /\ PollOK

\* The queues that the mount does not have are empty.
QueuesOfMount ==
    /\ ~Coalesced => events = <<>> /\ batch = <<>> /\ handled = <<>>
    /\ ~Historical => historical = <<>> /\ history = <<>>

\* Only events that were posted are in a list.
Posted(s) == \A i \in DOMAIN s : s[i] <= last

\* No two events of a list are about the same object.
DistinctKeys(s) == \A i, j \in DOMAIN s : key[s[i]] = key[s[j]] => i = j

\* The events of an object in one list are older than those in another.
Older(s, r) == \A i \in DOMAIN s, j \in DOMAIN r : key[s[i]] = key[r[j]] => s[i] < r[j]

\* The events of the batch that the mount was not given yet are newer than
\* those that it was given.
NewerInBatch ==
    \A i \in DOMAIN handled, j \in DOMAIN batch :
        key[handled[i]] = key[batch[j]] /\ (j = 1 => ~InCallback)
            => handled[i] < batch[j]

OrderInv ==
    /\ Posted(events) /\ Posted(batch) /\ Posted(handled)
    /\ DistinctKeys(events) /\ DistinctKeys(batch)
    /\ Older(batch, events) /\ Older(handled, events) /\ NewerInBatch
    /\ HandledInOrder
    /\ InCallback => \E i \in DOMAIN handled : handled[i] = batch[1]

\* An event that is in no list of the mount was replaced.
KeptInv == OrderInv /\ LatestIsKept

\* The mount has one of the two queues.
OneQueue == ~(Historical /\ Coalesced)

\* The lists that hold a reference.
Queued(e) ==
    \/ \E i \in DOMAIN events : events[i] = e
    \/ \E i \in DOMAIN batch : batch[i] = e
    \/ \E i \in DOMAIN historical : historical[i] = e
    \/ \E i \in DOMAIN history : history[i] = e

\* An event of a mount with one queue is referred to once, as long as it is queued.
CountInv ==
    OneQueue => /\ \A e \in Event : e <= last => refcount[e] = IF Queued(e) THEN 1 ELSE 0
                /\ fault = "none"

\* The thread that posts alone finds the queue full only when it stopped.
BoundInv ==
    /\ \A t \in Thread : budget[t] <= setup.posts[t]
    /\ Historical /\ Coalesced => Len(events) <= Len(historical)
    /\ QueueMax > 0 =>
          \A t \in Thread :
              (\A u \in Thread \ {t} : setup.posts[u] = 0)
                  => /\ Size <= QueueMax
                     /\ Size = QueueMax => pc[t] = "full"

(***************************************************************************)
(* Type correctness                                                        *)
(***************************************************************************)
\* The elements of a list but the first are those of its tail.
LEMMA TailEntries ==
    ASSUME NEW S, NEW s \in Seq(S), s # <<>>
    PROVE  \A i \in DOMAIN s : i = 1 \/ (i - 1 \in DOMAIN Tail(s) /\ Tail(s)[i - 1] = s[i])
<1>1. /\ Tail(s) \in Seq(S) /\ Len(Tail(s)) = Len(s) - 1
      /\ \A i \in 1..Len(s) - 1 : Tail(s)[i] = s[i + 1]
    BY HeadTailProperties
<1>2. /\ DOMAIN s = 1..Len(s) /\ Len(s) \in Nat
      /\ DOMAIN Tail(s) = 1..Len(s) - 1
    BY <1>1
<1>3. ASSUME NEW i \in DOMAIN s, i # 1
      PROVE  i - 1 \in 1..Len(s) - 1 /\ (i - 1) + 1 = i
    BY <1>2, <1>3
<1> QED BY <1>1, <1>2, <1>3

\* The places of a thread.
LEMMA GotoType ==
    ASSUME TypeOK, NEW t \in Thread, NEW p, NEW q, Goto(t, p, q)
    PROVE  pc[t] = p /\ pc' = [u \in Thread |-> IF u = t THEN q ELSE pc[u]]
BY DEF TypeOK, Typed, Goto

\* What a thread that caused an event does next.
LEMMA ThrottlePlace ==
    ASSUME NEW t \in Thread, NEW n, NEW q \in Throttle(t, n)
    PROVE  q \in {AfterPost(t), "late", "full"}
BY DEF Throttle

\* The queue of events after a post: the new event is in it once, and the
\* others are those about other objects, where they were.
LEMMA EnqueueEffect ==
    ASSUME TypeOK, NEW k \in Key, NEW e \in Event, Posted(events), e = last + 1,
           DistinctKeys(events)
    PROVE  LET q == Enqueue(e, k).queue
           IN /\ q \in Seq(Event)
              /\ Len(q) = IF SameObject(k) = {} THEN Len(events) + 1 ELSE Len(events)
              /\ \A i \in DOMAIN q :
                    \/ q[i] = e
                    \/ i \in DOMAIN events /\ q[i] = events[i] /\ key[events[i]] # k
              /\ \A i \in DOMAIN events : key[events[i]] # k => i \in DOMAIN q /\ q[i] = events[i]
              /\ \E i \in DOMAIN q : q[i] = e
              /\ \A i, j \in DOMAIN q : q[i] = e /\ q[j] = e => i = j
<1> DEFINE q == Enqueue(e, k).queue
<1>3. \A i \in DOMAIN events : events[i] # e
  <2>1. \A i \in DOMAIN events : events[i] \in Event /\ events[i] <= last
      BY DEF Posted, TypeOK, Typed
  <2>2. \A n \in Event : n <= last => n # last + 1
      BY MountAssumption DEF Event, TypeOK, Typed
  <2> QED BY <2>1, <2>2
<1>1. CASE SameObject(k) = {}
  <2>1. q = Append(events, e)
      BY <1>1 DEF Enqueue
  <2>2. \A i \in DOMAIN events : key[events[i]] # k
      BY <1>1 DEF SameObject
  <2>3. /\ Append(events, e) \in Seq(Event)
        /\ Len(Append(events, e)) = Len(events) + 1
        /\ DOMAIN Append(events, e) = 1..Len(events) + 1
        /\ \A i \in DOMAIN events : Append(events, e)[i] = events[i]
        /\ Append(events, e)[Len(events) + 1] = e
        /\ Len(events) \in Nat
        /\ DOMAIN events = 1..Len(events)
      BY DEF TypeOK, Typed
  <2>4. /\ q \in Seq(Event)
        /\ Len(q) = Len(events) + 1
        /\ DOMAIN q = 1..Len(events) + 1
        /\ \A i \in DOMAIN events : q[i] = events[i]
        /\ q[Len(events) + 1] = e
      BY <2>1, <2>3
  <2> HIDE DEF q
  <2>5. \A i \in DOMAIN q : q[i] = e \/ (i \in DOMAIN events /\ q[i] = events[i] /\ key[events[i]] # k)
      BY <2>2, <2>3, <2>4
  <2>6. \A i \in DOMAIN events : i \in DOMAIN q /\ q[i] = events[i]
      BY <2>3, <2>4
  <2>7. \E i \in DOMAIN q : q[i] = e
      BY <2>3, <2>4
  <2>8. \A i, j \in DOMAIN q : q[i] = e /\ q[j] = e => i = j
      BY <2>3, <2>4, <1>3
  <2> QED BY <1>1, <2>4, <2>5, <2>6, <2>7, <2>8 DEF q
<1>2. CASE SameObject(k) # {}
  <2>1. q = [i \in DOMAIN events |-> IF i \in SameObject(k) THEN e ELSE events[i]]
      BY <1>2 DEF Enqueue
  <2>2. \A i \in DOMAIN events : i \in SameObject(k) <=> key[events[i]] = k
      BY DEF SameObject
  <2>3. DOMAIN events = 1..Len(events) /\ Len(events) \in Nat /\ events \in [1..Len(events) -> Event]
      BY DEF TypeOK, Typed
  <2>4. q \in [1..Len(events) -> Event]
      BY <2>1, <2>3
  <2>5. q \in Seq(Event) /\ Len(q) = Len(events)
      BY <2>3, <2>4
  <2>6. PICK i \in DOMAIN events : i \in SameObject(k)
      BY <1>2 DEF SameObject
  <2>7. \A m, n \in DOMAIN q : q[m] = e /\ q[n] = e => m = n
      BY <2>1, <2>2, <2>3, <1>3 DEF DistinctKeys
  <2> QED BY <1>2, <2>1, <2>2, <2>3, <2>5, <2>6, <2>7
<1> QED BY <1>1, <1>2

\* The initial states are typed.
LEMMA TypeInit == Init => TypeInv
<1> SUFFICES ASSUME Init PROVE TypeInv
    OBVIOUS
<1>1. setup \in Setups
    BY MountAssumption DEF Init
<1>2. <<>> \in Seq(Event) /\ <<>> \in Seq(Key) /\ Len(<<>>) = 0
    OBVIOUS
<1>3. budget \in [Thread -> Nat]
    BY <1>1 DEF Init, Setups
<1>4. /\ pc[Poller] = "check"
      /\ \A t \in Publisher : pc[t] = "idle"
      /\ pc \in [Thread -> Place]
    BY MountAssumption DEF Init, Thread, Place
<1>5. Typed
  <2>1. /\ events \in Seq(Event) /\ historical \in Seq(Event)
        /\ batch \in Seq(Event) /\ history \in Seq(Event)
        /\ handled \in Seq(Event) /\ recorded \in Seq(Event)
        /\ key \in Seq(Key)
      BY <1>2 DEF Init
  <2>2. /\ refcount \in [Event -> Int]
        /\ polled \in [Thread -> BOOLEAN]
        /\ last \in 0..MaxEvents
      BY MountAssumption DEF Init
  <2> QED BY <1>3, <1>4, <2>1, <2>2 DEF Init, Typed
<1>6. WellFormed
    BY <1>2, <1>4 DEF Init, WellFormed
<1> QED BY <1>4, <1>5, <1>6 DEF TypeInv, TypeOK, PollOK, InCallback

\* A post, by a publisher or by a callback of the mount.
LEMMA PostType ==
    ASSUME TypeInv, Posted(events), DistinctKeys(events), NEW t \in Thread, NEW k \in Key, Post(t, k), UNCHANGED setup
    PROVE  TypeInv'
<1> DEFINE e == last + 1
           added == Coalesced /\ SameObject(k) = {}
           released == IF Coalesced THEN Enqueue(e, k).released ELSE {}
<1> USE DEF TypeInv, TypeOK
<1>1. e \in Event /\ last' = e /\ key' = Append(key, k)
    BY MountAssumption DEF Post, Event, Typed
<1>2. events' \in Seq(Event)
  <2>1. Enqueue(e, k).queue \in Seq(Event)
      BY <1>1, EnqueueEffect
  <2>2. events' = IF Coalesced THEN Enqueue(e, k).queue ELSE events
      BY DEF Post
  <2> QED BY <2>1, <2>2 DEF Typed
<1>3. historical' \in Seq(Event)
    BY <1>1 DEF Post, Recorded, Typed
<1>4. key' \in Seq(Key) /\ Len(key') = last'
  <2> HIDE DEF e
  <2>1. Append(key, k) \in Seq(Key) /\ Len(Append(key, k)) = Len(key) + 1
      BY AppendProperties DEF Typed
  <2> QED BY <1>1, <2>1 DEF e, WellFormed
<1>5. refcount' \in [Event -> Int]
  <2>1. refcount' = [f \in Event |->
                CASE f = e -> IF Historical /\ added THEN 2 ELSE 1
                  [] f \in released -> refcount[f] - 1
                  [] OTHER -> refcount[f]]
      BY DEF Post
  <2> HIDE DEF e, added, released
  <2> QED BY <2>1 DEF Typed
<1>6. fault' \in {"none", "use_after_free", "event_is_leaking"}
    BY DEF Post, Access, Typed
<1>7. PICK q \in {AfterPost(t), "late", "full"} : Goto(t, AfterPost(t), q)
    BY ThrottlePlace DEF Post
<1>8. pc[t] = AfterPost(t) /\ pc' = [u \in Thread |-> IF u = t THEN q ELSE pc[u]]
    BY <1>7, GotoType
<1>9. Typed'
  <2>1. last' \in 0..MaxEvents
      BY <1>1 DEF Event, Typed
  <2>2. /\ budget' \in [Thread -> Nat]
        /\ polled' \in [Thread -> BOOLEAN]
      BY DEF Post, Typed
  <2>3. q \in Place
      BY DEF AfterPost, Place
  <2>4. pc' \in [Thread -> Place]
      BY <1>8, <2>3 DEF Typed
  <2> QED BY <1>2, <1>3, <1>4, <1>5, <1>6, <2>1, <2>2, <2>4 DEF Typed, Post, polling, ghosts
<1>10. WellFormed' /\ PollOK'
    BY <1>4, <1>8, MountAssumption
    DEF WellFormed, PollOK, InCallback, AfterPost, Post, polling, ghosts, Thread
<1> QED BY <1>9, <1>10

\* A publisher, or a callback, goes on.
LEMMA UnblockType ==
    ASSUME TypeInv, NEW t \in Thread, Unblock(t), UNCHANGED setup
    PROVE  TypeInv'
<1> USE DEF TypeInv, TypeOK
<1>1. PICK p \in {"late", "full"} : Goto(t, p, AfterPost(t))
    BY DEF Unblock, PollWasLate, QueueNotFull
<1>2. pc[t] = p /\ pc' = [u \in Thread |-> IF u = t THEN AfterPost(t) ELSE pc[u]]
    BY <1>1, GotoType
<1>3. UNCHANGED <<queues, quit, gone, last, key, refcount, polled, polling, ghosts,
                  budget, fault>>
    BY DEF Unblock, PollWasLate, QueueNotFull
<1>4. pc' \in [Thread -> Place]
    BY <1>2 DEF Typed, AfterPost, Place
<1>5. Typed'
    BY <1>3, <1>4 DEF Typed, queues, polling, ghosts
<1>6. WellFormed' /\ PollOK'
    BY <1>2, <1>3, MountAssumption
    DEF WellFormed, PollOK, InCallback, AfterPost, queues, polling, ghosts, Thread
<1> QED BY <1>5, <1>6

\* The thread of the mount goes from one place to another.
LEMMA PollerPlace ==
    ASSUME TypeInv, NEW p, NEW q \in Place \ {"idle"}, Goto(Poller, p, q)
    PROVE  /\ pc[Poller] = p /\ pc'[Poller] = q
           /\ pc' \in [Thread -> Place]
           /\ \A t \in Publisher : pc'[t] = pc[t]
BY MountAssumption DEF TypeInv, TypeOK, Typed, Goto, Thread

\* A step of the thread of the mount.
LEMMA PollStepType ==
    ASSUME TypeInv, PollStep, UNCHANGED setup
    PROVE  TypeInv'
<1> USE DEF TypeInv, TypeOK
<1>1. CASE CheckQuit
  <2> DEFINE q == IF quit THEN "stopped" ELSE "poll"
  <2>1. Goto(Poller, "check", q) /\ q \in Place \ {"idle"}
      BY <1>1 DEF CheckQuit, Place
  <2>2. /\ pc[Poller] = "check" /\ pc'[Poller] = q
        /\ pc' \in [Thread -> Place]
        /\ \A t \in Publisher : pc'[t] = pc[t]
      BY <2>1, PollerPlace
  <2> QED BY <1>1, <2>2
        DEF CheckQuit, Typed, WellFormed, PollOK, InCallback, queues, polling, ghosts
<1>2. CASE Poll
  <2>1. Goto(Poller, "poll", "batch") /\ "batch" \in Place \ {"idle"}
      BY <1>2 DEF Poll, Place
  <2>2. /\ pc[Poller] = "poll" /\ pc'[Poller] = "batch"
        /\ pc' \in [Thread -> Place]
        /\ \A t \in Publisher : pc'[t] = pc[t]
      BY <2>1, PollerPlace
  <2>3. <<>> \in Seq(Event)
      OBVIOUS
  <2> QED BY <1>2, <2>2, <2>3
        DEF Poll, Typed, WellFormed, PollOK, InCallback, queues, polling, ghosts
<1>3. CASE BatchNotify
  <2>1. Goto(Poller, "batch", "history") /\ "history" \in Place \ {"idle"}
      BY <1>3 DEF BatchNotify, Place
  <2>2. /\ pc[Poller] = "batch" /\ pc'[Poller] = "history"
        /\ pc' \in [Thread -> Place]
        /\ \A t \in Publisher : pc'[t] = pc[t]
      BY <2>1, PollerPlace
  <2>3. fault' \in {"none", "use_after_free", "event_is_leaking"}
      BY <1>3 DEF BatchNotify, Access, Typed
  <2> QED BY <1>3, <2>2, <2>3
        DEF BatchNotify, Typed, WellFormed, PollOK, InCallback, queues, polling, ghosts
<1>4. CASE HistoryBatchNotify
  <2>1. Goto(Poller, "history", "handle") /\ "handle" \in Place \ {"idle"}
      BY <1>4 DEF HistoryBatchNotify, Place
  <2>2. /\ pc[Poller] = "history" /\ pc'[Poller] = "handle"
        /\ pc' \in [Thread -> Place]
        /\ \A t \in Publisher : pc'[t] = pc[t]
      BY <2>1, PollerPlace
  <2>3. fault' \in {"none", "use_after_free", "event_is_leaking"}
      BY <1>4 DEF HistoryBatchNotify, Access, Typed
  <2>4. refcount' \in [Event -> Int]
      BY <1>4 DEF HistoryBatchNotify, Typed
  <2>5. /\ recorded' \in Seq(Event)
        /\ history' \in Seq(Event) /\ history' = <<>>
      BY <1>4, ConcatProperties DEF HistoryBatchNotify, Typed
  <2>6. /\ UNCHANGED <<queues, quit, gone, last, key, polled, batch, handled, budget>>
      BY <1>4 DEF HistoryBatchNotify
  <2> QED BY <2>2, <2>3, <2>4, <2>5, <2>6
        DEF Typed, WellFormed, PollOK, InCallback, queues
<1>5. CASE Handle
  <2>1. Goto(Poller, "handle", "callback") /\ "callback" \in Place \ {"idle"}
      BY <1>5 DEF Handle, Place
  <2>2. /\ pc[Poller] = "handle" /\ pc'[Poller] = "callback"
        /\ pc' \in [Thread -> Place]
        /\ \A t \in Publisher : pc'[t] = pc[t]
      BY <2>1, PollerPlace
  <2>3. fault' \in {"none", "use_after_free", "event_is_leaking"}
      BY <1>5 DEF Handle, Access, Typed
  <2>4. handled' \in Seq(Event)
      BY <1>5, HeadTailProperties DEF Handle, Typed
  <2> QED BY <1>5, <2>2, <2>3, <2>4
        DEF Handle, Typed, WellFormed, PollOK, InCallback, queues, polling
<1>6. CASE Handled
  <2>1. Goto(Poller, "callback", "handle") /\ "handle" \in Place \ {"idle"}
      BY <1>6 DEF Handled, Place
  <2>2. /\ pc[Poller] = "callback" /\ pc'[Poller] = "handle"
        /\ pc' \in [Thread -> Place]
        /\ \A t \in Publisher : pc'[t] = pc[t]
      BY <2>1, PollerPlace
  <2>3. fault' \in {"none", "use_after_free", "event_is_leaking"}
      BY <1>6 DEF Handled, Typed
  <2>4. batch' \in Seq(Event)
      BY <1>6, <2>2, HeadTailProperties DEF Handled, Typed, WellFormed
  <2>5. Head(batch) \in Event
      BY <2>2, HeadTailProperties DEF Typed, WellFormed
  <2>6. refcount' = [refcount EXCEPT ![Head(batch)] = @ - 1]
      BY <1>6 DEF Handled
  <2>7. refcount' \in [Event -> Int]
      BY <2>5, <2>6 DEF Typed
  <2> QED BY <1>6, <2>2, <2>3, <2>4, <2>7
        DEF Handled, Typed, WellFormed, PollOK, InCallback, queues, ghosts
<1>7. CASE PollDone
  <2>1. Goto(Poller, "handle", "check") /\ "check" \in Place \ {"idle"}
      BY <1>7 DEF PollDone, Place
  <2>2. /\ pc[Poller] = "handle" /\ pc'[Poller] = "check"
        /\ pc' \in [Thread -> Place]
        /\ \A t \in Publisher : pc'[t] = pc[t]
      BY <2>1, PollerPlace
  <2> QED BY <1>7, <2>2
        DEF PollDone, Typed, WellFormed, PollOK, InCallback, queues, polling, ghosts
<1> QED BY <1>1, <1>2, <1>3, <1>4, <1>5, <1>6, <1>7 DEF PollStep

\* Every step preserves the type invariant.
LEMMA TypeNext ==
    ASSUME TypeInv, Posted(events), DistinctKeys(events), [Next]_vars
    PROVE  TypeInv'
<1>1. ASSUME NEW t \in Thread, NEW k \in Key, Post(t, k), UNCHANGED setup
      PROVE  TypeInv'
    BY <1>1, PostType
<1>2. ASSUME NEW t \in Thread, Unblock(t), UNCHANGED setup
      PROVE  TypeInv'
    BY <1>2, UnblockType
<1>3. CASE PollStep /\ UNCHANGED setup
    BY <1>3, PollStepType
<1>4. CASE Quit /\ UNCHANGED setup
    BY <1>4 DEF Quit, TypeInv, TypeOK, Typed, WellFormed, PollOK, InCallback,
                queues, polling, ghosts
<1>6. CASE Join /\ UNCHANGED setup
    BY <1>6 DEF Join, TypeInv, TypeOK, Typed, WellFormed, PollOK, InCallback,
                queues, polling, ghosts
<1>5. CASE UNCHANGED vars
    BY <1>5 DEF vars, TypeInv, TypeOK, Typed, WellFormed, PollOK, InCallback,
                queues, polling, ghosts
<1> QED BY <1>1, <1>2, <1>3, <1>4, <1>5, <1>6 DEF Next, GoOn

(***************************************************************************)
(* What a post does to the queue of events                                 *)
(***************************************************************************)
\* No two threads are in the place of another by a post of a callback.
LEMMA PostPlace ==
    ASSUME TypeInv, NEW t \in Thread, NEW k \in Key, Post(t, k)
    PROVE  InCallback' <=> InCallback
<1>1. PICK q \in {AfterPost(t), "late", "full"} : Goto(t, AfterPost(t), q)
    BY ThrottlePlace DEF Post
<1>2. pc[t] = AfterPost(t) /\ pc' = [u \in Thread |-> IF u = t THEN q ELSE pc[u]]
    BY <1>1, GotoType DEF TypeInv
<1> QED BY <1>2, MountAssumption DEF InCallback, AfterPost, Thread

\* A post adds the event last + 1 to the queue, in which it is once, and the
\* events about other objects stay.
LEMMA PostEffect ==
    ASSUME TypeInv, QueuesOfMount, OrderInv,
           NEW t \in Thread, NEW k \in Key, Post(t, k)
    PROVE  /\ last' = last + 1 /\ last' \in Event
           /\ \A f \in 1..last : key'[f] = key[f]
           /\ key'[last'] = k
           /\ batch' = batch /\ handled' = handled
           /\ Coalesced => \E i \in DOMAIN events' : events'[i] = last'
           /\ \A i \in DOMAIN events' :
                 \/ events'[i] = last'
                 \/ i \in DOMAIN events /\ events'[i] = events[i] /\ key[events[i]] # k
           /\ \A i \in DOMAIN events :
                 key[events[i]] # k => i \in DOMAIN events' /\ events'[i] = events[i]
           /\ \A i, j \in DOMAIN events' : events'[i] = last' /\ events'[j] = last' => i = j
<1> DEFINE e == last + 1
           q == Enqueue(e, k).queue
<1>1. /\ e \in Event /\ last' = e /\ key' = Append(key, k)
      /\ batch' = batch /\ handled' = handled
      /\ events' = IF Coalesced THEN q ELSE events
    BY MountAssumption DEF Post, Event, TypeInv, TypeOK, Typed, polling, ghosts
<1>2. (\A f \in 1..last : key'[f] = key[f]) /\ key'[e] = k
  <2>1. /\ key \in Seq(Key) /\ Len(key) = last
        /\ key' = Append(key, k)
      BY <1>1 DEF TypeInv, TypeOK, Typed, WellFormed
  <2> QED BY <2>1, AppendProperties
<1>3. /\ \A i \in DOMAIN q :
            \/ q[i] = e
            \/ i \in DOMAIN events /\ q[i] = events[i] /\ key[events[i]] # k
      /\ \A i \in DOMAIN events : key[events[i]] # k => i \in DOMAIN q /\ q[i] = events[i]
      /\ \E i \in DOMAIN q : q[i] = e
      /\ \A i, j \in DOMAIN q : q[i] = e /\ q[j] = e => i = j
    BY <1>1, EnqueueEffect DEF TypeInv, OrderInv
<1>4. CASE Coalesced
  <2> HIDE DEF e, q
  <2>1. events' = q
      BY <1>1, <1>4
  <2> QED BY <1>1, <1>2, <1>3, <2>1 DEF e
<1>5. CASE ~Coalesced
  <2>1. events' = <<>> /\ events = <<>>
      BY <1>1, <1>5 DEF QueuesOfMount
  <2>2. DOMAIN events = {} /\ DOMAIN events' = {}
      BY <2>1
  <2> QED BY <1>1, <1>2, <1>5, <2>2
<1> QED BY <1>4, <1>5

(***************************************************************************)
(* The events of an object are handled in order                            *)
(***************************************************************************)
\* In the initial states nothing is queued.
LEMMA OrderInit == Init => QueuesOfMount /\ OrderInv
BY MountAssumption
DEF Init, QueuesOfMount, OrderInv, Posted, DistinctKeys, Older, NewerInBatch,
    HandledInOrder, InCallback, Thread

\* The mount keeps its queues.
LEMMA QueuesOfMountNext ==
    ASSUME TypeInv, QueuesOfMount, Next
    PROVE  QueuesOfMount'
<1>1. UNCHANGED setup
    BY DEF Next, GoOn
<1>2. (Coalesced' <=> Coalesced) /\ (Historical' <=> Historical)
    BY <1>1 DEF Coalesced, Historical, Mask
<1>3. ASSUME NEW t \in Thread, NEW k \in Key, Post(t, k)
      PROVE  QueuesOfMount'
    BY <1>2, <1>3 DEF Post, QueuesOfMount, polling, ghosts
<1>4. ASSUME NEW t \in Thread, Unblock(t)
      PROVE  QueuesOfMount'
    BY <1>2, <1>4 DEF Unblock, PollWasLate, QueueNotFull, QueuesOfMount, queues, polling, ghosts
<1>5. CASE Poll
    BY <1>2, <1>5 DEF Poll, QueuesOfMount, ghosts
<1>6. CASE Handle
  <2>1. Coalesced
      BY <1>6 DEF Handle, QueuesOfMount
  <2> QED BY <1>2, <1>6, <2>1 DEF Handle, QueuesOfMount, queues, polling
<1>7. CASE Handled
  <2>1. Coalesced
      BY <1>7 DEF Handled, Goto, QueuesOfMount, TypeInv, TypeOK, WellFormed
  <2> QED BY <1>2, <1>7, <2>1 DEF Handled, QueuesOfMount, queues, ghosts
<1>8. CASE HistoryBatchNotify
    BY <1>2, <1>8 DEF HistoryBatchNotify, QueuesOfMount, queues
<1>9. CASE CheckQuit \/ BatchNotify \/ PollDone \/ Quit \/ Join
    BY <1>2, <1>9 DEF CheckQuit, BatchNotify, PollDone, Quit, Join, QueuesOfMount, queues,
                      polling, ghosts
<1> QED BY <1>3, <1>4, <1>5, <1>6, <1>7, <1>8, <1>9 DEF Next, PollStep

\* A post: the new event is newer than all others about its object.
LEMMA PostOrder ==
    ASSUME TypeInv, QueuesOfMount, OrderInv,
           NEW t \in Thread, NEW k \in Key, Post(t, k)
    PROVE  OrderInv'
<1>1. InCallback' <=> InCallback
    BY PostPlace
<1>2. /\ last' = last + 1 /\ last \in Nat
      /\ \A f \in 1..last : key'[f] = key[f]
      /\ key'[last'] = k
      /\ batch' = batch /\ handled' = handled
  <2>1. last \in Nat
      BY MountAssumption DEF TypeInv, TypeOK, Typed
  <2> QED BY <2>1, PostEffect
<1>3. /\ \A i \in DOMAIN events' :
            \/ events'[i] = last'
            \/ i \in DOMAIN events /\ events'[i] = events[i] /\ key[events[i]] # k
      /\ \A i, j \in DOMAIN events' : events'[i] = last' /\ events'[j] = last' => i = j
    BY PostEffect
<1>4. /\ \A i \in DOMAIN events : events[i] \in 1..last
      /\ \A i \in DOMAIN batch : batch[i] \in 1..last
      /\ \A i \in DOMAIN handled : handled[i] \in 1..last
  <2>1. \A n \in Event : n <= last => n \in 1..last
      BY <1>2, MountAssumption DEF Event
  <2>2. \A s \in Seq(Event), i \in Nat : i \in DOMAIN s => s[i] \in Event
      OBVIOUS
  <2>3. DOMAIN events \subseteq Nat /\ DOMAIN batch \subseteq Nat /\ DOMAIN handled \subseteq Nat
      BY SMTT(30) DEF TypeInv, TypeOK, Typed
  <2> QED BY <2>1, <2>2, <2>3 DEF TypeInv, TypeOK, Typed, OrderInv, Posted
<1>5. Posted(events)' /\ Posted(batch)' /\ Posted(handled)'
    BY <1>2, <1>3, <1>4 DEF Posted
<1>6. DistinctKeys(events)'
    BY <1>2, <1>3, <1>4 DEF DistinctKeys, OrderInv
<1>7. DistinctKeys(batch)' /\ NewerInBatch' /\ HandledInOrder'
    BY <1>1, <1>2, <1>4 DEF DistinctKeys, NewerInBatch, HandledInOrder, OrderInv
<1>8. Older(batch, events)' /\ Older(handled, events)'
    BY <1>2, <1>3, <1>4 DEF Older, OrderInv
<1> QED BY <1>1, <1>2, <1>5, <1>6, <1>7, <1>8 DEF OrderInv

\* A poll takes the queue, which is newer than what was handled.
LEMMA PollOrder ==
    ASSUME TypeInv, OrderInv, Poll
    PROVE  OrderInv'
<1>1. ~InCallback /\ ~InCallback' /\ batch = <<>>
    BY MountAssumption
    DEF Poll, Goto, InCallback, TypeInv, TypeOK, Typed, WellFormed, Thread, Place
<1>2. /\ batch' = events /\ events' = <<>> /\ handled' = handled
      /\ last' = last /\ key' = key
    BY DEF Poll, ghosts
<1> QED BY <1>1, <1>2
        DEF OrderInv, Posted, DistinctKeys, Older, NewerInBatch, HandledInOrder

\* The first event of the batch is handled after all older ones.
LEMMA HandleOrder ==
    ASSUME TypeInv, OrderInv, Handle
    PROVE  OrderInv'
<1>1. ~InCallback /\ InCallback' /\ batch # <<>>
    BY MountAssumption
    DEF Handle, Goto, InCallback, TypeInv, TypeOK, Typed, Thread, Place
<1>2. /\ batch' = batch /\ events' = events /\ last' = last /\ key' = key
      /\ handled' = Append(handled, batch[1])
    BY <1>1 DEF Handle, queues, polling, TypeInv, TypeOK, Typed
<1>3. 1 \in DOMAIN batch /\ DOMAIN batch = 1..Len(batch)
    BY <1>1 DEF TypeInv, TypeOK, Typed
<1>4. /\ DOMAIN handled' = DOMAIN handled \cup {Len(handled) + 1}
      /\ Len(handled) + 1 \in DOMAIN handled'
      /\ \A i \in DOMAIN handled : handled'[i] = handled[i]
      /\ handled'[Len(handled) + 1] = batch[1]
      /\ \A i \in DOMAIN handled : i \in Nat /\ i < Len(handled) + 1
    BY <1>2, <1>3, SMTT(30) DEF TypeInv, TypeOK, Typed
<1>5. \A i \in DOMAIN handled, j \in DOMAIN batch :
          key[handled[i]] = key[batch[j]] => handled[i] < batch[j]
    BY <1>1 DEF OrderInv, NewerInBatch
<1>6. Posted(events)' /\ Posted(batch)' /\ Posted(handled)'
    BY <1>2, <1>3, <1>4 DEF OrderInv, Posted
<1>7. Older(handled, events)'
    BY <1>2, <1>3, <1>4 DEF OrderInv, Older
<1>8. NewerInBatch'
    BY <1>1, <1>2, <1>3, <1>4, <1>5 DEF OrderInv, NewerInBatch, DistinctKeys
<1>9. HandledInOrder'
    BY <1>2, <1>3, <1>4, <1>5 DEF OrderInv, HandledInOrder
<1> QED BY <1>1, <1>2, <1>4, <1>6, <1>7, <1>8, <1>9 DEF OrderInv, DistinctKeys, Older

\* The next event of the batch becomes the first one.
LEMMA HandledOrder ==
    ASSUME TypeInv, OrderInv, Handled
    PROVE  OrderInv'
<1>1. InCallback /\ ~InCallback' /\ batch # <<>>
    BY MountAssumption
    DEF Handled, Goto, InCallback, TypeInv, TypeOK, Typed, WellFormed, Thread, Place
<1>2. /\ batch' = Tail(batch) /\ events' = events /\ last' = last /\ key' = key
      /\ handled' = handled
    BY DEF Handled, queues, ghosts
<1>3. \A i \in DOMAIN batch' : i + 1 \in DOMAIN batch /\ i + 1 # 1 /\ batch'[i] = batch[i + 1]
    BY <1>1, <1>2, HeadTailProperties, SMTT(30) DEF TypeInv, TypeOK, Typed
<1>4. \A i, j \in DOMAIN batch' : i + 1 = j + 1 => i = j
    BY <1>1, <1>2 DEF TypeInv, TypeOK, Typed
<1>5. Posted(batch)' /\ DistinctKeys(batch)' /\ Older(batch, events)' /\ NewerInBatch'
    BY <1>1, <1>2, <1>3, <1>4 DEF OrderInv, Posted, DistinctKeys, Older, NewerInBatch
<1> QED BY <1>1, <1>2, <1>5 DEF OrderInv, Posted, DistinctKeys, Older, HandledInOrder

\* Every step preserves the order.
LEMMA OrderNext ==
    ASSUME TypeInv, QueuesOfMount, OrderInv, Next
    PROVE  OrderInv'
<1>1. ASSUME UNCHANGED <<events, batch, handled, last, key>>, InCallback' <=> InCallback
      PROVE  OrderInv'
    BY <1>1 DEF OrderInv, Posted, DistinctKeys, Older, NewerInBatch, HandledInOrder
<1>2. ASSUME NEW t \in Thread, Unblock(t)
      PROVE  OrderInv'
  <2>1. PICK p \in {"late", "full"} : Goto(t, p, AfterPost(t))
      BY <1>2 DEF Unblock, PollWasLate, QueueNotFull
  <2>2. InCallback' <=> InCallback
      BY <2>1, GotoType, MountAssumption DEF InCallback, AfterPost, TypeInv, Thread
  <2> QED BY <1>1, <1>2, <2>2 DEF Unblock, PollWasLate, QueueNotFull, queues, polling, ghosts
<1>3. CASE CheckQuit \/ BatchNotify \/ HistoryBatchNotify \/ PollDone \/ Quit \/ Join
  <2>1. InCallback' <=> InCallback
      BY <1>3, MountAssumption
      DEF CheckQuit, BatchNotify, HistoryBatchNotify, PollDone, Quit, Join, Goto,
          InCallback, TypeInv, TypeOK, Typed, Thread
  <2>2. UNCHANGED <<events, batch, handled, last, key>>
      BY <1>3 DEF CheckQuit, BatchNotify, HistoryBatchNotify, PollDone, Quit, Join,
                  queues, polling, ghosts
  <2> QED BY <1>1, <2>1, <2>2
<1> QED BY <1>2, <1>3, PostOrder, PollOrder, HandleOrder, HandledOrder
        DEF Next, PollStep

(***************************************************************************)
(* No event is lost                                                        *)
(***************************************************************************)
\* Nothing was posted yet.
LEMMA KeptInit == Init => LatestIsKept /\ HistoryIsComplete
<1> SUFFICES ASSUME Init PROVE LatestIsKept /\ HistoryIsComplete
    OBVIOUS
<1>1. 1..last = {}
    BY DEF Init
<1>2. <<>> \o <<>> \o <<>> = <<>>
    BY ConcatEmptySeq, EmptySeq
<1>3. [e \in {} |-> e] = <<>>
    OBVIOUS
<1> QED BY <1>1, <1>2, <1>3 DEF Init, LatestIsKept, HistoryIsComplete

\* What a post replaces is not the latest event about its object any more.
LEMMA PostKept ==
    ASSUME TypeInv, QueuesOfMount, OrderInv, LatestIsKept, UNCHANGED setup,
           NEW t \in Thread, NEW k \in Key, Post(t, k)
    PROVE  LatestIsKept'
<1> SUFFICES ASSUME Coalesced', NEW e \in 1..last',
                    \A f \in 1..last' : key'[f] = key'[e] => f <= e
             PROVE  e \in ToSet(events') \cup ToSet(batch') \cup ToSet(handled')
    BY DEF LatestIsKept
<1>1. Coalesced
    BY DEF Coalesced, Mask
<1>2. /\ last' = last + 1 /\ last \in Nat
      /\ \A f \in 1..last : key'[f] = key[f]
      /\ key'[last'] = k
      /\ batch' = batch /\ handled' = handled
  <2>1. last \in Nat
      BY MountAssumption DEF TypeInv, TypeOK, Typed
  <2> QED BY <2>1, PostEffect
<1>3. CASE e = last'
  <2>1. \E i \in DOMAIN events' : events'[i] = e
      BY <1>1, <1>3, PostEffect
  <2> QED BY <2>1 DEF ToSet
<1>4. CASE e # last'
  <2>1. e \in 1..last /\ key[e] # k
      BY <1>2, <1>4
  <2>2. e \in ToSet(events) \cup ToSet(batch) \cup ToSet(handled)
      BY <1>1, <1>2, <2>1 DEF LatestIsKept
  <2>3. e \in ToSet(events) => e \in ToSet(events')
    <3> SUFFICES ASSUME e \in ToSet(events) PROVE e \in ToSet(events')
        OBVIOUS
    <3>1. PICK i \in DOMAIN events : events[i] = e
        BY DEF ToSet
    <3>2. i \in DOMAIN events' /\ events'[i] = e
        BY <2>1, <3>1, PostEffect
    <3> QED BY <3>2 DEF ToSet
  <2> QED BY <1>2, <2>2, <2>3
<1> QED BY <1>3, <1>4

\* Every step keeps the latest events.
LEMMA KeptNext ==
    ASSUME TypeInv, QueuesOfMount, OrderInv, LatestIsKept, Next
    PROVE  LatestIsKept'
<1>1. UNCHANGED setup
    BY DEF Next, GoOn
<1>2. Coalesced' <=> Coalesced
    BY <1>1 DEF Coalesced, Mask
<1>3. ASSUME UNCHANGED <<last, key>>,
             ToSet(events) \cup ToSet(batch) \cup ToSet(handled)
                \subseteq ToSet(events') \cup ToSet(batch') \cup ToSet(handled')
      PROVE  LatestIsKept'
    BY <1>2, <1>3 DEF LatestIsKept
<1>4. ASSUME NEW t \in Thread, NEW k \in Key, Post(t, k)
      PROVE  LatestIsKept'
    BY <1>1, <1>4, PostKept
<1>5. ASSUME NEW t \in Thread, Unblock(t)
      PROVE  LatestIsKept'
    BY <1>3, <1>5 DEF Unblock, PollWasLate, QueueNotFull, queues, polling, ghosts
<1>6. CASE Poll
  <2>1. batch = <<>>
      BY <1>6 DEF Poll, Goto, TypeInv, TypeOK, WellFormed
  <2>2. ToSet(batch) = {}
      BY <2>1 DEF ToSet
  <2> QED BY <1>3, <1>6, <2>2 DEF Poll, ghosts
<1>7. CASE Handle
  <2>1. \A x \in ToSet(handled) : x \in ToSet(handled')
    <3>1. \A i \in DOMAIN handled : i \in DOMAIN handled' /\ handled'[i] = handled[i]
        BY <1>7, SMTT(30) DEF Handle, TypeInv, TypeOK, Typed
    <3> QED BY <3>1 DEF ToSet
  <2> QED BY <1>3, <1>7, <2>1 DEF Handle, queues, polling
<1>8. CASE Handled
  <2>1. batch # <<>> /\ InCallback
      BY <1>8 DEF Handled, Goto, TypeInv, TypeOK, WellFormed, InCallback
  <2>2. PICK h \in DOMAIN handled : handled[h] = batch[1]
      BY <2>1 DEF OrderInv
  <2>3. \A j \in DOMAIN batch : j = 1 \/ (j - 1 \in DOMAIN batch' /\ batch'[j - 1] = batch[j])
      BY <1>8, <2>1, TailEntries DEF Handled, TypeInv, TypeOK, Typed
  <2>4. \A x \in ToSet(batch) : x \in ToSet(batch') \cup ToSet(handled)
      BY <2>2, <2>3 DEF ToSet
  <2> QED BY <1>3, <1>8, <2>4 DEF Handled, queues, ghosts
<1>9. CASE CheckQuit \/ BatchNotify \/ HistoryBatchNotify \/ PollDone \/ Quit \/ Join
    BY <1>3, <1>9 DEF CheckQuit, BatchNotify, HistoryBatchNotify, PollDone, Quit, Join,
                      queues, polling, ghosts
<1> QED BY <1>4, <1>5, <1>6, <1>7, <1>8, <1>9 DEF Next, PollStep

\* Every step keeps the history complete.
LEMMA HistoryNext ==
    ASSUME TypeInv, QueuesOfMount, HistoryIsComplete, Next
    PROVE  HistoryIsComplete'
<1>1. UNCHANGED setup
    BY DEF Next, GoOn
<1>2. Historical' <=> Historical
    BY <1>1 DEF Historical, Mask
<1>3. ASSUME UNCHANGED <<last, recorded, history, historical>>
      PROVE  HistoryIsComplete'
    BY <1>2, <1>3 DEF HistoryIsComplete
<1>4. /\ recorded \in Seq(Event) /\ history \in Seq(Event) /\ historical \in Seq(Event)
      /\ <<>> \in Seq(Event) /\ last \in Nat
    BY MountAssumption DEF TypeInv, TypeOK, Typed
<1>5. ASSUME NEW t \in Thread, NEW k \in Key, Post(t, k)
      PROVE  HistoryIsComplete'
  <2> DEFINE s == recorded \o history
             e == last + 1
  <2> SUFFICES ASSUME Historical PROVE HistoryIsComplete'
      BY <1>2 DEF HistoryIsComplete
  <2>1. /\ last' = e /\ recorded' = recorded /\ history' = history
        /\ historical' = Append(historical, e)
      BY <1>5 DEF Post, Recorded, polling, ghosts
  <2>2. s \in Seq(Event) /\ e \in Nat /\ e \in Event
      BY <1>4, <1>5, MountAssumption, ConcatProperties, SMTT(30) DEF Post, Event, TypeInv, TypeOK, Typed
  <2> HIDE DEF s, e
  <2>3. s \o historical = [n \in 1..last |-> n]
      BY DEF HistoryIsComplete, s
  <2>4. s \o Append(historical, e) = Append(s \o historical, e)
      BY <1>4, <2>2
  <2>5. Append([n \in 1..last |-> n], e) = [n \in 1..e |-> n]
      BY <1>4, <2>2 DEF e
  <2> QED BY <2>1, <2>3, <2>4, <2>5 DEF HistoryIsComplete, s
<1>6. ASSUME NEW t \in Thread, Unblock(t)
      PROVE  HistoryIsComplete'
    BY <1>3, <1>6 DEF Unblock, PollWasLate, QueueNotFull, queues, polling, ghosts
<1>7. CASE Poll
  <2>1. history = <<>>
      BY <1>7 DEF Poll, Goto, TypeInv, TypeOK, WellFormed
  <2>2. /\ history' = historical /\ historical' = <<>>
        /\ recorded' = recorded /\ last' = last
      BY <1>7 DEF Poll, ghosts
  <2>3. recorded \o <<>> \o historical = recorded \o historical \o <<>>
      BY <1>4, ConcatEmptySeq, ConcatProperties
  <2> QED BY <1>2, <2>1, <2>2, <2>3 DEF HistoryIsComplete
<1>8. CASE HistoryBatchNotify
  <2>1. /\ recorded' = recorded \o history /\ history' = <<>>
        /\ historical' = historical /\ last' = last
      BY <1>8 DEF HistoryBatchNotify, queues
  <2>2. (recorded \o history) \o <<>> = recorded \o history
      BY <1>4, ConcatEmptySeq, ConcatProperties
  <2> QED BY <1>2, <2>1, <2>2 DEF HistoryIsComplete
<1>9. CASE CheckQuit \/ BatchNotify \/ Handle \/ Handled \/ PollDone \/ Quit \/ Join
    BY <1>3, <1>9 DEF CheckQuit, BatchNotify, Handle, Handled, PollDone, Quit, Join,
                      queues, polling, ghosts
<1> QED BY <1>5, <1>6, <1>7, <1>8, <1>9 DEF Next, PollStep

(***************************************************************************)
(* The queues are bounded                                                  *)
(***************************************************************************)
\* No event was posted yet.
LEMMA BoundInit == Init => BoundInv
<1> SUFFICES ASSUME Init PROVE BoundInv
    OBVIOUS
<1>1. setup \in Setups
    BY MountAssumption DEF Init
<1>2. \A t \in Thread : budget[t] <= setup.posts[t]
    BY <1>1 DEF Init, Setups
<1>3. Len(events) = 0 /\ Len(historical) = 0
    BY DEF Init
<1> QED BY <1>1, <1>2, <1>3 DEF Init, BoundInv, Size, QueueMax, Setups

\* The thread that posts finds the queue below its maximum, and stops when it
\* reaches it.
LEMMA PostBound ==
    ASSUME TypeInv, QueuesOfMount, OrderInv, BoundInv, UNCHANGED setup,
           NEW t \in Thread, NEW k \in Key, Post(t, k)
    PROVE  BoundInv'
<1>1. setup \in Setups /\ QueueMax \in Nat /\ QueueMax' = QueueMax
    BY MountAssumption DEF TypeInv, TypeOK, Typed, QueueMax, Setups
<1>2. /\ Coalesced' <=> Coalesced
      /\ Historical' <=> Historical
    BY DEF Coalesced, Historical, Mask
<1>3. /\ budget \in [Thread -> Nat] /\ budget[t] > 0
      /\ budget' = [budget EXCEPT ![t] = @ - 1]
    BY DEF Post, TypeInv, TypeOK, Typed
<1>4. \A u \in Thread : budget'[u] <= setup.posts[u]
    BY <1>1, <1>3 DEF BoundInv, Setups
<1>5. /\ Len(historical) \in Nat /\ Len(events) \in Nat
      /\ Len(historical') = IF Historical THEN Len(historical) + 1 ELSE Len(historical)
      /\ Len(events') \in {Len(events), Len(events) + 1}
  <2>1. last + 1 \in Event
      BY MountAssumption DEF Post, Event, TypeInv, TypeOK, Typed
  <2>2. /\ Len(Enqueue(last + 1, k).queue) \in {Len(events), Len(events) + 1}
      BY <2>1, EnqueueEffect DEF TypeInv, OrderInv
  <2> QED BY <2>1, <2>2, SMTT(30) DEF Post, Recorded, TypeInv, TypeOK, Typed
<1>6. PICK q \in Throttle(t, Size') : Goto(t, AfterPost(t), q)
    BY <1>2 DEF Post, Size
<1>7. pc[t] = AfterPost(t) /\ pc' = [u \in Thread |-> IF u = t THEN q ELSE pc[u]]
    BY <1>6, GotoType DEF TypeInv
<1>8. ASSUME QueueMax > 0, NEW u \in Thread, \A v \in Thread \ {u} : setup.posts[v] = 0
      PROVE  Size' <= QueueMax /\ (Size' = QueueMax => pc'[u] = "full")
  <2>1. u = t
      BY <1>1, <1>3, <1>8 DEF BoundInv, Setups
  <2>2. Size <= QueueMax /\ Size # QueueMax
    <3>1. AfterPost(t) # "full"
        BY DEF AfterPost
    <3> QED BY <1>7, <1>8, <2>1, <3>1 DEF BoundInv
  <2>3. Size' <= Size + 1 /\ Size \in Nat /\ Size' \in Nat
      BY <1>2, <1>5 DEF Size
  <2>4. Size' <= QueueMax
      BY <1>1, <2>2, <2>3
  <2>5. ASSUME Size' = QueueMax PROVE q = "full"
      BY <1>1, <1>6, <1>8, <2>3, <2>5 DEF Throttle
  <2> QED BY <1>7, <2>1, <2>4, <2>5
<1>9. Historical /\ Coalesced => Len(events') <= Len(historical')
    BY <1>5 DEF BoundInv
<1> QED BY <1>1, <1>2, <1>4, <1>8, <1>9 DEF BoundInv

\* Every step keeps the queues bounded.
LEMMA BoundNext ==
    ASSUME TypeInv, QueuesOfMount, OrderInv, BoundInv, Next
    PROVE  BoundInv'
<1>1. UNCHANGED setup /\ QueueMax' = QueueMax
      /\ (Coalesced' <=> Coalesced) /\ (Historical' <=> Historical)
    BY DEF Next, GoOn, QueueMax, Coalesced, Historical, Mask
<1>2. ASSUME UNCHANGED <<events, historical, budget>>,
             \A t \in Thread : pc[t] = "full" => pc'[t] = "full" \/ Size # QueueMax
      PROVE  BoundInv'
    BY <1>1, <1>2 DEF BoundInv, Size
<1>3. ASSUME NEW t \in Thread, NEW k \in Key, Post(t, k)
      PROVE  BoundInv'
    BY <1>1, <1>3, PostBound
<1>4. ASSUME NEW t \in Thread, Unblock(t)
      PROVE  BoundInv'
  <2>1. PICK p \in {"late", "full"} : /\ Goto(t, p, AfterPost(t))
                                      /\ p = "full" => Size # QueueMax
      BY <1>4 DEF Unblock, PollWasLate, QueueNotFull
  <2>2. pc[t] = p /\ pc' = [u \in Thread |-> IF u = t THEN AfterPost(t) ELSE pc[u]]
      BY <2>1, GotoType DEF TypeInv
  <2>3. UNCHANGED <<events, historical, budget>>
      BY <1>4 DEF Unblock, PollWasLate, QueueNotFull, queues
  <2> QED BY <1>2, <2>1, <2>2, <2>3
<1>5. CASE Poll
  <2>1. Len(events') = 0 /\ Len(historical') = 0 /\ Size' = 0
      BY <1>5 DEF Poll, Size
  <2>2. budget' = budget
      BY <1>5 DEF Poll
  <2>3. QueueMax > 0 => 0 <= QueueMax /\ QueueMax # 0
      BY MountAssumption DEF TypeInv, TypeOK, Typed, QueueMax, Setups
  <2> QED BY <1>1, <2>1, <2>2, <2>3 DEF BoundInv
<1>6. CASE CheckQuit \/ BatchNotify \/ HistoryBatchNotify \/ Handle \/ Handled \/ PollDone
           \/ Quit \/ Join
  <2>1. UNCHANGED <<events, historical, budget>>
      BY <1>6 DEF CheckQuit, BatchNotify, HistoryBatchNotify, Handle, Handled, PollDone,
                  Quit, Join, queues
  <2>2. \A t \in Thread : pc[t] = "full" => pc'[t] = "full"
      BY <1>6, MountAssumption
      DEF CheckQuit, BatchNotify, HistoryBatchNotify, Handle, Handled, PollDone, Quit,
          Join, Goto, TypeInv, TypeOK, Typed
  <2> QED BY <1>2, <2>1, <2>2
<1> QED BY <1>3, <1>4, <1>5, <1>6 DEF Next, PollStep

\* The lists are as long as the invariant says.
LEMMA BoundImplies ==
    ASSUME TypeInv, QueuesOfMount, BoundInv
    PROVE  QueueIsBounded
<1> SUFFICES ASSUME QueueMax > 0, NEW t \in Thread,
                    \A u \in Thread \ {t} : setup.posts[u] = 0
             PROVE  Len(events) <= QueueMax /\ Len(historical) <= QueueMax
    BY DEF QueueIsBounded
<1>1. /\ QueueMax \in Nat /\ Len(events) \in Nat /\ Len(historical) \in Nat
    BY MountAssumption DEF TypeInv, TypeOK, Typed, QueueMax, Setups
<1>2. Size <= QueueMax
    BY DEF BoundInv
<1>3. /\ ~Coalesced => Len(events) = 0
      /\ ~Historical => Len(historical) = 0
    BY DEF QueuesOfMount
<1> QED BY <1>1, <1>2, <1>3 DEF Size, BoundInv

(***************************************************************************)
(* The reference counts of a mount with one queue                          *)
(***************************************************************************)
\* The history is numbered consecutively.
LEMMA HistoryNumbers ==
    ASSUME TypeInv, HistoryIsComplete, Historical
    PROVE  /\ \A i \in DOMAIN history : history[i] = Len(recorded) + i
           /\ \A i \in DOMAIN historical :
                 historical[i] = Len(recorded) + Len(history) + i
           /\ Len(recorded) + Len(history) + Len(historical) = last
<1> DEFINE s == recorded \o history
           r == s \o historical
<1>1. /\ recorded \in Seq(Event) /\ history \in Seq(Event) /\ historical \in Seq(Event)
      /\ last \in Nat
      /\ Len(recorded) \in Nat /\ Len(history) \in Nat /\ Len(historical) \in Nat
      /\ DOMAIN history = 1..Len(history)
      /\ DOMAIN historical = 1..Len(historical)
    BY MountAssumption DEF TypeInv, TypeOK, Typed
<1>2. /\ s \in Seq(Event) /\ Len(s) = Len(recorded) + Len(history)
      /\ \A i \in DOMAIN history : s[Len(recorded) + i] = history[i]
    BY <1>1
<1>3. /\ Len(r) = Len(s) + Len(historical)
      /\ \A i \in 1..Len(s) : r[i] = s[i]
      /\ \A i \in DOMAIN historical : r[Len(s) + i] = historical[i]
  <2> HIDE DEF s
  <2>1. /\ Len(r) = Len(s) + Len(historical)
        /\ \A i \in 1..Len(s) + Len(historical) :
              r[i] = IF i <= Len(s) THEN s[i] ELSE historical[i - Len(s)]
    <3>1. \A a, b \in Seq(Event) :
              /\ Len(a \o b) = Len(a) + Len(b)
              /\ \A i \in 1..Len(a) + Len(b) :
                    (a \o b)[i] = IF i <= Len(a) THEN a[i] ELSE b[i - Len(a)]
        BY ConcatProperties
    <3> QED BY <1>1, <1>2, <3>1
  <2>2. \A i \in DOMAIN historical : /\ Len(s) + i \in 1..Len(s) + Len(historical)
                                     /\ ~(Len(s) + i <= Len(s))
                                     /\ (Len(s) + i) - Len(s) = i
      BY <1>1, <1>2
  <2>3. \A i \in 1..Len(s) : i \in 1..Len(s) + Len(historical) /\ i <= Len(s)
      BY <1>1, <1>2
  <2> HIDE DEF r
  <2> QED BY <2>1, <2>2, <2>3
<1>4. r = [e \in 1..last |-> e]
    BY DEF HistoryIsComplete
<1> HIDE DEF s, r
<1>5. Len(r) = last /\ \A i \in 1..last : r[i] = i
    BY <1>1, <1>4
<1>6. \A i \in DOMAIN history : Len(recorded) + i \in 1..last /\ Len(recorded) + i \in 1..Len(s)
    BY <1>1, <1>2, <1>3, <1>5
<1>7. \A i \in DOMAIN historical : Len(s) + i \in 1..last
    BY <1>1, <1>2, <1>3, <1>5
<1> QED BY <1>1, <1>2, <1>3, <1>5, <1>6, <1>7

\* A mount has a queue.
LEMMA SomeQueue ==
    ASSUME TypeInv
    PROVE  Historical \/ Coalesced
<1>1. setup \in Setups
    BY MountAssumption DEF TypeInv, TypeOK, Typed
<1>2. Mask \in (SUBSET {"notify", "batch", "history"}) \ {{}}
  <2> DEFINE M == (SUBSET {"notify", "batch", "history"}) \ {{}}
  <2>1. Setups = [mask: M, max: Nat, posts: [Thread -> Nat], destructs: BOOLEAN]
      BY DEF Setups
  <2> HIDE DEF M
  <2>2. setup.mask \in M
      BY <1>1, <2>1
  <2> QED BY <2>2 DEF M, Mask
<1>3. \E m \in Mask : m \in {"notify", "batch", "history"}
  <2> DEFINE S == {"notify", "batch", "history"}
  <2>1. Mask \in SUBSET S /\ Mask # {}
      BY <1>2
  <2> HIDE DEF S
  <2>2. \E m \in Mask : m \in S
      BY <2>1
  <2> QED BY <2>2 DEF S
<1> QED BY <1>3 DEF Historical, Coalesced

\* An event in the batch is not in the queue.
LEMMA BatchIsNotQueued ==
    ASSUME TypeInv, OrderInv, NEW i \in DOMAIN batch, NEW j \in DOMAIN events
    PROVE  batch[i] # events[j]
<1> SUFFICES ASSUME batch[i] = events[j] PROVE FALSE
    OBVIOUS
<1>1. batch[i] < events[j]
    BY DEF OrderInv, Older
<1>2. events[j] \in Event
    BY DEF TypeInv, TypeOK, Typed
<1>3. events[j] \in Nat
    BY <1>2, MountAssumption DEF Event
<1> QED BY <1>1, <1>3

\* The events that a post releases are those about the same object.
LEMMA ReleasedEvents ==
    ASSUME TypeInv, OrderInv, NEW k \in Key, NEW e
    PROVE  \A f : f \in Enqueue(e, k).released
                     <=> \E i \in DOMAIN events : key[events[i]] = k /\ f = events[i]
<1>1. CASE SameObject(k) = {}
  <2>1. Enqueue(e, k).released = {}
      BY <1>1 DEF Enqueue
  <2> QED BY <1>1, <2>1 DEF SameObject
<1>2. CASE SameObject(k) # {}
  <2>1. Enqueue(e, k).released = {events[i] : i \in SameObject(k)}
      BY <1>2 DEF Enqueue
  <2> QED BY <2>1 DEF SameObject
<1> QED BY <1>1, <1>2

\* The new event has a reference, and the one it replaces is freed.
LEMMA PostCount ==
    ASSUME TypeInv, QueuesOfMount, OrderInv, CountInv, HistoryIsComplete, UNCHANGED setup,
           NEW t \in Thread, NEW k \in Key, Post(t, k), OneQueue
    PROVE  /\ \A f \in Event : f <= last' => refcount'[f] = IF Queued(f)' THEN 1 ELSE 0
           /\ fault' = "none"
<1>10. PICK e \in Event : e = last + 1
    BY MountAssumption DEF Post, Event, TypeInv, TypeOK, Typed
<1> DEFINE released == IF Coalesced THEN Enqueue(e, k).released ELSE {}
<1>1. /\ e \in Event /\ last' = e /\ last \in Nat
      /\ batch' = batch /\ history' = history
      /\ historical' = IF Historical THEN Append(historical, e) ELSE historical
      /\ Access(released)
    BY <1>10, MountAssumption DEF Post, Event, Recorded, TypeInv, TypeOK, Typed, polling
<1>3. \A f : f \in released
                <=> Coalesced /\ \E i \in DOMAIN events : key[events[i]] = k /\ f = events[i]
    BY ReleasedEvents
<1>4. \A f \in released : f \in Event /\ f <= last /\ Queued(f)
    BY <1>3 DEF TypeInv, TypeOK, Typed, OrderInv, Posted, Queued
<1>2. refcount' = [f \in Event |-> IF f = e THEN 1
                                  ELSE IF f \in released THEN refcount[f] - 1 ELSE refcount[f]]
  <2>1. refcount' = [f \in Event |->
                       CASE f = e -> IF Historical /\ Coalesced /\ SameObject(k) = {} THEN 2 ELSE 1
                         [] f \in released -> refcount[f] - 1
                         [] OTHER -> refcount[f]]
      BY <1>10 DEF Post
  <2>2. ~(Historical /\ Coalesced /\ SameObject(k) = {})
      BY DEF OneQueue
  <2> HIDE DEF released
  <2>3. e \notin released
      BY <1>1, <1>4, <1>10
  <2>4. \A f \in Event :
            (CASE f = e -> IF Historical /\ Coalesced /\ SameObject(k) = {} THEN 2 ELSE 1
               [] f \in released -> refcount[f] - 1
               [] OTHER -> refcount[f])
            = IF f = e THEN 1 ELSE IF f \in released THEN refcount[f] - 1 ELSE refcount[f]
      BY <2>2, <2>3
  <2> QED BY <2>1, <2>4
<1> HIDE DEF released
<1>5. \A f \in released : refcount[f] = 1
    BY <1>4 DEF CountInv
<1>6. fault' = "none"
    BY <1>1, <1>5 DEF Access, CountInv
<1>7. refcount'[e] = 1 /\ Queued(e)'
  <2>1. refcount'[e] = 1
    <3> QED BY <1>1, <1>2
  <2>2. CASE Coalesced
    <3>1. \E i \in DOMAIN events' : events'[i] = last'
        BY <2>2, PostEffect
    <3>2. \E i \in DOMAIN events' : events'[i] = e
        BY <1>1, <3>1
    <3> QED BY <2>1, <3>2 DEF Queued
  <2>3. CASE Historical
    <3>1. \E i \in DOMAIN historical' : historical'[i] = e
      <4>1. historical \in Seq(Event) /\ historical' = Append(historical, e)
          BY <1>1, <2>3 DEF TypeInv, TypeOK, Typed
      <4> QED BY <1>1, <4>1
    <3> QED BY <2>1, <3>1 DEF Queued
  <2> QED BY <2>1, <2>2, <2>3, SomeQueue
<1>8. ASSUME NEW f \in Event, f <= last
      PROVE  refcount'[f] = IF Queued(f)' THEN 1 ELSE 0
  <2>1. f # e /\ refcount'[f] = IF f \in released THEN refcount[f] - 1 ELSE refcount[f]
      BY <1>1, <1>2, <1>8, <1>10 DEF Event
  <2>2. (\E i \in DOMAIN historical' : historical'[i] = f)
           <=> \E i \in DOMAIN historical : historical[i] = f
    <3>1. CASE Historical
      <4>1. /\ historical \in Seq(Event) /\ historical' = Append(historical, e)
            /\ e \in Event
          BY <1>1, <3>1 DEF TypeInv, TypeOK, Typed
      <4> QED BY <2>1, <4>1
    <3>2. CASE ~Historical
        BY <1>1, <3>2
    <3> QED BY <3>1, <3>2
  <2>3. /\ \A i \in DOMAIN events' :
              \/ events'[i] = e
              \/ i \in DOMAIN events /\ events'[i] = events[i] /\ key[events[i]] # k
        /\ \A i \in DOMAIN events :
              key[events[i]] # k => i \in DOMAIN events' /\ events'[i] = events[i]
      BY <1>1, PostEffect
  <2>4. CASE f \in released
    <3>1. PICK i \in DOMAIN events : key[events[i]] = k /\ f = events[i] /\ Coalesced
        BY <1>3, <2>4
    <3>2. \A j \in DOMAIN events' : events'[j] # f
        BY <2>1, <2>3, <3>1
    <3>3. \A j \in DOMAIN batch : batch[j] # f
        BY <3>1, BatchIsNotQueued
    <3>4. historical' = <<>> /\ history' = <<>>
        BY <1>1, <3>1 DEF QueuesOfMount, OneQueue
    <3>5. ~Queued(f)'
        BY <1>1, <3>2, <3>3, <3>4 DEF Queued
    <3> QED BY <1>5, <2>1, <2>4, <3>5
  <2>5. CASE f \notin released
    <3>1. (\E j \in DOMAIN events' : events'[j] = f) <=> \E j \in DOMAIN events : events[j] = f
      <4>1. CASE Coalesced
          BY <1>3, <2>1, <2>3, <2>5, <4>1
      <4>2. CASE ~Coalesced
          BY <4>2, <2>1, <2>3 DEF QueuesOfMount
      <4> QED BY <4>1, <4>2
    <3>2. Queued(f)' <=> Queued(f)
        BY <1>1, <2>2, <3>1 DEF Queued
    <3> QED BY <1>8, <2>1, <2>5, <3>2 DEF CountInv
  <2> QED BY <2>4, <2>5
<1>9. \A f \in Event : f <= last' => f <= last \/ f = e
    BY <1>1, <1>10 DEF Event
<1> QED BY <1>6, <1>7, <1>8, <1>9

\* Every step keeps the counts.
LEMMA CountNext ==
    ASSUME TypeInv, QueuesOfMount, OrderInv, HistoryIsComplete, CountInv, Next
    PROVE  CountInv'
<1>1. UNCHANGED setup
    BY DEF Next, GoOn
<1>2. (OneQueue' <=> OneQueue) /\ (Historical' <=> Historical) /\ (Coalesced' <=> Coalesced)
    BY <1>1 DEF OneQueue, Historical, Coalesced, Mask
<1> SUFFICES ASSUME OneQueue PROVE CountInv'
    BY <1>2 DEF CountInv
<1>3. /\ \A e \in Event : e <= last => refcount[e] = IF Queued(e) THEN 1 ELSE 0
      /\ fault = "none"
    BY DEF CountInv
<1>4. ASSUME UNCHANGED <<last, refcount, fault>>,
             \A e \in Event : Queued(e)' <=> Queued(e)
      PROVE  CountInv'
    BY <1>2, <1>3, <1>4 DEF CountInv
<1>5. ASSUME NEW t \in Thread, NEW k \in Key, Post(t, k)
      PROVE  CountInv'
    BY <1>1, <1>5, PostCount DEF CountInv
<1>6. ASSUME NEW t \in Thread, Unblock(t)
      PROVE  CountInv'
    BY <1>4, <1>6 DEF Unblock, PollWasLate, QueueNotFull, queues, polling, Queued
<1>7. CASE Poll
  <2>1. batch = <<>> /\ history = <<>>
      BY <1>7 DEF Poll, Goto, TypeInv, TypeOK, WellFormed
  <2> QED BY <1>4, <1>7, <2>1 DEF Poll, Queued
<1>8. \A i \in DOMAIN batch : batch[i] \in Event /\ refcount[batch[i]] = 1
    BY <1>3 DEF OrderInv, Posted, Queued, TypeInv, TypeOK, Typed
<1>9. CASE BatchNotify
  <2>1. fault' = fault
      BY <1>8, <1>9 DEF BatchNotify, Access, ToSet
  <2> QED BY <1>4, <1>9, <2>1 DEF BatchNotify, queues, polling, Queued
<1>10. CASE HistoryBatchNotify
  <2>1. /\ UNCHANGED <<events, historical, batch, last>>
        /\ history' = <<>> /\ Access(ToSet(history))
        /\ refcount' = [e \in Event |->
                          IF e \in ToSet(history) THEN refcount[e] - 1 ELSE refcount[e]]
      BY <1>10 DEF HistoryBatchNotify, queues
  <2>2. \A e : e \in ToSet(history) <=> \E i \in DOMAIN history : history[i] = e
      BY DEF ToSet
  <2>3. \A i \in DOMAIN history : /\ history[i] \in Event /\ history[i] <= last
                                  /\ \A j \in DOMAIN historical : historical[j] # history[i]
                                  /\ events = <<>> /\ batch = <<>>
    <3>1. CASE Historical
      <4>1. events = <<>> /\ batch = <<>>
          BY <3>1 DEF QueuesOfMount, OneQueue
      <4> QED BY <3>1, <4>1, HistoryNumbers DEF TypeInv, TypeOK, Typed
    <3>2. CASE ~Historical
        BY <3>2 DEF QueuesOfMount
    <3> QED BY <3>1, <3>2
  <2>4. fault' = fault
    <3>1. \A e \in ToSet(history) : refcount[e] = 1
        BY <1>3, <2>2, <2>3 DEF Queued
    <3> QED BY <2>1, <3>1 DEF Access
  <2>5. ASSUME NEW e \in Event, e <= last
        PROVE  refcount'[e] = IF Queued(e)' THEN 1 ELSE 0
    <3>1. CASE e \in ToSet(history)
      <4>1. Queued(e) /\ ~Queued(e)'
          BY <2>1, <2>2, <2>3, <3>1 DEF Queued
      <4> QED BY <1>3, <2>1, <2>5, <3>1, <4>1
    <3>2. CASE e \notin ToSet(history)
      <4>1. Queued(e)' <=> Queued(e)
          BY <2>1, <2>2, <3>2 DEF Queued
      <4> QED BY <1>3, <2>1, <2>5, <3>2, <4>1
    <3> QED BY <3>1, <3>2
  <2> QED BY <1>2, <1>3, <2>1, <2>4, <2>5 DEF CountInv
<1>11. CASE Handle
  <2>1. Head(batch) \in Event /\ refcount[Head(batch)] = 1
      BY <1>8, <1>11 DEF Handle, TypeInv, TypeOK, Typed
  <2>2. fault' = fault
      BY <1>11, <2>1 DEF Handle, Access
  <2> QED BY <1>4, <1>11, <2>2 DEF Handle, queues, polling, Queued
<1>12. CASE Handled
  <2>11. batch # <<>> /\ 1 \in DOMAIN batch /\ Head(batch) = batch[1]
      BY <1>12 DEF Handled, Goto, TypeInv, TypeOK, Typed, WellFormed
  <2>1. PICK h \in Event : h = batch[1] /\ Head(batch) = h /\ refcount[h] = 1
      BY <1>8, <2>11
  <2>2. /\ UNCHANGED <<events, historical, history, last>>
        /\ batch' = Tail(batch)
        /\ refcount' = [refcount EXCEPT ![h] = @ - 1]
        /\ fault' = fault
      BY <1>12, <2>1, <2>11 DEF Handled, queues
  <2>3. historical = <<>> /\ history = <<>>
      BY <2>1, <2>11 DEF QueuesOfMount, OneQueue
  <2>4. \A i \in DOMAIN events : events[i] # h
      BY <2>1, <2>11, BatchIsNotQueued
  <2>5. \A i \in DOMAIN batch' : i + 1 \in DOMAIN batch /\ i + 1 # 1 /\ batch'[i] = batch[i + 1]
      BY <2>1, <2>2, <2>11, HeadTailProperties, SMTT(30) DEF TypeInv, TypeOK, Typed
  <2>6. \A i \in DOMAIN batch : i = 1 \/ (i - 1 \in DOMAIN batch' /\ batch'[i - 1] = batch[i])
      BY <2>1, <2>2, <2>11, TailEntries DEF TypeInv, TypeOK, Typed
  <2>7. \A i \in DOMAIN batch' : batch'[i] # h
      BY <2>1, <2>5, <2>11 DEF OrderInv, DistinctKeys
  <2>8. ~Queued(h)'
      BY <2>2, <2>3, <2>4, <2>7 DEF Queued
  <2>9. ASSUME NEW e \in Event, e # h
        PROVE  Queued(e)' <=> Queued(e)
    <3>1. (\E i \in DOMAIN batch' : batch'[i] = e) => \E i \in DOMAIN batch : batch[i] = e
        BY <2>5
    <3>2. ASSUME NEW i \in DOMAIN batch, batch[i] = e
          PROVE  \E j \in DOMAIN batch' : batch'[j] = e
      <4>1. i - 1 \in DOMAIN batch' /\ batch'[i - 1] = e
          BY <2>1, <2>6, <2>9, <3>2
      <4> QED BY <4>1
    <3> QED BY <2>2, <3>1, <3>2 DEF Queued
  <2>10. \A e \in Event : refcount'[e] = IF e = h THEN 0 ELSE refcount[e]
      BY <2>1, <2>2, <2>11 DEF TypeInv, TypeOK, Typed
  <2> QED BY <1>2, <1>3, <2>2, <2>8, <2>9, <2>10 DEF CountInv
<1>13. CASE CheckQuit \/ PollDone \/ Quit \/ Join
    BY <1>4, <1>13 DEF CheckQuit, PollDone, Quit, Join, queues, polling, Queued
<1> QED BY <1>5, <1>6, <1>7, <1>9, <1>10, <1>11, <1>12, <1>13 DEF Next, PollStep

\* Where an event is in a list.
Places(s, e) == {i \in DOMAIN s : s[i] = e}

\* An element of two lists that hold every element once is in one place of both.
LEMMA PlacesOfElement ==
    ASSUME NEW s \in Seq(Event), NEW r \in Seq(Event), NEW e \in Event,
           \A i, j \in DOMAIN s : s[i] = s[j] => i = j,
           \A i, j \in DOMAIN r : r[i] = r[j] => i = j,
           \A i \in DOMAIN s, j \in DOMAIN r : s[i] # r[j]
    PROVE  Cardinality(Places(s \o r, e))
              = IF (\E i \in DOMAIN s : s[i] = e) \/ (\E i \in DOMAIN r : r[i] = e)
                THEN 1 ELSE 0
<1> DEFINE q == s \o r
           P == {i \in DOMAIN q : q[i] = e}
<1>1. /\ DOMAIN s = 1..Len(s) /\ Len(s) \in Nat
      /\ DOMAIN r = 1..Len(r) /\ Len(r) \in Nat
    OBVIOUS
<1>2. /\ DOMAIN q = 1..Len(s) + Len(r)
      /\ \A i \in DOMAIN q : q[i] = IF i <= Len(s) THEN s[i] ELSE r[i - Len(s)]
  <2>1. \A a, b \in Seq(Event) :
            /\ a \o b \in Seq(Event)
            /\ Len(a \o b) = Len(a) + Len(b)
            /\ \A i \in 1..Len(a) + Len(b) :
                  (a \o b)[i] = IF i <= Len(a) THEN a[i] ELSE b[i - Len(a)]
      BY ConcatProperties
  <2> QED BY <1>1, <2>1
<1> HIDE DEF q
<1>3. \A i \in DOMAIN q : i > Len(s) => i - Len(s) \in DOMAIN r
    BY <1>1, <1>2
<1>4. \A i \in DOMAIN q : i <= Len(s) => i \in DOMAIN s
    BY <1>1, <1>2
<1>5. \A i, j \in P : i = j
  <2> SUFFICES ASSUME NEW i \in P, NEW j \in P PROVE i = j
      OBVIOUS
  <2>1. CASE i <= Len(s) /\ j <= Len(s)
      BY <1>2, <1>4, <2>1
  <2>2. CASE i > Len(s) /\ j > Len(s)
    <3>1. i - Len(s) = j - Len(s)
        BY <1>1, <1>2, <1>3, <2>2
    <3> QED BY <1>1, <1>2, <3>1
  <2>3. CASE i <= Len(s) /\ j > Len(s)
      BY <1>1, <1>2, <1>3, <1>4, <2>3
  <2>4. CASE i > Len(s) /\ j <= Len(s)
      BY <1>1, <1>2, <1>3, <1>4, <2>4
  <2> QED BY <1>1, <1>2, <2>1, <2>2, <2>3, <2>4
<1>6. CASE \E i \in DOMAIN s : s[i] = e
  <2>1. PICK i \in DOMAIN s : s[i] = e
      BY <1>6
  <2>2. i \in P
      BY <1>1, <1>2, <2>1
  <2>3. P = {i}
      BY <1>5, <2>2
  <2> QED BY <1>6, <2>3, FS_Singleton DEF q, Places
<1>7. CASE \E i \in DOMAIN r : r[i] = e
  <2>1. PICK i \in DOMAIN r : r[i] = e
      BY <1>7
  <2>2. i + Len(s) \in DOMAIN q /\ ~(i + Len(s) <= Len(s)) /\ (i + Len(s)) - Len(s) = i
      BY <1>1, <1>2, <2>1
  <2>3. i + Len(s) \in P
      BY <1>2, <2>1, <2>2
  <2>4. P = {i + Len(s)}
      BY <1>5, <2>3
  <2> QED BY <1>7, <2>4, FS_Singleton DEF q, Places
<1>8. CASE ~(\E i \in DOMAIN s : s[i] = e) /\ ~(\E i \in DOMAIN r : r[i] = e)
  <2>1. P = {}
      BY <1>1, <1>2, <1>3, <1>4, <1>8
  <2> QED BY <1>8, <2>1, FS_EmptySet DEF q, Places
<1> QED BY <1>6, <1>7, <1>8

\* The counts of a mount with one queue are exact.
LEMMA CountImplies ==
    ASSUME TypeInv, QueuesOfMount, OrderInv, HistoryIsComplete, CountInv, OneQueue
    PROVE  RefcountIsExact
<1> SUFFICES ASSUME NEW e \in Event, e <= last
             PROVE  refcount[e] = Copies(e)
    BY DEF RefcountIsExact
<1>1. refcount[e] = IF Queued(e) THEN 1 ELSE 0
    BY DEF CountInv
<1>2. /\ events \in Seq(Event) /\ batch \in Seq(Event)
      /\ historical \in Seq(Event) /\ history \in Seq(Event)
      /\ DOMAIN <<>> = {}
    BY DEF TypeInv, TypeOK, Typed
<1>3. CASE Coalesced
  <2>1. historical = <<>> /\ history = <<>>
      BY <1>3 DEF QueuesOfMount, OneQueue
  <2>2. events \o historical \o batch \o history = events \o batch
      BY <1>2, <2>1, ConcatEmptySeq, ConcatProperties
  <2>3. /\ \A i, j \in DOMAIN events : events[i] = events[j] => i = j
        /\ \A i, j \in DOMAIN batch : batch[i] = batch[j] => i = j
        /\ \A i \in DOMAIN events, j \in DOMAIN batch : events[i] # batch[j]
      BY BatchIsNotQueued DEF OrderInv, DistinctKeys
  <2>4. Queued(e) <=> (\E i \in DOMAIN events : events[i] = e)
                         \/ (\E i \in DOMAIN batch : batch[i] = e)
      BY <1>2, <2>1 DEF Queued
  <2>5. Cardinality(Places(events \o batch, e)) = IF Queued(e) THEN 1 ELSE 0
    <3>1. Cardinality(Places(events \o batch, e))
             = IF (\E i \in DOMAIN events : events[i] = e) \/ (\E i \in DOMAIN batch : batch[i] = e)
               THEN 1 ELSE 0
        BY <1>2, <2>3, PlacesOfElement
    <3> QED BY <2>4, <3>1
  <2> QED BY <1>1, <2>2, <2>5 DEF Copies, Places
<1>4. CASE Historical
  <2>1. events = <<>> /\ batch = <<>>
      BY <1>4 DEF QueuesOfMount, OneQueue
  <2>2. events \o historical \o batch \o history = historical \o history
      BY <1>2, <2>1, ConcatEmptySeq, ConcatProperties
  <2>3. /\ \A i \in DOMAIN history : history[i] = Len(recorded) + i
        /\ \A i \in DOMAIN historical : historical[i] = Len(recorded) + Len(history) + i
        /\ Len(recorded) \in Nat /\ Len(history) \in Nat /\ Len(historical) \in Nat
        /\ DOMAIN history = 1..Len(history) /\ DOMAIN historical = 1..Len(historical)
      BY <1>4, HistoryNumbers, SMTT(30) DEF TypeInv, TypeOK, Typed
  <2>4. /\ \A i, j \in DOMAIN historical : historical[i] = historical[j] => i = j
        /\ \A i, j \in DOMAIN history : history[i] = history[j] => i = j
        /\ \A i \in DOMAIN historical, j \in DOMAIN history : historical[i] # history[j]
      BY <2>3
  <2>5. Queued(e) <=> (\E i \in DOMAIN historical : historical[i] = e)
                         \/ (\E i \in DOMAIN history : history[i] = e)
      BY <1>2, <2>1 DEF Queued
  <2>6. Cardinality(Places(historical \o history, e)) = IF Queued(e) THEN 1 ELSE 0
    <3>1. Cardinality(Places(historical \o history, e))
             = IF (\E i \in DOMAIN historical : historical[i] = e) \/ (\E i \in DOMAIN history : history[i] = e)
               THEN 1 ELSE 0
        BY <1>2, <2>4, PlacesOfElement
    <3> QED BY <2>5, <3>1
  <2> QED BY <1>1, <2>2, <2>6 DEF Copies, Places
<1> QED BY <1>3, <1>4, SomeQueue

(***************************************************************************)
(* The theorems                                                            *)
(***************************************************************************)
\* What every reachable state satisfies.
IInv ==
    /\ TypeInv /\ QueuesOfMount /\ OrderInv
    /\ LatestIsKept /\ HistoryIsComplete
    /\ CountInv /\ BoundInv

\* The invariant holds at first, and every step preserves it.
LEMMA Invariance == Spec => []IInv
<1>1. Init => IInv
  <2> SUFFICES ASSUME Init PROVE IInv
      OBVIOUS
  <2>1. CountInv
    <3>1. last = 0 /\ fault = "none"
        BY DEF Init
    <3>2. \A e \in Event : ~(e <= last)
        BY <3>1, MountAssumption DEF Event
    <3> QED BY <3>1, <3>2 DEF CountInv
  <2> QED BY <2>1, TypeInit, OrderInit, KeptInit, BoundInit DEF IInv
<1>2. IInv /\ [Next]_vars => IInv'
  <2> SUFFICES ASSUME IInv, [Next]_vars PROVE IInv'
      OBVIOUS
  <2>1. TypeInv'
      BY TypeNext DEF IInv, OrderInv
  <2>2. CASE Next
      BY <2>1, <2>2, QueuesOfMountNext, OrderNext, KeptNext, HistoryNext, CountNext, BoundNext
      DEF IInv
  <2>3. CASE UNCHANGED vars
    <3>1. UNCHANGED <<setup, events, historical, last, key, refcount, pc, batch, history,
                      handled, recorded, budget, fault>>
        BY <2>3 DEF vars, queues, polling, ghosts
    <3>2. QueuesOfMount' /\ OrderInv' /\ LatestIsKept' /\ HistoryIsComplete'
        BY <3>1 DEF IInv, QueuesOfMount, OrderInv, Posted, DistinctKeys, Older,
                    NewerInBatch, HandledInOrder, InCallback, LatestIsKept,
                    HistoryIsComplete, Coalesced, Historical, Mask
    <3>3. CountInv' /\ BoundInv'
        BY <3>1 DEF IInv, CountInv, BoundInv, OneQueue, Queued, Size, QueueMax,
                    Coalesced, Historical, Mask
    <3> QED BY <2>1, <3>2, <3>3 DEF IInv
  <2> QED BY <2>2, <2>3
<1> QED BY <1>1, <1>2, PTL DEF Spec

\* Every variable of the mount and its threads keeps its type, whatever the
\* publishers, the callbacks and the destruct do.
THEOREM TypeCorrect == Spec => []TypeOK
<1>1. IInv => TypeOK
    BY DEF IInv, TypeInv
<1> QED BY <1>1, Invariance, PTL

\* However posts, polls and callbacks interleave, corto_mount_notify is not given
\* an older event of an object after a newer one.
THEOREM EventsAreHandledInOrder == Spec => []HandledInOrder
<1>1. IInv => HandledInOrder
    BY DEF IInv, OrderInv
<1> QED BY <1>1, Invariance, PTL

\* Coalescing loses no object, and a history is complete and in order: what
\* corto_mount_post queues is handled, or is still queued.
THEOREM NoEventIsLost == Spec => []NothingIsLost
<1>1. IInv => NothingIsLost
    BY DEF IInv, NothingIsLost
<1> QED BY <1>1, Invariance, PTL

\* The queue of a mount with one publisher does not outgrow queue.max.
THEOREM QueueOfOnePublisherIsBounded == Spec => []QueueIsBounded
<1>1. IInv => QueueIsBounded
    BY BoundImplies DEF IInv
<1> QED BY <1>1, Invariance, PTL

\* An event of a mount with one queue is freed when it is replaced or handled,
\* and not before; and nothing that was freed is used.
THEOREM QueuesAreSound ==
    Spec => [](OneQueue => QueueIsSound /\ fault = "none")
<1>1. IInv => (OneQueue => QueueIsSound /\ fault = "none")
    BY BoundImplies, CountImplies DEF IInv, TypeInv, CountInv, QueueIsSound
<1> QED BY <1>1, Invariance, PTL
=============================================================================
