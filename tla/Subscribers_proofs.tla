------------------------- MODULE Subscribers_proofs -------------------------
(***************************************************************************)
(* Proofs about Subscribers: the events about an object reach a subscriber *)
(* in the order of its changes, also when it is aligned in between; the    *)
(* count of a value that events share is exact; a subscriber that is       *)
(* aligned has the present state of its objects when nothing is under way. *)
(***************************************************************************)
EXTENDS Subscribers, SequenceTheorems, FiniteSetTheorems, WellFoundedInduction, TLAPS

Events == [key: Key, version: Nat, past: SUBSET Nat, exists: BOOLEAN, value: ValueId \cup {0}]

\* The state of the subscribers is typed.
SubscribersTyped ==
    /\ program \in Programs
    /\ version \in [Key -> Nat] /\ registered \in SUBSET Entity
    /\ isAligning \in [Subscriber -> BOOLEAN] /\ holder \in [Subscriber -> Thread \cup {NoThread}]
    /\ alignQueue \in [Subscriber -> Seq(Events)] /\ posted \in [Subscriber -> Seq(Events)]
    /\ seen \in [Subscriber -> [Key -> Events]]

ThreadsTyped ==
    /\ pc \in [Thread -> {"idle", "walk", "lock", "invoke", "deliver", "align", "mounts", "aligning",
                          "flush", "unsubscribe"}]
    /\ event \in [Thread -> Events] /\ current \in [Thread -> Entity]
    /\ todo \in [Thread -> SUBSET (Entity \cup Key)]
    /\ \A t \in Thread : pc[t] \in {"walk", "lock", "invoke", "deliver"} => todo[t] \subseteq Entity
    /\ \A t \in Thread : pc[t] \in {"mounts", "aligning", "flush"} => todo[t] \subseteq Key
    /\ locked \in [Thread -> BOOLEAN] /\ sync \in [Thread -> BOOLEAN]

ValuesTyped ==
    /\ cache \in [Thread -> [Format -> ValueId \cup {0}]]
    /\ mem \in [ValueId -> {"unused", "live", "borrowed", "freed"}]
    /\ shared \in [ValueId -> Int]

AlignTyped == SubscribersTyped /\ ThreadsTyped /\ ValuesTyped

\* Thread t has the align mutex of subscriber s in order to align it.
Aligns(t, s) == pc[t] \in {"mounts", "aligning", "flush"} /\ Sub(t) = s

\* Thread t has an align mutex.
Owns(t) == pc[t] \in {"mounts", "aligning", "flush"} \/ (pc[t] \in {"invoke", "deliver"} /\ locked[t])

\* A subscriber is being aligned, and has events in its align queue, when a thread aligns it.
Mutexes == \A t \in Thread : Owns(t) => holder[Sub(t)] = t
Flags == \A t \in Thread :
    pc[t] \in {"mounts", "aligning", "flush"} => (isAligning[Sub(t)] <=> pc[t] # "flush")
AlignedBySomeone ==
    \A s \in Subscriber : isAligning[s] \/ alignQueue[s] # <<>> => \E t \in Thread : Aligns(t, s)
Locks == Mutexes /\ Flags /\ AlignedBySomeone

\* What keeps notifications and the alignment of a subscriber that is not raced apart: no
\* notification goes on when the alignment is about to start, no subscriber is notified and
\* aligned at once, and those whose align queue is flushed are not notified later.
NotYet == \A t, u \in Thread : pc[t] = "align" /\ Sub(t) \notin raced => u \notin Notifying
Apart == \A t, u \in Thread :
    pc[t] \in {"mounts", "aligning", "flush"} /\ pc[u] \in {"invoke", "deliver"} /\ Sub(t) \notin raced
        => Sub(t) # Sub(u)
NoMore == \A t, u \in Thread : pc[t] = "flush" /\ Sub(t) \notin raced /\ u \in Notifying
             => (pc[u] = "lock" /\ Sub(u) = Sub(t)) \/ \A e \in todo[u] : e[1] # Sub(t)
Windows == NotYet /\ Apart /\ NoMore

\* The past of an event: changes whose notification has ended, and that are not the last one.
Settled(ev) == ev.past \subseteq Ended(ev.key) \ {version[ev.key]}
Begun == \A t \in Notifying : Settled(event[t])
SeenPast(f) == \A k \in Key : f[k].key = k /\ Settled(f[k])
Past(q) == \A i \in 1..Len(q) : Settled(q[i])
Versions ==
    /\ Begun
    /\ \A s \in Subscriber : SeenPast(seen[s]) /\ Past(posted[s]) /\ Past(alignQueue[s])

\* The events about an object are in an order that its changes can have: those that were
\* handled, those that a dispatcher has, those that wait for the end of the alignment.
InOrder(q) == \A i, j \in 1..Len(q) : i < j /\ q[i].key = q[j].key => ~Before(q[j], q[i])
AllBefore(q, r) ==
    \A i \in 1..Len(q) : \A j \in 1..Len(r) : q[i].key = r[j].key => ~Before(r[j], q[i])
SeenBefore(f, q) == \A i \in 1..Len(q) : ~Before(q[i], f[q[i].key])
Line(f, p, q) == InOrder(p) /\ InOrder(q) /\ AllBefore(p, q) /\ SeenBefore(f, p) /\ SeenBefore(f, q)
Ordered ==
    \A s \in Subscriber \ raced :
        /\ ~HasDispatcher(s) => posted[s] = <<>>
        /\ Line(seen[s], posted[s], alignQueue[s])

\* Without a dispatcher, a subscriber that is not aligned is called at once.
Sync == \A t \in Thread :
    pc[t] = "deliver" /\ Sub(t) \notin raced => (sync[t] <=> ~HasDispatcher(Sub(t)))

OrderInv == AlignTyped /\ Locks /\ Windows /\ Versions /\ Ordered /\ Sync

USE SubscriberAssumption DEF Notifying

(***************************************************************************)
(* Queues of events                                                        *)
(***************************************************************************)
LEMMA HeadAndTail ==
    ASSUME NEW q \in Seq(Events), q # <<>>
    PROVE  /\ Len(q) \in Nat /\ Len(q) > 0 /\ Head(q) = q[1] /\ Head(q) \in Events
           /\ Tail(q) \in Seq(Events) /\ Len(Tail(q)) = Len(q) - 1
           /\ \A i \in 1..Len(Tail(q)) : i + 1 \in 1..Len(q) /\ i + 1 > 1 /\ Tail(q)[i] = q[i + 1]
    OBVIOUS

LEMMA Appended ==
    ASSUME NEW q \in Seq(Events), NEW ev \in Events
    PROVE  LET r == Append(q, ev)
           IN  /\ r \in Seq(Events) /\ Len(r) = Len(q) + 1 /\ Len(q) \in Nat /\ r[Len(q) + 1] = ev
               /\ \A i \in 1..Len(q) : r[i] = q[i]
    OBVIOUS

\* An event is added to an align queue: every element with its key is this one then.
LEMMA AddedToAlignQueue ==
    ASSUME NEW q \in Seq(Events), NEW ev \in Events
    PROVE  LET r == AddToAlignQueue(q, ev)
           IN  /\ r \in Seq(Events) /\ Len(r) \in Nat
               /\ \A i \in 1..Len(r) : r[i] = ev \/ (i \in 1..Len(q) /\ r[i] = q[i] /\ q[i].key # ev.key)
<1>0. Len(q) \in Nat /\ DOMAIN q = 1..Len(q) /\ \A i \in 1..Len(q) : q[i] \in Events
    OBVIOUS
<1>1. CASE SameKey(q, ev) = {}
    <2>1. AddToAlignQueue(q, ev) = Append(q, ev)
        BY <1>1 DEF AddToAlignQueue
    <2>2. \A i \in 1..Len(q) : q[i].key # ev.key
        BY <1>0, <1>1 DEF SameKey
    <2> QED BY <1>0, <2>1, <2>2
<1>2. CASE SameKey(q, ev) # {}
    <2>1. PICK r : r = [i \in 1..Len(q) |-> IF i \in SameKey(q, ev) THEN ev ELSE q[i]]
        OBVIOUS
    <2>2. AddToAlignQueue(q, ev) = r
        BY <1>0, <1>2, <2>1 DEF AddToAlignQueue
    <2>3. r \in Seq(Events) /\ Len(r) = Len(q)
        BY <1>0, <2>1
    <2>4. \A i \in 1..Len(q) : r[i] = ev \/ (r[i] = q[i] /\ q[i].key # ev.key)
        BY <1>0, <2>1 DEF SameKey
    <2> QED BY <1>0, <2>2, <2>3, <2>4
<1> QED BY <1>1, <1>2

\* No event of the queue came after ev had ended.
NotAfter(q, ev) == \A i \in 1..Len(q) : q[i].key = ev.key => ~Before(ev, q[i])

LEMMA AppendKeepsOrder ==
    ASSUME NEW q \in Seq(Events), NEW ev \in Events, InOrder(q), NotAfter(q, ev)
    PROVE  InOrder(Append(q, ev))
<1>1. PICK r : r = Append(q, ev)
    OBVIOUS
<1>2. PICK n : n = Len(q)
    OBVIOUS
<1>3. n \in Nat /\ Len(r) = n + 1 /\ r[n + 1] = ev /\ \A i \in 1..n : r[i] = q[i]
    BY <1>1, <1>2
<1>4. ASSUME NEW i \in 1..n + 1, NEW j \in 1..n + 1, i < j, r[i].key = r[j].key
      PROVE  ~Before(r[j], r[i])
    <2>1. i \in 1..n /\ r[i] = q[i]
        BY <1>3, <1>4
    <2>2. CASE j = n + 1
        BY <1>2, <1>3, <1>4, <2>1, <2>2 DEF NotAfter
    <2>3. CASE j # n + 1
        <3>1. j \in 1..n /\ r[j] = q[j]
            BY <1>3, <2>3
        <3> QED BY <1>2, <1>4, <2>1, <3>1 DEF InOrder
    <2> QED BY <2>2, <2>3
<1> QED BY <1>1, <1>3, <1>4 DEF InOrder

LEMMA AddKeepsOrder ==
    ASSUME NEW q \in Seq(Events), NEW ev \in Events, InOrder(q), NotAfter(q, ev), ~Before(ev, ev)
    PROVE  InOrder(AddToAlignQueue(q, ev))
<1> DEFINE r == AddToAlignQueue(q, ev)
<1>2. /\ r \in Seq(Events) /\ Len(r) \in Nat
      /\ \A i \in 1..Len(r) : r[i] = ev \/ (i \in 1..Len(q) /\ r[i] = q[i] /\ q[i].key # ev.key)
    BY AddedToAlignQueue
<1> HIDE DEF r
<1>3. ASSUME NEW i \in 1..Len(r), NEW j \in 1..Len(r), i < j, r[i].key = r[j].key
      PROVE  ~Before(r[j], r[i])
    <2>1. CASE r[i] = ev
        <3>1. r[j] = ev
            BY <1>2, <1>3, <2>1
        <3> QED BY <2>1, <3>1
    <2>2. CASE r[i] # ev
        <3>1. i \in 1..Len(q) /\ r[i] = q[i] /\ q[i].key # ev.key
            BY <1>2, <2>2
        <3>2. j \in 1..Len(q) /\ r[j] = q[j]
            BY <1>2, <1>3, <3>1
        <3> QED BY <1>3, <3>1, <3>2 DEF InOrder
    <2> QED BY <2>1, <2>2
<1>4. InOrder(r)
    BY <1>3 DEF InOrder
<1> QED BY <1>4 DEF r

LEMMA TailKeepsOrder ==
    ASSUME NEW q \in Seq(Events), q # <<>>, InOrder(q)
    PROVE  /\ InOrder(Tail(q))
           /\ \A i \in 1..Len(Tail(q)) : Tail(q)[i].key = Head(q).key => ~Before(Tail(q)[i], Head(q))
<1>1. PICK r : r = Tail(q)
    OBVIOUS
<1>2. /\ Len(q) \in Nat /\ Len(q) > 0 /\ Head(q) = q[1] /\ Len(r) = Len(q) - 1
      /\ \A i \in 1..Len(r) : i + 1 \in 1..Len(q) /\ i + 1 > 1 /\ r[i] = q[i + 1]
    BY <1>1, HeadAndTail
<1>3. ASSUME NEW i \in 1..Len(r), NEW j \in 1..Len(r), i < j, r[i].key = r[j].key
      PROVE  ~Before(r[j], r[i])
    <2>1. i + 1 \in 1..Len(q) /\ j + 1 \in 1..Len(q) /\ i + 1 < j + 1
        BY <1>2, <1>3
    <2> QED BY <1>2, <1>3, <2>1 DEF InOrder
<1>4. ASSUME NEW i \in 1..Len(r), r[i].key = q[1].key
      PROVE  ~Before(r[i], q[1])
    <2>1. 1 \in 1..Len(q) /\ i + 1 \in 1..Len(q) /\ 1 < i + 1
        BY <1>2
    <2> QED BY <1>2, <1>4, <2>1 DEF InOrder
<1> QED BY <1>1, <1>2, <1>3, <1>4 DEF InOrder

\* A set of natural numbers has a least element.
LEMMA LeastExists ==
    ASSUME NEW S, S \subseteq Nat, S # {}
    PROVE  \E n \in S : \A c \in S : n <= c
<1> DEFINE Less == {ss \in Nat \X Nat : ss[1] < ss[2]}
<1>1. IsWellFoundedOn(Less, Nat)
    BY NatLessThanWellFounded DEF OpToRel
<1>2. \A m, n \in Nat : <<m, n>> \in Less <=> m < n
    OBVIOUS
<1> HIDE DEF Less
<1>3. PICK n \in S : \A c \in S : <<c, n>> \notin Less
    BY <1>1, WFMin, Zenon
<1>4. \A c \in S : ~(c < n)
    BY <1>2, <1>3, Zenon
<1>5. \A c \in S : n <= c
    BY <1>4
<1> QED BY <1>5

LEMMA NewValueIsUnused ==
    ASSUME FreeValues # {}
    PROVE  NewValue \in ValueId /\ mem[NewValue] = "unused" /\ NewValue # 0
<1>1. FreeValues \subseteq Nat /\ FreeValues \subseteq ValueId
    BY DEF FreeValues, ValueId
<1>2. PICK S : S = FreeValues
    OBVIOUS
<1>3. PICK n \in S : \A c \in S : n <= c
    BY <1>1, <1>2, LeastExists
<1>4. NewValue \in FreeValues
    BY <1>2, <1>3 DEF NewValue
<1> QED BY <1>4 DEF FreeValues, ValueId

(***************************************************************************)
(* Types                                                                   *)
(***************************************************************************)
LEMMA InitIsTyped == Init => AlignTyped
<1> SUFFICES ASSUME Init PROVE AlignTyped
    OBVIOUS
<1>1. PICK s \in Setup : SubscriberInit(s.program)
    BY DEF Init
<1>2. PICK p \in Programs : SubscriberInit(p)
    BY <1>1, SubscribersAssumption
<1>3. (CHOOSE k \in Key : TRUE) \in Key /\ (CHOOSE c \in Subscriber : TRUE) \in Subscriber
    OBVIOUS
<1>4. \A k \in Key : NoEvent(k) \in Events
    BY DEF NoEvent, Events
<1>5. SubscribersTyped
    BY <1>2, <1>4 DEF SubscriberInit, SubscribersTyped, Entity
<1>6. ThreadsTyped
    BY <1>2, <1>3, <1>4 DEF SubscriberInit, ThreadsTyped, Entity
<1>7. ValuesTyped
    BY <1>2 DEF SubscriberInit, ValuesTyped
<1> QED BY <1>5, <1>6, <1>7 DEF AlignTyped

\* A subscriber of a program, and who is notified.
LEMMA ConfigTyped ==
    ASSUME AlignTyped
    PROVE  /\ \A s \in Subscriber : Config(s).keys \subseteq Key /\ Config(s).format \in Format \cup {NoFormat}
           /\ \A t \in Thread, k \in Key : Notified(t, k) \subseteq Entity
           /\ \A t \in Thread : Sub(t) \in Subscriber
           /\ program.format \in Format \cup {NoFormat}
           /\ \A t \in Thread : program.changes[t] \subseteq Key /\ program.publishes[t] \subseteq Key
<1>1. program \in Programs /\ registered \subseteq Entity /\ current \in [Thread -> Entity]
    BY DEF AlignTyped, SubscribersTyped, ThreadsTyped
<1>2. program.sub \in [Subscriber -> SubscriberConfig]
    BY <1>1 DEF Programs
<1>3. \A s \in Subscriber : Config(s) \in SubscriberConfig
    BY <1>2 DEF Config
<1>4. \A s \in Subscriber : Config(s).keys \subseteq Key /\ Config(s).format \in Format \cup {NoFormat}
    BY <1>3 DEF SubscriberConfig
<1>5. \A t \in Thread, k \in Key : Notified(t, k) \subseteq Entity
    BY <1>1 DEF Notified
<1>6. \A t \in Thread : Sub(t) \in Subscriber
    BY <1>1 DEF Sub, Entity
<1>7. /\ program.format \in Format \cup {NoFormat}
      /\ \A t \in Thread : program.changes[t] \subseteq Key /\ program.publishes[t] \subseteq Key
    BY <1>1 DEF Programs
<1> QED BY <1>4, <1>5, <1>6, <1>7

\* The call of a thread t that changes an object.
Changes(t, k) ==
    \/ Define(t, k)
    \/ Update(t, k)
    \/ Delete(t, k)
    \/ Publish(t, k)

\* What the changes have in common.
LEMMA ChangeSteps ==
    ASSUME AlignTyped, NEW t \in Thread, NEW k \in Key, Changes(t, k)
    PROVE  \E f \in Format \cup {NoFormat}, b \in BOOLEAN : Change(t, k, b, f)
<1>1. program.format \in Format \cup {NoFormat}
    BY ConfigTyped
<1> QED BY <1>1 DEF Changes, Define, Update, Delete, Publish

LEMMA EndedTyped ==
    ASSUME AlignTyped, NEW k \in Key
    PROVE  version[k] \in Nat /\ Ended(k) \subseteq 1..version[k] /\ Ended(k) \subseteq Nat
BY DEF Ended, AlignTyped, SubscribersTyped

LEMMA ChangeTyped ==
    ASSUME AlignTyped, NEW t \in Thread, NEW k \in Key, NEW f \in Format \cup {NoFormat}, NEW b \in BOOLEAN,
           Change(t, k, b, f)
    PROVE  AlignTyped'
<1>1. version' \in [Key -> Nat] /\ version[k] + 1 \in Nat
    BY DEF Change, AlignTyped, SubscribersTyped
<1>2. SubscribersTyped'
    BY <1>1 DEF Change, AlignTyped, SubscribersTyped, alignVars
<1>3. ThreadsTyped'
    <2>1. PICK ev : ev = [key |-> k, version |-> version[k] + 1, past |-> Ended(k),
                             exists |-> b, value |-> 0]
        OBVIOUS
    <2>2. ev \in Events /\ event' = [event EXCEPT ![t] = ev]
        <3>1. Ended(k) \subseteq Nat
            BY EndedTyped
        <3> QED BY <1>1, <2>1, <3>1 DEF Events, Change
    <2>3. PICK n : n = Notified(t, k)
        OBVIOUS
    <2>4. n \subseteq Entity /\ todo' = [todo EXCEPT ![t] = n] /\ pc' = [pc EXCEPT ![t] = "walk"]
        BY <2>3, ConfigTyped DEF Change, Goto
    <2>5. current' = current /\ locked' = locked /\ sync' = sync
        BY DEF Change
    <2> QED BY <2>2, <2>4, <2>5 DEF AlignTyped, ThreadsTyped
<1>4. ValuesTyped'
    <2>1. CASE f = NoFormat
        BY <2>1 DEF Change, AlignTyped, ValuesTyped
    <2>2. CASE f # NoFormat
        <3>1. NewValue \in ValueId
            BY <2>2, NewValueIsUnused DEF Change
        <3>2. PICK v \in ValueId : v = NewValue
            BY <3>1
        <3>3. PICK c : c = [g \in Format |-> IF g = f THEN v ELSE 0]
            OBVIOUS
        <3>4. c \in [Format -> ValueId \cup {0}] /\ cache' = [cache EXCEPT ![t] = c]
              /\ mem' = [mem EXCEPT ![v] = "borrowed"] /\ shared' = shared
            BY <2>2, <3>2, <3>3 DEF Change
        <3> QED BY <3>4 DEF AlignTyped, ValuesTyped
    <2> QED BY <2>1, <2>2
<1> QED BY <1>2, <1>3, <1>4 DEF AlignTyped

LEMMA WalkTyped ==
    ASSUME AlignTyped, NEW t \in Thread, Walk(t)
    PROVE  AlignTyped'
<1>1. PICK e \in Deepest(todo[t]) :
          /\ Goto(t, "walk", IF isAligning[e[1]] THEN "lock" ELSE "invoke")
          /\ current' = [current EXCEPT ![t] = e]
          /\ todo' = [todo EXCEPT ![t] = @ \ {e}]
          /\ locked' = [locked EXCEPT ![t] = isAligning[e[1]]]
          /\ UNCHANGED <<program, storeVars, adminVars, alignVars, posted, seen, event, sync,
                         cache, valueVars, budget, fault>>
    BY DEF Walk
<1>2. e \in todo[t] /\ e \in Entity /\ pc[t] = "walk" /\ e[1] \in Subscriber
    <2>1. e \in todo[t] /\ pc[t] = "walk"
        BY <1>1 DEF Deepest, Goto
    <2>2. e \in Entity
        BY <2>1 DEF AlignTyped, ThreadsTyped
    <2> QED BY <2>1, <2>2 DEF Entity
<1>3. SubscribersTyped'
    BY <1>1 DEF AlignTyped, SubscribersTyped, storeVars, adminVars, alignVars
<1>4. isAligning[e[1]] \in BOOLEAN
    BY <1>2 DEF AlignTyped, SubscribersTyped
<1>5. ThreadsTyped'
    <2>1. PICK q \in {"lock", "invoke"} : pc' = [pc EXCEPT ![t] = q]
        BY <1>1 DEF Goto
    <2>2. PICK b \in BOOLEAN : locked' = [locked EXCEPT ![t] = b]
        BY <1>1, <1>4
    <2>3. current' = [current EXCEPT ![t] = e] /\ todo' = [todo EXCEPT ![t] = @ \ {e}]
          /\ event' = event /\ sync' = sync
        BY <1>1
    <2> QED BY <1>2, <2>1, <2>2, <2>3 DEF AlignTyped, ThreadsTyped
<1>6. ValuesTyped'
    BY <1>1 DEF AlignTyped, ValuesTyped, valueVars
<1> QED BY <1>3, <1>5, <1>6 DEF AlignTyped

LEMMA LockAlignTyped ==
    ASSUME AlignTyped, NEW t \in Thread, LockAlign(t)
    PROVE  AlignTyped'
<1>1. SubscribersTyped'
    BY ConfigTyped DEF LockAlign, AlignTyped, SubscribersTyped, storeVars, adminVars
<1>2. ThreadsTyped'
    BY DEF LockAlign, Goto, AlignTyped, ThreadsTyped, localVars
<1>3. ValuesTyped'
    BY DEF LockAlign, AlignTyped, ValuesTyped, valueVars, localVars
<1> QED BY <1>1, <1>2, <1>3 DEF AlignTyped

\* The values vs are given up.
LEMMA DropTyped ==
    ASSUME AlignTyped, NEW vs, Drop(vs), cache' = cache
    PROVE  ValuesTyped'
<1>1. shared' \in [ValueId -> Int]
    <2>1. shared \in [ValueId -> Int]
        BY DEF AlignTyped, ValuesTyped
    <2>2. \A v \in ValueId : shared[v] \in Int /\ shared[v] - 1 \in Int
        BY <2>1
    <2>3. shared' = [v \in ValueId |-> IF v \in vs /\ shared[v] > 0 THEN shared[v] - 1 ELSE shared[v]]
        BY DEF Drop
    <2> QED BY <2>2, <2>3
<1>2. mem' \in [ValueId -> {"unused", "live", "borrowed", "freed"}]
    BY DEF Drop, AlignTyped, ValuesTyped
<1> QED BY <1>1, <1>2 DEF AlignTyped, ValuesTyped

LEMMA NotifyEndTyped ==
    ASSUME AlignTyped, NEW t \in Thread, NotifyEnd(t)
    PROVE  AlignTyped'
<1>1. SubscribersTyped'
    BY DEF NotifyEnd, AlignTyped, SubscribersTyped, adminVars, alignVars
<1>2. ThreadsTyped'
    BY DEF NotifyEnd, Goto, AlignTyped, ThreadsTyped, localVars
<1>3. ValuesTyped'
    BY DropTyped DEF NotifyEnd, localVars
<1> QED BY <1>1, <1>2, <1>3 DEF AlignTyped

\* A value for the format of a subscriber.
LEMMA SerializeTyped ==
    ASSUME AlignTyped, NEW t \in Thread, NEW f \in Format \cup {NoFormat}, NEW copy \in BOOLEAN,
           Serialize(t, f, copy)
    PROVE  /\ ValuesTyped'
           /\ \E v \in ValueId \cup {0} : event' = [event EXCEPT ![t].value = v]
<1>1. CASE f = NoFormat
    BY <1>1 DEF Serialize, AlignTyped, ValuesTyped
<1>2. CASE f # NoFormat
    <2>1. PICK v : v = IF cache[t][f] # 0 THEN cache[t][f] ELSE NewValue
        OBVIOUS
    <2>2. /\ cache[t][f] = 0 => FreeValues # {}
          /\ event' = [event EXCEPT ![t].value = v]
          /\ cache' = [cache EXCEPT ![t][f] = v]
          /\ mem' = IF cache[t][f] = 0 THEN [mem EXCEPT ![v] = "live"] ELSE mem
          /\ shared' = CountShared(v, copy)
        BY <1>2, <2>1 DEF Serialize
    <2>3. v \in ValueId
        BY <1>2, <2>1, <2>2, NewValueIsUnused DEF AlignTyped, ValuesTyped
    <2>4. cache' \in [Thread -> [Format -> ValueId \cup {0}]]
        BY <1>2, <2>2, <2>3 DEF AlignTyped, ValuesTyped
    <2>5. mem' \in [ValueId -> {"unused", "live", "borrowed", "freed"}]
        BY <2>2, <2>3 DEF AlignTyped, ValuesTyped
    <2>6. shared' \in [ValueId -> Int]
        BY <2>2, <2>3 DEF CountShared, AlignTyped, ValuesTyped
    <2> QED BY <2>2, <2>3, <2>4, <2>5, <2>6 DEF ValuesTyped
<1> QED BY <1>1, <1>2

\* The event that a thread notifies is still the same one.
SameEvent(u) ==
    /\ event'[u].version = event[u].version /\ event'[u].key = event[u].key
    /\ event'[u].past = event[u].past /\ event'[u].exists = event[u].exists

LEMMA InvokeTyped ==
    ASSUME AlignTyped, NEW t \in Thread, Invoke(t)
    PROVE  AlignTyped' /\ \A u \in Thread : SameEvent(u)
<1>1. PICK b \in BOOLEAN : /\ b = (~HasDispatcher(Sub(t)) /\ ~isAligning[Sub(t)])
                           /\ sync' = [sync EXCEPT ![t] = b]
                           /\ Serialize(t, Config(Sub(t)).format, ~b)
    BY DEF Invoke
<1>2. Config(Sub(t)).format \in Format \cup {NoFormat}
    BY ConfigTyped
<1>3. PICK f \in Format \cup {NoFormat} : Serialize(t, f, ~b)
    BY <1>1, <1>2
<1>4. PICK v \in ValueId \cup {0} : ValuesTyped' /\ event' = [event EXCEPT ![t].value = v]
    BY <1>3, SerializeTyped
<1>5. event \in [Thread -> Events]
    BY DEF AlignTyped, ThreadsTyped
<1>6. PICK ev : ev = [event[t] EXCEPT !.value = v]
    OBVIOUS
<1>7. /\ ev \in Events /\ ev.version = event[t].version /\ ev.key = event[t].key
      /\ ev.past = event[t].past /\ ev.exists = event[t].exists
    BY <1>5, <1>6 DEF Events
<1>8. event' = [event EXCEPT ![t] = ev]
    BY <1>4, <1>5, <1>6
<1>9. ThreadsTyped'
    BY <1>1, <1>7, <1>8 DEF Invoke, Goto, AlignTyped, ThreadsTyped
<1>10. SubscribersTyped'
    BY DEF Invoke, AlignTyped, SubscribersTyped, storeVars, adminVars, alignVars
<1>11. \A u \in Thread : SameEvent(u)
    BY <1>5, <1>7, <1>8 DEF SameEvent
<1> QED BY <1>4, <1>9, <1>10, <1>11 DEF AlignTyped

\* An event is handled, or it is given to the dispatcher.
Handled(s, ev) == [seen EXCEPT ![s][ev.key] = ev]
Given(s, ev) == [posted EXCEPT ![s] = Append(@, ev)]

LEMMA EventStored ==
    ASSUME AlignTyped, NEW s \in Subscriber, NEW ev \in Events
    PROVE  /\ Handled(s, ev) \in [Subscriber -> [Key -> Events]]
           /\ Given(s, ev) \in [Subscriber -> Seq(Events)]
<1>1. seen \in [Subscriber -> [Key -> Events]] /\ posted \in [Subscriber -> Seq(Events)]
    BY DEF AlignTyped, SubscribersTyped
<1>2. ev.key \in Key
    BY DEF Events
<1>3. PICK f : f = [seen[s] EXCEPT ![ev.key] = ev]
    OBVIOUS
<1>4. f \in [Key -> Events]
    BY <1>1, <1>2, <1>3
<1>5. [seen EXCEPT ![s] = f] \in [Subscriber -> [Key -> Events]]
    BY <1>1, <1>4
<1>6. [seen EXCEPT ![s][ev.key] = ev] = [seen EXCEPT ![s] = f]
    BY <1>1, <1>3
<1>7. PICK q : q = Append(posted[s], ev)
    OBVIOUS
<1>8. q \in Seq(Events)
    BY <1>1, <1>7
<1>9. [posted EXCEPT ![s] = Append(@, ev)] = [posted EXCEPT ![s] = q]
    BY <1>1, <1>7
<1>10. [posted EXCEPT ![s] = q] \in [Subscriber -> Seq(Events)]
    BY <1>1, <1>8
<1> QED BY <1>5, <1>6, <1>9, <1>10 DEF Handled, Given

LEMMA DeliverTyped ==
    ASSUME AlignTyped, NEW t \in Thread, Deliver(t)
    PROVE  AlignTyped'
<1>1. PICK s \in Subscriber : s = Sub(t)
    BY ConfigTyped
<1>2. PICK ev \in Events : ev = event[t]
    BY DEF AlignTyped, ThreadsTyped
<1>3. /\ alignQueue' = alignQueue \/ alignQueue' = [alignQueue EXCEPT ![s] = AddToAlignQueue(@, ev)]
      /\ posted' = posted \/ posted' = Given(s, ev)
      /\ seen' = seen \/ seen' = Handled(s, ev)
      /\ holder' = [holder EXCEPT ![s] = IF locked[t] THEN NoThread ELSE @]
    BY <1>1, <1>2 DEF Deliver, Unlock, Callback, Given, Handled
<1>4. alignQueue' \in [Subscriber -> Seq(Events)]
    <2>1. alignQueue \in [Subscriber -> Seq(Events)]
        BY DEF AlignTyped, SubscribersTyped
    <2>2. AddToAlignQueue(alignQueue[s], ev) \in Seq(Events)
        BY <2>1, AddedToAlignQueue
    <2> QED BY <1>3, <2>1, <2>2
<1>5. posted' \in [Subscriber -> Seq(Events)]
    <2>1. posted \in [Subscriber -> Seq(Events)]
        BY DEF AlignTyped, SubscribersTyped
    <2>2. Given(s, ev) \in [Subscriber -> Seq(Events)]
        BY EventStored
    <2> QED BY <1>3, <2>1, <2>2
<1>6. seen' \in [Subscriber -> [Key -> Events]]
    <2>1. seen \in [Subscriber -> [Key -> Events]]
        BY DEF AlignTyped, SubscribersTyped
    <2>2. Handled(s, ev) \in [Subscriber -> [Key -> Events]]
        BY EventStored
    <2> QED BY <1>3, <2>1, <2>2
<1>7. holder' \in [Subscriber -> Thread \cup {NoThread}]
    BY <1>3 DEF AlignTyped, SubscribersTyped
<1>8. SubscribersTyped'
    BY <1>4, <1>5, <1>6, <1>7 DEF Deliver, AlignTyped, SubscribersTyped, storeVars, adminVars
<1>9. ThreadsTyped'
    BY DEF Deliver, Goto, AlignTyped, ThreadsTyped, localVars
<1>10. ValuesTyped'
    BY DEF Deliver, AlignTyped, ValuesTyped, localVars, valueVars
<1> QED BY <1>8, <1>9, <1>10 DEF AlignTyped

LEMMA HandleEventTyped ==
    ASSUME AlignTyped, NEW s \in Subscriber, HandleEvent(s)
    PROVE  AlignTyped'
<1>1. posted[s] \in Seq(Events) /\ posted[s] # <<>>
    BY DEF HandleEvent, AlignTyped, SubscribersTyped
<1>2. PICK ev \in Events : ev = Head(posted[s])
    BY <1>1, HeadAndTail
<1>3. PICK q \in Seq(Events) : q = Tail(posted[s])
    BY <1>1, HeadAndTail
<1>4. seen' = [seen EXCEPT ![s][ev.key] = ev] /\ posted' = [posted EXCEPT ![s] = q] /\ ev.key \in Key
    BY <1>2, <1>3 DEF HandleEvent, Callback, Events
<1>5. SubscribersTyped'
    BY <1>4 DEF HandleEvent, AlignTyped, SubscribersTyped, storeVars, adminVars, alignVars
<1>6. ThreadsTyped'
    BY DEF HandleEvent, AlignTyped, ThreadsTyped, localVars
<1>7. PICK vs : vs = {Head(posted[s]).value} \ {0}
    OBVIOUS
<1>8. ValuesTyped'
    BY <1>7, DropTyped DEF HandleEvent, localVars
<1> QED BY <1>5, <1>6, <1>8 DEF AlignTyped

LEMMA SubscribeTyped ==
    ASSUME AlignTyped, NEW t \in Thread, NEW e \in Entity, Subscribe(t, e)
    PROVE  AlignTyped'
<1>1. SubscribersTyped'
    BY DEF Subscribe, AlignTyped, SubscribersTyped, storeVars, alignVars
<1>2. ThreadsTyped'
    BY DEF Subscribe, Goto, AlignTyped, ThreadsTyped
<1>3. ValuesTyped'
    BY DEF Subscribe, AlignTyped, ValuesTyped, valueVars
<1> QED BY <1>1, <1>2, <1>3 DEF AlignTyped

LEMMA UnsubscribeTyped ==
    ASSUME AlignTyped, NEW t \in Thread, NEW e \in Entity, Unsubscribe(t, e)
    PROVE  AlignTyped'
<1>1. SubscribersTyped'
    BY DEF Unsubscribe, AlignTyped, SubscribersTyped, storeVars, alignVars
<1>2. ThreadsTyped'
    BY DEF Unsubscribe, Goto, AlignTyped, ThreadsTyped
<1>3. ValuesTyped'
    BY DEF Unsubscribe, AlignTyped, ValuesTyped, valueVars
<1> QED BY <1>1, <1>2, <1>3 DEF AlignTyped

LEMMA AlignBeginTyped ==
    ASSUME AlignTyped, NEW t \in Thread, AlignBegin(t)
    PROVE  AlignTyped'
<1>1. PICK s \in Subscriber : s = Sub(t)
    BY ConfigTyped
<1>2. PICK ks : ks = Config(s).keys
    OBVIOUS
<1>3. ks \subseteq Key
    BY <1>2, ConfigTyped
<1>4. SubscribersTyped'
    BY <1>1 DEF AlignBegin, AlignTyped, SubscribersTyped, storeVars, adminVars
<1>5. todo' = [todo EXCEPT ![t] = ks] /\ pc' = [pc EXCEPT ![t] = "mounts"] /\ locked' = [locked EXCEPT ![t] = TRUE]
      /\ UNCHANGED <<event, current, sync>>
    BY <1>1, <1>2 DEF AlignBegin, Goto
<1>6. ThreadsTyped'
    BY <1>3, <1>5 DEF AlignTyped, ThreadsTyped
<1>7. ValuesTyped'
    BY DEF AlignBegin, AlignTyped, ValuesTyped, valueVars
<1> QED BY <1>4, <1>6, <1>7 DEF AlignTyped

LEMMA AlignObjectTyped ==
    ASSUME AlignTyped, NEW t \in Thread, AlignObject(t)
    PROVE  AlignTyped'
<1>1. PICK s \in Subscriber : s = Sub(t)
    BY ConfigTyped
<1>2. pc[t] = "aligning" /\ todo[t] \subseteq Key
    BY DEF AlignObject, AlignTyped, ThreadsTyped
<1>3. PICK k \in todo[t] :
          /\ todo' = [todo EXCEPT ![t] = @ \ {k}]
          /\ alignQueue' = [alignQueue EXCEPT ![s] =
                IF k \notin bound THEN @
                ELSE AddToAlignQueue(@, Selected(k))]
    BY <1>1 DEF AlignObject
<1>4. PICK ev : ev = Selected(k)
    OBVIOUS
<1>5. ev \in Events
    <2>1. k \in Key /\ version[k] \in Nat /\ Ended(k) \subseteq Nat
        BY <1>2, EndedTyped
    <2> QED BY <1>4, <2>1 DEF Selected, NoEvent, Events
<1>6. alignQueue' \in [Subscriber -> Seq(Events)]
    <2>1. alignQueue \in [Subscriber -> Seq(Events)]
        BY DEF AlignTyped, SubscribersTyped
    <2>2. AddToAlignQueue(alignQueue[s], ev) \in Seq(Events)
        BY <1>5, <2>1, AddedToAlignQueue
    <2>3. alignQueue' = alignQueue \/ alignQueue' = [alignQueue EXCEPT ![s] = AddToAlignQueue(@, ev)]
        BY <1>3, <1>4, <2>1
    <2> QED BY <2>1, <2>2, <2>3
<1>7. SubscribersTyped'
    BY <1>6 DEF AlignObject, AlignTyped, SubscribersTyped, storeVars, adminVars
<1>8. ThreadsTyped'
    BY <1>3 DEF AlignObject, AlignTyped, ThreadsTyped
<1>9. ValuesTyped'
    BY DEF AlignObject, AlignTyped, ValuesTyped, valueVars
<1> QED BY <1>7, <1>8, <1>9 DEF AlignTyped

LEMMA AlignEndTyped ==
    ASSUME AlignTyped, NEW t \in Thread, AlignEnd(t)
    PROVE  AlignTyped'
<1>1. SubscribersTyped'
    BY ConfigTyped DEF AlignEnd, AlignTyped, SubscribersTyped, storeVars
<1>2. ThreadsTyped'
    BY DEF AlignEnd, Goto, AlignTyped, ThreadsTyped, localVars
<1>3. ValuesTyped'
    BY DEF AlignEnd, AlignTyped, ValuesTyped, valueVars, localVars
<1> QED BY <1>1, <1>2, <1>3 DEF AlignTyped

LEMMA FlushTyped ==
    ASSUME AlignTyped, NEW t \in Thread, Flush(t)
    PROVE  AlignTyped'
<1>1. PICK s \in Subscriber : s = Sub(t)
    BY ConfigTyped
<1>2. alignQueue[s] \in Seq(Events) /\ alignQueue[s] # <<>>
    BY <1>1 DEF Flush, MustFlush, AlignTyped, SubscribersTyped
<1>3. PICK ev \in Events : ev = Head(alignQueue[s])
    BY <1>2, HeadAndTail
<1>4. PICK q \in Seq(Events) : q = Tail(alignQueue[s])
    BY <1>2, HeadAndTail
<1>5. /\ seen \in [Subscriber -> [Key -> Events]] /\ posted \in [Subscriber -> Seq(Events)]
      /\ alignQueue \in [Subscriber -> Seq(Events)]
    BY DEF AlignTyped, SubscribersTyped
<1>6. /\ alignQueue' = [alignQueue EXCEPT ![s] = q]
      /\ \/ posted' = Given(s, ev) /\ seen' = seen
         \/ posted' = posted /\ seen' = Handled(s, ev)
    BY <1>1, <1>3, <1>4 DEF Flush, Callback, Given, Handled
<1>7. /\ Given(s, ev) \in [Subscriber -> Seq(Events)]
      /\ Handled(s, ev) \in [Subscriber -> [Key -> Events]]
    BY EventStored
<1>8. /\ posted' \in [Subscriber -> Seq(Events)] /\ alignQueue' \in [Subscriber -> Seq(Events)]
      /\ seen' \in [Subscriber -> [Key -> Events]]
    BY <1>4, <1>5, <1>6, <1>7
<1>9. SubscribersTyped'
    BY <1>8 DEF Flush, AlignTyped, SubscribersTyped, storeVars, adminVars
<1>10. ThreadsTyped'
    BY DEF Flush, AlignTyped, ThreadsTyped, localVars
<1>11. ValuesTyped'
    <2>1. CASE HasDispatcher(s)
        BY <1>1, <2>1 DEF Flush, AlignTyped, ValuesTyped, valueVars, localVars
    <2>2. CASE ~HasDispatcher(s)
        <3>1. PICK vs : vs = {ev.value} \ {0}
            OBVIOUS
        <3>2. Drop(vs) /\ cache' = cache
            BY <1>1, <1>3, <2>2, <3>1 DEF Flush, localVars
        <3> QED BY <3>2, DropTyped
    <2> QED BY <2>1, <2>2
<1> QED BY <1>9, <1>10, <1>11 DEF AlignTyped

LEMMA FlushEndTyped ==
    ASSUME AlignTyped, NEW t \in Thread, FlushEnd(t)
    PROVE  AlignTyped'
<1>1. SubscribersTyped'
    BY ConfigTyped DEF FlushEnd, Unlock, AlignTyped, SubscribersTyped, storeVars
<1>2. ThreadsTyped'
    BY DEF FlushEnd, Goto, AlignTyped, ThreadsTyped, localVars
<1>3. ValuesTyped'
    BY DEF FlushEnd, AlignTyped, ValuesTyped, valueVars, localVars
<1> QED BY <1>1, <1>2, <1>3 DEF AlignTyped

\* A thread comes back from the mount.
ToldVars == <<program, storeVars, adminVars, alignVars, posted, seen, localVars, valueVars, budget, fault>>
Told(t) == /\ Goto(t, "mounts", "aligning") \/ Goto(t, "unsubscribe", "idle")
           /\ UNCHANGED ToldVars

LEMMA ToldTyped ==
    ASSUME AlignTyped, NEW t \in Thread, Told(t)
    PROVE  AlignTyped'
<1>1. SubscribersTyped'
    BY DEF Told, ToldVars, AlignTyped, SubscribersTyped, storeVars, adminVars, alignVars
<1>2. ThreadsTyped'
    BY DEF Told, ToldVars, Goto, AlignTyped, ThreadsTyped, localVars
<1>3. ValuesTyped'
    BY DEF Told, ToldVars, AlignTyped, ValuesTyped, valueVars, localVars
<1> QED BY <1>1, <1>2, <1>3 DEF AlignTyped

LEMMA RestTyped ==
    ASSUME AlignTyped, UNCHANGED subscriberVars
    PROVE  AlignTyped'
<1>1. SubscribersTyped'
    BY DEF subscriberVars, AlignTyped, SubscribersTyped, storeVars, adminVars, alignVars
<1>2. ThreadsTyped'
    BY DEF subscriberVars, AlignTyped, ThreadsTyped, localVars
<1>3. ValuesTyped'
    BY DEF subscriberVars, AlignTyped, ValuesTyped, valueVars, localVars
<1> QED BY <1>1, <1>2, <1>3 DEF AlignTyped

(***************************************************************************)
(* Locks                                                                   *)
(***************************************************************************)
\* The threads that align go on, and no subscriber or queue is added to them.
LEMMA StillAligned ==
    ASSUME AlignedBySomeone, \A u \in Thread, s \in Subscriber : Aligns(u, s) => Aligns(u, s)',
           \A s \in Subscriber : isAligning'[s] \/ alignQueue'[s] # <<>> => isAligning[s] \/ alignQueue[s] # <<>>
    PROVE  AlignedBySomeone'
<1> SUFFICES ASSUME NEW s \in Subscriber, isAligning'[s] \/ alignQueue'[s] # <<>>
             PROVE  \E t \in Thread : Aligns(t, s)'
    BY DEF AlignedBySomeone
<1>1. PICK t \in Thread : Aligns(t, s)
    BY DEF AlignedBySomeone
<1> QED BY <1>1

LEMMA ChangeLocks ==
    ASSUME AlignTyped, Locks, NEW t \in Thread, NEW k \in Key, NEW f, NEW b, Change(t, k, b, f)
    PROVE  Locks'
<1>1. Mutexes'
    BY DEF Change, Goto, alignVars, Locks, Mutexes, Owns, Sub, AlignTyped, SubscribersTyped, ThreadsTyped, Entity
<1>2. Flags'
    BY DEF Change, Goto, alignVars, Locks, Flags, Mutexes, Owns, Sub, AlignTyped, SubscribersTyped, ThreadsTyped, Entity
<1>3. AlignedBySomeone'
    BY DEF Change, Goto, alignVars, Locks, AlignedBySomeone, Mutexes, Owns, Aligns, Sub, AlignTyped, SubscribersTyped, ThreadsTyped, Entity
<1> QED BY <1>1, <1>2, <1>3 DEF Locks

LEMMA WalkLocks ==
    ASSUME AlignTyped, Locks, NEW t \in Thread, Walk(t)
    PROVE  Locks'
<1>1. Mutexes'
    BY DEF Walk, Goto, alignVars, Locks, Mutexes, Owns, Sub, AlignTyped, SubscribersTyped, ThreadsTyped, Entity
<1>2. Flags'
    BY DEF Walk, Goto, alignVars, Locks, Flags, Mutexes, Owns, Sub, AlignTyped, SubscribersTyped, ThreadsTyped, Entity
<1>3. AlignedBySomeone'
    <2>1. \A u \in Thread, s \in Subscriber : Aligns(u, s) => Aligns(u, s)'
        BY DEF Walk, Goto, Aligns, Sub, AlignTyped, ThreadsTyped
    <2> QED BY <2>1, StillAligned DEF Walk, alignVars, Locks
<1> QED BY <1>1, <1>2, <1>3 DEF Locks

LEMMA LockAlignLocks ==
    ASSUME AlignTyped, Locks, NEW t \in Thread, LockAlign(t)
    PROVE  Locks'
<1>1. Mutexes'
    BY DEF LockAlign, Goto, localVars, Locks, Mutexes, Owns, Sub, AlignTyped, SubscribersTyped, ThreadsTyped, Entity
<1>2. Flags'
    BY DEF LockAlign, Goto, localVars, Locks, Flags, Mutexes, Owns, Sub, AlignTyped, SubscribersTyped, ThreadsTyped, Entity
<1>3. AlignedBySomeone'
    BY DEF LockAlign, Goto, localVars, Locks, AlignedBySomeone, Mutexes, Owns, Aligns, Sub, AlignTyped, SubscribersTyped, ThreadsTyped, Entity
<1> QED BY <1>1, <1>2, <1>3 DEF Locks

LEMMA InvokeLocks ==
    ASSUME AlignTyped, Locks, NEW t \in Thread, Invoke(t)
    PROVE  Locks'
<1>1. Mutexes'
    BY DEF Invoke, Goto, alignVars, Locks, Mutexes, Owns, Sub, AlignTyped, SubscribersTyped, ThreadsTyped, Entity
<1>2. Flags'
    BY DEF Invoke, Goto, alignVars, Locks, Flags, Mutexes, Owns, Sub, AlignTyped, SubscribersTyped, ThreadsTyped, Entity
<1>3. AlignedBySomeone'
    BY DEF Invoke, Goto, alignVars, Locks, AlignedBySomeone, Mutexes, Owns, Aligns, Sub, AlignTyped, SubscribersTyped, ThreadsTyped, Entity
<1> QED BY <1>1, <1>2, <1>3 DEF Locks

\* What an event that is delivered does to threads and mutexes, wherever it goes.
LEMMA DeliverMoves ==
    ASSUME NEW t \in Thread, Deliver(t)
    PROVE  /\ pc[t] = "deliver" /\ pc' = [pc EXCEPT ![t] = "walk"]
           /\ holder' = [holder EXCEPT ![Sub(t)] = IF locked[t] THEN NoThread ELSE @]
           /\ isAligning' = isAligning /\ raced' = raced
           /\ todo' = todo /\ current' = current /\ locked' = locked
BY DEF Deliver, Goto, Unlock, adminVars, localVars

LEMMA DeliverLocks ==
    ASSUME AlignTyped, Locks, NEW t \in Thread, Deliver(t)
    PROVE  Locks'
<1>1. Mutexes'
    <2>1. ASSUME NEW u \in Thread, Owns(u)'
          PROVE  u # t /\ Owns(u) /\ Sub(u)' = Sub(u)
        BY <2>1, DeliverMoves DEF Owns, Sub, AlignTyped, ThreadsTyped
    <2>2. ASSUME NEW u \in Thread, u # t, Owns(u)
          PROVE  holder'[Sub(u)] = u
        <3>1. holder[Sub(u)] = u /\ (locked[t] => holder[Sub(t)] = t)
            BY <2>2, DeliverMoves DEF Locks, Mutexes, Owns
        <3>2. Sub(u) \in Subscriber /\ holder \in [Subscriber -> Thread \cup {NoThread}]
            BY DEF Sub, AlignTyped, SubscribersTyped, ThreadsTyped, Entity
        <3> QED BY <2>2, <3>1, <3>2, DeliverMoves
    <2> QED BY <2>1, <2>2 DEF Mutexes
<1>2. Flags'
    BY DeliverMoves DEF Locks, Flags, Sub, AlignTyped, ThreadsTyped
<1>3. AlignedBySomeone'
    <2>1. \A u \in Thread, s \in Subscriber : Aligns(u, s) => Aligns(u, s)'
        BY DEF Deliver, Goto, localVars, Aligns, Sub, AlignTyped, ThreadsTyped
    <2>2. \A s \in Subscriber : alignQueue'[s] # alignQueue[s] => isAligning[s]
        BY DEF Deliver, AlignTyped, SubscribersTyped
    <2>3. isAligning' = isAligning
        BY DEF Deliver
    <2> QED BY <2>1, <2>2, <2>3, StillAligned DEF Locks
<1> QED BY <1>1, <1>2, <1>3 DEF Locks

LEMMA NotifyEndLocks ==
    ASSUME AlignTyped, Locks, NEW t \in Thread, NotifyEnd(t)
    PROVE  Locks'
<1>1. Mutexes'
    BY DEF NotifyEnd, Goto, localVars, alignVars, Locks, Mutexes, Owns, Sub, AlignTyped, SubscribersTyped, ThreadsTyped, Entity
<1>2. Flags'
    BY DEF NotifyEnd, Goto, localVars, alignVars, Locks, Flags, Mutexes, Owns, Sub, AlignTyped, SubscribersTyped, ThreadsTyped, Entity
<1>3. AlignedBySomeone'
    BY DEF NotifyEnd, Goto, localVars, alignVars, Locks, AlignedBySomeone, Mutexes, Owns, Aligns, Sub, AlignTyped, SubscribersTyped, ThreadsTyped, Entity
<1> QED BY <1>1, <1>2, <1>3 DEF Locks

LEMMA HandleEventLocks ==
    ASSUME AlignTyped, Locks, NEW s \in Subscriber, HandleEvent(s)
    PROVE  Locks'
<1>1. Mutexes'
    BY DEF HandleEvent, localVars, alignVars, Locks, Mutexes, Owns, Sub, AlignTyped, SubscribersTyped, ThreadsTyped, Entity
<1>2. Flags'
    BY DEF HandleEvent, localVars, alignVars, Locks, Flags, Mutexes, Owns, Sub, AlignTyped, SubscribersTyped, ThreadsTyped, Entity
<1>3. AlignedBySomeone'
    BY DEF HandleEvent, localVars, alignVars, Locks, AlignedBySomeone, Mutexes, Owns, Aligns, Sub, AlignTyped, SubscribersTyped, ThreadsTyped, Entity
<1> QED BY <1>1, <1>2, <1>3 DEF Locks

LEMMA SubscribeLocks ==
    ASSUME AlignTyped, Locks, NEW t \in Thread, NEW e \in Entity, Subscribe(t, e)
    PROVE  Locks'
<1>1. Mutexes'
    BY DEF Subscribe, Goto, alignVars, Locks, Mutexes, Owns, Sub, AlignTyped, SubscribersTyped, ThreadsTyped, Entity
<1>2. Flags'
    BY DEF Subscribe, Goto, alignVars, Locks, Flags, Mutexes, Owns, Sub, AlignTyped, SubscribersTyped, ThreadsTyped, Entity
<1>3. AlignedBySomeone'
    BY DEF Subscribe, Goto, alignVars, Locks, AlignedBySomeone, Mutexes, Owns, Aligns, Sub, AlignTyped, SubscribersTyped, ThreadsTyped, Entity
<1> QED BY <1>1, <1>2, <1>3 DEF Locks

LEMMA UnsubscribeLocks ==
    ASSUME AlignTyped, Locks, NEW t \in Thread, NEW e \in Entity, Unsubscribe(t, e)
    PROVE  Locks'
<1>1. Mutexes'
    BY DEF Unsubscribe, Goto, alignVars, Locks, Mutexes, Owns, Sub, AlignTyped, SubscribersTyped, ThreadsTyped, Entity
<1>2. Flags'
    BY DEF Unsubscribe, Goto, alignVars, Locks, Flags, Mutexes, Owns, Sub, AlignTyped, SubscribersTyped, ThreadsTyped, Entity
<1>3. AlignedBySomeone'
    BY DEF Unsubscribe, Goto, alignVars, Locks, AlignedBySomeone, Mutexes, Owns, Aligns, Sub, AlignTyped, SubscribersTyped, ThreadsTyped, Entity
<1> QED BY <1>1, <1>2, <1>3 DEF Locks

LEMMA AlignBeginLocks ==
    ASSUME AlignTyped, Locks, NEW t \in Thread, AlignBegin(t)
    PROVE  Locks'
<1>1. Mutexes'
    BY DEF AlignBegin, Goto, Locks, Mutexes, Owns, Sub, AlignTyped, SubscribersTyped, ThreadsTyped, Entity
<1>2. Flags'
    BY DEF AlignBegin, Goto, Locks, Flags, Mutexes, Owns, Sub, AlignTyped, SubscribersTyped, ThreadsTyped, Entity
<1>3. AlignedBySomeone'
    BY DEF AlignBegin, Goto, Locks, AlignedBySomeone, Mutexes, Owns, Aligns, Sub, AlignTyped, SubscribersTyped, ThreadsTyped, Entity
<1> QED BY <1>1, <1>2, <1>3 DEF Locks

LEMMA AlignObjectLocks ==
    ASSUME AlignTyped, Locks, NEW t \in Thread, AlignObject(t)
    PROVE  Locks'
<1>1. Mutexes'
    BY DEF AlignObject, Locks, Mutexes, Owns, Sub, AlignTyped, SubscribersTyped, ThreadsTyped, Entity
<1>2. Flags'
    BY DEF AlignObject, Locks, Flags, Mutexes, Owns, Sub, AlignTyped, SubscribersTyped, ThreadsTyped, Entity
<1>3. AlignedBySomeone'
    BY DEF AlignObject, Locks, AlignedBySomeone, Mutexes, Owns, Aligns, Sub, AlignTyped, SubscribersTyped, ThreadsTyped, Entity
<1> QED BY <1>1, <1>2, <1>3 DEF Locks

LEMMA AlignEndLocks ==
    ASSUME AlignTyped, Locks, NEW t \in Thread, AlignEnd(t)
    PROVE  Locks'
<1>1. Mutexes'
    BY DEF AlignEnd, Goto, localVars, Locks, Mutexes, Owns, Sub, AlignTyped, SubscribersTyped, ThreadsTyped, Entity
<1>2. Flags'
    BY DEF AlignEnd, Goto, localVars, Locks, Flags, Mutexes, Owns, Sub, AlignTyped, SubscribersTyped, ThreadsTyped, Entity
<1>3. AlignedBySomeone'
    BY DEF AlignEnd, Goto, localVars, Locks, AlignedBySomeone, Mutexes, Owns, Aligns, Sub, AlignTyped, SubscribersTyped, ThreadsTyped, Entity
<1> QED BY <1>1, <1>2, <1>3 DEF Locks

LEMMA FlushLocks ==
    ASSUME AlignTyped, Locks, NEW t \in Thread, Flush(t)
    PROVE  Locks'
<1>1. Mutexes'
    BY DEF Flush, MustFlush, localVars, Locks, Mutexes, Owns, Sub, AlignTyped, SubscribersTyped, ThreadsTyped, Entity
<1>2. Flags'
    BY DEF Flush, MustFlush, localVars, Locks, Flags, Mutexes, Owns, Sub, AlignTyped, SubscribersTyped, ThreadsTyped, Entity
<1>3. AlignedBySomeone'
    BY DEF Flush, MustFlush, localVars, Locks, AlignedBySomeone, Mutexes, Owns, Aligns, Sub, AlignTyped, SubscribersTyped, ThreadsTyped, Entity
<1> QED BY <1>1, <1>2, <1>3 DEF Locks

LEMMA FlushEndLocks ==
    ASSUME AlignTyped, Locks, NEW t \in Thread, FlushEnd(t)
    PROVE  Locks'
<1>1. Mutexes'
    BY DEF FlushEnd, MustFlush, Goto, localVars, Unlock, Locks, Mutexes, Owns, Sub, AlignTyped, SubscribersTyped, ThreadsTyped, Entity
<1>2. Flags'
    BY DEF FlushEnd, MustFlush, Goto, localVars, Unlock, Locks, Flags, Mutexes, Owns, Sub, AlignTyped, SubscribersTyped, ThreadsTyped, Entity
<1>3. AlignedBySomeone'
    <2>1. alignQueue' = alignQueue /\ isAligning' = isAligning
        BY DEF FlushEnd
    <2>2. alignQueue[Sub(t)] = <<>> /\ ~isAligning[Sub(t)]
        BY DEF FlushEnd, MustFlush, Goto, Locks, Flags
    <2>3. ASSUME NEW u \in Thread, NEW s \in Subscriber, u # t, Aligns(u, s)
          PROVE  Aligns(u, s)'
        BY <2>3 DEF FlushEnd, Goto, localVars, Aligns, Sub, AlignTyped, ThreadsTyped
    <2>4. ASSUME NEW s \in Subscriber, isAligning'[s] \/ alignQueue'[s] # <<>>
          PROVE  \E u \in Thread : Aligns(u, s)'
        <3>1. PICK u \in Thread : Aligns(u, s)
            BY <2>1, <2>4 DEF Locks, AlignedBySomeone
        <3>2. u # t
            BY <2>1, <2>2, <2>4, <3>1 DEF Aligns
        <3> QED BY <2>3, <3>1, <3>2
    <2> QED BY <2>4 DEF AlignedBySomeone
<1> QED BY <1>1, <1>2, <1>3 DEF Locks

LEMMA ToldLocks ==
    ASSUME AlignTyped, Locks, NEW t \in Thread, Told(t)
    PROVE  Locks'
<1>1. Mutexes'
    BY DEF Told, ToldVars, Goto, localVars, alignVars, Locks, Mutexes, Owns, Sub, AlignTyped, SubscribersTyped, ThreadsTyped, Entity
<1>2. Flags'
    <2>1. isAligning' = isAligning /\ current' = current
        BY DEF Told, ToldVars, localVars, alignVars
    <2>2. \A u \in Thread : pc'[u] \in {"mounts", "aligning", "flush"} =>
              pc[u] \in {"mounts", "aligning", "flush"} /\ (pc'[u] = "flush" <=> pc[u] = "flush")
        BY DEF Told, Goto, AlignTyped, ThreadsTyped
    <2> QED BY <2>1, <2>2 DEF Locks, Flags, Sub
<1>3. AlignedBySomeone'
    BY ZenonT(60) DEF Told, ToldVars, Goto, localVars, alignVars, Locks, AlignedBySomeone, Mutexes, Owns, Aligns, Sub, AlignTyped, SubscribersTyped, ThreadsTyped, Entity
<1> QED BY <1>1, <1>2, <1>3 DEF Locks

LEMMA RestLocks ==
    ASSUME AlignTyped, Locks, UNCHANGED subscriberVars
    PROVE  Locks'
<1>1. Mutexes'
    BY DEF subscriberVars, localVars, alignVars, Locks, Mutexes, Owns, Sub, AlignTyped, SubscribersTyped, ThreadsTyped, Entity
<1>2. Flags'
    BY DEF subscriberVars, localVars, alignVars, Locks, Flags, Mutexes, Owns, Sub, AlignTyped, SubscribersTyped, ThreadsTyped, Entity
<1>3. AlignedBySomeone'
    BY DEF subscriberVars, localVars, alignVars, Locks, AlignedBySomeone, Mutexes, Owns, Aligns, Sub, AlignTyped, SubscribersTyped, ThreadsTyped, Entity
<1> QED BY <1>1, <1>2, <1>3 DEF Locks

(***************************************************************************)
(* Windows                                                                 *)
(***************************************************************************)
LEMMA ChangeWindows ==
    ASSUME AlignTyped, Locks, Windows, NEW t \in Thread, NEW k \in Key, NEW f, NEW b, Change(t, k, b, f)
    PROVE  Windows'
<1>1. NotYet'
    BY DEF Change, Goto, alignVars, Enrolling, Windows, NotYet, Sub, AlignTyped, ThreadsTyped
<1>2. Apart'
    BY DEF Change, Goto, alignVars, Enrolling, Windows, NotYet, Apart, NoMore, Locks, Mutexes, Flags, Owns, Sub, AlignTyped, SubscribersTyped, ThreadsTyped
<1>3. NoMore'
    BY DEF Change, Goto, alignVars, Enrolling, Windows, NoMore, Locks, Mutexes, Owns, Sub, AlignTyped, SubscribersTyped, ThreadsTyped
<1> QED BY <1>1, <1>2, <1>3 DEF Windows

LEMMA WalkWindows ==
    ASSUME AlignTyped, Locks, Windows, NEW t \in Thread, Walk(t)
    PROVE  Windows'
<1>1. NotYet'
    BY DEF Walk, adminVars, Deepest, Goto, alignVars, Windows, NotYet, Sub, AlignTyped, ThreadsTyped
<1>2. Apart'
    BY DEF Walk, adminVars, Deepest, Goto, alignVars, Windows, NotYet, Apart, NoMore, Locks, Mutexes, Flags, Owns, Sub, AlignTyped, SubscribersTyped, ThreadsTyped
<1>3. NoMore'
    BY DEF Walk, adminVars, Deepest, Goto, alignVars, Windows, NoMore, Locks, Mutexes, Owns, Sub, AlignTyped, SubscribersTyped, ThreadsTyped
<1> QED BY <1>1, <1>2, <1>3 DEF Windows

LEMMA LockAlignWindows ==
    ASSUME AlignTyped, Locks, Windows, NEW t \in Thread, LockAlign(t)
    PROVE  Windows'
<1>1. NotYet'
    BY DEF LockAlign, adminVars, Goto, localVars, Windows, NotYet, Sub, AlignTyped, ThreadsTyped
<1>2. Apart'
    BY DEF LockAlign, adminVars, Goto, localVars, Windows, NotYet, Apart, NoMore, Locks, Mutexes, Flags, Owns, Sub, AlignTyped, SubscribersTyped, ThreadsTyped
<1>3. NoMore'
    BY DEF LockAlign, adminVars, Goto, localVars, Windows, NoMore, Locks, Mutexes, Owns, Sub, AlignTyped, SubscribersTyped, ThreadsTyped
<1> QED BY <1>1, <1>2, <1>3 DEF Windows

LEMMA InvokeWindows ==
    ASSUME AlignTyped, Locks, Windows, NEW t \in Thread, Invoke(t)
    PROVE  Windows'
<1>1. NotYet'
    BY DEF Invoke, adminVars, Goto, alignVars, Windows, NotYet, Sub, AlignTyped, ThreadsTyped
<1>2. Apart'
    BY DEF Invoke, adminVars, Goto, alignVars, Windows, NotYet, Apart, NoMore, Locks, Mutexes, Flags, Owns, Sub, AlignTyped, SubscribersTyped, ThreadsTyped
<1>3. NoMore'
    BY DEF Invoke, adminVars, Goto, alignVars, Windows, NoMore, Locks, Mutexes, Owns, Sub, AlignTyped, SubscribersTyped, ThreadsTyped
<1> QED BY <1>1, <1>2, <1>3 DEF Windows

LEMMA DeliverWindows ==
    ASSUME AlignTyped, Locks, Windows, NEW t \in Thread, Deliver(t)
    PROVE  Windows'
<1>1. NotYet'
    BY DeliverMoves DEF Windows, NotYet, Sub, AlignTyped, ThreadsTyped
<1>2. Apart'
    BY DeliverMoves DEF Windows, Apart, Sub, AlignTyped, ThreadsTyped
<1>3. NoMore'
    BY DeliverMoves DEF Windows, NoMore, Sub, AlignTyped, ThreadsTyped
<1> QED BY <1>1, <1>2, <1>3 DEF Windows

LEMMA NotifyEndWindows ==
    ASSUME AlignTyped, Locks, Windows, NEW t \in Thread, NotifyEnd(t)
    PROVE  Windows'
<1>1. NotYet'
    BY DEF NotifyEnd, adminVars, Goto, localVars, alignVars, Windows, NotYet, Sub, AlignTyped, ThreadsTyped
<1>2. Apart'
    BY DEF NotifyEnd, adminVars, Goto, localVars, alignVars, Windows, NotYet, Apart, NoMore, Locks, Mutexes, Flags, Owns, Sub, AlignTyped, SubscribersTyped, ThreadsTyped
<1>3. NoMore'
    BY DEF NotifyEnd, adminVars, Goto, localVars, alignVars, Windows, NoMore, Locks, Mutexes, Owns, Sub, AlignTyped, SubscribersTyped, ThreadsTyped
<1> QED BY <1>1, <1>2, <1>3 DEF Windows

LEMMA HandleEventWindows ==
    ASSUME AlignTyped, Locks, Windows, NEW s \in Subscriber, HandleEvent(s)
    PROVE  Windows'
<1>1. NotYet'
    BY DEF HandleEvent, adminVars, localVars, alignVars, Windows, NotYet, Sub, AlignTyped, ThreadsTyped
<1>2. Apart'
    BY DEF HandleEvent, adminVars, localVars, alignVars, Windows, NotYet, Apart, NoMore, Locks, Mutexes, Flags, Owns, Sub, AlignTyped, SubscribersTyped, ThreadsTyped
<1>3. NoMore'
    BY DEF HandleEvent, adminVars, localVars, alignVars, Windows, NoMore, Locks, Mutexes, Owns, Sub, AlignTyped, SubscribersTyped, ThreadsTyped
<1> QED BY <1>1, <1>2, <1>3 DEF Windows

LEMMA SubscribeWindows ==
    ASSUME AlignTyped, Locks, Windows, NEW t \in Thread, NEW e \in Entity, Subscribe(t, e)
    PROVE  Windows'
<1>1. NotYet'
    BY DEF Subscribe, Goto, alignVars, Windows, NotYet, Sub, AlignTyped, ThreadsTyped
<1>2. Apart'
    BY DEF Subscribe, Goto, alignVars, Windows, NotYet, Apart, NoMore, Locks, Mutexes, Flags, Owns, Sub, AlignTyped, SubscribersTyped, ThreadsTyped
<1>3. NoMore'
    BY DEF Subscribe, Goto, alignVars, Windows, NoMore, Locks, Mutexes, Owns, Sub, AlignTyped, SubscribersTyped, ThreadsTyped
<1> QED BY <1>1, <1>2, <1>3 DEF Windows

LEMMA UnsubscribeWindows ==
    ASSUME AlignTyped, Locks, Windows, NEW t \in Thread, NEW e \in Entity, Unsubscribe(t, e)
    PROVE  Windows'
<1>1. NotYet'
    BY DEF Unsubscribe, Goto, alignVars, Windows, NotYet, Sub, AlignTyped, ThreadsTyped
<1>2. Apart'
    BY DEF Unsubscribe, Goto, alignVars, Windows, NotYet, Apart, NoMore, Locks, Mutexes, Flags, Owns, Sub, AlignTyped, SubscribersTyped, ThreadsTyped
<1>3. NoMore'
    BY DEF Unsubscribe, Goto, alignVars, Windows, NoMore, Locks, Mutexes, Owns, Sub, AlignTyped, SubscribersTyped, ThreadsTyped
<1> QED BY <1>1, <1>2, <1>3 DEF Windows

LEMMA AlignBeginWindows ==
    ASSUME AlignTyped, Locks, Windows, NEW t \in Thread, AlignBegin(t)
    PROVE  Windows'
<1>1. NotYet'
    BY DEF AlignBegin, adminVars, Goto, Windows, NotYet, Sub, AlignTyped, ThreadsTyped
<1>2. Apart'
    BY DEF AlignBegin, adminVars, Goto, Windows, NotYet, Apart, NoMore, Locks, Mutexes, Flags, Owns, Sub, AlignTyped, SubscribersTyped, ThreadsTyped
<1>3. NoMore'
    BY DEF AlignBegin, adminVars, Goto, Windows, NoMore, Locks, Mutexes, Owns, Sub, AlignTyped, SubscribersTyped, ThreadsTyped
<1> QED BY <1>1, <1>2, <1>3 DEF Windows

LEMMA AlignObjectWindows ==
    ASSUME AlignTyped, Locks, Windows, NEW t \in Thread, AlignObject(t)
    PROVE  Windows'
<1>1. NotYet'
    BY DEF AlignObject, adminVars, Windows, NotYet, Sub, AlignTyped, ThreadsTyped
<1>2. Apart'
    BY DEF AlignObject, adminVars, Windows, NotYet, Apart, NoMore, Locks, Mutexes, Flags, Owns, Sub, AlignTyped, SubscribersTyped, ThreadsTyped
<1>3. NoMore'
    BY DEF AlignObject, adminVars, Windows, NoMore, Locks, Mutexes, Owns, Sub, AlignTyped, SubscribersTyped, ThreadsTyped
<1> QED BY <1>1, <1>2, <1>3 DEF Windows

LEMMA AlignEndWindows ==
    ASSUME AlignTyped, Locks, Windows, NEW t \in Thread, AlignEnd(t)
    PROVE  Windows'
<1>1. NotYet'
    BY DEF AlignEnd, Goto, localVars, Windows, NotYet, Sub, AlignTyped, ThreadsTyped
<1>2. Apart'
    BY DEF AlignEnd, Goto, localVars, Windows, NotYet, Apart, NoMore, Locks, Mutexes, Flags, Owns, Sub, AlignTyped, SubscribersTyped, ThreadsTyped
<1>3. NoMore'
    <2> SUFFICES ASSUME NEW a \in Thread, NEW u \in Thread, pc'[a] = "flush", Sub(a) \notin raced', u \in Notifying'
                 PROVE  (pc'[u] = "lock" /\ Sub(u) = Sub(a)) \/ \A e \in todo[u] : e[1] # Sub(a)
        BY DEF AlignEnd, localVars, NoMore, Sub
    <2>1. u \in Notifying /\ pc'[u] = pc[u] /\ raced \subseteq raced'
        BY DEF AlignEnd, Goto, AlignTyped, ThreadsTyped
    <2>2. CASE a = t
        <3>1. WaitsFor(u, Sub(t)) \/ \A e \in todo[u] : e[1] # Sub(t)
            BY <2>1, <2>2 DEF AlignEnd
        <3> QED BY <2>1, <2>2, <3>1 DEF WaitsFor
    <2>3. CASE a # t
        <3>1. pc[a] = "flush"
            BY <2>3 DEF AlignEnd, Goto, AlignTyped, ThreadsTyped
        <3> QED BY <2>1, <3>1 DEF Windows, NoMore
    <2> QED BY <2>2, <2>3
<1> QED BY <1>1, <1>2, <1>3 DEF Windows

LEMMA FlushWindows ==
    ASSUME AlignTyped, Locks, Windows, NEW t \in Thread, Flush(t)
    PROVE  Windows'
<1>1. NotYet'
    BY DEF Flush, adminVars, MustFlush, localVars, Windows, NotYet, Sub, AlignTyped, ThreadsTyped
<1>2. Apart'
    BY DEF Flush, adminVars, MustFlush, localVars, Windows, NotYet, Apart, NoMore, Locks, Mutexes, Flags, Owns, Sub, AlignTyped, SubscribersTyped, ThreadsTyped
<1>3. NoMore'
    BY DEF Flush, adminVars, MustFlush, localVars, Windows, NoMore, Locks, Mutexes, Owns, Sub, AlignTyped, SubscribersTyped, ThreadsTyped
<1> QED BY <1>1, <1>2, <1>3 DEF Windows

LEMMA FlushEndWindows ==
    ASSUME AlignTyped, Locks, Windows, NEW t \in Thread, FlushEnd(t)
    PROVE  Windows'
<1>1. NotYet'
    BY DEF FlushEnd, Goto, localVars, Windows, NotYet, Sub, AlignTyped, ThreadsTyped
<1>2. Apart'
    BY DEF FlushEnd, Goto, localVars, Windows, NotYet, Apart, NoMore, Locks, Mutexes, Flags, Owns, Sub, AlignTyped, SubscribersTyped, ThreadsTyped
<1>3. NoMore'
    BY DEF FlushEnd, Goto, localVars, Windows, NoMore, Locks, Mutexes, Owns, Sub, AlignTyped, SubscribersTyped, ThreadsTyped
<1> QED BY <1>1, <1>2, <1>3 DEF Windows

LEMMA ToldWindows ==
    ASSUME AlignTyped, Locks, Windows, NEW t \in Thread, Told(t)
    PROVE  Windows'
<1>1. current' = current /\ todo' = todo /\ raced' = raced
    BY DEF Told, adminVars, ToldVars, localVars
<1>2. \A u \in Thread : \A q \in {"align", "flush", "walk", "lock", "invoke", "deliver"} :
          pc'[u] = q <=> pc[u] = q
    BY DEF Told, Goto, AlignTyped, ThreadsTyped
<1>3. \A u \in Thread : pc'[u] \in {"mounts", "aligning", "flush"} => pc[u] \in {"mounts", "aligning", "flush"}
    BY DEF Told, Goto, AlignTyped, ThreadsTyped
<1>4. NotYet'
    BY <1>1, <1>2 DEF Windows, NotYet, Sub
<1>5. Apart'
    BY <1>1, <1>2, <1>3 DEF Windows, Apart, Sub
<1>6. NoMore'
    BY <1>1, <1>2 DEF Windows, NoMore, Sub
<1> QED BY <1>4, <1>5, <1>6 DEF Windows

LEMMA RestWindows ==
    ASSUME AlignTyped, Locks, Windows, UNCHANGED subscriberVars
    PROVE  Windows'
<1>1. NotYet'
    BY DEF subscriberVars, adminVars, localVars, alignVars, Windows, NotYet, Sub, AlignTyped, ThreadsTyped
<1>2. Apart'
    BY DEF subscriberVars, adminVars, localVars, alignVars, Windows, NotYet, Apart, NoMore, Locks, Mutexes, Flags, Owns, Sub, AlignTyped, SubscribersTyped, ThreadsTyped
<1>3. NoMore'
    BY DEF subscriberVars, adminVars, localVars, alignVars, Windows, NoMore, Locks, Mutexes, Owns, Sub, AlignTyped, SubscribersTyped, ThreadsTyped
<1> QED BY <1>1, <1>2, <1>3 DEF Windows

(***************************************************************************)
(* The order of events                                                     *)
(***************************************************************************)
\* The first event of the dispatcher is handled.
LEMMA HandleKeepsLine ==
    ASSUME NEW f \in [Key -> Events], NEW p \in Seq(Events), NEW q \in Seq(Events), p # <<>>, Line(f, p, q)
    PROVE  /\ ~Before(Head(p), f[Head(p).key])
           /\ Line([f EXCEPT ![Head(p).key] = Head(p)], Tail(p), q)
<1>1. PICK ev \in Events : ev = Head(p)
    BY HeadAndTail
<1>2. PICK r \in Seq(Events) : r = Tail(p)
    BY HeadAndTail
<1>3. PICK g : g = [f EXCEPT ![ev.key] = ev]
    OBVIOUS
<1>4. Len(p) \in Nat /\ 1 \in 1..Len(p) /\ ev = p[1] /\ \A i \in 1..Len(r) : i + 1 \in 1..Len(p) /\ r[i] = p[i + 1]
    BY <1>1, <1>2, HeadAndTail
<1>5. InOrder(r) /\ \A i \in 1..Len(r) : r[i].key = ev.key => ~Before(r[i], ev)
    BY <1>1, <1>2, TailKeepsOrder DEF Line
<1>6. \A k \in Key : g[k] = IF k = ev.key THEN ev ELSE f[k]
    BY <1>3
<1>7. \A i \in 1..Len(r) : r[i] \in Events /\ r[i].key \in Key
    <2>1. \A i \in 1..Len(r) : r[i] \in Events
        OBVIOUS
    <2> QED BY <2>1 DEF Events
<1>8. \A i \in 1..Len(q) : q[i] \in Events /\ q[i].key \in Key
    <2>1. \A i \in 1..Len(q) : q[i] \in Events
        OBVIOUS
    <2> QED BY <2>1 DEF Events
<1>9. SeenBefore(g, r)
    <2>1. \A i \in 1..Len(r) : ~Before(r[i], f[r[i].key])
        BY <1>4 DEF Line, SeenBefore
    <2> QED BY <1>5, <1>6, <1>7, <2>1 DEF SeenBefore
<1>10. SeenBefore(g, q)
    <2>1. \A i \in 1..Len(q) : ev.key = q[i].key => ~Before(q[i], ev)
        BY <1>4 DEF Line, AllBefore
    <2> QED BY <1>6, <1>8, <2>1 DEF Line, SeenBefore
<1>11. AllBefore(r, q)
    BY <1>4 DEF Line, AllBefore
<1>12. ~Before(ev, f[ev.key])
    BY <1>4 DEF Line, SeenBefore
<1> QED BY <1>1, <1>2, <1>3, <1>5, <1>9, <1>10, <1>11, <1>12 DEF Line

\* The first event of the align queue is handled: the dispatcher has none.
LEMMA FlushKeepsLine ==
    ASSUME NEW f \in [Key -> Events], NEW q \in Seq(Events), q # <<>>, Line(f, <<>>, q)
    PROVE  /\ ~Before(Head(q), f[Head(q).key])
           /\ Line([f EXCEPT ![Head(q).key] = Head(q)], <<>>, Tail(q))
<1>1. <<>> \in Seq(Events) /\ Len(<<>>) = 0
    OBVIOUS
<1>2. Line(f, q, <<>>)
    BY <1>1 DEF Line, InOrder, AllBefore, SeenBefore
<1>3. /\ ~Before(Head(q), f[Head(q).key])
      /\ Line([f EXCEPT ![Head(q).key] = Head(q)], Tail(q), <<>>)
    BY <1>1, <1>2, HandleKeepsLine
<1>4. PICK g : g = [f EXCEPT ![Head(q).key] = Head(q)]
    OBVIOUS
<1>5. PICK r : r = Tail(q)
    OBVIOUS
<1>6. Line(g, r, <<>>)
    BY <1>3, <1>4, <1>5
<1>7. Line(g, <<>>, r)
    BY <1>1, <1>6 DEF Line, InOrder, AllBefore, SeenBefore
<1> QED BY <1>3, <1>4, <1>5, <1>7

\* The first event of the align queue is given to the dispatcher.
LEMMA MoveKeepsLine ==
    ASSUME NEW f \in [Key -> Events], NEW p \in Seq(Events), NEW q \in Seq(Events), q # <<>>, Line(f, p, q)
    PROVE  Line(f, Append(p, Head(q)), Tail(q))
<1>1. PICK ev \in Events : ev = Head(q)
    BY HeadAndTail
<1>2. PICK r \in Seq(Events) : r = Tail(q)
    BY HeadAndTail
<1>3. Len(q) \in Nat /\ 1 \in 1..Len(q) /\ ev = q[1] /\ \A i \in 1..Len(r) : i + 1 \in 1..Len(q) /\ r[i] = q[i + 1]
    BY <1>1, <1>2, HeadAndTail
<1>4. InOrder(r) /\ \A i \in 1..Len(r) : r[i].key = ev.key => ~Before(r[i], ev)
    BY <1>1, <1>2, TailKeepsOrder DEF Line
<1>5. NotAfter(p, ev)
    BY <1>3 DEF Line, AllBefore, NotAfter
<1>6. PICK n \in Seq(Events) : n = Append(p, ev)
    BY Appended
<1>7. Len(p) \in Nat /\ Len(n) = Len(p) + 1 /\ n[Len(p) + 1] = ev /\ \A i \in 1..Len(p) : n[i] = p[i]
    BY <1>6, Appended
<1>8. \A i \in 1..Len(n) : n[i] = ev \/ (i \in 1..Len(p) /\ n[i] = p[i])
    BY <1>7
<1>9. InOrder(n)
    BY <1>5, <1>6, AppendKeepsOrder DEF Line
<1>10. AllBefore(n, r)
    <2>1. AllBefore(p, r)
        BY <1>3 DEF Line, AllBefore
    <2> QED BY <1>4, <1>8, <2>1 DEF AllBefore
<1>11. SeenBefore(f, n) /\ SeenBefore(f, r)
    <2>1. ~Before(ev, f[ev.key])
        BY <1>3 DEF Line, SeenBefore
    <2>2. SeenBefore(f, r)
        BY <1>3 DEF Line, SeenBefore
    <2> QED BY <1>8, <2>1, <2>2 DEF Line, SeenBefore
<1> QED BY <1>1, <1>2, <1>4, <1>6, <1>9, <1>10, <1>11 DEF Line

\* An event that is not older than the others is given to the dispatcher, or put in the align
\* queue.
LEMMA GiveKeepsLine ==
    ASSUME NEW f, NEW p \in Seq(Events), NEW ev \in Events, Line(f, p, <<>>), NotAfter(p, ev),
           ~Before(ev, f[ev.key])
    PROVE  Line(f, Append(p, ev), <<>>)
<1>1. PICK n \in Seq(Events) : n = Append(p, ev)
    BY Appended
<1>2. Len(p) \in Nat /\ Len(n) = Len(p) + 1 /\ n[Len(p) + 1] = ev /\ \A i \in 1..Len(p) : n[i] = p[i]
    BY <1>1, Appended
<1>3. \A i \in 1..Len(n) : n[i] = ev \/ (i \in 1..Len(p) /\ n[i] = p[i])
    BY <1>2
<1>4. InOrder(n)
    BY <1>1, AppendKeepsOrder DEF Line
<1>5. SeenBefore(f, n)
    BY <1>3 DEF Line, SeenBefore
<1>6. AllBefore(n, <<>>)
    BY DEF AllBefore
<1> QED BY <1>1, <1>4, <1>5, <1>6 DEF Line

LEMMA AddKeepsLine ==
    ASSUME NEW f, NEW p \in Seq(Events), NEW q \in Seq(Events), NEW ev \in Events, Line(f, p, q),
           NotAfter(p, ev), NotAfter(q, ev), ~Before(ev, f[ev.key]), ~Before(ev, ev)
    PROVE  Line(f, p, AddToAlignQueue(q, ev))
<1>1. PICK r : r = AddToAlignQueue(q, ev)
    OBVIOUS
<1>2. \A i \in 1..Len(r) : r[i] = ev \/ (i \in 1..Len(q) /\ r[i] = q[i])
    <2>1. LET a == AddToAlignQueue(q, ev)
          IN  /\ a \in Seq(Events) /\ Len(a) \in Nat
              /\ \A i \in 1..Len(a) : a[i] = ev \/ (i \in 1..Len(q) /\ a[i] = q[i] /\ q[i].key # ev.key)
        BY AddedToAlignQueue
    <2> QED BY <1>1, <2>1
<1>3. InOrder(r)
    BY <1>1, AddKeepsOrder DEF Line
<1>4. AllBefore(p, r)
    BY <1>2 DEF Line, AllBefore, NotAfter
<1>5. SeenBefore(f, r)
    BY <1>2 DEF Line, SeenBefore
<1> QED BY <1>1, <1>3, <1>4, <1>5 DEF Line

(***************************************************************************)
(* Versions and order in the steps                                         *)
(***************************************************************************)
\* The queues of the subscribers and what they handled.
QueuesTyped == /\ seen \in [Subscriber -> [Key -> Events]] /\ version \in [Key -> Nat]
               /\ posted \in [Subscriber -> Seq(Events)] /\ alignQueue \in [Subscriber -> Seq(Events)]

LEMMA QueuesAreTyped ==
    ASSUME AlignTyped
    PROVE  /\ QueuesTyped
           /\ \A s \in Subscriber, k \in Key : seen[s][k].version \in Nat
           /\ \A q \in Seq(Events) : \A i \in 1..Len(q) : q[i].key \in Key /\ q[i].version \in Nat
<1>1. QueuesTyped
    BY DEF AlignTyped, SubscribersTyped, QueuesTyped
<1>2. \A s \in Subscriber, k \in Key : seen[s][k] \in Events
    BY <1>1 DEF QueuesTyped
<1>3. \A q \in Seq(Events) : \A i \in 1..Len(q) : q[i] \in Events
    OBVIOUS
<1> QED BY <1>1, <1>2, <1>3 DEF Events

\* An event that comes to the subscribers now: its change is not in the past of any event
\* about the object that there is.
Comes(ev) == \A k \in Key : ev.key = k => ev.version \notin Ended(k) \ {version[k]}

LEMMA ComesAfter ==
    ASSUME NEW ev \in Events, Comes(ev)
    PROVE  /\ \A x : x.key = ev.key /\ Settled(x) => ~Before(ev, x)
           /\ \A f : SeenPast(f) => ~Before(ev, f[ev.key])
           /\ \A q : Past(q) => NotAfter(q, ev)
<1>1. ev.key \in Key
    BY DEF Events
<1>2. \A x : x.key = ev.key /\ Settled(x) => ~Before(ev, x)
    BY <1>1 DEF Comes, Settled, Before
<1>3. \A f : SeenPast(f) => ~Before(ev, f[ev.key])
    BY <1>1, <1>2 DEF SeenPast
<1>4. \A q : Past(q) => NotAfter(q, ev)
    BY <1>2 DEF Past, NotAfter
<1> QED BY <1>2, <1>3, <1>4

LEMMA EventComes ==
    ASSUME AlignTyped, Begun, NEW t \in Notifying
    PROVE  event[t] \in Events /\ event[t].key \in Key /\ Comes(event[t]) /\ Settled(event[t])
BY DEF AlignTyped, ThreadsTyped, Begun, Events, Comes, Ended, Underway

LEMMA SelectedComes ==
    ASSUME AlignTyped, NEW k \in Key
    PROVE  /\ Selected(k) \in Events /\ Selected(k).key = k
           /\ Comes(Selected(k)) /\ Settled(Selected(k))
<1>1. version[k] \in Nat /\ Ended(k) \subseteq Nat
    BY EndedTyped
<1>2. /\ Selected(k) \in Events /\ Selected(k).key = k /\ Selected(k).version = version[k]
      /\ Selected(k).past = Ended(k) \ {version[k]}
    BY <1>1 DEF Selected, NoEvent, Events
<1> QED BY <1>2 DEF Comes, Settled

\* A subscriber that is notified is not aligned.
LEMMA NotAligned ==
    ASSUME AlignTyped, Locks, Windows, NEW t \in Thread, pc[t] \in {"invoke", "deliver"}, Sub(t) \notin raced
    PROVE  ~isAligning[Sub(t)] /\ alignQueue[Sub(t)] = <<>>
<1>1. Sub(t) \in Subscriber
    BY ConfigTyped
<1> QED BY <1>1 DEF Windows, Apart, Locks, AlignedBySomeone, Aligns

\* A step that handles nothing and changes no queue.
QueuesRest == UNCHANGED <<program, posted, seen, alignQueue>> /\ raced \subseteq raced'

LEMMA RestKeepsOrder ==
    ASSUME Ordered, QueuesRest
    PROVE  Ordered'
BY DEF Ordered, QueuesRest, HasDispatcher, Config

\* What is settled stays settled: the changes that have ended become only more.
LEMMA RestKeepsEnded ==
    ASSUME AlignTyped, version' = version, \A u \in Notifying' : u \in Notifying /\ SameEvent(u)
    PROVE  /\ \A k \in Key : Ended(k) \subseteq Ended(k)'
           /\ \A x : x.key \in Key /\ Settled(x) => Settled(x)'
<1>1. ASSUME NEW k \in Key
      PROVE  Ended(k) \subseteq Ended(k)'
    BY DEF Ended, Underway, SameEvent
<1>2. ASSUME NEW x, x.key \in Key, Settled(x)
      PROVE  Settled(x)'
    BY <1>1, <1>2 DEF Settled
<1> QED BY <1>1, <1>2

\* The same of all events that were handled or that are in a queue.
LEMMA SettledStays ==
    ASSUME \A x : x.key \in Key /\ Settled(x) => Settled(x)'
    PROVE  /\ \A f : SeenPast(f) => SeenPast(f)'
           /\ \A q \in Seq(Events) : Past(q) => Past(q)'
<1>1. ASSUME NEW f, SeenPast(f)
      PROVE  SeenPast(f)'
    BY <1>1 DEF SeenPast
<1>2. ASSUME NEW q \in Seq(Events), Past(q)
      PROVE  Past(q)'
    <2>1. \A i \in 1..Len(q) : q[i] \in Events
        OBVIOUS
    <2>2. \A i \in 1..Len(q) : q[i].key \in Key
        BY <2>1 DEF Events
    <2> QED BY <1>2, <2>2 DEF Past
<1> QED BY <1>1, <1>2

LEMMA RestKeepsVersions ==
    ASSUME AlignTyped, Versions, QueuesRest, version' = version,
           \A u \in Notifying' : u \in Notifying /\ SameEvent(u)
    PROVE  Versions'
<1>1. \A x : x.key \in Key /\ Settled(x) => Settled(x)'
    BY RestKeepsEnded
<1>2. Begun'
    <2> SUFFICES ASSUME NEW u \in Notifying'
                 PROVE  Settled(event[u])'
        BY DEF Begun
    <2>1. PICK ev : ev = event[u]
        OBVIOUS
    <2>2. ev.key \in Key /\ Settled(ev) /\ event'[u].key = ev.key /\ event'[u].past = ev.past
        BY <2>1, EventComes DEF Versions, SameEvent
    <2>3. Settled(ev)'
        BY <1>1, <2>2
    <2> QED BY <2>2, <2>3 DEF Settled
<1>3. ASSUME NEW s \in Subscriber
      PROVE  (SeenPast(seen[s]) /\ Past(posted[s]) /\ Past(alignQueue[s]))'
    <2>1. posted[s] \in Seq(Events) /\ alignQueue[s] \in Seq(Events)
        BY QueuesAreTyped DEF QueuesTyped
    <2>2. PICK f, p, q : f = seen[s] /\ p = posted[s] /\ q = alignQueue[s]
        OBVIOUS
    <2>3. SeenPast(f)' /\ Past(p)' /\ Past(q)'
        BY <1>1, <2>1, <2>2, SettledStays DEF Versions
    <2>4. seen'[s] = f /\ posted'[s] = p /\ alignQueue'[s] = q
        BY <2>2 DEF QueuesRest
    <2> QED BY <2>3, <2>4 DEF SeenPast, Past
<1> QED BY <1>2, <1>3 DEF Versions

\* A step that leaves alone what is delivered.
LEMMA RestKeepsSync ==
    ASSUME Sync, UNCHANGED <<program, sync>>, raced \subseteq raced',
           \A u \in Thread : pc'[u] = "deliver" => pc[u] = "deliver" /\ current'[u] = current[u]
    PROVE  Sync'
BY DEF Sync, HasDispatcher, Config, Sub

LEMMA ChangeOrder ==
    ASSUME AlignTyped, Versions, Ordered, Sync, NEW t \in Thread, NEW k \in Key, NEW f, NEW b, Change(t, k, b, f)
    PROVE  Versions' /\ Ordered' /\ Sync'
<1>1. QueuesRest /\ version' = [version EXCEPT ![k] = @ + 1] /\ UNCHANGED <<sync, current>>
    BY DEF Change, alignVars, QueuesRest
<1>2. version \in [Key -> Nat] /\ event \in [Thread -> Events]
    BY QueuesAreTyped DEF QueuesTyped, AlignTyped, ThreadsTyped
<1>3. Ordered'
    BY <1>1, RestKeepsOrder
<1>4. PICK ev : /\ ev = [key |-> k, version |-> version[k] + 1, past |-> Ended(k), exists |-> b, value |-> 0]
                /\ event' = [event EXCEPT ![t] = ev]
    BY DEF Change
<1>5. /\ \A u \in Notifying' : u # t => u \in Notifying /\ event'[u] = event[u]
      /\ event'[t] = ev
    BY <1>2, <1>4 DEF Change, Goto, AlignTyped, ThreadsTyped
<1>6. ASSUME NEW j \in Key
      PROVE  Ended(j) \subseteq Ended(j)' /\ (j = k => version'[j] \notin Ended(j))
    <2>1. Ended(j) \subseteq 1..version[j] /\ version[j] \in Nat
        BY EndedTyped
    <2>2. ASSUME NEW v \in Ended(j), NEW u \in Underway(j)'
          PROVE  event'[u].version # v
        <3>1. CASE u = t
            BY <1>4, <1>5, <2>1, <3>1 DEF Underway
        <3>2. CASE u # t
            BY <1>5, <3>2 DEF Ended, Underway
        <3> QED BY <3>1, <3>2
    <2>3. version'[j] \in Nat /\ version[j] <= version'[j] /\ (j = k => version'[j] = version[j] + 1)
        BY <1>1, <1>2
    <2> QED BY <2>1, <2>2, <2>3 DEF Ended
<1>7. \A j \in Key : j # k => version'[j] = version[j]
    BY <1>1, <1>2
<1>8. ASSUME NEW x, x.key \in Key, Settled(x)
      PROVE  Settled(x)'
    BY <1>6, <1>7, <1>8 DEF Settled
<1>9. Begun'
    <2> SUFFICES ASSUME NEW u \in Notifying'
                 PROVE  Settled(event[u])'
        BY DEF Begun
    <2>1. CASE u = t
        <3>1. ev.past = Ended(k) /\ ev.key = k
            BY <1>4
        <3>2. ev.past \subseteq Ended(ev.key)' \ {version'[ev.key]}
            BY <1>6, <3>1
        <3> QED BY <1>5, <2>1, <3>2 DEF Settled
    <2>2. CASE u # t
        <3>1. event[u].key \in Key /\ Settled(event[u]) /\ event'[u] = event[u]
            BY <1>5, <2>2, EventComes DEF Versions
        <3>2. event[u].past \subseteq Ended(event[u].key)' \ {version'[event[u].key]}
            BY <1>8, <3>1 DEF Settled
        <3> QED BY <3>1, <3>2 DEF Settled
    <2> QED BY <2>1, <2>2
<1>10. ASSUME NEW s \in Subscriber
      PROVE  (SeenPast(seen[s]) /\ Past(posted[s]) /\ Past(alignQueue[s]))'
    <2>1. posted[s] \in Seq(Events) /\ alignQueue[s] \in Seq(Events)
        BY QueuesAreTyped DEF QueuesTyped
    <2>2. PICK g, p, q : g = seen[s] /\ p = posted[s] /\ q = alignQueue[s]
        OBVIOUS
    <2>3. SeenPast(g)' /\ Past(p)' /\ Past(q)'
        BY <1>8, <2>1, <2>2, SettledStays DEF Versions
    <2>4. seen'[s] = g /\ posted'[s] = p /\ alignQueue'[s] = q
        BY <1>1, <2>2 DEF QueuesRest
    <2> QED BY <2>3, <2>4 DEF SeenPast, Past
<1>11. Sync'
    <2>1. \A u \in Thread : pc'[u] = "deliver" => pc[u] = "deliver" /\ current'[u] = current[u]
        BY <1>1 DEF Change, Goto, AlignTyped, ThreadsTyped
    <2> QED BY <1>1, <2>1, RestKeepsSync DEF QueuesRest
<1> QED BY <1>3, <1>9, <1>10, <1>11 DEF Versions

LEMMA WalkOrder ==
    ASSUME AlignTyped, Versions, Ordered, Sync, NEW t \in Thread, Walk(t)
    PROVE  Versions' /\ Ordered' /\ Sync'
<1>1. QueuesRest /\ UNCHANGED <<version, event, sync>>
    BY DEF Walk, adminVars, storeVars, Goto, alignVars, QueuesRest
<1>2. \A u \in Thread : /\ u \in Notifying' => u \in Notifying
                        /\ pc'[u] = "deliver" => pc[u] = "deliver" /\ current'[u] = current[u]
    BY DEF Walk, storeVars, Goto, alignVars, AlignTyped, ThreadsTyped
<1>3. \A u \in Notifying' : u \in Notifying /\ SameEvent(u)
    BY <1>1, <1>2 DEF SameEvent
<1>4. Versions'
    BY <1>1, <1>3, RestKeepsVersions
<1>5. Sync'
    BY <1>1, <1>2, RestKeepsSync DEF QueuesRest
<1> QED BY <1>1, <1>4, <1>5, RestKeepsOrder

LEMMA LockAlignOrder ==
    ASSUME AlignTyped, Versions, Ordered, Sync, NEW t \in Thread, LockAlign(t)
    PROVE  Versions' /\ Ordered' /\ Sync'
<1>1. QueuesRest /\ UNCHANGED <<version, event, sync>>
    BY DEF LockAlign, adminVars, Goto, storeVars, localVars, QueuesRest
<1>2. \A u \in Thread : /\ u \in Notifying' => u \in Notifying
                        /\ pc'[u] = "deliver" => pc[u] = "deliver" /\ current'[u] = current[u]
    BY DEF LockAlign, Goto, storeVars, localVars, AlignTyped, ThreadsTyped
<1>3. \A u \in Notifying' : u \in Notifying /\ SameEvent(u)
    BY <1>1, <1>2 DEF SameEvent
<1>4. Versions'
    BY <1>1, <1>3, RestKeepsVersions
<1>5. Sync'
    BY <1>1, <1>2, RestKeepsSync DEF QueuesRest
<1> QED BY <1>1, <1>4, <1>5, RestKeepsOrder

LEMMA NotifyEndOrder ==
    ASSUME AlignTyped, Versions, Ordered, Sync, NEW t \in Thread, NotifyEnd(t)
    PROVE  Versions' /\ Ordered' /\ Sync'
<1>1. QueuesRest /\ UNCHANGED <<version, event, sync>>
    BY DEF NotifyEnd, adminVars, Goto, localVars, alignVars, QueuesRest
<1>2. \A u \in Thread : /\ u \in Notifying' => u \in Notifying
                        /\ pc'[u] = "deliver" => pc[u] = "deliver" /\ current'[u] = current[u]
    BY DEF NotifyEnd, Goto, localVars, alignVars, AlignTyped, ThreadsTyped
<1>3. \A u \in Notifying' : u \in Notifying /\ SameEvent(u)
    BY <1>1, <1>2 DEF SameEvent
<1>4. Versions'
    BY <1>1, <1>3, RestKeepsVersions
<1>5. Sync'
    BY <1>1, <1>2, RestKeepsSync DEF QueuesRest
<1> QED BY <1>1, <1>4, <1>5, RestKeepsOrder

LEMMA SubscribeOrder ==
    ASSUME AlignTyped, Versions, Ordered, Sync, NEW t \in Thread, NEW e \in Entity, Subscribe(t, e)
    PROVE  Versions' /\ Ordered' /\ Sync'
<1>1. QueuesRest /\ UNCHANGED <<version, event, sync>>
    BY DEF Subscribe, Goto, storeVars, alignVars, QueuesRest
<1>2. \A u \in Thread : /\ u \in Notifying' => u \in Notifying
                        /\ pc'[u] = "deliver" => pc[u] = "deliver" /\ current'[u] = current[u]
    BY DEF Subscribe, Goto, storeVars, alignVars, AlignTyped, ThreadsTyped
<1>3. \A u \in Notifying' : u \in Notifying /\ SameEvent(u)
    BY <1>1, <1>2 DEF SameEvent
<1>4. Versions'
    BY <1>1, <1>3, RestKeepsVersions
<1>5. Sync'
    BY <1>1, <1>2, RestKeepsSync DEF QueuesRest
<1> QED BY <1>1, <1>4, <1>5, RestKeepsOrder

LEMMA UnsubscribeOrder ==
    ASSUME AlignTyped, Versions, Ordered, Sync, NEW t \in Thread, NEW e \in Entity, Unsubscribe(t, e)
    PROVE  Versions' /\ Ordered' /\ Sync'
<1>1. QueuesRest /\ UNCHANGED <<version, event, sync>>
    BY DEF Unsubscribe, Goto, storeVars, alignVars, QueuesRest
<1>2. \A u \in Thread : /\ u \in Notifying' => u \in Notifying
                        /\ pc'[u] = "deliver" => pc[u] = "deliver" /\ current'[u] = current[u]
    BY DEF Unsubscribe, Goto, storeVars, alignVars, AlignTyped, ThreadsTyped
<1>3. \A u \in Notifying' : u \in Notifying /\ SameEvent(u)
    BY <1>1, <1>2 DEF SameEvent
<1>4. Versions'
    BY <1>1, <1>3, RestKeepsVersions
<1>5. Sync'
    BY <1>1, <1>2, RestKeepsSync DEF QueuesRest
<1> QED BY <1>1, <1>4, <1>5, RestKeepsOrder

LEMMA AlignBeginOrder ==
    ASSUME AlignTyped, Versions, Ordered, Sync, NEW t \in Thread, AlignBegin(t)
    PROVE  Versions' /\ Ordered' /\ Sync'
<1>1. QueuesRest /\ UNCHANGED <<version, event, sync>>
    BY DEF AlignBegin, adminVars, Goto, storeVars, QueuesRest
<1>2. \A u \in Thread : /\ u \in Notifying' => u \in Notifying
                        /\ pc'[u] = "deliver" => pc[u] = "deliver" /\ current'[u] = current[u]
    BY DEF AlignBegin, Goto, storeVars, AlignTyped, ThreadsTyped
<1>3. \A u \in Notifying' : u \in Notifying /\ SameEvent(u)
    BY <1>1, <1>2 DEF SameEvent
<1>4. Versions'
    BY <1>1, <1>3, RestKeepsVersions
<1>5. Sync'
    BY <1>1, <1>2, RestKeepsSync DEF QueuesRest
<1> QED BY <1>1, <1>4, <1>5, RestKeepsOrder

LEMMA AlignEndOrder ==
    ASSUME AlignTyped, Versions, Ordered, Sync, NEW t \in Thread, AlignEnd(t)
    PROVE  Versions' /\ Ordered' /\ Sync'
<1>1. QueuesRest /\ UNCHANGED <<version, event, sync>>
    BY DEF AlignEnd, Goto, storeVars, localVars, QueuesRest
<1>2. \A u \in Thread : /\ u \in Notifying' => u \in Notifying
                        /\ pc'[u] = "deliver" => pc[u] = "deliver" /\ current'[u] = current[u]
    BY DEF AlignEnd, Goto, storeVars, localVars, AlignTyped, ThreadsTyped
<1>3. \A u \in Notifying' : u \in Notifying /\ SameEvent(u)
    BY <1>1, <1>2 DEF SameEvent
<1>4. Versions'
    BY <1>1, <1>3, RestKeepsVersions
<1>5. Sync'
    BY <1>1, <1>2, RestKeepsSync DEF QueuesRest
<1> QED BY <1>1, <1>4, <1>5, RestKeepsOrder

LEMMA FlushEndOrder ==
    ASSUME AlignTyped, Versions, Ordered, Sync, NEW t \in Thread, FlushEnd(t)
    PROVE  Versions' /\ Ordered' /\ Sync'
<1>1. QueuesRest /\ UNCHANGED <<version, event, sync>>
    BY DEF FlushEnd, Goto, storeVars, localVars, QueuesRest
<1>2. \A u \in Thread : /\ u \in Notifying' => u \in Notifying
                        /\ pc'[u] = "deliver" => pc[u] = "deliver" /\ current'[u] = current[u]
    BY DEF FlushEnd, Goto, storeVars, localVars, AlignTyped, ThreadsTyped
<1>3. \A u \in Notifying' : u \in Notifying /\ SameEvent(u)
    BY <1>1, <1>2 DEF SameEvent
<1>4. Versions'
    BY <1>1, <1>3, RestKeepsVersions
<1>5. Sync'
    BY <1>1, <1>2, RestKeepsSync DEF QueuesRest
<1> QED BY <1>1, <1>4, <1>5, RestKeepsOrder

LEMMA ToldOrder ==
    ASSUME AlignTyped, Versions, Ordered, Sync, NEW t \in Thread, Told(t)
    PROVE  Versions' /\ Ordered' /\ Sync'
<1>1. QueuesRest /\ UNCHANGED <<version, event, sync>>
    BY DEF Told, adminVars, ToldVars, Goto, storeVars, localVars, alignVars, QueuesRest
<1>2. \A u \in Thread : /\ u \in Notifying' => u \in Notifying
                        /\ pc'[u] = "deliver" => pc[u] = "deliver" /\ current'[u] = current[u]
    BY DEF Told, ToldVars, Goto, storeVars, localVars, alignVars, AlignTyped, ThreadsTyped
<1>3. \A u \in Notifying' : u \in Notifying /\ SameEvent(u)
    BY <1>1, <1>2 DEF SameEvent
<1>4. Versions'
    BY <1>1, <1>3, RestKeepsVersions
<1>5. Sync'
    BY <1>1, <1>2, RestKeepsSync DEF QueuesRest
<1> QED BY <1>1, <1>4, <1>5, RestKeepsOrder

LEMMA RestOrder ==
    ASSUME AlignTyped, Versions, Ordered, Sync, UNCHANGED subscriberVars
    PROVE  Versions' /\ Ordered' /\ Sync'
<1>1. QueuesRest /\ UNCHANGED <<version, event, sync>>
    BY DEF subscriberVars, adminVars, storeVars, localVars, alignVars, QueuesRest
<1>2. \A u \in Thread : /\ u \in Notifying' => u \in Notifying
                        /\ pc'[u] = "deliver" => pc[u] = "deliver" /\ current'[u] = current[u]
    BY DEF subscriberVars, storeVars, localVars, alignVars, AlignTyped, ThreadsTyped
<1>3. \A u \in Notifying' : u \in Notifying /\ SameEvent(u)
    BY <1>1, <1>2 DEF SameEvent
<1>4. Versions'
    BY <1>1, <1>3, RestKeepsVersions
<1>5. Sync'
    BY <1>1, <1>2, RestKeepsSync DEF QueuesRest
<1> QED BY <1>1, <1>4, <1>5, RestKeepsOrder

\* Whether the callback is called at once is decided.
LEMMA InvokeOrder ==
    ASSUME AlignTyped, Locks, Windows, Versions, Ordered, Sync, NEW t \in Thread, Invoke(t)
    PROVE  Versions' /\ Ordered' /\ Sync'
<1>1. QueuesRest /\ UNCHANGED <<version, current, raced>>
    BY DEF Invoke, adminVars, storeVars, alignVars, QueuesRest
<1>2. pc[t] = "invoke" /\ pc' = [pc EXCEPT ![t] = "deliver"]
    BY DEF Invoke, Goto
<1>3. \A u \in Thread : pc'[u] = IF u = t THEN "deliver" ELSE pc[u]
    BY <1>2 DEF AlignTyped, ThreadsTyped
<1>4. \A u \in Notifying' : u \in Notifying /\ SameEvent(u)
    BY <1>2, <1>3, InvokeTyped
<1>5. Versions'
    BY <1>1, <1>4, RestKeepsVersions
<1>6. Sync'
    <2> SUFFICES ASSUME NEW u \in Thread, pc'[u] = "deliver", Sub(u) \notin raced
                 PROVE  sync'[u] <=> ~HasDispatcher(Sub(u))
        BY <1>1 DEF Sync, HasDispatcher, Config, Sub, QueuesRest
    <2>1. sync' = [sync EXCEPT ![t] = ~HasDispatcher(Sub(t)) /\ ~isAligning[Sub(t)]]
        BY DEF Invoke
    <2>2. CASE u = t
        BY <1>2, <2>1, <2>2, NotAligned DEF AlignTyped, ThreadsTyped
    <2>3. CASE u # t
        BY <1>3, <2>1, <2>3 DEF Sync, AlignTyped, ThreadsTyped
    <2> QED BY <2>2, <2>3
<1> QED BY <1>1, <1>5, <1>6, RestKeepsOrder

\* Queues and what is handled, with an event that is settled.
LEMMA PastKept ==
    ASSUME AlignTyped, NEW ev \in Events, Settled(ev), \A x : x.key \in Key /\ Settled(x) => Settled(x)'
    PROVE  /\ \A f \in [Key -> Events] : SeenPast(f) => SeenPast([f EXCEPT ![ev.key] = ev])'
           /\ \A q \in Seq(Events) : Past(q) => Past(Append(q, ev))' /\ Past(AddToAlignQueue(q, ev))'
           /\ \A q \in Seq(Events) : q # <<>> /\ Past(q) => Past(Tail(q))'
           /\ \A f : SeenPast(f) => SeenPast(f)'
           /\ \A q \in Seq(Events) : Past(q) => Past(q)'
<1>0. ev.key \in Key /\ Settled(ev)'
    BY DEF Events
<1>1. ASSUME NEW f \in [Key -> Events], SeenPast(f)
      PROVE  SeenPast([f EXCEPT ![ev.key] = ev])'
    <2>1. PICK g : g = [f EXCEPT ![ev.key] = ev]
        OBVIOUS
    <2>2. \A k \in Key : g[k] = IF k = ev.key THEN ev ELSE f[k]
        BY <2>1
    <2>3. \A k \in Key : f[k].key = k /\ Settled(f[k])'
        BY <1>1 DEF SeenPast
    <2>4. ASSUME NEW k \in Key
          PROVE  g[k].key = k /\ Settled(g[k])'
        <3>1. CASE k = ev.key
            BY <1>0, <2>2, <3>1
        <3>2. CASE k # ev.key
            BY <2>2, <2>3, <3>2
        <3> QED BY <3>1, <3>2
    <2> QED BY <2>1, <2>4 DEF SeenPast
<1>2. \A q \in Seq(Events) : Past(q) => Past(q)'
    BY SettledStays
<1>3. ASSUME NEW q \in Seq(Events), Past(q), NEW r,
             \A i \in 1..Len(r) : r[i] = ev \/ (i \in 1..Len(q) /\ r[i] = q[i])
      PROVE  Past(r)'
    <2>1. \A i \in 1..Len(q) : Settled(q[i])'
        BY <1>2, <1>3 DEF Past
    <2>2. ASSUME NEW i \in 1..Len(r)
          PROVE  Settled(r[i])'
        <3>1. CASE r[i] = ev
            BY <1>0, <3>1
        <3>2. CASE r[i] # ev
            BY <1>3, <2>1, <3>2
        <3> QED BY <3>1, <3>2
    <2> QED BY <2>2 DEF Past
<1>4. ASSUME NEW q \in Seq(Events), Past(q)
      PROVE  Past(Append(q, ev))'
    <2>1. PICK r : r = Append(q, ev)
        OBVIOUS
    <2>2. Len(q) \in Nat /\ Len(r) = Len(q) + 1 /\ r[Len(q) + 1] = ev /\ \A i \in 1..Len(q) : r[i] = q[i]
        BY <2>1, Appended
    <2>3. \A i \in 1..Len(r) : r[i] = ev \/ (i \in 1..Len(q) /\ r[i] = q[i])
        BY <2>2
    <2>4. Past(r)'
        BY <1>3, <1>4, <2>3
    <2> QED BY <2>1, <2>4
<1>5. ASSUME NEW q \in Seq(Events), Past(q)
      PROVE  Past(AddToAlignQueue(q, ev))'
    <2>1. PICK r : r = AddToAlignQueue(q, ev)
        OBVIOUS
    <2>2. LET a == AddToAlignQueue(q, ev)
          IN  /\ a \in Seq(Events) /\ Len(a) \in Nat
              /\ \A i \in 1..Len(a) : a[i] = ev \/ (i \in 1..Len(q) /\ a[i] = q[i] /\ q[i].key # ev.key)
        BY AddedToAlignQueue
    <2>3. \A i \in 1..Len(r) : r[i] = ev \/ (i \in 1..Len(q) /\ r[i] = q[i])
        BY <2>1, <2>2
    <2>4. Past(r)'
        BY <1>3, <1>5, <2>3
    <2> QED BY <2>1, <2>4
<1>6. ASSUME NEW q \in Seq(Events), q # <<>>, Past(q)
      PROVE  Past(Tail(q))'
    <2>1. PICK r : r = Tail(q)
        OBVIOUS
    <2>2. \A i \in 1..Len(r) : i + 1 \in 1..Len(q) /\ r[i] = q[i + 1]
        BY <1>6, <2>1, HeadAndTail
    <2>3. \A i \in 1..Len(q) : Settled(q[i])'
        BY <1>2, <1>6 DEF Past
    <2>4. Past(r)'
        BY <2>2, <2>3 DEF Past
    <2> QED BY <2>1, <2>4
<1>7. \A f : SeenPast(f) => SeenPast(f)'
    BY SettledStays
<1> QED BY <1>1, <1>2, <1>4, <1>5, <1>6, <1>7

\* A subscriber handles an event that can come after the one that it handled before.
LEMMA HandledIsNewer ==
    ASSUME AlignTyped, NEW s \in Subscriber, NEW ev \in Events, seen' = Handled(s, ev),
           s \notin raced => ~Before(ev, seen[s][ev.key])
    PROVE  SeenNewer
<1> SUFFICES ASSUME NEW x \in Subscriber \ raced, NEW k \in Key, seen'[x][k] # seen[x][k]
             PROVE  ~Before(seen'[x][k], seen[x][k])
    BY DEF SeenNewer
<1>1. QueuesTyped
    BY QueuesAreTyped
<1>2. ev.key \in Key
    BY DEF Events
<1>3. CASE x = s /\ k = ev.key
    <2>1. seen'[x][k] = ev
        BY <1>1, <1>2, <1>3 DEF QueuesTyped, Handled
    <2> QED BY <1>3, <2>1
<1>4. CASE ~(x = s /\ k = ev.key)
    BY <1>1, <1>2, <1>4 DEF QueuesTyped, Handled
<1> QED BY <1>3, <1>4

\* What subscriber s handled, and the queue of its dispatcher, after an event.
LEMMA HandledAndGiven ==
    ASSUME AlignTyped, NEW s \in Subscriber, NEW ev \in Events
    PROVE  /\ \A f, g : f = seen[s] /\ g = [f EXCEPT ![ev.key] = ev] => Handled(s, ev)[s] = g
           /\ \A p, n : p = posted[s] /\ n = Append(p, ev) => Given(s, ev)[s] = n
           /\ \A x \in Subscriber : x # s => Handled(s, ev)[x] = seen[x] /\ Given(s, ev)[x] = posted[x]
BY QueuesAreTyped DEF QueuesTyped, Handled, Given

LEMMA RestIsNewer ==
    ASSUME AlignTyped, seen' = seen
    PROVE  SeenNewer
BY QueuesAreTyped DEF SeenNewer

\* The same with names for what it handled and its queues.
Was(s, f, p, q) == f = seen[s] /\ p = posted[s] /\ q = alignQueue[s]

LEMMA WasTyped ==
    ASSUME AlignTyped, NEW s \in Subscriber
    PROVE  \E f \in [Key -> Events], p \in Seq(Events), q \in Seq(Events) : Was(s, f, p, q)
BY QueuesAreTyped DEF QueuesTyped, Was

LEMMA WasSound ==
    ASSUME Versions, Ordered, NEW s \in Subscriber, NEW f, NEW p, NEW q, Was(s, f, p, q)
    PROVE  /\ SeenPast(f) /\ Past(p) /\ Past(q)
           /\ s \notin raced => (~HasDispatcher(s) => p = <<>>) /\ Line(f, p, q)
BY DEF Versions, Ordered, Was

\* A step after which subscriber s has handled g, and has queues n and r.
Becomes(s, g, n, r) ==
    /\ seen'[s] = g /\ posted'[s] = n /\ alignQueue'[s] = r
    /\ \A x \in Subscriber : x # s => seen'[x] = seen[x] /\ posted'[x] = posted[x] /\ alignQueue'[x] = alignQueue[x]

LEMMA BecomesSound ==
    ASSUME AlignTyped, Versions, Ordered, UNCHANGED <<program, version, raced>>, NEW s \in Subscriber,
           NEW g, NEW n, NEW r, Becomes(s, g, n, r),
           \A u \in Notifying' : u \in Notifying /\ event'[u] = event[u],
           SeenPast(g)', Past(n)', Past(r)',
           s \notin raced => (~HasDispatcher(s) => n = <<>>) /\ Line(g, n, r)
    PROVE  Versions' /\ Ordered'
<1>0. \A x : x.key \in Key /\ Settled(x) => Settled(x)'
    BY RestKeepsEnded DEF SameEvent
<1>1. Begun'
    <2> SUFFICES ASSUME NEW u \in Notifying'
                 PROVE  Settled(event[u])'
        BY DEF Begun
    <2>1. PICK ev : ev = event[u]
        OBVIOUS
    <2>2. ev.key \in Key /\ Settled(ev) /\ event'[u] = ev
        BY <2>1, EventComes DEF Versions
    <2> QED BY <1>0, <2>2 DEF Settled
<1>2. ASSUME NEW x \in Subscriber
      PROVE  (SeenPast(seen[x]) /\ Past(posted[x]) /\ Past(alignQueue[x]))'
    <2>1. CASE x = s
        BY <2>1 DEF Becomes, SeenPast, Past
    <2>2. CASE x # s
        <3>1. PICK f, p, q : f = seen[x] /\ p = posted[x] /\ q = alignQueue[x]
            OBVIOUS
        <3>2. p \in Seq(Events) /\ q \in Seq(Events)
            BY <3>1, QueuesAreTyped DEF QueuesTyped
        <3>3. SeenPast(f)' /\ Past(p)' /\ Past(q)'
            BY <1>0, <3>1, <3>2, SettledStays DEF Versions
        <3>4. seen'[x] = f /\ posted'[x] = p /\ alignQueue'[x] = q
            BY <2>2, <3>1 DEF Becomes
        <3> QED BY <3>3, <3>4 DEF SeenPast, Past
    <2> QED BY <2>1, <2>2
<1>3. ASSUME NEW x \in Subscriber \ raced
      PROVE  /\ ~HasDispatcher(x) => posted'[x] = <<>>
             /\ Line(seen'[x], posted'[x], alignQueue'[x])
    <2>1. CASE x = s
        BY <2>1 DEF Becomes
    <2>2. CASE x # s
        BY <2>2 DEF Becomes, Ordered
    <2> QED BY <2>1, <2>2
<1>4. Ordered'
    BY <1>3 DEF Ordered, HasDispatcher, Config
<1> QED BY <1>1, <1>2, <1>4 DEF Versions

LEMMA HandleEventOrder ==
    ASSUME AlignTyped, Versions, Ordered, Sync, NEW s \in Subscriber, HandleEvent(s)
    PROVE  Versions' /\ Ordered' /\ Sync' /\ SeenNewer
<1>1. PICK f \in [Key -> Events], p \in Seq(Events), q \in Seq(Events) : Was(s, f, p, q)
    BY WasTyped
<1>2. p # <<>>
    BY <1>1 DEF HandleEvent, Was
<1>3. PICK ev \in Events : ev = Head(p)
    BY <1>2, HeadAndTail
<1>4. PICK n \in Seq(Events) : n = Tail(p)
    BY <1>2, HeadAndTail
<1>5. PICK g : g = [f EXCEPT ![ev.key] = ev]
    OBVIOUS
<1>6. seen' = Handled(s, ev) /\ posted' = [posted EXCEPT ![s] = n]
    BY <1>1, <1>3, <1>4 DEF HandleEvent, Callback, Handled, Was
<1>7. UNCHANGED <<program, version, raced, alignQueue, pc, event, current, sync>>
    BY DEF HandleEvent, storeVars, adminVars, alignVars, localVars
<1>8. Becomes(s, g, n, q)
    <2>1. seen'[s] = g /\ \A x \in Subscriber : x # s => seen'[x] = seen[x]
        BY <1>1, <1>5, <1>6, HandledAndGiven DEF Was
    <2>2. posted'[s] = n /\ \A x \in Subscriber : x # s => posted'[x] = posted[x]
        BY <1>6, QueuesAreTyped DEF QueuesTyped
    <2> QED BY <1>1, <1>7, <2>1, <2>2 DEF Becomes, Was
<1>9. SeenPast(f) /\ Past(p) /\ Past(q) /\ (s \notin raced => (~HasDispatcher(s) => p = <<>>) /\ Line(f, p, q))
    BY <1>1, WasSound
<1>10. Settled(ev) /\ \A x : x.key \in Key /\ Settled(x) => Settled(x)'
    <2>1. Len(p) > 0 /\ Len(p) \in Nat /\ ev = p[1]
        BY <1>2, <1>3, HeadAndTail
    <2>2. Settled(ev)
        BY <1>9, <2>1 DEF Past
    <2>3. version' = version /\ \A u \in Notifying' : u \in Notifying /\ SameEvent(u)
        BY <1>7 DEF SameEvent
    <2> QED BY <2>2, <2>3, RestKeepsEnded, Zenon
<1>11. SeenPast(g)' /\ Past(n)' /\ Past(q)'
    <2>1. SeenPast([f EXCEPT ![ev.key] = ev])' /\ Past(Tail(p))' /\ Past(q)'
        BY <1>2, <1>9, <1>10, PastKept
    <2> QED BY <1>4, <1>5, <2>1
<1>12. s \notin raced => (~HasDispatcher(s) => n = <<>>) /\ Line(g, n, q) /\ ~Before(ev, f[ev.key])
    BY <1>2, <1>3, <1>4, <1>5, <1>9, HandleKeepsLine
<1>13. \A u \in Notifying' : u \in Notifying /\ event'[u] = event[u]
    BY <1>7
<1>14. Versions' /\ Ordered'
    BY <1>7, <1>8, <1>11, <1>12, <1>13, BecomesSound
<1>15. SeenNewer
    BY <1>1, <1>6, <1>12, HandledIsNewer DEF Was
<1>16. Sync'
    BY <1>7, RestKeepsSync
<1> QED BY <1>14, <1>15, <1>16

LEMMA FlushOrder ==
    ASSUME AlignTyped, Versions, Ordered, Sync, NEW t \in Thread, Flush(t)
    PROVE  Versions' /\ Ordered' /\ Sync' /\ SeenNewer
<1>0. PICK s \in Subscriber : s = Sub(t)
    BY ConfigTyped
<1>1. PICK f \in [Key -> Events], p \in Seq(Events), q \in Seq(Events) : Was(s, f, p, q)
    BY WasTyped
<1>2. q # <<>>
    BY <1>0, <1>1 DEF Flush, MustFlush, Was
<1>3. PICK ev \in Events : ev = Head(q)
    BY <1>2, HeadAndTail
<1>4. PICK r \in Seq(Events) : r = Tail(q)
    BY <1>2, HeadAndTail
<1>5. /\ alignQueue' = [alignQueue EXCEPT ![s] = r]
      /\ \/ HasDispatcher(s) /\ posted' = Given(s, ev) /\ seen' = seen
         \/ ~HasDispatcher(s) /\ posted' = posted /\ seen' = Handled(s, ev)
    BY <1>0, <1>1, <1>3, <1>4 DEF Flush, Callback, Handled, Given, Was
<1>6. UNCHANGED <<program, version, raced, pc, event, current, sync>>
    BY DEF Flush, storeVars, adminVars, localVars
<1>7. alignQueue'[s] = r /\ \A x \in Subscriber : x # s => alignQueue'[x] = alignQueue[x]
    BY <1>5, QueuesAreTyped DEF QueuesTyped
<1>8. SeenPast(f) /\ Past(p) /\ Past(q) /\ (s \notin raced => (~HasDispatcher(s) => p = <<>>) /\ Line(f, p, q))
    BY <1>1, WasSound
<1>9. Settled(ev) /\ \A x : x.key \in Key /\ Settled(x) => Settled(x)'
    <2>1. Len(q) > 0 /\ Len(q) \in Nat /\ ev = q[1]
        BY <1>2, <1>3, HeadAndTail
    <2> QED BY <1>6, <1>8, <2>1, RestKeepsEnded DEF Past, SameEvent
<1>10. /\ SeenPast([f EXCEPT ![ev.key] = ev])' /\ Past(Append(p, ev))' /\ Past(Tail(q))'
       /\ SeenPast(f)' /\ Past(p)'
    BY <1>2, <1>8, <1>9, PastKept
<1>11. \A u \in Notifying' : u \in Notifying /\ event'[u] = event[u]
    BY <1>6
<1>12. Sync'
    BY <1>6, RestKeepsSync
<1>13. CASE HasDispatcher(s)
    <2>1. PICK n \in Seq(Events) : n = Append(p, ev)
        BY Appended
    <2>2. posted' = Given(s, ev) /\ seen' = seen
        BY <1>5, <1>13
    <2>3. posted'[s] = n /\ \A x \in Subscriber : x # s => posted'[x] = posted[x]
        BY <1>1, <2>1, <2>2, HandledAndGiven, SMTT(30) DEF Was
    <2>4. Becomes(s, f, n, r)
        BY <1>1, <1>7, <2>2, <2>3 DEF Becomes, Was
    <2>5. s \notin raced => (~HasDispatcher(s) => n = <<>>) /\ Line(f, n, r)
        BY <1>2, <1>3, <1>4, <1>8, <1>13, <2>1, MoveKeepsLine
    <2>6. SeenPast(f)' /\ Past(n)' /\ Past(r)'
        BY <1>4, <1>10, <2>1
    <2>7. Versions' /\ Ordered'
        BY <1>6, <1>11, <2>4, <2>5, <2>6, BecomesSound
    <2> QED BY <1>12, <2>2, <2>7, RestIsNewer
<1>14. CASE ~HasDispatcher(s)
    <2>1. PICK g : g = [f EXCEPT ![ev.key] = ev]
        OBVIOUS
    <2>2. posted' = posted /\ seen' = Handled(s, ev)
        BY <1>5, <1>14
    <2>3. seen'[s] = g /\ \A x \in Subscriber : x # s => seen'[x] = seen[x]
        BY <1>1, <2>1, <2>2, HandledAndGiven DEF Was
    <2>4. Becomes(s, g, p, r)
        BY <1>1, <1>7, <2>2, <2>3 DEF Becomes, Was
    <2>5. s \notin raced => p = <<>> /\ Line(f, <<>>, q)
        BY <1>8, <1>14
    <2>6. s \notin raced => ~Before(ev, f[ev.key]) /\ Line(g, <<>>, r)
        BY <1>2, <1>3, <1>4, <2>1, <2>5, FlushKeepsLine
    <2>7. s \notin raced => (~HasDispatcher(s) => p = <<>>) /\ Line(g, p, r)
        BY <2>5, <2>6
    <2>8. SeenPast(g)' /\ Past(p)' /\ Past(r)'
        BY <1>4, <1>10, <2>1
    <2>9. Versions' /\ Ordered'
        BY <1>6, <1>11, <2>4, <2>7, <2>8, BecomesSound
    <2>10. SeenNewer
        BY <1>1, <2>2, <2>6, HandledIsNewer DEF Was
    <2> QED BY <1>12, <2>9, <2>10
<1> QED BY <1>13, <1>14

LEMMA AlignObjectOrder ==
    ASSUME AlignTyped, Versions, Ordered, Sync, NEW t \in Thread, AlignObject(t)
    PROVE  Versions' /\ Ordered' /\ Sync' /\ seen' = seen
<1>0. PICK s \in Subscriber : s = Sub(t)
    BY ConfigTyped
<1>1. PICK f \in [Key -> Events], p \in Seq(Events), q \in Seq(Events) : Was(s, f, p, q)
    BY WasTyped
<1>2. UNCHANGED <<program, version, raced, pc, event, current, sync, seen, posted>>
    BY DEF AlignObject, storeVars, adminVars
<1>3. pc[t] = "aligning" /\ todo[t] \subseteq Key
    BY DEF AlignObject, AlignTyped, ThreadsTyped
<1>4. PICK k \in Key : alignQueue' = [alignQueue EXCEPT ![s] =
          IF k \notin bound THEN @
          ELSE AddToAlignQueue(@, Selected(k))]
    BY <1>0, <1>3 DEF AlignObject
<1>5. PICK ev : ev = Selected(k)
    OBVIOUS
<1>6. ev \in Events /\ ev.key = k /\ Comes(ev) /\ Settled(ev)
    BY <1>5, SelectedComes
<1>7. PICK r : r = IF k \notin bound THEN q ELSE AddToAlignQueue(q, ev)
    OBVIOUS
<1>8. Becomes(s, f, p, r)
    <2>1. alignQueue'[s] = r /\ \A x \in Subscriber : x # s => alignQueue'[x] = alignQueue[x]
        BY <1>1, <1>4, <1>5, <1>7, QueuesAreTyped DEF QueuesTyped, Was
    <2> QED BY <1>1, <1>2, <2>1 DEF Becomes, Was
<1>9. SeenPast(f) /\ Past(p) /\ Past(q) /\ (s \notin raced => (~HasDispatcher(s) => p = <<>>) /\ Line(f, p, q))
    BY <1>1, WasSound
<1>10. SeenPast(f)' /\ Past(p)' /\ Past(r)'
    <2>1. \A x : x.key \in Key /\ Settled(x) => Settled(x)'
        BY <1>2, RestKeepsEnded DEF SameEvent
    <2>2. SeenPast(f)' /\ Past(p)' /\ Past(q)' /\ Past(AddToAlignQueue(q, ev))'
        BY <1>6, <1>9, <2>1, PastKept
    <2> QED BY <1>7, <2>2
<1>11. s \notin raced => (~HasDispatcher(s) => p = <<>>) /\ Line(f, p, r)
    <2>1. NotAfter(p, ev) /\ NotAfter(q, ev) /\ ~Before(ev, f[ev.key]) /\ ~Before(ev, ev)
        BY <1>6, <1>9, ComesAfter
    <2>2. s \notin raced => Line(f, p, AddToAlignQueue(q, ev))
        BY <1>6, <1>9, <2>1, AddKeepsLine
    <2> QED BY <1>7, <1>9, <2>2
<1>12. \A u \in Notifying' : u \in Notifying /\ event'[u] = event[u]
    BY <1>2
<1>13. Sync'
    BY <1>2, RestKeepsSync
<1>14. Versions' /\ Ordered'
    BY <1>2, <1>8, <1>10, <1>11, <1>12, BecomesSound
<1> QED BY <1>2, <1>13, <1>14

LEMMA DeliverOrder ==
    ASSUME AlignTyped, Locks, Windows, Versions, Ordered, Sync, NEW t \in Thread, Deliver(t)
    PROVE  Versions' /\ Ordered' /\ Sync' /\ SeenNewer
<1>0. PICK s \in Subscriber : s = Sub(t)
    BY ConfigTyped
<1>1. PICK f \in [Key -> Events], p \in Seq(Events), q \in Seq(Events) : Was(s, f, p, q)
    BY WasTyped
<1>2. pc[t] = "deliver" /\ pc' = [pc EXCEPT ![t] = "walk"] /\ UNCHANGED <<program, version, raced, event, current, sync>>
    BY DEF Deliver, Goto, storeVars, adminVars, localVars
<1>3. \A u \in Thread : pc'[u] = IF u = t THEN "walk" ELSE pc[u]
    BY <1>2 DEF AlignTyped, ThreadsTyped
<1>4. PICK ev \in Events : ev = event[t]
    BY DEF AlignTyped, ThreadsTyped
<1>5. Comes(ev) /\ Settled(ev)
    <2>1. t \in Notifying
        BY <1>2
    <2> QED BY <1>4, <2>1, EventComes DEF Versions
<1>6. /\ SeenPast(f) /\ Past(p) /\ Past(q) /\ NotAfter(p, ev) /\ NotAfter(q, ev) /\ ~Before(ev, f[ev.key])
      /\ s \notin raced => (~HasDispatcher(s) => p = <<>>) /\ Line(f, p, q)
    <2>1. SeenPast(f) /\ Past(p) /\ Past(q) /\ (s \notin raced => (~HasDispatcher(s) => p = <<>>) /\ Line(f, p, q))
        BY <1>1, WasSound
    <2> QED BY <1>5, <2>1, ComesAfter
<1>7. /\ SeenPast([f EXCEPT ![ev.key] = ev])' /\ Past(Append(p, ev))' /\ Past(AddToAlignQueue(q, ev))'
      /\ SeenPast(f)' /\ Past(p)' /\ Past(q)'
    <2>1. \A u \in Notifying' : u \in Notifying /\ SameEvent(u)
        BY <1>2, <1>3 DEF SameEvent
    <2>2. \A x : x.key \in Key /\ Settled(x) => Settled(x)'
        BY <1>2, <2>1, RestKeepsEnded
    <2> QED BY <1>5, <1>6, <2>2, PastKept
<1>8. s \notin raced => q = <<>> /\ ~isAligning[s] /\ (sync[t] <=> ~HasDispatcher(s))
    BY <1>0, <1>1, <1>2, NotAligned DEF Sync, Was
<1>9. \A u \in Notifying' : u \in Notifying /\ event'[u] = event[u]
    BY <1>2, <1>3
<1>10. Sync'
    BY <1>2, <1>3, RestKeepsSync
<1>11. CASE sync[t]
    <2>1. PICK g : g = [f EXCEPT ![ev.key] = ev]
        OBVIOUS
    <2>2. seen' = Handled(s, ev) /\ posted' = posted /\ alignQueue' = alignQueue
        BY <1>0, <1>4, <1>11 DEF Deliver, Callback, Handled
    <2>3. seen'[s] = g /\ \A x \in Subscriber : x # s => seen'[x] = seen[x]
        BY <1>1, <2>1, <2>2, HandledAndGiven DEF Was
    <2>4. Becomes(s, g, p, q)
        BY <1>1, <2>2, <2>3 DEF Becomes, Was
    <2>5. s \notin raced => (~HasDispatcher(s) => p = <<>>) /\ Line(g, p, q)
        <3>1. s \notin raced => p = <<>> /\ q = <<>>
            BY <1>6, <1>8, <1>11
        <3>2. Line(g, <<>>, <<>>)
            BY DEF Line, InOrder, AllBefore, SeenBefore
        <3> QED BY <3>1, <3>2
    <2>6. SeenPast(g)' /\ Past(p)' /\ Past(q)'
        BY <1>7, <2>1
    <2>7. Versions' /\ Ordered'
        BY <1>2, <1>9, <2>4, <2>5, <2>6, BecomesSound
    <2>8. SeenNewer
        BY <1>1, <1>6, <2>2, HandledIsNewer DEF Was
    <2> QED BY <1>10, <2>7, <2>8
<1>12. CASE ~sync[t] /\ isAligning[s]
    <2>1. PICK r : r = AddToAlignQueue(q, ev)
        OBVIOUS
    <2>2. seen' = seen /\ posted' = posted /\ alignQueue' = [alignQueue EXCEPT ![s] = r]
        BY <1>0, <1>1, <1>4, <1>12, <2>1 DEF Deliver, Was
    <2>3. alignQueue'[s] = r /\ \A x \in Subscriber : x # s => alignQueue'[x] = alignQueue[x]
        BY <2>2, QueuesAreTyped DEF QueuesTyped
    <2>4. Becomes(s, f, p, r)
        BY <1>1, <2>2, <2>3 DEF Becomes, Was
    <2>5. s \in raced
        BY <1>8, <1>12
    <2>6. SeenPast(f)' /\ Past(p)' /\ Past(r)'
        BY <1>7, <2>1
    <2>7. Versions' /\ Ordered'
        BY <1>2, <1>9, <2>4, <2>5, <2>6, BecomesSound
    <2> QED BY <1>10, <2>2, <2>7, RestIsNewer
<1>13. CASE ~sync[t] /\ ~isAligning[s]
    <2>1. PICK n \in Seq(Events) : n = Append(p, ev)
        BY Appended
    <2>2. posted' = Given(s, ev) /\ seen' = seen /\ alignQueue' = alignQueue
        BY <1>0, <1>4, <1>13 DEF Deliver, Given
    <2>3. posted'[s] = n /\ \A x \in Subscriber : x # s => posted'[x] = posted[x]
        BY <1>1, <2>1, <2>2, HandledAndGiven DEF Was
    <2>4. Becomes(s, f, n, q)
        BY <1>1, <2>2, <2>3 DEF Becomes, Was
    <2>5. s \notin raced => (~HasDispatcher(s) => n = <<>>) /\ Line(f, n, q)
        <3>1. s \notin raced => q = <<>> /\ HasDispatcher(s) /\ Line(f, p, <<>>)
            BY <1>6, <1>8, <1>13
        <3>2. s \notin raced => Line(f, n, <<>>)
            BY <1>6, <2>1, <3>1, GiveKeepsLine
        <3> QED BY <3>1, <3>2
    <2>6. SeenPast(f)' /\ Past(n)' /\ Past(q)'
        BY <1>7, <2>1
    <2>7. Versions' /\ Ordered'
        BY <1>2, <1>9, <2>4, <2>5, <2>6, BecomesSound
    <2> QED BY <1>10, <2>2, <2>7, RestIsNewer
<1> QED BY <1>11, <1>12, <1>13

(***************************************************************************)
(* The invariant, and the order of the events                              *)
(***************************************************************************)
LEMMA InitIsOrdered == Init => OrderInv
<1> SUFFICES ASSUME Init PROVE OrderInv
    OBVIOUS
<1>1. AlignTyped
    BY InitIsTyped
<1>2. PICK p : SubscriberInit(p)
    BY DEF Init
<1>3. /\ \A t \in Thread : pc[t] = "idle"
      /\ \A s \in Subscriber : ~isAligning[s] /\ alignQueue[s] = <<>> /\ posted[s] = <<>>
      /\ \A s \in Subscriber, k \in Key : seen[s][k].key = k /\ seen[s][k].past = {}
    BY <1>2 DEF SubscriberInit, NoEvent
<1>4. Locks
    BY <1>3 DEF Locks, Mutexes, Owns, Flags, AlignedBySomeone
<1>5. Windows
    BY <1>3 DEF Windows, NotYet, Apart, NoMore
<1>6. Versions
    BY <1>3 DEF Versions, Begun, SeenPast, Past, Settled
<1>7. Ordered
    BY <1>3 DEF Ordered, Line, InOrder, AllBefore, SeenBefore
<1>8. Sync
    BY <1>3 DEF Sync
<1> QED BY <1>1, <1>4, <1>5, <1>6, <1>7, <1>8 DEF OrderInv

\* What a thread does with the subscribers.
ThreadDoes(t) ==
    \/ \E k \in Key : Changes(t, k)
    \/ \E e \in Entity : Subscribe(t, e) \/ Unsubscribe(t, e)
    \/ SubscriberGoOn(t)
    \/ Told(t)

LEMMA NextCases ==
    ASSUME [Next]_vars
    PROVE  \/ UNCHANGED subscriberVars
           \/ \E t \in Thread : ThreadDoes(t)
           \/ \E s \in Subscriber : HandleEvent(s)
<1>1. CASE UNCHANGED vars
    BY <1>1 DEF vars
<1>2. ASSUME NEW t \in Thread, Step(t)
      PROVE  UNCHANGED subscriberVars \/ ThreadDoes(t)
    <2>1. TellMount(t) => UNCHANGED subscriberVars
        BY DEF TellMount
    <2>2. MountTold(t) => Told(t)
        BY Zenon DEF MountTold, Told, ToldVars
    <2> QED BY <1>2, <2>1, <2>2, Zenon DEF Step, ThreadDoes
<1>3. ASSUME NEW t \in Thread, StartCall(t)
      PROVE  ThreadDoes(t)
    BY <1>3, Zenon DEF StartCall, ThreadDoes, Changes
<1>4. ASSUME NEW t \in Thread, GiveBack(t)
      PROVE  UNCHANGED subscriberVars
    BY <1>4 DEF GiveBack
<1>5. CASE Next
    BY <1>2, <1>3, <1>4, <1>5, Zenon DEF Next
<1> QED BY <1>1, <1>5

LEMMA StepKeepsOrder ==
    ASSUME OrderInv, [Next]_vars
    PROVE  OrderInv' /\ SeenNewer
<1>0. AlignTyped /\ Locks /\ Windows /\ Versions /\ Ordered /\ Sync
    BY DEF OrderInv
<1>1. CASE UNCHANGED subscriberVars
    <2>1. AlignTyped' /\ Locks' /\ Windows' /\ Versions' /\ Ordered' /\ Sync'
        BY <1>0, <1>1, RestTyped, RestLocks, RestWindows, RestOrder
    <2>2. SeenNewer
        BY <1>0, <1>1, RestIsNewer DEF subscriberVars
    <2> QED BY <2>1, <2>2 DEF OrderInv
<1>2. ASSUME NEW s \in Subscriber, HandleEvent(s)
      PROVE  OrderInv' /\ SeenNewer
    <2>1. AlignTyped' /\ Locks' /\ Windows'
        BY <1>0, <1>2, HandleEventTyped, HandleEventLocks, HandleEventWindows
    <2>2. Versions' /\ Ordered' /\ Sync' /\ SeenNewer
        BY <1>0, <1>2, HandleEventOrder
    <2> QED BY <2>1, <2>2 DEF OrderInv
<1>3. ASSUME NEW t \in Thread, NEW k \in Key, Changes(t, k)
      PROVE  OrderInv' /\ SeenNewer
    <2>1. PICK f \in Format \cup {NoFormat}, b \in BOOLEAN : Change(t, k, b, f)
        BY <1>0, <1>3, ChangeSteps
    <2>2. AlignTyped' /\ Locks' /\ Windows' /\ Versions' /\ Ordered' /\ Sync'
        BY <1>0, <2>1, ChangeTyped, ChangeLocks, ChangeWindows, ChangeOrder
    <2>3. SeenNewer
        BY <1>0, <2>1, RestIsNewer DEF Change
    <2> QED BY <2>2, <2>3 DEF OrderInv
<1>4. ASSUME NEW t \in Thread, NEW e \in Entity, Subscribe(t, e)
      PROVE  OrderInv' /\ SeenNewer
    <2>1. AlignTyped' /\ Locks' /\ Windows'
        BY <1>0, <1>4, SubscribeTyped, SubscribeLocks, SubscribeWindows
    <2>2. Versions' /\ Ordered' /\ Sync'
        BY <1>0, <1>4, SubscribeOrder
    <2>3. SeenNewer
        BY <1>0, <1>4, RestIsNewer DEF Subscribe
    <2> QED BY <2>1, <2>2, <2>3 DEF OrderInv
<1>5. ASSUME NEW t \in Thread, NEW e \in Entity, Unsubscribe(t, e)
      PROVE  OrderInv' /\ SeenNewer
    <2>1. AlignTyped' /\ Locks' /\ Windows'
        BY <1>0, <1>5, UnsubscribeTyped, UnsubscribeLocks, UnsubscribeWindows
    <2>2. Versions' /\ Ordered' /\ Sync'
        BY <1>0, <1>5, UnsubscribeOrder
    <2>3. SeenNewer
        BY <1>0, <1>5, RestIsNewer DEF Unsubscribe
    <2> QED BY <2>1, <2>2, <2>3 DEF OrderInv
<1>6. ASSUME NEW t \in Thread, Walk(t)
      PROVE  OrderInv' /\ SeenNewer
    <2>1. AlignTyped' /\ Locks' /\ Windows'
        BY <1>0, <1>6, WalkTyped, WalkLocks, WalkWindows
    <2>2. Versions' /\ Ordered' /\ Sync'
        BY <1>0, <1>6, WalkOrder
    <2>3. SeenNewer
        BY <1>0, <1>6, RestIsNewer DEF Walk
    <2> QED BY <2>1, <2>2, <2>3 DEF OrderInv
<1>7. ASSUME NEW t \in Thread, LockAlign(t)
      PROVE  OrderInv' /\ SeenNewer
    <2>1. AlignTyped' /\ Locks' /\ Windows'
        BY <1>0, <1>7, LockAlignTyped, LockAlignLocks, LockAlignWindows
    <2>2. Versions' /\ Ordered' /\ Sync'
        BY <1>0, <1>7, LockAlignOrder
    <2>3. SeenNewer
        BY <1>0, <1>7, RestIsNewer DEF LockAlign
    <2> QED BY <2>1, <2>2, <2>3 DEF OrderInv
<1>8. ASSUME NEW t \in Thread, Invoke(t)
      PROVE  OrderInv' /\ SeenNewer
    <2>1. AlignTyped' /\ Locks' /\ Windows'
        BY <1>0, <1>8, InvokeTyped, InvokeLocks, InvokeWindows
    <2>2. Versions' /\ Ordered' /\ Sync'
        BY <1>0, <1>8, InvokeOrder
    <2>3. SeenNewer
        BY <1>0, <1>8, RestIsNewer DEF Invoke
    <2> QED BY <2>1, <2>2, <2>3 DEF OrderInv
<1>9. ASSUME NEW t \in Thread, Deliver(t)
      PROVE  OrderInv' /\ SeenNewer
    <2>1. AlignTyped' /\ Locks' /\ Windows'
        BY <1>0, <1>9, DeliverTyped, DeliverLocks, DeliverWindows
    <2>2. Versions' /\ Ordered' /\ Sync' /\ SeenNewer
        BY <1>0, <1>9, DeliverOrder
    <2> QED BY <2>1, <2>2 DEF OrderInv
<1>10. ASSUME NEW t \in Thread, NotifyEnd(t)
      PROVE  OrderInv' /\ SeenNewer
    <2>1. AlignTyped' /\ Locks' /\ Windows'
        BY <1>0, <1>10, NotifyEndTyped, NotifyEndLocks, NotifyEndWindows
    <2>2. Versions' /\ Ordered' /\ Sync'
        BY <1>0, <1>10, NotifyEndOrder
    <2>3. SeenNewer
        BY <1>0, <1>10, RestIsNewer DEF NotifyEnd
    <2> QED BY <2>1, <2>2, <2>3 DEF OrderInv
<1>11. ASSUME NEW t \in Thread, AlignBegin(t)
      PROVE  OrderInv' /\ SeenNewer
    <2>1. AlignTyped' /\ Locks' /\ Windows'
        BY <1>0, <1>11, AlignBeginTyped, AlignBeginLocks, AlignBeginWindows
    <2>2. Versions' /\ Ordered' /\ Sync'
        BY <1>0, <1>11, AlignBeginOrder
    <2>3. SeenNewer
        BY <1>0, <1>11, RestIsNewer DEF AlignBegin
    <2> QED BY <2>1, <2>2, <2>3 DEF OrderInv
<1>12. ASSUME NEW t \in Thread, AlignObject(t)
      PROVE  OrderInv' /\ SeenNewer
    <2>1. AlignTyped' /\ Locks' /\ Windows'
        BY <1>0, <1>12, AlignObjectTyped, AlignObjectLocks, AlignObjectWindows
    <2>2. Versions' /\ Ordered' /\ Sync' /\ seen' = seen
        BY <1>0, <1>12, AlignObjectOrder
    <2> QED BY <1>0, <2>1, <2>2, RestIsNewer DEF OrderInv
<1>13. ASSUME NEW t \in Thread, AlignEnd(t)
      PROVE  OrderInv' /\ SeenNewer
    <2>1. AlignTyped' /\ Locks' /\ Windows'
        BY <1>0, <1>13, AlignEndTyped, AlignEndLocks, AlignEndWindows
    <2>2. Versions' /\ Ordered' /\ Sync'
        BY <1>0, <1>13, AlignEndOrder
    <2>3. SeenNewer
        BY <1>0, <1>13, RestIsNewer DEF AlignEnd
    <2> QED BY <2>1, <2>2, <2>3 DEF OrderInv
<1>14. ASSUME NEW t \in Thread, Flush(t)
      PROVE  OrderInv' /\ SeenNewer
    <2>1. AlignTyped' /\ Locks' /\ Windows'
        BY <1>0, <1>14, FlushTyped, FlushLocks, FlushWindows
    <2>2. Versions' /\ Ordered' /\ Sync' /\ SeenNewer
        BY <1>0, <1>14, FlushOrder
    <2> QED BY <2>1, <2>2 DEF OrderInv
<1>15. ASSUME NEW t \in Thread, FlushEnd(t)
      PROVE  OrderInv' /\ SeenNewer
    <2>1. AlignTyped' /\ Locks' /\ Windows'
        BY <1>0, <1>15, FlushEndTyped, FlushEndLocks, FlushEndWindows
    <2>2. Versions' /\ Ordered' /\ Sync'
        BY <1>0, <1>15, FlushEndOrder
    <2>3. SeenNewer
        BY <1>0, <1>15, RestIsNewer DEF FlushEnd
    <2> QED BY <2>1, <2>2, <2>3 DEF OrderInv
<1>16. ASSUME NEW t \in Thread, Told(t)
      PROVE  OrderInv' /\ SeenNewer
    <2>1. AlignTyped' /\ Locks' /\ Windows'
        BY <1>0, <1>16, ToldTyped, ToldLocks, ToldWindows
    <2>2. Versions' /\ Ordered' /\ Sync'
        BY <1>0, <1>16, ToldOrder
    <2>3. SeenNewer
        BY <1>0, <1>16, RestIsNewer DEF Told, ToldVars
    <2> QED BY <2>1, <2>2, <2>3 DEF OrderInv
<1>17. ASSUME NEW t \in Thread, SubscriberGoOn(t)
      PROVE  OrderInv' /\ SeenNewer
    BY <1>6, <1>7, <1>8, <1>9, <1>10, <1>11, <1>12, <1>13, <1>14, <1>15, <1>17, Zenon DEF SubscriberGoOn
<1>18. ASSUME NEW t \in Thread, ThreadDoes(t)
      PROVE  OrderInv' /\ SeenNewer
    BY <1>3, <1>4, <1>5, <1>16, <1>17, <1>18, Zenon DEF ThreadDoes
<1> QED BY <1>1, <1>2, <1>18, NextCases, Zenon

\* The state of the subscribers is typed, and their locks, windows and queues are sound.
THEOREM SubscribersAreInOrder == Spec => []OrderInv
<1>1. Init => OrderInv
    BY InitIsOrdered
<1>2. OrderInv /\ [Next]_vars => OrderInv'
    BY StepKeepsOrder
<1> QED BY <1>1, <1>2, PTL DEF Spec

\* No event about an object is handled after one of a change that began when its own notification
\* had ended, also when an alignment comes in between, by any subscriber whose alignment was not
\* raced, for any programs, threads, subscribers and objects
\* (corto_notify_subscribersById, corto_subscriber_flushAlignQueue).
THEOREM EventsAreSeenInOrder == Spec => SeenInOrder
<1>1. OrderInv /\ [Next]_vars => [SeenNewer]_seen
    BY StepKeepsOrder
<1> QED BY <1>1, SubscribersAreInOrder, PTL DEF Spec, SeenInOrder

(***************************************************************************)
(* The counts of shared values                                             *)
(***************************************************************************)
\* The users U of a value, its count c and its memory m: the count is the number of users; a
\* value that was not counted yet is in the cache of one notification; what nobody uses is freed.
IsExact(U, c, m) ==
    /\ IsFiniteSet(U) /\ c \in {-1} \cup Nat
    /\ c >= 0 => c = Cardinality(U)
    /\ c = -1 => \A x, y \in U : x = y /\ x[1] = "cache"
    /\ m = "unused" => c = -1
    /\ m \in {"unused", "freed"} => U = {}
    /\ m = "live" => U # {}

\* An event that waits for the end of an alignment shares no value: it was not given by a
\* notification, which would wait for the mutex and then be given to the subscriber itself.
Unshared == \A s \in Subscriber : \A i \in 1..Len(alignQueue[s]) : alignQueue[s][i].value = 0
Counts == \A v \in ValueId : IsExact(Users(v), shared[v], mem[v])
SharedInv == fault = "none" => Unshared /\ Counts

LEMMA OneUser ==
    ASSUME NEW x
    PROVE  IsFiniteSet({x}) /\ Cardinality({x}) = 1
BY FS_Singleton

LEMMA TwoUsers ==
    ASSUME NEW x, NEW y, x # y
    PROVE  IsFiniteSet({x, y}) /\ Cardinality({x, y}) = 2
<1>1. {x, y} = {x} \cup {y}
    OBVIOUS
<1>2. IsFiniteSet({x}) /\ Cardinality({x}) = 1 /\ y \notin {x}
    BY OneUser
<1>3. PICK S : S = {x}
    OBVIOUS
<1>4. IsFiniteSet(S \cup {y}) /\ Cardinality(S \cup {y}) = Cardinality(S) + 1
    BY <1>2, <1>3, FS_AddElement
<1> QED BY <1>1, <1>2, <1>3, <1>4

\* A value that is new is that of a publisher, or of the cache of a notification, and is perhaps
\* copied into an event.
LEMMA NewIsExact ==
    ASSUME NEW U, NEW c, IsExact(U, c, "unused"), NEW x, x[1] = "cache"
    PROVE  /\ U = {} /\ c = -1
           /\ IsExact({x}, -1, "borrowed") /\ IsExact({x}, -1, "live")
           /\ \A e : e # x => IsExact({x, e}, 2, "live")
<1>1. U = {} /\ c = -1
    BY DEF IsExact
<1>2. IsExact({x}, -1, "borrowed") /\ IsExact({x}, -1, "live")
    <2>1. PICK W : W = {x}
        OBVIOUS
    <2>2. IsFiniteSet(W) /\ W # {} /\ \A a, b \in W : a = b /\ a[1] = "cache"
        BY <2>1, OneUser
    <2>3. IsExact(W, -1, "borrowed") /\ IsExact(W, -1, "live")
        BY <2>2 DEF IsExact
    <2> QED BY <2>1, <2>3
<1>3. ASSUME NEW e, e # x
      PROVE  IsExact({x, e}, 2, "live")
    <2>1. PICK W : W = {x, e}
        OBVIOUS
    <2>2. IsFiniteSet(W) /\ Cardinality(W) = 2 /\ W # {}
        BY <1>3, <2>1, TwoUsers
    <2>3. IsExact(W, 2, "live")
        BY <2>2 DEF IsExact
    <2> QED BY <2>1, <2>3
<1> QED BY <1>1, <1>2, <1>3

\* The count when a value is copied into an event.
CopiedCount(c) == IF c = -1 THEN 2 ELSE c + 1
LEMMA CopyIsExact ==
    ASSUME NEW U, NEW c, NEW m, IsExact(U, c, m), NEW x \in U, x[1] = "cache", NEW e, e \notin U
    PROVE  IsExact(U \cup {e}, CopiedCount(c), m)
<1>1. IsFiniteSet(U) /\ c \in {-1} \cup Nat /\ m \notin {"unused", "freed"}
    BY DEF IsExact
<1>2. IsFiniteSet(U \cup {e}) /\ Cardinality(U \cup {e}) = Cardinality(U) + 1
    BY <1>1, FS_AddElement
<1>3. CASE c = -1
    <2>1. U = {x}
        BY <1>3 DEF IsExact
    <2>2. Cardinality(U) = 1
        BY <2>1, OneUser
    <2> QED BY <1>1, <1>2, <1>3, <2>2 DEF IsExact, CopiedCount
<1>4. CASE c # -1
    BY <1>1, <1>2, <1>4 DEF IsExact, CopiedCount
<1> QED BY <1>3, <1>4

\* A value goes on from one event to another.
LEMMA MoveIsExact ==
    ASSUME NEW U, NEW c, NEW m, IsExact(U, c, m), NEW e \in U, e[1] # "cache", NEW p, p \notin U
    PROVE  IsExact((U \ {e}) \cup {p}, c, m)
<1>1. IsFiniteSet(U) /\ c \in Nat /\ c = Cardinality(U) /\ m \notin {"unused", "freed"}
    BY DEF IsExact
<1>2. IsFiniteSet(U \ {e}) /\ Cardinality(U \ {e}) = Cardinality(U) - 1
    BY <1>1, FS_RemoveElement
<1>3. /\ IsFiniteSet((U \ {e}) \cup {p})
      /\ Cardinality((U \ {e}) \cup {p}) = Cardinality(U \ {e}) + 1
    BY <1>2, FS_AddElement
<1> QED BY <1>1, <1>2, <1>3 DEF IsExact

\* A user gives a value up.
DroppedCount(c) == IF c > 0 THEN c - 1 ELSE c
DroppedMem(c, m) == IF c \in {-1, 1} THEN "freed" ELSE m
LEMMA DropIsExact ==
    ASSUME NEW U, NEW c, NEW m, IsExact(U, c, m), NEW x \in U, m # "borrowed" \/ c \notin {-1, 1}
    PROVE  IsExact(U \ {x}, DroppedCount(c), DroppedMem(c, m))
<1>1. IsFiniteSet(U) /\ c \in {-1} \cup Nat /\ m \notin {"unused", "freed"}
    BY DEF IsExact
<1>2. IsFiniteSet(U \ {x}) /\ Cardinality(U \ {x}) = Cardinality(U) - 1
    BY <1>1, FS_RemoveElement
<1>3. CASE c = -1
    <2>1. U \ {x} = {}
        BY <1>3 DEF IsExact
    <2> QED BY <1>2, <1>3, <2>1 DEF IsExact, DroppedCount, DroppedMem
<1>4. CASE c # -1
    <2>1. c = Cardinality(U) /\ c \in Nat /\ c # 0
        BY <1>1, <1>4, FS_EmptySet DEF IsExact
    <2>2. CASE c = 1
        <3>1. U \ {x} = {}
            BY <1>2, <2>1, <2>2, FS_EmptySet
        <3> QED BY <1>2, <2>1, <2>2, <3>1 DEF IsExact, DroppedCount, DroppedMem
    <2>3. CASE c # 1
        <3>1. U \ {x} # {}
            BY <1>2, <2>1, <2>3, FS_EmptySet
        <3> QED BY <1>1, <1>2, <2>1, <2>3, <3>1 DEF IsExact, DroppedCount, DroppedMem
    <2> QED BY <2>2, <2>3
<1> QED BY <1>3, <1>4

\* The publisher keeps a value that no event shares.
LEMMA KeepIsExact ==
    ASSUME NEW U, IsExact(U, -1, "borrowed")
    PROVE  IsExact({}, -1, "borrowed")
BY FS_EmptySet DEF IsExact

\* The users are numbered again.
LEMMA ShiftIsExact ==
    ASSUME NEW U, NEW c, NEW m, IsExact(U, c, m), NEW W, NEW f \in Bijection(U, W),
           \A x \in U : x[1] = "cache" => f[x] = x
    PROVE  IsExact(W, c, m)
<1>1. IsFiniteSet(W) /\ Cardinality(W) = Cardinality(U)
    BY FS_Bijection DEF IsExact, ExistsBijection
<1>2. \A y \in W : \E x \in U : f[x] = y
    BY DEF Bijection, Surjection
<1>3. \A x \in U : f[x] \in W
    BY DEF Bijection, Surjection, Injection
<1> QED BY <1>1, <1>2, <1>3 DEF IsExact

(***************************************************************************)
(* Who uses a value                                                        *)
(***************************************************************************)
Caches(t, v) == t \in Notifying /\ \E f \in Format : cache[t][f] = v
Gives(t, v) == pc[t] = "deliver" /\ ~sync[t] /\ event[t].value = v
Waits(s, i, v) == i \in 1..Len(posted[s]) /\ posted[s][i].value = v

LEMMA UsersAre ==
    ASSUME AlignTyped, Unshared, NEW v \in ValueId
    PROVE  \A x : x \in Users(v) <=>
              \/ \E t \in Thread : Caches(t, v) /\ x = <<"cache", t, 0>>
              \/ \E t \in Thread : Gives(t, v) /\ x = <<"event", t, 0>>
              \/ \E s \in Subscriber, i \in Nat : Waits(s, i, v) /\ x = <<"posted", s, i>>
<1>1. InQueue("queued", alignQueue, v) = {}
    <2>1. \A s \in Subscriber : DOMAIN alignQueue[s] = 1..Len(alignQueue[s])
        BY DEF AlignTyped, SubscribersTyped
    <2> QED BY <2>1 DEF InQueue, Unshared, ValueId
<1>2. \A x : x \in InQueue("posted", posted, v) <=>
          \E s \in Subscriber, i \in Nat : Waits(s, i, v) /\ x = <<"posted", s, i>>
    <2>1. \A s \in Subscriber : DOMAIN posted[s] = 1..Len(posted[s])
        BY DEF AlignTyped, SubscribersTyped
    <2> QED BY <2>1 DEF InQueue, Waits
<1>3. \A x : x \in {<<"cache", t, 0>> : t \in {u \in Notifying : \E f \in Format : cache[u][f] = v}} <=>
          \E t \in Thread : Caches(t, v) /\ x = <<"cache", t, 0>>
    BY DEF Caches
<1>4. \A x : x \in {<<"event", t, 0>> : t \in {u \in Thread : pc[u] = "deliver" /\ ~sync[u] /\ event[u].value = v}} <=>
          \E t \in Thread : Gives(t, v) /\ x = <<"event", t, 0>>
    BY DEF Gives
<1> QED BY <1>1, <1>2, <1>3, <1>4, Zenon DEF Users

LEMMA NextUsersAre ==
    ASSUME AlignTyped', Unshared', NEW v \in ValueId
    PROVE  \A x : x \in Users(v)' <=>
              \/ \E t \in Thread : Caches(t, v)' /\ x = <<"cache", t, 0>>
              \/ \E t \in Thread : Gives(t, v)' /\ x = <<"event", t, 0>>
              \/ \E s \in Subscriber, i \in Nat : Waits(s, i, v)' /\ x = <<"posted", s, i>>
<1>1. InQueue("queued", alignQueue, v)' = {}
    <2>1. \A s \in Subscriber : (DOMAIN alignQueue[s] = 1..Len(alignQueue[s]))'
        BY DEF AlignTyped, SubscribersTyped
    <2> QED BY <2>1 DEF InQueue, Unshared, ValueId
<1>2. \A x : x \in InQueue("posted", posted, v)' <=>
          \E s \in Subscriber, i \in Nat : Waits(s, i, v)' /\ x = <<"posted", s, i>>
    <2>1. \A s \in Subscriber : (DOMAIN posted[s] = 1..Len(posted[s]))'
        BY DEF AlignTyped, SubscribersTyped
    <2> QED BY <2>1 DEF InQueue, Waits
<1>3. \A x : x \in {<<"cache", t, 0>> : t \in {u \in Notifying : \E f \in Format : cache[u][f] = v}}' <=>
          \E t \in Thread : Caches(t, v)' /\ x = <<"cache", t, 0>>
    BY DEF Caches
<1>4. \A x : x \in {<<"event", t, 0>> : t \in {u \in Thread : pc[u] = "deliver" /\ ~sync[u] /\ event[u].value = v}}' <=>
          \E t \in Thread : Gives(t, v)' /\ x = <<"event", t, 0>>
    BY DEF Gives
<1> QED BY <1>1, <1>2, <1>3, <1>4, Zenon DEF Users

\* The users of a value do not change when nobody begins or ends to use it.
LEMMA SameUsers ==
    ASSUME AlignTyped, AlignTyped', Unshared, Unshared', NEW v \in ValueId,
           \A t \in Thread : (Caches(t, v)' <=> Caches(t, v)) /\ (Gives(t, v)' <=> Gives(t, v)),
           \A s \in Subscriber, i \in Nat : Waits(s, i, v)' <=> Waits(s, i, v)
    PROVE  Users(v)' = Users(v)
<1>1. \A x : x \in Users(v) <=>
          \/ \E t \in Thread : Caches(t, v) /\ x = <<"cache", t, 0>>
          \/ \E t \in Thread : Gives(t, v) /\ x = <<"event", t, 0>>
          \/ \E s \in Subscriber, i \in Nat : Waits(s, i, v) /\ x = <<"posted", s, i>>
    BY UsersAre
<1>2. \A x : x \in Users(v)' <=>
          \/ \E t \in Thread : Caches(t, v)' /\ x = <<"cache", t, 0>>
          \/ \E t \in Thread : Gives(t, v)' /\ x = <<"event", t, 0>>
          \/ \E s \in Subscriber, i \in Nat : Waits(s, i, v)' /\ x = <<"posted", s, i>>
    BY NextUsersAre
<1>3. \A x : x \in Users(v)' <=> x \in Users(v)
    BY <1>1, <1>2, Zenon
<1> QED BY <1>3

\* A step with which no notification begins or ends, and no event is given.
LEMMA RestShares ==
    ASSUME AlignTyped, AlignTyped', Unshared, Counts, Unshared',
           UNCHANGED <<cache, event, sync, valueVars>>,
           \A u \in Thread : \/ pc'[u] = pc[u]
                             \/ pc[u] \in {"walk", "lock", "invoke"} /\ pc'[u] \in {"walk", "lock", "invoke"}
                             \/ u \notin Notifying /\ u \notin Notifying',
           \A v \in ValueId, s \in Subscriber, i \in Nat : Waits(s, i, v)' <=> Waits(s, i, v)
    PROVE  Counts'
<1> SUFFICES ASSUME NEW v \in ValueId
             PROVE  IsExact(Users(v), shared[v], mem[v])'
    BY DEF Counts
<1>1. \A t \in Thread : Caches(t, v)' <=> Caches(t, v)
    BY DEF Caches
<1>2. \A t \in Thread : Gives(t, v)' <=> Gives(t, v)
    BY DEF Gives
<1>3. Users(v)' = Users(v)
    BY <1>1, <1>2, SameUsers
<1>4. shared'[v] = shared[v] /\ mem'[v] = mem[v]
    BY DEF valueVars
<1>5. IsExact(Users(v), shared[v], mem[v])
    BY DEF Counts
<1> QED BY <1>3, <1>4, <1>5

\* The same when no queue changes either.
Elsewhere(t, p) == {p, pc'[t]} \subseteq {"walk", "lock", "invoke"}
                   \/ {p, pc'[t]} \cap {"walk", "lock", "invoke", "deliver"} = {}

LEMMA QueuesRestShares ==
    ASSUME AlignTyped, AlignTyped', Unshared, Counts, NEW t \in Thread,
           UNCHANGED <<cache, event, sync, valueVars, alignQueue, posted>>,
           pc' = [pc EXCEPT ![t] = pc'[t]], Elsewhere(t, pc[t])
    PROVE  Unshared' /\ Counts'
<1>1. Unshared'
    BY DEF Unshared
<1>2. \A v \in ValueId, s \in Subscriber, i \in Nat : Waits(s, i, v)' <=> Waits(s, i, v)
    BY DEF Waits
<1>3. \A u \in Thread : \/ pc'[u] = pc[u]
                        \/ pc[u] \in {"walk", "lock", "invoke"} /\ pc'[u] \in {"walk", "lock", "invoke"}
                        \/ u \notin Notifying /\ u \notin Notifying'
    BY DEF Elsewhere, AlignTyped, ThreadsTyped
<1>4. UNCHANGED <<cache, event, sync, valueVars>>
    OBVIOUS
<1> QED BY <1>1, <1>2, <1>3, <1>4, RestShares

\* A thread goes from p to q.
LEMMA GoesOn ==
    ASSUME AlignTyped, AlignTyped', NEW t \in Thread, NEW p, NEW q, Goto(t, p, q)
    PROVE  pc[t] = p /\ pc'[t] = q /\ pc' = [pc EXCEPT ![t] = pc'[t]]
BY DEF Goto, AlignTyped, ThreadsTyped

\* The steps with which no value is used or given up.
LEMMA OthersShare ==
    ASSUME AlignTyped, AlignTyped', Unshared, Counts, NEW t \in Thread,
           \/ Walk(t) \/ LockAlign(t) \/ AlignBegin(t) \/ AlignEnd(t) \/ FlushEnd(t) \/ Told(t)
           \/ \E e \in Entity : Subscribe(t, e) \/ Unsubscribe(t, e)
    PROVE  Unshared' /\ Counts'
<1>1. CASE Walk(t)
    <2>1. PICK e \in Deepest(todo[t]) : Goto(t, "walk", IF isAligning[e[1]] THEN "lock" ELSE "invoke")
        BY <1>1 DEF Walk
    <2>2. UNCHANGED <<cache, event, sync, valueVars, alignQueue, posted>>
        BY <1>1 DEF Walk, alignVars
    <2>3. pc[t] = "walk" /\ pc'[t] \in {"lock", "invoke"} /\ pc' = [pc EXCEPT ![t] = pc'[t]]
        BY <2>1, GoesOn
    <2>4. Elsewhere(t, pc[t])
        BY <2>3 DEF Elsewhere
    <2> QED BY <2>2, <2>3, <2>4, QueuesRestShares
<1>2. CASE LockAlign(t)
    <2>1. Goto(t, "lock", "invoke") /\ UNCHANGED <<cache, event, sync, valueVars, alignQueue, posted>>
        BY <1>2 DEF LockAlign, localVars
    <2>2. pc[t] = "lock" /\ pc'[t] = "invoke" /\ pc' = [pc EXCEPT ![t] = pc'[t]]
        BY <2>1, GoesOn
    <2>3. Elsewhere(t, pc[t])
        BY <2>2 DEF Elsewhere
    <2> QED BY <2>1, <2>2, <2>3, QueuesRestShares
<1>3. CASE AlignBegin(t)
    <2>1. Goto(t, "align", "mounts") /\ UNCHANGED <<cache, event, sync, valueVars, alignQueue, posted>>
        BY <1>3 DEF AlignBegin
    <2>2. pc[t] = "align" /\ pc'[t] = "mounts" /\ pc' = [pc EXCEPT ![t] = pc'[t]]
        BY <2>1, GoesOn
    <2>3. Elsewhere(t, pc[t])
        BY <2>2 DEF Elsewhere
    <2> QED BY <2>1, <2>2, <2>3, QueuesRestShares
<1>4. CASE AlignEnd(t)
    <2>1. Goto(t, "aligning", "flush") /\ UNCHANGED <<cache, event, sync, valueVars, alignQueue, posted>>
        BY <1>4 DEF AlignEnd, localVars
    <2>2. pc[t] = "aligning" /\ pc'[t] = "flush" /\ pc' = [pc EXCEPT ![t] = pc'[t]]
        BY <2>1, GoesOn
    <2>3. Elsewhere(t, pc[t])
        BY <2>2 DEF Elsewhere
    <2> QED BY <2>1, <2>2, <2>3, QueuesRestShares
<1>5. CASE FlushEnd(t)
    <2>1. Goto(t, "flush", "idle") /\ UNCHANGED <<cache, event, sync, valueVars, alignQueue, posted>>
        BY <1>5 DEF FlushEnd, localVars
    <2>2. pc[t] = "flush" /\ pc'[t] = "idle" /\ pc' = [pc EXCEPT ![t] = pc'[t]]
        BY <2>1, GoesOn
    <2>3. Elsewhere(t, pc[t])
        BY <2>2 DEF Elsewhere
    <2> QED BY <2>1, <2>2, <2>3, QueuesRestShares
<1>6. CASE Told(t)
    <2>1. /\ Goto(t, "mounts", "aligning") \/ Goto(t, "unsubscribe", "idle")
          /\ UNCHANGED <<cache, event, sync, valueVars, alignQueue, posted>>
        BY <1>6 DEF Told, ToldVars, localVars, alignVars
    <2>2. /\ (pc[t] = "mounts" /\ pc'[t] = "aligning") \/ (pc[t] = "unsubscribe" /\ pc'[t] = "idle")
          /\ pc' = [pc EXCEPT ![t] = pc'[t]]
        BY <2>1, GoesOn
    <2>3. Elsewhere(t, pc[t])
        BY <2>2 DEF Elsewhere
    <2> QED BY <2>1, <2>2, <2>3, QueuesRestShares
<1>7. ASSUME NEW e \in Entity, Subscribe(t, e) \/ Unsubscribe(t, e)
      PROVE  Unshared' /\ Counts'
    <2>1. /\ Goto(t, "idle", "align") \/ Goto(t, "idle", "unsubscribe")
          /\ UNCHANGED <<cache, event, sync, valueVars, alignQueue, posted>>
        BY <1>7 DEF Subscribe, Unsubscribe, alignVars
    <2>2. pc[t] = "idle" /\ pc'[t] \in {"align", "unsubscribe"} /\ pc' = [pc EXCEPT ![t] = pc'[t]]
        BY <2>1, GoesOn
    <2>3. Elsewhere(t, pc[t])
        BY <2>2 DEF Elsewhere
    <2> QED BY <2>1, <2>2, <2>3, QueuesRestShares
<1> QED BY <1>1, <1>2, <1>3, <1>4, <1>5, <1>6, <1>7

\* An object is aligned: its event has no value in a format.
LEMMA AlignObjectShares ==
    ASSUME AlignTyped, AlignTyped', Unshared, Counts, NEW t \in Thread, AlignObject(t)
    PROVE  Unshared' /\ Counts'
<1>1. Sub(t) \in Subscriber
    BY ConfigTyped
<1>2. PICK s \in Subscriber : s = Sub(t)
    BY <1>1
<1>3. PICK k \in todo[t] : alignQueue' = [alignQueue EXCEPT ![s] =
                IF k \notin bound THEN @
                ELSE AddToAlignQueue(@, Selected(k))]
    BY <1>2 DEF AlignObject
<1>4. k \in Key /\ pc[t] = "aligning"
    BY <1>3 DEF AlignObject, AlignTyped, ThreadsTyped
<1>5. PICK ev : ev = Selected(k)
    OBVIOUS
<1>6. ev \in Events /\ ev.value = 0
    BY <1>4, <1>5, SelectedComes DEF Selected, NoEvent
<1>7. alignQueue \in [Subscriber -> Seq(Events)]
    BY DEF AlignTyped, SubscribersTyped
<1>8. PICK q \in Seq(Events) : q = alignQueue[s]
    BY <1>7
<1>9. PICK r : r = AddToAlignQueue(q, ev)
    OBVIOUS
<1>10. /\ r \in Seq(Events) /\ Len(r) \in Nat
       /\ \A i \in 1..Len(r) : r[i] = ev \/ (i \in 1..Len(q) /\ r[i] = q[i] /\ q[i].key # ev.key)
    BY <1>6, <1>9, AddedToAlignQueue, ZenonT(60)
<1>11. alignQueue' = [alignQueue EXCEPT ![s] = IF k \notin bound THEN q ELSE r]
    BY <1>3, <1>5, <1>8, <1>9
<1>12. Unshared'
    <2>1. \A i \in 1..Len(q) : q[i].value = 0
        BY <1>8 DEF Unshared
    <2>2. \A i \in 1..Len(r) : r[i].value = 0
        BY <1>6, <1>10, <2>1
    <2> QED BY <1>7, <1>11, <2>1, <2>2 DEF Unshared
<1>13. UNCHANGED <<pc, cache, event, sync, valueVars, posted>>
    BY DEF AlignObject
<1>14. \A v \in ValueId, s0 \in Subscriber, i \in Nat : Waits(s0, i, v)' <=> Waits(s0, i, v)
    BY <1>13 DEF Waits
<1> QED BY <1>12, <1>13, <1>14, RestShares

\* A notification begins, with the value of the publisher if there is one.
LEMMA ChangeShares ==
    ASSUME AlignTyped, AlignTyped', Unshared, Counts, NEW t \in Thread, NEW k \in Key,
           NEW f \in Format \cup {NoFormat}, NEW b \in BOOLEAN, Change(t, k, b, f)
    PROVE  Unshared' /\ Counts'
<1>1. pc[t] = "idle" /\ pc'[t] = "walk" /\ \A u \in Thread : u # t => pc'[u] = pc[u]
    BY DEF Change, Goto, AlignTyped, ThreadsTyped
<1>2. UNCHANGED <<alignQueue, posted, sync, shared>>
    BY DEF Change, alignVars
<1>3. Unshared'
    BY <1>2 DEF Unshared
<1>4. \A v, i, s : Waits(s, i, v)' <=> Waits(s, i, v)
    BY <1>2 DEF Waits
<1>5. \A u \in Thread : u # t => event'[u] = event[u] /\ cache'[u] = cache[u]
    BY DEF Change, AlignTyped, ThreadsTyped, ValuesTyped
<1>6. \A v, u : u \in Thread => (Gives(u, v)' <=> Gives(u, v))
    BY <1>1, <1>2, <1>5 DEF Gives
<1>7. \A v, u : u \in Thread /\ u # t => (Caches(u, v)' <=> Caches(u, v))
    BY <1>1, <1>5 DEF Caches
<1>8. \A v : ~Caches(t, v)
    BY <1>1 DEF Caches
<1>9. ASSUME NEW v \in ValueId, ~Caches(t, v)', mem'[v] = mem[v]
      PROVE  IsExact(Users(v), shared[v], mem[v])'
    <2>1. Users(v)' = Users(v)
        BY <1>3, <1>4, <1>6, <1>7, <1>8, <1>9, SameUsers
    <2>2. IsExact(Users(v), shared[v], mem[v])
        BY DEF Counts
    <2> QED BY <1>2, <1>9, <2>1, <2>2
<1>10. CASE f = NoFormat
    <2>1. cache'[t] = [g \in Format |-> 0] /\ mem' = mem
        BY <1>10 DEF Change, AlignTyped, ValuesTyped
    <2>2. \A v \in ValueId : ~Caches(t, v)'
        BY <2>1 DEF Caches, ValueId
    <2> QED BY <1>3, <1>9, <2>1, <2>2 DEF Counts
<1>11. CASE f # NoFormat
    <2>1. NewValue \in ValueId /\ mem[NewValue] = "unused"
        BY <1>11, NewValueIsUnused DEF Change
    <2>2. PICK w \in ValueId : w = NewValue
        BY <2>1
    <2>3. mem[w] = "unused" /\ w # 0
        BY <2>1, <2>2 DEF ValueId
    <2>4. /\ cache'[t] = [g \in Format |-> IF g = f THEN w ELSE 0]
          /\ mem' = [mem EXCEPT ![w] = "borrowed"]
        BY <1>11, <2>2 DEF Change, AlignTyped, ValuesTyped
    <2>5. Caches(t, w)' /\ \A v \in ValueId : v # w => ~Caches(t, v)'
        BY <1>1, <1>11, <2>3, <2>4 DEF Caches, ValueId
    <2>6. \A v \in ValueId : v # w => IsExact(Users(v), shared[v], mem[v])'
        BY <1>9, <2>4, <2>5 DEF AlignTyped, ValuesTyped
    <2>7. IsExact(Users(w), shared[w], "unused")
        BY <2>3 DEF Counts
    <2>8. PICK x : x = <<"cache", t, 0>>
        OBVIOUS
    <2>9. Users(w) = {} /\ shared[w] = -1 /\ IsExact({x}, -1, "borrowed")
        BY <2>7, <2>8, NewIsExact
    <2>10. \A y : ~ \/ \E u \in Thread : Caches(u, w) /\ y = <<"cache", u, 0>>
                    \/ \E u \in Thread : Gives(u, w) /\ y = <<"event", u, 0>>
                    \/ \E s \in Subscriber, i \in Nat : Waits(s, i, w) /\ y = <<"posted", s, i>>
        BY <2>9, UsersAre
    <2>11. \A y : y \in Users(w)' <=>
              \/ \E u \in Thread : Caches(u, w)' /\ y = <<"cache", u, 0>>
              \/ \E u \in Thread : Gives(u, w)' /\ y = <<"event", u, 0>>
              \/ \E s \in Subscriber, i \in Nat : Waits(s, i, w)' /\ y = <<"posted", s, i>>
        BY <1>3, NextUsersAre
    <2>12. \A y : y \in Users(w)' <=> y = x
        BY <1>4, <1>6, <1>7, <2>5, <2>8, <2>10, <2>11, Zenon
    <2>13. Users(w)' = {x}
        BY <2>12
    <2>14. shared'[w] = -1 /\ mem'[w] = "borrowed"
        BY <1>2, <2>4, <2>9 DEF AlignTyped, ValuesTyped
    <2>15. IsExact(Users(w), shared[w], mem[w])'
        BY <2>9, <2>13, <2>14
    <2> QED BY <1>3, <2>6, <2>15, Zenon DEF Counts
<1> QED BY <1>10, <1>11

\* A notification makes the value for a subscriber, or finds it in its cache, and copies it into
\* an event that is not delivered at once.
LEMMA InvokeShares ==
    ASSUME AlignTyped, AlignTyped', Unshared, Counts, NEW t \in Thread, Invoke(t)
    PROVE  Unshared' /\ Counts'
<1>1. PICK b \in BOOLEAN : /\ b = (~HasDispatcher(Sub(t)) /\ ~isAligning[Sub(t)])
                           /\ sync' = [sync EXCEPT ![t] = b]
                           /\ Serialize(t, Config(Sub(t)).format, ~b)
    BY DEF Invoke
<1>2. Config(Sub(t)).format \in Format \cup {NoFormat}
    BY ConfigTyped
<1>3. PICK f \in Format \cup {NoFormat} : Serialize(t, f, ~b)
    BY <1>1, <1>2
<1>4. pc[t] = "invoke" /\ pc'[t] = "deliver" /\ \A u \in Thread : u # t => pc'[u] = pc[u]
    BY DEF Invoke, Goto, AlignTyped, ThreadsTyped
<1>5. UNCHANGED <<alignQueue, posted>> /\ sync'[t] = b /\ \A u \in Thread : u # t => sync'[u] = sync[u]
    BY <1>1 DEF Invoke, alignVars, AlignTyped, ThreadsTyped
<1>6. Unshared'
    BY <1>5 DEF Unshared
<1>7. \A v, i, s : Waits(s, i, v)' <=> Waits(s, i, v)
    BY <1>5 DEF Waits
<1>8. \A u \in Thread : u # t => event'[u] = event[u] /\ cache'[u] = cache[u]
    BY <1>3 DEF Serialize, AlignTyped, ThreadsTyped, ValuesTyped
<1>9. \A v, u : u \in Thread /\ u # t => (Caches(u, v)' <=> Caches(u, v)) /\ (Gives(u, v)' <=> Gives(u, v))
    BY <1>4, <1>5, <1>8 DEF Caches, Gives
<1>10. \A v : ~Gives(t, v) /\ (Gives(t, v)' <=> ~b /\ event'[t].value = v)
    BY <1>4, <1>5 DEF Gives
<1>11. ASSUME NEW v \in ValueId, Caches(t, v)' <=> Caches(t, v), ~Gives(t, v)',
              mem'[v] = mem[v], shared'[v] = shared[v]
       PROVE  IsExact(Users(v), shared[v], mem[v])'
    <2>1. Users(v)' = Users(v)
        BY <1>6, <1>7, <1>9, <1>10, <1>11, SameUsers
    <2>2. IsExact(Users(v), shared[v], mem[v])
        BY DEF Counts
    <2> QED BY <1>11, <2>1, <2>2
<1>12. CASE f = NoFormat
    <2>1. event'[t].value = 0 /\ UNCHANGED <<cache, mem, shared>>
        BY <1>3, <1>12 DEF Serialize, AlignTyped, ThreadsTyped, Events
    <2>2. \A v \in ValueId : (Caches(t, v)' <=> Caches(t, v)) /\ ~Gives(t, v)'
        BY <1>4, <1>10, <2>1 DEF Caches, ValueId
    <2> QED BY <1>6, <1>11, <2>1, <2>2 DEF Counts
<1>13. CASE f # NoFormat
    <2>1. PICK w : w = IF cache[t][f] # 0 THEN cache[t][f] ELSE NewValue
        OBVIOUS
    <2>2. /\ cache[t][f] = 0 => FreeValues # {}
          /\ event' = [event EXCEPT ![t].value = w]
          /\ cache' = [cache EXCEPT ![t][f] = w]
          /\ mem' = IF cache[t][f] = 0 THEN [mem EXCEPT ![w] = "live"] ELSE mem
          /\ shared' = CountShared(w, ~b)
        BY <1>3, <1>13, <2>1 DEF Serialize
    <2>3. w \in ValueId /\ w # 0 /\ (cache[t][f] = 0 => mem[w] = "unused") /\ (cache[t][f] # 0 => cache[t][f] = w)
        BY <1>13, <2>1, <2>2, NewValueIsUnused DEF AlignTyped, ValuesTyped, ValueId
    <2>4. event'[t].value = w
        BY <2>2 DEF AlignTyped, ThreadsTyped, Events
    <2>5. cache'[t][f] = w /\ \A g \in Format : g # f => cache'[t][g] = cache[t][g]
        BY <1>13, <2>2 DEF AlignTyped, ValuesTyped
    <2>6. Caches(t, w)' /\ \A v \in ValueId : v # w => (Caches(t, v)' <=> Caches(t, v)) /\ ~Gives(t, v)'
        BY <1>4, <1>10, <1>13, <2>3, <2>4, <2>5 DEF Caches, ValueId
    <2>7. /\ shared'[w] = IF b THEN shared[w] ELSE CopiedCount(shared[w])
          /\ \A v \in ValueId : v # w => shared'[v] = shared[v] /\ mem'[v] = mem[v]
          /\ mem'[w] = IF cache[t][f] = 0 THEN "live" ELSE mem[w]
        BY <2>2, <2>3 DEF CountShared, CopiedCount, AlignTyped, ValuesTyped
    <2>8. \A v \in ValueId : v # w => IsExact(Users(v), shared[v], mem[v])'
        BY <1>11, <2>6, <2>7
    <2>9. PICK x : x = <<"cache", t, 0>>
        OBVIOUS
    <2>10. PICK e : e = <<"event", t, 0>>
        OBVIOUS
    <2>11. x # e /\ x[1] = "cache"
        BY <2>9, <2>10
    <2>12. \A y : y \in Users(w) <=>
              \/ \E u \in Thread : Caches(u, w) /\ y = <<"cache", u, 0>>
              \/ \E u \in Thread : Gives(u, w) /\ y = <<"event", u, 0>>
              \/ \E s \in Subscriber, i \in Nat : Waits(s, i, w) /\ y = <<"posted", s, i>>
        BY <2>3, UsersAre
    <2>13. \A y : y \in Users(w)' <=>
              \/ \E u \in Thread : Caches(u, w)' /\ y = <<"cache", u, 0>>
              \/ \E u \in Thread : Gives(u, w)' /\ y = <<"event", u, 0>>
              \/ \E s \in Subscriber, i \in Nat : Waits(s, i, w)' /\ y = <<"posted", s, i>>
        BY <1>6, <2>3, NextUsersAre
    <2>14. Gives(t, w)' <=> ~b
        BY <1>10, <2>4
    <2>15. \A y : y \in Users(w)' <=> y \in Users(w) \/ y = x \/ (~b /\ y = e)
        <3>1. \A u : u \in Thread => (Caches(u, w)' <=> Caches(u, w) \/ u = t)
            BY <1>9, <2>6
        <3>2. \A u : u \in Thread => (Gives(u, w)' <=> Gives(u, w) \/ (u = t /\ ~b))
            BY <1>9, <1>10, <2>14
        <3> QED BY <1>7, <2>9, <2>10, <2>12, <2>13, <3>1, <3>2, Zenon
    <2>16. Users(w)' = Users(w) \cup {x} \cup (IF b THEN {} ELSE {e})
        BY <2>15
    <2>17. IsExact(Users(w), shared[w], mem[w])
        BY <2>3 DEF Counts
    <2>18. CASE cache[t][f] = 0
        <3>1. IsExact(Users(w), shared[w], "unused")
            BY <2>3, <2>17, <2>18
        <3>2. /\ Users(w) = {} /\ shared[w] = -1 /\ IsExact({x}, -1, "live")
              /\ \A y : y # x => IsExact({x, y}, 2, "live")
            BY <2>11, <3>1, NewIsExact
        <3>3. CASE b
            <4>1. Users(w)' = {x}
                BY <2>16, <3>2, <3>3
            <4> QED BY <2>7, <2>8, <2>18, <3>2, <3>3, <4>1, <1>6 DEF Counts
        <3>4. CASE ~b
            <4>1. Users(w)' = {x, e}
                BY <2>16, <3>2, <3>4
            <4>2. IsExact({x, e}, 2, "live") /\ shared'[w] = 2 /\ mem'[w] = "live"
                BY <2>7, <2>11, <2>18, <3>2, <3>4 DEF CopiedCount
            <4> QED BY <2>8, <4>1, <4>2, <1>6 DEF Counts
        <3> QED BY <3>3, <3>4
    <2>19. CASE cache[t][f] # 0
        <3>1. Caches(t, w)
            BY <1>4, <1>13, <2>3, <2>19 DEF Caches
        <3>2. x \in Users(w)
            BY <2>9, <2>12, <3>1
        <3>3. CASE b
            <4>1. Users(w)' = Users(w)
                BY <2>16, <3>2, <3>3
            <4>2. IsExact(Users(w), shared[w], mem[w])'
                BY <2>7, <2>17, <2>19, <3>3, <4>1
            <4> QED BY <2>8, <4>2, <1>6 DEF Counts
        <3>4. CASE ~b
            <4>1. Users(w)' = Users(w) \cup {e}
                BY <2>16, <3>2, <3>4
            <4>2. \A u \in Thread : e # <<"cache", u, 0>>
                BY <2>10
            <4>3. \A s \in Subscriber, i \in Nat : e # <<"posted", s, i>>
                BY <2>10
            <4>4. \A u \in Thread : e = <<"event", u, 0>> => u = t
                BY <2>10
            <4>5. e \notin Users(w)
                BY <1>10, <2>12, <4>2, <4>3, <4>4, Zenon
            <4>6. IsExact(Users(w) \cup {e}, CopiedCount(shared[w]), mem[w])
                BY <2>11, <2>17, <3>2, <4>5, CopyIsExact
            <4>7. shared'[w] = CopiedCount(shared[w]) /\ mem'[w] = mem[w]
                BY <2>7, <2>19, <3>4
            <4>8. IsExact(Users(w), shared[w], mem[w])'
                BY <4>1, <4>6, <4>7
            <4> QED BY <2>8, <4>8, <1>6 DEF Counts
        <3> QED BY <3>3, <3>4
    <2> QED BY <2>18, <2>19
<1> QED BY <1>12, <1>13

\* An event is delivered: its value goes with it to the queue of the dispatcher.
LEMMA DeliverShares ==
    ASSUME AlignTyped, AlignTyped', Locks, Unshared, Counts, NEW t \in Thread, Deliver(t),
           fault = "none", fault' = "none"
    PROVE  Unshared' /\ Counts'
<1>1. PICK s \in Subscriber : s = Sub(t)
    BY ConfigTyped
<1>2. PICK ev \in Events : ev = event[t]
    BY DEF AlignTyped, ThreadsTyped
<1>3. pc[t] = "deliver" /\ pc'[t] = "walk" /\ \A u \in Thread : u # t => pc'[u] = pc[u]
    BY DEF Deliver, Goto, AlignTyped, ThreadsTyped
<1>4. UNCHANGED <<cache, event, sync, mem, shared>>
    BY DEF Deliver, localVars, valueVars
<1>5. \A v, u : u \in Thread => (Caches(u, v)' <=> Caches(u, v))
    BY <1>3, <1>4 DEF Caches
<1>6. \A v, u : u \in Thread => (Gives(u, v)' <=> Gives(u, v) /\ u # t)
    BY <1>3, <1>4 DEF Gives
<1>7. ASSUME Unshared', NEW v \in ValueId, ~Gives(t, v),
             \A r \in Subscriber, i \in Nat : Waits(r, i, v)' <=> Waits(r, i, v)
      PROVE  IsExact(Users(v), shared[v], mem[v])'
    <2>1. Users(v)' = Users(v)
        BY <1>5, <1>6, <1>7, SameUsers
    <2>2. IsExact(Users(v), shared[v], mem[v])
        BY DEF Counts
    <2> QED BY <1>4, <2>1, <2>2
<1>8. CASE sync[t]
    <2>1. UNCHANGED <<alignQueue, posted>>
        BY <1>8 DEF Deliver
    <2>2. Unshared'
        BY <2>1 DEF Unshared
    <2>3. \A v, i, r : Waits(r, i, v)' <=> Waits(r, i, v)
        BY <2>1 DEF Waits
    <2>4. \A v : ~Gives(t, v)
        BY <1>8 DEF Gives
    <2> QED BY <1>7, <2>2, <2>3, <2>4 DEF Counts
<1>9. CASE ~sync[t] /\ isAligning[s]
    <2>1. holder[s] = t
        BY <1>1, <1>9 DEF Deliver, Fault
    <2>2. PICK u \in Thread : Aligns(u, s)
        BY <1>9 DEF Locks, AlignedBySomeone
    <2>3. holder[s] = u /\ pc[u] # "deliver"
        BY <2>2 DEF Aligns, Locks, Mutexes, Owns
    <2> QED BY <1>3, <2>1, <2>3
<1>10. CASE ~sync[t] /\ ~isAligning[s]
    <2>1. posted' = [posted EXCEPT ![s] = Append(@, ev)] /\ alignQueue' = alignQueue
        BY <1>1, <1>2, <1>10 DEF Deliver
    <2>2. Unshared'
        BY <2>1 DEF Unshared
    <2>3. PICK q \in Seq(Events) : q = posted[s]
        BY DEF AlignTyped, SubscribersTyped
    <2>4. PICK n \in Nat : n = Len(q)
        OBVIOUS
    <2>5. /\ posted'[s] = Append(q, ev) /\ Len(Append(q, ev)) = n + 1 /\ Append(q, ev)[n + 1] = ev
          /\ \A i \in 1..n : Append(q, ev)[i] = q[i]
          /\ \A r \in Subscriber : r # s => posted'[r] = posted[r]
        BY <2>1, <2>3, <2>4, Appended DEF AlignTyped, SubscribersTyped
    <2>6. \A v, i : i \in Nat => (Waits(s, i, v)' <=> Waits(s, i, v) \/ (i = n + 1 /\ ev.value = v))
        BY <2>3, <2>4, <2>5 DEF Waits
    <2>7. \A v, i, r : r \in Subscriber /\ r # s => (Waits(r, i, v)' <=> Waits(r, i, v))
        BY <2>5 DEF Waits
    <2>8. \A v : Gives(t, v) <=> ev.value = v
        BY <1>2, <1>3, <1>10 DEF Gives
    <2>9. ASSUME NEW v \in ValueId, ev.value # v
          PROVE  IsExact(Users(v), shared[v], mem[v])'
        BY <1>7, <2>2, <2>6, <2>7, <2>8, <2>9
    <2>10. ASSUME NEW v \in ValueId, ev.value = v
           PROVE  IsExact(Users(v), shared[v], mem[v])'
        <3>1. PICK e : e = <<"event", t, 0>>
            OBVIOUS
        <3>2. PICK p : p = <<"posted", s, n + 1>>
            OBVIOUS
        <3>3. \A y : y \in Users(v) <=>
                 \/ \E u \in Thread : Caches(u, v) /\ y = <<"cache", u, 0>>
                 \/ \E u \in Thread : Gives(u, v) /\ y = <<"event", u, 0>>
                 \/ \E r \in Subscriber, i \in Nat : Waits(r, i, v) /\ y = <<"posted", r, i>>
            BY UsersAre
        <3>4. \A y : y \in Users(v)' <=>
                 \/ \E u \in Thread : Caches(u, v)' /\ y = <<"cache", u, 0>>
                 \/ \E u \in Thread : Gives(u, v)' /\ y = <<"event", u, 0>>
                 \/ \E r \in Subscriber, i \in Nat : Waits(r, i, v)' /\ y = <<"posted", r, i>>
            BY <2>2, NextUsersAre
        <3>5. e \in Users(v) /\ e[1] # "cache"
            BY <2>8, <2>10, <3>1, <3>3
        <3>6. ~Waits(s, n + 1, v)
            BY <2>3, <2>4 DEF Waits
        <3>7. \A r \in Subscriber, i \in Nat : p = <<"posted", r, i>> => r = s /\ i = n + 1
            BY <3>2
        <3>8. \A u \in Thread : p # <<"cache", u, 0>> /\ p # <<"event", u, 0>>
            BY <3>2
        <3>9. p \notin Users(v)
            BY <3>3, <3>6, <3>7, <3>8, ZenonT(60)
        <3>10. \A u \in Thread : e # <<"cache", u, 0>> /\ (e = <<"event", u, 0>> <=> u = t)
            BY <3>1
        <3>11. \A r \in Subscriber, i \in Nat : e # <<"posted", r, i>>
            BY <3>1
        <3>12. n + 1 \in Nat
            OBVIOUS
        <3>13. \A r \in Subscriber, i \in Nat : Waits(r, i, v)' <=> Waits(r, i, v) \/ (r = s /\ i = n + 1)
            BY <2>6, <2>7, <2>10
        <3>14. \A y : y \in Users(v)' <=> (y \in Users(v) /\ y # e) \/ y = p
            <4>1. \A y : (\E u \in Thread : Caches(u, v)' /\ y = <<"cache", u, 0>>)
                         <=> (\E u \in Thread : Caches(u, v) /\ y = <<"cache", u, 0>>) /\ y # e
                BY <1>5, <3>10, Zenon
            <4>2. \A y : (\E u \in Thread : Gives(u, v)' /\ y = <<"event", u, 0>>)
                         <=> (\E u \in Thread : Gives(u, v) /\ y = <<"event", u, 0>>) /\ y # e
                BY <1>6, <3>10, Zenon
            <4>3. \A y : (\E r \in Subscriber, i \in Nat : Waits(r, i, v)' /\ y = <<"posted", r, i>>)
                         <=> ((\E r \in Subscriber, i \in Nat : Waits(r, i, v) /\ y = <<"posted", r, i>>)
                              /\ y # e) \/ y = p
                BY <3>2, <3>8, <3>11, <3>12, <3>13, <3>1
            <4> QED BY <3>3, <3>4, <4>1, <4>2, <4>3, SMT
        <3>15. Users(v)' = (Users(v) \ {e}) \cup {p}
            BY <3>14
        <3>16. IsExact(Users(v), shared[v], mem[v])
            BY DEF Counts
        <3>17. IsExact((Users(v) \ {e}) \cup {p}, shared[v], mem[v])
            BY <3>5, <3>9, <3>16, MoveIsExact
        <3> QED BY <1>4, <3>15, <3>17
    <2> QED BY <2>2, <2>9, <2>10 DEF Counts
<1> QED BY <1>8, <1>9, <1>10

\* Values that are dropped.
LEMMA DropSteps ==
    ASSUME AlignTyped, NEW vs, Drop(vs), fault = "none", fault' = "none"
    PROVE  /\ \A v \in ValueId : v \in vs =>
                 /\ shared'[v] = DroppedCount(shared[v]) /\ mem'[v] = DroppedMem(shared[v], mem[v])
                 /\ mem[v] # "borrowed" \/ shared[v] \notin {-1, 1}
           /\ \A v \in ValueId : v \notin vs => shared'[v] = shared[v] /\ mem'[v] = mem[v]
<1>1. shared \in [ValueId -> Int] /\ mem \in [ValueId -> {"unused", "live", "borrowed", "freed"}]
    BY DEF AlignTyped, ValuesTyped
<1>2. ~ \E v \in vs : mem[v] = "borrowed" /\ shared[v] \in {-1, 1}
    BY DEF Drop, Fault
<1>3. /\ shared' = [v \in ValueId |-> IF v \in vs /\ shared[v] > 0 THEN shared[v] - 1 ELSE shared[v]]
      /\ mem' = [v \in ValueId |-> IF v \in vs /\ shared[v] \in {-1, 1} THEN "freed" ELSE mem[v]]
    BY DEF Drop
<1> QED BY <1>1, <1>2, <1>3 DEF DroppedCount, DroppedMem

\* A notification ends, and gives up the values in its cache.
LEMMA NotifyEndShares ==
    ASSUME AlignTyped, AlignTyped', Unshared, Counts, NEW t \in Thread, NotifyEnd(t),
           fault = "none", fault' = "none"
    PROVE  Unshared' /\ Counts'
<1>1. pc[t] = "walk" /\ pc'[t] = "idle" /\ \A u \in Thread : u # t => pc'[u] = pc[u]
    BY DEF NotifyEnd, Goto, AlignTyped, ThreadsTyped
<1>2. UNCHANGED <<alignQueue, posted, cache, event, sync>>
    BY DEF NotifyEnd, localVars, alignVars
<1>3. Unshared'
    BY <1>2 DEF Unshared
<1>4. \A v, i, s : Waits(s, i, v)' <=> Waits(s, i, v)
    BY <1>2 DEF Waits
<1>5. \A v, u : u \in Thread => (Gives(u, v)' <=> Gives(u, v))
    BY <1>1, <1>2 DEF Gives
<1>6. \A v, u : u \in Thread => (Caches(u, v)' <=> Caches(u, v) /\ u # t)
    BY <1>1, <1>2 DEF Caches
<1>7. PICK vs : vs = {cache[t][f] : f \in Format}
                        \ ({0} \cup {v \in ValueId : mem[v] = "borrowed" /\ shared[v] = -1})
    OBVIOUS
<1>8. Drop(vs)
    BY <1>7 DEF NotifyEnd
<1>9. \A v \in ValueId : v \in vs <=> Caches(t, v) /\ ~(mem[v] = "borrowed" /\ shared[v] = -1)
    BY <1>1, <1>7 DEF Caches, ValueId
<1>10. ASSUME NEW v \in ValueId, ~Caches(t, v)
       PROVE  IsExact(Users(v), shared[v], mem[v])'
    <2>1. Users(v)' = Users(v)
        BY <1>3, <1>4, <1>5, <1>6, <1>10, SameUsers
    <2>2. shared'[v] = shared[v] /\ mem'[v] = mem[v]
        BY <1>8, <1>9, <1>10, DropSteps
    <2>3. IsExact(Users(v), shared[v], mem[v])
        BY DEF Counts
    <2> QED BY <2>1, <2>2, <2>3
<1>11. ASSUME NEW v \in ValueId, Caches(t, v)
       PROVE  IsExact(Users(v), shared[v], mem[v])'
    <2>1. PICK x : x = <<"cache", t, 0>>
        OBVIOUS
    <2>2. \A y : y \in Users(v) <=>
              \/ \E u \in Thread : Caches(u, v) /\ y = <<"cache", u, 0>>
              \/ \E u \in Thread : Gives(u, v) /\ y = <<"event", u, 0>>
              \/ \E s \in Subscriber, i \in Nat : Waits(s, i, v) /\ y = <<"posted", s, i>>
        BY UsersAre
    <2>3. \A y : y \in Users(v)' <=>
              \/ \E u \in Thread : Caches(u, v)' /\ y = <<"cache", u, 0>>
              \/ \E u \in Thread : Gives(u, v)' /\ y = <<"event", u, 0>>
              \/ \E s \in Subscriber, i \in Nat : Waits(s, i, v)' /\ y = <<"posted", s, i>>
        BY <1>3, NextUsersAre
    <2>4. x \in Users(v)
        BY <1>11, <2>1, <2>2
    <2>5. \A y : y \in Users(v)' <=> y \in Users(v) /\ y # x
        <3>1. \A y : (\E u \in Thread : Caches(u, v)' /\ y = <<"cache", u, 0>>)
                     <=> (\E u \in Thread : Caches(u, v) /\ y = <<"cache", u, 0>>) /\ y # x
            BY <1>6, <2>1
        <3>2. \A y : (\E u \in Thread : Gives(u, v)' /\ y = <<"event", u, 0>>)
                     <=> (\E u \in Thread : Gives(u, v) /\ y = <<"event", u, 0>>) /\ y # x
            BY <1>5, <2>1
        <3>3. \A y : (\E s \in Subscriber, i \in Nat : Waits(s, i, v)' /\ y = <<"posted", s, i>>)
                     <=> (\E s \in Subscriber, i \in Nat : Waits(s, i, v) /\ y = <<"posted", s, i>>) /\ y # x
            BY <1>4, <2>1
        <3> QED BY <2>2, <2>3, <3>1, <3>2, <3>3, SMT
    <2>6. Users(v)' = Users(v) \ {x}
        BY <2>5
    <2>7. IsExact(Users(v), shared[v], mem[v])
        BY DEF Counts
    <2>8. CASE v \in vs
        <3>1. /\ shared'[v] = DroppedCount(shared[v]) /\ mem'[v] = DroppedMem(shared[v], mem[v])
              /\ mem[v] # "borrowed" \/ shared[v] \notin {-1, 1}
            BY <1>8, <2>8, DropSteps
        <3>2. IsExact(Users(v) \ {x}, DroppedCount(shared[v]), DroppedMem(shared[v], mem[v]))
            BY <2>4, <2>7, <3>1, DropIsExact
        <3> QED BY <2>6, <3>1, <3>2
    <2>9. CASE v \notin vs
        <3>1. mem[v] = "borrowed" /\ shared[v] = -1 /\ shared'[v] = shared[v] /\ mem'[v] = mem[v]
            BY <1>8, <1>9, <1>11, <2>9, DropSteps
        <3>2. Users(v) \ {x} = {}
            BY <2>4, <2>7, <3>1 DEF IsExact
        <3>3. IsExact({}, -1, "borrowed")
            BY <2>7, <3>1, KeepIsExact
        <3> QED BY <2>6, <3>1, <3>2, <3>3
    <2> QED BY <2>8, <2>9
<1> QED BY <1>3, <1>10, <1>11 DEF Counts

\* The events that a dispatcher has yet to handle are numbered from the first.
Earlier(s, x) == IF x[1] = "posted" /\ x[2] = s THEN <<"posted", s, x[3] - 1>> ELSE x
Later(s, x) == IF x[1] = "posted" /\ x[2] = s THEN <<"posted", s, x[3] + 1>> ELSE x

LEMMA Renumbered ==
    ASSUME AlignTyped, AlignTyped', Unshared, Unshared', NEW s \in Subscriber, NEW v \in ValueId,
           \A t \in Thread : (Caches(t, v)' <=> Caches(t, v)) /\ (Gives(t, v)' <=> Gives(t, v)),
           \A r \in Subscriber, i \in Nat : r # s => (Waits(r, i, v)' <=> Waits(r, i, v)),
           \A i \in Nat : Waits(s, i, v)' <=> i > 0 /\ Waits(s, i + 1, v)
    PROVE  \E f \in Bijection(Users(v) \ {<<"posted", s, 1>>}, Users(v)') :
              \A x \in Users(v) \ {<<"posted", s, 1>>} : x[1] = "cache" => f[x] = x
<1>1. \A x : x \in Users(v) <=>
          \/ \E t \in Thread : Caches(t, v) /\ x = <<"cache", t, 0>>
          \/ \E t \in Thread : Gives(t, v) /\ x = <<"event", t, 0>>
          \/ \E r \in Subscriber, i \in Nat : Waits(r, i, v) /\ x = <<"posted", r, i>>
    BY UsersAre
<1>2. \A x : x \in Users(v)' <=>
          \/ \E t \in Thread : Caches(t, v)' /\ x = <<"cache", t, 0>>
          \/ \E t \in Thread : Gives(t, v)' /\ x = <<"event", t, 0>>
          \/ \E r \in Subscriber, i \in Nat : Waits(r, i, v)' /\ x = <<"posted", r, i>>
    BY NextUsersAre
<1>3. PICK U : U = Users(v) \ {<<"posted", s, 1>>}
    OBVIOUS
<1>4. PICK W : W = Users(v)'
    OBVIOUS
<1>5. \A r \in Subscriber, i \in Nat : Waits(r, i, v) => i > 0
    BY DEF Waits
<1>6. ASSUME NEW x \in U
      PROVE  Earlier(s, x) \in W /\ Later(s, Earlier(s, x)) = x /\ (x[1] = "cache" => Earlier(s, x) = x)
    <2>1. ASSUME NEW t \in Thread, Caches(t, v), x = <<"cache", t, 0>>
          PROVE  Earlier(s, x) \in W /\ Later(s, Earlier(s, x)) = x
        <3>1. Earlier(s, x) = x /\ Later(s, x) = x
            BY <2>1 DEF Earlier, Later
        <3>2. Caches(t, v)'
            BY <2>1
        <3> QED BY <1>2, <1>4, <2>1, <3>1, <3>2
    <2>2. ASSUME NEW t \in Thread, Gives(t, v), x = <<"event", t, 0>>
          PROVE  Earlier(s, x) \in W /\ Later(s, Earlier(s, x)) = x
        <3>1. Earlier(s, x) = x /\ Later(s, x) = x
            BY <2>2 DEF Earlier, Later
        <3>2. Gives(t, v)'
            BY <2>2
        <3> QED BY <1>2, <1>4, <2>2, <3>1, <3>2
    <2>3. ASSUME NEW r \in Subscriber, NEW i \in Nat, Waits(r, i, v), x = <<"posted", r, i>>
          PROVE  Earlier(s, x) \in W /\ Later(s, Earlier(s, x)) = x
        <3>1. CASE r # s
            <4>1. Earlier(s, x) = x /\ Later(s, x) = x
                BY <2>3, <3>1 DEF Earlier, Later
            <4>2. Waits(r, i, v)'
                BY <2>3, <3>1
            <4> QED BY <1>2, <1>4, <2>3, <4>1, <4>2
        <3>2. CASE r = s
            <4>1. i > 0 /\ i # 1
                BY <1>3, <1>5, <2>3, <3>2
            <4>2. PICK j \in Nat : j = i - 1 /\ j > 0 /\ i = j + 1
                BY <4>1
            <4>3. Earlier(s, x) = <<"posted", s, j>> /\ Later(s, <<"posted", s, j>>) = x
                BY <2>3, <3>2, <4>2 DEF Earlier, Later
            <4>4. Waits(s, j, v)'
                BY <2>3, <3>2, <4>2
            <4> QED BY <1>2, <1>4, <4>3, <4>4
        <3> QED BY <3>1, <3>2
    <2>4. x[1] = "cache" => Earlier(s, x) = x
        BY DEF Earlier
    <2> QED BY <1>1, <1>3, <2>1, <2>2, <2>3, <2>4, Zenon
<1>7. ASSUME NEW y \in W
      PROVE  \E x \in U : Earlier(s, x) = y
    <2>1. ASSUME NEW t \in Thread, Caches(t, v)', y = <<"cache", t, 0>>
          PROVE  y \in U /\ Earlier(s, y) = y
        BY <1>1, <1>3, <2>1 DEF Earlier
    <2>2. ASSUME NEW t \in Thread, Gives(t, v)', y = <<"event", t, 0>>
          PROVE  y \in U /\ Earlier(s, y) = y
        BY <1>1, <1>3, <2>2 DEF Earlier
    <2>3. ASSUME NEW r \in Subscriber, NEW i \in Nat, Waits(r, i, v)', y = <<"posted", r, i>>
          PROVE  \E x \in U : Earlier(s, x) = y
        <3>1. CASE r # s
            <4>1. Waits(r, i, v)
                BY <2>3, <3>1
            <4>2. y \in U
                BY <1>1, <1>3, <2>3, <3>1, <4>1
            <4>3. Earlier(s, y) = y
                BY <2>3, <3>1 DEF Earlier
            <4> QED BY <4>2, <4>3
        <3>2. CASE r = s
            <4>1. i > 0 /\ Waits(s, i + 1, v)
                BY <2>3, <3>2
            <4>2. PICK x : x = <<"posted", s, i + 1>>
                OBVIOUS
            <4>3. x \in Users(v)
                BY <1>1, <4>1, <4>2
            <4>4. x # <<"posted", s, 1>> /\ Earlier(s, x) = y
                BY <2>3, <3>2, <4>1, <4>2 DEF Earlier
            <4> QED BY <1>3, <4>3, <4>4
        <3> QED BY <3>1, <3>2
    <2> QED BY <1>2, <1>4, <2>1, <2>2, <2>3, Zenon
<1>8. PICK f : f = [x \in U |-> Earlier(s, x)]
    OBVIOUS
<1>9. \A x \in U : f[x] = Earlier(s, x)
    BY <1>8
<1>10. f \in [U -> W]
    BY <1>6, <1>8
<1>11. ASSUME NEW x \in U, NEW y \in U, f[x] = f[y]
       PROVE  x = y
    <2>1. Earlier(s, x) = Earlier(s, y)
        BY <1>9, <1>11
    <2>2. x = Later(s, Earlier(s, x)) /\ y = Later(s, Earlier(s, y))
        BY <1>6, Zenon
    <2> QED BY <2>1, <2>2
<1>12. \A y \in W : \E x \in U : f[x] = y
    BY <1>7, <1>9, Zenon
<1>13. f \in Bijection(U, W)
    BY <1>10, <1>11, <1>12 DEF Bijection, Injection, Surjection, IsInjective
<1> QED BY <1>3, <1>4, <1>6, <1>9, <1>13

\* A dispatcher handles an event, and gives its value up.
LEMMA HandleEventShares ==
    ASSUME AlignTyped, AlignTyped', Unshared, Counts, NEW s \in Subscriber, HandleEvent(s),
           fault = "none", fault' = "none"
    PROVE  Unshared' /\ Counts'
<1>1. UNCHANGED <<pc, alignQueue, cache, event, sync>>
    BY DEF HandleEvent, localVars, alignVars
<1>2. Unshared'
    BY <1>1 DEF Unshared
<1>3. \A v, u : (Gives(u, v)' <=> Gives(u, v)) /\ (Caches(u, v)' <=> Caches(u, v))
    BY <1>1 DEF Gives, Caches
<1>4. PICK q \in Seq(Events) : q = posted[s]
    BY DEF AlignTyped, SubscribersTyped
<1>5. q # <<>> /\ posted' = [posted EXCEPT ![s] = Tail(q)] /\ Drop({Head(q).value} \ {0})
    BY <1>4 DEF HandleEvent
<1>6. PICK n \in Nat : n = Len(q)
    OBVIOUS
<1>7. /\ n > 0 /\ Head(q) = q[1] /\ Len(Tail(q)) = n - 1
      /\ \A i \in 1..n - 1 : Tail(q)[i] = q[i + 1]
    BY <1>4, <1>5, <1>6, HeadAndTail
<1>8. posted'[s] = Tail(q) /\ \A r \in Subscriber : r # s => posted'[r] = posted[r]
    BY <1>5 DEF AlignTyped, SubscribersTyped
<1>9. \A v, r, i : r \in Subscriber /\ r # s => (Waits(r, i, v)' <=> Waits(r, i, v))
    BY <1>8 DEF Waits
<1>10. ASSUME NEW v, NEW i \in Nat
       PROVE  Waits(s, i, v)' <=> i > 0 /\ Waits(s, i + 1, v)
    <2>1. Waits(s, i, v)' <=> i \in 1..n - 1 /\ Tail(q)[i].value = v
        BY <1>7, <1>8 DEF Waits
    <2>2. Waits(s, i + 1, v) <=> i + 1 \in 1..n /\ q[i + 1].value = v
        BY <1>4, <1>6 DEF Waits
    <2>3. i \in 1..n - 1 <=> i > 0 /\ i + 1 \in 1..n
        OBVIOUS
    <2> QED BY <1>7, <2>1, <2>2, <2>3
<1>11. PICK w : w = q[1].value
    OBVIOUS
<1>12. \A v : Waits(s, 1, v) <=> v = w
    BY <1>4, <1>6, <1>7, <1>11 DEF Waits
<1>13. ASSUME NEW v \in ValueId
       PROVE  IsExact(Users(v), shared[v], mem[v])'
    <2>1. PICK x : x = <<"posted", s, 1>>
        OBVIOUS
    <2>2. PICK f \in Bijection(Users(v) \ {x}, Users(v)') :
              \A y \in Users(v) \ {x} : y[1] = "cache" => f[y] = y
        BY <1>2, <1>3, <1>9, <1>10, <2>1, Renumbered
    <2>3. \A y : y \in Users(v) <=>
              \/ \E u \in Thread : Caches(u, v) /\ y = <<"cache", u, 0>>
              \/ \E u \in Thread : Gives(u, v) /\ y = <<"event", u, 0>>
              \/ \E r \in Subscriber, i \in Nat : Waits(r, i, v) /\ y = <<"posted", r, i>>
        BY UsersAre
    <2>4. x \in Users(v) <=> v = w
        BY <1>12, <2>1, <2>3
    <2>5. IsExact(Users(v), shared[v], mem[v])
        BY DEF Counts
    <2>6. v \in {Head(q).value} \ {0} <=> v = w
        BY <1>7, <1>11 DEF ValueId
    <2>7. IsExact(Users(v) \ {x}, shared'[v], mem'[v])
        <3>1. CASE v = w
            <4>1. /\ shared'[v] = DroppedCount(shared[v]) /\ mem'[v] = DroppedMem(shared[v], mem[v])
                  /\ mem[v] # "borrowed" \/ shared[v] \notin {-1, 1}
                BY <1>5, <2>6, <3>1, DropSteps
            <4>2. IsExact(Users(v) \ {x}, DroppedCount(shared[v]), DroppedMem(shared[v], mem[v]))
                BY <2>4, <2>5, <3>1, <4>1, DropIsExact
            <4> QED BY <4>1, <4>2
        <3>2. CASE v # w
            <4>1. shared'[v] = shared[v] /\ mem'[v] = mem[v]
                BY <1>5, <2>6, <3>2, DropSteps
            <4>2. Users(v) \ {x} = Users(v)
                BY <2>4, <3>2
            <4> QED BY <2>5, <4>1, <4>2
        <3> QED BY <3>1, <3>2
    <2> QED BY <2>2, <2>7, ShiftIsExact
<1> QED BY <1>2, <1>13 DEF Counts

\* An event that waited for the end of the alignment has no value to give up.
LEMMA FlushShares ==
    ASSUME AlignTyped, AlignTyped', Unshared, Counts, NEW t \in Thread, Flush(t),
           fault = "none", fault' = "none"
    PROVE  Unshared' /\ Counts'
<1>1. PICK s \in Subscriber : s = Sub(t)
    BY ConfigTyped
<1>2. PICK q \in Seq(Events) : q = alignQueue[s]
    BY DEF AlignTyped, SubscribersTyped
<1>3. PICK ev : ev = Head(q)
    OBVIOUS
<1>4. q # <<>> /\ UNCHANGED pc /\ alignQueue' = [alignQueue EXCEPT ![s] = Tail(q)]
    BY <1>1, <1>2 DEF Flush, MustFlush
<1>5. /\ Len(q) \in Nat /\ Len(q) > 0 /\ ev = q[1] /\ ev \in Events
      /\ \A i \in 1..Len(Tail(q)) : i + 1 \in 1..Len(q) /\ Tail(q)[i] = q[i + 1]
    BY <1>3, <1>4, HeadAndTail
<1>6. \A i \in 1..Len(q) : q[i].value = 0
    BY <1>2 DEF Unshared
<1>7. Unshared'
    BY <1>4, <1>5, <1>6 DEF Unshared, AlignTyped, SubscribersTyped
<1>8. ev.value = 0
    BY <1>5, <1>6
<1>9. UNCHANGED <<cache, event, sync>>
    BY DEF Flush, localVars
<1>10. CASE HasDispatcher(s)
    <2>1. posted' = [posted EXCEPT ![s] = Append(@, ev)] /\ UNCHANGED valueVars
        BY <1>1, <1>2, <1>3, <1>10 DEF Flush
    <2>2. PICK p \in Seq(Events) : p = posted[s]
        BY DEF AlignTyped, SubscribersTyped
    <2>3. PICK n \in Nat : n = Len(p)
        OBVIOUS
    <2>4. /\ posted'[s] = Append(p, ev) /\ Len(Append(p, ev)) = n + 1 /\ Append(p, ev)[n + 1] = ev
          /\ \A i \in 1..n : Append(p, ev)[i] = p[i]
          /\ \A r \in Subscriber : r # s => posted'[r] = posted[r]
        BY <1>5, <2>1, <2>2, <2>3, Appended DEF AlignTyped, SubscribersTyped
    <2>5. \A v \in ValueId, i \in Nat : Waits(s, i, v)' <=> Waits(s, i, v)
        BY <1>8, <2>2, <2>3, <2>4 DEF Waits, ValueId
    <2>6. \A v \in ValueId, r \in Subscriber, i \in Nat : r # s => (Waits(r, i, v)' <=> Waits(r, i, v))
        BY <2>4 DEF Waits
    <2>7. \A v \in ValueId, r \in Subscriber, i \in Nat : Waits(r, i, v)' <=> Waits(r, i, v)
        BY <2>5, <2>6
    <2> QED BY <1>4, <1>7, <1>9, <2>1, <2>7, RestShares
<1>11. CASE ~HasDispatcher(s)
    <2>1. posted' = posted /\ Drop({ev.value} \ {0})
        BY <1>1, <1>2, <1>3, <1>11 DEF Flush
    <2>2. \A v \in ValueId : shared'[v] = shared[v] /\ mem'[v] = mem[v]
        BY <1>8, <2>1, DropSteps
    <2>3. shared' = shared /\ mem' = mem
        BY <2>2 DEF AlignTyped, ValuesTyped
    <2>4. \A v \in ValueId, r \in Subscriber, i \in Nat : Waits(r, i, v)' <=> Waits(r, i, v)
        BY <2>1 DEF Waits
    <2>5. UNCHANGED valueVars
        BY <2>3 DEF valueVars
    <2> QED BY <1>4, <1>7, <1>9, <2>4, <2>5, RestShares
<1> QED BY <1>10, <1>11

LEMMA InitIsShared == Init => SharedInv
<1> SUFFICES ASSUME Init PROVE Unshared /\ Counts
    BY DEF SharedInv
<1>1. PICK s \in Setup : SubscriberInit(s.program)
    BY DEF Init
<1>2. AlignTyped
    BY InitIsTyped
<1>3. Unshared
    BY <1>1 DEF SubscriberInit, Unshared
<1>4. ASSUME NEW v \in ValueId
      PROVE  IsExact(Users(v), shared[v], mem[v])
    <2>1. \A t \in Thread : ~Caches(t, v) /\ ~Gives(t, v)
        BY <1>1 DEF SubscriberInit, Caches, Gives
    <2>2. \A r \in Subscriber, i \in Nat : ~Waits(r, i, v)
        BY <1>1 DEF SubscriberInit, Waits
    <2>3. \A x : x \in Users(v) <=>
              \/ \E t \in Thread : Caches(t, v) /\ x = <<"cache", t, 0>>
              \/ \E t \in Thread : Gives(t, v) /\ x = <<"event", t, 0>>
              \/ \E r \in Subscriber, i \in Nat : Waits(r, i, v) /\ x = <<"posted", r, i>>
        BY <1>2, <1>3, UsersAre
    <2>4. \A x : x \notin Users(v)
        BY <2>1, <2>2, <2>3, Zenon
    <2>5. Users(v) = {}
        BY <2>4
    <2>6. shared[v] = -1 /\ mem[v] = "unused"
        BY <1>1 DEF SubscriberInit
    <2> QED BY <2>5, <2>6, FS_EmptySet DEF IsExact
<1> QED BY <1>3, <1>4 DEF Counts

LEMMA StepKeepsShares ==
    ASSUME OrderInv, OrderInv', SharedInv, [Next]_vars
    PROVE  SharedInv'
<1> SUFFICES ASSUME fault' = "none" PROVE Unshared' /\ Counts'
    BY DEF SharedInv
<1>1. AlignTyped /\ AlignTyped' /\ Locks
    BY DEF OrderInv
<1>2. fault = "none"
    BY DEF Next, vars, subscriberVars
<1>3. Unshared /\ Counts
    BY <1>2 DEF SharedInv
<1>4. CASE UNCHANGED subscriberVars
    <2>1. UNCHANGED <<pc, cache, event, sync, valueVars, alignQueue, posted>>
        BY <1>4 DEF subscriberVars, localVars, alignVars
    <2>2. Unshared'
        BY <1>3, <2>1 DEF Unshared
    <2>3. \A v \in ValueId, r \in Subscriber, i \in Nat : Waits(r, i, v)' <=> Waits(r, i, v)
        BY <2>1 DEF Waits
    <2> QED BY <1>1, <1>3, <2>1, <2>2, <2>3, RestShares
<1>5. ASSUME NEW s \in Subscriber, HandleEvent(s)
      PROVE  Unshared' /\ Counts'
    BY <1>1, <1>2, <1>3, <1>5, HandleEventShares
<1>6. ASSUME NEW t \in Thread, NEW k \in Key, Changes(t, k)
      PROVE  Unshared' /\ Counts'
    <2>1. PICK f \in Format \cup {NoFormat}, b \in BOOLEAN : Change(t, k, b, f)
        BY <1>1, <1>6, ChangeSteps
    <2> QED BY <1>1, <1>3, <2>1, ChangeShares
<1>7. ASSUME NEW t \in Thread, SubscriberGoOn(t)
      PROVE  Unshared' /\ Counts'
    <2>1. CASE Walk(t) \/ LockAlign(t) \/ AlignBegin(t) \/ AlignEnd(t) \/ FlushEnd(t)
        BY <1>1, <1>3, <2>1, OthersShare
    <2>2. CASE Invoke(t)
        BY <1>1, <1>3, <2>2, InvokeShares
    <2>3. CASE Deliver(t)
        BY <1>1, <1>2, <1>3, <2>3, DeliverShares
    <2>4. CASE NotifyEnd(t)
        BY <1>1, <1>2, <1>3, <2>4, NotifyEndShares
    <2>5. CASE AlignObject(t)
        BY <1>1, <1>3, <2>5, AlignObjectShares
    <2>6. CASE Flush(t)
        BY <1>1, <1>2, <1>3, <2>6, FlushShares
    <2> QED BY <1>7, <2>1, <2>2, <2>3, <2>4, <2>5, <2>6, Zenon DEF SubscriberGoOn
<1>8. ASSUME NEW t \in Thread,
             Told(t) \/ \E e \in Entity : Subscribe(t, e) \/ Unsubscribe(t, e)
      PROVE  Unshared' /\ Counts'
    BY <1>1, <1>3, <1>8, OthersShare
<1>9. ASSUME NEW t \in Thread, ThreadDoes(t)
      PROVE  Unshared' /\ Counts'
    BY <1>6, <1>7, <1>8, <1>9, Zenon DEF ThreadDoes
<1> QED BY <1>4, <1>5, <1>9, NextCases, Zenon

\* The count of a value that is shared by events of several subscribers is the number of its users,
\* as long as nothing went wrong: a value that somebody uses is not freed, and the last one to use it
\* frees it (corto_fmtcache_serialize, corto_fmt_data_deinit, corto_subscriber_invoke).
THEOREM ValuesAreShared == Spec => []SharedIsExact
<1>1. Init => SharedInv
    BY InitIsShared
<1>2. OrderInv /\ OrderInv' /\ SharedInv /\ [Next]_vars => SharedInv'
    BY StepKeepsShares
<1>3. OrderInv /\ SharedInv => SharedIsExact
    <2> SUFFICES ASSUME OrderInv, SharedInv, fault = "none", NEW v \in ValueId
                 PROVE  /\ shared[v] >= 0 => shared[v] = Cardinality(Users(v))
                        /\ mem[v] = "live" <=> Users(v) # {} /\ mem[v] # "borrowed"
        BY DEF SharedIsExact
    <2>1. IsExact(Users(v), shared[v], mem[v])
        BY DEF SharedInv, Counts
    <2>2. mem[v] \in {"unused", "live", "borrowed", "freed"}
        BY DEF OrderInv, AlignTyped, ValuesTyped
    <2> QED BY <2>1, <2>2 DEF IsExact
<1> QED BY <1>1, <1>2, <1>3, SubscribersAreInOrder, PTL DEF Spec

(***************************************************************************)
(* An aligned subscriber has the present state                             *)
(***************************************************************************)
\* Programs in which a subscriber is told of all that it has to know: no entity is skipped as
\* the source of a change, the objects that are published are others than those in the store,
\* and nothing is deleted while a subscriber is away.
Changed(k) == \E t \in Thread : k \in program.changes[t]
Unsourced == \A t, u \in Thread : \A e \in program.subscribes[u] :
                 program.changes[t] = {} \/ e[2] = NoInstance \/ e[2] # program.source[t]
Disjoint == \A t \in Thread : \A k \in program.publishes[t] : ~Changed(k)
Remembered == ~program.deletes \/ ~program.unsubscribes
Followed == Unsourced /\ Disjoint /\ Remembered

\* Object k is in the store and is not being deleted.
InStore(k) == k \in bound /\ \A u \in Notifying : event[u].key = k => event[u].exists

\* The last event about object k that subscriber s is given: the last one of its align queue, or else
\* of its dispatcher, or else the one that it handled.
EventsAbout(q, k) == {i \in 1..Len(q) : q[i].key = k}
LastAbout(q, k) == {q[i] : i \in {j \in EventsAbout(q, k) : \A m \in EventsAbout(q, k) : m <= j}}
LastOf(f, p, q, k) == IF EventsAbout(q, k) # {} THEN LastAbout(q, k)
                      ELSE IF EventsAbout(p, k) # {} THEN LastAbout(p, k)
                      ELSE {f[k]}
Final(s, k) == LastOf(seen[s], posted[s], alignQueue[s], k)

\* Thread u is going to notify subscriber s, and of object k.
Notifies(u, s) == (\E e \in todo[u] : e[1] = s) \/ (pc[u] \in {"lock", "invoke", "deliver"} /\ Sub(u) = s)
Reached(s, k) == \E u \in Notifying : event[u].key = k /\ Notifies(u, s)

\* Thread t is in corto_subscriber_subscribe; subscriber s is aligned with object k.
Enrolled(t) == pc[t] \in {"align", "mounts", "aligning", "flush"}
Covered(s, k) ==
    \/ s \in aligned
    \/ \E t \in Thread : Aligns(t, s) /\ (pc[t] = "flush" \/ (pc[t] = "aligning" /\ k \notin todo[t]))

Members ==
    /\ registered \subseteq UNION {program.subscribes[t] : t \in Thread}
    /\ \A s \in aligned : \E e \in registered : e[1] = s
    /\ \A t \in Thread : Enrolled(t) => current[t] \in registered
    /\ \A t \in Thread : pc[t] = "mounts" => todo[t] = Config(Sub(t)).keys

\* One notification goes on about an object whose last change overlaps with no other, with its
\* present version; an object that is notified to exist is in the store, unless it is deleted
\* meanwhile.
Single ==
    /\ \A t, u \in Notifying : event[t].key = event[u].key /\ event[t].key \in alone => t = u
    /\ \A u \in Notifying :
        LET k == event[u].key IN
        /\ k \in alone => event[u].version = version[k]
        /\ event[u].exists /\ Changed(k) /\ (k \in alone \/ ~program.deletes) => k \in bound
        /\ ~event[u].exists => program.deletes

\* A change that is notified during an alignment reaches the subscriber after it.
StillToCome == \A t \in Thread, u \in Notifying :
    pc[t] \in {"mounts", "aligning", "flush"} /\ Sub(t) \notin raced /\ event[u].key \in Config(Sub(t)).keys
        /\ Changed(event[u].key) => Notifies(u, Sub(t))

\* Who subscribes for good is aligned, or about to be, and only such are notified.
Announced == \A u \in Notifying : todo[u] \subseteq registered /\ (pc[u] # "walk" => current[u] \in registered)
Heard == \A e \in registered : e[1] \in aligned \/ \E t \in Thread : Enrolled(t) /\ Sub(t) = e[1]
Stays == ~program.unsubscribes => Announced /\ Heard

\* A subscriber that is aligned with an object has its present state, or is being notified of
\* it, when the last change overlaps with no other.  Before that it has seen nothing of the
\* object, if it subscribes for good; and if nothing is deleted, what it has seen is there.
UpToDate(s, k) == \A ev \in Final(s, k) :
    (ev.exists <=> InStore(k)) /\ (ev.exists => ev.version = version[k])
Unaware(s, k) == \A ev \in Final(s, k) : ~ev.exists
Present(s, k) == \A ev \in Final(s, k) : ev.exists => k \in bound
Informed(s, k) ==
    /\ Covered(s, k) /\ k \in alone => Reached(s, k) \/ UpToDate(s, k)
    /\ ~Covered(s, k) /\ ~program.unsubscribes => Unaware(s, k)
    /\ ~program.deletes => Present(s, k)
Follows == \A s \in Subscriber \ raced : \A k \in Config(s).keys : Changed(k) => Informed(s, k)

FollowParts == Members /\ Single /\ StillToCome /\ Stays /\ Follows
FollowInv == Followed => FollowParts

(***************************************************************************)
(* The last event about an object                                          *)
(***************************************************************************)
\* An event is appended: it is the last one about its object.
Appends(r, q, ev) == r = Append(q, ev)
LEMMA LastOfAppend ==
    ASSUME NEW q \in Seq(Events), NEW ev \in Events, NEW k, NEW r, Appends(r, q, ev)
    PROVE  /\ ev.key = k => EventsAbout(r, k) # {} /\ LastAbout(r, k) \subseteq {ev}
           /\ ev.key # k => EventsAbout(r, k) = EventsAbout(q, k) /\ LastAbout(r, k) = LastAbout(q, k)
<1>1. r \in Seq(Events) /\ r = Append(q, ev)
    BY Appended DEF Appends
<1>2. PICK n \in Nat : n = Len(q)
    OBVIOUS
<1>3. Len(r) = n + 1 /\ r[n + 1] = ev /\ \A i \in 1..n : r[i] = q[i]
    BY <1>1, <1>2, Appended
<1>4. CASE ev.key = k
    <2>1. n + 1 \in EventsAbout(r, k)
        BY <1>3, <1>4 DEF EventsAbout
    <2>2. ASSUME NEW i \in EventsAbout(r, k), \A m \in EventsAbout(r, k) : m <= i
          PROVE  r[i] = ev
        <3>1. i \in 1..n + 1 /\ n + 1 <= i
            BY <1>3, <2>1, <2>2 DEF EventsAbout
        <3>2. i = n + 1
            BY <3>1
        <3> QED BY <1>3, <3>2
    <2>3. LastAbout(r, k) \subseteq {ev}
        BY <2>2 DEF LastAbout
    <2> QED BY <1>4, <2>1, <2>3
<1>5. CASE ev.key # k
    <2>1. \A i \in 1..n + 1 : i = n + 1 \/ i \in 1..n
        OBVIOUS
    <2>2. \A i \in 1..n : i \in 1..n + 1
        OBVIOUS
    <2>3. EventsAbout(r, k) = EventsAbout(q, k) /\ \A i \in EventsAbout(q, k) : i \in 1..n
        BY <1>2, <1>3, <1>5, <2>1, <2>2 DEF EventsAbout
    <2>4. \A i \in EventsAbout(q, k) : r[i] = q[i]
        BY <1>3, <2>3
    <2>5. LastAbout(r, k) = LastAbout(q, k)
        BY <2>3, <2>4, Zenon DEF LastAbout
    <2> QED BY <1>5, <2>3, <2>5
<1> QED BY <1>4, <1>5

\* The first event is taken out: the others about its object stay.
LEMMA LastOfTail ==
    ASSUME NEW q \in Seq(Events), q # <<>>, NEW k
    PROVE  /\ EventsAbout(Tail(q), k) # {} => /\ EventsAbout(q, k) # {}
                                              /\ LastAbout(Tail(q), k) \subseteq LastAbout(q, k)
           /\ EventsAbout(Tail(q), k) = {} /\ Head(q).key = k =>
                 EventsAbout(q, k) # {} /\ Head(q) \in LastAbout(q, k)
           /\ EventsAbout(Tail(q), k) = {} /\ Head(q).key # k => EventsAbout(q, k) = {}
<1>1. PICK r \in Seq(Events) : r = Tail(q)
    BY HeadAndTail
<1>2. PICK n \in Nat : n = Len(r)
    OBVIOUS
<1>3. Len(q) = n + 1 /\ Head(q) = q[1] /\ \A i \in 1..n : r[i] = q[i + 1]
    BY <1>1, <1>2, HeadAndTail
<1>4. \A i \in 1..n + 1 : i = 1 \/ (i - 1 \in 1..n /\ r[i - 1] = q[i])
    <2>1. \A i \in 1..n + 1 : i = 1 \/ (i - 1 \in 1..n /\ (i - 1) + 1 = i)
        OBVIOUS
    <2> QED BY <1>3, <2>1
<1>5. \A i \in EventsAbout(r, k) : i + 1 \in EventsAbout(q, k)
    <2>1. \A i \in 1..n : i + 1 \in 1..n + 1
        OBVIOUS
    <2> QED BY <1>2, <1>3, <2>1 DEF EventsAbout
<1>6. \A i \in EventsAbout(q, k) : i = 1 \/ i - 1 \in EventsAbout(r, k)
    BY <1>2, <1>3, <1>4 DEF EventsAbout
<1>7. ASSUME EventsAbout(r, k) # {}
      PROVE  EventsAbout(q, k) # {} /\ LastAbout(r, k) \subseteq LastAbout(q, k)
    <2>1. ASSUME NEW i \in EventsAbout(r, k), \A m \in EventsAbout(r, k) : m <= i
          PROVE  r[i] \in LastAbout(q, k)
        <3>1. i \in 1..n /\ i + 1 \in EventsAbout(q, k) /\ r[i] = q[i + 1]
            BY <1>2, <1>3, <1>5 DEF EventsAbout
        <3>2. ASSUME NEW m \in EventsAbout(q, k) PROVE m <= i + 1
            <4>1. m \in 1..n + 1
                BY <1>3 DEF EventsAbout
            <4>2. m = 1 \/ m - 1 <= i
                BY <1>6, <2>1
            <4> QED BY <3>1, <4>1, <4>2
        <3> QED BY <3>1, <3>2 DEF LastAbout
    <2> QED BY <1>5, <1>7, <2>1 DEF LastAbout
<1>8. ASSUME EventsAbout(r, k) = {}, Head(q).key = k
      PROVE  EventsAbout(q, k) # {} /\ Head(q) \in LastAbout(q, k)
    <2>1. 1 \in EventsAbout(q, k)
        BY <1>3, <1>8 DEF EventsAbout
    <2>2. \A m \in EventsAbout(q, k) : m <= 1
        BY <1>6, <1>8
    <2> QED BY <1>3, <2>1, <2>2 DEF LastAbout
<1>9. ASSUME EventsAbout(r, k) = {}, Head(q).key # k
      PROVE  EventsAbout(q, k) = {}
    <2>1. 1 \notin EventsAbout(q, k)
        BY <1>3, <1>9 DEF EventsAbout
    <2> QED BY <1>6, <1>9, <2>1
<1> QED BY <1>1, <1>7, <1>8, <1>9

\* An event of an alignment replaces those about its object.
LEMMA LastOfAdd ==
    ASSUME NEW q \in Seq(Events), NEW ev \in Events, NEW k
    PROVE  LET r == AddToAlignQueue(q, ev)
           IN  /\ ev.key = k => EventsAbout(r, k) # {} /\ LastAbout(r, k) \subseteq {ev}
               /\ ev.key # k => EventsAbout(r, k) = EventsAbout(q, k) /\ LastAbout(r, k) = LastAbout(q, k)
<1>0. DOMAIN q = 1..Len(q) /\ Len(q) \in Nat
    OBVIOUS
<1>1. CASE SameKey(q, ev) = {}
    <2>1. PICK r : Appends(r, q, ev)
        BY DEF Appends
    <2>2. AddToAlignQueue(q, ev) = r
        BY <1>1, <2>1 DEF AddToAlignQueue, Appends
    <2>3. /\ ev.key = k => EventsAbout(r, k) # {} /\ LastAbout(r, k) \subseteq {ev}
          /\ ev.key # k => EventsAbout(r, k) = EventsAbout(q, k) /\ LastAbout(r, k) = LastAbout(q, k)
        BY <2>1, LastOfAppend
    <2> QED BY <2>2, <2>3
<1>2. CASE SameKey(q, ev) # {}
    <2>1. PICK r : r = [i \in 1..Len(q) |-> IF i \in SameKey(q, ev) THEN ev ELSE q[i]]
        OBVIOUS
    <2>2. AddToAlignQueue(q, ev) = r
        BY <1>0, <1>2, <2>1 DEF AddToAlignQueue
    <2>3. Len(r) = Len(q)
        BY <1>0, <2>1
    <2>4. \A i \in 1..Len(q) : IF q[i].key = ev.key THEN r[i] = ev ELSE r[i] = q[i]
        BY <1>0, <2>1 DEF SameKey
    <2>5. EventsAbout(r, k) = EventsAbout(q, k) /\ \A i \in EventsAbout(q, k) : i \in 1..Len(q)
        BY <2>3, <2>4 DEF EventsAbout
    <2>6. CASE ev.key = k
        <3>1. \A i \in EventsAbout(q, k) : r[i] = ev
            BY <2>4, <2>6 DEF EventsAbout
        <3>2. LastAbout(r, k) \subseteq {ev}
            BY <2>5, <3>1 DEF LastAbout
        <3>3. EventsAbout(q, k) # {}
            BY <1>0, <1>2, <2>6 DEF EventsAbout, SameKey
        <3> QED BY <2>2, <2>5, <2>6, <3>2, <3>3
    <2>7. CASE ev.key # k
        <3>1. \A i \in EventsAbout(q, k) : r[i] = q[i]
            BY <2>4, <2>7 DEF EventsAbout
        <3>2. LastAbout(r, k) = LastAbout(q, k)
            BY <2>5, <3>1, Zenon DEF LastAbout
        <3> QED BY <2>2, <2>5, <2>7, <3>2
    <2> QED BY <2>6, <2>7
<1> QED BY <1>1, <1>2

\* The first event of the dispatcher is handled.
LEMMA LastOfHandled ==
    ASSUME NEW f \in [Key -> Events], NEW p \in Seq(Events), NEW q \in Seq(Events), p # <<>>, NEW k \in Key
    PROVE  LastOf([f EXCEPT ![Head(p).key] = Head(p)], Tail(p), q, k) \subseteq LastOf(f, p, q, k)
<1>1. PICK ev \in Events : ev = Head(p)
    BY HeadAndTail
<1>2. PICK g : g = [f EXCEPT ![ev.key] = ev]
    OBVIOUS
<1>3. g[k] = IF k = ev.key THEN ev ELSE f[k]
    BY <1>2
<1>4. /\ EventsAbout(Tail(p), k) # {} => /\ EventsAbout(p, k) # {}
                                         /\ LastAbout(Tail(p), k) \subseteq LastAbout(p, k)
      /\ EventsAbout(Tail(p), k) = {} /\ ev.key = k =>
            EventsAbout(p, k) # {} /\ ev \in LastAbout(p, k)
      /\ EventsAbout(Tail(p), k) = {} /\ ev.key # k => EventsAbout(p, k) = {}
    BY <1>1, LastOfTail
<1>5. LastOf(g, Tail(p), q, k) \subseteq LastOf(f, p, q, k)
    BY <1>3, <1>4 DEF LastOf
<1> QED BY <1>1, <1>2, <1>5

\* The first event of the align queue is given to the dispatcher, or is handled when there is none.
LEMMA LastOfMoved ==
    ASSUME NEW f, NEW p \in Seq(Events), NEW q \in Seq(Events), q # <<>>, NEW k
    PROVE  LastOf(f, Append(p, Head(q)), Tail(q), k) \subseteq LastOf(f, p, q, k)
<1>1. PICK ev \in Events : ev = Head(q)
    BY HeadAndTail
<1>2. /\ EventsAbout(Tail(q), k) # {} => /\ EventsAbout(q, k) # {}
                                         /\ LastAbout(Tail(q), k) \subseteq LastAbout(q, k)
      /\ EventsAbout(Tail(q), k) = {} /\ ev.key = k =>
            EventsAbout(q, k) # {} /\ ev \in LastAbout(q, k)
      /\ EventsAbout(Tail(q), k) = {} /\ ev.key # k => EventsAbout(q, k) = {}
    BY <1>1, LastOfTail
<1>3. PICK r : Appends(r, p, ev)
    BY DEF Appends
<1>4. /\ ev.key = k => EventsAbout(r, k) # {} /\ LastAbout(r, k) \subseteq {ev}
      /\ ev.key # k => EventsAbout(r, k) = EventsAbout(p, k) /\ LastAbout(r, k) = LastAbout(p, k)
    BY <1>3, LastOfAppend
<1>5. LastOf(f, r, Tail(q), k) \subseteq LastOf(f, p, q, k)
    BY <1>2, <1>4 DEF LastOf
<1> QED BY <1>1, <1>3, <1>5 DEF Appends

\* The first event of the align queue is handled at once, when there is no dispatcher.
LEMMA LastOfFlushed ==
    ASSUME NEW f \in [Key -> Events], NEW q \in Seq(Events), q # <<>>, NEW k \in Key
    PROVE  LastOf([f EXCEPT ![Head(q).key] = Head(q)], <<>>, Tail(q), k) \subseteq LastOf(f, <<>>, q, k)
<1>1. PICK ev \in Events : ev = Head(q)
    BY HeadAndTail
<1>2. PICK g : g = [f EXCEPT ![ev.key] = ev]
    OBVIOUS
<1>3. g[k] = IF k = ev.key THEN ev ELSE f[k]
    BY <1>2
<1>4. /\ EventsAbout(Tail(q), k) # {} => /\ EventsAbout(q, k) # {}
                                         /\ LastAbout(Tail(q), k) \subseteq LastAbout(q, k)
      /\ EventsAbout(Tail(q), k) = {} /\ ev.key = k =>
            EventsAbout(q, k) # {} /\ ev \in LastAbout(q, k)
      /\ EventsAbout(Tail(q), k) = {} /\ ev.key # k => EventsAbout(q, k) = {}
    BY <1>1, LastOfTail
<1>5. EventsAbout(<<>>, k) = {}
    BY DEF EventsAbout
<1>6. LastOf(g, <<>>, Tail(q), k) \subseteq LastOf(f, <<>>, q, k)
    BY <1>3, <1>4, <1>5 DEF LastOf
<1> QED BY <1>1, <1>2, <1>6

(***************************************************************************)
(* What the steps have in common                                           *)
(***************************************************************************)
\* The other threads stay where they are.
OthersRest(t) == \A x \in Thread : x # t =>
    pc'[x] = pc[x] /\ current'[x] = current[x] /\ todo'[x] = todo[x]

\* Thread t notifies, and changes nothing about who is subscribed.
NotifierMoves(t) ==
    /\ OthersRest(t) /\ ~Enrolled(t) /\ ~Enrolled(t)'
    /\ program' = program /\ registered' = registered /\ aligned' = aligned

\* Thread t subscribes or unsubscribes, and changes nothing about what is notified.
AlignerMoves(t) ==
    /\ OthersRest(t) /\ t \notin Notifying /\ pc'[t] \notin {"walk", "lock", "invoke", "deliver"}
    /\ program' = program /\ event' = event /\ bound' = bound /\ version' = version /\ alone' = alone
    /\ raced \subseteq raced'

\* The program is fixed.
LEMMA ProgramSame ==
    ASSUME program' = program
    PROVE  /\ \A s : Config(s)' = Config(s)
           /\ \A k : Changed(k)' <=> Changed(k)
           /\ Followed' <=> Followed
BY DEF Config, Changed, Followed, Unsourced, Disjoint, Remembered

\* What is covered depends on those who align.
LEMMA NotifierKeeps ==
    ASSUME NEW t \in Thread, NotifierMoves(t)
    PROVE  /\ \A s, k : Covered(s, k)' <=> Covered(s, k)
           /\ Members => Members'
           /\ Heard => Heard'
<1>1. \A x \in Thread : /\ Enrolled(x)' <=> Enrolled(x)
                        /\ Enrolled(x) => pc'[x] = pc[x] /\ current'[x] = current[x] /\ todo'[x] = todo[x]
    BY DEF NotifierMoves, OthersRest, Enrolled
<1>2. \A x \in Thread : \A s : /\ Aligns(x, s)' <=> Aligns(x, s)
                               /\ Aligns(x, s) => pc'[x] = pc[x] /\ todo'[x] = todo[x]
    BY <1>1 DEF Aligns, Enrolled, Sub
<1>3. ASSUME NEW s, NEW k PROVE Covered(s, k)' <=> Covered(s, k)
    BY <1>2 DEF Covered, NotifierMoves
<1>4. ASSUME Members PROVE Members'
    <2>1. \A x \in Thread : Enrolled(x)' => current'[x] \in registered'
        BY <1>1, <1>4 DEF Members, NotifierMoves
    <2>2. ASSUME NEW x \in Thread, pc'[x] = "mounts" PROVE (todo[x] = Config(Sub(x)).keys)'
        BY <1>1, <1>4, <2>2 DEF Members, NotifierMoves, Enrolled, Config, Sub
    <2> QED BY <1>4, <2>1, <2>2 DEF Members, NotifierMoves
<1>5. ASSUME Heard PROVE Heard'
    <2> SUFFICES ASSUME NEW e \in registered, e[1] \notin aligned
                 PROVE  \E x \in Thread : Enrolled(x)' /\ Sub(x)' = e[1]
        BY DEF Heard, NotifierMoves
    <2>1. PICK x \in Thread : Enrolled(x) /\ Sub(x) = e[1]
        BY <1>5 DEF Heard
    <2> QED BY <1>1, <2>1 DEF Sub
<1> QED BY <1>3, <1>4, <1>5

\* What is notified depends on those who notify.
LEMMA AlignerKeeps ==
    ASSUME NEW t \in Thread, AlignerMoves(t)
    PROVE  /\ \A u \in Thread : u \in Notifying' <=> u \in Notifying
           /\ \A u \in Notifying : \A s : Notifies(u, s)' <=> Notifies(u, s)
           /\ \A s, k : (InStore(k)' <=> InStore(k)) /\ (Reached(s, k)' <=> Reached(s, k))
           /\ Single => Single'
           /\ Announced /\ registered \subseteq registered' => Announced'
<1>1. Notifying' = Notifying
    BY DEF AlignerMoves, OthersRest
<1>2. \A u \in Notifying : pc'[u] = pc[u] /\ current'[u] = current[u] /\ todo'[u] = todo[u]
    BY DEF AlignerMoves, OthersRest
<1>3. \A u \in Notifying : \A s : Notifies(u, s)' <=> Notifies(u, s)
    BY <1>2 DEF Notifies, Sub
<1>4. ASSUME NEW s, NEW k PROVE (InStore(k)' <=> InStore(k)) /\ (Reached(s, k)' <=> Reached(s, k))
    BY <1>1, <1>3 DEF InStore, Reached, AlignerMoves
<1>5. ASSUME Single PROVE Single'
    BY <1>1, <1>5 DEF Single, AlignerMoves, Changed
<1>6. ASSUME Announced, registered \subseteq registered' PROVE Announced'
    BY <1>1, <1>2, <1>6 DEF Announced
<1> QED BY <1>1, <1>3, <1>4, <1>5, <1>6

\* A subscriber follows when it is given no other event, and no less is to come.
LEMMA FollowsKept ==
    ASSUME Follows, AlignTyped, program' = program, version' = version, alone' = alone, raced \subseteq raced',
           \A k \in Key : (InStore(k)' <=> InStore(k)) /\ (~program.deletes /\ k \in bound => k \in bound'),
           \A s \in Subscriber \ raced', k \in Key :
               /\ k \in Config(s).keys => (Covered(s, k)' <=> Covered(s, k))
               /\ Reached(s, k) => Reached(s, k)'
               /\ Final(s, k)' \subseteq Final(s, k)
    PROVE  Follows'
<1> SUFFICES ASSUME NEW s \in Subscriber \ raced', NEW k \in Config(s).keys, Changed(k)
             PROVE  Informed(s, k)'
    BY ProgramSame DEF Follows
<1>1. k \in Key /\ Informed(s, k)
    BY ConfigTyped DEF Follows
<1>2. UpToDate(s, k) => UpToDate(s, k)'
    BY <1>1 DEF UpToDate
<1>3. Unaware(s, k) => Unaware(s, k)'
    BY <1>1 DEF Unaware
<1>4. ~program.deletes /\ Present(s, k) => Present(s, k)'
    BY <1>1 DEF Present
<1> QED BY <1>1, <1>2, <1>3, <1>4 DEF Informed

\* The queues are as they were.
LEMMA FinalSame ==
    ASSUME UNCHANGED <<posted, seen, alignQueue>>
    PROVE  \A s, k : Final(s, k)' = Final(s, k)
BY DEF Final

\* The notification of thread t goes on.
NotifierGoesOn(t) ==
    /\ NotifierMoves(t)
    /\ pc[t] \in {"walk", "lock", "invoke", "deliver"} /\ pc'[t] \in {"walk", "lock", "invoke", "deliver"}
    /\ \A u \in Thread : SameEvent(u)
    /\ bound' = bound /\ version' = version /\ alone' = alone /\ raced' = raced

\* Others are notified as before, and no object leaves the store.
LEMMA GoesOnKeeps ==
    ASSUME NEW t \in Thread, NotifierGoesOn(t)
    PROVE  /\ Notifying' = Notifying /\ t \in Notifying
           /\ \A k : InStore(k)' <=> InStore(k)
           /\ Single => Single'
           /\ \A u \in Notifying : \A s : u # t => (Notifies(u, s)' <=> Notifies(u, s))
<1>1. Notifying' = Notifying /\ t \in Notifying
    BY DEF NotifierGoesOn, NotifierMoves, OthersRest
<1>2. ASSUME NEW k PROVE InStore(k)' <=> InStore(k)
    BY <1>1 DEF InStore, NotifierGoesOn, SameEvent
<1>3. ASSUME Single PROVE Single'
    BY <1>1, <1>3 DEF Single, NotifierGoesOn, NotifierMoves, Changed, SameEvent
<1>4. ASSUME NEW u \in Notifying, NEW s, u # t PROVE Notifies(u, s)' <=> Notifies(u, s)
    BY <1>4 DEF Notifies, Sub, NotifierGoesOn, NotifierMoves, OthersRest
<1> QED BY <1>1, <1>2, <1>3, <1>4

\* It goes on with all those whom it has still to notify.
LEMMA NotifierStays ==
    ASSUME FollowParts, AlignTyped, NEW t \in Thread, NotifierGoesOn(t), UNCHANGED <<posted, seen, alignQueue>>,
           \A s \in Subscriber : Notifies(t, s) => Notifies(t, s)',
           Announced => todo'[t] \subseteq registered /\ (pc'[t] # "walk" => current'[t] \in registered)
    PROVE  FollowParts'
<1>1. /\ Notifying' = Notifying /\ t \in Notifying
      /\ \A k : InStore(k)' <=> InStore(k)
      /\ \A u \in Notifying : \A s : u # t => (Notifies(u, s)' <=> Notifies(u, s))
    BY GoesOnKeeps
<1>2. Members' /\ Single' /\ \A s, k : Covered(s, k)' <=> Covered(s, k)
    BY GoesOnKeeps, NotifierKeeps DEF FollowParts, NotifierGoesOn
<1>3. \A u \in Notifying, s \in Subscriber : Notifies(u, s) => Notifies(u, s)'
    BY <1>1
<1>4. \A u \in Thread : event'[u].key = event[u].key
    BY DEF NotifierGoesOn, SameEvent
<1>5. StillToCome'
    <2> SUFFICES ASSUME NEW x \in Thread, NEW u \in Notifying, pc'[x] \in {"mounts", "aligning", "flush"},
                        (Sub(x) \notin raced /\ event[u].key \in Config(Sub(x)).keys /\ Changed(event[u].key))'
                 PROVE  Notifies(u, Sub(x))'
        BY <1>1 DEF StillToCome
    <2>1. x # t /\ pc'[x] = pc[x] /\ Sub(x)' = Sub(x) /\ Sub(x) \in Subscriber \ raced
        BY ConfigTyped DEF NotifierGoesOn, NotifierMoves, OthersRest, Enrolled, Sub
    <2>2. Config(Sub(x))' = Config(Sub(x))
        BY <2>1 DEF NotifierGoesOn, NotifierMoves, Config
    <2>3. Changed(event[u].key)
        BY <1>4 DEF Changed, NotifierGoesOn, NotifierMoves, Notifying
    <2>4. Notifies(u, Sub(x))
        BY <1>4, <2>1, <2>2, <2>3 DEF FollowParts, StillToCome
    <2> QED BY <1>3, <2>1, <2>4
<1>6. Stays'
    <2>1. Announced => Announced'
        <3> SUFFICES ASSUME Announced, NEW u \in Notifying
                     PROVE  todo'[u] \subseteq registered /\ (pc'[u] # "walk" => current'[u] \in registered)
            BY <1>1 DEF Announced, NotifierGoesOn, NotifierMoves
        <3> QED BY DEF Announced, NotifierGoesOn, NotifierMoves, OthersRest
    <2>2. Heard => Heard'
        BY NotifierKeeps DEF NotifierGoesOn
    <2> QED BY <2>1, <2>2 DEF FollowParts, Stays, NotifierGoesOn, NotifierMoves
<1>7. Follows'
    <2>1. \A s \in Subscriber, k \in Key : Reached(s, k) => Reached(s, k)'
        BY <1>1, <1>3, <1>4 DEF Reached
    <2>2. UNCHANGED <<program, version, alone, raced, bound>>
        BY DEF NotifierGoesOn, NotifierMoves
    <2> QED BY <1>1, <1>2, <2>1, <2>2, FollowsKept, FinalSame DEF FollowParts
<1> QED BY <1>2, <1>5, <1>6, <1>7 DEF FollowParts

(***************************************************************************)
(* The steps of a notification                                             *)
(***************************************************************************)
\* The next subscriber is taken.
LEMMA WalkFollows ==
    ASSUME AlignTyped, FollowParts, NEW t \in Thread, Walk(t)
    PROVE  FollowParts'
<1>1. PICK e \in Deepest(todo[t]) :
          /\ Goto(t, "walk", IF isAligning[e[1]] THEN "lock" ELSE "invoke")
          /\ current' = [current EXCEPT ![t] = e]
          /\ todo' = [todo EXCEPT ![t] = @ \ {e}]
    BY DEF Walk
<1>2. e \in todo[t]
    BY DEF Deepest
<1>3. /\ pc[t] = "walk" /\ pc'[t] \in {"lock", "invoke"} /\ current'[t] = e /\ todo'[t] = todo[t] \ {e}
      /\ OthersRest(t)
    BY <1>1 DEF AlignTyped, ThreadsTyped, Goto, OthersRest
<1>4. UNCHANGED <<program, registered, aligned, raced, event, bound, version, alone, posted, seen, alignQueue>>
    BY DEF Walk, storeVars, adminVars, alignVars
<1>5. NotifierGoesOn(t)
    BY <1>3, <1>4 DEF NotifierGoesOn, NotifierMoves, Enrolled, SameEvent
<1>6. ASSUME NEW s \in Subscriber, Notifies(t, s) PROVE Notifies(t, s)'
    <2>1. PICK f \in todo[t] : f[1] = s
        BY <1>3, <1>6 DEF Notifies
    <2>2. CASE f = e
        BY <1>3, <2>1, <2>2 DEF Notifies, Sub
    <2>3. CASE f # e
        BY <1>3, <2>1, <2>3 DEF Notifies
    <2> QED BY <2>2, <2>3
<1>7. Announced => todo'[t] \subseteq registered /\ current'[t] \in registered
    BY <1>2, <1>3 DEF Announced
<1> QED BY <1>4, <1>5, <1>6, <1>7, NotifierStays

\* The align mutex is taken.
LEMMA LockAlignFollows ==
    ASSUME AlignTyped, FollowParts, NEW t \in Thread, LockAlign(t)
    PROVE  FollowParts'
<1>1. /\ pc[t] = "lock" /\ pc'[t] = "invoke" /\ current' = current /\ todo' = todo
      /\ OthersRest(t)
    BY DEF LockAlign, AlignTyped, ThreadsTyped, Goto, OthersRest, localVars
<1>2. UNCHANGED <<program, registered, aligned, raced, event, bound, version, alone, posted, seen, alignQueue>>
    BY DEF LockAlign, storeVars, adminVars, localVars
<1>3. NotifierGoesOn(t)
    BY <1>1, <1>2 DEF NotifierGoesOn, NotifierMoves, Enrolled, SameEvent
<1>4. \A s \in Subscriber : Notifies(t, s) => Notifies(t, s)'
    BY <1>1 DEF Notifies, Sub
<1>5. Announced => todo'[t] \subseteq registered /\ current'[t] \in registered
    BY <1>1 DEF Announced
<1> QED BY <1>2, <1>3, <1>4, <1>5, NotifierStays

\* The event gets its value.
LEMMA InvokeFollows ==
    ASSUME AlignTyped, FollowParts, NEW t \in Thread, Invoke(t)
    PROVE  FollowParts'
<1>1. /\ pc[t] = "invoke" /\ pc'[t] = "deliver" /\ current' = current /\ todo' = todo
      /\ OthersRest(t)
    BY DEF Invoke, AlignTyped, ThreadsTyped, Goto, OthersRest
<1>2. UNCHANGED <<program, registered, aligned, raced, bound, version, alone, posted, seen, alignQueue>>
    BY DEF Invoke, storeVars, adminVars, alignVars
<1>5. \A u \in Thread : SameEvent(u)
    BY InvokeTyped
<1>6. NotifierGoesOn(t)
    BY <1>1, <1>2, <1>5 DEF NotifierGoesOn, NotifierMoves, Enrolled
<1>7. \A s \in Subscriber : Notifies(t, s) => Notifies(t, s)'
    BY <1>1 DEF Notifies, Sub
<1>8. Announced => todo'[t] \subseteq registered /\ current'[t] \in registered
    BY <1>1 DEF Announced
<1> QED BY <1>2, <1>6, <1>7, <1>8, NotifierStays

\* Nobody is notified any more.  A deleted object leaves the store.
LEMMA NotifyEndFollows ==
    ASSUME AlignTyped, FollowParts, NEW t \in Thread, NotifyEnd(t)
    PROVE  FollowParts'
<1>1. /\ pc[t] = "walk" /\ pc'[t] = "idle" /\ current' = current /\ todo' = todo /\ todo[t] = {}
      /\ OthersRest(t)
    BY DEF NotifyEnd, AlignTyped, ThreadsTyped, Goto, OthersRest, localVars
<1>2. /\ UNCHANGED <<program, registered, aligned, raced, event, version, alone, posted, seen, alignQueue>>
      /\ bound' = IF event[t].exists THEN bound ELSE bound \ {event[t].key}
    BY DEF NotifyEnd, adminVars, localVars, alignVars
<1>3. NotifierMoves(t) /\ Notifying' = Notifying \ {t} /\ t \in Notifying
    BY <1>1, <1>2 DEF NotifierMoves, Enrolled, OthersRest
<1>4. Members' /\ (Heard => Heard') /\ \A s, k : Covered(s, k)' <=> Covered(s, k)
    BY <1>3, NotifierKeeps DEF FollowParts
<1>5. \A s : ~Notifies(t, s)
    BY <1>1 DEF Notifies
<1>6. \A u \in Notifying : \A s : u # t => (Notifies(u, s)' <=> Notifies(u, s))
    BY <1>1 DEF Notifies, Sub, OthersRest
<1>7. ASSUME NEW k PROVE InStore(k)' <=> InStore(k)
    <2>1. CASE event[t].exists
        BY <1>2, <1>3, <2>1 DEF InStore
    <2>2. CASE ~event[t].exists /\ event[t].key = k
        BY <1>2, <1>3, <2>2 DEF InStore
    <2>3. CASE ~event[t].exists /\ event[t].key # k
        BY <1>2, <1>3, <2>3 DEF InStore
    <2> QED BY <2>1, <2>2, <2>3
<1>8. Single' /\ (~program.deletes => bound' = bound)
    <2>1. \A k : Changed(k)' <=> Changed(k)
        BY <1>2, ProgramSame
    <2>2. \A u \in Notifying : u # t /\ event[u].key \in alone => event[u].key # event[t].key
        BY <1>3 DEF FollowParts, Single
    <2>3. ~program.deletes => bound' = bound
        BY <1>2, <1>3 DEF FollowParts, Single
    <2> QED BY <1>2, <1>3, <2>1, <2>2, <2>3 DEF FollowParts, Single
<1>9. StillToCome'
    <2> SUFFICES ASSUME NEW x \in Thread, NEW u \in Notifying, u # t, pc'[x] \in {"mounts", "aligning", "flush"},
                        (Sub(x) \notin raced /\ event[u].key \in Config(Sub(x)).keys /\ Changed(event[u].key))'
                 PROVE  Notifies(u, Sub(x))'
        BY <1>3 DEF StillToCome
    <2>1. pc'[x] = pc[x] /\ Sub(x)' = Sub(x) /\ Sub(x) \notin raced
        BY <1>1, <1>2 DEF OthersRest, Sub
    <2>2. event[u].key \in Config(Sub(x)).keys /\ Changed(event[u].key)
        BY <1>2, <2>1 DEF Config, Changed
    <2> QED BY <1>6, <2>1, <2>2 DEF FollowParts, StillToCome
<1>10. Stays'
    <2>1. Announced => Announced'
        BY <1>1, <1>2, <1>3 DEF Announced, OthersRest
    <2> QED BY <1>2, <1>4, <2>1 DEF FollowParts, Stays
<1>11. Follows'
    <2>1. \A s \in Subscriber, k \in Key : Reached(s, k) => Reached(s, k)'
        BY <1>2, <1>3, <1>5, <1>6 DEF Reached
    <2> QED BY <1>2, <1>4, <1>7, <1>8, <2>1, FollowsKept, FinalSame DEF FollowParts
<1> QED BY <1>4, <1>8, <1>9, <1>10, <1>11 DEF FollowParts

\* A dispatcher handles an event: no event about the object is later than it was.
LEMMA HandleEventFollows ==
    ASSUME AlignTyped, FollowParts, NEW c \in Subscriber, HandleEvent(c)
    PROVE  FollowParts'
<1>1. UNCHANGED <<program, registered, aligned, raced, event, bound, version, alone, alignQueue, pc, todo, current>>
    BY DEF HandleEvent, storeVars, adminVars, alignVars, localVars
<1>2. Members' /\ Single' /\ StillToCome' /\ Stays'
    BY <1>1, ProgramSame DEF FollowParts, Members, Single, StillToCome, Stays, Announced, Heard, Enrolled, Notifies, Sub
<1>3. /\ \A s, k : (Covered(s, k)' <=> Covered(s, k)) /\ (Reached(s, k)' <=> Reached(s, k))
      /\ \A k : InStore(k)' <=> InStore(k)
    BY <1>1 DEF Covered, Reached, InStore, Aligns, Notifies, Sub
<1>4. ASSUME NEW s \in Subscriber, NEW k \in Key PROVE Final(s, k)' \subseteq Final(s, k)
    <2>1. QueuesTyped
        BY QueuesAreTyped
    <2>2. CASE s # c
        BY <1>1, <2>1, <2>2 DEF HandleEvent, Callback, Final, QueuesTyped
    <2>3. CASE s = c
        <3>1. PICK p \in Seq(Events) : p = posted[c]
            BY <2>1 DEF QueuesTyped
        <3>2. PICK f \in [Key -> Events] : f = seen[c]
            BY <2>1 DEF QueuesTyped
        <3>3. PICK q \in Seq(Events) : q = alignQueue[c]
            BY <2>1 DEF QueuesTyped
        <3>4. p # <<>> /\ posted'[c] = Tail(p) /\ seen'[c] = [f EXCEPT ![Head(p).key] = Head(p)]
            BY <2>1, <3>1, <3>2 DEF HandleEvent, Callback, QueuesTyped
        <3>5. LastOf([f EXCEPT ![Head(p).key] = Head(p)], Tail(p), q, k) \subseteq LastOf(f, p, q, k)
            BY <3>4, LastOfHandled
        <3> QED BY <1>1, <2>3, <3>1, <3>2, <3>3, <3>4, <3>5 DEF Final
    <2> QED BY <2>2, <2>3
<1>5. Follows'
    BY <1>1, <1>3, <1>4, FollowsKept DEF FollowParts
<1> QED BY <1>2, <1>5 DEF FollowParts

\* The mounts go on.
LEMMA RestFollows ==
    ASSUME FollowParts, UNCHANGED subscriberVars
    PROVE  FollowParts'
<1>1. UNCHANGED <<program, registered, aligned, raced, event, bound, version, alone, pc, todo, current, posted,
                  seen, alignQueue>>
    BY DEF subscriberVars, storeVars, adminVars, alignVars, localVars
<1>2. Members' /\ Single' /\ StillToCome' /\ Stays'
    BY <1>1, ProgramSame DEF FollowParts, Members, Single, StillToCome, Stays, Announced, Heard, Enrolled, Notifies, Sub
<1>3. /\ \A s, k : (Covered(s, k)' <=> Covered(s, k)) /\ (Reached(s, k)' <=> Reached(s, k))
      /\ \A k : InStore(k)' <=> InStore(k)
      /\ \A s, k : Final(s, k)' = Final(s, k)
    BY <1>1 DEF Covered, Reached, InStore, Aligns, Notifies, Sub, Final
<1>4. Follows'
    BY <1>1, <1>3, ProgramSame DEF FollowParts, Follows, Informed, UpToDate, Unaware, Present
<1> QED BY <1>2, <1>4 DEF FollowParts

(***************************************************************************)
(* The steps of an alignment                                               *)
(***************************************************************************)
\* Thread t has aligned subscriber s with object k.
CoveredBy(t, s, k) == Aligns(t, s) /\ (pc[t] = "flush" \/ (pc[t] = "aligning" /\ k \notin todo[t]))

\* Who is aligned with object k stays as it is when thread t covers as much as before.
LEMMA CoveredSame ==
    ASSUME NEW t \in Thread, OthersRest(t), NEW s, NEW k, CoveredBy(t, s, k)' <=> CoveredBy(t, s, k),
           s \in aligned' <=> s \in aligned
    PROVE  Covered(s, k)' <=> Covered(s, k)
<1>1. ASSUME NEW x \in Thread, x # t PROVE CoveredBy(x, s, k)' <=> CoveredBy(x, s, k)
    BY <1>1 DEF OthersRest, CoveredBy, Aligns, Sub
<1>2. \A x \in Thread : CoveredBy(x, s, k)' <=> CoveredBy(x, s, k)
    BY <1>1
<1> QED BY <1>2 DEF Covered, CoveredBy

\* The alignment of thread t goes on: what is subscribed and what is notified stay as they are.
LEMMA AlignerGoesOn ==
    ASSUME FollowParts, NEW t \in Thread, AlignerMoves(t), UNCHANGED <<registered, aligned, current>>,
           Enrolled(t)' <=> Enrolled(t),
           pc'[t] = "mounts" => todo'[t] = Config(Sub(t)).keys,
           pc'[t] \in {"mounts", "aligning", "flush"} => \/ pc[t] \in {"mounts", "aligning", "flush"}
                                                         \/ Sub(t) \in raced
                                                         \/ Notifying = {}
    PROVE  Members' /\ Single' /\ StillToCome' /\ Stays'
<1>1. \A s : Config(s)' = Config(s) /\ Sub(t)' = Sub(t)
    BY DEF AlignerMoves, Config, Sub
<1>2. Members'
    <2>1. \A x \in Thread : Enrolled(x)' <=> Enrolled(x)
        BY DEF AlignerMoves, OthersRest, Enrolled
    <2>2. ASSUME NEW x \in Thread, pc'[x] = "mounts" PROVE todo'[x] = Config(Sub(x)').keys
        BY <1>1, <2>2 DEF FollowParts, Members, AlignerMoves, OthersRest, Sub
    <2> QED BY <1>1, <2>1, <2>2 DEF FollowParts, Members, AlignerMoves
<1>3. /\ \A u \in Thread : u \in Notifying' <=> u \in Notifying
      /\ \A u \in Notifying : \A s : Notifies(u, s)' <=> Notifies(u, s)
      /\ Single' /\ (Announced => Announced')
    BY AlignerKeeps DEF FollowParts
<1>4. StillToCome'
    <2> SUFFICES ASSUME NEW x \in Thread, NEW u \in Notifying, pc'[x] \in {"mounts", "aligning", "flush"},
                        (Sub(x) \notin raced /\ event[u].key \in Config(Sub(x)).keys /\ Changed(event[u].key))'
                 PROVE  Notifies(u, Sub(x))'
        BY <1>3 DEF StillToCome
    <2>1. pc[x] \in {"mounts", "aligning", "flush"} /\ Sub(x)' = Sub(x) /\ Sub(x) \notin raced
        BY DEF AlignerMoves, OthersRest, Sub
    <2>2. event[u].key \in Config(Sub(x)).keys /\ Changed(event[u].key)
        BY <1>1, <2>1 DEF AlignerMoves, Changed
    <2> QED BY <1>3, <2>1, <2>2 DEF FollowParts, StillToCome
<1>5. Heard => Heard'
    <2> SUFFICES ASSUME Heard, NEW e \in registered, e[1] \notin aligned
                 PROVE  \E x \in Thread : Enrolled(x)' /\ Sub(x)' = e[1]
        BY DEF Heard
    <2>1. PICK x \in Thread : Enrolled(x) /\ Sub(x) = e[1]
        BY DEF Heard
    <2> QED BY <2>1 DEF AlignerMoves, OthersRest, Enrolled, Sub
<1>6. Stays'
    BY <1>3, <1>5 DEF FollowParts, Stays, AlignerMoves
<1> QED BY <1>2, <1>3, <1>4, <1>6

\* Nobody is aligned with another object, and nobody is given another event.
LEMMA AlignerFollows ==
    ASSUME FollowParts, AlignTyped, NEW t \in Thread, AlignerMoves(t),
           Members', StillToCome', Stays',
           \A s \in Subscriber \ raced', k \in Key :
               /\ k \in Config(s).keys => (Covered(s, k)' <=> Covered(s, k))
               /\ Final(s, k)' \subseteq Final(s, k)
    PROVE  FollowParts'
<1>1. Single' /\ \A s, k : (InStore(k)' <=> InStore(k)) /\ (Reached(s, k)' <=> Reached(s, k))
    BY AlignerKeeps DEF FollowParts
<1>2. Follows'
    BY <1>1, FollowsKept DEF FollowParts, AlignerMoves
<1> QED BY <1>1, <1>2 DEF FollowParts

\* A subscriber is added: nobody notifies it yet.
LEMMA SubscribeFollows ==
    ASSUME AlignTyped, FollowParts, NEW t \in Thread, NEW e \in Entity, Subscribe(t, e)
    PROVE  FollowParts'
<1>1. /\ pc[t] = "idle" /\ pc'[t] = "align" /\ current'[t] = e /\ todo' = todo
      /\ OthersRest(t) /\ raced \subseteq raced'
      /\ registered' = registered \cup {e} /\ e \in program.subscribes[t]
    BY DEF Subscribe, AlignTyped, ThreadsTyped, Goto, OthersRest
<1>2. UNCHANGED <<program, aligned, event, bound, version, alone, posted, seen, alignQueue>>
    BY DEF Subscribe, storeVars, alignVars
<1>3. AlignerMoves(t)
    BY <1>1, <1>2 DEF AlignerMoves, OthersRest
<1>4. StillToCome' /\ (Announced => Announced')
    <2>1. /\ \A u \in Thread : u \in Notifying' <=> u \in Notifying
          /\ \A u \in Notifying : \A s : Notifies(u, s)' <=> Notifies(u, s)
          /\ Announced => Announced'
        BY <1>1, <1>3, AlignerKeeps
    <2>2. SUFFICES ASSUME NEW x \in Thread, NEW u \in Notifying, pc'[x] \in {"mounts", "aligning", "flush"},
                          (Sub(x) \notin raced /\ event[u].key \in Config(Sub(x)).keys /\ Changed(event[u].key))'
                   PROVE  Notifies(u, Sub(x))'
        BY <2>1 DEF StillToCome
    <2>3. pc[x] = pc'[x] /\ Sub(x)' = Sub(x) /\ Sub(x) \notin raced
        BY <1>1, <2>2 DEF OthersRest, Sub
    <2>4. event[u].key \in Config(Sub(x)).keys /\ Changed(event[u].key)
        BY <1>2, <2>2, <2>3 DEF Config, Changed
    <2> QED BY <2>1, <2>2, <2>3, <2>4 DEF FollowParts, StillToCome
<1>5. Members'
    <2>1. \A x \in Thread : Enrolled(x)' => current'[x] \in registered'
        BY <1>1 DEF FollowParts, Members, Enrolled, OthersRest
    <2>2. ASSUME NEW x \in Thread, pc'[x] = "mounts" PROVE (todo[x] = Config(Sub(x)).keys)'
        BY <1>1, <1>2, <2>2 DEF FollowParts, Members, OthersRest, Config, Sub
    <2>3. registered' \subseteq UNION {program'.subscribes[x] : x \in Thread}
        BY <1>1, <1>2 DEF FollowParts, Members
    <2>4. \A s \in aligned' : \E f \in registered' : f[1] = s
        BY <1>1, <1>2 DEF FollowParts, Members
    <2> QED BY <2>1, <2>2, <2>3, <2>4 DEF Members
<1>6. Heard => Heard'
    <2> SUFFICES ASSUME Heard, NEW f \in registered', f[1] \notin aligned
                 PROVE  \E x \in Thread : Enrolled(x)' /\ Sub(x)' = f[1]
        BY <1>2 DEF Heard
    <2>1. CASE f = e
        BY <1>1, <2>1 DEF Enrolled, Sub
    <2>2. CASE f # e
        <3>1. PICK x \in Thread : Enrolled(x) /\ Sub(x) = f[1]
            BY <1>1, <2>2 DEF Heard
        <3> QED BY <1>1, <3>1 DEF OthersRest, Enrolled, Sub
    <2> QED BY <2>1, <2>2
<1>7. Stays'
    BY <1>2, <1>4, <1>6 DEF FollowParts, Stays
<1>8. ASSUME NEW s, NEW k PROVE Covered(s, k)' <=> Covered(s, k)
    <2>1. ~CoveredBy(t, s, k) /\ ~CoveredBy(t, s, k)'
        BY <1>1 DEF CoveredBy
    <2> QED BY <1>1, <1>2, <2>1, CoveredSame
<1> QED BY <1>2, <1>3, <1>4, <1>5, <1>7, <1>8, AlignerFollows, FinalSame

\* Nobody is notified when the alignment of a subscriber that is not raced begins.
LEMMA AlignBeginFollows ==
    ASSUME AlignTyped, FollowParts, NotYet, NEW t \in Thread, AlignBegin(t)
    PROVE  FollowParts'
<1>1. /\ pc[t] = "align" /\ pc'[t] = "mounts" /\ current' = current /\ todo'[t] = Config(Sub(t)).keys
      /\ OthersRest(t)
    BY DEF AlignBegin, AlignTyped, ThreadsTyped, Goto, OthersRest
<1>2. UNCHANGED <<program, registered, aligned, event, bound, version, alone, posted, seen, alignQueue>>
      /\ raced \subseteq raced'
    BY DEF AlignBegin, storeVars, adminVars
<1>3. AlignerMoves(t) /\ (Sub(t) \in raced \/ Notifying = {})
    BY <1>1, <1>2 DEF AlignerMoves, OthersRest, NotYet
<1>4. Enrolled(t) /\ Enrolled(t)'
    BY <1>1 DEF Enrolled
<1>5. Members' /\ StillToCome' /\ Stays'
    BY <1>1, <1>2, <1>3, <1>4, AlignerGoesOn
<1>6. ASSUME NEW s, NEW k PROVE Covered(s, k)' <=> Covered(s, k)
    <2>1. ~CoveredBy(t, s, k) /\ ~CoveredBy(t, s, k)'
        BY <1>1 DEF CoveredBy
    <2> QED BY <1>1, <1>2, <2>1, CoveredSame
<1> QED BY <1>2, <1>3, <1>5, <1>6, AlignerFollows, FinalSame

\* A thread comes back from the mount, with all objects still to come.
LEMMA ToldFollows ==
    ASSUME AlignTyped, FollowParts, NEW t \in Thread, Told(t)
    PROVE  FollowParts'
<1>1. /\ (pc[t] = "mounts" /\ pc'[t] = "aligning") \/ (pc[t] = "unsubscribe" /\ pc'[t] = "idle")
      /\ current' = current /\ todo' = todo /\ OthersRest(t)
    BY DEF Told, ToldVars, localVars, AlignTyped, ThreadsTyped, Goto, OthersRest
<1>2. UNCHANGED <<program, registered, aligned, event, bound, version, alone, posted, seen, alignQueue>>
      /\ raced \subseteq raced'
    BY DEF Told, ToldVars, storeVars, adminVars, alignVars, localVars
<1>3. AlignerMoves(t)
    BY <1>1, <1>2 DEF AlignerMoves, OthersRest
<1>4. Enrolled(t)' <=> Enrolled(t)
    BY <1>1 DEF Enrolled
<1>5. Members' /\ StillToCome' /\ Stays'
    BY <1>1, <1>2, <1>3, <1>4, AlignerGoesOn
<1>6. ASSUME NEW s, NEW k \in Config(s).keys PROVE Covered(s, k)' <=> Covered(s, k)
    <2>1. ~CoveredBy(t, s, k)
        BY <1>1 DEF CoveredBy
    <2>2. ~CoveredBy(t, s, k)'
        BY <1>1 DEF CoveredBy, Aligns, Sub, FollowParts, Members
    <2> QED BY <1>1, <1>2, <2>1, <2>2, CoveredSame
<1> QED BY <1>2, <1>3, <1>5, <1>6, AlignerFollows, FinalSame

\* All objects were selected.
LEMMA AlignEndFollows ==
    ASSUME AlignTyped, FollowParts, NEW t \in Thread, AlignEnd(t)
    PROVE  FollowParts'
<1>1. /\ pc[t] = "aligning" /\ pc'[t] = "flush" /\ current' = current /\ todo' = todo /\ todo[t] = {}
      /\ OthersRest(t)
    BY DEF AlignEnd, AlignTyped, ThreadsTyped, Goto, OthersRest, localVars
<1>2. UNCHANGED <<program, registered, aligned, event, bound, version, alone, posted, seen, alignQueue>>
      /\ raced \subseteq raced'
    BY DEF AlignEnd, storeVars, adminVars, localVars
<1>3. AlignerMoves(t)
    BY <1>1, <1>2 DEF AlignerMoves, OthersRest
<1>4. Enrolled(t) /\ Enrolled(t)'
    BY <1>1 DEF Enrolled
<1>5. Members' /\ StillToCome' /\ Stays'
    BY <1>1, <1>2, <1>3, <1>4, AlignerGoesOn
<1>6. ASSUME NEW s, NEW k PROVE Covered(s, k)' <=> Covered(s, k)
    <2>1. CoveredBy(t, s, k)' <=> CoveredBy(t, s, k)
        BY <1>1 DEF CoveredBy, Aligns, Sub
    <2> QED BY <1>1, <1>2, <2>1, CoveredSame
<1> QED BY <1>2, <1>3, <1>5, <1>6, AlignerFollows, FinalSame

\* The first event of the align queue is delivered: no event about an object is later than it was.
LEMMA FlushFollows ==
    ASSUME AlignTyped, Ordered, FollowParts, NEW t \in Thread, Flush(t)
    PROVE  FollowParts'
<1>1. /\ pc[t] = "flush" /\ pc' = pc /\ current' = current /\ todo' = todo /\ OthersRest(t)
      /\ UNCHANGED <<program, registered, aligned, raced, event, bound, version, alone>>
    BY DEF Flush, MustFlush, storeVars, adminVars, localVars, OthersRest
<1>2. AlignerMoves(t)
    BY <1>1 DEF AlignerMoves
<1>3. Members' /\ StillToCome' /\ Stays'
    BY <1>1, <1>2, AlignerGoesOn DEF Enrolled, FollowParts, Members
<1>4. ASSUME NEW s, NEW k PROVE Covered(s, k)' <=> Covered(s, k)
    BY <1>1 DEF Covered, Aligns, Sub
<1>5. PICK c \in Subscriber : c = Sub(t)
    BY ConfigTyped
<1>6. PICK f \in [Key -> Events], p \in Seq(Events), q \in Seq(Events) : Was(c, f, p, q)
    BY WasTyped
<1>7. q # <<>>
    BY <1>5, <1>6 DEF Flush, MustFlush, Was
<1>8. PICK ev \in Events : ev = Head(q)
    BY <1>7, HeadAndTail
<1>9. PICK r \in Seq(Events) : r = Tail(q)
    BY <1>7, HeadAndTail
<1>10. /\ alignQueue' = [alignQueue EXCEPT ![c] = r]
       /\ \/ HasDispatcher(c) /\ posted' = Given(c, ev) /\ seen' = seen
          \/ ~HasDispatcher(c) /\ posted' = posted /\ seen' = Handled(c, ev)
    BY <1>5, <1>6, <1>8, <1>9 DEF Flush, Callback, Handled, Given, Was
<1>11. alignQueue'[c] = r /\ \A x \in Subscriber : x # c => alignQueue'[x] = alignQueue[x]
    BY <1>10, QueuesAreTyped DEF QueuesTyped
<1>12. ASSUME NEW s \in Subscriber \ raced, NEW k \in Key PROVE Final(s, k)' \subseteq Final(s, k)
    <2>1. CASE HasDispatcher(c)
        <3>1. PICK n \in Seq(Events) : n = Append(p, ev)
            BY Appended
        <3>2. posted'[c] = n /\ seen' = seen /\ \A x \in Subscriber : x # c => posted'[x] = posted[x]
            BY <1>6, <1>10, <2>1, <3>1, HandledAndGiven, SMTT(30) DEF Was
        <3>3. LastOf(f, n, r, k) \subseteq LastOf(f, p, q, k)
            BY <1>7, <1>8, <1>9, <3>1, LastOfMoved
        <3> QED BY <1>6, <1>11, <3>2, <3>3 DEF Final, Was
    <2>2. CASE ~HasDispatcher(c)
        <3>1. PICK g : g = [f EXCEPT ![ev.key] = ev]
            OBVIOUS
        <3>2. posted' = posted /\ seen'[c] = g /\ \A x \in Subscriber : x # c => seen'[x] = seen[x]
            BY <1>6, <1>10, <2>2, <3>1, HandledAndGiven DEF Was
        <3>3. s = c => p = <<>>
            BY <1>6, <2>2 DEF Ordered, Was
        <3>4. LastOf(g, <<>>, r, k) \subseteq LastOf(f, <<>>, q, k)
            BY <1>7, <1>8, <1>9, <3>1, LastOfFlushed
        <3> QED BY <1>6, <1>11, <3>2, <3>3, <3>4 DEF Final, Was
    <2> QED BY <2>1, <2>2
<1> QED BY <1>1, <1>2, <1>3, <1>4, <1>12, AlignerFollows

\* The subscriber is aligned.
LEMMA FlushEndFollows ==
    ASSUME AlignTyped, FollowParts, NEW t \in Thread, FlushEnd(t)
    PROVE  FollowParts'
<1>1. /\ pc[t] = "flush" /\ pc'[t] = "idle" /\ current' = current /\ todo' = todo /\ OthersRest(t)
      /\ aligned' = aligned \cup {Sub(t)}
      /\ UNCHANGED <<program, registered, raced, event, bound, version, alone, posted, seen, alignQueue>>
    BY DEF FlushEnd, AlignTyped, ThreadsTyped, Goto, OthersRest, localVars, storeVars
<1>2. AlignerMoves(t)
    BY <1>1 DEF AlignerMoves, OthersRest
<1>3. ASSUME NEW s, NEW k PROVE Covered(s, k)' <=> Covered(s, k)
    <2>1. CASE s = Sub(t)
        BY <1>1, <2>1 DEF Covered, Aligns
    <2>2. CASE s # Sub(t)
        <3>1. ~CoveredBy(t, s, k) /\ ~CoveredBy(t, s, k)'
            BY <1>1, <2>2 DEF CoveredBy, Aligns
        <3> QED BY <1>1, <2>2, <3>1, CoveredSame
    <2> QED BY <2>1, <2>2
<1>4. Members'
    <2>1. \A x \in Thread : Enrolled(x)' => Enrolled(x)
        BY <1>1 DEF Enrolled, OthersRest
    <2>2. \A s \in aligned' : \E e \in registered : e[1] = s
        BY <1>1 DEF FollowParts, Members, Enrolled, Sub
    <2>3. ASSUME NEW x \in Thread, pc'[x] = "mounts" PROVE (todo[x] = Config(Sub(x)).keys)'
        BY <1>1, <2>3 DEF FollowParts, Members, OthersRest, Config, Sub
    <2> QED BY <1>1, <2>1, <2>2, <2>3 DEF FollowParts, Members
<1>5. /\ \A u \in Thread : u \in Notifying' <=> u \in Notifying
      /\ \A u \in Notifying : \A s : Notifies(u, s)' <=> Notifies(u, s)
      /\ Announced => Announced'
    BY <1>1, <1>2, AlignerKeeps DEF FollowParts
<1>6. StillToCome'
    <2> SUFFICES ASSUME NEW x \in Thread, NEW u \in Notifying, pc'[x] \in {"mounts", "aligning", "flush"},
                        (Sub(x) \notin raced /\ event[u].key \in Config(Sub(x)).keys /\ Changed(event[u].key))'
                 PROVE  Notifies(u, Sub(x))'
        BY <1>5 DEF StillToCome
    <2>1. pc[x] \in {"mounts", "aligning", "flush"} /\ Sub(x)' = Sub(x) /\ Sub(x) \notin raced
        BY <1>1, <1>2 DEF OthersRest, Sub
    <2>2. event[u].key \in Config(Sub(x)).keys /\ Changed(event[u].key)
        BY <1>1, <2>1 DEF Config, Changed
    <2> QED BY <1>5, <2>1, <2>2 DEF FollowParts, StillToCome
<1>7. Heard => Heard'
    <2> SUFFICES ASSUME Heard, NEW e \in registered, e[1] \notin aligned, e[1] # Sub(t)
                 PROVE  \E x \in Thread : Enrolled(x)' /\ Sub(x)' = e[1]
        BY <1>1 DEF Heard
    <2>1. PICK x \in Thread : Enrolled(x) /\ Sub(x) = e[1]
        BY DEF Heard
    <2> QED BY <1>1, <2>1 DEF OthersRest, Enrolled, Sub
<1>8. Stays'
    BY <1>1, <1>5, <1>7 DEF FollowParts, Stays
<1> QED BY <1>1, <1>2, <1>3, <1>4, <1>6, <1>8, AlignerFollows, FinalSame

\* Who unsubscribes is not told any more, but in such a program nothing is deleted.
LEMMA UnsubscribeFollows ==
    ASSUME AlignTyped, FollowParts, Remembered, NEW t \in Thread, NEW e \in Entity, Unsubscribe(t, e)
    PROVE  FollowParts'
<1>1. /\ pc[t] = "idle" /\ pc'[t] = "unsubscribe" /\ todo' = todo /\ current'[t] = e
      /\ OthersRest(t) /\ program.unsubscribes /\ ~program.deletes
    BY DEF Unsubscribe, AlignTyped, ThreadsTyped, Goto, OthersRest, Remembered
<1>2. /\ registered' = registered \ {e}
      /\ aligned' = IF \E f \in registered' : f[1] = e[1] THEN aligned ELSE aligned \ {e[1]}
      /\ \A x \in Thread : Enrolled(x) => current[x] # e
      /\ UNCHANGED <<program, raced, event, bound, version, alone, posted, seen, alignQueue>>
    BY DEF Unsubscribe, storeVars, alignVars, Enrolled
<1>3. AlignerMoves(t)
    BY <1>1, <1>2 DEF AlignerMoves, OthersRest
<1>4. /\ \A u \in Thread : u \in Notifying' <=> u \in Notifying
      /\ \A u \in Notifying : \A s : Notifies(u, s)' <=> Notifies(u, s)
      /\ \A s, k : (InStore(k)' <=> InStore(k)) /\ (Reached(s, k)' <=> Reached(s, k))
      /\ Single'
    BY <1>3, AlignerKeeps DEF FollowParts
<1>5. Members'
    <2>1. \A x \in Thread : Enrolled(x)' => Enrolled(x) /\ current'[x] = current[x]
        BY <1>1 DEF Enrolled, OthersRest
    <2>2. ASSUME NEW s \in aligned' PROVE \E f \in registered' : f[1] = s
        <3>1. PICK f \in registered : f[1] = s
            BY <1>2 DEF FollowParts, Members
        <3> QED BY <1>2, <3>1
    <2>3. ASSUME NEW x \in Thread, pc'[x] = "mounts" PROVE (todo[x] = Config(Sub(x)).keys)'
        BY <1>1, <1>2, <2>3 DEF FollowParts, Members, OthersRest, Config, Sub
    <2> QED BY <1>2, <2>1, <2>2, <2>3 DEF FollowParts, Members
<1>6. StillToCome'
    <2> SUFFICES ASSUME NEW x \in Thread, NEW u \in Notifying, pc'[x] \in {"mounts", "aligning", "flush"},
                        (Sub(x) \notin raced /\ event[u].key \in Config(Sub(x)).keys /\ Changed(event[u].key))'
                 PROVE  Notifies(u, Sub(x))'
        BY <1>4 DEF StillToCome
    <2>1. pc[x] \in {"mounts", "aligning", "flush"} /\ Sub(x)' = Sub(x) /\ Sub(x) \notin raced
        BY <1>1, <1>2 DEF OthersRest, Sub
    <2>2. event[u].key \in Config(Sub(x)).keys /\ Changed(event[u].key)
        BY <1>2, <2>1 DEF Config, Changed
    <2> QED BY <1>4, <2>1, <2>2 DEF FollowParts, StillToCome
<1>7. Stays'
    BY <1>1, <1>2 DEF Stays
<1>8. ASSUME NEW s \in Subscriber \ raced, NEW k \in Config(s).keys, Changed(k)
      PROVE  Informed(s, k)'
    <2>1. (UpToDate(s, k)' <=> UpToDate(s, k)) /\ (Present(s, k)' <=> Present(s, k))
        BY <1>2, <1>4, FinalSame DEF UpToDate, Present
    <2>2. Informed(s, k)
        BY <1>8 DEF FollowParts, Follows
    <2>3. Covered(s, k)' => Covered(s, k)
        <3>1. \A x \in Thread : Aligns(x, s)' => Aligns(x, s) /\ pc'[x] = pc[x] /\ todo'[x] = todo[x]
            BY <1>1 DEF Aligns, OthersRest, Sub
        <3> QED BY <1>2, <3>1 DEF Covered
    <2> QED BY <1>1, <1>2, <1>4, <2>1, <2>2, <2>3 DEF Informed
<1>9. Follows'
    BY <1>2, <1>8, ProgramSame DEF Follows
<1> QED BY <1>4, <1>5, <1>6, <1>7, <1>9 DEF FollowParts

\* An object is selected: if it is in the store, the last event is about what it is now, and who
\* deletes it has yet to notify the subscriber.
LEMMA AlignObjectFollows ==
    ASSUME AlignTyped, FollowParts, Remembered, NEW t \in Thread, AlignObject(t)
    PROVE  FollowParts'
<1>0. PICK c \in Subscriber : c = Sub(t)
    BY ConfigTyped
<1>1. PICK q \in Seq(Events) : q = alignQueue[c]
    BY QueuesAreTyped DEF QueuesTyped
<1>2. PICK j \in todo[t] :
          /\ todo' = [todo EXCEPT ![t] = @ \ {j}]
          /\ alignQueue' = [alignQueue EXCEPT ![c] =
                IF j \notin bound THEN @
                ELSE AddToAlignQueue(@, Selected(j))]
    BY <1>0 DEF AlignObject
<1>3. /\ pc[t] = "aligning" /\ pc' = pc /\ current' = current /\ j \in Key
      /\ todo'[t] = todo[t] \ {j} /\ OthersRest(t)
      /\ UNCHANGED <<program, registered, aligned, raced, event, bound, version, alone, seen, posted>>
    BY <1>2 DEF AlignObject, storeVars, adminVars, OthersRest, AlignTyped, ThreadsTyped
<1>4. AlignerMoves(t)
    BY <1>3 DEF AlignerMoves, OthersRest
<1>5. Members' /\ Single' /\ StillToCome' /\ Stays'
    BY <1>3, <1>4, AlignerGoesOn DEF Enrolled
<1>6. PICK ev \in Events : ev = Selected(j) /\ ev.key = j /\ ev.exists /\ ev.version = version[j]
    <2>1. Selected(j) \in Events /\ Selected(j).key = j
        BY <1>3, SelectedComes
    <2>2. Selected(j).exists /\ Selected(j).version = version[j]
        BY DEF Selected, NoEvent
    <2> QED BY <2>1, <2>2
<1>7. PICK r : r = IF j \notin bound THEN q ELSE AddToAlignQueue(q, ev)
    OBVIOUS
<1>8. alignQueue'[c] = r /\ \A x \in Subscriber : x # c => alignQueue'[x] = alignQueue[x]
    BY <1>1, <1>2, <1>6, <1>7, QueuesAreTyped DEF QueuesTyped
<1>9. /\ \A s \in Subscriber : s # c => \A k : Final(s, k)' = Final(s, k)
      /\ \A k : Final(c, k) = LastOf(seen[c], posted[c], q, k) /\ Final(c, k)' = LastOf(seen[c], posted[c], r, k)
    BY <1>1, <1>3, <1>8 DEF Final
<1>10. /\ \A k : k # j => Final(c, k)' = Final(c, k)
       /\ j \notin bound => Final(c, j)' = Final(c, j)
       /\ j \in bound => Final(c, j)' \subseteq {ev}
    <2>1. \A k : ev.key # k => EventsAbout(AddToAlignQueue(q, ev), k) = EventsAbout(q, k)
                               /\ LastAbout(AddToAlignQueue(q, ev), k) = LastAbout(q, k)
        BY LastOfAdd
    <2>2. \A k : ev.key = k => EventsAbout(AddToAlignQueue(q, ev), k) # {}
                               /\ LastAbout(AddToAlignQueue(q, ev), k) \subseteq {ev}
        BY LastOfAdd
    <2>3. CASE j \notin bound
        BY <1>7, <1>9, <2>3
    <2>4. CASE j \in bound
        <3>1. r = AddToAlignQueue(q, ev) /\ ev.key = j
            BY <1>6, <1>7, <2>4
        <3>2. /\ \A k : k # j => EventsAbout(r, k) = EventsAbout(q, k) /\ LastAbout(r, k) = LastAbout(q, k)
              /\ EventsAbout(r, j) # {} /\ LastAbout(r, j) \subseteq {ev}
            BY <2>1, <2>2, <3>1
        <3>3. \A k : k # j => Final(c, k)' = Final(c, k)
            BY <1>9, <3>2 DEF LastOf
        <3>4. Final(c, j)' \subseteq {ev}
            BY <1>9, <3>2 DEF LastOf
        <3> QED BY <2>4, <3>3, <3>4
    <2> QED BY <2>3, <2>4
<1>11. /\ \A u \in Thread : u \in Notifying' <=> u \in Notifying
       /\ \A s, k : (InStore(k)' <=> InStore(k)) /\ (Reached(s, k)' <=> Reached(s, k))
    BY <1>4, AlignerKeeps
<1>12. ASSUME NEW s, NEW k, s # c \/ k # j PROVE Covered(s, k)' <=> Covered(s, k)
    <2>1. CoveredBy(t, s, k)' <=> CoveredBy(t, s, k)
        BY <1>0, <1>3, <1>12 DEF CoveredBy, Aligns, Sub
    <2> QED BY <1>3, <2>1, CoveredSame
<1>13. ASSUME NEW s \in Subscriber \ raced, NEW k \in Config(s).keys, Changed(k)
       PROVE  Informed(s, k)'
    <2>1. Informed(s, k)
        BY <1>13 DEF FollowParts, Follows
    <2>2. ASSUME Final(s, k)' = Final(s, k)
          PROVE  /\ UpToDate(s, k)' <=> UpToDate(s, k)
                 /\ (Unaware(s, k)' <=> Unaware(s, k)) /\ (Present(s, k)' <=> Present(s, k))
        BY <1>3, <1>11, <2>2 DEF UpToDate, Unaware, Present
    <2>3. CASE s # c \/ k # j
        BY <1>3, <1>9, <1>10, <1>11, <1>12, <2>1, <2>2, <2>3 DEF Informed
    <2>4. CASE s = c /\ k = j /\ j \notin bound
        <3>1. Unaware(s, k) => UpToDate(s, k)
            BY <2>4 DEF Unaware, UpToDate, InStore
        <3>2. ~program.deletes => Unaware(s, k)
            BY <2>1, <2>4 DEF Informed, Present, Unaware
        <3>3. Covered(s, k)'
            BY <1>0, <1>3, <2>4 DEF Covered, Aligns, Sub
        <3>4. k \in alone => Reached(s, k) \/ UpToDate(s, k)
            BY <2>1, <3>1, <3>2 DEF Informed, Remembered
        <3>5. ~program.deletes => Present(s, k)
            BY <2>1 DEF Informed
        <3>6. (UpToDate(s, k)' <=> UpToDate(s, k)) /\ (Present(s, k)' <=> Present(s, k))
            BY <1>10, <2>2, <2>4
        <3> QED BY <1>3, <1>11, <3>3, <3>4, <3>5, <3>6 DEF Informed
    <2>5. CASE s = c /\ k = j /\ j \in bound
        <3>1. Covered(s, k)'
            BY <1>0, <1>3, <2>5 DEF Covered, Aligns, Sub
        <3>2. CASE InStore(k)
            BY <1>3, <1>6, <1>10, <1>11, <2>5, <3>1, <3>2 DEF Informed, UpToDate, Present
        <3>3. CASE ~InStore(k)
            <4>1. PICK u \in Notifying : event[u].key = k
                BY <2>5, <3>3 DEF InStore
            <4>2. Notifies(u, s)
                BY <1>0, <1>3, <1>13, <2>5, <4>1 DEF FollowParts, StillToCome
            <4>3. Reached(s, k)
                BY <4>1, <4>2 DEF Reached
            <4> QED BY <1>3, <1>6, <1>10, <1>11, <2>5, <3>1, <4>3 DEF Informed, Present
        <3> QED BY <3>2, <3>3
    <2> QED BY <2>3, <2>4, <2>5
<1>14. Follows'
    BY <1>3, <1>13, ProgramSame DEF Follows
<1> QED BY <1>5, <1>14 DEF FollowParts

\* Others are given nothing.
LEMMA DeliveredToOne ==
    ASSUME AlignTyped, NEW t \in Thread, Deliver(t)
    PROVE  \A s \in Subscriber, k \in Key : s # Sub(t) => Final(s, k)' = Final(s, k)
<1>1. QueuesTyped
    BY QueuesAreTyped
<1>2. ASSUME NEW s \in Subscriber, s # Sub(t)
      PROVE  seen'[s] = seen[s] /\ posted'[s] = posted[s] /\ alignQueue'[s] = alignQueue[s]
    BY <1>1, <1>2 DEF Deliver, Callback, QueuesTyped
<1> QED BY <1>2 DEF Final

\* The event is the last one that the subscriber is given about its object: it is neither being
\* aligned nor, without a dispatcher, does it have an event to handle.
LEMMA DeliveredIsLast ==
    ASSUME AlignTyped, Locks, Windows, Ordered, Sync, NEW t \in Thread, Deliver(t), Sub(t) \notin raced
    PROVE  /\ \A s \in Subscriber, k \in Key : s # Sub(t) \/ k # event[t].key => Final(s, k)' = Final(s, k)
           /\ \A s, k : s = Sub(t) /\ k = event[t].key => Final(s, k)' \subseteq {event[t]}
<1>1. PICK c \in Subscriber : c = Sub(t)
    BY ConfigTyped
<1>2. PICK f \in [Key -> Events], p \in Seq(Events), q \in Seq(Events) : Was(c, f, p, q)
    BY WasTyped
<1>3. PICK ev \in Events : ev = event[t]
    BY DEF AlignTyped, ThreadsTyped
<1>4. pc[t] = "deliver" /\ ev.key \in Key
    BY DEF Deliver, Goto, Events
<1>5. q = <<>> /\ ~isAligning[c] /\ (sync[t] <=> ~HasDispatcher(c)) /\ (~HasDispatcher(c) => p = <<>>)
    BY <1>1, <1>2, <1>4, NotAligned DEF Sync, Ordered, Was
<1>6. \A k : EventsAbout(<<>>, k) = {}
    BY DEF EventsAbout
<1>7. CASE sync[t]
    <2>1. PICK g : g = [f EXCEPT ![ev.key] = ev]
        OBVIOUS
    <2>2. seen' = Handled(c, ev) /\ posted' = posted /\ alignQueue' = alignQueue
        BY <1>1, <1>3, <1>7 DEF Deliver, Callback, Handled
    <2>3. seen'[c] = g /\ \A x \in Subscriber : x # c => seen'[x] = seen[x]
        BY <1>2, <2>1, <2>2, HandledAndGiven DEF Was
    <2>4. p = <<>>
        BY <1>5, <1>7
    <2>5. \A k : LastOf(f, <<>>, <<>>, k) = {f[k]} /\ LastOf(g, <<>>, <<>>, k) = {g[k]}
        BY <1>6 DEF LastOf
    <2>6. \A k : Final(c, k) = {f[k]} /\ Final(c, k)' = {g[k]}
        <3>1. seen[c] = f /\ posted[c] = <<>> /\ alignQueue[c] = <<>>
            BY <1>2, <1>5, <2>4 DEF Was
        <3>2. seen'[c] = g /\ posted'[c] = <<>> /\ alignQueue'[c] = <<>>
            BY <2>2, <2>3, <3>1
        <3> QED BY <2>5, <3>1, <3>2 DEF Final
    <2>7. g[ev.key] = ev /\ \A k \in Key : k # ev.key => g[k] = f[k]
        BY <1>4, <2>1
    <2>8. \A s \in Subscriber, k \in Key : s # c => Final(s, k)' = Final(s, k)
        BY <2>2, <2>3 DEF Final
    <2>9. ASSUME NEW k \in Key, k # ev.key PROVE Final(c, k)' = Final(c, k)
        <3>1. g[k] = f[k]
            BY <2>7, <2>9
        <3>2. Final(c, k) = {f[k]} /\ Final(c, k)' = {g[k]}
            BY <2>6
        <3> QED BY <3>1, <3>2
    <2>10. Final(c, ev.key)' = {ev}
        BY <2>6, <2>7
    <2>11. \A s, k : s = c /\ k = ev.key => Final(s, k)' \subseteq {ev}
        BY <2>10
    <2> QED BY <1>1, <1>3, <2>8, <2>9, <2>11
<1>8. CASE ~sync[t]
    <2>1. PICK n \in Seq(Events) : n = Append(p, ev)
        BY Appended
    <2>2. posted' = Given(c, ev) /\ seen' = seen /\ alignQueue' = alignQueue
        BY <1>1, <1>3, <1>5, <1>8 DEF Deliver, Given
    <2>3. posted'[c] = n /\ \A x \in Subscriber : x # c => posted'[x] = posted[x]
        <3>1. p = posted[c]
            BY <1>2 DEF Was
        <3>2. /\ \A a, b : a = posted[c] /\ b = Append(a, ev) => Given(c, ev)[c] = b
              /\ \A x \in Subscriber : x # c => Given(c, ev)[x] = posted[x]
            BY QueuesAreTyped DEF QueuesTyped, Given
        <3>3. Given(c, ev)[c] = n
            BY <2>1, <3>1, <3>2, Zenon
        <3> QED BY <2>2, <3>2, <3>3
    <2>4. \A k : /\ ev.key = k => EventsAbout(n, k) # {} /\ LastAbout(n, k) \subseteq {ev}
                 /\ ev.key # k => EventsAbout(n, k) = EventsAbout(p, k) /\ LastAbout(n, k) = LastAbout(p, k)
        <3>1. Appends(n, p, ev)
            BY <2>1 DEF Appends
        <3> QED BY <3>1, LastOfAppend
    <2>5. LastOf(f, n, <<>>, ev.key) \subseteq {ev} /\ \A k : k # ev.key => LastOf(f, n, <<>>, k) = LastOf(f, p, <<>>, k)
        BY <1>6, <2>4 DEF LastOf
    <2>6. \A k : Final(c, k) = LastOf(f, p, <<>>, k) /\ Final(c, k)' = LastOf(f, n, <<>>, k)
        BY <1>2, <1>5, <2>2, <2>3 DEF Final, Was
    <2>7. \A s \in Subscriber, k \in Key : s # c => Final(s, k)' = Final(s, k)
        BY <2>2, <2>3 DEF Final
    <2> QED BY <1>1, <1>3, <2>5, <2>6, <2>7
<1> QED BY <1>7, <1>8

\* The subscriber has the present state of the object.
LEMMA DeliverFollows ==
    ASSUME AlignTyped, Locks, Windows, Ordered, Sync, FollowParts, Remembered, NEW t \in Thread, Deliver(t)
    PROVE  FollowParts'
<1>1. /\ pc[t] = "deliver" /\ pc'[t] = "walk" /\ current' = current /\ todo' = todo /\ OthersRest(t)
      /\ UNCHANGED <<program, registered, aligned, raced, event, bound, version, alone>>
    BY DEF Deliver, AlignTyped, ThreadsTyped, Goto, OthersRest, storeVars, adminVars, localVars
<1>2. NotifierGoesOn(t) /\ NotifierMoves(t)
    BY <1>1 DEF NotifierGoesOn, NotifierMoves, Enrolled, OthersRest, SameEvent
<1>3. /\ Notifying' = Notifying /\ t \in Notifying
      /\ \A k : InStore(k)' <=> InStore(k)
      /\ \A u \in Notifying : \A s : u # t => (Notifies(u, s)' <=> Notifies(u, s))
    BY <1>2, GoesOnKeeps
<1>4. Members' /\ Single' /\ (Heard => Heard') /\ \A s, k : Covered(s, k)' <=> Covered(s, k)
    BY <1>2, GoesOnKeeps, NotifierKeeps DEF FollowParts
<1>5. \A s : s # Sub(t) => (Notifies(t, s) => Notifies(t, s)')
    BY <1>1 DEF Notifies
<1>6. StillToCome'
    <2> SUFFICES ASSUME NEW x \in Thread, NEW u \in Notifying, pc'[x] \in {"mounts", "aligning", "flush"},
                        (Sub(x) \notin raced /\ event[u].key \in Config(Sub(x)).keys /\ Changed(event[u].key))'
                 PROVE  Notifies(u, Sub(x))'
        BY <1>3 DEF StillToCome
    <2>1. x # t /\ pc[x] \in {"mounts", "aligning", "flush"} /\ Sub(x)' = Sub(x) /\ Sub(x) \notin raced
        BY <1>1 DEF OthersRest, Sub
    <2>2. Changed(event[u].key)
        BY <1>1 DEF Changed
    <2>3. Notifies(u, Sub(x))
        BY <1>1, <2>1, <2>2 DEF FollowParts, StillToCome, Config
    <2>4. u = t => Sub(x) # Sub(t)
        BY <1>1, <2>1 DEF Windows, Apart
    <2> QED BY <1>3, <1>5, <2>1, <2>3, <2>4
<1>7. Stays'
    <2>1. Announced => Announced'
        BY <1>1, <1>3 DEF Announced, OthersRest
    <2> QED BY <1>1, <1>4, <2>1 DEF FollowParts, Stays
<1>8. ASSUME NEW s \in Subscriber \ raced, NEW k \in Config(s).keys, Changed(k)
      PROVE  Informed(s, k)'
    <2>0. k \in Key
        BY ConfigTyped
    <2>1. Informed(s, k)
        BY <1>8 DEF FollowParts, Follows
    <2>2. CASE s # Sub(t) \/ k # event[t].key
        <3>1. Final(s, k)' = Final(s, k)
            BY <2>0, <2>2, DeliveredIsLast, DeliveredToOne
        <3>2. /\ UpToDate(s, k)' <=> UpToDate(s, k)
              /\ (Unaware(s, k)' <=> Unaware(s, k)) /\ (Present(s, k)' <=> Present(s, k))
            BY <1>1, <1>3, <3>1 DEF UpToDate, Unaware, Present
        <3>3. Reached(s, k) => Reached(s, k)'
            BY <1>1, <1>3, <1>5, <2>2 DEF Reached
        <3> QED BY <1>1, <1>4, <2>1, <3>2, <3>3 DEF Informed
    <2>3. CASE s = Sub(t) /\ k = event[t].key
        <3>1. Final(s, k)' \subseteq {event[t]} /\ event[t].exists \in BOOLEAN
            BY <2>3, DeliveredIsLast DEF AlignTyped, ThreadsTyped, Events
        <3>2. /\ k \in alone => event[t].version = version[k] /\ (event[t].exists <=> InStore(k))
              /\ ~program.deletes => k \in bound
            BY <1>3, <1>8, <2>3, <3>1 DEF FollowParts, Single, InStore
        <3>3. (k \in alone => UpToDate(s, k)') /\ (~program.deletes => Present(s, k)')
            BY <1>1, <1>3, <3>1, <3>2 DEF UpToDate, Present
        <3>4. ASSUME ~Covered(s, k) PROVE program.unsubscribes
            <4>1. SUFFICES ASSUME ~program.unsubscribes PROVE FALSE
                OBVIOUS
            <4>2. current[t] \in registered /\ Heard
                BY <1>1, <1>3, <4>1 DEF FollowParts, Stays, Announced
            <4>3. s \notin aligned
                BY <3>4 DEF Covered
            <4>4. PICK x \in Thread : Enrolled(x) /\ Sub(x) = s
                BY <2>3, <4>2, <4>3 DEF Heard, Sub
            <4>5. pc[x] # "align"
                BY <1>3, <1>8, <4>4 DEF Windows, NotYet
            <4> QED BY <1>1, <1>8, <2>3, <4>4, <4>5 DEF Enrolled, Windows, Apart
        <3> QED BY <1>1, <1>4, <3>3, <3>4 DEF Informed
    <2> QED BY <2>2, <2>3
<1>9. Follows'
    BY <1>1, <1>8, ProgramSame DEF Follows
<1> QED BY <1>4, <1>6, <1>7, <1>9 DEF FollowParts

\* An object is changed: who is aligned with it is notified of it, and who is not has seen nothing
\* that contradicts what becomes of it.
LEMMA ChangeFollows ==
    ASSUME AlignTyped, FollowParts, Followed, NEW t \in Thread, NEW k \in Key, Changes(t, k)
    PROVE  FollowParts'
<1>1. PICK f \in Format \cup {NoFormat}, b \in BOOLEAN :
          /\ Change(t, k, b, f)
          /\ \/ b /\ bound' = bound \cup {k} /\ k \in program.changes[t]
             \/ ~b /\ bound' = bound /\ program.deletes /\ k \in program.changes[t]
             \/ b /\ bound' = bound /\ k \in program.publishes[t]
    <2>1. Update(t, k) => bound' = bound \cup {k}
        BY DEF Update
    <2> QED BY <2>1, ConfigTyped DEF Changes, Define, Update, Delete, Publish
<1>2. /\ pc[t] = "idle" /\ pc'[t] = "walk" /\ todo'[t] = Notified(t, k) /\ OthersRest(t)
      /\ event'[t].key = k /\ event'[t].exists = b /\ event'[t].version = version'[k]
      /\ \A u \in Thread : u # t => event'[u] = event[u]
      /\ \/ alone' = alone \cup {k} /\ \A u \in Notifying : event[u].key # k
         \/ alone' = alone \ {k}
    <2>1. version'[k] = version[k] + 1
        BY <1>1, QueuesAreTyped DEF Change, QueuesTyped
    <2> QED BY <1>1, <2>1 DEF Change, AlignTyped, ThreadsTyped, Goto, OthersRest, Underway
<1>3. /\ UNCHANGED <<program, registered, aligned, posted, seen, alignQueue>> /\ raced \subseteq raced'
      /\ bound \subseteq bound'
      /\ \A j \in Key : j # k => version'[j] = version[j]
    BY <1>1, QueuesAreTyped DEF Change, adminVars, alignVars, QueuesTyped
<1>4. NotifierMoves(t) /\ Notifying' = Notifying \cup {t} /\ t \notin Notifying
    BY <1>2, <1>3 DEF NotifierMoves, Enrolled, OthersRest
<1>5. Members' /\ (Heard => Heard') /\ \A s, j : Covered(s, j)' <=> Covered(s, j)
    BY <1>4, NotifierKeeps DEF FollowParts
<1>6. \A u \in Notifying : \A s : Notifies(u, s)' <=> Notifies(u, s)
    BY <1>2 DEF Notifies, Sub, OthersRest
<1>7. \A u \in Notifying : event'[u] = event[u]
    BY <1>2, <1>4
<1>8. k \in program.publishes[t] => ~Changed(k)
    BY DEF Followed, Disjoint
<1>9. \A j : Changed(j)' <=> Changed(j)
    BY <1>3, ProgramSame
<1>10. Single'
    <2>1. \A j : j # k => (j \in alone' <=> j \in alone)
        BY <1>2
    <2>2. ASSUME NEW u \in Notifying', NEW w \in Notifying', event'[u].key = event'[w].key, event'[u].key \in alone'
          PROVE  u = w
        <3>1. CASE event'[u].key # k
            BY <1>2, <1>4, <1>7, <2>1, <2>2, <3>1 DEF FollowParts, Single
        <3>2. CASE event'[u].key = k
            BY <1>2, <1>4, <1>7, <2>2, <3>2
        <3> QED BY <3>1, <3>2
    <2>3. ASSUME NEW u \in Notifying', NEW j, j = event'[u].key
          PROVE  /\ j \in alone' => event'[u].version = version'[j]
                 /\ event'[u].exists /\ Changed(j) /\ (j \in alone' \/ ~program.deletes) => j \in bound'
                 /\ ~event'[u].exists => program.deletes
        <3>1. CASE u = t
            BY <1>1, <1>2, <1>8, <2>3, <3>1
        <3>2. CASE u # t
            <4>1. j \in alone' => j \in alone /\ j # k
                BY <1>2, <1>4, <1>7, <2>1, <2>3, <3>2
            <4>2. j \in Key /\ u \in Notifying /\ j = event[u].key /\ event'[u] = event[u]
                BY <1>4, <1>7, <2>3, <3>2 DEF AlignTyped, ThreadsTyped, Events
            <4> QED BY <1>3, <4>1, <4>2 DEF FollowParts, Single
        <3> QED BY <3>1, <3>2
    <2> QED BY <1>3, <1>9, <2>2, <2>3 DEF Single
<1>11. ASSUME NEW e \in registered, k \in Config(e[1]).keys, Changed(k) PROVE Notifies(t, e[1])'
    <2>1. PICK x \in Thread : e \in program.subscribes[x]
        BY DEF FollowParts, Members
    <2>2. k \in program.changes[t]
        BY <1>1, <1>8, <1>11
    <2>3. e \in Notified(t, k)
        BY <1>11, <2>1, <2>2 DEF Notified, Followed, Unsourced
    <2> QED BY <1>2, <2>3 DEF Notifies
<1>12. StillToCome'
    <2> SUFFICES ASSUME NEW x \in Thread, NEW u \in Notifying', pc'[x] \in {"mounts", "aligning", "flush"},
                        (Sub(x) \notin raced /\ event[u].key \in Config(Sub(x)).keys /\ Changed(event[u].key))'
                 PROVE  Notifies(u, Sub(x))'
        BY DEF StillToCome
    <2>1. x # t /\ pc[x] \in {"mounts", "aligning", "flush"} /\ Sub(x)' = Sub(x) /\ Sub(x) \notin raced
        BY <1>2, <1>3 DEF OthersRest, Sub
    <2>2. Config(Sub(x))' = Config(Sub(x))
        BY <1>3, <2>1 DEF Config
    <2>3. CASE u = t
        <3>1. current[x] \in registered /\ k \in Config(current[x][1]).keys /\ Changed(k)
            BY <1>2, <1>9, <2>1, <2>2, <2>3 DEF FollowParts, Members, Enrolled, Sub
        <3> QED BY <1>11, <2>1, <2>3, <3>1 DEF Sub
    <2>4. CASE u # t
        <3>1. Notifies(u, Sub(x))
            BY <1>4, <1>7, <1>9, <2>1, <2>2, <2>4 DEF FollowParts, StillToCome
        <3> QED BY <1>4, <1>6, <2>1, <2>4, <3>1
    <2> QED BY <2>3, <2>4
<1>13. Stays'
    <2>1. Announced => Announced'
        <3> SUFFICES ASSUME Announced, NEW u \in Notifying'
                     PROVE  todo'[u] \subseteq registered /\ (pc'[u] # "walk" => current'[u] \in registered)
            BY <1>3 DEF Announced
        <3>1. CASE u = t
            BY <1>2, <3>1 DEF Notified
        <3>2. CASE u # t
            BY <1>2, <1>4, <3>2 DEF Announced, OthersRest
        <3> QED BY <3>1, <3>2
    <2> QED BY <1>3, <1>5, <2>1 DEF FollowParts, Stays
<1>14. ASSUME NEW s \in Subscriber \ raced, NEW j \in Config(s).keys, Changed(j)
       PROVE  Informed(s, j)'
    <2>0. j \in Key
        BY ConfigTyped
    <2>1. Informed(s, j) /\ Final(s, j)' = Final(s, j)
        BY <1>3, <1>14, FinalSame DEF FollowParts, Follows
    <2>2. (Unaware(s, j)' <=> Unaware(s, j)) /\ (Present(s, j) => Present(s, j)')
        BY <1>3, <2>1 DEF Unaware, Present
    <2>3. CASE j # k
        <3>1. InStore(j)' <=> InStore(j)
            BY <1>1, <1>2, <1>4, <1>7, <2>3 DEF InStore
        <3>2. Reached(s, j) => Reached(s, j)'
            BY <1>4, <1>6, <1>7 DEF Reached
        <3>3. UpToDate(s, j)' <=> UpToDate(s, j)
            BY <1>3, <2>0, <2>1, <2>3, <3>1 DEF UpToDate
        <3>4. j \in alone' => j \in alone
            BY <1>2, <2>3
        <3> QED BY <1>3, <1>5, <2>1, <2>2, <3>2, <3>3, <3>4 DEF Informed
    <2>4. CASE j = k
        <3>1. ASSUME Covered(s, k) PROVE Reached(s, k)'
            <4>1. PICK e \in registered : e[1] = s
                BY <3>1 DEF Covered, Aligns, FollowParts, Members, Enrolled, Sub
            <4>2. Notifies(t, s)'
                BY <1>11, <1>14, <2>4, <4>1
            <4> QED BY <1>2, <1>4, <4>2 DEF Reached
        <3> QED BY <1>3, <1>5, <2>1, <2>2, <2>4, <3>1 DEF Informed
    <2> QED BY <2>3, <2>4
<1>15. Follows'
    BY <1>3, <1>9, <1>14, ProgramSame DEF Follows
<1> QED BY <1>5, <1>10, <1>12, <1>13, <1>15 DEF FollowParts

(***************************************************************************)
(* Who is aligned converges                                                *)
(***************************************************************************)
\* Nothing is subscribed to at the start.
LEMMA InitFollows == Init => FollowParts
<1> SUFFICES ASSUME Init PROVE FollowParts
    OBVIOUS
<1>1. PICK p : SubscriberInit(p)
    BY DEF Init
<1>2. /\ registered = {} /\ aligned = {} /\ \A t \in Thread : pc[t] = "idle"
      /\ \A s \in Subscriber : alignQueue[s] = <<>> /\ posted[s] = <<>>
      /\ \A s \in Subscriber, k \in Key : ~seen[s][k].exists
    BY <1>1 DEF SubscriberInit, NoEvent
<1>3. Notifying = {} /\ \A t \in Thread : ~Enrolled(t) /\ pc[t] \notin {"mounts", "aligning", "flush"}
    BY <1>2 DEF Enrolled
<1>4. Members
    BY <1>2, <1>3 DEF Members
<1>5. Single /\ StillToCome /\ Stays
    BY <1>2, <1>3 DEF Single, StillToCome, Stays, Announced, Heard
<1>6. ASSUME NEW s \in Subscriber, NEW k \in Config(s).keys PROVE Informed(s, k)
    <2>1. AlignTyped
        BY InitIsTyped
    <2>2. k \in Key
        BY <2>1, ConfigTyped
    <2>3. EventsAbout(<<>>, k) = {}
        BY DEF EventsAbout
    <2>4. Final(s, k) = {seen[s][k]}
        BY <1>2, <2>3 DEF Final, LastOf
    <2> QED BY <1>2, <1>3, <2>2, <2>4 DEF Informed, Unaware, Present, Covered, Aligns
<1>7. Follows
    BY <1>6 DEF Follows
<1> QED BY <1>4, <1>5, <1>7 DEF FollowParts

\* Every step keeps the invariant.
LEMMA StepFollows ==
    ASSUME OrderInv, FollowInv, [Next]_vars
    PROVE  FollowInv'
<1>1. program' = program
    <2>1. CASE UNCHANGED subscriberVars
        BY <2>1 DEF subscriberVars
    <2>2. ASSUME NEW s \in Subscriber, HandleEvent(s) PROVE program' = program
        BY <2>2 DEF HandleEvent
    <2>3. ASSUME NEW t \in Thread, NEW k \in Key, Changes(t, k) PROVE program' = program
        BY <2>3, ChangeSteps DEF OrderInv, Change
    <2>4. ASSUME NEW t \in Thread, SubscriberGoOn(t) PROVE program' = program
        <3>1. Walk(t) \/ LockAlign(t) \/ Invoke(t) \/ Deliver(t) \/ NotifyEnd(t) => program' = program
            BY DEF Walk, LockAlign, Invoke, Deliver, NotifyEnd
        <3>2. AlignBegin(t) \/ AlignObject(t) \/ AlignEnd(t) \/ Flush(t) \/ FlushEnd(t) => program' = program
            BY DEF AlignBegin, AlignObject, AlignEnd, Flush, FlushEnd
        <3> QED BY <2>4, <3>1, <3>2, Zenon DEF SubscriberGoOn
    <2>5. ASSUME NEW t \in Thread, NEW e \in Entity, Subscribe(t, e) \/ Unsubscribe(t, e) PROVE program' = program
        BY <2>5 DEF Subscribe, Unsubscribe
    <2>6. ASSUME NEW t \in Thread, Told(t) PROVE program' = program
        BY <2>6 DEF Told, ToldVars
    <2> QED BY <2>1, <2>2, <2>3, <2>4, <2>5, <2>6, NextCases, Zenon DEF ThreadDoes
<1> SUFFICES ASSUME Followed PROVE FollowParts'
    BY <1>1, ProgramSame DEF FollowInv
<1>2. FollowParts /\ AlignTyped /\ Locks /\ Windows /\ Ordered /\ Sync
    BY DEF FollowInv, OrderInv
<1>3. NotYet /\ Remembered
    BY <1>2 DEF Windows, Followed
<1>4. CASE UNCHANGED subscriberVars
    BY <1>2, <1>4, RestFollows
<1>5. ASSUME NEW s \in Subscriber, HandleEvent(s) PROVE FollowParts'
    BY <1>2, <1>5, HandleEventFollows
<1>6. ASSUME NEW t \in Thread, NEW k \in Key, Changes(t, k) PROVE FollowParts'
    BY <1>2, <1>6, ChangeFollows
<1>7. ASSUME NEW t \in Thread, NEW e \in Entity, Subscribe(t, e) PROVE FollowParts'
    BY <1>2, <1>7, SubscribeFollows
<1>8. ASSUME NEW t \in Thread, NEW e \in Entity, Unsubscribe(t, e) PROVE FollowParts'
    BY <1>2, <1>3, <1>8, UnsubscribeFollows
<1>9. ASSUME NEW t \in Thread, Told(t) PROVE FollowParts'
    BY <1>2, <1>9, ToldFollows
<1>10. ASSUME NEW t \in Thread, Walk(t) PROVE FollowParts'
    BY <1>2, <1>10, WalkFollows
<1>11. ASSUME NEW t \in Thread, LockAlign(t) PROVE FollowParts'
    BY <1>2, <1>11, LockAlignFollows
<1>12. ASSUME NEW t \in Thread, Invoke(t) PROVE FollowParts'
    BY <1>2, <1>12, InvokeFollows
<1>13. ASSUME NEW t \in Thread, Deliver(t) PROVE FollowParts'
    BY <1>2, <1>3, <1>13, DeliverFollows
<1>14. ASSUME NEW t \in Thread, NotifyEnd(t) PROVE FollowParts'
    BY <1>2, <1>14, NotifyEndFollows
<1>15. ASSUME NEW t \in Thread, AlignBegin(t) PROVE FollowParts'
    BY <1>2, <1>3, <1>15, AlignBeginFollows
<1>16. ASSUME NEW t \in Thread, AlignObject(t) PROVE FollowParts'
    BY <1>2, <1>3, <1>16, AlignObjectFollows
<1>17. ASSUME NEW t \in Thread, AlignEnd(t) PROVE FollowParts'
    BY <1>2, <1>17, AlignEndFollows
<1>18. ASSUME NEW t \in Thread, Flush(t) PROVE FollowParts'
    BY <1>2, <1>18, FlushFollows
<1>19. ASSUME NEW t \in Thread, FlushEnd(t) PROVE FollowParts'
    BY <1>2, <1>19, FlushEndFollows
<1>20. ASSUME NEW t \in Thread, SubscriberGoOn(t) PROVE FollowParts'
    BY <1>10, <1>11, <1>12, <1>13, <1>14, <1>15, <1>16, <1>17, <1>18, <1>19, <1>20, Zenon DEF SubscriberGoOn
<1>21. ASSUME NEW t \in Thread, ThreadDoes(t) PROVE FollowParts'
    BY <1>6, <1>7, <1>8, <1>9, <1>20, <1>21, Zenon DEF ThreadDoes
<1> QED BY <1>4, <1>5, <1>21, NextCases, Zenon

\* When nobody notifies, the event that was handled last is about the present state.
LEMMA FollowersConverge ==
    ASSUME OrderInv, FollowInv, Followed
    PROVE  Converged
<1> SUFFICES ASSUME Resting, NEW s \in aligned \ raced, NEW k \in Config(s).keys
             PROVE  /\ alignQueue[s] = <<>>
                    /\ posted[s] = <<>> /\ k \in alone /\ (\E t \in Thread : k \in program.changes[t]) =>
                          /\ seen[s][k].exists = (k \in bound)
                          /\ k \in bound => seen[s][k].version = version[k]
    BY DEF Converged
<1>1. FollowParts /\ AlignTyped /\ AlignedBySomeone
    BY DEF FollowInv, OrderInv, Locks
<1>2. s \in Subscriber
    BY <1>1 DEF FollowParts, Members, AlignTyped, SubscribersTyped, Entity
<1>3. k \in Key
    BY <1>1, <1>2, ConfigTyped
<1>4. Notifying = {} /\ \A t \in Thread : ~Aligns(t, s)
    BY DEF Resting, Aligns
<1>5. alignQueue[s] = <<>>
    BY <1>1, <1>2, <1>4 DEF AlignedBySomeone
<1>6. ASSUME posted[s] = <<>>, k \in alone, Changed(k)
      PROVE  /\ seen[s][k].exists = (k \in bound)
             /\ k \in bound => seen[s][k].version = version[k]
    <2>1. UpToDate(s, k)
        BY <1>1, <1>2, <1>4, <1>6 DEF FollowParts, Follows, Informed, Covered, Reached
    <2>2. EventsAbout(<<>>, k) = {}
        BY DEF EventsAbout
    <2>3. Final(s, k) = {seen[s][k]}
        BY <1>5, <1>6, <2>2 DEF Final, LastOf
    <2>4. InStore(k) <=> k \in bound
        BY <1>4 DEF InStore
    <2>5. seen[s][k].exists \in BOOLEAN
        <3>1. seen[s][k] \in Events
            BY <1>1, <1>2, <1>3, QueuesAreTyped DEF QueuesTyped
        <3> QED BY <3>1 DEF Events
    <2> QED BY <2>1, <2>3, <2>4, <2>5 DEF UpToDate
<1> QED BY <1>5, <1>6 DEF Changed

\* When nothing is under way, a subscriber that was aligned has handled last the present state of
\* each object that its query matches and whose last change overlapped with no other, for any threads,
\* objects and subscribers of which isAligning was not read in the windows that `raced' records: in
\* programs in which nobody leaves a change of his own out, what is published is not in the store, and
\* nothing is deleted while a subscriber is away (corto_subscriber_subscribe,
\* corto_notify_subscribersById).
THEOREM SubscribersConverge == Spec => [](Followed => Converged)
<1>1. Init => FollowInv
    BY InitFollows DEF FollowInv
<1>2. OrderInv /\ FollowInv /\ [Next]_vars => FollowInv'
    BY StepFollows
<1>3. OrderInv /\ FollowInv => (Followed => Converged)
    BY FollowersConverge
<1> QED BY <1>1, <1>2, <1>3, SubscribersAreInOrder, PTL DEF Spec
=============================================================================
