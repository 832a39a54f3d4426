------------------------ MODULE MountSubscriptions ------------------------
(***************************************************************************)
(* The subscriptions that a mount keeps (src/vstore/mount.c): which        *)
(* queries others are interested in, counted, so that the mount is told    *)
(* once when the first user of a query comes and once when the last one    *)
(* leaves.  The list is changed under the lock of the mount; the mount is  *)
(* called without it, and the list is searched again afterwards.           *)
(*                                                                         *)
(* A thread has a stack of calls, since the callback of a mount may        *)
(* subscribe to the mount again.                                           *)
(***************************************************************************)
EXTENDS Integers, Sequences, FiniteSets, SequencesExt

CONSTANTS
    Caller,           \* threads that call the mount
    From, Select,     \* the parts of a query that are compared; "." \in From
    MaxSubscriptions  \* bound: allocations of corto_mountSubscription

Query == [from: From, select: Select \cup {"*"}]
SubscriptionId == 1..MaxSubscriptions

ASSUME MountSubscriptionsAssumption ==
    /\ "." \in From
    /\ MaxSubscriptions \in Nat

\* What a mount is: the bits of policy.mask that matter, the contexts that
\* its callbacks return (of its own for each query, one for all queries with the
\* same `from', or 0), whether on_subscribe subscribes to the query itself, and
\* which calls about one `from' may overlap: none, subscribes of one query, or any.
Mounts == [mask: SUBSET {"subscribe", "mount"}, answer: {"distinct", "shared", "zero"},
           recursive: BOOLEAN, overlap: {"none", "subscribes", "any"}]

\* Contexts: 0 and what Answer makes.
Zero == <<>>

VARIABLES
    mountOf,        \* the mount, fixed at the start
    subscriptions,  \* this->subscriptions, a list of SubscriptionId
    subscription,   \* the corto_mountSubscription of each id, see NoSubscription
    calls,          \* the calls of each thread, the innermost last
    users,          \* history: how often a query is subscribed to by users
    told,           \* history: on_subscribe less on_unsubscribe, per query
    removed,        \* corto_mount_destruct has been called
    misuse          \* "none", or what went wrong first

mountVars == <<mountOf, subscriptions, subscription, calls, users, told, removed, misuse>>

NoSubscription == [query |-> [from |-> ".", select |-> "*"], subscriberCount |-> 0,
                   mountCount |-> 0, subscriberCtx |-> Zero, mountCtx |-> Zero,
                   mem |-> "unused"]

MountInit(m) ==
    /\ mountOf = m
    /\ subscriptions = <<>>
    /\ subscription = [i \in SubscriptionId |-> NoSubscription]
    /\ calls = [t \in Caller |-> <<>>]
    /\ users = [q \in Query |-> 0]
    /\ told = [q \in Query |-> 0]
    /\ removed = FALSE
    /\ misuse = "none"

\* A user wants subscriptions, and mounts for the scopes that it subscribes to.
Masked(what) == what \in mountOf.mask
Subscribes == Masked("subscribe")
OnMounts == Masked("mount")
One(b) == IF b THEN 1 ELSE 0

Call(t) == Last(calls[t])
At(t, p) == calls[t] # <<>> /\ Call(t).at = p
Continue(t, c) == calls' = [calls EXCEPT ![t] = Append(Front(@), c)]
Return(t) == calls' = [calls EXCEPT ![t] = Front(@)]

\* A subscription that a thread uses is still allocated.
Use(i) == misuse' = IF i # 0 /\ subscription[i].mem = "freed" THEN "use_after_free" ELSE misuse

(***************************************************************************)
(* corto_mount_findSubscription                                            *)
(***************************************************************************)
SameFrom(q) == {i \in DOMAIN subscriptions :
                    subscription[subscriptions[i]].query.from = q.from}
Exact(q) == {i \in SameFrom(q) : subscription[subscriptions[i]].query.select = q.select}

\* The first exact match, or else the last one with the same `from'.
Find(q) ==
    IF Exact(q) # {}
    THEN [id |-> subscriptions[CHOOSE i \in Exact(q) : \A j \in Exact(q) : i <= j], found |-> TRUE]
    ELSE IF SameFrom(q) # {}
    THEN [id |-> subscriptions[CHOOSE i \in SameFrom(q) : \A j \in SameFrom(q) : j <= i],
          found |-> FALSE]
    ELSE [id |-> 0, found |-> FALSE]

\* Subscriptions that have not been allocated yet.
Unused == {i \in SubscriptionId : subscription[i].mem = "unused"}
NewId == CHOOSE i \in Unused : \A j \in Unused : i <= j

NewSubscription(q) == [NoSubscription EXCEPT !.query = q, !.subscriberCount = One(Subscribes),
                       !.mountCount = One(OnMounts), !.mem = "live"]

\* The counts of subscription i change by n for each of the kinds that hold.
Counted(i, s, m, n) ==
    [subscription EXCEPT ![i].subscriberCount = @ + n * One(s), ![i].mountCount = @ + n * One(m)]

(***************************************************************************)
(* corto_mount_subscribeOrMount                                            *)
(***************************************************************************)
\* Whether a user keeps its call apart from those of others.
MayCall(t, q, subscribes) ==
    mountOf.overlap # "any" => \A u \in Caller \ {t} : \A i \in DOMAIN calls[u] :
        LET c == calls[u][i] IN
        c.query.from = q.from =>
            mountOf.overlap = "subscribes" /\ subscribes /\ c.query = q /\ c.at # "tell"

NewCall(at, q, f) == [at |-> at, query |-> q, sub |-> f.id, found |-> f.found,
                      placeHolder |-> 0, subCtx |-> Zero, mntCtx |-> Zero]

\* Up to the unlock: the subscription that is found is counted so that it is not
\* deleted, and a placeholder is added when there is none.
MountSubscribe(t, q) ==
    /\ ~removed /\ MayCall(t, q, TRUE) /\ mountOf.mask # {}
    /\ LET f == Find(q)
           c == NewCall("notify", q, f)
       IN IF f.id # 0
          THEN /\ subscription' = Counted(f.id, Subscribes, OnMounts, 1)
               /\ calls' = [calls EXCEPT ![t] = Append(@, c)]
               /\ UNCHANGED subscriptions
          ELSE /\ Unused # {}
               /\ subscription' = [subscription EXCEPT ![NewId] = NewSubscription(q)]
               /\ calls' = [calls EXCEPT ![t] = Append(@, [c EXCEPT !.placeHolder = NewId])]
               /\ subscriptions' = Append(subscriptions, NewId)
    /\ users' = [users EXCEPT ![q] = @ + 1]
    /\ UNCHANGED <<mountOf, told, removed, misuse>>

\* What a callback of the mount returns when it is given the context old.
Answer(q, old) ==
    CASE mountOf.answer = "zero" -> Zero
      [] mountOf.answer = "shared" -> IF old = Zero THEN <<q.from>> ELSE old
      [] OTHER -> <<q.from, q.select>>

\* corto_mount_getQueryForMount: is there a query for on_mount.
HasMountQuery(q) == Subscribes => q.from # "."

\* The callbacks are made when no subscription for the query was found, and
\* none with the same `from' for which the mount had returned 0.
MustTell(c) ==
    /\ ~c.found
    /\ \/ c.sub = 0
       \/ Subscribes /\ subscription[c.sub].subscriberCtx # Zero
       \/ OnMounts /\ subscription[c.sub].mountCtx # Zero

\* on_subscribe and on_mount, without the lock.  The callback may subscribe.
Tell(t) ==
    /\ At(t, "notify")
    /\ LET c == Call(t)
           tell == MustTell(c)
           old == IF c.sub = 0 THEN NoSubscription ELSE subscription[c.sub]
           answered == [c EXCEPT !.at = "settle",
                !.subCtx = IF tell /\ Subscribes THEN Answer(c.query, old.subscriberCtx) ELSE Zero,
                !.mntCtx = IF tell /\ OnMounts /\ HasMountQuery(c.query)
                           THEN Answer(c.query, old.mountCtx) ELSE Zero]
       IN /\ Use(IF c.found THEN 0 ELSE c.sub)
          /\ told' = [told EXCEPT ![c.query] = @ + One(answered.subCtx # Zero)]
          /\ Continue(t, [answered EXCEPT !.at =
                IF tell /\ Subscribes /\ mountOf.recursive THEN "callback" ELSE "settle"])
    /\ UNCHANGED <<mountOf, subscriptions, subscription, users, removed>>

\* on_subscribe subscribes to the query itself, and returns.
CallbackSubscribes(t) ==
    /\ At(t, "callback")
    /\ LET c == Call(t)
           f == Find(c.query)
       IN /\ f.id # 0 \* the placeholder
          /\ subscription' = Counted(f.id, Subscribes, OnMounts, 1)
          /\ calls' = [calls EXCEPT ![t] =
                Append(Append(Front(@), [c EXCEPT !.at = "settle"]), NewCall("notify", c.query, f))]
          /\ users' = [users EXCEPT ![c.query] = @ + 1]
    /\ UNCHANGED <<mountOf, subscriptions, told, removed, misuse>>

\* The context c got differs from that of the subscription that was found.
NewContext(c) ==
    LET s == subscription[c.sub] IN
    \/ c.subCtx # Zero /\ (c.sub = 0 \/ s.subscriberCtx # c.subCtx)
    \/ c.mntCtx # Zero /\ (c.sub = 0 \/ s.mountCtx # c.mntCtx)

\* The count of the subscription that was found, undone.
Undone(c) == IF c.sub = 0 THEN subscription
             ELSE Counted(c.sub, c.subCtx # Zero, c.mntCtx # Zero, -1)

WithContexts(s, c) ==
    [s EXCEPT !.subscriberCtx = IF Subscribes THEN c.subCtx ELSE @,
              !.mountCtx = IF OnMounts THEN c.mntCtx ELSE @]

\* A subscription of its own for the query.  One that is found has to be
\* counted, unless it is a placeholder, whose count is 1 already.
AddSubscription(c) ==
    LET f == Find(c.query)
        again == subscription[f.id].subscriberCtx # Zero
        counted == IF again THEN [Undone(c) EXCEPT
                        ![f.id].subscriberCount = @ + One(c.subCtx # Zero),
                        ![f.id].mountCount = @ + One(c.mntCtx # Zero)]
                   ELSE Undone(c)
    IN IF ~f.found
       THEN /\ Unused # {}
            /\ subscription' = [Undone(c) EXCEPT ![NewId] = WithContexts(NewSubscription(c.query), c)]
            /\ subscriptions' = Append(subscriptions, NewId)
       ELSE /\ subscription' = [counted EXCEPT ![f.id] = WithContexts(@, c)]
            /\ UNCHANGED subscriptions

\* corto_ll_remove
Places(i) == {n \in DOMAIN subscriptions : subscriptions[n] = i}
Without(i) == IF Places(i) = {} THEN subscriptions
              ELSE RemoveAt(subscriptions, CHOOSE n \in Places(i) : \A m \in Places(i) : n <= m)
Free(i) == [subscription EXCEPT ![i].mem = "freed"]

\* The same context: the subscription stands for every select from now on.
Generalize(c) ==
    /\ subscription' = [Undone(c) EXCEPT ![c.sub].query.select = "*"]
    /\ UNCHANGED subscriptions

\* The mount returned 0.
DropPlaceHolder(c) ==
    /\ subscription' = Free(c.placeHolder)
    /\ subscriptions' = Without(c.placeHolder)

Settle(t) ==
    /\ At(t, "settle")
    /\ LET c == Call(t)
           answered == c.subCtx # Zero \/ c.mntCtx # Zero
       IN /\ Use(IF answered THEN c.sub ELSE 0)
          /\ IF answered /\ NewContext(c) THEN AddSubscription(c)
             ELSE IF answered /\ ~c.found /\ c.sub # 0 THEN Generalize(c)
             ELSE IF c.placeHolder # 0 THEN DropPlaceHolder(c)
             ELSE UNCHANGED <<subscription, subscriptions>>
    /\ Return(t)
    /\ UNCHANGED <<mountOf, users, told, removed>>

(***************************************************************************)
(* corto_mount_unsubscribeOrUnmount                                        *)
(***************************************************************************)
Abandoned(s) == s.subscriberCount = 0 /\ s.mountCount = 0

\* Mutant: the subscription stays in the list when its counts are 0.
UncountOnly(t, q) ==
    /\ ~removed /\ MayCall(t, q, FALSE) /\ mountOf.mask # {} /\ users[q] > 0
    /\ LET f == Find(q) IN
          /\ subscription' = IF f.id = 0 THEN subscription
                             ELSE Counted(f.id, Subscribes, OnMounts, -1)
          /\ calls' = [calls EXCEPT ![t] = Append(@, NewCall("tell", q, f))]
    /\ users' = [users EXCEPT ![q] = @ - 1]
    /\ UNCHANGED <<mountOf, subscriptions, told, removed, misuse>>

\* Up to the unlock.  A user unsubscribes from what it is subscribed to.
MountUnsubscribe(t, q) ==
    /\ ~removed /\ MayCall(t, q, FALSE) /\ mountOf.mask # {} /\ users[q] > 0
    /\ LET f == Find(q)
           counted == Counted(f.id, Subscribes, OnMounts, -1)
       IN /\ IF f.id = 0 THEN UNCHANGED <<subscription, subscriptions>>
             ELSE /\ subscription' = counted
                  /\ subscriptions' = IF Abandoned(counted[f.id]) THEN Without(f.id)
                                      ELSE subscriptions
          /\ calls' = [calls EXCEPT ![t] = Append(@, NewCall("tell", q, f))]
    /\ users' = [users EXCEPT ![q] = @ - 1]
    /\ UNCHANGED <<mountOf, told, removed, misuse>>

\* on_unsubscribe and on_unmount, without the lock; the counts are read again.
TellUnsubscribed(t) ==
    /\ At(t, "tell")
    /\ LET i == Call(t).sub
           s == subscription[i]
       IN IF i = 0 THEN UNCHANGED <<subscription, told, misuse>>
          ELSE /\ Use(i)
               /\ told' = IF Subscribes /\ s.subscriberCount = 0 /\ s.subscriberCtx # Zero
                          THEN [told EXCEPT ![s.query] = @ - 1] ELSE told
               /\ subscription' = IF Abandoned(s) THEN Free(i) ELSE subscription
    /\ Return(t)
    /\ UNCHANGED <<mountOf, subscriptions, users, removed>>

(***************************************************************************)
(* corto_mount_destruct: every subscription that is left is told and freed.*)
(* Nobody is in a call to the mount then.                                  *)
(***************************************************************************)
MountDestruct ==
    /\ ~removed /\ mountOf.mask # {}
    /\ \A t \in Caller : calls[t] = <<>>
    /\ removed' = TRUE
    /\ LET left == {subscriptions[i] : i \in DOMAIN subscriptions} IN
          /\ told' = [q \in Query |-> told[q] - Cardinality({i \in left :
                        subscription[i].query = q /\ subscription[i].subscriberCtx # Zero})]
          /\ subscription' = [i \in SubscriptionId |->
                IF i \in left THEN [subscription[i] EXCEPT !.mem = "freed"] ELSE subscription[i]]
    /\ subscriptions' = <<>>
    /\ UNCHANGED <<mountOf, calls, users, misuse>>

MountGoOn(t) == Tell(t) \/ CallbackSubscribes(t) \/ Settle(t) \/ TellUnsubscribed(t)

(***************************************************************************)
(* Properties                                                              *)
(***************************************************************************)
\* The code behind a subscription that a thread has found or made may use it:
\* nobody frees it while the thread is in the call (mount.c:1263).
SubscriptionIsAllocated == misuse = "none"

Listed(q) == {i \in DOMAIN subscriptions : subscription[subscriptions[i]].query = q}
Idle == \A t \in Caller : calls[t] = <<>>

\* When nobody is in a call, a mount with a context for each query is told of
\* exactly the queries that have users, has one subscription for each of them,
\* and the count of that is the number of its users; a mount that
\* returns no context has no subscriptions.  Nothing is left after a destruct.
MountIsToldOfUsers ==
    Idle /\ misuse = "none" /\ mountOf.overlap # "any" /\ Subscribes => \A q \in Query :
        LET wanted == ~removed /\ users[q] > 0 /\ mountOf.answer = "distinct" IN
        /\ told[q] = One(wanted)
        /\ Cardinality(Listed(q)) = One(wanted)
        /\ wanted => \A i \in Listed(q) :
              subscription[subscriptions[i]].subscriberCount = users[q]

\* What a mount is told is true, and what its subscriptions count is there.
SubscriptionsAreSound == SubscriptionIsAllocated /\ MountIsToldOfUsers
=============================================================================
