--------------------- MODULE MountSubscriptions_proofs ---------------------
(***************************************************************************)
(* Proofs about Subscribers, for any threads, subscribers and queries: a   *)
(* mount is told of exactly the queries that have users, counts the users  *)
(* of each, and no subscription is used after it was freed.                *)
(***************************************************************************)
EXTENDS Subscribers_proofs

(***************************************************************************)
(* What a mount is told                                                    *)
(***************************************************************************)
\* The users of a mount whose contexts are its own for each query, or 0: either subscribers
\* with the same scope have the same query, or calls about one scope do not overlap, none is made by
\* on_subscribe, and the mount that is also asked to mount has no subscriber for its own scope.
OneSelect == \A s, u \in Subscriber : queryOf[s].from = queryOf[u].from => queryOf[s] = queryOf[u]
OneAtATime ==
    /\ mountOf.overlap = "none" /\ ~mountOf.recursive
    /\ Subscribes /\ OnMounts => \A s \in Subscriber : queryOf[s].from # "."
Regular == mountOf.answer # "shared" /\ mountOf.overlap # "any" /\ (OneSelect \/ OneAtATime)

Known(q) == \E s \in Subscriber : queryOf[s] = q
Distinct == mountOf.answer = "distinct"
SubAnswer(q) == IF Distinct /\ Subscribes THEN <<q.from, q.select>> ELSE Zero
MntAnswer(q) == IF Distinct /\ OnMounts /\ HasMountQuery(q) THEN <<q.from, q.select>> ELSE Zero

\* The outermost call of a thread.  It opens a subscription when none was found for its query.
InCall(t) == calls[t] # <<>>
First(t) == calls[t][1]
Opens(t) == InCall(t) /\ ~First(t).found /\ First(t).at # "tell"
Has(l, i) == \E n \in DOMAIN l : l[n] = i
OnList(i) == Has(subscriptions, i)
About(i) == subscription[i].query
Unlisted(q) == \A i \in SubscriptionId : OnList(i) => About(i) # q

\* Subscription i is a placeholder, or is counted for a call that opens another one.
Pending(i) == \E t \in Caller : InCall(t) /\ First(t).placeHolder = i
Lent(i) == \E t \in Caller : Opens(t) /\ First(t).sub = i
\* A query whose user is not yet counted, and one that the mount has been told of.
Moving(q) == \E t \in Caller : Opens(t) /\ First(t).sub # 0 /\ First(t).query = q
IsTold(q) ==
    \/ \E i \in SubscriptionId : OnList(i) /\ About(i) = q /\ ~Pending(i)
    \/ \E t \in Caller : Opens(t) /\ First(t).query = q /\ First(t).at # "notify"
    \/ \E t \in Caller, i \in SubscriptionId :
          /\ InCall(t) /\ First(t).at = "tell" /\ First(t).query = q
          /\ First(t).sub = i /\ ~OnList(i)

\* A call of on_subscribe finds the subscription of the outer call, and does nothing else.
StackOK(t) ==
    /\ Len(calls[t]) <= 2
    /\ Len(calls[t]) = 2 =>
          /\ First(t).at = "settle" /\ ~First(t).found
          /\ calls[t][2].at \in {"notify", "settle"} /\ calls[t][2].query = First(t).query
          /\ calls[t][2].found /\ calls[t][2].placeHolder = 0
          /\ calls[t][2].subCtx = Zero /\ calls[t][2].mntCtx = Zero

\* A call that opens a subscription has a placeholder, or has found another one of the scope.
OpenOK(t, q) ==
    /\ First(t).sub = 0 =>
          \E p \in SubscriptionId : First(t).placeHolder = p /\ OnList(p) /\ About(p) = q
    /\ First(t).sub # 0 =>
          /\ OneAtATime /\ Distinct /\ First(t).placeHolder = 0 /\ First(t).at # "callback"
          /\ Unlisted(q)
          /\ \E i \in SubscriptionId : First(t).sub = i /\ OnList(i) /\ About(i).from = q.from
    /\ First(t).at = "notify" => First(t).subCtx = Zero /\ First(t).mntCtx = Zero
    /\ First(t).at # "notify" => First(t).subCtx = SubAnswer(q) /\ First(t).mntCtx = MntAnswer(q)
FoundOK(t) ==
    /\ First(t).placeHolder = 0 /\ First(t).at # "callback"
    /\ First(t).subCtx = Zero /\ First(t).mntCtx = Zero
\* Who tells of an unsubscribe has the subscription, also when it is off the list.
TellOK(t, q) ==
    /\ First(t).placeHolder = 0
    /\ \A i \in SubscriptionId : First(t).sub = i =>
          /\ First(t).found /\ Distinct /\ subscription[i].mem = "live" /\ About(i) = q
          /\ ~OnList(i) => /\ Unlisted(q) /\ subscription[i].subscriberCtx = SubAnswer(q)
                           /\ subscription[i].subscriberCount = 0 /\ subscription[i].mountCount = 0
CallOK(t, q) == InCall(t) /\ First(t).query = q =>
    /\ mountOf.mask # {} /\ ~removed /\ Known(q)
    /\ Opens(t) => OpenOK(t, q)
    /\ First(t).found => FoundOK(t)
    /\ First(t).at = "tell" => TellOK(t, q)

\* Calls about one scope that overlap are subscribes of one query, and one of them opens.
Together(t, u) ==
    InCall(t) /\ InCall(u) /\ First(t).query.from = First(u).query.from =>
        /\ mountOf.overlap = "subscribes" /\ First(t).query = First(u).query
        /\ First(t).at # "tell" /\ First(u).at # "tell" /\ ~(Opens(t) /\ Opens(u))

\* A subscription of the list: its contexts, and its counts.
ListOK(i, q) == OnList(i) /\ About(i) = q =>
    /\ subscription[i].mem = "live" /\ mountOf.mask # {} /\ ~removed /\ Known(q)
    /\ Pending(i) => subscription[i].subscriberCtx = Zero /\ subscription[i].mountCtx = Zero
    /\ ~Pending(i) => /\ Distinct /\ subscription[i].subscriberCtx = SubAnswer(q)
                      /\ subscription[i].mountCtx = MntAnswer(q)
CountOK(i, q) == OnList(i) /\ About(i) = q /\ Distinct =>
    /\ users[q] > 0
    /\ subscription[i].subscriberCount = IF Subscribes THEN users[q] + One(Lent(i)) ELSE 0
    /\ subscription[i].mountCount = IF OnMounts THEN users[q] + One(Lent(i)) ELSE 0
OnceOK == /\ \A m, n \in DOMAIN subscriptions : subscriptions[m] = subscriptions[n] => m = n
          /\ \A i, j \in SubscriptionId : OnList(i) /\ OnList(j) /\ About(i) = About(j) => i = j

QueryOK(q) ==
    /\ Unlisted(q) /\ Distinct /\ ~removed => users[q] = One(Moving(q))
    /\ told[q] = One(Distinct /\ Subscribes /\ IsTold(q))
    /\ users[q] > 0 => Known(q)

ToldInv ==
    /\ misuse = "none" /\ OnceOK
    /\ \A t \in Caller : StackOK(t) /\ \A q \in Query : CallOK(t, q)
    /\ \A t, u \in Caller : t # u => Together(t, u)
    /\ \A i \in SubscriptionId, q \in Query : ListOK(i, q) /\ CountOK(i, q)
    /\ \A q \in Query : QueryOK(q)

Subs == [query: Query, subscriberCount: Int, mountCount: Int,
         subscriberCtx: {Zero} \cup Seq(From \cup Select \cup {"*"}),
         mountCtx: {Zero} \cup Seq(From \cup Select \cup {"*"}), mem: {"unused", "live", "freed"}]
CallFrames == [at: {"notify", "callback", "settle", "tell"}, query: Query,
               sub: SubscriptionId \cup {0}, found: BOOLEAN, placeHolder: SubscriptionId \cup {0},
               subCtx: {Zero} \cup Seq(From \cup Select \cup {"*"}),
               mntCtx: {Zero} \cup Seq(From \cup Select \cup {"*"})]
MountTyped ==
    /\ mountOf \in Mounts /\ queryOf \in [Subscriber -> Query]
    /\ subscriptions \in Seq(SubscriptionId) /\ subscription \in [SubscriptionId -> Subs]
    /\ calls \in [Caller -> Seq(CallFrames)]
    /\ users \in [Query -> Nat] /\ told \in [Query -> Int] /\ removed \in BOOLEAN

\* A query is its scope and its select, and so is the context that a mount makes of it.
LEMMA QueriesAre ==
    /\ \A q, r \in Query : q.from = r.from /\ q.select = r.select => q = r
    /\ \A q \in Query : /\ <<q.from, q.select>> \in Seq(From \cup Select \cup {"*"})
                        /\ <<q.from, q.select>> # Zero
    /\ \A q, r \in Query : <<q.from, q.select>> = <<r.from, r.select>> => q = r
<1>1. \A q, r \in Query : q.from = r.from /\ q.select = r.select => q = r
    BY DEF Query
<1>2. \A q \in Query : /\ <<q.from, q.select>> \in Seq(From \cup Select \cup {"*"})
                       /\ <<q.from, q.select>> # Zero
    BY DEF Query, Zero
<1>3. \A q, r \in Query : <<q.from, q.select>> = <<r.from, r.select>> => q = r
    BY <1>1
<1> QED
    BY <1>1, <1>2, <1>3

\* 0 is no subscription.
LEMMA IdsAre == SubscriptionId \subseteq Nat /\ 0 \notin SubscriptionId
    BY MountSubscriptionsAssumption DEF SubscriptionId

\* A set of numbers up to n has a greatest one.
LEMMA GreatestExists ==
    ASSUME NEW n \in Nat, NEW S, S \subseteq 1..n, S # {}
    PROVE  \E m \in S : \A c \in S : c <= m
<1> DEFINE D == {n - m : m \in S}
<1>1. D \subseteq Nat /\ D # {}
  <2>1. \A m \in S : m \in 1..n /\ n - m \in Nat
      OBVIOUS
  <2> QED
      BY <2>1
<1> HIDE DEF D
<1>2. PICK d \in D : \A c \in D : d <= c
    BY <1>1, LeastExists
<1>3. PICK m \in S : d = n - m
    BY <1>2 DEF D
<1>4. \A c \in S : n - c \in D
    BY DEF D
<1>5. \A c \in S : n - m <= n - c
    BY <1>2, <1>3, <1>4
<1>6. \A c \in S : c \in Nat /\ c <= m
    BY <1>3, <1>5
<1> QED
    BY <1>3, <1>6

\* Adding to the list, and removing from it.
LEMMA AppendedTo ==
    ASSUME NEW l \in Seq(SubscriptionId), NEW i \in SubscriptionId
    PROVE  /\ Append(l, i) \in Seq(SubscriptionId)
           /\ \A j : Has(Append(l, i), j) <=> Has(l, j) \/ j = i
           /\ ~Has(l, i) /\ (\A m, n \in DOMAIN l : l[m] = l[n] => m = n) =>
                \A m, n \in DOMAIN Append(l, i) : Append(l, i)[m] = Append(l, i)[n] => m = n
<1>1. PICK r : r = Append(l, i)
    OBVIOUS
<1>2. /\ r \in Seq(SubscriptionId) /\ DOMAIN r = 1..Len(l) + 1 /\ Len(l) \in Nat /\ DOMAIN l = 1..Len(l)
      /\ r[Len(l) + 1] = i /\ \A n \in 1..Len(l) : r[n] = l[n]
    BY <1>1
<1>3. PICK k : k = Len(l)
    OBVIOUS
<1>4. \A j : Has(r, j) <=> Has(l, j) \/ j = i
  <2> SUFFICES ASSUME NEW j PROVE Has(r, j) <=> Has(l, j) \/ j = i
      OBVIOUS
  <2>1. ASSUME Has(l, j) PROVE Has(r, j)
      BY <1>2, <2>1 DEF Has
  <2>2. j = i => Has(r, j)
      BY <1>2 DEF Has
  <2>3. ASSUME Has(r, j), j # i PROVE Has(l, j)
    <3>1. PICK n \in DOMAIN r : r[n] = j
        BY <2>3 DEF Has
    <3>2. n # Len(l) + 1
        BY <1>2, <2>3, <3>1
    <3>3. n \in 1..k
        BY <1>2, <1>3, <3>1, <3>2
    <3> QED
        BY <1>2, <1>3, <3>1, <3>3 DEF Has
  <2> QED
      BY <2>1, <2>2, <2>3
<1>5. ASSUME ~Has(l, i), \A m, n \in DOMAIN l : l[m] = l[n] => m = n, NEW m \in DOMAIN r, NEW n \in DOMAIN r,
             r[m] = r[n]
      PROVE  m = n
  <2>1. (m \in 1..k \/ m = k + 1) /\ (n \in 1..k \/ n = k + 1)
      BY <1>2, <1>3, <1>5
  <2>2. \A x \in 1..k : r[x] = l[x] /\ l[x] # i /\ x \in DOMAIN l
      BY <1>2, <1>3, <1>5 DEF Has
  <2> QED
      BY <1>2, <1>3, <1>5, <2>1, <2>2
<1> QED
    BY <1>1, <1>2, <1>4, <1>5

\* What corto_ll_remove leaves in the list.
LEMMA RemovedFrom ==
    ASSUME subscriptions \in Seq(SubscriptionId), OnceOK, NEW i \in SubscriptionId
    PROVE  /\ Without(i) \in Seq(SubscriptionId)
           /\ \A j : Has(Without(i), j) <=> OnList(j) /\ j # i
           /\ \A m, n \in DOMAIN Without(i) : Without(i)[m] = Without(i)[n] => m = n
<1>1. PICK l : l = subscriptions
    OBVIOUS
<1>2. l \in Seq(SubscriptionId) /\ DOMAIN l = 1..Len(l) /\ Len(l) \in Nat
      /\ \A m, n \in DOMAIN l : l[m] = l[n] => m = n
    BY <1>1 DEF OnceOK
<1>3. \A j : OnList(j) <=> Has(l, j)
    BY <1>1 DEF OnList
<1>4. CASE Places(i) = {}
  <2>1. Without(i) = l /\ ~Has(l, i)
      BY <1>1, <1>4 DEF Without, Places, Has
  <2> QED
      BY <1>2, <1>3, <2>1
<1>5. CASE Places(i) # {}
  <2>1. PICK k : k = (CHOOSE n \in Places(i) : \A m \in Places(i) : n <= m)
      OBVIOUS
  <2>2. Places(i) \subseteq Nat /\ Places(i) \subseteq DOMAIN l
      BY <1>1, <1>2 DEF Places
  <2>3. \E n \in Places(i) : \A m \in Places(i) : n <= m
      BY <1>5, <2>2, LeastExists
  <2>4. k \in Places(i)
      BY <2>1, <2>3
  <2>5. k \in 1..Len(l) /\ l[k] = i
      BY <1>1, <1>2, <2>4 DEF Places
  <2>6. PICK r : r = Without(i)
      OBVIOUS
  <2>7. r = SubSeq(l, 1, k - 1) \o SubSeq(l, k + 1, Len(l))
      BY <1>1, <1>5, <2>1, <2>6 DEF Without, RemoveAt
  <2>8. PICK L : L = Len(l)
      OBVIOUS
  <2>9. /\ r \in Seq(SubscriptionId) /\ Len(r) = L - 1 /\ DOMAIN r = 1..L - 1 /\ L \in Nat
        /\ \A n \in 1..L - 1 : r[n] = IF n < k THEN l[n] ELSE l[n + 1]
    <3>1. PICK a, b : a = SubSeq(l, 1, k - 1) /\ b = SubSeq(l, k + 1, L)
        OBVIOUS
    <3>2. k \in 1..L /\ L \in Nat /\ k \in Nat
        BY <1>2, <2>5, <2>8
    <3>3. \A n \in 1..L : l[n] \in SubscriptionId
        BY <1>2, <2>8
    <3>4. \A n \in 1..k - 1 : l[n] \in SubscriptionId
        BY <3>2, <3>3
    <3>5. \A n \in k + 1..L : l[n] \in SubscriptionId
        BY <3>2, <3>3
    <3>6. /\ a \in Seq(SubscriptionId) /\ Len(a) = IF 1 <= k - 1 THEN k - 1 - 1 + 1 ELSE 0
          /\ \A n \in 1..k - 1 - 1 + 1 : a[n] = l[1 + n - 1]
      <4>1. k - 1 \in Int /\ 1 \in Int
          BY <3>2
      <4> QED
          BY <3>1, <3>4, <4>1, SubSeqProperties
    <3>7. /\ b \in Seq(SubscriptionId) /\ Len(b) = IF k + 1 <= L THEN L - (k + 1) + 1 ELSE 0
          /\ \A n \in 1..L - (k + 1) + 1 : b[n] = l[k + 1 + n - 1]
      <4>1. k + 1 \in Int /\ L \in Int
          BY <3>2
      <4> QED
          BY <3>1, <3>5, <4>1, SubSeqProperties
    <3>8. PICK x, y : x = Len(a) /\ y = Len(b)
        OBVIOUS
    <3>9. x = k - 1 /\ y = L - k
        BY <3>2, <3>6, <3>7, <3>8
    <3>10. /\ r \in Seq(SubscriptionId) /\ Len(r) = x + y
           /\ \A n \in 1..x + y : r[n] = IF n <= x THEN a[n] ELSE b[n - x]
      <4>1. r = a \o b
          BY <2>7, <2>8, <3>1
      <4>2. a \in Seq(SubscriptionId) /\ b \in Seq(SubscriptionId)
          BY <3>6, <3>7
      <4>3. /\ a \o b \in Seq(SubscriptionId) /\ Len(a \o b) = Len(a) + Len(b)
            /\ \A n \in 1..Len(a) + Len(b) : (a \o b)[n] = IF n <= Len(a) THEN a[n] ELSE b[n - Len(a)]
          BY <4>2, ConcatProperties
      <4> QED
          BY <3>8, <4>1, <4>3
    <3>11. x + y = L - 1
        BY <3>2, <3>9
    <3>12. ASSUME NEW n \in 1..L - 1 PROVE r[n] = IF n < k THEN l[n] ELSE l[n + 1]
      <4>1. r[n] = IF n <= x THEN a[n] ELSE b[n - x]
          BY <3>10, <3>11
      <4>2. CASE n < k
        <5>1. n <= x /\ n \in 1..k - 1 - 1 + 1 /\ 1 + n - 1 = n
            BY <3>2, <3>9, <4>2
        <5> QED
            BY <3>6, <4>1, <4>2, <5>1
      <4>3. CASE ~(n < k)
        <5>1. ~(n <= x) /\ n - x \in 1..L - (k + 1) + 1 /\ k + 1 + (n - x) - 1 = n + 1
            BY <3>2, <3>9, <4>3
        <5> QED
            BY <3>7, <4>1, <4>3, <5>1
      <4> QED
          BY <4>2, <4>3
    <3>13. Len(r) = L - 1 /\ DOMAIN r = 1..L - 1
        BY <3>10, <3>11
    <3> QED
        BY <3>2, <3>10, <3>12, <3>13
  <2>10. \A j : Has(r, j) <=> Has(l, j) /\ j # i
    <3>1. ASSUME NEW j, Has(r, j) PROVE Has(l, j) /\ j # i
      <4>1. PICK n \in 1..L - 1 : r[n] = j
          BY <2>9, <3>1 DEF Has
      <4>2. PICK m : m = IF n < k THEN n ELSE n + 1
          OBVIOUS
      <4>3. m \in 1..L /\ m # k /\ l[m] = j
          BY <2>5, <2>8, <2>9, <4>1, <4>2
      <4> QED
          BY <1>2, <2>5, <2>8, <4>3 DEF Has
    <3>2. ASSUME NEW j, Has(l, j), j # i PROVE Has(r, j)
      <4>1. PICK m \in 1..L : l[m] = j
          BY <1>2, <2>8, <3>2 DEF Has
      <4>2. m # k
          BY <2>5, <3>2, <4>1
      <4>3. PICK n : n = IF m < k THEN m ELSE m - 1
          OBVIOUS
      <4>4. n \in 1..L - 1 /\ r[n] = j
          BY <2>5, <2>8, <2>9, <4>1, <4>2, <4>3
      <4> QED
          BY <2>9, <4>4 DEF Has
    <3> QED
        BY <3>1, <3>2
  <2>11. \A m, n \in DOMAIN r : r[m] = r[n] => m = n
    <3> SUFFICES ASSUME NEW m \in 1..L - 1, NEW n \in 1..L - 1, r[m] = r[n] PROVE m = n
        BY <2>9
    <3>1. PICK a, b : a = (IF m < k THEN m ELSE m + 1) /\ b = (IF n < k THEN n ELSE n + 1)
        OBVIOUS
    <3>2. a \in 1..L /\ b \in 1..L /\ l[a] = r[m] /\ l[b] = r[n]
        BY <2>5, <2>8, <2>9, <3>1
    <3>3. a = b
        BY <1>2, <2>8, <3>2
    <3> QED
        BY <2>5, <2>8, <2>9, <3>1, <3>3
  <2> QED
      BY <1>3, <2>6, <2>9, <2>10, <2>11
<1> QED
    BY <1>4, <1>5

\* What corto_mount_findSubscription finds: the subscription for the query, or one with its scope.
LEMMA FindIs ==
    ASSUME MountTyped, OnceOK, NEW q \in Query
    PROVE  LET f == Find(q)
           IN  /\ f = [id |-> f.id, found |-> f.found]
               /\ f.id \in SubscriptionId \cup {0} /\ f.found \in BOOLEAN
               /\ f.id # 0 => OnList(f.id) /\ About(f.id).from = q.from
               /\ f.found => f.id # 0 /\ About(f.id) = q
               /\ ~f.found => Unlisted(q)
               /\ f.id = 0 => \A i \in SubscriptionId : OnList(i) => About(i).from # q.from
<1>1. PICK f : f = Find(q)
    OBVIOUS
<1>2. PICK L : L = Len(subscriptions)
    OBVIOUS
<1>3. /\ DOMAIN subscriptions = 1..L /\ L \in Nat /\ SubscriptionId \subseteq Nat /\ 0 \notin SubscriptionId
      /\ \A n \in 1..L : subscriptions[n] \in SubscriptionId
      /\ \A i \in SubscriptionId : About(i) \in Query
    BY <1>2, IdsAre DEF MountTyped, Subs, About
<1>4. \A n : n \in SameFrom(q) <=> n \in 1..L /\ About(subscriptions[n]).from = q.from
    BY <1>3 DEF SameFrom, About
<1>5. \A n : n \in Exact(q) <=> n \in SameFrom(q) /\ About(subscriptions[n]) = q
    BY <1>3, <1>4, QueriesAre DEF Exact, About
<1>6. \A i : OnList(i) <=> \E n \in 1..L : subscriptions[n] = i
    BY <1>3 DEF OnList, Has
<1>7. CASE Exact(q) # {}
  <2>1. PICK n : n = (CHOOSE x \in Exact(q) : \A j \in Exact(q) : x <= j)
      OBVIOUS
  <2>2. \E x \in Exact(q) : \A j \in Exact(q) : x <= j
    <3>1. Exact(q) \subseteq Nat
        BY <1>3, <1>4, <1>5
    <3> QED
        BY <1>7, <3>1, LeastExists
  <2>3. n \in Exact(q)
      BY <2>1, <2>2
  <2>4. f = [id |-> subscriptions[n], found |-> TRUE]
      BY <1>1, <1>7, <2>1 DEF Find
  <2> QED
      BY <1>1, <1>3, <1>4, <1>5, <1>6, <2>3, <2>4
<1>8. CASE Exact(q) = {} /\ SameFrom(q) # {}
  <2>1. PICK n : n = (CHOOSE x \in SameFrom(q) : \A j \in SameFrom(q) : j <= x)
      OBVIOUS
  <2>2. \E x \in SameFrom(q) : \A j \in SameFrom(q) : j <= x
    <3>1. SameFrom(q) \subseteq 1..L
        BY <1>4
    <3> QED
        BY <1>3, <1>8, <3>1, GreatestExists
  <2>3. n \in SameFrom(q)
      BY <2>1, <2>2
  <2>4. f = [id |-> subscriptions[n], found |-> FALSE]
      BY <1>1, <1>8, <2>1 DEF Find
  <2>5. Unlisted(q)
      BY <1>4, <1>5, <1>6, <1>8 DEF Unlisted
  <2> QED
      BY <1>1, <1>3, <1>4, <1>6, <2>3, <2>4, <2>5
<1>9. CASE SameFrom(q) = {}
  <2>1. Exact(q) = {}
      BY <1>5, <1>9
  <2>2. f = [id |-> 0, found |-> FALSE]
      BY <1>1, <1>9, <2>1 DEF Find
  <2>3. \A i \in SubscriptionId : OnList(i) => About(i).from # q.from
      BY <1>4, <1>6, <1>9
  <2>4. Unlisted(q)
      BY <2>3 DEF Unlisted
  <2> QED
      BY <1>1, <2>2, <2>3, <2>4
<1> QED
    BY <1>7, <1>8, <1>9

\* A new subscription was not used before.
LEMMA NewIdIs ==
    ASSUME MountTyped, Unused # {}
    PROVE  NewId \in SubscriptionId /\ subscription[NewId].mem = "unused"
<1>1. Unused \subseteq Nat
    BY IdsAre DEF Unused
<1>2. PICK S : S = Unused
    OBVIOUS
<1>3. PICK n \in S : \A c \in S : n <= c
    BY <1>1, <1>2, LeastExists
<1>4. NewId \in Unused
    BY <1>2, <1>3 DEF NewId
<1> QED
    BY <1>4 DEF Unused

(***************************************************************************)
(* A step of one thread about one query, and what it leaves alone          *)
(***************************************************************************)
Quietly(t, q) ==
    /\ UNCHANGED <<mountOf, queryOf, removed>>
    /\ \A u \in Caller \ {t} : calls'[u] = calls[u]
    /\ InCall(t) => First(t).query = q
    /\ InCall(t)' => First(t)'.query = q
    /\ \A i \in SubscriptionId : InCall(t)' /\ First(t)'.placeHolder = i /\ OnList(i)' => About(i)' = q
    /\ \A u \in Caller \ {t} : InCall(u) /\ First(u).query.from = q.from =>
          mountOf.overlap = "subscribes" /\ First(u).query = q /\ First(u).at # "tell"
    /\ \A u \in Caller \ {t}, p \in SubscriptionId :
          Opens(u) /\ First(u).query = q /\ First(u).placeHolder = p => OnList(p)' /\ About(p)' = q
    /\ \A i \in SubscriptionId : OnList(i) /\ About(i) # q =>
          /\ OnList(i)' /\ About(i)' = About(i)
          /\ subscription'[i].mem = subscription[i].mem
          /\ subscription'[i].subscriberCtx = subscription[i].subscriberCtx
          /\ subscription'[i].mountCtx = subscription[i].mountCtx
    /\ \A i \in SubscriptionId : OnList(i)' => About(i)' = q \/ (OnList(i) /\ About(i)' = About(i))
    /\ \A i \in SubscriptionId : subscription[i].mem = "live" /\ ~OnList(i) /\ About(i) # q =>
          ~OnList(i)' /\ subscription'[i] = subscription[i]
    /\ \A r \in Query : r # q => users'[r] = users[r] /\ told'[r] = told[r]

\* The calls of a thread are typed.
LEMMA TypeOfCalls ==
    ASSUME MountTyped, NEW t \in Caller
    PROVE  /\ calls[t] \in Seq(CallFrames)
           /\ InCall(t) => First(t) \in CallFrames /\ First(t).query \in Query
                           /\ First(t).sub \in SubscriptionId \cup {0} /\ First(t).placeHolder \in SubscriptionId \cup {0}
<1>1. PICK s : s = calls[t]
    OBVIOUS
<1>2. s \in Seq(CallFrames)
    BY <1>1 DEF MountTyped
<1>3. s # <<>> => s[1] \in CallFrames
    BY <1>2
<1> QED
    BY <1>1, <1>2, <1>3 DEF InCall, First, CallFrames

\* Who has a placeholder opens its query.
LEMMA PlaceHoldersAre ==
    ASSUME MountTyped, ToldInv, NEW t \in Caller, NEW p \in SubscriptionId, InCall(t), First(t).placeHolder = p
    PROVE  Opens(t) /\ First(t).sub = 0 /\ OnList(p) /\ About(p) = First(t).query
<1>1. PICK q \in Query : First(t).query = q
    BY TypeOfCalls
<1>2. CallOK(t, q) /\ p # 0
    BY <1>1, IdsAre DEF ToldInv
<1> QED
    BY <1>1, <1>2 DEF CallOK, FoundOK, TellOK, OpenOK, Opens

\* A call about another query lists nothing of this one.
LEMMA UnlistedSame ==
    ASSUME NEW t \in Caller, NEW q \in Query, Quietly(t, q), NEW r \in Query, r # q
    PROVE  Unlisted(r)' <=> Unlisted(r)
<1>1. ASSUME Unlisted(r), NEW i \in SubscriptionId, OnList(i)' PROVE About(i)' # r
    BY <1>1 DEF Quietly, Unlisted
<1>2. ASSUME Unlisted(r)', NEW i \in SubscriptionId, OnList(i) PROVE About(i) # r
    BY <1>2 DEF Quietly, Unlisted
<1>3. Unlisted(r) => Unlisted(r)'
    BY <1>1 DEF Unlisted
<1>4. Unlisted(r)' => Unlisted(r)
    BY <1>2 DEF Unlisted
<1> QED
    BY <1>3, <1>4

\* A call about another query makes no placeholder of this one.
LEMMA PendingSame ==
    ASSUME MountTyped, ToldInv, NEW t \in Caller, NEW q \in Query, Quietly(t, q),
           NEW i \in SubscriptionId, OnList(i), About(i) # q
    PROVE  Pending(i)' <=> Pending(i)
<1>1. OnList(i)' /\ About(i)' # q
    BY DEF Quietly
<1>2. ~(InCall(t) /\ First(t).placeHolder = i)
    BY PlaceHoldersAre DEF Quietly
<1>3. ~(InCall(t)' /\ First(t)'.placeHolder = i)
    BY <1>1 DEF Quietly
<1>4. \A u \in Caller : u # t => (InCall(u)' <=> InCall(u)) /\ First(u)' = First(u)
    BY DEF Quietly, InCall, First
<1> QED
    BY <1>2, <1>3, <1>4 DEF Pending

\* The calls of the other threads stay as they are.
LEMMA OthersCalls ==
    ASSUME MountTyped, ToldInv, NEW t \in Caller, NEW q \in Query, Quietly(t, q),
           NEW u \in Caller, u # t, NEW r \in Query
    PROVE  StackOK(u)' /\ CallOK(u, r)'
<1>1. calls'[u] = calls[u] /\ (InCall(u)' <=> InCall(u)) /\ First(u)' = First(u) /\ (Opens(u)' <=> Opens(u))
    BY DEF Quietly, InCall, First, Opens
<1>2. StackOK(u)'
    BY <1>1 DEF ToldInv, StackOK
<1>3. CallOK(u, r)'
  <2> SUFFICES ASSUME InCall(u), First(u).query = r PROVE CallOK(u, r)'
      BY <1>1 DEF CallOK
  <2>1. mountOf' = mountOf /\ queryOf' = queryOf /\ removed' = removed
      BY DEF Quietly
  <2>2. CallOK(u, r)
      BY DEF ToldInv
  <2>3. (mountOf.mask # {} /\ ~removed /\ Known(r))'
      BY <2>1, <2>2 DEF CallOK, Known
  <2>4. r # q => (Unlisted(r)' <=> Unlisted(r))
      BY UnlistedSame
  <2>5. r.from = q.from => mountOf.overlap = "subscribes" /\ r = q /\ First(u).at # "tell"
      BY DEF Quietly
  <2>6. ASSUME Opens(u) PROVE OpenOK(u, r)'
    <3>1. OpenOK(u, r)
        BY <2>2, <2>6 DEF CallOK
    <3>2. ASSUME First(u).sub = 0
          PROVE  \E p \in SubscriptionId : First(u).placeHolder = p /\ OnList(p)' /\ About(p)' = r
      <4>1. PICK p \in SubscriptionId : First(u).placeHolder = p /\ OnList(p) /\ About(p) = r
          BY <3>1, <3>2 DEF OpenOK
      <4>2. OnList(p)' /\ About(p)' = r
          BY <2>6, <4>1 DEF Quietly
      <4> QED
          BY <4>1, <4>2
    <3>3. ASSUME First(u).sub # 0
          PROVE  /\ (OneAtATime /\ Distinct)' /\ Unlisted(r)'
                 /\ \E i \in SubscriptionId : First(u).sub = i /\ OnList(i)' /\ About(i)'.from = r.from
      <4>1. OneAtATime /\ Distinct /\ Unlisted(r)
          BY <3>1, <3>3 DEF OpenOK
      <4>2. (OneAtATime /\ Distinct)'
          BY <2>1, <4>1 DEF OneAtATime, Distinct, Subscribes, OnMounts, Masked
      <4>3. r.from # q.from /\ r # q
          BY <2>5, <4>1 DEF OneAtATime
      <4>4. PICK i \in SubscriptionId : First(u).sub = i /\ OnList(i) /\ About(i).from = r.from
          BY <3>1, <3>3 DEF OpenOK
      <4>5. OnList(i)' /\ About(i)'.from = r.from
          BY <4>3, <4>4 DEF Quietly
      <4> QED
          BY <2>4, <4>1, <4>2, <4>3, <4>4, <4>5
    <3>4. /\ First(u).at = "notify" => First(u).subCtx = Zero /\ First(u).mntCtx = Zero
          /\ First(u).at # "notify" => First(u).subCtx = SubAnswer(r)' /\ First(u).mntCtx = MntAnswer(r)'
        BY <2>1, <3>1 DEF OpenOK, SubAnswer, MntAnswer, Distinct, Subscribes, OnMounts, Masked, HasMountQuery
    <3>5. First(u).sub # 0 => First(u).placeHolder = 0 /\ First(u).at # "callback"
        BY <3>1 DEF OpenOK
    <3> QED
        BY <1>1, <3>2, <3>3, <3>4, <3>5 DEF OpenOK
  <2>7. ASSUME First(u).at = "tell" PROVE TellOK(u, r)'
    <3>1. TellOK(u, r)
        BY <2>2, <2>7 DEF CallOK
    <3>2. r # q
        BY <2>5, <2>7
    <3>3. ASSUME NEW i \in SubscriptionId, First(u).sub = i
          PROVE  /\ First(u).found /\ Distinct' /\ subscription'[i].mem = "live" /\ About(i)' = r
                 /\ ~OnList(i)' => /\ Unlisted(r)' /\ subscription'[i].subscriberCtx = SubAnswer(r)'
                                   /\ subscription'[i].subscriberCount = 0 /\ subscription'[i].mountCount = 0
      <4>1. /\ First(u).found /\ Distinct /\ subscription[i].mem = "live" /\ About(i) = r
            /\ ~OnList(i) => /\ Unlisted(r) /\ subscription[i].subscriberCtx = SubAnswer(r)
                             /\ subscription[i].subscriberCount = 0 /\ subscription[i].mountCount = 0
          BY <3>1, <3>3 DEF TellOK
      <4>2. Distinct' /\ SubAnswer(r)' = SubAnswer(r)
          BY <2>1, <4>1 DEF Distinct, SubAnswer, Subscribes, Masked
      <4>3. CASE OnList(i)
          BY <3>2, <4>1, <4>2, <4>3 DEF Quietly
      <4>4. CASE ~OnList(i)
        <5>1. subscription'[i] = subscription[i]
            BY <3>2, <4>1, <4>4 DEF Quietly
        <5>2. About(i)' = About(i)
            BY <5>1 DEF About
        <5> QED
            BY <2>4, <3>2, <4>1, <4>2, <4>4, <5>1, <5>2
      <4> QED
          BY <4>3, <4>4
    <3>4. First(u).placeHolder = 0
        BY <3>1 DEF TellOK
    <3> QED
        BY <1>1, <3>3, <3>4 DEF TellOK
  <2>8. First(u).found => FoundOK(u)'
      BY <1>1, <2>2 DEF CallOK, FoundOK
  <2> QED
      BY <1>1, <2>3, <2>6, <2>7, <2>8 DEF CallOK
<1> QED
    BY <1>2, <1>3

\* The subscriptions of the other queries stay as they are.
LEMMA OthersOnList ==
    ASSUME MountTyped, ToldInv, NEW t \in Caller, NEW q \in Query, Quietly(t, q),
           NEW i \in SubscriptionId, NEW r \in Query, r # q
    PROVE  ListOK(i, r)'
<1> SUFFICES ASSUME OnList(i)', About(i)' = r PROVE ListOK(i, r)'
    BY DEF ListOK
<1>1. OnList(i) /\ About(i) = r /\ About(i) # q
    BY DEF Quietly
<1>2. ListOK(i, r)
    BY DEF ToldInv
<1>3. Pending(i)' <=> Pending(i)
    BY <1>1, PendingSame
<1>4. /\ subscription'[i].mem = subscription[i].mem
      /\ subscription'[i].subscriberCtx = subscription[i].subscriberCtx
      /\ subscription'[i].mountCtx = subscription[i].mountCtx
      /\ mountOf' = mountOf /\ queryOf' = queryOf /\ removed' = removed
    BY <1>1 DEF Quietly
<1>5. (Distinct' <=> Distinct) /\ SubAnswer(r)' = SubAnswer(r) /\ MntAnswer(r)' = MntAnswer(r) /\ (Known(r)' <=> Known(r))
    BY <1>4 DEF Distinct, SubAnswer, MntAnswer, Subscribes, OnMounts, Masked, HasMountQuery, Known
<1> QED
    BY <1>1, <1>2, <1>3, <1>4, <1>5 DEF ListOK

\* The other queries stay as they are.
LEMMA OthersQueries ==
    ASSUME MountTyped, ToldInv, NEW t \in Caller, NEW q \in Query, Quietly(t, q), NEW r \in Query, r # q
    PROVE  QueryOK(r)'
<1>1. QueryOK(r)
    BY DEF ToldInv
<1>2. Unlisted(r)' <=> Unlisted(r)
    BY UnlistedSame
<1>3. /\ mountOf' = mountOf /\ queryOf' = queryOf /\ removed' = removed
      /\ users'[r] = users[r] /\ told'[r] = told[r]
    BY DEF Quietly
<1>4. /\ \A u \in Caller : u # t => (InCall(u)' <=> InCall(u)) /\ First(u)' = First(u) /\ (Opens(u)' <=> Opens(u))
      /\ InCall(t) => First(t).query # r
      /\ InCall(t)' => First(t)'.query # r
    BY DEF Quietly, InCall, First, Opens
<1>5. Moving(r)' <=> Moving(r)
    BY <1>4 DEF Moving, Opens
<1>6. \A i \in SubscriptionId : (OnList(i) /\ About(i) = r /\ ~Pending(i)) <=> (OnList(i) /\ About(i) = r /\ ~Pending(i))'
  <2> SUFFICES ASSUME NEW i \in SubscriptionId
               PROVE  (OnList(i) /\ About(i) = r /\ ~Pending(i)) <=> (OnList(i) /\ About(i) = r /\ ~Pending(i))'
      OBVIOUS
  <2>1. OnList(i) /\ About(i) = r <=> OnList(i)' /\ About(i)' = r
      BY DEF Quietly
  <2>2. OnList(i) /\ About(i) = r => (Pending(i)' <=> Pending(i))
      BY PendingSame
  <2> QED
      BY <2>1, <2>2
<1>7. ASSUME NEW u \in Caller, NEW i \in SubscriptionId
      PROVE  (InCall(u) /\ First(u).at = "tell" /\ First(u).query = r /\ First(u).sub = i /\ ~OnList(i)) <=>
             (InCall(u) /\ First(u).at = "tell" /\ First(u).query = r /\ First(u).sub = i /\ ~OnList(i))'
  <2>1. CASE u = t
      BY <1>4, <2>1
  <2>2. CASE u # t
    <3> SUFFICES ASSUME InCall(u), First(u).at = "tell", First(u).query = r, First(u).sub = i
                 PROVE  OnList(i)' <=> OnList(i)
        BY <1>4, <2>2
    <3>1. About(i) = r /\ subscription[i].mem = "live"
        BY DEF ToldInv, CallOK, TellOK
    <3> QED
        BY <3>1 DEF Quietly
  <2> QED
      BY <2>1, <2>2
<1>8. (\E u \in Caller : Opens(u) /\ First(u).query = r /\ First(u).at # "notify") <=>
      (\E u \in Caller : Opens(u) /\ First(u).query = r /\ First(u).at # "notify")'
    BY <1>4 DEF Opens
<1>9. IsTold(r)' <=> IsTold(r)
    BY <1>6, <1>7, <1>8 DEF IsTold
<1>10. (Distinct' <=> Distinct) /\ (Subscribes' <=> Subscribes) /\ (Known(r)' <=> Known(r))
    BY <1>3 DEF Distinct, Subscribes, Masked, Known
<1> QED
    BY <1>1, <1>2, <1>3, <1>5, <1>9, <1>10 DEF QueryOK, One

\* What remains to be shown for a step: its thread, its query, and the counts.
LEMMA OneStep ==
    ASSUME MountTyped, ToldInv, NEW t \in Caller, NEW q \in Query, Quietly(t, q),
           misuse' = "none", OnceOK', StackOK(t)', CallOK(t, q)',
           \A u \in Caller : u # t => Together(t, u)',
           \A i \in SubscriptionId : ListOK(i, q)' /\ \A r \in Query : CountOK(i, r)',
           QueryOK(q)'
    PROVE  ToldInv'
<1>1. \A u \in Caller : StackOK(u)' /\ \A r \in Query : CallOK(u, r)'
  <2>1. \A r \in Query : r # q => CallOK(t, r)'
      BY DEF CallOK, Quietly
  <2> QED
      BY <2>1, OthersCalls
<1>2. \A u, v \in Caller : u # v => Together(u, v)'
  <2> SUFFICES ASSUME NEW u \in Caller, NEW v \in Caller, u # v PROVE Together(u, v)'
      OBVIOUS
  <2>1. CASE u = t
      BY <2>1
  <2>2. CASE v = t
    <3>1. Together(t, u)'
        BY <2>2
    <3> QED
        BY <2>2, <3>1 DEF Together
  <2>3. CASE u # t /\ v # t
      BY <2>3 DEF Quietly, ToldInv, Together, InCall, First, Opens
  <2> QED
      BY <2>1, <2>2, <2>3
<1>3. \A i \in SubscriptionId, r \in Query : ListOK(i, r)'
    BY OthersOnList
<1>4. \A r \in Query : QueryOK(r)'
    BY OthersQueries
<1> QED
    BY <1>1, <1>2, <1>3, <1>4 DEF ToldInv

(***************************************************************************)
(* Calls and counts                                                        *)
(***************************************************************************)
LEMMA StacksAre ==
    ASSUME NEW s \in Seq(CallFrames)
    PROVE  /\ s = <<>> <=> Len(s) = 0
           /\ Len(s) = 1 => Last(s) = s[1] /\ Front(s) = <<>> /\ s = <<s[1]>>
           /\ Len(s) = 2 => Last(s) = s[2] /\ Front(s) = <<s[1]>> /\ s = <<s[1], s[2]>>
           /\ s # <<>> => Len(s) \in Nat \ {0} /\ s[1] \in CallFrames /\ Last(s) \in CallFrames
<1>1. PICK n : n = Len(s)
    OBVIOUS
<1>2. n \in Nat /\ Len(s) = n /\ DOMAIN s = 1..n
    BY <1>1
<1>3. s = <<>> <=> n = 0
    BY <1>2
<1>4. ASSUME n = 1 PROVE Last(s) = s[1] /\ Front(s) = <<>> /\ s = <<s[1]>>
  <2>1. Last(s) = s[1]
      BY <1>2, <1>4 DEF Last
  <2>2. Front(s) = <<>>
      BY <1>2, <1>4 DEF Front
  <2>3. s = <<s[1]>>
      BY <1>2, <1>4
  <2> QED
      BY <2>1, <2>2, <2>3
<1>5. ASSUME n = 2 PROVE Last(s) = s[2] /\ Front(s) = <<s[1]>> /\ s = <<s[1], s[2]>>
  <2>1. Last(s) = s[2]
      BY <1>2, <1>5 DEF Last
  <2>2. Front(s) = <<s[1]>>
    <3>1. Front(s) = SubSeq(s, 1, 1)
        BY <1>2, <1>5 DEF Front
    <3>2. s[1] \in CallFrames
        BY <1>2, <1>5
    <3>3. PICK r : r = SubSeq(s, 1, 1)
        OBVIOUS
    <3>4. r \in Seq(CallFrames) /\ Len(r) = 1 /\ r[1] = s[1]
        BY <3>2, <3>3, SubSeqProperties
    <3>5. r = <<s[1]>>
        BY <3>4
    <3> QED
        BY <3>1, <3>3, <3>5
  <2>3. s = <<s[1], s[2]>>
      BY <1>2, <1>5
  <2> QED
      BY <2>1, <2>2, <2>3
<1>6. ASSUME n # 0 PROVE n \in Nat \ {0} /\ s[1] \in CallFrames /\ Last(s) \in CallFrames
    BY <1>2, <1>6 DEF Last
<1> QED
    BY <1>2, <1>3, <1>4, <1>5, <1>6

\* One thread makes or ends a call.
LEMMA CallsChanged ==
    ASSUME MountTyped, NEW t \in Caller, NEW s \in Seq(CallFrames), calls' = [calls EXCEPT ![t] = s]
    PROVE  /\ calls' \in [Caller -> Seq(CallFrames)] /\ calls'[t] = s
           /\ \A u \in Caller : u # t => /\ calls'[u] = calls[u] /\ (InCall(u)' <=> InCall(u))
                                         /\ First(u)' = First(u) /\ (Opens(u)' <=> Opens(u))
           /\ InCall(t)' <=> s # <<>>
           /\ First(t)' = s[1]
           /\ Opens(t)' <=> s # <<>> /\ ~s[1].found /\ s[1].at # "tell"
<1>1. calls' \in [Caller -> Seq(CallFrames)] /\ calls'[t] = s /\ \A u \in Caller : u # t => calls'[u] = calls[u]
    BY DEF MountTyped
<1> QED
    BY <1>1 DEF InCall, First, Opens

\* The outermost call is the only one of its thread, or the other one found its subscription.
LEMMA StackIs ==
    ASSUME MountTyped, ToldInv, NEW t \in Caller, InCall(t)
    PROVE  /\ Len(calls[t]) \in {1, 2} /\ Call(t) \in CallFrames /\ First(t) \in CallFrames
           /\ Len(calls[t]) = 1 => Call(t) = First(t) /\ Front(calls[t]) = <<>> /\ calls[t] = <<First(t)>>
           /\ Len(calls[t]) = 2 => /\ Call(t) = calls[t][2] /\ Front(calls[t]) = <<First(t)>>
                                   /\ calls[t] = <<First(t), calls[t][2]>>
<1>1. PICK s : s = calls[t]
    OBVIOUS
<1>2. s \in Seq(CallFrames) /\ s # <<>>
    BY <1>1 DEF MountTyped, InCall
<1>3. Len(s) <= 2
    BY <1>1 DEF ToldInv, StackOK
<1>4. PICK n : n = Len(s)
    OBVIOUS
<1>5. n \in {1, 2}
    BY <1>2, <1>3, <1>4, StacksAre
<1> QED
    BY <1>1, <1>2, <1>4, <1>5, StacksAre DEF Call, First

\* Only the counts of a subscription change when it is counted.
LEMMA CountedIs ==
    ASSUME MountTyped, NEW i \in SubscriptionId, NEW s \in BOOLEAN, NEW m \in BOOLEAN, NEW n \in Int
    PROVE  LET r == Counted(i, s, m, n)
           IN  /\ r \in [SubscriptionId -> Subs]
               /\ \A j \in SubscriptionId :
                     /\ j # i => r[j] = subscription[j]
                     /\ r[j].query = subscription[j].query /\ r[j].mem = subscription[j].mem
                     /\ r[j].subscriberCtx = subscription[j].subscriberCtx
                     /\ r[j].mountCtx = subscription[j].mountCtx
               /\ r[i].subscriberCount = subscription[i].subscriberCount + n * One(s)
               /\ r[i].mountCount = subscription[i].mountCount + n * One(m)
<1>1. PICK r : r = Counted(i, s, m, n)
    OBVIOUS
<1>2. PICK x : x = subscription[i]
    OBVIOUS
<1>3. x \in Subs
    BY <1>2 DEF MountTyped
<1>4. n * One(s) \in Int /\ n * One(m) \in Int
    BY DEF One
<1>5. PICK a, b : a = n * One(s) /\ b = n * One(m)
    OBVIOUS
<1>6. r = [subscription EXCEPT ![i] =
              [x EXCEPT !.subscriberCount = x.subscriberCount + a, !.mountCount = x.mountCount + b]]
    BY <1>1, <1>2, <1>5 DEF Counted, MountTyped
<1>7. PICK y : y = [x EXCEPT !.subscriberCount = x.subscriberCount + a, !.mountCount = x.mountCount + b]
    OBVIOUS
<1>8. /\ y \in Subs /\ y.subscriberCount = x.subscriberCount + a /\ y.mountCount = x.mountCount + b
      /\ y.query = x.query /\ y.mem = x.mem /\ y.subscriberCtx = x.subscriberCtx /\ y.mountCtx = x.mountCtx
  <2>1. PICK c, d : c = x.subscriberCount + a /\ d = x.mountCount + b
      OBVIOUS
  <2>2. c \in Int /\ d \in Int
    <3>1. x.subscriberCount \in Int /\ x.mountCount \in Int /\ a \in Int /\ b \in Int
        BY <1>3, <1>4, <1>5 DEF Subs
    <3> QED
        BY <2>1, <3>1
  <2>3. y = [x EXCEPT !.subscriberCount = c, !.mountCount = d]
      BY <1>7, <2>1
  <2>4. /\ y \in Subs /\ y.subscriberCount = c /\ y.mountCount = d
        /\ y.query = x.query /\ y.mem = x.mem /\ y.subscriberCtx = x.subscriberCtx /\ y.mountCtx = x.mountCtx
      BY <1>3, <2>2, <2>3 DEF Subs
  <2> QED
      BY <2>1, <2>4
<1>9. r \in [SubscriptionId -> Subs] /\ r[i] = y /\ \A j \in SubscriptionId : j # i => r[j] = subscription[j]
    BY <1>6, <1>7, <1>8 DEF MountTyped
<1> QED
    BY <1>1, <1>2, <1>5, <1>8, <1>9

\* A user that keeps its call apart from those of others, and one that is in a call.
LEMMA MayCallIs ==
    ASSUME MountTyped, Regular, NEW t \in Caller, NEW q \in Query, NEW b \in BOOLEAN, MayCall(t, q, b)
    PROVE  \A u \in Caller \ {t} : InCall(u) /\ First(u).query.from = q.from =>
               mountOf.overlap = "subscribes" /\ b /\ First(u).query = q /\ First(u).at # "tell"
<1> SUFFICES ASSUME NEW u \in Caller \ {t}, InCall(u), First(u).query.from = q.from
             PROVE  mountOf.overlap = "subscribes" /\ b /\ First(u).query = q /\ First(u).at # "tell"
    OBVIOUS
<1>1. 1 \in DOMAIN calls[u]
  <2>1. PICK s : s = calls[u]
      OBVIOUS
  <2>2. s \in Seq(CallFrames) /\ s # <<>>
      BY <2>1 DEF MountTyped, InCall
  <2> QED
      BY <2>1, <2>2
<1> QED
    BY <1>1 DEF MayCall, First, Regular

\* Who is in a call about the same scope.
LEMMA InCallApart ==
    ASSUME ToldInv, NEW t \in Caller, InCall(t)
    PROVE  \A u \in Caller \ {t} : InCall(u) /\ First(u).query.from = First(t).query.from =>
               /\ mountOf.overlap = "subscribes" /\ First(u).query = First(t).query
               /\ First(u).at # "tell" /\ First(t).at # "tell" /\ ~(Opens(t) /\ Opens(u))
    BY DEF ToldInv, Together

\* A subscription is lent only to a call of another query, which has the scope for itself.
LEMMA LentIs ==
    ASSUME MountTyped, ToldInv, NEW i \in SubscriptionId, NEW u \in Caller, Opens(u), First(u).sub = i
    PROVE  /\ mountOf.overlap = "none" /\ OnList(i) /\ About(i).from = First(u).query.from
           /\ About(i) # First(u).query
<1>1. PICK q \in Query : First(u).query = q
    BY TypeOfCalls DEF Opens
<1>2. OpenOK(u, q) /\ i # 0
    BY <1>1, IdsAre DEF ToldInv, CallOK, Opens
<1> QED
    BY <1>1, <1>2 DEF OpenOK, OneAtATime, Unlisted

(***************************************************************************)
(* Subscribing                                                             *)
(***************************************************************************)
\* A subscribe that finds the subscription of its query counts itself.
LEMMA SubscribeFound ==
    ASSUME MountTyped, ToldInv, Regular, NEW t \in Caller, NEW q \in Query, Known(q), ~InCall(t), queryOf' = queryOf,
           MountSubscribe(t, q), Find(q).found
    PROVE  MountTyped' /\ ToldInv'
<1>1. PICK f : f = Find(q)
    OBVIOUS
<1>2. OnceOK
    BY DEF ToldInv
<1>3. f.id \in SubscriptionId /\ f.id # 0 /\ f.found /\ OnList(f.id) /\ About(f.id) = q
    BY <1>1, <1>2, FindIs
<1>4. PICK i \in SubscriptionId : i = f.id
    BY <1>3
<1>5. OnList(i) /\ About(i) = q /\ i # 0
    BY <1>3, <1>4
<1>6. PICK c : c = NewCall("notify", q, f)
    OBVIOUS
<1>7. /\ c \in CallFrames /\ c.at = "notify" /\ c.query = q /\ c.sub = i /\ c.found /\ c.placeHolder = 0
      /\ c.subCtx = Zero /\ c.mntCtx = Zero
    BY <1>3, <1>4, <1>6 DEF NewCall, CallFrames
<1>8. calls' = [calls EXCEPT ![t] = <<c>>]
  <2>1. calls[t] = <<>>
      BY DEF InCall
  <2>2. calls' = [calls EXCEPT ![t] = Append(calls[t], c)]
      BY <1>1, <1>3, <1>6 DEF MountSubscribe
  <2> QED
      BY <2>1, <2>2
<1>9. /\ calls' \in [Caller -> Seq(CallFrames)] /\ calls'[t] = <<c>>
      /\ \A u \in Caller : u # t => /\ calls'[u] = calls[u] /\ (InCall(u)' <=> InCall(u))
                                    /\ First(u)' = First(u) /\ (Opens(u)' <=> Opens(u))
      /\ InCall(t)' /\ First(t)' = c /\ ~Opens(t)'
  <2>1. <<c>> \in Seq(CallFrames) /\ <<c>> # <<>> /\ <<c>>[1] = c /\ c.found
      BY <1>7
  <2> QED
      BY <1>8, <2>1, CallsChanged
<1>10. /\ subscriptions' = subscriptions /\ mountOf' = mountOf /\ told' = told /\ removed' = removed
       /\ misuse' = misuse /\ ~removed /\ mountOf.mask # {} /\ MayCall(t, q, TRUE)
       /\ subscription' = Counted(i, Subscribes, OnMounts, 1)
       /\ users' = [users EXCEPT ![q] = @ + 1]
    BY <1>1, <1>3, <1>4 DEF MountSubscribe
<1>11. /\ users' \in [Query -> Nat] /\ users'[q] = users[q] + 1 /\ users[q] \in Nat
       /\ \A r \in Query : r # q => users'[r] = users[r]
    BY <1>10 DEF MountTyped
<1>12. /\ subscription' \in [SubscriptionId -> Subs]
       /\ \A j \in SubscriptionId :
             /\ j # i => subscription'[j] = subscription[j]
             /\ About(j)' = About(j) /\ (OnList(j)' <=> OnList(j)) /\ subscription'[j].mem = subscription[j].mem
             /\ subscription'[j].subscriberCtx = subscription[j].subscriberCtx
             /\ subscription'[j].mountCtx = subscription[j].mountCtx
       /\ subscription'[i].subscriberCount = subscription[i].subscriberCount + One(Subscribes)
       /\ subscription'[i].mountCount = subscription[i].mountCount + One(OnMounts)
  <2>1. Subscribes \in BOOLEAN /\ OnMounts \in BOOLEAN
      BY DEF Subscribes, OnMounts, Masked
  <2>2. 1 * One(Subscribes) = One(Subscribes) /\ 1 * One(OnMounts) = One(OnMounts)
      BY DEF One
  <2>3. \A j \in SubscriptionId : OnList(j)' <=> OnList(j)
      BY <1>10 DEF OnList
  <2> QED
      BY <1>10, <2>1, <2>2, <2>3, CountedIs DEF About
<1>13. MountTyped'
    BY <1>9, <1>10, <1>11, <1>12 DEF MountTyped
<1>14. \A u \in Caller \ {t} : InCall(u) /\ First(u).query.from = q.from =>
           mountOf.overlap = "subscribes" /\ First(u).query = q /\ First(u).at # "tell"
    BY <1>10, MayCallIs
<1>15. Quietly(t, q)
  <2>1. UNCHANGED <<mountOf, queryOf, removed>> /\ (InCall(t) => First(t).query = q) /\ First(t)'.query = q
      BY <1>7, <1>9, <1>10
  <2>2. \A j \in SubscriptionId : InCall(t)' /\ First(t)'.placeHolder = j /\ OnList(j)' => About(j)' = q
      BY <1>7, <1>9, IdsAre
  <2>3. \A u \in Caller \ {t}, p \in SubscriptionId :
            Opens(u) /\ First(u).query = q /\ First(u).placeHolder = p => OnList(p)' /\ About(p)' = q
      BY <1>12, PlaceHoldersAre DEF Opens
  <2>4. \A r \in Query : r # q => users'[r] = users[r] /\ told'[r] = told[r]
      BY <1>10, <1>11
  <2>5. \A j \in SubscriptionId : subscription[j].mem = "live" /\ ~OnList(j) /\ About(j) # q =>
            ~OnList(j)' /\ subscription'[j] = subscription[j]
      BY <1>5, <1>12
  <2> QED
      BY <1>9, <1>12, <1>14, <2>1, <2>2, <2>3, <2>4, <2>5 DEF Quietly
<1>16. /\ \A j \in SubscriptionId : (Pending(j)' <=> Pending(j)) /\ (Lent(j)' <=> Lent(j))
       /\ (Moving(q)' <=> Moving(q)) /\ (IsTold(q)' <=> IsTold(q)) /\ (Unlisted(q)' <=> Unlisted(q))
  <2>1. ~Opens(t)
      BY DEF Opens
  <2>2. \A j \in SubscriptionId : Pending(j)' <=> Pending(j)
      BY <1>7, <1>9, IdsAre DEF Pending
  <2>3. \A j \in SubscriptionId : Lent(j)' <=> Lent(j)
      BY <1>9, <2>1 DEF Lent
  <2>4. Moving(q)' <=> Moving(q)
      BY <1>9, <2>1 DEF Moving
  <2>5. Unlisted(q)' <=> Unlisted(q)
      BY <1>12 DEF Unlisted
  <2>6. IsTold(q)' <=> IsTold(q)
    <3>1. \A j \in SubscriptionId : (OnList(j) /\ About(j) = q /\ ~Pending(j))' <=> (OnList(j) /\ About(j) = q /\ ~Pending(j))
        BY <1>12, <2>2
    <3>2. \A u \in Caller : (Opens(u) /\ First(u).query = q /\ First(u).at # "notify")'
                             <=> (Opens(u) /\ First(u).query = q /\ First(u).at # "notify")
        BY <1>9, <2>1
    <3>3. \A u \in Caller, j \in SubscriptionId :
              (InCall(u) /\ First(u).at = "tell" /\ First(u).query = q /\ First(u).sub = j /\ ~OnList(j))'
              <=> (InCall(u) /\ First(u).at = "tell" /\ First(u).query = q /\ First(u).sub = j /\ ~OnList(j))
        BY <1>7, <1>9, <1>12
    <3> QED
        BY <3>1, <3>2, <3>3 DEF IsTold
  <2> QED
      BY <2>2, <2>3, <2>4, <2>5, <2>6
<1>17. misuse' = "none" /\ OnceOK' /\ StackOK(t)'
  <2>1. OnceOK'
      BY <1>2, <1>10, <1>12 DEF OnceOK
  <2>2. StackOK(t)'
      BY <1>9 DEF StackOK
  <2> QED
      BY <1>10, <2>1, <2>2 DEF ToldInv
<1>18. CallOK(t, q)'
  <2>1. Known(q)'
      BY DEF Known
  <2> QED
      BY <1>7, <1>9, <1>10, <2>1 DEF CallOK, FoundOK
<1>19. \A u \in Caller : u # t => Together(t, u)'
    BY <1>7, <1>9, <1>10, <1>14 DEF Together
<1>20. \A j \in SubscriptionId : ListOK(j, q)' /\ \A r \in Query : CountOK(j, r)'
  <2> SUFFICES ASSUME NEW j \in SubscriptionId, NEW r \in Query PROVE ListOK(j, q)' /\ CountOK(j, r)'
      OBVIOUS
  <2>1. /\ SubAnswer(q)' = SubAnswer(q) /\ MntAnswer(q)' = MntAnswer(q) /\ (Known(q)' <=> Known(q))
        /\ (Distinct' <=> Distinct) /\ (Subscribes' <=> Subscribes) /\ (OnMounts' <=> OnMounts)
      BY <1>10 DEF SubAnswer, MntAnswer, Known, Distinct, Subscribes, OnMounts, Masked, HasMountQuery
  <2>2. ListOK(j, q) /\ CountOK(j, r)
      BY DEF ToldInv
  <2>3. ListOK(j, q)'
      BY <1>10, <1>12, <1>16, <2>1, <2>2 DEF ListOK
  <2>4. CountOK(j, r)'
    <3> SUFFICES ASSUME OnList(j), About(j) = r, Distinct PROVE CountOK(j, r)'
        BY <1>12, <2>1 DEF CountOK
    <3>1. CASE j = i
      <4>1. PICK n : n = One(Lent(i))
          OBVIOUS
      <4>2. n \in Nat /\ One(Lent(i))' = n
          BY <1>16, <4>1 DEF One
      <4>3. /\ users[q] > 0
            /\ subscription[i].subscriberCount = IF Subscribes THEN users[q] + n ELSE 0
            /\ subscription[i].mountCount = IF OnMounts THEN users[q] + n ELSE 0
          BY <1>5, <2>2, <3>1, <4>1 DEF CountOK
      <4>4. /\ subscription'[i].subscriberCount = IF Subscribes THEN users'[q] + n ELSE 0
            /\ subscription'[i].mountCount = IF OnMounts THEN users'[q] + n ELSE 0
            /\ users'[q] > 0
          BY <1>11, <1>12, <4>2, <4>3 DEF One
      <4> QED
          BY <1>5, <1>12, <2>1, <3>1, <4>2, <4>4 DEF CountOK
    <3>2. CASE j # i
      <4>1. r # q
          BY <1>2, <1>5, <3>2 DEF OnceOK
      <4>2. One(Lent(j))' = One(Lent(j))
          BY <1>16 DEF One
      <4> QED
          BY <1>11, <1>12, <2>1, <2>2, <3>2, <4>1, <4>2 DEF CountOK
    <3> QED
        BY <3>1, <3>2
  <2> QED
      BY <2>3, <2>4
<1>21. QueryOK(q)'
  <2>1. ~Unlisted(q)' /\ Known(q)'
      BY <1>5, <1>16 DEF Unlisted, Known
  <2>2. told'[q] = One(Distinct /\ Subscribes /\ IsTold(q))'
      BY <1>10, <1>16 DEF ToldInv, QueryOK, One, Distinct, Subscribes, Masked
  <2> QED
      BY <2>1, <2>2 DEF QueryOK
<1> QED
    BY <1>13, <1>15, <1>17, <1>18, <1>19, <1>20, <1>21, OneStep

\* A subscribe that finds another subscription of the scope counts it until it has its own.
LEMMA SubscribeOther ==
    ASSUME MountTyped, ToldInv, Regular, NEW t \in Caller, NEW q \in Query, Known(q), ~InCall(t), queryOf' = queryOf,
           MountSubscribe(t, q), ~Find(q).found, Find(q).id # 0
    PROVE  MountTyped' /\ ToldInv'
<1>1. PICK f : f = Find(q)
    OBVIOUS
<1>2. OnceOK
    BY DEF ToldInv
<1>3. f.id \in SubscriptionId /\ f.id # 0 /\ ~f.found /\ OnList(f.id) /\ About(f.id).from = q.from /\ Unlisted(q)
      /\ f.found \in BOOLEAN
    BY <1>1, <1>2, FindIs
<1>4. PICK i \in SubscriptionId : i = f.id
    BY <1>3
<1>5. OnList(i) /\ About(i).from = q.from /\ About(i) # q /\ i # 0
    BY <1>3, <1>4 DEF Unlisted
<1>6. PICK c : c = NewCall("notify", q, f)
    OBVIOUS
<1>7. /\ c \in CallFrames /\ c.at = "notify" /\ c.query = q /\ c.sub = i /\ ~c.found /\ c.placeHolder = 0
      /\ c.subCtx = Zero /\ c.mntCtx = Zero
    BY <1>3, <1>4, <1>6 DEF NewCall, CallFrames
<1>8. calls' = [calls EXCEPT ![t] = <<c>>]
  <2>1. calls[t] = <<>>
      BY DEF InCall
  <2>2. calls' = [calls EXCEPT ![t] = Append(calls[t], c)]
      BY <1>1, <1>3, <1>6 DEF MountSubscribe
  <2> QED
      BY <2>1, <2>2
<1>9. /\ calls' \in [Caller -> Seq(CallFrames)] /\ calls'[t] = <<c>>
      /\ \A u \in Caller : u # t => /\ calls'[u] = calls[u] /\ (InCall(u)' <=> InCall(u))
                                    /\ First(u)' = First(u) /\ (Opens(u)' <=> Opens(u))
      /\ InCall(t)' /\ First(t)' = c /\ Opens(t)'
  <2>1. <<c>> \in Seq(CallFrames) /\ <<c>> # <<>> /\ <<c>>[1] = c /\ ~c.found /\ c.at # "tell"
      BY <1>7
  <2> QED
      BY <1>8, <2>1, CallsChanged
<1>10. /\ subscriptions' = subscriptions /\ mountOf' = mountOf /\ told' = told /\ removed' = removed
       /\ misuse' = misuse /\ ~removed /\ mountOf.mask # {} /\ MayCall(t, q, TRUE)
       /\ subscription' = Counted(i, Subscribes, OnMounts, 1)
       /\ users' = [users EXCEPT ![q] = @ + 1]
    BY <1>1, <1>3, <1>4 DEF MountSubscribe
<1>11. /\ users' \in [Query -> Nat] /\ users'[q] = users[q] + 1 /\ users[q] \in Nat
       /\ \A r \in Query : r # q => users'[r] = users[r]
    BY <1>10 DEF MountTyped
<1>12. /\ subscription' \in [SubscriptionId -> Subs]
       /\ \A j \in SubscriptionId :
             /\ j # i => subscription'[j] = subscription[j]
             /\ About(j)' = About(j) /\ (OnList(j)' <=> OnList(j)) /\ subscription'[j].mem = subscription[j].mem
             /\ subscription'[j].subscriberCtx = subscription[j].subscriberCtx
             /\ subscription'[j].mountCtx = subscription[j].mountCtx
       /\ subscription'[i].subscriberCount = subscription[i].subscriberCount + One(Subscribes)
       /\ subscription'[i].mountCount = subscription[i].mountCount + One(OnMounts)
  <2>1. Subscribes \in BOOLEAN /\ OnMounts \in BOOLEAN
      BY DEF Subscribes, OnMounts, Masked
  <2>2. 1 * One(Subscribes) = One(Subscribes) /\ 1 * One(OnMounts) = One(OnMounts)
      BY DEF One
  <2>3. \A j \in SubscriptionId : OnList(j)' <=> OnList(j)
      BY <1>10 DEF OnList
  <2> QED
      BY <1>10, <2>1, <2>2, <2>3, CountedIs DEF About
<1>13. MountTyped'
    BY <1>9, <1>10, <1>11, <1>12 DEF MountTyped
<1>14. PICK a \in Query : About(i) = a
    BY DEF MountTyped, Subs, About
<1>15. OneAtATime
  <2>1. Known(a)
      BY <1>5, <1>14 DEF ToldInv, ListOK
  <2>2. ~OneSelect
      BY <1>5, <1>14, <2>1 DEF OneSelect, Known
  <2> QED
      BY <2>2 DEF Regular
<1>16. \A u \in Caller : ~(InCall(u) /\ First(u).query.from = q.from)
  <2>1. mountOf.overlap # "subscribes"
      BY <1>15 DEF OneAtATime
  <2> QED
      BY <1>10, <2>1, MayCallIs
<1>17. ~Pending(i) /\ ~Lent(i)
  <2>1. ~Pending(i)
      BY <1>5, <1>16, PlaceHoldersAre DEF Pending
  <2>2. ~Lent(i)
      BY <1>5, <1>16, LentIs DEF Lent, Opens
  <2> QED
      BY <2>1, <2>2
<1>18. Distinct
    BY <1>5, <1>14, <1>17 DEF ToldInv, ListOK
<1>19. Quietly(t, q)
  <2>1. UNCHANGED <<mountOf, queryOf, removed>> /\ (InCall(t) => First(t).query = q) /\ First(t)'.query = q
      BY <1>7, <1>9, <1>10
  <2>2. \A j \in SubscriptionId : InCall(t)' /\ First(t)'.placeHolder = j /\ OnList(j)' => About(j)' = q
      BY <1>7, <1>9, IdsAre
  <2>3. \A u \in Caller \ {t}, p \in SubscriptionId :
            Opens(u) /\ First(u).query = q /\ First(u).placeHolder = p => OnList(p)' /\ About(p)' = q
      BY <1>12, PlaceHoldersAre DEF Opens
  <2>4. \A r \in Query : r # q => users'[r] = users[r] /\ told'[r] = told[r]
      BY <1>10, <1>11
  <2>5. \A j \in SubscriptionId : subscription[j].mem = "live" /\ ~OnList(j) /\ About(j) # q =>
            ~OnList(j)' /\ subscription'[j] = subscription[j]
      BY <1>5, <1>12
  <2> QED
      BY <1>9, <1>12, <1>16, <2>1, <2>2, <2>3, <2>4, <2>5 DEF Quietly
<1>20. /\ \A j \in SubscriptionId : (Pending(j)' <=> Pending(j)) /\ (j # i => (Lent(j)' <=> Lent(j)))
       /\ Lent(i)' /\ Unlisted(q)'
  <2>1. ~Opens(t)
      BY DEF Opens
  <2>2. \A j \in SubscriptionId : Pending(j)' <=> Pending(j)
      BY <1>7, <1>9, IdsAre DEF Pending
  <2>3. \A j \in SubscriptionId : j # i => (Lent(j)' <=> Lent(j))
      BY <1>7, <1>9, <2>1 DEF Lent
  <2>4. Lent(i)'
      BY <1>7, <1>9 DEF Lent
  <2>5. Unlisted(q)'
      BY <1>3, <1>12 DEF Unlisted
  <2> QED
      BY <2>2, <2>3, <2>4, <2>5
<1>21. misuse' = "none" /\ OnceOK' /\ StackOK(t)'
  <2>1. OnceOK'
      BY <1>2, <1>10, <1>12 DEF OnceOK
  <2>2. StackOK(t)'
      BY <1>9 DEF StackOK
  <2> QED
      BY <1>10, <2>1, <2>2 DEF ToldInv
<1>22. CallOK(t, q)'
  <2>1. Known(q)'
      BY DEF Known
  <2>2. OneAtATime' /\ Distinct'
      BY <1>10, <1>15, <1>18 DEF OneAtATime, Distinct, Subscribes, OnMounts, Masked
  <2>3. OnList(i)' /\ About(i)'.from = q.from
      BY <1>5, <1>12
  <2>4. OpenOK(t, q)'
      BY <1>5, <1>7, <1>9, <1>20, <2>2, <2>3 DEF OpenOK
  <2> QED
      BY <1>7, <1>9, <1>10, <2>1, <2>4 DEF CallOK
<1>23. \A u \in Caller : u # t => Together(t, u)'
    BY <1>7, <1>9, <1>16 DEF Together
<1>24. \A j \in SubscriptionId : ListOK(j, q)' /\ \A r \in Query : CountOK(j, r)'
  <2> SUFFICES ASSUME NEW j \in SubscriptionId, NEW r \in Query PROVE ListOK(j, q)' /\ CountOK(j, r)'
      OBVIOUS
  <2>1. (Distinct' <=> Distinct) /\ (Subscribes' <=> Subscribes) /\ (OnMounts' <=> OnMounts)
      BY <1>10 DEF Distinct, Subscribes, OnMounts, Masked
  <2>2. CountOK(j, r)
      BY DEF ToldInv
  <2>3. ListOK(j, q)'
      BY <1>20 DEF ListOK, Unlisted
  <2>4. CountOK(j, r)'
    <3> SUFFICES ASSUME OnList(j), About(j) = r, Distinct PROVE CountOK(j, r)'
        BY <1>12, <2>1 DEF CountOK
    <3>1. r # q
        BY <1>3 DEF Unlisted
    <3>2. CASE j = i
      <4>1. One(Lent(i)) = 0 /\ One(Lent(i))' = 1 /\ users[r] \in Nat
          BY <1>17, <1>20 DEF One, MountTyped
      <4>2. /\ users[r] > 0
            /\ subscription[i].subscriberCount = IF Subscribes THEN users[r] ELSE 0
            /\ subscription[i].mountCount = IF OnMounts THEN users[r] ELSE 0
          BY <2>2, <3>2, <4>1 DEF CountOK
      <4>3. /\ subscription'[i].subscriberCount = IF Subscribes THEN users'[r] + 1 ELSE 0
            /\ subscription'[i].mountCount = IF OnMounts THEN users'[r] + 1 ELSE 0
            /\ users'[r] > 0
          BY <1>11, <1>12, <3>1, <4>1, <4>2 DEF One
      <4> QED
          BY <1>5, <1>12, <2>1, <3>2, <4>1, <4>3 DEF CountOK
    <3>3. CASE j # i
      <4>1. One(Lent(j))' = One(Lent(j))
          BY <1>20, <3>3 DEF One
      <4> QED
          BY <1>11, <1>12, <2>1, <2>2, <3>1, <3>3, <4>1 DEF CountOK
    <3> QED
        BY <3>2, <3>3
  <2> QED
      BY <2>3, <2>4
<1>25. QueryOK(q)'
  <2>1. Known(q)' /\ QueryOK(q)
      BY DEF Known, ToldInv
  <2>2. ~Moving(q)
      BY <1>16 DEF Moving, Opens
  <2>3. users[q] = 0
      BY <1>3, <1>10, <1>18, <2>1, <2>2 DEF QueryOK, One
  <2>4. Moving(q)'
      BY <1>5, <1>7, <1>9 DEF Moving
  <2>5. ~IsTold(q)
      BY <1>3, <1>16 DEF IsTold, Unlisted, Opens
  <2>6. ~IsTold(q)'
    <3>1. \A u \in Caller : u # t => ~(InCall(u) /\ First(u).query = q)'
        BY <1>9, <1>16
    <3>2. \A u \in Caller : ~(Opens(u) /\ First(u).query = q /\ First(u).at # "notify")'
        BY <1>7, <1>9, <3>1 DEF Opens
    <3>3. \A u \in Caller : ~(InCall(u) /\ First(u).at = "tell" /\ First(u).query = q)'
        BY <1>7, <1>9, <3>1
    <3>4. \A j \in SubscriptionId : ~(OnList(j) /\ About(j) = q /\ ~Pending(j))'
        BY <1>20 DEF Unlisted
    <3> QED
        BY <3>2, <3>3, <3>4 DEF IsTold
  <2>7. told'[q] = 0
      BY <1>10, <2>1, <2>5 DEF QueryOK, One
  <2>8. users'[q] = 1
      BY <1>11, <2>3
  <2> QED
      BY <2>1, <2>4, <2>6, <2>7, <2>8 DEF QueryOK, One
<1> QED
    BY <1>13, <1>19, <1>21, <1>22, <1>23, <1>24, <1>25, OneStep

\* A subscribe that finds none adds a placeholder.
LEMMA SubscribeNew ==
    ASSUME MountTyped, ToldInv, Regular, NEW t \in Caller, NEW q \in Query, Known(q), ~InCall(t), queryOf' = queryOf,
           MountSubscribe(t, q), Find(q).id = 0
    PROVE  MountTyped' /\ ToldInv'
<1>1. PICK f : f = Find(q)
    OBVIOUS
<1>2. OnceOK
    BY DEF ToldInv
<1>3. f.id = 0 /\ ~f.found /\ f.found \in BOOLEAN /\ Unlisted(q)
      /\ \A j \in SubscriptionId : OnList(j) => About(j).from # q.from
    BY <1>1, <1>2, FindIs
<1>4. PICK p : p = NewId
    OBVIOUS
<1>5. PICK c : c = [NewCall("notify", q, f) EXCEPT !.placeHolder = p]
    OBVIOUS
<1>6. /\ mountOf' = mountOf /\ told' = told /\ removed' = removed
      /\ misuse' = misuse /\ ~removed /\ mountOf.mask # {} /\ MayCall(t, q, TRUE)
      /\ Unused # {}
      /\ subscription' = [subscription EXCEPT ![p] = NewSubscription(q)]
      /\ calls' = [calls EXCEPT ![t] = Append(@, c)]
      /\ subscriptions' = Append(subscriptions, p)
      /\ users' = [users EXCEPT ![q] = @ + 1]
    BY <1>1, <1>3, <1>4, <1>5 DEF MountSubscribe
<1>7. p \in SubscriptionId /\ p # 0 /\ subscription[p].mem = "unused"
    BY <1>4, <1>6, NewIdIs, IdsAre
<1>8. ~OnList(p)
  <2>1. PICK r \in Query : About(p) = r
      BY <1>7 DEF MountTyped, Subs, About
  <2> QED
      BY <1>7, <2>1 DEF ToldInv, ListOK
<1>9. /\ c \in CallFrames /\ c.at = "notify" /\ c.query = q /\ c.sub = 0 /\ ~c.found /\ c.placeHolder = p
      /\ c.subCtx = Zero /\ c.mntCtx = Zero
  <2>1. PICK d : d = NewCall("notify", q, f)
      OBVIOUS
  <2>2. /\ d \in CallFrames /\ d.at = "notify" /\ d.query = q /\ d.sub = 0 /\ ~d.found
        /\ d.subCtx = Zero /\ d.mntCtx = Zero
    <3>1. f.id = 0 /\ f.found = FALSE
        BY <1>3
    <3>2. d = [at |-> "notify", query |-> q, sub |-> 0, found |-> FALSE,
               placeHolder |-> 0, subCtx |-> Zero, mntCtx |-> Zero]
        BY <2>1, <3>1 DEF NewCall
    <3> QED
        BY <3>2 DEF CallFrames
  <2>3. c = [d EXCEPT !.placeHolder = p]
      BY <1>5, <2>1
  <2> QED
      BY <1>7, <2>2, <2>3 DEF CallFrames
<1>10. calls' = [calls EXCEPT ![t] = <<c>>]
  <2>1. calls[t] = <<>>
      BY DEF InCall
  <2> QED
      BY <1>6, <2>1
<1>11. /\ calls' \in [Caller -> Seq(CallFrames)] /\ calls'[t] = <<c>>
       /\ \A u \in Caller : u # t => /\ calls'[u] = calls[u] /\ (InCall(u)' <=> InCall(u))
                                     /\ First(u)' = First(u) /\ (Opens(u)' <=> Opens(u))
       /\ InCall(t)' /\ First(t)' = c /\ Opens(t)'
  <2>1. <<c>> \in Seq(CallFrames) /\ <<c>> # <<>> /\ <<c>>[1] = c /\ ~c.found /\ c.at # "tell"
      BY <1>9
  <2> QED
      BY <1>10, <2>1, CallsChanged
<1>12. /\ users' \in [Query -> Nat] /\ users'[q] = users[q] + 1 /\ users[q] \in Nat
       /\ \A r \in Query : r # q => users'[r] = users[r]
    BY <1>6 DEF MountTyped
<1>13. PICK n : n = NewSubscription(q)
    OBVIOUS
<1>14. /\ n \in Subs /\ n.query = q /\ n.mem = "live" /\ n.subscriberCtx = Zero /\ n.mountCtx = Zero
       /\ n.subscriberCount = One(Subscribes) /\ n.mountCount = One(OnMounts)
  <2>1. PICK a, b : a = One(Subscribes) /\ b = One(OnMounts)
      OBVIOUS
  <2>2. a \in Int /\ b \in Int
      BY <2>1 DEF One
  <2>3. n = [NoSubscription EXCEPT !.query = q, !.subscriberCount = a, !.mountCount = b, !.mem = "live"]
      BY <1>13, <2>1 DEF NewSubscription
  <2> QED
      BY <2>1, <2>2, <2>3 DEF NoSubscription, Subs
<1>15. /\ subscription' \in [SubscriptionId -> Subs] /\ subscription'[p] = n
       /\ \A j \in SubscriptionId : j # p => subscription'[j] = subscription[j] /\ About(j)' = About(j)
       /\ About(p)' = q
    BY <1>6, <1>7, <1>13, <1>14 DEF MountTyped, About
<1>16. /\ subscriptions' \in Seq(SubscriptionId)
       /\ \A j \in SubscriptionId : OnList(j)' <=> OnList(j) \/ j = p
       /\ \A x, y \in DOMAIN subscriptions' : subscriptions'[x] = subscriptions'[y] => x = y
    BY <1>2, <1>6, <1>7, <1>8, AppendedTo DEF MountTyped, OnList, OnceOK
<1>17. MountTyped'
    BY <1>6, <1>11, <1>12, <1>15, <1>16 DEF MountTyped
<1>18. \A u \in Caller \ {t} : InCall(u) /\ First(u).query.from = q.from =>
           mountOf.overlap = "subscribes" /\ First(u).query = q /\ First(u).at # "tell"
    BY <1>6, MayCallIs
<1>19. \A u \in Caller : ~(Opens(u) /\ First(u).query = q)
  <2> SUFFICES ASSUME NEW u \in Caller, Opens(u), First(u).query = q PROVE FALSE
      OBVIOUS
  <2>1. OpenOK(u, q)
      BY DEF ToldInv, CallOK, Opens
  <2> QED
      BY <1>3, <2>1 DEF OpenOK, Unlisted
<1>20. Quietly(t, q)
  <2>1. UNCHANGED <<mountOf, queryOf, removed>> /\ (InCall(t) => First(t).query = q) /\ First(t)'.query = q
      BY <1>6, <1>9, <1>11
  <2>2. \A j \in SubscriptionId : InCall(t)' /\ First(t)'.placeHolder = j /\ OnList(j)' => About(j)' = q
      BY <1>9, <1>11, <1>15
  <2>3. \A j \in SubscriptionId : OnList(j) => j # p
      BY <1>8
  <2>4. \A r \in Query : r # q => users'[r] = users[r] /\ told'[r] = told[r]
      BY <1>6, <1>12
  <2>5. \A j \in SubscriptionId : subscription[j].mem = "live" => j # p
      BY <1>7
  <2> QED
      BY <1>11, <1>15, <1>16, <1>18, <1>19, <2>1, <2>2, <2>3, <2>4, <2>5 DEF Quietly
<1>21. /\ \A j \in SubscriptionId : (j # p => (Pending(j)' <=> Pending(j))) /\ (Lent(j)' <=> Lent(j))
       /\ Pending(p)' /\ ~Lent(p)' /\ ~Unlisted(q)'
  <2>1. ~Opens(t)
      BY DEF Opens
  <2>2. \A j \in SubscriptionId : j # p => (Pending(j)' <=> Pending(j))
      BY <1>9, <1>11 DEF Pending
  <2>3. \A j \in SubscriptionId : Lent(j)' <=> Lent(j)
      BY <1>9, <1>11, <2>1, IdsAre DEF Lent
  <2>4. ~Lent(p)
      BY <1>7, <1>8, LentIs DEF Lent
  <2>5. Pending(p)'
      BY <1>9, <1>11 DEF Pending
  <2>6. ~Unlisted(q)'
      BY <1>7, <1>15, <1>16 DEF Unlisted
  <2> QED
      BY <1>7, <2>2, <2>3, <2>4, <2>5, <2>6
<1>22. misuse' = "none" /\ OnceOK' /\ StackOK(t)'
  <2>1. \A i, j \in SubscriptionId : OnList(i)' /\ OnList(j)' /\ About(i)' = About(j)' => i = j
      BY <1>2, <1>3, <1>15, <1>16 DEF OnceOK, Unlisted
  <2>2. OnceOK'
      BY <1>16, <2>1 DEF OnceOK
  <2>3. StackOK(t)'
      BY <1>11 DEF StackOK
  <2> QED
      BY <1>6, <2>2, <2>3 DEF ToldInv
<1>23. CallOK(t, q)'
  <2>1. Known(q)'
      BY DEF Known
  <2>2. OnList(p)' /\ About(p)' = q
      BY <1>7, <1>15, <1>16
  <2>3. OpenOK(t, q)'
      BY <1>7, <1>9, <1>11, <2>2 DEF OpenOK
  <2> QED
      BY <1>6, <1>9, <1>11, <2>1, <2>3 DEF CallOK
<1>24. \A u \in Caller : u # t => Together(t, u)'
    BY <1>6, <1>9, <1>11, <1>18, <1>19 DEF Together
<1>25. Distinct => users[q] = 0
  <2>1. ~Moving(q)
      BY <1>19 DEF Moving
  <2> QED
      BY <1>3, <1>6, <2>1 DEF ToldInv, QueryOK, One
<1>26. \A j \in SubscriptionId : ListOK(j, q)' /\ \A r \in Query : CountOK(j, r)'
  <2> SUFFICES ASSUME NEW j \in SubscriptionId, NEW r \in Query PROVE ListOK(j, q)' /\ CountOK(j, r)'
      OBVIOUS
  <2>1. (Distinct' <=> Distinct) /\ (Subscribes' <=> Subscribes) /\ (OnMounts' <=> OnMounts) /\ Known(q)'
      BY <1>6 DEF Distinct, Subscribes, OnMounts, Masked, Known
  <2>2. CountOK(j, r)
      BY DEF ToldInv
  <2>3. ListOK(j, q)'
    <3>1. OnList(j)' /\ About(j)' = q => j = p
        BY <1>3, <1>15, <1>16 DEF Unlisted
    <3> QED
        BY <1>6, <1>14, <1>15, <1>21, <2>1, <3>1 DEF ListOK
  <2>4. CountOK(j, r)'
    <3> SUFFICES ASSUME OnList(j)', About(j)' = r, Distinct PROVE CountOK(j, r)'
        BY <2>1 DEF CountOK
    <3>1. CASE j = p
      <4>1. r = q /\ One(Lent(j))' = 0 /\ users'[q] = 1
          BY <1>12, <1>15, <1>21, <1>25, <3>1 DEF One
      <4> QED
          BY <1>14, <1>15, <2>1, <3>1, <4>1 DEF CountOK, One
    <3>2. CASE j # p
      <4>1. OnList(j) /\ About(j) = r /\ r # q
          BY <1>3, <1>15, <1>16, <3>2 DEF Unlisted
      <4>2. One(Lent(j))' = One(Lent(j)) /\ users'[r] = users[r] /\ subscription'[j] = subscription[j]
          BY <1>12, <1>15, <1>21, <3>2, <4>1 DEF One
      <4> QED
          BY <2>1, <2>2, <4>1, <4>2 DEF CountOK
    <3> QED
        BY <3>1, <3>2
  <2> QED
      BY <2>3, <2>4
<1>27. QueryOK(q)'
  <2>1. Known(q)' /\ QueryOK(q)
      BY DEF Known, ToldInv
  <2>2. ~IsTold(q)
      BY <1>3, <1>18, <1>19 DEF IsTold, Unlisted
  <2>3. ~IsTold(q)'
    <3>1. \A u \in Caller : ~(Opens(u) /\ First(u).query = q /\ First(u).at # "notify")'
        BY <1>9, <1>11, <1>19
    <3>2. \A u \in Caller : ~(InCall(u) /\ First(u).at = "tell" /\ First(u).query = q)'
        BY <1>9, <1>11, <1>18
    <3>3. \A j \in SubscriptionId : ~(OnList(j) /\ About(j) = q /\ ~Pending(j))'
        BY <1>3, <1>15, <1>16, <1>21 DEF Unlisted
    <3> QED
        BY <3>1, <3>2, <3>3 DEF IsTold
  <2>4. told'[q] = 0
      BY <1>6, <2>1, <2>2 DEF QueryOK, One
  <2> QED
      BY <1>21, <2>1, <2>3, <2>4 DEF QueryOK, One
<1> QED
    BY <1>17, <1>20, <1>22, <1>23, <1>24, <1>26, <1>27, OneStep

(***************************************************************************)
(* The callbacks of a subscribe                                            *)
(***************************************************************************)
\* Only the call of a thread goes on, and that is not one that opens a subscription.
LEMMA OnlyTheCall ==
    ASSUME MountTyped, ToldInv, NEW t \in Caller, InCall(t), NEW s \in Seq(CallFrames),
           calls' = [calls EXCEPT ![t] = s], StackOK(t)',
           UNCHANGED <<mountOf, queryOf, subscriptions, subscription, users, told, removed, misuse>>,
           \/ s # <<>> /\ s[1] = First(t)
           \/ /\ First(t).found /\ First(t).at # "tell"
              /\ s # <<>> => s[1] = [First(t) EXCEPT !.at = "settle"]
    PROVE  MountTyped' /\ ToldInv'
<1>1. PICK q \in Query : First(t).query = q
    BY TypeOfCalls
<1>2. PICK c, d : c = First(t) /\ d = s[1]
    OBVIOUS
<1>3. c \in CallFrames /\ c.query = q
    BY <1>1, <1>2, TypeOfCalls
<1>4. s # <<>> => /\ d \in CallFrames /\ d.query = q /\ d.sub = c.sub /\ d.found = c.found
                  /\ d.placeHolder = c.placeHolder /\ d.subCtx = c.subCtx /\ d.mntCtx = c.mntCtx
                  /\ d = c \/ (c.found /\ c.at # "tell" /\ d.at = "settle")
    BY <1>2, <1>3 DEF CallFrames
<1>5. s = <<>> => c.found /\ c.at # "tell"
    BY <1>2
<1>6. /\ calls' \in [Caller -> Seq(CallFrames)] /\ calls'[t] = s
      /\ \A u \in Caller : u # t => /\ calls'[u] = calls[u] /\ (InCall(u)' <=> InCall(u))
                                    /\ First(u)' = First(u) /\ (Opens(u)' <=> Opens(u))
      /\ (InCall(t)' <=> s # <<>>) /\ First(t)' = d /\ (Opens(t)' <=> s # <<>> /\ ~d.found /\ d.at # "tell")
    BY <1>2, CallsChanged
<1>7. (Opens(t)' <=> Opens(t)) /\ (Opens(t) => s # <<>> /\ d = c)
    BY <1>2, <1>4, <1>5, <1>6 DEF Opens
<1>8. c.found => c.placeHolder = 0
    BY <1>1, <1>2 DEF ToldInv, CallOK, FoundOK
<1>9. MountTyped'
    BY <1>6 DEF MountTyped
<1>10. \A j \in SubscriptionId : /\ (OnList(j)' <=> OnList(j)) /\ About(j)' = About(j)
                                 /\ subscription'[j] = subscription[j]
    BY DEF OnList, About
<1>11. Quietly(t, q)
  <2>1. InCall(t) => First(t).query = q
      BY <1>1
  <2>2. InCall(t)' => First(t)'.query = q
      BY <1>4, <1>6
  <2>3. \A j \in SubscriptionId : InCall(t)' /\ First(t)'.placeHolder = j /\ OnList(j)' => About(j)' = q
      BY <1>1, <1>2, <1>4, <1>6, <1>10, PlaceHoldersAre
  <2>4. \A u \in Caller \ {t} : InCall(u) /\ First(u).query.from = q.from =>
            mountOf.overlap = "subscribes" /\ First(u).query = q /\ First(u).at # "tell"
      BY <1>1, InCallApart
  <2>5. \A u \in Caller \ {t}, p \in SubscriptionId :
            Opens(u) /\ First(u).query = q /\ First(u).placeHolder = p => OnList(p)' /\ About(p)' = q
      BY <1>10, PlaceHoldersAre DEF Opens
  <2> QED
      BY <1>6, <1>10, <2>1, <2>2, <2>3, <2>4, <2>5 DEF Quietly
<1>12. \A j \in SubscriptionId : (Pending(j)' <=> Pending(j)) /\ (Lent(j)' <=> Lent(j))
  <2>1. \A j \in SubscriptionId : Pending(j)' <=> Pending(j)
      BY <1>2, <1>4, <1>5, <1>6, <1>8, IdsAre DEF Pending
  <2>2. \A j \in SubscriptionId : Lent(j)' <=> Lent(j)
      BY <1>2, <1>6, <1>7 DEF Lent
  <2> QED
      BY <2>1, <2>2
<1>13. (Moving(q)' <=> Moving(q)) /\ (IsTold(q)' <=> IsTold(q)) /\ (Unlisted(q)' <=> Unlisted(q))
  <2>1. Moving(q)' <=> Moving(q)
      BY <1>2, <1>6, <1>7 DEF Moving
  <2>2. \A u \in Caller : (Opens(u) /\ First(u).query = q /\ First(u).at # "notify")'
                          <=> (Opens(u) /\ First(u).query = q /\ First(u).at # "notify")
      BY <1>2, <1>6, <1>7
  <2>3. \A u \in Caller, j \in SubscriptionId :
            (InCall(u) /\ First(u).at = "tell" /\ First(u).query = q /\ First(u).sub = j /\ ~OnList(j))'
            <=> (InCall(u) /\ First(u).at = "tell" /\ First(u).query = q /\ First(u).sub = j /\ ~OnList(j))
    <3> SUFFICES ASSUME NEW u \in Caller, NEW j \in SubscriptionId
                 PROVE  (InCall(u) /\ First(u).at = "tell" /\ First(u).query = q /\ First(u).sub = j /\ ~OnList(j))'
                        <=> (InCall(u) /\ First(u).at = "tell" /\ First(u).query = q /\ First(u).sub = j /\ ~OnList(j))
        OBVIOUS
    <3>1. CASE u = t
        BY <1>2, <1>3, <1>4, <1>5, <1>6, <1>10, <3>1
    <3>2. CASE u # t
        BY <1>6, <1>10, <3>2
    <3> QED
        BY <3>1, <3>2
  <2>4. \A j \in SubscriptionId : (OnList(j) /\ About(j) = q /\ ~Pending(j))' <=> (OnList(j) /\ About(j) = q /\ ~Pending(j))
      BY <1>10, <1>12
  <2>5. IsTold(q)' <=> IsTold(q)
      BY <2>2, <2>3, <2>4 DEF IsTold
  <2>6. Unlisted(q)' <=> Unlisted(q)
      BY <1>10 DEF Unlisted
  <2> QED
      BY <2>1, <2>5, <2>6
<1>14. /\ (Distinct' <=> Distinct) /\ (Subscribes' <=> Subscribes) /\ (OnMounts' <=> OnMounts) /\ (Known(q)' <=> Known(q))
       /\ SubAnswer(q)' = SubAnswer(q) /\ MntAnswer(q)' = MntAnswer(q)
    BY DEF Distinct, Subscribes, OnMounts, Masked, Known, SubAnswer, MntAnswer, HasMountQuery
<1>15. misuse' = "none" /\ OnceOK'
    BY <1>10 DEF ToldInv, OnceOK
<1>16. CallOK(t, q)'
  <2> SUFFICES ASSUME s # <<>>
               PROVE  /\ mountOf'.mask # {} /\ ~removed' /\ Known(q)'
                      /\ Opens(t)' => OpenOK(t, q)'
                      /\ First(t)'.found => FoundOK(t)'
                      /\ First(t)'.at = "tell" => TellOK(t, q)'
      BY <1>6 DEF CallOK
  <2>1. /\ mountOf.mask # {} /\ ~removed /\ Known(q)
        /\ Opens(t) => OpenOK(t, q)
        /\ c.found => FoundOK(t)
        /\ c.at = "tell" => TellOK(t, q)
      BY <1>1, <1>2 DEF ToldInv, CallOK
  <2>2. ASSUME Opens(t)' PROVE OpenOK(t, q)'
    <3>1. OpenOK(t, q) /\ First(t)' = First(t)
        BY <1>2, <1>6, <1>7, <2>1, <2>2
    <3>2. OneAtATime' <=> OneAtATime
        BY DEF OneAtATime, Subscribes, OnMounts, Masked
    <3>3. Unlisted(q)' <=> Unlisted(q)
        BY <1>13
    <3> QED
        BY <1>10, <1>14, <3>1, <3>2, <3>3 DEF OpenOK
  <2>3. First(t)'.found => FoundOK(t)'
      BY <1>2, <1>4, <1>6, <2>1 DEF FoundOK
  <2>4. ASSUME d.at = "tell" PROVE TellOK(t, q)'
    <3>1. d = c /\ TellOK(t, q) /\ First(t)' = First(t)
        BY <1>2, <1>4, <1>6, <2>1, <2>4
    <3> QED
        BY <1>10, <1>13, <1>14, <3>1 DEF TellOK
  <2> QED
      BY <1>6, <1>14, <2>1, <2>2, <2>3, <2>4
<1>17. \A u \in Caller : u # t => Together(t, u)'
  <2> SUFFICES ASSUME NEW u \in Caller, u # t, InCall(t)', InCall(u)', First(t)'.query.from = First(u)'.query.from
               PROVE  /\ mountOf'.overlap = "subscribes" /\ First(t)'.query = First(u)'.query
                      /\ First(t)'.at # "tell" /\ First(u)'.at # "tell" /\ ~(Opens(t)' /\ Opens(u)')
      BY DEF Together
  <2>1. InCall(u) /\ First(u).query.from = First(t).query.from
      BY <1>1, <1>4, <1>6
  <2>2. /\ mountOf.overlap = "subscribes" /\ First(u).query = First(t).query
        /\ First(u).at # "tell" /\ First(t).at # "tell" /\ ~(Opens(t) /\ Opens(u))
      BY <2>1, InCallApart
  <2> QED
      BY <1>1, <1>2, <1>4, <1>6, <1>7, <2>2
<1>18. \A j \in SubscriptionId : ListOK(j, q)' /\ \A r \in Query : CountOK(j, r)'
  <2> SUFFICES ASSUME NEW j \in SubscriptionId, NEW r \in Query PROVE ListOK(j, q)' /\ CountOK(j, r)'
      OBVIOUS
  <2>1. ListOK(j, q) /\ CountOK(j, r)
      BY DEF ToldInv
  <2>2. ListOK(j, q)'
      BY <1>10, <1>12, <1>14, <2>1 DEF ListOK
  <2>3. CountOK(j, r)'
      BY <1>10, <1>12, <1>14, <2>1 DEF CountOK, One
  <2> QED
      BY <2>2, <2>3
<1>19. QueryOK(q)'
    BY <1>13, <1>14 DEF ToldInv, QueryOK, One
<1> QED
    BY <1>9, <1>11, <1>15, <1>16, <1>17, <1>18, <1>19, OneStep

\* The call of a thread that goes on: what is known when it found the subscription, and when not.
LEMMA CallIs ==
    ASSUME MountTyped, ToldInv, NEW t \in Caller, InCall(t)
    PROVE  /\ Call(t) \in CallFrames /\ Call(t).query \in Query /\ Call(t).query = First(t).query
           /\ Call(t).found => Call(t).placeHolder = 0
           /\ Call(t).found /\ Call(t).at # "tell" => Call(t).subCtx = Zero /\ Call(t).mntCtx = Zero
           /\ Len(calls[t]) = 2 => Call(t).found /\ Call(t).at \in {"notify", "settle"} /\ First(t).at = "settle"
                                   /\ ~First(t).found
           /\ Len(calls[t]) # 2 => Call(t) = First(t) /\ Front(calls[t]) = <<>> /\ calls[t] = <<First(t)>>
<1>1. /\ Len(calls[t]) \in {1, 2} /\ Call(t) \in CallFrames /\ First(t) \in CallFrames
      /\ Len(calls[t]) = 1 => Call(t) = First(t) /\ Front(calls[t]) = <<>> /\ calls[t] = <<First(t)>>
      /\ Len(calls[t]) = 2 => Call(t) = calls[t][2]
    BY StackIs
<1>2. StackOK(t)
    BY DEF ToldInv
<1>3. PICK q \in Query : First(t).query = q
    BY TypeOfCalls
<1>4. First(t).found => FoundOK(t)
    BY <1>3 DEF ToldInv, CallOK
<1>5. CASE Len(calls[t]) = 2
  <2>1. /\ First(t).at = "settle" /\ ~First(t).found /\ Call(t) = calls[t][2]
        /\ calls[t][2].at \in {"notify", "settle"} /\ calls[t][2].query = First(t).query
        /\ calls[t][2].found /\ calls[t][2].placeHolder = 0
        /\ calls[t][2].subCtx = Zero /\ calls[t][2].mntCtx = Zero
      BY <1>1, <1>2, <1>5 DEF StackOK
  <2> QED
      BY <1>1, <1>3, <1>5, <2>1
<1>6. CASE Len(calls[t]) # 2
    BY <1>1, <1>3, <1>4, <1>6 DEF FoundOK
<1> QED
    BY <1>5, <1>6

\* A stack of two calls.
LEMMA TwoCalls ==
    ASSUME NEW S, NEW a \in S, NEW b \in S
    PROVE  LET s == Append(<<a>>, b) IN s \in Seq(S) /\ s # <<>> /\ s[1] = a /\ s[2] = b /\ Len(s) = 2
<1>1. PICK f : f = <<a>>
    OBVIOUS
<1>2. f \in Seq(S)
    BY <1>1
<1>3. Len(f) = 1 /\ f[1] = a
    BY <1>1
<1>4. PICK s : s = Append(f, b)
    OBVIOUS
<1>5. /\ s \in Seq(S) /\ s # <<>> /\ Len(s) = Len(f) + 1 /\ s[Len(f) + 1] = b
      /\ \A i \in 1..Len(f) : s[i] = f[i]
  <2>1. /\ Append(f, b) \in Seq(S) /\ Append(f, b) # <<>> /\ Len(Append(f, b)) = Len(f) + 1
        /\ \A i \in 1..Len(f) : Append(f, b)[i] = f[i]
        /\ Append(f, b)[Len(f) + 1] = b
      BY <1>2, AppendProperties
  <2> QED
      BY <1>4, <2>1
<1>6. s[1] = a /\ s[2] = b /\ Len(s) = 2
    BY <1>3, <1>5
<1> QED
    BY <1>1, <1>4, <1>5, <1>6

\* A subscribe that found its subscription makes no callback.
LEMMA TellFound ==
    ASSUME MountTyped, ToldInv, NEW t \in Caller, InCall(t), queryOf' = queryOf, Tell(t), Call(t).found
    PROVE  MountTyped' /\ ToldInv'
<1>1. PICK c : c = Call(t)
    OBVIOUS
<1>2. c \in CallFrames /\ c.query \in Query /\ c.query = First(t).query /\ c.found /\ c.placeHolder = 0 /\ c.at = "notify"
    BY <1>1, CallIs DEF Tell, At
<1>3. ~MustTell(c)
    BY <1>2 DEF MustTell
<1>4. PICK e : e = [c EXCEPT !.at = "settle", !.subCtx = Zero, !.mntCtx = Zero]
    OBVIOUS
<1>5. /\ e \in CallFrames /\ e.at = "settle" /\ e.query = c.query /\ e.found /\ e.placeHolder = 0 /\ e.sub = c.sub
      /\ e.subCtx = Zero /\ e.mntCtx = Zero
    BY <1>2, <1>4 DEF CallFrames, Zero
<1>6. PICK s : s = Append(Front(calls[t]), e)
    OBVIOUS
<1>7. /\ calls' = [calls EXCEPT ![t] = s]
      /\ misuse' = misuse
      /\ UNCHANGED <<mountOf, subscriptions, subscription, users, removed>>
      /\ told' = [told EXCEPT ![c.query] = told[c.query] + One(e.subCtx # Zero)]
  <2>1. PICK a : a = [c EXCEPT !.at = "settle", !.subCtx = IF MustTell(c) /\ Subscribes
                           THEN Answer(c.query, (IF c.sub = 0 THEN NoSubscription ELSE subscription[c.sub]).subscriberCtx) ELSE Zero,
                      !.mntCtx = IF MustTell(c) /\ OnMounts /\ HasMountQuery(c.query)
                           THEN Answer(c.query, (IF c.sub = 0 THEN NoSubscription ELSE subscription[c.sub]).mountCtx) ELSE Zero]
      OBVIOUS
  <2>2. a = e
      BY <1>3, <1>4, <2>1
  <2>3. /\ Use(IF c.found THEN 0 ELSE c.sub)
        /\ told' = [told EXCEPT ![c.query] = @ + One(a.subCtx # Zero)]
        /\ Continue(t, [a EXCEPT !.at = IF MustTell(c) /\ Subscribes /\ mountOf.recursive THEN "callback" ELSE "settle"])
        /\ UNCHANGED <<mountOf, subscriptions, subscription, users, removed>>
      BY <1>1, <2>1 DEF Tell
  <2>4. [e EXCEPT !.at = "settle"] = e
      BY <1>5 DEF CallFrames
  <2>5. Continue(t, e)
      BY <1>3, <2>2, <2>3, <2>4
  <2>6. Use(0)
      BY <1>2, <2>3
  <2>7. misuse' = misuse
      BY <2>6 DEF Use
  <2>8. calls' = [calls EXCEPT ![t] = s]
      BY <1>6, <2>5 DEF Continue
  <2>9. told' = [told EXCEPT ![c.query] = told[c.query] + One(e.subCtx # Zero)]
      BY <2>2, <2>3
  <2> QED
      BY <2>3, <2>7, <2>8, <2>9
<1>8. told' = told
  <2>1. told[c.query] \in Int /\ One(e.subCtx # Zero) = 0
      BY <1>2, <1>5 DEF MountTyped, One
  <2>2. told[c.query] + 0 = told[c.query]
      BY <2>1
  <2> QED
      BY <1>7, <2>1, <2>2 DEF MountTyped
<1>9. CASE Len(calls[t]) = 2
  <2>1. Front(calls[t]) = <<First(t)>> /\ First(t) \in CallFrames
      BY <1>9, StackIs
  <2>2. s = Append(<<First(t)>>, e)
      BY <1>6, <2>1
  <2>3. s \in Seq(CallFrames) /\ s # <<>> /\ s[1] = First(t) /\ s[2] = e /\ Len(s) = 2
      BY <1>5, <2>1, <2>2, TwoCalls
  <2>4. calls'[t] = s
      BY <1>7 DEF MountTyped
  <2>5. First(t).at = "settle" /\ ~First(t).found
      BY <1>9, CallIs
  <2>6. StackOK(t)'
    <3>1. calls'[t][1] = First(t) /\ calls'[t][2] = e /\ Len(calls'[t]) = 2
        BY <2>3, <2>4
    <3> QED
        BY <1>2, <1>5, <2>5, <3>1 DEF StackOK, First
  <2> QED
      BY <1>7, <1>8, <2>3, <2>6, OnlyTheCall
<1>10. CASE Len(calls[t]) # 2
  <2>1. Front(calls[t]) = <<>> /\ First(t) = c
      BY <1>1, <1>10, CallIs
  <2>2. s = <<e>>
      BY <1>6, <2>1
  <2>3. s \in Seq(CallFrames) /\ s # <<>> /\ s[1] = e /\ Len(s) = 1
      BY <1>5, <2>2
  <2>4. calls'[t] = s
      BY <1>7 DEF MountTyped
  <2>5. StackOK(t)'
    <3>1. Len(calls'[t]) = 1
        BY <2>3, <2>4
    <3> QED
        BY <3>1 DEF StackOK
  <2>6. e = [c EXCEPT !.at = "settle"]
    <3>1. c.subCtx = Zero /\ c.mntCtx = Zero
        BY <1>1, <1>2, CallIs
    <3> QED
        BY <1>2, <1>4, <3>1 DEF CallFrames
  <2> QED
      BY <1>2, <1>7, <1>8, <2>1, <2>3, <2>5, <2>6, OnlyTheCall
<1> QED
    BY <1>9, <1>10

\* A subscribe that found its subscription has nothing to settle.
LEMMA SettleFound ==
    ASSUME MountTyped, ToldInv, NEW t \in Caller, InCall(t), queryOf' = queryOf, Settle(t), Call(t).found
    PROVE  MountTyped' /\ ToldInv'
<1>1. PICK c : c = Call(t)
    OBVIOUS
<1>2. c.found /\ c.at = "settle"
    BY <1>1 DEF Settle, At
<1>3. c.placeHolder = 0 /\ c.subCtx = Zero /\ c.mntCtx = Zero
    BY <1>1, <1>2, CallIs
<1>4. PICK s : s = Front(calls[t])
    OBVIOUS
<1>5. /\ calls' = [calls EXCEPT ![t] = s] /\ misuse' = misuse
      /\ UNCHANGED <<mountOf, subscriptions, subscription, users, told, removed>>
    BY <1>1, <1>3, <1>4 DEF Settle, Use, Return
<1>6. CASE Len(calls[t]) = 2
  <2>1. s = <<First(t)>> /\ First(t) \in CallFrames
      BY <1>4, <1>6, StackIs
  <2>2. s \in Seq(CallFrames) /\ s # <<>> /\ s[1] = First(t) /\ Len(s) <= 2 /\ Len(s) # 2
      BY <2>1
  <2>3. calls'[t] = s
      BY <1>5 DEF MountTyped
  <2>4. StackOK(t)'
    <3>1. Len(calls'[t]) <= 2 /\ Len(calls'[t]) # 2
        BY <2>2, <2>3
    <3> QED
        BY <3>1 DEF StackOK
  <2> QED
      BY <1>5, <2>2, <2>4, OnlyTheCall
<1>7. CASE Len(calls[t]) # 2
  <2>1. s = <<>> /\ First(t) = c
      BY <1>1, <1>4, <1>7, CallIs
  <2>2. s \in Seq(CallFrames) /\ Len(s) <= 2 /\ Len(s) # 2
      BY <2>1
  <2>3. calls'[t] = s
      BY <1>5 DEF MountTyped
  <2>4. StackOK(t)'
    <3>1. Len(calls'[t]) <= 2 /\ Len(calls'[t]) # 2
        BY <2>2, <2>3
    <3> QED
        BY <3>1 DEF StackOK
  <2> QED
      BY <1>2, <1>5, <2>1, <2>2, <2>4, OnlyTheCall
<1> QED
    BY <1>6, <1>7

\* What the mount answers to a call that opens a subscription.
LEMMA AnswersAre ==
    ASSUME MountTyped, ToldInv, Regular, NEW t \in Caller, NEW q \in Query, Opens(t), First(t).query = q,
           First(t).at = "notify", NEW old,
           old = IF First(t).sub = 0 THEN NoSubscription ELSE subscription[First(t).sub]
    PROVE  /\ MustTell(First(t)) /\ OpenOK(t, q) /\ mountOf.mask # {} /\ ~removed /\ Known(q)
           /\ (IF Subscribes THEN Answer(q, old.subscriberCtx) ELSE Zero) = SubAnswer(q)
           /\ (IF OnMounts /\ HasMountQuery(q) THEN Answer(q, old.mountCtx) ELSE Zero) = MntAnswer(q)
           /\ SubAnswer(q) \in {Zero} \cup Seq(From \cup Select \cup {"*"})
           /\ MntAnswer(q) \in {Zero} \cup Seq(From \cup Select \cup {"*"})
           /\ SubAnswer(q) # Zero <=> Distinct /\ Subscribes
           /\ First(t).sub # 0 => subscription[First(t).sub].mem = "live"
<1>1. /\ OpenOK(t, q) /\ mountOf.mask # {} /\ ~removed /\ Known(q) /\ ~First(t).found
    BY DEF ToldInv, CallOK, Opens
<1>2. Subscribes \/ OnMounts
    BY <1>1 DEF MountTyped, Mounts, Subscribes, OnMounts, Masked
<1>3. mountOf.answer \in {"distinct", "zero"}
    BY DEF MountTyped, Mounts, Regular
<1>4. <<q.from, q.select>> \in Seq(From \cup Select \cup {"*"}) /\ <<q.from, q.select>> # Zero
    BY QueriesAre
<1>5. \A o : Answer(q, o) = IF Distinct THEN <<q.from, q.select>> ELSE Zero
    BY <1>3 DEF Answer, Distinct
<1>6. /\ (IF Subscribes THEN Answer(q, old.subscriberCtx) ELSE Zero) = SubAnswer(q)
      /\ (IF OnMounts /\ HasMountQuery(q) THEN Answer(q, old.mountCtx) ELSE Zero) = MntAnswer(q)
    BY <1>5 DEF SubAnswer, MntAnswer
<1>7. /\ SubAnswer(q) \in {Zero} \cup Seq(From \cup Select \cup {"*"})
      /\ MntAnswer(q) \in {Zero} \cup Seq(From \cup Select \cup {"*"})
      /\ SubAnswer(q) # Zero <=> Distinct /\ Subscribes
    BY <1>4 DEF SubAnswer, MntAnswer
<1>8. MustTell(First(t)) /\ (First(t).sub # 0 => subscription[First(t).sub].mem = "live")
  <2>1. CASE First(t).sub = 0
      BY <1>1, <2>1 DEF MustTell
  <2>2. CASE First(t).sub # 0
    <3>1. PICK i \in SubscriptionId : First(t).sub = i /\ OnList(i) /\ About(i).from = q.from
        BY <1>1, <2>2 DEF OpenOK
    <3>2. OneAtATime /\ Distinct /\ First(t).placeHolder = 0 /\ Unlisted(q)
        BY <1>1, <2>2 DEF OpenOK
    <3>3. PICK a \in Query : About(i) = a
        BY DEF MountTyped, Subs, About
    <3>4. ~Pending(i)
      <4>1. SUFFICES ASSUME NEW u \in Caller, InCall(u), First(u).placeHolder = i PROVE FALSE
          BY DEF Pending
      <4>2. About(i) = First(u).query
          BY <4>1, PlaceHoldersAre
      <4>3. u # t
          BY <3>2, <4>1, IdsAre
      <4>4. InCall(t)
          BY DEF Opens
      <4>5. mountOf.overlap = "subscribes"
          BY <3>1, <4>1, <4>2, <4>3, <4>4, InCallApart
      <4> QED
          BY <3>2, <4>5 DEF OneAtATime
    <3>5. /\ subscription[i].mem = "live" /\ subscription[i].subscriberCtx = SubAnswer(a)
          /\ subscription[i].mountCtx = MntAnswer(a)
        BY <3>1, <3>3, <3>4 DEF ToldInv, ListOK
    <3>6. <<a.from, a.select>> # Zero
        BY QueriesAre
    <3>7. CASE Subscribes
        BY <1>1, <2>2, <3>1, <3>2, <3>5, <3>6, <3>7 DEF MustTell, SubAnswer
    <3>8. CASE ~Subscribes
        BY <1>1, <1>2, <2>2, <3>1, <3>2, <3>5, <3>6, <3>8 DEF MustTell, MntAnswer, HasMountQuery
    <3> QED
        BY <3>1, <3>5, <3>7, <3>8
  <2> QED
      BY <2>1, <2>2
<1> QED
    BY <1>1, <1>6, <1>7, <1>8

\* Who opens a subscription and has not told yet is the only one that tells of its query.
LEMMA NotTold ==
    ASSUME MountTyped, ToldInv, NEW t \in Caller, NEW q \in Query, Opens(t), First(t).query = q,
           First(t).at = "notify"
    PROVE  ~IsTold(q)
<1>1. OpenOK(t, q) /\ InCall(t)
    BY DEF ToldInv, CallOK, Opens
<1>2. ASSUME NEW i \in SubscriptionId, OnList(i), About(i) = q, ~Pending(i) PROVE FALSE
  <2>1. CASE First(t).sub = 0
    <3>1. PICK p \in SubscriptionId : First(t).placeHolder = p /\ OnList(p) /\ About(p) = q
        BY <1>1, <2>1 DEF OpenOK
    <3>2. i = p
        BY <1>2, <3>1 DEF ToldInv, OnceOK
    <3> QED
        BY <1>1, <1>2, <3>1, <3>2 DEF Pending
  <2>2. CASE First(t).sub # 0
      BY <1>1, <1>2, <2>2 DEF OpenOK, Unlisted
  <2> QED
      BY <2>1, <2>2
<1>3. ASSUME NEW u \in Caller, Opens(u), First(u).query = q, First(u).at # "notify" PROVE FALSE
    BY <1>1, <1>3, InCallApart DEF Opens
<1>4. ASSUME NEW u \in Caller, InCall(u), First(u).at = "tell", First(u).query = q PROVE FALSE
    BY <1>1, <1>4, InCallApart
<1> QED
    BY <1>2, <1>3, <1>4 DEF IsTold

\* The mount is told of a query by the call that opens a subscription for it.
LEMMA TellOpening ==
    ASSUME MountTyped, ToldInv, Regular, NEW t \in Caller, InCall(t), queryOf' = queryOf, Tell(t), ~Call(t).found
    PROVE  MountTyped' /\ ToldInv'
<1>1. PICK c : c = First(t)
    OBVIOUS
<1>2. PICK q \in Query : c.query = q
    BY <1>1, TypeOfCalls
<1>3. /\ c = Call(t) /\ Front(calls[t]) = <<>> /\ c \in CallFrames /\ ~c.found /\ c.at = "notify"
      /\ Opens(t) /\ First(t).query = q
    BY <1>1, <1>2, CallIs DEF Tell, At, Opens
<1>4. PICK old : old = IF c.sub = 0 THEN NoSubscription ELSE subscription[c.sub]
    OBVIOUS
<1>5. /\ MustTell(c) /\ OpenOK(t, q) /\ mountOf.mask # {} /\ ~removed /\ Known(q)
      /\ (IF Subscribes THEN Answer(q, old.subscriberCtx) ELSE Zero) = SubAnswer(q)
      /\ (IF OnMounts /\ HasMountQuery(q) THEN Answer(q, old.mountCtx) ELSE Zero) = MntAnswer(q)
      /\ SubAnswer(q) \in {Zero} \cup Seq(From \cup Select \cup {"*"})
      /\ MntAnswer(q) \in {Zero} \cup Seq(From \cup Select \cup {"*"})
      /\ SubAnswer(q) # Zero <=> Distinct /\ Subscribes
      /\ c.sub # 0 => subscription[c.sub].mem = "live"
    BY <1>1, <1>3, <1>4, AnswersAre
<1>6. PICK x, y : x = SubAnswer(q) /\ y = MntAnswer(q)
    OBVIOUS
<1>7. PICK z : z = IF Subscribes /\ mountOf.recursive THEN "callback" ELSE "settle"
    OBVIOUS
<1>8. PICK e : e = [c EXCEPT !.at = z, !.subCtx = x, !.mntCtx = y]
    OBVIOUS
<1>9. /\ e \in CallFrames /\ e.at = z /\ e.query = q /\ ~e.found /\ e.placeHolder = c.placeHolder /\ e.sub = c.sub
      /\ e.subCtx = x /\ e.mntCtx = y /\ z \in {"callback", "settle"}
  <2>1. z \in {"callback", "settle"}
      BY <1>7
  <2>2. x \in {Zero} \cup Seq(From \cup Select \cup {"*"}) /\ y \in {Zero} \cup Seq(From \cup Select \cup {"*"})
      BY <1>5, <1>6
  <2>3. e.at = z /\ e.subCtx = x /\ e.mntCtx = y
      BY <1>3, <1>8 DEF CallFrames
  <2>4. e.query = q /\ ~e.found /\ e.placeHolder = c.placeHolder /\ e.sub = c.sub
      BY <1>2, <1>3, <1>8 DEF CallFrames
  <2>5. e \in CallFrames
      BY <1>3, <1>8, <2>1, <2>2 DEF CallFrames
  <2> QED
      BY <2>1, <2>3, <2>4, <2>5
<1>10. /\ calls' = [calls EXCEPT ![t] = <<e>>]
       /\ misuse' = misuse
       /\ UNCHANGED <<mountOf, subscriptions, subscription, users, removed>>
       /\ told' = [told EXCEPT ![q] = told[q] + One(x # Zero)]
  <2>1. PICK a : a = [c EXCEPT !.at = "settle",
                      !.subCtx = IF MustTell(c) /\ Subscribes THEN Answer(c.query, old.subscriberCtx) ELSE Zero,
                      !.mntCtx = IF MustTell(c) /\ OnMounts /\ HasMountQuery(c.query)
                                 THEN Answer(c.query, old.mountCtx) ELSE Zero]
      OBVIOUS
  <2>2. a = [c EXCEPT !.at = "settle", !.subCtx = x, !.mntCtx = y]
      BY <1>2, <1>5, <1>6, <2>1
  <2>3. /\ Use(IF c.found THEN 0 ELSE c.sub)
        /\ told' = [told EXCEPT ![c.query] = @ + One(a.subCtx # Zero)]
        /\ Continue(t, [a EXCEPT !.at = IF MustTell(c) /\ Subscribes /\ mountOf.recursive THEN "callback" ELSE "settle"])
        /\ UNCHANGED <<mountOf, subscriptions, subscription, users, removed>>
      BY <1>3, <1>4, <2>1 DEF Tell
  <2>4. [a EXCEPT !.at = z] = e /\ a.subCtx = x
      BY <1>3, <1>8, <2>2 DEF CallFrames
  <2>5. Continue(t, e)
      BY <1>5, <1>7, <2>3, <2>4
  <2>6. Use(c.sub)
      BY <1>3, <2>3
  <2>7. misuse' = misuse
      BY <1>5, <2>6 DEF Use
  <2>8. calls' = [calls EXCEPT ![t] = <<e>>]
    <3>1. Append(<<>>, e) = <<e>>
        OBVIOUS
    <3> QED
        BY <1>3, <2>5, <3>1 DEF Continue
  <2>9. told' = [told EXCEPT ![q] = told[q] + One(x # Zero)]
      BY <1>2, <2>3, <2>4
  <2> QED
      BY <2>3, <2>7, <2>8, <2>9
<1>11. /\ calls' \in [Caller -> Seq(CallFrames)] /\ calls'[t] = <<e>>
       /\ \A u \in Caller : u # t => /\ calls'[u] = calls[u] /\ (InCall(u)' <=> InCall(u))
                                     /\ First(u)' = First(u) /\ (Opens(u)' <=> Opens(u))
       /\ InCall(t)' /\ First(t)' = e /\ Opens(t)'
  <2>1. <<e>> \in Seq(CallFrames) /\ <<e>> # <<>> /\ <<e>>[1] = e /\ ~e.found /\ e.at # "tell"
      BY <1>9
  <2> QED
      BY <1>10, <2>1, CallsChanged
<1>12. /\ told' \in [Query -> Int] /\ told'[q] = told[q] + One(Distinct /\ Subscribes)
       /\ \A r \in Query : r # q => told'[r] = told[r]
  <2>1. PICK n : n = told[q] + One(x # Zero)
      OBVIOUS
  <2>2. n \in Int
      BY <2>1 DEF MountTyped, One
  <2>3. One(x # Zero) = One(Distinct /\ Subscribes)
      BY <1>5, <1>6 DEF One
  <2> QED
      BY <1>10, <2>1, <2>2, <2>3 DEF MountTyped
<1>13. MountTyped'
    BY <1>10, <1>11, <1>12 DEF MountTyped
<1>14. \A j \in SubscriptionId : (OnList(j)' <=> OnList(j)) /\ About(j)' = About(j) /\ subscription'[j] = subscription[j]
    BY <1>10 DEF OnList, About
<1>15. InCall(t) /\ \A u \in Caller \ {t} : InCall(u) /\ First(u).query.from = q.from =>
           /\ mountOf.overlap = "subscribes" /\ First(u).query = q /\ First(u).at # "tell" /\ ~Opens(u)
    BY <1>3, InCallApart
<1>16. Quietly(t, q)
  <2>1. UNCHANGED <<mountOf, queryOf, removed>> /\ (InCall(t) => First(t).query = q) /\ First(t)'.query = q
      BY <1>3, <1>9, <1>10, <1>11
  <2>2. \A j \in SubscriptionId : InCall(t)' /\ First(t)'.placeHolder = j /\ OnList(j)' => About(j)' = q
      BY <1>1, <1>2, <1>9, <1>11, <1>14, <1>15, PlaceHoldersAre
  <2>3. \A u \in Caller \ {t}, p \in SubscriptionId :
            Opens(u) /\ First(u).query = q /\ First(u).placeHolder = p => OnList(p)' /\ About(p)' = q
      BY <1>14, PlaceHoldersAre DEF Opens
  <2>4. \A r \in Query : r # q => users'[r] = users[r] /\ told'[r] = told[r]
      BY <1>10, <1>12
  <2> QED
      BY <1>11, <1>14, <1>15, <2>1, <2>2, <2>3, <2>4 DEF Quietly
<1>17. /\ \A j \in SubscriptionId : (Pending(j)' <=> Pending(j)) /\ (Lent(j)' <=> Lent(j))
       /\ (Moving(q)' <=> Moving(q)) /\ IsTold(q)' /\ (Unlisted(q)' <=> Unlisted(q))
  <2>1. \A j \in SubscriptionId : Pending(j)' <=> Pending(j)
      BY <1>1, <1>9, <1>11, <1>15 DEF Pending
  <2>2. \A j \in SubscriptionId : Lent(j)' <=> Lent(j)
      BY <1>1, <1>3, <1>9, <1>11 DEF Lent
  <2>3. Moving(q)' <=> Moving(q)
      BY <1>1, <1>3, <1>9, <1>11 DEF Moving
  <2>4. IsTold(q)'
      BY <1>9, <1>11 DEF IsTold
  <2>5. Unlisted(q)' <=> Unlisted(q)
      BY <1>14 DEF Unlisted
  <2> QED
      BY <2>1, <2>2, <2>3, <2>4, <2>5
<1>18. misuse' = "none" /\ OnceOK' /\ StackOK(t)'
  <2>1. OnceOK'
      BY <1>10, <1>14 DEF ToldInv, OnceOK
  <2>2. StackOK(t)'
      BY <1>11 DEF StackOK
  <2> QED
      BY <1>10, <2>1, <2>2 DEF ToldInv
<1>19. /\ (Distinct' <=> Distinct) /\ (Subscribes' <=> Subscribes) /\ (OnMounts' <=> OnMounts) /\ Known(q)'
       /\ SubAnswer(q)' = SubAnswer(q) /\ MntAnswer(q)' = MntAnswer(q) /\ (OneAtATime' <=> OneAtATime)
  <2>1. (Distinct' <=> Distinct) /\ (Subscribes' <=> Subscribes) /\ (OnMounts' <=> OnMounts) /\ Known(q)'
      BY <1>5, <1>10 DEF Distinct, Subscribes, OnMounts, Masked, Known
  <2>2. SubAnswer(q)' = SubAnswer(q) /\ MntAnswer(q)' = MntAnswer(q)
      BY <2>1 DEF SubAnswer, MntAnswer, HasMountQuery
  <2>3. OneAtATime' <=> OneAtATime
      BY <1>10, <2>1 DEF OneAtATime
  <2> QED
      BY <2>1, <2>2, <2>3
<1>20. CallOK(t, q)'
  <2>1. First(t).sub = 0 => \E p \in SubscriptionId : First(t).placeHolder = p /\ OnList(p) /\ About(p) = q
      BY <1>5 DEF OpenOK
  <2>2. First(t).sub # 0 => /\ OneAtATime /\ Distinct /\ First(t).placeHolder = 0 /\ Unlisted(q)
                            /\ \E i \in SubscriptionId : First(t).sub = i /\ OnList(i) /\ About(i).from = q.from
      BY <1>5 DEF OpenOK
  <2>3. First(t).sub # 0 => z = "settle"
      BY <1>7, <2>2 DEF OneAtATime
  <2>4. First(t)'.sub = 0 => \E p \in SubscriptionId : First(t)'.placeHolder = p /\ OnList(p)' /\ About(p)' = q
      BY <1>1, <1>9, <1>11, <1>14, <2>1
  <2>5. First(t)'.sub # 0 => /\ OneAtATime' /\ Distinct' /\ First(t)'.placeHolder = 0 /\ Unlisted(q)'
                             /\ First(t)'.at # "callback"
                             /\ \E i \in SubscriptionId : First(t)'.sub = i /\ OnList(i)' /\ About(i)'.from = q.from
      BY <1>1, <1>9, <1>11, <1>14, <1>17, <1>19, <2>2, <2>3
  <2>6. /\ First(t)'.at # "notify" /\ First(t)'.at # "tell" /\ ~First(t)'.found
        /\ First(t)'.subCtx = SubAnswer(q)' /\ First(t)'.mntCtx = MntAnswer(q)'
      BY <1>6, <1>9, <1>11, <1>19
  <2>7. OpenOK(t, q)'
      BY <2>4, <2>5, <2>6 DEF OpenOK
  <2> QED
      BY <1>5, <1>10, <1>19, <2>6, <2>7 DEF CallOK
<1>21. \A u \in Caller : u # t => Together(t, u)'
    BY <1>9, <1>10, <1>11, <1>15 DEF Together
<1>22. \A j \in SubscriptionId : ListOK(j, q)' /\ \A r \in Query : CountOK(j, r)'
  <2> SUFFICES ASSUME NEW j \in SubscriptionId, NEW r \in Query PROVE ListOK(j, q)' /\ CountOK(j, r)'
      OBVIOUS
  <2>1. ListOK(j, q) /\ CountOK(j, r)
      BY DEF ToldInv
  <2>2. ListOK(j, q)'
      BY <1>10, <1>14, <1>17, <1>19, <2>1 DEF ListOK
  <2>3. CountOK(j, r)'
      BY <1>10, <1>14, <1>17, <1>19, <2>1 DEF CountOK, One
  <2> QED
      BY <2>2, <2>3
<1>23. QueryOK(q)'
  <2>1. QueryOK(q) /\ ~IsTold(q)
      BY <1>1, <1>3, NotTold DEF ToldInv
  <2>2. told[q] = 0
      BY <2>1 DEF QueryOK, One
  <2>3. told'[q] = One(Distinct /\ Subscribes /\ IsTold(q))'
      BY <1>12, <1>17, <1>19, <2>2 DEF One
  <2> QED
      BY <1>10, <1>17, <1>19, <2>1, <2>3 DEF QueryOK, One
<1> QED
    BY <1>13, <1>16, <1>18, <1>20, <1>21, <1>22, <1>23, OneStep

\* A subscribe that is made by on_subscribe finds the placeholder of the call that it is in.
LEMMA CallbackFinds ==
    ASSUME MountTyped, ToldInv, Regular, NEW t \in Caller, InCall(t), queryOf' = queryOf, CallbackSubscribes(t)
    PROVE  MountTyped' /\ ToldInv'
<1>1. PICK c : c = First(t)
    OBVIOUS
<1>2. PICK q \in Query : c.query = q
    BY <1>1, TypeOfCalls
<1>3. c = Call(t) /\ Front(calls[t]) = <<>> /\ c \in CallFrames /\ c.at = "callback"
  <2>1. Call(t).at = "callback"
      BY DEF CallbackSubscribes, At
  <2> QED
      BY <1>1, <2>1, CallIs
<1>4. CallOK(t, q)
    BY DEF ToldInv
<1>5. ~c.found /\ Opens(t) /\ First(t).query = q /\ OpenOK(t, q) /\ mountOf.mask # {} /\ ~removed /\ Known(q)
    BY <1>1, <1>2, <1>3, <1>4 DEF CallOK, FoundOK, Opens
<1>6. PICK p \in SubscriptionId : c.placeHolder = p /\ OnList(p) /\ About(p) = q
    BY <1>1, <1>3, <1>5 DEF OpenOK
<1>7. c.sub = 0 /\ c.subCtx = SubAnswer(q) /\ c.mntCtx = MntAnswer(q)
    BY <1>1, <1>3, <1>5 DEF OpenOK
<1>8. PICK f : f = Find(q)
    OBVIOUS
<1>9. f.found /\ f.id = p
  <2>1. OnceOK
      BY DEF ToldInv
  <2>2. /\ f.found => f.id # 0 /\ About(f.id) = q
        /\ f.id \in SubscriptionId \cup {0}
        /\ f.id # 0 => OnList(f.id)
        /\ ~f.found => Unlisted(q)
      BY <1>8, <2>1, FindIs
  <2> QED
      BY <1>6, <2>1, <2>2 DEF OnceOK, Unlisted
<1>10. PICK d : d = [c EXCEPT !.at = "settle"]
    OBVIOUS
<1>11. /\ d \in CallFrames /\ d.at = "settle" /\ d.query = q /\ ~d.found /\ d.placeHolder = p /\ d.sub = 0
       /\ d.subCtx = SubAnswer(q) /\ d.mntCtx = MntAnswer(q)
    BY <1>2, <1>3, <1>5, <1>6, <1>7, <1>10 DEF CallFrames
<1>12. PICK e : e = NewCall("notify", q, f)
    OBVIOUS
<1>13. /\ e \in CallFrames /\ e.at = "notify" /\ e.query = q /\ e.found /\ e.placeHolder = 0
       /\ e.subCtx = Zero /\ e.mntCtx = Zero
  <2>1. f.found \in BOOLEAN
      BY <1>8, FindIs DEF ToldInv
  <2> QED
      BY <1>9, <1>12, <2>1 DEF NewCall, CallFrames
<1>14. PICK s : s = Append(<<d>>, e)
    OBVIOUS
<1>15. s \in Seq(CallFrames) /\ s # <<>> /\ s[1] = d /\ s[2] = e /\ Len(s) = 2
    BY <1>11, <1>13, <1>14, TwoCalls
<1>16. /\ UNCHANGED <<mountOf, subscriptions, told, removed, misuse>>
       /\ subscription' = Counted(p, Subscribes, OnMounts, 1)
       /\ calls' = [calls EXCEPT ![t] = s]
       /\ users' = [users EXCEPT ![q] = @ + 1]
  <2>1. /\ UNCHANGED <<mountOf, subscriptions, told, removed, misuse>>
        /\ subscription' = Counted(f.id, Subscribes, OnMounts, 1)
        /\ calls' = [calls EXCEPT ![t] = Append(Append(Front(@), d), e)]
        /\ users' = [users EXCEPT ![q] = @ + 1]
      BY <1>2, <1>3, <1>8, <1>10, <1>12 DEF CallbackSubscribes
  <2>2. Append(<<>>, d) = <<d>>
      OBVIOUS
  <2>3. calls' = [calls EXCEPT ![t] = s]
      BY <1>3, <1>14, <2>1, <2>2
  <2> QED
      BY <1>9, <2>1, <2>3
<1>17. /\ calls' \in [Caller -> Seq(CallFrames)] /\ calls'[t] = s
       /\ \A u \in Caller : u # t => /\ calls'[u] = calls[u] /\ (InCall(u)' <=> InCall(u))
                                     /\ First(u)' = First(u) /\ (Opens(u)' <=> Opens(u))
       /\ InCall(t)' /\ First(t)' = d /\ Opens(t)'
  <2>1. ~s[1].found /\ s[1].at # "tell"
      BY <1>11, <1>15
  <2> QED
      BY <1>15, <1>16, <2>1, CallsChanged
<1>18. /\ users' \in [Query -> Nat] /\ users'[q] = users[q] + 1 /\ users[q] \in Nat
       /\ \A r \in Query : r # q => users'[r] = users[r]
    BY <1>16 DEF MountTyped
<1>19. /\ subscription' \in [SubscriptionId -> Subs]
       /\ \A j \in SubscriptionId :
             /\ j # p => subscription'[j] = subscription[j]
             /\ About(j)' = About(j) /\ (OnList(j)' <=> OnList(j)) /\ subscription'[j].mem = subscription[j].mem
             /\ subscription'[j].subscriberCtx = subscription[j].subscriberCtx
             /\ subscription'[j].mountCtx = subscription[j].mountCtx
       /\ subscription'[p].subscriberCount = subscription[p].subscriberCount + One(Subscribes)
       /\ subscription'[p].mountCount = subscription[p].mountCount + One(OnMounts)
  <2>1. Subscribes \in BOOLEAN /\ OnMounts \in BOOLEAN
      BY DEF Subscribes, OnMounts, Masked
  <2>2. 1 * One(Subscribes) = One(Subscribes) /\ 1 * One(OnMounts) = One(OnMounts)
      BY DEF One
  <2>3. \A j \in SubscriptionId : OnList(j)' <=> OnList(j)
      BY <1>16 DEF OnList
  <2> QED
      BY <1>16, <2>1, <2>2, <2>3, CountedIs DEF About
<1>20. MountTyped'
    BY <1>16, <1>17, <1>18, <1>19 DEF MountTyped
<1>21. InCall(t) /\ \A u \in Caller \ {t} : InCall(u) /\ First(u).query.from = q.from =>
           /\ mountOf.overlap = "subscribes" /\ First(u).query = q /\ First(u).at # "tell" /\ ~Opens(u)
    BY <1>5, InCallApart
<1>22. Quietly(t, q)
  <2>1. UNCHANGED <<mountOf, queryOf, removed>> /\ (InCall(t) => First(t).query = q) /\ First(t)'.query = q
      BY <1>5, <1>11, <1>16, <1>17
  <2>2. \A j \in SubscriptionId : InCall(t)' /\ First(t)'.placeHolder = j /\ OnList(j)' => About(j)' = q
      BY <1>6, <1>11, <1>17, <1>19
  <2>3. \A u \in Caller \ {t}, x \in SubscriptionId :
            Opens(u) /\ First(u).query = q /\ First(u).placeHolder = x => OnList(x)' /\ About(x)' = q
      BY <1>19, PlaceHoldersAre DEF Opens
  <2>4. \A r \in Query : r # q => users'[r] = users[r] /\ told'[r] = told[r]
      BY <1>16, <1>18
  <2>5. \A j \in SubscriptionId : subscription[j].mem = "live" /\ ~OnList(j) /\ About(j) # q =>
            ~OnList(j)' /\ subscription'[j] = subscription[j]
      BY <1>6, <1>19
  <2> QED
      BY <1>17, <1>19, <1>21, <2>1, <2>2, <2>3, <2>4, <2>5 DEF Quietly
<1>23. /\ \A j \in SubscriptionId : (Pending(j)' <=> Pending(j)) /\ (Lent(j)' <=> Lent(j))
       /\ IsTold(q) /\ IsTold(q)' /\ (Unlisted(q)' <=> Unlisted(q))
  <2>1. \A j \in SubscriptionId : Pending(j)' <=> Pending(j)
      BY <1>1, <1>6, <1>11, <1>17, <1>21 DEF Pending
  <2>2. \A j \in SubscriptionId : Lent(j)' <=> Lent(j)
      BY <1>1, <1>5, <1>7, <1>11, <1>17 DEF Lent
  <2>3. IsTold(q)
      BY <1>1, <1>2, <1>3, <1>5 DEF IsTold
  <2>4. IsTold(q)'
      BY <1>11, <1>17 DEF IsTold
  <2>5. Unlisted(q)' <=> Unlisted(q)
      BY <1>19 DEF Unlisted
  <2> QED
      BY <2>1, <2>2, <2>3, <2>4, <2>5
<1>24. misuse' = "none" /\ OnceOK' /\ StackOK(t)'
  <2>1. OnceOK'
      BY <1>16, <1>19 DEF ToldInv, OnceOK
  <2>2. calls'[t][1] = d /\ calls'[t][2] = e /\ Len(calls'[t]) = 2
      BY <1>15, <1>17
  <2>3. StackOK(t)'
      BY <1>11, <1>13, <2>2 DEF StackOK, First
  <2> QED
      BY <1>16, <2>1, <2>3 DEF ToldInv
<1>25. /\ (Distinct' <=> Distinct) /\ (Subscribes' <=> Subscribes) /\ (OnMounts' <=> OnMounts) /\ Known(q)'
       /\ SubAnswer(q)' = SubAnswer(q) /\ MntAnswer(q)' = MntAnswer(q)
  <2>1. (Distinct' <=> Distinct) /\ (Subscribes' <=> Subscribes) /\ (OnMounts' <=> OnMounts) /\ Known(q)'
      BY <1>5, <1>16 DEF Distinct, Subscribes, OnMounts, Masked, Known
  <2> QED
      BY <2>1 DEF SubAnswer, MntAnswer, HasMountQuery
<1>26. CallOK(t, q)'
  <2>1. OnList(p)' /\ About(p)' = q
      BY <1>6, <1>19
  <2>2. OpenOK(t, q)'
      BY <1>11, <1>17, <1>25, <2>1 DEF OpenOK
  <2> QED
      BY <1>5, <1>11, <1>16, <1>17, <1>25, <2>2 DEF CallOK
<1>27. \A u \in Caller : u # t => Together(t, u)'
    BY <1>11, <1>16, <1>17, <1>21 DEF Together
<1>28. \A j \in SubscriptionId : ListOK(j, q)' /\ \A r \in Query : CountOK(j, r)'
  <2> SUFFICES ASSUME NEW j \in SubscriptionId, NEW r \in Query PROVE ListOK(j, q)' /\ CountOK(j, r)'
      OBVIOUS
  <2>1. ListOK(j, q) /\ CountOK(j, r)
      BY DEF ToldInv
  <2>2. ListOK(j, q)'
      BY <1>16, <1>19, <1>23, <1>25, <2>1 DEF ListOK
  <2>3. CountOK(j, r)'
    <3> SUFFICES ASSUME OnList(j), About(j) = r, Distinct PROVE CountOK(j, r)'
        BY <1>19, <1>25 DEF CountOK
    <3>1. CASE j = p
      <4>1. PICK n : n = One(Lent(p))
          OBVIOUS
      <4>2. n \in Nat /\ One(Lent(p))' = n
          BY <1>23, <4>1 DEF One
      <4>3. /\ users[q] > 0
            /\ subscription[p].subscriberCount = IF Subscribes THEN users[q] + n ELSE 0
            /\ subscription[p].mountCount = IF OnMounts THEN users[q] + n ELSE 0
          BY <1>6, <2>1, <3>1, <4>1 DEF CountOK
      <4>4. /\ subscription'[p].subscriberCount = IF Subscribes THEN users'[q] + n ELSE 0
            /\ subscription'[p].mountCount = IF OnMounts THEN users'[q] + n ELSE 0
            /\ users'[q] > 0
          BY <1>18, <1>19, <4>2, <4>3 DEF One
      <4> QED
          BY <1>6, <1>19, <1>25, <3>1, <4>2, <4>4 DEF CountOK
    <3>2. CASE j # p
      <4>1. r # q
          BY <1>6, <3>2 DEF ToldInv, OnceOK
      <4>2. One(Lent(j))' = One(Lent(j))
          BY <1>23 DEF One
      <4> QED
          BY <1>18, <1>19, <1>25, <2>1, <3>2, <4>1, <4>2 DEF CountOK
    <3> QED
        BY <3>1, <3>2
  <2> QED
      BY <2>2, <2>3
<1>29. QueryOK(q)'
  <2>1. ~Unlisted(q)'
      BY <1>6, <1>23 DEF Unlisted
  <2>2. told'[q] = One(Distinct /\ Subscribes /\ IsTold(q))'
      BY <1>16, <1>23, <1>25 DEF ToldInv, QueryOK, One
  <2> QED
      BY <1>25, <2>1, <2>2 DEF QueryOK
<1> QED
    BY <1>20, <1>22, <1>24, <1>26, <1>27, <1>28, <1>29, OneStep

(***************************************************************************)
(* What a subscribe leaves                                                 *)
(***************************************************************************)
LEMMA OpenerIs ==
    ASSUME MountTyped, ToldInv, NEW t \in Caller, InCall(t), ~Call(t).found, Call(t).at # "tell",
           NEW q \in Query, First(t).query = q
    PROVE  /\ Call(t) = First(t) /\ Front(calls[t]) = <<>> /\ Opens(t) /\ First(t) \in CallFrames
           /\ OpenOK(t, q) /\ mountOf.mask # {} /\ ~removed /\ Known(q) /\ (Subscribes \/ OnMounts)
           /\ \A u \in Caller \ {t} : InCall(u) /\ First(u).query.from = q.from =>
                 /\ mountOf.overlap = "subscribes" /\ First(u).query = q /\ First(u).at # "tell" /\ ~Opens(u)
<1>1. Call(t) = First(t) /\ Front(calls[t]) = <<>> /\ First(t) \in CallFrames
    BY CallIs
<1>2. Opens(t)
    BY <1>1 DEF Opens
<1>3. OpenOK(t, q) /\ mountOf.mask # {} /\ ~removed /\ Known(q)
    BY <1>2 DEF ToldInv, CallOK
<1>4. Subscribes \/ OnMounts
    BY <1>3 DEF MountTyped, Mounts, Subscribes, OnMounts, Masked
<1> QED
    BY <1>1, <1>2, <1>3, <1>4, InCallApart

\* The outermost call of a thread ends.
LEMMA CallEnds ==
    ASSUME MountTyped, NEW t \in Caller, calls' = [calls EXCEPT ![t] = <<>>]
    PROVE  /\ calls' \in [Caller -> Seq(CallFrames)]
           /\ \A u \in Caller : u # t => /\ calls'[u] = calls[u] /\ (InCall(u)' <=> InCall(u))
                                         /\ First(u)' = First(u) /\ (Opens(u)' <=> Opens(u))
           /\ ~InCall(t)' /\ ~Opens(t)' /\ StackOK(t)' /\ (\A q \in Query : CallOK(t, q)')
           /\ \A u \in Caller : Together(t, u)'
<1>1. <<>> \in Seq(CallFrames)
    OBVIOUS
<1>2. /\ calls' \in [Caller -> Seq(CallFrames)] /\ calls'[t] = <<>>
      /\ \A u \in Caller : u # t => /\ calls'[u] = calls[u] /\ (InCall(u)' <=> InCall(u))
                                    /\ First(u)' = First(u) /\ (Opens(u)' <=> Opens(u))
      /\ ~InCall(t)' /\ ~Opens(t)'
    BY <1>1, CallsChanged
<1>3. StackOK(t)'
    BY <1>2 DEF StackOK
<1> QED
    BY <1>2, <1>3 DEF CallOK, Together

\* The context of a call: there is one when the mount has one for each query.
LEMMA AnsweredIs ==
    ASSUME NEW q \in Query, Subscribes \/ OnMounts
    PROVE  /\ Distinct <=> SubAnswer(q) # Zero \/ MntAnswer(q) # Zero
           /\ SubAnswer(q) # Zero <=> Distinct /\ Subscribes
           /\ MntAnswer(q) # Zero <=> Distinct /\ OnMounts /\ HasMountQuery(q)
<1>1. <<q.from, q.select>> # Zero
    BY QueriesAre
<1> QED
    BY <1>1 DEF SubAnswer, MntAnswer, HasMountQuery

\* The mount returned a context for the query: the placeholder becomes the subscription.
LEMMA SettlePlaceHolder ==
    ASSUME MountTyped, ToldInv, Regular, NEW t \in Caller, InCall(t), queryOf' = queryOf, Settle(t), ~Call(t).found,
           Call(t).sub = 0, Distinct
    PROVE  MountTyped' /\ ToldInv'
<1>1. PICK c : c = First(t)
    OBVIOUS
<1>2. PICK q \in Query : c.query = q
    BY <1>1, TypeOfCalls
<1>3. /\ Call(t) = c /\ Front(calls[t]) = <<>> /\ Opens(t) /\ First(t) = c /\ c \in CallFrames /\ c.at = "settle"
      /\ OpenOK(t, q) /\ mountOf.mask # {} /\ ~removed /\ Known(q) /\ (Subscribes \/ OnMounts)
      /\ \A u \in Caller \ {t} : InCall(u) /\ First(u).query.from = q.from =>
            /\ mountOf.overlap = "subscribes" /\ First(u).query = q /\ First(u).at # "tell" /\ ~Opens(u)
  <2>1. Call(t).at = "settle"
      BY DEF Settle, At
  <2> QED
      BY <1>1, <1>2, <2>1, OpenerIs
<1>4. PICK p \in SubscriptionId : c.placeHolder = p /\ OnList(p) /\ About(p) = q
    BY <1>3 DEF OpenOK
<1>5. c.sub = 0 /\ ~c.found /\ c.subCtx = SubAnswer(q) /\ c.mntCtx = MntAnswer(q)
    BY <1>3 DEF OpenOK
<1>6. PICK f : f = Find(q)
    OBVIOUS
<1>7. OnceOK
    BY DEF ToldInv
<1>8. f.found /\ f.id = p
  <2>1. /\ f.found => f.id # 0 /\ About(f.id) = q
        /\ f.id \in SubscriptionId \cup {0}
        /\ f.id # 0 => OnList(f.id)
        /\ ~f.found => Unlisted(q)
      BY <1>6, <1>7, FindIs
  <2> QED
      BY <1>4, <1>7, <2>1 DEF OnceOK, Unlisted
<1>9. Pending(p)
    BY <1>3, <1>4 DEF Pending, Opens
<1>10. /\ subscription[p].mem = "live" /\ subscription[p].subscriberCtx = Zero /\ subscription[p].mountCtx = Zero
    BY <1>4, <1>9 DEF ToldInv, ListOK
<1>11. PICK n : n = WithContexts(subscription[p], c)
    OBVIOUS
<1>12. /\ n \in Subs /\ n.query = q /\ n.mem = "live" /\ n.subscriberCtx = SubAnswer(q) /\ n.mountCtx = MntAnswer(q)
       /\ n.subscriberCount = subscription[p].subscriberCount /\ n.mountCount = subscription[p].mountCount
  <2>1. PICK o : o = subscription[p]
      OBVIOUS
  <2>2. o \in Subs /\ o.query = q /\ o.mem = "live" /\ o.subscriberCtx = Zero /\ o.mountCtx = Zero
      BY <1>4, <1>10, <2>1 DEF MountTyped, About
  <2>3. PICK a, b : a = (IF Subscribes THEN c.subCtx ELSE o.subscriberCtx) /\ b = (IF OnMounts THEN c.mntCtx ELSE o.mountCtx)
      OBVIOUS
  <2>4. n = [o EXCEPT !.subscriberCtx = a, !.mountCtx = b]
      BY <1>11, <2>1, <2>3 DEF WithContexts
  <2>5. a = SubAnswer(q) /\ b = MntAnswer(q)
      BY <1>5, <2>2, <2>3 DEF SubAnswer, MntAnswer
  <2>6. SubAnswer(q) \in {Zero} \cup Seq(From \cup Select \cup {"*"}) /\ MntAnswer(q) \in {Zero} \cup Seq(From \cup Select \cup {"*"})
      BY QueriesAre DEF SubAnswer, MntAnswer
  <2>7. /\ n \in Subs /\ n.query = o.query /\ n.mem = o.mem /\ n.subscriberCtx = a /\ n.mountCtx = b
        /\ n.subscriberCount = o.subscriberCount /\ n.mountCount = o.mountCount
      BY <2>2, <2>4, <2>5, <2>6 DEF Subs
  <2> QED
      BY <2>1, <2>2, <2>5, <2>7
<1>13. /\ calls' = [calls EXCEPT ![t] = <<>>] /\ misuse' = misuse
       /\ UNCHANGED <<mountOf, subscriptions, users, told, removed>>
       /\ subscription' = [subscription EXCEPT ![p] = n]
  <2>1. (c.subCtx # Zero \/ c.mntCtx # Zero) /\ NewContext(c)
      BY <1>3, <1>5, AnsweredIs DEF NewContext
  <2>2. Use(c.sub) /\ AddSubscription(c) /\ Return(t) /\ UNCHANGED <<mountOf, users, told, removed>>
      BY <1>3, <2>1 DEF Settle
  <2>3. misuse' = misuse
      BY <1>5, <2>2 DEF Use
  <2>4. subscription[Find(c.query).id].subscriberCtx = Zero
      BY <1>2, <1>6, <1>8, <1>10
  <2>5. Undone(c) = subscription
      BY <1>5 DEF Undone
  <2>6. /\ subscription' = [subscription EXCEPT ![p] = WithContexts(@, c)]
        /\ subscriptions' = subscriptions
      BY <1>2, <1>6, <1>8, <2>2, <2>4, <2>5 DEF AddSubscription
  <2>7. subscription' = [subscription EXCEPT ![p] = n]
      BY <1>11, <2>6
  <2> QED
      BY <1>3, <2>2, <2>3, <2>6, <2>7 DEF Return
<1>14. /\ calls' \in [Caller -> Seq(CallFrames)]
       /\ \A u \in Caller : u # t => /\ calls'[u] = calls[u] /\ (InCall(u)' <=> InCall(u))
                                     /\ First(u)' = First(u) /\ (Opens(u)' <=> Opens(u))
       /\ ~InCall(t)' /\ ~Opens(t)' /\ StackOK(t)' /\ CallOK(t, q)'
       /\ \A u \in Caller : Together(t, u)'
    BY <1>13, CallEnds
<1>15. /\ subscription' \in [SubscriptionId -> Subs] /\ subscription'[p] = n
       /\ \A j \in SubscriptionId : /\ j # p => subscription'[j] = subscription[j]
                                    /\ About(j)' = About(j) /\ (OnList(j)' <=> OnList(j))
                                    /\ subscription'[j].subscriberCount = subscription[j].subscriberCount
                                    /\ subscription'[j].mountCount = subscription[j].mountCount
  <2>1. subscription' \in [SubscriptionId -> Subs] /\ subscription'[p] = n
      BY <1>12, <1>13 DEF MountTyped
  <2>2. \A j \in SubscriptionId : j # p => subscription'[j] = subscription[j]
      BY <1>13 DEF MountTyped
  <2>3. \A j \in SubscriptionId : About(j)' = About(j) /\ (OnList(j)' <=> OnList(j))
      BY <1>4, <1>12, <1>13, <2>1, <2>2 DEF About, OnList
  <2> QED
      BY <1>12, <2>1, <2>2, <2>3
<1>16. MountTyped'
    BY <1>13, <1>14, <1>15 DEF MountTyped
<1>17. Quietly(t, q)
  <2>1. UNCHANGED <<mountOf, queryOf, removed>> /\ (InCall(t) => First(t).query = q)
      BY <1>2, <1>3, <1>13
  <2>2. \A u \in Caller \ {t}, x \in SubscriptionId :
            Opens(u) /\ First(u).query = q /\ First(u).placeHolder = x => OnList(x)' /\ About(x)' = q
      BY <1>3 DEF Opens
  <2>3. \A r \in Query : r # q => users'[r] = users[r] /\ told'[r] = told[r]
      BY <1>13
  <2> QED
      BY <1>3, <1>4, <1>14, <1>15, <2>1, <2>2, <2>3 DEF Quietly
<1>18. /\ \A j \in SubscriptionId : (j # p => (Pending(j)' <=> Pending(j))) /\ (Lent(j)' <=> Lent(j))
       /\ ~Pending(p)' /\ IsTold(q) /\ IsTold(q)'
  <2>1. \A j \in SubscriptionId : j # p => (Pending(j)' <=> Pending(j))
      BY <1>3, <1>4, <1>14 DEF Pending
  <2>2. \A j \in SubscriptionId : Lent(j)' <=> Lent(j)
      BY <1>3, <1>5, <1>14, IdsAre DEF Lent
  <2>3. ~Pending(p)'
    <3>1. SUFFICES ASSUME NEW u \in Caller, u # t, InCall(u), First(u).placeHolder = p PROVE FALSE
        BY <1>14 DEF Pending
    <3>2. Opens(u) /\ First(u).query = q
        BY <1>4, <3>1, PlaceHoldersAre
    <3> QED
        BY <1>3, <3>1, <3>2
  <2>4. IsTold(q)
      BY <1>2, <1>3 DEF IsTold
  <2>5. IsTold(q)'
      BY <1>4, <1>15, <2>3 DEF IsTold
  <2> QED
      BY <2>1, <2>2, <2>3, <2>4, <2>5
<1>19. misuse' = "none" /\ OnceOK'
    BY <1>7, <1>13, <1>15 DEF ToldInv, OnceOK
<1>20. /\ (Distinct' <=> Distinct) /\ (Subscribes' <=> Subscribes) /\ (OnMounts' <=> OnMounts) /\ Known(q)'
       /\ SubAnswer(q)' = SubAnswer(q) /\ MntAnswer(q)' = MntAnswer(q)
  <2>1. (Distinct' <=> Distinct) /\ (Subscribes' <=> Subscribes) /\ (OnMounts' <=> OnMounts) /\ Known(q)'
      BY <1>3, <1>13 DEF Distinct, Subscribes, OnMounts, Masked, Known
  <2> QED
      BY <2>1 DEF SubAnswer, MntAnswer, HasMountQuery
<1>21. \A j \in SubscriptionId : ListOK(j, q)' /\ \A r \in Query : CountOK(j, r)'
  <2> SUFFICES ASSUME NEW j \in SubscriptionId, NEW r \in Query PROVE ListOK(j, q)' /\ CountOK(j, r)'
      OBVIOUS
  <2>1. CountOK(j, r)
      BY DEF ToldInv
  <2>2. ListOK(j, q)'
    <3>1. OnList(j)' /\ About(j)' = q => j = p
        BY <1>4, <1>7, <1>15 DEF OnceOK
    <3>2. ListOK(p, q)'
        BY <1>3, <1>12, <1>13, <1>15, <1>18, <1>20 DEF ListOK
    <3> QED
        BY <3>1, <3>2 DEF ListOK
  <2>3. CountOK(j, r)'
      BY <1>13, <1>15, <1>18, <1>20, <2>1 DEF CountOK, One
  <2> QED
      BY <2>2, <2>3
<1>22. QueryOK(q)'
  <2>1. ~Unlisted(q)'
      BY <1>4, <1>15 DEF Unlisted
  <2>2. told'[q] = One(Distinct /\ Subscribes /\ IsTold(q))'
      BY <1>13, <1>18, <1>20 DEF ToldInv, QueryOK, One
  <2> QED
      BY <1>20, <2>1, <2>2 DEF QueryOK
<1> QED
    BY <1>14, <1>16, <1>17, <1>19, <1>21, <1>22, OneStep

\* The mount returned 0: the placeholder goes.
LEMMA SettleNothing ==
    ASSUME MountTyped, ToldInv, Regular, NEW t \in Caller, InCall(t), queryOf' = queryOf, Settle(t), ~Call(t).found,
           ~Distinct
    PROVE  MountTyped' /\ ToldInv'
<1>1. PICK c : c = First(t)
    OBVIOUS
<1>2. PICK q \in Query : c.query = q
    BY <1>1, TypeOfCalls
<1>3. /\ Call(t) = c /\ Front(calls[t]) = <<>> /\ Opens(t) /\ First(t) = c /\ c \in CallFrames /\ c.at = "settle"
      /\ OpenOK(t, q) /\ mountOf.mask # {} /\ ~removed /\ Known(q) /\ (Subscribes \/ OnMounts)
      /\ \A u \in Caller \ {t} : InCall(u) /\ First(u).query.from = q.from =>
            /\ mountOf.overlap = "subscribes" /\ First(u).query = q /\ First(u).at # "tell" /\ ~Opens(u)
  <2>1. Call(t).at = "settle"
      BY DEF Settle, At
  <2> QED
      BY <1>1, <1>2, <2>1, OpenerIs
<1>4. c.sub = 0 /\ c.subCtx = Zero /\ c.mntCtx = Zero
    BY <1>3 DEF OpenOK, SubAnswer, MntAnswer
<1>5. PICK p \in SubscriptionId : c.placeHolder = p /\ OnList(p) /\ About(p) = q
    BY <1>3, <1>4 DEF OpenOK
<1>6. OnceOK /\ p # 0
    BY IdsAre DEF ToldInv
<1>7. /\ calls' = [calls EXCEPT ![t] = <<>>] /\ misuse' = misuse
      /\ UNCHANGED <<mountOf, users, told, removed>>
      /\ subscription' = Free(p) /\ subscriptions' = Without(p)
    BY <1>3, <1>4, <1>5, <1>6 DEF Settle, Use, Return, DropPlaceHolder
<1>8. /\ calls' \in [Caller -> Seq(CallFrames)]
      /\ \A u \in Caller : u # t => /\ calls'[u] = calls[u] /\ (InCall(u)' <=> InCall(u))
                                    /\ First(u)' = First(u) /\ (Opens(u)' <=> Opens(u))
      /\ ~InCall(t)' /\ ~Opens(t)' /\ StackOK(t)' /\ CallOK(t, q)'
      /\ \A u \in Caller : Together(t, u)'
    BY <1>7, CallEnds
<1>9. /\ subscription' \in [SubscriptionId -> Subs]
      /\ \A j \in SubscriptionId : (j # p => subscription'[j] = subscription[j]) /\ About(j)' = About(j)
  <2>1. PICK o : o = subscription[p]
      OBVIOUS
  <2>2. o \in Subs
      BY <2>1 DEF MountTyped
  <2>3. PICK n : n = [o EXCEPT !.mem = "freed"]
      OBVIOUS
  <2>4. n \in Subs /\ n.query = o.query
      BY <2>2, <2>3 DEF Subs
  <2>5. subscription' = [subscription EXCEPT ![p] = n]
      BY <1>7, <2>1, <2>3 DEF Free
  <2> QED
      BY <2>1, <2>4, <2>5 DEF MountTyped, About
<1>10. /\ subscriptions' \in Seq(SubscriptionId)
       /\ \A j \in SubscriptionId : OnList(j)' <=> OnList(j) /\ j # p
       /\ \A m, n \in DOMAIN subscriptions' : subscriptions'[m] = subscriptions'[n] => m = n
  <2>1. subscriptions \in Seq(SubscriptionId)
      BY DEF MountTyped
  <2>2. /\ Without(p) \in Seq(SubscriptionId)
        /\ \A j : Has(Without(p), j) <=> OnList(j) /\ j # p
        /\ \A m, n \in DOMAIN Without(p) : Without(p)[m] = Without(p)[n] => m = n
      BY <1>6, <2>1, RemovedFrom
  <2> QED
      BY <1>7, <2>2 DEF OnList
<1>11. MountTyped'
    BY <1>7, <1>8, <1>9, <1>10 DEF MountTyped
<1>12. Quietly(t, q)
  <2>1. UNCHANGED <<mountOf, queryOf, removed>> /\ (InCall(t) => First(t).query = q)
      BY <1>2, <1>3, <1>7
  <2>2. \A u \in Caller \ {t}, x \in SubscriptionId :
            Opens(u) /\ First(u).query = q /\ First(u).placeHolder = x => OnList(x)' /\ About(x)' = q
      BY <1>3 DEF Opens
  <2>3. \A r \in Query : r # q => users'[r] = users[r] /\ told'[r] = told[r]
      BY <1>7
  <2> QED
      BY <1>3, <1>5, <1>8, <1>9, <1>10, <2>1, <2>2, <2>3 DEF Quietly
<1>13. misuse' = "none" /\ OnceOK'
    BY <1>6, <1>7, <1>9, <1>10 DEF ToldInv, OnceOK
<1>14. ~Distinct' /\ Known(q)'
    BY <1>3, <1>7 DEF Distinct, Known
<1>15. \A j \in SubscriptionId : ListOK(j, q)' /\ \A r \in Query : CountOK(j, r)'
  <2>1. \A j \in SubscriptionId : ~(OnList(j)' /\ About(j)' = q)
      BY <1>5, <1>6, <1>9, <1>10 DEF OnceOK
  <2> QED
      BY <1>14, <2>1 DEF ListOK, CountOK
<1>16. QueryOK(q)'
    BY <1>7, <1>14 DEF ToldInv, QueryOK, One
<1> QED
    BY <1>8, <1>11, <1>12, <1>13, <1>15, <1>16, OneStep

\* A call that found another subscription of the scope makes one of its own, and undoes the count.
LEMMA SettleOther ==
    ASSUME MountTyped, ToldInv, Regular, NEW t \in Caller, InCall(t), queryOf' = queryOf, Settle(t), ~Call(t).found,
           Call(t).sub # 0
    PROVE  MountTyped' /\ ToldInv'
<1>1. PICK c : c = First(t)
    OBVIOUS
<1>2. PICK q \in Query : c.query = q
    BY <1>1, TypeOfCalls
<1>3. /\ Call(t) = c /\ Front(calls[t]) = <<>> /\ Opens(t) /\ First(t) = c /\ c \in CallFrames /\ c.at = "settle"
      /\ OpenOK(t, q) /\ mountOf.mask # {} /\ ~removed /\ Known(q) /\ (Subscribes \/ OnMounts)
      /\ \A u \in Caller \ {t} : InCall(u) /\ First(u).query.from = q.from =>
            /\ mountOf.overlap = "subscribes" /\ First(u).query = q /\ First(u).at # "tell" /\ ~Opens(u)
  <2>1. Call(t).at = "settle"
      BY DEF Settle, At
  <2> QED
      BY <1>1, <1>2, <2>1, OpenerIs
<1>4. /\ OneAtATime /\ Distinct /\ c.placeHolder = 0 /\ Unlisted(q) /\ ~c.found
      /\ c.subCtx = SubAnswer(q) /\ c.mntCtx = MntAnswer(q)
    BY <1>3 DEF OpenOK, Opens
<1>5. PICK i \in SubscriptionId : c.sub = i /\ OnList(i) /\ About(i).from = q.from
    BY <1>3 DEF OpenOK
<1>6. PICK a \in Query : About(i) = a
    BY DEF MountTyped, Subs, About
<1>7. OnceOK /\ i # 0 /\ a # q /\ a.from = q.from
    BY <1>4, <1>5, <1>6, IdsAre DEF ToldInv, Unlisted
<1>8. \A u \in Caller \ {t} : ~(InCall(u) /\ First(u).query.from = q.from)
    BY <1>3, <1>4 DEF OneAtATime
<1>9. ~Pending(i)
  <2> SUFFICES ASSUME NEW u \in Caller, InCall(u), First(u).placeHolder = i PROVE FALSE
      BY DEF Pending
  <2>1. About(i) = First(u).query
      BY PlaceHoldersAre
  <2>2. u # t
      BY <1>3, <1>4, <1>7
  <2> QED
      BY <1>6, <1>7, <1>8, <2>1, <2>2
<1>10. /\ subscription[i].mem = "live" /\ subscription[i].subscriberCtx = SubAnswer(a)
       /\ subscription[i].mountCtx = MntAnswer(a)
    BY <1>5, <1>6, <1>9 DEF ToldInv, ListOK
<1>11. (c.subCtx # Zero <=> Subscribes) /\ (c.mntCtx # Zero <=> OnMounts)
  <2>1. /\ SubAnswer(q) # Zero <=> Distinct /\ Subscribes
        /\ MntAnswer(q) # Zero <=> Distinct /\ OnMounts /\ HasMountQuery(q)
      BY <1>3, AnsweredIs
  <2>2. OnMounts => HasMountQuery(q)
      BY <1>3, <1>4 DEF OneAtATime, Known, MountTyped, HasMountQuery
  <2> QED
      BY <1>4, <2>1, <2>2
<1>12. NewContext(c)
  <2>1. <<q.from, q.select>> # <<a.from, a.select>>
      BY <1>7, QueriesAre
  <2>2. Subscribes => c.subCtx # Zero /\ subscription[i].subscriberCtx # c.subCtx
      BY <1>4, <1>10, <1>11, <2>1 DEF SubAnswer
  <2>3. ~Subscribes => c.mntCtx # Zero /\ subscription[i].mountCtx # c.mntCtx
    <3> SUFFICES ASSUME ~Subscribes PROVE c.mntCtx # Zero /\ subscription[i].mountCtx # c.mntCtx
        OBVIOUS
    <3>1. OnMounts /\ HasMountQuery(q) /\ HasMountQuery(a)
        BY <1>3 DEF HasMountQuery
    <3>2. c.mntCtx = <<q.from, q.select>> /\ subscription[i].mountCtx = <<a.from, a.select>>
        BY <1>4, <1>10, <3>1 DEF MntAnswer
    <3> QED
        BY <1>11, <2>1, <3>1, <3>2
  <2> QED
      BY <1>5, <2>2, <2>3 DEF NewContext
<1>13. ~Find(q).found
  <2>1. LET f == Find(q) IN /\ f.found => f.id # 0 /\ About(f.id) = q
                            /\ f.id \in SubscriptionId \cup {0}
                            /\ f.id # 0 => OnList(f.id)
      BY <1>7, FindIs
  <2> QED
      BY <1>4, <2>1 DEF Unlisted
<1>14. PICK p : p = NewId
    OBVIOUS
<1>15. PICK n : n = WithContexts(NewSubscription(q), c)
    OBVIOUS
<1>16. PICK k : k = Counted(i, Subscribes, OnMounts, -1)
    OBVIOUS
<1>17. /\ calls' = [calls EXCEPT ![t] = <<>>] /\ misuse' = misuse
       /\ UNCHANGED <<mountOf, users, told, removed>>
       /\ Unused # {} /\ subscription' = [k EXCEPT ![p] = n] /\ subscriptions' = Append(subscriptions, p)
  <2>1. c.subCtx # Zero \/ c.mntCtx # Zero
      BY <1>3, <1>11
  <2>2. Use(c.sub) /\ AddSubscription(c) /\ Return(t) /\ UNCHANGED <<mountOf, users, told, removed>>
      BY <1>3, <1>12, <2>1 DEF Settle
  <2>3. misuse' = misuse
      BY <1>5, <1>10, <2>2 DEF Use
  <2>4. Undone(c) = k
    <3>1. Undone(c) = Counted(i, c.subCtx # Zero, c.mntCtx # Zero, -1)
        BY <1>5, <1>7 DEF Undone
    <3>2. (c.subCtx # Zero) = Subscribes /\ (c.mntCtx # Zero) = OnMounts
        BY <1>11 DEF Subscribes, OnMounts, Masked
    <3> QED
        BY <1>16, <3>1, <3>2
  <2>5. /\ Unused # {} /\ subscription' = [k EXCEPT ![p] = n] /\ subscriptions' = Append(subscriptions, p)
      BY <1>2, <1>13, <1>14, <1>15, <2>2, <2>4 DEF AddSubscription
  <2> QED
      BY <1>3, <2>2, <2>3, <2>5 DEF Return
<1>18. p \in SubscriptionId /\ p # 0 /\ subscription[p].mem = "unused"
    BY <1>14, <1>17, NewIdIs, IdsAre
<1>19. ~OnList(p) /\ p # i
  <2>1. PICK r \in Query : About(p) = r
      BY <1>18 DEF MountTyped, Subs, About
  <2> QED
      BY <1>10, <1>18, <2>1 DEF ToldInv, ListOK
<1>20. /\ n \in Subs /\ n.query = q /\ n.mem = "live" /\ n.subscriberCtx = SubAnswer(q) /\ n.mountCtx = MntAnswer(q)
       /\ n.subscriberCount = One(Subscribes) /\ n.mountCount = One(OnMounts)
  <2>1. PICK x, y : x = One(Subscribes) /\ y = One(OnMounts)
      OBVIOUS
  <2>2. x \in Int /\ y \in Int
      BY <2>1 DEF One
  <2>3. PICK o : o = NewSubscription(q)
      OBVIOUS
  <2>4. o = [NoSubscription EXCEPT !.query = q, !.subscriberCount = x, !.mountCount = y, !.mem = "live"]
      BY <2>1, <2>3 DEF NewSubscription
  <2>5. /\ o \in Subs /\ o.query = q /\ o.mem = "live" /\ o.subscriberCtx = Zero /\ o.mountCtx = Zero
        /\ o.subscriberCount = x /\ o.mountCount = y
      BY <2>2, <2>4 DEF NoSubscription, Subs
  <2>6. PICK v, w : v = (IF Subscribes THEN c.subCtx ELSE o.subscriberCtx) /\ w = (IF OnMounts THEN c.mntCtx ELSE o.mountCtx)
      OBVIOUS
  <2>7. n = [o EXCEPT !.subscriberCtx = v, !.mountCtx = w]
      BY <1>15, <2>3, <2>6 DEF WithContexts
  <2>8. v = SubAnswer(q) /\ w = MntAnswer(q)
      BY <1>4, <2>5, <2>6 DEF SubAnswer, MntAnswer
  <2>9. SubAnswer(q) \in {Zero} \cup Seq(From \cup Select \cup {"*"}) /\ MntAnswer(q) \in {Zero} \cup Seq(From \cup Select \cup {"*"})
      BY QueriesAre DEF SubAnswer, MntAnswer
  <2>10. /\ n \in Subs /\ n.query = o.query /\ n.mem = o.mem /\ n.subscriberCtx = v /\ n.mountCtx = w
         /\ n.subscriberCount = o.subscriberCount /\ n.mountCount = o.mountCount
      BY <2>5, <2>7, <2>8, <2>9 DEF Subs
  <2> QED
      BY <2>1, <2>5, <2>8, <2>10
<1>21. /\ k \in [SubscriptionId -> Subs]
       /\ \A j \in SubscriptionId :
             /\ j # i => k[j] = subscription[j]
             /\ k[j].query = subscription[j].query /\ k[j].mem = subscription[j].mem
             /\ k[j].subscriberCtx = subscription[j].subscriberCtx
             /\ k[j].mountCtx = subscription[j].mountCtx
       /\ k[i].subscriberCount = subscription[i].subscriberCount - One(Subscribes)
       /\ k[i].mountCount = subscription[i].mountCount - One(OnMounts)
  <2>1. Subscribes \in BOOLEAN /\ OnMounts \in BOOLEAN /\ -1 \in Int
      BY DEF Subscribes, OnMounts, Masked
  <2>2. PICK x, y : x = One(Subscribes) /\ y = One(OnMounts)
      OBVIOUS
  <2>3. /\ k \in [SubscriptionId -> Subs]
        /\ \A j \in SubscriptionId :
             /\ j # i => k[j] = subscription[j]
             /\ k[j].query = subscription[j].query /\ k[j].mem = subscription[j].mem
             /\ k[j].subscriberCtx = subscription[j].subscriberCtx
             /\ k[j].mountCtx = subscription[j].mountCtx
        /\ k[i].subscriberCount = subscription[i].subscriberCount + (-1) * x
        /\ k[i].mountCount = subscription[i].mountCount + (-1) * y
      BY <1>16, <2>1, <2>2, CountedIs
  <2>4. subscription[i].subscriberCount \in Int /\ subscription[i].mountCount \in Int /\ x \in {0, 1} /\ y \in {0, 1}
      BY <2>2 DEF MountTyped, Subs, One
  <2>5. /\ subscription[i].subscriberCount + (-1) * x = subscription[i].subscriberCount - x
        /\ subscription[i].mountCount + (-1) * y = subscription[i].mountCount - y
      BY <2>4
  <2> QED
      BY <2>2, <2>3, <2>5
<1>22. /\ subscription' \in [SubscriptionId -> Subs] /\ subscription'[p] = n /\ subscription'[i] = k[i]
       /\ \A j \in SubscriptionId : j # p => /\ About(j)' = About(j) /\ (j # i => subscription'[j] = subscription[j])
                                             /\ subscription'[j].mem = subscription[j].mem
                                             /\ subscription'[j].subscriberCtx = subscription[j].subscriberCtx
                                             /\ subscription'[j].mountCtx = subscription[j].mountCtx
       /\ About(p)' = q
  <2>1. /\ subscription' \in [SubscriptionId -> Subs] /\ subscription'[p] = n
        /\ \A j \in SubscriptionId : j # p => subscription'[j] = k[j]
      BY <1>17, <1>18, <1>20, <1>21
  <2> QED
      BY <1>19, <1>20, <1>21, <2>1 DEF About
<1>23. /\ subscriptions' \in Seq(SubscriptionId)
       /\ \A j \in SubscriptionId : OnList(j)' <=> OnList(j) \/ j = p
       /\ \A x, y \in DOMAIN subscriptions' : subscriptions'[x] = subscriptions'[y] => x = y
    BY <1>7, <1>17, <1>18, <1>19, AppendedTo DEF MountTyped, OnList, OnceOK
<1>24. /\ calls' \in [Caller -> Seq(CallFrames)]
       /\ \A u \in Caller : u # t => /\ calls'[u] = calls[u] /\ (InCall(u)' <=> InCall(u))
                                     /\ First(u)' = First(u) /\ (Opens(u)' <=> Opens(u))
       /\ ~InCall(t)' /\ ~Opens(t)' /\ StackOK(t)' /\ CallOK(t, q)'
       /\ \A u \in Caller : Together(t, u)'
    BY <1>17, CallEnds
<1>25. MountTyped'
    BY <1>17, <1>22, <1>23, <1>24 DEF MountTyped
<1>26. Quietly(t, q)
  <2>1. UNCHANGED <<mountOf, queryOf, removed>> /\ (InCall(t) => First(t).query = q)
      BY <1>2, <1>3, <1>17
  <2>2. \A u \in Caller \ {t}, x \in SubscriptionId :
            Opens(u) /\ First(u).query = q /\ First(u).placeHolder = x => OnList(x)' /\ About(x)' = q
      BY <1>3 DEF Opens
  <2>3. \A r \in Query : r # q => users'[r] = users[r] /\ told'[r] = told[r]
      BY <1>17
  <2>4. \A j \in SubscriptionId : subscription[j].mem = "live" => j # p
      BY <1>18
  <2>5. \A j \in SubscriptionId : OnList(j) => j # p
      BY <1>19
  <2> QED
      BY <1>3, <1>5, <1>22, <1>23, <1>24, <2>1, <2>2, <2>3, <2>4, <2>5 DEF Quietly
<1>27. /\ \A j \in SubscriptionId : (Pending(j)' <=> Pending(j)) /\ (j # i => (Lent(j)' <=> Lent(j)))
       /\ Lent(i) /\ ~Lent(i)' /\ ~Pending(p)' /\ ~Lent(p)' /\ IsTold(q) /\ IsTold(q)'
  <2>1. \A j \in SubscriptionId : Pending(j)' <=> Pending(j)
      BY <1>3, <1>4, <1>24, IdsAre DEF Pending
  <2>2. \A j \in SubscriptionId : j # i => (Lent(j)' <=> Lent(j))
      BY <1>3, <1>5, <1>24 DEF Lent
  <2>3. Lent(i)
      BY <1>3, <1>5 DEF Lent
  <2>4. ~Lent(i)'
    <3> SUFFICES ASSUME NEW u \in Caller, u # t, Opens(u), First(u).sub = i PROVE FALSE
        BY <1>24 DEF Lent
    <3>1. About(i).from = First(u).query.from
        BY LentIs
    <3> QED
        BY <1>5, <1>8, <3>1 DEF Opens
  <2>5. ~Pending(p)
      BY <1>18, <1>19, PlaceHoldersAre DEF Pending
  <2>6. ~Lent(p)
      BY <1>18, <1>19, LentIs DEF Lent
  <2>7. IsTold(q)
      BY <1>2, <1>3 DEF IsTold
  <2>8. IsTold(q)'
      BY <1>18, <1>22, <1>23, <2>1, <2>5 DEF IsTold
  <2> QED
      BY <1>18, <1>19, <2>1, <2>2, <2>3, <2>4, <2>5, <2>6, <2>7, <2>8
<1>28. misuse' = "none" /\ OnceOK'
  <2>1. \A x, y \in SubscriptionId : OnList(x)' /\ OnList(y)' /\ About(x)' = About(y)' => x = y
      BY <1>4, <1>7, <1>22, <1>23 DEF OnceOK, Unlisted
  <2>2. OnceOK'
      BY <1>23, <2>1 DEF OnceOK
  <2> QED
      BY <1>17, <2>2 DEF ToldInv
<1>29. /\ (Distinct' <=> Distinct) /\ (Subscribes' <=> Subscribes) /\ (OnMounts' <=> OnMounts) /\ Known(q)'
       /\ SubAnswer(q)' = SubAnswer(q) /\ MntAnswer(q)' = MntAnswer(q)
  <2>1. (Distinct' <=> Distinct) /\ (Subscribes' <=> Subscribes) /\ (OnMounts' <=> OnMounts) /\ Known(q)'
      BY <1>3, <1>17 DEF Distinct, Subscribes, OnMounts, Masked, Known
  <2> QED
      BY <2>1 DEF SubAnswer, MntAnswer, HasMountQuery
<1>30. users[q] = 1
  <2>1. Moving(q)
      BY <1>3, <1>5, <1>7, <1>2 DEF Moving
  <2> QED
      BY <1>3, <1>4, <2>1 DEF ToldInv, QueryOK, One
<1>31. \A j \in SubscriptionId : ListOK(j, q)' /\ \A r \in Query : CountOK(j, r)'
  <2> SUFFICES ASSUME NEW j \in SubscriptionId, NEW r \in Query PROVE ListOK(j, q)' /\ CountOK(j, r)'
      OBVIOUS
  <2>1. CountOK(j, r)
      BY DEF ToldInv
  <2>2. ListOK(j, q)'
    <3>1. OnList(j)' /\ About(j)' = q => j = p
        BY <1>4, <1>22, <1>23 DEF Unlisted
    <3>2. ListOK(p, q)'
        BY <1>3, <1>4, <1>17, <1>20, <1>22, <1>27, <1>29 DEF ListOK
    <3> QED
        BY <3>1, <3>2 DEF ListOK
  <2>3. CountOK(j, r)'
    <3> SUFFICES ASSUME OnList(j)', About(j)' = r, Distinct PROVE CountOK(j, r)'
        BY <1>29 DEF CountOK
    <3>1. CASE j = p
      <4>1. r = q /\ One(Lent(j))' = 0 /\ users'[q] = 1
          BY <1>17, <1>22, <1>27, <1>30, <3>1 DEF One
      <4> QED
          BY <1>20, <1>22, <1>29, <3>1, <4>1 DEF CountOK, One
    <3>2. CASE j = i
      <4>1. One(Lent(i)) = 1 /\ One(Lent(i))' = 0 /\ users[r] \in Nat /\ users'[r] = users[r]
          BY <1>17, <1>27 DEF One, MountTyped
      <4>2. OnList(i) /\ About(i) = r
          BY <1>5, <1>19, <1>22, <3>2
      <4>3. /\ users[r] > 0
            /\ subscription[i].subscriberCount = IF Subscribes THEN users[r] + 1 ELSE 0
            /\ subscription[i].mountCount = IF OnMounts THEN users[r] + 1 ELSE 0
          BY <2>1, <3>2, <4>1, <4>2 DEF CountOK
      <4>4. /\ subscription'[i].subscriberCount = IF Subscribes THEN users'[r] + 0 ELSE 0
            /\ subscription'[i].mountCount = IF OnMounts THEN users'[r] + 0 ELSE 0
          BY <1>21, <1>22, <4>1, <4>3 DEF One
      <4> QED
          BY <1>29, <3>2, <4>1, <4>3, <4>4 DEF CountOK
    <3>3. CASE j # p /\ j # i
      <4>1. OnList(j) /\ About(j) = r
          BY <1>22, <1>23, <3>3
      <4>2. One(Lent(j))' = One(Lent(j)) /\ users'[r] = users[r] /\ subscription'[j] = subscription[j]
          BY <1>17, <1>22, <1>27, <3>3 DEF One
      <4> QED
          BY <1>29, <2>1, <4>1, <4>2 DEF CountOK
    <3> QED
        BY <3>1, <3>2, <3>3
  <2> QED
      BY <2>2, <2>3
<1>32. QueryOK(q)'
  <2>1. ~Unlisted(q)'
      BY <1>18, <1>22, <1>23 DEF Unlisted
  <2>2. told'[q] = One(Distinct /\ Subscribes /\ IsTold(q))'
      BY <1>17, <1>27, <1>29 DEF ToldInv, QueryOK, One
  <2> QED
      BY <1>29, <2>1, <2>2 DEF QueryOK
<1> QED
    BY <1>24, <1>25, <1>26, <1>28, <1>31, <1>32, OneStep

(***************************************************************************)
(* Unsubscribing                                                           *)
(***************************************************************************)
\* A mount without contexts has no subscriptions to unsubscribe from.
LEMMA UnsubscribeNothing ==
    ASSUME MountTyped, ToldInv, Regular, NEW t \in Caller, NEW q \in Query, ~InCall(t), queryOf' = queryOf,
           MountUnsubscribe(t, q), ~Distinct
    PROVE  MountTyped' /\ ToldInv'
<1>1. PICK f : f = Find(q)
    OBVIOUS
<1>2. OnceOK
    BY DEF ToldInv
<1>3. ~removed /\ mountOf.mask # {} /\ MayCall(t, q, FALSE) /\ users[q] > 0
    BY DEF MountUnsubscribe
<1>4. Known(q)
    BY <1>3 DEF ToldInv, QueryOK
<1>5. \A u \in Caller \ {t} : ~(InCall(u) /\ First(u).query.from = q.from)
    BY <1>3, MayCallIs
<1>6. f.id = 0 /\ f.found = FALSE
  <2>1. /\ f.id \in SubscriptionId \cup {0} /\ f.found \in BOOLEAN
        /\ f.id # 0 => OnList(f.id) /\ About(f.id).from = q.from
        /\ f.found => f.id # 0
      BY <1>1, <1>2, FindIs
  <2>2. ASSUME NEW i \in SubscriptionId, OnList(i), About(i).from = q.from PROVE FALSE
    <3>1. PICK r \in Query : About(i) = r
        BY DEF MountTyped, Subs, About
    <3>2. PICK u \in Caller : InCall(u) /\ First(u).placeHolder = i
        BY <2>2, <3>1 DEF ToldInv, ListOK, Pending
    <3>3. First(u).query.from = q.from
        BY <2>2, <3>2, PlaceHoldersAre
    <3> QED
        BY <1>5, <3>2, <3>3
  <2> QED
      BY <2>1, <2>2
<1>7. PICK e : e = NewCall("tell", q, f)
    OBVIOUS
<1>8. /\ e \in CallFrames /\ e.at = "tell" /\ e.query = q /\ e.sub = 0 /\ ~e.found /\ e.placeHolder = 0
  <2>1. e = [at |-> "tell", query |-> q, sub |-> 0, found |-> FALSE,
             placeHolder |-> 0, subCtx |-> Zero, mntCtx |-> Zero]
      BY <1>6, <1>7 DEF NewCall
  <2> QED
      BY <2>1 DEF CallFrames
<1>9. /\ calls' = [calls EXCEPT ![t] = <<e>>]
      /\ UNCHANGED <<mountOf, subscriptions, subscription, told, removed, misuse>>
      /\ users' = [users EXCEPT ![q] = @ - 1]
  <2>1. calls[t] = <<>>
      BY DEF InCall
  <2>2. /\ calls' = [calls EXCEPT ![t] = Append(@, e)] /\ UNCHANGED <<mountOf, told, removed, misuse>>
        /\ users' = [users EXCEPT ![q] = @ - 1] /\ UNCHANGED <<subscription, subscriptions>>
      BY <1>1, <1>6, <1>7 DEF MountUnsubscribe
  <2> QED
      BY <2>1, <2>2
<1>10. /\ calls' \in [Caller -> Seq(CallFrames)] /\ calls'[t] = <<e>>
       /\ \A u \in Caller : u # t => /\ calls'[u] = calls[u] /\ (InCall(u)' <=> InCall(u))
                                     /\ First(u)' = First(u) /\ (Opens(u)' <=> Opens(u))
       /\ InCall(t)' /\ First(t)' = e /\ ~Opens(t)'
  <2>1. <<e>> \in Seq(CallFrames) /\ <<e>> # <<>> /\ <<e>>[1] = e /\ e.at = "tell"
      BY <1>8
  <2> QED
      BY <1>9, <2>1, CallsChanged
<1>11. /\ users' \in [Query -> Nat] /\ \A r \in Query : r # q => users'[r] = users[r]
  <2>1. PICK n : n = users[q] - 1
      OBVIOUS
  <2>2. n \in Nat
      BY <1>3, <2>1 DEF MountTyped
  <2> QED
      BY <1>9, <2>1, <2>2 DEF MountTyped
<1>12. MountTyped'
    BY <1>9, <1>10, <1>11 DEF MountTyped
<1>13. \A j \in SubscriptionId : (OnList(j)' <=> OnList(j)) /\ About(j)' = About(j) /\ subscription'[j] = subscription[j]
    BY <1>9 DEF OnList, About
<1>14. Quietly(t, q)
  <2>1. UNCHANGED <<mountOf, queryOf, removed>> /\ (InCall(t) => First(t).query = q) /\ First(t)'.query = q
      BY <1>8, <1>9, <1>10
  <2>2. \A j \in SubscriptionId : InCall(t)' /\ First(t)'.placeHolder = j /\ OnList(j)' => About(j)' = q
      BY <1>8, <1>10, IdsAre
  <2>3. \A u \in Caller \ {t}, p \in SubscriptionId :
            Opens(u) /\ First(u).query = q /\ First(u).placeHolder = p => OnList(p)' /\ About(p)' = q
      BY <1>5 DEF Opens
  <2>4. \A r \in Query : r # q => users'[r] = users[r] /\ told'[r] = told[r]
      BY <1>9, <1>11
  <2> QED
      BY <1>5, <1>10, <1>13, <2>1, <2>2, <2>3, <2>4 DEF Quietly
<1>15. misuse' = "none" /\ OnceOK' /\ StackOK(t)'
  <2>1. OnceOK'
      BY <1>2, <1>9, <1>13 DEF OnceOK
  <2>2. StackOK(t)'
      BY <1>10 DEF StackOK
  <2> QED
      BY <1>9, <2>1, <2>2 DEF ToldInv
<1>16. ~Distinct' /\ Known(q)' /\ mountOf'.mask # {} /\ ~removed'
    BY <1>3, <1>4, <1>9 DEF Distinct, Known
<1>17. CallOK(t, q)'
  <2>1. TellOK(t, q)'
      BY <1>8, <1>10, IdsAre DEF TellOK
  <2> QED
      BY <1>8, <1>10, <1>16, <2>1 DEF CallOK
<1>18. \A u \in Caller : u # t => Together(t, u)'
    BY <1>5, <1>8, <1>10 DEF Together
<1>19. \A j \in SubscriptionId : ListOK(j, q)' /\ \A r \in Query : CountOK(j, r)'
  <2> SUFFICES ASSUME NEW j \in SubscriptionId PROVE ListOK(j, q)' /\ \A r \in Query : CountOK(j, r)'
      OBVIOUS
  <2>1. ListOK(j, q)'
    <3> SUFFICES ASSUME OnList(j), About(j) = q PROVE FALSE
        BY <1>13 DEF ListOK
    <3>1. PICK u \in Caller : InCall(u) /\ First(u).placeHolder = j
        BY DEF ToldInv, ListOK, Pending
    <3>2. First(u).query.from = q.from
        BY <3>1, PlaceHoldersAre
    <3> QED
        BY <1>5, <3>1, <3>2 DEF InCall
  <2> QED
      BY <1>16, <2>1 DEF CountOK
<1>20. QueryOK(q)'
    BY <1>9, <1>16 DEF ToldInv, QueryOK, One
<1> QED
    BY <1>12, <1>14, <1>15, <1>17, <1>18, <1>19, <1>20, OneStep

\* Who unsubscribes from a mount with contexts finds the subscription of its query, and
\* takes it off the list when it was the last user.
LEMMA UnsubscribeListed ==
    ASSUME MountTyped, ToldInv, Regular, NEW t \in Caller, NEW q \in Query, ~InCall(t), queryOf' = queryOf,
           MountUnsubscribe(t, q), Distinct
    PROVE  MountTyped' /\ ToldInv'
<1>1. PICK f : f = Find(q)
    OBVIOUS
<1>2. OnceOK
    BY DEF ToldInv
<1>3. ~removed /\ mountOf.mask # {} /\ MayCall(t, q, FALSE) /\ users[q] > 0 /\ users[q] \in Nat
    BY DEF MountUnsubscribe, MountTyped
<1>4. Known(q) /\ (Subscribes \/ OnMounts)
  <2>1. QueryOK(q)
      BY DEF ToldInv
  <2>2. mountOf.mask \subseteq {"subscribe", "mount"}
      BY DEF MountTyped, Mounts
  <2>3. Subscribes \/ OnMounts
      BY <1>3, <2>2 DEF Subscribes, OnMounts, Masked
  <2> QED
      BY <1>3, <2>1, <2>3 DEF QueryOK
<1>5. \A u \in Caller \ {t} : ~(InCall(u) /\ First(u).query.from = q.from)
    BY <1>3, MayCallIs
<1>6. \A u \in Caller : ~(InCall(u) /\ First(u).query.from = q.from)
    BY <1>5
<1>7. PICK i \in SubscriptionId : OnList(i) /\ About(i) = q
  <2>1. ~Moving(q)
      BY <1>6 DEF Moving, Opens
  <2>2. ~Unlisted(q)
      BY <1>3, <2>1 DEF ToldInv, QueryOK, One
  <2> QED
      BY <2>2 DEF Unlisted
<1>8. f.found = TRUE /\ f.id = i /\ i # 0
  <2>1. /\ f.id \in SubscriptionId \cup {0} /\ f.found \in BOOLEAN
        /\ f.id # 0 => OnList(f.id)
        /\ f.found => f.id # 0 /\ About(f.id) = q
        /\ ~f.found => Unlisted(q)
      BY <1>1, <1>2, FindIs
  <2> QED
      BY <1>2, <1>7, <2>1, IdsAre DEF OnceOK, Unlisted
<1>9. ~Pending(i) /\ ~Lent(i)
  <2>1. ~Pending(i)
      BY <1>6, <1>7, PlaceHoldersAre DEF Pending
  <2>2. ~Lent(i)
      BY <1>6, <1>7, LentIs DEF Lent, Opens
  <2> QED
      BY <2>1, <2>2
<1>10. /\ subscription[i].mem = "live" /\ subscription[i].subscriberCtx = SubAnswer(q)
       /\ subscription[i].mountCtx = MntAnswer(q)
    BY <1>7, <1>9 DEF ToldInv, ListOK
<1>11. /\ subscription[i].subscriberCount = IF Subscribes THEN users[q] ELSE 0
       /\ subscription[i].mountCount = IF OnMounts THEN users[q] ELSE 0
  <2>1. CountOK(i, q)
      BY DEF ToldInv
  <2>2. One(Lent(i)) = 0 /\ users[q] + 0 = users[q]
      BY <1>3, <1>9 DEF One
  <2> QED
      BY <1>7, <2>1, <2>2 DEF CountOK
<1>12. PICK k : k = Counted(i, Subscribes, OnMounts, -1)
    OBVIOUS
<1>13. PICK n : n = users[q] - 1
    OBVIOUS
<1>14. n \in Nat
    BY <1>3, <1>13
<1>15. /\ k \in [SubscriptionId -> Subs]
       /\ \A j \in SubscriptionId :
             /\ j # i => k[j] = subscription[j]
             /\ k[j].query = subscription[j].query /\ k[j].mem = subscription[j].mem
             /\ k[j].subscriberCtx = subscription[j].subscriberCtx
             /\ k[j].mountCtx = subscription[j].mountCtx
       /\ k[i].subscriberCount = IF Subscribes THEN n ELSE 0
       /\ k[i].mountCount = IF OnMounts THEN n ELSE 0
  <2>1. Subscribes \in BOOLEAN /\ OnMounts \in BOOLEAN /\ -1 \in Int
      BY DEF Subscribes, OnMounts, Masked
  <2>2. PICK x, y : x = One(Subscribes) /\ y = One(OnMounts)
      OBVIOUS
  <2>3. /\ k \in [SubscriptionId -> Subs]
        /\ \A j \in SubscriptionId :
             /\ j # i => k[j] = subscription[j]
             /\ k[j].query = subscription[j].query /\ k[j].mem = subscription[j].mem
             /\ k[j].subscriberCtx = subscription[j].subscriberCtx
             /\ k[j].mountCtx = subscription[j].mountCtx
        /\ k[i].subscriberCount = subscription[i].subscriberCount + (-1) * x
        /\ k[i].mountCount = subscription[i].mountCount + (-1) * y
      BY <1>12, <2>1, <2>2, CountedIs
  <2>4. /\ subscription[i].subscriberCount + (-1) * x = IF Subscribes THEN n ELSE 0
        /\ subscription[i].mountCount + (-1) * y = IF OnMounts THEN n ELSE 0
      BY <1>3, <1>11, <1>13, <2>2 DEF One
  <2> QED
      BY <2>3, <2>4
<1>16. Abandoned(k[i]) <=> n = 0
    BY <1>4, <1>14, <1>15 DEF Abandoned
<1>17. PICK e : e = NewCall("tell", q, f)
    OBVIOUS
<1>18. /\ e \in CallFrames /\ e.at = "tell" /\ e.query = q /\ e.sub = i /\ e.found /\ e.placeHolder = 0
  <2>1. e = [at |-> "tell", query |-> q, sub |-> i, found |-> TRUE,
             placeHolder |-> 0, subCtx |-> Zero, mntCtx |-> Zero]
      BY <1>8, <1>17 DEF NewCall
  <2> QED
      BY <2>1 DEF CallFrames
<1>19. /\ calls' = [calls EXCEPT ![t] = <<e>>]
       /\ UNCHANGED <<mountOf, told, removed, misuse>> /\ subscription' = k
       /\ subscriptions' = (IF n = 0 THEN Without(i) ELSE subscriptions)
       /\ users' = [users EXCEPT ![q] = @ - 1]
  <2>1. calls[t] = <<>>
      BY DEF InCall
  <2>2. /\ calls' = [calls EXCEPT ![t] = Append(@, e)] /\ UNCHANGED <<mountOf, told, removed, misuse>>
        /\ users' = [users EXCEPT ![q] = @ - 1] /\ subscription' = k
        /\ subscriptions' = IF Abandoned(k[i]) THEN Without(i) ELSE subscriptions
      BY <1>1, <1>8, <1>12, <1>17 DEF MountUnsubscribe
  <2> QED
      BY <1>16, <2>1, <2>2
<1>20. /\ calls' \in [Caller -> Seq(CallFrames)] /\ calls'[t] = <<e>>
       /\ \A u \in Caller : u # t => /\ calls'[u] = calls[u] /\ (InCall(u)' <=> InCall(u))
                                     /\ First(u)' = First(u) /\ (Opens(u)' <=> Opens(u))
       /\ InCall(t)' /\ First(t)' = e /\ ~Opens(t)'
  <2>1. <<e>> \in Seq(CallFrames) /\ <<e>> # <<>> /\ <<e>>[1] = e /\ e.at = "tell"
      BY <1>18
  <2> QED
      BY <1>19, <2>1, CallsChanged
<1>21. /\ users' \in [Query -> Nat] /\ users'[q] = n /\ \A r \in Query : r # q => users'[r] = users[r]
    BY <1>13, <1>14, <1>19 DEF MountTyped
<1>22. /\ subscriptions' \in Seq(SubscriptionId)
       /\ \A j \in SubscriptionId : OnList(j)' <=> OnList(j) /\ (n = 0 => j # i)
       /\ \A x, y \in DOMAIN subscriptions' : subscriptions'[x] = subscriptions'[y] => x = y
  <2>1. subscriptions \in Seq(SubscriptionId)
      BY DEF MountTyped
  <2>2. /\ Without(i) \in Seq(SubscriptionId)
        /\ \A j : Has(Without(i), j) <=> OnList(j) /\ j # i
        /\ \A x, y \in DOMAIN Without(i) : Without(i)[x] = Without(i)[y] => x = y
      BY <1>2, <2>1, RemovedFrom
  <2>3. CASE n = 0
      BY <1>19, <2>2, <2>3 DEF OnList
  <2>4. CASE n # 0
      BY <1>2, <1>19, <2>1, <2>4 DEF OnList, OnceOK
  <2> QED
      BY <2>3, <2>4
<1>23. /\ subscription' \in [SubscriptionId -> Subs]
       /\ \A j \in SubscriptionId :
             /\ j # i => subscription'[j] = subscription[j]
             /\ About(j)' = About(j) /\ subscription'[j].mem = subscription[j].mem
             /\ subscription'[j].subscriberCtx = subscription[j].subscriberCtx
             /\ subscription'[j].mountCtx = subscription[j].mountCtx
       /\ subscription'[i].subscriberCount = IF Subscribes THEN n ELSE 0
       /\ subscription'[i].mountCount = IF OnMounts THEN n ELSE 0
    BY <1>15, <1>19 DEF About
<1>24. MountTyped'
    BY <1>19, <1>20, <1>21, <1>22, <1>23 DEF MountTyped
<1>25. Quietly(t, q)
  <2>1. UNCHANGED <<mountOf, queryOf, removed>> /\ (InCall(t) => First(t).query = q) /\ First(t)'.query = q
      BY <1>18, <1>19, <1>20
  <2>2. \A j \in SubscriptionId : InCall(t)' /\ First(t)'.placeHolder = j /\ OnList(j)' => About(j)' = q
      BY <1>18, <1>20, IdsAre
  <2>3. \A u \in Caller \ {t}, p \in SubscriptionId :
            Opens(u) /\ First(u).query = q /\ First(u).placeHolder = p => OnList(p)' /\ About(p)' = q
      BY <1>5 DEF Opens
  <2>4. \A r \in Query : r # q => users'[r] = users[r] /\ told'[r] = told[r]
      BY <1>19, <1>21
  <2>5. \A j \in SubscriptionId : About(j) # q => j # i
      BY <1>7
  <2> QED
      BY <1>5, <1>20, <1>22, <1>23, <2>1, <2>2, <2>3, <2>4, <2>5 DEF Quietly
<1>26. /\ \A j \in SubscriptionId : (Pending(j)' <=> Pending(j)) /\ (Lent(j)' <=> Lent(j))
       /\ ~Moving(q)' /\ IsTold(q) /\ IsTold(q)' /\ (Unlisted(q)' <=> n = 0)
  <2>1. \A j \in SubscriptionId : Pending(j)' <=> Pending(j)
      BY <1>18, <1>20, IdsAre DEF Pending, InCall
  <2>2. ~Opens(t)
      BY DEF Opens
  <2>3. \A j \in SubscriptionId : Lent(j)' <=> Lent(j)
      BY <1>20, <2>2 DEF Lent
  <2>4. ~Moving(q)'
      BY <1>6, <1>20 DEF Moving, Opens
  <2>5. IsTold(q)
      BY <1>7, <1>9 DEF IsTold
  <2>6. Unlisted(q)' <=> n = 0
      BY <1>2, <1>7, <1>22, <1>23 DEF Unlisted, OnceOK
  <2>7. IsTold(q)'
    <3>1. CASE n = 0
      <4>1. ~OnList(i)'
          BY <1>22, <3>1
      <4> QED
          BY <1>18, <1>20, <4>1 DEF IsTold
    <3>2. CASE n # 0
      <4>1. OnList(i)' /\ About(i)' = q /\ ~Pending(i)'
          BY <1>7, <1>9, <1>22, <1>23, <2>1, <3>2
      <4> QED
          BY <4>1 DEF IsTold
    <3> QED
        BY <3>1, <3>2
  <2> QED
      BY <2>1, <2>3, <2>4, <2>5, <2>6, <2>7
<1>27. misuse' = "none" /\ OnceOK' /\ StackOK(t)'
  <2>1. OnceOK'
      BY <1>2, <1>22, <1>23 DEF OnceOK
  <2>2. StackOK(t)'
      BY <1>20 DEF StackOK
  <2> QED
      BY <1>19, <2>1, <2>2 DEF ToldInv
<1>28. /\ Distinct' /\ (Distinct' <=> Distinct) /\ (Subscribes' <=> Subscribes) /\ (OnMounts' <=> OnMounts) /\ Known(q)'
       /\ SubAnswer(q)' = SubAnswer(q) /\ MntAnswer(q)' = MntAnswer(q) /\ mountOf'.mask # {} /\ ~removed'
  <2>1. /\ Distinct' /\ (Distinct' <=> Distinct) /\ (Subscribes' <=> Subscribes) /\ (OnMounts' <=> OnMounts) /\ Known(q)'
      BY <1>4, <1>19 DEF Distinct, Subscribes, OnMounts, Masked, Known
  <2> QED
      BY <1>3, <1>19, <2>1 DEF SubAnswer, MntAnswer, HasMountQuery
<1>29. CallOK(t, q)'
  <2>1. ~OnList(i)' => /\ Unlisted(q)' /\ subscription'[i].subscriberCtx = SubAnswer(q)'
                       /\ subscription'[i].subscriberCount = 0 /\ subscription'[i].mountCount = 0
      BY <1>7, <1>10, <1>22, <1>23, <1>26, <1>28
  <2>2. subscription'[i].mem = "live" /\ About(i)' = q
      BY <1>7, <1>10, <1>23
  <2>3. TellOK(t, q)'
      BY <1>18, <1>20, <1>28, <2>1, <2>2 DEF TellOK
  <2>4. FoundOK(t)'
    <3>1. e.subCtx = Zero /\ e.mntCtx = Zero
        BY <1>17 DEF NewCall
    <3> QED
        BY <1>18, <1>20, <3>1 DEF FoundOK
  <2> QED
      BY <1>18, <1>20, <1>28, <2>3, <2>4 DEF CallOK
<1>30. \A u \in Caller : u # t => Together(t, u)'
    BY <1>5, <1>18, <1>20 DEF Together
<1>31. \A j \in SubscriptionId : ListOK(j, q)' /\ \A r \in Query : CountOK(j, r)'
  <2> SUFFICES ASSUME NEW j \in SubscriptionId, NEW r \in Query PROVE ListOK(j, q)' /\ CountOK(j, r)'
      OBVIOUS
  <2>1. ListOK(j, q) /\ CountOK(j, r)
      BY DEF ToldInv
  <2>2. ListOK(j, q)'
      BY <1>19, <1>22, <1>23, <1>26, <1>28, <2>1 DEF ListOK
  <2>3. CountOK(j, r)'
    <3> SUFFICES ASSUME OnList(j)', OnList(j), About(j) = r, Distinct PROVE CountOK(j, r)'
        BY <1>22, <1>23, <1>28 DEF CountOK
    <3>1. CASE j = i
      <4>1. n # 0 /\ One(Lent(i))' = 0 /\ r = q
          BY <1>7, <1>9, <1>22, <1>26, <3>1 DEF One
      <4>2. /\ subscription'[i].subscriberCount = IF Subscribes THEN n + 0 ELSE 0
            /\ subscription'[i].mountCount = IF OnMounts THEN n + 0 ELSE 0
            /\ n > 0
          BY <1>14, <1>23, <4>1
      <4> QED
          BY <1>21, <1>28, <3>1, <4>1, <4>2 DEF CountOK
    <3>2. CASE j # i
      <4>1. r # q
          BY <1>2, <1>7, <3>2 DEF OnceOK
      <4>2. One(Lent(j))' = One(Lent(j))
          BY <1>26 DEF One
      <4> QED
          BY <1>21, <1>23, <1>28, <2>1, <3>2, <4>1, <4>2 DEF CountOK
    <3> QED
        BY <3>1, <3>2
  <2> QED
      BY <2>2, <2>3
<1>32. QueryOK(q)'
  <2>1. told'[q] = One(Distinct /\ Subscribes /\ IsTold(q))'
      BY <1>19, <1>26, <1>28 DEF ToldInv, QueryOK, One
  <2>2. Unlisted(q)' => users'[q] = One(Moving(q))'
      BY <1>21, <1>26 DEF One
  <2> QED
      BY <1>28, <2>1, <2>2 DEF QueryOK
<1> QED
    BY <1>24, <1>25, <1>27, <1>29, <1>30, <1>31, <1>32, OneStep

\* The mount is told of an unsubscribe: nothing is left to do, unless it was the last one.
LEMMA ToldNothing ==
    ASSUME MountTyped, ToldInv, NEW t \in Caller, InCall(t), First(t).at = "tell", queryOf' = queryOf,
           calls' = [calls EXCEPT ![t] = <<>>],
           UNCHANGED <<mountOf, subscriptions, subscription, users, told, removed, misuse>>,
           \A i \in SubscriptionId : First(t).sub = i => OnList(i)
    PROVE  MountTyped' /\ ToldInv'
<1>1. PICK c : c = First(t)
    OBVIOUS
<1>2. PICK q \in Query : c.query = q
    BY <1>1, TypeOfCalls
<1>3. TellOK(t, q) /\ c.placeHolder = 0 /\ c.at = "tell" /\ ~Opens(t)
    BY <1>1, <1>2 DEF ToldInv, CallOK, TellOK, Opens
<1>4. \A u \in Caller \ {t} : ~(InCall(u) /\ First(u).query.from = q.from)
    BY <1>1, <1>2, InCallApart
<1>5. /\ calls' \in [Caller -> Seq(CallFrames)]
      /\ \A u \in Caller : u # t => /\ calls'[u] = calls[u] /\ (InCall(u)' <=> InCall(u))
                                    /\ First(u)' = First(u) /\ (Opens(u)' <=> Opens(u))
      /\ ~InCall(t)' /\ ~Opens(t)' /\ StackOK(t)' /\ CallOK(t, q)'
      /\ \A u \in Caller : Together(t, u)'
    BY CallEnds
<1>6. MountTyped'
    BY <1>5 DEF MountTyped
<1>7. \A j \in SubscriptionId : (OnList(j)' <=> OnList(j)) /\ About(j)' = About(j) /\ subscription'[j] = subscription[j]
    BY DEF OnList, About
<1>8. Quietly(t, q)
  <2>1. InCall(t) => First(t).query = q
      BY <1>1, <1>2
  <2>2. \A u \in Caller \ {t}, p \in SubscriptionId :
            Opens(u) /\ First(u).query = q /\ First(u).placeHolder = p => OnList(p)' /\ About(p)' = q
      BY <1>4 DEF Opens
  <2> QED
      BY <1>4, <1>5, <1>7, <2>1, <2>2 DEF Quietly
<1>9. /\ \A j \in SubscriptionId : (Pending(j)' <=> Pending(j)) /\ (Lent(j)' <=> Lent(j))
      /\ (Moving(q)' <=> Moving(q)) /\ (IsTold(q)' <=> IsTold(q)) /\ (Unlisted(q)' <=> Unlisted(q))
  <2>1. \A j \in SubscriptionId : Pending(j)' <=> Pending(j)
      BY <1>1, <1>3, <1>5, IdsAre DEF Pending
  <2>2. \A j \in SubscriptionId : Lent(j)' <=> Lent(j)
      BY <1>3, <1>5 DEF Lent
  <2>3. Moving(q)' <=> Moving(q)
      BY <1>3, <1>5 DEF Moving
  <2>4. Unlisted(q)' <=> Unlisted(q)
      BY <1>7 DEF Unlisted
  <2>5. IsTold(q)' <=> IsTold(q)
    <3>1. \A j \in SubscriptionId : (OnList(j) /\ About(j) = q /\ ~Pending(j))' <=> (OnList(j) /\ About(j) = q /\ ~Pending(j))
        BY <1>7, <2>1
    <3>2. \A u \in Caller : (Opens(u) /\ First(u).query = q /\ First(u).at # "notify")'
                            <=> (Opens(u) /\ First(u).query = q /\ First(u).at # "notify")
        BY <1>3, <1>5
    <3>3. \A u \in Caller, j \in SubscriptionId :
              (InCall(u) /\ First(u).at = "tell" /\ First(u).query = q /\ First(u).sub = j /\ ~OnList(j))'
              <=> (InCall(u) /\ First(u).at = "tell" /\ First(u).query = q /\ First(u).sub = j /\ ~OnList(j))
        BY <1>5, <1>7
    <3> QED
        BY <3>1, <3>2, <3>3 DEF IsTold
  <2> QED
      BY <2>1, <2>2, <2>3, <2>4, <2>5
<1>10. misuse' = "none" /\ OnceOK'
    BY <1>7 DEF ToldInv, OnceOK
<1>11. /\ (Distinct' <=> Distinct) /\ (Subscribes' <=> Subscribes) /\ (OnMounts' <=> OnMounts) /\ (Known(q)' <=> Known(q))
       /\ SubAnswer(q)' = SubAnswer(q) /\ MntAnswer(q)' = MntAnswer(q)
    BY DEF Distinct, Subscribes, OnMounts, Masked, Known, SubAnswer, MntAnswer, HasMountQuery
<1>12. \A j \in SubscriptionId : ListOK(j, q)' /\ \A r \in Query : CountOK(j, r)'
  <2> SUFFICES ASSUME NEW j \in SubscriptionId, NEW r \in Query PROVE ListOK(j, q)' /\ CountOK(j, r)'
      OBVIOUS
  <2>1. ListOK(j, q) /\ CountOK(j, r)
      BY DEF ToldInv
  <2>2. ListOK(j, q)'
      BY <1>7, <1>9, <1>11, <2>1 DEF ListOK
  <2>3. CountOK(j, r)'
      BY <1>7, <1>9, <1>11, <2>1 DEF CountOK, One
  <2> QED
      BY <2>2, <2>3
<1>13. QueryOK(q)'
    BY <1>9, <1>11 DEF ToldInv, QueryOK, One
<1> QED
    BY <1>5, <1>6, <1>8, <1>10, <1>12, <1>13, OneStep

\* The last user of a query tells the mount, and the subscription is freed.
LEMMA ToldAndFreed ==
    ASSUME MountTyped, ToldInv, NEW t \in Caller, InCall(t), First(t).at = "tell", queryOf' = queryOf,
           calls' = [calls EXCEPT ![t] = <<>>],
           UNCHANGED <<mountOf, subscriptions, users, removed, misuse>>,
           NEW i \in SubscriptionId, First(t).sub = i, ~OnList(i), subscription' = Free(i),
           told' = IF Subscribes THEN [told EXCEPT ![First(t).query] = @ - 1] ELSE told
    PROVE  MountTyped' /\ ToldInv'
<1>1. PICK c : c = First(t)
    OBVIOUS
<1>2. PICK q \in Query : c.query = q
    BY <1>1, TypeOfCalls
<1>3. TellOK(t, q) /\ c.placeHolder = 0 /\ c.at = "tell" /\ c.sub = i /\ ~Opens(t)
    BY <1>1, <1>2 DEF ToldInv, CallOK, TellOK, Opens
<1>4. About(i) = q /\ Distinct /\ Unlisted(q)
    BY <1>1, <1>3 DEF TellOK
<1>5. \A u \in Caller \ {t} : ~(InCall(u) /\ First(u).query.from = q.from)
    BY <1>1, <1>2, InCallApart
<1>6. /\ calls' \in [Caller -> Seq(CallFrames)]
      /\ \A u \in Caller : u # t => /\ calls'[u] = calls[u] /\ (InCall(u)' <=> InCall(u))
                                    /\ First(u)' = First(u) /\ (Opens(u)' <=> Opens(u))
      /\ ~InCall(t)' /\ ~Opens(t)' /\ StackOK(t)' /\ CallOK(t, q)'
      /\ \A u \in Caller : Together(t, u)'
    BY CallEnds
<1>7. /\ subscription' \in [SubscriptionId -> Subs]
      /\ \A j \in SubscriptionId : (j # i => subscription'[j] = subscription[j]) /\ About(j)' = About(j)
  <2>1. PICK o : o = subscription[i]
      OBVIOUS
  <2>2. o \in Subs
      BY <2>1 DEF MountTyped
  <2>3. PICK n : n = [o EXCEPT !.mem = "freed"]
      OBVIOUS
  <2>4. n \in Subs /\ n.query = o.query
      BY <2>2, <2>3 DEF Subs
  <2>5. subscription' = [subscription EXCEPT ![i] = n]
      BY <2>1, <2>3 DEF Free
  <2> QED
      BY <2>1, <2>4, <2>5 DEF MountTyped, About
<1>8. /\ told' \in [Query -> Int] /\ told'[q] = (IF Subscribes THEN told[q] - 1 ELSE told[q])
      /\ \A r \in Query : r # q => told'[r] = told[r]
    BY <1>1, <1>2 DEF MountTyped
<1>9. MountTyped'
    BY <1>6, <1>7, <1>8 DEF MountTyped
<1>10. \A j \in SubscriptionId : (OnList(j)' <=> OnList(j)) /\ (OnList(j) => j # i)
    BY DEF OnList
<1>11. Quietly(t, q)
  <2>1. InCall(t) => First(t).query = q
      BY <1>1, <1>2
  <2>2. \A u \in Caller \ {t}, p \in SubscriptionId :
            Opens(u) /\ First(u).query = q /\ First(u).placeHolder = p => OnList(p)' /\ About(p)' = q
      BY <1>5 DEF Opens
  <2>3. \A j \in SubscriptionId : About(j) # q => j # i
      BY <1>4
  <2> QED
      BY <1>5, <1>6, <1>7, <1>8, <1>10, <2>1, <2>2, <2>3 DEF Quietly
<1>12. /\ \A j \in SubscriptionId : (Pending(j)' <=> Pending(j)) /\ (Lent(j)' <=> Lent(j))
       /\ (Moving(q)' <=> Moving(q)) /\ IsTold(q) /\ ~IsTold(q)' /\ (Unlisted(q)' <=> Unlisted(q))
  <2>1. \A j \in SubscriptionId : Pending(j)' <=> Pending(j)
      BY <1>1, <1>3, <1>6, IdsAre DEF Pending
  <2>2. \A j \in SubscriptionId : Lent(j)' <=> Lent(j)
      BY <1>3, <1>6 DEF Lent
  <2>3. Moving(q)' <=> Moving(q)
      BY <1>3, <1>6 DEF Moving
  <2>4. Unlisted(q)' <=> Unlisted(q)
      BY <1>7, <1>10 DEF Unlisted
  <2>5. IsTold(q)
      BY <1>1, <1>2, <1>3 DEF IsTold
  <2>6. ~IsTold(q)'
    <3>1. \A j \in SubscriptionId : ~(OnList(j)' /\ About(j)' = q)
        BY <1>4, <1>7, <1>10 DEF Unlisted
    <3>2. \A u \in Caller : ~(InCall(u)' /\ First(u)'.query = q)
        BY <1>5, <1>6
    <3> QED
        BY <3>1, <3>2 DEF IsTold, Opens
  <2> QED
      BY <2>1, <2>2, <2>3, <2>4, <2>5, <2>6
<1>13. misuse' = "none" /\ OnceOK'
    BY <1>7, <1>10 DEF ToldInv, OnceOK
<1>14. /\ Distinct' /\ (Subscribes' <=> Subscribes) /\ (OnMounts' <=> OnMounts) /\ (Known(q)' <=> Known(q))
    BY <1>4 DEF Distinct, Subscribes, OnMounts, Masked, Known
<1>15. \A j \in SubscriptionId : ListOK(j, q)' /\ \A r \in Query : CountOK(j, r)'
  <2> SUFFICES ASSUME NEW j \in SubscriptionId, NEW r \in Query PROVE ListOK(j, q)' /\ CountOK(j, r)'
      OBVIOUS
  <2>1. CountOK(j, r)
      BY DEF ToldInv
  <2>2. ListOK(j, q)'
      BY <1>4, <1>7, <1>10 DEF ListOK, Unlisted
  <2>3. CountOK(j, r)'
      BY <1>4, <1>7, <1>10, <1>12, <1>14, <2>1 DEF CountOK, One
  <2> QED
      BY <2>2, <2>3
<1>16. QueryOK(q)'
  <2>1. told[q] = IF Subscribes THEN 1 ELSE 0
      BY <1>4, <1>12 DEF ToldInv, QueryOK, One
  <2>2. told'[q] = 0
      BY <1>8, <2>1
  <2>3. told'[q] = One(Distinct /\ Subscribes /\ IsTold(q))'
      BY <1>12, <2>2 DEF One
  <2> QED
      BY <1>4, <1>12, <1>14, <2>3 DEF ToldInv, QueryOK, One
<1> QED
    BY <1>6, <1>9, <1>11, <1>13, <1>15, <1>16, OneStep

\* on_unsubscribe is called for the last user of a query and for no other.
LEMMA TellUnsubscribedStep ==
    ASSUME MountTyped, ToldInv, NEW t \in Caller, InCall(t), queryOf' = queryOf, TellUnsubscribed(t)
    PROVE  MountTyped' /\ ToldInv'
<1>1. PICK c : c = First(t)
    OBVIOUS
<1>2. PICK q \in Query : c.query = q
    BY <1>1, TypeOfCalls
<1>3. c = Call(t) /\ Front(calls[t]) = <<>> /\ c.at = "tell"
  <2>1. Call(t).at = "tell"
      BY DEF TellUnsubscribed, At
  <2> QED
      BY <1>1, <2>1, CallIs
<1>4. TellOK(t, q) /\ mountOf.mask # {}
    BY <1>1, <1>2, <1>3 DEF ToldInv, CallOK
<1>5. Subscribes \/ OnMounts
    BY <1>4 DEF MountTyped, Mounts, Subscribes, OnMounts, Masked
<1>6. /\ calls' = [calls EXCEPT ![t] = <<>>]
      /\ UNCHANGED <<mountOf, subscriptions, users, removed>>
    BY <1>3 DEF TellUnsubscribed, Return
<1>7. c.sub \in SubscriptionId \cup {0}
    BY <1>1, TypeOfCalls
<1>8. CASE c.sub = 0
  <2>1. UNCHANGED <<subscription, told, misuse>>
      BY <1>3, <1>8 DEF TellUnsubscribed
  <2>2. \A i \in SubscriptionId : First(t).sub # i
      BY <1>1, <1>8, IdsAre
  <2> QED
      BY <1>1, <1>3, <1>6, <2>1, <2>2, ToldNothing
<1>9. CASE c.sub # 0
  <2>1. PICK i \in SubscriptionId : c.sub = i
      BY <1>7, <1>9
  <2>2. /\ c.found /\ Distinct /\ subscription[i].mem = "live" /\ About(i) = q
        /\ ~OnList(i) => /\ Unlisted(q) /\ subscription[i].subscriberCtx = SubAnswer(q)
                         /\ subscription[i].subscriberCount = 0 /\ subscription[i].mountCount = 0
      BY <1>1, <1>4, <2>1 DEF TellOK
  <2>3. PICK s : s = subscription[i]
      OBVIOUS
  <2>4. /\ misuse' = misuse
        /\ told' = IF Subscribes /\ s.subscriberCount = 0 /\ s.subscriberCtx # Zero
                   THEN [told EXCEPT ![s.query] = @ - 1] ELSE told
        /\ subscription' = IF Abandoned(s) THEN Free(i) ELSE subscription
    <3>1. /\ Use(i)
          /\ told' = IF Subscribes /\ s.subscriberCount = 0 /\ s.subscriberCtx # Zero
                     THEN [told EXCEPT ![s.query] = @ - 1] ELSE told
          /\ subscription' = IF Abandoned(s) THEN Free(i) ELSE subscription
        BY <1>3, <1>9, <2>1, <2>3 DEF TellUnsubscribed
    <3> QED
        BY <2>2, <3>1 DEF Use
  <2>5. CASE OnList(i)
    <3>1. CountOK(i, q) /\ users[q] \in Nat /\ One(Lent(i)) \in Nat
        BY DEF ToldInv, MountTyped, One
    <3>2. PICK n : n = users[q] + One(Lent(i))
        OBVIOUS
    <3>3. /\ n > 0 /\ n \in Nat
          /\ s.subscriberCount = IF Subscribes THEN n ELSE 0
          /\ s.mountCount = IF OnMounts THEN n ELSE 0
      <4>1. users[q] > 0 /\ s.subscriberCount = (IF Subscribes THEN n ELSE 0)
            /\ s.mountCount = IF OnMounts THEN n ELSE 0
          BY <2>2, <2>3, <2>5, <3>1, <3>2 DEF CountOK
      <4>2. n > 0 /\ n \in Nat
          BY <3>1, <3>2, <4>1
      <4> QED
          BY <4>1, <4>2
    <3>4. told' = told /\ subscription' = subscription
        BY <1>5, <2>4, <3>3 DEF Abandoned
    <3>5. \A j \in SubscriptionId : First(t).sub = j => OnList(j)
        BY <1>1, <2>1, <2>5
    <3> QED
        BY <1>1, <1>3, <1>6, <2>4, <3>4, <3>5, ToldNothing
  <2>6. CASE ~OnList(i)
    <3>1. s.subscriberCount = 0 /\ s.mountCount = 0 /\ s.subscriberCtx = SubAnswer(q) /\ s.query = q
        BY <2>2, <2>3, <2>6 DEF About
    <3>2. SubAnswer(q) # Zero <=> Distinct /\ Subscribes
        BY <1>5, AnsweredIs
    <3>3. told' = IF Subscribes THEN [told EXCEPT ![First(t).query] = @ - 1] ELSE told
        BY <1>1, <1>2, <2>2, <2>4, <3>1, <3>2
    <3>4. subscription' = Free(i)
        BY <2>4, <3>1 DEF Abandoned
    <3> QED
        BY <1>1, <1>3, <1>6, <2>1, <2>4, <2>6, <3>3, <3>4, ToldAndFreed
  <2> QED
      BY <2>5, <2>6
<1> QED
    BY <1>8, <1>9

\* corto_mount_destruct tells the mount of all that is left, when nobody is in a call.
LEMMA DestructStep ==
    ASSUME MountTyped, ToldInv, queryOf' = queryOf, MountDestruct
    PROVE  MountTyped' /\ ToldInv'
<1>1. /\ ~removed /\ mountOf.mask # {} /\ \A t \in Caller : ~InCall(t)
      /\ removed' = TRUE /\ subscriptions' = <<>>
      /\ UNCHANGED <<mountOf, calls, users, misuse>>
    BY DEF MountDestruct, InCall
<1>2. PICK left : left = {subscriptions[i] : i \in DOMAIN subscriptions}
    OBVIOUS
<1>3. /\ told' = [q \in Query |-> told[q] - Cardinality({i \in left :
                    subscription[i].query = q /\ subscription[i].subscriberCtx # Zero})]
      /\ subscription' = [i \in SubscriptionId |->
            IF i \in left THEN [subscription[i] EXCEPT !.mem = "freed"] ELSE subscription[i]]
    BY <1>2 DEF MountDestruct
<1>4. \A i : i \in left <=> OnList(i)
    BY <1>2 DEF OnList, Has
<1>5. \A i : OnList(i) => i \in SubscriptionId
    BY DEF MountTyped, OnList, Has
<1>6. \A i \in SubscriptionId : ~Pending(i)
    BY <1>1 DEF Pending
<1>7. Subscribes \/ OnMounts
    BY <1>1 DEF MountTyped, Mounts, Subscribes, OnMounts, Masked
<1>8. \A q \in Query : told'[q] = 0
  <2> SUFFICES ASSUME NEW q \in Query PROVE told'[q] = 0
      OBVIOUS
  <2>1. PICK S : S = {i \in left : subscription[i].query = q /\ subscription[i].subscriberCtx # Zero}
      OBVIOUS
  <2>2. \A i : i \in S <=> OnList(i) /\ About(i) = q /\ Distinct /\ Subscribes
    <3> SUFFICES ASSUME NEW i, OnList(i), About(i) = q
                 PROVE  subscription[i].subscriberCtx # Zero <=> Distinct /\ Subscribes
        BY <1>4, <2>1 DEF About
    <3>1. subscription[i].subscriberCtx = SubAnswer(q)
        BY <1>5, <1>6 DEF ToldInv, ListOK
    <3> QED
        BY <1>7, <3>1, AnsweredIs
  <2>3. told[q] = One(Distinct /\ Subscribes /\ \E i \in SubscriptionId : OnList(i) /\ About(i) = q)
    <3>1. IsTold(q) <=> \E i \in SubscriptionId : OnList(i) /\ About(i) = q
        BY <1>1, <1>6 DEF IsTold, Opens
    <3> QED
        BY <3>1 DEF ToldInv, QueryOK, One
  <2>4. CASE Distinct /\ Subscribes /\ \E i \in SubscriptionId : OnList(i) /\ About(i) = q
    <3>1. PICK i \in SubscriptionId : OnList(i) /\ About(i) = q
        BY <2>4
    <3>2. S = {i}
      <4>1. i \in S
          BY <2>2, <2>4, <3>1
      <4>2. \A j \in S : j = i
          BY <1>5, <2>2, <3>1 DEF ToldInv, OnceOK
      <4> QED
          BY <4>1, <4>2
    <3>3. Cardinality(S) = 1
        BY <3>2, FS_Singleton
    <3>4. told[q] = 1
        BY <2>3, <2>4 DEF One
    <3>5. told'[q] = told[q] - Cardinality(S)
        BY <1>3, <2>1
    <3> QED
        BY <3>3, <3>4, <3>5
  <2>5. CASE ~(Distinct /\ Subscribes /\ \E i \in SubscriptionId : OnList(i) /\ About(i) = q)
    <3>1. S = {}
        BY <1>5, <2>2, <2>5
    <3>2. Cardinality(S) = 0
        BY <3>1, FS_EmptySet
    <3>3. told[q] = 0
        BY <2>3, <2>5 DEF One
    <3>4. told'[q] = told[q] - Cardinality(S)
        BY <1>3, <2>1
    <3> QED
        BY <3>2, <3>3, <3>4
  <2> QED
      BY <2>4, <2>5
<1>9. /\ subscription' \in [SubscriptionId -> Subs]
      /\ \A i \in SubscriptionId : ~OnList(i)' /\ subscription'[i] \in Subs
  <2>1. ASSUME NEW i \in SubscriptionId PROVE subscription'[i] \in Subs
    <3>1. PICK o : o = subscription[i]
        OBVIOUS
    <3>2. o \in Subs
        BY <3>1 DEF MountTyped
    <3>3. PICK n : n = [o EXCEPT !.mem = "freed"]
        OBVIOUS
    <3>4. n \in Subs
        BY <3>2, <3>3 DEF Subs
    <3>5. subscription'[i] = IF i \in left THEN n ELSE o
        BY <1>3, <3>1, <3>3
    <3> QED
        BY <3>2, <3>4, <3>5
  <2>2. \A i \in SubscriptionId : ~OnList(i)'
      BY <1>1 DEF OnList, Has
  <2>3. subscription' \in [SubscriptionId -> Subs]
      BY <1>3, <2>1
  <2> QED
      BY <2>1, <2>2, <2>3
<1>10. MountTyped'
  <2>1. told' \in [Query -> Int]
    <3>1. told' = [q \in Query |-> told'[q]]
        BY <1>3
    <3> QED
        BY <1>8, <3>1
  <2>2. <<>> \in Seq(SubscriptionId)
      OBVIOUS
  <2> QED
      BY <1>1, <1>9, <2>1, <2>2 DEF MountTyped
<1>11. \A t \in Caller : ~InCall(t)' /\ StackOK(t)'
    BY <1>1 DEF InCall, StackOK, ToldInv
<1>12. misuse' = "none" /\ OnceOK'
    BY <1>1, <1>9 DEF ToldInv, OnceOK
<1>13. \A q \in Query : ~IsTold(q)'
    BY <1>9, <1>11 DEF IsTold, Opens
<1>14. \A q \in Query : QueryOK(q)'
  <2> SUFFICES ASSUME NEW q \in Query PROVE QueryOK(q)'
      OBVIOUS
  <2>1. users'[q] > 0 => Known(q)'
      BY <1>1 DEF ToldInv, QueryOK, Known
  <2>2. told'[q] = One(Distinct /\ Subscribes /\ IsTold(q))'
      BY <1>8, <1>13 DEF One
  <2> QED
      BY <1>1, <2>1, <2>2 DEF QueryOK
<1> QED
    BY <1>9, <1>10, <1>11, <1>12, <1>14 DEF ToldInv, CallOK, Together, ListOK, CountOK

(***************************************************************************)
(* Every step keeps what the mount is told                                 *)
(***************************************************************************)
\* Nobody is in a call to the mount at the start.
LEMMA MountStarts == Init => MountTyped /\ ToldInv
<1> SUFFICES ASSUME Init PROVE MountTyped /\ ToldInv
    OBVIOUS
<1>1. (\E m \in Mounts : MountInit(m)) /\ queryOf \in [Subscriber -> Query]
    BY SubscribersAssumption DEF Init
<1>2. NoSubscription \in Subs
    BY MountSubscriptionsAssumption DEF NoSubscription, Subs, Query, Zero
<1>3. MountTyped
    <2>1. <<>> \in Seq(SubscriptionId) /\ <<>> \in Seq(CallFrames)
        OBVIOUS
    <2>2. subscription \in [SubscriptionId -> Subs] /\ calls \in [Caller -> Seq(CallFrames)]
        BY <1>1, <1>2, <2>1 DEF MountInit
    <2>3. mountOf \in Mounts /\ subscriptions \in Seq(SubscriptionId) /\ removed \in BOOLEAN
        BY <1>1, <2>1 DEF MountInit
    <2>4. users \in [Query -> Nat] /\ told \in [Query -> Int]
        BY <1>1 DEF MountInit
    <2> QED BY <1>1, <2>2, <2>3, <2>4, Zenon DEF MountTyped
<1>4. /\ subscriptions = <<>> /\ misuse = "none"
      /\ \A t \in Caller : calls[t] = <<>>
      /\ \A q \in Query : users[q] = 0 /\ told[q] = 0
    BY <1>1 DEF MountInit
<1>5. /\ \A i \in SubscriptionId : ~OnList(i)
      /\ \A t \in Caller : ~InCall(t) /\ ~Opens(t)
    BY <1>4 DEF OnList, Has, InCall, Opens
<1>6. OnceOK
    BY <1>4, <1>5 DEF OnceOK
<1>7. \A t \in Caller : StackOK(t)
    BY <1>4 DEF StackOK
<1>8. \A t \in Caller, q \in Query : CallOK(t, q)
    BY <1>5 DEF CallOK
<1>9. \A t, u \in Caller : Together(t, u)
    BY <1>5 DEF Together
<1>10. \A i \in SubscriptionId, q \in Query : ListOK(i, q) /\ CountOK(i, q)
    BY <1>5 DEF ListOK, CountOK
<1>11. ASSUME NEW q \in Query PROVE QueryOK(q)
    <2>1. ~Moving(q) /\ ~IsTold(q)
        BY <1>5 DEF Moving, IsTold
    <2> QED BY <1>4, <2>1 DEF QueryOK, One
<1> QED BY <1>3, <1>4, <1>6, <1>7, <1>8, <1>9, <1>10, <1>11 DEF ToldInv

\* A thread is in one call to the mount at a time.
CallsOpen == \A t \in Thread :
    InCall(t) => pc[t] = "idle" \/ (pc[t] \in {"mounts", "unsubscribe"} /\ t \in called)

\* A call to the mount that goes on was made before.
LEMMA GoingOn ==
    ASSUME MountTyped, NEW t \in Caller, MountGoOn(t)
    PROVE  InCall(t) /\ \A u \in Caller : InCall(u)' => InCall(u)
<1>1. InCall(t)
    BY DEF MountGoOn, Tell, CallbackSubscribes, Settle, TellUnsubscribed, At, InCall
<1>2. \E s : calls' = [calls EXCEPT ![t] = s]
    <2>1. Tell(t) => \E s : calls' = [calls EXCEPT ![t] = s]
        BY DEF Tell, Continue
    <2>2. CallbackSubscribes(t) => \E s : calls' = [calls EXCEPT ![t] = s]
        BY DEF CallbackSubscribes
    <2>3. Settle(t) => \E s : calls' = [calls EXCEPT ![t] = s]
        BY DEF Settle, Return
    <2>4. TellUnsubscribed(t) => \E s : calls' = [calls EXCEPT ![t] = s]
        BY DEF TellUnsubscribed, Return
    <2> QED BY <2>1, <2>2, <2>3, <2>4 DEF MountGoOn
<1> QED BY <1>1, <1>2 DEF MountTyped, InCall

\* A thread that works on a subscriber is not in a call to the mount.
LEMMA OneStack ==
    ASSUME CallsOpen, NEW t \in Thread, pc[t] \notin {"idle", "mounts", "unsubscribe"}
    PROVE  ~InCall(t)
BY DEF CallsOpen

\* A step of a subscriber is one of a thread that is in no call, or of a dispatcher.
LEMMA ThreadMoves ==
    ASSUME NEW t \in Thread, SubscriberGoOn(t)
    PROVE  /\ pc[t] \notin {"idle", "mounts", "unsubscribe"}
           /\ pc' = pc \/ \E p : pc' = [pc EXCEPT ![t] = p]
<1>1. Walk(t) \/ LockAlign(t) \/ Invoke(t) \/ Deliver(t) \/ NotifyEnd(t) =>
         pc[t] \in {"walk", "lock", "invoke", "deliver"} /\ \E p : pc' = [pc EXCEPT ![t] = p]
    BY DEF Walk, LockAlign, Invoke, Deliver, NotifyEnd, Goto
<1>2. AlignBegin(t) \/ AlignEnd(t) \/ FlushEnd(t) =>
         pc[t] \in {"align", "aligning", "flush"} /\ \E p : pc' = [pc EXCEPT ![t] = p]
    BY DEF AlignBegin, AlignEnd, FlushEnd, Goto
<1>3. AlignObject(t) \/ Flush(t) => pc[t] \in {"aligning", "flush"} /\ pc' = pc
    BY DEF AlignObject, Flush, MustFlush
<1> QED BY <1>1, <1>2, <1>3 DEF SubscriberGoOn

\* A call of a user starts a thread that was idle.
LEMMA CallStarts ==
    ASSUME NEW t \in Thread, StartCall(t)
    PROVE  \E p : pc' = [pc EXCEPT ![t] = p]
<1>1. ASSUME NEW k \in Key, NEW b, NEW f, Change(t, k, b, f)
      PROVE  \E p : pc' = [pc EXCEPT ![t] = p]
    BY <1>1 DEF Change, Goto
<1>2. ASSUME NEW e \in Entity, Subscribe(t, e) \/ Unsubscribe(t, e)
      PROVE  \E p : pc' = [pc EXCEPT ![t] = p]
    BY <1>2 DEF Subscribe, Unsubscribe, Goto
<1> QED BY <1>1, <1>2, Zenon DEF StartCall, Define, Update, Delete, Publish

\* What keeps the calls apart, when only the thread t moves.
LEMMA StaysOpen ==
    ASSUME CallsOpen, MountTyped, DOMAIN pc = Thread, NEW t \in Thread,
           pc' = pc \/ \E p : pc' = [pc EXCEPT ![t] = p],
           \A u \in Thread : u # t => (InCall(u)' => InCall(u)) /\ (u \in called => u \in called'),
           InCall(t)' => pc'[t] = "idle" \/ (pc'[t] \in {"mounts", "unsubscribe"} /\ t \in called')
    PROVE  CallsOpen'
<1> SUFFICES ASSUME NEW u \in Thread, InCall(u)'
             PROVE  pc'[u] = "idle" \/ (pc'[u] \in {"mounts", "unsubscribe"} /\ u \in called')
    BY DEF CallsOpen
<1>1. CASE u = t
    BY <1>1
<1>2. CASE u # t
    <2>1. pc'[u] = pc[u]
        BY <1>2
    <2> QED BY <1>2, <2>1 DEF CallsOpen
<1> QED BY <1>1, <1>2

\* A settled call of on_subscribe, and one that was found in the list, are proved apart.
LEMMA GoOnTold ==
    ASSUME MountTyped, ToldInv, Regular, NEW t \in Caller, queryOf' = queryOf, MountGoOn(t)
    PROVE  MountTyped' /\ ToldInv'
<1>0. InCall(t)
    BY GoingOn
<1>1. CASE Tell(t)
    <2>1. CASE Call(t).found
        BY <1>0, <1>1, <2>1, TellFound
    <2>2. CASE ~Call(t).found
        BY <1>0, <1>1, <2>2, TellOpening
    <2> QED BY <2>1, <2>2
<1>2. CASE CallbackSubscribes(t)
    BY <1>0, <1>2, CallbackFinds
<1>3. CASE Settle(t)
    <2>1. CASE Call(t).found
        BY <1>0, <1>3, <2>1, SettleFound
    <2>2. CASE ~Call(t).found /\ Call(t).sub # 0
        BY <1>0, <1>3, <2>2, SettleOther
    <2>3. CASE ~Call(t).found /\ Call(t).sub = 0 /\ Distinct
        BY <1>0, <1>3, <2>3, SettlePlaceHolder
    <2>4. CASE ~Call(t).found /\ ~Distinct
        BY <1>0, <1>3, <2>4, SettleNothing
    <2> QED BY <2>1, <2>2, <2>3, <2>4
<1>4. CASE TellUnsubscribed(t)
    BY <1>0, <1>4, TellUnsubscribedStep
<1> QED BY <1>1, <1>2, <1>3, <1>4 DEF MountGoOn

\* A subscribe and an unsubscribe, up to the unlock.
LEMMA CallTold ==
    ASSUME MountTyped, ToldInv, Regular, NEW t \in Caller, NEW q \in Query, ~InCall(t),
           queryOf' = queryOf, MountUnsubscribe(t, q) \/ (Known(q) /\ MountSubscribe(t, q))
    PROVE  MountTyped' /\ ToldInv'
<1>1. CASE MountUnsubscribe(t, q)
    BY <1>1, UnsubscribeNothing, UnsubscribeListed
<1>2. CASE Known(q) /\ MountSubscribe(t, q)
    <2>1. CASE Find(q).found
        BY <1>2, <2>1, SubscribeFound
    <2>2. CASE ~Find(q).found /\ Find(q).id # 0
        BY <1>2, <2>2, SubscribeOther
    <2>3. CASE Find(q).id = 0
        BY <1>2, <2>3, SubscribeNew
    <2> QED BY <2>1, <2>2, <2>3
<1> QED BY <1>1, <1>2

\* A step that leaves the mount alone.
LEMMA MountRests ==
    ASSUME UNCHANGED mountVars, queryOf' = queryOf
    PROVE  /\ MountTyped' <=> MountTyped
           /\ ToldInv' <=> ToldInv
           /\ \A t \in Caller : InCall(t)' <=> InCall(t)
<1>1. /\ mountOf' = mountOf /\ subscriptions' = subscriptions /\ subscription' = subscription
      /\ calls' = calls /\ users' = users /\ told' = told /\ removed' = removed /\ misuse' = misuse
    BY DEF mountVars
<1>2. MountTyped' <=> MountTyped
    BY <1>1 DEF MountTyped
<1>3. \A t \in Caller : InCall(t)' <=> InCall(t)
    BY <1>1 DEF InCall
<1>4. OnceOK' <=> OnceOK
    BY <1>1 DEF OnceOK, OnList, Has, About
<1>5. ASSUME NEW t \in Caller
      PROVE  /\ StackOK(t)' <=> StackOK(t)
             /\ \A q \in Query : CallOK(t, q)' <=> CallOK(t, q)
             /\ \A u \in Caller : Together(t, u)' <=> Together(t, u)
    <2>1. StackOK(t)' <=> StackOK(t)
        BY <1>1 DEF StackOK, First
    <2>2. \A u \in Caller : Together(t, u)' <=> Together(t, u)
        BY <1>1 DEF Together, InCall, First, Opens
    <2>3. ASSUME NEW q \in Query PROVE CallOK(t, q)' <=> CallOK(t, q)
        BY <1>1 DEF CallOK, OpenOK, FoundOK, TellOK, InCall, First, Opens, OnList, Has, About, Unlisted,
            OneAtATime, Distinct, SubAnswer, MntAnswer, HasMountQuery, Subscribes, OnMounts, Masked, Known
    <2> QED BY <2>1, <2>2, <2>3
<1>6. ASSUME NEW i \in SubscriptionId, NEW q \in Query
      PROVE  (ListOK(i, q)' <=> ListOK(i, q)) /\ (CountOK(i, q)' <=> CountOK(i, q))
    BY <1>1 DEF ListOK, CountOK, OnList, Has, About, Known, Pending, Lent, InCall, First, Opens,
        Distinct, SubAnswer, MntAnswer, HasMountQuery, Subscribes, OnMounts, Masked, One
<1>7. ASSUME NEW q \in Query PROVE QueryOK(q)' <=> QueryOK(q)
    BY <1>1 DEF QueryOK, Unlisted, OnList, Has, About, Distinct, Moving, Opens, InCall, First, One, IsTold,
        Pending, Known, Subscribes, Masked
<1>8. ToldInv' <=> ToldInv
    BY <1>1, <1>4, <1>5, <1>6, <1>7, Zenon DEF ToldInv
<1> QED BY <1>2, <1>3, <1>8

\* The mount and the queries are fixed.
LEMMA MountIsFixed ==
    ASSUME [Next]_vars
    PROVE  mountOf' = mountOf /\ queryOf' = queryOf
<1>1. CASE UNCHANGED vars
    BY <1>1 DEF vars, mountVars, bothVars
<1>2. ASSUME NEW t \in Thread, MountGoOn(t) PROVE mountOf' = mountOf
    BY <1>2 DEF MountGoOn, Tell, CallbackSubscribes, Settle, TellUnsubscribed
<1>3. ASSUME NEW t \in Thread, Step(t) PROVE mountOf' = mountOf /\ queryOf' = queryOf
    <2>1. TellMount(t) => mountOf' = mountOf /\ queryOf' = queryOf
        BY DEF TellMount, MountSubscribe, MountUnsubscribe
    <2>2. MountTold(t) => mountOf' = mountOf /\ queryOf' = queryOf
        BY DEF MountTold, mountVars
    <2>3. UNCHANGED <<mountVars, bothVars>> => mountOf' = mountOf /\ queryOf' = queryOf
        BY DEF mountVars, bothVars
    <2>4. UNCHANGED <<subscriberVars, bothVars>> => queryOf' = queryOf
        BY DEF bothVars
    <2> QED BY <1>2, <1>3, <2>1, <2>2, <2>3, <2>4, Zenon DEF Step
<1>4. ASSUME NEW t \in Thread, GiveBack(t) PROVE mountOf' = mountOf /\ queryOf' = queryOf
    BY <1>4 DEF GiveBack, MountUnsubscribe, bothVars
<1>5. MountDestruct => mountOf' = mountOf
    BY DEF MountDestruct
<1>6. /\ UNCHANGED <<mountVars, bothVars>> => mountOf' = mountOf /\ queryOf' = queryOf
      /\ UNCHANGED <<subscriberVars, bothVars>> => queryOf' = queryOf
    BY DEF mountVars, bothVars
<1>7. CASE Next
    BY <1>3, <1>4, <1>5, <1>6, <1>7, Zenon DEF Next
<1> QED BY <1>1, <1>7

\* What a mount is told, when its users keep to what it needs.
ToldSoFar == Regular => MountTyped /\ ToldInv /\ CallsOpen

\* Every step keeps what the mount is told.
LEMMA StepKeepsTold ==
    ASSUME OrderInv, ToldSoFar, [Next]_vars
    PROVE  ToldSoFar'
<1> SUFFICES ASSUME Regular' PROVE (MountTyped /\ ToldInv /\ CallsOpen)'
    BY DEF ToldSoFar
<1>1. mountOf' = mountOf /\ queryOf' = queryOf
    BY MountIsFixed
<1>2. Regular
    BY <1>1 DEF Regular, OneSelect, OneAtATime, Subscribes, OnMounts, Masked
<1>3. MountTyped /\ ToldInv /\ CallsOpen
    BY <1>2 DEF ToldSoFar
<1>4. AlignTyped /\ Caller = Thread /\ DOMAIN pc = Thread
    BY SubscribersAssumption DEF OrderInv, AlignTyped, ThreadsTyped
<1>5. CASE UNCHANGED vars
    <2>1. UNCHANGED mountVars /\ pc' = pc /\ called' = called
        BY <1>5 DEF vars, subscriberVars, bothVars
    <2> QED BY <1>1, <1>3, <1>4, <2>1, MountRests DEF CallsOpen
<1>6. ASSUME NEW t \in Thread, SubscriberGoOn(t), UNCHANGED <<mountVars, bothVars>>
      PROVE  (MountTyped /\ ToldInv /\ CallsOpen)'
    <2>1. UNCHANGED mountVars /\ called' = called
        BY <1>6 DEF bothVars
    <2>2. MountTyped' /\ ToldInv' /\ \A u \in Caller : InCall(u)' <=> InCall(u)
        BY <1>1, <1>3, <2>1, MountRests
    <2>3. (pc' = pc \/ \E p : pc' = [pc EXCEPT ![t] = p]) /\ ~InCall(t)
        BY <1>3, <1>6, ThreadMoves, OneStack
    <2> QED BY <1>3, <1>4, <2>1, <2>2, <2>3, StaysOpen
<1>7. ASSUME NEW t \in Thread, TellMount(t)
      PROVE  (MountTyped /\ ToldInv /\ CallsOpen)'
    <2>1. PICK q : q = queryOf[Sub(t)]
        OBVIOUS
    <2>2. Sub(t) \in Subscriber
        BY <1>4, ConfigTyped
    <2>3. q \in Query /\ Known(q)
        BY <1>3, <2>1, <2>2 DEF MountTyped, Known
    <2>4. /\ t \notin called /\ called' = called \cup {t} /\ pc' = pc
          /\ pc[t] \in {"mounts", "unsubscribe"}
          /\ MountSubscribe(t, q) \/ MountUnsubscribe(t, q)
        BY <1>7, <2>1 DEF TellMount, subscriberVars
    <2>5. ~InCall(t)
        BY <1>3, <2>4 DEF CallsOpen
    <2>6. MountTyped' /\ ToldInv'
        BY <1>1, <1>2, <1>3, <1>4, <2>3, <2>4, <2>5, CallTold
    <2>7. \E s : calls' = [calls EXCEPT ![t] = s]
        BY <2>4 DEF MountSubscribe, MountUnsubscribe
    <2>8. \A u \in Thread : u # t => (InCall(u)' => InCall(u))
        BY <1>3, <1>4, <2>7 DEF MountTyped, InCall
    <2> QED BY <1>3, <1>4, <2>4, <2>6, <2>8, StaysOpen
<1>8. ASSUME NEW t \in Thread, MountTold(t)
      PROVE  (MountTyped /\ ToldInv /\ CallsOpen)'
    <2>1. /\ UNCHANGED mountVars /\ called' = called \ {t} /\ ~InCall(t)
          /\ \E p : pc' = [pc EXCEPT ![t] = p]
        BY <1>8 DEF MountTold, Goto, InCall
    <2>2. MountTyped' /\ ToldInv' /\ \A u \in Caller : InCall(u)' <=> InCall(u)
        BY <1>1, <1>3, <2>1, MountRests
    <2> QED BY <1>3, <1>4, <2>1, <2>2, StaysOpen
<1>9. ASSUME NEW t \in Thread, MountGoOn(t), UNCHANGED <<subscriberVars, bothVars>>
      PROVE  (MountTyped /\ ToldInv /\ CallsOpen)'
    <2>1. pc' = pc /\ called' = called
        BY <1>9 DEF subscriberVars, bothVars
    <2>2. MountTyped' /\ ToldInv'
        BY <1>1, <1>2, <1>3, <1>4, <1>9, GoOnTold
    <2>3. \A u \in Caller : InCall(u)' => InCall(u)
        BY <1>3, <1>4, <1>9, GoingOn
    <2> QED BY <1>3, <1>4, <2>1, <2>2, <2>3 DEF CallsOpen
<1>10. ASSUME NEW t \in Thread, calls[t] = <<>>, StartCall(t), UNCHANGED <<mountVars, bothVars>>
       PROVE  (MountTyped /\ ToldInv /\ CallsOpen)'
    <2>1. UNCHANGED mountVars /\ called' = called /\ ~InCall(t)
        BY <1>10 DEF bothVars, InCall
    <2>2. MountTyped' /\ ToldInv' /\ \A u \in Caller : InCall(u)' <=> InCall(u)
        BY <1>1, <1>3, <2>1, MountRests
    <2>3. \E p : pc' = [pc EXCEPT ![t] = p]
        BY <1>10, CallStarts
    <2> QED BY <1>3, <1>4, <2>1, <2>2, <2>3, StaysOpen
<1>11. ASSUME NEW t \in Thread, GiveBack(t)
       PROVE  (MountTyped /\ ToldInv /\ CallsOpen)'
    <2>1. PICK q \in Query : MountUnsubscribe(t, q)
        BY <1>11 DEF GiveBack
    <2>2. pc[t] = "idle" /\ ~InCall(t) /\ pc' = pc /\ called' = called
        BY <1>11 DEF GiveBack, InCall, subscriberVars, bothVars
    <2>3. MountTyped' /\ ToldInv'
        BY <1>1, <1>2, <1>3, <1>4, <2>1, <2>2, CallTold
    <2>4. \E s : calls' = [calls EXCEPT ![t] = s]
        BY <2>1 DEF MountUnsubscribe
    <2>5. \A u \in Thread : u # t => (InCall(u)' => InCall(u))
        BY <1>3, <1>4, <2>4 DEF MountTyped, InCall
    <2> QED BY <1>3, <1>4, <2>2, <2>3, <2>5, StaysOpen
<1>12. ASSUME NEW s \in Subscriber, HandleEvent(s), UNCHANGED <<mountVars, bothVars>>
       PROVE  (MountTyped /\ ToldInv /\ CallsOpen)'
    <2>1. UNCHANGED mountVars /\ called' = called /\ pc' = pc
        BY <1>12 DEF HandleEvent, bothVars
    <2> QED BY <1>1, <1>3, <1>4, <2>1, MountRests DEF CallsOpen
<1>13. ASSUME MountDestruct, UNCHANGED <<subscriberVars, bothVars>>
       PROVE  (MountTyped /\ ToldInv /\ CallsOpen)'
    <2>1. pc' = pc /\ called' = called /\ \A u \in Caller : InCall(u)' => InCall(u)
        BY <1>13 DEF MountDestruct, subscriberVars, bothVars, InCall
    <2>2. MountTyped' /\ ToldInv'
        BY <1>1, <1>3, <1>13, DestructStep
    <2> QED BY <1>3, <1>4, <2>1, <2>2 DEF CallsOpen
<1>14. ASSUME NEW t \in Thread, Step(t)
       PROVE  (MountTyped /\ ToldInv /\ CallsOpen)'
    BY <1>6, <1>7, <1>8, <1>9, <1>14, Zenon DEF Step
<1>15. CASE Next
    BY <1>10, <1>11, <1>12, <1>13, <1>14, <1>15, Zenon DEF Next
<1> QED BY <1>5, <1>15

\* Without a call, the mount is told of what its subscriptions are for, and each is counted.
LEMMA ToldIsSound ==
    ASSUME MountTyped, ToldInv
    PROVE  SubscriptionsAreSound
<1> SUFFICES ASSUME Idle, Subscribes, NEW q \in Query
             PROVE  LET wanted == ~removed /\ users[q] > 0 /\ mountOf.answer = "distinct" IN
                    /\ told[q] = One(wanted)
                    /\ Cardinality(Listed(q)) = One(wanted)
                    /\ wanted => \A i \in Listed(q) :
                          subscription[subscriptions[i]].subscriberCount = users[q]
    BY DEF SubscriptionsAreSound, SubscriptionIsAllocated, ToldInv, MountIsToldOfUsers
<1> DEFINE wanted == ~removed /\ users[q] > 0 /\ Distinct
<1>1. \A t \in Caller : ~InCall(t)
    BY DEF Idle, InCall
<1>2. ~Moving(q) /\ (\A i \in SubscriptionId : ~Pending(i) /\ ~Lent(i))
      /\ (IsTold(q) <=> ~Unlisted(q))
    BY <1>1 DEF Moving, Opens, Pending, Lent, IsTold, Unlisted
<1>3. /\ users[q] \in Nat /\ QueryOK(q) /\ OnceOK
      /\ \A i \in SubscriptionId : ListOK(i, q) /\ CountOK(i, q)
    BY DEF MountTyped, ToldInv
<1>4. wanted <=> ~Unlisted(q)
    <2>1. ASSUME wanted, Unlisted(q) PROVE FALSE
        BY <1>2, <1>3, <2>1 DEF QueryOK, One
    <2>2. ASSUME ~Unlisted(q) PROVE wanted
        BY <1>2, <1>3, <2>2 DEF Unlisted, ListOK, CountOK
    <2> QED BY <2>1, <2>2
<1>5. told[q] = One(wanted)
    BY <1>2, <1>3, <1>4 DEF QueryOK, One
<1>6. \A n \in DOMAIN subscriptions : subscriptions[n] \in SubscriptionId /\ OnList(subscriptions[n])
    BY DEF MountTyped, OnList, Has
<1>7. Cardinality(Listed(q)) = One(wanted)
    <2>1. CASE wanted
        <3>1. PICK i \in SubscriptionId : OnList(i) /\ About(i) = q
            BY <1>4, <2>1 DEF Unlisted
        <3>2. PICK n \in DOMAIN subscriptions : subscriptions[n] = i
            BY <3>1 DEF OnList, Has
        <3>3. \A m \in DOMAIN subscriptions : About(subscriptions[m]) = q => m = n
            BY <1>3, <1>6, <3>1, <3>2 DEF OnceOK
        <3>4. Listed(q) = {n}
            BY <3>1, <3>2, <3>3 DEF Listed, About
        <3> QED BY <2>1, <3>4, FS_Singleton DEF One
    <2>2. CASE ~wanted
        <3>1. Listed(q) = {}
            BY <1>4, <1>6, <2>2 DEF Listed, Unlisted, About
        <3> QED BY <2>2, <3>1, FS_EmptySet DEF One
    <2> QED BY <2>1, <2>2
<1>8. ASSUME wanted, NEW n \in Listed(q)
      PROVE  subscription[subscriptions[n]].subscriberCount = users[q]
    <2>1. PICK i \in SubscriptionId : i = subscriptions[n] /\ OnList(i) /\ About(i) = q
        BY <1>6, <1>8 DEF Listed, About
    <2>2. subscription[i].subscriberCount = users[q] + One(Lent(i))
        BY <1>3, <1>8, <2>1 DEF CountOK
    <2> QED BY <1>2, <1>3, <2>1, <2>2 DEF One
<1> QED BY <1>5, <1>7, <1>8 DEF Distinct

\* A mount whose users keep to what it needs is told of exactly the queries that have users,
\* counts them exactly, and no subscription is used after it is freed: for any threads, queries
\* and subscribers (corto_mount_subscribeOrMount, corto_mount_unsubscribeOrUnmount).
THEOREM MountSubscriptionsAreSound == Spec => [](Regular => SubscriptionsAreSound)
<1>1. Init => ToldSoFar
    <2>1. Init => CallsOpen
        BY SubscribersAssumption DEF Init, MountInit, CallsOpen, InCall
    <2> QED BY <2>1, MountStarts DEF ToldSoFar
<1>2. OrderInv /\ ToldSoFar /\ [Next]_vars => ToldSoFar'
    BY StepKeepsTold
<1>3. ToldSoFar => (Regular => SubscriptionsAreSound)
    BY ToldIsSound DEF ToldSoFar
<1> QED BY <1>1, <1>2, <1>3, SubscribersAreInOrder, PTL DEF Spec
=============================================================================
