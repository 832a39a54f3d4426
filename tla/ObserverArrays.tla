--------------------------- MODULE ObserverArrays ---------------------------
(***************************************************************************)
(* Observers, as src/vstore/observer.c implements them: a notification     *)
(* reads the array of the observers of a list without a lock, registers it *)
(* in an administration of its thread, and calls the observers; who adds   *)
(* or removes an observer replaces the array under a lock, and scans the   *)
(* administration of every thread until nobody uses the old array, which   *)
(* it then frees.  A callback may itself notify, observe and unobserve.    *)
(*                                                                         *)
(* A list stands for the onSelf or the onChild list of one observable.     *)
(* An array is a set: the order of the calls is left open.  Arrays are     *)
(* numbered in the order in which they are allocated, and a number is used *)
(* once, so that an access to freed memory is visible: it sets `fault',    *)
(* after which nothing happens.                                            *)
(***************************************************************************)
EXTENDS Integers, Sequences, FiniteSets

CONSTANTS
    Thread,     \* the threads that have a slot in observerAdmin
    List,       \* lists of observers
    Observer,   \* calls of corto_observe, each with its own observer
    Event,      \* what can be notified
    Path,       \* Path[v]: the lists that event v bubbles through
    ListsOf,    \* ListsOf[e]: where the mask of observer e puts it
    Ops, MaxOps,\* the operations of a thread and how often it calls them
    MaxArrays,  \* bound: arrays that can be allocated
    MaxDepth,   \* bound: notifications a thread has under way
    NoObserver

OpNames == {"notify", "observe", "unobserve"}

ASSUME ObserverAssumption ==
    /\ Path \in [Event -> Seq(List)]
    /\ ListsOf \in [Observer -> SUBSET List]
    /\ Ops \in [Thread -> SUBSET OpNames]
    /\ MaxOps \in [Thread -> Nat]
    /\ MaxArrays \in Nat
    /\ MaxDepth \in Nat
    /\ NoObserver \notin Observer

\* An observer is in one or two lists of one object.
ASSUME ListsAssumption == \A e \in Observer : IsFiniteSet(ListsOf[e])

VARIABLES
    on,         \* the linked list of a list, as a set of observers
    current,    \* onSelfArray or onChildArray of a list, 0 is NULL
    mem,        \* "unused", "live" or "freed", per array
    content,    \* the observers in an array
    last,       \* the array that was allocated last
    data,       \* the memory of the corto__observer of an observer
    count,      \* corto__observer.count
    object,     \* the corto_observer: "new", "observing", "leaving", "freed"
    frame,      \* frame[t][d]: the d-th nested notification of thread t
    depth,      \* how many notifications thread t has under way
    pc,         \* where each thread is
    who,        \* the observer that the thread adds or removes
    todo,       \* the lists it has yet to add it to or remove it from
    olds,       \* the arrays it replaced and has yet to wait for
    waiting,    \* the array it waits for, 0 if none
    scanned,    \* the threads it found not to use that array
    delegated,  \* it uses the array itself: freeArray is FALSE
    budget,     \* the calls it can still make
    fault       \* "none", or which freed memory was accessed first

lists == <<on, current>>
arrays == <<mem, content, last>>
observers == <<data, count, object>>
frames == <<frame, depth>>
waits == <<who, todo, olds, waiting, scanned, delegated>>
vars == <<lists, arrays, observers, frames, pc, waits, budget, fault>>

Array == 1..MaxArrays
Depth == 1..MaxDepth

Frame == [lists: Seq(List), array: 0..MaxArrays, left: SUBSET Observer,
          registered: BOOLEAN, free: BOOLEAN, late: BOOLEAN]

\* A notification that has yet to go through the lists ls.
NewFrame(ls) == [lists |-> ls, array |-> 0, left |-> {}, registered |-> FALSE,
                 free |-> FALSE, late |-> FALSE]

NoFrame == NewFrame(<<>>)

Init ==
    /\ on = [l \in List |-> {}]
    /\ current = [l \in List |-> 0]
    /\ mem = [a \in Array |-> "unused"]
    /\ content = [a \in Array |-> {}]
    /\ last = 0
    /\ data = [e \in Observer |-> "unused"]
    /\ count = [e \in Observer |-> 0]
    /\ object = [e \in Observer |-> "new"]
    /\ frame = [t \in Thread |-> [d \in Depth |-> NoFrame]]
    /\ depth = [t \in Thread |-> 0]
    /\ pc = [t \in Thread |-> "client"]
    /\ who = [t \in Thread |-> NoObserver]
    /\ todo = [t \in Thread |-> {}]
    /\ olds = [t \in Thread |-> {}]
    /\ waiting = [t \in Thread |-> 0]
    /\ scanned = [t \in Thread |-> {}]
    /\ delegated = [t \in Thread |-> FALSE]
    /\ budget = MaxOps
    /\ fault = "none"

(***************************************************************************)
(* Helpers                                                                 *)
(***************************************************************************)
Goto(t, p, q) == /\ pc[t] = p
                 /\ pc' = [pc EXCEPT ![t] = q]

\* A thread that is not in an observer function: idle, or in a callback.
Call(t, o_p, q) ==
    /\ o_p \in Ops[t]
    /\ budget[t] > 0
    /\ budget' = [budget EXCEPT ![t] = @ - 1]
    /\ Goto(t, "client", q)

\* The innermost notification of thread t.
Top(t) == frame[t][depth[t]]

\* The notifications in the slot of thread t that use array a.
Uses(t, a) == {d \in Depth : frame[t][d].registered /\ frame[t][d].array = a}

\* An array, and observers of it, are accessed.
Access(a, es) ==
    fault' = IF mem[a] # "live" THEN "array"
             ELSE IF \E e \in es : data[e] # "live" THEN "data"
             ELSE fault

\* Another thread can be changing the count of e, without an atomic operation:
\* it is in the section under the lock of a list of e.
Counting(t, e) ==
    \E u \in Thread \ {t} : /\ pc[u] \in {"add", "remove"}
                            /\ \E l \in todo[u] : e \in on[l]

\* corto_observersArrayFree by thread t: the array is freed, and so are the
\* observers whose count becomes 0.  A decrement can be lost in a data race.
FreeArray(t, a) ==
    /\ mem' = [mem EXCEPT ![a] = "freed"]
    /\ \E lost \in SUBSET {e \in content[a] : Counting(t, e)} :
          count' = [e \in Observer |->
                       IF e \in content[a] \ lost THEN count[e] - 1 ELSE count[e]]
    /\ data' = [e \in Observer |->
                    IF e \in content[a] /\ count[e] = 1 THEN "freed" ELSE data[e]]
    /\ Access(a, content[a])

\* Mutant: an array that exists is not replaced.
NewArrayOnce(l, es) ==
    /\ last < MaxArrays
    /\ last' = last + 1
    /\ mem' = [mem EXCEPT ![last + 1] = "live"]
    /\ content' = [content EXCEPT ![last + 1] = es]
    /\ current' = [current EXCEPT ![l] = IF @ = 0 THEN last + 1 ELSE @]

\* corto_observersArrayNew: a new array of the observers in es, for list l.
NewArray(l, es) ==
    /\ last < MaxArrays
    /\ last' = last + 1
    /\ mem' = [mem EXCEPT ![last + 1] = "live"]
    /\ content' = [content EXCEPT ![last + 1] = es]
    /\ current' = [current EXCEPT ![l] = last + 1]

(***************************************************************************)
(* corto_notify                                                            *)
(***************************************************************************)
Notify(t) ==
    /\ depth[t] < MaxDepth
    /\ Call(t, "notify", "list")
    /\ \E v \in Event :
          frame' = [frame EXCEPT ![t][depth[t] + 1] = NewFrame(Path[v])]
    /\ depth' = [depth EXCEPT ![t] = @ + 1]
    /\ UNCHANGED <<lists, arrays, observers, waits, fault>>

\* corto_observersPush up to the increment of sp: the array is read.
PushRead(t) ==
    /\ pc[t] = "list"
    /\ Top(t).lists # <<>>
    /\ LET a == current[Head(Top(t).lists)]
       IN IF a = 0
          THEN /\ Goto(t, "list", "list")
               /\ frame' = [frame EXCEPT ![t][depth[t]].lists = Tail(@)]
          ELSE /\ Goto(t, "list", "register")
               /\ frame' = [frame EXCEPT ![t][depth[t]].array = a]
    /\ UNCHANGED <<lists, arrays, observers, depth, waits, budget, fault>>

\* Mutant: the slot is written and sp is not incremented.
RegisterNot(t) ==
    /\ Goto(t, "register", "iterate")
    /\ frame' = [frame EXCEPT ![t][depth[t]] =
                    [Top(t) EXCEPT !.free = FALSE, !.left = content[Top(t).array]]]
    /\ UNCHANGED <<lists, arrays, observers, depth, waits, budget, fault>>

\* sp is incremented: from here on other threads see that the array is in use.
\* History: whether the array had been replaced by then.
Register(t) ==
    /\ Goto(t, "register", "iterate")
    /\ frame' = [frame EXCEPT ![t][depth[t]] =
                    [Top(t) EXCEPT !.registered = TRUE, !.free = FALSE,
                                   !.late = current[Head(Top(t).lists)] # Top(t).array,
                                   !.left = content[Top(t).array]]]
    /\ UNCHANGED <<lists, arrays, observers, depth, waits, budget, fault>>

\* The next observer of the array is read, and its callback is entered.
CallObserver(t) ==
    /\ Goto(t, "iterate", "client")
    /\ \E e \in Top(t).left :
          /\ frame' = [frame EXCEPT ![t][depth[t]].left = @ \ {e}]
          /\ IF object[e] = "freed" /\ mem[Top(t).array] = "live" /\ data[e] = "live"
             THEN fault' = "object"
             ELSE Access(Top(t).array, {e})
    /\ UNCHANGED <<lists, arrays, observers, depth, waits, budget>>

CallbackReturn(t) ==
    /\ depth[t] > 0
    /\ Goto(t, "client", "iterate")
    /\ UNCHANGED <<lists, arrays, observers, frames, waits, budget, fault>>

\* Mutant: the flag is not looked at.
PopFreesNothing(t) == FALSE

\* corto_observersPop: the thread was asked to free the array itself.
PopFrees(t) == Top(t).free

\* After the last observer of the array; the event bubbles to the next list.
Pop(t) ==
    /\ pc[t] = "iterate"
    /\ Top(t).left = {}
    /\ Goto(t, "iterate", "list")
    /\ frame' = [frame EXCEPT ![t][depth[t]] = NewFrame(Tail(Top(t).lists))]
    /\ IF PopFrees(t)
       THEN FreeArray(t, Top(t).array)
       ELSE /\ Access(Top(t).array, {})
            /\ UNCHANGED <<mem, data, count>>
    /\ UNCHANGED <<lists, content, last, object, depth, waits, budget>>

NotifyDone(t) ==
    /\ pc[t] = "list"
    /\ Top(t).lists = <<>>
    /\ Goto(t, "list", "client")
    /\ depth' = [depth EXCEPT ![t] = @ - 1]
    /\ frame' = [frame EXCEPT ![t][depth[t]] = NoFrame]
    /\ UNCHANGED <<lists, arrays, observers, waits, budget, fault>>

(***************************************************************************)
(* corto_observer_observe and corto_observer_unobserve                     *)
(***************************************************************************)
Observe(t, e) ==
    /\ object[e] = "new"
    /\ Call(t, "observe", "add")
    /\ object' = [object EXCEPT ![e] = "observing"]
    /\ data' = [data EXCEPT ![e] = "live"]
    /\ who' = [who EXCEPT ![t] = e]
    /\ todo' = [todo EXCEPT ![t] = ListsOf[e]]
    /\ UNCHANGED <<lists, arrays, count, frames, olds, waiting, scanned,
                   delegated, fault>>

\* Mutant: only the new observer is counted.
CountedOnce(l, e) == {e}

\* corto_observersCopyOut gives every observer of the new array a reference.
Counted(l, e) == on[l] \cup {e}

\* The section under the lock of the list.  The code does onSelf first, then
\* onChild; here the order of the lists is left open.
Add(t, l) ==
    /\ l \in todo[t]
    /\ Goto(t, "add", "add")
    /\ on' = [on EXCEPT ![l] = @ \cup {who[t]}]
    /\ NewArray(l, on[l] \cup {who[t]})
    /\ count' = [e \in Observer |->
                    IF e \in Counted(l, who[t]) THEN count[e] + 1 ELSE count[e]]
    /\ olds' = [olds EXCEPT ![t] = @ \cup ({current[l]} \ {0})]
    /\ todo' = [todo EXCEPT ![t] = @ \ {l}]
    /\ UNCHANGED <<data, object, frames, who, waiting, scanned, delegated, budget,
                   fault>>

\* corto_delete of an observer, by a thread that knows that it observes.
Unobserve(t, e) ==
    /\ object[e] = "observing"
    /\ \A u \in Thread : who[u] # e
    /\ Call(t, "unobserve", "remove")
    /\ object' = [object EXCEPT ![e] = "leaving"]
    /\ who' = [who EXCEPT ![t] = e]
    /\ todo' = [todo EXCEPT ![t] = ListsOf[e]]
    /\ UNCHANGED <<lists, arrays, data, count, frames, olds, waiting, scanned,
                   delegated, fault>>

\* The section under the lock of the list, in either order too.
Remove(t, l) ==
    /\ l \in todo[t]
    /\ Goto(t, "remove", "remove")
    /\ on' = [on EXCEPT ![l] = @ \ {who[t]}]
    /\ NewArray(l, on[l] \ {who[t]})
    /\ count' = [e \in Observer |->
                    CASE e = who[t] -> count[e] - 1
                      [] e \in on[l] \ {who[t]} -> count[e] + 1
                      [] OTHER -> count[e]]
    /\ fault' = IF data[who[t]] = "live" THEN fault ELSE "data"
    /\ olds' = [olds EXCEPT ![t] = @ \cup ({current[l]} \ {0})]
    /\ todo' = [todo EXCEPT ![t] = @ \ {l}]
    /\ UNCHANGED <<data, object, frames, who, waiting, scanned, delegated, budget>>

\* All lists are done: corto_observersWaitForUnused for each old array, in an
\* order that is left open as well.
Await(t) ==
    /\ pc[t] \in {"add", "remove", "scanned"}
    /\ todo[t] = {}
    /\ \E a \in olds[t] :
          /\ waiting' = [waiting EXCEPT ![t] = a]
          /\ olds' = [olds EXCEPT ![t] = @ \ {a}]
    /\ pc' = [pc EXCEPT ![t] = "scan"]
    /\ scanned' = [scanned EXCEPT ![t] = {}]
    /\ delegated' = [delegated EXCEPT ![t] = FALSE]
    /\ UNCHANGED <<lists, arrays, observers, frames, who, todo, budget, fault>>

\* Mutant: the administration of other threads is not looked at.
NeverInUse(u, a) == FALSE

\* Thread u uses array a.
InUse(u, a) == Uses(u, a) # {}

\* The slot of another thread; the pass starts again when the array is in use.
Scan(t, u) ==
    /\ u \notin scanned[t] \cup {t}
    /\ Goto(t, "scan", "scan")
    /\ scanned' = [scanned EXCEPT ![t] = IF InUse(u, waiting[t]) THEN {} ELSE @ \cup {u}]
    /\ UNCHANGED <<lists, arrays, observers, frames, who, todo, olds, waiting,
                   delegated, budget, fault>>

\* Mutant: the thread waits for itself like for any other.
ScanSelfWaits(t) ==
    /\ t \notin scanned[t]
    /\ Goto(t, "scan", "scan")
    /\ scanned' = [scanned EXCEPT ![t] = IF InUse(t, waiting[t]) THEN {} ELSE @ \cup {t}]
    /\ UNCHANGED <<lists, arrays, observers, frames, who, todo, olds, waiting,
                   delegated, budget, fault>>

\* Its own slot: the outermost notification that uses the array has to free it.
ScanSelf(t) ==
    /\ t \notin scanned[t]
    /\ Goto(t, "scan", "scan")
    /\ scanned' = [scanned EXCEPT ![t] = @ \cup {t}]
    /\ delegated' = [delegated EXCEPT ![t] = Uses(t, waiting[t]) # {}]
    /\ frame' = [frame EXCEPT ![t] = [d \in Depth |->
                    IF /\ d \in Uses(t, waiting[t])
                       /\ \A c \in Uses(t, waiting[t]) : d <= c
                    THEN [@[d] EXCEPT !.free = TRUE]
                    ELSE @[d]]]
    /\ UNCHANGED <<lists, arrays, observers, depth, who, todo, olds, waiting,
                   budget, fault>>

KeepForMe(t) == delegated[t]

ScanDone(t) ==
    /\ scanned[t] = Thread
    /\ Goto(t, "scan", "scanned")
    /\ IF KeepForMe(t)
       THEN UNCHANGED <<mem, data, count, fault>>
       ELSE FreeArray(t, waiting[t])
    /\ waiting' = [waiting EXCEPT ![t] = 0]
    /\ UNCHANGED <<lists, content, last, object, frames, who, todo, olds,
                   scanned, delegated, budget>>

\* Nothing is left to wait for.  An observer that left is released and, in
\* corto_delete, freed: its caller had the last reference.
Return(t) ==
    /\ pc[t] \in {"add", "remove", "scanned"}
    /\ todo[t] = {} /\ olds[t] = {}
    /\ pc' = [pc EXCEPT ![t] = "client"]
    /\ object' = [object EXCEPT ![who[t]] = IF @ = "leaving" THEN "freed" ELSE @]
    /\ who' = [who EXCEPT ![t] = NoObserver]
    /\ UNCHANGED <<lists, arrays, data, count, frames, todo, olds, waiting, scanned,
                   delegated, budget, fault>>

(***************************************************************************)
(* The specification                                                       *)
(***************************************************************************)
Step(t) ==
    \/ PushRead(t) \/ Register(t) \/ CallObserver(t) \/ CallbackReturn(t)
    \/ Pop(t) \/ NotifyDone(t)
    \/ \E l \in List : Add(t, l) \/ Remove(t, l)
    \/ Await(t) \/ ScanSelf(t) \/ ScanDone(t) \/ Return(t)
    \/ \E u \in Thread : Scan(t, u)

Start(t) == \/ Notify(t)
            \/ \E e \in Observer : Observe(t, e) \/ Unobserve(t, e)

Next == /\ fault = "none"
        /\ \E t \in Thread : Step(t) \/ Start(t)

Spec == Init /\ [][Next]_vars

\* A thread that is inside a function of this module, or in a callback, goes on.
FairSpec == Spec /\ \A t \in Thread : WF_vars(fault = "none" /\ Step(t))

(***************************************************************************)
(* Type invariant                                                          *)
(***************************************************************************)
Typed ==
    /\ on \in [List -> SUBSET Observer]
    /\ current \in [List -> 0..MaxArrays]
    /\ mem \in [Array -> {"unused", "live", "freed"}]
    /\ content \in [Array -> SUBSET Observer]
    /\ last \in 0..MaxArrays
    /\ data \in [Observer -> {"unused", "live", "freed"}]
    /\ count \in [Observer -> Int]
    /\ object \in [Observer -> {"new", "observing", "leaving", "freed"}]
    /\ frame \in [Thread -> [Depth -> Frame]]
    /\ depth \in [Thread -> 0..MaxDepth]
    /\ pc \in [Thread -> {"client", "list", "register", "iterate", "add", "remove",
                          "scan", "scanned"}]
    /\ who \in [Thread -> Observer \cup {NoObserver}]
    /\ todo \in [Thread -> SUBSET List]
    /\ olds \in [Thread -> SUBSET Array]
    /\ waiting \in [Thread -> 0..MaxArrays]
    /\ scanned \in [Thread -> SUBSET Thread]
    /\ delegated \in [Thread -> BOOLEAN]
    /\ budget \in [Thread -> Nat]
    /\ fault \in {"none", "array", "data", "object"}

\* A callback runs in a notification that is registered, and a thread that has
\* replaced an array waits for it before it goes on.
ThreadOK(t) ==
    /\ waiting[t] # 0 <=> pc[t] = "scan"
    /\ pc[t] \in {"list", "register", "iterate"} => depth[t] > 0
    /\ \A d \in Depth :
          /\ d > depth[t] => frame[t][d] = NoFrame
          /\ frame[t][d].registered <=>
                d < depth[t] \/ (d = depth[t] /\ pc[t] \notin {"list", "register"})
          /\ frame[t][d].registered => frame[t][d].array # 0 /\ frame[t][d].lists # <<>>
    /\ pc[t] = "register" => Top(t).array # 0 /\ Top(t).lists # <<>>

WellFormed == \A t \in Thread : ThreadOK(t)

TypeOK == Typed /\ WellFormed

(***************************************************************************)
(* Properties                                                              *)
(***************************************************************************)
\* Who has to free array a, or to replace it: the list whose array it is, the
\* thread that replaced it, or the notification that was asked to free it.
Owners(a) ==
    {<<"list", l>> : l \in {k \in List : current[k] = a}}
    \cup {<<"replaced", t>> : t \in {u \in Thread : a \in olds[u]}}
    \cup {<<"waiting", t>> : t \in {u \in Thread : waiting[u] = a /\ ~delegated[u]}}
    \cup {<<"notification", x[1], x[2]>> :
              x \in {y \in Thread \X Depth : /\ y[2] \in Uses(y[1], a)
                                            /\ frame[y[1]][y[2]].free}}

\* No array is lost and none is freed twice: an array that is allocated has one
\* owner, one that is not has none.
OneOwner ==
    \A a \in Array : IF mem[a] = "live" THEN \E x \in Owners(a) : Owners(a) = {x}
                                    ELSE Owners(a) = {}

\* An array that was registered before it was replaced is not freed as long as
\* a notification uses it: the scan of the administrations finds it.
RegisteredIsAllocated ==
    \A t \in Thread, d \in Depth :
        frame[t][d].registered /\ ~frame[t][d].late => mem[frame[t][d].array] = "live"

\* The count of an observer is never lower than the arrays that it is in and
\* that are still to be freed, less one for each list it was removed from.
CountCoversArrays ==
    \A e \in Observer :
        data[e] # "unused" /\ (\A t \in Thread : who[t] # e) =>
            count[e] >= Cardinality({a \in Array : mem[a] = "live" /\ e \in content[a]})
                        - (IF object[e] = "observing" THEN 0 ELSE Cardinality(ListsOf[e]))

\* Arrays and observers are given back by the one who has to do it: no list is
\* lost, freed twice, or refers to an observer that is counted out too early.
ListsAreCounted == OneOwner /\ CountCoversArrays

\* With one list, no two threads wait for each other: who waits for an array
\* that a thread uses which itself waits, waits for an older array.
WaitsAreOrdered ==
    \A t, u \in Thread :
        /\ t # u
        /\ waiting[t] # 0 /\ waiting[u] # 0
        /\ Uses(u, waiting[t]) # {}
        => waiting[t] < waiting[u]

\* A call of observe or unobserve returns.
ObserveReturns ==
    \A t \in Thread :
        (pc[t] \in {"add", "remove"}) ~> (who[t] = NoObserver \/ fault # "none")

\* An array that was replaced is freed in the end.
ReplacedIsFreed ==
    \A a \in Array :
        (mem[a] = "live" /\ \A l \in List : current[l] # a)
            ~> (mem[a] = "freed" \/ fault # "none")

=============================================================================
