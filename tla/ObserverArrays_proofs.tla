----------------------- MODULE ObserverArrays_proofs -----------------------
(***************************************************************************)
(* Proofs about ObserverArrays, for any number of threads, lists, events,  *)
(* observers and arrays: type correctness; an array which was registered   *)
(* before it was replaced is not freed while it is used; an array is freed *)
(* by exactly one, and no observer is counted out too early; threads which *)
(* wait for each other's notifications never wait in a circle when there   *)
(* is one list.                                                            *)
(***************************************************************************)
EXTENDS ObserverArrays, FiniteSetTheorems, WellFoundedInduction, TLAPS

(***************************************************************************)
(* Frames                                                                  *)
(***************************************************************************)
\* An update of one notification of one thread leaves the others as they are.
LEMMA FrameUpdate ==
    ASSUME frame \in [Thread -> [Depth -> Frame]],
           NEW t \in Thread, NEW n \in Depth, NEW f \in Frame,
           frame' = [frame EXCEPT ![t][n] = f]
    PROVE  /\ frame' \in [Thread -> [Depth -> Frame]]
           /\ \A u \in Thread, d \in Depth :
                 frame'[u][d] = IF u = t /\ d = n THEN f ELSE frame[u][d]
OBVIOUS

\* The frame of a notification that starts is a frame.
LEMMA NewFrameType ==
    ASSUME NEW ls \in Seq(List)
    PROVE  NewFrame(ls) \in Frame
BY ObserverAssumption DEF NewFrame, Frame

\* The innermost notification of a thread that has one is a frame.
LEMMA TopType ==
    ASSUME TypeOK, NEW t \in Thread, depth[t] > 0
    PROVE  depth[t] \in Depth /\ Top(t) \in Frame
BY ObserverAssumption DEF TypeOK, Typed, Depth, Top

\* What is known of a thread depends on its own state only.
LEMMA OtherThreadOK ==
    ASSUME NEW u \in Thread, ThreadOK(u),
           waiting'[u] = waiting[u], pc'[u] = pc[u], depth'[u] = depth[u],
           \A d \in Depth : frame'[u][d] = frame[u][d],
           depth[u] \in Nat, depth[u] <= MaxDepth
    PROVE  ThreadOK(u)'
<1>1. depth[u] > 0 => depth[u] \in Depth
    BY ObserverAssumption DEF Depth
<1> QED BY <1>1 DEF ThreadOK, Top, Depth

\* What has to be known of a thread whose innermost notification changes.
LEMMA TopChangeOK ==
    ASSUME NEW t \in Thread, ThreadOK(t), NEW f,
           depth[t] \in Depth, depth'[t] = depth[t],
           \A d \in Depth : frame'[t][d] = IF d = depth[t] THEN f ELSE frame[t][d],
           f.registered <=> pc'[t] \notin {"list", "register"},
           f.registered \/ pc'[t] = "register" => f.array # 0 /\ f.lists # <<>>,
           waiting'[t] # 0 <=> pc'[t] = "scan"
    PROVE  ThreadOK(t)'
<1>1. /\ Top(t)' = f
      /\ depth[t] > 0
    BY ObserverAssumption DEF Top, Depth
<1>2. ASSUME NEW d \in Depth
      PROVE  /\ d > depth[t] => frame'[t][d] = NoFrame
             /\ frame'[t][d].registered <=>
                   d < depth[t] \/ (d = depth[t] /\ pc'[t] \notin {"list", "register"})
             /\ frame'[t][d].registered =>
                   frame'[t][d].array # 0 /\ frame'[t][d].lists # <<>>
  <2>1. CASE d = depth[t]
      BY <2>1, ObserverAssumption DEF Depth
  <2>2. CASE d # depth[t]
      BY <2>2, ObserverAssumption DEF Depth, ThreadOK
  <2> QED BY <2>1, <2>2
<1> QED BY <1>1, <1>2 DEF ThreadOK

(***************************************************************************)
(* Type correctness                                                        *)
(***************************************************************************)
\* The initial states are typed.
LEMMA TypeInit == Init => TypeOK
<1> SUFFICES ASSUME Init PROVE Typed /\ WellFormed
    BY DEF TypeOK
<1>1. NoFrame \in Frame
  <2>1. <<>> \in Seq(List)
      OBVIOUS
  <2> QED BY <2>1, NewFrameType DEF NoFrame
<1>2. Typed
    BY <1>1, ObserverAssumption DEF Init, Typed, Depth, Array
<1>3. WellFormed
    BY ObserverAssumption DEF Init, WellFormed, ThreadOK, NoFrame, NewFrame, Depth, Top
<1> QED BY <1>2, <1>3

\* A notification starts in a new frame.
LEMMA NotifyType ==
    ASSUME TypeOK, NEW t \in Thread, Notify(t)
    PROVE  TypeOK'
<1> DEFINE n == depth[t] + 1
<1>1. PICK v \in Event : frame' = [frame EXCEPT ![t][n] = NewFrame(Path[v])]
    BY DEF Notify
<1> DEFINE f == NewFrame(Path[v])
<1>2. n \in Depth
    BY ObserverAssumption DEF Notify, TypeOK, Typed, Depth
<1>3. f \in Frame /\ ~f.registered
    BY ObserverAssumption, NewFrameType DEF NewFrame
<1>4. /\ frame' \in [Thread -> [Depth -> Frame]]
      /\ \A u \in Thread, d \in Depth :
            frame'[u][d] = IF u = t /\ d = n THEN f ELSE frame[u][d]
    BY <1>1, <1>2, <1>3, FrameUpdate DEF TypeOK, Typed
<1>5. Typed'
    BY <1>2, <1>4, ObserverAssumption, SMTT(30)
    DEF TypeOK, Notify, Call, Goto, Typed, lists, arrays, observers, waits, Depth
<1> HIDE DEF f
<1>6. ThreadOK(t)'
    BY <1>2, <1>3, <1>4, ObserverAssumption, SMTT(30)
    DEF TypeOK, Notify, Call, Goto, Typed, WellFormed, ThreadOK, waits, Top, Depth
<1>7. ASSUME NEW u \in Thread, u # t PROVE ThreadOK(u)'
    BY <1>4, <1>7, OtherThreadOK
    DEF TypeOK, Notify, Call, Goto, Typed, WellFormed, waits
<1> QED BY <1>5, <1>6, <1>7 DEF TypeOK, WellFormed

\* The array of a list is read, or the list is passed over.
LEMMA PushReadType ==
    ASSUME TypeOK, NEW t \in Thread, PushRead(t)
    PROVE  TypeOK'
<1> DEFINE n == depth[t]
<1>1. depth[t] > 0
    BY DEF PushRead, TypeOK, WellFormed, ThreadOK
<1>2. n \in Depth /\ Top(t) \in Frame
    BY <1>1, TopType
<1>3. Top(t).lists \in Seq(List) /\ Top(t).lists # <<>>
    BY <1>2 DEF PushRead, Frame
<1>4. Head(Top(t).lists) \in List /\ Tail(Top(t).lists) \in Seq(List)
    BY <1>3
<1> DEFINE a == current[Head(Top(t).lists)]
<1>5. a \in 0..MaxArrays
    BY <1>4 DEF TypeOK, Typed
<1> DEFINE f == IF a = 0 THEN [Top(t) EXCEPT !.lists = Tail(@)]
                         ELSE [Top(t) EXCEPT !.array = a]
<1>6. /\ f \in Frame /\ f.registered = Top(t).registered
      /\ a # 0 => f.array = a /\ f.lists = Top(t).lists
    BY <1>2, <1>4, <1>5 DEF Frame
<1>7. frame' = [frame EXCEPT ![t][n] = f]
    BY DEF PushRead, Top
<1>8. pc' = [pc EXCEPT ![t] = IF a = 0 THEN "list" ELSE "register"]
    BY DEF PushRead, Goto
<1>9. UNCHANGED <<lists, arrays, observers, depth, waits, budget, fault>> /\ pc[t] = "list"
    BY DEF PushRead
<1> HIDE DEF f, a
<1>10. /\ frame' \in [Thread -> [Depth -> Frame]]
       /\ \A u \in Thread, d \in Depth :
             frame'[u][d] = IF u = t /\ d = n THEN f ELSE frame[u][d]
    BY <1>2, <1>6, <1>7, FrameUpdate DEF TypeOK, Typed
<1>11. Typed'
    BY <1>8, <1>9, <1>10 DEF TypeOK, Typed, lists, arrays, observers, waits
<1>12. ThreadOK(t)'
  <2>1. ~Top(t).registered /\ waiting[t] = 0
      BY <1>2, <1>9, ObserverAssumption DEF TypeOK, Typed, WellFormed, ThreadOK, Top, Depth
  <2>2. pc'[t] = IF a = 0 THEN "list" ELSE "register"
      BY <1>8 DEF TypeOK, Typed
  <2> QED BY <1>2, <1>3, <1>6, <1>9, <1>10, <2>1, <2>2, TopChangeOK
          DEF TypeOK, Typed, WellFormed, waits
<1>13. ASSUME NEW u \in Thread, u # t PROVE ThreadOK(u)'
    BY <1>8, <1>9, <1>10, <1>13, OtherThreadOK DEF TypeOK, Typed, WellFormed, waits
<1> QED BY <1>11, <1>12, <1>13 DEF TypeOK, WellFormed

\* sp is incremented.
LEMMA RegisterType ==
    ASSUME TypeOK, NEW t \in Thread, Register(t)
    PROVE  TypeOK'
<1>1. depth[t] \in Depth /\ Top(t) \in Frame
    BY TopType DEF Register, Goto, TypeOK, WellFormed, ThreadOK
<1> DEFINE f == [Top(t) EXCEPT !.registered = TRUE, !.free = FALSE,
                               !.late = current[Head(Top(t).lists)] # Top(t).array,
                               !.left = content[Top(t).array]]
<1>2. /\ Top(t).array # 0 /\ Top(t).lists # <<>> /\ waiting[t] = 0
      /\ content[Top(t).array] \in SUBSET Observer
    BY <1>1, ObserverAssumption
    DEF Register, Goto, TypeOK, Typed, WellFormed, ThreadOK, Frame, Array
<1>3. f \in Frame /\ f.registered /\ f.array = Top(t).array /\ f.lists = Top(t).lists
    BY <1>1, <1>2 DEF Frame
<1>4. /\ frame' = [frame EXCEPT ![t][depth[t]] = f]
      /\ pc[t] = "register" /\ pc' = [pc EXCEPT ![t] = "iterate"]
      /\ UNCHANGED <<lists, arrays, observers, depth, waits, budget, fault>>
    BY DEF Register, Goto
<1> HIDE DEF f
<1>5. /\ frame' \in [Thread -> [Depth -> Frame]]
      /\ \A u \in Thread, d \in Depth :
            frame'[u][d] = IF u = t /\ d = depth[t] THEN f ELSE frame[u][d]
    BY <1>1, <1>3, <1>4, FrameUpdate DEF TypeOK, Typed
<1>6. Typed'
    BY <1>4, <1>5 DEF TypeOK, Typed, lists, arrays, observers, waits
<1>7. ThreadOK(t)'
  <2>1. pc'[t] = "iterate"
      BY <1>4 DEF TypeOK, Typed
  <2> QED BY <1>1, <1>2, <1>3, <1>4, <1>5, <2>1, TopChangeOK
          DEF TypeOK, WellFormed, waits
<1>8. ASSUME NEW u \in Thread, u # t PROVE ThreadOK(u)'
    BY <1>4, <1>5, <1>8, OtherThreadOK DEF TypeOK, Typed, WellFormed, waits
<1> QED BY <1>6, <1>7, <1>8 DEF TypeOK, WellFormed

\* Freeing an array is typed.
LEMMA FreeArrayType ==
    ASSUME Typed, NEW t, NEW a, FreeArray(t, a)
    PROVE  /\ mem' \in [Array -> {"unused", "live", "freed"}]
           /\ data' \in [Observer -> {"unused", "live", "freed"}]
           /\ count' \in [Observer -> Int]
           /\ fault' \in {"none", "array", "data", "object"}
<1>1. PICK lost \in SUBSET {e \in content[a] : Counting(t, e)} :
         count' = [e \in Observer |->
                      IF e \in content[a] \ lost THEN count[e] - 1 ELSE count[e]]
    BY DEF FreeArray
<1>2. count' \in [Observer -> Int]
    BY <1>1 DEF Typed
<1>3. mem' \in [Array -> {"unused", "live", "freed"}]
    BY DEF FreeArray, Typed
<1>4. data' \in [Observer -> {"unused", "live", "freed"}]
    BY DEF FreeArray, Typed
<1>5. fault' \in {"none", "array", "data", "object"}
    BY DEF FreeArray, Access, Typed
<1> QED BY <1>2, <1>3, <1>4, <1>5

\* The next observer of the array is called.
LEMMA CallObserverType ==
    ASSUME TypeOK, NEW t \in Thread, CallObserver(t)
    PROVE  TypeOK'
<1>1. depth[t] \in Depth /\ Top(t) \in Frame
    BY TopType DEF CallObserver, Goto, TypeOK, WellFormed, ThreadOK
<1>2. PICK e \in Top(t).left : frame' = [frame EXCEPT ![t][depth[t]].left = @ \ {e}]
    BY DEF CallObserver
<1> DEFINE f == [Top(t) EXCEPT !.left = @ \ {e}]
<1>3. /\ f \in Frame /\ f.registered = Top(t).registered
      /\ f.array = Top(t).array /\ f.lists = Top(t).lists
    BY <1>1 DEF Frame
<1>4. /\ frame' = [frame EXCEPT ![t][depth[t]] = f]
      /\ pc[t] = "iterate" /\ pc' = [pc EXCEPT ![t] = "client"]
      /\ UNCHANGED <<lists, arrays, observers, depth, waits, budget>>
    BY <1>2 DEF CallObserver, Goto, Top
<1> HIDE DEF f
<1>5. /\ frame' \in [Thread -> [Depth -> Frame]]
      /\ \A u \in Thread, d \in Depth :
            frame'[u][d] = IF u = t /\ d = depth[t] THEN f ELSE frame[u][d]
    BY <1>1, <1>3, <1>4, FrameUpdate DEF TypeOK, Typed
<1>6. Typed'
  <2>1. fault' \in {"none", "array", "data", "object"}
      BY DEF CallObserver, Access, TypeOK, Typed
  <2> QED BY <1>4, <1>5, <2>1 DEF TypeOK, Typed, lists, arrays, observers, waits
<1>7. ThreadOK(t)'
  <2>1. pc'[t] = "client"
      BY <1>4 DEF TypeOK, Typed
  <2>2. /\ Top(t).registered /\ Top(t).array # 0 /\ Top(t).lists # <<>>
        /\ waiting[t] = 0
      BY <1>1, <1>4, ObserverAssumption
      DEF TypeOK, Typed, WellFormed, ThreadOK, Top, Depth
  <2> QED BY <1>1, <1>3, <1>4, <1>5, <2>1, <2>2, TopChangeOK
          DEF TypeOK, WellFormed, waits
<1>8. ASSUME NEW u \in Thread, u # t PROVE ThreadOK(u)'
    BY <1>4, <1>5, <1>8, OtherThreadOK DEF TypeOK, Typed, WellFormed, waits
<1> QED BY <1>6, <1>7, <1>8 DEF TypeOK, WellFormed

\* A callback returns.
LEMMA CallbackReturnType ==
    ASSUME TypeOK, NEW t \in Thread, CallbackReturn(t)
    PROVE  TypeOK'
<1>1. Typed'
    BY DEF CallbackReturn, Goto, TypeOK, Typed, lists, arrays, observers, frames, waits
<1>2. ThreadOK(t)'
  <2>1. /\ pc[t] = "client" /\ pc'[t] = "iterate" /\ depth[t] > 0
        /\ UNCHANGED <<frame, depth, waiting>>
      BY DEF CallbackReturn, Goto, TypeOK, Typed, frames, waits
  <2> QED BY <2>1 DEF TypeOK, WellFormed, ThreadOK, Top
<1>3. ASSUME NEW u \in Thread, u # t PROVE ThreadOK(u)'
    BY <1>3, OtherThreadOK DEF CallbackReturn, Goto, TypeOK, Typed, WellFormed, frames, waits
<1> QED BY <1>1, <1>2, <1>3 DEF TypeOK, WellFormed

\* The last observer of the array was called.
LEMMA PopType ==
    ASSUME TypeOK, NEW t \in Thread, Pop(t)
    PROVE  TypeOK'
<1>1. depth[t] \in Depth /\ Top(t) \in Frame
    BY TopType DEF Pop, Goto, TypeOK, WellFormed, ThreadOK
<1>2. Top(t).registered /\ Top(t).array # 0 /\ Top(t).lists # <<>> /\ waiting[t] = 0
    BY <1>1, ObserverAssumption
    DEF Pop, TypeOK, Typed, WellFormed, ThreadOK, Top, Depth
<1>3. Tail(Top(t).lists) \in Seq(List)
    BY <1>1, <1>2 DEF Frame
<1> DEFINE f == NewFrame(Tail(Top(t).lists))
<1>4. f \in Frame /\ ~f.registered
    BY <1>3, NewFrameType DEF NewFrame
<1>5. /\ frame' = [frame EXCEPT ![t][depth[t]] = f]
      /\ pc[t] = "iterate" /\ pc' = [pc EXCEPT ![t] = "list"]
      /\ UNCHANGED <<lists, content, last, object, depth, waits, budget>>
    BY DEF Pop, Goto
<1> HIDE DEF f
<1>6. /\ frame' \in [Thread -> [Depth -> Frame]]
      /\ \A u \in Thread, d \in Depth :
            frame'[u][d] = IF u = t /\ d = depth[t] THEN f ELSE frame[u][d]
    BY <1>1, <1>4, <1>5, FrameUpdate DEF TypeOK, Typed
<1>7. Typed'
  <2>1. /\ mem' \in [Array -> {"unused", "live", "freed"}]
        /\ data' \in [Observer -> {"unused", "live", "freed"}]
        /\ count' \in [Observer -> Int]
        /\ fault' \in {"none", "array", "data", "object"}
    <3>1. CASE PopFrees(t)
        BY <3>1, FreeArrayType DEF Pop, TypeOK
    <3>2. CASE ~PopFrees(t)
        BY <3>2 DEF Pop, Access, TypeOK, Typed
    <3> QED BY <3>1, <3>2
  <2> QED BY <1>5, <1>6, <2>1 DEF TypeOK, Typed, lists, waits
<1>8. ThreadOK(t)'
  <2>1. pc'[t] = "list"
      BY <1>5 DEF TypeOK, Typed
  <2> QED BY <1>1, <1>2, <1>4, <1>5, <1>6, <2>1, TopChangeOK
          DEF TypeOK, WellFormed, waits
<1>9. ASSUME NEW u \in Thread, u # t PROVE ThreadOK(u)'
    BY <1>5, <1>6, <1>9, OtherThreadOK DEF TypeOK, Typed, WellFormed, waits
<1> QED BY <1>7, <1>8, <1>9 DEF TypeOK, WellFormed

\* The event has gone through all lists.
LEMMA NotifyDoneType ==
    ASSUME TypeOK, NEW t \in Thread, NotifyDone(t)
    PROVE  TypeOK'
<1>1. depth[t] \in Depth /\ depth[t] \in 1..MaxDepth /\ waiting[t] = 0
    BY TopType DEF NotifyDone, TypeOK, WellFormed, ThreadOK, Depth
<1>2. NoFrame \in Frame /\ ~NoFrame.registered
  <2>1. <<>> \in Seq(List)
      OBVIOUS
  <2> QED BY <2>1, NewFrameType DEF NoFrame, NewFrame
<1>3. /\ frame' = [frame EXCEPT ![t][depth[t]] = NoFrame]
      /\ pc[t] = "list" /\ pc' = [pc EXCEPT ![t] = "client"]
      /\ depth' = [depth EXCEPT ![t] = @ - 1]
      /\ UNCHANGED <<lists, arrays, observers, waits, budget, fault>>
    BY DEF NotifyDone, Goto
<1>4. /\ frame' \in [Thread -> [Depth -> Frame]]
      /\ \A u \in Thread, d \in Depth :
            frame'[u][d] = IF u = t /\ d = depth[t] THEN NoFrame ELSE frame[u][d]
    BY <1>1, <1>2, <1>3, FrameUpdate DEF TypeOK, Typed
<1>5. depth[t] - 1 \in 0..MaxDepth
    BY <1>1, ObserverAssumption
<1>6. Typed'
    BY <1>3, <1>4, <1>5 DEF TypeOK, Typed, lists, arrays, observers, waits
<1>7. ThreadOK(t)'
  <2>1. pc'[t] = "client" /\ depth'[t] = depth[t] - 1 /\ waiting'[t] = 0
      BY <1>1, <1>3 DEF TypeOK, Typed, waits
  <2>2. ASSUME NEW d \in Depth
        PROVE  /\ d > depth'[t] => frame'[t][d] = NoFrame
               /\ frame'[t][d].registered <=> d <= depth'[t]
               /\ frame'[t][d].registered =>
                     frame'[t][d].array # 0 /\ frame'[t][d].lists # <<>>
    <3>1. CASE d = depth[t]
        BY <1>1, <1>2, <1>4, <2>1, <3>1, ObserverAssumption DEF Depth
    <3>2. CASE d # depth[t]
      <4>1. frame'[t][d] = frame[t][d]
          BY <1>4, <3>2
      <4>2. /\ d > depth[t] => frame[t][d] = NoFrame
            /\ frame[t][d].registered <=> d < depth[t]
            /\ frame[t][d].registered => frame[t][d].array # 0 /\ frame[t][d].lists # <<>>
          BY <1>3, <3>2 DEF TypeOK, WellFormed, ThreadOK
      <4>3. /\ d > depth'[t] <=> d > depth[t]
            /\ d <= depth'[t] <=> d < depth[t]
          BY <1>1, <2>1, <3>2, ObserverAssumption DEF Depth
      <4> QED BY <4>1, <4>2, <4>3
    <3> QED BY <3>1, <3>2
  <2> QED BY <1>5, <2>1, <2>2, ObserverAssumption DEF ThreadOK, Depth
<1>8. ASSUME NEW u \in Thread, u # t PROVE ThreadOK(u)'
    BY <1>3, <1>4, <1>8, OtherThreadOK DEF TypeOK, Typed, WellFormed, waits
<1> QED BY <1>6, <1>7, <1>8 DEF TypeOK, WellFormed

\* A step of thread t that leaves the notifications as they are keeps what is
\* known of every thread.
LEMMA SameFramesOK ==
    ASSUME TypeOK, NEW t \in Thread, NEW p, UNCHANGED frames,
           pc' = [pc EXCEPT ![t] = p],
           \A u \in Thread : u # t => waiting'[u] = waiting[u],
           pc[t] \notin {"list", "register"}, p \notin {"list", "register", "iterate"},
           waiting'[t] # 0 <=> p = "scan"
    PROVE  WellFormed'
<1>1. pc'[t] = p
    BY DEF TypeOK, Typed
<1>2. ThreadOK(t)'
    BY <1>1 DEF TypeOK, WellFormed, ThreadOK, frames, Top
<1>3. ASSUME NEW u \in Thread, u # t PROVE ThreadOK(u)'
    BY <1>3, OtherThreadOK DEF TypeOK, Typed, WellFormed, frames
<1> QED BY <1>2, <1>3 DEF WellFormed

\* An observer is made.
LEMMA ObserveType ==
    ASSUME TypeOK, NEW t \in Thread, NEW e \in Observer, Observe(t, e)
    PROVE  TypeOK'
<1>1. ListsOf[e] \in SUBSET List
    BY ObserverAssumption
<1>2. Typed'
    BY <1>1 DEF Observe, Call, Goto, TypeOK, Typed, lists, arrays, frames
<1>3. waiting[t] = 0 /\ pc[t] = "client"
    BY DEF Observe, Call, Goto, TypeOK, WellFormed, ThreadOK
<1>4. WellFormed'
    BY <1>3, SameFramesOK DEF Observe, Call, Goto
<1> QED BY <1>2, <1>4 DEF TypeOK

\* An observer leaves.
LEMMA UnobserveType ==
    ASSUME TypeOK, NEW t \in Thread, NEW e \in Observer, Unobserve(t, e)
    PROVE  TypeOK'
<1>1. ListsOf[e] \in SUBSET List
    BY ObserverAssumption
<1>2. Typed'
    BY <1>1 DEF Unobserve, Call, Goto, TypeOK, Typed, lists, arrays, frames
<1>3. waiting[t] = 0 /\ pc[t] = "client"
    BY DEF Unobserve, Call, Goto, TypeOK, WellFormed, ThreadOK
<1>4. WellFormed'
    BY <1>3, SameFramesOK DEF Unobserve, Call, Goto
<1> QED BY <1>2, <1>4 DEF TypeOK

\* The new array of a list, and what the list refers to, are typed.
LEMMA NewArrayType ==
    ASSUME Typed, NEW l \in List, NEW es \in SUBSET Observer, NewArray(l, es)
    PROVE  /\ mem' \in [Array -> {"unused", "live", "freed"}]
           /\ content' \in [Array -> SUBSET Observer]
           /\ current' \in [List -> 0..MaxArrays]
           /\ last' \in 0..MaxArrays
<1>1. last + 1 \in 1..MaxArrays /\ last + 1 \in 0..MaxArrays
    BY ObserverAssumption DEF NewArray, Typed
<1> QED BY <1>1 DEF NewArray, Typed, Array

\* The observer is added to a list.
LEMMA AddType ==
    ASSUME TypeOK, NEW t \in Thread, NEW l \in List, Add(t, l), who[t] \in Observer
    PROVE  TypeOK'
<1>1. /\ mem' \in [Array -> {"unused", "live", "freed"}]
      /\ content' \in [Array -> SUBSET Observer]
      /\ current' \in [List -> 0..MaxArrays]
      /\ last' \in 0..MaxArrays
  <2>1. on[l] \cup {who[t]} \in SUBSET Observer
      BY DEF TypeOK, Typed
  <2> QED BY <2>1, NewArrayType DEF Add, TypeOK
<1>2. on' \in [List -> SUBSET Observer]
    BY DEF Add, TypeOK, Typed
<1>3. count' \in [Observer -> Int]
    BY DEF Add, TypeOK, Typed
<1>4. olds' \in [Thread -> SUBSET Array]
  <2>1. {current[l]} \ {0} \in SUBSET Array
      BY ObserverAssumption DEF TypeOK, Typed, Array
  <2> QED BY <2>1 DEF Add, TypeOK, Typed
<1>5. todo' \in [Thread -> SUBSET List] /\ pc' = [pc EXCEPT ![t] = "add"]
    BY DEF Add, Goto, TypeOK, Typed
<1>6. Typed'
    BY <1>1, <1>2, <1>3, <1>4, <1>5 DEF Add, TypeOK, Typed, frames
<1>7. WellFormed'
  <2>1. waiting[t] = 0 /\ pc[t] = "add"
      BY DEF Add, Goto, TypeOK, WellFormed, ThreadOK
  <2> QED BY <2>1, <1>5, SameFramesOK DEF Add
<1> QED BY <1>6, <1>7 DEF TypeOK

\* The observer is removed from a list.
LEMMA RemoveType ==
    ASSUME TypeOK, NEW t \in Thread, NEW l \in List, Remove(t, l)
    PROVE  TypeOK'
<1>1. /\ mem' \in [Array -> {"unused", "live", "freed"}]
      /\ content' \in [Array -> SUBSET Observer]
      /\ current' \in [List -> 0..MaxArrays]
      /\ last' \in 0..MaxArrays
  <2>1. on[l] \ {who[t]} \in SUBSET Observer
      BY DEF TypeOK, Typed
  <2> QED BY <2>1, NewArrayType DEF Remove, TypeOK
<1>2. on' \in [List -> SUBSET Observer]
    BY DEF Remove, TypeOK, Typed
<1>3. count' \in [Observer -> Int] /\ fault' \in {"none", "array", "data", "object"}
    BY DEF Remove, TypeOK, Typed
<1>4. olds' \in [Thread -> SUBSET Array]
  <2>1. {current[l]} \ {0} \in SUBSET Array
      BY ObserverAssumption DEF TypeOK, Typed, Array
  <2> QED BY <2>1 DEF Remove, TypeOK, Typed
<1>5. todo' \in [Thread -> SUBSET List] /\ pc' = [pc EXCEPT ![t] = "remove"]
    BY DEF Remove, Goto, TypeOK, Typed
<1>6. Typed'
    BY <1>1, <1>2, <1>3, <1>4, <1>5 DEF Remove, TypeOK, Typed, frames
<1>7. WellFormed'
  <2>1. waiting[t] = 0 /\ pc[t] = "remove"
      BY DEF Remove, Goto, TypeOK, WellFormed, ThreadOK
  <2> QED BY <2>1, <1>5, SameFramesOK DEF Remove
<1> QED BY <1>6, <1>7 DEF TypeOK

\* The thread starts to wait for an array that it replaced.
LEMMA AwaitType ==
    ASSUME TypeOK, NEW t \in Thread, Await(t)
    PROVE  TypeOK'
<1>1. PICK a \in olds[t] : /\ waiting' = [waiting EXCEPT ![t] = a]
                           /\ olds' = [olds EXCEPT ![t] = @ \ {a}]
    BY DEF Await
<1>2. a \in 1..MaxArrays
    BY <1>1 DEF TypeOK, Typed, Array
<1>3. a \in 0..MaxArrays /\ a # 0
    BY <1>2, ObserverAssumption
<1>4. Typed'
    BY <1>1, <1>3 DEF Await, TypeOK, Typed, lists, arrays, observers, frames
<1>5. /\ \A u \in Thread : u # t => waiting'[u] = waiting[u]
      /\ waiting'[t] # 0
    BY <1>1, <1>3 DEF TypeOK, Typed
<1>6. WellFormed'
    BY <1>5, SameFramesOK DEF Await, frames
<1> QED BY <1>4, <1>6 DEF TypeOK

\* The administration of another thread is looked at.
LEMMA ScanType ==
    ASSUME TypeOK, NEW t \in Thread, NEW u \in Thread, Scan(t, u)
    PROVE  TypeOK'
<1>1. Typed'
    BY DEF Scan, Goto, TypeOK, Typed, lists, arrays, observers, frames
<1>2. waiting[t] # 0 /\ pc[t] = "scan"
    BY DEF Scan, Goto, TypeOK, WellFormed, ThreadOK
<1>3. WellFormed'
    BY <1>2, SameFramesOK DEF Scan, Goto, frames
<1> QED BY <1>1, <1>3 DEF TypeOK

\* A flag that is set in a frame of the thread leaves the rest of the frame.
LEMMA ScanSelfFrames ==
    ASSUME TypeOK, NEW t \in Thread, ScanSelf(t)
    PROVE  /\ frame' \in [Thread -> [Depth -> Frame]]
           /\ \A u \in Thread, d \in Depth :
                 /\ u # t => frame'[u][d] = frame[u][d]
                 /\ frame'[u][d] \in {frame[u][d], [frame[u][d] EXCEPT !.free = TRUE]}
                 /\ frame[u][d] = NoFrame => frame'[u][d] = NoFrame
                 /\ frame'[u][d].registered = frame[u][d].registered
                 /\ frame'[u][d].array = frame[u][d].array
                 /\ frame'[u][d].lists = frame[u][d].lists
                 /\ frame'[u][d].late = frame[u][d].late
                 /\ frame'[u][d].left = frame[u][d].left
<1> DEFINE g == [d \in Depth |->
                    IF /\ d \in Uses(t, waiting[t])
                       /\ \A c \in Uses(t, waiting[t]) : d <= c
                    THEN [frame[t][d] EXCEPT !.free = TRUE]
                    ELSE frame[t][d]]
<1>1. frame' = [frame EXCEPT ![t] = g]
    BY DEF ScanSelf
<1>2. ASSUME NEW d \in Depth
      PROVE  /\ frame[t][d] \in Frame
             /\ [frame[t][d] EXCEPT !.free = TRUE] \in Frame
  <2>1. frame[t][d] \in Frame
      BY DEF TypeOK, Typed
  <2> QED BY <2>1 DEF Frame
<1>3. g \in [Depth -> Frame]
    BY <1>2
<1>4. ASSUME NEW d \in Depth
      PROVE  /\ g[d] \in {frame[t][d], [frame[t][d] EXCEPT !.free = TRUE]}
             /\ frame[t][d] = NoFrame => g[d] = NoFrame
    BY DEF Uses, NoFrame, NewFrame
<1>5. ASSUME NEW d \in Depth
      PROVE  /\ g[d].registered = frame[t][d].registered
             /\ g[d].array = frame[t][d].array
             /\ g[d].lists = frame[t][d].lists
             /\ g[d].late = frame[t][d].late
             /\ g[d].left = frame[t][d].left
  <2>1. frame[t][d] \in Frame
      BY DEF TypeOK, Typed
  <2>2. g[d] \in {frame[t][d], [frame[t][d] EXCEPT !.free = TRUE]}
      BY <1>4
  <2> HIDE DEF g
  <2> QED BY <2>1, <2>2 DEF Frame
<1>6. frame' \in [Thread -> [Depth -> Frame]] /\ frame'[t] = g
      /\ \A u \in Thread : u # t => frame'[u] = frame[u]
    BY <1>1, <1>3 DEF TypeOK, Typed
<1> HIDE DEF g
<1> QED BY <1>4, <1>5, <1>6

\* The thread looks at its own administration.
LEMMA ScanSelfType ==
    ASSUME TypeOK, NEW t \in Thread, ScanSelf(t)
    PROVE  TypeOK'
<1>1. Typed'
  <2>1. frame' \in [Thread -> [Depth -> Frame]]
      BY ScanSelfFrames
  <2>2. scanned' \in [Thread -> SUBSET Thread] /\ pc' = pc
      BY DEF ScanSelf, Goto, TypeOK, Typed
  <2>3. delegated' \in [Thread -> BOOLEAN]
      BY Zenon DEF ScanSelf, TypeOK, Typed
  <2> QED BY <2>1, <2>2, <2>3 DEF ScanSelf, TypeOK, Typed, lists, arrays, observers
<1>2. ASSUME NEW u \in Thread PROVE ThreadOK(u)'
  <2>1. pc' = pc /\ waiting' = waiting /\ depth' = depth
      BY DEF ScanSelf, Goto, TypeOK, Typed
  <2>2. ThreadOK(u)
      BY DEF TypeOK, WellFormed
  <2>3. pc[u] = "register" => depth[u] \in Depth
      BY <2>2, ObserverAssumption DEF ThreadOK, TypeOK, Typed, Depth
  <2> QED BY <2>1, <2>2, <2>3, ScanSelfFrames DEF ThreadOK, Top
<1> QED BY <1>1, <1>2 DEF TypeOK, WellFormed

\* Nobody else uses the array: it is freed, or left to a notification.
LEMMA ScanDoneType ==
    ASSUME TypeOK, NEW t \in Thread, ScanDone(t)
    PROVE  TypeOK'
<1>1. /\ mem' \in [Array -> {"unused", "live", "freed"}]
      /\ data' \in [Observer -> {"unused", "live", "freed"}]
      /\ count' \in [Observer -> Int]
      /\ fault' \in {"none", "array", "data", "object"}
  <2>1. CASE KeepForMe(t)
      BY <2>1 DEF ScanDone, TypeOK, Typed
  <2>2. CASE ~KeepForMe(t)
      BY <2>2, FreeArrayType DEF ScanDone, TypeOK
  <2> QED BY <2>1, <2>2
<1>2. 0 \in 0..MaxArrays
    BY ObserverAssumption
<1>3. Typed'
    BY <1>1, <1>2 DEF ScanDone, Goto, TypeOK, Typed, lists, frames
<1>4. /\ \A u \in Thread : u # t => waiting'[u] = waiting[u]
      /\ waiting'[t] = 0
    BY DEF ScanDone, TypeOK, Typed
<1>5. WellFormed'
    BY <1>4, SameFramesOK DEF ScanDone, Goto
<1> QED BY <1>3, <1>5 DEF TypeOK

\* The call returns.
LEMMA ReturnType ==
    ASSUME TypeOK, NEW t \in Thread, Return(t)
    PROVE  TypeOK'
<1>1. object' \in [Observer -> {"new", "observing", "leaving", "freed"}]
    BY DEF Return, TypeOK, Typed
<1>2. Typed'
    BY <1>1 DEF Return, TypeOK, Typed, lists, arrays, frames
<1>3. waiting[t] = 0
    BY DEF Return, TypeOK, WellFormed, ThreadOK
<1>4. WellFormed'
    BY <1>3, SameFramesOK DEF Return
<1> QED BY <1>2, <1>4 DEF TypeOK

\* Nothing happens.
LEMMA StutterType ==
    ASSUME TypeOK, UNCHANGED vars
    PROVE  TypeOK'
<1>1. Typed'
    BY DEF vars, lists, arrays, observers, frames, waits, TypeOK, Typed
<1>2. WellFormed'
    BY DEF vars, frames, waits, TypeOK, WellFormed, ThreadOK, Top
<1> QED BY <1>1, <1>2 DEF TypeOK

\* A thread in observe or unobserve knows which observer it is about.
Busy == \A t \in Thread :
            pc[t] \in {"add", "remove", "scan", "scanned"} => who[t] \in Observer

\* Every step keeps Busy.
LEMMA BusyStep ==
    ASSUME TypeOK, Busy, [Next]_vars
    PROVE  Busy'
<1>1. CASE UNCHANGED vars
    BY <1>1 DEF Busy, vars, waits
<1>2. ASSUME NEW t \in Thread, Step(t) \/ Start(t)
      PROVE  Busy'
  <2>1. CASE Notify(t)
      BY <2>1 DEF Notify, Call, Goto, Busy, waits, TypeOK, Typed
  <2>2. CASE PushRead(t)
      BY <2>2 DEF PushRead, Goto, Busy, waits, TypeOK, Typed
  <2>3. CASE Register(t) \/ CallObserver(t) \/ CallbackReturn(t) \/ Pop(t) \/ NotifyDone(t)
      BY <2>3 DEF Register, CallObserver, CallbackReturn, Pop, NotifyDone, Goto, Busy,
                  waits, TypeOK, Typed
  <2>4. ASSUME NEW e \in Observer, Observe(t, e) \/ Unobserve(t, e)
        PROVE  Busy'
    <3>1. who' = [who EXCEPT ![t] = e]
        BY <2>4 DEF Observe, Unobserve
    <3>2. \A u \in Thread : u # t => pc'[u] = pc[u]
        BY <2>4 DEF Observe, Unobserve, Call, Goto, TypeOK, Typed
    <3> QED BY <3>1, <3>2 DEF Busy, TypeOK, Typed
  <2>5. ASSUME NEW l \in List, Add(t, l) \/ Remove(t, l)
        PROVE  Busy'
    <3>1. who' = who
        BY <2>5 DEF Add, Remove
    <3>2. pc' = pc
        BY <2>5 DEF Add, Remove, Goto, TypeOK, Typed
    <3> QED BY <3>1, <3>2 DEF Busy
  <2>6. CASE Await(t)
      BY <2>6 DEF Await, Busy, TypeOK, Typed
  <2>9. CASE ScanSelf(t)
      BY <2>9 DEF ScanSelf, Goto, Busy, TypeOK, Typed
  <2>10. CASE ScanDone(t)
      BY <2>10 DEF ScanDone, Goto, Busy, TypeOK, Typed
  <2>7. ASSUME NEW u \in Thread, Scan(t, u)
        PROVE  Busy'
      BY <2>7 DEF Scan, Goto, Busy, TypeOK, Typed
  <2>8. CASE Return(t)
      BY <2>8 DEF Return, Busy, TypeOK, Typed
  <2> QED BY <1>2, <2>1, <2>2, <2>3, <2>4, <2>5, <2>6, <2>7, <2>8, <2>9, <2>10 DEF Step, Start
<1> QED BY <1>1, <1>2 DEF Next

\* Every step keeps the types.
LEMMA TypeStep ==
    ASSUME TypeOK, Busy, [Next]_vars
    PROVE  TypeOK'
<1>1. CASE UNCHANGED vars
    BY <1>1, StutterType
<1>2. ASSUME NEW t \in Thread, Step(t) \/ Start(t)
      PROVE  TypeOK'
  <2>1. CASE Notify(t)
      BY <2>1, NotifyType
  <2>2. CASE PushRead(t)
      BY <2>2, PushReadType
  <2>3. CASE Register(t)
      BY <2>3, RegisterType
  <2>4. CASE CallObserver(t)
      BY <2>4, CallObserverType
  <2>5. CASE CallbackReturn(t)
      BY <2>5, CallbackReturnType
  <2>6. CASE Pop(t)
      BY <2>6, PopType
  <2>7. CASE NotifyDone(t)
      BY <2>7, NotifyDoneType
  <2>8. ASSUME NEW e \in Observer, Observe(t, e) \/ Unobserve(t, e)
        PROVE  TypeOK'
      BY <2>8, ObserveType, UnobserveType
  <2>9. ASSUME NEW l \in List, Add(t, l) \/ Remove(t, l)
        PROVE  TypeOK'
    <3>1. CASE Add(t, l)
      <4>1. who[t] \in Observer
          BY <3>1 DEF Add, Goto, Busy
      <4> QED BY <3>1, <4>1, AddType
    <3> QED BY <2>9, <3>1, RemoveType
  <2>10. CASE Await(t)
      BY <2>10, AwaitType
  <2>11. CASE ScanSelf(t)
      BY <2>11, ScanSelfType
  <2>12. CASE ScanDone(t)
      BY <2>12, ScanDoneType
  <2>13. CASE Return(t)
      BY <2>13, ReturnType
  <2>14. ASSUME NEW u \in Thread, Scan(t, u)
         PROVE  TypeOK'
      BY <2>14, ScanType
  <2> QED BY <1>2, <2>1, <2>2, <2>3, <2>4, <2>5, <2>6, <2>7, <2>8, <2>9, <2>10, <2>11,
             <2>12, <2>13, <2>14 DEF Step, Start
<1> QED BY <1>1, <1>2 DEF Next

\* The state is always typed, and the frames, the program counter and the wait
\* of each thread always fit together.
THEOREM TypeCorrect == Spec => []TypeOK
<1>1. Init => TypeOK /\ Busy
    BY TypeInit DEF Init, Busy
<1>2. TypeOK /\ Busy /\ [Next]_vars => (TypeOK /\ Busy)'
    BY TypeStep, BusyStep
<1> QED BY <1>1, <1>2, PTL DEF Spec

(***************************************************************************)
(* An array in use is allocated                                            *)
(*                                                                         *)
(* RegisteredIsAllocated is not inductive: that a scan which ended saw     *)
(* every use of the array rests on the array being out of reach of every   *)
(* later notification, and on what was seen staying true.                  *)
(***************************************************************************)
\* No list has array a.
Unlinked(a) == \A l \in List : current[l] # a

\* Thread u uses array a only if it read it too late.
NoneUses(u, a) ==
    \A d \in Depth : frame[u][d].registered /\ frame[u][d].array = a => frame[u][d].late

\* An array is used after it was allocated, and by one list.
Bounded ==
    /\ \A l \in List : current[l] <= last
    /\ \A k, l \in List : k # l /\ current[k] # 0 => current[k] # current[l]
    /\ \A t \in Thread : /\ waiting[t] <= last
                         /\ \A a \in olds[t] : a <= last
                         /\ \A d \in Depth : frame[t][d].array <= last

\* The array of a list is allocated.
CurrentLive == \A l \in List : current[l] # 0 => mem[current[l]] = "live"

\* An array that somebody has to free is not the array of a list.
ReplacedUnlinked ==
    \A t \in Thread :
        /\ waiting[t] # 0 => Unlinked(waiting[t])
        /\ \A a \in olds[t] : Unlinked(a)
        /\ \A d \in Depth : frame[t][d].free =>
              frame[t][d].registered /\ Unlinked(frame[t][d].array)

\* A thread that was scanned does not use the array later on.
ScannedClear ==
    \A t, u \in Thread :
        waiting[t] # 0 /\ u \in scanned[t] /\ (u # t \/ ~delegated[t])
            => NoneUses(u, waiting[t])

\* A notification that has to free its array is the last one that uses it.
FlagClear ==
    \A t \in Thread, d \in Depth :
        frame[t][d].free =>
            /\ waiting[t] # frame[t][d].array =>
                  \A u \in Thread \ {t} : NoneUses(u, frame[t][d].array)
            /\ \A c \in Depth : c < d /\ frame[t][c].registered =>
                  frame[t][c].array # frame[t][d].array

Safe ==
    /\ Bounded /\ CurrentLive /\ ReplacedUnlinked /\ ScannedClear /\ FlagClear
    /\ RegisteredIsAllocated

\* Two frames use the same array in the same way.
SameUse(f, g) == /\ f.registered = g.registered
                 /\ f.array = g.array
                 /\ f.free = g.free
                 /\ f.late = g.late

\* A step that only lets go of arrays, and frees an array that nobody has and
\* nobody uses, keeps the invariant.
LEMMA LetGo ==
    ASSUME TypeOK, Safe,
           UNCHANGED <<current, last, olds, waiting, scanned, delegated>>,
           \A u \in Thread, d \in Depth :
              \/ SameUse(frame'[u][d], frame[u][d])
              \/ /\ ~frame'[u][d].registered /\ ~frame'[u][d].free
                 /\ frame'[u][d].array <= last,
           \A a \in Array :
              \/ mem'[a] = mem[a]
              \/ /\ Unlinked(a)
                 /\ \A u \in Thread, d \in Depth :
                       frame'[u][d].registered /\ frame'[u][d].array = a
                           => frame'[u][d].late
    PROVE  Safe'
<1>1. ASSUME NEW u \in Thread, NEW a, NoneUses(u, a)
      PROVE  NoneUses(u, a)'
    BY <1>1 DEF NoneUses, SameUse
<1>2. ASSUME NEW a, Unlinked(a)
      PROVE  Unlinked(a)'
    BY <1>2 DEF Unlinked
<1>3. Bounded'
    BY DEF Safe, Bounded, SameUse
<1>4. CurrentLive'
  <2> SUFFICES ASSUME NEW l \in List, current[l] # 0 PROVE mem'[current[l]] = "live"
      BY DEF CurrentLive
  <2>1. current[l] \in Array /\ ~Unlinked(current[l])
      BY ObserverAssumption DEF TypeOK, Typed, Array, Unlinked
  <2> QED BY <2>1 DEF Safe, CurrentLive
<1>5. ReplacedUnlinked'
    BY <1>2 DEF Safe, ReplacedUnlinked, SameUse
<1>6. ScannedClear'
    BY <1>1 DEF Safe, ScannedClear
<1>7. FlagClear'
    BY <1>1 DEF Safe, FlagClear, SameUse
<1>8. RegisteredIsAllocated'
  <2> SUFFICES ASSUME NEW u \in Thread, NEW d \in Depth,
                      frame'[u][d].registered, ~frame'[u][d].late
               PROVE  mem'[frame'[u][d].array] = "live"
      BY DEF RegisteredIsAllocated
  <2>1. SameUse(frame'[u][d], frame[u][d])
      OBVIOUS
  <2>2. mem[frame'[u][d].array] = "live"
      BY <2>1 DEF SameUse, Safe, RegisteredIsAllocated
  <2>3. frame'[u][d].array \in Array
    <3>1. frame[u][d].registered /\ frame'[u][d].array = frame[u][d].array
        BY <2>1 DEF SameUse
    <3>2. frame[u][d].array \in 0..MaxArrays /\ frame[u][d].array # 0
        BY <3>1 DEF TypeOK, Typed, WellFormed, ThreadOK, Frame
    <3> QED BY <3>1, <3>2, ObserverAssumption DEF Array
  <2> QED BY <2>2, <2>3
<1> QED BY <1>3, <1>4, <1>5, <1>6, <1>7, <1>8 DEF Safe

\* The use of an array becomes visible to the other threads.
LEMMA RegisterSafe ==
    ASSUME TypeOK, Safe, NEW t \in Thread, Register(t)
    PROVE  Safe'
<1> DEFINE n == depth[t]
           a == Top(t).array
           f == [Top(t) EXCEPT !.registered = TRUE, !.free = FALSE,
                               !.late = current[Head(Top(t).lists)] # Top(t).array,
                               !.left = content[Top(t).array]]
<1>1. n \in Depth /\ Top(t) \in Frame
    BY TopType DEF Register, Goto, TypeOK, WellFormed, ThreadOK
<1>2. a # 0 /\ Head(Top(t).lists) \in List
  <2>1. Top(t).lists \in Seq(List)
      BY <1>1 DEF Frame
  <2> QED BY <2>1 DEF Register, Goto, TypeOK, WellFormed, ThreadOK
<1>3. /\ f.registered /\ ~f.free /\ f.array = a /\ f.late \in BOOLEAN
      /\ ~f.late => current[Head(Top(t).lists)] = a
    BY <1>1 DEF Frame
<1>4. ~f.late => ~Unlinked(a)
    BY <1>2, <1>3 DEF Unlinked
<1>5. \A u \in Thread, d \in Depth :
         frame'[u][d] = IF u = t /\ d = n THEN f ELSE frame[u][d]
    BY <1>1 DEF Register, TypeOK, Typed
<1>6. UNCHANGED <<current, last, olds, waiting, scanned, delegated, mem>>
    BY DEF Register, lists, arrays, waits
<1>7. ~f.late => mem[a] = "live"
    BY <1>2, <1>3 DEF Safe, CurrentLive
<1>8. a <= last /\ Top(t) = frame[t][n]
    BY <1>1 DEF Safe, Bounded, Top
<1> HIDE DEF f, n, a
<1>9. ASSUME NEW u \in Thread, NEW b, Unlinked(b), NoneUses(u, b)
      PROVE  NoneUses(u, b)'
    BY <1>3, <1>4, <1>5, <1>9 DEF NoneUses
<1>10. Bounded'
    BY <1>3, <1>5, <1>6, <1>8 DEF Safe, Bounded
<1>11. CurrentLive'
    BY <1>6 DEF Safe, CurrentLive
<1>12. ReplacedUnlinked'
    BY <1>3, <1>5, <1>6 DEF Safe, ReplacedUnlinked, Unlinked
<1>13. ScannedClear'
    BY <1>6, <1>9 DEF Safe, ScannedClear, ReplacedUnlinked
<1>14. FlagClear'
  <2> SUFFICES ASSUME NEW w \in Thread, NEW d \in Depth, frame'[w][d].free
               PROVE  /\ waiting'[w] # frame'[w][d].array =>
                            \A u \in Thread \ {w} : NoneUses(u, frame[w][d].array)'
                      /\ \A c \in Depth : c < d /\ frame'[w][c].registered =>
                            frame'[w][c].array # frame'[w][d].array
      BY <1>6 DEF FlagClear
  <2>1. frame'[w][d] = frame[w][d] /\ ~(w = t /\ d = n)
      BY <1>3, <1>5
  <2>2. Unlinked(frame[w][d].array) /\ frame[w][d].registered
      BY <2>1 DEF Safe, ReplacedUnlinked
  <2>3. w = t => d < n
      BY <1>1, <2>1, <2>2, ObserverAssumption
      DEF Register, Goto, TypeOK, Typed, WellFormed, ThreadOK, Depth, n
  <2>4. \A c \in Depth : c < d => frame'[w][c] = frame[w][c]
      BY <1>1, <1>5, <2>3, ObserverAssumption DEF Depth
  <2>5. \A u \in Thread \ {w} : waiting[w] # frame[w][d].array =>
            NoneUses(u, frame[w][d].array)
      BY <2>1 DEF Safe, FlagClear
  <2>6. \A u \in Thread \ {w} : waiting[w] # frame[w][d].array =>
            NoneUses(u, frame[w][d].array)'
    <3> SUFFICES ASSUME NEW u \in Thread \ {w}, waiting[w] # frame[w][d].array,
                        NEW c \in Depth, frame'[u][c].registered,
                        frame'[u][c].array = frame'[w][d].array
                 PROVE  frame'[u][c].late
        BY DEF NoneUses
    <3>1. CASE u = t /\ c = n
        BY <1>3, <1>4, <1>5, <2>1, <2>2, <3>1
    <3>2. CASE ~(u = t /\ c = n)
        BY <1>5, <2>1, <2>5, <3>2 DEF NoneUses
    <3> QED BY <3>1, <3>2
  <2>7. \A c \in Depth : c < d /\ frame[w][c].registered =>
            frame[w][c].array # frame[w][d].array
      BY <2>1 DEF Safe, FlagClear
  <2> QED BY <1>6, <2>1, <2>4, <2>6, <2>7
<1>15. RegisteredIsAllocated'
    BY <1>3, <1>5, <1>6, <1>7 DEF Safe, RegisteredIsAllocated
<1> QED BY <1>10, <1>11, <1>12, <1>13, <1>14, <1>15 DEF Safe

\* A new array takes the place of the one of list l, which thread t has to wait
\* for.
LEMMA ReplaceSafe ==
    ASSUME TypeOK, Safe, NEW t \in Thread, NEW l \in List, NEW es, NewArray(l, es),
           olds' = [olds EXCEPT ![t] = @ \cup ({current[l]} \ {0})],
           UNCHANGED <<frame, waiting, scanned, delegated>>
    PROVE  Safe'
<1>1. /\ last \in 0..MaxArrays /\ last + 1 \in Array /\ last' = last + 1
      /\ last \in Nat
      /\ \A k \in List : current[k] \in Nat /\ current[k] <= last
    BY ObserverAssumption DEF NewArray, TypeOK, Typed, Array, Safe, Bounded
<1>2. /\ \A k \in List : current'[k] = IF k = l THEN last + 1 ELSE current[k]
      /\ \A a \in Array : mem'[a] = IF a = last + 1 THEN "live" ELSE mem[a]
      /\ \A u \in Thread : olds'[u] \subseteq olds[u] \cup {current[l]}
      /\ \A u \in Thread : current[l] = 0 => olds'[u] \subseteq olds[u]
    BY DEF NewArray, TypeOK, Typed
<1>3. ASSUME NEW a \in Int, Unlinked(a), a <= last
      PROVE  Unlinked(a)'
    BY <1>1, <1>2, <1>3 DEF Unlinked
<1>4. current[l] # 0 => \A k \in List : current'[k] # current[l]
  <2>1. current[l] # 0 => \A k \in List : k # l => current[k] # current[l]
      BY DEF Safe, Bounded
  <2>2. current[l] # last + 1
      BY <1>1
  <2> QED BY <1>2, <2>1, <2>2
<1>5. Bounded'
  <2>1. \A k \in List : current'[k] <= last'
      BY <1>1, <1>2
  <2>2. \A j, k \in List : j # k /\ current'[j] # 0 => current'[j] # current'[k]
    <3>1. \A j, k \in List : j # k /\ current[j] # 0 => current[j] # current[k]
        BY DEF Safe, Bounded
    <3>2. \A k \in List : current[k] # last + 1
        BY <1>1
    <3> QED BY <1>2, <3>1, <3>2
  <2>3. ASSUME NEW u \in Thread
        PROVE  /\ waiting'[u] <= last'
               /\ \A a \in olds'[u] : a <= last'
               /\ \A d \in Depth : frame'[u][d].array <= last'
    <3>1. waiting[u] \in Int /\ \A d \in Depth : frame[u][d].array \in Int
        BY ObserverAssumption DEF TypeOK, Typed, Frame
    <3>2. \A a \in olds[u] : a \in Int
        BY ObserverAssumption DEF TypeOK, Typed, Array
    <3> QED BY <1>1, <1>2, <3>1, <3>2 DEF Safe, Bounded
  <2> QED BY <2>1, <2>2, <2>3 DEF Bounded
<1>6. CurrentLive'
  <2> SUFFICES ASSUME NEW k \in List, current'[k] # 0 PROVE mem'[current'[k]] = "live"
      BY DEF CurrentLive
  <2>1. CASE k = l
      BY <1>1, <1>2, <2>1
  <2>2. CASE k # l
    <3>1. current[k] \in Array
        BY <1>2, <2>2, ObserverAssumption DEF TypeOK, Typed, Array
    <3> QED BY <1>2, <2>2, <3>1 DEF Safe, CurrentLive
  <2> QED BY <2>1, <2>2
<1>7. ReplacedUnlinked'
  <2> SUFFICES ASSUME NEW u \in Thread
               PROVE  /\ waiting[u] # 0 => Unlinked(waiting[u])'
                      /\ \A a \in olds'[u] : Unlinked(a)'
                      /\ \A d \in Depth : frame[u][d].free =>
                            frame[u][d].registered /\ Unlinked(frame[u][d].array)'
      BY DEF ReplacedUnlinked, Unlinked
  <2>1. waiting[u] \in Int /\ \A d \in Depth : frame[u][d].array \in Int
      BY ObserverAssumption DEF TypeOK, Typed, Frame
  <2>2. \A a \in olds[u] : a \in Int
      BY ObserverAssumption DEF TypeOK, Typed, Array
  <2>3. ASSUME NEW a \in olds'[u] PROVE Unlinked(a)'
    <3>1. CASE a \in olds[u]
        BY <1>3, <2>2, <3>1 DEF Safe, ReplacedUnlinked, Bounded
    <3>2. CASE a \notin olds[u]
        BY <1>2, <1>4, <3>2 DEF Unlinked
    <3> QED BY <3>1, <3>2
  <2>4. waiting[u] # 0 => Unlinked(waiting[u])'
      BY <1>3, <2>1 DEF Safe, ReplacedUnlinked, Bounded
  <2> QED BY <1>3, <2>1, <2>3, <2>4 DEF Safe, ReplacedUnlinked, Bounded
<1>8. ScannedClear'
    BY DEF Safe, ScannedClear, NoneUses
<1>9. FlagClear'
    BY DEF Safe, FlagClear, NoneUses
<1>10. RegisteredIsAllocated'
  <2> SUFFICES ASSUME NEW u \in Thread, NEW d \in Depth,
                      frame[u][d].registered, ~frame[u][d].late
               PROVE  mem'[frame[u][d].array] = "live"
      BY DEF RegisteredIsAllocated
  <2>1. frame[u][d].array \in Array
    <3>1. frame[u][d].array \in 0..MaxArrays /\ frame[u][d].array # 0
        BY DEF TypeOK, Typed, WellFormed, ThreadOK, Frame
    <3> QED BY <3>1, ObserverAssumption DEF Array
  <2> QED BY <1>2, <2>1 DEF Safe, RegisteredIsAllocated
<1> QED BY <1>5, <1>6, <1>7, <1>8, <1>9, <1>10 DEF Safe

\* The thread starts to wait for an array that it replaced.
LEMMA AwaitSafe ==
    ASSUME TypeOK, Safe, NEW t \in Thread, Await(t)
    PROVE  Safe'
<1>1. PICK a \in olds[t] : /\ waiting' = [waiting EXCEPT ![t] = a]
                           /\ olds' = [olds EXCEPT ![t] = @ \ {a}]
    BY DEF Await
<1>2. /\ \A u \in Thread : waiting'[u] = IF u = t THEN a ELSE waiting[u]
      /\ \A u \in Thread : olds'[u] \subseteq olds[u]
      /\ \A u \in Thread : scanned'[u] = IF u = t THEN {} ELSE scanned[u]
      /\ \A u \in Thread : u # t => delegated'[u] = delegated[u]
      /\ UNCHANGED <<current, last, mem, frame>>
      /\ waiting[t] = 0
    BY <1>1 DEF Await, TypeOK, Typed, WellFormed, ThreadOK, lists, arrays, frames
<1>3. Bounded'
    BY <1>2 DEF Safe, Bounded
<1>4. CurrentLive'
    BY <1>2 DEF Safe, CurrentLive
<1>5. ReplacedUnlinked'
    BY <1>2 DEF Safe, ReplacedUnlinked, Unlinked
<1>6. ScannedClear'
    BY <1>2 DEF Safe, ScannedClear, NoneUses
<1>7. FlagClear'
  <2> SUFFICES ASSUME NEW u \in Thread, NEW d \in Depth, frame[u][d].free,
                      waiting'[u] # frame[u][d].array
               PROVE  waiting[u] # frame[u][d].array
      BY <1>2 DEF Safe, FlagClear, NoneUses
  <2>1. frame[u][d].registered
      BY DEF Safe, ReplacedUnlinked
  <2>2. frame[u][d].array # 0
      BY <2>1 DEF TypeOK, WellFormed, ThreadOK
  <2> QED BY <1>2, <2>2
<1>8. RegisteredIsAllocated'
    BY <1>2 DEF Safe, RegisteredIsAllocated
<1> QED BY <1>3, <1>4, <1>5, <1>6, <1>7, <1>8 DEF Safe

\* The administration of another thread is looked at.
LEMMA ScanSafe ==
    ASSUME TypeOK, Safe, NEW t \in Thread, NEW v \in Thread, Scan(t, v)
    PROVE  Safe'
<1>1. /\ UNCHANGED <<current, last, mem, frame, olds, waiting, delegated>>
      /\ \A u \in Thread : u # t => scanned'[u] = scanned[u]
      /\ scanned'[t] = IF InUse(v, waiting[t]) THEN {} ELSE scanned[t] \cup {v}
    BY DEF Scan, TypeOK, Typed, lists, arrays, frames
<1>2. ScannedClear'
  <2> SUFFICES ASSUME NEW w \in Thread, NEW u \in Thread,
                      waiting[w] # 0, u \in scanned'[w], u # w \/ ~delegated[w]
               PROVE  NoneUses(u, waiting[w])'
      BY <1>1 DEF ScannedClear
  <2>1. CASE u \in scanned[w]
      BY <1>1, <2>1 DEF Safe, ScannedClear, NoneUses
  <2>2. CASE u \notin scanned[w]
      BY <1>1, <2>2 DEF InUse, Uses, NoneUses
  <2> QED BY <2>1, <2>2
<1>3. /\ Bounded' /\ CurrentLive' /\ ReplacedUnlinked' /\ FlagClear'
      /\ RegisteredIsAllocated'
    BY <1>1 DEF Safe, Bounded, CurrentLive, ReplacedUnlinked, Unlinked, FlagClear,
                NoneUses, RegisteredIsAllocated
<1> QED BY <1>2, <1>3 DEF Safe

\* The thread looks at its own administration: if it uses the array itself, the
\* outermost notification that does has to free it.
LEMMA ScanSelfSafe ==
    ASSUME TypeOK, Safe, NEW t \in Thread, ScanSelf(t)
    PROVE  Safe'
<1>1. /\ UNCHANGED <<current, last, mem, olds, waiting>>
      /\ \A u \in Thread : u # t => /\ scanned'[u] = scanned[u]
                                    /\ delegated'[u] = delegated[u]
      /\ scanned'[t] = scanned[t] \cup {t}
      /\ delegated'[t] = (Uses(t, waiting[t]) # {})
      /\ waiting[t] # 0
    BY DEF ScanSelf, Goto, TypeOK, Typed, WellFormed, ThreadOK, lists, arrays
<1>2. ASSUME NEW u \in Thread, NEW d \in Depth
      PROVE  /\ frame'[u][d].registered = frame[u][d].registered
             /\ frame'[u][d].array = frame[u][d].array
             /\ frame'[u][d].late = frame[u][d].late
    BY ScanSelfFrames
<1>3. ASSUME NEW u \in Thread, NEW a
      PROVE  NoneUses(u, a)' <=> NoneUses(u, a)
    BY <1>2 DEF NoneUses
<1>4. ASSUME NEW u \in Thread, NEW d \in Depth, frame'[u][d].free, ~frame[u][d].free
      PROVE  /\ u = t
             /\ d \in Uses(t, waiting[t])
             /\ \A c \in Uses(t, waiting[t]) : d <= c
  <2>1. u = t
      BY <1>4, ScanSelfFrames
  <2>2. frame'[t][d] = IF /\ d \in Uses(t, waiting[t])
                          /\ \A c \in Uses(t, waiting[t]) : d <= c
                       THEN [frame[t][d] EXCEPT !.free = TRUE]
                       ELSE frame[t][d]
      BY DEF ScanSelf, TypeOK, Typed
  <2> QED BY <1>4, <2>1, <2>2
<1>5. Bounded'
    BY <1>1, <1>2 DEF Safe, Bounded
<1>6. CurrentLive'
    BY <1>1 DEF Safe, CurrentLive
<1>7. ReplacedUnlinked'
  <2>1. ASSUME NEW u \in Thread, NEW d \in Depth, frame'[u][d].free
        PROVE  frame'[u][d].registered /\ Unlinked(frame[u][d].array)
    <3>1. CASE frame[u][d].free
        BY <1>2, <3>1 DEF Safe, ReplacedUnlinked
    <3>2. CASE ~frame[u][d].free
        BY <1>1, <1>2, <1>4, <2>1, <3>2 DEF Safe, ReplacedUnlinked, Uses
    <3> QED BY <3>1, <3>2
  <2> QED BY <1>1, <1>2, <2>1 DEF Safe, ReplacedUnlinked, Unlinked
<1>8. ScannedClear'
  <2> SUFFICES ASSUME NEW w \in Thread, NEW u \in Thread,
                      waiting[w] # 0, u \in scanned'[w], u # w \/ ~delegated'[w]
               PROVE  NoneUses(u, waiting[w])
      BY <1>1, <1>3 DEF ScannedClear
  <2>1. CASE w = t /\ u = t
      BY <1>1, <2>1 DEF Uses, NoneUses
  <2>2. CASE ~(w = t /\ u = t)
      BY <1>1, <2>2 DEF Safe, ScannedClear
  <2> QED BY <2>1, <2>2
<1>9. FlagClear'
  <2> SUFFICES ASSUME NEW w \in Thread, NEW d \in Depth, frame'[w][d].free
               PROVE  /\ waiting[w] # frame[w][d].array =>
                            \A u \in Thread \ {w} : NoneUses(u, frame[w][d].array)
                      /\ \A c \in Depth : c < d /\ frame[w][c].registered =>
                            frame[w][c].array # frame[w][d].array
    <3>1. \A v \in Thread, u \in Thread, c \in Depth :
             NoneUses(u, frame[v][c].array)' <=> NoneUses(u, frame[v][c].array)
        BY <1>2 DEF NoneUses
    <3> QED BY <1>1, <1>2, <3>1 DEF FlagClear
  <2>1. CASE frame[w][d].free
      BY <2>1 DEF Safe, FlagClear
  <2>2. CASE ~frame[w][d].free
    <3>1. /\ w = t /\ frame[w][d].array = waiting[t]
          /\ \A c \in Depth : frame[t][c].registered /\ frame[t][c].array = waiting[t]
                                  => d <= c
        BY <1>4, <2>2 DEF Uses
    <3>2. \A c \in Depth : c < d => ~(d <= c)
        BY ObserverAssumption DEF Depth
    <3> QED BY <3>1, <3>2
  <2> QED BY <2>1, <2>2
<1>10. RegisteredIsAllocated'
    BY <1>1, <1>2 DEF Safe, RegisteredIsAllocated
<1> QED BY <1>5, <1>6, <1>7, <1>8, <1>9, <1>10 DEF Safe

\* The wait ends, and the array is freed unless a notification of the thread
\* itself has to.
LEMMA ScanDoneSafe ==
    ASSUME TypeOK, Safe, NEW t \in Thread, ScanDone(t)
    PROVE  Safe'
<1>1. /\ UNCHANGED <<current, last, olds, scanned, delegated, frame>>
      /\ \A u \in Thread : waiting'[u] = IF u = t THEN 0 ELSE waiting[u]
      /\ waiting[t] # 0 /\ scanned[t] = Thread
    BY DEF ScanDone, Goto, TypeOK, Typed, WellFormed, ThreadOK, lists, frames
<1>2. \A a \in Array : mem'[a] = mem[a] \/ (a = waiting[t] /\ ~delegated[t])
    BY DEF ScanDone, KeepForMe, FreeArray, TypeOK, Typed
<1>3. Unlinked(waiting[t])
    BY <1>1 DEF Safe, ReplacedUnlinked
<1>4. \A u \in Thread : u # t \/ ~delegated[t] => NoneUses(u, waiting[t])
    BY <1>1 DEF Safe, ScannedClear
<1>5. \A u \in Thread : \A a : NoneUses(u, a)' <=> NoneUses(u, a)
    BY <1>1 DEF NoneUses
<1>6. Bounded'
  <2>1. 0 <= last
      BY ObserverAssumption DEF TypeOK, Typed
  <2> QED BY <1>1, <2>1 DEF Safe, Bounded
<1>7. CurrentLive'
  <2> SUFFICES ASSUME NEW l \in List, current[l] # 0 PROVE mem'[current[l]] = "live"
      BY <1>1 DEF CurrentLive
  <2>1. current[l] \in Array
      BY ObserverAssumption DEF TypeOK, Typed, Array
  <2> QED BY <1>2, <1>3, <2>1 DEF Safe, CurrentLive, Unlinked
<1>8. ReplacedUnlinked'
    BY <1>1 DEF Safe, ReplacedUnlinked, Unlinked
<1>9. ScannedClear'
    BY <1>1, <1>5 DEF Safe, ScannedClear
<1>10. FlagClear'
  <2> SUFFICES ASSUME NEW w \in Thread, NEW d \in Depth, frame[w][d].free,
                      NEW u \in Thread \ {w}, waiting'[w] # frame[w][d].array
               PROVE  NoneUses(u, frame[w][d].array)
      BY <1>1, <1>5 DEF Safe, FlagClear
  <2>1. CASE waiting[w] # frame[w][d].array
      BY <2>1 DEF Safe, FlagClear
  <2>2. CASE waiting[w] = frame[w][d].array
      BY <1>1, <1>4, <2>2
  <2> QED BY <2>1, <2>2
<1>11. RegisteredIsAllocated'
  <2> SUFFICES ASSUME NEW u \in Thread, NEW d \in Depth,
                      frame[u][d].registered, ~frame[u][d].late
               PROVE  mem'[frame[u][d].array] = "live"
      BY <1>1 DEF RegisteredIsAllocated
  <2>1. frame[u][d].array \in Array
    <3>1. frame[u][d].array \in 0..MaxArrays /\ frame[u][d].array # 0
        BY DEF TypeOK, Typed, WellFormed, ThreadOK, Frame
    <3> QED BY <3>1, ObserverAssumption DEF Array
  <2>2. ~(frame[u][d].array = waiting[t] /\ ~delegated[t])
      BY <1>4 DEF NoneUses
  <2> QED BY <1>2, <2>1, <2>2 DEF Safe, RegisteredIsAllocated
<1> QED BY <1>6, <1>7, <1>8, <1>9, <1>10, <1>11 DEF Safe

\* Steps that leave the notifications, the lists and the waits as they are.
LEMMA QuietSafe ==
    ASSUME TypeOK, Safe,
           UNCHANGED <<frame, current, last, mem, olds, waiting, scanned, delegated>>
    PROVE  Safe'
<1>1. \A u \in Thread, d \in Depth : SameUse(frame'[u][d], frame[u][d])
    BY DEF SameUse
<1> QED BY <1>1, LetGo

\* A notification starts or ends, or goes on with the next list.
LEMMA NewFrameSafe ==
    ASSUME TypeOK, Safe, NEW t \in Thread, NEW n \in Depth, NEW f,
           ~f.registered, ~f.free, f.array <= last,
           frame' = [frame EXCEPT ![t][n] = f],
           UNCHANGED <<current, last, mem, olds, waiting, scanned, delegated>>
    PROVE  Safe'
<1>1. \A u \in Thread, d \in Depth :
         frame'[u][d] = IF u = t /\ d = n THEN f ELSE frame[u][d]
    BY DEF TypeOK, Typed
<1>2. ASSUME NEW u \in Thread, NEW d \in Depth
      PROVE  \/ SameUse(frame'[u][d], frame[u][d])
             \/ /\ ~frame'[u][d].registered /\ ~frame'[u][d].free
                /\ frame'[u][d].array <= last
    BY <1>1 DEF SameUse
<1> QED BY <1>2, LetGo

\* A notification starts.
LEMMA NotifySafe ==
    ASSUME TypeOK, Safe, NEW t \in Thread, Notify(t)
    PROVE  Safe'
<1>1. PICK v \in Event : frame' = [frame EXCEPT ![t][depth[t] + 1] = NewFrame(Path[v])]
    BY DEF Notify
<1>2. depth[t] + 1 \in Depth
    BY ObserverAssumption DEF Notify, TypeOK, Typed, Depth
<1>3. ~NewFrame(Path[v]).registered /\ ~NewFrame(Path[v]).free
      /\ NewFrame(Path[v]).array <= last
    BY ObserverAssumption DEF NewFrame, TypeOK, Typed
<1> QED BY <1>1, <1>2, <1>3, NewFrameSafe DEF Notify, lists, arrays, waits

\* All lists are done.
LEMMA NotifyDoneSafe ==
    ASSUME TypeOK, Safe, NEW t \in Thread, NotifyDone(t)
    PROVE  Safe'
<1>1. depth[t] \in Depth
    BY TopType DEF NotifyDone, TypeOK, WellFormed, ThreadOK
<1>2. ~NoFrame.registered /\ ~NoFrame.free /\ NoFrame.array <= last
    BY ObserverAssumption DEF NoFrame, NewFrame, TypeOK, Typed
<1> QED BY <1>1, <1>2, NewFrameSafe DEF NotifyDone, lists, arrays, waits

\* The array of a list is read.
LEMMA PushReadSafe ==
    ASSUME TypeOK, Safe, NEW t \in Thread, PushRead(t)
    PROVE  Safe'
<1> DEFINE a == current[Head(Top(t).lists)]
           f == IF a = 0 THEN [Top(t) EXCEPT !.lists = Tail(@)]
                         ELSE [Top(t) EXCEPT !.array = a]
<1>1. depth[t] \in Depth /\ Top(t) \in Frame /\ pc[t] = "list" /\ Top(t).lists # <<>>
    BY TopType DEF PushRead, TypeOK, WellFormed, ThreadOK
<1>2. ~Top(t).registered /\ ~Top(t).free /\ Top(t).array <= last
  <2>1. ~Top(t).registered
      BY <1>1, ObserverAssumption DEF TypeOK, Typed, WellFormed, ThreadOK, Top, Depth
  <2> QED BY <1>1, <2>1 DEF Safe, ReplacedUnlinked, Bounded, Top
<1>3. a <= last
  <2>1. Top(t).lists \in Seq(List)
      BY <1>1 DEF Frame
  <2>2. Head(Top(t).lists) \in List
      BY <1>1, <2>1
  <2> QED BY <2>2 DEF Safe, Bounded
<1>4. ~f.registered /\ ~f.free /\ f.array <= last
    BY <1>1, <1>2, <1>3 DEF Frame
<1>5. frame' = [frame EXCEPT ![t][depth[t]] = f]
    BY DEF PushRead, Top
<1> HIDE DEF f
<1> QED BY <1>1, <1>4, <1>5, NewFrameSafe DEF PushRead, lists, arrays, waits

\* An observer is called.
LEMMA CallObserverSafe ==
    ASSUME TypeOK, Safe, NEW t \in Thread, CallObserver(t)
    PROVE  Safe'
<1>1. depth[t] \in Depth /\ Top(t) \in Frame
    BY TopType DEF CallObserver, Goto, TypeOK, WellFormed, ThreadOK
<1>2. PICK e \in Top(t).left : frame' = [frame EXCEPT ![t][depth[t]].left = @ \ {e}]
    BY DEF CallObserver
<1>3. \A u \in Thread, d \in Depth : SameUse(frame'[u][d], frame[u][d])
    BY <1>1, <1>2, SMTT(30) DEF SameUse, TypeOK, Typed, Frame
<1> QED BY <1>3, LetGo DEF CallObserver, lists, arrays, waits

\* The notification lets go of the array, and frees it when it was asked to.
LEMMA PopSafe ==
    ASSUME TypeOK, Safe, NEW t \in Thread, Pop(t)
    PROVE  Safe'
<1> DEFINE n == depth[t]
           a == Top(t).array
           f == NewFrame(Tail(Top(t).lists))
<1>1. n \in Depth /\ Top(t) = frame[t][n] /\ pc[t] = "iterate"
    BY TopType DEF Pop, Goto, TypeOK, WellFormed, ThreadOK, Top
<1>2. ~f.registered /\ ~f.free /\ f.array <= last
    BY ObserverAssumption DEF NewFrame, TypeOK, Typed
<1>3. UNCHANGED <<current, last, olds, waiting, scanned, delegated>>
    BY DEF Pop, lists, waits
<1>4. \A u \in Thread, d \in Depth :
         frame'[u][d] = IF u = t /\ d = n THEN f ELSE frame[u][d]
    BY <1>1 DEF Pop, TypeOK, Typed
<1>5. ASSUME NEW u \in Thread, NEW d \in Depth
      PROVE  \/ SameUse(frame'[u][d], frame[u][d])
             \/ /\ ~frame'[u][d].registered /\ ~frame'[u][d].free
                /\ frame'[u][d].array <= last
    BY <1>2, <1>4 DEF SameUse
<1>6. ASSUME NEW b \in Array, mem'[b] # mem[b]
      PROVE  b = a /\ Top(t).free
    BY <1>6 DEF Pop, PopFrees, FreeArray, TypeOK, Typed
<1>7. ASSUME Top(t).free
      PROVE  /\ Unlinked(a)
             /\ \A u \in Thread, d \in Depth :
                   frame'[u][d].registered /\ frame'[u][d].array = a => frame'[u][d].late
  <2>1. Unlinked(a) /\ Top(t).registered
      BY <1>1, <1>7 DEF Safe, ReplacedUnlinked
  <2>2. waiting[t] # a
      BY <1>1, <2>1 DEF TypeOK, WellFormed, ThreadOK
  <2>3. /\ \A u \in Thread \ {t} : NoneUses(u, a)
        /\ \A c \in Depth : c < n /\ frame[t][c].registered => frame[t][c].array # a
      BY <1>1, <1>7, <2>2 DEF Safe, FlagClear
  <2>4. ASSUME NEW u \in Thread, NEW d \in Depth, frame'[u][d].registered,
               frame'[u][d].array = a
        PROVE  frame'[u][d].late
    <3>1. CASE u # t
        BY <1>4, <2>3, <2>4, <3>1 DEF NoneUses
    <3>2. CASE u = t
      <4>1. d # n /\ frame'[u][d] = frame[t][d]
          BY <1>2, <1>4, <2>4, <3>2
      <4>2. d < n
          BY <1>1, <2>4, <4>1, ObserverAssumption
          DEF TypeOK, Typed, WellFormed, ThreadOK, Depth
      <4> QED BY <2>3, <2>4, <4>1, <4>2
    <3> QED BY <3>1, <3>2
  <2> QED BY <2>1, <2>4
<1> HIDE DEF f, n, a
<1> QED BY <1>3, <1>5, <1>6, <1>7, LetGo

\* The initial states satisfy the invariant.
LEMMA SafeInit == Init => Safe
<1> SUFFICES ASSUME Init PROVE Safe
    OBVIOUS
<1>1. \A t \in Thread, d \in Depth : frame[t][d] = NoFrame
    BY DEF Init
<1>2. ~NoFrame.registered /\ ~NoFrame.free /\ NoFrame.array = 0
    BY DEF NoFrame, NewFrame
<1>3. Bounded
    BY <1>1, <1>2 DEF Init, Bounded
<1>4. CurrentLive
    BY DEF Init, CurrentLive
<1>5. ReplacedUnlinked /\ ScannedClear
    BY <1>1, <1>2 DEF Init, ReplacedUnlinked, ScannedClear
<1>6. FlagClear /\ RegisteredIsAllocated
    BY <1>1, <1>2 DEF FlagClear, RegisteredIsAllocated
<1> QED BY <1>3, <1>4, <1>5, <1>6 DEF Safe

\* Every step keeps the invariant.
LEMMA SafeStep ==
    ASSUME TypeOK, Safe, [Next]_vars
    PROVE  Safe'
<1>1. CASE UNCHANGED vars
    BY <1>1, QuietSafe DEF vars, lists, arrays, frames, waits
<1>2. ASSUME NEW t \in Thread, Step(t) \/ Start(t)
      PROVE  Safe'
  <2>1. CASE Notify(t)
      BY <2>1, NotifySafe
  <2>2. CASE PushRead(t)
      BY <2>2, PushReadSafe
  <2>3. CASE Register(t)
      BY <2>3, RegisterSafe
  <2>4. CASE CallObserver(t)
      BY <2>4, CallObserverSafe
  <2>5. CASE CallbackReturn(t)
      BY <2>5, QuietSafe DEF CallbackReturn, lists, arrays, frames, waits
  <2>6. CASE Pop(t)
      BY <2>6, PopSafe
  <2>7. CASE NotifyDone(t)
      BY <2>7, NotifyDoneSafe
  <2>8. ASSUME NEW e \in Observer, Observe(t, e) \/ Unobserve(t, e)
        PROVE  Safe'
      BY <2>8, QuietSafe DEF Observe, Unobserve, lists, arrays, frames
  <2>9. ASSUME NEW l \in List, Add(t, l) \/ Remove(t, l)
        PROVE  Safe'
    <3>1. CASE Add(t, l)
        BY <3>1, ReplaceSafe DEF Add, frames
    <3>2. CASE Remove(t, l)
        BY <3>2, ReplaceSafe DEF Remove, frames
    <3> QED BY <2>9, <3>1, <3>2
  <2>10. CASE Await(t)
      BY <2>10, AwaitSafe
  <2>11. CASE ScanSelf(t)
      BY <2>11, ScanSelfSafe
  <2>12. CASE ScanDone(t)
      BY <2>12, ScanDoneSafe
  <2>13. CASE Return(t)
      BY <2>13, QuietSafe DEF Return, lists, arrays, frames
  <2>14. ASSUME NEW u \in Thread, Scan(t, u)
         PROVE  Safe'
      BY <2>14, ScanSafe
  <2> QED BY <1>2, <2>1, <2>2, <2>3, <2>4, <2>5, <2>6, <2>7, <2>8, <2>9, <2>10, <2>11,
             <2>12, <2>13, <2>14 DEF Step, Start
<1> QED BY <1>1, <1>2 DEF Next

\* An array that a notification registered before it was replaced stays
\* allocated until the notification lets go of it: the scan of
\* corto_observersWaitForUnused finds every such use, whatever the number of
\* threads and however deep the notifications are nested.
THEOREM RegisteredArrayIsAllocated == Spec => []RegisteredIsAllocated
<1>1. Init => Safe
    BY SafeInit
<1>2. TypeOK /\ Safe /\ [Next]_vars => Safe'
    BY SafeStep
<1>3. Safe => RegisteredIsAllocated
    BY DEF Safe
<1> QED BY <1>1, <1>2, <1>3, TypeCorrect, PTL DEF Spec

(***************************************************************************)
(* Who frees an array                                                      *)
(***************************************************************************)
\* The d-th notification of thread u has to free array a.
Flagged(u, d, a) ==
    frame[u][d].registered /\ frame[u][d].array = a /\ frame[u][d].free

\* A thread that does not free the array it waits for has left that to one of
\* its own notifications.
Delegation ==
    \A t \in Thread :
        waiting[t] # 0 /\ delegated[t] => \E d \in Depth : Flagged(t, d, waiting[t])

(***************************************************************************)
(* What an observer counts                                                 *)
(***************************************************************************)
\* Who is in observe or unobserve, and for which observer.
Roles ==
    /\ \A t \in Thread :
          /\ who[t] \in Observer => pc[t] \in {"add", "remove", "scan", "scanned"}
          /\ pc[t] = "remove" => /\ object[who[t]] = "leaving"
                                 /\ todo[t] \subseteq ListsOf[who[t]]
    /\ \A t, u \in Thread : who[t] \in Observer /\ who[t] = who[u] => t = u

\* An observer that was not made yet is not known to anybody.
Unknown(e) ==
    /\ count[e] = 0 /\ data[e] = "unused"
    /\ \A l \in List : e \notin on[l]
    /\ \A a \in Array : e \notin content[a]
    /\ \A t \in Thread : who[t] # e

NewIsUnknown ==
    \A e \in Observer : /\ object[e] = "new" => Unknown(e)
                        /\ data[e] = "unused" => object[e] = "new"

\* The arrays that an observer is in and that are still to be freed, and the
\* lists that it was removed from.
Holding(e) == {a \in Array : mem[a] = "live" /\ e \in content[a]}
Removed(e) == IF object[e] = "observing" THEN {}
              ELSE {l \in ListsOf[e] : \A t \in Thread : who[t] = e => l \notin todo[t]}

CountsAreCovered ==
    \A e \in Observer :
        data[e] # "unused" => count[e] >= Cardinality(Holding(e)) - Cardinality(Removed(e))

(***************************************************************************)
(* The order of waiting                                                    *)
(***************************************************************************)
\* Each object has one list of observers, as when no event bubbles.
OneList == \A k, l \in List : k = l

\* A thread that replaced an array uses no newer one.
UsesAreOlder ==
    \A u \in Thread :
        /\ pc[u] \notin {"add", "remove", "scan", "scanned"} => olds[u] = {}
        /\ \A d \in Depth : frame[u][d].registered =>
              /\ waiting[u] # 0 => frame[u][d].array <= waiting[u]
              /\ \A a \in olds[u] : frame[u][d].array <= a

Ordered == UsesAreOlder /\ \A l \in List : current[l] = last

(***************************************************************************)
(* Each array has one owner                                                *)
(***************************************************************************)
\* Array a is not the one of a list, and nobody of a kind is to free it.
NoReplacer(a) == \A t \in Thread : a \notin olds[t]
NoWaiter(a) == \A t \in Thread : waiting[t] = a => delegated[t]
NoFlag(a) == \A u \in Thread, d \in Depth : ~Flagged(u, d, a)
Unowned(a) == Unlinked(a) /\ NoReplacer(a) /\ NoWaiter(a) /\ NoFlag(a)

\* Array a has an owner of one kind, and no other owner.
OwnedByList(a, l) ==
    /\ current[l] = a /\ \A k \in List \ {l} : current[k] # a
    /\ NoReplacer(a) /\ NoWaiter(a) /\ NoFlag(a)

OwnedByReplacer(a, t) ==
    /\ a \in olds[t] /\ \A u \in Thread \ {t} : a \notin olds[u]
    /\ Unlinked(a) /\ NoWaiter(a) /\ NoFlag(a)

OwnedByWaiter(a, t) ==
    /\ waiting[t] = a /\ ~delegated[t]
    /\ \A u \in Thread \ {t} : waiting[u] = a => delegated[u]
    /\ Unlinked(a) /\ NoReplacer(a) /\ NoFlag(a)

OwnedByNotification(a, u, d) ==
    /\ Flagged(u, d, a)
    /\ \A v \in Thread, c \in Depth : Flagged(v, c, a) => v = u /\ c = d
    /\ Unlinked(a) /\ NoReplacer(a) /\ NoWaiter(a)

Owned(a) ==
    \/ \E l \in List : OwnedByList(a, l)
    \/ \E t \in Thread : OwnedByReplacer(a, t) \/ OwnedByWaiter(a, t)
    \/ \E u \in Thread, d \in Depth : OwnedByNotification(a, u, d)

Accounted == \A a \in Array : IF mem[a] = "live" THEN Owned(a) ELSE Unowned(a)

\* The owners of an array, by their kinds.
LEMMA OwnerKinds ==
    ASSUME NEW a
    PROVE  \A x : x \in Owners(a) <=>
              \/ \E l \in List : x = <<"list", l>> /\ current[l] = a
              \/ \E t \in Thread : x = <<"replaced", t>> /\ a \in olds[t]
              \/ \E t \in Thread : x = <<"waiting", t>> /\ waiting[t] = a /\ ~delegated[t]
              \/ \E u \in Thread, d \in Depth :
                    x = <<"notification", u, d>> /\ Flagged(u, d, a)
<1> DEFINE A == {<<"list", l>> : l \in {k \in List : current[k] = a}}
           B == {<<"replaced", t>> : t \in {u \in Thread : a \in olds[u]}}
           C == {<<"waiting", t>> : t \in {u \in Thread : waiting[u] = a /\ ~delegated[u]}}
           D == {<<"notification", x[1], x[2]>> :
                    x \in {y \in Thread \X Depth : /\ y[2] \in Uses(y[1], a)
                                                  /\ frame[y[1]][y[2]].free}}
<1>1. \A x : x \in A <=> \E l \in List : x = <<"list", l>> /\ current[l] = a
    OBVIOUS
<1>2. \A x : x \in B <=> \E t \in Thread : x = <<"replaced", t>> /\ a \in olds[t]
    OBVIOUS
<1>3. \A x : x \in C <=> \E t \in Thread : /\ x = <<"waiting", t>>
                                           /\ waiting[t] = a /\ ~delegated[t]
    OBVIOUS
<1>4. \A x : x \in D <=> \E u \in Thread, d \in Depth :
                            x = <<"notification", u, d>> /\ Flagged(u, d, a)
  <2> DEFINE P == Thread \X Depth
  <2>1. \A y \in P : y[1] \in Thread /\ y[2] \in Depth
      OBVIOUS
  <2>2. \A u \in Thread, d \in Depth : /\ <<u, d>> \in P
                                       /\ <<u, d>>[1] = u /\ <<u, d>>[2] = d
      OBVIOUS
  <2>3. \A y \in P : y[2] \in Uses(y[1], a) /\ frame[y[1]][y[2]].free
                       <=> Flagged(y[1], y[2], a)
      BY <2>1 DEF Uses, Flagged
  <2>4. \A x : x \in D <=> \E y \in P : /\ x = <<"notification", y[1], y[2]>>
                                       /\ Flagged(y[1], y[2], a)
      BY <2>3
  <2> HIDE DEF P, D
  <2>5. ASSUME NEW x, NEW u \in Thread, NEW d \in Depth,
               x = <<"notification", u, d>>, Flagged(u, d, a)
        PROVE  \E y \in P : x = <<"notification", y[1], y[2]>> /\ Flagged(y[1], y[2], a)
      BY <2>2, <2>5
  <2> QED BY <2>1, <2>4, <2>5
<1>5. Owners(a) = ((A \cup B) \cup C) \cup D
    BY DEF Owners
<1> HIDE DEF A, B, C, D
<1> QED BY <1>1, <1>2, <1>3, <1>4, <1>5

\* Who accounts for every array shows that each has one owner.
LEMMA AccountedIsOwned == Accounted => OneOwner
<1> SUFFICES ASSUME Accounted, NEW a \in Array
             PROVE  IF mem[a] = "live" THEN \E x \in Owners(a) : Owners(a) = {x}
                                       ELSE Owners(a) = {}
    BY DEF OneOwner
<1> DEFINE L(x) == \E l \in List : x = <<"list", l>> /\ current[l] = a
           R(x) == \E t \in Thread : x = <<"replaced", t>> /\ a \in olds[t]
           W(x) == \E t \in Thread : x = <<"waiting", t>> /\ waiting[t] = a /\ ~delegated[t]
           N(x) == \E u \in Thread, d \in Depth :
                      x = <<"notification", u, d>> /\ Flagged(u, d, a)
<1>1. \A x : x \in Owners(a) <=> L(x) \/ R(x) \/ W(x) \/ N(x)
    BY OwnerKinds
<1>2. /\ Unlinked(a) => \A x : ~L(x)
      /\ NoReplacer(a) => \A x : ~R(x)
      /\ NoWaiter(a) => \A x : ~W(x)
      /\ NoFlag(a) => \A x : ~N(x)
    BY DEF Unlinked, NoReplacer, NoWaiter, NoFlag
<1>3. CASE mem[a] # "live"
  <2> HIDE DEF L, R, W, N
  <2> QED BY <1>1, <1>2, <1>3 DEF Accounted, Unowned
<1>4. CASE mem[a] = "live"
  <2> SUFFICES \E y : \A x : L(x) \/ R(x) \/ W(x) \/ N(x) <=> x = y
    <3>1. PICK y : \A x : L(x) \/ R(x) \/ W(x) \/ N(x) <=> x = y
        OBVIOUS
    <3> HIDE DEF L, R, W, N
    <3>2. \A x : x \in Owners(a) <=> x = y
        BY <1>1, <3>1
    <3> QED BY <1>4, <3>2
  <2>1. CASE \E l \in List : OwnedByList(a, l)
    <3>1. PICK l \in List : OwnedByList(a, l)
        BY <2>1
    <3>2. \A x : L(x) <=> x = <<"list", l>>
        BY <3>1 DEF OwnedByList
    <3> HIDE DEF L, R, W, N
    <3> QED BY <1>2, <3>1, <3>2 DEF OwnedByList
  <2>2. CASE \E t \in Thread : OwnedByReplacer(a, t)
    <3>1. PICK t \in Thread : OwnedByReplacer(a, t)
        BY <2>2
    <3>2. \A x : R(x) <=> x = <<"replaced", t>>
        BY <3>1 DEF OwnedByReplacer
    <3> HIDE DEF L, R, W, N
    <3> QED BY <1>2, <3>1, <3>2 DEF OwnedByReplacer
  <2>3. CASE \E t \in Thread : OwnedByWaiter(a, t)
    <3>1. PICK t \in Thread : OwnedByWaiter(a, t)
        BY <2>3
    <3>2. \A x : W(x) <=> x = <<"waiting", t>>
        BY <3>1 DEF OwnedByWaiter
    <3> HIDE DEF L, R, W, N
    <3> QED BY <1>2, <3>1, <3>2 DEF OwnedByWaiter
  <2>4. CASE \E u \in Thread, d \in Depth : OwnedByNotification(a, u, d)
    <3>1. PICK u \in Thread, d \in Depth : OwnedByNotification(a, u, d)
        BY <2>4
    <3>2. \A x : N(x) <=> x = <<"notification", u, d>>
        BY <3>1 DEF OwnedByNotification
    <3> HIDE DEF L, R, W, N
    <3> QED BY <1>2, <3>1, <3>2 DEF OwnedByNotification
  <2> QED BY <1>4, <2>1, <2>2, <2>3, <2>4 DEF Accounted, Owned
<1> QED BY <1>3, <1>4

\* What is known of the owners of the arrays.
Own == Accounted /\ Delegation

\* Whether an array is accounted for depends on its owners only.
LEMMA SameOwner ==
    ASSUME NEW a,
           \A l \in List : current'[l] = a <=> current[l] = a,
           \A t \in Thread : a \in olds'[t] <=> a \in olds[t],
           \A t \in Thread : waiting'[t] = a /\ ~delegated'[t]
                                <=> waiting[t] = a /\ ~delegated[t],
           \A u \in Thread, d \in Depth : Flagged(u, d, a)' <=> Flagged(u, d, a)
    PROVE  /\ Owned(a)' <=> Owned(a)
           /\ Unowned(a)' <=> Unowned(a)
<1>1. /\ Unlinked(a)' <=> Unlinked(a)
      /\ NoReplacer(a)' <=> NoReplacer(a)
      /\ NoWaiter(a)' <=> NoWaiter(a)
      /\ NoFlag(a)' <=> NoFlag(a)
    BY DEF Unlinked, NoReplacer, NoWaiter, NoFlag
<1>2. \A l \in List : OwnedByList(a, l)' <=> OwnedByList(a, l)
    BY <1>1 DEF OwnedByList
<1>3. \A t \in Thread : /\ OwnedByReplacer(a, t)' <=> OwnedByReplacer(a, t)
                        /\ OwnedByWaiter(a, t)' <=> OwnedByWaiter(a, t)
    BY <1>1 DEF OwnedByReplacer, OwnedByWaiter
<1>4. \A u \in Thread, d \in Depth :
         OwnedByNotification(a, u, d)' <=> OwnedByNotification(a, u, d)
    BY <1>1 DEF OwnedByNotification
<1> QED BY <1>1, <1>2, <1>3, <1>4 DEF Owned, Unowned

\* A step that changes neither who is to free an array nor which arrays exist.
LEMMA QuietOwn ==
    ASSUME Own, UNCHANGED <<current, mem, olds, waiting, delegated>>,
           \A u \in Thread, d \in Depth : \A a : Flagged(u, d, a)' <=> Flagged(u, d, a)
    PROVE  Own'
<1>1. \A a \in Array : /\ Owned(a)' <=> Owned(a)
                       /\ Unowned(a)' <=> Unowned(a)
    BY SameOwner
<1>2. Accounted'
    BY <1>1 DEF Own, Accounted
<1>3. Delegation'
    BY DEF Own, Delegation
<1> QED BY <1>2, <1>3 DEF Own

\* A notification that is not registered, before or after the step, is not asked
\* to free an array, nor is one that was only just registered.
LEMMA NewFrameOwn ==
    ASSUME TypeOK, Own, NEW t \in Thread, NEW n \in Depth, NEW f,
           frame' = [frame EXCEPT ![t][n] = f],
           ~(f.registered /\ f.free),
           ~(frame[t][n].registered /\ frame[t][n].free),
           UNCHANGED <<current, mem, olds, waiting, delegated>>
    PROVE  Own'
<1>1. \A u \in Thread, d \in Depth :
         frame'[u][d] = IF u = t /\ d = n THEN f ELSE frame[u][d]
    BY DEF TypeOK, Typed
<1>2. \A u \in Thread, d \in Depth : \A a : Flagged(u, d, a)' <=> Flagged(u, d, a)
    BY <1>1 DEF Flagged
<1> QED BY <1>2, QuietOwn

\* A notification starts.
LEMMA NotifyOwn ==
    ASSUME TypeOK, Own, NEW t \in Thread, Notify(t)
    PROVE  Own'
<1>1. PICK v \in Event : frame' = [frame EXCEPT ![t][depth[t] + 1] = NewFrame(Path[v])]
    BY DEF Notify
<1>2. depth[t] + 1 \in Depth
    BY ObserverAssumption DEF Notify, TypeOK, Typed, Depth
<1>3. ~NewFrame(Path[v]).registered
    BY DEF NewFrame
<1>4. ~frame[t][depth[t] + 1].registered
  <2>1. depth[t] + 1 > depth[t]
      BY ObserverAssumption DEF TypeOK, Typed
  <2>2. frame[t][depth[t] + 1] = NoFrame
      BY <1>2, <2>1 DEF TypeOK, WellFormed, ThreadOK
  <2> QED BY <2>2 DEF NoFrame, NewFrame
<1> QED BY <1>1, <1>2, <1>3, <1>4, NewFrameOwn DEF Notify, lists, arrays, waits

\* All lists are done.
LEMMA NotifyDoneOwn ==
    ASSUME TypeOK, Own, NEW t \in Thread, NotifyDone(t)
    PROVE  Own'
<1>1. depth[t] \in Depth
    BY TopType DEF NotifyDone, TypeOK, WellFormed, ThreadOK
<1>2. ~NoFrame.registered
    BY DEF NoFrame, NewFrame
<1>3. ~frame[t][depth[t]].registered
    BY <1>1, ObserverAssumption DEF NotifyDone, TypeOK, Typed, WellFormed, ThreadOK, Depth
<1> QED BY <1>1, <1>2, <1>3, NewFrameOwn DEF NotifyDone, lists, arrays, waits

\* The array of a list is read.
LEMMA PushReadOwn ==
    ASSUME TypeOK, Own, NEW t \in Thread, PushRead(t)
    PROVE  Own'
<1> DEFINE a == current[Head(Top(t).lists)]
           f == IF a = 0 THEN [Top(t) EXCEPT !.lists = Tail(@)]
                         ELSE [Top(t) EXCEPT !.array = a]
<1>1. depth[t] \in Depth /\ Top(t) \in Frame /\ pc[t] = "list"
    BY TopType DEF PushRead, TypeOK, WellFormed, ThreadOK
<1>2. ~Top(t).registered /\ Top(t) = frame[t][depth[t]]
    BY <1>1, ObserverAssumption DEF TypeOK, Typed, WellFormed, ThreadOK, Top, Depth
<1>3. ~f.registered
    BY <1>1, <1>2 DEF Frame
<1>4. frame' = [frame EXCEPT ![t][depth[t]] = f]
    BY DEF PushRead, Top
<1> HIDE DEF f
<1> QED BY <1>1, <1>2, <1>3, <1>4, NewFrameOwn DEF PushRead, lists, arrays, waits

\* The use of an array becomes visible to the other threads.
LEMMA RegisterOwn ==
    ASSUME TypeOK, Own, NEW t \in Thread, Register(t)
    PROVE  Own'
<1> DEFINE f == [Top(t) EXCEPT !.registered = TRUE, !.free = FALSE,
                               !.late = current[Head(Top(t).lists)] # Top(t).array,
                               !.left = content[Top(t).array]]
<1>1. depth[t] \in Depth /\ Top(t) \in Frame
    BY TopType DEF Register, Goto, TypeOK, WellFormed, ThreadOK
<1>2. ~Top(t).registered /\ Top(t) = frame[t][depth[t]]
    BY <1>1, ObserverAssumption
    DEF Register, Goto, TypeOK, Typed, WellFormed, ThreadOK, Top, Depth
<1>3. ~f.free
    BY <1>1 DEF Frame
<1>4. frame' = [frame EXCEPT ![t][depth[t]] = f]
    BY DEF Register
<1>5. UNCHANGED <<current, mem, olds, waiting, delegated>>
    BY DEF Register, lists, arrays, waits
<1> HIDE DEF f
<1> QED BY <1>1, <1>2, <1>3, <1>4, <1>5, NewFrameOwn

\* An observer is called.
LEMMA CallObserverOwn ==
    ASSUME TypeOK, Own, NEW t \in Thread, CallObserver(t)
    PROVE  Own'
<1>1. depth[t] \in Depth /\ Top(t) \in Frame
    BY TopType DEF CallObserver, Goto, TypeOK, WellFormed, ThreadOK
<1>2. PICK e \in Top(t).left : frame' = [frame EXCEPT ![t][depth[t]].left = @ \ {e}]
    BY DEF CallObserver
<1>3. \A u \in Thread, d \in Depth : SameUse(frame'[u][d], frame[u][d])
    BY <1>1, <1>2, SMTT(30) DEF SameUse, TypeOK, Typed, Frame
<1>4. \A u \in Thread, d \in Depth : \A a : Flagged(u, d, a)' <=> Flagged(u, d, a)
    BY <1>3 DEF SameUse, Flagged
<1> QED BY <1>4, QuietOwn DEF CallObserver, lists, arrays, waits

\* The notification lets go of the array, and frees it when it was asked to.
LEMMA PopOwn ==
    ASSUME TypeOK, Safe, Own, NEW t \in Thread, Pop(t)
    PROVE  Own'
<1> DEFINE f == NewFrame(Tail(Top(t).lists))
<1>0. PICK n, b : n = depth[t] /\ b = Top(t).array
    OBVIOUS
<1>1. n \in Depth /\ Top(t) = frame[t][n] /\ pc[t] = "iterate"
    BY <1>0, TopType DEF Pop, Goto, TypeOK, WellFormed, ThreadOK, Top
<1>2. Top(t).registered /\ b \in Array
  <2>1. Top(t).registered /\ b # 0
    <3>1. /\ frame[t][n].registered <=>
                n < depth[t] \/ (n = depth[t] /\ pc[t] \notin {"list", "register"})
          /\ frame[t][n].registered => frame[t][n].array # 0
        BY <1>1 DEF TypeOK, WellFormed, ThreadOK
    <3> QED BY <1>0, <1>1, <3>1
  <2>2. b \in 0..MaxArrays
      BY <1>0, <1>1 DEF TypeOK, Typed, Frame
  <2> QED BY <2>1, <2>2, ObserverAssumption DEF Array
<1>3. ~f.registered
    BY DEF NewFrame
<1>4. UNCHANGED <<current, olds, waiting, delegated>>
    BY DEF Pop, lists, waits
<1>5. frame' = [frame EXCEPT ![t][n] = f]
    BY <1>0 DEF Pop
<1>6. CASE ~Top(t).free
  <2>1. mem' = mem
      BY <1>6 DEF Pop, PopFrees
  <2> HIDE DEF f
  <2> QED BY <1>1, <1>3, <1>4, <1>5, <1>6, <2>1, NewFrameOwn
<1>7. CASE Top(t).free
  <2>1. mem' = [mem EXCEPT ![b] = "freed"]
      BY <1>0, <1>7 DEF Pop, PopFrees, FreeArray
  <2>2. \A u \in Thread, d \in Depth :
           frame'[u][d] = IF u = t /\ d = n THEN f ELSE frame[u][d]
      BY <1>1, <1>5 DEF TypeOK, Typed
  <2> HIDE DEF f
  <2>3. Flagged(t, n, b)
      BY <1>0, <1>1, <1>2, <1>7 DEF Flagged
  <2>4. Owned(b)
      BY <1>1, <1>2, <2>3 DEF Own, Accounted, Unowned, NoFlag
  <2>5. OwnedByNotification(b, t, n)
      BY <1>1, <2>3, <2>4 DEF Owned, OwnedByList, OwnedByReplacer, OwnedByWaiter,
                              OwnedByNotification, NoFlag
  <2>6. \A u \in Thread, d \in Depth : \A a :
           Flagged(u, d, a)' <=> Flagged(u, d, a) /\ ~(u = t /\ d = n)
      BY <1>3, <2>2 DEF Flagged
  <2>7. Unowned(b)'
      BY <1>4, <2>5, <2>6 DEF OwnedByNotification, Unowned, Unlinked, NoReplacer, NoWaiter,
                              NoFlag
  <2>8. ASSUME NEW a \in Array, a # b
        PROVE  /\ Owned(a)' <=> Owned(a)
               /\ Unowned(a)' <=> Unowned(a)
               /\ mem'[a] = mem[a]
    <3>1. ~Flagged(t, n, a)
        BY <1>0, <1>1, <2>8 DEF Flagged
    <3>2. \A u \in Thread, d \in Depth : Flagged(u, d, a)' <=> Flagged(u, d, a)
        BY <2>6, <3>1
    <3>3. mem'[a] = mem[a]
        BY <2>1, <2>8 DEF TypeOK, Typed
    <3> QED BY <1>4, <3>2, <3>3, SameOwner
  <2>9. Accounted'
      BY <1>2, <2>1, <2>7, <2>8 DEF Own, Accounted, TypeOK, Typed
  <2>10. Delegation'
    <3> SUFFICES ASSUME NEW u \in Thread, waiting[u] # 0, delegated[u]
                 PROVE  \E d \in Depth : Flagged(u, d, waiting[u])'
        BY <1>4 DEF Delegation, Flagged
    <3>1. PICK d \in Depth : Flagged(u, d, waiting[u])
        BY DEF Own, Delegation
    <3>2. u # t
        BY <1>1 DEF TypeOK, WellFormed, ThreadOK
    <3>3. Flagged(u, d, waiting[u])'
        BY <1>4, <2>2, <3>1, <3>2 DEF Flagged
    <3> QED BY <3>3
  <2> QED BY <2>9, <2>10 DEF Own
<1> QED BY <1>6, <1>7

\* A new array takes the place of the one of list l, which thread t has to wait
\* for.
LEMMA ReplaceOwn ==
    ASSUME TypeOK, Safe, Own, NEW t \in Thread, NEW l \in List, NEW es, NewArray(l, es),
           olds' = [olds EXCEPT ![t] = @ \cup ({current[l]} \ {0})],
           UNCHANGED <<frame, waiting, delegated>>
    PROVE  Own'
<1>0. PICK b, c : b = current[l] /\ c = last + 1
    OBVIOUS
<1>1. /\ c \in Array /\ c > last /\ last \in Nat
      /\ b \in Nat /\ b <= last /\ b <= MaxArrays
    BY <1>0, ObserverAssumption DEF NewArray, TypeOK, Typed, Array, Safe, Bounded
<1>2. /\ \A k \in List : current'[k] = IF k = l THEN c ELSE current[k]
      /\ \A a \in Array : mem'[a] = IF a = c THEN "live" ELSE mem[a]
      /\ \A u \in Thread : olds'[u] = IF u = t THEN olds[t] \cup ({b} \ {0}) ELSE olds[u]
    BY <1>0 DEF NewArray, TypeOK, Typed
<1>3. \A u \in Thread, d \in Depth : \A a : Flagged(u, d, a)' <=> Flagged(u, d, a)
    BY DEF Flagged
<1>4. Unowned(c)
  <2>1. Unlinked(c) /\ NoReplacer(c) /\ NoWaiter(c)
    <3>1. \A k \in List : current[k] <= last /\ current[k] \in Int
        BY ObserverAssumption DEF Safe, Bounded, TypeOK, Typed
    <3>2. \A u \in Thread : waiting[u] <= last /\ waiting[u] \in Int
        BY ObserverAssumption DEF Safe, Bounded, TypeOK, Typed
    <3>3. \A u \in Thread : \A a \in olds[u] : a <= last /\ a \in Int
        BY ObserverAssumption DEF Safe, Bounded, TypeOK, Typed, Array
    <3> QED BY <1>1, <3>1, <3>2, <3>3 DEF Unlinked, NoReplacer, NoWaiter
  <2>2. NoFlag(c)
    <3>1. \A u \in Thread, d \in Depth :
             frame[u][d].array <= last /\ frame[u][d].array \in Int
        BY ObserverAssumption DEF Safe, Bounded, TypeOK, Typed, Frame
    <3> QED BY <1>1, <3>1 DEF NoFlag, Flagged
  <2> QED BY <2>1, <2>2 DEF Unowned
<1>5. OwnedByList(c, l)'
  <2>1. c # b
      BY <1>1
  <2> QED BY <1>2, <1>3, <1>4, <2>1 DEF OwnedByList, Unowned, Unlinked, NoReplacer, NoWaiter,
                                        NoFlag
<1>6. ASSUME b # 0
      PROVE  b \in Array /\ mem[b] = "live" /\ OwnedByReplacer(b, t)'
  <2>1. b \in Array
      BY <1>1, <1>6 DEF Array
  <2>2. mem[b] = "live" /\ Owned(b)
      BY <1>0, <2>1 DEF Own, Accounted, Unowned, Unlinked
  <2>3. OwnedByList(b, l)
      BY <1>0, <2>2 DEF Owned, OwnedByList, OwnedByReplacer, OwnedByWaiter,
                        OwnedByNotification, Unlinked
  <2>4. c # b
      BY <1>1
  <2>5. Unlinked(b)'
      BY <1>2, <2>3, <2>4 DEF OwnedByList, Unlinked
  <2>6. b \in olds'[t] /\ \A u \in Thread \ {t} : b \notin olds'[u]
      BY <1>2, <1>6, <2>3 DEF OwnedByList, NoReplacer
  <2>7. NoWaiter(b)' /\ NoFlag(b)'
      BY <1>3, <2>3 DEF OwnedByList, NoWaiter, NoFlag
  <2> QED BY <2>1, <2>2, <2>5, <2>6, <2>7 DEF OwnedByReplacer
<1>7. ASSUME NEW a \in Array, a # b, a # c
      PROVE  /\ Owned(a)' <=> Owned(a)
             /\ Unowned(a)' <=> Unowned(a)
  <2>1. \A k \in List : current'[k] = a <=> current[k] = a
      BY <1>0, <1>2, <1>7
  <2>2. \A u \in Thread : a \in olds'[u] <=> a \in olds[u]
      BY <1>2, <1>7
  <2> QED BY <1>3, <2>1, <2>2, SameOwner
<1>8. Accounted'
  <2> SUFFICES ASSUME NEW a \in Array
               PROVE  IF mem'[a] = "live" THEN Owned(a)' ELSE Unowned(a)'
      BY DEF Accounted
  <2>1. CASE a = c
      BY <1>1, <1>2, <1>5, <2>1 DEF Owned
  <2>2. CASE a = b /\ a # c
    <3>1. b # 0
        BY <2>2, ObserverAssumption DEF Array
    <3> QED BY <1>2, <1>6, <2>2, <3>1 DEF Owned
  <2>3. CASE a # b /\ a # c
      BY <1>2, <1>7, <2>3 DEF Own, Accounted
  <2> QED BY <2>1, <2>2, <2>3
<1>9. Delegation'
    BY <1>3 DEF Own, Delegation
<1> QED BY <1>8, <1>9 DEF Own

\* The thread starts to wait for an array that it replaced.
LEMMA AwaitOwn ==
    ASSUME TypeOK, Own, NEW t \in Thread, Await(t)
    PROVE  Own'
<1>1. PICK b \in olds[t] : /\ waiting' = [waiting EXCEPT ![t] = b]
                           /\ olds' = [olds EXCEPT ![t] = @ \ {b}]
    BY DEF Await
<1>2. /\ \A u \in Thread : waiting'[u] = IF u = t THEN b ELSE waiting[u]
      /\ \A u \in Thread : olds'[u] = IF u = t THEN olds[t] \ {b} ELSE olds[u]
      /\ \A u \in Thread : delegated'[u] = IF u = t THEN FALSE ELSE delegated[u]
      /\ UNCHANGED <<current, mem, frame>>
      /\ waiting[t] = 0
    BY <1>1 DEF Await, TypeOK, Typed, WellFormed, ThreadOK, lists, arrays, frames
<1>3. b \in Array
    BY DEF TypeOK, Typed
<1>4. \A u \in Thread, d \in Depth : \A a : Flagged(u, d, a)' <=> Flagged(u, d, a)
    BY <1>2 DEF Flagged
<1>5. Owned(b) /\ mem[b] = "live"
    BY <1>3 DEF Own, Accounted, Unowned, NoReplacer
<1>6. OwnedByReplacer(b, t)
    BY <1>5 DEF Owned, OwnedByList, OwnedByReplacer, OwnedByWaiter, OwnedByNotification,
                NoReplacer
<1>7. OwnedByWaiter(b, t)'
    BY <1>2, <1>4, <1>6 DEF OwnedByReplacer, OwnedByWaiter, Unlinked, NoReplacer, NoWaiter,
                            NoFlag
<1>8. ASSUME NEW a \in Array, a # b
      PROVE  /\ Owned(a)' <=> Owned(a)
             /\ Unowned(a)' <=> Unowned(a)
  <2>1. a # 0
      BY ObserverAssumption DEF Array
  <2>2. \A u \in Thread : a \in olds'[u] <=> a \in olds[u]
      BY <1>2, <1>8
  <2>3. \A u \in Thread : waiting'[u] = a /\ ~delegated'[u]
                             <=> waiting[u] = a /\ ~delegated[u]
      BY <1>2, <1>8, <2>1
  <2> QED BY <1>2, <1>4, <2>2, <2>3, SameOwner
<1>9. Accounted'
    BY <1>2, <1>5, <1>7, <1>8 DEF Own, Accounted, Owned
<1>10. Delegation'
    BY <1>2, <1>4 DEF Own, Delegation
<1> QED BY <1>9, <1>10 DEF Own

\* A set of natural numbers has a least element.
LEMMA HasLeast ==
    ASSUME NEW S, S \subseteq Nat, S # {}
    PROVE  \E n \in S : \A c \in S : n <= c
<1> DEFINE R == {ss \in Nat \X Nat : ss[1] < ss[2]}
<1>1. IsWellFoundedOn(R, Nat)
    BY NatLessThanWellFounded DEF OpToRel
<1>2. \A m, n \in Nat : <<m, n>> \in R <=> m < n
    OBVIOUS
<1> HIDE DEF R
<1>3. PICK n \in S : \A c \in S : <<c, n>> \notin R
    BY <1>1, WFMin, Zenon
<1>4. \A c \in S : ~(c < n)
    BY <1>2, <1>3, Zenon
<1>5. \A c \in S : n <= c
    BY <1>4
<1> QED BY <1>5

\* The thread looks at its own administration: if it uses the array itself, the
\* outermost notification that does has to free it.
LEMMA ScanSelfOwn ==
    ASSUME TypeOK, Safe, Own, NEW t \in Thread, ScanSelf(t)
    PROVE  Own'
<1>0. PICK b : b = waiting[t]
    OBVIOUS
<1>1. /\ UNCHANGED <<current, mem, olds, waiting>>
      /\ \A u \in Thread : delegated'[u] = IF u = t THEN Uses(t, b) # {} ELSE delegated[u]
      /\ b # 0
    BY <1>0 DEF ScanSelf, Goto, TypeOK, Typed, WellFormed, ThreadOK, lists, arrays
<1>2. b \in Array
    BY <1>0, <1>1, ObserverAssumption DEF TypeOK, Typed, Array
<1> DEFINE Outermost(d) == d \in Uses(t, b) /\ \A c \in Uses(t, b) : d <= c
<1>3. \A u \in Thread, d \in Depth :
         frame'[u][d] = IF u = t /\ Outermost(d) THEN [frame[t][d] EXCEPT !.free = TRUE]
                                                 ELSE frame[u][d]
    BY <1>0 DEF ScanSelf, TypeOK, Typed
<1>4. \A u \in Thread, d \in Depth :
         frame'[u][d].free <=> frame[u][d].free \/ (u = t /\ Outermost(d))
  <2> SUFFICES ASSUME NEW u \in Thread, NEW d \in Depth
               PROVE  frame'[u][d].free <=> frame[u][d].free \/ (u = t /\ Outermost(d))
      OBVIOUS
  <2>1. frame[u][d] \in Frame
      BY DEF TypeOK, Typed
  <2> HIDE DEF Outermost
  <2>2. CASE u = t /\ Outermost(d)
      BY <1>3, <2>1, <2>2 DEF Frame
  <2>3. CASE ~(u = t /\ Outermost(d))
      BY <1>3, <2>3
  <2> QED BY <2>2, <2>3
<1>5. \A u \in Thread, d \in Depth : /\ frame'[u][d].registered = frame[u][d].registered
                                     /\ frame'[u][d].array = frame[u][d].array
    BY ScanSelfFrames
<1>6. \A u \in Thread, d \in Depth : \A a :
         Flagged(u, d, a)' <=> Flagged(u, d, a) \/ (u = t /\ a = b /\ Outermost(d))
  <2>1. \A d \in Depth : Outermost(d) => frame[t][d].registered /\ frame[t][d].array = b
      BY DEF Uses
  <2> HIDE DEF Outermost
  <2> QED BY <1>4, <1>5, <2>1 DEF Flagged
<1> HIDE DEF Outermost
<1>7. ASSUME NEW a \in Array, a # b
      PROVE  /\ Owned(a)' <=> Owned(a)
             /\ Unowned(a)' <=> Unowned(a)
  <2>1. \A u \in Thread : waiting'[u] = a /\ ~delegated'[u]
                             <=> waiting[u] = a /\ ~delegated[u]
      BY <1>0, <1>1, <1>7
  <2>2. \A u \in Thread, d \in Depth : Flagged(u, d, a)' <=> Flagged(u, d, a)
      BY <1>6, <1>7
  <2> QED BY <1>1, <2>1, <2>2, SameOwner
<1>8. Owned(b) /\ mem[b] = "live"
  <2>1. CASE delegated[t]
      BY <1>0, <1>1, <1>2, <2>1 DEF Own, Accounted, Delegation, Unowned, NoFlag
  <2>2. CASE ~delegated[t]
      BY <1>0, <1>2, <2>2 DEF Own, Accounted, Unowned, NoWaiter
  <2> QED BY <2>1, <2>2
<1>9. CASE Uses(t, b) = {}
  <2>1. ~delegated[t] /\ ~delegated'[t]
      BY <1>0, <1>1, <1>9 DEF Own, Delegation, Flagged, Uses
  <2>2. \A u \in Thread, d \in Depth : \A a : Flagged(u, d, a)' <=> Flagged(u, d, a)
      BY <1>6, <1>9 DEF Outermost
  <2>3. \A u \in Thread : delegated'[u] = delegated[u]
      BY <1>1, <2>1, <1>9 DEF TypeOK, Typed
  <2>4. \A a \in Array : /\ Owned(a)' <=> Owned(a)
                         /\ Unowned(a)' <=> Unowned(a)
      BY <1>1, <2>2, <2>3, SameOwner
  <2>5. Accounted'
      BY <1>1, <2>4 DEF Own, Accounted
  <2>6. Delegation'
      BY <1>1, <2>2, <2>3 DEF Own, Delegation
  <2> QED BY <2>5, <2>6 DEF Own
<1>10. CASE Uses(t, b) # {}
  <2>1. PICK n \in Depth : Outermost(n)
    <3>1. Uses(t, b) \subseteq Nat
        BY ObserverAssumption DEF Uses, Depth
    <3>2. PICK n \in Uses(t, b) : \A c \in Uses(t, b) : n <= c
        BY <1>10, <3>1, HasLeast
    <3> QED BY <3>2 DEF Outermost, Uses
  <2>2. \A c \in Depth : Outermost(c) => c = n
      BY <2>1, ObserverAssumption DEF Outermost, Uses, Depth
  <2>3. Flagged(t, n, b)'
      BY <1>6, <2>1
  <2>4. /\ Unlinked(b) /\ NoReplacer(b)
        /\ \A u \in Thread \ {t} : waiting[u] = b => delegated[u]
        /\ \A u \in Thread, d \in Depth : Flagged(u, d, b) => u = t /\ d = n
    <3>1. CASE delegated[t]
      <4>1. PICK d \in Depth : Flagged(t, d, b)
          BY <1>0, <1>1, <3>1 DEF Own, Delegation
      <4>2. OwnedByNotification(b, t, d)
          BY <1>8, <4>1 DEF Owned, OwnedByList, OwnedByReplacer, OwnedByWaiter,
                            OwnedByNotification, NoFlag
      <4>3. Outermost(d)
        <5>1. d \in Uses(t, b)
            BY <4>1 DEF Flagged, Uses
        <5>2. \A c \in Depth : c < d /\ frame[t][c].registered => frame[t][c].array # b
            BY <4>1 DEF Safe, FlagClear, Flagged
        <5> QED BY <5>1, <5>2, ObserverAssumption DEF Outermost, Uses, Depth
      <4> QED BY <2>2, <4>2, <4>3 DEF OwnedByNotification, NoWaiter
    <3>2. CASE ~delegated[t]
      <4>1. OwnedByWaiter(b, t)
          BY <1>0, <1>8, <3>2 DEF Owned, OwnedByList, OwnedByReplacer, OwnedByWaiter,
                                  OwnedByNotification, NoWaiter
      <4> QED BY <4>1 DEF OwnedByWaiter, NoFlag
    <3> QED BY <3>1, <3>2
  <2>5. OwnedByNotification(b, t, n)'
    <3>1. \A v \in Thread, c \in Depth : Flagged(v, c, b)' => v = t /\ c = n
        BY <1>6, <2>2, <2>4
    <3>2. Unlinked(b)' /\ NoReplacer(b)'
        BY <1>1, <2>4 DEF Unlinked, NoReplacer
    <3>3. NoWaiter(b)'
        BY <1>1, <1>10, <2>4 DEF NoWaiter
    <3> QED BY <2>3, <3>1, <3>2, <3>3 DEF OwnedByNotification
  <2>6. Accounted'
      BY <1>1, <1>7, <1>8, <2>5 DEF Own, Accounted, Owned
  <2>7. Delegation'
    <3> SUFFICES ASSUME NEW u \in Thread, waiting[u] # 0, delegated'[u]
                 PROVE  \E d \in Depth : Flagged(u, d, waiting[u])'
        BY <1>1 DEF Delegation, Flagged
    <3>1. CASE u = t
        BY <1>0, <1>1, <2>3, <3>1 DEF Flagged
    <3>2. CASE u # t
      <4>1. PICK d \in Depth : Flagged(u, d, waiting[u])
          BY <1>1, <3>2 DEF Own, Delegation
      <4>2. Flagged(u, d, waiting[u])'
          BY <1>1, <1>4, <1>5, <4>1 DEF Flagged
      <4> QED BY <4>2
    <3> QED BY <3>1, <3>2
  <2> QED BY <2>6, <2>7 DEF Own
<1> QED BY <1>9, <1>10

\* The wait ends, and the array is freed unless a notification of the thread
\* itself has to.
LEMMA ScanDoneOwn ==
    ASSUME TypeOK, Own, NEW t \in Thread, ScanDone(t)
    PROVE  Own'
<1>0. PICK b : b = waiting[t]
    OBVIOUS
<1>1. /\ UNCHANGED <<current, olds, delegated, frame>>
      /\ \A u \in Thread : waiting'[u] = IF u = t THEN 0 ELSE waiting[u]
      /\ b # 0
    BY <1>0 DEF ScanDone, Goto, TypeOK, Typed, WellFormed, ThreadOK, lists, frames
<1>2. b \in Array
    BY <1>0, <1>1, ObserverAssumption DEF TypeOK, Typed, Array
<1>3. \A u \in Thread, d \in Depth : \A a : Flagged(u, d, a)' <=> Flagged(u, d, a)
    BY <1>1 DEF Flagged
<1>4. ASSUME NEW a \in Array, a # b \/ delegated[t]
      PROVE  /\ Owned(a)' <=> Owned(a)
             /\ Unowned(a)' <=> Unowned(a)
  <2>1. a # 0
      BY ObserverAssumption DEF Array
  <2>2. \A u \in Thread : waiting'[u] = a /\ ~delegated'[u]
                             <=> waiting[u] = a /\ ~delegated[u]
      BY <1>0, <1>1, <1>4, <2>1
  <2> QED BY <1>1, <1>3, <2>2, SameOwner
<1>5. Delegation'
    BY <1>1, <1>3 DEF Own, Delegation
<1>6. CASE delegated[t]
  <2>1. mem' = mem
      BY <1>6 DEF ScanDone, KeepForMe
  <2> QED BY <1>4, <1>5, <1>6, <2>1 DEF Own, Accounted
<1>7. CASE ~delegated[t]
  <2>1. mem' = [mem EXCEPT ![b] = "freed"]
      BY <1>0, <1>7 DEF ScanDone, KeepForMe, FreeArray
  <2>2. Owned(b)
      BY <1>0, <1>2, <1>7 DEF Own, Accounted, Unowned, NoWaiter
  <2>3. OwnedByWaiter(b, t)
      BY <1>0, <1>7, <2>2 DEF Owned, OwnedByList, OwnedByReplacer, OwnedByWaiter,
                              OwnedByNotification, NoWaiter
  <2>4. Unowned(b)'
      BY <1>1, <1>3, <2>3 DEF OwnedByWaiter, Unowned, Unlinked, NoReplacer, NoWaiter, NoFlag
  <2>5. \A a \in Array : mem'[a] = IF a = b THEN "freed" ELSE mem[a]
      BY <2>1 DEF TypeOK, Typed
  <2>6. Accounted'
      BY <1>4, <2>4, <2>5 DEF Own, Accounted
  <2> QED BY <1>5, <2>6 DEF Own
<1> QED BY <1>6, <1>7

(***************************************************************************)
(* The count of an observer covers the arrays that it is in                *)
(***************************************************************************)
Books == Roles /\ NewIsUnknown /\ CountsAreCovered

\* The threads in observe or unobserve.
BusyAt == {"add", "remove", "scan", "scanned"}

\* Sets of arrays, and of lists of an observer, have a size.
LEMMA Sizes ==
    /\ \A S : S \subseteq Array => IsFiniteSet(S) /\ Cardinality(S) \in Nat
    /\ \A e \in Observer : \A S :
          S \subseteq ListsOf[e] => IsFiniteSet(S) /\ Cardinality(S) \in Nat
<1>1. IsFiniteSet(Array)
    BY FS_Interval, ObserverAssumption DEF Array
<1>2. \A S : S \subseteq Array => IsFiniteSet(S)
    BY <1>1, FS_Subset
<1>3. \A e \in Observer : \A S : S \subseteq ListsOf[e] => IsFiniteSet(S)
    BY ListsAssumption, FS_Subset
<1> QED BY <1>2, <1>3, FS_CardinalityType

\* The sets that are counted are such sets.
LEMMA HoldingType ==
    ASSUME NEW e \in Observer
    PROVE  /\ Holding(e) \subseteq Array /\ Holding(e)' \subseteq Array
           /\ Removed(e) \subseteq ListsOf[e] /\ Removed(e)' \subseteq ListsOf[e]
BY DEF Holding, Removed

\* How the count of an observer may change with the arrays that it is in and the
\* lists that it was removed from.
LEMMA CoverSame ==
    ASSUME NEW e \in Observer, count \in [Observer -> Int],
           count[e] >= Cardinality(Holding(e)) - Cardinality(Removed(e)),
           Holding(e)' = Holding(e), Removed(e) \subseteq Removed(e)', count'[e] = count[e]
    PROVE  count'[e] >= Cardinality(Holding(e)') - Cardinality(Removed(e)')
<1>1. Cardinality(Removed(e)) <= Cardinality(Removed(e)')
    BY Sizes, HoldingType, FS_Subset
<1> DEFINE h == Cardinality(Holding(e)) r == Cardinality(Removed(e))
           q == Cardinality(Removed(e)')
<1>2. h \in Nat /\ r \in Nat /\ q \in Nat
    BY Sizes, HoldingType
<1>3. count[e] \in Int /\ count[e] >= h - r /\ r <= q
    BY <1>1
<1>4. Cardinality(Holding(e)') = h
    OBVIOUS
<1> HIDE DEF h, r, q
<1>5. count[e] >= h - q
    BY <1>2, <1>3
<1> QED BY <1>4, <1>5 DEF q

LEMMA CoverAdd ==
    ASSUME NEW e \in Observer, count \in [Observer -> Int],
           count[e] >= Cardinality(Holding(e)) - Cardinality(Removed(e)),
           NEW c, c \notin Holding(e), Holding(e)' = Holding(e) \cup {c},
           Removed(e) \subseteq Removed(e)', count'[e] = count[e] + 1
    PROVE  count'[e] >= Cardinality(Holding(e)') - Cardinality(Removed(e)')
<1>1. Cardinality(Removed(e)) <= Cardinality(Removed(e)')
    BY Sizes, HoldingType, FS_Subset
<1>2. Cardinality(Holding(e)') = Cardinality(Holding(e)) + 1
    BY Sizes, HoldingType, FS_AddElement
<1> DEFINE h == Cardinality(Holding(e)) r == Cardinality(Removed(e))
           q == Cardinality(Removed(e)')
<1>3. h \in Nat /\ r \in Nat /\ q \in Nat
    BY Sizes, HoldingType
<1>4. count[e] \in Int /\ count[e] >= h - r /\ r <= q
    BY <1>1
<1>5. Cardinality(Holding(e)') = h + 1
    BY <1>2
<1> HIDE DEF h, r, q
<1>6. count'[e] >= (h + 1) - q
    BY <1>3, <1>4
<1> QED BY <1>5, <1>6 DEF q

LEMMA CoverFree ==
    ASSUME NEW e \in Observer, count \in [Observer -> Int], count'[e] \in Int,
           count[e] >= Cardinality(Holding(e)) - Cardinality(Removed(e)),
           NEW b \in Holding(e), Holding(e)' = Holding(e) \ {b},
           Removed(e)' = Removed(e), count'[e] >= count[e] - 1
    PROVE  count'[e] >= Cardinality(Holding(e)') - Cardinality(Removed(e)')
<1>1. Cardinality(Holding(e)') = Cardinality(Holding(e)) - 1
    BY Sizes, HoldingType, FS_RemoveElement
<1> DEFINE h == Cardinality(Holding(e)) r == Cardinality(Removed(e))
<1>2. h \in Nat /\ r \in Nat
    BY Sizes, HoldingType
<1>3. count[e] \in Int /\ count[e] >= h - r
    OBVIOUS
<1>4. Cardinality(Holding(e)') = h - 1 /\ Cardinality(Removed(e)') = r
    BY <1>1
<1> HIDE DEF h, r
<1>5. count'[e] >= h - 1 - r
    BY <1>2, <1>3
<1> QED BY <1>4, <1>5

LEMMA CoverRemove ==
    ASSUME NEW e \in Observer, count \in [Observer -> Int],
           count[e] >= Cardinality(Holding(e)) - Cardinality(Removed(e)),
           Holding(e)' = Holding(e), NEW l, l \notin Removed(e),
           Removed(e)' = Removed(e) \cup {l}, count'[e] = count[e] - 1
    PROVE  count'[e] >= Cardinality(Holding(e)') - Cardinality(Removed(e)')
<1>1. Cardinality(Removed(e)') = Cardinality(Removed(e)) + 1
    BY Sizes, HoldingType, FS_AddElement
<1> DEFINE h == Cardinality(Holding(e)) r == Cardinality(Removed(e))
<1>2. h \in Nat /\ r \in Nat
    BY Sizes, HoldingType
<1>3. count[e] \in Int /\ count[e] >= h - r
    OBVIOUS
<1>4. Cardinality(Holding(e)') = h /\ Cardinality(Removed(e)') = r + 1
    BY <1>1
<1> HIDE DEF h, r
<1>5. count[e] - 1 >= h - (r + 1)
    BY <1>2, <1>3
<1> QED BY <1>4, <1>5

\* The initial states.
LEMMA BooksInit == Init => Books
<1> SUFFICES ASSUME Init PROVE Books
    OBVIOUS
<1>1. Roles
    BY ObserverAssumption DEF Init, Roles
<1>2. NewIsUnknown
    BY ObserverAssumption DEF Init, NewIsUnknown, Unknown
<1>3. CountsAreCovered
    BY DEF Init, CountsAreCovered
<1> QED BY <1>1, <1>2, <1>3 DEF Books

\* A step that leaves the lists, the arrays and the observers as they are.
LEMMA QuietBooks ==
    ASSUME TypeOK, Books, UNCHANGED <<mem, on, content, data, count, object, who, todo>>,
           \A u \in Thread : /\ pc[u] \in BusyAt => pc'[u] \in BusyAt
                             /\ pc'[u] = "remove" => pc[u] = "remove"
    PROVE  Books'
<1>1. Roles'
    BY DEF Books, Roles, BusyAt
<1>2. NewIsUnknown'
    BY DEF Books, NewIsUnknown, Unknown
<1>3. CountsAreCovered'
    BY DEF Books, CountsAreCovered, Holding, Removed
<1> QED BY <1>1, <1>2, <1>3 DEF Books

\* An array is freed.
LEMMA FreeBooks ==
    ASSUME TypeOK, Books, NEW t \in Thread, NEW b \in Array, mem[b] = "live",
           FreeArray(t, b), UNCHANGED <<on, content, object, who, todo>>,
           \A u \in Thread : /\ pc[u] \in BusyAt => pc'[u] \in BusyAt
                             /\ pc'[u] = "remove" => pc[u] = "remove"
    PROVE  Books'
<1>1. Roles'
    BY DEF Books, Roles, BusyAt
<1>2. PICK lost \in SUBSET {e \in content[b] : Counting(t, e)} :
         count' = [e \in Observer |->
                      IF e \in content[b] \ lost THEN count[e] - 1 ELSE count[e]]
    BY DEF FreeArray
<1>3. \A e \in Observer :
         /\ count'[e] \in Int
         /\ count'[e] >= count[e] - 1
         /\ e \notin content[b] => count'[e] = count[e] /\ data'[e] = data[e]
         /\ data'[e] \in {data[e], "freed"}
    BY <1>2 DEF FreeArray, TypeOK, Typed
<1>4. NewIsUnknown'
    BY <1>3 DEF Books, NewIsUnknown, Unknown
<1>5. CountsAreCovered'
  <2> SUFFICES ASSUME NEW e \in Observer, data'[e] # "unused"
               PROVE  count'[e] >= Cardinality(Holding(e)') - Cardinality(Removed(e)')
      BY DEF CountsAreCovered
  <2>1. mem' = [mem EXCEPT ![b] = "freed"]
      BY DEF FreeArray
  <2>2. Holding(e)' = Holding(e) \ {b}
      BY <2>1 DEF Holding, TypeOK, Typed
  <2>3. Removed(e)' = Removed(e)
      BY DEF Removed
  <2>4. data[e] # "unused"
      BY <1>3 DEF Books, NewIsUnknown, Unknown
  <2>5. /\ count[e] >= Cardinality(Holding(e)) - Cardinality(Removed(e))
        /\ count \in [Observer -> Int]
      BY <2>4 DEF Books, CountsAreCovered, TypeOK, Typed
  <2>6. CASE e \in content[b]
    <3>1. b \in Holding(e)
        BY <2>6 DEF Holding
    <3> QED BY <1>3, <2>2, <2>3, <2>5, <3>1, CoverFree
  <2>7. CASE e \notin content[b]
    <3>1. Holding(e)' = Holding(e)
        BY <2>2, <2>7 DEF Holding
    <3> QED BY <1>3, <2>3, <2>5, <2>7, <3>1, CoverSame
  <2> QED BY <2>6, <2>7
<1> QED BY <1>1, <1>4, <1>5 DEF Books

\* An observer is made.
LEMMA ObserveBooks ==
    ASSUME TypeOK, Books, NEW t \in Thread, NEW e \in Observer, Observe(t, e)
    PROVE  Books'
<1>1. /\ pc[t] = "client" /\ who[t] \notin Observer /\ object[e] = "new" /\ Unknown(e)
      /\ UNCHANGED <<on, mem, content, count>>
      /\ \A x \in Observer : /\ object'[x] = IF x = e THEN "observing" ELSE object[x]
                             /\ data'[x] = IF x = e THEN "live" ELSE data[x]
      /\ \A u \in Thread : /\ who'[u] = IF u = t THEN e ELSE who[u]
                           /\ pc'[u] = IF u = t THEN "add" ELSE pc[u]
                           /\ u # t => todo'[u] = todo[u]
  <2>1. object[e] = "new" /\ Unknown(e)
      BY DEF Observe, Books, NewIsUnknown
  <2>2. pc[t] = "client" /\ who[t] \notin Observer
      BY DEF Observe, Call, Goto, Books, Roles
  <2> QED BY <2>1, <2>2 DEF Observe, Call, Goto, TypeOK, Typed, lists, arrays
<1>2. Roles'
  <2>1. ASSUME NEW u \in Thread
        PROVE  /\ who'[u] \in Observer => pc'[u] \in BusyAt
               /\ pc'[u] = "remove" => /\ object'[who'[u]] = "leaving"
                                       /\ todo'[u] \subseteq ListsOf[who'[u]]
    <3>1. CASE u = t
        BY <1>1, <3>1 DEF BusyAt
    <3>2. CASE u # t
      <4>1. pc'[u] = pc[u] /\ who'[u] = who[u] /\ todo'[u] = todo[u]
          BY <1>1, <3>2
      <4>2. /\ who[u] \in Observer => pc[u] \in BusyAt
            /\ pc[u] = "remove" => /\ object[who[u]] = "leaving"
                                   /\ todo[u] \subseteq ListsOf[who[u]]
          BY DEF Books, Roles, BusyAt
      <4>3. object' = [object EXCEPT ![e] = "observing"] /\ who[u] # e
          BY <1>1 DEF Observe, Unknown
      <4> QED BY <4>1, <4>2, <4>3 DEF TypeOK, Typed
    <3> QED BY <3>1, <3>2
  <2>2. \A u, v \in Thread : who'[u] \in Observer /\ who'[u] = who'[v] => u = v
      BY <1>1 DEF Books, Roles, Unknown
  <2> QED BY <2>1, <2>2 DEF Roles, BusyAt
<1>3. NewIsUnknown'
    BY <1>1 DEF Books, NewIsUnknown, Unknown
<1>4. CountsAreCovered'
  <2> SUFFICES ASSUME NEW x \in Observer, data'[x] # "unused"
               PROVE  count'[x] >= Cardinality(Holding(x)') - Cardinality(Removed(x)')
      BY DEF CountsAreCovered
  <2>1. CASE x = e
    <3>1. Holding(x)' = {} /\ Removed(x)' = {} /\ count'[x] = 0
        BY <1>1, <2>1 DEF Holding, Removed, Unknown
    <3> QED BY <3>1, FS_EmptySet
  <2>2. CASE x # e
    <3>1. Holding(x)' = Holding(x)
        BY <1>1 DEF Holding
    <3>2. Removed(x)' = Removed(x)
        BY <1>1, <2>2, ZenonT(60) DEF Removed
    <3>3. /\ count[x] >= Cardinality(Holding(x)) - Cardinality(Removed(x))
          /\ count \in [Observer -> Int]
        BY <1>1, <2>2 DEF Books, CountsAreCovered, TypeOK, Typed
    <3> QED BY <1>1, <3>1, <3>2, <3>3, CoverSame
  <2> QED BY <2>1, <2>2
<1> QED BY <1>2, <1>3, <1>4 DEF Books

\* An observer leaves.
LEMMA UnobserveBooks ==
    ASSUME TypeOK, Books, NEW t \in Thread, NEW e \in Observer, Unobserve(t, e)
    PROVE  Books'
<1>1. /\ pc[t] = "client" /\ who[t] \notin Observer /\ object[e] = "observing"
      /\ \A u \in Thread : who[u] # e
      /\ UNCHANGED <<on, mem, content, data, count>>
      /\ \A x \in Observer : object'[x] = IF x = e THEN "leaving" ELSE object[x]
      /\ \A u \in Thread : /\ who'[u] = IF u = t THEN e ELSE who[u]
                           /\ pc'[u] = IF u = t THEN "remove" ELSE pc[u]
                           /\ todo'[u] = IF u = t THEN ListsOf[e] ELSE todo[u]
    BY ZenonT(60) DEF Unobserve, Call, Goto, TypeOK, Typed, Books, Roles, lists, arrays
<1>2. Roles'
  <2>1. ASSUME NEW u \in Thread
        PROVE  /\ who'[u] \in Observer => pc'[u] \in BusyAt
               /\ pc'[u] = "remove" => /\ object'[who'[u]] = "leaving"
                                       /\ todo'[u] \subseteq ListsOf[who'[u]]
    <3>1. CASE u = t
        BY <1>1, <3>1 DEF BusyAt
    <3>2. CASE u # t
      <4>1. pc'[u] = pc[u] /\ who'[u] = who[u] /\ todo'[u] = todo[u]
          BY <1>1, <3>2
      <4>2. /\ who[u] \in Observer => pc[u] \in BusyAt
            /\ pc[u] = "remove" => /\ object[who[u]] = "leaving"
                                   /\ todo[u] \subseteq ListsOf[who[u]]
          BY DEF Books, Roles, BusyAt
      <4>3. object' = [object EXCEPT ![e] = "leaving"] /\ who[u] # e
          BY <1>1 DEF Unobserve
      <4> QED BY <4>1, <4>2, <4>3 DEF TypeOK, Typed
    <3> QED BY <3>1, <3>2
  <2>2. \A u, v \in Thread : who'[u] \in Observer /\ who'[u] = who'[v] => u = v
      BY <1>1 DEF Books, Roles
  <2> QED BY <2>1, <2>2 DEF Roles, BusyAt
<1>3. NewIsUnknown'
    BY <1>1 DEF Books, NewIsUnknown, Unknown
<1>4. CountsAreCovered'
  <2> SUFFICES ASSUME NEW x \in Observer, data'[x] # "unused"
               PROVE  count'[x] >= Cardinality(Holding(x)') - Cardinality(Removed(x)')
      BY DEF CountsAreCovered
  <2>1. Holding(x)' = Holding(x)
      BY <1>1 DEF Holding
  <2>2. Removed(x)' = Removed(x)
    <3>1. CASE x = e
        BY <1>1, <3>1 DEF Removed
    <3>2. CASE x # e
        BY <1>1, <3>2, ZenonT(60) DEF Removed
    <3> QED BY <3>1, <3>2
  <2>3. /\ count[x] >= Cardinality(Holding(x)) - Cardinality(Removed(x))
        /\ count \in [Observer -> Int]
      BY <1>1 DEF Books, CountsAreCovered, TypeOK, Typed
  <2> QED BY <1>1, <2>1, <2>2, <2>3, CoverSame
<1> QED BY <1>2, <1>3, <1>4 DEF Books

\* The new array was not allocated before.
LEMMA NewArrayIsUnused ==
    ASSUME TypeOK, Safe, Own, last < MaxArrays
    PROVE  last + 1 \in Array /\ mem[last + 1] # "live"
<1>1. last + 1 \in Array /\ last \in Nat
    BY ObserverAssumption DEF TypeOK, Typed, Array
<1>2. ~Owned(last + 1)
  <2>1. \A k \in List : current[k] <= last /\ current[k] \in Int
      BY ObserverAssumption DEF Safe, Bounded, TypeOK, Typed
  <2>2. \A u \in Thread : waiting[u] <= last /\ waiting[u] \in Int
      BY ObserverAssumption DEF Safe, Bounded, TypeOK, Typed
  <2>3. \A u \in Thread : \A a \in olds[u] : a <= last /\ a \in Int
      BY ObserverAssumption DEF Safe, Bounded, TypeOK, Typed, Array
  <2>4. \A u \in Thread, d \in Depth : frame[u][d].array <= last /\ frame[u][d].array \in Int
      BY ObserverAssumption DEF Safe, Bounded, TypeOK, Typed, Frame
  <2> QED BY <1>1, <2>1, <2>2, <2>3, <2>4
          DEF Owned, OwnedByList, OwnedByReplacer, OwnedByWaiter, OwnedByNotification, Flagged
<1> QED BY <1>1, <1>2 DEF Own, Accounted

\* The observer is added to a list.
LEMMA AddBooks ==
    ASSUME TypeOK, Busy, Safe, Own, Books, NEW t \in Thread, NEW l \in List, Add(t, l)
    PROVE  Books'
<1>0. PICK c, w : c = last + 1 /\ w = who[t]
    OBVIOUS
<1>1. /\ pc[t] = "add" /\ w \in Observer /\ l \in todo[t]
      /\ c \in Array /\ mem[c] # "live"
  <2>1. pc[t] = "add" /\ last < MaxArrays /\ l \in todo[t]
      BY DEF Add, Goto, NewArray
  <2> QED BY <1>0, <2>1, NewArrayIsUnused DEF Busy
<1>2. /\ UNCHANGED <<data, object, who>> /\ pc' = pc
      /\ \A a \in Array : /\ mem'[a] = IF a = c THEN "live" ELSE mem[a]
                          /\ content'[a] = IF a = c THEN on[l] \cup {w} ELSE content[a]
    BY <1>0 DEF Add, NewArray, Goto, TypeOK, Typed
<1>3. /\ \A x \in Observer : count'[x] = IF x \in on[l] \cup {w} THEN count[x] + 1
                                                                 ELSE count[x]
      /\ \A k \in List : on'[k] = IF k = l THEN on[l] \cup {w} ELSE on[k]
      /\ \A u \in Thread : todo'[u] = IF u = t THEN todo[t] \ {l} ELSE todo[u]
    BY <1>0 DEF Add, Counted, TypeOK, Typed
<1>4. Roles'
    BY <1>1, <1>2, <1>3 DEF Books, Roles
<1>5. NewIsUnknown'
  <2> SUFFICES ASSUME NEW e \in Observer, object[e] = "new" PROVE Unknown(e)'
      BY <1>2 DEF Books, NewIsUnknown
  <2>1. Unknown(e) /\ e # w
      BY <1>0 DEF Books, NewIsUnknown, Unknown
  <2> QED BY <1>2, <1>3, <2>1 DEF Unknown
<1>6. CountsAreCovered'
  <2> SUFFICES ASSUME NEW e \in Observer, data[e] # "unused"
               PROVE  count'[e] >= Cardinality(Holding(e)') - Cardinality(Removed(e)')
      BY <1>2 DEF CountsAreCovered
  <2>1. /\ count[e] >= Cardinality(Holding(e)) - Cardinality(Removed(e))
        /\ count \in [Observer -> Int]
      BY DEF Books, CountsAreCovered, TypeOK, Typed
  <2>2. Removed(e) \subseteq Removed(e)'
      BY <1>2, <1>3 DEF Removed
  <2>3. CASE e \in on[l] \cup {w}
    <3>1. Holding(e)' = Holding(e) \cup {c} /\ c \notin Holding(e)
        BY <1>1, <1>2, <2>3 DEF Holding
    <3> QED BY <1>3, <2>1, <2>2, <2>3, <3>1, CoverAdd
  <2>4. CASE e \notin on[l] \cup {w}
    <3>1. Holding(e)' = Holding(e)
        BY <1>1, <1>2, <2>4 DEF Holding
    <3> QED BY <1>3, <2>1, <2>2, <2>4, <3>1, CoverSame
  <2> QED BY <2>3, <2>4
<1> QED BY <1>4, <1>5, <1>6 DEF Books

\* The observer is removed from a list.
LEMMA RemoveBooks ==
    ASSUME TypeOK, Busy, Safe, Own, Books, NEW t \in Thread, NEW l \in List, Remove(t, l)
    PROVE  Books'
<1>0. PICK c, w : c = last + 1 /\ w = who[t]
    OBVIOUS
<1>1. /\ pc[t] = "remove" /\ w \in Observer /\ l \in todo[t]
      /\ c \in Array /\ mem[c] # "live"
  <2>1. pc[t] = "remove" /\ last < MaxArrays /\ l \in todo[t]
      BY DEF Remove, Goto, NewArray
  <2> QED BY <1>0, <2>1, NewArrayIsUnused DEF Busy
<1>2. /\ UNCHANGED <<data, object, who>> /\ pc' = pc
      /\ \A a \in Array : /\ mem'[a] = IF a = c THEN "live" ELSE mem[a]
                          /\ content'[a] = IF a = c THEN on[l] \ {w} ELSE content[a]
    BY <1>0 DEF Remove, NewArray, Goto, TypeOK, Typed
<1>3. /\ \A x \in Observer : count'[x] = IF x = w THEN count[x] - 1
                                         ELSE IF x \in on[l] THEN count[x] + 1
                                         ELSE count[x]
      /\ \A k \in List : on'[k] = IF k = l THEN on[l] \ {w} ELSE on[k]
      /\ \A u \in Thread : todo'[u] = IF u = t THEN todo[t] \ {l} ELSE todo[u]
    BY <1>0 DEF Remove, TypeOK, Typed
<1>4. object[w] = "leaving" /\ l \in ListsOf[w] /\ \A u \in Thread : who[u] = w => u = t
    BY <1>0, <1>1 DEF Books, Roles
<1>5. Roles'
    BY <1>1, <1>2, <1>3 DEF Books, Roles
<1>6. NewIsUnknown'
  <2> SUFFICES ASSUME NEW e \in Observer, object[e] = "new" PROVE Unknown(e)'
      BY <1>2 DEF Books, NewIsUnknown
  <2>1. Unknown(e) /\ e # w
      BY <1>0 DEF Books, NewIsUnknown, Unknown
  <2> QED BY <1>2, <1>3, <2>1 DEF Unknown
<1>7. CountsAreCovered'
  <2> SUFFICES ASSUME NEW e \in Observer, data[e] # "unused"
               PROVE  count'[e] >= Cardinality(Holding(e)') - Cardinality(Removed(e)')
      BY <1>2 DEF CountsAreCovered
  <2>1. /\ count[e] >= Cardinality(Holding(e)) - Cardinality(Removed(e))
        /\ count \in [Observer -> Int]
      BY DEF Books, CountsAreCovered, TypeOK, Typed
  <2>2. CASE e = w
    <3>1. Holding(e)' = Holding(e)
        BY <1>1, <1>2, <2>2 DEF Holding
    <3>2. l \notin Removed(e)
        BY <1>0, <1>1, <1>4, <2>2 DEF Removed
    <3>3. Removed(e)' = Removed(e) \cup {l}
        BY <1>0, <1>1, <1>2, <1>3, <1>4, <2>2 DEF Removed
    <3> QED BY <1>3, <2>1, <2>2, <3>1, <3>2, <3>3, CoverRemove
  <2>3. CASE e # w
    <3>1. Removed(e) \subseteq Removed(e)'
        BY <1>0, <1>2, <1>3, <2>3 DEF Removed
    <3>2. CASE e \in on[l]
      <4>1. Holding(e)' = Holding(e) \cup {c} /\ c \notin Holding(e)
          BY <1>1, <1>2, <2>3, <3>2 DEF Holding
      <4> QED BY <1>3, <2>1, <2>3, <3>1, <3>2, <4>1, CoverAdd
    <3>3. CASE e \notin on[l]
      <4>1. Holding(e)' = Holding(e)
          BY <1>1, <1>2, <2>3, <3>3 DEF Holding
      <4> QED BY <1>3, <2>1, <2>3, <3>1, <3>3, <4>1, CoverSame
    <3> QED BY <3>2, <3>3
  <2> QED BY <2>2, <2>3
<1> QED BY <1>5, <1>6, <1>7 DEF Books

\* The call returns.
LEMMA ReturnBooks ==
    ASSUME TypeOK, Busy, Books, NEW t \in Thread, Return(t)
    PROVE  Books'
<1>0. PICK w : w = who[t]
    OBVIOUS
<1>1. /\ w \in Observer /\ todo[t] = {}
      /\ UNCHANGED <<on, mem, content, data, count, todo>>
      /\ \A x \in Observer : object'[x] = IF x = w /\ object[x] = "leaving" THEN "freed"
                                                                           ELSE object[x]
      /\ \A u \in Thread : /\ who'[u] = IF u = t THEN NoObserver ELSE who[u]
                           /\ pc'[u] = IF u = t THEN "client" ELSE pc[u]
    BY <1>0 DEF Return, TypeOK, Typed, Busy, lists, arrays
<1>2. \A u \in Thread : who[u] = w => u = t
    BY <1>0, <1>1 DEF Books, Roles
<1>3. Roles'
  <2>1. ASSUME NEW u \in Thread
        PROVE  /\ who'[u] \in Observer => pc'[u] \in BusyAt
               /\ pc'[u] = "remove" => /\ object'[who'[u]] = "leaving"
                                       /\ todo'[u] \subseteq ListsOf[who'[u]]
    <3>1. CASE u = t
        BY <1>1, <3>1, ObserverAssumption
    <3>2. CASE u # t
      <4>1. pc'[u] = pc[u] /\ who'[u] = who[u] /\ todo'[u] = todo[u] /\ who[u] # w
          BY <1>1, <1>2, <3>2
      <4>2. /\ who[u] \in Observer => pc[u] \in BusyAt
            /\ pc[u] = "remove" => /\ object[who[u]] = "leaving"
                                   /\ todo[u] \subseteq ListsOf[who[u]]
          BY DEF Books, Roles, BusyAt
      <4>3. pc[u] = "remove" => who[u] \in Observer
          BY DEF Busy
      <4> QED BY <1>1, <4>1, <4>2, <4>3
    <3> QED BY <3>1, <3>2
  <2>2. \A u, v \in Thread : who'[u] \in Observer /\ who'[u] = who'[v] => u = v
      BY <1>1, ObserverAssumption DEF Books, Roles
  <2> QED BY <2>1, <2>2 DEF Roles, BusyAt
<1>4. NewIsUnknown'
  <2> SUFFICES ASSUME NEW e \in Observer
               PROVE  /\ object'[e] = "new" => Unknown(e)'
                      /\ data'[e] = "unused" => object'[e] = "new"
      BY DEF NewIsUnknown
  <2>1. /\ object[e] = "new" => Unknown(e)
        /\ data[e] = "unused" => object[e] = "new"
      BY DEF Books, NewIsUnknown
  <2>2. e # NoObserver
      BY ObserverAssumption
  <2> QED BY <1>1, <2>1, <2>2 DEF Unknown
<1>5. CountsAreCovered'
  <2> SUFFICES ASSUME NEW e \in Observer, data[e] # "unused"
               PROVE  count'[e] >= Cardinality(Holding(e)') - Cardinality(Removed(e)')
      BY <1>1 DEF CountsAreCovered
  <2>1. Holding(e)' = Holding(e)
      BY <1>1 DEF Holding
  <2>2. Removed(e) \subseteq Removed(e)'
      BY <1>0, <1>1, <1>2, ObserverAssumption DEF Removed
  <2>3. /\ count[e] >= Cardinality(Holding(e)) - Cardinality(Removed(e))
        /\ count \in [Observer -> Int]
      BY DEF Books, CountsAreCovered, TypeOK, Typed
  <2> QED BY <1>1, <2>1, <2>2, <2>3, CoverSame
<1> QED BY <1>3, <1>4, <1>5 DEF Books

(***************************************************************************)
(* Lists are counted                                                       *)
(***************************************************************************)
\* The initial states.
LEMMA OwnInit == Init => Own
<1> SUFFICES ASSUME Init PROVE Accounted /\ Delegation
    BY DEF Own
<1>1. Accounted
  <2> SUFFICES ASSUME NEW a \in Array PROVE Unowned(a)
      BY DEF Init, Accounted
  <2>1. a # 0
      BY ObserverAssumption DEF Array
  <2>2. NoFlag(a)
      BY DEF Init, NoFlag, Flagged, NoFrame, NewFrame
  <2> QED BY <2>1, <2>2 DEF Init, Unowned, Unlinked, NoReplacer, NoWaiter
<1>2. Delegation
    BY DEF Init, Delegation
<1> QED BY <1>1, <1>2

\* Every step keeps the owners of the arrays.
LEMMA OwnStep ==
    ASSUME TypeOK, Safe, Own, [Next]_vars
    PROVE  Own'
<1>1. ASSUME UNCHANGED <<current, mem, olds, waiting, delegated, frame>>
      PROVE  Own'
    BY <1>1, QuietOwn DEF Flagged
<1>2. CASE UNCHANGED vars
    BY <1>1, <1>2 DEF vars, lists, arrays, frames, waits
<1>3. ASSUME NEW t \in Thread, Step(t) \/ Start(t)
      PROVE  Own'
  <2>1. CASE Notify(t)
      BY <2>1, NotifyOwn
  <2>2. CASE PushRead(t)
      BY <2>2, PushReadOwn
  <2>3. CASE Register(t)
      BY <2>3, RegisterOwn
  <2>4. CASE CallObserver(t)
      BY <2>4, CallObserverOwn
  <2>5. CASE CallbackReturn(t)
      BY <1>1, <2>5 DEF CallbackReturn, lists, arrays, frames, waits
  <2>6. CASE Pop(t)
      BY <2>6, PopOwn
  <2>7. CASE NotifyDone(t)
      BY <2>7, NotifyDoneOwn
  <2>8. ASSUME NEW e \in Observer, Observe(t, e) \/ Unobserve(t, e)
        PROVE  Own'
      BY <1>1, <2>8 DEF Observe, Unobserve, lists, arrays, frames
  <2>9. ASSUME NEW l \in List, Add(t, l) \/ Remove(t, l)
        PROVE  Own'
    <3>1. CASE Add(t, l)
        BY <3>1, ReplaceOwn DEF Add, frames
    <3>2. CASE Remove(t, l)
        BY <3>2, ReplaceOwn DEF Remove, frames
    <3> QED BY <2>9, <3>1, <3>2
  <2>10. CASE Await(t)
      BY <2>10, AwaitOwn
  <2>11. CASE ScanSelf(t)
      BY <2>11, ScanSelfOwn
  <2>12. CASE ScanDone(t)
      BY <2>12, ScanDoneOwn
  <2>13. CASE Return(t)
      BY <1>1, <2>13 DEF Return, lists, arrays, frames
  <2>14. ASSUME NEW u \in Thread, Scan(t, u)
         PROVE  Own'
      BY <1>1, <2>14 DEF Scan, lists, arrays, frames
  <2> QED BY <1>3, <2>1, <2>2, <2>3, <2>4, <2>5, <2>6, <2>7, <2>8, <2>9, <2>10, <2>11,
             <2>12, <2>13, <2>14 DEF Step, Start
<1> QED BY <1>2, <1>3 DEF Next

\* The notification lets go of the array.
LEMMA PopBooks ==
    ASSUME TypeOK, Safe, Own, Books, NEW t \in Thread, Pop(t)
    PROVE  Books'
<1>0. PICK n, b : n = depth[t] /\ b = Top(t).array
    OBVIOUS
<1>1. \A u \in Thread : /\ pc[u] \in BusyAt => pc'[u] \in BusyAt
                        /\ pc'[u] = "remove" => pc[u] = "remove"
    BY DEF Pop, Goto, TypeOK, Typed, BusyAt
<1>2. UNCHANGED <<on, content, object, who, todo>>
    BY DEF Pop, lists, waits
<1>3. CASE ~PopFrees(t)
    BY <1>1, <1>2, <1>3, QuietBooks DEF Pop
<1>4. CASE PopFrees(t)
  <2>1. n \in Depth /\ Top(t) = frame[t][n] /\ pc[t] = "iterate"
      BY <1>0, TopType DEF Pop, Goto, TypeOK, WellFormed, ThreadOK, Top
  <2>2. Top(t).registered /\ b # 0
    <3>1. /\ frame[t][n].registered <=>
                n < depth[t] \/ (n = depth[t] /\ pc[t] \notin {"list", "register"})
          /\ frame[t][n].registered => frame[t][n].array # 0
        BY <2>1 DEF TypeOK, WellFormed, ThreadOK
    <3> QED BY <1>0, <2>1, <3>1
  <2>3. b \in 0..MaxArrays
      BY <1>0, <2>1 DEF TypeOK, Typed, Frame
  <2>4. b \in Array
      BY <2>2, <2>3, ObserverAssumption DEF Array
  <2>5. Flagged(t, n, b)
      BY <1>0, <1>4, <2>1, <2>2 DEF Flagged, PopFrees
  <2>6. mem[b] = "live"
      BY <2>1, <2>4, <2>5 DEF Own, Accounted, Unowned, NoFlag
  <2>7. FreeArray(t, b)
      BY <1>0, <1>4 DEF Pop
  <2> QED BY <1>1, <1>2, <2>4, <2>6, <2>7, FreeBooks
<1> QED BY <1>3, <1>4

\* The wait ends.
LEMMA ScanDoneBooks ==
    ASSUME TypeOK, Own, Books, NEW t \in Thread, ScanDone(t)
    PROVE  Books'
<1>0. PICK b : b = waiting[t]
    OBVIOUS
<1>1. \A u \in Thread : /\ pc[u] \in BusyAt => pc'[u] \in BusyAt
                        /\ pc'[u] = "remove" => pc[u] = "remove"
    BY DEF ScanDone, Goto, TypeOK, Typed, BusyAt
<1>2. UNCHANGED <<on, content, object, who, todo>>
    BY DEF ScanDone, lists
<1>3. CASE KeepForMe(t)
    BY <1>1, <1>2, <1>3, QuietBooks DEF ScanDone
<1>4. CASE ~KeepForMe(t)
  <2>1. b \in Array
    <3>1. waiting[t] # 0
        BY DEF ScanDone, Goto, TypeOK, WellFormed, ThreadOK
    <3> QED BY <1>0, <3>1, ObserverAssumption DEF TypeOK, Typed, Array
  <2>2. mem[b] = "live"
      BY <1>0, <1>4, <2>1 DEF KeepForMe, Own, Accounted, Unowned, NoWaiter
  <2>3. FreeArray(t, b)
      BY <1>0, <1>4 DEF ScanDone
  <2> QED BY <1>1, <1>2, <2>1, <2>2, <2>3, FreeBooks
<1> QED BY <1>3, <1>4

\* Every step keeps what is known of the counts.
LEMMA BooksStep ==
    ASSUME TypeOK, Busy, Safe, Own, Books, [Next]_vars
    PROVE  Books'
<1>1. CASE UNCHANGED vars
  <2>1. UNCHANGED <<mem, on, content, data, count, object, who, todo, pc>>
      BY <1>1 DEF vars, lists, arrays, observers, waits
  <2> QED BY <2>1, QuietBooks
<1>2. ASSUME NEW t \in Thread, Step(t) \/ Start(t)
      PROVE  Books'
  <2>1. ASSUME UNCHANGED <<mem, on, content, data, count, object, who, todo>>,
               NEW p, NEW q, pc[t] = p, pc' = [pc EXCEPT ![t] = q],
               q # "remove", p \in BusyAt => q \in BusyAt
        PROVE  Books'
    <3>1. \A u \in Thread : /\ pc[u] \in BusyAt => pc'[u] \in BusyAt
                            /\ pc'[u] = "remove" => pc[u] = "remove"
        BY <2>1 DEF TypeOK, Typed
    <3> QED BY <2>1, <3>1, QuietBooks
  <2>2. CASE Notify(t)
      BY <2>1, <2>2 DEF Notify, Call, Goto, lists, arrays, observers, waits, BusyAt
  <2>3. CASE PushRead(t)
      BY <2>1, <2>3 DEF PushRead, Goto, lists, arrays, observers, waits, BusyAt
  <2>4. CASE Register(t)
      BY <2>1, <2>4 DEF Register, Goto, lists, arrays, observers, waits, BusyAt
  <2>5. CASE CallObserver(t)
      BY <2>1, <2>5 DEF CallObserver, Goto, lists, arrays, observers, waits, BusyAt
  <2>6. CASE CallbackReturn(t)
      BY <2>1, <2>6 DEF CallbackReturn, Goto, lists, arrays, observers, waits, BusyAt
  <2>7. CASE Pop(t)
      BY <2>7, PopBooks
  <2>8. CASE NotifyDone(t)
      BY <2>1, <2>8 DEF NotifyDone, Goto, lists, arrays, observers, waits, BusyAt
  <2>9. ASSUME NEW e \in Observer, Observe(t, e) \/ Unobserve(t, e)
        PROVE  Books'
      BY <2>9, ObserveBooks, UnobserveBooks
  <2>10. ASSUME NEW l \in List, Add(t, l) \/ Remove(t, l)
         PROVE  Books'
      BY <2>10, AddBooks, RemoveBooks
  <2>11. CASE Await(t)
      BY <2>1, <2>11 DEF Await, lists, arrays, observers, BusyAt
  <2>12. CASE ScanSelf(t)
      BY <2>1, <2>12 DEF ScanSelf, Goto, lists, arrays, observers, BusyAt
  <2>13. CASE ScanDone(t)
      BY <2>13, ScanDoneBooks
  <2>14. CASE Return(t)
      BY <2>14, ReturnBooks
  <2>15. ASSUME NEW u \in Thread, Scan(t, u)
         PROVE  Books'
      BY <2>1, <2>15 DEF Scan, Goto, lists, arrays, observers, BusyAt
  <2> QED BY <1>2, <2>2, <2>3, <2>4, <2>5, <2>6, <2>7, <2>8, <2>9, <2>10, <2>11,
             <2>12, <2>13, <2>14, <2>15 DEF Step, Start
<1> QED BY <1>1, <1>2 DEF Next

\* What covers an observer that nobody is adding or removing.
LEMMA BooksCover == Books => CountCoversArrays
<1> SUFFICES ASSUME Books, NEW e \in Observer, data[e] # "unused",
                    \A t \in Thread : who[t] # e
             PROVE  count[e] >= Cardinality({a \in Array : mem[a] = "live" /\ e \in content[a]})
                       - (IF object[e] = "observing" THEN 0 ELSE Cardinality(ListsOf[e]))
    BY DEF CountCoversArrays
<1>1. count[e] >= Cardinality(Holding(e)) - Cardinality(Removed(e))
    BY DEF Books, CountsAreCovered
<1>2. Removed(e) = IF object[e] = "observing" THEN {} ELSE ListsOf[e]
    BY DEF Removed
<1>3. Cardinality(Removed(e)) = IF object[e] = "observing" THEN 0 ELSE Cardinality(ListsOf[e])
    BY <1>2, FS_EmptySet
<1> QED BY <1>1, <1>3 DEF Holding

\* What is true of all reachable states.
Kept == TypeOK /\ Busy /\ Safe /\ Own /\ Books

LEMMA AlwaysKept == Spec => []Kept
<1>1. Init => Kept
    BY TypeInit, SafeInit, OwnInit, BooksInit DEF Kept, Init, Busy
<1>2. Kept /\ [Next]_vars => Kept'
    BY TypeStep, BusyStep, SafeStep, OwnStep, BooksStep DEF Kept
<1> QED BY <1>1, <1>2, PTL DEF Spec

\* Every allocated array is the array of one list, or is to be freed by one: the
\* thread that replaced it, or the notification that this thread left it to.
\* The count of an observer covers the arrays that it is in, also when
\* decrements of it are lost in a data race.
THEOREM ListsAreAlwaysCounted == Spec => []ListsAreCounted
<1>1. Kept => ListsAreCounted
    BY AccountedIsOwned, BooksCover DEF Kept, Own, ListsAreCounted
<1> QED BY <1>1, AlwaysKept, PTL

(***************************************************************************)
(* Threads do not wait for each other in a circle                          *)
(***************************************************************************)
\* Two threads wait for different arrays.
LEMMA WaitsDiffer ==
    ASSUME TypeOK, Own, NEW t \in Thread, NEW u \in Thread, t # u, waiting[t] # 0
    PROVE  waiting[t] # waiting[u]
<1>0. PICK b : b = waiting[t]
    OBVIOUS
<1> SUFFICES ASSUME waiting[u] = b PROVE FALSE
    BY <1>0
<1>1. b \in Array
    BY <1>0, ObserverAssumption DEF TypeOK, Typed, Array
<1>2. /\ delegated[t] => \E d \in Depth : Flagged(t, d, b)
      /\ delegated[u] => \E d \in Depth : Flagged(u, d, b)
    BY <1>0 DEF Own, Delegation
<1>3. Owned(b)
    BY <1>0, <1>1, <1>2 DEF Own, Accounted, Unowned, NoWaiter, NoFlag
<1>4. CASE delegated[t] /\ delegated[u]
  <2>1. \E v \in Thread, d \in Depth : OwnedByNotification(b, v, d)
      BY <1>2, <1>3, <1>4
      DEF Owned, OwnedByList, OwnedByReplacer, OwnedByWaiter, OwnedByNotification, NoFlag
  <2> QED BY <1>2, <1>4, <2>1 DEF OwnedByNotification
<1>5. CASE ~(delegated[t] /\ delegated[u])
  <2>1. \E v \in Thread : OwnedByWaiter(b, v)
      BY <1>0, <1>3, <1>5
      DEF Owned, OwnedByList, OwnedByReplacer, OwnedByWaiter, OwnedByNotification, NoWaiter
  <2> QED BY <1>0, <1>2, <1>5, <2>1 DEF OwnedByWaiter, NoFlag
<1> QED BY <1>4, <1>5

\* A step that starts no use of an array and replaces none.
LEMMA QuietOrdered ==
    ASSUME TypeOK, Ordered, UNCHANGED <<current, last>>,
           \A u \in Thread, d \in Depth :
              frame'[u][d].registered => /\ frame[u][d].registered
                                         /\ frame'[u][d].array = frame[u][d].array,
           \A u \in Thread :
              /\ pc[u] \in BusyAt => pc'[u] \in BusyAt \/ olds'[u] = {}
              /\ olds'[u] \subseteq olds[u]
              /\ waiting'[u] \in {0, waiting[u]} \cup olds[u]
    PROVE  Ordered'
<1>1. ASSUME NEW u \in Thread
      PROVE  pc'[u] \notin BusyAt => olds'[u] = {}
    BY DEF Ordered, UsesAreOlder, BusyAt
<1>2. ASSUME NEW u \in Thread, NEW d \in Depth, frame'[u][d].registered
      PROVE  /\ waiting'[u] # 0 => frame'[u][d].array <= waiting'[u]
             /\ \A a \in olds'[u] : frame'[u][d].array <= a
    BY <1>2 DEF Ordered, UsesAreOlder
<1> QED BY <1>1, <1>2 DEF Ordered, UsesAreOlder, BusyAt

\* A frame of a thread is replaced by one that is not registered, or uses the
\* same array.
LEMMA FrameOrdered ==
    ASSUME TypeOK, Ordered, NEW t \in Thread, NEW n \in Depth, NEW f,
           frame' = [frame EXCEPT ![t][n] = f],
           f.registered => frame[t][n].registered /\ f.array = frame[t][n].array,
           UNCHANGED <<current, last, olds, waiting>>,
           NEW q, pc' = [pc EXCEPT ![t] = q], pc[t] \notin BusyAt
    PROVE  Ordered'
<1>1. \A u \in Thread, d \in Depth :
         frame'[u][d] = IF u = t /\ d = n THEN f ELSE frame[u][d]
    BY DEF TypeOK, Typed
<1>2. \A u \in Thread : pc[u] \in BusyAt => pc'[u] \in BusyAt
    BY DEF TypeOK, Typed
<1> QED BY <1>1, <1>2, QuietOrdered

\* The use of an array starts in a thread that waits for nothing.
LEMMA RegisterOrdered ==
    ASSUME TypeOK, Ordered, NEW t \in Thread, Register(t)
    PROVE  Ordered'
<1>1. /\ pc[t] = "register" /\ pc' = [pc EXCEPT ![t] = "iterate"]
      /\ UNCHANGED <<current, last, olds, waiting>>
    BY DEF Register, Goto, lists, arrays, waits
<1>2. olds[t] = {} /\ waiting[t] = 0
    BY <1>1 DEF Ordered, UsesAreOlder, TypeOK, WellFormed, ThreadOK
<1>3. \A u \in Thread \ {t} : /\ \A d \in Depth : frame'[u][d] = frame[u][d]
                              /\ pc'[u] = pc[u]
    BY <1>1 DEF Register, TypeOK, Typed
<1>4. UsesAreOlder'
    BY <1>1, <1>2, <1>3 DEF Ordered, UsesAreOlder
<1> QED BY <1>1, <1>4 DEF Ordered

\* A new array takes the place of the newest one.
LEMMA ReplaceOrdered ==
    ASSUME TypeOK, Safe, OneList, Ordered,
           NEW t \in Thread, NEW l \in List, NEW es, NewArray(l, es),
           pc' = pc, pc[t] \in BusyAt,
           olds' = [olds EXCEPT ![t] = @ \cup ({current[l]} \ {0})],
           UNCHANGED <<frame, waiting>>
    PROVE  Ordered'
<1>1. \A u \in Thread : olds'[u] = IF u = t THEN olds[t] \cup ({last} \ {0}) ELSE olds[u]
    BY DEF Ordered, TypeOK, Typed
<1>2. \A u \in Thread, d \in Depth : frame[u][d].array <= last
    BY DEF Safe, Bounded
<1>3. UsesAreOlder'
    BY <1>1, <1>2 DEF Ordered, UsesAreOlder, BusyAt
<1>4. \A k \in List : current'[k] = last'
    BY DEF NewArray, TypeOK, Typed, OneList
<1> QED BY <1>3, <1>4 DEF Ordered

\* Every step keeps the order.
LEMMA OrderedStep ==
    ASSUME TypeOK, Safe, OneList, Ordered, [Next]_vars
    PROVE  Ordered'
<1>1. ASSUME UNCHANGED <<current, last, olds, waiting, frame>>, NEW t \in Thread,
             NEW p, NEW q, pc[t] = p, pc' = [pc EXCEPT ![t] = q],
             p \in BusyAt => q \in BusyAt \/ olds[t] = {}
      PROVE  Ordered'
  <2>1. \A u \in Thread : pc[u] \in BusyAt => pc'[u] \in BusyAt \/ olds'[u] = {}
      BY <1>1 DEF TypeOK, Typed
  <2> QED BY <1>1, <2>1, QuietOrdered
<1>2. CASE UNCHANGED vars
  <2>1. UNCHANGED <<current, last, olds, waiting, frame, pc>>
      BY <1>2 DEF vars, lists, arrays, frames, waits
  <2> QED BY <2>1, QuietOrdered
<1>3. ASSUME NEW t \in Thread, Step(t) \/ Start(t)
      PROVE  Ordered'
  <2>1. CASE Notify(t)
    <3>1. PICK v \in Event : frame' = [frame EXCEPT ![t][depth[t] + 1] = NewFrame(Path[v])]
        BY <2>1 DEF Notify
    <3>2. depth[t] + 1 \in Depth
        BY <2>1, ObserverAssumption DEF Notify, TypeOK, Typed, Depth
    <3>3. ~NewFrame(Path[v]).registered
        BY DEF NewFrame
    <3> QED BY <2>1, <3>1, <3>2, <3>3, FrameOrdered
            DEF Notify, Call, Goto, lists, arrays, waits, BusyAt
  <2>2. CASE PushRead(t)
    <3> DEFINE a == current[Head(Top(t).lists)]
               f == IF a = 0 THEN [Top(t) EXCEPT !.lists = Tail(@)]
                             ELSE [Top(t) EXCEPT !.array = a]
    <3>1. depth[t] \in Depth /\ Top(t) \in Frame /\ pc[t] = "list"
        BY <2>2, TopType DEF PushRead, TypeOK, WellFormed, ThreadOK
    <3>2. ~Top(t).registered
        BY <3>1, ObserverAssumption DEF TypeOK, Typed, WellFormed, ThreadOK, Top, Depth
    <3>3. ~f.registered
        BY <3>1, <3>2 DEF Frame
    <3>4. frame' = [frame EXCEPT ![t][depth[t]] = f]
        BY <2>2 DEF PushRead, Top
    <3>5. /\ pc' = [pc EXCEPT ![t] = IF a = 0 THEN "list" ELSE "register"]
          /\ UNCHANGED <<current, last, olds, waiting>>
        BY <2>2 DEF PushRead, Goto, lists, arrays, waits
    <3> HIDE DEF a, f
    <3> QED BY <3>1, <3>3, <3>4, <3>5, FrameOrdered DEF BusyAt
  <2>3. CASE Register(t)
      BY <2>3, RegisterOrdered
  <2>4. CASE CallObserver(t)
    <3>1. depth[t] \in Depth /\ Top(t) \in Frame
        BY <2>4, TopType DEF CallObserver, Goto, TypeOK, WellFormed, ThreadOK
    <3>2. PICK e \in Top(t).left : frame' = [frame EXCEPT ![t][depth[t]].left = @ \ {e}]
        BY <2>4 DEF CallObserver
    <3>3. \A u \in Thread, d \in Depth : SameUse(frame'[u][d], frame[u][d])
        BY <3>1, <3>2, SMTT(30) DEF SameUse, TypeOK, Typed, Frame
    <3>4. /\ \A u \in Thread : pc[u] \in BusyAt => pc'[u] \in BusyAt
          /\ UNCHANGED <<current, last, olds, waiting>>
        BY <2>4 DEF CallObserver, Goto, TypeOK, Typed, lists, arrays, waits, BusyAt
    <3> QED BY <3>3, <3>4, QuietOrdered DEF SameUse
  <2>5. CASE CallbackReturn(t)
      BY <1>1, <2>5 DEF CallbackReturn, Goto, lists, arrays, frames, waits, BusyAt
  <2>6. CASE Pop(t)
    <3>1. depth[t] \in Depth
        BY <2>6, TopType DEF Pop, Goto, TypeOK, WellFormed, ThreadOK
    <3>2. ~NewFrame(Tail(Top(t).lists)).registered
        BY DEF NewFrame
    <3>3. UNCHANGED <<current, last, olds, waiting>>
        BY <2>6 DEF Pop, lists, waits
    <3> QED BY <2>6, <3>1, <3>2, <3>3, FrameOrdered DEF Pop, Goto, BusyAt
  <2>7. CASE NotifyDone(t)
    <3>1. depth[t] \in Depth
        BY <2>7, TopType DEF NotifyDone, TypeOK, WellFormed, ThreadOK
    <3>2. ~NoFrame.registered
        BY DEF NoFrame, NewFrame
    <3> QED BY <2>7, <3>1, <3>2, FrameOrdered
            DEF NotifyDone, Goto, lists, arrays, waits, BusyAt
  <2>8. ASSUME NEW e \in Observer, Observe(t, e) \/ Unobserve(t, e)
        PROVE  Ordered'
      BY <1>1, <2>8 DEF Observe, Unobserve, Call, Goto, lists, arrays, frames, BusyAt
  <2>9. ASSUME NEW l \in List, Add(t, l) \/ Remove(t, l)
        PROVE  Ordered'
    <3>1. CASE Add(t, l)
      <4>1. pc' = pc /\ pc[t] \in BusyAt
          BY <3>1 DEF Add, Goto, TypeOK, Typed, BusyAt
      <4> QED BY <3>1, <4>1, ReplaceOrdered DEF Add, frames
    <3>2. CASE Remove(t, l)
      <4>1. pc' = pc /\ pc[t] \in BusyAt
          BY <3>2 DEF Remove, Goto, TypeOK, Typed, BusyAt
      <4> QED BY <3>2, <4>1, ReplaceOrdered DEF Remove, frames
    <3> QED BY <2>9, <3>1, <3>2
  <2>10. CASE Await(t)
    <3>1. PICK b \in olds[t] : /\ waiting' = [waiting EXCEPT ![t] = b]
                               /\ olds' = [olds EXCEPT ![t] = @ \ {b}]
        BY <2>10 DEF Await
    <3>2. \A u \in Thread : /\ pc[u] \in BusyAt => pc'[u] \in BusyAt
                            /\ olds'[u] \subseteq olds[u]
                            /\ waiting'[u] \in {0, waiting[u]} \cup olds[u]
        BY <2>10, <3>1 DEF Await, TypeOK, Typed, BusyAt
    <3> QED BY <2>10, <3>2, QuietOrdered DEF Await, lists, arrays, frames
  <2>11. CASE ScanSelf(t)
    <3>1. pc' = pc /\ UNCHANGED <<current, last, olds, waiting>>
        BY <2>11 DEF ScanSelf, Goto, TypeOK, Typed, lists, arrays
    <3> QED BY <2>11, <3>1, ScanSelfFrames, QuietOrdered
  <2>12. CASE ScanDone(t)
    <3>1. \A u \in Thread : /\ pc[u] \in BusyAt => pc'[u] \in BusyAt
                            /\ waiting'[u] \in {0, waiting[u]}
        BY <2>12 DEF ScanDone, Goto, TypeOK, Typed, BusyAt
    <3>2. UNCHANGED <<current, last, olds, frame>>
        BY <2>12 DEF ScanDone, lists, frames
    <3> QED BY <3>1, <3>2, QuietOrdered
  <2>13. CASE Return(t)
      BY <1>1, <2>13 DEF Return, lists, arrays, frames, BusyAt
  <2>14. ASSUME NEW u \in Thread, Scan(t, u)
         PROVE  Ordered'
      BY <1>1, <2>14 DEF Scan, Goto, lists, arrays, frames, BusyAt
  <2> QED BY <1>3, <2>1, <2>2, <2>3, <2>4, <2>5, <2>6, <2>7, <2>8, <2>9, <2>10, <2>11,
             <2>12, <2>13, <2>14 DEF Step, Start
<1> QED BY <1>2, <1>3 DEF Next

\* In the order of the arrays, who waits for an array that a waiting thread uses
\* waits for the older one.
LEMMA OrderedWaits == TypeOK /\ Own /\ Ordered => WaitsAreOrdered
<1> SUFFICES ASSUME TypeOK, Own, Ordered, NEW t \in Thread, NEW u \in Thread, t # u,
                    waiting[t] # 0, waiting[u] # 0, Uses(u, waiting[t]) # {}
             PROVE  waiting[t] < waiting[u]
    BY DEF WaitsAreOrdered
<1>1. waiting[t] <= waiting[u]
    BY DEF Uses, Ordered, UsesAreOlder
<1>2. waiting[t] # waiting[u]
    BY WaitsDiffer
<1> QED BY <1>1, <1>2, ObserverAssumption DEF TypeOK, Typed

\* When every observer is in the same list, a thread that waits for an array
\* that a waiting thread uses waits for an older array than that thread does: no
\* circle of threads wait for each other, however many there are.  With two lists
\* they can, so that the hypothesis is needed.
THEOREM NoCircleOfWaits == Spec /\ OneList => []WaitsAreOrdered
<1>1. Init => Ordered
    BY DEF Init, Ordered, UsesAreOlder, NoFrame, NewFrame
<1>2. Kept /\ OneList /\ Ordered /\ [Next]_vars => Ordered'
    BY OrderedStep DEF Kept
<1>3. Kept /\ Ordered => WaitsAreOrdered
    BY OrderedWaits DEF Kept
<1>4. ASSUME OneList
      PROVE  Spec => []WaitsAreOrdered
  <2>1. Kept /\ Ordered /\ [Next]_vars => Ordered'
      BY <1>2, <1>4
  <2> QED BY <1>1, <1>3, <2>1, AlwaysKept, PTL DEF Spec
<1> QED BY <1>4
=============================================================================
