------------------------- MODULE ObjectStore_proofs -------------------------
(***************************************************************************)
(* Proofs about ObjectStore: its types, for every program, and its         *)
(* references, for the behaviours in which last references are dropped     *)
(* with care.                                                              *)
(*                                                                         *)
(* A thread has references to an object that its callers hold (held) and   *)
(* that its call carries (Carried).  The invariant RefInv says that the    *)
(* count of an object is their number, and why it stays so:                *)
(*   - an object that is bound, or that somebody found and has not claimed *)
(*     yet, is kept: somebody holds it, or is still initializing it        *)
(*     (NeededIsKept).  Only with that a claim by a thread that has no     *)
(*     reference, which redeclare and lookup make outside the scopeLock,   *)
(*     meets an object that stays;                                         *)
(*   - once the last reference is dropped, nobody else has the object, and *)
(*     one thread alone destructs it (LastIsLast, OneAtATime).             *)
(* Every step of a call takes a reference, drops one, hands one over or    *)
(* leaves the references alone.  The lemmas of the first half classify the *)
(* steps so, those of the second half show that each class keeps RefInv.   *)
(***************************************************************************)
EXTENDS ObjectStore, FiniteSetTheorems, TLAPS

(***************************************************************************)
(* The discipline                                                          *)
(***************************************************************************)
\* A last reference is dropped only when nobody is looking for the object, and
\* no corto_create gives up what it found: an object that another thread has
\* yet to define, whose constructor failed, or that was deleted meanwhile.
CreatesDefine == \A t \in Thread : op[t] = "create" => pc[t] \notin {"release", "destruct"}

Disciplined == Quiesce /\ CreatesDefine

InitNeverFails == "init" \notin MayFail

(***************************************************************************)
(* What a thread does with its object                                      *)
(***************************************************************************)
Initializing == {"init", "init_failed"}

Finding == {"redeclared", "lookup_claim"}

\* Between two steps of a call for which the caller has a reference.
Using == {"create_check", "construct", "set_valid", "notify_defined", "claim",
          "update_check", "update_lock", "updating", "update_end",
          "instant_lock", "instant_update", "instant_unlock"}

Releasing == {"release", "destruct", "destruct_check", "destructor", "clear_valid",
              "mark_deleted", "cleanup", "orphan", "decrement", "dealloc"}

\* Thread t dropped the last reference to its object.
Last(t) == \/ pc[t] = "dealloc"
           \/ pc[t] = "destruct" /\ cont[t] # "delete"

Count(t, o) == held[t][o] + Carried(t, o)

Tokens(o) == UNION {ReferencesOf(t, o) : t \in Thread}

\* The reference that a failed initializer leaves behind.
Orphaned(o) == IF hasParent[o] THEN 0 ELSE 1

\* Somebody can still claim object o without a reference to it.
Needed(o) == inScope = o \/ Found(o)

\* The declarer of an object has a reference that it did not hand out yet.
Keeps(t, o) == held[t][o] > 0 \/ (cur[t] = o /\ pc[t] \in Initializing)

(***************************************************************************)
(* The invariant                                                           *)
(***************************************************************************)
HeldIsCounted == held \in [Thread -> [Obj -> Nat]]

CountIsExact ==
    \A o \in Obj :
        /\ IsFiniteSet(Tokens(o))
        /\ mem[o] = "live" => refcount[o] = References(o) + Orphaned(o)
        /\ \A t \in Thread : Count(t, o) > 0 => mem[o] = "live"

\* A bound object and one that is about to be claimed has an owner.
NeededIsKept ==
    \A o \in Obj : /\ mem[o] = "live" /\ hasParent[o] /\ Needed(o)
                   => \E t \in Thread : Keeps(t, o)

BoundIsLive == \A o \in Obj : inScope = o => mem[o] = "live" /\ hasParent[o]

LastIsLast ==
    \A t \in Thread : Last(t) => /\ mem[cur[t]] = "live"
                                 /\ hasParent[cur[t]]
                                 /\ refcount[cur[t]] = 0

OneAtATime ==
    \A t, u \in Thread :
        t # u /\ cur[t] = cur[u] => /\ ~(Last(t) /\ Last(u))
                                    /\ ~(pc[t] \in Initializing /\ pc[u] \in Initializing)

\* Thread t is at no point that its call cannot reach.
PcInv(t) ==
    /\ pc[t] = "release" => cont[t] # "delete"
    /\ pc[t] \in Releasing => op[t] # "create"
    /\ pc[t] = "init_failed" => "init" \in MayFail
    /\ pc[t] = "create_check" => op[t] = "create"

CallInv(t) ==
    /\ PcInv(t)
    /\ pc[t] # "lookup_reset"
    /\ pc[t] # "idle" => mem[cur[t]] # "unused"
    /\ pc[t] \in Using => held[t][cur[t]] > 0
    /\ pc[t] \in Finding => mem[cur[t]] = "live" \/ "init" \in MayFail
    /\ pc[t] \in Initializing => hasParent[cur[t]]
    /\ pc[t] = "init_failed" => inScope # cur[t]

CallsInv == \A t \in Thread : CallInv(t)

RefInv == /\ HeldIsCounted /\ CountIsExact /\ NeededIsKept /\ BoundIsLive
          /\ LastIsLast /\ OneAtATime /\ CallsInv

(***************************************************************************)
(* The outcomes of the steps that have more than one                       *)
(***************************************************************************)
\* The end of a wait: the object is returned, or was deleted meanwhile.
ReadEndReturns(t) ==
    /\ Alive(t)
    /\ pc[t] = "read_end"
    /\ pc' = [pc EXCEPT ![t] = AfterDeclare(t)]
    /\ Return(t, cur[t])
    /\ readers' = [readers EXCEPT ![cur[t]] = @ \ {t}]
    /\ UNCHANGED <<memory, refcount, state, inScope, declaredBy, writer, cur, op,
                   cont, wasDefined, budget, history, fault>>

ReadEndRetries(t) ==
    /\ Alive(t)
    /\ pc[t] = "read_end_deleted"
    /\ pc' = [pc EXCEPT ![t] = "release"]
    /\ cont' = [cont EXCEPT ![t] = "retry"]
    /\ readers' = [readers EXCEPT ![cur[t]] = @ \ {t}]
    /\ UNCHANGED <<memory, refcount, state, inScope, declaredBy, writer, cur, op,
                   wasDefined, result, held, budget, history, fault>>

LEMMA ReadEndCases ==
  ASSUME NEW t, ReadEnd(t)
  PROVE  ReadEndReturns(t) \/ ReadEndRetries(t)
BY DEF ReadEnd, ReadEndReturns, ReadEndRetries, Goto

\* corto_create goes on with what it found, or gives it up.
CreateGoesOn(t, q) ==
    /\ Alive(t)
    /\ pc[t] = "create_check"
    /\ pc' = [pc EXCEPT ![t] = q]
    /\ UNCHANGED <<objVars, callVars, history, fault>>

CreateDeletes(t) ==
    /\ Alive(t)
    /\ pc[t] \in {"create_check", "construct"}
    /\ op[t] = "create" \/ pc[t] = "create_check"
    /\ pc' = [pc EXCEPT ![t] = "destruct"]
    /\ held' = [held EXCEPT ![t][cur[t]] = @ - 1]
    /\ cont' = [cont EXCEPT ![t] = "delete"]
    /\ UNCHANGED <<objVars, cur, op, wasDefined, result, budget, history, fault>>

LEMMA CreateDefineCases ==
  ASSUME NEW t, CreateDefine(t)
  PROVE  CreateGoesOn(t, "idle") \/ CreateGoesOn(t, "construct") \/ CreateDeletes(t)
BY DEF CreateDefine, CreateGoesOn, CreateDeletes, Goto, callVars

\* The constructor failed, in corto_define or corto_update.
DefineFails(t) ==
    /\ Alive(t)
    /\ pc[t] = "construct"
    /\ pc' = [pc EXCEPT ![t] = AfterDefine(t)]
    /\ UNCHANGED <<objVars, callVars, history, fault>>

LEMMA ConstructFailsCases ==
  ASSUME NEW t, ConstructFails(t)
  PROVE  DefineFails(t) \/ CreateDeletes(t)
BY DEF ConstructFails, DefineFails, CreateDeletes, Goto, callVars

\* A lookup claims what it found, or finds that it is being destructed.
LookupFinds(t) ==
    /\ Alive(t)
    /\ pc[t] = "lookup_claim"
    /\ ~GoingAway(cur[t])
    /\ pc' = [pc EXCEPT ![t] = "idle"]
    /\ refcount' = [refcount EXCEPT ![cur[t]] = @ + 1]
    /\ Return(t, cur[t])
    /\ UNCHANGED <<memory, state, inScope, declaredBy, lock, cur, op, cont,
                   wasDefined, budget, history, fault>>

LookupMisses(t) ==
    /\ Alive(t)
    /\ pc[t] = "lookup_claim"
    /\ GoingAway(cur[t])
    /\ pc' = [pc EXCEPT ![t] = "lookup_reset"]
    /\ refcount' = [refcount EXCEPT ![cur[t]] = @ + 1]
    /\ UNCHANGED <<memory, state, inScope, declaredBy, lock, callVars, history,
                   fault>>

LEMMA LookupClaimCases ==
  ASSUME NEW t, LookupClaim(t)
  PROVE  LookupFinds(t) \/ LookupMisses(t)
BY DEF LookupClaim, LookupFinds, LookupMisses, Goto, callVars

\* The end of a release: the call returns, and a redeclare with the object.
DoneReturns(t) ==
    /\ pc' = [pc EXCEPT ![t] = AfterDeclare(t)]
    /\ result' = [result EXCEPT ![t] = cur[t]]

DoneIdles(t) ==
    /\ pc' = [pc EXCEPT ![t] = "idle"]
    /\ UNCHANGED result

LEMMA ReleaseDoneCases ==
  ASSUME NEW t, NEW p, ReleaseDone(t, p)
  PROVE  pc[t] = p /\ (DoneReturns(t) \/ DoneIdles(t))
BY DEF ReleaseDone, DoneReturns, DoneIdles, Goto

\* A release, or the end of corto_destruct, gives up one reference of many, or
\* the last one.
Decrements(t) ==
    /\ Alive(t)
    /\ refcount' = [refcount EXCEPT ![cur[t]] = @ - 1]
    /\ fault' \in {fault, "negative_refcount"}
    /\ UNCHANGED <<memory, state, inScope, declaredBy, lock, cur, op, wasDefined,
                   held, budget, history>>

DropsOne(t) ==
    /\ Decrements(t)
    /\ pc[t] \in {"release", "decrement"}
    /\ refcount[cur[t]] # 1
    /\ pc[t] = "decrement" => cont[t] # "delete"
    /\ DoneReturns(t) \/ DoneIdles(t)
    /\ UNCHANGED cont

DropsOneOfTwo(t) ==
    /\ Decrements(t)
    /\ pc[t] = "decrement"
    /\ refcount[cur[t]] # 1
    /\ cont[t] = "delete"
    /\ pc' = [pc EXCEPT ![t] = "release"]
    /\ cont' = [cont EXCEPT ![t] = "none"]
    /\ UNCHANGED result

DropsLast(t, p, q) ==
    /\ Decrements(t)
    /\ pc[t] = p
    /\ refcount[cur[t]] = 1
    /\ pc' = [pc EXCEPT ![t] = q]
    /\ UNCHANGED <<cont, result>>

LEMMA ReleaseCases ==
  ASSUME NEW t, Release(t)
  PROVE  DropsOne(t) \/ DropsLast(t, "release", "destruct")
<1>1. Decrements(t)
  BY DEF Release, Decrements
<1>2. CASE refcount[cur[t]] = 1
  BY <1>1, <1>2 DEF Release, DropsLast, Goto
<1>3. CASE refcount[cur[t]] # 1
  BY <1>1, <1>3, ReleaseDoneCases DEF Release, DropsOne
<1> QED BY <1>2, <1>3

LEMMA DecrementCases ==
  ASSUME NEW t, Decrement(t)
  PROVE  DropsOne(t) \/ DropsOneOfTwo(t) \/ DropsLast(t, "decrement", "dealloc")
<1>1. Decrements(t)
  BY DEF Decrement, Decrements
<1>2. CASE refcount[cur[t]] = 1
  BY <1>1, <1>2 DEF Decrement, DropsLast, Goto
<1>3. CASE refcount[cur[t]] # 1 /\ cont[t] = "delete"
  BY <1>1, <1>3 DEF Decrement, DeleteReleases, DropsOneOfTwo, Goto
<1>4. CASE refcount[cur[t]] # 1 /\ cont[t] # "delete"
  BY <1>1, <1>4, ReleaseDoneCases DEF Decrement, DeleteReleases, DropsOne
<1> QED BY <1>2, <1>3, <1>4

(***************************************************************************)
(* Types                                                                   *)
(***************************************************************************)
LEMMA TypeStart ==
  ASSUME TypeOK, NEW t \in Thread, Start(t), UNCHANGED program
  PROVE  TypeOK'
<1> USE DEF TypeOK, ObjectsTyped, CallsTyped, PcSet
<1>1. DeclareExisting(t) => TypeOK'
  BY DEF DeclareExisting, objVars, history, Call, memory, state, lock, Goto,
     OpNames
<1>2. Lookup(t) => TypeOK'
  BY DEF Lookup, objVars, history, Call, memory, state, lock, Goto, OpNames
<1>3. UpdateEnd(t) => TypeOK'
  BY DEF UpdateEnd, objVars, callVars, history, Goto, Alive, memory, state,
     lock
<1>4. UpdateCancel(t) => TypeOK'
  BY DEF UpdateCancel, callVars, history, memory, state, Goto, Alive,
     WriteUnlock
<1>5. ASSUME NEW o \in Obj, DeclareNew(t, o) PROVE TypeOK'
  BY <1>5, StoreAssumption DEF DeclareNew, history, state, Call, Goto, OpNames
<1>6. ASSUME NEW o \in Obj, Define(t, o) PROVE TypeOK'
  BY <1>6 DEF Define, objVars, history, Call, memory, state, lock, Goto,
     OpNames
<1>7. ASSUME NEW o \in Obj, StartClaim(t, o) PROVE TypeOK'
  BY <1>7 DEF StartClaim, objVars, history, Call, memory, state, lock, Goto,
     OpNames
<1>8. ASSUME NEW o \in Obj, StartRelease(t, o) PROVE TypeOK'
  BY <1>8 DEF StartRelease, objVars, history, Call, memory, state, lock, Goto,
     OpNames, Conts
<1>9. ASSUME NEW o \in Obj, StartDelete(t, o) PROVE TypeOK'
  BY <1>9 DEF StartDelete, objVars, history, Call, memory, state, lock, Goto,
     OpNames, Conts
<1>10. ASSUME NEW o \in Obj, UpdateBegin(t, o) PROVE TypeOK'
  BY <1>10 DEF UpdateBegin, objVars, history, Call, memory, state, lock, Goto,
     OpNames
<1>11. ASSUME NEW o \in Obj, InstantUpdate(t, o) PROVE TypeOK'
  BY <1>11 DEF InstantUpdate, objVars, history, Call, memory, state, lock,
     Goto, OpNames
<1> QED BY <1>1, <1>2, <1>3, <1>4, <1>5, <1>6, <1>7, <1>8, <1>9, <1>10, <1>11
   DEF Start

LEMMA TypeStep ==
  ASSUME TypeOK, NEW t \in Thread, Step(t), UNCHANGED program
  PROVE  TypeOK'
<1> USE DEF TypeOK, ObjectsTyped, CallsTyped, PcSet
<1>1. InitSucceeds(t) => TypeOK'
  BY DEF InitSucceeds, objVars, history, Goto, Alive, Return, AfterDeclare,
     memory, state, lock
<1>2. InitFails(t) => TypeOK'
  BY StoreAssumption DEF InitFails, callVars, history, memory, state, lock,
     Goto, Alive
<1>3. InitFailed(t) => TypeOK'
  BY StoreAssumption DEF InitFailed, history, state, lock, Goto, Alive
<1>4. RedeclareClaim(t) => TypeOK'
  BY DEF RedeclareClaim, callVars, history, memory, state, lock, Goto, Alive
<1>5. RedeclareNoWait(t) => TypeOK'
  BY DEF RedeclareNoWait, objVars, history, Goto, Alive, Return, AfterDeclare,
     memory, state, lock
<1>6. RedeclareWait(t) => TypeOK'
  BY DEF RedeclareWait, objVars, callVars, history, Goto, Alive, memory,
     state, lock
<1>7. ReadBegin(t) => TypeOK'
  BY DEF ReadBegin, callVars, history, memory, state, Goto, Alive
<1>8. ReadDeleted(t) => TypeOK'
  BY DEF ReadDeleted, objVars, callVars, history, Goto, Alive, memory, state,
     lock
<1>9. AssertValid(t) => TypeOK'
  BY DEF AssertValid, objVars, callVars, history, Goto, Alive, memory, state,
     lock, Faults
<1>10. Construct(t) => TypeOK'
  BY DEF Construct, objVars, callVars, Goto, Alive, memory, state, lock
<1>11. SetValid(t) => TypeOK'
  BY DEF SetValid, callVars, history, memory, lock, Goto, Alive
<1>12. LookupReset(t) => TypeOK'
  BY StoreAssumption DEF LookupReset, history, memory, state, lock, Goto,
     Alive
<1>13. Claim(t) => TypeOK'
  BY DEF Claim, history, memory, state, lock, Goto, Alive
<1>14. Destruct(t) => TypeOK'
  BY DEF Destruct, callVars, history, memory, state, lock, Goto, Alive
<1>15. DestructCheck(t) => TypeOK'
  BY DEF DestructCheck, objVars, history, Goto, Alive, memory, state, lock
<1>16. ClearValid(t) => TypeOK'
  BY DEF ClearValid, callVars, history, memory, lock, Goto, Alive
<1>17. MarkDeleted(t) => TypeOK'
  BY DEF MarkDeleted, callVars, history, memory, lock, Goto, Alive
<1>18. Orphan(t) => TypeOK'
  BY StoreAssumption DEF Orphan, callVars, history, memory, state, lock, Goto,
     Alive
<1>19. UpdateCheck(t) => TypeOK'
  BY DEF UpdateCheck, objVars, callVars, history, Goto, Alive, memory, state,
     lock
<1>20. UpdateLock(t) => TypeOK'
  BY DEF UpdateLock, callVars, history, memory, state, Alive, WriteLock, Goto
<1>21. UpdateUnlock(t) => TypeOK'
  BY DEF UpdateUnlock, callVars, history, memory, state, Goto, Alive,
     WriteUnlock
<1>22. InstantLock(t) => TypeOK'
  BY DEF InstantLock, callVars, history, memory, state, Alive, WriteLock, Goto
<1>23. InstantNotify(t) => TypeOK'
  BY DEF InstantNotify, objVars, callVars, history, Goto, Alive, memory,
     state, lock
<1>24. InstantUnlock(t) => TypeOK'
  BY DEF InstantUnlock, callVars, history, memory, state, Goto, Alive,
     WriteUnlock
<1>25. ASSUME ReadEnd(t) PROVE TypeOK'
  <2> USE DEF Alive, memory, state, history
  <2>1. CASE ReadEndReturns(t)
    BY <2>1 DEF ReadEndReturns, Return, AfterDeclare
  <2>2. CASE ReadEndRetries(t)
    BY <2>2 DEF ReadEndRetries, Conts
  <2> QED BY <1>25, <2>1, <2>2, ReadEndCases
<1>26. ASSUME CreateDeletes(t) PROVE TypeOK'
  BY <1>26 DEF CreateDeletes, Alive, objVars, memory, state, lock, history, Conts
<1>27. ASSUME CreateDefine(t) PROVE TypeOK'
  <2>1. ASSUME NEW q \in {"idle", "construct"}, CreateGoesOn(t, q) PROVE TypeOK'
    BY <2>1 DEF CreateGoesOn, Alive, objVars, callVars, memory, state, lock, history
  <2> QED BY <1>26, <1>27, <2>1, CreateDefineCases
<1>28. ASSUME ConstructFails(t) PROVE TypeOK'
  <2>1. CASE DefineFails(t)
    BY <2>1 DEF DefineFails, AfterDefine, Alive, objVars, callVars, memory, state,
                lock, history
  <2> QED BY <1>26, <1>28, <2>1, ConstructFailsCases
<1>29. ASSUME cur[t] \in Obj, DeclaredByMeRemove(t, cur[t])
       PROVE  /\ declaredBy' \in [Obj -> Thread \cup {NoThread}]
              /\ writer' \in [Obj -> Thread \cup {NoThread}]
  <2>1. CASE declaredBy[cur[t]] = t
    <3>1. /\ declaredBy' = [declaredBy EXCEPT ![cur[t]] = NoThread]
          /\ writer' = [writer EXCEPT ![cur[t]] = NoThread]
      BY <1>29, <2>1 DEF DeclaredByMeRemove
    <3> QED BY <3>1
  <2>2. CASE declaredBy[cur[t]] # t
    <3>1. UNCHANGED <<declaredBy, writer>>
      BY <1>29, <2>2 DEF DeclaredByMeRemove
    <3> QED BY <3>1
  <2> QED BY <2>1, <2>2
<1>30. ASSUME NotifyDefined(t) PROVE TypeOK'
  <2>1. DeclaredByMeRemove(t, cur[t]) /\ cur[t] \in Obj
    BY <1>30 DEF NotifyDefined, Goto
  <2> QED
    BY <1>30, <1>29, <2>1 DEF NotifyDefined, Goto, AfterDefine, memory, state,
                              callVars, history
<1>31. ASSUME Cleanup(t) PROVE TypeOK'
  <2>1. cur[t] \in Obj
    BY <1>31 DEF Cleanup, Goto
  <2>2. /\ declaredBy' \in [Obj -> Thread \cup {NoThread}]
        /\ writer' \in [Obj -> Thread \cup {NoThread}]
    BY <1>29, <1>31, <2>1 DEF Cleanup
  <2> QED
    BY <1>31, <2>2 DEF Cleanup, Goto, memory, state, callVars, history
<1>32. ASSUME Destructor(t) PROVE TypeOK'
  <2>1. destructed' \in [Obj -> Nat] /\ fault' \in {"none"} \cup Faults
    BY <1>32, SMTT(30) DEF Destructor, Faults
  <2> QED
    BY <1>32, <2>1 DEF Destructor, Goto, Alive, objVars, callVars, memory, state,
                       lock
<1>33. ASSUME LookupClaim(t) PROVE TypeOK'
  <2> USE DEF Alive, memory, state, lock, history
  <2>1. CASE LookupFinds(t)
    BY <2>1 DEF LookupFinds, Return
  <2>2. CASE LookupMisses(t)
    BY <2>2 DEF LookupMisses, callVars
  <2> QED BY <1>33, <2>1, <2>2, LookupClaimCases
<1>34. ASSUME Decrements(t), pc' \in [Thread -> PcSet], cont' \in [Thread -> Conts],
              result' \in [Thread -> Obj \cup {NoObj}],
              \A u \in Thread \ {t} : pc'[u] = pc[u]
       PROVE  TypeOK'
  BY <1>34 DEF Decrements, Alive, memory, state, lock, history, Faults
<1>35. ASSUME Decrements(t), DoneReturns(t) \/ DoneIdles(t), UNCHANGED cont
       PROVE  TypeOK'
  <2>1. CASE DoneReturns(t)
    BY <1>34, <1>35, <2>1 DEF DoneReturns, AfterDeclare
  <2>2. CASE DoneIdles(t)
    BY <1>34, <1>35, <2>2 DEF DoneIdles
  <2> QED BY <1>35, <2>1, <2>2
<1>36. ASSUME NEW p, NEW q \in PcSet, DropsLast(t, p, q) PROVE TypeOK'
  BY <1>34, <1>36 DEF DropsLast
<1>37. ASSUME Release(t) PROVE TypeOK'
  BY <1>35, <1>36, <1>37, ReleaseCases DEF DropsOne
<1>38. ASSUME Decrement(t) PROVE TypeOK'
  <2>1. CASE DropsOneOfTwo(t)
    BY <1>34, <2>1 DEF DropsOneOfTwo, Conts
  <2> QED BY <1>35, <1>36, <1>38, <2>1, DecrementCases DEF DropsOne
<1>39. ASSUME Dealloc(t) PROVE TypeOK'
  <2>1. DoneReturns(t) \/ DoneIdles(t)
    BY <1>39, ReleaseDoneCases DEF Dealloc
  <2> USE <1>39 DEF Dealloc, Alive, state, lock, history
  <2>2. CASE DoneReturns(t)
    BY <2>2 DEF DoneReturns, AfterDeclare
  <2>3. CASE DoneIdles(t)
    BY <2>3 DEF DoneIdles
  <2> QED BY <2>1, <2>2, <2>3
<1> QED
  BY <1>1, <1>2, <1>3, <1>4, <1>5, <1>6, <1>7, <1>8, <1>9, <1>10, <1>11, <1>12,
     <1>13, <1>14, <1>15, <1>16, <1>17, <1>18, <1>19, <1>20, <1>21, <1>22, <1>23,
     <1>24, <1>25, <1>27, <1>28, <1>30, <1>31, <1>32, <1>33, <1>37, <1>38, <1>39
     DEF Step

LEMMA TypeInit == Init => TypeOK
<1> SUFFICES ASSUME Init PROVE TypeOK
  OBVIOUS
<1>1. ObjectsTyped
  BY StoreAssumption DEF Init, ObjectsTyped
<1>2. program \in Programs
  BY StoreAssumption DEF Init
<1>3. CallsTyped
  BY <1>2, StoreAssumption DEF Init, CallsTyped, PcSet, Conts, Programs
<1> QED BY <1>1, <1>3 DEF TypeOK

LEMMA TypeNext == TypeOK /\ [Next]_vars => TypeOK'
<1> SUFFICES ASSUME TypeOK, [Next]_vars PROVE TypeOK'
  OBVIOUS
<1>1. CASE UNCHANGED vars
  BY <1>1 DEF TypeOK, ObjectsTyped, CallsTyped, vars, objVars, threadVars, callVars,
              history, memory, state, lock
<1>2. ASSUME NEW t \in Thread, UseAfterFree(t), UNCHANGED program PROVE TypeOK'
  BY <1>2 DEF UseAfterFree, TypeOK, ObjectsTyped, CallsTyped, objVars, threadVars,
              callVars, history, memory, state, lock, Faults
<1>3. ASSUME NEW t \in Thread, Start(t), UNCHANGED program PROVE TypeOK'
  BY <1>3, TypeStart
<1>4. ASSUME NEW t \in Thread, Step(t), UNCHANGED program PROVE TypeOK'
  BY <1>4, TypeStep
<1> QED BY <1>1, <1>2, <1>3, <1>4 DEF Next

\* Every variable has its type, and a thread inside a call is there with an object,
\* whatever the program calls.
THEOREM TypeCorrect == Spec => []TypeOK
BY TypeInit, TypeNext, PTL DEF Spec

(***************************************************************************)
(* What a step does with the references to an object                       *)
(***************************************************************************)
\* Only thread t moves.
Moves(t) ==
    \A u \in Thread \ {t} :
        /\ pc'[u] = pc[u] /\ cur'[u] = cur[u]
        /\ op'[u] = op[u] /\ cont'[u] = cont[u]
        /\ held'[u] = held[u]

\* Thread t keeps the references that it has.
GoesOn(t) ==
    /\ Moves(t)
    /\ pc[t] # "idle"
    /\ UNCHANGED <<memory, refcount, held, cur>>
    /\ inScope' \in {inScope, NoObj}
    /\ \A o \in Obj : Carried(t, o)' = Carried(t, o)
    /\ pc'[t] \notin Finding \cup {"lookup_reset"}
    /\ pc'[t] \in Using => pc[t] \in Using
    /\ pc'[t] \in Initializing <=> pc[t] \in Initializing
    /\ pc'[t] = "init_failed" => inScope' = NoObj
    /\ ~Last(t)'

\* Thread t starts to use an object that it has a reference to.
Uses(t, o) ==
    /\ Moves(t)
    /\ pc[t] = "idle" /\ pc'[t] \in Using
    /\ cur' = [cur EXCEPT ![t] = o]
    /\ held[t][o] > 0
    /\ UNCHANGED <<memory, refcount, held, inScope>>

\* Thread t finds an object in the tree of the scope.
Finds(t) ==
    /\ Moves(t)
    /\ pc[t] = "idle" /\ pc'[t] \in Finding
    /\ inScope # NoObj
    /\ cur' = [cur EXCEPT ![t] = inScope]
    /\ UNCHANGED <<memory, refcount, held, inScope>>

\* The call of thread t hands the reference that it carries to its caller.
Hands(t) ==
    /\ Moves(t)
    /\ pc[t] \in {"init", "redeclare_check", "read_end"}
    /\ pc'[t] \in {"idle", "create_check"}
    /\ held' = [held EXCEPT ![t][cur[t]] = @ + 1]
    /\ UNCHANGED <<memory, refcount, inScope, cur>>

\* Thread t claims its object, for its caller or for the call itself.
Takes(t) ==
    /\ Moves(t)
    /\ Alive(t)
    /\ pc[t] \in Finding \cup {"claim", "destruct"}
    /\ refcount' = [refcount EXCEPT ![cur[t]] = @ + 1]
    /\ \/ /\ held' = [held EXCEPT ![t][cur[t]] = @ + 1]
          /\ Carried(t, cur[t]) = 0 /\ Carried(t, cur[t])' = 0
       \/ /\ held' = held
          /\ Carried(t, cur[t])' = Carried(t, cur[t]) + 1
    /\ pc'[t] \notin Finding \cup Using \cup Initializing \cup {"lookup_reset"}
    /\ ~Last(t)'
    /\ UNCHANGED <<memory, inScope, cur>>

\* The call of thread t drops a reference that it carries, the last one or not.
Drops(t) ==
    /\ Moves(t)
    /\ Alive(t)
    /\ pc[t] \in {"release", "decrement"}
    /\ refcount' = [refcount EXCEPT ![cur[t]] = @ - 1]
    /\ Carried(t, cur[t])' = Carried(t, cur[t]) - 1
    /\ pc'[t] \in {"idle", "release", "destruct", "dealloc"}
    /\ Last(t)' => refcount[cur[t]] = 1
    /\ UNCHANGED <<memory, inScope, cur, held>>

\* Thread t gives up a reference, for its call to drop: not the last one of an
\* object that somebody may still claim.
GivesUp(t, o) ==
    /\ Moves(t)
    /\ pc[t] = "idle" /\ pc'[t] \in {"release", "destruct"}
    /\ cur' = [cur EXCEPT ![t] = o]
    /\ held[t][o] > 0
    /\ held' = [held EXCEPT ![t][o] = @ - 1]
    /\ LastReference(t, o) => ~Needed(o)
    /\ Carried(t, o)' = 1
    /\ ~Last(t)'
    /\ UNCHANGED <<memory, refcount, inScope>>

\* The steps that neither take nor drop a reference.
Continues(t) ==
    \/ UpdateEnd(t) \/ UpdateCancel(t) \/ ReadEndRetries(t)
    \/ CreateGoesOn(t, "idle") \/ CreateGoesOn(t, "construct") \/ DefineFails(t)
    \/ InitFails(t) \/ RedeclareWait(t) \/ ReadBegin(t) \/ ReadDeleted(t)
    \/ AssertValid(t) \/ Construct(t) \/ SetValid(t) \/ NotifyDefined(t)
    \/ DestructCheck(t) \/ Destructor(t) \/ ClearValid(t) \/ MarkDeleted(t)
    \/ Cleanup(t) \/ Orphan(t) \/ UpdateCheck(t) \/ UpdateLock(t)
    \/ UpdateUnlock(t) \/ InstantLock(t) \/ InstantNotify(t) \/ InstantUnlock(t)

LEMMA GoesOnStep ==
  ASSUME TypeOK, NEW t \in Thread, PcInv(t), UNCHANGED program, CreatesDefine',
         Continues(t)
  PROVE  GoesOn(t) /\ PcInv(t)'
<1> USE DEF TypeOK, CallsTyped, PcSet, Conts, GoesOn, PcInv, Moves, Carried, GivenUp, Last,
            Finding, Using, Initializing, Releasing, MayFail
<1>1. InitFails(t) => GoesOn(t) /\ PcInv(t)'
  BY DEF InitFails, callVars, memory, Goto, Alive
<1>2. RedeclareWait(t) => GoesOn(t) /\ PcInv(t)'
  BY DEF RedeclareWait, objVars, callVars, Goto, Alive, memory
<1>3. ReadBegin(t) => GoesOn(t) /\ PcInv(t)'
  BY DEF ReadBegin, callVars, memory, Goto, Alive
<1>4. ReadDeleted(t) => GoesOn(t) /\ PcInv(t)'
  BY DEF ReadDeleted, objVars, callVars, Goto, Alive, memory
<1>5. AssertValid(t) => GoesOn(t) /\ PcInv(t)'
  BY DEF AssertValid, objVars, callVars, Goto, Alive, memory
<1>6. Construct(t) => GoesOn(t) /\ PcInv(t)'
  BY DEF Construct, objVars, callVars, Goto, Alive, memory
<1>7. SetValid(t) => GoesOn(t) /\ PcInv(t)'
  BY DEF SetValid, callVars, memory, Goto, Alive
<1>8. NotifyDefined(t) => GoesOn(t) /\ PcInv(t)'
  BY DEF NotifyDefined, callVars, memory, Goto, Alive, AfterDefine
<1>9. DestructCheck(t) => GoesOn(t) /\ PcInv(t)'
  BY DEF DestructCheck, objVars, Goto, Alive, memory
<1>10. Destructor(t) => GoesOn(t) /\ PcInv(t)'
  BY DEF Destructor, objVars, callVars, Goto, Alive, memory
<1>11. ClearValid(t) => GoesOn(t) /\ PcInv(t)'
  BY DEF ClearValid, callVars, memory, Goto, Alive
<1>12. MarkDeleted(t) => GoesOn(t) /\ PcInv(t)'
  BY DEF MarkDeleted, callVars, memory, Goto, Alive
<1>13. Cleanup(t) => GoesOn(t) /\ PcInv(t)'
  BY DEF Cleanup, callVars, memory, Goto, Alive
<1>14. Orphan(t) => GoesOn(t) /\ PcInv(t)'
  BY DEF Orphan, callVars, memory, Goto, Alive
<1>15. UpdateCheck(t) => GoesOn(t) /\ PcInv(t)'
  BY DEF UpdateCheck, objVars, callVars, Goto, Alive, memory
<1>16. UpdateLock(t) => GoesOn(t) /\ PcInv(t)'
  BY DEF UpdateLock, callVars, memory, Alive, WriteLock, Goto
<1>17. UpdateUnlock(t) => GoesOn(t) /\ PcInv(t)'
  BY DEF UpdateUnlock, callVars, memory, Goto, Alive
<1>18. InstantLock(t) => GoesOn(t) /\ PcInv(t)'
  BY DEF InstantLock, callVars, memory, Alive, WriteLock, Goto
<1>19. InstantNotify(t) => GoesOn(t) /\ PcInv(t)'
  BY DEF InstantNotify, objVars, callVars, Goto, Alive, memory
<1>20. InstantUnlock(t) => GoesOn(t) /\ PcInv(t)'
  BY DEF InstantUnlock, callVars, memory, Goto, Alive
<1>21. UpdateEnd(t) => GoesOn(t) /\ PcInv(t)'
  BY DEF UpdateEnd, objVars, callVars, Goto, Alive, memory
<1>22. UpdateCancel(t) => GoesOn(t) /\ PcInv(t)'
  BY DEF UpdateCancel, callVars, memory, Goto, Alive
<1>23. ReadEndRetries(t) => GoesOn(t) /\ PcInv(t)'
  BY DEF ReadEndRetries, CreatesDefine, memory, Alive
<1>24. ASSUME NEW q \in {"idle", "construct"}, CreateGoesOn(t, q) PROVE GoesOn(t) /\ PcInv(t)'
  BY <1>24 DEF CreateGoesOn, objVars, callVars, memory, Alive
<1>25. DefineFails(t) => GoesOn(t) /\ PcInv(t)'
  BY DEF DefineFails, AfterDefine, objVars, callVars, memory, Alive
<1> QED BY <1>1, <1>2, <1>3, <1>4, <1>5, <1>6, <1>7, <1>8, <1>9, <1>10, <1>11,
   <1>12, <1>13, <1>14, <1>15, <1>16, <1>17, <1>18, <1>19, <1>20, <1>21, <1>22,
   <1>23, <1>24, <1>25 DEF Continues

LEMMA UsesStep ==
  ASSUME TypeOK, NEW t \in Thread, PcInv(t), UNCHANGED program, NEW o \in Obj,
         \/ Define(t, o) \/ StartClaim(t, o) \/ UpdateBegin(t, o)
         \/ InstantUpdate(t, o)
  PROVE  Uses(t, o) /\ PcInv(t)'
<1> USE DEF TypeOK, CallsTyped, Uses, PcInv, Moves, Using, Releasing, MayFail, Call, Goto,
            objVars, memory
<1>1. Define(t, o) => Uses(t, o) /\ PcInv(t)'
  BY DEF Define
<1>2. StartClaim(t, o) => Uses(t, o) /\ PcInv(t)'
  BY DEF StartClaim
<1>3. UpdateBegin(t, o) => Uses(t, o) /\ PcInv(t)'
  BY DEF UpdateBegin
<1>4. InstantUpdate(t, o) => Uses(t, o) /\ PcInv(t)'
  BY DEF InstantUpdate
<1> QED BY <1>1, <1>2, <1>3, <1>4

LEMMA FindsStep ==
  ASSUME TypeOK, NEW t \in Thread, PcInv(t), UNCHANGED program,
         DeclareExisting(t) \/ Lookup(t)
  PROVE  Finds(t) /\ PcInv(t)'
BY DEF TypeOK, CallsTyped, Finds, PcInv, Moves, Finding, Releasing, MayFail,
       DeclareExisting, Lookup, Call, Goto, objVars, memory

LEMMA HandsStep ==
  ASSUME TypeOK, NEW t \in Thread, PcInv(t), UNCHANGED program,
         InitSucceeds(t) \/ RedeclareNoWait(t) \/ ReadEndReturns(t)
  PROVE  Hands(t) /\ PcInv(t)'
<1> USE DEF TypeOK, CallsTyped, Hands, PcInv, Moves, Releasing, MayFail, Return, Goto,
            AfterDeclare, Alive, objVars, memory
<1>1. InitSucceeds(t) => Hands(t) /\ PcInv(t)'
  BY DEF InitSucceeds
<1>2. RedeclareNoWait(t) => Hands(t) /\ PcInv(t)'
  BY DEF RedeclareNoWait
<1>3. ReadEndReturns(t) => Hands(t) /\ PcInv(t)'
  BY DEF ReadEndReturns
<1> QED BY <1>1, <1>2, <1>3

LEMMA TakesStep ==
  ASSUME TypeOK, NEW t \in Thread, PcInv(t), UNCHANGED program,
         RedeclareClaim(t) \/ LookupFinds(t) \/ Claim(t) \/ Destruct(t)
  PROVE  Takes(t) /\ PcInv(t)'
<1> USE DEF TypeOK, CallsTyped, PcSet, Conts, Takes, PcInv, Moves, Carried, GivenUp, Last, 
            Finding, Using, Initializing, Releasing, MayFail, Return, Goto, Alive, memory
<1>1. RedeclareClaim(t) => Takes(t) /\ PcInv(t)'
  BY DEF RedeclareClaim, callVars
<1>2. LookupFinds(t) => Takes(t) /\ PcInv(t)'
  BY DEF LookupFinds
<1>3. Claim(t) => Takes(t) /\ PcInv(t)'
  BY DEF Claim
<1>4. Destruct(t) => Takes(t) /\ PcInv(t)'
  BY DEF Destruct, callVars
<1> QED BY <1>1, <1>2, <1>3, <1>4

LEMMA DropsStep ==
  ASSUME TypeOK, NEW t \in Thread, PcInv(t), UNCHANGED program,
         \/ DropsOne(t) \/ DropsOneOfTwo(t)
         \/ DropsLast(t, "release", "destruct")
         \/ DropsLast(t, "decrement", "dealloc") /\ cont[t] # "delete"
  PROVE  Drops(t) /\ PcInv(t)'
<1> USE DEF TypeOK, CallsTyped, PcSet, Conts, Drops, Decrements, PcInv, Moves, Carried, GivenUp,
            Last, Releasing, MayFail, memory
<1>1. DropsOne(t) => Drops(t) /\ PcInv(t)'
  <2> SUFFICES ASSUME DropsOne(t) PROVE Drops(t) /\ PcInv(t)'
    OBVIOUS
  <2>1. AfterDeclare(t) = "idle"
    BY DEF DropsOne, AfterDeclare
  <2>2. pc' = [pc EXCEPT ![t] = "idle"]
    BY <2>1 DEF DropsOne, DoneReturns, DoneIdles
  <2> QED BY <2>2 DEF DropsOne
<1>2. DropsOneOfTwo(t) => Drops(t) /\ PcInv(t)'
  BY DEF DropsOneOfTwo
<1>3. DropsLast(t, "release", "destruct") => Drops(t) /\ PcInv(t)'
  BY DEF DropsLast
<1>4. DropsLast(t, "decrement", "dealloc") /\ cont[t] # "delete" => Drops(t) /\ PcInv(t)'
  BY DEF DropsLast
<1> QED BY <1>1, <1>2, <1>3, <1>4

LEMMA GivesUpStep ==
  ASSUME TypeOK, NEW t \in Thread, PcInv(t), UNCHANGED program, Quiesce, NEW o \in Obj,
         StartRelease(t, o) \/ StartDelete(t, o)
  PROVE  GivesUp(t, o) /\ PcInv(t)'
<1> USE DEF TypeOK, CallsTyped, PcSet, Conts, GivesUp, PcInv, Moves, Carried, GivenUp, Last,
            Releasing, MayFail, Call, Goto, objVars, memory
<1>1. StartRelease(t, o) => GivesUp(t, o) /\ PcInv(t)'
  BY DEF StartRelease, MayRelease, Needed
<1>2. StartDelete(t, o) => GivesUp(t, o) /\ PcInv(t)'
  BY DEF StartDelete, MayDelete
<1> QED BY <1>1, <1>2

(***************************************************************************)
(* Counting references                                                     *)
(***************************************************************************)
LEMMA CountTyped ==
  ASSUME TypeOK, HeldIsCounted, NEW t \in Thread, NEW o \in Obj
  PROVE  Carried(t, o) \in 0..2 /\ Count(t, o) \in Nat
BY DEF TypeOK, CallsTyped, HeldIsCounted, Carried, GivenUp, Count

\* A thread that has references to an object is among its references.
LEMMA TokensOfThread ==
  ASSUME NEW o, NEW t \in Thread, NEW k
  PROVE  <<t, k>> \in Tokens(o) <=> k \in 1..Count(t, o)
BY DEF Tokens, ReferencesOf, Count

LEMMA SameTokens ==
  ASSUME NEW o, \A u \in Thread : Count(u, o)' = Count(u, o)
  PROVE  Tokens(o)' = Tokens(o) /\ References(o)' = References(o)
<1>1. \A u \in Thread : ReferencesOf(u, o)' = ReferencesOf(u, o)
  BY DEF ReferencesOf, Count
<1>2. Tokens(o)' = Tokens(o)
  BY <1>1 DEF Tokens
<1> QED BY <1>2 DEF Tokens, References

LEMMA OneMoreToken ==
  ASSUME NEW o, NEW t \in Thread, IsFiniteSet(Tokens(o)), Count(t, o) \in Nat,
         Count(t, o)' = Count(t, o) + 1,
         \A u \in Thread \ {t} : Count(u, o)' = Count(u, o)
  PROVE  /\ IsFiniteSet(Tokens(o)')
         /\ References(o)' = References(o) + 1
         /\ References(o) \in Nat
<1> DEFINE x == <<t, Count(t, o) + 1>>
<1>1. x \notin Tokens(o)
  BY TokensOfThread
<1>2. \A u \in Thread \ {t} : ReferencesOf(u, o)' = ReferencesOf(u, o)
  BY DEF ReferencesOf, Count
<1>3. ReferencesOf(t, o)' = ReferencesOf(t, o) \cup {x}
  BY DEF ReferencesOf, Count
<1>4. Tokens(o)' = Tokens(o) \cup {x}
  BY <1>2, <1>3 DEF Tokens
<1>5. References(o) = Cardinality(Tokens(o)) /\ References(o)' = Cardinality(Tokens(o)')
  BY DEF References, Tokens
<1>6. Cardinality(Tokens(o)) \in Nat
  BY FS_CardinalityType
<1> HIDE DEF x
<1> QED BY <1>1, <1>4, <1>5, <1>6, FS_AddElement

LEMMA OneTokenLess ==
  ASSUME NEW o, NEW t \in Thread, IsFiniteSet(Tokens(o)), Count(t, o) \in Nat \ {0},
         Count(t, o)' = Count(t, o) - 1,
         \A u \in Thread \ {t} : Count(u, o)' = Count(u, o)
  PROVE  /\ IsFiniteSet(Tokens(o)')
         /\ References(o)' = References(o) - 1
         /\ References(o) \in Nat
<1> DEFINE x == <<t, Count(t, o)>>
<1>1. x \in Tokens(o)
  BY TokensOfThread
<1>2. \A u \in Thread \ {t} : ReferencesOf(u, o)' = ReferencesOf(u, o)
  BY DEF ReferencesOf, Count
<1>3. ReferencesOf(t, o)' = ReferencesOf(t, o) \ {x}
  BY DEF ReferencesOf, Count
<1>4. \A u \in Thread \ {t} : x \notin ReferencesOf(u, o)
  BY DEF ReferencesOf
<1>5. Tokens(o)' = Tokens(o) \ {x}
  BY <1>2, <1>3, <1>4 DEF Tokens
<1>6. References(o) = Cardinality(Tokens(o)) /\ References(o)' = Cardinality(Tokens(o)')
  BY DEF References, Tokens
<1>7. Cardinality(Tokens(o)) \in Nat
  BY FS_CardinalityType
<1> HIDE DEF x
<1> QED BY <1>1, <1>5, <1>6, <1>7, FS_RemoveElement

\* Two references of one thread, or one of each of two threads, are two.
LEMMA EnoughReferences ==
  ASSUME NEW o \in Obj, IsFiniteSet(Tokens(o)),
         \A t \in Thread : Count(t, o) \in Nat
  PROVE  /\ References(o) \in Nat
         /\ \A t \in Thread : Count(t, o) <= References(o)
         /\ \A t, u \in Thread : t # u => Count(t, o) + Count(u, o) <= References(o)
<1>1. References(o) \in Nat
  BY FS_CardinalityType DEF References, Tokens
<1>2. ASSUME NEW t \in Thread
      PROVE  /\ IsFiniteSet(ReferencesOf(t, o))
             /\ Cardinality(ReferencesOf(t, o)) = Count(t, o)
  <2>1. IsFiniteSet(1..Count(t, o)) /\ Cardinality(1..Count(t, o)) = Count(t, o)
    BY FS_Interval
  <2>2. ReferencesOf(t, o) \subseteq Tokens(o)
    BY DEF Tokens
  <2>3. IsFiniteSet(ReferencesOf(t, o))
    BY <2>2, FS_Subset
  <2>4. {t} \X (1..Count(t, o)) = ReferencesOf(t, o)
    BY DEF ReferencesOf, Count
  <2>5. IsFiniteSet({t}) /\ Cardinality({t}) = 1
    BY FS_Singleton
  <2>6. PICK S : S = {t}
    OBVIOUS
  <2>7. PICK T : T = 1..Count(t, o)
    OBVIOUS
  <2>8. Cardinality(S \X T) = Cardinality(S) * Cardinality(T)
    BY <2>1, <2>5, <2>6, <2>7, FS_Product
  <2>9. Cardinality(S) = 1 /\ Cardinality(T) = Count(t, o) /\ S \X T = ReferencesOf(t, o)
    BY <2>1, <2>4, <2>5, <2>6, <2>7
  <2> QED BY <2>3, <2>8, <2>9
<1>3. ASSUME NEW t \in Thread PROVE Count(t, o) <= References(o)
  <2>1. ReferencesOf(t, o) \subseteq Tokens(o)
    BY DEF Tokens
  <2> QED BY <1>2, <2>1, FS_Subset DEF References, Tokens
<1>4. ASSUME NEW t \in Thread, NEW u \in Thread, t # u
      PROVE  Count(t, o) + Count(u, o) <= References(o)
  <2> DEFINE A == ReferencesOf(t, o)
             B == ReferencesOf(u, o)
  <2>1. A \cap B = {}
    BY <1>4 DEF ReferencesOf
  <2>2. A \cup B \subseteq Tokens(o)
    BY DEF Tokens
  <2>3. Cardinality(A \cup B) = Cardinality(A) + Cardinality(B)
    <3>1. Cardinality(A \cup B) = Cardinality(A) + Cardinality(B) - Cardinality(A \cap B)
      BY <1>2, FS_Union
    <3>2. Cardinality(A \cap B) = 0
      BY <2>1, FS_EmptySet
    <3>3. Cardinality(A) \in Nat /\ Cardinality(B) \in Nat
      BY <1>2, FS_CardinalityType
    <3> HIDE DEF A, B
    <3> QED BY <3>1, <3>2, <3>3
  <2>4. Cardinality(A \cup B) <= Cardinality(Tokens(o))
    BY <2>2, FS_Subset
  <2> QED BY <1>2, <2>3, <2>4 DEF References, Tokens
<1> QED BY <1>1, <1>3, <1>4

(***************************************************************************)
(* The invariant is kept                                                   *)
(***************************************************************************)
LEMMA OthersKeep ==
  ASSUME NEW t \in Thread, Moves(t), NEW u \in Thread \ {t}
  PROVE  /\ \A o \in Obj : Count(u, o)' = Count(u, o)
         /\ \A o \in Obj : Keeps(u, o)' <=> Keeps(u, o)
         /\ Last(u)' <=> Last(u)
BY DEF Moves, Count, Carried, GivenUp, Keeps, Last

LEMMA CountKept ==
  ASSUME CountIsExact, UNCHANGED <<memory, refcount>>,
         \A u \in Thread, o \in Obj : Count(u, o)' = Count(u, o)
  PROVE  CountIsExact'
<1> SUFFICES ASSUME NEW o \in Obj
             PROVE  /\ IsFiniteSet(Tokens(o))'
                    /\ mem'[o] = "live" => refcount'[o] = (References(o) + Orphaned(o))'
                    /\ \A u \in Thread : Count(u, o)' > 0 => mem'[o] = "live"
  BY DEF CountIsExact
<1>1. Tokens(o)' = Tokens(o) /\ References(o)' = References(o)
  BY SameTokens
<1> QED BY <1>1 DEF CountIsExact, memory, Orphaned

LEMMA GoesOnKeeps ==
  ASSUME TypeOK, TypeOK', RefInv, NEW t \in Thread, GoesOn(t), PcInv(t)',
         UNCHANGED program
  PROVE  RefInv'
<1> USE DEF RefInv, GoesOn, memory
<1>1. HeldIsCounted'
  BY DEF HeldIsCounted
<1>2. CountIsExact'
  <2>1. \A o \in Obj : Count(t, o)' = Count(t, o)
    BY DEF Count
  <2> QED BY <2>1, OthersKeep, CountKept
<1>3. NeededIsKept'
  <2> SUFFICES ASSUME NEW o \in Obj, mem[o] = "live", hasParent[o], Needed(o)'
               PROVE  \E u \in Thread : Keeps(u, o)'
    BY DEF NeededIsKept
  <2>1. Needed(o)
    BY StoreAssumption DEF Needed, Found, Moves, Finding
  <2>2. PICK u \in Thread : Keeps(u, o)
    BY <2>1 DEF NeededIsKept
  <2>3. CASE u = t
    BY <2>2, <2>3 DEF Keeps
  <2>4. CASE u # t
    BY <2>2, <2>4, OthersKeep
  <2> QED BY <2>3, <2>4
<1>4. BoundIsLive'
  BY StoreAssumption DEF BoundIsLive
<1>5. LastIsLast'
  BY OthersKeep DEF LastIsLast, Moves
<1>6. OneAtATime'
  BY OthersKeep DEF OneAtATime, Moves
<1>7. CallsInv'
  <2> SUFFICES ASSUME NEW u \in Thread PROVE CallInv(u)'
    BY DEF CallsInv
  <2>1. CallInv(u) /\ CallInv(t)
    BY DEF CallsInv
  <2>2. CASE u = t
    BY <2>1, <2>2, StoreAssumption DEF CallInv, MayFail, TypeOK, CallsTyped, Finding
  <2>3. CASE u # t
    BY <2>1, <2>3, StoreAssumption DEF CallInv, PcInv, MayFail, Moves, TypeOK, CallsTyped, Initializing
  <2> QED BY <2>2, <2>3
<1> QED BY <1>1, <1>2, <1>3, <1>4, <1>5, <1>6, <1>7

LEMMA KeptIsCounted ==
  ASSUME TypeOK, HeldIsCounted, NEW o \in Obj, NEW t \in Thread, Keeps(t, o)
  PROVE  Count(t, o) > 0
BY DEF TypeOK, CallsTyped, HeldIsCounted, Keeps, Count, Carried, GivenUp, Initializing

\* Nobody has a reference to an object whose last reference was dropped, and nobody
\* can find it any more.
LEMMA LastHasNone ==
  ASSUME TypeOK, RefInv, NEW t \in Thread, Last(t)
  PROVE  /\ cur[t] \in Obj
         /\ \A u \in Thread : Count(u, cur[t]) = 0
         /\ ~Needed(cur[t])
<1>1. cur[t] \in Obj
  BY DEF Last, TypeOK, CallsTyped
<1> DEFINE o == cur[t]
<1>2. mem[o] = "live" /\ hasParent[o] /\ refcount[o] = 0
  BY DEF RefInv, LastIsLast
<1>3. \A u \in Thread : Count(u, o) \in Nat
  BY <1>1, CountTyped DEF RefInv
<1>4. \A u \in Thread : Count(u, o) <= References(o)
  BY <1>1, <1>3, EnoughReferences DEF RefInv, CountIsExact
<1>5. References(o) = 0
  BY <1>1, <1>2, <1>3, EnoughReferences DEF RefInv, CountIsExact, Orphaned
<1>6. \A u \in Thread : Count(u, o) = 0
  BY <1>3, <1>4, <1>5
<1>7. ~Needed(o)
  BY <1>1, <1>2, <1>6, KeptIsCounted DEF RefInv, NeededIsKept
<1> QED BY <1>1, <1>6, <1>7

LEMMA UsesKeeps ==
  ASSUME TypeOK, TypeOK', RefInv, NEW t \in Thread, NEW o \in Obj, Uses(t, o), PcInv(t)',
         UNCHANGED program
  PROVE  RefInv'
<1> USE DEF RefInv, Uses, memory
<1>1. HeldIsCounted'
  BY DEF HeldIsCounted
<1>2. CountIsExact'
  <2>1. \A x \in Obj : Count(t, x)' = Count(t, x)
    BY DEF Count, Carried, Using, TypeOK, CallsTyped
  <2> QED BY <2>1, OthersKeep, CountKept
<1>3. NeededIsKept'
  <2> SUFFICES ASSUME NEW x \in Obj, mem[x] = "live", hasParent[x], Needed(x)'
               PROVE  \E u \in Thread : Keeps(u, x)'
    BY DEF NeededIsKept
  <2>1. Needed(x)
    BY DEF Needed, Found, Moves, Using
  <2>2. PICK u \in Thread : Keeps(u, x)
    BY <2>1 DEF NeededIsKept
  <2>3. CASE u = t
    BY <2>2, <2>3 DEF Keeps, Initializing
  <2>4. CASE u # t
    BY <2>2, <2>4, OthersKeep
  <2> QED BY <2>3, <2>4
<1>4. BoundIsLive'
  BY DEF BoundIsLive
<1>5. ~Last(t)' /\ pc'[t] \notin Initializing /\ pc'[t] \notin Finding
  BY DEF Last, Using, Initializing, Finding
<1>6. LastIsLast'
  BY <1>5, OthersKeep DEF LastIsLast, Moves
<1>7. OneAtATime'
  BY <1>5, OthersKeep DEF OneAtATime, Moves
<1>8. CallsInv'
  <2> SUFFICES ASSUME NEW u \in Thread PROVE CallInv(u)'
    BY DEF CallsInv
  <2>1. CallInv(u)
    BY DEF CallsInv
  <2>2. CASE u = t
    <3>1. Count(t, o) > 0
      BY DEF Count, Carried, HeldIsCounted
    <3>2. mem[o] = "live"
      BY <3>1 DEF CountIsExact
    <3> QED BY <1>5, <2>2, <3>2 DEF CallInv, Using, Initializing, TypeOK, CallsTyped
  <2>3. CASE u # t
    BY <2>1, <2>3 DEF CallInv, PcInv, MayFail, Moves
  <2> QED BY <2>2, <2>3
<1> QED BY <1>1, <1>2, <1>3, <1>4, <1>6, <1>7, <1>8

LEMMA FindsKeeps ==
  ASSUME TypeOK, TypeOK', RefInv, NEW t \in Thread, Finds(t), PcInv(t)',
         UNCHANGED program
  PROVE  RefInv'
<1> USE DEF RefInv, Finds, memory
<1>1. HeldIsCounted'
  BY DEF HeldIsCounted
<1>2. CountIsExact'
  <2>1. \A x \in Obj : Count(t, x)' = Count(t, x)
    BY DEF Count, Carried, Finding, TypeOK, CallsTyped
  <2> QED BY <2>1, OthersKeep, CountKept
<1>3. NeededIsKept'
  <2> SUFFICES ASSUME NEW x \in Obj, mem[x] = "live", hasParent[x], Needed(x)'
               PROVE  \E u \in Thread : Keeps(u, x)'
    BY DEF NeededIsKept
  <2>1. Needed(x)
    BY DEF Needed, Found, Moves, Finding, TypeOK, CallsTyped
  <2>2. PICK u \in Thread : Keeps(u, x)
    BY <2>1 DEF NeededIsKept
  <2>3. CASE u = t
    BY <2>2, <2>3 DEF Keeps, Initializing
  <2>4. CASE u # t
    BY <2>2, <2>4, OthersKeep
  <2> QED BY <2>3, <2>4
<1>4. BoundIsLive'
  BY DEF BoundIsLive
<1>5. ~Last(t)' /\ pc'[t] \notin Initializing /\ pc'[t] \notin Using
  BY DEF Last, Using, Initializing, Finding
<1>6. LastIsLast'
  BY <1>5, OthersKeep DEF LastIsLast, Moves
<1>7. OneAtATime'
  BY <1>5, OthersKeep DEF OneAtATime, Moves
<1>8. CallsInv'
  <2> SUFFICES ASSUME NEW u \in Thread PROVE CallInv(u)'
    BY DEF CallsInv
  <2>1. CallInv(u)
    BY DEF CallsInv
  <2>2. CASE u = t
    <3>1. cur'[t] = inScope /\ mem[inScope] = "live"
      BY DEF BoundIsLive, TypeOK, ObjectsTyped, CallsTyped
    <3> QED BY <1>5, <2>2, <3>1 DEF CallInv, Initializing, Finding
  <2>3. CASE u # t
    BY <2>1, <2>3 DEF CallInv, PcInv, MayFail, Moves
  <2> QED BY <2>2, <2>3
<1> QED BY <1>1, <1>2, <1>3, <1>4, <1>6, <1>7, <1>8

LEMMA HandsKeeps ==
  ASSUME TypeOK, TypeOK', RefInv, NEW t \in Thread, Hands(t), PcInv(t)',
         UNCHANGED program
  PROVE  RefInv'
<1> USE DEF RefInv, Hands, memory
<1>1. cur[t] \in Obj /\ held[t][cur[t]] \in Nat /\ held'[t][cur[t]] = held[t][cur[t]] + 1
  BY DEF HeldIsCounted, TypeOK, CallsTyped
<1>2. HeldIsCounted'
  BY <1>1 DEF HeldIsCounted
<1>3. CountIsExact'
  <2>1. ASSUME NEW x \in Obj PROVE Count(t, x)' = Count(t, x)
    <3>1. CASE x = cur[t]
      BY <1>1, <3>1 DEF Count, Carried
    <3>2. CASE x # cur[t]
      BY <3>2 DEF Count, Carried, HeldIsCounted
    <3> QED BY <3>1, <3>2
  <2> QED BY <2>1, OthersKeep, CountKept
<1>4. NeededIsKept'
  <2> SUFFICES ASSUME NEW x \in Obj, mem[x] = "live", hasParent[x], Needed(x)'
               PROVE  \E u \in Thread : Keeps(u, x)'
    BY DEF NeededIsKept
  <2>1. Needed(x)
    BY DEF Needed, Found, Moves
  <2>2. PICK u \in Thread : Keeps(u, x)
    BY <2>1 DEF NeededIsKept
  <2>3. CASE u = t /\ x = cur[t]
    BY <1>1, <2>3 DEF Keeps
  <2>4. CASE u = t /\ x # cur[t]
    BY <2>2, <2>4 DEF Keeps, HeldIsCounted
  <2>5. CASE u # t
    BY <2>2, <2>5, OthersKeep
  <2> QED BY <2>3, <2>4, <2>5
<1>5. BoundIsLive'
  BY DEF BoundIsLive
<1>6. /\ ~Last(t)' /\ pc'[t] \notin Initializing /\ pc'[t] \notin Finding
      /\ pc'[t] \notin {"init_failed", "lookup_reset"}
  BY DEF Last, Initializing, Finding
<1>7. LastIsLast'
  BY <1>6, OthersKeep DEF LastIsLast, Moves
<1>8. OneAtATime'
  BY <1>6, OthersKeep DEF OneAtATime, Moves
<1>9. CallsInv'
  <2> SUFFICES ASSUME NEW u \in Thread PROVE CallInv(u)'
    BY DEF CallsInv
  <2>1. CallInv(u)
    BY DEF CallsInv
  <2>2. CASE u = t
    BY <1>1, <1>6, <2>1, <2>2 DEF CallInv
  <2>3. CASE u # t
    BY <2>1, <2>3 DEF CallInv, PcInv, MayFail, Moves
  <2> QED BY <2>2, <2>3
<1> QED BY <1>2, <1>3, <1>4, <1>5, <1>7, <1>8, <1>9

LEMMA TakesKeeps ==
  ASSUME TypeOK, TypeOK', RefInv, NEW t \in Thread, Takes(t), PcInv(t)',
         UNCHANGED program
  PROVE  RefInv'
<1> USE DEF RefInv, Takes, memory
<1>1. /\ cur[t] \in Obj /\ mem[cur[t]] = "live"
      /\ refcount[cur[t]] \in Int /\ held[t][cur[t]] \in Nat
  BY DEF Alive, HeldIsCounted, TypeOK, CallsTyped, ObjectsTyped
<1>2. HeldIsCounted'
  BY <1>1 DEF HeldIsCounted
<1>3. Count(t, cur[t]) \in Nat /\ Count(t, cur[t])' = Count(t, cur[t]) + 1
  <2>1. Carried(t, cur[t]) \in Nat
    BY <1>1, CountTyped
  <2>2. CASE held' = [held EXCEPT ![t][cur[t]] = @ + 1] /\ Carried(t, cur[t])' = Carried(t, cur[t])
    <3>1. held'[t][cur[t]] = held[t][cur[t]] + 1
      BY <1>1, <2>2 DEF HeldIsCounted
    <3> QED BY <1>1, <2>1, <2>2, <3>1 DEF Count
  <2>3. CASE held' = held /\ Carried(t, cur[t])' = Carried(t, cur[t]) + 1
    BY <1>1, <2>1, <2>3 DEF Count
  <2> QED BY <2>2, <2>3
<1>4. \A x \in Obj \ {cur[t]} : Count(t, x)' = Count(t, x)
  BY DEF Count, Carried, HeldIsCounted
<1>5. CountIsExact'
  <2> SUFFICES ASSUME NEW x \in Obj
               PROVE  /\ IsFiniteSet(Tokens(x))'
                      /\ mem[x] = "live" => refcount'[x] = (References(x) + Orphaned(x))'
                      /\ \A u \in Thread : Count(u, x)' > 0 => mem[x] = "live"
    BY DEF CountIsExact
  <2>1. Orphaned(x)' = Orphaned(x) /\ Orphaned(x) \in Int
    BY DEF Orphaned
  <2>2. CASE x = cur[t]
    <3>1. /\ IsFiniteSet(Tokens(x)') /\ References(x)' = References(x) + 1
          /\ References(x) \in Nat
      BY <1>3, <2>2, OthersKeep, OneMoreToken DEF CountIsExact
    <3>2. refcount'[x] = refcount[x] + 1
      BY <1>1, <2>2 DEF TypeOK, ObjectsTyped
    <3> QED BY <1>1, <2>1, <2>2, <3>1, <3>2 DEF CountIsExact
  <2>3. CASE x # cur[t]
    <3>1. \A u \in Thread : Count(u, x)' = Count(u, x)
      BY <1>4, <2>3, OthersKeep
    <3>2. Tokens(x)' = Tokens(x) /\ References(x)' = References(x)
      BY <3>1, SameTokens
    <3>3. refcount'[x] = refcount[x]
      BY <2>3 DEF TypeOK, ObjectsTyped
    <3> QED BY <2>1, <3>1, <3>2, <3>3 DEF CountIsExact
  <2> QED BY <2>2, <2>3
<1>6. NeededIsKept'
  <2> SUFFICES ASSUME NEW x \in Obj, mem[x] = "live", hasParent[x], Needed(x)'
               PROVE  \E u \in Thread : Keeps(u, x)'
    BY DEF NeededIsKept
  <2>1. Needed(x)
    BY DEF Needed, Found, Moves, Finding
  <2>2. PICK u \in Thread : Keeps(u, x)
    BY <2>1 DEF NeededIsKept
  <2>3. CASE u = t /\ x = cur[t]
    BY <1>1, <2>2, <2>3 DEF Keeps, Initializing, Finding, HeldIsCounted
  <2>4. CASE u = t /\ x # cur[t]
    BY <2>2, <2>4 DEF Keeps, HeldIsCounted
  <2>5. CASE u # t
    BY <2>2, <2>5, OthersKeep
  <2> QED BY <2>3, <2>4, <2>5
<1>7. BoundIsLive'
  BY DEF BoundIsLive
<1>8. ASSUME NEW u \in Thread \ {t}, Last(u) PROVE cur[u] # cur[t]
  <2> SUFFICES ASSUME cur[u] = cur[t] PROVE FALSE
    OBVIOUS
  <2>1. Count(t, cur[t]) = 0 /\ ~Needed(cur[t])
    BY <1>8, LastHasNone
  <2>2. pc[t] \notin Finding
    BY <2>1 DEF Needed, Found, Finding
  <2>3. pc[t] # "claim"
    BY <1>1, <2>1 DEF CallsInv, CallInv, Using, Count, Carried
  <2>4. pc[t] = "destruct" /\ cont[t] # "delete"
    BY <1>1, <2>1, <2>2, <2>3 DEF Count, Carried, GivenUp
  <2> QED BY <1>8, <2>4 DEF OneAtATime, Last
<1>9. LastIsLast'
  BY <1>8, OthersKeep DEF LastIsLast, Moves, TypeOK, ObjectsTyped, CallsTyped, Last
<1>10. OneAtATime'
  BY OthersKeep DEF OneAtATime, Moves
<1>11. CallsInv'
  <2> SUFFICES ASSUME NEW u \in Thread PROVE CallInv(u)'
    BY DEF CallsInv
  <2>1. CallInv(u)
    BY DEF CallsInv
  <2>2. CASE u = t
    BY <1>1, <2>1, <2>2 DEF CallInv, Initializing
  <2>3. CASE u # t
    BY <2>1, <2>3 DEF CallInv, PcInv, MayFail, Moves
  <2> QED BY <2>2, <2>3
<1> QED BY <1>2, <1>5, <1>6, <1>7, <1>9, <1>10, <1>11

LEMMA DropsKeeps ==
  ASSUME TypeOK, TypeOK', RefInv, NEW t \in Thread, Drops(t), PcInv(t)',
         UNCHANGED program
  PROVE  RefInv'
<1> USE DEF RefInv, Drops, memory
<1>1. /\ cur[t] \in Obj /\ mem[cur[t]] = "live"
      /\ refcount[cur[t]] \in Int /\ held[t][cur[t]] \in Nat
  BY DEF Alive, HeldIsCounted, TypeOK, CallsTyped, ObjectsTyped
<1>2. HeldIsCounted'
  BY DEF HeldIsCounted
<1>3. /\ Carried(t, cur[t]) > 0
      /\ Count(t, cur[t]) \in Nat \ {0}
      /\ Count(t, cur[t])' = Count(t, cur[t]) - 1
  <2>1. Carried(t, cur[t])' \in Nat
    BY DEF Carried, GivenUp
  <2> QED BY <1>1, <2>1, CountTyped DEF Count
<1>4. \A x \in Obj \ {cur[t]} : Count(t, x)' = Count(t, x)
  BY DEF Count, Carried
<1>5. \A x \in Obj : Keeps(t, x)' <=> Keeps(t, x)
  BY DEF Keeps, Initializing
<1>6. CountIsExact'
  <2> SUFFICES ASSUME NEW x \in Obj
               PROVE  /\ IsFiniteSet(Tokens(x))'
                      /\ mem[x] = "live" => refcount'[x] = (References(x) + Orphaned(x))'
                      /\ \A u \in Thread : Count(u, x)' > 0 => mem[x] = "live"
    BY DEF CountIsExact
  <2>1. Orphaned(x)' = Orphaned(x) /\ Orphaned(x) \in Int
    BY DEF Orphaned
  <2>2. CASE x = cur[t]
    <3>1. /\ IsFiniteSet(Tokens(x)') /\ References(x)' = References(x) - 1
          /\ References(x) \in Nat
      BY <1>3, <2>2, OthersKeep, OneTokenLess DEF CountIsExact
    <3>2. refcount'[x] = refcount[x] - 1
      BY <1>1, <2>2 DEF TypeOK, ObjectsTyped
    <3> QED BY <1>1, <2>1, <2>2, <3>1, <3>2 DEF CountIsExact
  <2>3. CASE x # cur[t]
    <3>1. \A u \in Thread : Count(u, x)' = Count(u, x)
      BY <1>4, <2>3, OthersKeep
    <3>2. Tokens(x)' = Tokens(x) /\ References(x)' = References(x)
      BY <3>1, SameTokens
    <3>3. refcount'[x] = refcount[x]
      BY <2>3 DEF TypeOK, ObjectsTyped
    <3> QED BY <2>1, <3>1, <3>2, <3>3 DEF CountIsExact
  <2> QED BY <2>2, <2>3
<1>7. NeededIsKept'
  <2> SUFFICES ASSUME NEW x \in Obj, mem[x] = "live", hasParent[x], Needed(x)'
               PROVE  \E u \in Thread : Keeps(u, x)'
    BY DEF NeededIsKept
  <2>1. Needed(x)
    BY DEF Needed, Found, Moves
  <2>2. PICK u \in Thread : Keeps(u, x)
    BY <2>1 DEF NeededIsKept
  <2> QED BY <1>5, <2>2, OthersKeep
<1>8. BoundIsLive'
  BY DEF BoundIsLive
<1>9. ASSUME NEW u \in Thread, Last(u) PROVE cur[u] # cur[t]
  BY <1>3, <1>9, LastHasNone
<1>10. LastIsLast'
  <2> SUFFICES ASSUME NEW u \in Thread, Last(u)'
               PROVE  /\ mem[cur[u]] = "live"
                      /\ hasParent[cur[u]]
                      /\ refcount'[cur[u]] = 0
    BY DEF LastIsLast
  <2>1. CASE u = t
    <3>1. refcount[cur[t]] = 1 /\ refcount'[cur[t]] = 0
      BY <1>1, <2>1 DEF TypeOK, ObjectsTyped
    <3>2. /\ References(cur[t]) \in Nat
          /\ Count(t, cur[t]) <= References(cur[t])
      BY <1>1, CountTyped, EnoughReferences DEF CountIsExact
    <3>3. hasParent[cur[t]]
      BY <1>1, <1>3, <3>1, <3>2 DEF CountIsExact, Orphaned
    <3> QED BY <1>1, <2>1, <3>1, <3>3
  <2>2. CASE u # t
    <3>1. Last(u) /\ cur[u] # cur[t] /\ cur[u] \in Obj
      BY <1>9, <2>2, OthersKeep DEF Last, TypeOK, CallsTyped
    <3> QED BY <3>1 DEF LastIsLast, TypeOK, ObjectsTyped
  <2> QED BY <2>1, <2>2
<1>11. OneAtATime'
  BY <1>9, OthersKeep DEF OneAtATime, Moves, Initializing
<1>12. CallsInv'
  <2> SUFFICES ASSUME NEW u \in Thread PROVE CallInv(u)'
    BY DEF CallsInv
  <2>1. CallInv(u)
    BY DEF CallsInv
  <2>2. CASE u = t
    BY <1>1, <2>1, <2>2 DEF CallInv, Initializing, Using, Finding
  <2>3. CASE u # t
    BY <2>1, <2>3 DEF CallInv, PcInv, MayFail, Moves
  <2> QED BY <2>2, <2>3
<1> QED BY <1>2, <1>6, <1>7, <1>8, <1>10, <1>11, <1>12

LEMMA GivesUpKeeps ==
  ASSUME TypeOK, TypeOK', RefInv, NEW t \in Thread, NEW o \in Obj, GivesUp(t, o),
         PcInv(t)', UNCHANGED program
  PROVE  RefInv'
<1> USE DEF RefInv, GivesUp, memory
<1>1. held[t][o] \in Nat \ {0} /\ held'[t][o] = held[t][o] - 1
  BY DEF HeldIsCounted
<1>2. HeldIsCounted'
  BY <1>1 DEF HeldIsCounted
<1>3. CountIsExact'
  <2>1. ASSUME NEW x \in Obj PROVE Count(t, x)' = Count(t, x)
    <3>1. CASE x = o
      <4>1. Carried(t, o) = 0
        BY DEF Carried
      <4> QED BY <1>1, <3>1, <4>1 DEF Count
    <3>2. CASE x # o
      BY <3>2 DEF Count, Carried, HeldIsCounted, TypeOK, CallsTyped
    <3> QED BY <3>1, <3>2
  <2> QED BY <2>1, OthersKeep, CountKept
<1>4. NeededIsKept'
  <2> SUFFICES ASSUME NEW x \in Obj, mem[x] = "live", hasParent[x], Needed(x)'
               PROVE  \E u \in Thread : Keeps(u, x)'
    BY DEF NeededIsKept
  <2>1. Needed(x)
    BY DEF Needed, Found, Moves
  <2>2. PICK u \in Thread : Keeps(u, x)
    BY <2>1 DEF NeededIsKept
  <2>3. CASE u = t /\ x = o
    <3>1. CASE held[t][o] = 1
      <4>1. PICK v \in Thread \ {t} : held[v][o] # 0
        BY <2>1, <2>3, <3>1 DEF LastReference
      <4>2. Keeps(v, o)
        BY <4>1 DEF Keeps, HeldIsCounted
      <4> QED BY <2>3, <4>2, OthersKeep
    <3>2. CASE held[t][o] # 1
      BY <1>1, <2>3, <3>2 DEF Keeps
    <3> QED BY <3>1, <3>2
  <2>4. CASE u = t /\ x # o
    BY <2>2, <2>4 DEF Keeps, HeldIsCounted, Initializing
  <2>5. CASE u # t
    BY <2>2, <2>5, OthersKeep
  <2> QED BY <2>3, <2>4, <2>5
<1>5. BoundIsLive'
  BY DEF BoundIsLive
<1>6. /\ pc'[t] \notin Initializing /\ pc'[t] \notin Finding /\ pc'[t] \notin Using
      /\ pc'[t] \notin {"init_failed", "lookup_reset"}
  BY DEF Initializing, Finding, Using
<1>7. LastIsLast'
  BY OthersKeep DEF LastIsLast, Moves
<1>8. OneAtATime'
  BY <1>6, OthersKeep DEF OneAtATime, Moves
<1>9. CallsInv'
  <2> SUFFICES ASSUME NEW u \in Thread PROVE CallInv(u)'
    BY DEF CallsInv
  <2>1. CallInv(u)
    BY DEF CallsInv
  <2>2. CASE u = t
    <3>1. Count(t, o) > 0
      BY <1>1 DEF Count, Carried
    <3>2. mem[o] = "live" /\ cur'[t] = o
      BY <3>1 DEF CountIsExact, TypeOK, CallsTyped
    <3> QED BY <1>6, <2>2, <3>2 DEF CallInv
  <2>3. CASE u # t
    BY <2>1, <2>3 DEF CallInv, PcInv, MayFail, Moves
  <2> QED BY <2>2, <2>3
<1> QED BY <1>2, <1>3, <1>4, <1>5, <1>7, <1>8, <1>9

LEMMA DeclareNewKeeps ==
  ASSUME TypeOK, TypeOK', RefInv, NEW t \in Thread, NEW o \in Obj, DeclareNew(t, o),
         UNCHANGED program
  PROVE  RefInv'
<1> USE DEF RefInv, memory
<1>1. /\ Moves(t) /\ pc[t] = "idle" /\ pc'[t] = "init"
      /\ cur' = [cur EXCEPT ![t] = o]
      /\ mem[o] = "unused" /\ mem' = [mem EXCEPT ![o] = "live"]
      /\ hasParent' = [hasParent EXCEPT ![o] = TRUE]
      /\ refcount' = [refcount EXCEPT ![o] = 1]
      /\ inScope = NoObj /\ inScope' = o /\ held' = held
  BY DEF DeclareNew, Moves, Call, Goto, TypeOK, CallsTyped
<1>2. HeldIsCounted'
  BY <1>1 DEF HeldIsCounted
<1>3. \A u \in Thread : Count(u, o) \in Nat /\ Count(u, o) = 0
  <2>1. \A u \in Thread : Count(u, o) \in Nat
    BY CountTyped
  <2> QED BY <1>1, <2>1 DEF CountIsExact
<1>31. \A u \in Thread : pc[u] # "idle" => cur[u] # o
  BY <1>1 DEF CallsInv, CallInv
<1>4. Count(t, o)' = Count(t, o) + 1
  <2>1. Carried(t, o) = 0 /\ Carried(t, o)' = 1
    BY <1>1 DEF Carried, TypeOK, CallsTyped
  <2> QED BY <1>1, <2>1 DEF Count, HeldIsCounted
<1>5. \A x \in Obj \ {o} : Count(t, x)' = Count(t, x)
  BY <1>1 DEF Count, Carried, HeldIsCounted, TypeOK, CallsTyped
<1>51. IsFiniteSet(Tokens(o)') /\ References(o)' = 1
  <2>1. IsFiniteSet(Tokens(o)') /\ References(o)' = References(o) + 1
    BY <1>1, <1>3, <1>4, OthersKeep, OneMoreToken DEF CountIsExact
  <2>2. References(o) = 0
    <3>1. Tokens(o) = {}
      BY <1>3 DEF Tokens, ReferencesOf, Count
    <3> QED BY <3>1, FS_EmptySet DEF References, Tokens
  <2> QED BY <2>1, <2>2
<1>52. \A u \in Thread, x \in Obj : x # o => Count(u, x)' = Count(u, x)
  BY <1>1, <1>5, OthersKeep
<1>6. CountIsExact'
  <2> SUFFICES ASSUME NEW x \in Obj
               PROVE  /\ IsFiniteSet(Tokens(x))'
                      /\ mem'[x] = "live" => refcount'[x] = (References(x) + Orphaned(x))'
                      /\ \A u \in Thread : Count(u, x)' > 0 => mem'[x] = "live"
    BY DEF CountIsExact
  <2>1. CASE x = o
    <3>1. Orphaned(o)' = 0 /\ refcount'[o] = 1 /\ mem'[o] = "live"
      BY <1>1 DEF Orphaned, TypeOK, ObjectsTyped
    <3> QED BY <1>51, <2>1, <3>1
  <2>2. CASE x # o
    <3>1. \A u \in Thread : Count(u, x)' = Count(u, x)
      BY <1>52, <2>2
    <3>2. Tokens(x)' = Tokens(x) /\ References(x)' = References(x)
      BY <3>1, SameTokens
    <3>3. /\ refcount'[x] = refcount[x] /\ mem'[x] = mem[x]
          /\ Orphaned(x)' = Orphaned(x)
      BY <1>1, <2>2 DEF Orphaned, TypeOK, ObjectsTyped
    <3> QED BY <3>1, <3>2, <3>3 DEF CountIsExact
  <2> QED BY <2>1, <2>2
<1>7. NeededIsKept'
  <2> SUFFICES ASSUME NEW x \in Obj, mem'[x] = "live", hasParent'[x], Needed(x)'
               PROVE  \E u \in Thread : Keeps(u, x)'
    BY DEF NeededIsKept
  <2>1. CASE x = o
    BY <1>1, <2>1 DEF Keeps, Initializing, TypeOK, CallsTyped
  <2>2. CASE x # o
    <3>1. Needed(x) /\ mem[x] = "live" /\ hasParent[x]
      BY <1>1, <2>2 DEF Needed, Found, Moves, TypeOK, ObjectsTyped
    <3>2. PICK u \in Thread : Keeps(u, x)
      BY <3>1 DEF NeededIsKept
    <3>3. CASE u = t
      BY <1>1, <3>2, <3>3 DEF Keeps, Initializing
    <3>4. CASE u # t
      BY <1>1, <3>2, <3>4, OthersKeep
    <3> QED BY <3>3, <3>4
  <2> QED BY <2>1, <2>2
<1>8. BoundIsLive'
  BY <1>1 DEF BoundIsLive, TypeOK, ObjectsTyped
<1>9. LastIsLast'
  <2> SUFFICES ASSUME NEW u \in Thread, Last(u)'
               PROVE  /\ mem'[cur'[u]] = "live"
                      /\ hasParent'[cur'[u]]
                      /\ refcount'[cur'[u]] = 0
    BY DEF LastIsLast
  <2>1. u # t
    BY <1>1 DEF Last
  <2>2. Last(u) /\ cur'[u] = cur[u]
    BY <1>1, <2>1, OthersKeep DEF Moves
  <2>3. cur[u] # o /\ cur[u] \in Obj
    BY <1>31, <2>2 DEF Last, TypeOK, CallsTyped
  <2> QED BY <1>1, <2>2, <2>3 DEF LastIsLast, TypeOK, ObjectsTyped
<1>10. OneAtATime'
  <2>1. ASSUME NEW u \in Thread \ {t}
        PROVE  pc'[u] = pc[u] /\ cur'[u] = cur[u] /\ (Last(u)' <=> Last(u))
    BY <1>1, <2>1, OthersKeep DEF Moves
  <2>2. ~Last(t)' /\ cur'[t] = o
    BY <1>1 DEF Last, TypeOK, CallsTyped
  <2>3. \A u \in Thread \ {t} : pc[u] \in Initializing => cur[u] # o
    BY <1>31 DEF Initializing
  <2> QED BY <2>1, <2>2, <2>3 DEF OneAtATime
<1>11. CallsInv'
  <2> SUFFICES ASSUME NEW u \in Thread PROVE CallInv(u)'
    BY DEF CallsInv
  <2>1. CallInv(u)
    BY DEF CallsInv
  <2>2. CASE u = t
    BY <1>1, <2>2 DEF CallInv, PcInv, Releasing, Using, Finding, TypeOK, ObjectsTyped,
                      CallsTyped
  <2>3. CASE u # t /\ pc[u] # "idle"
    <3>1. cur'[u] = cur[u] /\ cur[u] # o /\ cur[u] \in Obj
      BY <1>1, <1>31, <2>3 DEF Moves, TypeOK, CallsTyped
    <3> QED
      BY <1>1, <2>1, <2>3, <3>1 DEF CallInv, PcInv, MayFail, Moves, TypeOK, ObjectsTyped
  <2>4. CASE u # t /\ pc[u] = "idle"
    BY <1>1, <2>4 DEF CallInv, PcInv, Releasing, Using, Finding, Initializing, Moves
  <2> QED BY <2>2, <2>3, <2>4
<1> QED BY <1>2, <1>6, <1>7, <1>8, <1>9, <1>10, <1>11

\* The object of a failed initializer is freed, or loses its parent when others
\* have claimed it.
LEMMA InitFailedKeeps ==
  ASSUME TypeOK, TypeOK', RefInv, NEW t \in Thread, InitFailed(t), UNCHANGED program
  PROVE  RefInv'
<1> USE DEF RefInv, memory
<1>0. PICK o \in Obj : o = cur[t]
  BY DEF InitFailed, Goto, TypeOK, CallsTyped
<1>1. /\ Moves(t) /\ pc[t] = "init_failed" /\ pc'[t] = "idle" /\ o \in Obj
      /\ UNCHANGED <<cur, held, refcount, inScope>>
      /\ mem[o] = "live"
      /\ mem' = IF refcount[o] = 1 THEN [mem EXCEPT ![o] = "freed"] ELSE mem
      /\ hasParent' = [hasParent EXCEPT ![o] = FALSE]
  BY <1>0 DEF InitFailed, Moves, Goto, Alive, TypeOK, CallsTyped
<1>2. hasParent[o] /\ inScope # o /\ "init" \in MayFail
  BY <1>0, <1>1 DEF CallsInv, CallInv, PcInv, Initializing
<1>3. HeldIsCounted'
  BY <1>1 DEF HeldIsCounted
<1>41. Carried(t, o) = 1 /\ \A x \in Obj : x # o => Carried(t, x) = 0
  BY <1>0, <1>1 DEF Carried
<1>42. \A x \in Obj : Carried(t, x)' = 0
  BY <1>1 DEF Carried
<1>5. /\ Count(t, o) \in Nat \ {0} /\ Count(t, o)' = Count(t, o) - 1
      /\ \A x \in Obj \ {o} : Count(t, x)' = Count(t, x)
  BY <1>1, <1>41, <1>42 DEF Count, HeldIsCounted
<1>6. /\ \A u \in Thread : Count(u, o) \in Nat /\ Count(u, o) <= References(o)
      /\ \A u \in Thread \ {t} : Count(t, o) + Count(u, o) <= References(o)
      /\ References(o) \in Nat /\ refcount[o] = References(o)
  <2>1. \A u \in Thread : Count(u, o) \in Nat
    BY <1>1, CountTyped
  <2>2. refcount[o] = References(o) + 0
    BY <1>1, <1>2 DEF CountIsExact, Orphaned
  <2> QED BY <1>1, <2>1, <2>2, EnoughReferences DEF CountIsExact
<1>61. IsFiniteSet(Tokens(o)') /\ References(o)' = References(o) - 1
  BY <1>1, <1>5, OthersKeep, OneTokenLess DEF CountIsExact
<1>62. ASSUME refcount[o] = 1, NEW u \in Thread PROVE Count(u, o)' = 0
  <2>1. CASE u = t
    <3>1. Count(t, o) = 1
      BY <1>5, <1>6, <1>62
    <3> QED BY <1>5, <2>1, <3>1
  <2>2. CASE u # t
    <3>1. Count(u, o) = 0
      BY <1>5, <1>6, <1>62, <2>2
    <3> QED BY <1>1, <2>2, <3>1, OthersKeep
  <2> QED BY <2>1, <2>2
<1>63. \A u \in Thread, x \in Obj : x # o => Count(u, x)' = Count(u, x)
  BY <1>1, <1>5, OthersKeep
<1>7. CountIsExact'
  <2> SUFFICES ASSUME NEW x \in Obj
               PROVE  /\ IsFiniteSet(Tokens(x))'
                      /\ mem'[x] = "live" => refcount'[x] = (References(x) + Orphaned(x))'
                      /\ \A u \in Thread : Count(u, x)' > 0 => mem'[x] = "live"
    BY DEF CountIsExact
  <2>1. CASE x = o
    <3>1. Orphaned(o)' = 1
      BY <1>1 DEF Orphaned, TypeOK, ObjectsTyped
    <3>2. refcount'[o] = (References(o) + Orphaned(o))'
      BY <1>1, <1>6, <1>61, <3>1
    <3>3. refcount[o] # 1 => mem'[o] = "live"
      BY <1>1
    <3> QED BY <1>61, <1>62, <2>1, <3>2, <3>3
  <2>2. CASE x # o
    <3>1. \A u \in Thread : Count(u, x)' = Count(u, x)
      BY <1>63, <2>2
    <3>2. Tokens(x)' = Tokens(x) /\ References(x)' = References(x)
      BY <3>1, SameTokens
    <3>3. /\ refcount'[x] = refcount[x] /\ mem'[x] = mem[x]
          /\ Orphaned(x)' = Orphaned(x)
      BY <1>1, <2>2 DEF Orphaned, TypeOK, ObjectsTyped
    <3> QED BY <3>1, <3>2, <3>3 DEF CountIsExact
  <2> QED BY <2>1, <2>2
<1>8. NeededIsKept'
  <2> SUFFICES ASSUME NEW x \in Obj, mem'[x] = "live", hasParent'[x], Needed(x)'
               PROVE  \E u \in Thread : Keeps(u, x)'
    BY DEF NeededIsKept
  <2>1. x # o /\ mem[x] = "live" /\ hasParent[x] /\ Needed(x)
    BY <1>1 DEF Needed, Found, Moves, TypeOK, ObjectsTyped
  <2>2. PICK u \in Thread : Keeps(u, x)
    BY <2>1 DEF NeededIsKept
  <2>3. CASE u = t
    BY <1>0, <1>1, <2>1, <2>2, <2>3 DEF Keeps
  <2>4. CASE u # t
    BY <1>1, <2>2, <2>4, OthersKeep
  <2> QED BY <2>3, <2>4
<1>9. BoundIsLive'
  BY <1>1, <1>2 DEF BoundIsLive, TypeOK, ObjectsTyped
<1>10. \A u \in Thread : Last(u) => cur[u] # o
  BY <1>5, LastHasNone
<1>11. LastIsLast'
  <2> SUFFICES ASSUME NEW u \in Thread, Last(u)'
               PROVE  /\ mem'[cur'[u]] = "live"
                      /\ hasParent'[cur'[u]]
                      /\ refcount'[cur'[u]] = 0
    BY DEF LastIsLast
  <2>1. u # t
    BY <1>1 DEF Last
  <2>2. Last(u) /\ cur'[u] = cur[u]
    BY <1>1, <2>1, OthersKeep DEF Moves
  <2>3. cur[u] # o /\ cur[u] \in Obj
    BY <1>10, <2>2 DEF Last, TypeOK, CallsTyped
  <2> QED BY <1>1, <2>2, <2>3 DEF LastIsLast, TypeOK, ObjectsTyped
<1>12. OneAtATime'
  <2>1. ~Last(t)' /\ pc'[t] \notin Initializing
    BY <1>1 DEF Last, Initializing
  <2> QED BY <1>1, <2>1, OthersKeep DEF OneAtATime, Moves
<1>13. CallsInv'
  <2> SUFFICES ASSUME NEW u \in Thread PROVE CallInv(u)'
    BY DEF CallsInv
  <2>1. CallInv(u)
    BY DEF CallsInv
  <2>2. CASE u = t
    BY <1>1, <2>2 DEF CallInv, PcInv, Releasing, Using, Finding, Initializing
  <2>3. CASE u # t
    <3>1. pc'[u] = pc[u] /\ cur'[u] = cur[u] /\ PcInv(u)'
      BY <1>1, <2>1, <2>3 DEF CallInv, PcInv, MayFail, Moves
    <3>2. pc[u] \in Initializing => cur[u] # o
      BY <1>0, <1>1, <2>3 DEF OneAtATime, Initializing
    <3>3. MayFail' = MayFail
      BY DEF MayFail
    <3> QED
      BY <1>1, <1>2, <2>1, <3>1, <3>2, <3>3
         DEF CallInv, Using, Initializing, Finding, TypeOK, ObjectsTyped, CallsTyped
  <2> QED BY <2>2, <2>3
<1> QED BY <1>3, <1>7, <1>8, <1>9, <1>11, <1>12, <1>13

LEMMA DeallocKeeps ==
  ASSUME TypeOK, TypeOK', RefInv, NEW t \in Thread, Dealloc(t), UNCHANGED program
  PROVE  RefInv'
<1> USE DEF RefInv, memory
<1>0. PICK o \in Obj : o = cur[t]
  BY DEF Dealloc, ReleaseDone, Goto, TypeOK, CallsTyped
<1>1. Last(t) /\ op[t] # "create"
  BY DEF Dealloc, ReleaseDone, Goto, Last, CallsInv, CallInv, PcInv, Releasing
<1>2. /\ Moves(t) /\ pc[t] = "dealloc" /\ pc'[t] = "idle" /\ o \in Obj
      /\ UNCHANGED <<cur, held, refcount, inScope, op, cont>>
      /\ mem' = [mem EXCEPT ![o] = "freed"]
      /\ hasParent' = [hasParent EXCEPT ![o] = FALSE]
  BY <1>0, <1>1 DEF Dealloc, ReleaseDone, AfterDeclare, Moves, Goto, Alive, TypeOK, CallsTyped
<1>3. (\A u \in Thread : Count(u, o) = 0) /\ ~Needed(o)
  BY <1>0, <1>1, LastHasNone
<1>4. HeldIsCounted'
  BY <1>2 DEF HeldIsCounted
<1>6. \A u \in Thread, x \in Obj : Count(u, x)' = Count(u, x)
  <2>1. \A x \in Obj : Count(t, x)' = Count(t, x)
    BY <1>2 DEF Count, Carried
  <2> QED BY <1>2, <2>1, OthersKeep
<1>7. CountIsExact'
  <2> SUFFICES ASSUME NEW x \in Obj
               PROVE  /\ IsFiniteSet(Tokens(x))'
                      /\ mem'[x] = "live" => refcount'[x] = (References(x) + Orphaned(x))'
                      /\ \A u \in Thread : Count(u, x)' > 0 => mem'[x] = "live"
    BY DEF CountIsExact
  <2>1. Tokens(x)' = Tokens(x) /\ References(x)' = References(x)
    BY <1>6, SameTokens
  <2>2. x # o => mem'[x] = mem[x] /\ Orphaned(x)' = Orphaned(x)
    BY <1>2 DEF Orphaned, TypeOK, ObjectsTyped
  <2>3. \A u \in Thread : Count(u, x)' = Count(u, x)
    BY <1>6
  <2>4. CASE x = o
    <3>1. mem'[x] = "freed" /\ \A u \in Thread : Count(u, x) = 0
      BY <1>2, <1>3, <2>4 DEF TypeOK, ObjectsTyped
    <3> QED BY <2>1, <2>3, <3>1 DEF CountIsExact
  <2>5. CASE x # o
    BY <1>2, <2>1, <2>2, <2>3, <2>5 DEF CountIsExact
  <2> QED BY <2>4, <2>5
<1>8. NeededIsKept'
  <2> SUFFICES ASSUME NEW x \in Obj, mem'[x] = "live", hasParent'[x], Needed(x)'
               PROVE  \E u \in Thread : Keeps(u, x)'
    BY DEF NeededIsKept
  <2>1. x # o /\ mem[x] = "live" /\ hasParent[x] /\ Needed(x)
    BY <1>2 DEF Needed, Found, Moves, TypeOK, ObjectsTyped
  <2>2. PICK u \in Thread : Keeps(u, x)
    BY <2>1 DEF NeededIsKept
  <2>3. CASE u = t
    BY <1>2, <2>2, <2>3 DEF Keeps, Initializing
  <2>4. CASE u # t
    BY <1>2, <2>2, <2>4, OthersKeep
  <2> QED BY <2>3, <2>4
<1>9. BoundIsLive'
  BY <1>2, <1>3 DEF BoundIsLive, Needed, TypeOK, ObjectsTyped
<1>10. LastIsLast'
  <2> SUFFICES ASSUME NEW u \in Thread, Last(u)'
               PROVE  /\ mem'[cur'[u]] = "live"
                      /\ hasParent'[cur'[u]]
                      /\ refcount'[cur'[u]] = 0
    BY DEF LastIsLast
  <2>1. u # t
    BY <1>2 DEF Last
  <2>2. Last(u) /\ cur'[u] = cur[u]
    BY <1>2, <2>1, OthersKeep DEF Moves
  <2>3. cur[u] # o /\ cur[u] \in Obj
    BY <1>0, <1>1, <2>1, <2>2 DEF OneAtATime, Last, TypeOK, CallsTyped
  <2> QED BY <1>2, <2>2, <2>3 DEF LastIsLast, TypeOK, ObjectsTyped
<1>11. OneAtATime'
  <2>1. ~Last(t)' /\ pc'[t] \notin Initializing
    BY <1>2 DEF Last, Initializing
  <2>2. ASSUME NEW u \in Thread \ {t}
        PROVE  pc'[u] = pc[u] /\ cur'[u] = cur[u] /\ (Last(u)' <=> Last(u))
    BY <1>2, <2>2, OthersKeep DEF Moves
  <2> QED BY <1>2, <2>1, <2>2 DEF OneAtATime
<1>12. CallsInv'
  <2> SUFFICES ASSUME NEW u \in Thread PROVE CallInv(u)'
    BY DEF CallsInv
  <2>1. CallInv(u)
    BY DEF CallsInv
  <2>2. CASE u = t
    BY <1>2, <2>2 DEF CallInv, PcInv, Releasing, Using, Finding, Initializing
  <2>3. CASE u # t
    <3>1. /\ pc'[u] = pc[u] /\ cur'[u] = cur[u] /\ PcInv(u)'
          /\ MayFail' = MayFail
      BY <1>2, <2>1, <2>3 DEF CallInv, PcInv, MayFail, Moves
    <3>2. pc[u] \in Initializing => cur[u] # o
      BY <1>2, <1>3, KeptIsCounted DEF Keeps
    <3>3. pc[u] \in Finding => cur[u] # o
      BY <1>3 DEF Needed, Found, Finding
    <3> QED
      BY <1>2, <2>1, <3>1, <3>2, <3>3
         DEF CallInv, Using, Initializing, Finding, TypeOK, ObjectsTyped, CallsTyped
  <2> QED BY <2>2, <2>3
<1> QED BY <1>4, <1>7, <1>8, <1>9, <1>10, <1>11, <1>12

\* No lookup finds an object that is going away: whoever is about to claim an
\* object finds it kept.
LEMMA NoLookupMisses ==
  ASSUME TypeOK, RefInv, NEW t \in Thread, LookupMisses(t)
  PROVE  FALSE
<1> DEFINE o == cur[t]
<1>1. o \in Obj /\ mem[o] = "live" /\ refcount[o] = 0 /\ Found(o)
  BY DEF LookupMisses, Alive, GoingAway, Found, TypeOK, CallsTyped
<1>2. \A u \in Thread : Count(u, o) \in Nat
  BY <1>1, CountTyped DEF RefInv
<1>3. hasParent[o] /\ References(o) = 0
  BY <1>1, <1>2, EnoughReferences DEF RefInv, CountIsExact, Orphaned
<1>4. PICK u \in Thread : Keeps(u, o)
  BY <1>1, <1>3 DEF RefInv, NeededIsKept, Needed
<1>5. Count(u, o) > 0 /\ Count(u, o) <= References(o)
  BY <1>1, <1>2, <1>4, KeptIsCounted, EnoughReferences DEF RefInv, CountIsExact
<1> QED BY <1>2, <1>3, <1>5

\* No call goes on with freed memory, unless it found the object of an initializer
\* that failed.
LEMMA CallsAreAlive ==
  ASSUME TypeOK, RefInv, NEW t \in Thread, pc[t] # "idle", "init" \notin MayFail
  PROVE  mem[cur[t]] = "live"
<1>1. cur[t] \in Obj /\ CallInv(t)
  BY DEF TypeOK, CallsTyped, RefInv, CallsInv
<1>2. CASE Last(t)
  BY <1>2 DEF RefInv, LastIsLast
<1>3. CASE ~Last(t) /\ pc[t] \notin Using \cup Finding
  <2>1. Carried(t, cur[t]) > 0
    BY <1>1, <1>3 DEF TypeOK, CallsTyped, PcSet, Conts, CallInv, Carried, GivenUp, Last,
                      Using, Finding
  <2>2. Count(t, cur[t]) > 0
    BY <1>1, <2>1, CountTyped DEF RefInv, Count, HeldIsCounted
  <2> QED BY <1>1, <2>2 DEF RefInv, CountIsExact
<1>4. CASE pc[t] \in Using
  <2>1. held[t][cur[t]] \in Nat \ {0}
    BY <1>1, <1>4 DEF CallInv, RefInv, HeldIsCounted
  <2>2. Count(t, cur[t]) > 0
    BY <1>1, <2>1, CountTyped DEF RefInv, Count
  <2> QED BY <1>1, <2>2 DEF RefInv, CountIsExact
<1>5. CASE pc[t] \in Finding
  BY <1>1, <1>5 DEF CallInv
<1> QED BY <1>2, <1>3, <1>4, <1>5

LEMMA RefInit == Init => RefInv
<1> SUFFICES ASSUME Init PROVE RefInv
  OBVIOUS
<1>1. HeldIsCounted
  BY DEF Init, HeldIsCounted
<1>2. \A t \in Thread, o \in Obj : Count(t, o) = 0
  BY DEF Init, Count, Carried
<1>3. CountIsExact
  <2> SUFFICES ASSUME NEW o \in Obj
               PROVE  IsFiniteSet(Tokens(o)) /\ mem[o] # "live"
    BY <1>2 DEF CountIsExact
  <2>1. Tokens(o) = {}
    BY <1>2 DEF Tokens, ReferencesOf, Count
  <2> QED BY <2>1, FS_EmptySet DEF Init
<1>4. NeededIsKept /\ BoundIsLive
  BY StoreAssumption DEF Init, NeededIsKept, BoundIsLive
<1>5. LastIsLast /\ OneAtATime
  BY DEF Init, LastIsLast, OneAtATime, Last, Initializing
<1>6. CallsInv
  BY DEF Init, CallsInv, CallInv, PcInv, Using, Finding, Initializing, Releasing
<1> QED BY <1>1, <1>3, <1>4, <1>5, <1>6 DEF RefInv

LEMMA RefStep ==
  ASSUME TypeOK, TypeOK', RefInv, Disciplined, CreatesDefine', NEW t \in Thread, Step(t),
         UNCHANGED program
  PROVE  RefInv'
<1>1. PcInv(t)
  BY DEF RefInv, CallsInv, CallInv
<1>2. CASE Continues(t)
  BY <1>1, <1>2, GoesOnStep, GoesOnKeeps
<1>3. CASE InitSucceeds(t) \/ RedeclareNoWait(t) \/ ReadEndReturns(t)
  BY <1>1, <1>3, HandsStep, HandsKeeps
<1>4. CASE RedeclareClaim(t) \/ LookupFinds(t) \/ Claim(t) \/ Destruct(t)
  BY <1>1, <1>4, TakesStep, TakesKeeps
<1>5. ASSUME DropsLast(t, "decrement", "dealloc") PROVE cont[t] # "delete"
  <2> SUFFICES ASSUME cont[t] = "delete" PROVE FALSE
    OBVIOUS
  <2>1. cur[t] \in Obj /\ mem[cur[t]] = "live" /\ refcount[cur[t]] = 1
    BY <1>5 DEF DropsLast, Decrements, Alive, TypeOK, CallsTyped
  <2>2. \A u \in Thread : Count(u, cur[t]) \in Nat
    BY <2>1, CountTyped DEF RefInv
  <2>3. /\ References(cur[t]) \in Nat
        /\ Count(t, cur[t]) <= References(cur[t])
        /\ refcount[cur[t]] = References(cur[t]) + Orphaned(cur[t])
    BY <2>1, <2>2, EnoughReferences DEF RefInv, CountIsExact
  <2>4. Carried(t, cur[t]) = 2
    BY <1>5 DEF DropsLast, Carried, GivenUp
  <2>5. Count(t, cur[t]) >= 2
    BY <2>1, <2>4 DEF Count, RefInv, HeldIsCounted
  <2>6. Orphaned(cur[t]) \in {0, 1}
    BY DEF Orphaned
  <2> QED BY <2>1, <2>2, <2>3, <2>5, <2>6
<1>6. CASE \/ DropsOne(t) \/ DropsOneOfTwo(t)
           \/ DropsLast(t, "release", "destruct") \/ DropsLast(t, "decrement", "dealloc")
  BY <1>1, <1>5, <1>6, DropsStep, DropsKeeps
<1>7. ASSUME CreateDeletes(t) PROVE FALSE
  BY <1>1, <1>7 DEF CreateDeletes, PcInv, CreatesDefine, TypeOK, CallsTyped
<1>8. ASSUME LookupReset(t) PROVE FALSE
  BY <1>8 DEF LookupReset, Goto, RefInv, CallsInv, CallInv
<1> QED
  BY <1>2, <1>3, <1>4, <1>6, <1>7, <1>8, InitFailedKeeps, DeallocKeeps, NoLookupMisses,
     ReadEndCases, CreateDefineCases, ConstructFailsCases, LookupClaimCases, ReleaseCases,
     DecrementCases
     DEF Step, Continues

LEMMA RefStart ==
  ASSUME TypeOK, TypeOK', RefInv, Disciplined, CreatesDefine', NEW t \in Thread, Start(t),
         UNCHANGED program
  PROVE  RefInv'
<1>1. PcInv(t)
  BY DEF RefInv, CallsInv, CallInv
<1>2. CASE DeclareExisting(t) \/ Lookup(t)
  BY <1>1, <1>2, FindsStep, FindsKeeps
<1>3. CASE UpdateEnd(t) \/ UpdateCancel(t)
  BY <1>1, <1>3, GoesOnStep, GoesOnKeeps DEF Continues
<1>4. ASSUME NEW o \in Obj,
             \/ Define(t, o) \/ StartClaim(t, o) \/ UpdateBegin(t, o)
             \/ InstantUpdate(t, o)
      PROVE  RefInv'
  BY <1>1, <1>4, UsesStep, UsesKeeps
<1>5. ASSUME NEW o \in Obj, StartRelease(t, o) \/ StartDelete(t, o) PROVE RefInv'
  BY <1>1, <1>5, GivesUpStep, GivesUpKeeps DEF Disciplined
<1> QED BY <1>2, <1>3, <1>4, <1>5, DeclareNewKeeps DEF Start

LEMMA RefNext ==
  TypeOK /\ TypeOK' /\ RefInv /\ Disciplined /\ Disciplined' /\ [Next]_vars => RefInv'
<1> SUFFICES ASSUME TypeOK, TypeOK', RefInv, Disciplined, Disciplined', [Next]_vars
             PROVE  RefInv'
  OBVIOUS
<1>1. ASSUME UNCHANGED <<program, mem, hasParent, refcount, inScope, pc, cur, op, cont, held>>
      PROVE  RefInv'
  <2>1. \A u \in Thread, o \in Obj : Count(u, o)' = Count(u, o)
    BY <1>1 DEF Count, Carried, GivenUp
  <2>2. CountIsExact'
    BY <1>1, <2>1, CountKept DEF RefInv, memory
  <2>3. (HeldIsCounted /\ BoundIsLive /\ LastIsLast /\ OneAtATime)'
    BY <1>1 DEF RefInv, HeldIsCounted, BoundIsLive, LastIsLast, OneAtATime, Last
  <2>4. NeededIsKept'
    BY <1>1 DEF RefInv, NeededIsKept, Needed, Found, Keeps
  <2>5. CallsInv'
    BY <1>1 DEF RefInv, CallsInv, CallInv, PcInv, MayFail
  <2> QED BY <2>2, <2>3, <2>4, <2>5 DEF RefInv
<1>2. CASE UNCHANGED vars
  BY <1>1, <1>2 DEF vars, objVars, memory, threadVars, callVars
<1>3. ASSUME NEW t \in Thread, UseAfterFree(t), UNCHANGED program PROVE RefInv'
  BY <1>1, <1>3 DEF UseAfterFree, objVars, memory, threadVars, callVars
<1>4. ASSUME NEW t \in Thread, Start(t), UNCHANGED program PROVE RefInv'
  BY <1>4, RefStart DEF Disciplined
<1>5. ASSUME NEW t \in Thread, Step(t), UNCHANGED program PROVE RefInv'
  BY <1>5, RefStep DEF Disciplined
<1> QED BY <1>2, <1>3, <1>4, <1>5 DEF Next

\* In every behaviour in which last references are dropped with care, the reference
\* count of an object is the number of references to it.
LEMMA RefCorrect == Spec /\ []Disciplined => [](TypeOK /\ RefInv)
BY TypeInit, TypeNext, RefInit, RefNext, PTL DEF Spec

(***************************************************************************)
(* Faults                                                                  *)
(***************************************************************************)
\* Three steps can find that something is wrong.
LEMMA FaultStep ==
  ASSUME NEW t \in Thread, Step(t)
  PROVE  fault' = fault \/ AssertValid(t) \/ Release(t) \/ Destructor(t)
<1>1. InitSucceeds(t) \/ InitFails(t) \/ InitFailed(t)
      \/ RedeclareClaim(t) \/ RedeclareNoWait(t) \/ RedeclareWait(t) => fault' = fault
  BY DEF InitSucceeds, InitFails, InitFailed, RedeclareClaim, RedeclareNoWait,
     RedeclareWait
<1>2. ReadBegin(t) \/ ReadDeleted(t) \/ ReadEnd(t)
      \/ CreateDefine(t) \/ Construct(t) \/ ConstructFails(t) => fault' = fault
  BY DEF ReadBegin, ReadDeleted, ReadEnd, CreateDefine, Construct,
     ConstructFails
<1>3. SetValid(t) \/ NotifyDefined(t) \/ LookupClaim(t)
      \/ LookupReset(t) \/ Claim(t) \/ Destruct(t) => fault' = fault
  BY DEF SetValid, NotifyDefined, LookupClaim, LookupReset, Claim, Destruct
<1>4. DestructCheck(t) \/ ClearValid(t) \/ MarkDeleted(t)
      \/ Cleanup(t) \/ Orphan(t) \/ Decrement(t) => fault' = fault
  BY DEF DestructCheck, ClearValid, MarkDeleted, Cleanup, Orphan, Decrement
<1>5. Dealloc(t) \/ UpdateCheck(t) \/ UpdateLock(t)
      \/ UpdateUnlock(t) \/ InstantLock(t) \/ InstantNotify(t) => fault' = fault
  BY DEF Dealloc, UpdateCheck, UpdateLock, UpdateUnlock, InstantLock,
     InstantNotify
<1>6. InstantUnlock(t) => fault' = fault
  BY DEF InstantUnlock
<1> QED BY <1>1, <1>2, <1>3, <1>4, <1>5, <1>6 DEF Step

LEMMA FaultStart ==
  ASSUME NEW t \in Thread, Start(t)
  PROVE  fault' = fault
<1>1. DeclareExisting(t) \/ Lookup(t) \/ UpdateEnd(t) \/ UpdateCancel(t) => fault' = fault
  BY DEF DeclareExisting, Lookup, UpdateEnd, UpdateCancel
<1>2. ASSUME NEW o \in Obj, \/ DeclareNew(t, o) \/ Define(t, o)
                            \/ StartClaim(t, o) \/ StartRelease(t, o) \/ StartDelete(t, o)
                            \/ UpdateBegin(t, o) \/ InstantUpdate(t, o)
      PROVE  fault' = fault
  BY <1>2 DEF DeclareNew, Define, StartClaim, StartRelease, StartDelete, UpdateBegin,
              InstantUpdate
<1> QED BY <1>1, <1>2 DEF Start

LEMMA AliveNext ==
  ASSUME TypeOK, RefInv, NoUseAfterFree, InitNeverFails, [Next]_vars
  PROVE  NoUseAfterFree' /\ InitNeverFails'
<1> USE DEF InitNeverFails
<1>1. CASE UNCHANGED vars
  BY <1>1 DEF vars, NoUseAfterFree, MayFail
<1>2. ASSUME Next PROVE program' = program
  BY <1>2 DEF Next
<1>3. ASSUME NEW t \in Thread, UseAfterFree(t) PROVE FALSE
  BY <1>3, CallsAreAlive DEF UseAfterFree
<1>4. ASSUME NEW t \in Thread, Start(t) PROVE NoUseAfterFree'
  BY <1>4, FaultStart DEF NoUseAfterFree
<1>5. ASSUME NEW t \in Thread, Step(t) PROVE NoUseAfterFree'
  <2>1. AssertValid(t) \/ Release(t) \/ Destructor(t) => NoUseAfterFree'
    BY DEF AssertValid, Release, Destructor, NoUseAfterFree
  <2> QED BY <1>5, <2>1, FaultStep DEF NoUseAfterFree
<1> QED BY <1>1, <1>2, <1>3, <1>4, <1>5 DEF Next, MayFail

(***************************************************************************)
(* Theorems                                                                *)
(***************************************************************************)
\* However many threads declare, define, update, look up, claim, release and delete
\* the objects of a name, the count of an object in the tree is the number of
\* references to it (RefcountIsExact: corto_claim and corto_release,
\* src/store/object.c:3217), when no thread drops the last one of an object that is
\* still bound or found, and no corto_create gives up the object of another thread.
THEOREM ReferencesAreCounted == Spec /\ []Disciplined => []RefcountIsExact
<1>1. ASSUME TypeOK, RefInv, NEW o \in Obj, mem[o] = "live", hasParent[o]
      PROVE  refcount[o] = References(o)
  <2>1. References(o) \in Nat
    BY <1>1, CountTyped, EnoughReferences DEF RefInv, CountIsExact
  <2> QED BY <1>1, <2>1 DEF RefInv, CountIsExact, Orphaned
<1>2. TypeOK /\ RefInv => RefcountIsExact
  BY <1>1 DEF RefcountIsExact
<1> QED BY <1>2, RefCorrect, PTL

\* In such a behaviour nobody has a reference to memory that was freed
\* (HeldIsAllocated: corto_destruct, src/store/object.c:3431).
THEOREM HeldIsNeverFreed == Spec /\ []Disciplined => []HeldIsAllocated
<1>1. ASSUME TypeOK, RefInv, NEW t \in Thread, NEW o \in Obj, held[t][o] > 0
      PROVE  mem[o] = "live"
  <2>1. Count(t, o) > 0
    BY <1>1, CountTyped DEF RefInv, HeldIsCounted, Count
  <2> QED BY <1>1, <2>1 DEF RefInv, CountIsExact
<1>2. TypeOK /\ RefInv => HeldIsAllocated
  BY <1>1 DEF HeldIsAllocated
<1> QED BY <1>2, RefCorrect, PTL

\* In such a behaviour, when no initializer fails, no call goes on with an object that
\* was freed under it, also not the calls that have found an object in the tree and
\* not claimed it yet (NoUseAfterFree).
THEOREM NothingIsUsedAfterFree ==
    Spec /\ []Disciplined /\ InitNeverFails => []NoUseAfterFree
<1>1. Init => NoUseAfterFree
  BY DEF Init, NoUseAfterFree
<1>2. /\ TypeOK /\ RefInv /\ NoUseAfterFree /\ InitNeverFails /\ [Next]_vars
      => NoUseAfterFree' /\ InitNeverFails'
  BY AliveNext
<1> QED BY <1>1, <1>2, RefCorrect, PTL DEF Spec
=============================================================================
