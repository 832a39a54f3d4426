----------------------- MODULE ObjectStoreLife_proofs -----------------------
(***************************************************************************)
(* Proofs about ObjectStore: the life of an object, and the specification  *)
(* NamedObject, which the store implements.                                *)
(*                                                                         *)
(* The state bits of an object are read and written without a lock, in     *)
(* corto_define, corto_update and corto_destruct.  What keeps two threads  *)
(* from defining or deleting the same object at once is the way the store  *)
(* is used.  Two ways are proved right here, for every number of threads,  *)
(* objects and calls:                                                      *)
(*   - Owned: one thread defines, updates and deletes, the others declare, *)
(*     look up, claim and release.  The invariant OwnedLife follows the    *)
(*     owner through these calls and says at which stage its object is;    *)
(*   - Undeleted: every thread defines and updates, nobody deletes.  The   *)
(*     invariant UndeletedLife says that the declarer has the write lock   *)
(*     of its object until it has defined it, and a writer that of the     *)
(*     object that it updates.                                             *)
(* Both rest on the invariant of ObjectStore_proofs: a thread that drops   *)
(* the last reference to an object finds that it was deleted before, as    *)
(* the object would be in the tree otherwise, and somebody would keep it   *)
(* (LastIsDeleted, BoundIsNotDropped).                                     *)
(***************************************************************************)
EXTENDS ObjectStore_proofs

(***************************************************************************)
(* Programs with one owner                                                 *)
(***************************************************************************)
\* Thread w is the only one that defines, updates and deletes: the others use
\* what they find, and may declare an object that they leave undefined.  The owner
\* does not use corto_update, which defines an object that was deleted.
OwnedBy(w) ==
    /\ "update" \notin Ops[w]
    /\ \A u \in Thread \ {w} : Ops[u] \subseteq {"declare", "claim", "release", "lookup"}

Owned == \E w \in Thread : OwnedBy(w)

At(t, o, points) == cur[t] = o /\ pc[t] \in points

\* What the other threads do to an object: nothing that changes its state.
OtherPc == {"idle", "init", "redeclared", "redeclare_check", "wait", "wait_deleted",
            "wait_valid", "read_end", "read_end_deleted", "lookup_claim",
            "claim", "release", "destruct", "destruct_check", "decrement",
            "dealloc"}

OtherInv(u) ==
    /\ pc[u] \in OtherPc
    /\ cont[u] # "delete"
    /\ pc[u] # "idle" => op[u] \in {"declare", "claim", "release", "lookup"}

\* The owner, with its object, in the middle of a define, an update or a delete.
OwnerDefines(w) ==
    /\ pc[w] \in {"construct", "set_valid"} =>
          declaredBy[cur[w]] = w /\ ~valid[cur[w]] /\ ~deleted[cur[w]]
    /\ pc[w] \in {"notify_defined", "update_check", "update_lock", "update_end"}
          => valid[cur[w]]
    /\ pc[w] = "updating" => valid[cur[w]] \/ declaredBy[cur[w]] = w

OwnerDeletes(w) ==
    /\ pc[w] \in {"destructor", "clear_valid"} => valid[cur[w]]
    /\ pc[w] = "mark_deleted" => ~valid[cur[w]] /\ ~deleted[cur[w]]
    /\ pc[w] \in {"cleanup", "orphan"} => deleted[cur[w]]
    /\ pc[w] \in {"destructor", "clear_valid", "mark_deleted", "cleanup", "orphan"}
          => inScope = cur[w]
    /\ pc[w] \in {"mark_deleted", "cleanup"} /\ wasDefined[w]
          => declaredBy[cur[w]] # w

OwnerInv(w) ==
    /\ OwnerDefines(w) /\ OwnerDeletes(w)
    /\ pc[w] # "idle" => op[w] # "update"
    /\ pc[w] \notin {"instant_lock", "instant_update", "instant_unlock"}

\* A destruct that follows the drop of a last reference finds a deleted object.
DropsFindDeleted ==
    \A t \in Thread : pc[t] = "destruct_check" /\ cont[t] # "delete" => deleted[cur[t]]

\* The stages of the life of object o, and what ran of its constructor and of
\* its destructor.
FreshStage(o) ==
    mem[o] = "unused" => /\ ~valid[o] /\ ~deleted[o]
                         /\ constructed[o] = 0 /\ destructed[o] = 0
                         /\ declaredBy[o] = NoThread

DeclaredStage(w, o) ==
    ~valid[o] /\ ~deleted[o] =>
        /\ ~At(w, o, {"mark_deleted"}) => destructed[o] = 0
        /\ ~At(w, o, {"set_valid", "mark_deleted"}) => constructed[o] = 0
        /\ At(w, o, {"set_valid"}) => constructed[o] = 1
        /\ At(w, o, {"mark_deleted"}) => constructed[o] = destructed[o]

DefinedStage(w, o) ==
    valid[o] => /\ ~deleted[o]
                /\ constructed[o] = 1
                /\ destructed[o] = IF At(w, o, {"clear_valid"}) THEN 1 ELSE 0
                /\ declaredBy[o] = w => At(w, o, {"notify_defined"})

DeletedStage(w, o) ==
    deleted[o] => /\ constructed[o] = destructed[o]
                  /\ declaredBy[o] = w => At(w, o, {"cleanup"})

StageInv(w, o) ==
    /\ FreshStage(o) /\ DeclaredStage(w, o) /\ DefinedStage(w, o) /\ DeletedStage(w, o)
    /\ constructed[o] <= 1
    /\ mem[o] = "live" => hasParent[o] /\ (deleted[o] \/ inScope = o)
    /\ mem[o] = "freed" => deleted[o]

OwnerLife(w) ==
    /\ OwnedBy(w)
    /\ \A o \in Obj : StageInv(w, o)
    /\ OwnerInv(w)
    /\ \A u \in Thread \ {w} : OtherInv(u)
    /\ DropsFindDeleted

OwnedLife == \E w \in Thread : OwnerLife(w)

(***************************************************************************)
(* Steps that leave the life of every object as it is                      *)
(***************************************************************************)
Marks == {"set_valid", "notify_defined", "clear_valid", "mark_deleted", "cleanup"}

\* Thread t moves alone.
Alone(t) ==
    \A u \in Thread \ {t} :
        /\ pc'[u] = pc[u] /\ cur'[u] = cur[u] /\ op'[u] = op[u]
        /\ cont'[u] = cont[u] /\ wasDefined'[u] = wasDefined[u]

Steady(t) ==
    /\ Alone(t)
    /\ UNCHANGED <<mem, hasParent, valid, deleted, inScope, declaredBy, constructed,
                   destructed>>

\* The steps that another thread than the owner makes, but for two.
OtherStarts(t) ==
    \/ DeclareExisting(t) \/ Lookup(t)
    \/ \E o \in Obj : StartClaim(t, o) \/ StartRelease(t, o)

OtherSteps(t) ==
    \/ InitSucceeds(t) \/ RedeclareClaim(t) \/ RedeclareNoWait(t) \/ RedeclareWait(t)
    \/ ReadBegin(t) \/ ReadDeleted(t) \/ AssertValid(t)
    \/ ReadEndReturns(t) \/ ReadEndRetries(t) \/ LookupFinds(t)
    \/ Claim(t) \/ Destruct(t) \/ DestructCheck(t) \/ DropsOne(t)
    \/ DropsLast(t, "release", "destruct") \/ DropsLast(t, "decrement", "dealloc")

\* The outcomes of corto_create_intern, with what it knows when it defines.
CreateDefines(t) ==
    /\ CreateGoesOn(t, "construct")
    /\ ~valid[cur[t]] /\ MayDefine(t, cur[t])

LEMMA CreateOutcomes ==
  ASSUME NEW t, CreateDefine(t)
  PROVE  CreateGoesOn(t, "idle") \/ CreateDefines(t) \/ CreateDeletes(t)
BY DEF CreateDefine, CreateDefines, CreateGoesOn, CreateDeletes, Goto, callVars

\* The steps that only the owner makes.
OwnerSteps(t) ==
    \/ UpdateEnd(t) \/ UpdateCancel(t)
    \/ \E o \in Obj : Define(t, o) \/ StartDelete(t, o) \/ UpdateBegin(t, o)
    \/ CreateGoesOn(t, "idle") \/ CreateDefines(t) \/ DefineFails(t)
    \/ DropsOneOfTwo(t) \/ UpdateCheck(t) \/ UpdateLock(t) \/ UpdateUnlock(t)

LEMMA OtherIsSteady ==
  ASSUME TypeOK, NEW t \in Thread, OtherStarts(t) \/ OtherSteps(t)
  PROVE  Steady(t)
<1> USE DEF TypeOK, CallsTyped, Steady, Alone, objVars, callVars, memory, state, history
<1>1. DeclareExisting(t) => Steady(t)
  BY DEF DeclareExisting, Call, Goto
<1>2. Lookup(t) => Steady(t)
  BY DEF Lookup, Call, Goto
<1>3. ASSUME NEW o \in Obj, StartClaim(t, o) PROVE Steady(t)
  BY <1>3 DEF StartClaim, Call, Goto
<1>4. ASSUME NEW o \in Obj, StartRelease(t, o) PROVE Steady(t)
  BY <1>4 DEF StartRelease, Call, Goto
<1>5. InitSucceeds(t) => Steady(t)
  BY DEF InitSucceeds, Goto, Return
<1>6. RedeclareClaim(t) => Steady(t)
  BY DEF RedeclareClaim, Goto
<1>7. RedeclareNoWait(t) => Steady(t)
  BY DEF RedeclareNoWait, Goto, Return
<1>8. RedeclareWait(t) => Steady(t)
  BY DEF RedeclareWait, Goto
<1>9. ReadBegin(t) => Steady(t)
  BY DEF ReadBegin, Goto
<1>10. ReadDeleted(t) => Steady(t)
  BY DEF ReadDeleted, Goto
<1>11. AssertValid(t) => Steady(t)
  BY DEF AssertValid, Goto
<1>12. ReadEndReturns(t) => Steady(t)
  BY DEF ReadEndReturns, Return
<1>13. ReadEndRetries(t) => Steady(t)
  BY DEF ReadEndRetries
<1>14. LookupFinds(t) => Steady(t)
  BY DEF LookupFinds, Return
<1>15. Claim(t) => Steady(t)
  BY DEF Claim, Goto
<1>16. Destruct(t) => Steady(t)
  BY DEF Destruct, Goto
<1>17. DestructCheck(t) => Steady(t)
  BY DEF DestructCheck, Goto
<1>18. DropsOne(t) => Steady(t)
  BY DEF DropsOne, Decrements, DoneReturns, DoneIdles
<1>19. ASSUME NEW p, NEW q, DropsLast(t, p, q) PROVE Steady(t)
  BY <1>19 DEF DropsLast, Decrements
<1> QED BY <1>1, <1>2, <1>3, <1>4, <1>5, <1>6, <1>7, <1>8, <1>9, <1>10, <1>11,
   <1>12, <1>13, <1>14, <1>15, <1>16, <1>17, <1>18, <1>19 DEF OtherStarts,
   OtherSteps

LEMMA OwnerIsSteady ==
  ASSUME TypeOK, NEW t \in Thread, OwnerSteps(t)
  PROVE  Steady(t)
<1> USE DEF TypeOK, CallsTyped, Steady, Alone, objVars, callVars, memory, state, history
<1>1. UpdateEnd(t) => Steady(t)
  BY DEF UpdateEnd, Goto
<1>2. UpdateCancel(t) => Steady(t)
  BY DEF UpdateCancel, Goto
<1>3. ASSUME NEW o \in Obj, Define(t, o) PROVE Steady(t)
  BY <1>3 DEF Define, Call, Goto
<1>4. ASSUME NEW o \in Obj, StartDelete(t, o) PROVE Steady(t)
  BY <1>4 DEF StartDelete, Call, Goto
<1>5. ASSUME NEW o \in Obj, UpdateBegin(t, o) PROVE Steady(t)
  BY <1>5 DEF UpdateBegin, Call, Goto
<1>6. ASSUME NEW q, CreateGoesOn(t, q) PROVE Steady(t)
  BY <1>6 DEF CreateGoesOn
<1>7. DefineFails(t) => Steady(t)
  BY DEF DefineFails
<1>8. DropsOneOfTwo(t) => Steady(t)
  BY DEF DropsOneOfTwo, Decrements
<1>9. UpdateCheck(t) => Steady(t)
  BY DEF UpdateCheck, Goto
<1>10. UpdateLock(t) => Steady(t)
  BY DEF UpdateLock, WriteLock, Goto
<1>11. UpdateUnlock(t) => Steady(t)
  BY DEF UpdateUnlock, Goto
<1> QED BY <1>1, <1>2, <1>3, <1>4, <1>5, <1>6, <1>7, <1>8, <1>9, <1>10, <1>11
   DEF OwnerSteps, CreateDefines

(***************************************************************************)
(* The owner and the others                                                *)
(***************************************************************************)
LEMMA OtherStep ==
  ASSUME TypeOK, NEW w, DropsFindDeleted, NEW u \in Thread, OtherInv(u),
         Ops[u] \subseteq {"declare", "claim", "release", "lookup"},
         OtherStarts(u) \/ OtherSteps(u)
  PROVE  OtherInv(u)'
<1> USE DEF TypeOK, CallsTyped, OtherInv, OtherPc, objVars, callVars
<1>1. DeclareExisting(u) => OtherInv(u)'
  BY DEF DeclareExisting, Call, Goto
<1>2. Lookup(u) => OtherInv(u)'
  BY DEF Lookup, Call, Goto
<1>3. ASSUME NEW o \in Obj, StartClaim(u, o) PROVE OtherInv(u)'
  BY <1>3 DEF StartClaim, Call, Goto
<1>4. ASSUME NEW o \in Obj, StartRelease(u, o) PROVE OtherInv(u)'
  BY <1>4 DEF StartRelease, Call, Goto
<1>5. InitSucceeds(u) => OtherInv(u)'
  BY DEF InitSucceeds, Goto, Return, AfterDeclare
<1>6. RedeclareClaim(u) => OtherInv(u)'
  BY DEF RedeclareClaim, Goto
<1>7. RedeclareNoWait(u) => OtherInv(u)'
  BY DEF RedeclareNoWait, Goto, Return, AfterDeclare
<1>8. RedeclareWait(u) => OtherInv(u)'
  BY DEF RedeclareWait, Goto
<1>9. ReadBegin(u) => OtherInv(u)'
  BY DEF ReadBegin, Goto
<1>10. ReadDeleted(u) => OtherInv(u)'
  BY DEF ReadDeleted, Goto
<1>11. AssertValid(u) => OtherInv(u)'
  BY DEF AssertValid, Goto
<1>12. ReadEndReturns(u) => OtherInv(u)'
  BY DEF ReadEndReturns, Return, AfterDeclare
<1>13. ReadEndRetries(u) => OtherInv(u)'
  BY DEF ReadEndRetries
<1>14. LookupFinds(u) => OtherInv(u)'
  BY DEF LookupFinds, Return
<1>15. Claim(u) => OtherInv(u)'
  BY DEF Claim, Goto
<1>16. Destruct(u) => OtherInv(u)'
  BY DEF Destruct, Goto
<1>17. DestructCheck(u) => OtherInv(u)'
  BY DEF DestructCheck, Goto, DropsFindDeleted, AlreadyDeleted
<1>18. DropsOne(u) => OtherInv(u)'
  BY DEF DropsOne, Decrements, DoneReturns, DoneIdles, AfterDeclare
<1>19. ASSUME NEW p \in {"release", "decrement"}, NEW q \in {"destruct", "dealloc"},
             DropsLast(u, p, q)
      PROVE  OtherInv(u)'
  BY <1>19 DEF DropsLast, Decrements
<1> QED BY <1>1, <1>2, <1>3, <1>4, <1>5, <1>6, <1>7, <1>8, <1>9, <1>10, <1>11,
   <1>12, <1>13, <1>14, <1>15, <1>16, <1>17, <1>18, <1>19 DEF OtherStarts,
   OtherSteps

LEMMA OwnerStep ==
  ASSUME TypeOK, NEW w \in Thread, OwnedBy(w), OwnerInv(w), CallInv(w),
         \A o \in Obj : StageInv(w, o),
         \A o \in Obj : held[w][o] > 0 => mem[o] = "live",
         OtherStarts(w) \/ OtherSteps(w) \/ OwnerSteps(w), ~DestructCheck(w)
  PROVE  OwnerInv(w)' /\ pc[w] \notin Marks /\ pc'[w] \notin Marks
<1> DEFINE Holds == OwnerInv(w)' /\ pc[w] \notin Marks /\ pc'[w] \notin Marks
<1>1. \A o \in Obj : /\ declaredBy[o] = w /\ pc[w] # "cleanup" => ~deleted[o]
                     /\ held[w][o] > 0 => hasParent[o]
  BY DEF StageInv, DeletedStage, At
<1> USE DEF TypeOK, CallsTyped, OwnerInv, OwnerDefines, OwnerDeletes, Marks, objVars, callVars,
            state, memory
<1>2. DeclareExisting(w) => Holds
  BY DEF DeclareExisting, Call, Goto, OwnedBy
<1>3. Lookup(w) => Holds
  BY DEF Lookup, Call, Goto, OwnedBy
<1>4. ASSUME NEW o \in Obj, StartClaim(w, o) PROVE Holds
  BY <1>4 DEF StartClaim, Call, Goto, OwnedBy
<1>5. ASSUME NEW o \in Obj, StartRelease(w, o) PROVE Holds
  BY <1>5 DEF StartRelease, Call, Goto, OwnedBy
<1>6. InitSucceeds(w) => Holds
  BY DEF InitSucceeds, Goto, Return, AfterDeclare
<1>7. RedeclareClaim(w) => Holds
  BY DEF RedeclareClaim, Goto
<1>8. RedeclareNoWait(w) => Holds
  BY DEF RedeclareNoWait, Goto, Return, AfterDeclare
<1>9. RedeclareWait(w) => Holds
  BY DEF RedeclareWait, Goto
<1>10. ReadBegin(w) => Holds
  BY DEF ReadBegin, Goto
<1>11. ReadDeleted(w) => Holds
  BY DEF ReadDeleted, Goto
<1>12. AssertValid(w) => Holds
  BY DEF AssertValid, Goto
<1>13. ReadEndReturns(w) => Holds
  BY DEF ReadEndReturns, Return, AfterDeclare
<1>14. ReadEndRetries(w) => Holds
  BY DEF ReadEndRetries
<1>15. LookupFinds(w) => Holds
  BY DEF LookupFinds, Return
<1>16. Claim(w) => Holds
  BY DEF Claim, Goto
<1>17. Destruct(w) => Holds
  BY DEF Destruct, Goto
<1>18. DropsOne(w) => Holds
  BY DEF DropsOne, Decrements, DoneReturns, DoneIdles, AfterDeclare
<1>19. ASSUME NEW p \in {"release", "decrement"}, NEW q \in {"destruct", "dealloc"},
             DropsLast(w, p, q)
       PROVE Holds
  BY <1>19 DEF DropsLast, Decrements
<1>20. UpdateEnd(w) => Holds
  BY <1>1 DEF UpdateEnd, Goto
<1>21. UpdateCancel(w) => Holds
  BY DEF UpdateCancel, Goto
<1>22. ASSUME NEW o \in Obj, Define(w, o) PROVE Holds
  BY <1>1, <1>22 DEF Define, Call, Goto, MayDefine, OwnedBy
<1>23. ASSUME NEW o \in Obj, StartDelete(w, o) PROVE Holds
  BY <1>23 DEF StartDelete, Call, Goto, OwnedBy
<1>24. ASSUME NEW o \in Obj, UpdateBegin(w, o) PROVE Holds
  BY <1>1, <1>24 DEF UpdateBegin, Call, Goto, OwnedBy
<1>25. CreateGoesOn(w, "idle") => Holds
  BY DEF CreateGoesOn
<1>26. CreateDefines(w) => Holds
  BY <1>1 DEF CreateDefines, CreateGoesOn, MayDefine, CallInv, Using
<1>27. DefineFails(w) => Holds
  BY DEF DefineFails, AfterDefine
<1>28. DropsOneOfTwo(w) => Holds
  BY DEF DropsOneOfTwo, Decrements
<1>29. UpdateCheck(w) => Holds
  BY DEF UpdateCheck, Goto
<1>30. UpdateLock(w) => Holds
  BY DEF UpdateLock, WriteLock, Goto
<1>31. UpdateUnlock(w) => Holds
  BY DEF UpdateUnlock, Goto
<1> QED BY <1>2, <1>3, <1>4, <1>5, <1>6, <1>7, <1>8, <1>9, <1>10, <1>11, <1>12,
   <1>13, <1>14, <1>15, <1>16, <1>17, <1>18, <1>19, <1>20, <1>21, <1>22, <1>23,
   <1>24, <1>25, <1>26, <1>27, <1>28, <1>29, <1>30, <1>31 DEF OtherStarts,
   OtherSteps, OwnerSteps

\* The stage of an object is the same when what it depends on is.
LEMMA SameStage ==
  ASSUME NEW w, NEW o, StageInv(w, o),
         \A S \in SUBSET Marks : At(w, o, S)' <=> At(w, o, S),
         valid'[o] = valid[o], deleted'[o] = deleted[o], declaredBy'[o] = declaredBy[o],
         constructed'[o] = constructed[o], destructed'[o] = destructed[o]
  PROVE  /\ (DeclaredStage(w, o) /\ DefinedStage(w, o) /\ DeletedStage(w, o))'
         /\ constructed'[o] <= 1
<1>1. /\ At(w, o, {"set_valid"})' <=> At(w, o, {"set_valid"})
      /\ At(w, o, {"mark_deleted"})' <=> At(w, o, {"mark_deleted"})
      /\ At(w, o, {"set_valid", "mark_deleted"})' <=> At(w, o, {"set_valid", "mark_deleted"})
      /\ At(w, o, {"clear_valid"})' <=> At(w, o, {"clear_valid"})
      /\ At(w, o, {"notify_defined"})' <=> At(w, o, {"notify_defined"})
      /\ At(w, o, {"cleanup"})' <=> At(w, o, {"cleanup"})
  BY DEF Marks
<1> QED BY <1>1 DEF StageInv, DeclaredStage, DefinedStage, DeletedStage

\* A step that leaves the life of every object as it is keeps the invariant when it
\* keeps what it says about the thread that makes it.
LEMMA SteadyKeeps ==
  ASSUME TypeOK, NEW w \in Thread, OwnerLife(w), NEW t \in Thread, Steady(t), UNCHANGED program,
         t = w => OwnerInv(w)' /\ pc[w] \notin Marks /\ pc'[w] \notin Marks,
         t # w => OtherInv(t)',
         pc'[t] = "destruct_check" /\ cont'[t] # "delete" => deleted[cur'[t]]
  PROVE  OwnerLife(w)'
<1>1. OwnedBy(w)'
  BY DEF OwnerLife, OwnedBy, Ops
<1>2. \A u \in Thread \ {t} : /\ pc'[u] = pc[u] /\ cur'[u] = cur[u] /\ op'[u] = op[u]
                              /\ cont'[u] = cont[u] /\ wasDefined'[u] = wasDefined[u]
  BY DEF Steady, Alone
<1>3. \A o : \A S \in SUBSET Marks : (At(w, o, S)' <=> At(w, o, S))
  <2>1. CASE t = w
    BY <2>1 DEF At
  <2>2. CASE t # w
    BY <1>2, <2>2 DEF At
  <2> QED BY <2>1, <2>2
<1>4. ASSUME NEW o \in Obj PROVE StageInv(w, o)'
  <2>1. StageInv(w, o)
    BY DEF OwnerLife
  <2> QED BY <1>3, <2>1, SameStage DEF Steady, StageInv, FreshStage
<1>5. OwnerInv(w)'
  <2>1. CASE t # w
    BY <1>2, <2>1 DEF OwnerLife, OwnerInv, OwnerDefines, OwnerDeletes, Steady
  <2> QED BY <2>1
<1>6. ASSUME NEW u \in Thread \ {w} PROVE OtherInv(u)'
  <2>1. CASE t # u
    BY <1>2, <2>1 DEF OwnerLife, OtherInv
  <2> QED BY <2>1
<1>7. DropsFindDeleted'
  BY <1>2 DEF OwnerLife, DropsFindDeleted, Steady
<1> QED BY <1>1, <1>4, <1>5, <1>6, <1>7 DEF OwnerLife

\* The owner changes the life of its object.
Changes(w) ==
    /\ Alone(w)
    /\ pc[w] # "idle" /\ pc'[w] # "destruct_check"
    /\ UNCHANGED <<mem, hasParent, inScope, cur>>
    /\ deleted[cur[w]] => deleted'[cur[w]]
    /\ \A o \in Obj \ {cur[w]} :
          /\ valid'[o] = valid[o] /\ deleted'[o] = deleted[o]
          /\ declaredBy'[o] = declaredBy[o]
          /\ constructed'[o] = constructed[o] /\ destructed'[o] = destructed[o]

LEMMA ChangesKeeps ==
  ASSUME TypeOK, NEW w \in Thread, OwnerLife(w), Changes(w), UNCHANGED program,
         NEW c, c = cur[w], StageInv(w, c)', OwnerInv(w)'
  PROVE  OwnerLife(w)'
<1>1. OwnedBy(w)'
  BY DEF OwnerLife, OwnedBy, Ops
<1>2. \A u \in Thread \ {w} : /\ pc'[u] = pc[u] /\ cur'[u] = cur[u] /\ op'[u] = op[u]
                              /\ cont'[u] = cont[u] /\ wasDefined'[u] = wasDefined[u]
  BY DEF Changes, Alone
<1>3. ASSUME NEW o \in Obj, o # cur[w] PROVE StageInv(w, o)'
  <2>1. \A S : ~At(w, o, S) /\ ~At(w, o, S)'
    BY <1>3 DEF At, Changes
  <2>2. StageInv(w, o)
    BY DEF OwnerLife
  <2> QED
    BY <1>3, <2>1, <2>2 DEF Changes, StageInv, FreshStage, DeclaredStage, DefinedStage,
                            DeletedStage
<1>4. \A o \in Obj : StageInv(w, o)'
  BY <1>3
<1>5. \A u \in Thread \ {w} : OtherInv(u)'
  BY <1>2 DEF OwnerLife, OtherInv
<1>6. ASSUME NEW u \in Thread, pc'[u] = "destruct_check", cont'[u] # "delete"
      PROVE  deleted'[cur'[u]]
  <2>1. u # w /\ deleted[cur[u]] /\ cur[u] \in Obj
    BY <1>2, <1>6 DEF Changes, OwnerLife, DropsFindDeleted, TypeOK, CallsTyped
  <2> QED BY <1>2, <2>1 DEF Changes
<1> QED BY <1>1, <1>4, <1>5, <1>6 DEF OwnerLife, DropsFindDeleted

\* The steps of corto_define and corto_destruct that change the life of the object.
OwnerChanges(t) ==
    \/ Construct(t) \/ SetValid(t) \/ NotifyDefined(t)
    \/ DestructCheck(t) /\ ~deleted[cur[t]]
    \/ Destructor(t) \/ ClearValid(t) \/ MarkDeleted(t) \/ Cleanup(t)

LEMMA OwnerChangesStep ==
  ASSUME TypeOK, NEW w \in Thread, OwnerLife(w), NEW c \in Obj, c = cur[w], mem[c] = "live",
         OwnerChanges(w)
  PROVE  Changes(w) /\ StageInv(w, c)' /\ OwnerInv(w)'
<1> DEFINE Holds == Changes(w) /\ StageInv(w, c)' /\ OwnerInv(w)'
<1>1. StageInv(w, c) /\ OwnerInv(w)
  BY DEF OwnerLife
<1> USE <1>1 DEF TypeOK, ObjectsTyped, CallsTyped, Changes, Alone, OwnerInv, OwnerDefines,
            OwnerDeletes, StageInv, FreshStage, DeclaredStage, DefinedStage, DeletedStage,
            At, objVars, callVars, state, memory, Goto
<1>2. Construct(w) => Holds
  BY DEF Construct
<1>3. SetValid(w) => Holds
  BY DEF SetValid, history
<1>4. NotifyDefined(w) => Holds
  BY StoreAssumption DEF NotifyDefined, history, DeclaredByMeRemove, AfterDefine
<1>5. DestructCheck(w) /\ ~deleted[c] => Holds
  BY DEF DestructCheck, history, AlreadyDeleted, ShouldDestruct
<1>6. Destructor(w) => Holds
  BY DEF Destructor
<1>7. ClearValid(w) => Holds
  BY DEF ClearValid, history
<1>8. MarkDeleted(w) => Holds
  BY DEF MarkDeleted, history
<1>9. Cleanup(w) => Holds
  BY StoreAssumption DEF Cleanup, history, DeclaredByMeRemove
<1> QED BY <1>2, <1>3, <1>4, <1>5, <1>6, <1>7, <1>8, <1>9 DEF OwnerChanges

LEMMA OrphanKeeps ==
  ASSUME TypeOK, NEW w \in Thread, OwnerLife(w), Orphan(w), UNCHANGED program
  PROVE  OwnerLife(w)'
<1>1. OwnedBy(w)'
  BY DEF OwnerLife, OwnedBy, Ops
<1>2. /\ pc[w] = "orphan" /\ pc' = [pc EXCEPT ![w] = "decrement"]
      /\ inScope' \in {inScope, NoObj}
      /\ UNCHANGED <<mem, hasParent, valid, deleted, declaredBy, cur, op, cont, wasDefined,
                     constructed, destructed>>
  BY DEF Orphan, Goto, memory, state, callVars, history
<1>3. inScope = cur[w] /\ deleted[cur[w]]
  BY <1>2 DEF OwnerLife, OwnerInv, OwnerDeletes
<1>4. ASSUME NEW o \in Obj PROVE StageInv(w, o)'
  <2>1. \A S \in SUBSET Marks : At(w, o, S)' <=> At(w, o, S)
    BY <1>2 DEF At, Marks, TypeOK, CallsTyped
  <2>2. StageInv(w, o)
    BY DEF OwnerLife
  <2> QED BY <1>2, <1>3, <2>1, <2>2, SameStage DEF StageInv, FreshStage
<1>5. OwnerInv(w)'
  BY <1>2 DEF OwnerLife, OwnerInv, OwnerDefines, OwnerDeletes, TypeOK, CallsTyped
<1>6. ASSUME NEW u \in Thread \ {w} PROVE OtherInv(u)'
  BY <1>2 DEF OwnerLife, OtherInv, TypeOK, CallsTyped
<1>7. DropsFindDeleted'
  BY <1>2 DEF OwnerLife, DropsFindDeleted, TypeOK, CallsTyped
<1> QED BY <1>1, <1>4, <1>5, <1>6, <1>7 DEF OwnerLife

\* A thread that drops the last reference to an object finds that it was deleted: it
\* would be in the tree of the scope otherwise.
LEMMA LastIsDeleted ==
  ASSUME TypeOK, RefInv, NEW t \in Thread, Last(t),
         \A o \in Obj : mem[o] = "live" => deleted[o] \/ inScope = o
  PROVE  deleted[cur[t]]
<1>1. cur[t] \in Obj /\ ~Needed(cur[t])
  BY LastHasNone
<1>2. mem[cur[t]] = "live"
  BY DEF RefInv, LastIsLast
<1> QED BY <1>1, <1>2 DEF Needed

LEMMA DeallocEnds ==
  ASSUME TypeOK, RefInv, NEW w \in Thread, OwnerLife(w), NEW t \in Thread, Dealloc(t),
         UNCHANGED program
  PROVE  OwnerLife(w)'
<1>1. OwnedBy(w)'
  BY DEF OwnerLife, OwnedBy, Ops
<1>2. PICK c \in Obj : cur[t] = c /\ mem[c] = "live" /\ deleted[c]
  <2>1. Last(t)
    BY DEF Dealloc, ReleaseDone, Goto, Last
  <2>2. cur[t] \in Obj /\ deleted[cur[t]]
    BY <2>1, LastIsDeleted, LastHasNone DEF OwnerLife, StageInv
  <2> QED BY <2>2 DEF Dealloc, Alive
<1>3. /\ pc[t] = "dealloc" /\ \E q \in {"idle", AfterDeclare(t)} : pc' = [pc EXCEPT ![t] = q]
      /\ mem' = [mem EXCEPT ![c] = "freed"]
      /\ hasParent' = [hasParent EXCEPT ![c] = FALSE]
      /\ UNCHANGED <<inScope, valid, deleted, declaredBy, cur, op, cont, wasDefined,
                     constructed, destructed>>
  BY <1>2, ReleaseDoneCases DEF Dealloc, DoneReturns, DoneIdles, state, history
<1>4. PICK q \in {"idle", "create_check"} : pc' = [pc EXCEPT ![t] = q]
  BY <1>3 DEF AfterDeclare
<1>5. ASSUME NEW o \in Obj PROVE StageInv(w, o)'
  <2>1. \A S \in SUBSET Marks : At(w, o, S)' <=> At(w, o, S)
    BY <1>3, <1>4 DEF At, Marks, TypeOK, CallsTyped
  <2>2. StageInv(w, o)
    BY DEF OwnerLife
  <2> QED
    BY <1>2, <1>3, <2>1, <2>2, SameStage DEF StageInv, FreshStage, TypeOK, ObjectsTyped
<1>6. OwnerInv(w)'
  BY <1>3, <1>4 DEF OwnerLife, OwnerInv, OwnerDefines, OwnerDeletes, TypeOK, CallsTyped
<1>7. ASSUME NEW u \in Thread \ {w} PROVE OtherInv(u)'
  <2>1. CASE u = t
    <3>1. op[u] # "create"
      BY <1>3, <2>1 DEF OwnerLife, OtherInv
    <3>2. pc'[u] = "idle"
      BY <1>3, <2>1, <3>1 DEF AfterDeclare, TypeOK, CallsTyped
    <3> QED BY <1>3, <3>2 DEF OwnerLife, OtherInv, OtherPc
  <2>2. CASE u # t
    BY <1>3, <1>4, <2>2 DEF OwnerLife, OtherInv, TypeOK, CallsTyped
  <2> QED BY <2>1, <2>2
<1>8. DropsFindDeleted'
  BY <1>3, <1>4 DEF OwnerLife, DropsFindDeleted, TypeOK, CallsTyped
<1> QED BY <1>1, <1>5, <1>6, <1>7, <1>8 DEF OwnerLife

LEMMA DeclareNewStarts ==
  ASSUME TypeOK, RefInv, NEW w \in Thread, OwnerLife(w), NEW t \in Thread, NEW o \in Obj,
         DeclareNew(t, o), UNCHANGED program
  PROVE  OwnerLife(w)'
<1>1. OwnedBy(w)'
  BY DEF OwnerLife, OwnedBy, Ops
<1>2. /\ pc[t] = "idle" /\ pc' = [pc EXCEPT ![t] = "init"]
      /\ cur' = [cur EXCEPT ![t] = o]
      /\ inScope = NoObj /\ inScope' = o
      /\ mem[o] = "unused" /\ mem' = [mem EXCEPT ![o] = "live"]
      /\ hasParent' = [hasParent EXCEPT ![o] = TRUE]
      /\ declaredBy' = [declaredBy EXCEPT ![o] = t]
      /\ UNCHANGED <<valid, deleted, cont, wasDefined, constructed, destructed>>
  BY DEF DeclareNew, Call, Goto, state, history
<1>3. PICK p \in {"declare", "create"} : op' = [op EXCEPT ![t] = p] /\ p \in Ops[t]
  BY DEF DeclareNew, Call
<1>4. pc[w] # "idle" => cur[w] # o
  BY <1>2 DEF RefInv, CallsInv, CallInv
<1>5. pc[w] \notin {"destructor", "clear_valid", "mark_deleted", "cleanup", "orphan"}
  BY <1>2, StoreAssumption DEF OwnerLife, OwnerInv, OwnerDeletes, TypeOK, CallsTyped
<1>6. ASSUME NEW x \in Obj, x # o PROVE StageInv(w, x)'
  <2>1. \A S \in SUBSET Marks : At(w, x, S)' <=> At(w, x, S)
    BY <1>2, <1>6 DEF At, Marks, TypeOK, CallsTyped
  <2>2. StageInv(w, x) /\ x # NoObj
    BY StoreAssumption DEF OwnerLife
  <2> QED
    BY <1>2, <1>6, <2>1, <2>2, SameStage DEF StageInv, FreshStage, TypeOK, ObjectsTyped
<1>7. StageInv(w, o)'
  <2>1. \A S \in SUBSET Marks : ~At(w, o, S)'
    BY <1>2, <1>4 DEF At, Marks, TypeOK, CallsTyped
  <2>2. /\ ~At(w, o, {"set_valid"})' /\ ~At(w, o, {"mark_deleted"})'
        /\ ~At(w, o, {"set_valid", "mark_deleted"})'
    BY <2>1 DEF Marks
  <2>3. FreshStage(o)
    BY DEF OwnerLife, StageInv
  <2> QED
    BY <1>2, <2>2, <2>3
       DEF StageInv, FreshStage, DeclaredStage, DefinedStage, DeletedStage, TypeOK, ObjectsTyped
<1>8. OwnerInv(w)'
  <2>1. CASE t = w
    <3>1. op'[w] # "update" /\ pc'[w] = "init"
      BY <1>2, <1>3, <2>1 DEF TypeOK, CallsTyped
    <3> QED BY <3>1 DEF OwnerInv, OwnerDefines, OwnerDeletes
  <2>2. CASE t # w
    <3>1. pc'[w] = pc[w] /\ cur'[w] = cur[w] /\ op'[w] = op[w] /\ wasDefined'[w] = wasDefined[w]
      BY <1>2, <1>3, <2>2
    <3>2. CASE pc[w] = "idle"
      BY <3>1, <3>2 DEF OwnerInv, OwnerDefines, OwnerDeletes
    <3>3. CASE pc[w] # "idle"
      BY <1>2, <1>4, <1>5, <3>1, <3>3
         DEF OwnerLife, OwnerInv, OwnerDefines, OwnerDeletes, TypeOK, CallsTyped
    <3> QED BY <3>2, <3>3
  <2> QED BY <2>1, <2>2
<1>9. ASSUME NEW u \in Thread \ {w} PROVE OtherInv(u)'
  <2>1. CASE t = u
    <3>1. p = "declare"
      BY <1>3, <2>1 DEF OwnerLife, OwnedBy
    <3> QED
      BY <1>2, <1>3, <2>1, <3>1 DEF OwnerLife, OtherInv, OtherPc, TypeOK, CallsTyped
  <2>2. CASE t # u
    BY <1>2, <1>3, <2>2 DEF OwnerLife, OtherInv
  <2> QED BY <2>1, <2>2
<1>10. DropsFindDeleted'
  BY <1>2 DEF OwnerLife, DropsFindDeleted, TypeOK, CallsTyped
<1> QED BY <1>1, <1>6, <1>7, <1>8, <1>9, <1>10 DEF OwnerLife

(***************************************************************************)
(* The invariant of an owned object                                        *)
(***************************************************************************)
\* A destruct whose count was 0 looks at an object that was deleted.
LEMMA DestructFindsDeleted ==
  ASSUME TypeOK, RefInv, NEW w \in Thread, OwnerLife(w), NEW t \in Thread, Steady(t),
         OtherStarts(t) \/ OtherSteps(t) \/ OwnerSteps(t),
         pc'[t] = "destruct_check", cont'[t] # "delete"
  PROVE  deleted[cur'[t]]
<1>1. pc[t] = "destruct" /\ cont'[t] = cont[t] /\ cur'[t] = cur[t]
  <2> USE DEF TypeOK, CallsTyped
  <2>1. OtherStarts(t) => FALSE
    BY DEF OtherStarts, DeclareExisting, Lookup, StartClaim, StartRelease, Call, Goto
  <2>2. ~(UpdateEnd(t) \/ UpdateCancel(t) \/ CreateGoesOn(t, "idle") \/ CreateDefines(t)
          \/ DefineFails(t) \/ DropsOneOfTwo(t) \/ UpdateCheck(t) \/ UpdateLock(t)
          \/ UpdateUnlock(t))
    BY DEF UpdateEnd, UpdateCancel, CreateGoesOn, CreateDefines, DefineFails, AfterDefine,
           DropsOneOfTwo, UpdateCheck, UpdateLock, UpdateUnlock, WriteLock, Goto
  <2>3. \A o \in Obj : ~(Define(t, o) \/ StartDelete(t, o) \/ UpdateBegin(t, o))
    BY DEF Define, StartDelete, UpdateBegin, Call, Goto
  <2>4. ~OwnerSteps(t)
    BY <2>2, <2>3 DEF OwnerSteps
  <2>5. Destruct(t) => pc[t] = "destruct" /\ cont'[t] = cont[t] /\ cur'[t] = cur[t]
    BY DEF Destruct, callVars, Goto
  <2>6. ~(InitSucceeds(t) \/ RedeclareClaim(t) \/ RedeclareNoWait(t) \/ RedeclareWait(t)
          \/ ReadBegin(t) \/ ReadDeleted(t) \/ AssertValid(t))
    BY DEF InitSucceeds, RedeclareClaim, RedeclareNoWait, RedeclareWait, ReadBegin,
           ReadDeleted, AssertValid, AfterDeclare, Goto
  <2>7. ~(ReadEndReturns(t) \/ ReadEndRetries(t) \/ LookupFinds(t) \/ Claim(t)
          \/ DestructCheck(t))
    BY DEF ReadEndReturns, ReadEndRetries, LookupFinds, Claim, DestructCheck, AfterDeclare,
           Goto
  <2>8. ~(DropsOne(t) \/ DropsLast(t, "release", "destruct")
          \/ DropsLast(t, "decrement", "dealloc"))
    BY DEF DropsOne, DropsLast, DoneReturns, DoneIdles, AfterDeclare
  <2> QED BY <2>1, <2>4, <2>5, <2>6, <2>7, <2>8 DEF OtherSteps
<1>2. Last(t)
  BY <1>1 DEF Last
<1>3. deleted[cur[t]]
  BY <1>2, LastIsDeleted DEF OwnerLife, StageInv
<1> QED BY <1>1, <1>3

\* The steps of the others are the ones that they share with the owner.
LEMMA OtherCases ==
  ASSUME TypeOK, RefInv, InitNeverFails, NEW w \in Thread, OwnerLife(w),
         NEW u \in Thread \ {w}, Start(u) \/ Step(u)
  PROVE  \/ OtherStarts(u) \/ OtherSteps(u) \/ Dealloc(u)
         \/ \E o \in Obj : DeclareNew(u, o)
<1>1. /\ OtherInv(u) /\ CallInv(u)
      /\ Ops[u] \subseteq {"declare", "claim", "release", "lookup"}
  BY DEF OwnerLife, OwnedBy, RefInv, CallsInv
<1>2. ~(UpdateEnd(u) \/ UpdateCancel(u))
  BY <1>1 DEF UpdateEnd, UpdateCancel, Goto, OtherInv, OtherPc
<1>3. \A o \in Obj : ~(Define(u, o) \/ StartDelete(u, o) \/ UpdateBegin(u, o)
                       \/ InstantUpdate(u, o))
  BY <1>1 DEF Define, StartDelete, UpdateBegin, InstantUpdate, Call
<1>4. ~(InitFails(u) \/ InitFailed(u) \/ LookupReset(u))
  BY <1>1 DEF InitFails, InitFailed, LookupReset, Goto, InitNeverFails, CallInv, PcInv
<1>5. ~(CreateDefine(u) \/ Construct(u) \/ ConstructFails(u) \/ SetValid(u)
        \/ NotifyDefined(u) \/ Destructor(u) \/ ClearValid(u) \/ MarkDeleted(u)
        \/ Cleanup(u) \/ Orphan(u))
  BY <1>1 DEF CreateDefine, Construct, ConstructFails, SetValid, NotifyDefined, Destructor,
              ClearValid, MarkDeleted, Cleanup, Orphan, Goto, OtherInv, OtherPc
<1>6. ~(UpdateCheck(u) \/ UpdateLock(u) \/ UpdateUnlock(u) \/ InstantLock(u)
        \/ InstantNotify(u) \/ InstantUnlock(u))
  BY <1>1 DEF UpdateCheck, UpdateLock, UpdateUnlock, InstantLock, InstantNotify,
              InstantUnlock, WriteLock, Goto, OtherInv, OtherPc
<1>7. ~DropsOneOfTwo(u)
  BY <1>1 DEF DropsOneOfTwo, OtherInv
<1>8. ~LookupMisses(u)
  BY NoLookupMisses
<1>9. CASE Start(u)
  BY <1>2, <1>3, <1>9 DEF Start, OtherStarts
<1>10. CASE Step(u)
  BY <1>4, <1>5, <1>6, <1>7, <1>8, <1>10, ReadEndCases, LookupClaimCases, ReleaseCases,
     DecrementCases DEF Step, OtherSteps
<1> QED BY <1>9, <1>10

LEMMA OwnerCases ==
  ASSUME TypeOK, RefInv, InitNeverFails, CreatesDefine', NEW w \in Thread, OwnerLife(w),
         Start(w) \/ Step(w)
  PROVE  \/ OtherStarts(w) \/ OtherSteps(w) \/ OwnerSteps(w) \/ OwnerChanges(w)
         \/ Orphan(w) \/ Dealloc(w) \/ \E o \in Obj : DeclareNew(w, o)
<1>1. OwnerInv(w) /\ CallInv(w) /\ "update" \notin Ops[w]
  BY DEF OwnerLife, OwnedBy, RefInv, CallsInv
<1>2. \A o \in Obj : ~InstantUpdate(w, o)
  BY <1>1 DEF InstantUpdate, Call
<1>3. ~(InitFails(w) \/ InitFailed(w) \/ LookupReset(w))
  BY <1>1 DEF InitFails, InitFailed, LookupReset, Goto, InitNeverFails, CallInv, PcInv
<1>4. ~(InstantLock(w) \/ InstantNotify(w) \/ InstantUnlock(w))
  BY <1>1 DEF InstantLock, InstantNotify, InstantUnlock, WriteLock, Goto, OwnerInv
<1>5. ~CreateDeletes(w)
  BY <1>1 DEF CreateDeletes, CallInv, PcInv, CreatesDefine, TypeOK, CallsTyped
<1>6. ~LookupMisses(w)
  BY NoLookupMisses
<1>7. CASE Start(w)
  BY <1>2, <1>7 DEF Start, OtherStarts, OwnerSteps
<1>8. CASE Step(w)
  BY <1>3, <1>4, <1>5, <1>6, <1>8, ReadEndCases, CreateOutcomes, ConstructFailsCases,
     LookupClaimCases, ReleaseCases, DecrementCases
     DEF Step, OtherSteps, OwnerSteps, OwnerChanges
<1> QED BY <1>7, <1>8

LEMMA OwnerLifeStep ==
  ASSUME TypeOK, RefInv, InitNeverFails, CreatesDefine', NEW w \in Thread, OwnerLife(w),
         NEW t \in Thread, Start(t) \/ Step(t), UNCHANGED program
  PROVE  OwnerLife(w)'
<1>1. CASE Dealloc(t) \/ \E o \in Obj : DeclareNew(t, o)
  BY <1>1, DeallocEnds, DeclareNewStarts
<1>2. CASE t = w /\ Orphan(w)
  BY <1>2, OrphanKeeps
<1>3. CASE t = w /\ OwnerChanges(w)
  <2>1. PICK c \in Obj : c = cur[w] /\ mem[c] = "live"
    <3>1. Alive(w)
      BY <1>3 DEF OwnerChanges, Construct, SetValid, NotifyDefined, DestructCheck, Destructor,
                  ClearValid, MarkDeleted, Cleanup
    <3> QED BY <3>1 DEF Alive, TypeOK, CallsTyped
  <2> QED BY <1>3, <2>1, OwnerChangesStep, ChangesKeeps
<1>4. CASE t # w /\ (OtherStarts(t) \/ OtherSteps(t))
  <2>1. Steady(t)
    BY <1>4, OtherIsSteady
  <2>2. OtherInv(t)'
    BY <1>4, OtherStep DEF OwnerLife, OwnedBy
  <2> QED BY <1>4, <2>1, <2>2, SteadyKeeps, DestructFindsDeleted
<1>5. CASE t = w /\ (OtherStarts(w) \/ OtherSteps(w) \/ OwnerSteps(w)) /\ ~DestructCheck(w)
  <2>1. Steady(w)
    BY <1>5, OtherIsSteady, OwnerIsSteady
  <2>2. \A o \in Obj : held[w][o] > 0 => mem[o] = "live"
    BY KeptIsCounted DEF RefInv, CountIsExact, Keeps
  <2>3. OwnerInv(w)' /\ pc[w] \notin Marks /\ pc'[w] \notin Marks
    BY <1>5, <2>2, OwnerStep DEF OwnerLife, RefInv, CallsInv
  <2>4. pc'[t] = "destruct_check" /\ cont'[t] # "delete" => deleted[cur'[t]]
    BY <1>5, <2>1, DestructFindsDeleted
  <2> QED BY <1>5, <2>1, <2>3, <2>4, SteadyKeeps
<1>6. CASE t = w /\ DestructCheck(w) /\ deleted[cur[w]]
  <2>1. Steady(w)
    BY <1>6, OtherIsSteady DEF OtherSteps
  <2>2. pc[w] = "destruct_check" /\ pc'[w] = "decrement" /\ op'[w] = op[w]
    BY <1>6 DEF DestructCheck, Goto, AlreadyDeleted, TypeOK, CallsTyped
  <2>3. OwnerInv(w)' /\ pc[w] \notin Marks /\ pc'[w] \notin Marks
    BY <2>2 DEF OwnerLife, OwnerInv, OwnerDefines, OwnerDeletes, Marks
  <2> QED BY <1>6, <2>1, <2>2, <2>3, SteadyKeeps
<1>7. CASE t = w
  BY <1>1, <1>2, <1>3, <1>5, <1>6, <1>7, OwnerCases DEF OwnerChanges
<1>8. CASE t # w
  BY <1>1, <1>4, <1>8, OtherCases
<1> QED BY <1>7, <1>8

LEMMA OwnedLifeInit == Init /\ Owned => OwnedLife
<1> SUFFICES ASSUME Init, NEW w \in Thread, OwnedBy(w) PROVE OwnerLife(w)
  BY DEF Owned, OwnedLife
<1>1. ASSUME NEW o \in Obj PROVE StageInv(w, o)
  BY DEF Init, StageInv, FreshStage, DeclaredStage, DefinedStage, DeletedStage, At
<1>2. OwnerInv(w) /\ \A u \in Thread : OtherInv(u)
  BY DEF Init, OwnerInv, OwnerDefines, OwnerDeletes, OtherInv, OtherPc
<1> QED BY <1>1, <1>2 DEF OwnerLife, DropsFindDeleted, Init

LEMMA OwnedLifeNext ==
  TypeOK /\ RefInv /\ Disciplined' /\ InitNeverFails /\ OwnedLife /\ [Next]_vars
  => OwnedLife' /\ InitNeverFails'
<1> SUFFICES ASSUME TypeOK, RefInv, Disciplined', InitNeverFails, [Next]_vars,
                    NEW w \in Thread, OwnerLife(w)
             PROVE  OwnerLife(w)' /\ InitNeverFails'
  BY DEF OwnedLife
<1>1. program' = program
  BY DEF Next, vars
<1>2. InitNeverFails'
  BY <1>1 DEF InitNeverFails, MayFail
<1>3. ASSUME UNCHANGED <<objVars, threadVars, history>> PROVE OwnerLife(w)'
  <2> USE <1>1, <1>3 DEF objVars, memory, state, lock, threadVars, callVars, history
  <2>1. OwnedBy(w)'
    BY DEF OwnerLife, OwnedBy, Ops
  <2>2. \A o \in Obj : StageInv(w, o)'
    BY DEF OwnerLife, StageInv, FreshStage, DeclaredStage, DefinedStage, DeletedStage, At
  <2>3. OwnerInv(w)' /\ DropsFindDeleted' /\ \A u \in Thread \ {w} : OtherInv(u)'
    BY DEF OwnerLife, OwnerInv, OwnerDefines, OwnerDeletes, OtherInv, DropsFindDeleted
  <2> QED BY <2>1, <2>2, <2>3 DEF OwnerLife
<1>4. UNCHANGED vars => OwnerLife(w)'
  BY <1>3 DEF vars
<1>5. ASSUME NEW t \in Thread, UseAfterFree(t) PROVE OwnerLife(w)'
  BY <1>3, <1>5 DEF UseAfterFree
<1>6. ASSUME NEW t \in Thread, Start(t) \/ Step(t) PROVE OwnerLife(w)'
  BY <1>1, <1>6, OwnerLifeStep DEF Disciplined
<1> QED BY <1>2, <1>4, <1>5, <1>6 DEF Next

LEMMA OwnedLifeCorrect ==
    Spec /\ []Disciplined /\ InitNeverFails /\ Owned => []OwnedLife
BY RefCorrect, OwnedLifeInit, OwnedLifeNext, PTL DEF Spec

(***************************************************************************)
(* The promises of NamedObject                                             *)
(***************************************************************************)
IsDefined(o) == valid[o] \/ destructed[o] > 0

LEMMA PhaseIs ==
  ASSUME NEW o \in Obj, mem[o] \in {"unused", "live", "freed"}
  PROVE  /\ mem[o] = "unused" => phaseOf[o] = "absent"
         /\ mem[o] = "freed" => phaseOf[o] = "freed"
         /\ mem[o] = "live" /\ deleted[o] => phaseOf[o] = "deleted"
         /\ mem[o] = "live" /\ ~deleted[o] /\ IsDefined(o) => phaseOf[o] = "defined"
         /\ mem[o] = "live" /\ ~deleted[o] /\ ~IsDefined(o) => phaseOf[o] = "declared"
BY DEF phaseOf, IsDefined

LEMMA PhaseKept ==
  ASSUME NEW o \in Obj, mem[o] \in {"unused", "live", "freed"}, mem'[o] = mem[o],
         mem[o] = "live" =>
            (deleted'[o] <=> deleted[o]) /\ (~deleted[o] => (IsDefined(o)' <=> IsDefined(o)))
  PROVE  phaseOf'[o] = phaseOf[o]
BY DEF phaseOf, IsDefined

\* What the object goes through is a function of its state.
LEMMA PhaseChanges ==
  ASSUME NEW c \in Obj, \A o \in Obj \ {c} : phaseOf'[o] = phaseOf[o]
  PROVE  phaseOf' = [phaseOf EXCEPT ![c] = phaseOf'[c]]
<1>1. phaseOf = [o \in Obj |-> phaseOf[o]] /\ phaseOf' = [o \in Obj |-> phaseOf'[o]]
  BY DEF phaseOf
<1> QED BY <1>1

LEMMA PhasesKept ==
  ASSUME \A o \in Obj : phaseOf'[o] = phaseOf[o]
  PROVE  phaseOf' = phaseOf
<1>1. phaseOf = [o \in Obj |-> phaseOf[o]] /\ phaseOf' = [o \in Obj |-> phaseOf'[o]]
  BY DEF phaseOf
<1> QED BY <1>1

LEMMA SteadyStutters ==
  ASSUME TypeOK, NEW t, Steady(t)
  PROVE  UNCHANGED <<phaseOf, inScope>>
BY PhaseKept, PhasesKept DEF Steady, IsDefined, TypeOK, ObjectsTyped

\* The owner defines its object, deletes it, or does nothing that can be seen.
LEMMA OwnerChangesImplement ==
  ASSUME TypeOK, NEW w \in Thread, OwnerLife(w), NEW c \in Obj, c = cur[w], mem[c] = "live",
         OwnerChanges(w), Changes(w)
  PROVE  \/ UNCHANGED <<phaseOf, inScope>>
         \/ Promise!Define(c) \/ Promise!Delete(c)
<1>1. StageInv(w, c) /\ OwnerInv(w)
  BY DEF OwnerLife
<1>2. \A o \in Obj \ {c} : phaseOf'[o] = phaseOf[o]
  BY PhaseKept DEF Changes, IsDefined, TypeOK, ObjectsTyped
<1>3. mem'[c] = "live" /\ inScope' = inScope
  BY DEF Changes
<1>4. /\ ~deleted[c] => inScope = c
      /\ ~deleted[c] /\ IsDefined(c) => phaseOf[c] = "defined"
      /\ ~deleted[c] /\ ~IsDefined(c) => phaseOf[c] = "declared"
      /\ deleted[c] => phaseOf[c] = "deleted"
  BY <1>1, PhaseIs DEF StageInv
<1>5. /\ ~deleted'[c] /\ IsDefined(c)' => phaseOf'[c] = "defined"
      /\ ~deleted'[c] /\ ~IsDefined(c)' => phaseOf'[c] = "declared"
      /\ deleted'[c] => phaseOf'[c] = "deleted"
  BY <1>3 DEF phaseOf, IsDefined
<1>6. phaseOf'[c] = phaseOf[c] => UNCHANGED <<phaseOf, inScope>>
  BY <1>2, <1>3, PhasesKept
<1>7. phaseOf' = [phaseOf EXCEPT ![c] = phaseOf'[c]]
  BY <1>2, PhaseChanges
<1> USE DEF TypeOK, ObjectsTyped, CallsTyped, IsDefined, objVars, callVars, state, memory, Goto
<1>8. CASE Construct(w) \/ NotifyDefined(w) \/ DestructCheck(w) \/ Cleanup(w)
  <2>1. UNCHANGED <<valid, deleted, destructed>>
    BY <1>8 DEF Construct, NotifyDefined, DestructCheck, Cleanup, history
  <2> QED BY <1>4, <1>5, <1>6, <2>1
<1>9. CASE SetValid(w)
  <2>1. valid'[c] /\ ~deleted[c] /\ ~deleted'[c] /\ ~valid[c] /\ destructed[c] = 0
    BY <1>1, <1>9 DEF SetValid, OwnerInv, OwnerDefines, StageInv, DeclaredStage, At, history
  <2> QED BY <1>3, <1>4, <1>5, <1>7, <2>1 DEF Promise!Define
<1>10. CASE Destructor(w)
  <2>1. valid[c] /\ ~deleted[c] /\ valid'[c] /\ ~deleted'[c]
    BY <1>1, <1>10 DEF Destructor, OwnerInv, OwnerDeletes, StageInv, DefinedStage
  <2> QED BY <1>4, <1>5, <1>6, <2>1
<1>11. CASE ClearValid(w)
  <2>1. valid[c] /\ ~deleted[c] /\ ~deleted'[c] /\ destructed'[c] = 1
    BY <1>1, <1>11 DEF ClearValid, OwnerInv, OwnerDeletes, StageInv, DefinedStage, At, history
  <2> QED BY <1>4, <1>5, <1>6, <2>1
<1>12. CASE MarkDeleted(w)
  <2>1. ~deleted[c] /\ deleted'[c]
    BY <1>1, <1>12 DEF MarkDeleted, OwnerInv, OwnerDeletes
  <2>2. phaseOf[c] \in {"declared", "defined"} /\ phaseOf'[c] = "deleted"
    BY <1>4, <1>5, <2>1
  <2> QED BY <1>3, <1>4, <1>7, <2>1, <2>2 DEF Promise!Delete
<1> QED BY <1>8, <1>9, <1>10, <1>11, <1>12 DEF OwnerChanges

LEMMA OrphanImplements ==
  ASSUME TypeOK, NEW w \in Thread, OwnerLife(w), Orphan(w)
  PROVE  \E c \in Obj : Promise!Unbind(c)
<1>1. PICK c \in Obj : c = cur[w] /\ mem[c] = "live"
  BY DEF Orphan, Alive, Goto, TypeOK, CallsTyped
<1>2. StageInv(w, c) /\ inScope = c /\ deleted[c]
  BY <1>1 DEF OwnerLife, OwnerInv, OwnerDeletes, Orphan, Goto
<1>3. phaseOf[c] = "deleted"
  BY <1>1, <1>2, PhaseIs
<1>4. inScope' = NoObj
  BY <1>1, <1>2 DEF StageInv, Orphan
<1>5. UNCHANGED phaseOf
  BY PhaseKept, PhasesKept
     DEF Orphan, memory, state, history, IsDefined, TypeOK, ObjectsTyped
<1> QED BY <1>2, <1>3, <1>4, <1>5 DEF Promise!Unbind

LEMMA DeallocImplements ==
  ASSUME TypeOK, RefInv, NEW w \in Thread, OwnerLife(w), NEW t \in Thread, Dealloc(t)
  PROVE  \E c \in Obj : Promise!Free(c)
<1>1. Last(t)
  BY DEF Dealloc, ReleaseDone, Goto, Last
<1>2. PICK c \in Obj : c = cur[t] /\ mem[c] = "live" /\ deleted[c] /\ inScope # c
  <2>1. cur[t] \in Obj /\ deleted[cur[t]] /\ ~Needed(cur[t])
    BY <1>1, LastIsDeleted, LastHasNone DEF OwnerLife, StageInv
  <2> QED BY <2>1 DEF Dealloc, Alive, Needed
<1>3. /\ mem' = [mem EXCEPT ![c] = "freed"]
      /\ UNCHANGED <<inScope, valid, deleted, destructed>>
  BY <1>2 DEF Dealloc, state, history
<1>4. \A o \in Obj \ {c} : phaseOf'[o] = phaseOf[o]
  BY <1>3, PhaseKept DEF IsDefined, TypeOK, ObjectsTyped
<1>5. phaseOf[c] = "deleted"
  BY <1>2, PhaseIs
<1>6. phaseOf'[c] = "freed"
  BY <1>3 DEF phaseOf, TypeOK, ObjectsTyped
<1> QED BY <1>2, <1>3, <1>4, <1>5, <1>6, PhaseChanges DEF Promise!Free

LEMMA FreshDeclares ==
  ASSUME TypeOK, NEW t \in Thread, NEW c \in Obj, DeclareNew(t, c),
         ~valid[c] /\ ~deleted[c] /\ destructed[c] = 0
  PROVE  Promise!Declare(c)
<1>1. /\ inScope = NoObj /\ inScope' = c
      /\ mem[c] = "unused" /\ mem' = [mem EXCEPT ![c] = "live"]
      /\ UNCHANGED <<valid, deleted, destructed>>
  BY DEF DeclareNew, state, history
<1>2. \A o \in Obj \ {c} : phaseOf'[o] = phaseOf[o]
  BY <1>1, PhaseKept DEF IsDefined, TypeOK, ObjectsTyped
<1>3. phaseOf[c] = "absent"
  BY <1>1, PhaseIs
<1>4. phaseOf'[c] = "declared"
  BY <1>1 DEF phaseOf, TypeOK, ObjectsTyped
<1> QED BY <1>1, <1>2, <1>3, <1>4, PhaseChanges DEF Promise!Declare

LEMMA OwnerStepImplements ==
  ASSUME TypeOK, RefInv, InitNeverFails, CreatesDefine', NEW w \in Thread, OwnerLife(w),
         NEW t \in Thread, Start(t) \/ Step(t)
  PROVE  Promise!Next \/ UNCHANGED <<phaseOf, inScope>>
<1>1. CASE OtherStarts(t) \/ OtherSteps(t) \/ OwnerSteps(t)
  BY <1>1, OtherIsSteady, OwnerIsSteady, SteadyStutters
<1>2. CASE t = w /\ Orphan(w)
  BY <1>2, OrphanImplements DEF Promise!Next
<1>3. CASE Dealloc(t)
  BY <1>3, DeallocImplements DEF Promise!Next
<1>4. ASSUME NEW o \in Obj, DeclareNew(t, o) PROVE Promise!Next
  <2>1. ~valid[o] /\ ~deleted[o] /\ destructed[o] = 0
    BY <1>4 DEF DeclareNew, OwnerLife, StageInv, FreshStage
  <2> QED BY <1>4, <2>1, FreshDeclares DEF Promise!Next
<1>5. CASE t = w /\ OwnerChanges(w)
  <2>1. PICK c \in Obj : c = cur[w] /\ mem[c] = "live"
    <3>1. Alive(w)
      BY <1>5 DEF OwnerChanges, Construct, SetValid, NotifyDefined, DestructCheck, Destructor,
                  ClearValid, MarkDeleted, Cleanup
    <3> QED BY <3>1 DEF Alive, TypeOK, CallsTyped
  <2> QED
    BY <1>5, <2>1, OwnerChangesStep, OwnerChangesImplement DEF Promise!Next
<1>6. CASE t = w
  BY <1>1, <1>2, <1>3, <1>4, <1>5, <1>6, OwnerCases
<1>7. CASE t # w
  BY <1>1, <1>3, <1>4, <1>7, OtherCases
<1> QED BY <1>6, <1>7

(***************************************************************************)
(* Programs that delete nothing                                            *)
(***************************************************************************)
\* Nobody deletes an object, and corto_update_cancel, which unlocks an object that
\* is not defined too, is not called by a thread that declares objects.
Undeleted ==
    \A t \in Thread :
        /\ "delete" \notin Ops[t]
        /\ "update_cancel" \in Ops[t] => {"declare", "create"} \cap Ops[t] = {}

Destructing == {"destruct", "destruct_check", "destructor", "clear_valid", "mark_deleted",
                "cleanup", "orphan", "decrement", "dealloc"}

Defining == {"construct", "set_valid", "notify_defined"}

\* Between the update_begin and the update_end of a thread, and in corto_update.
Updating == {"updating", "update_end", "instant_update", "instant_unlock"}

Reading == {"wait_deleted", "wait_valid", "read_end"}

\* An object that is being defined is locked, by the thread that declared it.
DeclarerInv(o) ==
    declaredBy[o] # NoThread =>
        /\ writer[o] = declaredBy[o] /\ readers[o] = {}
        /\ {"declare", "create"} \cap Ops[declaredBy[o]] # {}
        /\ valid[o] => At(declaredBy[o], o, {"notify_defined"})

LockStage(o) ==
    /\ ~deleted[o] /\ destructed[o] = 0 /\ constructed[o] <= 1
    /\ mem[o] = "unused" => /\ ~valid[o] /\ constructed[o] = 0
                            /\ declaredBy[o] = NoThread /\ readers[o] = {}
    /\ mem[o] # "unused" => /\ mem[o] = "live" /\ hasParent[o] /\ inScope = o
                            /\ valid[o] \/ declaredBy[o] # NoThread
    /\ ~valid[o] /\ constructed[o] = 1 => At(declaredBy[o], o, {"set_valid"})
    /\ DeclarerInv(o)

WriterInv(t) ==
    /\ pc[t] \notin Destructing \cup {"read_end_deleted"}
    /\ pc[t] \in Updating \cup Defining => writer[cur[t]] = t
    /\ pc[t] \in Defining => declaredBy[cur[t]] = t
    /\ pc[t] \in {"construct", "set_valid"} => ~valid[cur[t]]
    /\ pc[t] = "set_valid" => constructed[cur[t]] = 1
    /\ pc[t] \in {"notify_defined", "update_check", "update_lock", "update_end",
                  "instant_update", "instant_unlock"} => valid[cur[t]]
    /\ pc[t] \in Reading => valid[cur[t]]
    /\ pc[t] \in Defining \cup {"update_check", "update_lock", "updating"}
          => op[t] # "update"

UndeletedLife ==
    /\ Undeleted
    /\ \A o \in Obj : LockStage(o)
    /\ \A t \in Thread : WriterInv(t)

(***************************************************************************)
(* Steps of a program that deletes nothing                                 *)
(***************************************************************************)
\* The steps that leave the life of every object as it is.
CalmSteps(t) ==
    \/ OtherStarts(t) \/ UpdateEnd(t) \/ UpdateCancel(t)
    \/ \E o \in Obj : Define(t, o) \/ UpdateBegin(t, o) \/ InstantUpdate(t, o)
    \/ InitSucceeds(t) \/ RedeclareClaim(t) \/ RedeclareNoWait(t) \/ RedeclareWait(t)
    \/ ReadBegin(t) \/ ReadDeleted(t) \/ AssertValid(t) \/ ReadEndReturns(t)
    \/ LookupFinds(t) \/ Claim(t) \/ DropsOne(t)
    \/ CreateGoesOn(t, "idle") \/ CreateDefines(t) \/ DefineFails(t)
    \/ UpdateCheck(t) \/ UpdateLock(t) \/ UpdateUnlock(t)
    \/ InstantLock(t) \/ InstantNotify(t) \/ InstantUnlock(t)

\* The locks that thread t takes and gives up are not those of an object that is
\* being defined.
LocksKept(t) ==
    \A o \in Obj :
        /\ \/ writer'[o] = writer[o]
           \/ declaredBy[o] = NoThread /\ writer[o] \in {t, NoThread}
        /\ \/ readers'[o] = readers[o]
           \/ mem[o] # "unused" /\ (declaredBy[o] = NoThread \/ readers'[o] = {})

LEMMA InstantIsSteady ==
  ASSUME TypeOK, NEW t \in Thread
  PROVE  /\ InstantLock(t) \/ InstantNotify(t) \/ InstantUnlock(t) => Steady(t)
         /\ \A o \in Obj : InstantUpdate(t, o) => Steady(t)
<1> USE DEF TypeOK, CallsTyped, Steady, Alone, objVars, callVars, memory, state, history
<1>1. InstantLock(t) => Steady(t)
  BY DEF InstantLock, WriteLock, Goto
<1>2. InstantNotify(t) => Steady(t)
  BY DEF InstantNotify, Goto
<1>3. InstantUnlock(t) => Steady(t)
  BY DEF InstantUnlock, Goto
<1>4. ASSUME NEW o \in Obj, InstantUpdate(t, o) PROVE Steady(t)
  BY <1>4 DEF InstantUpdate, Call, Goto
<1> QED BY <1>1, <1>2, <1>3, <1>4

LEMMA CalmIsSteady ==
  ASSUME TypeOK, NEW t \in Thread, CalmSteps(t)
  PROVE  Steady(t)
<1>1. CASE OtherStarts(t) \/ OtherSteps(t)
  BY <1>1, OtherIsSteady
<1>2. CASE OwnerSteps(t)
  BY <1>2, OwnerIsSteady
<1> QED
  BY <1>1, <1>2, InstantIsSteady DEF CalmSteps, OtherSteps, OwnerSteps

LEMMA CalmStep ==
  ASSUME TypeOK, NEW t \in Thread, Undeleted, WriterInv(t), CallInv(t),
         \A o \in Obj : LockStage(o),
         \A o \in Obj : held[t][o] > 0 => mem[o] = "live",
         CalmSteps(t)
  PROVE  /\ WriterInv(t)' /\ LocksKept(t)
         /\ pc[t] \notin {"set_valid", "notify_defined"}
         /\ pc'[t] \notin {"set_valid", "notify_defined"}
<1> DEFINE Holds == /\ WriterInv(t)' /\ LocksKept(t)
                    /\ pc[t] \notin {"set_valid", "notify_defined"}
                    /\ pc'[t] \notin {"set_valid", "notify_defined"}
<1>1. ASSUME NEW o \in Obj PROVE
        /\ declaredBy[o] # NoThread => /\ writer[o] = declaredBy[o] /\ readers[o] = {}
                                       /\ {"declare", "create"} \cap Ops[declaredBy[o]] # {}
                                       /\ valid[o] => pc[declaredBy[o]] = "notify_defined"
        /\ held[t][o] > 0 => hasParent[o]
        /\ mem[o] # "unused" => valid[o] \/ declaredBy[o] # NoThread
        /\ ~deleted[o]
  BY DEF LockStage, DeclarerInv, At
<1>2. UNCHANGED lock => LocksKept(t)
  BY DEF LocksKept, lock
<1>3. pc[t] # "idle" => cur[t] \in Obj /\ mem[cur[t]] # "unused"
  BY DEF TypeOK, CallsTyped, CallInv
<1> USE DEF TypeOK, ObjectsTyped, CallsTyped, WriterInv, Destructing, Defining, Updating,
            Reading, objVars, callVars, state, memory, lock
<1>4. DeclareExisting(t) => Holds
  BY <1>2 DEF DeclareExisting, Call, Goto
<1>5. Lookup(t) => Holds
  BY <1>2 DEF Lookup, Call, Goto
<1>6. ASSUME NEW o \in Obj, StartClaim(t, o) PROVE Holds
  BY <1>2, <1>6 DEF StartClaim, Call, Goto
<1>7. ASSUME NEW o \in Obj, StartRelease(t, o) PROVE Holds
  BY <1>2, <1>7 DEF StartRelease, Call, Goto
<1>8. UpdateEnd(t) => Holds
  BY <1>1, <1>3, <1>2 DEF UpdateEnd, Goto
<1>9. UpdateCancel(t) => Holds
  BY <1>1, <1>3 DEF UpdateCancel, Goto, WriteUnlock, LocksKept, Undeleted
<1>10. ASSUME NEW o \in Obj, Define(t, o) PROVE Holds
  BY <1>1, <1>2, <1>10 DEF Define, Call, Goto, MayDefine
<1>11. ASSUME NEW o \in Obj, UpdateBegin(t, o) PROVE Holds
  BY <1>1, <1>2, <1>11 DEF UpdateBegin, Call, Goto
<1>12. ASSUME NEW o \in Obj, InstantUpdate(t, o) PROVE Holds
  BY <1>2, <1>12 DEF InstantUpdate, Call, Goto
<1>13. InitSucceeds(t) => Holds
  BY <1>2 DEF InitSucceeds, Goto, Return, AfterDeclare
<1>14. RedeclareClaim(t) => Holds
  BY <1>2 DEF RedeclareClaim, Goto
<1>15. RedeclareNoWait(t) => Holds
  BY <1>2 DEF RedeclareNoWait, Goto, Return, AfterDeclare
<1>16. RedeclareWait(t) => Holds
  BY <1>2 DEF RedeclareWait, Goto
<1>17. ReadBegin(t) => Holds
  BY <1>1, <1>3 DEF ReadBegin, Goto, LocksKept
<1>18. ReadDeleted(t) => Holds
  BY <1>1, <1>3, <1>2 DEF ReadDeleted, Goto
<1>19. AssertValid(t) => Holds
  BY <1>2 DEF AssertValid, Goto
<1>20. ReadEndReturns(t) => Holds
  BY <1>1, <1>3 DEF ReadEndReturns, Return, AfterDeclare, LocksKept
<1>21. LookupFinds(t) => Holds
  BY <1>2 DEF LookupFinds, Return
<1>22. Claim(t) => Holds
  BY <1>2 DEF Claim, Goto
<1>23. DropsOne(t) => Holds
  BY <1>2 DEF DropsOne, Decrements, DoneReturns, DoneIdles, AfterDeclare
<1>24. CreateGoesOn(t, "idle") => Holds
  BY <1>2 DEF CreateGoesOn
<1>25. CreateDefines(t) => Holds
  BY <1>1, <1>3, <1>2 DEF CreateDefines, CreateGoesOn, MayDefine, CallInv, PcInv, Using
<1>26. DefineFails(t) => Holds
  BY <1>2 DEF DefineFails, AfterDefine
<1>27. UpdateCheck(t) => Holds
  BY <1>2 DEF UpdateCheck, Goto
<1>28. UpdateLock(t) => Holds
  BY <1>1, <1>3 DEF UpdateLock, WriteLock, Goto, LocksKept
<1>29. UpdateUnlock(t) => Holds
  BY <1>1, <1>3 DEF UpdateUnlock, Goto, WriteUnlock, LocksKept
<1>30. InstantLock(t) => Holds
  BY <1>1, <1>3 DEF InstantLock, WriteLock, Goto, LocksKept
<1>31. InstantNotify(t) => Holds
  BY <1>2 DEF InstantNotify, Goto
<1>32. InstantUnlock(t) => Holds
  BY <1>1, <1>3 DEF InstantUnlock, Goto, WriteUnlock, LocksKept
<1> QED BY <1>4, <1>5, <1>6, <1>7, <1>8, <1>9, <1>10, <1>11, <1>12, <1>13, <1>14,
   <1>15, <1>16, <1>17, <1>18, <1>19, <1>20, <1>21, <1>22, <1>23, <1>24, <1>25,
   <1>26, <1>27, <1>28, <1>29, <1>30, <1>31, <1>32 DEF CalmSteps, OtherStarts

LEMMA CalmKeeps ==
  ASSUME TypeOK, UndeletedLife, NEW t \in Thread, Steady(t), LocksKept(t), UNCHANGED program,
         WriterInv(t)', pc[t] \notin {"set_valid", "notify_defined"},
         pc'[t] \notin {"set_valid", "notify_defined"}
  PROVE  UndeletedLife'
<1>1. Undeleted'
  BY DEF UndeletedLife, Undeleted, Ops
<1>2. \A u \in Thread \ {t} : pc'[u] = pc[u] /\ cur'[u] = cur[u] /\ op'[u] = op[u]
  BY DEF Steady, Alone
<1>3. \A u \in Thread, o \in Obj :
         /\ At(u, o, {"set_valid"})' <=> At(u, o, {"set_valid"})
         /\ At(u, o, {"notify_defined"})' <=> At(u, o, {"notify_defined"})
  BY <1>2 DEF At
<1>4. ASSUME NEW o \in Obj PROVE LockStage(o)'
  <2>1. LockStage(o) /\ declaredBy'[o] = declaredBy[o]
    BY DEF UndeletedLife, Steady
  <2>2. CASE declaredBy[o] = NoThread
    BY <2>1, <2>2 DEF LockStage, DeclarerInv, LocksKept, Steady
  <2>3. CASE declaredBy[o] # NoThread
    <3>1. declaredBy[o] \in Thread
      BY <2>3 DEF TypeOK, ObjectsTyped
    <3> DEFINE d == declaredBy[o]
    <3>2. /\ At(d, o, {"set_valid"})' <=> At(d, o, {"set_valid"})
          /\ At(d, o, {"notify_defined"})' <=> At(d, o, {"notify_defined"})
      BY <1>3, <2>1, <3>1
    <3>3. writer'[o] = writer[o] /\ readers'[o] = {}
      BY <2>1, <2>3 DEF LocksKept, LockStage, DeclarerInv
    <3>4. DeclarerInv(o)'
      BY <2>1, <2>3, <3>2, <3>3 DEF LockStage, DeclarerInv, Steady, Ops
    <3> QED BY <2>1, <2>3, <3>2, <3>4 DEF LockStage, Steady
  <2> QED BY <2>2, <2>3
<1>5. ASSUME NEW u \in Thread, u # t PROVE WriterInv(u)'
  <2>1. WriterInv(u) /\ pc'[u] = pc[u] /\ cur'[u] = cur[u] /\ op'[u] = op[u]
    BY <1>2, <1>5 DEF UndeletedLife
  <2>2. pc[u] # "idle" => cur[u] \in Obj
    BY DEF TypeOK, CallsTyped
  <2>3. \A o \in Obj : writer[o] = u => writer'[o] = u
    BY <1>5, StoreAssumption DEF LocksKept
  <2> QED
    BY <2>1, <2>2, <2>3 DEF WriterInv, Destructing, Defining, Updating, Reading, Steady
<1> QED BY <1>1, <1>4, <1>5 DEF UndeletedLife

\* The declarer defines its object: nobody else is inside it.
LEMMA DefineKeeps ==
  ASSUME TypeOK, UndeletedLife, NEW t \in Thread, NEW c \in Obj, c = cur[t], mem[c] = "live",
         Construct(t) \/ SetValid(t) \/ NotifyDefined(t), UNCHANGED program
  PROVE  UndeletedLife'
<1>1. Undeleted'
  BY DEF UndeletedLife, Undeleted, Ops
<1>2. LockStage(c) /\ WriterInv(t)
  BY DEF UndeletedLife
<1>3. pc[t] \in Defining /\ writer[c] = t /\ declaredBy[c] = t
  BY <1>2 DEF Construct, SetValid, NotifyDefined, Goto, WriterInv, Defining
<1>4. \A u \in Thread \ {t} : pc'[u] = pc[u] /\ cur'[u] = cur[u] /\ op'[u] = op[u]
  BY DEF Construct, SetValid, NotifyDefined, callVars, Goto, TypeOK, CallsTyped
<1>5. /\ UNCHANGED <<mem, hasParent, deleted, destructed, inScope, readers, cur, op>>
      /\ valid[c] => valid'[c]
      /\ \A o \in Obj \ {c} : /\ valid'[o] = valid[o] /\ writer'[o] = writer[o]
                              /\ declaredBy'[o] = declaredBy[o]
                              /\ constructed'[o] = constructed[o]
  BY DEF Construct, SetValid, NotifyDefined, DeclaredByMeRemove, objVars, lock, memory, state,
         callVars, history, TypeOK, ObjectsTyped
<1>6. ASSUME NEW o \in Obj, o # c PROVE LockStage(o)'
  <2>1. LockStage(o)
    BY DEF UndeletedLife
  <2>2. ASSUME NEW u \in Thread
        PROVE  /\ At(u, o, {"set_valid"})' <=> At(u, o, {"set_valid"})
               /\ At(u, o, {"notify_defined"})' <=> At(u, o, {"notify_defined"})
    BY <1>4, <1>5, <1>6 DEF At
  <2>3. declaredBy[o] # NoThread => declaredBy[o] \in Thread
    BY DEF TypeOK, ObjectsTyped
  <2>4. CASE declaredBy[o] = NoThread
    BY <1>5, <1>6, <2>1, <2>4 DEF LockStage, DeclarerInv
  <2>5. CASE declaredBy[o] # NoThread
    BY <1>5, <1>6, <2>1, <2>2, <2>3, <2>5 DEF LockStage, DeclarerInv, Ops
  <2> QED BY <2>4, <2>5
<1>7. LockStage(c)' /\ WriterInv(t)'
  <2>1. /\ ~deleted[c] /\ destructed[c] = 0 /\ constructed[c] \in {0, 1}
        /\ hasParent[c] /\ inScope = c /\ readers[c] = {}
        /\ {"declare", "create"} \cap Ops'[t] # {}
        /\ ~valid[c] /\ constructed[c] = 1 => pc[t] = "set_valid"
        /\ t # NoThread
    BY <1>2, <1>3, StoreAssumption DEF LockStage, DeclarerInv, At, Ops, TypeOK, ObjectsTyped
  <2>2. /\ pc[t] \in {"construct", "set_valid"} => ~valid[c]
        /\ pc[t] = "set_valid" => constructed[c] = 1
        /\ pc[t] = "notify_defined" => valid[c]
        /\ op[t] # "update"
    BY <1>2, <1>3 DEF WriterInv, Defining
  <2>3. CASE Construct(t)
    <3>1. /\ pc[t] = "construct" /\ pc'[t] = "set_valid" /\ constructed'[c] = constructed[c] + 1
          /\ UNCHANGED <<valid, declaredBy, writer>>
      BY <2>3 DEF Construct, Goto, objVars, state, lock, TypeOK, ObjectsTyped, CallsTyped
    <3> QED
      BY <1>3, <1>5, <2>1, <2>2, <3>1
         DEF LockStage, DeclarerInv, At, WriterInv, Destructing, Defining, Updating, Reading
  <2>4. CASE SetValid(t)
    <3>1. /\ pc[t] = "set_valid" /\ pc'[t] = "notify_defined" /\ valid'[c]
          /\ UNCHANGED <<constructed, declaredBy, writer>>
      BY <2>4 DEF SetValid, Goto, history, lock, TypeOK, ObjectsTyped, CallsTyped
    <3> QED
      BY <1>3, <1>5, <2>1, <2>2, <3>1
         DEF LockStage, DeclarerInv, At, WriterInv, Destructing, Defining, Updating, Reading
  <2>5. CASE NotifyDefined(t)
    <3>1. /\ pc[t] = "notify_defined" /\ pc'[t] = "idle"
          /\ UNCHANGED <<constructed, valid>>
          /\ declaredBy'[c] = NoThread /\ writer'[c] = NoThread
      BY <1>3, <2>2, <2>5
         DEF NotifyDefined, DeclaredByMeRemove, AfterDefine, Goto, history, state, TypeOK,
             ObjectsTyped, CallsTyped
    <3> QED
      BY <1>3, <1>5, <2>1, <2>2, <3>1
         DEF LockStage, DeclarerInv, At, WriterInv, Destructing, Defining, Updating, Reading
  <2> QED BY <2>3, <2>4, <2>5
<1>8. ASSUME NEW u \in Thread, u # t PROVE WriterInv(u)'
  <2>1. WriterInv(u) /\ pc'[u] = pc[u] /\ cur'[u] = cur[u] /\ op'[u] = op[u]
    BY <1>4, <1>8 DEF UndeletedLife
  <2>2. pc[u] # "idle" => cur[u] \in Obj
    BY DEF TypeOK, CallsTyped
  <2>3. CASE cur[u] # c
    BY <1>5, <2>1, <2>2, <2>3 DEF WriterInv, Destructing, Defining, Updating, Reading
  <2>4. CASE cur[u] = c
    <3>1. pc[u] \notin Updating \cup Defining
      BY <1>3, <1>8, <2>1, <2>4 DEF WriterInv
    <3> QED
      BY <1>5, <2>1, <2>4, <3>1 DEF WriterInv, Destructing, Defining, Updating, Reading
  <2> QED BY <2>3, <2>4
<1> QED BY <1>1, <1>6, <1>7, <1>8 DEF UndeletedLife

LEMMA DeclareNewLocks ==
  ASSUME TypeOK, RefInv, UndeletedLife, NEW t \in Thread, NEW c \in Obj, DeclareNew(t, c),
         UNCHANGED program
  PROVE  UndeletedLife'
<1>1. Undeleted'
  BY DEF UndeletedLife, Undeleted, Ops
<1>2. /\ pc[t] = "idle" /\ pc' = [pc EXCEPT ![t] = "init"]
      /\ cur' = [cur EXCEPT ![t] = c]
      /\ inScope = NoObj /\ inScope' = c
      /\ mem[c] = "unused" /\ mem' = [mem EXCEPT ![c] = "live"]
      /\ hasParent' = [hasParent EXCEPT ![c] = TRUE]
      /\ declaredBy' = [declaredBy EXCEPT ![c] = t]
      /\ writer' = [writer EXCEPT ![c] = t]
      /\ UNCHANGED <<valid, deleted, readers, constructed, destructed>>
  BY DEF DeclareNew, Call, Goto, state, history
<1>3. PICK p \in {"declare", "create"} : op' = [op EXCEPT ![t] = p] /\ p \in Ops[t]
  BY DEF DeclareNew, Call
<1>4. \A u \in Thread : pc[u] # "idle" => cur[u] # c
  BY <1>2 DEF RefInv, CallsInv, CallInv
<1>5. \A o \in Obj : mem[o] = "unused"
  BY <1>2, StoreAssumption DEF UndeletedLife, LockStage
<1>6. ASSUME NEW o \in Obj, o # c PROVE LockStage(o)'
  <2>1. LockStage(o) /\ mem[o] = "unused"
    BY <1>5 DEF UndeletedLife
  <2> QED BY <1>2, <1>6, <2>1 DEF LockStage, DeclarerInv
<1>7. LockStage(c)'
  <2>1. LockStage(c)
    BY DEF UndeletedLife
  <2>2. {"declare", "create"} \cap Ops'[t] # {}
    BY <1>3 DEF Ops
  <2>3. DeclarerInv(c)'
    BY <1>2, <2>1, <2>2 DEF LockStage, DeclarerInv, TypeOK, ObjectsTyped
  <2>4. declaredBy'[c] # NoThread
    BY <1>2, StoreAssumption DEF TypeOK, ObjectsTyped
  <2> QED
    BY <1>2, <2>1, <2>3, <2>4 DEF LockStage, TypeOK, ObjectsTyped
<1>8. WriterInv(t)'
  BY <1>2 DEF WriterInv, Destructing, Defining, Updating, Reading, TypeOK, CallsTyped
<1>9. ASSUME NEW u \in Thread, u # t PROVE WriterInv(u)'
  <2>1. WriterInv(u) /\ pc'[u] = pc[u] /\ cur'[u] = cur[u] /\ op'[u] = op[u]
    BY <1>2, <1>3, <1>9 DEF UndeletedLife
  <2>2. pc[u] = "idle"
    BY <1>5 DEF RefInv, CallsInv, CallInv, TypeOK, CallsTyped
  <2> QED BY <2>1, <2>2 DEF WriterInv, Destructing, Defining, Updating, Reading
<1> QED BY <1>1, <1>6, <1>7, <1>8, <1>9 DEF UndeletedLife

\* A release does not drop the last reference to a bound object.
LEMMA BoundIsNotDropped ==
  ASSUME TypeOK, RefInv, NEW t \in Thread, DropsLast(t, "release", "destruct"),
         \A o \in Obj : mem[o] = "live" => hasParent[o] /\ inScope = o
  PROVE  FALSE
<1>1. PICK c \in Obj : /\ c = cur[t] /\ mem[c] = "live" /\ refcount[c] = 1
                       /\ pc[t] = "release"
  BY DEF DropsLast, Decrements, Alive, TypeOK, CallsTyped
<1>2. \A u \in Thread : Count(u, c) \in Nat
  BY CountTyped DEF RefInv
<1>3. /\ References(c) = 1
      /\ \A u \in Thread : t # u => Count(t, c) + Count(u, c) <= References(c)
      /\ Count(t, c) <= References(c)
  BY <1>1, <1>2, EnoughReferences DEF RefInv, CountIsExact, Orphaned
<1>4. Carried(t, c) = 1
  BY <1>1 DEF Carried
<1>5. held[t][c] = 0 /\ Count(t, c) = 1
  BY <1>3, <1>4 DEF Count, RefInv, HeldIsCounted
<1>6. \A u \in Thread \ {t} : Count(u, c) = 0
  BY <1>2, <1>3, <1>5
<1>7. ~Keeps(t, c)
  BY <1>1, <1>5 DEF Keeps, Initializing
<1>8. PICK u \in Thread : Keeps(u, c)
  BY <1>1 DEF RefInv, NeededIsKept, Needed
<1> QED BY <1>6, <1>7, <1>8, KeptIsCounted DEF RefInv

LEMMA UndeletedCases ==
  ASSUME TypeOK, RefInv, InitNeverFails, CreatesDefine', UndeletedLife, NEW t \in Thread,
         Start(t) \/ Step(t)
  PROVE  \/ CalmSteps(t) \/ Construct(t) \/ SetValid(t) \/ NotifyDefined(t)
         \/ \E o \in Obj : DeclareNew(t, o)
<1>1. WriterInv(t) /\ CallInv(t) /\ "delete" \notin Ops[t]
  BY DEF UndeletedLife, Undeleted, RefInv, CallsInv
<1>2. \A o \in Obj : ~StartDelete(t, o)
  BY <1>1 DEF StartDelete, Call
<1>3. ~(InitFails(t) \/ InitFailed(t) \/ LookupReset(t))
  BY <1>1 DEF InitFails, InitFailed, LookupReset, Goto, InitNeverFails, CallInv, PcInv
<1>4. ~(Destruct(t) \/ DestructCheck(t) \/ Destructor(t) \/ ClearValid(t) \/ MarkDeleted(t)
        \/ Cleanup(t) \/ Orphan(t) \/ Dealloc(t) \/ ReadEndRetries(t))
  BY <1>1 DEF Destruct, DestructCheck, Destructor, ClearValid, MarkDeleted, Cleanup, Orphan,
              Dealloc, ReleaseDone, ReadEndRetries, Goto, WriterInv, Destructing
<1>5. ASSUME Decrement(t) PROVE FALSE
  <2>1. pc[t] = "decrement"
    BY <1>5, DecrementCases DEF Decrement, Goto, ReleaseDone
  <2> QED BY <1>1, <2>1 DEF WriterInv, Destructing
<1>6. ~CreateDeletes(t)
  BY <1>1 DEF CreateDeletes, CallInv, PcInv, CreatesDefine, TypeOK, CallsTyped
<1>7. ~LookupMisses(t)
  BY NoLookupMisses
<1>8. ~DropsLast(t, "release", "destruct")
  BY BoundIsNotDropped DEF UndeletedLife, LockStage
<1>9. CASE Start(t)
  BY <1>2, <1>9 DEF Start, CalmSteps, OtherStarts
<1>10. CASE Step(t)
  BY <1>3, <1>4, <1>5, <1>6, <1>7, <1>8, <1>10, ReadEndCases, CreateOutcomes,
     ConstructFailsCases, LookupClaimCases, ReleaseCases DEF Step, CalmSteps
<1> QED BY <1>9, <1>10

LEMMA UndeletedStep ==
  ASSUME TypeOK, RefInv, InitNeverFails, CreatesDefine', UndeletedLife, NEW t \in Thread,
         Start(t) \/ Step(t), UNCHANGED program
  PROVE  UndeletedLife'
<1>1. CASE CalmSteps(t)
  <2>1. \A o \in Obj : held[t][o] > 0 => mem[o] = "live"
    BY KeptIsCounted DEF RefInv, CountIsExact, Keeps
  <2>2. WriterInv(t) /\ CallInv(t) /\ Undeleted /\ \A o \in Obj : LockStage(o)
    BY DEF UndeletedLife, RefInv, CallsInv
  <2>3. /\ WriterInv(t)' /\ LocksKept(t)
        /\ pc[t] \notin {"set_valid", "notify_defined"}
        /\ pc'[t] \notin {"set_valid", "notify_defined"}
    BY <1>1, <2>1, <2>2, CalmStep
  <2> QED BY <1>1, <2>3, CalmIsSteady, CalmKeeps
<1>2. CASE Construct(t) \/ SetValid(t) \/ NotifyDefined(t)
  <2>1. PICK c \in Obj : c = cur[t] /\ mem[c] = "live"
    BY <1>2 DEF Construct, SetValid, NotifyDefined, Alive, TypeOK, CallsTyped
  <2> QED BY <1>2, <2>1, DefineKeeps
<1> QED BY <1>1, <1>2, UndeletedCases, DeclareNewLocks

LEMMA UndeletedInit == Init /\ Undeleted => UndeletedLife
<1> SUFFICES ASSUME Init, Undeleted PROVE UndeletedLife
  OBVIOUS
<1>1. \A o \in Obj : LockStage(o)
  BY DEF Init, LockStage, DeclarerInv
<1>2. \A t \in Thread : WriterInv(t)
  BY DEF Init, WriterInv, Destructing, Defining, Updating, Reading
<1> QED BY <1>1, <1>2 DEF UndeletedLife

LEMMA UndeletedNext ==
  TypeOK /\ RefInv /\ Disciplined' /\ InitNeverFails /\ UndeletedLife /\ [Next]_vars
  => UndeletedLife' /\ InitNeverFails'
<1> SUFFICES ASSUME TypeOK, RefInv, Disciplined', InitNeverFails, [Next]_vars, UndeletedLife
             PROVE  UndeletedLife' /\ InitNeverFails'
  OBVIOUS
<1>1. program' = program
  BY DEF Next, vars
<1>2. InitNeverFails'
  BY <1>1 DEF InitNeverFails, MayFail
<1>3. ASSUME UNCHANGED <<objVars, threadVars, history>> PROVE UndeletedLife'
  <2> USE <1>1, <1>3 DEF objVars, memory, state, lock, threadVars, callVars, history, Ops
  <2>1. Undeleted'
    BY DEF UndeletedLife, Undeleted
  <2>2. \A o \in Obj : LockStage(o)'
    BY DEF UndeletedLife, LockStage, DeclarerInv, At
  <2>3. \A t \in Thread : WriterInv(t)'
    BY DEF UndeletedLife, WriterInv, Destructing, Defining, Updating, Reading
  <2> QED BY <2>1, <2>2, <2>3 DEF UndeletedLife
<1>4. UNCHANGED vars => UndeletedLife'
  BY <1>3 DEF vars
<1>5. ASSUME NEW t \in Thread, UseAfterFree(t) PROVE UndeletedLife'
  BY <1>3, <1>5 DEF UseAfterFree
<1>6. ASSUME NEW t \in Thread, Start(t) \/ Step(t) PROVE UndeletedLife'
  BY <1>1, <1>6, UndeletedStep DEF Disciplined
<1> QED BY <1>2, <1>4, <1>5, <1>6 DEF Next

LEMMA UndeletedCorrect ==
    Spec /\ []Disciplined /\ InitNeverFails /\ Undeleted => []UndeletedLife
BY RefCorrect, UndeletedInit, UndeletedNext, PTL DEF Spec

\* The declarer's definition of its object is all that can be seen.
LEMMA UndeletedImplements ==
  ASSUME TypeOK, RefInv, InitNeverFails, CreatesDefine', UndeletedLife, NEW t \in Thread,
         Start(t) \/ Step(t)
  PROVE  Promise!Next \/ UNCHANGED <<phaseOf, inScope>>
<1>1. CASE CalmSteps(t)
  BY <1>1, CalmIsSteady, SteadyStutters
<1>2. CASE Construct(t) \/ NotifyDefined(t)
  <2>1. UNCHANGED <<mem, valid, deleted, destructed, inScope>>
    BY <1>2 DEF Construct, NotifyDefined, objVars, memory, state, history
  <2>2. phaseOf' = phaseOf
    BY <2>1 DEF phaseOf
  <2> QED BY <2>1, <2>2
<1>3. ASSUME SetValid(t) PROVE Promise!Next
  <2>1. PICK c \in Obj : c = cur[t] /\ mem[c] = "live"
    BY <1>3 DEF SetValid, Alive, Goto, TypeOK, CallsTyped
  <2>2. LockStage(c) /\ ~valid[c]
    BY <1>3, <2>1 DEF UndeletedLife, WriterInv, SetValid, Goto
  <2>3. ~deleted[c] /\ destructed[c] = 0 /\ inScope = c
    BY <2>1, <2>2 DEF LockStage
  <2>4. /\ valid' = [valid EXCEPT ![c] = TRUE]
        /\ UNCHANGED <<mem, deleted, destructed, inScope>>
    BY <1>3, <2>1 DEF SetValid, memory, history
  <2>5. \A o \in Obj \ {c} : phaseOf'[o] = phaseOf[o]
    BY <2>4, PhaseKept DEF IsDefined, TypeOK, ObjectsTyped
  <2>6. phaseOf[c] = "declared"
    BY <2>1, <2>2, <2>3, PhaseIs DEF IsDefined
  <2>7. phaseOf'[c] = "defined"
    BY <2>1, <2>3, <2>4 DEF phaseOf, TypeOK, ObjectsTyped
  <2> QED
    BY <2>3, <2>4, <2>5, <2>6, <2>7, PhaseChanges DEF Promise!Define, Promise!Next
<1>4. ASSUME NEW c \in Obj, DeclareNew(t, c) PROVE Promise!Next
  <2>1. LockStage(c) /\ mem[c] = "unused"
    BY <1>4 DEF UndeletedLife, DeclareNew
  <2>2. Promise!Declare(c)
    BY <1>4, <2>1, FreshDeclares DEF LockStage
  <2> QED BY <2>2 DEF Promise!Next
<1> QED BY <1>1, <1>2, <1>3, <1>4, UndeletedCases

\* A release gives up a reference that is counted.
LEMMA ReleaseCounts ==
  ASSUME TypeOK, RefInv, NEW t \in Thread, Release(t)
  PROVE  ~(refcount[cur[t]] < 1)
<1>1. PICK c \in Obj : c = cur[t] /\ mem[c] = "live" /\ pc[t] = "release"
  <2>1. pc[t] = "release"
    BY ReleaseCases DEF DropsOne, DropsLast, Release, Goto, ReleaseDone
  <2> QED BY <2>1 DEF Release, Alive, TypeOK, CallsTyped
<1>2. \A u \in Thread : Count(u, c) \in Nat
  BY CountTyped DEF RefInv
<1>3. /\ References(c) \in Nat /\ Count(t, c) <= References(c)
      /\ refcount[c] = References(c) + Orphaned(c)
  BY <1>1, <1>2, EnoughReferences DEF RefInv, CountIsExact
<1>4. Count(t, c) >= 1
  BY <1>1 DEF Count, Carried, RefInv, HeldIsCounted
<1>5. Orphaned(c) \in {0, 1}
  BY DEF Orphaned
<1> QED BY <1>1, <1>2, <1>3, <1>4, <1>5

(***************************************************************************)
(* Theorems                                                                *)
(***************************************************************************)
\* The programs that the theorems are about: no initializer fails, and the objects of
\* the name have one owner, or are not deleted.
Careful == InitNeverFails /\ (Owned \/ Undeleted)

LEMMA CarefulCorrect ==
    Spec /\ []Disciplined /\ Careful => [](OwnedLife \/ UndeletedLife)
<1>1. Careful => InitNeverFails /\ (Owned \/ Undeleted)
  BY DEF Careful
<1> QED BY <1>1, OwnedLifeCorrect, UndeletedCorrect, PTL

LEMMA CarefulHolds == TypeOK /\ (OwnedLife \/ UndeletedLife) => Lifecycle
<1>1. ASSUME TypeOK, NEW w \in Thread, OwnerLife(w) PROVE Lifecycle
  <2>1. DestructedOnce
    <3> SUFFICES ASSUME NEW o \in Obj
                 PROVE  /\ destructed[o] <= constructed[o]
                        /\ constructed[o] <= 1
                        /\ mem[o] = "freed" => destructed[o] = constructed[o]
      BY DEF DestructedOnce
    <3>1. StageInv(w, o)
      BY <1>1 DEF OwnerLife
    <3> QED
      BY <1>1, <3>1 DEF StageInv, DeclaredStage, DefinedStage, DeletedStage, At, TypeOK,
                        ObjectsTyped
  <2>2. BoundUntilDeleted
    BY <1>1 DEF OwnerLife, StageInv, BoundUntilDeleted
  <2>3. UpdatesExclude
    <3>1. \A u \in Thread \ {w} : pc[u] \notin {"updating", "update_end", "instant_update",
                                                "instant_unlock", "construct", "set_valid",
                                                "notify_defined"}
      BY <1>1 DEF OwnerLife, OtherInv, OtherPc
    <3> QED BY <3>1 DEF UpdatesExclude
  <2> QED BY <1>1, <2>1, <2>2, <2>3 DEF Lifecycle
<1>2. ASSUME TypeOK, UndeletedLife PROVE Lifecycle
  <2>1. DestructedOnce /\ BoundUntilDeleted
    BY <1>2 DEF UndeletedLife, LockStage, DestructedOnce, BoundUntilDeleted, TypeOK, ObjectsTyped
  <2>2. UpdatesExclude
    BY <1>2 DEF UndeletedLife, WriterInv, Updating, Defining, UpdatesExclude
  <2> QED BY <1>2, <2>1, <2>2 DEF Lifecycle
<1> QED BY <1>1, <1>2 DEF OwnedLife

\* An object is destructed once, and before its memory is given back, its name is not
\* taken from it before it is deleted, and one thread at a time writes it, or is still
\* defining it (Lifecycle: corto_declareChild, corto_define, corto_update and
\* corto_destruct, src/store/object.c), when one thread owns the objects of the name
\* or nobody deletes them.
THEOREM LifecycleIsKept == Spec /\ []Disciplined /\ Careful => []Lifecycle
BY CarefulCorrect, CarefulHolds, RefCorrect, PTL

\* The constructor and the destructor of an object run once each at most, and both or
\* neither before the object is freed (DestructedOnce: corto_destruct,
\* src/store/object.c:3431).
THEOREM ObjectsAreDestructedOnce == Spec /\ []Disciplined /\ Careful => []DestructedOnce
<1>1. Lifecycle => DestructedOnce
  BY DEF Lifecycle
<1> QED BY <1>1, LifecycleIsKept, PTL

\* The store implements the specification NamedObject: every step that a thread makes
\* between two points where another can run is a step of the promise or does nothing
\* that can be seen of the objects of the name.
THEOREM PromiseIsKept == Spec /\ []Disciplined /\ Careful => NamedObjectSpec
<1>1. Init => Promise!Init
  <2> SUFFICES ASSUME Init PROVE Promise!Init
    OBVIOUS
  <2>1. phaseOf = [o \in Obj |-> "absent"]
    BY DEF Init, phaseOf
  <2> QED BY <2>1 DEF Init, Promise!Init
<1>2. /\ TypeOK /\ RefInv /\ Disciplined' /\ InitNeverFails /\ (OwnedLife \/ UndeletedLife)
      /\ [Next]_vars
      => [Promise!Next]_<<phaseOf, inScope>>
  <2> SUFFICES ASSUME TypeOK, RefInv, Disciplined', InitNeverFails, [Next]_vars,
                      OwnedLife \/ UndeletedLife
               PROVE  Promise!Next \/ UNCHANGED <<phaseOf, inScope>>
    OBVIOUS
  <2>1. UNCHANGED <<objVars, history>> => UNCHANGED <<phaseOf, inScope>>
    BY DEF phaseOf, objVars, memory, state, history
  <2>2. UNCHANGED vars => UNCHANGED <<phaseOf, inScope>>
    BY <2>1 DEF vars
  <2>3. ASSUME NEW t \in Thread, UseAfterFree(t) PROVE UNCHANGED <<phaseOf, inScope>>
    BY <2>1, <2>3 DEF UseAfterFree
  <2>4. ASSUME NEW t \in Thread, Start(t) \/ Step(t)
        PROVE  Promise!Next \/ UNCHANGED <<phaseOf, inScope>>
    BY <2>4, OwnerStepImplements, UndeletedImplements DEF Disciplined, OwnedLife
  <2> QED BY <2>2, <2>3, <2>4 DEF Next
<1>3. Careful => InitNeverFails
  BY DEF Careful
<1>4. InitNeverFails /\ [Next]_vars => InitNeverFails'
  BY DEF InitNeverFails, MayFail, Next, vars
<1> QED
  BY <1>1, <1>2, <1>3, <1>4, RefCorrect, CarefulCorrect, PTL
     DEF Spec, NamedObjectSpec, Promise!Spec, Promise!vars

\* Where nothing is deleted, no call meets anything undefined: the thread that waits for
\* the definition of an object finds it valid (the assertion of
\* corto_declareChild_intern, src/store/object.c:2283), and no count becomes negative.
NoFault == fault = "none"

THEOREM UndeletedNeverFaults ==
    Spec /\ []Disciplined /\ InitNeverFails /\ Undeleted => []NoFault
<1>1. TypeOK /\ RefInv /\ UndeletedLife /\ NoFault /\ InitNeverFails /\ [Next]_vars
      => NoFault'
  <2> SUFFICES ASSUME TypeOK, RefInv, UndeletedLife, NoFault, InitNeverFails, [Next]_vars
               PROVE  NoFault'
    OBVIOUS
  <2>1. UNCHANGED vars => NoFault'
    BY DEF vars, NoFault
  <2>2. ASSUME NEW t \in Thread, UseAfterFree(t) PROVE FALSE
    BY <2>2, CallsAreAlive DEF UseAfterFree, InitNeverFails
  <2>3. ASSUME NEW t \in Thread, Step(t) PROVE NoFault'
    <3>1. WriterInv(t)
      BY DEF UndeletedLife
    <3>2. AssertValid(t) => NoFault'
      BY <3>1 DEF AssertValid, Goto, WriterInv, Reading, NoFault
    <3>3. ~Destructor(t)
      BY <3>1 DEF Destructor, Goto, WriterInv, Destructing
    <3>4. Release(t) => NoFault'
      BY ReleaseCounts DEF Release, NoFault
    <3> QED BY <2>3, <3>2, <3>3, <3>4, FaultStep DEF NoFault
  <2>4. ASSUME NEW t \in Thread, Start(t) PROVE NoFault'
    BY <2>4, FaultStart DEF NoFault
  <2> QED BY <2>1, <2>2, <2>3, <2>4 DEF Next
<1>2. Init => NoFault
  BY DEF Init, NoFault
<1>3. InitNeverFails /\ [Next]_vars => InitNeverFails'
  BY DEF InitNeverFails, MayFail, Next, vars
<1> QED BY <1>1, <1>2, <1>3, RefCorrect, UndeletedCorrect, PTL DEF Spec
=============================================================================
