---------------------------- MODULE ObjectStore ----------------------------
(***************************************************************************)
(* The life of the objects that are declared under one name of one scope,  *)
(* as src/store/object.c implements it for several threads: declare,       *)
(* create, define, update, look up, claim, release and delete, down to the *)
(* single atomic steps between which another thread can run (an atomic     *)
(* increment, a read of the state bits, a section under the scopeLock of   *)
(* the parent, an acquisition of the write lock of the object).            *)
(*                                                                         *)
(* The sections under the scopeLock of the parent are one step each: the   *)
(* tree of the scope is only accessed with that lock.  An element of Obj   *)
(* is one allocation and is never used again after it is freed, so that an *)
(* access to freed memory is visible: it sets `fault' and nothing happens  *)
(* after it.  The calls that the threads of a program make are bounded.     *)
(***************************************************************************)
EXTENDS Integers, FiniteSets

CONSTANTS
    Thread,     \* threads that use the store
    Obj,        \* allocations, in the pool the heap can return
    NoThread, NoObj,
    Program     \* the programs that use the store, see Programs

OpNames == {"declare", "create", "define", "lookup", "claim", "release",
            "delete", "update_begin", "update_cancel", "update"}

\* A program: the operations that the code of each thread calls, how many calls
\* each thread makes (a bound), which callbacks of the type may return an error,
\* and whether the threads drop a last reference only when no thread is inside a
\* declare or a lookup of the name.
Programs == [ops: [Thread -> SUBSET OpNames], calls: [Thread -> Nat],
             mayFail: SUBSET {"init", "construct"}, quiesce: BOOLEAN]

ASSUME StoreAssumption ==
    /\ NoThread \notin Thread
    /\ NoObj \notin Obj
    /\ Program \subseteq Programs

VARIABLES
    program,    \* the program that runs, fixed at the start
    mem,        \* "unused", "live" or "freed", per allocation
    hasParent,  \* corto__scope.parent is set
    refcount,   \* corto__object.refcount
    valid,      \* CORTO_VALID in corto__object.align.attrs.state
    deleted,    \* CORTO_DELETED in the same field
    inScope,    \* what the tree of the parent stores under the name
    declaredBy, \* the thread whose declared admin (in its TLS) lists the object
    writer,     \* the thread with the write lock of the object
    readers,    \* the threads with its read lock
    pc,         \* where each thread is, "idle" between two calls
    cur,        \* the object the call of the thread is about
    op,         \* the call under way
    cont,       \* what follows a corto_release or corto_destruct made by it
    wasDefined, \* local variable `defined' of corto_destruct
    result,     \* what the last declare, create or lookup returned
    held,       \* references a thread has been given and has not given up
    budget,     \* calls the thread may still make
    constructed,\* history: constructor calls, per object
    destructed, \* history: destructor calls, per object
    fault       \* "none", or the first undefined or fatal thing that happened

state == <<valid, deleted>>
lock == <<writer, readers>>
memory == <<mem, hasParent>>
objVars == <<memory, refcount, state, inScope, declaredBy, lock>>
callVars == <<cur, op, cont, wasDefined, result, held, budget>>
threadVars == <<pc, callVars>>
history == <<constructed, destructed>>
vars == <<program, objVars, threadVars, history, fault>>

Ops == program.ops
MayFail == program.mayFail
Quiesce == program.quiesce

Faults == {"use_after_free", "unblocked_but_not_valid", "destructor_of_undefined",
           "negative_refcount"}

PcSet == {"idle",
          "init", "init_failed", "construct", "set_valid", "notify_defined",
          "redeclared", "redeclare_check", "wait", "wait_deleted",
          "wait_valid", "read_end", "read_end_deleted", "create_check",
          "lookup_claim", "lookup_reset", "claim", "release",
          "destruct", "destruct_check", "destructor", "clear_valid",
          "mark_deleted", "cleanup", "orphan", "decrement", "dealloc",
          "update_check", "update_lock", "updating", "update_end",
          "instant_lock", "instant_update", "instant_unlock"}

Conts == {"none", "retry", "delete"}

Init ==
    /\ program \in Program
    /\ mem = [o \in Obj |-> "unused"]
    /\ hasParent = [o \in Obj |-> FALSE]
    /\ refcount = [o \in Obj |-> 0]
    /\ valid = [o \in Obj |-> FALSE]
    /\ deleted = [o \in Obj |-> FALSE]
    /\ inScope = NoObj
    /\ declaredBy = [o \in Obj |-> NoThread]
    /\ writer = [o \in Obj |-> NoThread]
    /\ readers = [o \in Obj |-> {}]
    /\ pc = [t \in Thread |-> "idle"]
    /\ cur = [t \in Thread |-> NoObj]
    /\ op = [t \in Thread |-> "none"]
    /\ cont = [t \in Thread |-> "none"]
    /\ wasDefined = [t \in Thread |-> FALSE]
    /\ result = [t \in Thread |-> NoObj]
    /\ held = [t \in Thread |-> [o \in Obj |-> 0]]
    /\ budget = program.calls
    /\ constructed = [o \in Obj |-> 0]
    /\ destructed = [o \in Obj |-> 0]
    /\ fault = "none"

(***************************************************************************)
(* Steps                                                                   *)
(***************************************************************************)

\* Thread t goes from program point p to program point q.
Goto(t, p, q) == /\ pc[t] = p
                 /\ pc' = [pc EXCEPT ![t] = q]

\* The header of the object is read or written: it is still allocated.
Alive(t) == pc[t] # "idle" /\ mem[cur[t]] = "live"

\* Thread t, idle, calls operation o_p, which continues at q about object o.
Call(t, o_p, o, q) ==
    /\ o_p \in Ops[t]
    /\ budget[t] > 0
    /\ budget' = [budget EXCEPT ![t] = @ - 1]
    /\ op' = [op EXCEPT ![t] = o_p]
    /\ cur' = [cur EXCEPT ![t] = o]
    /\ Goto(t, "idle", q)

\* The call of thread t hands reference o to its caller.
Return(t, o) ==
    /\ result' = [result EXCEPT ![t] = o]
    /\ held' = [held EXCEPT ![t][o] = @ + 1]

\* corto_create continues with corto_create_intern where corto_declare returns.
AfterDeclare(t) == IF op[t] = "create" THEN "create_check" ELSE "idle"

(***************************************************************************)
(* corto_declareChild_intern up to the end of corto_adopt.  A name that is *)
(* free is bound to a new object, which its declarer keeps write locked    *)
(* and lists in its declared admin.  Otherwise the new object is thrown    *)
(* away and the existing one is used, outside the scopeLock.               *)
(***************************************************************************)
DeclareNew(t, o) ==
    /\ inScope = NoObj
    /\ mem[o] = "unused"
    /\ \E o_p \in {"declare", "create"} : Call(t, o_p, o, "init")
    /\ mem' = [mem EXCEPT ![o] = "live"]
    /\ hasParent' = [hasParent EXCEPT ![o] = TRUE]
    /\ refcount' = [refcount EXCEPT ![o] = 1]
    /\ inScope' = o
    /\ declaredBy' = [declaredBy EXCEPT ![o] = t]
    /\ writer' = [writer EXCEPT ![o] = t]
    /\ UNCHANGED <<state, readers, cont, wasDefined, result, held, history,
                   fault>>

DeclareExisting(t) ==
    /\ inScope # NoObj
    /\ \E o_p \in {"declare", "create"} : Call(t, o_p, inScope, "redeclared")
    /\ UNCHANGED <<objVars, cont, wasDefined, result, held, history, fault>>

\* corto_init returned 0: the DECLARE event.
InitSucceeds(t) ==
    /\ Alive(t)
    /\ Goto(t, "init", AfterDeclare(t))
    /\ Return(t, cur[t])
    /\ UNCHANGED <<objVars, cur, op, cont, wasDefined, budget, history, fault>>

\* corto_init returned an error: corto_orphan, by name.
InitFails(t) ==
    /\ "init" \in MayFail
    /\ Alive(t)
    /\ Goto(t, "init", "init_failed")
    /\ inScope' = NoObj
    /\ UNCHANGED <<memory, refcount, state, declaredBy, lock, callVars, history,
                   fault>>

\* corto_deinit_scope; the object is deallocated if nobody else claimed it.
\* Neither its entry in the declared admin nor its write lock is given up.
InitFailed(t) ==
    /\ Alive(t)
    /\ Goto(t, "init_failed", "idle")
    /\ mem' = IF refcount[cur[t]] = 1 THEN [mem EXCEPT ![cur[t]] = "freed"]
                                      ELSE mem
    /\ hasParent' = [hasParent EXCEPT ![cur[t]] = FALSE]
    /\ result' = [result EXCEPT ![t] = NoObj]
    /\ UNCHANGED <<refcount, state, inScope, declaredBy, lock, cur, op, cont,
                   wasDefined, held, budget, history, fault>>

(***************************************************************************)
(* corto_declareChild_intern, when the name is bound: claim the object,    *)
(* and wait on its read lock when another thread is still defining it.     *)
(***************************************************************************)
\* Mutant: the claim is left out.
RedeclareNoClaim(t) ==
    /\ Alive(t)
    /\ Goto(t, "redeclared", "redeclare_check")
    /\ UNCHANGED <<objVars, callVars, history, fault>>

RedeclareClaim(t) ==
    /\ Alive(t)
    /\ Goto(t, "redeclared", "redeclare_check")
    /\ refcount' = [refcount EXCEPT ![cur[t]] = @ + 1]
    /\ UNCHANGED <<memory, state, inScope, declaredBy, lock, callVars, history,
                   fault>>

BeingDefinedByOther(t, o) ==
    /\ ~valid[o] /\ ~deleted[o]
    /\ declaredBy[o] # t

RedeclareNoWait(t) ==
    /\ Alive(t)
    /\ ~BeingDefinedByOther(t, cur[t])
    /\ Goto(t, "redeclare_check", AfterDeclare(t))
    /\ Return(t, cur[t])
    /\ UNCHANGED <<objVars, cur, op, cont, wasDefined, budget, history, fault>>

RedeclareWait(t) ==
    /\ Alive(t)
    /\ BeingDefinedByOther(t, cur[t])
    /\ Goto(t, "redeclare_check", "wait")
    /\ UNCHANGED <<objVars, callVars, history, fault>>

\* corto_read_begin: blocks while a thread has the write lock.
ReadBegin(t) ==
    /\ Alive(t)
    /\ writer[cur[t]] = NoThread
    /\ Goto(t, "wait", "wait_deleted")
    /\ readers' = [readers EXCEPT ![cur[t]] = @ \cup {t}]
    /\ UNCHANGED <<memory, refcount, state, inScope, declaredBy, writer, callVars,
                   history, fault>>

\* The local variable `deleted'.
ReadDeleted(t) ==
    /\ Alive(t)
    /\ Goto(t, "wait_deleted",
            IF deleted[cur[t]] THEN "read_end_deleted" ELSE "wait_valid")
    /\ UNCHANGED <<objVars, callVars, history, fault>>

\* corto_assert(VALID): the process is aborted when it does not hold.
AssertValid(t) ==
    /\ Alive(t)
    /\ Goto(t, "wait_valid", "read_end")
    /\ fault' = IF valid[cur[t]] THEN fault ELSE "unblocked_but_not_valid"
    /\ UNCHANGED <<objVars, callVars, history>>

ReadEnd(t) ==
    /\ Alive(t)
    /\ readers' = [readers EXCEPT ![cur[t]] = @ \ {t}]
    /\ \/ /\ Goto(t, "read_end", AfterDeclare(t))
          /\ Return(t, cur[t])
          /\ UNCHANGED cont
       \/ /\ Goto(t, "read_end_deleted", "release")
          /\ cont' = [cont EXCEPT ![t] = "retry"]
          /\ UNCHANGED <<result, held>>
    /\ UNCHANGED <<memory, refcount, state, inScope, declaredBy, writer, cur, op,
                   wasDefined, budget, history, fault>>

(***************************************************************************)
(* corto_define_intern: construct, set VALID, notify, leave the declared   *)
(* admin and unlock.                                                       *)
(***************************************************************************)
\* Mutant: any thread may define any object that is not valid.
MayAlwaysDefine(t, o) == TRUE

\* An object of the tree is defined by the thread that declared it.
MayDefine(t, o) == hasParent[o] => declaredBy[o] = t

\* corto_create_intern on what corto_declareChild_intern returned.
CreateDefine(t) ==
    /\ Alive(t)
    /\ pc[t] = "create_check"
    /\ \/ /\ valid[cur[t]]
          /\ Goto(t, "create_check", "idle")
          /\ UNCHANGED <<held, cont>>
       \/ /\ ~valid[cur[t]]
          /\ MayDefine(t, cur[t])
          /\ Goto(t, "create_check", "construct")
          /\ UNCHANGED <<held, cont>>
       \/ /\ ~valid[cur[t]]
          /\ ~MayDefine(t, cur[t])
          /\ Goto(t, "create_check", "destruct")
          /\ held' = [held EXCEPT ![t][cur[t]] = @ - 1]
          /\ cont' = [cont EXCEPT ![t] = "delete"]
    /\ UNCHANGED <<objVars, cur, op, wasDefined, result, budget, history,
                   fault>>

\* corto_define.  (When MayDefine does not hold it fails, and on an object that
\* is valid it has no effect.)
Define(t, o) ==
    /\ held[t][o] > 0
    /\ ~valid[o]
    /\ MayDefine(t, o)
    /\ Call(t, "define", o, "construct")
    /\ UNCHANGED <<objVars, cont, wasDefined, result, held, history, fault>>

\* corto_update defines the object under the write lock, and unlocks it.
AfterDefine(t) == IF op[t] = "update" THEN "instant_unlock" ELSE "idle"

Construct(t) ==
    /\ Alive(t)
    /\ Goto(t, "construct", "set_valid")
    /\ constructed' = [constructed EXCEPT ![cur[t]] = @ + 1]
    /\ UNCHANGED <<objVars, callVars, destructed, fault>>

\* The constructor returns an error: corto_create deletes the object.
ConstructFails(t) ==
    /\ "construct" \in MayFail
    /\ Alive(t)
    /\ IF op[t] = "create"
       THEN /\ Goto(t, "construct", "destruct")
            /\ held' = [held EXCEPT ![t][cur[t]] = @ - 1]
            /\ cont' = [cont EXCEPT ![t] = "delete"]
       ELSE /\ Goto(t, "construct", AfterDefine(t))
            /\ UNCHANGED <<held, cont>>
    /\ UNCHANGED <<objVars, cur, op, wasDefined, result, budget, history,
                   fault>>

\* corto_notifyDefined: VALID is visible before the notification and the unlock.
SetValid(t) ==
    /\ Alive(t)
    /\ Goto(t, "set_valid", "notify_defined")
    /\ valid' = [valid EXCEPT ![cur[t]] = TRUE]
    /\ UNCHANGED <<memory, refcount, deleted, inScope, declaredBy, lock, callVars,
                   history, fault>>

\* Mutant: the object leaves the admin and stays locked.
DeclaredByMeForget(t, o) ==
    /\ declaredBy' = IF declaredBy[o] = t THEN [declaredBy EXCEPT ![o] = NoThread]
                                          ELSE declaredBy
    /\ UNCHANGED writer

\* corto_declaredByMeRemove(o), called by thread t.
DeclaredByMeRemove(t, o) ==
    IF declaredBy[o] = t
    THEN /\ declaredBy' = [declaredBy EXCEPT ![o] = NoThread]
         /\ writer' = [writer EXCEPT ![o] = NoThread]
    ELSE UNCHANGED <<declaredBy, writer>>

NotifyDefined(t) ==
    /\ Alive(t)
    /\ Goto(t, "notify_defined", AfterDefine(t))
    /\ DeclaredByMeRemove(t, cur[t])
    /\ UNCHANGED <<memory, refcount, state, inScope, readers, callVars, history,
                   fault>>

(***************************************************************************)
(* corto_lookup_intern: the tree is read under the scopeLock, and the      *)
(* object that was found is claimed after the lock is released.            *)
(***************************************************************************)
Lookup(t) ==
    /\ inScope # NoObj
    /\ Call(t, "lookup", inScope, "lookup_claim")
    /\ UNCHANGED <<objVars, cont, wasDefined, result, held, history, fault>>

\* The count was 0 when it was incremented: the object is being destructed.
GoingAway(o) == refcount[o] = 0

LookupClaim(t) ==
    /\ Alive(t)
    /\ refcount' = [refcount EXCEPT ![cur[t]] = @ + 1]
    /\ IF GoingAway(cur[t])
       THEN /\ Goto(t, "lookup_claim", "lookup_reset")
            /\ UNCHANGED <<result, held>>
       ELSE /\ Goto(t, "lookup_claim", "idle")
            /\ Return(t, cur[t])
    /\ UNCHANGED <<memory, state, inScope, declaredBy, lock, cur, op, cont,
                   wasDefined, budget, history, fault>>

\* A count that was 0 means that the object is going away: it is set to 0
\* again, with a plain store, and nothing is found.
LookupReset(t) ==
    /\ Alive(t)
    /\ Goto(t, "lookup_reset", "idle")
    /\ refcount' = [refcount EXCEPT ![cur[t]] = 0]
    /\ result' = [result EXCEPT ![t] = NoObj]
    /\ UNCHANGED <<memory, state, inScope, declaredBy, lock, cur, op, cont,
                   wasDefined, held, budget, history, fault>>

(***************************************************************************)
(* corto_claim, corto_release and corto_delete.                            *)
(***************************************************************************)
\* corto_claim by a thread that has a reference.
StartClaim(t, o) ==
    /\ held[t][o] > 0
    /\ Call(t, "claim", o, "claim")
    /\ UNCHANGED <<objVars, cont, wasDefined, result, held, history, fault>>

Claim(t) ==
    /\ Alive(t)
    /\ Goto(t, "claim", "idle")
    /\ refcount' = [refcount EXCEPT ![cur[t]] = @ + 1]
    /\ held' = [held EXCEPT ![t][cur[t]] = @ + 1]
    /\ UNCHANGED <<memory, state, inScope, declaredBy, lock, cur, op, cont,
                   wasDefined, result, budget, history, fault>>

\* Nobody but thread t has been given a reference to o, and t one only.
LastReference(t, o) ==
    /\ held[t][o] = 1
    /\ \A u \in Thread \ {t} : held[u][o] = 0

\* A thread found o in the tree of the scope and has not claimed it yet.
Found(o) == \E u \in Thread : cur[u] = o /\ pc[u] \in {"redeclared", "lookup_claim"}

MayRelease(t, o) ==
    Quiesce => (LastReference(t, o) => inScope # o /\ ~Found(o))

MayDelete(t, o) == Quiesce => ~LastReference(t, o)

StartRelease(t, o) ==
    /\ held[t][o] > 0
    /\ MayRelease(t, o)
    /\ Call(t, "release", o, "release")
    /\ held' = [held EXCEPT ![t][o] = @ - 1]
    /\ cont' = [cont EXCEPT ![t] = "none"]
    /\ UNCHANGED <<objVars, wasDefined, result, history, fault>>

StartDelete(t, o) ==
    /\ held[t][o] > 0
    /\ MayDelete(t, o)
    /\ Call(t, "delete", o, "destruct")
    /\ held' = [held EXCEPT ![t][o] = @ - 1]
    /\ cont' = [cont EXCEPT ![t] = "delete"]
    /\ UNCHANGED <<objVars, wasDefined, result, history, fault>>

\* Thread t is at p and its release, or its destruct after a release, is done.
\* When a redeclare released a deleted object, it still returns that object.
ReleaseDone(t, p) ==
    IF cont[t] = "retry"
    THEN /\ Goto(t, p, AfterDeclare(t))
         /\ result' = [result EXCEPT ![t] = cur[t]]
    ELSE /\ Goto(t, p, "idle")
         /\ UNCHANGED result

Release(t) ==
    /\ Alive(t)
    /\ refcount' = [refcount EXCEPT ![cur[t]] = @ - 1]
    /\ IF refcount[cur[t]] = 1
       THEN Goto(t, "release", "destruct") /\ UNCHANGED result
       ELSE ReleaseDone(t, "release")
    /\ fault' = IF refcount[cur[t]] < 1 THEN "negative_refcount" ELSE fault
    /\ UNCHANGED <<memory, state, inScope, declaredBy, lock, cur, op, cont,
                   wasDefined, held, budget, history>>

(***************************************************************************)
(* corto_destruct.                                                         *)
(***************************************************************************)
Destruct(t) ==
    /\ Alive(t)
    /\ Goto(t, "destruct", "destruct_check")
    /\ refcount' = [refcount EXCEPT ![cur[t]] = @ + 1]
    /\ UNCHANGED <<memory, state, inScope, declaredBy, lock, callVars, history,
                   fault>>

AlreadyDeleted(o) == deleted[o]
ShouldDestruct(t, o) == valid[o]

DestructCheck(t) ==
    /\ Alive(t)
    /\ Goto(t, "destruct_check",
            IF AlreadyDeleted(cur[t]) THEN "decrement"
            ELSE IF ShouldDestruct(t, cur[t]) THEN "destructor"
            ELSE "mark_deleted")
    /\ wasDefined' = [wasDefined EXCEPT ![t] = valid[cur[t]]]
    /\ UNCHANGED <<objVars, cur, op, cont, result, held, budget, history,
                   fault>>

\* corto_destructor: fatal when the object is no longer valid.
Destructor(t) ==
    /\ Alive(t)
    /\ Goto(t, "destructor", "clear_valid")
    /\ IF valid[cur[t]]
       THEN /\ destructed' = [destructed EXCEPT ![cur[t]] = @ + 1]
            /\ UNCHANGED fault
       ELSE /\ fault' = "destructor_of_undefined"
            /\ UNCHANGED destructed
    /\ UNCHANGED <<objVars, callVars, constructed>>

\* Mutant: the object is not marked as deleted.
ClearValidOnly(t) ==
    /\ Alive(t)
    /\ Goto(t, "clear_valid", "cleanup")
    /\ valid' = [valid EXCEPT ![cur[t]] = FALSE]
    /\ UNCHANGED <<memory, refcount, deleted, inScope, declaredBy, lock,
                   callVars, history, fault>>

ClearValid(t) ==
    /\ Alive(t)
    /\ Goto(t, "clear_valid", "mark_deleted")
    /\ valid' = [valid EXCEPT ![cur[t]] = FALSE]
    /\ UNCHANGED <<memory, refcount, deleted, inScope, declaredBy, lock, callVars,
                   history, fault>>

MarkDeleted(t) ==
    /\ Alive(t)
    /\ Goto(t, "mark_deleted", "cleanup")
    /\ deleted' = [deleted EXCEPT ![cur[t]] = TRUE]
    /\ UNCHANGED <<memory, refcount, valid, inScope, declaredBy, lock, callVars,
                   history, fault>>

\* The DELETE event for an object that was defined, corto_declaredByMeRemove
\* for one that was not; then corto__deinitObservable.
Cleanup(t) ==
    /\ Alive(t)
    /\ Goto(t, "cleanup", "orphan")
    /\ IF wasDefined[t] THEN UNCHANGED <<declaredBy, writer>>
                        ELSE DeclaredByMeRemove(t, cur[t])
    /\ UNCHANGED <<memory, refcount, state, inScope, readers, callVars, history,
                   fault>>

\* corto_orphan removes whatever the scope of the parent stores under the name.
Orphan(t) ==
    /\ Alive(t)
    /\ Goto(t, "orphan", "decrement")
    /\ inScope' = IF hasParent[cur[t]] THEN NoObj ELSE inScope
    /\ UNCHANGED <<memory, refcount, state, declaredBy, lock, callVars, history,
                   fault>>

\* Mutant: corto_delete never releases.
DeleteKeeps(t) == FALSE

\* corto_delete releases the object when corto_destruct did not free it.
DeleteReleases(t) == cont[t] = "delete"

Decrement(t) ==
    /\ Alive(t)
    /\ refcount' = [refcount EXCEPT ![cur[t]] = @ - 1]
    /\ IF refcount[cur[t]] = 1
       THEN Goto(t, "decrement", "dealloc") /\ UNCHANGED <<cont, result>>
       ELSE IF DeleteReleases(t)
       THEN /\ Goto(t, "decrement", "release")
            /\ cont' = [cont EXCEPT ![t] = "none"]
            /\ UNCHANGED result
       ELSE ReleaseDone(t, "decrement") /\ UNCHANGED cont
    /\ UNCHANGED <<memory, state, inScope, declaredBy, lock, cur, op, wasDefined,
                   held, budget, history, fault>>

Dealloc(t) ==
    /\ Alive(t)
    /\ ReleaseDone(t, "dealloc")
    /\ mem' = [mem EXCEPT ![cur[t]] = "freed"]
    /\ hasParent' = [hasParent EXCEPT ![cur[t]] = FALSE]
    /\ UNCHANGED <<refcount, state, inScope, declaredBy, lock, cur, op, cont,
                   wasDefined, held, budget, history, fault>>

(***************************************************************************)
(* corto_update_begin, corto_update_end and corto_update_cancel.  The      *)
(* client changes the value in between; it makes no other call meanwhile.  *)
(***************************************************************************)
\* On an object that is not valid and that another thread declared it fails.
UpdateBegin(t, o) ==
    /\ held[t][o] > 0
    /\ valid[o] \/ declaredBy[o] = t
    /\ Call(t, "update_begin", o, IF valid[o] THEN "update_check" ELSE "updating")
    /\ UNCHANGED <<objVars, cont, wasDefined, result, held, history, fault>>

\* The state is read once more to decide whether the lock is needed.
UpdateCheck(t) ==
    /\ Alive(t)
    /\ Goto(t, "update_check",
            IF valid[cur[t]] THEN "update_lock" ELSE "updating")
    /\ UNCHANGED <<objVars, callVars, history, fault>>

\* corto_rwmutex_write: one writer, no readers.
WriteLock(t, p, q) ==
    /\ writer[cur[t]] = NoThread
    /\ readers[cur[t]] = {}
    /\ writer' = [writer EXCEPT ![cur[t]] = t]
    /\ Goto(t, p, q)

\* corto_rwmutex_unlock, by the thread that has the write lock.
WriteUnlock(t) == writer' = [writer EXCEPT ![cur[t]] = IF @ = t THEN NoThread ELSE @]

UpdateLock(t) ==
    /\ Alive(t)
    /\ WriteLock(t, "update_lock", "updating")
    /\ UNCHANGED <<memory, refcount, state, inScope, declaredBy, readers,
                   callVars, history, fault>>

\* On a valid object: the UPDATE event and the unlock.  On another one the
\* object is defined, and corto_update_end does not unlock it.
UpdateEnd(t) ==
    /\ Alive(t)
    /\ Goto(t, "updating", IF valid[cur[t]] THEN "update_end" ELSE "construct")
    /\ UNCHANGED <<objVars, callVars, history, fault>>

UpdateUnlock(t) ==
    /\ Alive(t)
    /\ Goto(t, "update_end", "idle")
    /\ WriteUnlock(t)
    /\ UNCHANGED <<memory, refcount, state, inScope, declaredBy, readers,
                   callVars, history, fault>>

\* The lock is given up whether corto_update_begin took it or corto_declare.
UpdateCancel(t) ==
    /\ "update_cancel" \in Ops[t]
    /\ Alive(t)
    /\ Goto(t, "updating", "idle")
    /\ WriteUnlock(t)
    /\ UNCHANGED <<memory, refcount, state, inScope, declaredBy, readers,
                   callVars, history, fault>>

(***************************************************************************)
(* corto_update: takes the write lock before it looks at the state.        *)
(***************************************************************************)
InstantUpdate(t, o) ==
    /\ held[t][o] > 0
    /\ writer[o] # t
    /\ Call(t, "update", o, "instant_lock")
    /\ UNCHANGED <<objVars, cont, wasDefined, result, held, history, fault>>

InstantLock(t) ==
    /\ Alive(t)
    /\ WriteLock(t, "instant_lock", "instant_update")
    /\ UNCHANGED <<memory, refcount, state, inScope, declaredBy, readers,
                   callVars, history, fault>>

\* An object that is not valid is defined, whoever declared or deleted it.
InstantNotify(t) ==
    /\ Alive(t)
    /\ Goto(t, "instant_update",
            IF valid[cur[t]] THEN "instant_unlock" ELSE "construct")
    /\ UNCHANGED <<objVars, callVars, history, fault>>

InstantUnlock(t) ==
    /\ Alive(t)
    /\ Goto(t, "instant_unlock", "idle")
    /\ WriteUnlock(t)
    /\ UNCHANGED <<memory, refcount, state, inScope, declaredBy, readers,
                   callVars, history, fault>>

(***************************************************************************)
(* The specification                                                       *)
(***************************************************************************)
\* The steps of the calls, and the calls a client may start.
Step(t) ==
    \/ InitSucceeds(t) \/ InitFails(t) \/ InitFailed(t)
    \/ RedeclareClaim(t) \/ RedeclareNoWait(t) \/ RedeclareWait(t)
    \/ ReadBegin(t) \/ ReadDeleted(t) \/ AssertValid(t) \/ ReadEnd(t)
    \/ CreateDefine(t) \/ Construct(t) \/ ConstructFails(t)
    \/ SetValid(t) \/ NotifyDefined(t)
    \/ LookupClaim(t) \/ LookupReset(t) \/ Claim(t) \/ Release(t)
    \/ Destruct(t) \/ DestructCheck(t) \/ Destructor(t) \/ ClearValid(t)
    \/ MarkDeleted(t) \/ Cleanup(t) \/ Orphan(t) \/ Decrement(t) \/ Dealloc(t)
    \/ UpdateCheck(t) \/ UpdateLock(t) \/ UpdateUnlock(t)
    \/ InstantLock(t) \/ InstantNotify(t) \/ InstantUnlock(t)

Start(t) ==
    \/ DeclareExisting(t) \/ Lookup(t) \/ UpdateEnd(t) \/ UpdateCancel(t)
    \/ \E o \in Obj :
          \/ DeclareNew(t, o) \/ Define(t, o)
          \/ StartClaim(t, o) \/ StartRelease(t, o) \/ StartDelete(t, o)
          \/ UpdateBegin(t, o) \/ InstantUpdate(t, o)

\* A call goes on with an object that has been freed.
UseAfterFree(t) ==
    /\ pc[t] # "idle"
    /\ mem[cur[t]] = "freed"
    /\ fault' = "use_after_free"
    /\ UNCHANGED <<objVars, threadVars, history>>

Next ==
    /\ fault = "none"
    /\ \E t \in Thread : Start(t) \/ Step(t) \/ UseAfterFree(t)
    /\ UNCHANGED program

Spec == Init /\ [][Next]_vars

GoOn(t) == fault = "none" /\ (Step(t) \/ UseAfterFree(t)) /\ UNCHANGED program

\* A thread that is inside a call goes on with it when it can.
FairSpec == Spec /\ \A t \in Thread : WF_vars(GoOn(t))

(***************************************************************************)
(* Type invariant                                                          *)
(***************************************************************************)
ObjectsTyped ==
    /\ mem \in [Obj -> {"unused", "live", "freed"}]
    /\ hasParent \in [Obj -> BOOLEAN]
    /\ refcount \in [Obj -> Int]
    /\ valid \in [Obj -> BOOLEAN]
    /\ deleted \in [Obj -> BOOLEAN]
    /\ inScope \in Obj \cup {NoObj}
    /\ declaredBy \in [Obj -> Thread \cup {NoThread}]
    /\ writer \in [Obj -> Thread \cup {NoThread}]
    /\ readers \in [Obj -> SUBSET Thread]
    /\ constructed \in [Obj -> Nat]
    /\ destructed \in [Obj -> Nat]
    /\ fault \in {"none"} \cup Faults

CallsTyped ==
    /\ program \in Program
    /\ pc \in [Thread -> PcSet]
    /\ cur \in [Thread -> Obj \cup {NoObj}]
    /\ op \in [Thread -> OpNames \cup {"none"}]
    /\ cont \in [Thread -> Conts]
    /\ wasDefined \in [Thread -> BOOLEAN]
    /\ result \in [Thread -> Obj \cup {NoObj}]
    /\ held \in [Thread -> [Obj -> Int]]
    /\ budget \in [Thread -> Nat]
    /\ \A t \in Thread : pc[t] # "idle" => cur[t] \in Obj

TypeOK == ObjectsTyped /\ CallsTyped

(***************************************************************************)
(* Properties                                                              *)
(***************************************************************************)
\* The references to o that the call of thread t has, beyond those that were
\* handed to its caller: the one of a declare or a claim under way, the one a
\* client gives up, and the one corto_destruct takes for itself.
GivenUp(t) == IF cont[t] = "delete" THEN 1 ELSE 0

Carried(t, o) ==
    IF cur[t] # o THEN 0
    ELSE CASE pc[t] \in {"init", "init_failed", "redeclare_check", "wait",
                         "wait_deleted", "wait_valid", "read_end",
                         "read_end_deleted", "lookup_reset", "release"} -> 1
           [] pc[t] = "destruct" -> GivenUp(t)
           [] pc[t] \in {"destruct_check", "destructor", "clear_valid",
                         "mark_deleted", "cleanup", "orphan", "decrement"}
                 -> GivenUp(t) + 1
           [] OTHER -> 0

ReferencesOf(t, o) == {t} \X (1..held[t][o] + Carried(t, o))

References(o) == Cardinality(UNION {ReferencesOf(t, o) : t \in Thread})

\* The reference count of an allocated object is exactly the number of
\* references that clients have and that calls under way carry: no path of
\* declare, claim, release, delete and destruct loses or invents one.  (The
\* object of a failed initializer keeps one that nobody has, and a lookup that
\* races with a last release can lose one.)
RefcountIsExact ==
    \A o \in Obj : Quiesce /\ mem[o] = "live" /\ hasParent[o]
                        => refcount[o] = References(o)

\* Nobody is left with a reference to memory that corto_destruct freed.
HeldIsAllocated ==
    \A t \in Thread, o \in Obj : held[t][o] > 0 => mem[o] = "live"

\* The destructor runs once for an object whose constructor ran, and before
\* the memory of the object is given back.
DestructedOnce ==
    \A o \in Obj : /\ destructed[o] <= constructed[o]
                   /\ constructed[o] <= 1
                   /\ mem[o] = "freed" => destructed[o] = constructed[o]

\* An object stays in the scope of its parent until it is marked as deleted:
\* the removal by name in corto_orphan never hits the object of another thread.
BoundUntilDeleted ==
    \A o \in Obj :
        /\ mem[o] = "live" /\ hasParent[o] /\ ~deleted[o]
        /\ \A t \in Thread : ~(cur[t] = o /\ pc[t] = "init_failed")
        => inScope = o

\* Only one thread is between corto_update_begin and corto_update_end, or in
\* corto_update, of an object, the thread that is still defining it included.
UpdatesExclude ==
    \A t, u \in Thread :
        /\ t # u
        /\ cur[t] = cur[u]
        /\ pc[t] \in {"updating", "update_end", "instant_update", "instant_unlock"}
        => pc[u] \notin {"updating", "update_end", "instant_update",
                         "instant_unlock", "construct", "set_valid", "notify_defined"}

\* What an object goes through: its destructor runs once, its name is not taken
\* from it before it is deleted, and it is written by one thread at a time.
Lifecycle == TypeOK /\ DestructedOnce /\ BoundUntilDeleted /\ UpdatesExclude

\* The object store implements the promises of NamedObject.
phaseOf == [o \in Obj |->
    CASE mem[o] = "unused" -> "absent"
      [] mem[o] = "freed"  -> "freed"
      [] mem[o] = "live" /\ deleted[o] -> "deleted"
      [] mem[o] = "live" /\ ~deleted[o] /\ (valid[o] \/ destructed[o] > 0) -> "defined"
      [] OTHER -> "declared"]

Promise == INSTANCE NamedObject WITH phase <- phaseOf, bound <- inScope

NamedObjectSpec == Promise!Spec

\* Thread u declared the object that the call of t is about and does not go on.
LeftUndefined(t, u) == pc[u] = "idle" /\ cur[t] \in Obj /\ declaredBy[cur[t]] = u

\* A call returns: nobody waits forever for the lock of an object, unless its
\* declarer leaves it undefined for good, because the thread that has the lock goes on to
\* define, delete, update or unlock the object.
CallsReturn ==
    \A t \in Thread :
        (pc[t] \notin {"idle", "updating"}) ~>
            \/ pc[t] \in {"idle", "updating"}
            \/ fault # "none"
            \/ \E u \in Thread : []LeftUndefined(t, u)

(***************************************************************************)
(* What the documentation and the comments say, which the code violates    *)
(***************************************************************************)
\* No call goes on with an object that has been freed.
NoUseAfterFree == fault # "use_after_free"

=============================================================================
