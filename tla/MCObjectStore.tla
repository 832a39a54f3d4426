--------------------------- MODULE MCObjectStore ---------------------------
(***************************************************************************)
(* Instances of ObjectStore for TLC: programs of two or three threads.     *)
(***************************************************************************)
EXTENDS ObjectStore, TLC

CONSTANTS t1, t2, t3

\* A thread that is not listed makes no call.
Prog(ops, calls, mayFail, quiesce) ==
    [ops |-> ops @@ [t \in Thread |-> {}], calls |-> calls @@ [t \in Thread |-> 0],
     mayFail |-> mayFail, quiesce |-> quiesce]

\* One thread owns the object: it declares, defines and deletes it.  A second
\* one redeclares it, a third one looks it up.
Owner == Prog((t1 :> {"declare", "create", "define", "claim", "release", "delete"})
              @@ (t2 :> {"declare", "claim", "release"})
              @@ (t3 :> {"lookup", "release"}),
              (t1 :> 5) @@ (t2 :> 2) @@ (t3 :> 2), {}, TRUE)

\* Two threads create the same object, one deletes it while it is undefined.
Create == Prog((t1 :> {"declare", "define", "claim", "release", "delete"})
               @@ (t2 :> {"create", "release"}),
               (t1 :> 4) @@ (t2 :> 2), {"construct"}, TRUE)

\* The object is updated by its declarer and by others, and never deleted.
Update == Prog((t1 :> {"declare", "define", "update_begin", "update"})
               @@ (t2 :> {"lookup", "update_begin", "update_cancel", "update"})
               @@ (t3 :> {"declare", "update_begin", "update"}),
               (t1 :> 3) @@ (t2 :> 3) @@ (t3 :> 2), {"init", "construct"}, TRUE)

\* One thread creates an object and drops it, another looks it up.
LookUp == Prog((t1 :> {"create", "claim", "release"}) @@ (t2 :> {"lookup", "release"}),
               (t1 :> 2) @@ (t2 :> 3), {}, FALSE)

\* Both threads create the object; one of them deletes it.
Wait == Prog((t1 :> {"create", "claim", "release", "delete"})
             @@ (t2 :> {"create", "release"}),
             (t1 :> 4) @@ (t2 :> 2), {"construct"}, TRUE)

SafetyPrograms == {Owner, Update, LookUp}
ReturnPrograms == {Create, Wait, LookUp}
LookUpPrograms == {LookUp}
=============================================================================
