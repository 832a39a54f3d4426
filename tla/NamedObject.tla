---------------------------- MODULE NamedObject ----------------------------
(***************************************************************************)
(* What the object store promises about the objects that are declared      *)
(* under one name: the name is bound to one object at a time, from its     *)
(* declaration until after its deletion, an object is defined at most      *)
(* once and before it is deleted, and its memory is given back when it is  *)
(* deleted, or was never initialized, and the name is no longer bound to   *)
(* it.  ObjectStore implements this specification.                         *)
(***************************************************************************)
CONSTANTS Obj, NoObj

VARIABLES phase, bound

vars == <<phase, bound>>

Init == /\ phase = [o \in Obj |-> "absent"]
        /\ bound = NoObj

Declare(o) == /\ bound = NoObj
              /\ phase[o] = "absent"
              /\ phase' = [phase EXCEPT ![o] = "declared"]
              /\ bound' = o

Define(o) == /\ phase[o] = "declared"
             /\ bound = o
             /\ phase' = [phase EXCEPT ![o] = "defined"]
             /\ UNCHANGED bound

Delete(o) == /\ phase[o] \in {"declared", "defined"}
             /\ bound = o
             /\ phase' = [phase EXCEPT ![o] = "deleted"]
             /\ UNCHANGED bound

\* After a deletion, or when the initializer of the object failed.
Unbind(o) == /\ bound = o
             /\ phase[o] \in {"declared", "deleted"}
             /\ bound' = NoObj
             /\ UNCHANGED phase

Free(o) == /\ bound # o
           /\ phase[o] \in {"declared", "deleted"}
           /\ phase' = [phase EXCEPT ![o] = "freed"]
           /\ UNCHANGED bound

Next == \E o \in Obj : Declare(o) \/ Define(o) \/ Delete(o) \/ Unbind(o) \/ Free(o)

Spec == Init /\ [][Next]_vars
=============================================================================
