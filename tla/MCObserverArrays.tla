-------------------------- MODULE MCObserverArrays --------------------------
(***************************************************************************)
(* Instances of ObserverArrays for TLC.                                    *)
(***************************************************************************)
EXTENDS ObserverArrays, TLC

CONSTANTS t1, t2, t3, e1, e2, e3, self, child, v1, v2

\* One list, and an event that notifies it.
OneListPath == v1 :> <<self>>
OneListOf == [e \in Observer |-> {self}]

\* An object with its own observers, whose events bubble to its parent, whose
\* events are those of v2.  The second observer is in a list of both.
TwoListsPath == (v1 :> <<self, child>>) @@ (v2 :> <<child>>)
TwoListsOf == [e \in Observer |-> CASE e = e1 -> {self}
                                     [] e = e2 -> {self, child}
                                     [] OTHER -> {child}]

\* Two threads that do everything.
PairOps == [t \in {t1, t2} |-> OpNames]
PairBudget == (t1 :> 3) @@ (t2 :> 2)
\* One thread does everything, the other one notifies and unobserves.
ListsOps == (t1 :> OpNames) @@ (t2 :> {"notify", "unobserve"})

=============================================================================
