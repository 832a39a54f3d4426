---------------------------- MODULE MCObjectTree ----------------------------
(***************************************************************************)
(* Instances of ObjectTree for TLC.                                        *)
(***************************************************************************)
EXTENDS ObjectTree

Base == [types |-> {"plain"}, sources |-> {"none"}, does |-> {"declare"}, calls |-> 4,
         within |-> {"delete", "claim"}, callbacks |-> 0, deletesShared |-> FALSE,
         fails |-> FALSE, mount |-> FALSE, refers |-> "roots", collect |-> {}]

\* Objects of all types are declared, in scopes and by paths, and deleted.
Placing == [Base EXCEPT !.types = {"plain", "leaf", "void"},
               !.does = {"declare", "delete", "define", "claim"}]

\* Destructors delete and release other objects.
Nesting == [Base EXCEPT !.does = {"create", "delete", "claim"}, !.callbacks = 1]

\* Constructors fail.
Failing == [Base EXCEPT !.does = {"create", "create path", "delete"},
               !.fails = TRUE, !.callbacks = 1, !.calls = 3]

\* Sources change, objects are resumed.
Resuming == [Base EXCEPT !.does = {"create", "create path", "delete", "lookup", "claim", "source"},
                !.sources = {"none", "local", "remote"}, !.mount = TRUE]

\* Values refer to objects, and all is collected in the end.
Cycles == [Base EXCEPT !.does = {"create", "ref", "delete", "claim"},
              !.calls = 5, !.collect = {"objects", "cycles"}]

\* The same with values that refer to children.
Inward == [Base EXCEPT !.does = {"create", "ref", "claim"}, !.calls = 5,
              !.refers = "children", !.collect = {"cycles"}]

PassSetups == {Placing, Nesting, Failing, Resuming, Cycles, Inward}
=============================================================================
