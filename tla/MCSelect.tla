------------------------------ MODULE MCSelect ------------------------------
(***************************************************************************)
(* Instances of Select for TLC.                                            *)
(***************************************************************************)
EXTENDS Select

\* Objects have type t, those that are called 2 in a scope below have type u.
MCTypeOf(p) == IF Len(p) = 2 /\ p[2] = 2 THEN "u" ELSE "t"

All == {}
Ask(p, filter, m) == [from |-> p, filter |-> filter, mask |-> m]
Add(p) == [op |-> "add", path |-> p]
Delete(p) == [op |-> "delete", path |-> p]
Result(p, n, t) == [parent |-> p, name |-> n, type |-> t, leaf |-> TRUE, hidden |-> FALSE]
Branch(n) == [parent |-> <<>>, name |-> n, type |-> "t", leaf |-> FALSE, hidden |-> FALSE]
MountAt(p, holds) == [at |-> p, tree |-> TRUE, local |-> FALSE, type |-> "", filters |-> FALSE,
                      serves |-> TRUE, holds |-> holds]

Base == [exprs |-> <<Ask(<<>>, All, "tree")>>, type |-> "", offset |-> 0, limit |-> 0,
         store |-> TRUE, vstore |-> TRUE, mounts |-> <<>>, writes |-> <<>>,
         objects |-> {<<>>, <<1>>, <<2>>, <<3>>, <<2, 1>>, <<2, 2>>, <<2, 3>>, <<3, 1>>}]

\* The store changes during the select.
Scopes == {Ask(<<>>, All, "tree"), Ask(<<>>, {1, 2}, "tree"), Ask(<<>>, {1, 3}, "scope"),
           Ask(<<2>>, All, "scope"), Ask(<<2>>, {1, 3}, "scope"), Ask(<<2>>, {2}, "self"),
           Ask(<<2>>, All, "self")}
Changes == {<<v, w>> : v, w \in {Delete(<<1>>), Delete(<<2, 1>>), Delete(<<2, 2>>), Delete(<<2>>),
                                  Delete(<<2, 3>>), Add(<<3, 2>>), Add(<<3, 3>>)}}
Changing == {[Base EXCEPT !.exprs = <<e>>, !.writes = w, !.type = t] :
                 e \in Scopes \ {Ask(<<2>>, All, "self")}, w \in Changes, t \in {"", "t"}}
Pages == {[Base EXCEPT !.exprs = <<e>>, !.offset = o, !.limit = l] :
              e \in {Ask(<<>>, All, "tree"), Ask(<<2>>, All, "scope")}, o \in 0..2, l \in 0..2}
Single == {[Base EXCEPT !.exprs = <<Ask(<<2>>, All, "self")>>, !.writes = w] : w \in Changes}

\* Mounts: they manage the objects of a type, in their scope or below, which are in the store
\* as well, or have objects of their own, or leave filtering to select, or do not answer queries.
Manager(p) == [MountAt(p, <<Result(<<>>, 2, "u")>>) EXCEPT !.local = TRUE, !.type = "u", !.tree = FALSE]
Above == [MountAt(<<>>, <<[Branch(1) EXCEPT !.hidden = TRUE], Branch(2), [Result(<<2>>, 1, "t") EXCEPT !.hidden = TRUE],
                          [Result(<<2>>, 2, "u") EXCEPT !.leaf = FALSE], Result(<<1>>, 3, "t")>>)
             EXCEPT !.local = TRUE]
Extra(p) == MountAt(p, <<Result(<<>>, 1, "t"), Result(<<1>>, 2, "t")>>)
Owner == [MountAt(<<>>, <<Result(<<>>, 2, "t")>>) EXCEPT !.local = TRUE, !.tree = FALSE]
Lazy(p) == [Extra(p) EXCEPT !.filters = TRUE]
Silent(p) == [Extra(p) EXCEPT !.serves = FALSE]
Few == {<<>>, <<2>>, <<2, 2>>, <<2, 3>>}
Mounted == {[Base EXCEPT !.exprs = <<e>>, !.mounts = m, !.objects = Few, !.writes = w] :
    e \in {Ask(<<2>>, {1, 2, 3}, "scope"), Ask(<<2>>, {1, 2}, "scope"), Ask(<<2>>, {2}, "self")},
    m \in {<<Manager(<<2>>), Lazy(<<2>>)>>, <<Silent(<<>>), Manager(<<2>>)>>,
           <<Manager(<<>>), Manager(<<2>>), Silent(<<2>>)>>, <<Owner>>},
    w \in {<<>>, <<Delete(<<2, 3>>)>>}}
Trees == {[Base EXCEPT !.exprs = <<e>>, !.mounts = <<Above>>, !.objects = Few \ {<<2, 3>>}, !.writes = w] :
    e \in {Ask(<<>>, All, "tree"), Ask(<<2>>, All, "tree"), Ask(<<2>>, All, "scope"), Ask(<<2>>, {1, 2}, "tree")},
    w \in {<<>>, <<Delete(<<2, 2>>)>>}}

PassSetups == Changing \cup Pages \cup Single \cup Mounted \cup Trees

=============================================================================
