--------------------------- MODULE MCSubscribers ---------------------------
(***************************************************************************)
(* Instances of Subscribers for TLC: three threads, two subscribers, two   *)
(* objects and a mount.                                                    *)
(***************************************************************************)
EXTENDS Subscribers, TLC

CONSTANTS t1, t2, t3, s1, s2, i1, k1, k2, json, bin

Per(a, b, c) == (t1 :> a) @@ (t2 :> b) @@ (t3 :> c)
Config2(a, b) == (s1 :> a) @@ (s2 :> b)
Plain(keys) == [dispatcher |-> FALSE, format |-> "none", depth |-> 0, keys |-> keys]
Queued(f, d, keys) == [dispatcher |-> TRUE, format |-> f, depth |-> d, keys |-> keys]
In(f, keys) == [dispatcher |-> FALSE, format |-> f, depth |-> 1, keys |-> keys]

NoMount == [mask |-> {}, answer |-> "zero", recursive |-> FALSE, overlap |-> "none"]
Mount(mask, answer, recursive) ==
    [mask |-> mask, answer |-> answer, recursive |-> recursive,
     overlap |-> IF answer = "distinct" THEN "subscribes" ELSE "none"]

Program(sub, changes, publishes, f, deletes, unsubscribes, subscribes, n) ==
    [sub |-> sub, changes |-> changes, publishes |-> publishes, format |-> f,
     deletes |-> deletes,
     unsubscribes |-> unsubscribes, source |-> Per("none", i1, "none"),
     subscribes |-> subscribes, calls |-> n]

One1 == <<s1, "none">>
One2 == <<s2, "none">>
Inst1 == <<s1, i1>>

Nothing == Per({}, {}, {})

\* Two threads define, change and delete objects, at once, while a third one subscribes.
Changing(sub, a, b, e) ==
    Program(sub, Per(a, b, {}), Nothing, "none", TRUE, FALSE, Per({}, {}, {e}), Per(1, 2, 1))
Direct == Changing(Config2(Plain({k1, k2}), Plain({})), {k1}, {k1, k2}, One1)
Dispatched == Changing(Config2(Plain({}), Queued(bin, 1, {k1})), {k1}, {k1}, One2)

\* A subscriber unsubscribes and subscribes again; nothing is deleted meanwhile.
Returning == Program(Config2(Plain({k1}), Plain({})), Per({k1}, {k1}, {}), Nothing, "none", FALSE, TRUE,
                     Per({}, {}, {One1}), Per(1, 1, 3))

\* Values are published in a format, and changes of objects are shared, by
\* subscribers of several formats.
Sharing == Program(Config2(In(json, {k1, k2}), Queued(bin, 0, {k1, k2})),
                   Per({}, {k2}, {}), Per({k1}, {}, {}), json, FALSE, FALSE,
                   Per({}, {}, {One1, One2}), Per(1, 1, 2))

\* Two threads subscribe and unsubscribe the same queries of a mount.
Mounted == Program(Config2(Plain({k1}), Plain({k1})), Nothing, Nothing, "none", FALSE, TRUE,
                   Per({One1, Inst1}, {One2}, {}), Per(3, 2, 0))

Apart == Config2([from |-> ".", select |-> "a"], [from |-> "x", select |-> "a"])
Same == Config2([from |-> "x", select |-> "a"], [from |-> "x", select |-> "a"])
OneFrom == Config2([from |-> "x", select |-> "a"], [from |-> "x", select |-> "b"])

Both == {"subscribe", "mount"}
With(p, m, q) == [program |-> p, mount |-> m, query |-> q]

AlignSetups == {With(p, NoMount, Apart) : p \in {Direct, Dispatched, Returning, Sharing}}
MountSetups ==
    {With(Mounted, Mount({"subscribe"}, "zero", TRUE), Apart),
     With(Mounted, Mount({"subscribe"}, "distinct", FALSE), OneFrom),
     With(Mounted, Mount({"subscribe"}, "distinct", TRUE), Same),
     With(Mounted, Mount(Both, "distinct", FALSE), Same)}
PassSetups == AlignSetups \cup MountSetups

=============================================================================
