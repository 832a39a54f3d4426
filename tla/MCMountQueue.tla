---------------------------- MODULE MCMountQueue ----------------------------
(***************************************************************************)
(* Instances of MountQueue for TLC: mounts with two publishers.            *)
(***************************************************************************)
EXTENDS MountQueue, TLC

CONSTANTS p1, p2, mount

Mount(mask, max, posts, destructs) ==
    [mask |-> mask, max |-> max, posts |-> posts, destructs |-> destructs]
Posts(a, b, c) == (p1 :> a) @@ (p2 :> b) @@ (mount :> c)

\* A mount that is notified of batches, and whose callbacks cause one event.
Batching == Mount({"notify", "batch"}, 3, Posts(2, 2, 1), TRUE)

\* A mount that is given the history of its objects.
History == Mount({"history"}, 3, Posts(2, 3, 0), TRUE)

\* The same with one publisher and no destruct.
OnePublisher == Mount({"history"}, 4, Posts(6, 0, 0), FALSE)

\* A mount that is notified of single events.
Notified == Mount({"notify"}, 2, Posts(2, 3, 0), TRUE)

PassSetups == {Batching, History, OnePublisher, Notified}
=============================================================================
