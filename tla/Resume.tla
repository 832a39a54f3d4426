------------------------------- MODULE Resume -------------------------------
(***************************************************************************)
(* How a mount answers queries and resumes objects (corto_mount_query,     *)
(* corto_mount_return, corto_mount_resume of src/vstore/mount.c).  The     *)
(* results of a query are passed in a variable of the thread, as are the   *)
(* source and the attributes of what is created.  The callbacks of mounts, *)
(* and those of objects that are defined, look up and select other         *)
(* objects, which are resumed in between.                                  *)
(***************************************************************************)
EXTENDS Integers, Sequences, FiniteSets, SequencesExt

CONSTANTS
    Filtered,  \* the mounts whose results corto filters
    Exact,     \* the mounts that filter their results themselves
    Explicit,  \* the mounts with an on_resume of their own
    Names,     \* the objects that mounts have
    MaxDepth,  \* bound: calls inside each other
    MaxCalls,  \* bound: calls
    MaxResults \* bound: results of a query

None == "none"
Mount == Filtered \cup Exact \cup Explicit

VARIABLES
    source, \* corto_get_source() of the thread: a mount, or None
    attr,   \* corto_get_attr() of the thread
    listed, \* CORTO_KEY_MOUNT_RESULT: <<>> or the list of results
    stack,  \* the calls under way, the innermost last
    store,  \* the objects that were resumed, and the source they have
    calls   \* the calls so far

vars == <<source, attr, listed, stack, store, calls>>

\* What a mount returns: the name of an object, the call of the query during which it was
\* returned, and what is wrong with it.
Wrong == {"", "absolute", "type"}
Result(n, c, w) == [name |-> n, of |-> c, wrong |-> w]

Init == source = None /\ attr = {} /\ listed = <<>> /\ stack = <<>> /\ store = {} /\ calls = 0

Top == stack[Len(stack)]
At(where) == stack # <<>> /\ Top.at = where
Continues(f) == stack' = Append(Front(stack), f)
CanCall == /\ Len(stack) < MaxDepth /\ calls < MaxCalls
           /\ stack = <<>> \/ At("callback") \/ At("define") \/ At("on_resume")
Frame(kind, m, n, given) ==
    [kind |-> kind, id |-> calls + 1, mount |-> m, name |-> n, given |-> given, at |-> "callback",
     source |-> source, attr |-> attr, listed |-> listed, results |-> <<>>]
Calls(f) == stack' = Append(stack, f) /\ calls' = calls + 1

\* corto_mount_query: the results of the query that is under way are put aside.
LeavesThem == UNCHANGED listed \* mutant
PutsAside == listed' = <<>>

\* corto_select asks a mount.
Select(m) ==
    /\ CanCall /\ Calls(Frame("select", m, None, FALSE)) /\ PutsAside
    /\ UNCHANGED <<source, attr, store>>

\* corto_mount_resume, for a lookup or for an object that is declared: what is created from now
\* on has the mount as its source.
Resume(m, n, given) ==
    /\ CanCall /\ n \notin {o.name : o \in store}
    /\ source' = m /\ attr' = attr \cup {"persistent"}
    /\ IF m \in Explicit
       THEN Calls([Frame("resume", m, n, given) EXCEPT !.at = "on_resume"]) /\ UNCHANGED listed
       ELSE Calls(Frame("resume", m, n, given)) /\ PutsAside
    /\ UNCHANGED store

\* corto_mount_return: a result that lacks something is not added, but the list is there.
Incomplete == At("callback") /\ listed = <<>> /\ listed' = << <<>> >> /\ UNCHANGED <<source, attr, stack, store, calls>>
Return(n, w) ==
    /\ At("callback")
    /\ LET list == IF listed = <<>> THEN <<>> ELSE listed[1]
       IN  Len(list) < MaxResults /\ listed' = <<Append(list, Result(n, Top.id, w))>>
    /\ UNCHANGED <<source, attr, stack, store, calls>>

\* The callback ends: its iterator counts, or else the list; what was put aside is back.
EndQuery(own) ==
    /\ At("callback")
    /\ LET iterator == IF own # <<>> THEN own ELSE IF listed = <<>> THEN <<>> ELSE listed[1]
       IN  Continues([Top EXCEPT !.at = "iterate", !.results = iterator])
    /\ listed' = Top.listed
    /\ UNCHANGED <<source, attr, store, calls>>

\* The select takes the results it gets.
EndSelect ==
    /\ At("iterate") /\ Top.kind = "select"
    /\ stack' = Front(stack) /\ UNCHANGED <<source, attr, listed, store, calls>>

\* A resume goes back to its caller: the thread has the source and attributes of before.
Restores == source' = Top.source /\ attr' = Top.attr /\ stack' = Front(stack)
Restored(ok) == Restores
Leaves(ok) == Restored(ok)

\* The results are searched for the object when corto has to filter, or else the first one is
\* taken; more than one is an error for a mount that filters its results itself.
Take ==
    /\ At("iterate") /\ Top.kind = "resume"
    /\ LET f == Top
           found == IF f.mount \in Filtered
                    THEN SelectInSeq(f.results, LAMBDA r : r.name = f.name)
                    ELSE IF f.results = <<>> THEN 0 ELSE 1
           more == f.mount \notin Filtered /\ Len(f.results) > 1
       IN  \/ /\ found = 0 /\ Leaves(TRUE) /\ UNCHANGED store
           \/ /\ found # 0
              /\ LET r == f.results[found] IN
                 \/ /\ r.wrong = "absolute" \/ (r.wrong = "type" /\ ~f.given)
                    /\ Leaves(FALSE) /\ UNCHANGED store
                 \/ /\ r.wrong # "absolute" /\ f.given \* the object is declared, it gets a value
                    /\ Leaves(~more) /\ UNCHANGED store
                 \/ /\ r.wrong = "" /\ ~f.given
                    /\ store' = IF r.name \in {o.name : o \in store} THEN store \* a callback was first
                                ELSE store \cup {[name |-> r.name, source |-> source, by |-> f.mount]}
                    /\ Continues([f EXCEPT !.at = "define"]) /\ UNCHANGED <<source, attr>>
    /\ UNCHANGED <<listed, calls>>

\* The value cannot be read: before an object that was created for it is defined.
Unreadable == /\ At("define") /\ Leaves(FALSE) /\ UNCHANGED <<listed, store, calls>>

\* The new object is defined, or cannot be.
EndDefine(ok) ==
    /\ At("define")
    /\ Leaves(ok /\ ~(Top.mount \notin Filtered /\ Len(Top.results) > 1))
    /\ UNCHANGED <<listed, store, calls>>

\* on_resume has created the object, or not, or failed.
EndExplicit(ok, made) ==
    /\ At("on_resume") /\ (made => ok /\ Top.name \notin {o.name : o \in store})
    /\ store' = IF made THEN store \cup {[name |-> Top.name, source |-> source, by |-> Top.mount]} ELSE store
    /\ Leaves(ok) /\ UNCHANGED <<listed, calls>>

Next == \/ \E m \in Mount, n \in Names, given \in BOOLEAN : Resume(m, n, given)
        \/ \E m \in Filtered \cup Exact : Select(m)
        \/ \E n \in Names, w \in Wrong : Return(n, w)
        \/ Incomplete \/ EndQuery(<<>>) \/ \E n \in Names : EndQuery(<<Result(n, Top.id, "")>>)
        \/ EndSelect \/ Take \/ Unreadable
        \/ \E ok \in BOOLEAN : EndDefine(ok) \/ \E made \in BOOLEAN : EndExplicit(ok, made)
Spec == Init /\ [][Next]_vars

\* Whatever callbacks do and however calls end, a query is answered with what the mount returned
\* for it, and not with results of a query inside it or around it (corto_mount_query).
ResultsAreOwn ==
    \A i \in DOMAIN stack : \A r \in Range(stack[i].results) : r.of = stack[i].id

\* What a mount resumes has that mount as its source, also when its callbacks resumed objects of
\* other mounts before, with success or not; a thread that is done has no source, attributes or
\* results left (corto_mount_resume, its error path, corto_set_source).
SourceIsMount == /\ \A o \in store : o.source = o.by
                 /\ stack = <<>> => source = None /\ attr = {} /\ listed = <<>>
=============================================================================
