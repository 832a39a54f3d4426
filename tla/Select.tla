------------------------------- MODULE Select -------------------------------
(***************************************************************************)
(* One select (src/vstore/select.c): an iterator that walks the scopes of  *)
(* the object store depth first and asks the mounts of every scope on the  *)
(* way for their results, while another thread adds and deletes objects.   *)
(*                                                                         *)
(* The walk holds the lock of a scope only while it reads one element.     *)
(* Patterns are sets of names, and a value or its format is left out.  The *)
(* platform's red-black tree, pattern matcher and mount administration are *)
(* external, as are the applications behind the mounts.                    *)
(***************************************************************************)
EXTENDS Integers, Sequences, FiniteSets, SequencesExt

CONSTANTS
    Name,      \* ids of objects, in their order: 1..n
    TypeOf(_), \* the type of the object at a path; "unknown" is corto_unknown_o
    Quiet,     \* whether the other thread leaves a scope alone that is about to be read
    Setup      \* the selects, see Selects

Path == UNION {[1..n -> Name] : n \in 0..2}
NoObject == <<0>>
Under(p, q) == \* p is in the scope of q, or below
    Len(p) > Len(q) /\ SubSeq(p, 1, Len(q)) = q
Id(p) == IF p = <<>> THEN 0 ELSE Last(p)

\* What a mount returns.  Results have a path relative to the mount.
Results == [parent: Seq(Name), name: Name, type: STRING, leaf: BOOLEAN, hidden: BOOLEAN]

\* A mount: where it is, whether its mask is ON_TREE, whether it is a LOCAL_SOURCE that
\* answers queries itself, its type ("" when it has none), policy.filterResults (it leaves the
\* filtering to select), whether it is one for this kind of query, and what it holds.
Mounts == [at: Path, tree: BOOLEAN, local: BOOLEAN, type: STRING, filters: BOOLEAN,
           serves: BOOLEAN, holds: Seq(Results)]

\* A select: expressions (scope, accepted names or {} for no filter, depth), a type ("" for any), the
\* page; the store at the start, the mounts, and what the other thread does meanwhile.
Selects == [exprs: Seq([from: Path, filter: SUBSET Name, mask: {"self", "scope", "tree"}]),
            type: STRING, offset: Nat, limit: Nat, store: BOOLEAN, vstore: BOOLEAN,
            objects: SUBSET Path, mounts: Seq(Mounts), writes: Seq([op: {"add", "delete"}, path: Path])]

ASSUME SelectAssumption ==
    /\ IsFiniteSet(Name) /\ Name = 1..Cardinality(Name) /\ Quiet \in BOOLEAN
    /\ Setup \subseteq Selects
    /\ \A s \in Setup : s.exprs # <<>> /\ \A p \in s.objects : p = <<>> \/ Front(p) \in s.objects

VARIABLES
    select,   \* fixed at the start
    objs,     \* the objects of the store
    written,  \* how many writes were made
    pc,       \* "idle", "tree" (in selectTree), "next" (a result is ready), "done"
    expr,     \* the expression that is evaluated
    mask,     \* its depth, "none" once it is found
    found,    \* the objects of the segments of its scope that existed
    seg,      \* the current segment
    loaded,   \* mounts that are loaded
    stack,    \* frames
    item,     \* the current result
    location, \* where mounts are asked; stale: what its buffer holds behind the end
    skip, count, \* results skipped and returned
    claims,   \* references of the select to objects
    yielded,  \* history: what was returned
    ended     \* history: "end", or "left" when the application stopped early

walk == <<expr, found, seg, loaded>>
vars == <<select, objs, written, pc, walk, mask, stack, item, location, skip, count, claims, yielded, ended>>

Expr == select.exprs[expr]
Top == stack[Len(stack)]
Goes(f) == Append(Front(stack), f)
Mount(i) == select.mounts[loaded[i]]

Plus(c, p, n) == IF p = NoObject THEN c ELSE [c EXCEPT ![p] = @ + n]
PlusAll(c, S, n) == [p \in DOMAIN c |-> IF p \in S THEN c[p] + n ELSE c[p]]

\* An object has a scope from its first child on.
HasScope(p) == \E q \in objs \cup select.objects : q # <<>> /\ Front(q) = p
StoreIter(p) == [kind |-> "store", key |-> 0, changed |-> FALSE]
MountIter(results) == [kind |-> "mount", rest |-> results]
NoIter == [kind |-> "none"]
ScopeIter(p) == IF p # NoObject /\ HasScope(p) THEN StoreIter(p) ELSE NoIter

(***************************************************************************)
(* Expressions, segments and mounts                                        *)
(***************************************************************************)
\* corto_selectSplitScope: the objects on the path to the scope, looked up in advance.
SplitScope(ex) == {p \in objs : p = ex.from \/ Under(ex.from, p)}
SegmentPath(ex, s) == SubSeq(ex.from, 1, s)
SegmentObject(ex, fnd, s) == IF SegmentPath(ex, s) \in fnd THEN SegmentPath(ex, s) ELSE NoObject

\* corto_selectLoadMountWalk
Loads(m, ex, fnd, s) ==
    /\ m.serves
    /\ select.type # "" /\ m.type # "" => m.type = select.type
    /\ m.type # "" => \A n \in s+1..Len(ex.from) :
           LET o == SegmentObject(ex, fnd, n) IN o # NoObject => TypeOf(o) = m.type

\* The places S in a sequence in their order, and what is at those places (SelectSeq, which
\* cannot be expanded in a proof).
InOrder(S) == CHOOSE at \in [1..Cardinality(S) -> S] :
                  \A i, j \in 1..Cardinality(S) : i < j => at[i] < at[j]
ItemsAt(s, S) == [n \in 1..Cardinality(S) |-> s[InOrder(S)[n]]]

\* corto_selectLoadMounts: the mounts of the scope, behind those that are left.
LoadMounts(left, ex, fnd, s) ==
    left \o InOrder({i \in DOMAIN select.mounts : /\ select.mounts[i].at = SegmentPath(ex, s)
                                                 /\ Loads(select.mounts[i], ex, fnd, s)})

\* corto_selectFilterMounts: mounts that may hold something in the next scope.
FilterMounts(s) ==
    ItemsAt(loaded, {i \in DOMAIN loaded :
        LET m == Mount(i)
            o == SegmentObject(Expr, found, s + 2)
        IN  m.tree /\ (s + 2 <= Len(Expr.from) /\ o # NoObject /\ m.type # "" => TypeOf(o) = m.type)})

\* corto_selectPrepareFrame, with cnt the references after what came before
PrepareFrame(left, ex, fnd, s, old, cnt) ==
    LET o == SegmentObject(ex, fnd, s)
    IN  /\ loaded' = LoadMounts(left, ex, fnd, s)
        /\ stack' = <<[o |-> o, iter |-> ScopeIter(o), mount |-> Len(left), first |-> Len(left), length |-> 0]>>
        /\ location' = [path |-> ex.from, stale |-> <<>>]
        /\ claims' = Plus(Plus(cnt, o, 1), old, -1)

\* corto_selectReset
ResetItem == item' = [item EXCEPT !.object = NoObject]
ReleaseItem(cnt) == Plus(cnt, item.object, -1)

\* corto_selectRun
Run(e, left, old, cnt) ==
    LET ex == select.exprs[e]
        fnd == SplitScope(ex)
    IN  /\ expr' = e /\ seg' = 0 /\ found' = fnd /\ mask' = ex.mask
        /\ PrepareFrame(left, ex, fnd, 0, old, PlusAll(cnt, fnd, 1))

NoItem == [name |-> 0, hidden |-> FALSE, object |-> NoObject, place |-> NoObject, type |-> ""]

\* corto_selectPrepareIterator
Init ==
    /\ select \in Setup
    /\ objs = select.objects /\ written = 0
    /\ pc = "idle" /\ item = NoItem
    /\ LET ex == select.exprs[1]
           fnd == {p \in select.objects : p = ex.from \/ Under(ex.from, p)}
           o == SegmentObject(ex, fnd, 0)
       IN  /\ expr = 1 /\ seg = 0 /\ found = fnd /\ mask = ex.mask
           /\ loaded = LoadMounts(<<>>, ex, fnd, 0)
           /\ stack = <<[o |-> o, iter |-> ScopeIter(o), mount |-> 0, first |-> 0, length |-> 0]>>
           /\ location = [path |-> ex.from, stale |-> <<>>]
           /\ claims = Plus(PlusAll([p \in Path |-> 0], fnd, 1), o, 1)
    /\ skip = 0 /\ count = 0 /\ yielded = <<>> /\ ended = ""

(***************************************************************************)
(* Matching                                                                *)
(***************************************************************************)
Accepts(n) == Expr.filter = {} \/ n \in Expr.filter
TypeMatches(t) == select.type = "" \/ t = select.type

\* An object is masked by a loaded mount that manages its type.
Masked(o) ==
    /\ o # <<>>
    /\ \E i \in DOMAIN loaded : Mount(i).local /\ (Mount(i).type \in {"", TypeOf(o)})

\* corto_selectMatch of an object, and of a result of a mount.  Whether the item is
\* hidden is asked of the item, which for an object is the previous one.
ObjectMatches(o) == item.hidden \/ (Accepts(Id(o)) /\ ~Masked(o) /\ TypeMatches(TypeOf(o)))
PastOffset(n) == n >= select.offset
ResultMatches(r) == r.hidden \/ (Accepts(r.name) /\ TypeMatches(r.type))

(***************************************************************************)
(* Mounts                                                                  *)
(***************************************************************************)
\* corto_selectRelativeParent: the location behind the path of the mount.  When the
\* location ends with that path, it reads what is behind the terminator.
RelativeParent(m) ==
    LET d == Len(m.at)
    IN  IF Len(location.path) > d THEN SubSeq(location.path, d + 1, Len(location.path))
        ELSE IF d = 0 THEN <<>> ELSE location.stale

\* What the application behind a mount returns (external).  It is told the expression and the
\* page, and not the type; a mount with filterResults ignores the request.
Answer(m, parent) ==
    LET all == IF m.filters THEN m.holds
               ELSE SelectSeq(m.holds, LAMBDA r : r.parent = parent /\ (mask = "tree" \/ Accepts(r.name)))
        offset == IF select.offset > count THEN select.offset - count ELSE 0
        limit == IF select.limit = 0 THEN Len(all)
                 ELSE IF select.offset > count THEN select.limit ELSE select.limit + count - select.offset
        end == IF offset + limit < Len(all) THEN offset + limit ELSE Len(all)
    IN  IF m.filters THEN all ELSE SubSeq(all, offset + 1, end)

\* corto_selectRequestMount
RequestMount(m, parent) == IF select.vstore THEN MountIter(Answer(m, parent)) ELSE NoIter

\* corto_selectIterMount: results of a mount that does not filter are filtered early.
WrongParent(m, r) == FALSE \* mutant: only the name and the type are compared
EarlyParent(m, r) == r.parent # RelativeParent(m)
NoMatch(m, r) == /\ Expr.filter # {} /\ m.filters /\ mask # "tree"
                 /\ ~ResultMatches(r) \/ EarlyParent(m, r)

(***************************************************************************)
(* corto_selectTree, one element at a time                                 *)
(***************************************************************************)
\* The object of the scope that is read next.  A changed scope is read again
\* up to the last key.
ItemKey(f) == item.name \* mutant: always goes on behind the last item
NextKey(f) == IF f.iter.changed THEN item.name ELSE f.iter.key
FromScope(f) ==
    LET later == {p \in objs : p # <<>> /\ Front(p) = f.o /\ Last(p) > NextKey(f)}
    IN  {p \in later : \A q \in later : Last(p) <= Last(q)}
FromStore(f) ==
    IF select.store /\ f.o # NoObject /\ seg = Len(Expr.from) /\ f.mount = f.first
    THEN IF mask = "self" /\ Expr.filter = {} THEN {f.o}
         ELSE IF f.iter.kind = "store" THEN FromScope(f) ELSE {}
    ELSE {}

HasResult(f) == f.iter.kind = "mount" /\ f.iter.rest # <<>> /\ (Len(stack) = 1 => f.mount > f.first)
HasRequest(f) == /\ Len(stack) = 1 /\ Len(loaded) > f.first
                 /\ f.mount = f.first \/ (~HasResult(f) /\ f.mount < Len(loaded))

\* The item is returned, or the walk goes on, or, when it is hidden and the only one, ends.
Matched(m, hidden, it) ==
    IF m /\ ~hidden
    THEN /\ pc' = "next" /\ mask' = IF mask = "self" THEN "none" ELSE mask
    ELSE /\ mask' = mask
         /\ pc' = IF hidden /\ mask = "self" THEN "segment" ELSE "tree"

ChildFrame(o, iter, mount) ==
    [o |-> o, iter |-> iter, mount |-> mount, first |-> Len(loaded), length |-> Len(location.path)]

\* An object.  It is skipped when it does not match or is before the offset.
VisitObject ==
    /\ pc = "tree"
    /\ \E o \in FromStore(Top) :
         LET match == ObjectMatches(o) /\ PastOffset(skip)
             hidden == match /\ TypeOf(o) = "unknown"
             leaf == match /\ ~\E p \in objs : p # <<>> /\ Front(p) = o
             read == Goes([Top EXCEPT !.iter = IF @.kind = "store" /\ o # Top.o
                                               THEN [@ EXCEPT !.key = Last(o), !.changed = FALSE] ELSE @])
             pushed == ~leaf /\ mask = "tree"
             seen == [name |-> Id(o), hidden |-> hidden, object |-> o, place |-> o, type |-> TypeOf(o)]
         IN  /\ skip' = IF match \/ PastOffset(skip) THEN skip ELSE skip + 1
             /\ item' = IF match THEN seen ELSE item
             /\ stack' = IF pushed THEN Append(read, ChildFrame(o, ScopeIter(o), Len(loaded))) ELSE read
             /\ claims' = Plus(IF match THEN Plus(ReleaseItem(claims), o, 1) ELSE claims,
                               IF pushed THEN o ELSE NoObject, 1)
             /\ Matched(match, hidden, seen)
    /\ UNCHANGED <<select, objs, written, walk, location, count, yielded, ended>>

\* The store has no more objects: the next mount of the scope is asked.
AskMount ==
    /\ pc = "tree" /\ FromStore(Top) = {} /\ HasRequest(Top)
    /\ LET i == Top.mount + 1
       IN  stack' = Goes([Top EXCEPT !.mount = i, !.iter = RequestMount(Mount(i), RelativeParent(Mount(i)))])
    /\ UNCHANGED <<select, objs, written, pc, walk, mask, item, location, skip, count, claims, yielded, ended>>

\* A result of a mount.  The reference to the object of the previous item is overwritten.
VisitResult ==
    /\ pc = "tree" /\ FromStore(Top) = {} /\ HasResult(Top)
    /\ LET m == Mount(Top.mount)
           r == Head(Top.iter.rest)
           read == Goes([Top EXCEPT !.iter.rest = Tail(@)])
           deeper == Append(location.path, r.name)
           parent == SubSeq(deeper, Len(m.at) + 1, Len(deeper))
           seen == [name |-> r.name, hidden |-> r.hidden, object |-> NoObject,
                    place |-> m.at \o Append(r.parent, r.name), type |-> r.type]
       IN  IF NoMatch(m, r)
           THEN stack' = read /\ UNCHANGED <<pc, mask, item, location>>
           ELSE /\ item' = seen
                /\ Matched(mask # "tree" \/ ResultMatches(r), r.hidden, seen)
                /\ IF r.leaf \/ mask # "tree"
                   THEN stack' = read /\ UNCHANGED location
                   ELSE /\ stack' = Append(read, ChildFrame(NoObject, RequestMount(m, parent), Top.mount))
                        /\ location' = [path |-> deeper, stale |-> <<>>]
    /\ UNCHANGED <<select, objs, written, walk, skip, count, claims, yielded, ended>>

\* A frame is depleted.
NameStays(f) == item.name \* mutant: the name is not that of the object that is left
NameOf(f) == IF f.o # NoObject THEN Id(f.o) ELSE item.name
Depleted == pc = "tree" /\ FromStore(Top) = {} /\ ~HasRequest(Top) /\ ~HasResult(Top)
KeepsClaim(f) == claims \* mutant: the object of the frame is not released
Unwound(f) == Plus(claims, f.o, -1)
Unwind ==
    /\ Depleted /\ Len(stack) > 1
    /\ item' = [item EXCEPT !.name = NameOf(Top)]
    /\ claims' = Unwound(Top)
    /\ location' = IF Len(location.path) > Top.length
                   THEN [path |-> SubSeq(location.path, 1, Top.length),
                         stale |-> SubSeq(location.path, Top.length + 1, Top.length + 1)]
                   ELSE location
    /\ stack' = Front(stack)
    /\ UNCHANGED <<select, objs, written, pc, walk, mask, skip, count, yielded, ended>>

\* corto_selectRelease: the objects of the frames, of the segments and of the item.
Frames(p) == {i \in DOMAIN stack : stack[i].o = p}
Released == ReleaseItem(PlusAll([p \in Path |-> claims[p] - Cardinality(Frames(p))], found, -1))
Stop(how) == /\ pc' = "done" /\ ended' = how /\ claims' = Released /\ ResetItem
             /\ UNCHANGED <<walk, mask, stack, location>>

\* corto_selectHasNext, corto_selectNextSegment: nothing is left here
NextSegment ==
    /\ (Depleted /\ Len(stack) = 1) \/ pc = "segment"
    /\ IF seg < Len(Expr.from)
       THEN /\ pc' = "tree" /\ ResetItem /\ seg' = seg + 1
            /\ PrepareFrame(FilterMounts(seg), Expr, found, seg + 1, stack[1].o, ReleaseItem(claims))
            /\ UNCHANGED <<expr, found, mask, ended>>
       ELSE Stop("end")
    /\ UNCHANGED <<select, objs, written, skip, count, yielded>>

(***************************************************************************)
(* The application                                                         *)
(***************************************************************************)
\* corto_selectHasNext; corto_selectNextExpr when one object was found
HasNext ==
    /\ pc = "idle"
    /\ IF select.limit # 0 /\ select.limit <= count THEN Stop("end")
       ELSE IF mask = "none"
       THEN IF expr < Len(select.exprs)
            THEN /\ pc' = "tree" /\ ResetItem /\ UNCHANGED ended
                 /\ Run(expr + 1, loaded, stack[1].o, ReleaseItem(claims))
            ELSE Stop("end")
       ELSE pc' = "tree" /\ UNCHANGED <<walk, mask, stack, item, location, claims, ended>>
    /\ UNCHANGED <<select, objs, written, skip, count, yielded>>

\* corto_selectNext
Next_ ==
    /\ pc = "next" /\ pc' = "idle" /\ count' = count + 1
    /\ yielded' = Append(yielded, [place |-> item.place, type |-> item.type])
    /\ UNCHANGED <<select, objs, written, walk, mask, stack, item, location, skip, claims, ended>>

\* The application stops iterating.
Leave == /\ pc = "idle" /\ Stop("left")
         /\ UNCHANGED <<select, objs, written, skip, count, yielded>>

\* Another thread adds or deletes an object, under the lock of its scope.
Unread(p) == /\ pc # "done" /\ Top.o = p /\ Top.iter.kind = "store" /\ Top.iter.key = 0 /\ item.name # 0
Write ==
    /\ written < Len(select.writes) /\ written' = written + 1
    /\ LET w == select.writes[written + 1]
           p == Front(w.path)
       IN  /\ ~(Quiet /\ Unread(p))
           /\ objs' = IF w.op = "add" THEN objs \cup {w.path}
                      ELSE {q \in objs : q # w.path /\ ~Under(q, w.path)}
           /\ stack' = [i \in DOMAIN stack |->
                 IF stack[i].iter.kind = "store" /\ (stack[i].o = p \/ (w.op = "delete" /\ (stack[i].o = w.path \/ Under(stack[i].o, w.path))))
                 THEN [stack[i] EXCEPT !.iter.changed = TRUE] ELSE stack[i]]
    /\ UNCHANGED <<select, pc, walk, mask, item, location, skip, count, claims, yielded, ended>>

Walk == VisitObject \/ AskMount \/ VisitResult \/ Unwind \/ NextSegment \/ HasNext \/ Next_
Next == Walk \/ Leave \/ Write
Spec == Init /\ [][Next]_vars
\* The application asks for results until there are no more.
FairSpec == Spec /\ WF_vars(Walk)

(***************************************************************************)
(* Properties                                                              *)
(***************************************************************************)
TypeInvariant ==
    /\ objs \subseteq Path /\ written \in 0..Len(select.writes)
    /\ pc \in {"idle", "tree", "segment", "next", "done"}
    /\ mask \in {"self", "scope", "tree", "none"}
    /\ seg \in 0..Len(Expr.from) /\ found \subseteq Path
    /\ \A p \in Path : claims[p] \in Nat

Places == {yielded[i].place : i \in DOMAIN yielded}
InScope(p, ex) == IF ex.mask = "tree" THEN Under(p, ex.from)
                  ELSE IF ex.mask = "self" /\ ex.filter = {} THEN p = ex.from
                  ELSE p # <<>> /\ Front(p) = ex.from
Asked(p, t, ex) == InScope(p, ex) /\ (ex.filter = {} \/ Id(p) \in ex.filter) /\ (select.type \in {"", t})

\* What the store holds from the start to the end, and what the mounts hold, and is asked for.
Stored(ex) == {p \in select.objects \cap objs : Asked(p, TypeOf(p), ex) /\ TypeOf(p) # "unknown"}
Held(ex) == UNION {{m.at \o Append(r.parent, r.name) : r \in {x \in Range(m.holds) :
                        ~x.hidden /\ Asked(m.at \o Append(x.parent, x.name), x.type, ex)}}
                   : m \in {x \in Range(select.mounts) : /\ x.serves /\ select.type \in {"", x.type}
                                                         /\ x.type = "" \/ x.at = ex.from}}
Wanted(ex) == (IF select.store THEN Stored(ex) ELSE {}) \cup (IF select.vstore THEN Held(ex) ELSE {})

\* Nothing is returned twice, though scopes change between two reads and are then read again,
\* and though objects of a mount are also in the store.
NeverTwice == IsInjective([i \in DOMAIN yielded |-> yielded[i].place])

\* What is there during the whole select is returned, by the store or by a mount: the
\* position is kept in scopes that change and in scopes that are left and entered, and only
\* mounts that return an object mask it.  Of a select for one object, one is returned.
NothingIsMissed ==
    ended = "end" /\ select.offset = 0 /\ select.limit = 0 =>
        \A e \in DOMAIN select.exprs :
            LET ex == select.exprs[e]
            IN  IF ex.mask = "self" THEN Wanted(ex) = {} \/ Wanted(ex) \cap Places # {}
                ELSE Wanted(ex) \subseteq Places

\* Everything that is returned is asked for: its scope, its name and its type.
YieldedIsAsked == \A i \in DOMAIN yielded :
    \E e \in DOMAIN select.exprs : Asked(yielded[i].place, yielded[i].type, select.exprs[e])

\* A page has as many results as there are behind the offset, at most the limit.
PageIsFull ==
    ended = "end" /\ select.writes = <<>> /\ Len(select.exprs) = 1 /\ Expr.mask # "self" =>
        LET n == Cardinality(Wanted(Expr))
            behind == IF n > select.offset THEN n - select.offset ELSE 0
        IN  Len(yielded) = IF select.limit # 0 /\ select.limit < behind THEN select.limit ELSE behind

\* The results of a select: each once, none missed, and as many as there are for the page.
EachOnce == TypeInvariant /\ NeverTwice /\ NothingIsMissed /\ PageIsFull

\* When the select is released, so are the objects it claimed: those of the frames, of
\* the segments and of the last item, wherever the application stopped.
ClaimsAreReturned == pc = "done" => \A p \in Path : claims[p] = 0
StoreClaimsAreReturned == select.mounts = <<>> /\ Len(select.exprs) = 1 => ClaimsAreReturned

\* The iteration comes to an end.
SelectEnds == <>(pc = "done")
=============================================================================
