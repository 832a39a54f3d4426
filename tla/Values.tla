------------------------------- MODULE Values -------------------------------
(***************************************************************************)
(* Values in memory: how the walks of init_ser.c, copy_ser.c and           *)
(* compare_ser.c, corto_free and the functions of ptr.c (src/store) treat  *)
(* the strings, lists, buffers and references that a value owns.           *)
(*                                                                         *)
(* A value is a tree.  What is behind a pointer is in a record [b, v]: b   *)
(* is the allocation, 0 for NULL, and v what it holds.  The memory is a    *)
(* record of the allocations, the references to objects, the faults, and    *)
(* what an unwritten word reads as.                                        *)
(***************************************************************************)
EXTENDS Types

Wild == -1 \* an address that was never written
Null(v) == [b |-> 0, v |-> v]

(***************************************************************************)
(* Memory                                                                  *)
(***************************************************************************)
Result(v, m) == [v |-> v, m |-> m]
Fault(m) == [m EXCEPT !.fault = TRUE]
Fresh(m) == Min((1..(Cardinality(m.live) + 1)) \ m.live)
Alloc(v, m) == LET b == Fresh(m) IN Result([b |-> b, v |-> v], [m EXCEPT !.live = @ \cup {b}])
FreeBlock(b, m) == IF b = 0 THEN m ELSE IF b \in m.live THEN [m EXCEPT !.live = @ \ {b}] ELSE Fault(m)
Count(o, n, m) == IF o = 0 THEN m ELSE IF o = Wild THEN Fault(m) ELSE [m EXCEPT !.refs[o] = @ + n]
SetRef(d, s, m) == Result(s, Count(d, -1, Count(s, 1, m))) \* corto_set_ref

\* Do Op with the value and the memory that are the result of what was done before.
Then(r, Op(_, _)) == Op(r.v, r.m)

\* Do Op(i, m) for i in 1..n, and collect the values.
Each(n, m, Op(_, _)) ==
    FoldLeft(LAMBDA acc, i : LET r == Op(i, acc.m) IN Result(Append(acc.v, r.v), r.m),
             Result(<<>>, m), [i \in 1..n |-> i])

\* Zeroed memory, and an element of a list.
RECURSIVE Zero(_)
ZeroMember(mb) == IF mb.optional THEN Null(0) ELSE Zero(mb.type)
Zero(t) == CASE t.reference \/ t.kind = "void" -> 0
             [] t.kind = "primitive" /\ t.sub # "text" -> 0
             [] t.kind = "primitive" /\ t.sub = "text" -> Null("")
             [] t.kind = "collection" /\ t.sub = "array" -> [i \in 1..t.max |-> Zero(t.elem[1])]
             [] t.kind = "collection" /\ t.sub # "array" -> Null(<<>>)
             [] t.kind = "composite" /\ t.sub = "union" -> [d |-> 0, v |-> ZeroMember(t.members[FindCase(t, 0)])]
             [] OTHER -> [i \in DOMAIN t.members |-> ZeroMember(t.members[i])]

(***************************************************************************)
(* corto_ptr_init                                                          *)
(***************************************************************************)
\* The walk of init_ser.c.  For a list that is not a member it reads the member all the same.
LeftNull(mb, m) == IF mb = <<>> THEN m.nulls ELSE ~mb[1].notNull
RECURSIVE InitWalk(_, _, _)
InitMember(mb, m) ==
    IF mb.optional THEN Result(Null(0), m)
    ELSE IF mb.default THEN Alloc("default", m)
    ELSE InitWalk(mb.type, <<mb>>, m)
InitWalk(t, mb, m) ==
    IF t.reference THEN Result(0, m)
    ELSE CASE t.kind = "collection" /\ t.sub = "array" -> Each(t.max, m, LAMBDA i, n : InitWalk(t.elem[1], <<>>, n))
           [] t.kind = "collection" /\ t.sub = "list" /\ ~LeftNull(mb, m) -> Alloc(<<>>, m)
           [] t.kind = "composite" /\ t.sub = "union" ->
                Then(InitMember(t.members[FindCase(t, 0)], m), LAMBDA v, n : Result([d |-> 0, v |-> v], n))
           [] t.kind = "composite" /\ t.sub # "union" ->
                Each(Len(t.members), m, LAMBDA i, n : InitMember(t.members[i], n))
           [] OTHER -> Result(Zero(t), m)
InitValue(t, m) == IF ~t.reference /\ "init" \in t.flags THEN InitWalk(t, <<>>, m) ELSE Result(Zero(t), m)

\* corto_ptr_new
New(t, m) == Then(InitValue(t, m), Alloc)

(***************************************************************************)
(* corto_free: by the fields of the type, and corto_ptr_deinit             *)
(***************************************************************************)
RECURSIVE At(_, _)
At(v, path) == IF path = <<>> THEN v ELSE At(v[Head(path)], Tail(path))

RECURSIVE Free(_, _, _)
\* FREE_STRING, FREE_REFERENCE and corto_free, by the kind of what is there
FreeAs(sub, v, t, m) == CASE sub = "STRING" -> FreeBlock(v.b, m)
                          [] sub = "REFERENCE" -> Count(v, -1, m)
                          [] sub = "RESOURCE" -> Free(v, t, m)
FreeAll(vs, m, Op(_, _)) == FoldLeft(LAMBDA acc, v : Op(v, acc), m, vs)
Holds == {"STRING", "REFERENCE", "RESOURCE"}

\* FREE_OPTIONAL: only when what is there holds a resource.
FreeOptional(x, f, m) ==
    IF x.b # 0 /\ f.sub \in Holds THEN FreeBlock(x.b, FreeAs(f.sub, x.v, f.type, m)) ELSE m

\* FREE_UNION
FreeUnion(x, t, m) ==
    LET mb == t.members[FindCase(t, x.d)]
    IN  IF mb.optional THEN (IF x.v.b # 0 THEN FreeBlock(x.v.b, Free(x.v.v, mb.type, m)) ELSE m)
        ELSE Free(x.v, mb.type, m)

\* FREE_ARRAY, FREE_SEQUENCE: a sequence of elements that hold nothing keeps its buffer.
KeepsBuffer(f) == FALSE \* mutant: no buffer is freed
FreesBuffer(f) == f.sub \in Holds
FreeElements(vs, f, m) ==
    IF f.sub \in Holds THEN FreeAll(vs, m, LAMBDA v, n : FreeAs(f.sub, v, f.type.elem[1], n)) ELSE m

\* FREE_LIST: elements that are not behind a pointer are taken for one.
FreeListElement(e, f, m) ==
    CASE f.sub = "STRING" -> FreeBlock(e.b, m)
      [] f.sub = "REFERENCE" -> Count(e, -1, m)
      [] f.sub = "ALLOC" -> FreeBlock(e.b, m)
      [] f.sub = "RESOURCE" -> IF RequiresAlloc(f.type.elem[1]) THEN FreeBlock(e.b, Free(e.v, f.type.elem[1], m)) ELSE Fault(m)
      [] OTHER -> m

FreeField(x, f, m) ==
    CASE f.kind = "text" -> FreeBlock(x.b, m)
      [] f.kind = "reference" -> Count(x, -1, m)
      [] f.kind = "union" -> FreeUnion(x, f.type, m)
      [] f.kind = "optional" -> FreeOptional(x, f, m)
      [] f.kind = "array" -> FreeElements(x, f, m)
      [] f.kind = "sequence" -> IF FreesBuffer(f) THEN FreeBlock(x.b, FreeElements(x.v, f, m)) ELSE m
      [] f.kind = "list" -> FreeBlock(x.b, FreeAll(x.v, m, LAMBDA e, n : FreeListElement(e, f, n)))
      [] OTHER -> m
Free(v, t, m) == FoldLeft(LAMBDA acc, f : FreeField(At(v, f.path), f, acc), m, t.fields)

Deinit(v, t, m) == IF t.reference THEN Count(v, -1, m)
                   ELSE IF "resources" \in t.flags THEN Free(v, t, m) ELSE m

(***************************************************************************)
(* corto_ptr_copy: the walk of copy_ser.c, over the source                 *)
(***************************************************************************)
\* corto_set_str
SetText(d, s, m) == LET n == FreeBlock(d.b, m) IN IF s.b = 0 THEN Result(Null(""), n) ELSE Alloc(s.v, n)

\* corto_collection_resizeArray: new elements are zeroed, not initialized.  The sizes are
\* those of the objects when the elements are references.
Misplaced(e) == e.reference /\ e.size # Ptr
Shrink(e, d, n, m) ==
    IF n = 0 THEN Result(Null(<<>>), FreeBlock(d.b, m))
    ELSE Result([d EXCEPT !.v = SubSeq(@, 1, n)], IF Misplaced(e) THEN Fault(m) ELSE m)
Grow(e, d, n, m) ==
    LET added == [i \in 1..(n - Len(d.v)) |-> IF Misplaced(e) /\ d.v # <<>> THEN Wild ELSE Zero(e)]
    IN  IF d.b = 0 THEN Alloc(added, m) ELSE Result([d EXCEPT !.v = @ \o added], m)
DeinitAll(e, vs, m) == FreeAll(vs, m, LAMBDA v, k : Deinit(v, e, k))
ResizeSequence(e, d, n, m) ==
    CASE n = Len(d.v) -> Result(d, m)
      [] n < Len(d.v) -> Shrink(e, d, n, DeinitAll(e, SubSeq(d.v, n + 1, Len(d.v)), m))
      [] n > Len(d.v) -> Grow(e, d, n, m)

\* corto_collection_resizeList: the first elements are taken, and the memory of those that
\* are behind a pointer is kept; new ones are inserted first.
Boxed(e, vs) == IF RequiresAlloc(e) THEN [i \in DOMAIN vs |-> [b |-> 0, v |-> vs[i]]] ELSE vs
Unboxed(e, vs) == IF RequiresAlloc(e) THEN [i \in DOMAIN vs |-> vs[i].v] ELSE vs
Added(e, m) == IF RequiresAlloc(e) THEN New(e, m) ELSE InitValue(e, m)
ResizeList(e, d, n, m) ==
    LET less == Len(d.v) - n
    IN  IF less > 0
        THEN Result([d EXCEPT !.v = SubSeq(@, less + 1, Len(@))], DeinitAll(e, Unboxed(e, SubSeq(d.v, 1, less)), m))
        ELSE Then(Each(-less, m, LAMBDA i, k : Added(e, k)), LAMBDA vs, k : Result([d EXCEPT !.v = vs \o @], k))

\* The case of a union that has other bytes.
Reinterpreted(v, old, new) ==
    CASE old.sub = new.sub -> v
      [] old.sub = "int" /\ new.sub = "text" -> IF v = 0 THEN Null("") ELSE [b |-> Wild, v |-> ""]
      [] OTHER -> Zero(new)

RECURSIVE CopyValue(_, _, _, _)
Keep(d, r) == Result([d EXCEPT !.v = r.v], r.m)
\* The element of a list, which may be behind a pointer
CopyElement(e, d, s, m) == IF RequiresAlloc(e) THEN Keep(d, CopyValue(e, d.v, s.v, m)) ELSE CopyValue(e, d, s, m)
CopyElements(e, ds, ss, m) == Each(Len(ss), m, LAMBDA i, k : CopyValue(e, ds[i], ss[i], k))
CopyBoxed(e, ds, ss, m) == Each(Len(ss), m, LAMBDA i, k : CopyElement(e, ds[i], ss[i], k))

\* corto_ser_collection of copy_ser.c, from a collection of type t to one of type u
Elements(t, v) == IF t.sub = "array" THEN v ELSE v.v
SkipsEmpty(u, d) == u.sub = "sequence" /\ d.b = 0
CopyToArray(u, e, d, ss, m) ==
    IF u.sub = "array" THEN CopyElements(e, d, ss, m)
    ELSE Then(ResizeSequence(e, d, Len(ss), m), LAMBDA x, k : Keep(x, CopyElements(e, x.v, ss, k)))
CopyToList(e, d, ss, m) == Then(ResizeList(e, d, Len(ss), m), LAMBDA x, k : Keep(x, CopyBoxed(e, x.v, ss, k)))
\* A list is made when there is one, or there are elements, to copy, and freed when there is none.
MakesList(u, t, d, s) == u.sub = "list" /\ d.b = 0 /\ (Elements(t, s) # <<>> \/ (t.sub = "list" /\ s.b # 0))
CopyInto(u, t, d, s, m) ==
    CASE u.sub = "list" -> IF d.b = 0 THEN Result(d, m)
                           ELSE CopyToList(t.elem[1], d, IF t.sub = "list" THEN s.v ELSE Boxed(t.elem[1], Elements(t, s)), m)
      [] t.sub = "list" /\ SkipsEmpty(u, d) -> Result(d, m)
      [] OTHER -> CopyToArray(u, t.elem[1], d, IF t.sub = "list" THEN Unboxed(t.elem[1], s.v) ELSE Elements(t, s), m)
Unlisted(u, t, s, d, m) ==
    IF u.sub = "list" /\ t.sub = "list" /\ s.b = 0 /\ d.b # 0 THEN Result(Null(<<>>), FreeBlock(d.b, m)) ELSE Result(d, m)
CopyCollection(u, t, d, s, m) ==
    Then(Then(IF MakesList(u, t, d, s) THEN Alloc(<<>>, m) ELSE Result(d, m),
              LAMBDA x, k : CopyInto(u, t, x, s, k)),
         LAMBDA x, k : Unlisted(u, t, s, x, k))

\* corto_ser_member of copy_ser.c
KeepsUnset(d) == FALSE \* mutant: an optional member that is not set in the source stays
Unsets(d) == d.b # 0
CopyMember(mb, d, s, m) ==
    IF ~mb.optional THEN CopyValue(mb.type, d, s, m)
    ELSE IF s.b # 0
    THEN Then(IF d.b = 0 THEN New(mb.type, m) ELSE Result(d, m),
              LAMBDA x, k : Keep(x, CopyValue(mb.type, x.v, s.v, k)))
    ELSE IF Unsets(d) THEN Result(Null(0), FreeBlock(d.b, Deinit(d.v, mb.type, m))) ELSE Result(d, m)

\* corto_ser_composite of copy_ser.c: a case that needs no init is neither freed nor cleared; one
\* that is not set is deinitialized all the same, which reads it when it can have resources.
LeaveCase(old, v, m) ==
    IF old.optional
    THEN IF v.b # 0 THEN FreeBlock(v.b, Deinit(v.v, old.type, m))
         ELSE IF old.type.reference \/ "resources" \in old.type.flags THEN Fault(m) ELSE m
    ELSE IF "init" \in old.type.flags THEN Deinit(v, old.type, m) ELSE m
EnterCase(old, new, v, m) ==
    IF new.optional THEN Result(Null(0), m)
    ELSE IF "init" \in new.type.flags THEN InitValue(new.type, m)
    ELSE Result(Reinterpreted(v, old.type, new.type), m)
CopyUnion(t, d, s, m) ==
    LET old == t.members[FindCase(t, d.d)]
        new == t.members[FindCase(t, s.d)]
    IN  Then(Then(IF d.d = s.d THEN Result(d.v, m) ELSE EnterCase(old, new, d.v, LeaveCase(old, d.v, m)),
                  LAMBDA v, k : CopyMember(new, v, s.v, k)),
             LAMBDA v, k : Result([d |-> s.d, v |-> v], k))

CopyValue(t, d, s, m) ==
    CASE t.reference -> SetRef(d, s, m)
      [] ~t.reference /\ t.kind = "primitive" -> IF t.sub = "text" THEN SetText(d, s, m) ELSE Result(s, m)
      [] ~t.reference /\ t.kind = "collection" -> CopyCollection(t, t, d, s, m)
      [] ~t.reference /\ t.kind = "composite" ->
           IF t.sub = "union" THEN CopyUnion(t, d, s, m)
           ELSE Each(Len(t.members), m, LAMBDA i, k : CopyMember(t.members[i], d[i], s[i], k))

\* The two may be of different types when these are collections.
Copy(u, t, d, s, m) == IF t.kind = "collection" /\ ~t.reference THEN CopyCollection(u, t, d, s, m) ELSE CopyValue(t, d, s, m)

(***************************************************************************)
(* corto_ptr_compare: the walk of compare_ser.c, over the first            *)
(***************************************************************************)
Order(a, b) == IF a > b THEN "gt" ELSE IF a < b THEN "lt" ELSE "eq"
Reversed(c) == CASE c = "gt" -> "lt" [] c = "lt" -> "gt" [] OTHER -> c
TextOrder(a, b) == IF a.b # 0 /\ b.b # 0 THEN (IF a.v = b.v THEN "eq" ELSE IF a.v = "a" THEN "lt" ELSE "gt")
                   ELSE IF a.b = b.b THEN "eq" ELSE IF a.b # 0 THEN "gt" ELSE "lt"

\* The walk stops at the first difference.
First(cs) == IF \E i \in DOMAIN cs : cs[i] # "eq" THEN cs[Min({i \in DOMAIN cs : cs[i] # "eq"})] ELSE "eq"

RECURSIVE CompareValue(_, _, _)
CompareElements(e, as, bs) == First([i \in DOMAIN as |-> CompareValue(e, as[i], bs[i])])
\* Two arrays or sequences are compared as memory, which is only modelled for scalars.
SizeOrder(as, bs) == Order(Len(as), Len(bs))
CompareCollections(u, t, a, b) ==
    LET e == t.elem[1]
        as == IF t.sub = "list" THEN Unboxed(e, a.v) ELSE Elements(t, a)
        bs == IF u.sub = "list" THEN Unboxed(e, b.v) ELSE Elements(u, b)
        nulls == IF t.sub = "list" /\ u.sub = "list" THEN Order(Min({a.b, 1}), Min({b.b, 1})) ELSE "eq"
    IN  IF SizeOrder(as, bs) # "eq" THEN SizeOrder(as, bs)
        ELSE IF nulls # "eq" THEN nulls
        ELSE CompareElements(e, SubSeq(as, 1, Min({Len(as), Len(bs)})), bs)
CompareValue(t, a, b) ==
    CASE t.reference -> IF a = b THEN "eq" ELSE "neq"
      [] ~t.reference /\ t.kind = "primitive" -> IF t.sub = "text" THEN TextOrder(a, b) ELSE Order(a, b)
      [] ~t.reference /\ t.kind = "collection" -> CompareCollections(t, t, a, b)
      [] ~t.reference /\ t.kind = "composite" ->
           IF t.sub = "union"
           THEN IF FindCase(t, a.d) # FindCase(t, b.d) THEN "neq" ELSE CompareValue(t.members[FindCase(t, a.d)].type, a.v, b.v)
           ELSE First([i \in DOMAIN t.members |-> CompareValue(t.members[i].type, a[i], b[i])])
Compare(u, t, a, b) == IF t.kind = "collection" /\ ~t.reference THEN CompareCollections(u, t, a, b) ELSE CompareValue(t, a, b)

(***************************************************************************)
(* What a value means and what it owns                                     *)
(***************************************************************************)
\* The contents of a value: what the application sees of it.
RECURSIVE Content(_, _)
MemberContent(mb, v) == IF ~mb.optional THEN Content(mb.type, v) ELSE IF v.b = 0 THEN <<>> ELSE <<Content(mb.type, v.v)>>
Content(t, v) ==
    CASE t.reference -> v
      [] ~t.reference /\ t.kind = "primitive" -> IF t.sub = "text" THEN (IF v.b = 0 THEN "" ELSE v.v) ELSE v
      [] ~t.reference /\ t.kind = "collection" ->
           LET vs == IF t.sub = "list" THEN Unboxed(t.elem[1], v.v) ELSE Elements(t, v)
           IN  [i \in DOMAIN vs |-> Content(t.elem[1], vs[i])]
      [] ~t.reference /\ t.kind = "composite" ->
           IF t.sub = "union" THEN [d |-> v.d, v |-> MemberContent(t.members[FindCase(t, v.d)], v.v)]
           ELSE [i \in DOMAIN t.members |-> MemberContent(t.members[i], v[i])]

\* The allocations and the references of a value, in the order of a walk.
Nothing == [blocks |-> <<>>, refs |-> <<>>]
Join(x, y) == [blocks |-> x.blocks \o y.blocks, refs |-> x.refs \o y.refs]
Block(b) == [Nothing EXCEPT !.blocks = IF b = 0 THEN <<>> ELSE <<b>>]
RECURSIVE Owned(_, _)
OwnedBy(ts, vs) == FoldLeft(LAMBDA acc, i : Join(acc, Owned(ts[i], vs[i])), Nothing, [i \in DOMAIN vs |-> i])
OwnedMember(mb, v) == IF ~mb.optional THEN Owned(mb.type, v)
                      ELSE IF v.b = 0 THEN Nothing ELSE Join(Block(v.b), Owned(mb.type, v.v))
Owned(t, v) ==
    CASE t.reference -> [Nothing EXCEPT !.refs = IF v = 0 THEN <<>> ELSE <<v>>]
      [] ~t.reference /\ t.kind = "primitive" -> IF t.sub = "text" THEN Block(v.b) ELSE Nothing
      [] ~t.reference /\ t.kind = "collection" ->
           LET e == t.elem[1]
               vs == IF t.sub = "list" THEN Unboxed(e, v.v) ELSE Elements(t, v)
               boxes == IF t.sub = "list" /\ RequiresAlloc(e)
                        THEN [Nothing EXCEPT !.blocks = [i \in DOMAIN v.v |-> v.v[i].b]] ELSE Nothing
           IN  Join(IF t.sub = "array" THEN Nothing ELSE Block(v.b), Join(boxes, OwnedBy([i \in DOMAIN vs |-> e], vs)))
      [] ~t.reference /\ t.kind = "composite" ->
           IF t.sub = "union" THEN OwnedMember(t.members[FindCase(t, v.d)], v.v)
           ELSE FoldLeft(LAMBDA acc, i : Join(acc, OwnedMember(t.members[i], v[i])), Nothing, [i \in DOMAIN v |-> i])
=============================================================================
