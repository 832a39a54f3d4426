------------------------------ MODULE MCValues ------------------------------
(***************************************************************************)
(* A source and a destination, of the types of a pair: the application     *)
(* writes the source, copies it, compares the two, writes the source as a  *)
(* text which it reads into the destination, and frees both.  Apart from   *)
(* these a cell with a value of a primitive type, which is cast.           *)
(***************************************************************************)
EXTENDS Values, Functions

CONSTANT MaxOps \* bound: writes and copies

\* The five widths have 2 to 5 bits, so that every word of every type is tried.
Prim == INSTANCE Primitives WITH Bits <- <<2, 3, 4, 5, 5>>, Constants <- {1, 2}

Int32 == Primitive("int", 4)
Byte == Primitive("int", 1)
Wide == Primitive("wide", 8)
Text == Primitive("text", 8)
Optional(t) == [Plain(t) EXCEPT !.optional = TRUE]
NotNull(t) == [Plain(t) EXCEPT !.notNull = TRUE]
Default(t) == [Plain(t) EXCEPT !.default = TRUE]
When(t, d) == [Plain(t) EXCEPT !.when = {d}]

Named == Struct(<<>>, <<Plain(Text), Plain(Byte)>>)
Derived == Struct(<<Named>>, <<Plain(ObjectRef), Default(Text)>>)
Partial == Struct(<<>>, <<Optional(Text), Optional(Named)>>)
Lists == Struct(<<>>, <<NotNull(List(Int32)), Plain(List(Text))>>)
Scalars == Struct(<<Struct(<<>>, <<Plain(Byte)>>)>>, <<Plain(Byte), Plain(Wide), Plain(Int32), Plain(Byte)>>)
Ends == Struct(<<>>, <<Plain(Text), Plain(Iterator)>>)
Cases == Union(<<Plain(Int32), When(List(Int32), 1), When(Byte, 2)>>)
Nested == Struct(<<>>, <<Plain(Named), Plain(Cases)>>)
Node == Class(<<>>, <<Plain(Byte), Plain(ObjectRef)>>)

\* Object 1 has a name; the application holds 2, which refers to 3, and 3; the rest are made
\* when a text is read.
Objects == 1..6
Held == {2, 3}
Str == INSTANCE Strings WITH NamedObjects <- {1}, AnonymousType <- Node

Alike == {Int32, Text, ObjectRef, Node, Named, Derived, Partial, Lists, Scalars, Cases, Nested,
           Array(Int32, 2), Array(Text, 2), Array(List(Text), 2), Array(ObjectRef, 2),
           Sequence(Text), Sequence(ObjectRef), Sequence(List(Int32)),
           List(Int32), List(Text), List(ObjectRef), List(Wide), List(Named)}
Pairs == {<<t, t>> : t \in Alike}
         \cup {<<List(Text), Sequence(Text)>>, <<List(Text), Array(Text, 2)>>, <<List(ObjectRef), Sequence(ObjectRef)>>,
               <<Sequence(Text), Array(Text, 2)>>, <<List(Int32), Array(Int32, 2)>>}
AllTypes == Alike \cup {Ends, Struct(<<Derived>>, <<Plain(Byte), Plain(Node)>>)}

(***************************************************************************)
(* Values to copy from                                                     *)
(***************************************************************************)
Behind(x) == [b |-> 1, v |-> x]
One(S) == CHOOSE x \in S : TRUE
Short(S) == {<<>>, <<One(S)>>} \cup {<<x, One(S)>> : x \in S \ {One(S)}}

RECURSIVE Literals(_)
MemberLiterals(mb) == IF mb.optional THEN {Null(0)} \cup {Behind(x) : x \in Literals(mb.type)} ELSE Literals(mb.type)
Product(Ss) == FoldLeft(LAMBDA acc, S : {Append(v, x) : v \in acc, x \in S}, {<<>>}, Ss)
Literals(t) ==
    CASE t.reference -> 0..3
      [] ~t.reference /\ t.kind = "primitive" -> IF t.sub = "text" THEN {Null(""), Behind("a")} ELSE {0, 1}
      [] ~t.reference /\ t.kind = "collection" ->
           LET S == Literals(t.elem[1])
           IN  CASE t.sub = "array" -> [1..t.max -> S]
                 [] t.sub = "sequence" -> {IF x = <<>> THEN Null(x) ELSE Behind(x) : x \in Short(S)}
                 [] t.sub = "list" /\ RequiresAlloc(t.elem[1]) -> {Behind(<<Behind(x)>>) : x \in S}
                 [] OTHER -> {Null(<<>>)} \cup {Behind(x) : x \in Short(S)}
      [] ~t.reference /\ t.kind = "composite" ->
           IF t.sub = "union" THEN UNION {{[d |-> d, v |-> x] : x \in MemberLiterals(t.members[FindCase(t, d)])} : d \in 0..2}
           ELSE Product([i \in DOMAIN t.members |-> MemberLiterals(t.members[i])])

(***************************************************************************)
(* The application                                                         *)
(***************************************************************************)
VARIABLES T, U, \* the types of the source and of the destination
          src, dst, mem, ops, last, cell
vars == <<T, U, src, dst, mem, ops, last, cell>>
NoCell == [type |-> Prim!Text, raw |-> Prim!Written("name", {})]

\* corto_release, for the anonymous objects to which nothing refers any more
Reap(m) ==
    LET gone == {o \in Objects : m.objects[o] # <<>> /\ m.refs[o] = 0}
        Free1(acc, o) == Count(acc.objects[o][2], -1, [acc EXCEPT !.objects[o] = <<>>])
        Once(acc) == FoldLeft(Free1, acc, SetToSeq({o \in Objects : acc.objects[o] # <<>> /\ acc.refs[o] = 0}))
    IN  IF gone = {} THEN m ELSE Once(Once(m))
Memory(nulls) ==
    [live |-> {}, fault |-> FALSE, nulls |-> nulls, refs |-> [o \in Objects |-> IF o \in {1, 2} THEN 1 ELSE IF o = 3 THEN 2 ELSE 0],
     objects |-> [o \in Objects |-> CASE o = 2 -> <<0, 3>> [] o = 3 -> <<1, 1>> [] OTHER -> <<>>]]
\* A new value, with the contents of x
Made(t, x, m) == Then(InitValue(t, m), LAMBDA v, k : Copy(t, t, v, x, k))
InitPair ==
        /\ \E p \in Pairs : U = p[1] /\ T = p[2]
        /\ \E x \in Literals(U), nulls \in BOOLEAN :
               \E s \in {Made(T, One(Literals(T)), Memory(nulls))} : \E d \in {Made(U, x, s.m)} :
                   src = s.v /\ dst = d.v /\ mem = d.m
        /\ ops = 0 /\ last = "init" /\ cell = NoCell
InitCell ==
        /\ \E t \in Prim!Primitive \ {Prim!Text} : \E raw \in Prim!Words(t) : cell = [type |-> t, raw |-> raw]
        /\ T = Int32 /\ U = Int32 /\ src = 0 /\ dst = 0 /\ mem = Memory(TRUE)
        /\ ops = 0 /\ last = "cell"
Init == InitPair \/ InitCell

Running == last \notin {"done", "cell"} /\ ops < MaxOps
Write == /\ Running
         /\ \E x \in Literals(T) : \E r \in {Copy(T, T, src, x, mem)} : src' = r.v /\ mem' = Reap(r.m)
         /\ ops' = ops + 1 /\ last' = "write" /\ UNCHANGED <<T, U, dst, cell>>
CopyTo == /\ Running
          /\ \E r \in {Copy(U, T, dst, src, mem)} : dst' = r.v /\ mem' = Reap(r.m)
          /\ ops' = ops + 1 /\ last' = "copy" /\ UNCHANGED <<T, U, src, cell>>
Delete == /\ last \notin {"done", "cell"}
          /\ mem' = Reap(Deinit(dst, U, Deinit(src, T, mem)))
          /\ src' = Zero(T) /\ dst' = Zero(U)
          /\ last' = "done" /\ UNCHANGED <<T, U, ops, cell>>

\* What a text keeps: not unions and optional members, whose reader is wrong, nor which object
\* is meant when one is written inside another one and there are references by number.
RECURSIVE Legible(_)
Legible(t) ==
    IF t.reference \/ t.kind = "primitive" THEN TRUE
    ELSE IF t.kind = "collection" THEN Legible(t.elem[1])
    ELSE /\ t.kind = "composite" /\ t.sub # "union"
         /\ \A i \in DOMAIN t.members : ~t.members[i].optional /\ Legible(t.members[i].type)
RECURSIVE HasBuffers(_)
HasBuffers(t) == ~t.reference /\ CASE t.kind = "primitive" -> FALSE
                                   [] t.kind = "collection" -> t.sub # "array" \/ HasBuffers(t.elem[1])
                                   [] t.kind = "composite" -> \E i \in DOMAIN t.members : HasBuffers(t.members[i].type)
Anonymous(t, v) == SelectSeq(Owned(t, v).refs, LAMBDA o : o # 1)
Numbered(str) == \E i \in DOMAIN str : str[i].form = "id"
Nests(t, v) == \E o \in Range(Anonymous(t, v)) : mem.objects[o][2] \notin {0, 1}

\* The members in another order, with their names.
ByName(t, v) ==
    LET n == Len(v)
        Item(i) == Str!Word("member", i) \o Str!TextOf(t.members[i].type, v[i], mem)
        Items == FoldLeft(LAMBDA acc, k : acc \o (IF k = 1 THEN <<>> ELSE Str!Mark(",")) \o Item(n + 1 - k), <<>>, [k \in 1..n |-> k])
    IN  Str!Mark("{") \o Items \o Str!Mark("}")

\* A value with lists or sequences is read into a new one, others into what is there.
Target == IF HasBuffers(T) THEN Then(InitValue(T, Deinit(dst, T, mem)), LAMBDA v, m : Result(v, Reap(m))) ELSE Result(dst, mem)
ReadFrom(str) == Then(Target, LAMBDA v, m : Str!ReadText(T, v, str, m))
Read == /\ Running /\ U = T /\ ~T.reference /\ Legible(T) = TRUE
        /\ IsInjective(Anonymous(T, dst))
        /\ \E str \in {Str!TextOf(T, src, mem)} \cup (IF T.kind = "composite" THEN {ByName(T, src)} ELSE {}) :
               /\ ~(Numbered(str) /\ Nests(T, src))
               /\ \E r \in {ReadFrom(str)} :
                      dst' = r.v /\ mem' = Reap(r.m) /\ last' = IF r.failed THEN "refused" ELSE "read"
        /\ ops' = ops + 1 /\ UNCHANGED <<T, U, src, cell>>
Cast == /\ last = "cell"
        /\ \E t \in Prim!Primitive :
               LET r == Prim!Cast(cell.type, cell.raw, t)
               IN  ~r.failed /\ cell' = [type |-> t, raw |-> r.v]
        /\ UNCHANGED <<T, U, src, dst, mem, ops, last>>
Next == Write \/ CopyTo \/ Read \/ Delete \/ Cast
Spec == Init /\ [][Next]_vars

(***************************************************************************)
(* Properties                                                              *)
(***************************************************************************)
\* What init, copy and free do with memory agrees: every allocation is owned by exactly one
\* place of one value, every reference to an object is counted once, nothing is freed twice or
\* read unwritten, and what is left when both values are freed is nothing (free.c, copy_ser.c,
\* init_ser.c and the cache of typecache.c each walk the type in their own way).
OwnedOnce ==
    LET o == Join(Owned(U, dst), Owned(T, src))
    IN  /\ ~mem.fault
        /\ \A i, j \in DOMAIN o.blocks : o.blocks[i] = o.blocks[j] => i = j
        /\ mem.live = Range(o.blocks)
        /\ \A x \in Objects : mem.refs[x] = Len(SelectSeq(o.refs, LAMBDA y : y = x))
                                              + (IF x \in Held THEN 1 ELSE 0)
                                              + Cardinality({y \in Objects : mem.objects[y] # <<>> /\ mem.objects[y][2] = x})

\* After a copy the two have the same contents, whatever the destination held: members that are
\* not set, the cases of a union, and elements that were there before (copy_ser.c).
CopyIsEqual == last = "copy" => Content(U, dst) = Content(T, src)

\* A value that is written as a text and read back has the same contents, with the contents of
\* the anonymous objects it refers to and which of them are the same, whatever the destination
\* held and in whichever order the members are (string_ser.c, string_deser.c).
WrittenIsReadBack ==
    [][last' \in {"read", "refused"} =>
           /\ last' = "read"
           /\ Str!Deep(T, dst', mem') = Str!Deep(T, src, mem)
           /\ LET a == Owned(T, src).refs
                  b == Owned(T, dst').refs
              IN  \A i, j \in DOMAIN a : (a[i] = a[j]) = (b[i] = b[j])]_vars

\* Two values that compare as equal have the same contents, a copy of the same type is equal, and
\* a comparison made the other way round has the opposite result (compare_ser.c).
RECURSIVE Comparable(_)
Comparable(t) == \/ t.reference \/ t.kind = "primitive"
                 \/ t.kind = "collection" /\ (IF t.sub = "list" THEN Comparable(t.elem[1]) ELSE t.elem[1] = Int32)
                 \/ t.kind = "composite" /\ \A i \in DOMAIN t.members : ~t.members[i].optional /\ Comparable(t.members[i].type)
CompareAgrees ==
    (last \notin {"done", "cell"} /\ Comparable(T) /\ Comparable(U)) =>
        LET c == Compare(U, T, src, dst)
        IN  /\ c = "eq" => Content(U, dst) = Content(T, src)
            /\ last = "copy" /\ U = T => c = "eq"
            /\ Compare(T, U, dst, src) = Reversed(c)

\* The walks of copy and compare agree on what the contents of a value are.
ValuesCompare == CopyIsEqual /\ CompareAgrees

\* Every member of a composite type is inside its value, aligned, and apart from the others.
LayoutsAreSound == \A t \in AllTypes : LayoutIsSound(t)

\* A value of a struct that can be cast to another has the members of that in the same places.
CastsAreSound ==
    \A t, from \in {u \in AllTypes : u.kind = "composite"} : Castable(t, from) =>
        t.size <= from.size /\ \A i \in DOMAIN t.members : from.offsets[i] = t.offsets[i]

\* Values are kept where their types say, and by nobody else.
MemoryIsSound == OwnedOnce /\ LayoutsAreSound /\ CastsAreSound

\* A cast between types of numbers keeps the number whenever the target has it, whatever the
\* widths and signs (convert.c).  Not of a 16 bit binary, which is read as a signed number.
NumbersArePreserved ==
    (last = "cell" /\ cell.type \in (Prim!Integral \cup Prim!Floats) \ {Prim!P("binary", Prim!W16)}) =>
        \A t \in Prim!Integral \cup Prim!Floats :
            LET n == Prim!Number(cell.type, cell.raw)
                r == Prim!Cast(cell.type, cell.raw, t)
            IN  ~r.failed /\ Prim!Holds(t, n) => Prim!Number(t, r.v) = n

\* What is written to a text is read back from it (the two halves of convert.c), except by the
\* types that no text is converted to and words that strtol cannot return.
TextReadsBack ==
    LET t == cell.type
    IN  (/\ last = "cell" /\ t # Prim!Text /\ Prim!Converts(Prim!Text, t)
         /\ cell.raw \in Prim!Words(t)
         /\ t = Prim!P("binary", Prim!Word) => cell.raw < 2^(Prim!Size(t) - 1)
         /\ t = Prim!Bitmask => cell.raw \in {1, 2})
        => LET s == Prim!Cast(t, cell.raw, Prim!Text) IN Prim!Cast(Prim!Text, s.v, t) = Prim!Done(cell.raw)

\* The cell compared with any operand of its kind, of any width: the result is that of the
\* numbers, whichever side the wider operand is on (value.c, operator.c).
Operands(t) == IF t.kind \in {"integer", "uinteger", "float"} THEN {o \in Prim!Primitive : o.kind = t.kind} ELSE {}
ExpressionsAgree ==
    (last = "cell" /\ cell.type # Prim!Text) =>
        \A r \in Operands(cell.type) : \A y \in Prim!Words(r) :
            LET l == cell.type
                n == Prim!Number(l, cell.raw)
                k == Prim!Number(r, y)
                Evaluated(op) == Prim!Evaluate(l, cell.raw, r, y, op)
            IN  ~Evaluated("lt").failed =>
                    /\ (Evaluated("lt").v = 1) = (n < k) /\ (Evaluated("gteq").v = 1) = (n >= k)
                    /\ (Evaluated("gt").v = 1) = (n > k) /\ (Evaluated("eq").v = 1) = (n = k)
                    /\ Prim!Holds(Prim!ResultType(l, r, "sub"), n - k) =>
                           Prim!Number(Prim!ResultType(l, r, "sub"), Evaluated("sub").v) = n - k

\* Casts, texts and expressions agree on the number that the bits of a value stand for.

\* Types have places of their own in the tables of conversions and operators, and what the type
\* system lets be cast between numbers and texts has a conversion (primitive.c, convert.c), but for
\* words and binaries, which a text is not always converted to.
TablesAreFilled ==
    LET Castables == Prim!Numeric \cup {Prim!Text} IN
    \A t, from \in Castables :
        /\ Prim!ConvertId(t) = Prim!ConvertId(from) => t = from
        /\ Prim!CastableKinds(t.kind, from.kind) =>
               Prim!Converts(from, t) \/ (from = Prim!Text /\ (t.width = Prim!Word \/ t.kind = "binary"))

\* Primitive values mean the same to all that calculates with them.
PrimitivesAgree == NumbersArePreserved /\ TextReadsBack /\ ExpressionsAgree /\ TablesAreFilled
=============================================================================
