------------------------------ MODULE Strings ------------------------------
(***************************************************************************)
(* Values as text: string_ser.c writes a value, string_deser.c reads one   *)
(* into a value that may hold something already (src/store).               *)
(*                                                                         *)
(* A text is a sequence of tokens, [form, x]: the marks and the words,     *)
(* whose characters are left out.  The memory is that of Values with the   *)
(* contents of the anonymous objects, <<>> for one that does not exist.    *)
(* All are of one type, and every reference may refer to any object.       *)
(***************************************************************************)
EXTENDS Values

CONSTANTS NamedObjects,  \* objects that have a path
          AnonymousType  \* the type of the others

Word(form, x) == <<[form |-> form, x |-> x]>>
Mark(form) == Word(form, 0)
IsEmpty(tok) == tok.form = "text" /\ tok.x = ""
Exists(o, m) == m.objects[o] # <<>>

(***************************************************************************)
(* string_ser.c, in its compact notation                                   *)
(***************************************************************************)
\* What is written so far, and the anonymous objects that have a number.
Written(w, tokens) == [w EXCEPT !.out = @ \o tokens]

\* corto_ll_hasObject
NumberOf(w, o) == Min({i \in DOMAIN w.numbered : w.numbered[i] = o})

\* What a walk visits inside a value: the elements of a collection, the case of a union or the
\* members of a struct (corto_walk_elements, corto_walk_members), those that are set only.
Parts(t, v) == CASE t.kind = "collection" /\ t.sub = "list" -> Unboxed(t.elem[1], v.v)
                 [] t.kind = "collection" /\ t.sub # "list" -> Elements(t, v)
                 [] t.kind = "composite" /\ t.sub = "union" -> <<v.v>>
                 [] OTHER -> v
PartMember(t, v, i) == CASE t.kind = "collection" -> Plain(t.elem[1])
                         [] t.kind = "composite" /\ t.sub = "union" -> t.members[FindCase(t, v.d)]
                         [] OTHER -> t.members[i]
Visited(t, v) == SelectSeq([i \in DOMAIN Parts(t, v) |-> i],
                           LAMBDA i : PartMember(t, v, i).optional => Parts(t, v)[i].b # 0)

RECURSIVE Write(_, _, _, _)
\* corto_ser_item and corto_ser_scope
WriteItem(mb, x, w, self) == Write(mb.type, IF mb.optional THEN x.v ELSE x, w, self)
WriteScope(t, v, w, self) ==
    LET union == t.kind = "composite" /\ t.sub = "union"
        opened == Written(w, Mark("{") \o (IF union THEN Word("number", v.d) ELSE <<>>))
        Separated(u) == IF Last(u.out).form = "{" THEN u ELSE Written(u, Mark(","))
        Item(u, i) == WriteItem(PartMember(t, v, i), Parts(t, v)[i], Separated(u), self)
    IN  Written(FoldLeft(Item, opened, Visited(t, v)), Mark("}"))

\* corto_ser_reference: an anonymous object is written where it is first met, and is <0> in
\* its own value.
NumbersFirst(w, o) == [w EXCEPT !.numbered = Append(@, o)]
WriteReference(o, w, self) ==
    CASE o = 0 -> Written(w, Word("null", 0))
      [] o \in NamedObjects -> Written(w, Word("path", o))
      [] o \notin NamedObjects \cup {0} ->
           IF o = self THEN Written(w, Word("id", 0))
           ELSE IF o \in ToSet(w.numbered) THEN Written(w, Word("id", NumberOf(w, o)))
           ELSE LET n == NumbersFirst(w, o)
                IN  Write([AnonymousType EXCEPT !.reference = FALSE], w.objects[o],
                          Written(n, Word("new", Len(n.numbered))), o)

\* corto_ser_primitive
WritePrimitive(t, v, w) ==
    Written(w, IF t.sub # "text" THEN Word("number", v) ELSE IF v.b = 0 THEN Word("null", 0) ELSE Word("text", v.v))

Write(t, v, w, self) ==
    CASE t.reference -> WriteReference(v, w, self)
      [] ~t.reference /\ t.kind = "primitive" -> WritePrimitive(t, v, w)
      [] ~t.reference /\ t.kind \in {"collection", "composite"} -> WriteScope(t, v, w, self)

\* corto_fmt_str_fromValue, _corto_ptr_str: the value is not that of an object.
TextOf(t, v, m) == Write(t, v, [out |-> <<>>, numbered |-> <<>>, objects |-> m.objects], 0).out

(***************************************************************************)
(* string_deser.c.  A reading has the text that is left, the memory, the   *)
(* numbered objects, and in v the value that was read last.                *)
(***************************************************************************)
Failed(q) == [q EXCEPT !.failed = TRUE, !.str = <<>>]
Rest(q) == [q EXCEPT !.str = Tail(@)]
Took(q, r) == [q EXCEPT !.v = r.v, !.m = r.m]

\* corto_string_deserParseValue.  What is read is not an object, so <0> means nothing.  The
\* copy of a text that is made before corto_set_str makes another is left out: nobody frees it.
ReadReference(d, tok, q) ==
    CASE tok.form = "null" -> Took(q, SetRef(d, 0, q.m))
      [] tok.form = "path" -> Took(q, SetRef(d, tok.x, q.m))
      [] tok.form = "id" /\ tok.x \in DOMAIN q.numbered -> Took(q, SetRef(d, q.numbered[tok.x], q.m))
      [] OTHER -> Failed(q)
ReadPrimitive(t, d, tok, q) ==
    CASE t.sub = "text" -> Took(q, SetText(d, IF tok.form = "null" THEN Null("") ELSE [b |-> 1, v |-> tok.x], q.m))
      [] t.sub # "text" /\ tok.form = "number" -> Took(q, Result(tok.x, q.m))
      [] OTHER -> Failed(q)
ReadWord(t, d, q) ==
    LET tok == Head(q.str)
    IN  CASE t.reference -> ReadReference(d, tok, Rest(q))
          [] ~t.reference /\ t.kind = "primitive" -> ReadPrimitive(t, d, tok, Rest(q))
          [] OTHER -> Took(Rest(q), Result(d, q.m))

\* What a scope reads into: the value, the member in turn, 0 for none, or the number of
\* elements passed, whether there was one too many, and the members that have been read.
Scope(d, turn) == [d |-> d, turn |-> turn, excess |-> FALSE, parsed |-> {}]
IsUnion(t) == t.kind = "composite" /\ t.sub = "union"
Index(t, d) == IF IsUnion(t) THEN {FindCase(t, d.d)} ELSE DOMAIN t.members
FirstOf(S) == IF S = {} THEN 0 ELSE Min(S)

\* corto_string_deserAllocElem: elements are zeroed, and a sequence is as long as the element
\* that was read last.
NewElement(t, l, q) ==
    LET e == t.elem[1]
        n == l.turn + 1
        grown == SubSeq(l.d.v, 1, l.turn) \o <<Zero(e)>>
        box == Alloc(Zero(e), q.m)
    IN  CASE t.sub = "array" -> IF n > t.max THEN Result(l.d, Fault(q.m)) ELSE Result(l.d, q.m)
          [] t.sub = "sequence" -> IF Len(l.d.v) < l.turn THEN Result(l.d, Fault(q.m))
                                   ELSE IF l.d.b = 0 THEN Alloc(grown, q.m) ELSE Result([l.d EXCEPT !.v = grown], q.m)
          [] t.sub = "list" -> IF RequiresAlloc(e) THEN Result([l.d EXCEPT !.v = Append(@, box.v)], box.m)
                               ELSE Result([l.d EXCEPT !.v = Append(@, Zero(e))], q.m)
Turn(t, l) == IF t.kind = "collection" /\ t.sub = "list" THEN Len(l.d.v) ELSE l.turn + 1

\* corto_string_getDestinationPtr: where the item goes.  The pointer of an optional member is
\* taken for the member.
Get(t, l) ==
    CASE t.kind = "collection" -> LET x == Elements(t, l.d)[Turn(t, l)]
                                  IN  IF t.sub = "list" /\ RequiresAlloc(t.elem[1]) THEN x.v ELSE x
      [] IsUnion(t) -> l.d.v
      [] OTHER -> l.d[l.turn]
Put(t, l, x) ==
    CASE t.kind = "collection" /\ t.sub = "array" -> [l EXCEPT !.d[Turn(t, l)] = x]
      [] t.kind = "collection" /\ t.sub = "sequence" -> [l EXCEPT !.d.v[Turn(t, l)] = x]
      [] t.kind = "collection" /\ t.sub = "list" ->
           IF RequiresAlloc(t.elem[1]) THEN [l EXCEPT !.d.v[Turn(t, l)].v = x] ELSE [l EXCEPT !.d.v[Turn(t, l)] = x]
      [] IsUnion(t) -> [l EXCEPT !.d.v = x]
      [] OTHER -> [l EXCEPT !.d[l.turn] = x]

RECURSIVE ReadScope(_, _, _), ReadItems(_, _, _)
\* corto_string_parseAnonymous: an object that is there already is read into; one gets its
\* number when it has been read.
NewObject(m) == CHOOSE o \in DOMAIN m.objects \ NamedObjects : ~Exists(o, m)
Forgets(q, o) == q \* mutant: an object that was read has no number
Numbers(q, o) == [q EXCEPT !.numbered = Append(@, o)]
Contents == [AnonymousType EXCEPT !.reference = FALSE]
Claimed(o, q) == [q EXCEPT !.m.refs[o] = @ + 1, !.m.objects[o] = IF Exists(o, q.m) THEN @ ELSE Zero(Contents)]
ReadObject(o, q) == ReadScope(Contents, q.m.objects[o], Rest(q))
Referred(d, o, m) == Then(SetRef(d, o, m), LAMBDA x, k : Result(x, Count(o, -1, k)))
PutObject(d, o, q) == IF q.failed THEN q ELSE Took(Numbers(q, o), Referred(d, o, [q.m EXCEPT !.objects[o] = q.v]))
ReadAnonymous(d, q) ==
    IF Head(q.str).x \in DOMAIN q.numbered THEN Failed(q)
    ELSE LET o == IF d \in NamedObjects \cup {0} THEN NewObject(q.m) ELSE d
         IN  PutObject(d, o, ReadObject(o, Claimed(o, q)))

\* An item: a word, a scope or an anonymous object.
ReadItem(t, d, q) ==
    CASE Head(q.str).form = "{" -> IF t.kind \in {"composite", "collection"} /\ ~t.reference THEN ReadScope(t, d, q) ELSE Failed(q)
      [] Head(q.str).form = "new" -> IF t.reference THEN ReadAnonymous(d, q) ELSE Failed(q)
      [] OTHER -> ReadWord(t, d, q)
IsWord(q) == Head(q.str).form \notin {"{", "new"}
ItemMember(t, l) == IF t.kind = "collection" THEN Plain(t.elem[1]) ELSE t.members[l.turn]
Placed(t, l, q) == IF t.kind = "collection" THEN NewElement(t, l, q) ELSE Result(l.d, q.m)
Parsed(l, q) == IF IsWord(q) THEN [l EXCEPT !.parsed = @ \cup {l.turn}] ELSE l
PutRead(t, l, q) == ReadItems(t, IF q.failed THEN l ELSE Put(t, l, q.v), q)
ReadInto(t, l, q) == PutRead(t, Parsed(l, q), ReadItem(ItemMember(t, l).type, Get(t, l), q))
PutItem(t, l, q) ==
    CASE t.kind # "collection" /\ IsWord(q) /\ l.turn \in l.parsed -> Failed(q)
      [] ItemMember(t, l).optional -> Failed([q EXCEPT !.m = Fault(@)])
      [] OTHER -> Then(Placed(t, l, q),
                       LAMBDA d, m : IF m.fault THEN Failed([q EXCEPT !.m = m])
                                     ELSE ReadInto(t, [l EXCEPT !.d = d], [q EXCEPT !.m = m]))

\* corto_string_deserParse: between braces.  A text without characters is not an item.
Passed(t, l) ==
    IF t.kind = "collection" THEN [l EXCEPT !.turn = @ + 1]
    ELSE LET next == FirstOf({i \in Index(t, l.d) : i > l.turn})
         IN  [l EXCEPT !.turn = next, !.excess = next = 0]
ReadItems(t, l, q) ==
    IF q.str = <<>> THEN [q EXCEPT !.v = l.d]
    ELSE LET tok == Head(q.str)
         IN  CASE tok.form = "}" -> IF l.excess THEN Failed(q) ELSE [Rest(q) EXCEPT !.v = l.d]
               [] tok.form = "," -> IF l.excess THEN Failed(q) ELSE ReadItems(t, Passed(t, l), Rest(q))
               [] tok.form = "member" -> IF tok.x \in Index(t, l.d) \ l.parsed
                                         THEN ReadItems(t, [l EXCEPT !.turn = tok.x, !.excess = FALSE], Rest(q))
                                         ELSE Failed(q)
               [] IsEmpty(tok) -> ReadItems(t, l, Rest(q))
               [] OTHER -> IF l.excess THEN Failed(q) ELSE PutItem(t, l, q)

\* corto_string_deserParseScope.  The cases of a union share their memory, and the character
\* after the comma that follows the discriminator is passed over.
Cut(str) == IF str = <<>> THEN str
            ELSE IF Head(str).form \in {"{", "}", "number"} THEN Tail(str) ELSE Word("cut", "cut") \o Tail(str)
ReadUnion(t, d, q) ==
    LET case == Head(q.str).x
        bytes == Reinterpreted(d.v, t.members[FindCase(t, d.d)].type, t.members[FindCase(t, case)].type)
        into == [d |-> case, v |-> bytes]
    IN  IF Head(q.str).form # "number" \/ FindCase(t, case) = 0 THEN Failed(q)
        ELSE ReadItems(t, Scope(into, FindCase(t, case)), [q EXCEPT !.str = Cut(SubSeq(@, 3, Len(@)))])
\* A list is made when there is none, and its elements are forgotten.
Opened(t, d, m) ==
    IF t.kind = "collection" /\ t.sub = "list"
    THEN (IF d.b = 0 THEN Alloc(<<>>, m) ELSE Result([d EXCEPT !.v = <<>>], m)) ELSE Result(d, m)
FirstTurn(t, d) == IF t.kind = "collection" THEN 0 ELSE FirstOf(Index(t, d))
ReadScope(t, d, q) ==
    IF IsUnion(t) THEN ReadUnion(t, d, Rest(q))
    ELSE Then(Opened(t, d, q.m), LAMBDA x, m : ReadItems(t, Scope(x, FirstTurn(t, d)), [Rest(q) EXCEPT !.m = m]))

\* corto_string_deser, corto_fmt_str_toValue: a text of one word, or a scope.
ReadText(t, d, str, m) ==
    LET q == [str |-> str, m |-> m, numbered |-> <<>>, failed |-> FALSE, v |-> d]
    IN  IF IsEmpty(Head(str)) THEN Rest(q) ELSE ReadItem(t, d, q)

(***************************************************************************)
(* What is kept                                                            *)
(***************************************************************************)
\* The contents with those of the anonymous objects in the place of their references.
RECURSIVE Deep(_, _, _)
DeepMember(mb, v, m) == IF ~mb.optional THEN <<Deep(mb.type, v, m)>> ELSE IF v.b = 0 THEN <<>> ELSE <<Deep(mb.type, v.v, m)>>
Deep(t, v, m) ==
    CASE t.reference -> IF v \in NamedObjects \cup {0} THEN [o |-> v, new |-> <<>>]
                        ELSE [o |-> -1, new |-> Deep([AnonymousType EXCEPT !.reference = FALSE], m.objects[v], m)]
      [] ~t.reference /\ t.kind \in {"primitive"} -> Content(t, v)
      [] ~t.reference /\ t.kind \in {"collection", "composite"} ->
           [i \in DOMAIN Parts(t, v) |-> DeepMember(PartMember(t, v, i), Parts(t, v)[i], m)]
=============================================================================
