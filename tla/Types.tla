------------------------------- MODULE Types -------------------------------
(***************************************************************************)
(* What the constructors of types compute: sizes, alignments and offsets,  *)
(* the flags that tell whether a value has to be initialized or freed, and *)
(* the cache of fields that corto_free reads (src/lang, typecache.c).      *)
(* A type is a record; a composite type has its inherited members first.   *)
(***************************************************************************)
EXTENDS Integers, Sequences, FiniteSets, SequencesExt, FiniteSetsExt

Ptr == 8 \* the size and the alignment of a pointer
Align(n, a) == ((n + a - 1) \div a) * a

Blank(kind, sub) == [kind |-> kind, sub |-> sub, reference |-> FALSE, size |-> 0, alignment |-> 0,
                     flags |-> {}, members |-> <<>>, offsets |-> <<>>, elem |-> <<>>, max |-> 0,
                     fields |-> <<>>, cut |-> FALSE]

\* A member, and for a case of a union its discriminators, {} for the default.
Plain(t) == [type |-> t, optional |-> FALSE, observable |-> FALSE, notNull |-> FALSE, default |-> FALSE, when |-> {}]

\* corto_type_sizeof, corto_type_alignmentof
SizeOf(t) == IF t.reference THEN Ptr ELSE t.size
AlignOf(t) == IF t.reference THEN Ptr ELSE t.alignment

(***************************************************************************)
(* The cache of fields (typecache.c)                                       *)
(***************************************************************************)
\* corto_collection_requiresAlloc: the elements of a list are behind a pointer.
RequiresAlloc(t) == ~t.reference /\ CASE t.kind = "primitive" -> t.sub = "wide"
                                      [] t.kind = "collection" -> t.sub \in {"array", "sequence"}
                                      [] OTHER -> TRUE

\* corto_typecache_get_subkind
SubKind(t, list) == IF t.sub = "text" THEN "STRING"
                    ELSE IF t.reference THEN "REFERENCE"
                    ELSE IF "resources" \in t.flags THEN "RESOURCE"
                    ELSE IF list /\ RequiresAlloc(t) THEN "ALLOC"
                    ELSE IF t.kind = "primitive" THEN "SIMPLE_PTR" ELSE "COMPLEX"

Field(path, kind, sub, t) == [path |-> path, kind |-> kind, sub |-> sub, type |-> t]

\* corto_typecache_type: the fields of a struct are those of its members.
TypeFields(path, t) ==
    IF t.reference THEN <<Field(path, "reference", "", t)>>
    ELSE IF t.kind = "collection" THEN <<Field(path, t.sub, SubKind(t.elem[1], t.sub = "list"), t)>>
    ELSE IF t.kind = "composite" /\ t.sub # "union"
    THEN <<Field(path, "struct", "", t)>> \o [i \in DOMAIN t.fields |-> [t.fields[i] EXCEPT !.path = path \o @]]
    ELSE <<Field(path, t.sub, "", t)>>

\* corto_typecache_member returns 1 for an iterator, and the walk over members ends there.
EndsWalk(m) == m.type.kind = "iterator"
MemberFields(i, m) ==
    IF m.optional THEN <<Field(<<i>>, "optional", SubKind(m.type, FALSE), m.type)>>
    ELSE IF m.observable THEN <<Field(<<i>>, "inline", "", m.type)>>
    ELSE TypeFields(<<i>>, m.type)
Walked(ms) ==
    FoldLeft(LAMBDA acc, i : IF acc.cut \/ EndsWalk(ms[i]) THEN [acc EXCEPT !.cut = TRUE]
                             ELSE [acc EXCEPT !.fields = @ \o MemberFields(i, ms[i])],
             [fields |-> <<>>, cut |-> FALSE], [i \in DOMAIN ms |-> i])

\* corto_typecache_create
Cached(t) == IF t.kind = "composite" /\ t.sub # "union"
             THEN LET w == Walked(t.members) IN [t EXCEPT !.fields = w.fields, !.cut = w.cut]
             ELSE IF t.kind \in {"iterator", "void"} \/ t.reference THEN t
             ELSE [t EXCEPT !.fields = TypeFields(<<>>, t)]

(***************************************************************************)
(* Constructors                                                            *)
(***************************************************************************)
Primitive(sub, size) == Cached([Blank("primitive", sub) EXCEPT !.size = size, !.alignment = size,
                                !.flags = IF sub = "text" THEN {"resources"} ELSE {}])
ObjectRef == [Blank("void", "void") EXCEPT !.reference = TRUE, !.size = Ptr, !.alignment = Ptr, !.flags = {"resources"}]
Iterator == [Blank("iterator", "iterator") EXCEPT !.size = 7 * Ptr, !.alignment = Ptr]

ElementReferences(e) == IF "references" \in e.flags \/ e.reference THEN {"references"} ELSE {}
Array(e, max) == Cached([Blank("collection", "array") EXCEPT !.elem = <<e>>, !.max = max,
                         !.size = SizeOf(e) * max, !.alignment = AlignOf(e),
                         !.flags = (e.flags \cap {"resources", "init"}) \cup ElementReferences(e)])
Sequence(e) == Cached([Blank("collection", "sequence") EXCEPT !.elem = <<e>>, !.size = 2 * Ptr, !.alignment = Ptr,
                       !.flags = {"resources"} \cup ElementReferences(e)])
List(e) == Cached([Blank("collection", "list") EXCEPT !.elem = <<e>>, !.size = Ptr, !.alignment = Ptr,
                   !.flags = {"resources", "init"} \cup ElementReferences(e)])

\* corto_interface_insertMemberAction
MemberFlags(m) ==
    (IF "resources" \in m.type.flags \/ m.type.reference THEN {"resources"} ELSE {})
    \cup ElementReferences(m.type)
    \cup IF \/ ~m.type.reference /\ "init" \in m.type.flags /\ (m.notNull \/ m.type.kind = "composite")
            \/ m.default \/ m.observable
         THEN {"init"} ELSE {}
Flags(ms) == UNION {MemberFlags(ms[i]) : i \in DOMAIN ms}

\* corto__interface_calculateAlignment, corto__interface_calculateSize: optional and
\* observable members are pointers, which are placed where a value of the type would be.
IsPointer(m) == m.optional \/ m.observable
Stored(m) == IF IsPointer(m) THEN Ptr ELSE SizeOf(m.type)
StoredAlign(m) == IF IsPointer(m) THEN Ptr ELSE AlignOf(m.type)
Alignment(ms) == Max({1} \cup {StoredAlign(ms[i]) : i \in DOMAIN ms})
PlaceOf(size, m) == Align(size, AlignOf(m.type))
Layout(ms, base) ==
    FoldLeft(LAMBDA acc, m : [size |-> PlaceOf(acc.size, m) + Stored(m),
                              offsets |-> Append(acc.offsets, PlaceOf(acc.size, m))],
             [size |-> base, offsets |-> <<>>], ms)

\* corto_struct_construct, with the base as a sequence of at most one type
Composite(sub, base, ms, reference) ==
    LET inherited == IF base = <<>> THEN Blank("composite", sub) ELSE base[1]
        alignment == Max({inherited.alignment, Alignment(ms)})
        placed == Layout(ms, inherited.size)
    IN  Cached([Blank("composite", sub) EXCEPT
                 !.reference = reference, !.members = inherited.members \o ms,
                 !.offsets = inherited.offsets \o placed.offsets,
                 !.alignment = alignment, !.size = Align(placed.size, alignment),
                 !.flags = Flags(ms) \cup (inherited.flags \cap {"resources", "references", "init"})])
Struct(base, ms) == Composite("struct", base, ms, FALSE)
Class(base, ms) == Composite("class", base, ms, TRUE)

\* corto_union_construct: a discriminator of four bytes, and the cases
Discriminator == 4
UnionSize(ms) == Align(Max({SizeOf(ms[i].type) : i \in DOMAIN ms}) + Discriminator, Alignment(ms))
Union(ms) == Cached([Blank("composite", "union") EXCEPT
                     !.members = ms, !.alignment = Alignment(ms), !.size = UnionSize(ms),
                     !.offsets = [i \in DOMAIN ms |-> Align(Discriminator, Alignment(ms))], !.flags = Flags(ms)])

\* corto_union_findCase: the first case with the discriminator, or the last default, or 0.
FindCase(t, d) ==
    LET matches == {i \in DOMAIN t.members : d \in t.members[i].when}
        defaults == {i \in DOMAIN t.members : t.members[i].when = {}}
    IN  IF matches # {} THEN Min(matches) ELSE IF defaults # {} THEN Max(defaults) ELSE 0

(***************************************************************************)
(* Which types may be copied to which                                      *)
(***************************************************************************)
\* corto_type_compatible, corto_struct_compatible, corto_collection_castable, corto_primitive_castable
RECURSIVE CollectionCastable(_, _)
CollectionCastable(t, from) ==
    /\ from.kind = "collection"
    /\ t.sub = "array" => from.sub = "array" /\ t.max = from.max
    /\ \/ t.elem = from.elem
       \/ t.elem[1].kind = "collection" /\ CollectionCastable(t.elem[1], from.elem[1])
Inherits(t, from) == /\ from.kind = "composite" /\ from.sub # "union"
                     /\ Len(t.members) <= Len(from.members) /\ SubSeq(from.members, 1, Len(t.members)) = t.members
Castable(t, from) ==
    \/ t = from \/ t.kind = "any"
    \/ t.kind = "void" /\ t.reference /\ from.reference
    \/ t.kind = "composite" /\ t.sub # "union" /\ Inherits(t, from)
    \/ t.kind = "collection" /\ CollectionCastable(t, from)

(***************************************************************************)
(* What the constructors promise                                           *)
(***************************************************************************)
\* The places of a value that a member takes.
Bytes(t, i) == t.offsets[i] .. (t.offsets[i] + Stored(t.members[i]) - 1)

\* Every member is within the value and at an address its type can be at, and members of a
\* struct, inherited ones included, do not overlap.
LayoutIsSound(t) ==
    \A i \in DOMAIN t.members :
        /\ Bytes(t, i) \subseteq 0 .. (t.size - 1)
        /\ t.offsets[i] % StoredAlign(t.members[i]) = 0
        /\ t.alignment % StoredAlign(t.members[i]) = 0 /\ t.size % t.alignment = 0
        /\ t.sub # "union" => \A j \in DOMAIN t.members \ {i} : Bytes(t, i) \cap Bytes(t, j) = {}
        /\ t.sub = "union" => t.offsets[i] >= Discriminator
=============================================================================
