----------------------------- MODULE Primitives -----------------------------
(***************************************************************************)
(* Values of primitive types: which types can be cast to which (src/lang,  *)
(* primitive.c), the conversions (convert.c), the operators (operator.c)   *)
(* and the type that an expression is evaluated in (value.c, src/store).   *)
(*                                                                         *)
(* A type is [kind, width], a value the word that is in memory.  A text is *)
(* [form, n]: how a number is written, and which.  Floats are whole.       *)
(***************************************************************************)
EXTENDS Integers, FiniteSets
LOCAL INSTANCE Bitwise

CONSTANTS Bits,      \* bound: the number of bits of the widths 8, 16, 32, 64 and word
          Constants  \* the values of the constants of the enumeration and the bitmask

Widths == 0..4
W8 == 0 W16 == 1 W32 == 2 W64 == 3 Word == 4
P(kind, width) == [kind |-> kind, width |-> width]
Text == P("text", Word)
Boolean == P("boolean", W8)
Enum == P("enum", W32)
Bitmask == P("bitmask", W32)
Of(kind, widths) == {P(kind, w) : w \in widths}
Integral == Of("binary", Widths) \cup Of("integer", Widths) \cup Of("uinteger", Widths) \cup {P("character", W8)}
Floats == Of("float", {W32, W64})
Primitive == Integral \cup Floats \cup {Boolean, Enum, Bitmask, Text}

\* corto__primitive_convertId: the place in the tables of conversions and operators.
ConvertId(t) == CASE t.kind = "binary" -> t.width
                  [] t.kind = "boolean" -> 5
                  [] t.kind = "character" -> 6 + t.width
                  [] t.kind = "integer" -> 8 + t.width
                  [] t.kind = "uinteger" -> 14 + t.width
                  [] t.kind = "float" -> 20 + t.width - 2
                  [] t.kind = "text" -> 22
                  [] t.kind = "enum" -> 23
                  [] t.kind = "bitmask" -> 24

(***************************************************************************)
(* Which primitive types are compatible and castable                       *)
(***************************************************************************)
Discrete == {"binary", "character", "enum", "bitmask"}
Counting == {"boolean", "integer", "uinteger", "float"}
CompatibleKinds(k, from) ==
    \/ k = from
    \/ /\ {k, from} \subseteq Discrete \cup Counting
       /\ ~(k \in Discrete /\ from = "float") /\ ~(k = "float" /\ from \in Discrete)
CastKinds == [boolean   |-> {"binary", "integer", "uinteger", "float", "text", "enum", "bitmask"},
              binary    |-> {"boolean", "integer", "uinteger", "float", "text", "enum", "bitmask"},
              character |-> {"binary", "integer", "uinteger", "text"},
              integer   |-> {"enum", "binary", "boolean", "character", "uinteger", "float", "text", "bitmask"},
              uinteger  |-> {"binary", "boolean", "character", "integer", "float", "text", "bitmask"},
              float     |-> {"binary", "integer", "uinteger", "text"},
              bitmask   |-> {"boolean", "integer", "uinteger", "text"},
              enum      |-> {"integer", "uinteger", "text"},
              text      |-> {"binary", "boolean", "character", "integer", "uinteger", "float", "enum"}]
CastableKinds(k, from) == CompatibleKinds(k, from) \/ from \in CastKinds[k]

(***************************************************************************)
(* Words and numbers                                                       *)
(***************************************************************************)
Size(t) == Bits[t.width + 1]
Wrap(n, t) == n % 2^Size(t)
Signed(raw, t) == IF raw >= 2^(Size(t) - 1) THEN raw - 2^Size(t) ELSE raw

\* The number that the type gives to a word.
Number(t, raw) == IF t.kind \in {"integer", "character", "enum"} THEN Signed(raw, t) ELSE raw
Words(t) == CASE t.kind = "boolean" -> {0, 1}
              [] t \in Floats -> -4..4
              [] t = Enum -> Constants
              [] t = Bitmask -> {x | y : x, y \in Constants}
              [] OTHER -> 0..(2^Size(t) - 1)
Holds(t, n) == \E raw \in Words(t) : Number(t, raw) = n

(***************************************************************************)
(* Conversions                                                             *)
(***************************************************************************)
\* The C type that a conversion reads its source as: a 16 bit binary is read as int16.
ReadsSigned(t) == t.kind \in {"integer", "character", "enum"} \/ t = P("binary", W16)
NeverSigned(t) == FALSE \* mutant: sources are read as unsigned
SignedSource(t) == ReadsSigned(t)
Source(t, raw) == IF SignedSource(t) THEN Signed(raw, t) ELSE raw

\* corto_ptr_castInit: the slots of the table that are filled.
Numeric == Integral \cup Floats \cup {Boolean}
Readable == {Boolean, Enum, Bitmask, Text, P("binary", W8), P("binary", Word), P("character", W8)} \cup Floats
            \cup Of("integer", W8..W64) \cup Of("uinteger", W8..W64)
Named == {Enum, Bitmask}
NamedWith == {P("integer", W32), P("integer", W64), P("uinteger", W64)}
Converts(from, to) ==
    \/ from \in Numeric /\ to \in Numeric
    \/ to = Text
    \/ from = Text /\ to \in Readable
    \/ from \in Named /\ to \in NamedWith
    \/ to \in Named /\ from \in NamedWith
    \/ from = Bitmask /\ to = Boolean

Written(form, n) == [form |-> form, n |-> n]
Failed == [failed |-> TRUE]
Done(v) == [failed |-> FALSE, v |-> v]

\* corto_enum_constant_from_value, corto_enum_constant_from_id
HasConstant(raw) == raw \in Constants
ConstantNamed(ids) == CHOOSE c \in Constants : c \in ids

\* corto_bitmask_string_convert: the constants that are in the value, or "0".
Names(raw) == {c \in Constants : (c & raw = c /\ c # 0) \/ (c | raw) = 0}
ToText(t, raw) ==
    CASE t = Enum -> IF HasConstant(raw) THEN Done(Written("name", {raw})) ELSE Failed
      [] t = Bitmask -> Done(IF Names(raw) = {} THEN Written("decimal", 0) ELSE Written("name", Names(raw)))
      [] t = Boolean -> Done(Written("boolean", raw))
      [] t.kind = "binary" -> Done(Written("hex", raw))
      [] t.kind = "character" -> Done(Written("char", raw))
      [] OTHER -> Done(Written("decimal", IF t \in Floats THEN raw ELSE Source(t, raw)))

\* atol, atof, sscanf and strtol: a text in another form has no digits, strtol ends at its
\* largest number, and the name of a constant is looked for in the type.
RECURSIVE Union(_)
Union(cs) == IF cs = {} THEN 0 ELSE LET c == CHOOSE c \in cs : TRUE IN c | Union(cs \ {c})
Least(m, n) == IF m < n THEN m ELSE n
FromText(t, s) ==
    CASE t = Enum -> IF s.form = "name" /\ Cardinality(s.n) = 1 THEN Done(ConstantNamed(s.n)) ELSE Failed
      [] t = Bitmask -> IF s.form = "name" THEN Done(Union(s.n)) ELSE Failed
      [] t = Boolean -> IF s.form = "boolean" THEN Done(s.n) ELSE Failed
      [] t.kind = "binary" -> Done(IF s.form = "hex" THEN Wrap(Least(s.n, 2^(Bits[W64 + 1] - 1) - 1), t) ELSE 0)
      [] t.kind = "character" -> Done(IF s.form = "char" THEN s.n ELSE 0)
      [] OTHER -> Done(IF s.form # "decimal" THEN 0 ELSE IF t \in Floats THEN s.n ELSE Wrap(s.n, t))

ConvertNumber(from, raw, to) ==
    LET n == Source(from, raw)
    IN  IF to = Boolean THEN (IF n # 0 THEN 1 ELSE 0) ELSE IF to \in Floats THEN n ELSE Wrap(n, to)

\* corto_ptr_cast
Cast(from, raw, to) ==
    CASE ~Converts(from, to) -> Failed
      [] from = Text /\ to = Text -> Done(raw)
      [] from # Text /\ to = Text -> ToText(from, raw)
      [] from = Text /\ to # Text -> FromText(to, raw)
      [] OTHER -> Done(ConvertNumber(from, raw, to))

(***************************************************************************)
(* Operators                                                               *)
(***************************************************************************)
Conditional == {"eq", "neq", "lt", "gt", "lteq", "gteq"}
Wordwise == {"or", "and", "xor"}
Assigning == {"assign", "assign_add"}

\* corto_ptr_operatorInit: the slots of the table of binary operators that are filled.
Calculates == Of("integer", W8..W64) \cup Of("uinteger", W8..W64) \cup {P("binary", W8), P("binary", Word), Enum, Bitmask}
Implemented(t, op) == \/ t \in Calculates
                      \/ t \in Floats /\ op \notin Wordwise
                      \/ t = Boolean /\ op \in {"eq", "neq", "assign"}
                      \/ t = Text /\ op \in {"eq", "neq", "assign", "add"}

Truth(b) == IF b THEN 1 ELSE 0
\* Enumerations and bitmasks are calculated with as int32.
Operand(t, raw) == IF t = Bitmask THEN Signed(raw, t) ELSE Number(t, raw)
Fit(n, t) == IF t \in Floats THEN n ELSE Wrap(n, t)
Apply(t, op, x, y) ==
    LET a == Operand(t, x)  b == Operand(t, y)
    IN  CASE op = "eq" -> Truth(x = y)
          [] op = "neq" -> Truth(x # y)
          [] op = "lt" -> Truth(a < b)
          [] op = "gt" -> Truth(a > b)
          [] op = "lteq" -> Truth(a <= b)
          [] op = "gteq" -> Truth(a >= b)
          [] op \in {"add", "assign_add"} -> Fit(a + b, t)
          [] op = "sub" -> Fit(a - b, t)
          [] op = "mul" -> Fit(a * b, t)
          [] op = "or" -> x | y
          [] op = "and" -> x & y
          [] op = "xor" -> x ^^ y
          [] op = "assign" -> y

(***************************************************************************)
(* The type of an expression                                               *)
(***************************************************************************)
\* corto_valueExpr_getTypeScore, corto_valueExpr_getCastScore
TypeScore(t) == CASE t \in Named -> 1 [] t.kind = "character" -> 3 [] t.kind = "float" -> 4 [] t = Text -> 5 [] OTHER -> 2
CastScore(t) == CASE t \in Named -> 1 [] t.kind = "float" -> 3 [] t = Text -> 4 [] OTHER -> 2

\* corto_valueExpr_getTypeForBinary.  When the widths are the same it finds the type with the
\* higher score, and then takes that of the left operand all the same.
Wider(l, r) == IF l.width > r.width THEN l ELSE r
OperandType(l, r, op) ==
    CASE l = r \/ op \in Assigning -> l
      [] l # r /\ op \notin Assigning /\ CastScore(l) = CastScore(r) -> IF l.width = r.width THEN l ELSE Wider(l, r)
      [] OTHER -> IF TypeScore(l) > TypeScore(r) THEN l ELSE r
ResultType(l, r, op) == IF op \in Conditional THEN Boolean ELSE OperandType(l, r, op)

\* corto_value_binaryOp: no types when the operands cannot be cast.
Evaluate(l, x, r, y, op) ==
    LET t == OperandType(l, r, op)
        a == IF l = t THEN Done(x) ELSE Cast(l, x, t)
        b == IF r = t THEN Done(y) ELSE Cast(r, y, t)
    IN  IF a.failed \/ b.failed \/ ~Implemented(t, op) \/ (t = Text /\ op \notin {"eq", "neq", "assign"}) THEN Failed
        ELSE Done(Apply(t, op, a.v, b.v))
=============================================================================
