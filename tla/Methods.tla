------------------------------- MODULE Methods -------------------------------
(***************************************************************************)
(* Procedures: the overloading of signatures (src/store, object.c), the    *)
(* tables of methods, interfaces and delegates that classes are built with *)
(* (src/lang, interface.c, class.c, delegate.c, function.c) and the slots  *)
(* of a call (invoke.c, cdeclhandler.c).                                   *)
(*                                                                         *)
(* An application declares the methods of a class and defines it, one      *)
(* class after the other.  A signature is a name and arguments, each with  *)
(* its type; the order of the methods in a scope is that of their names,   *)
(* and is taken to be any.                                                 *)
(***************************************************************************)
EXTENDS Integers, Sequences, FiniteSets, FiniteSetsExt, SequencesExt

CONSTANTS
    Classes,     \* the classes and interfaces, in the order in which they are defined
    Base,        \* Base[c]: the class that c inherits from, or None
    Implements,  \* Implements[c]: the interfaces of c, a sequence
    Catalog,     \* the methods that may be declared: [owner, name, args, kind, ret, stub]
    Functions,   \* the functions that may be declared in a package, whose owner is None
    MaxMethods,  \* bound: methods declared in one class
    MaxFunctions, \* bound: functions declared
    None

Class == ToSet(Classes)
Interface == {c \in Class : \E d \in Class : c \in ToSet(Implements[d])}

VARIABLES state,       \* of a class: "declared", "constructing", "valid", "failed"
          scope,       \* the methods declared in the class
          pending,     \* those that are not yet bound
          vtable,      \* corto_interface.methods
          vector,      \* vector[c][i]: corto_class.interfaceVector, for the i-th interface of c
          delegate,    \* the procedure of its constructor, a delegate
          overloaded,  \* corto_function.overloaded
          index,       \* corto_method.index
          package,     \* the functions of a package, in the order of their names
          aborted      \* an assertion has failed
vars == <<state, scope, pending, vtable, vector, delegate, overloaded, index, package, aborted>>

(***************************************************************************)
(* Types of parameters                                                     *)
(***************************************************************************)
Integers32And64 == {"int32", "int64"}
Primitives == Integers32And64 \cup {"text", "boolean"}
Reference(t) == t \in Class \cup {"object"}
Valid(t) == t \in Class => state[t] = "valid"

RECURSIVE Line(_)
Line(c) == IF c = None THEN <<>> ELSE <<c>> \o Line(Base[c])
Inherits(c, from) == from \in ToSet(Line(c))
Levels(c, from) == CHOOSE i \in 0..Len(Line(c)) - 1 : Line(c)[i + 1] = from

\* corto_primitive_compatible_v, and corto_primitive_castable_v
PrimitiveCompatible(t, from) == {t, from} \subseteq Integers32And64 \cup {"boolean"} \/ t = from
PrimitiveCastable(t, from) == PrimitiveCompatible(t, from) \/ (t # from /\ "text" \in {t, from})

TypeCompatible(t, from) == t = from \/ t = "any" \/ (t = "object" /\ Reference(from))
CompatibleType(t, from) ==
    \/ t \in Primitives /\ from \in Primitives /\ PrimitiveCompatible(t, from)
    \/ t \notin Primitives /\ TypeCompatible(t, from)
    \/ t \in Class /\ from \in Class /\ (Inherits(from, t) \/ t \in ToSet(Implements[from]))
CastableType(t, from) ==
    \/ CompatibleType(t, from)
    \/ t \in Primitives /\ from \in Primitives /\ PrimitiveCastable(t, from)

(***************************************************************************)
(* Overloading                                                             *)
(***************************************************************************)
Infinity == 1000
NoMatch == -2
NoMatchOverload == -3
Mismatch == -1

\* corto_overloadParamCompare, of an offered parameter and a requested argument.
ParamDistance(p, a) ==
    LET o == p.type
        r == a.type
        null == r = "null"
        oRef == p.ref \/ Reference(o)
        rRef == a.ref \/ Reference(r)
        rForce == a.force \/ Reference(r)
        d == IF oRef THEN (IF rForce \/ null THEN 0 ELSE 1) ELSE (IF rRef THEN 1 ELSE 0)
    IN  IF r = "?" THEN 0
        ELSE IF oRef /\ ~rRef /\ ~null THEN Mismatch
        ELSE IF o = "any" \/ r = "any" THEN d
        ELSE IF null THEN (IF o = "boolean" THEN d + 1 ELSE IF oRef \/ o = "text" THEN d ELSE Mismatch)
        ELSE IF o = r THEN d
        ELSE IF ~Valid(o) \/ ~Valid(r) THEN Mismatch
        ELSE IF o \in Class /\ r \in Class THEN (IF Inherits(r, o) THEN d + Levels(r, o) ELSE Mismatch)
        ELSE IF o = "object" THEN (IF r \in Class THEN d + Len(Line(r)) ELSE d + 1)
        ELSE IF rForce /\ ~CompatibleType(o, "object") THEN d + 1
        ELSE IF ~CompatibleType(o, r) THEN Mismatch
        ELSE IF {o, r} \subseteq Integers32And64 THEN d ELSE d + 1

\* corto_overload: how far the method is from the request.
Distance(m, q) ==
    LET D == [i \in DOMAIN m.args |-> IF m.args[i] = q.args[i] THEN 0 ELSE ParamDistance(m.args[i], q.args[i])]
    IN  CASE m.name # q.name -> NoMatch
          [] m.name = q.name /\ Len(q.args) # Len(m.args) -> NoMatchOverload
          [] m.name = q.name /\ Len(q.args) = Len(m.args) ->
               IF \E i \in DOMAIN D : D[i] = Mismatch THEN NoMatchOverload ELSE FoldFunction(+, 0, D)

\* corto_lookup_functionWalk, and its start and end, corto_lookup_functionFromSequence.  "old" is
\* what d was when a method as near or nearer was met: in the end it is d when two are as near.
NoTie(d, best) == d < best \* mutant: the second of two methods that are as near is not noticed
Tie(d, best) == d <= best
Consider(q, s, m, i, d) ==
    LET best == IF s.d = NoMatchOverload THEN Infinity ELSE s.d
    IN  CASE s.stop \/ d = NoMatch -> s
          [] ~s.stop /\ d # NoMatch /\ ~q.parens ->
               IF m \in overloaded THEN [s EXCEPT !.error = TRUE, !.stop = TRUE]
               ELSE [s EXCEPT !.d = 0, !.at = i, !.stop = TRUE]
          [] ~s.stop /\ q.parens /\ d >= 0 ->
               [s EXCEPT !.old = IF Tie(d, best) THEN s.d ELSE @,
                         !.at  = IF d < best THEN i ELSE @,
                         !.d   = IF d < best THEN d ELSE @]
          [] ~s.stop /\ q.parens /\ d = NoMatchOverload ->
               IF s.at = 0 THEN [s EXCEPT !.at = i, !.d = d] ELSE s
Walk(q, s, m, i) == Consider(q, s, m, i, Distance(m, q))
NotYet == [at |-> 0, d |-> Infinity, old |-> Infinity, error |-> FALSE, stop |-> FALSE]
Outcome(s) == LET ambiguous == s.error \/ (s.d # Infinity /\ s.d = s.old)
              IN  [at |-> IF ambiguous THEN 0 ELSE s.at, d |-> s.d]
Lookup(table, q) == Outcome(FoldLeftDomain(LAMBDA s, i : Walk(q, s, table[i], i), NotYet, table))

Answer(table, f) == IF f.at # 0 /\ f.d >= 0 THEN table[f.at] ELSE None
Resolve(table, q) == Answer(table, Lookup(table, q))

(***************************************************************************)
(* The slots of a call                                                     *)
(***************************************************************************)
SlotOf == [int32 |-> 4, int64 |-> 8, text |-> 8, boolean |-> 1]
SequenceSlot == 16
AnySlot == 24
PassedByValue(t) == IF t \in Primitives THEN SlotOf[t] ELSE IF t = "any" THEN AnySlot ELSE IF t = "sequence" THEN SequenceSlot ELSE 8
\* corto_function_construct, corto_cdeclInit, and CORTO_CALLV, which does not look at p.ref
SizeOf(m) == FoldLeft(LAMBDA n, p : n + (IF p.ref THEN 8 ELSE PassedByValue(p.type)), 8, m.args)
FfiTypes(m) == <<8>> \o [i \in DOMAIN m.args |-> LET p == m.args[i]
                                                 IN  IF p.ref THEN 8
                                                     ELSE CASE p.type \in Primitives -> SlotOf[p.type]
                                                            [] p.type = "any" -> 24
                                                            [] p.type = "sequence" -> 16
                                                            [] OTHER -> 8]
Copied(m) == <<8>> \o [i \in DOMAIN m.args |-> LET t == m.args[i].type
                                               IN  IF Reference(t) THEN 8
                                                   ELSE CASE t \in Primitives -> SlotOf[t]
                                                          [] t = "any" -> 24
                                                          [] t = "sequence" -> 16
                                                          [] OTHER -> 8]

(***************************************************************************)
(* Compatible procedures                                                   *)
(***************************************************************************)
Overridable(m) == m.kind = "overridable"
\* corto_interface_checkProcedureParameters
SameParameters(m, by) ==
    /\ Len(m.args) = Len(by.args)
    /\ \A i \in DOMAIN m.args :
           LET p == m.args[i]  q == by.args[i]
           IN  /\ p.type = q.type \/ CastableType(p.type, q.type)
               /\ \/ p.ref = q.ref
                  \/ p.type = "object" /\ q.ref
                  \/ q.type = "object" /\ p.ref
\* corto_interface_checkProcedureCompatibility
CheckCompatible(m, by) ==
    IF m.ret # by.ret THEN CompatibleType(m.ret, by.ret)
    ELSE Overridable(m) /\ SameParameters(m, by)

\* corto_delegate_instanceof, of the constructor: no parameters, an int16
IsConstructor(m) == m.name = "construct"
MatchesDelegate(m) == m.ret = "int16" /\ m.args = <<>>

(***************************************************************************)
(* Declaring functions and methods                                         *)
(***************************************************************************)
Turn(c) == /\ ~aborted
           /\ \A i \in DOMAIN Classes : Classes[i] = c => \A j \in 1..i - 1 : state[Classes[j]] \in {"valid", "failed"}

\* corto_function_stringToParameterSeq: a reference to a reference is refused.
Parses(m) == \A i \in DOMAIN m.args : ~(m.args[i].ref /\ Reference(m.args[i].type))

\* corto_function_init of a function that is not a method: of those of its name in the package, as
\* far as the first that conflicts with it, all are marked as overloaded, and so is the function.
Named(m) == [name |-> m.name, args |-> m.args, parens |-> TRUE]
DeclareFunction(m) ==
    /\ ~aborted /\ Len(package) < MaxFunctions
    /\ \A i \in DOMAIN package : Named(package[i]) # Named(m)
    /\ LET others == SelectSeq(package, LAMBDA o : o.name = m.name)
           conflict == SelectInSeq(others, LAMBDA o : Distance(o, Named(m)) = 0)
           marked == IF conflict = 0 THEN ToSet(others) ELSE ToSet(SubSeq(others, 1, conflict - 1))
       IN  /\ overloaded' = overloaded \cup marked \cup (IF marked = {} THEN {} ELSE {m})
           /\ IF conflict = 0 /\ Parses(m)
              THEN \E i \in 1..Len(package) + 1 : package' = InsertAt(package, i, m)
              ELSE UNCHANGED package
    /\ UNCHANGED <<state, scope, pending, vtable, vector, delegate, index, aborted>>

\* corto_function_init and corto_function_construct.  A delegate is bound before it is validated.
DeclareMethod(c, m) ==
    /\ Turn(c) /\ state[c] = "declared"
    /\ m.owner = c /\ Cardinality(scope[c]) < MaxMethods
    /\ \A n \in scope[c] : Named(n) # Named(m)
    /\ scope' = IF Parses(m) THEN [scope EXCEPT ![c] = @ \cup {m}] ELSE scope
    /\ delegate' = IF Parses(m) /\ IsConstructor(m) THEN [delegate EXCEPT ![c] = m] ELSE delegate
    /\ state' = IF ~Parses(m) \/ (IsConstructor(m) /\ ~MatchesDelegate(m)) THEN [state EXCEPT ![c] = "failed"] ELSE state
    /\ UNCHANGED <<pending, vtable, vector, overloaded, index, package, aborted>>

\* corto_interface_vtableFromBase.  The application defines classes with a base that is defined.
StartConstruct(c) ==
    /\ Turn(c) /\ state[c] = "declared"
    /\ Base[c] # None => state[Base[c]] = "valid"
    /\ \A i \in ToSet(Implements[c]) : state[i] = "valid"
    /\ state' = [state EXCEPT ![c] = "constructing"]
    /\ vtable' = [vtable EXCEPT ![c] = IF Base[c] = None THEN <<>> ELSE vtable[Base[c]]]
    /\ pending' = [pending EXCEPT ![c] = scope[c]]
    /\ UNCHANGED <<scope, vector, delegate, overloaded, index, package, aborted>>

\* The class is given up, as is one whose base or interface failed.
GiveUp(c) ==
    /\ Turn(c) /\ state[c] = "declared"
    /\ \E d \in ({Base[c]} \ {None}) \cup ToSet(Implements[c]) : state[d] = "failed"
    /\ state' = [state EXCEPT ![c] = "failed"]
    /\ UNCHANGED <<scope, pending, vtable, vector, delegate, overloaded, index, package, aborted>>

(***************************************************************************)
(* Binding methods                                                         *)
(***************************************************************************)
OverridesClosest(d) == d <= 0 \* mutant: the closest match is overridden as if it had matched
OverridesAt(d) == d = 0

\* corto_interface_bindMethod: whether the method is refused.
Refused(c, m, f, found) ==
    \/ c \in Interface /\ ~Overridable(m)
    \/ /\ m.kind = "override"
       /\ f.at = 0 \/ f.d < 0 \/ ~Overridable(found)
    \/ /\ f.at # 0 /\ OverridesAt(f.d)
       /\ IF found.owner = m.owner THEN TRUE
          ELSE Overridable(found) /\ ~CheckCompatible(found, m)

\* corto_vtableInsert
Insert(table, m) == Append(table, m)

\* f: what the lookup of the method has found in the table of the base.
Bind(c, m, f) ==
    LET found == vtable[c][f.at]
        replaces == f.at # 0 /\ OverridesAt(f.d)
    IN  IF Refused(c, m, f, found)
        THEN /\ state' = [state EXCEPT ![c] = "failed"]
             /\ UNCHANGED <<vtable, overloaded, index, aborted>>
        ELSE /\ vtable' = [vtable EXCEPT ![c] = IF replaces THEN [@ EXCEPT ![f.at] = m] ELSE Insert(@, m)]
             /\ overloaded' = IF f.at # 0 /\ ~replaces THEN overloaded \cup {found, m} ELSE overloaded
             /\ index' = [index EXCEPT ![m] = Lookup(vtable'[c], Named(m)).at]
             /\ aborted' = (index'[m] = 0)
             /\ UNCHANGED state

BindMethod(c) ==
    /\ ~aborted /\ state[c] = "constructing"
    /\ \E m \in pending[c] : /\ pending' = [pending EXCEPT ![c] = @ \ {m}]
                             /\ Bind(c, m, Lookup(vtable[c], Named(m)))
    /\ UNCHANGED <<scope, vector, delegate, package>>

(***************************************************************************)
(* Interfaces and delegates                                                *)
(***************************************************************************)
\* corto_class_checkInterfaceCompatibility: the slots are filled by the methods that are
\* compatible, and the result is that of the last method of the interface.
Slot(m, table, f) == IF f.at # 0 /\ f.d = 0 /\ CheckCompatible(m, table[f.at]) THEN table[f.at] ELSE None
FillVector(c, i) == [k \in DOMAIN vtable[i] |->
                        Slot(vtable[i][k], vtable[c], Lookup(vtable[c], Named(vtable[i][k])))]

\* corto_interface_pullDelegate
SkipsStubs(d) == d # None /\ ~d.stub
Pulled(c) ==
    LET has == SelectInSeq(Line(c), LAMBDA b : SkipsStubs(delegate[b]))
    IN  IF has > 1 THEN delegate[Line(c)[has]] ELSE delegate[c]

FinishConstruct(c) ==
    /\ ~aborted /\ state[c] = "constructing" /\ pending[c] = {}
    /\ LET fills == [n \in DOMAIN Implements[c] |-> FillVector(c, Implements[c][n])]
           ok == \A n \in DOMAIN fills : fills[n] = <<>> \/ Last(fills[n]) # None
       IN  /\ state' = [state EXCEPT ![c] = IF ok THEN "valid" ELSE "failed"]
           /\ vector' = [vector EXCEPT ![c] = fills]
           /\ delegate' = IF ok THEN [delegate EXCEPT ![c] = Pulled(c)] ELSE delegate
    /\ UNCHANGED <<scope, pending, vtable, overloaded, index, package, aborted>>

\* corto_class_resolveInterfaceMethod: the vector of the nearest class that names the interface.
InterfaceMethod(c, i, k) ==
    LET at == SelectInSeq(Line(c), LAMBDA b : i \in ToSet(Implements[b]))
        b == Line(c)[at]
    IN  IF at = 0 THEN None ELSE vector[b][SelectInSeq(Implements[b], LAMBDA x : x = i)][k]

Init == /\ state = [c \in Class |-> "declared"]
        /\ scope = [c \in Class |-> {}] /\ pending = [c \in Class |-> {}]
        /\ vtable = [c \in Class |-> <<>>] /\ vector = [c \in Class |-> <<>>]
        /\ delegate = [c \in Class |-> None]
        /\ overloaded = {} /\ index = [m \in Catalog |-> 0]
        /\ package = <<>> /\ aborted = FALSE

PackageNext == \E m \in Functions : DeclareFunction(m)
ClassNext == \E c \in Class :
            \/ \E m \in Catalog : DeclareMethod(c, m)
            \/ StartConstruct(c) \/ GiveUp(c) \/ BindMethod(c) \/ FinishConstruct(c)
Next == PackageNext \/ ClassNext
Spec == Init /\ [][Next]_vars
=============================================================================
