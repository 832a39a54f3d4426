------------------------------ MODULE MCMethods ------------------------------
(***************************************************************************)
(* An interface I, a class A that implements it and a class B that inherits*)
(* from A, with every choice of the methods of a catalog; and a package    *)
(* with functions.                                                         *)
(***************************************************************************)
EXTENDS Methods

Hierarchy == <<"I", "A", "B">>
BaseOf == [c \in {"I", "A", "B"} |-> IF c = "B" THEN "A" ELSE None]
InterfacesOf == [c \in {"I", "A", "B"} |-> IF c = "A" THEN <<"I">> ELSE <<>>]

By(t) == [type |-> t, ref |-> FALSE, force |-> FALSE]
ByReference(t) == [By(t) EXCEPT !.ref = TRUE]
Method(owner, name, args, kind, ret) ==
    [owner |-> owner, name |-> name, args |-> args, kind |-> kind, ret |-> ret, stub |-> FALSE]
Stub(m) == [m EXCEPT !.stub = TRUE]
Constructor(c) == Method(c, "construct", <<>>, "method", "int16")
MethodsOf ==
    {Method("I", "m", <<By("int32")>>, "overridable", "void"), Method("I", "n", <<>>, "overridable", "void"),
     Method("I", "n", <<By("int32")>>, "method", "void"),
     Method("A", "m", <<By("int32")>>, "overridable", "void"), Method("A", "m", <<By("text")>>, "method", "void"),
     Method("A", "m", <<By("A")>>, "overridable", "void"), Method("A", "m", <<By("any")>>, "method", "void"),
     Method("A", "n", <<>>, "overridable", "void"), Method("A", "n", <<>>, "method", "int32"),
     Constructor("A"), Stub(Constructor("A")), Method("A", "construct", <<By("int32")>>, "method", "int16"),
     Method("A", "m", <<ByReference("object")>>, "method", "void"),
     Method("B", "m", <<By("int64")>>, "override", "void"), Method("B", "m", <<By("object")>>, "method", "void"), Method("B", "m", <<By("any")>>, "method", "void"),
     Method("B", "m", <<By("B")>>, "method", "void"), Method("B", "m", <<By("A")>>, "override", "void"),
     Method("B", "m", <<ByReference("int32"), By("sequence")>>, "method", "void"), Constructor("B"), Stub(Constructor("B"))}

\* A function that cannot be declared because of its parameters has by then marked the others of its
\* name as overloaded, so that a name alone stays ambiguous: these can all be declared.
FunctionsOf == {Method(None, "m", args, "function", "void") :
                  args \in {<<>>, <<By("int32")>>, <<By("int64")>>, <<By("any")>>, <<By("A")>>, <<By("text")>>}}

\* Bound: methods of classes and functions of a package are not declared in the same behaviour.
MCNext == \/ package = <<>> /\ ClassNext
          \/ (\A c \in Class : scope[c] = {}) /\ PackageNext
MCSpec == Init /\ [][MCNext]_vars

Request(args) == [name |-> "m", args |-> args, parens |-> TRUE]
Alone == [name |-> "m", args |-> <<>>, parens |-> FALSE]
Requests == {Request(<<>>), Request(<<By("?"), By("?")>>)}
            \cup {Request(<<By(t)>>) : t \in {"int32", "int64", "text", "boolean", "any", "object", "A", "B", "?", "null"}}

\* A request is answered by the method that is nearest to it, whatever the order in which the
\* methods were bound, and not at all when several are as near; in a package a name alone is answered
\* when one function has it (corto_lookup_functionFromSequence, corto_function_init).
Only(S) == IF Cardinality(S) = 1 THEN CHOOSE x \in S : TRUE ELSE None
Nearest(table, q) ==
    LET D == [i \in DOMAIN table |-> Distance(table[i], q)]
    IN  {table[i] : i \in {i \in DOMAIN D : D[i] >= 0 /\ \A j \in DOMAIN D : D[j] >= 0 => D[i] <= D[j]}}
LookupIsNearest ==
    /\ \A q \in Requests : /\ \A c \in Class : Resolve(vtable[c], q) = Only(Nearest(vtable[c], q))
                           /\ Resolve(package, q) = Only(Nearest(package, q))
    /\ Resolve(package, Alone) = Only(ToSet(package))

\* A place in the table of a class is the place of the same method in the tables of the classes
\* that inherit from it, so that an id that was resolved for one of them calls the override of any
\* other, and the index of a method is its place in all of them (corto_interface_bindMethod).
PlacesAreKept ==
    \A c \in Class : state[c] = "valid" =>
        /\ \A i \in DOMAIN vtable[c] : index[vtable[c][i]] = i
        /\ Base[c] # None =>
               /\ Len(vtable[c]) >= Len(vtable[Base[c]])
               /\ \A i \in DOMAIN vtable[Base[c]] :
                      LET m == vtable[c][i]  of == vtable[Base[c]][i]
                      IN  m = of \/ (m.owner = c /\ m.name = of.name /\ Len(m.args) = Len(of.args))

\* A class runs the constructor of the nearest class, itself or a base, in which one is implemented
\* (corto_delegate_bind at the declaration, corto_interface_pullDelegate at the definition).
ConstructorIsInherited ==
    \A c \in Class : state[c] = "valid" =>
        LET own == [b \in ToSet(Line(c)) |-> {m \in scope[b] : IsConstructor(m)}]
            at == SelectInSeq(Line(c), LAMBDA b : \E m \in own[b] : ~m.stub)
        IN  IF at # 0 THEN delegate[c] \in own[Line(c)[at]] ELSE delegate[c] = None \/ delegate[c] \in own[c]

\* The size of the arguments of a method, the types given to the call and the arguments taken from
\* the caller are the same (function.c, cdeclhandler.c, invoke.c), save for references.
SlotsAgree ==
    \A c \in Class : \A m \in scope[c] :
        /\ SizeOf(m) = FoldLeft(+, 0, FfiTypes(m))
        /\ (\A i \in DOMAIN m.args : ~m.args[i].ref) => Copied(m) = FfiTypes(m)

\* What a class has for a method of an interface is a method of that name and those parameters,
\* which the class or a base of it has in its table (corto_class_resolveInterfaceMethod).
InterfacesAnswer ==
    \A c, i \in Class : state[c] = "valid" =>
        \A k \in DOMAIN vtable[i] :
            LET m == InterfaceMethod(c, i, k)
            IN  m # None => /\ m.name = vtable[i][k].name /\ SameParameters(vtable[i][k], m)
                            /\ \E b \in ToSet(Line(c)) : m \in ToSet(vtable[b])

\* What a call runs: what is at its place in the table, with as many arguments as were given.
VtablesAreSound == PlacesAreKept /\ ConstructorIsInherited /\ InterfacesAnswer /\ SlotsAgree

=============================================================================
