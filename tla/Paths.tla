------------------------------- MODULE Paths -------------------------------
(***************************************************************************)
(* The texts that name objects (src/store/object.c): corto_fullpath and    *)
(* corto_path write them, corto_lookup and corto_resolve read them, in a   *)
(* tree of objects that come and go.  A text is the list of its elements   *)
(* and whether it starts at the root.                                      *)
(***************************************************************************)
EXTENDS Integers, Sequences, FiniteSets, SequencesExt

CONSTANTS
    MaxObjects, \* bound: objects of the application at the same time
    MaxDepth    \* bound: objects above each other

\* The builtin objects: the root, /corto, its packages lang and vstore, a type in lang.
None == 0
Root == 1
Corto == 2
Lang == 3
Vstore == 4
LangType == 5
Builtin == 1..5
App == 6..(5 + MaxObjects)
Object == Builtin \cup App
\* The names that objects of the application get: the type's as well, and those of packages.
Id == {"corto", "a", "b"}

VARIABLES
    parent,  \* the object that has an object in its scope
    id,      \* the names of the objects, "" for one that does not exist
    unknown  \* the objects of type unknown, which hold a place in the tree

vars == <<parent, id, unknown>>

Exists(o) == id[o] # ""
Objects == {o \in Object : Exists(o)}

\* corto_scopeStack: an object and those above it, the root last.
RECURSIVE ScopeStack(_)
ScopeStack(o) == IF o = None THEN <<>> ELSE <<o>> \o ScopeStack(parent[o])

\* corto_parentof, corto_rb_hasKey_w_cmp on the scope of an object.
Child(o, i) == LET found == {c \in Objects : parent[c] = o /\ id[c] = i}
               IN  IF found = {} THEN None ELSE CHOOSE c \in found : TRUE

Ids(os) == [i \in 1..Len(os) |-> id[os[i]]]

\* corto_fullpath: objects in lang are called by their own name alone.
FullPath(o) == IF parent[o] = Lang THEN [abs |-> FALSE, els |-> <<id[o]>>]
               ELSE [abs |-> TRUE, els |-> Tail(Ids(Reverse(ScopeStack(o))))]

\* How many elements there are to write before the last one: the step at which the two were
\* still the same is not one of them.
Before(f, t, stop) ==
    LET left == (IF Len(f) > Len(t) THEN Len(f) ELSE Len(t)) - stop
    IN  IF f[stop] = t[stop] /\ left > 0 THEN left - 1 ELSE left

\* corto_path: both are followed down from the root to where they part or one of them ends.
\* What is left of the longer one is written, as names below from, as ".." above it.
Path(from, o) ==
    LET start == IF from = None /\ o # Root THEN Root ELSE from
        f == Reverse(ScopeStack(start))
        t == Reverse(ScopeStack(o))
        shorter == IF Len(f) < Len(t) THEN Len(f) ELSE Len(t)
        stop == CHOOSE k \in 1..shorter : /\ k = shorter \/ f[k] # t[k]
                                          /\ \A j \in 1..(k - 1) : f[j] = t[j]
        reverse == Len(f) > Len(t)
        count == Before(f, t, stop)
        els == IF start = o THEN <<".">>
               ELSE IF reverse THEN [i \in 1..(count + 1) |-> ".."]
               ELSE Ids(SubSeq(t, Len(t) - count, Len(t)))
    IN  [abs |-> from = None, els |-> IF start = None THEN <<>> ELSE els]

\* An element of a text: the next object is claimed, the one before it released, but for the
\* first, which was not looked up.
Element(s, e) ==
    IF s.at = None THEN s
    ELSE LET to == CASE e = "."  -> s.at
                     [] e = ".." -> parent[s.at]
                     [] OTHER    -> Child(s.at, e)
             more == IF to = None THEN s.claims ELSE [s.claims EXCEPT ![to] = @ + 1]
         IN  [at |-> to, first |-> FALSE,
              claims |-> IF s.first THEN more ELSE [more EXCEPT ![s.at] = @ - 1]]

\* corto_lookup_intern in a scope: unknown objects are left for mounts to resume, unless the
\* scope is builtin, other than the root and /corto.
LookupFrom(scope, path) ==
    LET from == IF path.abs \/ scope = None THEN Root ELSE scope
        s == FoldLeft(Element, [at |-> from, first |-> TRUE, claims |-> [o \in Object |-> 0]], path.els)
        resume == scope \notin Builtin \ {Root, Corto}
    IN  IF resume /\ s.at \in unknown
        THEN [at |-> None, claims |-> [s.claims EXCEPT ![s.at] = @ - 1]]
        ELSE [at |-> s.at, claims |-> s.claims]

\* The scope and those above it are tried before lang.
NearestFirst(scope) == LET up == ScopeStack(IF scope = None THEN Root ELSE scope)
                       IN  up \o <<Lang>> \o SelectSeq(<<Corto, Vstore>>, LAMBDA o : ~Contains(up, o))

\* corto_resolve: a text that starts with a name is looked up in lang, in the scope and in
\* those above it, in /corto and in /corto/vstore, which are not tried twice.
Scopes(scope) == LET up == ScopeStack(IF scope = None THEN Root ELSE scope)
                 IN  <<Lang>> \o up \o SelectSeq(<<Corto, Vstore>>, LAMBDA o : ~Contains(up, o))

Resolve(scope, path) ==
    IF path.abs THEN LookupFrom(None, path)
    ELSE IF path.els # <<>> /\ path.els[1] \in {".", ".."} THEN LookupFrom(scope, path)
    ELSE LET tried == Scopes(scope)
             found == SelectInSeq(tried, LAMBDA o : LookupFrom(o, path).at # None)
         IN  LookupFrom(IF found = 0 THEN Last(tried) ELSE tried[found], path)

Init == /\ parent = [o \in Object |-> CASE o \in {Corto} -> Root [] o \in {Lang, Vstore} -> Corto
                                        [] o = LangType -> Lang [] OTHER -> None]
        /\ id = [o \in Object |-> CASE o = Root -> "root" [] o = Corto -> "corto" [] o = Lang -> "lang"
                                    [] o = Vstore -> "vstore" [] o = LangType -> "a" [] OTHER -> ""]
        /\ unknown = {}

\* An object is declared, of its type or, to hold a place, of type unknown; in lang applications
\* hold no places.
Declare(o, p, i, known) ==
    /\ ~Exists(o) /\ \A x \in App : x < o => Exists(x)
    /\ Exists(p) /\ Len(ScopeStack(p)) < MaxDepth /\ (known \/ p # Lang) /\ Child(p, i) = None
    /\ parent' = [parent EXCEPT ![o] = p] /\ id' = [id EXCEPT ![o] = i]
    /\ unknown' = IF known THEN unknown ELSE unknown \cup {o}

\* An unknown object gets its type; an object without others below it is deleted.
Replace(o) == o \in unknown /\ unknown' = unknown \ {o} /\ UNCHANGED <<parent, id>>
Delete(o) == /\ o \in App /\ Exists(o) /\ ~\E c \in Objects : parent[c] = o
             /\ parent' = [parent EXCEPT ![o] = None] /\ id' = [id EXCEPT ![o] = ""]
             /\ unknown' = unknown \ {o}

Next == \/ \E o \in App, p \in Object, i \in Id, known \in BOOLEAN : Declare(o, p, i, known)
        \/ \E o \in App : Replace(o) \/ Delete(o)

Spec == Init /\ [][Next]_vars

OnlyClaims(r, o) == \A x \in App : r.claims[x] = (IF x = o THEN 1 ELSE 0)

\* The full path of an object names it in every scope, whatever objects of the same name are
\* nearer; the caller then has one claim on it and on nothing else.  An unknown object is not
\* found (corto_fullpath_intern, corto_resolve_intern, corto_lookup_intern).
FullPathResolves ==
    \A o \in Objects, scope \in Objects \cup {None} :
        LET r == Resolve(scope, FullPath(o))
        IN  IF o \in unknown THEN r.at = None /\ OnlyClaims(r, None)
            ELSE r.at = o /\ OnlyClaims(r, o)

\* The path from an object to one above it or below it finds that one, when it is looked up
\* where the path starts (corto_path, corto_lookup).
PathIsFound ==
    \A o \in Objects \ unknown, from \in Objects \cup {None} :
        from = None \/ Contains(ScopeStack(o), from) \/ Contains(ScopeStack(from), o)
            => LET r == LookupFrom(from, Path(from, o)) IN r.at = o /\ OnlyClaims(r, o)

=============================================================================
