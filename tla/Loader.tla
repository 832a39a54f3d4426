------------------------------- MODULE Loader -------------------------------
(***************************************************************************)
(* The mount that finds packages on disk (src/vstore/loader.c): it lists   *)
(* the packages of two directories, and resumes packages and the objects   *)
(* in them by loading libraries.  Locating files, loading a library and    *)
(* reading project.json are not in src: they are modelled by what the      *)
(* loader is told of them.                                                 *)
(***************************************************************************)
EXTENDS Integers, Sequences, FiniteSets, SequencesExt

CONSTANTS
    Packages,  \* the packages that can be installed: sequences of names
    Library,   \* those with a library
    Makes(_),  \* the objects that the library of a package creates
    Described, \* those with a project.json that can be read
    Paths,     \* the objects that are looked up
    MaxLoaders \* bound: loaders that are constructed

None == <<>>
Dirs == {"target", "home"}

VARIABLES
    disk,    \* the packages in each of the two directories
    store,   \* the objects in the store: "valid", or "unknown" when they hold a place
    loaded,  \* the libraries that are loaded
    count,   \* constructOnce
    active,  \* whether there is a loader
    last,    \* history: the last lookup, what it found, whether a package could have had it
    answer   \* history: the last list, when that was after it: names and where they are from

vars == <<disk, store, loaded, count, active, last, answer>>

Known(s) == {p \in DOMAIN s : s[p] = "valid"}
Above(p) == {SubSeq(p, 1, k) : k \in 1..(Len(p) - 1)}
Installed == disk.target \cup disk.home

NoLookup == [asked |-> None, got |-> None, could |-> FALSE]
Init == /\ disk = [d \in Dirs |-> {}] /\ store = [p \in {} |-> ""] /\ loaded = {}
        /\ count = 0 /\ active = FALSE /\ answer = <<>>
        /\ last = NoLookup

\* Objects are created, those above them hold their place.
With(s, ps) == LET all == DOMAIN s \cup ps \cup UNION {Above(p) : p \in ps}
               IN  [p \in all |-> IF p \in ps \cup Known(s) THEN "valid" ELSE "unknown"]

\* corto_use: a library creates its objects, once.
Use(s, pkg) == IF pkg \in Library /\ pkg \notin loaded THEN With(s, Makes(pkg)) ELSE s

\* corto_loader_construct counts also when it fails.
Construct == /\ count < MaxLoaders
             /\ count' = count + 1 /\ active' = (active \/ count = 0)
             /\ UNCHANGED <<disk, store, loaded, last, answer>>
Destruct == /\ active /\ count' = count - 1 /\ active' = FALSE
            /\ UNCHANGED <<disk, store, loaded, last, answer>>

\* A package is installed; those above it are directories of the same tree.
Install(d, p) == /\ p \notin disk[d] /\ disk' = [disk EXCEPT ![d] = @ \cup {p}]
                 /\ UNCHANGED <<store, loaded, count, active, last, answer>>

\* The package of an object: itself or the nearest one above it.
Exactly(p) == IF p \in Installed THEN p ELSE None
Located(p) ==
    LET found == {q \in {p} \cup Above(p) : q \in Installed}
    IN  IF found = {} THEN None ELSE CHOOSE q \in found : \A r \in found : Len(r) <= Len(q)

\* corto_loader_on_resume for a lookup: a package that has a place in the store counts as loaded.
\* Otherwise its library is used; then the object is there, or the package, which the library
\* did not create, is made from its description.
Resumes(p) ==
    LET pkg == Located(p)
        s == IF pkg = None THEN store ELSE Use(store, pkg)
    IN  IF pkg = None \/ pkg \in DOMAIN store
        THEN [store |-> store, loaded |-> loaded, got |-> None]
        ELSE [store |-> IF p \notin DOMAIN s /\ p = pkg /\ p \in Described THEN With(s, {p}) ELSE s,
              loaded |-> loaded \cup ({pkg} \cap Library),
              got |-> IF p \in DOMAIN s \/ (p = pkg /\ p \in Described) THEN p ELSE None]

\* A package of which the library creates objects inside it, but not the package itself.
PlaceOnly(p) == p \in Library /\ p \notin Makes(p) /\ \E x \in Makes(p) : p \in Above(x)

\* What can be found: an installed package or an object of its library, when nothing of the
\* package was in the store before.
Could(p) == \E q \in Installed : /\ q \notin loaded /\ q \notin DOMAIN store
                                 /\ q \in {p} \cup Above(p)
                                 /\ ~\E r \in Installed : Len(r) > Len(q) /\ r \in {p} \cup Above(p)
                                 /\ \/ p = q /\ p \in Described /\ ~PlaceOnly(p)
                                    \/ q \in Library /\ p \in Makes(q)

\* corto_lookup: what is not known in the store is resumed.
Lookup(p) ==
    LET r == IF p \in Known(store) \/ ~active
             THEN [store |-> store, loaded |-> loaded, got |-> IF p \in Known(store) THEN p ELSE None]
             ELSE Resumes(p)
    IN  /\ store' = r.store /\ loaded' = r.loaded
        /\ last' = [asked |-> p, got |-> r.got, could |-> p \in Known(store) \/ (active /\ Could(p))]
        /\ answer' = <<>> /\ UNCHANGED <<disk, count, active>>

\* An application declares and defines a package: the loader finds that very object in the store
\* and says that it was resumed, whether the package is installed or not; when it is defined,
\* corto_package_define loads the library.
Declare(p) ==
    /\ active /\ p \notin Known(store)
    /\ LET s == With(store, {p})
       IN  IF p \in Installed THEN store' = Use(s, p) /\ loaded' = loaded \cup ({p} \cap Library)
           ELSE store' = s /\ UNCHANGED loaded
    /\ UNCHANGED <<disk, count, active, last, answer>>

\* An object without others below it is deleted.
Delete(p) == /\ p \in Known(store) /\ ~\E q \in DOMAIN store : p \in Above(q)
             /\ store' = [q \in DOMAIN store \ {p} |-> store[q]]
             /\ UNCHANGED <<disk, loaded, count, active, last, answer>>

\* corto_loader_addDir: the directories of a scope, but for those in the list.
Names(d, scope) == {p[Len(scope) + 1] : p \in {q \in disk[d] : Len(q) > Len(scope) /\ SubSeq(q, 1, Len(scope)) = scope}}
Entries(d, names) == SetToSeq({[id |-> n, dir |-> d] : n \in names})
AddDir(list, d, scope) == list \o Entries(d, Names(d, scope) \ {e.id : e \in Range(list)})

\* corto_loader_on_query: those of the target directory hide those of the home directory.
Query(scope) == /\ active
                /\ answer' = AddDir(AddDir(<<>>, "target", scope), "home", scope)
                /\ last' = NoLookup /\ UNCHANGED <<disk, store, loaded, count, active>>

Next == \/ Construct \/ Destruct
        \/ \E d \in Dirs, p \in Packages : Install(d, p)
        \/ \E p \in Paths : Lookup(p) \/ Delete(p)
        \/ \E p \in Packages : Declare(p)
        \/ \E scope \in {<<>>} \cup {p \in Packages : Len(p) = 1} : Query(scope)
Spec == Init /\ [][Next]_vars

\* A lookup returns the object that was asked for, defined and in the store; it finds what a
\* package provides that has nothing in the store yet.  Only of a package that its library did
\* not create, but objects inside it, the object that holds its place may be returned, which
\* has no type (corto_loader_on_resume, which looks it up without resuming).
FindsPackages ==
    \A p \in Paths : last' # last /\ last'.asked = p
        => /\ last'.got \in {None, p}
           /\ last'.got = p => p \in Known(store') \/ (PlaceOnly(p) /\ p \in DOMAIN store')
           /\ last'.could => last'.got = p

\* A package that is in both directories is listed once, and the one of the target is
\* (corto_loader_checkIfAdded).
ListedOnce == \A i, j \in DOMAIN answer : answer[i].id = answer[j].id => i = j
=============================================================================
