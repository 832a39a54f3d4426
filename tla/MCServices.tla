----------------------------- MODULE MCServices -----------------------------
(***************************************************************************)
(* Instances of the small components for TLC: those of Services and, with  *)
(* their own variables, Paths and Loader.                                  *)
(***************************************************************************)
EXTENDS Services

VARIABLES parent, id, unknown,
          disk, objects, loaded, count, active, last, answer

paths == <<parent, id, unknown>>
loader == <<disk, objects, loaded, count, active, last, answer>>

P == INSTANCE Paths WITH MaxObjects <- 3, MaxDepth <- 4

\* Package a has one inside it, of which the library creates an object but not the package;
\* the library of c creates nothing.
A == <<"a">>
B == <<"a", "b">>
Lib == <<"c">>
MCMakes(p) == CASE p = A -> {A, <<"a", "x">>} [] p = B -> {<<"a", "b", "x">>} [] OTHER -> {}
L == INSTANCE Loader WITH Packages <- {A, B, Lib}, Library <- {A, B, Lib}, Makes <- MCMakes,
                          Described <- {A, B, Lib}, MaxLoaders <- 2, store <- objects,
                          Paths <- {A, B, Lib, <<"a", "x">>, <<"a", "b", "x">>}

Components == {"paths", "formats", "fluent", "resume", "loader"}
Init == which \in Components /\ P!Init /\ ServicesInit /\ L!Init
Next == \/ ServicesNext /\ UNCHANGED <<paths, loader>>
        \/ which = "paths" /\ P!Next /\ UNCHANGED <<services, loader>>
        \/ which = "loader" /\ L!Next /\ UNCHANGED <<services, paths>>
vars == <<services, paths, loader>>
Spec == Init /\ [][Next]_vars

\* An object is found by its full path from every scope, and by a path from above or
\* below it (Paths; corto_fullpath, corto_path, corto_resolve and corto_lookup).
PathsAreFound == which = "paths" => P!FullPathResolves /\ P!PathIsFound

\* A lookup finds what a package that nobody used yet provides, and a package that is in two
\* directories is listed once (Loader; corto_loader_on_resume, corto_loader_on_query_v).
PackagesAreFound == [][which = "loader" => L!FindsPackages /\ L!ListedOnce']_vars
=============================================================================
