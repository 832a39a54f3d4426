------------------------------ MODULE Services ------------------------------
(***************************************************************************)
(* The small components that are proved about, side by side: Formats,      *)
(* Fluent and Resume.  They share nothing, each has its own variables, and *)
(* a behaviour is one of one of them.                                      *)
(***************************************************************************)
EXTENDS Integers, Sequences, FiniteSets

CONSTANTS
    Threads, MaxFormats,              \* of Formats
    MaxChains, InitsWrite, TimeFirst, \* of Fluent
    Filtered, Exact, Explicit,        \* of Resume: the mounts,
    Remote,                           \* and the objects that they have
    MaxDepth, MaxCalls, MaxResults

VARIABLES
    which, \* the component of the behaviour
    fmts, contentTypes, uses, returned,
    tls, requests, chains, used,
    source, attr, listed, stack, store, calls

formats == <<fmts, contentTypes, uses, returned>>
fluent == <<tls, requests, chains, used>>
resume == <<source, attr, listed, stack, store, calls>>

F == INSTANCE Formats
C == INSTANCE Fluent
R == INSTANCE Resume WITH Names <- Remote

ServicesInit == F!Init /\ C!Init /\ R!Init
ServicesNext == \/ which = "formats" /\ F!Next /\ UNCHANGED <<which, fluent, resume>>
                \/ which = "fluent" /\ C!Next /\ UNCHANGED <<which, formats, resume>>
                \/ which = "resume" /\ R!Next /\ UNCHANGED <<which, formats, fluent>>
services == <<which, formats, fluent, resume>>
ServicesSpec == ServicesInit /\ [][ServicesNext]_services

\* Threads that ask for a format get the same one (Formats, corto_fmt_lookup).
OneOfEach == which = "formats" => F!OneOfEach

\* A chain of calls is evaluated with what it set, also when another one begins before it
\* ends, and its request is freed (Fluent; corto_select, corto_subscribe, corto_selectorIter).
RequestsAreOwn == which = "fluent" => C!RequestsAreOwn

\* Queries and resumes of a mount that are made inside each other do not mix their results,
\* and what a mount resumes has that mount as its source (Resume; corto_mount_query,
\* corto_mount_resume).
ResultsAreOwn == which = "resume" => R!ResultsAreOwn /\ R!SourceIsMount
=============================================================================
