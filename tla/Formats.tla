------------------------------ MODULE Formats ------------------------------
(***************************************************************************)
(* The serialization formats of src/store/fmt.c: corto_fmt_lookup finds a  *)
(* format in a list that threads share, or loads the package of the format *)
(* outside of the lock and adds it afterwards.  Formats are used as long   *)
(* as the process runs, without a claim.                                   *)
(***************************************************************************)
EXTENDS Integers, Sequences, FiniteSets, SequencesExt

CONSTANTS
    Threads,   \* the threads that look formats up
    MaxFormats \* bound: formats that are allocated

None == 0
Fmt == 1..MaxFormats
\* What formats are asked for: the text and the binary format of corto itself, a package
\* that has all the functions of a format, one that lacks one and one that is not installed.
Asked == {"text/corto", "binary/corto", "text/json", "binary/json", "text/part", "text/gone"}
BuiltIn == {"text/corto", "binary/corto"}
Package(a) == CASE a \in {"text/json", "binary/json"} -> "complete"
                [] a = "text/part" -> "incomplete" [] OTHER -> "missing"

VARIABLES
    fmts,         \* the formats: what they are for, how far they are, "" if not allocated
    contentTypes, \* the list of formats
    uses,         \* the threads: what they ask for, where they are, the format they have
    returned      \* history: the format that lookups returned for what was asked

vars == <<fmts, contentTypes, uses, returned>>

NoFmt == [for |-> "", at |-> ""]
Init == /\ fmts = [f \in Fmt |-> NoFmt] /\ contentTypes = <<>>
        /\ uses = [t \in Threads |-> [asks |-> "", at |-> "idle", fmt |-> None]]
        /\ returned = [a \in Asked |-> {}]

Unused == {f \in Fmt : fmts[f].at = ""}
NewFmt == CHOOSE f \in Unused : \A g \in Unused : f <= g

\* corto_findContentType
Listed(a) == LET i == SelectInSeq(contentTypes, LAMBDA f : fmts[f].for = a)
             IN  IF i = 0 THEN None ELSE contentTypes[i]

Returns(t, a, f) == /\ uses' = [uses EXCEPT ![t] = [asks |-> "", at |-> "idle", fmt |-> None]]
                    /\ returned' = [returned EXCEPT ![a] = IF f = None THEN @ ELSE @ \cup {f}]

\* With the lock: a format in the list is returned, those of corto are made and added; for
\* another one memory is allocated, the lock is released and the package is loaded.
Lookup(t, a) ==
    /\ uses[t].at = "idle"
    /\ \/ /\ Listed(a) # None
          /\ Returns(t, a, Listed(a)) /\ UNCHANGED <<fmts, contentTypes>>
       \/ /\ Listed(a) = None /\ Unused # {} /\ a \in BuiltIn
          /\ fmts' = [fmts EXCEPT ![NewFmt] = [for |-> a, at |-> "loaded"]]
          /\ contentTypes' = Append(contentTypes, NewFmt)
          /\ Returns(t, a, NewFmt)
       \/ /\ Listed(a) = None /\ Unused # {} /\ a \notin BuiltIn
          /\ fmts' = [fmts EXCEPT ![NewFmt] = [for |-> a, at |-> "new"]]
          /\ uses' = [uses EXCEPT ![t] = [asks |-> a, at |-> "load", fmt |-> NewFmt]]
          /\ UNCHANGED <<contentTypes, returned>>

\* corto_use and corto_load_proc: a package that lacks a function leaves the format behind.
Load(t) ==
    LET u == uses[t] IN
    /\ u.at = "load"
    /\ \/ /\ Package(u.asks) = "complete"
          /\ fmts' = [fmts EXCEPT ![u.fmt].at = "loaded"]
          /\ uses' = [uses EXCEPT ![t].at = "add"] /\ UNCHANGED returned
       \/ /\ Package(u.asks) # "complete"
          /\ fmts' = [fmts EXCEPT ![u.fmt].at = "left"]
          /\ Returns(t, u.asks, None)
    /\ UNCHANGED contentTypes

\* The format is added without a second look at the list.
AddsAnyway(t) ==
    LET u == uses[t] IN
    /\ u.at = "add" /\ contentTypes' = Append(contentTypes, u.fmt)
    /\ Returns(t, u.asks, u.fmt) /\ UNCHANGED fmts

\* With the lock again: what another thread added in the meantime replaces one's own.
Add(t) ==
    LET u == uses[t] IN
    /\ u.at = "add"
    /\ IF Listed(u.asks) = None
       THEN /\ contentTypes' = Append(contentTypes, u.fmt)
            /\ Returns(t, u.asks, u.fmt) /\ UNCHANGED fmts
       ELSE /\ fmts' = [fmts EXCEPT ![u.fmt] = NoFmt]
            /\ Returns(t, u.asks, Listed(u.asks)) /\ UNCHANGED contentTypes

Next == \E t \in Threads : (\E a \in Asked : Lookup(t, a)) \/ Load(t) \/ Add(t)
Spec == Init /\ [][Next]_vars

\* All threads that ask for a format get the same one, complete, of the list, whatever the
\* order in which they load it: an address of a format stands for the format in subscribers
\* that keep what they converted (corto_fmt_lookup, corto_findContentType).
OneOfEach ==
    \A a \in Asked : /\ Cardinality(returned[a]) <= 1
                     /\ \A f \in returned[a] : /\ fmts[f] = [for |-> a, at |-> "loaded"]
                                               /\ Contains(contentTypes, f)
=============================================================================
