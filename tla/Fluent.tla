------------------------------- MODULE Fluent -------------------------------
(***************************************************************************)
(* The requests of corto_select, corto_subscribe and corto_observe, which  *)
(* an application writes as a chain of calls: the first call allocates a   *)
(* request, the next ones set its fields, the last one evaluates it and    *)
(* frees it.  In between the request is in a variable of the thread,       *)
(* CORTO_KEY_FLUENT, the same one for the three kinds (select.c,           *)
(* subscriber.c, observer.c of src/vstore).  While a chain is evaluated,   *)
(* constructors and mounts write chains of their own.                      *)
(***************************************************************************)
EXTENDS Integers, Sequences, FiniteSets, SequencesExt

CONSTANTS
    MaxChains, \* bound: chains
    MaxDepth,  \* bound: chains inside each other
    InitsWrite, \* whether the init of a mount writes chains
    TimeFirst  \* whether fromTime is called before toNow

Kind == {"select", "subscribe", "observe"}
Chain == 1..MaxChains
None == 0

\* How chains end: with what they evaluate, or, for a subscription, with a new mount.
SelectEnds == {"iter", "count", "resume", "subscribe", "unsubscribe", "id"}
Ends(k) == CASE k = "select"    -> SelectEnds
             [] k = "subscribe" -> {"callback", "mount"}
             [] k = "observe"   -> {"callback"}

\* Fields that tell requests apart: any ordinary one, and the times of a select for history.
SelectFields == {"from", "fromTime", "toNow"}
SubscribeFields == {"from"}
ObserveFields == {"instance"}
Fields(k) == CASE k = "select"    -> SelectFields
               [] k = "subscribe" -> SubscribeFields
               [] k = "observe"   -> ObserveFields

VARIABLES
    tls,      \* CORTO_KEY_FLUENT: the chain that allocated the request, None is NULL
    requests, \* the requests: their kind, the chain they are for, their fields
    chains,   \* the chains under way, the innermost last
    used      \* history: what chains were evaluated with

vars == <<tls, requests, chains, used>>

NoRequest == [mem |-> "none", kind |-> "select", of |-> None, fields |-> {}]
Open(c, k) == [id |-> c, kind |-> k, at |-> "set", set |-> {}, end |-> "", request |-> None]
TopChain == chains[Len(chains)]
Goes(c) == chains' = Append(Front(chains), c)
Started == Cardinality({c \in Chain : \E u \in used : u.id = c}) + Len(chains)

Init == /\ tls = None /\ chains = <<>> /\ used = {}
        /\ requests = [c \in Chain |-> NoRequest]

\* corto_select, corto_subscribe, corto_observe: a request that is left is used again.
Begin(k) ==
    /\ Started < MaxChains /\ Len(chains) < MaxDepth
    /\ chains # <<>> => TopChain.at = "evaluate" \/ (TopChain.at = "declare" /\ (InitsWrite \/ TopChain.end # "mount"))
    /\ LET c == Started + 1
           r == IF tls = None THEN c ELSE tls
       IN  /\ chains' = Append(chains, Open(c, k))
           /\ requests' = [requests EXCEPT ![r] = [mem |-> "live", kind |-> IF tls = None THEN k ELSE @.kind,
                                                   of |-> c, fields |-> {}]]
           /\ tls' = r
    /\ UNCHANGED used

\* The calls in the middle do nothing when there is no request.  corto_selectorToNow
\* sets the value of the other end, too.
SetField(r, f) == IF f = "toNow" THEN (r \ {"fromTime"}) \cup {f} ELSE r \cup {f}
Set(f) ==
    /\ chains # <<>> /\ TopChain.at = "set" /\ f \in Fields(TopChain.kind) \ TopChain.set
    /\ f = "toNow" => TimeFirst \/ "fromTime" \notin TopChain.set
    /\ Goes([TopChain EXCEPT !.set = @ \cup {f}])
    /\ requests' = IF tls = None THEN requests
                   ELSE [requests EXCEPT ![tls].fields = SetField(@, f)]
    /\ UNCHANGED <<tls, used>>

\* The last call takes the request out of the variable before it evaluates it.
\* corto_subscribeMount takes it out when the mount is declared.
StaysSet(end) == FALSE \* mutant: the request is taken out when it is evaluated
TakesFirst(end) == end # "mount"
End(e) ==
    /\ chains # <<>> /\ TopChain.at = "set" /\ e \in Ends(TopChain.kind)
    /\ Goes([TopChain EXCEPT !.at = IF TakesFirst(e) THEN "evaluate" ELSE "declare", !.end = e, !.request = tls])
    /\ tls' = IF TakesFirst(e) THEN None ELSE tls
    /\ UNCHANGED <<requests, used>>

\* corto_subscribeMount has declared the mount, whose init ran.
Declared ==
    /\ chains # <<>> /\ TopChain.at = "declare"
    /\ tls' = None /\ Goes([TopChain EXCEPT !.at = "evaluate"])
    /\ UNCHANGED <<requests, used>>

\* The request is freed, unless it is a select that fails, and the chain ends.
FreesRequest(fails) == ~fails
Evaluated(fails) ==
    /\ chains # <<>> /\ TopChain.at = "evaluate" /\ (fails => TopChain.kind = "select")
    /\ LET r == TopChain.request
       IN  /\ used' = used \cup {[id |-> TopChain.id, kind |-> TopChain.kind, set |-> TopChain.set, fails |-> fails,
                                  with |-> IF r = None THEN NoRequest ELSE requests[r]]}
           /\ requests' = IF r # None /\ FreesRequest(fails) THEN [requests EXCEPT ![r].mem = "freed"] ELSE requests
    /\ chains' = Front(chains)
    /\ UNCHANGED tls

Next == \/ \E k \in Kind : Begin(k)
        \/ \E f \in UNION {Fields(k) : k \in Kind} : Set(f)
        \/ \E e \in UNION {Ends(k) : k \in Kind} : End(e)
        \/ Declared
        \/ \E b \in BOOLEAN : Evaluated(b)
Spec == Init /\ [][Next]_vars

\* A chain is evaluated with its own request, which is allocated, of its kind, and has
\* the fields that the chain set, whatever chains are written inside its evaluation.
EvaluatedAsWritten ==
    \A u \in used : /\ u.with.mem = "live" /\ u.with.of = u.id
                    /\ u.with.kind = u.kind /\ u.with.fields = u.set

\* When no chain is under way, the only requests that are left are those of selects that failed.
RequestsAreFreed ==
    chains = <<>> => \A c \in Chain : requests[c].mem = "live" => \E u \in used : u.id = c /\ u.fails

\* A chain of calls is evaluated with what it set, also when another one begins before it
\* ends, and its request is freed (corto_select, corto_subscribe, corto_selectorIter).
RequestsAreOwn == EvaluatedAsWritten /\ RequestsAreFreed
=============================================================================
