---------------------------- MODULE Subscribers ----------------------------
(***************************************************************************)
(* Subscribers (SubscriberAlign) over one mount (MountSubscriptions): the  *)
(* select with which a subscriber is aligned tells the mount what is       *)
(* subscribed to, with the align mutex held, and an unsubscribe tells it   *)
(* that it no longer is (corto_mountAction_subscribe and _unsubscribe in   *)
(* src/vstore/select.c).                                                   *)
(***************************************************************************)
EXTENDS SubscriberAlign, MountSubscriptions

CONSTANT Setup  \* a program, a mount, and the query of each subscriber as the mount has it

VARIABLES
    queryOf,    \* fixed at the start
    called      \* the threads that are in a call to the mount

bothVars == <<queryOf, called>>
vars == <<subscriberVars, mountVars, bothVars>>

ASSUME SubscribersAssumption ==
    /\ Caller = Thread
    /\ Setup \subseteq [program: Programs, mount: Mounts, query: [Subscriber -> Query]]

Init ==
    /\ \E s \in Setup : SubscriberInit(s.program) /\ MountInit(s.mount) /\ queryOf = s.query
    /\ called = {}

\* The mount is asked to subscribe or to unsubscribe, unless the mask leaves both out.
TellMount(t) ==
    LET q == queryOf[Sub(t)] IN
    /\ t \notin called /\ called' = called \cup {t}
    /\ \/ pc[t] = "mounts" /\ MountSubscribe(t, q)
       \/ pc[t] = "unsubscribe" /\ MountUnsubscribe(t, q)
    /\ UNCHANGED <<subscriberVars, queryOf>>

\* The select goes on with the objects; an unsubscribe is done.
MountTold(t) ==
    /\ t \in called \/ mountOf.mask = {} \/ removed
    /\ calls[t] = <<>>
    /\ \/ Goto(t, "mounts", "aligning")
       \/ Goto(t, "unsubscribe", "idle")
    /\ called' = called \ {t}
    /\ UNCHANGED <<program, storeVars, adminVars, alignVars, posted, seen, localVars,
                   valueVars, budget, fault, mountVars, queryOf>>

\* What a recursive call of on_subscribe left behind is undone by the mount.
GiveBack(t) ==
    /\ pc[t] = "idle" /\ calls[t] = <<>> /\ mountOf.recursive
    /\ \E q \in Query :
          /\ Cardinality({e \in registered : queryOf[e[1]] = q})
               + Cardinality({u \in Thread : pc[u] = "unsubscribe" /\ queryOf[Sub(u)] = q}) < users[q]
          /\ MountUnsubscribe(t, q)
    /\ UNCHANGED <<subscriberVars, bothVars>>

Step(t) == (SubscriberGoOn(t) /\ UNCHANGED <<mountVars, bothVars>>)
           \/ TellMount(t) \/ MountTold(t)
           \/ (MountGoOn(t) /\ UNCHANGED <<subscriberVars, bothVars>>)

Next ==
    /\ fault = "none" /\ misuse = "none"
    /\ \/ \E t \in Thread : \/ Step(t)
                            \/ calls[t] = <<>> /\ StartCall(t) /\ UNCHANGED <<mountVars, bothVars>>
                            \/ GiveBack(t)
       \/ \E s \in Subscriber : HandleEvent(s) /\ UNCHANGED <<mountVars, bothVars>>
       \/ MountDestruct /\ called = {} /\ UNCHANGED <<subscriberVars, bothVars>>

\* A call that was made runs on, and a dispatcher handles its events.
Fairness == /\ \A t \in Thread : WF_vars(Step(t) /\ fault = "none" /\ misuse = "none")
            /\ \A s \in Subscriber : WF_vars(HandleEvent(s) /\ fault = "none" /\ misuse = "none"
                                             /\ UNCHANGED <<mountVars, bothVars>>)

Spec == Init /\ [][Next]_vars
FairSpec == Spec /\ Fairness

\* Every change, subscribe and unsubscribe returns: nobody waits for an alignment that does
\* not end.  (The calls of a program are finitely many: if one did not return, there would be
\* no rest.)
SubscriberCallsReturn == ~Resting ~> Resting \/ fault # "none" \/ misuse # "none"
=============================================================================
