----------------------------- MODULE ObjectTree -----------------------------
(***************************************************************************)
(* The tree of objects of src/store/object.c, as one thread uses it: what  *)
(* declare, define, delete, release, lookup and resume do to parents and   *)
(* children, with placeholders of unknown type for the parents that are    *)
(* not there yet, and the collector that empties the tree at the end       *)
(* (src/store/collect.c).  corto_destruct, corto_drop and corto_release    *)
(* call each other and the destructors of the application, which call the  *)
(* store again: the stack of calls is part of the state, and a step does   *)
(* what the innermost call does up to its next call.                       *)
(*                                                                         *)
(* A value is one reference to another object.  Threads are in ObjectStore.*)
(***************************************************************************)
EXTENDS Integers, Sequences, FiniteSets, SequencesExt

CONSTANTS
    MaxObjects, \* bound: allocations
    Name,       \* ids of objects in their scope
    Setup       \* the programs, see Programs

Root == 0       \* root_o, which is builtin
Null == -1
Object == 1..MaxObjects
Node == Object \cup {Root}

ASSUME TreeAssumption == MaxObjects \in Nat

\* Types: `leaf' has no children, `picky' has a parentType which is `plain', `void'
\* has no value; placeholders have the type corto_unknown_o.
Type == {"plain", "leaf", "picky", "void"}

\* Sources: the process itself (NULL), a mount with LOCAL_SOURCE, another mount.
Source == {"none", "local", "remote"}

\* A program: the types and calls that occur in it, how many calls it makes, and which
\* and how many are made in constructors, destructors and observers; whether these may
\* delete objects of which there are other references; whether constructors can fail,
\* a mount can resume objects; which values refer to what: those of objects in the root to each
\* other, those of objects to their children, or all; whether to collect at the end, and cycles too.
Programs == [types: SUBSET Type, sources: SUBSET Source,
             does: SUBSET {"declare", "create", "create path", "define", "delete", "claim",
                           "ref", "lookup", "source"},
             calls: Nat, within: SUBSET {"create path", "delete", "claim"}, callbacks: Nat, deletesShared: BOOLEAN,
             fails: BOOLEAN, mount: BOOLEAN, refers: {"roots", "children", "all"},
             collect: SUBSET {"objects", "cycles"}]

VARIABLES
    program, \* fixed at the start
    obj,     \* the objects
    current, \* corto_get_source of the thread
    held,    \* history: references that the application has to give up
    initial, \* history: objects that still have the reference they start with
    stack,   \* the calls under way, the innermost last
    ret,     \* what the last call returned
    budget,  \* calls that are left, of the program and of callbacks
    collect, \* the collector: what is marked, its stack, the objects in a cycle; history:
             \* all objects, when they were all in the tree
    fault    \* "none", or what went wrong first

vars == <<program, obj, current, held, initial, stack, ret, budget, collect, fault>>

NewObject(t, p, n) ==
    [mem |-> "live", type |-> t, parent |-> p, name |-> n, count |-> 1, valid |-> FALSE,
     deleted |-> FALSE, resumed |-> FALSE, source |-> "none", ref |-> Null, cycle |-> FALSE,
     scope |-> [m \in Name |-> Null]]
Unused == [NewObject("plain", Null, CHOOSE n \in Name : TRUE) EXCEPT !.mem = "unused", !.count = 0]

Init ==
    /\ program \in Setup
    /\ obj = [o \in Node |-> IF o = Root
                THEN [NewObject("plain", Null, CHOOSE n \in Name : TRUE) EXCEPT !.valid = TRUE, !.type = "root"]
                ELSE Unused]
    /\ current = "none"
    /\ held = [o \in Object |-> 0] /\ initial = {}
    /\ stack = <<>> /\ ret = 0
    /\ budget = [main |-> program.calls, callback |-> program.callbacks]
    /\ collect = [tree |-> {}, marked |-> {}, path |-> <<>>, cycles |-> <<>>, ended |-> FALSE]
    /\ fault = "none"

(***************************************************************************)
(* Calls                                                                   *)
(***************************************************************************)
\* A call about object o that is at a point of the code, with its local variables:
\* the argument delete, objects it has still to handle, a name and a type to
\* declare, and how to go on.
Frame(at, o) == [at |-> at, o |-> o, delete |-> FALSE, drop |-> TRUE, todo |-> {},
                 done |-> {}, name |-> CHOOSE n \in Name : TRUE, type |-> "plain", how |-> ""]

Top == stack[Len(stack)]
At(p) == stack # <<>> /\ Top.at = p
Goes(f) == Append(Front(stack), f)
Calls(f, g) == stack' = Append(Goes(f), g)
Goto(f) == stack' = Goes(f)
Returns(r) == stack' = Front(stack) /\ ret' = r
Live(o) == obj[o].mem = "live"
Fault(what) == fault' = IF fault = "none" THEN what ELSE fault
Counted(o, n) == IF o \in Object THEN [obj EXCEPT ![o].count = @ + n] ELSE obj
Children(p) == {obj[p].scope[n] : n \in Name} \ {Null}

\* The object uses its own memory only while it is allocated.
Uses(o) == IF o \in Object /\ ~Live(o) THEN Fault("use after free") ELSE UNCHANGED fault

\* History: the application gives up a reference of its own.
Owes(o) == o \in initial \/ held[o] > 0
GiveUp(o) == /\ initial' = initial \ {o}
             /\ held' = [held EXCEPT ![o] = IF o \in initial THEN @ ELSE @ - 1]
NothingGivenUp == UNCHANGED <<initial, held>>
rest == <<program, current, budget, collect>>

\* Destructors and constructors run at "callback".
IsCallback == At("callback")
Busy(o) == \E i \in DOMAIN stack : stack[i].o = o

(***************************************************************************)
(* corto_owned, corto_source_match                                         *)
(***************************************************************************)
SourceMatch(s, c) == s = c \/ {s, c} = {"none", "local"}

Owned(o) == ~obj[o].valid \/ SourceMatch(obj[o].source, current)

IsResumed(o) == o # Root /\ (obj[o].type = "unknown" \/ obj[o].resumed)

(***************************************************************************)
(* corto_adopt, corto_declareChild_intern                                  *)
(***************************************************************************)
Free == {o \in Object : obj[o].mem = "unused"}
NewId == CHOOSE o \in Free : \A p \in Free : o <= p

\* corto_adopt_checkConstraints
Rejects(p, t) ==
    \/ obj[p].type = "leaf"
    \/ t = "picky" /\ obj[p].type # "plain"

\* corto_adopt_replaceUnknown: the new object takes over the scope of the unknown one,
\* and the children refer to it.  The last child that is moved frees the unknown.
ForgetsParent(e, o, new) == \* mutant: the children still refer to the unknown object
    [q \in Node |-> CASE q = o -> [new EXCEPT !.scope = obj[e].scope]
                      [] q = e -> [obj[e] EXCEPT !.parent = Null, !.scope = [m \in Name |-> Null]]
                      [] OTHER -> obj[q]]

ReplaceUnknown(e, o, new) ==
    LET cs == Children(e)
        n == Cardinality(cs)
    IN [q \in Node |->
          CASE q = o -> [new EXCEPT !.scope = obj[e].scope, !.count = @ + n]
            [] q = e -> [obj[e] EXCEPT !.parent = Null, !.count = @ - n,
                            !.scope = [m \in Name |-> Null],
                            !.mem = IF obj[e].count = n THEN "freed" ELSE "live"]
            [] q \in cs -> [obj[q] EXCEPT !.parent = o]
            [] OTHER -> obj[q]]

\* What happens to the objects, and the result.
Declared(p, n, t, forceType) ==
    LET e == obj[p].scope[n]
        replaces == e # Null /\ obj[e].type = "unknown" /\ t # "unknown"
        new == NewObject(t, p, n)
        added == [obj EXCEPT ![NewId] = new, ![p].count = @ + IF p = Root THEN 0 ELSE 1]
        replaced == ReplaceUnknown(e, NewId, new)
        failed == [obj |-> obj, o |-> Null]
    IN IF e # Null /\ ~replaces
       THEN IF (forceType /\ obj[e].type # t) THEN failed
            ELSE [obj |-> Counted(e, 1), o |-> e]
       ELSE IF ~Rejects(p, t)
       THEN [obj |-> [(IF replaces THEN replaced ELSE added) EXCEPT ![p].scope[n] = NewId],
             o |-> NewId]
       ELSE IF replaces
       THEN [obj |-> [replaced EXCEPT ![p].scope[n] = Null, ![NewId].parent = Null], o |-> Null]
       ELSE failed

IsNew(o) == o # Null /\ obj[o].mem = "unused"

\* The reference that declare returns: the first one, or a claim.
Given(o) ==
    CASE o = Null -> NothingGivenUp
      [] o # Null /\ IsNew(o) -> initial' = initial \cup {o} /\ UNCHANGED held
      [] OTHER -> held' = [held EXCEPT ![o] = @ + 1] /\ UNCHANGED initial

\* A void object has no value and is valid at once, unless it is the last of a path.
Instantly(d, t) == IF t = "void" /\ IsNew(d.o) THEN [d.obj EXCEPT ![d.o].valid = TRUE] ELSE d.obj


(***************************************************************************)
(* What the application calls, from its threads and from callbacks         *)
(***************************************************************************)
Spend ==
    /\ fault = "none" /\ ~collect.ended
    /\ IF stack = <<>>
       THEN budget.main > 0 /\ budget' = [budget EXCEPT !.main = @ - 1]
       ELSE IsCallback /\ budget.callback > 0 /\ budget' = [budget EXCEPT !.callback = @ - 1]

\* c is in the scope of o, or further below.
Below(c, o) ==
    LET up[p \in Node \cup {Null}] == IF p = Null THEN FALSE ELSE p = o \/ up[obj[p].parent]
    IN up[obj[c].parent]

Does(call) ==
    /\ call \in IF stack = <<>> THEN program.does ELSE program.within
    /\ Spend /\ UNCHANGED <<program, collect>>
CanUse(o) == o \in Object /\ Live(o) /\ Owes(o) /\ ~Busy(o)
IsScope(p) == p = Root \/ (CanUse(p) /\ ~obj[p].deleted)
Enters(f) == stack' = Append(stack, f) /\ UNCHANGED ret
Stays == UNCHANGED <<stack, ret>>

\* corto_declare and corto_create of an object in the scope of p.
Declare(p, n, t, how) ==
    LET d == Declared(p, n, t, TRUE) IN
    /\ Does(how) /\ IsScope(p) /\ t \in program.types /\ Free # {}
    /\ obj' = Instantly(d, t)
    /\ Given(d.o)
    /\ IF how = "create" /\ d.o # Null THEN Enters([Frame("finish", d.o) EXCEPT !.how = how])
       ELSE Stays
    /\ UNCHANGED <<current, fault>>

\* The first name of a path: the parent is unknown unless it exists, see DeclareNext.
StartPath(p, n, m, t, how) ==
    LET d == Declared(p, n, "unknown", FALSE) IN
    /\ Cardinality(Free) >= 2 /\ obj' = d.obj
    /\ IF d.o = Null THEN Stays
       ELSE Enters([Frame("next", d.o) EXCEPT !.name = m, !.type = t, !.how = how])

DeclarePath(p, n, m, t, how) ==
    /\ Does(how) /\ IsScope(p) /\ t \in program.types
    /\ StartPath(p, n, m, t, how)
    /\ UNCHANGED <<current, initial, held, fault>>

Define(o) ==
    /\ Does("define") /\ CanUse(o) /\ ~obj[o].valid /\ ~obj[o].deleted
    /\ Enters(Frame("define", o))
    /\ UNCHANGED <<obj, current, initial, held, fault>>

\* Callbacks delete what nobody else refers to, unless the program says otherwise, and
\* never the parent of an object which a call is about.
Delete(o) ==
    /\ Does("delete") /\ CanUse(o) /\ Owned(o)
    /\ IsCallback => program.deletesShared \/ ~(o \in initial /\ held[o] > 0)
    /\ \A c \in Object : Busy(c) => ~Below(c, o)
    /\ Enters(Frame("delete", o))
    /\ UNCHANGED <<obj, current, initial, held, fault>>

\* corto_claim of an object that is in use, or of the parent of one.
Claim(o) ==
    /\ Does("claim")
    /\ CanUse(o) \/ \E c \in Object : CanUse(c) /\ obj[c].parent = o
    /\ obj' = Counted(o, 1)
    /\ held' = [held EXCEPT ![o] = @ + 1]
    /\ UNCHANGED <<current, initial, stack, ret, fault>>

Release(o) ==
    /\ Does("claim") /\ held[o] > 0 /\ ~Busy(o)
    /\ held' = [held EXCEPT ![o] = @ - 1]
    /\ Enters(Frame("release", o))
    /\ UNCHANGED <<obj, current, initial, fault>>

\* corto_set_ref
SetRef(o, r) ==
    LET old == obj[o].ref IN
    /\ Does("ref") /\ CanUse(o) /\ obj[o].valid /\ obj[o].type # "void"
    /\ CanUse(r) /\ r # old
    /\ CASE program.refers = "roots" -> obj[o].parent = Root /\ obj[r].parent = Root
         [] program.refers = "children" -> obj[r].parent = o
         [] OTHER -> TRUE
    /\ obj' = [Counted(r, 1) EXCEPT ![o].ref = r]
    /\ IF old = Null THEN Stays ELSE Enters(Frame("release", old))
    /\ UNCHANGED <<current, initial, held, fault>>

\* corto_lookup of a name in a scope.  An unknown object cannot be looked up.
Found(p, n) == LET c == obj[p].scope[n] IN c # Null /\ obj[c].type # "unknown"

Lookup(p, n) ==
    /\ Does("lookup") /\ IsScope(p) /\ Found(p, n)
    /\ obj' = Counted(obj[p].scope[n], 1)
    /\ held' = [held EXCEPT ![obj[p].scope[n]] = @ + 1]
    /\ UNCHANGED <<current, initial, stack, ret, fault>>

\* What is not in the tree is resumed from a mount, when that has it: the mount is the
\* source, and declares the object by its path from the root.
Resume(p, n) ==
    /\ Does("lookup") /\ IsScope(p) /\ ~Found(p, n)
    /\ program.mount /\ current = "none"
    /\ current' = "local"
    /\ IF p = Root
       THEN LET d == Declared(Root, n, "plain", TRUE)
            IN /\ Free # {} /\ d.o # Null
               /\ obj' = d.obj
               /\ Given(d.o)
               /\ Enters([Frame("finish", d.o) EXCEPT !.how = "resume"])
       ELSE /\ obj[p].parent = Root /\ obj[Root].scope[obj[p].name] = p
            /\ StartPath(Root, obj[p].name, n, "plain", "resume")
            /\ NothingGivenUp
    /\ UNCHANGED fault

\* corto_set_source
SetSource(s) ==
    /\ Does("source") /\ s \in program.sources \ {current}
    /\ current' = s
    /\ UNCHANGED <<obj, initial, held, stack, ret, fault>>

(***************************************************************************)
(* corto_declareChildRecursive_intern, corto_define_intern                 *)
(***************************************************************************)
Internal == UNCHANGED rest /\ NothingGivenUp /\ UNCHANGED fault

\* The last name; the reference to the intermediate parent is given up.
DeclareNext ==
    LET d == Declared(Top.o, Top.name, Top.type, TRUE) IN
    /\ At("next")
    /\ obj' = d.obj
    /\ Given(d.o)
    /\ Calls([Frame("finish", d.o) EXCEPT !.how = Top.how], Frame("release", Top.o))
    /\ UNCHANGED <<rest, ret, fault>>

\* create and resume define the object, unless it is defined already.
Finish ==
    /\ At("finish")
    /\ IF Top.o = Null \/ Top.how = "declare" \/ obj[Top.o].valid
       THEN Goto([Top EXCEPT !.at = "finished"]) /\ ret' = 0
       ELSE Calls([Top EXCEPT !.at = "finished"], Frame("define", Top.o)) /\ UNCHANGED ret
    /\ UNCHANGED obj /\ Internal

\* An object that could not be defined is deleted by create when it was declared
\* without a path, and released when it was.
CreateFails ==
    /\ At("finished") /\ ret # 0 /\ Top.how \in {"create", "create path"}
    /\ IF Top.how = "create"
       THEN Goto(Frame("delete", Top.o)) /\ NothingGivenUp
       ELSE Goto(Frame("release", Top.o)) /\ GiveUp(Top.o)
    /\ UNCHANGED <<rest, obj, ret, fault>>

\* A lookup that resumes an object returns its first reference.
ResumeReturns ==
    /\ At("finished") /\ Top.how = "resume"
    /\ current' = "none"
    /\ IF Top.o # Null /\ ret = 0
       THEN /\ obj' = [obj EXCEPT ![Top.o].resumed = TRUE]
            /\ initial' = initial \ {Top.o}
            /\ held' = [held EXCEPT ![Top.o] = @ + IF Top.o \in initial THEN 1 ELSE 0]
       ELSE UNCHANGED <<obj, initial, held>>
    /\ Returns(0)
    /\ UNCHANGED <<program, budget, collect, fault>>

CreateReturns ==
    /\ At("finished") /\ Top.how # "resume"
    /\ Top.how = "declare" \/ ret = 0
    /\ Returns(0)
    /\ UNCHANGED obj /\ Internal

\* The source is that of the thread, or a mount that has the object.  A constructor
\* runs when the source is this process.
DefineBegin ==
    /\ At("define")
    /\ \E s \in {current} \cup {m \in {"local"} : program.mount /\ current = "none"} :
          /\ obj' = [obj EXCEPT ![Top.o].source = s]
          /\ IF obj[Top.o].type = "unknown" THEN Returns(-1)
             ELSE /\ IF SourceMatch(s, "none")
                     THEN Calls([Top EXCEPT !.at = "constructed", !.how = "construct"],
                                Frame("callback", Top.o))
                     ELSE Goto([Top EXCEPT !.at = "constructed"])
                  /\ UNCHANGED ret
    /\ Internal

DefineEnd ==
    /\ At("constructed")
    /\ \/ obj' = [obj EXCEPT ![Top.o].valid = TRUE] /\ Returns(0)
       \/ Top.how = "construct" /\ program.fails /\ Returns(-1) /\ UNCHANGED obj
    /\ Internal

CallbackReturns == IsCallback /\ Returns(0) /\ UNCHANGED obj /\ Internal

(***************************************************************************)
(* corto_release, corto_destruct                                           *)
(***************************************************************************)
\* The last reference destructs the object.
ReleaseBegin ==
    LET n == obj[Top.o].count - 1 IN
    /\ At("release")
    /\ IF Top.o = Root THEN Returns(1) /\ UNCHANGED obj
       ELSE /\ obj' = Counted(Top.o, -1)
            /\ IF n = 0 THEN Goto([Frame("destruct", Top.o) EXCEPT !.how = "release"]) /\ UNCHANGED ret
               ELSE Returns(n)
    /\ IF Top.o = Root THEN UNCHANGED fault
       ELSE IF n < 0 THEN Fault("negative reference count") ELSE Uses(Top.o)
    /\ UNCHANGED rest /\ NothingGivenUp

DestructObject(o, delete, drop) ==
    [Frame("destruct", o) EXCEPT !.delete = delete, !.drop = drop]

\* The object keeps itself while it is destructed.  The destructor runs first.
DestructBegin ==
    LET o == Top.o IN
    /\ At("destruct")
    /\ obj' = Counted(o, 1)
    /\ IF obj[o].deleted THEN Goto([Top EXCEPT !.at = "leave"])
       ELSE IF obj[o].valid /\ Owned(o)
       THEN Calls([Top EXCEPT !.at = "destructed"], Frame("callback", o))
       ELSE Goto([Top EXCEPT !.at = "mark"])
    /\ UNCHANGED <<rest, ret>> /\ NothingGivenUp /\ Uses(o)

\* From here the object is marked as deleted; its scope is dropped.
DestructMark ==
    LET o == Top.o IN
    /\ At("mark") \/ At("destructed")
    /\ obj' = [obj EXCEPT ![o].deleted = TRUE, ![o].valid = @ /\ At("mark")]
    /\ LET next == [Top EXCEPT !.at = IF obj[o].valid THEN "notify" ELSE "orphan"]
       IN IF Top.drop
          THEN Calls(next, [Frame("drop", o) EXCEPT !.delete = Top.delete])
          ELSE Goto(next)
    /\ UNCHANGED ret /\ Internal

\* Observers of DELETE or SUSPEND.
DestructNotify ==
    /\ At("notify")
    /\ Calls([Top EXCEPT !.at = "orphan"], Frame("callback", Top.o))
    /\ UNCHANGED <<obj, ret>> /\ Internal

\* corto_orphan removes by name.
Orphan ==
    LET o == obj[Top.o] IN
    /\ At("orphan")
    /\ obj' = IF o.parent = Null THEN obj ELSE [obj EXCEPT ![o.parent].scope[o.name] = Null]
    /\ Goto([Top EXCEPT !.at = "leave"])
    /\ UNCHANGED ret /\ Internal

\* Without references, the object releases its value, unless that is left to the
\* collector, and then its parent.
DestructLeave ==
    LET o == Top.o
        deinit == [Top EXCEPT !.at = "deinit"]
        releases == obj[o].ref # Null /\ ~obj[o].cycle
    IN /\ At("leave")
       /\ IF obj[o].count > 1
          THEN Returns(IF Top.how = "release" THEN 0 ELSE 1) /\ obj' = Counted(o, -1)
          ELSE /\ obj' = [Counted(o, -1) EXCEPT ![o].ref = IF releases THEN Null ELSE @]
               /\ IF releases THEN Calls(deinit, Frame("release", obj[o].ref)) ELSE Goto(deinit)
               /\ UNCHANGED ret
       /\ Internal

DeinitScope ==
    LET p == obj[Top.o].parent IN
    /\ At("deinit")
    /\ obj' = [obj EXCEPT ![Top.o].parent = Null]
    /\ IF p = Null THEN Goto([Top EXCEPT !.at = "free"])
       ELSE Calls([Top EXCEPT !.at = "free"], Frame("release", p))
    /\ UNCHANGED ret /\ Internal

FreeObject ==
    /\ At("free")
    /\ obj' = [obj EXCEPT ![Top.o].mem = "freed"]
    /\ Returns(0)
    /\ Internal

\* corto_delete
DeleteBegin ==
    /\ At("delete")
    /\ Calls([Top EXCEPT !.at = "deleted"], DestructObject(Top.o, TRUE, TRUE))
    /\ UNCHANGED <<obj, ret>> /\ Internal

DeleteEnd ==
    /\ At("deleted")
    /\ IF ret = 0 THEN Returns(0) /\ NothingGivenUp
       ELSE Goto(Frame("release", Top.o)) /\ GiveUp(Top.o) /\ UNCHANGED ret
    /\ UNCHANGED <<rest, obj, fault>>

(***************************************************************************)
(* corto_drop                                                              *)
(***************************************************************************)
\* The objects in the scope are collected, with a claim.
ClaimAll(os) == [o \in Node |-> IF o \in os THEN [obj[o] EXCEPT !.count = @ + 1] ELSE obj[o]]

DropBegin ==
    /\ At("drop")
    /\ obj' = ClaimAll(Children(Top.o))
    /\ Goto([Top EXCEPT !.at = "dropping", !.todo = Children(Top.o)])
    /\ UNCHANGED ret /\ Internal

\* Each of them is destructed, and dropped itself.
DropNext ==
    /\ At("dropping")
    /\ \/ Top.todo = {} /\ Returns(0)
       \/ \E c \in Top.todo :
             Calls([Top EXCEPT !.todo = @ \ {c}],
                   [Frame("drop child", c) EXCEPT !.delete = Top.delete]) /\ UNCHANGED ret
    /\ UNCHANGED obj /\ Internal

DropChild ==
    /\ At("drop child")
    /\ Calls([Top EXCEPT !.at = "drop nested"], DestructObject(Top.o, Top.delete, TRUE))
    /\ UNCHANGED <<obj, ret>> /\ Internal

DropNested ==
    /\ At("drop nested")
    /\ Calls([Top EXCEPT !.at = "drop claim"], [Frame("drop", Top.o) EXCEPT !.delete = Top.delete])
    /\ UNCHANGED <<obj, ret>> /\ Internal

\* The claim is released, and then the first reference unless the object is resumed.
DropClaim ==
    /\ At("drop claim")
    /\ Calls([Top EXCEPT !.at = "drop last", !.how = IF IsResumed(Top.o) THEN "resumed" ELSE ""],
             Frame("release", Top.o))
    /\ UNCHANGED <<obj, ret>> /\ Internal

ReleasesAlways(f) == ret # 0 \* mutant: also when it is resumed
ReleasesLast(f) == ret # 0 /\ f.how # "resumed"

DropLast ==
    /\ At("drop last")
    /\ IF ReleasesLast(Top)
       THEN Goto(Frame("release", Top.o)) /\ initial' = initial \ {Top.o} /\ UNCHANGED <<held, ret>>
       ELSE Returns(0) /\ NothingGivenUp
    /\ UNCHANGED <<rest, obj, fault>>

(***************************************************************************)
(* corto_collect                                                           *)
(***************************************************************************)
\* At the end, without references of the application.
Collect ==
    /\ program.collect # {} /\ stack = <<>> /\ ~collect.ended /\ current = "none"
    /\ fault = "none" /\ \A o \in Object : held[o] = 0
    /\ stack' = <<Frame("collecting", Root), Frame("traverse", Root)>>
    /\ LET live == {o \in Object : Live(o)}
       IN collect' = [collect EXCEPT !.tree = IF \E o \in live : obj[o].deleted THEN {} ELSE live]
    /\ UNCHANGED <<program, current, budget, obj, initial, held, ret, fault>>

Collector == UNCHANGED <<program, current, budget>>

\* corto_collect_eval: an object on the path of references is in a cycle.
OnlySelf(o) == collect.path # <<>> /\ o = Last(collect.path) /\ ~obj[o].cycle \* mutant
InCycle(o) == o \in Range(collect.path) /\ ~obj[o].cycle
Evaluated(os) ==
    LET new == {o \in os : InCycle(o)}
    IN /\ obj' = [o \in Node |-> IF o \in new THEN [obj[o] EXCEPT !.cycle = TRUE] ELSE obj[o]]
       /\ collect' = [collect EXCEPT !.cycles = @ \o SetToSeq(new)]

\* An object is visited once, and destructed without its scope.
Traverse ==
    LET o == Top.o IN
    /\ At("traverse")
    /\ IF o \in collect.marked
       THEN Evaluated({o}) /\ Returns(1)
       ELSE /\ collect' = [collect EXCEPT !.marked = @ \cup {o}]
            /\ UNCHANGED obj
            /\ IF o = Root \/ obj[o].deleted
               THEN Goto([Top EXCEPT !.at = "traversed"]) /\ ret' = obj[o].count
               ELSE /\ Calls([Top EXCEPT !.at = "traverse release",
                                         !.how = IF IsResumed(o) THEN "resumed" ELSE ""],
                             DestructObject(o, FALSE, FALSE))
                    /\ UNCHANGED ret
    /\ Collector /\ NothingGivenUp /\ Uses(o)

\* The first reference is released, unless the object is resumed.
TraverseRelease ==
    LET o == Top.o
        next == [Top EXCEPT !.at = "traversed"]
    IN /\ At("traverse release")
       /\ IF ret = 0 THEN Goto(next) /\ UNCHANGED <<initial, ret>>
          ELSE IF Top.how = "resumed"
          THEN Goto(next) /\ ret' = obj[o].count /\ UNCHANGED initial
          ELSE Calls(next, Frame("release", o)) /\ initial' = initial \ {o} /\ UNCHANGED ret
       /\ UNCHANGED <<rest, obj, held, fault>>

\* What still has references may be in a cycle: with the parent and with what the
\* value refers to.
FollowsReferences(o) == o # Root /\ "cycles" \in program.collect /\ ~InCycle(o)

TraverseReferences ==
    LET o == Top.o
        next == [Top EXCEPT !.at = "traverse scope"]
    IN /\ At("traversed")
       /\ IF ret = 0 THEN Returns(1) /\ UNCHANGED <<obj, collect>>
          ELSE IF o # Root /\ "cycles" \in program.collect /\ InCycle(o)
          THEN Evaluated({o}) /\ Goto(next) /\ UNCHANGED ret
          ELSE IF ~FollowsReferences(o)
          THEN Goto(next) /\ UNCHANGED <<obj, collect, ret>>
          ELSE /\ obj' = IF InCycle(obj[o].parent) THEN [obj EXCEPT ![obj[o].parent].cycle = TRUE] ELSE obj
               /\ collect' = [collect EXCEPT !.path = Append(@, o),
                       !.cycles = IF InCycle(obj[o].parent) THEN Append(@, obj[o].parent) ELSE @]
               /\ IF obj[o].ref = Null THEN Goto([Top EXCEPT !.at = "traverse pop"])
                  ELSE Calls([Top EXCEPT !.at = "traverse pop"], Frame("traverse", obj[o].ref))
               /\ UNCHANGED ret
       /\ Collector /\ NothingGivenUp /\ UNCHANGED fault

TraversePop ==
    /\ At("traverse pop")
    /\ collect' = [collect EXCEPT !.path = Front(@)]
    /\ Goto([Top EXCEPT !.at = "traverse scope"])
    /\ UNCHANGED <<obj, ret, fault>> /\ Collector /\ NothingGivenUp

\* The children are claimed while they are visited.
TraverseScope ==
    /\ At("traverse scope")
    /\ obj' = ClaimAll(Children(Top.o))
    /\ Goto([Top EXCEPT !.at = "traverse next", !.todo = Children(Top.o), !.done = Children(Top.o)])
    /\ UNCHANGED ret /\ Internal /\ Uses(Top.o)

TraverseNext ==
    /\ At("traverse next")
    /\ \/ \E c \in Top.todo :
             Calls([Top EXCEPT !.todo = @ \ {c}], Frame("traverse", c)) /\ UNCHANGED ret
       \/ /\ Top.todo = {}
          /\ \/ \E c \in Top.done :
                   Calls([Top EXCEPT !.done = @ \ {c}], Frame("release", c)) /\ UNCHANGED ret
             \/ Top.done = {} /\ Returns(1)
    /\ UNCHANGED obj /\ Internal

\* corto_collect_objects: the value of an object in a cycle is released, and then the
\* object with a claim of the collector.
CollectValue ==
    LET o == Head(collect.cycles) IN
    /\ At("collecting") /\ collect.cycles # <<>>
    /\ collect' = [collect EXCEPT !.cycles = Tail(@)]
    /\ obj' = [obj EXCEPT ![o].count = @ + 1, ![o].ref = Null]
    /\ LET next == [Top EXCEPT !.at = "collected", !.o = o]
       IN IF obj[o].ref = Null THEN Goto(next) ELSE Calls(next, Frame("release", obj[o].ref))
    /\ UNCHANGED ret /\ Collector /\ NothingGivenUp /\ Uses(o)

CollectObject ==
    /\ At("collected")
    /\ Calls(Frame("collecting", Root), Frame("release", Top.o))
    /\ UNCHANGED <<obj, ret>> /\ Internal

CollectEnds ==
    /\ At("collecting") /\ collect.cycles = <<>>
    /\ collect' = [collect EXCEPT !.ended = TRUE]
    /\ Returns(0)
    /\ UNCHANGED <<obj, fault>> /\ Collector /\ NothingGivenUp

(***************************************************************************)
(* The specification                                                       *)
(***************************************************************************)
AppStep ==
    \/ \E p \in Node, n \in Name :
          \/ \E t \in Type, how \in {"declare", "create"} : Declare(p, n, t, how)
          \/ \E m \in Name, t \in Type, how \in {"declare", "create path"} : DeclarePath(p, n, m, t, how)
          \/ Lookup(p, n) \/ Resume(p, n)
    \/ \E o \in Object : Define(o) \/ Delete(o) \/ Claim(o) \/ Release(o)
    \/ \E o \in Object, r \in Object : SetRef(o, r)
    \/ \E s \in Source : SetSource(s)
    \/ Collect

Declaring == DeclareNext \/ Finish \/ CreateFails \/ ResumeReturns \/ CreateReturns
Defining == DefineBegin \/ DefineEnd \/ CallbackReturns
Destructing ==
    \/ ReleaseBegin \/ DestructBegin \/ DestructMark \/ DestructNotify \/ Orphan
    \/ DestructLeave \/ DeinitScope \/ FreeObject \/ DeleteBegin \/ DeleteEnd
Dropping == DropBegin \/ DropNext \/ DropChild \/ DropNested \/ DropClaim \/ DropLast
Collecting ==
    \/ Traverse \/ TraverseRelease \/ TraverseReferences \/ TraversePop \/ TraverseScope
    \/ TraverseNext \/ CollectValue \/ CollectObject \/ CollectEnds

Call == Declaring \/ Defining \/ Destructing \/ Dropping \/ Collecting
Next == AppStep \/ (fault = "none" /\ Call)

Spec == Init /\ [][Next]_vars

(***************************************************************************)
(* Properties                                                              *)
(***************************************************************************)
TypeOK ==
    /\ \A o \in Node : /\ obj[o].mem \in {"unused", "live", "freed"}
                       /\ obj[o].parent \in Node \cup {Null} /\ obj[o].ref \in Object \cup {Null}
                       /\ obj[o].count \in Int
                       /\ \A n \in Name : obj[o].scope[n] \in Object \cup {Null}
    /\ initial \subseteq Object /\ held \in [Object -> Int]
    /\ current \in Source /\ ret \in Int

LiveObjects == {o \in Object : Live(o)}

\* References to an object that a call has taken and has still to give up.
OfFrame(f, o) ==
    CASE f.at \in {"release", "next", "drop child", "drop nested", "drop claim", "destructed", "mark",
                   "notify", "orphan", "leave", "collected"} -> IF f.o = o THEN 1 ELSE 0
      [] f.at = "dropping" -> IF o \in f.todo THEN 1 ELSE 0
      [] f.at = "traverse next" -> IF o \in f.done THEN 1 ELSE 0
      [] OTHER -> 0

References(o) ==
    (IF o \in initial THEN 1 ELSE 0) + held[o]
    + Cardinality({c \in LiveObjects : obj[c].parent = o})
    + Cardinality({c \in LiveObjects : obj[c].ref = o})
    + FoldSet(LAMBDA i, n : n + OfFrame(stack[i], o), 0, DOMAIN stack)

\* The reference count of an object is the number of references there are: that of
\* the application, those of children to their parent and of values, and those which
\* the calls under way have taken (object.c:1753, 2062, 2232).
RefcountIsExact ==
    fault = "none" => \A o \in LiveObjects : obj[o].count = References(o)

\* Whatever is referred to, by a scope, a child, a value, the application or a call,
\* is allocated, and no count becomes negative.
UsedIsAllocated ==
    /\ fault = "none"
    /\ \A o \in LiveObjects :
          /\ obj[o].parent \in Object => Live(obj[o].parent)
          /\ obj[o].ref # Null => Live(obj[o].ref)
    /\ \A p \in {Root} \cup LiveObjects : \A c \in Children(p) : Live(c)
    /\ \A o \in Object : Owes(o) => Live(o)

\* No reference is lost, given back twice, or used after that.
ReferencesAreSound == TypeOK /\ RefcountIsExact /\ UsedIsAllocated

\* Between calls an object is found by its name in the scope of its parent exactly as
\* long as it is not deleted, and its parent is not deleted either.  An unknown object
\* which was replaced is not in the tree (object.c:313).
TreeIsConsistent ==
    stack = <<>> =>
        \A o \in LiveObjects :
            LET p == obj[o].parent IN
            IF obj[o].deleted \/ (obj[o].type = "unknown" /\ p = Null)
            THEN p = Null \/ obj[p].scope[obj[o].name] # o
            ELSE p # Null /\ obj[p].scope[obj[o].name] = o /\ ~obj[p].deleted

\* The collector leaves no object behind, whatever cycles there are (bootstrap.c:1325:
\* "removal of all non-builtin objects"), when all objects are in the tree: an object
\* that was deleted and is in a cycle is not found any more.
NothingIsLeft ==
    collect.ended /\ "cycles" \in program.collect => collect.tree \cap LiveObjects = {}
=============================================================================
