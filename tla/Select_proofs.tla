---------------------------- MODULE Select_proofs ----------------------------
(***************************************************************************)
(* Proofs about Select, for selects over the store: what is returned is    *)
(* asked for, nothing is returned twice and nothing that stays is missed   *)
(* while scopes change, every object that the select claimed is released,  *)
(* and over a store that nobody changes pages are full.                    *)
(***************************************************************************)
EXTENDS Select, FiniteSetTheorems, SequenceTheorems, WellFoundedInduction, TLAPS

\* The select has no mounts to ask.
OnlyStore == select.mounts = <<>>
OneExpression == Len(select.exprs) = 1

Objects == Path \cup {NoObject}
StoreIters == [kind: {"store"}, key: Name \cup {0}, changed: BOOLEAN]
FrameSet == [o: Objects, iter: StoreIters \cup {NoIter}, mount: Nat, first: Nat, length: Nat]
TypesOf == {TypeOf(p) : p \in Path} \cup {""}
Items == [name: Name \cup {0}, hidden: BOOLEAN, object: Objects, place: Objects, type: TypesOf]

Typed ==
    /\ select \in Setup /\ objs \subseteq Path /\ written \in Nat /\ found \subseteq Path
    /\ pc \in {"idle", "tree", "segment", "next", "done"}
    /\ expr \in DOMAIN select.exprs /\ seg \in 0..Len(Expr.from)
    /\ loaded = <<>>
    /\ location.path \in Seq(Name)
    /\ stack \in Seq(FrameSet) /\ stack # <<>>
    /\ item \in Items
    /\ claims \in [Path -> Int]
    /\ yielded \in Seq([place: Objects, type: TypesOf])

\* The depth of the expression is known until an object was found for it, and only a
\* select of a tree enters scopes.
Depth ==
    /\ mask \in {Expr.mask, "none"}
    /\ mask = "none" => pc \in {"idle", "next", "done"}
    /\ pc = "segment" => mask = "self"
    /\ mask # "tree" => Len(stack) = 1

Basics == Typed /\ Depth

(***************************************************************************)
(* Paths and frames                                                        *)
(***************************************************************************)
LEMMA NamesAre == Name \subseteq Nat /\ 0 \notin Name
<1>1. PICK n : n = Cardinality(Name)
    OBVIOUS
<1>2. n \in Nat /\ Name = 1..n
    BY <1>1, SelectAssumption, FS_CardinalityType
<1> QED
    BY <1>2

LEMMA NatNames ==
    ASSUME NEW n \in Name \cup {0}
    PROVE  n \in Nat
BY NamesAre

LEMMA PathsAre ==
    ASSUME NEW p \in Path
    PROVE  p \in Seq(Name) /\ Len(p) \in 0..2
<1>1. PICK n \in 0..2 : p \in [1..n -> Name]
    BY DEF Path
<1> QED
    BY <1>1

LEMMA ShortIsPath ==
    ASSUME NEW p \in Seq(Name), Len(p) <= 2
    PROVE  p \in Path
<1>1. Len(p) \in Nat /\ p \in [1..Len(p) -> Name]
    BY LenProperties
<1> QED
    BY <1>1 DEF Path

LEMMA NoObjectIsNoPath == NoObject \notin Path
<1>1. NoObject[1] = 0 /\ Len(NoObject) = 1
    BY DEF NoObject
<1> QED
    BY <1>1, NamesAre, PathsAre

LEMMA SelectsAre ==
    ASSUME NEW s \in Setup
    PROVE  /\ s.exprs \in Seq([from: Path, filter: SUBSET Name, mask: {"self", "scope", "tree"}])
           /\ s.exprs # <<>> /\ s.objects \subseteq Path
           /\ s.writes \in Seq([op: {"add", "delete"}, path: Path])
BY SelectAssumption DEF Selects

\* A path in a scope has the name that is read there.
LEMMA ChildrenAre ==
    ASSUME NEW p \in Path, p # <<>>
    PROVE  /\ Front(p) \in Path /\ Len(Front(p)) = Len(p) - 1
           /\ \A i \in 1..Len(Front(p)) : Front(p)[i] = p[i]
           /\ Last(p) = p[Len(p)] /\ Last(p) \in Name /\ Id(p) = Last(p)
<1>1. p \in Seq(Name) /\ Len(p) \in 1..2
    BY PathsAre
<1>2. Front(p) \in Seq(Name) /\ Len(Front(p)) = Len(p) - 1 /\ \A i \in 1..Len(Front(p)) : Front(p)[i] = p[i]
    BY <1>1 DEF Front
<1>3. Front(p) \in Path
    BY <1>1, <1>2, ShortIsPath
<1> QED
    BY <1>1, <1>2, <1>3 DEF Last, Id

LEMMA IdsAre ==
    ASSUME NEW p \in Path
    PROVE  Id(p) \in Name \cup {0}
<1>1. CASE p = <<>>
    BY <1>1 DEF Id
<1>2. CASE p # <<>>
    BY <1>2, ChildrenAre
<1> QED
    BY <1>1, <1>2

LEMMA NoneInOrder == InOrder({}) = <<>>
<1>1. Cardinality({}) = 0
    BY FS_EmptySet
<1>2. <<>> \in [1..0 -> {}] /\ \A i, j \in 1..0 : i < j => <<>>[i] < <<>>[j]
    OBVIOUS
<1>3. \A s \in [1..0 -> {}] : s = <<>>
    OBVIOUS
<1> QED
    BY <1>1, <1>2, <1>3 DEF InOrder

LEMMA NothingLoaded ==
    ASSUME OnlyStore, loaded = <<>>
    PROVE  /\ \A ex, fnd, s : LoadMounts(<<>>, ex, fnd, s) = <<>>
           /\ \A s : FilterMounts(s) = <<>>
<1>1. DOMAIN <<>> = {} /\ \A S \in SUBSET {} : S = {}
    OBVIOUS
<1>2. \A ex, fnd, s : LoadMounts(<<>>, ex, fnd, s) = <<>>
  <2> SUFFICES ASSUME NEW ex, NEW fnd, NEW s PROVE LoadMounts(<<>>, ex, fnd, s) = <<>>
      OBVIOUS
  <2>1. {i \in DOMAIN select.mounts : /\ select.mounts[i].at = SegmentPath(ex, s)
                                      /\ Loads(select.mounts[i], ex, fnd, s)} = {}
      BY <1>1 DEF OnlyStore
  <2>2. LoadMounts(<<>>, ex, fnd, s) = <<>> \o InOrder({})
      BY <2>1 DEF LoadMounts
  <2> QED
      BY <2>2, NoneInOrder
<1>3. \A s : FilterMounts(s) = <<>>
  <2>1. \A S : DOMAIN loaded = {} /\ (S \subseteq {} => ItemsAt(loaded, S) = <<>>)
    <3> SUFFICES ASSUME NEW S, S \subseteq {} PROVE ItemsAt(loaded, S) = <<>>
        BY <1>1
    <3>1. Cardinality(S) = 0
        BY FS_EmptySet
    <3> QED
        BY <3>1 DEF ItemsAt
  <2> QED
      BY <2>1 DEF FilterMounts
<1> QED
    BY <1>2, <1>3

LEMMA SegmentsAre ==
    ASSUME NEW ex, NEW fnd, fnd \subseteq Path, NEW s
    PROVE  /\ SegmentObject(ex, fnd, s) \in Objects
           /\ SegmentObject(ex, fnd, s) \in {SegmentPath(ex, s), NoObject}
BY DEF SegmentObject, Objects

(***************************************************************************)
(* The steps of the walk                                                   *)
(***************************************************************************)
ReadFrame(o) ==
    [Top EXCEPT !.iter = IF @.kind = "store" /\ o # Top.o
                         THEN [@ EXCEPT !.key = Last(o), !.changed = FALSE] ELSE @]
Match(o) == ObjectMatches(o) /\ PastOffset(skip)
HiddenMatch(o) == Match(o) /\ TypeOf(o) = "unknown"
Pushes(o) == ~(Match(o) /\ ~\E p \in objs : p # <<>> /\ Front(p) = o) /\ mask = "tree"
SeenItem(o) == [name |-> Id(o), hidden |-> HiddenMatch(o), object |-> o, place |-> o, type |-> TypeOf(o)]
Child(o) == ChildFrame(o, ScopeIter(o), Len(loaded))

Visits(o) ==
    /\ item' = IF Match(o) THEN SeenItem(o) ELSE item
    /\ stack' = IF Pushes(o) THEN Append(Goes(ReadFrame(o)), Child(o)) ELSE Goes(ReadFrame(o))
    /\ claims' = Plus(IF Match(o) THEN Plus(ReleaseItem(claims), o, 1) ELSE claims,
                      IF Pushes(o) THEN o ELSE NoObject, 1)
    /\ \/ Match(o) /\ ~HiddenMatch(o) /\ pc' = "next" /\ mask' = IF mask = "self" THEN "none" ELSE mask
       \/ ~(Match(o) /\ ~HiddenMatch(o)) /\ mask' = mask
          /\ pc' = IF HiddenMatch(o) /\ mask = "self" THEN "segment" ELSE "tree"

LEMMA VisitIs ==
    ASSUME VisitObject
    PROVE  /\ pc = "tree" /\ \E o \in FromStore(Top) : Visits(o)
           /\ UNCHANGED <<select, objs, written, walk, location, count, yielded, ended>>
BY DEF VisitObject, Visits, Matched, ReadFrame, Match, HiddenMatch, Pushes, SeenItem, Child

LEMMA TopIs ==
    ASSUME Typed
    PROVE  /\ Len(stack) \in Nat \ {0} /\ Len(stack) \in DOMAIN stack /\ DOMAIN stack = 1..Len(stack)
           /\ Top \in FrameSet /\ \A n \in DOMAIN stack : stack[n] \in FrameSet
           /\ Front(stack) \in Seq(FrameSet) /\ Len(Front(stack)) = Len(stack) - 1
           /\ \A n \in 1..Len(stack) - 1 : Front(stack)[n] = stack[n]
<1>1. stack \in Seq(FrameSet) /\ stack # <<>>
    BY DEF Typed
<1>2. Len(stack) \in Nat \ {0} /\ DOMAIN stack = 1..Len(stack)
    BY <1>1
<1>3. \A n \in DOMAIN stack : stack[n] \in FrameSet
    BY <1>1, <1>2
<1>4. Front(stack) = SubSeq(stack, 1, Len(stack) - 1)
    BY DEF Front
<1> QED
    BY <1>1, <1>2, <1>3, <1>4 DEF Top

LEMMA GoesAre ==
    ASSUME Typed, NEW f \in FrameSet
    PROVE  /\ Goes(f) \in Seq(FrameSet) /\ Len(Goes(f)) = Len(stack) /\ Goes(f)[Len(stack)] = f
           /\ \A n \in 1..Len(stack) - 1 : Goes(f)[n] = stack[n]
           /\ Goes(f) # <<>>
<1>1. PICK g : g = Front(stack)
    OBVIOUS
<1>2. /\ g \in Seq(FrameSet) /\ Len(g) = Len(stack) - 1 /\ Len(stack) \in Nat \ {0}
      /\ \A n \in 1..Len(stack) - 1 : g[n] = stack[n]
    BY <1>1, TopIs
<1>3. Goes(f) = Append(g, f)
    BY <1>1 DEF Goes
<1>4. Len(Append(g, f)) = Len(stack) /\ Append(g, f) \in Seq(FrameSet) /\ Append(g, f)[Len(stack)] = f
    BY <1>2, AppendProperties
<1>5. \A n \in 1..Len(stack) - 1 : Append(g, f)[n] = stack[n]
    BY <1>2, AppendProperties
<1>6. Append(g, f) # <<>>
    BY <1>2
<1> QED
    BY <1>3, <1>4, <1>5, <1>6

\* The objects that are read next.
LEMMA FromStoreIs ==
    ASSUME Basics, NEW o \in FromStore(Top)
    PROVE  /\ o \in Path /\ Top.o \in Path /\ seg = Len(Expr.from)
           /\ \/ o = Top.o /\ mask = "self" /\ Expr.filter = {}
              \/ /\ Top.iter.kind = "store" /\ o # <<>> /\ Front(o) = Top.o /\ Last(o) > NextKey(Top)
                 /\ o # Top.o /\ ~(mask = "self" /\ Expr.filter = {})
<1>1. Top.o \in Path /\ seg = Len(Expr.from)
    BY TopIs DEF FromStore, FrameSet, Objects, Basics
<1>2. CASE mask = "self" /\ Expr.filter = {}
    BY <1>1, <1>2 DEF FromStore
<1>3. CASE ~(mask = "self" /\ Expr.filter = {})
  <2>1. Top.iter.kind = "store" /\ o \in FromScope(Top)
      BY <1>3 DEF FromStore
  <2>2. o \in objs /\ o # <<>> /\ Front(o) = Top.o /\ Last(o) > NextKey(Top)
      BY <2>1 DEF FromScope
  <2>3. o \in Path
      BY <2>2 DEF Basics, Typed
  <2>4. o # Top.o
      BY <2>2, <2>3, ChildrenAre, PathsAre
  <2> QED
      BY <1>1, <1>3, <2>1, <2>2, <2>3, <2>4
<1> QED
    BY <1>2, <1>3

\* No mount is asked.
LEMMA NoMounts ==
    ASSUME Typed
    PROVE  ~HasResult(Top) /\ ~HasRequest(Top) /\ ~AskMount /\ ~VisitResult
<1>1. Top \in FrameSet /\ Len(loaded) = 0
    BY TopIs DEF Typed
<1>2. Top.iter.kind # "mount" /\ Top.first \in Nat
    BY <1>1 DEF FrameSet, StoreIters, NoIter
<1>3. ~HasResult(Top)
    BY <1>2 DEF HasResult
<1>4. ~HasRequest(Top)
    BY <1>1, <1>2 DEF HasRequest
<1> QED
    BY <1>3, <1>4 DEF AskMount, VisitResult

LEMMA ReadFrameIs ==
    ASSUME Basics, NEW o \in FromStore(Top)
    PROVE  /\ ReadFrame(o) \in FrameSet /\ ReadFrame(o).o = Top.o /\ ReadFrame(o).iter.kind = Top.iter.kind
           /\ Top.iter.kind = "store" /\ o # Top.o =>
                 ReadFrame(o).iter.key = Last(o) /\ ReadFrame(o).iter.changed = FALSE
<1>1. Top \in FrameSet
    BY TopIs DEF Basics
<1>2. o # Top.o => Last(o) \in Name
    BY FromStoreIs, ChildrenAre
<1>3. CASE Top.iter.kind = "store" /\ o # Top.o
  <2>1. Top.iter \in StoreIters
      BY <1>1, <1>3 DEF FrameSet, NoIter
  <2>2. PICK it : it = [Top.iter EXCEPT !.key = Last(o), !.changed = FALSE]
      OBVIOUS
  <2>3. it \in StoreIters /\ it.kind = "store" /\ it.key = Last(o) /\ it.changed = FALSE
      BY <1>2, <1>3, <2>1, <2>2 DEF StoreIters
  <2>4. ReadFrame(o) = [Top EXCEPT !.iter = it]
      BY <1>3, <2>2 DEF ReadFrame
  <2> QED
      BY <1>1, <1>3, <2>3, <2>4 DEF FrameSet
<1>4. CASE ~(Top.iter.kind = "store" /\ o # Top.o)
  <2>1. ReadFrame(o) = [Top EXCEPT !.iter = Top.iter]
      BY <1>4 DEF ReadFrame
  <2>2. ReadFrame(o) = Top
      BY <1>1, <2>1 DEF FrameSet
  <2> QED
      BY <1>1, <1>4, <2>2
<1> QED
    BY <1>3, <1>4

LEMMA ScopeItersAre ==
    ASSUME NEW p
    PROVE  /\ ScopeIter(p) \in StoreIters \cup {NoIter}
           /\ ScopeIter(p).kind = "store" => ScopeIter(p).key = 0
BY DEF ScopeIter, StoreIter, StoreIters, NoIter

LEMMA ChildIs ==
    ASSUME Typed, NEW o \in Path
    PROVE  Child(o) \in FrameSet /\ Child(o).o = o /\ Child(o).iter = ScopeIter(o)
<1>1. Len(loaded) \in Nat /\ Len(location.path) \in Nat
    BY DEF Typed
<1> QED
    BY <1>1, ScopeItersAre DEF Child, ChildFrame, FrameSet, Objects

LEMMA PlusIs ==
    ASSUME NEW c \in [Path -> Int], NEW p \in Objects, NEW n \in Int
    PROVE  /\ Plus(c, p, n) \in [Path -> Int]
           /\ \A q \in Path : Plus(c, p, n)[q] = c[q] + (IF q = p THEN n ELSE 0)
<1>1. CASE p = NoObject
    BY <1>1, NoObjectIsNoPath DEF Plus
<1>2. CASE p # NoObject
  <2>1. p \in Path /\ Plus(c, p, n) = [c EXCEPT ![p] = @ + n]
      BY <1>2 DEF Plus, Objects
  <2> QED
      BY <2>1
<1> QED
    BY <1>1, <1>2

LEMMA PlusAllIs ==
    ASSUME NEW c \in [Path -> Int], NEW S, NEW n \in Int
    PROVE  /\ PlusAll(c, S, n) \in [Path -> Int]
           /\ \A q \in Path : PlusAll(c, S, n)[q] = c[q] + (IF q \in S THEN n ELSE 0)
BY DEF PlusAll

FramesOf(s, p) == {i \in DOMAIN s : s[i].o = p}

LEMMA FramesAreFinite ==
    ASSUME NEW s \in Seq(FrameSet), NEW p
    PROVE  IsFiniteSet(FramesOf(s, p)) /\ Cardinality(FramesOf(s, p)) \in Nat
<1>1. FramesOf(s, p) \subseteq 1..Len(s) /\ Len(s) \in Nat
    BY DEF FramesOf
<1>2. IsFiniteSet(1..Len(s))
    BY <1>1, FS_Interval
<1> QED
    BY <1>1, <1>2, FS_Subset, FS_CardinalityType

LEMMA ReleaseIs ==
    ASSUME Typed
    PROVE  /\ Released \in [Path -> Int]
           /\ \A p \in Path : Released[p] = claims[p] - Cardinality(FramesOf(stack, p))
                   - (IF p \in found THEN 1 ELSE 0) - (IF item.object = p THEN 1 ELSE 0)
<1>1. PICK c : c = [p \in Path |-> claims[p] - Cardinality(Frames(p))]
    OBVIOUS
<1>2. \A p \in Path : Cardinality(Frames(p)) = Cardinality(FramesOf(stack, p)) /\ Cardinality(Frames(p)) \in Nat
    BY FramesAreFinite DEF Typed, Frames, FramesOf
<1>3. c \in [Path -> Int] /\ \A p \in Path : c[p] = claims[p] - Cardinality(FramesOf(stack, p))
    BY <1>1, <1>2 DEF Typed
<1>4. PICK d : d = PlusAll(c, found, -1)
    OBVIOUS
<1>5. d \in [Path -> Int] /\ \A p \in Path : d[p] = c[p] + (IF p \in found THEN -1 ELSE 0)
    BY <1>3, <1>4, PlusAllIs
<1>6. item.object \in Objects
    BY DEF Typed, Items
<1>7. /\ Plus(d, item.object, -1) \in [Path -> Int]
      /\ \A p \in Path : Plus(d, item.object, -1)[p] = d[p] + (IF p = item.object THEN -1 ELSE 0)
    BY <1>5, <1>6, PlusIs
<1>8. Released = Plus(d, item.object, -1)
    BY <1>1, <1>4 DEF Released, ReleaseItem
<1> QED
    BY <1>2, <1>3, <1>5, <1>7, <1>8

LEMMA ItemsReset ==
    ASSUME Typed, ResetItem
    PROVE  item' \in Items /\ item'.object = NoObject
BY DEF Typed, ResetItem, Items, Objects

LEMMA FirstFrame ==
    ASSUME OnlyStore, Typed, NEW ex, NEW fnd, fnd \subseteq Path, NEW s, NEW old \in Objects,
           NEW cnt \in [Path -> Int], ex.from \in Path,
           PrepareFrame(<<>>, ex, fnd, s, old, cnt)
    PROVE  /\ loaded' = <<>> /\ location'.path \in Seq(Name)
           /\ stack' \in Seq(FrameSet) /\ stack' # <<>> /\ Len(stack') = 1
           /\ stack'[1].o = SegmentObject(ex, fnd, s) /\ stack'[1].o \in Objects
           /\ stack'[1].iter = ScopeIter(SegmentObject(ex, fnd, s))
           /\ claims' \in [Path -> Int]
           /\ \A p \in Path : claims'[p] = cnt[p] + (IF p = stack'[1].o THEN 1 ELSE 0)
                                                  - (IF p = old THEN 1 ELSE 0)
<1>1. PICK o : o = SegmentObject(ex, fnd, s)
    OBVIOUS
<1>2. o \in Objects
    BY <1>1, SegmentsAre
<1>3. /\ loaded' = <<>>
      /\ stack' = <<[o |-> o, iter |-> ScopeIter(o), mount |-> 0, first |-> 0, length |-> 0]>>
      /\ location' = [path |-> ex.from, stale |-> <<>>]
      /\ claims' = Plus(Plus(cnt, o, 1), old, -1)
    BY <1>1, NothingLoaded DEF PrepareFrame, Typed
<1>4. [o |-> o, iter |-> ScopeIter(o), mount |-> 0, first |-> 0, length |-> 0] \in FrameSet
    BY <1>2, ScopeItersAre DEF FrameSet
<1>5. PICK c : c = Plus(cnt, o, 1)
    OBVIOUS
<1>6. c \in [Path -> Int] /\ \A p \in Path : c[p] = cnt[p] + (IF p = o THEN 1 ELSE 0)
  <2>1. /\ Plus(cnt, o, 1) \in [Path -> Int]
        /\ \A p \in Path : Plus(cnt, o, 1)[p] = cnt[p] + (IF p = o THEN 1 ELSE 0)
      BY <1>2, PlusIs
  <2> QED
      BY <1>5, <2>1
<1>7. /\ claims' \in [Path -> Int]
      /\ \A p \in Path : claims'[p] = c[p] + (IF p = old THEN -1 ELSE 0)
  <2>1. /\ Plus(c, old, -1) \in [Path -> Int]
        /\ \A p \in Path : Plus(c, old, -1)[p] = c[p] + (IF p = old THEN -1 ELSE 0)
    <3>1. c \in [Path -> Int] /\ old \in Objects /\ -1 \in Int
        BY <1>6
    <3> QED
        BY <3>1, PlusIs
  <2> QED
      BY <1>3, <1>5, <2>1
<1>8. /\ stack' \in Seq(FrameSet) /\ stack' # <<>> /\ Len(stack') = 1 /\ stack'[1].o = o
      /\ stack'[1].iter = ScopeIter(o)
    BY <1>3, <1>4
<1>9. location'.path \in Seq(Name)
    BY <1>3, PathsAre
<1>10. \A p \in Path : claims'[p] = cnt[p] + (IF p = o THEN 1 ELSE 0) - (IF p = old THEN 1 ELSE 0)
    BY <1>6, <1>7
<1> QED
    BY <1>1, <1>2, <1>3, <1>7, <1>8, <1>9, <1>10

LEMMA ElementsAre ==
    ASSUME NEW S, NEW s \in Seq(S), NEW n \in DOMAIN s
    PROVE  s[n] \in S /\ n \in 1..Len(s) /\ Len(s) \in Nat
OBVIOUS

LEMMA ExprIs ==
    ASSUME Typed
    PROVE  /\ Expr \in [from: Path, filter: SUBSET Name, mask: {"self", "scope", "tree"}]
           /\ expr \in 1..Len(select.exprs) /\ Len(select.exprs) \in Nat
<1>1. select.exprs \in Seq([from: Path, filter: SUBSET Name, mask: {"self", "scope", "tree"}])
    BY SelectsAre DEF Typed
<1>2. expr \in DOMAIN select.exprs
    BY DEF Typed
<1> QED
    BY <1>1, <1>2, ElementsAre DEF Expr

(***************************************************************************)
(* Every step keeps the types                                              *)
(***************************************************************************)
LEMMA InitIsBasic ==
    ASSUME Init, OnlyStore
    PROVE  /\ Basics /\ Len(stack) = 1 /\ yielded = <<>> /\ item = NoItem /\ pc = "idle"
           /\ \A p \in Path : claims[p] = (IF p \in found THEN 1 ELSE 0) + (IF p = stack[1].o THEN 1 ELSE 0)
           /\ stack[1].o = SegmentObject(Expr, found, seg) /\ stack[1].iter = ScopeIter(stack[1].o)
<1>1. select \in Setup
    BY DEF Init
<1>2. /\ select.exprs \in Seq([from: Path, filter: SUBSET Name, mask: {"self", "scope", "tree"}])
      /\ select.exprs # <<>> /\ select.objects \subseteq Path
    BY <1>1, SelectsAre
<1>3. PICK fnd : fnd = {p \in select.objects : p = select.exprs[1].from \/ Under(select.exprs[1].from, p)}
    OBVIOUS
<1>4. PICK o : o = SegmentObject(select.exprs[1], fnd, 0)
    OBVIOUS
<1>5. fnd \subseteq Path /\ o \in Objects
    BY <1>2, <1>3, <1>4, SegmentsAre
<1>6. /\ expr = 1 /\ seg = 0 /\ found = fnd /\ mask = select.exprs[1].mask
      /\ loaded = LoadMounts(<<>>, select.exprs[1], fnd, 0)
      /\ stack = <<[o |-> o, iter |-> ScopeIter(o), mount |-> 0, first |-> 0, length |-> 0]>>
      /\ location = [path |-> select.exprs[1].from, stale |-> <<>>]
      /\ claims = Plus(PlusAll([p \in Path |-> 0], fnd, 1), o, 1)
      /\ objs = select.objects /\ written = 0 /\ pc = "idle" /\ item = NoItem /\ yielded = <<>>
    BY <1>3, <1>4 DEF Init
<1>7. loaded = <<>>
  <2>1. {i \in DOMAIN select.mounts : /\ select.mounts[i].at = SegmentPath(select.exprs[1], 0)
                                      /\ Loads(select.mounts[i], select.exprs[1], fnd, 0)} = {}
      BY DEF OnlyStore
  <2>2. loaded = <<>> \o InOrder({})
      BY <1>6, <2>1 DEF LoadMounts
  <2> QED
      BY <2>2, NoneInOrder
<1>8. [o |-> o, iter |-> ScopeIter(o), mount |-> 0, first |-> 0, length |-> 0] \in FrameSet
    BY <1>5, ScopeItersAre DEF FrameSet
<1>9. /\ stack \in Seq(FrameSet) /\ stack # <<>> /\ Len(stack) = 1 /\ stack[1].o = o
      /\ stack[1].iter = ScopeIter(o)
    BY <1>6, <1>8
<1>10. PICK c : c = PlusAll([p \in Path |-> 0], fnd, 1)
    OBVIOUS
<1>11. [p \in Path |-> 0] \in [Path -> Int] /\ \A p \in Path : [q \in Path |-> 0][p] = 0
    OBVIOUS
<1>12. c \in [Path -> Int] /\ \A p \in Path : c[p] = 0 + (IF p \in fnd THEN 1 ELSE 0)
    BY <1>10, <1>11, PlusAllIs
<1>13. claims \in [Path -> Int] /\ \A p \in Path : claims[p] = c[p] + (IF p = o THEN 1 ELSE 0)
  <2>1. c \in [Path -> Int] /\ o \in Objects /\ 1 \in Int
      BY <1>5, <1>12
  <2>2. /\ Plus(c, o, 1) \in [Path -> Int]
        /\ \A p \in Path : Plus(c, o, 1)[p] = c[p] + (IF p = o THEN 1 ELSE 0)
      BY <2>1, PlusIs
  <2> QED
      BY <1>6, <1>10, <2>2
<1>14. item \in Items
    BY <1>6 DEF NoItem, Items, Objects, TypesOf
<1>15. select.exprs[1] \in [from: Path, filter: SUBSET Name, mask: {"self", "scope", "tree"}]
      /\ 1 \in DOMAIN select.exprs
  <2>1. PICK R : R = [from: Path, filter: SUBSET Name, mask: {"self", "scope", "tree"}]
      OBVIOUS
  <2>2. select.exprs \in Seq(R) /\ select.exprs # <<>>
      BY <1>2, <2>1
  <2>3. 1 \in DOMAIN select.exprs /\ select.exprs[1] \in R
      BY <2>2
  <2> QED
      BY <2>1, <2>3
<1>16. location.path \in Seq(Name) /\ Len(Expr.from) \in Nat
    BY <1>6, <1>15, PathsAre DEF Expr
<1>17. Typed
    BY <1>1, <1>2, <1>5, <1>6, <1>7, <1>9, <1>13, <1>14, <1>15, <1>16 DEF Typed
<1>18. Depth
    BY <1>6, <1>9, <1>15 DEF Depth, Expr
<1>19. \A p \in Path : claims[p] = (IF p \in found THEN 1 ELSE 0) + (IF p = stack[1].o THEN 1 ELSE 0)
    BY <1>6, <1>9, <1>12, <1>13
<1>20. stack[1].o = SegmentObject(Expr, found, seg)
    BY <1>4, <1>6, <1>9 DEF Expr
<1> QED
    BY <1>4, <1>6, <1>9, <1>17, <1>18, <1>19, <1>20 DEF Basics

\* A visit reads the innermost frame, and may enter the scope of the object.
LEMMA VisitedFrames ==
    ASSUME Basics, NEW o \in FromStore(Top), Visits(o)
    PROVE  /\ \A n \in 1..Len(stack) - 1 : stack'[n] = stack[n]
           /\ stack'[Len(stack)] = ReadFrame(o)
           /\ \/ Len(stack') = Len(stack) /\ ~Pushes(o)
              \/ Len(stack') = Len(stack) + 1 /\ stack'[Len(stack) + 1] = Child(o) /\ Pushes(o)
<1> USE DEF Basics
<1>1. PICK L : L = Len(stack)
    OBVIOUS
<1>2. L \in Nat \ {0} /\ o \in Path
    BY <1>1, TopIs, FromStoreIs
<1>3. PICK f : f = ReadFrame(o)
    OBVIOUS
<1>4. f \in FrameSet
    BY <1>3, ReadFrameIs
<1>5. PICK g : g = Goes(f)
    OBVIOUS
<1>6. g \in Seq(FrameSet) /\ Len(g) = L /\ g[L] = f /\ \A n \in 1..L - 1 : g[n] = stack[n]
    BY <1>1, <1>4, <1>5, GoesAre
<1>7. CASE ~Pushes(o)
  <2>1. stack' = g
      BY <1>3, <1>5, <1>7 DEF Visits
  <2> QED
      BY <1>1, <1>3, <1>6, <1>7, <2>1
<1>8. CASE Pushes(o)
  <2>1. stack' = Append(g, Child(o)) /\ Child(o) \in FrameSet
      BY <1>2, <1>3, <1>5, <1>8, ChildIs DEF Visits
  <2>2. /\ Len(Append(g, Child(o))) = L + 1 /\ Append(g, Child(o))[L + 1] = Child(o)
        /\ \A n \in 1..L : Append(g, Child(o))[n] = g[n]
      BY <1>6, <2>1, AppendProperties
  <2>3. \A n \in 1..L - 1 : n \in 1..L
      BY <1>2
  <2>4. L \in 1..L
      BY <1>2
  <2> QED
      BY <1>1, <1>3, <1>6, <1>8, <2>1, <2>2, <2>3, <2>4
<1> QED
    BY <1>7, <1>8

LEMMA VisitIsTyped ==
    ASSUME Basics, VisitObject
    PROVE  Basics'
<1> USE DEF Basics
<1>1. PICK o \in FromStore(Top) : Visits(o)
    BY VisitIs
<1>2. /\ pc = "tree" /\ UNCHANGED <<select, objs, written, expr, found, seg, loaded, location, yielded>>
    BY VisitIs DEF walk
<1>3. o \in Path /\ Top.o \in Path /\ seg = Len(Expr.from)
    BY FromStoreIs
<1>4. ReadFrame(o) \in FrameSet /\ Child(o) \in FrameSet
    BY <1>3, ReadFrameIs, ChildIs
<1>5. PICK g : g = Goes(ReadFrame(o))
    OBVIOUS
<1>6. g \in Seq(FrameSet) /\ Len(g) = Len(stack) /\ g # <<>>
    BY <1>4, <1>5, GoesAre
<1>7. stack' \in Seq(FrameSet) /\ stack' # <<>> /\ (mask # "tree" => Len(stack') = Len(stack))
    BY <1>1, <1>4, <1>5, <1>6 DEF Visits, Pushes
<1>8. item' \in Items
  <2>1. CASE Match(o)
    <3>1. item' = SeenItem(o)
        BY <1>1, <2>1 DEF Visits
    <3>2. Id(o) \in Name \cup {0} /\ TypeOf(o) \in TypesOf /\ HiddenMatch(o) \in BOOLEAN
        BY <1>3, IdsAre DEF TypesOf, HiddenMatch, Match
    <3> QED
        BY <1>3, <3>1, <3>2 DEF SeenItem, Items, Objects
  <2>2. CASE ~Match(o)
      BY <1>1, <2>2 DEF Visits, Typed
  <2> QED
      BY <2>1, <2>2
<1>9. claims' \in [Path -> Int]
  <2>1. PICK c : c = IF Match(o) THEN Plus(ReleaseItem(claims), o, 1) ELSE claims
      OBVIOUS
  <2>2. item.object \in Objects /\ o \in Objects /\ claims \in [Path -> Int] /\ NoObject \in Objects
      BY <1>3 DEF Typed, Items, Objects
  <2>3. ReleaseItem(claims) \in [Path -> Int]
      BY <2>2, PlusIs DEF ReleaseItem
  <2>4. c \in [Path -> Int]
    <3>1. Plus(ReleaseItem(claims), o, 1) \in [Path -> Int]
      <4>1. ReleaseItem(claims) \in [Path -> Int] /\ o \in Objects /\ 1 \in Int
          BY <2>2, <2>3
      <4> QED
          BY <4>1, PlusIs
    <3> QED
        BY <2>1, <2>2, <3>1
  <2>5. claims' = Plus(c, IF Pushes(o) THEN o ELSE NoObject, 1)
      BY <1>1, <2>1 DEF Visits
  <2> QED
      BY <2>2, <2>4, <2>5, PlusIs
<1>10. Expr' = Expr
    BY <1>2 DEF Expr
<1>11. pc' \in {"idle", "tree", "segment", "next", "done"}
    BY <1>1 DEF Visits
<1>12. Typed'
    BY <1>2, <1>7, <1>8, <1>9, <1>10, <1>11 DEF Typed
<1>13. mask' \in {Expr.mask, "none"} /\ (mask' = "none" => pc' = "next") /\ (pc' = "segment" => mask' = "self")
      /\ (mask' # "tree" => mask # "tree")
    BY <1>1, <1>2 DEF Visits, Depth
<1>14. Depth'
    BY <1>7, <1>10, <1>13 DEF Depth
<1> QED
    BY <1>12, <1>14

LEMMA UnwindIsTyped ==
    ASSUME Basics, Unwind
    PROVE  /\ Basics' /\ UNCHANGED <<pc, mask, seg, yielded, expr, select, found>>
           /\ stack' = Front(stack) /\ Len(stack) > 1 /\ mask = "tree" /\ Len(stack') = Len(stack) - 1
           /\ item' = [item EXCEPT !.name = NameOf(Top)]
<1> USE DEF Basics
<1>1. /\ UNCHANGED <<select, objs, written, pc, expr, found, seg, loaded, mask, yielded>>
      /\ Len(stack) > 1 /\ stack' = Front(stack)
      /\ item' = [item EXCEPT !.name = NameOf(Top)] /\ claims' = Unwound(Top)
    BY DEF Unwind, walk
<1>2. Top \in FrameSet /\ Front(stack) \in Seq(FrameSet) /\ Len(Front(stack)) = Len(stack) - 1
      /\ Len(stack) \in Nat
    BY TopIs
<1>3. stack' \in Seq(FrameSet) /\ stack' # <<>> /\ Len(stack') = Len(stack) - 1
    BY <1>1, <1>2
<1>4. NameOf(Top) \in Name \cup {0}
  <2>1. Top.o # NoObject => Id(Top.o) \in Name \cup {0}
      BY <1>2, IdsAre DEF FrameSet, Objects
  <2> QED
      BY <2>1 DEF NameOf, Typed, Items
<1>5. item' \in Items
    BY <1>1, <1>4 DEF Typed, Items
<1>6. claims' \in [Path -> Int]
  <2>1. claims \in [Path -> Int] /\ Top.o \in Objects /\ -1 \in Int
      BY <1>2 DEF FrameSet, Typed
  <2>2. Plus(claims, Top.o, -1) \in [Path -> Int]
      BY <2>1, PlusIs
  <2> QED
      BY <1>1, <2>2 DEF Unwound
<1>7. location'.path \in Seq(Name)
  <2>1. location.path \in Seq(Name) /\ Top.length \in Nat
      BY <1>2 DEF Typed, FrameSet
  <2>2. CASE Len(location.path) > Top.length
    <3>1. location'.path = SubSeq(location.path, 1, Top.length)
        BY <2>2 DEF Unwind
    <3> QED
        BY <2>1, <2>2, <3>1
  <2>3. CASE ~(Len(location.path) > Top.length)
      BY <2>1, <2>3 DEF Unwind
  <2> QED
      BY <2>2, <2>3
<1>8. Expr' = Expr
    BY <1>1 DEF Expr
<1>9. Typed'
    BY <1>1, <1>3, <1>5, <1>6, <1>7, <1>8 DEF Typed
<1>10. mask = "tree"
  <2>1. PICK n : n = Len(stack)
      OBVIOUS
  <2>2. n > 1 /\ n \in Nat /\ (mask # "tree" => n = 1)
      BY <1>1, <1>2, <2>1 DEF Depth
  <2> QED
      BY <2>2
<1>11. Depth'
    BY <1>1, <1>8, <1>10 DEF Depth
<1> QED
    BY <1>1, <1>3, <1>9, <1>10, <1>11

LEMMA StopIsTyped ==
    ASSUME Basics, NEW how, Stop(how), UNCHANGED <<select, objs, written, yielded>>
    PROVE  Basics' /\ pc' = "done" /\ claims' = Released /\ UNCHANGED <<mask, expr, seg, found, stack>>
<1> USE DEF Basics
<1>1. /\ pc' = "done" /\ claims' = Released /\ ResetItem
      /\ UNCHANGED <<expr, found, seg, loaded, mask, stack, location>>
    BY DEF Stop, walk
<1>2. item' \in Items /\ claims' \in [Path -> Int]
    BY <1>1, ItemsReset, ReleaseIs
<1>3. Expr' = Expr
    BY <1>1 DEF Expr
<1>4. Typed'
    BY <1>1, <1>2, <1>3 DEF Typed
<1>5. Depth'
    BY <1>1, <1>3 DEF Depth
<1> QED
    BY <1>1, <1>4, <1>5

\* The select goes on with the next segment of its scope.
GoesDeeper ==
    /\ (Depleted /\ Len(stack) = 1) \/ pc = "segment"
    /\ seg < Len(Expr.from)
    /\ pc' = "tree" /\ ResetItem /\ seg' = seg + 1
    /\ PrepareFrame(<<>>, Expr, found, seg + 1, stack[1].o, ReleaseItem(claims))
    /\ UNCHANGED <<expr, found, mask, ended, select, objs, written, skip, count, yielded>>

LEMMA SegmentIs ==
    ASSUME OnlyStore, Basics, NextSegment
    PROVE  \/ GoesDeeper
           \/ /\ pc # "done" /\ Stop("end") /\ seg = Len(Expr.from)
              /\ UNCHANGED <<select, objs, written, skip, count, yielded>>
<1>1. FilterMounts(seg) = <<>>
    BY NothingLoaded DEF Basics, Typed
<1>2. CASE seg < Len(Expr.from)
  <2>1. /\ pc' = "tree" /\ ResetItem /\ seg' = seg + 1
        /\ PrepareFrame(FilterMounts(seg), Expr, found, seg + 1, stack[1].o, ReleaseItem(claims))
        /\ UNCHANGED <<expr, found, mask, ended>> /\ UNCHANGED <<select, objs, written, skip, count, yielded>>
        /\ ((Depleted /\ Len(stack) = 1) \/ pc = "segment")
      BY <1>2 DEF NextSegment
  <2>2. PrepareFrame(<<>>, Expr, found, seg + 1, stack[1].o, ReleaseItem(claims))
      BY <1>1, <2>1
  <2> QED
      BY <1>2, <2>1, <2>2 DEF GoesDeeper
<1>3. CASE ~(seg < Len(Expr.from))
  <2>1. pc # "done" /\ Stop("end") /\ UNCHANGED <<select, objs, written, skip, count, yielded>>
      BY <1>3 DEF NextSegment, Depleted
  <2>2. Expr.from \in Path /\ seg \in 0..Len(Expr.from)
      BY ExprIs DEF Basics, Typed
  <2>3. Len(Expr.from) \in Nat
      BY <2>2, PathsAre
  <2>4. PICK n : n = Len(Expr.from)
      OBVIOUS
  <2>5. seg = n
      BY <1>3, <2>2, <2>3, <2>4
  <2> QED
      BY <2>1, <2>4, <2>5
<1> QED
    BY <1>2, <1>3

\* Only a select of a tree has more than one frame.
LEMMA OneFrame ==
    ASSUME Basics, (Depleted /\ Len(stack) = 1) \/ pc = "segment" \/ mask = "none"
    PROVE  Len(stack) = 1
BY DEF Basics, Depth

LEMMA ItemReleased ==
    ASSUME Typed
    PROVE  /\ ReleaseItem(claims) \in [Path -> Int]
           /\ \A p \in Path : ReleaseItem(claims)[p] = claims[p] - (IF p = item.object THEN 1 ELSE 0)
<1>1. claims \in [Path -> Int] /\ item.object \in Objects /\ -1 \in Int
    BY DEF Typed, Items
<1>2. /\ Plus(claims, item.object, -1) \in [Path -> Int]
      /\ \A q \in Path : Plus(claims, item.object, -1)[q] = claims[q] + (IF q = item.object THEN -1 ELSE 0)
    BY <1>1, PlusIs
<1>3. \A p \in Path : claims[p] \in Int
    BY <1>1
<1> QED
    BY <1>2, <1>3 DEF ReleaseItem

LEMMA DeeperIsTyped ==
    ASSUME OnlyStore, Basics, GoesDeeper
    PROVE  /\ Basics' /\ Expr' = Expr /\ Len(stack) = 1 /\ Len(stack') = 1 /\ item'.object = NoObject
           /\ stack'[1].o = SegmentObject(Expr, found, seg + 1)
           /\ stack'[1].iter = ScopeIter(stack'[1].o)
           /\ \A p \in Path : claims'[p] = claims[p] - (IF p = item.object THEN 1 ELSE 0)
                   + (IF p = stack'[1].o THEN 1 ELSE 0) - (IF p = stack[1].o THEN 1 ELSE 0)
<1> USE DEF Basics
<1>1. /\ pc' = "tree" /\ ResetItem /\ seg' = seg + 1 /\ seg < Len(Expr.from)
      /\ PrepareFrame(<<>>, Expr, found, seg + 1, stack[1].o, ReleaseItem(claims))
      /\ UNCHANGED <<expr, found, mask, select, objs, written, yielded>>
    BY DEF GoesDeeper
<1>2. Len(stack) = 1
    BY OneFrame DEF GoesDeeper
<1>3. stack[1].o \in Objects /\ found \subseteq Path /\ Expr.from \in Path
    BY <1>2, TopIs, ExprIs DEF FrameSet, Typed
<1>4. PICK cnt : cnt = ReleaseItem(claims)
    OBVIOUS
<1>5. cnt \in [Path -> Int] /\ \A p \in Path : cnt[p] = claims[p] - (IF p = item.object THEN 1 ELSE 0)
    BY <1>4, ItemReleased
<1>6. PrepareFrame(<<>>, Expr, found, seg + 1, stack[1].o, cnt)
    BY <1>1, <1>4
<1>7. /\ loaded' = <<>> /\ location'.path \in Seq(Name)
      /\ stack' \in Seq(FrameSet) /\ stack' # <<>> /\ Len(stack') = 1
      /\ stack'[1].o = SegmentObject(Expr, found, seg + 1)
      /\ stack'[1].iter = ScopeIter(SegmentObject(Expr, found, seg + 1))
      /\ claims' \in [Path -> Int]
      /\ \A p \in Path : claims'[p] = cnt[p] + (IF p = stack'[1].o THEN 1 ELSE 0)
                                             - (IF p = stack[1].o THEN 1 ELSE 0)
  <2>1. PICK ex, s, old : ex = Expr /\ s = seg + 1 /\ old = stack[1].o
      OBVIOUS
  <2>2. /\ found \subseteq Path /\ old \in Objects /\ cnt \in [Path -> Int] /\ ex.from \in Path
        /\ PrepareFrame(<<>>, ex, found, s, old, cnt) /\ OnlyStore /\ Typed
      BY <1>3, <1>5, <1>6, <2>1
  <2>3. /\ loaded' = <<>> /\ location'.path \in Seq(Name)
        /\ stack' \in Seq(FrameSet) /\ stack' # <<>> /\ Len(stack') = 1
        /\ stack'[1].o = SegmentObject(ex, found, s)
        /\ stack'[1].iter = ScopeIter(SegmentObject(ex, found, s))
        /\ claims' \in [Path -> Int]
        /\ \A p \in Path : claims'[p] = cnt[p] + (IF p = stack'[1].o THEN 1 ELSE 0)
                                               - (IF p = old THEN 1 ELSE 0)
      BY <2>2, FirstFrame
  <2> QED
      BY <2>1, <2>3
<1>8. item' \in Items /\ item'.object = NoObject
    BY <1>1, ItemsReset
<1>9. Expr' = Expr
    BY <1>1 DEF Expr
<1>10. seg' \in 0..Len(Expr.from)
    BY <1>1, <1>3, PathsAre DEF Typed
<1>11. Typed'
    BY <1>1, <1>7, <1>8, <1>9, <1>10 DEF Typed
<1>12. Depth'
  <2>1. mask # "none"
      BY DEF GoesDeeper, Depth, Depleted
  <2> QED
      BY <1>1, <1>7, <1>9, <2>1 DEF Depth
<1>13. \A p \in Path : claims'[p] = claims[p] - (IF p = item.object THEN 1 ELSE 0)
                   + (IF p = stack'[1].o THEN 1 ELSE 0) - (IF p = stack[1].o THEN 1 ELSE 0)
    BY <1>5, <1>7
<1> QED
    BY <1>2, <1>7, <1>8, <1>9, <1>11, <1>12, <1>13

\* The select goes on with the next expression.
RunsNext ==
    /\ pc = "idle" /\ mask = "none" /\ expr < Len(select.exprs)
    /\ pc' = "tree" /\ ResetItem /\ UNCHANGED <<ended, select, objs, written, skip, count, yielded>>
    /\ Run(expr + 1, <<>>, stack[1].o, ReleaseItem(claims))

LEMMA HasNextIs ==
    ASSUME Basics, HasNext
    PROVE  \/ RunsNext
           \/ Stop("end") /\ pc = "idle" /\ UNCHANGED <<select, objs, written, skip, count, yielded>>
           \/ /\ pc = "idle" /\ pc' = "tree" /\ mask # "none"
              /\ UNCHANGED <<walk, mask, stack, item, location, claims, ended, select, objs, written, skip, count, yielded>>
<1>1. loaded = <<>>
    BY DEF Basics, Typed
<1> QED
    BY <1>1 DEF HasNext, RunsNext

LEMMA RunIsTyped ==
    ASSUME OnlyStore, Basics, RunsNext
    PROVE  Basics' /\ Len(stack') = 1
<1> USE DEF Basics
<1>1. PICK ex, fnd : ex = select.exprs[expr + 1] /\ fnd = SplitScope(ex)
    OBVIOUS
<1>2. /\ pc' = "tree" /\ ResetItem /\ UNCHANGED <<select, objs, written, yielded>>
      /\ expr' = expr + 1 /\ seg' = 0 /\ found' = fnd /\ mask' = ex.mask
      /\ PrepareFrame(<<>>, ex, fnd, 0, stack[1].o, PlusAll(ReleaseItem(claims), fnd, 1))
    BY <1>1 DEF RunsNext, Run
<1>3. Len(stack) = 1 /\ stack[1].o \in Objects
    BY OneFrame, TopIs DEF RunsNext, FrameSet
<1>4. expr + 1 \in DOMAIN select.exprs
    BY ExprIs DEF RunsNext
<1>5. ex \in [from: Path, filter: SUBSET Name, mask: {"self", "scope", "tree"}]
  <2>1. select.exprs \in Seq([from: Path, filter: SUBSET Name, mask: {"self", "scope", "tree"}])
      BY SelectsAre DEF Typed
  <2> QED
      BY <1>1, <1>4, <2>1, ElementsAre
<1>6. fnd \subseteq Path
    BY <1>1 DEF SplitScope, Typed
<1>7. PICK cnt : cnt = PlusAll(ReleaseItem(claims), fnd, 1)
    OBVIOUS
<1>8. cnt \in [Path -> Int]
  <2>1. ReleaseItem(claims) \in [Path -> Int] /\ 1 \in Int
      BY ItemReleased
  <2> QED
      BY <1>7, <2>1, PlusAllIs
<1>9. PrepareFrame(<<>>, ex, fnd, 0, stack[1].o, cnt)
    BY <1>2, <1>7
<1>10. /\ loaded' = <<>> /\ location'.path \in Seq(Name)
       /\ stack' \in Seq(FrameSet) /\ stack' # <<>> /\ Len(stack') = 1
       /\ claims' \in [Path -> Int]
  <2>1. /\ fnd \subseteq Path /\ stack[1].o \in Objects /\ cnt \in [Path -> Int] /\ ex.from \in Path
        /\ PrepareFrame(<<>>, ex, fnd, 0, stack[1].o, cnt)
      BY <1>3, <1>5, <1>6, <1>8, <1>9
  <2> QED
      BY <2>1, FirstFrame
<1>11. item' \in Items
    BY <1>2, ItemsReset
<1>12. Expr' = ex /\ Len(ex.from) \in Nat
    BY <1>1, <1>2, <1>5, PathsAre DEF Expr
<1>13. Typed'
    BY <1>2, <1>4, <1>6, <1>10, <1>11, <1>12 DEF Typed
<1>14. Depth'
    BY <1>2, <1>5, <1>10, <1>12 DEF Depth
<1> QED
    BY <1>10, <1>13, <1>14

\* A write changes no position.
LEMMA WriteIs ==
    ASSUME Basics, Write
    PROVE  /\ Basics' /\ Len(stack') = Len(stack)
           /\ \A i \in DOMAIN stack : /\ stack'[i].o = stack[i].o /\ stack'[i].iter.kind = stack[i].iter.kind
                                      /\ stack[i].iter.kind = "store" => stack'[i].iter.key = stack[i].iter.key
           /\ UNCHANGED <<select, pc, walk, mask, item, claims, yielded>>
<1> USE DEF Basics
<1>1. UNCHANGED <<select, pc, walk, mask, item, location, skip, count, claims, yielded, ended>>
    BY DEF Write
<1>2. PICK Touched : stack' = [i \in DOMAIN stack |->
          IF i \in Touched THEN [stack[i] EXCEPT !.iter.changed = TRUE] ELSE stack[i]]
          /\ \A i \in Touched : i \in DOMAIN stack /\ stack[i].iter.kind = "store"
  <2>1. PICK w, p : stack' = [i \in DOMAIN stack |->
                 IF /\ stack[i].iter.kind = "store"
                    /\ (stack[i].o = p \/ (w.op = "delete" /\ (stack[i].o = w.path \/ Under(stack[i].o, w.path))))
                 THEN [stack[i] EXCEPT !.iter.changed = TRUE] ELSE stack[i]]
      BY DEF Write
  <2>2. PICK T : T = {i \in DOMAIN stack :
                         /\ stack[i].iter.kind = "store"
                         /\ (stack[i].o = p \/ (w.op = "delete" /\ (stack[i].o = w.path \/ Under(stack[i].o, w.path))))}
      OBVIOUS
  <2>3. \A i \in DOMAIN stack : i \in T <=>
                 /\ stack[i].iter.kind = "store"
                 /\ (stack[i].o = p \/ (w.op = "delete" /\ (stack[i].o = w.path \/ Under(stack[i].o, w.path))))
      BY <2>2
  <2>4. stack' = [i \in DOMAIN stack |-> IF i \in T THEN [stack[i] EXCEPT !.iter.changed = TRUE] ELSE stack[i]]
      BY <2>1, <2>3
  <2> WITNESS T
  <2> QED
      BY <2>2, <2>4
<1>3. \A i \in DOMAIN stack : /\ stack'[i] \in FrameSet /\ stack'[i].o = stack[i].o
                              /\ stack'[i].iter.kind = stack[i].iter.kind
                              /\ stack[i].iter.kind = "store" => stack'[i].iter.key = stack[i].iter.key
  <2> SUFFICES ASSUME NEW i \in DOMAIN stack
               PROVE  /\ stack'[i] \in FrameSet /\ stack'[i].o = stack[i].o
                      /\ stack'[i].iter.kind = stack[i].iter.kind
                      /\ stack[i].iter.kind = "store" => stack'[i].iter.key = stack[i].iter.key
      OBVIOUS
  <2>1. stack[i] \in FrameSet
      BY TopIs
  <2>2. CASE i \notin Touched
      BY <1>2, <2>1, <2>2
  <2>3. CASE i \in Touched
    <3>1. stack[i].iter \in StoreIters
        BY <1>2, <2>1, <2>3 DEF FrameSet, NoIter
    <3>2. PICK it : it = [stack[i].iter EXCEPT !.changed = TRUE]
        OBVIOUS
    <3>3. it \in StoreIters /\ it.kind = "store" /\ it.key = stack[i].iter.key
        BY <3>1, <3>2 DEF StoreIters
    <3>4. stack'[i] = [stack[i] EXCEPT !.iter = it]
        BY <1>2, <2>3, <3>2
    <3>5. stack[i].iter.kind = "store"
        BY <1>2, <2>3
    <3> QED
        BY <2>1, <3>3, <3>4, <3>5 DEF FrameSet
  <2> QED
      BY <2>2, <2>3
<1>4. stack' \in Seq(FrameSet) /\ Len(stack') = Len(stack) /\ stack' # <<>>
  <2>1. Len(stack) \in Nat \ {0} /\ DOMAIN stack = 1..Len(stack)
      BY TopIs
  <2>2. stack' \in [1..Len(stack) -> FrameSet]
      BY <1>2, <1>3, <2>1
  <2> QED
      BY <2>1, <2>2
<1>5. objs' \subseteq Path /\ written' \in Nat
  <2>1. written < Len(select.writes) /\ written' = written + 1 /\ written \in Nat /\ objs \subseteq Path
      BY DEF Write, Typed
  <2>2. select.writes \in Seq([op: {"add", "delete"}, path: Path])
      BY SelectsAre DEF Typed
  <2>3. select.writes[written + 1].path \in Path
    <3>1. written + 1 \in DOMAIN select.writes
        BY <2>1, <2>2
    <3>2. select.writes[written + 1] \in [op: {"add", "delete"}, path: Path]
        BY <2>2, <3>1, ElementsAre
    <3> QED
        BY <3>2
  <2>4. objs' \subseteq objs \cup {select.writes[written + 1].path}
      BY DEF Write
  <2> QED
      BY <2>1, <2>3, <2>4
<1>6. Expr' = Expr /\ UNCHANGED <<expr, found, seg, loaded>>
    BY <1>1 DEF Expr, walk
<1>7. Typed'
    BY <1>1, <1>4, <1>5, <1>6 DEF Typed
<1>8. Depth'
    BY <1>1, <1>4, <1>6 DEF Depth
<1> QED
    BY <1>1, <1>3, <1>4, <1>7, <1>8

LEMMA YieldIsTyped ==
    ASSUME Basics, Next_
    PROVE  Basics'
<1> USE DEF Basics
<1>1. /\ pc' = "idle" /\ pc = "next" /\ yielded' = Append(yielded, [place |-> item.place, type |-> item.type])
      /\ UNCHANGED <<select, objs, written, expr, found, seg, loaded, mask, stack, item, location, claims>>
    BY DEF Next_, walk
<1>2. [place |-> item.place, type |-> item.type] \in [place: Objects, type: TypesOf]
    BY DEF Typed, Items
<1>3. yielded' \in Seq([place: Objects, type: TypesOf])
    BY <1>1, <1>2, AppendProperties DEF Typed
<1>4. Expr' = Expr
    BY <1>1 DEF Expr
<1>5. Typed'
    BY <1>1, <1>3, <1>4 DEF Typed
<1>6. Depth'
    BY <1>1, <1>4 DEF Depth
<1> QED
    BY <1>5, <1>6

LEMMA NextIs ==
    ASSUME OnlyStore, Basics, [Next]_vars
    PROVE  \/ VisitObject \/ Unwind \/ GoesDeeper \/ RunsNext \/ Next_ \/ Write \/ UNCHANGED vars
           \/ pc # "done" /\ \E how : Stop(how) /\ UNCHANGED <<select, objs, written, skip, count, yielded>>
           \/ /\ pc = "idle" /\ pc' = "tree" /\ mask # "none"
              /\ UNCHANGED <<walk, mask, stack, item, location, claims, ended, select, objs, written, skip, count, yielded>>
<1>1. CASE UNCHANGED vars
    BY <1>1
<1>2. CASE Leave
    BY <1>2 DEF Leave
<1>3. CASE NextSegment
    BY <1>3, SegmentIs
<1>4. CASE HasNext
    BY <1>4, HasNextIs
<1>5. ~AskMount /\ ~VisitResult
    BY NoMounts DEF Basics
<1> QED
    BY <1>1, <1>2, <1>3, <1>4, <1>5 DEF Next, Walk

LEMMA StepIsTyped ==
    ASSUME OnlyStore, Basics, [Next]_vars
    PROVE  Basics' /\ OnlyStore'
<1>1. select' = select /\ OnlyStore'
  <2>1. select' = select
      BY NextIs, VisitIs, WriteIs DEF Unwind, GoesDeeper, RunsNext, Next_, vars
  <2> QED
      BY <2>1 DEF OnlyStore
<1>2. UNCHANGED <<walk, stack, item, location, claims, select, objs, written, yielded>>
      /\ mask' = mask /\ (pc' = pc \/ (pc' = "tree" /\ mask # "none")) => Basics'
  <2> SUFFICES ASSUME UNCHANGED <<walk, stack, item, location, claims, select, objs, written, yielded>>,
                      mask' = mask, pc' = pc \/ (pc' = "tree" /\ mask # "none")
               PROVE  Basics'
      OBVIOUS
  <2>1. UNCHANGED <<expr, found, seg, loaded>> /\ Expr' = Expr
      BY DEF walk, Expr
  <2>2. Typed'
      BY <2>1 DEF Basics, Typed
  <2>3. Depth'
      BY <2>1 DEF Basics, Depth
  <2> QED
      BY <2>2, <2>3 DEF Basics
<1>3. CASE UNCHANGED vars
    BY <1>1, <1>2, <1>3 DEF vars
<1>4. CASE \E how : Stop(how) /\ UNCHANGED <<select, objs, written, skip, count, yielded>>
  <2>1. PICK how : Stop(how) /\ UNCHANGED <<select, objs, written, yielded>>
      BY <1>4
  <2>2. Basics'
      BY <2>1, StopIsTyped
  <2> QED
      BY <1>1, <2>2
<1>5. CASE /\ pc = "idle" /\ pc' = "tree" /\ mask # "none"
           /\ UNCHANGED <<walk, mask, stack, item, location, claims, ended, select, objs, written, skip, count, yielded>>
    BY <1>1, <1>2, <1>5
<1> QED
    BY <1>1, <1>3, <1>4, <1>5, NextIs, VisitIsTyped, UnwindIsTyped, DeeperIsTyped, RunIsTyped, YieldIsTyped, WriteIs

(***************************************************************************)
(* What the select claimed is released                                     *)
(***************************************************************************)
\* Until the select ends, it has the objects of its frames, of the segments and of the item.
ClaimsAreCounted ==
    IF pc = "done" THEN \A p \in Path : claims[p] = 0
    ELSE \A p \in Path : claims[p] = Cardinality(FramesOf(stack, p)) + (IF p \in found THEN 1 ELSE 0)
                                       + (IF p = item.object THEN 1 ELSE 0)

LEMMA SameFrames ==
    ASSUME NEW s \in Seq(FrameSet), NEW t \in Seq(FrameSet), Len(t) = Len(s),
           \A n \in 1..Len(s) : t[n].o = s[n].o, NEW p
    PROVE  FramesOf(t, p) = FramesOf(s, p)
<1>1. DOMAIN s = 1..Len(s) /\ DOMAIN t = 1..Len(s)
    OBVIOUS
<1>2. \A n : n \in FramesOf(t, p) <=> n \in FramesOf(s, p)
    BY <1>1 DEF FramesOf
<1> QED
    BY <1>2

LEMMA OneMoreFrame ==
    ASSUME NEW s \in Seq(FrameSet), NEW t \in Seq(FrameSet), Len(t) = Len(s) + 1,
           \A n \in 1..Len(s) : t[n].o = s[n].o, NEW p
    PROVE  Cardinality(FramesOf(t, p)) = Cardinality(FramesOf(s, p)) + (IF p = t[Len(t)].o THEN 1 ELSE 0)
<1>1. PICK k : k = Len(t)
    OBVIOUS
<1>2. Len(s) \in Nat /\ k = Len(s) + 1 /\ DOMAIN s = 1..Len(s) /\ DOMAIN t = 1..k /\ k \notin 1..Len(s)
    BY <1>1
<1>3. \A n : n \in 1..k <=> n \in 1..Len(s) \/ n = k
    BY <1>2
<1>4. \A n : n \in FramesOf(t, p) <=> n \in FramesOf(s, p) \/ (n = k /\ t[k].o = p)
    BY <1>2, <1>3 DEF FramesOf
<1>5. IsFiniteSet(FramesOf(s, p)) /\ Cardinality(FramesOf(s, p)) \in Nat /\ k \notin FramesOf(s, p)
    BY <1>2, FramesAreFinite DEF FramesOf
<1>6. CASE t[k].o = p
  <2>1. FramesOf(t, p) = FramesOf(s, p) \cup {k}
      BY <1>4, <1>6
  <2>2. Cardinality(FramesOf(s, p) \cup {k}) = Cardinality(FramesOf(s, p)) + 1
      BY <1>5, FS_AddElement
  <2> QED
      BY <1>1, <1>6, <2>1, <2>2
<1>7. CASE t[k].o # p
  <2>1. FramesOf(t, p) = FramesOf(s, p)
      BY <1>4, <1>7
  <2> QED
      BY <1>1, <1>5, <1>7, <2>1
<1> QED
    BY <1>6, <1>7

LEMMA SingleFrame ==
    ASSUME NEW s \in Seq(FrameSet), Len(s) = 1, NEW p
    PROVE  Cardinality(FramesOf(s, p)) = (IF p = s[1].o THEN 1 ELSE 0)
<1>1. DOMAIN s = 1..1
    OBVIOUS
<1>2. DOMAIN s = {1}
    BY <1>1
<1>3. CASE p = s[1].o
  <2>1. FramesOf(s, p) = {1}
      BY <1>2, <1>3 DEF FramesOf
  <2>2. Cardinality({1}) = 1
      BY FS_Singleton
  <2> QED
      BY <1>3, <2>1, <2>2
<1>4. CASE p # s[1].o
  <2>1. FramesOf(s, p) = {}
      BY <1>2, <1>4 DEF FramesOf
  <2> QED
      BY <1>4, <2>1, FS_EmptySet
<1> QED
    BY <1>3, <1>4

LEMMA VisitKeepsClaims ==
    ASSUME Basics, ClaimsAreCounted, VisitObject
    PROVE  ClaimsAreCounted'
<1> USE DEF Basics
<1>1. PICK o \in FromStore(Top) : Visits(o)
    BY VisitIs
<1>2. pc = "tree" /\ found' = found /\ pc' # "done"
    BY <1>1, VisitIs DEF walk, Visits
<1>3. o \in Path /\ o \in Objects /\ o # NoObject
    BY FromStoreIs, NoObjectIsNoPath DEF Objects
<1>4. PICK g : g = Goes(ReadFrame(o))
    OBVIOUS
<1>5. ReadFrame(o) \in FrameSet /\ ReadFrame(o).o = Top.o /\ Child(o) \in FrameSet /\ Child(o).o = o
    BY <1>3, ReadFrameIs, ChildIs
<1>6. /\ g \in Seq(FrameSet) /\ Len(g) = Len(stack) /\ g[Len(stack)] = ReadFrame(o)
      /\ \A n \in 1..Len(stack) - 1 : g[n] = stack[n]
    BY <1>4, <1>5, GoesAre
<1>7. Len(stack) \in Nat \ {0} /\ stack \in Seq(FrameSet)
    BY TopIs DEF Typed
<1>8. \A n \in 1..Len(stack) : g[n].o = stack[n].o
  <2> SUFFICES ASSUME NEW n \in 1..Len(stack) PROVE g[n].o = stack[n].o
      OBVIOUS
  <2>1. CASE n = Len(stack)
      BY <1>5, <1>6, <2>1 DEF Top
  <2>2. CASE n # Len(stack)
      BY <1>6, <1>7, <2>2
  <2> QED
      BY <2>1, <2>2
<1>9. \A p : FramesOf(g, p) = FramesOf(stack, p)
    BY <1>6, <1>7, <1>8, SameFrames
<1>10. \A p \in Path : Cardinality(FramesOf(stack, p)) \in Nat
    BY <1>7, FramesAreFinite
<1>11. \A p \in Path : Cardinality(FramesOf(stack', p)) =
                Cardinality(FramesOf(stack, p)) + (IF Pushes(o) /\ p = o THEN 1 ELSE 0)
  <2>1. CASE Pushes(o)
    <3>1. stack' = Append(g, Child(o))
        BY <1>1, <1>4, <2>1 DEF Visits
    <3>2. /\ Append(g, Child(o)) \in Seq(FrameSet) /\ Len(Append(g, Child(o))) = Len(g) + 1
          /\ Append(g, Child(o))[Len(g) + 1] = Child(o)
          /\ \A n \in 1..Len(g) : Append(g, Child(o))[n] = g[n]
        BY <1>5, <1>6, AppendProperties
    <3>3. /\ stack' \in Seq(FrameSet) /\ Len(stack') = Len(g) + 1 /\ stack'[Len(stack')].o = o
          /\ \A n \in 1..Len(g) : stack'[n].o = g[n].o
        BY <1>5, <3>1, <3>2
    <3>4. \A p : Cardinality(FramesOf(stack', p)) = Cardinality(FramesOf(g, p)) + (IF p = o THEN 1 ELSE 0)
        BY <1>6, <3>3, OneMoreFrame
    <3> QED
        BY <1>9, <2>1, <3>4
  <2>2. CASE ~Pushes(o)
    <3>1. stack' = g
        BY <1>1, <1>4, <2>2 DEF Visits
    <3> QED
        BY <1>9, <1>10, <2>2, <3>1
  <2> QED
      BY <2>1, <2>2
<1>12. PICK c : c = IF Match(o) THEN Plus(ReleaseItem(claims), o, 1) ELSE claims
    OBVIOUS
<1>13. c \in [Path -> Int] /\ \A p \in Path : c[p] = claims[p]
            + (IF Match(o) THEN (IF p = o THEN 1 ELSE 0) - (IF p = item.object THEN 1 ELSE 0) ELSE 0)
  <2>1. CASE Match(o)
    <3>1. PICK d : d = ReleaseItem(claims)
        OBVIOUS
    <3>2. /\ d \in [Path -> Int]
          /\ \A p \in Path : d[p] = claims[p] - (IF p = item.object THEN 1 ELSE 0)
        BY <3>1, ItemReleased
    <3>3. d \in [Path -> Int] /\ o \in Objects /\ 1 \in Int
        BY <1>3, <3>2
    <3>4. Plus(d, o, 1) \in [Path -> Int] /\ \A p \in Path : Plus(d, o, 1)[p] = d[p] + (IF p = o THEN 1 ELSE 0)
        BY <3>3, PlusIs
    <3>5. c = Plus(d, o, 1) /\ \A p \in Path : claims[p] \in Int
        BY <1>12, <2>1, <3>1 DEF Typed
    <3> QED
        BY <2>1, <3>2, <3>4, <3>5
  <2>2. CASE ~Match(o)
      BY <1>12, <2>2 DEF Typed
  <2> QED
      BY <2>1, <2>2
<1>14. PICK q : q = IF Pushes(o) THEN o ELSE NoObject
    OBVIOUS
<1>15. \A p \in Path : claims'[p] = c[p] + (IF Pushes(o) /\ p = o THEN 1 ELSE 0)
  <2>1. c \in [Path -> Int] /\ q \in Objects /\ 1 \in Int
      BY <1>3, <1>13, <1>14 DEF Objects
  <2>2. \A p \in Path : Plus(c, q, 1)[p] = c[p] + (IF p = q THEN 1 ELSE 0)
      BY <2>1, PlusIs
  <2>3. claims' = Plus(c, q, 1)
      BY <1>1, <1>12, <1>14 DEF Visits
  <2>4. \A p \in Path : p = q <=> Pushes(o) /\ p = o
      BY <1>14, NoObjectIsNoPath
  <2> QED
      BY <2>2, <2>3, <2>4
<1>16. item'.object = IF Match(o) THEN o ELSE item.object
    BY <1>1 DEF Visits, SeenItem
<1> SUFFICES ASSUME NEW p \in Path
             PROVE  claims'[p] = Cardinality(FramesOf(stack', p)) + (IF p \in found THEN 1 ELSE 0)
                                      + (IF p = item'.object THEN 1 ELSE 0)
    BY <1>2 DEF ClaimsAreCounted
<1>17. PICK n : n = Cardinality(FramesOf(stack, p))
    OBVIOUS
<1>18. claims[p] = n + (IF p \in found THEN 1 ELSE 0) + (IF p = item.object THEN 1 ELSE 0)
    BY <1>2, <1>17 DEF ClaimsAreCounted
<1>19. /\ Cardinality(FramesOf(stack', p)) = n + (IF Pushes(o) /\ p = o THEN 1 ELSE 0) /\ n \in Nat
       /\ claims'[p] = c[p] + (IF Pushes(o) /\ p = o THEN 1 ELSE 0)
       /\ c[p] = claims[p]
            + (IF Match(o) THEN (IF p = o THEN 1 ELSE 0) - (IF p = item.object THEN 1 ELSE 0) ELSE 0)
    BY <1>10, <1>11, <1>13, <1>15, <1>17
<1>20. CASE Match(o)
    BY <1>16, <1>18, <1>19, <1>20
<1>21. CASE ~Match(o)
    BY <1>16, <1>18, <1>19, <1>21
<1> QED
    BY <1>20, <1>21

LEMMA UnwindKeepsClaims ==
    ASSUME Basics, ClaimsAreCounted, Unwind
    PROVE  ClaimsAreCounted'
<1> USE DEF Basics
<1>1. /\ pc' = pc /\ found' = found /\ stack' = Front(stack) /\ item' = [item EXCEPT !.name = NameOf(Top)]
      /\ Len(stack') = Len(stack) - 1 /\ claims' = Unwound(Top) /\ pc = "tree"
    BY UnwindIsTyped DEF Unwind, Depleted
<1>2. /\ stack \in Seq(FrameSet) /\ stack' \in Seq(FrameSet) /\ Top \in FrameSet /\ Len(stack) \in Nat \ {0}
      /\ \A n \in 1..Len(stack) - 1 : stack'[n] = stack[n]
    BY <1>1, TopIs DEF Typed
<1>3. Len(stack) = Len(stack') + 1 /\ \A n \in 1..Len(stack') : stack[n].o = stack'[n].o
    BY <1>1, <1>2
<1>4. \A p : Cardinality(FramesOf(stack, p)) = Cardinality(FramesOf(stack', p)) + (IF p = Top.o THEN 1 ELSE 0)
    BY <1>2, <1>3, OneMoreFrame DEF Top
<1>5. \A p \in Path : claims'[p] = claims[p] + (IF p = Top.o THEN -1 ELSE 0)
  <2>1. claims \in [Path -> Int] /\ Top.o \in Objects /\ -1 \in Int
      BY <1>2 DEF FrameSet, Typed
  <2>2. \A p \in Path : Plus(claims, Top.o, -1)[p] = claims[p] + (IF p = Top.o THEN -1 ELSE 0)
      BY <2>1, PlusIs
  <2> QED
      BY <1>1, <2>2 DEF Unwound
<1>6. item'.object = item.object
    BY <1>1 DEF Typed, Items
<1> SUFFICES ASSUME NEW p \in Path
             PROVE  claims'[p] = Cardinality(FramesOf(stack', p)) + (IF p \in found THEN 1 ELSE 0)
                                      + (IF p = item'.object THEN 1 ELSE 0)
    BY <1>1 DEF ClaimsAreCounted
<1>7. PICK n : n = Cardinality(FramesOf(stack', p))
    OBVIOUS
<1>8. n \in Nat
    BY <1>2, <1>7, FramesAreFinite
<1>9. claims[p] = (n + (IF p = Top.o THEN 1 ELSE 0)) + (IF p \in found THEN 1 ELSE 0)
                       + (IF p = item.object THEN 1 ELSE 0)
    BY <1>1, <1>4, <1>7 DEF ClaimsAreCounted
<1> QED
    BY <1>5, <1>6, <1>7, <1>8, <1>9

LEMMA DeeperKeepsClaims ==
    ASSUME OnlyStore, Basics, ClaimsAreCounted, GoesDeeper
    PROVE  ClaimsAreCounted'
<1> USE DEF Basics
<1>1. /\ Len(stack) = 1 /\ Len(stack') = 1 /\ item'.object = NoObject
      /\ \A p \in Path : claims'[p] = claims[p] - (IF p = item.object THEN 1 ELSE 0)
                   + (IF p = stack'[1].o THEN 1 ELSE 0) - (IF p = stack[1].o THEN 1 ELSE 0)
    BY DeeperIsTyped
<1>2. pc # "done" /\ pc' # "done" /\ found' = found
    BY DEF GoesDeeper, Depleted
<1>3. stack \in Seq(FrameSet) /\ stack' \in Seq(FrameSet)
    BY DeeperIsTyped DEF Typed
<1>4. \A p : /\ Cardinality(FramesOf(stack, p)) = (IF p = stack[1].o THEN 1 ELSE 0)
             /\ Cardinality(FramesOf(stack', p)) = (IF p = stack'[1].o THEN 1 ELSE 0)
    BY <1>1, <1>3, SingleFrame
<1> SUFFICES ASSUME NEW p \in Path
             PROVE  claims'[p] = Cardinality(FramesOf(stack', p)) + (IF p \in found THEN 1 ELSE 0)
                                      + (IF p = item'.object THEN 1 ELSE 0)
    BY <1>2 DEF ClaimsAreCounted
<1>5. claims[p] = (IF p = stack[1].o THEN 1 ELSE 0) + (IF p \in found THEN 1 ELSE 0)
                       + (IF p = item.object THEN 1 ELSE 0)
    BY <1>2, <1>4 DEF ClaimsAreCounted
<1>6. claims'[p] = claims[p] - (IF p = item.object THEN 1 ELSE 0)
                   + (IF p = stack'[1].o THEN 1 ELSE 0) - (IF p = stack[1].o THEN 1 ELSE 0)
    BY <1>1
<1>7. p # item'.object
    BY <1>1, NoObjectIsNoPath
<1>8. Cardinality(FramesOf(stack', p)) = (IF p = stack'[1].o THEN 1 ELSE 0)
    BY <1>4
<1> QED
    BY <1>5, <1>6, <1>7, <1>8

LEMMA StopKeepsClaims ==
    ASSUME Basics, ClaimsAreCounted, pc # "done", NEW how, Stop(how), UNCHANGED <<select, objs, written, yielded>>
    PROVE  ClaimsAreCounted'
<1>1. pc' = "done" /\ claims' = Released
    BY StopIsTyped
<1> SUFFICES ASSUME NEW p \in Path PROVE claims'[p] = 0
    BY <1>1 DEF ClaimsAreCounted
<1>2. PICK n : n = Cardinality(FramesOf(stack, p))
    OBVIOUS
<1>3. n \in Nat
    BY <1>2, FramesAreFinite DEF Basics, Typed
<1>4. claims'[p] = claims[p] - n - (IF p \in found THEN 1 ELSE 0) - (IF item.object = p THEN 1 ELSE 0)
    BY <1>1, <1>2, ReleaseIs DEF Basics
<1>5. claims[p] = n + (IF p \in found THEN 1 ELSE 0) + (IF p = item.object THEN 1 ELSE 0)
    BY <1>2 DEF ClaimsAreCounted
<1> QED
    BY <1>3, <1>4, <1>5

LEMMA SelectIsFixed ==
    ASSUME [Next]_vars
    PROVE  select' = select
BY DEF vars, Next, Walk, VisitObject, AskMount, VisitResult, Unwind, NextSegment, HasNext, Next_, Leave, Write

\* A select for one expression over the store.
Simple == OnlyStore /\ OneExpression

LEMMA SimpleStep ==
    ASSUME Simple, Basics, [Next]_vars
    PROVE  Simple' /\ Basics' /\ ~RunsNext
<1>1. select' = select
    BY SelectIsFixed
<1>2. ~RunsNext
  <2>1. expr \in 1..1
      BY ExprIs DEF Simple, OneExpression, Basics
  <2> QED
      BY <2>1 DEF RunsNext, Simple, OneExpression
<1> QED
    BY <1>1, <1>2, StepIsTyped DEF Simple, OneExpression

LEMMA StepKeepsClaims ==
    ASSUME Simple, Basics, ClaimsAreCounted, [Next]_vars
    PROVE  ClaimsAreCounted'
<1> USE DEF Simple
<1>1. CASE Write
  <2>1. /\ Len(stack') = Len(stack) /\ \A i \in DOMAIN stack : stack'[i].o = stack[i].o
        /\ UNCHANGED <<pc, walk, item, claims>> /\ Basics'
      BY <1>1, WriteIs
  <2>2. stack \in Seq(FrameSet) /\ stack' \in Seq(FrameSet) /\ DOMAIN stack = 1..Len(stack) /\ found' = found
      BY <2>1, TopIs DEF Basics, Typed, walk
  <2>3. \A p : FramesOf(stack', p) = FramesOf(stack, p)
      BY <2>1, <2>2, SameFrames
  <2> QED
      BY <2>1, <2>2, <2>3 DEF ClaimsAreCounted
<1>2. CASE Next_
  <2>1. UNCHANGED <<stack, found, item, claims>> /\ pc # "done" /\ pc' # "done"
      BY <1>2 DEF Next_, walk
  <2> QED
      BY <2>1 DEF ClaimsAreCounted
<1>3. CASE UNCHANGED vars
    BY <1>3 DEF vars, walk, ClaimsAreCounted
<1>4. CASE pc # "done" /\ \E how : Stop(how) /\ UNCHANGED <<select, objs, written, skip, count, yielded>>
  <2>1. PICK how : Stop(how) /\ UNCHANGED <<select, objs, written, yielded>>
      BY <1>4
  <2> QED
      BY <1>4, <2>1, StopKeepsClaims
<1>5. CASE /\ pc = "idle" /\ pc' = "tree" /\ mask # "none"
           /\ UNCHANGED <<walk, mask, stack, item, location, claims, ended, select, objs, written, skip, count, yielded>>
  <2>1. UNCHANGED <<stack, found, item, claims>> /\ pc # "done" /\ pc' # "done"
      BY <1>5 DEF walk
  <2> QED
      BY <2>1 DEF ClaimsAreCounted
<1> QED
    BY <1>1, <1>2, <1>3, <1>4, <1>5, NextIs, SimpleStep, VisitKeepsClaims, UnwindKeepsClaims, DeeperKeepsClaims

LEMMA InitCounted ==
    ASSUME Simple, Init
    PROVE  ClaimsAreCounted
<1> USE DEF Simple
<1>1. /\ Basics /\ Len(stack) = 1 /\ item = NoItem /\ pc = "idle"
      /\ \A p \in Path : claims[p] = (IF p \in found THEN 1 ELSE 0) + (IF p = stack[1].o THEN 1 ELSE 0)
    BY InitIsBasic
<1>2. \A p : Cardinality(FramesOf(stack, p)) = (IF p = stack[1].o THEN 1 ELSE 0)
    BY <1>1, SingleFrame DEF Basics, Typed
<1>3. \A p \in Path : p # item.object
    BY <1>1, NoObjectIsNoPath DEF NoItem
<1> QED
    BY <1>1, <1>2, <1>3 DEF ClaimsAreCounted

\* Every object that a select over the store claimed, for its frames, for the segments of
\* its scope and for its item, is released once, wherever the application stops
\* (corto_selectRelease, corto_selectReset, corto_selectTree).
THEOREM ClaimsAreReleased == Spec => []StoreClaimsAreReturned
<1> DEFINE Inv == Simple => Basics /\ ClaimsAreCounted
<1>1. Init => Inv
    BY InitIsBasic, InitCounted DEF Simple
<1>2. Inv /\ [Next]_vars => Inv'
  <2> SUFFICES ASSUME Inv, [Next]_vars, Simple' PROVE Basics' /\ ClaimsAreCounted'
      OBVIOUS
  <2>1. select' = select
      BY SelectIsFixed
  <2>2. Simple
      BY <2>1 DEF Simple, OnlyStore, OneExpression
  <2> QED
      BY <2>2, SimpleStep, StepKeepsClaims
<1>3. Inv => StoreClaimsAreReturned
    BY DEF StoreClaimsAreReturned, ClaimsAreReturned, Simple, OnlyStore, OneExpression, ClaimsAreCounted
<1> QED
    BY <1>1, <1>2, <1>3, PTL DEF Spec

(***************************************************************************)
(* What is returned is asked for                                           *)
(***************************************************************************)
\* No object has the type corto_unknown_o, which makes an item hidden.
AllKnown == \A p \in Path : TypeOf(p) # "unknown"

AskedFor(p, t) == \E e \in DOMAIN select.exprs : Asked(p, t, select.exprs[e])

\* The first frame is that of a segment, and the others are in the scope of the expression.
Rooted ==
    /\ stack[1].o \in {NoObject, SegmentPath(Expr, seg)}
    /\ \A n \in DOMAIN stack : n = 1 \/ Under(stack[n].o, Expr.from)

AskedInv ==
    /\ item.hidden = FALSE /\ Rooted
    /\ \A i \in DOMAIN yielded : AskedFor(yielded[i].place, yielded[i].type)
    /\ pc = "next" => AskedFor(item.place, item.type)

LEMMA UnderScope ==
    ASSUME NEW p \in Path, p # <<>>, NEW q \in Path, Front(p) = q \/ Under(Front(p), q)
    PROVE  Under(p, q)
<1>1. PICK f : f = Front(p)
    OBVIOUS
<1>2. /\ f \in Path /\ Len(f) = Len(p) - 1 /\ \A i \in 1..Len(f) : f[i] = p[i]
    BY <1>1, ChildrenAre
<1>3. p \in Seq(Name) /\ q \in Seq(Name) /\ f \in Seq(Name) /\ Len(p) \in Nat /\ Len(q) \in Nat /\ Len(f) \in Nat
    BY <1>2, PathsAre
<1>4. CASE f = q
  <2>1. Len(p) > Len(q) /\ \A i \in 1..Len(q) : p[i] = q[i]
      BY <1>2, <1>3, <1>4
  <2>2. SubSeq(p, 1, Len(q)) = q
      BY <1>3, <2>1
  <2> QED
      BY <2>1, <2>2 DEF Under
<1>5. CASE Under(f, q)
  <2>1. Len(f) > Len(q) /\ SubSeq(f, 1, Len(q)) = q
      BY <1>5 DEF Under
  <2>2. \A i \in 1..Len(q) : f[i] = q[i]
      BY <1>3, <2>1
  <2>3. Len(p) > Len(q) /\ \A i \in 1..Len(q) : p[i] = q[i]
      BY <1>2, <1>3, <2>1, <2>2
  <2>4. SubSeq(p, 1, Len(q)) = q
      BY <1>3, <2>3
  <2> QED
      BY <2>3, <2>4 DEF Under
<1> QED
    BY <1>1, <1>4, <1>5

LEMMA WholeSegment ==
    ASSUME Typed, seg = Len(Expr.from)
    PROVE  SegmentPath(Expr, seg) = Expr.from
<1>1. Expr.from \in Seq(Name)
    BY ExprIs, PathsAre
<1> QED
    BY <1>1 DEF SegmentPath

\* What is visited is in the scope of the expression, at its depth.
LEMMA VisitInScope ==
    ASSUME Basics, AskedInv, pc = "tree", NEW o \in FromStore(Top)
    PROVE  /\ mask = Expr.mask /\ InScope(o, Expr)
           /\ mask # "tree" => Top.o = Expr.from
           /\ mask = "tree" => o # <<>> /\ Front(o) = Top.o /\ Under(o, Expr.from)
<1> USE DEF Basics
<1>1. mask = Expr.mask
    BY DEF Depth
<1>2. o \in Path /\ Top.o \in Path /\ seg = Len(Expr.from)
    BY FromStoreIs
<1>3. Expr.from \in Path /\ SegmentPath(Expr, seg) = Expr.from
    BY <1>2, ExprIs, WholeSegment DEF Typed
<1>4. Len(stack) \in Nat \ {0} /\ DOMAIN stack = 1..Len(stack) /\ Top = stack[Len(stack)]
    BY TopIs DEF Top
<1>5. Top.o = Expr.from \/ Under(Top.o, Expr.from)
    BY <1>2, <1>3, <1>4, NoObjectIsNoPath DEF AskedInv, Rooted
<1>6. mask # "tree" => Top.o = Expr.from
    BY <1>2, <1>3, <1>4, NoObjectIsNoPath DEF AskedInv, Rooted, Depth
<1>7. mask = "tree" => o # <<>> /\ Front(o) = Top.o /\ Under(o, Expr.from)
  <2>1. mask = "tree" => o # <<>> /\ Front(o) = Top.o
      BY FromStoreIs
  <2> QED
      BY <1>2, <1>3, <1>5, <2>1, UnderScope
<1>8. InScope(o, Expr)
    BY <1>1, <1>6, <1>7, FromStoreIs DEF InScope
<1> QED
    BY <1>1, <1>6, <1>7, <1>8

LEMMA VisitIsAsked ==
    ASSUME AllKnown, Basics, AskedInv, VisitObject
    PROVE  AskedInv'
<1> USE DEF Basics
<1>1. PICK o \in FromStore(Top) : Visits(o)
    BY VisitIs
<1>2. pc = "tree" /\ UNCHANGED <<select, expr, seg, yielded>> /\ Expr' = Expr
    BY VisitIs DEF walk, Expr
<1>3. o \in Path /\ Top.o \in Path /\ seg = Len(Expr.from)
    BY FromStoreIs
<1>4. Expr.from \in Path /\ SegmentPath(Expr, seg) = Expr.from /\ expr \in DOMAIN select.exprs
    BY <1>3, ExprIs, WholeSegment DEF Typed
<1>5. PICK L : L = Len(stack)
    OBVIOUS
<1>6. L \in Nat \ {0} /\ DOMAIN stack = 1..L /\ Top = stack[L]
    BY <1>5, TopIs DEF Top
<1>7. InScope(o, Expr) /\ (mask = "tree" => Under(o, Expr.from))
    BY <1>2, VisitInScope
<1>8. Match(o) => Asked(o, TypeOf(o), Expr)
    BY <1>7 DEF Match, ObjectMatches, Accepts, TypeMatches, Asked, AskedInv
<1>9. ~HiddenMatch(o)
    BY <1>3 DEF HiddenMatch, AllKnown
<1>10. item'.hidden = FALSE
    BY <1>1, <1>9 DEF Visits, SeenItem, AskedInv
<1>11. pc' = "next" => AskedFor(item.place, item.type)'
  <2> SUFFICES ASSUME pc' = "next" PROVE AskedFor(item.place, item.type)'
      OBVIOUS
  <2>1. Match(o) /\ item' = SeenItem(o)
      BY <1>1 DEF Visits
  <2>2. item'.place = o /\ item'.type = TypeOf(o)
      BY <2>1 DEF SeenItem
  <2>3. Asked(o, TypeOf(o), select.exprs[expr])
      BY <1>8, <2>1 DEF Expr
  <2> QED
      BY <1>2, <1>4, <2>2, <2>3 DEF AskedFor, Asked, InScope
<1>12. (\A i \in DOMAIN yielded : AskedFor(yielded[i].place, yielded[i].type))'
    BY <1>2 DEF AskedInv, AskedFor, Asked, InScope
<1>13. Rooted'
  <2>1. /\ \A n \in 1..L - 1 : stack'[n] = stack[n]
        /\ stack'[L].o = Top.o
        /\ Len(stack') = L \/ (Len(stack') = L + 1 /\ stack'[L + 1].o = o /\ mask = "tree")
      BY <1>1, <1>3, <1>5, VisitedFrames, ReadFrameIs, ChildIs DEF Pushes
  <2>2. \A n \in 1..L : stack'[n].o = stack[n].o
      BY <1>6, <2>1
  <2>3. PICK m : m = Len(stack') /\ DOMAIN stack' = 1..m
      BY VisitIsTyped, ElementsAre DEF Typed
  <2>4. \A n \in 1..m : n \in 1..L \/ (n = L + 1 /\ stack'[n].o = o /\ mask = "tree")
      BY <1>6, <2>1, <2>3
  <2>5. \A n \in DOMAIN stack' : n = 1 \/ Under(stack'[n].o, Expr.from)
      BY <1>6, <1>7, <2>2, <2>3, <2>4 DEF AskedInv, Rooted
  <2>6. stack'[1].o = stack[1].o
      BY <1>6, <2>2
  <2> QED
      BY <1>2, <2>5, <2>6 DEF AskedInv, Rooted, SegmentPath
<1> QED
    BY <1>2, <1>10, <1>11, <1>12, <1>13 DEF AskedInv

LEMMA SameAsked ==
    ASSUME AskedInv, select' = select, yielded' = yielded, pc' # "next", item'.hidden = item.hidden, Rooted'
    PROVE  AskedInv'
<1>1. \A p, t : AskedFor(p, t)' <=> AskedFor(p, t)
    BY DEF AskedFor, Asked, InScope
<1> QED
    BY <1>1 DEF AskedInv

LEMMA StepIsAsked ==
    ASSUME AllKnown, OnlyStore, Basics, AskedInv, [Next]_vars
    PROVE  AskedInv'
<1> USE DEF Basics
<1>1. item \in Items
    BY DEF Typed
<1>2. ResetItem => item'.hidden = item.hidden
    BY <1>1 DEF ResetItem, Items
<1>3. select' = select
    BY SelectIsFixed
<1>4. UNCHANGED <<expr, seg, stack>> => Rooted'
    BY <1>3 DEF AskedInv, Rooted, Expr, SegmentPath
<1>5. CASE Unwind
  <2>1. /\ stack' = Front(stack) /\ UNCHANGED <<pc, seg, expr, yielded>> /\ pc = "tree"
        /\ item' = [item EXCEPT !.name = NameOf(Top)] /\ Basics' /\ Len(stack') = Len(stack) - 1
      BY <1>5, UnwindIsTyped DEF Unwind, Depleted
  <2>2. /\ Len(stack) \in Nat \ {0} /\ DOMAIN stack = 1..Len(stack) /\ \A n \in 1..Len(stack) - 1 : stack'[n] = stack[n]
      BY <2>1, TopIs
  <2>3. stack' \in Seq(FrameSet) /\ stack' # <<>>
      BY <2>1 DEF Typed
  <2>31. Len(stack') \in Nat \ {0} /\ DOMAIN stack' = 1..Len(stack')
      BY <2>3
  <2>4. Expr' = Expr
      BY <1>3, <2>1 DEF Expr
  <2>5. Rooted'
      BY <2>1, <2>2, <2>31, <2>4 DEF AskedInv, Rooted, SegmentPath
  <2>6. item'.hidden = item.hidden
      BY <1>1, <2>1 DEF Items
  <2> QED
      BY <1>3, <2>1, <2>5, <2>6, SameAsked
<1>6. CASE GoesDeeper
  <2>1. /\ Expr' = Expr /\ Len(stack') = 1 /\ stack'[1].o = SegmentObject(Expr, found, seg + 1) /\ Basics'
      BY <1>6, DeeperIsTyped
  <2>2. /\ seg' = seg + 1 /\ pc' = "tree" /\ yielded' = yielded /\ ResetItem
      BY <1>6 DEF GoesDeeper
  <2>3. DOMAIN stack' = {1}
      BY <2>1 DEF Typed
  <2>4. Rooted'
      BY <2>1, <2>2, <2>3, SegmentsAre DEF Rooted, SegmentPath, SegmentObject
  <2> QED
      BY <1>2, <1>3, <2>2, <2>4, SameAsked
<1>7. CASE RunsNext
  <2>1. Basics' /\ Len(stack') = 1
      BY <1>7, RunIsTyped
  <2>2. PICK fnd, o : /\ fnd = SplitScope(select.exprs[expr + 1])
                      /\ o = SegmentObject(select.exprs[expr + 1], fnd, 0)
      OBVIOUS
  <2>3. /\ pc' = "tree" /\ yielded' = yielded /\ ResetItem /\ expr' = expr + 1 /\ seg' = 0
        /\ stack' = <<[o |-> o, iter |-> ScopeIter(o), mount |-> 0, first |-> 0, length |-> 0]>>
      BY <1>7, <2>2 DEF RunsNext, Run, PrepareFrame
  <2>4. stack'[1].o = o /\ DOMAIN stack' = {1}
      BY <2>3
  <2>5. Expr' = select.exprs[expr + 1]
      BY <1>3, <2>3 DEF Expr
  <2>6. Rooted'
      BY <2>2, <2>3, <2>4, <2>5 DEF Rooted, SegmentObject, SegmentPath
  <2> QED
      BY <1>2, <1>3, <2>3, <2>6, SameAsked
<1>8. CASE Next_
  <2>1. /\ pc = "next" /\ pc' = "idle" /\ yielded' = Append(yielded, [place |-> item.place, type |-> item.type])
        /\ UNCHANGED <<expr, seg, stack, item>>
      BY <1>8 DEF Next_, walk
  <2>2. PICK y : y = [place |-> item.place, type |-> item.type]
      OBVIOUS
  <2>3. y \in [place: Objects, type: TypesOf] /\ AskedFor(y.place, y.type)
      BY <1>1, <2>1, <2>2 DEF Items, AskedInv
  <2>4. yielded \in Seq([place: Objects, type: TypesOf]) /\ yielded' = Append(yielded, y)
      BY <2>1, <2>2 DEF Typed
  <2>5. \A i \in DOMAIN yielded' : \/ i \in DOMAIN yielded /\ yielded'[i] = yielded[i]
                                   \/ yielded'[i] = y
    <3>1. /\ Len(yielded') = Len(yielded) + 1 /\ yielded'[Len(yielded) + 1] = y
          /\ yielded' \in Seq([place: Objects, type: TypesOf])
          /\ \A i \in 1..Len(yielded) : yielded'[i] = yielded[i]
        BY <2>3, <2>4, AppendProperties
    <3>2. DOMAIN yielded = 1..Len(yielded) /\ DOMAIN yielded' = 1..(Len(yielded) + 1) /\ Len(yielded) \in Nat
        BY <2>4, <3>1
    <3>3. PICK n : n = Len(yielded)
        OBVIOUS
    <3>4. \A i \in 1..(n + 1) : i \in 1..n \/ i = n + 1
        BY <3>2, <3>3
    <3> QED
        BY <3>1, <3>2, <3>3, <3>4
  <2>6. \A i \in DOMAIN yielded' : AskedFor(yielded'[i].place, yielded'[i].type)
      BY <2>3, <2>5 DEF AskedInv
  <2>7. (\A i \in DOMAIN yielded : AskedFor(yielded[i].place, yielded[i].type))'
      BY <1>3, <2>6 DEF AskedFor, Asked, InScope
  <2> QED
      BY <1>4, <2>1, <2>7 DEF AskedInv
<1>9. CASE Write
  <2>1. /\ Len(stack') = Len(stack) /\ \A i \in DOMAIN stack : stack'[i].o = stack[i].o
        /\ UNCHANGED <<pc, walk, item, yielded>> /\ Basics'
      BY <1>9, WriteIs
  <2>2. DOMAIN stack = 1..Len(stack) /\ Len(stack) \in Nat \ {0} /\ DOMAIN stack' = 1..Len(stack) /\ Expr' = Expr /\ seg' = seg
      BY <1>3, <2>1, TopIs DEF Typed, walk, Expr
  <2>3. Rooted'
      BY <2>1, <2>2 DEF AskedInv, Rooted, SegmentPath
  <2> QED
      BY <1>3, <2>1, <2>3 DEF AskedInv, AskedFor, Asked, InScope
<1>10. CASE UNCHANGED vars
  <2>1. UNCHANGED <<expr, seg, stack, item, pc, yielded>>
      BY <1>10 DEF vars, walk
  <2> QED
      BY <1>3, <1>4, <2>1 DEF AskedInv, AskedFor, Asked, InScope
<1>11. CASE pc # "done" /\ \E how : Stop(how) /\ UNCHANGED <<select, objs, written, skip, count, yielded>>
  <2>1. UNCHANGED <<expr, seg, stack, yielded>> /\ pc' = "done" /\ ResetItem
      BY <1>11 DEF Stop, walk
  <2> QED
      BY <1>2, <1>3, <1>4, <2>1, SameAsked
<1>12. CASE /\ pc = "idle" /\ pc' = "tree" /\ mask # "none"
           /\ UNCHANGED <<walk, mask, stack, item, location, claims, ended, select, objs, written, skip, count, yielded>>
  <2>1. UNCHANGED <<expr, seg, stack, yielded, item>> /\ pc' = "tree"
      BY <1>12 DEF walk
  <2> QED
      BY <1>3, <1>4, <2>1, SameAsked
<1> QED
    BY <1>5, <1>6, <1>7, <1>8, <1>9, <1>10, <1>11, <1>12, NextIs, VisitIsAsked

LEMMA InitIsAsked ==
    ASSUME Init, OnlyStore
    PROVE  Basics /\ AskedInv
<1>1. /\ Basics /\ Len(stack) = 1 /\ yielded = <<>> /\ item = NoItem /\ pc = "idle"
      /\ stack[1].o = SegmentObject(Expr, found, seg)
    BY InitIsBasic
<1>2. DOMAIN stack = {1}
    BY <1>1 DEF Basics, Typed
<1>3. Rooted
    BY <1>1, <1>2 DEF Rooted, SegmentObject
<1>4. DOMAIN <<>> = {} /\ NoItem.hidden = FALSE
    BY DEF NoItem
<1> QED
    BY <1>1, <1>3, <1>4 DEF AskedInv

\* A select over the store returns nothing that is not asked for: an object in the scope of
\* an expression, at its depth, with a name that its filter accepts and the type of the select
\* (corto_selectMatch, corto_selectTree), whatever is added and deleted meanwhile.
THEOREM ResultsAreAsked == AllKnown /\ Spec => [](OnlyStore => YieldedIsAsked)
<1> DEFINE Inv == OnlyStore => Basics /\ AskedInv
<1> SUFFICES ASSUME AllKnown PROVE Spec => [](OnlyStore => YieldedIsAsked)
    OBVIOUS
<1>1. Init => Inv
    BY InitIsAsked
<1>2. Inv /\ [Next]_vars => Inv'
  <2> SUFFICES ASSUME Inv, [Next]_vars, OnlyStore' PROVE Basics' /\ AskedInv'
      OBVIOUS
  <2>1. OnlyStore
      BY SelectIsFixed DEF OnlyStore
  <2> QED
      BY <2>1, StepIsTyped, StepIsAsked
<1>3. Inv => (OnlyStore => YieldedIsAsked)
    BY DEF YieldedIsAsked, AskedInv, AskedFor
<1> QED
    BY <1>1, <1>2, <1>3, PTL DEF Spec

(***************************************************************************)
(* Nothing is returned twice                                               *)
(***************************************************************************)
\* The places that were returned, and the one that is about to be.
Shown == Places \cup (IF pc = "next" THEN {item.place} ELSE {})

Below(p, q) == Len(p) > Len(q) /\ \A i \in 1..Len(q) : p[i] = q[i]
\* The name by which frame n reaches p.
NameIn(n, p) == p[Len(stack[n].o) + 1]
Key(n) == stack[n].iter.key

\* Frame n + 1 is that of the object that frame n has read last.
Entered(n) ==
    /\ stack[n].iter.kind = "store" /\ stack[n].o \in Path /\ stack[n + 1].o \in Path
    /\ stack[n + 1].o # <<>> /\ Front(stack[n + 1].o) = stack[n].o /\ Last(stack[n + 1].o) = Key(n)
\* Then a later frame is below it.
Descends(n, m) ==
    /\ stack[n].iter.kind = "store" /\ stack[n].o \in Path /\ stack[m].o \in Path
    /\ Below(stack[m].o, stack[n].o) /\ NameIn(n, stack[m].o) = Key(n)
Nested ==
    /\ \A n \in 1..Len(stack) - 1 : Entered(n)
    /\ \A n, m \in 1..Len(stack) : n < m => Descends(n, m)

\* The walk has passed p: it is below a frame, by a name before that which was read last or by
\* that name itself.  In the innermost frame it is also not behind the last item, from which a
\* scope that changed is read again.
PassedIn(n, p) ==
    /\ stack[n].iter.kind = "store" /\ stack[n].o \in Path /\ Below(p, stack[n].o)
    /\ NameIn(n, p) <= Key(n)
    /\ IF n = Len(stack) THEN NameIn(n, p) <= item.name
       ELSE NameIn(n, p) = Key(n) => Len(p) = Len(stack[n].o) + 1
Passed(p) == \E n \in 1..Len(stack) : PassedIn(n, p)

OnceInv ==
    /\ Nested /\ NeverTwice
    /\ \A p \in Shown : p \in Path
    /\ pc = "next" => item.place \notin Places
    /\ seg < Len(Expr.from) \/ mask = "self" => Shown = {}
    /\ pc = "done" \/ mask = "none" \/ \A p \in Shown : Passed(p)

\* What is read next was not passed.
LEMMA NextIsNew ==
    ASSUME Basics, OnceInv, NEW o \in FromStore(Top)
    PROVE  ~Passed(o)
<1> USE DEF Basics
<1>1. PICK L : L = Len(stack)
    OBVIOUS
<1>2. L \in Nat \ {0} /\ Top = stack[L] /\ Top \in FrameSet /\ o \in Path /\ Top.o \in Path
    BY <1>1, TopIs, FromStoreIs DEF Top
<1>3. Len(o) \in Nat /\ Len(Top.o) \in Nat
    BY <1>2, PathsAre
<1>4. SUFFICES ASSUME NEW n \in 1..L, PassedIn(n, o) PROVE FALSE
    BY <1>1 DEF Passed
<1>5. CASE n = L
  <2>1. /\ Below(o, Top.o) /\ NameIn(n, o) = o[Len(Top.o) + 1] /\ Key(n) = Top.iter.key
        /\ o[Len(Top.o) + 1] <= Top.iter.key /\ o[Len(Top.o) + 1] <= item.name
        /\ Top.iter.kind = "store"
      BY <1>1, <1>2, <1>4, <1>5 DEF PassedIn, NameIn, Key
  <2>2. o # Top.o
      BY <1>3, <2>1 DEF Below
  <2>3. o # <<>> /\ Front(o) = Top.o /\ Last(o) > NextKey(Top)
      BY <2>2, FromStoreIs
  <2>4. Len(Top.o) = Len(o) - 1 /\ Last(o) = o[Len(o)] /\ Last(o) \in Nat
      BY <1>2, <2>3, ChildrenAre, NamesAre
  <2>5. Last(o) <= Top.iter.key /\ Last(o) <= item.name
      BY <1>3, <2>1, <2>4
  <2>6. Top.iter.key \in Nat /\ item.name \in Nat
    <3>1. Top.iter \in StoreIters /\ item.name \in Name \cup {0}
        BY <1>2, <2>1 DEF Typed, Items, FrameSet, NoIter
    <3>2. Top.iter.key \in Name \cup {0}
        BY <3>1 DEF StoreIters
    <3> QED
        BY <3>1, <3>2, NatNames
  <2>7. NextKey(Top) = item.name \/ NextKey(Top) = Top.iter.key
      BY DEF NextKey
  <2> QED
      BY <2>3, <2>4, <2>5, <2>6, <2>7
<1>6. CASE n # L
  <2>1. n < L
      BY <1>2, <1>6
  <2>2. Descends(n, L)
      BY <1>1, <1>2, <2>1 DEF OnceInv, Nested
  <2>3. PICK q : q = stack[n].o
      OBVIOUS
  <2>4. /\ q \in Path /\ Len(Top.o) > Len(q) /\ Top.o[Len(q) + 1] = Key(n)
      BY <1>2, <2>2, <2>3 DEF Descends, NameIn, Below
  <2>5. o[Len(q) + 1] = Key(n) => Len(o) = Len(q) + 1
      BY <1>1, <1>4, <1>6, <2>3 DEF PassedIn, NameIn
  <2>6. Len(q) \in Nat /\ Len(o) \in Nat
      BY <1>3, <2>4, PathsAre
  <2>7. mask = "tree"
      BY <1>1, <1>2, <2>1 DEF Depth
  <2>8. o # <<>> /\ Front(o) = Top.o
      BY <2>7, FromStoreIs
  <2>9. Len(Top.o) = Len(o) - 1 /\ \A i \in 1..Len(Top.o) : Top.o[i] = o[i]
      BY <1>2, <2>8, ChildrenAre
  <2>10. o[Len(q) + 1] = Key(n)
      BY <1>3, <2>4, <2>6, <2>9
  <2> QED
      BY <2>4, <2>5, <2>6, <2>9, <2>10
<1> QED
    BY <1>5, <1>6

LEMMA KeysAre ==
    ASSUME Basics, NEW n \in 1..Len(stack), stack[n].iter.kind = "store"
    PROVE  Key(n) \in Nat
<1>1. stack[n] \in FrameSet
    BY TopIs DEF Basics
<1>2. stack[n].iter \in StoreIters
    BY <1>1 DEF FrameSet, NoIter
<1>3. Key(n) \in Name \cup {0}
    BY <1>2 DEF StoreIters, Key
<1> QED
    BY <1>3, NatNames

LEMMA NamesInAre ==
    ASSUME NEW n, NEW p \in Path, stack[n].o \in Path, Below(p, stack[n].o)
    PROVE  NameIn(n, p) \in Nat /\ NameIn(n, p) \in Name /\ Len(stack[n].o) \in Nat /\ Len(p) \in Nat
<1>1. p \in Seq(Name) /\ Len(p) \in Nat /\ Len(stack[n].o) \in Nat
    BY PathsAre
<1>2. Len(stack[n].o) + 1 \in 1..Len(p)
    BY <1>1 DEF Below
<1>3. p[Len(stack[n].o) + 1] \in Name
    BY <1>1, <1>2
<1> QED
    BY <1>1, <1>3, NamesAre DEF NameIn

LEMMA BelowBelow ==
    ASSUME NEW p \in Path, NEW q \in Path, NEW r \in Path, Below(p, q), Below(q, r)
    PROVE  Below(p, r) /\ p[Len(r) + 1] = q[Len(r) + 1]
<1>1. Len(p) \in Nat /\ Len(q) \in Nat /\ Len(r) \in Nat
    BY PathsAre
<1> QED
    BY <1>1 DEF Below

LEMMA ChildIsBelow ==
    ASSUME NEW p \in Path, p # <<>>, NEW q \in Path, Front(p) = q
    PROVE  Below(p, q) /\ p[Len(q) + 1] = Last(p) /\ Len(p) = Len(q) + 1 /\ Last(p) \in Nat
<1>1. Len(q) = Len(p) - 1 /\ (\A i \in 1..Len(q) : q[i] = p[i]) /\ Last(p) = p[Len(p)] /\ Last(p) \in Nat
    BY ChildrenAre, NamesAre
<1>2. Len(p) \in Nat
    BY PathsAre
<1> QED
    BY <1>1, <1>2 DEF Below

\* Frames that keep their objects and keys keep what was passed.
LEMMA SamePositions ==
    ASSUME Len(stack') = Len(stack), item'.name = item.name,
           \A n \in 1..Len(stack) : /\ stack'[n].o = stack[n].o /\ stack'[n].iter.kind = stack[n].iter.kind
                                    /\ stack[n].iter.kind = "store" => stack'[n].iter.key = stack[n].iter.key
    PROVE  \A p : Passed(p) => Passed(p)'
<1> SUFFICES ASSUME NEW p, NEW n \in 1..Len(stack), PassedIn(n, p) PROVE PassedIn(n, p)'
    BY DEF Passed
<1>1. Key(n)' = Key(n) /\ NameIn(n, p)' = NameIn(n, p) /\ stack'[n].o = stack[n].o
      /\ stack'[n].iter.kind = stack[n].iter.kind
    BY DEF PassedIn, Key, NameIn
<1> QED
    BY <1>1 DEF PassedIn

LEMMA SameNesting ==
    ASSUME Len(stack') = Len(stack), Len(stack) \in Nat,
           \A n \in 1..Len(stack) : /\ stack'[n].o = stack[n].o /\ stack'[n].iter.kind = stack[n].iter.kind
                                    /\ stack[n].iter.kind = "store" => stack'[n].iter.key = stack[n].iter.key,
           Nested
    PROVE  Nested'
<1>1. PICK L : L = Len(stack)
    OBVIOUS
<1>2. \A n \in 1..L - 1 : Entered(n)'
  <2> SUFFICES ASSUME NEW n \in 1..L - 1 PROVE Entered(n)'
      OBVIOUS
  <2>1. n \in 1..L /\ n + 1 \in 1..L /\ Entered(n)
      BY <1>1 DEF Nested
  <2> QED
      BY <1>1, <2>1 DEF Entered, Key
<1>3. \A n, m \in 1..L : n < m => Descends(n, m)'
  <2> SUFFICES ASSUME NEW n \in 1..L, NEW m \in 1..L, n < m PROVE Descends(n, m)'
      OBVIOUS
  <2>1. Descends(n, m)
      BY <1>1 DEF Nested
  <2> QED
      BY <1>1, <2>1 DEF Descends, Key, NameIn
<1> QED
    BY <1>1, <1>2, <1>3 DEF Nested

\* The scope of the innermost frame is read on.
LEMMA VisitPasses ==
    ASSUME Basics, OnceInv, VisitObject, NEW o \in FromStore(Top), Visits(o),
           ~(o = Top.o /\ mask = "self" /\ Expr.filter = {})
    PROVE  /\ Nested' /\ (Match(o) => Passed(o)')
           /\ \A p \in Path : Passed(p) => Passed(p)'
<1> USE DEF Basics
<1>1. PICK L : L = Len(stack)
    OBVIOUS
<1>2. L \in Nat \ {0} /\ L \in 1..L /\ Top = stack[L] /\ o \in Path /\ Top.o \in Path
    BY <1>1, TopIs, FromStoreIs DEF Top
<1>3. /\ Top.iter.kind = "store" /\ o # <<>> /\ Front(o) = Top.o /\ Last(o) > NextKey(Top) /\ o # Top.o
    BY FromStoreIs
<1>4. Below(o, Top.o) /\ o[Len(Top.o) + 1] = Last(o) /\ Len(o) = Len(Top.o) + 1 /\ Last(o) \in Nat
    BY <1>2, <1>3, ChildIsBelow
<1>5. PICK f : f = ReadFrame(o)
    OBVIOUS
<1>6. f \in FrameSet /\ f.o = Top.o /\ f.iter.kind = "store" /\ f.iter.key = Last(o)
    BY <1>3, <1>5, ReadFrameIs
<1>7. PICK M : M = Len(stack')
    OBVIOUS
<1>8. /\ \A n \in 1..L - 1 : stack'[n] = stack[n]
      /\ stack'[L] = f
      /\ \/ M = L /\ ~Pushes(o)
         \/ M = L + 1 /\ stack'[L + 1].o = o /\ Pushes(o)
    BY <1>1, <1>2, <1>5, <1>7, VisitedFrames, ChildIs
<1>9. /\ item'.name = item.name \/ item'.name = Last(o)
      /\ (Match(o) => item'.name = Last(o))
  <2>1. Id(o) = Last(o)
      BY <1>2, <1>3, ChildrenAre
  <2> QED
      BY <2>1 DEF Visits, SeenItem
<1>10. Nested'
  <2>1. \A n \in 1..M - 1 : Entered(n)'
    <3> SUFFICES ASSUME NEW n \in 1..M - 1 PROVE Entered(n)'
        OBVIOUS
    <3>1. CASE n < L - 1
      <4>1. n \in 1..L - 1 /\ n + 1 \in 1..L - 1 /\ Entered(n)
          BY <1>1, <1>2, <3>1 DEF OnceInv, Nested
      <4>2. stack'[n] = stack[n] /\ stack'[n + 1] = stack[n + 1]
          BY <1>8, <4>1
      <4> QED
          BY <4>1, <4>2 DEF Entered, Key
    <3>2. CASE n = L - 1
      <4>1. n \in 1..L - 1 /\ n + 1 = L /\ Entered(n)
          BY <1>1, <1>2, <3>2 DEF OnceInv, Nested
      <4>2. stack'[n] = stack[n] /\ stack'[n + 1].o = stack[n + 1].o
          BY <1>2, <1>6, <1>8, <4>1
      <4> QED
          BY <4>1, <4>2 DEF Entered, Key
    <3>3. CASE n = L
      <4>1. stack'[n] = f /\ stack'[n + 1].o = o
          BY <1>2, <1>8, <3>3
      <4> QED
          BY <1>2, <1>3, <1>6, <4>1 DEF Entered, Key
    <3> QED
        BY <1>2, <1>8, <3>1, <3>2, <3>3
  <2>2. \A n, m \in 1..L : n < m => Descends(n, m)'
    <3> SUFFICES ASSUME NEW n \in 1..L, NEW m \in 1..L, n < m PROVE Descends(n, m)'
        OBVIOUS
    <3>1. Descends(n, m)
        BY <1>1 DEF OnceInv, Nested
    <3>2. n \in 1..L - 1 /\ stack'[n] = stack[n]
        BY <1>2, <1>8
    <3>3. stack'[m].o = stack[m].o
        BY <1>2, <1>6, <1>8
    <3> QED
        BY <3>1, <3>2, <3>3 DEF Descends, Key, NameIn
  <2>3. CASE M = L
      BY <1>7, <2>1, <2>2, <2>3 DEF Nested
  <2>4. CASE M = L + 1
    <3>1. stack'[M].o = o
        BY <1>2, <1>8, <2>4
    <3>2. \A n \in 1..L : Descends(n, M)'
      <4> SUFFICES ASSUME NEW n \in 1..L PROVE Descends(n, M)'
          OBVIOUS
      <4>1. CASE n = L
          BY <1>2, <1>4, <1>6, <1>8, <3>1, <4>1 DEF Descends, Key, NameIn
      <4>2. CASE n # L
        <5>1. n \in 1..L - 1 /\ stack'[n] = stack[n] /\ n < L
            BY <1>2, <1>8, <4>2
        <5>2. Descends(n, L)
            BY <1>1, <1>2, <5>1 DEF OnceInv, Nested
        <5>3. /\ stack[n].iter.kind = "store" /\ stack[n].o \in Path
              /\ Below(Top.o, stack[n].o) /\ Top.o[Len(stack[n].o) + 1] = Key(n)
            BY <1>2, <5>2 DEF Descends, NameIn
        <5>4. Below(o, stack[n].o) /\ o[Len(stack[n].o) + 1] = Key(n)
          <6>1. PICK q, r : q = Top.o /\ r = stack[n].o
              OBVIOUS
          <6>2. q \in Path /\ r \in Path /\ o \in Path /\ Below(o, q) /\ Below(q, r)
              BY <1>2, <1>4, <5>3, <6>1
          <6>3. Below(o, r) /\ o[Len(r) + 1] = q[Len(r) + 1]
              BY <6>2, BelowBelow
          <6> QED
              BY <5>3, <6>1, <6>3
        <5> QED
            BY <1>2, <3>1, <5>1, <5>3, <5>4 DEF Descends, Key, NameIn
      <4> QED
          BY <4>1, <4>2
    <3>3. \A n, m \in 1..M : n < m => n \in 1..L /\ (m \in 1..L \/ m = M)
        BY <1>2, <2>4
    <3>4. \A n, m \in 1..M : n < m => Descends(n, m)'
        BY <2>2, <3>2, <3>3
    <3> QED
        BY <1>7, <2>1, <3>4 DEF Nested
  <2> QED
      BY <1>8, <2>3, <2>4
<1>11. L \in 1..M /\ M \in {L, L + 1}
    BY <1>2, <1>8
<1>12. ASSUME Match(o) PROVE Passed(o)'
  <2>1. PassedIn(L, o)'
      BY <1>2, <1>4, <1>6, <1>7, <1>8, <1>9, <1>12 DEF PassedIn, NameIn, Key
  <2> QED
      BY <1>7, <1>11, <2>1 DEF Passed
<1>13. ASSUME NEW p \in Path, Passed(p) PROVE Passed(p)'
  <2>1. PICK n \in 1..L : PassedIn(n, p)
      BY <1>1, <1>13 DEF Passed
  <2>2. CASE n = L
    <3>1. PICK k : k = NameIn(L, p)
        OBVIOUS
    <3>2. /\ Below(p, Top.o) /\ k <= Key(L) /\ k <= item.name /\ k \in Nat
        BY <1>1, <1>2, <1>13, <2>1, <2>2, <3>1, NamesInAre DEF PassedIn
    <3>3. Key(L) \in Nat /\ item.name \in Nat
      <4>1. Key(L) \in Nat
          BY <1>1, <1>2, <1>3, KeysAre
      <4>2. item.name \in Name \cup {0}
          BY DEF Typed, Items
      <4> QED
          BY <4>1, <4>2, NatNames
    <3>4. NextKey(Top) = item.name \/ NextKey(Top) = Key(L)
        BY <1>2 DEF NextKey, Key
    <3>5. k < Last(o)
        BY <1>3, <1>4, <3>2, <3>3, <3>4
    <3>6. k <= item'.name
        BY <1>4, <1>9, <3>2, <3>3, <3>5
    <3>7. NameIn(L, p)' = k /\ Key(L)' = Last(o) /\ stack'[L].iter.kind = "store" /\ stack'[L].o = Top.o
        BY <1>2, <1>6, <1>8, <3>1 DEF NameIn, Key
    <3>8. PassedIn(L, p)'
        BY <1>2, <1>4, <3>2, <3>5, <3>6, <3>7 DEF PassedIn
    <3> QED
        BY <1>7, <1>11, <3>8 DEF Passed
  <2>3. CASE n # L
    <3>1. n \in 1..L - 1 /\ stack'[n] = stack[n] /\ n # M /\ n \in 1..M
        BY <1>2, <1>8, <1>11, <2>3
    <3>2. PassedIn(n, p)'
        BY <1>1, <1>7, <2>1, <2>3, <3>1 DEF PassedIn, NameIn, Key
    <3> QED
        BY <1>7, <3>1, <3>2 DEF Passed
  <2> QED
      BY <2>2, <2>3
<1> QED
    BY <1>10, <1>12, <1>13

LEMMA ShownSubset ==
    ASSUME yielded' = yielded, pc' # "next"
    PROVE  Shown' = Places /\ Places' = Places /\ Shown' \subseteq Shown
BY DEF Shown, Places

LEMMA VisitKeepsOnce ==
    ASSUME Basics, OnceInv, VisitObject
    PROVE  OnceInv'
<1> USE DEF Basics
<1>1. PICK o \in FromStore(Top) : Visits(o)
    BY VisitIs
<1>2. /\ pc = "tree" /\ mask # "none" /\ UNCHANGED <<select, expr, seg, yielded>>
      /\ Expr' = Expr /\ pc' \in {"next", "tree", "segment"}
    BY <1>1, VisitIs DEF walk, Expr, Depth, Visits
<1>3. o \in Path /\ seg = Len(Expr.from)
    BY FromStoreIs
<1>4. ~Passed(o)
    BY NextIsNew
<1>5. Shown = Places /\ Places' = Places /\ \A p \in Places : p \in Path /\ Passed(p)
    BY <1>2 DEF Shown, Places, OnceInv
<1>6. o \notin Places
    BY <1>4, <1>5
<1>7. pc' = "next" => Match(o) /\ item'.place = o
    BY <1>1 DEF Visits, SeenItem
<1>8. Shown' = IF pc' = "next" THEN Places \cup {o} ELSE Places
    BY <1>5, <1>7 DEF Shown
<1>9. NeverTwice'
    BY <1>2 DEF OnceInv, NeverTwice
<1>10. (\A p \in Shown : p \in Path)' /\ (pc' = "next" => item'.place \notin Places')
    BY <1>3, <1>5, <1>6, <1>7, <1>8
<1>11. ~(seg < Len(Expr.from))
  <2>1. Len(Expr.from) \in Nat
      BY ExprIs, PathsAre
  <2>2. PICK k : k = Len(Expr.from)
      OBVIOUS
  <2> QED
      BY <1>3, <2>1, <2>2
<1>12. mask' = "self" => Shown' = {}
  <2>1. mask' = "self" => mask = "self" /\ pc' # "next"
      BY <1>1 DEF Visits
  <2> QED
      BY <1>5, <1>8, <2>1 DEF OnceInv
<1>13. CASE o = Top.o /\ mask = "self" /\ Expr.filter = {}
  <2>1. mask' = "none" \/ Shown' = {}
      BY <1>1, <1>12, <1>13 DEF Visits
  <2>2. Nested'
    <3>1. Len(stack) = 1 /\ ~Pushes(o)
        BY <1>13 DEF Depth, Pushes
    <3>2. stack' = Goes(ReadFrame(o)) /\ ReadFrame(o) \in FrameSet
        BY <1>1, <3>1, ReadFrameIs DEF Visits
    <3>3. Len(stack') = 1
        BY <3>1, <3>2, GoesAre
    <3> QED
        BY <3>3 DEF Nested
  <2> QED
      BY <1>2, <1>9, <1>10, <1>11, <1>12, <2>1, <2>2 DEF OnceInv
<1>14. CASE ~(o = Top.o /\ mask = "self" /\ Expr.filter = {})
  <2>1. Nested' /\ (Match(o) => Passed(o)') /\ \A p \in Path : Passed(p) => Passed(p)'
      BY <1>1, <1>14, VisitPasses
  <2>2. \A p \in Places : Passed(p)'
      BY <1>5, <2>1
  <2>3. \A p \in Shown' : Passed(p)'
      BY <1>7, <1>8, <2>1, <2>2
  <2> QED
      BY <1>2, <1>9, <1>10, <1>11, <1>12, <2>1, <2>3 DEF OnceInv
<1> QED
    BY <1>13, <1>14

LEMMA UnwindKeepsOnce ==
    ASSUME Basics, OnceInv, Unwind
    PROVE  OnceInv'
<1> USE DEF Basics
<1>1. /\ Basics' /\ UNCHANGED <<pc, mask, seg, yielded, expr, select>> /\ pc = "tree" /\ mask = "tree"
      /\ stack' = Front(stack) /\ Len(stack) > 1 /\ Len(stack') = Len(stack) - 1
      /\ item' = [item EXCEPT !.name = NameOf(Top)]
    BY UnwindIsTyped DEF Unwind, Depleted
<1>2. PICK L : L = Len(stack)
    OBVIOUS
<1>3. /\ L \in Nat /\ L > 1 /\ Top = stack[L] /\ Len(stack') = L - 1
      /\ \A n \in 1..L - 1 : stack'[n] = stack[n]
    BY <1>1, <1>2, TopIs DEF Top
<1>4. Shown' = Places /\ Places' = Places /\ Shown = Places
    BY <1>1 DEF Shown, Places
<1>5. Entered(L - 1) /\ Descends(L - 1, L) /\ (L - 1) + 1 = L /\ L - 1 \in 1..L - 1
    BY <1>2, <1>3 DEF OnceInv, Nested
<1>6. PICK q : q = stack[L - 1].o
    OBVIOUS
<1>7. /\ q \in Path /\ Top.o \in Path /\ Top.o # <<>> /\ Front(Top.o) = q
      /\ Last(Top.o) = Key(L - 1) /\ stack[L - 1].iter.kind = "store"
    BY <1>3, <1>5, <1>6 DEF Entered
<1>8. Below(Top.o, q) /\ Top.o[Len(q) + 1] = Key(L - 1) /\ Key(L - 1) \in Nat
    BY <1>7, ChildIsBelow
<1>9. item'.name = Key(L - 1)
  <2>1. Top.o # NoObject /\ Id(Top.o) = Last(Top.o)
      BY <1>7, NoObjectIsNoPath, ChildrenAre
  <2> QED
      BY <1>1, <1>7, <2>1 DEF NameOf, Typed, Items
<1>10. Nested'
  <2>1. \A n \in 1..(L - 1) - 1 : Entered(n)'
    <3> SUFFICES ASSUME NEW n \in 1..(L - 1) - 1 PROVE Entered(n)'
        OBVIOUS
    <3>1. n \in 1..L - 1 /\ n + 1 \in 1..L - 1 /\ Entered(n)
        BY <1>2, <1>3 DEF OnceInv, Nested
    <3>2. stack'[n] = stack[n] /\ stack'[n + 1] = stack[n + 1]
        BY <1>3, <3>1
    <3> QED
        BY <3>1, <3>2 DEF Entered, Key
  <2>2. \A n, m \in 1..L - 1 : n < m => Descends(n, m)'
    <3> SUFFICES ASSUME NEW n \in 1..L - 1, NEW m \in 1..L - 1, n < m PROVE Descends(n, m)'
        OBVIOUS
    <3>1. n \in 1..L /\ m \in 1..L
        BY <1>3
    <3>2. Descends(n, m) /\ stack'[n] = stack[n] /\ stack'[m] = stack[m]
        BY <1>2, <1>3, <3>1 DEF OnceInv, Nested
    <3> QED
        BY <3>2 DEF Descends, Key, NameIn
  <2> QED
      BY <1>3, <2>1, <2>2 DEF Nested
<1>11. ASSUME NEW p \in Path, Passed(p) PROVE Passed(p)'
  <2>1. PICK n \in 1..L : PassedIn(n, p)
      BY <1>2, <1>11 DEF Passed
  <2>2. CASE n = L
    <3>1. Below(p, Top.o)
        BY <1>3, <2>1, <2>2 DEF PassedIn
    <3>2. Below(p, q) /\ p[Len(q) + 1] = Key(L - 1)
      <4>1. PICK r : r = Top.o
          OBVIOUS
      <4>2. r \in Path /\ Below(p, r) /\ Below(r, q)
          BY <1>7, <1>8, <3>1, <4>1
      <4>3. Below(p, q) /\ p[Len(q) + 1] = r[Len(q) + 1]
          BY <1>7, <4>2, BelowBelow
      <4> QED
          BY <1>8, <4>1, <4>3
    <3>3. stack'[L - 1] = stack[L - 1] /\ L - 1 = Len(stack')
        BY <1>3, <1>5
    <3>4. NameIn(L - 1, p)' = Key(L - 1) /\ Key(L - 1)' = Key(L - 1)
        BY <1>6, <3>2, <3>3 DEF NameIn, Key
    <3>5. PassedIn(L - 1, p)'
        BY <1>6, <1>7, <1>8, <1>9, <3>2, <3>3, <3>4 DEF PassedIn
    <3> QED
        BY <1>3, <1>5, <3>5 DEF Passed
  <2>3. CASE n = L - 1
    <3>1. stack'[n] = stack[n] /\ n = Len(stack')
        BY <1>3, <1>5, <2>3
    <3>2. /\ stack[n].iter.kind = "store" /\ stack[n].o \in Path /\ Below(p, stack[n].o)
          /\ NameIn(n, p) <= Key(n)
        BY <2>1 DEF PassedIn
    <3>3. NameIn(n, p)' = NameIn(n, p) /\ Key(n)' = Key(n)
        BY <3>1 DEF NameIn, Key
    <3>4. PassedIn(n, p)'
        BY <1>9, <2>3, <3>1, <3>2, <3>3 DEF PassedIn
    <3> QED
        BY <1>3, <1>5, <2>3, <3>4 DEF Passed
  <2>4. CASE n < L - 1
    <3>1. n \in 1..L - 1 /\ stack'[n] = stack[n] /\ n # L /\ n # L - 1
        BY <1>3, <2>4
    <3>2. NameIn(n, p)' = NameIn(n, p) /\ Key(n)' = Key(n)
        BY <3>1 DEF NameIn, Key
    <3>3. PassedIn(n, p)'
        BY <1>2, <1>3, <2>1, <3>1, <3>2 DEF PassedIn
    <3> QED
        BY <1>3, <3>1, <3>3 DEF Passed
  <2> QED
      BY <1>3, <2>2, <2>3, <2>4
<1>12. Expr' = Expr
    BY <1>1 DEF Expr
<1>13. (\A p \in Shown : p \in Path) /\ \A p \in Shown : Passed(p)
    BY <1>1 DEF OnceInv
<1>14. \A p \in Shown' : p \in Path /\ Passed(p)'
    BY <1>4, <1>11, <1>13
<1>15. NeverTwice' /\ pc' # "next" /\ mask' # "self" /\ (seg' < Len(Expr'.from) => Shown' = {})
    BY <1>1, <1>4, <1>12 DEF OnceInv, NeverTwice
<1> QED
    BY <1>10, <1>14, <1>15 DEF OnceInv

\* What was about to be returned is returned.
LEMMA YieldShows ==
    ASSUME Typed, Next_
    PROVE  /\ Len(yielded) \in Nat /\ DOMAIN yielded = 1..Len(yielded) /\ DOMAIN yielded' = 1..Len(yielded) + 1
           /\ Len(yielded') = Len(yielded) + 1 /\ yielded'[Len(yielded) + 1].place = item.place
           /\ \A i \in 1..Len(yielded) : yielded'[i].place = yielded[i].place
           /\ Places' = Places \cup {item.place} /\ Shown' = Shown
<1>1. /\ pc = "next" /\ pc' = "idle" /\ yielded' = Append(yielded, [place |-> item.place, type |-> item.type])
      /\ UNCHANGED item
    BY DEF Next_
<1>2. PICK y : y = [place |-> item.place, type |-> item.type]
    OBVIOUS
<1>3. y \in [place: Objects, type: TypesOf] /\ y.place = item.place
    BY <1>2 DEF Typed, Items
<1>4. yielded \in Seq([place: Objects, type: TypesOf]) /\ yielded' = Append(yielded, y)
    BY <1>1, <1>2 DEF Typed
<1>5. /\ Len(yielded') = Len(yielded) + 1 /\ yielded'[Len(yielded) + 1] = y
      /\ yielded' \in Seq([place: Objects, type: TypesOf])
      /\ \A i \in 1..Len(yielded) : yielded'[i] = yielded[i]
    BY <1>3, <1>4, AppendProperties
<1>6. PICK k : k = Len(yielded)
    OBVIOUS
<1>7. /\ k \in Nat /\ DOMAIN yielded = 1..k /\ DOMAIN yielded' = 1..k + 1
      /\ \A i \in 1..k + 1 : i \in 1..k \/ i = k + 1
      /\ \A i \in 1..k : i \in 1..k + 1 /\ i # k + 1
    BY <1>4, <1>5, <1>6
<1>8. yielded'[k + 1].place = item.place /\ \A i \in 1..k : yielded'[i].place = yielded[i].place
    BY <1>3, <1>5, <1>6
<1>9. Places' = Places \cup {item.place}
  <2>1. \A p : p \in Places <=> \E i \in 1..k : yielded[i].place = p
      BY <1>7 DEF Places
  <2>2. \A p : p \in Places' <=> \E i \in 1..k + 1 : yielded'[i].place = p
      BY <1>7 DEF Places
  <2>3. \A p : (\E i \in 1..k + 1 : yielded'[i].place = p) <=> (\E i \in 1..k : yielded[i].place = p) \/ p = item.place
    <3> SUFFICES ASSUME NEW p
                 PROVE  (\E i \in 1..k + 1 : yielded'[i].place = p) <=> (\E i \in 1..k : yielded[i].place = p) \/ p = item.place
        OBVIOUS
    <3>1. ASSUME NEW i \in 1..k + 1, yielded'[i].place = p PROVE (\E j \in 1..k : yielded[j].place = p) \/ p = item.place
        BY <1>7, <1>8, <3>1
    <3>2. ASSUME NEW i \in 1..k, yielded[i].place = p PROVE \E j \in 1..k + 1 : yielded'[j].place = p
        BY <1>7, <1>8, <3>2
    <3>3. ASSUME p = item.place PROVE \E j \in 1..k + 1 : yielded'[j].place = p
      <4>1. k + 1 \in 1..k + 1 /\ yielded'[k + 1].place = p
          BY <1>7, <1>8, <3>3
      <4> QED
          BY <4>1
    <3> QED
        BY <3>1, <3>2, <3>3
  <2>4. \A p : p \in Places' <=> p \in Places \/ p = item.place
      BY <2>1, <2>2, <2>3
  <2> QED
      BY <2>4
<1>10. Shown' = Shown
    BY <1>1, <1>9 DEF Shown
<1> QED
    BY <1>5, <1>6, <1>7, <1>8, <1>9, <1>10

LEMMA YieldKeepsOnce ==
    ASSUME Basics, OnceInv, Next_
    PROVE  OnceInv'
<1>1. pc = "next" /\ pc' = "idle" /\ UNCHANGED <<select, expr, seg, mask, stack, item>> /\ Expr' = Expr
    BY DEF Next_, walk, Expr
<1>2. PICK k : k = Len(yielded)
    OBVIOUS
<1>3. /\ k \in Nat /\ DOMAIN yielded = 1..k /\ DOMAIN yielded' = 1..k + 1 /\ Shown' = Shown
      /\ yielded'[k + 1].place = item.place /\ \A i \in 1..k : yielded'[i].place = yielded[i].place
    BY <1>2, YieldShows DEF Basics
<1>4. /\ \A i \in 1..k + 1 : i \in 1..k \/ i = k + 1
      /\ \A i \in 1..k : i \in 1..k + 1 /\ i # k + 1
    BY <1>3
<1>5. NeverTwice'
  <2>1. \A i, j \in 1..k : yielded[i].place = yielded[j].place => i = j
      BY <1>3 DEF OnceInv, NeverTwice, IsInjective
  <2>2. \A i \in 1..k : yielded[i].place # item.place
      BY <1>1, <1>3 DEF OnceInv, Places
  <2>3. \A i, j \in 1..k + 1 : yielded'[i].place = yielded'[j].place => i = j
      BY <1>3, <1>4, <2>1, <2>2
  <2> QED
      BY <1>3, <2>3 DEF NeverTwice, IsInjective
<1>6. Nested' /\ \A p : Passed(p)' <=> Passed(p)
    BY <1>1 DEF OnceInv, Nested, Entered, Descends, Key, NameIn, Passed, PassedIn
<1> QED
    BY <1>1, <1>3, <1>5, <1>6 DEF OnceInv

LEMMA StepKeepsOnce ==
    ASSUME Simple, Basics, OnceInv, [Next]_vars
    PROVE  OnceInv'
<1> USE DEF Basics, Simple
<1>1. select' = select
    BY SelectIsFixed
<1>2. UNCHANGED stack => Nested'
    BY DEF OnceInv, Nested, Entered, Descends, Key, NameIn
<1>3. UNCHANGED <<stack, item>> => \A p : Passed(p)' <=> Passed(p)
    BY DEF Key, NameIn, Passed, PassedIn
<1>4. CASE GoesDeeper
  <2>1. Expr' = Expr /\ Len(stack') = 1
      BY <1>4, DeeperIsTyped
  <2>2. pc' = "tree" /\ UNCHANGED <<mask, yielded>> /\ seg < Len(Expr.from)
      BY <1>4 DEF GoesDeeper
  <2>3. Shown' = {} /\ NeverTwice'
      BY <2>2, ShownSubset DEF OnceInv, NeverTwice
  <2>4. Nested'
      BY <2>1 DEF Nested
  <2> QED
      BY <2>2, <2>3, <2>4 DEF OnceInv
<1>5. CASE Write
  <2>1. /\ Len(stack') = Len(stack) /\ UNCHANGED <<pc, walk, mask, item, yielded>>
        /\ \A i \in DOMAIN stack : /\ stack'[i].o = stack[i].o /\ stack'[i].iter.kind = stack[i].iter.kind
                                   /\ stack[i].iter.kind = "store" => stack'[i].iter.key = stack[i].iter.key
      BY <1>5, WriteIs
  <2>2. DOMAIN stack = 1..Len(stack) /\ Len(stack) \in Nat
      BY TopIs
  <2>3. Nested' /\ \A p : Passed(p) => Passed(p)'
      BY <2>1, <2>2, SamePositions, SameNesting DEF OnceInv
  <2>4. Shown' = Shown /\ Places' = Places /\ Expr' = Expr /\ seg' = seg /\ (NeverTwice => NeverTwice')
      BY <1>1, <2>1 DEF Shown, Places, Expr, walk, NeverTwice
  <2> QED
      BY <2>1, <2>3, <2>4 DEF OnceInv
<1>6. CASE UNCHANGED vars
  <2>1. UNCHANGED <<stack, item, expr, seg, mask, pc, yielded>>
      BY <1>6 DEF vars, walk
  <2>2. Shown' = Shown /\ Places' = Places /\ Expr' = Expr /\ (NeverTwice => NeverTwice')
      BY <1>1, <2>1 DEF Shown, Places, Expr, NeverTwice
  <2> QED
      BY <1>2, <1>3, <2>1, <2>2 DEF OnceInv
<1>7. CASE pc # "done" /\ \E how : Stop(how) /\ UNCHANGED <<select, objs, written, skip, count, yielded>>
  <2>1. UNCHANGED <<expr, seg, mask, stack, yielded>> /\ pc' = "done"
      BY <1>7 DEF Stop, walk
  <2>2. Shown' \subseteq Shown /\ Expr' = Expr /\ (NeverTwice => NeverTwice')
      BY <1>1, <2>1, ShownSubset DEF Expr, NeverTwice
  <2> QED
      BY <1>2, <2>1, <2>2 DEF OnceInv
<1>8. CASE /\ pc = "idle" /\ pc' = "tree" /\ mask # "none"
           /\ UNCHANGED <<walk, mask, stack, item, location, claims, ended, select, objs, written, skip, count, yielded>>
  <2>1. UNCHANGED <<expr, seg, mask, stack, yielded, item>> /\ pc = "idle" /\ pc' = "tree"
      BY <1>8 DEF walk
  <2>2. Shown' = Shown /\ Places' = Places /\ Expr' = Expr /\ (NeverTwice => NeverTwice')
      BY <1>1, <2>1 DEF Shown, Places, Expr, NeverTwice
  <2> QED
      BY <1>2, <1>3, <2>1, <2>2 DEF OnceInv
<1> QED
    BY <1>4, <1>5, <1>6, <1>7, <1>8, NextIs, SimpleStep, VisitKeepsOnce, UnwindKeepsOnce, YieldKeepsOnce

LEMMA InitIsOnce ==
    ASSUME Init, Simple
    PROVE  Basics /\ OnceInv
<1>1. Basics /\ Len(stack) = 1 /\ yielded = <<>> /\ pc = "idle"
    BY InitIsBasic DEF Simple
<1>2. DOMAIN <<>> = {}
    OBVIOUS
<1>3. Places = {}
    BY <1>1, <1>2 DEF Places
<1>4. Shown = {}
    BY <1>1, <1>3 DEF Shown
<1>5. NeverTwice
    BY <1>1, <1>2 DEF NeverTwice, IsInjective
<1>6. Nested
    BY <1>1 DEF Nested
<1> QED
    BY <1>1, <1>4, <1>5, <1>6 DEF OnceInv

\* A select with one expression over the store returns nothing twice, though scopes change
\* between two reads and are then read again from the last item on (corto_selectTree,
\* corto_scopeWalk), and whatever another thread adds and deletes.
THEOREM NothingIsReturnedTwice == Spec => [](OnlyStore /\ OneExpression => NeverTwice)
<1> DEFINE Inv == Simple => Basics /\ OnceInv
<1>1. Init => Inv
    BY InitIsOnce
<1>2. Inv /\ [Next]_vars => Inv'
  <2> SUFFICES ASSUME Inv, [Next]_vars, Simple' PROVE Basics' /\ OnceInv'
      OBVIOUS
  <2>1. Simple
      BY SelectIsFixed DEF Simple, OnlyStore, OneExpression
  <2> QED
      BY <2>1, SimpleStep, StepKeepsOnce
<1>3. Inv => (OnlyStore /\ OneExpression => NeverTwice)
    BY DEF Simple, OnceInv
<1> QED
    BY <1>1, <1>2, <1>3, PTL DEF Spec

(***************************************************************************)
(* Nothing is missed, and pages are full                                   *)
(***************************************************************************)
\* Nobody changes the store meanwhile, or only scopes that are not about to be read, and
\* what was deleted does not come back.
Undisturbed == select.writes = <<>>
NothingComesBack == \A i \in DOMAIN select.writes :
    select.writes[i].op = "add" => select.writes[i].path \notin select.objects
Gentle == Undisturbed \/ (Quiet /\ NothingComesBack)
\* The offset counts what is returned: it also counts objects that are not asked for.
PageCounts == select.offset = 0 \/ (select.exprs[1].filter = {} /\ select.type = "")
Plain == Simple /\ Undisturbed /\ PageCounts

\* What was in the store at the start and still is.
Staying == select.objects \cap objs
HadScope(p) == \E q \in select.objects : q # <<>> /\ Front(q) = p

\* The objects of the store that are asked for.
Asks == IF select.store THEN Stored(Expr) ELSE {}
\* A select for the object of its scope itself.
SelfOnly == Expr.mask = "self" /\ Expr.filter = {}

\* The walk is still to come to p: from a frame, by a name behind the one that was read last.
LeadsTo(f, p) ==
    f.iter.kind = "store" /\ f.o \in Path /\ Below(p, f.o) /\ p[Len(f.o) + 1] > f.iter.key
Remains(p) == \E n \in 1..Len(stack) : LeadsTo(stack[n], p)

\* The scopes on the way to an object are there as long as the object is.
Connected == \A p \in Staying : p = <<>> \/ Front(p) \in Staying
Split == found = {p \in select.objects : p = Expr.from \/ Under(Expr.from, p)}
\* A frame reads the scope of its object, if it has one.
Reads(f) == f.mount = f.first /\ (f.o \in Path /\ HadScope(f.o) => f.iter.kind = "store")
Walking ==
    /\ Connected /\ Split /\ skip \in Nat /\ pc # "segment" /\ (mask = "none" => Expr.mask = "self")
    /\ \A n \in 1..Len(stack) : Reads(stack[n])
    /\ stack[1].o = SegmentObject(Expr, found, seg)
    /\ Len(stack) > 1 => seg = Len(Expr.from)

\* The last item, from which a scope that changed is read again, is not behind what was read.
NotAhead == Top.iter.kind = "store" /\ Top.o \in Staying /\ (Top.iter.changed \/ Top.iter.key # 0) =>
                item.name <= Top.iter.key
NothingRead == seg < Len(Expr.from) \/ (Len(stack) = 1 /\ Top.iter.kind = "store" /\ Top.iter.key = 0)
Following == pc = "done" \/ SelfOnly \/ (NotAhead /\ (NothingRead => item.name = 0))

\* What is asked for is still to come or was returned.
Unmissed ==
    seg = Len(Expr.from) /\ ~SelfOnly /\ mask # "none" /\ select.offset = 0 =>
        \A p \in Asks : Remains(p) \/ p \in Shown

AllRead == seg = Len(Expr.from) /\ (SelfOnly => Asks = {}) /\ \A p \in Asks : ~Remains(p)
Ended == ended = "end" =>
    pc = "done" /\ ((select.limit # 0 /\ select.limit <= count) \/ mask = "none" \/ AllRead)

MissInv == Walking /\ Following /\ Unmissed /\ Ended

\* Without writes, what was skipped and returned is of the page, and is what the walk has left behind.
Gone == {p \in Asks : ~Remains(p)}
Taken == Len(yielded) + (IF pc = "next" THEN 1 ELSE 0)
Still == /\ objs = select.objects /\ written = 0
         /\ \A n \in 1..Len(stack) : stack[n].iter.kind = "store" => ~stack[n].iter.changed
Paged ==
    /\ count = Len(yielded) /\ Shown \subseteq Asks
    /\ mask = "none" => Shown # {}
    /\ skip \in 0..select.offset /\ (Shown # {} => skip = select.offset)
    /\ seg < Len(Expr.from) => skip = 0
    /\ select.limit # 0 => Taken <= select.limit /\ (pc = "tree" => count < select.limit)
Counted ==
    seg = Len(Expr.from) /\ mask # "none" /\ Expr.mask # "self" => Cardinality(Gone) = skip + Taken

PageInv == Still /\ Paged /\ Counted

\* A set of natural numbers has a least element.
LEMMA HasLeast ==
    ASSUME NEW S, S \subseteq Nat, S # {}
    PROVE  \E n \in S : \A c \in S : n <= c
<1> DEFINE R == {ss \in Nat \X Nat : ss[1] < ss[2]}
<1>1. IsWellFoundedOn(R, Nat)
    BY NatLessThanWellFounded DEF OpToRel
<1>2. \A m, n \in Nat : <<m, n>> \in R <=> m < n
    OBVIOUS
<1> HIDE DEF R
<1>3. PICK n \in S : \A c \in S : <<c, n>> \notin R
    BY <1>1, WFMin, Zenon
<1>4. \A c \in S : ~(c < n)
    BY <1>2, <1>3, Zenon
<1>5. \A c \in S : n <= c
    BY <1>4
<1> QED
    BY <1>5

\* A path is known by its two names.
LEMMA PathsAreFinite == IsFiniteSet(Path)
<1> DEFINE N == Name \cup {0}
           At(p, i) == IF i <= Len(p) THEN p[i] ELSE 0
           f == [p \in Path |-> <<At(p, 1), At(p, 2)>>]
<1>1. IsFiniteSet(N \X N)
  <2>1. IsFiniteSet(Name)
      BY SelectAssumption
  <2>2. IsFiniteSet(N)
      BY <2>1, FS_AddElement
  <2> QED
      BY <2>2, FS_Product
<1>2. ASSUME NEW p \in Path, NEW i \in {1, 2} PROVE At(p, i) \in N /\ (At(p, i) = 0 <=> i > Len(p))
  <2>1. p \in Seq(Name) /\ Len(p) \in Nat
      BY PathsAre
  <2>2. CASE i <= Len(p)
    <3>1. i \in 1..Len(p)
        BY <2>1, <2>2
    <3>2. p[i] \in Name
        BY <2>1, <3>1
    <3> QED
        BY <2>1, <2>2, <3>2, NamesAre
  <2>3. CASE ~(i <= Len(p))
      BY <2>1, <2>3
  <2> QED
      BY <2>2, <2>3
<1>3. f \in [Path -> N \X N]
    BY <1>2
<1>4. ASSUME NEW p \in Path, NEW q \in Path, f[p] = f[q] PROVE p = q
  <2>1. At(p, 1) = At(q, 1) /\ At(p, 2) = At(q, 2)
      BY <1>4
  <2>2. p \in Seq(Name) /\ q \in Seq(Name) /\ Len(p) \in 0..2 /\ Len(q) \in 0..2
      BY PathsAre
  <2>3. Len(p) = Len(q)
    <3>1. (1 > Len(p) <=> 1 > Len(q)) /\ (2 > Len(p) <=> 2 > Len(q))
        BY <1>2, <2>1
    <3>2. PICK m, n \in 0..2 : m = Len(p) /\ n = Len(q)
        BY <2>2
    <3> QED
        BY <3>1, <3>2
  <2>4. \A i \in 1..Len(p) : p[i] = q[i]
    <3> SUFFICES ASSUME NEW i \in 1..Len(p) PROVE p[i] = q[i]
        OBVIOUS
    <3>1. i \in {1, 2} /\ i <= Len(p) /\ i <= Len(q)
        BY <2>2, <2>3
    <3> QED
        BY <2>1, <3>1
  <2> QED
      BY <2>2, <2>3, <2>4
<1> HIDE DEF f, N
<1>5. f \in Injection(Path, N \X N)
    BY <1>3, <1>4 DEF Injection, IsInjective
<1> QED
    BY <1>1, <1>5, FS_Injection

LEMMA UnderIsBelow ==
    ASSUME NEW p \in Path, NEW q \in Path
    PROVE  Under(p, q) <=> Below(p, q)
<1>1. p \in Seq(Name) /\ q \in Seq(Name) /\ Len(p) \in Nat /\ Len(q) \in Nat
    BY PathsAre
<1>2. ASSUME Len(p) > Len(q) PROVE SubSeq(p, 1, Len(q)) = q <=> \A i \in 1..Len(q) : p[i] = q[i]
  <2>1. PICK s : s = SubSeq(p, 1, Len(q))
      OBVIOUS
  <2>2. s \in Seq(Name) /\ Len(s) = Len(q) /\ \A i \in 1..Len(q) : s[i] = p[i]
      BY <1>1, <1>2, <2>1
  <2>3. s = q <=> \A i \in 1..Len(q) : s[i] = q[i]
      BY <1>1, <2>2
  <2> QED
      BY <2>1, <2>2, <2>3
<1> QED
    BY <1>2 DEF Under, Below

\* The scopes on the way to an object are there: below q there is one that leads to p.
LEMMA WayTo ==
    ASSUME NEW S, S \subseteq Path, \A c \in S : c = <<>> \/ Front(c) \in S,
           NEW p \in S, NEW q \in Path, Below(p, q)
    PROVE  /\ q \in S
           /\ \E c \in S : /\ c \in Path /\ c # <<>> /\ Front(c) = q /\ Last(c) = p[Len(q) + 1]
                           /\ c = p \/ Below(p, c)
<1>1. p \in Path /\ S \subseteq Path /\ \A c \in S : c = <<>> \/ Front(c) \in S
    OBVIOUS
<1>2. p \in Seq(Name) /\ q \in Seq(Name) /\ Len(p) \in 0..2 /\ Len(q) \in 0..2 /\ Len(p) > Len(q)
    BY <1>1, PathsAre DEF Below
<1>3. PICK f : f = Front(p)
    OBVIOUS
<1>4. /\ p # <<>> /\ f \in Path /\ f \in S /\ Len(f) = Len(p) - 1 /\ (\A i \in 1..Len(f) : f[i] = p[i])
      /\ Last(p) = p[Len(p)]
    BY <1>1, <1>2, <1>3, ChildrenAre
<1>5. f \in Seq(Name) /\ Len(f) \in 0..2
    BY <1>4, PathsAre
<1>6. CASE Len(q) = Len(p) - 1
  <2>1. f = q
      BY <1>2, <1>4, <1>5, <1>6 DEF Below
  <2>2. Last(p) = p[Len(q) + 1]
      BY <1>2, <1>4, <1>6
  <2> QED
      BY <1>1, <1>3, <1>4, <2>1, <2>2
<1>7. CASE Len(q) # Len(p) - 1
  <2>1. Len(p) = 2 /\ Len(q) = 0 /\ Len(f) = 1
      BY <1>2, <1>4, <1>7
  <2>2. PICK g : g = Front(f)
      OBVIOUS
  <2>3. f # <<>> /\ g \in Path /\ g \in S /\ Len(g) = 0 /\ Last(f) = f[1]
    <3>1. f # <<>>
        BY <2>1
    <3>2. g \in Path /\ Len(g) = Len(f) - 1 /\ Last(f) = f[Len(f)]
        BY <1>4, <2>2, <3>1, ChildrenAre
    <3>3. g \in S
        BY <1>1, <1>4, <2>2, <3>1
    <3> QED
        BY <2>1, <3>1, <3>2, <3>3
  <2>4. g = q
    <3>1. g \in Seq(Name)
        BY <2>3, PathsAre
    <3> QED
        BY <1>2, <2>1, <2>3, <3>1
  <2>5. f[1] = p[1] /\ Below(p, f)
      BY <1>4, <2>1 DEF Below
  <2>6. Front(f) = q /\ Last(f) = p[Len(q) + 1] /\ q \in S
      BY <2>1, <2>2, <2>3, <2>4, <2>5
  <2> QED
      BY <1>4, <2>3, <2>5, <2>6
<1> QED
    BY <1>6, <1>7

\* Two children of one scope with the same name are one.
LEMMA SameChild ==
    ASSUME NEW c \in Path, NEW d \in Path, c # <<>>, d # <<>>, Front(c) = Front(d), Last(c) = Last(d)
    PROVE  c = d
<1>1. PICK f, g : f = Front(c) /\ g = Front(d)
    OBVIOUS
<1>2. /\ Len(f) = Len(c) - 1 /\ (\A i \in 1..Len(f) : f[i] = c[i]) /\ Last(c) = c[Len(c)]
      /\ Len(g) = Len(d) - 1 /\ (\A i \in 1..Len(g) : g[i] = d[i]) /\ Last(d) = d[Len(d)]
    BY <1>1, ChildrenAre
<1>3. c \in Seq(Name) /\ d \in Seq(Name) /\ Len(c) \in Nat /\ Len(d) \in Nat
    BY PathsAre
<1>4. Len(c) = Len(d) /\ \A i \in 1..Len(c) - 1 : c[i] = d[i]
    BY <1>1, <1>2, <1>3
<1>5. \A i \in 1..Len(c) : i \in 1..Len(c) - 1 \/ i = Len(c)
    BY <1>3
<1>6. \A i \in 1..Len(c) : c[i] = d[i]
    BY <1>2, <1>4, <1>5
<1> QED
    BY <1>3, <1>4, <1>6

(***************************************************************************)
(* What the walk is still to come to                                       *)
(***************************************************************************)
LEMMA AsksAre ==
    ASSUME Typed, NEW p \in Asks
    PROVE  /\ select.store /\ Staying \subseteq Path /\ p \in Path /\ p \in Staying
           /\ Asked(p, TypeOf(p), Expr)
           /\ ~SelfOnly => Below(p, Expr.from)
           /\ ~SelfOnly /\ Expr.mask # "tree" => Front(p) = Expr.from
           /\ SelfOnly => p = Expr.from
<1>1. Staying \subseteq Path /\ Expr.from \in Path
    BY SelectsAre, ExprIs DEF Typed, Staying
<1>2. select.store /\ p \in Staying /\ Asked(p, TypeOf(p), Expr)
    BY DEF Asks, Stored, Staying
<1>3. InScope(p, Expr) /\ p \in Path
    BY <1>1, <1>2 DEF Asked
<1>4. CASE Expr.mask = "tree"
  <2>1. Under(p, Expr.from)
      BY <1>3, <1>4 DEF InScope
  <2> QED
      BY <1>1, <1>2, <1>3, <1>4, <2>1, UnderIsBelow DEF SelfOnly
<1>5. CASE Expr.mask # "tree" /\ SelfOnly
  <2>1. p = Expr.from
      BY <1>3, <1>5 DEF InScope, SelfOnly
  <2> QED
      BY <1>1, <1>2, <1>3, <1>5, <2>1
<1>6. CASE Expr.mask # "tree" /\ ~SelfOnly
  <2>1. p # <<>> /\ Front(p) = Expr.from
      BY <1>3, <1>6 DEF InScope, SelfOnly
  <2>2. Below(p, Expr.from)
      BY <1>1, <1>3, <2>1, ChildIsBelow
  <2> QED
      BY <1>1, <1>2, <1>3, <1>6, <2>1, <2>2
<1> QED
    BY <1>4, <1>5, <1>6

LEMMA WayToAsked ==
    ASSUME Typed, Connected, NEW p \in Asks, NEW q \in Path, Below(p, q)
    PROVE  /\ q \in Staying
           /\ \E c \in Staying : /\ c \in Path /\ c # <<>> /\ Front(c) = q /\ Last(c) = p[Len(q) + 1]
                                 /\ c = p \/ Below(p, c)
<1>1. Staying \subseteq Path /\ p \in Staying /\ \A c \in Staying : c = <<>> \/ Front(c) \in Staying
    BY AsksAre DEF Connected
<1> HIDE DEF Staying
<1> QED
    BY <1>1, WayTo, Zenon

LEMMA AsksAreFinite ==
    ASSUME Typed
    PROVE  /\ IsFiniteSet(Asks) /\ IsFiniteSet(Gone) /\ Cardinality(Asks) \in Nat
           /\ Cardinality(Gone) \in Nat /\ Cardinality(Gone) <= Cardinality(Asks)
<1>1. Asks \subseteq Path /\ Gone \subseteq Asks
    BY AsksAre DEF Gone
<1>2. IsFiniteSet(Asks)
    BY <1>1, PathsAreFinite, FS_Subset
<1> QED
    BY <1>1, <1>2, FS_Subset, FS_CardinalityType

\* The frame of the whole scope leads to all that is asked for.
LEMMA ScopeLeads ==
    ASSUME Typed, Connected, Split, ~SelfOnly, NEW p \in Asks,
           NEW f, f.o = SegmentObject(Expr, found, Len(Expr.from)), f.iter = ScopeIter(f.o)
    PROVE  LeadsTo(f, p)
<1>1. p \in Path /\ p \in Staying /\ Staying \subseteq Path /\ Below(p, Expr.from)
    BY AsksAre
<1>2. Expr.from \in Path /\ Expr.from \in Seq(Name)
    BY ExprIs, PathsAre
<1>3. PICK c \in Staying : c # <<>> /\ Front(c) = Expr.from
    BY <1>1, <1>2, WayToAsked, Zenon
<1>4. Expr.from \in Staying
    BY <1>1, <1>2, WayToAsked
<1>5. SegmentPath(Expr, Len(Expr.from)) = Expr.from
    BY <1>2 DEF SegmentPath
<1>6. Expr.from \in found
    BY <1>4 DEF Split, Staying
<1>7. f.o = Expr.from
    BY <1>5, <1>6 DEF SegmentObject
<1>8. f.o # NoObject /\ HasScope(f.o)
    BY <1>2, <1>3, <1>7, NoObjectIsNoPath DEF HasScope, Staying
<1>9. f.iter = StoreIter(f.o)
    BY <1>8 DEF ScopeIter
<1>10. p[Len(f.o) + 1] \in Name
  <2>1. p \in Seq(Name) /\ Len(p) \in Nat /\ Len(Expr.from) \in Nat /\ Len(p) > Len(Expr.from)
      BY <1>1, <1>2, PathsAre DEF Below
  <2>2. PICK m, n \in Nat : m = Len(p) /\ n = Len(Expr.from)
      BY <2>1
  <2>3. n + 1 \in 1..m
      BY <2>1, <2>2
  <2>4. p[n + 1] \in Name
      BY <2>1, <2>2, <2>3
  <2> QED
      BY <1>7, <2>2, <2>4
<1>11. PICK k \in Name : k = p[Len(f.o) + 1]
    BY <1>10
<1>12. k \in Nat /\ k > 0
    BY NamesAre
<1> QED
    BY <1>1, <1>2, <1>7, <1>9, <1>11, <1>12 DEF LeadsTo, StoreIter

\* The objects of a scope behind a key have a first one.
LEMMA FirstIsRead ==
    ASSUME Basics, NEW f, f.o \in Path, NEW c \in objs, c # <<>>, Front(c) = f.o, Last(c) > NextKey(f)
    PROVE  FromScope(f) # {}
<1>1. PICK later : later = {p \in objs : p # <<>> /\ Front(p) = f.o /\ Last(p) > NextKey(f)}
    OBVIOUS
<1>2. c \in later /\ \A p \in later : p \in Path /\ p # <<>>
    BY <1>1 DEF Basics, Typed
<1>3. PICK names : names = {Last(p) : p \in later}
    OBVIOUS
<1>4. names # {} /\ names \subseteq Nat
    BY <1>2, <1>3, ChildrenAre, NamesAre
<1>5. PICK n \in names : \A m \in names : n <= m
    BY <1>4, HasLeast
<1>6. PICK p \in later : Last(p) = n
    BY <1>3
<1>7. \A q \in later : Last(p) <= Last(q)
    BY <1>3, <1>5, <1>6
<1> QED
    BY <1>1, <1>6, <1>7 DEF FromScope

\* A scope, also one that is read again, is read from what was read last or from before that.
LEMMA NextKeyIs ==
    ASSUME Basics, Following, pc # "done", ~SelfOnly, Top.iter.kind = "store", Top.o \in Staying
    PROVE  NextKey(Top) \in Nat /\ Top.iter.key \in Nat /\ NextKey(Top) <= Top.iter.key
<1>1. Len(stack) \in 1..Len(stack)
    BY TopIs DEF Basics
<1>2. Top.iter.key \in Nat
    BY <1>1, KeysAre DEF Key, Top
<1>3. item.name \in Nat
  <2>1. item.name \in Name \cup {0}
      BY DEF Basics, Typed, Items
  <2> QED
      BY <2>1, NatNames
<1>4. Top.iter.changed => item.name <= Top.iter.key
    BY DEF Following, NotAhead
<1>5. PICK k \in Nat : k = Top.iter.key
    BY <1>2
<1> QED
    BY <1>3, <1>4, <1>5 DEF NextKey

\* A frame that is depleted leads to nothing more that is asked for.
LEMMA DepletedIsRead ==
    ASSUME Basics, Walking, Following, Depleted, seg = Len(Expr.from), NEW p \in Asks
    PROVE  ~SelfOnly /\ ~LeadsTo(Top, p)
<1> USE DEF Basics
<1>1. PICK L : L = Len(stack)
    OBVIOUS
<1>2. L \in Nat \ {0} /\ L \in 1..L /\ Top = stack[L]
    BY <1>1, TopIs DEF Top
<1>3. Reads(Top) /\ FromStore(Top) = {} /\ pc = "tree"
    BY <1>1, <1>2 DEF Walking, Depleted
<1>4. /\ select.store /\ p \in Path /\ p \in Staying /\ Staying \subseteq Path
      /\ SelfOnly => p = Expr.from
    BY AsksAre
<1>5. mask = Expr.mask
    BY <1>3 DEF Depth
<1>6. ~SelfOnly
  <2> SUFFICES ASSUME SelfOnly PROVE FALSE
      OBVIOUS
  <2>1. Expr.from \in found
      BY <1>4 DEF Walking, Split, Staying
  <2>2. stack[1].o = Expr.from /\ Len(stack) = 1
      BY <2>1, <1>5, WholeSegment DEF Walking, SegmentObject, Depth, SelfOnly
  <2>3. Top.o # NoObject /\ Top.o = Expr.from
      BY <1>1, <1>2, <1>4, <2>2, NoObjectIsNoPath
  <2> QED
      BY <1>3, <1>4, <1>5, <2>3 DEF FromStore, SelfOnly, Reads
<1>7. ASSUME LeadsTo(Top, p) PROVE FALSE
  <2>1. Top.iter.kind = "store" /\ Top.o \in Path /\ Below(p, Top.o) /\ p[Len(Top.o) + 1] > Top.iter.key
      BY <1>7 DEF LeadsTo
  <2>2. Connected
      BY DEF Walking
  <2>3. Top.o \in Staying
      BY <2>1, <2>2, WayToAsked
  <2>4. PICK c \in Staying : c \in Path /\ c # <<>> /\ Front(c) = Top.o /\ Last(c) = p[Len(Top.o) + 1]
      BY <2>1, <2>2, WayToAsked, Zenon
  <2>5. NextKey(Top) \in Nat /\ Top.iter.key \in Nat /\ NextKey(Top) <= Top.iter.key
      BY <1>3, <1>6, <2>1, <2>3, NextKeyIs
  <2>6. Last(c) > NextKey(Top)
    <3>1. PICK k, m, n \in Nat : k = Last(c) /\ m = NextKey(Top) /\ n = Top.iter.key
        BY <2>4, <2>5, ChildrenAre, NamesAre
    <3>2. k > n /\ m <= n
        BY <2>1, <2>4, <2>5, <3>1
    <3> QED
        BY <3>1, <3>2
  <2>7. FromScope(Top) # {}
      BY <2>1, <2>4, <2>6, FirstIsRead DEF Staying
  <2>8. Top.o # NoObject
      BY <2>1, NoObjectIsNoPath
  <2> QED
      BY <1>3, <1>4, <1>5, <1>6, <2>1, <2>7, <2>8 DEF FromStore, Reads, SelfOnly
<1> QED
    BY <1>6, <1>7

(***************************************************************************)
(* A visit reads one object                                                *)
(***************************************************************************)
\* The walk is still to come to what it was to come to before, but for the object that was
\* read, and to nothing else unless it reads a scope again.
LEMMA VisitReads ==
    ASSUME Basics, OnceInv, Walking, Following, pc # "done",
           NEW o \in FromStore(Top), Visits(o), ~SelfOnly, mask = Expr.mask,
           Expr.mask # "tree" => Top.o = Expr.from, NEW p \in Asks
    PROVE  /\ Remains(p) /\ p # o => Remains(p)'
           /\ ~Top.iter.changed => (Remains(p)' => Remains(p) /\ p # o) /\ Remains(o)
<1> USE DEF Basics
<1>1. PICK L : L = Len(stack)
    OBVIOUS
<1>2. L \in Nat \ {0} /\ L \in 1..L /\ Top = stack[L]
    BY <1>1, TopIs DEF Top
<1>3. /\ o \in Path /\ Top.o \in Path /\ Top.iter.kind = "store" /\ o # <<>> /\ Front(o) = Top.o
      /\ Last(o) > NextKey(Top) /\ o # Top.o /\ o \in FromScope(Top)
    BY FromStoreIs DEF SelfOnly, FromStore
<1>4. /\ p \in Path /\ p \in Staying /\ Connected
      /\ Expr.mask # "tree" => Front(p) = Expr.from
    BY AsksAre DEF Walking
<1>5. Key(L) \in Nat /\ (~Top.iter.changed => NextKey(Top) = Key(L))
    BY <1>1, <1>2, <1>3, KeysAre DEF NextKey, Key
<1>6. /\ Below(o, Top.o) /\ o[Len(Top.o) + 1] = Last(o) /\ Last(o) \in Nat
      /\ ~Top.iter.changed => Last(o) > Key(L)
    BY <1>3, <1>5, ChildIsBelow
<1>7. PICK f : f = ReadFrame(o)
    OBVIOUS
<1>8. f.o = Top.o /\ f.iter.kind = "store" /\ f.iter.key = Last(o)
    BY <1>3, <1>7, ReadFrameIs
<1>9. /\ \A n \in 1..L - 1 : stack'[n] = stack[n]
      /\ stack'[L] = f
      /\ \/ Len(stack') = L /\ ~Pushes(o)
         \/ Len(stack') = L + 1 /\ stack'[L + 1] = Child(o) /\ Pushes(o)
    BY <1>1, <1>7, VisitedFrames
<1>10. LeadsTo(f, p) <=> Below(p, Top.o) /\ p[Len(Top.o) + 1] > Last(o)
    BY <1>3, <1>8 DEF LeadsTo
<1>11. LeadsTo(Top, p) <=> Below(p, Top.o) /\ p[Len(Top.o) + 1] > Key(L)
    BY <1>2, <1>3 DEF LeadsTo, Key
<1>12. Child(o).o = o /\ Child(o).iter = ScopeIter(o)
    BY <1>3, ChildIs
<1>13. ASSUME Below(p, o) PROVE HasScope(o) /\ ScopeIter(o) = StoreIter(o) /\ \E q \in objs : q # <<>> /\ Front(q) = o
  <2>1. PICK q \in Staying : q # <<>> /\ Front(q) = o
      BY <1>3, <1>4, <1>13, WayToAsked, Zenon
  <2>2. HasScope(o) /\ q \in objs
      BY <2>1 DEF HasScope, Staying
  <2>3. o # NoObject
      BY <1>3, NoObjectIsNoPath
  <2> QED
      BY <2>1, <2>2, <2>3 DEF ScopeIter
<1>14. ASSUME Below(p, o) PROVE p[Len(o) + 1] \in Nat /\ p[Len(o) + 1] > 0
  <2>1. p \in Seq(Name) /\ Len(p) \in Nat /\ Len(o) \in Nat /\ Len(p) > Len(o)
      BY <1>3, <1>4, <1>14, PathsAre DEF Below
  <2>2. PICK m, n \in Nat : m = Len(p) /\ n = Len(o)
      BY <2>1
  <2>3. n + 1 \in 1..m
      BY <2>1, <2>2
  <2>4. PICK k \in Name : k = p[n + 1]
      BY <2>1, <2>2, <2>3
  <2>5. k \in Nat /\ k > 0
      BY NamesAre
  <2> QED
      BY <2>2, <2>4, <2>5
<1>15. LeadsTo(Child(o), p) <=> Below(p, o)
  <2>1. LeadsTo(Child(o), p) => Below(p, o)
      BY <1>12 DEF LeadsTo
  <2>2. ASSUME Below(p, o) PROVE LeadsTo(Child(o), p)
      BY <1>3, <1>12, <1>13, <1>14, <2>2 DEF LeadsTo, StoreIter
  <2> QED
      BY <2>1, <2>2
<1>16. ASSUME Below(p, o) PROVE Below(p, Top.o) /\ p[Len(Top.o) + 1] = Last(o)
  <2>1. PICK r : r = Top.o
      OBVIOUS
  <2>2. r \in Path /\ Below(o, r) /\ o[Len(r) + 1] = Last(o)
      BY <1>3, <1>6, <2>1
  <2>3. Below(p, r) /\ p[Len(r) + 1] = o[Len(r) + 1]
      BY <1>3, <1>4, <1>16, <2>2, BelowBelow
  <2> QED
      BY <2>1, <2>2, <2>3
<1>17. ~Below(o, o)
  <2>1. Len(o) \in Nat
      BY <1>3, PathsAre
  <2> QED
      BY <2>1 DEF Below
<1>18. ASSUME LeadsTo(Top, p), p # o PROVE LeadsTo(f, p) \/ (Pushes(o) /\ Below(p, o))
  <2>1. PICK k : k = p[Len(Top.o) + 1]
      OBVIOUS
  <2>2. Top.o \in Staying /\ \E c \in Staying : /\ c \in Path /\ c # <<>> /\ Front(c) = Top.o /\ Last(c) = k
                                                /\ c = p \/ Below(p, c)
      BY <1>3, <1>4, <1>11, <1>18, <2>1, WayToAsked, Zenon
  <2>3. PICK c \in Staying : c \in Path /\ c # <<>> /\ Front(c) = Top.o /\ Last(c) = k /\ (c = p \/ Below(p, c))
      BY <2>2
  <2>4. k \in Nat /\ k > Key(L)
      BY <1>11, <1>18, <2>1, <2>3, ChildrenAre, NamesAre
  <2>5. Last(c) > NextKey(Top)
    <3>1. NextKey(Top) \in Nat /\ NextKey(Top) <= Top.iter.key
        BY <1>3, <2>2, NextKeyIs
    <3>2. Top.iter.key = Key(L)
        BY <1>2 DEF Key
    <3> QED
        BY <1>5, <2>3, <2>4, <3>1, <3>2
  <2>6. Last(o) <= k
      BY <1>3, <2>3, <2>5 DEF FromScope, Staying
  <2>7. CASE k = Last(o)
    <3>1. c = o
        BY <1>3, <2>3, <2>7, SameChild
    <3>2. Below(p, o)
        BY <1>18, <2>3, <3>1
    <3>3. Expr.mask = "tree"
      <4>1. Len(p) > Len(o) /\ Len(o) \in Nat /\ Len(p) \in Nat /\ Len(o) = Len(Top.o) + 1
          BY <1>3, <1>4, <3>2, PathsAre, ChildIsBelow DEF Below
      <4>2. Front(p) = Top.o => Len(p) = Len(Top.o) + 1
          BY <1>3, <1>4, <4>1, ChildIsBelow
      <4> QED
          BY <1>4, <4>1, <4>2
    <3>4. Pushes(o)
        BY <1>13, <3>2, <3>3 DEF Pushes
    <3> QED
        BY <3>2, <3>4
  <2>8. CASE k # Last(o)
    <3>1. k > Last(o)
        BY <1>6, <2>4, <2>6, <2>8
    <3> QED
        BY <1>10, <1>11, <1>18, <2>1, <3>1
  <2> QED
      BY <2>7, <2>8
<1>19. ASSUME Remains(p), p # o PROVE Remains(p)'
  <2>1. PICK n \in 1..L : LeadsTo(stack[n], p)
      BY <1>1, <1>19 DEF Remains
  <2>2. CASE n = L
    <3>1. LeadsTo(f, p) \/ (Pushes(o) /\ Below(p, o))
        BY <1>2, <1>18, <1>19, <2>1, <2>2
    <3>2. CASE LeadsTo(f, p)
      <4>1. L \in 1..Len(stack') /\ LeadsTo(stack'[L], p)
          BY <1>2, <1>9, <3>2
      <4> QED
          BY <4>1 DEF Remains, LeadsTo
    <3>3. CASE Pushes(o) /\ Below(p, o)
      <4>1. L + 1 \in 1..Len(stack') /\ LeadsTo(stack'[L + 1], p)
          BY <1>2, <1>9, <1>15, <3>3
      <4> QED
          BY <4>1 DEF Remains, LeadsTo
    <3> QED
        BY <3>1, <3>2, <3>3
  <2>3. CASE n # L
    <3>1. n \in 1..Len(stack') /\ stack'[n] = stack[n]
        BY <1>2, <1>9, <2>3
    <3> QED
        BY <2>1, <3>1 DEF Remains, LeadsTo
  <2> QED
      BY <2>2, <2>3
<1>20. ASSUME Remains(p)', ~Top.iter.changed PROVE Remains(p) /\ p # o
  <2>1. PICK n \in 1..Len(stack') : LeadsTo(stack'[n], p)
      BY <1>20 DEF Remains, LeadsTo
  <2>2. CASE n = L
    <3>1. Below(p, Top.o) /\ p[Len(Top.o) + 1] > Last(o)
        BY <1>9, <1>10, <2>1, <2>2
    <3>2. p # o
        BY <1>6, <3>1
    <3>3. p[Len(Top.o) + 1] \in Nat
        BY <1>2, <1>3, <1>4, <3>1, NamesInAre DEF NameIn
    <3>4. LeadsTo(Top, p)
        BY <1>5, <1>6, <1>11, <1>20, <3>1, <3>3
    <3> QED
        BY <1>1, <1>2, <3>2, <3>4 DEF Remains
  <2>3. CASE n = L + 1
    <3>1. Below(p, o)
        BY <1>2, <1>9, <1>15, <2>1, <2>3
    <3>2. LeadsTo(Top, p)
        BY <1>6, <1>11, <1>16, <1>20, <3>1
    <3> QED
        BY <1>1, <1>2, <1>17, <3>1, <3>2 DEF Remains
  <2>4. CASE n \in 1..L - 1
    <3>1. stack'[n] = stack[n] /\ n \in 1..L /\ n < L
        BY <1>2, <1>9, <2>4
    <3>2. LeadsTo(stack[n], p) /\ Descends(n, L)
        BY <1>1, <1>2, <2>1, <3>1 DEF OnceInv, Nested
    <3>3. /\ p[Len(stack[n].o) + 1] > Key(n) /\ stack[n].o \in Path /\ Key(n) \in Nat
          /\ Below(Top.o, stack[n].o) /\ Top.o[Len(stack[n].o) + 1] = Key(n)
        BY <1>1, <1>2, <3>1, <3>2, KeysAre DEF LeadsTo, Descends, NameIn, Key
    <3>4. o[Len(stack[n].o) + 1] = Key(n)
      <4>1. PICK q, r : q = Top.o /\ r = stack[n].o
          OBVIOUS
      <4>2. q \in Path /\ r \in Path /\ Below(o, q) /\ Below(q, r)
          BY <1>3, <1>6, <3>3, <4>1
      <4>3. o[Len(r) + 1] = q[Len(r) + 1]
          BY <1>3, <4>2, BelowBelow
      <4> QED
          BY <3>3, <4>1, <4>3
    <3>5. p # o
        BY <3>3, <3>4
    <3> QED
        BY <1>1, <3>1, <3>2, <3>5 DEF Remains
  <2> QED
      BY <1>2, <1>9, <2>1, <2>2, <2>3, <2>4
<1>21. ~Top.iter.changed => Remains(o)
    BY <1>1, <1>2, <1>3, <1>6 DEF Remains, LeadsTo, Key
<1> QED
    BY <1>19, <1>20, <1>21

\* An object that is visited and asked for matches, and in a store that is as it was no other does.
LEMMA MatchIsAsked ==
    ASSUME AllKnown, Basics, AskedInv, Walking, pc = "tree", NEW o \in FromStore(Top)
    PROVE  /\ (o \in Asks => ObjectMatches(o)) /\ ~HiddenMatch(o)
           /\ objs = select.objects => (ObjectMatches(o) => o \in Asks)
           /\ objs = select.objects /\ OneExpression /\ PageCounts => o \in Asks \/ select.offset = 0
<1> USE DEF Basics
<1>1. mask = Expr.mask /\ InScope(o, Expr) /\ o \in Path /\ Top.o \in Path /\ seg = Len(Expr.from)
    BY VisitInScope, FromStoreIs
<1>2. select.store
    BY DEF FromStore
<1>3. objs = select.objects => o \in objs
  <2> SUFFICES ASSUME objs = select.objects PROVE o \in objs
      OBVIOUS
  <2>1. CASE o = Top.o
    <3>1. mask = "self" /\ Expr.filter = {} /\ Len(stack) = 1
        BY <2>1, FromStoreIs DEF Depth
    <3>2. o = SegmentObject(Expr, found, seg)
        BY <2>1, <3>1 DEF Walking, Top
    <3>3. o \in found
        BY <1>1, <3>2, NoObjectIsNoPath DEF SegmentObject
    <3> QED
        BY <3>3 DEF Walking, Split
  <2>2. CASE o # Top.o
    <3>1. o \in FromScope(Top)
        BY <2>2 DEF FromStore
    <3> QED
        BY <3>1 DEF FromScope
  <2> QED
      BY <2>1, <2>2
<1>4. TypeOf(o) # "unknown"
    BY <1>1 DEF AllKnown
<1>5. ~Masked(o)
  <2>1. DOMAIN <<>> = {}
      OBVIOUS
  <2> QED
      BY <2>1 DEF Masked, Typed
<1>6. ObjectMatches(o) <=> Accepts(Id(o)) /\ TypeMatches(TypeOf(o))
    BY <1>5 DEF ObjectMatches, AskedInv
<1>7. o \in Asks => (Expr.filter = {} \/ Id(o) \in Expr.filter) /\ (select.type \in {"", TypeOf(o)})
    BY DEF Asks, Stored, Asked
<1>8. objs = select.objects =>
          ((Expr.filter = {} \/ Id(o) \in Expr.filter) /\ (select.type \in {"", TypeOf(o)}) => o \in Asks)
    BY <1>1, <1>2, <1>3, <1>4 DEF Asks, Stored, Asked
<1>9. OneExpression => Expr = select.exprs[1]
  <2>1. OneExpression => expr \in 1..1
      BY ExprIs DEF Basics, OneExpression
  <2> QED
      BY <2>1 DEF Expr
<1>10. objs = select.objects /\ OneExpression /\ PageCounts => o \in Asks \/ select.offset = 0
    BY <1>8, <1>9 DEF PageCounts
<1>11. o \in Asks => ObjectMatches(o)
    BY <1>6, <1>7 DEF Accepts, TypeMatches
<1>12. objs = select.objects => (ObjectMatches(o) => o \in Asks)
    BY <1>6, <1>8 DEF Accepts, TypeMatches
<1> QED
    BY <1>4, <1>10, <1>11, <1>12 DEF HiddenMatch

LEMMA SelectTypes ==
    ASSUME Typed
    PROVE  select.offset \in Nat /\ select.limit \in Nat
BY SelectAssumption DEF Typed, Selects

\* What is asked for depends on the select, its expression and the store.
LEMMA SameAsks ==
    ASSUME UNCHANGED <<select, objs, expr>>
    PROVE  /\ Expr' = Expr /\ Asks' = Asks /\ (SelfOnly' <=> SelfOnly)
           /\ Staying' = Staying /\ (Connected' <=> Connected)
<1>1. Expr' = Expr /\ Staying' = Staying
    BY DEF Expr, Staying
<1> QED
    BY <1>1 DEF Asks, Stored, Asked, InScope, SelfOnly, Connected

LEMMA SameReads ==
    ASSUME UNCHANGED select
    PROVE  \A f : Reads(f)' <=> Reads(f)
BY DEF Reads, HadScope

LEMMA SameSplit ==
    ASSUME UNCHANGED <<select, found>>, Expr' = Expr
    PROVE  /\ Split' <=> Split
           /\ \A s : SegmentObject(Expr, found, s)' = SegmentObject(Expr, found, s)
BY DEF Split, SegmentObject, SegmentPath

LEMMA AtTheScope ==
    ASSUME Typed, seg = Len(Expr.from)
    PROVE  ~(seg < Len(Expr.from))
<1>1. Expr.from \in Path
    BY ExprIs
<1>2. PICK k \in Nat : k = Len(Expr.from)
    BY <1>1, PathsAre
<1> QED
    BY <1>1, <1>2

LEMMA ReadFrameReads ==
    ASSUME Basics, NEW o \in FromStore(Top), Reads(Top)
    PROVE  Reads(ReadFrame(o)) /\ Reads(Child(o))
<1> USE DEF Basics
<1>1. Top \in FrameSet /\ o \in Path
    BY TopIs, FromStoreIs
<1>2. ReadFrame(o).mount = Top.mount /\ ReadFrame(o).first = Top.first
    BY <1>1 DEF ReadFrame, FrameSet
<1>3. ReadFrame(o).o = Top.o /\ ReadFrame(o).iter.kind = Top.iter.kind
    BY ReadFrameIs
<1>4. Reads(ReadFrame(o))
    BY <1>2, <1>3 DEF Reads
<1>5. Child(o).mount = Child(o).first /\ Child(o).o = o /\ Child(o).iter = ScopeIter(o)
    BY <1>1, ChildIs DEF Child, ChildFrame
<1>6. HadScope(o) => HasScope(o)
    BY DEF HadScope, HasScope
<1>7. Reads(Child(o))
    BY <1>5, <1>6, NoObjectIsNoPath DEF Reads, ScopeIter, StoreIter, NoIter
<1> QED
    BY <1>4, <1>7

LEMMA VisitSkips ==
    ASSUME VisitObject, NEW o \in FromStore(Top), Visits(o)
    PROVE  skip' = IF Match(o) \/ PastOffset(skip) THEN skip ELSE skip + 1
<1>1. PICK q \in FromStore(Top) : skip' = IF (ObjectMatches(q) /\ PastOffset(skip)) \/ PastOffset(skip) THEN skip ELSE skip + 1
    BY DEF VisitObject
<1> QED
    BY <1>1 DEF Match

\* A visit goes on in the same scope or below.
LEMMA VisitKeepsWalking ==
    ASSUME AllKnown, Basics, AskedInv, Walking, VisitObject, NEW o \in FromStore(Top), Visits(o)
    PROVE  Walking'
<1> USE DEF Basics
<1>1. pc = "tree" /\ UNCHANGED <<select, objs, expr, found, seg>> /\ seg = Len(Expr.from)
    BY VisitIs, FromStoreIs DEF walk
<1>2. Expr' = Expr /\ (Connected' <=> Connected) /\ (Split' <=> Split) /\ \A f : Reads(f)' <=> Reads(f)
    BY <1>1, SameAsks, SameReads, SameSplit
<1>3. PICK L : L = Len(stack)
    OBVIOUS
<1>4. L \in Nat \ {0} /\ L \in 1..L /\ Top = stack[L]
    BY <1>3, TopIs DEF Top
<1>5. /\ \A n \in 1..L - 1 : stack'[n] = stack[n]
      /\ stack'[L] = ReadFrame(o)
      /\ Len(stack') = L \/ (Len(stack') = L + 1 /\ stack'[L + 1] = Child(o))
    BY <1>3, VisitedFrames
<1>6. Reads(ReadFrame(o)) /\ Reads(Child(o)) /\ ReadFrame(o).o = Top.o
    BY <1>3, <1>4, ReadFrameReads, ReadFrameIs DEF Walking
<1>7. \A n \in 1..Len(stack') : Reads(stack[n])'
  <2> SUFFICES ASSUME NEW n \in 1..Len(stack') PROVE Reads(stack[n])'
      OBVIOUS
  <2>1. PICK f : f = stack'[n]
      OBVIOUS
  <2>2. CASE n \in 1..L - 1
    <3>1. n \in 1..L /\ f = stack[n]
        BY <1>4, <1>5, <2>1, <2>2
    <3>2. Reads(f)
        BY <1>3, <3>1 DEF Walking
    <3> QED
        BY <1>2, <2>1, <3>2
  <2>3. CASE n = L
    <3>1. Reads(f)
        BY <1>5, <1>6, <2>1, <2>3
    <3> QED
        BY <1>2, <2>1, <3>1
  <2>4. CASE n = L + 1
    <3>1. Reads(f)
        BY <1>4, <1>5, <1>6, <2>1, <2>4
    <3> QED
        BY <1>2, <2>1, <3>1
  <2> QED
      BY <1>4, <1>5, <2>2, <2>3, <2>4
<1>8. stack'[1].o = stack[1].o
  <2>1. CASE L = 1
      BY <1>4, <1>5, <1>6, <2>1
  <2>2. CASE L # 1
      BY <1>4, <1>5, <2>2
  <2> QED
      BY <2>1, <2>2
<1>9. ~HiddenMatch(o)
    BY <1>1, MatchIsAsked
<1>10. pc' # "segment"
    BY <1>9 DEF Visits
<1>11. SegmentObject(Expr, found, seg)' = SegmentObject(Expr, found, seg)
    BY <1>1, <1>2 DEF SegmentObject, SegmentPath
<1>12. skip' \in Nat
    BY VisitSkips DEF Walking
<1>13. mask' = "none" => Expr.mask = "self"
    BY <1>1 DEF Visits, Depth
<1> QED
    BY <1>1, <1>2, <1>7, <1>8, <1>10, <1>11, <1>12, <1>13 DEF Walking

\* What a visit shows.
LEMMA VisitShows ==
    ASSUME AllKnown, Basics, AskedInv, Walking, VisitObject, NEW o \in FromStore(Top), Visits(o)
    PROVE  /\ pc' = (IF Match(o) THEN "next" ELSE "tree") /\ yielded' = yielded
           /\ mask' = (IF Match(o) /\ mask = "self" THEN "none" ELSE mask)
           /\ Shown = Places /\ Places' = Places
           /\ Shown' = IF Match(o) THEN Places \cup {o} ELSE Places
           /\ skip' = IF Match(o) \/ PastOffset(skip) THEN skip ELSE skip + 1
<1>1. pc = "tree" /\ UNCHANGED <<yielded, select>>
    BY VisitIs
<1>2. ~HiddenMatch(o)
    BY <1>1, MatchIsAsked
<1>3. pc' = (IF Match(o) THEN "next" ELSE "tree") /\ mask' = (IF Match(o) /\ mask = "self" THEN "none" ELSE mask)
    BY <1>2 DEF Visits
<1>4. Match(o) => item'.place = o
    BY DEF Visits, SeenItem
<1>5. Places' = Places
    BY <1>1 DEF Places
<1>6. Shown = Places /\ Shown' = IF Match(o) THEN Places \cup {o} ELSE Places
    BY <1>1, <1>3, <1>4, <1>5 DEF Shown
<1>7. skip' = IF Match(o) \/ PastOffset(skip) THEN skip ELSE skip + 1
    BY VisitSkips
<1> QED
    BY <1>1, <1>3, <1>5, <1>6, <1>7

\* A visit reads on, and the last item is what it read or was before it.
LEMMA VisitKeepsFollowing ==
    ASSUME Basics, Walking, Following, VisitObject, NEW o \in FromStore(Top), Visits(o)
    PROVE  Following'
<1> USE DEF Basics
<1>1. pc = "tree" /\ UNCHANGED <<select, objs, expr, seg>> /\ seg = Len(Expr.from)
    BY VisitIs, FromStoreIs DEF walk
<1>2. Expr' = Expr /\ (SelfOnly' <=> SelfOnly) /\ Staying' = Staying
    BY <1>1, SameAsks
<1> SUFFICES ASSUME ~SelfOnly PROVE NotAhead' /\ (NothingRead' => item'.name = 0)
    BY <1>2 DEF Following
<1>3. NotAhead /\ (NothingRead => item.name = 0) /\ mask = Expr.mask
    BY <1>1 DEF Following, Depth
<1>4. PICK L : L = Len(stack)
    OBVIOUS
<1>5. L \in Nat \ {0} /\ L \in 1..L /\ Top = stack[L]
    BY <1>4, TopIs DEF Top
<1>6. o # Top.o /\ o \in Path /\ o # <<>> /\ Top.iter.kind = "store" /\ Last(o) > NextKey(Top) /\ Id(o) = Last(o)
    BY <1>3, FromStoreIs, ChildrenAre DEF SelfOnly, Id
<1>7. ReadFrame(o).o = Top.o /\ ReadFrame(o).iter.key = Last(o) /\ ~ReadFrame(o).iter.changed
    BY <1>6, ReadFrameIs
<1>8. Top.iter.key \in Nat /\ item.name \in Nat /\ Last(o) \in Nat \ {0}
  <2>1. Top.iter.key \in Nat
      BY <1>4, <1>5, <1>6, KeysAre DEF Key
  <2>2. item.name \in Name \cup {0}
      BY DEF Typed, Items
  <2>3. Last(o) \in Name
      BY <1>6, ChildrenAre
  <2> QED
      BY <2>1, <2>2, <2>3, NatNames, NamesAre
<1>9. CASE Pushes(o)
  <2>1. Len(stack') = L + 1 /\ Top' = Child(o)
      BY <1>4, <1>9, VisitedFrames DEF Top
  <2>2. Child(o).iter = ScopeIter(o)
      BY <1>6, ChildIs
  <2>3. Top'.iter.kind = "store" => Top'.iter.key = 0 /\ ~Top'.iter.changed
      BY <2>1, <2>2 DEF ScopeIter, StoreIter, NoIter
  <2>4. NotAhead'
      BY <2>3 DEF NotAhead
  <2>5. ~NothingRead'
    <3>1. Len(stack') # 1
        BY <1>5, <2>1
    <3>2. ~(seg < Len(Expr.from))
        BY <1>1, AtTheScope
    <3> QED
        BY <1>1, <1>2, <3>1, <3>2 DEF NothingRead
  <2> QED
      BY <2>4, <2>5
<1>10. CASE ~Pushes(o)
  <2>1. Len(stack') = L /\ Top' = ReadFrame(o)
      BY <1>4, <1>10, VisitedFrames DEF Top
  <2>2. ~NothingRead'
    <3>1. ~(seg < Len(Expr.from))
        BY <1>1, AtTheScope
    <3> QED
        BY <1>1, <1>2, <1>7, <1>8, <2>1, <3>1 DEF NothingRead
  <2>3. NotAhead'
    <3> SUFFICES ASSUME Top.o \in Staying PROVE item'.name <= Last(o)
        BY <1>2, <1>7, <2>1 DEF NotAhead
    <3>1. CASE Match(o)
      <4>1. item'.name = Last(o)
          BY <1>6, <3>1 DEF Visits, SeenItem
      <4> QED
          BY <1>8, <4>1
    <3>2. CASE ~Match(o)
      <4>1. item'.name = item.name /\ L = 1
          BY <1>4, <1>10, <3>2 DEF Visits, Pushes, Depth
      <4>2. CASE Top.iter.changed
          BY <1>6, <1>8, <4>1, <4>2 DEF NextKey
      <4>3. CASE ~Top.iter.changed /\ Top.iter.key # 0
        <5>1. item.name <= Top.iter.key
            BY <1>3, <1>6, <4>3 DEF NotAhead
        <5> QED
            BY <1>6, <1>8, <4>1, <4>3, <5>1 DEF NextKey
      <4>4. CASE ~Top.iter.changed /\ Top.iter.key = 0
        <5>1. item.name = 0
            BY <1>3, <1>4, <1>6, <4>1, <4>4 DEF NothingRead
        <5> QED
            BY <1>8, <4>1, <5>1
      <4> QED
          BY <4>2, <4>3, <4>4
    <3> QED
        BY <3>1, <3>2
  <2> QED
      BY <2>2, <2>3
<1> QED
    BY <1>9, <1>10

LEMMA VisitKeepsUnmissed ==
    ASSUME AllKnown, Basics, AskedInv, OnceInv, Walking, Following, Unmissed,
           VisitObject, NEW o \in FromStore(Top), Visits(o)
    PROVE  Unmissed'
<1> USE DEF Basics
<1>1. pc = "tree" /\ UNCHANGED <<select, objs, expr, seg>> /\ seg = Len(Expr.from)
    BY VisitIs, FromStoreIs DEF walk
<1>2. Expr' = Expr /\ Asks' = Asks /\ (SelfOnly' <=> SelfOnly)
    BY <1>1, SameAsks
<1> SUFFICES ASSUME ~SelfOnly, select.offset = 0 PROVE \A p \in Asks : Remains(p)' \/ p \in Shown'
    BY <1>1, <1>2 DEF Unmissed
<1>3. mask = Expr.mask /\ mask # "none" /\ (Expr.mask # "tree" => Top.o = Expr.from)
    BY <1>1, VisitInScope DEF Depth
<1>4. \A p \in Asks : Remains(p) \/ p \in Shown
    BY <1>1, <1>3 DEF Unmissed
<1>5. \A p \in Asks : Remains(p) /\ p # o => Remains(p)'
    BY <1>1, <1>3, VisitReads
<1>6. o \in Asks => Match(o)
    BY <1>1, MatchIsAsked DEF Match, PastOffset, Walking
<1>7. Shown = Places /\ Shown' = IF Match(o) THEN Places \cup {o} ELSE Places
    BY VisitShows
<1> QED
    BY <1>4, <1>5, <1>6, <1>7

LEMMA VisitKeepsMiss ==
    ASSUME AllKnown, Basics, AskedInv, OnceInv, MissInv, VisitObject
    PROVE  MissInv'
<1>1. PICK o \in FromStore(Top) : Visits(o)
    BY VisitIs
<1>2. Walking' /\ Following' /\ Unmissed'
    BY <1>1, VisitKeepsWalking, VisitKeepsFollowing, VisitKeepsUnmissed DEF MissInv
<1>3. ended' = ended /\ pc = "tree"
    BY VisitIs
<1>4. Ended'
    BY <1>3 DEF MissInv, Ended
<1> QED
    BY <1>2, <1>4 DEF MissInv

LEMMA VisitKeepsPaged ==
    ASSUME AllKnown, Plain, Basics, AskedInv, Walking, Still, Paged, VisitObject, NEW o \in FromStore(Top), Visits(o)
    PROVE  Paged'
<1> USE DEF Basics
<1>1. /\ pc = "tree" /\ UNCHANGED <<select, objs, expr, seg, count, yielded>> /\ seg = Len(Expr.from)
    BY VisitIs, FromStoreIs DEF walk
<1>2. Expr' = Expr /\ Asks' = Asks
    BY <1>1, SameAsks
<1>3. /\ pc' = (IF Match(o) THEN "next" ELSE "tree")
      /\ mask' = (IF Match(o) /\ mask = "self" THEN "none" ELSE mask)
      /\ Shown = Places /\ Shown' = (IF Match(o) THEN Places \cup {o} ELSE Places)
      /\ skip' = IF Match(o) \/ PastOffset(skip) THEN skip ELSE skip + 1
    BY VisitShows
<1>4. (Match(o) => o \in Asks /\ PastOffset(skip)) /\ (PastOffset(skip) <=> skip >= select.offset)
    BY <1>1, MatchIsAsked DEF Match, PastOffset, Still
<1>5. /\ select.offset \in Nat /\ select.limit \in Nat /\ skip \in 0..select.offset
      /\ (Shown # {} => skip = select.offset) /\ count = Len(yielded) /\ count \in Nat
      /\ (select.limit # 0 => count < select.limit)
    BY <1>1, SelectTypes DEF Paged, Typed
<1>6. skip' \in 0..select.offset /\ (Shown' # {} => skip' = select.offset)
  <2>1. CASE Match(o)
      BY <1>3, <1>4, <1>5, <2>1
  <2>2. CASE ~Match(o) /\ PastOffset(skip)
      BY <1>3, <1>5, <2>2
  <2>3. CASE ~Match(o) /\ ~PastOffset(skip)
      BY <1>3, <1>4, <1>5, <2>3
  <2> QED
      BY <2>1, <2>2, <2>3
<1>7. select.limit # 0 => Taken' <= select.limit /\ (pc' = "tree" => count < select.limit)
  <2>1. Taken' = count + (IF pc' = "next" THEN 1 ELSE 0)
      BY <1>1, <1>5 DEF Taken
  <2>2. Taken' \in {count, count + 1}
      BY <1>5, <2>1
  <2>3. Taken' = count \/ Taken' = count + 1
      BY <2>2
  <2> QED
      BY <1>5, <2>3
<1>8. mask' = "none" => Shown' # {}
    BY <1>1, <1>3 DEF Depth
<1>9. Shown' \subseteq Asks
    BY <1>3, <1>4 DEF Paged
<1>10. ~(seg < Len(Expr.from))
    BY <1>1, AtTheScope
<1> QED
    BY <1>1, <1>2, <1>5, <1>6, <1>7, <1>8, <1>9, <1>10 DEF Paged

LEMMA VisitKeepsCounted ==
    ASSUME AllKnown, Plain, Basics, AskedInv, OnceInv, Walking, Following, Still, Paged, Counted,
           VisitObject, NEW o \in FromStore(Top), Visits(o)
    PROVE  Counted'
<1> USE DEF Basics
<1>1. /\ pc = "tree" /\ UNCHANGED <<select, objs, expr, seg, count, yielded>> /\ seg = Len(Expr.from)
    BY VisitIs, FromStoreIs DEF walk
<1>2. Expr' = Expr /\ Asks' = Asks /\ (SelfOnly' <=> SelfOnly)
    BY <1>1, SameAsks
<1>3. /\ pc' = (IF Match(o) THEN "next" ELSE "tree")
      /\ Shown = Places /\ Shown' = (IF Match(o) THEN Places \cup {o} ELSE Places)
      /\ skip' = IF Match(o) \/ PastOffset(skip) THEN skip ELSE skip + 1
    BY VisitShows
<1>4. /\ (Match(o) <=> o \in Asks /\ PastOffset(skip)) /\ (PastOffset(skip) <=> skip >= select.offset)
      /\ o \in Asks \/ select.offset = 0
    BY <1>1, MatchIsAsked DEF Match, PastOffset, Plain, Simple, Still
<1>5. select.offset \in Nat /\ skip \in 0..select.offset /\ Len(yielded) \in Nat
    BY SelectTypes DEF Paged, Typed
<1> SUFFICES ASSUME Expr.mask # "self" PROVE Cardinality(Gone') = skip' + Taken'
    BY <1>2 DEF Counted
<1>6. ~SelfOnly /\ mask = Expr.mask /\ mask # "none" /\ (Expr.mask # "tree" => Top.o = Expr.from)
    BY <1>1, VisitInScope DEF Depth, SelfOnly
<1>7. Cardinality(Gone) = skip + Taken
    BY <1>1, <1>6 DEF Counted
<1>8. \A p \in Asks : (Remains(p)' <=> Remains(p) /\ p # o) /\ Remains(o)
  <2>1. ~Top.iter.changed
    <3>1. Len(stack) \in 1..Len(stack)
        BY TopIs
    <3>2. Top.iter.kind = "store"
        BY <1>6, FromStoreIs DEF SelfOnly
    <3> QED
        BY <3>1, <3>2 DEF Still, Top
  <2> QED
      BY <1>1, <1>6, <2>1, VisitReads
<1>9. Gone' = {p \in Asks : ~(Remains(p) /\ p # o)}
    BY <1>2, <1>8 DEF Gone
<1>10. Taken = Len(yielded) /\ Taken' = Len(yielded) + (IF Match(o) THEN 1 ELSE 0)
    BY <1>1, <1>3, <1>5 DEF Taken
<1>11. Cardinality(Gone') = skip' + Taken'
  <2>1. PICK c \in Nat : c = Cardinality(Gone) /\ c = skip + Len(yielded)
      BY <1>7, <1>10, AsksAreFinite
  <2>2. CASE o \in Asks
    <3>1. o \notin Gone /\ Gone' = Gone \cup {o}
        BY <1>8, <1>9, <2>2 DEF Gone
    <3>2. IsFiniteSet(Gone)
        BY AsksAreFinite
    <3>3. Cardinality(Gone') = c + 1
        BY <2>1, <3>1, <3>2, FS_AddElement
    <3>4. skip' + Taken' = c + 1
      <4>1. CASE Match(o)
          BY <1>3, <1>5, <1>10, <2>1, <4>1
      <4>2. CASE ~Match(o)
          BY <1>3, <1>4, <1>5, <1>10, <2>1, <2>2, <4>2
      <4> QED
          BY <4>1, <4>2
    <3> QED
        BY <3>3, <3>4
  <2>3. CASE o \notin Asks
    <3>1. Gone' = Gone
        BY <1>9, <2>3 DEF Gone
    <3>2. ~Match(o) /\ PastOffset(skip)
        BY <1>4, <1>5, <2>3
    <3>3. PICK n \in Nat : n = Len(yielded) /\ Taken' = n /\ skip' = skip
        BY <1>3, <1>5, <1>10, <3>2
    <3> QED
        BY <1>5, <2>1, <3>1, <3>3
  <2> QED
      BY <2>2, <2>3
<1> QED
    BY <1>11

LEMMA VisitKeepsStill ==
    ASSUME Basics, Still, VisitObject, NEW o \in FromStore(Top), Visits(o)
    PROVE  Still'
<1> USE DEF Basics
<1>1. UNCHANGED <<select, objs, written>>
    BY VisitIs
<1>2. PICK L : L = Len(stack)
    OBVIOUS
<1>3. L \in Nat \ {0} /\ L \in 1..L /\ Top = stack[L] /\ Top \in FrameSet /\ o \in Path
    BY <1>2, TopIs, FromStoreIs DEF Top
<1>4. /\ \A n \in 1..L - 1 : stack'[n] = stack[n]
      /\ stack'[L] = ReadFrame(o)
      /\ Len(stack') = L \/ (Len(stack') = L + 1 /\ stack'[L + 1] = Child(o))
    BY <1>2, VisitedFrames
<1>5. ReadFrame(o).iter.kind = "store" => ~ReadFrame(o).iter.changed
  <2>1. CASE o = Top.o
    <3>1. ReadFrame(o) = [Top EXCEPT !.iter = Top.iter]
        BY <2>1 DEF ReadFrame
    <3>2. ReadFrame(o).iter = Top.iter
        BY <1>3, <3>1 DEF FrameSet
    <3> QED
        BY <1>2, <1>3, <3>2 DEF Still
  <2>2. CASE o # Top.o
      BY <2>2, ReadFrameIs
  <2> QED
      BY <2>1, <2>2
<1>6. Child(o).iter.kind = "store" => ~Child(o).iter.changed
    BY <1>3, ChildIs DEF ScopeIter, StoreIter, NoIter
<1>7. ASSUME NEW n \in 1..Len(stack'), stack'[n].iter.kind = "store" PROVE ~stack'[n].iter.changed
  <2>1. CASE n \in 1..L - 1
    <3>1. n \in 1..L /\ stack'[n] = stack[n]
        BY <1>3, <1>4, <2>1
    <3> QED
        BY <1>2, <1>7, <3>1 DEF Still
  <2>2. CASE n = L
      BY <1>4, <1>5, <1>7, <2>2
  <2>3. CASE n = L + 1
      BY <1>3, <1>4, <1>6, <1>7, <2>3
  <2> QED
      BY <1>3, <1>4, <2>1, <2>2, <2>3
<1> QED
    BY <1>1, <1>7 DEF Still

LEMMA VisitKeepsPage ==
    ASSUME AllKnown, Plain, Basics, AskedInv, OnceInv, MissInv, PageInv, VisitObject
    PROVE  PageInv'
<1>1. PICK o \in FromStore(Top) : Visits(o)
    BY VisitIs
<1>2. Paged' /\ Counted'
    BY <1>1, VisitKeepsPaged, VisitKeepsCounted DEF MissInv, PageInv
<1>3. Still'
    BY <1>1, VisitKeepsStill DEF PageInv
<1> QED
    BY <1>2, <1>3 DEF PageInv

(***************************************************************************)
(* The other steps                                                         *)
(***************************************************************************)
LEMMA SameMiss ==
    ASSUME Walking, Following, Unmissed, UNCHANGED <<select, objs, expr, found, seg, stack, mask, skip>>,
           Shown' = Shown, pc' # "segment", pc' = "done" \/ (pc # "done" /\ item'.name = item.name)
    PROVE  Walking' /\ Following' /\ Unmissed' /\ (AllRead' <=> AllRead)
<1>1. /\ Expr' = Expr /\ Asks' = Asks /\ (SelfOnly' <=> SelfOnly) /\ Staying' = Staying /\ Top' = Top
      /\ (Connected' <=> Connected) /\ (Split' <=> Split) /\ (\A f : Reads(f)' <=> Reads(f))
      /\ SegmentObject(Expr, found, seg)' = SegmentObject(Expr, found, seg)
    BY SameAsks, SameSplit, SameReads DEF Top
<1>2. \A p : Remains(p)' <=> Remains(p)
    BY DEF Remains, LeadsTo
<1>3. Walking'
    BY <1>1 DEF Walking
<1>4. Following'
    BY <1>1 DEF Following, NotAhead, NothingRead
<1>5. Unmissed'
    BY <1>1, <1>2 DEF Unmissed
<1>6. AllRead' <=> AllRead
    BY <1>1, <1>2 DEF AllRead
<1> QED
    BY <1>3, <1>4, <1>5, <1>6

LEMMA UnwindKeepsMiss ==
    ASSUME Basics, OnceInv, MissInv, Unwind
    PROVE  /\ MissInv' /\ UNCHANGED <<count, skip, written, objs>> /\ Shown' = Shown
           /\ Asks' = Asks /\ \A p \in Asks : Remains(p)' <=> Remains(p)
<1> USE DEF Basics
<1>1. /\ UNCHANGED <<select, objs, written, pc, expr, found, seg, mask, skip, count, yielded, ended>>
      /\ Len(stack) > 1 /\ mask = "tree" /\ stack' = Front(stack) /\ Len(stack') = Len(stack) - 1
    BY UnwindIsTyped DEF Unwind, walk
<1>2. pc = "tree" /\ Depleted
    BY DEF Unwind, Depleted
<1>3. /\ Expr' = Expr /\ Asks' = Asks /\ (SelfOnly' <=> SelfOnly) /\ Staying' = Staying
      /\ (Connected' <=> Connected) /\ (Split' <=> Split) /\ (\A f : Reads(f)' <=> Reads(f))
      /\ SegmentObject(Expr, found, seg)' = SegmentObject(Expr, found, seg)
    BY <1>1, SameAsks, SameSplit, SameReads
<1>4. PICK L : L = Len(stack)
    OBVIOUS
<1>5. L \in Nat /\ L > 1 /\ Top = stack[L] /\ Len(stack') = L - 1 /\ \A n \in 1..L - 1 : stack'[n] = stack[n]
    BY <1>1, <1>4, TopIs DEF Top
<1>6. seg = Len(Expr.from) /\ Walking /\ Following /\ Unmissed
    BY <1>1 DEF MissInv, Walking
<1>7. \A p \in Asks : Remains(p)' <=> Remains(p)
  <2> SUFFICES ASSUME NEW p \in Asks PROVE Remains(p)' <=> Remains(p)
      OBVIOUS
  <2>1. ~LeadsTo(stack[L], p)
      BY <1>2, <1>5, <1>6, DepletedIsRead
  <2>2. Remains(p) <=> \E n \in 1..L - 1 : LeadsTo(stack[n], p)
      BY <1>4, <1>5, <2>1 DEF Remains
  <2>3. Remains(p)' <=> \E n \in 1..L - 1 : LeadsTo(stack'[n], p)
      BY <1>5 DEF Remains, LeadsTo
  <2> QED
      BY <1>5, <2>2, <2>3
<1>8. Shown' = Shown
    BY <1>1, <1>2 DEF Shown, Places
<1>9. Walking'
  <2>1. \A n \in 1..Len(stack') : Reads(stack[n])'
    <3> SUFFICES ASSUME NEW n \in 1..Len(stack') PROVE Reads(stack[n])'
        OBVIOUS
    <3>1. n \in 1..L /\ stack'[n] = stack[n]
        BY <1>5
    <3>2. Reads(stack[n])
        BY <1>4, <1>6, <3>1 DEF Walking
    <3> QED
        BY <1>3, <3>1, <3>2
  <2>2. stack'[1].o = stack[1].o
      BY <1>5
  <2> QED
      BY <1>1, <1>3, <1>6, <2>1, <2>2 DEF Walking
<1>10. Following'
  <2>1. Entered(L - 1) /\ L - 1 \in 1..L - 1
      BY <1>4, <1>5 DEF OnceInv, Nested
  <2>2. Top.o \in Path /\ Top.o # <<>> /\ Last(Top.o) = Top'.iter.key /\ Top' = stack[L - 1]
    <3>1. Top' = stack'[L - 1] /\ L - 1 + 1 = L
        BY <1>5 DEF Top
    <3>2. stack'[L - 1] = stack[L - 1]
        BY <1>5, <2>1
    <3> QED
        BY <1>5, <2>1, <3>1, <3>2 DEF Entered, Key
  <2>3. Last(Top.o) \in Name /\ NameOf(Top) = Last(Top.o)
      BY <2>2, ChildrenAre, NoObjectIsNoPath DEF NameOf, Id
  <2>4. item'.name = NameOf(Top)
    <3>1. item' = [item EXCEPT !.name = NameOf(Top)] /\ item \in Items
        BY UnwindIsTyped DEF Typed
    <3> QED
        BY <3>1 DEF Items
  <2>5. item'.name = Top'.iter.key /\ Top'.iter.key \in Nat \ {0}
      BY <2>2, <2>3, <2>4, NamesAre
  <2>6. ~NothingRead'
      BY <1>1, <1>3, <1>6, <2>5, AtTheScope DEF NothingRead
  <2>7. NotAhead'
      BY <2>5 DEF NotAhead
  <2> QED
      BY <2>6, <2>7 DEF Following
<1>11. Unmissed'
    BY <1>1, <1>3, <1>6, <1>7, <1>8 DEF Unmissed
<1>12. Ended'
    BY <1>1, <1>2 DEF MissInv, Ended
<1> QED
    BY <1>1, <1>3, <1>7, <1>8, <1>9, <1>10, <1>11, <1>12 DEF MissInv

\* A scope that is entered is read by its frame.
LEMMA ScopeFrameReads ==
    ASSUME NEW f, f.iter = ScopeIter(f.o), f.mount = f.first
    PROVE  Reads(f)
BY NoObjectIsNoPath DEF Reads, HadScope, HasScope, ScopeIter, StoreIter, NoIter

\* With the single frame of a segment, all that is asked for is still to come.
LEMMA DeeperKeepsMiss ==
    ASSUME Simple, Basics, OnceInv, MissInv, GoesDeeper
    PROVE  MissInv' /\ Shown' = {} /\ Asks' = Asks /\ (seg' = Len(Expr.from) /\ ~SelfOnly => \A p \in Asks : Remains(p)')
<1> USE DEF Basics
<1>1. /\ UNCHANGED <<select, objs, written, expr, found, mask, ended, skip, count, yielded>>
      /\ pc' = "tree" /\ seg' = seg + 1 /\ seg < Len(Expr.from) /\ ResetItem
    BY DEF GoesDeeper
<1>2. pc = "tree" /\ mask # "none" /\ Walking /\ Following
    BY DEF GoesDeeper, Depleted, MissInv, Walking, Depth
<1>3. /\ Expr' = Expr /\ Asks' = Asks /\ (SelfOnly' <=> SelfOnly) /\ Staying' = Staying
      /\ (Connected' <=> Connected) /\ (Split' <=> Split) /\ (\A f : Reads(f)' <=> Reads(f))
    BY <1>1, SameAsks, SameSplit, SameReads
<1>4. PICK f : f = stack'[1]
    OBVIOUS
<1>5. Len(stack') = 1 /\ f.o = SegmentObject(Expr, found, seg + 1) /\ f.iter = ScopeIter(f.o) /\ Basics'
    BY <1>4, DeeperIsTyped DEF Simple
<1>6. f.mount = f.first
  <2>1. PrepareFrame(<<>>, Expr, found, seg + 1, stack[1].o, ReleaseItem(claims))
      BY DEF GoesDeeper
  <2> QED
      BY <1>4, <2>1 DEF PrepareFrame
<1>7. Reads(f)
    BY <1>5, <1>6, ScopeFrameReads
<1>8. Walking'
  <2>1. \A n \in 1..Len(stack') : Reads(stack[n])'
    <3>1. \A n \in 1..1 : n = 1
        OBVIOUS
    <3>2. Reads(stack[1])'
        BY <1>3, <1>4, <1>7
    <3> QED
        BY <1>5, <3>1, <3>2
  <2>2. stack'[1].o = SegmentObject(Expr, found, seg)'
      BY <1>1, <1>3, <1>4, <1>5 DEF SegmentObject, SegmentPath
  <2> QED
      BY <1>1, <1>2, <1>3, <1>5, <2>1, <2>2 DEF Walking
<1>9. Following'
  <2>1. ~SelfOnly => item.name = 0
      BY <1>1, <1>2 DEF Following, NothingRead
  <2>2. item'.name = item.name
      BY <1>1 DEF ResetItem, Typed, Items
  <2>3. Top' = f
      BY <1>4, <1>5 DEF Top
  <2>4. Top'.iter.kind = "store" => Top'.iter.key = 0 /\ ~Top'.iter.changed
      BY <1>5, <2>3 DEF ScopeIter, StoreIter, NoIter
  <2> QED
      BY <1>3, <2>1, <2>2, <2>4 DEF Following, NotAhead
<1>10. Shown' = {}
  <2>1. Places = {} /\ Places' = Places
      BY <1>1 DEF OnceInv, Shown, Places
  <2> QED
      BY <1>1, <2>1 DEF Shown
<1>11. seg' = Len(Expr.from) /\ ~SelfOnly => \A p \in Asks : Remains(p)'
  <2> SUFFICES ASSUME ~SelfOnly, seg + 1 = Len(Expr.from), NEW p \in Asks PROVE Remains(p)'
      BY <1>1
  <2>1. LeadsTo(f, p)
      BY <1>2, <1>5, ScopeLeads DEF Walking
  <2> QED
      BY <1>4, <1>5, <2>1 DEF Remains, LeadsTo
<1>12. Unmissed'
    BY <1>3, <1>11 DEF Unmissed
<1>13. Ended'
    BY <1>1, <1>2 DEF MissInv, Ended
<1> QED
    BY <1>3, <1>8, <1>9, <1>10, <1>11, <1>12, <1>13 DEF MissInv

(***************************************************************************)
(* The other thread writes                                                 *)
(***************************************************************************)
LEMMA WriteTouches ==
    ASSUME Basics, Write, NEW i \in DOMAIN stack, NEW w, w = select.writes[written + 1]
    PROVE  /\ stack'[i].mount = stack[i].mount /\ stack'[i].first = stack[i].first
           /\ stack[i].iter.kind = "store" /\ stack'[i].iter.changed =>
                 \/ stack[i].iter.changed \/ stack[i].o = Front(w.path)
                 \/ w.op = "delete" /\ (stack[i].o = w.path \/ Under(stack[i].o, w.path))
<1>1. PICK touched : touched <=> /\ stack[i].iter.kind = "store"
                                 /\ \/ stack[i].o = Front(w.path)
                                    \/ w.op = "delete" /\ (stack[i].o = w.path \/ Under(stack[i].o, w.path))
    OBVIOUS
<1>2. stack'[i] = IF touched THEN [stack[i] EXCEPT !.iter.changed = TRUE] ELSE stack[i]
    BY <1>1 DEF Write
<1>3. stack[i] \in FrameSet
    BY TopIs DEF Basics
<1> QED
    BY <1>1, <1>2, <1>3 DEF FrameSet

\* What stays is what stayed before and is not deleted, and so are the scopes on the way to it.
LEMMA WriteKeepsScopes ==
    ASSUME Basics, Connected, NothingComesBack, Write, NEW w, w = select.writes[written + 1]
    PROVE  /\ Connected' /\ Staying' \subseteq Staying
           /\ w.op = "delete" => \A q \in Staying' : q # w.path /\ ~Under(q, w.path)
<1> USE DEF Basics
<1>1. /\ select' = select
      /\ objs' = IF w.op = "add" THEN objs \cup {w.path} ELSE {q \in objs : q # w.path /\ ~Under(q, w.path)}
    BY DEF Write
<1>2. w.path \in Path /\ w.op \in {"add", "delete"} /\ (w.op = "add" => w.path \notin select.objects)
  <2>1. select.writes \in Seq([op: {"add", "delete"}, path: Path])
      BY SelectsAre DEF Typed
  <2>2. written + 1 \in DOMAIN select.writes
      BY <2>1 DEF Write, Typed
  <2>3. w \in [op: {"add", "delete"}, path: Path]
      BY <2>1, <2>2, ElementsAre
  <2> QED
      BY <2>2, <2>3 DEF NothingComesBack
<1>3. CASE w.op = "add"
  <2>1. Staying' = Staying
      BY <1>1, <1>2, <1>3 DEF Staying
  <2> QED
      BY <1>3, <2>1 DEF Connected
<1>4. CASE w.op # "add"
  <2>1. \A q : q \in Staying' <=> q \in Staying /\ q # w.path /\ ~Under(q, w.path)
      BY <1>1, <1>4 DEF Staying
  <2>2. ASSUME NEW q \in Staying', q # <<>> PROVE Front(q) \in Staying'
    <3>1. q \in Path /\ Front(q) \in Staying
        BY <2>1, <2>2 DEF Connected, Staying, Typed
    <3>2. ~(Front(q) = w.path \/ Under(Front(q), w.path))
        BY <1>2, <2>1, <2>2, <3>1, UnderScope
    <3> QED
        BY <2>1, <3>1, <3>2
  <2> QED
      BY <2>1, <2>2 DEF Connected
<1> QED
    BY <1>3, <1>4

\* A scope that is about to be read is left alone, and in the others the last item is not
\* behind what was read.
LEMMA WriteKeepsMiss ==
    ASSUME Gentle, Basics, MissInv, Write
    PROVE  MissInv'
<1> USE DEF Basics
<1>1. PICK w : w = select.writes[written + 1]
    OBVIOUS
<1>2. Quiet /\ NothingComesBack
  <2>1. written < Len(select.writes) /\ written \in Nat /\ Len(<<>>) = 0
      BY DEF Write, Typed
  <2> QED
      BY <2>1 DEF Gentle, Undisturbed
<1>3. /\ UNCHANGED <<select, pc, expr, found, seg, mask, item, skip, count, yielded, ended>>
      /\ ~Unread(Front(w.path))
    BY <1>1, <1>2 DEF Write, walk
<1>4. Walking /\ Following /\ Unmissed /\ Ended /\ Connected
    BY DEF MissInv, Walking
<1>5. /\ Connected' /\ Staying' \subseteq Staying
      /\ w.op = "delete" => \A q \in Staying' : q # w.path /\ ~Under(q, w.path)
    BY <1>1, <1>2, <1>4, WriteKeepsScopes
<1>6. PICK L : L = Len(stack)
    OBVIOUS
<1>7. L \in Nat \ {0} /\ DOMAIN stack = 1..L /\ Len(stack') = L /\ L \in 1..L /\ Top = stack[L] /\ Top' = stack'[L]
    BY <1>6, TopIs, WriteIs DEF Top
<1>8. \A n \in 1..L : /\ stack'[n].o = stack[n].o /\ stack'[n].iter.kind = stack[n].iter.kind
                      /\ stack[n].iter.kind = "store" => stack'[n].iter.key = stack[n].iter.key
    BY <1>7, WriteIs
<1>9. \A n \in 1..L :
          /\ stack'[n].mount = stack[n].mount /\ stack'[n].first = stack[n].first
          /\ stack[n].iter.kind = "store" /\ stack'[n].iter.changed =>
                \/ stack[n].iter.changed \/ stack[n].o = Front(w.path)
                \/ w.op = "delete" /\ (stack[n].o = w.path \/ Under(stack[n].o, w.path))
    BY <1>1, <1>7, WriteTouches
<1>10. /\ Expr' = Expr /\ (SelfOnly' <=> SelfOnly) /\ (Split' <=> Split) /\ (\A f : Reads(f)' <=> Reads(f))
       /\ SegmentObject(Expr, found, seg)' = SegmentObject(Expr, found, seg)
  <2>1. Expr' = Expr
      BY <1>3 DEF Expr
  <2> QED
      BY <1>3, <2>1, SameSplit, SameReads DEF SelfOnly
<1>11. Walking'
  <2>1. \A n \in 1..L : Reads(stack'[n])
    <3> SUFFICES ASSUME NEW n \in 1..L PROVE Reads(stack'[n])
        OBVIOUS
    <3>1. Reads(stack[n])
        BY <1>4, <1>6 DEF Walking
    <3> QED
        BY <1>8, <1>9, <3>1 DEF Reads
  <2>2. 1 \in 1..L
      BY <1>7
  <2>3. stack'[1].o = stack[1].o
      BY <1>8, <2>2
  <2> QED
      BY <1>3, <1>4, <1>5, <1>6, <1>7, <1>10, <2>1, <2>3 DEF Walking
<1>12. Following'
  <2> SUFFICES ASSUME pc # "done", ~SelfOnly PROVE NotAhead' /\ (NothingRead' => item.name = 0)
      BY <1>3, <1>10 DEF Following
  <2>1. NotAhead /\ (NothingRead => item.name = 0)
      BY <1>4 DEF Following
  <2>2. /\ Top'.o = Top.o /\ Top'.iter.kind = Top.iter.kind
        /\ Top.iter.kind = "store" => Top'.iter.key = Top.iter.key
      BY <1>7, <1>8
  <2>3. NothingRead' => NothingRead
      BY <1>3, <1>6, <1>7, <1>10, <2>2 DEF NothingRead
  <2>4. NotAhead'
    <3> SUFFICES ASSUME Top.iter.kind = "store", Top.o \in Staying', Top'.iter.changed \/ Top.iter.key # 0
                 PROVE  item.name <= Top.iter.key
        BY <1>3, <2>2 DEF NotAhead
    <3>1. CASE Top.iter.changed \/ Top.iter.key # 0
        BY <1>5, <2>1, <3>1 DEF NotAhead
    <3>2. CASE ~Top.iter.changed /\ Top.iter.key = 0
      <4>1. Top.o = Front(w.path)
          BY <1>5, <1>7, <1>9, <3>2
      <4>2. item.name = 0
          BY <1>3, <3>2, <4>1 DEF Unread
      <4> QED
          BY <3>2, <4>2
    <3> QED
        BY <3>1, <3>2
  <2> QED
      BY <2>1, <2>3, <2>4
<1>13. Asks' \subseteq Asks
    BY <1>3, <1>5, <1>10 DEF Asks, Stored, Asked, InScope, Staying
<1>14. \A p : Remains(p)' <=> Remains(p)
    BY <1>6, <1>7, <1>8 DEF Remains, LeadsTo
<1>15. Unmissed'
  <2>1. Shown' = Shown
      BY <1>3 DEF Shown, Places
  <2> QED
      BY <1>3, <1>4, <1>10, <1>13, <1>14, <2>1 DEF Unmissed
<1>16. Ended'
    BY <1>3, <1>4, <1>10, <1>13, <1>14 DEF Ended, AllRead
<1> QED
    BY <1>11, <1>12, <1>15, <1>16 DEF MissInv

(***************************************************************************)
(* Nothing is missed                                                       *)
(***************************************************************************)
\* Between two results nothing is shown but what was returned.
LEMMA SameShown ==
    ASSUME pc # "next", pc' # "next", UNCHANGED yielded
    PROVE  Shown' = Shown /\ Taken' = Taken
<1>1. Places' = Places
    BY DEF Places
<1> QED
    BY <1>1 DEF Shown, Taken

\* The select ends when the page is full, the one object was found or all was read.
LEMMA StopKeepsMiss ==
    ASSUME Basics, MissInv, pc \in {"idle", "tree"}, UNCHANGED <<select, objs, written, skip, count, yielded>>,
           NEW how, Stop(how),
           how = "end" => (select.limit # 0 /\ select.limit <= count) \/ mask = "none" \/ AllRead
    PROVE  MissInv'
<1>1. pc' = "done" /\ ended' = how /\ UNCHANGED <<expr, found, seg, stack, mask>>
    BY DEF Stop, walk
<1>2. Shown' = Shown
    BY <1>1, SameShown
<1>3. Walking' /\ Following' /\ Unmissed' /\ (AllRead' <=> AllRead)
    BY <1>1, <1>2, SameMiss DEF MissInv
<1>4. Ended'
    BY <1>1, <1>3 DEF Ended
<1> QED
    BY <1>3, <1>4 DEF MissInv

\* With one expression, the select ends or goes on where it was.
LEMMA SimpleHasNext ==
    ASSUME Simple, Basics, HasNext
    PROVE  /\ pc = "idle" /\ UNCHANGED <<select, objs, written, skip, count, yielded>>
           /\ \/ Stop("end") /\ ((select.limit # 0 /\ select.limit <= count) \/ mask = "none")
              \/ /\ pc' = "tree" /\ UNCHANGED <<expr, found, seg, stack, mask, item, ended>>
                 /\ ~(select.limit # 0 /\ select.limit <= count)
<1>1. ~(expr < Len(select.exprs))
  <2>1. expr \in 1..1
      BY ExprIs DEF Simple, OneExpression, Basics
  <2> QED
      BY <2>1 DEF Simple, OneExpression
<1> QED
    BY <1>1 DEF HasNext, walk

\* When the walk ends, all was read.
LEMMA SimpleSegment ==
    ASSUME Simple, Basics, Walking, Following, NextSegment
    PROVE  \/ GoesDeeper
           \/ /\ pc = "tree" /\ Stop("end") /\ AllRead
              /\ UNCHANGED <<select, objs, written, skip, count, yielded>>
<1>1. GoesDeeper \/ (/\ Stop("end") /\ seg = Len(Expr.from)
                     /\ UNCHANGED <<select, objs, written, skip, count, yielded>>)
    BY SegmentIs DEF Simple
<1>2. Depleted /\ Len(stack) = 1 /\ pc = "tree"
    BY DEF NextSegment, Depleted, Walking
<1>3. CASE Stop("end") /\ seg = Len(Expr.from) /\ UNCHANGED <<select, objs, written, skip, count, yielded>>
  <2>1. \A p \in Asks : ~SelfOnly /\ ~LeadsTo(Top, p)
      BY <1>2, <1>3, DepletedIsRead
  <2>2. \A p \in Asks : ~Remains(p)
    <3> SUFFICES ASSUME NEW p \in Asks, NEW n \in 1..1 PROVE ~LeadsTo(stack[n], p)
        BY <1>2 DEF Remains
    <3> QED
        BY <1>2, <2>1 DEF Top
  <2>3. SelfOnly => Asks = {}
      BY <2>1
  <2>4. AllRead
      BY <1>3, <2>2, <2>3 DEF AllRead
  <2> QED
      BY <1>2, <1>3, <2>4
<1> QED
    BY <1>1, <1>3

LEMMA StepKeepsMiss ==
    ASSUME AllKnown, Simple, Gentle, Basics, AskedInv, OnceInv, MissInv, [Next]_vars
    PROVE  MissInv'
<1>1. Walking /\ Following /\ Unmissed /\ Ended
    BY DEF MissInv
<1>2. CASE UNCHANGED vars
  <2>1. UNCHANGED <<select, objs, pc, expr, found, seg, stack, mask, skip, count, yielded, ended, item>>
      BY <1>2 DEF vars, walk
  <2>2. Shown' = Shown
      BY <2>1 DEF Shown, Places
  <2>3. Walking' /\ Following' /\ Unmissed' /\ (AllRead' <=> AllRead)
      BY <1>1, <2>1, <2>2, SameMiss DEF Walking
  <2>4. Ended'
      BY <1>1, <2>1, <2>3 DEF Ended
  <2> QED
      BY <2>3, <2>4 DEF MissInv
<1>3. CASE Leave
    BY <1>3, StopKeepsMiss DEF Leave
<1>4. ~AskMount /\ ~VisitResult
    BY NoMounts DEF Basics, Simple
<1>5. CASE NextSegment
    BY <1>1, <1>5, SimpleSegment, DeeperKeepsMiss, StopKeepsMiss
<1>6. CASE HasNext
  <2>1. CASE Stop("end") /\ ((select.limit # 0 /\ select.limit <= count) \/ mask = "none")
      BY <1>6, <2>1, SimpleHasNext, StopKeepsMiss
  <2>2. CASE pc' = "tree" /\ UNCHANGED <<expr, found, seg, stack, mask, item, ended>>
    <3>1. pc = "idle" /\ UNCHANGED <<select, objs, skip, count, yielded>>
        BY <1>6, SimpleHasNext
    <3>2. Shown' = Shown
        BY <2>2, <3>1, SameShown
    <3>3. Walking' /\ Following' /\ Unmissed'
        BY <1>1, <2>2, <3>1, <3>2, SameMiss
    <3>4. Ended'
        BY <1>1, <2>2, <3>1 DEF Ended
    <3> QED
        BY <3>3, <3>4 DEF MissInv
  <2> QED
      BY <1>6, <2>1, <2>2, SimpleHasNext
<1>7. CASE Next_
  <2>1. pc = "next" /\ pc' = "idle" /\ UNCHANGED <<select, objs, expr, found, seg, stack, mask, skip, item, ended>>
      BY <1>7 DEF Next_, walk
  <2>2. Shown' = Shown
      BY <1>7, YieldShows DEF Basics
  <2>3. Walking' /\ Following' /\ Unmissed'
      BY <1>1, <2>1, <2>2, SameMiss
  <2>4. Ended'
      BY <1>1, <2>1 DEF Ended
  <2> QED
      BY <2>3, <2>4 DEF MissInv
<1> QED
    BY <1>2, <1>3, <1>4, <1>5, <1>6, <1>7, VisitKeepsMiss, UnwindKeepsMiss, WriteKeepsMiss DEF Next, Walk

LEMMA InitIsMiss ==
    ASSUME Init, Simple
    PROVE  /\ MissInv /\ skip = 0 /\ Places = {} /\ Shown = {} /\ pc = "idle"
           /\ ~SelfOnly /\ seg = Len(Expr.from) => \A p \in Asks : Remains(p)
<1>1. /\ Basics /\ Len(stack) = 1 /\ yielded = <<>> /\ pc = "idle" /\ item = NoItem
      /\ stack[1].o = SegmentObject(Expr, found, seg) /\ stack[1].iter = ScopeIter(stack[1].o)
    BY InitIsBasic DEF Simple
<1>2. /\ select \in Setup /\ objs = select.objects /\ mask = Expr.mask /\ ended = ""
      /\ stack[1].mount = stack[1].first /\ skip = 0 /\ Split
    BY DEF Init, Expr, Split
<1>3. seg = 0
    BY DEF Init
<1>4. Places = {}
  <2>1. DOMAIN <<>> = {}
      OBVIOUS
  <2> QED
      BY <1>1, <2>1 DEF Places
<1>5. Shown = {}
    BY <1>1, <1>4 DEF Shown
<1>6. Connected
    BY <1>2, SelectAssumption DEF Connected, Staying
<1>7. Walking
  <2>1. Reads(stack[1])
      BY <1>1, <1>2, ScopeFrameReads
  <2>2. \A n \in 1..Len(stack) : n = 1
      BY <1>1
  <2>3. \A n \in 1..Len(stack) : Reads(stack[n])
      BY <2>1, <2>2
  <2>4. pc # "segment" /\ ~(Len(stack) > 1)
      BY <1>1
  <2>5. mask # "none"
      BY <1>1, <1>2, ExprIs DEF Basics
  <2> QED
      BY <1>1, <1>2, <1>6, <2>3, <2>4, <2>5 DEF Walking
<1>8. Following
  <2>1. item.name = 0
      BY <1>1 DEF NoItem
  <2>2. Top = stack[1]
      BY <1>1 DEF Top
  <2>3. Top.iter.kind = "store" => Top.iter.key = 0
      BY <1>1, <2>2, ScopeItersAre
  <2> QED
      BY <2>1, <2>3 DEF Following, NotAhead
<1>9. ~SelfOnly /\ seg = Len(Expr.from) => \A p \in Asks : Remains(p)
  <2> SUFFICES ASSUME ~SelfOnly, seg = Len(Expr.from), NEW p \in Asks PROVE Remains(p)
      OBVIOUS
  <2>1. LeadsTo(stack[1], p)
      BY <1>1, <1>2, <1>6, ScopeLeads DEF Basics
  <2> QED
      BY <1>1, <2>1 DEF Remains
<1>10. Unmissed
    BY <1>9 DEF Unmissed
<1>11. Ended
    BY <1>2 DEF Ended
<1> QED
    BY <1>1, <1>2, <1>4, <1>5, <1>7, <1>8, <1>9, <1>10, <1>11 DEF MissInv

LEMMA WantedIs ==
    ASSUME OnlyStore
    PROVE  Wanted(Expr) = Asks
<1>1. Range(select.mounts) = {}
    BY DEF OnlyStore, Range
<1>2. Held(Expr) = {}
    BY <1>1 DEF Held
<1> QED
    BY <1>2 DEF Wanted, Asks

LEMMA NoneIsMissed ==
    ASSUME Simple, Basics, MissInv, Expr.mask # "self" \/ (mask = "none" => Shown # {} /\ Shown \subseteq Asks)
    PROVE  NothingIsMissed
<1> SUFFICES ASSUME ended = "end", select.offset = 0, select.limit = 0,
                    NEW e \in DOMAIN select.exprs
             PROVE  IF select.exprs[e].mask = "self"
                    THEN Wanted(select.exprs[e]) = {} \/ Wanted(select.exprs[e]) \cap Places # {}
                    ELSE Wanted(select.exprs[e]) \subseteq Places
    BY DEF NothingIsMissed
<1>1. select.exprs[e] = Expr
  <2>1. expr \in 1..1 /\ DOMAIN select.exprs = 1..1
      BY ExprIs, SelectsAre DEF Simple, OneExpression, Basics, Typed
  <2> QED
      BY <2>1 DEF Expr
<1>2. Wanted(Expr) = Asks
    BY WantedIs DEF Simple
<1>3. Shown = Places /\ (mask = "none" \/ AllRead)
    BY DEF MissInv, Ended, Shown
<1>4. CASE mask = "none"
  <2>1. Expr.mask = "self"
      BY <1>4 DEF MissInv, Walking
  <2> QED
      BY <1>1, <1>2, <1>3, <1>4, <2>1
<1>5. CASE mask # "none" /\ SelfOnly
    BY <1>1, <1>2, <1>3, <1>5 DEF AllRead, SelfOnly
<1>6. CASE mask # "none" /\ ~SelfOnly
  <2>1. \A p \in Asks : p \in Places
      BY <1>3, <1>6 DEF AllRead, MissInv, Unmissed
  <2> QED
      BY <1>1, <1>2, <2>1
<1> QED
    BY <1>4, <1>5, <1>6

\* A select for one expression over a store that another thread changes misses nothing that
\* stays: the position is kept in scopes that change and are read again from the last item on.
\* The other thread leaves a scope alone that is about to be read (it is then read from the
\* item before it) and does not bring back what it deleted.  A select for one object returns the
\* one it finds, which may be deleted later (corto_selectTree, corto_scopeWalk).
THEOREM NothingStayingIsMissed ==
    AllKnown /\ Quiet /\ Spec =>
        [](Simple /\ NothingComesBack /\ select.exprs[1].mask # "self" => NothingIsMissed)
<1> DEFINE Inv == Simple /\ NothingComesBack => Basics /\ AskedInv /\ OnceInv /\ MissInv
<1> SUFFICES ASSUME AllKnown, Quiet
             PROVE  Spec => [](Simple /\ NothingComesBack /\ select.exprs[1].mask # "self" => NothingIsMissed)
    OBVIOUS
<1>1. Init => Inv
    BY InitIsAsked, InitIsOnce, InitIsMiss DEF Simple
<1>2. Inv /\ [Next]_vars => Inv'
  <2> SUFFICES ASSUME Inv, [Next]_vars, Simple', NothingComesBack'
               PROVE  Basics' /\ AskedInv' /\ OnceInv' /\ MissInv'
      OBVIOUS
  <2>1. Simple /\ NothingComesBack
      BY SelectIsFixed DEF Simple, OnlyStore, OneExpression, NothingComesBack
  <2>2. Gentle /\ OnlyStore
      BY <2>1 DEF Gentle, Simple
  <2> QED
      BY <2>1, <2>2, SimpleStep, StepIsAsked, StepKeepsOnce, StepKeepsMiss
<1>3. Inv => (Simple /\ NothingComesBack /\ select.exprs[1].mask # "self" => NothingIsMissed)
  <2> SUFFICES ASSUME Inv, Simple, NothingComesBack, select.exprs[1].mask # "self" PROVE NothingIsMissed
      OBVIOUS
  <2>1. Expr = select.exprs[1]
    <3>1. expr \in 1..1
        BY ExprIs DEF Simple, OneExpression, Basics
    <3> QED
        BY <3>1 DEF Expr
  <2> QED
      BY <2>1, NoneIsMissed
<1> QED
    BY <1>1, <1>2, <1>3, PTL DEF Spec

(***************************************************************************)
(* Pages are full                                                          *)
(***************************************************************************)
\* What is asked for and left behind is as many as were skipped and taken, when neither changes.
LEMMA SameCount ==
    ASSUME Counted, UNCHANGED <<seg, mask, skip>>, Expr' = Expr, Asks' = Asks, Taken' = Taken,
           \A p \in Asks : Remains(p)' <=> Remains(p)
    PROVE  Counted'
<1>1. Gone' = Gone
    BY DEF Gone
<1> QED
    BY <1>1 DEF Counted

LEMMA SamePage ==
    ASSUME PageInv, UNCHANGED <<select, objs, written, expr, seg, stack, mask, skip>>,
           Shown' = Shown, Taken' = Taken, count' = Len(yielded'),
           select.limit # 0 => (pc' = "tree" => count' < select.limit)
    PROVE  PageInv'
<1>1. Expr' = Expr /\ Asks' = Asks
    BY SameAsks
<1>2. \A p : Remains(p)' <=> Remains(p)
    BY DEF Remains, LeadsTo
<1>3. Counted'
    BY <1>1, <1>2, SameCount DEF PageInv
<1>4. Paged'
    BY <1>1 DEF PageInv, Paged
<1>5. Still'
    BY DEF PageInv, Still
<1> QED
    BY <1>3, <1>4, <1>5 DEF PageInv

LEMMA UnwindKeepsPage ==
    ASSUME Basics, OnceInv, MissInv, PageInv, Unwind
    PROVE  PageInv'
<1> USE DEF Basics
<1>1. UNCHANGED <<select, pc, expr, seg, mask, yielded>> /\ stack' = Front(stack) /\ Len(stack') = Len(stack) - 1
    BY UnwindIsTyped
<1>2. /\ UNCHANGED <<count, skip, written, objs>> /\ Shown' = Shown /\ Asks' = Asks
      /\ \A p \in Asks : Remains(p)' <=> Remains(p)
    BY UnwindKeepsMiss
<1>3. Expr' = Expr /\ Taken' = Taken
    BY <1>1 DEF Expr, Taken
<1>4. Counted'
    BY <1>1, <1>2, <1>3, SameCount DEF PageInv
<1>5. Paged'
    BY <1>1, <1>2, <1>3 DEF PageInv, Paged
<1>6. Still'
  <2>1. \A n \in 1..Len(stack') : n \in 1..Len(stack) /\ stack'[n] = stack[n]
      BY <1>1, TopIs
  <2> QED
      BY <1>1, <1>2, <2>1 DEF PageInv, Still
<1> QED
    BY <1>4, <1>5, <1>6 DEF PageInv

LEMMA NothingTaken ==
    ASSUME Typed, Places = {}
    PROVE  Len(yielded) = 0
<1>1. DOMAIN yielded = 1..Len(yielded) /\ Len(yielded) \in Nat
    BY DEF Typed
<1>2. \A i \in 1..Len(yielded) : FALSE
    BY <1>1 DEF Places
<1> QED
    BY <1>1, <1>2

LEMMA DeeperKeepsPage ==
    ASSUME Simple, Basics, OnceInv, MissInv, PageInv, GoesDeeper
    PROVE  PageInv'
<1> USE DEF Basics
<1>1. /\ UNCHANGED <<select, objs, written, expr, mask, skip, count, yielded>>
      /\ pc' = "tree" /\ seg' = seg + 1 /\ seg < Len(Expr.from)
    BY DEF GoesDeeper
<1>2. mask # "none"
    BY DEF GoesDeeper, Depleted, MissInv, Walking, Depth
<1>3. /\ Shown' = {} /\ Asks' = Asks /\ Expr' = Expr
      /\ seg' = Len(Expr.from) /\ ~SelfOnly => \A p \in Asks : Remains(p)'
    BY <1>1, DeeperKeepsMiss DEF Expr
<1>4. Len(yielded) = 0
  <2>1. Places = {}
      BY <1>1 DEF OnceInv, Shown
  <2> QED
      BY <2>1, NothingTaken
<1>5. Taken' = 0 /\ skip' = 0 /\ count' = 0 /\ count' = Len(yielded') /\ (select.limit # 0 => 0 < select.limit)
  <2>1. count = 0 /\ skip = 0 /\ select.limit \in Nat
      BY <1>1, <1>4, SelectTypes DEF PageInv, Paged
  <2> QED
      BY <1>1, <1>4, <2>1 DEF Taken
<1>6. Paged'
    BY <1>1, <1>2, <1>3, <1>5, SelectTypes DEF Paged
<1>7. Counted'
  <2> SUFFICES ASSUME seg' = Len(Expr.from), Expr.mask # "self" PROVE Cardinality(Gone') = skip' + Taken'
      BY <1>3 DEF Counted
  <2>1. Gone' = {}
      BY <1>3 DEF Gone, SelfOnly
  <2> QED
      BY <1>5, <2>1, FS_EmptySet
<1>8. Still'
  <2>1. Len(stack') = 1 /\ stack'[1].iter = ScopeIter(stack'[1].o)
      BY DeeperIsTyped DEF Simple
  <2>2. \A n \in 1..Len(stack') : n = 1
      BY <2>1
  <2>3. stack'[1].iter.kind = "store" => ~stack'[1].iter.changed
      BY <2>1 DEF ScopeIter, StoreIter, NoIter
  <2> QED
      BY <1>1, <2>2, <2>3 DEF PageInv, Still
<1> QED
    BY <1>6, <1>7, <1>8 DEF PageInv

LEMMA StopKeepsPage ==
    ASSUME PageInv, pc \in {"idle", "tree"}, UNCHANGED <<select, objs, written, skip, count, yielded>>, NEW how, Stop(how)
    PROVE  PageInv'
<1>1. pc' = "done" /\ UNCHANGED <<expr, seg, stack, mask>>
    BY DEF Stop, walk
<1>2. Shown' = Shown /\ Taken' = Taken
    BY <1>1, SameShown
<1>3. count' = Len(yielded')
    BY DEF PageInv, Paged
<1> QED
    BY <1>1, <1>2, <1>3, SamePage

LEMMA StepKeepsPage ==
    ASSUME AllKnown, Plain, Basics, AskedInv, OnceInv, MissInv, PageInv, [Next]_vars
    PROVE  PageInv'
<1>1. count = Len(yielded) /\ count \in Nat /\ select.limit \in Nat /\ (select.limit # 0 /\ pc = "tree" => count < select.limit)
    BY SelectTypes DEF PageInv, Paged, Basics, Typed
<1>2. CASE UNCHANGED vars
  <2>1. UNCHANGED <<select, objs, written, pc, expr, seg, stack, mask, skip, count, yielded, item>>
      BY <1>2 DEF vars, walk
  <2>2. Shown' = Shown /\ Taken' = Taken
      BY <2>1 DEF Shown, Places, Taken
  <2> QED
      BY <1>1, <2>1, <2>2, SamePage
<1>3. ~Write
  <2>1. written = 0 /\ Len(<<>>) = 0
      BY DEF PageInv, Still
  <2> QED
      BY <2>1 DEF Write, Plain, Undisturbed
<1>4. CASE Leave
    BY <1>4, StopKeepsPage DEF Leave
<1>5. ~AskMount /\ ~VisitResult
    BY NoMounts DEF Basics, Plain, Simple
<1>6. CASE NextSegment
    BY <1>6, SimpleSegment, DeeperKeepsPage, StopKeepsPage DEF Plain, MissInv
<1>7. CASE HasNext
  <2>1. CASE Stop("end")
      BY <1>7, <2>1, SimpleHasNext, StopKeepsPage DEF Plain
  <2>2. CASE /\ pc' = "tree" /\ UNCHANGED <<expr, found, seg, stack, mask, item, ended>>
             /\ ~(select.limit # 0 /\ select.limit <= count)
    <3>1. pc = "idle" /\ UNCHANGED <<select, objs, written, skip, count, yielded>>
        BY <1>7, SimpleHasNext DEF Plain
    <3>2. Shown' = Shown /\ Taken' = Taken
        BY <2>2, <3>1, SameShown
    <3>3. count' = Len(yielded') /\ (select.limit # 0 => count' < select.limit)
        BY <1>1, <2>2, <3>1
    <3> QED
        BY <2>2, <3>1, <3>2, <3>3, SamePage
  <2> QED
      BY <1>7, <2>1, <2>2, SimpleHasNext DEF Plain
<1>8. CASE Next_
  <2>1. /\ pc = "next" /\ pc' = "idle" /\ count' = count + 1
        /\ UNCHANGED <<select, objs, written, expr, seg, stack, mask, skip>>
      BY <1>8 DEF Next_, walk
  <2>2. PICK k : k = Len(yielded)
      OBVIOUS
  <2>3. k \in Nat /\ Len(yielded') = k + 1 /\ Shown' = Shown
      BY <1>8, <2>2, YieldShows DEF Basics
  <2>4. Taken = k + 1 /\ Taken' = k + 1 /\ count' = Len(yielded')
      BY <1>1, <2>1, <2>2, <2>3 DEF Taken
  <2> QED
      BY <2>1, <2>3, <2>4, SamePage
<1> QED
    BY <1>2, <1>3, <1>4, <1>5, <1>6, <1>7, <1>8, VisitKeepsPage, UnwindKeepsPage DEF Next, Walk

LEMMA InitIsPage ==
    ASSUME Init, Plain
    PROVE  PageInv
<1>1. /\ skip = 0 /\ Places = {} /\ Shown = {} /\ pc = "idle"
      /\ ~SelfOnly /\ seg = Len(Expr.from) => \A p \in Asks : Remains(p)
    BY InitIsMiss DEF Plain
<1>2. Basics /\ Len(stack) = 1 /\ stack[1].iter = ScopeIter(stack[1].o) /\ Len(yielded) = 0
    BY <1>1, InitIsBasic, NothingTaken DEF Plain, Simple, Basics
<1>3. objs = select.objects /\ written = 0 /\ count = 0 /\ mask = Expr.mask
    BY DEF Init, Expr
<1>4. Taken = 0
    BY <1>1, <1>2 DEF Taken
<1>5. Still
  <2>1. \A n \in 1..Len(stack) : n = 1
      BY <1>2
  <2>2. stack[1].iter.kind = "store" => ~stack[1].iter.changed
      BY <1>2 DEF ScopeIter, StoreIter, NoIter
  <2> QED
      BY <1>3, <2>1, <2>2 DEF Still
<1>6. Paged
  <2>1. PICK l, m \in Nat : l = select.limit /\ m = select.offset
      BY <1>2, SelectTypes DEF Basics
  <2>2. mask # "none"
      BY <1>2, <1>3, ExprIs DEF Basics
  <2>3. skip \in 0..select.offset
      BY <1>1, <2>1
  <2>4. Taken <= select.limit
      BY <1>4, <2>1
  <2> QED
      BY <1>1, <1>2, <1>3, <2>2, <2>3, <2>4 DEF Paged
<1>7. Counted
  <2> SUFFICES ASSUME seg = Len(Expr.from), Expr.mask # "self" PROVE Cardinality(Gone) = skip + Taken
      BY DEF Counted
  <2>1. Gone = {}
      BY <1>1 DEF Gone, SelfOnly
  <2> QED
      BY <1>1, <1>4, <2>1, FS_EmptySet
<1> QED
    BY <1>5, <1>6, <1>7 DEF PageInv

LEMMA EachIsTyped ==
    ASSUME Plain, Basics, ClaimsAreCounted, PageInv
    PROVE  TypeInvariant
<1>1. written \in 0..Len(select.writes)
    BY DEF PageInv, Still, Plain, Undisturbed
<1>2. mask \in {"self", "scope", "tree", "none"}
    BY ExprIs DEF Basics, Depth
<1>3. \A p \in Path : claims[p] \in Nat
  <2>1. \A p : Cardinality(FramesOf(stack, p)) \in Nat
      BY FramesAreFinite DEF Basics, Typed
  <2> QED
      BY <2>1 DEF ClaimsAreCounted
<1> QED
    BY <1>1, <1>2, <1>3 DEF TypeInvariant, Basics, Typed

LEMMA PagesAreFull ==
    ASSUME Plain, Basics, OnceInv, MissInv, PageInv
    PROVE  PageIsFull
<1> USE DEF Basics
<1> SUFFICES ASSUME ended = "end", Expr.mask # "self" PROVE PageIsFull
    BY DEF PageIsFull
<1>1. PICK n, off, limit \in Nat : n = Cardinality(Wanted(Expr)) /\ n = Cardinality(Asks)
                                   /\ off = select.offset /\ limit = select.limit
    BY WantedIs, AsksAreFinite, SelectTypes DEF Plain, Simple
<1>2. PICK k \in Nat : k = Len(yielded)
    BY DEF Typed
<1>3. pc = "done" /\ mask # "none"
    BY DEF MissInv, Ended, Walking
<1>4. count = k /\ Taken = k /\ Shown = Places
    BY <1>2, <1>3 DEF PageInv, Paged, Taken, Shown
<1>5. k # 0 => Shown # {}
    BY <1>2, <1>4, NothingTaken
<1>6. PICK s \in 0..off : s = skip /\ (k # 0 => s = off) /\ (limit # 0 => k <= limit)
    BY <1>1, <1>4, <1>5 DEF PageInv, Paged
<1>7. seg = Len(Expr.from) => Cardinality(Gone) = s + k
    BY <1>3, <1>4, <1>6 DEF PageInv, Counted
<1>8. k = IF limit # 0 /\ limit < (IF n > off THEN n - off ELSE 0) THEN limit ELSE (IF n > off THEN n - off ELSE 0)
  <2>1. CASE AllRead
    <3>1. Gone = Asks /\ seg = Len(Expr.from)
        BY <2>1 DEF AllRead, Gone
    <3>2. n = s + k
        BY <1>1, <1>7, <3>1
    <3> QED
        BY <1>6, <3>2
  <2>2. CASE limit # 0 /\ limit <= k
    <3>1. k = limit /\ s = off /\ k # 0
        BY <1>6, <2>2
    <3>2. Expr.from \in Path /\ seg \in 0..Len(Expr.from)
        BY ExprIs DEF Typed
    <3>3. ~(seg < Len(Expr.from))
        BY <1>5, <3>1 DEF OnceInv
    <3>4. seg = Len(Expr.from)
      <4>1. PICK m \in Nat : m = Len(Expr.from)
          BY <3>2, PathsAre
      <4> QED
          BY <3>2, <3>3, <4>1
    <3>5. s + k <= n
        BY <1>1, <1>7, <3>4, AsksAreFinite
    <3> QED
        BY <3>1, <3>5
  <2> QED
      BY <1>1, <1>3, <1>4, <2>1, <2>2 DEF MissInv, Ended
<1> QED
    BY <1>1, <1>2, <1>8 DEF PageIsFull

\* A select for one expression over a store that nobody changes returns each object that is
\* asked for once and misses none, and of a page it returns as many as there are behind the
\* offset, at most the limit (corto_selectTree, corto_selectMatch, corto_selectHasNext).
THEOREM EachIsReturned == AllKnown /\ Spec => [](Plain => EachOnce)
<1> DEFINE Inv == Plain => Basics /\ AskedInv /\ OnceInv /\ ClaimsAreCounted /\ MissInv /\ PageInv
<1> SUFFICES ASSUME AllKnown PROVE Spec => [](Plain => EachOnce)
    OBVIOUS
<1>1. Init => Inv
  <2> SUFFICES ASSUME Init, Plain
               PROVE  Basics /\ AskedInv /\ OnceInv /\ ClaimsAreCounted /\ MissInv /\ PageInv
      OBVIOUS
  <2>1. Basics /\ AskedInv /\ OnceInv /\ MissInv
      BY InitIsAsked, InitIsOnce, InitIsMiss DEF Plain, Simple
  <2> QED
      BY <2>1, InitCounted, InitIsPage DEF Plain
<1>2. Inv /\ [Next]_vars => Inv'
  <2> SUFFICES ASSUME Inv, [Next]_vars, Plain'
               PROVE  Basics' /\ AskedInv' /\ OnceInv' /\ ClaimsAreCounted' /\ MissInv' /\ PageInv'
      OBVIOUS
  <2>1. Plain
      BY SelectIsFixed DEF Plain, Simple, OnlyStore, OneExpression, Undisturbed, PageCounts
  <2>2. Simple /\ OnlyStore /\ Gentle
      BY <2>1 DEF Plain, Simple, Gentle
  <2> QED
      BY <2>1, <2>2, SimpleStep, StepIsAsked, StepKeepsOnce, StepKeepsClaims, StepKeepsMiss, StepKeepsPage
<1>3. Inv => (Plain => EachOnce)
  <2> SUFFICES ASSUME Inv, Plain PROVE EachOnce
      OBVIOUS
  <2>1. Basics /\ OnceInv /\ MissInv /\ PageInv /\ TypeInvariant /\ PageIsFull
      BY EachIsTyped, PagesAreFull
  <2>2. NothingIsMissed
      BY <2>1, NoneIsMissed DEF Plain, PageInv, Paged
  <2> QED
      BY <2>1, <2>2 DEF OnceInv, EachOnce
<1> QED
    BY <1>1, <1>2, <1>3, PTL DEF Spec

=============================================================================
