-------------------------- MODULE Services_proofs --------------------------
(***************************************************************************)
(* Proofs about the small components whose calls are made inside each      *)
(* other or by several threads: Formats, Fluent and Resume, side by side   *)
(* in Services.                                                            *)
(***************************************************************************)
EXTENDS Services, FiniteSetTheorems, SequenceTheorems, WellFoundedInduction, TLAPS

\* A set of natural numbers has a least element.
LEMMA HasLeast ==
    ASSUME NEW S, S \subseteq Nat, S # {}
    PROVE  \E n \in S : \A c \in S : n <= c
<1> DEFINE Less == {ss \in Nat \X Nat : ss[1] < ss[2]}
<1>1. IsWellFoundedOn(Less, Nat)
    BY NatLessThanWellFounded DEF OpToRel
<1>2. \A m, n \in Nat : <<m, n>> \in Less <=> m < n
    OBVIOUS
<1> HIDE DEF Less
<1>3. PICK n \in S : \A c \in S : <<c, n>> \notin Less
    BY <1>1, WFMin, Zenon
<1>4. \A c \in S : ~(c < n)
    BY <1>2, <1>3, Zenon
<1>5. \A c \in S : n <= c
    BY <1>4
<1> QED BY <1>5

(***************************************************************************)
(* Formats                                                                 *)
(***************************************************************************)
FormatsTyped ==
    /\ fmts \in [F!Fmt -> [for: F!Asked \cup {""}, at: {"", "new", "loaded", "left"}]]
    /\ contentTypes \in Seq(F!Fmt)
    /\ uses \in [Threads -> [asks: F!Asked \cup {""}, at: {"idle", "load", "add"},
                             fmt: F!Fmt \cup {F!None}]]
    /\ returned \in [F!Asked -> SUBSET F!Fmt]

\* Format f serves a and can be used.
Complete(f, a) == fmts[f].for = a /\ fmts[f].at = "loaded"
InList(f) == \E i \in 1..Len(contentTypes) : contentTypes[i] = f

\* A thread that loads a format has one of its own, which is not in the list.
Loading(t) == uses[t].at # "idle"
OwnFormat(t) ==
    /\ uses[t].asks \in F!Asked /\ uses[t].fmt \in F!Fmt /\ ~InList(uses[t].fmt)
    /\ fmts[uses[t].fmt].for = uses[t].asks
    /\ fmts[uses[t].fmt].at = IF uses[t].at = "load" THEN "new" ELSE "loaded"

OwnFormats ==
    /\ \A t \in Threads : Loading(t) => OwnFormat(t)
    /\ \A t, u \in Threads : Loading(t) /\ Loading(u) /\ uses[t].fmt = uses[u].fmt => t = u

\* The list has one format for what it serves, and lookups returned formats of the list.
ListIsUnique ==
    /\ \A f, g \in F!Fmt : InList(f) /\ InList(g) /\ fmts[f].for = fmts[g].for => f = g
    /\ \A f \in F!Fmt : InList(f) => fmts[f].for \in F!Asked /\ fmts[f].at = "loaded"
    /\ \A a \in F!Asked : \A f \in returned[a] : Complete(f, a) /\ InList(f)

FormatsInv == FormatsTyped /\ OwnFormats /\ ListIsUnique

\* The elements of the list.
LEMMA ListTyped ==
    ASSUME FormatsTyped
    PROVE  Len(contentTypes) \in Nat /\ \A i \in 1..Len(contentTypes) : contentTypes[i] \in F!Fmt
<1>1. contentTypes \in Seq(F!Fmt)
    BY DEF FormatsTyped
<1> QED BY <1>1

\* The search of the list: a format of the list, or there is none.
LEMMA ListedIsInList ==
    ASSUME FormatsTyped, NEW a
    PROVE  /\ F!Listed(a) # F!None => F!Listed(a) \in F!Fmt /\ InList(F!Listed(a)) /\ fmts[F!Listed(a)].for = a
           /\ F!Listed(a) = F!None => \A f \in F!Fmt : InList(f) => fmts[f].for # a
<1> DEFINE I == {i \in 1..Len(contentTypes) : fmts[contentTypes[i]].for = a}
<1>0. Len(contentTypes) \in Nat /\ \A i \in 1..Len(contentTypes) : contentTypes[i] \in F!Fmt
    BY ListTyped
<1>1. CASE I = {}
    <2>1. F!Listed(a) = F!None
        BY <1>1 DEF F!Listed, F!None, F!SelectInSeq
    <2> QED BY <2>1, <1>1 DEF InList
<1>2. CASE I # {}
    <2>1. F!SelectInSeq(contentTypes, LAMBDA f : fmts[f].for = a) = F!Min(I)
        BY <1>2 DEF F!SelectInSeq
    <2>2. I \subseteq Nat
        BY <1>0
    <2>3. PICK S : S = I
        OBVIOUS
    <2>4. PICK n \in S : \A c \in S : n <= c
        BY <1>2, <2>2, <2>3, HasLeast
    <2>5. F!Min(I) \in I
        BY <2>3, <2>4 DEF F!Min
    <2>6. F!Min(I) # 0 /\ contentTypes[F!Min(I)] \in F!Fmt /\ contentTypes[F!Min(I)] # F!None
        BY <1>0, <2>5 DEF F!Fmt, F!None
    <2>7. F!Listed(a) = contentTypes[F!Min(I)]
        BY <2>1, <2>6 DEF F!Listed
    <2> QED BY <1>0, <2>5, <2>6, <2>7 DEF InList
<1> QED BY <1>1, <1>2

\* A format that is allocated is nobody's.
LEMMA NewFmtIsUnused ==
    ASSUME FormatsTyped, F!Unused # {}
    PROVE  F!NewFmt \in F!Fmt /\ fmts[F!NewFmt].at = ""
<1>1. F!Unused \subseteq Nat
    <2>1. \A f \in F!Fmt : f \in Nat
        BY DEF F!Fmt
    <2> QED BY <2>1 DEF F!Unused
<1>2. PICK S : S = F!Unused
    OBVIOUS
<1>3. PICK n \in S : \A c \in S : n <= c
    BY <1>1, <1>2, HasLeast
<1>4. F!NewFmt \in F!Unused
    BY <1>2, <1>3 DEF F!NewFmt
<1> QED BY <1>4 DEF F!Unused

LEMMA FormatsInit == F!Init => FormatsInv
<1> SUFFICES ASSUME F!Init PROVE FormatsInv
    OBVIOUS
<1>1. FormatsTyped
    <2>1. contentTypes \in Seq(F!Fmt)
        <3>1. contentTypes = <<>>
            BY DEF F!Init
        <3> QED BY <3>1
    <2>2. fmts \in [F!Fmt -> [for: F!Asked \cup {""}, at: {"", "new", "loaded", "left"}]]
        BY DEF F!Init, F!NoFmt
    <2>3. uses \in [Threads -> [asks: F!Asked \cup {""}, at: {"idle", "load", "add"},
                               fmt: F!Fmt \cup {F!None}]]
        BY DEF F!Init
    <2>4. returned \in [F!Asked -> SUBSET F!Fmt]
        BY DEF F!Init
    <2> QED BY <2>1, <2>2, <2>3, <2>4 DEF FormatsTyped
<1>2. OwnFormats
    BY DEF F!Init, OwnFormats, Loading
<1>3. ListIsUnique
    <2>1. Len(contentTypes) = 0 /\ \A a \in F!Asked : returned[a] = {}
        BY DEF F!Init
    <2>2. 1..Len(contentTypes) = {}
        BY <2>1
    <2> QED BY <2>1, <2>2 DEF ListIsUnique, InList
<1> QED BY <1>1, <1>2, <1>3 DEF FormatsInv

\* What a thread loads stays its own when neither the format nor the list changes for it.
LEMMA OwnFormatStays ==
    ASSUME FormatsInv, NEW t \in Threads, Loading(t), uses'[t] = uses[t],
           fmts'[uses[t].fmt] = fmts[uses[t].fmt],
           InList(uses[t].fmt)' => InList(uses[t].fmt)
    PROVE  OwnFormat(t)'
<1>1. OwnFormat(t)
    BY DEF FormatsInv, OwnFormats
<1>2. ~InList(uses[t].fmt)'
    BY <1>1 DEF OwnFormat
<1> QED BY <1>1, <1>2 DEF OwnFormat

\* What the operators of Returns do to the state.
LEMMA ReturnsTyped ==
    ASSUME FormatsInv, NEW t \in Threads, NEW a \in F!Asked, NEW f \in F!Fmt \cup {F!None},
           F!Returns(t, a, f)
    PROVE  /\ uses' \in [Threads -> [asks: F!Asked \cup {""}, at: {"idle", "load", "add"},
                                     fmt: F!Fmt \cup {F!None}]]
           /\ uses'[t].at = "idle" /\ \A u \in Threads \ {t} : uses'[u] = uses[u]
           /\ returned' \in [F!Asked -> SUBSET F!Fmt]
           /\ \A b \in F!Asked : \A g \in returned'[b] :
                 g \in F!Fmt /\ (g \in returned[b] \/ (b = a /\ g = f /\ f # F!None))
    BY DEF F!Returns, FormatsInv, FormatsTyped

\* A lookup that finds the format in the list.
LEMMA LookupFindsKeeps ==
    ASSUME FormatsInv, NEW t \in Threads, NEW a \in F!Asked, F!Listed(a) # F!None,
           F!Returns(t, a, F!Listed(a)), UNCHANGED <<fmts, contentTypes>>
    PROVE  FormatsInv'
<1>0. PICK f : f = F!Listed(a)
    OBVIOUS
<1>1. f \in F!Fmt /\ InList(f) /\ fmts[f].for = a
    BY <1>0, ListedIsInList DEF FormatsInv
<1>2. Complete(f, a)
    BY <1>1 DEF FormatsInv, ListIsUnique, InList, Complete
<1>3. F!Returns(t, a, f)
    BY <1>0
<1>4. FormatsTyped'
    BY <1>1, <1>3, ReturnsTyped DEF FormatsInv, FormatsTyped
<1>5. /\ uses'[t].at = "idle" /\ \A u \in Threads \ {t} : uses'[u] = uses[u]
      /\ \A b \in F!Asked : \A g \in returned'[b] :
            g \in F!Fmt /\ (g \in returned[b] \/ (b = a /\ g = f /\ f # F!None))
    <2>1. f \in F!Fmt \cup {F!None}
        BY <1>1
    <2> QED BY <1>3, <2>1, ReturnsTyped, ZenonT(60)
<1>6. OwnFormats'
    <2>1. \A u \in Threads : Loading(u)' => u # t /\ uses'[u] = uses[u] /\ Loading(u)
        BY <1>5 DEF Loading
    <2>2. ASSUME NEW u \in Threads, Loading(u)' PROVE OwnFormat(u)'
        <3>1. InList(uses[u].fmt)' => InList(uses[u].fmt)
            BY <2>1, <2>2 DEF InList
        <3> QED BY <2>1, <2>2, <3>1, OwnFormatStays
    <2> QED BY <2>1, <2>2 DEF FormatsInv, OwnFormats
<1>7. ListIsUnique'
    BY <1>1, <1>2, <1>5 DEF FormatsInv, ListIsUnique, InList, Complete
<1> QED BY <1>4, <1>6, <1>7 DEF FormatsInv

\* Format f, which nobody has, comes to serve a.
LEMMA UnusedIsNobodys ==
    ASSUME FormatsInv, NEW f \in F!Fmt, fmts[f].at = ""
    PROVE  /\ ~InList(f)
           /\ \A t \in Threads : uses[t].at # "idle" => uses[t].fmt # f
           /\ \A a \in F!Asked : f \notin returned[a]
<1>1. ~InList(f)
    BY DEF FormatsInv, ListIsUnique, InList, Complete
<1>2. ASSUME NEW t \in Threads, uses[t].at # "idle" PROVE uses[t].fmt # f
    BY <1>2 DEF FormatsInv, OwnFormats, Loading, OwnFormat
<1>3. \A a \in F!Asked : f \notin returned[a]
    BY DEF FormatsInv, ListIsUnique, Complete
<1> QED BY <1>1, <1>2, <1>3

LEMMA AppendsOne ==
    ASSUME FormatsTyped, NEW f \in F!Fmt, contentTypes' = Append(contentTypes, f)
    PROVE  /\ contentTypes' \in Seq(F!Fmt)
           /\ \A g \in F!Fmt : InList(g)' <=> InList(g) \/ g = f
<1>1. contentTypes \in Seq(F!Fmt)
    BY DEF FormatsTyped
<1>2. Len(contentTypes') = Len(contentTypes) + 1 /\ Len(contentTypes) \in Nat
    BY <1>1
<1>3. \A i \in 1..Len(contentTypes) + 1 :
          contentTypes'[i] = IF i = Len(contentTypes) + 1 THEN f ELSE contentTypes[i]
    BY <1>1
<1>4. contentTypes' \in Seq(F!Fmt)
    BY <1>1
<1> QED BY <1>2, <1>3, <1>4 DEF InList

\* A lookup of a format of corto itself that is not in the list.
LEMMA LookupMakesKeeps ==
    ASSUME FormatsInv, NEW t \in Threads, NEW a \in F!Asked, NEW f \in F!Fmt,
           fmts[f].at = "", F!Listed(a) = F!None,
           fmts' = [fmts EXCEPT ![f] = [for |-> a, at |-> "loaded"]],
           contentTypes' = Append(contentTypes, f), F!Returns(t, a, f)
    PROVE  FormatsInv'
<1>1. /\ ~InList(f) /\ \A u \in Threads : uses[u].at # "idle" => uses[u].fmt # f
      /\ \A b \in F!Asked : f \notin returned[b]
    BY UnusedIsNobodys
<1>2. /\ fmts' \in [F!Fmt -> [for: F!Asked \cup {""}, at: {"", "new", "loaded", "left"}]]
      /\ fmts'[f] = [for |-> a, at |-> "loaded"]
      /\ \A g \in F!Fmt : g # f => fmts'[g] = fmts[g]
    BY DEF FormatsInv, FormatsTyped
<1>3. /\ contentTypes' \in Seq(F!Fmt)
      /\ \A g \in F!Fmt : InList(g)' <=> InList(g) \/ g = f
    BY AppendsOne DEF FormatsInv
<1>4. FormatsTyped'
    BY <1>2, <1>3, ReturnsTyped DEF FormatsTyped
<1>8. /\ uses'[t].at = "idle" /\ \A u \in Threads \ {t} : uses'[u] = uses[u]
      /\ \A b \in F!Asked : \A g \in returned'[b] :
            g \in F!Fmt /\ (g \in returned[b] \/ (b = a /\ g = f /\ f # F!None))
    <2>1. f \in F!Fmt \cup {F!None}
        OBVIOUS
    <2> QED BY <2>1, ReturnsTyped
<1>5. OwnFormats'
    <2>1. \A u \in Threads : Loading(u)' =>
              /\ u # t /\ uses'[u] = uses[u] /\ Loading(u) /\ uses[u].fmt \in F!Fmt /\ uses[u].fmt # f
        BY <1>1, <1>8 DEF FormatsInv, OwnFormats, OwnFormat, Loading
    <2>2. ASSUME NEW u \in Threads, Loading(u)' PROVE OwnFormat(u)'
        <3>1. InList(uses[u].fmt)' => InList(uses[u].fmt)
            BY <1>3, <2>1, <2>2
        <3>2. fmts'[uses[u].fmt] = fmts[uses[u].fmt]
            BY <1>2, <2>1, <2>2
        <3> QED BY <2>1, <2>2, <3>1, <3>2, OwnFormatStays
    <2> QED BY <2>1, <2>2 DEF FormatsInv, OwnFormats
<1>6. \A g \in F!Fmt : InList(g) => fmts[g].for # a
    BY ListedIsInList DEF FormatsInv
<1>7. ListIsUnique'
    <2>1. \A g \in F!Fmt : InList(g)' => fmts'[g].for \in F!Asked /\ fmts'[g].at = "loaded"
        BY <1>2, <1>3 DEF FormatsInv, ListIsUnique
    <2>0. \A g \in F!Fmt : InList(g) => fmts'[g] = fmts[g]
        BY <1>1, <1>2
    <2>2. \A g, h \in F!Fmt : InList(g)' /\ InList(h)' /\ fmts'[g].for = fmts'[h].for => g = h
        <3> SUFFICES ASSUME NEW g \in F!Fmt, NEW h \in F!Fmt, InList(g)', InList(h)',
                            fmts'[g].for = fmts'[h].for
                     PROVE  g = h
            OBVIOUS
        <3>1. CASE InList(g) /\ InList(h)
            <4>1. fmts[g].for = fmts[h].for
                BY <2>0, <3>1
            <4> QED BY <3>1, <4>1 DEF FormatsInv, ListIsUnique
        <3>2. CASE g = f \/ h = f
            <4>1. fmts'[f].for = a
                BY <1>2
            <4> QED BY <1>3, <1>6, <2>0, <3>2, <4>1
        <3> QED BY <1>3, <3>1, <3>2
    <2>3. ASSUME NEW b \in F!Asked, NEW g \in returned'[b] PROVE Complete(g, b)' /\ InList(g)'
        <3>1. g \in F!Fmt /\ (g \in returned[b] \/ (b = a /\ g = f))
            BY <2>3, <1>8
        <3> QED BY <1>1, <1>2, <1>3, <3>1, ZenonT(60) DEF FormatsInv, ListIsUnique, Complete
    <2> QED BY <2>1, <2>2, <2>3 DEF ListIsUnique
<1> QED BY <1>4, <1>5, <1>7 DEF FormatsInv

\* A lookup that begins to load a package.
LEMMA LookupLoadsKeeps ==
    ASSUME FormatsInv, NEW t \in Threads, NEW a \in F!Asked, NEW f \in F!Fmt,
           uses[t].at = "idle", fmts[f].at = "",
           fmts' = [fmts EXCEPT ![f] = [for |-> a, at |-> "new"]],
           uses' = [uses EXCEPT ![t] = [asks |-> a, at |-> "load", fmt |-> f]],
           UNCHANGED <<contentTypes, returned>>
    PROVE  FormatsInv'
<1>1. /\ ~InList(f) /\ \A u \in Threads : uses[u].at # "idle" => uses[u].fmt # f
      /\ \A b \in F!Asked : f \notin returned[b]
    BY UnusedIsNobodys
<1>2. /\ fmts' \in [F!Fmt -> [for: F!Asked \cup {""}, at: {"", "new", "loaded", "left"}]]
      /\ fmts'[f] = [for |-> a, at |-> "new"]
      /\ \A g \in F!Fmt : g # f => fmts'[g] = fmts[g]
    BY DEF FormatsInv, FormatsTyped
<1>3. /\ uses' \in [Threads -> [asks: F!Asked \cup {""}, at: {"idle", "load", "add"},
                                fmt: F!Fmt \cup {F!None}]]
      /\ uses'[t] = [asks |-> a, at |-> "load", fmt |-> f]
      /\ \A u \in Threads \ {t} : uses'[u] = uses[u]
    BY DEF FormatsInv, FormatsTyped
<1>4. FormatsTyped'
    BY <1>2, <1>3 DEF FormatsInv, FormatsTyped
<1>5. OwnFormats'
    <2>1. OwnFormat(t)'
        BY <1>1, <1>2, <1>3, ZenonT(60) DEF OwnFormat, InList
    <2>2. \A u \in Threads : u # t /\ Loading(u)' =>
              /\ uses'[u] = uses[u] /\ Loading(u) /\ uses[u].fmt \in F!Fmt /\ uses[u].fmt # f
        BY <1>1, <1>3 DEF FormatsInv, OwnFormats, OwnFormat, Loading
    <2>3. ASSUME NEW u \in Threads, u # t, Loading(u)' PROVE OwnFormat(u)'
        <3>1. InList(uses[u].fmt)' => InList(uses[u].fmt)
            BY <2>2, <2>3 DEF InList
        <3>2. fmts'[uses[u].fmt] = fmts[uses[u].fmt]
            BY <1>2, <2>2, <2>3
        <3> QED BY <2>2, <2>3, <3>1, <3>2, OwnFormatStays
    <2>4. ASSUME NEW u \in Threads, NEW v \in Threads, Loading(u)', Loading(v)',
                 uses'[u].fmt = uses'[v].fmt
          PROVE  u = v
        BY <1>3, <2>2, <2>4 DEF FormatsInv, OwnFormats
    <2> QED BY <2>1, <2>3, <2>4 DEF OwnFormats
<1>6. \A g \in F!Fmt : InList(g)' = InList(g)
    BY DEF InList
<1>7. \A b \in F!Asked : \A g \in returned[b] : g \in F!Fmt
    BY DEF FormatsInv, FormatsTyped
<1>8. ListIsUnique'
    <2>0. \A g \in F!Fmt : InList(g) => fmts'[g] = fmts[g]
        BY <1>1, <1>2
    <2>1. \A g, h \in F!Fmt : InList(g)' /\ InList(h)' /\ fmts'[g].for = fmts'[h].for => g = h
        BY <1>6, <2>0, ZenonT(60) DEF FormatsInv, ListIsUnique
    <2>2. \A g \in F!Fmt : InList(g)' => fmts'[g].for \in F!Asked /\ fmts'[g].at = "loaded"
        BY <1>1, <1>2, <1>6 DEF FormatsInv, ListIsUnique
    <2>3. \A b \in F!Asked : \A g \in returned[b] : Complete(g, b)' /\ InList(g)'
        BY <1>1, <1>2, <1>6, <1>7 DEF FormatsInv, ListIsUnique, Complete
    <2> QED BY <2>1, <2>2, <2>3 DEF ListIsUnique
<1> QED BY <1>4, <1>5, <1>8 DEF FormatsInv

LEMMA LookupKeeps ==
    ASSUME FormatsInv, NEW t \in Threads, NEW a \in F!Asked, F!Lookup(t, a)
    PROVE  FormatsInv'
<1>1. CASE F!Listed(a) # F!None /\ F!Returns(t, a, F!Listed(a)) /\ UNCHANGED <<fmts, contentTypes>>
    BY <1>1, LookupFindsKeeps
<1>2. CASE ~(F!Listed(a) # F!None /\ F!Returns(t, a, F!Listed(a)) /\ UNCHANGED <<fmts, contentTypes>>)
    <2>0. F!Listed(a) = F!None /\ F!Unused # {} /\ uses[t].at = "idle"
        BY <1>2 DEF F!Lookup
    <2>1. PICK f \in F!Fmt : f = F!NewFmt /\ fmts[f].at = ""
        BY <2>0, NewFmtIsUnused DEF FormatsInv
    <2>2. CASE a \in F!BuiltIn
        <3>1. /\ fmts' = [fmts EXCEPT ![f] = [for |-> a, at |-> "loaded"]]
              /\ contentTypes' = Append(contentTypes, f) /\ F!Returns(t, a, f)
            BY <2>0, <2>1, <2>2 DEF F!Lookup
        <3> QED BY <2>0, <2>1, <3>1, LookupMakesKeeps
    <2>3. CASE a \notin F!BuiltIn
        <3>1. /\ fmts' = [fmts EXCEPT ![f] = [for |-> a, at |-> "new"]]
              /\ uses' = [uses EXCEPT ![t] = [asks |-> a, at |-> "load", fmt |-> f]]
              /\ UNCHANGED <<contentTypes, returned>>
            BY <2>0, <2>1, <2>3 DEF F!Lookup
        <3> QED BY <2>0, <2>1, <3>1, LookupLoadsKeeps
    <2> QED BY <2>2, <2>3
<1> QED BY <1>1, <1>2

\* The package is loaded, or something is missing.
LEMMA LoadKeeps ==
    ASSUME FormatsInv, NEW t \in Threads, F!Load(t)
    PROVE  FormatsInv'
<1>0. PICK f, a : f = uses[t].fmt /\ a = uses[t].asks
    OBVIOUS
<1>1. Loading(t) /\ uses[t].at = "load"
    BY DEF F!Load, Loading
<1>2. /\ a \in F!Asked /\ f \in F!Fmt /\ ~InList(f) /\ fmts[f].for = a /\ fmts[f].at = "new"
      /\ \A u \in Threads : u # t /\ Loading(u) => uses[u].fmt \in F!Fmt /\ uses[u].fmt # f
    BY <1>0, <1>1 DEF FormatsInv, OwnFormats, OwnFormat
<1>3. contentTypes' = contentTypes /\ \A g : InList(g)' = InList(g)
    BY DEF F!Load, InList
<1>4. \A b \in F!Asked : \A g \in returned[b] : g \in F!Fmt /\ InList(g) /\ g # f
    BY <1>2 DEF FormatsInv, FormatsTyped, ListIsUnique
\* The list is the same for formats that are in it.
<1>5. ASSUME NEW s \in {"loaded", "left"}, fmts' = [fmts EXCEPT ![f].at = s],
             \A b \in F!Asked : \A g \in returned'[b] : g \in returned[b]
      PROVE  ListIsUnique'
    <2>1. \A g \in F!Fmt : InList(g) => fmts'[g] = fmts[g]
        BY <1>2, <1>5 DEF FormatsInv, FormatsTyped
    <2>2. \A g, h \in F!Fmt : InList(g)' /\ InList(h)' /\ fmts'[g].for = fmts'[h].for => g = h
        BY <1>3, <2>1 DEF FormatsInv, ListIsUnique
    <2>3. \A g \in F!Fmt : InList(g)' => fmts'[g].for \in F!Asked /\ fmts'[g].at = "loaded"
        BY <1>3, <2>1 DEF FormatsInv, ListIsUnique
    <2>4. \A b \in F!Asked : \A g \in returned'[b] : Complete(g, b)' /\ InList(g)'
        BY <1>3, <1>4, <1>5, <2>1 DEF FormatsInv, ListIsUnique, Complete
    <2> QED BY <2>2, <2>3, <2>4 DEF ListIsUnique
<1>6. ASSUME NEW s \in {"loaded", "left"}, fmts' = [fmts EXCEPT ![f].at = s]
      PROVE  /\ fmts' \in [F!Fmt -> [for: F!Asked \cup {""}, at: {"", "new", "loaded", "left"}]]
             /\ fmts'[f].for = a /\ fmts'[f].at = s
             /\ \A g \in F!Fmt : g # f => fmts'[g] = fmts[g]
    BY <1>2, <1>6 DEF FormatsInv, FormatsTyped
<1>7. CASE F!Package(a) = "complete"
    <2>1. /\ fmts' = [fmts EXCEPT ![f].at = "loaded"]
          /\ uses' = [uses EXCEPT ![t].at = "add"] /\ returned' = returned
        BY <1>0, <1>7 DEF F!Load
    <2>2. /\ uses' \in [Threads -> [asks: F!Asked \cup {""}, at: {"idle", "load", "add"},
                                    fmt: F!Fmt \cup {F!None}]]
          /\ uses'[t].at = "add" /\ uses'[t].fmt = f /\ uses'[t].asks = a
          /\ \A u \in Threads \ {t} : uses'[u] = uses[u]
        BY <1>0, <2>1 DEF FormatsInv, FormatsTyped
    <2>3. FormatsTyped'
        BY <1>3, <1>6, <2>1, <2>2 DEF FormatsInv, FormatsTyped
    <2>4. ListIsUnique'
        BY <1>5, <2>1
    <2>5. OwnFormat(t)'
        <3>1. ~InList(uses[t].fmt)'
            BY <1>2, <1>3, <2>2
        <3> QED BY <1>2, <1>6, <2>1, <2>2, <3>1 DEF OwnFormat
    <2>6. \A u \in Threads : Loading(u)' => Loading(u) /\ uses'[u].fmt = uses[u].fmt
        BY <1>0, <1>1, <2>2 DEF Loading
    <2>7. ASSUME NEW u \in Threads, u # t, Loading(u)' PROVE OwnFormat(u)'
        <3>1. uses'[u] = uses[u] /\ fmts'[uses[u].fmt] = fmts[uses[u].fmt]
            BY <1>2, <1>6, <2>1, <2>2, <2>6, <2>7
        <3>2. InList(uses[u].fmt)' => InList(uses[u].fmt)
            BY <1>3, <3>1
        <3> QED BY <2>6, <2>7, <3>1, <3>2, OwnFormatStays
    <2>8. OwnFormats'
        BY <2>5, <2>6, <2>7 DEF FormatsInv, OwnFormats
    <2> QED BY <2>3, <2>4, <2>8 DEF FormatsInv
<1>8. CASE F!Package(a) # "complete"
    <2>1. fmts' = [fmts EXCEPT ![f].at = "left"] /\ F!Returns(t, a, F!None)
        BY <1>0, <1>8 DEF F!Load
    <2>2. /\ uses' \in [Threads -> [asks: F!Asked \cup {""}, at: {"idle", "load", "add"},
                                    fmt: F!Fmt \cup {F!None}]]
          /\ uses'[t].at = "idle" /\ \A u \in Threads \ {t} : uses'[u] = uses[u]
          /\ returned' \in [F!Asked -> SUBSET F!Fmt]
          /\ \A b \in F!Asked : \A g \in returned'[b] : g \in returned[b]
        <3>1. F!None \in F!Fmt \cup {F!None}
            OBVIOUS
        <3>2. a \in F!Asked
            BY <1>2
        <3> QED BY <2>1, <3>1, <3>2, ReturnsTyped
    <2>3. FormatsTyped'
        BY <1>3, <1>6, <2>1, <2>2 DEF FormatsInv, FormatsTyped
    <2>4. ListIsUnique'
        BY <1>5, <2>1, <2>2
    <2>6. \A u \in Threads : Loading(u)' => Loading(u) /\ u # t /\ uses'[u] = uses[u]
        BY <2>2 DEF Loading
    <2>7. ASSUME NEW u \in Threads, Loading(u)' PROVE OwnFormat(u)'
        <3>1. fmts'[uses[u].fmt] = fmts[uses[u].fmt]
            BY <1>2, <1>6, <2>1, <2>6, <2>7
        <3>2. InList(uses[u].fmt)' => InList(uses[u].fmt)
            BY <1>3, <2>6, <2>7
        <3> QED BY <2>6, <2>7, <3>1, <3>2, OwnFormatStays
    <2>8. OwnFormats'
        BY <2>6, <2>7 DEF FormatsInv, OwnFormats
    <2> QED BY <2>3, <2>4, <2>8 DEF FormatsInv
<1> QED BY <1>7, <1>8

\* A loaded format is added, or the one that another thread added is taken.
LEMMA AddKeeps ==
    ASSUME FormatsInv, NEW t \in Threads, F!Add(t)
    PROVE  FormatsInv'
<1>0. PICK f, a : f = uses[t].fmt /\ a = uses[t].asks
    OBVIOUS
<1>1. Loading(t) /\ uses[t].at = "add"
    BY DEF F!Add, Loading
<1>2. /\ a \in F!Asked /\ f \in F!Fmt /\ ~InList(f) /\ Complete(f, a)
      /\ \A u \in Threads : u # t /\ Loading(u) => uses[u].fmt \in F!Fmt /\ uses[u].fmt # f
    BY <1>0, <1>1 DEF FormatsInv, OwnFormats, OwnFormat, Complete
<1>4. \A b \in F!Asked : \A g \in returned[b] : g \in F!Fmt /\ InList(g) /\ g # f
    BY <1>2, ZenonT(60) DEF FormatsInv, FormatsTyped, ListIsUnique
<1>5. CASE F!Listed(a) = F!None
    <2>1. contentTypes' = Append(contentTypes, f) /\ F!Returns(t, a, f) /\ fmts' = fmts
        BY <1>0, <1>5 DEF F!Add
    <2>2. /\ uses' \in [Threads -> [asks: F!Asked \cup {""}, at: {"idle", "load", "add"},
                                    fmt: F!Fmt \cup {F!None}]]
          /\ uses'[t].at = "idle" /\ \A u \in Threads \ {t} : uses'[u] = uses[u]
          /\ returned' \in [F!Asked -> SUBSET F!Fmt]
          /\ \A b \in F!Asked : \A g \in returned'[b] : g \in returned[b] \/ (b = a /\ g = f)
        <3>1. f \in F!Fmt \cup {F!None}
            BY <1>2
        <3>2. a \in F!Asked
            BY <1>2
        <3> QED BY <2>1, <3>1, <3>2, ReturnsTyped
    <2>3. /\ contentTypes' \in Seq(F!Fmt)
          /\ \A g \in F!Fmt : InList(g)' <=> InList(g) \/ g = f
        BY <1>2, <2>1, AppendsOne DEF FormatsInv
    <2>4. FormatsTyped'
        BY <2>1, <2>2, <2>3 DEF FormatsInv, FormatsTyped
    <2>5. \A g \in F!Fmt : InList(g) => fmts[g].for # a
        BY <1>5, ListedIsInList DEF FormatsInv
    <2>6. ListIsUnique'
        <3>1. \A g, h \in F!Fmt : InList(g)' /\ InList(h)' /\ fmts'[g].for = fmts'[h].for => g = h
            BY <1>2, <2>1, <2>3, <2>5 DEF FormatsInv, ListIsUnique, Complete
        <3>2. \A g \in F!Fmt : InList(g)' => fmts'[g].for \in F!Asked /\ fmts'[g].at = "loaded"
            BY <1>2, <2>1, <2>3 DEF FormatsInv, ListIsUnique, Complete
        <3>3. \A b \in F!Asked : \A g \in returned'[b] : Complete(g, b)' /\ InList(g)'
            <4>1. \A b \in F!Asked : \A g \in returned[b] : Complete(g, b)
                BY DEF FormatsInv, ListIsUnique
            <4>2. \A b \in F!Asked : \A g \in returned'[b] :
                      (g \in F!Fmt /\ InList(g) /\ Complete(g, b)) \/ (b = a /\ g = f)
                BY <1>4, <2>2, <4>1
            <4>3. \A b \in F!Asked : \A g \in returned'[b] : g \in F!Fmt /\ Complete(g, b) /\ InList(g)'
                BY <1>2, <2>3, <4>2
            <4> QED BY <2>1, <4>3 DEF Complete
        <3> QED BY <3>1, <3>2, <3>3 DEF ListIsUnique
    <2>7. \A u \in Threads : Loading(u)' => Loading(u) /\ u # t /\ uses'[u] = uses[u]
        BY <2>2 DEF Loading
    <2>8. ASSUME NEW u \in Threads, Loading(u)' PROVE OwnFormat(u)'
        <3>1. fmts'[uses[u].fmt] = fmts[uses[u].fmt]
            BY <2>1
        <3>2. InList(uses[u].fmt)' => InList(uses[u].fmt)
            BY <1>2, <2>3, <2>7, <2>8
        <3> QED BY <2>7, <2>8, <3>1, <3>2, OwnFormatStays
    <2>9. OwnFormats'
        BY <2>7, <2>8 DEF FormatsInv, OwnFormats
    <2> QED BY <2>4, <2>6, <2>9 DEF FormatsInv
<1>6. CASE F!Listed(a) # F!None
    <2>0. PICK l : l = F!Listed(a)
        OBVIOUS
    <2>1. fmts' = [fmts EXCEPT ![f] = F!NoFmt] /\ F!Returns(t, a, l) /\ contentTypes' = contentTypes
        BY <1>0, <1>6, <2>0 DEF F!Add
    <2>2. l \in F!Fmt /\ InList(l) /\ fmts[l].for = a
        BY <1>6, <2>0, ListedIsInList DEF FormatsInv
    <2>3. /\ uses' \in [Threads -> [asks: F!Asked \cup {""}, at: {"idle", "load", "add"},
                                    fmt: F!Fmt \cup {F!None}]]
          /\ uses'[t].at = "idle" /\ \A u \in Threads \ {t} : uses'[u] = uses[u]
          /\ returned' \in [F!Asked -> SUBSET F!Fmt]
          /\ \A b \in F!Asked : \A g \in returned'[b] : g \in returned[b] \/ (b = a /\ g = l)
        <3>1. l \in F!Fmt \cup {F!None}
            BY <2>2
        <3>2. a \in F!Asked
            BY <1>2
        <3> QED BY <2>1, <3>1, <3>2, ReturnsTyped
    <2>4. /\ fmts' \in [F!Fmt -> [for: F!Asked \cup {""}, at: {"", "new", "loaded", "left"}]]
          /\ \A g \in F!Fmt : g # f => fmts'[g] = fmts[g]
        <3>1. F!NoFmt \in [for: F!Asked \cup {""}, at: {"", "new", "loaded", "left"}]
            BY DEF F!NoFmt
        <3> QED BY <1>2, <2>1, <3>1 DEF FormatsInv, FormatsTyped
    <2>5. \A g : InList(g)' = InList(g)
        BY <2>1 DEF InList
    <2>6. FormatsTyped'
        BY <2>1, <2>3, <2>4 DEF FormatsInv, FormatsTyped
    <2>7. ListIsUnique'
        <3>0. \A g \in F!Fmt : InList(g) => fmts'[g] = fmts[g]
            BY <1>2, <2>4
        <3>1. \A g, h \in F!Fmt : InList(g)' /\ InList(h)' /\ fmts'[g].for = fmts'[h].for => g = h
            BY <2>5, <3>0 DEF FormatsInv, ListIsUnique
        <3>2. \A g \in F!Fmt : InList(g)' => fmts'[g].for \in F!Asked /\ fmts'[g].at = "loaded"
            BY <2>5, <3>0 DEF FormatsInv, ListIsUnique
        <3>3. \A b \in F!Asked : \A g \in returned'[b] : Complete(g, b)' /\ InList(g)'
            <4>1. \A b \in F!Asked : \A g \in returned'[b] :
                      g \in F!Fmt /\ InList(g) /\ fmts[g].for = b /\ fmts[g].at = "loaded"
                <5>1. \A b \in F!Asked : \A g \in returned[b] : fmts[g].for = b /\ fmts[g].at = "loaded"
                    BY DEF FormatsInv, ListIsUnique, Complete
                <5>2. fmts[l].at = "loaded"
                    BY <2>2 DEF FormatsInv, ListIsUnique
                <5>3. ASSUME NEW b \in F!Asked, NEW g \in returned'[b]
                      PROVE  g \in F!Fmt /\ InList(g) /\ fmts[g].for = b /\ fmts[g].at = "loaded"
                    <6>1. CASE g \in returned[b]
                        BY <1>4, <5>1, <6>1
                    <6>2. CASE b = a /\ g = l
                        BY <2>2, <5>2, <6>2
                    <6> QED BY <2>3, <6>1, <6>2
                <5> QED BY <5>3
            <4> QED BY <2>5, <3>0, <4>1 DEF Complete
        <3> QED BY <3>1, <3>2, <3>3 DEF ListIsUnique
    <2>8. \A u \in Threads : Loading(u)' => Loading(u) /\ u # t /\ uses'[u] = uses[u]
        BY <2>3 DEF Loading
    <2>9. ASSUME NEW u \in Threads, Loading(u)' PROVE OwnFormat(u)'
        <3>1. fmts'[uses[u].fmt] = fmts[uses[u].fmt]
            BY <1>2, <2>4, <2>8, <2>9
        <3>2. InList(uses[u].fmt)' => InList(uses[u].fmt)
            BY <2>5, <2>8, <2>9
        <3> QED BY <2>8, <2>9, <3>1, <3>2, OwnFormatStays
    <2>10. OwnFormats'
        BY <2>8, <2>9 DEF FormatsInv, OwnFormats
    <2> QED BY <2>6, <2>7, <2>10 DEF FormatsInv
<1> QED BY <1>5, <1>6

LEMMA FormatsKept == FormatsInv /\ [F!Next]_F!vars => FormatsInv'
<1>1. ASSUME FormatsInv, F!Next PROVE FormatsInv'
    <2>1. PICK t \in Threads : (\E a \in F!Asked : F!Lookup(t, a)) \/ F!Load(t) \/ F!Add(t)
        BY <1>1 DEF F!Next
    <2> QED BY <1>1, <2>1, LookupKeeps, LoadKeeps, AddKeeps
<1>2. ASSUME FormatsInv, UNCHANGED F!vars PROVE FormatsInv'
    <2>1. fmts' = fmts /\ contentTypes' = contentTypes /\ uses' = uses /\ returned' = returned
        BY <1>2 DEF F!vars
    <2>2. FormatsTyped'
        BY <1>2, <2>1 DEF FormatsInv, FormatsTyped
    <2>3. OwnFormats'
        BY <1>2, <2>1, Zenon DEF FormatsInv, OwnFormats, OwnFormat, Loading, InList
    <2>4. ListIsUnique'
        BY <1>2, <2>1, ZenonT(60) DEF FormatsInv, ListIsUnique, InList, Complete
    <2> QED BY <2>2, <2>3, <2>4 DEF FormatsInv
<1> QED BY <1>1, <1>2

LEMMA SameCardinality == \A S : F!Cardinality(S) = Cardinality(S)
    BY DEF F!Cardinality, F!IsFiniteSet, Cardinality, IsFiniteSet

LEMMA FormatsImply == FormatsInv => F!OneOfEach
<1> SUFFICES ASSUME FormatsInv, NEW a \in F!Asked
             PROVE  /\ Cardinality(returned[a]) <= 1
                    /\ \A f \in returned[a] : /\ fmts[f] = [for |-> a, at |-> "loaded"]
                                              /\ F!Contains(contentTypes, f)
    BY SameCardinality, Zenon DEF F!OneOfEach
<1>1. \A f \in returned[a] : f \in F!Fmt /\ Complete(f, a) /\ InList(f)
    BY DEF FormatsInv, FormatsTyped, ListIsUnique
<1>2. \A f, g \in returned[a] : f = g
    BY <1>1 DEF FormatsInv, ListIsUnique, Complete
<1>3. Cardinality(returned[a]) <= 1
    <2>1. CASE returned[a] = {}
        BY <2>1, FS_EmptySet
    <2>2. CASE returned[a] # {}
        <3>1. PICK f : returned[a] = {f}
            BY <1>2, <2>2
        <3>2. Cardinality({f}) = 1
            BY FS_Singleton
        <3> QED BY <3>1, <3>2
    <2> QED BY <2>1, <2>2
<1>4. ASSUME NEW f \in returned[a]
      PROVE  fmts[f] = [for |-> a, at |-> "loaded"] /\ F!Contains(contentTypes, f)
    <2>1. fmts[f] \in [for: F!Asked \cup {""}, at: {"", "new", "loaded", "left"}]
        BY <1>1 DEF FormatsInv, FormatsTyped
    <2>2. fmts[f].for = a /\ fmts[f].at = "loaded"
        BY <1>1 DEF Complete
    <2>3. fmts[f] = [for |-> a, at |-> "loaded"]
        BY <2>1, <2>2
    <2> QED BY <1>1, <2>3 DEF InList, F!Contains
<1> QED BY <1>3, <1>4

\* All threads that ask for a format get the same one, complete and of the list, in whatever
\* order they load it (corto_fmt_lookup, which gives up its lock while it loads).
THEOREM FormatsAreShared == ServicesSpec => []OneOfEach
<1>1. ServicesInit => FormatsInv
    BY FormatsInit DEF ServicesInit
<1>2. FormatsInv /\ [ServicesNext]_services => FormatsInv'
    <2> SUFFICES ASSUME FormatsInv, [ServicesNext]_services PROVE FormatsInv'
        OBVIOUS
    <2>1. [F!Next]_F!vars
        BY DEF ServicesNext, services, formats, F!vars
    <2> QED BY <2>1, FormatsKept
<1>3. FormatsInv => OneOfEach
    BY FormatsImply DEF OneOfEach
<1> QED BY <1>1, <1>2, <1>3, PTL DEF ServicesSpec

(***************************************************************************)
(* Sequences                                                               *)
(***************************************************************************)
\* The last element is replaced, or dropped, or another one is appended.
LEMMA LastDropped ==
    ASSUME NEW S, NEW s \in Seq(S), s # <<>>
    PROVE  LET r == SubSeq(s, 1, Len(s) - 1)
           IN  /\ r \in Seq(S) /\ Len(r) = Len(s) - 1 /\ Len(s) \in Nat /\ Len(s) > 0
               /\ \A i \in 1..Len(s) - 1 : r[i] = s[i]
<1>1. Len(s) \in Nat /\ Len(s) > 0 /\ Len(s) - 1 \in Int /\ 1 \in Int
    OBVIOUS
<1>2. \A i \in 1..Len(s) - 1 : s[i] \in S
    BY <1>1
<1>3. /\ SubSeq(s, 1, Len(s) - 1) \in Seq(S)
      /\ Len(SubSeq(s, 1, Len(s) - 1)) = IF 1 <= Len(s) - 1 THEN Len(s) - 1 - 1 + 1 ELSE 0
      /\ \A i \in 1..Len(s) - 1 - 1 + 1 : SubSeq(s, 1, Len(s) - 1)[i] = s[1 + i - 1]
    BY <1>1, <1>2, SubSeqProperties
<1>4. PICK r : r = SubSeq(s, 1, Len(s) - 1)
    OBVIOUS
<1>5. r \in Seq(S) /\ Len(r) = Len(s) - 1
    <2>1. r \in Seq(S)
        BY <1>3, <1>4
    <2>2. Len(r) = IF 1 <= Len(s) - 1 THEN Len(s) - 1 - 1 + 1 ELSE 0
        BY <1>3, <1>4
    <2>3. PICK n : n = Len(s)
        OBVIOUS
    <2>4. n \in Nat /\ n > 0 /\ Len(r) = IF 1 <= n - 1 THEN n - 1 - 1 + 1 ELSE 0
        BY <1>1, <2>2, <2>3
    <2>5. Len(r) = n - 1
        BY <2>4
    <2> QED BY <2>1, <2>3, <2>5
<1>6. \A i \in 1..Len(s) - 1 : r[i] = s[i]
    BY <1>1, <1>3, <1>4
<1> QED BY <1>1, <1>4, <1>5, <1>6

LEMMA LastReplaced ==
    ASSUME NEW S, NEW s \in Seq(S), s # <<>>, NEW e \in S
    PROVE  LET r == Append(SubSeq(s, 1, Len(s) - 1), e)
           IN  /\ r \in Seq(S) /\ Len(r) = Len(s) /\ Len(s) \in Nat /\ Len(s) > 0
               /\ r[Len(s)] = e
               /\ \A i \in 1..Len(s) : i # Len(s) => r[i] = s[i]
<1>1. PICK r \in Seq(S) : r = SubSeq(s, 1, Len(s) - 1)
    BY LastDropped
<1>2. /\ Len(r) = Len(s) - 1 /\ Len(s) \in Nat /\ Len(s) > 0
      /\ \A i \in 1..Len(s) - 1 : r[i] = s[i]
    BY <1>1, LastDropped
<1>3. /\ Append(r, e) \in Seq(S) /\ Len(Append(r, e)) = Len(s) /\ Append(r, e)[Len(s)] = e
      /\ \A i \in 1..Len(s) - 1 : Append(r, e)[i] = s[i]
    BY <1>2
<1> QED BY <1>1, <1>2, <1>3

LEMMA OneAppended ==
    ASSUME NEW S, NEW s \in Seq(S), NEW e \in S
    PROVE  LET r == Append(s, e)
           IN  /\ r \in Seq(S) /\ Len(r) = Len(s) + 1 /\ Len(s) \in Nat
               /\ r[Len(s) + 1] = e /\ \A i \in 1..Len(s) : r[i] = s[i]
    OBVIOUS

(***************************************************************************)
(* Fluent                                                                  *)
(***************************************************************************)
FieldNames == {"from", "fromTime", "toNow", "instance"}
EndNames == {"", "iter", "count", "resume", "subscribe", "unsubscribe", "id", "callback", "mount"}
Requests == [mem: {"none", "live", "freed"}, kind: C!Kind, of: C!Chain \cup {C!None},
             fields: SUBSET FieldNames]
Chains == [id: C!Chain, kind: C!Kind, at: {"set", "declare", "evaluate"}, set: SUBSET FieldNames,
           end: EndNames, request: C!Chain \cup {C!None}]

FluentTyped ==
    /\ tls \in C!Chain \cup {C!None}
    /\ requests \in [C!Chain -> Requests]
    /\ chains \in Seq(Chains)
    /\ \A u \in used : u.id \in C!Chain

IsUsed(c) == \E u \in used : u.id = c
IsOpen(c) == \E i \in 1..Len(chains) : chains[i].id = c

\* Chains are numbered in the order in which they begin.
Numbered ==
    /\ C!Started \in Nat
    /\ \A c \in C!Chain : IsUsed(c) \/ IsOpen(c) => c <= C!Started
    /\ \A i, j \in 1..Len(chains) : chains[i].id = chains[j].id => i = j
    /\ \A i \in 1..Len(chains) : ~IsUsed(chains[i].id)

\* The request that chain k allocated is what k has set.
Own(k) == /\ requests[k.id].mem = "live" /\ requests[k.id].kind = k.kind
          /\ requests[k.id].of = k.id /\ requests[k.id].fields = k.set

\* Each chain has its own request, the innermost one has it in the variable of the thread
\* until it is taken out, and the chains around are being evaluated.
RequestsKept ==
    /\ \A i \in 1..Len(chains) :
          /\ Own(chains[i])
          /\ chains[i].at # "set" => chains[i].request = chains[i].id
          /\ chains[i].at = "declare" => chains[i].end = "mount"
          /\ i # Len(chains) => chains[i].at = "evaluate"
    /\ tls = IF chains # <<>> /\ chains[Len(chains)].at # "evaluate"
             THEN chains[Len(chains)].id ELSE C!None
    /\ \A c \in C!Chain : requests[c].mem = "live" =>
          IsOpen(c) \/ \E u \in used : u.id = c /\ u.fails

FluentInv == FluentTyped /\ Numbered /\ RequestsKept /\ C!EvaluatedAsWritten

\* What the MC instance says of the application: the init of a mount writes no chains, and a
\* chain does not call fromTime before toNow.
Restrained == MaxChains \in Nat /\ ~InitsWrite /\ ~TimeFirst

LEMMA FluentInit == C!Init => FluentInv
<1> SUFFICES ASSUME C!Init PROVE FluentInv
    OBVIOUS
<1>1. chains = <<>> /\ Len(chains) = 0 /\ 1..Len(chains) = {} /\ used = {} /\ tls = C!None
    BY DEF C!Init
<1>2. FluentTyped
    <2>1. requests \in [C!Chain -> Requests]
        BY DEF C!Init, C!NoRequest, Requests, C!Kind
    <2>2. chains \in Seq(Chains)
        BY <1>1
    <2> QED BY <1>1, <2>1, <2>2 DEF FluentTyped
<1>3. Numbered
    <2>1. {c \in C!Chain : \E u \in used : u.id = c} = {}
        BY <1>1
    <2>2. C!Cardinality({}) = 0
        BY FS_EmptySet DEF C!Cardinality, C!IsFiniteSet, Cardinality, IsFiniteSet
    <2>3. C!Started = 0
        BY <1>1, <2>1, <2>2, SMTT(30) DEF C!Started
    <2> QED BY <1>1, <2>3 DEF Numbered, IsUsed, IsOpen
<1>4. RequestsKept
    BY <1>1 DEF C!Init, C!NoRequest, RequestsKept
<1>5. C!EvaluatedAsWritten
    BY <1>1 DEF C!EvaluatedAsWritten
<1> QED BY <1>2, <1>3, <1>4, <1>5 DEF FluentInv

\* The number of chains so far.
LEMMA StartedIsUsedPlusOpen ==
    ASSUME MaxChains \in Nat, FluentTyped
    PROVE  /\ IsFiniteSet({c \in C!Chain : IsUsed(c)})
           /\ Cardinality({c \in C!Chain : IsUsed(c)}) \in Nat /\ Len(chains) \in Nat
           /\ C!Started = Cardinality({c \in C!Chain : IsUsed(c)}) + Len(chains)
           /\ \A S : C!Cardinality(S) = Cardinality(S)
<1>1. IsFiniteSet(C!Chain)
    BY FS_Interval DEF C!Chain
<1>2. {c \in C!Chain : IsUsed(c)} \subseteq C!Chain
    OBVIOUS
<1>3. IsFiniteSet({c \in C!Chain : IsUsed(c)})
    BY <1>1, <1>2, FS_Subset
<1>4. Cardinality({c \in C!Chain : IsUsed(c)}) \in Nat
    BY <1>3, FS_CardinalityType
<1>5. \A S : C!Cardinality(S) = Cardinality(S)
    BY DEF C!Cardinality, C!IsFiniteSet, Cardinality, IsFiniteSet
<1>6. C!Started = Cardinality({c \in C!Chain : IsUsed(c)}) + Len(chains)
    BY <1>5, Zenon DEF C!Started, IsUsed
<1>7. Len(chains) \in Nat
    BY DEF FluentTyped
<1> QED BY <1>3, <1>4, <1>5, <1>6, <1>7

\* The step replaces the innermost chain by k, which has the same number.
LEMMA TopReplaced ==
    ASSUME FluentInv, chains # <<>>, NEW k \in Chains, k.id = C!TopChain.id,
           C!Goes(k), used' = used
    PROVE  /\ chains' \in Seq(Chains) /\ chains' # <<>>
           /\ Len(chains) \in Nat /\ Len(chains) > 0 /\ Len(chains') = Len(chains)
           /\ chains'[Len(chains)] = k /\ chains[Len(chains)] = C!TopChain /\ C!TopChain \in Chains
           /\ \A i \in 1..Len(chains) : i # Len(chains) => chains'[i] = chains[i]
           /\ Numbered' /\ \A c \in C!Chain : IsOpen(c)' <=> IsOpen(c)
<1>1. chains \in Seq(Chains)
    BY DEF FluentInv, FluentTyped
<1>2. chains' = Append(SubSeq(chains, 1, Len(chains) - 1), k)
    BY DEF C!Goes, C!Front
<1>3. PICK s : s = chains
    OBVIOUS
<1>4. PICK r : r = Append(SubSeq(s, 1, Len(s) - 1), k)
    OBVIOUS
<1>5. /\ r \in Seq(Chains) /\ Len(r) = Len(s) /\ Len(s) \in Nat /\ Len(s) > 0
      /\ r[Len(s)] = k /\ \A i \in 1..Len(s) : i # Len(s) => r[i] = s[i]
    BY <1>1, <1>3, <1>4, LastReplaced
<1>6. chains' = r /\ r # <<>>
    BY <1>2, <1>3, <1>4, <1>5
<1>7. chains[Len(chains)] = C!TopChain /\ C!TopChain \in Chains
    BY <1>1, <1>3, <1>5 DEF C!TopChain
<1>8. \A i \in 1..Len(chains) : chains'[i].id = chains[i].id
    BY <1>3, <1>5, <1>6, <1>7
<1>9. \A c : IsOpen(c)' <=> IsOpen(c)
    BY <1>3, <1>5, <1>6, <1>8 DEF IsOpen
<1>10. C!Started' = C!Started
    BY <1>3, <1>5, <1>6 DEF C!Started
<1>11. Numbered'
    <2>1. \A c \in C!Chain : IsUsed(c)' <=> IsUsed(c)
        BY DEF IsUsed
    <2>2. \A i \in 1..Len(chains') : ~IsUsed(chains[i].id)'
        <3>1. \A i \in 1..Len(chains) : ~IsUsed(chains[i].id)
            BY DEF FluentInv, Numbered
        <3>2. \A i \in 1..Len(chains) : \A u \in used : u.id # chains'[i].id
            BY <1>8, <3>1 DEF IsUsed
        <3> QED BY <1>3, <1>5, <1>6, <3>2 DEF IsUsed
    <2>3. \A i, j \in 1..Len(chains') : chains'[i].id = chains'[j].id => i = j
        BY <1>3, <1>5, <1>6, <1>8 DEF FluentInv, Numbered
    <2> QED BY <1>9, <1>10, <2>1, <2>2, <2>3 DEF FluentInv, Numbered
<1> QED BY <1>3, <1>5, <1>6, <1>7, <1>9, <1>11

\* A chain begins.
LEMMA BeginKeeps ==
    ASSUME Restrained, FluentInv, NEW k \in C!Kind, C!Begin(k)
    PROVE  FluentInv'
<1>0. PICK n : n = Len(chains)
    OBVIOUS
<1>1. n \in Nat /\ chains \in Seq(Chains) /\ \A i \in 1..n : chains[i] \in Chains
    BY <1>0 DEF FluentInv, FluentTyped
<1>2. PICK c : c = C!Started + 1
    OBVIOUS
<1>3. c \in C!Chain /\ c # C!None /\ ~IsUsed(c) /\ ~IsOpen(c)
    <2>1. C!Started \in Nat /\ C!Started < MaxChains
        BY DEF C!Begin, FluentInv, Numbered
    <2>2. c \in C!Chain /\ c # C!None
        BY <1>2, <2>1 DEF Restrained, C!Chain, C!None
    <2> QED BY <1>2, <2>1, <2>2 DEF FluentInv, Numbered, C!Chain
<1>4. tls = C!None /\ (n > 0 => chains[n].at = "evaluate")
    <2>1. CASE chains = <<>>
        BY <1>0, <2>1 DEF FluentInv, RequestsKept
    <2>2. CASE chains # <<>>
        <3>1. n > 0 /\ n \in 1..n /\ chains[n] \in Chains
            BY <1>0, <1>1, <2>2
        <3>2. chains[n].at = "evaluate" \/ (chains[n].at = "declare" /\ chains[n].end # "mount")
            BY <1>0, <2>2 DEF C!Begin, C!TopChain, Restrained
        <3>3. chains[n].at = "evaluate"
            BY <1>0, <3>1, <3>2 DEF FluentInv, RequestsKept
        <3> QED BY <1>0, <3>3 DEF FluentInv, RequestsKept
    <2> QED BY <2>1, <2>2
<1>5. /\ chains' = Append(chains, C!Open(c, k)) /\ tls' = c /\ used' = used
      /\ requests' = [requests EXCEPT ![c] = [mem |-> "live", kind |-> k, of |-> c, fields |-> {}]]
    BY <1>2, <1>4 DEF C!Begin
<1>6. C!Open(c, k) \in Chains /\ C!Open(c, k).id = c /\ C!Open(c, k).at = "set"
      /\ C!Open(c, k).kind = k /\ C!Open(c, k).set = {}
    <2>1. c \in C!Chain
        BY <1>3
    <2>2. C!Open(c, k) \in Chains
        BY <2>1 DEF C!Open, Chains, EndNames
    <2> QED BY <2>2 DEF C!Open
<1>7. PICK o \in Chains : o = C!Open(c, k)
    BY <1>6
<1>8. /\ chains' \in Seq(Chains) /\ Len(chains') = n + 1 /\ chains'[n + 1] = o
      /\ \A i \in 1..n : chains'[i] = chains[i]
    BY <1>0, <1>1, <1>5, <1>7
<1>9. /\ requests' \in [C!Chain -> Requests]
      /\ requests'[c].mem = "live" /\ requests'[c].kind = k /\ requests'[c].of = c
      /\ requests'[c].fields = {}
      /\ \A d \in C!Chain : d # c => requests'[d] = requests[d]
    <2>1. [mem |-> "live", kind |-> k, of |-> c, fields |-> {}] \in Requests
        BY <1>3 DEF Requests
    <2>2. requests \in [C!Chain -> Requests]
        BY DEF FluentInv, FluentTyped
    <2> QED BY <1>3, <1>5, <2>1, <2>2
<1>10. FluentTyped'
    BY <1>3, <1>5, <1>8, <1>9 DEF FluentInv, FluentTyped
<1>11. \A d : IsOpen(d)' <=> IsOpen(d) \/ d = c
    <2>1. o.id = c
        BY <1>6, <1>7
    <2> QED BY <1>0, <1>1, <1>8, <2>1 DEF IsOpen
<1>12. \A d : IsUsed(d)' <=> IsUsed(d)
    BY <1>5 DEF IsUsed
<1>13. Numbered'
    <2>1. C!Started' = C!Started + 1
        <3>1. PICK m : m = C!Cardinality({d \in C!Chain : \E u \in used : u.id = d})
            OBVIOUS
        <3>2. C!Started = m + Len(chains) /\ C!Started' = m + Len(chains')
            BY <1>5, <3>1 DEF C!Started
        <3>3. m \in Nat
            BY <3>1, StartedIsUsedPlusOpen DEF FluentInv, Restrained, IsUsed
        <3> QED BY <1>0, <1>1, <1>8, <3>2, <3>3
    <2>2. C!Started \in Nat /\ \A d \in C!Chain : d \in Int
        BY DEF FluentInv, Numbered, C!Chain
    <2>3. \A d \in C!Chain : IsUsed(d)' \/ IsOpen(d)' => d <= C!Started'
        BY <1>2, <1>11, <1>12, <2>1, <2>2 DEF FluentInv, Numbered
    <2>4. o.id = c /\ \A i \in 1..n : chains[i].id # c
        BY <1>0, <1>3, <1>6, <1>7 DEF IsOpen
    <2>5. \A i, j \in 1..n : chains[i].id = chains[j].id => i = j
        BY <1>0 DEF FluentInv, Numbered
    <2>6. \A i, j \in 1..n + 1 : chains'[i].id = chains'[j].id => i = j
        BY <1>1, <1>8, <2>4, <2>5
    <2>7. \A i \in 1..n : ~IsUsed(chains[i].id)
        BY <1>0 DEF FluentInv, Numbered
    <2>8. \A i \in 1..n + 1 : \A u \in used : u.id # chains'[i].id
        BY <1>1, <1>3, <1>8, <2>4, <2>7 DEF IsUsed
    <2> QED BY <1>5, <1>8, <2>1, <2>2, <2>3, <2>6, <2>8 DEF Numbered, IsUsed
<1>14. RequestsKept'
    <2>1. ASSUME NEW i \in 1..n
          PROVE  /\ chains'[i] = chains[i] /\ chains[i].at = "evaluate" /\ chains[i].request = chains[i].id
                 /\ chains[i].id \in C!Chain /\ requests'[chains[i].id] = requests[chains[i].id]
                 /\ Own(chains[i])
        <3>1. chains[i].at = "evaluate"
            BY <1>0, <1>1, <1>4 DEF FluentInv, RequestsKept
        <3>2. chains[i].id \in C!Chain
            BY <1>1 DEF Chains
        <3>3. chains[i].id # c
            BY <1>0, <1>3 DEF IsOpen
        <3> QED BY <1>0, <1>8, <1>9, <3>1, <3>2, <3>3 DEF FluentInv, RequestsKept
    <2>2. o.id = c /\ o.at = "set" /\ o.kind = k /\ o.set = {}
        BY <1>6, <1>7
    <2>3. \A i \in 1..n + 1 :
              /\ Own(chains[i])'
              /\ chains'[i].at # "set" => chains'[i].request = chains'[i].id
              /\ chains'[i].at = "declare" => chains'[i].end = "mount"
              /\ i # n + 1 => chains'[i].at = "evaluate"
        <3>1. ASSUME NEW i \in 1..n
              PROVE  Own(chains[i])'
            BY <2>1 DEF Own
        <3>2. Own(chains[n + 1])'
            BY <1>8, <1>9, <2>2 DEF Own
        <3> QED BY <1>1, <1>8, <2>1, <2>2, <3>1, <3>2
    <2>4. tls' = IF chains' # <<>> /\ chains'[Len(chains')].at # "evaluate"
                 THEN chains'[Len(chains')].id ELSE C!None
        <3>1. chains' # <<>> /\ chains'[Len(chains')] = o
            BY <1>1, <1>8
        <3> QED BY <1>5, <2>2, <3>1
    <2>5. \A d \in C!Chain : requests'[d].mem = "live" =>
              IsOpen(d)' \/ \E u \in used : u.id = d /\ u.fails
        BY <1>9, <1>11 DEF FluentInv, RequestsKept
    <2> QED BY <1>5, <1>8, <2>3, <2>4, <2>5 DEF RequestsKept
<1>15. C!EvaluatedAsWritten'
    BY <1>5 DEF FluentInv, C!EvaluatedAsWritten
<1> QED BY <1>10, <1>13, <1>14, <1>15 DEF FluentInv

\* The innermost chain sets a field.
LEMMA SetKeeps ==
    ASSUME Restrained, FluentInv, NEW f \in FieldNames, C!Set(f)
    PROVE  FluentInv'
<1>0. PICK n : n = Len(chains)
    OBVIOUS
<1>1. n \in Nat /\ n > 0 /\ n \in 1..n /\ chains # <<>> /\ \A i \in 1..n : chains[i] \in Chains
    BY <1>0 DEF FluentInv, FluentTyped, C!Set
<1>2. PICK c \in Chains : c = C!TopChain /\ c = chains[n]
    BY <1>0, <1>1 DEF C!TopChain
<1>3. c.at = "set" /\ tls = c.id /\ c.id \in C!Chain /\ tls # C!None /\ Own(c)
    <2>1. c.at = "set" /\ c.id \in C!Chain
        BY <1>2 DEF C!Set, Chains
    <2>2. c.id # C!None
        BY <2>1 DEF C!Chain, C!None
    <2> QED BY <1>0, <1>1, <1>2, <2>1, <2>2 DEF FluentInv, RequestsKept
<1>4. PICK k : k = [c EXCEPT !.set = @ \cup {f}]
    OBVIOUS
<1>5. k \in Chains /\ k.id = c.id /\ k.kind = c.kind /\ k.at = "set" /\ k.set = c.set \cup {f}
    BY <1>2, <1>3, <1>4 DEF Chains
<1>6. C!Goes(k) /\ used' = used /\ tls' = tls
      /\ requests' = [requests EXCEPT ![c.id].fields = C!SetField(@, f)]
    BY <1>2, <1>3, <1>4 DEF C!Set
<1>7. C!SetField(c.set, f) = c.set \cup {f}
    <2>1. f = "toNow" => "fromTime" \notin c.set
        BY <1>2 DEF C!Set, Restrained
    <2> QED BY <2>1 DEF C!SetField
<1>8. /\ chains' \in Seq(Chains) /\ chains' # <<>> /\ Len(chains') = n /\ chains'[n] = k
      /\ \A i \in 1..n : i # n => chains'[i] = chains[i]
      /\ Numbered' /\ \A d \in C!Chain : IsOpen(d)' <=> IsOpen(d)
    BY <1>0, <1>1, <1>2, <1>5, <1>6, TopReplaced
<1>9. /\ requests' \in [C!Chain -> Requests]
      /\ requests'[c.id].mem = requests[c.id].mem /\ requests'[c.id].kind = requests[c.id].kind
      /\ requests'[c.id].of = requests[c.id].of /\ requests'[c.id].fields = k.set
      /\ \A d \in C!Chain : d # c.id => requests'[d] = requests[d]
    <2>1. requests \in [C!Chain -> Requests]
        BY DEF FluentInv, FluentTyped
    <2>2. requests[c.id] \in Requests /\ requests[c.id].fields = c.set
        BY <1>3, <2>1 DEF Own
    <2>3. PICK q : q = [requests[c.id] EXCEPT !.fields = C!SetField(@, f)]
        OBVIOUS
    <2>4. q \in Requests /\ q.mem = requests[c.id].mem /\ q.kind = requests[c.id].kind
          /\ q.of = requests[c.id].of /\ q.fields = k.set
        <3>1. C!SetField(requests[c.id].fields, f) = k.set
            BY <1>5, <1>7, <2>2
        <3>2. k.set \in SUBSET FieldNames
            BY <1>5 DEF Chains
        <3> QED BY <2>2, <2>3, <3>1, <3>2 DEF Requests
    <2>5. requests' = [requests EXCEPT ![c.id] = q]
        BY <1>3, <1>6, <2>1, <2>3
    <2> QED BY <1>3, <2>1, <2>4, <2>5
<1>10. FluentTyped'
    BY <1>6, <1>8, <1>9 DEF FluentInv, FluentTyped
<1>11. RequestsKept'
    <2>1. ASSUME NEW i \in 1..n, i # n
          PROVE  /\ Own(chains[i])'
                 /\ chains'[i].at = "evaluate" /\ chains'[i].request = chains'[i].id
        <3>1. Own(chains[i]) /\ chains[i].at = "evaluate" /\ chains[i].request = chains[i].id
            BY <1>0, <2>1 DEF FluentInv, RequestsKept
        <3>2. chains[i].id \in C!Chain /\ chains[i].id # c.id
            BY <1>0, <1>1, <1>2, <2>1 DEF FluentInv, Numbered, Chains
        <3>3. chains'[i] = chains[i] /\ requests'[chains[i].id] = requests[chains[i].id]
            BY <1>8, <1>9, <2>1, <3>2
        <3> QED BY <3>1, <3>3 DEF Own
    <2>2. Own(chains[n])'
        BY <1>3, <1>5, <1>8, <1>9 DEF Own
    <2>3. \A i \in 1..Len(chains') :
              /\ Own(chains[i])'
              /\ chains'[i].at # "set" => chains'[i].request = chains'[i].id
              /\ chains'[i].at = "declare" => chains'[i].end = "mount"
              /\ i # Len(chains') => chains'[i].at = "evaluate"
        BY <1>5, <1>8, <2>1, <2>2
    <2>4. tls' = IF chains' # <<>> /\ chains'[Len(chains')].at # "evaluate"
                 THEN chains'[Len(chains')].id ELSE C!None
        BY <1>3, <1>5, <1>6, <1>8
    <2>5. \A d \in C!Chain : requests'[d].mem = "live" =>
              IsOpen(d)' \/ \E u \in used : u.id = d /\ u.fails
        BY <1>8, <1>9 DEF FluentInv, RequestsKept
    <2> QED BY <1>6, <2>3, <2>4, <2>5 DEF RequestsKept
<1>12. C!EvaluatedAsWritten'
    BY <1>6 DEF FluentInv, C!EvaluatedAsWritten
<1> QED BY <1>8, <1>10, <1>11, <1>12 DEF FluentInv

\* The innermost chain goes on with the same request: its last call begins, or the mount that
\* it ends with is declared.
LEMMA GoesOnKeeps ==
    ASSUME Restrained, FluentInv, chains # <<>>, C!TopChain.at # "evaluate",
           NEW k \in Chains, k.id = C!TopChain.id, k.kind = C!TopChain.kind, k.set = C!TopChain.set,
           k.at # "set", k.request = k.id, k.at = "declare" => k.end = "mount",
           C!Goes(k), tls' = (IF k.at = "evaluate" THEN C!None ELSE tls), UNCHANGED <<requests, used>>
    PROVE  FluentInv'
<1>0. PICK n : n = Len(chains)
    OBVIOUS
<1>1. n \in Nat /\ n > 0 /\ n \in 1..n /\ \A i \in 1..n : chains[i] \in Chains
    BY <1>0 DEF FluentInv, FluentTyped
<1>2. PICK c \in Chains : c = C!TopChain /\ c = chains[n]
    BY <1>0, <1>1 DEF C!TopChain
<1>3. tls = c.id /\ Own(c) /\ c.id \in C!Chain
    BY <1>0, <1>1, <1>2 DEF FluentInv, RequestsKept, Chains
<1>4. k.id = c.id /\ k.kind = c.kind /\ k.set = c.set
    BY <1>2
<1>5. /\ chains' \in Seq(Chains) /\ chains' # <<>> /\ Len(chains') = n /\ chains'[n] = k
      /\ \A i \in 1..n : i # n => chains'[i] = chains[i]
      /\ Numbered' /\ \A d \in C!Chain : IsOpen(d)' <=> IsOpen(d)
    BY <1>0, TopReplaced
<1>6. FluentTyped'
    BY <1>5 DEF FluentInv, FluentTyped
<1>7. RequestsKept'
    <2>1. ASSUME NEW i \in 1..n, i # n
          PROVE  /\ Own(chains[i])'
                 /\ chains'[i].at = "evaluate" /\ chains'[i].request = chains'[i].id
        <3>1. Own(chains[i]) /\ chains[i].at = "evaluate" /\ chains[i].request = chains[i].id
            BY <1>0, <2>1 DEF FluentInv, RequestsKept
        <3> QED BY <1>5, <2>1, <3>1 DEF Own
    <2>2. Own(chains[n])'
        BY <1>3, <1>4, <1>5 DEF Own
    <2>3. \A i \in 1..Len(chains') :
              /\ Own(chains[i])'
              /\ chains'[i].at # "set" => chains'[i].request = chains'[i].id
              /\ chains'[i].at = "declare" => chains'[i].end = "mount"
              /\ i # Len(chains') => chains'[i].at = "evaluate"
        BY <1>5, <2>1, <2>2
    <2>4. tls' = IF chains' # <<>> /\ chains'[Len(chains')].at # "evaluate"
                 THEN chains'[Len(chains')].id ELSE C!None
        BY <1>3, <1>4, <1>5
    <2>5. \A d \in C!Chain : requests'[d].mem = "live" =>
              IsOpen(d)' \/ \E u \in used : u.id = d /\ u.fails
        BY <1>5 DEF FluentInv, RequestsKept
    <2> QED BY <2>3, <2>4, <2>5 DEF RequestsKept
<1>8. C!EvaluatedAsWritten'
    BY DEF FluentInv, C!EvaluatedAsWritten
<1> QED BY <1>5, <1>6, <1>7, <1>8 DEF FluentInv

LEMMA EndKeeps ==
    ASSUME Restrained, FluentInv, NEW e \in EndNames, C!End(e)
    PROVE  FluentInv'
<1>0. PICK n : n = Len(chains)
    OBVIOUS
<1>1. n \in Nat /\ n > 0 /\ n \in 1..n /\ chains # <<>> /\ \A i \in 1..n : chains[i] \in Chains
    BY <1>0 DEF FluentInv, FluentTyped, C!End
<1>2. PICK c \in Chains : c = C!TopChain /\ c = chains[n]
    BY <1>0, <1>1 DEF C!TopChain
<1>3. c.at = "set" /\ tls = c.id /\ c.id \in C!Chain
    <2>1. c.at = "set" /\ c.id \in C!Chain
        BY <1>2 DEF C!End, Chains
    <2> QED BY <1>0, <1>1, <1>2, <2>1 DEF FluentInv, RequestsKept
<1>4. PICK at : at = IF C!TakesFirst(e) THEN "evaluate" ELSE "declare"
    OBVIOUS
<1>5. PICK k : k = [c EXCEPT !.at = at, !.end = e, !.request = tls]
    OBVIOUS
<1>6. at \in {"declare", "evaluate"} /\ (at = "declare" => e = "mount")
    BY <1>4 DEF C!TakesFirst
<1>7. k \in Chains /\ k.id = c.id /\ k.kind = c.kind /\ k.set = c.set /\ k.at = at
      /\ k.request = c.id /\ k.end = e
    BY <1>2, <1>3, <1>5, <1>6 DEF Chains
<1>8. C!Goes(k)
    BY <1>2, <1>4, <1>5 DEF C!End
<1>9. tls' = (IF k.at = "evaluate" THEN C!None ELSE tls)
    BY <1>4, <1>7 DEF C!End
<1>10. UNCHANGED <<requests, used>>
    BY DEF C!End
<1> QED BY <1>1, <1>2, <1>3, <1>6, <1>7, <1>8, <1>9, <1>10, GoesOnKeeps

LEMMA DeclaredKeeps ==
    ASSUME Restrained, FluentInv, C!Declared
    PROVE  FluentInv'
<1>0. PICK n : n = Len(chains)
    OBVIOUS
<1>1. n \in Nat /\ n > 0 /\ n \in 1..n /\ chains # <<>> /\ \A i \in 1..n : chains[i] \in Chains
    BY <1>0 DEF FluentInv, FluentTyped, C!Declared
<1>2. PICK c \in Chains : c = C!TopChain /\ c = chains[n]
    BY <1>0, <1>1 DEF C!TopChain
<1>3. c.at = "declare" /\ c.request = c.id
    <2>1. c.at = "declare"
        BY <1>2 DEF C!Declared
    <2> QED BY <1>0, <1>1, <1>2, <2>1 DEF FluentInv, RequestsKept
<1>4. PICK k : k = [c EXCEPT !.at = "evaluate"]
    OBVIOUS
<1>5. k \in Chains /\ k.id = c.id /\ k.kind = c.kind /\ k.set = c.set /\ k.at = "evaluate"
      /\ k.request = c.id
    BY <1>2, <1>3, <1>4 DEF Chains
<1>6. C!Goes(k) /\ tls' = C!None /\ UNCHANGED <<requests, used>>
    BY <1>2, <1>4 DEF C!Declared
<1> QED BY <1>1, <1>2, <1>3, <1>5, <1>6, GoesOnKeeps

\* The innermost chain ends.
LEMMA EvaluatedKeeps ==
    ASSUME Restrained, FluentInv, NEW b \in BOOLEAN, C!Evaluated(b)
    PROVE  FluentInv'
<1>0. PICK s : s = chains
    OBVIOUS
<1>1. PICK n : n = Len(chains)
    OBVIOUS
<1>2. s \in Seq(Chains) /\ n \in Nat /\ n > 0 /\ n \in 1..n /\ s # <<>> /\ \A i \in 1..n : s[i] \in Chains
    BY <1>0, <1>1 DEF FluentInv, FluentTyped, C!Evaluated
<1>3. PICK c \in Chains : c = C!TopChain /\ c = s[n]
    BY <1>0, <1>1, <1>2 DEF C!TopChain
<1>4. c.at = "evaluate" /\ c.request = c.id /\ Own(c) /\ tls = C!None
      /\ c.id \in C!Chain /\ c.id # C!None
    <2>1. c.at = "evaluate" /\ c.id \in C!Chain
        BY <1>3 DEF C!Evaluated, Chains
    <2>2. c.id # C!None
        BY <2>1 DEF C!Chain, C!None
    <2> QED BY <1>0, <1>1, <1>2, <1>3, <2>1, <2>2 DEF FluentInv, RequestsKept
<1>5. PICK u : u = [id |-> c.id, kind |-> c.kind, set |-> c.set, fails |-> b, with |-> requests[c.id]]
    OBVIOUS
<1>6. u.id = c.id /\ u.fails = b /\ u.with = requests[c.id] /\ u.kind = c.kind /\ u.set = c.set
    BY <1>5
<1>7. /\ used' = used \cup {u} /\ tls' = tls
      /\ requests' = IF b THEN requests ELSE [requests EXCEPT ![c.id].mem = "freed"]
    BY <1>3, <1>4, <1>5 DEF C!Evaluated, C!FreesRequest
<1>8. PICK r : r = SubSeq(s, 1, Len(s) - 1)
    OBVIOUS
<1>9. r \in Seq(Chains) /\ Len(r) = n - 1 /\ \A i \in 1..n - 1 : r[i] = s[i]
    BY <1>0, <1>1, <1>2, <1>8, LastDropped
<1>10. chains' = r
    BY <1>0, <1>8 DEF C!Evaluated, C!Front
<1>11. /\ requests' \in [C!Chain -> Requests] /\ (~b => requests'[c.id].mem = "freed")
       /\ \A d \in C!Chain : d # c.id => requests'[d] = requests[d]
    <2>1. requests \in [C!Chain -> Requests]
        BY DEF FluentInv, FluentTyped
    <2>2. CASE b
        BY <1>7, <2>1, <2>2
    <2>3. CASE ~b
        <3>1. PICK q : q = [requests[c.id] EXCEPT !.mem = "freed"]
            OBVIOUS
        <3>2. q \in Requests /\ q.mem = "freed"
            BY <1>4, <2>1, <3>1 DEF Requests
        <3>3. requests' = [requests EXCEPT ![c.id] = q]
            BY <1>4, <1>7, <2>1, <2>3, <3>1
        <3> QED BY <1>4, <2>1, <3>2, <3>3
    <2> QED BY <2>2, <2>3
<1>12. FluentTyped'
    BY <1>4, <1>6, <1>7, <1>9, <1>10, <1>11 DEF FluentInv, FluentTyped
<1>13. \A d : IsUsed(d)' <=> IsUsed(d) \/ d = c.id
    BY <1>6, <1>7 DEF IsUsed
<1>14. \A i, j \in 1..n : s[i].id = s[j].id => i = j
    BY <1>0, <1>1 DEF FluentInv, Numbered
<1>15. \A d : IsOpen(d)' <=> IsOpen(d) /\ d # c.id
    <2>1. \A d : IsOpen(d)' <=> \E i \in 1..n - 1 : s[i].id = d
        BY <1>2, <1>9, <1>10 DEF IsOpen
    <2>2. \A d : IsOpen(d) <=> \E i \in 1..n : s[i].id = d
        BY <1>0, <1>1 DEF IsOpen
    <2>3. \A i \in 1..n - 1 : i \in 1..n /\ i # n
        BY <1>2
    <2>4. \A i \in 1..n : i \in 1..n - 1 \/ i = n
        BY <1>2
    <2> QED BY <1>2, <1>3, <1>14, <2>1, <2>2, <2>3, <2>4
<1>16. Numbered'
    <2>1. C!Started' = C!Started
        <3>1. PICK S : S = {d \in C!Chain : IsUsed(d)}
            OBVIOUS
        <3>2. {d \in C!Chain : IsUsed(d)'} = S \cup {c.id}
            BY <1>4, <1>13, <3>1
        <3>3. c.id \notin S
            <4>1. ~IsUsed(c.id)
                BY <1>0, <1>1, <1>2, <1>3 DEF FluentInv, Numbered
            <4> QED BY <3>1, <4>1
        <3>4. IsFiniteSet(S) /\ Cardinality(S) \in Nat /\ C!Started = Cardinality(S) + n
              /\ \A T : C!Cardinality(T) = Cardinality(T)
            BY <1>1, <3>1, StartedIsUsedPlusOpen DEF FluentInv, Restrained
        <3>5. Cardinality(S \cup {c.id}) = Cardinality(S) + 1
            BY <3>3, <3>4, FS_AddElement
        <3>6. C!Started' = Cardinality(S \cup {c.id}) + Len(r)
            <4>1. {d \in C!Chain : \E v \in used' : v.id = d} = S \cup {c.id}
                BY <3>2 DEF IsUsed
            <4> QED BY <1>10, <3>4, <4>1 DEF C!Started
        <3> QED BY <1>2, <1>9, <3>4, <3>5, <3>6
    <2>2. \A d \in C!Chain : IsUsed(d)' \/ IsOpen(d)' => IsUsed(d) \/ IsOpen(d)
        <3>1. IsOpen(c.id)
            BY <1>0, <1>1, <1>2, <1>3 DEF IsOpen
        <3> QED BY <1>13, <1>15, <3>1
    <2>3. \A i \in 1..n - 1 : i \in 1..n /\ i # n /\ r[i] = s[i]
        BY <1>2, <1>9
    <2>4. \A i, j \in 1..n - 1 : r[i].id = r[j].id => i = j
        BY <1>14, <2>3
    <2>5. \A i \in 1..n - 1 : ~IsUsed(r[i].id) /\ r[i].id # c.id
        <3>1. \A i \in 1..n : ~IsUsed(s[i].id)
            BY <1>0, <1>1 DEF FluentInv, Numbered
        <3> QED BY <1>2, <1>3, <1>14, <2>3, <3>1
    <2>6. \A i \in 1..n - 1 : \A v \in used' : v.id # r[i].id
        BY <1>6, <1>7, <2>5 DEF IsUsed
    <2> QED BY <1>9, <1>10, <2>1, <2>2, <2>4, <2>6 DEF FluentInv, Numbered, IsUsed
<1>17. RequestsKept'
    <2>1. ASSUME NEW i \in 1..n - 1
          PROVE  /\ Own(chains[i])' /\ chains'[i].at = "evaluate" /\ chains'[i].request = chains'[i].id
        <3>1. i \in 1..n /\ i # n /\ chains'[i] = s[i]
            BY <1>2, <1>9, <1>10
        <3>2. Own(s[i]) /\ s[i].at = "evaluate" /\ s[i].request = s[i].id
            BY <1>0, <1>1, <3>1 DEF FluentInv, RequestsKept
        <3>3. s[i].id \in C!Chain /\ s[i].id # c.id
            BY <1>2, <1>3, <1>14, <3>1 DEF Chains
        <3>4. requests'[s[i].id] = requests[s[i].id]
            BY <1>11, <3>3
        <3> QED BY <3>1, <3>2, <3>4 DEF Own
    <2>2. tls' = IF chains' # <<>> /\ chains'[Len(chains')].at # "evaluate"
                 THEN chains'[Len(chains')].id ELSE C!None
        <3>1. CASE n = 1
            <4>1. r = <<>>
                BY <1>9, <3>1
            <4> QED BY <1>4, <1>7, <1>10, <4>1
        <3>2. CASE n # 1
            <4>1. n - 1 \in 1..n - 1 /\ Len(chains') = n - 1
                BY <1>2, <1>9, <1>10, <3>2
            <4> QED BY <1>4, <1>7, <2>1, <4>1
        <3> QED BY <3>1, <3>2
    <2>3. \A d \in C!Chain : requests'[d].mem = "live" =>
              IsOpen(d)' \/ \E v \in used' : v.id = d /\ v.fails
        <3>1. ASSUME NEW d \in C!Chain, d # c.id, requests'[d].mem = "live"
              PROVE  IsOpen(d)' \/ \E v \in used' : v.id = d /\ v.fails
            BY <1>7, <1>11, <1>15, <3>1 DEF FluentInv, RequestsKept
        <3>2. ASSUME requests'[c.id].mem = "live"
              PROVE  \E v \in used' : v.id = c.id /\ v.fails
            BY <1>6, <1>7, <1>11, <3>2
        <3> QED BY <3>1, <3>2
    <2>4. Len(chains') = n - 1
        BY <1>9, <1>10
    <2> QED BY <2>1, <2>2, <2>3, <2>4 DEF RequestsKept
<1>18. C!EvaluatedAsWritten'
    <2>1. u.with.mem = "live" /\ u.with.of = u.id /\ u.with.kind = u.kind /\ u.with.fields = u.set
        BY <1>4, <1>6 DEF Own
    <2> QED BY <1>7, <2>1 DEF FluentInv, C!EvaluatedAsWritten
<1> QED BY <1>12, <1>16, <1>17, <1>18 DEF FluentInv

LEMMA FluentKept ==
    ASSUME Restrained, FluentInv, [C!Next]_C!vars
    PROVE  FluentInv'
<1>1. CASE UNCHANGED C!vars
    <2>1. FluentTyped'
        BY <1>1 DEF FluentInv, FluentTyped, C!vars
    <2>2. Numbered'
        <3>1. C!Started' = C!Started
            BY <1>1 DEF C!Started, C!vars
        <3> QED BY <1>1, <3>1 DEF FluentInv, Numbered, IsUsed, IsOpen, C!vars
    <2>3. RequestsKept'
        BY <1>1 DEF FluentInv, RequestsKept, Own, IsOpen, C!vars
    <2>4. C!EvaluatedAsWritten'
        BY <1>1 DEF FluentInv, C!EvaluatedAsWritten, C!vars
    <2> QED BY <2>1, <2>2, <2>3, <2>4 DEF FluentInv
<1>2. ASSUME NEW k \in C!Kind, C!Begin(k)
      PROVE  FluentInv'
    BY <1>2, BeginKeeps
<1>3. ASSUME NEW k \in C!Kind, NEW f \in C!Fields(k), C!Set(f)
      PROVE  FluentInv'
    <2>1. f \in FieldNames
        BY DEF C!Kind, C!Fields, C!SelectFields, C!SubscribeFields, C!ObserveFields, FieldNames
    <2> QED BY <1>3, <2>1, SetKeeps
<1>4. ASSUME NEW k \in C!Kind, NEW e \in C!Ends(k), C!End(e)
      PROVE  FluentInv'
    <2>1. e \in EndNames
        BY DEF C!Kind, C!Ends, C!SelectEnds, EndNames
    <2> QED BY <1>4, <2>1, EndKeeps
<1>5. CASE C!Declared
    BY <1>5, DeclaredKeeps
<1>6. ASSUME NEW b \in BOOLEAN, C!Evaluated(b)
      PROVE  FluentInv'
    BY <1>6, EvaluatedKeeps
<1> QED BY <1>1, <1>2, <1>3, <1>4, <1>5, <1>6 DEF C!Next

\* However chains of calls are written inside each other, for selects, subscriptions and observers,
\* each is evaluated with the request that it allocated and the fields that it set, and no request
\* is left of a thread that writes none, but those of selects that failed; provided that no chain
\* is written while a mount is declared for another one and that toNow comes before fromTime.
THEOREM ChainsAreOwn == Restrained /\ ServicesSpec => []RequestsAreOwn
<1> SUFFICES ASSUME Restrained PROVE ServicesSpec => []RequestsAreOwn
    OBVIOUS
<1>1. ServicesInit => FluentInv
    BY FluentInit DEF ServicesInit
<1>2. FluentInv /\ [ServicesNext]_services => FluentInv'
    <2> SUFFICES ASSUME FluentInv, [ServicesNext]_services PROVE FluentInv'
        OBVIOUS
    <2>1. [C!Next]_C!vars
        BY DEF ServicesNext, services, fluent, C!vars
    <2> QED BY <2>1, FluentKept
<1>3. FluentInv => RequestsAreOwn
    BY DEF FluentInv, RequestsKept, IsOpen, RequestsAreOwn, C!RequestsAreOwn, C!RequestsAreFreed
<1> QED BY <1>1, <1>2, <1>3, PTL DEF ServicesSpec

(***************************************************************************)
(* Resume                                                                  *)
(***************************************************************************)
Answers == [name: Remote, of: Nat, wrong: R!Wrong]
Lists == {<<>>} \cup {<<l>> : l \in Seq(Answers)}
Frames == [kind: {"select", "resume"}, id: Nat, mount: R!Mount, name: Remote \cup {R!None},
           given: BOOLEAN, at: {"callback", "iterate", "define", "on_resume"},
           source: R!Mount \cup {R!None}, attr: SUBSET {"persistent"}, listed: Lists,
           results: Seq(Answers)]

ResumeTyped ==
    /\ source \in R!Mount \cup {R!None} /\ attr \in SUBSET {"persistent"} /\ listed \in Lists
    /\ stack \in Seq(Frames) /\ calls \in Nat

\* The answers of list s are those of call f.
AreOf(f, s) == \A i \in 1..Len(s) : s[i].of = f.id

\* The source and the attributes of the thread in call f; the list has the answers of a callback
\* that is under way, or else what it had before the call.
SourceIn(f) == IF f.kind = "resume" THEN f.mount ELSE f.source
AttrIn(f) == IF f.kind = "resume" THEN f.attr \cup {"persistent"} ELSE f.attr
Holds(f, l) == IF f.at = "callback" THEN l = <<>> \/ AreOf(f, l[1]) ELSE l = f.listed

\* The variables of the thread, and what each call has put aside of them.
Context(i, s, a, l) ==
    IF i = 0 THEN s = R!None /\ a = {} /\ l = <<>>
    ELSE s = SourceIn(stack[i]) /\ a = AttrIn(stack[i]) /\ Holds(stack[i], l)
Contexts ==
    /\ Context(Len(stack), source, attr, listed)
    /\ \A i \in 1..Len(stack) : Context(i - 1, stack[i].source, stack[i].attr, stack[i].listed)

FramesOwn ==
    \A i \in 1..Len(stack) : /\ AreOf(stack[i], stack[i].results)
                             /\ stack[i].at \in {"define", "on_resume"} => stack[i].kind = "resume"
StoreIsSound == \A o \in store : o.source = o.by

ResumeInv == ResumeTyped /\ Contexts /\ FramesOwn /\ StoreIsSound

LEMMA ResumeInit == R!Init => ResumeInv
<1> SUFFICES ASSUME R!Init PROVE ResumeInv
    OBVIOUS
<1>1. stack = <<>> /\ Len(stack) = 0 /\ 1..Len(stack) = {} /\ store = {}
    BY DEF R!Init
<1>2. ResumeTyped
    BY <1>1 DEF R!Init, ResumeTyped, Lists
<1>3. Contexts
    BY <1>1 DEF R!Init, Contexts, Context
<1> QED BY <1>1, <1>2, <1>3 DEF ResumeInv, FramesOwn, StoreIsSound

\* The innermost call.
LEMMA TopTyped ==
    ASSUME ResumeInv, stack # <<>>
    PROVE  /\ Len(stack) \in Nat /\ Len(stack) > 0 /\ Len(stack) \in 1..Len(stack)
           /\ R!Top = stack[Len(stack)] /\ R!Top \in Frames
           /\ AreOf(R!Top, R!Top.results)
           /\ R!Top.at \in {"define", "on_resume"} => R!Top.kind = "resume"
           /\ source = SourceIn(R!Top) /\ attr = AttrIn(R!Top) /\ Holds(R!Top, listed)
<1>1. stack \in Seq(Frames)
    BY DEF ResumeInv, ResumeTyped
<1>2. Len(stack) \in Nat /\ Len(stack) > 0 /\ Len(stack) \in 1..Len(stack) /\ stack[Len(stack)] \in Frames
    BY <1>1
<1>3. Context(Len(stack), source, attr, listed)
    BY DEF ResumeInv, Contexts
<1> QED BY <1>2, <1>3 DEF ResumeInv, FramesOwn, Context, R!Top

\* A call begins: it puts aside the variables of the thread.
LEMMA CallKeeps ==
    ASSUME ResumeInv, NEW f \in Frames, stack' = Append(stack, f), calls' \in Nat, UNCHANGED store,
           f.source = source, f.attr = attr, f.listed = listed, f.results = <<>>,
           f.at \in {"define", "on_resume"} => f.kind = "resume",
           source' = SourceIn(f), attr' = AttrIn(f), listed' \in Lists, Holds(f, listed')
    PROVE  ResumeInv'
<1>0. PICK n : n = Len(stack)
    OBVIOUS
<1>1. /\ n \in Nat /\ stack' \in Seq(Frames) /\ Len(stack') = n + 1 /\ stack'[n + 1] = f
      /\ \A i \in 1..n : stack'[i] = stack[i]
    BY <1>0 DEF ResumeInv, ResumeTyped
<1>2. ResumeTyped'
    <2>1. source' \in R!Mount \cup {R!None} /\ attr' \in SUBSET {"persistent"}
        BY DEF Frames, SourceIn, AttrIn
    <2> QED BY <1>1, <2>1 DEF ResumeTyped
<1>3. Contexts'
    <2>1. Context(n, source, attr, listed)
        BY <1>0 DEF ResumeInv, Contexts
    <2>2. \A i \in 1..n : Context(i - 1, stack[i].source, stack[i].attr, stack[i].listed)
        BY <1>0 DEF ResumeInv, Contexts
    <2>3. ASSUME NEW i \in 0..n, NEW s, NEW a, NEW l
          PROVE  Context(i, s, a, l) => (i = 0 /\ s = R!None /\ a = {} /\ l = <<>>)
                    \/ (i # 0 /\ s = SourceIn(stack'[i]) /\ a = AttrIn(stack'[i]) /\ Holds(stack'[i], l))
        BY <1>1 DEF Context
    <2>4. source' = SourceIn(stack'[n + 1]) /\ attr' = AttrIn(stack'[n + 1]) /\ Holds(stack'[n + 1], listed')
        BY <1>1
    <2>5. ASSUME NEW i \in 1..n + 1
          PROVE  \/ i = 1 /\ stack'[i].source = R!None /\ stack'[i].attr = {} /\ stack'[i].listed = <<>>
                 \/ /\ i # 1 /\ stack'[i].source = SourceIn(stack'[i - 1])
                    /\ stack'[i].attr = AttrIn(stack'[i - 1]) /\ Holds(stack'[i - 1], stack'[i].listed)
        <3>1. CASE i = n + 1
            <4>1. n \in 0..n /\ i - 1 = n /\ (i = 1 <=> n = 0)
                BY <1>1, <3>1
            <4> QED BY <1>1, <2>1, <2>3, <3>1, <4>1
        <3>2. CASE i # n + 1
            <4>1. i \in 1..n /\ i - 1 \in 0..n /\ (i = 1 <=> i - 1 = 0)
                BY <1>1, <3>2
            <4>2. stack'[i] = stack[i]
                BY <1>1, <4>1
            <4> QED BY <2>2, <2>3, <4>1, <4>2
        <3> QED BY <3>1, <3>2
    <2>6. Len(stack') = n + 1 /\ n + 1 # 0 /\ \A i \in 1..n + 1 : (i = 1 <=> i - 1 = 0)
        BY <1>1
    <2>7. Context(Len(stack), source, attr, listed)'
        BY <2>4, <2>6 DEF Context
    <2>8. \A i \in 1..Len(stack') : Context(i - 1, stack[i].source, stack[i].attr, stack[i].listed)'
        BY <2>5, <2>6 DEF Context
    <2> QED BY <2>7, <2>8 DEF Contexts
<1>4. FramesOwn'
    <2>1. AreOf(f, f.results)
        BY DEF AreOf
    <2>2. \A i \in 1..n : /\ AreOf(stack[i], stack[i].results)
                          /\ stack[i].at \in {"define", "on_resume"} => stack[i].kind = "resume"
        BY <1>0 DEF ResumeInv, FramesOwn
    <2>3. \A i \in 1..n + 1 : /\ AreOf(stack'[i], stack'[i].results)
                              /\ stack'[i].at \in {"define", "on_resume"} => stack'[i].kind = "resume"
        BY <1>1, <2>1, <2>2
    <2> QED BY <1>1, <2>3 DEF FramesOwn
<1> QED BY <1>2, <1>3, <1>4 DEF ResumeInv, StoreIsSound

\* The innermost call ends: the thread has its variables of before.
LEMMA EndKeepsContexts ==
    ASSUME ResumeInv, stack # <<>>, stack' = R!Front(stack), source' = R!Top.source,
           attr' = R!Top.attr, listed' = R!Top.listed, calls' = calls, StoreIsSound'
    PROVE  ResumeInv'
<1>0. PICK s : s = stack
    OBVIOUS
<1>1. PICK n : n = Len(s)
    OBVIOUS
<1>2. s \in Seq(Frames) /\ n \in Nat /\ n > 0 /\ n \in 1..n /\ R!Top = s[n] /\ R!Top \in Frames
    BY <1>0, <1>1, TopTyped DEF ResumeInv, ResumeTyped
<1>3. PICK r : r = SubSeq(s, 1, Len(s) - 1)
    OBVIOUS
<1>4. r \in Seq(Frames) /\ Len(r) = n - 1 /\ \A i \in 1..n - 1 : r[i] = s[i]
    BY <1>0, <1>1, <1>2, <1>3, LastDropped
<1>5. stack' = r
    BY <1>0, <1>3 DEF R!Front
<1>6. ResumeTyped'
    BY <1>2, <1>4, <1>5 DEF Frames, ResumeInv, ResumeTyped
<1>7. Contexts'
    <2>1. ASSUME NEW i \in 1..n
          PROVE  \/ i = 1 /\ s[i].source = R!None /\ s[i].attr = {} /\ s[i].listed = <<>>
                 \/ /\ i # 1 /\ s[i].source = SourceIn(s[i - 1])
                    /\ s[i].attr = AttrIn(s[i - 1]) /\ Holds(s[i - 1], s[i].listed)
        <3>1. Context(i - 1, s[i].source, s[i].attr, s[i].listed)
            BY <1>0, <1>1 DEF ResumeInv, Contexts
        <3>2. i = 1 <=> i - 1 = 0
            BY <1>2
        <3> QED BY <1>0, <3>1, <3>2 DEF Context
    <2>2. Context(Len(stack), source, attr, listed)'
        <3>1. CASE n = 1
            BY <1>2, <1>4, <1>5, <2>1, <3>1 DEF Context
        <3>2. CASE n # 1
            <4>1. n - 1 \in 1..n - 1 /\ n - 1 # 0 /\ r[n - 1] = s[n - 1] /\ Len(r) = n - 1
                BY <1>2, <1>4, <3>2
            <4>2. /\ source' = SourceIn(s[n - 1]) /\ attr' = AttrIn(s[n - 1])
                  /\ Holds(s[n - 1], listed')
                BY <1>2, <2>1, <3>2
            <4> QED BY <1>5, <4>1, <4>2 DEF Context
        <3> QED BY <3>1, <3>2
    <2>3. ASSUME NEW i \in 1..n - 1
          PROVE  Context(i - 1, stack[i].source, stack[i].attr, stack[i].listed)'
        <3>1. i \in 1..n /\ r[i] = s[i] /\ (i = 1 <=> i - 1 = 0)
            BY <1>2, <1>4
        <3>2. i # 1 => i - 1 \in 1..n - 1 /\ r[i - 1] = s[i - 1]
            BY <1>2, <1>4
        <3> QED BY <1>5, <2>1, <3>1, <3>2 DEF Context
    <2> QED BY <1>4, <1>5, <2>2, <2>3 DEF Contexts
<1>8. FramesOwn'
    <2>1. \A i \in 1..n - 1 : i \in 1..n /\ r[i] = s[i]
        BY <1>2, <1>4
    <2> QED BY <1>0, <1>1, <1>4, <1>5, <2>1 DEF ResumeInv, FramesOwn
<1> QED BY <1>6, <1>7, <1>8 DEF ResumeInv

\* The innermost call goes on, with the same variables put aside.
LEMMA GoesOnKeepsContexts ==
    ASSUME ResumeInv, stack # <<>>, NEW f \in Frames, R!Continues(f), f.kind = R!Top.kind,
           f.mount = R!Top.mount, f.source = R!Top.source, f.attr = R!Top.attr, f.listed = R!Top.listed,
           f.at # "callback", f.at \in {"define", "on_resume"} => f.kind = "resume",
           AreOf(f, f.results), listed' = f.listed, UNCHANGED <<source, attr, calls>>, StoreIsSound'
    PROVE  ResumeInv'
<1>0. PICK s : s = stack
    OBVIOUS
<1>1. PICK n : n = Len(s)
    OBVIOUS
<1>2. s \in Seq(Frames) /\ n \in Nat /\ n > 0 /\ n \in 1..n /\ R!Top = s[n] /\ R!Top \in Frames
      /\ source = SourceIn(R!Top) /\ attr = AttrIn(R!Top)
    BY <1>0, <1>1, TopTyped DEF ResumeInv, ResumeTyped
<1>3. PICK r : r = Append(SubSeq(s, 1, Len(s) - 1), f)
    OBVIOUS
<1>4. r \in Seq(Frames) /\ Len(r) = n /\ r[n] = f /\ \A i \in 1..n : i # n => r[i] = s[i]
    BY <1>0, <1>1, <1>2, <1>3, LastReplaced
<1>5. stack' = r
    BY <1>0, <1>3 DEF R!Continues, R!Front
<1>6. ResumeTyped'
    BY <1>4, <1>5 DEF Frames, ResumeInv, ResumeTyped
<1>7. Contexts'
    <2>1. source' = SourceIn(f) /\ attr' = AttrIn(f) /\ Holds(f, listed')
        BY <1>2 DEF SourceIn, AttrIn, Holds
    <2>2. Context(Len(stack), source, attr, listed)'
        BY <1>2, <1>4, <1>5, <2>1 DEF Context
    <2>3. ASSUME NEW i \in 1..n
          PROVE  Context(i - 1, stack[i].source, stack[i].attr, stack[i].listed)'
        <3>1. Context(i - 1, s[i].source, s[i].attr, s[i].listed)
            BY <1>0, <1>1 DEF ResumeInv, Contexts
        <3>2. r[i].source = s[i].source /\ r[i].attr = s[i].attr /\ r[i].listed = s[i].listed
            BY <1>2, <1>4
        <3>3. i - 1 # 0 => i - 1 \in 1..n /\ i - 1 # n
            BY <1>2
        <3>4. i - 1 # 0 => r[i - 1] = s[i - 1]
            BY <1>4, <3>3
        <3> QED BY <1>0, <1>5, <3>1, <3>2, <3>4 DEF Context
    <2> QED BY <1>4, <1>5, <2>2, <2>3 DEF Contexts
<1>8. FramesOwn'
    <2>1. \A i \in 1..n : /\ AreOf(s[i], s[i].results)
                          /\ s[i].at \in {"define", "on_resume"} => s[i].kind = "resume"
        BY <1>0, <1>1 DEF ResumeInv, FramesOwn
    <2>2. \A i \in 1..n : /\ AreOf(r[i], r[i].results)
                          /\ r[i].at \in {"define", "on_resume"} => r[i].kind = "resume"
        BY <1>4, <2>1
    <2> QED BY <1>4, <1>5, <2>2 DEF FramesOwn
<1> QED BY <1>6, <1>7, <1>8 DEF ResumeInv

\* The callback of the innermost call adds to the list.
LEMMA ListKeeps ==
    ASSUME ResumeInv, R!At("callback"), NEW l \in Seq(Answers), AreOf(R!Top, l), listed' = <<l>>,
           UNCHANGED <<source, attr, stack, store, calls>>
    PROVE  ResumeInv'
<1>1. stack # <<>> /\ R!Top.at = "callback"
    BY DEF R!At
<1>2. /\ Len(stack) \in Nat /\ Len(stack) > 0 /\ R!Top = stack[Len(stack)]
      /\ source = SourceIn(R!Top) /\ attr = AttrIn(R!Top)
    BY <1>1, TopTyped
<1>3. ResumeTyped'
    BY DEF ResumeInv, ResumeTyped, Lists
<1>4. Holds(R!Top, listed')
    BY <1>1 DEF Holds
<1>5. Context(Len(stack), source, attr, listed)'
    BY <1>2, <1>4 DEF Context
<1>6. Contexts'
    BY <1>5 DEF ResumeInv, Contexts, Context
<1> QED BY <1>3, <1>6 DEF ResumeInv, FramesOwn, StoreIsSound

\* The list of a callback that is under way.
LEMMA ListTypedAndOwn ==
    ASSUME ResumeInv, R!At("callback")
    PROVE  LET l == IF listed = <<>> THEN <<>> ELSE listed[1]
           IN  l \in Seq(Answers) /\ AreOf(R!Top, l)
<1>1. stack # <<>> /\ R!Top.at = "callback"
    BY DEF R!At
<1>2. Holds(R!Top, listed) /\ listed \in Lists
    BY <1>1, TopTyped DEF ResumeInv, ResumeTyped
<1>3. CASE listed = <<>>
    <2>1. <<>> \in Seq(Answers) /\ AreOf(R!Top, <<>>)
        BY DEF AreOf
    <2> QED BY <1>3, <2>1
<1>4. CASE listed # <<>>
    <2>1. PICK l \in Seq(Answers) : listed = <<l>>
        BY <1>2, <1>4 DEF Lists
    <2>2. listed[1] = l
        BY <2>1
    <2> QED BY <1>1, <1>2, <1>4, <2>1, <2>2 DEF Holds
<1> QED BY <1>3, <1>4

\* What a frame is made of.
NewFrame(kind, m, n, given, at) ==
    [kind |-> kind, id |-> calls + 1, mount |-> m, name |-> n, given |-> given, at |-> at,
     source |-> source, attr |-> attr, listed |-> listed, results |-> <<>>]

LEMMA FrameTyped ==
    ASSUME ResumeInv, NEW kind \in {"select", "resume"}, NEW m \in R!Mount,
           NEW n \in Remote \cup {R!None}, NEW given \in BOOLEAN,
           NEW at \in {"callback", "iterate", "define", "on_resume"}
    PROVE  /\ NewFrame(kind, m, n, given, at) \in Frames
           /\ [R!Frame(kind, m, n, given) EXCEPT !.at = at] = NewFrame(kind, m, n, given, at)
           /\ R!Frame(kind, m, n, given) = NewFrame(kind, m, n, given, "callback")
<1>1. /\ calls + 1 \in Nat /\ source \in R!Mount \cup {R!None} /\ attr \in SUBSET {"persistent"}
      /\ listed \in Lists /\ <<>> \in Seq(Answers)
    BY DEF ResumeInv, ResumeTyped
<1>2. NewFrame(kind, m, n, given, at) \in Frames
    BY <1>1 DEF Frames, NewFrame
<1>3. [R!Frame(kind, m, n, given) EXCEPT !.at = at] = NewFrame(kind, m, n, given, at)
    BY DEF R!Frame, NewFrame
<1>4. R!Frame(kind, m, n, given) = NewFrame(kind, m, n, given, "callback")
    BY DEF R!Frame, NewFrame
<1> QED BY <1>2, <1>3, <1>4

LEMMA SelectKeeps ==
    ASSUME ResumeInv, NEW m \in R!Mount, R!Select(m)
    PROVE  ResumeInv'
<1>1. PICK f : f = NewFrame("select", m, R!None, FALSE, "callback")
    OBVIOUS
<1>2. f \in Frames /\ f = R!Frame("select", m, R!None, FALSE)
    BY <1>1, FrameTyped
<1>3. /\ f.kind = "select" /\ f.at = "callback" /\ f.source = source
      /\ f.attr = attr /\ f.listed = listed /\ f.results = <<>>
    BY <1>1 DEF NewFrame
<1>4. stack' = Append(stack, f) /\ calls' = calls + 1 /\ listed' = <<>> /\ UNCHANGED <<source, attr, store>>
    BY <1>2 DEF R!Select, R!Calls, R!PutsAside
<1>5. calls' \in Nat /\ listed' \in Lists
    BY <1>4 DEF ResumeInv, ResumeTyped, Lists
<1>6. source' = SourceIn(f) /\ attr' = AttrIn(f) /\ Holds(f, listed')
    BY <1>3, <1>4 DEF SourceIn, AttrIn, Holds
<1> QED BY <1>2, <1>3, <1>4, <1>5, <1>6, CallKeeps

LEMMA ResumeKeeps ==
    ASSUME ResumeInv, NEW m \in R!Mount, NEW n \in Remote, NEW given \in BOOLEAN, R!Resume(m, n, given)
    PROVE  ResumeInv'
<1>1. PICK at : at = IF m \in Explicit THEN "on_resume" ELSE "callback"
    OBVIOUS
<1>2. PICK f : f = NewFrame("resume", m, n, given, at)
    OBVIOUS
<1>3. f \in Frames
    <2>1. at \in {"callback", "iterate", "define", "on_resume"}
        BY <1>1
    <2> QED BY <1>2, <2>1, FrameTyped
<1>4. stack' = Append(stack, f) /\ calls' = calls + 1
    <2>1. CASE m \in Explicit
        <3>1. [R!Frame("resume", m, n, given) EXCEPT !.at = "on_resume"] = f
            BY <1>1, <1>2, <2>1, FrameTyped
        <3> QED BY <2>1, <3>1 DEF R!Resume, R!Calls
    <2>2. CASE m \notin Explicit
        <3>1. R!Frame("resume", m, n, given) = f
            BY <1>1, <1>2, <2>2, FrameTyped
        <3> QED BY <2>2, <3>1 DEF R!Resume, R!Calls
    <2> QED BY <2>1, <2>2
<1>5. /\ source' = m /\ attr' = attr \cup {"persistent"} /\ UNCHANGED store
      /\ listed' = IF m \in Explicit THEN listed ELSE <<>>
    BY DEF R!Resume, R!PutsAside
<1>6. calls' \in Nat /\ listed' \in Lists
    BY <1>4, <1>5 DEF ResumeInv, ResumeTyped, Lists
<1>7. /\ f.kind = "resume" /\ f.mount = m /\ f.at = at /\ f.source = source
      /\ f.attr = attr /\ f.listed = listed /\ f.results = <<>>
    BY <1>2 DEF NewFrame
<1>8. source' = SourceIn(f) /\ attr' = AttrIn(f) /\ Holds(f, listed')
    BY <1>1, <1>5, <1>7 DEF SourceIn, AttrIn, Holds
<1> QED BY <1>3, <1>4, <1>5, <1>6, <1>7, <1>8, CallKeeps

LEMMA ReturnKeeps ==
    ASSUME ResumeInv, NEW n \in Remote, NEW w \in R!Wrong, R!Return(n, w)
    PROVE  ResumeInv'
<1>1. PICK l : l = IF listed = <<>> THEN <<>> ELSE listed[1]
    OBVIOUS
<1>2. R!At("callback") /\ l \in Seq(Answers) /\ AreOf(R!Top, l)
    BY <1>1, ListTypedAndOwn DEF R!Return
<1>3. R!Top \in Frames
    BY <1>2, TopTyped DEF R!At
<1>4. PICK a : a = R!Result(n, R!Top.id, w)
    OBVIOUS
<1>5. a \in Answers /\ a.of = R!Top.id
    BY <1>3, <1>4 DEF R!Result, Answers, Frames
<1>6. Append(l, a) \in Seq(Answers) /\ AreOf(R!Top, Append(l, a))
    BY <1>2, <1>5 DEF AreOf
<1>7. listed' = <<Append(l, a)>> /\ UNCHANGED <<source, attr, stack, store, calls>>
    BY <1>1, <1>4 DEF R!Return
<1> QED BY <1>2, <1>6, <1>7, ListKeeps

LEMMA IncompleteKeeps ==
    ASSUME ResumeInv, R!Incomplete
    PROVE  ResumeInv'
<1>1. <<>> \in Seq(Answers) /\ AreOf(R!Top, <<>>)
    BY DEF AreOf
<1> QED BY <1>1, ListKeeps DEF R!Incomplete

LEMMA EndQueryKeeps ==
    ASSUME ResumeInv, NEW own \in Seq(Answers), AreOf(R!Top, own), R!EndQuery(own)
    PROVE  ResumeInv'
<1>1. PICK l : l = IF listed = <<>> THEN <<>> ELSE listed[1]
    OBVIOUS
<1>2. R!At("callback") /\ l \in Seq(Answers) /\ AreOf(R!Top, l) /\ stack # <<>>
    BY <1>1, ListTypedAndOwn DEF R!EndQuery, R!At
<1>3. PICK top \in Frames : top = R!Top
    BY <1>2, TopTyped
<1>4. PICK q : q = IF own # <<>> THEN own ELSE l
    OBVIOUS
<1>5. q \in Seq(Answers) /\ AreOf(top, q)
    BY <1>2, <1>3, <1>4
<1>6. PICK f : f = [top EXCEPT !.at = "iterate", !.results = q]
    OBVIOUS
<1>7. /\ f \in Frames /\ f.kind = top.kind /\ f.mount = top.mount /\ f.source = top.source
      /\ f.attr = top.attr /\ f.listed = top.listed /\ f.at = "iterate" /\ f.results = q /\ f.id = top.id
    BY <1>3, <1>5, <1>6 DEF Frames
<1>8. AreOf(f, f.results)
    BY <1>5, <1>7 DEF AreOf
<1>9. R!Continues(f) /\ listed' = f.listed /\ UNCHANGED <<source, attr, calls>>
    BY <1>1, <1>3, <1>4, <1>6, <1>7 DEF R!EndQuery
<1>10. StoreIsSound'
    BY DEF R!EndQuery, ResumeInv, StoreIsSound
<1> QED BY <1>2, <1>3, <1>7, <1>8, <1>9, <1>10, GoesOnKeepsContexts

\* A resume that leaves, with objects in the store that have the right source.
LEMMA LeavesKeeps ==
    ASSUME ResumeInv, stack # <<>>, R!Top.at # "callback", NEW ok, R!Leaves(ok),
           UNCHANGED <<listed, calls>>, StoreIsSound'
    PROVE  ResumeInv'
<1>1. listed' = R!Top.listed
    BY TopTyped DEF Holds
<1>2. stack' = R!Front(stack) /\ source' = R!Top.source /\ attr' = R!Top.attr
    BY DEF R!Leaves, R!Restored, R!Restores
<1> QED BY <1>1, <1>2, EndKeepsContexts

LEMMA EndSelectKeeps ==
    ASSUME ResumeInv, R!EndSelect
    PROVE  ResumeInv'
<1>1. stack # <<>> /\ R!Top.at = "iterate" /\ R!Top.kind = "select"
    BY DEF R!EndSelect, R!At
<1>2. listed = R!Top.listed /\ source = R!Top.source /\ attr = R!Top.attr
    BY <1>1, TopTyped DEF Holds, SourceIn, AttrIn
<1>3. stack' = R!Front(stack) /\ UNCHANGED <<source, attr, listed, store, calls>>
    BY DEF R!EndSelect
<1>4. StoreIsSound'
    BY <1>3 DEF ResumeInv, StoreIsSound
<1> QED BY <1>1, <1>2, <1>3, <1>4, EndKeepsContexts

LEMMA TakeKeeps ==
    ASSUME ResumeInv, R!Take
    PROVE  ResumeInv'
<1>1. stack # <<>> /\ R!Top.at = "iterate" /\ R!Top.kind = "resume" /\ UNCHANGED <<listed, calls>>
    BY DEF R!Take, R!At
<1>2. PICK top \in Frames : top = R!Top
    BY <1>1, TopTyped
<1>3. listed = top.listed /\ source = top.mount /\ AreOf(top, top.results)
    BY <1>1, <1>2, TopTyped DEF Holds, SourceIn
<1>4. PICK f : f = [top EXCEPT !.at = "define"]
    OBVIOUS
<1>5. /\ f \in Frames /\ f.kind = "resume" /\ f.mount = top.mount /\ f.source = top.source
      /\ f.attr = top.attr /\ f.listed = top.listed /\ f.at = "define" /\ f.results = top.results
      /\ f.id = top.id
    BY <1>1, <1>2, <1>4 DEF Frames
<1>6. \/ UNCHANGED store /\ \E ok : R!Leaves(ok)
      \/ /\ R!Continues(f) /\ UNCHANGED <<source, attr>>
         /\ \E name : store' \in {store, store \cup {[name |-> name, source |-> source, by |-> top.mount]}}
    BY <1>2, <1>4, Zenon DEF R!Take
<1>7. StoreIsSound'
    BY <1>3, <1>6 DEF ResumeInv, StoreIsSound
<1>8. AreOf(f, f.results)
    BY <1>3, <1>5 DEF AreOf
<1>9. CASE \E ok : R!Leaves(ok)
    BY <1>1, <1>7, <1>9, LeavesKeeps
<1>10. CASE R!Continues(f) /\ UNCHANGED <<source, attr>>
    BY <1>1, <1>2, <1>3, <1>5, <1>7, <1>8, <1>10, GoesOnKeepsContexts
<1> QED BY <1>6, <1>9, <1>10

LEMMA DefinedKeeps ==
    ASSUME ResumeInv, NEW ok \in BOOLEAN, R!Unreadable \/ R!EndDefine(ok)
    PROVE  ResumeInv'
<1>1. /\ stack # <<>> /\ R!Top.at = "define" /\ UNCHANGED <<listed, store, calls>>
      /\ \E b : R!Leaves(b)
    BY Zenon DEF R!Unreadable, R!EndDefine, R!At
<1>2. StoreIsSound'
    BY <1>1 DEF ResumeInv, StoreIsSound
<1> QED BY <1>1, <1>2, LeavesKeeps

LEMMA EndExplicitKeeps ==
    ASSUME ResumeInv, NEW ok \in BOOLEAN, NEW made \in BOOLEAN, R!EndExplicit(ok, made)
    PROVE  ResumeInv'
<1>1. stack # <<>> /\ R!Top.at = "on_resume" /\ UNCHANGED <<listed, calls>> /\ R!Leaves(ok)
    BY DEF R!EndExplicit, R!At
<1>2. source = R!Top.mount
    BY <1>1, TopTyped DEF SourceIn
<1>3. StoreIsSound'
    BY <1>2 DEF R!EndExplicit, ResumeInv, StoreIsSound
<1> QED BY <1>1, <1>3, LeavesKeeps

LEMMA ResumeKept ==
    ASSUME ResumeInv, [R!Next]_R!vars
    PROVE  ResumeInv'
<1>1. CASE UNCHANGED R!vars
    <2>1. ResumeTyped' /\ FramesOwn' /\ StoreIsSound'
        BY <1>1 DEF ResumeInv, ResumeTyped, FramesOwn, StoreIsSound, R!vars
    <2>2. Contexts'
        BY <1>1 DEF ResumeInv, Contexts, Context, R!vars
    <2> QED BY <2>1, <2>2 DEF ResumeInv
<1>2. ASSUME NEW m \in R!Mount, NEW n \in Remote, NEW given \in BOOLEAN, R!Resume(m, n, given)
      PROVE  ResumeInv'
    BY <1>2, ResumeKeeps
<1>3. ASSUME NEW m \in Filtered \cup Exact, R!Select(m)
      PROVE  ResumeInv'
    BY <1>3, SelectKeeps DEF R!Mount
<1>4. ASSUME NEW n \in Remote, NEW w \in R!Wrong, R!Return(n, w)
      PROVE  ResumeInv'
    BY <1>4, ReturnKeeps
<1>5. CASE R!EndQuery(<<>>)
    <2>1. <<>> \in Seq(Answers) /\ AreOf(R!Top, <<>>)
        BY DEF AreOf
    <2> QED BY <1>5, <2>1, EndQueryKeeps
<1>6. ASSUME NEW n \in Remote, R!EndQuery(<<R!Result(n, R!Top.id, "")>>)
      PROVE  ResumeInv'
    <2>1. R!Top \in Frames
        BY <1>6, TopTyped DEF R!EndQuery, R!At
    <2>2. PICK a : a = R!Result(n, R!Top.id, "")
        OBVIOUS
    <2>3. a \in Answers /\ a.of = R!Top.id
        BY <2>1, <2>2 DEF R!Result, R!Wrong, Answers, Frames
    <2>4. <<a>> \in Seq(Answers) /\ AreOf(R!Top, <<a>>)
        BY <2>3 DEF AreOf
    <2> QED BY <1>6, <2>2, <2>4, EndQueryKeeps
<1>7. CASE R!Incomplete \/ R!EndSelect \/ R!Take \/ R!Unreadable
    BY <1>7, IncompleteKeeps, EndSelectKeeps, TakeKeeps, DefinedKeeps
<1>8. ASSUME NEW ok \in BOOLEAN, R!EndDefine(ok) \/ \E made \in BOOLEAN : R!EndExplicit(ok, made)
      PROVE  ResumeInv'
    BY <1>8, DefinedKeeps, EndExplicitKeeps
<1> QED BY <1>1, <1>2, <1>3, <1>4, <1>5, <1>6, <1>7, <1>8 DEF R!Next

\* However deep the callbacks of mounts query and resume, and however those calls end, every query
\* has only answers that were returned for it, what a mount resumes has the mount as its source,
\* and the thread ends with the source, the attributes and the results that it began with.
THEOREM CallsAreNested == ServicesSpec => []ResultsAreOwn
<1>1. ServicesInit => ResumeInv
    BY ResumeInit DEF ServicesInit
<1>2. ResumeInv /\ [ServicesNext]_services => ResumeInv'
    <2> SUFFICES ASSUME ResumeInv, [ServicesNext]_services PROVE ResumeInv'
        OBVIOUS
    <2>1. [R!Next]_R!vars
        BY DEF ServicesNext, services, resume, R!vars
    <2> QED BY <2>1, ResumeKept
<1>3. ResumeInv => R!ResultsAreOwn /\ R!SourceIsMount
    <2> SUFFICES ASSUME ResumeInv PROVE R!ResultsAreOwn /\ R!SourceIsMount
        OBVIOUS
    <2>1. stack \in Seq(Frames)
        BY DEF ResumeInv, ResumeTyped
    <2>2. ASSUME NEW i \in DOMAIN stack, NEW r \in R!Range(stack[i].results)
          PROVE  r.of = stack[i].id
        <3>0. i \in 1..Len(stack) /\ stack[i] \in Frames
            BY <2>1
        <3>1. stack[i].results \in Seq(Answers)
            BY <3>0 DEF Frames
        <3>2. PICK j \in 1..Len(stack[i].results) : r = stack[i].results[j]
            BY <3>1 DEF R!Range
        <3> QED BY <3>0, <3>1, <3>2 DEF ResumeInv, FramesOwn, AreOf
    <2>3. stack = <<>> => source = R!None /\ attr = {} /\ listed = <<>>
        BY DEF ResumeInv, Contexts, Context
    <2> QED BY <2>2, <2>3 DEF ResumeInv, StoreIsSound, R!ResultsAreOwn, R!SourceIsMount
<1>4. ResumeInv => ResultsAreOwn
    BY <1>3 DEF ResultsAreOwn
<1> QED BY <1>1, <1>2, <1>4, PTL DEF ServicesSpec

=============================================================================
