---------------------------- MODULE RpSpanProofs ----------------------------
(***************************************************************************)
(* The safety properties of RpSpan for any number of threads, regions,     *)
(* heaps and sizes. The invariant puts every piece of memory into a group: *)
(* what a heap holds, a global cache or its overflow, what a thread        *)
(* carries inside a call, what the program uses, the regions' own first    *)
(* spans. No piece is in two groups or twice in one, and the count of a    *)
(* region is the number of spans of its pieces. The first half of the      *)
(* module is about sequences, pieces and counts; then comes what a step of *)
(* one thread may change, and with it one lemma for each action.           *)
(***************************************************************************)
EXTENDS RpSpan, SequenceTheorems, FiniteSetTheorems, WellFoundedInduction, TLAPS
---------------------------------------------------------------------------
(* A piece; one that a cache can hold; what the program holds.             *)
PieceType  == [r : Region, off : Nat, n : Nat \ {0}]
CachedType == [r : Region, off : Nat, n : 1 .. LargeCount]
UseType    == [p : CachedType, h : Heap, kind : {"small", "large"}]
                \cup [p : PieceType, h : Heap, kind : {"huge"}]

HeapType == [owner : Thread \cup {None}, cache : [1 .. LargeCount -> Seq(CachedType)],
             class : CachedType \cup {None}, reserve : CachedType \cup {None},
             deferred : Seq(UseType), busy : Int]

(* The tasks of a call, each with what it uses of the record.              *)
Tasks(dos, ns, pss, keeps, slots) ==
  [do : dos, n : ns, ps : pss, keep : keeps, slot : slots]

WorkTask ==
  Tasks({"global insert"}, 1 .. LargeCount, Seq(CachedType), {<<>>}, {0})
    \cup Tasks({"sort"}, 1 .. LargeCount, Seq(CachedType) \ {<<>>}, Seq(CachedType), {0})
    \cup Tasks({"keep"}, 1 .. LargeCount, {<<>>}, Seq(CachedType), Nat)
    \cup Tasks({"defer"}, {0}, [1 .. 1 -> UseType], {<<>>}, {0})

LastTask ==
  Tasks({"own", "release"}, {0}, {<<>>}, {<<>>}, {0})
    \cup Tasks({"extract", "map"}, 1 .. LargeCount, {<<>>}, {"small", "large"}, 1 .. LargeCount)
    \cup Tasks({"map huge"}, Nat \ {0}, {<<>>}, {<<>>}, {0})

AdoptTask == Tasks({"adopt"}, {0, 1}, {<<>>}, {<<>>}, {0})

TaskType == WorkTask \cup LastTask \cup AdoptTask

TypeOK ==
  /\ DOMAIN remaining \subseteq Region /\ remaining \in [DOMAIN remaining -> Nat \ {0}]
  /\ DOMAIN heap \subseteq Heap /\ heap \in [DOMAIN heap -> HeapType]
  /\ orphans \in Seq(Heap)
  /\ global \in [1 .. LargeCount -> Seq(CachedType)]
  /\ overflow \in [1 .. LargeCount -> Seq(CachedType)]
  /\ used \in SUBSET UseType /\ IsFiniteSet(used)
  /\ mine \in [Thread -> Heap \cup {None}]
  /\ at \in [Thread -> Heap \cup {None}]
  /\ todo \in [Thread -> Seq(TaskType)]
  /\ got \in [Thread -> CachedType \cup {None}]
  /\ finalized \in {"no", "done"}

(* A call does what came up on its way first; what it ends with comes last,*)
(* and a piece has been found for it only if that takes it.                *)
CallOK(t) ==
  LET q == todo[t]
      z == Len(q)
  IN  /\ \A i \in 1 .. z - 1 : q[i] \in WorkTask \cup AdoptTask
      /\ \A i \in 1 .. z : q[i].do = "adopt" =>
           /\ i = 1 /\ z = 2 /\ got[t] = None
           /\ q[i].n = 1 => q[z].do = "extract"
      /\ got[t] # None => z > 0 /\ q[z].do = "extract"
      /\ z > 0 => at[t] \in DOMAIN heap /\ finalized = "no"

HeapsOK ==
  /\ \A u \in used : u.h \in DOMAIN heap
  /\ finalized = "no" =>
       /\ ToSet(orphans) \subseteq DOMAIN heap
       /\ \A t \in Thread : mine[t] # None => mine[t] \in DOMAIN heap

(* Families of sequences of pieces in which no piece is twice.             *)
Once(Q) ==
  \A k, l \in DOMAIN Q : \A i \in DOMAIN Q[k], j \in DOMAIN Q[l] :
    Q[k][i] = Q[l][j] => k = l /\ i = j

Among(Q) == UNION {ToSet(Q[k]) : k \in DOMAIN Q}

PiecesOf(us) == [i \in DOMAIN us |-> us[i].p]

Slots(ht) ==
  [k \in -2 .. LargeCount |->
     IF k > 0 THEN ht.cache[k] ELSE IF k = 0 THEN PieceSeq(ht.class)
     ELSE IF k = -1 THEN PieceSeq(ht.reserve) ELSE PiecesOf(ht.deferred)]

TaskPieces(k) ==
  (IF k.do = "defer" THEN PiecesOf(k.ps) ELSE k.ps)
    \o (IF k.do \in {"sort", "keep"} THEN k.keep ELSE <<>>)

Carried(q) == [i \in DOMAIN q |-> TaskPieces(q[i])]

One(p) == IF p = None THEN {} ELSE {p}

(* The pieces of each group of places.                                     *)
Keys ==
  ({"heap"} \X Heap) \cup ({"global", "overflow"} \X (1 .. LargeCount))
    \cup ({"thread"} \X Thread) \cup {<<"used", 0>>, <<"memory", 0>>}

InHeap(h) == IF h \in DOMAIN heap THEN Among(Slots(heap[h])) ELSE {}
InThread(t) == Among(Carried(todo[t])) \cup One(got[t])
InUse == {u.p : u \in used}
InMemory == {Piece(h[1], 0, 1) : h \in DOMAIN heap}

Group ==
  [k \in Keys |-> CASE k[1] = "heap" -> InHeap(k[2])
                    [] k[1] = "global" -> ToSet(global[k[2]])
                    [] k[1] = "overflow" -> ToSet(overflow[k[2]])
                    [] k[1] = "thread" -> InThread(k[2])
                    [] k[1] = "used" -> InUse
                    [] k[1] = "memory" -> InMemory]

Disjoint(G) == \A k, l \in DOMAIN G : k # l => G[k] \cap G[l] = {}
Union(G) == UNION {G[k] : k \in DOMAIN G}

(* No piece is twice in a group.                                           *)
GroupsOnce ==
  /\ \A h \in DOMAIN heap : Once(Slots(heap[h]))
  /\ \A n \in 1 .. LargeCount : IsInjective(global[n]) /\ IsInjective(overflow[n])
  /\ \A u, v \in used : u.p = v.p => u = v
  /\ \A t \in Thread :
       Once(Carried(todo[t])) /\ (got[t] # None => got[t] \notin Among(Carried(todo[t])))

(* The spans of a region that a set of pieces has, and the count of them.  *)
Area(All, r) == UNION {Spans(p) : p \in {q \in All : q.r = r}}

Accounted(rem, All) ==
  /\ All \subseteq PieceType
  /\ \A p, q \in All : p.r = q.r /\ p # q => Spans(p) \cap Spans(q) = {}
  /\ \A p \in All : p.r \in DOMAIN rem
  /\ \A r \in DOMAIN rem : IsFiniteSet(Area(All, r)) /\ rem[r] = Cardinality(Area(All, r))

Redefers(q) == {i \in DOMAIN q : q[i].do = "defer"}

PlacesOK == Disjoint(Group) /\ GroupsOnce /\ Accounted(remaining, Union(Group))

Inv == TypeOK /\ (\A t \in Thread : CallOK(t)) /\ HeapsOK /\ PlacesOK /\ HeapsKept
---------------------------------------------------------------------------
(* A sequence, its elements and its members.                               *)
LEMMA SeqIs ==
  ASSUME NEW S, NEW q \in Seq(S)
  PROVE  /\ Len(q) \in Nat /\ DOMAIN q = 1 .. Len(q)
         /\ \A i \in 1 .. Len(q) : q[i] \in S
         /\ ToSet(q) \subseteq S /\ \A x : x \in ToSet(q) <=> \E i \in 1 .. Len(q) : x = q[i]
  BY LenProperties DEF ToSet

(* The empty sequence has no member.                                       *)
LEMMA NoneInEmpty ==
  IsInjective(<<>>) /\ ToSet(<<>>) = {}
  BY DEF IsInjective, ToSet

(* A sequence of one.                                                      *)
LEMMA OneInOne ==
  ASSUME NEW x
  PROVE  <<x>> \in Seq({x}) /\ IsInjective(<<x>>) /\ ToSet(<<x>>) = {x}
  BY DEF IsInjective, ToSet

(* Two sequences joined, without an element in common.                     *)
LEMMA JoinIs ==
  ASSUME NEW S, NEW a \in Seq(S), NEW b \in Seq(S)
  PROVE  /\ a \o b \in Seq(S) /\ Len(a \o b) = Len(a) + Len(b)
         /\ ToSet(a \o b) = ToSet(a) \cup ToSet(b)
         /\ IsInjective(a) /\ IsInjective(b) /\ ToSet(a) \cap ToSet(b) = {}
              => IsInjective(a \o b)
<1>. PICK m \in Nat : m = Len(a)
  BY SeqIs
<1>. PICK n \in Nat : n = Len(b)
  BY SeqIs
<1>. PICK c : c = a \o b
  OBVIOUS
<1>1. /\ c \in Seq(S) /\ Len(c) = m + n
      /\ \A i \in 1 .. m + n : c[i] = IF i <= m THEN a[i] ELSE b[i - m]
  BY ConcatProperties
<1>2. DOMAIN a = 1 .. m /\ DOMAIN b = 1 .. n /\ DOMAIN c = 1 .. m + n
  BY <1>1, SeqIs
<1>3. \A i \in 1 .. m : i \in 1 .. m + n /\ i <= m
  OBVIOUS
<1>4. \A i \in 1 .. n : m + i \in 1 .. m + n /\ ~(m + i <= m) /\ (m + i) - m = i
  OBVIOUS
<1>5. \A i \in 1 .. m : c[i] = a[i]
  BY <1>1, <1>3
<1>6. \A i \in 1 .. n : c[m + i] = b[i]
  <2>. SUFFICES ASSUME NEW i \in 1 .. n PROVE c[m + i] = b[i]
    OBVIOUS
  <2>1. c[m + i] = b[(m + i) - m]
    BY <1>1, <1>4
  <2>. QED
    BY <1>4, <2>1
<1>7. \A i \in 1 .. m + n : i \in 1 .. m \/ (i - m \in 1 .. n /\ m + (i - m) = i)
  OBVIOUS
<1>8. ToSet(c) = ToSet(a) \cup ToSet(b)
  <2>1. ASSUME NEW x \in ToSet(c) PROVE x \in ToSet(a) \cup ToSet(b)
    BY <1>2, <1>5, <1>6, <1>7 DEF ToSet
  <2>2. ASSUME NEW x \in ToSet(a) PROVE x \in ToSet(c)
    BY <1>2, <1>3, <1>5 DEF ToSet
  <2>3. ASSUME NEW x \in ToSet(b) PROVE x \in ToSet(c)
    BY <1>2, <1>4, <1>6 DEF ToSet
  <2>. QED
    BY <2>1, <2>2, <2>3
<1>9. ASSUME IsInjective(a), IsInjective(b), ToSet(a) \cap ToSet(b) = {}
      PROVE  IsInjective(c)
  <2>. SUFFICES ASSUME NEW i \in 1 .. m + n, NEW j \in 1 .. m + n, c[i] = c[j] PROVE i = j
    BY <1>2 DEF IsInjective
  <2>1. \A k \in 1 .. m : a[k] \in ToSet(a)
    BY <1>2 DEF ToSet
  <2>2. \A k \in 1 .. n : b[k] \in ToSet(b)
    BY <1>2 DEF ToSet
  <2>3. CASE i \in 1 .. m /\ j \in 1 .. m
    BY <1>2, <1>5, <1>9, <2>3 DEF IsInjective
  <2>4. CASE i \in 1 .. m /\ j - m \in 1 .. n /\ m + (j - m) = j
    BY <1>5, <1>6, <1>9, <2>1, <2>2, <2>4
  <2>5. CASE j \in 1 .. m /\ i - m \in 1 .. n /\ m + (i - m) = i
    BY <1>5, <1>6, <1>9, <2>1, <2>2, <2>5
  <2>6. CASE /\ i - m \in 1 .. n /\ m + (i - m) = i
             /\ j - m \in 1 .. n /\ m + (j - m) = j
    <3>1. b[i - m] = b[j - m]
      BY <1>6, <2>6
    <3>2. i - m = j - m
      BY <1>2, <1>9, <2>6, <3>1 DEF IsInjective
    <3>. QED
      BY <2>6, <3>2
  <2>. QED
    BY <1>7, <2>3, <2>4, <2>5, <2>6
<1>. QED
  BY <1>1, <1>8, <1>9

(* A queue cut in two.                                                     *)
LEMMA CutIs ==
  ASSUME NEW S, NEW q \in Seq(S), IsInjective(q), NEW n \in 0 .. Len(q)
  PROVE  /\ SubSeq(q, 1, n) \in Seq(S) /\ IsInjective(SubSeq(q, 1, n))
         /\ Len(SubSeq(q, 1, n)) = n
         /\ \A i \in 1 .. n : SubSeq(q, 1, n)[i] = q[i]
         /\ SubSeq(q, n + 1, Len(q)) \in Seq(S) /\ IsInjective(SubSeq(q, n + 1, Len(q)))
         /\ ToSet(SubSeq(q, 1, n)) \cup ToSet(SubSeq(q, n + 1, Len(q))) = ToSet(q)
         /\ ToSet(SubSeq(q, 1, n)) \cap ToSet(SubSeq(q, n + 1, Len(q))) = {}
<1>. DEFINE front == SubSeq(q, 1, n)
            rest  == SubSeq(q, n + 1, Len(q))
<1>1. Len(q) \in Nat /\ DOMAIN q = 1 .. Len(q) /\ n \in Nat /\ n <= Len(q)
  BY LenProperties
<1>2. \A i \in 1 .. Len(q) : q[i] \in S
  BY SeqIs
<1>3. /\ front \in Seq(S) /\ Len(front) = n
      /\ \A i \in 1 .. n : front[i] = q[i]
  BY <1>1, <1>2, SubSeqProperties
<1>4. /\ rest \in Seq(S) /\ Len(rest) = Len(q) - n
      /\ \A i \in 1 .. Len(q) - n : rest[i] = q[n + i]
  <2>1. \A i \in n + 1 .. Len(q) : q[i] \in S
    BY <1>1, <1>2
  <2>2. n + 1 \in Int /\ Len(q) \in Int
    BY <1>1
  <2>3. /\ rest \in Seq(S)
        /\ Len(rest) = IF n + 1 <= Len(q) THEN Len(q) - (n + 1) + 1 ELSE 0
        /\ \A i \in 1 .. Len(q) - (n + 1) + 1 : rest[i] = q[n + 1 + i - 1]
    BY <2>1, <2>2, SubSeqProperties
  <2>. HIDE DEF rest
  <2>4. \A i \in 1 .. Len(q) - n :
          i \in 1 .. Len(q) - (n + 1) + 1 /\ n + 1 + i - 1 = n + i
    BY <1>1
  <2>5. ASSUME NEW i \in 1 .. Len(q) - n PROVE rest[i] = q[n + i]
    BY <2>3, <2>4
  <2>6. Len(rest) = Len(q) - n
    <3>. DEFINE l == Len(q)
    <3>1. Len(rest) = IF n + 1 <= l THEN l - (n + 1) + 1 ELSE 0
      BY <2>3
    <3>2. l \in Nat /\ n \in Nat /\ n <= l
      BY <1>1
    <3>. HIDE DEF l
    <3>3. Len(rest) = l - n
      BY <3>1, <3>2
    <3>. QED
      BY <3>3 DEF l
  <2>. QED
    BY <2>3, <2>5, <2>6
<1>5. DOMAIN front = 1 .. n /\ DOMAIN rest = 1 .. Len(q) - n
  BY <1>3, <1>4, LenProperties
<1>. HIDE DEF front, rest
<1>6. \A i, j \in 1 .. Len(q) : q[i] = q[j] => i = j
  BY <1>1 DEF IsInjective
<1>7. IsInjective(front)
  BY <1>1, <1>3, <1>5, <1>6 DEF IsInjective
<1>8. IsInjective(rest)
  <2>. SUFFICES ASSUME NEW i \in 1 .. Len(q) - n, NEW j \in 1 .. Len(q) - n, rest[i] = rest[j]
                PROVE  i = j
    BY <1>5 DEF IsInjective
  <2>1. n + i \in 1 .. Len(q) /\ n + j \in 1 .. Len(q) /\ q[n + i] = q[n + j]
    BY <1>1, <1>4
  <2>. QED
    BY <1>1, <1>6, <2>1
<1>9. \A x : x \in ToSet(front) <=> \E i \in 1 .. n : x = q[i]
  BY <1>3, <1>5 DEF ToSet
<1>10. \A x : x \in ToSet(rest) <=> \E i \in n + 1 .. Len(q) : x = q[i]
  <2>1. ASSUME NEW x \in ToSet(rest) PROVE \E i \in n + 1 .. Len(q) : x = q[i]
    BY <1>1, <1>4, <1>5 DEF ToSet
  <2>2. ASSUME NEW i \in n + 1 .. Len(q) PROVE q[i] \in ToSet(rest)
    <3>1. i - n \in 1 .. Len(q) - n /\ n + (i - n) = i
      BY <1>1
    <3>2. rest[i - n] = q[i]
      BY <1>4, <3>1
    <3>. QED
      BY <1>5, <3>1, <3>2 DEF ToSet
  <2>. QED
    BY <2>1, <2>2
<1>11. ToSet(front) \cup ToSet(rest) = ToSet(q)
  <2>1. \A i \in 1 .. Len(q) : i \in 1 .. n \/ i \in n + 1 .. Len(q)
    BY <1>1
  <2>2. \A i : i \in 1 .. n \/ i \in n + 1 .. Len(q) => i \in 1 .. Len(q)
    BY <1>1
  <2>3. \A x : x \in ToSet(q) <=> \E i \in 1 .. Len(q) : x = q[i]
    BY <1>1 DEF ToSet
  <2>. QED
    BY <1>9, <1>10, <2>1, <2>2, <2>3
<1>12. ToSet(front) \cap ToSet(rest) = {}
  BY <1>1, <1>6, <1>9, <1>10
<1>. QED
  BY <1>3, <1>4, <1>7, <1>8, <1>11, <1>12 DEF front, rest

(* SetToSeq() of a finite set has each element once.                       *)
LEMMA SetToSeqIs ==
  ASSUME NEW S, IsFiniteSet(S)
  PROVE  /\ SetToSeq(S) \in Seq(S) /\ IsInjective(SetToSeq(S))
         /\ ToSet(SetToSeq(S)) = S /\ Len(SetToSeq(S)) = Cardinality(S)
<1>. DEFINE n == Cardinality(S)
            list == SetToSeq(S)
<1>1. n \in Nat /\ ExistsBijection(1 .. n, S)
  BY FS_CardinalityType
<1>2. PICK f \in Bijection(1 .. n, S) : TRUE
  BY <1>1 DEF ExistsBijection
<1>3. f \in [1 .. n -> S] /\ IsInjective(f)
  BY <1>2 DEF Bijection, Injection, Surjection, IsInjective
<1>4. list \in [1 .. n -> S] /\ IsInjective(list)
  BY <1>3 DEF SetToSeq
<1>. HIDE DEF list
<1>5. list \in Seq(S)
  BY <1>1, <1>4, SeqDef
<1>6. list \in Injection(1 .. n, S)
  BY <1>4 DEF Injection, IsInjective
<1>7. IsFiniteSet(1 .. n) /\ Cardinality(1 .. n) = n
  BY <1>1, FS_Interval
<1>8. list \in Surjection(1 .. n, S)
  BY <1>6, <1>7, FS_Injection
<1>9. ToSet(list) = S
  BY <1>4, <1>8 DEF Surjection, ToSet
<1>10. Len(list) = n
  BY <1>1, <1>4, <1>5
<1>. QED
  BY <1>4, <1>5, <1>9, <1>10 DEF list
---------------------------------------------------------------------------
(* The last and the first of a sequence, and what is left without it.      *)
LEMMA LastIs ==
  ASSUME NEW S, NEW q \in Seq(S), q # <<>>, IsInjective(q)
  PROVE  /\ Last(q) \in S /\ Last(q) \in ToSet(q) /\ Front(q) \in Seq(S)
         /\ IsInjective(Front(q)) /\ ToSet(Front(q)) = ToSet(q) \ {Last(q)}
<1>1. Len(q) \in Nat /\ Len(q) # 0
  BY EmptySeq
<1>. PICK n \in Nat : n = Len(q) - 1
  BY <1>1
<1>2. n \in 0 .. Len(q) /\ n + 1 = Len(q) /\ n + 1 \in 1 .. Len(q)
  BY <1>1
<1>3. q[n + 1] \in S /\ q[n + 1] \in ToSet(q)
  BY <1>2, SeqIs
<1>4. Last(q) = q[n + 1] /\ Front(q) = SubSeq(q, 1, n)
  BY <1>2 DEF Last, Front
<1>5. /\ SubSeq(q, 1, n) \in Seq(S) /\ IsInjective(SubSeq(q, 1, n)) /\ Len(SubSeq(q, 1, n)) = n
      /\ \A i \in 1 .. n : SubSeq(q, 1, n)[i] = q[i]
  BY <1>2, CutIs
<1>. PICK f : f = SubSeq(q, 1, n)
  OBVIOUS
<1>6. DOMAIN f = 1 .. n /\ DOMAIN q = 1 .. n + 1 /\ \A i \in 1 .. n : f[i] = q[i]
  BY <1>2, <1>5, SeqIs
<1>7. \A i \in 1 .. n + 1 : i = n + 1 \/ i \in 1 .. n
  OBVIOUS
<1>8. \A i \in 1 .. n : i \in 1 .. n + 1 /\ i # n + 1
  OBVIOUS
<1>9. ToSet(f) = ToSet(q) \ {q[n + 1]}
  <2>1. ASSUME NEW x \in ToSet(f) PROVE x \in ToSet(q) \ {q[n + 1]}
    <3>1. PICK i \in 1 .. n : x = q[i]
      BY <1>6 DEF ToSet
    <3>2. q[i] # q[n + 1]
      BY <1>2, <1>6, <1>8 DEF IsInjective
    <3>. QED
      BY <1>6, <1>8, <3>1, <3>2 DEF ToSet
  <2>2. ASSUME NEW x \in ToSet(q) \ {q[n + 1]} PROVE x \in ToSet(f)
    BY <1>6, <1>7 DEF ToSet
  <2>. QED
    BY <2>1, <2>2
<1>. QED
  BY <1>3, <1>4, <1>5, <1>9

(* The first of a sequence, and what is left without it.                   *)
LEMMA HeadIs ==
  ASSUME NEW S, NEW q \in Seq(S), q # <<>>
  PROVE  /\ Head(q) \in S /\ Head(q) = q[1] /\ Tail(q) \in Seq(S)
         /\ Len(q) \in Nat \ {0} /\ Len(Tail(q)) = Len(q) - 1
         /\ \A i \in 1 .. Len(q) - 1 : Tail(q)[i] = q[i + 1]
         /\ ToSet(q) = {Head(q)} \cup ToSet(Tail(q))
         /\ IsInjective(q) => IsInjective(Tail(q)) /\ Head(q) \notin ToSet(Tail(q))
<1>1. Len(q) \in Nat /\ Len(q) # 0
  BY EmptySeq
<1>. PICK n \in Nat : n = Len(q) - 1
  BY <1>1
<1>2. n + 1 = Len(q)
  BY <1>1
<1>3. /\ Head(q) \in S /\ Tail(q) \in Seq(S) /\ Len(Tail(q)) = n
      /\ \A i \in 1 .. n : Tail(q)[i] = q[i + 1]
  BY HeadTailProperties
<1>4. Head(q) = q[1]
  BY <1>1
<1>. PICK t : t = Tail(q)
  OBVIOUS
<1>5. DOMAIN t = 1 .. n /\ DOMAIN q = 1 .. n + 1 /\ \A i \in 1 .. n : t[i] = q[i + 1]
  BY <1>2, <1>3, SeqIs
<1>6. \A i \in 1 .. n : i + 1 \in 1 .. n + 1 /\ i + 1 # 1
  OBVIOUS
<1>7. \A i \in 1 .. n + 1 : i = 1 \/ (i - 1 \in 1 .. n /\ (i - 1) + 1 = i)
  OBVIOUS
<1>8. 1 \in 1 .. n + 1
  OBVIOUS
<1>9. ToSet(q) = {q[1]} \cup ToSet(t)
  <2>1. ASSUME NEW x \in ToSet(q) PROVE x \in {q[1]} \cup ToSet(t)
    <3>1. PICK i \in 1 .. n + 1 : x = q[i]
      BY <1>5 DEF ToSet
    <3>2. CASE i = 1
      BY <3>1, <3>2
    <3>3. CASE i - 1 \in 1 .. n /\ (i - 1) + 1 = i
      BY <1>5, <3>1, <3>3 DEF ToSet
    <3>. QED
      BY <1>7, <3>2, <3>3
  <2>2. q[1] \in ToSet(q)
    BY <1>5, <1>8 DEF ToSet
  <2>3. ASSUME NEW x \in ToSet(t) PROVE x \in ToSet(q)
    BY <1>5, <1>6 DEF ToSet
  <2>. QED
    BY <2>1, <2>2, <2>3
<1>10. ASSUME IsInjective(q) PROVE IsInjective(t) /\ q[1] \notin ToSet(t)
  BY <1>5, <1>6, <1>8, <1>10 DEF IsInjective, ToSet
<1>. QED
  BY <1>1, <1>3, <1>4, <1>9, <1>10

(* One more at the end of a sequence.                                      *)
LEMMA AppendIs ==
  ASSUME NEW S, NEW q \in Seq(S), NEW x \in S
  PROVE  /\ Append(q, x) \in Seq(S) /\ Len(Append(q, x)) = Len(q) + 1
         /\ ToSet(Append(q, x)) = ToSet(q) \cup {x}
         /\ IsInjective(q) /\ x \notin ToSet(q) => IsInjective(Append(q, x))
<1>1. <<x>> \in Seq(S) /\ Len(<<x>>) = 1 /\ IsInjective(<<x>>) /\ ToSet(<<x>>) = {x}
  BY OneInOne
<1>2. Append(q, x) = q \o <<x>>
  BY AppendIsConcat
<1>. PICK o : o = <<x>>
  OBVIOUS
<1>3. /\ q \o o \in Seq(S) /\ Len(q \o o) = Len(q) + Len(o)
      /\ ToSet(q \o o) = ToSet(q) \cup ToSet(o)
      /\ IsInjective(q) /\ IsInjective(o) /\ ToSet(q) \cap ToSet(o) = {} => IsInjective(q \o o)
  BY ZenonT(60), <1>1, JoinIs
<1>. QED
  BY <1>1, <1>2, <1>3

(* One more at the front of a sequence.                                    *)
LEMMA ConsIs ==
  ASSUME NEW S, NEW q \in Seq(S), NEW x \in S
  PROVE  /\ <<x>> \o q \in Seq(S) /\ Len(<<x>> \o q) = Len(q) + 1
         /\ ToSet(<<x>> \o q) = ToSet(q) \cup {x}
         /\ IsInjective(q) /\ x \notin ToSet(q) => IsInjective(<<x>> \o q)
<1>1. <<x>> \in Seq(S) /\ Len(<<x>>) = 1 /\ IsInjective(<<x>>) /\ ToSet(<<x>>) = {x}
  BY OneInOne
<1>. PICK o : o = <<x>>
  OBVIOUS
<1>2. /\ o \o q \in Seq(S) /\ Len(o \o q) = Len(o) + Len(q)
      /\ ToSet(o \o q) = ToSet(o) \cup ToSet(q)
      /\ IsInjective(o) /\ IsInjective(q) /\ ToSet(o) \cap ToSet(q) = {} => IsInjective(o \o q)
  BY <1>1, JoinIs
<1>3. Len(q) \in Nat
  BY SeqIs
<1>. QED
  BY <1>1, <1>2, <1>3

(* No piece is twice in a family: not in a sequence, not in two.           *)
LEMMA OnceIs ==
  ASSUME NEW Q
  PROVE  Once(Q) <=> /\ \A k \in DOMAIN Q : IsInjective(Q[k])
                     /\ \A k, l \in DOMAIN Q : k # l => ToSet(Q[k]) \cap ToSet(Q[l]) = {}
<1>1. ASSUME Once(Q)
      PROVE  /\ \A k \in DOMAIN Q : IsInjective(Q[k])
             /\ \A k, l \in DOMAIN Q : k # l => ToSet(Q[k]) \cap ToSet(Q[l]) = {}
  BY <1>1 DEF Once, IsInjective, ToSet
<1>2. ASSUME \A k \in DOMAIN Q : IsInjective(Q[k]),
             \A k, l \in DOMAIN Q : k # l => ToSet(Q[k]) \cap ToSet(Q[l]) = {}
      PROVE  Once(Q)
  <2>. SUFFICES ASSUME NEW k \in DOMAIN Q, NEW l \in DOMAIN Q,
                       NEW i \in DOMAIN Q[k], NEW j \in DOMAIN Q[l], Q[k][i] = Q[l][j]
                PROVE  k = l /\ i = j
    BY DEF Once
  <2>1. Q[k][i] \in ToSet(Q[k]) /\ Q[l][j] \in ToSet(Q[l])
    BY DEF ToSet
  <2>2. k = l
    BY <1>2, <2>1
  <2>3. i = j
    BY <1>2, <2>2 DEF IsInjective
  <2>. QED
    BY <2>2, <2>3
<1>. QED
  BY <1>1, <1>2

(* One sequence of a family is exchanged.                                  *)
LEMMA FamilySet ==
  ASSUME NEW Q, Once(Q), NEW k \in DOMAIN Q, NEW s, IsInjective(s),
         ToSet(s) \cap (Among(Q) \ ToSet(Q[k])) = {},
         NEW R, DOMAIN R = DOMAIN Q, R[k] = s, \A l \in DOMAIN Q : l # k => R[l] = Q[l]
  PROVE  Once(R) /\ Among(R) = (Among(Q) \ ToSet(Q[k])) \cup ToSet(s)
<1>1. /\ \A l \in DOMAIN Q : IsInjective(Q[l])
      /\ \A l, m \in DOMAIN Q : l # m => ToSet(Q[l]) \cap ToSet(Q[m]) = {}
  BY OnceIs
<1>2. \A l \in DOMAIN Q : l # k => ToSet(Q[l]) \subseteq Among(Q) \ ToSet(Q[k])
  <2>. SUFFICES ASSUME NEW l \in DOMAIN Q, l # k
                PROVE  ToSet(Q[l]) \subseteq Among(Q) \ ToSet(Q[k])
    OBVIOUS
  <2>1. ToSet(Q[l]) \subseteq Among(Q)
    BY DEF Among
  <2>. QED
    BY <1>1, <2>1
<1>3. \A l \in DOMAIN R : IsInjective(R[l])
  BY <1>1
<1>4. \A l, m \in DOMAIN R : l # m => ToSet(R[l]) \cap ToSet(R[m]) = {}
  <2>. SUFFICES ASSUME NEW l \in DOMAIN Q, NEW m \in DOMAIN Q, l # m
                PROVE  ToSet(R[l]) \cap ToSet(R[m]) = {}
    OBVIOUS
  <2>1. CASE l # k /\ m # k
    BY <1>1, <2>1
  <2>2. CASE l = k
    BY <1>2, <2>2
  <2>3. CASE m = k
    BY <1>2, <2>3
  <2>. QED
    BY <2>1, <2>2, <2>3
<1>5. Once(R)
  BY <1>3, <1>4, OnceIs
<1>6. Among(R) \subseteq (Among(Q) \ ToSet(Q[k])) \cup ToSet(s)
  <2>. SUFFICES ASSUME NEW l \in DOMAIN Q, NEW x \in ToSet(R[l])
                PROVE  x \in (Among(Q) \ ToSet(Q[k])) \cup ToSet(s)
    BY DEF Among
  <2>. QED
    BY <1>2
<1>7. ToSet(s) \subseteq Among(R)
  BY DEF Among
<1>8. ASSUME NEW x \in Among(Q) \ ToSet(Q[k]) PROVE x \in Among(R)
  BY DEF Among
<1>. QED
  BY <1>5, <1>6, <1>7, <1>8

(* A family that is cut off its first sequence, or joined from two.        *)
LEMMA FamilyTail ==
  ASSUME NEW S, NEW Q \in Seq(S), Q # <<>>, Once(Q)
  PROVE  /\ Once(Tail(Q)) /\ IsInjective(Head(Q)) /\ ToSet(Head(Q)) \cap Among(Tail(Q)) = {}
         /\ Among(Q) = ToSet(Head(Q)) \cup Among(Tail(Q))
<1>1. /\ Head(Q) = Q[1] /\ Tail(Q) \in Seq(S) /\ Len(Q) \in Nat \ {0}
      /\ Len(Tail(Q)) = Len(Q) - 1 /\ \A i \in 1 .. Len(Q) - 1 : Tail(Q)[i] = Q[i + 1]
  BY HeadIs
<1>0. Len(Q) - 1 \in Nat
  BY <1>1
<1>. PICK n \in Nat : n = Len(Q) - 1
  BY <1>0
<1>. PICK T : T = Tail(Q)
  OBVIOUS
<1>2. DOMAIN Q = 1 .. n + 1 /\ DOMAIN T = 1 .. n /\ \A i \in 1 .. n : T[i] = Q[i + 1]
  BY <1>1, SeqIs
<1>3. /\ \A i \in 1 .. n : i + 1 \in 1 .. n + 1 /\ i + 1 # 1
      /\ \A i, j \in 1 .. n : i # j => i + 1 # j + 1
      /\ 1 \in 1 .. n + 1
      /\ \A i \in 1 .. n + 1 : i = 1 \/ (i - 1 \in 1 .. n /\ (i - 1) + 1 = i)
  OBVIOUS
<1>4. /\ \A k \in 1 .. n + 1 : IsInjective(Q[k])
      /\ \A k, l \in 1 .. n + 1 : k # l => ToSet(Q[k]) \cap ToSet(Q[l]) = {}
  BY <1>2, OnceIs
<1>5. /\ \A k \in 1 .. n : IsInjective(T[k])
      /\ \A k, l \in 1 .. n : k # l => ToSet(T[k]) \cap ToSet(T[l]) = {}
  <2>. SUFFICES ASSUME NEW k \in 1 .. n, NEW l \in 1 .. n
                PROVE  IsInjective(T[k]) /\ (k # l => ToSet(T[k]) \cap ToSet(T[l]) = {})
    OBVIOUS
  <2>1. T[k] = Q[k + 1] /\ T[l] = Q[l + 1]
    BY <1>2
  <2>2. k + 1 \in 1 .. n + 1 /\ l + 1 \in 1 .. n + 1 /\ (k # l => k + 1 # l + 1)
    BY <1>3
  <2>. QED
    BY <1>4, <2>1, <2>2
<1>6. Once(T)
  BY <1>2, <1>5, OnceIs
<1>7. ToSet(Q[1]) \cap Among(T) = {}
  BY <1>2, <1>3, <1>4 DEF Among
<1>8. Among(Q) = ToSet(Q[1]) \cup Among(T)
  BY <1>2, <1>3 DEF Among
<1>. QED
  BY <1>1, <1>3, <1>4, <1>6, <1>7, <1>8

(* Two families of queues that have nothing in common make one.            *)
LEMMA FamilyJoin ==
  ASSUME NEW S, NEW A \in Seq(S), NEW B \in Seq(S)
  PROVE  /\ Among(A \o B) = Among(A) \cup Among(B)
         /\ Once(A) /\ Once(B) /\ Among(A) \cap Among(B) = {} => Once(A \o B)
<1>. PICK m \in Nat : m = Len(A)
  BY SeqIs
<1>. PICK n \in Nat : n = Len(B)
  BY SeqIs
<1>. PICK C : C = A \o B
  OBVIOUS
<1>1. /\ C \in Seq(S) /\ Len(C) = m + n
      /\ \A i \in 1 .. m + n : C[i] = IF i <= m THEN A[i] ELSE B[i - m]
  BY ConcatProperties
<1>2. DOMAIN A = 1 .. m /\ DOMAIN B = 1 .. n /\ DOMAIN C = 1 .. m + n
  BY <1>1, SeqIs
<1>3. /\ \A i \in 1 .. m : i \in 1 .. m + n /\ i <= m
      /\ \A i \in 1 .. n : m + i \in 1 .. m + n /\ ~(m + i <= m) /\ (m + i) - m = i
      /\ \A i \in 1 .. m + n : i \in 1 .. m \/ (i - m \in 1 .. n /\ m + (i - m) = i)
      /\ \A i, j \in 1 .. m + n : i # j => i - m # j - m
  OBVIOUS
<1>4. \A i \in 1 .. m : C[i] = A[i]
  BY <1>1, <1>3
<1>5. \A i \in 1 .. n : C[m + i] = B[i]
  <2>. SUFFICES ASSUME NEW i \in 1 .. n PROVE C[m + i] = B[i]
    OBVIOUS
  <2>1. C[m + i] = B[(m + i) - m]
    BY <1>1, <1>3
  <2>. QED
    BY <1>3, <2>1
<1>6. \A i \in 1 .. m + n : \/ i \in 1 .. m /\ C[i] = A[i]
                            \/ i - m \in 1 .. n /\ C[i] = B[i - m]
  <2>. SUFFICES ASSUME NEW i \in 1 .. m + n
                PROVE  \/ i \in 1 .. m /\ C[i] = A[i]
                       \/ i - m \in 1 .. n /\ C[i] = B[i - m]
    OBVIOUS
  <2>1. CASE i \in 1 .. m
    BY <1>4, <2>1
  <2>2. CASE i - m \in 1 .. n /\ m + (i - m) = i
    BY <1>5, <2>2
  <2>. QED
    BY <1>3, <2>1, <2>2
<1>7. Among(C) = Among(A) \cup Among(B)
  <2>1. ASSUME NEW x \in Among(C) PROVE x \in Among(A) \cup Among(B)
    BY <1>2, <1>6 DEF Among
  <2>2. Among(A) \subseteq Among(C)
    BY <1>2, <1>3, <1>4 DEF Among
  <2>3. ASSUME NEW x \in Among(B) PROVE x \in Among(C)
    <3>1. PICK i \in 1 .. n : x \in ToSet(B[i])
      BY <1>2 DEF Among
    <3>2. m + i \in DOMAIN C /\ C[m + i] = B[i]
      BY <1>2, <1>3, <1>5
    <3>. QED
      BY <3>1, <3>2 DEF Among
  <2>. QED
    BY <2>1, <2>2, <2>3
<1>8. ASSUME Once(A), Once(B), Among(A) \cap Among(B) = {} PROVE Once(C)
  <2>1. /\ \A k \in 1 .. m : IsInjective(A[k])
        /\ \A k, l \in 1 .. m : k # l => ToSet(A[k]) \cap ToSet(A[l]) = {}
    BY <1>2, <1>8, OnceIs
  <2>2. /\ \A k \in 1 .. n : IsInjective(B[k])
        /\ \A k, l \in 1 .. n : k # l => ToSet(B[k]) \cap ToSet(B[l]) = {}
    BY <1>2, <1>8, OnceIs
  <2>3. /\ \A k \in 1 .. m : ToSet(A[k]) \subseteq Among(A)
        /\ \A k \in 1 .. n : ToSet(B[k]) \subseteq Among(B)
    BY <1>2 DEF Among
  <2>4. \A k \in 1 .. m + n : IsInjective(C[k])
    BY <1>6, <2>1, <2>2
  <2>5. \A k, l \in 1 .. m + n : k # l => ToSet(C[k]) \cap ToSet(C[l]) = {}
    <3>. SUFFICES ASSUME NEW k \in 1 .. m + n, NEW l \in 1 .. m + n, k # l
                  PROVE  ToSet(C[k]) \cap ToSet(C[l]) = {}
      OBVIOUS
    <3>1. CASE k \in 1 .. m /\ C[k] = A[k]
      BY <1>6, <1>8, <2>1, <2>3, <3>1
    <3>2. CASE k - m \in 1 .. n /\ C[k] = B[k - m]
      <4>1. CASE l \in 1 .. m /\ C[l] = A[l]
        BY <1>8, <2>3, <3>2, <4>1
      <4>2. CASE l - m \in 1 .. n /\ C[l] = B[l - m]
        <5>1. k - m # l - m
          BY <1>3
        <5>. QED
          BY <2>2, <3>2, <4>2, <5>1
      <4>. QED
        BY <1>6, <4>1, <4>2
    <3>. QED
      BY <1>6, <3>1, <3>2
  <2>. QED
    BY <1>2, <2>4, <2>5, OnceIs
<1>. QED
  BY <1>7, <1>8
---------------------------------------------------------------------------
RemOK(rem) == DOMAIN rem \subseteq Region /\ rem \in [DOMAIN rem -> Nat \ {0}]

(* The spans of a piece: there are p.n of them.                            *)
LEMMA SpansAre ==
  ASSUME NEW p \in PieceType
  PROVE  /\ p.r \in Region /\ p.off \in Nat /\ p.n \in Nat \ {0}
         /\ IsFiniteSet(Spans(p)) /\ Cardinality(Spans(p)) = p.n /\ Spans(p) # {}
<1>1. p.r \in Region /\ p.off \in Nat /\ p.n \in Nat \ {0}
  BY DEF PieceType
<1>. PICK a \in Nat, n \in Nat \ {0} : a = p.off /\ n = p.n
  BY <1>1
<1>2. a \in Int /\ a + n - 1 \in Int /\ ~(a > a + n - 1) /\ (a + n - 1) - a + 1 = n
  OBVIOUS
<1>3. IsFiniteSet(a .. a + n - 1) /\ Cardinality(a .. a + n - 1) = n
  BY <1>2, FS_Interval
<1>4. Spans(p) = a .. a + n - 1
  BY DEF Spans
<1>5. a \in a .. a + n - 1
  BY <1>2
<1>. QED
  BY <1>1, <1>3, <1>4, <1>5

(* The spans of a piece are in the area of its region.                     *)
LEMMA AreaHas ==
  ASSUME NEW All, NEW p \in All
  PROVE  Spans(p) \subseteq Area(All, p.r)
  BY DEF Area

(* Unmapping a piece is what its region's count is told.                   *)
LEMMA UnmapIs ==
  ASSUME NEW rem, RemOK(rem), NEW All, Accounted(rem, All), NEW p \in All
  PROVE  /\ RemOK(Unmapped(rem, p)) /\ Accounted(Unmapped(rem, p), All \ {p})
         /\ DOMAIN Unmapped(rem, p) \subseteq DOMAIN rem
<1>. DEFINE Rest == All \ {p}
            new == Unmapped(rem, p)
<1>1. /\ All \subseteq PieceType /\ p \in PieceType /\ p.r \in DOMAIN rem
      /\ \A q, s \in All : q.r = s.r /\ q # s => Spans(q) \cap Spans(s) = {}
      /\ \A q \in All : q.r \in DOMAIN rem
      /\ \A r \in DOMAIN rem : IsFiniteSet(Area(All, r)) /\ rem[r] = Cardinality(Area(All, r))
  BY DEF Accounted
<1>2. /\ p.n \in Nat \ {0} /\ IsFiniteSet(Spans(p)) /\ Cardinality(Spans(p)) = p.n
      /\ rem[p.r] \in Nat \ {0}
  BY <1>1, SpansAre DEF RemOK
<1>3. Area(Rest, p.r) = Area(All, p.r) \ Spans(p)
  BY <1>1 DEF Area
<1>4. \A r : r # p.r => Area(Rest, r) = Area(All, r)
  BY DEF Area
<1>5. /\ IsFiniteSet(Area(Rest, p.r)) /\ Cardinality(Area(Rest, p.r)) \in Nat
      /\ Cardinality(Area(Rest, p.r)) = rem[p.r] - p.n
  <2>. PICK A : A = Area(All, p.r)
    OBVIOUS
  <2>. PICK B : B = Spans(p)
    OBVIOUS
  <2>1. IsFiniteSet(A) /\ Cardinality(A) = rem[p.r] /\ B \subseteq A
    BY <1>1, AreaHas
  <2>2. A \cap B = B
    BY <2>1
  <2>3. IsFiniteSet(A \ B) /\ Cardinality(A \ B) = Cardinality(A) - Cardinality(A \cap B)
    BY <2>1, FS_Difference
  <2>4. Cardinality(A \ B) \in Nat
    BY <2>3, FS_CardinalityType
  <2>. QED
    BY <1>2, <1>3, <2>1, <2>2, <2>3, <2>4
<1>6. \A q \in Rest : q \in All /\ q \in PieceType /\ q.r \in DOMAIN rem /\ Spans(q) # {}
  BY <1>1, SpansAre
<1>7. \A q, s \in Rest : q.r = s.r /\ q # s => Spans(q) \cap Spans(s) = {}
  BY <1>1
<1>8. CASE rem[p.r] - p.n <= 0
  <2>1. new = [r \in DOMAIN rem \ {p.r} |-> rem[r]]
    BY <1>8 DEF Unmapped
  <2>2. Area(Rest, p.r) = {}
    BY <1>5, <1>8, FS_EmptySet
  <2>3. \A q \in Rest : q.r # p.r
    BY <1>6, <2>2, AreaHas
  <2>4. RemOK(new) /\ DOMAIN new \subseteq DOMAIN rem
    BY <2>1 DEF RemOK
  <2>5. \A r \in DOMAIN new : IsFiniteSet(Area(Rest, r)) /\ new[r] = Cardinality(Area(Rest, r))
    BY <1>1, <1>4, <2>1
  <2>6. \A q \in Rest : q.r \in DOMAIN new
    BY <1>6, <2>1, <2>3
  <2>7. Rest \subseteq PieceType
    BY <1>6
  <2>8. Accounted(new, Rest)
    BY <1>7, <2>5, <2>6, <2>7 DEF Accounted
  <2>. QED
    BY <2>4, <2>8
<1>9. CASE ~(rem[p.r] - p.n <= 0)
  <2>1. new = [rem EXCEPT ![p.r] = @ - p.n]
    BY <1>9 DEF Unmapped
  <2>2. rem[p.r] - p.n \in Nat \ {0}
    BY <1>2, <1>9
  <2>3. /\ DOMAIN new = DOMAIN rem /\ new[p.r] = rem[p.r] - p.n
        /\ \A r \in DOMAIN rem : r # p.r => new[r] = rem[r]
    BY <1>1, <2>1 DEF RemOK
  <2>4. RemOK(new) /\ DOMAIN new \subseteq DOMAIN rem
    BY <2>1, <2>2, <2>3 DEF RemOK
  <2>5. \A r \in DOMAIN new : IsFiniteSet(Area(Rest, r)) /\ new[r] = Cardinality(Area(Rest, r))
    BY <1>1, <1>4, <1>5, <2>3
  <2>6. Accounted(new, Rest)
    BY <1>6, <1>7, <2>3, <2>5 DEF Accounted
  <2>. QED
    BY <2>4, <2>6
<1>. QED
  BY <1>8, <1>9

(* A region that is mapped, with the pieces it is divided into.            *)
WithRegion(new, rem, r, n) ==
  new = [s \in DOMAIN rem \cup {r} |-> IF s = r THEN n ELSE rem[s]]

(* A new region is cut into the pieces that cover it.                      *)
LEMMA MapIs ==
  ASSUME NEW rem, RemOK(rem), NEW All, Accounted(rem, All), NEW r \in Region \ DOMAIN rem,
         NEW New \in SUBSET PieceType, NEW n \in Nat \ {0},
         \A p \in New : p.r = r,
         \A p, q \in New : p # q => Spans(p) \cap Spans(q) = {},
         Area(New, r) = 0 .. n - 1,
         NEW new, WithRegion(new, rem, r, n)
  PROVE  RemOK(new) /\ Accounted(new, All \cup New) /\ All \cap New = {}
<1>w. new = [s \in DOMAIN rem \cup {r} |-> IF s = r THEN n ELSE rem[s]]
  BY DEF WithRegion
<1>1. /\ All \subseteq PieceType
      /\ \A q, s \in All : q.r = s.r /\ q # s => Spans(q) \cap Spans(s) = {}
      /\ \A q \in All : q.r \in DOMAIN rem
      /\ \A s \in DOMAIN rem : IsFiniteSet(Area(All, s)) /\ rem[s] = Cardinality(Area(All, s))
  BY DEF Accounted
<1>2. RemOK(new)
  BY <1>w DEF RemOK
<1>3. All \cap New = {}
  BY <1>1
<1>4. \A q, s \in All \cup New : q.r = s.r /\ q # s => Spans(q) \cap Spans(s) = {}
  BY <1>1
<1>5. \A q \in All \cup New : q.r \in DOMAIN new
  BY <1>1, <1>w
<1>6. Area(All \cup New, r) = Area(New, r)
  BY <1>1 DEF Area
<1>7. \A s \in DOMAIN rem : Area(All \cup New, s) = Area(All, s)
  BY DEF Area
<1>8. IsFiniteSet(Area(New, r)) /\ n = Cardinality(Area(New, r))
  <2>1. IsFiniteSet(0 .. n - 1) /\ Cardinality(0 .. n - 1) = IF 0 > n - 1 THEN 0 ELSE n - 1 - 0 + 1
    BY FS_Interval
  <2>. QED
    BY <2>1
<1>9. ASSUME NEW s \in DOMAIN new
      PROVE  IsFiniteSet(Area(All \cup New, s)) /\ new[s] = Cardinality(Area(All \cup New, s))
  BY <1>w, <1>1, <1>6, <1>7, <1>8
<1>. QED
  BY <1>1, <1>2, <1>3, <1>4, <1>5, <1>9 DEF Accounted

(* A piece cut in two: both are new.                                       *)
LEMMA CutInTwo ==
  ASSUME NEW rem, NEW All, Accounted(rem, All), NEW p \in All,
         NEW a \in PieceType, NEW b \in PieceType, a.r = p.r, b.r = p.r,
         Spans(a) \cup Spans(b) = Spans(p), Spans(a) \cap Spans(b) = {}
  PROVE  /\ Accounted(rem, (All \ {p}) \cup {a, b})
         /\ a # b /\ a \notin All \ {p} /\ b \notin All \ {p}
<1>. DEFINE New == (All \ {p}) \cup {a, b}
<1>1. /\ All \subseteq PieceType
      /\ \A q, s \in All : q.r = s.r /\ q # s => Spans(q) \cap Spans(s) = {}
      /\ \A q \in All : q.r \in DOMAIN rem
      /\ \A s \in DOMAIN rem : IsFiniteSet(Area(All, s)) /\ rem[s] = Cardinality(Area(All, s))
  BY DEF Accounted
<1>2. Spans(a) # {} /\ Spans(b) # {}
  BY SpansAre
<1>3. \A q \in All \ {p} : q.r = p.r => Spans(q) \cap Spans(a) = {} /\ Spans(q) \cap Spans(b) = {}
  BY <1>1
<1>4. a # b /\ a \notin All \ {p} /\ b \notin All \ {p}
  BY <1>2, <1>3
<1>5. ASSUME NEW q \in New, NEW s \in New, q.r = s.r, q # s PROVE Spans(q) \cap Spans(s) = {}
  BY <1>1, <1>3, <1>5
<1>6. \A q \in New : q \in PieceType /\ q.r \in DOMAIN rem
  BY <1>1
<1>7. ASSUME NEW r PROVE Area(New, r) = Area(All, r)
  BY DEF Area
<1>8. Accounted(rem, New)
  BY <1>1, <1>5, <1>6, <1>7 DEF Accounted
<1>. QED
  BY <1>4, <1>8
---------------------------------------------------------------------------
(* A set of numbers that is not empty has a least one.                     *)
LEMMA LeastOf ==
  ASSUME NEW T \in SUBSET Nat, T # {}
  PROVE  \E x \in T : \A y \in T : x <= y
<1>1. PICK x \in T : \A y \in T : <<y, x>> \notin OpToRel(<, Nat)
  BY NatLessThanWellFounded, WFMin
<1>2. \A y \in T : ~(y < x)
  BY <1>1 DEF OpToRel
<1>. QED
  BY <1>2

(* The sum of the span counts is the number of spans, where no two pieces  *)
(* have one in common.                                                     *)
Total(X) == UNION {Spans(PieceAt(x)) : x \in X}

Adds(g, X) ==
  g = [s \in SUBSET X |-> IF s = {} THEN 0
                          ELSE PieceAt(CHOOSE x \in s : TRUE).n
                                 + g[s \ {CHOOSE x \in s : TRUE}]]

(* The spans of all pieces but one.                                        *)
LEMMA TotalWithout ==
  ASSUME NEW X, IsFiniteSet(X), \A x \in X : PieceAt(x) \in PieceType,
         \A x, y \in X : x # y => Spans(PieceAt(x)) \cap Spans(PieceAt(y)) = {},
         NEW s \in SUBSET X, NEW x \in s
  PROVE  /\ IsFiniteSet(Total(s))
         /\ Cardinality(Total(s)) = PieceAt(x).n + Cardinality(Total(s \ {x}))
<1>1. IsFiniteSet(s) /\ IsFiniteSet(s \ {x})
  BY FS_Subset
<1>2. /\ PieceAt(x).n \in Nat \ {0} /\ IsFiniteSet(Spans(PieceAt(x)))
      /\ Cardinality(Spans(PieceAt(x))) = PieceAt(x).n
  BY SpansAre
<1>3. \A T \in {Spans(PieceAt(y)) : y \in s \ {x}} : IsFiniteSet(T)
  BY SpansAre
<1>4. IsFiniteSet({Spans(PieceAt(y)) : y \in s \ {x}})
  <2>. DEFINE T == {Spans(PieceAt(y)) : y \in s \ {x}}
              f == [y \in s \ {x} |-> Spans(PieceAt(y))]
  <2>1. f \in Surjection(s \ {x}, T)
    BY DEF Surjection
  <2>. HIDE DEF f, T
  <2>2. IsFiniteSet(T)
    BY <1>1, <2>1, FS_Surjection
  <2>. QED
    BY <2>2 DEF T
<1>5. IsFiniteSet(Total(s \ {x}))
  BY <1>3, <1>4, FS_UNION DEF Total
<1>6. Total(s) = Spans(PieceAt(x)) \cup Total(s \ {x})
  BY DEF Total
<1>7. Spans(PieceAt(x)) \cap Total(s \ {x}) = {}
  BY DEF Total
<1>. PICK A, B : A = Spans(PieceAt(x)) /\ B = Total(s \ {x})
  OBVIOUS
<1>8. /\ IsFiniteSet(A \cup B)
      /\ Cardinality(A \cup B) = Cardinality(A) + Cardinality(B) - Cardinality(A \cap B)
  BY <1>2, <1>5, FS_Union
<1>9. Cardinality(A \cap B) = 0 /\ Cardinality(B) \in Nat
  BY <1>5, <1>7, FS_EmptySet, FS_CardinalityType
<1>. QED
  BY <1>2, <1>6, <1>8, <1>9

(* Adding up the sizes of disjoint pieces counts their spans.              *)
LEMMA AddsTotal ==
  ASSUME NEW X, IsFiniteSet(X), \A x \in X : PieceAt(x) \in PieceType,
         \A x, y \in X : x # y => Spans(PieceAt(x)) \cap Spans(PieceAt(y)) = {},
         NEW g, Adds(g, X)
  PROVE  g[X] = Cardinality(Total(X))
<1>. DEFINE Bad == {s \in SUBSET X : g[s] # Cardinality(Total(s))}
            Sizes == {Cardinality(s) : s \in Bad}
<1>. SUFFICES ASSUME Bad # {} PROVE FALSE
  OBVIOUS
<1>1. \A s \in SUBSET X : IsFiniteSet(s) /\ Cardinality(s) \in Nat
  BY FS_Subset, FS_CardinalityType
<1>2. Sizes \in SUBSET Nat /\ Sizes # {}
  BY <1>1
<1>3. PICK m \in Sizes : \A k \in Sizes : m <= k
  BY <1>2, LeastOf
<1>4. PICK s \in Bad : m = Cardinality(s)
  BY <1>3
<1>5. s \in SUBSET X /\ g[s] # Cardinality(Total(s))
  BY <1>4
<1>6. s # {}
  <2>1. g[{}] = 0
    BY DEF Adds
  <2>2. Total({}) = {}
    BY DEF Total
  <2>. QED
    BY <1>5, <2>1, <2>2, FS_EmptySet
<1>. PICK x : x = CHOOSE y \in s : TRUE
  OBVIOUS
<1>7. x \in s
  BY <1>6
<1>8. g[s] = PieceAt(x).n + g[s \ {x}]
  BY <1>5, <1>6 DEF Adds
<1>9. s \ {x} \in SUBSET X /\ Cardinality(s \ {x}) = m - 1
  BY <1>1, <1>4, <1>5, <1>7, FS_RemoveElement
<1>10. s \ {x} \notin Bad
  <2>1. m \in Nat /\ ~(m <= m - 1)
    BY <1>2
  <2>. QED
    BY <1>3, <1>9, <2>1
<1>11. g[s \ {x}] = Cardinality(Total(s \ {x}))
  BY <1>9, <1>10
<1>. QED
  BY <1>5, <1>7, <1>8, <1>11, TotalWithout

(* MapThenSumSet of the sizes of disjoint pieces counts their spans.       *)
LEMMA SumIs ==
  ASSUME NEW X, IsFiniteSet(X), \A x \in X : PieceAt(x) \in PieceType,
         \A x, y \in X : x # y => Spans(PieceAt(x)) \cap Spans(PieceAt(y)) = {}
  PROVE  LET Count(x) == PieceAt(x).n
         IN  MapThenSumSet(Count, X) = Cardinality(Total(X))
<1>. DEFINE Count(x) == PieceAt(x).n
            g == CHOOSE f : Adds(f, X)
            h == [s \in SUBSET X |-> Cardinality(Total(s))]
<1>1. Adds(h, X)
  <2>1. ASSUME NEW s \in SUBSET X
        PROVE  h[s] = IF s = {} THEN 0
                      ELSE PieceAt(CHOOSE x \in s : TRUE).n + h[s \ {CHOOSE x \in s : TRUE}]
    BY FS_EmptySet, TotalWithout DEF Total
  <2>2. h = [s \in SUBSET X |-> h[s]]
    OBVIOUS
  <2>. HIDE DEF h
  <2>. QED
    BY <2>1, <2>2, Zenon DEF Adds
<1>2. Adds(g, X)
  BY <1>1
<1>3. MapThenSumSet(Count, X) = g[X]
  BY DEF MapThenSumSet, MapThenFoldSet, Adds
<1>. HIDE DEF g
<1>4. g[X] = Cardinality(Total(X))
  BY <1>2, AddsTotal
<1>. QED
  BY <1>3, <1>4
---------------------------------------------------------------------------
(* Pieces go from group to group: those in Out leave, those in New come.   *)
Pick(G, C) == UNION {G[k] : k \in C}

(* Pieces move between the groups of C, some leave, some come: what is     *)
(* disjoint stays so.                                                      *)
LEMMA Rearranged ==
  ASSUME NEW P, NEW Q, DOMAIN P = Keys, DOMAIN Q = Keys, Disjoint(P),
         NEW C \in SUBSET Keys, \A k \in Keys \ C : Q[k] = P[k],
         \A k, l \in C : k # l => Q[k] \cap Q[l] = {},
         NEW Out, NEW New, Out \subseteq Pick(P, C), New \cap Union(P) = {},
         Pick(Q, C) = (Pick(P, C) \ Out) \cup New
  PROVE  Disjoint(Q) /\ Union(Q) = (Union(P) \ Out) \cup New
<1>1. \A k, l \in Keys : k # l => P[k] \cap P[l] = {}
  BY DEF Disjoint
<1>2. \A k \in Keys : P[k] \subseteq Union(P)
  BY DEF Union
<1>3. \A k \in C : Q[k] \subseteq Pick(P, C) \cup New
  BY DEF Pick
<1>4. \A k \in Keys \ C : P[k] \cap Pick(P, C) = {}
  BY <1>1 DEF Pick
<1>5. \A k \in C, l \in Keys \ C : Q[k] \cap Q[l] = {}
  BY <1>2, <1>3, <1>4
<1>6. \A k, l \in Keys : k # l => Q[k] \cap Q[l] = {}
  BY <1>1, <1>5
<1>7. Union(Q) \subseteq (Union(P) \ Out) \cup New
  <2>. SUFFICES ASSUME NEW k \in Keys, NEW x \in Q[k] PROVE x \in (Union(P) \ Out) \cup New
    BY DEF Union
  <2>1. CASE k \in C
    BY <2>1 DEF Pick, Union
  <2>2. CASE k \notin C
    BY <1>2, <1>4, <2>2
  <2>. QED
    BY <2>1, <2>2
<1>8. (Union(P) \ Out) \cup New \subseteq Union(Q)
  <2>. SUFFICES ASSUME NEW x \in (Union(P) \ Out) \cup New PROVE x \in Union(Q)
    OBVIOUS
  <2>1. Pick(Q, C) \subseteq Union(Q)
    BY DEF Pick, Union
  <2>2. CASE x \in New
    BY <2>1, <2>2
  <2>3. CASE x \in Union(P) \ Out
    BY <2>1, <2>3 DEF Union, Pick
  <2>. QED
    BY <2>2, <2>3
<1>. QED
  BY <1>6, <1>7, <1>8 DEF Disjoint


(* The groups that exist.                                                  *)
LEMMA KeysAre ==
  /\ \A h \in Heap : <<"heap", h>> \in Keys
  /\ \A n \in 1 .. LargeCount : <<"global", n>> \in Keys /\ <<"overflow", n>> \in Keys
  /\ \A t \in Thread : <<"thread", t>> \in Keys
  /\ <<"used", 0>> \in Keys /\ <<"memory", 0>> \in Keys
  /\ \A k \in Keys : \/ \E h \in Heap : k = <<"heap", h>>
                     \/ \E n \in 1 .. LargeCount : k = <<"global", n>> \/ k = <<"overflow", n>>
                     \/ \E t \in Thread : k = <<"thread", t>>
                     \/ k = <<"used", 0>> \/ k = <<"memory", 0>>
  BY DEF Keys

(* What each group holds.                                                  *)
LEMMA GroupIs ==
  /\ DOMAIN Group = Keys
  /\ \A h \in Heap : Group[<<"heap", h>>] = InHeap(h)
  /\ \A n \in 1 .. LargeCount : /\ Group[<<"global", n>>] = ToSet(global[n])
                                /\ Group[<<"overflow", n>>] = ToSet(overflow[n])
  /\ \A t \in Thread : Group[<<"thread", t>>] = InThread(t)
  /\ Group[<<"used", 0>>] = InUse
  /\ Group[<<"memory", 0>>] = InMemory
  BY KeysAre DEF Group

(* What each group holds after the step.                                   *)
LEMMA GroupWillBe ==
  /\ DOMAIN Group' = Keys
  /\ \A h \in Heap : Group'[<<"heap", h>>] = InHeap(h)'
  /\ \A n \in 1 .. LargeCount : /\ Group'[<<"global", n>>] = ToSet(global'[n])
                                /\ Group'[<<"overflow", n>>] = ToSet(overflow'[n])
  /\ \A t \in Thread : Group'[<<"thread", t>>] = InThread(t)'
  /\ Group'[<<"used", 0>>] = InUse'
  /\ Group'[<<"memory", 0>>] = InMemory'
  BY KeysAre DEF Group

(* A step that touches the groups in C only.                               *)
LEMMA Moves ==
  ASSUME Disjoint(Group), NEW C \in SUBSET Keys,
         \A h \in Heap : <<"heap", h>> \notin C => InHeap(h)' = InHeap(h),
         \A n \in 1 .. LargeCount : <<"global", n>> \notin C => global'[n] = global[n],
         \A n \in 1 .. LargeCount : <<"overflow", n>> \notin C => overflow'[n] = overflow[n],
         \A t \in Thread : <<"thread", t>> \notin C => InThread(t)' = InThread(t),
         <<"used", 0>> \notin C => InUse' = InUse,
         <<"memory", 0>> \notin C => InMemory' = InMemory,
         \A k, l \in C : k # l => Group'[k] \cap Group'[l] = {},
         NEW Out, NEW New, Out \subseteq Pick(Group, C), New \cap Union(Group) = {},
         Pick(Group', C) = (Pick(Group, C) \ Out) \cup New
  PROVE  Disjoint(Group)' /\ Union(Group)' = (Union(Group) \ Out) \cup New
<1>1. ASSUME NEW k \in Keys \ C PROVE Group'[k] = Group[k]
  <2>1. CASE \E h \in Heap : k = <<"heap", h>>
    BY <2>1, GroupIs, GroupWillBe
  <2>2. CASE \E n \in 1 .. LargeCount : k = <<"global", n>>
    BY <2>2, GroupIs, GroupWillBe
  <2>3. CASE \E n \in 1 .. LargeCount : k = <<"overflow", n>>
    BY <2>3, GroupIs, GroupWillBe
  <2>4. CASE \E t \in Thread : k = <<"thread", t>>
    BY <2>4, GroupIs, GroupWillBe
  <2>5. CASE k = <<"used", 0>> \/ k = <<"memory", 0>>
    BY <2>5, GroupIs, GroupWillBe
  <2>. QED
    BY <2>1, <2>2, <2>3, <2>4, <2>5, KeysAre
<1>. PICK P : P = Group
  OBVIOUS
<1>. PICK Q : Q = Group'
  OBVIOUS
<1>2. DOMAIN P = Keys /\ DOMAIN Q = Keys
  BY GroupIs, GroupWillBe
<1>3. Disjoint(Q) /\ Union(Q) = (Union(P) \ Out) \cup New
  BY <1>1, <1>2, Rearranged
<1>4. Disjoint(Group') /\ Union(Group') = (Union(Group) \ Out) \cup New
  BY <1>3
<1>. QED
  BY <1>4 DEF Disjoint, Union
---------------------------------------------------------------------------
(* A region is a span more than the largest large piece: the heap's own is *)
(* its first.                                                              *)
LEMMA CountIs ==
  LargeCount \in Nat \ {0} /\ 1 \in 1 .. LargeCount /\ MapCount = LargeCount + 1
  BY LimitAssumption DEF LargeCount

(* None is no piece, no thread and no heap.                                *)
LEMMA CachedIs ==
  /\ CachedType \subseteq PieceType /\ None \notin PieceType /\ None \notin Thread
  /\ None \notin Heap
  BY CountIs, ThreadAssumption DEF CachedType, PieceType

(* The fields of a heap.                                                   *)
LEMMA HeapIs ==
  ASSUME NEW ht \in HeapType
  PROVE  /\ ht.owner \in Thread \cup {None} /\ ht.cache \in [1 .. LargeCount -> Seq(CachedType)]
         /\ ht.class \in CachedType \cup {None} /\ ht.reserve \in CachedType \cup {None}
         /\ ht.deferred \in Seq(UseType) /\ ht.busy \in Int
         /\ \A n \in 1 .. LargeCount : ht.cache[n] \in Seq(CachedType)
  BY DEF HeapType

(* A slot that is a piece or None, as a sequence.                          *)
LEMMA PieceSeqIs ==
  ASSUME NEW p
  PROVE  IsInjective(PieceSeq(p)) /\ ToSet(PieceSeq(p)) = One(p)
  BY NoneInEmpty, OneInOne DEF PieceSeq, One

(* The sequences of a heap_t, by name.                                     *)
LEMMA SlotsAre ==
  ASSUME NEW ht
  PROVE  /\ DOMAIN Slots(ht) = -2 .. LargeCount
         /\ \A n \in 1 .. LargeCount : n \in -2 .. LargeCount /\ Slots(ht)[n] = ht.cache[n]
         /\ 0 \in -2 .. LargeCount /\ Slots(ht)[0] = PieceSeq(ht.class)
         /\ -1 \in -2 .. LargeCount /\ Slots(ht)[-1] = PieceSeq(ht.reserve)
         /\ -2 \in -2 .. LargeCount /\ Slots(ht)[-2] = PiecesOf(ht.deferred)
         /\ \A k \in -2 .. LargeCount : k \in {-2, -1, 0} \/ k \in 1 .. LargeCount
  BY CountIs DEF Slots

Contents(ht) ==
  (UNION {ToSet(ht.cache[n]) : n \in 1 .. LargeCount}) \cup One(ht.class) \cup One(ht.reserve)
    \cup ToSet(PiecesOf(ht.deferred))

(* What the slots of a heap hold, slot by slot.                            *)
LEMMA ContentsAre ==
  ASSUME NEW ht
  PROVE  Among(Slots(ht)) = Contents(ht)
<1>1. \A x : x \in Among(Slots(ht)) <=> \E k \in -2 .. LargeCount : x \in ToSet(Slots(ht)[k])
  BY SlotsAre DEF Among
<1>2. /\ \A n \in 1 .. LargeCount : n \in -2 .. LargeCount
                                      /\ ToSet(Slots(ht)[n]) = ToSet(ht.cache[n])
      /\ ToSet(Slots(ht)[0]) = One(ht.class) /\ ToSet(Slots(ht)[-1]) = One(ht.reserve)
      /\ ToSet(Slots(ht)[-2]) = ToSet(PiecesOf(ht.deferred))
      /\ {-2, -1, 0} \subseteq -2 .. LargeCount
      /\ \A k \in -2 .. LargeCount : k \in {-2, -1, 0} \/ k \in 1 .. LargeCount
  BY SlotsAre, PieceSeqIs
<1>3. ASSUME NEW x \in Among(Slots(ht)) PROVE x \in Contents(ht)
  BY <1>1, <1>2 DEF Contents
<1>4. ASSUME NEW x \in Contents(ht) PROVE x \in Among(Slots(ht))
  BY <1>1, <1>2, SlotsAre DEF Contents
<1>. QED
  BY <1>3, <1>4

(* What changing one field of a heap_t does to its pieces.                 *)
LEMMA SameSlots ==
  ASSUME NEW ht, NEW new, \A n \in 1 .. LargeCount : new.cache[n] = ht.cache[n],
         new.class = ht.class, new.reserve = ht.reserve, new.deferred = ht.deferred
  PROVE  Slots(new) = Slots(ht)
  BY SlotsAre DEF Slots

ButCache(ht, new, n) ==
  /\ \A m \in 1 .. LargeCount : m # n => new.cache[m] = ht.cache[m]
  /\ new.class = ht.class /\ new.reserve = ht.reserve /\ new.deferred = ht.deferred

(* Another thread cache for n spans in a heap.                             *)
LEMMA SetCache ==
  ASSUME NEW ht, NEW new, NEW n \in 1 .. LargeCount, ButCache(ht, new, n), Once(Slots(ht)),
         IsInjective(new.cache[n]),
         ToSet(new.cache[n]) \cap (Among(Slots(ht)) \ ToSet(ht.cache[n])) = {}
  PROVE  /\ Once(Slots(new))
         /\ Among(Slots(new)) = (Among(Slots(ht)) \ ToSet(ht.cache[n])) \cup ToSet(new.cache[n])
<1>. PICK s : s = new.cache[n]
  OBVIOUS
<1>1. n \in DOMAIN Slots(ht) /\ Slots(ht)[n] = ht.cache[n] /\ Slots(new)[n] = s
  BY SlotsAre
<1>2. \A k \in -2 .. LargeCount : k # n => Slots(new)[k] = Slots(ht)[k]
  BY SlotsAre DEF ButCache
<1>3. DOMAIN Slots(new) = -2 .. LargeCount /\ DOMAIN Slots(ht) = -2 .. LargeCount
  BY SlotsAre
<1>. PICK Q : Q = Slots(ht)
  OBVIOUS
<1>. PICK R : R = Slots(new)
  OBVIOUS
<1>6. /\ Once(Q) /\ n \in DOMAIN Q /\ IsInjective(s) /\ R[n] = s /\ DOMAIN R = DOMAIN Q
      /\ ToSet(s) \cap (Among(Q) \ ToSet(Q[n])) = {}
      /\ \A k \in DOMAIN Q : k # n => R[k] = Q[k]
  BY <1>1, <1>2, <1>3
<1>4. Once(R) /\ Among(R) = (Among(Q) \ ToSet(Q[n])) \cup ToSet(s)
  BY <1>6, FamilySet
<1>. QED
  BY <1>1, <1>4

ButClass(ht, new) ==
  /\ \A n \in 1 .. LargeCount : new.cache[n] = ht.cache[n]
  /\ new.reserve = ht.reserve /\ new.deferred = ht.deferred

(* Another active span of the size class in a heap.                        *)
LEMMA SetClass ==
  ASSUME NEW ht, NEW new, ButClass(ht, new), Once(Slots(ht)),
         One(new.class) \cap (Among(Slots(ht)) \ One(ht.class)) = {}
  PROVE  /\ Once(Slots(new))
         /\ Among(Slots(new)) = (Among(Slots(ht)) \ One(ht.class)) \cup One(new.class)
<1>1. 0 \in DOMAIN Slots(ht) /\ Slots(ht)[0] = PieceSeq(ht.class)
        /\ Slots(new)[0] = PieceSeq(new.class)
  BY SlotsAre
<1>2. \A k \in -2 .. LargeCount : k # 0 => Slots(new)[k] = Slots(ht)[k]
  BY SlotsAre DEF ButClass
<1>3. DOMAIN Slots(new) = -2 .. LargeCount /\ DOMAIN Slots(ht) = -2 .. LargeCount
  BY SlotsAre
<1>4. /\ ToSet(PieceSeq(ht.class)) = One(ht.class) /\ IsInjective(PieceSeq(new.class))
      /\ ToSet(PieceSeq(new.class)) = One(new.class)
  BY PieceSeqIs
<1>. PICK Q : Q = Slots(ht)
  OBVIOUS
<1>. PICK R : R = Slots(new)
  OBVIOUS
<1>. PICK s : s = PieceSeq(new.class)
  OBVIOUS
<1>6. /\ Once(Q) /\ 0 \in DOMAIN Q /\ IsInjective(s) /\ R[0] = s /\ DOMAIN R = DOMAIN Q
      /\ ToSet(s) \cap (Among(Q) \ ToSet(Q[0])) = {}
      /\ \A k \in DOMAIN Q : k # 0 => R[k] = Q[k]
  BY <1>1, <1>2, <1>3, <1>4
<1>5. Once(R) /\ Among(R) = (Among(Q) \ ToSet(Q[0])) \cup ToSet(s)
  BY <1>6, FamilySet
<1>. QED
  BY <1>1, <1>4, <1>5

ButReserve(ht, new) ==
  /\ \A n \in 1 .. LargeCount : new.cache[n] = ht.cache[n]
  /\ new.class = ht.class /\ new.deferred = ht.deferred

(* Another reserve in a heap.                                              *)
LEMMA SetReserve ==
  ASSUME NEW ht, NEW new, ButReserve(ht, new), Once(Slots(ht)),
         One(new.reserve) \cap (Among(Slots(ht)) \ One(ht.reserve)) = {}
  PROVE  /\ Once(Slots(new))
         /\ Among(Slots(new)) = (Among(Slots(ht)) \ One(ht.reserve)) \cup One(new.reserve)
<1>1. -1 \in DOMAIN Slots(ht) /\ Slots(ht)[-1] = PieceSeq(ht.reserve)
        /\ Slots(new)[-1] = PieceSeq(new.reserve)
  BY SlotsAre
<1>2. \A k \in -2 .. LargeCount : k # -1 => Slots(new)[k] = Slots(ht)[k]
  BY SlotsAre DEF ButReserve
<1>3. DOMAIN Slots(new) = -2 .. LargeCount /\ DOMAIN Slots(ht) = -2 .. LargeCount
  BY SlotsAre
<1>4. /\ ToSet(PieceSeq(ht.reserve)) = One(ht.reserve) /\ IsInjective(PieceSeq(new.reserve))
      /\ ToSet(PieceSeq(new.reserve)) = One(new.reserve)
  BY PieceSeqIs
<1>. PICK Q : Q = Slots(ht)
  OBVIOUS
<1>. PICK R : R = Slots(new)
  OBVIOUS
<1>. PICK s : s = PieceSeq(new.reserve)
  OBVIOUS
<1>6. /\ Once(Q) /\ -1 \in DOMAIN Q /\ IsInjective(s) /\ R[-1] = s /\ DOMAIN R = DOMAIN Q
      /\ ToSet(s) \cap (Among(Q) \ ToSet(Q[-1])) = {}
      /\ \A k \in DOMAIN Q : k # -1 => R[k] = Q[k]
  BY <1>1, <1>2, <1>3, <1>4
<1>5. Once(R) /\ Among(R) = (Among(Q) \ ToSet(Q[-1])) \cup ToSet(s)
  BY <1>6, FamilySet
<1>. QED
  BY <1>1, <1>4, <1>5

ButDeferred(ht, new) ==
  /\ \A n \in 1 .. LargeCount : new.cache[n] = ht.cache[n]
  /\ new.class = ht.class /\ new.reserve = ht.reserve

(* Another deferred list in a heap.                                        *)
LEMMA SetDeferred ==
  ASSUME NEW ht, NEW new, ButDeferred(ht, new), Once(Slots(ht)),
         IsInjective(PiecesOf(new.deferred)),
         ToSet(PiecesOf(new.deferred))
           \cap (Among(Slots(ht)) \ ToSet(PiecesOf(ht.deferred))) = {}
  PROVE  /\ Once(Slots(new))
         /\ Among(Slots(new)) = (Among(Slots(ht)) \ ToSet(PiecesOf(ht.deferred)))
                                  \cup ToSet(PiecesOf(new.deferred))
<1>1. -2 \in DOMAIN Slots(ht) /\ Slots(ht)[-2] = PiecesOf(ht.deferred)
        /\ Slots(new)[-2] = PiecesOf(new.deferred)
  BY SlotsAre
<1>2. \A k \in -2 .. LargeCount : k # -2 => Slots(new)[k] = Slots(ht)[k]
  BY SlotsAre DEF ButDeferred
<1>3. DOMAIN Slots(new) = -2 .. LargeCount /\ DOMAIN Slots(ht) = -2 .. LargeCount
  BY SlotsAre
<1>. PICK Q : Q = Slots(ht)
  OBVIOUS
<1>. PICK R : R = Slots(new)
  OBVIOUS
<1>. PICK s : s = PiecesOf(new.deferred)
  OBVIOUS
<1>6. /\ Once(Q) /\ -2 \in DOMAIN Q /\ IsInjective(s) /\ R[-2] = s /\ DOMAIN R = DOMAIN Q
      /\ ToSet(s) \cap (Among(Q) \ ToSet(Q[-2])) = {}
      /\ \A k \in DOMAIN Q : k # -2 => R[k] = Q[k]
  BY <1>1, <1>2, <1>3
<1>5. Once(R) /\ Among(R) = (Among(Q) \ ToSet(Q[-2])) \cup ToSet(s)
  BY <1>6, FamilySet
<1>. QED
  BY <1>1, <1>5

(* Where the parts of a heap_t are found.                                  *)
LEMMA SlotHas ==
  ASSUME NEW ht, Once(Slots(ht))
  PROVE  /\ \A n \in 1 .. LargeCount : /\ IsInjective(ht.cache[n])
                                       /\ ToSet(ht.cache[n]) \subseteq Among(Slots(ht))
         /\ One(ht.class) \subseteq Among(Slots(ht))
         /\ One(ht.reserve) \subseteq Among(Slots(ht))
         /\ IsInjective(PiecesOf(ht.deferred))
         /\ ToSet(PiecesOf(ht.deferred)) \subseteq Among(Slots(ht))
         /\ \A n \in 1 .. LargeCount :
              /\ ToSet(ht.cache[n]) \cap One(ht.class) = {}
              /\ ToSet(ht.cache[n]) \cap One(ht.reserve) = {}
              /\ ToSet(ht.cache[n]) \cap ToSet(PiecesOf(ht.deferred)) = {}
         /\ One(ht.class) \cap One(ht.reserve) = {}
<1>1. /\ \A k \in -2 .. LargeCount : IsInjective(Slots(ht)[k])
      /\ \A k, l \in -2 .. LargeCount : k # l => ToSet(Slots(ht)[k]) \cap ToSet(Slots(ht)[l]) = {}
  BY SlotsAre, OnceIs
<1>2. \A n \in 1 .. LargeCount : /\ n \in -2 .. LargeCount /\ Slots(ht)[n] = ht.cache[n]
                                 /\ n # 0 /\ n # -1 /\ n # -2
  BY SlotsAre
<1>3. /\ 0 \in -2 .. LargeCount /\ -1 \in -2 .. LargeCount /\ -2 \in -2 .. LargeCount
      /\ ToSet(Slots(ht)[0]) = One(ht.class) /\ ToSet(Slots(ht)[-1]) = One(ht.reserve)
      /\ Slots(ht)[-2] = PiecesOf(ht.deferred)
  BY SlotsAre, PieceSeqIs
<1>4. \A n \in 1 .. LargeCount : IsInjective(ht.cache[n])
  BY <1>1, <1>2
<1>5. IsInjective(PiecesOf(ht.deferred))
  BY <1>1, <1>3
<1>6. \A n \in 1 .. LargeCount :
        /\ ToSet(ht.cache[n]) \cap One(ht.class) = {}
        /\ ToSet(ht.cache[n]) \cap One(ht.reserve) = {}
        /\ ToSet(ht.cache[n]) \cap ToSet(PiecesOf(ht.deferred)) = {}
  <2>. SUFFICES ASSUME NEW n \in 1 .. LargeCount
                PROVE  /\ ToSet(ht.cache[n]) \cap One(ht.class) = {}
                       /\ ToSet(ht.cache[n]) \cap One(ht.reserve) = {}
                       /\ ToSet(ht.cache[n]) \cap ToSet(PiecesOf(ht.deferred)) = {}
    OBVIOUS
  <2>1. /\ ToSet(Slots(ht)[n]) \cap ToSet(Slots(ht)[0]) = {}
        /\ ToSet(Slots(ht)[n]) \cap ToSet(Slots(ht)[-1]) = {}
        /\ ToSet(Slots(ht)[n]) \cap ToSet(Slots(ht)[-2]) = {}
    BY <1>1, <1>2, <1>3
  <2>. QED
    BY <1>2, <1>3, <2>1
<1>7. One(ht.class) \cap One(ht.reserve) = {}
  BY <1>1, <1>3
<1>8. \A n \in 1 .. LargeCount : ToSet(ht.cache[n]) \subseteq Among(Slots(ht))
  <2>. SUFFICES ASSUME NEW n \in 1 .. LargeCount, NEW x \in ToSet(ht.cache[n])
                PROVE  x \in Among(Slots(ht))
    OBVIOUS
  <2>1. x \in Contents(ht)
    BY DEF Contents
  <2>. QED
    BY <2>1, ContentsAre
<1>9. /\ One(ht.class) \subseteq Contents(ht) /\ One(ht.reserve) \subseteq Contents(ht)
      /\ ToSet(PiecesOf(ht.deferred)) \subseteq Contents(ht)
  BY DEF Contents
<1>10. Contents(ht) = Among(Slots(ht))
  BY ContentsAre
<1>. QED
  BY <1>4, <1>5, <1>6, <1>7, <1>8, <1>9, <1>10
---------------------------------------------------------------------------
(* The tasks of a call, and the pieces they are about.                     *)
LEMMA TaskIs ==
  ASSUME NEW k \in TaskType
  PROVE  /\ TaskPieces(k) \in Seq(PieceType)
         /\ k.do \in {"global insert", "sort", "keep", "defer", "own", "release", "extract",
                      "map", "map huge", "adopt"}
         /\ k \in WorkTask <=> k.do \in {"global insert", "sort", "keep", "defer"}
         /\ k \in LastTask <=> k.do \in {"own", "release", "extract", "map", "map huge"}
         /\ k \in AdoptTask <=> k.do = "adopt"
         /\ k.do \notin {"global insert", "sort", "keep", "defer"} => TaskPieces(k) = <<>>
         /\ k.do = "global insert" => /\ k.n \in 1 .. LargeCount /\ k.ps \in Seq(CachedType)
                                      /\ k.keep = <<>> /\ k.slot = 0 /\ TaskPieces(k) = k.ps
         /\ k.do = "sort" => /\ k.n \in 1 .. LargeCount /\ k.ps \in Seq(CachedType)
                             /\ k.ps # <<>> /\ k.keep \in Seq(CachedType) /\ k.slot = 0
                             /\ TaskPieces(k) = k.ps \o k.keep
         /\ k.do = "keep" => /\ k.n \in 1 .. LargeCount /\ k.ps = <<>>
                             /\ k.keep \in Seq(CachedType) /\ k.slot \in Nat
                             /\ TaskPieces(k) = k.keep
         /\ k.do = "defer" => /\ k.ps \in [1 .. 1 -> UseType] /\ k.ps = <<k.ps[1]>>
                              /\ k.ps[1] \in UseType /\ k.ps[1].p \in PieceType
                              /\ TaskPieces(k) = <<k.ps[1].p>>
         /\ k.do = "adopt" => k.n \in {0, 1}
         /\ k.do \in {"extract", "map"} => /\ k.n \in 1 .. LargeCount
                                           /\ k.keep \in {"small", "large"}
                                           /\ k.slot \in 1 .. LargeCount /\ k.ps = <<>>
         /\ k.do = "map huge" => k.n \in Nat \ {0}
<1>1. k.do \in {"global insert", "sort", "keep", "defer", "own", "release", "extract",
                "map", "map huge", "adopt"}
  BY DEF TaskType, WorkTask, LastTask, AdoptTask, Tasks
<1>2. k \in WorkTask <=> k.do \in {"global insert", "sort", "keep", "defer"}
  BY DEF TaskType, WorkTask, LastTask, AdoptTask, Tasks
<1>3. k \in LastTask <=> k.do \in {"own", "release", "extract", "map", "map huge"}
  BY DEF TaskType, WorkTask, LastTask, AdoptTask, Tasks
<1>4. k \in AdoptTask <=> k.do = "adopt"
  BY DEF TaskType, WorkTask, LastTask, AdoptTask, Tasks
<1>5. /\ k.do = "adopt" => k.n \in {0, 1} /\ k.ps = <<>>
      /\ k.do \in {"extract", "map"} => /\ k.n \in 1 .. LargeCount
                                        /\ k.keep \in {"small", "large"}
                                        /\ k.slot \in 1 .. LargeCount /\ k.ps = <<>>
      /\ k.do = "map huge" => k.n \in Nat \ {0} /\ k.ps = <<>>
      /\ k.do \in {"own", "release"} => k.ps = <<>>
  BY DEF TaskType, WorkTask, LastTask, AdoptTask, Tasks
<1>6. k.do = "global insert" => /\ k.n \in 1 .. LargeCount /\ k.ps \in Seq(CachedType)
                                /\ k.keep = <<>> /\ k.slot = 0
  BY DEF TaskType, WorkTask, LastTask, AdoptTask, Tasks
<1>7. k.do = "sort" => /\ k.n \in 1 .. LargeCount /\ k.ps \in Seq(CachedType)
                       /\ k.ps # <<>> /\ k.keep \in Seq(CachedType) /\ k.slot = 0
  BY DEF TaskType, WorkTask, LastTask, AdoptTask, Tasks
<1>8. k.do = "keep" => /\ k.n \in 1 .. LargeCount /\ k.ps = <<>>
                       /\ k.keep \in Seq(CachedType) /\ k.slot \in Nat
  BY DEF TaskType, WorkTask, LastTask, AdoptTask, Tasks
<1>9. k.do = "defer" => k.ps \in [1 .. 1 -> UseType]
  BY DEF TaskType, WorkTask, LastTask, AdoptTask, Tasks
<1>10. \A q \in Seq(CachedType) : q \in Seq(PieceType) /\ q \o <<>> = q /\ <<>> \o q = q
  BY CachedIs, SeqMonotonic, ConcatEmptySeq
<1>11. <<>> \in Seq(PieceType) /\ <<>> \o <<>> = <<>>
  BY EmptySeq, ConcatEmptySeq
<1>12. CASE k.do \notin {"global insert", "sort", "keep", "defer"}
  BY <1>1, <1>2, <1>3, <1>4, <1>5, <1>11, <1>12 DEF TaskPieces
<1>13. CASE k.do = "global insert"
  BY <1>1, <1>2, <1>3, <1>4, <1>6, <1>10, <1>13 DEF TaskPieces
<1>14. CASE k.do = "sort"
  BY <1>1, <1>2, <1>3, <1>4, <1>7, <1>10, <1>14, ConcatProperties DEF TaskPieces
<1>15. CASE k.do = "keep"
  BY <1>1, <1>2, <1>3, <1>4, <1>8, <1>10, <1>15 DEF TaskPieces
<1>16. CASE k.do = "defer"
  BY <1>1, <1>2, <1>3, <1>4, <1>9, <1>16, CachedIs, ConcatEmptySeq DEF UseType, PiecesOf,
     TaskPieces
<1>. QED
  BY <1>12, <1>13, <1>14, <1>15, <1>16

(* What a call carries, when tasks come first and when the first is done.  *)
LEMMA CarriedIs ==
  ASSUME NEW q \in Seq(TaskType)
  PROVE  Carried(q) \in Seq(Seq(PieceType)) /\ Len(Carried(q)) = Len(q)
<1>1. Len(q) \in Nat /\ DOMAIN q = 1 .. Len(q) /\ \A i \in 1 .. Len(q) : q[i] \in TaskType
  BY SeqIs
<1>2. Carried(q) \in [1 .. Len(q) -> Seq(PieceType)]
  BY <1>1, TaskIs DEF Carried
<1>. QED
  BY <1>1, <1>2, SeqDef, LenProperties

(* The pieces of a call made of two parts.                                 *)
LEMMA CarriedBy ==
  ASSUME NEW a \in Seq(TaskType), NEW b \in Seq(TaskType)
  PROVE  Carried(a \o b) = Carried(a) \o Carried(b)
<1>. PICK A : A = Carried(a)
  OBVIOUS
<1>. PICK B : B = Carried(b)
  OBVIOUS
<1>. PICK c : c = a \o b
  OBVIOUS
<1>. PICK C : C = Carried(c)
  OBVIOUS
<1>. PICK m \in Nat, n \in Nat : m = Len(a) /\ n = Len(b)
  BY SeqIs
<1>1. /\ c \in Seq(TaskType) /\ Len(c) = m + n
      /\ \A i \in 1 .. m + n : c[i] = IF i <= m THEN a[i] ELSE b[i - m]
  BY ConcatProperties
<1>2. /\ A \in Seq(Seq(PieceType)) /\ Len(A) = m /\ B \in Seq(Seq(PieceType)) /\ Len(B) = n
      /\ C \in Seq(Seq(PieceType)) /\ Len(C) = m + n
  BY <1>1, CarriedIs
<1>3. /\ A \o B \in Seq(Seq(PieceType)) /\ Len(A \o B) = m + n
      /\ \A i \in 1 .. m + n : (A \o B)[i] = IF i <= m THEN A[i] ELSE B[i - m]
  <2>. PICK U : U = Seq(PieceType)
    OBVIOUS
  <2>1. A \in Seq(U) /\ Len(A) = m /\ B \in Seq(U) /\ Len(B) = n
    BY <1>2
  <2>2. /\ A \o B \in Seq(U) /\ Len(A \o B) = Len(A) + Len(B)
        /\ \A i \in 1 .. Len(A) + Len(B) :
             (A \o B)[i] = IF i <= Len(A) THEN A[i] ELSE B[i - Len(A)]
    BY <2>1, ConcatProperties
  <2>. QED
    BY <2>1, <2>2
<1>4. DOMAIN a = 1 .. m /\ DOMAIN b = 1 .. n /\ DOMAIN c = 1 .. m + n
  BY <1>1, SeqIs
<1>5. ASSUME NEW i \in 1 .. m + n PROVE C[i] = (A \o B)[i]
  BY <1>1, <1>3, <1>4 DEF Carried
<1>6. C = A \o B
  BY <1>2, <1>3, <1>5, SeqEqual
<1>. QED
  BY <1>6

(* The pieces of a call without its first task.                            *)
LEMMA CarriedTail ==
  ASSUME NEW q \in Seq(TaskType), q # <<>>
  PROVE  /\ Carried(q) # <<>> /\ Head(Carried(q)) = TaskPieces(Head(q))
         /\ Tail(Carried(q)) = Carried(Tail(q))
  BY CarriedIs, EmptySeq, HeadIs, SeqEqual, SeqIs DEF Carried

(* How many spans a call is to defer again.                                *)
NDefer(q) == Cardinality(Redefers(q))

(* The spans to defer again are finitely many.                             *)
LEMMA DefersFinite ==
  ASSUME NEW q \in Seq(TaskType)
  PROVE  IsFiniteSet(Redefers(q)) /\ NDefer(q) \in Nat
<1>1. Len(q) \in Nat /\ DOMAIN q = 1 .. Len(q)
  BY SeqIs
<1>2. IsFiniteSet(1 .. Len(q)) /\ Redefers(q) \subseteq 1 .. Len(q)
  BY <1>1, FS_Interval DEF Redefers
<1>3. IsFiniteSet(Redefers(q))
  BY <1>2, FS_Subset
<1>. QED
  BY <1>3, FS_CardinalityType DEF NDefer

(* No task, no span to defer again.                                        *)
LEMMA NoDefers ==
  ASSUME NEW q, \A i \in DOMAIN q : q[i].do # "defer"
  PROVE  Redefers(q) = {} /\ NDefer(q) = 0
  BY FS_EmptySet DEF Redefers, NDefer

(* A set of numbers moved up.                                              *)
LEMMA Moved ==
  ASSUME NEW S \in SUBSET Nat, IsFiniteSet(S), NEW m \in Nat
  PROVE  /\ IsFiniteSet({m + i : i \in S})
         /\ Cardinality({m + i : i \in S}) = Cardinality(S)
<1>. DEFINE T == {m + i : i \in S}
            f == [i \in S |-> m + i]
<1>1. f \in Bijection(S, T)
  BY DEF Bijection, Injection, Surjection, IsInjective
<1>. HIDE DEF f, T
<1>2. ExistsBijection(S, T)
  BY <1>1 DEF ExistsBijection
<1>3. IsFiniteSet(T) /\ Cardinality(T) = Cardinality(S)
  BY <1>2, FS_Bijection
<1>. QED
  BY <1>3 DEF T

(* The spans to defer again of a call made of two parts.                   *)
LEMMA DefersJoin ==
  ASSUME NEW a \in Seq(TaskType), NEW b \in Seq(TaskType)
  PROVE  NDefer(a \o b) = NDefer(a) + NDefer(b)
<1>. PICK c : c = a \o b
  OBVIOUS
<1>. PICK m \in Nat, n \in Nat : m = Len(a) /\ n = Len(b)
  BY SeqIs
<1>1. /\ c \in Seq(TaskType) /\ Len(c) = m + n
      /\ \A i \in 1 .. m + n : c[i] = IF i <= m THEN a[i] ELSE b[i - m]
  BY ConcatProperties
<1>2. DOMAIN a = 1 .. m /\ DOMAIN b = 1 .. n /\ DOMAIN c = 1 .. m + n
  BY <1>1, SeqIs
<1>. DEFINE A == Redefers(a)
            B == {m + i : i \in Redefers(b)}
<1>3. Redefers(b) \subseteq 1 .. n /\ A \subseteq 1 .. m
  BY <1>2 DEF Redefers
<1>4. Redefers(c) = A \cup B
  <2>1. ASSUME NEW x \in Redefers(c) PROVE x \in A \cup B
    <3>1. x \in 1 .. m + n /\ c[x].do = "defer"
      BY <1>2, <2>1 DEF Redefers
    <3>2. CASE x <= m
      BY <1>1, <1>2, <3>1, <3>2 DEF Redefers
    <3>3. CASE ~(x <= m)
      <4>1. x - m \in 1 .. n /\ c[x] = b[x - m] /\ x = m + (x - m)
        BY <1>1, <3>1, <3>3
      <4>2. x - m \in Redefers(b)
        BY <1>2, <3>1, <4>1 DEF Redefers
      <4>. QED
        BY <4>1, <4>2
    <3>. QED
      BY <3>2, <3>3
  <2>2. ASSUME NEW x \in A PROVE x \in Redefers(c)
    BY <1>1, <1>2, <1>3 DEF Redefers
  <2>3. ASSUME NEW y \in Redefers(b) PROVE m + y \in Redefers(c)
    BY <1>1, <1>2, <1>3 DEF Redefers
  <2>. QED
    BY <2>1, <2>2, <2>3
<1>5. IsFiniteSet(A) /\ IsFiniteSet(B) /\ Cardinality(B) = NDefer(b)
  <2>. PICK S : S = Redefers(b)
    OBVIOUS
  <2>1. S \in SUBSET Nat /\ IsFiniteSet(S) /\ IsFiniteSet(A)
    BY <1>3, DefersFinite
  <2>2. IsFiniteSet({m + i : i \in S}) /\ Cardinality({m + i : i \in S}) = Cardinality(S)
    BY <2>1, Moved
  <2>. QED
    BY <2>1, <2>2 DEF NDefer
<1>6. A \cap B = {}
  BY <1>3
<1>. HIDE DEF A, B
<1>7. Cardinality(A \cup B) = Cardinality(A) + Cardinality(B) - Cardinality(A \cap B)
  BY <1>5, FS_Union
<1>8. Cardinality(A) = NDefer(a) /\ NDefer(a) \in Nat /\ NDefer(b) \in Nat
  BY DefersFinite DEF NDefer, A
<1>9. Cardinality({}) = 0
  BY FS_EmptySet
<1>10. Cardinality(A \cup B) = NDefer(a) + NDefer(b)
  <2>1. Cardinality(A \cap B) = 0
    BY <1>6, <1>9, Zenon
  <2>2. \A x, y \in Nat : x + y - 0 = x + y
    OBVIOUS
  <2>3. Cardinality(A \cup B) = NDefer(a) + NDefer(b) - 0
    BY <1>5, <1>7, <1>8, <2>1, Zenon
  <2>. QED
    BY <1>8, <2>2, <2>3
<1>11. NDefer(c) = Cardinality(A \cup B)
  BY <1>4 DEF NDefer
<1>. QED
  BY <1>10, <1>11

(* The spans to defer again of one task.                                   *)
LEMMA DefersOne ==
  ASSUME NEW k \in TaskType
  PROVE  NDefer(<<k>>) = IF k.do = "defer" THEN 1 ELSE 0
<1>1. DOMAIN <<k>> = {1} /\ <<k>>[1] = k
  OBVIOUS
<1>2. CASE k.do = "defer"
  <2>1. Redefers(<<k>>) = {1}
    BY <1>1, <1>2 DEF Redefers
  <2>. QED
    BY <1>2, <2>1, FS_Singleton DEF NDefer
<1>3. CASE k.do # "defer"
  BY <1>1, <1>3, NoDefers
<1>. QED
  BY <1>2, <1>3
---------------------------------------------------------------------------
(* A sequence is its first member and the others.                          *)
LEMMA HeadFirst ==
  ASSUME NEW S, NEW q \in Seq(S), q # <<>>
  PROVE  q = <<Head(q)>> \o Tail(q)
  BY ConcatProperties, HeadIs, SeqEqual

(* A call without its first task.                                          *)
LEMMA CallTail ==
  ASSUME NEW q \in Seq(TaskType), q # <<>>, Once(Carried(q))
  PROVE  /\ Head(q) \in TaskType /\ Tail(q) \in Seq(TaskType)
         /\ Once(Carried(Tail(q))) /\ IsInjective(TaskPieces(Head(q)))
         /\ ToSet(TaskPieces(Head(q))) \cap Among(Carried(Tail(q))) = {}
         /\ Among(Carried(q)) = ToSet(TaskPieces(Head(q))) \cup Among(Carried(Tail(q)))
         /\ NDefer(q) = NDefer(Tail(q)) + (IF Head(q).do = "defer" THEN 1 ELSE 0)
<1>1. Head(q) \in TaskType /\ Tail(q) \in Seq(TaskType) /\ q = <<Head(q)>> \o Tail(q)
  BY HeadIs, HeadFirst
<1>. PICK Q : Q = Carried(q)
  OBVIOUS
<1>2. /\ Q \in Seq(Seq(PieceType)) /\ Q # <<>> /\ Head(Q) = TaskPieces(Head(q))
      /\ Tail(Q) = Carried(Tail(q))
  BY CarriedIs, CarriedTail
<1>3. /\ Once(Tail(Q)) /\ IsInjective(Head(Q)) /\ ToSet(Head(Q)) \cap Among(Tail(Q)) = {}
      /\ Among(Q) = ToSet(Head(Q)) \cup Among(Tail(Q))
  BY <1>2, FamilyTail
<1>. PICK k, t : k = Head(q) /\ t = Tail(q)
  OBVIOUS
<1>. PICK o : o = <<k>>
  OBVIOUS
<1>4. k \in TaskType /\ o \in Seq(TaskType) /\ q = o \o t /\ t \in Seq(TaskType)
  BY <1>1
<1>5. NDefer(q) = NDefer(o) + NDefer(t)
  BY <1>4, DefersJoin
<1>6. NDefer(o) = IF k.do = "defer" THEN 1 ELSE 0
  BY <1>4, DefersOne
<1>7. NDefer(t) \in Nat
  BY <1>4, DefersFinite
<1>8. \A x, y \in Nat : x + y = y + x
  OBVIOUS
<1>9. NDefer(q) = NDefer(t) + (IF k.do = "defer" THEN 1 ELSE 0)
  BY <1>5, <1>6, <1>7, <1>8
<1>. QED
  BY <1>1, <1>2, <1>3, <1>9

(* A call made of two parts.                                               *)
LEMMA CallJoin ==
  ASSUME NEW a \in Seq(TaskType), NEW b \in Seq(TaskType)
  PROVE  /\ a \o b \in Seq(TaskType) /\ Len(a \o b) = Len(a) + Len(b)
         /\ Among(Carried(a \o b)) = Among(Carried(a)) \cup Among(Carried(b))
         /\ Once(Carried(a)) /\ Once(Carried(b)) /\ Among(Carried(a)) \cap Among(Carried(b)) = {}
              => Once(Carried(a \o b))
         /\ NDefer(a \o b) = NDefer(a) + NDefer(b)
<1>1. a \o b \in Seq(TaskType) /\ Len(a \o b) = Len(a) + Len(b)
  BY ConcatProperties
<1>2. Carried(a \o b) = Carried(a) \o Carried(b)
  BY CarriedBy
<1>. PICK A, B : A = Carried(a) /\ B = Carried(b)
  OBVIOUS
<1>3. A \in Seq(Seq(PieceType)) /\ B \in Seq(Seq(PieceType))
  BY CarriedIs
<1>4. /\ Among(A \o B) = Among(A) \cup Among(B)
      /\ Once(A) /\ Once(B) /\ Among(A) \cap Among(B) = {} => Once(A \o B)
  BY <1>3, FamilyJoin
<1>. QED
  BY <1>1, <1>2, <1>4, DefersJoin

(* A call of one task.                                                     *)
LEMMA CallOne ==
  ASSUME NEW k \in TaskType
  PROVE  /\ <<k>> \in Seq(TaskType) /\ Len(<<k>>) = 1 /\ <<k>>[1] = k
         /\ Among(Carried(<<k>>)) = ToSet(TaskPieces(k))
         /\ IsInjective(TaskPieces(k)) => Once(Carried(<<k>>))
         /\ NDefer(<<k>>) = IF k.do = "defer" THEN 1 ELSE 0
  BY DefersOne, OnceIs DEF Carried, Among

(* The call that is over.                                                  *)
LEMMA CallNone ==
  /\ <<>> \in Seq(TaskType) /\ Len(<<>>) = 0 /\ Among(Carried(<<>>)) = {}
  /\ Once(Carried(<<>>)) /\ NDefer(<<>>) = 0
  BY NoDefers DEF Carried, Among, Once

(* The parts of a call are in order.                                       *)
Shape(q, g) ==
  /\ \A i \in 1 .. Len(q) - 1 : q[i] \in WorkTask \cup AdoptTask
  /\ \A i \in 1 .. Len(q) : q[i].do = "adopt" =>
       i = 1 /\ Len(q) = 2 /\ g = None /\ (q[i].n = 1 => q[Len(q)].do = "extract")
  /\ g # None => Len(q) > 0 /\ q[Len(q)].do = "extract"

(* CallOK of a thread, by the shape of its call.                           *)
LEMMA CallShape ==
  ASSUME NEW t \in Thread
  PROVE  CallOK(t) <=> /\ Shape(todo[t], got[t])
                       /\ Len(todo[t]) > 0 => at[t] \in DOMAIN heap /\ finalized = "no"
  BY DEF CallOK, Shape

(* Work to be done comes before what is left of a call.                    *)
LEMMA ShapeThen ==
  ASSUME NEW w \in Seq(WorkTask), NEW b \in Seq(TaskType), NEW g,
         \A i \in 1 .. Len(b) - 1 : b[i] \in WorkTask,
         \A i \in 1 .. Len(b) : b[i].do # "adopt",
         g # None => Len(b) > 0 /\ b[Len(b)].do = "extract"
  PROVE  w \o b \in Seq(TaskType) /\ Shape(w \o b, g)
<1>. PICK m \in Nat, n \in Nat : m = Len(w) /\ n = Len(b)
  BY SeqIs
<1>1. w \in Seq(TaskType)
  BY SeqMonotonic DEF TaskType
<1>. PICK c : c = w \o b
  OBVIOUS
<1>2. /\ c \in Seq(TaskType) /\ Len(c) = m + n
      /\ \A i \in 1 .. m + n : c[i] = IF i <= m THEN w[i] ELSE b[i - m]
  BY <1>1, ConcatProperties
<1>3. /\ \A i \in 1 .. m : w[i] \in WorkTask /\ w[i].do # "adopt"
  <2>1. \A i \in 1 .. m : w[i] \in WorkTask
    BY SeqIs
  <2>2. \A k \in WorkTask : k.do # "adopt"
    BY DEF WorkTask, Tasks
  <2>. QED
    BY <2>1, <2>2
<1>4. ASSUME NEW i \in 1 .. m + n
      PROVE  c[i].do # "adopt" /\ (i # m + n => c[i] \in WorkTask)
  <2>1. CASE i <= m
    <3>1. i \in 1 .. m /\ c[i] = w[i]
      BY <1>2, <2>1
    <3>. QED
      BY <1>3, <3>1
  <2>2. CASE ~(i <= m)
    <3>1. i - m \in 1 .. n /\ c[i] = b[i - m] /\ (i # m + n => i - m \in 1 .. n - 1)
      BY <1>2, <2>2
    <3>. QED
      BY <3>1
  <2>. QED
    BY <2>1, <2>2
<1>5. \A i \in 1 .. m + n - 1 : i \in 1 .. m + n /\ i # m + n
  OBVIOUS
<1>6. ASSUME g # None PROVE m + n > 0 /\ c[m + n].do = "extract"
  BY <1>2, <1>6
<1>7. \A i \in 1 .. m + n - 1 : c[i] \in WorkTask \cup AdoptTask
  BY <1>4, <1>5
<1>8. Shape(c, g)
  BY <1>2, <1>4, <1>6, <1>7 DEF Shape
<1>. QED
  BY <1>2, <1>8

(* What is left of a call when its first task is done.                     *)
LEMMA ShapeTail ==
  ASSUME NEW q \in Seq(TaskType), q # <<>>, NEW g, Shape(q, g)
  PROVE  /\ \A i \in 1 .. Len(Tail(q)) - 1 : Tail(q)[i] \in WorkTask
         /\ \A i \in 1 .. Len(Tail(q)) : Tail(q)[i].do # "adopt"
         /\ Head(q) \in LastTask => Tail(q) = <<>> /\ Len(q) = 1
         /\ g # None /\ Head(q) \notin LastTask =>
              Len(Tail(q)) > 0 /\ Tail(q)[Len(Tail(q))].do = "extract"
         /\ Head(q).do = "adopt" =>
              g = None /\ Len(Tail(q)) = 1
                /\ (Head(q).n = 1 => Tail(q)[Len(Tail(q))].do = "extract")
         /\ g # None /\ Head(q) \in LastTask => Head(q).do = "extract"
<1>. PICK n \in Nat : n = Len(q) - 1
  BY HeadIs
<1>. PICK t, h : t = Tail(q) /\ h = Head(q)
  OBVIOUS
<1>1. /\ h \in TaskType /\ h = q[1] /\ t \in Seq(TaskType) /\ Len(q) = n + 1 /\ Len(t) = n
      /\ \A i \in 1 .. n : t[i] = q[i + 1]
  BY HeadIs
<1>2. /\ \A i \in 1 .. n : q[i] \in WorkTask \cup AdoptTask
      /\ \A i \in 1 .. n + 1 : q[i].do = "adopt" =>
           i = 1 /\ n + 1 = 2 /\ g = None /\ (q[i].n = 1 => q[n + 1].do = "extract")
      /\ g # None => q[n + 1].do = "extract"
  BY <1>1 DEF Shape
<1>3. \A i \in 1 .. n : i + 1 \in 1 .. n + 1 /\ i + 1 # 1 /\ t[i].do # "adopt"
  BY <1>1, <1>2
<1>4. ASSUME NEW i \in 1 .. n - 1 PROVE t[i] \in WorkTask
  BY <1>1, <1>2, <1>3 DEF AdoptTask, Tasks
<1>5. ASSUME h \in LastTask PROVE n = 0
  <2>1. h \notin WorkTask \cup AdoptTask
    BY <1>1, <1>5, TaskIs
  <2>2. 1 \notin 1 .. n
    BY <1>1, <1>2, <2>1
  <2>. QED
    BY <2>2
<1>6. n = 0 => t = <<>>
  BY <1>1, EmptySeq
<1>7. ASSUME g # None, h \notin LastTask PROVE n > 0 /\ t[n].do = "extract"
  <2>1. q[n + 1].do = "extract" /\ q[n + 1] \in TaskType
    BY <1>1, <1>2, <1>7, ElementOfSeq
  <2>2. q[n + 1] \in LastTask
    BY <2>1, TaskIs
  <2>3. n # 0
    BY <1>1, <1>7, <2>2
  <2>4. n \in 1 .. n
    BY <2>3
  <2>5. t[n] = q[n + 1]
    BY <1>1, <2>4
  <2>. QED
    BY <2>1, <2>3, <2>5
<1>8. ASSUME h.do = "adopt" PROVE g = None /\ n = 1 /\ (h.n = 1 => t[n].do = "extract")
  BY <1>1, <1>2, <1>8
<1>9. ASSUME g # None, h \in LastTask PROVE h.do = "extract"
  BY <1>1, <1>2, <1>5, <1>9
<1>. QED
  BY <1>1, <1>3, <1>4, <1>5, <1>6, <1>7, <1>8, <1>9
---------------------------------------------------------------------------
Inserted(r, ht, p) ==
  /\ r.ht \in HeapType /\ r.ht.owner = ht.owner /\ r.ht.class = ht.class
  /\ r.ht.reserve = ht.reserve /\ r.ht.deferred = ht.deferred /\ r.ht.busy = ht.busy
  /\ Once(Slots(r.ht)) /\ r.tasks \in Seq(WorkTask) /\ Once(Carried(r.tasks))
  /\ NDefer(r.tasks) = 0
  /\ Among(Slots(r.ht)) \cap Among(Carried(r.tasks)) = {}
  /\ Among(Slots(r.ht)) \cup Among(Carried(r.tasks)) = Among(Slots(ht)) \cup {p}

(* Tasks that free pieces are tasks.                                       *)
LEMMA WorkIs ==
  /\ \A w \in Seq(WorkTask) : w \in Seq(TaskType)
  /\ \A k \in WorkTask : <<k>> \in Seq(WorkTask)
  /\ <<>> \in Seq(WorkTask)
  BY SeqMonotonic DEF TaskType

(* The fields of a result.                                                 *)
LEMMA ResultIs ==
  ASSUME NEW r, NEW a, NEW b, r = [ht |-> a, tasks |-> b]
  PROVE  r.ht = a /\ r.tasks = b
  OBVIOUS

(* _rpmalloc_heap_cache_insert(): p is in the cache, or among the tasks    *)
(* with others.                                                            *)
LEMMA CacheInsertIs ==
  ASSUME NEW ht \in HeapType, Once(Slots(ht)), NEW p \in CachedType, p \notin Among(Slots(ht))
  PROVE  Inserted(CacheInsert(ht, p), ht, p)
<1>n. PICK n \in 1 .. LargeCount : n = p.n
  BY DEF CachedType
<1>o. PICK old : old = ht.cache[n]
  OBVIOUS
<1>1. /\ old \in Seq(CachedType) /\ IsInjective(old) /\ ToSet(old) \subseteq Among(Slots(ht))
      /\ Len(old) \in Nat
  BY <1>o, HeapIs, SlotHas, SeqIs
<1>a. PICK all : all = Append(old, p)
  OBVIOUS
<1>2. /\ all \in Seq(CachedType) /\ Len(all) = Len(old) + 1 /\ IsInjective(all)
      /\ ToSet(all) = ToSet(old) \cup {p}
  BY <1>1, <1>a, AppendIs
<1>r. PICK r : r = CacheInsert(ht, p)
  OBVIOUS
<1>3. ASSUME NEW s \in Seq(CachedType), IsInjective(s), ToSet(s) \subseteq ToSet(all),
             NEW new, new = [ht EXCEPT !.cache[n] = s]
      PROVE  /\ new \in HeapType /\ new.owner = ht.owner /\ new.class = ht.class
             /\ new.reserve = ht.reserve /\ new.deferred = ht.deferred /\ new.busy = ht.busy
             /\ Once(Slots(new))
             /\ Among(Slots(new)) = (Among(Slots(ht)) \ ToSet(old)) \cup ToSet(s)
  <2>1. /\ new \in HeapType /\ new.owner = ht.owner /\ new.class = ht.class
        /\ new.reserve = ht.reserve /\ new.deferred = ht.deferred /\ new.busy = ht.busy
        /\ new.cache[n] = s /\ \A m \in 1 .. LargeCount : m # n => new.cache[m] = ht.cache[m]
    BY <1>3 DEF HeapType
  <2>2. /\ ButCache(ht, new, n) /\ IsInjective(new.cache[n])
        /\ ToSet(new.cache[n]) \cap (Among(Slots(ht)) \ ToSet(ht.cache[n])) = {}
    BY <1>2, <1>3, <1>o, <2>1 DEF ButCache
  <2>3. /\ Once(Slots(new))
        /\ Among(Slots(new)) = (Among(Slots(ht)) \ ToSet(ht.cache[n])) \cup ToSet(new.cache[n])
    BY <2>2, SetCache
  <2>. QED
    BY <1>o, <2>1, <2>3
<1>4. CASE Len(all) < CacheLimit
  <2>1. r = [ht |-> [ht EXCEPT !.cache[n] = all], tasks |-> <<>>]
    BY <1>4, <1>n, <1>o, <1>a, <1>r DEF CacheInsert
  <2>n. PICK new : new = [ht EXCEPT !.cache[n] = all]
    OBVIOUS
  <2>2. /\ new \in HeapType /\ new.owner = ht.owner /\ new.class = ht.class
        /\ new.reserve = ht.reserve /\ new.deferred = ht.deferred /\ new.busy = ht.busy
        /\ Once(Slots(new))
        /\ Among(Slots(new)) = (Among(Slots(ht)) \ ToSet(old)) \cup ToSet(all)
    BY <1>2, <1>3, <2>n
  <2>3. r.ht = new /\ r.tasks = <<>>
    BY <2>1, <2>n, ResultIs
  <2>4. Among(Slots(new)) = Among(Slots(ht)) \cup {p}
    BY <1>1, <1>2, <2>2
  <2>. QED
    BY <1>r, <2>2, <2>3, <2>4, CallNone, WorkIs DEF Inserted
<1>5. CASE ~(Len(all) < CacheLimit)
  <2>l. PICK left : left = CacheLimit - Transfer
    OBVIOUS
  <2>1. left \in 0 .. Len(all)
    BY <1>1, <1>2, <1>5, <2>l, LimitAssumption
  <2>a. PICK a, b : a = SubSeq(all, 1, left) /\ b = SubSeq(all, left + 1, Len(all))
    OBVIOUS
  <2>2. /\ a \in Seq(CachedType) /\ IsInjective(a) /\ b \in Seq(CachedType) /\ IsInjective(b)
        /\ ToSet(a) \cup ToSet(b) = ToSet(all) /\ ToSet(a) \cap ToSet(b) = {}
    BY <1>2, <2>a, <2>1, CutIs
  <2>n. PICK new : new = [ht EXCEPT !.cache[n] = a]
    OBVIOUS
  <2>k. PICK k : k = Task("global insert", n, b)
    OBVIOUS
  <2>3. r = [ht |-> new, tasks |-> <<k>>]
    BY <1>5, <1>n, <1>o, <1>a, <1>r, <2>l, <2>a, <2>n, <2>k DEF CacheInsert
  <2>4. /\ new \in HeapType /\ new.owner = ht.owner /\ new.class = ht.class
        /\ new.reserve = ht.reserve /\ new.deferred = ht.deferred /\ new.busy = ht.busy
        /\ Once(Slots(new))
        /\ Among(Slots(new)) = (Among(Slots(ht)) \ ToSet(old)) \cup ToSet(a)
    BY <1>3, <2>2, <2>n
  <2>5. k \in WorkTask /\ k \in TaskType /\ k.do = "global insert" /\ k.ps = b
    BY <2>2, <2>k DEF Task, WorkTask, TaskType, Tasks
  <2>6. TaskPieces(k) = b
    BY <2>5, TaskIs
  <2>7. /\ <<k>> \in Seq(WorkTask) /\ Once(Carried(<<k>>)) /\ NDefer(<<k>>) = 0
        /\ Among(Carried(<<k>>)) = ToSet(b)
    BY <2>2, <2>5, <2>6, CallOne, WorkIs
  <2>8. Among(Slots(new)) \cap ToSet(b) = {}
    <3>1. ToSet(b) \subseteq ToSet(old) \cup {p}
      BY <1>2, <2>2, Zenon
    <3>2. ((Among(Slots(ht)) \ ToSet(old)) \cup ToSet(a)) \cap ToSet(b) = {}
      <4>. SUFFICES ASSUME NEW x \in (Among(Slots(ht)) \ ToSet(old)) \cup ToSet(a), x \in ToSet(b)
                    PROVE  FALSE
        OBVIOUS
      <4>. QED
        BY <2>2, <3>1
    <3>. QED
      BY <2>4, <3>2
  <2>9. Among(Slots(new)) \cup ToSet(b) = Among(Slots(ht)) \cup {p}
    BY <1>1, <1>2, <2>2, <2>4
  <2>10. r.ht = new /\ r.tasks = <<k>>
    BY <2>3, ResultIs
  <2>. QED
    BY <1>r, <2>4, <2>7, <2>8, <2>9, <2>10 DEF Inserted
<1>. QED
  BY <1>4, <1>5, <1>r
---------------------------------------------------------------------------
(* g is the sequence of the states of a loop that starts with x and does   *)
(* F[n] in turn n.                                                         *)
Computes(g, L, x, F) ==
  g = [n \in 0 .. L |-> IF n = 0 THEN x ELSE F[n - 1][g[n - 1]]]

(* A loop that goes from a state in G[n] to one in G[n + 1] in turn n: the *)
(* sequence of its states exists.                                          *)
LEMMA LoopExists ==
  ASSUME NEW L \in Nat, NEW x, NEW G, NEW F,
         x \in G[0],
         \A n \in 0 .. L - 1 : \A P \in G[n] : F[n][P] \in G[n + 1]
  PROVE  \E g : Computes(g, L, x, F) /\ \A n \in 0 .. L : g[n] \in G[n]
<1>. DEFINE Run(m, g) ==
              /\ g = [n \in 0 .. m |-> IF n = 0 THEN x ELSE F[n - 1][g[n - 1]]]
              /\ \A n \in 0 .. m : g[n] \in G[n]
            Stuck == {m \in 0 .. L : ~\E g : Run(m, g)}
<1>1. Stuck = {}
  <2>. SUFFICES ASSUME Stuck # {} PROVE FALSE
    OBVIOUS
  <2>1. PICK m \in Stuck : \A k \in Stuck : m <= k
    <3>1. Stuck \in SUBSET Nat
      OBVIOUS
    <3>. QED
      BY <3>1, LeastOf
  <2>2. m \in 0 .. L /\ ~\E g : Run(m, g)
    BY <2>1
  <2>3. CASE m = 0
    <3>. DEFINE h == [n \in 0 .. 0 |-> x]
    <3>1. h = [n \in 0 .. 0 |-> IF n = 0 THEN x ELSE F[n - 1][h[n - 1]]]
      OBVIOUS
    <3>2. \A n \in 0 .. 0 : h[n] \in G[n]
      OBVIOUS
    <3>3. Run(0, h)
      BY <3>1, <3>2
    <3>. QED
      BY <2>2, <2>3, <3>3
  <2>4. CASE m # 0
    <3>1. m - 1 \in 0 .. L - 1 /\ ~(m <= m - 1) /\ m - 1 \in 0 .. L
      BY <2>2, <2>4
    <3>2. m - 1 \notin Stuck
      BY <2>1, <3>1
    <3>3. PICK f : Run(m - 1, f)
      BY <3>1, <3>2
    <3>. DEFINE h == [n \in 0 .. m |-> IF n = m THEN F[m - 1][f[m - 1]] ELSE f[n]]
    <3>4. \A n \in 0 .. m - 1 : f[n] = IF n = 0 THEN x ELSE F[n - 1][f[n - 1]]
      BY <3>3
    <3>5. /\ \A n \in 0 .. m - 1 : n \in 0 .. m /\ n # m
          /\ m \in 0 .. m /\ m - 1 \in 0 .. m - 1
          /\ \A n \in 0 .. m : n # 0 => n - 1 \in 0 .. m - 1
          /\ \A n \in 0 .. m : n = m \/ n \in 0 .. m - 1
      BY <2>2, <2>4
    <3>6. /\ \A n \in 0 .. m - 1 : h[n] = f[n]
          /\ h[m] = F[m - 1][h[m - 1]]
          /\ DOMAIN h = 0 .. m
      BY <3>5
    <3>7. \A n \in 0 .. m : h[n] = IF n = 0 THEN x ELSE F[n - 1][h[n - 1]]
      <4>. SUFFICES ASSUME NEW n \in 0 .. m
                    PROVE  h[n] = IF n = 0 THEN x ELSE F[n - 1][h[n - 1]]
        OBVIOUS
      <4>. HIDE DEF h
      <4>1. CASE n = m
        BY <2>4, <3>6, <4>1
      <4>2. CASE n # m
        BY <3>4, <3>5, <3>6, <4>2
      <4>. QED
        BY <4>1, <4>2
    <3>8. h = [n \in 0 .. m |-> IF n = 0 THEN x ELSE F[n - 1][h[n - 1]]]
      <4>1. h = [n \in 0 .. m |-> h[n]]
        OBVIOUS
      <4>. HIDE DEF h
      <4>. QED
        BY <3>7, <4>1, Zenon
    <3>. HIDE DEF h
    <3>9. \A n \in 0 .. m : h[n] \in G[n]
      BY <2>2, <3>1, <3>3, <3>5, <3>6
    <3>10. Run(m, h)
      BY <3>8, <3>9
    <3>. QED
      BY <2>2, <3>10
  <2>. QED
    BY <2>3, <2>4
<1>2. L \in 0 .. L
  OBVIOUS
<1>3. \E g : Run(L, g)
  BY <1>1, <1>2
<1>. QED
  BY <1>3, Zenon DEF Computes

(* What each turn of a loop keeps holds after all of them.                 *)
LEMMA LoopHolds ==
  ASSUME NEW L \in Nat, NEW G, NEW g, g[0] \in G[0],
         \A n \in 0 .. L - 1 : g[n] \in G[n] => g[n + 1] \in G[n + 1]
  PROVE  g[L] \in G[L]
<1>. DEFINE Bad == {n \in 0 .. L : g[n] \notin G[n]}
<1>. SUFFICES ASSUME Bad # {} PROVE FALSE
  OBVIOUS
<1>1. PICK m \in Bad : \A k \in Bad : m <= k
  <2>1. Bad \in SUBSET Nat
    OBVIOUS
  <2>. QED
    BY <2>1, LeastOf
<1>2. m \in 0 .. L /\ m # 0
  BY <1>1
<1>3. m - 1 \in 0 .. L - 1 /\ m - 1 \in 0 .. L /\ ~(m <= m - 1) /\ (m - 1) + 1 = m
  BY <1>2
<1>4. g[m - 1] \in G[m - 1]
  BY <1>1, <1>3
<1>5. g[(m - 1) + 1] \in G[(m - 1) + 1]
  BY <1>3, <1>4
<1>. QED
  BY <1>1, <1>3, <1>5

(* _rpmalloc_span_unmap() of every piece of a list.                        *)
LEMMA UnmapLoop ==
  ASSUME NEW q \in Seq(PieceType), NEW x, NEW G, x \in G[0],
         \A n \in 0 .. Len(q) - 1 : \A P \in G[n] : Unmapped(P, q[n + 1]) \in G[n + 1]
  PROVE  Each(Unmapped, x, q) \in G[Len(q)]
<1>. DEFINE L == Len(q)
            F == [n \in 0 .. L - 1 |-> [P \in G[n] |-> Unmapped(P, q[n + 1])]]
            Runs(g) == g = [n \in 0 .. L |-> IF n = 0 THEN x ELSE Unmapped(g[n - 1], q[n])]
            run == CHOOSE g : Runs(g)
<1>1. L \in Nat
  BY SeqIs
<1>2. Each(Unmapped, x, q) = run[L]
  BY DEF Each
<1>3. \A n \in 0 .. L - 1 : \A P \in G[n] :
        F[n][P] = Unmapped(P, q[n + 1]) /\ F[n][P] \in G[n + 1]
  OBVIOUS
<1>. HIDE DEF L, F
<1>4. \E g : Runs(g)
  <2>1. PICK g : /\ g = [n \in 0 .. L |-> IF n = 0 THEN x ELSE F[n - 1][g[n - 1]]]
                 /\ \A n \in 0 .. L : g[n] \in G[n]
    <3>1. \A n \in 0 .. L - 1 : \A P \in G[n] : F[n][P] \in G[n + 1]
      BY <1>3
    <3>2. \E g : Computes(g, L, x, F) /\ \A n \in 0 .. L : g[n] \in G[n]
      BY <1>1, <3>1, LoopExists, Zenon
    <3>. QED
      BY <3>2, Zenon DEF Computes
  <2>2. \A n \in 0 .. L : g[n] = IF n = 0 THEN x ELSE Unmapped(g[n - 1], q[n])
    <3>. SUFFICES ASSUME NEW n \in 0 .. L, n # 0 PROVE g[n] = Unmapped(g[n - 1], q[n])
      BY <2>1
    <3>1. n - 1 \in 0 .. L - 1 /\ n - 1 \in 0 .. L /\ (n - 1) + 1 = n
      BY <1>1
    <3>2. g[n] = F[n - 1][g[n - 1]] /\ g[n - 1] \in G[n - 1]
      BY <2>1, <3>1
    <3>3. F[n - 1][g[n - 1]] = Unmapped(g[n - 1], q[(n - 1) + 1])
      BY <1>3, <3>1, <3>2
    <3>. QED
      BY <3>1, <3>2, <3>3
  <2>3. g = [n \in 0 .. L |-> g[n]]
    BY <2>1
  <2>4. Runs(g)
    BY <2>2, <2>3, Zenon
  <2>. QED
    BY <2>4
<1>5. Runs(run)
  BY <1>4
<1>. HIDE DEF run
<1>6. \A n \in 0 .. L : run[n] = IF n = 0 THEN x ELSE Unmapped(run[n - 1], q[n])
  BY <1>5
<1>7. \A n \in 0 .. L - 1 : run[n] \in G[n] => run[n + 1] \in G[n + 1]
  <2>. SUFFICES ASSUME NEW n \in 0 .. L - 1, run[n] \in G[n] PROVE run[n + 1] \in G[n + 1]
    OBVIOUS
  <2>1. n + 1 \in 0 .. L /\ n + 1 # 0 /\ (n + 1) - 1 = n
    BY <1>1
  <2>2. run[n + 1] = Unmapped(run[n], q[n + 1])
    BY <1>6, <2>1
  <2>. QED
    BY <1>3, <2>2
<1>8. run[0] \in G[0]
  <2>1. 0 \in 0 .. L
    BY <1>1
  <2>. QED
    BY <1>6, <2>1
<1>9. run[L] \in G[L]
  BY <1>1, <1>7, <1>8, LoopHolds
<1>. QED
  BY <1>2, <1>9 DEF L

(* The pieces of many lists in one.                                        *)
LEMMA JoinLoop ==
  ASSUME NEW S, NEW q \in Seq(S), NEW x, NEW G, x \in G[0],
         \A n \in 0 .. Len(q) - 1 : \A P \in G[n] : P \o q[n + 1] \in G[n + 1]
  PROVE  Each(\o, x, q) \in G[Len(q)]
<1>. DEFINE L == Len(q)
            F == [n \in 0 .. L - 1 |-> [P \in G[n] |-> P \o q[n + 1]]]
            Runs(g) == g = [n \in 0 .. L |-> IF n = 0 THEN x ELSE g[n - 1] \o q[n]]
            run == CHOOSE g : Runs(g)
<1>1. L \in Nat
  BY SeqIs
<1>2. Each(\o, x, q) = run[L]
  BY DEF Each
<1>3. \A n \in 0 .. L - 1 : \A P \in G[n] :
        F[n][P] = P \o q[n + 1] /\ F[n][P] \in G[n + 1]
  OBVIOUS
<1>. HIDE DEF L, F
<1>4. \E g : Runs(g)
  <2>1. PICK g : /\ g = [n \in 0 .. L |-> IF n = 0 THEN x ELSE F[n - 1][g[n - 1]]]
                 /\ \A n \in 0 .. L : g[n] \in G[n]
    <3>1. \A n \in 0 .. L - 1 : \A P \in G[n] : F[n][P] \in G[n + 1]
      BY <1>3
    <3>2. \E g : Computes(g, L, x, F) /\ \A n \in 0 .. L : g[n] \in G[n]
      BY <1>1, <3>1, LoopExists, Zenon
    <3>. QED
      BY <3>2, Zenon DEF Computes
  <2>2. \A n \in 0 .. L : g[n] = IF n = 0 THEN x ELSE g[n - 1] \o q[n]
    <3>. SUFFICES ASSUME NEW n \in 0 .. L, n # 0 PROVE g[n] = g[n - 1] \o q[n]
      BY <2>1
    <3>1. n - 1 \in 0 .. L - 1 /\ n - 1 \in 0 .. L /\ (n - 1) + 1 = n
      BY <1>1
    <3>2. g[n] = F[n - 1][g[n - 1]] /\ g[n - 1] \in G[n - 1]
      BY <2>1, <3>1
    <3>3. F[n - 1][g[n - 1]] = g[n - 1] \o q[(n - 1) + 1]
      BY <1>3, <3>1, <3>2
    <3>. QED
      BY <3>1, <3>2, <3>3
  <2>3. g = [n \in 0 .. L |-> g[n]]
    BY <2>1
  <2>4. Runs(g)
    BY <2>2, <2>3, Zenon
  <2>. QED
    BY <2>4
<1>5. Runs(run)
  BY <1>4
<1>. HIDE DEF run
<1>6. \A n \in 0 .. L : run[n] = IF n = 0 THEN x ELSE run[n - 1] \o q[n]
  BY <1>5
<1>7. \A n \in 0 .. L - 1 : run[n] \in G[n] => run[n + 1] \in G[n + 1]
  <2>. SUFFICES ASSUME NEW n \in 0 .. L - 1, run[n] \in G[n] PROVE run[n + 1] \in G[n + 1]
    OBVIOUS
  <2>1. n + 1 \in 0 .. L /\ n + 1 # 0 /\ (n + 1) - 1 = n
    BY <1>1
  <2>2. run[n + 1] = run[n] \o q[n + 1]
    BY <1>6, <2>1
  <2>. QED
    BY <1>3, <2>2
<1>8. run[0] \in G[0]
  <2>1. 0 \in 0 .. L
    BY <1>1
  <2>. QED
    BY <1>6, <2>1
<1>9. run[L] \in G[L]
  BY <1>1, <1>7, <1>8, LoopHolds
<1>. QED
  BY <1>2, <1>9 DEF L
---------------------------------------------------------------------------
(* Pieces unmapped one by one: the regions count those that are left.      *)
LEMMA UnmapAllIs ==
  ASSUME NEW rem, RemOK(rem), NEW All, Accounted(rem, All),
         NEW ps \in Seq(PieceType), IsInjective(ps), ToSet(ps) \subseteq All
  PROVE  /\ RemOK(UnmappedAll(rem, ps)) /\ Accounted(UnmappedAll(rem, ps), All \ ToSet(ps))
         /\ DOMAIN UnmappedAll(rem, ps) \subseteq DOMAIN rem
<1>n. PICK L \in Nat : L = Len(ps)
  BY SeqIs
<1>. DEFINE Left(n) == All \ {ps[i] : i \in 1 .. n}
            Rems == UNION {[D -> Nat \ {0}] : D \in SUBSET DOMAIN rem}
            G == [n \in 0 .. L |-> {R \in Rems : Accounted(R, Left(n))}]
<1>1. \A R : R \in Rems <=> RemOK(R) /\ DOMAIN R \subseteq DOMAIN rem
  BY DEF RemOK
<1>2. DOMAIN ps = 1 .. L /\ \A i \in 1 .. L : ps[i] \in ToSet(ps)
  BY <1>n, SeqIs
<1>3. rem \in G[0]
  <2>1. Left(0) = All
    OBVIOUS
  <2>2. 0 \in 0 .. L
    OBVIOUS
  <2>. QED
    BY <1>1, <2>1, <2>2
<1>4. ASSUME NEW n \in 0 .. L - 1, NEW P \in G[n]
      PROVE  Unmapped(P, ps[n + 1]) \in G[n + 1]
  <2>1. n \in 0 .. L /\ n + 1 \in 0 .. L /\ n + 1 \in 1 .. L
    OBVIOUS
  <2>2. P \in Rems /\ Accounted(P, Left(n))
    BY <2>1
  <2>3. ps[n + 1] \in Left(n)
    BY <1>2, <2>1 DEF IsInjective
  <2>4. Left(n) \ {ps[n + 1]} = Left(n + 1)
    <3>1. \A i \in 1 .. n + 1 : i \in 1 .. n \/ i = n + 1
      OBVIOUS
    <3>2. n + 1 \in 1 .. n + 1 /\ \A i \in 1 .. n : i \in 1 .. n + 1
      OBVIOUS
    <3>. QED
      BY <3>1, <3>2
  <2>. HIDE DEF Left, Rems
  <2>5. /\ RemOK(Unmapped(P, ps[n + 1])) /\ DOMAIN Unmapped(P, ps[n + 1]) \subseteq DOMAIN P
        /\ Accounted(Unmapped(P, ps[n + 1]), Left(n) \ {ps[n + 1]})
    BY <1>1, <2>2, <2>3, UnmapIs
  <2>6. Unmapped(P, ps[n + 1]) \in Rems /\ Accounted(Unmapped(P, ps[n + 1]), Left(n + 1))
    BY <1>1, <2>2, <2>4, <2>5
  <2>. QED
    BY <2>1, <2>6
<1>5. Left(L) = All \ ToSet(ps)
  BY <1>2 DEF ToSet
<1>6. L \in 0 .. L
  OBVIOUS
<1>. HIDE DEF G
<1>7. Each(Unmapped, rem, ps) \in G[Len(ps)]
  BY <1>n, <1>3, <1>4, UnmapLoop
<1>8. Each(Unmapped, rem, ps) \in Rems /\ Accounted(Each(Unmapped, rem, ps), Left(L))
  BY <1>n, <1>6, <1>7 DEF G
<1>. HIDE DEF Left, Rems
<1>. QED
  BY <1>1, <1>5, <1>8 DEF UnmappedAll

(* The queues of a family, one after the other.                            *)
LEMMA JoinedIs ==
  ASSUME NEW S, NEW qs \in Seq(Seq(S)), Once(qs)
  PROVE  /\ Joined(qs) \in Seq(S) /\ IsInjective(Joined(qs)) /\ ToSet(Joined(qs)) = Among(qs)
<1>n. PICK L \in Nat : L = Len(qs)
  BY SeqIs
<1>. DEFINE In(n) == UNION {ToSet(qs[i]) : i \in 1 .. n}
            G == [n \in 0 .. L |-> {q \in Seq(S) : IsInjective(q) /\ ToSet(q) = In(n)}]
<1>2. DOMAIN qs = 1 .. L /\ \A i \in 1 .. L : qs[i] \in Seq(S)
  BY <1>n, SeqIs
<1>a. /\ \A i \in 1 .. L : IsInjective(qs[i])
      /\ \A i, j \in 1 .. L : i # j => ToSet(qs[i]) \cap ToSet(qs[j]) = {}
  BY <1>2, OnceIs
<1>3. <<>> \in G[0]
  BY NoneInEmpty
<1>4. ASSUME NEW n \in 0 .. L - 1, NEW P \in G[n]
      PROVE  P \o qs[n + 1] \in G[n + 1]
  <2>1. n \in 0 .. L /\ n + 1 \in 0 .. L /\ n + 1 \in 1 .. L
    OBVIOUS
  <2>2. P \in Seq(S) /\ IsInjective(P) /\ ToSet(P) = In(n)
    BY <2>1
  <2>3. In(n) \cap ToSet(qs[n + 1]) = {}
    <3>1. \A i \in 1 .. n : i \in 1 .. L /\ i # n + 1
      OBVIOUS
    <3>2. \A i \in 1 .. n : ToSet(qs[i]) \cap ToSet(qs[n + 1]) = {}
      BY <1>a, <2>1, <3>1
    <3>. QED
      BY <3>2
  <2>4. In(n) \cup ToSet(qs[n + 1]) = In(n + 1)
    <3>1. \A i \in 1 .. n + 1 : i \in 1 .. n \/ i = n + 1
      OBVIOUS
    <3>2. n + 1 \in 1 .. n + 1 /\ \A i \in 1 .. n : i \in 1 .. n + 1
      OBVIOUS
    <3>. QED
      BY <3>1, <3>2
  <2>. HIDE DEF In
  <2>p. PICK b : b = qs[n + 1]
    OBVIOUS
  <2>5. b \in Seq(S) /\ IsInjective(b) /\ ToSet(P) \cap ToSet(b) = {}
    BY <1>2, <1>a, <2>1, <2>2, <2>3, <2>p
  <2>6. P \o b \in Seq(S) /\ IsInjective(P \o b) /\ ToSet(P \o b) = ToSet(P) \cup ToSet(b)
    BY <2>2, <2>5, JoinIs
  <2>7. P \o qs[n + 1] \in {q \in Seq(S) : IsInjective(q) /\ ToSet(q) = In(n + 1)}
    BY <2>2, <2>4, <2>6, <2>p
  <2>. QED
    BY <2>1, <2>7
<1>5. In(L) = Among(qs)
  BY <1>2 DEF Among
<1>6. L \in 0 .. L
  OBVIOUS
<1>. HIDE DEF G
<1>s. PICK T : T = Seq(S)
  OBVIOUS
<1>b. qs \in Seq(T)
  BY <1>s
<1>7. Each(\o, <<>>, qs) \in G[Len(qs)]
  BY <1>n, <1>3, <1>4, <1>b, JoinLoop
<1>8. Each(\o, <<>>, qs) \in {q \in Seq(S) : IsInjective(q) /\ ToSet(q) = In(L)}
  BY <1>n, <1>6, <1>7 DEF G
<1>. HIDE DEF In
<1>. QED
  BY <1>5, <1>8 DEF Joined
---------------------------------------------------------------------------
(* The spans of a heap that some call is to defer again.                   *)
OwedSet(s, q, a, h) == {<<s, i>> : i \in {j \in DOMAIN q : q[j].do = "defer" /\ a = h}}
Owes(q, a, h) == IF a = h THEN NDefer(q) ELSE 0
Owed(tasks, places, h, T) == UNION {OwedSet(s, tasks[s], places[s], h) : s \in T}

(* The spans of a heap that one call is to defer again, counted.           *)
LEMMA OwedSetIs ==
  ASSUME NEW q \in Seq(TaskType), NEW a, NEW h, NEW s
  PROVE  /\ IsFiniteSet(OwedSet(s, q, a, h))
         /\ Cardinality(OwedSet(s, q, a, h)) = Owes(q, a, h)
<1>d. PICK D : D = OwedSet(s, q, a, h)
  OBVIOUS
<1>1. CASE a = h
  <2>1. D = {<<s, i>> : i \in Redefers(q)}
    BY <1>1, <1>d DEF Redefers, OwedSet
  <2>p. PICK R : R = Redefers(q)
    OBVIOUS
  <2>. DEFINE f == [i \in R |-> <<s, i>>]
  <2>2. f \in Bijection(R, D)
    BY <2>1, <2>p DEF Bijection, Injection, Surjection, IsInjective
  <2>3. ExistsBijection(R, D)
    BY <2>2 DEF ExistsBijection
  <2>4. IsFiniteSet(R) /\ Cardinality(R) = NDefer(q)
    BY <2>p, DefersFinite DEF NDefer
  <2>. QED
    BY <1>1, <1>d, <2>3, <2>4, FS_Bijection DEF Owes
<1>2. CASE a # h
  BY <1>d, <1>2, FS_EmptySet DEF OwedSet, Owes
<1>. QED
  BY <1>1, <1>2

(* The spans of a heap that all calls are to defer again: those of t and   *)
(* of the others.                                                          *)
LEMMA OwedIs ==
  ASSUME NEW tasks \in [Thread -> Seq(TaskType)], NEW places, NEW t \in Thread, NEW h
  PROVE  /\ IsFiniteSet(Owed(tasks, places, h, Thread \ {t}))
         /\ Cardinality(Owed(tasks, places, h, Thread \ {t})) \in Nat
         /\ IsFiniteSet(Owed(tasks, places, h, Thread))
         /\ Cardinality(Owed(tasks, places, h, Thread))
              = Cardinality(Owed(tasks, places, h, Thread \ {t})) + Owes(tasks[t], places[t], h)
<1>p. PICK O, R : O = Owed(tasks, places, h, Thread) /\ R = Owed(tasks, places, h, Thread \ {t})
  OBVIOUS
<1>b. PICK B : B = [s \in Thread |-> OwedSet(s, tasks[s], places[s], h)]
  OBVIOUS
<1>o. O = UNION {B[s] : s \in Thread} /\ R = UNION {B[s] : s \in Thread \ {t}}
  BY <1>b, <1>p DEF Owed
<1>1. \A s \in Thread : IsFiniteSet(B[s]) /\ Cardinality(B[s]) = Owes(tasks[s], places[s], h)
  BY <1>b, OwedSetIs
<1>2. \A s, u \in Thread : s # u => B[s] \cap B[u] = {}
  BY <1>b DEF OwedSet
<1>3. IsFiniteSet(Thread) /\ IsFiniteSet(Thread \ {t})
  BY ThreadAssumption, FS_Subset
<1>4. IsFiniteSet(R)
  <2>. DEFINE T == {B[s] : s \in Thread \ {t}}
              f == [s \in Thread \ {t} |-> B[s]]
  <2>1. f \in Surjection(Thread \ {t}, T)
    BY DEF Surjection
  <2>2. \A D \in T : IsFiniteSet(D)
    BY <1>1
  <2>. HIDE DEF f, T
  <2>3. IsFiniteSet(T)
    BY <1>3, <2>1, FS_Surjection
  <2>4. IsFiniteSet(UNION T)
    BY <2>2, <2>3, FS_UNION
  <2>. QED
    BY <1>o, <2>4 DEF T
<1>5. O = R \cup B[t] /\ R \cap B[t] = {}
  BY <1>o, <1>2
<1>d. PICK D : D = B[t]
  OBVIOUS
<1>6. IsFiniteSet(D) /\ Cardinality(D) = Owes(tasks[t], places[t], h)
  BY <1>1, <1>d
<1>7. /\ IsFiniteSet(R \cup D)
      /\ Cardinality(R \cup D) = Cardinality(R) + Cardinality(D) - Cardinality(R \cap D)
  BY <1>4, <1>6, FS_Union
<1>8. Cardinality(R) \in Nat /\ Cardinality(D) \in Nat /\ Cardinality({}) = 0
  BY <1>4, <1>6, FS_CardinalityType, FS_EmptySet
<1>9. R \cap D = {} /\ O = R \cup D
  BY <1>5, <1>d
<1>10. Cardinality(R \cap D) = 0
  BY <1>8, <1>9, Zenon
<1>11. \A x, y \in Nat : x + y - 0 = x + y
  OBVIOUS
<1>12. Cardinality(O) = Cardinality(R) + Cardinality(D) - 0
  BY <1>7, <1>9, <1>10, Zenon
<1>13. Cardinality(O) = Cardinality(R) + Cardinality(D)
  BY <1>8, <1>11, <1>12, Zenon
<1>. QED
  BY <1>p, <1>4, <1>6, <1>7, <1>8, <1>9, <1>13
---------------------------------------------------------------------------
(* HeapsKept of given heaps, pieces in use and calls.                      *)
UsedOf(us, h) == {u \in us : u.h = h}

Kept(hp, us, tasks, places) ==
  /\ \A u \in us : u.h \in DOMAIN hp
  /\ \A h \in DOMAIN hp :
       hp[h].busy = Cardinality(UsedOf(us, h)) + Len(hp[h].deferred)
                      + Cardinality(Owed(tasks, places, h, Thread))

(* HeapsKept by its parts.                                                 *)
LEMMA KeptIs == HeapsKept <=> Kept(heap, used, todo, at)
  BY DEF HeapsKept, Kept, UsedOf, Owed, OwedSet

(* HeapsKept by its parts, after the step.                                 *)
LEMMA KeptWillBe == HeapsKept' <=> Kept(heap', used', todo', at')
  BY DEF HeapsKept, Kept, UsedOf, Owed, OwedSet

(* What a step of one call may change in the counts of one heap.           *)
Balance(ht, c, d, ht2, c2, d2) ==
  ht2.busy + c + Len(ht.deferred) + d = ht.busy + c2 + Len(ht2.deferred) + d2

(* A count that is exact stays exact in a balanced step.                   *)
Exact(ht, c, d, r) == ht.busy = c + Len(ht.deferred) + (r + d)

(* A count that is right stays right when both sides change by the same.   *)
LEMMA StaysExact ==
  ASSUME NEW ht \in HeapType, NEW ht2 \in HeapType, NEW c \in Nat, NEW c2 \in Nat,
         NEW d \in Nat, NEW d2 \in Nat, NEW r \in Nat,
         Balance(ht, c, d, ht2, c2, d2), Exact(ht, c, d, r)
  PROVE  Exact(ht2, c2, d2, r)
<1>1. /\ ht.busy \in Int /\ Len(ht.deferred) \in Nat
      /\ ht2.busy \in Int /\ Len(ht2.deferred) \in Nat
  BY HeapIs, SeqIs
<1>2. PICK x \in Int : x = ht.busy
  BY <1>1
<1>3. PICK x2 \in Int : x2 = ht2.busy
  BY <1>1
<1>4. PICK m \in Nat : m = Len(ht.deferred)
  BY <1>1
<1>5. PICK m2 \in Nat : m2 = Len(ht2.deferred)
  BY <1>1
<1>6. x2 + c + m + d = x + c2 + m2 + d2 /\ x = c + m + (r + d)
  BY <1>2, <1>3, <1>4, <1>5 DEF Balance, Exact
<1>7. x2 = c2 + m2 + (r + d2)
  BY <1>6
<1>. QED
  BY <1>2, <1>3, <1>4, <1>5, <1>7 DEF Exact

Counts(hp, us, tasks, places, t, h, ht, us2, q, a) ==
  /\ \A u \in us2 : u.h \in DOMAIN hp
  /\ \A k \in DOMAIN hp : k # h => UsedOf(us2, k) = UsedOf(us, k)
  /\ a = h \/ NDefer(q) = 0
  /\ places[t] = h \/ NDefer(tasks[t]) = 0
  /\ Balance(hp[h], Cardinality(UsedOf(us, h)), NDefer(tasks[t]),
             ht, Cardinality(UsedOf(us2, h)), NDefer(q))

OwedOthers(tasks, places, t, h, r) ==
  /\ r \in Nat /\ r = Cardinality(Owed(tasks, places, h, Thread \ {t}))
  /\ Cardinality(Owed(tasks, places, h, Thread)) = r + Owes(tasks[t], places[t], h)

(* What the other threads owe a heap is a number.                          *)
LEMMA OwedByOthers ==
  ASSUME NEW tasks \in [Thread -> Seq(TaskType)], NEW places, NEW t \in Thread, NEW h
  PROVE  \E r \in Nat : OwedOthers(tasks, places, t, h, r)
  BY OwedIs DEF OwedOthers

(* HeapsKept after a step of thread t on heap h.                           *)
LEMMA KeptStep ==
  ASSUME NEW hp, hp \in [DOMAIN hp -> HeapType], NEW us, NEW tasks \in [Thread -> Seq(TaskType)],
         NEW places \in [Thread -> Heap \cup {None}], Kept(hp, us, tasks, places),
         NEW t \in Thread, NEW h \in DOMAIN hp, NEW ht \in HeapType, NEW q \in Seq(TaskType),
         NEW a \in Heap \cup {None}, NEW us2, IsFiniteSet(us), IsFiniteSet(us2),
         Counts(hp, us, tasks, places, t, h, ht, us2, q, a)
  PROVE  Kept([hp EXCEPT ![h] = ht], us2, [tasks EXCEPT ![t] = q], [places EXCEPT ![t] = a])
<1>z. PICK hp2, tasks2, places2 : /\ hp2 = [hp EXCEPT ![h] = ht]
                                  /\ tasks2 = [tasks EXCEPT ![t] = q]
                                  /\ places2 = [places EXCEPT ![t] = a]
  OBVIOUS
<1>c. /\ \A u \in us2 : u.h \in DOMAIN hp
      /\ \A k \in DOMAIN hp : k # h => UsedOf(us2, k) = UsedOf(us, k)
      /\ a = h \/ NDefer(q) = 0
      /\ places[t] = h \/ NDefer(tasks[t]) = 0
      /\ Balance(hp[h], Cardinality(UsedOf(us, h)), NDefer(tasks[t]),
                 ht, Cardinality(UsedOf(us2, h)), NDefer(q))
  BY DEF Counts
<1>1. DOMAIN hp2 = DOMAIN hp /\ hp2[h] = ht /\ \A k \in DOMAIN hp : k # h => hp2[k] = hp[k]
  BY <1>z
<1>2. /\ tasks2 \in [Thread -> Seq(TaskType)] /\ tasks2[t] = q /\ places2[t] = a
      /\ \A s \in Thread \ {t} : tasks2[s] = tasks[s] /\ places2[s] = places[s]
  BY <1>z
<1>3. \A k : Owed(tasks2, places2, k, Thread \ {t}) = Owed(tasks, places, k, Thread \ {t})
  BY <1>2 DEF Owed
<1>4. ASSUME NEW k
      PROVE  \E r \in Nat :
               /\ Cardinality(Owed(tasks, places, k, Thread)) = r + Owes(tasks[t], places[t], k)
               /\ Cardinality(Owed(tasks2, places2, k, Thread)) = r + Owes(q, a, k)
  <2>1. PICK r \in Nat : OwedOthers(tasks, places, t, k, r)
    BY OwedByOthers
  <2>2. PICK r2 \in Nat : OwedOthers(tasks2, places2, t, k, r2)
    BY <1>2, OwedByOthers
  <2>3. r2 = r
    BY <1>3, <2>1, <2>2 DEF OwedOthers
  <2>4. Cardinality(Owed(tasks, places, k, Thread)) = r + Owes(tasks[t], places[t], k)
    BY <2>1 DEF OwedOthers
  <2>5. Cardinality(Owed(tasks2, places2, k, Thread)) = r + Owes(q, a, k)
    BY <1>2, <2>2, <2>3 DEF OwedOthers
  <2>. QED
    BY <2>4, <2>5
<1>5. ASSUME NEW k \in DOMAIN hp
      PROVE  hp2[k].busy = Cardinality(UsedOf(us2, k)) + Len(hp2[k].deferred)
                             + Cardinality(Owed(tasks2, places2, k, Thread))
  <2>1. PICK r \in Nat :
          /\ Cardinality(Owed(tasks, places, k, Thread)) = r + Owes(tasks[t], places[t], k)
          /\ Cardinality(Owed(tasks2, places2, k, Thread)) = r + Owes(q, a, k)
    BY <1>4
  <2>2. hp[k].busy = Cardinality(UsedOf(us, k)) + Len(hp[k].deferred)
                       + Cardinality(Owed(tasks, places, k, Thread))
    BY DEF Kept
  <2>3. NDefer(q) \in Nat /\ NDefer(tasks[t]) \in Nat
    BY DefersFinite
  <2>4. CASE k # h
    BY <1>c, <1>1, <2>1, <2>2, <2>4 DEF Owes
  <2>5. CASE k = h
    <3>1. Owes(tasks[t], places[t], h) = NDefer(tasks[t]) /\ Owes(q, a, h) = NDefer(q)
      BY <1>c DEF Owes
    <3>3. Cardinality(UsedOf(us, h)) \in Nat /\ Cardinality(UsedOf(us2, h)) \in Nat
      BY FS_CardinalityType, FS_Subset DEF UsedOf
    <3>4. hp[h] \in HeapType
      OBVIOUS
    <3>5. Exact(hp[h], Cardinality(UsedOf(us, h)), NDefer(tasks[t]), r)
      BY <2>1, <2>2, <2>5, <3>1 DEF Exact
    <3>6. Exact(ht, Cardinality(UsedOf(us2, h)), NDefer(q), r)
      BY <1>c, <2>3, <3>3, <3>4, <3>5, StaysExact
    <3>. QED
      BY <1>1, <2>1, <2>5, <3>1, <3>6 DEF Exact
  <2>. QED
    BY <2>4, <2>5
<1>. QED
  BY <1>c, <1>z, <1>1, <1>5 DEF Kept
---------------------------------------------------------------------------
Apart(a, b, c, d, e) ==
  /\ a \cap b = {} /\ a \cap c = {} /\ a \cap d = {} /\ a \cap e = {} /\ b \cap c = {}
  /\ b \cap d = {} /\ b \cap e = {} /\ c \cap d = {} /\ c \cap e = {} /\ d \cap e = {}

(* A step of thread t that touches one heap and the caches of one count.   *)
Frame(t, h, n) ==
  /\ heap' = [heap EXCEPT ![h] = heap'[h]]
  /\ todo' = [todo EXCEPT ![t] = todo'[t]] /\ got' = [got EXCEPT ![t] = got'[t]]
  /\ at' = [at EXCEPT ![t] = at'[t]] /\ mine' = [mine EXCEPT ![t] = mine'[t]]
  /\ global' = [global EXCEPT ![n] = global'[n]]
  /\ overflow' = [overflow EXCEPT ![n] = overflow'[n]]
  /\ finalized' = finalized

TypedThen(t, h, n) ==
  /\ heap'[h] \in HeapType /\ todo'[t] \in Seq(TaskType) /\ got'[t] \in CachedType \cup {None}
  /\ at'[t] \in Heap \cup {None} /\ mine'[t] \in Heap \cup {None} /\ orphans' \in Seq(Heap)
  /\ global'[n] \in Seq(CachedType) /\ overflow'[n] \in Seq(CachedType)
  /\ used' \in SUBSET UseType /\ IsFiniteSet(used') /\ RemOK(remaining')

CallThen(t) ==
  /\ Shape(todo'[t], got'[t])
  /\ Len(todo'[t]) > 0 => at'[t] \in DOMAIN heap /\ finalized = "no"

HeapsThen(t) ==
  /\ \A u \in used' : u.h \in DOMAIN heap
  /\ finalized = "no" => /\ ToSet(orphans') \subseteq DOMAIN heap
                         /\ mine'[t] # None => mine'[t] \in DOMAIN heap

OnceThen(t, h, n) ==
  /\ Once(Slots(heap'[h])) /\ Once(Carried(todo'[t]))
  /\ got'[t] # None => got'[t] \notin Among(Carried(todo'[t]))
  /\ IsInjective(global'[n]) /\ IsInjective(overflow'[n])
  /\ \A u, v \in used' : u.p = v.p => u = v

Before(t, h, n) ==
  Among(Slots(heap[h])) \cup InThread(t) \cup InUse \cup ToSet(global[n]) \cup ToSet(overflow[n])

MovedThen(t, h, n, Out, New) ==
  /\ Apart(Among(Slots(heap'[h])), Among(Carried(todo'[t])) \cup One(got'[t]),
           {u.p : u \in used'}, ToSet(global'[n]), ToSet(overflow'[n]))
  /\ Among(Slots(heap'[h])) \cup (Among(Carried(todo'[t])) \cup One(got'[t]))
        \cup {u.p : u \in used'} \cup ToSet(global'[n]) \cup ToSet(overflow'[n])
       = (Before(t, h, n) \ Out) \cup New
  /\ Out \subseteq Before(t, h, n) /\ New \cap Union(Group) = {}
  /\ Accounted(remaining', (Union(Group) \ Out) \cup New)

KeptThen(t, h) ==
  /\ \A k \in DOMAIN heap : k # h => UsedOf(used', k) = UsedOf(used, k)
  /\ at'[t] = h \/ NDefer(todo'[t]) = 0
  /\ at[t] = h \/ NDefer(todo[t]) = 0
  /\ Balance(heap[h], Cardinality(UsedOf(used, h)), NDefer(todo[t]),
             heap'[h], Cardinality(UsedOf(used', h)), NDefer(todo'[t]))

(* The types after a step of thread t on heap h and the caches of n spans. *)
LEMMA TypedStep ==
  ASSUME TypeOK, NEW t \in Thread, NEW h \in DOMAIN heap, NEW n \in 1 .. LargeCount,
         Frame(t, h, n), TypedThen(t, h, n)
  PROVE  TypeOK'
  BY DEF TypedThen, TypeOK, Frame, RemOK

(* The calls after a step of thread t.                                     *)
LEMMA CallStep ==
  ASSUME TypeOK, \A s \in Thread : CallOK(s),
         NEW t \in Thread, NEW h \in DOMAIN heap, NEW n \in 1 .. LargeCount,
         Frame(t, h, n), CallThen(t)
  PROVE  (\A s \in Thread : CallOK(s))'
<1>1. DOMAIN heap' = DOMAIN heap /\ finalized' = finalized
  BY DEF TypeOK, Frame
<1>2. ASSUME NEW s \in Thread PROVE CallOK(s)'
  <2>1. CASE s = t
    BY <1>1, <2>1 DEF CallThen, CallOK, Shape
  <2>2. CASE s # t
    BY <1>1, <2>2 DEF TypeOK, Frame, CallOK
  <2>. QED
    BY <2>1, <2>2
<1>. QED
  BY <1>2

(* The heaps after a step of thread t on heap h.                           *)
LEMMA HeapsStep ==
  ASSUME TypeOK, HeapsOK, NEW t \in Thread, NEW h \in DOMAIN heap, NEW n \in 1 .. LargeCount,
         Frame(t, h, n), HeapsThen(t)
  PROVE  HeapsOK'
  BY DEF TypeOK, Frame, HeapsOK, HeapsThen

(* HeapsKept after a step, from what the step does to heap h and the call  *)
(* of t.                                                                   *)
LEMMA KeptThenIs ==
  ASSUME TypeOK, HeapsKept, NEW t \in Thread, NEW h \in DOMAIN heap, NEW n \in 1 .. LargeCount,
         Frame(t, h, n), TypedThen(t, h, n), HeapsThen(t), KeptThen(t, h)
  PROVE  HeapsKept'
<1>p. PICK hp, us, tasks, places : hp = heap /\ us = used /\ tasks = todo /\ places = at
  OBVIOUS
<1>q. PICK hp2, us2, tasks2, places2 :
        hp2 = heap' /\ us2 = used' /\ tasks2 = todo' /\ places2 = at'
  OBVIOUS
<1>r. PICK ht, q, a : ht = heap'[h] /\ q = todo'[t] /\ a = at'[t]
  OBVIOUS
<1>1. /\ hp \in [DOMAIN hp -> HeapType] /\ tasks \in [Thread -> Seq(TaskType)]
      /\ places \in [Thread -> Heap \cup {None}] /\ IsFiniteSet(us) /\ h \in DOMAIN hp
  BY <1>p DEF TypeOK
<1>2. Kept(hp, us, tasks, places)
  BY <1>p, KeptIs
<1>3. ht \in HeapType /\ q \in Seq(TaskType) /\ a \in Heap \cup {None} /\ IsFiniteSet(us2)
  BY <1>q, <1>r DEF TypedThen
<1>4. /\ hp2 = [hp EXCEPT ![h] = ht] /\ tasks2 = [tasks EXCEPT ![t] = q]
      /\ places2 = [places EXCEPT ![t] = a]
  BY <1>p, <1>q, <1>r DEF Frame
<1>5. Counts(hp, us, tasks, places, t, h, ht, us2, q, a)
  BY <1>p, <1>q, <1>r DEF KeptThen, HeapsThen, Counts
<1>6. Kept([hp EXCEPT ![h] = ht], us2, [tasks EXCEPT ![t] = q], [places EXCEPT ![t] = a])
  BY <1>1, <1>2, <1>3, <1>5, KeptStep
<1>7. Kept(hp2, us2, tasks2, places2)
  BY <1>4, <1>6
<1>. QED
  BY <1>7, <1>q, KeptWillBe

(* The places after a step: only five groups change.                       *)
LEMMA PlacesStep ==
  ASSUME TypeOK, PlacesOK, NEW t \in Thread, NEW h \in DOMAIN heap, NEW n \in 1 .. LargeCount,
         Frame(t, h, n), OnceThen(t, h, n), NEW Out, NEW New, MovedThen(t, h, n, Out, New)
  PROVE  PlacesOK' /\ Union(Group)' = (Union(Group) \ Out) \cup New
<1>. DEFINE C == {<<"heap", h>>, <<"thread", t>>, <<"used", 0>>, <<"global", n>>, <<"overflow", n>>}
<1>1. C \in SUBSET Keys /\ h \in Heap
  BY KeysAre DEF TypeOK
<1>2. DOMAIN heap' = DOMAIN heap /\ DOMAIN heap \subseteq Heap
  BY DEF TypeOK, Frame
<1>3. \A k \in DOMAIN heap : k # h => heap'[k] = heap[k]
  BY DEF TypeOK, Frame
<1>4. \A k \in Heap : <<"heap", k>> \notin C => InHeap(k)' = InHeap(k)
  BY <1>2, <1>3 DEF InHeap
<1>5. \A m \in 1 .. LargeCount : m # n => global'[m] = global[m] /\ overflow'[m] = overflow[m]
  BY DEF TypeOK, Frame
<1>6. \A s \in Thread : s # t => todo'[s] = todo[s] /\ got'[s] = got[s]
  BY DEF TypeOK, Frame
<1>7. \A s \in Thread : <<"thread", s>> \notin C => InThread(s)' = InThread(s)
  BY <1>6 DEF InThread
<1>8. InMemory' = InMemory
  BY <1>2 DEF InMemory
<1>9. \A m \in 1 .. LargeCount : /\ <<"global", m>> \notin C => m # n
                                 /\ <<"overflow", m>> \notin C => m # n
  OBVIOUS
<1>10. <<"used", 0>> \in C
  OBVIOUS
<1>11. /\ Group[<<"heap", h>>] = Among(Slots(heap[h])) /\ Group[<<"thread", t>>] = InThread(t)
       /\ Group[<<"used", 0>>] = InUse /\ Group[<<"global", n>>] = ToSet(global[n])
       /\ Group[<<"overflow", n>>] = ToSet(overflow[n])
  BY <1>1, GroupIs DEF InHeap
<1>12. /\ Group'[<<"heap", h>>] = Among(Slots(heap'[h]))
       /\ Group'[<<"thread", t>>] = Among(Carried(todo'[t])) \cup One(got'[t])
       /\ Group'[<<"used", 0>>] = {u.p : u \in used'}
       /\ Group'[<<"global", n>>] = ToSet(global'[n])
       /\ Group'[<<"overflow", n>>] = ToSet(overflow'[n])
  BY <1>1, <1>2, GroupWillBe DEF InHeap, InThread, InUse
<1>13. Pick(Group, C) = Before(t, h, n)
  BY <1>11 DEF Pick, Before
<1>14. Pick(Group', C) = Among(Slots(heap'[h])) \cup (Among(Carried(todo'[t])) \cup One(got'[t]))
                           \cup {u.p : u \in used'} \cup ToSet(global'[n]) \cup ToSet(overflow'[n])
  BY <1>12 DEF Pick
<1>15. \A k, l \in C : k # l => Group'[k] \cap Group'[l] = {}
  BY <1>12 DEF MovedThen, Apart
<1>16. /\ Out \subseteq Pick(Group, C) /\ New \cap Union(Group) = {}
       /\ Pick(Group', C) = (Pick(Group, C) \ Out) \cup New
       /\ Accounted(remaining', (Union(Group) \ Out) \cup New)
  BY <1>13, <1>14 DEF MovedThen
<1>. HIDE DEF C
<1>17. Disjoint(Group)' /\ Union(Group)' = (Union(Group) \ Out) \cup New
  BY <1>1, <1>4, <1>5, <1>7, <1>8, <1>9, <1>10, <1>15, <1>16, Moves DEF PlacesOK
<1>18. GroupsOnce'
  BY <1>2, <1>3, <1>5, <1>6 DEF PlacesOK, GroupsOnce, OnceThen
<1>. QED
  BY <1>16, <1>17, <1>18 DEF PlacesOK

(* The invariant after a step of thread t on heap h and the caches of n    *)
(* spans.                                                                  *)
LEMMA StepKeeps ==
  ASSUME Inv, NEW t \in Thread, NEW h \in DOMAIN heap, NEW n \in 1 .. LargeCount,
         Frame(t, h, n), TypedThen(t, h, n), CallThen(t), HeapsThen(t), OnceThen(t, h, n),
         KeptThen(t, h), NEW Out, NEW New, MovedThen(t, h, n, Out, New)
  PROVE  Inv'
  BY CallStep, HeapsStep, KeptThenIs, PlacesStep, TypedStep DEF Inv
---------------------------------------------------------------------------
(* How far a list of deferred spans is adopted: R is what is left of it, n *)
(* spans are taken; what is nowhere any more is unmapped.                  *)
Apart4(a, b, c, d) ==
  a \cap b = {} /\ a \cap c = {} /\ a \cap d = {} /\ b \cap c = {} /\ b \cap d = {} /\ c \cap d = {}

Left(acc, R) == Among(Slots(acc.ht)) \cup Among(Carried(acc.tasks)) \cup One(acc.got) \cup R

Accs == [ht : HeapType, got : CachedType \cup {None},
         rem : UNION {[D -> Nat \ {0}] : D \in SUBSET Region}, tasks : Seq(WorkTask)]

Taken(acc, ht, All, R, single, n) ==
  /\ acc.ht.owner = ht.owner /\ acc.ht.deferred = <<>> /\ (acc.got # None => single)
  /\ Once(Slots(acc.ht)) /\ Once(Carried(acc.tasks))
  /\ Apart4(Among(Slots(acc.ht)), Among(Carried(acc.tasks)), One(acc.got), R)
  /\ Left(acc, R) \subseteq Among(Slots(ht))
  /\ Accounted(acc.rem, All \ (Among(Slots(ht)) \ Left(acc, R)))
  /\ acc.ht.busy = ht.busy - n + NDefer(acc.tasks)

(* The fields of the state, and of one whose heap differs in busy.         *)
LEMMA AccIs ==
  ASSUME NEW acc \in Accs
  PROVE  /\ acc.ht \in HeapType /\ acc.got \in CachedType \cup {None} /\ RemOK(acc.rem)
         /\ acc.tasks \in Seq(WorkTask) /\ acc.tasks \in Seq(TaskType)
         /\ NDefer(acc.tasks) \in Nat
  BY DefersFinite, WorkIs DEF Accs, RemOK

(* The counts of the regions that are mapped, as a type.                   *)
LEMMA RemIs ==
  ASSUME NEW rem
  PROVE  RemOK(rem) <=> rem \in UNION {[D -> Nat \ {0}] : D \in SUBSET Region}
  BY DEF RemOK

SameBut(new, ht, b) ==
  /\ new \in HeapType /\ new.owner = ht.owner /\ new.deferred = ht.deferred /\ new.busy = b
  /\ Slots(new) = Slots(ht)

(* Another busy count in a heap.                                           *)
LEMMA SetBusy ==
  ASSUME NEW ht \in HeapType, NEW b \in Int
  PROVE  SameBut([ht EXCEPT !.busy = b], ht, b)
  BY SameSlots DEF HeapType, SameBut

(* A span that is left is at hand; taken, it is not in the rest any more.  *)
LEMMA TakenHas ==
  ASSUME NEW acc, NEW ht, NEW All, NEW R, NEW single, NEW n, Taken(acc, ht, All, R, single, n),
         NEW p \in R, Among(Slots(ht)) \subseteq All
  PROVE  /\ p \notin Among(Slots(acc.ht)) /\ p \notin Among(Carried(acc.tasks))
         /\ p \notin One(acc.got) /\ p \in All \ (Among(Slots(ht)) \ Left(acc, R))
  BY DEF Taken, Apart4, Left
---------------------------------------------------------------------------
(* The ways of taking one span.                                            *)
Room(acc, ht, All, R, single, n, u) ==
  /\ acc \in Accs /\ ht \in HeapType /\ n \in Nat /\ u \in UseType /\ u.p \in R
  /\ Taken(acc, ht, All, R, single, n) /\ Among(Slots(ht)) \subseteq All

TakenNow(acc, ht, All, R, single, n, u) ==
  acc \in Accs /\ Taken(acc, ht, All, R \ {u.p}, single, n + 1)

(* A span is taken for good.                                               *)
LEMMA CountDown ==
  ASSUME NEW x \in Int, NEW n \in Nat, NEW d \in Nat
  PROVE  (x - n + d) - 1 = x - (n + 1) + d
  OBVIOUS

(* A span is taken and owed again.                                         *)
LEMMA CountOn ==
  ASSUME NEW x \in Int, NEW n \in Nat, NEW d \in Nat
  PROVE  x - n + d = x - (n + 1) + (d + 1)
  OBVIOUS

(* A span still to take is nowhere else in what the thread has.            *)
LEMMA RoomHas ==
  ASSUME NEW acc, NEW ht, NEW All, NEW R, NEW single, NEW n, NEW u,
         Room(acc, ht, All, R, single, n, u)
  PROVE  /\ u.p \notin Among(Slots(acc.ht)) /\ u.p \notin Among(Carried(acc.tasks))
         /\ u.p \notin One(acc.got) /\ u.p \in All \ (Among(Slots(ht)) \ Left(acc, R))
  BY TakenHas DEF Room

(* A huge span of a heap that has no owner yet, or another, is deferred    *)
(* again.                                                                  *)
LEMMA TakeAgain ==
  ASSUME NEW acc, NEW ht, NEW All, NEW R, NEW single, NEW n, NEW u,
         Room(acc, ht, All, R, single, n, u),
         NEW acc2, acc2 = [acc EXCEPT !.tasks = Append(@, Task("defer", 0, <<u>>))]
  PROVE  TakenNow(acc2, ht, All, R, single, n, u)
<1>1. /\ acc \in Accs /\ ht \in HeapType /\ n \in Nat /\ u \in UseType /\ u.p \in R
      /\ Taken(acc, ht, All, R, single, n) /\ Among(Slots(ht)) \subseteq All
  BY DEF Room
<1>k. PICK k : k = Task("defer", 0, <<u>>)
  OBVIOUS
<1>2. k \in WorkTask /\ k \in TaskType /\ k.do = "defer" /\ k.ps[1] = u
  BY <1>1, <1>k DEF Task, WorkTask, Tasks, TaskType
<1>3. TaskPieces(k) = <<u.p>>
  BY <1>2, TaskIs
<1>4. acc.tasks \in Seq(TaskType) /\ acc.tasks \in Seq(WorkTask) /\ NDefer(acc.tasks) \in Nat
  BY <1>1, AccIs
<1>b. PICK b : b = acc.tasks \o <<k>>
  OBVIOUS
<1>5. acc2 = [acc EXCEPT !.tasks = b]
  <2>1. Append(acc.tasks, k) = acc.tasks \o <<k>>
    BY <1>2, <1>4
  <2>. QED
    BY <1>b, <1>k, <2>1
<1>6. b \in Seq(WorkTask)
  BY <1>b, <1>2, <1>4, JoinIs, WorkIs
<1>7. /\ acc2 \in Accs /\ acc2.ht = acc.ht /\ acc2.got = acc.got
      /\ acc2.rem = acc.rem /\ acc2.tasks = b
  BY <1>1, <1>5, <1>6 DEF Accs
<1>8. ToSet(TaskPieces(k)) = {u.p} /\ IsInjective(TaskPieces(k))
  BY <1>3, OneInOne
<1>9. /\ <<k>> \in Seq(TaskType) /\ Among(Carried(<<k>>)) = {u.p} /\ Once(Carried(<<k>>))
      /\ NDefer(<<k>>) = 1
  BY <1>2, <1>8, CallOne
<1>10. u.p \notin Among(Carried(acc.tasks)) /\ Once(Carried(acc.tasks))
  BY <1>1, RoomHas DEF Taken
<1>11. /\ Among(Carried(b)) = Among(Carried(acc.tasks)) \cup {u.p} /\ Once(Carried(b))
       /\ NDefer(b) = NDefer(acc.tasks) + 1
  BY <1>b, <1>4, <1>9, <1>10, CallJoin
<1>12. Left(acc2, R \ {u.p}) = Left(acc, R)
  BY <1>1, <1>7, <1>11 DEF Left
<1>13. acc2.ht.busy = ht.busy - (n + 1) + NDefer(acc2.tasks)
  <2>1. acc.ht.busy = ht.busy - n + NDefer(acc.tasks)
    BY <1>1 DEF Taken
  <2>2. acc2.ht.busy = ht.busy - n + NDefer(acc.tasks) /\ NDefer(acc2.tasks) = NDefer(acc.tasks) + 1
    BY <1>7, <1>11, <2>1
  <2>3. ht.busy \in Int
    BY <1>1, HeapIs
  <2>. QED
    BY <1>1, <1>4, <2>2, <2>3, CountOn
<1>14. Apart4(Among(Slots(acc2.ht)), Among(Carried(acc2.tasks)), One(acc2.got), R \ {u.p})
  <2>1. Apart4(Among(Slots(acc.ht)), Among(Carried(acc.tasks)), One(acc.got), R)
    BY <1>1 DEF Taken
  <2>2. u.p \notin Among(Slots(acc.ht)) /\ u.p \notin One(acc.got)
    BY RoomHas
  <2>. QED
    BY <1>7, <1>11, <2>1, <2>2 DEF Apart4
<1>. QED
  BY <1>1, <1>7, <1>11, <1>12, <1>13, <1>14 DEF TakenNow, Taken

(* A huge span is unmapped.                                                *)
LEMMA TakeUnmap ==
  ASSUME NEW acc, NEW ht, NEW All, NEW R, NEW single, NEW n, NEW u,
         Room(acc, ht, All, R, single, n, u),
         NEW acc2, acc2 = [acc EXCEPT !.ht.busy = @ - 1, !.rem = Unmapped(@, u.p)]
  PROVE  TakenNow(acc2, ht, All, R, single, n, u)
<1>1. /\ acc \in Accs /\ ht \in HeapType /\ n \in Nat /\ u \in UseType /\ u.p \in R
      /\ Taken(acc, ht, All, R, single, n) /\ Among(Slots(ht)) \subseteq All
  BY DEF Room
<1>2. acc.ht \in HeapType /\ RemOK(acc.rem) /\ NDefer(acc.tasks) \in Nat
  BY <1>1, AccIs
<1>3. acc.ht.busy \in Int /\ ht.busy \in Int
  BY <1>1, <1>2, HeapIs
<1>h. PICK new : new = [acc.ht EXCEPT !.busy = acc.ht.busy - 1]
  OBVIOUS
<1>r. PICK rem : rem = Unmapped(acc.rem, u.p)
  OBVIOUS
<1>4. SameBut(new, acc.ht, acc.ht.busy - 1)
  BY <1>2, <1>3, <1>h, SetBusy
<1>5. /\ new \in HeapType /\ new.owner = acc.ht.owner /\ new.deferred = acc.ht.deferred
      /\ new.busy = acc.ht.busy - 1 /\ Slots(new) = Slots(acc.ht)
  BY <1>4 DEF SameBut
<1>6. u.p \in All \ (Among(Slots(ht)) \ Left(acc, R))
  BY RoomHas
<1>7. RemOK(rem) /\ Accounted(rem, (All \ (Among(Slots(ht)) \ Left(acc, R))) \ {u.p})
  BY <1>r, <1>1, <1>2, <1>6, UnmapIs DEF Taken
<1>8. acc2 \in Accs /\ acc2.ht = new /\ acc2.got = acc.got /\ acc2.rem = rem
      /\ acc2.tasks = acc.tasks
  BY <1>h, <1>r, <1>1, <1>5, <1>7, RemIs DEF Accs
<1>9. /\ u.p \notin Among(Slots(acc.ht)) /\ u.p \notin Among(Carried(acc.tasks))
      /\ u.p \notin One(acc.got)
  BY RoomHas
<1>10. Left(acc2, R \ {u.p}) = Left(acc, R) \ {u.p}
  BY <1>1, <1>5, <1>8, <1>9 DEF Left
<1>11. Left(acc, R) \subseteq Among(Slots(ht)) /\ u.p \in Left(acc, R)
  BY <1>1 DEF Taken, Left
<1>12. Accounted(acc2.rem, All \ (Among(Slots(ht)) \ Left(acc2, R \ {u.p})))
  BY <1>1, <1>7, <1>8, <1>10, <1>11
<1>13. acc2.ht.busy = ht.busy - (n + 1) + NDefer(acc2.tasks)
  BY <1>1, <1>2, <1>3, <1>5, <1>8, CountDown DEF Taken
<1>14. Apart4(Among(Slots(acc2.ht)), Among(Carried(acc2.tasks)), One(acc2.got), R \ {u.p})
  BY <1>1, <1>5, <1>8 DEF Taken, Apart4
<1>. QED
  BY <1>1, <1>5, <1>8, <1>10, <1>11, <1>12, <1>13, <1>14 DEF TakenNow, Taken

(* The fields of what the program holds.                                   *)
LEMMA UseIs ==
  ASSUME NEW u \in UseType
  PROVE  /\ u.p \in PieceType /\ u.h \in Heap /\ u.kind \in {"small", "large", "huge"}
         /\ u.kind # "huge" => u.p \in CachedType
  BY CachedIs DEF UseType

(* The span is the answer to the allocation.                               *)
LEMMA TakeAnswer ==
  ASSUME NEW acc, NEW ht, NEW All, NEW R, NEW single, NEW n, NEW u,
         Room(acc, ht, All, R, single, n, u), u.kind # "huge", single, acc.got = None,
         NEW acc2, acc2 = [acc EXCEPT !.ht.busy = @ - 1, !.got = u.p]
  PROVE  TakenNow(acc2, ht, All, R, single, n, u)
<1>1. /\ acc \in Accs /\ ht \in HeapType /\ n \in Nat /\ u \in UseType /\ u.p \in R
      /\ Taken(acc, ht, All, R, single, n) /\ Among(Slots(ht)) \subseteq All
  BY DEF Room
<1>2. acc.ht \in HeapType /\ RemOK(acc.rem) /\ NDefer(acc.tasks) \in Nat
  BY <1>1, AccIs
<1>3. acc.ht.busy \in Int /\ ht.busy \in Int
  BY <1>1, <1>2, HeapIs
<1>h. PICK new : new = [acc.ht EXCEPT !.busy = acc.ht.busy - 1]
  OBVIOUS
<1>4. SameBut(new, acc.ht, acc.ht.busy - 1)
  BY <1>2, <1>3, <1>h, SetBusy
<1>5. /\ new \in HeapType /\ new.owner = acc.ht.owner /\ new.deferred = acc.ht.deferred
      /\ new.busy = acc.ht.busy - 1 /\ Slots(new) = Slots(acc.ht)
  BY <1>4 DEF SameBut
<1>6. u.p \in CachedType /\ u.p # None
  BY <1>1, UseIs, CachedIs
<1>8. acc2 \in Accs /\ acc2.ht = new /\ acc2.got = u.p /\ acc2.rem = acc.rem
      /\ acc2.tasks = acc.tasks
  BY <1>1, <1>5, <1>6, <1>h DEF Accs
<1>9. u.p \notin Among(Slots(acc.ht)) /\ u.p \notin Among(Carried(acc.tasks))
  BY RoomHas
<1>10. One(acc2.got) = {u.p} /\ One(acc.got) = {}
  BY <1>6, <1>8 DEF One
<1>11. Left(acc2, R \ {u.p}) = Left(acc, R)
  BY <1>1, <1>5, <1>8, <1>10 DEF Left
<1>13. acc2.ht.busy = ht.busy - (n + 1) + NDefer(acc2.tasks)
  BY <1>1, <1>2, <1>3, <1>5, <1>8, CountDown DEF Taken
<1>14. Apart4(Among(Slots(acc2.ht)), Among(Carried(acc2.tasks)), One(acc2.got), R \ {u.p})
  BY <1>1, <1>5, <1>8, <1>9, <1>10 DEF Taken, Apart4
<1>. QED
  BY <1>1, <1>5, <1>8, <1>11, <1>13, <1>14 DEF TakenNow, Taken

(* The span goes to the thread cache.                                      *)
LEMMA TakeToCache ==
  ASSUME NEW acc, NEW ht, NEW All, NEW R, NEW single, NEW n, NEW u,
         Room(acc, ht, All, R, single, n, u), u.kind # "huge",
         NEW ins, ins = CacheInsert(acc.ht, u.p),
         NEW acc2,
         acc2 = [acc EXCEPT !.ht = [ins.ht EXCEPT !.busy = @ - 1], !.tasks = @ \o ins.tasks]
  PROVE  TakenNow(acc2, ht, All, R, single, n, u)
<1>1. /\ acc \in Accs /\ ht \in HeapType /\ n \in Nat /\ u \in UseType /\ u.p \in R
      /\ Taken(acc, ht, All, R, single, n) /\ Among(Slots(ht)) \subseteq All
  BY DEF Room
<1>2. /\ acc.ht \in HeapType /\ NDefer(acc.tasks) \in Nat
      /\ acc.tasks \in Seq(WorkTask) /\ acc.tasks \in Seq(TaskType)
  BY <1>1, AccIs
<1>3. acc.ht.busy \in Int /\ ht.busy \in Int
  BY <1>1, <1>2, HeapIs
<1>4. /\ u.p \notin Among(Slots(acc.ht)) /\ u.p \notin Among(Carried(acc.tasks))
      /\ u.p \notin One(acc.got)
  BY RoomHas
<1>5. Inserted(ins, acc.ht, u.p)
  BY <1>1, <1>2, <1>4, CacheInsertIs, UseIs DEF Taken
<1>6. /\ ins.ht \in HeapType /\ ins.ht.owner = acc.ht.owner /\ ins.ht.deferred = acc.ht.deferred
      /\ ins.ht.busy = acc.ht.busy
      /\ Once(Slots(ins.ht)) /\ ins.tasks \in Seq(WorkTask) /\ Once(Carried(ins.tasks))
      /\ NDefer(ins.tasks) = 0
      /\ Among(Slots(ins.ht)) \cap Among(Carried(ins.tasks)) = {}
      /\ Among(Slots(ins.ht)) \cup Among(Carried(ins.tasks)) = Among(Slots(acc.ht)) \cup {u.p}
  BY <1>5 DEF Inserted
<1>h. PICK new : new = [ins.ht EXCEPT !.busy = ins.ht.busy - 1]
  OBVIOUS
<1>7. SameBut(new, ins.ht, ins.ht.busy - 1)
  BY <1>3, <1>6, <1>h, SetBusy
<1>8. /\ new \in HeapType /\ new.owner = acc.ht.owner /\ new.deferred = acc.ht.deferred
      /\ new.busy = acc.ht.busy - 1 /\ Slots(new) = Slots(ins.ht)
  BY <1>6, <1>7 DEF SameBut
<1>b. PICK b : b = acc.tasks \o ins.tasks
  OBVIOUS
<1>9. b \in Seq(WorkTask) /\ ins.tasks \in Seq(TaskType)
  BY <1>2, <1>6, <1>b, JoinIs, WorkIs
<1>10. acc2 \in Accs /\ acc2.ht = new /\ acc2.got = acc.got /\ acc2.rem = acc.rem /\ acc2.tasks = b
  BY <1>b, <1>h, <1>1, <1>8, <1>9 DEF Accs
<1>11. Apart4(Among(Slots(acc.ht)), Among(Carried(acc.tasks)), One(acc.got), R)
       /\ Once(Carried(acc.tasks))
  BY <1>1 DEF Taken
<1>12. Among(Carried(acc.tasks)) \cap Among(Carried(ins.tasks)) = {}
  BY <1>4, <1>6, <1>11 DEF Apart4
<1>13. /\ Among(Carried(b)) = Among(Carried(acc.tasks)) \cup Among(Carried(ins.tasks))
       /\ Once(Carried(b)) /\ NDefer(b) = NDefer(acc.tasks)
  BY <1>b, <1>2, <1>6, <1>9, <1>11, <1>12, CallJoin
<1>14. Left(acc2, R \ {u.p}) = Left(acc, R)
  <2>1. Among(Slots(new)) \cup Among(Carried(b))
          = Among(Slots(acc.ht)) \cup Among(Carried(acc.tasks)) \cup {u.p}
    BY <1>6, <1>8, <1>13
  <2>. QED
    BY <1>1, <1>10, <2>1 DEF Left
<1>15. acc2.ht.busy = ht.busy - (n + 1) + NDefer(acc2.tasks)
  <2>1. acc.ht.busy = ht.busy - n + NDefer(acc.tasks)
    BY <1>1 DEF Taken
  <2>2. /\ acc2.ht.busy = (ht.busy - n + NDefer(acc.tasks)) - 1
        /\ NDefer(acc2.tasks) = NDefer(acc.tasks)
    BY <1>8, <1>10, <1>13, <2>1
  <2>. QED
    BY SMTT(40), <1>1, <1>2, <1>3, <2>2, CountDown
<1>16. Apart4(Among(Slots(acc2.ht)), Among(Carried(acc2.tasks)), One(acc2.got), R \ {u.p})
  <2>1. /\ Among(Slots(new)) \subseteq Among(Slots(acc.ht)) \cup {u.p}
        /\ Among(Carried(b))
             \subseteq Among(Slots(acc.ht)) \cup {u.p} \cup Among(Carried(acc.tasks))
    BY <1>6, <1>8, <1>13
  <2>2. Among(Slots(new)) \cap Among(Carried(b)) = {}
    BY <1>4, <1>6, <1>8, <1>11, <1>13 DEF Apart4
  <2>. QED
    BY <1>4, <1>10, <1>11, <2>1, <2>2 DEF Apart4
<1>. QED
  BY <1>1, <1>6, <1>8, <1>10, <1>13, <1>14, <1>15, <1>16 DEF TakenNow, Taken

(* One span of the deferred list is taken.                                 *)
LEMMA TakeKeeps ==
  ASSUME NEW acc, NEW ht, NEW All, NEW R, NEW single, NEW n, NEW u, NEW t,
         Room(acc, ht, All, R, single, n, u)
  PROVE  TakenNow(TakeOne(t, single, acc, u), ht, All, R, single, n, u)
  BY TakeAgain, TakeAnswer, TakeToCache, TakeUnmap DEF TakeOne
---------------------------------------------------------------------------
(* _rpmalloc_heap_cache_adopt_deferred() of every span of a list.          *)
TakeRun(t, single, x, q) ==
  CHOOSE g : g = [n \in 0 .. Len(q) |-> IF n = 0 THEN x ELSE TakeOne(t, single, g[n - 1], q[n])]

(* What holds before the loop and is kept by each turn holds at its end.   *)
LEMMA TakeLoop ==
  ASSUME NEW t, NEW single, NEW q \in Seq(UseType), NEW x, NEW G, x \in G[0],
         \A n \in 0 .. Len(q) - 1 : \A P \in G[n] :
           TakeOne(t, single, P, q[n + 1]) \in G[n + 1]
  PROVE  TakeRun(t, single, x, q)[Len(q)] \in G[Len(q)]
<1>. DEFINE L == Len(q)
            F == [n \in 0 .. L - 1 |-> [P \in G[n] |-> TakeOne(t, single, P, q[n + 1])]]
            Runs(g) ==
              g = [n \in 0 .. L |-> IF n = 0 THEN x ELSE TakeOne(t, single, g[n - 1], q[n])]
            run == CHOOSE g : Runs(g)
<1>1. L \in Nat
  BY SeqIs
<1>2. TakeRun(t, single, x, q) = run
  BY DEF TakeRun
<1>3. \A n \in 0 .. L - 1 : \A P \in G[n] :
        F[n][P] = TakeOne(t, single, P, q[n + 1]) /\ F[n][P] \in G[n + 1]
  OBVIOUS
<1>. HIDE DEF L, F
<1>4. \E g : Runs(g)
  <2>1. PICK g : /\ g = [n \in 0 .. L |-> IF n = 0 THEN x ELSE F[n - 1][g[n - 1]]]
                 /\ \A n \in 0 .. L : g[n] \in G[n]
    <3>1. \A n \in 0 .. L - 1 : \A P \in G[n] : F[n][P] \in G[n + 1]
      BY <1>3
    <3>2. \E g : Computes(g, L, x, F) /\ \A n \in 0 .. L : g[n] \in G[n]
      BY <1>1, <3>1, LoopExists, Zenon
    <3>. QED
      BY <3>2, Zenon DEF Computes
  <2>2. \A n \in 0 .. L : g[n] = IF n = 0 THEN x ELSE TakeOne(t, single, g[n - 1], q[n])
    <3>. SUFFICES ASSUME NEW n \in 0 .. L, n # 0 PROVE g[n] = TakeOne(t, single, g[n - 1], q[n])
      BY <2>1
    <3>1. n - 1 \in 0 .. L - 1 /\ n - 1 \in 0 .. L /\ (n - 1) + 1 = n
      BY <1>1
    <3>2. g[n] = F[n - 1][g[n - 1]] /\ g[n - 1] \in G[n - 1]
      BY <2>1, <3>1
    <3>3. F[n - 1][g[n - 1]] = TakeOne(t, single, g[n - 1], q[(n - 1) + 1])
      BY <1>3, <3>1, <3>2
    <3>. QED
      BY <3>1, <3>2, <3>3
  <2>3. g = [n \in 0 .. L |-> g[n]]
    BY <2>1
  <2>4. Runs(g)
    BY <2>2, <2>3, Zenon
  <2>. QED
    BY <2>4
<1>5. Runs(run)
  BY <1>4
<1>. HIDE DEF run
<1>6. \A n \in 0 .. L : run[n] = IF n = 0 THEN x ELSE TakeOne(t, single, run[n - 1], q[n])
  BY <1>5
<1>7. \A n \in 0 .. L - 1 : run[n] \in G[n] => run[n + 1] \in G[n + 1]
  <2>. SUFFICES ASSUME NEW n \in 0 .. L - 1, run[n] \in G[n] PROVE run[n + 1] \in G[n + 1]
    OBVIOUS
  <2>1. n + 1 \in 0 .. L /\ n + 1 # 0 /\ (n + 1) - 1 = n
    BY <1>1
  <2>2. run[n + 1] = TakeOne(t, single, run[n], q[n + 1])
    BY <1>6, <2>1
  <2>. QED
    BY <1>3, <2>2
<1>8. run[0] \in G[0]
  BY <1>1, <1>6
<1>9. run[L] \in G[L]
  BY <1>1, <1>7, <1>8, LoopHolds
<1>. QED
  BY <1>2, <1>9 DEF L

(* AdoptDeferred is the end of that loop.                                  *)
LEMMA TakesAll ==
  ASSUME NEW t, NEW single
  PROVE  AdoptDeferred(t, single)
           = TakeRun(t, single, [ht |-> [heap[at[t]] EXCEPT !.deferred = <<>>],
                                 got |-> None, rem |-> remaining, tasks |-> <<>>],
                     heap[at[t]].deferred)[Len(heap[at[t]].deferred)]
  BY DEF AdoptDeferred, Each, TakeRun


PiecesLeft(us, n) == {us[i].p : i \in n + 1 .. Len(us)}

(* All spans of the deferred list are taken.                               *)
LEMMA AdoptIs ==
  ASSUME NEW t, NEW single, NEW ht \in HeapType, ht = heap[at[t]], Once(Slots(ht)),
         RemOK(remaining), NEW All, Accounted(remaining, All), Among(Slots(ht)) \subseteq All
  PROVE  /\ AdoptDeferred(t, single) \in Accs
         /\ Taken(AdoptDeferred(t, single), ht, All, {}, single, Len(ht.deferred))
<1>q. PICK q : q = ht.deferred
  OBVIOUS
<1>1. q \in Seq(UseType) /\ Len(q) \in Nat /\ DOMAIN q = 1 .. Len(q)
      /\ \A i \in 1 .. Len(q) : q[i] \in UseType
  BY <1>q, HeapIs, SeqIs
<1>n. PICK L \in Nat : L = Len(q)
  BY <1>1
<1>x. PICK x : x = [ht |-> [ht EXCEPT !.deferred = <<>>],
                    got |-> None, rem |-> remaining, tasks |-> <<>>]
  OBVIOUS
<1>. DEFINE G == [n \in 0 .. L |->
                    {acc \in Accs : Taken(acc, ht, All, PiecesLeft(q, n), single, n)}]
<1>2. /\ IsInjective(PiecesOf(q)) /\ ToSet(PiecesOf(q)) = PiecesLeft(q, 0)
      /\ PiecesLeft(q, 0) \subseteq Among(Slots(ht))
  <2>1. ToSet(PiecesOf(q)) = PiecesLeft(q, 0)
    BY <1>1 DEF ToSet, PiecesOf, PiecesLeft
  <2>. QED
    BY <1>q, <2>1, SlotHas
<1>3. \A i, j \in 1 .. L : q[i].p = q[j].p => i = j
  BY <1>1, <1>2, <1>n DEF IsInjective, PiecesOf
<1>4. x \in G[0]
  <2>h. PICK new : new = [ht EXCEPT !.deferred = <<>>]
    OBVIOUS
  <2>1. /\ new \in HeapType /\ new.owner = ht.owner /\ new.deferred = <<>> /\ new.busy = ht.busy
        /\ new.class = ht.class /\ new.reserve = ht.reserve /\ new.cache = ht.cache
    <3>1. <<>> \in Seq(UseType)
      OBVIOUS
    <3>. QED
      BY <2>h, <3>1 DEF HeapType
  <2>2. ButDeferred(ht, new) /\ PiecesOf(new.deferred) = <<>>
    BY <2>1 DEF ButDeferred, PiecesOf
  <2>3. IsInjective(PiecesOf(new.deferred)) /\ ToSet(PiecesOf(new.deferred)) = {}
    BY <2>2, NoneInEmpty
  <2>4. /\ Once(Slots(new))
        /\ Among(Slots(new)) = Among(Slots(ht)) \ PiecesLeft(q, 0)
    BY <1>2, <1>q, <2>2, <2>3, SetDeferred
  <2>5. /\ x \in Accs /\ x.ht = new /\ x.got = None /\ x.rem = remaining /\ x.tasks = <<>>
    BY <1>x, <2>1, <2>h, RemIs, WorkIs DEF Accs
  <2>6. /\ Among(Carried(x.tasks)) = {} /\ Once(Carried(x.tasks)) /\ NDefer(x.tasks) = 0
        /\ One(x.got) = {}
    BY <2>5, CallNone DEF One
  <2>7. Left(x, PiecesLeft(q, 0)) = Among(Slots(ht))
    BY <1>2, <2>4, <2>5, <2>6 DEF Left
  <2>8. x.ht.busy = ht.busy - 0 + NDefer(x.tasks)
    BY <2>1, <2>5, <2>6, HeapIs
  <2>9. Apart4(Among(Slots(x.ht)), Among(Carried(x.tasks)), One(x.got), PiecesLeft(q, 0))
    BY <2>4, <2>5, <2>6 DEF Apart4
  <2>10. Accounted(x.rem, All \ (Among(Slots(ht)) \ Left(x, PiecesLeft(q, 0))))
    BY <2>5, <2>7
  <2>11. Taken(x, ht, All, PiecesLeft(q, 0), single, 0)
    BY <2>1, <2>4, <2>5, <2>6, <2>7, <2>8, <2>9, <2>10 DEF Taken
  <2>. QED
    BY <2>5, <2>11
<1>5. ASSUME NEW n \in 0 .. Len(q) - 1, NEW P \in G[n]
      PROVE  TakeOne(t, single, P, q[n + 1]) \in G[n + 1]
  <2>1. n \in 0 .. L /\ n + 1 \in 0 .. L /\ n + 1 \in 1 .. L /\ n \in Nat
    BY <1>n
  <2>2. P \in Accs /\ Taken(P, ht, All, PiecesLeft(q, n), single, n)
    BY <2>1
  <2>u. PICK u \in UseType : u = q[n + 1]
    BY <1>1, <1>n, <2>1
  <2>3. u.p \in PiecesLeft(q, n) /\ PiecesLeft(q, n) \ {u.p} = PiecesLeft(q, n + 1)
    BY <1>n, <1>3, <2>u, <2>1 DEF PiecesLeft
  <2>4. Room(P, ht, All, PiecesLeft(q, n), single, n, u)
    BY <2>1, <2>2, <2>3 DEF Room
  <2>5. TakenNow(TakeOne(t, single, P, u), ht, All, PiecesLeft(q, n), single, n, u)
    BY <2>4, TakeKeeps
  <2>6. TakeOne(t, single, P, u) \in Accs
        /\ Taken(TakeOne(t, single, P, u), ht, All, PiecesLeft(q, n + 1), single, n + 1)
    BY <2>3, <2>5 DEF TakenNow
  <2>. QED
    BY <2>1, <2>6, <2>u
<1>. HIDE DEF G
<1>6. AdoptDeferred(t, single) \in G[Len(q)]
  BY <1>q, <1>x, <1>1, <1>4, <1>5, TakeLoop, TakesAll
<1>7. PiecesLeft(q, L) = {}
  BY <1>n DEF PiecesLeft
<1>. QED
  BY <1>6, <1>7, <1>n, <1>q DEF G
---------------------------------------------------------------------------
(* What the invariant says of a heap, of a call and of the places.         *)
LEMMA HeapHas ==
  ASSUME Inv, NEW h \in DOMAIN heap
  PROVE  /\ h \in Heap /\ heap[h] \in HeapType /\ Once(Slots(heap[h]))
         /\ Among(Slots(heap[h])) \subseteq Union(Group)
  BY GroupIs, KeysAre DEF Inv, TypeOK, PlacesOK, GroupsOnce, InHeap, Union

(* What the invariant says of the regions and the program's pieces.        *)
LEMMA MemoryHas ==
  ASSUME Inv
  PROVE  /\ RemOK(remaining) /\ Accounted(remaining, Union(Group)) /\ Disjoint(Group)
         /\ DOMAIN heap \subseteq Heap /\ heap \in [DOMAIN heap -> HeapType]
         /\ used \in SUBSET UseType /\ IsFiniteSet(used)
         /\ \A u, v \in used : u.p = v.p => u = v
  BY DEF Inv, TypeOK, PlacesOK, GroupsOnce, RemOK

(* What the invariant says of a call.                                      *)
LEMMA CallHas ==
  ASSUME Inv, NEW t \in Thread
  PROVE  /\ todo[t] \in Seq(TaskType) /\ got[t] \in CachedType \cup {None}
         /\ at[t] \in Heap \cup {None} /\ mine[t] \in Heap \cup {None}
         /\ Once(Carried(todo[t])) /\ (got[t] # None => got[t] \notin Among(Carried(todo[t])))
         /\ InThread(t) = Among(Carried(todo[t])) \cup One(got[t])
         /\ Shape(todo[t], got[t])
         /\ todo[t] # <<>> => at[t] \in DOMAIN heap /\ finalized = "no"
  BY CallShape DEF Inv, TypeOK, PlacesOK, GroupsOnce, InThread

(* What the invariant says of the global caches.                           *)
LEMMA CacheHas ==
  ASSUME Inv, NEW n \in 1 .. LargeCount
  PROVE  /\ global[n] \in Seq(CachedType) /\ overflow[n] \in Seq(CachedType)
         /\ IsInjective(global[n]) /\ IsInjective(overflow[n])
  BY DEF Inv, TypeOK, PlacesOK, GroupsOnce

(* The five groups a step can touch have nothing in common.                *)
LEMMA GroupsApart ==
  ASSUME Inv, NEW t \in Thread, NEW h \in DOMAIN heap, NEW n \in 1 .. LargeCount
  PROVE  /\ Apart(Among(Slots(heap[h])), InThread(t), InUse, ToSet(global[n]), ToSet(overflow[n]))
         /\ Before(t, h, n) \subseteq Union(Group)
<1>1. h \in Heap
  BY HeapHas
<1>2. /\ Group[<<"heap", h>>] = Among(Slots(heap[h])) /\ Group[<<"thread", t>>] = InThread(t)
      /\ Group[<<"used", 0>>] = InUse /\ Group[<<"global", n>>] = ToSet(global[n])
      /\ Group[<<"overflow", n>>] = ToSet(overflow[n]) /\ DOMAIN Group = Keys
  BY <1>1, GroupIs DEF InHeap
<1>3. /\ <<"heap", h>> \in Keys /\ <<"thread", t>> \in Keys /\ <<"used", 0>> \in Keys
      /\ <<"global", n>> \in Keys /\ <<"overflow", n>> \in Keys
  BY <1>1, KeysAre
<1>p. PICK Q : Q = Group
  OBVIOUS
<1>4. \A k, l \in Keys : k # l => Q[k] \cap Q[l] = {}
  BY <1>2, <1>p, MemoryHas DEF Disjoint
<1>5. Apart(Q[<<"heap", h>>], Q[<<"thread", t>>], Q[<<"used", 0>>],
            Q[<<"global", n>>], Q[<<"overflow", n>>])
  BY <1>3, <1>4 DEF Apart
<1>6. Apart(Among(Slots(heap[h])), InThread(t), InUse, ToSet(global[n]), ToSet(overflow[n]))
  BY <1>2, <1>5, <1>p
<1>7. /\ Q[<<"heap", h>>] \subseteq Union(Q) /\ Q[<<"thread", t>>] \subseteq Union(Q)
      /\ Q[<<"used", 0>>] \subseteq Union(Q) /\ Q[<<"global", n>>] \subseteq Union(Q)
      /\ Q[<<"overflow", n>>] \subseteq Union(Q)
  BY <1>2, <1>3, <1>p DEF Union
<1>8. Before(t, h, n) \subseteq Union(Group)
  BY <1>2, <1>7, <1>p DEF Before
<1>. QED
  BY <1>6, <1>8
---------------------------------------------------------------------------
(* A step, by the values it gives to what thread t, heap h and the global  *)
(* cache of n spans have.                                                  *)
Turn(t, h, n, ht, q, g, a, m) ==
  /\ heap' = [heap EXCEPT ![h] = ht] /\ todo' = [todo EXCEPT ![t] = q]
  /\ got' = [got EXCEPT ![t] = g] /\ at' = [at EXCEPT ![t] = a]
  /\ mine' = [mine EXCEPT ![t] = m] /\ finalized' = finalized

Caches(n, gl, ov) ==
  global' = [global EXCEPT ![n] = gl] /\ overflow' = [overflow EXCEPT ![n] = ov]

(* The values after a step.                                                *)
LEMMA Turned ==
  ASSUME Inv, NEW t \in Thread, NEW h \in DOMAIN heap, NEW n \in 1 .. LargeCount,
         NEW ht, NEW q, NEW g, NEW a, NEW m, NEW gl, NEW ov,
         Turn(t, h, n, ht, q, g, a, m), Caches(n, gl, ov)
  PROVE  /\ Frame(t, h, n)
         /\ heap'[h] = ht /\ todo'[t] = q /\ got'[t] = g /\ at'[t] = a /\ mine'[t] = m
         /\ global'[n] = gl /\ overflow'[n] = ov
  BY DEF Turn, Inv, TypeOK, Caches, Frame

(* What the step must see to.                                              *)
CallGood(q, g, a) ==
  /\ q \in Seq(TaskType) /\ g \in CachedType \cup {None} /\ a \in Heap \cup {None}
  /\ Shape(q, g) /\ Once(Carried(q)) /\ (g # None => g \notin Among(Carried(q)))
  /\ Len(q) > 0 => a \in DOMAIN heap /\ finalized = "no"

HeapGood(ht) == ht \in HeapType /\ Once(Slots(ht))

UseGood(us) ==
  /\ us \in SUBSET UseType /\ IsFiniteSet(us) /\ (\A u, v \in us : u.p = v.p => u = v)
  /\ \A u \in us : u.h \in DOMAIN heap

MineGood(m, orph) ==
  /\ m \in Heap \cup {None} /\ orph \in Seq(Heap)
  /\ finalized = "no" => ToSet(orph) \subseteq DOMAIN heap /\ (m # None => m \in DOMAIN heap)

QueueGood(gl) == gl \in Seq(CachedType) /\ IsInjective(gl)

PlacesGood(t, h, n, ht, q, g, us, gl, ov, rem, Out, New) ==
  /\ Apart(Among(Slots(ht)), Among(Carried(q)) \cup One(g), {u.p : u \in us}, ToSet(gl), ToSet(ov))
  /\ Among(Slots(ht)) \cup (Among(Carried(q)) \cup One(g))
        \cup {u.p : u \in us} \cup ToSet(gl) \cup ToSet(ov) = (Before(t, h, n) \ Out) \cup New
  /\ Out \subseteq Before(t, h, n) /\ New \cap Union(Group) = {}
  /\ RemOK(rem) /\ Accounted(rem, (Union(Group) \ Out) \cup New)

CountGood(t, h, ht, q, a, us) ==
  /\ \A k \in DOMAIN heap : k # h => UsedOf(us, k) = UsedOf(used, k)
  /\ a = h \/ NDefer(q) = 0
  /\ at[t] = h \/ NDefer(todo[t]) = 0
  /\ Balance(heap[h], Cardinality(UsedOf(used, h)), NDefer(todo[t]),
             ht, Cardinality(UsedOf(us, h)), NDefer(q))

(* The invariant after a step, from what is good about its values.         *)
LEMMA TurnKeeps ==
  ASSUME Inv, NEW t \in Thread, NEW h \in DOMAIN heap, NEW n \in 1 .. LargeCount,
         NEW ht, NEW q, NEW g, NEW a, NEW m, NEW gl, NEW ov,
         Turn(t, h, n, ht, q, g, a, m), Caches(n, gl, ov),
         HeapGood(ht), CallGood(q, g, a), UseGood(used'), MineGood(m, orphans'),
         QueueGood(gl), QueueGood(ov), NEW Out, NEW New,
         PlacesGood(t, h, n, ht, q, g, used', gl, ov, remaining', Out, New),
         CountGood(t, h, ht, q, a, used')
  PROVE  Inv'
<1>1. /\ Frame(t, h, n)
      /\ heap'[h] = ht /\ todo'[t] = q /\ got'[t] = g /\ at'[t] = a /\ mine'[t] = m
      /\ global'[n] = gl /\ overflow'[n] = ov
  BY Turned
<1>2. TypedThen(t, h, n)
  BY <1>1 DEF TypedThen, HeapGood, CallGood, UseGood, MineGood, QueueGood, PlacesGood
<1>3. CallThen(t)
  BY <1>1 DEF CallThen, CallGood
<1>4. HeapsThen(t)
  BY <1>1 DEF HeapsThen, UseGood, MineGood
<1>5. OnceThen(t, h, n)
  BY <1>1 DEF OnceThen, HeapGood, CallGood, UseGood, QueueGood
<1>6. KeptThen(t, h)
  BY <1>1 DEF KeptThen, CountGood
<1>7. MovedThen(t, h, n, Out, New)
  BY <1>1 DEF MovedThen, PlacesGood
<1>. QED
  BY <1>1, <1>2, <1>3, <1>4, <1>5, <1>6, <1>7, StepKeeps
---------------------------------------------------------------------------
(* What is left as it is stays good.                                       *)
LEMMA UseStays ==
  ASSUME Inv, used' = used
  PROVE  UseGood(used')
  BY DEF Inv, TypeOK, HeapsOK, PlacesOK, GroupsOnce, UseGood

(* The heap a thread owns is still there.                                  *)
LEMMA MineStays ==
  ASSUME Inv, orphans' = orphans, NEW t \in Thread
  PROVE  MineGood(mine[t], orphans')
  BY DEF Inv, TypeOK, HeapsOK, MineGood

(* The global caches are as they were.                                     *)
LEMMA CachesStay ==
  ASSUME Inv, global' = global, overflow' = overflow, NEW n \in 1 .. LargeCount
  PROVE  Caches(n, global[n], overflow[n]) /\ QueueGood(global[n]) /\ QueueGood(overflow[n])
  BY DEF Inv, TypeOK, PlacesOK, GroupsOnce, Caches, QueueGood

(* A step of a thread's call on its own heap, the caches and what is in    *)
(* use left alone.                                                         *)
LocalTurn(t, ht, q, g) ==
  /\ heap' = [heap EXCEPT ![at[t]] = ht] /\ todo' = [todo EXCEPT ![t] = q]
  /\ got' = [got EXCEPT ![t] = g]
  /\ UNCHANGED <<global, overflow, used, at, finalized>>

LocalPlaces(t, ht, q, g, rem, Out, New) ==
  /\ Among(Slots(ht)) \cap (Among(Carried(q)) \cup One(g)) = {}
  /\ Among(Slots(ht)) \cup (Among(Carried(q)) \cup One(g))
       = ((Among(Slots(heap[at[t]])) \cup InThread(t)) \ Out) \cup New
  /\ Out \subseteq Among(Slots(heap[at[t]])) \cup InThread(t) /\ New \cap Union(Group) = {}
  /\ RemOK(rem) /\ Accounted(rem, (Union(Group) \ Out) \cup New)

Level(ht, d, ht2, d2) == ht2.busy + Len(ht.deferred) + d = ht.busy + Len(ht2.deferred) + d2

(* A step of a heap alone changes both sides of its count by the same.     *)
LEMMA LevelIs ==
  ASSUME NEW ht \in HeapType, NEW ht2 \in HeapType, NEW c \in Nat, NEW d \in Nat, NEW d2 \in Nat,
         Level(ht, d, ht2, d2)
  PROVE  Balance(ht, c, d, ht2, c, d2)
<1>1. /\ ht.busy \in Int /\ Len(ht.deferred) \in Nat
      /\ ht2.busy \in Int /\ Len(ht2.deferred) \in Nat
  BY HeapIs, SeqIs
<1>2. PICK x \in Int : x = ht.busy
  BY <1>1
<1>3. PICK x2 \in Int : x2 = ht2.busy
  BY <1>1
<1>4. PICK m \in Nat : m = Len(ht.deferred)
  BY <1>1
<1>5. PICK m2 \in Nat : m2 = Len(ht2.deferred)
  BY <1>1
<1>6. x2 + m + d = x + m2 + d2
  BY <1>2, <1>3, <1>4, <1>5 DEF Level
<1>7. x2 + c + m + d = x + c + m2 + d2
  BY <1>6
<1>. QED
  BY <1>2, <1>3, <1>4, <1>5, <1>7 DEF Balance

(* The invariant after a step of t on its heap that leaves the global      *)
(* caches alone.                                                           *)
LEMMA LocalKeeps ==
  ASSUME Inv, NEW t \in Thread, todo[t] # <<>>, NEW ht, NEW q, NEW g, NEW m,
         LocalTurn(t, ht, q, g), mine' = [mine EXCEPT ![t] = m], HeapGood(ht),
         q \in Seq(TaskType), g \in CachedType \cup {None},
         Shape(q, g), Once(Carried(q)), g # None => g \notin Among(Carried(q)),
         MineGood(m, orphans'), NEW Out, NEW New, LocalPlaces(t, ht, q, g, remaining', Out, New),
         Level(heap[at[t]], NDefer(todo[t]), ht, NDefer(q))
  PROVE  Inv'
<1>h. PICK h \in DOMAIN heap : h = at[t]
  BY CallHas
<1>n. PICK n \in 1 .. LargeCount : n = 1
  BY CountIs
<1>1. Turn(t, h, n, ht, q, g, at[t], m)
  BY <1>h DEF LocalTurn, Inv, TypeOK, Turn
<1>2. Caches(n, global[n], overflow[n]) /\ QueueGood(global[n]) /\ QueueGood(overflow[n])
  BY CachesStay DEF LocalTurn
<1>3. CallGood(q, g, at[t])
  BY CallHas DEF CallGood
<1>4. UseGood(used') /\ used' = used
  BY UseStays DEF LocalTurn
<1>5. PlacesGood(t, h, n, ht, q, g, used', global[n], overflow[n], remaining', Out, New)
  BY <1>h, <1>4, GroupsApart DEF Before, LocalPlaces, Apart, InUse, PlacesGood
<1>6. CountGood(t, h, ht, q, at[t], used')
  BY <1>h, <1>4, CallHas, DefersFinite, FS_CardinalityType, FS_Subset, HeapHas, LevelIs, MemoryHas
     DEF HeapGood, UsedOf, CountGood
<1>. QED
  BY <1>1, <1>2, <1>3, <1>4, <1>5, <1>6, TurnKeeps
---------------------------------------------------------------------------
(* The task at hand and what is left of the call without it.               *)
Rest(t) == Tail(todo[t])

(* The task at hand and the others have nothing in common.                 *)
LEMMA TaskNow ==
  ASSUME Inv, NEW t \in Thread, todo[t] # <<>>
  PROVE  /\ Now(t) \in TaskType /\ Rest(t) \in Seq(TaskType)
         /\ Once(Carried(Rest(t))) /\ IsInjective(TaskPieces(Now(t)))
         /\ ToSet(TaskPieces(Now(t))) \cap Among(Carried(Rest(t))) = {}
         /\ Among(Carried(todo[t])) = ToSet(TaskPieces(Now(t))) \cup Among(Carried(Rest(t)))
         /\ NDefer(todo[t]) = NDefer(Rest(t)) + (IF Now(t).do = "defer" THEN 1 ELSE 0)
         /\ NDefer(todo[t]) \in Nat /\ NDefer(Rest(t)) \in Nat
  BY CallHas, CallTail, DefersFinite DEF Now, Rest

(* A task that owes nothing, or carries nothing, can go.                   *)
LEMMA QuietNow ==
  ASSUME Inv, NEW t \in Thread, todo[t] # <<>>
  PROVE  /\ Now(t).do # "defer" => NDefer(todo[t]) = NDefer(Rest(t))
         /\ TaskPieces(Now(t)) = <<>> => Among(Carried(todo[t])) = Among(Carried(Rest(t)))
<1>1. Now(t).do # "defer" => NDefer(todo[t]) = NDefer(Rest(t)) + 0
  BY TaskNow
<1>2. Now(t).do # "defer" => NDefer(todo[t]) = NDefer(Rest(t))
  BY <1>1, TaskNow
<1>3. ASSUME TaskPieces(Now(t)) = <<>>
      PROVE  Among(Carried(todo[t])) = Among(Carried(Rest(t)))
  BY <1>3, NoneInEmpty, TaskNow
<1>. QED
  BY <1>2, <1>3

(* Work is put in the place of the task at hand.                           *)
ThenDoes(q, w, b, g) ==
  /\ q \in Seq(TaskType) /\ Shape(q, g) /\ Once(Carried(q))
  /\ Among(Carried(q)) = Among(Carried(w)) \cup Among(Carried(b))
  /\ NDefer(q) = NDefer(w) + NDefer(b)

(* A task is done: the call goes on with w and what was left.              *)
LEMMA ThenIs ==
  ASSUME Inv, NEW t \in Thread, todo[t] # <<>>, NEW w \in Seq(WorkTask), Once(Carried(w)),
         Among(Carried(w)) \cap Among(Carried(Rest(t))) = {}, NEW g,
         \/ g = None
         \/ g = got[t] /\ Now(t) \notin LastTask
         \/ Now(t).do = "adopt" /\ Now(t).n = 1
  PROVE  ThenDoes(w \o Rest(t), w, Rest(t), g)
<1>q. PICK q : q = todo[t]
  OBVIOUS
<1>1. q \in Seq(TaskType) /\ q # <<>> /\ Shape(q, got[t])
  BY <1>q, CallHas
<1>2. /\ \A i \in 1 .. Len(Tail(q)) - 1 : Tail(q)[i] \in WorkTask
      /\ \A i \in 1 .. Len(Tail(q)) : Tail(q)[i].do # "adopt"
      /\ got[t] # None /\ Head(q) \notin LastTask =>
           Len(Tail(q)) > 0 /\ Tail(q)[Len(Tail(q))].do = "extract"
      /\ Head(q).do = "adopt" =>
           got[t] = None /\ Len(Tail(q)) = 1
             /\ (Head(q).n = 1 => Tail(q)[Len(Tail(q))].do = "extract")
  BY <1>1, ShapeTail
<1>b. PICK b : b = Rest(t)
  OBVIOUS
<1>3. b \in Seq(TaskType) /\ Once(Carried(b)) /\ b = Tail(q) /\ Head(q) = Now(t)
  BY <1>b, <1>q, TaskNow DEF Rest, Now
<1>4. g # None => Len(b) > 0 /\ b[Len(b)].do = "extract"
  <2>. SUFFICES ASSUME g # None PROVE Len(b) > 0 /\ b[Len(b)].do = "extract"
    OBVIOUS
  <2>1. CASE g = got[t] /\ Now(t) \notin LastTask
    BY <1>2, <1>3, <2>1
  <2>2. CASE Now(t).do = "adopt" /\ Now(t).n = 1
    <3>1. Head(q).do = "adopt" /\ Head(q).n = 1
      BY <1>3, <2>2
    <3>2. Len(Tail(q)) = 1 /\ Tail(q)[Len(Tail(q))].do = "extract"
      BY <1>2, <3>1
    <3>. QED
      BY <1>3, <3>2
  <2>. QED
    BY <2>1, <2>2
<1>5. w \o b \in Seq(TaskType) /\ Shape(w \o b, g)
  BY <1>2, <1>3, <1>4, ShapeThen
<1>6. /\ Among(Carried(w \o b)) = Among(Carried(w)) \cup Among(Carried(b))
      /\ Once(Carried(w \o b)) /\ NDefer(w \o b) = NDefer(w) + NDefer(b)
  BY <1>b, <1>3, CallJoin, WorkIs
<1>. QED
  BY <1>5, <1>6, <1>b DEF ThenDoes
---------------------------------------------------------------------------
(* _rpmalloc_heap_cache_adopt_deferred()                                   *)
LEMMA AdoptKeeps ==
  ASSUME Inv, NEW t \in Thread, Adopt(t)
  PROVE  Inv'
<1>1. todo[t] # <<>> /\ Now(t).do = "adopt"
  BY DEF Adopt, Doing, Now
<1>h. PICK h \in DOMAIN heap : h = at[t]
  BY <1>1, CallHas
<1>o. PICK ht : ht = heap[h]
  OBVIOUS
<1>2. /\ ht \in HeapType /\ Once(Slots(ht)) /\ Among(Slots(ht)) \subseteq Union(Group)
      /\ ht.busy \in Int /\ Len(ht.deferred) \in Nat
  BY <1>o, HeapHas, HeapIs, SeqIs
<1>s. PICK single : single = (Now(t).n = 1)
  OBVIOUS
<1>k. PICK took : took = AdoptDeferred(t, single)
  OBVIOUS
<1>3. took \in Accs /\ Taken(took, ht, Union(Group), {}, single, Len(ht.deferred))
  BY <1>2, <1>h, <1>k, <1>o, AdoptIs, MemoryHas
<1>4. /\ took.ht \in HeapType /\ took.got \in CachedType \cup {None} /\ RemOK(took.rem)
      /\ took.tasks \in Seq(WorkTask) /\ NDefer(took.tasks) \in Nat
  BY <1>3, AccIs
<1>5. /\ took.ht.deferred = <<>> /\ (took.got # None => single)
      /\ Once(Slots(took.ht)) /\ Once(Carried(took.tasks))
      /\ Apart4(Among(Slots(took.ht)), Among(Carried(took.tasks)), One(took.got), {})
      /\ Left(took, {}) \subseteq Among(Slots(ht))
      /\ Accounted(took.rem, Union(Group) \ (Among(Slots(ht)) \ Left(took, {})))
      /\ took.ht.busy = ht.busy - Len(ht.deferred) + NDefer(took.tasks)
  BY <1>3 DEF Taken
<1>q. PICK q : q = took.tasks \o Rest(t)
  OBVIOUS
<1>6. TaskPieces(Now(t)) = <<>>
  BY <1>1, TaskNow, TaskIs
<1>7. /\ Among(Carried(todo[t])) = Among(Carried(Rest(t))) /\ NDefer(todo[t]) = NDefer(Rest(t))
      /\ NDefer(todo[t]) \in Nat
  BY <1>1, <1>6, TaskNow, QuietNow
<1>8. got[t] = None
  BY <1>1, CallHas, ShapeTail DEF Now
<1>9. Among(Slots(ht)) \cap InThread(t) = {} /\ InThread(t) = Among(Carried(Rest(t)))
  BY <1>o, <1>7, <1>8, CallHas, CountIs, GroupsApart DEF Apart, One
<1>10. Among(Carried(took.tasks)) \cap Among(Carried(Rest(t))) = {}
  BY <1>5, <1>9 DEF Left
<1>11. ThenDoes(q, took.tasks, Rest(t), took.got)
  BY <1>q, <1>s, <1>1, <1>4, <1>5, <1>10, ThenIs
<1>12. /\ q \in Seq(TaskType) /\ Shape(q, took.got) /\ Once(Carried(q))
       /\ Among(Carried(q)) = Among(Carried(took.tasks)) \cup Among(Carried(Rest(t)))
       /\ NDefer(q) = NDefer(took.tasks) + NDefer(Rest(t))
  BY <1>11 DEF ThenDoes
<1>13. LocalTurn(t, took.ht, q, took.got) /\ remaining' = took.rem /\ mine' = mine
       /\ orphans' = orphans
  BY <1>k, <1>q, <1>s DEF Adopt, Then, Rest, LocalTurn
<1>14. mine' = [mine EXCEPT ![t] = mine[t]] /\ MineGood(mine[t], orphans')
  BY <1>13, MineStays DEF Inv, TypeOK
<1>15. took.got # None => took.got \notin Among(Carried(q))
  <2>. SUFFICES ASSUME took.got # None PROVE took.got \notin Among(Carried(q))
    OBVIOUS
  <2>1. One(took.got) = {took.got}
    BY DEF One
  <2>2. took.got \in Among(Slots(ht)) /\ took.got \notin Among(Carried(took.tasks))
    BY <1>5, <2>1 DEF Left, Apart4
  <2>. QED
    BY <1>9, <1>12, <2>2
<1>u. PICK Out : Out = Among(Slots(ht)) \ Left(took, {})
  OBVIOUS
<1>16. LocalPlaces(t, took.ht, q, took.got, remaining', Out, {})
  BY <1>h, <1>o, <1>u, <1>4, <1>5, <1>9, <1>12, <1>13 DEF Apart4, Left, LocalPlaces
<1>17. Level(ht, NDefer(todo[t]), took.ht, NDefer(q))
  BY <1>2, <1>4, <1>5, <1>7, <1>12 DEF Level
<1>18. HeapGood(took.ht)
  BY <1>4, <1>5 DEF HeapGood
<1>. QED
  BY <1>1, <1>4, <1>12, <1>13, <1>14, <1>15, <1>16, <1>17, <1>18, <1>h, <1>o, LocalKeeps
---------------------------------------------------------------------------
(* A step of a thread's call on the global caches of n spans.              *)
QueueTurn(t, n, q, gl, ov) ==
  /\ todo' = [todo EXCEPT ![t] = q]
  /\ Caches(n, gl, ov)
  /\ UNCHANGED <<heap, orphans, used, mine, at, got, finalized>>

QueuePlaces(t, n, q, gl, ov, rem, Out) ==
  /\ Among(Carried(q)) \cap ToSet(gl) = {} /\ Among(Carried(q)) \cap ToSet(ov) = {}
  /\ ToSet(gl) \cap ToSet(ov) = {}
  /\ Among(Carried(q)) \cup ToSet(gl) \cup ToSet(ov)
       = (Among(Carried(todo[t])) \cup ToSet(global[n]) \cup ToSet(overflow[n])) \ Out
  /\ Out \subseteq Among(Carried(todo[t])) \cup ToSet(global[n]) \cup ToSet(overflow[n])
  /\ RemOK(rem) /\ Accounted(rem, Union(Group) \ Out)

(* The invariant after a step that moves pieces between a call and the     *)
(* global caches.                                                          *)
LEMMA QueueKeeps ==
  ASSUME Inv, NEW t \in Thread, todo[t] # <<>>, NEW n \in 1 .. LargeCount,
         NEW q, NEW gl, NEW ov, QueueTurn(t, n, q, gl, ov),
         q \in Seq(TaskType), Shape(q, got[t]), Once(Carried(q)), NDefer(q) = NDefer(todo[t]),
         QueueGood(gl), QueueGood(ov), NEW Out, QueuePlaces(t, n, q, gl, ov, remaining', Out)
  PROVE  Inv'
<1>h. PICK h \in DOMAIN heap : h = at[t]
  BY CallHas
<1>1. Turn(t, h, n, heap[h], q, got[t], at[t], mine[t])
  BY DEF QueueTurn, Turn, Inv, TypeOK
<1>2. Caches(n, gl, ov)
  BY DEF QueueTurn
<1>3. HeapGood(heap[h])
  BY HeapHas DEF HeapGood
<1>4. UseGood(used') /\ used' = used
  BY UseStays DEF QueueTurn
<1>5. MineGood(mine[t], orphans')
  BY MineStays DEF QueueTurn
<1>p. PICK A, B, g, S, U, X, Y, X2, Y2 :
        /\ A = Among(Slots(heap[h])) /\ B = Among(Carried(todo[t])) /\ g = One(got[t])
        /\ S = Among(Carried(q)) /\ U = InUse /\ X = ToSet(global[n]) /\ Y = ToSet(overflow[n])
        /\ X2 = ToSet(gl) /\ Y2 = ToSet(ov)
  OBVIOUS
<1>6. /\ Apart(A, B \cup g, U, X, Y) /\ Before(t, h, n) = A \cup (B \cup g) \cup U \cup X \cup Y
      /\ B \cap g = {}
  <2>1. InThread(t) = B \cup g /\ B \cap g = {}
    BY <1>p, CallHas DEF One
  <2>2. Apart(Among(Slots(heap[h])), InThread(t), InUse, ToSet(global[n]), ToSet(overflow[n]))
    BY GroupsApart
  <2>. QED
    BY <1>p, <2>1, <2>2 DEF Before
<1>7. /\ S \cap X2 = {} /\ S \cap Y2 = {} /\ X2 \cap Y2 = {}
      /\ S \cup X2 \cup Y2 = (B \cup X \cup Y) \ Out /\ Out \subseteq B \cup X \cup Y
  BY <1>p DEF QueuePlaces
<1>8. S \cap g = {}
  BY <1>6, <1>7 DEF Apart
<1>9. Apart(A, S \cup g, U, X2, Y2)
  BY <1>6, <1>7, <1>8 DEF Apart
<1>10. /\ A \cup (S \cup g) \cup U \cup X2 \cup Y2
            = ((A \cup (B \cup g) \cup U \cup X \cup Y) \ Out) \cup {}
       /\ Out \subseteq A \cup (B \cup g) \cup U \cup X \cup Y
  BY <1>6, <1>7 DEF Apart
<1>11. RemOK(remaining') /\ Accounted(remaining', (Union(Group) \ Out) \cup {})
  BY DEF QueuePlaces
<1>12. PlacesGood(t, h, n, heap[h], q, got[t], used', gl, ov, remaining', Out, {})
  BY <1>p, <1>4, <1>6, <1>9, <1>10, <1>11 DEF InUse, PlacesGood
<1>13. CallGood(q, got[t], at[t])
  BY <1>p, <1>8, CallHas DEF One, CallGood
<1>14. CountGood(t, h, heap[h], q, at[t], used')
  BY <1>h, <1>4 DEF Balance, CountGood
<1>. QED
  BY <1>1, <1>2, <1>3, <1>4, <1>5, <1>12, <1>13, <1>14, TurnKeeps
---------------------------------------------------------------------------
(* A span is put in front of a list of deferred ones.                      *)
Pushed(new, ht, u) ==
  /\ HeapGood(new) /\ Among(Slots(new)) = Among(Slots(ht)) \cup {u.p}
  /\ new.busy = ht.busy /\ Len(new.deferred) = Len(ht.deferred) + 1

(* A span in front of the deferred list.                                   *)
LEMMA PushIs ==
  ASSUME NEW ht \in HeapType, Once(Slots(ht)), NEW u \in UseType, u.p \notin Among(Slots(ht))
  PROVE  Pushed([ht EXCEPT !.deferred = <<u>> \o @], ht, u)
<1>d. PICK d : d = ht.deferred
  OBVIOUS
<1>e. PICK e : e = <<u>> \o d
  OBVIOUS
<1>n. PICK new : new = [ht EXCEPT !.deferred = e]
  OBVIOUS
<1>1. d \in Seq(UseType) /\ Len(d) \in Nat /\ DOMAIN d = 1 .. Len(d)
  BY <1>d, HeapIs, SeqIs
<1>2. e \in Seq(UseType) /\ Len(e) = Len(d) + 1 /\ DOMAIN e = 1 .. Len(e)
      /\ e[1] = u /\ \A i \in 1 .. Len(d) : e[i + 1] = d[i]
  BY <1>e, <1>1, ConsIs, SeqIs
<1>3. /\ new \in HeapType /\ new.deferred = e /\ new.busy = ht.busy
      /\ new.class = ht.class /\ new.reserve = ht.reserve /\ new.cache = ht.cache
  BY <1>2, <1>n DEF HeapType
<1>4. PiecesOf(e) = <<u.p>> \o PiecesOf(d)
  <2>1. PiecesOf(e) = [i \in 1 .. Len(d) + 1 |-> IF i = 1 THEN u.p ELSE d[i - 1].p]
    <3>1. \A i \in 1 .. Len(d) + 1 : i # 1 => i - 1 \in 1 .. Len(d) /\ (i - 1) + 1 = i
      BY <1>1
    <3>2. \A i \in 1 .. Len(d) + 1 : i # 1 => e[i] = d[i - 1]
      BY <1>2, <3>1
    <3>3. \A i \in 1 .. Len(d) + 1 : e[i].p = IF i = 1 THEN u.p ELSE d[i - 1].p
      BY <1>2, <3>2
    <3>. QED
      BY <1>2, <3>3 DEF PiecesOf
  <2>p. PICK ps : ps = PiecesOf(d)
    OBVIOUS
  <2>2. ps \in Seq(PieceType) /\ Len(ps) = Len(d) /\ \A i \in 1 .. Len(d) : ps[i] = d[i].p
    <3>1. \A i \in 1 .. Len(d) : d[i].p \in PieceType
      BY <1>1, SeqIs, UseIs
    <3>2. ps = [i \in 1 .. Len(d) |-> d[i].p]
      BY <1>1, <2>p DEF PiecesOf
    <3>. QED
      BY <1>1, <3>1, <3>2
  <2>3. <<u.p>> \o ps = [i \in 1 .. Len(d) + 1 |-> IF i = 1 THEN u.p ELSE d[i - 1].p]
    <3>1. <<u.p>> \in Seq(PieceType)
      BY UseIs
    <3>2. <<u.p>> \o ps = [i \in 1 .. 1 + Len(d) |-> IF i <= 1 THEN <<u.p>>[i] ELSE ps[i - 1]]
      BY <1>1, <2>2, <3>1
    <3>3. \A i \in 1 .. Len(d) + 1 : i # 1 => i - 1 \in 1 .. Len(d) /\ ~(i <= 1)
      BY <1>1
    <3>4. \A i \in 1 .. Len(d) + 1 :
            (IF i <= 1 THEN <<u.p>>[i] ELSE ps[i - 1]) = IF i = 1 THEN u.p ELSE d[i - 1].p
      BY <2>2, <3>3
    <3>5. 1 .. 1 + Len(d) = 1 .. Len(d) + 1
      BY <1>1
    <3>. QED
      BY <3>2, <3>4, <3>5
  <2>. QED
    BY <2>1, <2>3, <2>p
<1>5. IsInjective(PiecesOf(d)) /\ ToSet(PiecesOf(d)) \subseteq Among(Slots(ht))
  BY <1>d, SlotHas
<1>6. PiecesOf(d) \in Seq(PieceType)
  BY <1>1, SeqIs, UseIs DEF PiecesOf
<1>7. ToSet(PiecesOf(e)) = ToSet(PiecesOf(d)) \cup {u.p} /\ IsInjective(PiecesOf(e))
  BY <1>4, <1>5, <1>6, ConsIs, UseIs
<1>8. ButDeferred(ht, new)
  BY <1>3 DEF ButDeferred
<1>9. /\ Once(Slots(new))
      /\ Among(Slots(new)) = (Among(Slots(ht)) \ ToSet(PiecesOf(d))) \cup ToSet(PiecesOf(e))
  BY <1>d, <1>3, <1>7, <1>8, SetDeferred
<1>10. Among(Slots(new)) = Among(Slots(ht)) \cup {u.p}
  BY <1>5, <1>7, <1>9
<1>. QED
  BY <1>2, <1>3, <1>9, <1>10, <1>d, <1>e, <1>n DEF Pushed, HeapGood
---------------------------------------------------------------------------
(* _rpmalloc_deallocate_defer_free_span() of a huge span once more         *)
LEMMA DeferAgainKeeps ==
  ASSUME Inv, NEW t \in Thread, DeferAgain(t)
  PROVE  Inv'
<1>1. todo[t] # <<>> /\ Now(t).do = "defer"
  BY DEF DeferAgain, Doing, Now
<1>h. PICK h \in DOMAIN heap : h = at[t]
  BY <1>1, CallHas
<1>o. PICK ht : ht = heap[h]
  OBVIOUS
<1>2. ht \in HeapType /\ Once(Slots(ht)) /\ ht.busy \in Int /\ Len(ht.deferred) \in Nat
  BY <1>o, HeapHas, HeapIs, SeqIs
<1>u. PICK u : u = Now(t).ps[1]
  OBVIOUS
<1>3. u \in UseType /\ TaskPieces(Now(t)) = <<u.p>> /\ Now(t) \notin LastTask
  BY <1>1, <1>u, TaskNow, TaskIs
<1>4. /\ Among(Carried(todo[t])) = {u.p} \cup Among(Carried(Rest(t)))
      /\ u.p \notin Among(Carried(Rest(t))) /\ NDefer(todo[t]) = NDefer(Rest(t)) + 1
      /\ NDefer(Rest(t)) \in Nat
  BY <1>1, <1>3, OneInOne, TaskNow
<1>5. /\ Among(Slots(ht)) \cap InThread(t) = {}
      /\ InThread(t) = Among(Carried(todo[t])) \cup One(got[t])
      /\ Among(Carried(todo[t])) \cap One(got[t]) = {} /\ InThread(t) \subseteq Union(Group)
  BY <1>o, CallHas, CountIs, GroupsApart DEF Apart, Before, One
<1>n. PICK new : new = [ht EXCEPT !.deferred = <<u>> \o @]
  OBVIOUS
<1>6. Pushed(new, ht, u)
  BY <1>2, <1>3, <1>4, <1>5, <1>n, PushIs
<1>7. /\ HeapGood(new) /\ Among(Slots(new)) = Among(Slots(ht)) \cup {u.p}
      /\ new.busy = ht.busy /\ Len(new.deferred) = Len(ht.deferred) + 1
  BY <1>6 DEF Pushed
<1>q. PICK q : q = <<>> \o Rest(t)
  OBVIOUS
<1>8. ThenDoes(q, <<>>, Rest(t), got[t])
  BY <1>q, <1>1, <1>3, CallNone, ThenIs, WorkIs
<1>9. /\ q \in Seq(TaskType) /\ Shape(q, got[t]) /\ Once(Carried(q))
      /\ Among(Carried(q)) = Among(Carried(Rest(t))) /\ NDefer(q) = NDefer(Rest(t))
  BY <1>4, <1>8, CallNone DEF ThenDoes
<1>10. LocalTurn(t, new, q, got[t]) /\ remaining' = remaining /\ mine' = mine /\ orphans' = orphans
  BY <1>h, <1>n, <1>o, <1>q, <1>u DEF DeferAgain, Inv, TypeOK, Then, Rest, Deferred, LocalTurn
<1>11. mine' = [mine EXCEPT ![t] = mine[t]] /\ MineGood(mine[t], orphans')
  BY <1>10, MineStays DEF Inv, TypeOK
<1>12. got[t] # None => got[t] \notin Among(Carried(q))
  BY <1>4, <1>9, CallHas
<1>13. LocalPlaces(t, new, q, got[t], remaining', {}, {})
  BY <1>h, <1>o, <1>4, <1>5, <1>7, <1>9, <1>10, MemoryHas DEF LocalPlaces
<1>14. Level(ht, NDefer(todo[t]), new, NDefer(q))
  <2>p. PICK x \in Int, l, e \in Nat : x = ht.busy /\ l = Len(ht.deferred) /\ e = NDefer(Rest(t))
    BY <1>2, <1>4
  <2>1. x + l + (e + 1) = x + (l + 1) + e
    OBVIOUS
  <2>. QED
    BY <1>4, <1>7, <1>9, <2>1, <2>p DEF Level
<1>15. got[t] \in CachedType \cup {None}
  BY CallHas
<1>. QED
  BY <1>1, <1>7, <1>9, <1>10, <1>11, <1>12, <1>13, <1>14, <1>15, <1>h, <1>o, LocalKeeps
---------------------------------------------------------------------------
(* The other pieces of a call on the global caches.                        *)
LEMMA QueuesApart ==
  ASSUME Inv, NEW t \in Thread, NEW n \in 1 .. LargeCount
  PROVE  /\ Among(Carried(todo[t])) \cap ToSet(global[n]) = {}
         /\ Among(Carried(todo[t])) \cap ToSet(overflow[n]) = {}
         /\ ToSet(global[n]) \cap ToSet(overflow[n]) = {}
         /\ Among(Carried(todo[t])) \cup ToSet(global[n]) \cup ToSet(overflow[n])
              \subseteq Union(Group)
<1>1. <<"thread", t>> \in Keys /\ <<"global", n>> \in Keys /\ <<"overflow", n>> \in Keys
  BY KeysAre
<1>2. /\ Group[<<"thread", t>>] = InThread(t) /\ Group[<<"global", n>>] = ToSet(global[n])
      /\ Group[<<"overflow", n>>] = ToSet(overflow[n]) /\ DOMAIN Group = Keys
  BY GroupIs
<1>p. PICK Q : Q = Group
  OBVIOUS
<1>3. \A k, l \in Keys : k # l => Q[k] \cap Q[l] = {}
  BY <1>2, <1>p, MemoryHas DEF Disjoint
<1>4. /\ Q[<<"thread", t>>] \cap Q[<<"global", n>>] = {}
      /\ Q[<<"thread", t>>] \cap Q[<<"overflow", n>>] = {}
      /\ Q[<<"global", n>>] \cap Q[<<"overflow", n>>] = {}
  BY <1>1, <1>3
<1>5. Q[<<"thread", t>>] \cup Q[<<"global", n>>] \cup Q[<<"overflow", n>>] \subseteq Union(Q)
  BY <1>1, <1>2, <1>p DEF Union
<1>. QED
  BY <1>2, <1>4, <1>5, <1>p, CallHas
---------------------------------------------------------------------------
(* A global cache is never longer than its limit.                          *)
Limited == \A n \in 1 .. LargeCount : Len(global[n]) <= GlobalLimit

(* The smaller of two numbers.                                             *)
LEMMA MinIs ==
  ASSUME NEW a \in Int, NEW b \in Int
  PROVE  Min({a, b}) \in {a, b} /\ Min({a, b}) <= a /\ Min({a, b}) <= b
  BY DEF Min

(* How long the rest of a queue is.                                        *)
LEMMA CutLen ==
  ASSUME NEW S, NEW q \in Seq(S), NEW n \in 0 .. Len(q)
  PROVE  Len(SubSeq(q, n + 1, Len(q))) = Len(q) - n
  BY SeqIs

(* One of a queue is exchanged.                                            *)
Exchanged(r, q, i, x, S) ==
  /\ r \in Seq(S) /\ Len(r) = Len(q) /\ IsInjective(r)
  /\ ToSet(r) = (ToSet(q) \ {q[i]}) \cup {x}

(* One member of a queue is exchanged for another.                         *)
LEMMA SetIs ==
  ASSUME NEW S, NEW q \in Seq(S), IsInjective(q), NEW i \in 1 .. Len(q), NEW x \in S,
         x \notin ToSet(q)
  PROVE  Exchanged([q EXCEPT ![i] = x], q, i, x, S)
  BY SeqIs DEF IsInjective, ToSet, Exchanged

(* Work on pieces, put in the place of other work on the same pieces.      *)
LEMMA WorkThen ==
  ASSUME Inv, NEW t \in Thread, todo[t] # <<>>, Now(t) \notin LastTask, Now(t).do # "defer",
         NEW w \in Seq(WorkTask), Once(Carried(w)), NDefer(w) = 0,
         Among(Carried(w)) \cap Among(Carried(Rest(t))) = {}
  PROVE  /\ w \o Rest(t) \in Seq(TaskType) /\ Shape(w \o Rest(t), got[t])
         /\ Once(Carried(w \o Rest(t))) /\ NDefer(w \o Rest(t)) = NDefer(todo[t])
         /\ Among(Carried(w \o Rest(t))) = Among(Carried(w)) \cup Among(Carried(Rest(t)))
<1>1. ThenDoes(w \o Rest(t), w, Rest(t), got[t])
  BY ThenIs
<1>2. NDefer(todo[t]) = NDefer(Rest(t)) /\ NDefer(Rest(t)) \in Nat
  BY TaskNow, QuietNow
<1>. QED
  BY <1>1, <1>2 DEF ThenDoes

(* A task for the pieces of a call.                                        *)
LEMMA WorkOne ==
  ASSUME NEW k \in WorkTask, k.do # "defer", IsInjective(TaskPieces(k))
  PROVE  /\ <<k>> \in Seq(WorkTask) /\ Once(Carried(<<k>>)) /\ NDefer(<<k>>) = 0
         /\ Among(Carried(<<k>>)) = ToSet(TaskPieces(k))
  BY CallOne, WorkIs DEF TaskType

(* No task.                                                                *)
LEMMA WorkNone ==
  <<>> \in Seq(WorkTask) /\ Once(Carried(<<>>)) /\ NDefer(<<>>) = 0 /\ Among(Carried(<<>>)) = {}
  BY WorkIs, CallNone
---------------------------------------------------------------------------
(* _rpmalloc_global_cache_insert_spans(), first lock                       *)
LEMMA GlobalInsertKeeps ==
  ASSUME Inv, Limited, NEW t \in Thread, GlobalInsert(t)
  PROVE  Inv' /\ Limited'
<1>1. todo[t] # <<>> /\ Now(t).do = "global insert"
  BY DEF GlobalInsert, Doing, Now
<1>k. PICK k : k = Now(t)
  OBVIOUS
<1>2. /\ k \in TaskType /\ k.n \in 1 .. LargeCount /\ k.ps \in Seq(CachedType)
      /\ k.keep = <<>> /\ k.slot = 0 /\ TaskPieces(k) = k.ps /\ k \notin LastTask
      /\ k.do = "global insert" /\ k \in WorkTask
  BY <1>1, <1>k, TaskNow, TaskIs
<1>n. PICK n \in 1 .. LargeCount : n = k.n
  BY <1>2
<1>s. PICK ps : ps = k.ps
  OBVIOUS
<1>g. PICK g : g = global[n]
  OBVIOUS
<1>3. /\ g \in Seq(CachedType) /\ overflow[n] \in Seq(CachedType) /\ IsInjective(g)
      /\ IsInjective(overflow[n]) /\ Len(g) \in Nat /\ Len(g) <= GlobalLimit
  BY <1>g, CacheHas, SeqIs DEF Limited
<1>f. PICK fit : fit = Min({Len(ps), GlobalLimit - Len(g)})
  OBVIOUS
<1>4. ps \in Seq(CachedType) /\ IsInjective(ps) /\ Len(ps) \in Nat
  <2>1. IsInjective(TaskPieces(k))
    BY <1>1, <1>k, TaskNow
  <2>. QED
    BY <1>2, <1>s, <2>1, SeqIs
<1>5. fit \in 0 .. Len(ps) /\ Len(g) + fit <= GlobalLimit
  <2>1. GlobalLimit - Len(g) \in Nat
    BY <1>3, LimitAssumption
  <2>2. fit \in {Len(ps), GlobalLimit - Len(g)} /\ fit <= Len(ps) /\ fit <= GlobalLimit - Len(g)
    <3>p. PICK x \in Int, y \in Int : x = Len(ps) /\ y = GlobalLimit - Len(g)
      BY <1>4, <2>1
    <3>1. Min({x, y}) \in {x, y} /\ Min({x, y}) <= x /\ Min({x, y}) <= y
      BY MinIs, Zenon
    <3>. QED
      BY <1>f, <3>1, <3>p
  <2>. QED
    BY <1>3, <1>4, <2>1, <2>2, LimitAssumption
<1>a. PICK a, b : a = SubSeq(ps, 1, fit) /\ b = SubSeq(ps, fit + 1, Len(ps))
  OBVIOUS
<1>6. /\ a \in Seq(CachedType) /\ IsInjective(a) /\ Len(a) = fit
      /\ b \in Seq(CachedType) /\ IsInjective(b)
      /\ ToSet(a) \cup ToSet(b) = ToSet(ps) /\ ToSet(a) \cap ToSet(b) = {}
  BY <1>a, <1>4, <1>5, CutIs
<1>w. PICK w : w = IF fit = Len(ps) THEN <<>> ELSE <<[k EXCEPT !.do = "sort", !.ps = b]>>
  OBVIOUS
<1>7. /\ w \in Seq(WorkTask) /\ Once(Carried(w)) /\ NDefer(w) = 0
      /\ Among(Carried(w)) = ToSet(b)
  <2>1. CASE fit = Len(ps)
    <3>1. w = <<>>
      BY <1>w, <2>1
    <3>2. b = <<>>
      BY <1>4, <1>a, <2>1
    <3>. QED
      BY <3>1, <3>2, WorkNone, NoneInEmpty
  <2>2. CASE fit # Len(ps)
    <3>k. PICK j : j = [k EXCEPT !.do = "sort", !.ps = b]
      OBVIOUS
    <3>0. Len(b) = Len(ps) - fit
      BY <1>4, <1>5, <1>a, CutLen
    <3>1. b # <<>>
      BY <1>4, <1>5, <2>2, <3>0
    <3>2. <<>> \in Seq(CachedType)
      OBVIOUS
    <3>3. /\ j = [do |-> "sort", n |-> n, ps |-> b, keep |-> <<>>, slot |-> 0]
      BY <1>2, <1>n, <3>k DEF WorkTask, Tasks
    <3>4. j \in WorkTask /\ j.do = "sort" /\ j.ps = b /\ j.keep = <<>>
      BY <1>6, <3>1, <3>2, <3>3 DEF WorkTask, Tasks
    <3>5. TaskPieces(j) = b
      <4>1. TaskPieces(j) = b \o <<>>
        BY <3>4, TaskIs DEF TaskType
      <4>. QED
        BY <1>6, <4>1
    <3>6. w = <<j>>
      BY <1>w, <2>2, <3>k
    <3>. QED
      BY <1>6, <3>4, <3>5, <3>6, WorkOne
  <2>. QED
    BY <2>1, <2>2
<1>8. /\ Among(Carried(todo[t])) = ToSet(ps) \cup Among(Carried(Rest(t)))
      /\ ToSet(ps) \cap Among(Carried(Rest(t))) = {}
  BY <1>1, <1>2, <1>k, <1>s, TaskNow
<1>q. PICK q : q = w \o Rest(t)
  OBVIOUS
<1>9. /\ q \in Seq(TaskType) /\ Shape(q, got[t]) /\ Once(Carried(q)) /\ NDefer(q) = NDefer(todo[t])
      /\ Among(Carried(q)) = Among(Carried(w)) \cup Among(Carried(Rest(t)))
  <2>1. Among(Carried(w)) \cap Among(Carried(Rest(t))) = {}
    BY <1>6, <1>7, <1>8
  <2>2. Now(t) \notin LastTask /\ Now(t).do # "defer"
    BY <1>2, <1>k
  <2>. QED
    BY <1>1, <1>7, <1>q, <2>1, <2>2, WorkThen
<1>e. PICK gl : gl = g \o a
  OBVIOUS
<1>10. /\ Among(Carried(todo[t])) \cap ToSet(g) = {}
       /\ Among(Carried(todo[t])) \cap ToSet(overflow[n]) = {}
       /\ ToSet(g) \cap ToSet(overflow[n]) = {}
       /\ Among(Carried(todo[t])) \cup ToSet(g) \cup ToSet(overflow[n]) \subseteq Union(Group)
  BY <1>g, QueuesApart
<1>11. /\ gl \in Seq(CachedType) /\ IsInjective(gl) /\ ToSet(gl) = ToSet(g) \cup ToSet(a)
       /\ Len(gl) = Len(g) + fit
  <2>1. ToSet(g) \cap ToSet(a) = {}
    BY <1>6, <1>8, <1>10
  <2>. QED
    <3>1. /\ g \o a \in Seq(CachedType) /\ Len(g \o a) = Len(g) + Len(a)
          /\ ToSet(g \o a) = ToSet(g) \cup ToSet(a)
          /\ IsInjective(g) /\ IsInjective(a) /\ ToSet(g) \cap ToSet(a) = {} => IsInjective(g \o a)
      BY <1>3, <1>6, JoinIs
    <3>. QED
      BY <1>3, <1>6, <1>e, <2>1, <3>1
<1>12. QueueTurn(t, n, q, gl, overflow[n]) /\ remaining' = remaining
  BY <1>a, <1>e, <1>f, <1>g, <1>k, <1>n, <1>q, <1>s, <1>w DEF GlobalInsert, Inv, TypeOK, Then,
     QueueTurn, Caches, Rest
<1>13. QueuePlaces(t, n, q, gl, overflow[n], remaining', {})
  BY <1>g, <1>6, <1>7, <1>8, <1>9, <1>10, <1>11, <1>12, MemoryHas DEF QueuePlaces
<1>14. QueueGood(gl) /\ QueueGood(overflow[n])
  BY <1>3, <1>11 DEF QueueGood
<1>15. Inv'
  BY <1>1, <1>9, <1>12, <1>13, <1>14, QueueKeeps
<1>16. Limited'
  BY <1>5, <1>11, <1>12 DEF Limited, QueueTurn, Caches, Inv, TypeOK
<1>. QED
  BY <1>15, <1>16
---------------------------------------------------------------------------
(* A queue joined from two has none twice: no piece is in both.            *)
LEMMA Parted ==
  ASSUME NEW S, NEW a \in Seq(S), NEW b \in Seq(S), IsInjective(a \o b)
  PROVE  IsInjective(a) /\ IsInjective(b) /\ ToSet(a) \cap ToSet(b) = {}
<1>c. PICK c : c = a \o b
  OBVIOUS
<1>1. /\ Len(a) \in Nat /\ Len(b) \in Nat /\ DOMAIN a = 1 .. Len(a) /\ DOMAIN b = 1 .. Len(b)
      /\ DOMAIN c = 1 .. Len(a) + Len(b)
      /\ \A i \in 1 .. Len(a) : c[i] = a[i]
      /\ \A i \in 1 .. Len(b) : c[Len(a) + i] = b[i]
  BY <1>c, SeqIs
<1>2. \A i, j \in 1 .. Len(a) + Len(b) : c[i] = c[j] => i = j
  BY <1>1, <1>c DEF IsInjective
<1>3. IsInjective(a)
  BY <1>1, <1>2 DEF IsInjective
<1>4. \A i \in 1 .. Len(b) : Len(a) + i \in 1 .. Len(a) + Len(b)
  BY <1>1
<1>5. IsInjective(b)
  BY <1>1, <1>2, <1>4 DEF IsInjective
<1>6. ToSet(a) \cap ToSet(b) = {}
  <2>. SUFFICES ASSUME NEW i \in 1 .. Len(a), NEW j \in 1 .. Len(b), a[i] = b[j] PROVE FALSE
    BY <1>1 DEF ToSet
  <2>1. i \in 1 .. Len(a) + Len(b) /\ Len(a) + j # i
    BY <1>1
  <2>. QED
    BY <1>1, <1>2, <1>4, <2>1
<1>. QED
  BY <1>3, <1>5, <1>6

(* A step of a call that changes what it has in hand, the caches as they   *)
(* are: Out is unmapped, the rest is carried on.                           *)
LEMMA HandKeeps ==
  ASSUME Inv, Limited, NEW t \in Thread, todo[t] # <<>>,
         Now(t) \notin LastTask, Now(t).do # "defer",
         NEW w \in Seq(WorkTask), Once(Carried(w)), NDefer(w) = 0, NEW Out,
         Among(Carried(w)) = ToSet(TaskPieces(Now(t))) \ Out,
         Out \subseteq ToSet(TaskPieces(Now(t))),
         RemOK(remaining'), Accounted(remaining', Union(Group) \ Out),
         todo' = [todo EXCEPT ![t] = w \o Rest(t)],
         UNCHANGED <<heap, orphans, global, overflow, used, mine, at, got, finalized>>
  PROVE  Inv' /\ Limited'
<1>n. PICK n \in 1 .. LargeCount : n = 1
  BY CountIs
<1>q. PICK q : q = w \o Rest(t)
  OBVIOUS
<1>1. /\ Among(Carried(todo[t])) = ToSet(TaskPieces(Now(t))) \cup Among(Carried(Rest(t)))
      /\ ToSet(TaskPieces(Now(t))) \cap Among(Carried(Rest(t))) = {}
  BY TaskNow
<1>2. /\ q \in Seq(TaskType) /\ Shape(q, got[t]) /\ Once(Carried(q)) /\ NDefer(q) = NDefer(todo[t])
      /\ Among(Carried(q)) = Among(Carried(w)) \cup Among(Carried(Rest(t)))
  BY <1>q, <1>1, WorkThen
<1>3. QueueTurn(t, n, q, global[n], overflow[n])
  BY <1>q DEF QueueTurn, Caches, Inv, TypeOK
<1>4. /\ Among(Carried(todo[t])) \cap ToSet(global[n]) = {}
      /\ Among(Carried(todo[t])) \cap ToSet(overflow[n]) = {}
      /\ ToSet(global[n]) \cap ToSet(overflow[n]) = {}
  BY QueuesApart
<1>5. QueuePlaces(t, n, q, global[n], overflow[n], remaining', Out)
  BY <1>1, <1>2, <1>4 DEF QueuePlaces
<1>6. QueueGood(global[n]) /\ QueueGood(overflow[n])
  BY CacheHas DEF QueueGood
<1>7. Inv'
  BY <1>2, <1>3, <1>5, <1>6, QueueKeeps
<1>8. Limited'
  BY DEF Limited
<1>. QED
  BY <1>7, <1>8

(* What a piece of a call that is unmapped leaves.                         *)
LEMMA UnmapPiece ==
  ASSUME Inv, NEW p \in Union(Group)
  PROVE  RemOK(Unmapped(remaining, p)) /\ Accounted(Unmapped(remaining, p), Union(Group) \ {p})
  BY MemoryHas, UnmapIs

(* Nothing is unmapped.                                                    *)
LEMMA UnmapNothing ==
  ASSUME Inv
  PROVE  RemOK(remaining) /\ Accounted(remaining, Union(Group) \ {})
  BY MemoryHas
---------------------------------------------------------------------------
(* What did not fit, outside the lock                                      *)
LEMMA SortRestKeeps ==
  ASSUME Inv, Limited, NEW t \in Thread, SortRest(t)
  PROVE  Inv' /\ Limited'
<1>1. todo[t] # <<>> /\ Now(t).do = "sort"
  BY DEF SortRest, Doing, Now
<1>k. PICK k : k = Now(t)
  OBVIOUS
<1>2. /\ k \in TaskType /\ k.n \in 1 .. LargeCount /\ k.ps \in Seq(CachedType) /\ k.ps # <<>>
      /\ k.keep \in Seq(CachedType) /\ k.slot = 0 /\ TaskPieces(k) = k.ps \o k.keep
      /\ k \notin LastTask /\ k.do = "sort" /\ k \in WorkTask
  BY <1>1, <1>k, TaskNow, TaskIs
<1>s. PICK ps, old : ps = k.ps /\ old = k.keep
  OBVIOUS
<1>3. /\ IsInjective(ps) /\ IsInjective(old) /\ ToSet(ps) \cap ToSet(old) = {}
      /\ ToSet(TaskPieces(k)) = ToSet(ps) \cup ToSet(old)
  <2>1. IsInjective(ps \o old) /\ ps \in Seq(CachedType) /\ old \in Seq(CachedType)
    BY <1>1, <1>2, <1>k, <1>s, TaskNow
  <2>. QED
    BY <1>2, <1>s, <2>1, JoinIs, Parted
<1>p. PICK p : p = Head(ps)
  OBVIOUS
<1>4. /\ p \in CachedType /\ Tail(ps) \in Seq(CachedType) /\ ToSet(ps) = {p} \cup ToSet(Tail(ps))
      /\ IsInjective(Tail(ps)) /\ p \notin ToSet(Tail(ps))
  BY <1>2, <1>3, <1>p, <1>s, HeadIs
<1>h. PICK hold : hold = (IsMaster(p) /\ ~LastOfRegion(p))
  OBVIOUS
<1>e. PICK keep : keep = IF hold THEN <<p>> \o old ELSE old
  OBVIOUS
<1>o. PICK Out : Out = IF hold THEN {} ELSE {p}
  OBVIOUS
<1>5. /\ keep \in Seq(CachedType) /\ IsInjective(keep) /\ ToSet(Tail(ps)) \cap ToSet(keep) = {}
      /\ ToSet(Tail(ps)) \cup ToSet(keep) = (ToSet(ps) \cup ToSet(old)) \ Out
      /\ Out \subseteq ToSet(ps) \cup ToSet(old)
  BY <1>e, <1>o, <1>s, <1>2, <1>3, <1>4, ConsIs
<1>r. PICK rest : rest = [k EXCEPT !.ps = Tail(@), !.keep = keep]
  OBVIOUS
<1>6. rest = [do |-> "sort", n |-> k.n, ps |-> Tail(ps), keep |-> keep, slot |-> 0]
  BY <1>2, <1>r, <1>s DEF WorkTask, Tasks
<1>w. PICK w : w = CASE rest.ps # <<>> -> <<rest>>
                     [] rest.ps = <<>> /\ keep # <<>> -> <<[rest EXCEPT !.do = "keep"]>>
                     [] OTHER -> <<>>
  OBVIOUS
<1>7. /\ w \in Seq(WorkTask) /\ Once(Carried(w)) /\ NDefer(w) = 0
      /\ Among(Carried(w)) = ToSet(Tail(ps)) \cup ToSet(keep)
  <2>1. CASE rest.ps # <<>>
    <3>1. w = <<rest>>
      BY <1>w, <2>1
    <3>2. rest \in WorkTask /\ rest.do = "sort" /\ rest.ps = Tail(ps) /\ rest.keep = keep
      BY <1>2, <1>4, <1>5, <1>6, <2>1 DEF WorkTask, Tasks
    <3>3. TaskPieces(rest) = Tail(ps) \o keep
      BY <3>2, TaskIs DEF TaskType
    <3>4. /\ IsInjective(TaskPieces(rest))
          /\ ToSet(TaskPieces(rest)) = ToSet(Tail(ps)) \cup ToSet(keep)
      <4>1. /\ ToSet(Tail(ps) \o keep) = ToSet(Tail(ps)) \cup ToSet(keep)
            /\ IsInjective(Tail(ps)) /\ IsInjective(keep) /\ ToSet(Tail(ps)) \cap ToSet(keep) = {}
                 => IsInjective(Tail(ps) \o keep)
        <5>p. PICK a : a = Tail(ps)
          OBVIOUS
        <5>1. a \in Seq(CachedType) /\ keep \in Seq(CachedType)
          BY <1>4, <1>5, <5>p
        <5>2. /\ ToSet(a \o keep) = ToSet(a) \cup ToSet(keep)
              /\ IsInjective(a) /\ IsInjective(keep) /\ ToSet(a) \cap ToSet(keep) = {}
                   => IsInjective(a \o keep)
          BY <5>1, JoinIs
        <5>. QED
          BY <5>2, <5>p
      <4>. QED
        BY <1>4, <1>5, <3>3, <4>1
    <3>. QED
      BY <3>1, <3>2, <3>4, WorkOne
  <2>2. CASE rest.ps = <<>> /\ keep # <<>>
    <3>k. PICK j : j = [rest EXCEPT !.do = "keep"]
      OBVIOUS
    <3>1. w = <<j>> /\ Tail(ps) = <<>>
      BY <1>6, <1>w, <2>2, <3>k
    <3>2. j \in WorkTask /\ j.do = "keep" /\ j.keep = keep
      BY <1>2, <1>5, <1>6, <3>k, <3>1 DEF WorkTask, Tasks
    <3>3. TaskPieces(j) = keep
      BY <3>2, TaskIs DEF TaskType
    <3>. QED
      BY <1>5, <3>1, <3>2, <3>3, WorkOne, NoneInEmpty
  <2>3. CASE rest.ps = <<>> /\ keep = <<>>
    BY <1>w, <1>6, <2>3, NoneInEmpty, WorkNone
  <2>. QED
    BY <2>1, <2>2, <2>3
<1>8. RemOK(remaining') /\ Accounted(remaining', Union(Group) \ Out)
  <2>1. remaining' = IF hold THEN remaining ELSE Unmapped(remaining, p)
    BY <1>h, <1>k, <1>p, <1>s DEF SortRest
  <2>2. p \in Union(Group)
    BY <1>k, <1>1, <1>3, <1>4, CountIs, QueuesApart, TaskNow
  <2>. QED
    BY <1>o, <2>1, <2>2, UnmapPiece, UnmapNothing
<1>9. todo' = [todo EXCEPT ![t] = w \o Rest(t)]
  BY <1>e, <1>h, <1>k, <1>p, <1>r, <1>s, <1>w DEF SortRest, Then, Rest
<1>10. UNCHANGED <<heap, orphans, global, overflow, used, mine, at, got, finalized>>
  BY DEF SortRest
<1>11. /\ Now(t) \notin LastTask /\ Now(t).do # "defer"
       /\ Among(Carried(w)) = ToSet(TaskPieces(Now(t))) \ Out
       /\ Out \subseteq ToSet(TaskPieces(Now(t)))
  BY <1>2, <1>3, <1>5, <1>7, <1>k
<1>. QED
  BY <1>1, <1>7, <1>8, <1>9, <1>10, <1>11, HandKeeps
---------------------------------------------------------------------------
(* The second lock                                                         *)
LEMMA KeepTask ==
  ASSUME NEW k \in TaskType, k.do = "keep", NEW keep \in Seq(CachedType), IsInjective(keep),
         NEW slot \in Nat, NEW j, j = [k EXCEPT !.keep = keep, !.slot = slot]
  PROVE  /\ <<j>> \in Seq(WorkTask) /\ Once(Carried(<<j>>)) /\ NDefer(<<j>>) = 0
         /\ Among(Carried(<<j>>)) = ToSet(keep)
<1>1. k \in WorkTask /\ k.n \in 1 .. LargeCount /\ k.ps = <<>>
  BY TaskIs
<1>2. j = [do |-> "keep", n |-> k.n, ps |-> <<>>, keep |-> keep, slot |-> slot]
  BY <1>1 DEF WorkTask, Tasks
<1>3. j \in WorkTask /\ j.do = "keep" /\ j.keep = keep
  BY <1>1, <1>2 DEF WorkTask, Tasks
<1>4. TaskPieces(j) = keep
  BY <1>3, TaskIs DEF TaskType
<1>. QED
  BY <1>3, <1>4, WorkOne

(* _rpmalloc_global_cache_insert_spans(), second lock                      *)
LEMMA KeepInCacheKeeps ==
  ASSUME Inv, Limited, NEW t \in Thread, KeepInCache(t)
  PROVE  Inv' /\ Limited'
<1>1. todo[t] # <<>> /\ Now(t).do = "keep"
  BY DEF KeepInCache, Doing, Now
<1>k. PICK k : k = Now(t)
  OBVIOUS
<1>2. /\ k \in TaskType /\ k.n \in 1 .. LargeCount /\ k.ps = <<>>
      /\ k.keep \in Seq(CachedType) /\ k.slot \in Nat /\ TaskPieces(k) = k.keep
      /\ k \notin LastTask /\ k.do = "keep" /\ k.do # "defer"
  BY <1>1, <1>k, TaskNow, TaskIs
<1>n. PICK n \in 1 .. LargeCount : n = k.n
  BY <1>2
<1>s. PICK keep, i, g, o : keep = k.keep /\ i = k.slot /\ g = global[n] /\ o = overflow[n]
  OBVIOUS
<1>3. keep \in Seq(CachedType) /\ IsInjective(keep) /\ TaskPieces(k) = keep /\ i \in Nat
  BY <1>1, <1>2, <1>k, <1>s, TaskNow
<1>4. /\ g \in Seq(CachedType) /\ o \in Seq(CachedType) /\ IsInjective(g) /\ IsInjective(o)
      /\ Len(g) \in Nat
  BY <1>s, CacheHas, SeqIs
<1>5. /\ Among(Carried(todo[t])) = ToSet(keep) \cup Among(Carried(Rest(t)))
      /\ ToSet(keep) \cap Among(Carried(Rest(t))) = {}
  BY <1>1, <1>3, <1>k, TaskNow
<1>6. /\ Among(Carried(todo[t])) \cap ToSet(g) = {} /\ Among(Carried(todo[t])) \cap ToSet(o) = {}
      /\ ToSet(g) \cap ToSet(o) = {}
      /\ Among(Carried(todo[t])) \cup ToSet(g) \cup ToSet(o) \subseteq Union(Group)
  BY <1>s, QueuesApart
<1>f. UNCHANGED <<heap, orphans, used, mine, at, got, finalized>>
  BY DEF KeepInCache
<1>7. ASSUME NEW slot \in Nat,
             todo' = [todo EXCEPT ![t] = <<[k EXCEPT !.slot = slot]>> \o Tail(@)],
             UNCHANGED <<remaining, global, overflow>>
      PROVE  Inv' /\ Limited'
  <2>j. PICK j : j = [k EXCEPT !.keep = keep, !.slot = slot]
    OBVIOUS
  <2>1. /\ <<j>> \in Seq(WorkTask) /\ Once(Carried(<<j>>)) /\ NDefer(<<j>>) = 0
        /\ Among(Carried(<<j>>)) = ToSet(keep)
    BY <1>2, <1>3, <1>7, <2>j, KeepTask
  <2>2. [k EXCEPT !.slot = slot] = j
    BY <1>2, <1>s, <2>j DEF TaskType, WorkTask, LastTask, AdoptTask, Tasks
  <2>3. todo' = [todo EXCEPT ![t] = <<j>> \o Rest(t)]
    BY <1>7, <2>2 DEF Rest
  <2>4. Among(Carried(<<j>>)) = ToSet(TaskPieces(Now(t))) \ {}
    BY <1>3, <1>k, <2>1
  <2>5. RemOK(remaining') /\ Accounted(remaining', Union(Group) \ {})
    BY <1>7, UnmapNothing
  <2>. QED
    BY <1>1, <1>2, <1>7, <1>f, <1>k, <2>1, <2>3, <2>4, <2>5, HandKeeps
<1>8. CASE i = 0
  BY <1>k, <1>s, <1>7, <1>8 DEF KeepInCache, Then
<1>9. CASE i > 0 /\ (keep = <<>> \/ i > Len(g))
  <2>1. /\ overflow' = [overflow EXCEPT ![n] = keep \o o]
        /\ todo' = [todo EXCEPT ![t] = <<>> \o Tail(@)]
        /\ UNCHANGED <<remaining, global>>
    <3>1. ~(k.slot = 0) /\ k.slot > 0 /\ (k.keep = <<>> \/ k.slot > Len(global[k.n]))
      BY <1>2, <1>9, <1>n, <1>s
    <3>. QED
      BY <1>k, <1>n, <1>s, <3>1 DEF KeepInCache, Then
  <2>q. PICK q : q = <<>> \o Rest(t)
    OBVIOUS
  <2>v. PICK ov : ov = keep \o o
    OBVIOUS
  <2>2. /\ q \in Seq(TaskType) /\ Shape(q, got[t]) /\ Once(Carried(q))
        /\ NDefer(q) = NDefer(todo[t])
        /\ Among(Carried(q)) = {} \cup Among(Carried(Rest(t)))
    BY <1>k, <1>1, <1>2, <2>q, WorkNone, WorkThen
  <2>3. ToSet(keep) \cap ToSet(o) = {}
    BY <1>5, <1>6
  <2>4. ov \in Seq(CachedType) /\ IsInjective(ov) /\ ToSet(ov) = ToSet(keep) \cup ToSet(o)
    BY <1>3, <1>4, <2>3, <2>v, JoinIs
  <2>5. QueueTurn(t, n, q, g, ov)
    BY <1>f, <1>s, <2>q, <2>v, <2>1 DEF Inv, TypeOK, Rest, QueueTurn, Caches
  <2>6. QueuePlaces(t, n, q, g, ov, remaining', {})
    BY <1>s, <1>5, <1>6, <2>1, <2>2, <2>4, UnmapNothing DEF QueuePlaces
  <2>7. QueueGood(g) /\ QueueGood(ov)
    BY <1>4, <2>4 DEF QueueGood
  <2>8. Inv'
    BY <1>1, <2>2, <2>5, <2>6, <2>7, QueueKeeps
  <2>. QED
    BY <2>1, <2>8 DEF Limited
<1>10. CASE i > 0 /\ ~(keep = <<>> \/ i > Len(g))
  <2>0. i \in 1 .. Len(g) /\ keep # <<>>
    BY <1>3, <1>4, <1>10
  <2>p. PICK p : p = g[i]
    OBVIOUS
  <2>1. \/ /\ remaining' = Unmapped(remaining, p)
           /\ global' = [global EXCEPT ![n][i] = Head(keep)]
           /\ todo' = [todo EXCEPT ![t] = <<[k EXCEPT !.keep = Tail(@)]>> \o Tail(@)]
           /\ UNCHANGED overflow
        \/ /\ todo' = [todo EXCEPT ![t] = <<[k EXCEPT !.slot = i + 1]>> \o Tail(@)]
           /\ UNCHANGED <<remaining, global, overflow>>
    <3>1. ~(k.slot = 0) /\ ~(k.slot > 0 /\ (k.keep = <<>> \/ k.slot > Len(global[k.n])))
      BY <1>2, <1>10, <1>n, <1>s
    <3>. QED
      BY <1>k, <1>n, <1>s, <2>p, <3>1 DEF KeepInCache, Then
  <2>2. CASE /\ todo' = [todo EXCEPT ![t] = <<[k EXCEPT !.slot = i + 1]>> \o Tail(@)]
             /\ UNCHANGED <<remaining, global, overflow>>
    <3>1. i + 1 \in Nat
      BY <1>3
    <3>. QED
      BY <1>7, <2>2, <3>1, Zenon
  <2>3. CASE /\ remaining' = Unmapped(remaining, p)
             /\ global' = [global EXCEPT ![n][i] = Head(keep)]
             /\ todo' = [todo EXCEPT ![t] = <<[k EXCEPT !.keep = Tail(@)]>> \o Tail(@)]
             /\ UNCHANGED overflow
    <3>h. PICK h, rest : h = Head(keep) /\ rest = Tail(keep)
      OBVIOUS
    <3>1. /\ h \in CachedType /\ rest \in Seq(CachedType) /\ ToSet(keep) = {h} \cup ToSet(rest)
          /\ IsInjective(rest) /\ h \notin ToSet(rest)
      BY <1>3, <2>0, <3>h, HeadIs
    <3>l. PICK gl : gl = [g EXCEPT ![i] = h]
      OBVIOUS
    <3>2. h \notin ToSet(g) /\ p \in ToSet(g)
      BY <1>4, <1>5, <1>6, <2>0, <2>p, <3>1, SeqIs
    <3>3. /\ gl \in Seq(CachedType) /\ Len(gl) = Len(g) /\ IsInjective(gl)
          /\ ToSet(gl) = (ToSet(g) \ {p}) \cup {h}
      <4>1. /\ g \in Seq(CachedType) /\ IsInjective(g) /\ i \in 1 .. Len(g) /\ h \in CachedType
            /\ h \notin ToSet(g)
        BY <1>4, <2>0, <3>1, <3>2
      <4>2. Exchanged(gl, g, i, h, CachedType)
        BY <3>l, <4>1, SetIs
      <4>. QED
        BY <2>p, <4>2 DEF Exchanged
    <3>j. PICK j : j = [k EXCEPT !.keep = rest, !.slot = i]
      OBVIOUS
    <3>4. /\ <<j>> \in Seq(WorkTask) /\ Once(Carried(<<j>>)) /\ NDefer(<<j>>) = 0
          /\ Among(Carried(<<j>>)) = ToSet(rest)
      BY ZenonT(60), <1>2, <1>3, <3>1, <3>j, KeepTask
    <3>q. PICK q : q = <<j>> \o Rest(t)
      OBVIOUS
    <3>5. /\ q \in Seq(TaskType) /\ Shape(q, got[t]) /\ Once(Carried(q))
          /\ NDefer(q) = NDefer(todo[t])
          /\ Among(Carried(q)) = ToSet(rest) \cup Among(Carried(Rest(t)))
      <4>1. Now(t) \notin LastTask /\ Now(t).do # "defer"
        BY <1>2, <1>k
      <4>2. Among(Carried(<<j>>)) \cap Among(Carried(Rest(t))) = {}
        BY <1>5, <3>1, <3>4
      <4>. QED
        BY <1>1, <3>4, <3>q, <4>1, <4>2, WorkThen
    <3>6. QueueTurn(t, n, q, gl, o)
      <4>1. [k EXCEPT !.keep = Tail(@)] = j
        BY <1>2, <1>s, <3>h, <3>j DEF TaskType, WorkTask, LastTask, AdoptTask, Tasks
      <4>2. todo' = [todo EXCEPT ![t] = q]
        BY <2>3, <3>q, <4>1 DEF Rest
      <4>3. global' = [global EXCEPT ![n] = gl]
        BY <1>s, <2>3, <3>h, <3>l
      <4>4. overflow' = [overflow EXCEPT ![n] = o]
        BY <1>s, <2>3 DEF Inv, TypeOK
      <4>. QED
        BY <1>f, <4>2, <4>3, <4>4 DEF QueueTurn, Caches
    <3>7. RemOK(remaining') /\ Accounted(remaining', Union(Group) \ {p})
      BY <1>6, <2>3, <3>2, UnmapPiece
    <3>8. QueuePlaces(t, n, q, gl, o, remaining', {p})
      BY <1>s, <1>5, <1>6, <3>1, <3>2, <3>3, <3>5, <3>7 DEF QueuePlaces
    <3>9. QueueGood(gl) /\ QueueGood(o)
      BY <1>4, <3>3 DEF QueueGood
    <3>10. Inv'
      BY <1>1, <3>5, <3>6, <3>8, <3>9, QueueKeeps
    <3>11. Limited'
      BY <1>s, <3>3, <3>6 DEF Limited, QueueTurn, Caches, Inv, TypeOK
    <3>. QED
      BY <3>10, <3>11
  <2>. QED
    BY <2>1, <2>2, <2>3
<1>11. i = 0 \/ i > 0
  BY <1>3
<1>. QED
  BY <1>8, <1>9, <1>10, <1>11
---------------------------------------------------------------------------
(* A thread that carries nothing: between calls, or at the end of one.     *)
Empty(t) == InThread(t) = {} /\ got[t] = None /\ NDefer(todo[t]) = 0

(* A thread between calls carries nothing.                                 *)
LEMMA IdleIs ==
  ASSUME Inv, NEW t \in Thread, Idle(t)
  PROVE  Empty(t)
  BY CallHas, CallNone DEF Idle, Shape, Empty, One

(* The last task of a call is all that is left of it.                      *)
LEMMA LastIsLast ==
  ASSUME Inv, NEW t \in Thread, todo[t] # <<>>, Now(t) \in LastTask
  PROVE  /\ Rest(t) = <<>> /\ NDefer(todo[t]) = 0 /\ InThread(t) = One(got[t])
         /\ (Now(t).do # "extract" => Empty(t))
<1>q. PICK q : q = todo[t]
  OBVIOUS
<1>1. q \in Seq(TaskType) /\ q # <<>> /\ Shape(q, got[t]) /\ Head(q) \in LastTask
  BY <1>q, CallHas DEF Now
<1>2. Tail(q) = <<>> /\ (got[t] # None => Head(q).do = "extract")
  BY <1>1, ShapeTail
<1>3. Rest(t) = <<>> /\ Head(q) = Now(t)
  BY <1>2, <1>q DEF Rest, Now
<1>4. TaskPieces(Now(t)) = <<>> /\ Now(t).do # "defer"
  BY TaskIs, TaskNow
<1>5. Among(Carried(todo[t])) = {} /\ NDefer(todo[t]) = 0
  BY <1>3, <1>4, CallNone, QuietNow
<1>6. InThread(t) = One(got[t])
  BY <1>5, CallHas
<1>. QED
  BY <1>2, <1>3, <1>5, <1>6 DEF Empty, One

(* A sequence of two.                                                      *)
LEMMA PairIs ==
  ASSUME NEW S, NEW j \in S, NEW k \in S
  PROVE  <<j>> \o <<k>> = <<j, k>>
<1>p. PICK a, b, c : a = <<j>> /\ b = <<k>> /\ c = <<j, k>>
  OBVIOUS
<1>1. a \in Seq(S) /\ b \in Seq(S) /\ Len(a) = 1 /\ Len(b) = 1 /\ a[1] = j /\ b[1] = k
  BY <1>p
<1>2. c \in Seq(S) /\ Len(c) = 2 /\ c[1] = j /\ c[2] = k
  BY <1>p
<1>d. PICK d : d = a \o b
  OBVIOUS
<1>3. d \in Seq(S) /\ Len(d) = Len(a) + Len(b)
      /\ \A i \in 1 .. Len(a) + Len(b) : d[i] = IF i <= Len(a) THEN a[i] ELSE b[i - Len(a)]
  BY <1>1, <1>d, ConcatProperties
<1>4. Len(d) = 2 /\ \A i \in 1 .. 2 : d[i] = IF i <= 1 THEN a[i] ELSE b[i - 1]
  BY <1>1, <1>3
<1>5. d[1] = a[1] /\ d[2] = b[1]
  BY <1>4
<1>6. \A i \in 1 .. 2 : d[i] = c[i]
  <2>1. \A i \in 1 .. 2 : i = 1 \/ i = 2
    OBVIOUS
  <2>. QED BY <1>1, <1>2, <1>5, <2>1
<1>7. d = c
  BY <1>2, <1>3, <1>4, <1>6
<1>. QED BY <1>p, <1>d, <1>7

(* A call is begun, or begun again.                                        *)
LEMMA TwoTasks ==
  ASSUME NEW j \in AdoptTask, NEW k \in LastTask, j.n = 1 => k.do = "extract"
  PROVE  /\ <<j, k>> \in Seq(TaskType) /\ Shape(<<j, k>>, None) /\ Len(<<j, k>>) = 2
         /\ Once(Carried(<<j, k>>)) /\ Among(Carried(<<j, k>>)) = {} /\ NDefer(<<j, k>>) = 0
<1>1. j \in TaskType /\ k \in TaskType
  BY DEF TaskType
<1>2. /\ j.do = "adopt" /\ k.do # "adopt" /\ k.do # "defer"
      /\ TaskPieces(j) = <<>> /\ TaskPieces(k) = <<>>
  BY <1>1, TaskIs
<1>p. PICK a, b : a = <<j>> /\ b = <<k>>
  OBVIOUS
<1>3. /\ a \in Seq(TaskType) /\ b \in Seq(TaskType)
      /\ Among(Carried(a)) = {} /\ Among(Carried(b)) = {}
      /\ Once(Carried(a)) /\ Once(Carried(b)) /\ NDefer(a) = 0 /\ NDefer(b) = 0
  BY <1>1, <1>2, <1>p, CallOne, NoneInEmpty
<1>4. /\ a \o b \in Seq(TaskType) /\ Among(Carried(a \o b)) = {} /\ Once(Carried(a \o b))
      /\ NDefer(a \o b) = 0
  BY <1>3, CallJoin
<1>5. a \o b = <<j, k>>
  BY <1>p, <1>1, PairIs
<1>6. Shape(<<j, k>>, None)
  BY <1>2 DEF Shape
<1>. QED
  BY <1>4, <1>5, <1>6

(* A call begins: deferred spans are adopted first, then k is done.        *)
LEMMA BeginKeeps ==
  ASSUME Inv, Limited, NEW t \in Thread, Empty(t), NEW h \in DOMAIN heap, finalized = "no",
         NEW j \in AdoptTask, NEW k \in LastTask, j.n = 1 => k.do = "extract",
         at' = [at EXCEPT ![t] = h], todo' = [todo EXCEPT ![t] = <<j, k>>],
         UNCHANGED <<remaining, heap, global, overflow, used, mine, got, finalized>>,
         orphans' \in Seq(Heap), ToSet(orphans') \subseteq ToSet(orphans)
  PROVE  Inv' /\ Limited'
<1>n. PICK n \in 1 .. LargeCount : n = 1
  BY CountIs
<1>q. PICK q : q = <<j, k>>
  OBVIOUS
<1>1. /\ q \in Seq(TaskType) /\ Shape(q, None) /\ Once(Carried(q)) /\ Among(Carried(q)) = {}
      /\ NDefer(q) = 0
  BY <1>q, TwoTasks
<1>2. Turn(t, h, n, heap[h], q, None, h, mine[t])
  BY <1>q DEF Empty, Turn, Inv, TypeOK
<1>3. Caches(n, global[n], overflow[n]) /\ QueueGood(global[n]) /\ QueueGood(overflow[n])
  BY CachesStay
<1>4. HeapGood(heap[h]) /\ h \in Heap
  BY HeapHas DEF HeapGood
<1>5. CallGood(q, None, h)
  BY <1>1, <1>4 DEF CallGood
<1>6. UseGood(used')
  BY UseStays
<1>7. MineGood(mine[t], orphans')
  BY DEF MineGood, Inv, TypeOK, HeapsOK
<1>8. PlacesGood(t, h, n, heap[h], q, None, used', global[n], overflow[n], remaining', {}, {})
  BY <1>1, GroupsApart, MemoryHas DEF Empty, Before, One, InUse, PlacesGood
<1>9. CountGood(t, h, heap[h], q, h, used')
  BY <1>1 DEF CountGood, Empty, Balance
<1>10. Inv'
  BY <1>2, <1>3, <1>4, <1>5, <1>6, <1>7, <1>8, <1>9, TurnKeeps
<1>11. Limited'
  BY DEF Limited
<1>. QED
  BY <1>10, <1>11
---------------------------------------------------------------------------
(* The first task of such a call.                                          *)
LEMMA AdoptIsTask ==
  ASSUME NEW n \in {0, 1}
  PROVE  Task("adopt", n, <<>>) \in AdoptTask /\ Task("adopt", n, <<>>).n = n
  BY DEF Task, AdoptTask, Tasks

(* The last tasks of a call.                                               *)
LEMMA EndIsTask ==
  /\ Task("own", 0, <<>>) \in LastTask /\ Task("release", 0, <<>>) \in LastTask
  /\ \A n \in Nat \ {0} : Task("map huge", n, <<>>) \in LastTask
  /\ \A n, b \in 1 .. LargeCount, kind \in {"small", "large"} :
       /\ [Task("extract", n, <<>>) EXCEPT !.slot = b, !.keep = kind] \in LastTask
       /\ [Task("extract", n, <<>>) EXCEPT !.slot = b, !.keep = kind].do = "extract"
  BY DEF Task, LastTask, Tasks

(* A call that begins by adopting deferred spans.                          *)
LEMMA AdoptZero ==
  /\ Task("adopt", 0, <<>>) \in AdoptTask
  /\ Task("adopt", 0, <<>>).n = 1 => Task("own", 0, <<>>).do = "extract"
  /\ Task("adopt", 0, <<>>).n = 1 => Task("release", 0, <<>>).do = "extract"
  /\ \A n \in Nat : Task("adopt", 0, <<>>).n = 1 => Task("map huge", n, <<>>).do = "extract"
  BY DEF Task, AdoptTask, Tasks

(* rpmalloc_thread_initialize() that finds an orphan                       *)
LEMMA InitOrphanKeeps ==
  ASSUME Inv, Limited, NEW t \in Thread, ThreadInit(t), orphans # <<>>
  PROVE  Inv' /\ Limited'
<1>1. Empty(t) /\ finalized = "no"
  BY IdleIs DEF ThreadInit
<1>h. PICK h : h = Head(orphans)
  OBVIOUS
<1>2. orphans \in Seq(Heap) /\ ToSet(orphans) \subseteq DOMAIN heap
  BY <1>1 DEF Inv, TypeOK, HeapsOK
<1>3. /\ h \in DOMAIN heap /\ Tail(orphans) \in Seq(Heap)
      /\ ToSet(Tail(orphans)) \subseteq ToSet(orphans)
  BY <1>2, <1>h, HeadIs
<1>4. /\ at' = [at EXCEPT ![t] = h] /\ orphans' = Tail(orphans)
      /\ todo' = [todo EXCEPT ![t] = <<Task("adopt", 0, <<>>), Task("own", 0, <<>>)>>]
      /\ UNCHANGED <<remaining, heap, global, overflow, used, mine, got, finalized>>
  BY <1>h DEF ThreadInit
<1>5. /\ Task("adopt", 0, <<>>) \in AdoptTask
      /\ Task("adopt", 0, <<>>).n = 1 => Task("own", 0, <<>>).do = "extract"
      /\ Task("own", 0, <<>>) \in LastTask
  BY AdoptZero, EndIsTask
<1>. QED
  BY <1>1, <1>3, <1>4, <1>5, BeginKeeps

(* rpmalloc_thread_finalize()                                              *)
LEMMA ThreadFinalizeKeeps ==
  ASSUME Inv, Limited, NEW t \in Thread, ThreadFinalize(t)
  PROVE  Inv' /\ Limited'
  BY AdoptZero, BeginKeeps, EndIsTask, IdleIs DEF ThreadFinalize, Inv, HeapsOK, memory, TypeOK
---------------------------------------------------------------------------
(* A thread becomes the owner of a heap, or gives it up: its call is over. *)
LEMMA OwnerIs ==
  ASSUME NEW ht \in HeapType, Once(Slots(ht)), NEW o \in Thread \cup {None}
  PROVE  /\ HeapGood([ht EXCEPT !.owner = o]) /\ Slots([ht EXCEPT !.owner = o]) = Slots(ht)
         /\ [ht EXCEPT !.owner = o].busy = ht.busy
         /\ [ht EXCEPT !.owner = o].deferred = ht.deferred
  BY SameSlots DEF HeapType, HeapGood

(* What a thread has when its call is over.                                *)
LEMMA OverIs ==
  /\ <<>> \in Seq(TaskType) /\ Shape(<<>>, None) /\ Once(Carried(<<>>))
  /\ Among(Carried(<<>>)) = {} /\ NDefer(<<>>) = 0 /\ One(None) = {}
  BY CallNone DEF Shape, One

(* A heap gets or loses its owner, at the end of a call.                   *)
LEMMA OwnerKeeps ==
  ASSUME Inv, Limited, NEW t \in Thread, todo[t] # <<>>, Empty(t), NEW o \in Thread \cup {None},
         NEW m, heap' = [heap EXCEPT ![at[t]].owner = o], todo' = [todo EXCEPT ![t] = <<>>],
         mine' = [mine EXCEPT ![t] = m], MineGood(m, orphans'),
         UNCHANGED <<remaining, global, overflow, used, at, got, finalized>>
  PROVE  Inv' /\ Limited'
<1>h. PICK h \in DOMAIN heap : h = at[t]
  BY CallHas
<1>o. PICK ht : ht = heap[h]
  OBVIOUS
<1>n. PICK new : new = [ht EXCEPT !.owner = o]
  OBVIOUS
<1>1. ht \in HeapType /\ Once(Slots(ht))
  BY <1>o, HeapHas
<1>2. HeapGood(new) /\ Slots(new) = Slots(ht) /\ new.busy = ht.busy /\ new.deferred = ht.deferred
  BY <1>1, <1>n, OwnerIs
<1>3. LocalTurn(t, new, <<>>, None)
  BY <1>h, <1>n, <1>o DEF Empty, Inv, TypeOK, LocalTurn
<1>4. LocalPlaces(t, new, <<>>, None, remaining', {}, {})
  BY <1>h, <1>o, <1>2, MemoryHas, OverIs DEF Empty, LocalPlaces
<1>5. Level(heap[at[t]], NDefer(todo[t]), new, NDefer(<<>>))
  BY <1>h, <1>o, <1>2, OverIs DEF Empty, Level
<1>6. Inv'
  BY <1>2, <1>3, <1>4, <1>5, OverIs, LocalKeeps
<1>7. Limited'
  BY DEF Limited
<1>. QED
  BY <1>6, <1>7

(* set_thread_heap()                                                       *)
LEMMA OwnKeeps ==
  ASSUME Inv, Limited, NEW t \in Thread, Own(t), UNCHANGED calls
  PROVE  Inv' /\ Limited'
<1>1. todo[t] # <<>> /\ Now(t).do = "own"
  BY DEF Own, Doing, Now
<1>2. Now(t) \in LastTask /\ Now(t).do # "extract"
  BY <1>1, TaskNow, TaskIs
<1>3. Empty(t) /\ Rest(t) = <<>>
  BY <1>1, <1>2, LastIsLast
<1>4. at[t] \in DOMAIN heap /\ finalized = "no" /\ at[t] \in Heap
  BY <1>1, CallHas, HeapHas
<1>5. todo' = [todo EXCEPT ![t] = <<>>]
  <2>1. todo' = [todo EXCEPT ![t] = <<>> \o Rest(t)]
    BY DEF Own, Then, Rest
  <2>2. <<>> \o Rest(t) = <<>>
    BY <1>3
  <2>. QED
    BY <2>1, <2>2
<1>6. /\ heap' = [heap EXCEPT ![at[t]].owner = t] /\ mine' = [mine EXCEPT ![t] = at[t]]
      /\ orphans' = orphans
      /\ UNCHANGED <<remaining, global, overflow, used, at, got, finalized>>
  BY DEF Own
<1>7. MineGood(at[t], orphans')
  BY <1>4, <1>6 DEF MineGood, Inv, TypeOK, HeapsOK
<1>. QED
  BY <1>1, <1>3, <1>5, <1>6, <1>7, OwnerKeeps
---------------------------------------------------------------------------
(* _rpmalloc_heap_release(), a cache handed over                           *)
LEMMA FullCache ==
  ASSUME NEW ht \in HeapType,
         NEW full, full = {n \in DOMAIN ht.cache : ht.cache[n] # <<>>}, full # {}
  PROVE  Min(full) \in 1 .. LargeCount /\ ht.cache[Min(full)] # <<>>
<1>1. full \subseteq 1 .. LargeCount
  BY HeapIs
<1>2. full \in SUBSET Nat
  BY <1>1, CountIs
<1>3. \E x \in full : \A y \in full : x <= y
  BY <1>2, LeastOf
<1>4. Min(full) \in full
  BY <1>3 DEF Min
<1>. QED
  BY <1>1, <1>4

(* The task of handing a cache over to the global one.                     *)
LEMMA InsertTask ==
  ASSUME NEW n \in 1 .. LargeCount, NEW ps \in Seq(CachedType), IsInjective(ps)
  PROVE  LET w == <<Task("global insert", n, ps)>>
         IN  /\ w \in Seq(WorkTask) /\ Once(Carried(w)) /\ NDefer(w) = 0
             /\ Among(Carried(w)) = ToSet(ps)
<1>k. PICK k : k = Task("global insert", n, ps)
  OBVIOUS
<1>1. k \in WorkTask /\ k.do = "global insert" /\ k.ps = ps
  BY <1>k DEF Task, WorkTask, Tasks
<1>2. TaskPieces(k) = ps
  BY <1>1, TaskIs DEF TaskType
<1>. QED
  BY <1>1, <1>2, <1>k, WorkOne

(* A heap without its cache of n spans.                                    *)
LEMMA EmptyCache ==
  ASSUME NEW ht \in HeapType, Once(Slots(ht)), NEW n \in 1 .. LargeCount
  PROVE  LET new == [ht EXCEPT !.cache[n] = <<>>]
         IN  /\ HeapGood(new) /\ Among(Slots(new)) = Among(Slots(ht)) \ ToSet(ht.cache[n])
             /\ new.busy = ht.busy /\ new.deferred = ht.deferred
<1>n. PICK new : new = [ht EXCEPT !.cache[n] = <<>>]
  OBVIOUS
<1>1. <<>> \in Seq(CachedType)
  OBVIOUS
<1>2. /\ new \in HeapType /\ new.cache = [ht.cache EXCEPT ![n] = <<>>] /\ new.class = ht.class
      /\ new.reserve = ht.reserve /\ new.deferred = ht.deferred /\ new.busy = ht.busy
  BY <1>1, <1>n, HeapIs DEF HeapType
<1>3. ht.cache \in [1 .. LargeCount -> Seq(CachedType)]
  BY HeapIs
<1>4. ButCache(ht, new, n) /\ new.cache[n] = <<>>
  BY <1>2, <1>3 DEF ButCache
<1>5. /\ Once(Slots(new))
      /\ Among(Slots(new)) = (Among(Slots(ht)) \ ToSet(ht.cache[n])) \cup ToSet(new.cache[n])
  BY <1>4, NoneInEmpty, SetCache
<1>6. Among(Slots(new)) = Among(Slots(ht)) \ ToSet(ht.cache[n])
  BY <1>4, <1>5, NoneInEmpty
<1>. QED
  BY <1>2, <1>5, <1>6, <1>n DEF HeapGood

(* _rpmalloc_heap_release()                                                *)
LEMMA ReleaseKeeps ==
  ASSUME Inv, Limited, NEW t \in Thread, ThreadRelease(t)
  PROVE  Inv' /\ Limited'
<1>1. todo[t] # <<>> /\ Now(t).do = "release"
  BY DEF ThreadRelease, Doing, Now
<1>2. Now(t) \in LastTask /\ Now(t).do # "extract"
  BY <1>1, TaskNow, TaskIs
<1>3. Empty(t) /\ Rest(t) = <<>> /\ got[t] = None /\ InThread(t) = {} /\ NDefer(todo[t]) = 0
  BY <1>1, <1>2, LastIsLast DEF Empty
<1>h. PICK h \in DOMAIN heap : h = at[t]
  BY <1>1, CallHas
<1>o. PICK ht : ht = heap[h]
  OBVIOUS
<1>4. ht \in HeapType /\ Once(Slots(ht)) /\ h \in Heap
  BY <1>o, HeapHas
<1>f. PICK full : full = {n \in DOMAIN ht.cache : ht.cache[n] # <<>>}
  OBVIOUS
<1>5. UNCHANGED <<remaining, global, overflow, used, at, got, finalized>>
  BY DEF ThreadRelease
<1>6. CASE full # {}
  <2>n. PICK n \in 1 .. LargeCount : n = Min(full)
    BY <1>4, <1>6, <1>f, FullCache
  <2>s. PICK ps : ps = ht.cache[n]
    OBVIOUS
  <2>1. ps \in Seq(CachedType) /\ IsInjective(ps) /\ ToSet(ps) \subseteq Among(Slots(ht))
    BY <1>4, <2>s, HeapIs, SlotHas
  <2>w. PICK w : w = <<Task("global insert", n, ps)>>
    OBVIOUS
  <2>e. PICK new : new = [ht EXCEPT !.cache[n] = <<>>]
    OBVIOUS
  <2>b. PICK b : b = todo[t]
    OBVIOUS
  <2>q. PICK q : q = w \o b
    OBVIOUS
  <2>2. /\ heap' = [heap EXCEPT ![at[t]] = new] /\ todo' = [todo EXCEPT ![t] = q]
        /\ mine' = mine /\ orphans' = orphans
    <3>1. full = {i \in DOMAIN heap[at[t]].cache : heap[at[t]].cache[i] # <<>>}
      BY <1>f, <1>h, <1>o
    <3>2. /\ heap' = [heap EXCEPT ![at[t]].cache[Min(full)] = <<>>]
          /\ todo' = [todo EXCEPT ![t] =
               <<Task("global insert", Min(full), heap[at[t]].cache[Min(full)])>> \o @]
          /\ UNCHANGED <<mine, orphans>>
      BY <1>6, <3>1 DEF ThreadRelease
    <3>. QED
      BY <1>h, <1>o, <2>b, <2>e, <2>n, <2>q, <2>s, <2>w, <3>2
  <2>3. w \in Seq(WorkTask) /\ Once(Carried(w)) /\ NDefer(w) = 0 /\ Among(Carried(w)) = ToSet(ps)
    BY <2>1, <2>w, InsertTask
  <2>4. /\ b \in Seq(TaskType) /\ Len(b) = 1 /\ b[1].do = "release" /\ Once(Carried(b))
        /\ Among(Carried(b)) = {} /\ NDefer(b) = 0
    <3>1. b \in Seq(TaskType) /\ b # <<>> /\ Shape(b, got[t]) /\ Head(b) \in LastTask
          /\ Once(Carried(b)) /\ Head(b).do = "release"
      BY <1>1, <1>2, <2>b, CallHas DEF Now
    <3>2. Len(b) = 1
      BY <3>1, ShapeTail
    <3>3. b[1].do = "release"
      BY <3>1
    <3>4. Among(Carried(b)) = {} /\ NDefer(b) = 0
      BY <1>3, <2>b, CallHas
    <3>. QED
      BY <3>1, <3>2, <3>3, <3>4
  <2>5. q \in Seq(TaskType) /\ Shape(q, None)
    <3>1. \A i \in 1 .. Len(b) - 1 : b[i] \in WorkTask
      BY <2>4
    <3>2. \A i \in 1 .. Len(b) : b[i].do # "adopt"
      BY <2>4
    <3>. QED
      BY <2>3, <2>4, <2>q, <3>1, <3>2, ShapeThen
  <2>6. Once(Carried(q)) /\ Among(Carried(q)) = ToSet(ps) /\ NDefer(q) = 0
    <3>1. w \in Seq(TaskType)
      BY <2>3, WorkIs
    <3>2. /\ Among(Carried(q)) = ToSet(ps) \cup {} /\ NDefer(q) = 0 + 0
          /\ Once(Carried(q))
      BY <2>3, <2>4, <2>q, <3>1, CallJoin
    <3>. QED
      BY <3>2
  <2>7. /\ HeapGood(new) /\ Among(Slots(new)) = Among(Slots(ht)) \ ToSet(ps)
        /\ new.busy = ht.busy /\ new.deferred = ht.deferred
    BY <1>4, <2>e, <2>s, EmptyCache
  <2>8. LocalTurn(t, new, q, None)
    BY <1>3, <1>5, <2>2 DEF Inv, TypeOK, LocalTurn
  <2>9. LocalPlaces(t, new, q, None, remaining', {}, {})
    BY <1>h, <1>o, <1>3, <1>5, <2>1, <2>6, <2>7, MemoryHas DEF LocalPlaces, One
  <2>10. Level(heap[at[t]], NDefer(todo[t]), new, NDefer(q))
    BY <1>3, <1>h, <1>o, <2>6, <2>7 DEF Level
  <2>11. mine' = [mine EXCEPT ![t] = mine[t]] /\ MineGood(mine[t], orphans')
    BY <2>2, MineStays DEF Inv, TypeOK
  <2>12. Inv'
    BY <1>1, <2>5, <2>6, <2>7, <2>8, <2>9, <2>10, <2>11, LocalKeeps
  <2>13. Limited'
    BY <1>5 DEF Limited
  <2>. QED
    BY <2>12, <2>13
<1>7. CASE full = {}
  <2>1. /\ mine' = [mine EXCEPT ![t] = None] /\ heap' = [heap EXCEPT ![at[t]].owner = None]
        /\ orphans' = <<at[t]>> \o orphans /\ todo' = [todo EXCEPT ![t] = <<>> \o Rest(t)]
    BY <1>f, <1>h, <1>o, <1>7 DEF ThreadRelease, Then, Rest
  <2>2. todo' = [todo EXCEPT ![t] = <<>>]
    BY <1>3, <2>1
  <2>3. MineGood(None, orphans')
    BY <1>h, <1>1, <1>4, <2>1, CallHas, ConsIs DEF Inv, TypeOK, HeapsOK, MineGood
  <2>. QED
    BY <1>1, <1>3, <1>5, <2>1, <2>2, <2>3, OwnerKeeps
<1>. QED
  BY <1>6, <1>7
---------------------------------------------------------------------------
(* The end of an allocation: p is the program's.                           *)
GivePlaces(t, h, n, p, ht, gl, ov, rem, Out, New) ==
  /\ p \notin Among(Slots(ht)) \cup ToSet(gl) \cup ToSet(ov)
  /\ Among(Slots(ht)) \cap ToSet(gl) = {} /\ Among(Slots(ht)) \cap ToSet(ov) = {}
  /\ ToSet(gl) \cap ToSet(ov) = {}
  /\ Among(Slots(ht)) \cup {p} \cup ToSet(gl) \cup ToSet(ov)
       = ((Among(Slots(heap[h])) \cup InThread(t) \cup ToSet(global[n]) \cup ToSet(overflow[n]))
            \ Out) \cup New
  /\ Out \subseteq Among(Slots(heap[h])) \cup InThread(t) \cup ToSet(global[n])
                     \cup ToSet(overflow[n])
  /\ New \cap Union(Group) = {}
  /\ RemOK(rem) /\ Accounted(rem, (Union(Group) \ Out) \cup New)

Given(ht, old) == HeapGood(ht) /\ ht.busy = old.busy /\ ht.deferred = old.deferred

(* One more span in use.                                                   *)
LEMMA OneMore ==
  ASSUME NEW b \in Int, NEW c \in Nat, NEW l \in Nat
  PROVE  (b + 1) + c + l + 0 = b + (c + 1) + l + 0
  OBVIOUS

(* The spans in use of a heap, with one more.                              *)
LEMMA UseCounts ==
  ASSUME Inv, NEW h \in Heap, NEW u, u.h = h, u \notin used
  PROVE  /\ Cardinality(UsedOf(used, h)) \in Nat
         /\ Cardinality(UsedOf(used \cup {u}, h)) = Cardinality(UsedOf(used, h)) + 1
         /\ \A k : k # h => UsedOf(used \cup {u}, k) = UsedOf(used, k)
<1>1. IsFiniteSet(used)
  BY MemoryHas
<1>2. IsFiniteSet(UsedOf(used, h)) /\ Cardinality(UsedOf(used, h)) \in Nat
  BY <1>1, FS_Subset, FS_CardinalityType DEF UsedOf
<1>3. UsedOf(used \cup {u}, h) = UsedOf(used, h) \cup {u} /\ u \notin UsedOf(used, h)
  BY DEF UsedOf
<1>4. Cardinality(UsedOf(used \cup {u}, h)) = Cardinality(UsedOf(used, h)) + 1
  BY <1>2, <1>3, FS_AddElement
<1>5. \A k : k # h => UsedOf(used \cup {u}, k) = UsedOf(used, k)
  BY DEF UsedOf
<1>. QED
  BY <1>2, <1>4, <1>5

(* An allocation ends: p leaves its place and is the program's.            *)
LEMMA GiveKeeps ==
  ASSUME Inv, NEW t \in Thread, NEW h \in DOMAIN heap, NEW n \in 1 .. LargeCount,
         NEW p, NEW kind, Use(p, h, kind) \in UseType, NEW ht, Given(ht, heap[h]),
         Give(t, h, p, kind, ht), NEW gl, NEW ov, Caches(n, gl, ov), QueueGood(gl), QueueGood(ov),
         NDefer(todo[t]) = 0, at' = [at EXCEPT ![t] = h], UNCHANGED <<orphans, mine, finalized>>,
         NEW Out, NEW New, GivePlaces(t, h, n, p, ht, gl, ov, remaining', Out, New)
  PROVE  Inv'
<1>u. PICK u : u = Use(p, h, kind)
  OBVIOUS
<1>1. u \in UseType /\ u.p = p /\ u.h = h
  BY <1>u DEF Use
<1>b. PICK new : new = [ht EXCEPT !.busy = @ + 1]
  OBVIOUS
<1>2. ht \in HeapType /\ Once(Slots(ht)) /\ ht.busy \in Int /\ heap[h] \in HeapType /\ h \in Heap
  BY HeapIs, HeapHas DEF Given, HeapGood
<1>3. /\ new \in HeapType /\ new.deferred = ht.deferred /\ new.busy = ht.busy + 1
      /\ Slots(new) = Slots(ht)
  BY <1>b, <1>2, SetBusy DEF SameBut
<1>4. Turn(t, h, n, new, <<>>, None, h, mine[t]) /\ used' = used \cup {u}
  BY <1>b, <1>u DEF Inv, TypeOK, Give, Turn
<1>5. HeapGood(new)
  BY <1>2, <1>3 DEF HeapGood
<1>6. CallGood(<<>>, None, h)
  BY <1>2, OverIs DEF CallGood
<1>7. MineGood(mine[t], orphans')
  BY MineStays
<1>p. PICK A, T, U, X, Y, S, X2, Y2 :
        /\ A = Among(Slots(heap[h])) /\ T = InThread(t) /\ U = InUse /\ X = ToSet(global[n])
        /\ Y = ToSet(overflow[n]) /\ S = Among(Slots(ht)) /\ X2 = ToSet(gl) /\ Y2 = ToSet(ov)
  OBVIOUS
<1>8. Apart(A, T, U, X, Y) /\ A \cup T \cup U \cup X \cup Y \subseteq Union(Group)
      /\ Before(t, h, n) = A \cup T \cup U \cup X \cup Y
  BY <1>p, GroupsApart DEF Before
<1>9. /\ p \notin S \cup X2 \cup Y2 /\ S \cap X2 = {} /\ S \cap Y2 = {} /\ X2 \cap Y2 = {}
      /\ S \cup {p} \cup X2 \cup Y2 = ((A \cup T \cup X \cup Y) \ Out) \cup New
      /\ Out \subseteq A \cup T \cup X \cup Y /\ New \cap Union(Group) = {}
      /\ RemOK(remaining') /\ Accounted(remaining', (Union(Group) \ Out) \cup New)
  BY <1>p DEF GivePlaces
<1>10. U \cap (A \cup T \cup X \cup Y) = {} /\ U \cap New = {}
  BY <1>8, <1>9 DEF Apart
<1>11. U \cap (S \cup {p} \cup X2 \cup Y2) = {}
  BY <1>9, <1>10
<1>12. u \notin used /\ p \notin U
  BY <1>p, <1>1, <1>11 DEF InUse
<1>13. {v.p : v \in used'} = U \cup {p}
  BY <1>1, <1>4, <1>p DEF InUse
<1>14. UseGood(used')
  BY <1>p, <1>1, <1>4, <1>12, FS_AddElement, MemoryHas DEF InUse, Inv, HeapsOK, UseGood
<1>15. PlacesGood(t, h, n, new, <<>>, None, used', gl, ov, remaining', Out, New)
  BY <1>p, <1>3, <1>8, <1>9, <1>10, <1>11, <1>13, OverIs DEF Apart, PlacesGood
<1>16. CountGood(t, h, new, <<>>, h, used')
  <2>1. /\ Cardinality(UsedOf(used, h)) \in Nat
        /\ Cardinality(UsedOf(used', h)) = Cardinality(UsedOf(used, h)) + 1
        /\ \A k : k # h => UsedOf(used', k) = UsedOf(used, k)
    BY <1>1, <1>2, <1>4, <1>12, UseCounts
  <2>2. Balance(heap[h], Cardinality(UsedOf(used, h)), 0, new, Cardinality(UsedOf(used', h)), 0)
    <3>1. PICK c \in Nat : c = Cardinality(UsedOf(used, h))
      BY <2>1
    <3>2. PICK l \in Nat : l = Len(heap[h].deferred)
      BY <1>2, HeapIs, SeqIs
    <3>3. PICK b \in Int : b = heap[h].busy
      BY <1>2, HeapIs
    <3>4. new.busy = b + 1 /\ Len(new.deferred) = l
      BY <1>3, <3>2, <3>3 DEF Given
    <3>5. (b + 1) + c + l + 0 = b + (c + 1) + l + 0
      BY OneMore
    <3>. QED
      BY <2>1, <3>1, <3>2, <3>3, <3>4, <3>5 DEF Balance
  <2>. QED
    BY <2>1, <2>2, OverIs DEF CountGood
<1>. QED
  BY <1>4, <1>5, <1>6, <1>7, <1>14, <1>15, <1>16, TurnKeeps
---------------------------------------------------------------------------
(* An allocation that leaves the global caches alone.                      *)
OwnPlaces(t, h, p, ht, rem, Out, New) ==
  /\ p \notin Among(Slots(ht))
  /\ Among(Slots(ht)) \cup {p} = ((Among(Slots(heap[h])) \cup InThread(t)) \ Out) \cup New
  /\ Out \subseteq Among(Slots(heap[h])) \cup InThread(t) /\ New \cap Union(Group) = {}
  /\ RemOK(rem) /\ Accounted(rem, (Union(Group) \ Out) \cup New)

(* An allocation ends that leaves the global caches alone.                 *)
LEMMA GiveOwn ==
  ASSUME Inv, Limited, NEW t \in Thread, NEW h \in DOMAIN heap,
         NEW p, NEW kind, Use(p, h, kind) \in UseType, NEW ht, Given(ht, heap[h]),
         Give(t, h, p, kind, ht), NDefer(todo[t]) = 0, at' = [at EXCEPT ![t] = h],
         UNCHANGED <<global, overflow, orphans, mine, finalized>>,
         NEW Out, NEW New, OwnPlaces(t, h, p, ht, remaining', Out, New)
  PROVE  Inv' /\ Limited'
<1>n. PICK n \in 1 .. LargeCount : n = 1
  BY CountIs
<1>1. Caches(n, global[n], overflow[n]) /\ QueueGood(global[n]) /\ QueueGood(overflow[n])
  BY CachesStay
<1>2. GivePlaces(t, h, n, p, ht, global[n], overflow[n], remaining', Out, New)
  BY GroupsApart DEF Before, OwnPlaces, Apart, GivePlaces
<1>3. Inv'
  BY <1>1, <1>2, GiveKeeps
<1>4. Limited'
  BY DEF Limited
<1>. QED
  BY <1>3, <1>4

(* The heap without the last of a cache, and without the class's span.     *)
Without(new, ht, p) ==
  Given(new, ht) /\ p \notin Among(Slots(new)) /\ Among(Slots(new)) \cup {p} = Among(Slots(ht))

(* The last span of a thread cache leaves the heap.                        *)
LEMMA WithoutLast ==
  ASSUME NEW ht \in HeapType, Once(Slots(ht)), NEW n \in 1 .. LargeCount, ht.cache[n] # <<>>
  PROVE  /\ Last(ht.cache[n]) \in CachedType
         /\ Without([ht EXCEPT !.cache[n] = Front(@)], ht, Last(ht.cache[n]))
<1>c. PICK c : c = ht.cache[n]
  OBVIOUS
<1>p. PICK p, f : p = Last(c) /\ f = Front(c)
  OBVIOUS
<1>n. PICK new : new = [ht EXCEPT !.cache[n] = f]
  OBVIOUS
<1>1. c \in Seq(CachedType) /\ c # <<>> /\ IsInjective(c) /\ ToSet(c) \subseteq Among(Slots(ht))
  BY <1>c, HeapIs, SlotHas
<1>2. /\ p \in CachedType /\ p \in ToSet(c) /\ f \in Seq(CachedType) /\ IsInjective(f)
      /\ ToSet(f) = ToSet(c) \ {p}
  BY <1>1, <1>p, LastIs
<1>3. /\ new \in HeapType /\ new.cache = [ht.cache EXCEPT ![n] = f] /\ new.class = ht.class
      /\ new.reserve = ht.reserve /\ new.deferred = ht.deferred /\ new.busy = ht.busy
  BY <1>2, <1>n, HeapIs DEF HeapType
<1>4. ButCache(ht, new, n) /\ new.cache[n] = f
  BY <1>3, HeapIs DEF ButCache
<1>5. /\ Once(Slots(new))
      /\ Among(Slots(new)) = (Among(Slots(ht)) \ ToSet(c)) \cup ToSet(f)
  BY <1>c, <1>2, <1>4, SetCache
<1>6. Without(new, ht, p)
  BY <1>1, <1>2, <1>3, <1>5 DEF Without, Given, HeapGood
<1>. QED
  BY <1>2, <1>6, <1>c, <1>n, <1>p

(* The active span of the class leaves the heap.                           *)
LEMMA WithoutClass ==
  ASSUME NEW ht \in HeapType, Once(Slots(ht)), ht.class # None
  PROVE  ht.class \in CachedType /\ Without([ht EXCEPT !.class = None], ht, ht.class)
<1>n. PICK new : new = [ht EXCEPT !.class = None]
  OBVIOUS
<1>p. PICK p : p = ht.class
  OBVIOUS
<1>1. /\ new \in HeapType /\ new.cache = ht.cache /\ new.class = None
      /\ new.reserve = ht.reserve /\ new.deferred = ht.deferred /\ new.busy = ht.busy
      /\ p \in CachedType /\ One(ht.class) = {p} /\ One(new.class) = {}
  BY <1>n, <1>p DEF HeapType, One
<1>2. ButClass(ht, new)
  BY <1>1 DEF ButClass
<1>3. Once(Slots(new)) /\ Among(Slots(new)) = (Among(Slots(ht)) \ {p}) \cup {}
  <2>1. One(new.class) \cap (Among(Slots(ht)) \ One(ht.class)) = {}
    BY <1>1
  <2>. QED
    BY <1>1, <1>2, <2>1, SetClass
<1>4. p \in Among(Slots(ht))
  BY <1>1, SlotHas
<1>5. p \notin Among(Slots(new)) /\ Among(Slots(new)) \cup {p} = Among(Slots(ht))
  BY <1>3, <1>4
<1>. QED
  BY <1>1, <1>3, <1>5, <1>n, <1>p DEF Without, Given, HeapGood

(* The active span of the class comes from the thread cache.               *)
LEMMA RefillClass ==
  ASSUME NEW ht \in HeapType, Once(Slots(ht)), ht.class = None,
         NEW n \in 1 .. LargeCount, ht.cache[n] # <<>>
  PROVE  LET new == [ht EXCEPT !.class = Last(ht.cache[n]), !.cache[n] = Front(@)]
         IN  Given(new, ht) /\ Among(Slots(new)) = Among(Slots(ht))
<1>c. PICK c : c = ht.cache[n]
  OBVIOUS
<1>p. PICK p, f : p = Last(c) /\ f = Front(c)
  OBVIOUS
<1>m. PICK mid : mid = [ht EXCEPT !.cache[n] = f]
  OBVIOUS
<1>n. PICK new : new = [ht EXCEPT !.class = p, !.cache[n] = f]
  OBVIOUS
<1>1. p \in CachedType /\ Without(mid, ht, p)
  BY <1>c, <1>m, <1>p, WithoutLast
<1>2. c \in Seq(CachedType) /\ c # <<>> /\ IsInjective(c)
  BY <1>c, HeapIs, SlotHas
<1>3. f \in Seq(CachedType)
  BY <1>2, <1>p, LastIs
<1>4. /\ mid \in HeapType /\ mid.cache = [ht.cache EXCEPT ![n] = f] /\ mid.class = None
      /\ mid.reserve = ht.reserve /\ mid.deferred = ht.deferred /\ mid.busy = ht.busy
  BY <1>3, <1>m, HeapIs DEF HeapType
<1>5. /\ new \in HeapType /\ new.cache = [ht.cache EXCEPT ![n] = f] /\ new.class = p
      /\ new.reserve = ht.reserve /\ new.deferred = ht.deferred /\ new.busy = ht.busy
  BY ZenonT(60), <1>1, <1>3, <1>n, HeapIs DEF HeapType
<1>6. ButClass(mid, new)
  BY <1>4, <1>5 DEF ButClass
<1>7. One(mid.class) = {} /\ One(new.class) = {p}
  BY <1>1, <1>4, <1>5, CachedIs DEF One
<1>8. /\ Once(Slots(mid)) /\ p \notin Among(Slots(mid))
      /\ Among(Slots(mid)) \cup {p} = Among(Slots(ht))
  BY <1>1 DEF Without, Given, HeapGood
<1>9. Once(Slots(new)) /\ Among(Slots(new)) = (Among(Slots(mid)) \ {}) \cup {p}
  BY <1>6, <1>7, <1>8, SetClass
<1>10. Among(Slots(new)) = Among(Slots(ht))
  BY <1>8, <1>9
<1>. QED
  BY <1>5, <1>9, <1>10, <1>c, <1>n, <1>p DEF Given, HeapGood
---------------------------------------------------------------------------
(* What the program gets has the type of its kind.                         *)
LEMMA UseTyped ==
  ASSUME NEW h \in Heap, NEW p
  PROVE  /\ p \in CachedType => /\ Use(p, h, "small") \in UseType
                                /\ Use(p, h, "large") \in UseType
         /\ p \in PieceType => Use(p, h, "huge") \in UseType
  BY DEF Use, UseType

(* A piece is taken from the heap's own caches.                            *)
LEMMA GiveFromHeap ==
  ASSUME Inv, Limited, NEW t \in Thread, Empty(t), NEW h \in DOMAIN heap,
         NEW p \in CachedType, NEW kind \in {"small", "large"}, NEW ht, Without(ht, heap[h], p),
         Give(t, h, p, kind, ht), at' = [at EXCEPT ![t] = h],
         UNCHANGED <<remaining, global, overflow, orphans, mine, finalized>>
  PROVE  Inv' /\ Limited'
<1>1. Use(p, h, kind) \in UseType
  BY HeapHas, UseTyped
<1>2. Given(ht, heap[h])
  BY DEF Without
<1>3. OwnPlaces(t, h, p, ht, remaining', {}, {})
  BY MemoryHas DEF Without, Empty, OwnPlaces
<1>4. NDefer(todo[t]) = 0
  BY DEF Empty
<1>. QED
  BY <1>1, <1>2, <1>3, <1>4, GiveOwn

(* The thread cache of n spans is looked at, before the deferred list and  *)
(* the global cache.                                                       *)
LEMMA LookKeeps ==
  ASSUME Inv, Limited, NEW t \in Thread, Empty(t), finalized = "no", NEW h \in DOMAIN heap,
         NEW n \in 1 .. LargeCount, NEW base \in 1 .. LargeCount, NEW kind \in {"small", "large"},
         Look(t, h, heap[h], n, base, kind), at' = [at EXCEPT ![t] = h],
         UNCHANGED <<remaining, global, overflow, orphans, mine, finalized>>
  PROVE  Inv' /\ Limited'
<1>o. PICK ht : ht = heap[h]
  OBVIOUS
<1>1. ht \in HeapType /\ Once(Slots(ht))
  BY <1>o, HeapHas
<1>2. CASE ht.cache[n] # <<>>
  BY <1>o, <1>1, <1>2, GiveFromHeap, WithoutLast DEF Look
<1>3. CASE ht.cache[n] = <<>>
  <2>j. PICK m \in {0, 1} : m = IF n = 1 THEN 1 ELSE 0
    OBVIOUS
  <2>p. PICK j, k : /\ j = Task("adopt", m, <<>>)
                    /\ k = [Task("extract", n, <<>>) EXCEPT !.slot = base, !.keep = kind]
    OBVIOUS
  <2>1. todo' = [todo EXCEPT ![t] = <<j, k>>] /\ UNCHANGED <<used, heap, got>>
    BY <1>3, <1>o, <2>j, <2>p DEF Look
  <2>2. j \in AdoptTask /\ k \in LastTask /\ k.do = "extract"
    BY <2>p, AdoptIsTask, EndIsTask
  <2>3. orphans' \in Seq(Heap) /\ ToSet(orphans') \subseteq ToSet(orphans)
    BY DEF Inv, TypeOK
  <2>. QED
    BY <2>1, <2>2, <2>3, BeginKeeps
<1>. QED
  BY <1>2, <1>3
---------------------------------------------------------------------------
(* The span of the class, which is refilled from the thread cache.         *)
Refilled(ht) ==
  [ht EXCEPT !.class = IF ht.cache[1] = <<>> THEN None ELSE Last(ht.cache[1]),
             !.cache[1] = IF ht.cache[1] = <<>> THEN ht.cache[1] ELSE Front(ht.cache[1])]

(* The active span leaves, and the next one of the thread cache takes its  *)
(* place.                                                                  *)
LEMMA RefilledIs ==
  ASSUME NEW ht \in HeapType, Once(Slots(ht)), ht.class # None
  PROVE  Without(Refilled(ht), ht, ht.class)
<1>p. PICK p : p = ht.class
  OBVIOUS
<1>m. PICK mid : mid = [ht EXCEPT !.class = None]
  OBVIOUS
<1>1. 1 \in 1 .. LargeCount /\ ht.cache \in [1 .. LargeCount -> Seq(CachedType)]
  BY CountIs, HeapIs
<1>2. Without(mid, ht, p) /\ p \in CachedType
  BY <1>m, <1>p, WithoutClass
<1>3. /\ mid \in HeapType /\ Once(Slots(mid)) /\ mid.class = None /\ mid.cache = ht.cache
      /\ mid.busy = ht.busy /\ mid.deferred = ht.deferred
  BY <1>2, <1>m DEF Without, Given, HeapGood, HeapType
<1>4. CASE ht.cache[1] = <<>>
  BY <1>m, <1>p, <1>1, <1>2, <1>4 DEF Refilled, HeapType
<1>5. CASE ht.cache[1] # <<>>
  <2>n. PICK new : new = [mid EXCEPT !.class = Last(mid.cache[1]), !.cache[1] = Front(@)]
    OBVIOUS
  <2>1. Given(new, mid) /\ Among(Slots(new)) = Among(Slots(mid))
    BY <1>1, <1>3, <1>5, <2>n, RefillClass
  <2>2. Refilled(ht) = new
    BY <1>3, <1>5, <1>m, <2>n DEF Refilled, HeapType
  <2>3. Without(new, ht, p)
    BY <1>2, <2>1 DEF Without, Given
  <2>. QED
    BY <1>p, <2>2, <2>3
<1>. QED
  BY <1>4, <1>5

(* rpmalloc()                                                              *)
LEMMA AllocKeeps ==
  ASSUME Inv, Limited, NEW t \in Thread, NEW r \in Requests, Alloc(t, r[1], r[2])
  PROVE  Inv' /\ Limited'
<1>k. PICK kind, n : kind = r[1] /\ n = r[2]
  OBVIOUS
<1>1. Alloc(t, kind, n)
  BY <1>k
<1>2. \/ kind = "small" /\ n = 1
      \/ kind = "large" /\ n \in 1 .. LargeCount
      \/ kind = "huge" /\ n \in Nat \ {0}
  BY <1>k, CountIs, RequestAssumption
<1>3. Empty(t) /\ finalized = "no" /\ todo[t] = <<>> /\ got[t] = None
  BY <1>1, IdleIs DEF Alloc, Idle, Empty
<1>h. PICK h \in DOMAIN heap : h = mine[t]
  BY <1>1, <1>3 DEF Alloc, Inv, HeapsOK
<1>o. PICK ht : ht = heap[h]
  OBVIOUS
<1>4. /\ at' = [at EXCEPT ![t] = h]
      /\ UNCHANGED <<remaining, orphans, global, overflow, mine, finalized>>
  BY <1>1, <1>h DEF Alloc
<1>5. ht \in HeapType /\ Once(Slots(ht))
  BY <1>o, HeapHas
<1>6. CASE kind = "small" /\ ht.class # None
  <2>1. /\ used' = used \cup {Use(ht.class, h, kind)}
        /\ heap' = [heap EXCEPT ![h] =
             [ht EXCEPT !.busy = @ + 1,
                        !.class = IF ht.cache[1] = <<>> THEN None ELSE Last(ht.cache[1]),
                        !.cache[1] = IF ht.cache[1] = <<>> THEN ht.cache[1]
                                     ELSE Front(ht.cache[1])]]
        /\ UNCHANGED <<todo, got>>
    BY <1>1, <1>6, <1>h, <1>o DEF Alloc
  <2>n. PICK new : new = Refilled(ht)
    OBVIOUS
  <2>2. Without(new, heap[h], ht.class) /\ ht.class \in CachedType
    BY <1>5, <1>6, <1>o, <2>n, RefilledIs, WithoutClass
  <2>3. [new EXCEPT !.busy = @ + 1]
          = [ht EXCEPT !.busy = @ + 1,
                       !.class = IF ht.cache[1] = <<>> THEN None ELSE Last(ht.cache[1]),
                       !.cache[1] = IF ht.cache[1] = <<>> THEN ht.cache[1] ELSE Front(ht.cache[1])]
    BY <1>5, <2>n DEF Refilled, HeapType
  <2>4. Give(t, h, ht.class, kind, new)
    BY <1>3, <2>1, <2>3 DEF Inv, TypeOK, Give
  <2>. QED
    BY <1>3, <1>4, <1>6, <2>2, <2>4, GiveFromHeap
<1>7. CASE kind = "huge"
  <2>1. /\ todo' = [todo EXCEPT ![t] = <<Task("adopt", 0, <<>>), Task("map huge", n, <<>>)>>]
        /\ UNCHANGED <<used, heap, got>>
    BY <1>1, <1>7 DEF Alloc
  <2>2. n \in Nat /\ n \in Nat \ {0}
    BY <1>2, <1>7
  <2>3. /\ Task("adopt", 0, <<>>) \in AdoptTask
        /\ (Task("adopt", 0, <<>>).n = 1 => Task("map huge", n, <<>>).do = "extract")
        /\ Task("map huge", n, <<>>) \in LastTask
    BY <2>2, AdoptZero, EndIsTask
  <2>4. orphans' \in Seq(Heap) /\ ToSet(orphans') \subseteq ToSet(orphans)
    BY <1>4 DEF Inv, TypeOK
  <2>. QED
    BY <1>3, <1>4, <2>1, <2>3, <2>4, BeginKeeps
<1>8. CASE ~(kind = "small" /\ ht.class # None) /\ kind # "huge"
  <2>1. Look(t, h, ht, n, n, kind)
    BY <1>1, <1>8, <1>h, <1>o DEF Alloc
  <2>2. n \in 1 .. LargeCount /\ kind \in {"small", "large"}
    BY <1>2, <1>8, CountIs
  <2>. QED
    BY ZenonT(60), <1>3, <1>4, <1>o, <2>1, <2>2, LookKeeps
<1>. QED
  BY <1>6, <1>7, <1>8
---------------------------------------------------------------------------
(* A call that goes on with nothing in hand, and changes nothing else.     *)
LEMMA NextKeeps ==
  ASSUME Inv, Limited, NEW t \in Thread, todo[t] # <<>>, Empty(t),
         NEW q \in Seq(TaskType), Shape(q, None), Once(Carried(q)), Among(Carried(q)) = {},
         NDefer(q) = 0, todo' = [todo EXCEPT ![t] = q],
         UNCHANGED <<remaining, heap, orphans, global, overflow, used, mine, at, got, finalized>>
  PROVE  Inv' /\ Limited'
<1>h. PICK h \in DOMAIN heap : h = at[t]
  BY CallHas
<1>1. LocalTurn(t, heap[h], q, None)
  BY <1>h DEF LocalTurn, Empty, Inv, TypeOK
<1>2. HeapGood(heap[h])
  BY HeapHas DEF HeapGood
<1>3. mine' = [mine EXCEPT ![t] = mine[t]] /\ MineGood(mine[t], orphans')
  BY MineStays DEF Inv, TypeOK
<1>4. LocalPlaces(t, heap[h], q, None, remaining', {}, {})
  BY <1>h, MemoryHas, OverIs DEF Empty, LocalPlaces
<1>5. Level(heap[at[t]], NDefer(todo[t]), heap[h], NDefer(q))
  BY <1>h DEF Level, Empty
<1>6. Inv'
  BY <1>1, <1>2, <1>3, <1>4, <1>5, LocalKeeps
<1>7. Limited'
  BY DEF Limited
<1>. QED
  BY <1>6, <1>7

(* A call of one last task.                                                *)
LEMMA OneLast ==
  ASSUME NEW k \in LastTask
  PROVE  /\ <<k>> \in Seq(TaskType) /\ Shape(<<k>>, None) /\ Once(Carried(<<k>>))
         /\ Among(Carried(<<k>>)) = {} /\ NDefer(<<k>>) = 0
<1>1. k \in TaskType
  BY DEF TaskType
<1>2. k.do # "adopt" /\ k.do # "defer" /\ TaskPieces(k) = <<>>
  BY <1>1, TaskIs
<1>3. Shape(<<k>>, None)
  BY <1>2 DEF Shape
<1>. QED
  BY <1>1, <1>2, <1>3, CallOne, NoneInEmpty
---------------------------------------------------------------------------
(* A piece is cut in two, or found to have the size that is wanted.        *)
LEMMA SpansCut ==
  ASSUME NEW r \in Nat, NEW off \in Nat, NEW n \in Nat \ {0}, NEW m \in Nat \ {0}, m < n
  PROVE  /\ Spans(Piece(r, off, m)) \cup Spans(Piece(r, off + m, n - m)) = Spans(Piece(r, off, n))
         /\ Spans(Piece(r, off, m)) \cap Spans(Piece(r, off + m, n - m)) = {}
  BY DEF Spans, Piece

CutPlaces(p, n, Old, New) ==
  \/ p.n = n /\ [p EXCEPT !.n = n] = p /\ Cut(p, n) = None /\ Old = {} /\ New = {}
  \/ /\ p.n > n /\ [p EXCEPT !.n = n] \in CachedType /\ Cut(p, n) \in CachedType
     /\ [p EXCEPT !.n = n] # Cut(p, n) /\ [p EXCEPT !.n = n] # p /\ Cut(p, n) # p
     /\ Old = {p} /\ New = {[p EXCEPT !.n = n], Cut(p, n)}

(* The spans of a piece, cut at n.                                         *)
LEMMA CutHas ==
  ASSUME NEW p \in CachedType, NEW n \in 1 .. LargeCount, n <= p.n
  PROVE  \E Old, New : CutPlaces(p, n, Old, New)
<1>1. p.n \in 1 .. LargeCount /\ p.off \in Nat /\ p.r \in Region /\ LargeCount \in Nat
  BY CountIs DEF CachedType
<1>2. CASE p.n = n
  BY <1>2 DEF Cut, CachedType, CutPlaces
<1>3. CASE p.n # n
  <2>1. p.n > n /\ p.n - n \in 1 .. LargeCount /\ p.off + n \in Nat /\ p.off + n # p.off
    BY <1>1, <1>3
  <2>2. Cut(p, n) = [r |-> p.r, off |-> p.off + n, n |-> p.n - n]
    BY <1>3 DEF Cut, Piece
  <2>3. Cut(p, n) \in CachedType
    BY <1>1, <2>1, <2>2 DEF CachedType
  <2>4. [p EXCEPT !.n = n] = [r |-> p.r, off |-> p.off, n |-> n]
    BY DEF CachedType
  <2>5. [p EXCEPT !.n = n] \in CachedType /\ [p EXCEPT !.n = n].n = n
    BY <1>1, <2>4 DEF CachedType
  <2>6. [p EXCEPT !.n = n].off = p.off /\ Cut(p, n).off = p.off + n
    BY <2>2, <2>4
  <2>7. [p EXCEPT !.n = n] # Cut(p, n) /\ [p EXCEPT !.n = n] # p /\ Cut(p, n) # p
    BY <1>3, <2>1, <2>5, <2>6
  <2>. QED
    BY <2>1, <2>3, <2>5, <2>7 DEF CutPlaces
<1>. QED
  BY <1>2, <1>3

(* Cutting a piece leaves the counts of the regions as they are.           *)
LEMMA CutAccounted ==
  ASSUME Inv, NEW p \in CachedType, p \in Union(Group), NEW n \in 1 .. LargeCount,
         NEW Old, NEW New, CutPlaces(p, n, Old, New)
  PROVE  /\ Accounted(remaining, (Union(Group) \ Old) \cup New) /\ New \cap Union(Group) = {}
<1>1. CASE Old = {} /\ New = {}
  BY <1>1, MemoryHas
<1>2. CASE Old = {p} /\ New = {[p EXCEPT !.n = n], Cut(p, n)} /\ p.n > n
  BY <1>2, CachedIs, CountIs, CutInTwo, MemoryHas, SpansCut DEF CachedType, CutPlaces, Region,
     Cut, Piece
<1>. QED
  BY <1>1, <1>2 DEF CutPlaces
---------------------------------------------------------------------------
(* The heap without p, of which New takes the place of Old.                *)
Supplies(new, ht, p, Old, New) ==
  /\ Given(new, ht) /\ p \in CachedType /\ p \notin Among(Slots(new))
  /\ Among(Slots(new)) \cup {p} = (Among(Slots(ht)) \ Old) \cup New
  /\ Old \subseteq Among(Slots(ht))

(* _rpmalloc_heap_reserved_extract(): the heap with its reserve cut.       *)
LEMMA ReserveCut ==
  ASSUME NEW ht \in HeapType, Once(Slots(ht)), ht.reserve # None,
         NEW n \in 1 .. LargeCount, NEW Old, NEW New, CutPlaces(ht.reserve, n, Old, New),
         New \cap Among(Slots(ht)) = {}
  PROVE  Supplies([ht EXCEPT !.reserve = Cut(@, n)], ht, [ht.reserve EXCEPT !.n = n], Old, New)
<1>r. PICK r \in CachedType : r = ht.reserve
  BY HeapIs
<1>n. PICK p, new : p = [r EXCEPT !.n = n] /\ new = [ht EXCEPT !.reserve = Cut(r, n)]
  OBVIOUS
<1>0. CutPlaces(r, n, Old, New)
  BY <1>r
<1>c. PICK c : c = Cut(r, n)
  OBVIOUS
<1>1. c \in CachedType \cup {None} /\ p \in CachedType
  BY <1>0, <1>c, <1>n DEF CutPlaces
<1>2. /\ new \in HeapType /\ new.cache = ht.cache /\ new.class = ht.class /\ new.reserve = c
      /\ new.deferred = ht.deferred /\ new.busy = ht.busy
  BY <1>1, <1>c, <1>n, HeapIs DEF HeapType
<1>3. ButReserve(ht, new)
  BY <1>2 DEF ButReserve
<1>4. r \in Among(Slots(ht)) /\ One(ht.reserve) = {r}
  BY <1>r, SlotHas, CachedIs DEF One
<1>p. PICK A, S : A = Among(Slots(ht)) /\ S = Among(Slots(new))
  OBVIOUS
<1>5. \/ p = r /\ One(c) = {} /\ Old = {} /\ New = {}
      \/ /\ One(c) = {c} /\ p # c /\ p # r /\ c # r /\ Old = {r} /\ New = {p, c}
  BY <1>0, <1>c, <1>n, CachedIs DEF CutPlaces, One
<1>6. One(c) \cap (A \ {r}) = {} /\ r \in A /\ New \cap A = {}
  BY <1>4, <1>5, <1>p
<1>7. Once(Slots(new)) /\ S = (A \ {r}) \cup One(c)
  BY <1>2, <1>3, <1>4, <1>6, <1>p, SetReserve
<1>8. p \notin S /\ S \cup {p} = (A \ Old) \cup New /\ Old \subseteq A
  <2>1. CASE p = r /\ One(c) = {} /\ Old = {} /\ New = {}
    BY <1>6, <1>7, <2>1
  <2>2. CASE One(c) = {c} /\ p # c /\ p # r /\ c # r /\ Old = {r} /\ New = {p, c}
    BY <1>6, <1>7, <2>2
  <2>. QED
    BY <1>5, <2>1, <2>2
<1>. QED
  <2>1. Supplies(new, ht, p, Old, New)
    BY <1>1, <1>2, <1>7, <1>8, <1>p DEF Supplies, Given, HeapGood
  <2>. QED
    BY <1>n, <1>r, <2>1

(* The allocation is cut from the reserve.                                 *)
LEMMA GiveReserve ==
  ASSUME Inv, Limited, NEW t \in Thread, Empty(t), NEW h \in DOMAIN heap,
         NEW n \in 1 .. LargeCount, NEW kind \in {"small", "large"},
         NEW r \in CachedType, r = heap[h].reserve, n <= r.n,
         Give(t, h, [r EXCEPT !.n = n], kind, [heap[h] EXCEPT !.reserve = Cut(r, n)]),
         at' = [at EXCEPT ![t] = h],
         UNCHANGED <<remaining, global, overflow, orphans, mine, finalized>>
  PROVE  Inv' /\ Limited'
<1>o. PICK ht : ht = heap[h]
  OBVIOUS
<1>p. PICK p, new : p = [r EXCEPT !.n = n] /\ new = [ht EXCEPT !.reserve = Cut(r, n)]
  OBVIOUS
<1>1. ht \in HeapType /\ Once(Slots(ht)) /\ Among(Slots(ht)) \subseteq Union(Group) /\ h \in Heap
  BY <1>o, HeapHas
<1>c. PICK Old, New : CutPlaces(r, n, Old, New)
  BY CutHas
<1>2. r \in Union(Group)
  BY <1>o, <1>1, CachedIs, SlotHas DEF One
<1>3. Accounted(remaining, (Union(Group) \ Old) \cup New) /\ New \cap Union(Group) = {}
  BY <1>2, <1>c, CutAccounted
<1>4. /\ Given(new, ht) /\ p \in CachedType /\ p \notin Among(Slots(new))
      /\ Among(Slots(new)) \cup {p} = (Among(Slots(ht)) \ Old) \cup New
      /\ Old \subseteq Among(Slots(ht))
  <2>1. New \cap Among(Slots(ht)) = {} /\ ht.reserve = r /\ ht.reserve # None
    BY <1>1, <1>3, <1>o, CachedIs
  <2>2. CutPlaces(ht.reserve, n, Old, New)
    BY <1>c, <2>1
  <2>3. Supplies([ht EXCEPT !.reserve = Cut(@, n)], ht, [ht.reserve EXCEPT !.n = n], Old, New)
    BY <1>1, <2>1, <2>2, ReserveCut
  <2>4. Supplies(new, ht, p, Old, New)
    BY <1>p, <2>1, <2>3
  <2>. QED
    BY <2>4 DEF Supplies
<1>5. OwnPlaces(t, h, p, new, remaining', Old, New)
  BY <1>o, <1>3, <1>4, MemoryHas DEF Empty, OwnPlaces
<1>6. Use(p, h, kind) \in UseType /\ NDefer(todo[t]) = 0
  BY <1>1, <1>4, UseTyped DEF Empty
<1>7. Give(t, h, p, kind, new)
  BY <1>o, <1>p
<1>. QED
  BY <1>4, <1>5, <1>6, <1>7, <1>o, GiveOwn
---------------------------------------------------------------------------
(* _rpmalloc_global_cache_extract_spans(): the last of the cache and the   *)
(* first of the overflow.                                                  *)
SplitInto(q, a, b) ==
  /\ a \in Seq(CachedType) /\ b \in Seq(CachedType) /\ IsInjective(a) /\ IsInjective(b)
  /\ ToSet(a) \cup ToSet(b) = ToSet(q) /\ ToSet(a) \cap ToSet(b) = {}

(* A queue cut in two.                                                     *)
LEMMA SplitIs ==
  ASSUME NEW q \in Seq(CachedType), IsInjective(q), NEW n \in 0 .. Len(q)
  PROVE  /\ SplitInto(q, SubSeq(q, 1, n), SubSeq(q, n + 1, Len(q)))
         /\ Len(SubSeq(q, 1, n)) = n /\ Len(SubSeq(q, n + 1, Len(q))) = Len(q) - n
  BY CutIs, CutLen DEF SplitInto

(* All of a queue.                                                         *)
LEMMA WholeIs ==
  ASSUME NEW S, NEW q \in Seq(S)
  PROVE  SubSeq(q, 1, Len(q)) = q
  OBVIOUS

(* The heap whose empty cache gets the spans but the last.                 *)
LEMMA CacheOut ==
  ASSUME NEW ht \in HeapType, Once(Slots(ht)), NEW n \in 1 .. LargeCount, ht.cache[n] = <<>>,
         NEW out \in Seq(CachedType), out # <<>>, IsInjective(out),
         ToSet(out) \cap Among(Slots(ht)) = {}
  PROVE  Supplies([ht EXCEPT !.cache[n] = Front(out)], ht, Last(out), {}, ToSet(out))
<1>f. PICK f, p : f = Front(out) /\ p = Last(out)
  OBVIOUS
<1>n. PICK new : new = [ht EXCEPT !.cache[n] = f]
  OBVIOUS
<1>1. /\ p \in CachedType /\ p \in ToSet(out) /\ f \in Seq(CachedType) /\ IsInjective(f)
      /\ ToSet(f) = ToSet(out) \ {p}
  BY <1>f, LastIs
<1>2. /\ new \in HeapType /\ new.cache = [ht.cache EXCEPT ![n] = f] /\ new.class = ht.class
      /\ new.reserve = ht.reserve /\ new.deferred = ht.deferred /\ new.busy = ht.busy
  BY <1>1, <1>n, HeapIs DEF HeapType
<1>3. ButCache(ht, new, n) /\ new.cache[n] = f
  BY <1>2, HeapIs DEF ButCache
<1>p. PICK A, S, F, O : /\ A = Among(Slots(ht)) /\ S = Among(Slots(new))
                        /\ F = ToSet(f) /\ O = ToSet(out)
  OBVIOUS
<1>4. Once(Slots(new)) /\ S = (A \ {}) \cup F
  BY <1>p, <1>1, <1>3, NoneInEmpty, SetCache
<1>5. p \notin S /\ S \cup {p} = (A \ {}) \cup O /\ {} \subseteq A
  BY <1>p, <1>1, <1>4
<1>. QED
  BY <1>f, <1>n, <1>p, <1>1, <1>2, <1>4, <1>5 DEF Supplies, Given, HeapGood

TakenOut(n, gl, x, y, ov, out) ==
  /\ SplitInto(global[n], gl, x) /\ Len(gl) <= Len(global[n])
  /\ SplitInto(overflow[n], y, ov) /\ out = x \o y /\ out # <<>>

(* The last span from the global cache is the program's, the others go to  *)
(* the thread cache.                                                       *)
LEMMA GiveOut ==
  ASSUME Inv, Limited, NEW t \in Thread, Empty(t), NEW h \in DOMAIN heap,
         NEW n \in 1 .. LargeCount, NEW kind \in {"small", "large"}, heap[h].cache[n] = <<>>,
         NEW gl, NEW x, NEW y, NEW ov, NEW out, TakenOut(n, gl, x, y, ov, out), Caches(n, gl, ov),
         Give(t, h, Last(out), kind, [heap[h] EXCEPT !.cache[n] = Front(out)]),
         at' = [at EXCEPT ![t] = h], UNCHANGED <<remaining, orphans, mine, finalized>>
  PROVE  Inv' /\ Limited'
<1>0. /\ SplitInto(global[n], gl, x) /\ Len(gl) <= Len(global[n])
      /\ SplitInto(overflow[n], y, ov) /\ out = x \o y /\ out # <<>>
  BY DEF TakenOut
<1>o. PICK ht : ht = heap[h]
  OBVIOUS
<1>p. PICK p, new : p = Last(out) /\ new = [ht EXCEPT !.cache[n] = Front(out)]
  OBVIOUS
<1>1. ht \in HeapType /\ Once(Slots(ht)) /\ h \in Heap
  BY <1>o, HeapHas
<1>s. PICK A, X, Y, G, O, U, X2, Y2, T :
        /\ A = Among(Slots(ht)) /\ G = ToSet(global[n]) /\ O = ToSet(overflow[n])
        /\ X = ToSet(x) /\ Y = ToSet(y) /\ X2 = ToSet(gl) /\ Y2 = ToSet(ov)
        /\ U = InUse /\ T = InThread(t)
  OBVIOUS
<1>2. /\ X2 \cup X = G /\ X2 \cap X = {} /\ Y \cup Y2 = O /\ Y \cap Y2 = {}
      /\ x \in Seq(CachedType) /\ y \in Seq(CachedType) /\ IsInjective(x) /\ IsInjective(y)
      /\ QueueGood(gl) /\ QueueGood(ov)
  BY <1>0, <1>s DEF SplitInto, QueueGood
<1>3. Apart(A, T, U, G, O) /\ T = {}
  BY <1>o, <1>s, GroupsApart DEF Empty
<1>4. out \in Seq(CachedType) /\ IsInjective(out) /\ ToSet(out) = X \cup Y
  BY <1>0, <1>s, <1>2, <1>3, JoinIs DEF Apart
<1>5. /\ Given(new, ht) /\ p \in CachedType /\ p \notin Among(Slots(new))
      /\ Among(Slots(new)) \cup {p} = A \cup (X \cup Y)
  <2>1. ToSet(out) \cap Among(Slots(ht)) = {}
    BY <1>2, <1>3, <1>4, <1>s DEF Apart
  <2>2. ht.cache[n] = <<>>
    BY <1>o
  <2>3. out # <<>>
    BY <1>0
  <2>4. Supplies([ht EXCEPT !.cache[n] = Front(out)], ht, Last(out), {}, ToSet(out))
    BY <1>1, <1>4, <2>1, <2>2, <2>3, CacheOut
  <2>5. Supplies(new, ht, p, {}, X \cup Y)
    BY <1>4, <1>p, <2>4
  <2>6. Among(Slots(new)) \cup {p} = (A \ {}) \cup (X \cup Y)
    BY <1>s, <2>5 DEF Supplies
  <2>. QED
    BY <2>5, <2>6 DEF Supplies
<1>6. GivePlaces(t, h, n, p, new, gl, ov, remaining', {}, {})
  BY <1>o, <1>s, <1>2, <1>3, <1>5, MemoryHas DEF Apart, GivePlaces
<1>7. Use(p, h, kind) \in UseType /\ NDefer(todo[t]) = 0
  BY <1>1, <1>5, UseTyped DEF Empty
<1>8. Give(t, h, p, kind, new)
  BY <1>o, <1>p
<1>9. Inv'
  BY <1>2, <1>5, <1>6, <1>7, <1>8, <1>o, GiveKeeps
<1>10. Limited'
  BY <1>0, CacheHas, LimitAssumption, SeqIs DEF Caches, Inv, TypeOK, Limited, SplitInto
<1>. QED
  BY <1>9, <1>10
---------------------------------------------------------------------------
(* The search ends at LargeCount at the latest.                            *)
LEMMA SearchIs ==
  ASSUME NEW base \in 1 .. LargeCount
  PROVE  SearchLimit(base) \in Int /\ SearchLimit(base) <= LargeCount
<1>1. base \in Nat /\ LargeCount \in Nat /\ base <= LargeCount
  BY CountIs
<1>2. CASE base > 2
  <2>m. PICK x \in Int : x = base + base \div 2
    BY <1>1
  <2>1. Min({x, LargeCount}) \in {x, LargeCount} /\ Min({x, LargeCount}) <= LargeCount
    BY <1>1, MinIs
  <2>. QED
    BY <1>1, <1>2, <2>1, <2>m DEF SearchLimit
<1>3. CASE ~(base > 2)
  BY <1>1, <1>3 DEF SearchLimit
<1>. QED
  BY <1>2, <1>3

(* How many come from the global cache and from its overflow.              *)
LEMMA WantIs ==
  ASSUME NEW a \in Nat
  PROVE  Min({Transfer, a}) \in 0 .. a /\ Min({Transfer, a}) <= Transfer
  BY LimitAssumption, MinIs

(* What is taken from the overflow is there.                               *)
LEMMA MoreIs ==
  ASSUME NEW w \in Nat, w <= Transfer, NEW b \in Nat
  PROVE  Min({Transfer - w, b}) \in 0 .. b
  BY LimitAssumption, MinIs

(* Nothing came: nothing was taken.                                        *)
NoneOut(g, m, o, k) == SubSeq(g, m + 1, Len(g)) \o SubSeq(o, 1, k) = <<>>

(* When nothing is taken, nothing changes.                                 *)
LEMMA OutEmpty ==
  ASSUME NEW g \in Seq(CachedType), IsInjective(g), NEW o \in Seq(CachedType), IsInjective(o),
         NEW m \in 0 .. Len(g), NEW k \in 0 .. Len(o),
         NoneOut(g, m, o, k)
  PROVE  SubSeq(g, 1, m) = g /\ SubSeq(o, k + 1, Len(o)) = o
<1>p. PICK x, y : x = SubSeq(g, m + 1, Len(g)) /\ y = SubSeq(o, 1, k)
  OBVIOUS
<1>1. /\ x \in Seq(CachedType) /\ y \in Seq(CachedType) /\ Len(x) = Len(g) - m /\ Len(y) = k
      /\ Len(g) \in Nat /\ Len(o) \in Nat
  BY <1>p, SplitIs, SeqIs DEF SplitInto
<1>s. x \in Seq(CachedType) /\ y \in Seq(CachedType)
  BY <1>1
<1>2. Len(x \o y) = Len(x) + Len(y) /\ Len(x) \in Nat /\ Len(y) \in Nat
  BY <1>s, ConcatProperties
<1>3. Len(x \o y) = 0
  BY <1>p DEF NoneOut
<1>4. m = Len(g) /\ k = 0
  BY <1>1, <1>2, <1>3
<1>5. SubSeq(o, 0 + 1, Len(o)) = o
  BY WholeIs
<1>. QED
  BY <1>4, <1>5, WholeIs
---------------------------------------------------------------------------
(* What Extract does with the spans taken from the global cache.           *)
Found(t, h, n, base, kind, ht, k, out, last, rest, cut, left) ==
  CASE out # <<>> -> Give(t, h, last, kind, rest)
    [] out = <<>> /\ ht.reserve # None /\ ht.reserve.n >= n -> Give(t, h, cut, kind, left)
    [] out = <<>> /\ (ht.reserve = None \/ ht.reserve.n < n) /\ n < SearchLimit(base) ->
         Look(t, h, ht, n + 1, base, kind)
    [] OTHER -> /\ Then(t, <<[k EXCEPT !.do = "map", !.n = base]>>)
                /\ UNCHANGED <<used, heap, got>>

(* _rpmalloc_heap_extract_new_span() goes on: the piece found, the thread  *)
(* cache, the global cache, the reserve, a larger count, or a new region.  *)
LEMMA ExtractKeeps ==
  ASSUME Inv, Limited, NEW t \in Thread, Extract(t)
  PROVE  Inv' /\ Limited'
<1>1. todo[t] # <<>> /\ Now(t).do = "extract"
  BY DEF Extract, Doing, Now
<1>k. PICK k : k = Now(t)
  OBVIOUS
<1>2. /\ k \in TaskType /\ k \in LastTask /\ k.do = "extract" /\ k.n \in 1 .. LargeCount
      /\ k.keep \in {"small", "large"} /\ k.slot \in 1 .. LargeCount /\ k.ps = <<>>
  BY <1>1, <1>k, TaskNow, TaskIs
<1>n. PICK n, base \in 1 .. LargeCount, kind \in {"small", "large"} :
        n = k.n /\ base = k.slot /\ kind = k.keep
  BY <1>2
<1>3. Rest(t) = <<>> /\ NDefer(todo[t]) = 0 /\ InThread(t) = One(got[t])
      /\ n \in 1 .. LargeCount
  BY <1>1, <1>2, <1>k, <1>n, LastIsLast
<1>h. PICK h \in DOMAIN heap : h = at[t]
  BY <1>1, CallHas
<1>f. finalized = "no"
  BY <1>1, CallHas
<1>s. PICK ht, g, o : ht = heap[h] /\ g = global[n] /\ o = overflow[n]
  OBVIOUS
<1>4. ht \in HeapType /\ Once(Slots(ht)) /\ h \in Heap
  BY <1>s, HeapHas
<1>5. UNCHANGED <<remaining, orphans, mine, at, finalized>> /\ at' = [at EXCEPT ![t] = h]
  BY <1>h DEF Extract, Inv, TypeOK
<1>6. CASE got[t] # None
  <2>p. PICK p \in CachedType : p = got[t]
    BY <1>6, CallHas
  <2>1. Give(t, h, p, kind, ht) /\ UNCHANGED <<global, overflow>>
    BY <1>6, <1>h, <1>k, <1>n, <1>s, <2>p DEF Extract
  <2>2. Given(ht, heap[h]) /\ Use(p, h, kind) \in UseType
    BY <1>4, <1>s, UseTyped DEF Given, HeapGood
  <2>3. OwnPlaces(t, h, p, ht, remaining', {}, {})
    BY <1>s, <1>3, <1>5, <1>6, <2>p, GroupsApart, MemoryHas DEF One, Apart, OwnPlaces
  <2>. QED
    BY <1>3, <1>5, <2>1, <2>2, <2>3, GiveOwn
<1>7. ASSUME got[t] = None PROVE Empty(t)
  BY <1>3, <1>7 DEF Empty, One
<1>8. CASE got[t] = None /\ ht.cache[n] # <<>>
  <2>1. Look(t, h, heap[h], n, base, kind) /\ UNCHANGED <<global, overflow>>
    BY <1>8, <1>h, <1>k, <1>n, <1>s DEF Extract
  <2>2. /\ UNCHANGED <<remaining, global, overflow, orphans, mine, finalized>>
        /\ at' = [at EXCEPT ![t] = h]
    BY <1>5, <2>1
  <2>3. Empty(t) /\ Look(t, h, heap[h], n, base, kind)
    BY <1>7, <1>8, <2>1
  <2>. QED
    BY <1>f, <2>2, <2>3, LookKeeps
<1>9. CASE got[t] = None /\ ht.cache[n] = <<>>
  <2>0. Empty(t)
    BY <1>7, <1>9
  <2>1. /\ g \in Seq(CachedType) /\ o \in Seq(CachedType) /\ IsInjective(g) /\ IsInjective(o)
        /\ Len(g) \in Nat /\ Len(o) \in Nat
    BY <1>3, <1>s, CacheHas, SeqIs
  <2>w. PICK want : want = Min({Transfer, Len(g)})
    OBVIOUS
  <2>v. PICK more : more = Min({Transfer - want, Len(o)})
    OBVIOUS
  <2>2. want \in 0 .. Len(g) /\ more \in 0 .. Len(o)
    BY <2>v, <2>w, <2>1, MoreIs, WantIs
  <2>m. PICK m \in 0 .. Len(g) : m = Len(g) - want
    <3>1. PICK l \in Nat : l = Len(g)
      BY <2>1
    <3>2. want \in 0 .. l
      BY <2>2, <3>1
    <3>3. l - want \in 0 .. l
      BY <3>2
    <3>. QED
      BY <3>1, <3>3
  <2>x. PICK gl, x, y, ov : /\ gl = SubSeq(g, 1, m) /\ x = SubSeq(g, m + 1, Len(g))
                            /\ y = SubSeq(o, 1, more) /\ ov = SubSeq(o, more + 1, Len(o))
    OBVIOUS
  <2>o. PICK out : out = x \o y
    OBVIOUS
  <2>c. PICK last, rest, cut, left :
          /\ last = Last(out) /\ rest = [ht EXCEPT !.cache[n] = Front(out)]
          /\ cut = [ht.reserve EXCEPT !.n = n] /\ left = [ht EXCEPT !.reserve = Cut(@, n)]
    OBVIOUS
  <2>3. /\ Caches(n, gl, ov)
        /\ Found(t, h, n, base, kind, ht, k, out, last, rest, cut, left)
    <3>1. ~(got[t] # None) /\ ~(got[t] = None /\ heap[at[t]].cache[k.n] # <<>>)
      BY <1>9, <1>h, <1>n, <1>s
    <3>2. Len(g) - want + 1 = m + 1
      BY <2>m
    <3>3. out = SubSeq(g, Len(g) - want + 1, Len(g)) \o SubSeq(o, 1, more)
          /\ gl = SubSeq(g, 1, Len(g) - want)
      BY <2>m, <2>o, <2>x, <3>2
    <3>4. LET got0 == SubSeq(g, Len(g) - want + 1, Len(g)) \o SubSeq(o, 1, more)
          IN  /\ Caches(n, SubSeq(g, 1, Len(g) - want), SubSeq(o, more + 1, Len(o)))
              /\ Found(t, h, n, base, kind, ht, k, got0, Last(got0),
                       [ht EXCEPT !.cache[n] = Front(got0)],
                       [ht.reserve EXCEPT !.n = n], [ht EXCEPT !.reserve = Cut(@, n)])
      BY <1>h, <1>k, <1>n, <1>s, <2>v, <2>w, <3>1 DEF Extract, Caches, Found
    <3>5. /\ Caches(n, gl, ov)
          /\ Found(t, h, n, base, kind, ht, k, out, Last(out), [ht EXCEPT !.cache[n] = Front(out)],
                   [ht.reserve EXCEPT !.n = n], [ht EXCEPT !.reserve = Cut(@, n)])
      BY <2>x, <3>3, <3>4
    <3>6. Found(t, h, n, base, kind, ht, k, out, last, rest, cut, left)
      BY <2>c, <3>5
    <3>. QED
      BY <3>5, <3>6
  <2>4. SplitInto(global[n], gl, x) /\ Len(gl) <= Len(global[n]) /\ SplitInto(overflow[n], y, ov)
    <3>1. /\ SplitInto(g, SubSeq(g, 1, m), SubSeq(g, m + 1, Len(g)))
          /\ Len(SubSeq(g, 1, m)) = m
      BY <2>1, SplitIs
    <3>2. SplitInto(o, SubSeq(o, 1, more), SubSeq(o, more + 1, Len(o)))
      BY <2>1, <2>2, SplitIs
    <3>3. m <= Len(g)
      BY <2>1
    <3>. QED
      BY <1>s, <2>x, <3>1, <3>2, <3>3
  <2>5. CASE out # <<>>
    <3>1. Give(t, h, Last(out), kind, [heap[h] EXCEPT !.cache[n] = Front(out)])
      BY <1>s, <2>c, <2>3, <2>5 DEF Found
    <3>2. heap[h].cache[n] = <<>>
      BY <1>9, <1>s
    <3>3. /\ Caches(n, gl, ov) /\ UNCHANGED <<remaining, orphans, mine, finalized>>
          /\ at' = [at EXCEPT ![t] = h]
      BY <1>5, <2>3
    <3>4. TakenOut(n, gl, x, y, ov, out)
      BY <2>4, <2>5, <2>o DEF TakenOut
    <3>. QED
      BY <2>0, <3>1, <3>2, <3>3, <3>4, GiveOut
  <2>6. ASSUME out = <<>> PROVE UNCHANGED <<global, overflow>>
    <3>1. gl = g /\ ov = o
      <4>1. NoneOut(g, m, o, more)
        BY <2>6, <2>o, <2>x DEF NoneOut
      <4>2. SubSeq(g, 1, m) = g /\ SubSeq(o, more + 1, Len(o)) = o
        BY <2>1, <2>2, <4>1, OutEmpty
      <4>. QED
        BY <2>x, <4>2
    <3>. QED
      BY <1>s, <2>3, <3>1 DEF Caches, Inv, TypeOK
  <2>7. CASE out = <<>> /\ ht.reserve # None /\ ht.reserve.n >= n
    <3>r. PICK r \in CachedType : r = heap[h].reserve
      BY <1>4, <1>s, <2>7, HeapIs
    <3>1. n <= r.n
      BY <1>3, <1>s, <2>7, <3>r, CountIs DEF CachedType
    <3>2. Give(t, h, [r EXCEPT !.n = n], kind, [heap[h] EXCEPT !.reserve = Cut(r, n)])
      BY <1>s, <1>3, <2>c, <2>3, <2>7, <3>r, CountIs DEF CachedType, Found
    <3>. QED
      BY <1>3, <1>5, <2>0, <2>6, <2>7, <3>1, <3>2, <3>r, GiveReserve
  <2>8. CASE out = <<>> /\ ~(ht.reserve # None /\ ht.reserve.n >= n) /\ n < SearchLimit(base)
    <3>1. ht.reserve = None \/ ht.reserve.n < n
      BY <1>3, <1>4, <2>8, CountIs, HeapIs DEF CachedType
    <3>3. n + 1 \in 1 .. LargeCount
      BY <1>3, <2>8, SearchIs, CountIs
    <3>i. PICK i \in 1 .. LargeCount : i = n + 1
      BY <3>3
    <3>2. Look(t, h, heap[h], i, base, kind)
      BY <1>s, <2>3, <2>8, <3>1, <3>i DEF Found
    <3>4. /\ UNCHANGED <<remaining, global, overflow, orphans, mine, finalized>>
          /\ at' = [at EXCEPT ![t] = h]
      BY <1>5, <2>6, <2>8
    <3>. QED
      BY <1>f, <2>0, <3>2, <3>4, LookKeeps
  <2>9. CASE out = <<>> /\ ~(ht.reserve # None /\ ht.reserve.n >= n) /\ ~(n < SearchLimit(base))
    <3>1. /\ Then(t, <<[k EXCEPT !.do = "map", !.n = base]>>) /\ UNCHANGED <<used, heap, got>>
      BY <2>3, <2>9 DEF Found
    <3>j. PICK j : j = [k EXCEPT !.do = "map", !.n = base]
      OBVIOUS
    <3>2. j \in LastTask
      BY <1>2, <3>j DEF LastTask, Tasks, TaskType, WorkTask, AdoptTask
    <3>3. todo' = [todo EXCEPT ![t] = <<j>>]
      <4>1. <<j>> \o Rest(t) = <<j>>
        BY <1>3
      <4>. QED
        BY <3>1, <3>j, <4>1 DEF Then, Rest
    <3>4. UNCHANGED <<remaining, heap, orphans, global, overflow, used, mine, at, got, finalized>>
      BY <1>5, <2>6, <2>9, <3>1
    <3>. QED
      BY <1>1, <2>0, <3>2, <3>3, <3>4, OneLast, NextKeeps
  <2>. QED
    BY <2>5, <2>7, <2>8, <2>9
<1>. QED
  BY <1>6, <1>8, <1>9
---------------------------------------------------------------------------
(* _rpmalloc_mmap() when a region is left                                  *)
LEMMA NewRegion ==
  ASSUME FreeRegions # {}
  PROVE  NextRegion \in Region \ DOMAIN remaining
<1>1. FreeRegions \in SUBSET Nat
  BY DEF FreeRegions, Region
<1>2. \E r \in FreeRegions : \A s \in FreeRegions : r <= s
  BY <1>1, LeastOf
<1>. QED
  BY <1>2 DEF NextRegion, FreeRegions

(* A region of n spans is mapped and divided into New.                     *)
MapsTo(n, New) ==
  /\ New \cap Union(Group) = {} /\ RemOK(Mapped(NextRegion, n))
  /\ Accounted(Mapped(NextRegion, n), (Union(Group) \ {}) \cup New)

(* A region is mapped and covered by the pieces in New.                    *)
LEMMA MapsIs ==
  ASSUME Inv, FreeRegions # {}, NEW n \in Nat \ {0}, NEW New \in SUBSET PieceType,
         \A p \in New : p.r = NextRegion,
         \A p, q \in New : p # q => Spans(p) \cap Spans(q) = {},
         Area(New, NextRegion) = 0 .. n - 1
  PROVE  MapsTo(n, New)
<1>r. PICK r \in Region \ DOMAIN remaining : r = NextRegion
  BY NewRegion
<1>n. PICK new : new = [s \in DOMAIN remaining \cup {r} |-> IF s = r THEN n ELSE remaining[s]]
  OBVIOUS
<1>u. PICK All : All = Union(Group)
  OBVIOUS
<1>1. RemOK(remaining) /\ Accounted(remaining, All)
  BY <1>u, MemoryHas
<1>2. \A p \in New : p.r = r
  BY <1>r
<1>3. Area(New, r) = 0 .. n - 1
  BY <1>r
<1>w. WithRegion(new, remaining, r, n)
  BY <1>n DEF WithRegion
<1>4. RemOK(new) /\ Accounted(new, All \cup New) /\ All \cap New = {}
  BY <1>1, <1>2, <1>3, <1>w, MapIs
<1>5. new = Mapped(NextRegion, n)
  BY <1>n, <1>r DEF Mapped
<1>6. All \cup New = (All \ {}) \cup New /\ New \cap All = {}
  BY <1>4
<1>. QED
  BY <1>4, <1>5, <1>6, <1>u DEF MapsTo

(* A region that is one piece.                                             *)
LEMMA MapsOne ==
  ASSUME Inv, FreeRegions # {}, NEW n \in Nat \ {0}
  PROVE  /\ Piece(NextRegion, 0, n) \in PieceType
         /\ MapsTo(n, {Piece(NextRegion, 0, n)})
<1>r. PICK r \in Region : r = NextRegion
  BY NewRegion
<1>p. PICK p : p = Piece(r, 0, n)
  OBVIOUS
<1>1. p \in PieceType /\ p.r = r /\ Spans(p) = 0 .. n - 1
  BY <1>p DEF Piece, PieceType, Spans
<1>2. Area({p}, r) = 0 .. n - 1
  BY <1>1 DEF Area
<1>3. {p} \in SUBSET PieceType /\ \A q \in {p} : q.r = NextRegion
  BY <1>1, <1>r
<1>4. MapsTo(n, {p})
  BY <1>2, <1>3, <1>r, MapsIs
<1>. QED
  BY <1>1, <1>4, <1>p, <1>r

(* A region that is two pieces.                                            *)
LEMMA MapsTwo ==
  ASSUME Inv, FreeRegions # {}, NEW n \in Nat \ {0}, NEW m \in Nat \ {0}, m < n
  PROVE  MapsTo(n, {Piece(NextRegion, 0, m), Piece(NextRegion, 0 + m, n - m)})
<1>r. PICK r \in Region : r = NextRegion
  BY NewRegion
<1>p. PICK p, q : p = Piece(r, 0, m) /\ q = Piece(r, 0 + m, n - m)
  OBVIOUS
<1>1. p \in PieceType /\ p.r = r /\ q \in PieceType /\ q.r = r
  BY <1>p DEF Piece, PieceType
<1>2. Spans(p) \cup Spans(q) = 0 .. n - 1 /\ Spans(p) \cap Spans(q) = {}
  BY <1>p, SpansCut DEF Region, Piece, Spans
<1>3. Area({p, q}, r) = 0 .. n - 1
  BY <1>1, <1>2 DEF Area
<1>4. {p, q} \in SUBSET PieceType /\ \A x \in {p, q} : x.r = NextRegion
  BY <1>1, <1>r
<1>5. \A x, y \in {p, q} : x # y => Spans(x) \cap Spans(y) = {}
  BY <1>2
<1>6. MapsTo(n, {p, q})
  BY <1>3, <1>4, <1>5, <1>r, MapsIs
<1>. QED
  BY <1>6, <1>p, <1>r
---------------------------------------------------------------------------
(* _rpmalloc_allocate_huge()                                               *)
LEMMA MapHugeKeeps ==
  ASSUME Inv, Limited, NEW t \in Thread, MapHuge(t)
  PROVE  Inv' /\ Limited'
<1>1. todo[t] # <<>> /\ Now(t).do = "map huge"
  BY DEF MapHuge, Doing, Now
<1>n. PICK n : n = Now(t).n
  OBVIOUS
<1>2. Now(t) \in LastTask /\ Now(t).do # "extract" /\ n \in Nat \ {0}
  BY <1>1, <1>n, TaskNow, TaskIs
<1>3. Empty(t) /\ Rest(t) = <<>> /\ InThread(t) = {} /\ NDefer(todo[t]) = 0
  BY <1>1, <1>2, LastIsLast DEF Empty
<1>4. UNCHANGED <<orphans, global, overflow, mine, at, finalized>>
  BY DEF MapHuge
<1>5. CASE FreeRegions = {}
  <2>1. todo' = [todo EXCEPT ![t] = <<>>]
    <3>1. <<>> \o Rest(t) = <<>>
      BY <1>3
    <3>. QED
      BY <1>5, <3>1 DEF MapHuge, Then, Rest
  <2>2. UNCHANGED <<remaining, heap, orphans, global, overflow, used, mine, at, got, finalized>>
    BY <1>4, <1>5 DEF MapHuge
  <2>. QED
    BY <1>1, <1>3, <2>1, <2>2, OverIs, NextKeeps
<1>6. CASE FreeRegions # {}
  <2>h. PICK h \in DOMAIN heap : h = at[t]
    BY <1>1, CallHas
  <2>o. PICK ht : ht = heap[h]
    OBVIOUS
  <2>1. ht \in HeapType /\ Once(Slots(ht)) /\ h \in Heap /\ Among(Slots(ht)) \subseteq Union(Group)
    BY <2>o, HeapHas
  <2>p. PICK p : p = Piece(NextRegion, 0, n)
    OBVIOUS
  <2>2. p \in PieceType /\ MapsTo(n, {p})
    BY <1>2, <1>6, <2>p, MapsOne
  <2>3. remaining' = Mapped(NextRegion, n) /\ Give(t, h, p, "huge", ht)
    BY <1>6, <1>n, <2>h, <2>o, <2>p DEF MapHuge
  <2>4. Given(ht, heap[h]) /\ Use(p, h, "huge") \in UseType
    BY <2>1, <2>2, <2>o, UseTyped DEF Given, HeapGood
  <2>5. OwnPlaces(t, h, p, ht, remaining', {}, {p})
    BY <1>3, <2>o, <2>1, <2>2, <2>3 DEF MapsTo, OwnPlaces
  <2>6. /\ UNCHANGED <<global, overflow, orphans, mine, finalized>>
        /\ at' = [at EXCEPT ![t] = h]
    BY <1>4, <2>h DEF Inv, TypeOK
  <2>. QED
    BY <1>3, <2>3, <2>4, <2>5, <2>6, GiveOwn
<1>. QED
  BY <1>5, <1>6
---------------------------------------------------------------------------
(* p takes a place in a heap, and what was there is cached.                *)
Replaced(new, tasks, ht, p) ==
  /\ HeapGood(new) /\ new.busy = ht.busy /\ new.deferred = ht.deferred
  /\ tasks \in Seq(WorkTask) /\ Once(Carried(tasks)) /\ NDefer(tasks) = 0
  /\ Among(Slots(new)) \cap Among(Carried(tasks)) = {}
  /\ Among(Slots(new)) \cup Among(Carried(tasks)) = Among(Slots(ht)) \cup {p}

WithCache(ht, C) == [ht EXCEPT !.cache = C]

(* _rpmalloc_heap_cache_insert() looks only at the thread caches.          *)
LEMMA InsertSame ==
  ASSUME NEW ht \in HeapType, NEW hu \in HeapType, hu.cache = ht.cache, NEW p
  PROVE  /\ CacheInsert(hu, p).tasks = CacheInsert(ht, p).tasks
         /\ \E C : /\ CacheInsert(hu, p).ht = WithCache(hu, C)
                   /\ CacheInsert(ht, p).ht = WithCache(ht, C)
  BY DEF CacheInsert, WithCache

(* The reserve of a heap is p.                                             *)
LEMMA ReserveSet ==
  ASSUME NEW ht \in HeapType, Once(Slots(ht)), NEW p \in CachedType \cup {None},
         One(p) \cap (Among(Slots(ht)) \ One(ht.reserve)) = {}
  PROVE  /\ Given([ht EXCEPT !.reserve = p], ht) /\ [ht EXCEPT !.reserve = p].cache = ht.cache
         /\ Among(Slots([ht EXCEPT !.reserve = p]))
              = (Among(Slots(ht)) \ One(ht.reserve)) \cup One(p)
  BY SetReserve DEF HeapType, ButReserve, Given, HeapGood

(* The active span of the class is p.                                      *)
LEMMA ClassSet ==
  ASSUME NEW ht \in HeapType, Once(Slots(ht)), NEW p \in CachedType \cup {None},
         One(p) \cap (Among(Slots(ht)) \ One(ht.class)) = {}
  PROVE  /\ Given([ht EXCEPT !.class = p], ht) /\ [ht EXCEPT !.class = p].cache = ht.cache
         /\ Among(Slots([ht EXCEPT !.class = p])) = (Among(Slots(ht)) \ One(ht.class)) \cup One(p)
  BY SetClass DEF HeapType, ButClass, Given, HeapGood

(* p takes the reserve's place, and the old reserve is cached.             *)
LEMMA ReplaceReserve ==
  ASSUME NEW ht \in HeapType, Once(Slots(ht)), NEW p \in CachedType, p \notin Among(Slots(ht)),
         ht.reserve # None
  PROVE  LET ins == CacheInsert(ht, ht.reserve)
         IN  Replaced([ins.ht EXCEPT !.reserve = p], ins.tasks, ht, p)
<1>o. PICK old \in CachedType : old = ht.reserve
  BY HeapIs
<1>e. PICK hu : hu = [ht EXCEPT !.reserve = None]
  OBVIOUS
<1>1. One(None) = {} /\ One(old) = {old} /\ One(p) = {p} /\ old \in Among(Slots(ht))
  BY <1>o, CachedIs, SlotHas DEF One
<1>2. Given(hu, ht) /\ hu.cache = ht.cache /\ Among(Slots(hu)) = Among(Slots(ht)) \ {old}
  BY <1>e, <1>o, <1>1, ReserveSet
<1>3. hu \in HeapType /\ Once(Slots(hu)) /\ hu.busy = ht.busy /\ hu.deferred = ht.deferred
  BY <1>2 DEF Given, HeapGood
<1>r. PICK r : r = CacheInsert(hu, old)
  OBVIOUS
<1>4. Inserted(r, hu, old)
  BY <1>2, <1>3, <1>r, CacheInsertIs
<1>5. /\ r.ht \in HeapType /\ r.ht.reserve = None /\ r.ht.deferred = hu.deferred
      /\ r.ht.busy = hu.busy
      /\ Once(Slots(r.ht)) /\ r.tasks \in Seq(WorkTask) /\ Once(Carried(r.tasks))
      /\ NDefer(r.tasks) = 0
      /\ Among(Slots(r.ht)) \cap Among(Carried(r.tasks)) = {}
      /\ Among(Slots(r.ht)) \cup Among(Carried(r.tasks)) = Among(Slots(hu)) \cup {old}
  BY <1>e, <1>4 DEF HeapType, Inserted
<1>a. PICK ins : ins = CacheInsert(ht, old)
  OBVIOUS
<1>n. PICK new : new = [r.ht EXCEPT !.reserve = p]
  OBVIOUS
<1>6. ins.tasks = r.tasks /\ [ins.ht EXCEPT !.reserve = p] = new
  <2>1. PICK C : r.ht = WithCache(hu, C) /\ ins.ht = WithCache(ht, C)
    BY <1>2, <1>3, <1>a, <1>r, InsertSame
  <2>2. [[ht EXCEPT !.cache = C] EXCEPT !.reserve = p]
          = [[[ht EXCEPT !.reserve = None] EXCEPT !.cache = C] EXCEPT !.reserve = p]
    BY DEF HeapType
  <2>3. ins.tasks = r.tasks
    BY <1>2, <1>3, <1>a, <1>r, InsertSame
  <2>. QED
    BY <1>e, <1>n, <2>1, <2>2, <2>3 DEF WithCache
<1>7. Given(new, r.ht) /\ Among(Slots(new)) = Among(Slots(r.ht)) \cup {p}
  <2>h. PICK hr : hr = r.ht
    OBVIOUS
  <2>1. hr \in HeapType /\ Once(Slots(hr)) /\ One(hr.reserve) = {} /\ p \notin Among(Slots(hr))
    BY <1>1, <1>2, <1>5, <2>h
  <2>2. One(p) \cap (Among(Slots(hr)) \ One(hr.reserve)) = {}
    BY <1>1, <2>1
  <2>3. /\ Given([hr EXCEPT !.reserve = p], hr)
        /\ Among(Slots([hr EXCEPT !.reserve = p]))
             = (Among(Slots(hr)) \ One(hr.reserve)) \cup One(p)
    BY <2>1, <2>2, ReserveSet
  <2>. QED
    BY <1>1, <1>n, <2>1, <2>3, <2>h
<1>8. Replaced(new, r.tasks, ht, p)
  BY <1>1, <1>2, <1>3, <1>5, <1>7 DEF Given, Replaced
<1>. QED
  BY <1>6, <1>8, <1>a, <1>o

(* p takes the active span's place, and the old one is cached.             *)
LEMMA ReplaceClass ==
  ASSUME NEW ht \in HeapType, Once(Slots(ht)), NEW p \in CachedType, p \notin Among(Slots(ht)),
         ht.class # None
  PROVE  LET ins == CacheInsert(ht, ht.class)
         IN  Replaced([ins.ht EXCEPT !.class = p], ins.tasks, ht, p)
<1>o. PICK old \in CachedType : old = ht.class
  BY HeapIs
<1>e. PICK hu : hu = [ht EXCEPT !.class = None]
  OBVIOUS
<1>1. One(None) = {} /\ One(old) = {old} /\ One(p) = {p} /\ old \in Among(Slots(ht))
  BY <1>o, CachedIs, SlotHas DEF One
<1>2. Given(hu, ht) /\ hu.cache = ht.cache /\ Among(Slots(hu)) = Among(Slots(ht)) \ {old}
  BY <1>e, <1>o, <1>1, ClassSet
<1>3. hu \in HeapType /\ Once(Slots(hu)) /\ hu.busy = ht.busy /\ hu.deferred = ht.deferred
  BY <1>2 DEF Given, HeapGood
<1>r. PICK r : r = CacheInsert(hu, old)
  OBVIOUS
<1>4. Inserted(r, hu, old)
  BY <1>2, <1>3, <1>r, CacheInsertIs
<1>5. /\ r.ht \in HeapType /\ r.ht.class = None /\ r.ht.deferred = hu.deferred
      /\ r.ht.busy = hu.busy
      /\ Once(Slots(r.ht)) /\ r.tasks \in Seq(WorkTask) /\ Once(Carried(r.tasks))
      /\ NDefer(r.tasks) = 0
      /\ Among(Slots(r.ht)) \cap Among(Carried(r.tasks)) = {}
      /\ Among(Slots(r.ht)) \cup Among(Carried(r.tasks)) = Among(Slots(hu)) \cup {old}
  BY <1>e, <1>4 DEF HeapType, Inserted
<1>a. PICK ins : ins = CacheInsert(ht, old)
  OBVIOUS
<1>n. PICK new : new = [r.ht EXCEPT !.class = p]
  OBVIOUS
<1>6. ins.tasks = r.tasks /\ [ins.ht EXCEPT !.class = p] = new
  <2>1. PICK C : r.ht = WithCache(hu, C) /\ ins.ht = WithCache(ht, C)
    BY <1>2, <1>3, <1>a, <1>r, InsertSame
  <2>2. [[ht EXCEPT !.cache = C] EXCEPT !.class = p]
          = [[[ht EXCEPT !.class = None] EXCEPT !.cache = C] EXCEPT !.class = p]
    BY DEF HeapType
  <2>3. ins.tasks = r.tasks
    BY <1>2, <1>3, <1>a, <1>r, InsertSame
  <2>. QED
    BY <1>e, <1>n, <2>1, <2>2, <2>3 DEF WithCache
<1>7. Given(new, r.ht) /\ Among(Slots(new)) = Among(Slots(r.ht)) \cup {p}
  <2>h. PICK hr : hr = r.ht
    OBVIOUS
  <2>1. hr \in HeapType /\ Once(Slots(hr)) /\ One(hr.class) = {} /\ p \notin Among(Slots(hr))
    BY <1>1, <1>2, <1>5, <2>h
  <2>2. One(p) \cap (Among(Slots(hr)) \ One(hr.class)) = {}
    BY <1>1, <2>1
  <2>3. /\ Given([hr EXCEPT !.class = p], hr)
        /\ Among(Slots([hr EXCEPT !.class = p])) = (Among(Slots(hr)) \ One(hr.class)) \cup One(p)
    BY <2>1, <2>2, ClassSet
  <2>. QED
    BY <1>1, <1>n, <2>1, <2>3, <2>h
<1>8. Replaced(new, r.tasks, ht, p)
  BY <1>1, <1>2, <1>3, <1>5, <1>7 DEF Given, Replaced
<1>. QED
  BY <1>6, <1>8, <1>a, <1>o
---------------------------------------------------------------------------
(* A region is mapped: one piece of it is found, the rest is the reserve.  *)
LEMMA MapPieces ==
  ASSUME Inv, FreeRegions # {}, NEW n \in 1 .. LargeCount
  PROVE  LET p == Piece(NextRegion, 0, n)
             r == Cut([p EXCEPT !.n = MapCount], n)
         IN  p \in CachedType /\ r \in CachedType /\ p # r /\ MapsTo(MapCount, {p, r})
<1>r. PICK reg \in Region : reg = NextRegion
  BY NewRegion
<1>p. PICK p, r : p = Piece(reg, 0, n) /\ r = Piece(reg, 0 + n, MapCount - n)
  OBVIOUS
<1>1. /\ MapCount \in Nat \ {0} /\ n \in Nat \ {0} /\ n < MapCount
      /\ MapCount - n \in 1 .. LargeCount /\ 0 + n \in Nat /\ MapCount # n /\ 0 + n # 0
  BY CountIs
<1>2. p \in CachedType /\ r \in CachedType /\ p # r
  BY <1>1, <1>p DEF Piece, CachedType
<1>3. MapsTo(MapCount, {p, r})
  BY <1>1, <1>p, <1>r, MapsTwo
<1>4. Cut([p EXCEPT !.n = MapCount], n) = r
  BY <1>p, <1>1 DEF Piece, Cut
<1>. QED
  BY <1>2, <1>3, <1>4, <1>p, <1>r

(* _rpmalloc_span_map_aligned_count()                                      *)
LEMMA MapSpansKeeps ==
  ASSUME Inv, Limited, NEW t \in Thread, MapSpans(t)
  PROVE  Inv' /\ Limited'
<1>1. todo[t] # <<>> /\ Now(t).do = "map"
  BY DEF MapSpans, Doing, Now
<1>k. PICK k : k = Now(t)
  OBVIOUS
<1>2. /\ k \in LastTask /\ k.do = "map" /\ k.do # "extract" /\ k \in TaskType
      /\ k.n \in 1 .. LargeCount /\ k.keep \in {"small", "large"} /\ k.slot \in 1 .. LargeCount
  BY <1>1, <1>k, TaskNow, TaskIs
<1>n. PICK n \in 1 .. LargeCount : n = k.n
  BY <1>2
<1>3. Empty(t) /\ Rest(t) = <<>> /\ InThread(t) = {} /\ NDefer(todo[t]) = 0 /\ got[t] = None
  BY <1>1, <1>2, <1>k, LastIsLast DEF Empty
<1>4. UNCHANGED <<orphans, global, overflow, used, mine, at, finalized>>
  BY DEF MapSpans
<1>5. CASE FreeRegions = {}
  <2>1. todo' = [todo EXCEPT ![t] = <<>>]
    <3>1. <<>> \o Rest(t) = <<>>
      BY <1>3
    <3>. QED
      BY <1>5, <3>1 DEF MapSpans, Then, Rest
  <2>2. UNCHANGED <<remaining, heap, orphans, global, overflow, used, mine, at, got, finalized>>
    BY <1>4, <1>5 DEF MapSpans
  <2>. QED
    BY <1>1, <1>3, <2>1, <2>2, OverIs, NextKeeps
<1>6. CASE FreeRegions # {}
  <2>h. PICK h \in DOMAIN heap : h = at[t]
    BY <1>1, CallHas
  <2>o. PICK ht : ht = heap[h]
    OBVIOUS
  <2>1. ht \in HeapType /\ Once(Slots(ht)) /\ h \in Heap /\ Among(Slots(ht)) \subseteq Union(Group)
    BY <2>o, HeapHas
  <2>p. PICK p, r : /\ p = Piece(NextRegion, 0, n)
                    /\ r = Cut([Piece(NextRegion, 0, n) EXCEPT !.n = MapCount], n)
    OBVIOUS
  <2>2. p \in CachedType /\ r \in CachedType /\ p # r /\ MapsTo(MapCount, {p, r})
    BY <1>6, <2>p, MapPieces
  <2>3. p \notin Among(Slots(ht)) /\ r \notin Among(Slots(ht))
    BY <2>1, <2>2 DEF MapsTo
  <2>i. PICK ins : ins = IF ht.reserve = None THEN [ht |-> ht, tasks |-> <<>>]
                                              ELSE CacheInsert(ht, ht.reserve)
    OBVIOUS
  <2>w. PICK new, w : new = [ins.ht EXCEPT !.reserve = r] /\ w = ins.tasks
    OBVIOUS
  <2>j. PICK j : j = [k EXCEPT !.do = "extract"]
    OBVIOUS
  <2>q. PICK q : q = w \o <<j>>
    OBVIOUS
  <2>4. Replaced(new, w, ht, r)
    BY <2>i, <2>w, <2>1, <2>2, <2>3, CachedIs, ReplaceReserve, ReserveSet, WorkNone DEF One,
       Replaced, Given
  <2>5. /\ remaining' = Mapped(NextRegion, MapCount)
        /\ heap' = [heap EXCEPT ![at[t]] = new] /\ got' = [got EXCEPT ![t] = p]
        /\ todo' = [todo EXCEPT ![t] = q]
    <3>1. q \o Rest(t) = q /\ w \in Seq(WorkTask)
      <4>1. j \in LastTask /\ w \in Seq(WorkTask)
        BY <1>2, <2>4, <2>j DEF LastTask, Tasks, Replaced, WorkTask, AdoptTask, TaskType
      <4>2. <<j>> \in Seq(TaskType) /\ w \in Seq(TaskType)
        BY <4>1, OneLast, WorkIs
      <4>3. q \in Seq(TaskType)
        BY <2>q, <4>2, CallJoin
      <4>. QED
        BY <1>3, <4>1, <4>3
    <3>2. /\ remaining' = Mapped(NextRegion, MapCount)
          /\ heap' = [heap EXCEPT ![at[t]] = new] /\ got' = [got EXCEPT ![t] = p]
          /\ Then(t, q)
      BY <1>6, <1>k, <1>n, <2>h, <2>i, <2>j, <2>o, <2>p, <2>q, <2>w DEF MapSpans
    <3>. QED
      BY <3>1, <3>2 DEF Then, Rest
  <2>6. /\ HeapGood(new) /\ new.busy = ht.busy /\ new.deferred = ht.deferred
        /\ w \in Seq(WorkTask) /\ Once(Carried(w)) /\ NDefer(w) = 0
        /\ Among(Slots(new)) \cap Among(Carried(w)) = {}
        /\ Among(Slots(new)) \cup Among(Carried(w)) = Among(Slots(ht)) \cup {r}
    BY <2>4 DEF Replaced
  <2>7. /\ j \in LastTask /\ j.do = "extract" /\ <<j>> \in Seq(TaskType) /\ Len(<<j>>) = 1
        /\ <<j>>[1] = j
        /\ Once(Carried(<<j>>)) /\ Among(Carried(<<j>>)) = {} /\ NDefer(<<j>>) = 0
    BY <1>2, <2>j, OneLast DEF LastTask, Tasks, WorkTask, AdoptTask, TaskType
  <2>8. q \in Seq(TaskType) /\ Shape(q, p)
    <3>b. PICK b : b = <<j>>
      OBVIOUS
    <3>1. b \in Seq(TaskType) /\ Len(b) = 1 /\ b[1].do = "extract"
      BY <2>7, <3>b
    <3>2. /\ \A i \in 1 .. Len(b) - 1 : b[i] \in WorkTask
          /\ Len(b) > 0 /\ b[Len(b)].do = "extract"
      BY <3>1
    <3>3. \A i \in 1 .. Len(b) : b[i].do # "adopt"
      BY <3>1
    <3>. QED
      BY <2>6, <2>q, <3>1, <3>2, <3>3, <3>b, ShapeThen
  <2>9. Once(Carried(q)) /\ Among(Carried(q)) = Among(Carried(w)) /\ NDefer(q) = 0
    <3>1. w \in Seq(TaskType)
      BY <2>6, WorkIs
    <3>2. /\ Among(Carried(q)) = Among(Carried(w)) \cup {} /\ NDefer(q) = 0 + 0
          /\ Once(Carried(q))
      BY <2>6, <2>7, <2>q, <3>1, CallJoin
    <3>. QED
      BY <3>2
  <2>10. LocalTurn(t, new, q, p)
    BY <1>4, <2>5 DEF LocalTurn
  <2>11. One(p) = {p}
    BY <2>2, CachedIs DEF One
  <2>12. LocalPlaces(t, new, q, p, remaining', {}, {p, r}) /\ p \notin Among(Carried(q))
    BY <1>3, <2>h, <2>o, <2>2, <2>3, <2>5, <2>6, <2>9, <2>11 DEF MapsTo, LocalPlaces
  <2>13. Level(heap[at[t]], NDefer(todo[t]), new, NDefer(q))
    BY <1>3, <2>6, <2>9, <2>h, <2>o DEF Level
  <2>14. mine' = [mine EXCEPT ![t] = mine[t]] /\ MineGood(mine[t], orphans')
    BY <1>4, MineStays DEF Inv, TypeOK
  <2>15. Inv'
    BY <1>1, <2>2, <2>6, <2>8, <2>9, <2>10, <2>12, <2>13, <2>14, LocalKeeps
  <2>16. Limited'
    BY <1>4 DEF Limited
  <2>. QED
    BY <2>15, <2>16
<1>. QED
  BY <1>5, <1>6
---------------------------------------------------------------------------
(* A piece is no longer used.                                              *)
UsedLess(u, us, c) ==
  /\ UseGood(us) /\ u.p \in InUse /\ {v.p : v \in us} = InUse \ {u.p}
  /\ c \in Nat /\ Cardinality(UsedOf(us, u.h)) = c /\ Cardinality(UsedOf(used, u.h)) = c + 1
  /\ \A k : k # u.h => UsedOf(us, k) = UsedOf(used, k)

(* The program has a piece less.                                           *)
LEMMA UseLess ==
  ASSUME Inv, NEW u \in used
  PROVE  \E c : UsedLess(u, used \ {u}, c)
<1>u. PICK us : us = used \ {u}
  OBVIOUS
<1>1. /\ used \in SUBSET UseType /\ IsFiniteSet(used) /\ (\A v, w \in used : v.p = w.p => v = w)
      /\ \A v \in used : v.h \in DOMAIN heap
  BY MemoryHas DEF Inv, HeapsOK
<1>2. UseGood(us)
  BY <1>u, <1>1, FS_Subset DEF UseGood
<1>3. u.p \in InUse /\ {v.p : v \in us} = InUse \ {u.p}
  BY <1>1, <1>u DEF InUse
<1>a. PICK A, B : A = UsedOf(used, u.h) /\ B = UsedOf(us, u.h)
  OBVIOUS
<1>4. A = B \cup {u} /\ u \notin B /\ IsFiniteSet(B)
  BY <1>a, <1>u, <1>1, FS_Subset DEF UsedOf
<1>5. Cardinality(B) \in Nat /\ Cardinality(A) = Cardinality(B) + 1
  BY <1>4, FS_CardinalityType, FS_AddElement
<1>6. \A k : k # u.h => UsedOf(us, k) = UsedOf(used, k)
  BY <1>u DEF UsedOf
<1>7. UsedLess(u, us, Cardinality(B))
  BY <1>2, <1>3, <1>5, <1>6, <1>a DEF UsedLess
<1>. QED
  BY <1>7, <1>u

(* One span in use less.                                                   *)
LEMMA OneLess ==
  ASSUME NEW x \in Int, NEW y \in Int, NEW c \in Nat, NEW l \in Nat, NEW m \in Nat,
         x + l + 1 = y + m
  PROVE  x + (c + 1) + l + 0 = y + c + m + 0
  OBVIOUS

(* A call made of tasks that free pieces has the shape of one.             *)
LEMMA NoWork ==
  ASSUME NEW q \in Seq(WorkTask)
  PROVE  q \in Seq(TaskType) /\ Shape(q, None)
<1>1. <<>> \in Seq(TaskType) /\ q \o <<>> = q
  BY CallNone
<1>2. (\A i \in 1 .. Len(<<>>) - 1 : <<>>[i] \in WorkTask)
      /\ (\A i \in 1 .. Len(<<>>) : <<>>[i].do # "adopt")
  OBVIOUS
<1>3. q \o <<>> \in Seq(TaskType) /\ Shape(q \o <<>>, None)
  BY <1>1, <1>2, ShapeThen
<1>. QED
  BY <1>1, <1>3

(* What a free does to the heap of the piece, and leaves to do.            *)
FreedPlaces(h, new, q, p, rem, Out) ==
  /\ Among(Slots(new)) \cap Among(Carried(q)) = {}
  /\ Among(Slots(new)) \cup Among(Carried(q)) = Among(Slots(heap[h])) \cup ({p} \ Out)
  /\ Out \subseteq {p} /\ RemOK(rem) /\ Accounted(rem, Union(Group) \ Out)
FreedCount(h, new) ==
  new.busy + Len(heap[h].deferred) + 1 = heap[h].busy + Len(new.deferred)

(* The program frees u: its heap changes, and the call goes on.            *)
LEMMA FreeTurns ==
  ASSUME Inv, Limited, NEW t \in Thread, Empty(t), finalized = "no", NEW u \in used,
         used' = used \ {u}, NEW new, NEW q \in Seq(WorkTask),
         NEW a \in Heap \cup {None}, q # <<>> => a \in DOMAIN heap,
         heap' = [heap EXCEPT ![u.h] = new], todo' = [todo EXCEPT ![t] = q],
         at' = [at EXCEPT ![t] = a],
         UNCHANGED <<orphans, global, overflow, mine, got, finalized>>,
         HeapGood(new), Once(Carried(q)), NDefer(q) = 0,
         NEW Out, FreedPlaces(u.h, new, q, u.p, remaining', Out), FreedCount(u.h, new)
  PROVE  Inv' /\ Limited'
<1>n. PICK n \in 1 .. LargeCount : n = 1
  BY CountIs
<1>h. PICK h \in DOMAIN heap : h = u.h
  BY DEF Inv, HeapsOK
<1>o. PICK ht : ht = heap[h]
  OBVIOUS
<1>1. ht \in HeapType /\ Once(Slots(ht)) /\ h \in Heap
  BY <1>o, HeapHas
<1>c. PICK c : UsedLess(u, used \ {u}, c)
  BY UseLess
<1>2. /\ UseGood(used') /\ u.p \in InUse /\ {v.p : v \in used'} = InUse \ {u.p}
      /\ c \in Nat /\ Cardinality(UsedOf(used', h)) = c /\ Cardinality(UsedOf(used, h)) = c + 1
      /\ \A k : k # h => UsedOf(used', k) = UsedOf(used, k)
  BY <1>c, <1>h DEF UsedLess
<1>3. InThread(t) = {} /\ got[t] = None /\ NDefer(todo[t]) = 0 /\ One(None) = {}
  BY DEF Empty, One
<1>4. Turn(t, h, n, new, q, None, a, mine[t])
  BY <1>3, <1>h DEF Turn, Inv, TypeOK
<1>5. Caches(n, global[n], overflow[n]) /\ QueueGood(global[n]) /\ QueueGood(overflow[n])
  BY CachesStay
<1>6. q \in Seq(TaskType) /\ Shape(q, None)
  BY NoWork
<1>7. CallGood(q, None, a)
  BY <1>6 DEF CallGood
<1>8. MineGood(mine[t], orphans')
  BY MineStays
<1>9. PlacesGood(t, h, n, new, q, None, used', global[n], overflow[n], remaining', Out, {})
  <2>p. PICK A, N, T, U, X, Y, p :
          /\ A = Among(Slots(ht)) /\ N = Among(Slots(new)) /\ T = Among(Carried(q)) /\ U = InUse
          /\ X = ToSet(global[n]) /\ Y = ToSet(overflow[n]) /\ p = u.p
    OBVIOUS
  <2>1. Apart(A, {}, U, X, Y) /\ Before(t, h, n) = A \cup {} \cup U \cup X \cup Y
    BY <1>3, <1>o, <2>p, GroupsApart DEF Before
  <2>2. N \cap T = {} /\ N \cup T = A \cup ({p} \ Out) /\ Out \subseteq {p} /\ p \in U
    BY <1>2, <1>h, <1>o, <2>p DEF FreedPlaces
  <2>3. Apart(N, T \cup {}, U \ {p}, X, Y)
    BY <2>1, <2>2 DEF Apart
  <2>4. N \cup (T \cup {}) \cup (U \ {p}) \cup X \cup Y
          = ((A \cup {} \cup U \cup X \cup Y) \ Out) \cup {}
    BY <2>1, <2>2 DEF Apart
  <2>5. Out \subseteq A \cup {} \cup U \cup X \cup Y /\ {} \cap Union(Group) = {}
    BY <2>2
  <2>6. RemOK(remaining') /\ Accounted(remaining', (Union(Group) \ Out) \cup {})
    BY DEF FreedPlaces
  <2>. QED
    BY <1>2, <1>3, <2>1, <2>3, <2>4, <2>5, <2>6, <2>p DEF PlacesGood
<1>10. CountGood(t, h, new, q, a, used')
  <2>p. PICK x, y \in Int, l, m \in Nat :
          x = new.busy /\ y = ht.busy /\ l = Len(ht.deferred) /\ m = Len(new.deferred)
    BY <1>1, HeapIs DEF HeapGood
  <2>1. x + l + 1 = y + m
    BY <1>h, <1>o, <2>p DEF FreedCount
  <2>2. x + (c + 1) + l + 0 = y + c + m + 0
    BY <1>2, <2>1, OneLess
  <2>3. Balance(heap[h], Cardinality(UsedOf(used, h)), NDefer(todo[t]),
                new, Cardinality(UsedOf(used', h)), NDefer(q))
    BY <1>2, <1>3, <1>o, <2>2, <2>p DEF Balance
  <2>. QED
    BY <1>2, <1>3, <2>3 DEF CountGood
<1>11. Inv'
  BY <1>2, <1>4, <1>5, <1>7, <1>8, <1>9, <1>10, TurnKeeps
<1>12. Limited'
  BY DEF Limited
<1>. QED
  BY <1>11, <1>12
---------------------------------------------------------------------------
(* A heap with a piece less in use                                         *)
Lighter(ht) == [ht EXCEPT !.busy = @ - 1]

(* A heap with a piece less in use.                                        *)
LEMMA LighterIs ==
  ASSUME NEW ht \in HeapType, Once(Slots(ht))
  PROVE  SameBut(Lighter(ht), ht, ht.busy - 1) /\ HeapGood(Lighter(ht))
  BY HeapIs, SetBusy DEF Lighter, SameBut, HeapGood

(* The heap takes the piece: it and what it hands over.                    *)
LEMMA FreedInto ==
  ASSUME Inv, NEW u \in used, NEW new, NEW q,
         Replaced(new, q, Lighter(heap[u.h]), u.p)
  PROVE  /\ HeapGood(new) /\ q \in Seq(WorkTask) /\ Once(Carried(q)) /\ NDefer(q) = 0
         /\ FreedPlaces(u.h, new, q, u.p, remaining, {}) /\ FreedCount(u.h, new)
<1>h. PICK h \in DOMAIN heap : h = u.h
  BY DEF Inv, HeapsOK
<1>o. PICK old : old = heap[h]
  OBVIOUS
<1>1. old \in HeapType /\ Once(Slots(old)) /\ old.busy \in Int
  BY <1>o, HeapHas, HeapIs
<1>l. PICK ht : ht = Lighter(old)
  OBVIOUS
<1>2. SameBut(ht, old, old.busy - 1)
  BY <1>1, <1>l, LighterIs
<1>3. Slots(ht) = Slots(old) /\ ht.busy = old.busy - 1 /\ ht.deferred = old.deferred
  BY <1>2 DEF SameBut
<1>4. /\ HeapGood(new) /\ new.busy = ht.busy /\ new.deferred = ht.deferred
      /\ q \in Seq(WorkTask) /\ Once(Carried(q)) /\ NDefer(q) = 0
      /\ Among(Slots(new)) \cap Among(Carried(q)) = {}
      /\ Among(Slots(new)) \cup Among(Carried(q)) = Among(Slots(ht)) \cup {u.p}
  BY <1>h, <1>l, <1>o DEF Replaced
<1>5. FreedPlaces(u.h, new, q, u.p, remaining, {})
  BY <1>h, <1>o, <1>3, <1>4, UnmapNothing DEF FreedPlaces
<1>6. FreedCount(u.h, new)
  BY <1>h, <1>o, <1>1, <1>3, <1>4, HeapIs DEF FreedCount
<1>. QED
  BY <1>4, <1>5, <1>6

(* A used piece is in no heap.                                             *)
LEMMA UsedElsewhere ==
  ASSUME Inv, NEW u \in used, NEW h \in DOMAIN heap, NEW t \in Thread
  PROVE  u.p \notin Among(Slots(heap[h])) /\ u.p \in Union(Group)
  BY CountIs, GroupsApart DEF InUse, Apart, Before

(* What the owner's free makes of the heap: the case of each kind.         *)
PutBack(ht, u) ==
  CASE u.kind = "small" ->
         LET old == IF ht.class = None THEN [ht |-> ht, tasks |-> <<>>]
                                       ELSE CacheInsert(ht, ht.class)
         IN  [old EXCEPT !.ht.class = u.p]
    [] u.kind # "small" /\ BecomesReserve(ht, u) ->
         [ht |-> [ht EXCEPT !.reserve = u.p], tasks |-> <<>>]
    [] u.kind # "small" /\ ~BecomesReserve(ht, u) -> CacheInsert(ht, u.p)

(* p takes a place that was empty.                                         *)
LEMMA NothingThere ==
  ASSUME NEW ht \in HeapType, Once(Slots(ht)), NEW p \in CachedType, p \notin Among(Slots(ht))
  PROVE  /\ ht.class = None => Replaced([ht EXCEPT !.class = p], <<>>, ht, p)
         /\ ht.reserve = None => Replaced([ht EXCEPT !.reserve = p], <<>>, ht, p)
  BY CachedIs, ClassSet, ReserveSet, WorkNone DEF One, Replaced, Given

(* A freed span goes back into its heap.                                   *)
LEMMA KeptIn ==
  ASSUME NEW ht \in HeapType, Once(Slots(ht)), NEW u \in UseType, u.kind # "huge",
         u.p \notin Among(Slots(ht))
  PROVE  Replaced(PutBack(ht, u).ht, PutBack(ht, u).tasks, ht, u.p)
<1>p. PICK p \in CachedType : p = u.p
  BY UseIs
<1>1. CASE u.kind = "small" /\ ht.class = None
  BY <1>p, <1>1, NothingThere DEF PutBack
<1>2. CASE u.kind = "small" /\ ht.class # None
  BY <1>p, <1>2, ReplaceClass DEF PutBack, CacheInsert
<1>3. CASE u.kind # "small" /\ BecomesReserve(ht, u)
  BY <1>p, <1>3, NothingThere DEF PutBack, BecomesReserve
<1>4. CASE u.kind # "small" /\ ~BecomesReserve(ht, u)
  BY <1>p, <1>4, CacheInsertIs DEF PutBack, Inserted, Replaced, HeapGood
<1>. QED
  BY <1>1, <1>2, <1>3, <1>4

(* _rpmalloc_deallocate() of a span                                        *)
LEMMA FreeKeeps ==
  ASSUME Inv, Limited, NEW t \in Thread, NEW u \in used, Free(t, u)
  PROVE  Inv' /\ Limited'
<1>1. Empty(t) /\ finalized = "no" /\ todo[t] = <<>>
  BY IdleIs DEF Free, Idle
<1>h. PICK h \in DOMAIN heap : h = u.h
  BY DEF Inv, HeapsOK
<1>o. PICK old : old = heap[h]
  OBVIOUS
<1>2. old \in HeapType /\ Once(Slots(old)) /\ h \in Heap /\ u \in UseType
  BY <1>h, <1>o, HeapHas, MemoryHas
<1>3. u.p \notin Among(Slots(old)) /\ u.p \in Union(Group)
  BY <1>o, UsedElsewhere
<1>4. used' = used \ {u} /\ UNCHANGED <<orphans, global, overflow, mine, got, finalized>>
  BY DEF Free
<1>5. CASE DeferOrNot(t, u.h)
  <2>n. PICK new : new = [old EXCEPT !.deferred = <<u>> \o @]
    OBVIOUS
  <2>a. PICK a \in Heap \cup {None} : a = at[t]
    BY DEF Inv, TypeOK
  <2>1. /\ heap' = [heap EXCEPT ![u.h] = new] /\ todo' = [todo EXCEPT ![t] = <<>>]
        /\ at' = [at EXCEPT ![t] = a] /\ remaining' = remaining
    BY <1>1, <1>5, <1>h, <1>o, <2>a, <2>n DEF Free, Deferred, Inv, TypeOK
  <2>2. Pushed(new, old, u)
    BY <1>2, <1>3, <2>n, PushIs
  <2>3. HeapGood(new)
    BY <2>2 DEF Pushed
  <2>4. <<>> \in Seq(WorkTask) /\ Once(Carried(<<>>)) /\ NDefer(<<>>) = 0
        /\ Among(Carried(<<>>)) = {}
    BY WorkNone
  <2>5. FreedPlaces(u.h, new, <<>>, u.p, remaining', {})
    BY <1>h, <1>o, <2>1, <2>2, <2>4, UnmapNothing DEF FreedPlaces, Pushed
  <2>6. FreedCount(u.h, new)
    <3>p. PICK x \in Int, l \in Nat : x = old.busy /\ l = Len(old.deferred)
      <4>1. old.deferred \in Seq(UseType) /\ old.busy \in Int
        BY <1>2, HeapIs
      <4>. QED
        BY <4>1
    <3>1. x + l + 1 = x + (l + 1)
      OBVIOUS
    <3>. QED
      BY <1>h, <1>o, <2>2, <3>1, <3>p DEF FreedCount, Pushed
  <2>. QED
    BY <1>1, <1>4, <2>1, <2>3, <2>4, <2>5, <2>6, FreeTurns
<1>6. CASE ~DeferOrNot(t, u.h)
  <2>l. PICK ht : ht = Lighter(old)
    OBVIOUS
  <2>1. SameBut(ht, old, old.busy - 1) /\ HeapGood(ht)
    BY <1>2, <2>l, LighterIs
  <2>2. DirectFree(t, u)
    BY <1>6 DEF Free
  <2>3. CASE u.kind = "huge"
    <3>1. /\ heap' = [heap EXCEPT ![u.h] = ht] /\ todo' = [todo EXCEPT ![t] = <<>>]
          /\ at' = [at EXCEPT ![t] = h] /\ remaining' = Unmapped(remaining, u.p)
      BY <1>h, <1>o, <2>l, <2>2, <2>3 DEF Lighter, DirectFree, BecomesReserve
    <3>2. <<>> \in Seq(WorkTask) /\ Once(Carried(<<>>)) /\ NDefer(<<>>) = 0
          /\ Among(Carried(<<>>)) = {}
      BY WorkNone
    <3>3. FreedPlaces(u.h, ht, <<>>, u.p, remaining', {u.p})
      BY <1>h, <1>o, <1>3, <2>1, <3>1, <3>2, UnmapPiece DEF SameBut, FreedPlaces
    <3>4. FreedCount(u.h, ht)
      BY <1>h, <1>o, <1>2, <2>1, HeapIs DEF FreedCount, SameBut
    <3>. QED
      BY <1>1, <1>2, <1>4, <2>1, <3>1, <3>2, <3>3, <3>4, FreeTurns
  <2>4. CASE u.kind # "huge"
    <3>r. PICK new, q : new = PutBack(ht, u).ht /\ q = PutBack(ht, u).tasks
      OBVIOUS
    <3>1. /\ heap' = [heap EXCEPT ![u.h] = new] /\ todo' = [todo EXCEPT ![t] = q]
          /\ at' = [at EXCEPT ![t] = h] /\ remaining' = remaining
      <4>1. ht = [heap[u.h] EXCEPT !.busy = @ - 1]
        BY <1>h, <1>o, <2>l DEF Lighter
      <4>i. PICK ins : ins =
              CASE u.kind = "huge" -> [ht |-> ht, tasks |-> <<>>]
                [] u.kind = "small" ->
                     LET was == IF ht.class = None THEN [ht |-> ht, tasks |-> <<>>]
                                                   ELSE CacheInsert(ht, ht.class)
                     IN  [was EXCEPT !.ht.class = u.p]
                [] BecomesReserve(ht, u) ->
                     [ht |-> [ht EXCEPT !.reserve = u.p], tasks |-> <<>>]
                [] OTHER -> CacheInsert(ht, u.p)
        OBVIOUS
      <4>2. /\ heap' = [heap EXCEPT ![u.h] = ins.ht] /\ todo' = [todo EXCEPT ![t] = ins.tasks]
            /\ at' = [at EXCEPT ![t] = u.h] /\ remaining' = remaining
        BY SMTT(40), <2>2, <2>4, <4>1, <4>i DEF DirectFree
      <4>3. ins = PutBack(ht, u)
        BY <2>4, <4>i DEF BecomesReserve, PutBack
      <4>. QED
        BY <1>h, <3>r, <4>2, <4>3
    <3>2. Replaced(new, q, Lighter(heap[u.h]), u.p)
      BY <1>h, <1>o, <1>2, <1>3, <2>l, <2>1, <2>4, <3>r, KeptIn DEF HeapGood, SameBut
    <3>3. /\ HeapGood(new) /\ q \in Seq(WorkTask) /\ Once(Carried(q)) /\ NDefer(q) = 0
          /\ FreedPlaces(u.h, new, q, u.p, remaining', {}) /\ FreedCount(u.h, new)
      BY <3>1, <3>2, FreedInto
    <3>. QED
      BY <1>1, <1>2, <1>4, <3>1, <3>3, FreeTurns
  <2>. QED
    BY <2>3, <2>4
<1>. QED
  BY <1>5, <1>6
---------------------------------------------------------------------------
NoneCached == [n \in 1 .. LargeCount |-> <<>>]

(* A heap just made, and how many spans it has in use.                     *)
LEMMA NewHeapIs ==
  ASSUME NEW b \in Int
  PROVE  LET new == [NewHeap EXCEPT !.busy = b]
         IN  /\ new \in HeapType /\ Once(Slots(new)) /\ Among(Slots(new)) = {}
             /\ new.busy = b /\ new.deferred = <<>>
<1>n. PICK new : new = [NewHeap EXCEPT !.busy = b]
  OBVIOUS
<1>1. new = [owner |-> None, cache |-> NoneCached, class |-> None, reserve |-> None,
             deferred |-> <<>>, busy |-> b]
  BY <1>n DEF NewHeap, NoneCached
<1>2. NoneCached \in [1 .. LargeCount -> Seq(CachedType)] /\ <<>> \in Seq(UseType)
  BY DEF NoneCached
<1>3. new \in HeapType
  BY <1>1, <1>2 DEF HeapType
<1>4. /\ new.class = None /\ new.reserve = None /\ new.deferred = <<>> /\ new.busy = b
      /\ \A n \in 1 .. LargeCount : new.cache[n] = <<>>
  BY <1>1 DEF NoneCached
<1>5. \A k \in -2 .. LargeCount : Slots(new)[k] = <<>>
  <2>1. PieceSeq(None) = <<>> /\ PiecesOf(<<>>) = <<>>
    BY DEF PieceSeq, PiecesOf
  <2>2. /\ Slots(new)[0] = <<>> /\ Slots(new)[-1] = <<>> /\ Slots(new)[-2] = <<>>
        /\ \A n \in 1 .. LargeCount : Slots(new)[n] = <<>>
    BY <1>4, <2>1, SlotsAre
  <2>. QED
    BY <2>2, SlotsAre
<1>6. DOMAIN Slots(new) = -2 .. LargeCount
  BY SlotsAre
<1>7. Once(Slots(new)) /\ Among(Slots(new)) = {}
  BY <1>5, <1>6, NoneInEmpty DEF Once, Among
<1>. QED
  BY <1>3, <1>4, <1>7, <1>n

(* A heap just made.                                                       *)
LEMMA NewHeapZero ==
  /\ NewHeap \in HeapType /\ Once(Slots(NewHeap)) /\ Among(Slots(NewHeap)) = {}
  /\ NewHeap.busy = 0 /\ NewHeap.deferred = <<>>
<1>c. PICK c : c = [n \in 1 .. LargeCount |-> <<>>]
  OBVIOUS
<1>1. NewHeap = [owner |-> None, cache |-> c, class |-> None, reserve |-> None,
                 deferred |-> <<>>, busy |-> 0]
  BY <1>c DEF NewHeap
<1>w. PICK w : w = [NewHeap EXCEPT !.busy = 0]
  OBVIOUS
<1>2. NewHeap = w
  BY <1>1, <1>w
<1>3. 0 \in Int
  OBVIOUS
<1>4. w \in HeapType /\ Once(Slots(w)) /\ Among(Slots(w)) = {} /\ w.busy = 0 /\ w.deferred = <<>>
  BY <1>3, <1>w, NewHeapIs
<1>. QED
  BY <1>2, <1>4

(* The region of new heaps                                                 *)
NewHeaps == {NextRegion} \X (1 .. HeapBatch)

(* The heaps of a new region.                                              *)
LEMMA NewHeapsAre ==
  ASSUME Inv, FreeRegions # {}
  PROVE  /\ NewHeaps \subseteq Heap /\ NewHeaps \cap DOMAIN heap = {}
         /\ <<NextRegion, 1>> \in NewHeaps
         /\ {h[1] : h \in NewHeaps} = {NextRegion}
<1>r. PICK r \in Region : r = NextRegion /\ r \notin DOMAIN remaining
  BY NewRegion
<1>1. NewHeaps = {r} \X (1 .. HeapBatch)
  BY <1>r DEF NewHeaps
<1>2. <<r, 1>> \in NewHeaps
  BY <1>1, LimitAssumption
<1>3. {h[1] : h \in NewHeaps} = {r}
  BY <1>1, <1>2
<1>4. ASSUME NEW h \in DOMAIN heap PROVE h \notin NewHeaps
  <2>1. Piece(h[1], 0, 1) \in Union(Group)
    BY GroupIs, KeysAre DEF InMemory, Union
  <2>2. Piece(h[1], 0, 1).r \in DOMAIN remaining
    BY <2>1, MemoryHas DEF Accounted
  <2>3. h[1] # r
    BY <1>r, <2>2 DEF Piece
  <2>. QED
    BY <1>1, <2>3
<1>5. NewHeaps \subseteq Heap
  BY <1>1 DEF Heap
<1>. QED
  BY <1>2, <1>3, <1>4, <1>5, <1>r

(* What a mapping of heaps does                                            *)
HeapsMapped(t) ==
  /\ FreeRegions # {} /\ finalized = "no" /\ Empty(t)
  /\ remaining' = Mapped(NextRegion, 1)
  /\ heap' = [h \in DOMAIN heap \cup NewHeaps |-> IF h \in NewHeaps THEN NewHeap ELSE heap[h]]
  /\ orphans' \in Seq(Heap) /\ ToSet(orphans') \subseteq NewHeaps
  /\ at' = [at EXCEPT ![t] = <<NextRegion, 1>>]
  /\ todo' = [todo EXCEPT ![t] = <<Task("adopt", 0, <<>>), Task("own", 0, <<>>)>>]
  /\ UNCHANGED <<global, overflow, used, mine, got, finalized>>

(* ThreadInit() without an orphan maps a region for new heaps.             *)
LEMMA HeapsMappedIs ==
  ASSUME Inv, NEW t \in Thread, ThreadInit(t), orphans = <<>>
  PROVE  HeapsMapped(t)
<1>1. Empty(t) /\ finalized = "no"
  BY IdleIs DEF ThreadInit
<1>2. FreeRegions # {}
  BY DEF ThreadInit
<1>r. PICK r \in Region : r = NextRegion
  BY <1>2, NewRegion
<1>b. PICK b \in Nat : b = HeapBatch - 1
  BY LimitAssumption
<1>o. PICK q : q = [i \in 1 .. b |-> <<r, HeapBatch + 1 - i>>]
  OBVIOUS
<1>3. orphans' = q
  BY <1>b, <1>o, <1>r DEF ThreadInit
<1>4. \A i \in 1 .. b : HeapBatch + 1 - i \in 1 .. HeapBatch
  BY <1>b, LimitAssumption
<1>5. q \in Seq(Heap) /\ DOMAIN q = 1 .. b
  BY <1>4, <1>o DEF Heap
<1>6. \A i \in DOMAIN q : q[i] \in NewHeaps
  BY <1>4, <1>o, <1>r DEF NewHeaps
<1>7. ToSet(q) \subseteq NewHeaps
  BY <1>6 DEF ToSet
<1>. QED
  BY <1>1, <1>2, <1>3, <1>5, <1>7 DEF ThreadInit, HeapsMapped, NewHeaps

(* The tasks of ThreadInit().                                              *)
LEMMA OwnTasks ==
  LET q == <<Task("adopt", 0, <<>>), Task("own", 0, <<>>)>>
  IN  /\ q \in Seq(TaskType) /\ Shape(q, None) /\ Len(q) = 2
      /\ Once(Carried(q)) /\ Among(Carried(q)) = {} /\ NDefer(q) = 0
      /\ \A i \in DOMAIN q : q[i].do # "defer"
<1>j. PICK j, k : j = Task("adopt", 0, <<>>) /\ k = Task("own", 0, <<>>)
  OBVIOUS
<1>1. j \in AdoptTask /\ (j.n = 1 => k.do = "extract") /\ k \in LastTask
  BY <1>j, AdoptZero, EndIsTask
<1>2. j.do # "defer" /\ k.do # "defer"
  BY <1>1 DEF AdoptTask, LastTask, Tasks
<1>3. \A i \in DOMAIN <<j, k>> : <<j, k>>[i].do # "defer"
  BY <1>2
<1>. QED
  BY <1>1, <1>3, <1>j, TwoTasks
---------------------------------------------------------------------------
(* The types after new heaps are mapped.                                   *)
LEMMA MappedTyped ==
  ASSUME Inv, NEW t \in Thread, HeapsMapped(t)
  PROVE  TypeOK' /\ (\A s \in Thread : CallOK(s))' /\ HeapsOK'
<1>n. PICK N : N = NewHeaps
  OBVIOUS
<1>q. PICK q : q = <<Task("adopt", 0, <<>>), Task("own", 0, <<>>)>>
  OBVIOUS
<1>a. PICK a : a = <<NextRegion, 1>>
  OBVIOUS
<1>1. N \subseteq Heap /\ N \cap DOMAIN heap = {} /\ a \in N
  BY <1>a, <1>n, NewHeapsAre DEF HeapsMapped
<1>2. q \in Seq(TaskType) /\ Shape(q, None) /\ Len(q) = 2
  BY <1>q, OwnTasks
<1>3. NewHeap \in HeapType
  BY NewHeapZero
<1>4. TypeOK /\ (\A s \in Thread : CallOK(s)) /\ HeapsOK
  BY DEF Inv
<1>5. /\ heap' = [h \in DOMAIN heap \cup N |-> IF h \in N THEN NewHeap ELSE heap[h]]
      /\ at' = [at EXCEPT ![t] = a] /\ todo' = [todo EXCEPT ![t] = q]
      /\ orphans' \in Seq(Heap) /\ ToSet(orphans') \subseteq N /\ finalized = "no" /\ got[t] = None
      /\ UNCHANGED <<global, overflow, used, mine, got, finalized>>
  BY <1>a, <1>n, <1>q DEF HeapsMapped, Empty
<1>6. DOMAIN heap' = DOMAIN heap \cup N
  BY <1>5
<1>7. RemOK(remaining')
  <2>1. 1 \in Nat \ {0} /\ FreeRegions # {}
    BY DEF HeapsMapped
  <2>2. MapsTo(1, {Piece(NextRegion, 0, 1)})
    BY <2>1, MapsOne
  <2>. QED
    BY <2>2 DEF HeapsMapped, MapsTo
<1>8. TypeOK'
  BY <1>1, <1>2, <1>3, <1>4, <1>5, <1>7 DEF TypeOK, RemOK
<1>9. ASSUME NEW s \in Thread PROVE CallOK(s)'
  BY <1>1, <1>2, <1>4, <1>5, <1>6 DEF TypeOK, CallOK, Shape
<1>10. HeapsOK'
  BY <1>4, <1>5, <1>6 DEF HeapsOK
<1>. QED
  BY <1>8, <1>9, <1>10

(* The places after new heaps are mapped.                                  *)
LEMMA MappedPlaces ==
  ASSUME Inv, NEW t \in Thread, HeapsMapped(t)
  PROVE  PlacesOK'
<1>n. PICK N : N = NewHeaps
  OBVIOUS
<1>q. PICK q : q = <<Task("adopt", 0, <<>>), Task("own", 0, <<>>)>>
  OBVIOUS
<1>p. PICK p : p = Piece(NextRegion, 0, 1)
  OBVIOUS
<1>1. /\ N \subseteq Heap /\ N \cap DOMAIN heap = {} /\ DOMAIN heap \subseteq Heap
      /\ {h[1] : h \in N} = {NextRegion}
  BY <1>n, NewHeapsAre, MemoryHas DEF HeapsMapped
<1>2. Once(Carried(q)) /\ Among(Carried(q)) = {}
  BY <1>q, OwnTasks
<1>3. Once(Slots(NewHeap)) /\ Among(Slots(NewHeap)) = {}
  BY NewHeapZero
<1>4. TypeOK /\ PlacesOK
  BY DEF Inv
<1>5. /\ heap' = [h \in DOMAIN heap \cup N |-> IF h \in N THEN NewHeap ELSE heap[h]]
      /\ todo' = [todo EXCEPT ![t] = q] /\ InThread(t) = {} /\ got[t] = None
      /\ UNCHANGED <<global, overflow, used, got>>
  BY <1>n, <1>q DEF HeapsMapped, Empty
<1>6. /\ DOMAIN heap' = DOMAIN heap \cup N
      /\ \A h \in N : heap'[h] = NewHeap /\ h \notin DOMAIN heap
      /\ \A h \in DOMAIN heap : heap'[h] = heap[h]
  BY <1>1, <1>5
<1>7. /\ todo'[t] = q /\ got'[t] = None
      /\ \A s \in Thread : s # t => todo'[s] = todo[s] /\ got'[s] = got[s]
  BY <1>4, <1>5 DEF TypeOK
<1>8. MapsTo(1, {p}) /\ remaining' = Mapped(NextRegion, 1)
  BY <1>p, MapsOne DEF HeapsMapped
<1>9. /\ {p} \cap Union(Group) = {} /\ Accounted(remaining', (Union(Group) \ {}) \cup {p})
  BY <1>8 DEF MapsTo
<1>10. \A h \in Heap : InHeap(h)' = InHeap(h)
  <2>. SUFFICES ASSUME NEW h \in Heap PROVE InHeap(h)' = InHeap(h)
    OBVIOUS
  <2>1. CASE h \in N
    BY <1>3, <1>6, <2>1 DEF InHeap
  <2>2. CASE h \in DOMAIN heap
    BY <1>6, <2>2 DEF InHeap
  <2>3. CASE h \notin DOMAIN heap \cup N
    BY <1>6, <2>3 DEF InHeap
  <2>. QED
    BY <2>1, <2>2, <2>3
<1>11. \A s \in Thread : InThread(s)' = InThread(s)
  <2>. SUFFICES ASSUME NEW s \in Thread PROVE InThread(s)' = InThread(s)
    OBVIOUS
  <2>1. CASE s = t
    BY <1>2, <1>5, <1>7, <2>1 DEF InThread, One
  <2>2. CASE s # t
    BY <1>7, <2>2 DEF InThread
  <2>. QED
    BY <2>1, <2>2
<1>12. InUse' = InUse
  BY <1>5 DEF InUse
<1>13. InMemory' = InMemory \cup {p}
  BY <1>p, <1>1, <1>6 DEF InMemory
<1>c. PICK C : C = {<<"memory", 0>>}
  OBVIOUS
<1>14. /\ C \in SUBSET Keys /\ <<"memory", 0>> \in C
       /\ \A k, l \in C : k # l => Group'[k] \cap Group'[l] = {}
  BY <1>c, KeysAre
<1>15. /\ {} \subseteq Pick(Group, C) /\ Pick(Group', C) = (Pick(Group, C) \ {}) \cup {p}
  BY <1>c, <1>13, GroupIs, GroupWillBe DEF Pick
<1>16. Disjoint(Group)' /\ Union(Group)' = (Union(Group) \ {}) \cup {p}
  BY <1>4, <1>5, <1>9, <1>10, <1>11, <1>12, <1>14, <1>15, Moves DEF PlacesOK
<1>17. GroupsOnce'
  BY <1>2, <1>3, <1>4, <1>5, <1>6, <1>7 DEF PlacesOK, GroupsOnce
<1>. QED
  BY <1>9, <1>16, <1>17 DEF PlacesOK

(* The busy counts after new heaps are mapped.                             *)
LEMMA MappedKept ==
  ASSUME Inv, NEW t \in Thread, HeapsMapped(t)
  PROVE  HeapsKept'
<1>n. PICK N : N = NewHeaps
  OBVIOUS
<1>q. PICK q : q = <<Task("adopt", 0, <<>>), Task("own", 0, <<>>)>>
  OBVIOUS
<1>a. PICK a : a = <<NextRegion, 1>>
  OBVIOUS
<1>1. N \cap DOMAIN heap = {} /\ \A i \in DOMAIN q : q[i].do # "defer"
  BY <1>n, <1>q, NewHeapsAre, OwnTasks DEF HeapsMapped
<1>2. TypeOK /\ HeapsKept
  BY DEF Inv
<1>3. /\ heap' = [h \in DOMAIN heap \cup N |-> IF h \in N THEN NewHeap ELSE heap[h]]
      /\ todo' = [todo EXCEPT ![t] = q] /\ at' = [at EXCEPT ![t] = a] /\ NDefer(todo[t]) = 0
      /\ used' = used
  BY <1>a, <1>n, <1>q DEF HeapsMapped, Empty
<1>p. PICK hp, us, tasks, places : hp = heap /\ us = used /\ tasks = todo /\ places = at
  OBVIOUS
<1>r. PICK hp2, tasks2, places2 : hp2 = heap' /\ tasks2 = todo' /\ places2 = at'
  OBVIOUS
<1>4. Kept(hp, us, tasks, places)
  BY <1>2, <1>p, KeptIs
<1>5. /\ DOMAIN hp2 = DOMAIN hp \cup N
      /\ \A h \in N : hp2[h] = NewHeap /\ h \notin DOMAIN hp
      /\ \A h \in DOMAIN hp : hp2[h] = hp[h]
  BY <1>1, <1>3, <1>p, <1>r
<1>6. /\ tasks2[t] = q
      /\ \A s \in Thread : s # t => tasks2[s] = tasks[s] /\ places2[s] = places[s]
  BY <1>2, <1>3, <1>p, <1>r DEF TypeOK
<1>7. \A h : OwedSet(t, tasks[t], places[t], h) = {} /\ OwedSet(t, q, places2[t], h) = {}
  <2>1. Redefers(todo[t]) = {}
    BY <1>2, <1>3, DefersFinite, FS_EmptySet DEF TypeOK, NDefer
  <2>2. Redefers(q) = {}
    BY <1>1, NoDefers
  <2>. QED
    BY <1>p, <2>1, <2>2 DEF OwedSet, Redefers
<1>8. ASSUME NEW h PROVE Owed(tasks2, places2, h, Thread) = Owed(tasks, places, h, Thread)
  BY <1>6, <1>7 DEF Owed
<1>9. ASSUME NEW h \in N PROVE Owed(tasks, places, h, Thread) = {}
  BY <1>p, <1>1, CallHas DEF OwedSet, Owed
<1>10. ASSUME NEW h \in DOMAIN hp2
       PROVE  hp2[h].busy = Cardinality(UsedOf(us, h)) + Len(hp2[h].deferred)
                              + Cardinality(Owed(tasks2, places2, h, Thread))
  <2>1. CASE h \in DOMAIN hp
    BY <1>4, <1>5, <1>8, <2>1 DEF Kept
  <2>2. CASE h \in N
    <3>1. UsedOf(us, h) = {}
      BY <1>4, <1>5, <2>2 DEF Kept, UsedOf
    <3>2. Owed(tasks2, places2, h, Thread) = {}
      BY <1>8, <1>9, <2>2
    <3>3. hp2[h].busy = 0 /\ Len(hp2[h].deferred) = 0
      BY <1>5, <2>2, NewHeapZero
    <3>4. Cardinality({}) = 0
      BY FS_EmptySet
    <3>. QED
      BY <3>1, <3>2, <3>3, <3>4
  <2>. QED
    BY <1>5, <2>1, <2>2
<1>11. Kept(hp2, us, tasks2, places2)
  BY <1>4, <1>5, <1>10 DEF Kept
<1>. QED
  BY <1>3, <1>11, <1>p, <1>r, KeptWillBe

(* rpmalloc_thread_initialize()                                            *)
LEMMA ThreadInitKeeps ==
  ASSUME Inv, Limited, NEW t \in Thread, ThreadInit(t)
  PROVE  Inv' /\ Limited'
  BY HeapsMappedIs, InitOrphanKeeps, MappedKept, MappedPlaces, MappedTyped DEF Inv, Limited,
     HeapsMapped
---------------------------------------------------------------------------
(* What a heap holds is each of its pieces, once.                          *)
LEMMA IdlePiecesAre ==
  ASSUME NEW ht \in HeapType, Once(Slots(ht))
  PROVE  /\ IdlePieces(ht) \in Seq(PieceType) /\ IsInjective(IdlePieces(ht))
         /\ ToSet(IdlePieces(ht)) = Among(Slots(ht))
<1>c. PICK c : c = ht.cache
  OBVIOUS
<1>q. PICK q, a, b, d : /\ q = Joined(c) /\ a = PieceSeq(ht.class) /\ b = PieceSeq(ht.reserve)
                        /\ d = PiecesOf(ht.deferred)
  OBVIOUS
<1>1. /\ c \in [1 .. LargeCount -> Seq(CachedType)]
      /\ \A n \in 1 .. LargeCount : c[n] \in Seq(PieceType)
  BY <1>c, CachedIs, HeapIs
<1>2. c \in Seq(Seq(PieceType)) /\ DOMAIN c = 1 .. LargeCount
  BY <1>1, CountIs
<1>3. Once(c)
  <2>s. PICK Q : Q = Slots(ht)
    OBVIOUS
  <2>1. \A n \in 1 .. LargeCount : n \in DOMAIN Q /\ Q[n] = c[n]
    BY <1>c, <2>s, SlotsAre
  <2>. QED
    BY <1>2, <2>1, <2>s DEF Once
<1>4. q \in Seq(PieceType) /\ IsInjective(q) /\ ToSet(q) = Among(c)
  BY <1>2, <1>3, <1>q, JoinedIs
<1>5. Among(c) = UNION {ToSet(c[n]) : n \in 1 .. LargeCount}
  BY <1>2 DEF Among
<1>6. a \in Seq(PieceType) /\ IsInjective(a) /\ ToSet(a) = One(ht.class)
  BY <1>q, CachedIs, HeapIs, PieceSeqIs DEF PieceSeq
<1>7. b \in Seq(PieceType) /\ IsInjective(b) /\ ToSet(b) = One(ht.reserve)
  BY <1>q, CachedIs, HeapIs, PieceSeqIs DEF PieceSeq
<1>8. d \in Seq(PieceType) /\ IsInjective(d)
  BY <1>q, HeapIs, SeqIs, SlotHas, UseIs DEF PiecesOf
<1>9. /\ ToSet(q) \cap ToSet(a) = {} /\ ToSet(q) \cap ToSet(b) = {} /\ ToSet(q) \cap ToSet(d) = {}
      /\ ToSet(a) \cap ToSet(b) = {} /\ ToSet(a) \cap ToSet(d) = {} /\ ToSet(b) \cap ToSet(d) = {}
  <2>1. \A n \in 1 .. LargeCount : /\ ToSet(c[n]) \cap ToSet(a) = {}
                                   /\ ToSet(c[n]) \cap ToSet(b) = {}
                                   /\ ToSet(c[n]) \cap ToSet(d) = {}
    BY <1>6, <1>7, <1>c, <1>q, SlotHas
  <2>s. PICK Q : Q = Slots(ht)
    OBVIOUS
  <2>2. /\ 0 \in DOMAIN Q /\ -1 \in DOMAIN Q /\ -2 \in DOMAIN Q
        /\ Q[0] = a /\ Q[-1] = b /\ Q[-2] = d
    BY <1>q, <2>s, SlotsAre
  <2>3. \A k, l \in DOMAIN Q : k # l => ToSet(Q[k]) \cap ToSet(Q[l]) = {}
    BY <2>s, OnceIs
  <2>4. /\ ToSet(a) \cap ToSet(b) = {} /\ ToSet(a) \cap ToSet(d) = {}
        /\ ToSet(b) \cap ToSet(d) = {}
    BY <2>2, <2>3
  <2>. QED
    BY <1>4, <1>5, <2>1, <2>4
<1>x. PICK x, y : x = q \o a /\ y = x \o b
  OBVIOUS
<1>10. x \in Seq(PieceType) /\ IsInjective(x) /\ ToSet(x) = ToSet(q) \cup ToSet(a)
  BY <1>4, <1>6, <1>9, <1>x, JoinIs
<1>11. y \in Seq(PieceType) /\ IsInjective(y) /\ ToSet(y) = ToSet(x) \cup ToSet(b)
  <2>1. ToSet(x) \cap ToSet(b) = {}
    BY <1>9, <1>10
  <2>2. x \in Seq(PieceType) /\ b \in Seq(PieceType) /\ IsInjective(x) /\ IsInjective(b)
    BY <1>7, <1>10
  <2>3. /\ x \o b \in Seq(PieceType) /\ ToSet(x \o b) = ToSet(x) \cup ToSet(b)
        /\ IsInjective(x \o b)
    BY <2>1, <2>2, JoinIs
  <2>4. y = x \o b
    BY <1>x
  <2>. QED
    BY <2>3, <2>4
<1>z. PICK z : z = y \o d
  OBVIOUS
<1>12. z \in Seq(PieceType) /\ IsInjective(z) /\ ToSet(z) = ToSet(y) \cup ToSet(d)
  BY <1>z, <1>8, <1>9, <1>10, <1>11, JoinIs
<1>13. IdlePieces(ht) = z
  BY <1>c, <1>q, <1>x, <1>z, HeapIs, SeqIs DEF PiecesOf, IdlePieces
<1>14. ToSet(z) = Contents(ht)
  BY <1>4, <1>5, <1>6, <1>7, <1>10, <1>11, <1>12, <1>c, <1>q DEF Contents
<1>. QED
  BY <1>12, <1>13, <1>14, ContentsAre

AllIdle(ht) ==
  Joined([i \in 1 .. Cardinality(DOMAIN ht) |-> IdlePieces(ht[SetToSeq(DOMAIN ht)[i]])])

IdleIn(ht) == UNION {Among(Slots(ht[h])) : h \in DOMAIN ht}

(* What the heaps hold, one piece after the other.                         *)
LEMMA AllIdleIs ==
  ASSUME NEW D, IsFiniteSet(D), NEW ht \in [D -> HeapType],
         \A h \in D : Once(Slots(ht[h])),
         \A h, k \in D : h # k => Among(Slots(ht[h])) \cap Among(Slots(ht[k])) = {}
  PROVE  /\ AllIdle(ht) \in Seq(PieceType) /\ IsInjective(AllIdle(ht))
         /\ ToSet(AllIdle(ht)) = IdleIn(ht)
<1>s. PICK s : s = SetToSeq(D)
  OBVIOUS
<1>n. PICK n \in Nat : n = Cardinality(D)
  BY FS_CardinalityType
<1>1. /\ s \in Seq(D) /\ IsInjective(s) /\ ToSet(s) = D /\ Len(s) = n
      /\ DOMAIN s = 1 .. n /\ \A i \in 1 .. n : s[i] \in D
  BY <1>n, <1>s, SeqIs, SetToSeqIs
<1>q. PICK Q : Q = [i \in 1 .. n |-> IdlePieces(ht[s[i]])]
  OBVIOUS
<1>2. \A i \in 1 .. n : /\ Q[i] \in Seq(PieceType) /\ IsInjective(Q[i])
                        /\ ToSet(Q[i]) = Among(Slots(ht[s[i]]))
  BY <1>1, <1>q, IdlePiecesAre
<1>3. Q \in Seq(Seq(PieceType)) /\ DOMAIN Q = 1 .. n
  BY <1>2, <1>q
<1>4. Once(Q)
  <2>1. \A i, j \in 1 .. n : i # j => s[i] # s[j]
    BY <1>1 DEF IsInjective
  <2>2. \A i, j \in 1 .. n : i # j => ToSet(Q[i]) \cap ToSet(Q[j]) = {}
    BY <1>1, <1>2, <2>1
  <2>. QED
    BY <1>2, <1>3, <2>2, OnceIs
<1>5. Joined(Q) \in Seq(PieceType) /\ IsInjective(Joined(Q)) /\ ToSet(Joined(Q)) = Among(Q)
  BY <1>3, <1>4, JoinedIs
<1>6. Among(Q) = IdleIn(ht)
  <2>1. Among(Q) = UNION {Among(Slots(ht[s[i]])) : i \in 1 .. n}
    <3>1. {ToSet(Q[k]) : k \in DOMAIN Q} = {Among(Slots(ht[s[i]])) : i \in 1 .. n}
      BY <1>2, <1>3
    <3>. QED
      BY <3>1, Zenon DEF Among
  <2>2. \A h \in D : \E i \in 1 .. n : s[i] = h
    BY <1>1 DEF ToSet
  <2>3. UNION {Among(Slots(ht[s[i]])) : i \in 1 .. n} = UNION {Among(Slots(ht[h])) : h \in D}
    BY <1>1, <2>2
  <2>. QED
    BY <2>1, <2>3 DEF IdleIn
<1>7. AllIdle(ht) = Joined(Q)
  BY <1>n, <1>q, <1>s DEF AllIdle
<1>. QED
  BY <1>5, <1>6, <1>7
---------------------------------------------------------------------------
(* Pieces leave their groups and go nowhere else.                          *)
LEMMA Shrinks ==
  ASSUME NEW P, NEW Q, DOMAIN P = Keys, DOMAIN Q = Keys, Disjoint(P), NEW Out,
         \A k \in Keys : Q[k] \subseteq P[k] /\ P[k] \ Q[k] \subseteq Out,
         \A x \in Out : \E k \in Keys : x \in P[k] /\ x \notin Q[k]
  PROVE  Disjoint(Q) /\ Union(Q) = Union(P) \ Out
<1>1. Disjoint(Q)
  BY DEF Disjoint
<1>2. ASSUME NEW x \in Union(Q) PROVE x \in Union(P) \ Out
  <2>1. PICK k \in Keys : x \in Q[k]
    BY <1>2 DEF Union
  <2>2. x \in P[k]
    BY <2>1
  <2>3. x \notin Out
    <3>1. SUFFICES ASSUME x \in Out PROVE FALSE
      OBVIOUS
    <3>2. PICK l \in Keys : x \in P[l] /\ x \notin Q[l]
      BY <3>1
    <3>3. k = l
      BY <2>2, <3>2 DEF Disjoint
    <3>. QED
      BY <2>1, <3>2, <3>3
  <2>. QED
    BY <2>2, <2>3 DEF Union
<1>3. ASSUME NEW x \in Union(P) \ Out PROVE x \in Union(Q)
  BY <1>3 DEF Union
<1>. QED
  BY <1>1, <1>2, <1>3

(* The heaps that are left and the pieces of those that are not.           *)
Busy(ht) == ht.busy - Len(ht.deferred)
Stay(hp) == {h \in DOMAIN hp : Busy(hp[h]) # 0} \cup (DOMAIN heap \ DOMAIN hp)
Gone(hp) == {h[1] : h \in DOMAIN hp} \ {h[1] : h \in Stay(hp)}
GonePieces(hp) == {Piece(r, 0, 1) : r \in Gone(hp)}
After(hp) ==
  [h \in Stay(hp) |-> IF h \in DOMAIN hp THEN [NewHeap EXCEPT !.busy = Busy(hp[h])] ELSE heap[h]]

(* What the end does to the heaps and the regions.                         *)
LEMMA FinalizeIs ==
  ASSUME NEW hp, NEW rem, FinalizeHeaps(hp, rem)
  PROVE  /\ heap' = After(hp)
         /\ remaining' = UnmappedAll(rem, AllIdle(hp) \o SetToSeq(GonePieces(hp)))
BY DEF FinalizeHeaps, After, Stay, Gone, GonePieces, Busy, AllIdle

(* There are finitely many heaps and regions.                              *)
LEMMA HeapFinite == IsFiniteSet(Heap) /\ IsFiniteSet(Region)
<1>1. IsFiniteSet(1 .. Regions) /\ IsFiniteSet(1 .. HeapBatch)
  BY LimitAssumption, FS_Interval
<1>. QED
  BY <1>1, FS_Product DEF Heap, Region

(* No call is under way.                                                   *)
Quiet == \A t \in Thread : todo[t] = <<>> /\ got[t] = None

(* What is true when _rpmalloc_heap_global_finalize() begins with hp, and  *)
(* Out was unmapped before.                                                *)
Ends(hp, rem, Out) ==
  /\ DOMAIN hp \subseteq DOMAIN heap /\ hp \in [DOMAIN hp -> HeapType]
  /\ \A h \in DOMAIN hp :
       /\ Slots(hp[h]) = Slots(heap[h])
       /\ hp[h].busy = Cardinality(UsedOf(used', h)) + Len(hp[h].deferred)
  /\ \A h \in DOMAIN heap \ DOMAIN hp : UsedOf(used', h) = UsedOf(used, h)
  /\ RemOK(rem) /\ Accounted(rem, Union(Group) \ Out)
  /\ UseGood(used')

(* The caches and what is in use: they only lose, and they lose Out.       *)
OnlyLose(Out) ==
  /\ \A n \in 1 .. LargeCount :
       /\ QueueGood(global'[n]) /\ QueueGood(overflow'[n])
       /\ ToSet(global'[n]) \subseteq ToSet(global[n])
       /\ ToSet(overflow'[n]) \subseteq ToSet(overflow[n])
       /\ ToSet(global[n]) \ ToSet(global'[n]) \subseteq Out
       /\ ToSet(overflow[n]) \ ToSet(overflow'[n]) \subseteq Out
  /\ InUse' \subseteq InUse /\ InUse \ InUse' \subseteq Out
  /\ \A x \in Out :
       \/ \E n \in 1 .. LargeCount : x \in ToSet(global[n]) /\ x \notin ToSet(global'[n])
       \/ \E n \in 1 .. LargeCount : x \in ToSet(overflow[n]) /\ x \notin ToSet(overflow'[n])
       \/ x \in InUse /\ x \notin InUse'

(* The heaps that are left after the end: they hold nothing.               *)
LEMMA AfterIs ==
  ASSUME Inv, NEW hp, NEW rem, NEW Out, Ends(hp, rem, Out)
  PROVE  /\ Stay(hp) \subseteq DOMAIN heap /\ DOMAIN After(hp) = Stay(hp)
         /\ After(hp) \in [Stay(hp) -> HeapType]
         /\ \A h \in Stay(hp) : h \in DOMAIN hp =>
              /\ After(hp)[h] \in HeapType /\ Once(Slots(After(hp)[h]))
              /\ Among(Slots(After(hp)[h])) = {} /\ After(hp)[h].deferred = <<>>
              /\ After(hp)[h].busy = Cardinality(UsedOf(used', h))
         /\ \A h \in Stay(hp) : h \notin DOMAIN hp => h \in DOMAIN heap /\ After(hp)[h] = heap[h]
         /\ \A h \in DOMAIN heap \ Stay(hp) : h \in DOMAIN hp /\ Cardinality(UsedOf(used', h)) = 0
         /\ \A h \in Stay(hp) : h \in DOMAIN hp => Cardinality(UsedOf(used', h)) # 0
<1>1. /\ DOMAIN hp \subseteq DOMAIN heap /\ hp \in [DOMAIN hp -> HeapType]
      /\ \A h \in DOMAIN hp : hp[h].busy = Cardinality(UsedOf(used', h)) + Len(hp[h].deferred)
  BY DEF Ends
<1>2. heap \in [DOMAIN heap -> HeapType]
  BY MemoryHas
<1>3. ASSUME NEW h \in DOMAIN hp
      PROVE  Busy(hp[h]) \in Int /\ Busy(hp[h]) = Cardinality(UsedOf(used', h))
  BY <1>1, FS_CardinalityType, FS_Subset, HeapIs DEF Ends, UseGood, UsedOf, Busy
<1>p. PICK A, S : A = After(hp) /\ S = Stay(hp)
  OBVIOUS
<1>4. S \subseteq DOMAIN heap /\ DOMAIN A = S
  BY <1>1, <1>p DEF Stay, After
<1>5. ASSUME NEW h \in S, h \in DOMAIN hp
      PROVE  /\ A[h] \in HeapType /\ Once(Slots(A[h]))
             /\ Among(Slots(A[h])) = {} /\ A[h].deferred = <<>>
             /\ A[h].busy = Cardinality(UsedOf(used', h))
  BY <1>p, <1>3, <1>5, NewHeapIs DEF After
<1>6. ASSUME NEW h \in S, h \notin DOMAIN hp PROVE h \in DOMAIN heap /\ A[h] = heap[h]
  BY <1>4, <1>6, <1>p DEF After
<1>7. A \in [S -> HeapType]
  BY <1>p, <1>2, <1>5, <1>6 DEF After
<1>8. \A h \in DOMAIN heap \ S : h \in DOMAIN hp /\ Cardinality(UsedOf(used', h)) = 0
  BY <1>3, <1>p DEF Stay
<1>9. \A h \in S : h \in DOMAIN hp => Cardinality(UsedOf(used', h)) # 0
  BY <1>3, <1>p DEF Stay
<1>. QED
  BY <1>4, <1>5, <1>6, <1>7, <1>8, <1>9, <1>p
---------------------------------------------------------------------------
(* The end of rpmalloc, or a later try of one heap.                        *)
Final(hp, rem, Out) ==
  /\ Ends(hp, rem, Out) /\ OnlyLose(Out) /\ Quiet
  /\ FinalizeHeaps(hp, rem) /\ finalized' = "done"
  /\ global' \in [1 .. LargeCount -> Seq(CachedType)]
  /\ overflow' \in [1 .. LargeCount -> Seq(CachedType)]
  /\ UNCHANGED <<orphans, mine, at, todo, got>>

(* No thread is in a call.                                                 *)
LEMMA QuietThreads ==
  ASSUME Quiet, UNCHANGED <<todo, got>>, NEW t \in Thread
  PROVE  InThread(t) = {} /\ InThread(t)' = {} /\ todo'[t] = <<>> /\ got'[t] = None
  BY CallNone DEF Quiet, InThread, One

(* What is taken away at the end.                                          *)
LEMMA LostIs ==
  ASSUME Inv, NEW hp, NEW rem, NEW Out, Final(hp, rem, Out)
  PROVE  LET Lost == Out \cup IdleIn(hp) \cup GonePieces(hp)
         IN  /\ \A k \in Keys : Group'[k] \subseteq Group[k] /\ Group[k] \ Group'[k] \subseteq Lost
             /\ \A x \in Lost : \E k \in Keys : x \in Group[k] /\ x \notin Group'[k]
<1>l. PICK Lost : Lost = Out \cup IdleIn(hp) \cup GonePieces(hp)
  OBVIOUS
<1>g. PICK P, Q : P = Group /\ Q = Group'
  OBVIOUS
<1>s. PICK S, D : S = Stay(hp) /\ D = DOMAIN hp
  OBVIOUS
<1>1. /\ D \subseteq DOMAIN heap /\ \A h \in D : Slots(hp[h]) = Slots(heap[h])
      /\ S \subseteq DOMAIN heap /\ DOMAIN heap' = S
      /\ \A h \in S : h \in D => Among(Slots(heap'[h])) = {}
      /\ \A h \in S : h \notin D => heap'[h] = heap[h]
      /\ \A h \in DOMAIN heap \ S : h \in D
  BY <1>s, AfterIs, FinalizeIs DEF Final, Ends
<1>2. IdleIn(hp) = UNION {Among(Slots(heap[h])) : h \in D}
  BY <1>1, <1>s DEF IdleIn
<1>3. OnlyLose(Out)
  BY DEF Final
<1>4. ASSUME NEW h \in Heap
      PROVE  /\ Q[<<"heap", h>>] \subseteq P[<<"heap", h>>]
             /\ P[<<"heap", h>>] \ Q[<<"heap", h>>] \subseteq Lost
             /\ h \in D => Q[<<"heap", h>>] = {}
  BY <1>g, <1>l, <1>1, <1>2, GroupIs, GroupWillBe DEF InHeap
<1>5. ASSUME NEW n \in 1 .. LargeCount
      PROVE  /\ P[<<"global", n>>] = ToSet(global[n]) /\ Q[<<"global", n>>] = ToSet(global'[n])
             /\ P[<<"overflow", n>>] = ToSet(overflow[n])
             /\ Q[<<"overflow", n>>] = ToSet(overflow'[n])
             /\ Q[<<"global", n>>] \subseteq P[<<"global", n>>]
             /\ P[<<"global", n>>] \ Q[<<"global", n>>] \subseteq Lost
             /\ Q[<<"overflow", n>>] \subseteq P[<<"overflow", n>>]
             /\ P[<<"overflow", n>>] \ Q[<<"overflow", n>>] \subseteq Lost
  BY <1>g, <1>l, <1>3, GroupIs, GroupWillBe DEF OnlyLose
<1>6. ASSUME NEW t \in Thread PROVE P[<<"thread", t>>] = {} /\ Q[<<"thread", t>>] = {}
  BY <1>g, GroupIs, GroupWillBe, QuietThreads DEF Final
<1>7. /\ P[<<"used", 0>>] = InUse /\ Q[<<"used", 0>>] = InUse'
      /\ InUse' \subseteq InUse /\ InUse \ InUse' \subseteq Lost
  BY <1>3, <1>g, <1>l, GroupIs, GroupWillBe DEF OnlyLose
<1>8. /\ P[<<"memory", 0>>] = InMemory /\ Q[<<"memory", 0>>] = InMemory'
      /\ InMemory = {Piece(h[1], 0, 1) : h \in DOMAIN heap}
      /\ InMemory' = {Piece(h[1], 0, 1) : h \in S}
  BY <1>g, <1>1, GroupIs, GroupWillBe DEF InMemory
<1>9. /\ InMemory' \subseteq InMemory /\ InMemory \ InMemory' \subseteq Lost
  BY <1>l, <1>s, <1>1, <1>8 DEF Gone, GonePieces
<1>10. ASSUME NEW x \in GonePieces(hp) PROVE x \in InMemory /\ x \notin InMemory'
  BY <1>s, <1>1, <1>8 DEF GonePieces, Gone, Piece
<1>11. ASSUME NEW k \in Keys PROVE Q[k] \subseteq P[k] /\ P[k] \ Q[k] \subseteq Lost
  <2>1. \/ \E h \in Heap : k = <<"heap", h>>
        \/ \E n \in 1 .. LargeCount : k = <<"global", n>> \/ k = <<"overflow", n>>
        \/ \E t \in Thread : k = <<"thread", t>>
        \/ k = <<"used", 0>> \/ k = <<"memory", 0>>
    BY KeysAre
  <2>2. CASE \E h \in Heap : k = <<"heap", h>>
    BY <1>4, <2>2
  <2>3. CASE \E n \in 1 .. LargeCount : k = <<"global", n>> \/ k = <<"overflow", n>>
    BY <1>5, <2>3
  <2>4. CASE \E t \in Thread : k = <<"thread", t>>
    BY <1>6, <2>4
  <2>5. CASE k = <<"used", 0>> \/ k = <<"memory", 0>>
    BY <1>7, <1>8, <1>9, <2>5
  <2>. QED
    BY <2>1, <2>2, <2>3, <2>4, <2>5
<1>12. ASSUME NEW x \in Lost PROVE \E k \in Keys : x \in P[k] /\ x \notin Q[k]
  <2>1. CASE x \in Out
    <3>1. \/ \E n \in 1 .. LargeCount : x \in ToSet(global[n]) /\ x \notin ToSet(global'[n])
          \/ \E n \in 1 .. LargeCount : x \in ToSet(overflow[n]) /\ x \notin ToSet(overflow'[n])
          \/ x \in InUse /\ x \notin InUse'
      BY <1>3, <2>1 DEF OnlyLose
    <3>2. CASE \E n \in 1 .. LargeCount : x \in ToSet(global[n]) /\ x \notin ToSet(global'[n])
      BY <1>5, <3>2, KeysAre
    <3>3. CASE \E n \in 1 .. LargeCount : x \in ToSet(overflow[n]) /\ x \notin ToSet(overflow'[n])
      BY <1>5, <3>3, KeysAre
    <3>4. CASE x \in InUse /\ x \notin InUse'
      BY <1>7, <3>4, KeysAre
    <3>. QED
      BY <3>1, <3>2, <3>3, <3>4
  <2>2. CASE x \in IdleIn(hp)
    <3>1. PICK h \in D : x \in Among(Slots(heap[h]))
      BY <1>2, <2>2
    <3>2. h \in Heap /\ h \in DOMAIN heap
      BY <1>1, <3>1, MemoryHas
    <3>3. P[<<"heap", h>>] = Among(Slots(heap[h]))
      BY <1>g, <3>2, GroupIs DEF InHeap
    <3>4. Q[<<"heap", h>>] = {}
      BY <1>4, <3>1, <3>2
    <3>5. <<"heap", h>> \in Keys
      BY <3>2, KeysAre
    <3>. QED
      BY <3>1, <3>3, <3>4, <3>5
  <2>3. CASE x \in GonePieces(hp)
    BY <1>8, <1>10, <2>3, KeysAre
  <2>. QED
    BY <1>l, <2>1, <2>2, <2>3
<1>. QED
  BY <1>11, <1>12, <1>g, <1>l

(* The regions of the heaps that go.                                       *)
LEMMA GoneAre ==
  ASSUME Inv, NEW hp, NEW rem, NEW Out, Ends(hp, rem, Out)
  PROVE  IsFiniteSet(GonePieces(hp)) /\ GonePieces(hp) \in SUBSET PieceType
<1>1. Gone(hp) \subseteq Region
  BY MemoryHas DEF Ends, Heap, Gone
<1>2. IsFiniteSet(Gone(hp))
  BY <1>1, HeapFinite, FS_Subset
<1>3. IsFiniteSet(GonePieces(hp))
  <2>f. PICK f : f = [r \in Gone(hp) |-> Piece(r, 0, 1)]
    OBVIOUS
  <2>1. f \in [Gone(hp) -> GonePieces(hp)]
    BY <2>f DEF GonePieces
  <2>2. \A p \in GonePieces(hp) : \E r \in Gone(hp) : f[r] = p
    BY <2>f DEF GonePieces
  <2>3. f \in Surjection(Gone(hp), GonePieces(hp))
    BY <2>1, <2>2 DEF Surjection
  <2>. QED
    BY <1>2, <2>3, FS_Surjection
<1>4. \A r \in Region : Piece(r, 0, 1) \in PieceType
  BY DEF Piece, PieceType
<1>. QED
  BY <1>1, <1>3, <1>4 DEF GonePieces
---------------------------------------------------------------------------
(* What the end gives back, piece by piece: nothing is unmapped twice.     *)
LEMMA FinalUnmaps ==
  ASSUME Inv, NEW hp, NEW rem, NEW Out, Final(hp, rem, Out)
  PROVE  LET Lost == Out \cup IdleIn(hp) \cup GonePieces(hp)
         IN  RemOK(remaining') /\ Accounted(remaining', Union(Group) \ Lost)
<1>l. PICK Lost : Lost = Out \cup IdleIn(hp) \cup GonePieces(hp)
  OBVIOUS
<1>d. PICK D : D = DOMAIN hp
  OBVIOUS
<1>a. PICK All : All = Union(Group) \ Out
  OBVIOUS
<1>i. PICK I, M : I = IdleIn(hp) /\ M = GonePieces(hp)
  OBVIOUS
<1>1. /\ D \subseteq DOMAIN heap /\ D \subseteq Heap /\ hp \in [D -> HeapType]
      /\ \A h \in D : Slots(hp[h]) = Slots(heap[h])
      /\ RemOK(rem) /\ Accounted(rem, All)
  BY <1>a, <1>d, MemoryHas DEF Final, Ends
<1>2. IsFiniteSet(D)
  BY <1>1, HeapFinite, FS_Subset
<1>3. \A h \in D : Once(Slots(hp[h]))
  BY <1>1, HeapHas
<1>4. \A h \in D : /\ <<"heap", h>> \in Keys
                   /\ Group[<<"heap", h>>] = Among(Slots(hp[h]))
  BY <1>1, GroupIs, KeysAre DEF InHeap
<1>5. Disjoint(Group) /\ DOMAIN Group = Keys
  BY MemoryHas, GroupIs
<1>6. \A h, k \in D : h # k => Among(Slots(hp[h])) \cap Among(Slots(hp[k])) = {}
  BY <1>4, <1>5 DEF Disjoint
<1>x. PICK x : x = AllIdle(hp)
  OBVIOUS
<1>7. x \in Seq(PieceType) /\ IsInjective(x) /\ ToSet(x) = I
  BY <1>1, <1>2, <1>3, <1>6, <1>i, <1>x, AllIdleIs
<1>y. PICK y : y = SetToSeq(M)
  OBVIOUS
<1>8. y \in Seq(PieceType) /\ IsInjective(y) /\ ToSet(y) = M
  BY <1>i, <1>y, GoneAre, SetToSeqIs DEF Final
<1>10. I \subseteq UNION {Group[<<"heap", h>>] : h \in D}
  BY <1>d, <1>i, <1>4 DEF IdleIn
<1>11. M \subseteq Group[<<"memory", 0>>] /\ <<"memory", 0>> \in Keys
  BY <1>d, <1>i, <1>1, GroupIs, KeysAre DEF GonePieces, Gone, InMemory
<1>12. \A p \in Out : \E k \in Keys : /\ p \in Group[k] /\ k # <<"memory", 0>>
                                      /\ \A h \in D : k # <<"heap", h>>
  <2>1. ASSUME NEW p \in Out
        PROVE  \/ \E n \in 1 .. LargeCount : p \in ToSet(global[n])
               \/ \E n \in 1 .. LargeCount : p \in ToSet(overflow[n])
               \/ p \in InUse
    BY DEF Final, OnlyLose
  <2>2. ASSUME NEW p \in Out
        PROVE  \/ \E n \in 1 .. LargeCount : p \in Group[<<"global", n>>]
               \/ \E n \in 1 .. LargeCount : p \in Group[<<"overflow", n>>]
               \/ p \in Group[<<"used", 0>>]
    BY <2>1, GroupIs
  <2>. QED
    BY <2>2, KeysAre
<1>13. I \cap M = {} /\ I \cap Out = {} /\ M \cap Out = {}
  <2>g. PICK P : P = Group
    OBVIOUS
  <2>1. \A k, l \in Keys : k # l => P[k] \cap P[l] = {}
    BY <1>5, <2>g DEF Disjoint
  <2>2. ASSUME NEW p \in I, p \in M PROVE FALSE
    <3>1. PICK h \in D : p \in P[<<"heap", h>>]
      BY <1>10, <2>g
    <3>2. p \in P[<<"memory", 0>>]
      BY <1>11, <2>2, <2>g
    <3>3. <<"heap", h>> # <<"memory", 0>>
      OBVIOUS
    <3>. QED
      BY <1>4, <1>11, <2>1, <3>1, <3>2, <3>3
  <2>3. ASSUME NEW p \in Out, p \in I \/ p \in M PROVE FALSE
    <3>1. PICK k \in Keys : /\ p \in P[k] /\ k # <<"memory", 0>>
                            /\ \A h \in D : k # <<"heap", h>>
      BY <1>12, <2>g
    <3>2. CASE p \in I
      <4>1. PICK h \in D : p \in P[<<"heap", h>>]
        BY <1>10, <2>g, <3>2
      <4>. QED
        BY <1>4, <2>1, <3>1, <4>1
    <3>3. CASE p \in M
      BY <1>11, <2>1, <2>g, <3>1, <3>3
    <3>. QED
      BY <2>3, <3>2, <3>3
  <2>. QED
    BY <2>2, <2>3
<1>14. I \subseteq All /\ M \subseteq All
  BY <1>a, <1>4, <1>5, <1>10, <1>11, <1>13 DEF Union
<1>z. PICK z : z = x \o y
  OBVIOUS
<1>15. z \in Seq(PieceType) /\ IsInjective(z) /\ ToSet(z) = I \cup M
  BY <1>z, <1>7, <1>8, <1>13, JoinIs
<1>16. remaining' = UnmappedAll(rem, z)
  BY <1>i, <1>x, <1>y, <1>z, FinalizeIs DEF Final
<1>17. ToSet(z) \subseteq All
  BY <1>14, <1>15
<1>18. RemOK(remaining') /\ Accounted(remaining', All \ ToSet(z))
  BY <1>1, <1>15, <1>16, <1>17, UnmapAllIs
<1>19. All \ ToSet(z) = Union(Group) \ Lost
  BY <1>15, <1>a, <1>i, <1>l
<1>. QED
  BY <1>18, <1>19, <1>l
---------------------------------------------------------------------------
(* The types after the end.                                                *)
LEMMA FinalTyped ==
  ASSUME Inv, NEW hp, NEW rem, NEW Out, Final(hp, rem, Out)
  PROVE  TypeOK' /\ (\A t \in Thread : CallOK(t))' /\ HeapsOK'
<1>1. TypeOK /\ \A t \in Thread : todo'[t] = <<>> /\ got'[t] = None
  BY QuietThreads DEF Inv, Final
<1>2. UNCHANGED <<orphans, mine, at, todo, got>> /\ finalized' = "done"
  BY DEF Final
<1>s. PICK S, D : S = Stay(hp) /\ D = DOMAIN hp
  OBVIOUS
<1>3. /\ S \subseteq DOMAIN heap /\ DOMAIN heap' = S /\ heap' \in [S -> HeapType]
      /\ \A h \in DOMAIN heap \ S : h \in D /\ Cardinality(UsedOf(used', h)) = 0
  BY <1>s, AfterIs, FinalizeIs DEF Final
<1>4. UseGood(used')
  BY DEF Final, Ends
<1>5. RemOK(remaining')
  BY FinalUnmaps
<1>6. TypeOK'
  BY <1>1, <1>2, <1>3, <1>4, <1>5 DEF TypeOK, UseGood, Final, RemOK
<1>7. (\A t \in Thread : CallOK(t))'
  BY <1>1 DEF CallOK
<1>8. HeapsOK'
  <2>1. ASSUME NEW u \in used' PROVE u.h \in DOMAIN heap'
    <3>1. u.h \in DOMAIN heap
      BY <1>4 DEF UseGood
    <3>2. u \in UsedOf(used', u.h) /\ IsFiniteSet(UsedOf(used', u.h))
      BY <1>4, FS_Subset DEF UseGood, UsedOf
    <3>3. Cardinality(UsedOf(used', u.h)) # 0
      BY <3>2, FS_EmptySet
    <3>. QED
      BY <1>3, <3>1, <3>3
  <2>. QED
    BY <1>2, <2>1 DEF HeapsOK
<1>. QED
  BY <1>6, <1>7, <1>8

(* The places after the end.                                               *)
LEMMA FinalPlaces ==
  ASSUME Inv, NEW hp, NEW rem, NEW Out, Final(hp, rem, Out)
  PROVE  PlacesOK'
<1>l. PICK Lost : Lost = Out \cup IdleIn(hp) \cup GonePieces(hp)
  OBVIOUS
<1>g. PICK P, Q : P = Group /\ Q = Group'
  OBVIOUS
<1>1. /\ \A k \in Keys : Q[k] \subseteq P[k] /\ P[k] \ Q[k] \subseteq Lost
      /\ \A x \in Lost : \E k \in Keys : x \in P[k] /\ x \notin Q[k]
  BY <1>g, <1>l, LostIs
<1>2. DOMAIN P = Keys /\ DOMAIN Q = Keys /\ Disjoint(P)
  BY <1>g, GroupIs, GroupWillBe, MemoryHas
<1>3. Disjoint(Q) /\ Union(Q) = Union(P) \ Lost
  BY <1>1, <1>2, Shrinks
<1>4. Disjoint(Group)' /\ Union(Group)' = Union(Group) \ Lost
  BY <1>3, <1>g DEF Disjoint, Union
<1>5. Accounted(remaining', Union(Group) \ Lost)
  BY <1>l, FinalUnmaps
<1>6. Accounted(remaining, Union(Group))'
  BY <1>4, <1>5 DEF Accounted
<1>s. PICK S, D : S = Stay(hp) /\ D = DOMAIN hp
  OBVIOUS
<1>7. /\ S \subseteq DOMAIN heap /\ DOMAIN heap' = S
      /\ \A h \in S : h \in D => Once(Slots(heap'[h]))
      /\ \A h \in S : h \notin D => heap'[h] = heap[h]
  BY <1>s, AfterIs, FinalizeIs DEF Final
<1>8. GroupsOnce'
  BY <1>7, CallNone, HeapHas, QuietThreads DEF Final, OnlyLose, QueueGood, Ends, UseGood,
     GroupsOnce
<1>. QED
  BY <1>4, <1>6, <1>8 DEF PlacesOK

(* Without calls nothing is to be deferred again.                          *)
LEMMA NothingOwed ==
  ASSUME NEW tasks, \A s \in Thread : tasks[s] = <<>>, NEW places, NEW h
  PROVE  Owed(tasks, places, h, Thread) = {}
  BY DEF OwedSet, Owed

(* The busy counts after the end.                                          *)
LEMMA FinalKept ==
  ASSUME Inv, NEW hp, NEW rem, NEW Out, Final(hp, rem, Out)
  PROVE  HeapsKept'
<1>1. HeapsOK' /\ HeapsKept
  BY FinalTyped DEF Inv
<1>p. PICK hq, hq2, us, us2, tasks, places : /\ hq = heap /\ hq2 = heap' /\ us = used /\ us2 = used'
                                             /\ tasks = todo /\ places = at
  OBVIOUS
<1>2. Kept(hq, us, tasks, places)
  BY <1>1, <1>p, KeptIs
<1>3. \A s \in Thread : tasks[s] = <<>>
  BY <1>p DEF Final, Quiet
<1>4. \A h : Owed(tasks, places, h, Thread) = {}
  BY <1>3, NothingOwed
<1>s. PICK S, D : S = Stay(hp) /\ D = DOMAIN hp
  OBVIOUS
<1>5. /\ S \subseteq DOMAIN hq /\ DOMAIN hq2 = S
      /\ \A h \in S : h \in D => hq2[h].deferred = <<>> /\ hq2[h].busy = Cardinality(UsedOf(us2, h))
      /\ \A h \in S : h \notin D => hq2[h] = hq[h]
  BY <1>p, <1>s, AfterIs, FinalizeIs DEF Final
<1>6. \A h \in DOMAIN hq \ D : UsedOf(us2, h) = UsedOf(us, h)
  BY <1>p, <1>s DEF Final, Ends
<1>7. ASSUME NEW h \in S
      PROVE  hq2[h].busy = Cardinality(UsedOf(us2, h)) + Len(hq2[h].deferred)
                             + Cardinality(Owed(tasks, places, h, Thread))
  BY <1>p, <1>2, <1>4, <1>5, <1>6, FS_CardinalityType, FS_EmptySet, FS_Subset DEF Final, Ends,
     UseGood, UsedOf, Kept
<1>8. \A u \in us2 : u.h \in DOMAIN hq2
  BY <1>1, <1>p DEF HeapsOK
<1>9. Kept(hq2, us2, tasks, places)
  BY <1>5, <1>7, <1>8 DEF Kept
<1>10. todo' = todo /\ at' = at
  BY DEF Final
<1>. QED
  BY <1>9, <1>10, <1>p, KeptWillBe

(* The invariant after the end.                                            *)
LEMMA FinalKeeps ==
  ASSUME Inv, NEW hp, NEW rem, NEW Out, Final(hp, rem, Out)
  PROVE  Inv'
BY FinalTyped, FinalPlaces, FinalKept DEF Inv
---------------------------------------------------------------------------
(* No call is under way: nothing is owed or carried.                       *)
LEMMA QuietIs ==
  ASSUME Inv, \A t \in Thread : todo[t] = <<>>
  PROVE  Quiet
  BY CallHas DEF Shape, Quiet

(* After the end no call is under way.                                     *)
LEMMA DoneQuiet ==
  ASSUME Inv, finalized = "done"
  PROVE  Quiet
  BY CallHas, QuietIs

(* With nothing owed, the count of a heap is what is in use and deferred.  *)
LEMMA QuietKept ==
  ASSUME Inv, Quiet, NEW h \in DOMAIN heap
  PROVE  /\ heap[h].busy = Cardinality(UsedOf(used, h)) + Len(heap[h].deferred)
         /\ Cardinality(UsedOf(used, h)) \in Nat /\ Len(heap[h].deferred) \in Nat
  BY FS_CardinalityType, FS_EmptySet, FS_Subset, HeapHas, HeapIs, KeptIs, MemoryHas, NothingOwed
     DEF Inv, Quiet, UsedOf, Kept

CachesHold == Among(global) \cup Among(overflow)

(* The global caches, each piece once.                                     *)
LEMMA CachesJoined ==
  ASSUME Inv
  PROVE  LET z == Joined(global) \o Joined(overflow)
         IN  z \in Seq(PieceType) /\ IsInjective(z) /\ ToSet(z) = CachesHold
<1>q. PICK x, y : x = Joined(global) /\ y = Joined(overflow)
  OBVIOUS
<1>g. PICK g, o : g = global /\ o = overflow
  OBVIOUS
<1>1. /\ \A n \in 1 .. LargeCount : /\ g[n] \in Seq(CachedType) /\ IsInjective(g[n])
                                    /\ o[n] \in Seq(CachedType) /\ IsInjective(o[n])
      /\ DOMAIN g = 1 .. LargeCount /\ DOMAIN o = 1 .. LargeCount
      /\ g \in [1 .. LargeCount -> Seq(CachedType)] /\ o \in [1 .. LargeCount -> Seq(CachedType)]
  BY <1>g, CacheHas DEF Inv, TypeOK
<1>2. \A s \in Seq(CachedType) : s \in Seq(PieceType)
  BY CachedIs
<1>3. g \in Seq(Seq(PieceType)) /\ o \in Seq(Seq(PieceType))
  BY <1>1, <1>2, CountIs
<1>4. /\ \A n, m \in 1 .. LargeCount : n # m => ToSet(g[n]) \cap ToSet(g[m]) = {}
      /\ \A n, m \in 1 .. LargeCount : n # m => ToSet(o[n]) \cap ToSet(o[m]) = {}
      /\ \A n, m \in 1 .. LargeCount : ToSet(g[n]) \cap ToSet(o[m]) = {}
  <2>p. PICK P : P = Group
    OBVIOUS
  <2>1. \A k, l \in Keys : k # l => P[k] \cap P[l] = {}
    BY <2>p, MemoryHas, GroupIs DEF Disjoint
  <2>2. \A n \in 1 .. LargeCount : /\ P[<<"global", n>>] = ToSet(g[n]) /\ <<"global", n>> \in Keys
                                   /\ P[<<"overflow", n>>] = ToSet(o[n])
                                   /\ <<"overflow", n>> \in Keys
    BY <1>g, <2>p, GroupIs, KeysAre
  <2>3. \A n, m \in 1 .. LargeCount : /\ n # m => <<"global", n>> # <<"global", m>>
                                      /\ n # m => <<"overflow", n>> # <<"overflow", m>>
                                      /\ <<"global", n>> # <<"overflow", m>>
    OBVIOUS
  <2>. QED
    BY <2>1, <2>2, <2>3
<1>5. Once(g) /\ Once(o)
  BY <1>1, <1>4, OnceIs
<1>6. /\ x \in Seq(PieceType) /\ IsInjective(x) /\ ToSet(x) = Among(g)
      /\ y \in Seq(PieceType) /\ IsInjective(y) /\ ToSet(y) = Among(o)
  BY <1>3, <1>5, <1>g, <1>q, JoinedIs
<1>7. ToSet(x) \cap ToSet(y) = {}
  BY <1>1, <1>4, <1>6 DEF Among
<1>8. x \o y \in Seq(PieceType) /\ IsInjective(x \o y) /\ ToSet(x \o y) = ToSet(x) \cup ToSet(y)
  BY <1>6, <1>7, JoinIs
<1>. QED
  BY <1>6, <1>8, <1>g, <1>q DEF CachesHold

(* rpmalloc_finalize() is such an end.                                     *)
LEMMA FinalizeIsFinal ==
  ASSUME Inv, Finalize
  PROVE  \E rem : Final(heap, rem, CachesHold)
<1>r. PICK rem : rem = UnmappedAll(remaining, Joined(global) \o Joined(overflow))
  OBVIOUS
<1>z. PICK z : z = Joined(global) \o Joined(overflow)
  OBVIOUS
<1>1. /\ FinalizeHeaps(heap, rem) /\ finalized' = "done"
      /\ UNCHANGED <<orphans, used, mine, at, todo, got>>
  BY <1>r DEF Finalize, threads
<1>2. Quiet
  BY QuietIs DEF Finalize
<1>3. z \in Seq(PieceType) /\ IsInjective(z) /\ ToSet(z) = CachesHold
  BY <1>z, CachesJoined
<1>4. DOMAIN global = 1 .. LargeCount /\ DOMAIN overflow = 1 .. LargeCount
  BY DEF Inv, TypeOK
<1>5. CachesHold \subseteq Union(Group)
  <2>p. PICK P : P = Group
    OBVIOUS
  <2>1. \A n \in 1 .. LargeCount : /\ P[<<"global", n>>] = ToSet(global[n])
                                   /\ P[<<"overflow", n>>] = ToSet(overflow[n])
                                   /\ <<"global", n>> \in DOMAIN P /\ <<"overflow", n>> \in DOMAIN P
    BY <2>p, GroupIs, KeysAre
  <2>2. CachesHold \subseteq Union(P)
    BY <1>4, <2>1 DEF CachesHold, Among, Union
  <2>. QED
    BY <2>2, <2>p
<1>6. RemOK(rem) /\ Accounted(rem, Union(Group) \ CachesHold)
  BY <1>r, <1>z, <1>3, <1>5, MemoryHas, UnmapAllIs
<1>7. /\ \A n \in 1 .. LargeCount : global'[n] = <<>> /\ overflow'[n] = <<>>
      /\ global' = [n \in 1 .. LargeCount |-> <<>>] /\ overflow' = [n \in 1 .. LargeCount |-> <<>>]
  BY <1>4 DEF Finalize
<1>8. /\ global' \in [1 .. LargeCount -> Seq(CachedType)]
      /\ overflow' \in [1 .. LargeCount -> Seq(CachedType)]
  BY <1>7
<1>9. OnlyLose(CachesHold)
  BY <1>1, <1>4, <1>7, NoneInEmpty DEF QueueGood, CachesHold, Among, InUse, OnlyLose
<1>10. UseGood(used')
  BY <1>1, UseStays
<1>11. Ends(heap, rem, CachesHold)
  BY <1>1, <1>2, <1>6, <1>10, MemoryHas, QuietKept DEF Ends
<1>. QED
  BY <1>1, <1>2, <1>8, <1>9, <1>11 DEF Final

(* rpmalloc_finalize()                                                     *)
LEMMA FinalizeKeeps ==
  ASSUME Inv, Finalize
  PROVE  Inv' /\ Limited'
  BY FinalKeeps, FinalizeIsFinal, LimitAssumption DEF Finalize, Inv, TypeOK, Limited
---------------------------------------------------------------------------
(* A large span freed after the end: its heap tries again to go.           *)
LEMMA LateTry ==
  ASSUME Inv, NEW u \in used, finalized = "done", used' = used \ {u},
         NEW hp, hp = [h \in {u.h} |-> Lighter(heap[u.h])],
         FinalizeHeaps(hp, Unmapped(remaining, u.p)),
         UNCHANGED <<orphans, global, overflow, mine, at, todo, got, finalized>>
  PROVE  Final(hp, Unmapped(remaining, u.p), {u.p})
<1>h. PICK h \in DOMAIN heap : h = u.h
  BY DEF Inv, HeapsOK
<1>c. PICK c : UsedLess(u, used', c)
  BY UseLess
<1>1. /\ UseGood(used') /\ u.p \in InUse /\ {v.p : v \in used'} = InUse \ {u.p}
      /\ c \in Nat /\ Cardinality(UsedOf(used', h)) = c /\ Cardinality(UsedOf(used, h)) = c + 1
      /\ \A k : k # h => UsedOf(used', k) = UsedOf(used, k)
  BY <1>c, <1>h DEF UsedLess
<1>2. Quiet
  BY DoneQuiet
<1>l. PICK ht : ht = Lighter(heap[h])
  OBVIOUS
<1>3. SameBut(ht, heap[h], heap[h].busy - 1)
  BY <1>l, HeapHas, LighterIs
<1>4. hp \in [{h} -> HeapType] /\ hp[h] = ht /\ DOMAIN hp = {h}
  BY <1>3, <1>h, <1>l DEF SameBut
<1>5. ht.busy = Cardinality(UsedOf(used', h)) + Len(ht.deferred)
  <2>1. /\ heap[h].busy = Cardinality(UsedOf(used, h)) + Len(heap[h].deferred)
        /\ Len(heap[h].deferred) \in Nat
    BY <1>2, QuietKept
  <2>2. ht.busy = heap[h].busy - 1 /\ ht.deferred = heap[h].deferred
    BY <1>3 DEF SameBut
  <2>b. heap[h].busy \in Int
    BY HeapHas, HeapIs
  <2>l. PICK b \in Int, l \in Nat : b = heap[h].busy /\ l = Len(heap[h].deferred)
    BY <2>1, <2>b
  <2>3. b = (c + 1) + l
    BY <1>1, <2>1, <2>l
  <2>4. b - 1 = c + l
    BY <1>1, <2>3
  <2>. QED
    BY <1>1, <2>2, <2>4, <2>l
<1>6. RemOK(Unmapped(remaining, u.p)) /\ Accounted(Unmapped(remaining, u.p), Union(Group) \ {u.p})
  BY <1>1, GroupIs, KeysAre, UnmapPiece DEF Union
<1>7. Ends(hp, Unmapped(remaining, u.p), {u.p})
  BY <1>1, <1>3, <1>4, <1>5, <1>6 DEF SameBut, Ends
<1>8. OnlyLose({u.p})
  BY <1>1, CacheHas DEF QueueGood, InUse, OnlyLose
<1>9. /\ global' \in [1 .. LargeCount -> Seq(CachedType)]
      /\ overflow' \in [1 .. LargeCount -> Seq(CachedType)]
  BY DEF Inv, TypeOK
<1>. QED
  BY <1>2, <1>7, <1>8, <1>9 DEF Final

(* Another piece freed after the end.                                      *)
LateOne(u) ==
  /\ finalized = "done" /\ used' = used \ {u}
  /\ heap' = [heap EXCEPT ![u.h] = Lighter(heap[u.h])] /\ remaining' = Unmapped(remaining, u.p)
  /\ UNCHANGED <<orphans, global, overflow, mine, at, todo, got, finalized>>

(* A span freed after the end whose heap still has others in use.          *)
LEMMA LateOneIs ==
  ASSUME Inv, NEW u \in used, LateOne(u)
  PROVE  \E h \in DOMAIN heap, c \in Nat, ht \in HeapType :
           /\ h = u.h /\ ht = Lighter(heap[h]) /\ SameBut(ht, heap[h], heap[h].busy - 1)
           /\ HeapGood(ht) /\ heap' = [heap EXCEPT ![h] = ht] /\ DOMAIN heap' = DOMAIN heap
           /\ heap'[h] = ht /\ (\A k \in DOMAIN heap : k # h => heap'[k] = heap[k])
           /\ UseGood(used') /\ u.p \in InUse /\ InUse' = InUse \ {u.p}
           /\ Cardinality(UsedOf(used', h)) = c /\ Cardinality(UsedOf(used, h)) = c + 1
           /\ \A k : k # h => UsedOf(used', k) = UsedOf(used, k)
  BY HeapHas, LighterIs, UseLess DEF Inv, HeapsOK, LateOne, UsedLess, InUse, SameBut

(* The types after such a free.                                            *)
LEMMA LateTyped ==
  ASSUME Inv, NEW u \in used, LateOne(u)
  PROVE  TypeOK' /\ (\A t \in Thread : CallOK(t))' /\ HeapsOK'
<1>1. PICK h \in DOMAIN heap, c \in Nat, ht \in HeapType :
           /\ h = u.h /\ HeapGood(ht) /\ heap' = [heap EXCEPT ![h] = ht]
           /\ DOMAIN heap' = DOMAIN heap /\ UseGood(used')
  BY LateOneIs
<1>2. TypeOK /\ Quiet
  BY DoneQuiet DEF Inv, LateOne
<1>3. UNCHANGED <<orphans, global, overflow, mine, at, todo, got, finalized>> /\ finalized = "done"
  BY DEF LateOne
<1>4. RemOK(remaining')
  BY GroupIs, KeysAre, UnmapPiece DEF InUse, Union, LateOne
<1>5. TypeOK'
  BY <1>1, <1>2, <1>3, <1>4 DEF TypeOK, HeapGood, UseGood, RemOK
<1>6. (\A t \in Thread : CallOK(t))'
  BY <1>2, <1>3 DEF Quiet, CallOK
<1>7. HeapsOK'
  BY <1>1, <1>3 DEF HeapsOK, UseGood
<1>. QED
  BY <1>5, <1>6, <1>7

(* The places after such a free.                                           *)
LEMMA LatePlaces ==
  ASSUME Inv, NEW u \in used, LateOne(u)
  PROVE  PlacesOK'
<1>1. PICK h \in DOMAIN heap, c \in Nat, ht \in HeapType :
           /\ HeapGood(ht) /\ Slots(ht) = Slots(heap[h]) /\ DOMAIN heap' = DOMAIN heap
           /\ heap'[h] = ht /\ (\A k \in DOMAIN heap : k # h => heap'[k] = heap[k])
           /\ UseGood(used') /\ u.p \in InUse /\ InUse' = InUse \ {u.p}
  BY LateOneIs DEF SameBut
<1>2. UNCHANGED <<global, overflow, todo, got>>
  BY DEF LateOne
<1>g. PICK P, Q : P = Group /\ Q = Group'
  OBVIOUS
<1>3. DOMAIN P = Keys /\ DOMAIN Q = Keys /\ Disjoint(P)
  BY <1>g, GroupIs, GroupWillBe, MemoryHas
<1>4. \A k \in Heap : P[<<"heap", k>>] = Q[<<"heap", k>>]
  <2>1. \A k \in DOMAIN heap : Slots(heap'[k]) = Slots(heap[k])
    BY <1>1
  <2>2. \A k : InHeap(k)' = InHeap(k)
    BY <1>1, <2>1 DEF InHeap
  <2>. QED
    BY <1>g, <2>2, GroupIs, GroupWillBe
<1>5. \A n \in 1 .. LargeCount : /\ P[<<"global", n>>] = Q[<<"global", n>>]
                                 /\ P[<<"overflow", n>>] = Q[<<"overflow", n>>]
  BY <1>2, <1>g, GroupIs, GroupWillBe
<1>6. \A t \in Thread : P[<<"thread", t>>] = Q[<<"thread", t>>]
  BY <1>g, <1>2, GroupIs, GroupWillBe DEF InThread
<1>7. P[<<"memory", 0>>] = Q[<<"memory", 0>>]
  BY <1>g, <1>1, GroupIs, GroupWillBe DEF InMemory
<1>8. P[<<"used", 0>>] = InUse /\ Q[<<"used", 0>>] = InUse \ {u.p}
  BY <1>1, <1>g, GroupIs, GroupWillBe
<1>9. \A k \in Keys : Q[k] \subseteq P[k] /\ P[k] \ Q[k] \subseteq {u.p}
  BY ZenonT(60), <1>4, <1>5, <1>6, <1>7, <1>8, KeysAre
<1>10. \A x \in {u.p} : \E k \in Keys : x \in P[k] /\ x \notin Q[k]
  BY <1>1, <1>8, KeysAre
<1>11. Disjoint(Q) /\ Union(Q) = Union(P) \ {u.p}
  BY <1>3, <1>9, <1>10, Shrinks
<1>12. Disjoint(Group)' /\ Union(Group)' = Union(Group) \ {u.p}
  BY <1>11, <1>g DEF Disjoint, Union
<1>13. Accounted(remaining', Union(Group) \ {u.p})
  BY <1>g, <1>3, <1>10, UnmapPiece DEF Union, LateOne
<1>14. Accounted(remaining, Union(Group))'
  BY <1>12, <1>13 DEF Accounted
<1>15. GroupsOnce'
  BY <1>1, <1>2 DEF Inv, PlacesOK, GroupsOnce, UseGood
<1>. QED
  BY <1>12, <1>14, <1>15 DEF PlacesOK

(* The busy counts after such a free.                                      *)
LEMMA LateKept ==
  ASSUME Inv, NEW u \in used, LateOne(u)
  PROVE  HeapsKept'
<1>1. PICK h \in DOMAIN heap, c \in Nat, ht \in HeapType :
           /\ SameBut(ht, heap[h], heap[h].busy - 1) /\ DOMAIN heap' = DOMAIN heap
           /\ heap'[h] = ht /\ (\A k \in DOMAIN heap : k # h => heap'[k] = heap[k])
           /\ UseGood(used')
           /\ Cardinality(UsedOf(used', h)) = c /\ Cardinality(UsedOf(used, h)) = c + 1
           /\ \A k : k # h => UsedOf(used', k) = UsedOf(used, k)
  BY LateOneIs
<1>2. Quiet
  BY DoneQuiet DEF LateOne
<1>3. todo' = todo /\ at' = at
  BY DEF LateOne
<1>4. ht.busy = c + Len(ht.deferred)
  <2>1. /\ heap[h].busy = Cardinality(UsedOf(used, h)) + Len(heap[h].deferred)
        /\ Len(heap[h].deferred) \in Nat
    BY <1>2, QuietKept
  <2>2. ht.busy = heap[h].busy - 1 /\ ht.deferred = heap[h].deferred
    BY <1>1 DEF SameBut
  <2>b. heap[h].busy \in Int
    BY HeapHas, HeapIs
  <2>l. PICK b \in Int, l \in Nat : b = heap[h].busy /\ l = Len(heap[h].deferred)
    BY <2>1, <2>b
  <2>3. b = (c + 1) + l
    BY <1>1, <2>1, <2>l
  <2>4. b - 1 = c + l
    BY <1>1, <2>3
  <2>. QED
    BY <1>1, <2>2, <2>4, <2>l
<1>p. PICK hq2, us2, tasks, places : hq2 = heap' /\ us2 = used' /\ tasks = todo /\ places = at
  OBVIOUS
<1>5. \A k : Owed(tasks, places, k, Thread) = {}
  BY <1>2, <1>p, NothingOwed DEF Quiet
<1>6. ASSUME NEW k \in DOMAIN hq2
      PROVE  hq2[k].busy = Cardinality(UsedOf(us2, k)) + Len(hq2[k].deferred)
                             + Cardinality(Owed(tasks, places, k, Thread))
  <2>1. Cardinality(Owed(tasks, places, k, Thread)) = 0
    BY <1>5, FS_EmptySet
  <2>2. hq2[k].busy = Cardinality(UsedOf(us2, k)) + Len(hq2[k].deferred)
    BY <1>p, <1>1, <1>2, <1>4, QuietKept
  <2>3. Cardinality(UsedOf(us2, k)) \in Nat
    BY <1>p, <1>1, FS_CardinalityType, FS_Subset DEF UseGood, UsedOf
  <2>4. Len(hq2[k].deferred) \in Nat
    BY <1>p, <1>1, HeapHas, HeapIs DEF SameBut
  <2>n. PICK x \in Nat, y \in Nat : x = Cardinality(UsedOf(us2, k)) /\ y = Len(hq2[k].deferred)
    BY <2>3, <2>4
  <2>5. x + y = x + y + 0
    OBVIOUS
  <2>. QED
    BY <2>1, <2>2, <2>5, <2>n
<1>7. \A v \in us2 : v.h \in DOMAIN hq2
  BY <1>1, <1>p DEF UseGood
<1>8. Kept(hq2, us2, tasks, places)
  BY <1>6, <1>7 DEF Kept
<1>. QED
  BY <1>3, <1>8, <1>p, KeptWillBe

(* rpfree() after the end                                                  *)
LEMMA LateFreeKeeps ==
  ASSUME Inv, Limited, NEW u \in used, LateFree(u)
  PROVE  Inv' /\ Limited'
  BY FinalKeeps, LateKept, LatePlaces, LateTry, LateTyped DEF LateFree, threads, Limited, Lighter,
     LateOne, Inv
---------------------------------------------------------------------------
(* The places of a heap are its slots.                                     *)
HeapPlace(h, k) ==
  <<IF k > 0 THEN "cache" ELSE IF k = 0 THEN "class" ELSE IF k = -1 THEN "reserve" ELSE "deferred",
    h, IF k > 0 THEN k ELSE 1, Slots(heap[h])[k]>>
MemoryPlace(r) == <<"heaps", r, 1, <<Piece(r, 0, 1)>> >>
GlobalPlace(n) == <<"global", 0, n, global[n]>>
OverflowPlace(n) == <<"overflow", 0, n, overflow[n]>>
UsedPlace(u) == <<"used", u, 1, <<u.p>> >>
GotPlace(t) == <<"got", t, 1, PieceSeq(got[t])>>
TaskPlace(t, i) == <<"task", t, i, TaskPieces(todo[t][i])>>

(* The group that a place belongs to.                                      *)
Home(q, key) ==
  \/ \E h \in DOMAIN heap, k \in -2 .. LargeCount : q = HeapPlace(h, k) /\ key = <<"heap", h>>
  \/ \E h \in DOMAIN heap : q = MemoryPlace(h[1]) /\ key = <<"memory", 0>>
  \/ \E n \in 1 .. LargeCount : q = GlobalPlace(n) /\ key = <<"global", n>>
  \/ \E n \in 1 .. LargeCount : q = OverflowPlace(n) /\ key = <<"overflow", n>>
  \/ \E u \in used : q = UsedPlace(u) /\ key = <<"used", 0>>
  \/ \E t \in Thread : q = GotPlace(t) /\ key = <<"thread", t>>
  \/ \E t \in Thread : \E i \in DOMAIN todo[t] : q = TaskPlace(t, i) /\ key = <<"thread", t>>

CachePlaces ==
  UNION {{<<"cache", h, n, heap[h].cache[n]>> : n \in 1 .. LargeCount} : h \in DOMAIN heap}
ClassPlaces == {<<"class", h, 1, PieceSeq(heap[h].class)>> : h \in DOMAIN heap}
ReservePlaces == {<<"reserve", h, 1, PieceSeq(heap[h].reserve)>> : h \in DOMAIN heap}
DeferredPlaces == {<<"deferred", h, 1, PiecesOf(heap[h].deferred)>> : h \in DOMAIN heap}
TaskPlaces == UNION {{TaskPlace(t, i) : i \in DOMAIN todo[t]} : t \in Thread}

(* The places, part by part.                                               *)
LEMMA PlacesParts ==
  Places = CachePlaces \cup ClassPlaces \cup ReservePlaces \cup DeferredPlaces
             \cup {MemoryPlace(r) : r \in {h[1] : h \in DOMAIN heap}}
             \cup {GlobalPlace(n) : n \in 1 .. LargeCount}
             \cup {OverflowPlace(n) : n \in 1 .. LargeCount}
             \cup {UsedPlace(u) : u \in used} \cup {GotPlace(t) : t \in Thread} \cup TaskPlaces
BY Zenon DEF Places, CachePlaces, ClassPlaces, ReservePlaces, DeferredPlaces, TaskPlaces,
   MemoryPlace, GlobalPlace, OverflowPlace, UsedPlace, GotPlace, TaskPlace, TaskPieces, PiecesOf

(* The places of one heap.                                                 *)
LEMMA SlotsPlaced ==
  ASSUME NEW h
  PROVE  /\ \A n \in 1 .. LargeCount : HeapPlace(h, n) = <<"cache", h, n, heap[h].cache[n]>>
         /\ HeapPlace(h, 0) = <<"class", h, 1, PieceSeq(heap[h].class)>>
         /\ HeapPlace(h, -1) = <<"reserve", h, 1, PieceSeq(heap[h].reserve)>>
         /\ HeapPlace(h, -2) = <<"deferred", h, 1, PiecesOf(heap[h].deferred)>>
  BY SlotsAre DEF HeapPlace

(* Every place is the home of a key.                                       *)
LEMMA PlacesAre ==
  ASSUME NEW q
  PROVE  q \in Places <=> \E key : Home(q, key)
<1>1. /\ -2 \in -2 .. LargeCount /\ -1 \in -2 .. LargeCount /\ 0 \in -2 .. LargeCount
      /\ \A n \in 1 .. LargeCount : n \in -2 .. LargeCount
      /\ \A k \in -2 .. LargeCount : k \in {-2, -1, 0} \/ k \in 1 .. LargeCount
  BY CountIs
<1>2. q \in CachePlaces \cup ClassPlaces \cup ReservePlaces \cup DeferredPlaces
        <=> \E h \in DOMAIN heap, k \in -2 .. LargeCount : q = HeapPlace(h, k)
  <2>1. ASSUME NEW h \in DOMAIN heap, NEW k \in -2 .. LargeCount, q = HeapPlace(h, k)
        PROVE  q \in CachePlaces \cup ClassPlaces \cup ReservePlaces \cup DeferredPlaces
    <3>1. CASE k \in 1 .. LargeCount
      BY <2>1, <3>1, SlotsPlaced DEF CachePlaces
    <3>2. CASE k = 0
      BY <2>1, <3>2, SlotsPlaced DEF ClassPlaces
    <3>3. CASE k = -1
      BY <2>1, <3>3, SlotsPlaced DEF ReservePlaces
    <3>4. CASE k = -2
      BY <2>1, <3>4, SlotsPlaced DEF DeferredPlaces
    <3>. QED
      BY <1>1, <3>1, <3>2, <3>3, <3>4
  <2>2. ASSUME q \in CachePlaces
        PROVE  \E h \in DOMAIN heap, k \in -2 .. LargeCount : q = HeapPlace(h, k)
    <3>1. PICK h \in DOMAIN heap, n \in 1 .. LargeCount : q = <<"cache", h, n, heap[h].cache[n]>>
      BY <2>2 DEF CachePlaces
    <3>2. q = HeapPlace(h, n) /\ n \in -2 .. LargeCount
      BY <1>1, <3>1, SlotsPlaced
    <3>. QED
      BY <3>2
  <2>3. ASSUME q \in ClassPlaces
        PROVE  \E h \in DOMAIN heap, k \in -2 .. LargeCount : q = HeapPlace(h, k)
    <3>1. PICK h \in DOMAIN heap : q = HeapPlace(h, 0)
      BY <2>3, SlotsPlaced DEF ClassPlaces
    <3>. QED
      BY <1>1, <3>1
  <2>4. ASSUME q \in ReservePlaces
        PROVE  \E h \in DOMAIN heap, k \in -2 .. LargeCount : q = HeapPlace(h, k)
    <3>1. PICK h \in DOMAIN heap : q = HeapPlace(h, -1)
      BY <2>4, SlotsPlaced DEF ReservePlaces
    <3>. QED
      BY <1>1, <3>1
  <2>5. ASSUME q \in DeferredPlaces
        PROVE  \E h \in DOMAIN heap, k \in -2 .. LargeCount : q = HeapPlace(h, k)
    <3>1. PICK h \in DOMAIN heap : q = HeapPlace(h, -2)
      BY <2>5, SlotsPlaced DEF DeferredPlaces
    <3>. QED
      BY <1>1, <3>1
  <2>. QED
    BY <2>1, <2>2, <2>3, <2>4, <2>5
<1>3. q \in TaskPlaces <=> \E t \in Thread : \E i \in DOMAIN todo[t] : q = TaskPlace(t, i)
  BY DEF TaskPlaces
<1>4. q \in {MemoryPlace(r) : r \in {h[1] : h \in DOMAIN heap}}
        <=> \E h \in DOMAIN heap : q = MemoryPlace(h[1])
  OBVIOUS
<1>5. q \in Places
        <=> \/ \E h \in DOMAIN heap, k \in -2 .. LargeCount : q = HeapPlace(h, k)
            \/ \E h \in DOMAIN heap : q = MemoryPlace(h[1])
            \/ \E n \in 1 .. LargeCount : q = GlobalPlace(n)
            \/ \E n \in 1 .. LargeCount : q = OverflowPlace(n)
            \/ \E u \in used : q = UsedPlace(u)
            \/ \E t \in Thread : q = GotPlace(t)
            \/ \E t \in Thread : \E i \in DOMAIN todo[t] : q = TaskPlace(t, i)
  BY <1>2, <1>3, <1>4, PlacesParts
<1>. QED
  BY <1>5 DEF Home
---------------------------------------------------------------------------
(* The sequence of one piece.                                              *)
LEMMA OneSeqIs ==
  ASSUME NEW p, NEW i \in DOMAIN PieceSeq(p)
  PROVE  i = 1 /\ PieceSeq(p)[i] = p /\ p # None
  BY DEF PieceSeq

(* What is at a place is in the group of the place.                        *)
LEMMA HomeHas ==
  ASSUME Inv, NEW q, NEW key, Home(q, key), NEW i \in DOMAIN q[4]
  PROVE  key \in Keys /\ q[4][i] \in Group[key]
<1>p. PICK P : P = Group
  OBVIOUS
<1>0. \A s : \A j \in DOMAIN s : s[j] \in ToSet(s)
  BY DEF ToSet
<1>1. CASE \E h \in DOMAIN heap, k \in -2 .. LargeCount : q = HeapPlace(h, k) /\ key = <<"heap", h>>
  <2>1. PICK h \in DOMAIN heap, k \in -2 .. LargeCount : q = HeapPlace(h, k) /\ key = <<"heap", h>>
    BY <1>1
  <2>2. h \in Heap
    BY HeapHas
  <2>3. P[<<"heap", h>>] = Among(Slots(heap[h]))
    BY <1>p, <2>2, GroupIs DEF InHeap
  <2>s. PICK Q : Q = Slots(heap[h])
    OBVIOUS
  <2>4. q[4] = Q[k] /\ k \in DOMAIN Q
    BY <2>1, <2>s, SlotsAre DEF HeapPlace
  <2>5. q[4][i] \in Among(Q)
    BY <1>0, <2>4 DEF Among
  <2>. QED
    BY <1>p, <2>1, <2>2, <2>3, <2>5, <2>s, KeysAre
<1>2. CASE \E h \in DOMAIN heap : q = MemoryPlace(h[1]) /\ key = <<"memory", 0>>
  BY <1>p, <1>2, GroupIs, KeysAre DEF MemoryPlace, InMemory
<1>3. CASE \E n \in 1 .. LargeCount : q = GlobalPlace(n) /\ key = <<"global", n>>
  <2>1. PICK n \in 1 .. LargeCount : q = GlobalPlace(n) /\ key = <<"global", n>>
    BY <1>3
  <2>2. q[4] = global[n]
    BY <2>1 DEF GlobalPlace
  <2>3. q[4][i] \in ToSet(global[n])
    BY <1>0, <2>2
  <2>4. P[<<"global", n>>] = ToSet(global[n]) /\ <<"global", n>> \in Keys
    BY <1>p, GroupIs, KeysAre
  <2>. QED
    BY <1>p, <2>1, <2>3, <2>4
<1>4. CASE \E n \in 1 .. LargeCount : q = OverflowPlace(n) /\ key = <<"overflow", n>>
  <2>1. PICK n \in 1 .. LargeCount : q = OverflowPlace(n) /\ key = <<"overflow", n>>
    BY <1>4
  <2>2. q[4] = overflow[n]
    BY <2>1 DEF OverflowPlace
  <2>3. q[4][i] \in ToSet(overflow[n])
    BY <1>0, <2>2
  <2>4. P[<<"overflow", n>>] = ToSet(overflow[n]) /\ <<"overflow", n>> \in Keys
    BY <1>p, GroupIs, KeysAre
  <2>. QED
    BY <1>p, <2>1, <2>3, <2>4
<1>5. CASE \E u \in used : q = UsedPlace(u) /\ key = <<"used", 0>>
  BY <1>5, GroupIs, KeysAre DEF UsedPlace, InUse
<1>6. CASE \E t \in Thread : q = GotPlace(t) /\ key = <<"thread", t>>
  BY <1>6, GroupIs, KeysAre, OneSeqIs DEF GotPlace, InThread, One
<1>7. CASE \E t \in Thread : \E j \in DOMAIN todo[t] : q = TaskPlace(t, j) /\ key = <<"thread", t>>
  BY <1>0, <1>7, GroupIs, KeysAre DEF TaskPlace, Carried, Among, InThread
<1>. QED
  BY <1>1, <1>2, <1>3, <1>4, <1>5, <1>6, <1>7 DEF Home

(* Every piece is at a place.                                              *)
LEMMA HomeFull ==
  ASSUME Inv, NEW p \in Union(Group)
  PROVE  \E q, key : Home(q, key) /\ \E i \in DOMAIN q[4] : q[4][i] = p
<1>g. PICK P : P = Group
  OBVIOUS
<1>0. \A s : \A x \in ToSet(s) : \E j \in DOMAIN s : s[j] = x
  BY DEF ToSet
<1>1. PICK key \in Keys : p \in P[key]
  BY <1>g, GroupIs DEF Union
<1>2. CASE \E h \in Heap : key = <<"heap", h>>
  <2>1. PICK h \in Heap : key = <<"heap", h>>
    BY <1>2
  <2>2. p \in InHeap(h)
    BY <1>1, <1>g, <2>1, GroupIs
  <2>3. h \in DOMAIN heap /\ p \in Among(Slots(heap[h]))
    BY <2>2 DEF InHeap
  <2>s. PICK Q : Q = Slots(heap[h])
    OBVIOUS
  <2>4. DOMAIN Q = -2 .. LargeCount
    BY <2>s, SlotsAre
  <2>5. PICK k \in -2 .. LargeCount : p \in ToSet(Q[k])
    BY <2>3, <2>4, <2>s DEF Among
  <2>6. HeapPlace(h, k)[4] = Q[k]
    BY <2>s DEF HeapPlace
  <2>7. \E i \in DOMAIN HeapPlace(h, k)[4] : HeapPlace(h, k)[4][i] = p
    BY <1>0, <2>5, <2>6
  <2>8. Home(HeapPlace(h, k), <<"heap", h>>)
    BY <2>3 DEF Home
  <2>. QED
    BY <2>7, <2>8
<1>3. CASE \E n \in 1 .. LargeCount : key = <<"global", n>>
  <2>1. PICK n \in 1 .. LargeCount : key = <<"global", n>>
    BY <1>3
  <2>2. p \in ToSet(global[n])
    BY <1>1, <1>g, <2>1, GroupIs
  <2>3. \E i \in DOMAIN GlobalPlace(n)[4] : GlobalPlace(n)[4][i] = p
    BY <1>0, <2>2 DEF GlobalPlace
  <2>4. Home(GlobalPlace(n), <<"global", n>>)
    BY DEF Home
  <2>. QED
    BY <2>3, <2>4
<1>4. CASE \E n \in 1 .. LargeCount : key = <<"overflow", n>>
  <2>1. PICK n \in 1 .. LargeCount : key = <<"overflow", n>>
    BY <1>4
  <2>2. p \in ToSet(overflow[n])
    BY <1>1, <1>g, <2>1, GroupIs
  <2>3. \E i \in DOMAIN OverflowPlace(n)[4] : OverflowPlace(n)[4][i] = p
    BY <1>0, <2>2 DEF OverflowPlace
  <2>4. Home(OverflowPlace(n), <<"overflow", n>>)
    BY DEF Home
  <2>. QED
    BY <2>3, <2>4
<1>5. CASE \E t \in Thread : key = <<"thread", t>>
  <2>1. PICK t \in Thread : key = <<"thread", t>>
    BY <1>5
  <2>2. p \in InThread(t)
    BY <1>1, <1>g, <2>1, GroupIs
  <2>3. CASE p \in Among(Carried(todo[t]))
    <3>1. PICK j \in DOMAIN todo[t] : p \in ToSet(TaskPieces(todo[t][j]))
      BY <2>3 DEF Among, Carried
    <3>2. \E i \in DOMAIN TaskPlace(t, j)[4] : TaskPlace(t, j)[4][i] = p
      BY <1>0, <3>1 DEF TaskPlace
    <3>3. Home(TaskPlace(t, j), <<"thread", t>>)
      BY DEF Home
    <3>. QED
      BY <3>2, <3>3
  <2>4. CASE p \in One(got[t])
    <3>1. got[t] # None /\ p = got[t]
      BY <2>4 DEF One
    <3>2. GotPlace(t)[4] = <<p>>
      BY <3>1 DEF GotPlace, PieceSeq
    <3>3. \E i \in DOMAIN GotPlace(t)[4] : GotPlace(t)[4][i] = p
      BY <3>2
    <3>4. Home(GotPlace(t), <<"thread", t>>)
      BY DEF Home
    <3>. QED
      BY <3>3, <3>4
  <2>. QED
    BY <2>2, <2>3, <2>4 DEF InThread
<1>6. CASE key = <<"used", 0>>
  <2>1. p \in InUse
    BY <1>1, <1>6, <1>g, GroupIs
  <2>2. PICK u \in used : p = u.p
    BY <2>1 DEF InUse
  <2>3. UsedPlace(u)[4] = <<p>>
    BY <2>2 DEF UsedPlace
  <2>4. \E i \in DOMAIN UsedPlace(u)[4] : UsedPlace(u)[4][i] = p
    BY <2>3
  <2>5. Home(UsedPlace(u), <<"used", 0>>)
    BY DEF Home
  <2>. QED
    BY <2>4, <2>5
<1>7. CASE key = <<"memory", 0>>
  <2>1. p \in InMemory
    BY <1>1, <1>7, <1>g, GroupIs
  <2>2. PICK h \in DOMAIN heap : p = Piece(h[1], 0, 1)
    BY <2>1 DEF InMemory
  <2>3. MemoryPlace(h[1])[4] = <<p>>
    BY <2>2 DEF MemoryPlace
  <2>4. \E i \in DOMAIN MemoryPlace(h[1])[4] : MemoryPlace(h[1])[4][i] = p
    BY <2>3
  <2>5. Home(MemoryPlace(h[1]), <<"memory", 0>>)
    BY DEF Home
  <2>. QED
    BY <2>4, <2>5
<1>. QED
  BY <1>2, <1>3, <1>4, <1>5, <1>6, <1>7, KeysAre
---------------------------------------------------------------------------
(* A home is of the kind of its key.                                       *)
LEMMA HomeKind ==
  ASSUME NEW q, NEW key, Home(q, key)
  PROVE  /\ \A h \in Heap : key = <<"heap", h>> =>
              h \in DOMAIN heap /\ \E k \in -2 .. LargeCount : q = HeapPlace(h, k)
         /\ \A n \in 1 .. LargeCount : key = <<"global", n>> => q = GlobalPlace(n)
         /\ \A n \in 1 .. LargeCount : key = <<"overflow", n>> => q = OverflowPlace(n)
         /\ \A t \in Thread : key = <<"thread", t>> =>
              q = GotPlace(t) \/ \E i \in DOMAIN todo[t] : q = TaskPlace(t, i)
         /\ key = <<"used", 0>> => \E u \in used : q = UsedPlace(u)
         /\ key = <<"memory", 0>> => \E h \in DOMAIN heap : q = MemoryPlace(h[1])
  BY DEF Home

(* No piece is at two places of a group, nor twice at one.                 *)
LEMMA HomeOnce ==
  ASSUME Inv, NEW key \in Keys, NEW q, NEW r, Home(q, key), Home(r, key),
         NEW i \in DOMAIN q[4], NEW j \in DOMAIN r[4], q[4][i] = r[4][j]
  PROVE  q = r /\ i = j
<1>0. \A s : \A m \in DOMAIN s : s[m] \in ToSet(s)
  BY DEF ToSet
<1>1. CASE \E h \in Heap : key = <<"heap", h>>
  <2>1. PICK h \in Heap : key = <<"heap", h>>
    BY <1>1
  <2>2. /\ h \in DOMAIN heap /\ \E k \in -2 .. LargeCount : q = HeapPlace(h, k)
        /\ \E k \in -2 .. LargeCount : r = HeapPlace(h, k)
    BY <2>1, HomeKind
  <2>k. PICK k \in -2 .. LargeCount : q = HeapPlace(h, k)
    BY <2>2
  <2>l. PICK l \in -2 .. LargeCount : r = HeapPlace(h, l)
    BY <2>2
  <2>s. PICK Q : Q = Slots(heap[h])
    OBVIOUS
  <2>3. Once(Q) /\ DOMAIN Q = -2 .. LargeCount
    BY <2>2, <2>s, HeapHas, SlotsAre
  <2>4. q[4] = Q[k] /\ r[4] = Q[l]
    BY <2>k, <2>l, <2>s DEF HeapPlace
  <2>5. k = l /\ i = j
    BY <2>3, <2>4 DEF Once
  <2>. QED
    BY <2>5, <2>k, <2>l
<1>2. CASE \E n \in 1 .. LargeCount : key = <<"global", n>>
  <2>1. PICK n \in 1 .. LargeCount : key = <<"global", n>>
    BY <1>2
  <2>2. q = GlobalPlace(n) /\ r = GlobalPlace(n)
    BY <2>1, HomeKind
  <2>3. q[4] = global[n] /\ r[4] = global[n] /\ IsInjective(global[n])
    BY <2>2, CacheHas DEF GlobalPlace
  <2>. QED
    BY <2>2, <2>3 DEF IsInjective
<1>3. CASE \E n \in 1 .. LargeCount : key = <<"overflow", n>>
  <2>1. PICK n \in 1 .. LargeCount : key = <<"overflow", n>>
    BY <1>3
  <2>2. q = OverflowPlace(n) /\ r = OverflowPlace(n)
    BY <2>1, HomeKind
  <2>3. q[4] = overflow[n] /\ r[4] = overflow[n] /\ IsInjective(overflow[n])
    BY <2>2, CacheHas DEF OverflowPlace
  <2>. QED
    BY <2>2, <2>3 DEF IsInjective
<1>4. CASE \E t \in Thread : key = <<"thread", t>>
  <2>1. PICK t \in Thread : key = <<"thread", t>>
    BY <1>4
  <2>c. PICK C, g : C = Carried(todo[t]) /\ g = got[t]
    OBVIOUS
  <2>2. Once(C) /\ (g # None => g \notin Among(C)) /\ DOMAIN C = DOMAIN todo[t]
    BY <2>c, CallHas DEF Carried
  <2>3. ASSUME NEW x, x = GotPlace(t), NEW m \in DOMAIN x[4]
        PROVE  m = 1 /\ x[4][m] = g /\ g # None
    BY <2>c, <2>3, OneSeqIs DEF GotPlace
  <2>4. ASSUME NEW x, NEW a \in DOMAIN todo[t], x = TaskPlace(t, a), NEW m \in DOMAIN x[4]
        PROVE  a \in DOMAIN C /\ x[4] = C[a] /\ x[4][m] \in Among(C)
    BY <1>0, <2>c, <2>2, <2>4 DEF TaskPlace, Carried, Among
  <2>5. /\ q = GotPlace(t) \/ \E a \in DOMAIN todo[t] : q = TaskPlace(t, a)
        /\ r = GotPlace(t) \/ \E a \in DOMAIN todo[t] : r = TaskPlace(t, a)
    BY <2>1, HomeKind
  <2>6. CASE q = GotPlace(t) /\ r = GotPlace(t)
    BY <2>3, <2>6
  <2>7. CASE q = GotPlace(t) /\ \E a \in DOMAIN todo[t] : r = TaskPlace(t, a)
    BY <2>2, <2>3, <2>4, <2>7
  <2>8. CASE r = GotPlace(t) /\ \E a \in DOMAIN todo[t] : q = TaskPlace(t, a)
    BY <2>2, <2>3, <2>4, <2>8
  <2>9. ASSUME NEW a \in DOMAIN todo[t], q = TaskPlace(t, a),
               NEW b \in DOMAIN todo[t], r = TaskPlace(t, b)
        PROVE  q = r /\ i = j
    BY <2>2, <2>4, <2>9 DEF Once
  <2>. QED
    BY <2>5, <2>6, <2>7, <2>8, <2>9
<1>5. CASE key = <<"used", 0>>
  BY <1>5, HomeKind, MemoryHas DEF UsedPlace
<1>6. CASE key = <<"memory", 0>>
  BY <1>6, HomeKind DEF MemoryPlace, Piece
<1>. QED
  BY <1>1, <1>2, <1>3, <1>4, <1>5, <1>6, KeysAre

(* Each piece held has one place, and each piece of a group is held.       *)
LEMMA HeldIs ==
  ASSUME Inv
  PROVE  /\ \A x \in Held : PieceAt(x) \in Union(Group)
         /\ \A x, y \in Held : PieceAt(x) = PieceAt(y) => x = y
         /\ \A p \in Union(Group) : \E x \in Held : PieceAt(x) = p
<1>1. ASSUME NEW x \in Held
      PROVE  \E q \in Places : \E i \in DOMAIN q[4] : x = <<q, i>> /\ PieceAt(x) = q[4][i]
  BY DEF Held, PieceAt
<1>g. PICK P : P = Group
  OBVIOUS
<1>2. DOMAIN P = Keys /\ \A k, l \in Keys : k # l => P[k] \cap P[l] = {}
  BY <1>g, GroupIs, MemoryHas DEF Disjoint
<1>3. ASSUME NEW x \in Held PROVE PieceAt(x) \in Union(Group)
  BY <1>g, <1>1, <1>2, HomeHas, PlacesAre DEF Union
<1>4. ASSUME NEW x \in Held, NEW y \in Held, PieceAt(x) = PieceAt(y) PROVE x = y
  BY <1>g, <1>1, <1>2, <1>4, HomeHas, HomeOnce, PlacesAre
<1>5. ASSUME NEW p \in Union(Group) PROVE \E x \in Held : PieceAt(x) = p
  <2>1. PICK q, key : Home(q, key) /\ \E i \in DOMAIN q[4] : q[4][i] = p
    BY HomeFull
  <2>2. PICK i \in DOMAIN q[4] : q[4][i] = p
    BY <2>1
  <2>3. q \in Places
    BY <2>1, PlacesAre
  <2>4. <<q, i>> \in Held
    BY <2>3 DEF Held
  <2>5. PieceAt(<<q, i>>) = p
    BY <2>2 DEF PieceAt
  <2>. QED
    BY <2>4, <2>5
<1>. QED
  BY <1>3, <1>4, <1>5
---------------------------------------------------------------------------
(* The places of one region: as many spans as the pieces there have.       *)
LEMMA HereIs ==
  ASSUME Inv, NEW r \in DOMAIN remaining,
         NEW X, X = {x \in Held : PieceAt(x).r = r}
  PROVE  /\ IsFiniteSet(X) /\ \A x \in X : PieceAt(x) \in PieceType
         /\ \A x, y \in X : x # y => Spans(PieceAt(x)) \cap Spans(PieceAt(y)) = {}
         /\ Total(X) = Area(Union(Group), r)
<1>u. PICK All : All = Union(Group)
  OBVIOUS
<1>1. Accounted(remaining, All)
  BY <1>u, MemoryHas
<1>2. /\ \A x \in Held : PieceAt(x) \in All
      /\ \A x, y \in Held : PieceAt(x) = PieceAt(y) => x = y
      /\ \A p \in All : \E x \in Held : PieceAt(x) = p
  BY <1>u, HeldIs
<1>3. \A x \in X : x \in Held /\ PieceAt(x) \in All /\ PieceAt(x).r = r
  BY <1>2
<1>4. \A x \in X : PieceAt(x) \in PieceType
  BY <1>1, <1>3 DEF Accounted
<1>5. \A x, y \in X : x # y => Spans(PieceAt(x)) \cap Spans(PieceAt(y)) = {}
  BY <1>1, <1>2, <1>3 DEF Accounted
<1>6. Total(X) = Area(All, r)
  BY <1>2, <1>3 DEF Total, Area
<1>7. IsFiniteSet(X)
  <2>a. PICK A : A = Area(All, r)
    OBVIOUS
  <2>1. IsFiniteSet(A)
    BY <1>1, <2>a DEF Accounted
  <2>2. \A x \in X : PieceAt(x).off \in Spans(PieceAt(x)) /\ PieceAt(x).off \in A
    BY <1>3, <1>4, <2>a, AreaHas, SpansAre DEF Spans
  <2>f. PICK f : f = [x \in X |-> PieceAt(x).off]
    OBVIOUS
  <2>3. \A x \in X : f[x] = PieceAt(x).off
    BY <2>f
  <2>4. f \in [X -> A]
    BY <2>2, <2>f
  <2>5. \A x, y \in X : f[x] = f[y] => x = y
    BY <1>5, <2>2, <2>3
  <2>6. f \in Injection(X, A)
    BY <2>4, <2>5 DEF Injection, IsInjective
  <2>. QED
    BY <2>1, <2>6, FS_Injection
<1>. QED
  BY <1>4, <1>5, <1>6, <1>7, <1>u

(* The statement of Conservation follows from where the pieces are.        *)
LEMMA ConservationHolds ==
  ASSUME Inv
  PROVE  Conservation
<1>1. Accounted(remaining, Union(Group))
  BY MemoryHas
<1>2. \A x \in Held : PieceAt(x).r \in DOMAIN remaining
  BY <1>1, HeldIs DEF Accounted
<1>3. ASSUME NEW r \in DOMAIN remaining
      PROVE  LET here == {x \in Held : PieceAt(x).r = r}
                 Count(x) == PieceAt(x).n
             IN  /\ remaining[r] = MapThenSumSet(Count, here)
                 /\ remaining[r] = Cardinality(UNION {Spans(PieceAt(x)) : x \in here})
  <2>. DEFINE X == {x \in Held : PieceAt(x).r = r}
              Count(x) == PieceAt(x).n
  <2>1. /\ IsFiniteSet(X) /\ \A x \in X : PieceAt(x) \in PieceType
        /\ \A x, y \in X : x # y => Spans(PieceAt(x)) \cap Spans(PieceAt(y)) = {}
        /\ Total(X) = Area(Union(Group), r)
    BY HereIs
  <2>2. MapThenSumSet(Count, X) = Cardinality(Total(X))
    BY <2>1, SumIs
  <2>3. remaining[r] = Cardinality(Area(Union(Group), r))
    BY <1>1 DEF Accounted
  <2>4. remaining[r] = Cardinality(Total(X))
    BY <2>1, <2>3
  <2>5. Total(X) = UNION {Spans(PieceAt(x)) : x \in X}
    BY DEF Total
  <2>. QED
    BY <2>2, <2>4, <2>5
<1>. QED
  BY <1>2, <1>3 DEF Conservation

(* With nothing in use the end leaves no heap, so no piece, so no region.  *)
LEMMA NothingLeft ==
  ASSUME Inv, finalized = "no", finalized' = "done", used = {}, Next
  PROVE  DOMAIN remaining' = {}
<1>1. Finalize
  <2>1. ASSUME NEW t \in Thread, Call(t) \/ Continue(t) PROVE finalized' = finalized
    <3>1. CASE Call(t)
      BY <3>1 DEF Call, ThreadInit, ThreadFinalize, Alloc, Free
    <3>2. CASE Continue(t)
      BY <3>2 DEF Continue, Adopt, DeferAgain, Own, ThreadRelease, GlobalInsert, SortRest,
                  KeepInCache, Extract, MapSpans, MapHuge
    <3>. QED
      BY <2>1, <3>1, <3>2
  <2>. QED
    BY <2>1 DEF Next
<1>2. PICK rem : Final(heap, rem, CachesHold)
  BY <1>1, FinalizeIsFinal
<1>3. Inv'
  BY <1>2, FinalKeeps
<1>4. used' = {} /\ \A n \in 1 .. LargeCount : global'[n] = <<>> /\ overflow'[n] = <<>>
  BY <1>1 DEF Finalize, Inv, TypeOK
<1>5. DOMAIN heap' = {}
  BY <1>2, <1>4, AfterIs, FS_EmptySet, FinalizeIs DEF Final, UsedOf
<1>g. PICK Q : Q = Group'
  OBVIOUS
<1>6. \A k \in Keys : Q[k] = {}
  <2>1. \A h : InHeap(h)' = {}
    BY <1>5 DEF InHeap
  <2>2. \A t \in Thread : InThread(t)' = {}
    BY <1>2, QuietThreads DEF Final
  <2>3. InUse' = {} /\ InMemory' = {}
    BY <1>4, <1>5 DEF InUse, InMemory
  <2>4. \A n \in 1 .. LargeCount : ToSet(global'[n]) = {} /\ ToSet(overflow'[n]) = {}
    BY <1>4, NoneInEmpty
  <2>. QED
    BY <1>g, <2>1, <2>2, <2>3, <2>4, GroupWillBe, KeysAre
<1>7. Union(Q) = {}
  BY <1>6, <1>g, GroupWillBe DEF Union
<1>8. Union(Group)' = {}
  BY <1>7, <1>g DEF Union
<1>9. \A r : Area({}, r) = {}
  BY DEF Area
<1>10. /\ remaining' \in [DOMAIN remaining' -> Nat \ {0}]
       /\ \A r \in DOMAIN remaining' : remaining'[r] = Cardinality(Area({}, r))
  BY <1>3, <1>8 DEF Inv, PlacesOK, Accounted, TypeOK
<1>. QED
  BY <1>9, <1>10, FS_EmptySet

(* The initial states                                                      *)
LEMMA InitHolds ==
  ASSUME Init
  PROVE  Inv /\ Limited
<1>1. /\ DOMAIN remaining = {} /\ DOMAIN heap = {} /\ orphans = <<>> /\ used = {}
      /\ \A n \in 1 .. LargeCount : global[n] = <<>> /\ overflow[n] = <<>>
      /\ \A t \in Thread : mine[t] = None /\ at[t] = None /\ todo[t] = <<>> /\ got[t] = None
      /\ finalized = "no"
  BY DEF Init
<1>2. TypeOK
  BY <1>1, FS_EmptySet DEF Init, TypeOK
<1>3. \A t \in Thread : CallOK(t)
  BY <1>1 DEF CallOK
<1>4. HeapsOK
  BY <1>1, NoneInEmpty DEF HeapsOK
<1>5. \A t \in Thread : InThread(t) = {}
  BY <1>1, CallNone DEF InThread, One
<1>g. PICK P : P = Group
  OBVIOUS
<1>6. DOMAIN P = Keys /\ \A k \in Keys : P[k] = {}
  <2>1. \A h : InHeap(h) = {}
    BY <1>1 DEF InHeap
  <2>2. InUse = {} /\ InMemory = {}
    BY <1>1 DEF InUse, InMemory
  <2>3. \A n \in 1 .. LargeCount : ToSet(global[n]) = {} /\ ToSet(overflow[n]) = {}
    BY <1>1, NoneInEmpty
  <2>. QED
    BY <1>5, <1>g, <2>1, <2>2, <2>3, GroupIs, KeysAre
<1>7. Disjoint(P) /\ Union(P) = {}
  BY <1>6 DEF Disjoint, Union
<1>8. GroupsOnce
  BY <1>1, CallNone, NoneInEmpty DEF GroupsOnce
<1>9. Accounted(remaining, {})
  BY <1>1 DEF Accounted
<1>10. PlacesOK
  BY <1>7, <1>8, <1>9, <1>g DEF PlacesOK
<1>11. HeapsKept
  BY <1>1 DEF HeapsKept
<1>12. Limited
  BY <1>1, LimitAssumption DEF Limited
<1>. QED
  BY <1>2, <1>3, <1>4, <1>10, <1>11, <1>12 DEF Inv

(* Nothing happens.                                                        *)
LEMMA StutterKeeps ==
  ASSUME Inv, Limited, UNCHANGED vars
  PROVE  Inv' /\ Limited'
<1>1. UNCHANGED <<remaining, heap, orphans, global, overflow, used, mine, at, todo, got, finalized>>
  BY DEF vars, memory, threads
<1>2. TypeOK' /\ (\A t \in Thread : CallOK(t))' /\ HeapsOK' /\ Limited'
  BY <1>1 DEF Inv, TypeOK, CallOK, HeapsOK, Limited
<1>3. HeapsKept'
  BY <1>1 DEF Inv, HeapsKept
<1>4. GroupsOnce'
  BY <1>1 DEF Inv, PlacesOK, GroupsOnce
<1>5. Group' = Group
  BY <1>1 DEF Group, InHeap, InThread, InUse, InMemory
<1>6. Disjoint(Group)' /\ Accounted(remaining, Union(Group))'
  BY <1>1, <1>5 DEF Inv, PlacesOK, Disjoint, Accounted, Union
<1>. QED
  BY <1>2, <1>3, <1>4, <1>6 DEF Inv, PlacesOK

(* The invariant is inductive.                                             *)
LEMMA EveryStepKeeps == (Inv /\ Limited) /\ [Next]_vars => (Inv /\ Limited)'
<1>. SUFFICES ASSUME Inv, Limited, Next \/ UNCHANGED vars
              PROVE  Inv' /\ Limited'
  OBVIOUS
<1>1. ASSUME NEW t \in Thread, Call(t) PROVE Inv' /\ Limited'
  BY <1>1, AllocKeeps, FreeKeeps, ThreadFinalizeKeeps, ThreadInitKeeps DEF Call
<1>2. ASSUME NEW t \in Thread, Continue(t) PROVE Inv' /\ Limited'
  <2>1. UNCHANGED calls
    BY <1>2 DEF Continue
  <2>2. CASE Adopt(t)
    BY <2>2, AdoptKeeps DEF Adopt, Limited
  <2>3. CASE DeferAgain(t)
    BY <2>3, DeferAgainKeeps DEF DeferAgain, Limited
  <2>4. CASE Own(t)
    BY <2>1, <2>4, OwnKeeps
  <2>5. CASE ThreadRelease(t)
    BY <2>5, ReleaseKeeps
  <2>6. CASE GlobalInsert(t)
    BY <2>6, GlobalInsertKeeps
  <2>7. CASE SortRest(t)
    BY <2>7, SortRestKeeps
  <2>8. CASE KeepInCache(t)
    BY <2>8, KeepInCacheKeeps
  <2>9. CASE Extract(t)
    BY <2>9, ExtractKeeps
  <2>10. CASE MapSpans(t)
    BY <2>10, MapSpansKeeps
  <2>11. CASE MapHuge(t)
    BY <2>11, MapHugeKeeps
  <2>. QED
    BY <1>2, <2>2, <2>3, <2>4, <2>5, <2>6, <2>7, <2>8, <2>9, <2>10, <2>11 DEF Continue
<1>3. ASSUME NEW u \in used, LateFree(u) PROVE Inv' /\ Limited'
  BY <1>3, LateFreeKeeps
<1>4. CASE Next
  BY <1>1, <1>2, <1>3, <1>4, FinalizeKeeps DEF Next
<1>5. CASE UNCHANGED vars
  BY <1>5, StutterKeeps
<1>. QED
  BY <1>4, <1>5

(* The invariant: types, the shape of the calls, owners that exist, places *)
(* that share nothing and are counted, busy counts that are exact; and the *)
(* limit of the global caches.                                             *)
THEOREM Inductive == Spec => [](Inv /\ Limited)
<1>1. Init => Inv /\ Limited
  BY InitHolds
<1>2. (Inv /\ Limited) /\ [Next]_vars => (Inv /\ Limited)'
  BY EveryStepKeeps
<1>. QED
  BY <1>1, <1>2, PTL DEF Spec

(* No span is in two places, and remaining_spans counts those that are     *)
(* somewhere.                                                              *)
THEOREM SpansConserved == Spec => []Conservation
<1>1. Inv /\ Limited => Conservation
  BY ConservationHolds
<1>. QED
  BY <1>1, Inductive, PTL

(* A heap stays while a piece of it is in use or on its way back.          *)
THEOREM HeapsAreKept == Spec => []HeapsKept
<1>1. Inv /\ Limited => HeapsKept
  BY DEF Inv
<1>. QED
  BY <1>1, Inductive, PTL

(* rpmalloc_finalize() with nothing in use leaves nothing mapped.          *)
THEOREM NothingLeaks == Spec => LeakFree
<1>1. (Inv /\ Limited) /\ [Next]_vars
        => [finalized = "no" /\ finalized' = "done" /\ used = {} => DOMAIN remaining' = {}]_vars
  BY NothingLeft
<1>. QED
  BY <1>1, Inductive, PTL DEF Spec, LeakFree
=============================================================================
