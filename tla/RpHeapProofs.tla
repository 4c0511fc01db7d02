---------------------------- MODULE RpHeapProofs ----------------------------
(***************************************************************************)
(* The safety properties of RpHeap for any number of threads, heaps, spans *)
(* and blocks. A span may only go when none of its blocks is anywhere but  *)
(* in its own lists; the code knows this from two counters, of which one   *)
(* is read without the lock that guards it. The invariant therefore says   *)
(* of each thread inside a call which blocks it carries, and of each       *)
(* counter which set of blocks it counts.                                  *)
(***************************************************************************)
EXTENDS RpHeap, FiniteSetTheorems, SequenceTheorems, WellFoundedInduction, TLAPS

Storing  == {"store", "store all"}
Holding  == Storing \cup {"count"}
Carrying == Holding \cup {"lock", "extract"}
OnBlock  == Carrying \cup {"push"}
OnSpan   == OnBlock \cup {"sync"}
PC       == OnSpan \cup {"idle", "new", "own", "orphan"}

(* Blocks that threads carry, those on their way to a deferred list that   *)
(* are counted already, and the spans threads are about to leave a list    *)
(* for or to put on one.                                                   *)
air    == {pc[t].b : t \in {u \in Thread : pc[u].at \in Carrying}}
stored == {pc[t].b : t \in {u \in Thread : pc[u].at \in Storing}}
taken  == {SpanOf(t) : t \in {u \in Thread : pc[u].at = "extract"}}
pushed == {SpanOf(t) : t \in {u \in Thread : pc[u].at = "push"}}

(* What list_size counts.                                                  *)
Back(s) == span[s].deferred \cup (stored \cap OfSpan(s))

SpanType(s) ==
  [heap : Heap, free : SUBSET OfSpan(s), limit : 1 .. BlockCount, usedCount : Int,
   deferred : SUBSET OfSpan(s), locked : BOOLEAN, listSize : Int]

TypeOK ==
  /\ DOMAIN span \subseteq Span
  /\ span = [s \in DOMAIN span |-> span[s]]
  /\ \A s \in DOMAIN span : span[s] \in SpanType(s)
  /\ pool = Span \ DOMAIN span
  /\ classFree \in [Heap -> SUBSET Block]
  /\ partial \in [Heap -> Seq(Span)]
  /\ full \in [Heap -> Int]
  /\ deferred \in [Heap -> SUBSET Span]
  /\ owner \in [Heap -> Thread \cup {None}]
  /\ orphans \in Seq(Heap)
  /\ mine \in [Thread -> Heap \cup {None}]
  /\ live \subseteq Block
  /\ pc \in [Thread -> [at : PC, b : Block \cup {<<s>> : s \in Span} \cup {None}]]
  /\ \A t \in Thread :
       /\ pc[t].at \in OnBlock => pc[t].b \in Block
       /\ pc[t].at = "sync" => \E s \in Span : pc[t].b = <<s>>
  /\ finalized \in BOOLEAN

(* Every block of a span is in one place.                                  *)
Places(s) ==
  LET sp == span[s]
  IN  \A b \in OfSpan(s) :
        /\ \/ b \in live \/ b \in classFree[sp.heap] \/ b \in sp.free
           \/ b \in sp.deferred \/ b \in air \/ b[2] > sp.limit
        /\ b \in live => /\ b \notin classFree[sp.heap] /\ b \notin sp.free
                         /\ b \notin sp.deferred /\ b \notin air /\ b[2] <= sp.limit
        /\ b \in classFree[sp.heap] => /\ b \notin sp.free /\ b \notin sp.deferred
                                       /\ b \notin air /\ b[2] <= sp.limit
        /\ b \in sp.free => b \notin sp.deferred /\ b \notin air /\ b[2] <= sp.limit
        /\ b \in sp.deferred => b \notin air /\ b[2] <= sp.limit
        /\ b \in air => b[2] <= sp.limit

Counts(s) ==
  /\ span[s].usedCount = span[s].limit - Cardinality(span[s].free)
  /\ span[s].listSize = Cardinality(Back(s))

SpanOK(s) == span[s] \in SpanType(s) /\ Places(s) /\ Counts(s)

(* Blocks outside the spans' lists belong to spans in use.                 *)
Rooted ==
  /\ \A b \in live : b[1] \in DOMAIN span
  /\ \A h \in Heap : \A b \in classFree[h] : b[1] \in DOMAIN span /\ span[b[1]].heap = h

(* A heap has one thread, which owns it before and after all its calls.    *)
OwnersOK ==
  /\ \A h \in Heap : owner[h] # None => mine[owner[h]] = h
  /\ \A t, u \in Thread : mine[t] # None /\ mine[t] = mine[u] => t = u
  /\ \A i, j \in DOMAIN orphans : orphans[i] = orphans[j] => i = j
  /\ \A i \in DOMAIN orphans, t \in Thread : mine[t] # orphans[i]
  /\ \A t \in Thread : pc[t].at # "own" /\ mine[t] # None => owner[mine[t]] = t
  /\ \A t \in Thread : pc[t].at \in {"extract", "new", "own", "orphan"} => mine[t] # None

(* Who holds the lock of a deferred list, and who carries what.            *)
LocksOK ==
  /\ \A s \in DOMAIN span : span[s].locked <=>
       \E t \in Thread : pc[t].at \in Holding /\ SpanOf(t) = s
  /\ \A t, u \in Thread :
       pc[t].at \in Holding /\ pc[u].at \in Holding /\ SpanOf(t) = SpanOf(u) => t = u
  /\ \A t, u \in Thread :
       pc[t].at \in Carrying /\ pc[u].at \in Carrying /\ pc[t].b = pc[u].b => t = u
  /\ \A t, u \in Thread :
       pc[t].at = "push" /\ pc[u].at = "push" /\ SpanOf(t) = SpanOf(u) => t = u

(* What a thread inside a call knows of the span it works on.              *)
CallOK(t) ==
  LET s == SpanOf(t) IN
    /\ pc[t].at \in OnSpan => s \in DOMAIN span
    /\ pc[t].at = "store all" => OfSpan(s) \subseteq Back(s)
    /\ pc[t].at = "store" => ~(OfSpan(s) \subseteq Back(s))
    /\ pc[t].at = "push" => OfSpan(s) \subseteq span[s].deferred
    /\ pc[t].at = "extract" => /\ span[s].heap = mine[t] /\ span[s].free = {}
                               /\ partial[mine[t]] # <<>> /\ Head(partial[mine[t]]) = s
    /\ pc[t].at = "sync" => /\ finalized \/ owner[span[s].heap] = t
                            /\ span[s].free # {}
                            /\ \A b \in OfSpan(s) : \/ b \in span[s].free
                                                    \/ b \in Back(s)
                                                    \/ b[2] > span[s].limit
CallsOK == \A t \in Thread : CallOK(t)

(* The lists that spans are found by.                                      *)
Partly(h) == {s \in DOMAIN span : span[s].heap = h /\ (~FullyUtilized(span[s]) \/ s \in taken)}
Fully(h)  == {s \in DOMAIN span : span[s].heap = h /\ FullyUtilized(span[s]) /\ s \notin taken}
Given(h)  == {s \in DOMAIN span : span[s].heap = h /\ s \notin pushed
                                  /\ OfSpan(s) \subseteq span[s].deferred}
ListsOK ==
  \A h \in Heap :
    /\ IsInjective(partial[h])
    /\ Range(partial[h]) = Partly(h)
    /\ full[h] = Cardinality(Fully(h))
    /\ deferred[h] = Given(h)

(* After rpmalloc_finalize() one thread is left.                           *)
FinalOK ==
  finalized =>
    /\ \A t \in Thread : pc[t].at \in {"idle", "sync"} /\ mine[t] = None
    /\ \A t, u \in Thread : pc[t].at = "sync" /\ pc[u].at = "sync" => t = u
    /\ \A h \in Heap : classFree[h] = {}

Inv ==
  /\ TypeOK /\ \A s \in DOMAIN span : SpanOK(s)
  /\ Rooted /\ OwnersOK /\ LocksOK /\ CallsOK /\ ListsOK /\ FinalOK /\ Reclaimed
-----------------------------------------------------------------------------
(* A block is a block of the span it names, and of no other.               *)
LEMMA BlocksAre ==
  /\ \A b \in Block : b[1] \in Span /\ b[2] \in 1 .. BlockCount /\ b \in OfSpan(b[1])
  /\ \A s \in Span : OfSpan(s) \subseteq Block /\ \A b \in Block : b \in OfSpan(s) <=> b[1] = s
<1>1. ASSUME NEW b \in Block
      PROVE  /\ b[1] \in Span /\ b[2] \in 1 .. BlockCount /\ b = <<b[1], b[2]>>
             /\ \A s \in Span : b \in OfSpan(s) <=> b[1] = s
  <2>1. PICK i \in Span, j \in 1 .. BlockCount : b = <<i, j>>
    BY <1>1 DEF Block
  <2>. QED
    BY <2>1 DEF OfSpan, Indices
<1>2. ASSUME NEW s \in Span PROVE OfSpan(s) \subseteq Block
  BY <1>2 DEF OfSpan, Indices, Block
<1>. QED
  BY <1>1, <1>2

(* A span has BlockCount blocks.                                           *)
LEMMA OfSpanIs ==
  ASSUME NEW s \in Span
  PROVE  /\ \A b \in OfSpan(s) : b \in Block /\ b[1] = s /\ b[2] \in 1 .. BlockCount
         /\ IsFiniteSet(OfSpan(s)) /\ Cardinality(OfSpan(s)) = BlockCount
         /\ OfSpan(s) # {}
<1>1. \A b \in OfSpan(s) : b \in Block /\ b[1] = s /\ b[2] \in 1 .. BlockCount
  BY BlocksAre
<1>2. IsFiniteSet(1 .. BlockCount) /\ Cardinality(1 .. BlockCount) = BlockCount
  BY FS_Interval, CountAssumption
<1>3. IsFiniteSet({s}) /\ Cardinality({s}) = 1
  BY FS_Singleton
<1>4. IsFiniteSet(OfSpan(s)) /\ Cardinality(OfSpan(s)) = 1 * BlockCount
  BY <1>2, <1>3, FS_Product, ZenonT(40) DEF OfSpan, Indices
<1>. QED
  BY <1>1, <1>4, FS_EmptySet, CountAssumption

(* A run of blocks of a span.                                              *)
LEMMA IndicesAre ==
  ASSUME NEW s \in Span, NEW a \in Nat \ {0}, NEW c \in Nat, c <= BlockCount
  PROVE  /\ \A b \in OfSpan(s) : b \in Indices(s, a, c) <=> a <= b[2] /\ b[2] <= c
         /\ Indices(s, a, c) \subseteq OfSpan(s)
         /\ IsFiniteSet(Indices(s, a, c))
         /\ a <= c => Cardinality(Indices(s, a, c)) = c - a + 1 /\ Indices(s, a, c) # {}
<1>1. \A b \in OfSpan(s) : b \in Indices(s, a, c) <=> a <= b[2] /\ b[2] <= c
  <2>. SUFFICES ASSUME NEW b \in OfSpan(s)
                PROVE  b \in Indices(s, a, c) <=> a <= b[2] /\ b[2] <= c
    OBVIOUS
  <2>1. PICK j \in 1 .. BlockCount : b = <<s, j>>
    BY DEF OfSpan, Indices
  <2>. QED
    BY <2>1, CountAssumption DEF Indices
<1>2. Indices(s, a, c) \subseteq OfSpan(s)
  BY CountAssumption DEF OfSpan, Indices
<1>3. IsFiniteSet(Indices(s, a, c))
  BY <1>2, OfSpanIs, FS_Subset
<1>4. ASSUME a <= c PROVE Cardinality(Indices(s, a, c)) = c - a + 1 /\ Indices(s, a, c) # {}
  <2>1. IsFiniteSet(a .. c) /\ Cardinality(a .. c) = c - a + 1
    BY <1>4, FS_Interval
  <2>2. IsFiniteSet({s}) /\ Cardinality({s}) = 1
    BY FS_Singleton
  <2>3. Cardinality(Indices(s, a, c)) = 1 * (c - a + 1)
    BY <2>1, <2>2, FS_Product, ZenonT(40) DEF Indices
  <2>. QED
    BY <2>3, <1>4, FS_EmptySet
<1>. QED
  BY <1>1, <1>2, <1>3, <1>4

(* A set of numbers has a least one.                                       *)
LEMMA LeastOf ==
  ASSUME NEW T \in SUBSET Nat, T # {}
  PROVE  \E x \in T : \A y \in T : x <= y
<1>1. PICK x \in T : \A y \in T : <<y, x>> \notin OpToRel(<, Nat)
  BY NatLessThanWellFounded, WFMin
<1>2. \A y \in T : ~(y < x)
  BY <1>1 DEF OpToRel
<1>. QED
  BY <1>2

(* Pick() is one of the blocks it is given.                                *)
LEMMA PickIsIn ==
  ASSUME NEW blocks \in SUBSET Block, blocks # {}
  PROVE  Pick(blocks) \in blocks
<1>. DEFINE T == {b[2] : b \in blocks}
<1>1. T \in SUBSET Nat /\ T # {}
  BY BlocksAre, CountAssumption
<1>2. PICK x \in T : \A y \in T : x <= y
  BY <1>1, LeastOf
<1>3. \E b \in blocks : \A c \in blocks : b[2] <= c[2]
  BY <1>2
<1>. QED
  BY <1>3 DEF Pick

(* Min() of a set of spans is one of them.                                 *)
LEMMA MinIsIn ==
  ASSUME NEW S \in SUBSET Nat, S # {}
  PROVE  Min(S) \in S
<1>1. \E x \in S : \A y \in S : x <= y
  BY LeastOf
<1>. QED
  BY <1>1 DEF Min

(* A page starts where asked and ends within the span.                     *)
LEMMA PageIs ==
  ASSUME NEW s \in Span, NEW from \in 1 .. BlockCount
  PROVE  /\ PageOf(s, from) \subseteq OfSpan(s) /\ PageOf(s, from) # {}
         /\ from - 1 + Cardinality(PageOf(s, from)) \in from .. BlockCount
         /\ \A b \in OfSpan(s) : b \in PageOf(s, from) <=>
              from <= b[2] /\ b[2] <= from - 1 + Cardinality(PageOf(s, from))
<1>. DEFINE to == Min({from + PageBlocks - 1, BlockCount})
<1>1. to \in from .. BlockCount
  <2>1. to \in {from + PageBlocks - 1, BlockCount}
    BY MinIsIn, CountAssumption
  <2>2. \A x \in {from + PageBlocks - 1, BlockCount} : to <= x
    <3>1. {from + PageBlocks - 1, BlockCount} \in SUBSET Nat
      BY CountAssumption
    <3>2. \E x \in {from + PageBlocks - 1, BlockCount} :
            \A y \in {from + PageBlocks - 1, BlockCount} : x <= y
      BY <3>1, LeastOf
    <3>. QED
      BY <3>2 DEF Min
  <2>. QED
    BY <2>1, <2>2, CountAssumption
<1>2. PageOf(s, from) = Indices(s, from, to)
  BY DEF PageOf
<1>. HIDE DEF to
<1>3. from \in Nat \ {0} /\ to \in Nat /\ to <= BlockCount /\ from <= to
  BY <1>1, CountAssumption
<1>4. Cardinality(PageOf(s, from)) = to - from + 1 /\ PageOf(s, from) # {}
  BY <1>2, <1>3, IndicesAre
<1>5. from - 1 + Cardinality(PageOf(s, from)) = to
  BY <1>3, <1>4
<1>. QED
  BY <1>1, <1>2, <1>3, <1>4, <1>5, IndicesAre
-----------------------------------------------------------------------------
(* One thread moves, and what it carries and where it stands changes with  *)
(* it.                                                                     *)
LEMMA Moves ==
  ASSUME TypeOK, NEW t \in Thread, NEW w \in PC, NEW c, Goto(t, w, c)
  PROVE  /\ DOMAIN pc' = Thread
         /\ \A u \in Thread : pc'[u] = IF u = t THEN [at |-> w, b |-> c] ELSE pc[u]
         /\ pc'[t].at = w /\ pc'[t].b = c /\ SpanOf(t)' = c[1]
         /\ \A u \in Thread \ {t} : pc'[u] = pc[u] /\ SpanOf(u)' = SpanOf(u)
  BY DEF TypeOK, Goto, SpanOf

(* What a step adds to and takes from the blocks threads carry.            *)
LEMMA AirMoves ==
  ASSUME TypeOK, LocksOK, NEW t \in Thread, NEW w \in PC, NEW c, Goto(t, w, c)
  PROVE  /\ air' = (air \ (IF pc[t].at \in Carrying THEN {pc[t].b} ELSE {}))
                     \cup (IF w \in Carrying THEN {c} ELSE {})
         /\ stored' = (stored \ (IF pc[t].at \in Storing THEN {pc[t].b} ELSE {}))
                     \cup (IF w \in Storing THEN {c} ELSE {})
<1>1. /\ \A u \in Thread \ {t} : pc'[u] = pc[u]
      /\ pc'[t].at = w /\ pc'[t].b = c
  BY DEF TypeOK, Goto
<1>2. \A u \in Thread \ {t} :
        pc[t].at \in Carrying /\ pc[u].at \in Carrying => pc[u].b # pc[t].b
  BY DEF LocksOK
<1>3. Storing \subseteq Carrying
  BY DEF Carrying, Holding
<1>. QED
  BY <1>1, <1>2, <1>3 DEF air, stored

(* What a step adds to and takes from the spans about to leave a list or   *)
(* to be put on one.                                                       *)
LEMMA ListsMove ==
  ASSUME TypeOK, LocksOK, OwnersOK, CallsOK,
         NEW t \in Thread, NEW w \in PC, NEW c, Goto(t, w, c)
  PROVE  /\ taken' = (taken \ (IF pc[t].at = "extract" THEN {SpanOf(t)} ELSE {}))
                     \cup (IF w = "extract" THEN {c[1]} ELSE {})
         /\ pushed' = (pushed \ (IF pc[t].at = "push" THEN {SpanOf(t)} ELSE {}))
                     \cup (IF w = "push" THEN {c[1]} ELSE {})
<1>1. /\ \A u \in Thread \ {t} : pc'[u] = pc[u] /\ SpanOf(u)' = SpanOf(u)
      /\ pc'[t].at = w /\ SpanOf(t)' = c[1]
  BY DEF TypeOK, Goto, SpanOf
<1>2. \A u \in Thread \ {t} : pc[t].at = "push" /\ pc[u].at = "push" => SpanOf(u) # SpanOf(t)
  BY DEF LocksOK
<1>3. \A u \in Thread \ {t} :
        pc[t].at = "extract" /\ pc[u].at = "extract" => SpanOf(u) # SpanOf(t)
  <2>1. \A u \in Thread : pc[u].at = "extract" =>
          mine[u] # None /\ span[SpanOf(u)].heap = mine[u]
    BY DEF OwnersOK, CallsOK, CallOK
  <2>2. \A u \in Thread : mine[u] # None /\ mine[t] = mine[u] => t = u
    BY DEF OwnersOK
  <2>. QED
    BY <2>1, <2>2
<1>. QED
  BY <1>1, <1>2, <1>3 DEF taken, pushed

(* A span that nothing touches stays in order.                             *)
LEMMA SpanKeeps ==
  ASSUME NEW s \in DOMAIN span, SpanOK(s), span'[s] = span[s],
         live' \cap OfSpan(s) = live \cap OfSpan(s),
         classFree'[span[s].heap] \cap OfSpan(s) = classFree[span[s].heap] \cap OfSpan(s),
         air' \cap OfSpan(s) = air \cap OfSpan(s),
         stored' \cap OfSpan(s) = stored \cap OfSpan(s)
  PROVE  SpanOK(s)' /\ Back(s)' = Back(s)
<1>1. Back(s)' = Back(s)
  BY DEF Back
<1>2. Places(s)'
  <2>1. \A b \in OfSpan(s) :
          /\ b \in live' <=> b \in live
          /\ b \in classFree'[span[s].heap] <=> b \in classFree[span[s].heap]
          /\ b \in air' <=> b \in air
    OBVIOUS
  <2>. QED
    BY <2>1 DEF Places, SpanOK
<1>3. Counts(s)'
  BY <1>1 DEF Counts, SpanOK
<1>. QED
  BY <1>1, <1>2, <1>3 DEF SpanOK, SpanType

(* A span is fully utilized, or has a block to give.                       *)
LEMMA BlocksInAir ==
  ASSUME Inv
  PROVE  /\ \A b \in air : b \in Block /\ b[1] \in DOMAIN span
         /\ stored \subseteq air
         /\ \A s \in DOMAIN span : s \in Span
<1>1. ASSUME NEW t \in Thread, pc[t].at \in Carrying
      PROVE  pc[t].b \in Block /\ pc[t].b[1] \in DOMAIN span
  BY <1>1 DEF Inv, TypeOK, CallsOK, CallOK, SpanOf, OnSpan, OnBlock
<1>. QED
  BY <1>1 DEF air, stored, Carrying, Holding, Inv, TypeOK

(* If every block linked up is in the span's lists, the two counters that  *)
(* the owner compares are equal, and only then.                            *)
LEMMA CountersMeet ==
  ASSUME NEW s \in Span, NEW limit \in 1 .. BlockCount,
         NEW free \in SUBSET OfSpan(s), NEW back \in SUBSET OfSpan(s), free \cap back = {},
         \A b \in free \cup back : b[2] <= limit
  PROVE  limit - Cardinality(free) = Cardinality(back) <=>
           \A b \in OfSpan(s) : b \in free \/ b \in back \/ b[2] > limit
<1>. DEFINE linked == Indices(s, 1, limit)
            listed == free \cup back
<1>1. limit \in Nat /\ limit <= BlockCount /\ 1 <= limit /\ 1 \in Nat \ {0}
  BY CountAssumption
<1>2. /\ IsFiniteSet(linked) /\ Cardinality(linked) = limit /\ linked \subseteq OfSpan(s)
      /\ \A b \in OfSpan(s) : b \in linked <=> b[2] <= limit
  <2>1. /\ IsFiniteSet(linked) /\ Cardinality(linked) = limit - 1 + 1 /\ linked \subseteq OfSpan(s)
        /\ \A b \in OfSpan(s) : b \in linked <=> 1 <= b[2] /\ b[2] <= limit
    BY <1>1, IndicesAre
  <2>2. \A b \in OfSpan(s) : 1 <= b[2]
    BY OfSpanIs, CountAssumption
  <2>. QED
    BY <1>1, <2>1, <2>2
<1>. HIDE DEF linked
<1>3. listed \subseteq linked
  BY <1>2
<1>4. /\ Cardinality(listed) = Cardinality(free) + Cardinality(back)
      /\ Cardinality(free) \in Nat /\ Cardinality(back) \in Nat
  <2>1. IsFiniteSet(free) /\ IsFiniteSet(back)
    BY <1>2, <1>3, FS_Subset
  <2>2. Cardinality(listed) = Cardinality(free) + Cardinality(back) - Cardinality(free \cap back)
    BY <2>1, FS_Union
  <2>3. Cardinality(free) \in Nat /\ Cardinality(back) \in Nat
    BY <2>1, FS_CardinalityType
  <2>4. Cardinality(free \cap back) = 0
    BY FS_EmptySet
  <2>. QED
    BY <2>2, <2>3, <2>4
<1>5. Cardinality(listed) = limit <=> listed = linked
  BY <1>2, <1>3, FS_Subset
<1>6. limit - Cardinality(free) = Cardinality(back) <=> listed = linked
  BY <1>1, <1>4, <1>5
<1>7. listed = linked <=> \A b \in OfSpan(s) : b \in listed \/ ~(b \in linked)
  BY <1>2, <1>3
<1>8. \A b \in OfSpan(s) : ~(b \in linked) <=> b[2] > limit
  BY <1>1, <1>2, OfSpanIs
<1>. QED
  BY <1>6, <1>7, <1>8
-----------------------------------------------------------------------------
(* Lists without repetitions.                                              *)
LEMMA TailIs ==
  ASSUME NEW S, NEW list \in Seq(S), IsInjective(list), list # <<>>
  PROVE  /\ Tail(list) \in Seq(S) /\ IsInjective(Tail(list))
         /\ Head(list) \in Range(list)
         /\ Range(Tail(list)) = Range(list) \ {Head(list)}
<1>1. /\ Len(list) \in Nat \ {0} /\ DOMAIN list = 1 .. Len(list) /\ Head(list) = list[1]
      /\ Tail(list) \in Seq(S) /\ DOMAIN Tail(list) = 1 .. Len(list) - 1
      /\ \A i \in 1 .. Len(list) - 1 : Tail(list)[i] = list[i + 1]
  BY HeadTailProperties, EmptySeq, LenProperties
<1>2. \A i, j \in 1 .. Len(list) : list[i] = list[j] => i = j
  BY <1>1 DEF IsInjective
<1>3. IsInjective(Tail(list))
  BY <1>1, <1>2 DEF IsInjective
<1>4. Head(list) \in Range(list)
  BY <1>1 DEF Range
<1>5. ASSUME NEW x \in Range(Tail(list)) PROVE x \in Range(list) \ {Head(list)}
  <2>1. PICK i \in 1 .. Len(list) - 1 : x = list[i + 1]
    BY <1>1 DEF Range
  <2>2. i + 1 \in 1 .. Len(list) /\ i + 1 # 1 /\ 1 \in 1 .. Len(list)
    BY <1>1
  <2>. QED
    BY <1>1, <1>2, <2>1, <2>2 DEF Range
<1>6. ASSUME NEW x \in Range(list) \ {Head(list)} PROVE x \in Range(Tail(list))
  <2>1. PICK i \in 1 .. Len(list) : x = list[i] /\ i # 1
    BY <1>1 DEF Range
  <2>2. i - 1 \in 1 .. Len(list) - 1 /\ Tail(list)[i - 1] = x
    BY <1>1, <2>1
  <2>. QED
    BY <1>1, <2>2 DEF Range
<1>. QED
  BY <1>1, <1>3, <1>4, <1>5, <1>6

(* A span put before a list without it.                                    *)
LEMMA ConsIs ==
  ASSUME NEW S, NEW list \in Seq(S), IsInjective(list), NEW x \in S, x \notin Range(list)
  PROVE  /\ <<x>> \o list \in Seq(S) /\ IsInjective(<<x>> \o list)
         /\ Range(<<x>> \o list) = Range(list) \cup {x}
         /\ <<x>> \o list # <<>>
<1>. DEFINE more == <<x>> \o list
<1>1. /\ Len(list) \in Nat /\ DOMAIN list = 1 .. Len(list) /\ more \in Seq(S)
      /\ DOMAIN more = 1 .. Len(list) + 1 /\ more[1] = x /\ Len(more) = Len(list) + 1
      /\ \A i \in 2 .. Len(list) + 1 : more[i] = list[i - 1]
  BY ConcatProperties, LenProperties
<1>. HIDE DEF more
<1>2. \A i \in 1 .. Len(list) : list[i] # x /\ \A j \in 1 .. Len(list) : list[i] = list[j] => i = j
  BY <1>1 DEF IsInjective, Range
<1>3. ASSUME NEW i \in 1 .. Len(list) + 1, NEW j \in 1 .. Len(list) + 1, more[i] = more[j]
      PROVE  i = j
  <2>1. i = 1 \/ (i \in 2 .. Len(list) + 1 /\ i - 1 \in 1 .. Len(list))
    BY <1>1
  <2>2. j = 1 \/ (j \in 2 .. Len(list) + 1 /\ j - 1 \in 1 .. Len(list))
    BY <1>1
  <2>. QED
    BY <1>1, <1>2, <1>3, <2>1, <2>2
<1>4. Range(more) = Range(list) \cup {x}
  <2>1. ASSUME NEW y \in Range(list) PROVE y \in Range(more)
    <3>1. PICK i \in 1 .. Len(list) : y = list[i]
      BY <1>1 DEF Range
    <3>2. i + 1 \in 2 .. Len(list) + 1 /\ more[i + 1] = y /\ i + 1 \in DOMAIN more
      BY <1>1, <3>1
    <3>. QED
      BY <3>2 DEF Range
  <2>2. x \in Range(more)
    BY <1>1 DEF Range
  <2>3. ASSUME NEW y \in Range(more) PROVE y \in Range(list) \cup {x}
    <3>1. PICK i \in 1 .. Len(list) + 1 : y = more[i]
      BY <1>1 DEF Range
    <3>2. i = 1 \/ (i \in 2 .. Len(list) + 1 /\ i - 1 \in 1 .. Len(list))
      BY <1>1
    <3>. QED
      BY <1>1, <3>1, <3>2 DEF Range
  <2>. QED
    BY <2>1, <2>2, <2>3
<1>5. more # <<>>
  BY <1>1, EmptySeq
<1>6. IsInjective(more)
  BY <1>1, <1>3 DEF IsInjective
<1>. QED
  BY <1>1, <1>4, <1>5, <1>6 DEF more

(* A span taken from a list that holds it once.                            *)
LEMMA WithoutIs ==
  ASSUME NEW S, NEW list \in Seq(S), IsInjective(list), NEW x \in Range(list)
  PROVE  /\ Without(list, x) \in Seq(S) /\ IsInjective(Without(list, x))
         /\ Range(Without(list, x)) = Range(list) \ {x}
<1>. DEFINE k == CHOOSE j \in DOMAIN list : list[j] = x
            less == [j \in 1 .. Len(list) - 1 |-> list[IF j < k THEN j ELSE j + 1]]
<1>1. Without(list, x) = less
  BY DEF Without
<1>2. Len(list) \in Nat /\ DOMAIN list = 1 .. Len(list)
  BY LenProperties
<1>3. k \in 1 .. Len(list) /\ list[k] = x
  BY <1>2 DEF Range
<1>. HIDE DEF k
<1>4. \A i, j \in 1 .. Len(list) : list[i] = list[j] => i = j
  BY <1>2 DEF IsInjective
<1>5. \A j \in 1 .. Len(list) - 1 :
        /\ (IF j < k THEN j ELSE j + 1) \in 1 .. Len(list)
        /\ (IF j < k THEN j ELSE j + 1) # k
        /\ less[j] = list[IF j < k THEN j ELSE j + 1]
  BY <1>2, <1>3
<1>6. DOMAIN less = 1 .. Len(list) - 1
  OBVIOUS
<1>. HIDE DEF less
<1>7. \A i \in 1 .. Len(list) : list[i] \in S
  BY <1>2, ElementOfSeq
<1>8. less \in [1 .. Len(list) - 1 -> S]
  BY <1>5, <1>7 DEF less
<1>9. less \in Seq(S)
  <2>1. Len(list) - 1 \in Nat
    BY <1>2, <1>3
  <2>. QED
    BY <1>8, <2>1, SeqDef
<1>10. IsInjective(less)
  <2>. SUFFICES ASSUME NEW i \in 1 .. Len(list) - 1, NEW j \in 1 .. Len(list) - 1,
                       less[i] = less[j]
                PROVE  i = j
    BY <1>6 DEF IsInjective
  <2>1. (IF i < k THEN i ELSE i + 1) = (IF j < k THEN j ELSE j + 1)
    BY <1>4, <1>5
  <2>. QED
    BY <2>1, <1>2, <1>3
<1>11. ASSUME NEW y \in Range(less) PROVE y \in Range(list) \ {x}
  <2>1. PICK j \in 1 .. Len(list) - 1 : y = less[j]
    BY <1>6 DEF Range
  <2>. QED
    BY <1>2, <1>3, <1>4, <1>5, <2>1, ZenonT(40) DEF Range
<1>12. ASSUME NEW y \in Range(list) \ {x} PROVE y \in Range(less)
  <2>1. PICK i \in 1 .. Len(list) : y = list[i] /\ i # k
    BY <1>2, <1>3 DEF Range
  <2>2. CASE i < k
    <3>1. i \in 1 .. Len(list) - 1 /\ less[i] = y
      BY <1>2, <1>3, <1>5, <2>1, <2>2
    <3>. QED
      BY <1>6, <3>1 DEF Range
  <2>3. CASE i > k
    <3>1. i - 1 \in 1 .. Len(list) - 1 /\ ~(i - 1 < k) /\ (i - 1) + 1 = i
      BY <1>2, <1>3, <2>1, <2>3
    <3>2. less[i - 1] = y
      BY <1>5, <2>1, <3>1
    <3>. QED
      BY <1>6, <3>1, <3>2 DEF Range
  <2>. QED
    BY <1>3, <2>1, <2>2, <2>3
<1>. QED
  BY <1>1, <1>9, <1>10, <1>11, <1>12

(* SetToSeq() of a finite set has each element once.                       *)
LEMMA SetToSeqIs ==
  ASSUME NEW S, IsFiniteSet(S)
  PROVE  /\ SetToSeq(S) \in Seq(S) /\ IsInjective(SetToSeq(S))
         /\ Range(SetToSeq(S)) = S
<1>. DEFINE n == Cardinality(S)
            list == SetToSeq(S)
<1>1. n \in Nat /\ ExistsBijection(1 .. n, S)
  BY FS_CardinalityType
<1>2. PICK f \in Bijection(1 .. n, S) : TRUE
  BY <1>1 DEF ExistsBijection
<1>3. f \in [1 .. n -> S] /\ IsInjective(f)
  BY <1>2 DEF Bijection, Injection, Surjection, IsInjective
<1>4. list \in [1 .. n -> S] /\ IsInjective(list)
  BY <1>3 DEF SetToSeq
<1>. HIDE DEF list
<1>5. list \in Seq(S)
  BY <1>1, <1>4, SeqDef
<1>6. list \in Injection(1 .. n, S)
  BY <1>4 DEF Injection, IsInjective
<1>7. IsFiniteSet(1 .. n) /\ Cardinality(1 .. n) = n
  BY <1>1, FS_Interval
<1>8. list \in Surjection(1 .. n, S)
  BY <1>6, <1>7, FS_Injection
<1>9. Range(list) = S
  BY <1>4, <1>8 DEF Surjection, Range
<1>. QED
  BY <1>4, <1>5, <1>9 DEF list
-----------------------------------------------------------------------------
(* The invariant holds at the start: no span is in use, no thread has a    *)
(* heap.                                                                   *)
LEMMA InitInv == Init => Inv
<1>. SUFFICES ASSUME Init PROVE Inv
  OBVIOUS
<1>1. DOMAIN span = {} /\ span = [s \in DOMAIN span |-> span[s]]
  BY DEF Init
<1>2. /\ orphans \in Seq(Heap) /\ IsInjective(orphans)
  BY SetToSeqIs, HeapAssumption DEF Init
<1>3. \A t \in Thread : pc[t].at = "idle" /\ pc[t].b = None /\ mine[t] = None
  BY DEF Init, Idle
<1>4. <<>> \in Seq(Span) /\ IsInjective(<<>>) /\ Range(<<>>) = {}
  BY EmptySeq DEF IsInjective, Range
<1>5. TypeOK
  <2>1. pc \in [Thread -> [at : PC, b : Block \cup {<<s>> : s \in Span} \cup {None}]]
    BY DEF Init, Idle, PC
  <2>2. \A t \in Thread : pc[t].at \notin OnBlock /\ pc[t].at # "sync"
    BY <1>3 DEF OnBlock, Carrying, Holding, Storing
  <2>3. partial \in [Heap -> Seq(Span)]
    BY <1>4 DEF Init
  <2>4. /\ classFree \in [Heap -> SUBSET Block] /\ full \in [Heap -> Int]
        /\ deferred \in [Heap -> SUBSET Span] /\ owner \in [Heap -> Thread \cup {None}]
        /\ mine \in [Thread -> Heap \cup {None}]
    BY DEF Init
  <2>5. pool = Span \ DOMAIN span /\ live \subseteq Block /\ finalized \in BOOLEAN
    BY <1>1 DEF Init
  <2>. QED
    BY <1>1, <1>2, <2>1, <2>2, <2>3, <2>4, <2>5 DEF TypeOK
<1>6. OwnersOK
  <2>1. \A i \in DOMAIN orphans : orphans[i] \in Heap
    BY <1>2, ElementOfSeq, LenProperties
  <2>. QED
    BY <1>2, <1>3, <2>1, HeapAssumption DEF Init, OwnersOK, IsInjective
<1>7. LocksOK /\ CallsOK
  BY <1>1, <1>3 DEF LocksOK, CallsOK, CallOK, Carrying, Holding, Storing, OnSpan, OnBlock
<1>8. ListsOK
  <2>1. \A h \in Heap : Partly(h) = {} /\ Fully(h) = {} /\ Given(h) = {}
    BY <1>1 DEF Partly, Fully, Given
  <2>. QED
    BY <1>4, <2>1, FS_EmptySet DEF Init, ListsOK
<1>9. Rooted /\ FinalOK /\ Reclaimed
  BY DEF Init, Rooted, FinalOK, Reclaimed
<1>. QED
  BY <1>1, <1>5, <1>6, <1>7, <1>8, <1>9 DEF Inv
-----------------------------------------------------------------------------
(* What each part of the invariant needs of a step of thread t to survive  *)
(* it.                                                                     *)
LEMMA Kinds ==
  /\ Storing \subseteq Holding /\ Holding \subseteq Carrying /\ Carrying \subseteq OnBlock
  /\ OnBlock \subseteq OnSpan /\ OnSpan \subseteq PC
  /\ {"idle", "new", "own", "orphan"} \subseteq PC
  /\ "extract" \in Carrying \ Holding /\ "lock" \in Carrying \ Holding
  /\ "count" \in Holding \ Storing /\ "store" \in Storing /\ "store all" \in Storing
  /\ "push" \in OnBlock \ Carrying /\ "sync" \in OnSpan \ OnBlock
  BY DEF PC, OnSpan, OnBlock, Carrying, Holding, Storing

(* Outside the calls that work on a span a thread carries nothing.         *)
LEMMA OffSpan ==
  \A w \in {"idle", "new", "own", "orphan"} :
    /\ w \notin OnSpan /\ w \notin OnBlock /\ w \notin Carrying /\ w \notin Holding
    /\ w \notin Storing
    /\ w # "push" /\ w # "sync" /\ w # "extract" /\ w # "store" /\ w # "store all"
  BY DEF OnSpan, OnBlock, Carrying, Holding, Storing

(* A thread that stays is one that moves to where it is.                   *)
LEMMA MoveOrStay ==
  ASSUME TypeOK, NEW t \in Thread, UNCHANGED pc
  PROVE  Goto(t, pc[t].at, pc[t].b)
<1>1. pc[t] = [at |-> pc[t].at, b |-> pc[t].b]
  BY DEF TypeOK
<1>. QED
  BY <1>1 DEF Goto, TypeOK

(* What a thread inside a call knows survives a step of another one that   *)
(* keeps the span, its lists and its owner.                                *)
LEMMA CallKeeps ==
  ASSUME NEW u \in Thread, NEW s, s = SpanOf(u), CallOK(u), pc'[u] = pc[u],
         pc[u].at \in OnSpan => s \in DOMAIN span',
         pc[u].at \in Storing => Back(s)' = Back(s),
         pc[u].at = "push" => span[s].deferred \subseteq span'[s].deferred,
         pc[u].at = "extract" => /\ span'[s].heap = span[s].heap
                                 /\ span'[s].free = span[s].free
                                 /\ mine'[u] = mine[u]
                                 /\ partial'[mine[u]] = partial[mine[u]],
         pc[u].at = "sync" => /\ span'[s].heap = span[s].heap
                              /\ span'[s].free = span[s].free
                              /\ span'[s].limit = span[s].limit
                              /\ Back(s) \subseteq Back(s)'
                              /\ finalized => finalized'
                              /\ owner'[span[s].heap] = owner[span[s].heap]
  PROVE  CallOK(u)'
<1>1. SpanOf(u)' = s /\ pc'[u].at = pc[u].at
  BY DEF SpanOf
<1>2. (pc[u].at \in OnSpan => s \in DOMAIN span)'
  BY <1>1
<1>3. (pc[u].at = "store all" => OfSpan(s) \subseteq Back(s))'
  BY <1>1 DEF CallOK, Storing, OfSpan, Indices
<1>4. (pc[u].at = "store" => ~(OfSpan(s) \subseteq Back(s)))'
  BY <1>1 DEF CallOK, Storing, OfSpan, Indices
<1>5. (pc[u].at = "push" => OfSpan(s) \subseteq span[s].deferred)'
  BY <1>1 DEF CallOK, OfSpan, Indices
<1>6. (pc[u].at = "extract" => /\ span[s].heap = mine[u] /\ span[s].free = {}
                               /\ partial[mine[u]] # <<>> /\ Head(partial[mine[u]]) = s)'
  BY <1>1 DEF CallOK
<1>7. (pc[u].at = "sync" => /\ finalized \/ owner[span[s].heap] = u
                            /\ span[s].free # {}
                            /\ \A b \in OfSpan(s) : \/ b \in span[s].free
                                                    \/ b \in Back(s)
                                                    \/ b[2] > span[s].limit)'
  <2>1. OfSpan(s)' = OfSpan(s)
    BY <1>1 DEF OfSpan, Indices
  <2>. QED
    BY <1>1, <2>1 DEF CallOK
<1>. QED
  BY <1>1, <1>2, <1>3, <1>4, <1>5, <1>6, <1>7 DEF CallOK, Back

(* The same, for a step that leaves the thread's span alone.               *)
LEMMA CallSame ==
  ASSUME NEW u \in Thread, NEW s, s = SpanOf(u), CallOK(u), pc'[u] = pc[u],
         pc[u].at \in OnSpan => /\ s \in DOMAIN span'
                                /\ span'[s] = span[s]
                                /\ Back(s)' = Back(s),
         pc[u].at = "extract" => mine'[u] = mine[u] /\ partial'[mine[u]] = partial[mine[u]],
         pc[u].at = "sync" => /\ finalized => finalized'
                              /\ owner'[span[s].heap] = owner[span[s].heap]
  PROVE  CallOK(u)'
<1>1. Storing \subseteq OnSpan /\ {"push", "extract", "sync"} \subseteq OnSpan
  BY DEF OnSpan, OnBlock, Carrying, Holding
<1>. QED
  BY <1>1, CallKeeps

(* Outside the calls that work on a span there is nothing to know.         *)
LEMMA CallOff ==
  ASSUME NEW t \in Thread, NEW w \in {"idle", "new", "own", "orphan"}, pc'[t].at = w
  PROVE  CallOK(t)'
  BY OffSpan DEF CallOK

(* The locks stay what they are when a thread moves that neither holds one *)
(* nor takes one.                                                          *)
LEMMA LocksKeep ==
  ASSUME Inv, NEW t \in Thread, NEW w \in PC, NEW c, Goto(t, w, c),
         pc[t].at \notin Holding, w \notin Holding, w # "push", w \in Carrying => c \notin air,
         \A s \in DOMAIN span' : IF s \in DOMAIN span THEN span'[s].locked = span[s].locked
                                                      ELSE ~span'[s].locked
  PROVE  LocksOK'
<1>1. /\ \A u \in Thread \ {t} : pc'[u] = pc[u] /\ SpanOf(u)' = SpanOf(u)
      /\ pc'[t].at = w /\ pc'[t].b = c
  BY DEF Inv, TypeOK, Goto, SpanOf
<1>2. \A u \in Thread : pc[u].at \in Carrying => pc[u].b \in air
  BY DEF air
<1>3. \A u \in Thread : pc[u].at \in Holding => SpanOf(u) \in DOMAIN span
  BY DEF Inv, CallsOK, CallOK, OnSpan, OnBlock, Carrying
<1>4. \A u \in Thread : pc'[u].at \in Holding <=> pc[u].at \in Holding
  BY <1>1
<1>5. (\A s \in DOMAIN span : span[s].locked <=>
         \E u \in Thread : pc[u].at \in Holding /\ SpanOf(u) = s)'
  <2>1. \A s \in DOMAIN span : span[s].locked <=>
          \E u \in Thread : pc[u].at \in Holding /\ SpanOf(u) = s
    BY DEF Inv, LocksOK
  <2>2. \A s \in DOMAIN span' : span'[s].locked <=>
          \E u \in Thread : pc[u].at \in Holding /\ SpanOf(u) = s
    BY <1>3, <2>1
  <2>3. \A u \in Thread : pc'[u].at \in Holding => SpanOf(u)' = SpanOf(u)
    BY <1>1
  <2>. QED
    BY <1>4, <2>2, <2>3
<1>6. (\A u, v \in Thread :
         pc[u].at \in Holding /\ pc[v].at \in Holding /\ SpanOf(u) = SpanOf(v) => u = v)'
  BY <1>1 DEF Inv, LocksOK
<1>7. (\A u, v \in Thread :
         pc[u].at \in Carrying /\ pc[v].at \in Carrying /\ pc[u].b = pc[v].b => u = v)'
  BY <1>1, <1>2 DEF Inv, LocksOK
<1>8. (\A u, v \in Thread :
         pc[u].at = "push" /\ pc[v].at = "push" /\ SpanOf(u) = SpanOf(v) => u = v)'
  BY <1>1 DEF Inv, LocksOK
<1>. QED
  BY <1>5, <1>6, <1>7, <1>8 DEF LocksOK

(* Owners stay what they are when a thread moves and no heap changes       *)
(* hands.                                                                  *)
LEMMA OwnersKeep ==
  ASSUME Inv, NEW t \in Thread, NEW w \in PC, NEW c, Goto(t, w, c),
         UNCHANGED <<owner, orphans, mine>>, pc[t].at # "own", w # "own",
         w \in {"extract", "new", "orphan"} => mine[t] # None
  PROVE  OwnersOK'
<1>1. /\ \A u \in Thread \ {t} : pc'[u] = pc[u]
      /\ pc'[t].at = w
  BY DEF Inv, TypeOK, Goto
<1>. QED
  BY <1>1 DEF Inv, OwnersOK

(* The lists of spans stay right when neither they nor what they are about *)
(* changes.                                                                *)
LEMMA ListsKeep ==
  ASSUME ListsOK, UNCHANGED <<partial, full, deferred>>,
         \A h \in Heap : Partly(h)' = Partly(h) /\ Fully(h)' = Fully(h) /\ Given(h)' = Given(h)
  PROVE  ListsOK'
  BY DEF ListsOK

(* Before rpmalloc_finalize() a step has nothing to keep of what follows.  *)
LEMMA NotYetFinal == ~finalized /\ UNCHANGED finalized => FinalOK' /\ Reclaimed'
  BY DEF FinalOK, Reclaimed

(* Where a thread goes has its type.                                       *)
LEMMA GotoType ==
  ASSUME TypeOK, NEW t \in Thread, NEW w \in PC, NEW c, Goto(t, w, c),
         \/ w \in OnBlock /\ c \in Block
         \/ w = "sync" /\ \E s \in Span : c = <<s>>
         \/ w \notin OnSpan /\ c = None
  PROVE  /\ pc' \in [Thread -> [at : PC, b : Block \cup {<<s>> : s \in Span} \cup {None}]]
         /\ \A u \in Thread :
              /\ pc'[u].at \in OnBlock => pc'[u].b \in Block
              /\ pc'[u].at = "sync" => \E s \in Span : pc'[u].b = <<s>>
<1>1. c \in Block \cup {<<s>> : s \in Span} \cup {None}
  OBVIOUS
<1>2. /\ pc' = [pc EXCEPT ![t] = [at |-> w, b |-> c]]
      /\ pc \in [Thread -> [at : PC, b : Block \cup {<<s>> : s \in Span} \cup {None}]]
  BY DEF TypeOK, Goto
<1>3. pc' \in [Thread -> [at : PC, b : Block \cup {<<s>> : s \in Span} \cup {None}]]
  BY <1>1, <1>2
<1>4. /\ \A u \in Thread \ {t} : pc'[u] = pc[u]
      /\ pc'[t].at = w /\ pc'[t].b = c
  BY <1>2
<1>5. "sync" \notin OnBlock /\ OnBlock \subseteq OnSpan /\ "sync" \in OnSpan
  BY DEF OnSpan, OnBlock, Carrying, Holding, Storing
<1>6. \A u \in Thread :
        /\ pc[u].at \in OnBlock => pc[u].b \in Block
        /\ pc[u].at = "sync" => \E s \in Span : pc[u].b = <<s>>
  BY DEF TypeOK
<1>. QED
  BY <1>3, <1>4, <1>5, <1>6
-----------------------------------------------------------------------------
(* The size class gives a block it holds.                                  *)
LEMMA MallocFastInv ==
  ASSUME Inv, NEW t \in Thread, pc[t] = Idle, mine[t] # None, ~finalized, MallocFast(t)
  PROVE  Inv'
<1>1. PICK h \in Heap : h = mine[t]
  BY DEF Inv, TypeOK
<1>2. PICK b \in Block : b = Pick(classFree[h]) /\ b \in classFree[h]
  BY <1>1, PickIsIn DEF MallocFast, Inv, TypeOK
<1>3. PICK s \in DOMAIN span : s = b[1] /\ span[s].heap = h /\ s \in Span /\ b \in OfSpan(s)
  BY <1>1, <1>2, BlocksAre DEF Inv, Rooted
<1>4. /\ classFree' = [classFree EXCEPT ![h] = @ \ {b}] /\ live' = live \cup {b}
      /\ UNCHANGED <<span, pool, partial, full, deferred, owner, orphans, mine, pc, finalized>>
  BY <1>1, <1>2 DEF MallocFast
<1>5. /\ classFree' \in [Heap -> SUBSET Block]
      /\ \A g \in Heap : classFree'[g] = IF g = h THEN classFree[h] \ {b} ELSE classFree[g]
  BY <1>1, <1>4 DEF Inv, TypeOK
<1>6. air' = air /\ stored' = stored /\ taken' = taken /\ pushed' = pushed
  BY <1>4 DEF air, stored, taken, pushed, SpanOf
<1>7. TypeOK'
  BY <1>2, <1>4, <1>5 DEF Inv, TypeOK
<1>8. ASSUME NEW x \in DOMAIN span' PROVE SpanOK(x)'
  <2>1. x \in DOMAIN span /\ x \in Span /\ SpanOK(x) /\ span'[x] = span[x] /\ span[x].heap \in Heap
    BY <1>4, <1>8 DEF Inv, TypeOK, SpanOK, SpanType
  <2>2. CASE x # s
    <3>1. b \notin OfSpan(x)
      BY <1>2, <1>3, <2>1, <2>2, BlocksAre
    <3>. QED
      BY <1>4, <1>5, <1>6, <2>1, <3>1, SpanKeeps
  <2>3. CASE x = s
    <3>1. Places(s)'
      <4>1. Places(s)
        BY <2>1, <2>3 DEF SpanOK
      <4>2. \A c \in OfSpan(s) :
              /\ c \in live' <=> c \in live \/ c = b
              /\ c \in classFree'[h] <=> c \in classFree[h] /\ c # b
        BY <1>1, <1>4, <1>5
      <4>. QED
        BY <1>2, <1>3, <1>4, <1>6, <4>1, <4>2 DEF Places
    <3>2. Back(s)' = Back(s)
      BY <1>4, <1>6 DEF Back
    <3>. QED
      BY <1>4, <2>1, <2>3, <3>1, <3>2 DEF SpanOK, SpanType, Counts
  <2>. QED
    BY <2>2, <2>3
<1>9. Rooted'
  BY <1>2, <1>3, <1>4, <1>5 DEF Inv, Rooted
<1>10. OwnersOK' /\ LocksOK'
  BY <1>4 DEF Inv, OwnersOK, LocksOK, SpanOf
<1>11. CallsOK'
  BY <1>4, <1>6 DEF Inv, CallsOK, CallOK, SpanOf, Back
<1>12. ListsOK'
  BY <1>4, <1>6, ListsKeep DEF Inv, Partly, Fully, Given
<1>. QED
  BY <1>4, <1>7, <1>8, <1>9, <1>10, <1>11, <1>12, NotYetFinal DEF Inv
-----------------------------------------------------------------------------
(* Sets of spans are finite.                                               *)
LEMMA SpansFinite == \A S \in SUBSET Span : IsFiniteSet(S) /\ Cardinality(S) \in Nat
<1>1. IsFiniteSet(Span)
  BY FS_Interval, CountAssumption DEF Span
<1>. QED
  BY <1>1, FS_Subset, FS_CardinalityType

(* Where all blocks are deferred there is none left to give, and nobody is *)
(* at work.                                                                *)
LEMMA AllBack ==
  ASSUME Inv, NEW s \in DOMAIN span, OfSpan(s) \subseteq span[s].deferred
  PROVE  /\ FullyUtilized(span[s]) /\ span[s].free = {}
         /\ \A u \in Thread : pc[u].at \in OnSpan /\ SpanOf(u) = s => pc[u].at = "push"
         /\ \A b \in OfSpan(s) : b \notin live /\ b \notin air /\ b \notin classFree[span[s].heap]
<1>1. s \in Span /\ SpanOK(s) /\ span[s].heap \in Heap
  BY DEF Inv, TypeOK, SpanOK, SpanType
<1>2. \A b \in OfSpan(s) : /\ b \notin live /\ b \notin air /\ b \notin classFree[span[s].heap]
                           /\ b \notin span[s].free /\ b[2] <= span[s].limit
  BY <1>1 DEF SpanOK, Places
<1>3. span[s].free = {}
  BY <1>1, <1>2 DEF SpanOK, SpanType
<1>4. span[s].limit >= BlockCount
  <2>1. <<s, BlockCount>> \in OfSpan(s) /\ <<s, BlockCount>>[2] = BlockCount
    BY <1>1, CountAssumption DEF OfSpan, Indices
  <2>2. BlockCount <= span[s].limit
    BY <1>2, <2>1
  <2>. QED
    BY <1>1, <2>2, CountAssumption DEF SpanOK, SpanType
<1>5. ASSUME NEW u \in Thread, pc[u].at \in OnSpan, SpanOf(u) = s
      PROVE  pc[u].at = "push"
  <2>1. CASE pc[u].at \in Carrying
    <3>1. pc[u].b \in air /\ pc[u].b \in Block /\ pc[u].b[1] = s
      BY <1>5, <2>1 DEF air, Inv, TypeOK, OnBlock, SpanOf
    <3>. QED
      BY <1>1, <1>2, <3>1, BlocksAre
  <2>2. CASE pc[u].at = "sync"
    BY <1>3, <1>5, <2>2 DEF Inv, CallsOK, CallOK
  <2>. QED
    BY <1>5, <2>1, <2>2 DEF OnSpan, OnBlock
<1>. QED
  BY <1>2, <1>3, <1>4, <1>5 DEF FullyUtilized

(* The owner of a heap takes back the spans that other threads emptied: no *)
(* block of theirs is left anywhere.                                       *)
LEMMA AdoptInv ==
  ASSUME Inv, ~finalized, NEW t \in Thread, pc[t] = Idle, NEW h \in Heap, Adopt(h),
         NEW w \in {"new", "own", "orphan"}, Goto(t, w, None),
         UNCHANGED <<classFree, partial, owner, live, finalized>>,
         mine' \in [Thread -> Heap \cup {None}], orphans' \in Seq(Heap),
         \A u \in Thread \ {t} : mine'[u] = mine[u], OwnersOK'
  PROVE  Inv'
<1>. DEFINE gone == deferred[h]
<1>1. /\ deferred' = [deferred EXCEPT ![h] = {}] /\ pool' = pool \cup gone
      /\ DOMAIN span' = DOMAIN span \ gone
      /\ span' = [s \in DOMAIN span' |-> span'[s]]
      /\ \A s \in DOMAIN span' : span'[s] = span[s]
      /\ full' = [full EXCEPT ![h] = @ - Cardinality(gone)]
  BY DEF Adopt
<1>2. gone = Given(h) /\ gone \subseteq DOMAIN span /\ gone \subseteq Span
  BY DEF Inv, ListsOK, Given, TypeOK
<1>. HIDE DEF gone
<1>3. ASSUME NEW s \in gone
      PROVE  /\ span[s].heap = h /\ FullyUtilized(span[s]) /\ s \in DOMAIN span
             /\ \A u \in Thread : pc[u].at \in OnSpan => SpanOf(u) # s
             /\ \A b \in OfSpan(s) : b \notin live /\ b \notin classFree[h]
  <2>1. /\ s \in DOMAIN span /\ span[s].heap = h /\ s \notin pushed
        /\ OfSpan(s) \subseteq span[s].deferred
    BY <1>2 DEF Given
  <2>2. \A u \in Thread : pc[u].at = "push" => SpanOf(u) # s
    BY <2>1 DEF pushed
  <2>. QED
    BY <2>1, <2>2, AllBack
<1>4. /\ w \in PC /\ w \notin OnSpan /\ w \notin Carrying /\ w \notin Holding /\ w \notin Storing
      /\ w # "push" /\ w # "extract" /\ pc[t].at = "idle"
      /\ pc[t].at \notin Carrying /\ pc[t].at \notin Holding /\ pc[t].at \notin Storing
      /\ pc[t].at # "push" /\ pc[t].at # "extract"
  <2>1. w \in {"idle", "new", "own", "orphan"}
    OBVIOUS
  <2>2. pc[t].at = "idle"
    BY DEF Idle
  <2>3. w \in PC
    BY <2>1 DEF PC
  <2>. QED
    BY <2>1, <2>2, <2>3, OffSpan
<1>5. air' = air /\ stored' = stored /\ taken' = taken /\ pushed' = pushed
  <2>1. air' = air /\ stored' = stored
    BY <1>4, AirMoves DEF Inv
  <2>2. taken' = taken /\ pushed' = pushed
    BY <1>4, ListsMove DEF Inv
  <2>. QED
    BY <2>1, <2>2
<1>6. TypeOK'
  <2>1. pool' = Span \ DOMAIN span'
    BY <1>1, <1>2 DEF Inv, TypeOK
  <2>2. deferred' \in [Heap -> SUBSET Span] /\ full' \in [Heap -> Int]
    <3>1. Cardinality(gone) \in Nat
      BY <1>2, SpansFinite
    <3>. QED
      BY <1>1, <3>1 DEF Inv, TypeOK
  <2>3. \A s \in DOMAIN span' : span'[s] \in SpanType(s)'
    BY <1>1 DEF Inv, TypeOK, SpanType
  <2>. QED
    BY <1>1, <1>4, <2>1, <2>2, <2>3, GotoType DEF Inv, TypeOK
<1>7. ASSUME NEW s \in DOMAIN span' PROVE SpanOK(s)' /\ Back(s)' = Back(s)
  BY <1>1, <1>5, <1>7, SpanKeeps DEF Inv
<1>8. Rooted'
  <2>1. \A b \in live : b[1] \in DOMAIN span \ gone
    BY <1>3, BlocksAre DEF Inv, Rooted, TypeOK
  <2>2. \A g \in Heap : \A b \in classFree[g] : b[1] \in DOMAIN span \ gone /\ span[b[1]].heap = g
    BY <1>3, BlocksAre DEF Inv, Rooted, TypeOK
  <2>. QED
    BY <1>1, <2>1, <2>2 DEF Rooted
<1>9. LocksOK'
  BY <1>1, <1>4, LocksKeep
<1>10. ASSUME NEW u \in Thread PROVE CallOK(u)'
  <2>1. CASE u = t
    <3>1. pc'[u].at = w
      BY <1>4, <2>1, Moves DEF Inv
    <3>. QED
      BY <2>1, <3>1, CallOff
  <2>2. CASE u # t
    <3>1. pc'[u] = pc[u] /\ mine'[u] = mine[u] /\ CallOK(u)
      BY <2>2 DEF Inv, CallsOK, TypeOK, Goto
    <3>2. pc[u].at \in OnSpan => SpanOf(u) \in DOMAIN span'
      BY <1>1, <1>3, <3>1 DEF CallOK
    <3>. QED
      <4>1. PICK s : s = SpanOf(u)
        OBVIOUS
      <4>. QED
        BY <1>1, <1>7, <3>1, <3>2, <4>1, CallSame
  <2>. QED
    BY <2>1, <2>2
<1>11. ListsOK'
  <2>1. ASSUME NEW g \in Heap
        PROVE  /\ Partly(g)' = Partly(g)
               /\ Fully(g)' = IF g = h THEN Fully(g) \ gone ELSE Fully(g)
               /\ Given(g)' = IF g = h THEN {} ELSE Given(g)
               /\ g = h => gone \subseteq Fully(g)
    <3>1. \A s \in gone : s \notin taken
      BY <1>3 DEF taken, OnSpan, OnBlock, Carrying
    <3>2. Partly(g)' = {s \in DOMAIN span \ gone :
                          span[s].heap = g /\ (~FullyUtilized(span[s]) \/ s \in taken)}
      BY <1>1, <1>5 DEF Partly, FullyUtilized
    <3>3. Fully(g)' = {s \in DOMAIN span \ gone :
                         span[s].heap = g /\ FullyUtilized(span[s]) /\ s \notin taken}
      BY <1>1, <1>5 DEF Fully, FullyUtilized
    <3>4. Given(g)' = {s \in DOMAIN span \ gone : span[s].heap = g /\ s \notin pushed
                                                  /\ OfSpan(s) \subseteq span[s].deferred}
      BY <1>1, <1>5 DEF Given, OfSpan, Indices
    <3>5. Partly(g)' = Partly(g)
      BY <1>3, <3>1, <3>2 DEF Partly
    <3>6. Fully(g)' = IF g = h THEN Fully(g) \ gone ELSE Fully(g)
      BY <1>3, <3>3 DEF Fully
    <3>7. Given(g)' = IF g = h THEN {} ELSE Given(g)
      BY <1>2, <1>3, <3>4 DEF Given
    <3>8. g = h => gone \subseteq Fully(g)
      BY <1>3, <3>1 DEF Fully
    <3>. QED
      BY <3>5, <3>6, <3>7, <3>8
  <2>2. Cardinality(Fully(h) \ gone) = Cardinality(Fully(h)) - Cardinality(gone)
    <3>1. IsFiniteSet(Fully(h))
      BY SpansFinite DEF Fully, Inv, TypeOK
    <3>2. Fully(h) \cap gone = gone
      BY <2>1
    <3>. QED
      BY <3>1, <3>2, FS_Difference, ZenonT(40)
  <2>3. \A g \in Heap : /\ deferred'[g] = IF g = h THEN {} ELSE deferred[g]
                        /\ full'[g] = IF g = h THEN full[h] - Cardinality(gone) ELSE full[g]
    BY <1>1 DEF Inv, TypeOK
  <2>. QED
    BY <2>1, <2>2, <2>3 DEF Inv, ListsOK
<1>. QED
  BY <1>6, <1>7, <1>8, <1>9, <1>10, <1>11, NotYetFinal DEF Inv, CallsOK

(* The three calls that adopt.                                             *)
LEMMA MallocAdoptsInv ==
  ASSUME Inv, NEW t \in Thread, pc[t] = Idle, mine[t] # None, ~finalized, Adopt(mine[t]),
         Goto(t, "new", None),
         UNCHANGED <<classFree, partial, owner, orphans, mine, live, finalized>>
  PROVE  Inv'
<1>1. mine[t] \in Heap /\ mine' \in [Thread -> Heap \cup {None}] /\ orphans' \in Seq(Heap)
  BY DEF Inv, TypeOK
<1>2. pc[t].at = "idle" /\ "new" \in PC
  BY DEF Idle, PC
<1>3. OwnersOK'
  BY <1>2, OwnersKeep
<1>. QED
  BY <1>1, <1>3, AdoptInv

(* rpmalloc_thread_finalize() adopts first.                                *)
LEMMA ThreadFinalizeInv ==
  ASSUME Inv, NEW t \in Thread, ThreadFinalize(t)
  PROVE  Inv'
<1>1. mine[t] \in Heap /\ mine' \in [Thread -> Heap \cup {None}] /\ orphans' \in Seq(Heap)
  BY DEF Inv, TypeOK, ThreadFinalize
<1>2. pc[t].at = "idle" /\ "orphan" \in PC
  BY DEF Idle, ThreadFinalize, PC
<1>3. OwnersOK'
  BY <1>2, OwnersKeep DEF ThreadFinalize
<1>. QED
  BY <1>1, <1>3, AdoptInv DEF ThreadFinalize

(* A heap is an orphan once, and nobody's.                                 *)
LEMMA OrphansAre ==
  ASSUME Inv
  PROVE  /\ IsInjective(orphans)
         /\ \A h : h \in Range(orphans) => h \in Heap /\ \A t \in Thread : mine[t] # h
<1>1. orphans \in Seq(Heap)
  BY DEF Inv, TypeOK
<1>2. \A i \in DOMAIN orphans : orphans[i] \in Heap
  BY <1>1, ElementOfSeq, LenProperties
<1>. QED
  BY <1>2 DEF Inv, OwnersOK, IsInjective, Range

(* rpmalloc_thread_initialize() adopts what was deferred to an orphan.     *)
LEMMA ThreadInitInv ==
  ASSUME Inv, NEW t \in Thread, ThreadInit(t)
  PROVE  Inv'
<1>1. /\ orphans \in Seq(Heap) /\ orphans # <<>> /\ pc[t] = Idle /\ mine[t] = None /\ ~finalized
      /\ mine' = [mine EXCEPT ![t] = Head(orphans)] /\ orphans' = Tail(orphans)
      /\ Adopt(Head(orphans)) /\ Goto(t, "own", None)
      /\ UNCHANGED <<classFree, partial, owner, live, finalized>>
  BY DEF ThreadInit, Inv, TypeOK
<1>2. /\ orphans' \in Seq(Heap) /\ IsInjective(orphans')
      /\ Head(orphans) \in Range(orphans) /\ Range(orphans') = Range(orphans) \ {Head(orphans)}
  BY <1>1, OrphansAre, TailIs
<1>3. PICK h \in Heap : h = Head(orphans) /\ \A u \in Thread : mine[u] # h
  BY <1>2, OrphansAre
<1>4. mine' \in [Thread -> Heap \cup {None}]
  BY <1>1, <1>3 DEF Inv, TypeOK
<1>5. \A u \in Thread : mine'[u] = IF u = t THEN h ELSE mine[u]
  BY <1>1, <1>3 DEF Inv, TypeOK
<1>6. OwnersOK'
  <2>1. /\ \A u \in Thread \ {t} : pc'[u] = pc[u]
        /\ pc'[t].at = "own" /\ pc[t].at = "idle"
    BY <1>1 DEF Inv, TypeOK, Goto, Idle, PC
  <2>2. \A g \in Range(orphans') : g # h /\ \A u \in Thread : mine[u] # g
    BY <1>2, <1>3, OrphansAre
  <2>3. (\A g \in Heap : owner[g] # None => mine[owner[g]] = g)'
    <3>. SUFFICES ASSUME NEW g \in Heap, owner[g] # None PROVE mine'[owner[g]] = g
      BY <1>1
    <3>1. owner[g] \in Thread /\ mine[owner[g]] = g
      BY DEF Inv, OwnersOK, TypeOK
    <3>2. owner[g] # t
      BY <1>1, <3>1, HeapAssumption
    <3>. QED
      BY <1>5, <3>1, <3>2
  <2>4. (\A u, v \in Thread : mine[u] # None /\ mine[u] = mine[v] => u = v)'
    BY <1>3, <1>5 DEF Inv, OwnersOK
  <2>5. (\A i, j \in DOMAIN orphans : orphans[i] = orphans[j] => i = j)'
    BY <1>2 DEF IsInjective
  <2>6. (\A i \in DOMAIN orphans, u \in Thread : mine[u] # orphans[i])'
    BY <1>5, <2>2 DEF Range
  <2>7. (\A u \in Thread : pc[u].at # "own" /\ mine[u] # None => owner[mine[u]] = u)'
    BY <1>1, <1>5, <2>1 DEF Inv, OwnersOK
  <2>8. (\A u \in Thread : pc[u].at \in {"extract", "new", "own", "orphan"} => mine[u] # None)'
    BY <1>3, <1>5, <2>1, HeapAssumption DEF Inv, OwnersOK
  <2>. QED
    BY <2>3, <2>4, <2>5, <2>6, <2>7, <2>8 DEF OwnersOK
<1>. QED
  BY <1>1, <1>2, <1>3, <1>4, <1>5, <1>6, AdoptInv
-----------------------------------------------------------------------------
(* A step that leaves spans and blocks alone and moves a thread that works *)
(* on none.                                                                *)
LEMMA QuietInv ==
  ASSUME Inv, ~finalized, NEW t \in Thread, NEW w \in {"idle", "new", "own", "orphan"},
         pc[t].at \in {"idle", "new", "own", "orphan"}, Goto(t, w, None),
         UNCHANGED <<span, pool, heaps, live, finalized>>,
         owner' \in [Heap -> Thread \cup {None}],
         mine' \in [Thread -> Heap \cup {None}], orphans' \in Seq(Heap),
         \A u \in Thread \ {t} : mine'[u] = mine[u],
         \A h \in Heap : owner[h] \notin {None, t} => owner'[h] = owner[h],
         OwnersOK'
  PROVE  Inv'
<1>1. w \in PC /\ UNCHANGED <<classFree, partial, full, deferred>>
  BY Kinds DEF heaps
<1>2. air' = air /\ stored' = stored /\ taken' = taken /\ pushed' = pushed
  <2>0. /\ w \notin Carrying /\ w \notin Storing /\ w # "push" /\ w # "extract"
        /\ pc[t].at \notin Carrying /\ pc[t].at \notin Storing
        /\ pc[t].at # "push" /\ pc[t].at # "extract"
    BY OffSpan
  <2>1. air' = air /\ stored' = stored
    BY <1>1, <2>0, AirMoves DEF Inv
  <2>2. taken' = taken /\ pushed' = pushed
    BY <1>1, <2>0, ListsMove DEF Inv
  <2>. QED
    BY <2>1, <2>2
<1>3. TypeOK'
  <2>1. pool' = Span \ DOMAIN span' /\ \A s \in DOMAIN span' : span'[s] \in SpanType(s)'
    BY DEF Inv, TypeOK, SpanType
  <2>. QED
    BY <1>1, <2>1, OffSpan, GotoType DEF Inv, TypeOK
<1>4. ASSUME NEW s \in DOMAIN span' PROVE SpanOK(s)' /\ Back(s)' = Back(s)
  BY <1>1, <1>2, SpanKeeps DEF Inv
<1>5. Rooted'
  BY <1>1 DEF Inv, Rooted
<1>6. LocksOK'
  BY <1>1, OffSpan, LocksKeep
<1>7. ASSUME NEW u \in Thread PROVE CallOK(u)'
  <2>1. CASE u = t
    BY <1>1, <2>1, Moves, CallOff, ZenonT(40) DEF Inv
  <2>2. CASE u # t
    <3>1. pc'[u] = pc[u] /\ mine'[u] = mine[u] /\ CallOK(u)
      BY <2>2 DEF Inv, CallsOK, TypeOK, Goto
    <3>2. PICK s : s = SpanOf(u)
      OBVIOUS
    <3>3. pc[u].at \in OnSpan => s \in DOMAIN span /\ span[s].heap \in Heap
      BY <3>1, <3>2 DEF CallOK, Inv, TypeOK, SpanType
    <3>4. pc[u].at = "sync" => owner'[span[s].heap] = owner[span[s].heap]
      <4>1. pc[u].at = "sync" => owner[span[s].heap] = u
        BY <3>1, <3>2 DEF CallOK
      <4>2. "sync" \in OnSpan /\ u # None
        BY Kinds, HeapAssumption
      <4>. QED
        BY <2>2, <3>3, <4>1, <4>2
    <3>. QED
      BY <1>1, <1>4, <3>1, <3>2, <3>3, <3>4, CallSame
  <2>. QED
    BY <2>1, <2>2
<1>8. ListsOK'
  <2>1. \A h \in Heap : Partly(h)' = Partly(h) /\ Fully(h)' = Fully(h) /\ Given(h)' = Given(h)
    BY <1>1, <1>2 DEF Partly, Fully, Given
  <2>. QED
    BY <1>1, <2>1, ListsKeep DEF Inv
<1>. QED
  BY <1>3, <1>4, <1>5, <1>6, <1>7, <1>8, NotYetFinal DEF Inv, CallsOK

(* A thread becomes the owner of the heap it took.                         *)
LEMMA OwnInv ==
  ASSUME Inv, NEW t \in Thread, Own(t)
  PROVE  Inv'
<1>1. /\ pc[t].at = "own" /\ ~finalized /\ Goto(t, "idle", None)
      /\ owner' = [owner EXCEPT ![mine[t]] = t]
      /\ UNCHANGED <<span, pool, heaps, orphans, mine, live, finalized>>
  BY DEF Own, At, Inv, FinalOK
<1>2. PICK h \in Heap : h = mine[t]
  BY <1>1 DEF Inv, TypeOK, OwnersOK
<1>3. \A g \in Heap : owner'[g] = IF g = h THEN t ELSE owner[g]
  BY <1>1, <1>2 DEF Inv, TypeOK
<1>4. owner' \in [Heap -> Thread \cup {None}]
  BY <1>1, <1>2 DEF Inv, TypeOK
<1>5. owner[h] \in {None, t}
  BY <1>2, HeapAssumption DEF Inv, OwnersOK, TypeOK
<1>6. OwnersOK'
  <2>1. /\ \A u \in Thread \ {t} : pc'[u] = pc[u]
        /\ pc'[t].at = "idle"
    BY <1>1 DEF Inv, TypeOK, Goto, PC
  <2>2. (\A u \in Thread : pc[u].at # "own" /\ mine[u] # None => owner[mine[u]] = u)'
    <3>. SUFFICES ASSUME NEW u \in Thread, pc'[u].at # "own", mine[u] # None
                  PROVE  owner'[mine[u]] = u
      BY <1>1
    <3>1. mine[u] \in Heap
      BY DEF Inv, TypeOK
    <3>2. CASE u = t
      BY <1>2, <1>3, <3>2
    <3>3. CASE u # t
      BY <1>2, <1>3, <2>1, <3>1, <3>3 DEF Inv, OwnersOK
    <3>. QED
      BY <3>2, <3>3
  <2>3. (\A g \in Heap : owner[g] # None => mine[owner[g]] = g)'
    BY <1>1, <1>2, <1>3 DEF Inv, OwnersOK
  <2>4. (\A u \in Thread : pc[u].at \in {"extract", "new", "own", "orphan"} => mine[u] # None)'
    BY <1>1, <2>1 DEF Inv, OwnersOK
  <2>. QED
    BY <1>1, <2>2, <2>3, <2>4 DEF Inv, OwnersOK
<1>7. /\ mine' \in [Thread -> Heap \cup {None}] /\ orphans' \in Seq(Heap)
      /\ \A u \in Thread \ {t} : mine'[u] = mine[u]
  BY <1>1 DEF Inv, TypeOK
<1>. QED
  BY <1>1, <1>3, <1>4, <1>5, <1>6, <1>7, QuietInv

(* A thread leaves its heap to the next.                                   *)
LEMMA OrphanInv ==
  ASSUME Inv, NEW t \in Thread, Orphan(t)
  PROVE  Inv'
<1>1. /\ pc[t].at = "orphan" /\ ~finalized /\ Goto(t, "idle", None)
      /\ owner' = [owner EXCEPT ![mine[t]] = None]
      /\ orphans' = <<mine[t]>> \o orphans
      /\ mine' = [mine EXCEPT ![t] = None]
      /\ UNCHANGED <<span, pool, heaps, live, finalized>>
  BY DEF Orphan, At, Inv, FinalOK
<1>2. PICK h \in Heap : h = mine[t]
  BY <1>1 DEF Inv, TypeOK, OwnersOK
<1>3. /\ \A g \in Heap : owner'[g] = IF g = h THEN None ELSE owner[g]
      /\ owner' \in [Heap -> Thread \cup {None}]
      /\ \A u \in Thread : mine'[u] = IF u = t THEN None ELSE mine[u]
      /\ mine' \in [Thread -> Heap \cup {None}]
  BY <1>1, <1>2 DEF Inv, TypeOK
<1>4. owner[h] = t
  BY <1>1, <1>2, HeapAssumption DEF Inv, OwnersOK
<1>5. orphans' \in Seq(Heap) /\ IsInjective(orphans') /\ Range(orphans') = Range(orphans) \cup {h}
  <2>1. h \notin Range(orphans) /\ IsInjective(orphans) /\ orphans \in Seq(Heap)
    BY <1>2, OrphansAre DEF Inv, TypeOK
  <2>. QED
    BY <1>1, <1>2, <2>1, ConsIs
<1>6. OwnersOK'
  <2>1. /\ \A u \in Thread \ {t} : pc'[u] = pc[u]
        /\ pc'[t].at = "idle"
    BY <1>1 DEF Inv, TypeOK, Goto, PC
  <2>2. \A u \in Thread : mine[u] = h => u = t
    BY <1>2, HeapAssumption DEF Inv, OwnersOK
  <2>3. (\A g \in Heap : owner[g] # None => mine[owner[g]] = g)'
    <3>. SUFFICES ASSUME NEW g \in Heap, owner'[g] # None PROVE mine'[owner'[g]] = g
      OBVIOUS
    <3>1. g # h /\ owner'[g] = owner[g] /\ owner[g] # None /\ owner[g] \in Thread
      BY <1>3 DEF Inv, TypeOK
    <3>2. mine[owner[g]] = g /\ owner[g] # t
      BY <1>2, <3>1 DEF Inv, OwnersOK
    <3>. QED
      BY <1>3, <3>1, <3>2
  <2>4. (\A u, v \in Thread : mine[u] # None /\ mine[u] = mine[v] => u = v)'
    BY <1>3 DEF Inv, OwnersOK
  <2>5. (\A i, j \in DOMAIN orphans : orphans[i] = orphans[j] => i = j)'
    BY <1>5 DEF IsInjective
  <2>6. (\A i \in DOMAIN orphans, u \in Thread : mine[u] # orphans[i])'
    <3>1. \A g \in Range(orphans') : g \in Heap /\ \A u \in Thread : mine'[u] # g
      BY <1>3, <1>5, <2>2, OrphansAre, HeapAssumption
    <3>. QED
      BY <3>1 DEF Range
  <2>7. (\A u \in Thread : pc[u].at # "own" /\ mine[u] # None => owner[mine[u]] = u)'
    <3>. SUFFICES ASSUME NEW u \in Thread, pc'[u].at # "own", mine'[u] # None
                  PROVE  owner'[mine'[u]] = u
      OBVIOUS
    <3>1. u # t /\ mine'[u] = mine[u] /\ mine[u] \in Heap /\ mine[u] # h
      BY <1>3, <2>2 DEF Inv, TypeOK
    <3>2. owner[mine[u]] = u
      BY <1>3, <2>1, <3>1 DEF Inv, OwnersOK
    <3>. QED
      BY <1>3, <3>1, <3>2
  <2>8. (\A u \in Thread : pc[u].at \in {"extract", "new", "own", "orphan"} => mine[u] # None)'
    BY <1>3, <2>1 DEF Inv, OwnersOK
  <2>. QED
    BY <2>3, <2>4, <2>5, <2>6, <2>7, <2>8 DEF OwnersOK
<1>. QED
  BY <1>1, <1>3, <1>4, <1>5, <1>6, QuietInv
-----------------------------------------------------------------------------
(* A thread with a block of another's span works on the deferred list of   *)
(* that span. What the owner reads without the lock stays as it is.        *)
LEMMA DeferInv ==
  ASSUME Inv, ~finalized, NEW t \in Thread, NEW s \in DOMAIN span, s = SpanOf(t),
         pc[t].at \in Holding \cup {"lock"}, NEW w \in Holding \cup {"push", "idle"}, NEW c,
         Goto(t, w, c), \/ w \in OnBlock /\ c = pc[t].b
                        \/ w = "idle" /\ c = None,
         NEW sp \in SpanType(s), span' = [span EXCEPT ![s] = sp],
         sp.heap = span[s].heap, sp.free = span[s].free, sp.limit = span[s].limit,
         span[s].deferred \subseteq sp.deferred,
         UNCHANGED <<pool, heaps, owner, orphans, mine, live, finalized>>,
         OfSpan(s) \subseteq sp.deferred => w = "push",
         Back(s) \subseteq Back(s)', pc[t].at = "lock" => Back(s)' = Back(s),
         SpanOK(s)', LocksOK', CallOK(t)'
  PROVE  Inv'
<1>1. UNCHANGED <<classFree, partial, full, deferred>>
  BY DEF heaps
<1>2. /\ w \in PC /\ w # "extract" /\ w # "own" /\ w \notin {"extract", "new", "own", "orphan"}
      /\ pc[t].at # "own" /\ pc[t].at # "extract" /\ pc[t].at # "push" /\ pc[t].at # "sync"
      /\ pc[t].at \in OnSpan /\ pc[t].at \in Carrying /\ pc[t].at \in OnBlock
  BY DEF PC, OnSpan, OnBlock, Carrying, Holding, Storing
<1>3. pc[t].b \in Block /\ pc[t].b[1] = s /\ s \in Span
  BY <1>2 DEF Inv, TypeOK, SpanOf
<1>4. /\ DOMAIN span' = DOMAIN span /\ span'[s] = sp
      /\ \A x \in DOMAIN span : x # s => span'[x] = span[x]
      /\ span' = [x \in DOMAIN span' |-> span'[x]]
  BY DEF Inv, TypeOK
<1>5. taken' = taken /\ pushed' = IF w = "push" THEN pushed \cup {s} ELSE pushed
  <2>1. w = "push" => c[1] = s
    BY <1>3, OffSpan
  <2>2. /\ taken' = (taken \ (IF pc[t].at = "extract" THEN {SpanOf(t)} ELSE {}))
                     \cup (IF w = "extract" THEN {c[1]} ELSE {})
        /\ pushed' = (pushed \ (IF pc[t].at = "push" THEN {SpanOf(t)} ELSE {}))
                     \cup (IF w = "push" THEN {c[1]} ELSE {})
    BY <1>2, ListsMove DEF Inv
  <2>. QED
    BY <1>2, <2>1, <2>2
<1>6. \A b \in Block : b # pc[t].b => /\ b \in air' <=> b \in air
                                      /\ b \in stored' <=> b \in stored
  <2>1. w \in Carrying \/ w \in Storing => c = pc[t].b
    BY OffSpan
  <2>2. /\ air' = (air \ (IF pc[t].at \in Carrying THEN {pc[t].b} ELSE {}))
                     \cup (IF w \in Carrying THEN {c} ELSE {})
        /\ stored' = (stored \ (IF pc[t].at \in Storing THEN {pc[t].b} ELSE {}))
                     \cup (IF w \in Storing THEN {c} ELSE {})
    BY <1>2, AirMoves DEF Inv
  <2>. QED
    BY <2>1, <2>2
<1>7. TypeOK'
  <2>1. \A x \in DOMAIN span' : span'[x] \in SpanType(x)'
    BY <1>4 DEF Inv, TypeOK, SpanType
  <2>2. \/ w \in OnBlock /\ c \in Block
        \/ w \notin OnSpan /\ c = None
    BY <1>3, OffSpan
  <2>3. pool' = Span \ DOMAIN span' /\ DOMAIN span' \subseteq Span
    BY <1>4 DEF Inv, TypeOK
  <2>4. /\ pc' \in [Thread -> [at : PC, b : Block \cup {<<x>> : x \in Span} \cup {None}]]
        /\ \A u \in Thread :
             /\ pc'[u].at \in OnBlock => pc'[u].b \in Block
             /\ pc'[u].at = "sync" => \E x \in Span : pc'[u].b = <<x>>
    BY <1>2, <2>2, GotoType DEF Inv
  <2>. QED
    BY <1>1, <1>4, <2>1, <2>3, <2>4 DEF Inv, TypeOK
<1>8. ASSUME NEW x \in DOMAIN span', x # s PROVE SpanOK(x)' /\ Back(x)' = Back(x)
  <2>1. x \in DOMAIN span /\ SpanOK(x) /\ span'[x] = span[x] /\ x \in Span
    BY <1>4, <1>8 DEF Inv, TypeOK
  <2>2. pc[t].b \notin OfSpan(x) /\ OfSpan(x) \subseteq Block
    BY <1>3, <1>8, <2>1, BlocksAre
  <2>3. air' \cap OfSpan(x) = air \cap OfSpan(x) /\ stored' \cap OfSpan(x) = stored \cap OfSpan(x)
    BY <1>6, <2>2
  <2>. QED
    BY <1>1, <2>1, <2>3, SpanKeeps
<1>9. Rooted'
  <2>1. \A x \in DOMAIN span : span'[x].heap = span[x].heap
    BY <1>4
  <2>. QED
    BY <1>1, <1>4, <2>1 DEF Inv, Rooted
<1>10. OwnersOK'
  BY <1>2, OwnersKeep
<1>11. ASSUME NEW u \in Thread PROVE CallOK(u)'
  <2>1. CASE u # t
    <3>1. pc'[u] = pc[u] /\ mine'[u] = mine[u] /\ CallOK(u)
      BY <2>1 DEF Inv, CallsOK, TypeOK, Goto
    <3>2. PICK x : x = SpanOf(u)
      OBVIOUS
    <3>3. pc[u].at \in OnSpan => x \in DOMAIN span
      BY <3>1, <3>2 DEF CallOK
    <3>4. CASE x = s
      <4>1. pc[u].at \in Storing => pc[t].at \notin Holding
        BY <2>1, <3>2, <3>4, Kinds DEF Inv, LocksOK
      <4>2. pc[u].at \in Storing => Back(s)' = Back(s)
        BY <4>1
      <4>. QED
        BY <1>1, <1>4, <3>1, <3>2, <3>3, <3>4, <4>2, CallKeeps, ZenonT(40)
    <3>5. CASE x # s
      BY <1>1, <1>4, <1>8, <3>1, <3>2, <3>3, <3>5, CallSame
    <3>. QED
      BY <3>4, <3>5
  <2>. QED
    BY <2>1
<1>12. ListsOK'
  <2>1. \A x \in DOMAIN span : /\ span'[x].heap = span[x].heap
                               /\ FullyUtilized(span'[x]) <=> FullyUtilized(span[x])
    BY <1>4 DEF FullyUtilized
  <2>2. ASSUME NEW x \in DOMAIN span
        PROVE  (x \notin pushed' /\ OfSpan(x) \subseteq span'[x].deferred) <=>
               (x \notin pushed /\ OfSpan(x) \subseteq span[x].deferred)
    <3>1. CASE x = s
      <4>1. ~(OfSpan(s) \subseteq span[s].deferred)
        BY <1>2, AllBack
      <4>. QED
        BY <1>4, <1>5, <3>1, <4>1
    <3>2. CASE x # s
      BY <1>4, <1>5, <3>2
    <3>. QED
      BY <3>1, <3>2
  <2>3. ASSUME NEW h \in Heap
        PROVE  Partly(h)' = Partly(h) /\ Fully(h)' = Fully(h) /\ Given(h)' = Given(h)
    <3>1. Partly(h)' = {x \in DOMAIN span' :
                          span'[x].heap = h /\ (~FullyUtilized(span'[x]) \/ x \in taken')}
      BY DEF Partly, FullyUtilized
    <3>2. Fully(h)' = {x \in DOMAIN span' :
                         span'[x].heap = h /\ FullyUtilized(span'[x]) /\ x \notin taken'}
      BY DEF Fully, FullyUtilized
    <3>3. Given(h)' = {x \in DOMAIN span' : span'[x].heap = h /\ x \notin pushed'
                                            /\ OfSpan(x) \subseteq span'[x].deferred}
      BY DEF Given, OfSpan, Indices
    <3>4. Partly(h)' = Partly(h)
      BY <1>4, <1>5, <2>1, <3>1 DEF Partly
    <3>5. Fully(h)' = Fully(h)
      BY <1>4, <1>5, <2>1, <3>2 DEF Fully
    <3>6. Given(h)' = Given(h)
      BY <1>4, <2>1, <2>2, <3>3 DEF Given
    <3>. QED
      BY <3>4, <3>5, <3>6
  <2>. QED
    BY <1>1, <2>3, ListsKeep DEF Inv
<1>13. \A x \in DOMAIN span' : SpanOK(x)'
  BY <1>8
<1>. QED
  BY <1>7, <1>9, <1>10, <1>11, <1>12, <1>13, NotYetFinal DEF Inv, CallsOK

(* A thread that carries a block is on a span in use, and the block is     *)
(* nowhere else.                                                           *)
LEMMA Carrier ==
  ASSUME Inv, NEW t \in Thread, pc[t].at \in Carrying
  PROVE  /\ pc[t].b \in Block /\ SpanOf(t) = pc[t].b[1] /\ SpanOf(t) \in DOMAIN span
         /\ SpanOf(t) \in Span /\ SpanOK(SpanOf(t)) /\ pc[t].b \in OfSpan(SpanOf(t))
         /\ pc[t].b \in air /\ pc[t].b \notin span[SpanOf(t)].deferred /\ ~finalized
         /\ pc[t].b \notin live /\ pc[t].b[2] <= span[SpanOf(t)].limit
<1>1. PICK s : s = SpanOf(t)
  OBVIOUS
<1>2. pc[t].at \in OnSpan /\ pc[t].at \in OnBlock /\ pc[t].at \notin {"idle", "sync"}
  BY Kinds, OffSpan
<1>3. pc[t].b \in Block /\ s = pc[t].b[1] /\ s \in DOMAIN span /\ s \in Span /\ SpanOK(s)
  BY <1>1, <1>2 DEF Inv, TypeOK, CallsOK, CallOK, SpanOf
<1>4. pc[t].b \in OfSpan(s) /\ pc[t].b \in air
  BY <1>3, BlocksAre DEF air
<1>5. pc[t].b \notin span[s].deferred /\ pc[t].b \notin live /\ pc[t].b[2] <= span[s].limit
  BY <1>3, <1>4 DEF SpanOK, Places
<1>6. ~finalized
  BY <1>2 DEF Inv, FinalOK
<1>. QED
  BY <1>1, <1>3, <1>4, <1>5, <1>6

(* A thread that frees another's block takes the deferred list.            *)
LEMMA DeferLockInv ==
  ASSUME Inv, NEW t \in Thread, DeferLock(t),
         UNCHANGED <<pool, heaps, owner, orphans, mine, live, finalized>>
  PROVE  Inv'
<1>1. PICK s : s = SpanOf(t)
  OBVIOUS
<1>2. PICK b : b = pc[t].b
  OBVIOUS
<1>3. /\ pc[t].at = "lock" /\ ~span[s].locked /\ Goto(t, "count", b)
      /\ span' = [span EXCEPT ![s].locked = TRUE]
  BY <1>1, <1>2 DEF DeferLock, At
<1>4. /\ b \in Block /\ s = b[1] /\ s \in DOMAIN span /\ s \in Span /\ SpanOK(s)
      /\ b \in OfSpan(s) /\ b \in air /\ b \notin span[s].deferred /\ ~finalized
  BY <1>1, <1>2, <1>3, Carrier, Kinds
<1>5. PICK sp : sp = [span[s] EXCEPT !.locked = TRUE]
  OBVIOUS
<1>6. span[s] \in SpanType(s)
  BY <1>4 DEF SpanOK
<1>7. /\ sp \in SpanType(s) /\ span' = [span EXCEPT ![s] = sp]
      /\ sp.heap = span[s].heap /\ sp.free = span[s].free /\ sp.limit = span[s].limit
      /\ sp.deferred = span[s].deferred /\ sp.usedCount = span[s].usedCount
      /\ sp.listSize = span[s].listSize /\ sp.locked
  BY <1>3, <1>4, <1>5, <1>6 DEF SpanType
<1>8. /\ DOMAIN span' = DOMAIN span /\ span'[s] = sp
      /\ \A x \in DOMAIN span : x # s => span'[x] = span[x]
  BY <1>4, <1>7 DEF Inv, TypeOK
<1>9. air' = air /\ stored' = stored
  <2>1. /\ pc[t].at \in Carrying /\ "count" \in Carrying /\ "count" \in PC
        /\ pc[t].at \notin Storing /\ "count" \notin Storing
    BY <1>3 DEF PC, OnSpan, OnBlock, Carrying, Holding, Storing
  <2>2. /\ air' = (air \ {b}) \cup {b}
        /\ stored' = stored
    BY <1>2, <1>3, <2>1, AirMoves DEF Inv
  <2>. QED
    BY <1>4, <2>2
<1>10. Back(s)' = Back(s)
  BY <1>7, <1>8, <1>9 DEF Back
<1>11. SpanOK(s)'
  <2>1. Places(s)'
    <3>1. UNCHANGED <<live, classFree>>
      BY DEF heaps
    <3>2. Places(s)
      BY <1>4 DEF SpanOK
    <3>. QED
      BY <1>7, <1>8, <1>9, <3>1, <3>2 DEF Places
  <2>2. Counts(s)'
    BY <1>4, <1>7, <1>8, <1>10 DEF SpanOK, Counts
  <2>3. span'[s] \in SpanType(s)'
    BY <1>7, <1>8 DEF SpanType
  <2>. QED
    BY <2>1, <2>2, <2>3 DEF SpanOK
<1>12. /\ pc'[t].at = "count" /\ pc'[t].b = b /\ SpanOf(t)' = s
       /\ \A u \in Thread \ {t} : pc'[u] = pc[u] /\ SpanOf(u)' = SpanOf(u)
  BY <1>3, <1>4 DEF Inv, TypeOK, Goto, SpanOf
<1>13. CallOK(t)'
  BY <1>8, <1>4, <1>12 DEF CallOK
<1>14. LocksOK'
  <2>1. /\ "count" \in Holding /\ "count" \in Carrying
        /\ pc[t].at \in Carrying /\ pc[t].at \notin Holding
        /\ pc'[t].at # "push"
    BY <1>3, <1>12 DEF Carrying, Holding, Storing
  <2>2. \A u \in Thread : pc[u].at \in Holding => SpanOf(u) # s
    BY <1>3, <1>4 DEF Inv, LocksOK
  <2>3. (\A x \in DOMAIN span : span[x].locked <=>
          \E u \in Thread : pc[u].at \in Holding /\ SpanOf(u) = x)'
    <3>. SUFFICES ASSUME NEW x \in DOMAIN span
                  PROVE  span'[x].locked <=>
                           \E u \in Thread : pc'[u].at \in Holding /\ SpanOf(u)' = x
      BY <1>8
    <3>1. CASE x = s
      BY <1>7, <1>8, <1>12, <2>1, <3>1
    <3>2. CASE x # s
      <4>1. span'[x].locked <=> \E u \in Thread : pc[u].at \in Holding /\ SpanOf(u) = x
        BY <1>8, <3>2 DEF Inv, LocksOK
      <4>. QED
        BY <1>12, <2>1, <3>2, <4>1
    <3>. QED
      BY <3>1, <3>2
  <2>4. (\A u, v \in Thread :
           pc[u].at \in Holding /\ pc[v].at \in Holding /\ SpanOf(u) = SpanOf(v) => u = v)'
    BY <1>12, <2>1, <2>2 DEF Inv, LocksOK
  <2>5. (\A u, v \in Thread :
           pc[u].at \in Carrying /\ pc[v].at \in Carrying /\ pc[u].b = pc[v].b => u = v)'
    BY <1>2, <1>12, <2>1 DEF Inv, LocksOK
  <2>6. (\A u, v \in Thread :
           pc[u].at = "push" /\ pc[v].at = "push" /\ SpanOf(u) = SpanOf(v) => u = v)'
    BY <1>12, <2>1 DEF Inv, LocksOK
  <2>. QED
    BY <2>3, <2>4, <2>5, <2>6 DEF LocksOK
<1>15. ~(OfSpan(s) \subseteq sp.deferred)
  BY <1>4, <1>7
<1>16. "count" \in Holding \cup {"push", "idle"} /\ "count" \in OnBlock
  BY DEF OnBlock, Carrying, Holding
<1>. QED
  BY <1>1, <1>2, <1>3, <1>4, <1>7, <1>10, <1>11, <1>13, <1>14, <1>15, <1>16, DeferInv

(* What the lock of a deferred list tells the thread that holds it.        *)
LEMMA HolderAlone ==
  ASSUME Inv, NEW t \in Thread, pc[t].at \in Holding
  PROVE  /\ \A u \in Thread : pc[u].at \in Holding /\ SpanOf(u) = SpanOf(t) => u = t
         /\ span[SpanOf(t)].locked
         /\ stored \cap OfSpan(SpanOf(t)) = IF pc[t].at \in Storing THEN {pc[t].b} ELSE {}
<1>1. PICK s : s = SpanOf(t)
  OBVIOUS
<1>2. pc[t].at \in Carrying
  BY Kinds
<1>3. s \in Span /\ s \in DOMAIN span /\ pc[t].b \in OfSpan(s)
  BY <1>1, <1>2, Carrier
<1>4. \A u \in Thread : pc[u].at \in Holding /\ SpanOf(u) = s => u = t
  BY <1>1 DEF Inv, LocksOK
<1>5. ASSUME NEW u \in Thread, pc[u].at \in Storing, pc[u].b \in OfSpan(s) PROVE u = t
  <2>1. pc[u].at \in Holding /\ pc[u].at \in Carrying
    BY <1>5, Kinds
  <2>2. SpanOf(u) = s
    BY <1>3, <1>5, <2>1, Carrier, BlocksAre
  <2>. QED
    BY <1>4, <2>1, <2>2
<1>6. stored \cap OfSpan(s) = IF pc[t].at \in Storing THEN {pc[t].b} ELSE {}
  BY <1>3, <1>5 DEF stored
<1>7. span[s].locked
  BY <1>1, <1>3 DEF Inv, LocksOK
<1>. QED
  BY <1>1, <1>4, <1>6, <1>7

(* It counts the block before it is in the list.                           *)
LEMMA DeferCountInv ==
  ASSUME Inv, NEW t \in Thread, DeferCount(t),
         UNCHANGED <<pool, heaps, owner, orphans, mine, live, finalized>>
  PROVE  Inv'
<1>1. PICK s : s = SpanOf(t)
  OBVIOUS
<1>2. PICK b : b = pc[t].b
  OBVIOUS
<1>3. PICK w \in Storing : w = IF span[s].listSize + 1 = BlockCount THEN "store all" ELSE "store"
  BY DEF Storing
<1>4. /\ pc[t].at = "count" /\ Goto(t, w, b)
      /\ span' = [span EXCEPT ![s].listSize = @ + 1]
  BY <1>1, <1>2, <1>3 DEF DeferCount, At
<1>5. /\ pc[t].at \in Carrying /\ pc[t].at \in Holding /\ pc[t].at \notin Storing
      /\ w \in Carrying /\ w \in Holding /\ w \in OnBlock /\ w \in PC
  BY <1>4, Kinds
<1>6. /\ b \in Block /\ s = b[1] /\ s \in DOMAIN span /\ s \in Span /\ SpanOK(s)
      /\ b \in OfSpan(s) /\ b \in air /\ b \notin span[s].deferred /\ ~finalized
  BY <1>1, <1>2, <1>5, Carrier
<1>7. PICK sp : sp = [span[s] EXCEPT !.listSize = @ + 1]
  OBVIOUS
<1>8. span[s] \in SpanType(s)
  BY <1>6 DEF SpanOK
<1>9. /\ sp \in SpanType(s) /\ span' = [span EXCEPT ![s] = sp]
      /\ sp.heap = span[s].heap /\ sp.free = span[s].free /\ sp.limit = span[s].limit
      /\ sp.deferred = span[s].deferred /\ sp.usedCount = span[s].usedCount
      /\ sp.listSize = span[s].listSize + 1 /\ sp.locked = span[s].locked
  BY <1>4, <1>6, <1>7, <1>8 DEF SpanType
<1>10. /\ DOMAIN span' = DOMAIN span /\ span'[s] = sp
       /\ \A x \in DOMAIN span : x # s => span'[x] = span[x]
  BY <1>6, <1>9 DEF Inv, TypeOK
<1>11. air' = air /\ stored' = stored \cup {b}
  <2>1. /\ air' = (air \ {b}) \cup {b}
        /\ stored' = stored \cup {b}
    BY <1>2, <1>3, <1>4, <1>5, AirMoves, ZenonT(40) DEF Inv
  <2>. QED
    BY <1>6, <2>1
<1>12. /\ Back(s) = span[s].deferred /\ Back(s)' = Back(s) \cup {b} /\ b \notin Back(s)
       /\ Back(s) \subseteq OfSpan(s)
  <2>1. stored \cap OfSpan(s) = {}
    BY <1>1, <1>5, HolderAlone
  <2>. QED
    BY <1>6, <1>8, <1>9, <1>10, <1>11, <2>1 DEF Back, SpanType
<1>13. /\ IsFiniteSet(OfSpan(s)) /\ Cardinality(OfSpan(s)) = BlockCount /\ IsFiniteSet(Back(s))
       /\ Back(s) \cup {b} \subseteq OfSpan(s)
       /\ Cardinality(Back(s) \cup {b}) = Cardinality(Back(s)) + 1
  <2>1. IsFiniteSet(OfSpan(s)) /\ Cardinality(OfSpan(s)) = BlockCount
    BY <1>6, OfSpanIs
  <2>2. IsFiniteSet(Back(s))
    BY <1>12, <2>1, FS_Subset
  <2>3. Cardinality(Back(s) \cup {b}) = Cardinality(Back(s)) + 1
    BY <1>12, <2>2, FS_AddElement
  <2>. QED
    BY <1>6, <1>12, <2>1, <2>2, <2>3
<1>14. Cardinality(Back(s) \cup {b}) = sp.listSize
  BY <1>6, <1>9, <1>13 DEF SpanOK, Counts
<1>15. sp.listSize = BlockCount <=> OfSpan(s) \subseteq Back(s) \cup {b}
  BY <1>13, <1>14, FS_Subset
<1>16. SpanOK(s)'
  <2>1. Places(s)'
    <3>1. UNCHANGED <<live, classFree>>
      BY DEF heaps
    <3>2. Places(s)
      BY <1>6 DEF SpanOK
    <3>. QED
      BY <1>9, <1>10, <1>11, <3>1, <3>2 DEF Places
  <2>2. Counts(s)'
    BY <1>6, <1>9, <1>10, <1>12, <1>14 DEF SpanOK, Counts
  <2>3. span'[s] \in SpanType(s)'
    BY <1>9, <1>10 DEF SpanType
  <2>. QED
    BY <2>1, <2>2, <2>3 DEF SpanOK
<1>17. /\ pc'[t].at = w /\ pc'[t].b = b /\ SpanOf(t)' = s
       /\ \A u \in Thread \ {t} : pc'[u] = pc[u] /\ SpanOf(u)' = SpanOf(u)
  BY <1>4, <1>5, <1>6 DEF Inv, TypeOK, Goto, SpanOf
<1>18. CallOK(t)'
  <2>1. w \notin {"push", "extract", "sync"}
    BY <1>3 DEF Storing
  <2>2. w = "store all" <=> OfSpan(s) \subseteq Back(s)'
    BY <1>3, <1>9, <1>12, <1>15
  <2>3. w = "store" \/ w = "store all"
    BY <1>3
  <2>4. OfSpan(s)' = OfSpan(s)
    BY DEF OfSpan, Indices
  <2>. QED
    BY <1>6, <1>10, <1>17, <2>1, <2>2, <2>3, <2>4 DEF CallOK, Back
<1>19. LocksOK'
  <2>1. pc'[t].at # "push"
    BY <1>3, <1>17 DEF Storing
  <2>2. \A u \in Thread : /\ SpanOf(u) = SpanOf(u)' \/ u = t
                          /\ pc'[u].at \in Holding <=> pc[u].at \in Holding
                          /\ pc'[u].at \in Carrying <=> pc[u].at \in Carrying
                          /\ pc'[u].b = pc[u].b /\ SpanOf(u)' = SpanOf(u)
    BY <1>1, <1>2, <1>5, <1>17
  <2>3. \A x \in DOMAIN span : span'[x].locked = span[x].locked
    BY <1>9, <1>10
  <2>. QED
    BY <1>10, <1>17, <2>1, <2>2, <2>3 DEF Inv, LocksOK
<1>20. ~(OfSpan(s) \subseteq sp.deferred)
  BY <1>6, <1>9
<1>. QED
  BY <1>1, <1>2, <1>4, <1>5, <1>6, <1>9, <1>12, <1>16, <1>18, <1>19, <1>20, DeferInv

(* It puts the list back; whoever brought the last block pushes the span.  *)
LEMMA DeferStoreInv ==
  ASSUME Inv, NEW t \in Thread, DeferStore(t),
         UNCHANGED <<pool, heaps, owner, orphans, mine, live, finalized>>
  PROVE  Inv'
<1>1. PICK s : s = SpanOf(t)
  OBVIOUS
<1>2. PICK b : b = pc[t].b
  OBVIOUS
<1>3. PICK w \in {"push", "idle"} : w = IF pc[t].at = "store all" THEN "push" ELSE "idle"
  OBVIOUS
<1>4. PICK c : c = IF pc[t].at = "store all" THEN b ELSE None
  OBVIOUS
<1>5. /\ pc[t].at \in Storing /\ Goto(t, w, c)
      /\ span' = [span EXCEPT ![s].locked = FALSE, ![s].deferred = @ \cup {b}]
  BY <1>1, <1>2, <1>3, <1>4 DEF DeferStore, At, Storing
<1>6. /\ pc[t].at \in Carrying /\ pc[t].at \in Holding /\ pc[t].at # "lock"
      /\ w \notin Carrying /\ w \notin Holding /\ w \notin Storing /\ w \in PC
  <2>1. pc[t].at \in Carrying /\ pc[t].at \in Holding /\ pc[t].at # "lock"
    BY <1>5 DEF Carrying, Holding, Storing
  <2>. QED
    BY <2>1, <1>3 DEF PC, OnSpan, OnBlock, Carrying, Holding, Storing
<1>7. /\ b \in Block /\ s = b[1] /\ s \in DOMAIN span /\ s \in Span /\ SpanOK(s)
      /\ b \in OfSpan(s) /\ b \in air /\ b \notin span[s].deferred /\ ~finalized
      /\ b \notin live /\ b[2] <= span[s].limit
  BY <1>1, <1>2, <1>6, Carrier
<1>8. PICK sp : sp = [span[s] EXCEPT !.locked = FALSE, !.deferred = @ \cup {b}]
  OBVIOUS
<1>9. span[s] \in SpanType(s)
  BY <1>7 DEF SpanOK
<1>10. /\ sp \in SpanType(s) /\ span' = [span EXCEPT ![s] = sp]
       /\ sp.heap = span[s].heap /\ sp.free = span[s].free /\ sp.limit = span[s].limit
       /\ sp.deferred = span[s].deferred \cup {b} /\ sp.usedCount = span[s].usedCount
       /\ sp.listSize = span[s].listSize /\ ~sp.locked
  <2>1. sp = [heap |-> span[s].heap, free |-> span[s].free, limit |-> span[s].limit,
              usedCount |-> span[s].usedCount, deferred |-> span[s].deferred \cup {b},
              locked |-> FALSE, listSize |-> span[s].listSize]
    BY <1>8, <1>9 DEF SpanType
  <2>2. span' = [span EXCEPT ![s] = sp]
    BY <1>5, <1>7, <1>8, <1>9 DEF Inv, TypeOK, SpanType
  <2>. QED
    BY <1>7, <1>9, <2>1, <2>2 DEF SpanType
<1>11. /\ DOMAIN span' = DOMAIN span /\ span'[s] = sp
       /\ \A x \in DOMAIN span : x # s => span'[x] = span[x]
  BY <1>7, <1>10 DEF Inv, TypeOK
<1>12. air' = air \ {b} /\ stored' = stored \ {b}
  BY <1>2, <1>5, <1>6, AirMoves DEF Inv
<1>13. Back(s) = span[s].deferred \cup {b} /\ Back(s)' = sp.deferred
  <2>1. stored \cap OfSpan(s) = {b}
    BY <1>1, <1>2, <1>5, <1>6, HolderAlone
  <2>. QED
    BY <1>11, <1>12, <2>1 DEF Back
<1>14. SpanOK(s)'
  <2>1. Places(s)'
    <3>1. UNCHANGED <<live, classFree>>
      BY DEF heaps
    <3>2. Places(s)
      BY <1>7 DEF SpanOK
    <3>3. b \notin classFree[span[s].heap] /\ b \notin span[s].free
      BY <1>7, <3>2 DEF Places
    <3>. QED
      BY <1>7, <1>10, <1>11, <1>12, <3>1, <3>2, <3>3 DEF Places
  <2>2. Counts(s)'
    BY <1>7, <1>10, <1>11, <1>13 DEF SpanOK, Counts
  <2>3. span'[s] \in SpanType(s)'
    BY <1>10, <1>11 DEF SpanType
  <2>. QED
    BY <2>1, <2>2, <2>3 DEF SpanOK
<1>15. /\ pc'[t].at = w /\ pc'[t].b = c /\ (w = "push" => SpanOf(t)' = s)
       /\ \A u \in Thread \ {t} : pc'[u] = pc[u] /\ SpanOf(u)' = SpanOf(u)
  BY <1>3, <1>4, <1>5, <1>6, <1>7 DEF Inv, TypeOK, Goto, SpanOf
<1>16. OfSpan(s) \subseteq sp.deferred <=> w = "push"
  <2>1. CallOK(t)
    BY DEF Inv, CallsOK
  <2>2. pc[t].at = "store" \/ pc[t].at = "store all"
    BY <1>5 DEF Storing
  <2>3. OfSpan(s) \subseteq Back(s) <=> pc[t].at = "store all"
    BY <1>1, <2>1, <2>2 DEF CallOK
  <2>. QED
    BY <1>3, <1>10, <1>13, <2>2, <2>3
<1>17. CallOK(t)'
  <2>1. CASE w = "idle"
    BY <1>15, <2>1, CallOff
  <2>2. CASE w = "push"
    <3>1. OfSpan(s)' = OfSpan(s)
      BY DEF OfSpan, Indices
    <3>. QED
      BY <1>7, <1>11, <1>15, <1>16, <2>2, <3>1 DEF CallOK
  <2>. QED
    BY <2>1, <2>2
<1>18. LocksOK'
  <2>1. \A u \in Thread : pc[u].at \in Holding /\ SpanOf(u) = s => u = t
    BY <1>1, <1>6, HolderAlone
  <2>2. \A u \in Thread : pc[u].at = "push" => SpanOf(u) # s
    <3>1. \A u \in Thread :
            pc[u].at = "push" => OfSpan(SpanOf(u)) \subseteq span[SpanOf(u)].deferred
      BY DEF Inv, CallsOK, CallOK
    <3>. QED
      BY <1>7, <3>1
  <2>3. (\A x \in DOMAIN span : span[x].locked <=>
          \E u \in Thread : pc[u].at \in Holding /\ SpanOf(u) = x)'
    <3>. SUFFICES ASSUME NEW x \in DOMAIN span
                  PROVE  span'[x].locked <=>
                           \E u \in Thread : pc'[u].at \in Holding /\ SpanOf(u)' = x
      BY <1>11
    <3>1. CASE x = s
      BY <1>6, <1>10, <1>11, <1>15, <2>1, <3>1
    <3>2. CASE x # s
      <4>1. span'[x].locked <=> \E u \in Thread : pc[u].at \in Holding /\ SpanOf(u) = x
        BY <1>11, <3>2 DEF Inv, LocksOK
      <4>. QED
        BY <1>1, <1>6, <1>15, <3>2, <4>1
    <3>. QED
      BY <3>1, <3>2
  <2>4. (\A u, v \in Thread :
           pc[u].at \in Holding /\ pc[v].at \in Holding /\ SpanOf(u) = SpanOf(v) => u = v)'
    BY <1>6, <1>15 DEF Inv, LocksOK
  <2>5. (\A u, v \in Thread :
           pc[u].at \in Carrying /\ pc[v].at \in Carrying /\ pc[u].b = pc[v].b => u = v)'
    BY <1>6, <1>15 DEF Inv, LocksOK
  <2>6. (\A u, v \in Thread :
           pc[u].at = "push" /\ pc[v].at = "push" /\ SpanOf(u) = SpanOf(v) => u = v)'
    BY <1>15, <2>2 DEF Inv, LocksOK
  <2>. QED
    BY <2>3, <2>4, <2>5, <2>6 DEF LocksOK
<1>19. w \in Holding \cup {"push", "idle"} /\ (w = "push" => w \in OnBlock)
  BY <1>3 DEF OnBlock
<1>20. \/ w \in OnBlock /\ c = pc[t].b
       \/ w = "idle" /\ c = None
  BY <1>2, <1>3, <1>4, <1>19
<1>21. Back(s) \subseteq Back(s)' /\ span[s].deferred \subseteq sp.deferred
  BY <1>10, <1>13
<1>22. pc[t].at \in Holding \cup {"lock"} /\ pc[t].at # "lock" /\ s \in DOMAIN span /\ ~finalized
  BY <1>6, <1>7
<1>23. OfSpan(s) \subseteq sp.deferred => w = "push"
  BY <1>16
<1>24. /\ sp \in SpanType(s) /\ span' = [span EXCEPT ![s] = sp]
       /\ sp.heap = span[s].heap /\ sp.free = span[s].free /\ sp.limit = span[s].limit
  BY <1>10
<1>. QED
  BY <1>1, <1>5, <1>14, <1>17, <1>18, <1>19, <1>20, <1>21, <1>22, <1>23, <1>24, DeferInv
-----------------------------------------------------------------------------
(* The thread that brought the last block hands the span to its heap.      *)
LEMMA DeferSpanInv ==
  ASSUME Inv, NEW t \in Thread, DeferSpan(t)
  PROVE  Inv'
<1>1. PICK s : s = SpanOf(t)
  OBVIOUS
<1>2. /\ pc[t].at = "push" /\ Goto(t, "idle", None)
      /\ deferred' = [deferred EXCEPT ![span[s].heap] = @ \cup {s}]
      /\ UNCHANGED <<span, pool, classFree, partial, full, owner, orphans, mine, live, finalized>>
  BY <1>1 DEF DeferSpan, At
<1>3. /\ s \in DOMAIN span /\ s \in Span /\ OfSpan(s) \subseteq span[s].deferred
      /\ span[s].heap \in Heap
  BY <1>1, <1>2, Kinds, ZenonT(40) DEF Inv, CallsOK, CallOK, TypeOK, SpanType
<1>4. ~finalized
  BY <1>2 DEF Inv, FinalOK
<1>5. /\ "idle" \in PC /\ "idle" \notin Carrying /\ "idle" \notin Holding /\ "idle" \notin Storing
      /\ "idle" \notin OnSpan
      /\ pc[t].at \notin Carrying /\ pc[t].at \notin Holding /\ pc[t].at \notin Storing
  BY <1>2, Kinds, OffSpan
<1>6. air' = air /\ stored' = stored
  BY <1>2, <1>5, AirMoves DEF Inv
<1>7. taken' = taken /\ pushed' = pushed \ {s}
  <2>1. /\ taken' = (taken \ (IF pc[t].at = "extract" THEN {SpanOf(t)} ELSE {}))
                     \cup (IF "idle" = "extract" THEN {None[1]} ELSE {})
        /\ pushed' = (pushed \ (IF pc[t].at = "push" THEN {SpanOf(t)} ELSE {}))
                     \cup (IF "idle" = "push" THEN {None[1]} ELSE {})
    BY <1>2, <1>5, ListsMove DEF Inv
  <2>. QED
    BY <1>1, <1>2, <2>1
<1>8. TypeOK'
  <2>1. deferred' \in [Heap -> SUBSET Span]
    BY <1>2, <1>3 DEF Inv, TypeOK
  <2>2. pool' = Span \ DOMAIN span' /\ \A x \in DOMAIN span' : span'[x] \in SpanType(x)'
    BY <1>2 DEF Inv, TypeOK, SpanType
  <2>. QED
    BY <1>2, <1>5, <2>1, <2>2, GotoType DEF Inv, TypeOK
<1>9. ASSUME NEW x \in DOMAIN span' PROVE SpanOK(x)' /\ Back(x)' = Back(x)
  BY <1>2, <1>6, SpanKeeps DEF Inv
<1>10. Rooted'
  BY <1>2 DEF Inv, Rooted
<1>11. LocksOK'
  BY <1>2, <1>5, LocksKeep
<1>12. OwnersOK'
  BY <1>2, <1>5, OwnersKeep
<1>13. ASSUME NEW u \in Thread PROVE CallOK(u)'
  <2>1. CASE u = t
    BY <1>2, <1>5, <2>1, Moves, CallOff DEF Inv
  <2>2. CASE u # t
    <3>1. pc'[u] = pc[u] /\ mine'[u] = mine[u] /\ CallOK(u)
      BY <1>2, <2>2 DEF Inv, CallsOK, TypeOK, Goto
    <3>2. PICK x : x = SpanOf(u)
      OBVIOUS
    <3>3. pc[u].at \in OnSpan => x \in DOMAIN span
      BY <3>1, <3>2 DEF CallOK
    <3>. QED
      BY <1>2, <1>9, <3>1, <3>2, <3>3, CallSame
  <2>. QED
    BY <2>1, <2>2
<1>14. ListsOK'
  <2>1. s \in pushed
    BY <1>1, <1>2 DEF pushed
  <2>2. ASSUME NEW h \in Heap
        PROVE  /\ Partly(h)' = Partly(h) /\ Fully(h)' = Fully(h)
               /\ Given(h)' = Given(h) \cup (IF h = span[s].heap THEN {s} ELSE {})
    <3>1. Partly(h)' = Partly(h) /\ Fully(h)' = Fully(h)
      BY <1>2, <1>7 DEF Partly, Fully
    <3>2. Given(h)' = {x \in DOMAIN span : span[x].heap = h /\ x \notin pushed \ {s}
                                           /\ OfSpan(x) \subseteq span[x].deferred}
      BY <1>2, <1>7 DEF Given, OfSpan, Indices
    <3>3. Given(h)' = Given(h) \cup (IF h = span[s].heap THEN {s} ELSE {})
      BY <1>3, <2>1, <3>2 DEF Given
    <3>. QED
      BY <3>1, <3>3
  <2>3. \A h \in Heap : deferred'[h] = deferred[h] \cup (IF h = span[s].heap THEN {s} ELSE {})
    BY <1>2, <1>3 DEF Inv, TypeOK
  <2>4. \A h \in Heap : /\ IsInjective(partial[h]) /\ Range(partial[h]) = Partly(h)
                        /\ full[h] = Cardinality(Fully(h)) /\ deferred[h] = Given(h)
    BY DEF Inv, ListsOK
  <2>5. \A h \in Heap : /\ IsInjective(partial'[h]) /\ Range(partial'[h]) = Partly(h)'
                        /\ full'[h] = Cardinality(Fully(h)') /\ deferred'[h] = Given(h)'
    <3>. SUFFICES ASSUME NEW h \in Heap
                  PROVE  /\ IsInjective(partial'[h]) /\ Range(partial'[h]) = Partly(h)'
                         /\ full'[h] = Cardinality(Fully(h)') /\ deferred'[h] = Given(h)'
      OBVIOUS
    <3>1. partial' = partial /\ full' = full
      BY <1>2
    <3>2. Partly(h)' = Partly(h) /\ Fully(h)' = Fully(h)
      BY <2>2
    <3>3. Given(h)' = Given(h) \cup (IF h = span[s].heap THEN {s} ELSE {})
      BY <2>2
    <3>4. deferred'[h] = deferred[h] \cup (IF h = span[s].heap THEN {s} ELSE {})
      BY <2>3
    <3>5. deferred[h] = Given(h)
      BY <2>4
    <3>6. deferred'[h] = Given(h)'
      BY <3>3, <3>4, <3>5, Zenon
    <3>. QED
      BY <2>4, <3>1, <3>2, <3>6
  <2>. QED
    BY <2>5 DEF ListsOK
<1>. QED
  BY <1>2, <1>4, <1>8, <1>9, <1>10, <1>11, <1>12, <1>13, <1>14, NotYetFinal DEF Inv, CallsOK
-----------------------------------------------------------------------------
(* The thread that works for heap h changes one span of it, and the lists  *)
(* of that heap; blocks of no other span move. Nobody else is at work for  *)
(* h.                                                                      *)
AloneOn(h, t) ==
  \A u \in Thread \ {t} : pc[u].at \in {"extract", "sync"} => span[SpanOf(u)].heap # h

(* A step of the owner that changes one span and the lists of its heap.    *)
LEMMA OwnerInv ==
  ASSUME Inv, NEW t \in Thread, NEW h \in Heap, AloneOn(h, t),
         NEW s \in DOMAIN span, span[s].heap = h,
         NEW at, at = pc[t].at, at \in {"idle", "extract"}, at = "extract" => SpanOf(t) = s,
         NEW w \in {"idle", "extract", "sync"}, NEW c, Goto(t, w, c),
         \/ w = "idle" /\ c = None
         \/ w = "extract" /\ c \in OfSpan(s) /\ c \notin air /\ mine[t] # None
         \/ w = "sync" /\ c = <<s>>,
         NEW sp \in SpanType(s), span' = [span EXCEPT ![s] = sp],
         sp.heap = h, sp.locked = span[s].locked,
         UNCHANGED <<pool, deferred, owner, orphans, mine, finalized>>,
         classFree' \in [Heap -> SUBSET Block], live' \subseteq Block,
         \A g \in Heap \ {h} : classFree'[g] = classFree[g],
         \A b \in Block : b \notin OfSpan(s) => /\ b \in classFree'[h] <=> b \in classFree[h]
                                                /\ b \in live' <=> b \in live,
         partial' \in [Heap -> Seq(Span)], full' \in [Heap -> Int],
         \A g \in Heap \ {h} : partial'[g] = partial[g] /\ full'[g] = full[g],
         IsInjective(partial'[h]),
         Range(partial'[h]) = (Range(partial[h]) \ {s})
           \cup (IF ~FullyUtilized(sp) \/ w = "extract" THEN {s} ELSE {}),
         full'[h] = full[h] - (IF FullyUtilized(span[s]) /\ at # "extract" THEN 1 ELSE 0)
                            + (IF FullyUtilized(sp) /\ w # "extract" THEN 1 ELSE 0),
         ~(OfSpan(s) \subseteq span[s].deferred), ~(OfSpan(s) \subseteq sp.deferred),
         SpanOK(s)', CallOK(t)', FinalOK', Reclaimed',
         \A u \in Thread \ {t} : SpanOf(u) = s => CallOK(u)'
  PROVE  Inv'
<1>1. /\ w \in PC /\ w # "push" /\ w # "own" /\ w \notin Holding /\ w \notin Storing
      /\ at # "push" /\ at # "own" /\ at \notin Holding /\ at \notin Storing
      /\ (w \in Carrying <=> w = "extract") /\ (at \in Carrying <=> at = "extract")
      /\ w \notin {"new", "orphan"}
  BY DEF PC, OnSpan, OnBlock, Carrying, Holding, Storing
<1>2. s \in Span
  BY DEF Inv, TypeOK
<1>3. at = "extract" => pc[t].b \in OfSpan(s)
  BY <1>1, Carrier
<1>4. /\ DOMAIN span' = DOMAIN span /\ span'[s] = sp
      /\ \A x \in DOMAIN span : x # s => span'[x] = span[x]
      /\ span' = [x \in DOMAIN span' |-> span'[x]]
  BY DEF Inv, TypeOK
<1>5. /\ air' = (air \ (IF at = "extract" THEN {pc[t].b} ELSE {}))
                  \cup (IF w = "extract" THEN {c} ELSE {})
      /\ stored' = stored
  <2>1. /\ air' = (air \ (IF pc[t].at \in Carrying THEN {pc[t].b} ELSE {}))
                     \cup (IF w \in Carrying THEN {c} ELSE {})
        /\ stored' = (stored \ (IF pc[t].at \in Storing THEN {pc[t].b} ELSE {}))
                     \cup (IF w \in Storing THEN {c} ELSE {})
    BY <1>1, AirMoves DEF Inv
  <2>2. stored' = stored
    BY <1>1, <2>1
  <2>. QED
    BY <1>1, <2>1, <2>2, Zenon
<1>6. /\ taken' = (taken \ (IF at = "extract" THEN {s} ELSE {}))
                    \cup (IF w = "extract" THEN {s} ELSE {})
      /\ pushed' = pushed
  <2>1. w = "extract" => c[1] = s
    BY <1>2, BlocksAre
  <2>2. /\ taken' = (taken \ (IF pc[t].at = "extract" THEN {SpanOf(t)} ELSE {}))
                     \cup (IF w = "extract" THEN {c[1]} ELSE {})
        /\ pushed' = (pushed \ (IF pc[t].at = "push" THEN {SpanOf(t)} ELSE {}))
                     \cup (IF w = "push" THEN {c[1]} ELSE {})
    BY <1>1, ListsMove DEF Inv
  <2>. QED
    BY <1>1, <2>1, <2>2
<1>7. TypeOK'
  <2>1. \A x \in DOMAIN span' : span'[x] \in SpanType(x)'
    BY <1>4 DEF Inv, TypeOK, SpanType
  <2>2. \/ w \in OnBlock /\ c \in Block
        \/ w = "sync" /\ \E x \in Span : c = <<x>>
        \/ w \notin OnSpan /\ c = None
    BY <1>2, BlocksAre, OffSpan DEF OnBlock, Carrying
  <2>3. pool' = Span \ DOMAIN span' /\ DOMAIN span' \subseteq Span
    BY <1>4 DEF Inv, TypeOK
  <2>4. /\ pc' \in [Thread -> [at : PC, b : Block \cup {<<x>> : x \in Span} \cup {None}]]
        /\ \A u \in Thread :
             /\ pc'[u].at \in OnBlock => pc'[u].b \in Block
             /\ pc'[u].at = "sync" => \E x \in Span : pc'[u].b = <<x>>
    BY <1>1, <2>2, GotoType DEF Inv
  <2>. QED
    BY <1>4, <2>1, <2>3, <2>4 DEF Inv, TypeOK
<1>8. ASSUME NEW x \in DOMAIN span', x # s PROVE SpanOK(x)' /\ Back(x)' = Back(x)
  <2>1. x \in DOMAIN span /\ SpanOK(x) /\ span'[x] = span[x] /\ x \in Span /\ span[x].heap \in Heap
    BY <1>4, <1>8 DEF Inv, TypeOK, SpanType
  <2>2. \A b \in OfSpan(x) : b \in Block /\ b \notin OfSpan(s)
    BY <1>2, <1>8, <2>1, BlocksAre
  <2>3. air' \cap OfSpan(x) = air \cap OfSpan(x) /\ stored' \cap OfSpan(x) = stored \cap OfSpan(x)
    BY <1>3, <1>5, <2>2
  <2>4. live' \cap OfSpan(x) = live \cap OfSpan(x)
    BY <2>2
  <2>5. classFree'[span[x].heap] \cap OfSpan(x) = classFree[span[x].heap] \cap OfSpan(x)
    BY <2>1, <2>2
  <2>. QED
    BY <2>1, <2>3, <2>4, <2>5, SpanKeeps
<1>9. Rooted'
  <2>1. \A x \in DOMAIN span : span'[x].heap = span[x].heap
    BY <1>4
  <2>2. ASSUME NEW b \in live' PROVE b[1] \in DOMAIN span
    BY <1>2, <2>2, BlocksAre DEF Inv, Rooted
  <2>3. ASSUME NEW g \in Heap, NEW b \in classFree'[g]
        PROVE  b[1] \in DOMAIN span /\ span[b[1]].heap = g
    <3>1. b \in Block
      BY <2>3
    <3>2. CASE b \in OfSpan(s)
      <4>1. b[1] = s
        BY <1>2, <3>1, <3>2, BlocksAre
      <4>2. g = h
        <5>. SUFFICES ASSUME g # h PROVE FALSE
          OBVIOUS
        <5>. QED
          BY <2>3, <4>1, ZenonT(40) DEF Inv, Rooted
      <4>. QED
        BY <4>1, <4>2
    <3>3. CASE b \notin OfSpan(s)
      <4>1. b \in classFree[g]
        BY <2>3, <3>1, <3>3
      <4>. QED
        BY <4>1 DEF Inv, Rooted
    <3>. QED
      BY <3>2, <3>3
  <2>. QED
    BY <1>4, <2>1, <2>2, <2>3 DEF Rooted
<1>10. OwnersOK'
  BY <1>1, OwnersKeep
<1>11. LocksOK'
  <2>1. \A x \in DOMAIN span' : IF x \in DOMAIN span THEN span'[x].locked = span[x].locked
                                                    ELSE ~span'[x].locked
    BY <1>4
  <2>2. w \in Carrying => c \notin air
    BY <1>1
  <2>. QED
    BY <1>1, <2>1, <2>2, LocksKeep
<1>12. ASSUME NEW u \in Thread PROVE CallOK(u)'
  <2>1. CASE u # t /\ SpanOf(u) # s
    <3>1. pc'[u] = pc[u] /\ mine'[u] = mine[u] /\ CallOK(u)
      BY <2>1 DEF Inv, CallsOK, TypeOK, Goto
    <3>2. PICK x : x = SpanOf(u)
      OBVIOUS
    <3>3. pc[u].at \in OnSpan => x \in DOMAIN span
      BY <3>1, <3>2 DEF CallOK
    <3>4. pc[u].at = "extract" => partial'[mine[u]] = partial[mine[u]]
      <4>1. pc[u].at = "extract" => mine[u] = span[x].heap /\ span[x].heap # h
        BY <2>1, <3>1, <3>2 DEF AloneOn, CallOK
      <4>2. pc[u].at = "extract" => mine[u] \in Heap
        BY DEF Inv, TypeOK, OwnersOK
      <4>. QED
        BY <4>1, <4>2
    <3>. QED
      BY <1>4, <1>8, <2>1, <3>1, <3>2, <3>3, <3>4, CallSame
  <2>. QED
    BY <2>1
<1>13. ListsOK'
  <2>1. s \notin taken \/ at = "extract"
    BY DEF AloneOn, taken
  <2>2. ASSUME NEW g \in Heap
        PROVE  /\ Partly(g)' = IF g = h THEN (Partly(h) \ {s})
                    \cup (IF ~FullyUtilized(sp) \/ w = "extract" THEN {s} ELSE {}) ELSE Partly(g)
               /\ Fully(g)' = IF g = h THEN (Fully(h) \ {s})
                    \cup (IF FullyUtilized(sp) /\ w # "extract" THEN {s} ELSE {}) ELSE Fully(g)
               /\ Given(g)' = Given(g)
    <3>1. Partly(g)' = {x \in DOMAIN span' :
                          span'[x].heap = g /\ (~FullyUtilized(span'[x]) \/ x \in taken')}
      BY DEF Partly, FullyUtilized
    <3>2. Fully(g)' = {x \in DOMAIN span' :
                         span'[x].heap = g /\ FullyUtilized(span'[x]) /\ x \notin taken'}
      BY DEF Fully, FullyUtilized
    <3>3. Given(g)' = {x \in DOMAIN span' : span'[x].heap = g /\ x \notin pushed'
                                            /\ OfSpan(x) \subseteq span'[x].deferred}
      BY DEF Given, OfSpan, Indices
    <3>4. s \in taken' <=> w = "extract"
      BY <1>6, <2>1
    <3>5. \A x \in DOMAIN span : x # s => (x \in taken' <=> x \in taken)
      BY <1>6
    <3>6. Partly(g)' = IF g = h THEN (Partly(h) \ {s})
             \cup (IF ~FullyUtilized(sp) \/ w = "extract" THEN {s} ELSE {}) ELSE Partly(g)
      BY <1>4, <3>1, <3>4, <3>5 DEF Partly
    <3>7. Fully(g)' = IF g = h THEN (Fully(h) \ {s})
             \cup (IF FullyUtilized(sp) /\ w # "extract" THEN {s} ELSE {}) ELSE Fully(g)
      BY <1>4, <3>2, <3>4, <3>5 DEF Fully
    <3>8. Given(g)' = Given(g)
      BY <1>4, <1>6, <3>3 DEF Given
    <3>. QED
      BY <3>6, <3>7, <3>8
  <2>3. IsFiniteSet(Fully(h)) /\ Cardinality(Fully(h)) \in Nat
    BY SpansFinite DEF Fully, Inv, TypeOK
  <2>4. s \in Fully(h) <=> FullyUtilized(span[s]) /\ at # "extract"
    BY <2>1 DEF Fully, taken
  <2>5. Cardinality(Fully(h)') = Cardinality(Fully(h))
          - (IF FullyUtilized(span[s]) /\ at # "extract" THEN 1 ELSE 0)
          + (IF FullyUtilized(sp) /\ w # "extract" THEN 1 ELSE 0)
    <3>. DEFINE others == Fully(h) \ {s}
    <3>1. /\ IsFiniteSet(others)
          /\ Cardinality(others) =
               IF s \in Fully(h) THEN Cardinality(Fully(h)) - 1 ELSE Cardinality(Fully(h))
      BY <2>3, FS_RemoveElement
    <3>2. Cardinality(others \cup {s}) = Cardinality(others) + 1
      <4>1. s \notin others
        OBVIOUS
      <4>. HIDE DEF others
      <4>. QED
        BY <3>1, <4>1, FS_AddElement
    <3>3. CASE FullyUtilized(sp) /\ w # "extract"
      <4>1. Fully(h)' = (Fully(h) \ {s}) \cup {s}
        BY <2>2, <3>3
      <4>. QED
        BY <2>3, <2>4, <3>1, <3>2, <3>3, <4>1
    <3>4. CASE ~(FullyUtilized(sp) /\ w # "extract")
      <4>1. Fully(h)' = Fully(h) \ {s}
        BY <2>2, <3>4
      <4>. QED
        BY <2>3, <2>4, <3>1, <3>4, <4>1
    <3>. QED
      BY <3>3, <3>4
  <2>6. \A g \in Heap : /\ IsInjective(partial[g]) /\ Range(partial[g]) = Partly(g)
                        /\ full[g] = Cardinality(Fully(g)) /\ deferred[g] = Given(g)
    BY DEF Inv, ListsOK
  <2>7. ASSUME NEW g \in Heap
        PROVE  /\ IsInjective(partial'[g]) /\ Range(partial'[g]) = Partly(g)'
               /\ full'[g] = Cardinality(Fully(g)') /\ deferred'[g] = Given(g)'
    <3>1. deferred'[g] = Given(g)'
      BY <2>2, <2>6
    <3>2. CASE g = h
      <4>1. Range(partial'[h]) = Partly(h)'
        BY <2>2, <2>6
      <4>2. full'[h] = Cardinality(Fully(h)')
        BY <2>5, <2>6
      <4>. QED
        BY <3>1, <3>2, <4>1, <4>2
    <3>3. CASE g # h
      <4>1. Partly(g)' = Partly(g) /\ Fully(g)' = Fully(g)
        BY <2>2, <3>3
      <4>. QED
        BY <2>6, <3>1, <3>3, <4>1
    <3>. QED
      BY <3>2, <3>3
  <2>. QED
    BY <2>7 DEF ListsOK
<1>14. \A x \in DOMAIN span' : SpanOK(x)'
  BY <1>8
<1>. QED
  BY <1>7, <1>9, <1>10, <1>11, <1>12, <1>13, <1>14 DEF Inv, CallsOK

(* A thread is alone on the heap it has.                                   *)
LEMMA AloneIs ==
  ASSUME Inv, NEW t \in Thread, NEW h \in Heap, h = mine[t]
  PROVE  AloneOn(h, t) /\ ~finalized
<1>1. ~finalized
  BY HeapAssumption DEF Inv, FinalOK
<1>2. ASSUME NEW u \in Thread \ {t}, pc[u].at \in {"extract", "sync"}
      PROVE  span[SpanOf(u)].heap # h
  <2>1. CallOK(u) /\ \A v \in Thread : mine[v] # None /\ mine[v] = mine[u] => v = u
    BY DEF Inv, CallsOK, OwnersOK
  <2>2. CASE pc[u].at = "extract"
    BY <2>1, <2>2, HeapAssumption DEF CallOK
  <2>3. CASE pc[u].at = "sync"
    <3>1. owner[span[SpanOf(u)].heap] = u
      BY <1>1, <2>1, <2>3 DEF CallOK
    <3>. SUFFICES ASSUME span[SpanOf(u)].heap = h PROVE FALSE
      OBVIOUS
    <3>2. mine[u] = h
      BY <3>1, HeapAssumption DEF Inv, OwnersOK
    <3>. QED
      BY <2>1, <3>2, HeapAssumption
  <2>. QED
    BY <1>2, <2>2, <2>3
<1>. QED
  BY <1>1, <1>2 DEF AloneOn

(* What the owner may find on a span it works on: threads with blocks of   *)
(* it, but none that the owner could disturb.                              *)
LEMMA OthersKeep ==
  ASSUME Inv, NEW t \in Thread, NEW h \in Heap, AloneOn(h, t),
         NEW s \in DOMAIN span, span[s].heap = h, s \in DOMAIN span',
         NEW u \in Thread \ {t}, SpanOf(u) = s, pc'[u] = pc[u],
         pc[u].at \in Storing => Back(s)' = Back(s),
         pc[u].at = "push" => span[s].deferred \subseteq span'[s].deferred
  PROVE  CallOK(u)'
<1>1. pc[u].at # "extract" /\ pc[u].at # "sync"
  BY DEF AloneOn
<1>2. CallOK(u)
  BY DEF Inv, CallsOK
<1>. QED
  BY <1>1, <1>2, CallKeeps

(* The first span of the list of partial ones has a block to give, and not *)
(* all of its blocks came back from others.                                *)
LEMMA PartialHead ==
  ASSUME Inv, NEW t \in Thread, pc[t] = Idle, NEW h \in Heap, AloneOn(h, t), partial[h] # <<>>
  PROVE  /\ Head(partial[h]) \in DOMAIN span /\ Head(partial[h]) \in Span
         /\ span[Head(partial[h])].heap = h /\ ~FullyUtilized(span[Head(partial[h])])
         /\ ~(OfSpan(Head(partial[h])) \subseteq span[Head(partial[h])].deferred)
<1>1. partial[h] \in Seq(Span) /\ IsInjective(partial[h]) /\ Range(partial[h]) = Partly(h)
  BY DEF Inv, TypeOK, ListsOK
<1>2. PICK s \in Range(partial[h]) : s = Head(partial[h])
  BY <1>1, TailIs
<1>3. s \in DOMAIN span /\ span[s].heap = h /\ (~FullyUtilized(span[s]) \/ s \in taken)
  BY <1>1, <1>2 DEF Partly
<1>4. s \notin taken
  BY <1>3 DEF taken, AloneOn, Idle
<1>5. s \in Span /\ ~(OfSpan(s) \subseteq span[s].deferred)
  BY <1>3, <1>4, AllBack DEF Inv, TypeOK
<1>. QED
  BY <1>2, <1>3, <1>4, <1>5

(* The blocks that go to the size class were in the list of the span or    *)
(* beyond what was linked up.                                              *)
LEMMA FreshIs ==
  ASSUME NEW s \in Span, SpanOK(s), ~FullyUtilized(span[s]), NEW fresh, NEW limit,
         fresh = IF span[s].free # {} THEN span[s].free ELSE PageOf(s, span[s].limit + 1),
         limit = IF span[s].free # {} THEN span[s].limit ELSE span[s].limit + Cardinality(fresh)
  PROVE  /\ fresh # {} /\ fresh \subseteq OfSpan(s) /\ limit \in 1 .. BlockCount
         /\ \A b \in OfSpan(s) : /\ b \in span[s].free => b \in fresh
                                 /\ b \in fresh => b \in span[s].free \/ b[2] > span[s].limit
                                 /\ b[2] > limit <=> b[2] > span[s].limit /\ b \notin fresh
                                 /\ b \in fresh => b[2] <= limit
<1>1. span[s].limit \in 1 .. BlockCount /\ span[s].free \subseteq OfSpan(s)
  BY DEF SpanOK, SpanType
<1>2. \A b \in OfSpan(s) : b[2] \in 1 .. BlockCount /\ (b \in span[s].free => b[2] <= span[s].limit)
  BY OfSpanIs DEF SpanOK, Places
<1>3. CASE span[s].free # {}
  BY <1>1, <1>2, <1>3, CountAssumption
<1>4. CASE span[s].free = {}
  <2>1. PICK from : from = span[s].limit + 1
    OBVIOUS
  <2>2. from \in 1 .. BlockCount
    BY <1>1, <1>4, <2>1, CountAssumption DEF FullyUtilized
  <2>3. /\ fresh \subseteq OfSpan(s) /\ fresh # {}
        /\ from - 1 + Cardinality(fresh) \in from .. BlockCount
        /\ \A b \in OfSpan(s) :
             b \in fresh <=> from <= b[2] /\ b[2] <= from - 1 + Cardinality(fresh)
    <3>1. fresh = PageOf(s, from)
      BY <1>4, <2>1
    <3>. QED
      BY <2>2, <3>1, PageIs
  <2>4. limit = from - 1 + Cardinality(fresh)
    <3>1. limit = span[s].limit + Cardinality(fresh) /\ span[s].limit = from - 1
      BY <1>1, <1>4, <2>1, CountAssumption
    <3>. QED
      BY <3>1
  <2>5. limit \in 1 .. BlockCount /\ limit \in from .. BlockCount
    BY <2>2, <2>3, <2>4, CountAssumption
  <2>6. \A b \in OfSpan(s) : b \in fresh <=> from <= b[2] /\ b[2] <= limit
    BY <2>3, <2>4
  <2>. QED
    BY <1>1, <1>2, <1>4, <2>1, <2>3, <2>5, <2>6, CountAssumption
<1>. QED
  BY <1>3, <1>4

(* The first partial span leaves the list when it has no block left.       *)
LEMMA TakeFromIs ==
  ASSUME Inv, NEW t \in Thread, NEW h \in Heap, h = mine[t], partial[h] # <<>>,
         NEW s \in Span, s = Head(partial[h]), NEW sp, NEW b, TakeFrom(t, s, sp, b)
  PROVE  /\ span' = [span EXCEPT ![s] = sp] /\ live' = live \cup {b} /\ Goto(t, "idle", None)
         /\ partial' \in [Heap -> Seq(Span)] /\ full' \in [Heap -> Int]
         /\ \A g \in Heap \ {h} : partial'[g] = partial[g] /\ full'[g] = full[g]
         /\ IsInjective(partial'[h])
         /\ s \in Range(partial[h])
         /\ FullyUtilized(sp) => Range(partial'[h]) = Range(partial[h]) \ {s}
         /\ ~FullyUtilized(sp) => Range(partial'[h]) = Range(partial[h])
<1>1. /\ partial \in [Heap -> Seq(Span)] /\ full \in [Heap -> Int]
      /\ IsInjective(partial[h])
  BY DEF Inv, TypeOK, ListsOK
<1>2. /\ Tail(partial[h]) \in Seq(Span) /\ IsInjective(Tail(partial[h]))
      /\ s \in Range(partial[h]) /\ Range(Tail(partial[h])) = Range(partial[h]) \ {s}
  BY <1>1, TailIs
<1>3. /\ span' = [span EXCEPT ![s] = sp] /\ live' = live \cup {b} /\ Goto(t, "idle", None)
  BY DEF TakeFrom
<1>4. CASE FullyUtilized(sp)
  <2>1. /\ partial' = [partial EXCEPT ![h] = Tail(@)]
        /\ full' = [full EXCEPT ![h] = @ + 1]
    BY <1>4 DEF TakeFrom
  <2>. QED
    BY <1>1, <1>2, <1>3, <1>4, <2>1
<1>5. CASE ~FullyUtilized(sp)
  <2>1. partial' = partial /\ full' = full
    BY <1>5 DEF TakeFrom
  <2>. QED
    BY <1>1, <1>2, <1>3, <1>5, <2>1
<1>. QED
  BY <1>4, <1>5

(* A partial span fills the size class and gives one block of it, at once  *)
(* or after its deferred blocks are fetched.                               *)
LEMMA MallocPartialInv ==
  ASSUME Inv, NEW t \in Thread, pc[t] = Idle, mine[t] # None, MallocPartial(t)
  PROVE  Inv'
<1>1. PICK h \in Heap : h = mine[t]
  BY DEF Inv, TypeOK
<1>2. AloneOn(h, t) /\ ~finalized /\ classFree[h] = {} /\ partial[h] # <<>>
  BY <1>1, AloneIs DEF MallocPartial
<1>3. PICK s \in Span : s = Head(partial[h])
  BY <1>2, PartialHead
<1>4. /\ s \in DOMAIN span /\ span[s].heap = h /\ ~FullyUtilized(span[s])
      /\ ~(OfSpan(s) \subseteq span[s].deferred)
  BY <1>2, <1>3, PartialHead
<1>5. PICK fresh : fresh = IF span[s].free # {} THEN span[s].free ELSE PageOf(s, span[s].limit + 1)
  OBVIOUS
<1>6. PICK limit : limit = IF span[s].free # {} THEN span[s].limit
                                                ELSE span[s].limit + Cardinality(fresh)
  OBVIOUS
<1>7. PICK b : b = Pick(fresh)
  OBVIOUS
<1>8. PICK sp : sp = [span[s] EXCEPT !.free = {}, !.limit = limit, !.usedCount = limit]
  OBVIOUS
<1>9. /\ classFree' = [classFree EXCEPT ![h] = fresh \ {b}]
      /\ UNCHANGED <<pool, deferred, owner, orphans, mine, finalized>>
      /\ IF span[s].locked \/ span[s].deferred # {}
         THEN /\ span' = [span EXCEPT ![s] = sp] /\ Goto(t, "extract", b)
              /\ UNCHANGED <<partial, full, live>>
         ELSE TakeFrom(t, s, sp, b)
  BY <1>1, <1>3, <1>5, <1>6, <1>7, <1>8 DEF MallocPartial
<1>10. SpanOK(s)
  BY <1>4 DEF Inv
<1>11. /\ fresh # {} /\ fresh \subseteq OfSpan(s) /\ limit \in 1 .. BlockCount
       /\ \A x \in OfSpan(s) : /\ x \in span[s].free => x \in fresh
                               /\ x \in fresh => x \in span[s].free \/ x[2] > span[s].limit
                               /\ x[2] > limit <=> x[2] > span[s].limit /\ x \notin fresh
                               /\ x \in fresh => x[2] <= limit
  BY <1>4, <1>5, <1>6, <1>10, FreshIs
<1>12. b \in fresh /\ b \in OfSpan(s) /\ b \in Block /\ OfSpan(s) \subseteq Block
  BY <1>7, <1>11, PickIsIn, BlocksAre
<1>13. /\ sp \in SpanType(s) /\ sp.heap = h /\ sp.free = {} /\ sp.limit = limit
       /\ sp.usedCount = limit /\ sp.deferred = span[s].deferred
       /\ sp.locked = span[s].locked /\ sp.listSize = span[s].listSize
  <2>1. sp = [heap |-> h, free |-> {}, limit |-> limit, usedCount |-> limit,
              deferred |-> span[s].deferred, locked |-> span[s].locked,
              listSize |-> span[s].listSize]
    BY <1>4, <1>8, <1>10 DEF SpanOK, SpanType
  <2>. QED
    BY <1>10, <1>11, <2>1, CountAssumption DEF SpanOK, SpanType
<1>14. /\ \A g \in Heap \ {h} : classFree'[g] = classFree[g]
       /\ classFree'[h] = fresh \ {b} /\ classFree' \in [Heap -> SUBSET Block]
  BY <1>9, <1>11, <1>12 DEF Inv, TypeOK
<1>15. PICK w \in {"idle", "extract"} :
         w = IF span[s].locked \/ span[s].deferred # {} THEN "extract" ELSE "idle"
  OBVIOUS
<1>16. PICK c : c = IF w = "extract" THEN b ELSE None
  OBVIOUS
<1>17. pc[t].at = "idle" /\ partial[h] \in Seq(Span) /\ IsInjective(partial[h])
  BY DEF Idle, Inv, TypeOK, ListsOK
<1>18. /\ span' = [span EXCEPT ![s] = sp] /\ Goto(t, w, c)
       /\ live' = live \cup (IF w = "idle" THEN {b} ELSE {})
       /\ partial' \in [Heap -> Seq(Span)] /\ full' \in [Heap -> Int]
       /\ \A g \in Heap \ {h} : partial'[g] = partial[g] /\ full'[g] = full[g]
       /\ IsInjective(partial'[h])
       /\ Range(partial'[h]) = (Range(partial[h]) \ {s})
            \cup (IF ~FullyUtilized(sp) \/ w = "extract" THEN {s} ELSE {})
       /\ full'[h] = full[h] + (IF FullyUtilized(sp) /\ w # "extract" THEN 1 ELSE 0)
       /\ w = "extract" => partial' = partial
  <2>1. CASE w = "extract"
    <3>1. /\ span' = [span EXCEPT ![s] = sp] /\ Goto(t, "extract", b)
          /\ partial' = partial /\ full' = full /\ live' = live
      BY <1>9, <1>15, <2>1
    <3>2. s \in Range(partial[h])
      BY <1>2, <1>3, <1>17, TailIs
    <3>3. partial \in [Heap -> Seq(Span)] /\ full \in [Heap -> Int]
      BY DEF Inv, TypeOK
    <3>. QED
      BY <1>16, <1>17, <2>1, <3>1, <3>2, <3>3
  <2>2. CASE w = "idle"
    <3>1. TakeFrom(t, s, sp, b) /\ partial[h] # <<>> /\ s = Head(partial[h]) /\ h = mine[t]
      BY <1>1, <1>2, <1>3, <1>9, <1>15, <2>2
    <3>2. /\ span' = [span EXCEPT ![s] = sp] /\ live' = live \cup {b} /\ Goto(t, "idle", None)
      BY <3>1 DEF TakeFrom
    <3>3. /\ partial' \in [Heap -> Seq(Span)] /\ full' \in [Heap -> Int]
          /\ \A g \in Heap \ {h} : partial'[g] = partial[g] /\ full'[g] = full[g]
          /\ IsInjective(partial'[h]) /\ s \in Range(partial[h])
          /\ FullyUtilized(sp) => Range(partial'[h]) = Range(partial[h]) \ {s}
          /\ ~FullyUtilized(sp) => Range(partial'[h]) = Range(partial[h])
      BY <3>1, TakeFromIs
    <3>4. /\ Range(partial'[h]) = (Range(partial[h]) \ {s})
               \cup (IF ~FullyUtilized(sp) THEN {s} ELSE {})
          /\ full'[h] = full[h] + (IF FullyUtilized(sp) THEN 1 ELSE 0)
      <4>1. full'[h] = full[h] + (IF FullyUtilized(sp) THEN 1 ELSE 0)
        BY <1>1, <3>1 DEF TakeFrom, Inv, TypeOK
      <4>. QED
        BY <3>3, <4>1
    <3>5. w # "extract" /\ c = None
      BY <1>16, <2>2
    <3>. QED
      BY <2>2, <3>2, <3>3, <3>4, <3>5
  <2>. QED
    BY <2>1, <2>2
<1>19. air' = air \cup (IF w = "extract" THEN {b} ELSE {}) /\ stored' = stored
  <2>1. /\ w \in PC /\ pc[t].at \notin Carrying /\ pc[t].at \notin Storing
        /\ (w \in Carrying <=> w = "extract") /\ w \notin Storing
    BY <1>15, <1>17 DEF PC, OnSpan, OnBlock, Carrying, Holding, Storing
  <2>2. /\ air' = (air \ (IF pc[t].at \in Carrying THEN {pc[t].b} ELSE {}))
                     \cup (IF w \in Carrying THEN {c} ELSE {})
        /\ stored' = (stored \ (IF pc[t].at \in Storing THEN {pc[t].b} ELSE {}))
                     \cup (IF w \in Storing THEN {c} ELSE {})
    BY <1>18, <2>1, AirMoves DEF Inv
  <2>. QED
    BY <1>16, <2>1, <2>2
<1>20. /\ DOMAIN span' = DOMAIN span /\ span'[s] = sp
  BY <1>4, <1>18 DEF Inv, TypeOK
<1>21. Back(s)' = Back(s)
  BY <1>13, <1>19, <1>20 DEF Back
<1>22. Places(s)
  BY <1>10 DEF SpanOK
<1>23. b \notin air
  <2>1. b[2] \in Nat /\ span[s].limit \in Nat
    BY <1>10, <1>12, OfSpanIs, CountAssumption DEF SpanOK, SpanType
  <2>2. b \in span[s].free \/ ~(b[2] <= span[s].limit)
    BY <1>11, <1>12, <2>1
  <2>. QED
    BY <1>12, <1>22, <2>2 DEF Places
<1>24. SpanOK(s)'
  <2>1. Places(s)'
    <3>. SUFFICES ASSUME NEW x \in OfSpan(s)
         PROVE /\ \/ x \in live' \/ x \in classFree'[h] \/ x \in sp.free
                  \/ x \in sp.deferred \/ x \in air' \/ x[2] > limit
               /\ x \in live' => /\ x \notin classFree'[h] /\ x \notin sp.free
                                 /\ x \notin sp.deferred /\ x \notin air' /\ x[2] <= limit
               /\ x \in classFree'[h] => /\ x \notin sp.free /\ x \notin sp.deferred
                                         /\ x \notin air' /\ x[2] <= limit
               /\ x \in sp.free => x \notin sp.deferred /\ x \notin air' /\ x[2] <= limit
               /\ x \in sp.deferred => x \notin air' /\ x[2] <= limit
               /\ x \in air' => x[2] <= limit
      BY <1>13, <1>20 DEF Places, OfSpan, Indices
    <3>1. x[2] \in Nat /\ limit \in Nat /\ span[s].limit \in Nat
      BY <1>11, OfSpanIs, <1>10, CountAssumption DEF SpanOK, SpanType
    <3>2. CASE x \in fresh
      <4>1. x \notin live /\ x \notin span[s].deferred /\ x \notin air
        BY <1>11, <1>22, <3>1, <3>2 DEF Places
      <4>. QED
        BY <1>11, <1>13, <1>14, <1>15, <1>18, <1>19, <3>1, <3>2, <4>1
    <3>3. CASE x \notin fresh
      <4>1. x # b /\ x \notin span[s].free /\ x \notin classFree[h] /\ x \notin classFree'[h]
        BY <1>2, <1>11, <1>12, <1>14, <3>3
      <4>2. /\ x \in live' <=> x \in live
            /\ x \in air' <=> x \in air
            /\ x[2] > limit <=> x[2] > span[s].limit
        BY <1>11, <1>18, <1>19, <3>3, <4>1
      <4>. QED
        BY <1>4, <1>13, <1>22, <3>1, <4>1, <4>2 DEF Places
    <3>. QED
      BY <3>2, <3>3
  <2>2. Counts(s)'
    <3>1. Cardinality(sp.free) = 0
      BY <1>13, FS_EmptySet
    <3>2. limit = limit - 0
      BY <1>11
    <3>. QED
      BY <1>10, <1>13, <1>20, <1>21, <3>1, <3>2 DEF SpanOK, Counts
  <2>3. span'[s] \in SpanType(s)'
    BY <1>13, <1>20 DEF SpanType
  <2>. QED
    BY <2>1, <2>2, <2>3 DEF SpanOK
<1>25. /\ \A u \in Thread \ {t} : pc'[u] = pc[u]
       /\ pc'[t].at = w /\ (w = "extract" => SpanOf(t)' = s)
  <2>1. pc'[t].at = w /\ pc'[t].b = c /\ \A u \in Thread \ {t} : pc'[u] = pc[u]
    BY <1>15, <1>18 DEF Inv, TypeOK, Goto
  <2>. QED
    BY <1>12, <1>16, <2>1, BlocksAre DEF SpanOf
<1>26. CallOK(t)'
  <2>1. CASE w = "idle"
    BY <1>25, <2>1, CallOff
  <2>2. CASE w = "extract"
    <3>1. partial'[h] # <<>> /\ Head(partial'[h]) = s /\ mine'[t] = h
      BY <1>1, <1>2, <1>3, <1>9, <1>18, <2>2
    <3>. QED
      BY <1>4, <1>13, <1>20, <1>25, <2>2, <3>1 DEF CallOK
  <2>. QED
    BY <2>1, <2>2
<1>27. \A u \in Thread \ {t} : SpanOf(u) = s => CallOK(u)'
  BY <1>2, <1>4, <1>13, <1>20, <1>21, <1>25, OthersKeep
<1>28. \A x \in Block : x \notin OfSpan(s) => /\ x \in classFree'[h] <=> x \in classFree[h]
                                              /\ x \in live' <=> x \in live
  BY <1>2, <1>11, <1>12, <1>14, <1>18
<1>29. live' \subseteq Block
  BY <1>12, <1>18 DEF Inv, TypeOK
<1>30. FinalOK' /\ Reclaimed'
  BY <1>2, <1>9, NotYetFinal
<1>31. \/ w = "idle" /\ c = None
       \/ w = "extract" /\ c \in OfSpan(s) /\ c \notin air /\ mine[t] # None
  BY <1>12, <1>15, <1>16, <1>23
<1>32. full'[h] = full[h] - (IF FullyUtilized(span[s]) /\ "idle" # "extract" THEN 1 ELSE 0)
                          + (IF FullyUtilized(sp) /\ w # "extract" THEN 1 ELSE 0)
  <2>1. full[h] \in Int
    BY DEF Inv, TypeOK
  <2>. QED
    BY <1>4, <1>18, <2>1
<1>33. ~(OfSpan(s) \subseteq sp.deferred)
  BY <1>4, <1>13
<1>34. PICK at : at = "idle" /\ at = pc[t].at
  BY <1>17
<1>35. PICK v \in {"idle", "extract", "sync"} : v = w
  OBVIOUS
<1>36. /\ Goto(t, v, c)
       /\ \/ v = "idle" /\ c = None
          \/ v = "extract" /\ c \in OfSpan(s) /\ c \notin air /\ mine[t] # None
          \/ v = "sync" /\ c = <<s>>
  BY <1>18, <1>31, <1>35
<1>37. /\ Range(partial'[h]) = (Range(partial[h]) \ {s})
            \cup (IF ~FullyUtilized(sp) \/ v = "extract" THEN {s} ELSE {})
       /\ full'[h] = full[h] - (IF FullyUtilized(span[s]) /\ at # "extract" THEN 1 ELSE 0)
                              + (IF FullyUtilized(sp) /\ v # "extract" THEN 1 ELSE 0)
  BY <1>18, <1>32, <1>34, <1>35
<1>38. /\ at = pc[t].at /\ at \in {"idle", "extract"} /\ (at = "extract" => SpanOf(t) = s)
       /\ sp.locked = span[s].locked /\ sp.heap = h /\ sp \in SpanType(s)
       /\ span' = [span EXCEPT ![s] = sp]
       /\ UNCHANGED <<pool, deferred, owner, orphans, mine, finalized>>
  BY <1>9, <1>13, <1>18, <1>34
<1>39. /\ partial' \in [Heap -> Seq(Span)] /\ full' \in [Heap -> Int]
       /\ \A g \in Heap \ {h} : partial'[g] = partial[g] /\ full'[g] = full[g]
       /\ IsInjective(partial'[h])
  BY <1>18
<1>40. /\ classFree' \in [Heap -> SUBSET Block]
       /\ \A g \in Heap \ {h} : classFree'[g] = classFree[g]
  BY <1>14
<1>. QED
  BY <1>2, <1>4, <1>24, <1>26, <1>27, <1>28, <1>29, <1>30, <1>33, <1>36, <1>37, <1>38,
     <1>39, <1>40, OwnerInv, ZenonT(40)---------------------------------------------------------------------------

(* While a deferred list is not locked, what list_size counts is in it.    *)
LEMMA NobodyInside ==
  ASSUME Inv, NEW s \in DOMAIN span, ~span[s].locked
  PROVE  /\ \A u \in Thread : pc[u].at \in Holding => SpanOf(u) # s
         /\ stored \cap OfSpan(s) = {} /\ Back(s) = span[s].deferred
<1>1. \A u \in Thread : pc[u].at \in Holding => SpanOf(u) # s
  BY DEF Inv, LocksOK
<1>2. ASSUME NEW u \in Thread, pc[u].at \in Storing, pc[u].b \in OfSpan(s) PROVE FALSE
  <2>1. pc[u].at \in Holding /\ pc[u].at \in Carrying
    BY <1>2, Kinds
  <2>2. SpanOf(u) = s
    <3>1. s \in Span
      BY DEF Inv, TypeOK
    <3>. QED
      BY <1>2, <3>1, OfSpanIs DEF SpanOf
  <2>. QED
    BY <1>1, <2>1, <2>2
<1>3. stored \cap OfSpan(s) = {}
  BY <1>2 DEF stored
<1>. QED
  BY <1>1, <1>3 DEF Back

(* The blocks that others freed come back to the span.                     *)
LEMMA ExtractInv ==
  ASSUME Inv, NEW t \in Thread, Extract(t)
  PROVE  Inv'
<1>1. PICK s : s = SpanOf(t)
  OBVIOUS
<1>2. PICK b : b = pc[t].b
  OBVIOUS
<1>3. PICK sp : sp = Extracted(span[s])
  OBVIOUS
<1>4. /\ pc[t].at = "extract" /\ ~span[s].locked /\ TakeFrom(t, s, sp, b)
      /\ UNCHANGED <<pool, classFree, deferred, owner, orphans, mine, finalized>>
  BY <1>1, <1>2, <1>3 DEF Extract, At
<1>5. pc[t].at \in Carrying
  BY <1>4 DEF Carrying
<1>6. /\ b \in Block /\ s = b[1] /\ s \in DOMAIN span /\ s \in Span /\ SpanOK(s)
      /\ b \in OfSpan(s) /\ b \in air /\ b \notin span[s].deferred /\ ~finalized
      /\ b \notin live /\ b[2] <= span[s].limit
  BY <1>1, <1>2, <1>5, Carrier
<1>7. PICK h \in Heap : h = mine[t]
  BY <1>4 DEF Inv, TypeOK, OwnersOK
<1>8. /\ span[s].heap = h /\ span[s].free = {} /\ partial[h] # <<>> /\ s = Head(partial[h])
  BY <1>1, <1>4, <1>7 DEF Inv, CallsOK, CallOK
<1>9. AloneOn(h, t)
  BY <1>7, AloneIs
<1>10. \A u \in Thread : pc[u].at \in Holding => SpanOf(u) # s
  BY <1>4, <1>6, NobodyInside
<1>11. stored \cap OfSpan(s) = {}
  BY <1>4, <1>6, NobodyInside
<1>12. /\ sp \in SpanType(s) /\ sp.heap = h /\ sp.free = span[s].deferred
       /\ sp.limit = span[s].limit /\ sp.usedCount = span[s].usedCount - span[s].listSize
       /\ sp.deferred = {} /\ sp.locked = span[s].locked /\ sp.listSize = 0
  <2>1. span[s] \in SpanType(s)
    BY <1>6 DEF SpanOK
  <2>2. sp = [heap |-> span[s].heap, free |-> span[s].deferred, limit |-> span[s].limit,
              usedCount |-> span[s].usedCount - span[s].listSize, deferred |-> {},
              locked |-> span[s].locked, listSize |-> 0]
    BY <1>3, <2>1 DEF Extracted, SpanType
  <2>. QED
    BY <1>8, <2>1, <2>2 DEF SpanType
<1>13. span' = [span EXCEPT ![s] = sp] /\ live' = live \cup {b} /\ Goto(t, "idle", None)
  BY <1>4 DEF TakeFrom
<1>14. /\ partial' \in [Heap -> Seq(Span)] /\ full' \in [Heap -> Int]
       /\ \A g \in Heap \ {h} : partial'[g] = partial[g] /\ full'[g] = full[g]
       /\ IsInjective(partial'[h]) /\ s \in Range(partial[h])
       /\ FullyUtilized(sp) => Range(partial'[h]) = Range(partial[h]) \ {s}
       /\ ~FullyUtilized(sp) => Range(partial'[h]) = Range(partial[h])
  <2>1. TakeFrom(t, s, sp, b) /\ h = mine[t] /\ partial[h] # <<>> /\ s = Head(partial[h])
    BY <1>4, <1>7, <1>8
  <2>. QED
    BY <1>6, <2>1, TakeFromIs
<1>15. DOMAIN span' = DOMAIN span /\ span'[s] = sp
  BY <1>6, <1>13 DEF Inv, TypeOK
<1>16. air' = air \ {b} /\ stored' = stored
  <2>1. /\ "idle" \in PC /\ pc[t].at \notin Storing
        /\ "idle" \notin Carrying /\ "idle" \notin Storing
    BY <1>4 DEF PC, OnSpan, OnBlock, Carrying, Holding, Storing
  <2>2. /\ air' = (air \ (IF pc[t].at \in Carrying THEN {pc[t].b} ELSE {}))
                     \cup (IF "idle" \in Carrying THEN {None} ELSE {})
        /\ stored' = (stored \ (IF pc[t].at \in Storing THEN {pc[t].b} ELSE {}))
                     \cup (IF "idle" \in Storing THEN {None} ELSE {})
    BY <1>13, <2>1, AirMoves DEF Inv
  <2>. QED
    BY <1>2, <1>5, <2>1, <2>2
<1>17. Back(s) = span[s].deferred /\ Back(s)' = {}
  BY <1>11, <1>12, <1>15, <1>16 DEF Back, OfSpan, Indices
<1>18. SpanOK(s)'
  <2>1. Places(s)'
    <3>1. Places(s)
      BY <1>6 DEF SpanOK
    <3>2. b \notin classFree[h]
      BY <1>6, <1>8, <3>1 DEF Places
    <3>. QED
      BY <1>4, <1>6, <1>8, <1>12, <1>13, <1>15, <1>16, <3>1, <3>2 DEF Places
  <2>2. Counts(s)'
    <3>1. Cardinality({}) = 0
      BY FS_EmptySet
    <3>2. /\ span[s].usedCount = span[s].limit - 0
          /\ span[s].listSize = Cardinality(span[s].deferred)
      BY <1>6, <1>8, <1>17, <3>1 DEF SpanOK, Counts
    <3>3. span[s].limit \in Int
      BY <1>6 DEF SpanOK, SpanType
    <3>4. sp.usedCount = sp.limit - Cardinality(sp.free)
      BY <1>12, <3>2, <3>3
    <3>. QED
      BY <1>12, <1>15, <1>17, <3>1, <3>4 DEF Counts
  <2>3. span'[s] \in SpanType(s)'
    BY <1>12, <1>15 DEF SpanType
  <2>. QED
    BY <2>1, <2>2, <2>3 DEF SpanOK
<1>19. /\ \A u \in Thread \ {t} : pc'[u] = pc[u]
       /\ pc'[t].at = "idle"
  BY <1>13 DEF Inv, TypeOK, Goto
<1>20. CallOK(t)'
  BY <1>19, CallOff
<1>21. ASSUME NEW u \in Thread \ {t}, SpanOf(u) = s PROVE CallOK(u)'
  <2>1. pc[u].at \notin Storing
    BY <1>10, <1>21, Kinds
  <2>2. pc[u].at # "push"
    BY <1>6, <1>21 DEF Inv, CallsOK, CallOK
  <2>. QED
    BY <1>6, <1>8, <1>9, <1>15, <1>19, <1>21, <2>1, <2>2, OthersKeep
<1>22. FinalOK' /\ Reclaimed'
  BY <1>4, <1>6, NotYetFinal
<1>23. PICK w \in {"idle", "extract", "sync"} : w = "idle"
  OBVIOUS
<1>24. PICK at : at = "extract" /\ at = pc[t].at
  BY <1>4
<1>25. PICK c : c = None
  OBVIOUS
<1>26. /\ Goto(t, w, c) /\ at \in {"idle", "extract"} /\ (at = "extract" => SpanOf(t) = s)
       /\ \/ w = "idle" /\ c = None
          \/ w = "extract" /\ c \in OfSpan(s) /\ c \notin air /\ mine[t] # None
          \/ w = "sync" /\ c = <<s>>
  BY <1>1, <1>13, <1>23, <1>24, <1>25
<1>27. Range(partial'[h]) = (Range(partial[h]) \ {s})
         \cup (IF ~FullyUtilized(sp) \/ w = "extract" THEN {s} ELSE {})
  BY <1>14, <1>23
<1>28. full'[h] = full[h] - (IF FullyUtilized(span[s]) /\ at # "extract" THEN 1 ELSE 0)
                          + (IF FullyUtilized(sp) /\ w # "extract" THEN 1 ELSE 0)
  <2>1. full'[h] = full[h] + (IF FullyUtilized(sp) THEN 1 ELSE 0) /\ full[h] \in Int
    BY <1>4, <1>7 DEF TakeFrom, Inv, TypeOK
  <2>. QED
    BY <1>23, <1>24, <2>1
<1>29. ~(OfSpan(s) \subseteq span[s].deferred) /\ ~(OfSpan(s) \subseteq sp.deferred)
  BY <1>6, <1>12
<1>30. /\ live' \subseteq Block /\ classFree' \in [Heap -> SUBSET Block]
       /\ \A g \in Heap \ {h} : classFree'[g] = classFree[g]
       /\ \A x \in Block : x \notin OfSpan(s) => /\ x \in classFree'[h] <=> x \in classFree[h]
                                                 /\ x \in live' <=> x \in live
  BY <1>4, <1>6, <1>13 DEF Inv, TypeOK
<1>31. /\ sp \in SpanType(s) /\ sp.heap = h /\ sp.locked = span[s].locked
       /\ span' = [span EXCEPT ![s] = sp] /\ span[s].heap = h /\ s \in DOMAIN span
       /\ UNCHANGED <<pool, deferred, owner, orphans, mine, finalized>>
  BY <1>4, <1>6, <1>8, <1>12, <1>13
<1>32. /\ partial' \in [Heap -> Seq(Span)] /\ full' \in [Heap -> Int]
       /\ \A g \in Heap \ {h} : partial'[g] = partial[g] /\ full'[g] = full[g]
       /\ IsInjective(partial'[h])
  BY <1>14
<1>. QED
  BY <1>9, <1>18, <1>20, <1>21, <1>22, <1>24, <1>26, <1>27, <1>28, <1>29, <1>30, <1>31, <1>32,
     OwnerInv
-----------------------------------------------------------------------------

(* A new span goes to a size class that has nothing left.                  *)
LEMMA NewSpanInv ==
  ASSUME Inv, NEW t \in Thread, pc[t].at \in {"idle", "new"}, mine[t] # None,
         classFree[mine[t]] = {}, NewSpan(t)
  PROVE  Inv'
<1>1. PICK h \in Heap : h = mine[t]
  BY DEF Inv, TypeOK
<1>2. AloneOn(h, t) /\ ~finalized /\ classFree[h] = {}
  BY <1>1, AloneIs
<1>3. Goto(t, "idle", None) /\ UNCHANGED <<deferred, owner, orphans, mine, finalized>>
  BY DEF NewSpan
<1>4. OwnersOK'
  BY <1>3, OwnersKeep DEF PC
<1>5. CASE pool = {}
  <2>1. UNCHANGED <<span, pool, heaps, live, finalized>>
    BY <1>3, <1>5 DEF NewSpan, heaps
  <2>2. /\ owner' \in [Heap -> Thread \cup {None}]
        /\ mine' \in [Thread -> Heap \cup {None}] /\ orphans' \in Seq(Heap)
        /\ owner' = owner /\ mine' = mine
    BY <1>3 DEF Inv, TypeOK
  <2>. QED
    BY <1>2, <1>3, <1>4, <2>1, <2>2, QuietInv
<1>6. CASE pool # {}
  <2>1. pool = Span \ DOMAIN span /\ pool \in SUBSET Nat
    BY DEF Inv, TypeOK, Span
  <2>2. PICK s \in Span : s = Min(pool) /\ s \notin DOMAIN span /\ s \in pool
    BY <1>6, <2>1, MinIsIn
  <2>3. PICK page : page = PageOf(s, 1)
    OBVIOUS
  <2>4. PICK n : n = Cardinality(page)
    OBVIOUS
  <2>5. /\ page \subseteq OfSpan(s) /\ page # {} /\ n \in 1 .. BlockCount
        /\ \A x \in OfSpan(s) : /\ x[2] \in Nat
                                /\ x \in page <=> x[2] <= n
    <3>1. PICK from \in 1 .. BlockCount : from = 1
      BY CountAssumption
    <3>2. /\ page \subseteq OfSpan(s) /\ page # {}
          /\ from - 1 + n \in from .. BlockCount
          /\ \A x \in OfSpan(s) : x \in page <=> from <= x[2] /\ x[2] <= from - 1 + n
      BY <2>3, <2>4, <3>1, PageIs
    <3>3. n \in Nat
      <4>1. IsFiniteSet(page)
        BY <3>2, OfSpanIs, FS_Subset
      <4>. QED
        BY <2>4, <4>1, FS_CardinalityType
    <3>4. \A x \in OfSpan(s) : x[2] \in Nat /\ 1 <= x[2]
      BY OfSpanIs, CountAssumption
    <3>. QED
      BY <3>1, <3>2, <3>3, <3>4, CountAssumption
  <2>6. PICK b : b = Pick(page)
    OBVIOUS
  <2>7. b \in page /\ b \in OfSpan(s) /\ b \in Block /\ OfSpan(s) \subseteq Block
    BY <2>5, <2>6, PickIsIn, BlocksAre
  <2>8. PICK sp : sp = [heap |-> h, free |-> {}, limit |-> n, usedCount |-> n,
                        deferred |-> {}, locked |-> FALSE, listSize |-> 0]
    OBVIOUS
  <2>9. /\ sp \in SpanType(s) /\ sp.heap = h /\ sp.free = {} /\ sp.limit = n /\ sp.usedCount = n
        /\ sp.deferred = {} /\ ~sp.locked /\ sp.listSize = 0
        /\ FullyUtilized(sp) <=> ~(n < BlockCount)
    BY <2>5, <2>8, CountAssumption DEF SpanType, FullyUtilized
  <2>10. /\ span' = [x \in DOMAIN span \cup {s} |-> IF x = s THEN sp ELSE span[x]]
         /\ pool' = pool \ {s} /\ classFree' = [classFree EXCEPT ![h] = page \ {b}]
         /\ live' = live \cup {b}
         /\ IF n < BlockCount
            THEN partial' = [partial EXCEPT ![h] = <<s>> \o @] /\ UNCHANGED full
            ELSE full' = [full EXCEPT ![h] = @ + 1] /\ UNCHANGED partial
    BY <1>1, <1>6, <2>2, <2>3, <2>4, <2>6, <2>8 DEF NewSpan
  <2>11. /\ DOMAIN span' = DOMAIN span \cup {s} /\ span'[s] = sp
         /\ \A x \in DOMAIN span : x # s /\ span'[x] = span[x]
         /\ span' = [x \in DOMAIN span' |-> span'[x]]
    BY <2>2, <2>10
  <2>12. /\ \A g \in Heap : classFree'[g] = IF g = h THEN page \ {b} ELSE classFree[g]
         /\ classFree' \in [Heap -> SUBSET Block] /\ live' \subseteq Block
    BY <2>5, <2>7, <2>10 DEF Inv, TypeOK
  <2>13. \A x \in OfSpan(s) : /\ x \notin live /\ x \notin air /\ x \notin stored
                              /\ \A g \in Heap : x \notin classFree[g]
    <3>1. \A x \in OfSpan(s) : x \in Block /\ x[1] = s
      BY OfSpanIs
    <3>. QED
      BY <2>2, <3>1, BlocksInAir DEF Inv, Rooted
  <2>14. /\ "idle" \in PC /\ "idle" \notin Carrying /\ "idle" \notin Holding
         /\ "idle" \notin Storing /\ "idle" \notin OnSpan
         /\ pc[t].at \notin Carrying /\ pc[t].at \notin Storing /\ pc[t].at \notin Holding
         /\ pc[t].at # "push" /\ pc[t].at # "extract" /\ pc[t].at # "own"
    BY OffSpan DEF PC
  <2>15. air' = air /\ stored' = stored /\ taken' = taken /\ pushed' = pushed
    <3>1. air' = air /\ stored' = stored
      BY <1>3, <2>14, AirMoves DEF Inv
    <3>2. taken' = taken /\ pushed' = pushed
      <4>1. /\ taken' = (taken \ (IF pc[t].at = "extract" THEN {SpanOf(t)} ELSE {}))
                         \cup (IF "idle" = "extract" THEN {None[1]} ELSE {})
            /\ pushed' = (pushed \ (IF pc[t].at = "push" THEN {SpanOf(t)} ELSE {}))
                         \cup (IF "idle" = "push" THEN {None[1]} ELSE {})
        BY <1>3, <2>14, ListsMove DEF Inv
      <4>. QED
        BY <2>14, <4>1
    <3>. QED
      BY <3>1, <3>2
  <2>16. /\ partial' \in [Heap -> Seq(Span)] /\ full' \in [Heap -> Int]
         /\ \A g \in Heap \ {h} : partial'[g] = partial[g] /\ full'[g] = full[g]
         /\ IsInjective(partial'[h])
         /\ n < BlockCount => Range(partial'[h]) = Range(partial[h]) \cup {s} /\ full' = full
         /\ ~(n < BlockCount) => partial' = partial /\ full'[h] = full[h] + 1
    <3>1. /\ partial \in [Heap -> Seq(Span)] /\ full \in [Heap -> Int] /\ partial[h] \in Seq(Span)
          /\ IsInjective(partial[h]) /\ s \notin Range(partial[h])
      BY <2>2 DEF Inv, TypeOK, ListsOK, Partly
    <3>2. <<s>> \o partial[h] \in Seq(Span) /\ IsInjective(<<s>> \o partial[h])
          /\ Range(<<s>> \o partial[h]) = Range(partial[h]) \cup {s}
      BY <3>1, ConsIs
    <3>3. CASE n < BlockCount
      <4>1. partial' = [partial EXCEPT ![h] = <<s>> \o @] /\ full' = full
        BY <2>10, <3>3
      <4>. QED
        BY <3>1, <3>2, <3>3, <4>1
    <3>4. CASE ~(n < BlockCount)
      <4>1. full' = [full EXCEPT ![h] = @ + 1] /\ partial' = partial
        BY <2>10, <3>4
      <4>. QED
        BY <3>1, <3>4, <4>1
    <3>. QED
      BY <3>3, <3>4
  <2>17. TypeOK'
    <3>1. \A x \in DOMAIN span' : span'[x] \in SpanType(x)'
      BY <2>9, <2>11 DEF Inv, TypeOK, SpanType
    <3>2. pool' = Span \ DOMAIN span' /\ DOMAIN span' \subseteq Span
      <4>1. DOMAIN span \subseteq Span /\ pool = Span \ DOMAIN span /\ pool' = pool \ {s}
        BY <2>10 DEF Inv, TypeOK
      <4>. QED
        BY <2>11, <4>1
    <3>3. /\ pc' \in [Thread -> [at : PC, b : Block \cup {<<x>> : x \in Span} \cup {None}]]
          /\ \A u \in Thread :
               /\ pc'[u].at \in OnBlock => pc'[u].b \in Block
               /\ pc'[u].at = "sync" => \E x \in Span : pc'[u].b = <<x>>
      BY <1>3, <2>14, GotoType DEF Inv
    <3>. QED
      BY <1>3, <2>11, <2>12, <2>16, <3>1, <3>2, <3>3 DEF Inv, TypeOK
  <2>18. ASSUME NEW x \in DOMAIN span PROVE SpanOK(x)' /\ Back(x)' = Back(x)
    <3>1. SpanOK(x) /\ span'[x] = span[x] /\ x # s /\ x \in Span /\ span[x].heap \in Heap
      BY <2>11 DEF Inv, TypeOK, SpanType
    <3>2. \A y \in OfSpan(x) : y \notin OfSpan(s)
      BY <3>1, OfSpanIs
    <3>3. live' \cap OfSpan(x) = live \cap OfSpan(x)
      BY <2>7, <2>10, <3>2
    <3>4. classFree'[span[x].heap] \cap OfSpan(x) = classFree[span[x].heap] \cap OfSpan(x)
      BY <1>2, <2>5, <2>12, <3>1, <3>2
    <3>. QED
      BY <2>15, <3>1, <3>3, <3>4, SpanKeeps
  <2>19. SpanOK(s)'
    <3>1. Back(s)' = {}
      BY <2>9, <2>11, <2>13, <2>15 DEF Back, OfSpan, Indices
    <3>2. Places(s)'
      <4>1. \A x \in OfSpan(s) : /\ x \in live' <=> x = b
                                 /\ x \in classFree'[h] <=> x \in page /\ x # b
                                 /\ x \notin air'
                                 /\ x \in page <=> x[2] <= n
                                 /\ ~(x[2] <= n) <=> x[2] > n
        BY <2>5, <2>10, <2>12, <2>13, <2>15
      <4>2. OfSpan(s)' = OfSpan(s)
        BY DEF OfSpan, Indices
      <4>. QED
        BY <2>7, <2>9, <2>11, <4>1, <4>2 DEF Places
    <3>3. Counts(s)'
      <4>1. Cardinality({}) = 0 /\ n = n - 0
        BY <2>5, FS_EmptySet
      <4>. QED
        BY <2>9, <2>11, <3>1, <4>1 DEF Counts
    <3>4. span'[s] \in SpanType(s)'
      BY <2>9, <2>11 DEF SpanType
    <3>. QED
      BY <3>2, <3>3, <3>4 DEF SpanOK
  <2>20. Rooted'
    <3>1. \A x \in Block : x \in live' => x[1] \in DOMAIN span'
      BY <2>2, <2>7, <2>10, <2>11, BlocksAre DEF Inv, Rooted
    <3>2. \A g \in Heap : \A x \in classFree'[g] : x[1] \in DOMAIN span' /\ span'[x[1]].heap = g
      <4>. SUFFICES ASSUME NEW g \in Heap, NEW x \in classFree'[g]
                    PROVE  x[1] \in DOMAIN span' /\ span'[x[1]].heap = g
        OBVIOUS
      <4>1. CASE g = h
        <5>1. x \in OfSpan(s)
          BY <2>5, <2>12, <4>1
        <5>. QED
          BY <2>9, <2>11, <4>1, <5>1, OfSpanIs
      <4>2. CASE g # h
        BY <2>11, <2>12, <4>2 DEF Inv, Rooted
      <4>. QED
        BY <4>1, <4>2
    <3>. QED
      BY <2>12, <3>1, <3>2 DEF Rooted
  <2>21. LocksOK'
    <3>1. \A x \in DOMAIN span' : IF x \in DOMAIN span THEN span'[x].locked = span[x].locked
                                                      ELSE ~span'[x].locked
      BY <2>2, <2>9, <2>11
    <3>. QED
      BY <1>3, <2>14, <3>1, LocksKeep
  <2>22. ASSUME NEW u \in Thread PROVE CallOK(u)'
    <3>1. CASE u = t
      BY <1>3, <2>14, <3>1, Moves, CallOff DEF Inv
    <3>2. CASE u # t
      <4>1. pc'[u] = pc[u] /\ mine'[u] = mine[u] /\ CallOK(u)
        BY <1>3, <3>2 DEF Inv, CallsOK, TypeOK, Goto
      <4>2. PICK x : x = SpanOf(u)
        OBVIOUS
      <4>3. pc[u].at \in OnSpan => x \in DOMAIN span
        BY <4>1, <4>2 DEF CallOK
      <4>4. pc[u].at = "extract" => partial'[mine[u]] = partial[mine[u]]
        <5>1. pc[u].at = "extract" => mine[u] \in Heap /\ mine[u] # h
          BY <1>1, <3>2, HeapAssumption DEF Inv, TypeOK, OwnersOK
        <5>. QED
          BY <2>16, <5>1
      <4>5. pc[u].at = "sync" => owner'[span[x].heap] = owner[span[x].heap]
        BY <1>3
      <4>. QED
        BY <1>3, <2>11, <2>18, <4>1, <4>2, <4>3, <4>4, <4>5, CallSame
    <3>. QED
      BY <3>1, <3>2
  <2>23. ListsOK'
    <3>1. s \notin taken
      <4>. SUFFICES ASSUME NEW u \in Thread, pc[u].at = "extract", SpanOf(u) = s PROVE FALSE
        BY DEF taken
      <4>1. pc[u].at \in OnSpan
        BY DEF OnSpan, OnBlock, Carrying
      <4>. QED
        BY <2>2, <4>1 DEF Inv, CallsOK, CallOK
    <3>2. ASSUME NEW g \in Heap
          PROVE  /\ Partly(g)' = Partly(g) \cup (IF g = h /\ n < BlockCount THEN {s} ELSE {})
                 /\ Fully(g)' = Fully(g) \cup (IF g = h /\ ~(n < BlockCount) THEN {s} ELSE {})
                 /\ Given(g)' = Given(g)
      <4>1. Partly(g)' = {x \in DOMAIN span' :
                            span'[x].heap = g /\ (~FullyUtilized(span'[x]) \/ x \in taken')}
        BY DEF Partly, FullyUtilized
      <4>2. Fully(g)' = {x \in DOMAIN span' :
                           span'[x].heap = g /\ FullyUtilized(span'[x]) /\ x \notin taken'}
        BY DEF Fully, FullyUtilized
      <4>3. Given(g)' = {x \in DOMAIN span' : span'[x].heap = g /\ x \notin pushed'
                                              /\ OfSpan(x) \subseteq span'[x].deferred}
        BY DEF Given, OfSpan, Indices
      <4>4. Partly(g)' = Partly(g) \cup (IF g = h /\ n < BlockCount THEN {s} ELSE {})
        BY <2>9, <2>11, <2>15, <3>1, <4>1 DEF Partly
      <4>5. Fully(g)' = Fully(g) \cup (IF g = h /\ ~(n < BlockCount) THEN {s} ELSE {})
        BY <2>9, <2>11, <2>15, <3>1, <4>2 DEF Fully
      <4>6. ~(OfSpan(s) \subseteq sp.deferred)
        BY <2>7, <2>9
      <4>7. Given(g)' = Given(g)
        BY <2>11, <2>15, <4>3, <4>6 DEF Given
      <4>. QED
        BY <4>4, <4>5, <4>7
    <3>3. IsFiniteSet(Fully(h)) /\ s \notin Fully(h)
      BY <2>2, SpansFinite DEF Fully, Inv, TypeOK
    <3>4. Cardinality(Fully(h) \cup {s}) = Cardinality(Fully(h)) + 1
      BY <3>3, FS_AddElement
    <3>5. \A g \in Heap : /\ IsInjective(partial[g]) /\ Range(partial[g]) = Partly(g)
                          /\ full[g] = Cardinality(Fully(g)) /\ deferred[g] = Given(g)
      BY DEF Inv, ListsOK
    <3>6. ASSUME NEW g \in Heap
          PROVE  /\ IsInjective(partial'[g]) /\ Range(partial'[g]) = Partly(g)'
                 /\ full'[g] = Cardinality(Fully(g)') /\ deferred'[g] = Given(g)'
      <4>1. deferred'[g] = Given(g)'
        BY <1>3, <3>2, <3>5
      <4>2. CASE g # h
        <5>1. Partly(g)' = Partly(g) /\ Fully(g)' = Fully(g)
          BY <3>2, <4>2
        <5>. QED
          BY <2>16, <3>5, <4>1, <4>2, <5>1
      <4>3. CASE g = h /\ n < BlockCount
        <5>1. Partly(h)' = Partly(h) \cup {s} /\ Fully(h)' = Fully(h)
          BY <3>2, <4>3
        <5>. QED
          BY <2>16, <3>5, <4>1, <4>3, <5>1
      <4>4. CASE g = h /\ ~(n < BlockCount)
        <5>1. Partly(h)' = Partly(h) /\ Fully(h)' = Fully(h) \cup {s}
          BY <3>2, <4>4
        <5>. QED
          BY <2>16, <3>4, <3>5, <4>1, <4>4, <5>1
      <4>. QED
        BY <4>2, <4>3, <4>4
    <3>. QED
      BY <3>6 DEF ListsOK
  <2>24. \A x \in DOMAIN span' : SpanOK(x)'
    BY <2>11, <2>18, <2>19
  <2>. QED
    BY <1>2, <1>3, <1>4, <2>17, <2>20, <2>21, <2>22, <2>23, <2>24, NotYetFinal DEF Inv, CallsOK
<1>. QED
  BY <1>5, <1>6
-----------------------------------------------------------------------------

(* A thread takes a block back from the program, to put it on a deferred   *)
(* list.                                                                   *)
LEMMA FreeRemoteInv ==
  ASSUME Inv, ~finalized, NEW t \in Thread, pc[t] = Idle, NEW b \in live,
         Goto(t, "lock", b), live' = live \ {b},
         UNCHANGED <<span, pool, heaps, owner, orphans, mine, finalized>>
  PROVE  Inv'
<1>1. UNCHANGED <<classFree, partial, full, deferred>>
  BY DEF heaps
<1>2. PICK s \in DOMAIN span : s = b[1] /\ s \in Span /\ b \in Block /\ b \in OfSpan(s)
  BY BlocksAre DEF Inv, Rooted, TypeOK
<1>3. SpanOK(s) /\ Places(s) /\ b \notin air
  BY <1>2 DEF Inv, SpanOK, Places
<1>4. /\ pc[t].at = "idle" /\ "lock" \in PC /\ "lock" \in Carrying /\ "lock" \notin Holding
      /\ "lock" \notin Storing /\ "lock" \in OnBlock
      /\ pc[t].at \notin Carrying /\ pc[t].at \notin Storing /\ pc[t].at \notin Holding
  BY DEF Idle, PC, OnSpan, OnBlock, Carrying, Holding, Storing
<1>5. air' = air \cup {b} /\ stored' = stored
  BY <1>4, AirMoves DEF Inv
<1>6. taken' = taken /\ pushed' = pushed
  <2>1. /\ taken' = (taken \ (IF pc[t].at = "extract" THEN {SpanOf(t)} ELSE {}))
                     \cup (IF "lock" = "extract" THEN {b[1]} ELSE {})
        /\ pushed' = (pushed \ (IF pc[t].at = "push" THEN {SpanOf(t)} ELSE {}))
                     \cup (IF "lock" = "push" THEN {b[1]} ELSE {})
    BY <1>4, ListsMove DEF Inv
  <2>. QED
    BY <1>4, <2>1
<1>7. TypeOK'
  <2>1. /\ pc' \in [Thread -> [at : PC, b : Block \cup {<<x>> : x \in Span} \cup {None}]]
        /\ \A u \in Thread :
             /\ pc'[u].at \in OnBlock => pc'[u].b \in Block
             /\ pc'[u].at = "sync" => \E x \in Span : pc'[u].b = <<x>>
    BY <1>2, <1>4, GotoType DEF Inv
  <2>2. pool' = Span \ DOMAIN span' /\ \A x \in DOMAIN span' : span'[x] \in SpanType(x)'
    BY DEF Inv, TypeOK, SpanType
  <2>. QED
    BY <1>1, <2>1, <2>2 DEF Inv, TypeOK
<1>8. ASSUME NEW x \in DOMAIN span PROVE SpanOK(x)' /\ Back(x)' = Back(x)
  <2>1. SpanOK(x) /\ x \in Span
    BY DEF Inv, TypeOK
  <2>2. CASE x # s
    <3>1. b \notin OfSpan(x)
      BY <1>2, <2>1, <2>2, OfSpanIs
    <3>. QED
      BY <1>1, <1>5, <2>1, <3>1, SpanKeeps
  <2>3. CASE x = s
    <3>1. Places(s)'
      BY <1>1, <1>2, <1>3, <1>5 DEF Places
    <3>2. Back(s)' = Back(s)
      BY <1>5 DEF Back
    <3>3. Counts(s)'
      BY <1>3, <3>2 DEF SpanOK, Counts
    <3>4. span'[s] \in SpanType(s)'
      BY <1>3 DEF SpanOK, SpanType
    <3>. QED
      BY <2>3, <3>1, <3>2, <3>3, <3>4 DEF SpanOK
  <2>. QED
    BY <2>2, <2>3
<1>9. Rooted'
  BY <1>1 DEF Inv, Rooted
<1>10. OwnersOK'
  BY <1>4, OwnersKeep
<1>11. LocksOK'
  BY <1>3, <1>4, LocksKeep
<1>12. ASSUME NEW u \in Thread PROVE CallOK(u)'
  <2>1. CASE u = t
    <3>1. pc'[u].at = "lock" /\ SpanOf(u)' = s
      BY <1>2, <1>4, <2>1, Moves DEF Inv
    <3>. QED
      BY <1>2, <3>1 DEF CallOK
  <2>2. CASE u # t
    <3>1. pc'[u] = pc[u] /\ mine'[u] = mine[u] /\ CallOK(u)
      BY <2>2 DEF Inv, CallsOK, TypeOK, Goto
    <3>2. PICK x : x = SpanOf(u)
      OBVIOUS
    <3>3. pc[u].at \in OnSpan => x \in DOMAIN span
      BY <3>1, <3>2 DEF CallOK
    <3>. QED
      BY <1>1, <1>8, <3>1, <3>2, <3>3, CallSame
  <2>. QED
    BY <2>1, <2>2
<1>13. ListsOK'
  <2>1. \A h \in Heap : Partly(h)' = Partly(h) /\ Fully(h)' = Fully(h) /\ Given(h)' = Given(h)
    BY <1>6 DEF Partly, Fully, Given
  <2>. QED
    BY <1>1, <2>1, ListsKeep DEF Inv
<1>. QED
  BY <1>7, <1>8, <1>9, <1>10, <1>11, <1>12, <1>13, NotYetFinal DEF Inv, CallsOK
-----------------------------------------------------------------------------

(* A span goes when no block of it is left outside its own lists and no    *)
(* other thread is at work on it.                                          *)
LEMMA ReleaseInv ==
  ASSUME Inv, NEW t \in Thread, NEW h \in Heap, AloneOn(h, t),
         NEW s \in DOMAIN span, span[s].heap = h,
         pc[t].at \in {"idle", "sync"}, pc[t].at = "sync" => SpanOf(t) = s, Goto(t, "idle", None),
         \A u \in Thread \ {t} : pc[u].at \in OnSpan => SpanOf(u) # s,
         live' \subseteq live, \A b \in live : b \notin OfSpan(s) => b \in live',
         \A b \in OfSpan(s) : b \notin live' /\ b \notin classFree[h],
         ~(OfSpan(s) \subseteq span[s].deferred),
         span' = [x \in DOMAIN span \ {s} |-> span[x]], pool' = pool \cup {s},
         UNCHANGED <<classFree, deferred, owner, orphans, mine, finalized>>,
         partial' \in [Heap -> Seq(Span)], full' \in [Heap -> Int],
         \A g \in Heap \ {h} : partial'[g] = partial[g] /\ full'[g] = full[g],
         IsInjective(partial'[h]), Range(partial'[h]) = Range(partial[h]) \ {s},
         full'[h] = full[h] - (IF FullyUtilized(span[s]) THEN 1 ELSE 0)
  PROVE  Inv'
<1>1. s \in Span
  BY DEF Inv, TypeOK
<1>2. /\ DOMAIN span' = DOMAIN span \ {s} /\ span' = [x \in DOMAIN span' |-> span'[x]]
      /\ \A x \in DOMAIN span' : span'[x] = span[x] /\ x \in DOMAIN span /\ x # s
  OBVIOUS
<1>3. /\ "idle" \in PC /\ "idle" \notin Carrying /\ "idle" \notin Holding
      /\ "idle" \notin Storing /\ "idle" \notin OnSpan
      /\ pc[t].at \notin Carrying /\ pc[t].at \notin Storing /\ pc[t].at \notin Holding
      /\ pc[t].at # "push" /\ pc[t].at # "extract" /\ pc[t].at # "own"
  BY DEF PC, OnSpan, OnBlock, Carrying, Holding, Storing
<1>4. air' = air /\ stored' = stored
  BY <1>3, AirMoves DEF Inv
<1>5. taken' = taken /\ pushed' = pushed
  <2>1. /\ taken' = (taken \ (IF pc[t].at = "extract" THEN {SpanOf(t)} ELSE {}))
                     \cup (IF "idle" = "extract" THEN {None[1]} ELSE {})
        /\ pushed' = (pushed \ (IF pc[t].at = "push" THEN {SpanOf(t)} ELSE {}))
                     \cup (IF "idle" = "push" THEN {None[1]} ELSE {})
    BY <1>3, ListsMove DEF Inv
  <2>. QED
    BY <1>3, <2>1
<1>6. /\ \A u \in Thread \ {t} : pc'[u] = pc[u] /\ SpanOf(u)' = SpanOf(u)
      /\ pc'[t].at = "idle"
  BY <1>3, Moves DEF Inv
<1>7. TypeOK'
  <2>1. /\ pc' \in [Thread -> [at : PC, b : Block \cup {<<x>> : x \in Span} \cup {None}]]
        /\ \A u \in Thread :
             /\ pc'[u].at \in OnBlock => pc'[u].b \in Block
             /\ pc'[u].at = "sync" => \E x \in Span : pc'[u].b = <<x>>
    BY <1>3, GotoType DEF Inv
  <2>2. \A x \in DOMAIN span' : span'[x] \in SpanType(x)'
    BY <1>2 DEF Inv, TypeOK, SpanType
  <2>3. pool' = Span \ DOMAIN span' /\ DOMAIN span' \subseteq Span
    <3>1. DOMAIN span \subseteq Span /\ pool = Span \ DOMAIN span
      BY DEF Inv, TypeOK
    <3>. QED
      BY <1>1, <1>2, <3>1
  <2>. QED
    BY <1>2, <2>1, <2>2, <2>3 DEF Inv, TypeOK
<1>8. ASSUME NEW x \in DOMAIN span' PROVE SpanOK(x)' /\ Back(x)' = Back(x)
  <2>1. SpanOK(x) /\ span'[x] = span[x] /\ x # s /\ x \in DOMAIN span /\ x \in Span
    BY <1>2 DEF Inv, TypeOK
  <2>2. \A b \in OfSpan(x) : b \notin OfSpan(s)
    BY <1>1, <2>1, OfSpanIs
  <2>3. live' \cap OfSpan(x) = live \cap OfSpan(x)
    BY <2>2
  <2>. QED
    BY <1>4, <2>1, <2>3, SpanKeeps
<1>9. Rooted'
  <2>1. \A b \in live' : b[1] \in DOMAIN span' 
    BY <1>2, BlocksAre DEF Inv, Rooted, TypeOK
  <2>2. \A g \in Heap : \A b \in classFree[g] : b[1] \in DOMAIN span' /\ span'[b[1]].heap = g
    <3>. SUFFICES ASSUME NEW g \in Heap, NEW b \in classFree[g]
                  PROVE  b[1] \in DOMAIN span' /\ span'[b[1]].heap = g
      OBVIOUS
    <3>1. b[1] \in DOMAIN span /\ span[b[1]].heap = g /\ b \in Block
      BY DEF Inv, Rooted, TypeOK
    <3>2. b[1] # s
      <4>. SUFFICES ASSUME b[1] = s PROVE FALSE
        OBVIOUS
      <4>. QED
        BY <3>1, BlocksAre
    <3>. QED
      BY <1>2, <3>1, <3>2
  <2>. QED
    BY <2>1, <2>2 DEF Rooted
<1>10. OwnersOK'
  BY <1>3, OwnersKeep
<1>11. LocksOK'
  BY <1>2, <1>3, LocksKeep
<1>12. ASSUME NEW u \in Thread PROVE CallOK(u)'
  <2>1. CASE u = t
    BY <1>6, <2>1, CallOff
  <2>2. CASE u # t
    <3>1. pc'[u] = pc[u] /\ mine'[u] = mine[u] /\ CallOK(u)
      BY <1>6, <2>2 DEF Inv, CallsOK
    <3>2. PICK x : x = SpanOf(u)
      OBVIOUS
    <3>3. pc[u].at \in OnSpan => x \in DOMAIN span'
      BY <1>2, <2>2, <3>1, <3>2 DEF CallOK
    <3>4. pc[u].at = "extract" => partial'[mine[u]] = partial[mine[u]]
      <4>1. pc[u].at = "extract" => mine[u] = span[x].heap /\ span[x].heap # h
        BY <2>2, <3>1, <3>2 DEF AloneOn, CallOK
      <4>2. pc[u].at = "extract" => mine[u] \in Heap
        BY DEF Inv, TypeOK, OwnersOK
      <4>. QED
        BY <4>1, <4>2
    <3>. QED
      BY <1>2, <1>8, <3>1, <3>2, <3>3, <3>4, CallSame
  <2>. QED
    BY <2>1, <2>2
<1>13. ListsOK'
  <2>1. s \notin taken
    BY <1>3 DEF AloneOn, taken
  <2>2. ASSUME NEW g \in Heap
        PROVE  /\ Partly(g)' = Partly(g) \ {s} /\ Fully(g)' = Fully(g) \ {s}
               /\ Given(g)' = Given(g)
    <3>1. Partly(g)' = {x \in DOMAIN span' :
                          span'[x].heap = g /\ (~FullyUtilized(span'[x]) \/ x \in taken')}
      BY DEF Partly, FullyUtilized
    <3>2. Fully(g)' = {x \in DOMAIN span' :
                         span'[x].heap = g /\ FullyUtilized(span'[x]) /\ x \notin taken'}
      BY DEF Fully, FullyUtilized
    <3>3. Given(g)' = {x \in DOMAIN span' : span'[x].heap = g /\ x \notin pushed'
                                            /\ OfSpan(x) \subseteq span'[x].deferred}
      BY DEF Given, OfSpan, Indices
    <3>4. Partly(g)' = Partly(g) \ {s}
      BY <1>2, <1>5, <3>1 DEF Partly
    <3>5. Fully(g)' = Fully(g) \ {s}
      BY <1>2, <1>5, <3>2 DEF Fully
    <3>6. Given(g)' = Given(g)
      BY <1>2, <1>5, <3>3 DEF Given
    <3>. QED
      BY <3>4, <3>5, <3>6
  <2>3. IsFiniteSet(Fully(h)) /\ Cardinality(Fully(h)) \in Nat
    BY SpansFinite DEF Fully, Inv, TypeOK
  <2>4. Cardinality(Fully(h) \ {s}) =
          IF s \in Fully(h) THEN Cardinality(Fully(h)) - 1 ELSE Cardinality(Fully(h))
    BY <2>3, FS_RemoveElement
  <2>5. s \in Fully(h) <=> FullyUtilized(span[s])
    BY <2>1 DEF Fully
  <2>6. \A g \in Heap \ {h} : s \notin Fully(g) /\ s \notin Partly(g)
    BY DEF Fully, Partly
  <2>7. \A g \in Heap : /\ IsInjective(partial[g]) /\ Range(partial[g]) = Partly(g)
                        /\ full[g] = Cardinality(Fully(g)) /\ deferred[g] = Given(g)
    BY DEF Inv, ListsOK
  <2>8. ASSUME NEW g \in Heap
        PROVE  /\ IsInjective(partial'[g]) /\ Range(partial'[g]) = Partly(g)'
               /\ full'[g] = Cardinality(Fully(g)') /\ deferred'[g] = Given(g)'
    <3>1. deferred'[g] = Given(g)'
      BY <2>2, <2>7
    <3>2. CASE g = h
      <4>1. full'[h] = Cardinality(Fully(h) \ {s})
        BY <2>3, <2>4, <2>5, <2>7
      <4>. QED
        BY <2>2, <2>7, <3>1, <3>2, <4>1
    <3>3. CASE g # h
      <4>1. s \notin Fully(g) /\ s \notin Partly(g)
        BY <2>6, <3>3
      <4>2. Partly(g) \ {s} = Partly(g) /\ Fully(g) \ {s} = Fully(g)
        BY <4>1, Zenon
      <4>3. Partly(g)' = Partly(g) /\ Fully(g)' = Fully(g)
        BY <2>2, <4>2
      <4>. QED
        BY <2>7, <3>1, <3>3, <4>3
    <3>. QED
      BY <3>2, <3>3
  <2>. QED
    BY <2>8 DEF ListsOK
<1>14. FinalOK'
  BY <1>6 DEF Inv, FinalOK
<1>15. Reclaimed'
  <2>. SUFFICES ASSUME finalized, NEW x \in DOMAIN span'
                PROVE  live' \cap OfSpan(x) # {}
                         \/ \E u \in Thread : pc'[u].at = "sync" /\ SpanOf(u)' = x
    BY DEF Reclaimed, At, OfSpan, Indices
  <2>1. x \in DOMAIN span /\ x # s /\ x \in Span
    BY <1>2 DEF Inv, TypeOK
  <2>2. live \cap OfSpan(x) # {} \/ \E u \in Thread : pc[u].at = "sync" /\ SpanOf(u) = x
    BY <2>1 DEF Inv, Reclaimed, At
  <2>3. CASE live \cap OfSpan(x) # {}
    <3>1. \A b \in OfSpan(x) : b \notin OfSpan(s)
      BY <1>1, <2>1, OfSpanIs
    <3>. QED
      BY <2>3, <3>1
  <2>4. CASE \E u \in Thread : pc[u].at = "sync" /\ SpanOf(u) = x
    BY <1>6, <2>1, <2>4
  <2>. QED
    BY <2>2, <2>3, <2>4
<1>. QED
  BY <1>7, <1>8, <1>9, <1>10, <1>11, <1>12, <1>13, <1>14, <1>15 DEF Inv, CallsOK
-----------------------------------------------------------------------------

(* The owner puts a block back. The two counters agree when no block of    *)
(* the span is left outside its lists.                                     *)
LEMMA FreeDirectInv ==
  ASSUME Inv, NEW t \in Thread, finalized => \A u \in Thread : pc[u] = Idle, pc[t] = Idle,
         NEW b \in live, live' = live \ {b}, FreeDirect(t, b),
         UNCHANGED <<classFree, deferred, owner, orphans, mine, finalized>>
  PROVE  Inv'
<1>1. PICK s \in DOMAIN span : s = b[1] /\ s \in Span /\ b \in Block /\ b \in OfSpan(s)
  BY BlocksAre DEF Inv, Rooted, TypeOK
<1>2. PICK h \in Heap : h = span[s].heap
  BY <1>1 DEF Inv, TypeOK, SpanType
<1>3. PICK sp : sp = [span[s] EXCEPT !.usedCount = (IF FullyUtilized(span[s])
                                                    THEN BlockCount ELSE @) - 1,
                                     !.free = @ \cup {b}]
  OBVIOUS
<1>4. PICK plist : plist = IF FullyUtilized(span[s]) THEN <<s>> \o partial[h] ELSE partial[h]
  OBVIOUS
<1>5. /\ owner[h] = t \/ finalized
      /\ full' = [full EXCEPT ![h] = IF FullyUtilized(span[s]) THEN @ - 1 ELSE @]
      /\ AllFree(t, s, sp, plist)
  BY <1>1, <1>2, <1>3, <1>4 DEF FreeDirect
<1>6. AloneOn(h, t)
  <2>1. CASE finalized
    BY <2>1 DEF AloneOn, Idle
  <2>2. CASE ~finalized
    <3>1. mine[t] = h
      BY <1>5, <2>2, HeapAssumption DEF Inv, OwnersOK
    <3>. QED
      BY <3>1, AloneIs
  <2>. QED
    BY <2>1, <2>2
<1>7. SpanOK(s) /\ Places(s) /\ span[s] \in SpanType(s) /\ span[s].limit \in 1 .. BlockCount
  BY DEF Inv, SpanOK, SpanType
<1>8. /\ b \notin classFree[h] /\ b \notin span[s].free /\ b \notin span[s].deferred
      /\ b \notin air /\ b \notin stored /\ b[2] <= span[s].limit
  BY <1>1, <1>2, <1>7, BlocksInAir DEF Places
<1>9. pc[t].at = "idle" /\ s \notin taken
  BY <1>2, <1>6 DEF AloneOn, taken, Idle
<1>10. span[s].usedCount = span[s].limit - Cardinality(span[s].free)
       /\ span[s].listSize = Cardinality(Back(s))
  BY <1>7 DEF SpanOK, Counts
<1>11. FullyUtilized(span[s]) => span[s].usedCount = BlockCount
  <2>1. Cardinality({}) = 0
    BY FS_EmptySet
  <2>. QED
    BY <1>7, <1>10, <2>1, CountAssumption DEF FullyUtilized
<1>12. /\ sp \in SpanType(s) /\ sp.heap = h /\ sp.free = span[s].free \cup {b}
       /\ sp.limit = span[s].limit /\ sp.usedCount = span[s].usedCount - 1
       /\ sp.deferred = span[s].deferred /\ sp.locked = span[s].locked
       /\ sp.listSize = span[s].listSize
  <2>1. sp = [heap |-> h, free |-> span[s].free \cup {b}, limit |-> span[s].limit,
              usedCount |-> (IF FullyUtilized(span[s]) THEN BlockCount
                                                       ELSE span[s].usedCount) - 1,
              deferred |-> span[s].deferred, locked |-> span[s].locked,
              listSize |-> span[s].listSize]
    BY <1>2, <1>3, <1>7 DEF SpanType
  <2>2. (IF FullyUtilized(span[s]) THEN BlockCount ELSE span[s].usedCount) - 1
          = span[s].usedCount - 1
    BY <1>11
  <2>. QED
    BY <1>1, <1>7, <2>1, <2>2, CountAssumption DEF SpanType
<1>13. sp.usedCount = sp.limit - Cardinality(sp.free)
  <2>1. IsFiniteSet(span[s].free)
    BY <1>1, <1>7, OfSpanIs, FS_Subset DEF SpanType
  <2>2. Cardinality(span[s].free \cup {b}) = Cardinality(span[s].free) + 1
        /\ Cardinality(span[s].free) \in Nat
    BY <1>8, <2>1, FS_AddElement, FS_CardinalityType
  <2>. QED
    BY <1>7, <1>10, <1>12, <2>2
<1>14. /\ Back(s) \subseteq OfSpan(s) /\ sp.free \subseteq OfSpan(s) /\ sp.free \cap Back(s) = {}
       /\ \A x \in sp.free \cup Back(s) : x[2] <= sp.limit
  <2>1. stored \subseteq air
    BY BlocksInAir
  <2>. QED
    BY <1>1, <1>7, <1>8, <1>12, <2>1 DEF Back, SpanType, Places
<1>15. sp.usedCount = sp.listSize <=>
         \A x \in OfSpan(s) : x \in sp.free \/ x \in Back(s) \/ x[2] > sp.limit
  <2>1. sp.limit - Cardinality(sp.free) = Cardinality(Back(s)) <=>
          \A x \in OfSpan(s) : x \in sp.free \/ x \in Back(s) \/ x[2] > sp.limit
    BY <1>1, <1>7, <1>12, <1>14, CountersMeet
  <2>. QED
    BY <1>10, <1>12, <1>13, <2>1
<1>16. ~(OfSpan(s) \subseteq span[s].deferred)
  BY <1>1, <1>8
<1>17. ~FullyUtilized(sp) /\ sp.free # {}
  BY <1>12 DEF FullyUtilized
<1>18. /\ plist \in Seq(Span) /\ IsInjective(plist) /\ s \in Range(plist)
       /\ Range(plist) \ {s} = Range(partial[h]) \ {s}
  <2>1. /\ partial[h] \in Seq(Span) /\ IsInjective(partial[h])
        /\ s \in Range(partial[h]) <=> ~FullyUtilized(span[s])
    BY <1>1, <1>2, <1>9 DEF Inv, TypeOK, ListsOK, Partly
  <2>2. CASE FullyUtilized(span[s])
    <3>1. plist = <<s>> \o partial[h] /\ s \notin Range(partial[h])
      BY <1>4, <2>1, <2>2
    <3>2. /\ <<s>> \o partial[h] \in Seq(Span) /\ IsInjective(<<s>> \o partial[h])
          /\ Range(<<s>> \o partial[h]) = Range(partial[h]) \cup {s}
      BY <1>1, <2>1, <3>1, ConsIs
    <3>. QED
      BY <3>1, <3>2
  <2>3. CASE ~FullyUtilized(span[s])
    BY <1>4, <2>1, <2>3
  <2>. QED
    BY <2>2, <2>3
<1>19. /\ full' \in [Heap -> Int] /\ \A g \in Heap \ {h} : full'[g] = full[g]
       /\ full'[h] = full[h] - (IF FullyUtilized(span[s]) THEN 1 ELSE 0)
  BY <1>5 DEF Inv, TypeOK
<1>20. CASE sp.usedCount = sp.listSize /\ sp.usedCount = 0
  <2>1. ReleaseSpan(s, plist) /\ pc' = pc
    BY <1>5, <1>20 DEF AllFree
  <2>2. /\ span' = [x \in DOMAIN span \ {s} |-> span[x]] /\ pool' = pool \cup {s}
        /\ partial' = [partial EXCEPT ![h] = Without(plist, s)]
    BY <1>2, <2>1 DEF ReleaseSpan
  <2>3. /\ Without(plist, s) \in Seq(Span) /\ IsInjective(Without(plist, s))
        /\ Range(Without(plist, s)) = Range(plist) \ {s}
    BY <1>18, WithoutIs
  <2>4. /\ partial' \in [Heap -> Seq(Span)] /\ \A g \in Heap \ {h} : partial'[g] = partial[g]
        /\ IsInjective(partial'[h]) /\ Range(partial'[h]) = Range(partial[h]) \ {s}
    BY <1>18, <2>2, <2>3 DEF Inv, TypeOK
  <2>5. Back(s) = {}
    <3>1. IsFiniteSet(Back(s)) /\ Cardinality(Back(s)) = 0
      BY <1>1, <1>10, <1>12, <1>14, <1>20, OfSpanIs, FS_Subset
    <3>. QED
      BY <3>1, FS_EmptySet
  <2>6. \A x \in OfSpan(s) : x \in span[s].free \/ x = b \/ ~(x[2] <= span[s].limit)
    <3>1. \A x \in OfSpan(s) : x \in sp.free \/ x[2] > sp.limit
      BY <1>15, <1>20, <2>5
    <3>2. \A x \in OfSpan(s) : x[2] \in Nat
      BY <1>1, OfSpanIs, CountAssumption
    <3>. QED
      BY <1>7, <1>12, <3>1, <3>2, CountAssumption
  <2>7. \A x \in OfSpan(s) : x \notin live' /\ x \notin classFree[h] /\ x \notin air
    BY <1>2, <1>7, <1>8, <2>6 DEF Places
  <2>8. ASSUME NEW u \in Thread \ {t}, pc[u].at \in OnSpan, SpanOf(u) = s PROVE FALSE
    <3>1. CASE pc[u].at \in Carrying
      BY <2>7, <2>8, <3>1, Carrier
    <3>2. CASE pc[u].at = "push"
      BY <1>16, <2>8, <3>2 DEF Inv, CallsOK, CallOK
    <3>3. CASE pc[u].at = "sync"
      BY <1>2, <1>6, <2>8, <3>3 DEF AloneOn
    <3>. QED
      BY <2>8, <3>1, <3>2, <3>3 DEF OnSpan, OnBlock
  <2>9. Goto(t, "idle", None)
    BY <2>1, MoveOrStay DEF Inv, Idle
  <2>10. /\ pc[t].at \in {"idle", "sync"} /\ (pc[t].at = "sync" => SpanOf(t) = s)
         /\ live' \subseteq live /\ \A x \in live : x \notin OfSpan(s) => x \in live'
         /\ \A x \in OfSpan(s) : x \notin live' /\ x \notin classFree[h]
         /\ span[s].heap = h
    BY <1>1, <1>2, <1>9, <2>7
  <2>11. \A u \in Thread \ {t} : pc[u].at \in OnSpan => SpanOf(u) # s
    BY <2>8
  <2>12. /\ partial' \in [Heap -> Seq(Span)] /\ full' \in [Heap -> Int]
         /\ \A g \in Heap \ {h} : partial'[g] = partial[g] /\ full'[g] = full[g]
    BY <1>19, <2>4
  <2>13. /\ IsInjective(partial'[h]) /\ Range(partial'[h]) = Range(partial[h]) \ {s}
         /\ full'[h] = full[h] - (IF FullyUtilized(span[s]) THEN 1 ELSE 0)
    BY <1>19, <2>4
  <2>. QED
    BY <1>6, <1>16, <2>2, <2>9, <2>10, <2>11, <2>12, <2>13, ReleaseInv
<1>21. CASE ~(sp.usedCount = sp.listSize /\ sp.usedCount = 0)
  <2>1. PICK w \in {"idle", "extract", "sync"} :
          w = IF sp.usedCount = sp.listSize THEN "sync" ELSE "idle"
    OBVIOUS
  <2>2. PICK c : c = IF sp.usedCount = sp.listSize THEN <<s>> ELSE None
    OBVIOUS
  <2>3. /\ span' = [span EXCEPT ![s] = sp] /\ partial' = [partial EXCEPT ![h] = plist]
        /\ pool' = pool
        /\ IF sp.usedCount = sp.listSize THEN Goto(t, "sync", <<s>>) ELSE pc' = pc
    BY <1>5, <1>12, <1>21 DEF AllFree
  <2>4. Goto(t, w, c)
    BY <2>1, <2>2, <2>3, MoveOrStay DEF Inv, Idle
  <2>5. /\ DOMAIN span' = DOMAIN span /\ span'[s] = sp
        /\ \A x \in DOMAIN span : x # s => span'[x] = span[x]
    BY <2>3 DEF Inv, TypeOK
  <2>6. /\ partial' \in [Heap -> Seq(Span)] /\ \A g \in Heap \ {h} : partial'[g] = partial[g]
        /\ partial'[h] = plist
    BY <1>18, <2>3 DEF Inv, TypeOK
  <2>7. air' = air /\ stored' = stored
    <3>1. /\ w \in PC /\ w \notin Carrying /\ w \notin Storing
          /\ pc[t].at \notin Carrying /\ pc[t].at \notin Storing
      BY <1>9, <2>1 DEF PC, OnSpan, OnBlock, Carrying, Holding, Storing
    <3>. QED
      BY <2>4, <3>1, AirMoves DEF Inv
  <2>8. Back(s)' = Back(s)
    BY <1>12, <2>5, <2>7 DEF Back
  <2>9. SpanOK(s)'
    <3>1. Places(s)'
      <4>1. OfSpan(s)' = OfSpan(s) /\ classFree' = classFree
        BY DEF OfSpan, Indices
      <4>. QED
        BY <1>1, <1>2, <1>7, <1>8, <1>12, <2>5, <2>7, <4>1 DEF Places
    <3>2. Counts(s)'
      BY <1>10, <1>12, <1>13, <2>5, <2>8 DEF Counts
    <3>3. span'[s] \in SpanType(s)'
      BY <1>12, <2>5 DEF SpanType
    <3>. QED
      BY <3>1, <3>2, <3>3 DEF SpanOK
  <2>10. /\ \A u \in Thread \ {t} : pc'[u] = pc[u] /\ SpanOf(u)' = SpanOf(u)
         /\ pc'[t].at = w /\ (w = "sync" => SpanOf(t)' = s)
    <3>1. w \in PC
      BY <2>1 DEF PC, OnSpan, OnBlock, Carrying
    <3>2. /\ pc'[t].at = w /\ SpanOf(t)' = c[1]
          /\ \A u \in Thread \ {t} : pc'[u] = pc[u] /\ SpanOf(u)' = SpanOf(u)
      BY <2>4, <3>1 DEF Inv, TypeOK, Goto, SpanOf
    <3>3. w = "sync" => c = <<s>>
      BY <2>1, <2>2
    <3>. QED
      BY <3>2, <3>3
  <2>11. CallOK(t)'
    <3>1. CASE w = "sync"
      <4>1. \A x \in OfSpan(s) : x \in sp.free \/ x \in Back(s) \/ x[2] > sp.limit
        BY <1>15, <2>1, <3>1
      <4>2. OfSpan(s)' = OfSpan(s) /\ owner' = owner /\ finalized' = finalized
        BY DEF OfSpan, Indices
      <4>. QED
        BY <1>5, <1>12, <1>17, <2>5, <2>8, <2>10, <3>1, <4>1, <4>2 DEF CallOK
    <3>2. CASE w = "idle"
      BY <2>10, <3>2, CallOff
    <3>. QED
      BY <2>1, <3>1, <3>2
  <2>12. ASSUME NEW u \in Thread \ {t}, SpanOf(u) = s PROVE CallOK(u)'
    BY <1>2, <1>6, <1>12, <2>5, <2>8, <2>10, <2>12, OthersKeep
  <2>13. FinalOK'
    <3>. SUFFICES ASSUME finalized
                  PROVE  /\ \A u \in Thread : pc'[u].at \in {"idle", "sync"} /\ mine[u] = None
                         /\ \A u, v \in Thread : pc'[u].at = "sync" /\ pc'[v].at = "sync" => u = v
                         /\ \A g \in Heap : classFree[g] = {}
      BY DEF FinalOK
    <3>1. \A u \in Thread : pc[u].at = "idle"
      BY DEF Idle
    <3>. QED
      BY <2>1, <2>10, <3>1 DEF Inv, FinalOK
  <2>14. Reclaimed'
    <3>. SUFFICES ASSUME finalized, NEW x \in DOMAIN span
                  PROVE  live' \cap OfSpan(x) # {}
                           \/ \E u \in Thread : pc'[u].at = "sync" /\ SpanOf(u)' = x
      BY <2>5 DEF Reclaimed, At, OfSpan, Indices
    <3>1. CASE x # s
      <4>1. live \cap OfSpan(x) # {} \/ \E u \in Thread : pc[u].at = "sync"
        BY DEF Inv, Reclaimed, At
      <4>2. \A u \in Thread : pc[u].at # "sync"
        BY DEF Idle
      <4>3. b \notin OfSpan(x)
        BY <1>1, <3>1, BlocksAre DEF Inv, TypeOK
      <4>. QED
        BY <4>1, <4>2, <4>3
    <3>2. CASE x = s /\ w = "sync"
      BY <2>10, <3>2
    <3>3. CASE x = s /\ w = "idle"
      <4>1. PICK y \in OfSpan(s) : y \notin sp.free /\ y \notin Back(s) /\ ~(y[2] > sp.limit)
        BY <1>15, <2>1, <3>3
      <4>2. classFree[h] = {} /\ air = {}
        BY ZenonT(40) DEF Inv, FinalOK, air, Idle, Carrying, Holding, Storing
      <4>3. y \in live
        BY <1>2, <1>7, <1>12, <4>1, <4>2 DEF Places, Back
      <4>4. y # b
        BY <1>12, <4>1
      <4>. QED
        BY <3>3, <4>3, <4>4
    <3>. QED
      BY <2>1, <3>1, <3>2, <3>3
  <2>15. PICK at : at = "idle" /\ at = pc[t].at
    BY <1>9
  <2>16. /\ at \in {"idle", "extract"} /\ (at = "extract" => SpanOf(t) = s)
         /\ \/ w = "idle" /\ c = None
            \/ w = "extract" /\ c \in OfSpan(s) /\ c \notin air /\ mine[t] # None
            \/ w = "sync" /\ c = <<s>>
    BY <2>1, <2>2, <2>15
  <2>17. /\ IsInjective(partial'[h])
         /\ Range(partial'[h]) = (Range(partial[h]) \ {s})
              \cup (IF ~FullyUtilized(sp) \/ w = "extract" THEN {s} ELSE {})
    BY <1>17, <1>18, <2>6
  <2>18. full'[h] = full[h] - (IF FullyUtilized(span[s]) /\ at # "extract" THEN 1 ELSE 0)
                            + (IF FullyUtilized(sp) /\ w # "extract" THEN 1 ELSE 0)
    <3>1. full[h] \in Int
      BY DEF Inv, TypeOK
    <3>. QED
      BY <1>17, <1>19, <2>15, <3>1
  <2>19. /\ classFree' \in [Heap -> SUBSET Block] /\ live' \subseteq Block
         /\ \A g \in Heap \ {h} : classFree'[g] = classFree[g]
         /\ \A x \in Block : x \notin OfSpan(s) => /\ x \in classFree'[h] <=> x \in classFree[h]
                                                   /\ x \in live' <=> x \in live
    BY <1>1 DEF Inv, TypeOK
  <2>20. ~(OfSpan(s) \subseteq sp.deferred)
    BY <1>12, <1>16
  <2>21. /\ sp \in SpanType(s) /\ sp.heap = h /\ sp.locked = span[s].locked /\ span[s].heap = h
         /\ span' = [span EXCEPT ![s] = sp]
         /\ UNCHANGED <<pool, deferred, owner, orphans, mine, finalized>>
    BY <1>2, <1>12, <2>3
  <2>22. /\ partial' \in [Heap -> Seq(Span)] /\ full' \in [Heap -> Int]
         /\ \A g \in Heap \ {h} : partial'[g] = partial[g] /\ full'[g] = full[g]
    BY <1>19, <2>6
  <2>. QED
    BY <1>6, <1>16, <2>4, <2>9, <2>11, <2>12, <2>13, <2>14, <2>15, <2>16, <2>17, <2>18, <2>19,
       <2>20, <2>21, <2>22, OwnerInv
<1>. QED
  BY <1>20, <1>21

(* The owner waits for the thread that counted the last block to put the   *)
(* list back; then nothing of the span is elsewhere.                       *)
LEMMA SyncInv ==
  ASSUME Inv, NEW t \in Thread, Sync(t)
  PROVE  Inv'
<1>1. PICK s : s = SpanOf(t)
  OBVIOUS
<1>2. pc[t].at = "sync" /\ ~span[s].locked /\ Goto(t, "idle", None)
  BY <1>1 DEF Sync, At
<1>3. UNCHANGED <<classFree, full, deferred, owner, orphans, mine, live, finalized>>
  BY DEF Sync
<1>4. /\ s \in DOMAIN span /\ s \in Span /\ span[s].free # {}
      /\ finalized \/ owner[span[s].heap] = t
      /\ \A b \in OfSpan(s) : b \in span[s].free \/ b \in Back(s) \/ b[2] > span[s].limit
  <2>1. pc[t].at \in OnSpan
    BY <1>2, Kinds
  <2>. QED
    BY <1>1, <1>2, <2>1 DEF Inv, CallsOK, CallOK, TypeOK
<1>5. PICK h \in Heap : h = span[s].heap
  BY <1>4 DEF Inv, TypeOK, SpanType
<1>6. AloneOn(h, t)
  <2>1. CASE finalized
    BY <1>2, <2>1 DEF Inv, FinalOK, AloneOn
  <2>2. CASE ~finalized
    <3>1. mine[t] = h
      BY <1>4, <1>5, <2>2, HeapAssumption DEF Inv, OwnersOK
    <3>. QED
      BY <3>1, AloneIs
  <2>. QED
    BY <2>1, <2>2
<1>7. /\ span' = [x \in DOMAIN span \ {s} |-> span[x]] /\ pool' = pool \cup {s}
      /\ partial' = [partial EXCEPT ![h] = Without(partial[h], s)]
  BY <1>1, <1>5 DEF Sync, ReleaseSpan
<1>8. ~FullyUtilized(span[s])
  BY <1>4 DEF FullyUtilized
<1>9. partial[h] \in Seq(Span) /\ IsInjective(partial[h]) /\ s \in Range(partial[h])
  BY <1>4, <1>5, <1>8 DEF Inv, TypeOK, ListsOK, Partly
<1>10. /\ Without(partial[h], s) \in Seq(Span) /\ IsInjective(Without(partial[h], s))
       /\ Range(Without(partial[h], s)) = Range(partial[h]) \ {s}
  BY <1>9, WithoutIs
<1>11. /\ partial' \in [Heap -> Seq(Span)] /\ full' \in [Heap -> Int]
       /\ \A g \in Heap \ {h} : partial'[g] = partial[g] /\ full'[g] = full[g]
       /\ IsInjective(partial'[h]) /\ Range(partial'[h]) = Range(partial[h]) \ {s}
  BY <1>3, <1>7, <1>10 DEF Inv, TypeOK
<1>12. full'[h] = full[h] - (IF FullyUtilized(span[s]) THEN 1 ELSE 0)
  <2>1. full[h] \in Int /\ full' = full
    BY <1>3 DEF Inv, TypeOK
  <2>. QED
    BY <1>8, <2>1
<1>13. SpanOK(s) /\ Places(s) /\ span[s].limit \in Nat /\ span[s].free \subseteq OfSpan(s)
  BY <1>4, CountAssumption DEF Inv, SpanOK, SpanType
<1>14. \A b \in OfSpan(s) :
         b \in span[s].free \/ b \in span[s].deferred \/ ~(b[2] <= span[s].limit)
  <2>1. \A b \in OfSpan(s) : b[2] \in Nat
    BY <1>4, OfSpanIs, CountAssumption
  <2>2. Back(s) = span[s].deferred
    BY <1>2, <1>4, NobodyInside
  <2>. QED
    BY <1>4, <1>13, <2>1, <2>2
<1>15. \A b \in OfSpan(s) : b \notin live /\ b \notin classFree[h] /\ b \notin air
  BY <1>5, <1>13, <1>14 DEF Places
<1>16. ~(OfSpan(s) \subseteq span[s].deferred)
  BY <1>4, <1>13 DEF Places
<1>17. ASSUME NEW u \in Thread \ {t}, pc[u].at \in OnSpan, SpanOf(u) = s PROVE FALSE
  <2>1. CASE pc[u].at \in Carrying
    BY <1>15, <1>17, <2>1, Carrier
  <2>2. CASE pc[u].at = "push"
    BY <1>16, <1>17, <2>2 DEF Inv, CallsOK, CallOK
  <2>3. CASE pc[u].at = "sync"
    BY <1>5, <1>6, <1>17, <2>3 DEF AloneOn
  <2>. QED
    BY <1>17, <2>1, <2>2, <2>3 DEF OnSpan, OnBlock
<1>18. \A u \in Thread \ {t} : pc[u].at \in OnSpan => SpanOf(u) # s
  BY <1>17
<1>19. /\ pc[t].at \in {"idle", "sync"} /\ (pc[t].at = "sync" => SpanOf(t) = s)
       /\ live' \subseteq live /\ \A b \in live : b \notin OfSpan(s) => b \in live'
       /\ \A b \in OfSpan(s) : b \notin live' /\ b \notin classFree[h]
       /\ span[s].heap = h /\ s \in DOMAIN span
  BY <1>1, <1>2, <1>3, <1>4, <1>5, <1>15
<1>. QED
  BY <1>2, <1>3, <1>6, <1>7, <1>11, <1>12, <1>16, <1>18, <1>19, ReleaseInv
-----------------------------------------------------------------------------

(* With all threads outside, nothing is on its way.                        *)
LEMMA AllIdle ==
  ASSUME \A t \in Thread : pc[t] = Idle
  PROVE  /\ air = {} /\ stored = {} /\ taken = {} /\ pushed = {}
         /\ \A t \in Thread : pc[t].at = "idle" /\ pc[t].at \notin OnSpan
<1>1. \A t \in Thread : pc[t].at = "idle"
  BY DEF Idle
<1>2. /\ "idle" \notin Carrying /\ "idle" \notin Storing /\ "idle" \notin OnSpan
      /\ "idle" # "extract" /\ "idle" # "push"
  BY OffSpan
<1>3. \A t \in Thread : /\ pc[t].at \notin Carrying /\ pc[t].at \notin Storing
                        /\ pc[t].at \notin OnSpan
                        /\ pc[t].at # "extract" /\ pc[t].at # "push"
  BY <1>1, <1>2
<1>. QED
  BY <1>1, <1>3 DEF air, stored, taken, pushed

(* What a span holds when the free list of the class is put back.          *)
Rejoined(s, sp, back) ==
  /\ sp \in SpanType(s) /\ sp.heap = span[s].heap
  /\ sp.limit = span[s].limit /\ sp.deferred = span[s].deferred
  /\ sp.locked = span[s].locked
  /\ sp.usedCount = sp.limit - Cardinality(sp.free)
  /\ sp.listSize = Cardinality(sp.deferred) /\ Back(s) = sp.deferred
  /\ \A b \in OfSpan(s) :
       /\ b \in live \/ b \in sp.free \/ b \in sp.deferred \/ ~(b[2] <= sp.limit)
       /\ b \in live => b \notin sp.free /\ b \notin sp.deferred /\ b[2] <= sp.limit
       /\ b \in sp.free => b \notin sp.deferred /\ b[2] <= sp.limit
       /\ b \in sp.deferred => b[2] <= sp.limit
  /\ sp.listSize = sp.usedCount <=> live \cap OfSpan(s) = {}
  /\ FullyUtilized(sp) <=> FullyUtilized(span[s]) /\ back = {}

(* A span that got the blocks of the class list back is as good as before, *)
(* and its counters meet when no block is in use.                          *)
LEMMA JoinedIs ==
  ASSUME Inv, \A t \in Thread : pc[t] = Idle, NEW s \in DOMAIN span, NEW back, NEW sp,
         back = classFree[span[s].heap] \cap OfSpan(s), sp = Joined(s, span[s])
  PROVE  Rejoined(s, sp, back)
<1>1. s \in Span /\ SpanOK(s) /\ Places(s) /\ Counts(s) /\ span[s] \in SpanType(s)
  BY DEF Inv, TypeOK, SpanOK
<1>2. air = {} /\ stored = {}
  BY AllIdle
<1>3. /\ sp \in SpanType(s) /\ sp.heap = span[s].heap /\ sp.free = span[s].free \cup back
      /\ sp.limit = span[s].limit /\ sp.deferred = span[s].deferred
      /\ sp.locked = span[s].locked /\ sp.usedCount = span[s].usedCount - Cardinality(back)
      /\ sp.listSize = span[s].listSize
  <2>1. IsFiniteSet(back) /\ Cardinality(back) \in Nat
    BY <1>1, OfSpanIs, FS_Subset, FS_CardinalityType
  <2>2. sp = [heap |-> span[s].heap, free |-> span[s].free \cup back, limit |-> span[s].limit,
              usedCount |-> span[s].usedCount - Cardinality(back),
              deferred |-> span[s].deferred, locked |-> span[s].locked,
              listSize |-> span[s].listSize]
    BY <1>1 DEF Joined, SpanType
  <2>. QED
    BY <1>1, <2>1, <2>2 DEF SpanType
<1>4. Back(s) = sp.deferred /\ sp.listSize = Cardinality(sp.deferred)
  BY <1>1, <1>2, <1>3 DEF Back, Counts
<1>5. sp.usedCount = sp.limit - Cardinality(sp.free)
  <2>1. /\ IsFiniteSet(back) /\ IsFiniteSet(span[s].free) /\ span[s].free \cap back = {}
    BY <1>1, OfSpanIs, FS_Subset DEF SpanType, Places
  <2>2. Cardinality(sp.free) = Cardinality(span[s].free) + Cardinality(back)
                                 - Cardinality(span[s].free \cap back)
    BY <1>3, <2>1, FS_Union
  <2>3. /\ Cardinality(span[s].free \cap back) = 0 /\ Cardinality(span[s].free) \in Nat
        /\ Cardinality(back) \in Nat
    BY <2>1, FS_EmptySet, FS_CardinalityType
  <2>4. span[s].usedCount = span[s].limit - Cardinality(span[s].free) /\ span[s].limit \in Int
    BY <1>1 DEF Counts, SpanType
  <2>. QED
    BY <1>3, <2>2, <2>3, <2>4
<1>6. \A b \in OfSpan(s) : b[2] \in Nat /\ (b[2] > sp.limit <=> ~(b[2] <= sp.limit))
  BY <1>1, <1>3, OfSpanIs, CountAssumption DEF SpanType
<1>7. \A b \in OfSpan(s) :
        /\ b \in live \/ b \in sp.free \/ b \in sp.deferred \/ ~(b[2] <= sp.limit)
        /\ b \in live => b \notin sp.free /\ b \notin sp.deferred /\ b[2] <= sp.limit
        /\ b \in sp.free => b \notin sp.deferred /\ b[2] <= sp.limit
        /\ b \in sp.deferred => b[2] <= sp.limit
  BY <1>1, <1>2, <1>3, <1>6 DEF Places
<1>8. sp.listSize = sp.usedCount <=> live \cap OfSpan(s) = {}
  <2>1. /\ sp.limit \in 1 .. BlockCount /\ sp.free \subseteq OfSpan(s)
        /\ sp.deferred \subseteq OfSpan(s) /\ sp.free \cap sp.deferred = {}
        /\ \A b \in sp.free \cup sp.deferred : b[2] <= sp.limit
    BY <1>3, <1>7 DEF SpanType
  <2>2. sp.limit - Cardinality(sp.free) = Cardinality(sp.deferred) <=>
          \A b \in OfSpan(s) : b \in sp.free \/ b \in sp.deferred \/ b[2] > sp.limit
    BY <1>1, <2>1, CountersMeet
  <2>3. (\A b \in OfSpan(s) : b \in sp.free \/ b \in sp.deferred \/ b[2] > sp.limit)
          <=> live \cap OfSpan(s) = {}
    BY <1>6, <1>7
  <2>. QED
    BY <1>4, <1>5, <2>2, <2>3
<1>9. FullyUtilized(sp) <=> FullyUtilized(span[s]) /\ back = {}
  BY <1>3 DEF FullyUtilized
<1>. QED
  BY <1>3, <1>4, <1>5, <1>7, <1>8, <1>9 DEF Rejoined

(* rpmalloc_finalize() keeps the spans with blocks in use, and only those. *)
LEMMA FinalizeInv ==
  ASSUME Inv, Finalize
  PROVE  Inv'
<1>. DEFINE left == DOMAIN span \ UNION {deferred[h] : h \in Heap}
            joined == [s \in left |-> Joined(s, span[s])]
            Active(s) == classFree[span[s].heap] \cap OfSpan(s) # {}
            Listed(s) == ~FullyUtilized(span[s]) \/ Active(s)
<1>1. PICK kept : kept = {s \in left : Listed(s) => joined[s].listSize # joined[s].usedCount}
  OBVIOUS
<1>2. PICK Stays : Stays = [h \in Heap |->
        {s \in kept : s \in Range(partial[h]) \/ (span[s].heap = h /\ Active(s))}]
  OBVIOUS
<1>3. /\ ~finalized /\ \A t \in Thread : pc[t] = Idle /\ mine[t] = None
      /\ finalized' = TRUE
      /\ span' = [s \in kept |-> joined[s]]
      /\ pool' = pool \cup (DOMAIN span \ kept)
      /\ partial' = [h \in Heap |-> SetToSeq(Stays[h])]
      /\ full' = [h \in Heap |-> Cardinality({s \in kept : span[s].heap = h /\ ~Listed(s)})]
      /\ classFree' = [h \in Heap |-> {}] /\ deferred' = [h \in Heap |-> {}]
      /\ UNCHANGED <<owner, orphans, mine, live, pc>>
  BY <1>1, <1>2 DEF Finalize
<1>4. \A s \in left : s \in DOMAIN span /\ ~(OfSpan(s) \subseteq span[s].deferred)
  <2>1. pushed = {}
    BY <1>3, AllIdle
  <2>2. \A h \in Heap : deferred[h] = Given(h)
    BY DEF Inv, ListsOK
  <2>3. \A s \in DOMAIN span : span[s].heap \in Heap
    BY DEF Inv, TypeOK, SpanType
  <2>. QED
    BY <2>1, <2>2, <2>3 DEF Given
<1>5. \A b \in live : b[1] \in left
  <2>1. \A h \in Heap : deferred[h] = Given(h)
    BY DEF Inv, ListsOK
  <2>2. \A b \in live : b[1] \in DOMAIN span /\ b \in OfSpan(b[1])
    BY BlocksAre DEF Inv, Rooted, TypeOK
  <2>. QED
    BY <2>1, <2>2, AllBack DEF Given
<1>6. \A s \in left : joined[s] = Joined(s, span[s])
  OBVIOUS
<1>7. kept \subseteq left /\ kept \subseteq DOMAIN span
  BY <1>1
<1>8. \A s \in left : s \in kept <=> (Listed(s) => joined[s].listSize # joined[s].usedCount)
  BY <1>1
<1>9. ASSUME NEW s \in left
      PROVE  LET sp == joined[s] IN
         /\ sp \in SpanType(s) /\ sp.heap = span[s].heap
         /\ sp.limit = span[s].limit /\ sp.deferred = span[s].deferred
         /\ sp.locked = span[s].locked
         /\ sp.usedCount = sp.limit - Cardinality(sp.free)
         /\ sp.listSize = Cardinality(sp.deferred) /\ Back(s) = sp.deferred
         /\ \A b \in OfSpan(s) :
              /\ b \in live \/ b \in sp.free \/ b \in sp.deferred \/ ~(b[2] <= sp.limit)
              /\ b \in live => b \notin sp.free /\ b \notin sp.deferred /\ b[2] <= sp.limit
              /\ b \in sp.free => b \notin sp.deferred /\ b[2] <= sp.limit
              /\ b \in sp.deferred => b[2] <= sp.limit
         /\ sp.listSize = sp.usedCount <=> live \cap OfSpan(s) = {}
         /\ FullyUtilized(sp) <=> ~Listed(s)
  <2>1. s \in DOMAIN span
    BY <1>4
  <2>2. PICK back : back = classFree[span[s].heap] \cap OfSpan(s)
    OBVIOUS
  <2>3. PICK sp : sp = Joined(s, span[s]) /\ sp = joined[s]
    BY <1>6
  <2>4. Rejoined(s, sp, back)
    BY <1>3, <2>1, <2>2, <2>3, JoinedIs
  <2>. HIDE DEF joined
  <2>5. FullyUtilized(sp) <=> ~Listed(s)
    BY <2>2, <2>4 DEF Rejoined
  <2>. QED
    BY <2>3, <2>4, <2>5 DEF Rejoined
<1>. HIDE DEF left, joined, Listed
<1>10. /\ DOMAIN span' = kept /\ span' = [s \in DOMAIN span' |-> span'[s]]
       /\ \A s \in kept : span'[s] = joined[s] /\ span'[s].heap = span[s].heap /\ s \in Span
  <2>1. \A s \in kept : s \in Span
    BY <1>7 DEF Inv, TypeOK
  <2>. QED
    BY <1>3, <1>7, <1>9, <2>1
<1>11. \A s \in left : live \cap OfSpan(s) # {} => s \in kept
  BY <1>8, <1>9
<1>12. /\ air' = air /\ stored' = stored /\ taken' = taken /\ pushed' = pushed
       /\ air = {} /\ stored = {} /\ taken = {} /\ pushed = {}
       /\ \A t \in Thread : pc[t].at = "idle" /\ pc[t].at \notin OnSpan
  BY <1>3, AllIdle DEF air, stored, taken, pushed, SpanOf
<1>13. \A h \in Heap : Stays[h] = Partly(h)'
  <2>. SUFFICES ASSUME NEW h \in Heap PROVE Stays[h] = Partly(h)'
    OBVIOUS
  <2>1. Partly(h)' = {s \in DOMAIN span' :
                        span'[s].heap = h /\ (~FullyUtilized(span'[s]) \/ s \in taken')}
    BY DEF Partly, FullyUtilized
  <2>2. Range(partial[h]) = {s \in DOMAIN span : span[s].heap = h /\ ~FullyUtilized(span[s])}
    BY <1>12 DEF Inv, ListsOK, Partly
  <2>3. Stays[h] = {s \in kept : s \in Range(partial[h]) \/ (span[s].heap = h /\ Active(s))}
    BY <1>2
  <2>4. Stays[h] = {s \in kept : span[s].heap = h /\ Listed(s)}
    BY <1>7, <2>2, <2>3 DEF Listed
  <2>5. \A s \in kept : FullyUtilized(span'[s]) <=> ~Listed(s)
    BY <1>7, <1>9, <1>10
  <2>. QED
    BY <1>10, <1>12, <2>1, <2>4, <2>5
<1>14. \A h \in Heap : {s \in kept : span[s].heap = h /\ ~Listed(s)} = Fully(h)'
  <2>. SUFFICES ASSUME NEW h \in Heap
                PROVE  {s \in kept : span[s].heap = h /\ ~Listed(s)} = Fully(h)'
    OBVIOUS
  <2>1. Fully(h)' = {s \in DOMAIN span' :
                       span'[s].heap = h /\ FullyUtilized(span'[s]) /\ s \notin taken'}
    BY DEF Fully, FullyUtilized
  <2>2. \A s \in kept : FullyUtilized(span'[s]) <=> ~Listed(s)
    BY <1>7, <1>9, <1>10
  <2>. QED
    BY <1>10, <1>12, <2>1, <2>2
<1>15. \A h \in Heap : Given(h)' = {}
  <2>. SUFFICES ASSUME NEW h \in Heap PROVE Given(h)' = {}
    OBVIOUS
  <2>1. Given(h)' = {s \in DOMAIN span' : span'[s].heap = h /\ s \notin pushed'
                                          /\ OfSpan(s) \subseteq span'[s].deferred}
    BY DEF Given, OfSpan, Indices
  <2>2. \A s \in kept : ~(OfSpan(s) \subseteq span'[s].deferred)
    BY <1>4, <1>7, <1>9, <1>10
  <2>. QED
    BY <1>10, <2>1, <2>2
<1>16. ASSUME NEW h \in Heap
       PROVE  /\ SetToSeq(Stays[h]) \in Seq(Span) /\ IsInjective(SetToSeq(Stays[h]))
              /\ Range(SetToSeq(Stays[h])) = Stays[h]
  <2>1. Stays[h] \subseteq Span
    BY <1>2, <1>10
  <2>2. IsFiniteSet(Stays[h])
    BY <2>1, SpansFinite
  <2>3. SetToSeq(Stays[h]) \in Seq(Stays[h])
    BY <2>2, SetToSeqIs
  <2>. QED
    BY <2>1, <2>2, <2>3, SetToSeqIs, SeqMonotonic
<1>17. ListsOK'
  BY <1>3, <1>13, <1>14, <1>15, <1>16 DEF ListsOK
<1>18. TypeOK'
  <2>1. partial' \in [Heap -> Seq(Span)]
    BY <1>3, <1>16
  <2>2. full' \in [Heap -> Int]
    <3>1. \A h \in Heap : Cardinality({s \in kept : span[s].heap = h /\ ~Listed(s)}) \in Int
      BY <1>10, SpansFinite
    <3>. QED
      BY <1>3, <3>1
  <2>3. /\ classFree' \in [Heap -> SUBSET Block] /\ deferred' \in [Heap -> SUBSET Span]
        /\ finalized' \in BOOLEAN
    BY <1>3
  <2>4. \A s \in DOMAIN span' : span'[s] \in SpanType(s)'
    BY <1>7, <1>9, <1>10 DEF SpanType
  <2>5. pool' = Span \ DOMAIN span' /\ DOMAIN span' \subseteq Span
    BY <1>3, <1>7, <1>10 DEF Inv, TypeOK
  <2>. QED
    BY <1>3, <1>10, <2>1, <2>2, <2>3, <2>4, <2>5 DEF Inv, TypeOK
<1>19. ASSUME NEW s \in DOMAIN span' PROVE SpanOK(s)'
  <2>1. s \in left /\ span'[s] = joined[s] /\ s \in Span /\ span'[s].heap \in Heap
    BY <1>7, <1>10 DEF Inv, TypeOK, SpanType
  <2>2. Back(s)' = span'[s].deferred
    BY <1>12 DEF Back
  <2>3. Places(s)'
    <3>1. \A b \in OfSpan(s) : ~(b[2] <= span'[s].limit) <=> b[2] > span'[s].limit
      BY <1>9, <2>1, OfSpanIs, CountAssumption DEF SpanType
    <3>2. OfSpan(s)' = OfSpan(s) /\ live' = live /\ classFree'[span'[s].heap] = {}
      BY <1>3, <2>1 DEF OfSpan, Indices
    <3>. QED
      BY <1>9, <1>12, <2>1, <3>1, <3>2 DEF Places
  <2>4. Counts(s)'
    BY <1>9, <2>1, <2>2 DEF Counts
  <2>5. span'[s] \in SpanType(s)'
    BY <1>9, <2>1 DEF SpanType
  <2>. QED
    BY <2>3, <2>4, <2>5 DEF SpanOK
<1>20. Rooted'
  <2>1. \A b \in live : b[1] \in kept
    <3>1. \A b \in live : b \in OfSpan(b[1])
      BY BlocksAre DEF Inv, TypeOK
    <3>. QED
      BY <1>5, <1>11, <3>1
  <2>. QED
    BY <1>3, <1>10, <2>1 DEF Rooted
<1>21. OwnersOK'
  BY <1>3 DEF Inv, OwnersOK
<1>22. LocksOK'
  <2>1. \A s \in kept : span'[s].locked = span[s].locked /\ s \in DOMAIN span
    BY <1>7, <1>9, <1>10
  <2>3. \A t \in Thread : SpanOf(t)' = SpanOf(t) /\ pc'[t] = pc[t]
    BY <1>3 DEF SpanOf
  <2>. QED
    BY <1>10, <2>1, <2>3 DEF Inv, LocksOK
<1>23. CallsOK'
  <2>1. \A t \in Thread : pc'[t].at = "idle"
    BY <1>3, <1>12
  <2>. QED
    BY <2>1, CallOff DEF CallsOK
<1>24. FinalOK'
  BY <1>3, <1>12 DEF FinalOK
<1>25. Reclaimed'
  <2>. SUFFICES ASSUME NEW s \in kept PROVE live \cap OfSpan(s) # {}
    BY <1>3, <1>10 DEF Reclaimed, OfSpan, Indices
  <2>1. s \in left /\ s \in DOMAIN span
    BY <1>7
  <2>2. CASE Listed(s)
    BY <1>8, <1>9, <2>1, <2>2
  <2>3. CASE ~Listed(s)
    <3>1. FullyUtilized(joined[s]) /\ joined[s].limit <= BlockCount
      BY <1>9, <2>1, <2>3 DEF SpanType
    <3>2. PICK b \in OfSpan(s) : b \notin joined[s].deferred
      BY <1>4, <1>9, <2>1
    <3>3. b[2] <= joined[s].limit /\ joined[s].free = {}
      <4>1. b[2] \in 1 .. BlockCount /\ joined[s].limit \in 1 .. BlockCount
        BY <1>9, <1>10, <2>1, OfSpanIs DEF SpanType
      <4>. QED
        BY <3>1, <4>1, CountAssumption DEF FullyUtilized
    <3>4. b \in live
      BY <1>9, <2>1, <3>2, <3>3
    <3>. QED
      BY <3>4
  <2>. QED
    BY <2>2, <2>3
<1>. QED
  BY <1>17, <1>18, <1>19, <1>20, <1>21, <1>22, <1>23, <1>24, <1>25 DEF Inv

(* A thread that adopted spans to find one has no block in its class.      *)
NewOK == \A t \in Thread : pc[t].at = "new" => classFree[mine[t]] = {}

(* A step of one thread keeps NewOK for the others.                        *)
LEMMA NewKeeps ==
  ASSUME NewOK, NEW t \in Thread,
         \A u \in Thread \ {t} : pc'[u] = pc[u] /\ mine'[u] = mine[u],
         \A u \in Thread \ {t} :
           pc[u].at = "new" => classFree'[mine[u]] \subseteq classFree[mine[u]],
         pc'[t].at = "new" => classFree'[mine'[t]] = {}
  PROVE  NewOK'
BY DEF NewOK

(* Every step keeps NewOK.                                                 *)
LEMMA NewStep ==
  ASSUME Inv, NewOK, Next
  PROVE  NewOK'
<1>0. ASSUME NEW t \in Thread, NEW w, NEW c, Goto(t, w, c)
      PROVE  pc'[t].at = w /\ \A u \in Thread \ {t} : pc'[u] = pc[u]
  BY <1>0 DEF Inv, TypeOK, Goto
<1>1. ASSUME NEW t \in Thread, NEW w, NEW c, w # "new", Goto(t, w, c), UNCHANGED <<mine, classFree>>
      PROVE  NewOK'
  BY <1>0, <1>1, NewKeeps
<1>2. ASSUME NEW t \in Thread, mine[t] # None, UNCHANGED mine,
             \A h \in Heap \ {mine[t]} : classFree'[h] = classFree[h],
             NEW w, NEW c, w # "new", Goto(t, w, c)
      PROVE  NewOK'
  <2>1. \A u \in Thread \ {t} : pc[u].at = "new" => mine[u] \in Heap \ {mine[t]}
    BY <1>2 DEF Inv, TypeOK, OwnersOK
  <2>2. pc'[t].at = w /\ \A u \in Thread \ {t} : pc'[u] = pc[u]
    BY <1>0, <1>2
  <2>. QED
    BY <1>2, <2>1, NewKeeps, <2>2
<1>3. ASSUME NEW t \in Thread, Malloc(t)
      PROVE  NewOK'
  <2>. USE <1>3
  <2>1. pc[t] = Idle /\ mine[t] # None /\ mine[t] \in Heap
    BY DEF Malloc, Inv, TypeOK
  <2>2. CASE MallocFast(t)
    <3>1. \A u \in Thread : pc'[u] = pc[u] /\ mine'[u] = mine[u] /\ pc[t].at # "new"
      BY <2>1, <2>2 DEF MallocFast, Idle
    <3>2. \A h \in Heap : classFree'[h] \subseteq classFree[h]
      BY <2>2 DEF MallocFast, Inv, TypeOK
    <3>3. \A u \in Thread : pc[u].at = "new" => mine[u] \in Heap
      BY DEF Inv, TypeOK, OwnersOK
    <3>. QED
      BY <3>1, <3>2, <3>3, NewKeeps
  <2>3. CASE MallocPartial(t)
    <3>1. UNCHANGED mine /\ \A h \in Heap \ {mine[t]} : classFree'[h] = classFree[h]
      BY <2>3 DEF MallocPartial, Inv, TypeOK
    <3>2. (\E b : Goto(t, "extract", b)) \/ Goto(t, "idle", None)
      BY <2>3 DEF MallocPartial, TakeFrom
    <3>. QED
      BY <1>2, <2>1, <3>1, <3>2
  <2>4. CASE MallocNew(t)
    <3>1. CASE NewSpan(t)
      <4>1. UNCHANGED mine /\ \A h \in Heap \ {mine[t]} : classFree'[h] = classFree[h]
        BY <3>1 DEF NewSpan, Inv, TypeOK
      <4>. QED
        BY <1>2, <2>1, <3>1, <4>1 DEF NewSpan
    <3>2. CASE Goto(t, "new", None) /\ UNCHANGED <<classFree, mine>>
      BY <1>0, <2>4, <3>2, NewKeeps DEF MallocNew
    <3>. QED
      BY <2>4, <3>1, <3>2 DEF MallocNew
  <2>. QED
    BY <2>2, <2>3, <2>4 DEF Malloc
<1>4. ASSUME NEW t \in Thread, ThreadInit(t)
      PROVE  NewOK'
  <2>1. /\ Goto(t, "own", None) /\ UNCHANGED classFree
        /\ \A u \in Thread \ {t} : mine'[u] = mine[u]
    BY <1>4 DEF ThreadInit, Inv, TypeOK
  <2>. QED
    BY <1>0, <2>1, NewKeeps
<1>5. ASSUME NEW t \in Thread, ThreadFinalize(t)
      PROVE  NewOK'
  BY <1>1, <1>5 DEF ThreadFinalize
<1>6. ASSUME NEW t \in Thread, Continue(t)
      PROVE  NewOK'
  <2>1. CASE Extract(t)
    BY <1>1, <2>1 DEF Extract, TakeFrom
  <2>2. CASE NewAfterAdopt(t)
    <3>1. UNCHANGED mine /\ \A h \in Heap \ {mine[t]} : classFree'[h] = classFree[h]
      BY <2>2 DEF NewAfterAdopt, NewSpan, Inv, TypeOK
    <3>2. mine[t] # None
      BY <2>2 DEF NewAfterAdopt, At, Inv, OwnersOK
    <3>. QED
      BY <1>2, <2>2, <3>1, <3>2 DEF NewAfterAdopt, NewSpan
  <2>3. CASE Sync(t)
    BY <1>1, <2>3 DEF Sync
  <2>4. CASE Defer(t)
    <3>1. UNCHANGED <<mine, classFree>>
      BY <2>4 DEF Defer, heaps
    <3>2. \E w \in {"count", "store", "store all", "push", "idle"} : \E c : Goto(t, w, c)
      BY <2>4 DEF Defer, DeferLock, DeferCount, DeferStore
    <3>. QED
      BY <1>1, <3>1, <3>2
  <2>5. CASE DeferSpan(t)
    BY <1>1, <2>5 DEF DeferSpan
  <2>6. CASE Own(t)
    BY <1>1, <2>6 DEF Own, heaps
  <2>7. CASE Orphan(t)
    <3>1. /\ Goto(t, "idle", None) /\ UNCHANGED classFree
          /\ \A u \in Thread \ {t} : mine'[u] = mine[u]
      BY <2>7 DEF Orphan, heaps, Inv, TypeOK
    <3>. QED
      BY <1>0, <3>1, NewKeeps
  <2>. QED
    BY <1>6, <2>1, <2>2, <2>3, <2>4, <2>5, <2>6, <2>7 DEF Continue
<1>7. ASSUME NEW t \in Thread, NEW b \in live, Free(t, b)
      PROVE  NewOK'
  <2>1. UNCHANGED <<mine, classFree>>
    BY <1>7 DEF Free
  <2>2. UNCHANGED pc \/ \E w \in {"idle", "sync", "lock"} : \E c : Goto(t, w, c)
    BY <1>7 DEF Free, FreeDirect, AllFree
  <2>3. CASE UNCHANGED pc
    BY <2>1, <2>3 DEF NewOK
  <2>. QED
    BY <1>1, <2>1, <2>2, <2>3
<1>8. ASSUME Finalize
      PROVE  NewOK'
  BY <1>8 DEF Finalize, NewOK, Idle
<1>. QED
  BY <1>3, <1>4, <1>5, <1>6, <1>7, <1>8 DEF Next

(* Every step keeps the invariant.                                         *)
LEMMA NextInv ==
  ASSUME Inv, NewOK, Next
  PROVE  Inv'
<1>1. ASSUME NEW t \in Thread, Malloc(t)
      PROVE  Inv'
  <2>. USE <1>1
  <2>1. pc[t] = Idle /\ mine[t] # None /\ ~finalized
    BY DEF Malloc
  <2>2. CASE MallocFast(t)
    BY <2>1, <2>2, MallocFastInv
  <2>3. CASE MallocPartial(t)
    BY <2>1, <2>3, MallocPartialInv
  <2>4. CASE MallocNew(t)
    <3>1. CASE NewSpan(t)
      BY <2>1, <2>4, <3>1, NewSpanInv DEF MallocNew, Idle
    <3>2. CASE /\ Adopt(mine[t]) /\ Goto(t, "new", None)
               /\ UNCHANGED <<classFree, partial, owner, orphans, mine, live, finalized>>
      BY <2>1, <3>2, MallocAdoptsInv
    <3>. QED
      BY <2>4, <3>1, <3>2 DEF MallocNew
  <2>. QED
    BY <2>2, <2>3, <2>4 DEF Malloc
<1>2. ASSUME NEW t \in Thread, Continue(t)
      PROVE  Inv'
  <2>1. CASE NewAfterAdopt(t)
    <3>1. pc[t].at = "new" /\ NewSpan(t)
      BY <2>1 DEF NewAfterAdopt, At
    <3>2. mine[t] # None /\ classFree[mine[t]] = {}
      BY <3>1 DEF NewOK, Inv, OwnersOK
    <3>. QED
      BY <3>1, <3>2, NewSpanInv
  <2>2. CASE Defer(t)
    BY <2>2, DeferLockInv, DeferCountInv, DeferStoreInv DEF Defer
  <2>. QED
    BY <1>2, <2>1, <2>2, ExtractInv, SyncInv, DeferSpanInv, OwnInv, OrphanInv DEF Continue
<1>3. ASSUME NEW t \in Thread, NEW b \in live, Free(t, b)
      PROVE  Inv'
  <2>1. /\ pc[t] = Idle /\ (finalized => \A u \in Thread : pc[u] = Idle)
        /\ live' = live \ {b}
        /\ UNCHANGED <<classFree, deferred, owner, orphans, mine, finalized>>
    BY <1>3 DEF Free
  <2>2. CASE FreeDirect(t, b)
    BY <2>1, <2>2, FreeDirectInv
  <2>3. CASE ~finalized /\ Goto(t, "lock", b) /\ UNCHANGED <<span, pool, partial, full>>
    BY <2>1, <2>3, FreeRemoteInv DEF heaps
  <2>. QED
    BY <1>3, <2>2, <2>3 DEF Free
<1>. QED
  BY <1>1, <1>2, <1>3, ThreadInitInv, ThreadFinalizeInv, FinalizeInv DEF Next

(* So does one that changes nothing.                                       *)
LEMMA StutterInv ==
  ASSUME Inv, NewOK, UNCHANGED vars
  PROVE  Inv' /\ NewOK'
<1>1. UNCHANGED <<span, pool, classFree, partial, full, deferred, owner, orphans, mine, live, pc,
                  finalized>>
  BY DEF vars, heaps
<1>2. UNCHANGED <<air, stored, taken, pushed>>
  BY <1>1 DEF air, stored, taken, pushed, SpanOf
<1>3. TypeOK' /\ Rooted' /\ OwnersOK' /\ FinalOK' /\ NewOK'
  BY <1>1 DEF Inv, TypeOK, Rooted, OwnersOK, FinalOK, NewOK
<1>4. (\A s \in DOMAIN span : SpanOK(s))'
  <2>1. \A s \in DOMAIN span : Places(s)' /\ Back(s)' = Back(s)
    BY <1>1, <1>2 DEF Inv, SpanOK, Places, Back
  <2>2. \A s \in DOMAIN span : span'[s] \in SpanType(s) /\ Counts(s)'
    BY <1>1, <2>1 DEF Inv, SpanOK, Counts
  <2>. QED
    BY <1>1, <2>1, <2>2 DEF SpanOK, SpanType
<1>5. LocksOK' /\ CallsOK' /\ Reclaimed'
  <2>1. LocksOK'
    BY <1>1 DEF Inv, LocksOK, SpanOf
  <2>2. CallsOK'
    BY <1>1, <1>2 DEF Inv, CallsOK, CallOK, Back, SpanOf
  <2>3. Reclaimed'
    BY <1>1 DEF Inv, Reclaimed, At, SpanOf
  <2>. QED
    BY <2>1, <2>2, <2>3
<1>6. ListsOK'
  BY <1>1, <1>2 DEF Inv, ListsOK, Partly, Fully, Given, FullyUtilized
<1>. QED
  BY <1>3, <1>4, <1>5, <1>6 DEF Inv

(* The invariant holds in every state, for any number of threads, heaps,   *)
(* spans and blocks.                                                       *)
THEOREM Invariance == Spec => [](Inv /\ NewOK)
<1>1. Init => Inv /\ NewOK
  BY InitInv DEF Init, NewOK, Idle
<1>2. Inv /\ NewOK /\ [Next]_vars => (Inv /\ NewOK)'
  BY NextInv, NewStep, StutterInv
<1>. QED
  BY <1>1, <1>2, PTL DEF Spec
-----------------------------------------------------------------------------

(* Spans only go when nobody is on one of their blocks.                    *)
LEMMA TouchIs ==
  ASSUME Inv
  PROVE  NoLateTouch
<1>1. {"lock", "count", "store", "store all", "push", "extract", "sync"} = OnSpan
  BY DEF OnSpan, OnBlock, Carrying, Holding, Storing
<1>. QED
  BY <1>1 DEF NoLateTouch, Inv, CallsOK, CallOK

(* The invariant has the spans where SpansFound says.                      *)
LEMMA FoundIs ==
  ASSUME Inv
  PROVE  SpansFound
<1>. SUFFICES ASSUME NEW h \in Heap
              PROVE  LET of == {s \in DOMAIN span : span[s].heap = h} IN
                     /\ IsInjective(partial[h])
                     /\ Range(partial[h]) = {s \in of : ~FullyUtilized(span[s]) \/ s \in taken}
                     /\ full[h] =
                          Cardinality({s \in of : FullyUtilized(span[s]) /\ s \notin taken})
                     /\ deferred[h] = {s \in of : Cardinality(span[s].deferred) = BlockCount /\
                                         \A t \in Thread : ~(At(t, "push") /\ SpanOf(t) = s)}
  BY DEF SpansFound, taken, At
<1>. DEFINE of == {s \in DOMAIN span : span[s].heap = h}
<1>1. /\ Partly(h) = {s \in of : ~FullyUtilized(span[s]) \/ s \in taken}
      /\ Fully(h) = {s \in of : FullyUtilized(span[s]) /\ s \notin taken}
  BY DEF Partly, Fully
<1>2. \A s \in DOMAIN span :
        OfSpan(s) \subseteq span[s].deferred <=> Cardinality(span[s].deferred) = BlockCount
  <2>. SUFFICES ASSUME NEW s \in DOMAIN span
                PROVE  OfSpan(s) \subseteq span[s].deferred
                         <=> Cardinality(span[s].deferred) = BlockCount
    OBVIOUS
  <2>1. s \in Span /\ span[s].deferred \subseteq OfSpan(s)
    BY DEF Inv, TypeOK, SpanType
  <2>2. IsFiniteSet(OfSpan(s)) /\ Cardinality(OfSpan(s)) = BlockCount
    BY <2>1, OfSpanIs
  <2>3. Cardinality(span[s].deferred) = Cardinality(OfSpan(s)) => span[s].deferred = OfSpan(s)
    BY <2>1, <2>2, FS_Subset
  <2>4. OfSpan(s) \subseteq span[s].deferred => span[s].deferred = OfSpan(s)
    BY <2>1
  <2>. QED
    BY <2>2, <2>3, <2>4
<1>3. Given(h) = {s \in of : Cardinality(span[s].deferred) = BlockCount /\
                    \A t \in Thread : ~(At(t, "push") /\ SpanOf(t) = s)}
  BY <1>2 DEF Given, pushed, At
<1>. QED
  BY <1>1, <1>3 DEF Inv, ListsOK

(* list_size runs ahead of the deferred list by the thread that is about   *)
(* to put its block there.                                                 *)
LEMMA CountedIs ==
  ASSUME Inv, NEW s \in DOMAIN span
  PROVE  span[s].listSize - Cardinality(span[s].deferred) =
           Cardinality({t \in Thread : (At(t, "store") \/ At(t, "store all")) /\ SpanOf(t) = s})
<1>1. PICK on : on = {t \in Thread : (At(t, "store") \/ At(t, "store all")) /\ SpanOf(t) = s}
  OBVIOUS
<1>2. \A t \in Thread : t \in on <=> pc[t].at \in Storing /\ SpanOf(t) = s
  BY <1>1 DEF At, Storing
<1>3. /\ s \in Span /\ SpanOK(s) /\ IsFiniteSet(span[s].deferred)
      /\ Cardinality(span[s].deferred) \in Nat
      /\ span[s].listSize = Cardinality(Back(s))
  BY OfSpanIs, FS_Subset, FS_CardinalityType DEF Inv, TypeOK, SpanOK, SpanType, Counts
<1>4. ASSUME on = {} PROVE span[s].listSize - Cardinality(span[s].deferred) = Cardinality(on)
  <2>1. stored \cap OfSpan(s) = {}
    <3>. SUFFICES ASSUME NEW t \in Thread, pc[t].at \in Storing, pc[t].b \in OfSpan(s)
                  PROVE  FALSE
      BY DEF stored
    <3>1. SpanOf(t) = s
      BY <1>3, OfSpanIs DEF SpanOf
    <3>. QED
      BY <1>2, <1>4, <3>1
  <2>2. Back(s) = span[s].deferred
    BY <2>1 DEF Back
  <2>. QED
    BY <1>3, <1>4, <2>2, FS_EmptySet
<1>5. ASSUME on # {} PROVE span[s].listSize - Cardinality(span[s].deferred) = Cardinality(on)
  <2>1. PICK t \in Thread : t \in on /\ pc[t].at \in Storing /\ SpanOf(t) = s
    BY <1>1, <1>2, <1>5
  <2>2. pc[t].at \in Holding /\ pc[t].at \in Carrying
    BY <2>1, Kinds
  <2>3. on = {t}
    BY <1>1, <1>2, <2>1, <2>2, HolderAlone, Kinds
  <2>4. stored \cap OfSpan(s) = {pc[t].b}
    BY <2>1, <2>2, HolderAlone
  <2>5. pc[t].b \notin span[s].deferred
    BY <2>1, <2>2, Carrier
  <2>6. Cardinality(span[s].deferred \cup {pc[t].b}) = Cardinality(span[s].deferred) + 1
    BY <1>3, <2>5, FS_AddElement
  <2>7. Back(s) = span[s].deferred \cup {pc[t].b} /\ Cardinality({t}) = 1
    BY <2>4, FS_Singleton DEF Back
  <2>. QED
    BY <1>3, <2>3, <2>6, <2>7
<1>6. span[s].listSize - Cardinality(span[s].deferred) = Cardinality(on)
  BY <1>4, <1>5
<1>. QED
  BY <1>1, <1>6, Zenon

(* The invariant has the blocks where BlocksOK says.                       *)
LEMMA BlocksIs ==
  ASSUME Inv
  PROVE  BlocksOK
<1>1. ASSUME NEW s \in DOMAIN span, NEW sp, sp = span[s], NEW parts,
             parts = <<live \cap OfSpan(s), classFree[sp.heap] \cap OfSpan(s), sp.free,
                       sp.deferred, InFlight(s), Indices(s, sp.limit + 1, BlockCount)>>
      PROVE  /\ UNION {parts[i] : i \in 1 .. 6} = OfSpan(s)
             /\ \A i, j \in 1 .. 6 : i # j => parts[i] \cap parts[j] = {}
  <2>1. s \in Span /\ SpanOK(s) /\ sp \in SpanType(s) /\ Places(s)
    BY <1>1 DEF Inv, TypeOK, SpanOK
  <2>2. InFlight(s) = air \cap OfSpan(s)
    BY DEF InFlight, air, At, Carrying, Holding, Storing
  <2>3. PICK rest : rest = Indices(s, sp.limit + 1, BlockCount)
    OBVIOUS
  <2>4. /\ sp.limit \in 1 .. BlockCount /\ rest \subseteq OfSpan(s)
        /\ \A b \in OfSpan(s) : b \in rest <=> b[2] > sp.limit
    <3>1. sp.limit \in Nat /\ sp.limit \in 1 .. BlockCount /\ sp.limit + 1 \in Nat \ {0}
      BY <2>1, CountAssumption DEF SpanType
    <3>2. /\ rest \subseteq OfSpan(s)
          /\ \A b \in OfSpan(s) : b \in rest <=> sp.limit + 1 <= b[2] /\ b[2] <= BlockCount
      BY <2>1, <2>3, <3>1, IndicesAre, CountAssumption
    <3>3. \A b \in OfSpan(s) : b[2] \in 1 .. BlockCount
      BY <2>1, OfSpanIs
    <3>. QED
      BY <3>1, <3>2, <3>3, CountAssumption
  <2>5. /\ parts[1] = live \cap OfSpan(s) /\ parts[2] = classFree[sp.heap] \cap OfSpan(s)
        /\ parts[3] = sp.free /\ parts[4] = sp.deferred /\ parts[5] = air \cap OfSpan(s)
        /\ parts[6] = rest
    BY <1>1, <2>2, <2>3
  <2>6. \A b \in OfSpan(s) : b[2] > sp.limit <=> ~(b[2] <= sp.limit)
    BY <2>1, <2>4, OfSpanIs, CountAssumption
  <2>7. sp.free \subseteq OfSpan(s) /\ sp.deferred \subseteq OfSpan(s)
    BY <2>1 DEF SpanType
  <2>8. \A b \in OfSpan(s) : \E i \in 1 .. 6 : b \in parts[i]
    BY <1>1, <2>1, <2>4, <2>5 DEF Places
  <2>9. \A i \in 1 .. 6 : parts[i] \subseteq OfSpan(s)
    <3>1. \A i \in 1 .. 6 : i = 1 \/ i = 2 \/ i = 3 \/ i = 4 \/ i = 5 \/ i = 6
      OBVIOUS
    <3>. QED
      BY <2>4, <2>5, <2>7, <3>1
  <2>10. ASSUME NEW i \in 1 .. 6, NEW j \in 1 .. 6, i < j PROVE parts[i] \cap parts[j] = {}
    <3>. SUFFICES ASSUME NEW b \in OfSpan(s), b \in parts[i], b \in parts[j] PROVE FALSE
      BY <2>9
    <3>1. /\ b \in live => /\ b \notin classFree[sp.heap] /\ b \notin sp.free
                           /\ b \notin sp.deferred /\ b \notin air /\ b \notin rest
          /\ b \in classFree[sp.heap] => /\ b \notin sp.free /\ b \notin sp.deferred
                                         /\ b \notin air /\ b \notin rest
          /\ b \in sp.free => b \notin sp.deferred /\ b \notin air /\ b \notin rest
          /\ b \in sp.deferred => b \notin air /\ b \notin rest
          /\ b \in air => b \notin rest
      BY <1>1, <2>1, <2>4, <2>6 DEF Places
    <3>2. CASE i = 1
      BY <2>5, <2>10, <3>1, <3>2
    <3>3. CASE i = 2
      BY <2>5, <2>10, <3>1, <3>3
    <3>4. CASE i = 3
      BY <2>5, <2>10, <3>1, <3>4
    <3>5. CASE i = 4
      BY <2>5, <2>10, <3>1, <3>5
    <3>6. CASE i = 5
      BY <2>5, <2>10, <3>1, <3>6
    <3>. QED
      BY <2>10, <3>2, <3>3, <3>4, <3>5, <3>6
  <2>11. \A i, j \in 1 .. 6 : i # j => parts[i] \cap parts[j] = {}
    BY <2>10
  <2>. QED
    BY <2>8, <2>9, <2>11
<1>2. \A b \in live \cup UNION {classFree[h] : h \in Heap} : b[1] \in DOMAIN span
  BY DEF Inv, Rooted
<1>3. \A s \in DOMAIN span : span[s].usedCount = span[s].limit - Cardinality(span[s].free)
  BY DEF Inv, SpanOK, Counts
<1>4. ASSUME NEW s \in DOMAIN span
      PROVE  LET sp == span[s]
                 parts == <<live \cap OfSpan(s), classFree[sp.heap] \cap OfSpan(s), sp.free,
                            sp.deferred, InFlight(s), Indices(s, sp.limit + 1, BlockCount)>>
             IN  /\ UNION {parts[i] : i \in 1 .. 6} = OfSpan(s)
                 /\ \A i, j \in 1 .. 6 : i # j => parts[i] \cap parts[j] = {}
                 /\ sp.listSize - Cardinality(sp.deferred) =
                      Cardinality({t \in Thread :
                        (At(t, "store") \/ At(t, "store all")) /\ SpanOf(t) = s})
                 /\ sp.usedCount = sp.limit - Cardinality(sp.free)
  <2>. DEFINE parts == <<live \cap OfSpan(s), classFree[span[s].heap] \cap OfSpan(s),
                         span[s].free, span[s].deferred, InFlight(s),
                         Indices(s, span[s].limit + 1, BlockCount)>>
  <2>1. /\ UNION {parts[i] : i \in 1 .. 6} = OfSpan(s)
        /\ \A i, j \in 1 .. 6 : i # j => parts[i] \cap parts[j] = {}
    <3>1. PICK p : p = parts
      OBVIOUS
    <3>2. /\ UNION {p[i] : i \in 1 .. 6} = OfSpan(s)
          /\ \A i, j \in 1 .. 6 : i # j => p[i] \cap p[j] = {}
      BY <1>1, <3>1
    <3>. HIDE DEF parts
    <3>. QED
      BY <3>1, <3>2, Zenon
  <2>. QED
    BY <1>3, <2>1, CountedIs, Zenon
<1>. QED
  BY <1>2, <1>4, Zenon DEF BlocksOK
-----------------------------------------------------------------------------

(* A block handed out by rpmalloc() is in no list of free blocks, and no   *)
(* block is lost: each one of a span is with the program, with a thread on *)
(* its way, in one of the three lists, or not linked up yet. used_count    *)
(* and list_size, read without the lock, are what these lists say.         *)
THEOREM BlocksCorrect == Spec => []BlocksOK
<1>1. Inv => BlocksOK
  BY BlocksIs
<1>. QED
  BY <1>1, Invariance, PTL

(* A thread that frees another's block, fetches deferred ones or waits for *)
(* a list to be put back works on a span that is still in use: no order of *)
(* the steps of owner and others gives the span up under it.               *)
THEOREM LateTouchCorrect == Spec => []NoLateTouch
<1>1. Inv => NoLateTouch
  BY TouchIs
<1>. QED
  BY <1>1, Invariance, PTL

(* Every span with a block to give is in partial_span of its heap, each    *)
(* one that came back whole is in span_free_deferred or about to be, and   *)
(* full_span_count counts the rest, after whatever calls of the threads.   *)
THEOREM SpansCorrect == Spec => []SpansFound
<1>1. Inv => SpansFound
  BY FoundIs
<1>. QED
  BY <1>1, Invariance, PTL

(* After rpmalloc_finalize() only spans with a block that the program      *)
(* holds stay mapped, until it frees it.                                   *)
THEOREM FinalizeCorrect == Spec => []Reclaimed
<1>1. Inv => Reclaimed
  BY DEF Inv
<1>. QED
  BY <1>1, Invariance, PTL
=============================================================================
