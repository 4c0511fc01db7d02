------------------------------- MODULE RpHeap -------------------------------
(***************************************************************************)
(* c/rpmalloc.c, the blocks of one size class: how the thread that owns a  *)
(* heap takes blocks from its spans and frees them, while other threads    *)
(* put blocks of the same spans on deferred lists.                         *)
(*                                                                         *)
(* Each step makes one access to what the threads share: the deferred list *)
(* of a span, whose INVALID_POINTER is a lock, its list_size, which the    *)
(* owner reads without it, and the deferred list of a heap. Which of the   *)
(* blocks of a list comes first is left out: lists of blocks are sets.     *)
(* Spans come from a pool, which RpSpan looks into.                        *)
(***************************************************************************)
EXTENDS Integers, FiniteSets, SequencesExt

CONSTANTS
  Thread,
  Heap,
  Spans,       \* how many spans the pool has
  BlockCount,  \* block_count of the size class
  PageBlocks,  \* blocks in a page: how many are linked up at a time
  MaxMallocs,  \* bounds the allocations
  MaxInits,    \* bounds the calls of rpmalloc_thread_initialize()
  None

ASSUME CountAssumption ==
  /\ Spans \in Nat /\ BlockCount \in Nat \ {0} /\ PageBlocks \in 1 .. BlockCount
  /\ MaxMallocs \in Nat /\ MaxInits \in Nat

ASSUME HeapAssumption == IsFiniteSet(Heap) /\ None \notin Thread \cup Heap

Span == 1 .. Spans
Block == Span \X (1 .. BlockCount)      \* a block is <<span, index>>

VARIABLES
  span,       \* span in use -> its span_t
  pool,       \* spans cached or not mapped yet
  classFree,  \* heap -> free_list of its size class
  partial,    \* heap -> partial_span, the list of its spans with free blocks
  full,       \* heap -> full_span_count
  deferred,   \* heap -> span_free_deferred
  owner,      \* heap -> owner_thread
  orphans,    \* _memory_orphan_heaps, those never used among them
  mine,       \* thread -> its heap (thread-local)
  live,       \* blocks the program holds
  pc,         \* thread -> where it is and its block (or span)
  finalized,
  calls       \* allocations and initialisations so far

heaps == <<classFree, partial, full, deferred>>
vars  == <<span, pool, heaps, owner, orphans, mine, live, pc, finalized, calls>>

Indices(s, from, to) == {s} \X (from .. to)
OfSpan(s) == Indices(s, 1, BlockCount)
Pick(blocks) == CHOOSE b \in blocks : \A c \in blocks : b[2] <= c[2]

Idle == [at |-> "idle", b |-> None]
At(t, where) == pc[t].at = where
Goto(t, where, b) == pc' = [pc EXCEPT ![t] = [at |-> where, b |-> b]]
SpanOf(t) == pc[t].b[1]

Init ==
  /\ span = [s \in {} |-> None]
  /\ pool = Span
  /\ classFree = [h \in Heap |-> {}]
  /\ partial = [h \in Heap |-> <<>>]
  /\ full = [h \in Heap |-> 0]
  /\ deferred = [h \in Heap |-> {}]
  /\ owner = [h \in Heap |-> None]
  /\ orphans = SetToSeq(Heap)
  /\ mine = [t \in Thread |-> None]
  /\ live = {}
  /\ pc = [t \in Thread |-> Idle]
  /\ finalized = FALSE
  /\ calls = [malloc |-> 0, init |-> 0]
---------------------------------------------------------------------------
(* _rpmalloc_span_is_fully_utilized()                                      *)
FullyUtilized(sp) == sp.free = {} /\ sp.limit >= BlockCount

(* Mutant of PageOf: the last page is not cut at the end of the span.      *)
WholePage(s, from) == Indices(s, from, from + PageBlocks - 1)

(* free_list_partial_init(): the blocks from `from` to the end of a page.  *)
PageOf(s, from) == Indices(s, from, Min({from + PageBlocks - 1, BlockCount}))

(* The size class has a free block.                                        *)
MallocFast(t) ==
  LET h == mine[t]
      b == Pick(classFree[h])
  IN  /\ classFree[h] # {}
      /\ classFree' = [classFree EXCEPT ![h] = @ \ {b}]
      /\ live' = live \cup {b}
      /\ UNCHANGED <<span, pool, partial, full, deferred, owner, orphans, mine, pc, finalized>>

(* The end of _rpmalloc_allocate_from_heap_fallback() for a partial span:  *)
(* used up, it leaves the list.                                            *)
TakeFrom(t, s, sp, b) ==
  /\ span' = [span EXCEPT ![s] = sp]
  /\ IF FullyUtilized(sp)
     THEN /\ partial' = [partial EXCEPT ![mine[t]] = Tail(@)]
          /\ full' = [full EXCEPT ![mine[t]] = @ + 1]
     ELSE UNCHANGED <<partial, full>>
  /\ live' = live \cup {b}
  /\ Goto(t, "idle", None)

(* The first partial span gives its free list to the size class, or links  *)
(* up another page; blocks freed by other threads are fetched next.        *)
MallocPartial(t) ==
  LET h == mine[t]
      s == Head(partial[h])
      sp == span[s]
      fresh == IF sp.free # {} THEN sp.free ELSE PageOf(s, sp.limit + 1)
      limit == IF sp.free # {} THEN sp.limit ELSE sp.limit + Cardinality(fresh)
      b == Pick(fresh)
      left == [sp EXCEPT !.free = {}, !.limit = limit, !.usedCount = limit]
  IN  /\ classFree[h] = {} /\ partial[h] # <<>>
      /\ classFree' = [classFree EXCEPT ![h] = fresh \ {b}]
      /\ IF sp.locked \/ sp.deferred # {}
         THEN /\ span' = [span EXCEPT ![s] = left]
              /\ Goto(t, "extract", b)
              /\ UNCHANGED <<partial, full, live>>
         ELSE TakeFrom(t, s, left, b)
      /\ UNCHANGED <<pool, deferred, owner, orphans, mine, finalized>>

(* Mutant of Extracted: the list stays locked.                             *)
ExtractedLocked(sp) ==
  [sp EXCEPT !.free = sp.deferred, !.usedCount = @ - sp.listSize,
             !.listSize = 0, !.deferred = {}, !.locked = TRUE]

(* _rpmalloc_span_extract_free_list_deferred(), once the lock is free.     *)
Extracted(sp) ==
  [sp EXCEPT !.free = sp.deferred, !.usedCount = @ - sp.listSize,
             !.listSize = 0, !.deferred = {}]

Extract(t) ==
  LET s == SpanOf(t)
  IN  /\ At(t, "extract")
      /\ ~span[s].locked
      /\ TakeFrom(t, s, Extracted(span[s]), pc[t].b)
      /\ UNCHANGED <<pool, classFree, deferred, owner, orphans, mine, finalized>>

(* _rpmalloc_span_initialize_new() of a span of the pool. Without one the  *)
(* allocation fails.                                                       *)
NewSpan(t) ==
  LET h == mine[t]
      s == Min(pool)
      page == PageOf(s, 1)
      b == Pick(page)
      sp == [heap |-> h, free |-> {}, limit |-> Cardinality(page),
             usedCount |-> Cardinality(page), deferred |-> {}, locked |-> FALSE, listSize |-> 0]
  IN  /\ IF pool = {}
         THEN UNCHANGED <<span, pool, classFree, partial, full, live>>
         ELSE /\ span' = [x \in DOMAIN span \cup {s} |-> IF x = s THEN sp ELSE span[x]]
              /\ pool' = pool \ {s}
              /\ classFree' = [classFree EXCEPT ![h] = page \ {b}]
              /\ live' = live \cup {b}
              /\ IF sp.limit < BlockCount
                 THEN partial' = [partial EXCEPT ![h] = <<s>> \o @] /\ UNCHANGED full
                 ELSE full' = [full EXCEPT ![h] = @ + 1] /\ UNCHANGED partial
      /\ Goto(t, "idle", None)
      /\ UNCHANGED <<deferred, owner, orphans, mine, finalized>>

(* Mutant of Adopt: the span is no longer full and still counted.          *)
AdoptUncounted(h) ==
  /\ deferred' = [deferred EXCEPT ![h] = {}]
  /\ pool' = pool \cup deferred[h]
  /\ span' = [s \in DOMAIN span \ deferred[h] |-> span[s]]
  /\ UNCHANGED full

(* _rpmalloc_heap_cache_adopt_deferred(): spans whose blocks are all free. *)
Adopt(h) ==
  /\ deferred' = [deferred EXCEPT ![h] = {}]
  /\ pool' = pool \cup deferred[h]
  /\ span' = [s \in DOMAIN span \ deferred[h] |-> span[s]]
  /\ full' = [full EXCEPT ![h] = @ - Cardinality(deferred[h])]

(* No cache has a span at hand: what others freed is adopted, then a span  *)
(* is taken or mapped. When a cache has one, nothing is adopted.           *)
MallocNew(t) ==
  /\ classFree[mine[t]] = {} /\ partial[mine[t]] = <<>>
  /\ \/ pool # {} /\ NewSpan(t)
     \/ /\ Adopt(mine[t])
        /\ Goto(t, "new", None)
        /\ UNCHANGED <<classFree, partial, owner, orphans, mine, live, finalized>>

NewAfterAdopt(t) == At(t, "new") /\ NewSpan(t)

(* rpmalloc() of a size of the class                                       *)
Malloc(t) ==
  /\ pc[t] = Idle /\ mine[t] # None /\ ~finalized /\ calls.malloc < MaxMallocs
  /\ calls' = [calls EXCEPT !.malloc = @ + 1]
  /\ MallocFast(t) \/ MallocPartial(t) \/ MallocNew(t)
---------------------------------------------------------------------------
(* _rpmalloc_span_double_link_list_remove()                                *)
Without(list, s) ==
  LET i == CHOOSE j \in DOMAIN list : list[j] = s
  IN  [j \in 1 .. Len(list) - 1 |-> list[IF j < i THEN j ELSE j + 1]]

(* _rpmalloc_span_release_to_cache(); finalised heaps unmap.               *)
ReleaseSpan(s, plist) ==
  /\ span' = [x \in DOMAIN span \ {s} |-> span[x]]
  /\ pool' = pool \cup {s}
  /\ partial' = [partial EXCEPT ![span[s].heap] = Without(plist, s)]

(* Mutant of AllFree: the owner does not wait for the thread that counted. *)
AllFreeAtOnce(t, s, sp, plist) ==
  IF sp.usedCount = sp.listSize
  THEN ReleaseSpan(s, plist) /\ Goto(t, "idle", None)
  ELSE /\ span' = [span EXCEPT ![s] = sp]
       /\ partial' = [partial EXCEPT ![sp.heap] = plist]
       /\ UNCHANGED <<pool, pc>>

(* After a free by the owner, every block in use is in the deferred list:  *)
(* the span can go, when nobody is inside that list any more.              *)
AllFree(t, s, sp, plist) ==
  IF sp.usedCount = sp.listSize /\ sp.usedCount = 0
  THEN ReleaseSpan(s, plist) /\ UNCHANGED pc
  ELSE /\ span' = [span EXCEPT ![s] = sp]
       /\ partial' = [partial EXCEPT ![sp.heap] = plist]
       /\ IF sp.usedCount = sp.listSize THEN Goto(t, "sync", <<s>>) ELSE UNCHANGED pc
       /\ UNCHANGED pool

(* _rpmalloc_deallocate_direct_small_or_medium(): a full span is put in    *)
(* the list of partial ones first.                                         *)
FreeDirect(t, b) ==
  LET s == b[1]
      h == span[s].heap
      wasFull == FullyUtilized(span[s])
      sp == [span[s] EXCEPT !.usedCount = (IF wasFull THEN BlockCount ELSE @) - 1,
                            !.free = @ \cup {b}]
  IN  /\ owner[h] = t \/ finalized
      /\ full' = [full EXCEPT ![h] = IF wasFull THEN @ - 1 ELSE @]
      /\ AllFree(t, s, sp, IF wasFull THEN <<s>> \o partial[h] ELSE partial[h])

Sync(t) ==
  /\ At(t, "sync")
  /\ ~span[SpanOf(t)].locked
  /\ ReleaseSpan(SpanOf(t), partial[span[SpanOf(t)].heap])
  /\ Goto(t, "idle", None)
  /\ UNCHANGED <<classFree, full, deferred, owner, orphans, mine, live, finalized>>

(* rpfree(): the owner frees directly, and so does the thread that is left *)
(* after rpmalloc_finalize().                                              *)
Free(t, b) ==
  /\ pc[t] = Idle /\ (finalized => \A u \in Thread : pc[u] = Idle)
  /\ live' = live \ {b}
  /\ \/ FreeDirect(t, b)
     \/ /\ owner[span[b[1]].heap] # t /\ ~finalized
        /\ Goto(t, "lock", b)
        /\ UNCHANGED <<span, pool, partial, full>>
  /\ UNCHANGED <<classFree, deferred, owner, orphans, mine, finalized, calls>>

(* _rpmalloc_deallocate_defer_small_or_medium(): take the list by an       *)
(* exchange with INVALID_POINTER, count the block, put the list back.      *)
DeferLock(t) ==
  /\ At(t, "lock")
  /\ ~span[SpanOf(t)].locked
  /\ span' = [span EXCEPT ![SpanOf(t)].locked = TRUE]
  /\ Goto(t, "count", pc[t].b)

DeferCount(t) ==
  /\ At(t, "count")
  /\ span' = [span EXCEPT ![SpanOf(t)].listSize = @ + 1]
  /\ Goto(t, IF span[SpanOf(t)].listSize + 1 = BlockCount THEN "store all" ELSE "store", pc[t].b)

DeferStore(t) ==
  /\ At(t, "store") \/ At(t, "store all")
  /\ span' = [span EXCEPT ![SpanOf(t)].locked = FALSE, ![SpanOf(t)].deferred = @ \cup {pc[t].b}]
  /\ IF At(t, "store all") THEN Goto(t, "push", pc[t].b) ELSE Goto(t, "idle", None)

Defer(t) ==
  /\ DeferLock(t) \/ DeferCount(t) \/ DeferStore(t)
  /\ UNCHANGED <<pool, heaps, owner, orphans, mine, live, finalized>>

(* _rpmalloc_deallocate_defer_free_span(): the block was the last in use.  *)
DeferSpan(t) ==
  /\ At(t, "push")
  /\ deferred' = [deferred EXCEPT ![span[SpanOf(t)].heap] = @ \cup {SpanOf(t)}]
  /\ Goto(t, "idle", None)
  /\ UNCHANGED <<span, pool, classFree, partial, full, owner, orphans, mine, live, finalized>>
---------------------------------------------------------------------------
(* rpmalloc_thread_initialize(): an orphan or a new heap, whose deferred   *)
(* spans are adopted before the thread becomes its owner.                  *)
ThreadInit(t) ==
  /\ pc[t] = Idle /\ mine[t] = None /\ orphans # <<>> /\ ~finalized /\ calls.init < MaxInits
  /\ calls' = [calls EXCEPT !.init = @ + 1]
  /\ orphans' = Tail(orphans)
  /\ mine' = [mine EXCEPT ![t] = Head(orphans)]
  /\ Adopt(Head(orphans))
  /\ Goto(t, "own", None)
  /\ UNCHANGED <<classFree, partial, owner, live, finalized>>

Own(t) ==
  /\ At(t, "own")
  /\ owner' = [owner EXCEPT ![mine[t]] = t]
  /\ Goto(t, "idle", None)
  /\ UNCHANGED <<span, pool, heaps, orphans, mine, live, finalized>>

(* rpmalloc_thread_finalize(): adopt, then _rpmalloc_heap_orphan().        *)
ThreadFinalize(t) ==
  /\ pc[t] = Idle /\ mine[t] # None /\ ~finalized
  /\ Adopt(mine[t])
  /\ Goto(t, "orphan", None)
  /\ UNCHANGED <<classFree, partial, owner, orphans, mine, live, finalized, calls>>

Orphan(t) ==
  /\ At(t, "orphan")
  /\ owner' = [owner EXCEPT ![mine[t]] = None]
  /\ orphans' = <<mine[t]>> \o orphans
  /\ mine' = [mine EXCEPT ![t] = None]
  /\ Goto(t, "idle", None)
  /\ UNCHANGED <<span, pool, heaps, live, finalized>>

(* Mutant of Joined: only partial spans get their class list back.         *)
JoinedIfPartial(s, sp) ==
  LET back == IF FullyUtilized(sp) THEN {} ELSE classFree[sp.heap] \cap OfSpan(s)
  IN  [sp EXCEPT !.free = @ \cup back, !.usedCount = @ - Cardinality(back)]

(* _rpmalloc_span_finalize(): the free list of the class goes back to the  *)
(* span it came from.                                                      *)
Joined(s, sp) ==
  LET back == classFree[sp.heap] \cap OfSpan(s)
  IN  [sp EXCEPT !.free = @ \cup back, !.usedCount = @ - Cardinality(back)]

(* rpmalloc_finalize(), _rpmalloc_heap_finalize(): spans deferred to the   *)
(* heap, and partial ones and the one of the class list if no block of     *)
(* theirs is in use, are unmapped. That span may have been full; it is     *)
(* partial if it stays. Nothing is allocated afterwards: the order of the  *)
(* list is left out.                                                       *)
Finalize ==
  /\ ~finalized
  /\ \A t \in Thread : pc[t] = Idle /\ mine[t] = None
  /\ finalized' = TRUE
  /\ LET left == DOMAIN span \ UNION {deferred[h] : h \in Heap}
         joined == [s \in left |-> Joined(s, span[s])]
         Active(s) == classFree[span[s].heap] \cap OfSpan(s) # {}
         Listed(s) == ~FullyUtilized(span[s]) \/ Active(s)
         kept == {s \in left : Listed(s) => joined[s].listSize # joined[s].usedCount}
         Stays(h) == {s \in kept : s \in Range(partial[h]) \/ (span[s].heap = h /\ Active(s))}
     IN  /\ span' = [s \in kept |-> joined[s]]
         /\ pool' = pool \cup (DOMAIN span \ kept)
         /\ partial' = [h \in Heap |-> SetToSeq(Stays(h))]
         /\ full' = [h \in Heap |->
              Cardinality({s \in kept : span[s].heap = h /\ ~Listed(s)})]
  /\ classFree' = [h \in Heap |-> {}]
  /\ deferred' = [h \in Heap |-> {}]
  /\ UNCHANGED <<owner, orphans, mine, live, pc, calls>>
---------------------------------------------------------------------------
Continue(t) ==
  /\ Extract(t) \/ NewAfterAdopt(t) \/ Sync(t) \/ Defer(t) \/ DeferSpan(t) \/ Own(t) \/ Orphan(t)
  /\ UNCHANGED calls

Next ==
  \/ \E t \in Thread : Malloc(t) \/ ThreadInit(t) \/ ThreadFinalize(t) \/ Continue(t)
  \/ \E t \in Thread, b \in live : Free(t, b)
  \/ Finalize

(* A thread inside a call goes on.                                         *)
Spec == Init /\ [][Next]_vars /\ \A t \in Thread : WF_vars(Continue(t))
---------------------------------------------------------------------------
InFlight(s) == {pc[t].b : t \in {u \in Thread : At(u, "extract") \/ At(u, "lock")
                                   \/ At(u, "count") \/ At(u, "store") \/ At(u, "store all")}}
                 \cap OfSpan(s)

(* Every block of a span is in one place: held by the program, in the list *)
(* of the class, of the span or of deferred blocks, on its way between     *)
(* them, or beyond what was linked up. The counts that stand for these     *)
(* lists agree with them.                                                  *)
BlocksOK ==
  /\ \A s \in DOMAIN span :
       LET sp == span[s]
           parts == <<live \cap OfSpan(s), classFree[sp.heap] \cap OfSpan(s), sp.free,
                      sp.deferred, InFlight(s), Indices(s, sp.limit + 1, BlockCount)>>
       IN  /\ UNION {parts[i] : i \in 1 .. 6} = OfSpan(s)
           /\ \A i, j \in 1 .. 6 : i # j => parts[i] \cap parts[j] = {}
           /\ sp.listSize - Cardinality(sp.deferred) =
                Cardinality({t \in Thread : (At(t, "store") \/ At(t, "store all")) /\ SpanOf(t) = s})
           /\ sp.usedCount = sp.limit - Cardinality(sp.free)
  /\ \A b \in live \cup UNION {classFree[h] : h \in Heap} : b[1] \in DOMAIN span

(* A thread that frees a block of another's span never touches the span    *)
(* once it was given up.                                                   *)
NoLateTouch ==
  \A t \in Thread :
    pc[t].at \in {"lock", "count", "store", "store all", "push", "extract", "sync"}
      => SpanOf(t) \in DOMAIN span

(* No span is lost: one with a block to give is in the list of partial     *)
(* spans, once; one whose blocks all came back from other threads is in    *)
(* the deferred list of its heap or about to be; and what full_span_count  *)
(* counts, which keeps the heap alive, are the others.                     *)
SpansFound ==
  \A h \in Heap :
    LET of == {s \in DOMAIN span : span[s].heap = h}
        taking == {SpanOf(t) : t \in {u \in Thread : At(u, "extract")}}
    IN  /\ IsInjective(partial[h])
        /\ Range(partial[h]) = {s \in of : ~FullyUtilized(span[s]) \/ s \in taking}
        /\ full[h] = Cardinality({s \in of : FullyUtilized(span[s]) /\ s \notin taking})
        /\ deferred[h] = {s \in of : Cardinality(span[s].deferred) = BlockCount
                                     /\ \A t \in Thread : ~(At(t, "push") /\ SpanOf(t) = s)}

(* After rpmalloc_finalize(), and after every free that comes later, a     *)
(* span stays mapped only for a block the program still holds.             *)
Reclaimed ==
  finalized => \A s \in DOMAIN span :
    live \cap OfSpan(s) # {} \/ \E t \in Thread : At(t, "sync") /\ SpanOf(t) = s

(* No thread spins for ever on a deferred list.                            *)
CallsEnd == \A t \in Thread : pc[t] # Idle ~> pc[t] = Idle
=============================================================================
