------------------------------- MODULE RpSize -------------------------------
(***************************************************************************)
(* c/rpmalloc.c, the arithmetic of one block: which size class, how many   *)
(* spans or how many pages it gets, where its pointer lies, how much of it *)
(* can be used, where it moves when it is resized and how deallocation     *)
(* finds its start again. The numbers are the real ones.                   *)
(*                                                                         *)
(* Addresses are offsets from the span the block lies in, which starts at  *)
(* a multiple of the span size. Only the mapping of a huge block has an    *)
(* address of its own, modulo the span size.                               *)
(***************************************************************************)
EXTENDS Integers, FiniteSetsExt

CONSTANTS
  Sizes,      \* the sizes asked for
  Aligns,     \* the alignments asked for, powers of two
  Platforms,  \* the page size and the granularity of maps
  Null

SMALL_GRANULARITY  == 16
SMALL_CLASS_COUNT  == 65
SMALL_SIZE_LIMIT   == SMALL_GRANULARITY * (SMALL_CLASS_COUNT - 1)
MEDIUM_GRANULARITY == 512
MEDIUM_CLASS_COUNT == 61
SIZE_CLASS_COUNT   == SMALL_CLASS_COUNT + MEDIUM_CLASS_COUNT
LARGE_CLASS_COUNT  == 63
SPAN_HEADER_SIZE   == 128
SPAN               == 65536   \* _memory_span_size
LARGE_SIZE_LIMIT   == LARGE_CLASS_COUNT * SPAN - SPAN_HEADER_SIZE

ASSUME SizesAssumption  == Sizes \subseteq Nat
ASSUME AlignsAssumption ==
  Aligns \subseteq {1, 2, 4, 8, 16, 32, 64, 128, 256, 512, 1024, 2048, 4096, 8192, 16384, 32768,
                   65536, 131072, 262144, 524288, 1048576}
ASSUME PlatformAssumption ==
  \A p \in Platforms :
    /\ p.page \in 1 .. SPAN - 1 /\ SPAN % p.page = 0
    /\ p.granularity \in Nat \ {0} /\ SPAN % p.granularity = 0 /\ p.granularity % 8 = 0

VARIABLES
  platform,
  block,     \* the block, Null when there is none
  size,      \* the size and the alignment it was last asked for with
  align,
  mapped,    \* the maps of huge blocks
  errno,
  moved      \* the bytes of the old block the last call brought along, Null for other calls

vars == <<platform, block, size, align, mapped, errno, moved>>

page == platform.page
-----------------------------------------------------------------------------
DivUp(a, b)     == (a + b - 1) \div b
RoundUp(a, b)   == b * DivUp(a, b)
Smaller(a, b)   == IF a < b THEN a ELSE b

(* The size classes as they are set up, and the blocks that fit a span.    *)
FirstSize(class) ==
  IF class = 0 THEN SMALL_GRANULARITY
  ELSE IF class < SMALL_CLASS_COUNT THEN class * SMALL_GRANULARITY
  ELSE SMALL_SIZE_LIMIT + (class - SMALL_CLASS_COUNT + 1) * MEDIUM_GRANULARITY

BlockCount(blockSize) == (SPAN - SPAN_HEADER_SIZE) \div blockSize

(* _rpmalloc_adjust_size_class(): classes of which a span holds as many    *)
(* blocks are one, the largest of them.                                    *)
SizeClass == [class \in 0 .. SIZE_CLASS_COUNT - 1 |->
  FirstSize(Max({class} \cup
    {c \in SMALL_CLASS_COUNT .. SIZE_CLASS_COUNT - 1 :
       c > class /\ BlockCount(FirstSize(c)) = BlockCount(FirstSize(class))}))]

MediumLimit ==
  Max({(c - SMALL_CLASS_COUNT + 1) * MEDIUM_GRANULARITY + SMALL_SIZE_LIMIT :
         c \in {c \in SMALL_CLASS_COUNT .. SIZE_CLASS_COUNT - 1 :
                  FirstSize(c) <= (SPAN - SPAN_HEADER_SIZE) \div 2}})

(* _rpmalloc_allocate_small() and _rpmalloc_allocate_medium()              *)
ClassOf(n) ==
  IF n <= SMALL_SIZE_LIMIT
  THEN (n + SMALL_GRANULARITY - 1) \div SMALL_GRANULARITY
  ELSE SMALL_CLASS_COUNT + (n - (SMALL_SIZE_LIMIT + 1)) \div MEDIUM_GRANULARITY

(* A block: what its span is, the size, spans or pages it has, and where   *)
(* it starts; `ptr` is the address the caller has.                         *)
Block(kind, unit, start, ptr) ==
  [kind |-> kind, unit |-> unit, start |-> start, ptr |-> ptr,
   flag |-> FALSE, at |-> 0, offset |-> 0]

(* Any block of a span may be handed out: the first, second, third or last.*)
Blocks(blockSize) ==
  {Block("class", blockSize, SPAN_HEADER_SIZE + i * blockSize,
         SPAN_HEADER_SIZE + i * blockSize) :
     i \in ({0, 1, 2} \cap (0 .. BlockCount(blockSize) - 1)) \cup {BlockCount(blockSize) - 1}}
-----------------------------------------------------------------------------
(* _rpmalloc_mmap_os(): the region the system gives, padded to align the   *)
(* span when it is as large as one and the system does not align it.       *)
Padding(bytes) == IF bytes >= SPAN /\ SPAN > platform.granularity THEN SPAN ELSE 0

Places == {0, platform.granularity, SPAN - platform.granularity} \ {SPAN}

Region(raw, bytes) == [at |-> raw, len |-> bytes + Padding(bytes)]

(* The span's offset in the region, as it is kept: in units of 8 bytes.    *)
AlignOffset(raw, bytes) ==
  IF Padding(bytes) = 0 THEN 0 ELSE (SPAN - (raw % SPAN)) \div 8

(* Mutant of UnmapOS: gives back what was asked for, not what was mapped.  *)
UnmapUnpadded(base, bytes, offset) == [at |-> base - 8 * offset, len |-> bytes]

(* _rpmalloc_unmap_os(): the region given back.                            *)
UnmapOS(base, bytes, offset) ==
  [at  |-> base - 8 * offset,
   len |-> bytes + (IF offset # 0 /\ bytes >= SPAN /\ SPAN > platform.granularity
                    THEN SPAN ELSE 0)]

(* The blocks of `pages` pages with the pointer at ptr, each with its map. *)
HugeBlocks(pages, ptr) ==
  {LET off == AlignOffset(raw, pages * page)
   IN  [Block("huge", pages, SPAN_HEADER_SIZE, ptr) EXCEPT
          !.at = raw + 8 * off, !.offset = off] : raw \in Places}

RegionOf(b) == Region(b.at - 8 * b.offset, b.unit * page)

(* A large block may get half as many spans more than it needs, from a     *)
(* cache or a reserve that has no smaller ones.                            *)
SpanCounts(need) ==
  need .. Max({need, Smaller(LARGE_CLASS_COUNT, IF need > 2 THEN need + need \div 2 ELSE need)})

(* _rpmalloc_allocate(): where a block of n bytes may lie.                 *)
Allocated(n) ==
  IF n <= MediumLimit THEN Blocks(SizeClass[ClassOf(n)])
  ELSE IF n <= LARGE_SIZE_LIMIT
  THEN {Block("large", unit, SPAN_HEADER_SIZE, SPAN_HEADER_SIZE) :
          unit \in SpanCounts(DivUp(n + SPAN_HEADER_SIZE, SPAN))}
  ELSE HugeBlocks(DivUp(n + SPAN_HEADER_SIZE, page), SPAN_HEADER_SIZE)

(* The pointer moves up to the alignment, and the span remembers that it   *)
(* has such blocks.                                                        *)
Aligned(b, a) ==
  IF b.ptr % a = 0 THEN b ELSE [b EXCEPT !.ptr = RoundUp(@, a), !.flag = TRUE]

(* The loop that maps a block of its own for an alignment above the page   *)
(* size: a page more each time, until the aligned pointer lies in the      *)
(* first span of an aligned map and n bytes follow it.                     *)
FirstPages(a, n) ==
  LET pages == 1 + DivUp(n, page)
  IN  IF a \div page > pages THEN 1 + a \div page ELSE pages

LimitPages(a, n) == Max({2 * (SPAN \div page), 2 * FirstPages(a, n)})

Fits(pages, a, n) == RoundUp(SPAN_HEADER_SIZE, a) + n <= pages * page

(* The system has to give an aligned map if it pads it or aligns all maps. *)
Sure(pages, a, n) ==
  Fits(pages, a, n) /\ (pages * page >= SPAN \/ platform.granularity >= SPAN)

Tries(a, n)   == FirstPages(a, n) .. LimitPages(a, n)
GivesUp(a, n) == \A p \in Tries(a, n) : ~Sure(p, a, n)

LastTry(a, n) ==
  IF GivesUp(a, n) THEN LimitPages(a, n) ELSE Min({p \in Tries(a, n) : Sure(p, a, n)})

AlignedMaps(a, n) ==
  UNION {{b \in HugeBlocks(p, RoundUp(SPAN_HEADER_SIZE, a)) : b.at % SPAN = 0} :
           p \in {p \in FirstPages(a, n) .. LastTry(a, n) : Fits(p, a, n)}}

(* _rpmalloc_aligned_allocate(): the blocks it may return; {} for an error.*)
AlignedAllocated(a, n) ==
  LET multiple == IF n = 0 THEN SPAN_HEADER_SIZE ELSE RoundUp(n, SPAN_HEADER_SIZE)
  IN  IF a <= SMALL_GRANULARITY THEN Allocated(n)
      ELSE IF /\ a <= SPAN_HEADER_SIZE /\ n + SPAN_HEADER_SIZE < MediumLimit
              /\ multiple <= n + a
      THEN Allocated(multiple)
      ELSE IF a <= page THEN {Aligned(b, a) : b \in Allocated(n + a)}
      ELSE IF a >= SPAN THEN {}
      ELSE AlignedMaps(a, n)
-----------------------------------------------------------------------------
(* The bytes from the start of the span to the end of the block.           *)
End(b) == CASE b.kind = "class" -> b.start + b.unit
            [] b.kind = "large" -> b.unit * SPAN
            [] b.kind = "huge"  -> b.unit * page

(* _rpmalloc_usable_size()                                                 *)
UsableSize(b) ==
  IF b.kind = "class"
  THEN b.unit - ((b.ptr - SPAN_HEADER_SIZE) % b.unit)
  ELSE End(b) - b.ptr

(* The start of the block as _rpmalloc_deallocate() works it out, from the *)
(* span and the pointer alone.                                             *)
FoundStart(b) ==
  IF b.kind # "class" THEN SPAN_HEADER_SIZE
  ELSE IF b.flag THEN b.ptr - ((b.ptr - SPAN_HEADER_SIZE) % b.unit)
  ELSE b.ptr

(* Mutant of OldSize: takes the pointer for the start of the block.        *)
OldSizeWhole(b, oldsize) == IF oldsize = 0 THEN End(b) - b.start ELSE oldsize

(* The bytes _rpmalloc_reallocate() takes to be in use: what the caller    *)
(* says, or else all there are.                                            *)
OldSize(b, oldsize) == IF oldsize = 0 THEN End(b) - b.ptr ELSE oldsize

(* _rpmalloc_reallocate(): whether the block does for n bytes. That a      *)
(* number of bytes is no multiple of the span size is tested with a mask   *)
(* that leaves out the bit of the span size and takes in those above it.   *)
SpansFor(total) ==
  total \div SPAN + (IF total % SPAN # 0 \/ total \div SPAN > 1 THEN 1 ELSE 0)

StaysFor(b, n, old) ==
  LET total == n + SPAN_HEADER_SIZE
  IN  CASE b.kind = "class" -> b.unit >= n
        [] b.kind = "large" -> b.unit >= SpansFor(total) /\ total >= old \div 2
        [] b.kind = "huge"  -> /\ b.unit >= DivUp(total, page)
                               /\ DivUp(total, page) >= b.unit \div 2

(* The size of the new block: growing takes three eighths more.            *)
NewSize(old, n) ==
  LET lower == old + old \div 4 + old \div 8
  IN  IF n > lower THEN n ELSE IF n > old THEN lower ELSE n

(* rpaligned_realloc() keeps a block that is aligned and not much too      *)
(* large; with RPMALLOC_GROW_OR_FAIL, however large.                       *)
AlignedStays(b, a, n, growOrFail) ==
  UsableSize(b) >= n /\ b.ptr % a = 0 /\ (growOrFail \/ n >= UsableSize(b) \div 2)
-----------------------------------------------------------------------------
Init ==
  /\ platform \in Platforms
  /\ block = Null /\ size = 0 /\ align = 1
  /\ mapped = {} /\ errno = "0" /\ moved = Null

Unmapped(b) ==
  IF b # Null /\ b.kind = "huge"
  THEN mapped \ {UnmapOS(b.at, b.unit * page, b.offset)} ELSE mapped

Mapped(b) == IF b # Null /\ b.kind = "huge" THEN {RegionOf(b)} ELSE {}

Gives(b, n, a, bytes) ==
  /\ block' = b /\ size' = n /\ align' = a
  /\ mapped' = Mapped(b) \cup Unmapped(block) /\ errno' = "0" /\ moved' = bytes
  /\ UNCHANGED platform

(* The call returns 0 and has changed nothing.                             *)
Fails(how) ==
  errno' = how /\ moved' = Null /\ UNCHANGED <<platform, block, size, align, mapped>>

(* rpmalloc() and rpcalloc(); the caller has no other block.               *)
Malloc(n) ==
  /\ block = Null
  /\ \E b \in Allocated(n) : Gives(b, n, SMALL_GRANULARITY, Null)

(* The errors of _rpmalloc_aligned_allocate(): an alignment it can not do, *)
(* and no luck up to the last number of pages. Both set errno to EINVAL,   *)
(* told apart here; rpposix_memalign() returns ENOMEM for either and leaves*)
(* errno as it is.                                                         *)
AlignedFails(a, n) ==
  \/ a > page /\ a >= SPAN /\ Fails("EINVAL")
  \/ a > page /\ a < SPAN /\ GivesUp(a, n) /\ Fails("gave up")

(* rpaligned_alloc(), rpaligned_calloc(), rpmemalign(), rpposix_memalign() *)
AlignedAlloc(a, n) ==
  /\ block = Null
  /\ \/ \E b \in AlignedAllocated(a, n) : Gives(b, n, a, Null)
     \/ AlignedFails(a, n)

(* _rpmalloc_reallocate(): the block stays, the pointer at its start, or   *)
(* another takes its place.                                                *)
Reallocate(n, old, growOrFail) ==
  \/ /\ StaysFor(block, n, old)
     /\ Gives([block EXCEPT !.ptr = block.start], n, SMALL_GRANULARITY, old)
  \/ ~StaysFor(block, n, old) /\ growOrFail /\ Fails("0")
  \/ /\ ~StaysFor(block, n, old) /\ ~growOrFail
     /\ \E b \in Allocated(NewSize(old, n)) :
          Gives(b, n, SMALL_GRANULARITY, Smaller(old, NewSize(old, n)))

(* _rpmalloc_aligned_reallocate(), above the alignment every block has.    *)
AlignedReallocate(a, n, old, growOrFail) ==
  \/ AlignedStays(block, a, n, growOrFail) /\ Gives(block, n, a, UsableSize(block))
  \/ ~AlignedStays(block, a, n, growOrFail) /\ growOrFail /\ Fails("0")
  \/ /\ ~AlignedStays(block, a, n, growOrFail) /\ ~growOrFail
     /\ \/ \E b \in AlignedAllocated(a, n) : Gives(b, n, a, Smaller(old, n))
        \/ AlignedFails(a, n)

(* rprealloc()                                                             *)
Realloc(n) == block # Null /\ Reallocate(n, OldSize(block, 0), FALSE)

(* rpaligned_realloc(): the caller gives the size of the old block or 0.   *)
(* RPMALLOC_NO_PRESERVE, which only leaves out the copy, is not modelled.  *)
AlignedRealloc(a, n, oldsize, growOrFail) ==
  /\ block # Null
  /\ \/ /\ a <= SMALL_GRANULARITY
        /\ Reallocate(n, OldSize(block, oldsize), growOrFail)
     \/ /\ a > SMALL_GRANULARITY
        /\ AlignedReallocate(a, n, IF oldsize = 0 THEN UsableSize(block) ELSE oldsize, growOrFail)

(* rpfree()                                                                *)
Free == block # Null /\ Gives(Null, 0, 1, Null)

(* A call that finds no memory.                                            *)
NoMemory == Fails("ENOMEM")

Next ==
  \/ \E n \in Sizes : \/ Malloc(n) \/ Realloc(n)
                      \/ \E a \in Aligns :
                           \/ AlignedAlloc(a, n)
                           \/ \E oldsize \in {0, size}, growOrFail \in BOOLEAN :
                                AlignedRealloc(a, n, oldsize, growOrFail)
  \/ Free \/ NoMemory

Spec == Init /\ [][Next]_vars
-----------------------------------------------------------------------------
(* The pointer is aligned, and as many bytes as asked for follow it inside *)
(* the block, which lies inside its span or its pages and goes on as far   *)
(* as rpmalloc_usable_size() says.                                         *)
Inside ==
  LET span == IF block.kind = "class" THEN SPAN ELSE End(block)
  IN  /\ SPAN_HEADER_SIZE <= block.start /\ block.start <= block.ptr
      /\ block.ptr + size <= End(block) /\ End(block) <= span
      /\ block.ptr % align = 0
      /\ UsableSize(block) = End(block) - block.ptr

(* Deallocation finds the span and the start of the block from the pointer.*)
Findable == /\ block.ptr < SPAN /\ (block.kind = "huge" => block.at % SPAN = 0)
            /\ FoundStart(block) = block.start

(* Any sequence of allocations and resizings leaves a block that is        *)
(* Inside and Findable, and the maps of huge blocks are given back as they *)
(* were made; an alignment below the span size never fails but for want of *)
(* memory (rpmalloc.c:2447-2662, 2747-2760, 2856-3026, 997-1138).          *)
BlockOK ==
  /\ block # Null => Inside /\ Findable
  /\ mapped = Mapped(block)
  /\ errno # "gave up"

(* Resizing brings along all the caller had that still fits, and neither   *)
(* reads past the old block nor writes past the new one                    *)
(* (rpmalloc.c:2883-2997).                                                 *)
DataKept ==
  [][moved' # Null => /\ moved' >= Smaller(size, size')
                      /\ moved' <= End(block) - block.ptr
                      /\ moved' <= End(block') - block'.ptr]_vars
=============================================================================
