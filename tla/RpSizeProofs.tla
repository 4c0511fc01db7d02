---------------------------- MODULE RpSizeProofs ----------------------------
(***************************************************************************)
(* BlockOK and DataKept for all sizes, all alignments that are powers of   *)
(* two up to 2^20 and all platforms whose page size is below the span size.*)
(*                                                                         *)
(* BlockOK is not inductive: it says where the pointer lies, and resizing  *)
(* needs to know what the block is. The invariant says that (GoodBlock):   *)
(* the block starts a whole number of blocks after the header of its span, *)
(* or right after it, and the region of a huge one can be worked out from  *)
(* what the span remembers.                                                *)
(***************************************************************************)
EXTENDS RpSize, WellFoundedInduction, TLAPS

BlockType ==
  [kind : {"class", "large", "huge"}, unit : Nat, start : Nat, ptr : Nat,
   flag : BOOLEAN, at : Int, offset : Int]

(* A block of a size class, wherever its pointer has moved to.             *)
ClassBlock(b) ==
  /\ b.kind = "class" /\ b.unit >= 1
  /\ \E i \in Nat : b.start = SPAN_HEADER_SIZE + i * b.unit
  /\ b.start + b.unit <= SPAN /\ b.start % 16 = 0
  /\ b.start <= b.ptr /\ b.ptr < b.start + b.unit
  /\ ~b.flag => b.ptr = b.start

(* What is large has one block to a span or more, and its pointer stays in *)
(* the first of them.                                                      *)
HeadedBlock(b) ==
  b.start = SPAN_HEADER_SIZE /\ SPAN_HEADER_SIZE <= b.ptr /\ b.ptr < SPAN

(* What is huge begins at a multiple of the span size, and its region is   *)
(* found again.                                                            *)
HugeBlock(b) ==
  /\ b.kind = "huge" /\ HeadedBlock(b) /\ b.at % SPAN = 0
  /\ UnmapOS(b.at, b.unit * page, b.offset) = RegionOf(b)

GoodBlock(b) ==
  /\ b \in BlockType
  /\ ClassBlock(b) \/ (b.kind = "large" /\ HeadedBlock(b)) \/ HugeBlock(b)

(* The block does for n bytes at a multiple of a.                          *)
Serves(b, n, a) == GoodBlock(b) /\ b.ptr + n <= End(b) /\ b.ptr % a = 0

Inv ==
  /\ platform \in Platforms
  /\ size \in Nat /\ align \in Nat \ {0}
  /\ block # Null => Serves(block, size, align)
  /\ mapped = Mapped(block)
  /\ errno # "gave up"
-----------------------------------------------------------------------------
(* Division, and rounding up to a multiple.                                *)
LEMMA DivIs ==
  ASSUME NEW a \in Int, NEW b \in Nat \ {0}
  PROVE  a \div b \in Int /\ a % b \in 0 .. b - 1 /\ a = b * (a \div b) + (a % b)
  OBVIOUS

LEMMA DivUpIs ==
  ASSUME NEW a \in Nat, NEW b \in Nat \ {0}
  PROVE  DivUp(a, b) \in Nat /\ b * DivUp(a, b) >= a /\ b * DivUp(a, b) < a + b
<1>. a + b - 1 \in Int
  OBVIOUS
<1>1. /\ (a + b - 1) \div b \in Int /\ (a + b - 1) % b \in 0 .. b - 1
      /\ a + b - 1 = b * ((a + b - 1) \div b) + ((a + b - 1) % b)
  BY DivIs
<1>2. (a + b - 1) \div b >= 0
  OBVIOUS
<1>. QED
  BY <1>1, <1>2 DEF DivUp

LEMMA TimesMore ==
  ASSUME NEW a \in Nat, NEW b \in Int, NEW c \in Int, b <= c
  PROVE  a * b <= a * c /\ a * b \in Int /\ a * c \in Int
  OBVIOUS

LEMMA ModIs ==
  ASSUME NEW q \in Int, NEW b \in Nat \ {0}, NEW r \in 0 .. b - 1
  PROVE  (q * b + r) % b = r
  OBVIOUS

LEMMA RoundUpIs ==
  ASSUME NEW a \in Nat, NEW b \in Nat \ {0}
  PROVE  /\ RoundUp(a, b) \in Nat /\ a <= RoundUp(a, b) /\ RoundUp(a, b) < a + b
         /\ RoundUp(a, b) % b = 0
<1>1. DivUp(a, b) \in Nat /\ b * DivUp(a, b) >= a /\ b * DivUp(a, b) < a + b
  BY DivUpIs
<1>2. PICK q \in Nat : q = DivUp(a, b)
  BY <1>1
<1>3. (q * b) % b = 0
  <2>1. 0 \in 0 .. b - 1 /\ (q * b + 0) % b = 0 /\ q * b \in Int
    BY ModIs
  <2>. QED
    BY <2>1
<1>4. RoundUp(a, b) = q * b
  BY <1>2 DEF RoundUp
<1>. QED
  BY <1>1, <1>2, <1>3, <1>4

(* What Max chooses, for any set and for a bounded one.                    *)
LEMMA MaxIs ==
  ASSUME NEW S \in SUBSET Int, NEW x \in S, \A y \in S : x >= y
  PROVE  Max(S) = x
<1>1. \A z \in S : (\A y \in S : z >= y) => z = x
  OBVIOUS
<1>. QED
  BY <1>1, Zenon DEF Max
-----------------------------------------------------------------------------
(* The classes: medium blocks go up to 32256 bytes, of which a span holds  *)
(* two; merging leaves the small classes alone.                            *)
LEMMA LimitIs == MediumLimit = 32256
<1>. USE DEF SMALL_CLASS_COUNT, MEDIUM_GRANULARITY, SMALL_SIZE_LIMIT, SIZE_CLASS_COUNT,
             SMALL_GRANULARITY, MEDIUM_CLASS_COUNT, SPAN, SPAN_HEADER_SIZE
<1>. DEFINE C == {c \in SMALL_CLASS_COUNT .. SIZE_CLASS_COUNT - 1 :
                    FirstSize(c) <= (SPAN - SPAN_HEADER_SIZE) \div 2}
            S == {(c - SMALL_CLASS_COUNT + 1) * MEDIUM_GRANULARITY + SMALL_SIZE_LIMIT : c \in C}
<1>1. 125 \in C
  BY DEF FirstSize
<1>2. S \in SUBSET Int /\ 32256 \in S
  BY <1>1
<1>3. \A y \in S : 32256 >= y
  OBVIOUS
<1>4. Max(S) = 32256
  BY <1>2, <1>3, MaxIs
<1>. QED
  BY <1>4 DEF MediumLimit

LEMMA LeastIs ==
  ASSUME NEW T \in SUBSET Nat, T # {}
  PROVE  \E x \in T : \A y \in T : x <= y
<1>1. PICK x \in T : \A y \in T : <<y, x>> \notin OpToRel(<, Nat)
  BY NatLessThanWellFounded, WFMin
<1>2. \A y \in T : ~(y < x)
  BY <1>1 DEF OpToRel
<1>. QED
  BY <1>2

LEMMA LargestIs ==
  ASSUME NEW N \in Nat, NEW S \in SUBSET (0 .. N), S # {}
  PROVE  Max(S) \in S /\ \A y \in S : Max(S) >= y
<1>. DEFINE T == {N - k : k \in S}
<1>1. T \in SUBSET Nat /\ T # {}
  <2>1. \A k \in S : N - k \in Nat
    OBVIOUS
  <2>. QED
    BY <2>1
<1>2. PICK t \in T : \A y \in T : t <= y
  BY <1>1, LeastIs, Zenon
<1>3. PICK x \in S : t = N - x
  OBVIOUS
<1>4. \A y \in S : x >= y
  BY <1>2, <1>3
<1>5. S \in SUBSET Int /\ Max(S) = x
  BY <1>4, MaxIs
<1>. QED
  BY <1>4, <1>5

LEMMA CountIs ==
  ASSUME NEW s \in Nat, 16 <= s, s <= 32256
  PROVE  /\ BlockCount(s) \in Nat /\ BlockCount(s) >= 2
         /\ SPAN_HEADER_SIZE + BlockCount(s) * s <= SPAN
         /\ s <= 1024 => BlockCount(s) >= 63
         /\ s >= 1536 => BlockCount(s) <= 42
<1>1. /\ 65408 \div s \in Int /\ 65408 % s \in 0 .. s - 1
      /\ 65408 = s * (65408 \div s) + (65408 % s)
  <2>. s \in Nat \ {0} /\ 65408 \in Int
    OBVIOUS
  <2>. QED
    BY DivIs
<1>2. PICK q \in Int, r \in Int :
        q = BlockCount(s) /\ 65408 = s * q + r /\ 0 <= r /\ r < s
  BY <1>1 DEF BlockCount, SPAN, SPAN_HEADER_SIZE
<1>3. q >= 2
  <2>1. q <= 1 => s * q <= s * 1
    BY TimesMore
  <2>. QED
    BY <1>2, <2>1
<1>4. s <= 1024 => q >= 63
  <2>1. q <= 62 => s * q <= s * 62
    BY TimesMore
  <2>. QED
    BY <1>2, <2>1
<1>5. s >= 1536 => q <= 42
  <2>1. q >= 43 => s * 43 <= s * q
    BY TimesMore
  <2>. QED
    BY <1>2, <2>1
<1>. QED
  BY <1>2, <1>3, <1>4, <1>5 DEF SPAN, SPAN_HEADER_SIZE

LEMMA FirstSizeIs ==
  ASSUME NEW c \in Nat, c <= 125
  PROVE  /\ FirstSize(c) \in Nat /\ 16 <= FirstSize(c) /\ FirstSize(c) <= 32256
         /\ c < 65 => FirstSize(c) = IF c = 0 THEN 16 ELSE 16 * c
         /\ c >= 65 => FirstSize(c) = 512 * (c - 62)
<1>1. c < 65 => FirstSize(c) = IF c = 0 THEN 16 ELSE 16 * c
  BY DEF FirstSize, SMALL_CLASS_COUNT, SMALL_GRANULARITY
<1>2. c >= 65 => FirstSize(c) = 512 * (c - 62)
  BY DEF FirstSize, SMALL_CLASS_COUNT, MEDIUM_GRANULARITY, SMALL_SIZE_LIMIT, SMALL_GRANULARITY
<1>. QED
  BY <1>1, <1>2

LEMMA SizeClassIs ==
  ASSUME NEW c \in Nat, c <= 125
  PROVE  \E m \in Nat : /\ c <= m /\ m <= 125 /\ (c < 65 => m = c)
                        /\ SizeClass[c] = FirstSize(m)
<1>. DEFINE S == {c} \cup {d \in SMALL_CLASS_COUNT .. SIZE_CLASS_COUNT - 1 :
                  d > c /\ BlockCount(FirstSize(d)) = BlockCount(FirstSize(c))}
<1>1. S \in SUBSET (0 .. 125) /\ S # {} /\ \A d \in S : d >= c
  BY DEF SMALL_CLASS_COUNT, SIZE_CLASS_COUNT, MEDIUM_CLASS_COUNT
<1>2. Max(S) \in S
  <2>. 125 \in Nat
    OBVIOUS
  <2>. QED
    BY <1>1, LargestIs
<1>3. PICK m \in S : m = Max(S)
  BY <1>2
<1>4. SizeClass[c] = FirstSize(m)
  BY <1>3 DEF SizeClass, SMALL_CLASS_COUNT, SIZE_CLASS_COUNT, MEDIUM_CLASS_COUNT
<1>5. m \in Nat /\ c <= m /\ m <= 125
  BY <1>1
<1>6. ASSUME c < 65, m # c PROVE FALSE
  <2>1. m >= 65 /\ BlockCount(FirstSize(m)) = BlockCount(FirstSize(c))
    BY <1>6 DEF SMALL_CLASS_COUNT
  <2>2. PICK s \in Nat : s = FirstSize(c) /\ 16 <= s /\ s <= 1024
    BY <1>6, FirstSizeIs
  <2>3. PICK u \in Nat : u = FirstSize(m) /\ 1536 <= u /\ u <= 32256
    BY <1>5, <2>1, FirstSizeIs
  <2>4. BlockCount(s) \in Nat /\ BlockCount(s) >= 63
    BY <2>2, CountIs
  <2>5. BlockCount(u) \in Nat /\ BlockCount(u) <= 42
    BY <2>3, CountIs
  <2>. QED
    BY <2>1, <2>2, <2>3, <2>4, <2>5
<1>. QED
  BY <1>4, <1>5, <1>6

LEMMA ClassIs ==
  ASSUME NEW n \in Nat, n <= 32256
  PROVE  /\ ClassOf(n) \in Nat /\ ClassOf(n) <= 125 /\ FirstSize(ClassOf(n)) >= n
         /\ n >= 1 /\ n % 128 = 0 /\ ClassOf(n) < 65 => FirstSize(ClassOf(n)) = n
<1>1. CASE n <= 1024
  <2>1. PICK c \in Int : c = (n + 15) \div 16 /\ 16 * c <= n + 15 /\ n + 15 < 16 * c + 16
    OBVIOUS
  <2>2. ClassOf(n) = c
    BY <1>1, <2>1 DEF ClassOf, SMALL_SIZE_LIMIT, SMALL_GRANULARITY, SMALL_CLASS_COUNT
  <2>3. c >= 0 /\ c <= 64 /\ (n >= 1 => c >= 1)
    BY <1>1, <2>1
  <2>4. n % 128 = 0 => n = 16 * c
    <3>1. n % 128 = 0 => n = 128 * (n \div 128) /\ n \div 128 \in Int
      OBVIOUS
    <3>. QED
      BY <2>1, <3>1
  <2>5. c \in Nat /\ c <= 125
    BY <2>3
  <2>. QED
    BY <2>1, <2>2, <2>3, <2>4, <2>5, FirstSizeIs
<1>2. CASE n > 1024
  <2>1. PICK d \in Int : /\ d = (n - 1025) \div 512
                         /\ 512 * d <= n - 1025 /\ n - 1025 < 512 * d + 512
    OBVIOUS
  <2>2. ClassOf(n) = 65 + d
    BY <1>2, <2>1 DEF ClassOf, SMALL_SIZE_LIMIT, SMALL_GRANULARITY, SMALL_CLASS_COUNT,
       MEDIUM_GRANULARITY
  <2>3. 65 + d \in Nat /\ 65 + d <= 125 /\ 65 + d >= 65
    BY <1>2, <2>1
  <2>4. FirstSize(65 + d) = 512 * (65 + d - 62)
    BY <2>3, FirstSizeIs
  <2>. QED
    BY <2>1, <2>2, <2>3, <2>4
<1>. QED
  BY <1>1, <1>2

(* What the blocks for n bytes have: enough, and the alignment of n.       *)
Unit(n, s) ==
  /\ s = SizeClass[ClassOf(n)] /\ n <= s /\ 16 <= s /\ s <= 32256
  /\ \E k \in Nat : s = 16 * k
  /\ n >= 1 /\ n % 128 = 0 => \E k \in Nat : s = 128 * k

LEMMA UnitIs ==
  ASSUME NEW n \in Nat, n <= 32256
  PROVE  \E s \in Nat : Unit(n, s)
<1>1. PICK c \in Nat : /\ c = ClassOf(n) /\ c <= 125 /\ FirstSize(c) >= n
                       /\ n >= 1 /\ n % 128 = 0 /\ c < 65 => FirstSize(c) = n
  BY ClassIs
<1>2. PICK m \in Nat : c <= m /\ m <= 125 /\ (c < 65 => m = c) /\ SizeClass[c] = FirstSize(m)
  BY <1>1, SizeClassIs
<1>3. PICK s \in Nat : /\ s = FirstSize(m) /\ 16 <= s /\ s <= 32256
                       /\ m < 65 => s = IF m = 0 THEN 16 ELSE 16 * m
                       /\ m >= 65 => s = 512 * (m - 62)
  BY <1>2, FirstSizeIs
<1>4. \E k \in Nat : s = 16 * k
  <2>1. CASE m = 0
    BY <1>3, <2>1
  <2>2. CASE m # 0 /\ m < 65
    BY <1>3, <2>2
  <2>3. CASE m >= 65
    <3>1. s = 16 * (32 * (m - 62)) /\ 32 * (m - 62) \in Nat
      BY <1>3, <2>3
    <3>. QED
      BY <3>1
  <2>. QED
    BY <2>1, <2>2, <2>3
<1>5. n <= s
  <2>1. CASE c < 65
    BY <1>1, <1>2, <1>3, <2>1
  <2>2. CASE c >= 65
    BY <1>1, <1>2, <1>3, <2>2, FirstSizeIs
  <2>. QED
    BY <2>1, <2>2
<1>6. ASSUME n >= 1, n % 128 = 0 PROVE \E k \in Nat : s = 128 * k
  <2>1. CASE c < 65
    <3>1. s = 128 * (n \div 128) /\ n \div 128 \in Nat
      BY <1>1, <1>2, <1>3, <1>6, <2>1
    <3>. QED
      BY <3>1
  <2>2. CASE c >= 65
    <3>1. s = 128 * (4 * (m - 62)) /\ 4 * (m - 62) \in Nat
      BY <1>2, <1>3, <2>2
    <3>. QED
      BY <3>1
  <2>. QED
    BY <2>1, <2>2
<1>. QED
  BY <1>1, <1>2, <1>3, <1>4, <1>5, <1>6 DEF Unit
-----------------------------------------------------------------------------
(* What is used of alignments and platforms.                               *)
LEMMA PowerIs ==
  ASSUME NEW a \in Aligns
  PROVE  /\ a \in Nat /\ a >= 1
         /\ a <= 16 => a \in {1, 2, 4, 8, 16}
         /\ a <= 128 => a \in {1, 2, 4, 8, 16, 32, 64, 128}
         /\ a < SPAN => a <= 32768
<1>1. a \in {1, 2, 4, 8, 16, 32, 64, 128, 256, 512, 1024, 2048, 4096, 8192, 16384, 32768,
             65536, 131072, 262144, 524288, 1048576}
  BY AlignsAssumption
<1>. QED
  BY <1>1 DEF SPAN

LEMMA PlatformIs ==
  ASSUME platform \in Platforms
  PROVE  /\ page \in Nat /\ page >= 1 /\ page <= 32768
         /\ SPAN \div page \in Nat /\ SPAN = page * (SPAN \div page)
<1>1. page \in 1 .. SPAN - 1 /\ SPAN % page = 0
  BY PlatformAssumption, Zenon DEF page
<1>2. PICK p \in Nat : p = page /\ p >= 1 /\ p < 65536 /\ 65536 % p = 0
  BY <1>1 DEF SPAN
<1>3. 65536 = p * (65536 \div p) + (65536 % p) /\ 65536 \div p \in Int
  <2>. p \in Nat \ {0} /\ 65536 \in Int
    BY <1>2
  <2>. QED
    BY DivIs
<1>4. PICK q \in Int : q = 65536 \div p /\ 65536 = p * q
  BY <1>2, <1>3
<1>5. q >= 2
  <2>1. q <= 1 => p * q <= p * 1
    BY TimesMore
  <2>. QED
    BY <1>2, <1>4, <2>1
<1>6. p * 2 <= p * q
  BY <1>5, TimesMore
<1>. QED
  BY <1>2, <1>4, <1>5, <1>6 DEF SPAN

LEMMA GranularityIs ==
  ASSUME platform \in Platforms
  PROVE  \E g \in Nat : /\ g = platform.granularity /\ g >= 1 /\ g <= SPAN
                        /\ \E k \in Nat : g = 8 * k
<1>. DEFINE h == platform.granularity
<1>g. h \in Nat \ {0} /\ SPAN % h = 0 /\ h % 8 = 0
  BY PlatformAssumption, Zenon
<1>1. PICK g \in Nat : g = h /\ g >= 1 /\ 65536 % g = 0 /\ g % 8 = 0
  BY <1>g DEF SPAN
<1>2. 65536 = g * (65536 \div g) + (65536 % g) /\ 65536 \div g \in Int
  <2>. g \in Nat \ {0} /\ 65536 \in Int
    BY <1>1
  <2>. QED
    BY DivIs
<1>3. PICK q \in Int : 65536 = g * q
  BY <1>1, <1>2
<1>4. q >= 1
  <2>1. q <= 0 => g * q <= g * 0
    BY TimesMore
  <2>. QED
    BY <1>1, <1>3, <2>1
<1>5. g * 1 <= g * q
  BY <1>4, TimesMore
<1>6. g = 8 * (g \div 8) /\ g \div 8 \in Nat
  BY <1>1
<1>. QED
  BY <1>1, <1>3, <1>5, <1>6 DEF SPAN
-----------------------------------------------------------------------------
(* Where the blocks of an allocation lie: in a span of their class, with   *)
(* the alignment the class has, or first in their spans or pages.          *)
LEMMA MultipleIs ==
  ASSUME NEW i \in Nat, NEW s \in Nat, NEW k \in Nat, NEW d \in Nat, NEW e \in Nat,
         d >= 1, s = d * k, 128 = d * e
  PROVE  (128 + i * s) % d = 0
<1>1. e + i * k \in Int /\ 0 \in 0 .. d - 1 /\ d \in Nat \ {0}
  OBVIOUS
<1>2. ((e + i * k) * d + 0) % d = 0
  BY <1>1, ModIs
<1>3. (e + i * k) * d + 0 = 128 + i * s
  OBVIOUS
<1>. QED
  BY <1>2, <1>3

LEMMA ClassAllocatedIs ==
  ASSUME NEW n \in Nat, n <= 32256, NEW b \in Blocks(SizeClass[ClassOf(n)])
  PROVE  /\ GoodBlock(b) /\ b.ptr = b.start /\ b.ptr + n <= End(b)
         /\ b.ptr % 16 = 0
         /\ n >= 1 /\ n % 128 = 0 => b.ptr % 128 = 0
<1>u. PICK s \in Nat : Unit(n, s)
  BY UnitIs
<1>1. /\ s = SizeClass[ClassOf(n)] /\ n <= s /\ 16 <= s /\ s <= 32256
      /\ \E k \in Nat : s = 16 * k
      /\ n >= 1 /\ n % 128 = 0 => \E k \in Nat : s = 128 * k
  BY <1>u DEF Unit
<1>2. PICK m \in Nat : m = BlockCount(s) /\ m >= 2 /\ 128 + m * s <= 65536
  BY <1>1, CountIs DEF SPAN, SPAN_HEADER_SIZE
<1>3. PICK i \in ({0, 1, 2} \cap (0 .. m - 1)) \cup {m - 1} :
        b = Block("class", s, SPAN_HEADER_SIZE + i * s, SPAN_HEADER_SIZE + i * s)
  BY <1>1, <1>2 DEF Blocks
<1>4. i \in Nat /\ i + 1 <= m
  BY <1>2
<1>5. PICK st \in Nat : st = 128 + i * s /\ st + s <= 65536
  <2>1. s * (i + 1) <= s * m
    BY <1>4, TimesMore
  <2>2. s * (i + 1) = i * s + s /\ s * m = m * s /\ i * s \in Nat
    BY <1>4
  <2>. QED
    BY <1>2, <2>1, <2>2
<1>6. /\ b \in BlockType /\ b.kind = "class" /\ b.unit = s /\ b.start = st /\ b.ptr = st
      /\ b.flag = FALSE
  BY <1>3, <1>5 DEF Block, BlockType, SPAN_HEADER_SIZE
<1>7. st % 16 = 0
  BY <1>1, <1>4, <1>5, MultipleIs, 128 = 16 * 8
<1>8. GoodBlock(b) /\ b.ptr = b.start /\ b.ptr + n <= End(b)
  BY <1>1, <1>4, <1>5, <1>6, <1>7 DEF GoodBlock, ClassBlock, End, SPAN, SPAN_HEADER_SIZE
<1>9. ASSUME n >= 1, n % 128 = 0 PROVE st % 128 = 0
  <2>1. PICK k \in Nat : s = 128 * k
    BY <1>1, <1>9
  <2>. QED
    BY <1>4, <1>5, <2>1, MultipleIs, 128 = 128 * 1
<1>. QED
  BY <1>6, <1>7, <1>8, <1>9

LEMMA HugeBlocksIs ==
  ASSUME platform \in Platforms, NEW pages \in Nat, NEW ptr \in Nat, 128 <= ptr, ptr < SPAN,
         NEW b \in HugeBlocks(pages, ptr), pages * page >= SPAN \/ b.at % SPAN = 0
  PROVE  /\ GoodBlock(b) /\ b.kind = "huge" /\ b.unit = pages /\ b.ptr = ptr /\ b.start = 128
<1>1. PICK g \in Nat : /\ g = platform.granularity /\ g >= 1 /\ g <= 65536
                       /\ \E k \in Nat : g = 8 * k
  BY GranularityIs DEF SPAN
<1>2. PICK bytes \in Nat : bytes = pages * page
  BY PlatformIs
<1>3. PICK raw \in Places :
        b = [Block("huge", pages, SPAN_HEADER_SIZE, ptr) EXCEPT
               !.at = raw + 8 * AlignOffset(raw, bytes), !.offset = AlignOffset(raw, bytes)]
  BY <1>2 DEF HugeBlocks
<1>4. PICK r \in Nat : r = raw /\ r < 65536 /\ (r = 0 \/ r = g \/ r = 65536 - g)
  BY <1>1 DEF Places, SPAN
<1>5. \E k \in Nat : 65536 - r = 8 * k /\ k >= 1
  <2>1. PICK k \in Nat : g = 8 * k
    BY <1>1
  <2>2. CASE r = 0
    BY <2>2
  <2>3. CASE r = g
    BY <1>4, <2>1, <2>3, 65536 - 8 * k = 8 * (8192 - k)
  <2>4. CASE r = 65536 - g
    BY <1>1, <2>1, <2>4
  <2>. QED
    BY <1>4, <2>2, <2>3, <2>4
<1>6. r % 65536 = r
  BY <1>4
<1>7. PICK off \in Nat : /\ off = AlignOffset(raw, bytes)
                         /\ IF bytes >= 65536 /\ 65536 > g THEN 8 * off = 65536 - r /\ off # 0
                            ELSE off = 0
  BY <1>1, <1>4, <1>5, <1>6 DEF AlignOffset, Padding, SPAN
<1>8. /\ b \in BlockType /\ b.kind = "huge" /\ b.unit = pages /\ b.start = 128 /\ b.ptr = ptr
      /\ b.at = r + 8 * off /\ b.offset = off
  <2>1. b = [kind |-> "huge", unit |-> pages, start |-> 128, ptr |-> ptr, flag |-> FALSE,
             at |-> r + 8 * off, offset |-> off]
    <3>1. b = [Block("huge", pages, 128, ptr) EXCEPT !.at = r + 8 * off, !.offset = off]
      <4>1. r = raw /\ off = AlignOffset(raw, bytes)
        BY <1>4, <1>7
      <4>. QED
        BY <1>3, <4>1 DEF SPAN_HEADER_SIZE
    <3>. QED
      BY <3>1 DEF Block
  <2>. QED
    BY <2>1 DEF BlockType
<1>9. b.at % SPAN = 0
  <2>1. CASE bytes >= 65536 /\ 65536 > g
    BY <1>7, <1>8, <2>1 DEF SPAN
  <2>2. CASE bytes >= 65536 /\ g = 65536
    BY <1>4, <1>7, <1>8, <2>2 DEF SPAN
  <2>3. CASE bytes < 65536
    BY <1>2, <2>3 DEF SPAN
  <2>. QED
    BY <1>1, <2>1, <2>2, <2>3
<1>10. UnmapOS(b.at, bytes, b.offset) = Region(b.at - 8 * b.offset, bytes)
  BY <1>1, <1>7, <1>8 DEF UnmapOS, Region, Padding, SPAN
<1>. QED
  BY <1>2, <1>8, <1>9, <1>10 DEF GoodBlock, HugeBlock, HeadedBlock, RegionOf, SPAN,
     SPAN_HEADER_SIZE

LEMMA AllocatedIs ==
  ASSUME platform \in Platforms, NEW n \in Nat, NEW b \in Allocated(n)
  PROVE  /\ GoodBlock(b) /\ b.ptr = b.start /\ b.ptr + n <= End(b)
         /\ b.ptr % 16 = 0
         /\ n >= 1 /\ n % 128 = 0 => b.ptr % 128 = 0
<1>1. CASE n <= MediumLimit
  BY <1>1, LimitIs, ClassAllocatedIs DEF Allocated
<1>2. CASE n > MediumLimit /\ n <= LARGE_SIZE_LIMIT
  <2>1. PICK k \in Nat : k = DivUp(n + 128, SPAN) /\ SPAN * k >= n + 128
    <3>. n + 128 \in Nat /\ SPAN \in Nat \ {0}
      BY DEF SPAN
    <3>. QED
      BY DivUpIs
  <2>2. PICK u \in SpanCounts(k) : b = Block("large", u, 128, 128)
    BY <1>2, <2>1, LimitIs DEF Allocated, SPAN_HEADER_SIZE
  <2>3. u \in Nat /\ u >= k
    BY <2>1, <2>2 DEF SpanCounts
  <2>4. b = [kind |-> "large", unit |-> u, start |-> 128, ptr |-> 128, flag |-> FALSE,
             at |-> 0, offset |-> 0]
    BY <2>2 DEF Block
  <2>5. b \in BlockType
    BY <2>3, <2>4 DEF BlockType
  <2>. QED
    BY <2>1, <2>3, <2>4, <2>5 DEF GoodBlock, HeadedBlock, End, SPAN, SPAN_HEADER_SIZE
<1>3. CASE n > LARGE_SIZE_LIMIT
  <2>1. PICK k \in Nat : k = DivUp(n + 128, page) /\ page * k >= n + 128
    <3>. n + 128 \in Nat /\ page \in Nat \ {0}
      BY PlatformIs
    <3>. QED
      BY DivUpIs
  <2>2. b \in HugeBlocks(k, 128)
    BY <1>3, <2>1, LimitIs DEF Allocated, SPAN_HEADER_SIZE, LARGE_SIZE_LIMIT, LARGE_CLASS_COUNT,
       SPAN
  <2>3. PICK bytes \in Nat : bytes = k * page /\ bytes >= n + 128
    BY <2>1, PlatformIs
  <2>4. bytes >= SPAN /\ 128 < SPAN
    BY <1>3, <2>3 DEF SPAN, LARGE_SIZE_LIMIT, LARGE_CLASS_COUNT, SPAN_HEADER_SIZE
  <2>5. GoodBlock(b) /\ b.kind = "huge" /\ b.unit = k /\ b.ptr = 128 /\ b.start = 128
    BY <2>2, <2>3, <2>4, HugeBlocksIs
  <2>. QED
    BY <2>3, <2>5 DEF End
<1>. QED
  BY <1>1, <1>2, <1>3, LimitIs DEF LARGE_SIZE_LIMIT, LARGE_CLASS_COUNT, SPAN, SPAN_HEADER_SIZE

(* An alignment up to the page size takes as much more to move inside.     *)
LEMMA AlignedIs ==
  ASSUME platform \in Platforms, NEW n \in Nat, NEW a \in Nat, a >= 1, a <= page,
         NEW b \in Allocated(n + a)
  PROVE  Serves(Aligned(b, a), n, a)
<1>1. /\ b \in BlockType /\ GoodBlock(b) /\ b.ptr = b.start /\ b.ptr + (n + a) <= End(b)
  <2>. n + a \in Nat
    OBVIOUS
  <2>. QED
    BY AllocatedIs DEF GoodBlock
<1>e. End(b) \in Int
  BY <1>1, PlatformIs DEF End, BlockType, SPAN
<1>2. CASE b.ptr % a = 0
  BY <1>1, <1>2, <1>e DEF Aligned, Serves, BlockType
<1>3. CASE b.ptr % a # 0
  <2>1. PICK p \in Nat : /\ p = RoundUp(b.ptr, a) /\ b.ptr <= p /\ p < b.ptr + a /\ p % a = 0
    <3>. b.ptr \in Nat /\ a \in Nat \ {0}
      BY <1>1 DEF BlockType
    <3>. QED
      BY RoundUpIs
  <2>2. PICK c : c = [b EXCEPT !.ptr = p, !.flag = TRUE]
    OBVIOUS
  <2>3. /\ c \in BlockType /\ c.ptr = p /\ c.flag = TRUE /\ c.kind = b.kind /\ c.unit = b.unit
        /\ c.start = b.start /\ c.at = b.at /\ c.offset = b.offset
    BY <1>1, <2>2 DEF BlockType
  <2>4. End(c) = End(b) /\ UnmapOS(c.at, c.unit * page, c.offset)
                            = UnmapOS(b.at, b.unit * page, b.offset)
        /\ RegionOf(c) = RegionOf(b)
    BY <2>3 DEF End, RegionOf
  <2>5. GoodBlock(c)
    <3>1. CASE ClassBlock(b)
      <4>1. p + n < b.start + b.unit
        BY <1>1, <2>1, <3>1 DEF ClassBlock, End, BlockType
      <4>. QED
        BY <1>1, <2>1, <2>3, <3>1, <4>1 DEF ClassBlock, GoodBlock, BlockType
    <3>2. CASE ~ClassBlock(b)
      <4>1. HeadedBlock(b) /\ p < SPAN
        BY <1>1, <2>1, <3>2, PlatformIs DEF GoodBlock, HugeBlock, HeadedBlock, SPAN,
           SPAN_HEADER_SIZE, BlockType
      <4>2. HeadedBlock(c)
        BY <2>1, <2>3, <4>1, <1>1 DEF HeadedBlock, BlockType, SPAN_HEADER_SIZE
      <4>. QED
        BY <1>1, <2>3, <2>4, <3>2, <4>2 DEF GoodBlock, HugeBlock
    <3>. QED
      BY <3>1, <3>2
  <2>6. c.ptr + n <= End(c)
    BY <1>1, <1>e, <2>1, <2>3, <2>4 DEF BlockType
  <2>. QED
    BY <1>3, <2>1, <2>2, <2>3, <2>5, <2>6 DEF Aligned, Serves
<1>. QED
  BY <1>2, <1>3

LEMMA FirstPagesIs ==
  ASSUME NEW n \in Nat, NEW a \in Nat, NEW p \in Nat, p >= 1, p = page
  PROVE  FirstPages(a, n) \in Nat /\ p * FirstPages(a, n) >= n + p /\ p * FirstPages(a, n) > a - p
<1>1. PICK k \in Nat : k = DivUp(n, p) /\ p * k >= n
  <2>. p \in Nat \ {0}
    OBVIOUS
  <2>. QED
    BY DivUpIs
<1>2. PICK e \in Int, r \in Int : e = a \div p /\ a = p * e + r /\ 0 <= r /\ r < p
  <2>. a \in Int /\ p \in Nat \ {0}
    OBVIOUS
  <2>1. a \div p \in Int /\ a % p \in 0 .. p - 1 /\ a = p * (a \div p) + (a % p)
    BY DivIs
  <2>. QED
    BY <2>1
<1>3. e >= 0
  <2>1. e <= -1 => p * e <= p * (-1)
    BY TimesMore
  <2>. QED
    BY <1>2, <2>1
<1>4. PICK f \in Nat : f = FirstPages(a, n) /\ f >= 1 + k /\ f >= e
  BY <1>1, <1>2, <1>3 DEF FirstPages
<1>5. p * (1 + k) <= p * f /\ p * e <= p * f /\ p * (1 + k) = p + p * k
  BY <1>4, TimesMore
<1>. QED
  BY <1>1, <1>2, <1>4, <1>5

(* An alignment above the page size is found in a map of its own, with    *)
(* twice the pages it needs at the latest.                                 *)
LEMMA NeverGivesUp ==
  ASSUME platform \in Platforms, NEW n \in Nat, NEW a \in Aligns, a > page, a < SPAN
  PROVE  ~GivesUp(a, n)
<1>1. a \in Nat /\ a >= 1 /\ a <= 32768 /\ (a <= 128 => RoundUp(128, a) = 128)
  <2>1. a \in Nat /\ a >= 1 /\ a <= 32768 /\ (a <= 128 => a \in {1, 2, 4, 8, 16, 32, 64, 128})
    BY PowerIs
  <2>2. a <= 128 => RoundUp(128, a) = 128
    BY <2>1 DEF RoundUp, DivUp
  <2>. QED
    BY <2>1, <2>2
<1>2. PICK p \in Nat, q \in Nat : /\ p = page /\ p >= 1 /\ p <= 32768
                                 /\ q = SPAN \div page /\ SPAN = p * q
  BY PlatformIs
<1>3. PICK f \in Nat : f = FirstPages(a, n) /\ p * f >= n + p /\ p * f > a - p
  <2>. a \in Nat /\ p \in Nat /\ p >= 1 /\ p = page
    BY <1>1, <1>2
  <2>. QED
    BY FirstPagesIs, Zenon
<1>4. PICK m \in Nat : m = LimitPages(a, n) /\ m >= 2 * f /\ m >= 2 * q
  <2>1. LimitPages(a, n) = Max({2 * q, 2 * f})
    BY <1>2, <1>3 DEF LimitPages
  <2>2. PICK x \in {2 * q, 2 * f} : x >= 2 * q /\ x >= 2 * f
    OBVIOUS
  <2>3. {2 * q, 2 * f} \in SUBSET Int /\ \A y \in {2 * q, 2 * f} : x >= y
    BY <2>2
  <2>4. Max({2 * q, 2 * f}) = x
    BY <2>3, MaxIs
  <2>. QED
    BY <2>1, <2>2, <2>4
<1>t. m \in Tries(a, n)
  BY <1>3, <1>4 DEF Tries
<1>5. p * m >= 2 * SPAN
  <2>1. p * (2 * q) <= p * m /\ p * (2 * q) = 2 * (p * q)
    BY <1>4, TimesMore
  <2>. QED
    BY <1>2, <2>1
<1>6. Fits(m, a, n)
  <2>1. p * (2 * f) <= p * m /\ p * (2 * f) = 2 * (p * f) /\ p * f \in Int /\ p * m \in Int
    BY <1>4, TimesMore
  <2>2. CASE a <= 128
    BY <1>1, <1>2, <1>3, <1>5, <2>1, <2>2 DEF Fits, SPAN, SPAN_HEADER_SIZE
  <2>3. CASE a > 128
    <3>1. PICK d \in Nat : d = DivUp(128, a) /\ a * d >= 128 /\ a * d < 128 + a
      <4>. a \in Nat \ {0} /\ 128 \in Nat
        BY <1>1
      <4>. QED
        BY DivUpIs
    <3>2. d = 1
      <4>1. d >= 2 => a * 2 <= a * d
        BY <1>1, TimesMore
      <4>2. d # 0
        BY <3>1, <1>1
      <4>. QED
        BY <1>1, <2>3, <3>1, <4>1, <4>2
    <3>3. RoundUp(128, a) = a
      BY <1>1, <3>1, <3>2 DEF RoundUp
    <3>. QED
      BY <1>1, <1>2, <1>3, <2>1, <3>3 DEF Fits, SPAN_HEADER_SIZE
  <2>. QED
    BY <1>1, <2>2, <2>3
<1>7. Sure(m, a, n)
  BY <1>2, <1>5, <1>6 DEF Sure, SPAN
<1>. QED
  BY <1>t, <1>7 DEF GivesUp

(* Each way to align does; sizes rounded to 128 bytes have blocks that are *)
(* multiples of 128.                                                       *)
LEMMA AlignedAllocatedIs ==
  ASSUME platform \in Platforms, NEW n \in Nat, NEW a \in Aligns, NEW b \in AlignedAllocated(a, n)
  PROVE  Serves(b, n, a)
<1>. DEFINE multiple == IF n = 0 THEN SPAN_HEADER_SIZE ELSE RoundUp(n, SPAN_HEADER_SIZE)
            small    == a <= SPAN_HEADER_SIZE /\ n + SPAN_HEADER_SIZE < MediumLimit
                          /\ multiple <= n + a
<1>a. /\ a \in Nat /\ a >= 1 /\ (a <= 16 => a \in {1, 2, 4, 8, 16})
      /\ a <= 128 => a \in {1, 2, 4, 8, 16, 32, 64, 128}
      /\ a < 65536 => a <= 32768
  BY PowerIs DEF SPAN
<1>p. page \in Nat /\ page >= 1 /\ page <= 32768
  BY PlatformIs
<1>g. SMALL_GRANULARITY = 16
  BY DEF SMALL_GRANULARITY
<1>s. /\ (a > 16 => ~(a <= 16)) /\ (a > page => ~(a <= page))
      /\ ~(a >= SPAN) => a < SPAN
  BY <1>a, <1>p DEF SPAN
<1>1. CASE a <= 16
  <2>1. b \in Allocated(n)
    BY <1>1, <1>g, Zenon DEF AlignedAllocated
  <2>2. GoodBlock(b) /\ b.ptr + n <= End(b) /\ b.ptr % 16 = 0 /\ b.ptr \in Nat
    BY <2>1, AllocatedIs DEF GoodBlock, BlockType
  <2>3. b.ptr % a = 0
    BY <1>1, <1>a, <2>2
  <2>. QED
    BY <2>2, <2>3 DEF Serves
<1>2. CASE a > 16 /\ small
  <2>1. b \in Allocated(multiple)
    BY <1>2, <1>g, <1>s, Zenon DEF AlignedAllocated
  <2>2. PICK m \in Nat : m = multiple /\ m >= n /\ m >= 1 /\ m % 128 = 0
    <3>1. CASE n = 0
      BY <3>1 DEF SPAN_HEADER_SIZE
    <3>2. CASE n # 0
      <4>. 128 \in Nat \ {0}
        OBVIOUS
      <4>1. RoundUp(n, 128) \in Nat /\ n <= RoundUp(n, 128) /\ RoundUp(n, 128) % 128 = 0
        BY RoundUpIs
      <4>. QED
        BY <3>2, <4>1 DEF SPAN_HEADER_SIZE
    <3>. QED
      BY <3>1, <3>2
  <2>3. /\ GoodBlock(b) /\ b.ptr + m <= End(b) /\ b.ptr % 128 = 0
        /\ b.ptr \in Nat /\ End(b) \in Int
    <3>1. GoodBlock(b) /\ b.ptr + m <= End(b) /\ b.ptr % 128 = 0
      BY <2>1, <2>2, AllocatedIs
    <3>2. b.ptr \in Nat /\ End(b) \in Int
      BY <3>1, <1>p DEF GoodBlock, BlockType, End, SPAN
    <3>. QED
      BY <3>1, <3>2
  <2>4. b.ptr % a = 0
    <3>1. PICK p \in Nat : p = b.ptr /\ p % 128 = 0
      BY <2>3
    <3>2. p % 32 = 0 /\ p % 64 = 0
      BY <3>1
    <3>3. a = 32 \/ a = 64 \/ a = 128
      BY <1>2, <1>a DEF SPAN_HEADER_SIZE
    <3>. QED
      BY <3>1, <3>2, <3>3
  <2>. QED
    BY <2>2, <2>3, <2>4 DEF Serves
<1>3. CASE a > 16 /\ ~small /\ a <= page
  <2>1. PICK d \in Allocated(n + a) : b = Aligned(d, a)
    BY <1>3, <1>g, <1>s, Zenon DEF AlignedAllocated
  <2>. QED
    BY <1>3, <1>a, <2>1, AlignedIs
<1>4. CASE a > 16 /\ ~small /\ a > page
  <2>1. a < SPAN /\ b \in AlignedMaps(a, n)
    BY <1>4, <1>g, <1>s, Zenon DEF AlignedAllocated
  <2>2. PICK k \in FirstPages(a, n) .. LastTry(a, n) :
          Fits(k, a, n) /\ b \in HugeBlocks(k, RoundUp(128, a)) /\ b.at % SPAN = 0
    BY <2>1 DEF AlignedMaps, SPAN_HEADER_SIZE
  <2>3. k \in Nat
    <3>1. FirstPages(a, n) \in Nat
      BY <1>a, <1>p, FirstPagesIs
    <3>. QED
      BY <3>1
  <2>4. PICK r \in Nat : r = RoundUp(128, a) /\ 128 <= r /\ r < 128 + a /\ r % a = 0
    <3>. a \in Nat \ {0} /\ 128 \in Nat
      BY <1>a
    <3>. QED
      BY RoundUpIs
  <2>5. r < SPAN
    BY <1>a, <2>1, <2>4 DEF SPAN
  <2>6. GoodBlock(b) /\ b.kind = "huge" /\ b.unit = k /\ b.ptr = r
    BY <2>2, <2>3, <2>4, <2>5, HugeBlocksIs
  <2>7. r + n <= End(b)
    BY <2>2, <2>4, <2>6 DEF Fits, End, SPAN_HEADER_SIZE
  <2>. QED
    BY <2>4, <2>6, <2>7 DEF Serves
<1>. QED
  BY <1>1, <1>2, <1>3, <1>4, <1>a, <1>p
-----------------------------------------------------------------------------
(* Where a block is good, the pointer tells how much of it is left and     *)
(* where it starts.                                                        *)
LEMMA GoodIs ==
  ASSUME platform \in Platforms, NEW b, GoodBlock(b)
  PROVE  /\ UsableSize(b) = End(b) - b.ptr /\ FoundStart(b) = b.start
         /\ b.ptr \in Nat /\ b.start \in Nat /\ b.unit \in Nat /\ End(b) \in Nat
         /\ SPAN_HEADER_SIZE <= b.start /\ b.start <= b.ptr /\ b.ptr < SPAN
         /\ b.kind = "class" => End(b) <= SPAN
         /\ b.kind = "huge" => b.at % SPAN = 0
<1>1. b \in BlockType /\ page \in Nat
  BY PlatformIs DEF GoodBlock
<1>2. CASE ClassBlock(b)
  <2>0. PICK i \in Nat : b.start = SPAN_HEADER_SIZE + i * b.unit
    BY <1>2 DEF ClassBlock
  <2>a. PICK u \in Nat, s \in Nat, p \in Nat : u = b.unit /\ s = b.start /\ p = b.ptr
    BY <1>1 DEF BlockType
  <2>1. u >= 1 /\ s = 128 + i * u /\ s <= p /\ p < s + u /\ s + u <= 65536
    BY <1>2, <2>0, <2>a DEF ClassBlock, SPAN, SPAN_HEADER_SIZE
  <2>2. (p - 128) % u = p - s
    <3>1. (i * u + (p - s)) % u = p - s
      <4>. i \in Int /\ u \in Nat \ {0} /\ p - s \in 0 .. u - 1
        BY <2>1
      <4>. QED
        BY ModIs
    <3>2. i * u + (p - s) = p - 128
      BY <2>1
    <3>. QED
      BY <3>1, <3>2
  <2>3. UsableSize(b) = u - (p - s)
    BY <1>2, <2>a, <2>2 DEF ClassBlock, UsableSize, SPAN_HEADER_SIZE
  <2>4. FoundStart(b) = s
    <3>1. b.flag => FoundStart(b) = p - (p - s)
      BY <1>2, <2>a, <2>2 DEF ClassBlock, FoundStart, SPAN_HEADER_SIZE
    <3>2. ~b.flag => FoundStart(b) = p /\ p = s
      BY <1>2, <2>a DEF ClassBlock, FoundStart
    <3>. QED
      BY <3>1, <3>2
  <2>5. i * u >= 0 /\ b.kind = "class" /\ End(b) = s + u
    BY <1>2, <2>a DEF ClassBlock, End
  <2>. QED
    BY <2>1, <2>a, <2>3, <2>4, <2>5 DEF SPAN, SPAN_HEADER_SIZE
<1>3. CASE ~ClassBlock(b)
  <2>1. HeadedBlock(b) /\ (b.kind = "large" \/ (b.kind = "huge" /\ b.at % SPAN = 0))
    BY <1>3 DEF GoodBlock, HugeBlock
  <2>2. b.kind # "class" /\ b.start = 128 /\ 128 <= b.ptr /\ b.ptr < 65536
    BY <2>1 DEF HeadedBlock, SPAN, SPAN_HEADER_SIZE
  <2>3. End(b) \in Nat
    BY <1>1, <2>1 DEF End, BlockType, SPAN
  <2>. QED
    BY <1>1, <2>1, <2>2, <2>3 DEF UsableSize, FoundStart, BlockType, SPAN, SPAN_HEADER_SIZE
<1>. QED
  BY <1>2, <1>3
(* Resizing asks for enough bytes, and for enough spans although the mask  *)
(* it tests for a rest is a wrong one.                                     *)
LEMMA NewSizeIs ==
  ASSUME NEW old \in Nat, NEW n \in Nat
  PROVE  NewSize(old, n) \in Nat /\ NewSize(old, n) >= n
  BY DEF NewSize

LEMMA SpansForIs ==
  ASSUME NEW total \in Nat
  PROVE  SpansFor(total) \in Nat /\ SPAN * SpansFor(total) >= total
  BY DEF SpansFor, SPAN

(* A block that stays does for the new size from its start on.             *)
LEMMA StaysKeeps ==
  ASSUME platform \in Platforms, NEW b, GoodBlock(b), NEW n \in Nat, NEW old, StaysFor(b, n, old)
  PROVE  Serves([b EXCEPT !.ptr = b.start], n, 16)
<1>1. b \in BlockType /\ page \in Nat /\ page >= 1
  BY PlatformIs DEF GoodBlock
<1>2. PICK c : c = [b EXCEPT !.ptr = b.start]
  OBVIOUS
<1>3. /\ c \in BlockType /\ c.ptr = b.start /\ c.flag = b.flag /\ c.kind = b.kind
      /\ c.unit = b.unit /\ c.start = b.start /\ c.at = b.at /\ c.offset = b.offset
  BY <1>1, <1>2 DEF BlockType
<1>4. End(c) = End(b) /\ RegionOf(c) = RegionOf(b)
  BY <1>3 DEF End, RegionOf
<1>5. GoodBlock(c)
  <2>1. CASE ClassBlock(b)
    BY <1>1, <1>3, <2>1 DEF ClassBlock, GoodBlock, BlockType
  <2>2. CASE ~ClassBlock(b)
    <3>1. HeadedBlock(b)
      BY <2>2, GoodBlock(b) DEF GoodBlock, HugeBlock
    <3>2. HeadedBlock(c)
      BY <1>3, <3>1 DEF HeadedBlock, SPAN, SPAN_HEADER_SIZE
    <3>3. CASE b.kind = "large"
      BY <1>3, <3>2, <3>3 DEF GoodBlock
    <3>4. CASE HugeBlock(b)
      BY <1>3, <1>4, <3>2, <3>4 DEF GoodBlock, HugeBlock
    <3>. QED
      BY <2>2, <3>3, <3>4, GoodBlock(b) DEF GoodBlock
  <2>. QED
    BY <2>1, <2>2
<1>6. c.ptr + n <= End(c)
  <2>0. PICK u \in Nat, s \in Nat : u = b.unit /\ s = b.start
    BY <1>1 DEF BlockType
  <2>1. CASE b.kind = "class"
    BY <1>3, <1>4, <2>0, <2>1 DEF StaysFor, End
  <2>s. b.kind # "class" => s = 128
    BY <2>0, GoodBlock(b) DEF GoodBlock, ClassBlock, HugeBlock, HeadedBlock, SPAN_HEADER_SIZE
  <2>2. CASE b.kind = "large"
    <3>1. PICK k \in Nat : k = SpansFor(n + 128) /\ 65536 * k >= n + 128
      <4>. n + 128 \in Nat
        OBVIOUS
      <4>. QED
        BY SpansForIs DEF SPAN
    <3>2. u >= k
      BY <2>0, <2>2, <3>1 DEF StaysFor, SPAN_HEADER_SIZE
    <3>3. End(c) = u * 65536
      BY <1>3, <2>0, <2>2 DEF End, SPAN
    <3>. QED
      BY <1>3, <2>0, <2>s, <2>2, <3>1, <3>2, <3>3
  <2>3. CASE b.kind = "huge"
    <3>p. PICK p \in Nat : p = page /\ p >= 1
      BY <1>1
    <3>1. PICK k \in Nat : k = DivUp(n + 128, p) /\ p * k >= n + 128
      <4>. n + 128 \in Nat /\ p \in Nat \ {0}
        BY <3>p
      <4>. QED
        BY DivUpIs
    <3>2. u >= k
      BY <2>0, <2>3, <3>p, <3>1 DEF StaysFor, SPAN_HEADER_SIZE
    <3>3. End(c) = u * p
      BY <1>3, <2>0, <2>3, <3>p DEF End
    <3>4. p * k <= p * u /\ p * u = u * p
      BY <3>2, TimesMore
    <3>. QED
      BY <1>3, <2>0, <2>s, <2>3, <3>1, <3>3, <3>4
  <2>. QED
    BY <1>1, <2>1, <2>2, <2>3 DEF BlockType
<1>7. c.ptr % 16 = 0
  <2>1. b.start % 16 = 0 \/ b.start = 128
    BY GoodBlock(b) DEF GoodBlock, ClassBlock, HugeBlock, HeadedBlock, SPAN_HEADER_SIZE
  <2>. QED
    BY <1>3, <2>1
<1>. QED
  BY <1>2, <1>5, <1>6, <1>7 DEF Serves

(* All but a block's own map is given back when another takes its place.   *)
LEMMA GivesKeeps ==
  ASSUME Inv, NEW b, NEW n \in Nat, NEW a \in Nat \ {0}, NEW bytes, Gives(b, n, a, bytes),
         b # Null => Serves(b, n, a)
  PROVE  Inv'
<1>1. block' = b /\ size' = n /\ align' = a /\ errno' = "0" /\ platform' = platform
  BY DEF Gives
<1>2. page' = page
  BY <1>1 DEF page
<1>3. Unmapped(block) = {}
  <2>1. CASE block # Null /\ block.kind = "huge"
    <3>1. HugeBlock(block)
      BY <2>1 DEF Inv, Serves, GoodBlock, ClassBlock
    <3>2. mapped = {RegionOf(block)}
      BY <2>1 DEF Inv, Mapped
    <3>. QED
      BY <2>1, <3>1, <3>2 DEF HugeBlock, Unmapped
  <2>2. CASE ~(block # Null /\ block.kind = "huge")
    BY <2>2 DEF Inv, Unmapped, Mapped
  <2>. QED
    BY <2>1, <2>2
<1>4. mapped' = Mapped(b)
  BY <1>3 DEF Gives
<1>5. Mapped(block)' = Mapped(b)
  BY <1>1, <1>2 DEF Mapped, RegionOf, Region, Padding
<1>6. b # Null => Serves(block, size, align)'
  BY <1>1, <1>2 DEF Serves, GoodBlock, HugeBlock, End, UnmapOS, RegionOf, Region, Padding
<1>. QED
  BY <1>1, <1>4, <1>5, <1>6 DEF Inv

LEMMA FailsKeeps ==
  ASSUME Inv, NEW how, how # "gave up", Fails(how)
  PROVE  Inv'
<1>1. UNCHANGED <<platform, block, size, align, mapped>> /\ errno' = how
  BY DEF Fails
<1>. QED
  BY <1>1 DEF Inv, Serves, GoodBlock, HugeBlock, End, UnmapOS, RegionOf, Region, Padding, page,
     Mapped
-----------------------------------------------------------------------------
LEMMA MallocKeeps ==
  ASSUME Inv, NEW n \in Nat, Malloc(n)
  PROVE  Inv'
<1>1. PICK b \in Allocated(n) : Gives(b, n, 16, Null)
  BY DEF Malloc, SMALL_GRANULARITY
<1>2. Serves(b, n, 16)
  BY AllocatedIs DEF Inv, Serves
<1>. QED
  BY <1>1, <1>2, GivesKeeps

LEMMA AlignedFailsKeeps ==
  ASSUME Inv, NEW n \in Nat, NEW a \in Aligns, AlignedFails(a, n)
  PROVE  Inv'
<1>1. CASE Fails("EINVAL")
  BY <1>1, FailsKeeps
<1>2. CASE a > page /\ a < SPAN /\ GivesUp(a, n)
  BY <1>2, NeverGivesUp DEF Inv
<1>. QED
  BY <1>1, <1>2 DEF AlignedFails

LEMMA AlignedGivesKeeps ==
  ASSUME Inv, NEW n \in Nat, NEW a \in Aligns, NEW b \in AlignedAllocated(a, n),
         NEW bytes, Gives(b, n, a, bytes)
  PROVE  Inv'
<1>1. Serves(b, n, a)
  BY AlignedAllocatedIs DEF Inv
<1>2. a \in Nat \ {0}
  BY PowerIs
<1>. QED
  BY <1>1, <1>2, GivesKeeps

(* There are at least as many bytes from the pointer on as were asked for. *)
LEMMA OldIs ==
  ASSUME Inv, block # Null
  PROVE  \E o \in Nat : /\ o = OldSize(block, 0) /\ o = UsableSize(block)
                        /\ o = End(block) - block.ptr /\ o >= size /\ size \in Nat
<1>1. platform \in Platforms /\ GoodBlock(block) /\ block.ptr + size <= End(block) /\ size \in Nat
  BY DEF Inv, Serves
<1>2. PICK p \in Nat, e \in Nat : /\ p = block.ptr /\ e = End(block)
                                  /\ UsableSize(block) = e - p
  BY <1>1, GoodIs
<1>3. e - p \in Nat /\ e - p >= size
  BY <1>1, <1>2
<1>. QED
  BY <1>1, <1>2, <1>3 DEF OldSize

(* What the caller says of the old size, or 0, leaves it between the two.  *)
LEMMA OldSizeIs ==
  ASSUME Inv, block # Null, NEW oldsize \in {0, size}
  PROVE  /\ \E o \in Nat : /\ o = OldSize(block, oldsize)
                            /\ o <= End(block) - block.ptr /\ o >= size
         /\ OldSize(block, oldsize) = IF oldsize = 0 THEN UsableSize(block) ELSE oldsize
<1>1. PICK o \in Nat : /\ o = OldSize(block, 0) /\ o = UsableSize(block)
                       /\ o = End(block) - block.ptr /\ o >= size /\ size \in Nat
  BY OldIs
<1>2. CASE oldsize = 0
  BY <1>1, <1>2
<1>3. CASE oldsize = size /\ size # 0
  BY <1>1, <1>3 DEF OldSize
<1>. QED
  BY <1>2, <1>3

LEMMA ReallocateKeeps ==
  ASSUME Inv, block # Null, NEW n \in Nat, NEW old \in Nat, NEW grow, Reallocate(n, old, grow)
  PROVE  Inv'
<1>0. platform \in Platforms /\ GoodBlock(block)
  BY DEF Inv, Serves
<1>1. CASE StaysFor(block, n, old) /\ Gives([block EXCEPT !.ptr = block.start], n, 16, old)
  <2>1. Serves([block EXCEPT !.ptr = block.start], n, 16)
    BY <1>0, <1>1, StaysKeeps
  <2>. QED
    BY <1>1, <2>1, GivesKeeps
<1>2. CASE Fails("0")
  BY <1>2, FailsKeeps
<1>3. ASSUME NEW b \in Allocated(NewSize(old, n)),
             Gives(b, n, 16, Smaller(old, NewSize(old, n)))
      PROVE  Inv'
  <2>1. PICK m \in Nat : m = NewSize(old, n) /\ m >= n
    BY NewSizeIs
  <2>2. GoodBlock(b) /\ b.ptr + m <= End(b) /\ b.ptr % 16 = 0
    BY <1>0, <1>3, <2>1, AllocatedIs
  <2>3. PICK p \in Nat, e \in Nat : p = b.ptr /\ e = End(b)
    BY <1>0, <2>2, GoodIs
  <2>4. p + n <= e
    BY <2>1, <2>2, <2>3
  <2>5. Serves(b, n, 16)
    BY <2>2, <2>3, <2>4 DEF Serves
  <2>. QED
    BY <1>3, <2>5, GivesKeeps
<1>. QED
  BY <1>1, <1>2, <1>3 DEF Reallocate, SMALL_GRANULARITY

LEMMA AlignedReallocateKeeps ==
  ASSUME Inv, block # Null, NEW n \in Nat, NEW a \in Aligns, NEW old, NEW grow,
         AlignedReallocate(a, n, old, grow)
  PROVE  Inv'
<1>0. platform \in Platforms /\ GoodBlock(block)
  BY DEF Inv, Serves
<1>1. CASE AlignedStays(block, a, n, grow) /\ Gives(block, n, a, UsableSize(block))
  <2>1. PICK p \in Nat, e \in Nat : p = block.ptr /\ e = End(block)
    BY <1>0, GoodIs
  <2>2. e - p >= n /\ p % a = 0
    BY <1>0, <1>1, <2>1, GoodIs DEF AlignedStays
  <2>3. Serves(block, n, a)
    BY <1>0, <2>1, <2>2 DEF Serves
  <2>4. a \in Nat \ {0}
    BY PowerIs
  <2>. QED
    BY <1>1, <2>3, <2>4, GivesKeeps
<1>2. CASE Fails("0")
  BY <1>2, FailsKeeps
<1>3. CASE \E b \in AlignedAllocated(a, n) : Gives(b, n, a, Smaller(old, n))
  BY <1>3, AlignedGivesKeeps
<1>4. CASE AlignedFails(a, n)
  BY <1>4, AlignedFailsKeeps
<1>. QED
  BY <1>1, <1>2, <1>3, <1>4 DEF AlignedReallocate

LEMMA ReallocKeeps ==
  ASSUME Inv, NEW n \in Nat, Realloc(n)
  PROVE  Inv'
<1>1. OldSize(block, 0) \in Nat
  BY OldIs DEF Realloc
<1>. QED
  BY <1>1, ReallocateKeeps DEF Realloc

LEMMA AlignedReallocKeeps ==
  ASSUME Inv, NEW n \in Nat, NEW a \in Aligns, NEW oldsize \in {0, size}, NEW grow \in BOOLEAN,
         AlignedRealloc(a, n, oldsize, grow)
  PROVE  Inv'
<1>1. OldSize(block, oldsize) \in Nat
  BY OldSizeIs DEF AlignedRealloc
<1>. QED
  BY <1>1, ReallocateKeeps, AlignedReallocateKeeps DEF AlignedRealloc

LEMMA InitInv == Init => Inv
  BY DEF Init, Inv, Mapped

LEMMA NextInv == Inv /\ [Next]_vars => Inv'
<1>. SUFFICES ASSUME Inv, [Next]_vars
              PROVE  Inv'
  OBVIOUS
<1>1. ASSUME NEW n \in Sizes, Malloc(n)
      PROVE  Inv'
  BY <1>1, MallocKeeps, SizesAssumption
<1>2. ASSUME NEW n \in Sizes, Realloc(n)
      PROVE  Inv'
  BY <1>2, ReallocKeeps, SizesAssumption
<1>3. ASSUME NEW n \in Sizes, NEW a \in Aligns, AlignedAlloc(a, n)
      PROVE  Inv'
  BY <1>3, AlignedGivesKeeps, AlignedFailsKeeps, SizesAssumption DEF AlignedAlloc
<1>4. ASSUME NEW n \in Sizes, NEW a \in Aligns, NEW oldsize \in {0, size},
             NEW growOrFail \in BOOLEAN, AlignedRealloc(a, n, oldsize, growOrFail)
      PROVE  Inv'
  BY <1>4, AlignedReallocKeeps, SizesAssumption
<1>5. CASE Free
  BY <1>5, GivesKeeps DEF Free
<1>6. CASE NoMemory
  BY <1>6, FailsKeeps DEF NoMemory
<1>7. CASE UNCHANGED vars
  BY <1>7 DEF vars, Inv, Serves, GoodBlock, HugeBlock, End, UnmapOS, RegionOf, Region, Padding,
     page, Mapped
<1>. QED
  BY <1>1, <1>2, <1>3, <1>4, <1>5, <1>6, <1>7 DEF Next

LEMMA InvHolds == Spec => []Inv
  BY InitInv, NextInv, PTL DEF Spec

LEMMA InvOK == Inv => BlockOK
<1>. SUFFICES ASSUME Inv, block # Null
              PROVE  Inside /\ Findable
  BY DEF Inv, BlockOK
<1>1. platform \in Platforms /\ Serves(block, size, align) /\ GoodBlock(block)
  BY DEF Inv, Serves
<1>2. /\ UsableSize(block) = End(block) - block.ptr /\ FoundStart(block) = block.start
      /\ End(block) \in Nat
      /\ SPAN_HEADER_SIZE <= block.start /\ block.start <= block.ptr /\ block.ptr < SPAN
      /\ block.kind = "class" => End(block) <= SPAN
      /\ block.kind = "huge" => block.at % SPAN = 0
  BY <1>1, GoodIs
<1>. QED
  BY <1>1, <1>2 DEF Inside, Findable, Serves

(* For any sizes, alignments and platforms, what an allocation or resizing *)
(* leaves lies in its block, is found again from its pointer and gives its *)
(* map back as it was made, and the loop for large alignments ends with a  *)
(* block (rpmalloc.c:2447-2662, 2747-2760, 2856-3026, 997-1138).           *)
THEOREM BlocksServe == Spec => []BlockOK
  BY InvHolds, InvOK, PTL
-----------------------------------------------------------------------------
(* What has moved is enough and not too much.                              *)
Kept ==
  /\ moved' >= Smaller(size, size')
  /\ moved' <= End(block) - block.ptr
  /\ moved' <= End(block') - block'.ptr

LEMMA ReallocateMoves ==
  ASSUME Inv, block # Null, NEW n \in Nat, NEW old \in Nat, NEW grow,
         old >= size, old <= End(block) - block.ptr, Reallocate(n, old, grow), moved' # Null
  PROVE  Kept
<1>1. platform \in Platforms /\ GoodBlock(block) /\ size \in Nat
  BY DEF Inv, Serves
<1>2. CASE Gives([block EXCEPT !.ptr = block.start], n, 16, old)
  <2>1. block' = [block EXCEPT !.ptr = block.start] /\ size' = n /\ moved' = old
    BY <1>2 DEF Gives
  <2>2. PICK s \in Nat, p \in Nat, e \in Nat :
          s = block.start /\ p = block.ptr /\ e = End(block) /\ s <= p
    BY <1>1, GoodIs
  <2>3. End(block') = e /\ block'.ptr = s
    BY <1>1, <2>1, <2>2 DEF GoodBlock, BlockType, End
  <2>. QED
    BY <1>1, <2>1, <2>2, <2>3 DEF Kept, Smaller
<1>3. CASE Fails("0")
  BY <1>3 DEF Fails
<1>4. ASSUME NEW b \in Allocated(NewSize(old, n)),
             Gives(b, n, 16, Smaller(old, NewSize(old, n)))
      PROVE  Kept
  <2>1. PICK m \in Nat : m = NewSize(old, n) /\ m >= n
    BY NewSizeIs
  <2>2. block' = b /\ size' = n /\ moved' = Smaller(old, m)
    BY <1>4, <2>1 DEF Gives
  <2>3. GoodBlock(b) /\ b.ptr + m <= End(b)
    BY <1>1, <1>4, <2>1, AllocatedIs
  <2>4. PICK p \in Nat, e \in Nat : p = b.ptr /\ e = End(b)
    BY <1>1, <2>3, GoodIs
  <2>5. PICK q \in Nat, f \in Nat : q = block.ptr /\ f = End(block)
    BY <1>1, GoodIs
  <2>. QED
    BY <1>1, <2>1, <2>2, <2>3, <2>4, <2>5 DEF Kept, Smaller
<1>. QED
  BY <1>2, <1>3, <1>4 DEF Reallocate, SMALL_GRANULARITY

LEMMA AlignedReallocateMoves ==
  ASSUME Inv, block # Null, NEW n \in Nat, NEW a \in Aligns, NEW old \in Nat, NEW grow,
         old >= size, old <= End(block) - block.ptr,
         AlignedReallocate(a, n, old, grow), moved' # Null
  PROVE  Kept
<1>1. platform \in Platforms /\ GoodBlock(block) /\ size \in Nat
  BY DEF Inv, Serves
<1>2. CASE Gives(block, n, a, UsableSize(block))
  <2>1. block' = block /\ size' = n /\ moved' = UsableSize(block)
    BY <1>2 DEF Gives
  <2>2. PICK o \in Nat : o = UsableSize(block) /\ o = End(block) - block.ptr /\ o >= size
    BY OldIs
  <2>3. End(block') - block'.ptr = o
    BY <2>1, <2>2
  <2>. QED
    BY <1>1, <2>1, <2>2, <2>3 DEF Kept, Smaller
<1>3. CASE Fails("0") \/ AlignedFails(a, n)
  BY <1>3 DEF Fails, AlignedFails
<1>4. ASSUME NEW b \in AlignedAllocated(a, n), Gives(b, n, a, Smaller(old, n))
      PROVE  Kept
  <2>1. block' = b /\ size' = n /\ moved' = Smaller(old, n)
    BY <1>4 DEF Gives
  <2>2. GoodBlock(b) /\ b.ptr + n <= End(b)
    BY <1>1, <1>4, AlignedAllocatedIs DEF Serves
  <2>3. PICK p \in Nat, e \in Nat : p = b.ptr /\ e = End(b)
    BY <1>1, <2>2, GoodIs
  <2>4. PICK q \in Nat, f \in Nat : q = block.ptr /\ f = End(block)
    BY <1>1, GoodIs
  <2>. QED
    BY <1>1, <2>1, <2>2, <2>3, <2>4 DEF Kept, Smaller
<1>. QED
  BY <1>2, <1>3, <1>4 DEF AlignedReallocate

LEMMA AlignedReallocMoves ==
  ASSUME Inv, NEW n \in Nat, NEW a \in Aligns, NEW oldsize \in {0, size}, NEW grow \in BOOLEAN,
         AlignedRealloc(a, n, oldsize, grow), moved' # Null
  PROVE  Kept
<1>1. block # Null
  BY DEF AlignedRealloc
<1>2. PICK o \in Nat : /\ o = OldSize(block, oldsize)
                       /\ o <= End(block) - block.ptr /\ o >= size
                       /\ o = IF oldsize = 0 THEN UsableSize(block) ELSE oldsize
  BY <1>1, OldSizeIs
<1>3. CASE Reallocate(n, o, grow)
  BY <1>1, <1>2, <1>3, ReallocateMoves
<1>4. CASE AlignedReallocate(a, n, o, grow)
  BY <1>1, <1>2, <1>4, AlignedReallocateMoves
<1>. QED
  BY <1>2, <1>3, <1>4 DEF AlignedRealloc

LEMMA ReallocMoves ==
  ASSUME Inv, NEW n \in Nat, Realloc(n), moved' # Null
  PROVE  Kept
<1>1. PICK o \in Nat : /\ o = OldSize(block, 0) /\ o = End(block) - block.ptr /\ o >= size
  BY OldIs DEF Realloc
<1>2. block # Null /\ Reallocate(n, o, FALSE)
  BY <1>1, Zenon DEF Realloc
<1>3. o <= End(block) - block.ptr
  BY <1>1
<1>. QED
  BY <1>1, <1>2, <1>3, ReallocateMoves

LEMMA NextKept ==
  ASSUME Inv, [Next]_vars, vars' # vars, moved' # Null
  PROVE  Kept
<1>1. ASSUME NEW n \in Sizes, Malloc(n)
      PROVE  Kept
  BY <1>1 DEF Malloc, Gives
<1>2. ASSUME NEW n \in Sizes, Realloc(n)
      PROVE  Kept
  BY <1>2, ReallocMoves, SizesAssumption
<1>3. ASSUME NEW n \in Sizes, NEW a \in Aligns, AlignedAlloc(a, n)
      PROVE  Kept
  BY <1>3 DEF AlignedAlloc, AlignedFails, Gives, Fails
<1>4. ASSUME NEW n \in Sizes, NEW a \in Aligns, NEW oldsize \in {0, size},
             NEW growOrFail \in BOOLEAN, AlignedRealloc(a, n, oldsize, growOrFail)
      PROVE  Kept
  BY <1>4, AlignedReallocMoves, SizesAssumption
<1>5. CASE Free
  BY <1>5 DEF Free, Gives
<1>6. CASE NoMemory
  BY <1>6 DEF NoMemory, Fails
<1>. QED
  BY <1>1, <1>2, <1>3, <1>4, <1>5, <1>6 DEF Next

(* For any sizes, alignments and platforms, a resizing brings along what   *)
(* the caller had that still fits, and reads and writes inside the two     *)
(* blocks (rpmalloc.c:2883-2997).                                          *)
THEOREM DataIsKept == Spec => DataKept
<1>1. Inv /\ [Next]_vars => [moved' # Null => Kept]_vars
  BY NextKept
<1>2. Spec => [][moved' # Null => Kept]_vars
  BY <1>1, InvHolds, PTL DEF Spec
<1>. QED
  BY <1>2 DEF DataKept, Kept
=============================================================================
