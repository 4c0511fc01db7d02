---------------------------- MODULE BuffersProofs ----------------------------
(***************************************************************************)
(* The indices of both buffers and the arenas of the writer, for any       *)
(* bytes, sizes, policies and widths of int and long. What is to be shown  *)
(* of every call is that a wrapped-around index is either refused or       *)
(* inside the memory there is by then.                                     *)
(*                                                                         *)
(* The second part shows that a writer of any policy is the log of         *)
(* ByteLog, the third that strings come back as they were written.         *)
(***************************************************************************)
EXTENDS Buffers, SequenceTheorems, WellFoundedInduction, TLAPS

(* A segment that fits its block, and that a long can count.               *)
Sound(seg) ==
  /\ seg \in MemorySegment
  /\ seg.base + seg.len <= Len(seg.block)
  /\ seg.len <= LONG_MAX

WriterOK == TypeOK /\ IndexOK /\ ArenasOwned /\ Sound(segment)

ReaderOK == Reader!TypeOK /\ Reader!IndexOK /\ Len(data) <= LONG_MAX

BuffersInv == WriterOK /\ ReaderOK
-----------------------------------------------------------------------------
(* Wrapping around at a power of two gives a value of that width, and the  *)
(* values of that width back.                                              *)
LEMMA WrapRange ==
  ASSUME NEW x \in Int, NEW bits, 2^(bits - 1) \in Nat \ {0}
  PROVE  /\ Wrap(x, bits) \in Int
         /\ Wrap(x, bits) <= 2^(bits - 1) - 1
         /\ 0 <= x /\ x <= 2^(bits - 1) - 1 => Wrap(x, bits) = x
<1>. DEFINE half == 2^(bits - 1)
<1>. HIDE DEF half
<1>1. \A h \in Nat \ {0} :
        /\ ((x + h) % (2 * h)) - h \in Int
        /\ ((x + h) % (2 * h)) - h <= h - 1
        /\ 0 <= x /\ x <= h - 1 => ((x + h) % (2 * h)) - h = x
  OBVIOUS
<1>2. half \in Nat \ {0} /\ Wrap(x, bits) = ((x + half) % (2 * half)) - half
  BY DEF Wrap, half
<1>3. /\ Wrap(x, bits) \in Int
      /\ Wrap(x, bits) <= half - 1
      /\ 0 <= x /\ x <= half - 1 => Wrap(x, bits) = x
  BY <1>1, <1>2
<1>. QED
  BY <1>3 DEF half

(* What wrapping around gives fits, and what fits keeps its value.         *)
LEMMA WrapLong ==
  ASSUME NEW x \in Int
  PROVE  /\ Wrap(x, LongBits) \in Int /\ Wrap(x, LongBits) <= LONG_MAX
         /\ Wrap(x, IntBits) \in Int /\ Wrap(x, IntBits) <= INT_MAX
         /\ LONG_MAX \in Nat /\ INT_MAX \in Nat /\ INT_MAX <= LONG_MAX
         /\ 0 <= x /\ x <= LONG_MAX => Wrap(x, LongBits) = x
         /\ 0 <= x /\ x <= INT_MAX => Wrap(x, IntBits) = x
<1>1. /\ 2^(IntBits - 1) \in Nat \ {0} /\ 2^(LongBits - 1) \in Nat \ {0}
      /\ 2^(IntBits - 1) <= 2^(LongBits - 1)
  BY PowerAssumption
<1>2. INT_MAX = 2^(IntBits - 1) - 1 /\ LONG_MAX = 2^(LongBits - 1) - 1
  BY DEF INT_MAX, LONG_MAX
<1>3. INT_MAX \in Nat /\ LONG_MAX \in Nat /\ INT_MAX <= LONG_MAX
  BY <1>1, <1>2
<1>. QED
  BY <1>1, <1>2, <1>3, WrapRange

(* Fresh memory holds what it is given, if that is not longer.             *)
LEMMA FreshIsSound ==
  ASSUME NEW init \in Seq(Byte), NEW n \in Nat, Len(init) <= n, n <= LONG_MAX,
         NEW owner \in Arena \cup {HEAP}
  PROVE  Sound(Fresh(init, n, owner)) /\ Fresh(init, n, owner).len = n
<1>. DEFINE k == n - Len(init)
<1>1. k \in Nat /\ Zeros(k) \in Seq(Byte) /\ Len(Zeros(k)) = k
  BY ByteAssumption DEF Zeros, NUT
<1>2. init \o Zeros(k) \in Seq(Byte) /\ Len(init \o Zeros(k)) = n
  BY <1>1, ConcatProperties
<1>. QED
  BY <1>2 DEF Fresh, Sound, MemorySegment

(* Storing into a sound segment leaves one of the same length.             *)
LEMMA StoreIsSound ==
  ASSUME NEW seg, Sound(seg), NEW i \in Int, NEW bs \in Seq(Byte)
  PROVE  Sound(Store(seg, i, bs)) /\ Store(seg, i, bs).len = seg.len
<1>. DEFINE b == [k \in DOMAIN seg.block |->
                    IF k - seg.base - i \in DOMAIN bs THEN bs[k - seg.base - i]
                                                      ELSE seg.block[k]]
<1>1. b \in Seq(Byte) /\ Len(b) = Len(seg.block)
  <2>1. seg.block \in Seq(Byte)
    BY DEF Sound, MemorySegment
  <2>2. DOMAIN seg.block = 1 .. Len(seg.block) /\ Len(seg.block) \in Nat
    BY <2>1
  <2>3. \A k \in 1 .. Len(seg.block) : seg.block[k] \in Byte
    BY <2>1
  <2>4. \A j \in DOMAIN bs : bs[j] \in Byte
    OBVIOUS
  <2>5. b \in [1 .. Len(seg.block) -> Byte]
    BY <2>2, <2>3, <2>4
  <2>. HIDE DEF b
  <2>. QED
    BY <2>2, <2>5
<1>2. Store(seg, i, bs) = [seg EXCEPT !.block = b]
  BY DEF Store
<1>. HIDE DEF b
<1>. QED
  BY <1>1, <1>2 DEF Sound, MemorySegment

(* The first n bytes of a segment are n bytes.                             *)
LEMMA BytesAre ==
  ASSUME NEW seg, Sound(seg), NEW n \in 0 .. seg.len
  PROVE  Bytes(seg, n) \in Seq(Byte) /\ Len(Bytes(seg, n)) = n
<1>1. \A i \in seg.base + 1 .. seg.base + n : seg.block[i] \in Byte
  BY DEF Sound, MemorySegment
<1>2. seg.base \in Nat /\ seg.base + 1 \in Int /\ seg.base + n \in Int
  BY DEF Sound, MemorySegment
<1>. PICK b, m \in Int : b = seg.base + 1 /\ m = seg.base + n
  BY <1>2
<1>3. \A i \in b .. m : seg.block[i] \in Byte
  BY <1>1
<1>4. /\ SubSeq(seg.block, b, m) \in Seq(Byte)
      /\ Len(SubSeq(seg.block, b, m)) = IF b <= m THEN m - b + 1 ELSE 0
  BY <1>3, SubSeqProperties
<1>5. (IF b <= m THEN m - b + 1 ELSE 0) = n
  BY <1>2
<1>6. Bytes(seg, n) = SubSeq(seg.block, b, m)
  BY DEF Bytes
<1>. QED
  BY <1>4, <1>5, <1>6
-----------------------------------------------------------------------------
(* The segment a write goes on with has room for all of it.                *)
LEMMA ResizedIsSound ==
  ASSUME WriterOK, NEW next \in Int, next <= LONG_MAX, NEW w \in 0 .. size,
         NEW seg \in Resized(next, w)
  PROVE  Sound(seg) /\ next \in 0 .. seg.len /\ w \in 0 .. seg.len
<1>. USE DEF WriterOK
<1>1. /\ size \in Nat /\ size = segment.len /\ segment \in MemorySegment
      /\ w \in Int /\ Sound(segment)
  BY DEF IndexOK, TypeOK, MemorySegment
<1>2. CASE next <= size
  BY <1>1, <1>2 DEF Resized
<1>3. CASE next > size
  <2>1. seg \in PolicyResize(next, w) /\ next >= 0
    BY <1>1, <1>3 DEF Resized
  <2>2. Bytes(segment, w) \in Seq(Byte) /\ Len(Bytes(segment, w)) = w
    BY <1>1, BytesAre
  <2>3. \A x \in Int, owner \in Arena \cup {HEAP} :
          x <= LONG_MAX =>
            LET new == Fresh(Bytes(segment, w), Larger(next, x), owner)
            IN  Sound(new) /\ new.len = Larger(next, x)
    <3>. SUFFICES ASSUME NEW x \in Int, NEW owner \in Arena \cup {HEAP}, x <= LONG_MAX
                  PROVE  LET new == Fresh(Bytes(segment, w), Larger(next, x), owner)
                         IN  Sound(new) /\ new.len = Larger(next, x)
      OBVIOUS
    <3>1. Larger(next, x) \in Nat /\ w <= Larger(next, x) /\ Larger(next, x) <= LONG_MAX
      BY <1>1, <1>3, <2>1 DEF Larger
    <3>. QED
      BY <2>2, <3>1, FreshIsSound
  <2>4. CASE kind \in {"Default", "Reserved"}
    <3>1. Wrap(2 * size, LongBits) \in Int /\ Wrap(2 * size, LongBits) <= LONG_MAX
      BY <1>1, WrapLong
    <3>2. /\ seg \in {Fresh(Bytes(segment, w), Larger(next, Wrap(2 * size, LongBits)), a) :
                      a \in Arena}
      BY <2>1, <2>4 DEF PolicyResize, DefaultResize, ReservedResize, Open, TypeOK, Arena
    <3>3. Sound(seg) /\ seg.len = Larger(next, Wrap(2 * size, LongBits))
      BY <2>3, <3>1, <3>2
    <3>. QED
      BY <1>1, <1>3, <3>1, <3>3 DEF Larger
  <2>5. CASE kind = "Heap"
    <3>. DEFINE n == Larger(next, Wrap(2 * Len(segment.block), IntBits))
    <3>1. /\ Len(segment.block) \in Nat /\ w <= Len(segment.block)
          /\ Wrap(2 * Len(segment.block), IntBits) \in Int
          /\ Wrap(2 * Len(segment.block), IntBits) <= LONG_MAX
      <4>1. Len(segment.block) \in Nat /\ w <= Len(segment.block)
        BY <1>1 DEF Sound, MemorySegment
      <4>2. \A x \in Int : Wrap(x, IntBits) \in Int /\ Wrap(x, IntBits) <= LONG_MAX
        <5>1. ASSUME NEW x \in Int
              PROVE  Wrap(x, IntBits) \in Int /\ Wrap(x, IntBits) <= LONG_MAX
          BY WrapLong
        <5>. QED
          BY <5>1
      <4>3. 2 * Len(segment.block) \in Int
        BY <4>1
      <4>. QED
        BY <4>1, <4>2, <4>3
    <3>2. seg = Fresh(SubSeq(segment.block, 1, w), n, HEAP)
      BY <2>1, <2>5 DEF PolicyResize, HeapResize
    <3>3. /\ SubSeq(segment.block, 1, w) \in Seq(Byte)
          /\ Len(SubSeq(segment.block, 1, w)) = w
      <4>1. \A i \in 1 .. w : segment.block[i] \in Byte
        BY <1>1, <3>1 DEF MemorySegment
      <4>. QED
        BY <1>1, <4>1, SubSeqProperties
    <3>4. n \in Nat /\ w <= n /\ n <= LONG_MAX /\ next <= n
      BY <1>1, <1>3, <2>1, <3>1 DEF Larger
    <3>. HIDE DEF n
    <3>5. Sound(seg) /\ seg.len = n
      BY <3>2, <3>3, <3>4, FreshIsSound
    <3>. QED
      BY <1>1, <2>1, <3>4, <3>5
  <2>6. kind # "Fixed"
    BY <2>1 DEF PolicyResize, FixedResize
  <2>. QED
    BY <2>4, <2>5, <2>6, KindAssumption DEF TypeOK
<1>. QED
  BY <1>1, <1>2, <1>3

(* A new arena is the policy's, and it had none.                           *)
LEMMA ArenasKept ==
  ASSUME WriterOK, NEW next, EnsureArena(next) \/ UNCHANGED <<arena, arenas>>,
         UNCHANGED kind
  PROVE  /\ arena' \in Arena \cup {Null}
         /\ DOMAIN arenas' \subseteq Arena
         /\ \A a \in DOMAIN arenas' : arenas'[a] \in {"open", "closed"}
         /\ ArenasOwned'
<1>. USE DEF WriterOK, TypeOK, ArenasOwned, Open
<1>1. CASE UNCHANGED <<arena, arenas>>
  BY <1>1
<1>2. CASE /\ arena = Null /\ arena' = GROWN
           /\ arenas' = [a \in DOMAIN arenas \cup {GROWN} |->
                            IF a = GROWN THEN "open" ELSE arenas[a]]
  BY <1>2, OwnerAssumption DEF Arena, USER, GROWN
<1>. QED
  BY <1>1, <1>2 DEF EnsureArena

(* A call that ends with a sound segment keeps the writer sound.           *)
LEMMA EndIsOK ==
  ASSUME WriterOK, NEW seg, Sound(seg), NEW w \in 0 .. seg.len,
         Returns(seg, w) \/ Throws(seg, w),
         NEW next, EnsureArena(next) \/ UNCHANGED <<arena, arenas>>
  PROVE  WriterOK'
<1>1. /\ kind' = kind /\ segment' = seg /\ size' = seg.len /\ writeIndex' = w
      /\ ret' \in {"ok", "threw"}
  BY DEF Returns, Throws
<1>2. /\ arena' \in Arena \cup {Null}
      /\ DOMAIN arenas' \subseteq Arena
      /\ \A a \in DOMAIN arenas' : arenas'[a] \in {"open", "closed"}
      /\ ArenasOwned'
  BY <1>1, ArenasKept
<1>3. seg \in MemorySegment /\ seg.len \in Nat /\ seg.base + seg.len <= Len(seg.block)
  BY DEF Sound, MemorySegment
<1>4. TypeOK' /\ IndexOK'
  BY <1>1, <1>2, <1>3 DEF TypeOK, IndexOK, WriterOK
<1>5. Sound(segment)'
  BY <1>1 DEF Sound, LONG_MAX, MemorySegment
<1>. QED
  BY <1>2, <1>4, <1>5 DEF WriterOK

(* Writing at an index, or failing to, keeps the writer sound.             *)
LEMMA WriteAtIsOK ==
  ASSUME WriterOK, NEW w \in 0 .. size, NEW bs \in Seq(Byte), NEW next \in Int,
         next <= LONG_MAX, WriteAt(w, bs, next)
  PROVE  WriterOK'
<1>1. CASE \E seg \in Resized(next, w) :
             \/ Returns(Store(seg, w, bs), next)
             \/ Throws(seg, w)
  <2>1. PICK seg \in Resized(next, w) : \/ Returns(Store(seg, w, bs), next)
                                        \/ Throws(seg, w)
    BY <1>1
  <2>2. Sound(seg) /\ next \in 0 .. seg.len /\ w \in 0 .. seg.len /\ w \in Int
    BY ResizedIsSound
  <2>3. Sound(Store(seg, w, bs)) /\ next \in 0 .. Store(seg, w, bs).len
    BY <2>2, StoreIsSound
  <2>. QED
    BY <2>1, <2>2, <2>3, EndIsOK DEF WriteAt
<1>2. CASE Throws(segment, w)
  BY <1>2, EndIsOK DEF WriteAt, WriterOK, IndexOK
<1>. QED
  BY <1>1, <1>2 DEF WriteAt
-----------------------------------------------------------------------------
(* A new writer is sound.                                                  *)
LEMMA WriterInit == Init => WriterOK
<1>. SUFFICES ASSUME Init PROVE WriterOK
  OBVIOUS
<1>1. PICK n \in Sizes : segment = Fresh(<<>>, n, IF kind = "Heap" THEN HEAP ELSE USER)
  BY DEF Init
<1>2. n \in Nat /\ n <= LONG_MAX
  BY BitsAssumption, PowerAssumption DEF LONG_MAX
<1>3. Sound(segment) /\ segment.len = n
  <2>. DEFINE init == <<>>
  <2>1. init \in Seq(Byte) /\ Len(init) = 0
    OBVIOUS
  <2>. HIDE DEF init
  <2>2. PICK owner \in Arena \cup {HEAP} : segment = Fresh(init, n, owner)
    BY <1>1 DEF Arena, init
  <2>3. Len(init) <= n
    BY <1>2, <2>1
  <2>. QED
    BY <1>2, <2>1, <2>2, <2>3, FreshIsSound
<1>4. /\ kind \in Kinds /\ size = segment.len /\ writeIndex = 0 /\ ret = "ok"
      /\ arena = IF kind \in {"Fixed", "Default"} THEN USER ELSE Null
      /\ arenas = [a \in (IF kind = "Heap" THEN {} ELSE {USER}) |-> "open"]
  BY DEF Init
<1>5. TypeOK /\ IndexOK
  BY <1>2, <1>3, <1>4 DEF TypeOK, IndexOK, Arena, Sound, MemorySegment
<1>6. ArenasOwned
  BY <1>4, OwnerAssumption DEF ArenasOwned, Arena, Open
<1>. QED
  BY <1>3, <1>5, <1>6 DEF WriterOK

(* Every call on the writer keeps it sound.                                *)
LEMMA WriterNext == WriterOK /\ (Next \/ UNCHANGED vars) => WriterOK'
<1>. SUFFICES ASSUME WriterOK, Next \/ UNCHANGED vars PROVE WriterOK'
  OBVIOUS
<1>1. /\ size \in Nat /\ writeIndex \in 0 .. size /\ writeIndex \in Int
      /\ size = segment.len /\ Sound(segment)
  BY DEF WriterOK, TypeOK, IndexOK
<1>2. \A bs \in Words : bs \in Seq(Byte) /\ Len(bs) \in Nat
  BY WordAssumption
<1>3. \A x \in Int : Wrap(x, LongBits) \in Int /\ Wrap(x, LongBits) <= LONG_MAX
  <2>1. ASSUME NEW x \in Int PROVE Wrap(x, LongBits) \in Int /\ Wrap(x, LongBits) <= LONG_MAX
    BY WrapLong
  <2>. QED
    BY <2>1
<1>4. ASSUME NEW bs \in Words, Write(bs) PROVE WriterOK'
  <2>. DEFINE next == Wrap(writeIndex + Len(bs), LongBits)
  <2>1. bs \in Seq(Byte) /\ writeIndex + Len(bs) \in Int
    BY <1>1, <1>2
  <2>2. next \in Int /\ next <= LONG_MAX
    BY <1>3, <2>1
  <2>3. WriteAt(writeIndex, bs, next)
    BY <1>4 DEF Write
  <2>. HIDE DEF next
  <2>. QED
    BY <1>1, <2>1, <2>2, <2>3, WriteAtIsOK
<1>5. ASSUME NEW b \in Words, NEW off \in -1 .. Len(b), NEW len \in -1 .. Len(b),
             WriteBytes(b, off, len)
      PROVE  WriterOK'
  <2>. DEFINE next == Wrap(writeIndex + Len(b), LongBits)
  <2>1. next \in Int /\ next <= LONG_MAX
    <3>1. writeIndex + Len(b) \in Int
      BY <1>1, <1>2
    <3>. QED
      BY <1>3, <3>1
  <2>2. CASE off >= 0 /\ len >= 0 /\ off + len <= Len(b)
    <3>1. WriteAt(writeIndex, SubSeq(b, off + 1, off + len), next)
      BY <1>5, <2>2 DEF WriteBytes
    <3>2. SubSeq(b, off + 1, off + len) \in Seq(Byte)
      <4>1. \A i \in off + 1 .. off + len : b[i] \in Byte
        BY <1>2, <2>2
      <4>. QED
        BY <1>2, <4>1, SubSeqProperties
    <3>. QED
      BY <1>1, <2>1, <3>1, <3>2, WriteAtIsOK
  <2>3. CASE ~(off >= 0 /\ len >= 0 /\ off + len <= Len(b))
    <3>1. PICK seg \in Resized(next, writeIndex) \cup {segment} :
            EnsureArena(next) /\ Throws(seg, writeIndex)
      BY <1>5, <2>3 DEF WriteBytes
    <3>2. Sound(seg) /\ writeIndex \in 0 .. seg.len
      BY <1>1, <2>1, <3>1, ResizedIsSound
    <3>. QED
      BY <3>1, <3>2, EndIsOK
  <2>. QED
    BY <2>2, <2>3
<1>6. ASSUME NEW str \in Strs, NEW rollbackNut \in BOOLEAN, WriteCStr(str, rollbackNut)
      PROVE  WriterOK'
  <2>1. Append(str, NUT) \in Seq(Byte) /\ Len(str) \in Nat
    BY StrAssumption, ByteAssumption
  <2>2. CASE Refused
    BY <2>2 DEF Refused, fields, WriterOK, TypeOK, IndexOK, ArenasOwned, Open, Sound, LONG_MAX,
                MemorySegment
  <2>3. CASE \E w \in {writeIndex, writeIndex - 1} :
               /\ w >= 0
               /\ WriteAt(w, Append(str, NUT), Wrap(w + Len(str) + 1, LongBits))
    <3>1. PICK w \in 0 .. size : WriteAt(w, Append(str, NUT), Wrap(w + Len(str) + 1, LongBits))
      BY <1>1, <2>3
    <3>2. w + Len(str) + 1 \in Int
      BY <2>1
    <3>3. /\ Wrap(w + Len(str) + 1, LongBits) \in Int
          /\ Wrap(w + Len(str) + 1, LongBits) <= LONG_MAX
      BY <1>3, <3>2
    <3>. QED
      BY <2>1, <3>1, <3>3, WriteAtIsOK
  <2>4. CASE \E w \in {writeIndex, writeIndex - 1} :
               w >= 0 /\ Throws(segment, w) /\ UNCHANGED <<arena, arenas>>
    <3>1. PICK w \in 0 .. segment.len : Throws(segment, w) /\ UNCHANGED <<arena, arenas>>
      BY <1>1, <2>4
    <3>. QED
      BY <1>1, <3>1, EndIsOK
  <2>. QED
    BY <1>1, <1>6, <2>2, <2>3, <2>4 DEF WriteCStr
<1>7. ASSUME NEW index \in Int, NEW bs \in Words, Set(index, bs) PROVE WriterOK'
  <2>1. CASE Refused
    BY <2>1 DEF Refused, fields, WriterOK, TypeOK, IndexOK, ArenasOwned, Open, Sound, LONG_MAX,
                MemorySegment
  <2>2. CASE Returns(Store(segment, index, bs), writeIndex) /\ UNCHANGED <<arena, arenas>>
    <3>1. Sound(Store(segment, index, bs)) /\ Store(segment, index, bs).len = segment.len
      BY <1>1, <1>2, StoreIsSound
    <3>. QED
      BY <1>1, <2>2, <3>1, EndIsOK
  <2>. QED
    BY <1>7, <2>1, <2>2 DEF Set
<1>8. ASSUME NEW offset \in Int, Truncate(offset) PROVE WriterOK'
  <2>1. CASE Refused
    BY <2>1 DEF Refused, fields, WriterOK, TypeOK, IndexOK, ArenasOwned, Open, Sound, LONG_MAX,
                MemorySegment
  <2>2. CASE ~(offset > writeIndex \/ offset < 0)
    <3>. DEFINE seg == [segment EXCEPT !.base = @ + offset, !.len = size - offset]
    <3>1. Returns(seg, writeIndex - offset) /\ UNCHANGED <<arena, arenas>>
      BY <1>8, <2>2 DEF Truncate
    <3>2. Sound(seg) /\ seg.len = size - offset
      <4>1. segment \in MemorySegment /\ segment.base \in Nat /\ segment.len \in Nat
        BY <1>1 DEF Sound, MemorySegment
      <4>2. segment.base + offset \in Nat /\ size - offset \in Nat /\ offset >= 0
        BY <1>1, <2>2, <4>1
      <4>3. /\ seg \in MemorySegment /\ seg.block = segment.block
            /\ seg.base = segment.base + offset /\ seg.len = size - offset
        BY <4>1, <4>2 DEF MemorySegment
      <4>4. /\ segment.base + segment.len <= Len(segment.block) /\ segment.len <= LONG_MAX
            /\ LONG_MAX \in Int
        BY <1>1, WrapLong DEF Sound
      <4>. HIDE DEF seg
      <4>. QED
        BY <1>1, <4>1, <4>2, <4>3, <4>4 DEF Sound
    <3>3. writeIndex - offset \in 0 .. seg.len
      BY <1>1, <2>2, <3>2
    <3>. HIDE DEF seg
    <3>. QED
      BY <3>1, <3>2, <3>3, EndIsOK
  <2>. QED
    BY <1>8, <2>1, <2>2 DEF Truncate
<1>9. CASE Close \/ UserCloses \/ UNCHANGED vars
  <2>1. /\ UNCHANGED fields /\ arena' = arena /\ DOMAIN arenas' = DOMAIN arenas
        /\ \A a \in DOMAIN arenas : arenas'[a] \in {arenas[a], "closed"}
        /\ ret' \in {"ok", "threw"}
    BY <1>9 DEF Close, UserCloses, Refused, vars, Open, WriterOK, TypeOK
  <2>. QED
    BY <2>1 DEF fields, WriterOK, TypeOK, IndexOK, ArenasOwned, Open, Sound, LONG_MAX,
                MemorySegment
<1>. QED
  <2>1. \A k \in Kinds : Cuts[k] \subseteq Int
    BY CutAssumption
  <2>2. kind \in Kinds
    BY DEF WriterOK, TypeOK
  <2>3. Indices \subseteq Int
    BY DEF Indices
  <2>. QED
    BY <1>4, <1>5, <1>6, <1>7, <1>8, <1>9, <2>1, <2>2, <2>3 DEF Next
-----------------------------------------------------------------------------
(* The reader computes with the same widths.                               *)
LEMMA SameWrap ==
  /\ Reader!INT_MAX = INT_MAX /\ Reader!LONG_MAX = LONG_MAX
  /\ \A x, bits : Reader!Wrap(x, bits) = Wrap(x, bits)
  BY DEF Reader!INT_MAX, Reader!LONG_MAX, Reader!Wrap, INT_MAX, LONG_MAX, Wrap

(* A set of positions that is not empty has a least one.                   *)
LEMMA LeastOf ==
  ASSUME NEW T \in SUBSET Nat, T # {}
  PROVE  \E x \in T : \A y \in T : x <= y
<1>1. PICK x \in T : \A y \in T : <<y, x>> \notin OpToRel(<, Nat)
  BY NatLessThanWellFounded, WFMin
<1>2. \A y \in T : ~(y < x)
  BY <1>1 DEF OpToRel
<1>. QED
  BY <1>2

(* A separator is a sequence of bytes.                                     *)
LEMMA SepsAreBytes ==
  ASSUME NEW sep \in Seps \cup {<<NUT>>}
  PROVE  sep \in Seq(Byte) /\ Len(sep) \in Nat
<1>1. CASE sep \in Seps
  BY <1>1, DataAssumption
<1>2. CASE sep = <<NUT>>
  <2>1. NUT \in Byte
    BY ByteAssumption DEF NUT
  <2>. QED
    BY <1>2, <2>1
<1>. QED
  BY <1>1, <1>2

(* The first hit is one, and there is none before it.                      *)
LEMMA FirstHitIsFirst ==
  ASSUME ReaderOK, NEW sep \in Seq(Byte), Reader!Hits(sep) # {}
  PROVE  /\ Reader!FirstHit(sep) \in Reader!Hits(sep)
         /\ \A cur \in Reader!Hits(sep) : Reader!FirstHit(sep) <= cur
         /\ Reader!FirstHit(sep) \in readIndex .. Len(data) - Len(sep)
<1>1. Reader!Hits(sep) \in SUBSET Nat
  BY DEF Reader!Hits, ReaderOK, Reader!TypeOK
<1>2. \E x \in Reader!Hits(sep) : \A y \in Reader!Hits(sep) : x <= y
  BY <1>1, LeastOf
<1>3. /\ Reader!FirstHit(sep) \in Reader!Hits(sep)
      /\ \A cur \in Reader!Hits(sep) : Reader!FirstHit(sep) <= cur
  BY <1>2 DEF Reader!FirstHit
<1>. QED
  BY <1>3 DEF Reader!Hits, Reader!size

(* A slice that lies in the segment.                                       *)
LEMMA SliceIs ==
  ASSUME ReaderOK, NEW a \in Nat, NEW b \in Nat, a <= b, b <= Len(data)
  PROVE  Reader!Slice(a, b) \in Seq(Byte) /\ Len(Reader!Slice(a, b)) = b - a
<1>1. \A i \in a + 1 .. b : data[i] \in Byte
  BY DEF ReaderOK, Reader!TypeOK
<1>. QED
  BY <1>1, SubSeqProperties DEF Reader!Slice

(* A slice of the data, byte by byte.                                      *)
LEMMA SliceOne ==
  ASSUME ReaderOK, NEW a \in Nat, NEW b \in Nat, a <= b, b <= Len(data)
  PROVE  \A i \in 1 .. b - a : Reader!Slice(a, b)[i] = data[a + i]
<1>1. a + 1 \in Int /\ b \in Int /\ Len(data) \in Nat
  BY DEF ReaderOK, Reader!TypeOK
<1>2. \A i \in a + 1 .. b : data[i] \in Byte
  BY <1>1 DEF ReaderOK, Reader!TypeOK
<1>3. PICK x : x = SubSeq(data, a + 1, b)
  OBVIOUS
<1>4. \A i \in 1 .. b - (a + 1) + 1 : x[i] = data[a + 1 + i - 1]
  BY <1>1, <1>2, <1>3, SubSeqProperties
<1>5. ASSUME NEW i \in 1 .. b - a PROVE x[i] = data[a + i]
  <2>1. i \in 1 .. b - (a + 1) + 1 /\ a + 1 + i - 1 = a + i
    OBVIOUS
  <2>. QED
    BY <1>4, <2>1
<1>. QED
  BY <1>3, <1>5 DEF Reader!Slice

(* Two slices that meet make one.                                          *)
LEMMA SliceJoins ==
  ASSUME ReaderOK, NEW a \in Nat, NEW b \in Nat, NEW c \in Nat,
         a <= b, b <= c, c <= Len(data)
  PROVE  Reader!Slice(a, c) = Reader!Slice(a, b) \o Reader!Slice(b, c)
<1>1. data \in Seq(Byte) /\ Len(data) \in Nat
  BY DEF ReaderOK, Reader!TypeOK
<1>2. PICK m : m = a + 1
  OBVIOUS
<1>3. m \in 1 .. Len(data) + 1 /\ b \in m - 1 .. Len(data) /\ c \in b .. Len(data)
  BY <1>1, <1>2
<1>4. SubSeq(data, m, b) \o SubSeq(data, b + 1, c) = SubSeq(data, m, c)
  BY <1>1, <1>3, ConcatAdjacentSubSeq
<1>. QED
  BY <1>2, <1>4 DEF Reader!Slice

(* Where a NUT is, there is a hit.                                         *)
LEMMA NutHits ==
  ASSUME ReaderOK
  PROVE  Reader!Hits(<<NUT>>) = {cur \in readIndex .. Len(data) - 1 : data[cur + 1] = NUT}
<1>1. PICK sep : sep = <<NUT>>
  OBVIOUS
<1>2. sep \in Seq(Byte) /\ Len(sep) = 1 /\ sep[1] = NUT
  BY <1>1, ByteAssumption DEF NUT
<1>3. data \in Seq(Byte) /\ Len(data) \in Nat /\ readIndex \in Nat
  BY DEF ReaderOK, Reader!TypeOK
<1>4. ASSUME NEW cur \in readIndex .. Len(data) - 1
      PROVE  Reader!Matches(cur, sep) <=> data[cur + 1] = NUT
  <2>1. cur \in Nat /\ cur + 1 \in Nat /\ cur <= cur + 1 /\ cur + 1 <= Len(data)
    BY <1>3
  <2>2. PICK x : x = SubSeq(data, cur + 1, cur + 1)
    OBVIOUS
  <2>3. /\ x \in Seq(Byte) /\ Len(x) = 1 /\ x[1] = data[cur + 1]
    <3>1. PICK n : n = cur + 1
      OBVIOUS
    <3>2. n \in Nat /\ cur \in Nat /\ cur <= n /\ n <= Len(data) /\ n - cur = 1
      BY <2>1, <3>1
    <3>3. Reader!Slice(cur, n) \in Seq(Byte) /\ Len(Reader!Slice(cur, n)) = n - cur
      BY <3>2, SliceIs
    <3>4. \A i \in 1 .. n - cur : Reader!Slice(cur, n)[i] = data[cur + i]
      BY <3>2, SliceOne
    <3>5. x = Reader!Slice(cur, n)
      BY <2>2, <3>1 DEF Reader!Slice
    <3>6. 1 \in 1 .. n - cur
      BY <3>2
    <3>. QED
      BY <3>2, <3>3, <3>4, <3>5, <3>6
  <2>4. Reader!Matches(cur, sep) <=> x = sep
    BY <1>2, <2>2 DEF Reader!Matches, Reader!Slice
  <2>5. x[1] = NUT => x = sep
    <3>1. x[1] = NUT => \A i \in 1 .. Len(x) : x[i] = sep[i]
      BY <1>2, <2>3
    <3>. QED
      BY <1>2, <2>3, <3>1, SeqEqual
  <2>. QED
    BY <1>2, <2>3, <2>4, <2>5
<1>5. Reader!Hits(sep) = {cur \in readIndex .. Len(data) - 1 : Reader!Matches(cur, sep)}
  BY <1>2 DEF Reader!Hits, Reader!size
<1>. QED
  BY <1>1, <1>4, <1>5

(* Up to the first NUT there is none.                                      *)
LEMMA FirstNut ==
  ASSUME ReaderOK, Reader!Hits(<<NUT>>) # {}
  PROVE  /\ Reader!FirstHit(<<NUT>>) \in Nat
         /\ Reader!FirstHit(<<NUT>>) \in readIndex .. Len(data) - 1
         /\ data[Reader!FirstHit(<<NUT>>) + 1] = NUT
         /\ \A i \in readIndex + 1 .. Reader!FirstHit(<<NUT>>) : data[i] # NUT
<1>1. PICK sep : sep = <<NUT>>
  OBVIOUS
<1>2. sep \in Seq(Byte) /\ readIndex \in Nat /\ Len(data) \in Nat
  BY <1>1, ByteAssumption DEF NUT, ReaderOK, Reader!TypeOK
<1>3. PICK f : f = Reader!FirstHit(sep)
  OBVIOUS
<1>4. f \in Reader!Hits(sep) /\ \A cur \in Reader!Hits(sep) : f <= cur
  BY <1>1, <1>2, <1>3, FirstHitIsFirst
<1>5. f \in readIndex .. Len(data) - 1 /\ data[f + 1] = NUT /\ f \in Nat
  BY <1>1, <1>2, <1>4, NutHits
<1>6. ASSUME NEW i \in readIndex + 1 .. f, data[i] = NUT PROVE FALSE
  <2>1. i - 1 \in readIndex .. Len(data) - 1 /\ i - 1 + 1 = i /\ ~(f <= i - 1)
    BY <1>2, <1>5
  <2>2. i - 1 \in Reader!Hits(sep)
    BY <1>1, <1>6, <2>1, NutHits
  <2>. QED
    BY <1>4, <2>1, <2>2
<1>. QED
  BY <1>1, <1>3, <1>5, <1>6

(* How a call ends: with the cursor in the segment the reader is sound.    *)
LEMMA EndIsSound ==
  ASSUME ReaderOK, NEW end \in {"bytes", "null", "void", "threw"}, NEW bytes \in Seq(Byte),
         NEW index \in 0 .. Len(data), Reader!Ends(end, bytes, index)
  PROVE  /\ ReaderOK'
         /\ how' = end /\ result' = bytes /\ readIndex' = index
         /\ UNCHANGED <<data, native>>
  BY DEF Reader!Ends, ReaderOK, Reader!TypeOK, Reader!IndexOK, Reader!size, LONG_MAX

(* A call that leaves the cursor alone.                                    *)
LEMMA EndInPlace ==
  ASSUME ReaderOK, NEW end \in {"threw", "null"}, Reader!Ends(end, <<>>, readIndex)
  PROVE  ReaderOK' /\ Reader!InOrder
<1>1. <<>> \in Seq(Byte) /\ readIndex \in 0 .. Len(data)
  BY DEF ReaderOK, Reader!TypeOK, Reader!IndexOK, Reader!size
<1>2. ReaderOK' /\ how' = end /\ readIndex' = readIndex
  BY <1>1, EndIsSound
<1>. QED
  BY <1>2 DEF Reader!InOrder

(* The comparison with the size lets a count through that wraps around or  *)
(* is negative; with the bounds of the segment it is in the memory.        *)
LEMMA SliceableFits ==
  ASSUME ReaderOK, NEW count \in Int, Reader!Sliceable(count)
  PROVE  /\ count \in Nat /\ readIndex + count <= Len(data)
         /\ Reader!Advanced(count) = readIndex + count
<1>1. count \in Nat /\ readIndex + count <= Len(data) /\ Len(data) <= LONG_MAX /\ readIndex \in Nat
  BY DEF Reader!Sliceable, Reader!size, ReaderOK, Reader!TypeOK
<1>2. LONG_MAX \in Nat /\ Len(data) \in Nat
  BY WrapLong DEF ReaderOK, Reader!TypeOK
<1>3. readIndex + count \in Int /\ 0 <= readIndex + count /\ readIndex + count <= LONG_MAX
  BY <1>1, <1>2
<1>. QED
  BY <1>1, <1>3, WrapLong, SameWrap DEF Reader!Advanced

(* A count of bytes: the cursor passes what is returned.                   *)
LEMMA TakesInOrder ==
  ASSUME ReaderOK, NEW count \in Int, Reader!Sliceable(count), Reader!Takes(count),
         NEW c \in {"readSegment", "readBytes", "readValue", "readHeapSegment"},
         readCall' = <<c, count>>
  PROVE  ReaderOK' /\ Reader!InOrder
<1>1. /\ count \in Nat /\ readIndex \in Nat /\ readIndex + count \in 0 .. Len(data)
      /\ readIndex <= readIndex + count /\ readIndex + count \in Nat
      /\ Reader!Advanced(count) = readIndex + count /\ readIndex + count <= Len(data)
  BY SliceableFits DEF ReaderOK, Reader!TypeOK
<1>2. PICK to, x : to = readIndex + count /\ x = Reader!Slice(readIndex, to)
  OBVIOUS
<1>3. x \in Seq(Byte) /\ Len(x) = count
  BY <1>1, <1>2, SliceIs
<1>4. Reader!Ends("bytes", x, to)
  BY <1>1, <1>2 DEF Reader!Takes
<1>5. ReaderOK' /\ how' = "bytes" /\ result' = x /\ readIndex' = to
  BY <1>1, <1>2, <1>3, <1>4, EndIsSound
<1>6. Reader!Passed = x
  BY <1>2, <1>5 DEF Reader!Passed, Reader!Slice
<1>7. readCall'[1] \notin {"readCStr", "readUntil"} /\ readCall'[2] = count
  OBVIOUS
<1>. QED
  BY <1>3, <1>5, <1>6, <1>7 DEF Reader!InOrder

(* readSegment(), readBytes(), readByte() and the like.                    *)
LEMMA ReadSegmentInOrder ==
  ASSUME ReaderOK, NEW count \in Int,
         Reader!ReadSegment(count) \/ Reader!ReadBytes(count) \/ Reader!ReadValue(count)
  PROVE  ReaderOK' /\ Reader!InOrder
<1>1. CASE Reader!Throws
  BY <1>1, EndInPlace DEF Reader!Throws
<1>2. CASE Reader!Sliceable(count) /\ Reader!Takes(count)
  BY <1>2, TakesInOrder DEF Reader!ReadSegment, Reader!ReadBytes, Reader!ReadValue
<1>. QED
  BY <1>1, <1>2 DEF Reader!ReadSegment, Reader!ReadBytes, Reader!ReadValue

(* readHeapSegment(): the same, but for the copy that fails.               *)
LEMMA ReadHeapSegmentInOrder ==
  ASSUME ReaderOK, NEW count \in Int, Reader!ReadHeapSegment(count)
  PROVE  ReaderOK' /\ Reader!InOrder
<1>0. readCall' = <<"readHeapSegment", count>>
  BY DEF Reader!ReadHeapSegment
<1>1. CASE Reader!Throws
  BY <1>1, EndInPlace DEF Reader!Throws
<1>2. CASE Reader!Sliceable(count) /\ Reader!Takes(count)
  BY <1>0, <1>2, TakesInOrder
<1>3. CASE /\ Reader!Sliceable(count) /\ native
           /\ Reader!Ends("threw", <<>>, Reader!Advanced(count))
  <2>1. /\ readIndex \in Nat /\ count \in Nat /\ readIndex + count \in 0 .. Len(data)
        /\ Reader!Advanced(count) = readIndex + count /\ <<>> \in Seq(Byte)
    BY <1>3, SliceableFits DEF ReaderOK, Reader!TypeOK
  <2>2. ReaderOK' /\ how' = "threw" /\ readIndex' = readIndex + count
    BY <1>3, <2>1, EndIsSound
  <2>3. readIndex' - readIndex = count
    BY <2>1, <2>2
  <2>. QED
    BY <1>0, <1>3, <2>2, <2>3 DEF Reader!InOrder
<1>. QED
  BY <1>1, <1>2, <1>3 DEF Reader!ReadHeapSegment

(* readUntil() returns what is before the separator and passes both.       *)
LEMMA ReadUntilInOrder ==
  ASSUME ReaderOK, NEW sep \in Seps \cup {<<NUT>>}, Reader!ReadUntil(sep)
  PROVE  ReaderOK' /\ Reader!InOrder
<1>1. CASE Reader!Throws \/ Reader!Ends("null", <<>>, readIndex)
  BY <1>1, EndInPlace DEF Reader!Throws
<1>2. CASE /\ Reader!Hits(sep) # {}
           /\ Reader!Ends("bytes", Reader!Slice(readIndex, Reader!FirstHit(sep)),
                          Reader!FirstHit(sep) + Len(sep))
  <2>1. PICK to, x : to = Reader!FirstHit(sep) /\ x = Reader!Slice(readIndex, to)
    OBVIOUS
  <2>2. sep \in Seq(Byte) /\ Len(sep) \in Nat /\ readIndex \in Nat /\ Len(data) \in Nat
    BY SepsAreBytes DEF ReaderOK, Reader!TypeOK
  <2>3. to \in readIndex .. Len(data) - Len(sep) /\ Reader!Matches(to, sep)
    BY <1>2, <2>1, <2>2, FirstHitIsFirst DEF Reader!Hits
  <2>4. /\ to \in Nat /\ to + Len(sep) \in Nat /\ to + Len(sep) \in 0 .. Len(data)
        /\ readIndex <= to /\ to <= to + Len(sep) /\ to + Len(sep) <= Len(data)
        /\ to <= Len(data)
    BY <2>2, <2>3
  <2>5. x \in Seq(Byte)
    BY <2>1, <2>2, <2>4, SliceIs
  <2>6. Reader!Ends("bytes", x, to + Len(sep))
    BY <1>2, <2>1
  <2>7. ReaderOK' /\ how' = "bytes" /\ result' = x /\ readIndex' = to + Len(sep)
    BY <2>4, <2>5, <2>6, EndIsSound
  <2>8. Reader!Slice(readIndex, to + Len(sep)) = x \o sep
    <3>1. PICK end : end = to + Len(sep)
      OBVIOUS
    <3>2. Reader!Slice(to, end) = sep
      BY <2>3, <3>1 DEF Reader!Matches
    <3>3. PICK i : i = readIndex
      OBVIOUS
    <3>4. /\ i \in Nat /\ to \in Nat /\ end \in Nat
          /\ i <= to /\ to <= end /\ end <= Len(data)
      BY <2>2, <2>4, <3>1, <3>3
    <3>5. Reader!Slice(i, end) = Reader!Slice(i, to) \o Reader!Slice(to, end)
      BY <3>4, SliceJoins
    <3>. QED
      BY <2>1, <3>1, <3>2, <3>3, <3>5
  <2>9. Reader!Passed = x \o sep
    BY <2>7, <2>8 DEF Reader!Passed, Reader!Slice
  <2>10. readCall' = <<"readUntil", sep>>
    BY DEF Reader!ReadUntil
  <2>11. readCall'[1] = "readUntil" /\ readCall'[1] # "readCStr" /\ readCall'[2] = sep
    BY <2>10
  <2>. QED
    BY <2>7, <2>9, <2>11 DEF Reader!InOrder
<1>. QED
  BY <1>1, <1>2 DEF Reader!ReadUntil

(* A cursor behind the first NUT has passed one C string.                  *)
LEMMA CStrPassed ==
  ASSUME ReaderOK, Reader!Hits(<<NUT>>) # {}, readIndex' = Reader!FirstHit(<<NUT>>) + 1
  PROVE  /\ Reader!PassesCStr
         /\ Reader!Passed = Append(Reader!Slice(readIndex, Reader!FirstHit(<<NUT>>)), NUT)
<1>1. PICK f : f = Reader!FirstHit(<<NUT>>)
  OBVIOUS
<1>2. /\ f \in Nat /\ f \in readIndex .. Len(data) - 1 /\ data[f + 1] = NUT
      /\ \A i \in readIndex + 1 .. f : data[i] # NUT
      /\ readIndex \in Nat /\ Len(data) \in Nat
  BY <1>1, FirstNut DEF ReaderOK, Reader!TypeOK
<1>3. PICK n : n = f + 1
  OBVIOUS
<1>4. /\ readIndex <= f /\ f <= n /\ n <= Len(data) /\ n \in Nat
      /\ readIndex <= n /\ f <= Len(data) /\ n - f = 1
  BY <1>2, <1>3
<1>. PICK x, y, z : x = Reader!Slice(readIndex, f) /\ y = Reader!Slice(f, n)
                    /\ z = Reader!Slice(readIndex, n)
  OBVIOUS
<1>5. /\ x \in Seq(Byte) /\ y \in Seq(Byte) /\ Len(y) = 1 /\ y[1] = NUT /\ z = x \o y
  <2>1. x \in Seq(Byte) /\ z = x \o y
    BY <1>2, <1>4, SliceIs, SliceJoins
  <2>2. y \in Seq(Byte) /\ Len(y) = n - f
    BY <1>2, <1>4, SliceIs
  <2>3. \A i \in 1 .. n - f : y[i] = data[f + i]
    BY <1>2, <1>4, SliceOne
  <2>4. 1 \in 1 .. n - f
    BY <1>4
  <2>. QED
    BY <1>2, <1>3, <1>4, <2>1, <2>2, <2>3, <2>4
<1>6. y = <<NUT>>
  <2>1. <<NUT>> \in Seq(Byte) /\ Len(<<NUT>>) = 1 /\ <<NUT>>[1] = NUT
    BY ByteAssumption DEF NUT
  <2>2. \A i \in 1 .. Len(y) : y[i] = <<NUT>>[i]
    BY <1>5, <2>1
  <2>. QED
    BY <1>5, <2>1, <2>2, SeqEqual
<1>7. Append(x, NUT) = x \o <<NUT>>
  BY <1>5, ByteAssumption, AppendIsConcat DEF NUT
<1>8. Reader!Passed = z /\ z = Append(x, NUT)
  BY <1>1, <1>3, <1>5, <1>6, <1>7 DEF Reader!Passed, Reader!Slice
<1>9. Len(z) = n - readIndex /\ \A i \in 1 .. n - readIndex : z[i] = data[readIndex + i]
  BY <1>2, <1>4, SliceIs, SliceOne
<1>10. z[Len(z)] = NUT
  <2>1. n - readIndex \in 1 .. n - readIndex /\ readIndex + (n - readIndex) = f + 1
    BY <1>2, <1>3
  <2>. QED
    BY <1>2, <1>9, <2>1
<1>11. ASSUME NEW i \in 1 .. Len(z) - 1 PROVE z[i] # NUT
  <2>1. /\ i \in 1 .. n - readIndex /\ readIndex + i \in readIndex + 1 .. f
    BY <1>2, <1>3, <1>9
  <2>. QED
    BY <1>2, <1>9, <2>1
<1>12. readIndex' > readIndex
  BY <1>1, <1>2
<1>. QED
  BY <1>1, <1>8, <1>10, <1>11, <1>12 DEF Reader!PassesCStr, Reader!NUT, NUT

(* readCStr() passes one C string, whatever it makes of it.                *)
LEMMA ReadCStrInOrder ==
  ASSUME ReaderOK, Reader!ReadCStr
  PROVE  ReaderOK' /\ Reader!InOrder
<1>0. readCall' = <<"readCStr">>
  BY DEF Reader!ReadCStr
<1>1. CASE Reader!Throws \/ Reader!Ends("null", <<>>, readIndex)
  BY <1>1, EndInPlace DEF Reader!Throws
<1>. DEFINE f == Reader!FirstHit(<<NUT>>)
<1>2. CASE /\ Reader!Hits(<<NUT>>) # {}
           /\ \/ f = readIndex /\ Reader!Ends("null", <<>>, f + 1)
              \/ Reader!Ends("bytes", Reader!Slice(readIndex, f), f + 1)
              \/ Reader!Ends("threw", <<>>, f + 1)
  <2>1. /\ f \in Nat /\ f + 1 \in 0 .. Len(data) /\ readIndex <= f /\ f <= Len(data)
        /\ readIndex \in Nat /\ <<>> \in Seq(Byte)
    BY <1>2, FirstNut DEF ReaderOK, Reader!TypeOK
  <2>2. Reader!Slice(readIndex, f) \in Seq(Byte)
    BY <2>1, SliceIs
  <2>. HIDE DEF f
  <2>3. /\ ReaderOK' /\ readIndex' = f + 1
        /\ \/ how' = "null" /\ f = readIndex
           \/ how' = "bytes" /\ result' = Reader!Slice(readIndex, f)
           \/ how' = "threw"
    BY <1>2, <2>1, <2>2, EndIsSound
  <2>4. Reader!PassesCStr /\ Reader!Passed = Append(Reader!Slice(readIndex, f), NUT)
    BY <1>2, <2>3, CStrPassed DEF f
  <2>5. f = readIndex => Reader!Passed = <<NUT>>
    <3>1. Reader!Slice(readIndex, readIndex) = <<>>
      BY <2>1, SubSeqEmpty DEF Reader!Slice
    <3>2. Append(<<>>, NUT) = <<NUT>>
      OBVIOUS
    <3>. QED
      BY <2>4, <3>1, <3>2
  <2>6. NUT = Reader!NUT /\ readCall'[1] = "readCStr"
    BY <1>0 DEF NUT, Reader!NUT
  <2>. QED
    BY <1>0, <2>3, <2>4, <2>5, <2>6 DEF Reader!InOrder
<1>3. <<Reader!NUT>> = <<NUT>>
  BY DEF NUT, Reader!NUT
<1>. QED
  BY <1>1, <1>2, <1>3 DEF Reader!ReadCStr

(* setReadIndex() stays inside or throws.                                  *)
LEMMA SetReadIndexInOrder ==
  ASSUME ReaderOK, NEW index \in Int, Reader!SetReadIndex(index)
  PROVE  ReaderOK' /\ Reader!InOrder
<1>1. CASE Reader!Throws
  BY <1>1, EndInPlace DEF Reader!Throws
<1>2. CASE ~(index < 0 \/ index >= Reader!size) /\ Reader!Ends("void", <<>>, index)
  <2>1. <<>> \in Seq(Byte) /\ index \in 0 .. Len(data)
    BY <1>2 DEF ReaderOK, Reader!TypeOK, Reader!size
  <2>2. ReaderOK' /\ how' = "void" /\ readIndex' = index
    BY <1>2, <2>1, EndIsSound
  <2>. QED
    BY <2>2 DEF Reader!SetReadIndex, Reader!InOrder
<1>. QED
  BY <1>1, <1>2 DEF Reader!SetReadIndex

(* Every call on the reader keeps it sound.                                *)
LEMMA ReaderNext ==
  ReaderOK /\ (Reader!Next \/ Reader!ReadCStr) => ReaderOK' /\ Reader!InOrder
<1>1. Reader!Counts \subseteq Int /\ Reader!Widths \subseteq Int
  BY DEF Reader!Counts, Reader!Widths
<1>. QED
  BY <1>1, SetReadIndexInOrder, ReadSegmentInOrder, ReadHeapSegmentInOrder, ReadUntilInOrder,
     ReadCStrInOrder DEF Reader!Next
-----------------------------------------------------------------------------
(* Where a separator ends, the search had a hit at its start.              *)
LEMMA EndsAreHits ==
  ASSUME ReaderOK, NEW sep \in Seps \cup {<<NUT>>}, NEW i \in Reader!SepEnds(sep)
  PROVE  i \in Nat /\ readIndex + i - Len(sep) \in Reader!Hits(sep)
<1>1. sep \in Seq(Byte) /\ Len(sep) \in Nat
  BY SepsAreBytes
<1>2. readIndex \in Nat /\ Len(data) \in Nat
  BY DEF ReaderOK, Reader!TypeOK
<1>3. PICK j \in 0 .. i : SubSeq(data, readIndex + j + 1, readIndex + i) = sep
  BY DEF Reader!SepEnds
<1>4. i \in 1 .. Len(data) - readIndex /\ i \in Nat /\ j \in Nat /\ j <= i
  BY <1>2 DEF Reader!SepEnds, Reader!size
<1>. DEFINE cur == readIndex + j
            end == readIndex + i
<1>5. cur \in Nat /\ end \in Nat /\ readIndex <= cur /\ cur <= end /\ end <= Len(data)
  BY <1>2, <1>4
<1>6. Reader!Slice(cur, end) = sep
  BY <1>3 DEF Reader!Slice
<1>. HIDE DEF cur, end
<1>7. Len(sep) = end - cur
  BY <1>5, <1>6, SliceIs
<1>8. end = cur + Len(sep)
  BY <1>1, <1>5, <1>7
<1>9. cur \in Reader!Hits(sep)
  BY <1>1, <1>2, <1>5, <1>6, <1>8 DEF Reader!Hits, Reader!Matches, Reader!size
<1>10. end - Len(sep) = cur
  BY <1>1, <1>5, <1>8
<1>11. i \in Nat
  BY <1>4
<1>12. readIndex + i - Len(sep) \in Reader!Hits(sep)
  BY <1>1, <1>2, <1>4, <1>9, <1>10 DEF end
<1>. QED
  BY <1>11, <1>12

(* A search stops at the first hit, or finds none.                         *)
LEMMA SearchStops ==
  ASSUME ReaderOK, NEW sep \in Seps \cup {<<NUT>>},
         Reader!ReadUntil(sep) \/ (Reader!ReadCStr /\ sep = <<NUT>>)
  PROVE  Reader!StopsAtFirst(sep)
<1>1. sep \in Seq(Byte) /\ Len(sep) \in Nat /\ readIndex \in Nat
  BY SepsAreBytes DEF ReaderOK, Reader!TypeOK
<1>. DEFINE first == Reader!FirstHit(sep)
<1>2. \/ readIndex' = readIndex /\ how' # "null"
      \/ readIndex' = readIndex /\ Reader!Hits(sep) = {}
      \/ /\ Reader!Hits(sep) # {} /\ readIndex' = first + Len(sep)
         /\ how' = "null" => sep = <<NUT>>
  <2>1. CASE Reader!ReadUntil(sep)
    BY <2>1 DEF Reader!ReadUntil, Reader!Ends, Reader!Throws
  <2>2. CASE Reader!ReadCStr /\ sep = <<NUT>>
    <3>1. sep = <<Reader!NUT>> /\ Len(sep) = 1
      BY <2>2 DEF Reader!NUT, NUT
    <3>. QED
      BY <2>2, <3>1 DEF Reader!ReadCStr, Reader!Ends, Reader!Throws
  <2>. QED
    BY <2>1, <2>2
<1>3. CASE readIndex' = readIndex /\ how' # "null"
  BY <1>1, <1>3 DEF Reader!StopsAtFirst
<1>4. CASE readIndex' = readIndex /\ Reader!Hits(sep) = {}
  <2>1. Reader!SepEnds(sep) = {}
    BY <1>4, EndsAreHits
  <2>. QED
    BY <2>1 DEF Reader!StopsAtFirst
<1>5. CASE /\ Reader!Hits(sep) # {} /\ readIndex' = first + Len(sep)
           /\ how' = "null" => sep = <<NUT>>
  <2>1. /\ first \in Int /\ readIndex <= first
        /\ \A cur \in Reader!Hits(sep) : first <= cur
    BY <1>1, <1>5, FirstHitIsFirst DEF ReaderOK, Reader!TypeOK
  <2>. HIDE DEF first
  <2>2. sep = <<NUT>> => Len(sep) = 1
    OBVIOUS
  <2>3. ~(how' = "null" /\ readIndex' = readIndex)
    BY <1>1, <1>5, <2>1, <2>2
  <2>4. ASSUME NEW i \in Reader!SepEnds(sep) PROVE readIndex + i >= readIndex'
    <3>1. i \in Nat /\ readIndex + i - Len(sep) \in Reader!Hits(sep)
      BY EndsAreHits
    <3>2. first <= readIndex + i - Len(sep)
      BY <2>1, <3>1
    <3>. QED
      BY <1>1, <1>5, <2>1, <3>1, <3>2
  <2>. QED
    BY <2>3, <2>4 DEF Reader!StopsAtFirst
<1>. QED
  BY <1>2, <1>3, <1>4, <1>5
-----------------------------------------------------------------------------
(* Both together: the segment handed over is what the writer holds.        *)
LEMMA BuffersInitOK == BuffersInit => BuffersInv
<1>. SUFFICES ASSUME BuffersInit PROVE BuffersInv
  OBVIOUS
<1>1. WriterOK
  BY WriterInit DEF BuffersInit
<1>2. /\ data \in Datas /\ native \in BOOLEAN /\ readIndex = 0 /\ how = "void"
      /\ result = <<>>
  BY DEF BuffersInit, Reader!Init
<1>3. data \in Seq(Byte) /\ Len(data) \in Nat /\ Len(data) <= LONG_MAX
  BY <1>2, DataAssumption
<1>4. result \in Seq(Byte)
  BY <1>2
<1>. QED
  BY <1>1, <1>2, <1>3, <1>4 DEF BuffersInv, ReaderOK, Reader!TypeOK, Reader!IndexOK, Reader!size

(* The fields of the reader stay, or it has none to answer for yet.        *)
LEMMA ReaderStays ==
  ASSUME ReaderOK, UNCHANGED reader
  PROVE  ReaderOK'
  BY DEF reader, ReaderOK, Reader!TypeOK, Reader!IndexOK, Reader!size, LONG_MAX

(* A call on the reader leaves the writer as it was.                       *)
LEMMA WriterStays ==
  ASSUME WriterOK, UNCHANGED vars
  PROVE  WriterOK'
  BY WriterNext

(* Every step keeps both buffers sound.                                    *)
LEMMA BuffersStep ==
  BuffersInv /\ [BuffersNext]_allVars
    => BuffersInv' /\ [HandOver \/ Reader!InOrder]_(Reader!vars)
<1>. SUFFICES ASSUME BuffersInv, [BuffersNext]_allVars
              PROVE  BuffersInv' /\ (HandOver \/ Reader!InOrder \/ UNCHANGED Reader!vars)
  OBVIOUS
<1>. USE DEF BuffersInv
<1>1. CASE Writes
  <2>1. Next
    BY <1>1 DEF Writes, Next
  <2>2. WriterOK'
    BY <2>1, WriterNext
  <2>3. UNCHANGED reader
    BY <1>1 DEF Writes
  <2>. QED
    BY <2>2, <2>3, ReaderStays DEF reader, Reader!vars
<1>2. CASE HandOver
  <2>1. /\ data' = Bytes(segment, writeIndex) /\ native' \in BOOLEAN
        /\ readIndex' = 0 /\ result' = <<>> /\ how' = "void" /\ UNCHANGED vars
    <3>1. (segment.owner # HEAP) \in BOOLEAN /\ size = segment.len
      BY DEF WriterOK, IndexOK
    <3>2. content = Bytes(segment, writeIndex)
      BY <3>1 DEF content
    <3>. QED
      BY <1>2, <3>1, <3>2 DEF HandOver
  <2>2. /\ Sound(segment) /\ writeIndex \in 0 .. segment.len
        /\ segment.len <= LONG_MAX /\ LONG_MAX \in Nat /\ segment.len \in Nat
    BY WrapLong DEF WriterOK, IndexOK, TypeOK, Sound, MemorySegment
  <2>3. Bytes(segment, writeIndex) \in Seq(Byte) /\ Len(Bytes(segment, writeIndex)) = writeIndex
    BY <2>2, BytesAre
  <2>4. data' \in Seq(Byte) /\ Len(data') \in Nat /\ Len(data') <= LONG_MAX
    BY <2>1, <2>2, <2>3
  <2>5. result' \in Seq(Byte)
    BY <2>1
  <2>6. ReaderOK'
    BY <2>1, <2>4, <2>5 DEF ReaderOK, Reader!TypeOK, Reader!IndexOK, Reader!size, LONG_MAX
  <2>. QED
    BY <1>2, <2>1, <2>6, WriterStays
<1>3. CASE Reads
  <2>1. Reader!Next \/ Reader!ReadCStr
    BY <1>3 DEF Reads
  <2>2. UNCHANGED vars
    BY <1>3 DEF Reads
  <2>. QED
    BY <2>1, <2>2, ReaderNext, WriterStays
<1>4. CASE UNCHANGED allVars
  BY <1>4, ReaderStays, WriterStays DEF allVars, reader, Reader!vars
<1>. QED
  BY <1>1, <1>2, <1>3, <1>4 DEF BuffersNext

(* Both buffers stay sound whatever is called on them.                     *)
THEOREM BuffersInvariant == BuffersSpec => []BuffersInv
  BY BuffersInitOK, BuffersStep, PTL DEF BuffersSpec

(* Neither index ever leaves its memory, whatever wraps around and         *)
(* whichever call fails half way (WriteBuffer.java, ReadBuffer.java).      *)
THEOREM IndicesStayInside == BuffersSpec => []IndicesOK
<1>1. BuffersInv => IndicesOK
  BY DEF BuffersInv, WriterOK, ReaderOK, IndicesOK
<1>. QED
  BY <1>1, BuffersInvariant, PTL

(* The arena a write buffer holds is its own to close, and no segment is   *)
(* left in an arena nobody closes (WriteBuffer.java:41-60, 290-310).       *)
THEOREM ArenasHaveOwners == BuffersSpec => []ArenasOwned
<1>1. BuffersInv => ArenasOwned
  BY DEF BuffersInv, WriterOK
<1>. QED
  BY <1>1, BuffersInvariant, PTL

(* No read skips, repeats or makes up bytes: the cursor passes what the    *)
(* call returns, as much as it was asked for. One that throws consumes     *)
(* none, unless it is readHeapSegment() failing at the copy off the heap   *)
(* or readCStr() at the String, which lose what they would have returned   *)
(* (ReadBuffer.java:48-144).                                               *)
THEOREM ReadsKeepOrder == BuffersSpec => ReadsInOrder
  BY BuffersInvariant, BuffersStep, PTL DEF ReadsInOrder, BuffersSpec

(* readUntil() and readCStr() stop at the first separator there is         *)
(* (ReadBuffer.java:104-145, NativeUtil.matches).                          *)
THEOREM SearchesStopAtFirst == BuffersSpec => FirstSeparator
<1>1. BuffersInv => \A sep \in Seps \cup {<<Reader!NUT>>} :
                      Reader!ReadUntil(sep) \/ (Reader!ReadCStr /\ sep = <<Reader!NUT>>)
                        => Reader!StopsAtFirst(sep)
  BY SearchStops DEF BuffersInv, Reader!NUT, NUT
<1>. QED
  BY <1>1, BuffersInvariant, PTL DEF FirstSeparator, Reader!FirstSeparator
-----------------------------------------------------------------------------
(* What a segment begins with, byte by byte.                               *)
LEMMA BytesOne ==
  ASSUME NEW seg, Sound(seg), NEW n \in 0 .. seg.len
  PROVE  \A i \in 1 .. n : Bytes(seg, n)[i] = seg.block[seg.base + i]
<1>1. /\ seg.base \in Nat /\ seg.len \in Nat /\ seg.block \in Seq(Byte)
      /\ seg.base + seg.len <= Len(seg.block)
  BY DEF Sound, MemorySegment
<1>2. seg.base + 1 \in Int /\ seg.base + n \in Int /\ n \in Nat
  BY <1>1
<1>3. \A i \in seg.base + 1 .. seg.base + n : seg.block[i] \in Byte
  BY <1>1
<1>4. \A i \in 1 .. (seg.base + n) - (seg.base + 1) + 1 :
        SubSeq(seg.block, seg.base + 1, seg.base + n)[i] = seg.block[seg.base + 1 + i - 1]
  BY <1>2, <1>3, SubSeqProperties
<1>5. \A i \in 1 .. n : i \in 1 .. (seg.base + n) - (seg.base + 1) + 1
                        /\ seg.base + 1 + i - 1 = seg.base + i
  <2>1. \A b, m \in Nat : \A i \in 1 .. m : i \in 1 .. (b + m) - (b + 1) + 1
                                           /\ b + 1 + i - 1 = b + i
    OBVIOUS
  <2>. QED
    BY <1>1, <1>2, <2>1
<1>. QED
  BY <1>4, <1>5 DEF Bytes

(* The first n bytes are the start of the first m, n <= m.                 *)
LEMMA BytesCut ==
  ASSUME NEW seg, Sound(seg), NEW n \in 0 .. seg.len, NEW m \in 0 .. n
  PROVE  SubSeq(Bytes(seg, n), 1, m) = Bytes(seg, m)
<1>1. n \in Nat /\ m \in Nat /\ seg.len \in Nat /\ m \in 0 .. seg.len
  BY DEF Sound, MemorySegment
<1>. DEFINE b == Bytes(seg, n)
<1>2. b \in Seq(Byte) /\ Len(b) = n /\ \A i \in 1 .. n : b[i] = seg.block[seg.base + i]
  BY BytesAre, BytesOne
<1>3. /\ Bytes(seg, m) \in Seq(Byte) /\ Len(Bytes(seg, m)) = m
      /\ \A i \in 1 .. m : Bytes(seg, m)[i] = seg.block[seg.base + i]
  BY <1>1, BytesAre, BytesOne
<1>. HIDE DEF b
<1>4. \A i \in 1 .. m : b[i] \in Byte /\ b[i] = seg.block[seg.base + i]
  BY <1>1, <1>2
<1>5. /\ SubSeq(b, 1, m) \in Seq(Byte) /\ Len(SubSeq(b, 1, m)) = m
      /\ \A i \in 1 .. m : SubSeq(b, 1, m)[i] = b[i]
  BY <1>1, <1>4, SubSeqProperties
<1>6. SubSeq(b, 1, m) = Bytes(seg, m)
  BY <1>3, <1>4, <1>5, SeqEqual
<1>. QED
  BY <1>6 DEF b

(* Fresh memory begins with what it is given, at 0.                        *)
LEMMA FreshBegins ==
  ASSUME NEW init \in Seq(Byte), NEW n \in Nat, Len(init) <= n, n <= LONG_MAX,
         NEW owner \in Arena \cup {HEAP}
  PROVE  Bytes(Fresh(init, n, owner), Len(init)) = init /\ Fresh(init, n, owner).base = 0
<1>. DEFINE seg == Fresh(init, n, owner)
            k == n - Len(init)
<1>1. Sound(seg) /\ seg.len = n
  BY FreshIsSound
<1>2. k \in Nat /\ Zeros(k) \in Seq(Byte) /\ Len(Zeros(k)) = k
  BY ByteAssumption DEF Zeros, NUT
<1>3. seg.block = init \o Zeros(k) /\ seg.base = 0
  BY DEF Fresh
<1>. HIDE DEF seg, k
<1>4. Len(init) \in 0 .. seg.len
  BY <1>1
<1>5. /\ Bytes(seg, Len(init)) \in Seq(Byte) /\ Len(Bytes(seg, Len(init))) = Len(init)
      /\ \A i \in 1 .. Len(init) : Bytes(seg, Len(init))[i] = seg.block[seg.base + i]
  BY <1>1, <1>4, BytesAre, BytesOne
<1>6. \A i \in 1 .. Len(init) + Len(Zeros(k)) :
        (init \o Zeros(k))[i] = IF i <= Len(init) THEN init[i] ELSE Zeros(k)[i - Len(init)]
  BY <1>2, ConcatProperties
<1>7. \A i \in 1 .. Len(init) : seg.block[seg.base + i] = init[i]
  BY <1>2, <1>3, <1>6
<1>8. Bytes(seg, Len(init)) = init
  BY <1>5, <1>7, SeqEqual
<1>. QED
  BY <1>3, <1>8 DEF seg

(* A heap buffer that is not truncated lies at the start of its array.     *)
FromStart(seg) == kind = "Heap" => seg.base = 0

(* More memory begins with what was written.                               *)
LEMMA ResizedKeeps ==
  ASSUME WriterOK, FromStart(segment), NEW next \in Int, next <= LONG_MAX, NEW w \in 0 .. size,
         NEW seg \in Resized(next, w)
  PROVE  Bytes(seg, w) = Bytes(segment, w) /\ FromStart(seg)
<1>. USE DEF WriterOK
<1>1. /\ size \in Nat /\ size = segment.len /\ segment \in MemorySegment
      /\ w \in Nat /\ w <= size /\ Sound(segment)
  BY DEF IndexOK, TypeOK, MemorySegment
<1>2. CASE next <= size
  BY <1>1, <1>2 DEF Resized
<1>3. CASE next > size
  <2>1. seg \in PolicyResize(next, w) /\ next >= 0
    BY <1>1, <1>3 DEF Resized
  <2>2. Bytes(segment, w) \in Seq(Byte) /\ Len(Bytes(segment, w)) = w
    BY <1>1, BytesAre
  <2>3. \A x \in Int, owner \in Arena \cup {HEAP} :
          x <= LONG_MAX =>
            LET new == Fresh(Bytes(segment, w), Larger(next, x), owner)
            IN  Bytes(new, w) = Bytes(segment, w) /\ new.base = 0
    <3>. SUFFICES ASSUME NEW x \in Int, NEW owner \in Arena \cup {HEAP}, x <= LONG_MAX
                  PROVE  LET new == Fresh(Bytes(segment, w), Larger(next, x), owner)
                         IN  Bytes(new, w) = Bytes(segment, w) /\ new.base = 0
      OBVIOUS
    <3>1. Larger(next, x) \in Nat /\ w <= Larger(next, x) /\ Larger(next, x) <= LONG_MAX
      BY <1>1, <1>3, <2>1 DEF Larger
    <3>. QED
      BY <2>2, <3>1, FreshBegins
  <2>4. CASE kind \in {"Default", "Reserved"}
    <3>1. Wrap(2 * size, LongBits) \in Int /\ Wrap(2 * size, LongBits) <= LONG_MAX
      BY <1>1, WrapLong
    <3>2. seg \in {Fresh(Bytes(segment, w), Larger(next, Wrap(2 * size, LongBits)), a) :
                      a \in Arena}
      BY <2>1, <2>4 DEF PolicyResize, DefaultResize, ReservedResize, Open, TypeOK, Arena
    <3>. QED
      BY <2>3, <2>4, <3>1, <3>2 DEF FromStart
  <2>5. CASE kind = "Heap"
    <3>. DEFINE x == Wrap(2 * Len(segment.block), IntBits)
    <3>1. x \in Int /\ x <= LONG_MAX
      <4>1. ASSUME NEW y \in Int PROVE Wrap(y, IntBits) \in Int /\ Wrap(y, IntBits) <= LONG_MAX
        BY WrapLong
      <4>2. 2 * Len(segment.block) \in Int
        BY <1>1 DEF MemorySegment
      <4>. QED
        BY <4>1, <4>2
    <3>2. seg = Fresh(SubSeq(segment.block, 1, w), Larger(next, x), HEAP)
      BY <2>1, <2>5 DEF PolicyResize, HeapResize
    <3>3. SubSeq(segment.block, 1, w) = Bytes(segment, w)
      <4>1. 0 + 1 = 1 /\ 0 + w = w
        BY <1>1
      <4>. QED
        BY <2>5, <4>1 DEF Bytes, FromStart
    <3>. HIDE DEF x
    <3>. QED
      BY <2>3, <3>1, <3>2, <3>3 DEF FromStart
  <2>6. kind # "Fixed"
    BY <2>1 DEF PolicyResize, FixedResize
  <2>. QED
    BY <2>4, <2>5, <2>6, KindAssumption DEF TypeOK
<1>. QED
  BY <1>1, <1>2, <1>3

(* What a store leaves in a segment, byte by byte.                         *)
LEMMA StoredOne ==
  ASSUME NEW seg, Sound(seg), NEW i \in Nat, NEW bs \in Seq(Byte), NEW n \in 0 .. seg.len
  PROVE  /\ Bytes(Store(seg, i, bs), n) \in Seq(Byte) /\ Len(Bytes(Store(seg, i, bs), n)) = n
         /\ \A k \in 1 .. n :
              Bytes(Store(seg, i, bs), n)[k] =
                IF k - i \in DOMAIN bs THEN bs[k - i] ELSE Bytes(seg, n)[k]
<1>1. /\ seg.base \in Nat /\ seg.len \in Nat /\ seg.block \in Seq(Byte)
      /\ seg.base + seg.len <= Len(seg.block)
  BY DEF Sound, MemorySegment
<1>. DEFINE new == Store(seg, i, bs)
<1>2. Sound(new) /\ new.len = seg.len
  BY StoreIsSound
<1>3. new.base = seg.base
  BY DEF Store, Sound, MemorySegment
<1>4. \A j \in DOMAIN seg.block :
        new.block[j] = IF j - seg.base - i \in DOMAIN bs THEN bs[j - seg.base - i]
                       ELSE seg.block[j]
  <2>. DEFINE b == [k \in DOMAIN seg.block |->
                      IF k - seg.base - i \in DOMAIN bs THEN bs[k - seg.base - i]
                                                        ELSE seg.block[k]]
  <2>1. new = [seg EXCEPT !.block = b]
    BY DEF Store
  <2>. HIDE DEF b, new
  <2>2. new.block = b
    BY <2>1 DEF Sound, MemorySegment
  <2>. QED
    BY <2>2 DEF b
<1>. HIDE DEF new
<1>5. \A k \in 1 .. n :
        new.block[seg.base + k] = IF k - i \in DOMAIN bs THEN bs[k - i]
                                  ELSE seg.block[seg.base + k]
  <2>. SUFFICES ASSUME NEW k \in 1 .. n
                PROVE  new.block[seg.base + k] = IF k - i \in DOMAIN bs THEN bs[k - i]
                                                 ELSE seg.block[seg.base + k]
    OBVIOUS
  <2>. DEFINE j == seg.base + k
  <2>1. j \in DOMAIN seg.block /\ j - seg.base - i = k - i
    BY <1>1
  <2>. HIDE DEF j
  <2>2. new.block[j] = IF k - i \in DOMAIN bs THEN bs[k - i] ELSE seg.block[j]
    BY <1>4, <2>1
  <2>. QED
    BY <2>2 DEF j
<1>6. \A k \in 1 .. n : Bytes(seg, n)[k] = seg.block[seg.base + k]
  BY BytesOne
<1>7. /\ Bytes(new, n) \in Seq(Byte) /\ Len(Bytes(new, n)) = n
      /\ \A k \in 1 .. n : Bytes(new, n)[k] = new.block[seg.base + k]
  BY <1>2, <1>3, BytesAre, BytesOne
<1>8. \A k \in 1 .. n :
         Bytes(new, n)[k] = IF k - i \in DOMAIN bs THEN bs[k - i] ELSE Bytes(seg, n)[k]
  BY <1>5, <1>6, <1>7
<1>. QED
  BY <1>7, <1>8 DEF new

(* What joining two sequences of bytes gives.                              *)
LEMMA JoinBytes ==
  ASSUME NEW a \in Seq(Byte), NEW b \in Seq(Byte)
  PROVE  /\ a \o b \in Seq(Byte) /\ Len(a \o b) = Len(a) + Len(b)
         /\ \A k \in 1 .. Len(a) + Len(b) :
              (a \o b)[k] = IF k <= Len(a) THEN a[k] ELSE b[k - Len(a)]
  BY ConcatProperties

(* Joining three sequences of bytes, either two first.                     *)
LEMMA JoinIsAssociative ==
  ASSUME NEW a \in Seq(Byte), NEW b \in Seq(Byte), NEW c \in Seq(Byte)
  PROVE  (a \o b) \o c = a \o (b \o c)
  BY ConcatAssociative

(* All of bs after the first w bytes of old, and up to next whatever.      *)
Appended(new, old, bs, n) == \E hole \in [1 .. n -> Byte] : new = old \o bs \o hole

(* A write appends its bytes; up to n follows what the memory held.        *)
LEMMA StoreAppends ==
  ASSUME NEW seg, Sound(seg), NEW i \in Nat, NEW bs \in Seq(Byte), NEW n \in 0 .. seg.len,
         i + Len(bs) <= n
  PROVE  Appended(Bytes(Store(seg, i, bs), n), Bytes(seg, i), bs, n - (i + Len(bs)))
<1>1. /\ n \in Nat /\ Len(bs) \in Nat /\ i \in 0 .. seg.len /\ seg.len \in Nat
      /\ n - (i + Len(bs)) \in Nat
  BY DEF Sound, MemorySegment
<1>. DEFINE m == n - (i + Len(bs))
            new == Bytes(Store(seg, i, bs), n)
            hole == [k \in 1 .. m |-> new[i + Len(bs) + k]]
            old == Bytes(seg, i)
<1>2. /\ new \in Seq(Byte) /\ Len(new) = n
      /\ \A k \in 1 .. n : new[k] = IF k - i \in DOMAIN bs THEN bs[k - i] ELSE Bytes(seg, n)[k]
  BY StoredOne
<1>3. old \in Seq(Byte) /\ Len(old) = i /\ \A k \in 1 .. i : old[k] = Bytes(seg, n)[k]
  <2>1. /\ old \in Seq(Byte) /\ Len(old) = i
        /\ \A k \in 1 .. i : old[k] = seg.block[seg.base + k]
    BY <1>1, BytesAre, BytesOne
  <2>2. \A k \in 1 .. n : Bytes(seg, n)[k] = seg.block[seg.base + k]
    BY BytesOne
  <2>3. \A k \in 1 .. i : k \in 1 .. n
    BY <1>1
  <2>. QED
    BY <2>1, <2>2, <2>3
<1>. HIDE DEF new, old
<1>4. \A k \in 1 .. m : i + Len(bs) + k \in 1 .. n
  BY <1>1
<1>5. hole \in [1 .. m -> Byte]
  BY <1>2, <1>4
<1>6. m \in Nat
  BY <1>1
<1>. HIDE DEF m
<1>7. hole \in Seq(Byte) /\ Len(hole) = m /\ \A k \in 1 .. m : hole[k] = new[i + Len(bs) + k]
  <2>1. \A k \in 1 .. m : hole[k] = new[i + Len(bs) + k]
    OBVIOUS
  <2>. HIDE DEF hole
  <2>2. hole \in Seq(Byte) /\ Len(hole) = m
    BY <1>5, <1>6
  <2>. QED
    BY <2>1, <2>2
<1>. HIDE DEF hole
<1>8. /\ old \o bs \in Seq(Byte) /\ Len(old \o bs) = i + Len(bs)
      /\ \A k \in 1 .. i + Len(bs) : (old \o bs)[k] = IF k <= i THEN old[k] ELSE bs[k - i]
  BY <1>3, JoinBytes
<1>. DEFINE front == old \o bs
<1>. HIDE DEF front
<1>9. /\ front \in Seq(Byte) /\ Len(front) = i + Len(bs)
      /\ \A k \in 1 .. i + Len(bs) : front[k] = IF k <= i THEN old[k] ELSE bs[k - i]
  BY <1>8 DEF front
<1>10. /\ front \o hole \in Seq(Byte) /\ Len(front \o hole) = i + Len(bs) + m
       /\ \A k \in 1 .. i + Len(bs) + m :
            (front \o hole)[k] = IF k <= i + Len(bs) THEN front[k] ELSE hole[k - (i + Len(bs))]
  <2>1. front \in Seq(Byte) /\ hole \in Seq(Byte)
    BY <1>7, <1>9
  <2>2. /\ front \o hole \in Seq(Byte) /\ Len(front \o hole) = Len(front) + Len(hole)
        /\ \A k \in 1 .. Len(front) + Len(hole) :
             (front \o hole)[k] = IF k <= Len(front) THEN front[k] ELSE hole[k - Len(front)]
    BY <2>1, JoinBytes, Zenon
  <2>3. Len(front) = i + Len(bs) /\ Len(hole) = m
    BY <1>7, <1>9
  <2>. QED
    BY <2>2, <2>3, Zenon
<1>11. i + Len(bs) + m = n
  BY <1>1 DEF m
<1>12. ASSUME NEW k \in 1 .. n PROVE new[k] = (front \o hole)[k]
  <2>0. k \in Int /\ k \in 1 .. i + Len(bs) + m
    BY <1>11
  <2>1. CASE k <= i
    <3>1. k - i \notin DOMAIN bs /\ k \in 1 .. i /\ k \in 1 .. i + Len(bs) /\ k <= i + Len(bs)
      BY <1>1, <2>0, <2>1
    <3>2. (front \o hole)[k] = front[k]
      BY <1>10, <2>0, <3>1
    <3>3. front[k] = old[k]
      BY <1>9, <2>1, <3>1
    <3>. QED
      BY <1>2, <1>3, <3>1, <3>2, <3>3
  <2>2. CASE k > i /\ k <= i + Len(bs)
    <3>1. k - i \in DOMAIN bs /\ k \in 1 .. i + Len(bs) /\ ~(k <= i)
      BY <1>1, <2>0, <2>2
    <3>2. (front \o hole)[k] = front[k]
      BY <1>10, <2>0, <2>2
    <3>3. front[k] = bs[k - i]
      BY <1>9, <3>1
    <3>. QED
      BY <1>2, <3>1, <3>2, <3>3
  <2>3. CASE k > i + Len(bs)
    <3>1. /\ k - (i + Len(bs)) \in 1 .. m /\ ~(k <= i + Len(bs))
          /\ i + Len(bs) + (k - (i + Len(bs))) = k
      BY <1>1, <1>6, <1>11, <2>0, <2>3
    <3>2. (front \o hole)[k] = hole[k - (i + Len(bs))]
      BY <1>10, <2>0, <3>1
    <3>. QED
      BY <1>7, <3>1, <3>2
  <2>4. k <= i \/ (k > i /\ k <= i + Len(bs)) \/ k > i + Len(bs)
    BY <1>1, <2>0
  <2>. QED
    BY <2>1, <2>2, <2>3, <2>4
<1>13. new = front \o hole
  BY <1>2, <1>10, <1>11, <1>12, SeqEqual
<1>. QED
  BY <1>5, <1>13 DEF new, old, front, m, Appended

LogInv == WriterOK /\ FromStart(segment)

(* The content is what the segment holds below the write index.            *)
LEMMA ContentIs ==
  ASSUME WriterOK
  PROVE  /\ content = Bytes(segment, writeIndex)
         /\ content \in Seq(Byte) /\ Len(content) = writeIndex
         /\ writeIndex \in Nat /\ writeIndex \in 0 .. size /\ size = segment.len /\ size \in Nat
<1>1. /\ writeIndex \in Nat /\ writeIndex \in 0 .. size /\ size = segment.len /\ size \in Nat
      /\ Sound(segment)
  BY DEF WriterOK, IndexOK, TypeOK
<1>2. content = Bytes(segment, writeIndex)
  BY <1>1 DEF content
<1>. QED
  BY <1>1, <1>2, BytesAre

(* A call that ends with seg and w leaves the first w bytes of seg.        *)
LEMMA EndIs ==
  ASSUME NEW seg, NEW w, Returns(seg, w) \/ Throws(seg, w), FromStart(seg)
  PROVE  content' = Bytes(seg, w) /\ FromStart(segment)'
<1>1. segment' = seg /\ size' = seg.len /\ writeIndex' = w /\ kind' = kind
  BY DEF Returns, Throws
<1>2. content' = Bytes(seg, IF w = seg.len THEN seg.len ELSE w)
  BY <1>1 DEF content, Bytes
<1>. QED
  BY <1>1, <1>2 DEF FromStart

Written(w, bs, next) ==
  /\ ret' = "ok" /\ w + Len(bs) <= LONG_MAX /\ next >= w + Len(bs)
  /\ Appended(content', SubSeq(content, 1, w), bs, next - (w + Len(bs)))

Failed(w) == ret' = "threw" /\ content' = SubSeq(content, 1, w)

(* A write at w, of which next may have wrapped around: it puts bs down    *)
(* there, or throws and leaves what is before.                             *)
LEMMA WriteAtLogs ==
  ASSUME LogInv, NEW w \in 0 .. writeIndex, NEW bs \in Seq(Byte), NEW next \in Int,
         next <= LONG_MAX,
         w + Len(bs) <= LONG_MAX => next < 0 \/ next >= w + Len(bs),
         WriteAt(w, bs, next)
  PROVE  FromStart(segment)' /\ (Written(w, bs, next) \/ Failed(w))
<1>0. WriterOK /\ FromStart(segment)
  BY DEF LogInv
<1>1. /\ content = Bytes(segment, writeIndex) /\ writeIndex \in Nat /\ writeIndex \in 0 .. size
      /\ size = segment.len /\ size \in Nat /\ Sound(segment)
  BY <1>0, ContentIs DEF WriterOK
<1>2. w \in Nat /\ w \in 0 .. size /\ Len(bs) \in Nat
  BY <1>1
<1>3. SubSeq(content, 1, w) = Bytes(segment, w)
  BY <1>1, BytesCut
<1>4. ASSUME NEW seg \in Resized(next, w), Holds(seg, w, Len(bs)), Returns(Store(seg, w, bs), next)
      PROVE  /\ FromStart(segment)'
             /\ ret' = "ok" /\ w + Len(bs) <= LONG_MAX /\ next >= w + Len(bs)
             /\ Appended(content', SubSeq(content, 1, w), bs, next - (w + Len(bs)))
  <2>1. Sound(seg) /\ next \in 0 .. seg.len /\ FromStart(seg) /\ Bytes(seg, w) = Bytes(segment, w)
    BY <1>0, <1>2, ResizedIsSound, ResizedKeeps
  <2>2. w + Len(bs) <= LONG_MAX /\ next >= w + Len(bs)
    <3>1. w + Len(bs) <= seg.len /\ seg.len \in Nat /\ seg.len <= LONG_MAX /\ LONG_MAX \in Nat
      BY <1>4, <2>1, WrapLong DEF Holds, Sound, MemorySegment
    <3>2. w + Len(bs) <= LONG_MAX
      BY <1>2, <3>1
    <3>3. 0 <= next
      BY <2>1, <3>1
    <3>. QED
      BY <3>2, <3>3
  <2>3. FromStart(Store(seg, w, bs))
    <3>1. Store(seg, w, bs).base = seg.base
      BY <2>1 DEF Store, Sound, MemorySegment
    <3>. QED
      BY <2>1, <3>1 DEF FromStart
  <2>4. content' = Bytes(Store(seg, w, bs), next) /\ FromStart(segment)'
    BY <1>4, <2>3, EndIs
  <2>5. Appended(Bytes(Store(seg, w, bs), next), Bytes(seg, w), bs, next - (w + Len(bs)))
    <3>1. w + Len(bs) <= next /\ w \in Nat
      BY <1>2, <2>2
    <3>. QED
      BY <2>1, <3>1, StoreAppends
  <2>. QED
    BY <1>3, <1>4, <2>1, <2>2, <2>4, <2>5 DEF Returns
<1>5. ASSUME NEW seg \in Resized(next, w) \cup {segment}, Throws(seg, w)
      PROVE  FromStart(segment)' /\ ret' = "threw" /\ content' = SubSeq(content, 1, w)
  <2>1. FromStart(seg) /\ Bytes(seg, w) = Bytes(segment, w)
    BY <1>0, <1>2, ResizedKeeps
  <2>. QED
    BY <1>3, <1>5, <2>1, EndIs DEF Throws
<1>. QED
  BY <1>4, <1>5 DEF WriteAt, Written, Failed

(* A sum of two longs that wraps around is negative.                       *)
LEMMA WrapSum ==
  ASSUME NEW x \in Nat, NEW y \in Nat, x <= LONG_MAX, y <= LONG_MAX
  PROVE  Wrap(x + y, LongBits) < 0 \/ Wrap(x + y, LongBits) = x + y
<1>1. \A h \in Nat \ {0} : \A z \in Nat :
        z <= 2 * h - 2 /\ ~(z <= h - 1) => ((z + h) % (2 * h)) - h < 0
  <2>. SUFFICES ASSUME NEW h \in Nat \ {0}, NEW z \in Nat, z <= 2 * h - 2, ~(z <= h - 1)
                PROVE  ((z + h) % (2 * h)) - h < 0
    OBVIOUS
  <2>1. z + h = 2 * h + (z - h) /\ z - h \in Nat /\ z - h < h
    OBVIOUS
  <2>2. (z + h) % (2 * h) = z - h
    BY <2>1
  <2>. QED
    BY <2>1, <2>2
<1>2. 2^(LongBits - 1) \in Nat \ {0} /\ LONG_MAX = 2^(LongBits - 1) - 1
  BY PowerAssumption DEF LONG_MAX
<1>3. PICK h \in Nat \ {0} : h = 2^(LongBits - 1)
  BY <1>2
<1>4. x + y \in Nat /\ x + y <= 2 * h - 2
  BY <1>2, <1>3
<1>5. x + y <= h - 1 => Wrap(x + y, LongBits) = x + y
  BY <1>2, <1>3, <1>4, WrapLong
<1>6. ~(x + y <= h - 1) => Wrap(x + y, LongBits) < 0
  BY <1>1, <1>3, <1>4 DEF Wrap
<1>. QED
  BY <1>5, <1>6
-----------------------------------------------------------------------------
(* What the log keeps is what each call makes of the content.              *)

(* The bytes and the index a call starts from.                             *)
LEMMA StartIs ==
  ASSUME LogInv
  PROVE  /\ WriterOK /\ writeIndex \in Nat /\ writeIndex <= LONG_MAX
         /\ content \in Seq(Byte) /\ Len(content) = writeIndex
         /\ SubSeq(content, 1, writeIndex) = content
<1>1. WriterOK
  BY DEF LogInv
<1>2. writeIndex \in Nat /\ content \in Seq(Byte) /\ Len(content) = writeIndex
  BY <1>1, ContentIs
<1>3. writeIndex <= LONG_MAX
  <2>1. writeIndex \in 0 .. segment.len /\ segment.len <= LONG_MAX /\ segment.len \in Nat
    BY <1>1, ContentIs DEF WriterOK, Sound, MemorySegment
  <2>2. LONG_MAX \in Nat
    BY WrapLong
  <2>. QED
    BY <2>1, <2>2
<1>4. SubSeq(content, 1, writeIndex) = content
  BY <1>2, SubSeqFull
<1>. QED
  BY <1>1, <1>2, <1>3, <1>4

(* A write of bytes appends them to the log or is refused.                 *)
LEMMA WriteLogs ==
  ASSUME LogInv, NEW bs \in Words, Write(bs)
  PROVE  FromStart(segment)' /\ Log!LogWrite(bs)
<1>0. call' = <<"write", bs>>
  BY DEF Write
<1>1. bs \in Seq(Byte) /\ Len(bs) \in Nat /\ Len(bs) <= LONG_MAX
  BY WordAssumption
<1>2. PICK w : w = writeIndex
  OBVIOUS
<1>3. w \in Nat /\ w <= LONG_MAX /\ content \in Seq(Byte) /\ SubSeq(content, 1, w) = content
  BY <1>2, StartIs
<1>4. PICK next : next = Wrap(w + Len(bs), LongBits)
  OBVIOUS
<1>5. next \in Int /\ next <= LONG_MAX /\ (next < 0 \/ next = w + Len(bs))
  <2>1. w + Len(bs) \in Int
    BY <1>1, <1>3
  <2>. QED
    BY <1>1, <1>3, <1>4, <2>1, WrapLong, WrapSum
<1>6. WriteAt(w, bs, next)
  BY <1>2, <1>4 DEF Write
<1>7. FromStart(segment)' /\ (Written(w, bs, next) \/ Failed(w))
  <2>1. w \in 0 .. writeIndex
    BY <1>2, <1>3
  <2>2. next < 0 \/ next >= w + Len(bs)
    BY <1>1, <1>3, <1>5
  <2>. QED
    BY <1>1, <1>5, <1>6, <2>1, <2>2, WriteAtLogs
<1>8. CASE Failed(w)
  BY <1>0, <1>3, <1>7, <1>8 DEF Failed, Log!LogWrite, Log!Kept
<1>9. CASE Written(w, bs, next)
  <2>1. PICK hole \in [1 .. next - (w + Len(bs)) -> Byte] :
          content' = SubSeq(content, 1, w) \o bs \o hole
    BY <1>9 DEF Written, Appended
  <2>2. next - (w + Len(bs)) = 0
    BY <1>1, <1>3, <1>5, <1>9 DEF Written
  <2>3. hole \in Seq(Byte) /\ Len(hole) = 0
    BY <2>2
  <2>4. hole = <<>>
    BY <2>3, EmptySeq
  <2>5. content \o bs \in Seq(Byte)
    BY <1>1, <1>3
  <2>6. content' = content \o bs
    BY <1>3, <2>1, <2>4, <2>5, ConcatEmptySeq
  <2>7. ret' = "ok"
    BY <1>9 DEF Written
  <2>. QED
    BY <1>0, <1>7, <2>6, <2>7 DEF Log!LogWrite, Log!Done
<1>. QED
  BY <1>7, <1>8, <1>9

(* writeBytes() appends its bytes to the log or is refused.                *)
LEMMA WriteBytesLogs ==
  ASSUME LogInv, NEW b \in Words, NEW off \in Int, NEW len \in Int,
         WriteBytes(b, off, len)
  PROVE  FromStart(segment)' /\ Log!LogWriteBytes(b, off, len)
<1>0. call' = <<"writeBytes", b, off, len>>
  BY DEF WriteBytes
<1>1. b \in Seq(Byte) /\ Len(b) \in Nat /\ Len(b) <= LONG_MAX
  BY WordAssumption
<1>2. PICK w : w = writeIndex
  OBVIOUS
<1>3. w \in Nat /\ w <= LONG_MAX /\ content \in Seq(Byte) /\ SubSeq(content, 1, w) = content
  BY <1>2, StartIs
<1>4. PICK next : next = Wrap(w + Len(b), LongBits)
  OBVIOUS
<1>5. next \in Int /\ next <= LONG_MAX /\ (next < 0 \/ next = w + Len(b))
  <2>1. w + Len(b) \in Int
    BY <1>1, <1>3
  <2>. QED
    BY <1>1, <1>3, <1>4, <2>1, WrapLong, WrapSum
<1>6. CASE off >= 0 /\ len >= 0 /\ off + len <= Len(b)
  <2>1. PICK bs : bs = SubSeq(b, off + 1, off + len)
    OBVIOUS
  <2>2. WriteAt(w, bs, next)
    BY <1>2, <1>4, <1>6, <2>1 DEF WriteBytes
  <2>3. bs \in Seq(Byte) /\ Len(bs) = len
    <3>1. \A i \in off + 1 .. off + len : b[i] \in Byte
      BY <1>1, <1>6
    <3>. QED
      BY <1>1, <1>6, <2>1, <3>1, SubSeqProperties
  <2>4. FromStart(segment)' /\ (Written(w, bs, next) \/ Failed(w))
    <3>1. w \in 0 .. writeIndex
      BY <1>2, <1>3
    <3>2. next < 0 \/ next >= w + Len(bs)
      BY <1>1, <1>3, <1>5, <1>6, <2>3
    <3>. QED
      BY <1>5, <2>2, <2>3, <3>1, <3>2, WriteAtLogs
  <2>5. CASE Failed(w)
    BY <1>0, <1>3, <2>4, <2>5 DEF Failed, Log!LogWriteBytes, Log!Kept
  <2>6. CASE Written(w, bs, next)
    <3>1. PICK hole \in [1 .. next - (w + Len(bs)) -> Byte] :
            content' = SubSeq(content, 1, w) \o bs \o hole
      BY <2>6 DEF Written, Appended
    <3>2. next - (w + Len(bs)) = Len(b) - len
      BY <1>1, <1>3, <1>5, <1>6, <2>3, <2>6 DEF Written
    <3>3. content' = content \o SubSeq(b, off + 1, off + len) \o hole
      BY <1>3, <2>1, <3>1
    <3>4. ret' = "ok"
      BY <2>6 DEF Written
    <3>. QED
      BY <1>0, <1>6, <2>4, <3>1, <3>2, <3>3, <3>4 DEF Log!LogWriteBytes, Log!Done
  <2>. QED
    BY <2>4, <2>5, <2>6
<1>7. CASE ~(off >= 0 /\ len >= 0 /\ off + len <= Len(b))
  <2>1. PICK seg \in Resized(next, w) \cup {segment} : Throws(seg, w)
    BY <1>2, <1>4, <1>7 DEF WriteBytes
  <2>2. FromStart(seg) /\ Bytes(seg, w) = Bytes(segment, w)
    <3>1. FromStart(segment) /\ WriterOK /\ w \in 0 .. size
      BY <1>2, ContentIs DEF LogInv
    <3>. QED
      BY <1>5, <3>1, ResizedKeeps
  <2>3. content = Bytes(segment, w)
    BY <1>2, ContentIs DEF LogInv
  <2>4. content' = content /\ FromStart(segment)' /\ ret' = "threw"
    BY <2>1, <2>2, <2>3, EndIs DEF Throws
  <2>. QED
    BY <1>0, <2>4 DEF Log!LogWriteBytes, Log!Kept
<1>. QED
  BY <1>6, <1>7

(* A call that changes no field leaves the log as it was.                 *)
LEMMA RefusedLogs ==
  ASSUME LogInv, UNCHANGED fields
  PROVE  FromStart(segment)' /\ content' = content
BY DEF fields, content, Bytes, LogInv, FromStart

(* A C string that goes after the content, or in the place of its NUT.     *)
LEMMA CStrAtLogs ==
  ASSUME LogInv, NEW str \in Strs, NEW w \in 0 .. writeIndex,
         \/ WriteAt(w, Append(str, NUT), Wrap(w + Len(str) + 1, LongBits))
         \/ Throws(segment, w)
  PROVE  /\ FromStart(segment)'
         /\ \/ ret' = "ok" /\ content' = SubSeq(content, 1, w) \o str \o <<0>>
            \/ Failed(w)
<1>1. str \in Seq(Byte) /\ Len(str) \in Nat /\ NUT \in Byte
  <2>1. str \in Seq(Byte \ {NUT})
    BY StrAssumption
  <2>. QED
    BY <2>1, ByteAssumption
<1>2. PICK bs : bs = Append(str, NUT)
  OBVIOUS
<1>3. bs \in Seq(Byte) /\ Len(bs) = Len(str) + 1 /\ bs = str \o <<0>>
  <2>1. bs \in Seq(Byte) /\ Len(bs) = Len(str) + 1
    BY <1>1, <1>2
  <2>2. bs = str \o <<NUT>>
    BY <1>1, <1>2, AppendIsConcat
  <2>. QED
    BY <2>1, <2>2 DEF NUT
<1>4. PICK next : next = Wrap(w + Len(str) + 1, LongBits)
  OBVIOUS
<1>5. w \in Nat /\ content \in Seq(Byte) /\ Len(content) = writeIndex
  BY StartIs
<1>6. w + Len(str) + 1 \in Nat /\ w + Len(bs) = w + Len(str) + 1
  BY <1>1, <1>3, <1>5
<1>7. next \in Int /\ next <= LONG_MAX /\ (w + Len(bs) <= LONG_MAX => next = w + Len(bs))
  BY <1>4, <1>6, WrapLong
<1>8. CASE Throws(segment, w)
  <2>1. content = Bytes(segment, writeIndex) /\ FromStart(segment)
    BY StartIs, ContentIs DEF LogInv
  <2>2. Sound(segment) /\ writeIndex \in 0 .. segment.len
    BY StartIs, ContentIs DEF WriterOK
  <2>3. SubSeq(content, 1, w) = Bytes(segment, w)
    BY <2>1, <2>2, BytesCut
  <2>. QED
    BY <1>8, <2>1, <2>3, EndIs DEF Throws, Failed
<1>9. ASSUME Written(w, bs, next)
      PROVE  ret' = "ok" /\ content' = SubSeq(content, 1, w) \o str \o <<0>>
  <2>1. PICK hole \in [1 .. next - (w + Len(bs)) -> Byte] :
          content' = SubSeq(content, 1, w) \o bs \o hole
    BY <1>9 DEF Written, Appended
  <2>2. next - (w + Len(bs)) = 0
    BY <1>6, <1>7, <1>9 DEF Written
  <2>3. hole \in Seq(Byte) /\ Len(hole) = 0
    BY <2>2
  <2>4. hole = <<>>
    BY <2>3, EmptySeq
  <2>5. SubSeq(content, 1, w) \in Seq(Byte)
    BY <1>5
  <2>6. SubSeq(content, 1, w) \o bs \in Seq(Byte)
    BY <1>3, <2>5
  <2>7. content' = SubSeq(content, 1, w) \o bs
    BY <2>1, <2>4, <2>6, ConcatEmptySeq
  <2>8. <<0>> \in Seq(Byte)
    BY <1>1 DEF NUT
  <2>9. SubSeq(content, 1, w) \o (str \o <<0>>) = SubSeq(content, 1, w) \o str \o <<0>>
    <3>1. PICK p, z : p = SubSeq(content, 1, w) /\ z = <<0>>
      OBVIOUS
    <3>2. p \in Seq(Byte) /\ z \in Seq(Byte)
      BY <2>5, <2>8, <3>1
    <3>3. (p \o str) \o z = p \o (str \o z)
      BY <1>1, <3>2, JoinIsAssociative
    <3>. QED
      BY <3>1, <3>3
  <2>. QED
    BY <1>3, <1>9, <2>7, <2>9 DEF Written
<1>10. CASE WriteAt(w, Append(str, NUT), Wrap(w + Len(str) + 1, LongBits))
  <2>1. w + Len(bs) <= LONG_MAX => next < 0 \/ next >= w + Len(bs)
    BY <1>6, <1>7
  <2>2. WriteAt(w, bs, next)
    BY <1>2, <1>4, <1>10
  <2>3. FromStart(segment)' /\ (Written(w, bs, next) \/ Failed(w))
    BY <1>3, <1>7, <2>1, <2>2, WriteAtLogs
  <2>. QED
    BY <1>9, <2>3
<1>. QED
  BY <1>8, <1>10

(* writeCStr() puts the string and a NUT down, after the content or in the *)
(* place of its last NUT, or it fails and has taken back that NUT at most. *)
LEMMA WriteCStrLogs ==
  ASSUME LogInv, NEW str \in Strs, NEW rollbackNut \in BOOLEAN, WriteCStr(str, rollbackNut)
  PROVE  FromStart(segment)' /\ Log!LogCStr(str, rollbackNut)
<1>. DEFINE before == IF rollbackNut /\ Log!EndsInNUT(content)
                      THEN Log!WithoutLast(content) ELSE content
            taken  == IF /\ rollbackNut /\ writeIndex > 0
                         /\ Bytes(segment, writeIndex)[writeIndex] = NUT
                      THEN writeIndex - 1 ELSE writeIndex
<1>1. /\ writeIndex \in Nat /\ content \in Seq(Byte) /\ Len(content) = writeIndex
      /\ content = Bytes(segment, writeIndex) /\ SubSeq(content, 1, writeIndex) = content
  BY StartIs, ContentIs
<1>2. writeIndex > 0 /\ Bytes(segment, writeIndex)[writeIndex] = NUT <=> Log!EndsInNUT(content)
  <2>1. writeIndex > 0 <=> content # <<>>
    BY <1>1
  <2>. QED
    BY <1>1, <2>1 DEF Log!EndsInNUT, NUT
<1>3. PICK w : w = taken
  OBVIOUS
<1>4. w \in 0 .. writeIndex
  BY <1>1, <1>3
<1>5. SubSeq(content, 1, w) = before
  BY <1>1, <1>2, <1>3 DEF Log!WithoutLast
<1>6. call' = <<"writeCStr", str, rollbackNut>>
  BY DEF WriteCStr
<1>7. CASE Refused
  <2>1. FromStart(segment)' /\ content' = content /\ ret' = "threw"
    BY <1>7, RefusedLogs DEF Refused
  <2>. QED
    BY <1>6, <2>1 DEF Log!LogCStr
<1>8. CASE \/ WriteAt(w, Append(str, NUT), Wrap(w + Len(str) + 1, LongBits))
           \/ Throws(segment, w)
  <2>1. /\ FromStart(segment)'
        /\ \/ ret' = "ok" /\ content' = SubSeq(content, 1, w) \o str \o <<0>>
           \/ Failed(w)
    BY <1>4, <1>8, CStrAtLogs
  <2>. HIDE DEF before
  <2>2. \/ ret' = "ok" /\ content' = before \o str \o <<0>>
        \/ ret' = "threw" /\ content' = before
    BY <1>5, <2>1 DEF Failed
  <2>. QED
    BY <1>6, <2>1, <2>2 DEF Log!LogCStr, Log!Done, before
<1>. QED
  BY <1>3, <1>7, <1>8 DEF WriteCStr

(* A set changes the bytes it names and no others, or is refused.          *)
LEMMA SetLogs ==
  ASSUME LogInv, NEW index \in Int, NEW bs \in Words, Set(index, bs)
  PROVE  FromStart(segment)' /\ Log!LogSet(index, bs)
<1>0. call' = <<"set", index, bs>>
  BY DEF Set
<1>1. CASE Refused
  <2>1. FromStart(segment)' /\ content' = content /\ ret' = "threw"
    BY <1>1, RefusedLogs DEF Refused
  <2>. QED
    BY <1>0, <2>1 DEF Log!LogSet, Log!Kept
<1>2. CASE ~Refused
  <2>1. /\ Wrap(index + Len(bs), LongBits) <= writeIndex /\ Holds(segment, index, Len(bs))
        /\ Returns(Store(segment, index, bs), writeIndex)
    <3>1. Wrap(index + Len(bs), LongBits) \in Int /\ writeIndex \in Int
      <4>1. index + Len(bs) \in Int
        BY WordAssumption
      <4>. QED
        BY <4>1, WrapLong, StartIs
    <3>. QED
      BY <1>2, <3>1 DEF Set
  <2>2. PICK w : w = writeIndex
    OBVIOUS
  <2>3. /\ w \in Nat /\ w \in 0 .. segment.len /\ Sound(segment) /\ segment.len \in Nat
        /\ content = Bytes(segment, w) /\ content \in Seq(Byte) /\ Len(content) = w
    BY <2>2, StartIs, ContentIs DEF WriterOK, Sound, MemorySegment
  <2>4. bs \in Seq(Byte) /\ Len(bs) \in Nat
    BY WordAssumption
  <2>5. index \in Nat /\ index + Len(bs) <= segment.len
    BY <2>1, <2>3, <2>4 DEF Holds
  <2>6. index + Len(bs) <= w
    <3>1. segment.len <= LONG_MAX /\ LONG_MAX \in Nat
      BY <2>3, WrapLong DEF Sound
    <3>2. index + Len(bs) \in Int /\ 0 <= index + Len(bs) /\ index + Len(bs) <= LONG_MAX
      BY <2>3, <2>4, <2>5, <3>1
    <3>3. Wrap(index + Len(bs), LongBits) = index + Len(bs)
      BY <3>2, WrapLong
    <3>. QED
      BY <2>1, <2>2, <3>3
  <2>7. FromStart(Store(segment, index, bs))
    <3>1. Store(segment, index, bs).base = segment.base
      BY <2>3 DEF Store, Sound, MemorySegment
    <3>. QED
      BY <3>1 DEF LogInv, FromStart
  <2>8. content' = Bytes(Store(segment, index, bs), w) /\ FromStart(segment)' /\ ret' = "ok"
    BY <2>1, <2>2, <2>7, EndIs DEF Returns
  <2>9. /\ content' \in Seq(Byte) /\ Len(content') = w
        /\ \A k \in 1 .. w :
             content'[k] = IF k - index \in DOMAIN bs THEN bs[k - index] ELSE content[k]
    <3>1. PICK old : old = segment
      OBVIOUS
    <3>2. Sound(old) /\ w \in 0 .. old.len
      BY <2>3, <3>1
    <3>3. /\ Bytes(Store(old, index, bs), w) \in Seq(Byte)
          /\ Len(Bytes(Store(old, index, bs), w)) = w
          /\ \A k \in 1 .. w :
               Bytes(Store(old, index, bs), w)[k] =
                 IF k - index \in DOMAIN bs THEN bs[k - index] ELSE Bytes(old, w)[k]
      BY <2>4, <2>5, <3>2, StoredOne
    <3>4. content' = Bytes(Store(old, index, bs), w) /\ content = Bytes(old, w)
      BY <2>3, <2>8, <3>1
    <3>. QED
      BY <3>3, <3>4
  <2>10. content' = [k \in DOMAIN content |->
                       IF k - index \in DOMAIN bs THEN bs[k - index] ELSE content[k]]
    <3>1. DOMAIN content = 1 .. w
      BY <2>3
    <3>2. DOMAIN content' = 1 .. w /\ content' = [k \in DOMAIN content' |-> content'[k]]
      BY <2>3, <2>9
    <3>. QED
      BY <2>9, <3>1, <3>2
  <2>11. index \in 0 .. Len(content) - Len(bs)
    BY <2>3, <2>4, <2>5, <2>6
  <2>. QED
    BY <1>0, <2>8, <2>10, <2>11 DEF Log!LogSet, Log!Done
<1>. QED
  BY <1>1, <1>2

(* No heap buffer is truncated.                                            *)
HeapUncut == "Heap" \in Kinds => \A n \in Cuts["Heap"] : n <= 0

(* A truncation hands the front over and keeps the rest of the log.        *)
LEMMA TruncateLogs ==
  ASSUME LogInv, HeapUncut, NEW offset \in Cuts[kind], Truncate(offset)
  PROVE  FromStart(segment)' /\ Log!LogTruncate(offset)
<1>0. kind \in Kinds /\ offset \in Int /\ call' = <<"truncate", offset>>
  BY CutAssumption DEF LogInv, WriterOK, TypeOK, Truncate
<1>1. CASE offset > writeIndex \/ offset < 0
  <2>1. Refused
    BY <1>1 DEF Truncate
  <2>2. FromStart(segment)' /\ content' = content /\ ret' = "threw"
    BY <2>1, RefusedLogs DEF Refused
  <2>3. Len(content) = writeIndex /\ writeIndex \in Nat
    BY StartIs
  <2>4. ~(offset \in 0 .. Len(content))
    BY <1>0, <1>1, <2>3
  <2>. QED
    BY <1>0, <2>2, <2>4 DEF Log!LogTruncate, Log!Kept
<1>2. CASE ~(offset > writeIndex \/ offset < 0)
  <2>. DEFINE seg == [segment EXCEPT !.base = @ + offset, !.len = size - offset]
  <2>1. Returns(seg, writeIndex - offset)
    BY <1>2 DEF Truncate
  <2>2. PICK w, n : w = writeIndex /\ n = writeIndex - offset
    OBVIOUS
  <2>3. /\ w \in Nat /\ w \in 0 .. segment.len /\ Sound(segment) /\ segment.len \in Nat
        /\ content = Bytes(segment, w) /\ content \in Seq(Byte) /\ Len(content) = w
        /\ size = segment.len
    BY <2>2, StartIs, ContentIs DEF WriterOK, Sound, MemorySegment
  <2>4. offset \in Nat /\ n \in Nat /\ n = w - offset /\ offset <= w /\ offset <= segment.len
    BY <1>0, <1>2, <2>2, <2>3
  <2>5. /\ segment \in MemorySegment /\ segment.base \in Nat /\ segment.block \in Seq(Byte)
        /\ segment.base + segment.len <= Len(segment.block) /\ segment.len <= LONG_MAX
        /\ LONG_MAX \in Nat
    BY <2>3, WrapLong DEF Sound, MemorySegment
  <2>6. /\ seg.block = segment.block /\ seg.base = segment.base + offset
        /\ seg.len = segment.len - offset /\ seg \in MemorySegment
    <3>1. segment.base + offset \in Nat /\ segment.len - offset \in Nat
      BY <2>3, <2>4, <2>5
    <3>2. seg = [segment EXCEPT !.base = segment.base + offset, !.len = segment.len - offset]
      BY <2>3
    <3>. HIDE DEF seg
    <3>. QED
      BY <2>5, <3>1, <3>2 DEF MemorySegment
  <2>. HIDE DEF seg
  <2>7. Sound(seg) /\ n \in 0 .. seg.len
    BY <2>3, <2>4, <2>5, <2>6 DEF Sound
  <2>8. FromStart(seg)
    <3>1. CASE kind = "Heap"
      <4>1. offset <= 0
        BY <1>0, <3>1 DEF HeapUncut
      <4>2. offset = 0
        BY <2>4, <4>1
      <4>. QED
        BY <2>5, <2>6, <3>1, <4>2 DEF LogInv, FromStart
    <3>2. CASE kind # "Heap"
      BY <3>2 DEF FromStart
    <3>. QED
      BY <3>1, <3>2
  <2>9. content' = Bytes(seg, n) /\ FromStart(segment)' /\ ret' = "ok"
    BY <2>1, <2>2, <2>8, EndIs DEF Returns
  <2>10. /\ Bytes(seg, n) \in Seq(Byte) /\ Len(Bytes(seg, n)) = n
         /\ \A i \in 1 .. n : Bytes(seg, n)[i] = segment.block[segment.base + offset + i]
    BY <2>6, <2>7, BytesAre, BytesOne
  <2>11. \A i \in 1 .. w : content[i] = segment.block[segment.base + i]
    BY <2>3, BytesOne
  <2>12. /\ SubSeq(content, offset + 1, w) \in Seq(Byte)
         /\ Len(SubSeq(content, offset + 1, w)) = n
         /\ \A i \in 1 .. n : SubSeq(content, offset + 1, w)[i] = content[offset + i]
    <3>1. \A i \in offset + 1 .. w : content[i] \in Byte
      BY <2>3, <2>4
    <3>2. /\ SubSeq(content, offset + 1, w) \in Seq(Byte)
          /\ Len(SubSeq(content, offset + 1, w)) =
               IF offset + 1 <= w THEN w - (offset + 1) + 1 ELSE 0
          /\ \A i \in 1 .. w - (offset + 1) + 1 :
               SubSeq(content, offset + 1, w)[i] = content[offset + 1 + i - 1]
      BY <2>3, <2>4, <3>1, SubSeqProperties
    <3>3. w - (offset + 1) + 1 = n /\ (offset + 1 <= w \/ n = 0)
      BY <2>3, <2>4
    <3>4. \A i \in 1 .. n : offset + 1 + i - 1 = offset + i
      BY <2>4
    <3>. QED
      BY <3>2, <3>3, <3>4
  <2>13. ASSUME NEW i \in 1 .. n PROVE Bytes(seg, n)[i] = SubSeq(content, offset + 1, w)[i]
    <3>1. offset + i \in 1 .. w /\ segment.base + (offset + i) = segment.base + offset + i
      BY <2>3, <2>4, <2>5
    <3>. QED
      BY <2>10, <2>11, <2>12, <3>1
  <2>14. Bytes(seg, n) = SubSeq(content, offset + 1, w)
    BY <2>10, <2>12, <2>13, SeqEqual
  <2>15. offset \in 0 .. Len(content) /\ content' = SubSeq(content, offset + 1, Len(content))
    BY <2>3, <2>4, <2>9, <2>14
  <2>. QED
    BY <1>0, <2>9, <2>15 DEF Log!LogTruncate, Log!Done
<1>. QED
  BY <1>1, <1>2

(* Every call on the writer is a step of the log.                          *)
LEMMA LogStep ==
  ASSUME LogInv, HeapUncut, Next \/ UNCHANGED vars
  PROVE  LogInv' /\ (Log!LogNext \/ UNCHANGED <<content, call, ret>>)
<1>1. WriterOK'
  BY WriterNext DEF LogInv
<1>2. CASE Next
  <2>1. FromStart(segment)' /\ Log!LogNext
    <3>1. CASE \E bs \in Words : Write(bs)
      BY <3>1, WriteLogs DEF Log!LogNext
    <3>2. CASE \E b \in Words : \E off, len \in -1 .. Len(b) : WriteBytes(b, off, len)
      <4>1. \A b \in Words : -1 .. Len(b) \subseteq Int
        OBVIOUS
      <4>. QED
        BY <3>2, <4>1, WriteBytesLogs DEF Log!LogNext
    <3>3. CASE \E str \in Strs, rollbackNut \in BOOLEAN : WriteCStr(str, rollbackNut)
      BY <3>3, WriteCStrLogs DEF Log!LogNext
    <3>4. CASE \E index \in Indices, bs \in Words : Set(index, bs)
      <4>1. Indices \subseteq Int
        BY DEF Indices
      <4>. QED
        BY <3>4, <4>1, SetLogs DEF Log!LogNext
    <3>5. CASE \E offset \in Cuts[kind] : Truncate(offset)
      <4>1. kind \in Kinds
        BY DEF LogInv, WriterOK, TypeOK
      <4>. QED
        BY <3>5, <4>1, TruncateLogs DEF Log!LogNext
    <3>6. CASE Close \/ UserCloses
      <4>1. UNCHANGED fields /\ ret' \in {"ok", "threw"} /\ call' = <<"close">>
        BY <3>6 DEF Close, UserCloses, Refused
      <4>2. FromStart(segment)' /\ content' = content
        BY <4>1, RefusedLogs
      <4>. QED
        BY <4>1, <4>2 DEF Log!LogNext, Log!LogClose, Log!Done, Log!Kept
    <3>. QED
      BY <1>2, <3>1, <3>2, <3>3, <3>4, <3>5, <3>6 DEF Next
  <2>. QED
    BY <1>1, <2>1 DEF LogInv
<1>3. CASE UNCHANGED vars
  <2>1. content' = content /\ FromStart(segment)' /\ ret' = ret /\ call' = call
    BY <1>3 DEF vars, fields, content, Bytes, LogInv, FromStart
  <2>. QED
    BY <1>1, <2>1 DEF LogInv
<1>. QED
  BY <1>2, <1>3

(* A new writer is an empty log.                                           *)
LEMMA LogStart == Init => LogInv /\ Log!LogInit
<1>. SUFFICES ASSUME Init PROVE LogInv /\ Log!LogInit
  OBVIOUS
<1>1. WriterOK
  BY WriterInit
<1>2. writeIndex = 0 /\ ret = "ok" /\ call = <<"new">> /\ segment.base = 0
  BY DEF Init, Fresh
<1>3. content \in Seq(Byte) /\ Len(content) = 0
  BY <1>1, <1>2, ContentIs
<1>4. content = <<>>
  BY <1>3, EmptySeq
<1>. QED
  BY <1>1, <1>2, <1>4 DEF LogInv, FromStart, Log!LogInit

(* A write buffer of any policy implements the log, if no heap buffer is   *)
(* truncated: each call that returns has added, overwritten or cut off     *)
(* what it was asked to and nothing else, and each one that throws has     *)
(* changed no byte, but for the NUT writeCStr(str, true) may have taken    *)
(* back, whatever growth and wrapping around do to the memory              *)
(* (WriteBuffer.java:85-199).                                              *)
THEOREM BuffersAreLogs == HeapUncut => (BuffersSpec => BehavesAsLog)
<1>. SUFFICES ASSUME HeapUncut PROVE BuffersSpec => BehavesAsLog
  OBVIOUS
<1>1. BuffersInit => LogInv /\ Log!LogInit
  BY LogStart DEF BuffersInit
<1>2. LogInv /\ [BuffersNext]_allVars => LogInv' /\ [Log!LogNext]_<<content, call, ret>>
  <2>1. [BuffersNext]_allVars => Next \/ UNCHANGED vars
    BY DEF BuffersNext, Writes, HandOver, Reads, Next, allVars
  <2>. QED
    BY <2>1, LogStep
<1>. QED
  BY <1>1, <1>2, PTL DEF BuffersSpec, BehavesAsLog, Log!LogSpec
-----------------------------------------------------------------------------
(* q holds the strings s, the i-th of them after p[i - 1] and up to the    *)
(* NUT at p[i].                                                            *)
Encodes(p, q, s) ==
  /\ p \in [0 .. Len(s) -> Nat]
  /\ p[0] = 0 /\ p[Len(s)] = Len(q)
  /\ \A i, j \in 0 .. Len(s) : i < j => p[i] < p[j]
  /\ \A i \in 1 .. Len(s) :
        /\ p[i] = p[i - 1] + Len(s[i]) + 1
        /\ q[p[i]] = NUT
        /\ \A k \in 1 .. Len(s[i]) : q[p[i - 1] + k] = s[i][k]

WritesStrings ==
  phase = "write" =>
    got = Null /\ (sent # Null => sent \in Seq(Strs) /\ \E p : Encodes(p, content, sent))

(* str, or Null when no String was made of it.                             *)
Back(x, str) == x = str \/ (x = Null /\ str # <<>>)

(* The reader stands behind the strings it has read.                       *)
ReadsStrings ==
  got # Null =>
    /\ sent \in Seq(Strs) /\ got \in Seq(Strs \cup {Null}) /\ Len(got) <= Len(sent)
    /\ \A i \in 1 .. Len(got) : Back(got[i], sent[i])
    /\ \E p : Encodes(p, data, sent) /\ readIndex = p[Len(got)]
    /\ how = "null" => readIndex = Len(data) \/ (got # <<>> /\ Last(got) = <<>>)

StringsInv == WritesStrings /\ ReadsStrings

(* A string is bytes without a NUL.                                        *)
LEMMA StrIs ==
  ASSUME NEW str \in Strs
  PROVE  /\ str \in Seq(Byte) /\ Len(str) \in Nat
         /\ \A k \in 1 .. Len(str) : str[k] # NUT /\ str[k] \in Byte
<1>1. str \in Seq(Byte \ {NUT})
  BY StrAssumption
<1>2. Len(str) \in Nat /\ \A k \in 1 .. Len(str) : str[k] \in Byte \ {NUT}
  BY <1>1
<1>3. str \in Seq(Byte)
  BY <1>1
<1>. QED
  BY <1>2, <1>3

(* One more string.                                                        *)
LEMMA EncodesMore ==
  ASSUME NEW s \in Seq(Strs), NEW str \in Strs, NEW q \in Seq(Byte), NEW p, Encodes(p, q, s)
  PROVE  \E r : Encodes(r, q \o str \o <<0>>, Append(s, str))
<1>1. PICK n \in Nat : n = Len(s)
  OBVIOUS
<1>2. /\ str \in Seq(Byte) /\ Len(str) \in Nat /\ NUT \in Byte /\ NUT = 0 /\ Len(q) \in Nat
  BY StrIs, ByteAssumption DEF NUT
<1>3. PICK m \in Nat : m = Len(q)
  BY <1>2
<1>4. PICK l \in Nat : l = Len(str)
  BY <1>2
<1>5. PICK t : t = Append(s, str)
  OBVIOUS
<1>6. t \in Seq(Strs) /\ Len(t) = n + 1 /\ t[n + 1] = str /\ \A i \in 1 .. n : t[i] = s[i]
  BY <1>1, <1>5, AppendProperties
<1>7. PICK qs : qs = q \o str
  OBVIOUS
<1>8. /\ qs \in Seq(Byte) /\ Len(qs) = m + l
      /\ \A k \in 1 .. m + l : qs[k] = IF k <= m THEN q[k] ELSE str[k - m]
  BY <1>2, <1>3, <1>4, <1>7, JoinBytes
<1>9. PICK all : all = qs \o <<0>>
  OBVIOUS
<1>10. /\ Len(all) = m + l + 1 /\ all[m + l + 1] = 0
       /\ \A k \in 1 .. m + l : all[k] = qs[k]
  <2>1. PICK z : z = <<0>>
    OBVIOUS
  <2>2. z \in Seq(Byte) /\ Len(z) = 1 /\ z[1] = 0
    BY <1>2, <2>1
  <2>3. /\ Len(qs \o z) = Len(qs) + Len(z)
        /\ \A k \in 1 .. Len(qs) + Len(z) :
             (qs \o z)[k] = IF k <= Len(qs) THEN qs[k] ELSE z[k - Len(qs)]
    BY <1>8, <2>2, JoinBytes
  <2>4. all = qs \o z
    BY <1>9, <2>1
  <2>5. Len(all) = m + l + 1
    BY <1>8, <2>2, <2>3, <2>4
  <2>6. \A k \in 1 .. m + l + 1 : all[k] = IF k <= m + l THEN qs[k] ELSE z[k - (m + l)]
    BY <1>8, <2>2, <2>3, <2>4
  <2>7. m + l + 1 \in 1 .. m + l + 1 /\ ~(m + l + 1 <= m + l) /\ m + l + 1 - (m + l) = 1
    OBVIOUS
  <2>8. all[m + l + 1] = z[1]
    BY <2>6, <2>7
  <2>. QED
    BY <2>2, <2>5, <2>6, <2>8
<1>. DEFINE r == [i \in 0 .. n + 1 |-> IF i = n + 1 THEN m + l + 1 ELSE p[i]]
<1>11. /\ p \in [0 .. n -> Nat] /\ p[0] = 0 /\ p[n] = m
       /\ \A i, j \in 0 .. n : i < j => p[i] < p[j]
       /\ \A i \in 1 .. n :
            /\ p[i] = p[i - 1] + Len(s[i]) + 1
            /\ q[p[i]] = 0
            /\ \A k \in 1 .. Len(s[i]) : q[p[i - 1] + k] = s[i][k]
  BY <1>1, <1>2, <1>3 DEF Encodes
<1>12. /\ r[n + 1] = m + l + 1 /\ \A i \in 0 .. n : r[i] = p[i] /\ p[i] \in Nat /\ p[i] <= m
  <2>1. \A i \in 0 .. n : p[i] \in Nat /\ p[i] <= m
    <3>. SUFFICES ASSUME NEW i \in 0 .. n PROVE p[i] \in Nat /\ p[i] <= m
      OBVIOUS
    <3>1. p[i] \in Nat /\ n \in 0 .. n
      BY <1>11
    <3>2. CASE i = n
      BY <1>11, <3>1, <3>2
    <3>3. CASE i < n
      <4>1. p[i] < p[n]
        BY <1>11, <3>1, <3>3
      <4>. QED
        BY <1>11, <3>1, <4>1
    <3>4. i = n \/ i < n
      OBVIOUS
    <3>. QED
      BY <3>2, <3>3, <3>4
  <2>2. r[n + 1] = m + l + 1
    <3>1. n + 1 \in 0 .. n + 1
      OBVIOUS
    <3>. QED
      BY <3>1
  <2>3. \A i \in 0 .. n : r[i] = p[i]
    <3>1. \A i \in 0 .. n : i \in 0 .. n + 1 /\ i # n + 1
      OBVIOUS
    <3>. QED
      BY <3>1
  <2>. QED
    BY <2>1, <2>2, <2>3
<1>13. r \in [0 .. n + 1 -> Nat]
  <2>1. \A i \in 0 .. n + 1 : i = n + 1 \/ i \in 0 .. n
    OBVIOUS
  <2>2. DOMAIN r = 0 .. n + 1 /\ r = [i \in 0 .. n + 1 |-> r[i]]
    OBVIOUS
  <2>. HIDE DEF r
  <2>3. m + l + 1 \in Nat
    OBVIOUS
  <2>4. \A i \in 0 .. n + 1 : r[i] \in Nat
    BY <1>12, <2>1, <2>3
  <2>. QED
    BY <2>2, <2>4
<1>. HIDE DEF r
<1>14. r[0] = 0 /\ r[Len(t)] = Len(all)
  BY <1>6, <1>10, <1>11, <1>12
<1>15. ASSUME NEW i \in 0 .. n + 1, NEW j \in 0 .. n + 1, i < j PROVE r[i] < r[j]
  <2>1. i \in 0 .. n
    BY <1>15
  <2>2. CASE j = n + 1
    BY <1>12, <2>1, <2>2
  <2>3. CASE j \in 0 .. n
    BY <1>11, <1>12, <1>15, <2>1, <2>3
  <2>. QED
    BY <2>2, <2>3
<1>16. ASSUME NEW i \in 1 .. n + 1
       PROVE  /\ r[i] = r[i - 1] + Len(t[i]) + 1
              /\ all[r[i]] = NUT
              /\ \A k \in 1 .. Len(t[i]) : all[r[i - 1] + k] = t[i][k]
  <2>1. CASE i = n + 1
    <3>1. r[i] = m + l + 1 /\ r[i - 1] = m /\ t[i] = str
      <4>1. i - 1 = n /\ n \in 0 .. n
        BY <2>1
      <4>. QED
        BY <1>6, <1>11, <1>12, <2>1, <4>1
    <3>2. ASSUME NEW k \in 1 .. l PROVE all[m + k] = str[k]
      <4>1. m + k \in 1 .. m + l /\ ~(m + k <= m) /\ m + k - m = k
        OBVIOUS
      <4>2. all[m + k] = qs[m + k] /\ qs[m + k] = str[m + k - m]
        BY <1>8, <1>10, <4>1
      <4>. QED
        BY <4>1, <4>2
    <3>3. all[m + l + 1] = NUT
      BY <1>2, <1>10
    <3>4. Len(t[i]) = l /\ r[i] = r[i - 1] + Len(t[i]) + 1 /\ all[r[i]] = NUT
      BY <1>4, <3>1, <3>3
    <3>5. \A k \in 1 .. Len(t[i]) : all[r[i - 1] + k] = t[i][k]
      BY <3>1, <3>2, <3>4
    <3>. QED
      BY <3>4, <3>5
  <2>2. CASE i \in 1 .. n
    <3>1. i \in 0 .. n /\ i - 1 \in 0 .. n /\ t[i] = s[i] /\ r[i] = p[i] /\ r[i - 1] = p[i - 1]
      <4>1. i \in 0 .. n /\ i - 1 \in 0 .. n
        BY <2>2
      <4>. QED
        BY <1>6, <1>12, <2>2, <4>1
    <3>2. /\ p[i] = p[i - 1] + Len(s[i]) + 1 /\ q[p[i]] = 0
          /\ \A k \in 1 .. Len(s[i]) : q[p[i - 1] + k] = s[i][k]
      BY <1>11, <2>2
    <3>3. s[i] \in Strs
      BY <1>1, <2>2
    <3>4. Len(s[i]) \in Nat /\ p[i] \in Nat /\ p[i - 1] \in Nat /\ p[i] <= m
      BY <1>12, <3>1, <3>3, StrIs
    <3>5. \A x \in 1 .. m : all[x] = q[x]
      <4>1. \A x \in 1 .. m : x \in 1 .. m + l /\ x <= m
        OBVIOUS
      <4>. QED
        BY <1>8, <1>10, <4>1
    <3>6. p[i] \in 1 .. m /\ \A k \in 1 .. Len(s[i]) : p[i - 1] + k \in 1 .. m
      <4>1. \A a, b, c \in Nat : a = b + c + 1 /\ a <= m =>
              a \in 1 .. m /\ \A k \in 1 .. c : b + k \in 1 .. m
        OBVIOUS
      <4>. QED
        BY <3>2, <3>4, <4>1
    <3>7. all[p[i]] = NUT
      BY <1>2, <3>2, <3>5, <3>6
    <3>8. \A k \in 1 .. Len(s[i]) : all[p[i - 1] + k] = s[i][k]
      BY <3>2, <3>5, <3>6
    <3>. QED
      BY <3>1, <3>2, <3>7, <3>8
  <2>. QED
    BY <2>1, <2>2
<1>17. Encodes(r, all, t)
  BY <1>6, <1>13, <1>14, <1>15, <1>16 DEF Encodes
<1>. QED
  BY <1>5, <1>7, <1>9, <1>17

(* The strings are found one after the other, and nothing after the last.  *)
LEMMA NextString ==
  ASSUME ReaderOK, NEW s \in Seq(Strs), NEW p, Encodes(p, data, s),
         NEW n \in 0 .. Len(s) - 1, readIndex = p[n]
  PROVE  /\ Reader!Hits(<<NUT>>) # {}
         /\ Reader!FirstHit(<<NUT>>) + 1 = p[n + 1] /\ p[n + 1] > p[n] /\ p[n + 1] \in Nat
         /\ Reader!Slice(readIndex, Reader!FirstHit(<<NUT>>)) = s[n + 1]
         /\ Reader!FirstHit(<<NUT>>) = readIndex <=> s[n + 1] = <<>>
<1>1. data \in Seq(Byte) /\ Len(data) \in Nat /\ readIndex \in Nat
  BY DEF ReaderOK, Reader!TypeOK
<1>2. n \in Nat /\ n + 1 \in 1 .. Len(s) /\ n + 1 \in 0 .. Len(s) /\ n \in 0 .. Len(s)
      /\ Len(s) \in Nat /\ Len(s) \in 0 .. Len(s) /\ n + 1 - 1 = n
  OBVIOUS
<1>3. PICK str \in Strs : str = s[n + 1]
  BY <1>2
<1>4. str \in Seq(Byte) /\ Len(str) \in Nat /\ \A k \in 1 .. Len(str) : str[k] # NUT
  BY StrIs
<1>5. /\ p[n] \in Nat /\ p[n + 1] \in Nat /\ p[n + 1] = p[n] + Len(str) + 1
      /\ data[p[n + 1]] = NUT /\ \A k \in 1 .. Len(str) : data[p[n] + k] = str[k]
  <2>1. p[n] \in Nat /\ p[n + 1] \in Nat
    BY <1>2 DEF Encodes
  <2>2. /\ p[n + 1] = p[n + 1 - 1] + Len(s[n + 1]) + 1
        /\ data[p[n + 1]] = NUT
        /\ \A k \in 1 .. Len(s[n + 1]) : data[p[n + 1 - 1] + k] = s[n + 1][k]
    BY <1>2 DEF Encodes
  <2>3. p[n + 1 - 1] = p[n]
    BY <1>2
  <2>. QED
    BY <1>3, <2>1, <2>2, <2>3
<1>6. p[n + 1] <= Len(data)
  <2>1. p[Len(s)] = Len(data) /\ p[Len(s)] \in Nat
    BY <1>2 DEF Encodes
  <2>2. CASE n + 1 = Len(s)
    BY <2>1, <2>2
  <2>3. CASE n + 1 < Len(s)
    <3>1. p[n + 1] < p[Len(s)]
      BY <1>2, <2>3 DEF Encodes
    <3>. QED
      BY <1>5, <2>1, <3>1
  <2>4. n + 1 = Len(s) \/ n + 1 < Len(s)
    BY <1>2
  <2>. QED
    BY <2>2, <2>3, <2>4
<1>. PICK a \in Nat : a = p[n] /\ a = readIndex
  BY <1>5
<1>. PICK l \in Nat : l = Len(str)
  BY <1>4
<1>. DEFINE Is(k) == data[a + k] = str[k] /\ str[k] # NUT
<1>0. \A k \in 1 .. l : Is(k)
  BY <1>4, <1>5
<1>7. PICK e : e = a + l
  OBVIOUS
<1>8. e \in Nat /\ e + 1 = p[n + 1] /\ e \in readIndex .. Len(data) - 1
  <2>1. p[n + 1] = a + l + 1 /\ a + l + 1 <= Len(data)
    BY <1>5, <1>6
  <2>2. \A x, y, z \in Nat : x + y + 1 <= z =>
          x + y \in Nat /\ x + y + 1 = (x + y) + 1 /\ x + y \in x .. z - 1
    OBVIOUS
  <2>. QED
    BY <1>1, <1>7, <2>1, <2>2
<1>9. e \in Reader!Hits(<<NUT>>)
  BY <1>5, <1>8, NutHits
<1>10. ASSUME NEW cur \in Reader!Hits(<<NUT>>) PROVE e <= cur
  <2>1. cur \in readIndex .. Len(data) - 1 /\ data[cur + 1] = NUT
    BY NutHits
  <2>2. cur \in Nat /\ cur >= p[n]
    BY <1>1, <2>1
  <2>3. SUFFICES ASSUME cur < e PROVE FALSE
    BY <1>8, <2>2
  <2>4. cur + 1 - a \in 1 .. l /\ a + (cur + 1 - a) = cur + 1
    <3>1. \A x, y, z \in Nat : z >= x /\ z < x + y =>
            z + 1 - x \in 1 .. y /\ x + (z + 1 - x) = z + 1
      OBVIOUS
    <3>. QED
      BY <1>7, <2>2, <2>3, <3>1
  <2>5. Is(cur + 1 - a)
    BY <1>0, <2>4
  <2>6. data[cur + 1] = str[cur + 1 - a] /\ str[cur + 1 - a] # NUT
    BY <2>4, <2>5
  <2>. QED
    BY <2>1, <2>6
<1>11. Reader!FirstHit(<<NUT>>) = e
  <2>1. PICK sep : sep = <<NUT>>
    OBVIOUS
  <2>2. sep \in Seq(Byte)
    BY <2>1, ByteAssumption DEF NUT
  <2>3. PICK f : f = Reader!FirstHit(sep)
    OBVIOUS
  <2>4. /\ f \in Reader!Hits(sep) /\ \A cur \in Reader!Hits(sep) : f <= cur
    BY <1>9, <2>1, <2>2, <2>3, FirstHitIsFirst
  <2>5. f \in Int
    BY <1>1, <2>1, <2>4, NutHits
  <2>6. f <= e /\ e <= f
    BY <1>9, <1>10, <2>1, <2>4
  <2>. QED
    BY <1>8, <2>1, <2>3, <2>5, <2>6
<1>12. Reader!Slice(readIndex, e) = str
  <2>1. a <= e /\ e <= Len(data) /\ e - a = l
    <3>1. a <= e /\ e - a = l
      BY <1>7
    <3>2. e <= Len(data)
      BY <1>1, <1>8
    <3>. QED
      BY <3>1, <3>2
  <2>2. PICK x : x = Reader!Slice(a, e)
    OBVIOUS
  <2>3. x \in Seq(Byte) /\ Len(x) = l
    BY <1>8, <2>1, <2>2, SliceIs
  <2>4. \A i \in 1 .. l : x[i] = data[a + i]
    <3>1. e \in Nat /\ l = e - a
      BY <1>8, <2>1
    <3>2. \A i \in 1 .. e - a : Reader!Slice(a, e)[i] = data[a + i]
      BY <2>1, <3>1, SliceOne
    <3>. QED
      BY <2>2, <3>1, <3>2
  <2>5. \A i \in 1 .. l : x[i] = str[i]
    BY <1>0, <2>4
  <2>6. x = str
    BY <1>4, <2>3, <2>5, SeqEqual
  <2>. QED
    BY <2>2, <2>6
<1>13. e = readIndex <=> str = <<>>
  <2>1. e = readIndex <=> Len(str) = 0
    <3>1. \A x, y \in Nat : x + y = x <=> y = 0
      OBVIOUS
    <3>2. e = readIndex + l /\ l = Len(str)
      BY <1>7
    <3>. QED
      BY <1>1, <3>1, <3>2
  <2>2. Len(<<>>) = 0 /\ (str # <<>> => Len(str) \in Nat \ {0})
    BY <1>4, EmptySeq
  <2>3. Len(str) = 0 <=> str = <<>>
    BY <2>2
  <2>. QED
    BY <2>1, <2>3, Zenon
<1>14. p[n + 1] > p[n] /\ p[n + 1] \in Nat
  BY <1>4, <1>5
<1>. QED
  BY <1>3, <1>8, <1>9, <1>11, <1>12, <1>13, <1>14, Zenon

(* At the end of the data there is no hit.                                 *)
LEMMA NoMoreStrings ==
  ASSUME ReaderOK, readIndex = Len(data)
  PROVE  Reader!Hits(<<NUT>>) = {}
<1>1. Len(data) \in Nat
  BY DEF ReaderOK, Reader!TypeOK
<1>. QED
  BY <1>1, NutHits

(* writeCStr() that takes nothing back.                                    *)
LEMMA PlainCStr ==
  ASSUME LogInv, NEW str \in Strs, WriteCStr(str, FALSE)
  PROVE  \/ ret' = "ok" /\ content' = content \o str \o <<0>>
         \/ ret' = "threw" /\ content' = content
<1>1. PICK w : w = writeIndex
  OBVIOUS
<1>2. w \in 0 .. writeIndex /\ SubSeq(content, 1, w) = content
  BY <1>1, StartIs
<1>3. \/ WriteAt(w, Append(str, NUT), Wrap(w + Len(str) + 1, LongBits))
      \/ Throws(segment, w)
  BY <1>1 DEF WriteCStr
<1>4. \/ ret' = "ok" /\ content' = SubSeq(content, 1, w) \o str \o <<0>>
      \/ Failed(w)
  BY <1>2, <1>3, CStrAtLogs
<1>. QED
  BY <1>2, <1>4 DEF Failed

(* Writing strings keeps the positions of their ends.                      *)
LEMMA StringsWrite ==
  ASSUME LogInv, StringsInv, Writes
  PROVE  StringsInv'
<1>1. phase = "write" /\ phase' = phase /\ got = Null /\ got' = Null
  BY DEF StringsInv, WritesStrings, Writes
<1>2. ASSUME sent' # Null PROVE sent' \in Seq(Strs) /\ \E p : Encodes(p, content', sent')
  <2>1. ASSUME sent' = sent, content' = content
        PROVE  sent' \in Seq(Strs) /\ \E p : Encodes(p, content', sent')
    <3>1. sent \in Seq(Strs) /\ \E p : Encodes(p, content, sent)
      BY <1>1, <1>2, <2>1 DEF StringsInv, WritesStrings
    <3>2. PICK p : Encodes(p, content, sent)
      BY <3>1
    <3>3. PICK q, s : q = content /\ s = sent
      OBVIOUS
    <3>4. Encodes(p, q, s) /\ q = content' /\ s = sent'
      BY <2>1, <3>2, <3>3 DEF Encodes
    <3>5. Encodes(p, content', sent')
      BY <3>4
    <3>. QED
      BY <2>1, <3>1, <3>5
  <2>2. ASSUME NEW str \in Strs, WriteCStr(str, FALSE),
               sent' = IF ret' = "ok" /\ sent # Null THEN Append(sent, str) ELSE sent
        PROVE  sent' \in Seq(Strs) /\ \E p : Encodes(p, content', sent')
    <3>1. CASE ret' = "threw" /\ content' = content
      BY <2>1, <2>2, <3>1
    <3>2. CASE ret' = "ok" /\ content' = content \o str \o <<0>>
      <4>1. PICK q, s : q = content /\ s = sent
        OBVIOUS
      <4>2. s # Null /\ sent' = Append(s, str)
        BY <1>2, <2>2, <3>2, <4>1
      <4>3. s \in Seq(Strs) /\ q \in Seq(Byte) /\ \E p : Encodes(p, content, sent)
        BY <1>1, <4>1, <4>2, StartIs DEF StringsInv, WritesStrings
      <4>4. PICK p : Encodes(p, content, sent)
        BY <4>3
      <4>5. Encodes(p, q, s)
        BY <4>1, <4>4 DEF Encodes
      <4>6. \E r : Encodes(r, q \o str \o <<0>>, Append(s, str))
        BY <4>3, <4>5, EncodesMore
      <4>7. PICK r : Encodes(r, q \o str \o <<0>>, Append(s, str))
        BY <4>6
      <4>8. PICK new, t : new = q \o str \o <<0>> /\ t = Append(s, str)
        OBVIOUS
      <4>9. Encodes(r, new, t) /\ new = content' /\ t = sent'
        BY <3>2, <4>1, <4>2, <4>7, <4>8
      <4>10. Encodes(r, content', sent')
        BY <4>9
      <4>11. sent' \in Seq(Strs)
        BY <4>2, <4>3
      <4>. QED
        BY <4>10, <4>11
    <3>. QED
      BY <2>2, <3>1, <3>2, PlainCStr
  <2>3. CASE Next /\ sent' = IF content' = content THEN sent ELSE Null
    BY <1>2, <2>1, <2>3
  <2>. QED
    BY <2>2, <2>3 DEF Writes
<1>3. WritesStrings'
  BY <1>1, <1>2 DEF WritesStrings, Encodes
<1>4. ReadsStrings'
  BY <1>1 DEF ReadsStrings
<1>. QED
  BY <1>3, <1>4 DEF StringsInv

(* Handing the content over hands over the positions.                      *)
LEMMA StringsHandOver ==
  ASSUME StringsInv, HandOver
  PROVE  StringsInv'
<1>1. /\ phase = "write" /\ phase' = "read" /\ sent # Null /\ sent' = sent /\ got' = <<>>
      /\ data' = content /\ readIndex' = 0 /\ how' = "void"
  BY DEF HandOver
<1>2. sent \in Seq(Strs) /\ \E p : Encodes(p, content, sent)
  BY <1>1 DEF StringsInv, WritesStrings
<1>3. PICK p : Encodes(p, content, sent)
  BY <1>2
<1>4. Encodes(p, data', sent') /\ p[0] = 0
  BY <1>1, <1>3 DEF Encodes
<1>5. got' \in Seq(Strs \cup {Null}) /\ Len(got') = 0
  BY <1>1
<1>6. Len(got') <= Len(sent') /\ \A i \in 1 .. Len(got') : Back(got'[i], sent'[i])
  BY <1>1, <1>2, <1>5
<1>7. \E r : Encodes(r, data', sent') /\ readIndex' = r[Len(got')]
  BY <1>1, <1>4, <1>5
<1>8. WritesStrings'
  BY <1>1 DEF WritesStrings
<1>9. ReadsStrings'
  BY <1>1, <1>2, <1>5, <1>6, <1>7 DEF ReadsStrings, Encodes
<1>. QED
  BY <1>8, <1>9 DEF StringsInv

(* Reading strings goes from one position to the next.                     *)
LEMMA StringsRead ==
  ASSUME ReaderOK, StringsInv, Reads
  PROVE  StringsInv'
<1>1. phase = "read" /\ phase' = "read" /\ sent' = sent
  BY DEF Reads
<1>2. WritesStrings'
  BY <1>1 DEF WritesStrings
<1>3. CASE got = Null
  BY <1>2, <1>3 DEF Reads, StringsInv, ReadsStrings
<1>4. CASE got # Null
  <2>1. /\ Reader!ReadCStr
        /\ got' = IF readIndex' = readIndex THEN got
                  ELSE Append(got, IF how' = "threw" THEN Null ELSE result')
    BY <1>4 DEF Reads
  <2>2. /\ sent \in Seq(Strs) /\ got \in Seq(Strs \cup {Null}) /\ Len(got) <= Len(sent)
        /\ \A i \in 1 .. Len(got) : Back(got[i], sent[i])
        /\ \E p : Encodes(p, data, sent) /\ readIndex = p[Len(got)]
    BY <1>4 DEF StringsInv, ReadsStrings
  <2>3. PICK p : Encodes(p, data, sent) /\ readIndex = p[Len(got)]
    BY <2>2
  <2>4. PICK s, n, g : s = sent /\ n = Len(got) /\ g = got
    OBVIOUS
  <2>5. /\ s \in Seq(Strs) /\ n \in Nat /\ n <= Len(s) /\ Len(s) \in Nat /\ readIndex = p[n]
        /\ g \in Seq(Strs \cup {Null}) /\ Len(g) = n /\ \A i \in 1 .. n : Back(g[i], s[i])
    BY <2>2, <2>3, <2>4
  <2>6. Encodes(p, data, s)
    BY <2>3, <2>4 DEF Encodes
  <2>7. data' = data
    BY <2>1 DEF Reader!ReadCStr, Reader!Ends, Reader!Throws
  <2>8. Encodes(p, data', sent')
    <3>1. PICK q : q = data
      OBVIOUS
    <3>2. Encodes(p, q, s) /\ q = data' /\ s = sent'
      BY <1>1, <2>4, <2>6, <2>7, <3>1
    <3>. QED
      BY <3>2
  <2>9. CASE readIndex' = readIndex /\ (how' = "null" => n = Len(s))
    <3>1. got' = got
      BY <2>1, <2>9
    <3>2. n = Len(s) => readIndex' = Len(data')
      BY <2>5, <2>6, <2>7, <2>9 DEF Encodes
    <3>3. readIndex' = p[Len(got')]
      BY <2>3, <2>9, <3>1
    <3>4. /\ sent' \in Seq(Strs) /\ got' \in Seq(Strs \cup {Null}) /\ Len(got') <= Len(sent')
          /\ \A i \in 1 .. Len(got') : Back(got'[i], sent'[i])
      BY <1>1, <2>2, <3>1
    <3>5. ReadsStrings'
      BY <2>8, <2>9, <3>2, <3>3, <3>4 DEF ReadsStrings
    <3>. QED
      BY <1>2, <3>5 DEF StringsInv
  <2>10. CASE n < Len(s) /\ readIndex' # readIndex
    <3>1. n \in 0 .. Len(s) - 1
      BY <2>5, <2>10
    <3>2. /\ Reader!Hits(<<NUT>>) # {}
          /\ Reader!FirstHit(<<NUT>>) + 1 = p[n + 1] /\ p[n + 1] > p[n] /\ p[n + 1] \in Nat
          /\ Reader!Slice(readIndex, Reader!FirstHit(<<NUT>>)) = s[n + 1]
          /\ Reader!FirstHit(<<NUT>>) = readIndex <=> s[n + 1] = <<>>
      BY <2>5, <2>6, <3>1, NextString
    <3>3. /\ readIndex' = p[n + 1]
          /\ \/ s[n + 1] = <<>> /\ how' = "null" /\ result' = s[n + 1]
             \/ s[n + 1] # <<>> /\ how' = "bytes" /\ result' = s[n + 1]
             \/ s[n + 1] # <<>> /\ how' = "threw"
      BY <2>1, <2>10, <3>2 DEF Reader!ReadCStr, Reader!Ends, Reader!Throws, Reader!NUT, NUT
    <3>4. PICK x : x = IF how' = "threw" THEN Null ELSE result'
      OBVIOUS
    <3>5. got' = Append(g, x) /\ Back(x, s[n + 1]) /\ (how' = "null" => x = <<>>)
      BY <2>1, <2>4, <2>10, <3>3, <3>4 DEF Back
    <3>6. s[n + 1] \in Strs /\ x \in Strs \cup {Null}
      BY <2>5, <2>10, <3>3, <3>4
    <3>7. /\ got' \in Seq(Strs \cup {Null}) /\ Len(got') = n + 1 /\ got'[n + 1] = x
          /\ \A i \in 1 .. n : got'[i] = g[i]
      BY <2>5, <3>5, <3>6, AppendProperties
    <3>8. \A i \in 1 .. n + 1 : i = n + 1 \/ i \in 1 .. n
      BY <2>5
    <3>9. \A i \in 1 .. Len(got') : Back(got'[i], sent'[i])
      BY <1>1, <2>4, <2>5, <3>5, <3>7, <3>8
    <3>10. Len(got') <= Len(sent')
      BY <1>1, <2>4, <2>5, <2>10, <3>7
    <3>11. readIndex' = p[Len(got')]
      BY <3>3, <3>7
    <3>12. how' = "null" => got' # <<>> /\ Last(got') = <<>>
      <4>1. Last(got') = x
        BY <3>7 DEF Last
      <4>2. got' # <<>>
        BY <2>5, <3>7
      <4>. QED
        BY <3>5, <4>1, <4>2
    <3>13. sent' \in Seq(Strs)
      BY <1>1, <2>2
    <3>14. ReadsStrings'
      BY <2>8, <3>7, <3>9, <3>10, <3>11, <3>12, <3>13 DEF ReadsStrings
    <3>. QED
      BY <1>2, <3>14 DEF StringsInv
  <2>11. CASE n = Len(s)
    <3>1. readIndex = Len(data) /\ readIndex \in Nat
      BY <2>5, <2>6, <2>11 DEF Encodes, ReaderOK, Reader!TypeOK
    <3>2. Reader!Hits(<<NUT>>) = {}
      BY <3>1, NoMoreStrings
    <3>3. readIndex' = readIndex
      BY <2>1, <3>2 DEF Reader!ReadCStr, Reader!Ends, Reader!Throws, Reader!NUT, NUT
    <3>. QED
      BY <2>9, <2>11, <3>3
  <2>12. CASE n < Len(s) /\ readIndex' = readIndex
    <3>1. n \in 0 .. Len(s) - 1
      BY <2>5, <2>12
    <3>2. /\ Reader!Hits(<<NUT>>) # {}
          /\ Reader!FirstHit(<<NUT>>) + 1 = p[n + 1] /\ p[n + 1] > p[n] /\ p[n + 1] \in Nat
          /\ Reader!FirstHit(<<NUT>>) = readIndex => readIndex + 1 = p[n + 1]
      BY <2>5, <2>6, <3>1, NextString
    <3>3. p[n] \in Nat /\ p[n] = readIndex
      BY <2>5, <2>6, <3>1 DEF Encodes
    <3>4. how' # "null"
      BY <2>1, <2>12, <3>2, <3>3
         DEF Reader!ReadCStr, Reader!Ends, Reader!Throws, Reader!NUT, NUT
    <3>. QED
      BY <2>9, <2>12, <3>4
  <2>. QED
    BY <2>5, <2>10, <2>11, <2>12
<1>. QED
  BY <1>3, <1>4

(* Nothing written, nothing read.                                          *)
LEMMA StringsStart == BuffersInit => StringsInv
<1>. SUFFICES ASSUME BuffersInit PROVE StringsInv
  OBVIOUS
<1>1. got = Null
  BY DEF BuffersInit
<1>2. ASSUME phase = "write" PROVE sent \in Seq(Strs) /\ \E p : Encodes(p, content, sent)
  <2>1. sent = <<>> /\ Init
    BY <1>2 DEF BuffersInit
  <2>2. content = <<>>
    BY <2>1, LogStart DEF Log!LogInit
  <2>3. PICK p : p = [i \in 0 .. 0 |-> 0]
    OBVIOUS
  <2>4. p \in [0 .. 0 -> Nat] /\ p[0] = 0
    BY <2>3
  <2>5. sent \in Seq(Strs) /\ Len(sent) = 0 /\ Len(content) = 0
    BY <2>1, <2>2
  <2>6. Encodes(p, content, sent)
    <3>1. \A i, j \in 0 .. 0 : ~(i < j)
      OBVIOUS
    <3>2. 1 .. 0 = {}
      OBVIOUS
    <3>. QED
      BY <2>4, <2>5, <3>1, <3>2 DEF Encodes
  <2>. QED
    BY <2>5, <2>6
<1>. QED
  BY <1>1, <1>2 DEF StringsInv, WritesStrings, ReadsStrings

(* Every step keeps the positions.                                         *)
LEMMA StringsStep ==
  ASSUME BuffersInv, LogInv, StringsInv, [BuffersNext]_allVars
  PROVE  StringsInv'
<1>1. CASE Writes
  BY <1>1, StringsWrite
<1>2. CASE HandOver
  BY <1>2, StringsHandOver
<1>3. CASE Reads
  BY <1>3, StringsRead DEF BuffersInv
<1>4. CASE UNCHANGED allVars
  <2>1. /\ UNCHANGED <<phase, got, sent, data, readIndex, how>>
        /\ content' = content
    BY <1>4 DEF allVars, vars, fields, reader, content, Bytes
  <2>. QED
    BY <2>1 DEF StringsInv, WritesStrings, ReadsStrings
<1>. QED
  BY <1>1, <1>2, <1>3, <1>4 DEF BuffersNext

(* Each string read is the one written in its place, and at the end there  *)
(* are as many.                                                            *)
LEMMA StringsComeBack == BuffersInv /\ StringsInv => RoundTrip
<1>. SUFFICES ASSUME BuffersInv, StringsInv, got # Null
              PROVE  /\ Len(got) <= Len(sent)
                     /\ \A i \in DOMAIN got : Back(got[i], sent[i])
                     /\ readIndex = Len(data) => Len(got) = Len(sent)
                     /\ how = "null" => readIndex = Len(data) \/ (got # <<>> /\ Last(got) = <<>>)
  BY DEF RoundTrip, Back
<1>1. /\ sent \in Seq(Strs) /\ got \in Seq(Strs \cup {Null}) /\ Len(got) <= Len(sent)
      /\ \A i \in 1 .. Len(got) : Back(got[i], sent[i])
      /\ \E p : Encodes(p, data, sent) /\ readIndex = p[Len(got)]
      /\ how = "null" => readIndex = Len(data) \/ (got # <<>> /\ Last(got) = <<>>)
  BY DEF StringsInv, ReadsStrings
<1>2. PICK p : Encodes(p, data, sent) /\ readIndex = p[Len(got)]
  BY <1>1
<1>3. Len(got) \in Nat /\ Len(sent) \in Nat /\ DOMAIN got = 1 .. Len(got)
  BY <1>1
<1>4. ASSUME readIndex = Len(data) PROVE Len(got) = Len(sent)
  <2>1. Len(got) \in 0 .. Len(sent) /\ Len(sent) \in 0 .. Len(sent)
    BY <1>1, <1>3
  <2>2. p[Len(got)] = p[Len(sent)] /\ p[Len(sent)] \in Nat
    BY <1>2, <1>4, <2>1 DEF Encodes
  <2>3. ~(Len(got) < Len(sent))
    BY <1>2, <2>1, <2>2 DEF Encodes
  <2>. QED
    BY <1>1, <1>3, <2>3
<1>. QED
  BY <1>1, <1>3, <1>4

(* C strings come back as they were written, each in its turn, if no heap  *)
(* buffer is truncated; only the one a readCStr() was at when no String    *)
(* could be made is skipped (WriteBuffer.java:137-156,                     *)
(* ReadBuffer.java:128-145).                                               *)
THEOREM StringsRoundTrip == HeapUncut => (BuffersSpec => []RoundTrip)
<1>. SUFFICES ASSUME HeapUncut PROVE BuffersSpec => []RoundTrip
  OBVIOUS
<1>1. BuffersInit => LogInv /\ StringsInv
  BY LogStart, StringsStart DEF BuffersInit
<1>2. BuffersInv /\ LogInv /\ StringsInv /\ [BuffersNext]_allVars => LogInv' /\ StringsInv'
  <2>1. [BuffersNext]_allVars => Next \/ UNCHANGED vars
    BY DEF BuffersNext, Writes, HandOver, Reads, Next, allVars
  <2>. QED
    BY <2>1, LogStep, StringsStep
<1>. QED
  BY <1>1, <1>2, BuffersInvariant, StringsComeBack, PTL DEF BuffersSpec
=============================================================================
