---------------------------- MODULE WriteBuffer ----------------------------
(***************************************************************************)
(* WriteBuffer.java and its four WriteBufferPolicy classes: one buffer as  *)
(* its user sees it from a factory method to the last close(), with the    *)
(* memory it lies in and the arenas that own the memory.                   *)
(*                                                                         *)
(* truncate() makes a new WriteBuffer over the same memory and policy; the *)
(* user goes on with the new one, and of the old one only close() is ever  *)
(* called again. So one set of fields is enough: the old buffer has none   *)
(* that close() reads.                                                     *)
(***************************************************************************)
EXTENDS Integers, Sequences

CONSTANTS
  Byte,      \* the bytes told apart, 0 (NUT) among them
  Words,     \* the byte strings one write call puts down
  Strs,      \* the byte strings of Java strings, without a NUT
  Kinds,     \* the policies in use
  Sizes,     \* the initial sizes
  Cuts,      \* for each policy, the offsets truncate() is called with
  IntBits,   \* width of an int
  LongBits,  \* width of a long
  Null

NUT == 0

ASSUME ByteAssumption == NUT \in Byte /\ Null \notin Byte
ASSUME StrAssumption  == Strs \subseteq Seq(Byte \ {NUT})
ASSUME KindAssumption == Kinds \subseteq {"Heap", "Fixed", "Default", "Reserved"}
ASSUME CutAssumption  == Cuts \in [Kinds -> SUBSET Int]
ASSUME BitsAssumption == /\ IntBits \in Nat \ {0, 1} /\ LongBits \in Nat
                         /\ LongBits >= IntBits
                         /\ \A n \in Sizes : n \in 0 .. 2^(IntBits-1) - 1
(* Of powers of two the proofs know nothing but this.                      *)
ASSUME PowerAssumption == /\ 2^(IntBits-1) \in Nat \ {0}
                          /\ 2^(LongBits-1) \in Nat \ {0}
                          /\ 2^(IntBits-1) <= 2^(LongBits-1)

INT_MAX  == 2^(IntBits - 1) - 1
LONG_MAX == 2^(LongBits - 1) - 1

Indices == -1 .. LONG_MAX    \* the ones setX() is called with

(* The length of an array is an int, the one of a segment a long.          *)
ASSUME WordAssumption == /\ Words \subseteq Seq(Byte) /\ <<>> \notin Words
                         /\ \A bs \in Words : Len(bs) <= LONG_MAX

(* Two's complement: the value of the low `bits` bits of x.                *)
Wrap(x, bits) ==
  LET half == 2^(bits - 1) IN ((x + half) % (2 * half)) - half

VARIABLES
  kind,        \* the class of the policy
  segment,     \* the MemorySegment: a slice of a block owned by an arena
  size,
  writeIndex,
  arena,       \* the policy's arena, Null if it has none (yet)
  arenas,      \* arena -> "open" or "closed", for the arenas made so far
  call,        \* the last call and its arguments, for the log to know
  ret          \* whether it returned or threw

fields == <<kind, segment, size, writeIndex>>
vars   == <<fields, arena, arenas, call, ret>>

HEAP  == "heap"    \* the garbage collector's: never closed
USER  == "user"    \* the arena of the memory the user passed or asked for
GROWN == "grown"   \* the arena of a ReservedWriteBufferPolicy

Arena == {USER, GROWN}

ASSUME OwnerAssumption == Null \notin Arena

MemorySegment ==
  [block : Seq(Byte), base : Nat, len : Nat, owner : Arena \cup {HEAP}]

TypeOK ==
  /\ kind \in Kinds
  /\ segment \in MemorySegment
  /\ size \in Int /\ writeIndex \in Int
  /\ arena \in Arena \cup {Null}
  /\ DOMAIN arenas \subseteq Arena
  /\ \A a \in DOMAIN arenas : arenas[a] \in {"open", "closed"}
  /\ ret \in {"ok", "threw"}
---------------------------------------------------------------------------
Open(a)    == a \in DOMAIN arenas /\ arenas[a] = "open"
Alive(seg) == seg.owner = HEAP \/ Open(seg.owner)

Zeros(n) == [i \in 1 .. n |-> 0]

(* Memory fresh from an allocation: `init` and then zeros, n bytes long.   *)
Fresh(init, n, owner) ==
  [block |-> init \o Zeros(n - Len(init)), base |-> 0, len |-> n,
   owner |-> owner]

(* NativeUtil.setX and MemorySegment.copy into seg, in bounds and alive.   *)
Holds(seg, i, n) == i >= 0 /\ i + n <= seg.len
Store(seg, i, bs) ==
  [seg EXCEPT !.block =
     [k \in DOMAIN @ |->
        IF k - seg.base - i \in DOMAIN bs THEN bs[k - seg.base - i] ELSE @[k]]]

Bytes(seg, n) == SubSeq(seg.block, seg.base + 1, seg.base + n)

Larger(a, b) == IF a > b THEN a ELSE b

(* What content() returns.                                                 *)
content == Bytes(segment, IF writeIndex = size THEN segment.len ELSE writeIndex)
---------------------------------------------------------------------------
(* policy.resize(): the segments it may leave the buffer with, none if it  *)
(* throws for certain. w is the writeIndex the policy sees.                *)
HeapResize(next, w) ==
  LET newLen == Larger(next, Wrap(2 * Len(segment.block), IntBits))
  IN  IF next > INT_MAX \/ newLen < 0 THEN {}
      ELSE {Fresh(SubSeq(segment.block, 1, w), newLen, HEAP)}

FixedResize(next, w) == {}

DefaultResize(next, w) ==
  LET newLen == Larger(next, Wrap(2 * size, LongBits))
  IN  IF newLen < 0 \/ ~Open(arena) \/ ~Alive(segment) THEN {}
      ELSE {Fresh(Bytes(segment, w), newLen, arena)}

ReservedResize(next, w) ==
  LET newLen == Larger(next, Wrap(2 * size, LongBits))
  IN  IF newLen < 0 \/ ~(arena = Null \/ Open(arena)) \/ ~Alive(segment) THEN {}
      ELSE {Fresh(Bytes(segment, w), newLen, GROWN)}

PolicyResize(next, w) ==
  CASE kind = "Heap"     -> HeapResize(next, w)
    [] kind = "Fixed"    -> FixedResize(next, w)
    [] kind = "Default"  -> DefaultResize(next, w)
    [] kind = "Reserved" -> ReservedResize(next, w)

(* resize(): the segments a write may go on with.                          *)
Resized(next, w) ==
  IF next < 0 THEN {} ELSE IF next > size THEN PolicyResize(next, w) ELSE {segment}

(* Mutant of EnsureArena: the policy forgets the arena it makes.           *)
ArenaForgotten(next) ==
  IF kind = "Reserved" /\ next > size /\ arena = Null
  THEN arena' = arena /\ arenas' = [a \in DOMAIN arenas \cup {GROWN} |->
                                      IF a = GROWN THEN "open" ELSE arenas[a]]
  ELSE UNCHANGED <<arena, arenas>>

(* A ReservedWriteBufferPolicy makes its arena the first time it is asked  *)
(* for more memory, before the allocation that may fail.                   *)
EnsureArena(next) ==
  IF kind = "Reserved" /\ next > size /\ arena = Null
  THEN arena' = GROWN /\ arenas' = [a \in DOMAIN arenas \cup {GROWN} |->
                                      IF a = GROWN THEN "open" ELSE arenas[a]]
  ELSE UNCHANGED <<arena, arenas>>

Returns(seg, w) ==
  /\ segment' = seg /\ size' = seg.len /\ writeIndex' = w /\ ret' = "ok"
  /\ UNCHANGED kind

(* A call that throws after resize(): the larger memory stays.             *)
Throws(seg, w) ==
  /\ segment' = seg /\ size' = seg.len /\ writeIndex' = w /\ ret' = "threw"
  /\ UNCHANGED kind

Refused == ret' = "threw" /\ UNCHANGED <<fields, arena, arenas>>

(* Mutant of WriteAt: a write that made room still goes to the old memory. *)
WritesOld(w, bs, next) ==
  /\ EnsureArena(next)
  /\ \/ \E seg \in Resized(next, w) :
          IF Holds(seg, w, Len(bs)) /\ (seg # segment \/ Alive(seg))
          THEN Returns(IF seg = segment THEN Store(seg, w, bs) ELSE seg, next)
          ELSE Throws(seg, w)
     \/ /\ Resized(next, w) = {} \/ next > size
        /\ Throws(segment, w)

(* Every write: make room up to next, put bs down at w, move to next. Any  *)
(* allocation may fail (OutOfMemoryError).                                 *)
WriteAt(w, bs, next) ==
  /\ EnsureArena(next)
  /\ \/ \E seg \in Resized(next, w) :
          IF Holds(seg, w, Len(bs)) /\ (seg # segment \/ Alive(seg))
          THEN Returns(Store(seg, w, bs), next)
          ELSE Throws(seg, w)
     \/ /\ Resized(next, w) = {} \/ next > size
        /\ Throws(segment, w)
---------------------------------------------------------------------------
Init ==
  /\ kind \in Kinds
  /\ \E n \in Sizes :
       segment = Fresh(<<>>, n, IF kind = "Heap" THEN HEAP ELSE USER)
  /\ size = segment.len
  /\ writeIndex = 0
  /\ arena = IF kind \in {"Fixed", "Default"} THEN USER ELSE Null
  /\ arenas = [a \in (IF kind = "Heap" THEN {} ELSE {USER}) |-> "open"]
  /\ call = <<"new">> /\ ret = "ok"

(* writeByte, writeShort, writeInt, writeLong, writeBytes(byte...) and     *)
(* writeSegment differ in how many bytes they write.                       *)
Write(bs) ==
  /\ call' = <<"write", bs>>
  /\ WriteAt(writeIndex, bs, Wrap(writeIndex + Len(bs), LongBits))

(* writeBytes(b, off, len) writes len bytes of b but moves on by all of    *)
(* b.length; a slice that does not lie in b throws after the resize.       *)
WriteBytes(b, off, len) ==
  LET next == Wrap(writeIndex + Len(b), LongBits)
  IN  /\ call' = <<"writeBytes", b, off, len>>
      /\ IF off >= 0 /\ len >= 0 /\ off + len <= Len(b)
         THEN WriteAt(writeIndex, SubSeq(b, off + 1, off + len), next)
         ELSE /\ EnsureArena(next)
              /\ \E seg \in Resized(next, writeIndex) \cup {segment} :
                   Throws(seg, writeIndex)

(* writeCStr(): with rollbackNut it takes the NUT before writeIndex back   *)
(* before it gets the bytes of the string and makes room, and does not put *)
(* it back if one of the two fails.                                        *)
WriteCStr(str, rollbackNut) ==
  LET back == rollbackNut /\ writeIndex > 0
      w    == IF back /\ Bytes(segment, writeIndex)[writeIndex] = NUT
              THEN writeIndex - 1 ELSE writeIndex
  IN  /\ call' = <<"writeCStr", str, rollbackNut>>
      /\ IF back /\ ~Alive(segment)
         THEN Refused
         ELSE \/ WriteAt(w, Append(str, NUT), Wrap(w + Len(str) + 1, LongBits))
              \/ Throws(segment, w) /\ UNCHANGED <<arena, arenas>>

(* setByte, setInt and setLong overwrite what was written.                 *)
Set(index, bs) ==
  /\ call' = <<"set", index, bs>>
  /\ IF \/ Wrap(index + Len(bs), LongBits) > writeIndex
        \/ ~Holds(segment, index, Len(bs)) \/ ~Alive(segment)
     THEN Refused
     ELSE Returns(Store(segment, index, bs), writeIndex) /\ UNCHANGED <<arena, arenas>>

Truncate(offset) ==
  /\ call' = <<"truncate", offset>>
  /\ IF offset > writeIndex \/ offset < 0
     THEN Refused
     ELSE /\ Returns([segment EXCEPT !.base = @ + offset, !.len = size - offset],
                     writeIndex - offset)
          /\ UNCHANGED <<arena, arenas>>

(* close() of the buffer or of one it was truncated from.                  *)
Close ==
  /\ call' = <<"close">>
  /\ IF arena = Null
     THEN ret' = "ok" /\ UNCHANGED <<fields, arena, arenas>>
     ELSE IF Open(arena)
     THEN arenas' = [arenas EXCEPT ![arena] = "closed"] /\ ret' = "ok"
          /\ UNCHANGED <<fields, arena>>
     ELSE Refused

(* The user closes the arena of the memory they handed over: the arena     *)
(* given to the factory, or the one of a reserved segment.                 *)
UserCloses ==
  /\ Open(USER)
  /\ arenas' = [arenas EXCEPT ![USER] = "closed"]
  /\ call' = <<"close">> /\ ret' = "ok"
  /\ UNCHANGED <<fields, arena>>

Next ==
  \/ \E bs \in Words : Write(bs)
  \/ \E b \in Words : \E off, len \in -1 .. Len(b) : WriteBytes(b, off, len)
  \/ \E str \in Strs, rollbackNut \in BOOLEAN : WriteCStr(str, rollbackNut)
  \/ \E index \in Indices, bs \in Words : Set(index, bs)
  \/ \E offset \in Cuts[kind] : Truncate(offset)
  \/ Close
  \/ UserCloses

Spec == Init /\ [][Next]_vars
---------------------------------------------------------------------------
(* However the calls wrap around, fail half way or roll back, the index    *)
(* stays inside the memory: no write reaches outside the segment.          *)
IndexOK ==
  /\ 0 <= writeIndex /\ writeIndex <= size
  /\ size = segment.len
  /\ segment.base + segment.len <= Len(segment.block)

(* Every open arena has somebody who can still close it, the user or the   *)
(* policy, and the policy never holds the arena of a reserved segment      *)
(* (WriteBuffer.java:259-262 and 283-290).                                 *)
ArenasOwned ==
  /\ \A a \in Arena : Open(a) => a \in {USER, arena}
  /\ kind = "Reserved" => arena # USER

Log == INSTANCE ByteLog WITH log <- content, Cuts <- UNION {Cuts[k] : k \in Kinds}

(* A WriteBuffer is an append-only log whatever its policy does to the     *)
(* memory: a call that returns has put down, overwritten or cut off what   *)
(* its arguments say, nothing else has changed, and a call that throws has *)
(* changed nothing, but for the NUT writeCStr(str, true) may have taken    *)
(* back (WriteBuffer.java:85-199).                                         *)
BehavesAsLog == Log!LogSpec
===========================================================================
