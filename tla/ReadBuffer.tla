----------------------------- MODULE ReadBuffer -----------------------------
(***************************************************************************)
(* ReadBuffer.java with NativeUtil.matches(): a cursor over a segment that *)
(* is not written any more. Index arithmetic is in longs that wrap around, *)
(* and readHeapSegment() narrows a length to an int. A call that copies    *)
(* may run out of memory (OutOfMemoryError), and one that looks at native  *)
(* memory may find its arena closed; where the cursor is by then is what   *)
(* each action says.                                                       *)
(***************************************************************************)
EXTENDS Integers, Sequences

CONSTANTS
  Byte,      \* the bytes told apart, 0 (NUT) among them
  Datas,     \* the contents of the segments read
  Seps,      \* the separators readUntil() is called with
  IntBits,   \* width of an int
  LongBits   \* width of a long

NUT == 0
INT_MAX  == 2^(IntBits - 1) - 1
LONG_MAX == 2^(LongBits - 1) - 1

Wrap(x, bits) ==
  LET half == 2^(bits - 1) IN ((x + half) % (2 * half)) - half

VARIABLES
  segment,    \* the bytes of the segment
  native,     \* whether it is off the heap
  readIndex,
  call,       \* the last call and its argument, for the properties
  result,     \* the bytes it returned; <<>> if none
  ret         \* how it ended: "bytes", "null", "void" or "threw"

vars == <<segment, native, readIndex, call, result, ret>>

size == Len(segment)

TypeOK ==
  /\ segment \in Seq(Byte) /\ native \in BOOLEAN
  /\ readIndex \in Nat
  /\ result \in Seq(Byte)
  /\ ret \in {"bytes", "null", "void", "threw"}
---------------------------------------------------------------------------
Init ==
  /\ segment \in Datas /\ native \in BOOLEAN
  /\ readIndex = 0
  /\ call = <<"new">> /\ result = <<>> /\ ret = "void"

Ends(how, bytes, index) ==
  /\ ret' = how /\ result' = bytes /\ readIndex' = index
  /\ UNCHANGED <<segment, native>>

Throws == Ends("threw", <<>>, readIndex)

Slice(from, to) == SubSeq(segment, from + 1, to)

(* Mutant of SetReadIndex: a bound is not checked.                         *)
NoUpperBound(index) ==
  /\ call' = <<"setReadIndex", index>>
  /\ IF index < 0 THEN Throws ELSE Ends("void", <<>>, index)

(* An index at the very end is refused too, although reading up to it      *)
(* leaves the cursor there.                                                *)
SetReadIndex(index) ==
  /\ call' = <<"setReadIndex", index>>
  /\ IF index < 0 \/ index >= size THEN Throws ELSE Ends("void", <<>>, index)

(* What the comparison with size lets through may still be a negative or a *)
(* wrapped-around count; the access to the segment refuses that.           *)
Advanced(count)  == Wrap(readIndex + count, LongBits)
Sliceable(count) ==
  Advanced(count) <= size /\ count >= 0 /\ readIndex <= size - count

Takes(count) == Ends("bytes", Slice(readIndex, readIndex + count), Advanced(count))

(* Mutant of ReadSegment: moves the cursor before it looks at the bounds.  *)
ReadMovesFirst(count) ==
  /\ call' = <<"readSegment", count>>
  /\ IF Sliceable(count) THEN Takes(count) ELSE Ends("threw", <<>>, Advanced(count))

(* A slice is made without looking at the memory.                          *)
ReadSegment(count) ==
  /\ call' = <<"readSegment", count>>
  /\ IF Sliceable(count) THEN Takes(count) ELSE Throws

(* The copy is made before the cursor moves.                               *)
ReadBytes(count) ==
  /\ call' = <<"readBytes", count>>
  /\ \/ Sliceable(count) /\ Takes(count)
     \/ Throws

(* readByte, readShort, readInt and readLong                               *)
ReadValue(width) ==
  /\ call' = <<"readValue", width>>
  /\ \/ Sliceable(width) /\ Takes(width)
     \/ (Sliceable(width) => native) /\ Throws

(* readHeapSegment(): an off-heap slice is copied to an array, and by then *)
(* the cursor has moved. More bytes than an int counts are never copied.   *)
ReadHeapSegment(count) ==
  /\ call' = <<"readHeapSegment", count>>
  /\ \/ ~Sliceable(count) /\ Throws
     \/ /\ Sliceable(count) /\ (native => Wrap(count, IntBits) = count)
        /\ Takes(count)
     \/ Sliceable(count) /\ native /\ Ends("threw", <<>>, Advanced(count))

(* NativeUtil.matches()                                                    *)
Matches(at, sep) == Slice(at, at + Len(sep)) = sep

(* Mutant of Hits: does not look at the last place the separator fits.     *)
HitsButLast(sep) == {cur \in readIndex .. size - Len(sep) - 1 : Matches(cur, sep)}

Hits(sep) == {cur \in readIndex .. size - Len(sep) : Matches(cur, sep)}

FirstHit(sep) == CHOOSE cur \in Hits(sep) : \A c \in Hits(sep) : cur <= c

(* Where a search can break off, the cursor not moved: matches() refuses   *)
(* to look at the end of the segment, which only an empty separator gets   *)
(* to, the memory may be gone when it is looked at, and the bytes before a *)
(* separator are copied.                                                   *)
BreaksOff(sep) ==
  \/ sep = <<>> /\ readIndex = size
  \/ native /\ readIndex + Len(sep) <= size
  \/ Hits(sep) # {} /\ FirstHit(sep) > readIndex

(* readUntil()                                                             *)
ReadUntil(sep) ==
  /\ call' = <<"readUntil", sep>>
  /\ \/ BreaksOff(sep) /\ Throws
     \/ Hits(sep) = {} /\ Ends("null", <<>>, readIndex)
     \/ /\ Hits(sep) # {} /\ ~(sep = <<>> /\ readIndex = size)
        /\ Ends("bytes", Slice(readIndex, FirstHit(sep)), FirstHit(sep) + Len(sep))

(* Mutant of ReadCStr: leaves the NUT of an empty string where it is.      *)
EmptyStays ==
  LET sep == <<NUT>>
  IN  /\ call' = <<"readCStr">>
      /\ \/ BreaksOff(sep) /\ Throws
         \/ Hits(sep) = {} /\ Ends("null", <<>>, readIndex)
         \/ /\ Hits(sep) # {}
            /\ IF FirstHit(sep) = readIndex
               THEN Ends("null", <<>>, readIndex)
               ELSE \/ Ends("bytes", Slice(readIndex, FirstHit(sep)), FirstHit(sep) + 1)
                    \/ Ends("threw", <<>>, FirstHit(sep) + 1)

(* readCStr(): an empty string is null as well, but it is consumed. Bytes  *)
(* of which no String can be made have been consumed too.                  *)
ReadCStr ==
  LET sep == <<NUT>>
  IN  /\ call' = <<"readCStr">>
      /\ \/ BreaksOff(sep) /\ Throws
         \/ Hits(sep) = {} /\ Ends("null", <<>>, readIndex)
         \/ /\ Hits(sep) # {}
            /\ IF FirstHit(sep) = readIndex
               THEN Ends("null", <<>>, readIndex + 1)
               ELSE \/ Ends("bytes", Slice(readIndex, FirstHit(sep)), FirstHit(sep) + 1)
                    \/ Ends("threw", <<>>, FirstHit(sep) + 1)

Counts == -1 .. LONG_MAX
Widths == {1, 2, 4, 8}

Next ==
  \/ \E index \in Counts : SetReadIndex(index)
  \/ \E width \in Widths : ReadValue(width)
  \/ \E count \in Counts : ReadSegment(count) \/ ReadBytes(count) \/ ReadHeapSegment(count)
  \/ \E sep \in Seps : ReadUntil(sep)
  \/ ReadCStr

Spec == Init /\ [][Next]_vars
---------------------------------------------------------------------------
(* The cursor never leaves the segment, whatever counts the calls ask for. *)
IndexOK == 0 <= readIndex /\ readIndex <= size

Passed == SubSeq(segment, readIndex + 1, readIndex')

(* The cursor passes one C string.                                         *)
PassesCStr ==
  /\ readIndex' > readIndex /\ Passed[Len(Passed)] = NUT
  /\ \A i \in 1 .. Len(Passed) - 1 : Passed[i] # NUT

(* Nothing is skipped, repeated or made up: the cursor passes the bytes a  *)
(* call returns, as many as it was asked for or those up to the separator  *)
(* it was given, and the separator. A call that throws has consumed        *)
(* nothing and can be made again, but for two that fail after the cursor   *)
(* has moved, and lose what they would have returned: the copy of          *)
(* readHeapSegment() off the heap, and the String of readCStr()            *)
(* (ReadBuffer.java:48-144).                                               *)
InOrder ==
  /\ ret' = "bytes" =>
       CASE call'[1] = "readCStr"  -> PassesCStr /\ Passed = Append(result', NUT)
         [] call'[1] = "readUntil" -> Passed = result' \o call'[2]
         [] OTHER                  -> Passed = result' /\ Len(Passed) = call'[2]
  /\ ret' = "null" =>
       \/ readIndex' = readIndex
       \/ call' = <<"readCStr">> /\ Passed = <<NUT>>
  /\ ret' = "void" => call' = <<"setReadIndex", readIndex'>>
  /\ ret' = "threw" =>
       \/ readIndex' = readIndex
       \/ call' = <<"readHeapSegment", readIndex' - readIndex>> /\ native
       \/ call' = <<"readCStr">> /\ PassesCStr

(* Where the separator ends, counted from the cursor.                      *)
SepEnds(sep) ==
  {i \in 1 .. size - readIndex :
     \E j \in 0 .. i : SubSeq(segment, readIndex + j + 1, readIndex + i) = sep}

StopsAtFirst(sep) ==
  /\ ret' = "null" /\ readIndex' = readIndex => SepEnds(sep) = {}
  /\ readIndex' > readIndex => \A i \in SepEnds(sep) : readIndex + i >= readIndex'

(* readUntil() and readCStr() stop at the first separator there is, up to  *)
(* the last place it fits, and say null only if there is none or what is   *)
(* before it is the empty C string.                                        *)
FirstSeparator ==
  [][\A sep \in Seps \cup {<<NUT>>} :
       ReadUntil(sep) \/ (ReadCStr /\ sep = <<NUT>>) => StopsAtFirst(sep)]_vars
===========================================================================
