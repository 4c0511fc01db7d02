--------------------------- MODULE MCWriteBuffer ---------------------------
(* WriteBuffer with one- to three-byte writes, strings of zero and one      *)
(* bytes and ints and longs of a few bits, so that a buffer grows, stops at *)
(* its maximum and wraps around within a handful of calls.                  *)
EXTENDS WriteBuffer

MCByte  == {0, 1}
MCWords == {<<1>>, <<0>>, <<1, 0, 1>>}
MCStrs  == {<<>>, <<1>>}

(* HeapWriteBufferPolicy.resize() copies from the start of its array, also  *)
(* when the buffer was truncated to a later part of it: CutHeap shows what  *)
(* is lost, and SpareHeap leaves the truncation of heap buffers out.        *)
Offsets   == {-1, 0, 1, 2, 5}
SpareHeap == [k \in Kinds |-> IF k = "Heap" THEN {-1, 0} ELSE Offsets]
CutHeap   == [k \in Kinds |-> Offsets]
===========================================================================
