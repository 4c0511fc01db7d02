----------------------------- MODULE MCBuffers -----------------------------
(* Buffers over the writes of MCWriteBuffer, and over every segment of up   *)
(* to three bytes out of three and some longer ones, up to the most a long  *)
(* counts here, which is past what an int counts.                           *)
EXTENDS MCWriteBuffer, Buffers

MCAllBytes == {0, 1, 2}
MCDatas    == UNION {[1 .. n -> MCAllBytes] : n \in 0 .. 3} \cup
                {<<1, 1, 1, 2>>, <<2, 1, 1, 2>>, <<1, 0, 0, 1>>,
                 <<1, 2, 1, 2, 2, 0, 0>>, <<1, 1, 2, 1, 1, 2, 1>>}
MCSeps     == {<<>>, <<1>>, <<1, 2>>, <<1, 1, 2>>}

(* The two histories of calls are written by every step and read by no     *)
(* action, so states that differ in nothing else are one state to TLC; it  *)
(* still checks each step on the call it is of.                            *)
AllButCalls == <<fields, arena, arenas, ret, phase, data, native, readIndex,
                 result, how, sent, got>>
===========================================================================
