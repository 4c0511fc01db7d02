------------------------------ MODULE ByteLog ------------------------------
(***************************************************************************)
(* What a WriteBuffer promises whatever its policy: the bytes written so   *)
(* far, in order. Memory, growth and arenas are gone. Of every call the    *)
(* log knows the arguments: a call that returns has had exactly the effect *)
(* asked for, and one that throws has had none. Two things the code does   *)
(* are part of the promise: writeBytes(b, off, len) leaves a gap, and      *)
(* writeCStr() does not put the NUT back that it took before it failed.    *)
(***************************************************************************)
EXTENDS Integers, Sequences

CONSTANTS Byte, Words, Strs, Cuts, Indices

VARIABLES log, call, ret

WithoutLast(s) == SubSeq(s, 1, Len(s) - 1)
EndsInNUT(s)   == s # <<>> /\ s[Len(s)] = 0

LogInit == log = <<>> /\ call = <<"new">> /\ ret = "ok"

Done(new) == ret' = "ok" /\ log' = new
Kept      == ret' = "threw" /\ log' = log

LogWrite(bs) ==
  /\ call' = <<"write", bs>>
  /\ Done(log \o bs) \/ Kept

(* Len(b) - len bytes nobody gave follow the ones that were written.       *)
LogWriteBytes(b, off, len) ==
  /\ call' = <<"writeBytes", b, off, len>>
  /\ \/ /\ off >= 0 /\ len >= 0 /\ off + len <= Len(b)
        /\ \E hole \in [1 .. Len(b) - len -> Byte] :
             Done(log \o SubSeq(b, off + 1, off + len) \o hole)
     \/ Kept

LogCStr(str, rollbackNut) ==
  LET before == IF rollbackNut /\ EndsInNUT(log) THEN WithoutLast(log) ELSE log
  IN  /\ call' = <<"writeCStr", str, rollbackNut>>
      /\ \/ Done(before \o str \o <<0>>)
         \/ ret' = "threw" /\ log' \in {log, before}

LogSet(i, bs) ==
  /\ call' = <<"set", i, bs>>
  /\ \/ /\ i \in 0 .. Len(log) - Len(bs)
        /\ Done([k \in DOMAIN log |-> IF k - i \in DOMAIN bs THEN bs[k - i] ELSE log[k]])
     \/ Kept

LogTruncate(n) ==
  /\ call' = <<"truncate", n>>
  /\ IF n \in 0 .. Len(log) THEN Done(SubSeq(log, n + 1, Len(log))) ELSE Kept

LogClose == call' = <<"close">> /\ (Done(log) \/ Kept)

LogNext ==
  \/ \E bs \in Words : LogWrite(bs)
  \/ \E b \in Words : \E off, len \in -1 .. Len(b) : LogWriteBytes(b, off, len)
  \/ \E str \in Strs, rollbackNut \in BOOLEAN : LogCStr(str, rollbackNut)
  \/ \E i \in Indices, bs \in Words : LogSet(i, bs)
  \/ \E n \in Cuts : LogTruncate(n)
  \/ LogClose

LogSpec == LogInit /\ [][LogNext]_<<log, call, ret>>
===========================================================================
