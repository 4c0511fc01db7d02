------------------------------ MODULE Buffers ------------------------------
(***************************************************************************)
(* A WriteBuffer whose content() is read back through a ReadBuffer, the    *)
(* way two ends of a connection use the two classes. The writer is left    *)
(* alone from then on. What was written is handed over when it is C        *)
(* strings, and read back as such; any other reader starts on a segment    *)
(* that came from elsewhere, and calls what it likes.                      *)
(***************************************************************************)
EXTENDS WriteBuffer, SequencesExt

CONSTANTS
  Datas,     \* segments from elsewhere
  Seps       \* the separators readUntil() is called with

VARIABLES
  phase,     \* "write" or "read"
  data, native, readIndex, readCall, result, how,   \* those of ReadBuffer
  sent,      \* the strings written; Null once something else was
  got        \* the strings read back, Null for one readCStr() could not make;
             \* or Null if the segment is from elsewhere

reader  == <<data, native, readIndex, readCall, result, how>>
allVars == <<vars, phase, reader, sent, got>>

Reader == INSTANCE ReadBuffer WITH segment <- data, call <- readCall, ret <- how

ASSUME DataAssumption == /\ \A d \in Datas : d \in Seq(Byte) /\ Len(d) <= LONG_MAX
                         /\ Seps \subseteq Seq(Byte)

BuffersInit ==
  /\ Init /\ Reader!Init
  /\ \/ phase = "write" /\ data = <<>> /\ native = FALSE /\ sent = <<>>
     \/ phase = "read" /\ content = <<>> /\ kind = "Heap" /\ sent = Null
  /\ got = Null

(* writeCStr() that leaves the NUT before it alone, or any other call.     *)
Writes ==
  /\ phase = "write"
  /\ \/ \E str \in Strs :
          /\ WriteCStr(str, FALSE)
          /\ sent' = IF ret' = "ok" /\ sent # Null THEN Append(sent, str) ELSE sent
     \/ Next /\ sent' = IF content' = content THEN sent ELSE Null
  /\ UNCHANGED <<phase, reader, got>>

(* content(), and a new ReadBuffer on what it returns.                     *)
HandOver ==
  /\ phase = "write" /\ Alive(segment) /\ sent # Null
  /\ phase' = "read"
  /\ data' = content /\ native' = (segment.owner # HEAP)
  /\ readIndex' = 0 /\ readCall' = <<"new">> /\ result' = <<>> /\ how' = "void"
  /\ got' = <<>>
  /\ UNCHANGED <<vars, sent>>

Reads ==
  /\ phase = "read"
  /\ IF got = Null
     THEN Reader!Next /\ UNCHANGED got
     ELSE /\ Reader!ReadCStr
          /\ got' = IF readIndex' = readIndex THEN got
                    ELSE Append(got, IF how' = "threw" THEN Null ELSE result')
  /\ UNCHANGED <<vars, phase, sent>>

BuffersNext == Writes \/ HandOver \/ Reads

BuffersSpec == BuffersInit /\ [][BuffersNext]_allVars
---------------------------------------------------------------------------
(* The index of the writer and the one of the reader stay inside their     *)
(* memory whatever wraps around, fails half way or is taken back.          *)
IndicesOK == TypeOK /\ IndexOK /\ Reader!TypeOK /\ Reader!IndexOK

(* See InOrder of ReadBuffer: no read skips, repeats or makes up a byte,   *)
(* and those that throw lose none but for the two that fail after the      *)
(* cursor has moved. Only a new reader starts somewhere else.              *)
ReadsInOrder == [][HandOver \/ Reader!InOrder]_(Reader!vars)

(* See ReadBuffer: readUntil() stops at the first separator there is.      *)
FirstSeparator == Reader!FirstSeparator

(* Strings written by writeCStr() come back from readCStr(), each in its   *)
(* turn, across growth and failed calls. The one a readCStr() was at when  *)
(* no String could be made is skipped, and no other; an empty one comes    *)
(* back as null like the end of the data does, but it is passed over       *)
(* (WriteBuffer.java:137-156, ReadBuffer.java:128-145).                    *)
RoundTrip ==
  got # Null =>
    /\ Len(got) <= Len(sent)
    /\ \A i \in DOMAIN got : got[i] = sent[i] \/ (got[i] = Null /\ sent[i] # <<>>)
    /\ readIndex = Len(data) => Len(got) = Len(sent)
    /\ how = "null" => readIndex = Len(data) \/ (got # <<>> /\ Last(got) = <<>>)
===========================================================================
