---------------------------- MODULE PollerNodes ----------------------------
(***************************************************************************)
(* SentryPollerNode.java and ProtocolPollerNode.java: the nodes a poller   *)
(* keeps in its IntMap, one for each connection, and what becomes of a     *)
(* node, its map entry and its socket when an event handler fails.         *)
(*                                                                         *)
(* The map is MapSpec, which IntMap implements (MCIntMap). External, and   *)
(* modelled from how the nodes use them: the operating system that hands   *)
(* out sockets, the poller loop that calls the handlers, and the Sentry    *)
(* and Protocol objects, whose handlers may return or throw anything.      *)
(***************************************************************************)
EXTENDS Integers, FiniteSets

CONSTANTS
  Fd,      \* socket numbers
  PNode,   \* PollerNode objects
  Null

ASSUME NullAssumption == Null \notin PNode \cup Fd

(* Constants.java:55-67, and what else a handler may do: return a count of *)
(* received bytes, or throw.                                               *)
NET   == {"NONE", "IGNORED", "UPDATE", "W", "PW", "R", "PR", "RW", "OTHER"}
Codes == NET \cup {"received"}
FrameworkException == "FrameworkException"
RuntimeException   == "RuntimeException"
Outcomes == Codes \cup {FrameworkException, RuntimeException}

VARIABLES
  map,       \* nodeMap: socket -> node
  call, ret, \* the latest call of nodeMap and what it returned
  open,      \* the OS: open socket -> the node it was opened for
  node,      \* node -> its kind, its channel's socket and its callback
  put,       \* the nodes that were put into nodeMap
  closing,   \* where the poller thread is in the close() of a sentry
  doCloses,  \* node -> how often its doClose() was called
  started,   \* node -> how often its callback was started
  escaped    \* what left the last handler as an exception, or Null

vars == <<map, call, ret, open, node, put, closing, doCloses, started, escaped>>

NodeMap == INSTANCE MapSpec WITH Key <- Fd, Value <- PNode

Unused == [kind |-> "unused", fd |-> Null, callback |-> FALSE]
Idle   == <<"idle">>

TypeOK ==
  /\ DOMAIN map \subseteq Fd /\ \A fd \in DOMAIN map : map[fd] \in PNode
  /\ DOMAIN open \subseteq Fd /\ \A fd \in DOMAIN open : open[fd] \in PNode
  /\ node \in [PNode -> {Unused} \cup [kind : {"Sentry", "Protocol"}, fd : Fd,
                                        callback : BOOLEAN]]
  /\ put \subseteq PNode
  /\ closing \in {Idle} \cup ({"doClose", "callback"} \X PNode)
  /\ doCloses \in [PNode -> Nat] /\ started \in [PNode -> Nat]
  /\ escaped \in Outcomes \cup {Null}
---------------------------------------------------------------------------
Init ==
  /\ NodeMap!MapInit
  /\ open = [fd \in {} |-> Null]
  /\ node = [n \in PNode |-> Unused]
  /\ put = {}
  /\ closing = Idle
  /\ doCloses = [n \in PNode |-> 0]
  /\ started = [n \in PNode |-> 0]
  /\ escaped = Null

(* External: another thread opens a connection, on any number that is not  *)
(* in use, also between two steps of the poller.                           *)
Connect(n, fd, kind, callback) ==
  /\ node[n] = Unused /\ fd \notin DOMAIN open
  /\ open' = [f \in DOMAIN open \cup {fd} |-> IF f = fd THEN n ELSE open[f]]
  /\ node' = [node EXCEPT ![n] = [kind |-> kind, fd |-> fd,
                                  callback |-> callback /\ kind = "Sentry"]]
  /\ UNCHANGED <<map, call, ret, put, closing, doCloses, started, escaped>>

(* External: the poller, between two events, puts the node in its map.     *)
Register(n) ==
  /\ closing = Idle
  /\ node[n] # Unused /\ n \notin put
  /\ put' = put \cup {n}
  /\ NodeMap!MapPut(node[n].fd, n)
  /\ UNCHANGED <<open, node, closing, doCloses, started, escaped>>

EndsWith(e) == escaped' = e /\ closing' = Idle /\ UNCHANGED <<map, call, ret>>

(* Mutants of Close: goes on although the entry is not this node's; leaves *)
(* the entry in the map.                                                   *)
CloseAnyway(n) ==
  /\ NodeMap!MapRemove(node[n].fd, n)
  /\ closing' = IF node[n].kind = "Sentry" THEN <<"doClose", n>> ELSE Idle
  /\ escaped' = Null

CloseKeepsEntry(n) ==
  /\ NodeMap!MapGet(node[n].fd)
  /\ closing' = IF ret' = n /\ node[n].kind = "Sentry"
                THEN <<"doClose", n>> ELSE Idle
  /\ escaped' = Null

(* close() of either kind of node: nothing unless the map still holds this *)
(* node for its socket. A sentry goes on to closeSentry().                 *)
Close(n) ==
  /\ NodeMap!MapRemove(node[n].fd, n)
  /\ closing' = IF ret' /\ node[n].kind = "Sentry"
                THEN <<"doClose", n>> ELSE Idle
  /\ escaped' = Null

(* handleEvent() of a sentry is inside the try, but what it throws is not  *)
(* a FrameworkException.                                                   *)
SentryEvent(n, outcome) ==
  CASE outcome = FrameworkException -> Close(n)
    [] outcome \in {"UPDATE", "R", "W", "RW", "IGNORED"} -> EndsWith(Null)
    [] outcome \in Codes \ {"UPDATE", "R", "W", "RW", "IGNORED"} ->
         EndsWith(RuntimeException)
    [] outcome = RuntimeException -> EndsWith(RuntimeException)

(* handleEvent() of a protocol is outside the try: its FrameworkException  *)
(* is not caught and closes nothing.                                       *)
ProtocolEvent(n, outcome) ==
  CASE outcome = FrameworkException -> Close(n)
    [] outcome \in {"R", "W", "RW", "IGNORED", "received"} -> EndsWith(Null)
    [] outcome \in Codes \ {"R", "W", "RW", "IGNORED", "received"} ->
         EndsWith(FrameworkException)
    [] outcome = RuntimeException -> EndsWith(RuntimeException)

(* onReadableEvent() and onWritableEvent() of any node the poller still    *)
(* has a reference to, in its map or not: events of one wait are handled   *)
(* one after the other, and an earlier one may have closed a later one's   *)
(* node.                                                                   *)
OnEvent(n, outcome) ==
  /\ closing = Idle /\ n \in put
  /\ IF node[n].kind = "Sentry" THEN SentryEvent(n, outcome)
                                ELSE ProtocolEvent(n, outcome)
  /\ UNCHANGED <<open, node, put, doCloses, started>>

(* Mutant of DoClose: its exception skips the callback.                    *)
DoCloseSkips(n) ==
  /\ closing = <<"doClose", n>>
  /\ doCloses' = [doCloses EXCEPT ![n] = @ + 1]
  /\ \/ /\ open' = [fd \in DOMAIN open \ {node[n].fd} |-> open[fd]]
        /\ closing' = <<"callback", n>>
     \/ open' = open /\ closing' = Idle
  /\ UNCHANGED <<map, call, ret, node, put, started, escaped>>

(* closeSentry(): sentry.doClose() closes the socket by its number, or     *)
(* throws before or after it did; either way the callback is next.         *)
DoClose(n) ==
  /\ closing = <<"doClose", n>>
  /\ doCloses' = [doCloses EXCEPT ![n] = @ + 1]
  /\ \/ open' = [fd \in DOMAIN open \ {node[n].fd} |-> open[fd]]
     \/ open' = open
  /\ closing' = <<"callback", n>>
  /\ UNCHANGED <<map, call, ret, node, put, started, escaped>>

(* Mutant of StartCallback: forgets to start the thread.                   *)
CallbackNotStarted(n) ==
  /\ closing = <<"callback", n>>
  /\ closing' = Idle
  /\ UNCHANGED <<map, call, ret, open, node, put, doCloses, started, escaped>>

StartCallback(n) ==
  /\ closing = <<"callback", n>>
  /\ started' = IF node[n].callback THEN [started EXCEPT ![n] = @ + 1] ELSE started
  /\ closing' = Idle
  /\ UNCHANGED <<map, call, ret, open, node, put, doCloses, escaped>>

Next ==
  \E n \in PNode :
    \/ \E fd \in Fd, kind \in {"Sentry", "Protocol"}, callback \in BOOLEAN :
         Connect(n, fd, kind, callback)
    \/ Register(n)
    \/ \E outcome \in Outcomes : OnEvent(n, outcome)
    \/ DoClose(n) \/ StartCallback(n)

(* A close() that has begun is finished by the poller thread.              *)
Fairness == \A n \in PNode : WF_vars(DoClose(n)) /\ WF_vars(StartCallback(n))

Spec == Init /\ [][Next]_vars /\ Fairness
---------------------------------------------------------------------------
(* An entry of the map is for a socket that is open and is that node's:    *)
(* a late event of a node that was closed, on a number that was given out  *)
(* again, takes neither the entry nor the socket from its new owner.       *)
EntryOwnsSocket ==
  /\ TypeOK
  /\ \A fd \in DOMAIN map : /\ fd \in DOMAIN open /\ open[fd] = map[fd]
                            /\ node[map[fd]].fd = fd

InClose(n) == closing \in {<<"doClose", n>>, <<"callback", n>>}

(* A socket that is about to be put is not in the map: what IntMap.java:16 *)
(* leaves to its caller, and what MapPut and IntMap's FreshKey rely on.    *)
PutIsFresh ==
  \A n \in PNode \ put : node[n] # Unused => node[n].fd \notin DOMAIN map

(* A sentry is in the map, or being closed, or was closed exactly once and *)
(* its callback, if it has one, started exactly once, whether or not       *)
(* doClose() threw and however many more of its events failed.             *)
ClosedOnce ==
  \A n \in put : node[n].kind = "Sentry" =>
    LET inMap == \E fd \in DOMAIN map : map[fd] = n
        left  == ~inMap /\ ~InClose(n)
    IN  /\ inMap => ~InClose(n)
        /\ doCloses[n] = IF left \/ closing = <<"callback", n>> THEN 1 ELSE 0
        /\ started[n] = IF left /\ node[n].callback THEN 1 ELSE 0

(* A sentry with a callback that fails with a FrameworkException while it  *)
(* is in the map gets its callback started.                                *)
CallbackComes ==
  \A n \in PNode :
    InClose(n) /\ node[n].callback ~> started[n] = 1
===========================================================================
