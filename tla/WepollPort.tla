----------------------------- MODULE WepollPort -----------------------------
(***************************************************************************)
(* c/wepoll.c, one epoll port: the sockets registered with it, the AFD     *)
(* poll request each has in the kernel, the queues of sockets to update    *)
(* and to free, the poll groups, and the threads in epoll_wait().          *)
(*                                                                         *)
(* Everything but GetQueuedCompletionStatusEx() runs in the port's         *)
(* critical section, one step per section. The port is a record and each   *)
(* function of the source that changes it an operator from port to port.   *)
(* External: the AFD driver, which completes and cancels polls, and what   *)
(* the program does with its sockets.                                      *)
(***************************************************************************)
EXTENDS Integers, FiniteSets, SequencesExt

CONSTANTS
  Sock,       \* SOCKET values; a closed one may be opened again
  Obj,        \* memory for sock_state objects
  Thread,     \* threads calling epoll_wait()
  Masks,      \* sets of epoll events asked for with epoll_ctl()
  Conditions, \* AFD events that become and cease to be true of a socket
  GroupSize,  \* POLL_GROUP__MAX_GROUP_SIZE
  MaxEvents,  \* maxevents of epoll_wait()
  MaxCtls,    \* bounds the calls of epoll_ctl()
  MaxErrors,  \* bounds the calls Windows fails for no reason of the program
  None        \* no object

ASSUME SizesAssumption ==
  /\ GroupSize \in Nat \ {0} /\ MaxEvents \in Nat \ {0}
  /\ MaxCtls \in Nat /\ MaxErrors \in Nat

ASSUME FiniteAssumption == IsFiniteSet(Obj) /\ IsFiniteSet(Thread)

VARIABLES
  port,    \* port_state, its sock_states and their polls
  cond,    \* socket -> the AFD events true of it, or Closed
  pc,      \* thread -> "out", "blocked" (in the kernel) or "feeding"
  batch,   \* thread -> the completions it has dequeued
  got,     \* what the latest step reported: sockets with their events
  ctls,    \* calls of epoll_ctl() so far
  errors,  \* unprovoked failures so far
  gone     \* whether port_delete() has run

vars == <<port, cond, pc, batch, got, ctls, errors, gone>>
---------------------------------------------------------------------------
(* A sock_state as sock_new() leaves it.                                   *)
NewSock(s, g) ==
  [sock |-> s, user |-> {}, once |-> FALSE, pending |-> {}, poll |-> "IDLE",
   deleting |-> FALSE, group |-> g, status |-> "SUCCESS", info |-> {}]

(* The AFD events sock__epoll_events_to_afd_events() asks for.             *)
AsksFor == [
  RECEIVE           |-> {"IN", "RDNORM"},
  ACCEPT            |-> {"IN", "RDNORM"},
  RECEIVE_EXPEDITED |-> {"PRI", "RDBAND"},
  SEND              |-> {"OUT", "WRNORM", "WRBAND"},
  DISCONNECT        |-> {"IN", "RDNORM", "RDHUP"},
  ABORT             |-> {"HUP"},
  CONNECT_FAIL      |-> {"ERR"}]

(* Mutant of AfdEvents: asks for an AFD event only if all of the epoll     *)
(* events it stands for are in the mask.                                   *)
AfdEventsIfAll(events) ==
  {"LOCAL_CLOSE"} \cup {a \in DOMAIN AsksFor : AsksFor[a] \subseteq events}

AfdEvents(events) ==
  {"LOCAL_CLOSE"} \cup {a \in DOMAIN AsksFor : AsksFor[a] \cap events # {}}

(* sock__afd_events_to_epoll_events(): a failed connect reports more.      *)
ReportsAs ==
  [a \in DOMAIN AsksFor |->
     IF a = "CONNECT_FAIL" THEN {"IN", "OUT", "ERR", "RDNORM", "WRNORM", "RDHUP"}
                           ELSE AsksFor[a]]

EpollEvents(afd) == UNION {ReportsAs[a] : a \in afd \ {"LOCAL_CLOSE"}}

Closed == {"LOCAL_CLOSE"}
Always == {"ERR", "HUP"}

Events == (UNION {ReportsAs[a] : a \in DOMAIN ReportsAs}) \cup {"MSG"}
Afd    == DOMAIN AsksFor \cup Closed

SockState ==
  [sock : Sock, user : SUBSET Events, once : BOOLEAN, pending : SUBSET Events,
   poll : {"IDLE", "PENDING", "CANCELLED"}, deleting : BOOLEAN, group : Nat,
   status : {"SUCCESS", "PENDING", "CANCELLED", "FAILED"}, info : SUBSET Afd]

ASSUME MasksAssumption == \A mask \in Masks : mask \subseteq Events
ASSUME NoneAssumption  == None \notin Obj \cup SockState

Registered(P) == {s \in Sock : P.tree[s] # None}
Allocated(P)  == {o \in Obj : P.socks[o] # None}
Deleting(P)   == {o \in Allocated(P) : P.socks[o].deleting}
Live(P)       == Allocated(P) \ Deleting(P)
Members(q)   == {q[i] : i \in DOMAIN q}
Least(a, b)  == IF a < b THEN a ELSE b
Each(Op(_, _), x, q) ==
  LET after[n \in 0 .. Len(q)] == IF n = 0 THEN x ELSE Op(after[n - 1], q[n])
  IN  after[Len(q)]
---------------------------------------------------------------------------
(* The queue node of a sock_state is in the update queue, in the deleted   *)
(* queue, or in none.                                                      *)
Enqueued(P, o) == o \in Members(P.updq) \cup Members(P.delq)

RequestUpdate(P, o) ==
  IF Enqueued(P, o) THEN P ELSE [P EXCEPT !.updq = Append(@, o)]

AddDeleted(P, o) ==
  IF Enqueued(P, o) THEN P ELSE [P EXCEPT !.delq = Append(@, o)]

(* queue_remove(), from the one place where the node is.                   *)
Without(q, o) ==
  LET i == CHOOSE j \in DOMAIN q : q[j] = o
  IN  IF o \in Members(q)
      THEN [j \in 1 .. Len(q) - 1 |-> q[IF j < i THEN j ELSE j + 1]] ELSE q

Dequeued(P, o) == [P EXCEPT !.updq = Without(@, o), !.delq = Without(@, o)]

(* poll_group_acquire(): the last group, or a new one when that is full.   *)
NeedsGroup(P) == ~(P.groups # <<>> /\ P.size[Last(P.groups)] < GroupSize)

NextGroup(P) == IF NeedsGroup(P) THEN Len(P.groups) + 1 ELSE Last(P.groups)

Acquire(P) ==
  LET g == NextGroup(P)
      others == Without(P.groups, g)
      n == IF NeedsGroup(P) THEN 1 ELSE P.size[g] + 1
  IN  [P EXCEPT !.size = IF NeedsGroup(P) THEN Append(@, n) ELSE [@ EXCEPT ![g] = n],
                !.groups = IF n = GroupSize THEN <<g>> \o others ELSE Append(others, g)]

(* Mutant of Release: a group that has room again stays where it is.       *)
ReleaseInPlace(P, g) == [P EXCEPT !.size[g] = @ - 1]

Release(P, g) ==
  [P EXCEPT !.size[g] = @ - 1, !.groups = Append(Without(@, g), g)]

(* sock__cancel_poll(), when it succeeds. A request that has completed     *)
(* already is left alone.                                                  *)
CancelPoll(P, o) ==
  [P EXCEPT !.socks[o] = [@ EXCEPT !.poll = "CANCELLED", !.pending = {}],
            !.cancels = IF P.socks[o].status = "PENDING" THEN @ \cup {o} ELSE @]

(* Mutant of Unregister: the socket stays in the update queue.             *)
UnregisterQueued(P, o, cancel) ==
  LET Q == IF P.socks[o].poll = "PENDING" /\ cancel THEN CancelPoll(P, o) ELSE P
  IN  [Q EXCEPT !.tree[P.socks[o].sock] = None,
                !.socks[o] = [@ EXCEPT !.deleting = TRUE]]

(* sock__delete(); `cancel` is whether its sock__cancel_poll() succeeds.   *)
Unregister(P, o, cancel) ==
  LET Q == IF P.socks[o].poll = "PENDING" /\ cancel THEN CancelPoll(P, o) ELSE P
  IN  [Dequeued(Q, o) EXCEPT !.tree[P.socks[o].sock] = None,
                             !.socks[o] = [@ EXCEPT !.deleting = TRUE]]

(* Mutant of Free: the poll group is not released.                         *)
FreeGrouped(P, o) ==
  [Dequeued(P, o) EXCEPT !.socks[o] = None, !.cancels = @ \ {o}]

Free(P, o) ==
  LET Q == Release(Dequeued(P, o), P.socks[o].group)
  IN  [Q EXCEPT !.socks[o] = None, !.cancels = @ \ {o}]

(* Mutant of Delete: frees a socket whose poll is still out.               *)
DeleteAtOnce(P, o, force, cancel) ==
  Free(IF P.socks[o].deleting THEN P ELSE Unregister(P, o, cancel), o)

Delete(P, o, force, cancel) ==
  LET Q == IF P.socks[o].deleting THEN P ELSE Unregister(P, o, cancel)
  IN  IF force \/ Q.socks[o].poll = "IDLE" THEN Free(Q, o) ELSE AddDeleted(Q, o)

(* sock_set_event()                                                        *)
SetEvent(P, o, mask, once) ==
  LET events == mask \cup Always
      Q == [P EXCEPT !.socks[o] = [@ EXCEPT !.user = events, !.once = once]]
  IN  IF events \ P.socks[o].pending = {} THEN Q ELSE RequestUpdate(Q, o)

(* sock_update(), when no call of it fails: a socket that was closed is    *)
(* dropped, a poll that watches too little is cancelled.                   *)
Submit(P, o) ==
  [P EXCEPT !.socks[o] =
     [@ EXCEPT !.poll = "PENDING", !.pending = P.socks[o].user,
               !.status = "PENDING", !.info = AfdEvents(P.socks[o].user)]]

Watched(P, o) == P.socks[o].user \subseteq P.socks[o].pending

Update(P, o) ==
  CASE P.socks[o].poll = "IDLE" /\ cond[P.socks[o].sock] = Closed -> Delete(P, o, FALSE, TRUE)
    [] P.socks[o].poll = "IDLE" /\ cond[P.socks[o].sock] # Closed -> Dequeued(Submit(P, o), o)
    [] P.socks[o].poll = "PENDING" /\ ~Watched(P, o) -> Dequeued(CancelPoll(P, o), o)
    [] OTHER -> Dequeued(P, o)

UpdateCanFail(P, o) ==
  \/ P.socks[o].poll = "IDLE" /\ cond[P.socks[o].sock] # Closed
  \/ P.socks[o].poll = "PENDING" /\ ~Watched(P, o) /\ P.socks[o].status = "PENDING"

(* port__update_events(): how many sockets of the queue it updates, all or *)
(* up to the first whose update fails; that one stays in the queue with    *)
(* those behind it.                                                        *)
UpdateTo(P, n) == Each(Update, P, SubSeq(P.updq, 1, n))

Updates(P) ==
  {Len(P.updq)} \cup
  {i - 1 : i \in {j \in DOMAIN P.updq : UpdateCanFail(UpdateTo(P, j - 1), P.updq[j])}}

Failures(P, n) == IF n < Len(P.updq) THEN 1 ELSE 0

(* port__update_events_if_polling(), which has no result: Q is what it can *)
(* make of P when it drops that many errors.                               *)
UpdatesIfPolling(P, Q, fails) ==
  IF P.active > 0
  THEN \E n \in Updates(P) : Q = UpdateTo(P, n) /\ fails = Failures(P, n)
  ELSE Q = P /\ fails = 0

(* sock_feed_event(): what a completed poll changes, and reports.          *)
Reported(S) ==
  (CASE S.status = "CANCELLED" -> {}
     [] S.status = "FAILED"    -> {"ERR"}
     [] OTHER                  -> EpollEvents(S.info)) \cap S.user

(* Mutants of Feed: does not look whether the socket was deleted; does not *)
(* queue the socket for the next poll.                                     *)
FeedDeleted(A, o) ==
  LET P == [A.port EXCEPT !.socks[o] = [@ EXCEPT !.poll = "IDLE", !.pending = {}]]
      S == P.socks[o]
  IN  IF Reported(S) = {} THEN [A EXCEPT !.port = P]
      ELSE [port |-> P,
            got |-> A.got \cup {[sock |-> S.sock, events |-> Reported(S)]}]

FeedOnce(A, o) ==
  LET P == [A.port EXCEPT !.socks[o] = [@ EXCEPT !.poll = "IDLE", !.pending = {}]]
      S == P.socks[o]
  IN  IF S.deleting \/ "LOCAL_CLOSE" \in S.info
      THEN [A EXCEPT !.port = Delete(P, o, FALSE, TRUE)]
      ELSE [port |-> P,
            got |-> A.got \cup {[sock |-> S.sock, events |-> Reported(S)]}]

Feed(A, o) ==
  LET P == [A.port EXCEPT !.socks[o] = [@ EXCEPT !.poll = "IDLE", !.pending = {}]]
      S == P.socks[o]
      R == RequestUpdate(P, o)
  IN  CASE S.deleting \/ (S.status = "SUCCESS" /\ "LOCAL_CLOSE" \in S.info) ->
             [A EXCEPT !.port = Delete(P, o, FALSE, TRUE)]
        [] OTHER ->
             IF Reported(S) = {} THEN [A EXCEPT !.port = R]
             ELSE [port |-> IF S.once
                            THEN [R EXCEPT !.socks[o] = [@ EXCEPT !.user = {}, !.once = FALSE]]
                            ELSE R,
                   got |-> A.got \cup {[sock |-> S.sock, events |-> Reported(S)]}]
---------------------------------------------------------------------------
InDriver(o) == port.socks[o] # None /\ port.socks[o].status = "PENDING"

EmptyPort ==
  [tree |-> [s \in Sock |-> None],  \* sock_tree
   socks |-> [o \in Obj |-> None],  \* the sock_state objects
   updq |-> <<>>, delq |-> <<>>,  \* sock_update_queue, sock_deleted_queue
   groups |-> <<>>,               \* poll_group_queue
   size |-> <<>>,                 \* group -> group_size
   active |-> 0,                  \* active_poll_count
   packets |-> <<>>,              \* the completion port
   cancels |-> {}]                \* polls being cancelled by the driver

Init ==
  /\ port = EmptyPort
  /\ cond = [s \in Sock |-> {}]
  /\ pc = [t \in Thread |-> "out"]
  /\ batch = [t \in Thread |-> <<>>]
  /\ got = {}
  /\ ctls = 0 /\ errors = 0
  /\ gone = FALSE

Fails(n) == errors + n <= MaxErrors /\ errors' = errors + n

Ctl == ~gone /\ ctls < MaxCtls /\ ctls' = ctls + 1 /\ UNCHANGED <<cond, pc, batch, gone>>

CtlFails(P) == port' = P /\ got' = {}

(* Mutant of CtlUpdates: leaves the update to the next epoll_wait().       *)
CtlQueues(P) == port' = P /\ got' = {} /\ Fails(0)

(* The end of port__ctl_add() and port__ctl_mod(): the result of the       *)
(* update is dropped.                                                      *)
CtlUpdates(P) ==
  \E fails \in 0 .. 1 :
     /\ UpdatesIfPolling(P, port', fails)
     /\ Fails(fails)
     /\ got' = {}

(* epoll_ctl() with EPOLL_CTL_ADD: sock_new() takes a poll group before it *)
(* finds out that the socket is registered or memory is out, and gives it  *)
(* back.                                                                   *)
CtlAdd(s, mask, once) ==
  /\ Ctl
  /\ \/ cond[s] = Closed /\ CtlFails(port) /\ Fails(0)
     \/ cond[s] # Closed /\ NeedsGroup(port) /\ CtlFails(port) /\ Fails(1)
     \/ /\ cond[s] # Closed /\ (s \in Registered(port) \/ Obj = Allocated(port))
        /\ CtlFails(Release(Acquire(port), NextGroup(port)))
        /\ Fails(0)
     \/ /\ cond[s] # Closed /\ s \notin Registered(port)
        /\ \E o \in Obj \ Allocated(port) :
             LET P == Acquire(port)
                 Q == [P EXCEPT !.socks[o] = NewSock(s, NextGroup(port)),
                                !.tree[s] = o]
             IN  CtlUpdates(SetEvent(Q, o, mask, once))

(* EPOLL_CTL_MOD                                                           *)
CtlMod(s, mask, once) ==
  /\ Ctl
  /\ IF s \in Registered(port)
     THEN CtlUpdates(SetEvent(port, port.tree[s], mask, once))
     ELSE CtlFails(port) /\ Fails(0)

(* EPOLL_CTL_DEL: a failed cancellation is ignored.                        *)
CtlDel(s) ==
  /\ Ctl
  /\ got' = {}
  /\ IF s \in Registered(port)
     THEN \/ port' = Delete(port, port.tree[s], FALSE, TRUE) /\ Fails(0)
          \/ /\ InDriver(port.tree[s]) /\ port.tree[s] \notin port.cancels
             /\ port' = Delete(port, port.tree[s], FALSE, FALSE) /\ Fails(1)
     ELSE port' = port /\ Fails(0)
---------------------------------------------------------------------------
(* A thread leaves port_wait(), updating for the threads that are left.    *)
Leave(t, P, reports, fails) ==
  \E more \in 0 .. 1 :
     /\ UpdatesIfPolling(P, port', more)
     /\ Fails(fails + more)
     /\ got' = reports
     /\ pc' = [pc EXCEPT ![t] = "out"]

(* port__poll() up to the call of GetQueuedCompletionStatusEx(), or out    *)
(* with the error of the update.                                           *)
Poll(t, P) ==
  \E n \in Updates(P) :
     \/ /\ Failures(P, n) = 0 /\ Fails(0)
        /\ port' = [UpdateTo(P, n) EXCEPT !.active = @ + 1]
        /\ got' = {}
        /\ pc' = [pc EXCEPT ![t] = "blocked"]
     \/ Failures(P, n) = 1 /\ Leave(t, UpdateTo(P, n), {}, 1)

WaitEnter(t) ==
  /\ pc[t] = "out" /\ ~gone
  /\ Poll(t, port)
  /\ UNCHANGED <<cond, batch, ctls, gone>>

(* GetQueuedCompletionStatusEx() returns completions ...                   *)
Wake(t) ==
  /\ pc[t] = "blocked" /\ port.packets # <<>>
  /\ LET n == Least(MaxEvents, Len(port.packets))
     IN  /\ batch' = [batch EXCEPT ![t] = SubSeq(port.packets, 1, n)]
         /\ port' = [port EXCEPT !.packets = SubSeq(@, n + 1, Len(@))]
  /\ pc' = [pc EXCEPT ![t] = "feeding"]
  /\ got' = {}
  /\ UNCHANGED <<cond, ctls, errors, gone>>

(* ... or times out.                                                       *)
TimeOut(t) ==
  /\ pc[t] = "blocked" /\ port.packets = <<>>
  /\ Leave(t, [port EXCEPT !.active = @ - 1], {}, 0)
  /\ UNCHANGED <<cond, batch, ctls, gone>>

(* The rest of port__poll(), port__feed_events(); port_wait() ends when it *)
(* has events to report or its time is up, and polls again otherwise.      *)
FeedEvents(t) ==
  /\ pc[t] = "feeding"
  /\ LET A == Each(Feed, [port |-> [port EXCEPT !.active = @ - 1], got |-> {}], batch[t])
     IN  Leave(t, A.port, A.got, 0) \/ (A.got = {} /\ Poll(t, A.port))
  /\ batch' = [batch EXCEPT ![t] = <<>>]
  /\ UNCHANGED <<cond, ctls, gone>>

(* port_delete(), once no thread uses the port; its completion port has    *)
(* been closed, and the packets in it are gone.                            *)
ForceDelete(P, o) == Delete(P, o, TRUE, TRUE)

PortDelete ==
  /\ ~gone /\ \A t \in Thread : pc[t] = "out"
  /\ gone' = TRUE
  /\ LET P == Each(ForceDelete, port, SetToSeq({port.tree[s] : s \in Registered(port)}))
     IN  port' = [Each(ForceDelete, P, P.delq) EXCEPT !.packets = <<>>]
  /\ got' = {}
  /\ UNCHANGED <<cond, pc, batch, ctls, errors>>
---------------------------------------------------------------------------
(* The AFD driver completes a poll: cancelled, with the events that are    *)
(* true of the socket, or with an error.                                   *)
Complete(P, o, status, info) ==
  [P EXCEPT !.socks[o] = [@ EXCEPT !.status = status, !.info = info],
            !.packets = Append(@, o), !.cancels = @ \ {o}]

PollCompletes(o) ==
  /\ ~gone /\ InDriver(o)
  /\ LET now == port.socks[o].info \cap cond[port.socks[o].sock]
     IN  \/ /\ o \in port.cancels
            /\ port' = Complete(port, o, "CANCELLED", {})
            /\ Fails(0)
         \/ /\ o \notin port.cancels /\ now # {}
            /\ port' = Complete(port, o, "SUCCESS", now)
            /\ Fails(0)
  /\ got' = {}
  /\ UNCHANGED <<cond, pc, batch, ctls, gone>>

PollFails(o) ==
  /\ ~gone /\ InDriver(o) /\ o \notin port.cancels
  /\ port' = Complete(port, o, "FAILED", {}) /\ Fails(1)
  /\ got' = {}
  /\ UNCHANGED <<cond, pc, batch, ctls, gone>>

(* The state of a socket changes; closing it completes its polls.          *)
Changes(s, c) ==
  /\ ~gone /\ cond[s] # Closed
  /\ cond' = [cond EXCEPT ![s] = c]
  /\ got' = {}
  /\ UNCHANGED <<port, pc, batch, ctls, errors, gone>>

Close(P, o) == Complete(P, o, "SUCCESS", Closed)

CloseSocket(s) ==
  /\ ~gone /\ cond[s] # Closed
  /\ cond' = [cond EXCEPT ![s] = Closed]
  /\ LET polls == {o \in Obj \ port.cancels : InDriver(o) /\ port.socks[o].sock = s}
     IN  port' = Each(Close, port, SetToSeq(polls))
  /\ got' = {}
  /\ UNCHANGED <<pc, batch, ctls, errors, gone>>

OpenSocket(s) ==
  /\ ~gone /\ cond[s] = Closed
  /\ cond' = [cond EXCEPT ![s] = {}]
  /\ got' = {}
  /\ UNCHANGED <<port, pc, batch, ctls, errors, gone>>
---------------------------------------------------------------------------
Program ==
  \E s \in Sock :
     \/ \E mask \in Masks, once \in BOOLEAN : CtlAdd(s, mask, once) \/ CtlMod(s, mask, once)
     \/ CtlDel(s)
     \/ CloseSocket(s) \/ OpenSocket(s)
     \/ \E c \in SUBSET Conditions : Changes(s, c)

Next ==
  \/ Program \/ PortDelete
  \/ \E t \in Thread : WaitEnter(t) \/ Wake(t) \/ TimeOut(t) \/ FeedEvents(t)
  \/ \E o \in Obj : PollCompletes(o) \/ PollFails(o)

(* The driver completes what it can, and a thread that has completions to  *)
(* take goes on. No thread has to call epoll_wait().                       *)
Spec ==
  /\ Init /\ [][Next]_vars
  /\ \A t \in Thread : WF_vars(Wake(t)) /\ WF_vars(FeedEvents(t))
  /\ \A o \in Obj : WF_vars(PollCompletes(o))
---------------------------------------------------------------------------
(* The types of the state.                                                 *)
TypeOK ==
  /\ DOMAIN port.socks = Obj /\ port.tree \in [Sock -> Obj \cup {None}]
  /\ \A o \in Allocated(port) :
        port.socks[o] \in SockState /\ port.socks[o].group \in DOMAIN port.size
  /\ port.active \in 0 .. Cardinality(Thread)
  /\ DOMAIN port.size = 1 .. Len(port.groups)
  /\ cond \in [Sock -> (SUBSET Conditions) \cup {Closed}]
  /\ pc \in [Thread -> {"out", "blocked", "feeding"}]
  /\ ctls \in 0 .. MaxCtls /\ errors \in 0 .. MaxErrors /\ gone \in BOOLEAN

(* Where a completion for o is: in the completion port, or in the batch of *)
(* a thread that has not got the critical section back.                    *)
Completions(o) ==
  Cardinality({i \in DOMAIN port.packets : port.packets[i] = o}) +
  Cardinality({e \in Thread \X (1 .. MaxEvents) :
                 e[2] \in DOMAIN batch[e[1]] /\ batch[e[1]][e[2]] = o})

(* The tree and the two queues agree on the sockets (sock__delete): live   *)
(* ones are registered and may wait for an update, deleted ones wait in    *)
(* the other queue until their poll has come back.                         *)
QueuesOK ==
  /\ TypeOK
  /\ \A s \in Registered(port) :
        port.tree[s] \in Live(port) /\ port.socks[port.tree[s]].sock = s
  /\ \A o \in Live(port) :
        LET s == port.socks[o].sock
        IN  s \in Registered(port) /\ port.tree[s] = o
  /\ Members(port.updq) \subseteq Live(port) /\ IsInjective(port.updq)
  /\ Members(port.delq) = Deleting(port) /\ IsInjective(port.delq)
  /\ \A o \in Deleting(port) : port.socks[o].poll # "IDLE"

(* A sock_state has a poll in the driver or one completion on its way      *)
(* exactly when its poll_status is not SOCK__POLL_IDLE, and nothing refers *)
(* to one that was freed: sock_feed_event() finds its memory intact.       *)
PollsOK ==
  /\ \A o \in Allocated(port) :
        LET out == (IF InDriver(o) THEN 1 ELSE 0) + Completions(o)
        IN  out = (IF port.socks[o].poll = "IDLE" THEN 0 ELSE 1)
  /\ \A o \in Obj \ Allocated(port) : Completions(o) = 0

(* No interest is lost: a poll that is on watches all the user asked for,  *)
(* or it is being cancelled, or the socket is queued for sock_update().    *)
(* And while a thread is in the kernel, nothing stays queued, unless       *)
(* Windows failed a call.                                                  *)
NoLostInterest ==
  /\ \A o \in Live(port) \ Members(port.updq) :
        \/ port.socks[o].poll = "PENDING" /\ Watched(port, o)
        \/ port.socks[o].poll = "CANCELLED"
  /\ port.active > 0 /\ errors = 0 => port.updq = <<>>

(* A poll in the driver completes for exactly the AFD events that come out *)
(* as an epoll event it is there for (the two conversions agree): it       *)
(* misses none, and does not complete over and over for nothing.           *)
PollsExact ==
  \A o \in Live(port) :
     InDriver(o) /\ port.socks[o].poll = "PENDING" =>
       port.socks[o].info \ Closed =
         {a \in DOMAIN ReportsAs : ReportsAs[a] \cap port.socks[o].pending # {}}

(* A poll group counts its sockets, and groups with room come last, where  *)
(* poll_group_acquire() looks: no group is made while one has room.        *)
GroupsOK ==
  /\ \A g \in DOMAIN port.size :
        /\ port.size[g] = Cardinality({o \in Allocated(port) : port.socks[o].group = g})
        /\ port.size[g] <= GroupSize
  /\ \A i, j \in DOMAIN port.groups :
        i < j /\ port.size[port.groups[j]] = GroupSize =>
          port.size[port.groups[i]] = GroupSize

(* epoll_wait() reports only sockets that are registered when it looks, a  *)
(* completion that was already under way when EPOLL_CTL_DEL or MOD came    *)
(* notwithstanding, and only events in the mask set last.                  *)
OnlyWanted ==
  [][\A e \in got' :
       /\ e.sock \in Registered(port)
       /\ e.events \subseteq port.socks[port.tree[e.sock]].user]_vars

(* port_delete() frees everything, and its assertions hold: no socket is   *)
(* left in the update queue, and the groups are empty.                     *)
DeleteAsserts ==
  gone => /\ port.updq = <<>> /\ port.delq = <<>> /\ Allocated(port) = {}
          /\ \A g \in DOMAIN port.size : port.size[g] = 0

Wanted(s) ==
  /\ s \in Registered(port) /\ port.active > 0
  /\ EpollEvents(cond[s]) \cap port.socks[port.tree[s]].user # {}

(* Level-triggered: while something the user asked for stays true of a     *)
(* socket and threads wait, epoll_wait() reports the socket.               *)
EventsReported ==
  \A s \in Sock : Wanted(s) ~> (~Wanted(s) \/ \E e \in got : e.sock = s)
===========================================================================
