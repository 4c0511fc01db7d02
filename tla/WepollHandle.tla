---------------------------- MODULE WepollHandle ----------------------------
(***************************************************************************)
(* c/wepoll.c, the epoll of the Windows library: how threads that create,  *)
(* use and close epoll handles at the same time share port_state objects.  *)
(* A thread-safe tree maps handles to ports, a reflock in each port counts *)
(* the threads that use it, and epoll_close() frees the port when it was   *)
(* the last.                                                               *)
(*                                                                         *)
(* What runs under the tree's SRW lock or under a port's critical section  *)
(* never blocks, so each such section is one step. External: the handle    *)
(* table and the completion ports of Windows, and keyed events, whose      *)
(* release waits for a waiter.                                             *)
(***************************************************************************)
EXTENDS Integers, FiniteSets

CONSTANTS
  Thread,
  Port,      \* port_state objects, and the completion ports made for them
  Handle,    \* handle values; Windows gives a closed one out again
  MaxCalls,  \* bounds the calls a thread makes
  Null

ASSUME NullAssumption   == Null \notin Thread \cup Port \cup Handle
                             \cup {"exists", "iocp", "reflock"}
ASSUME FiniteAssumption == IsFiniteSet(Thread) /\ MaxCalls \in Nat

VARIABLES
  tree,      \* epoll__handle_tree: handle -> port
  open,      \* Windows: open handle -> its completion port
  life,      \* port -> "unused", "allocated" or "freed"
  iocp,      \* port -> port_state.iocp_handle
  refs,      \* port -> the reference count of its reflock
  lock,      \* port -> the other bits of its reflock: "ok", "destroy", "poison"
  pc,        \* where each thread is
  at,        \* the port a thread is using
  arg,       \* the handle a thread passes to GetQueuedCompletionStatusEx
  calls,     \* calls begun by each thread
  failed     \* the assertion that stopped the process, or Null

state == <<tree, open, life, iocp, refs, lock>>
vars  == <<state, pc, at, arg, calls, failed>>

PC == {"idle", "add", "close", "destroy", "await", "poison", "ctl", "wait",
       "arg", "gqcs", "blocked", "unref", "signal"}

TypeOK ==
  /\ DOMAIN tree \subseteq Handle /\ \A h \in DOMAIN tree : tree[h] \in Port
  /\ DOMAIN open \subseteq Handle /\ \A h \in DOMAIN open : open[h] \in Port
  /\ life \in [Port -> {"unused", "allocated", "freed"}]
  /\ iocp \in [Port -> Handle \cup {Null}]
  /\ refs \in [Port -> Nat]
  /\ lock \in [Port -> {"ok", "destroy", "poison"}]
  /\ pc \in [Thread -> PC]
  /\ at \in [Thread -> Port \cup {Null}]
  /\ arg \in [Thread -> Handle \cup Port \cup {Null}]
  /\ calls \in [Thread -> 0 .. MaxCalls]
  /\ failed \in {Null, "exists", "iocp", "reflock"}
---------------------------------------------------------------------------
Init ==
  /\ tree = [h \in {} |-> Null]
  /\ open = [h \in {} |-> Null]
  /\ life = [p \in Port |-> "unused"]
  /\ iocp = [p \in Port |-> Null]
  /\ refs = [p \in Port |-> 0]
  /\ lock = [p \in Port |-> "ok"]
  /\ pc = [t \in Thread |-> "idle"]
  /\ at = [t \in Thread |-> Null]
  /\ arg = [t \in Thread |-> Null]
  /\ calls = [t \in Thread |-> 0]
  /\ failed = Null

Without(f, x) == [y \in DOMAIN f \ {x} |-> f[y]]
With(f, x, v) == [y \in DOMAIN f \cup {x} |-> IF y = x THEN v ELSE f[y]]

At(t, where) == pc[t] = where /\ failed = Null

Goto(t, where) == pc' = [pc EXCEPT ![t] = where] /\ UNCHANGED <<at, calls, failed>>

(* A failed assert(): the process is gone.                                 *)
Abort(which) == failed' = which /\ UNCHANGED <<state, pc, at, arg, calls>>

Begin(t, where, p) ==
  /\ At(t, "idle") /\ calls[t] < MaxCalls
  /\ calls' = [calls EXCEPT ![t] = @ + 1]
  /\ pc' = [pc EXCEPT ![t] = where]
  /\ at' = [at EXCEPT ![t] = p]
  /\ UNCHANGED <<arg, failed>>

(* epoll_create(): port_new() and the completion port; memory and handle   *)
(* are whatever is free.                                                   *)
Create(t, p, h) ==
  /\ life[p] = "unused" /\ h \notin DOMAIN open
  /\ Begin(t, "add", p)
  /\ open' = With(open, h, p)
  /\ life' = [life EXCEPT ![p] = "allocated"]
  /\ iocp' = [iocp EXCEPT ![p] = h]
  /\ UNCHANGED <<tree, refs, lock>>

(* ts_tree_add(); "This should never happen" when the key is there already *)
(* (and port_delete() would then assert that the port was closed).         *)
Add(t) ==
  /\ At(t, "add")
  /\ LET h == iocp[at[t]]
     IN  IF h \in DOMAIN tree
         THEN Abort("exists")
         ELSE /\ tree' = With(tree, h, at[t])
              /\ Goto(t, "idle")
              /\ UNCHANGED <<open, life, iocp, refs, lock, arg>>

(* A call with a handle that is not in the tree is an error and ends.      *)
BadHandle(t, h) ==
  /\ h \notin DOMAIN tree
  /\ Begin(t, "idle", Null)
  /\ UNCHANGED state

(* Mutant of TakeRef: only epoll_close() is counted.                      *)
TakeRefToClose(t, h, left, where) ==
  /\ h \in DOMAIN tree
  /\ Begin(t, where, tree[h])
  /\ tree' = left
  /\ refs' = IF where = "close" THEN [refs EXCEPT ![tree[h]] = @ + 1] ELSE refs
  /\ UNCHANGED <<open, life, iocp, lock>>

(* reflock_ref(), with its assertion, of the port found under h; `left` is *)
(* the tree afterwards.                                                    *)
TakeRef(t, h, left, where) ==
  /\ h \in DOMAIN tree
  /\ At(t, "idle") /\ calls[t] < MaxCalls
  /\ IF lock[tree[h]] # "ok"
     THEN Abort("reflock")
     ELSE /\ Begin(t, where, tree[h])
          /\ tree' = left
          /\ refs' = [refs EXCEPT ![tree[h]] = @ + 1]
          /\ UNCHANGED <<open, life, iocp, lock>>

(* Mutant of Close: ts_tree_find_and_ref() in place of _del_and_ref().     *)
CloseFinds(t, h) == TakeRef(t, h, tree, "close") \/ BadHandle(t, h)

(* epoll_close(): ts_tree_del_and_ref().                                   *)
Close(t, h) == TakeRef(t, h, Without(tree, h), "close") \/ BadHandle(t, h)

(* epoll_ctl() and epoll_wait(): ts_tree_find_and_ref().                   *)
Use(t, h, where) == TakeRef(t, h, tree, where) \/ BadHandle(t, h)
---------------------------------------------------------------------------
(* port_close(): the handle is closed and forgotten in the critical        *)
(* section of the port.                                                    *)
PortClose(t) ==
  /\ At(t, "close")
  /\ open' = Without(open, iocp[at[t]])
  /\ iocp' = [iocp EXCEPT ![at[t]] = Null]
  /\ Goto(t, "destroy")
  /\ UNCHANGED <<tree, life, refs, lock, arg>>

(* Mutant of UnrefAndDestroy: does not wait for the other users.           *)
DestroyAtOnce(t) ==
  /\ At(t, "destroy")
  /\ refs' = [refs EXCEPT ![at[t]] = @ - 1]
  /\ lock' = [lock EXCEPT ![at[t]] = "destroy"]
  /\ Goto(t, "poison")
  /\ UNCHANGED <<tree, open, life, iocp, arg>>

(* reflock_unref_and_destroy(), up to the wait for the other users, with   *)
(* its assertion. Here and in Unref a reference dropped that nobody has    *)
(* counts as a failed assertion too.                                       *)
UnrefAndDestroy(t) ==
  /\ At(t, "destroy")
  /\ IF refs[at[t]] = 0 \/ lock[at[t]] # "ok"
     THEN Abort("reflock")
     ELSE /\ refs' = [refs EXCEPT ![at[t]] = @ - 1]
          /\ lock' = [lock EXCEPT ![at[t]] = "destroy"]
          /\ Goto(t, IF refs[at[t]] = 1 THEN "poison" ELSE "await")
          /\ UNCHANGED <<tree, open, life, iocp, arg>>

(* The end of reflock_unref_and_destroy(), with its assertion, and         *)
(* port_delete().                                                          *)
PortDelete(t) ==
  /\ At(t, "poison")
  /\ IF refs[at[t]] # 0 \/ lock[at[t]] # "destroy"
     THEN Abort("reflock")
     ELSE /\ lock' = [lock EXCEPT ![at[t]] = "poison"]
          /\ life' = [life EXCEPT ![at[t]] = "freed"]
          /\ Goto(t, "idle")
          /\ UNCHANGED <<tree, open, iocp, refs, arg>>

(* Mutant of Unref: does not wake the thread that destroys the port.       *)
UnrefSilently(t) ==
  /\ At(t, "unref")
  /\ refs' = [refs EXCEPT ![at[t]] = @ - 1]
  /\ Goto(t, "idle")
  /\ UNCHANGED <<tree, open, life, iocp, lock, arg>>

(* ts_tree_node_unref(), with the assertion of reflock_unref(): the last   *)
(* user of a port that is being destroyed wakes the thread that destroys it.*)
Unref(t) ==
  /\ At(t, "unref")
  /\ IF refs[at[t]] = 0 \/ lock[at[t]] = "poison"
     THEN Abort("reflock")
     ELSE /\ refs' = [refs EXCEPT ![at[t]] = @ - 1]
          /\ Goto(t, IF lock[at[t]] = "destroy" /\ refs[at[t]] = 1 THEN "signal" ELSE "idle")
          /\ UNCHANGED <<tree, open, life, iocp, lock, arg>>

(* reflock__signal_event() and reflock__await_event() return together.     *)
Rendezvous(s, w) ==
  /\ At(s, "signal") /\ pc[w] = "await" /\ at[s] = at[w]
  /\ pc' = [pc EXCEPT ![s] = "idle", ![w] = "poison"]
  /\ UNCHANGED <<state, at, arg, calls, failed>>
---------------------------------------------------------------------------
(* port_ctl(), for what it needs of the port: EPOLL_CTL_ADD makes a poll   *)
(* group when none has room, and port_get_iocp_handle() asserts that the   *)
(* port is open. Which calls find a group with room is left open.          *)
PortCtl(t) ==
  /\ At(t, "ctl")
  /\ \/ iocp[at[t]] = Null /\ Abort("iocp")
     \/ Goto(t, "unref") /\ UNCHANGED <<state, arg>>

(* Mutant of PollEnter: the error leaves epoll_wait() with the reference.  *)
PollLeaks(t) ==
  /\ At(t, "wait")
  /\ \E where \in {"arg", "idle"} : Goto(t, where)
  /\ UNCHANGED <<state, arg>>

(* port__poll(), first part: submit the pending updates, which can fail,   *)
(* and leave the critical section.                                         *)
PollEnter(t) ==
  /\ At(t, "wait")
  /\ \E where \in {"arg", "unref"} : Goto(t, where)
  /\ UNCHANGED <<state, arg>>

(* The critical section is left when port_state->iocp_handle is read.      *)
ReadIocp(t) ==
  /\ At(t, "arg")
  /\ arg' = [arg EXCEPT ![t] = iocp[at[t]]]
  /\ Goto(t, "gqcs")
  /\ UNCHANGED state

(* GetQueuedCompletionStatusEx(): the kernel resolves the handle, and then *)
(* waits on the completion port itself.                                    *)
EnterKernel(t) ==
  /\ At(t, "gqcs")
  /\ IF arg[t] \in DOMAIN open
     THEN arg' = [arg EXCEPT ![t] = open[arg[t]]] /\ Goto(t, "blocked")
     ELSE arg' = [arg EXCEPT ![t] = Null] /\ Goto(t, "unref")
  /\ UNCHANGED state

Abandoned(p) == \A h \in DOMAIN open : open[h] # p

(* The completion port was closed: ERROR_ABANDONED_WAIT_0.                 *)
WakeClosed(t) ==
  /\ At(t, "blocked") /\ Abandoned(arg[t])
  /\ arg' = [arg EXCEPT ![t] = Null]
  /\ Goto(t, "unref")
  /\ UNCHANGED state

(* Packets came, or the timeout: the loop of port_wait() ends or, when     *)
(* there was no event to report, polls again.                              *)
WakePacket(t) ==
  /\ At(t, "blocked") /\ ~Abandoned(arg[t])
  /\ arg' = [arg EXCEPT ![t] = Null]
  /\ \E where \in {"wait", "unref"} : Goto(t, where)
  /\ UNCHANGED state
---------------------------------------------------------------------------
Call(t) ==
  \E h \in Handle : \/ \E p \in Port : Create(t, p, h)
                    \/ Close(t, h)
                    \/ Use(t, h, "ctl")
                    \/ Use(t, h, "wait")

Step(t) ==
  \/ Add(t) \/ PortClose(t) \/ UnrefAndDestroy(t) \/ PortDelete(t) \/ Unref(t)
  \/ \E w \in Thread : Rendezvous(t, w)
  \/ PortCtl(t) \/ PollEnter(t) \/ ReadIocp(t) \/ EnterKernel(t) \/ WakeClosed(t)

Next == \E t \in Thread : Call(t) \/ Step(t) \/ WakePacket(t)

(* Threads that can run do, and the kernel wakes the waiters of a closed   *)
(* completion port. Nobody promises packets.                               *)
Spec == Init /\ [][Next]_vars /\ \A t \in Thread : WF_vars(Step(t))
---------------------------------------------------------------------------
Counted == {"close", "destroy", "ctl", "wait", "arg", "gqcs", "blocked", "unref"}
Closing == {"close", "destroy", "await", "poison"}

(* A reflock counts exactly the threads between taking and dropping a      *)
(* reference (reflock_ref, reflock_unref, reflock_unref_and_destroy).      *)
RefsExact ==
  \A p \in Port :
     refs[p] = Cardinality({t \in Thread : at[t] = p /\ pc[t] \in Counted})

(* No thread is inside a port that epoll_close() has freed.                *)
NoUseAfterFree ==
  \A t \in Thread : pc[t] # "idle" => life[at[t]] = "allocated"

(* A port the tree hands out is open under that very handle and not being  *)
(* destroyed: epoll_close() takes it from the tree before it closes it.    *)
TreeLive ==
  \A h \in DOMAIN tree :
     LET p == tree[h]
     IN  iocp[p] = h /\ h \in DOMAIN open /\ open[h] = p /\ lock[p] = "ok"

(* The failure epoll__create() says should never happen does not, nor do   *)
(* the assertions of the reflock fail, although Windows reuses handles.    *)
NeverHappens == TypeOK /\ failed \notin {"exists", "reflock"}

(* A thread that read iocp_handle outside the critical section waits on    *)
(* another port: the handle was closed and given out again in between.     *)
Strayed == \E t \in Thread : pc[t] = "blocked" /\ arg[t] # at[t]

(* epoll_close() returns: the others leave the port, and the last of them  *)
(* wakes it. A thread that has strayed to another port may keep it waiting.*)
CloseReturns ==
  \A t \in Thread :
     pc[t] \in Closing ~> (pc[t] = "idle" \/ failed # Null \/ Strayed)

(* The assertion of port_get_iocp_handle() holds whenever it is evaluated. *)
IocpAssertion == failed # "iocp"
===========================================================================
