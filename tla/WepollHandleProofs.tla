-------------------------- MODULE WepollHandleProofs --------------------------
(***************************************************************************)
(* The safety properties of WepollHandle for any number of threads, ports  *)
(* and handles. The reference count of a port says how many threads are in *)
(* it only together with who may still come: a port is in the tree, or it  *)
(* has one owner, the thread that made it and has yet to add it or the one *)
(* that took it out to close it, or nobody knows it any more.              *)
(***************************************************************************)
EXTENDS WepollHandle, FiniteSetTheorems, TLAPS

Users(p) == {t \in Thread : at[t] = p /\ pc[t] \in Counted}
Owning   == {"add"} \cup Closing
Plain    == {"ctl", "wait", "arg", "gqcs", "blocked", "unref"}

(* A port that the tree hands out, or a thread is in, is allocated.        *)
Allocated ==
  /\ \A t \in Thread : pc[t] # "idle" => at[t] \in Port /\ life[at[t]] = "allocated"
  /\ \A h \in DOMAIN tree : life[tree[h]] = "allocated"

(* An owned port has one owner and is not in the tree.                     *)
OneOwner ==
  \A t \in Thread : pc[t] \in Owning =>
    /\ \A u \in Thread : pc[u] \in Owning /\ at[u] = at[t] => u = t
    /\ \A h \in DOMAIN tree : tree[h] # at[t]

(* Until port_close() the owner's port is open under its handle.           *)
OwnerOpen ==
  \A t \in Thread : pc[t] \in {"add", "close"} =>
    iocp[at[t]] \in DOMAIN open /\ open[iocp[at[t]]] = at[t]

(* What the flags of a reflock say of the threads.                         *)
LockOK ==
  /\ \A p \in Port : life[p] = "unused" => lock[p] = "ok"
  /\ \A p \in Port : lock[p] = "poison" => life[p] = "freed"
  /\ \A p \in Port : lock[p] = "destroy" =>
       \E t \in Thread : pc[t] \in {"await", "poison"} /\ at[t] = p
  /\ \A t \in Thread : pc[t] \in {"add", "close", "destroy"} => lock[at[t]] = "ok"
  /\ \A t \in Thread : pc[t] \in {"await", "poison"} => lock[at[t]] = "destroy"
  /\ \A t \in Thread : pc[t] = "poison" => refs[at[t]] = 0

(* The last user signals, once, and somebody waits for it.                 *)
SignalOK ==
  \A s \in Thread : pc[s] = "signal" =>
    /\ refs[at[s]] = 0
    /\ \E w \in Thread : pc[w] = "await" /\ at[w] = at[s]
    /\ \A u \in Thread : pc[u] = "signal" /\ at[u] = at[s] => u = s

Inv ==
  /\ NeverHappens /\ RefsExact /\ TreeLive
  /\ Allocated /\ OneOwner /\ OwnerOpen /\ LockOK /\ SignalOK
-----------------------------------------------------------------------------
LEMMA RefsAre == RefsExact <=> \A p \in Port : refs[p] = Cardinality(Users(p))
  BY DEF RefsExact, Users

LEMMA UsersFinite == \A p \in Port : IsFiniteSet(Users(p)) /\ Cardinality(Users(p)) \in Nat
<1>. SUFFICES ASSUME NEW p \in Port PROVE IsFiniteSet(Users(p))
  BY FS_CardinalityType
<1>. QED
  BY FS_Subset, FiniteAssumption DEF Users

(* A port with a user has references, and one without references no user.  *)
LEMMA UserCounts ==
  ASSUME Inv, NEW t \in Thread, pc[t] \in Counted
  PROVE  at[t] \in Port /\ refs[at[t]] \in Nat \ {0}
<1>1. at[t] \in Port /\ t \in Users(at[t])
  BY DEF Inv, Allocated, Users, Counted
<1>2. refs[at[t]] = Cardinality(Users(at[t]))
  BY <1>1, RefsAre DEF Inv
<1>. QED
  BY <1>1, <1>2, UsersFinite, FS_EmptySet

(* Counting stays exact when nobody comes or goes,                         *)
LEMMA SameUsers ==
  ASSUME RefsExact, refs' = refs, \A p \in Port : Users(p)' = Users(p)
  PROVE  RefsExact'
<1>1. RefsExact' <=> \A p \in Port : refs'[p] = Cardinality(Users(p)')
  BY DEF RefsExact, Users
<1>. QED
  BY <1>1, RefsAre

(* when one thread enters a port and is counted,                           *)
LEMMA UserEnters ==
  ASSUME TypeOK, RefsExact, NEW t \in Thread, NEW q \in Port, t \notin Users(q),
         refs' = [refs EXCEPT ![q] = @ + 1],
         \A p \in Port : Users(p)' = IF p = q THEN Users(q) \cup {t} ELSE Users(p)
  PROVE  RefsExact'
<1>1. RefsExact' <=> \A p \in Port : refs'[p] = Cardinality(Users(p)')
  BY DEF RefsExact, Users
<1>2. \A p \in Port : refs'[p] = IF p = q THEN refs[q] + 1 ELSE refs[p]
  BY DEF TypeOK
<1>3. Cardinality(Users(q) \cup {t}) = Cardinality(Users(q)) + 1
  BY UsersFinite, FS_AddElement
<1>. QED
  BY <1>1, <1>2, <1>3, RefsAre

(* and when one leaves and drops its reference.                            *)
LEMMA UserLeaves ==
  ASSUME TypeOK, RefsExact, NEW t \in Thread, NEW q \in Port, t \in Users(q),
         refs' = [refs EXCEPT ![q] = @ - 1],
         \A p \in Port : Users(p)' = IF p = q THEN Users(q) \ {t} ELSE Users(p)
  PROVE  RefsExact'
<1>1. RefsExact' <=> \A p \in Port : refs'[p] = Cardinality(Users(p)')
  BY DEF RefsExact, Users
<1>2. \A p \in Port : refs'[p] = IF p = q THEN refs[q] - 1 ELSE refs[p]
  BY DEF TypeOK
<1>3. Cardinality(Users(q) \ {t}) = Cardinality(Users(q)) - 1
  BY UsersFinite, FS_RemoveElement
<1>. QED
  BY <1>1, <1>2, <1>3, RefsAre
-----------------------------------------------------------------------------
LEMMA InitInv == Init => Inv
<1>. SUFFICES ASSUME Init PROVE Inv
  OBVIOUS
<1>1. TypeOK
  <2>1. tree = [h \in {} |-> Null] /\ DOMAIN tree = {} /\ DOMAIN open = {}
    BY DEF Init
  <2>2. calls \in [Thread -> 0 .. MaxCalls]
    BY FiniteAssumption DEF Init
  <2>. QED
    BY <2>1, <2>2 DEF Init, TypeOK, PC
<1>2. RefsExact
  <2>1. \A p \in Port : Users(p) = {}
    BY DEF Init, Users, Counted
  <2>. QED
    BY <2>1, RefsAre, FS_EmptySet DEF Init
<1>3. TreeLive /\ Allocated /\ OneOwner /\ OwnerOpen /\ LockOK /\ SignalOK
  BY DEF Init, TreeLive, Allocated, OneOwner, OwnerOpen, LockOK, SignalOK, Owning, Closing
<1>4. failed \notin {"exists", "reflock"}
  BY NullAssumption DEF Init
<1>. QED
  BY <1>1, <1>2, <1>3, <1>4 DEF Inv, NeverHappens
-----------------------------------------------------------------------------
(* A thread that goes on using its port disturbs nothing, wherever it      *)
(* waits.                                                                  *)
LEMMA PlainMove ==
  ASSUME Inv, NEW t \in Thread, NEW w \in Plain, pc[t] \in Plain,
         pc' = [pc EXCEPT ![t] = w],
         arg' \in [Thread -> Handle \cup Port \cup {Null}],
         UNCHANGED <<state, at, calls, failed>>
  PROVE  Inv'
<1>. USE DEF Inv, NeverHappens
<1>1. /\ \A u \in Thread : pc'[u] = IF u = t THEN w ELSE pc[u]
      /\ w \in PC /\ w \notin Owning /\ w # "signal" /\ w # "idle"
      /\ pc[t] \notin Owning /\ pc[t] # "signal" /\ pc[t] # "idle"
      /\ w \in Counted /\ pc[t] \in Counted
      /\ UNCHANGED <<tree, open, life, iocp, refs, lock, at>>
  BY DEF TypeOK, PC, Plain, Owning, Closing, Counted, state
<1>2. TypeOK'
  BY <1>1 DEF TypeOK
<1>3. RefsExact'
  <2>1. \A p \in Port : Users(p)' = Users(p)
    BY <1>1 DEF Users
  <2>. QED
    BY <1>1, <2>1, SameUsers
<1>4. TreeLive' /\ Allocated'
  BY <1>1 DEF TreeLive, Allocated
<1>5. OneOwner' /\ OwnerOpen'
  BY <1>1 DEF OneOwner, OwnerOpen, Owning, Closing
<1>6. LockOK' /\ SignalOK'
  BY <1>1 DEF LockOK, SignalOK, Owning, Closing
<1>. QED
  BY <1>2, <1>3, <1>4, <1>5, <1>6

LEMMA PlainSteps ==
  ASSUME Inv, NEW t \in Thread,
         \/ PollEnter(t) \/ ReadIocp(t) \/ EnterKernel(t) \/ WakeClosed(t) \/ WakePacket(t)
         \/ PortCtl(t)
  PROVE  Inv'
<1>. USE DEF At, Goto, Plain
<1>1. arg \in [Thread -> Handle \cup Port \cup {Null}] /\ iocp \in [Port -> Handle \cup {Null}]
      /\ \A h \in DOMAIN open : open[h] \in Port
  BY DEF Inv, NeverHappens, TypeOK
<1>2. CASE PollEnter(t)
  BY <1>1, <1>2, PlainMove DEF PollEnter
<1>3. CASE ReadIocp(t)
  <2>1. iocp[at[t]] \in Handle \cup {Null}
    BY <1>1, <1>3, UserCounts DEF ReadIocp, Counted
  <2>. QED
    BY <1>1, <1>3, <2>1, PlainMove DEF ReadIocp
<1>4. CASE EnterKernel(t)
  BY <1>1, <1>4, PlainMove DEF EnterKernel
<1>5. CASE WakeClosed(t)
  BY <1>1, <1>5, PlainMove DEF WakeClosed
<1>6. CASE WakePacket(t)
  BY <1>1, <1>6, PlainMove DEF WakePacket
<1>7. CASE PortCtl(t)
  <2>1. CASE Abort("iocp")
    BY <2>1 DEF Abort, state, Inv, NeverHappens, TypeOK, RefsExact, TreeLive, Allocated,
                OneOwner, OwnerOpen, LockOK, SignalOK
  <2>2. CASE Goto(t, "unref") /\ UNCHANGED <<state, arg>>
    BY <1>1, <1>7, <2>2, PlainMove DEF PortCtl
  <2>. QED
    BY <1>7, <2>1, <2>2 DEF PortCtl
<1>. QED
  BY <1>2, <1>3, <1>4, <1>5, <1>6, <1>7

(* epoll_create() makes a port nobody knows and becomes its owner.         *)
LEMMA CreateInv ==
  ASSUME Inv, NEW t \in Thread, NEW p \in Port, NEW h \in Handle, Create(t, p, h)
  PROVE  Inv'
<1>. USE DEF Inv, NeverHappens
<1>1. /\ life[p] = "unused" /\ h \notin DOMAIN open /\ h \notin DOMAIN tree
      /\ pc[t] = "idle" /\ calls[t] < MaxCalls
      /\ lock[p] = "ok"
  BY DEF Create, Begin, At, LockOK, TreeLive
<1>2. /\ \A u \in Thread : pc'[u] = IF u = t THEN "add" ELSE pc[u]
      /\ \A u \in Thread : at'[u] = IF u = t THEN p ELSE at[u]
      /\ DOMAIN open' = DOMAIN open \cup {h}
      /\ \A k \in DOMAIN open' : open'[k] = IF k = h THEN p ELSE open[k]
      /\ \A q \in Port : /\ life'[q] = IF q = p THEN "allocated" ELSE life[q]
                        /\ iocp'[q] = IF q = p THEN h ELSE iocp[q]
      /\ UNCHANGED <<tree, refs, lock, failed>>
  BY DEF Create, Begin, With, TypeOK
<1>3. TypeOK'
  <2>1. /\ pc' \in [Thread -> PC] /\ at' \in [Thread -> Port \cup {Null}]
        /\ calls' \in [Thread -> 0 .. MaxCalls] /\ arg' = arg
        /\ life' \in [Port -> {"unused", "allocated", "freed"}]
        /\ iocp' \in [Port -> Handle \cup {Null}]
    BY <1>1, FiniteAssumption DEF Create, Begin, TypeOK, PC
  <2>. QED
    BY <1>2, <2>1 DEF TypeOK
(* Whoever is in a port is in another one.                                 *)
<1>4. /\ \A u \in Thread : pc[u] # "idle" => at[u] # p /\ u # t
      /\ \A k \in DOMAIN tree : tree[k] # p
      /\ \A u \in Thread : pc[u] \in Owning \cup Counted => pc[u] # "idle"
  BY <1>1 DEF Allocated, Owning, Closing, Counted
<1>5. RefsExact'
  <2>1. \A q \in Port : Users(q)' = Users(q)
    BY <1>2, <1>4 DEF Users, Counted
  <2>. QED
    BY <1>2, <2>1, SameUsers
<1>6. TreeLive' /\ Allocated'
  BY <1>1, <1>2, <1>4 DEF TreeLive, Allocated, TypeOK
<1>7. OneOwner'
  BY <1>2, <1>4 DEF OneOwner, Owning
<1>8. OwnerOpen'
  <2>1. ASSUME NEW u \in Thread, pc'[u] \in {"add", "close"}, u # t
        PROVE  iocp'[at'[u]] \in DOMAIN open' /\ open'[iocp'[at'[u]]] = at'[u]
    <3>1. pc[u] \in {"add", "close"} /\ at'[u] = at[u] /\ at[u] \in Port /\ at[u] # p
      BY <1>2, <1>4, <2>1 DEF Allocated
    <3>. QED
      BY <1>1, <1>2, <3>1 DEF OwnerOpen
  <2>. QED
    BY <1>2, <2>1 DEF OwnerOpen
<1>9. LockOK'
  BY <1>1, <1>2, <1>4 DEF LockOK
<1>10. SignalOK'
  BY <1>2, <1>4 DEF SignalOK
<1>. QED
  BY <1>2, <1>3, <1>5, <1>6, <1>7, <1>8, <1>9, <1>10

(* ts_tree_add(): the handle is not in the tree, whatever Windows reuses,  *)
(* because a handle of the tree is open for its port.                      *)
LEMMA AddInv ==
  ASSUME Inv, NEW t \in Thread, Add(t)
  PROVE  Inv'
<1>. USE DEF Inv, NeverHappens
<1>. DEFINE h == iocp[at[t]]
<1>1. /\ pc[t] = "add" /\ at[t] \in Port /\ life[at[t]] = "allocated"
      /\ h \in DOMAIN open /\ open[h] = at[t] /\ lock[at[t]] = "ok"
      /\ \A k \in DOMAIN tree : tree[k] # at[t]
      /\ \A u \in Thread : pc[u] \in Owning /\ at[u] = at[t] => u = t
  BY DEF Add, At, Allocated, OwnerOpen, LockOK, OneOwner, Owning
<1>2. h \notin DOMAIN tree
  BY <1>1 DEF TreeLive
<1>3. /\ DOMAIN tree' = DOMAIN tree \cup {h}
      /\ \A k \in DOMAIN tree' : tree'[k] = IF k = h THEN at[t] ELSE tree[k]
      /\ pc' = [pc EXCEPT ![t] = "idle"]
      /\ \A u \in Thread : pc'[u] = IF u = t THEN "idle" ELSE pc[u]
      /\ UNCHANGED <<open, life, iocp, refs, lock, at, arg, calls, failed>>
  BY <1>2 DEF Add, Goto, With, TypeOK
<1>4. TypeOK'
  <2>1. h \in Handle /\ pc' \in [Thread -> PC]
    BY <1>1, <1>3 DEF TypeOK, PC
  <2>. QED
    BY <1>1, <1>3, <2>1 DEF TypeOK
<1>5. RefsExact'
  <2>1. \A p \in Port : Users(p)' = Users(p)
    BY <1>1, <1>3 DEF Users, Counted
  <2>. QED
    BY <1>3, <2>1, SameUsers
<1>6. TreeLive' /\ Allocated'
  BY <1>1, <1>3 DEF TreeLive, Allocated
<1>7. OneOwner'
  BY <1>1, <1>3 DEF OneOwner, Owning, Closing
<1>8. OwnerOpen' /\ LockOK' /\ SignalOK'
  BY <1>1, <1>3 DEF OwnerOpen, LockOK, SignalOK
<1>. QED
  BY <1>3, <1>4, <1>5, <1>6, <1>7, <1>8

LEMMA BadHandleInv ==
  ASSUME Inv, NEW t \in Thread, NEW h \in Handle, BadHandle(t, h)
  PROVE  Inv'
<1>. USE DEF Inv, NeverHappens
<1>1. /\ pc' = pc /\ pc[t] = "idle"
      /\ \A u \in Thread : u # t => at'[u] = at[u]
      /\ at' \in [Thread -> Port \cup {Null}] /\ calls' \in [Thread -> 0 .. MaxCalls]
      /\ UNCHANGED <<tree, open, life, iocp, refs, lock, arg, failed>>
  <2>1. pc' = [pc EXCEPT ![t] = "idle"] /\ pc[t] = "idle"
    BY DEF BadHandle, Begin, At
  <2>. QED
    BY <2>1, FiniteAssumption DEF BadHandle, Begin, state, TypeOK
<1>2. TypeOK'
  BY <1>1 DEF TypeOK
<1>3. RefsExact'
  <2>1. \A p \in Port : Users(p)' = Users(p)
    BY <1>1 DEF Users, Counted
  <2>. QED
    BY <1>1, <2>1, SameUsers
<1>4. TreeLive' /\ Allocated'
  BY <1>1 DEF TreeLive, Allocated
<1>5. OneOwner' /\ OwnerOpen'
  BY <1>1 DEF OneOwner, OwnerOpen, Owning, Closing
<1>6. LockOK' /\ SignalOK'
  BY <1>1 DEF LockOK, SignalOK
<1>. QED
  BY <1>1, <1>2, <1>3, <1>4, <1>5, <1>6

(* ts_tree_find_and_ref(), which leaves the tree alone, and                *)
(* ts_tree_del_and_ref(), which makes the thread the owner of a port that  *)
(* had none.                                                               *)
LEMMA TakeRefInv ==
  ASSUME Inv, NEW t \in Thread, NEW h \in Handle, NEW left, NEW where,
         \/ where \in {"ctl", "wait"} /\ left = tree
         \/ where = "close" /\ left = Without(tree, h),
         TakeRef(t, h, left, where)
  PROVE  Inv'
<1>. USE DEF Inv, NeverHappens
<1>. DEFINE p == tree[h]
<1>1. /\ h \in DOMAIN tree /\ p \in Port /\ lock[p] = "ok" /\ life[p] = "allocated"
      /\ iocp[p] = h /\ h \in DOMAIN open /\ open[h] = p
      /\ \A u \in Thread : pc[u] \in Owning => at[u] # p
  BY DEF TakeRef, TreeLive, Allocated, OneOwner, TypeOK
<1>2. /\ pc[t] = "idle" /\ calls[t] < MaxCalls
      /\ where \in PC /\ where \in Counted /\ where \notin {"idle", "signal", "add"}
      /\ pc' = [pc EXCEPT ![t] = where] /\ at' = [at EXCEPT ![t] = p]
      /\ calls' = [calls EXCEPT ![t] = @ + 1]
      /\ tree' = left /\ refs' = [refs EXCEPT ![p] = @ + 1]
      /\ UNCHANGED <<open, life, iocp, lock, arg, failed>>
  BY <1>1 DEF TakeRef, Begin, At, PC, Counted
<1>3. /\ \A u \in Thread : pc'[u] = IF u = t THEN where ELSE pc[u]
      /\ \A u \in Thread : at'[u] = IF u = t THEN p ELSE at[u]
      /\ \A q \in Port : refs'[q] = IF q = p THEN refs[q] + 1 ELSE refs[q]
      /\ DOMAIN tree' \subseteq DOMAIN tree
      /\ \A k \in DOMAIN tree' : tree'[k] = tree[k] /\ (where = "close" => k # h)
  BY <1>2 DEF TypeOK, Without
<1>4. TypeOK'
  <2>1. /\ pc' \in [Thread -> PC] /\ at' \in [Thread -> Port \cup {Null}]
        /\ calls' \in [Thread -> 0 .. MaxCalls] /\ refs' \in [Port -> Nat]
    BY <1>1, <1>2, FiniteAssumption DEF TypeOK
  <2>. QED
    BY <1>2, <1>3, <2>1 DEF TypeOK
<1>5. RefsExact'
  <2>1. /\ t \notin Users(p)
        /\ \A q \in Port : Users(q)' = IF q = p THEN Users(p) \cup {t} ELSE Users(q)
    BY <1>2, <1>3 DEF Users, Counted
  <2>. QED
    BY <1>1, <1>2, <2>1, UserEnters
<1>6. TreeLive' /\ Allocated'
  BY <1>1, <1>2, <1>3 DEF TreeLive, Allocated
<1>7. OneOwner'
  <2>1. \A k \in DOMAIN tree' : where = "close" => tree'[k] # p
    BY <1>1, <1>3 DEF TreeLive
  <2>2. where # "close" => where \notin Owning
    BY DEF Owning, Closing
  <2>. QED
    BY <1>1, <1>3, <2>1, <2>2 DEF OneOwner, Owning
<1>8. OwnerOpen'
  BY <1>1, <1>2, <1>3 DEF OwnerOpen
<1>9. LockOK'
  <2>1. \A u \in Thread : pc[u] \in {"add", "close", "destroy", "await", "poison"} =>
          u # t /\ at[u] # p /\ at[u] \in Port
    BY <1>1, <1>2 DEF Owning, Closing, Allocated
  <2>2. where \notin {"add", "destroy", "await", "poison"}
    OBVIOUS
  <2>. QED
    BY <1>1, <1>2, <1>3, <2>1, <2>2 DEF LockOK
<1>10. SignalOK'
  (* Where somebody signals, somebody waits: an owner, so not at p.        *)
  <2>1. \A s \in Thread : pc[s] = "signal" => s # t /\ at[s] # p /\ at[s] \in Port
    BY <1>1, <1>2 DEF SignalOK, Owning, Closing, Allocated
  <2>. QED
    BY <1>2, <1>3, <2>1 DEF SignalOK
<1>. QED
  BY <1>2, <1>4, <1>5, <1>6, <1>7, <1>8, <1>9, <1>10

LEMMA PortCloseInv ==
  ASSUME Inv, NEW t \in Thread, PortClose(t)
  PROVE  Inv'
<1>. USE DEF Inv, NeverHappens
<1>. DEFINE h == iocp[at[t]]
<1>1. /\ pc[t] = "close" /\ at[t] \in Port /\ lock[at[t]] = "ok"
      /\ h \in DOMAIN open /\ open[h] = at[t]
      /\ \A k \in DOMAIN tree : tree[k] # at[t]
      /\ \A u \in Thread : pc[u] \in Owning /\ at[u] = at[t] => u = t
  BY DEF PortClose, At, Allocated, OwnerOpen, LockOK, OneOwner, Owning, Closing
<1>2. /\ DOMAIN open' = DOMAIN open \ {h}
      /\ \A k \in DOMAIN open' : open'[k] = open[k]
      /\ \A q \in Port : iocp'[q] = IF q = at[t] THEN Null ELSE iocp[q]
      /\ \A u \in Thread : pc'[u] = IF u = t THEN "destroy" ELSE pc[u]
      /\ UNCHANGED <<tree, life, refs, lock, at, arg, calls, failed>>
  BY <1>1 DEF PortClose, Goto, Without, TypeOK
<1>3. TypeOK'
  <2>1. pc' \in [Thread -> PC] /\ iocp' \in [Port -> Handle \cup {Null}]
    BY DEF PortClose, Goto, TypeOK, PC
  <2>. QED
    BY <1>2, <2>1 DEF TypeOK
<1>4. RefsExact'
  <2>1. \A p \in Port : Users(p)' = Users(p)
    BY <1>1, <1>2 DEF Users, Counted
  <2>. QED
    BY <1>2, <2>1, SameUsers
<1>5. TreeLive' /\ Allocated'
  BY <1>1, <1>2 DEF TreeLive, Allocated, TypeOK
<1>6. OneOwner'
  BY <1>1, <1>2 DEF OneOwner, Owning, Closing
<1>7. OwnerOpen'
  <2>1. ASSUME NEW u \in Thread, pc'[u] \in {"add", "close"}
        PROVE  iocp'[at'[u]] \in DOMAIN open' /\ open'[iocp'[at'[u]]] = at'[u]
    <3>1. u # t /\ pc[u] \in {"add", "close"} /\ at[u] # at[t] /\ at[u] \in Port
      BY <1>1, <1>2, <2>1 DEF Owning, Closing, Allocated
    <3>. QED
      BY <1>1, <1>2, <3>1 DEF OwnerOpen
  <2>. QED
    BY <2>1 DEF OwnerOpen
<1>8. LockOK' /\ SignalOK'
  BY <1>1, <1>2 DEF LockOK, SignalOK
<1>. QED
  BY <1>2, <1>3, <1>4, <1>5, <1>6, <1>7, <1>8

(* The owner gives up its reference and waits for the others, if any.      *)
LEMMA UnrefAndDestroyInv ==
  ASSUME Inv, NEW t \in Thread, UnrefAndDestroy(t)
  PROVE  Inv'
<1>. USE DEF Inv, NeverHappens
<1>. DEFINE p     == at[t]
            where == IF refs[p] = 1 THEN "poison" ELSE "await"
<1>1. /\ pc[t] = "destroy" /\ p \in Port /\ refs[p] \in Nat \ {0}
      /\ lock[p] = "ok" /\ life[p] = "allocated"
      /\ \A k \in DOMAIN tree : tree[k] # p
      /\ \A u \in Thread : pc[u] \in Owning /\ at[u] = p => u = t
  BY UserCounts DEF UnrefAndDestroy, At, Allocated, LockOK, OneOwner, Owning, Closing, Counted
<1>2. /\ refs' = [refs EXCEPT ![p] = @ - 1]
      /\ \A q \in Port : refs'[q] = IF q = p THEN refs[q] - 1 ELSE refs[q]
      /\ \A q \in Port : lock'[q] = IF q = p THEN "destroy" ELSE lock[q]
      /\ \A u \in Thread : pc'[u] = IF u = t THEN where ELSE pc[u]
      /\ UNCHANGED <<tree, open, life, iocp, at, arg, calls, failed>>
  BY <1>1 DEF UnrefAndDestroy, Goto, TypeOK
<1>3. TypeOK'
  <2>1. /\ pc' \in [Thread -> PC] /\ refs' \in [Port -> Nat]
        /\ lock' \in [Port -> {"ok", "destroy", "poison"}]
    BY <1>1, <1>2 DEF UnrefAndDestroy, Goto, TypeOK, PC
  <2>. QED
    BY <1>2, <2>1 DEF TypeOK
<1>4. RefsExact'
  <2>1. t \in Users(p) /\ \A q \in Port : Users(q)' = IF q = p THEN Users(p) \ {t} ELSE Users(q)
    BY <1>1, <1>2 DEF Users, Counted
  <2>. QED
    BY <1>1, <1>2, <2>1, UserLeaves
<1>5. TreeLive' /\ Allocated'
  BY <1>1, <1>2 DEF TreeLive, Allocated, TypeOK
<1>6. OneOwner' /\ OwnerOpen'
  BY <1>1, <1>2 DEF OneOwner, OwnerOpen, Owning, Closing
<1>7. \A u \in Thread : pc[u] \in Owning /\ u # t => at[u] # p /\ at[u] \in Port
  BY <1>1 DEF Allocated, Owning, Closing
<1>8. LockOK'
  BY <1>1, <1>2, <1>7 DEF LockOK, Owning, Closing
<1>9. SignalOK'
  <2>1. \A s \in Thread : pc[s] = "signal" => s # t /\ at[s] # p /\ at[s] \in Port
    BY <1>1, <1>7 DEF SignalOK, Owning, Closing, Allocated
  <2>. QED
    BY <1>1, <1>2, <2>1 DEF SignalOK
<1>. QED
  BY <1>2, <1>3, <1>4, <1>5, <1>6, <1>8, <1>9

(* port_delete(): no thread is in the port, nor will one come.             *)
LEMMA PortDeleteInv ==
  ASSUME Inv, NEW t \in Thread, PortDelete(t)
  PROVE  Inv'
<1>. USE DEF Inv, NeverHappens
<1>. DEFINE p == at[t]
<1>1. /\ pc[t] = "poison" /\ p \in Port /\ refs[p] = 0
      /\ lock[p] = "destroy" /\ life[p] = "allocated"
      /\ \A k \in DOMAIN tree : tree[k] # p
      /\ \A u \in Thread : pc[u] \in Owning /\ at[u] = p => u = t
  BY DEF PortDelete, At, Allocated, LockOK, OneOwner, Owning, Closing
<1>2. /\ \A q \in Port : /\ lock'[q] = IF q = p THEN "poison" ELSE lock[q]
                        /\ life'[q] = IF q = p THEN "freed" ELSE life[q]
      /\ \A u \in Thread : pc'[u] = IF u = t THEN "idle" ELSE pc[u]
      /\ UNCHANGED <<tree, open, iocp, refs, at, arg, calls, failed>>
  BY <1>1 DEF PortDelete, Goto, TypeOK
<1>3. TypeOK'
  <2>1. /\ pc' \in [Thread -> PC] /\ life' \in [Port -> {"unused", "allocated", "freed"}]
        /\ lock' \in [Port -> {"ok", "destroy", "poison"}]
    BY <1>1 DEF PortDelete, Goto, TypeOK, PC
  <2>. QED
    BY <1>2, <2>1 DEF TypeOK
(* A counted thread would have a reference, an owner would be t, and a     *)
(* thread about to signal would have a waiting owner.                      *)
<1>4. \A u \in Thread : u # t /\ pc[u] # "idle" => at[u] # p
  <2>1. \A u \in Thread : pc[u] \in Counted => at[u] # p
    BY <1>1, UserCounts
  <2>2. \A u \in Thread : pc[u] = "signal" => at[u] # p
    BY <1>1 DEF SignalOK, Owning, Closing
  <2>3. \A u \in Thread : pc[u] \in {"idle", "signal"} \cup Counted \cup Owning
    BY DEF TypeOK, PC, Counted, Owning, Closing
  <2>. QED
    BY <1>1, <2>1, <2>2, <2>3
<1>5. RefsExact'
  <2>1. \A q \in Port : Users(q)' = Users(q)
    BY <1>1, <1>2 DEF Users, Counted
  <2>. QED
    BY <1>2, <2>1, SameUsers
<1>6. TreeLive' /\ Allocated'
  BY <1>1, <1>2, <1>4 DEF TreeLive, Allocated, TypeOK
<1>7. OneOwner' /\ OwnerOpen'
  BY <1>1, <1>2 DEF OneOwner, OwnerOpen, Owning, Closing
<1>8. LockOK'
  <2>1. \A u \in Thread : pc[u] \in {"add", "close", "destroy", "await", "poison"} /\ u # t =>
          at[u] # p /\ at[u] \in Port
    BY <1>4 DEF Allocated
  <2>. QED
    BY <1>1, <1>2, <2>1 DEF LockOK
<1>9. SignalOK'
  BY <1>1, <1>2 DEF SignalOK
<1>. QED
  BY <1>2, <1>3, <1>5, <1>6, <1>7, <1>8, <1>9

(* ts_tree_node_unref(): the last user of a port whose owner waits, and    *)
(* only that one, goes on to signal.                                       *)
LEMMA UnrefInv ==
  ASSUME Inv, NEW t \in Thread, Unref(t)
  PROVE  Inv'
<1>. USE DEF Inv, NeverHappens
<1>. DEFINE p     == at[t]
            last  == lock[p] = "destroy" /\ refs[p] = 1
            where == IF last THEN "signal" ELSE "idle"
<1>1. /\ pc[t] = "unref" /\ p \in Port /\ refs[p] \in Nat \ {0} /\ life[p] = "allocated"
      /\ lock[p] # "poison"
  BY UserCounts DEF Unref, At, Allocated, LockOK, Counted
<1>2. /\ refs' = [refs EXCEPT ![p] = @ - 1]
      /\ \A q \in Port : refs'[q] = IF q = p THEN refs[q] - 1 ELSE refs[q]
      /\ \A u \in Thread : pc'[u] = IF u = t THEN where ELSE pc[u]
      /\ UNCHANGED <<tree, open, life, iocp, lock, at, arg, calls, failed>>
  BY <1>1 DEF Unref, Goto, TypeOK
<1>3. TypeOK'
  <2>1. pc' \in [Thread -> PC] /\ refs' \in [Port -> Nat]
    BY <1>1, <1>2 DEF Unref, Goto, TypeOK, PC
  <2>. QED
    BY <1>2, <2>1 DEF TypeOK
<1>4. RefsExact'
  <2>1. t \in Users(p) /\ \A q \in Port : Users(q)' = IF q = p THEN Users(p) \ {t} ELSE Users(q)
    BY <1>1, <1>2 DEF Users, Counted
  <2>. QED
    BY <1>1, <1>2, <2>1, UserLeaves
<1>5. TreeLive' /\ Allocated'
  BY <1>1, <1>2 DEF TreeLive, Allocated
<1>6. OneOwner' /\ OwnerOpen'
  BY <1>1, <1>2 DEF OneOwner, OwnerOpen, Owning, Closing
(* While t holds a reference nobody signals here and the owner, if the     *)
(* flag is up, is still waiting.                                           *)
<1>7. \A u \in Thread : pc[u] \in {"signal", "poison"} => u # t /\ at[u] # p /\ at[u] \in Port
  BY <1>1 DEF SignalOK, LockOK, Allocated
<1>8. LockOK'
  BY <1>1, <1>2, <1>7 DEF LockOK
<1>9. SignalOK'
  <2>1. last => \E w \in Thread : pc[w] = "await" /\ at[w] = p
    BY <1>1, <1>7 DEF LockOK
  <2>2. ASSUME NEW s \in Thread, pc'[s] = "signal"
        PROVE  /\ refs'[at'[s]] = 0
               /\ \E w \in Thread : pc'[w] = "await" /\ at'[w] = at'[s]
               /\ \A u \in Thread : pc'[u] = "signal" /\ at'[u] = at'[s] => u = s
    <3>1. CASE s = t
      BY <1>1, <1>2, <1>7, <2>1, <2>2, <3>1
    <3>2. CASE s # t
      <4>1. pc[s] = "signal" /\ at[s] # p /\ at[s] \in Port
        BY <1>2, <1>7, <2>2, <3>2
      <4>. QED
        BY <1>1, <1>2, <4>1 DEF SignalOK
    <3>. QED
      BY <3>1, <3>2
  <2>. QED
    BY <2>2 DEF SignalOK
<1>. QED
  BY <1>2, <1>3, <1>4, <1>5, <1>6, <1>8, <1>9

(* The owner is woken by the one thread that signals.                      *)
LEMMA RendezvousInv ==
  ASSUME Inv, NEW s \in Thread, NEW w \in Thread, Rendezvous(s, w)
  PROVE  Inv'
<1>. USE DEF Inv, NeverHappens
<1>. DEFINE p == at[s]
<1>1. /\ pc[s] = "signal" /\ pc[w] = "await" /\ at[w] = p /\ s # w
      /\ p \in Port /\ refs[p] = 0
      /\ \A u \in Thread : pc[u] = "signal" /\ at[u] = p => u = s
      /\ \A u \in Thread : pc[u] \in Owning /\ at[u] = p => u = w
  BY DEF Rendezvous, At, SignalOK, Allocated, OneOwner, Owning, Closing
<1>2. /\ \A u \in Thread : pc'[u] = IF u = s THEN "idle" ELSE IF u = w THEN "poison" ELSE pc[u]
      /\ UNCHANGED <<tree, open, life, iocp, refs, lock, at, arg, calls, failed>>
  BY <1>1 DEF Rendezvous, state, TypeOK
<1>3. TypeOK'
  <2>1. pc' \in [Thread -> PC]
    BY DEF Rendezvous, TypeOK, PC
  <2>. QED
    BY <1>2, <2>1 DEF TypeOK
<1>4. RefsExact'
  <2>1. \A q \in Port : Users(q)' = Users(q)
    BY <1>1, <1>2 DEF Users, Counted
  <2>. QED
    BY <1>2, <2>1, SameUsers
<1>5. TreeLive' /\ Allocated'
  BY <1>1, <1>2 DEF TreeLive, Allocated
<1>6. OneOwner' /\ OwnerOpen'
  BY <1>1, <1>2 DEF OneOwner, OwnerOpen, Owning, Closing
<1>7. LockOK' /\ SignalOK'
  BY <1>1, <1>2 DEF LockOK, SignalOK
<1>. QED
  BY <1>2, <1>3, <1>4, <1>5, <1>6, <1>7
-----------------------------------------------------------------------------
LEMMA NextInv == Inv /\ [Next]_vars => Inv'
<1>. SUFFICES ASSUME Inv, [Next]_vars PROVE Inv'
  OBVIOUS
<1>1. ASSUME NEW t \in Thread, Call(t) PROVE Inv'
  <2>1. PICK h \in Handle : \/ \E p \in Port : Create(t, p, h)
                            \/ Close(t, h) \/ Use(t, h, "ctl") \/ Use(t, h, "wait")
    BY <1>1 DEF Call
  <2>2. CASE \E p \in Port : Create(t, p, h)
    BY <2>2, CreateInv
  <2>3. CASE Close(t, h)
    BY <2>3, TakeRefInv, BadHandleInv DEF Close
  <2>4. CASE Use(t, h, "ctl") \/ Use(t, h, "wait")
    BY <2>4, TakeRefInv, BadHandleInv DEF Use
  <2>. QED
    BY <2>1, <2>2, <2>3, <2>4
<1>2. ASSUME NEW t \in Thread, Step(t) \/ WakePacket(t) PROVE Inv'
  BY <1>2, AddInv, PortCloseInv, UnrefAndDestroyInv, PortDeleteInv, UnrefInv, RendezvousInv,
     PlainSteps DEF Step
<1>3. CASE UNCHANGED vars
  BY <1>3 DEF vars, state, Inv, NeverHappens, TypeOK, RefsExact, TreeLive, Allocated,
              OneOwner, OwnerOpen, LockOK, SignalOK
<1>. QED
  BY <1>1, <1>2, <1>3 DEF Next

LEMMA HandleInvariant == Spec => []Inv
  BY InitInv, NextInv, PTL DEF Spec

(* The reference count of every port is the number of threads in it        *)
(* (wepoll.c:1555-1590).                                                   *)
THEOREM CountsAreExact == Spec => []RefsExact
<1>1. Inv => RefsExact
  BY DEF Inv
<1>. QED
  BY <1>1, HandleInvariant, PTL

(* However epoll_close() races with the other calls on its handle, no      *)
(* thread is left in a port that was freed (wepoll.c:592-617, 1573-1590).  *)
THEOREM NobodyInFreedPort == Spec => []NoUseAfterFree
<1>1. Inv => NoUseAfterFree
  BY DEF Inv, Allocated, NoUseAfterFree
<1>. QED
  BY <1>1, HandleInvariant, PTL

(* The tree hands out ports that are open under the handle asked for.      *)
THEOREM TreeIsLive == Spec => []TreeLive
<1>1. Inv => TreeLive
  BY DEF Inv
<1>. QED
  BY <1>1, HandleInvariant, PTL

(* "This should never happen" (wepoll.c:570) does not, and the assertions  *)
(* of the reflock hold, also when Windows gives a handle out again.        *)
THEOREM ReuseIsHarmless == Spec => []NeverHappens
<1>1. Inv => NeverHappens
  BY DEF Inv
<1>. QED
  BY <1>1, HandleInvariant, PTL
=============================================================================
