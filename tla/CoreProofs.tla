----------------------------- MODULE CoreProofs -----------------------------
(***************************************************************************)
(* The safety properties of the package core, of Net and of PollerNodes,   *)
(* for every set of threads, sockets and nodes and every number of calls.  *)
(*                                                                         *)
(* Net. LifeCycleOnce and MutexHeld carry themselves from state to state;  *)
(* Singleton does not: it needs what the flag promises about the           *)
(* constructor that has taken it and has not ended.                        *)
(*                                                                         *)
(* PollerNodes. A node's way is: opened, put, in the map, being closed,    *)
(* closed; the invariant says for each place who owns the socket number,   *)
(* which is what a close() by number and the reuse of numbers could get    *)
(* wrong.                                                                  *)
(***************************************************************************)
EXTENDS Net, PollerNodes, TLAPS

(* The threads that won the flag and are still looking at their arguments. *)
Winners == {t \in Thread : pc[t] = <<"new", "check">>}

(* The flag lets one constructor through, which has not made its Net until *)
(* it ends, and stays up (Net.java:39).                                    *)
OneWinner ==
  /\ \A t, u \in Winners : t = u
  /\ Winners # {} => made = 0
  /\ Winners # {} \/ made > 0 => instanceFlag

NetInv == RacesSafe /\ OneWinner

Held(p) == p \in Ops \X {"body", "unlock"}
-----------------------------------------------------------------------------
LEMMA InIsHeld == \A t \in Thread : In(t, Ops) <=> Held(pc[t])
  BY DEF In, Held

(* Of a thread's places, those that Held and Doing tell apart.             *)
LEMMA NetPlaces ==
  /\ ~Held(AtRest) /\ AtRest \in PC
  /\ \A where \in {"cas", "check"} : ~Held(<<"new", where>>) /\ <<"new", where>> \in PC
  /\ \A op \in LifeCycleOps : ~Held(<<op, "cas">>) /\ <<op, "cas">> \in PC
  /\ \A op \in Ops : /\ ~Held(<<op, "lock">>) /\ <<op, "lock">> \in PC
                     /\ \A where \in {"body", "unlock"} :
                          Held(<<op, where>>) /\ <<op, where>> \in PC
  BY DEF Held, AtRest, PC, Ops, LifeCycleOps

LEMMA NetInitInv == NetInit => NetInv
<1>. SUFFICES ASSUME NetInit PROVE NetInv
  OBVIOUS
<1>1. NetTypeOK
  <2>1. calls \in [Thread -> 0 .. MaxCalls]
    BY CallsAssumption DEF NetInit
  <2>2. pc \in [Thread -> PC] /\ state \in Int
    BY NetPlaces DEF NetInit, INITIAL
  <2>. QED
    BY <2>1, <2>2 DEF NetInit, NetTypeOK
<1>2. Singleton /\ OneWinner
  BY DEF NetInit, Singleton, OneWinner, Winners, AtRest
<1>3. MutexHeld
  BY NobodyAssumption, InIsHeld, NetPlaces DEF NetInit, MutexHeld
<1>4. LifeCycleOnce
  BY DEF NetInit, LifeCycleOnce, Doing, AtRest, LifeCycleOps
<1>. QED
  BY <1>1, <1>2, <1>3, <1>4 DEF NetInv, RacesSafe
-----------------------------------------------------------------------------
(* A step of one thread that changes neither the mutex, the flag nor the   *)
(* lifecycle and its counts, makes no Net and moves the thread to a place  *)
(* where it stands to them as before, keeps all but the type invariant.    *)
LEMMA MovesKeep ==
  ASSUME NetInv, NEW t \in Thread, NEW p \in PC,
         pc' = [pc EXCEPT ![t] = p],
         UNCHANGED <<instanceFlag, made, entered, lifecycle, mutex>>,
         Held(p) <=> Held(pc[t]),
         p # <<"new", "check">>,
         \A op \in LifeCycleOps :
           p \in {op} \X {"lock", "body", "unlock"}
             => pc[t] \in {op} \X {"lock", "body", "unlock"}
  PROVE  Singleton' /\ MutexHeld' /\ LifeCycleOnce' /\ OneWinner'
<1>. USE DEF NetInv, RacesSafe
<1>1. \A u \in Thread : pc'[u] = IF u = t THEN p ELSE pc[u]
  BY DEF NetTypeOK
<1>2. Singleton'
  BY DEF Singleton
<1>3. MutexHeld'
  <2>1. \A u \in Thread : Held(pc'[u]) <=> Held(pc[u])
    BY <1>1
  <2>2. \A u \in Thread : In(u, Ops)' <=> Held(pc'[u])
    BY InIsHeld DEF In, Held
  <2>. QED
    BY <2>1, <2>2, InIsHeld DEF MutexHeld
<1>4. LifeCycleOnce'
  <2>1. \A op \in LifeCycleOps : Doing(op)' \subseteq Doing(op)
    BY <1>1 DEF Doing
  <2>. QED
    BY <2>1 DEF LifeCycleOnce
<1>5. OneWinner'
  <2>1. Winners' \subseteq Winners
    BY <1>1 DEF Winners
  <2>. QED
    BY <2>1 DEF OneWinner
<1>. QED
  BY <1>2, <1>3, <1>4, <1>5

LEMMA BeginType ==
  ASSUME NetTypeOK, NEW t \in Thread, NEW p \in PC, Begin(t, p)
  PROVE  NetTypeOK'
  BY CallsAssumption DEF Begin, NetTypeOK

LEMMA StepType ==
  ASSUME NetTypeOK, NEW t \in Thread, Step(t)
  PROVE  NetTypeOK'
<1>. USE DEF NetTypeOK, Go, Finish
<1>1. CASE NewNull(t) \/ NewCas(t)
  BY <1>1, NetPlaces DEF NewNull, NewCas
<1>2. CASE \E pollerCount, writerCount \in 0 .. 1 : NewCheck(t, pollerCount, writerCount)
  BY <1>2, NetPlaces DEF NewCheck
<1>3. CASE InitCas(t)
  BY <1>3, NetPlaces DEF InitCas, LifeCycleCas, Ops, LifeCycleOps
<1>4. CASE ExitCas(t)
  BY <1>4, NetPlaces DEF ExitCas, LifeCycleCas, Ops, LifeCycleOps
<1>5. CASE Lock(t)
  BY <1>5, NetPlaces DEF Lock
<1>6. CASE DoInitExit(t)
  BY <1>6, NetPlaces DEF DoInitExit, Ops
<1>7. CASE AddListener(t)
  BY <1>7, NetPlaces DEF AddListener, Ops
<1>8. CASE Unlock(t)
  BY <1>8, NetPlaces DEF Unlock
<1>. QED
  BY <1>1, <1>2, <1>3, <1>4, <1>5, <1>6, <1>7, <1>8 DEF Step
-----------------------------------------------------------------------------
LEMMA NetNextInv == NetInv /\ [NetNext]_netVars => NetInv'
<1>. SUFFICES ASSUME NetInv, [NetNext]_netVars PROVE NetInv'
  OBVIOUS
<1>. USE DEF NetInv, RacesSafe
<1>1. ASSUME NEW t \in Thread, CallNew(t) \/ CallInit(t) \/ CallExit(t) \/ CallAddListener(t)
      PROVE  NetInv'
  <2>1. PICK p \in {<<"new", "cas">>, <<"init", "cas">>, <<"exit", "cas">>,
                    <<"addListener", "lock">>} : Begin(t, p)
    BY <1>1 DEF CallNew, CallInit, CallExit, CallAddListener
  <2>2. p \in PC /\ ~Held(p) /\ ~Held(pc[t])
    BY <2>1, NetPlaces DEF Begin, Ops, LifeCycleOps
  <2>3. \A op \in LifeCycleOps : p \notin {op} \X {"lock", "body", "unlock"}
    BY <2>1 DEF LifeCycleOps
  <2>. QED
    <3>1. NetTypeOK'
      BY <2>1, <2>2, BeginType
    <3>2. p # <<"new", "check">>
      BY <2>1
    <3>3. Singleton' /\ MutexHeld' /\ LifeCycleOnce' /\ OneWinner'
      BY <2>1, <2>2, <2>3, <3>2, MovesKeep DEF Begin
    <3>. QED
      BY <3>1, <3>3
<1>2. ASSUME NEW t \in Thread, Step(t) PROVE NetInv'
  <2>1. NetTypeOK'
    BY <1>2, StepType
  <2>0. CASE NewNull(t)
    BY <2>1, <2>0, NetPlaces, MovesKeep DEF NewNull, Finish, AtRest, LifeCycleOps
  <2>2. CASE NewCas(t)
    <3>1. CASE instanceFlag
      BY <2>1, <2>2, <3>1, NetPlaces, MovesKeep DEF NewCas, Finish, AtRest
    (* The flag was down: nobody had won it.                               *)
    <3>2. CASE ~instanceFlag
      <4>1. /\ Winners = {} /\ made = 0 /\ made' = made /\ instanceFlag' = TRUE
            /\ \A u \in Thread : pc'[u] = IF u = t THEN <<"new", "check">> ELSE pc[u]
        BY <2>2, <3>2 DEF NewCas, Go, OneWinner, NetTypeOK
      <4>2. Winners' \subseteq {t}
        BY <4>1 DEF Winners
      <4>3. OneWinner' /\ Singleton'
        BY <4>1, <4>2 DEF OneWinner, Singleton
      <4>4. MutexHeld'
        <5>1. \A u \in Thread : Held(pc'[u]) <=> Held(pc[u])
          BY <2>2, <4>1, NetPlaces DEF NewCas
        <5>2. \A u \in Thread : In(u, Ops)' <=> Held(pc'[u])
          BY DEF In, Held
        <5>. QED
          BY <5>1, <5>2, <2>2, InIsHeld DEF MutexHeld, NewCas
      <4>5. LifeCycleOnce'
        <5>1. \A op \in LifeCycleOps : Doing(op)' \subseteq Doing(op)
          BY <4>1 DEF Doing
        <5>. QED
          BY <5>1, <2>2 DEF LifeCycleOnce, NewCas
      <4>. QED
        BY <2>1, <4>3, <4>4, <4>5
    <3>. QED
      BY <3>1, <3>2 DEF NetTypeOK
  <2>3. CASE \E pollerCount, writerCount \in 0 .. 1 : NewCheck(t, pollerCount, writerCount)
    <3>1. /\ made' \in {made, made + 1} /\ pc[t] = <<"new", "check">>
          /\ \A u \in Thread : pc'[u] = IF u = t THEN AtRest ELSE pc[u]
          /\ UNCHANGED <<instanceFlag, entered, lifecycle, mutex>>
      BY <2>3 DEF NewCheck, Finish, NetTypeOK
    <3>2. OneWinner' /\ Singleton'
      <4>1. t \in Winners /\ t \notin Winners' /\ Winners' \subseteq Winners
        BY <3>1 DEF Winners, AtRest
      <4>2. made = 0 /\ instanceFlag /\ Winners' = {}
        BY <4>1 DEF OneWinner
      <4>. QED
        BY <3>1, <4>2 DEF OneWinner, Singleton
    <3>3. MutexHeld'
      <4>1. \A u \in Thread : Held(pc'[u]) <=> Held(pc[u])
        BY <3>1, NetPlaces
      <4>2. \A u \in Thread : In(u, Ops)' <=> Held(pc'[u])
        BY DEF In, Held
      <4>. QED
        BY <3>1, <4>1, <4>2, InIsHeld DEF MutexHeld
    <3>4. LifeCycleOnce'
      <4>1. \A op \in LifeCycleOps : Doing(op)' \subseteq Doing(op)
        BY <3>1 DEF Doing, AtRest
      <4>. QED
        BY <3>1, <4>1 DEF LifeCycleOnce
    <3>. QED
      BY <2>1, <3>2, <3>3, <3>4
  <2>4. CASE InitCas(t) \/ ExitCas(t)
    <3>1. PICK op \in LifeCycleOps :
            LifeCycleCas(t, op, IF op = "init" THEN INITIAL ELSE RUNNING,
                                IF op = "init" THEN RUNNING ELSE STOPPED)
      BY <2>4 DEF InitCas, ExitCas, LifeCycleOps
    <3>. DEFINE from == IF op = "init" THEN INITIAL ELSE RUNNING
    <3>2. CASE lifecycle # from
      BY <2>1, <3>1, <3>2, NetPlaces, MovesKeep DEF LifeCycleCas, Finish, AtRest
    (* The compare-and-set succeeds: nobody was doing op.                  *)
    <3>3. CASE lifecycle = from
      <4>1. /\ \A u \in Thread : pc'[u] = IF u = t THEN <<op, "lock">> ELSE pc[u]
            /\ pc[t] = <<op, "cas">>
            /\ lifecycle' = IF op = "init" THEN RUNNING ELSE STOPPED
            /\ entered' = [entered EXCEPT ![op] = @ + 1]
            /\ UNCHANGED <<instanceFlag, made, mutex>>
        BY <3>1, <3>3 DEF LifeCycleCas, Go, NetTypeOK
      <4>2. OneWinner' /\ Singleton'
        <5>1. Winners' \subseteq Winners
          BY <4>1 DEF Winners
        <5>. QED
          BY <4>1, <5>1 DEF OneWinner, Singleton
      <4>3. MutexHeld'
        <5>1. \A u \in Thread : Held(pc'[u]) <=> Held(pc[u])
          BY <4>1, NetPlaces DEF Ops
        <5>2. \A u \in Thread : In(u, Ops)' <=> Held(pc'[u])
          BY DEF In, Held
        <5>. QED
          BY <4>1, <5>1, <5>2, InIsHeld DEF MutexHeld
      <4>4. LifeCycleOnce'
        <5>1. /\ entered \in [LifeCycleOps -> Nat] /\ {"init", "exit"} = LifeCycleOps
              /\ entered["init"] \in Nat /\ entered["exit"] \in Nat
          BY DEF NetTypeOK, LifeCycleOps
        (* Nobody had made this call before, nor the later one.            *)
        <5>2. /\ entered[op] = 0 /\ entered["exit"] = 0
              /\ op = "exit" => entered["init"] = 1
          BY <3>3, <5>1 DEF LifeCycleOnce, INITIAL, RUNNING, STOPPED
        <5>3. \A o \in LifeCycleOps : entered'[o] = IF o = op THEN 1 ELSE entered[o]
          BY <4>1, <5>1, <5>2
        <5>4. Doing(op) = {}
          BY <5>2 DEF LifeCycleOnce
        <5>5. Doing(op)' \subseteq {t}
          BY <4>1, <5>4 DEF Doing
        <5>6. \A o \in LifeCycleOps : o # op => Doing(o)' \subseteq Doing(o)
          BY <4>1 DEF Doing
        <5>7. \A o \in LifeCycleOps : /\ \A u, v \in Doing(o)' : u = v
                                      /\ Doing(o)' # {} => entered'[o] > 0
          BY <5>3, <5>5, <5>6 DEF LifeCycleOnce
        <5>8. /\ entered'["init"] = 1 /\ entered'["exit"] = IF op = "exit" THEN 1 ELSE 0
              /\ op \in {"init", "exit"}
          BY <5>1, <5>2, <5>3
        <5>. QED
          BY <4>1, <5>7, <5>8 DEF LifeCycleOnce
      <4>. QED
        BY <2>1, <4>2, <4>3, <4>4
    <3>. QED
      BY <3>2, <3>3
  <2>5. CASE Lock(t)
    <3>1. PICK op \in Ops :
            /\ pc[t] = <<op, "lock">> /\ mutex = Nobody /\ mutex' = t
            /\ \A u \in Thread : pc'[u] = IF u = t THEN <<op, "body">> ELSE pc[u]
            /\ UNCHANGED <<instanceFlag, made, entered, lifecycle>>
      BY <2>5 DEF Lock, Go, NetTypeOK
    <3>2. OneWinner' /\ Singleton'
      <4>1. Winners' \subseteq Winners
        BY <3>1 DEF Winners
      <4>. QED
        BY <3>1, <4>1 DEF OneWinner, Singleton
    (* Nobody held it, so nobody was inside.                               *)
    <3>3. MutexHeld'
      <4>1. \A u \in Thread : ~Held(pc[u])
        BY <3>1, InIsHeld, NobodyAssumption DEF MutexHeld
      <4>2. \A u \in Thread : Held(pc'[u]) <=> u = t
        BY <3>1, <4>1, NetPlaces
      <4>3. \A u \in Thread : In(u, Ops)' <=> Held(pc'[u])
        BY DEF In, Held
      <4>. QED
        BY <3>1, <4>2, <4>3 DEF MutexHeld
    <3>4. LifeCycleOnce'
      <4>1. \A o \in LifeCycleOps : Doing(o)' \subseteq Doing(o)
        BY <3>1 DEF Doing
      <4>. QED
        BY <3>1, <4>1 DEF LifeCycleOnce
    <3>. QED
      BY <2>1, <3>2, <3>3, <3>4
  <2>6. CASE DoInitExit(t)
    <3>1. PICK op \in LifeCycleOps :
            pc[t] = <<op, "body">> /\ pc' = [pc EXCEPT ![t] = <<op, "unlock">>]
      BY <2>6 DEF DoInitExit
    <3>2. /\ <<op, "unlock">> \in PC /\ Held(<<op, "unlock">>) /\ Held(pc[t])
          /\ \A o \in LifeCycleOps :
               <<op, "unlock">> \in {o} \X {"lock", "body", "unlock"}
                 => pc[t] \in {o} \X {"lock", "body", "unlock"}
      BY <3>1, NetPlaces DEF Ops, LifeCycleOps
    <3>. QED
      BY <2>1, <2>6, <3>1, <3>2, MovesKeep DEF DoInitExit
  <2>7. CASE AddListener(t)
    BY <2>1, <2>7, NetPlaces, MovesKeep DEF AddListener, Ops, LifeCycleOps
  <2>8. CASE Unlock(t)
    <3>1. PICK op \in Ops :
            /\ pc[t] = <<op, "unlock">> /\ mutex' = Nobody
            /\ \A u \in Thread : pc'[u] = IF u = t THEN AtRest ELSE pc[u]
            /\ UNCHANGED <<instanceFlag, made, entered, lifecycle>>
      BY <2>8 DEF Unlock, Go, NetTypeOK
    <3>2. OneWinner' /\ Singleton'
      <4>1. Winners' \subseteq Winners
        BY <3>1 DEF Winners, AtRest
      <4>. QED
        BY <3>1, <4>1 DEF OneWinner, Singleton
    (* The mutex was t's, so t was the only thread inside.                 *)
    <3>3. MutexHeld'
      <4>1. \A u \in Thread : u # t => ~Held(pc[u])
        BY <3>1, InIsHeld, NetPlaces DEF MutexHeld
      <4>2. \A u \in Thread : ~Held(pc'[u])
        BY <3>1, <4>1, NetPlaces
      <4>3. \A u \in Thread : In(u, Ops)' <=> Held(pc'[u])
        BY DEF In, Held
      <4>. QED
        BY <3>1, <4>2, <4>3, NobodyAssumption DEF MutexHeld
    <3>4. LifeCycleOnce'
      <4>1. \A o \in LifeCycleOps : Doing(o)' \subseteq Doing(o)
        BY <3>1 DEF Doing, AtRest
      <4>. QED
        BY <3>1, <4>1 DEF LifeCycleOnce
    <3>. QED
      BY <2>1, <3>2, <3>3, <3>4
  <2>. QED
    BY <1>2, <2>0, <2>2, <2>3, <2>4, <2>5, <2>6, <2>7, <2>8 DEF Step
<1>3. CASE UNCHANGED netVars
  BY <1>3 DEF netVars, NetTypeOK, Singleton, MutexHeld, In, LifeCycleOnce, Doing, OneWinner, Winners
<1>. QED
  BY <1>1, <1>2, <1>3 DEF NetNext
-----------------------------------------------------------------------------
(* However many threads construct, start, use and stop Net, and however    *)
(* often, one Net is made at most, the mutex is held by exactly the thread *)
(* in its block, doInit() is called once at most, doExit() once at most    *)
(* and after it, and the lifecycle word says which of the two have been    *)
(* (Net.java:34-79, AbstractLifeCycle.java:26-39).                         *)
THEOREM RacesAreSafe == NetSpec => []RacesSafe
<1>1. NetInv => RacesSafe
  BY DEF NetInv
<1>. QED
  BY NetInitInv, NetNextInv, <1>1, PTL DEF NetSpec
-----------------------------------------------------------------------------
Owns(n) == node[n].fd \in DOMAIN open /\ open[node[n].fd] = n

InMap(n) == \E fd \in DOMAIN map : map[fd] = n

(* What a node is owed before it is put, and until doClose() has run: its  *)
(* socket stays its own, and nothing was done to it yet.                   *)
Ownership ==
  /\ \A n \in PNode : InMap(n) \/ InClose(n) => n \in put
  /\ \A n \in PNode : n \in put => node[n] # Unused
  /\ \A n \in PNode : n \notin put =>
       /\ node[n] # Unused => Owns(n)
       /\ doCloses[n] = 0 /\ started[n] = 0
  /\ \A n \in PNode : InClose(n) => node[n].kind = "Sentry"
  /\ \A n \in PNode : closing = <<"doClose", n>> =>
       Owns(n) /\ node[n].fd \notin DOMAIN map

(* ClosedOnce of one node.                                                 *)
Once(n) ==
  n \in put /\ node[n].kind = "Sentry" =>
    /\ InMap(n) => ~InClose(n)
    /\ doCloses[n] = IF InMap(n) \/ closing = <<"doClose", n>> THEN 0 ELSE 1
    /\ started[n] = IF ~InMap(n) /\ ~InClose(n) /\ node[n].callback THEN 1 ELSE 0

Inv == EntryOwnsSocket /\ Ownership /\ \A n \in PNode : Once(n)
-----------------------------------------------------------------------------
LEMMA InvGivesClosedOnce == Inv => ClosedOnce
  BY DEF Inv, Once, InMap, ClosedOnce, InClose, EntryOwnsSocket, TypeOK

(* A socket that was opened for a node that is yet to be put is no entry's.*)
LEMMA InvGivesPutIsFresh == Inv => PutIsFresh
  BY DEF Inv, PutIsFresh, EntryOwnsSocket, TypeOK, Ownership, Owns, InMap

(* A node has one place in the map: its own socket.                        *)
LEMMA OnePlace ==
  ASSUME EntryOwnsSocket, NEW n \in PNode
  PROVE  InMap(n) <=> node[n].fd \in DOMAIN map /\ map[node[n].fd] = n
  BY DEF EntryOwnsSocket, InMap

LEMMA UsedNode ==
  ASSUME TypeOK, NEW n \in PNode, node[n] # Unused
  PROVE  node[n] \in [kind : {"Sentry", "Protocol"}, fd : Fd, callback : BOOLEAN]
  BY DEF TypeOK

(* close() either finds the node's entry, takes it out and goes on with a  *)
(* sentry, or changes nothing.                                             *)
LEMMA CloseEffect ==
  ASSUME NEW n \in PNode, Close(n)
  PROVE  /\ escaped' = Null
         /\ \/ /\ node[n].fd \in DOMAIN map /\ map[node[n].fd] = n
               /\ map' = [fd \in DOMAIN map \ {node[n].fd} |-> map[fd]]
               /\ closing' = IF node[n].kind = "Sentry" THEN <<"doClose", n>> ELSE Idle
            \/ map' = map /\ closing' = Idle
  BY DEF Close, NodeMap!MapRemove, NodeMap!dom

(* An event is answered by close() or leaves the map and the node alone.   *)
LEMMA EventEffect ==
  ASSUME NEW n \in PNode, NEW outcome \in Outcomes, OnEvent(n, outcome)
  PROVE  Close(n) \/ \E e \in Outcomes \cup {Null} : EndsWith(e)
<1>1. outcome \in Codes \/ outcome \in {FrameworkException, RuntimeException}
  BY DEF Outcomes
<1>2. {FrameworkException, RuntimeException} \subseteq Outcomes
  BY DEF Outcomes
<1>. QED
  BY <1>1, <1>2 DEF OnEvent, SentryEvent, ProtocolEvent
-----------------------------------------------------------------------------
LEMMA InitInv == Init => Inv
<1>. SUFFICES ASSUME Init PROVE Inv
  OBVIOUS
<1>1. map = [v \in {} |-> Null] /\ DOMAIN map = {} /\ DOMAIN open = {}
  BY DEF Init, NodeMap!MapInit
<1>2. TypeOK
  BY <1>1 DEF Init, TypeOK
<1>. QED
  BY <1>1, <1>2 DEF Init, Inv, EntryOwnsSocket, Ownership, Once, InMap, InClose, Idle, Unused
-----------------------------------------------------------------------------
(* The steps of the world around: a socket is opened, a node is put.       *)
LEMMA ConnectInv ==
  ASSUME Inv, NEW n \in PNode, NEW fd \in Fd, NEW kind \in {"Sentry", "Protocol"},
         NEW callback \in BOOLEAN, Connect(n, fd, kind, callback)
  PROVE  Inv'
<1>. USE DEF Inv
<1>. DEFINE new == [kind |-> kind, fd |-> fd, callback |-> callback /\ kind = "Sentry"]
<1>1. /\ n \notin put /\ ~InMap(n) /\ ~InClose(n)
      /\ fd \notin DOMAIN map /\ fd \notin DOMAIN open
  BY DEF Connect, Ownership, EntryOwnsSocket
<1>2. /\ new \in [kind : {"Sentry", "Protocol"}, fd : Fd, callback : BOOLEAN]
      /\ new.fd = fd /\ new.kind = kind /\ new # Unused
  BY NullAssumption DEF Unused
<1>3. /\ node' = [node EXCEPT ![n] = new]
      /\ \A m \in PNode : node'[m] = IF m = n THEN new ELSE node[m]
      /\ DOMAIN open' = DOMAIN open \cup {fd}
      /\ \A f \in DOMAIN open' : open'[f] = IF f = fd THEN n ELSE open[f]
      /\ UNCHANGED <<map, put, closing, doCloses, started, escaped>>
  BY DEF Connect, EntryOwnsSocket, TypeOK
<1>. HIDE DEF new
<1>5. TypeOK'
  BY <1>2, <1>3 DEF EntryOwnsSocket, TypeOK
<1>6. EntryOwnsSocket'
  BY <1>1, <1>3, <1>5 DEF EntryOwnsSocket, InMap, TypeOK
<1>7. \A m \in PNode : (InMap(m)' <=> InMap(m)) /\ (InClose(m)' <=> InClose(m))
  BY <1>3 DEF InMap, InClose
<1>8. Owns(n)' /\ \A m \in PNode : m # n /\ Owns(m) => Owns(m)'
  BY <1>1, <1>2, <1>3 DEF Owns
<1>9. Ownership'
  BY <1>1, <1>2, <1>3, <1>7, <1>8 DEF Ownership, InClose
<1>10. \A m \in PNode : Once(m)'
  BY <1>1, <1>3, <1>7 DEF Once
<1>. QED
  BY <1>6, <1>9, <1>10

LEMMA RegisterInv ==
  ASSUME Inv, NEW n \in PNode, Register(n)
  PROVE  Inv'
<1>. USE DEF Inv
<1>. DEFINE fd == node[n].fd
<1>1. /\ n \notin put /\ node[n] # Unused /\ Owns(n) /\ fd \in Fd
      /\ doCloses[n] = 0 /\ started[n] = 0
  BY UsedNode DEF Register, Ownership, EntryOwnsSocket
<1>2. /\ DOMAIN map' = DOMAIN map \cup {fd} /\ fd \notin DOMAIN map
      /\ \A f \in DOMAIN map' : map'[f] = IF f = fd THEN n ELSE map[f]
      /\ put' = put \cup {n}
      /\ UNCHANGED <<open, node, closing, doCloses, started, escaped>>
      /\ \A m \in PNode : ~InClose(m)
  BY DEF Register, NodeMap!MapPut, NodeMap!dom, InClose, Idle
<1>3. TypeOK'
  BY <1>1, <1>2 DEF EntryOwnsSocket, TypeOK
<1>4. EntryOwnsSocket'
  BY <1>1, <1>2, <1>3 DEF EntryOwnsSocket, Owns
<1>5. \A m \in PNode : /\ InMap(m)' <=> InMap(m) \/ m = n
                       /\ ~InClose(m)'
  BY <1>2 DEF InMap, InClose
<1>6. \A m \in PNode : Owns(m) <=> Owns(m)'
  BY <1>2 DEF Owns
<1>7. Ownership'
  BY <1>1, <1>2, <1>5, <1>6 DEF Ownership, InClose
<1>8. \A m \in PNode : Once(m)'
  BY <1>1, <1>2, <1>5 DEF Once, InClose
<1>. QED
  BY <1>4, <1>7, <1>8

(* An event, whatever its handler does with it.                            *)
LEMMA EventInv ==
  ASSUME Inv, NEW n \in PNode, NEW outcome \in Outcomes, OnEvent(n, outcome)
  PROVE  Inv'
<1>. USE DEF Inv
<1>. DEFINE fd == node[n].fd
<1>1. /\ n \in put /\ node[n] # Unused
      /\ \A m \in PNode : ~InClose(m)
      /\ UNCHANGED <<open, node, put, doCloses, started>>
  BY DEF OnEvent, InClose, Idle, Ownership
<1>2. \A m \in PNode : Owns(m) <=> Owns(m)'
  BY <1>1 DEF Owns
<1>3. escaped' \in Outcomes \cup {Null}
  BY EventEffect, CloseEffect DEF EndsWith
(* Nothing happened to the map, and no close() began.                      *)
<1>4. CASE map' = map /\ closing' = Idle
  <2>1. \A m \in PNode : (InMap(m)' <=> InMap(m)) /\ ~InClose(m)'
    BY <1>4 DEF InMap, InClose, Idle
  <2>2. EntryOwnsSocket'
    BY <1>1, <1>3, <1>4 DEF EntryOwnsSocket, TypeOK
  <2>3. Ownership'
    BY <1>1, <1>2, <2>1 DEF Ownership, InClose
  <2>4. \A m \in PNode : Once(m)'
    BY <1>1, <2>1 DEF Once, InClose
  <2>. QED
    BY <2>2, <2>3, <2>4
(* The node's entry is taken out.                                          *)
<1>5. CASE /\ fd \in DOMAIN map /\ map[fd] = n
           /\ map' = [f \in DOMAIN map \ {fd} |-> map[f]]
           /\ closing' = IF node[n].kind = "Sentry" THEN <<"doClose", n>> ELSE Idle
  <2>1. /\ DOMAIN map' = DOMAIN map \ {fd}
        /\ \A f \in DOMAIN map' : map'[f] = map[f]
    BY <1>5
  <2>2. TypeOK'
    BY <1>1, <1>3, <1>5, <2>1 DEF EntryOwnsSocket, TypeOK, Idle
  <2>3. EntryOwnsSocket'
    BY <1>1, <2>1, <2>2 DEF EntryOwnsSocket
  <2>4. \A m \in PNode : InMap(m)' <=> InMap(m) /\ m # n
    BY <1>5, <2>1 DEF InMap, EntryOwnsSocket
  <2>5. InMap(n) /\ Owns(n)
    BY <1>5 DEF InMap, Owns, EntryOwnsSocket
  <2>6. \A m \in PNode :
          /\ InClose(m)' <=> m = n /\ node[n].kind = "Sentry"
          /\ closing' = <<"doClose", m>> <=> m = n /\ node[n].kind = "Sentry"
    BY <1>5 DEF InClose, Idle
  <2>7. Ownership'
    BY <1>1, <1>2, <2>1, <2>4, <2>5, <2>6 DEF Ownership
  <2>8. \A m \in PNode : Once(m)'
    BY <1>1, <2>4, <2>5, <2>6 DEF Once, InClose
  <2>. QED
    BY <2>3, <2>7, <2>8
<1>. QED
  BY <1>4, <1>5, EventEffect, CloseEffect DEF EndsWith

(* doClose() closes by number, and the number is still the node's own.     *)
LEMMA DoCloseInv ==
  ASSUME Inv, NEW n \in PNode, DoClose(n)
  PROVE  Inv'
<1>. USE DEF Inv
<1>. DEFINE fd == node[n].fd
<1>1. /\ closing = <<"doClose", n>> /\ closing' = <<"callback", n>>
      /\ \A m \in PNode : doCloses'[m] = IF m = n THEN doCloses[n] + 1 ELSE doCloses[m]
      /\ DOMAIN open' \subseteq DOMAIN open /\ DOMAIN open \ {fd} \subseteq DOMAIN open'
      /\ \A f \in DOMAIN open' : open'[f] = open[f]
      /\ UNCHANGED <<map, node, put, started, escaped>>
  BY DEF DoClose, EntryOwnsSocket, TypeOK
<1>2. /\ InClose(n) /\ n \in put /\ Owns(n) /\ fd \notin DOMAIN map
      /\ node[n].kind = "Sentry" /\ ~InMap(n)
  BY <1>1, OnePlace DEF InClose, Ownership
<1>3. TypeOK'
  <2>1. doCloses' \in [PNode -> Nat]
    BY DEF DoClose, EntryOwnsSocket, TypeOK
  <2>. QED
    BY <1>1, <2>1 DEF EntryOwnsSocket, TypeOK
<1>4. EntryOwnsSocket'
  BY <1>1, <1>2, <1>3 DEF EntryOwnsSocket
<1>5. \A m \in PNode : m # n /\ Owns(m) => Owns(m)'
  BY <1>1, <1>2 DEF Owns
<1>6. \A m \in PNode :
        /\ InMap(m)' <=> InMap(m)
        /\ InClose(m) <=> m = n
        /\ InClose(m)' <=> m = n
        /\ closing' # <<"doClose", m>>
        /\ closing = <<"doClose", m>> <=> m = n
  BY <1>1 DEF InMap, InClose
<1>7. Ownership'
  BY <1>1, <1>2, <1>5, <1>6 DEF Ownership
<1>8. \A m \in PNode : Once(m)'
  <2>1. Once(n)'
    BY <1>1, <1>2, <1>6 DEF Once
  <2>2. ASSUME NEW m \in PNode, m # n PROVE Once(m)'
    BY <1>1, <1>6, <2>2 DEF Once
  <2>. QED
    BY <2>1, <2>2
<1>. QED
  BY <1>4, <1>7, <1>8

LEMMA CallbackInv ==
  ASSUME Inv, NEW n \in PNode, StartCallback(n)
  PROVE  Inv'
<1>. USE DEF Inv
<1>1. /\ closing = <<"callback", n>> /\ closing' = Idle
      /\ \A m \in PNode : started'[m] = IF m = n /\ node[n].callback
                                       THEN started[n] + 1 ELSE started[m]
      /\ UNCHANGED <<map, open, node, put, doCloses, escaped>>
  BY DEF StartCallback, EntryOwnsSocket, TypeOK
<1>2. /\ InClose(n) /\ n \in put /\ node[n].kind = "Sentry" /\ ~InMap(n)
  BY <1>1 DEF InClose, Ownership, Once
<1>3. TypeOK'
  <2>1. started' \in [PNode -> Nat]
    BY DEF StartCallback, EntryOwnsSocket, TypeOK
  <2>. QED
    BY <1>1, <2>1 DEF EntryOwnsSocket, TypeOK
<1>4. EntryOwnsSocket'
  BY <1>1, <1>3 DEF EntryOwnsSocket
<1>5. \A m \in PNode : Owns(m) <=> Owns(m)'
  BY <1>1 DEF Owns
<1>6. \A m \in PNode :
        /\ InMap(m)' <=> InMap(m)
        /\ InClose(m) <=> m = n
        /\ closing # <<"doClose", m>>
        /\ ~InClose(m)' /\ closing' # <<"doClose", m>>
  BY <1>1 DEF InMap, InClose, Idle
<1>7. Ownership'
  BY <1>1, <1>2, <1>5, <1>6 DEF Ownership
<1>8. \A m \in PNode : Once(m)'
  <2>1. Once(n)'
    BY <1>1, <1>2, <1>6 DEF Once
  <2>2. ASSUME NEW m \in PNode, m # n PROVE Once(m)'
    BY <1>1, <1>6, <2>2 DEF Once
  <2>. QED
    BY <2>1, <2>2
<1>. QED
  BY <1>4, <1>7, <1>8
-----------------------------------------------------------------------------
LEMMA NextInv == Inv /\ [Next]_vars => Inv'
<1>. SUFFICES ASSUME Inv, [Next]_vars PROVE Inv'
  OBVIOUS
<1>1. CASE Next
  BY <1>1, ConnectInv, RegisterInv, EventInv, DoCloseInv, CallbackInv DEF Next
<1>2. CASE UNCHANGED vars
  BY <1>2 DEF vars, Inv, EntryOwnsSocket, TypeOK, Ownership, Once, Owns, InMap, InClose
<1>. QED
  BY <1>1, <1>2

LEMMA NodesInvariant == Spec => []Inv
  BY InitInv, NextInv, PTL DEF Spec

(* An entry's socket is open and its node's, however late the events of    *)
(* closed nodes come and however numbers are given out again               *)
(* (SentryPollerNode.java:77-92, ProtocolPollerNode.java:86-91).         *)
THEOREM EntriesOwnSockets == Spec => []EntryOwnsSocket
<1>1. Inv => EntryOwnsSocket
  BY DEF Inv
<1>. QED
  BY <1>1, NodesInvariant, PTL

(* The poller never puts a socket that is in the map: what IntMap.java:16  *)
(* leaves to its caller.                                                   *)
THEOREM PutsAreFresh == Spec => []PutIsFresh
  BY InvGivesPutIsFresh, NodesInvariant, PTL

(* A sentry is closed once and its callback started once, whatever its     *)
(* handlers and doClose() throw (SentryPollerNode.java:77-92).           *)
THEOREM SentriesClosedOnce == Spec => []ClosedOnce
  BY InvGivesClosedOnce, NodesInvariant, PTL
=============================================================================
