-------------------------------- MODULE Net --------------------------------
(***************************************************************************)
(* Net.java with AbstractLifeCycle.java, State.java and Mutex.java: the    *)
(* application's threads construct the one Net, start it, give it          *)
(* listeners and stop it, each step of theirs interleaving with the        *)
(* others'. Net has two state words: the AtomicInteger of                  *)
(* AbstractLifeCycle (lifecycle) and its own State (state), behind a Mutex.*)
(*                                                                         *)
(* Init, Next and the like carry Net's name, for a module that extends the *)
(* specifications of several components.                                   *)
(***************************************************************************)
EXTENDS Integers

CONSTANTS
  Thread,    \* the application's threads
  MaxCalls,  \* bounds the calls a thread makes
  Nobody

ASSUME NobodyAssumption == Nobody \notin Thread
ASSUME CallsAssumption  == MaxCalls \in Nat

INITIAL == 0
RUNNING == 2
STOPPED == 4

VARIABLES
  instanceFlag,  \* the static AtomicBoolean of class Net
  made,          \* the Nets made so far
  lifecycle,     \* AbstractLifeCycle.state
  state,         \* Net.state
  mutex,         \* the thread that holds the lock of Net.state
  pc,            \* where each thread is
  calls,         \* calls begun by each thread
  result,        \* how each thread's last call ended
  entered        \* how often doInit() and doExit() have been called so far

netVars == <<instanceFlag, made, lifecycle, state, mutex, pc, calls, result, entered>>

LifeCycleOps == {"init", "exit"}
Ops == LifeCycleOps \cup {"addListener"}

(* A thread is idle, in the constructor before or after its CAS, or in a   *)
(* method: at its CAS, waiting for the mutex, holding it, or leaving.      *)
PC == {<<"idle">>, <<"new", "cas">>, <<"new", "check">>}
        \cup (LifeCycleOps \X {"cas"})
        \cup (Ops \X {"lock", "body"}) \cup {<<op, "unlock">> : op \in Ops}

AtRest == <<"idle">>

NetTypeOK ==
  /\ instanceFlag \in BOOLEAN
  /\ made \in Nat
  /\ lifecycle \in {INITIAL, RUNNING, STOPPED}
  /\ state \in Int
  /\ mutex \in Thread \cup {Nobody}
  /\ pc \in [Thread -> PC]
  /\ calls \in [Thread -> 0 .. MaxCalls]
  /\ result \in [Thread -> {"none", "ok", "null", "UNREACHED", "zero"}]
  /\ entered \in [LifeCycleOps -> Nat]
---------------------------------------------------------------------------
NetInit ==
  /\ instanceFlag = FALSE
  /\ made = 0
  /\ lifecycle = INITIAL
  /\ state = INITIAL
  /\ mutex = Nobody
  /\ pc = [t \in Thread |-> AtRest]
  /\ calls = [t \in Thread |-> 0]
  /\ result = [t \in Thread |-> "none"]
  /\ entered = [op \in LifeCycleOps |-> 0]

Go(t, where)     == pc' = [pc EXCEPT ![t] = where] /\ UNCHANGED result
Finish(t, how)   == pc' = [pc EXCEPT ![t] = AtRest] /\ result' = [result EXCEPT ![t] = how]
Begin(t, where)  ==
  /\ pc[t] = AtRest /\ calls[t] < MaxCalls
  /\ calls' = [calls EXCEPT ![t] = @ + 1]
  /\ pc' = [pc EXCEPT ![t] = where] /\ result' = [result EXCEPT ![t] = "none"]
  /\ UNCHANGED <<instanceFlag, made, entered, lifecycle, state, mutex>>

(* new Net(...): a configuration that is not there is noticed before the   *)
(* singleton flag is taken, one that says zero after that.                 *)
CallNew(t) == Begin(t, <<"new", "cas">>)

NewNull(t) ==
  /\ pc[t] = <<"new", "cas">>
  /\ Finish(t, "null")
  /\ UNCHANGED <<instanceFlag, made, entered, lifecycle, state, mutex, calls>>

NewCas(t) ==
  /\ pc[t] = <<"new", "cas">>
  /\ IF instanceFlag THEN Finish(t, "UNREACHED") ELSE Go(t, <<"new", "check">>)
  /\ instanceFlag' = TRUE
  /\ UNCHANGED <<made, entered, lifecycle, state, mutex, calls>>

NewCheck(t, pollerCount, writerCount) ==
  /\ pc[t] = <<"new", "check">>
  /\ IF pollerCount <= 0 \/ writerCount <= 0
     THEN Finish(t, "zero") /\ made' = made
     ELSE Finish(t, "ok") /\ made' = made + 1
  /\ UNCHANGED <<instanceFlag, entered, lifecycle, state, mutex, calls>>

CallInit(t)        == made > 0 /\ Begin(t, <<"init", "cas">>)
CallExit(t)        == made > 0 /\ Begin(t, <<"exit", "cas">>)
CallAddListener(t) == made > 0 /\ Begin(t, <<"addListener", "lock">>)

(* Mutant of LifeCycleCas: sets the state without a comparison.            *)
LifeCycleSet(t, op, from, to) ==
  /\ pc[t] = <<op, "cas">>
  /\ lifecycle' = to
  /\ entered' = [entered EXCEPT ![op] = @ + 1] /\ Go(t, <<op, "lock">>)
  /\ UNCHANGED <<instanceFlag, made, state, mutex, calls>>

LifeCycleCas(t, op, from, to) ==
  /\ pc[t] = <<op, "cas">>
  /\ IF lifecycle = from
     THEN /\ lifecycle' = to
          /\ entered' = [entered EXCEPT ![op] = @ + 1] /\ Go(t, <<op, "lock">>)
     ELSE UNCHANGED <<lifecycle, entered>> /\ Finish(t, "UNREACHED")
  /\ UNCHANGED <<instanceFlag, made, state, mutex, calls>>

InitCas(t) == LifeCycleCas(t, "init", INITIAL, RUNNING)
ExitCas(t) == LifeCycleCas(t, "exit", RUNNING, STOPPED)

(* withMutex()                                                             *)
Lock(t) ==
  \E op \in Ops :
    /\ pc[t] = <<op, "lock">>
    /\ mutex = Nobody
    /\ mutex' = t
    /\ Go(t, <<op, "body">>)
    /\ UNCHANGED <<instanceFlag, made, entered, lifecycle, state, calls>>

(* doInit() and doExit() do nothing with the mutex held.                   *)
DoInitExit(t) ==
  \E op \in LifeCycleOps :
    /\ pc[t] = <<op, "body">>
    /\ pc' = [pc EXCEPT ![t] = <<op, "unlock">>]
    /\ result' = [result EXCEPT ![t] = "ok"]
    /\ UNCHANGED <<instanceFlag, made, entered, lifecycle, state, mutex, calls>>

AddListener(t) ==
  /\ pc[t] = <<"addListener", "body">>
  /\ pc' = [pc EXCEPT ![t] = <<"addListener", "unlock">>]
  /\ result' = [result EXCEPT ![t] = IF state > RUNNING THEN "UNREACHED" ELSE "ok"]
  /\ UNCHANGED <<instanceFlag, made, entered, lifecycle, state, mutex, calls>>

(* Mutant of Unlock: leaves the block without the unlock.                  *)
LeavesLocked(t) ==
  /\ \E op \in Ops : pc[t] = <<op, "unlock">>
  /\ Go(t, AtRest)
  /\ UNCHANGED <<instanceFlag, made, entered, lifecycle, state, mutex, calls>>

(* The end of the try block, also when addListener() throws in it.         *)
Unlock(t) ==
  /\ \E op \in Ops : pc[t] = <<op, "unlock">>
  /\ mutex' = Nobody
  /\ Go(t, AtRest)
  /\ UNCHANGED <<instanceFlag, made, entered, lifecycle, state, calls>>

Step(t) ==
  \/ NewNull(t) \/ NewCas(t)
  \/ \E pollerCount, writerCount \in 0 .. 1 : NewCheck(t, pollerCount, writerCount)
  \/ InitCas(t) \/ ExitCas(t)
  \/ Lock(t) \/ DoInitExit(t) \/ AddListener(t) \/ Unlock(t)

NetNext ==
  \E t \in Thread :
    \/ CallNew(t) \/ CallInit(t) \/ CallExit(t) \/ CallAddListener(t)
    \/ Step(t)

NetSpec == NetInit /\ [][NetNext]_netVars /\ \A t \in Thread : WF_netVars(Step(t))
---------------------------------------------------------------------------
(* However the constructors race and however often a thread calls one, at  *)
(* most one Net is ever made (Net.java:39-42).                             *)
Singleton == made <= 1

In(t, ops) == \E op \in ops : pc[t] \in {op} \X {"body", "unlock"}

(* The mutex of a State is held by exactly the thread that is in its       *)
(* guarded block, whichever of the three methods that is, so the blocks of *)
(* doInit(), doExit() and addListener() never overlap (Net.java:59-78).    *)
MutexHeld == \A t \in Thread : In(t, Ops) <=> mutex = t

Doing(op) == {t \in Thread : pc[t] \in {op} \X {"lock", "body", "unlock"}}

(* In the life of a Net doInit() is called once at most, doExit() once at  *)
(* most and not before doInit(), by whichever threads, the same one twice  *)
(* included; the state word says which of the two calls have been made,    *)
(* and a thread that is in a method is the one that made its call          *)
(* (AbstractLifeCycle.java:26-39). Called is not entered the block: init() *)
(* may still wait for the mutex when doExit() has it.                      *)
LifeCycleOnce ==
  /\ entered["init"] <= 1 /\ entered["exit"] <= entered["init"]
  /\ lifecycle = CASE entered["init"] = 0 -> INITIAL
                   [] entered["init"] > entered["exit"] -> RUNNING
                   [] OTHER -> STOPPED
  /\ \A op \in LifeCycleOps :
       /\ \A t, u \in Doing(op) : t = u
       /\ Doing(op) # {} => entered[op] > 0

(* What the races of Net must not break, all of it: there is one Net, its  *)
(* critical sections exclude each other, and of all the calls that start   *)
(* or stop it one each gets through (Net.java:34-79,                       *)
(* AbstractLifeCycle.java:26-39).                                          *)
RacesSafe == NetTypeOK /\ Singleton /\ MutexHeld /\ LifeCycleOnce

(* Every call returns: nobody waits for a mutex that is never released.    *)
CallsReturn == \A t \in Thread : pc[t] # AtRest ~> pc[t] = AtRest
===========================================================================
