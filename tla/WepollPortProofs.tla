-------------------------- MODULE WepollPortProofs --------------------------
(***************************************************************************)
(* The safety properties of WepollPort for any number of sockets, objects, *)
(* threads and calls. The invariant says of each part of the port what it  *)
(* relates, with the set of sockets that have a completion on its way as a *)
(* parameter: while a thread feeds the completions it dequeued, one by     *)
(* one, the port is between two states of the specification, and the       *)
(* invariant holds of it with the completions that are left.               *)
(***************************************************************************)
EXTENDS WepollPort, FiniteSetTheorems, SequenceTheorems, WellFoundedInduction, TLAPS

PortState ==
  [tree : [Sock -> Obj \cup {None}], socks : [Obj -> SockState \cup {None}],
   updq : Seq(Obj), delq : Seq(Obj), groups : Seq(Nat), size : Seq(Nat),
   active : Nat, packets : Seq(Obj), cancels : SUBSET Obj]

(* The tree holds the live sockets, each under its own name.               *)
TreeOK(P) ==
  \A s \in Sock, o \in Obj :
     P.tree[s] = o <=> (o \in Live(P) /\ P.socks[o].sock = s)

(* The two queues.                                                         *)
UpdqOK(P) == Members(P.updq) \subseteq Live(P) /\ IsInjective(P.updq)
DelqOK(P) == Members(P.delq) = Deleting(P) /\ IsInjective(P.delq)

(* A sock_state and its poll: S is in the driver (status "PENDING"), or    *)
(* its completion is on its way (flying), or it has none; the driver is    *)
(* cancelling it, or not.                                                  *)
SockOK(S, flying, cancelling) ==
  /\ S.poll = "IDLE" <=> (S.status # "PENDING" /\ ~flying)
  /\ ~(S.status = "PENDING" /\ flying)
  /\ cancelling <=> (S.poll = "CANCELLED" /\ S.status = "PENDING")
  /\ S.user = {} \/ Always \subseteq S.user
  /\ S.pending = {} \/ Always \subseteq S.pending
  /\ S.status = "PENDING" /\ S.poll = "PENDING" => S.info = AfdEvents(S.pending)

SocksOK(P, C) ==
  /\ C \subseteq Allocated(P) /\ P.cancels \subseteq Allocated(P)
  /\ \A o \in Allocated(P) : SockOK(P.socks[o], o \in C, o \in P.cancels)

DeletingOK(P) == \A o \in Deleting(P) : P.socks[o].poll # "IDLE"

(* The poll of S watches all that its user asked for, or is going to be    *)
(* submitted again.                                                        *)
Served(S) == (S.poll = "PENDING" /\ S.user \subseteq S.pending) \/ S.poll = "CANCELLED"

ServedOK(P) == \A o \in Live(P) \ Members(P.updq) : Served(P.socks[o])

(* The queue of poll groups holds each group once, full ones first.        *)
FullFirst(groups, size) ==
  \A i, j \in DOMAIN groups :
     i < j /\ size[groups[j]] = GroupSize => size[groups[i]] = GroupSize

GroupQueueOK(P) ==
  /\ DOMAIN P.size = 1 .. Len(P.groups)
  /\ Members(P.groups) = DOMAIN P.size /\ IsInjective(P.groups)
  /\ \A g \in DOMAIN P.size : P.size[g] <= GroupSize
  /\ FullFirst(P.groups, P.size)

(* A group counts the sockets that are in it.                              *)
InGroup(socks, g) == {o \in Obj : socks[o] # None /\ socks[o].group = g}

CountsOK(P) ==
  /\ \A o \in Allocated(P) : P.socks[o].group \in DOMAIN P.size
  /\ \A g \in DOMAIN P.size : P.size[g] = Cardinality(InGroup(P.socks, g))

(* What port_delete() needs of the port, and what all else keeps.          *)
Structure(P) ==
  /\ P \in PortState
  /\ TreeOK(P) /\ UpdqOK(P) /\ DelqOK(P) /\ GroupQueueOK(P) /\ CountsOK(P)

PortOK(P, C) == Structure(P) /\ SocksOK(P, C) /\ DeletingOK(P) /\ ServedOK(P)

(* The completions: no two are of one socket.                              *)
Flying == Members(port.packets) \cup UNION {Members(batch[t]) : t \in Thread}

FlyingOK ==
  /\ batch \in [Thread -> Seq(Obj)]
  /\ IsInjective(port.packets)
  /\ \A t \in Thread :
        /\ IsInjective(batch[t]) /\ Len(batch[t]) <= MaxEvents
        /\ Members(batch[t]) \cap Members(port.packets) = {}
        /\ pc[t] # "feeding" => batch[t] = <<>>
  /\ \A t, u \in Thread : t # u => Members(batch[t]) \cap Members(batch[u]) = {}

(* active_poll_count, and what it is for: with no error, nothing is queued *)
(* while a thread is in the kernel.                                        *)
ActiveOK ==
  /\ port.active = Cardinality({t \in Thread : pc[t] # "out"})
  /\ port.active > 0 /\ errors = 0 => port.updq = <<>>

GoneOK ==
  gone => /\ port.updq = <<>> /\ port.delq = <<>> /\ Allocated(port) = {}
          /\ \A g \in DOMAIN port.size : port.size[g] = 0
          /\ \A t \in Thread : pc[t] = "out"

Types ==
  /\ cond \in [Sock -> (SUBSET Conditions) \cup {Closed}]
  /\ pc \in [Thread -> {"out", "blocked", "feeding"}]
  /\ ctls \in 0 .. MaxCtls /\ errors \in 0 .. MaxErrors /\ gone \in BOOLEAN

Inv == Types /\ PortOK(port, Flying) /\ FlyingOK /\ ActiveOK /\ GoneOK
-----------------------------------------------------------------------------
(* A set of numbers has a least one.                                       *)
LEMMA LeastOf ==
  ASSUME NEW T \in SUBSET Nat, T # {}
  PROVE  \E x \in T : \A y \in T : x <= y
<1>1. PICK x \in T : \A y \in T : <<y, x>> \notin OpToRel(<, Nat)
  BY NatLessThanWellFounded, WFMin
<1>2. \A y \in T : ~(y < x)
  BY <1>1 DEF OpToRel
<1>. QED
  BY <1>2

(* The fields of a queue.                                                  *)
LEMMA SeqIs ==
  ASSUME NEW S, NEW q \in Seq(S)
  PROVE  /\ Len(q) \in Nat /\ DOMAIN q = 1 .. Len(q)
         /\ \A i \in 1 .. Len(q) : q[i] \in S /\ q[i] \in Members(q)
         /\ Members(q) \subseteq S
         /\ \A x \in Members(q) : \E i \in 1 .. Len(q) : x = q[i]
<1>1. Len(q) \in Nat /\ DOMAIN q = 1 .. Len(q)
  BY LenProperties
<1>2. \A i \in 1 .. Len(q) : q[i] \in S
  BY <1>1, ElementOfSeq
<1>. QED
  BY <1>1, <1>2 DEF Members

(* The nodes of p stand in the order that they have in q.                  *)
InOrder(p, q) ==
  \A i, j \in 1 .. Len(p) :
     i < j => \E m, n \in 1 .. Len(q) : m < n /\ p[i] = q[m] /\ p[j] = q[n]

(* A node taken from a queue: the others stay, in their order.             *)
LEMMA WithoutIs ==
  ASSUME NEW S, NEW q \in Seq(S), IsInjective(q), NEW x
  PROVE  /\ Without(q, x) \in Seq(S) /\ IsInjective(Without(q, x))
         /\ Members(Without(q, x)) = Members(q) \ {x}
         /\ x \in Members(q) => Len(Without(q, x)) = Len(q) - 1
         /\ x \notin Members(q) => Without(q, x) = q
         /\ InOrder(Without(q, x), q)
<1>1. Len(q) \in Nat /\ DOMAIN q = 1 .. Len(q)
  BY SeqIs
<1>2. CASE x \notin Members(q)
  <2>1. Without(q, x) = q
    BY <1>2 DEF Without
  <2>2. Members(q) = Members(q) \ {x}
    BY <1>2
  <2>3. InOrder(q, q)
    BY DEF InOrder
  <2>. QED
    BY <1>2, <2>1, <2>2, <2>3
<1>3. CASE x \in Members(q)
  <2>. DEFINE k == CHOOSE j \in DOMAIN q : q[j] = x
              less == [j \in 1 .. Len(q) - 1 |-> q[IF j < k THEN j ELSE j + 1]]
  <2>1. Without(q, x) = less
    BY <1>3, Zenon DEF Without
  <2>2. k \in 1 .. Len(q) /\ q[k] = x
    BY <1>1, <1>3 DEF Members
  <2>. HIDE DEF k
  <2>3. \A i, j \in 1 .. Len(q) : q[i] = q[j] => i = j
    BY <1>1 DEF IsInjective
  <2>4. /\ \A j \in 1 .. Len(q) - 1 : j < k =>
             j \in 1 .. Len(q) /\ less[j] = q[j]
        /\ \A j \in 1 .. Len(q) - 1 : ~(j < k) =>
             j + 1 \in 1 .. Len(q) /\ less[j] = q[j + 1] /\ j + 1 > k
    BY <1>1, <2>2
  <2>5. DOMAIN less = 1 .. Len(q) - 1
    OBVIOUS
  <2>. HIDE DEF less
  <2>6. \A i \in 1 .. Len(q) : q[i] \in S
    BY SeqIs
  <2>7. less \in Seq(S) /\ Len(less) = Len(q) - 1
    <3>1. \A j \in 1 .. Len(q) - 1 : less[j] \in S
      BY <2>4, <2>6
    <3>2. less \in [1 .. Len(q) - 1 -> S] /\ Len(q) - 1 \in Nat
      BY <1>1, <2>2, <3>1 DEF less
    <3>3. less \in Seq(S)
      BY <3>2, SeqDef
    <3>4. Len(less) \in Nat /\ DOMAIN less = 1 .. Len(less)
      BY <3>3, LenProperties
    <3>. QED
      BY <2>5, <3>2, <3>3, <3>4
  <2>8. \A i, j \in 1 .. Len(q) - 1 : i < j =>
          \E m, n \in 1 .. Len(q) : m < n /\ less[i] = q[m] /\ less[j] = q[n]
    <3>. SUFFICES ASSUME NEW i \in 1 .. Len(q) - 1, NEW j \in 1 .. Len(q) - 1, i < j
                  PROVE  \E m, n \in 1 .. Len(q) :
                           m < n /\ less[i] = q[m] /\ less[j] = q[n]
      OBVIOUS
    <3>1. CASE i < k /\ j < k
      BY <2>4, <3>1
    <3>2. CASE i < k /\ ~(j < k)
      BY <2>4, <3>2
    <3>3. CASE ~(i < k)
      BY <2>2, <2>4, <3>3
    <3>. QED
      BY <3>1, <3>2, <3>3
  <2>9. IsInjective(less)
    <3>. SUFFICES ASSUME NEW i \in 1 .. Len(q) - 1, NEW j \in 1 .. Len(q) - 1,
                         less[i] = less[j], i # j
                  PROVE  FALSE
      BY <2>5 DEF IsInjective
    <3>1. CASE i < j
      <4>1. PICK m \in 1 .. Len(q), n \in 1 .. Len(q) :
              m < n /\ less[i] = q[m] /\ less[j] = q[n]
        BY <2>8, <3>1
      <4>2. m = n
        BY <2>3, <4>1
      <4>. QED
        BY <1>1, <4>1, <4>2
    <3>2. CASE j < i
      <4>1. PICK m \in 1 .. Len(q), n \in 1 .. Len(q) :
              m < n /\ less[j] = q[m] /\ less[i] = q[n]
        BY <2>8, <3>2
      <4>2. m = n
        BY <2>3, <4>1
      <4>. QED
        BY <1>1, <4>1, <4>2
    <3>. QED
      BY <3>1, <3>2
  <2>10. ASSUME NEW y \in Members(less) PROVE y \in Members(q) \ {x}
    <3>1. PICK j \in 1 .. Len(q) - 1 : y = less[j]
      BY <2>5 DEF Members
    <3>2. PICK m \in 1 .. Len(q) : y = q[m] /\ m # k
      <4>1. CASE j < k
        BY <2>4, <3>1, <4>1
      <4>2. CASE ~(j < k)
        <5>1. j + 1 \in 1 .. Len(q) /\ y = q[j + 1] /\ j + 1 # k
          BY <2>2, <2>4, <3>1, <4>2
        <5>. QED
          BY <5>1
      <4>. QED
        BY <4>1, <4>2
    <3>. QED
      BY <1>1, <2>2, <2>3, <3>2 DEF Members
  <2>11. ASSUME NEW y \in Members(q) \ {x} PROVE y \in Members(less)
    <3>1. PICK i \in 1 .. Len(q) : y = q[i] /\ i # k
      BY <1>1, <2>2 DEF Members
    <3>2. CASE i < k
      <4>1. i \in 1 .. Len(q) - 1 /\ less[i] = y
        BY <1>1, <2>2, <2>4, <3>1, <3>2
      <4>. QED
        BY <2>5, <4>1 DEF Members
    <3>3. CASE i > k
      <4>1. i - 1 \in 1 .. Len(q) - 1 /\ ~(i - 1 < k) /\ (i - 1) + 1 = i
        BY <1>1, <2>2, <3>1, <3>3
      <4>2. less[i - 1] = y
        BY <2>4, <3>1, <4>1
      <4>. QED
        BY <2>5, <4>1, <4>2 DEF Members
    <3>. QED
      BY <2>2, <3>1, <3>2, <3>3
  <2>12. Members(less) = Members(q) \ {x}
    BY <2>10, <2>11
  <2>13. InOrder(less, q)
    <3>. SUFFICES ASSUME NEW i \in 1 .. Len(less), NEW j \in 1 .. Len(less), i < j
                  PROVE  \E m, n \in 1 .. Len(q) :
                           m < n /\ less[i] = q[m] /\ less[j] = q[n]
      BY DEF InOrder
    <3>1. i \in 1 .. Len(q) - 1 /\ j \in 1 .. Len(q) - 1
      BY <2>7
    <3>. QED
      BY <2>8, <3>1
  <2>. QED
    BY <1>3, <2>1, <2>7, <2>9, <2>12, <2>13, Zenon
<1>. QED
  BY <1>2, <1>3

(* A node put behind the others.                                           *)
LEMMA AppendIs ==
  ASSUME NEW S, NEW q \in Seq(S), IsInjective(q), NEW x \in S, x \notin Members(q)
  PROVE  /\ Append(q, x) \in Seq(S) /\ IsInjective(Append(q, x))
         /\ Members(Append(q, x)) = Members(q) \cup {x}
         /\ Len(Append(q, x)) = Len(q) + 1 /\ Append(q, x)[Len(q) + 1] = x
         /\ \A i \in 1 .. Len(q) : Append(q, x)[i] = q[i]
<1>. DEFINE more == Append(q, x)
<1>1. Len(q) \in Nat /\ DOMAIN q = 1 .. Len(q)
  BY SeqIs
<1>2. /\ more \in Seq(S) /\ Len(more) = Len(q) + 1
      /\ \A i \in 1 .. Len(q) : more[i] = q[i]
      /\ more[Len(q) + 1] = x
  BY AppendProperties
<1>3. DOMAIN more = 1 .. Len(q) + 1
  BY <1>2, LenProperties
<1>. HIDE DEF more
<1>4. \A i \in 1 .. Len(q) : q[i] # x
  BY <1>1 DEF Members
<1>5. IsInjective(more)
  <2>1. \A i, j \in 1 .. Len(q) : q[i] = q[j] => i = j
    BY <1>1 DEF IsInjective
  <2>2. ASSUME NEW i \in 1 .. Len(q) + 1, NEW j \in 1 .. Len(q) + 1, more[i] = more[j]
        PROVE  i = j
    <3>1. i = Len(q) + 1 \/ i \in 1 .. Len(q)
      BY <1>1
    <3>2. j = Len(q) + 1 \/ j \in 1 .. Len(q)
      BY <1>1
    <3>. QED
      BY <1>2, <1>4, <2>1, <2>2, <3>1, <3>2
  <2>. QED
    BY <1>3, <2>2 DEF IsInjective
<1>6. Members(more) = Members(q) \cup {x}
  <2>1. ASSUME NEW y \in Members(more) PROVE y \in Members(q) \cup {x}
    <3>1. PICK i \in 1 .. Len(q) + 1 : y = more[i]
      BY <1>3 DEF Members
    <3>2. i = Len(q) + 1 \/ i \in 1 .. Len(q)
      BY <1>1
    <3>. QED
      BY <1>1, <1>2, <3>1, <3>2 DEF Members
  <2>2. ASSUME NEW y \in Members(q) PROVE y \in Members(more)
    <3>1. PICK i \in 1 .. Len(q) : y = q[i]
      BY <1>1 DEF Members
    <3>2. i \in 1 .. Len(q) + 1 /\ y = more[i]
      BY <1>1, <1>2, <3>1
    <3>. QED
      BY <1>3, <3>2 DEF Members
  <2>3. x \in Members(more)
    <3>1. Len(q) + 1 \in 1 .. Len(q) + 1
      BY <1>1
    <3>. QED
      BY <1>2, <1>3, <3>1 DEF Members
  <2>. QED
    BY <2>1, <2>2, <2>3
<1>. QED
  BY <1>2, <1>5, <1>6 DEF more

(* A node put before the others.                                           *)
LEMMA ConsIs ==
  ASSUME NEW S, NEW q \in Seq(S), IsInjective(q), NEW x \in S, x \notin Members(q)
  PROVE  /\ <<x>> \o q \in Seq(S) /\ IsInjective(<<x>> \o q)
         /\ Members(<<x>> \o q) = Members(q) \cup {x}
         /\ Len(<<x>> \o q) = Len(q) + 1 /\ (<<x>> \o q)[1] = x
         /\ \A i \in 2 .. Len(q) + 1 : (<<x>> \o q)[i] = q[i - 1]
<1>. DEFINE more == <<x>> \o q
<1>1. /\ Len(q) \in Nat /\ DOMAIN q = 1 .. Len(q) /\ more \in Seq(S)
      /\ DOMAIN more = 1 .. Len(q) + 1 /\ more[1] = x /\ Len(more) = Len(q) + 1
      /\ \A i \in 2 .. Len(q) + 1 : more[i] = q[i - 1]
  BY ConcatProperties, LenProperties
<1>. HIDE DEF more
<1>2. \A i \in 1 .. Len(q) : q[i] # x /\ \A j \in 1 .. Len(q) : q[i] = q[j] => i = j
  BY <1>1 DEF IsInjective, Members
<1>3. ASSUME NEW i \in 1 .. Len(q) + 1, NEW j \in 1 .. Len(q) + 1, more[i] = more[j]
      PROVE  i = j
  <2>1. i = 1 \/ (i \in 2 .. Len(q) + 1 /\ i - 1 \in 1 .. Len(q))
    BY <1>1
  <2>2. j = 1 \/ (j \in 2 .. Len(q) + 1 /\ j - 1 \in 1 .. Len(q))
    BY <1>1
  <2>. QED
    BY <1>1, <1>2, <1>3, <2>1, <2>2
<1>4. Members(more) = Members(q) \cup {x}
  <2>1. ASSUME NEW y \in Members(q) PROVE y \in Members(more)
    <3>1. PICK i \in 1 .. Len(q) : y = q[i]
      BY <1>1 DEF Members
    <3>2. i + 1 \in 2 .. Len(q) + 1 /\ more[i + 1] = y /\ i + 1 \in DOMAIN more
      BY <1>1, <3>1
    <3>. QED
      BY <3>2 DEF Members
  <2>2. x \in Members(more)
    BY <1>1 DEF Members
  <2>3. ASSUME NEW y \in Members(more) PROVE y \in Members(q) \cup {x}
    <3>1. PICK i \in 1 .. Len(q) + 1 : y = more[i]
      BY <1>1 DEF Members
    <3>2. i = 1 \/ (i \in 2 .. Len(q) + 1 /\ i - 1 \in 1 .. Len(q))
      BY <1>1
    <3>. QED
      BY <1>1, <3>1, <3>2 DEF Members
  <2>. QED
    BY <2>1, <2>2, <2>3
<1>5. IsInjective(more)
  BY <1>1, <1>3 DEF IsInjective
<1>. QED
  BY <1>1, <1>4, <1>5 DEF more

(* A queue cut in two.                                                     *)
LEMMA CutIs ==
  ASSUME NEW S, NEW q \in Seq(S), IsInjective(q), NEW n \in 0 .. Len(q)
  PROVE  /\ SubSeq(q, 1, n) \in Seq(S) /\ IsInjective(SubSeq(q, 1, n))
         /\ Len(SubSeq(q, 1, n)) = n
         /\ \A i \in 1 .. n : SubSeq(q, 1, n)[i] = q[i]
         /\ SubSeq(q, n + 1, Len(q)) \in Seq(S) /\ IsInjective(SubSeq(q, n + 1, Len(q)))
         /\ Members(SubSeq(q, 1, n)) \cup Members(SubSeq(q, n + 1, Len(q))) = Members(q)
         /\ Members(SubSeq(q, 1, n)) \cap Members(SubSeq(q, n + 1, Len(q))) = {}
<1>. DEFINE front == SubSeq(q, 1, n)
            rest  == SubSeq(q, n + 1, Len(q))
<1>1. Len(q) \in Nat /\ DOMAIN q = 1 .. Len(q) /\ n \in Nat /\ n <= Len(q)
  BY LenProperties
<1>2. \A i \in 1 .. Len(q) : q[i] \in S
  BY SeqIs
<1>3. /\ front \in Seq(S) /\ Len(front) = n
      /\ \A i \in 1 .. n : front[i] = q[i]
  <2>1. \A i \in 1 .. n : q[i] \in S
    BY <1>1, <1>2
  <2>. QED
    BY <1>1, <2>1, SubSeqProperties
<1>4. /\ rest \in Seq(S) /\ Len(rest) = Len(q) - n
      /\ \A i \in 1 .. Len(q) - n : rest[i] = q[n + i]
  <2>1. \A i \in n + 1 .. Len(q) : q[i] \in S
    BY <1>1, <1>2
  <2>2. n + 1 \in Int /\ Len(q) \in Int
    BY <1>1
  <2>3. /\ rest \in Seq(S)
        /\ Len(rest) = IF n + 1 <= Len(q) THEN Len(q) - (n + 1) + 1 ELSE 0
        /\ \A i \in 1 .. Len(q) - (n + 1) + 1 : rest[i] = q[n + 1 + i - 1]
    BY <2>1, <2>2, SubSeqProperties
  <2>. HIDE DEF rest
  <2>4. \A i \in 1 .. Len(q) - n :
          i \in 1 .. Len(q) - (n + 1) + 1 /\ n + 1 + i - 1 = n + i
    BY <1>1
  <2>5. ASSUME NEW i \in 1 .. Len(q) - n PROVE rest[i] = q[n + i]
    <3>1. i \in 1 .. Len(q) - (n + 1) + 1 /\ n + 1 + i - 1 = n + i
      BY <2>4
    <3>2. rest[i] = q[n + 1 + i - 1]
      BY <2>3, <3>1
    <3>. QED
      BY <3>1, <3>2
  <2>6. Len(rest) = Len(q) - n
    <3>. DEFINE l == Len(q)
    <3>1. Len(rest) = IF n + 1 <= l THEN l - (n + 1) + 1 ELSE 0
      BY <2>3
    <3>2. l \in Nat /\ n \in Nat /\ n <= l
      BY <1>1
    <3>. HIDE DEF l
    <3>3. Len(rest) = l - n
      BY <3>1, <3>2
    <3>. QED
      BY <3>3 DEF l
  <2>. QED
    BY <2>3, <2>5, <2>6
<1>5. DOMAIN front = 1 .. n /\ DOMAIN rest = 1 .. Len(q) - n
  BY <1>3, <1>4, LenProperties
<1>. HIDE DEF front, rest
<1>6. \A i, j \in 1 .. Len(q) : q[i] = q[j] => i = j
  BY <1>1 DEF IsInjective
<1>7. IsInjective(front)
  BY <1>1, <1>3, <1>5, <1>6 DEF IsInjective
<1>8. IsInjective(rest)
  <2>. SUFFICES ASSUME NEW i \in 1 .. Len(q) - n, NEW j \in 1 .. Len(q) - n, rest[i] = rest[j]
                PROVE  i = j
    BY <1>5 DEF IsInjective
  <2>1. n + i \in 1 .. Len(q) /\ n + j \in 1 .. Len(q) /\ q[n + i] = q[n + j]
    BY <1>1, <1>4
  <2>. QED
    BY <1>1, <1>6, <2>1
<1>9. \A x : x \in Members(front) <=> \E i \in 1 .. n : x = q[i]
  BY <1>3, <1>5 DEF Members
<1>10. \A x : x \in Members(rest) <=> \E i \in n + 1 .. Len(q) : x = q[i]
  <2>1. ASSUME NEW x \in Members(rest) PROVE \E i \in n + 1 .. Len(q) : x = q[i]
    <3>1. PICK i \in 1 .. Len(q) - n : x = rest[i]
      BY <1>5 DEF Members
    <3>2. n + i \in n + 1 .. Len(q) /\ x = q[n + i]
      BY <1>1, <1>4, <3>1
    <3>. QED
      BY <3>2
  <2>2. ASSUME NEW i \in n + 1 .. Len(q) PROVE q[i] \in Members(rest)
    <3>1. i - n \in 1 .. Len(q) - n /\ n + (i - n) = i
      BY <1>1
    <3>2. rest[i - n] = q[i]
      BY <1>4, <3>1
    <3>. QED
      BY <1>5, <3>1, <3>2 DEF Members
  <2>. QED
    BY <2>1, <2>2
<1>11. Members(front) \cup Members(rest) = Members(q)
  <2>1. \A i \in 1 .. Len(q) : i \in 1 .. n \/ i \in n + 1 .. Len(q)
    BY <1>1
  <2>2. \A i : i \in 1 .. n \/ i \in n + 1 .. Len(q) => i \in 1 .. Len(q)
    BY <1>1
  <2>3. \A x : x \in Members(q) <=> \E i \in 1 .. Len(q) : x = q[i]
    BY <1>1 DEF Members
  <2>. QED
    BY <1>9, <1>10, <2>1, <2>2, <2>3
<1>12. Members(front) \cap Members(rest) = {}
  <2>1. \A i \in 1 .. n, j \in n + 1 .. Len(q) : q[i] # q[j]
    BY <1>1, <1>6
  <2>. QED
    BY <1>9, <1>10, <2>1
<1>. QED
  BY <1>3, <1>4, <1>7, <1>8, <1>11, <1>12 DEF front, rest

(* SetToSeq() of a finite set has each element once.                       *)
LEMMA SetToSeqIs ==
  ASSUME NEW S, IsFiniteSet(S)
  PROVE  /\ SetToSeq(S) \in Seq(S) /\ IsInjective(SetToSeq(S))
         /\ Members(SetToSeq(S)) = S
<1>. DEFINE n == Cardinality(S)
            list == SetToSeq(S)
<1>1. n \in Nat /\ ExistsBijection(1 .. n, S)
  BY FS_CardinalityType
<1>2. PICK f \in Bijection(1 .. n, S) : TRUE
  BY <1>1 DEF ExistsBijection
<1>3. f \in [1 .. n -> S] /\ IsInjective(f)
  BY <1>2 DEF Bijection, Injection, Surjection, IsInjective
<1>4. list \in [1 .. n -> S] /\ IsInjective(list)
  BY <1>3 DEF SetToSeq
<1>. HIDE DEF list
<1>5. list \in Seq(S)
  BY <1>1, <1>4, SeqDef
<1>6. list \in Injection(1 .. n, S)
  BY <1>4 DEF Injection, IsInjective
<1>7. IsFiniteSet(1 .. n) /\ Cardinality(1 .. n) = n
  BY <1>1, FS_Interval
<1>8. list \in Surjection(1 .. n, S)
  BY <1>6, <1>7, FS_Injection
<1>9. Members(list) = S
  BY <1>4, <1>8 DEF Surjection, Members
<1>. QED
  BY <1>4, <1>5, <1>9 DEF list
-----------------------------------------------------------------------------
(* g is the sequence of the states of a loop that starts with x and does   *)
(* F[n] in turn n.                                                         *)
Computes(g, L, x, F) ==
  g = [n \in 0 .. L |-> IF n = 0 THEN x ELSE F[n - 1][g[n - 1]]]

(* A loop that goes from a state in G[n] to one in G[n + 1] in turn n: the *)
(* sequence of its states exists.                                          *)
LEMMA LoopExists ==
  ASSUME NEW L \in Nat, NEW x, NEW G, NEW F,
         x \in G[0],
         \A n \in 0 .. L - 1 : \A P \in G[n] : F[n][P] \in G[n + 1]
  PROVE  \E g : Computes(g, L, x, F) /\ \A n \in 0 .. L : g[n] \in G[n]
<1>. DEFINE Run(m, g) ==
              /\ g = [n \in 0 .. m |-> IF n = 0 THEN x ELSE F[n - 1][g[n - 1]]]
              /\ \A n \in 0 .. m : g[n] \in G[n]
            Stuck == {m \in 0 .. L : ~\E g : Run(m, g)}
<1>1. Stuck = {}
  <2>. SUFFICES ASSUME Stuck # {} PROVE FALSE
    OBVIOUS
  <2>1. PICK m \in Stuck : \A k \in Stuck : m <= k
    <3>1. Stuck \in SUBSET Nat
      OBVIOUS
    <3>. QED
      BY <3>1, LeastOf
  <2>2. m \in 0 .. L /\ ~\E g : Run(m, g)
    BY <2>1
  <2>3. CASE m = 0
    <3>. DEFINE h == [n \in 0 .. 0 |-> x]
    <3>1. h = [n \in 0 .. 0 |-> IF n = 0 THEN x ELSE F[n - 1][h[n - 1]]]
      OBVIOUS
    <3>2. \A n \in 0 .. 0 : h[n] \in G[n]
      OBVIOUS
    <3>3. Run(0, h)
      BY <3>1, <3>2
    <3>. QED
      BY <2>2, <2>3, <3>3
  <2>4. CASE m # 0
    <3>1. m - 1 \in 0 .. L - 1 /\ ~(m <= m - 1) /\ m - 1 \in 0 .. L
      BY <2>2, <2>4
    <3>2. m - 1 \notin Stuck
      BY <2>1, <3>1
    <3>3. PICK f : Run(m - 1, f)
      BY <3>1, <3>2
    <3>. DEFINE h == [n \in 0 .. m |-> IF n = m THEN F[m - 1][f[m - 1]] ELSE f[n]]
    <3>4. \A n \in 0 .. m - 1 : f[n] = IF n = 0 THEN x ELSE F[n - 1][f[n - 1]]
      BY <3>3
    <3>5. /\ \A n \in 0 .. m - 1 : n \in 0 .. m /\ n # m
          /\ m \in 0 .. m /\ m - 1 \in 0 .. m - 1
          /\ \A n \in 0 .. m : n # 0 => n - 1 \in 0 .. m - 1
          /\ \A n \in 0 .. m : n = m \/ n \in 0 .. m - 1
      BY <2>2, <2>4
    <3>6. /\ \A n \in 0 .. m - 1 : h[n] = f[n]
          /\ h[m] = F[m - 1][h[m - 1]]
          /\ DOMAIN h = 0 .. m
      BY <3>5
    <3>7. \A n \in 0 .. m : h[n] = IF n = 0 THEN x ELSE F[n - 1][h[n - 1]]
      <4>. SUFFICES ASSUME NEW n \in 0 .. m
                    PROVE  h[n] = IF n = 0 THEN x ELSE F[n - 1][h[n - 1]]
        OBVIOUS
      <4>. HIDE DEF h
      <4>1. CASE n = m
        BY <2>4, <3>6, <4>1
      <4>2. CASE n # m
        <5>1. n \in 0 .. m - 1
          BY <3>5, <4>2
        <5>2. CASE n = 0
          BY <3>4, <3>6, <5>1, <5>2
        <5>3. CASE n # 0
          <6>1. n - 1 \in 0 .. m - 1
            BY <3>5, <5>3
          <6>. QED
            BY <3>4, <3>6, <5>1, <5>3, <6>1
        <5>. QED
          BY <5>2, <5>3
      <4>. QED
        BY <4>1, <4>2
    <3>8. h = [n \in 0 .. m |-> IF n = 0 THEN x ELSE F[n - 1][h[n - 1]]]
      <4>1. h = [n \in 0 .. m |-> h[n]]
        OBVIOUS
      <4>. HIDE DEF h
      <4>. QED
        BY <3>7, <4>1, Zenon
    <3>. HIDE DEF h
    <3>9. \A n \in 0 .. m : h[n] \in G[n]
      <4>1. \A n \in 0 .. m - 1 : h[n] \in G[n]
        BY <3>3, <3>6
      <4>2. h[m] \in G[m]
        <5>1. h[m - 1] \in G[m - 1] /\ (m - 1) + 1 = m
          BY <2>2, <3>5, <4>1
        <5>2. F[m - 1][h[m - 1]] \in G[(m - 1) + 1]
          BY <3>1, <5>1
        <5>. QED
          BY <3>6, <5>1, <5>2
      <4>. QED
        BY <3>5, <4>1, <4>2
    <3>10. Run(m, h)
      BY <3>8, <3>9
    <3>. QED
      BY <2>2, <3>10
  <2>. QED
    BY <2>3, <2>4
<1>2. L \in 0 .. L
  OBVIOUS
<1>3. \E g : Run(L, g)
  BY <1>1, <1>2
<1>. QED
  BY <1>3, Zenon DEF Computes

(* What each turn of a loop keeps holds after all of them.                 *)
LEMMA LoopHolds ==
  ASSUME NEW L \in Nat, NEW G, NEW g, g[0] \in G[0],
         \A n \in 0 .. L - 1 : g[n] \in G[n] => g[n + 1] \in G[n + 1]
  PROVE  g[L] \in G[L]
<1>. DEFINE Bad == {n \in 0 .. L : g[n] \notin G[n]}
<1>. SUFFICES ASSUME Bad # {} PROVE FALSE
  OBVIOUS
<1>1. PICK m \in Bad : \A k \in Bad : m <= k
  <2>1. Bad \in SUBSET Nat
    OBVIOUS
  <2>. QED
    BY <2>1, LeastOf
<1>2. m \in 0 .. L /\ m # 0
  BY <1>1
<1>3. m - 1 \in 0 .. L - 1 /\ m - 1 \in 0 .. L /\ ~(m <= m - 1) /\ (m - 1) + 1 = m
  BY <1>2
<1>4. g[m - 1] \in G[m - 1]
  BY <1>1, <1>3
<1>5. g[(m - 1) + 1] \in G[(m - 1) + 1]
  BY <1>3, <1>4
<1>. QED
  BY <1>1, <1>3, <1>5

(* port__update_events().                                                  *)
LEMMA UpdateLoop ==
  ASSUME NEW q \in Seq(Obj), NEW x, NEW G, x \in G[0],
         \A n \in 0 .. Len(q) - 1 : \A P \in G[n] : Update(P, q[n + 1]) \in G[n + 1]
  PROVE  Each(Update, x, q) \in G[Len(q)]
<1>. DEFINE L == Len(q)
            F == [n \in 0 .. L - 1 |-> [P \in G[n] |-> Update(P, q[n + 1])]]
            Runs(g) == g = [n \in 0 .. L |-> IF n = 0 THEN x ELSE Update(g[n - 1], q[n])]
            run == CHOOSE g : Runs(g)
<1>1. L \in Nat
  BY SeqIs
<1>2. Each(Update, x, q) = run[L]
  BY DEF Each
<1>3. \A n \in 0 .. L - 1 : \A P \in G[n] :
        F[n][P] = Update(P, q[n + 1]) /\ F[n][P] \in G[n + 1]
  OBVIOUS
<1>. HIDE DEF L, F
<1>4. \E g : Runs(g)
  <2>1. PICK g : /\ g = [n \in 0 .. L |-> IF n = 0 THEN x ELSE F[n - 1][g[n - 1]]]
                 /\ \A n \in 0 .. L : g[n] \in G[n]
    <3>1. \A n \in 0 .. L - 1 : \A P \in G[n] : F[n][P] \in G[n + 1]
      BY <1>3
    <3>2. \E g : Computes(g, L, x, F) /\ \A n \in 0 .. L : g[n] \in G[n]
      BY <1>1, <3>1, LoopExists, Zenon
    <3>. QED
      BY <3>2, Zenon DEF Computes
  <2>2. \A n \in 0 .. L : g[n] = IF n = 0 THEN x ELSE Update(g[n - 1], q[n])
    <3>. SUFFICES ASSUME NEW n \in 0 .. L, n # 0 PROVE g[n] = Update(g[n - 1], q[n])
      BY <2>1
    <3>1. n - 1 \in 0 .. L - 1 /\ n - 1 \in 0 .. L /\ (n - 1) + 1 = n
      BY <1>1
    <3>2. g[n] = F[n - 1][g[n - 1]] /\ g[n - 1] \in G[n - 1]
      BY <2>1, <3>1
    <3>3. F[n - 1][g[n - 1]] = Update(g[n - 1], q[(n - 1) + 1])
      BY <1>3, <3>1, <3>2
    <3>. QED
      BY <3>1, <3>2, <3>3
  <2>3. g = [n \in 0 .. L |-> g[n]]
    BY <2>1
  <2>4. Runs(g)
    BY <2>2, <2>3, Zenon
  <2>. QED
    BY <2>4
<1>5. Runs(run)
  BY <1>4
<1>. HIDE DEF run
<1>6. \A n \in 0 .. L : run[n] = IF n = 0 THEN x ELSE Update(run[n - 1], q[n])
  BY <1>5
<1>7. \A n \in 0 .. L - 1 : run[n] \in G[n] => run[n + 1] \in G[n + 1]
  <2>. SUFFICES ASSUME NEW n \in 0 .. L - 1, run[n] \in G[n] PROVE run[n + 1] \in G[n + 1]
    OBVIOUS
  <2>1. n + 1 \in 0 .. L /\ n + 1 # 0 /\ (n + 1) - 1 = n
    BY <1>1
  <2>2. run[n + 1] = Update(run[n], q[n + 1])
    BY <1>6, <2>1
  <2>. QED
    BY <1>3, <2>2
<1>8. run[0] \in G[0]
  <2>1. 0 \in 0 .. L
    BY <1>1
  <2>. QED
    BY <1>6, <2>1
<1>9. run[L] \in G[L]
  BY <1>1, <1>7, <1>8, LoopHolds
<1>. QED
  BY <1>2, <1>9 DEF L

(* port__feed_events().                                                    *)
LEMMA FeedLoop ==
  ASSUME NEW q \in Seq(Obj), NEW x, NEW G, x \in G[0],
         \A n \in 0 .. Len(q) - 1 : \A P \in G[n] : Feed(P, q[n + 1]) \in G[n + 1]
  PROVE  Each(Feed, x, q) \in G[Len(q)]
<1>. DEFINE L == Len(q)
            F == [n \in 0 .. L - 1 |-> [P \in G[n] |-> Feed(P, q[n + 1])]]
            Runs(g) == g = [n \in 0 .. L |-> IF n = 0 THEN x ELSE Feed(g[n - 1], q[n])]
            run == CHOOSE g : Runs(g)
<1>1. L \in Nat
  BY SeqIs
<1>2. Each(Feed, x, q) = run[L]
  BY DEF Each
<1>3. \A n \in 0 .. L - 1 : \A P \in G[n] :
        F[n][P] = Feed(P, q[n + 1]) /\ F[n][P] \in G[n + 1]
  OBVIOUS
<1>. HIDE DEF L, F
<1>4. \E g : Runs(g)
  <2>1. PICK g : /\ g = [n \in 0 .. L |-> IF n = 0 THEN x ELSE F[n - 1][g[n - 1]]]
                 /\ \A n \in 0 .. L : g[n] \in G[n]
    <3>1. \A n \in 0 .. L - 1 : \A P \in G[n] : F[n][P] \in G[n + 1]
      BY <1>3
    <3>2. \E g : Computes(g, L, x, F) /\ \A n \in 0 .. L : g[n] \in G[n]
      BY <1>1, <3>1, LoopExists, Zenon
    <3>. QED
      BY <3>2, Zenon DEF Computes
  <2>2. \A n \in 0 .. L : g[n] = IF n = 0 THEN x ELSE Feed(g[n - 1], q[n])
    <3>. SUFFICES ASSUME NEW n \in 0 .. L, n # 0 PROVE g[n] = Feed(g[n - 1], q[n])
      BY <2>1
    <3>1. n - 1 \in 0 .. L - 1 /\ n - 1 \in 0 .. L /\ (n - 1) + 1 = n
      BY <1>1
    <3>2. g[n] = F[n - 1][g[n - 1]] /\ g[n - 1] \in G[n - 1]
      BY <2>1, <3>1
    <3>3. F[n - 1][g[n - 1]] = Feed(g[n - 1], q[(n - 1) + 1])
      BY <1>3, <3>1, <3>2
    <3>. QED
      BY <3>1, <3>2, <3>3
  <2>3. g = [n \in 0 .. L |-> g[n]]
    BY <2>1
  <2>4. Runs(g)
    BY <2>2, <2>3, Zenon
  <2>. QED
    BY <2>4
<1>5. Runs(run)
  BY <1>4
<1>. HIDE DEF run
<1>6. \A n \in 0 .. L : run[n] = IF n = 0 THEN x ELSE Feed(run[n - 1], q[n])
  BY <1>5
<1>7. \A n \in 0 .. L - 1 : run[n] \in G[n] => run[n + 1] \in G[n + 1]
  <2>. SUFFICES ASSUME NEW n \in 0 .. L - 1, run[n] \in G[n] PROVE run[n + 1] \in G[n + 1]
    OBVIOUS
  <2>1. n + 1 \in 0 .. L /\ n + 1 # 0 /\ (n + 1) - 1 = n
    BY <1>1
  <2>2. run[n + 1] = Feed(run[n], q[n + 1])
    BY <1>6, <2>1
  <2>. QED
    BY <1>3, <2>2
<1>8. run[0] \in G[0]
  <2>1. 0 \in 0 .. L
    BY <1>1
  <2>. QED
    BY <1>6, <2>1
<1>9. run[L] \in G[L]
  BY <1>1, <1>7, <1>8, LoopHolds
<1>. QED
  BY <1>2, <1>9 DEF L

(* A loop of port_delete().                                                *)
LEMMA ForceLoop ==
  ASSUME NEW q \in Seq(Obj), NEW x, NEW G, x \in G[0],
         \A n \in 0 .. Len(q) - 1 : \A P \in G[n] : ForceDelete(P, q[n + 1]) \in G[n + 1]
  PROVE  Each(ForceDelete, x, q) \in G[Len(q)]
<1>. DEFINE L == Len(q)
            F == [n \in 0 .. L - 1 |-> [P \in G[n] |-> ForceDelete(P, q[n + 1])]]
            Runs(g) == g = [n \in 0 .. L |-> IF n = 0 THEN x ELSE ForceDelete(g[n - 1], q[n])]
            run == CHOOSE g : Runs(g)
<1>1. L \in Nat
  BY SeqIs
<1>2. Each(ForceDelete, x, q) = run[L]
  BY DEF Each
<1>3. \A n \in 0 .. L - 1 : \A P \in G[n] :
        F[n][P] = ForceDelete(P, q[n + 1]) /\ F[n][P] \in G[n + 1]
  OBVIOUS
<1>. HIDE DEF L, F
<1>4. \E g : Runs(g)
  <2>1. PICK g : /\ g = [n \in 0 .. L |-> IF n = 0 THEN x ELSE F[n - 1][g[n - 1]]]
                 /\ \A n \in 0 .. L : g[n] \in G[n]
    <3>1. \A n \in 0 .. L - 1 : \A P \in G[n] : F[n][P] \in G[n + 1]
      BY <1>3
    <3>2. \E g : Computes(g, L, x, F) /\ \A n \in 0 .. L : g[n] \in G[n]
      BY <1>1, <3>1, LoopExists, Zenon
    <3>. QED
      BY <3>2, Zenon DEF Computes
  <2>2. \A n \in 0 .. L : g[n] = IF n = 0 THEN x ELSE ForceDelete(g[n - 1], q[n])
    <3>. SUFFICES ASSUME NEW n \in 0 .. L, n # 0 PROVE g[n] = ForceDelete(g[n - 1], q[n])
      BY <2>1
    <3>1. n - 1 \in 0 .. L - 1 /\ n - 1 \in 0 .. L /\ (n - 1) + 1 = n
      BY <1>1
    <3>2. g[n] = F[n - 1][g[n - 1]] /\ g[n - 1] \in G[n - 1]
      BY <2>1, <3>1
    <3>3. F[n - 1][g[n - 1]] = ForceDelete(g[n - 1], q[(n - 1) + 1])
      BY <1>3, <3>1, <3>2
    <3>. QED
      BY <3>1, <3>2, <3>3
  <2>3. g = [n \in 0 .. L |-> g[n]]
    BY <2>1
  <2>4. Runs(g)
    BY <2>2, <2>3, Zenon
  <2>. QED
    BY <2>4
<1>5. Runs(run)
  BY <1>4
<1>. HIDE DEF run
<1>6. \A n \in 0 .. L : run[n] = IF n = 0 THEN x ELSE ForceDelete(run[n - 1], q[n])
  BY <1>5
<1>7. \A n \in 0 .. L - 1 : run[n] \in G[n] => run[n + 1] \in G[n + 1]
  <2>. SUFFICES ASSUME NEW n \in 0 .. L - 1, run[n] \in G[n] PROVE run[n + 1] \in G[n + 1]
    OBVIOUS
  <2>1. n + 1 \in 0 .. L /\ n + 1 # 0 /\ (n + 1) - 1 = n
    BY <1>1
  <2>2. run[n + 1] = ForceDelete(run[n], q[n + 1])
    BY <1>6, <2>1
  <2>. QED
    BY <1>3, <2>2
<1>8. run[0] \in G[0]
  <2>1. 0 \in 0 .. L
    BY <1>1
  <2>. QED
    BY <1>6, <2>1
<1>9. run[L] \in G[L]
  BY <1>1, <1>7, <1>8, LoopHolds
<1>. QED
  BY <1>2, <1>9 DEF L

(* The driver completes the polls of a socket that is closed.              *)
LEMMA CloseLoop ==
  ASSUME NEW q \in Seq(Obj), NEW x, NEW G, x \in G[0],
         \A n \in 0 .. Len(q) - 1 : \A P \in G[n] : Close(P, q[n + 1]) \in G[n + 1]
  PROVE  Each(Close, x, q) \in G[Len(q)]
<1>. DEFINE L == Len(q)
            F == [n \in 0 .. L - 1 |-> [P \in G[n] |-> Close(P, q[n + 1])]]
            Runs(g) == g = [n \in 0 .. L |-> IF n = 0 THEN x ELSE Close(g[n - 1], q[n])]
            run == CHOOSE g : Runs(g)
<1>1. L \in Nat
  BY SeqIs
<1>2. Each(Close, x, q) = run[L]
  BY DEF Each
<1>3. \A n \in 0 .. L - 1 : \A P \in G[n] :
        F[n][P] = Close(P, q[n + 1]) /\ F[n][P] \in G[n + 1]
  OBVIOUS
<1>. HIDE DEF L, F
<1>4. \E g : Runs(g)
  <2>1. PICK g : /\ g = [n \in 0 .. L |-> IF n = 0 THEN x ELSE F[n - 1][g[n - 1]]]
                 /\ \A n \in 0 .. L : g[n] \in G[n]
    <3>1. \A n \in 0 .. L - 1 : \A P \in G[n] : F[n][P] \in G[n + 1]
      BY <1>3
    <3>2. \E g : Computes(g, L, x, F) /\ \A n \in 0 .. L : g[n] \in G[n]
      BY <1>1, <3>1, LoopExists, Zenon
    <3>. QED
      BY <3>2, Zenon DEF Computes
  <2>2. \A n \in 0 .. L : g[n] = IF n = 0 THEN x ELSE Close(g[n - 1], q[n])
    <3>. SUFFICES ASSUME NEW n \in 0 .. L, n # 0 PROVE g[n] = Close(g[n - 1], q[n])
      BY <2>1
    <3>1. n - 1 \in 0 .. L - 1 /\ n - 1 \in 0 .. L /\ (n - 1) + 1 = n
      BY <1>1
    <3>2. g[n] = F[n - 1][g[n - 1]] /\ g[n - 1] \in G[n - 1]
      BY <2>1, <3>1
    <3>3. F[n - 1][g[n - 1]] = Close(g[n - 1], q[(n - 1) + 1])
      BY <1>3, <3>1, <3>2
    <3>. QED
      BY <3>1, <3>2, <3>3
  <2>3. g = [n \in 0 .. L |-> g[n]]
    BY <2>1
  <2>4. Runs(g)
    BY <2>2, <2>3, Zenon
  <2>. QED
    BY <2>4
<1>5. Runs(run)
  BY <1>4
<1>. HIDE DEF run
<1>6. \A n \in 0 .. L : run[n] = IF n = 0 THEN x ELSE Close(run[n - 1], q[n])
  BY <1>5
<1>7. \A n \in 0 .. L - 1 : run[n] \in G[n] => run[n + 1] \in G[n + 1]
  <2>. SUFFICES ASSUME NEW n \in 0 .. L - 1, run[n] \in G[n] PROVE run[n + 1] \in G[n + 1]
    OBVIOUS
  <2>1. n + 1 \in 0 .. L /\ n + 1 # 0 /\ (n + 1) - 1 = n
    BY <1>1
  <2>2. run[n + 1] = Close(run[n], q[n + 1])
    BY <1>6, <2>1
  <2>. QED
    BY <1>3, <2>2
<1>8. run[0] \in G[0]
  <2>1. 0 \in 0 .. L
    BY <1>1
  <2>. QED
    BY <1>6, <2>1
<1>9. run[L] \in G[L]
  BY <1>1, <1>7, <1>8, LoopHolds
<1>. QED
  BY <1>2, <1>9 DEF L
-----------------------------------------------------------------------------
(* The queue `moved` has the groups of `groups`, and g.                    *)
Requeued(moved, groups, g, size) ==
  /\ moved \in Seq(Nat) /\ IsInjective(moved) /\ FullFirst(moved, size)
  /\ Members(moved) = Members(groups) \cup {g}
  /\ g \in Members(groups) => Len(moved) = Len(groups)
  /\ g \notin Members(groups) => Len(moved) = Len(groups) + 1

(* A group that is not full is put behind the others.                      *)
LEMMA ToBack ==
  ASSUME NEW groups \in Seq(Nat), IsInjective(groups), NEW size, NEW new, NEW g \in Nat,
         FullFirst(groups, size), new[g] # GroupSize,
         \A h \in Members(groups) \ {g} : new[h] = size[h]
  PROVE  Requeued(Append(Without(groups, g), g), groups, g, new)
<1>. DEFINE others == Without(groups, g)
            moved  == Append(others, g)
<1>1. /\ others \in Seq(Nat) /\ IsInjective(others)
      /\ Members(others) = Members(groups) \ {g}
      /\ g \in Members(groups) => Len(others) = Len(groups) - 1
      /\ g \notin Members(groups) => Len(others) = Len(groups)
      /\ InOrder(others, groups)
  BY WithoutIs
<1>2. Len(groups) \in Nat /\ DOMAIN groups = 1 .. Len(groups)
  BY SeqIs
<1>. HIDE DEF others
<1>3. g \notin Members(others)
  BY <1>1
<1>4. /\ moved \in Seq(Nat) /\ IsInjective(moved)
      /\ Members(moved) = Members(others) \cup {g}
      /\ Len(moved) = Len(others) + 1 /\ moved[Len(others) + 1] = g
      /\ \A i \in 1 .. Len(others) : moved[i] = others[i]
  BY <1>1, <1>3, AppendIs
<1>. HIDE DEF moved
<1>5. Len(others) \in Nat /\ \A i \in 1 .. Len(others) : others[i] \in Members(others)
  BY <1>1, SeqIs
<1>6. DOMAIN moved = 1 .. Len(others) + 1
  BY <1>4, SeqIs
<1>7. FullFirst(moved, new)
  <2>. SUFFICES ASSUME NEW i \in 1 .. Len(others) + 1, NEW j \in 1 .. Len(others) + 1,
                       i < j, new[moved[j]] = GroupSize
                PROVE  new[moved[i]] = GroupSize
    BY <1>6 DEF FullFirst
  <2>1. j # Len(others) + 1
    BY <1>4
  <2>2. i \in 1 .. Len(others) /\ j \in 1 .. Len(others)
    BY <1>5, <2>1
  <2>3. moved[i] = others[i] /\ moved[j] = others[j]
    BY <1>4, <2>2
  <2>4. PICK m \in 1 .. Len(groups), n \in 1 .. Len(groups) :
          m < n /\ others[i] = groups[m] /\ others[j] = groups[n]
    BY <1>1, <2>2 DEF InOrder
  <2>5. new[others[i]] = size[others[i]] /\ new[others[j]] = size[others[j]]
    BY <1>1, <1>5, <2>2
  <2>6. size[groups[n]] = GroupSize
    BY <2>3, <2>4, <2>5
  <2>7. size[groups[m]] = GroupSize
    BY <1>2, <2>4, <2>6 DEF FullFirst
  <2>. QED
    BY <2>3, <2>4, <2>5, <2>7
<1>8. Members(moved) = Members(groups) \cup {g}
  BY <1>1, <1>4
<1>9. /\ g \in Members(groups) => Len(moved) = Len(groups)
      /\ g \notin Members(groups) => Len(moved) = Len(groups) + 1
  <2>1. CASE g \in Members(groups)
    <3>1. Len(others) = Len(groups) - 1 /\ Len(moved) = Len(others) + 1
      BY <1>1, <1>4, <2>1
    <3>2. Len(moved) = Len(groups)
      BY <1>2, <3>1
    <3>. QED
      BY <2>1, <3>2
  <2>2. CASE g \notin Members(groups)
    BY <1>1, <1>4, <2>2
  <2>. QED
    BY <2>1, <2>2
<1>10. Requeued(moved, groups, g, new)
  BY <1>4, <1>7, <1>8, <1>9 DEF Requeued
<1>. QED
  BY <1>10 DEF moved, others

(* A full group is put before the others.                                  *)
LEMMA ToFront ==
  ASSUME NEW groups \in Seq(Nat), IsInjective(groups), NEW size, NEW new, NEW g \in Nat,
         FullFirst(groups, size), new[g] = GroupSize,
         \A h \in Members(groups) \ {g} : new[h] = size[h]
  PROVE  Requeued(<<g>> \o Without(groups, g), groups, g, new)
<1>. DEFINE others == Without(groups, g)
            moved  == <<g>> \o others
<1>1. /\ others \in Seq(Nat) /\ IsInjective(others)
      /\ Members(others) = Members(groups) \ {g}
      /\ g \in Members(groups) => Len(others) = Len(groups) - 1
      /\ g \notin Members(groups) => Len(others) = Len(groups)
      /\ InOrder(others, groups)
  BY WithoutIs
<1>2. Len(groups) \in Nat /\ DOMAIN groups = 1 .. Len(groups)
  BY SeqIs
<1>. HIDE DEF others
<1>3. g \notin Members(others)
  BY <1>1
<1>4. /\ moved \in Seq(Nat) /\ IsInjective(moved)
      /\ Members(moved) = Members(others) \cup {g}
      /\ Len(moved) = Len(others) + 1 /\ moved[1] = g
      /\ \A i \in 2 .. Len(others) + 1 : moved[i] = others[i - 1]
  BY <1>1, <1>3, ConsIs
<1>. HIDE DEF moved
<1>5. Len(others) \in Nat /\ \A i \in 1 .. Len(others) : others[i] \in Members(others)
  BY <1>1, SeqIs
<1>6. DOMAIN moved = 1 .. Len(others) + 1
  BY <1>4, SeqIs
<1>7. FullFirst(moved, new)
  <2>. SUFFICES ASSUME NEW i \in 1 .. Len(others) + 1, NEW j \in 1 .. Len(others) + 1,
                       i < j, new[moved[j]] = GroupSize, i # 1
                PROVE  new[moved[i]] = GroupSize
    BY <1>4, <1>6 DEF FullFirst
  <2>1. /\ i - 1 \in 1 .. Len(others) /\ j - 1 \in 1 .. Len(others) /\ i - 1 < j - 1
        /\ i \in 2 .. Len(others) + 1 /\ j \in 2 .. Len(others) + 1
    BY <1>5
  <2>2. moved[i] = others[i - 1] /\ moved[j] = others[j - 1]
    BY <1>4, <2>1
  <2>3. PICK m \in 1 .. Len(groups), n \in 1 .. Len(groups) :
          m < n /\ others[i - 1] = groups[m] /\ others[j - 1] = groups[n]
    BY <1>1, <2>1 DEF InOrder
  <2>4. /\ new[others[i - 1]] = size[others[i - 1]]
        /\ new[others[j - 1]] = size[others[j - 1]]
    BY <1>1, <1>5, <2>1
  <2>5. size[groups[n]] = GroupSize
    BY <2>2, <2>3, <2>4
  <2>6. size[groups[m]] = GroupSize
    BY <1>2, <2>3, <2>5 DEF FullFirst
  <2>. QED
    BY <2>2, <2>3, <2>4, <2>6
<1>8. Members(moved) = Members(groups) \cup {g}
  BY <1>1, <1>4
<1>9. /\ g \in Members(groups) => Len(moved) = Len(groups)
      /\ g \notin Members(groups) => Len(moved) = Len(groups) + 1
  <2>1. CASE g \in Members(groups)
    <3>1. Len(others) = Len(groups) - 1 /\ Len(moved) = Len(others) + 1
      BY <1>1, <1>4, <2>1
    <3>2. Len(moved) = Len(groups)
      BY <1>2, <3>1
    <3>. QED
      BY <2>1, <3>2
  <2>2. CASE g \notin Members(groups)
    BY <1>1, <1>4, <2>2
  <2>. QED
    BY <2>1, <2>2
<1>10. Requeued(moved, groups, g, new)
  BY <1>4, <1>7, <1>8, <1>9 DEF Requeued
<1>. QED
  BY <1>10 DEF moved, others

(* Q is P but for its poll groups.                                         *)
Regrouped(P, Q) ==
  /\ Q \in PortState /\ GroupQueueOK(Q)
  /\ Q.tree = P.tree /\ Q.socks = P.socks /\ Q.updq = P.updq /\ Q.delq = P.delq
  /\ Q.active = P.active /\ Q.packets = P.packets /\ Q.cancels = P.cancels

(* poll_group_release() of a group that is not empty.                      *)
LEMMA ReleaseIs ==
  ASSUME NEW P \in PortState, GroupQueueOK(P), NEW g \in DOMAIN P.size, P.size[g] > 0
  PROVE  /\ Regrouped(P, Release(P, g))
         /\ Release(P, g).size = [P.size EXCEPT ![g] = @ - 1]
<1>. DEFINE new == [P.size EXCEPT ![g] = @ - 1]
            moved == Append(Without(P.groups, g), g)
            Q == Release(P, g)
<1>1. /\ P.groups \in Seq(Nat) /\ P.size \in Seq(Nat) /\ IsInjective(P.groups)
      /\ DOMAIN P.size = 1 .. Len(P.groups) /\ Members(P.groups) = DOMAIN P.size
      /\ \A h \in DOMAIN P.size : P.size[h] <= GroupSize
      /\ FullFirst(P.groups, P.size)
  BY DEF PortState, GroupQueueOK
<1>2. Len(P.groups) \in Nat /\ Len(P.size) \in Nat /\ DOMAIN P.size = 1 .. Len(P.size)
  BY <1>1, SeqIs
<1>3. g \in Nat /\ \A h \in DOMAIN P.size : P.size[h] \in Nat
  BY <1>1, <1>2, SeqIs
<1>4. /\ new[g] = P.size[g] - 1 /\ DOMAIN new = DOMAIN P.size
      /\ \A h \in DOMAIN P.size \ {g} : new[h] = P.size[h]
  OBVIOUS
<1>5. new \in Seq(Nat)
  <2>1. P.size[g] - 1 \in Nat
    BY <1>3
  <2>2. \A h \in DOMAIN P.size : new[h] \in Nat
    BY <1>3, <1>4, <2>1
  <2>3. new \in [1 .. Len(P.size) -> Nat]
    BY <1>2, <2>2
  <2>. HIDE DEF new
  <2>. QED
    BY <1>2, <2>3, SeqDef
<1>6. new[g] # GroupSize /\ \A h \in DOMAIN P.size : new[h] <= GroupSize
  <2>1. P.size[g] <= GroupSize /\ P.size[g] \in Nat /\ GroupSize \in Nat
    BY <1>1, <1>3, SizesAssumption
  <2>2. new[g] # GroupSize /\ new[g] <= GroupSize
    BY <1>4, <2>1
  <2>3. \A h \in DOMAIN P.size \ {g} : new[h] <= GroupSize
    BY <1>1, <1>4
  <2>. QED
    BY <2>2, <2>3
<1>7. /\ moved \in Seq(Nat) /\ IsInjective(moved) /\ FullFirst(moved, new)
      /\ Members(moved) = DOMAIN P.size /\ Len(moved) = Len(P.groups)
  <2>1. \A h \in Members(P.groups) \ {g} : new[h] = P.size[h]
    BY <1>1, <1>4
  <2>. HIDE DEF new
  <2>2. Requeued(moved, P.groups, g, new)
    BY <1>1, <1>3, <1>6, <2>1, ToBack
  <2>. QED
    BY <1>1, <2>2 DEF Requeued
<1>8. Q = [P EXCEPT !.size = new, !.groups = moved]
  BY DEF Release
<1>. HIDE DEF new, moved, Q
<1>9. /\ Q \in PortState /\ Q.size = new /\ Q.groups = moved
      /\ Q.tree = P.tree /\ Q.socks = P.socks /\ Q.updq = P.updq /\ Q.delq = P.delq
      /\ Q.active = P.active /\ Q.packets = P.packets /\ Q.cancels = P.cancels
  BY <1>5, <1>7, <1>8 DEF PortState
<1>10. GroupQueueOK(Q)
  BY <1>1, <1>4, <1>6, <1>7, <1>9 DEF GroupQueueOK
<1>. QED
  BY <1>9, <1>10 DEF Regrouped, Q, new

(* poll_group_acquire(): the group it returns counts one socket more.      *)
LEMMA AcquireIs ==
  ASSUME NEW P \in PortState, GroupQueueOK(P)
  PROVE  /\ Regrouped(P, Acquire(P)) /\ NextGroup(P) \in Nat
         /\ DOMAIN Acquire(P).size = DOMAIN P.size \cup {NextGroup(P)}
         /\ \A h \in DOMAIN P.size \ {NextGroup(P)} : Acquire(P).size[h] = P.size[h]
         /\ NextGroup(P) \in DOMAIN P.size =>
              Acquire(P).size[NextGroup(P)] = P.size[NextGroup(P)] + 1
         /\ NextGroup(P) \notin DOMAIN P.size => Acquire(P).size[NextGroup(P)] = 1
<1>. DEFINE g == NextGroup(P)
            n == IF NeedsGroup(P) THEN 1 ELSE P.size[g] + 1
            new == IF NeedsGroup(P) THEN Append(P.size, n) ELSE [P.size EXCEPT ![g] = n]
            others == Without(P.groups, g)
            moved == IF n = GroupSize THEN <<g>> \o others ELSE Append(others, g)
            Q == Acquire(P)
<1>1. /\ P.groups \in Seq(Nat) /\ P.size \in Seq(Nat) /\ IsInjective(P.groups)
      /\ DOMAIN P.size = 1 .. Len(P.groups) /\ Members(P.groups) = DOMAIN P.size
      /\ \A h \in DOMAIN P.size : P.size[h] <= GroupSize
      /\ FullFirst(P.groups, P.size)
  BY DEF PortState, GroupQueueOK
<1>2. Len(P.groups) \in Nat /\ Len(P.size) = Len(P.groups) /\ Len(P.size) \in Nat
  <2>1. Len(P.groups) \in Nat /\ Len(P.size) \in Nat /\ DOMAIN P.size = 1 .. Len(P.size)
    BY <1>1, SeqIs
  <2>. QED
    BY <1>1, <2>1
<1>3. \A h \in DOMAIN P.size : P.size[h] \in Nat
  BY <1>1, SeqIs
<1>4. /\ NeedsGroup(P) => g = Len(P.groups) + 1 /\ g \notin DOMAIN P.size
      /\ ~NeedsGroup(P) => g \in DOMAIN P.size /\ P.size[g] < GroupSize
  <2>1. CASE NeedsGroup(P)
    BY <1>1, <1>2, <2>1 DEF NextGroup
  <2>2. CASE ~NeedsGroup(P)
    <3>1. P.groups # <<>> /\ g = P.groups[Len(P.groups)] /\ P.size[g] < GroupSize
      BY <2>2 DEF NeedsGroup, NextGroup, Last
    <3>2. Len(P.groups) \in 1 .. Len(P.groups)
      BY <1>1, <1>2, <3>1, EmptySeq
    <3>3. P.groups[Len(P.groups)] \in Members(P.groups)
      BY <1>1, <3>2, SeqIs
    <3>. QED
      BY <1>1, <2>2, <3>1, <3>3
  <2>. QED
    BY <2>1, <2>2
<1>5. g \in Nat
  BY <1>1, <1>2, <1>4
<1>6. n \in 1 .. GroupSize
  BY <1>3, <1>4, SizesAssumption
<1>. HIDE DEF n, g
<1>7. /\ new \in Seq(Nat) /\ DOMAIN new = DOMAIN P.size \cup {g} /\ new[g] = n
      /\ \A h \in DOMAIN P.size \ {g} : new[h] = P.size[h]
  <2>1. CASE NeedsGroup(P)
    <3>1. /\ new \in Seq(Nat) /\ Len(new) = Len(P.size) + 1 /\ new[Len(P.size) + 1] = n
          /\ \A h \in 1 .. Len(P.size) : new[h] = P.size[h]
      <4>1. new = Append(P.size, n) /\ n \in Nat
        BY <1>6, <2>1
      <4>. HIDE DEF new
      <4>. QED
        BY <1>1, <4>1, AppendProperties
    <3>. HIDE DEF new
    <3>2. DOMAIN new = 1 .. Len(P.size) + 1
      BY <3>1, SeqIs
    <3>. QED
      BY <1>1, <1>2, <1>4, <2>1, <3>1, <3>2
  <2>2. CASE ~NeedsGroup(P)
    <3>1. new = [P.size EXCEPT ![g] = n] /\ n \in Nat /\ g \in DOMAIN P.size
      BY <1>4, <1>6, <2>2
    <3>. HIDE DEF new
    <3>2. new \in [1 .. Len(P.size) -> Nat]
      BY <1>1, <1>2, <1>3, <3>1
    <3>3. new \in Seq(Nat)
      BY <1>2, <3>2, SeqDef
    <3>. QED
      BY <3>1, <3>3
  <2>. QED
    BY <2>1, <2>2
<1>8. Q = [P EXCEPT !.size = new, !.groups = moved]
  BY DEF Acquire, g, n
<1>. HIDE DEF new, others
<1>9. /\ moved \in Seq(Nat) /\ IsInjective(moved) /\ FullFirst(moved, new)
      /\ Members(moved) = DOMAIN P.size \cup {g}
      /\ g \in DOMAIN P.size => Len(moved) = Len(P.groups)
      /\ g \notin DOMAIN P.size => Len(moved) = Len(P.groups) + 1
  <2>1. \A h \in Members(P.groups) \ {g} : new[h] = P.size[h]
    BY <1>1, <1>7
  <2>2. CASE n = GroupSize
    <3>1. moved = <<g>> \o Without(P.groups, g) /\ new[g] = GroupSize
      BY <1>7, <2>2 DEF others
    <3>. HIDE DEF moved
    <3>2. Requeued(moved, P.groups, g, new)
      BY <1>1, <1>5, <2>1, <3>1, ToFront
    <3>. QED
      BY <1>1, <3>2 DEF Requeued
  <2>3. CASE n # GroupSize
    <3>1. moved = Append(Without(P.groups, g), g) /\ new[g] # GroupSize
      BY <1>7, <2>3 DEF others
    <3>. HIDE DEF moved
    <3>2. Requeued(moved, P.groups, g, new)
      BY <1>1, <1>5, <2>1, <3>1, ToBack
    <3>. QED
      BY <1>1, <3>2 DEF Requeued
  <2>. QED
    BY <2>2, <2>3
<1>. HIDE DEF moved, Q
<1>10. /\ Q \in PortState /\ Q.size = new /\ Q.groups = moved
       /\ Q.tree = P.tree /\ Q.socks = P.socks /\ Q.updq = P.updq /\ Q.delq = P.delq
       /\ Q.active = P.active /\ Q.packets = P.packets /\ Q.cancels = P.cancels
  BY <1>7, <1>8, <1>9 DEF PortState
<1>11. DOMAIN new = 1 .. Len(moved)
  <2>1. CASE NeedsGroup(P)
    <3>1. Len(moved) = Len(P.groups) + 1 /\ g = Len(P.groups) + 1
      BY <1>4, <1>9, <2>1
    <3>2. (1 .. Len(P.groups)) \cup {g} = 1 .. Len(P.groups) + 1
      BY <1>2, <3>1
    <3>. QED
      BY <1>1, <1>7, <3>1, <3>2
  <2>2. CASE ~NeedsGroup(P)
    BY <1>1, <1>4, <1>7, <1>9, <2>2
  <2>. QED
    BY <2>1, <2>2
<1>12. \A h \in DOMAIN new : new[h] <= GroupSize
  <2>. SUFFICES ASSUME NEW h \in DOMAIN new PROVE new[h] <= GroupSize
    OBVIOUS
  <2>1. CASE h = g
    BY <1>6, <1>7, <2>1, SizesAssumption
  <2>2. CASE h # g
    BY <1>1, <1>7, <2>2
  <2>. QED
    BY <2>1, <2>2
<1>13. GroupQueueOK(Q)
  BY <1>7, <1>9, <1>10, <1>11, <1>12 DEF GroupQueueOK
<1>14. /\ g \in DOMAIN P.size => n = P.size[g] + 1
       /\ g \notin DOMAIN P.size => n = 1
  BY <1>4 DEF n
<1>. QED
  BY <1>5, <1>7, <1>10, <1>13, <1>14 DEF Regrouped, Q, g
-----------------------------------------------------------------------------
(* An object is a sock_state or free memory.                               *)
LEMMA SocksAre ==
  ASSUME NEW P \in PortState
  PROVE  /\ Allocated(P) \subseteq Obj /\ Live(P) \subseteq Allocated(P)
         /\ Deleting(P) \subseteq Allocated(P)
         /\ \A o \in Allocated(P) : P.socks[o] \in SockState
         /\ \A o \in Obj : o \in Allocated(P) <=> P.socks[o] # None
         /\ \A o \in Obj : o \in Live(P) <=> (P.socks[o] # None /\ ~P.socks[o].deleting)
         /\ \A o \in Obj : o \in Deleting(P) <=> (P.socks[o] # None /\ P.socks[o].deleting)
  BY DEF PortState, Allocated, Live, Deleting

(* Q is P with the sock_state of o removed: it is in no queue, and its     *)
(* group counts one socket less.                                           *)
Freed(P, Q, o) ==
  /\ Q \in PortState /\ GroupQueueOK(Q)
  /\ Q.tree = IF P.socks[o].deleting THEN P.tree
              ELSE [P.tree EXCEPT ![P.socks[o].sock] = None]
  /\ Q.socks = [P.socks EXCEPT ![o] = None]
  /\ IsInjective(Q.updq) /\ Members(Q.updq) = Members(P.updq) \ {o}
  /\ IsInjective(Q.delq) /\ Members(Q.delq) = Members(P.delq) \ {o}
  /\ Q.size = [P.size EXCEPT ![P.socks[o].group] = @ - 1]
  /\ Q.cancels = P.cancels \ {o}
  /\ Q.active = P.active /\ Q.packets = P.packets

(* port_cancel_socket_update() and port_remove_deleted_socket().           *)
LEMMA DequeuedIs ==
  ASSUME NEW P \in PortState, IsInjective(P.updq), IsInjective(P.delq), NEW o
  PROVE  LET Q == Dequeued(P, o)
         IN  /\ Q \in PortState
             /\ IsInjective(Q.updq) /\ Members(Q.updq) = Members(P.updq) \ {o}
             /\ IsInjective(Q.delq) /\ Members(Q.delq) = Members(P.delq) \ {o}
             /\ o \notin Members(P.delq) => Q.delq = P.delq
             /\ Q.tree = P.tree /\ Q.socks = P.socks /\ Q.groups = P.groups
             /\ Q.size = P.size /\ Q.active = P.active /\ Q.packets = P.packets
             /\ Q.cancels = P.cancels
<1>. DEFINE u == Without(P.updq, o)
            d == Without(P.delq, o)
            Q == Dequeued(P, o)
<1>1. P.updq \in Seq(Obj) /\ P.delq \in Seq(Obj)
  BY DEF PortState
<1>2. u \in Seq(Obj) /\ IsInjective(u) /\ Members(u) = Members(P.updq) \ {o}
  BY <1>1, WithoutIs
<1>3. /\ d \in Seq(Obj) /\ IsInjective(d) /\ Members(d) = Members(P.delq) \ {o}
      /\ o \notin Members(P.delq) => d = P.delq
  BY <1>1, WithoutIs
<1>4. Q = [P EXCEPT !.updq = u, !.delq = d]
  BY DEF Dequeued
<1>. HIDE DEF u, d, Q
<1>5. /\ Q \in PortState /\ Q.updq = u /\ Q.delq = d
      /\ Q.tree = P.tree /\ Q.socks = P.socks /\ Q.groups = P.groups
      /\ Q.size = P.size /\ Q.active = P.active /\ Q.packets = P.packets
      /\ Q.cancels = P.cancels
  BY <1>2, <1>3, <1>4 DEF PortState
<1>. QED
  BY <1>2, <1>3, <1>5 DEF Q

(* The second part of sock__delete().                                      *)
LEMMA FreeIs ==
  ASSUME NEW P \in PortState, GroupQueueOK(P), IsInjective(P.updq), IsInjective(P.delq),
         NEW o \in Allocated(P), P.socks[o].group \in DOMAIN P.size,
         P.size[P.socks[o].group] > 0, P.socks[o].deleting
  PROVE  Freed(P, Free(P, o), o)
<1>. DEFINE D == Dequeued(P, o)
            g == P.socks[o].group
            R == Release(D, g)
            Q == Free(P, o)
<1>1. /\ D \in PortState
      /\ IsInjective(D.updq) /\ Members(D.updq) = Members(P.updq) \ {o}
      /\ IsInjective(D.delq) /\ Members(D.delq) = Members(P.delq) \ {o}
      /\ D.tree = P.tree /\ D.socks = P.socks /\ D.groups = P.groups
      /\ D.size = P.size /\ D.active = P.active /\ D.packets = P.packets
      /\ D.cancels = P.cancels
  BY DequeuedIs
<1>2. GroupQueueOK(D)
  BY <1>1 DEF GroupQueueOK
<1>. HIDE DEF D
<1>3. Regrouped(D, R) /\ R.size = [D.size EXCEPT ![g] = @ - 1]
  BY <1>1, <1>2, ReleaseIs
<1>4. Q = [R EXCEPT !.socks[o] = None, !.cancels = @ \ {o}]
  BY DEF Free, D
<1>. HIDE DEF R, Q
<1>5. o \in Obj
  BY DEF Allocated
<1>6. /\ Q \in PortState /\ Q.tree = R.tree /\ Q.socks = [R.socks EXCEPT ![o] = None]
      /\ Q.updq = R.updq /\ Q.delq = R.delq /\ Q.groups = R.groups /\ Q.size = R.size
      /\ Q.active = R.active /\ Q.packets = R.packets /\ Q.cancels = R.cancels \ {o}
  <2>1. R \in PortState
    BY <1>3 DEF Regrouped
  <2>. QED
    BY <1>4, <1>5, <2>1 DEF PortState
<1>7. GroupQueueOK(Q)
  BY <1>3, <1>6 DEF Regrouped, GroupQueueOK
<1>8. Freed(P, Q, o)
  BY <1>1, <1>3, <1>6, <1>7 DEF Freed, Regrouped
<1>. QED
  BY <1>8 DEF Q

(* Q is P with S as the sock_state of o.                                   *)
Stored(P, Q, o, S) ==
  /\ Q \in PortState /\ S \in SockState /\ Q.socks = [P.socks EXCEPT ![o] = S]
  /\ Q.tree = P.tree /\ Q.groups = P.groups /\ Q.size = P.size
  /\ Q.active = P.active /\ Q.packets = P.packets

(* The sock_state of o once its poll is cancelled.                         *)
CancelledSock(S) == [S EXCEPT !.poll = "CANCELLED", !.pending = {}]

(* What the cancellation leaves of the sock_state.                         *)
LEMMA CancelledIs ==
  ASSUME NEW S \in SockState
  PROVE  LET R == CancelledSock(S)
         IN  /\ R \in SockState /\ R.poll = "CANCELLED" /\ R.pending = {}
             /\ R.sock = S.sock /\ R.user = S.user /\ R.deleting = S.deleting
             /\ R.group = S.group /\ R.status = S.status /\ R.info = S.info
             /\ R.once = S.once
  BY DEF CancelledSock, SockState

(* sock__cancel_poll()                                                     *)
LEMMA CancelPollIs ==
  ASSUME NEW P \in PortState, NEW o \in Allocated(P)
  PROVE  LET Q == CancelPoll(P, o)
         IN  /\ Stored(P, Q, o, CancelledSock(P.socks[o]))
             /\ Q.updq = P.updq /\ Q.delq = P.delq
             /\ Q.cancels = IF P.socks[o].status = "PENDING" THEN P.cancels \cup {o}
                                                             ELSE P.cancels
<1>. DEFINE S == CancelledSock(P.socks[o])
            Q == CancelPoll(P, o)
            C == IF P.socks[o].status = "PENDING" THEN P.cancels \cup {o} ELSE P.cancels
<1>1. o \in Obj /\ P.socks[o] \in SockState
  BY SocksAre
<1>2. S \in SockState
  BY <1>1, CancelledIs
<1>3. Q = [P EXCEPT !.socks = [P.socks EXCEPT ![o] = S], !.cancels = C]
  BY DEF CancelPoll, CancelledSock
<1>. HIDE DEF S, Q
<1>4. C \in SUBSET Obj
  BY <1>1 DEF PortState
<1>. HIDE DEF C
<1>5. /\ Q \in PortState /\ Q.socks = [P.socks EXCEPT ![o] = S]
      /\ Q.updq = P.updq /\ Q.delq = P.delq /\ Q.cancels = C
      /\ Q.tree = P.tree /\ Q.groups = P.groups /\ Q.size = P.size
      /\ Q.active = P.active /\ Q.packets = P.packets
  BY <1>1, <1>2, <1>3, <1>4 DEF PortState
<1>. QED
  BY <1>2, <1>5 DEF Stored, Q, S, C

(* The sock_state of o once sock__delete() has marked it.                  *)
MarkedSock(S, cancel) ==
  IF S.poll = "PENDING" /\ cancel THEN [CancelledSock(S) EXCEPT !.deleting = TRUE]
                                  ELSE [S EXCEPT !.deleting = TRUE]

(* What the deletion leaves of the sock_state.                             *)
LEMMA MarkedIs ==
  ASSUME NEW S \in SockState, NEW cancel
  PROVE  LET R == MarkedSock(S, cancel)
         IN  /\ R \in SockState /\ R.deleting
             /\ R.sock = S.sock /\ R.user = S.user /\ R.group = S.group
             /\ R.status = S.status /\ R.info = S.info
             /\ S.poll = "PENDING" /\ cancel => R.poll = "CANCELLED" /\ R.pending = {}
             /\ ~(S.poll = "PENDING" /\ cancel) => R.poll = S.poll /\ R.pending = S.pending
<1>1. CASE S.poll = "PENDING" /\ cancel
  <2>. DEFINE R == CancelledSock(S)
  <2>1. /\ R \in SockState /\ R.poll = "CANCELLED" /\ R.pending = {}
        /\ R.sock = S.sock /\ R.user = S.user
        /\ R.group = S.group /\ R.status = S.status /\ R.info = S.info
    BY CancelledIs
  <2>2. MarkedSock(S, cancel) = [R EXCEPT !.deleting = TRUE]
    BY <1>1 DEF MarkedSock
  <2>. HIDE DEF R
  <2>. QED
    BY <1>1, <2>1, <2>2 DEF SockState
<1>2. CASE ~(S.poll = "PENDING" /\ cancel)
  <2>1. MarkedSock(S, cancel) = [S EXCEPT !.deleting = TRUE]
    BY <1>2 DEF MarkedSock
  <2>. QED
    BY <1>2, <2>1 DEF SockState
<1>. QED
  BY <1>1, <1>2

(* Q is P with the sock_state of o marked as deleted, out of the tree and  *)
(* of the queues.                                                          *)
Marked(P, Q, o, cancel) ==
  LET S == P.socks[o]
  IN  /\ Q \in PortState
      /\ Q.socks = [P.socks EXCEPT ![o] = MarkedSock(S, cancel)]
      /\ Q.tree = [P.tree EXCEPT ![S.sock] = None]
      /\ IsInjective(Q.updq) /\ Members(Q.updq) = Members(P.updq) \ {o}
      /\ Q.groups = P.groups /\ Q.size = P.size
      /\ Q.active = P.active /\ Q.packets = P.packets
      /\ Q.cancels = IF S.poll = "PENDING" /\ cancel /\ S.status = "PENDING"
                     THEN P.cancels \cup {o} ELSE P.cancels

(* The first part of sock__delete().                                       *)
LEMMA UnregisterIs ==
  ASSUME NEW P \in PortState, IsInjective(P.updq), IsInjective(P.delq),
         NEW o \in Allocated(P), NEW cancel
  PROVE  LET Q == Unregister(P, o, cancel)
         IN  /\ Marked(P, Q, o, cancel)
             /\ IsInjective(Q.delq) /\ Members(Q.delq) = Members(P.delq) \ {o}
<1>. DEFINE S == P.socks[o]
            must == S.poll = "PENDING" /\ cancel
            C == IF must THEN CancelPoll(P, o) ELSE P
            D == Dequeued(C, o)
            Q == Unregister(P, o, cancel)
            K == IF must /\ S.status = "PENDING" THEN P.cancels \cup {o} ELSE P.cancels
            R == IF must THEN CancelledSock(S) ELSE S
<1>1. o \in Obj /\ S \in SockState /\ S.sock \in Sock
  BY SocksAre DEF SockState
<1>2. /\ C \in PortState /\ C.socks = [P.socks EXCEPT ![o] = R] /\ C.cancels = K
      /\ C.updq = P.updq /\ C.delq = P.delq /\ C.tree = P.tree
      /\ C.groups = P.groups /\ C.size = P.size
      /\ C.active = P.active /\ C.packets = P.packets
  <2>1. CASE must
    <3>1. C = CancelPoll(P, o) /\ R = CancelledSock(S)
      BY <2>1
    <3>2. K = IF S.status = "PENDING" THEN P.cancels \cup {o} ELSE P.cancels
      BY <2>1
    <3>. HIDE DEF C, R, K, must
    <3>. QED
      BY <3>1, <3>2, CancelPollIs DEF Stored
  <2>2. CASE ~must
    <3>1. C = P /\ R = S /\ K = P.cancels
      BY <2>2
    <3>. HIDE DEF C, R, K, must
    <3>2. P.socks = [P.socks EXCEPT ![o] = S]
      BY <1>1 DEF PortState
    <3>. QED
      BY <3>1, <3>2
  <2>. QED
    BY <2>1, <2>2
<1>3. Q = [D EXCEPT !.tree[S.sock] = None, !.socks[o] = [@ EXCEPT !.deleting = TRUE]]
  BY DEF Unregister
<1>4. MarkedSock(S, cancel) = [R EXCEPT !.deleting = TRUE]
  BY DEF MarkedSock
<1>5. MarkedSock(S, cancel) \in SockState
  BY <1>1, MarkedIs
<1>. HIDE DEF C, Q, K, R, S
<1>6. /\ D \in PortState
      /\ IsInjective(D.updq) /\ Members(D.updq) = Members(P.updq) \ {o}
      /\ IsInjective(D.delq) /\ Members(D.delq) = Members(P.delq) \ {o}
      /\ D.tree = P.tree /\ D.socks = C.socks /\ D.groups = P.groups
      /\ D.size = P.size /\ D.active = P.active /\ D.packets = P.packets
      /\ D.cancels = K
  <2>1. C \in PortState /\ IsInjective(C.updq) /\ IsInjective(C.delq)
    BY <1>2
  <2>2. /\ D \in PortState
        /\ IsInjective(D.updq) /\ Members(D.updq) = Members(C.updq) \ {o}
        /\ IsInjective(D.delq) /\ Members(D.delq) = Members(C.delq) \ {o}
        /\ D.tree = C.tree /\ D.socks = C.socks /\ D.groups = C.groups
        /\ D.size = C.size /\ D.active = C.active /\ D.packets = C.packets
        /\ D.cancels = C.cancels
    BY <2>1, DequeuedIs
  <2>. HIDE DEF D
  <2>. QED
    BY <1>2, <2>2
<1>. HIDE DEF D
<1>7. D.socks[o] = R
  BY <1>1, <1>2, <1>6 DEF PortState
<1>8. /\ [P.socks EXCEPT ![o] = MarkedSock(S, cancel)] \in [Obj -> SockState \cup {None}]
      /\ [P.tree EXCEPT ![S.sock] = None] \in [Sock -> Obj \cup {None}]
  BY <1>5 DEF PortState
<1>9. Q = [D EXCEPT !.tree = [P.tree EXCEPT ![S.sock] = None],
                    !.socks = [P.socks EXCEPT ![o] = MarkedSock(S, cancel)]]
  <2>1. [D.socks EXCEPT ![o] = MarkedSock(S, cancel)] =
           [P.socks EXCEPT ![o] = MarkedSock(S, cancel)]
    BY <1>1, <1>2, <1>6 DEF PortState
  <2>2. Q = [D EXCEPT !.tree = [D.tree EXCEPT ![S.sock] = None],
                      !.socks = [D.socks EXCEPT ![o] = [D.socks[o] EXCEPT !.deleting = TRUE]]]
    BY <1>3
  <2>. QED
    BY <1>4, <1>6, <1>7, <2>1, <2>2
<1>10. /\ Q \in PortState /\ Q.tree = [P.tree EXCEPT ![S.sock] = None]
       /\ Q.socks = [P.socks EXCEPT ![o] = MarkedSock(S, cancel)]
       /\ Q.updq = D.updq /\ Q.delq = D.delq /\ Q.groups = D.groups /\ Q.size = D.size
       /\ Q.active = D.active /\ Q.packets = D.packets /\ Q.cancels = D.cancels
  BY <1>6, <1>8, <1>9 DEF PortState
<1>11. Marked(P, Q, o, cancel)
  BY <1>6, <1>10, Zenon DEF Marked, S, K
<1>. QED
  BY <1>6, <1>10, <1>11 DEF Q

(* sock__delete() of a socket without a poll, or by force.                 *)
LEMMA DeleteFrees ==
  ASSUME NEW P \in PortState, GroupQueueOK(P), IsInjective(P.updq), IsInjective(P.delq),
         NEW o \in Allocated(P), P.socks[o].group \in DOMAIN P.size,
         P.size[P.socks[o].group] > 0, NEW force, NEW cancel,
         force \/ P.socks[o].poll = "IDLE"
  PROVE  Freed(P, Delete(P, o, force, cancel), o)
<1>. DEFINE S == P.socks[o]
            Q == Unregister(P, o, cancel)
<1>1. o \in Obj /\ S \in SockState
  BY SocksAre
<1>2. CASE S.deleting
  <2>1. Delete(P, o, force, cancel) = Free(P, o)
    BY <1>2 DEF Delete
  <2>. QED
    BY <1>2, <2>1, FreeIs
<1>3. CASE ~S.deleting
  <2>1. /\ Marked(P, Q, o, cancel)
        /\ IsInjective(Q.delq) /\ Members(Q.delq) = Members(P.delq) \ {o}
    BY UnregisterIs
  <2>2. Delete(P, o, force, cancel) =
          IF force \/ Q.socks[o].poll = "IDLE" THEN Free(Q, o) ELSE AddDeleted(Q, o)
    BY <1>3 DEF Delete
  <2>. DEFINE R == MarkedSock(S, cancel)
              F == Free(Q, o)
  <2>3. /\ R \in SockState /\ R.deleting /\ R.group = S.group
        /\ S.poll = "IDLE" => R.poll = "IDLE"
    BY <1>1, MarkedIs
  <2>. HIDE DEF Q, R
  <2>4. /\ Q \in PortState /\ Q.socks = [P.socks EXCEPT ![o] = R]
        /\ Q.tree = [P.tree EXCEPT ![S.sock] = None]
        /\ IsInjective(Q.updq) /\ Members(Q.updq) = Members(P.updq) \ {o}
        /\ Q.groups = P.groups /\ Q.size = P.size
        /\ Q.active = P.active /\ Q.packets = P.packets
        /\ Q.cancels = P.cancels \cup {o} \/ Q.cancels = P.cancels
    BY <2>1 DEF Marked, R
  <2>5. Q.socks[o] = R
    BY <1>1, <2>4 DEF PortState
  <2>6. Delete(P, o, force, cancel) = F
    BY <2>2, <2>3, <2>5
  <2>7. o \in Allocated(Q)
    BY <1>1, <2>3, <2>5, NoneAssumption DEF Allocated
  <2>8. GroupQueueOK(Q)
    BY <2>4 DEF GroupQueueOK
  <2>9. /\ Q.socks[o].group \in DOMAIN Q.size /\ Q.size[Q.socks[o].group] > 0
        /\ Q.socks[o].deleting
    BY <2>3, <2>4, <2>5
  <2>10. Freed(Q, F, o)
    BY <2>1, <2>4, <2>7, <2>8, <2>9, FreeIs
  <2>. HIDE DEF F, S
  <2>11. /\ F \in PortState /\ GroupQueueOK(F) /\ F.tree = Q.tree
         /\ F.socks = [Q.socks EXCEPT ![o] = None]
         /\ IsInjective(F.updq) /\ Members(F.updq) = Members(Q.updq) \ {o}
         /\ IsInjective(F.delq) /\ Members(F.delq) = Members(Q.delq) \ {o}
         /\ F.size = [Q.size EXCEPT ![R.group] = @ - 1]
         /\ F.cancels = Q.cancels \ {o}
         /\ F.active = Q.active /\ F.packets = Q.packets
    BY <2>5, <2>9, <2>10 DEF Freed
  <2>12. F.socks = [P.socks EXCEPT ![o] = None]
    BY <1>1, <2>4, <2>11 DEF PortState
  <2>13. F.cancels = P.cancels \ {o} /\ F.tree = [P.tree EXCEPT ![P.socks[o].sock] = None]
    BY <2>4, <2>11 DEF S
  <2>14. F.size = [P.size EXCEPT ![P.socks[o].group] = @ - 1]
    BY <2>3, <2>4, <2>11 DEF S
  <2>15. /\ Members(F.updq) = Members(P.updq) \ {o} /\ Members(F.delq) = Members(P.delq) \ {o}
         /\ F.active = P.active /\ F.packets = P.packets
    BY <2>1, <2>4, <2>11
  <2>16. ~P.socks[o].deleting
    BY <1>3 DEF S
  <2>17. Freed(P, F, o)
    BY <2>11, <2>12, <2>13, <2>14, <2>15, <2>16, Zenon DEF Freed
  <2>. QED
    BY <2>6, <2>17
<1>. QED
  BY <1>2, <1>3

(* sock__delete() of a registered socket whose poll is out.                *)
LEMMA DeleteDefers ==
  ASSUME NEW P \in PortState, IsInjective(P.updq), IsInjective(P.delq),
         NEW o \in Allocated(P), ~P.socks[o].deleting, P.socks[o].poll # "IDLE", NEW cancel
  PROVE  LET Q == Delete(P, o, FALSE, cancel)
         IN  /\ Marked(P, Q, o, cancel)
             /\ IsInjective(Q.delq) /\ Members(Q.delq) = Members(P.delq) \cup {o}
<1>. DEFINE S == P.socks[o]
            U == Unregister(P, o, cancel)
            Q == Delete(P, o, FALSE, cancel)
<1>1. o \in Obj /\ S \in SockState
  BY SocksAre
<1>2. /\ Marked(P, U, o, cancel)
      /\ IsInjective(U.delq) /\ Members(U.delq) = Members(P.delq) \ {o}
  BY UnregisterIs
<1>3. MarkedSock(S, cancel).poll # "IDLE"
  BY <1>1, MarkedIs
<1>. HIDE DEF U
<1>4. /\ U \in PortState /\ U.socks[o] = MarkedSock(S, cancel)
      /\ o \notin Members(U.updq) /\ o \notin Members(U.delq)
  BY <1>1, <1>2 DEF Marked, PortState
<1>5. Q = AddDeleted(U, o)
  BY <1>3, <1>4 DEF Delete, U
<1>6. Q = [U EXCEPT !.delq = Append(U.delq, o)]
  BY <1>4, <1>5 DEF AddDeleted, Enqueued
<1>7. /\ Append(U.delq, o) \in Seq(Obj) /\ IsInjective(Append(U.delq, o))
      /\ Members(Append(U.delq, o)) = Members(U.delq) \cup {o}
  <2>1. U.delq \in Seq(Obj)
    BY <1>4 DEF PortState
  <2>. QED
    BY <1>1, <1>2, <1>4, <2>1, AppendIs
<1>. HIDE DEF Q, S
<1>8. /\ Q \in PortState /\ Q.delq = Append(U.delq, o) /\ Q.tree = U.tree
      /\ Q.socks = U.socks /\ Q.updq = U.updq /\ Q.groups = U.groups /\ Q.size = U.size
      /\ Q.active = U.active /\ Q.packets = U.packets /\ Q.cancels = U.cancels
  BY <1>4, <1>6, <1>7 DEF PortState
<1>9. Marked(P, Q, o, cancel)
  BY <1>2, <1>8, Zenon DEF Marked
<1>. QED
  BY <1>2, <1>7, <1>8, <1>9 DEF Q
-----------------------------------------------------------------------------
(* The group of a sock_state counts it.                                    *)
LEMMA GroupCounts ==
  ASSUME NEW P \in PortState, CountsOK(P), NEW o \in Allocated(P)
  PROVE  /\ P.socks[o].group \in DOMAIN P.size /\ P.size[P.socks[o].group] > 0
         /\ P.size[P.socks[o].group] - 1 =
              Cardinality(InGroup(P.socks, P.socks[o].group) \ {o})
<1>. DEFINE g == P.socks[o].group
            S == InGroup(P.socks, g)
<1>1. g \in DOMAIN P.size /\ P.size[g] = Cardinality(S)
  BY DEF CountsOK
<1>2. o \in S
  BY DEF InGroup, Allocated
<1>3. IsFiniteSet(S)
  BY FiniteAssumption, FS_Subset DEF InGroup
<1>. HIDE DEF S, g
<1>4. Cardinality(S) \in Nat /\ Cardinality(S \ {o}) = Cardinality(S) - 1
  BY <1>2, <1>3, FS_CardinalityType, FS_RemoveElement
<1>5. Cardinality(S \ {o}) \in Nat
  BY <1>3, FS_CardinalityType, FS_RemoveElement
<1>. QED
  BY <1>1, <1>4, <1>5 DEF S, g

(* Freeing a sock_state.                                                   *)
LEMMA FreedIs ==
  ASSUME NEW P, Structure(P), NEW o \in Allocated(P), NEW Q, Freed(P, Q, o)
  PROVE  /\ Structure(Q)
         /\ Allocated(Q) = Allocated(P) \ {o} /\ Live(Q) = Live(P) \ {o}
         /\ Deleting(Q) = Deleting(P) \ {o}
         /\ \A p \in Allocated(Q) : Q.socks[p] = P.socks[p]
<1>. DEFINE g == P.socks[o].group
            s == P.socks[o].sock
<1>1. /\ P \in PortState /\ TreeOK(P) /\ UpdqOK(P) /\ DelqOK(P)
      /\ GroupQueueOK(P) /\ CountsOK(P)
  BY DEF Structure
<1>2. /\ Q \in PortState /\ GroupQueueOK(Q)
      /\ Q.tree = IF P.socks[o].deleting THEN P.tree ELSE [P.tree EXCEPT ![s] = None]
      /\ Q.socks = [P.socks EXCEPT ![o] = None]
      /\ IsInjective(Q.updq) /\ Members(Q.updq) = Members(P.updq) \ {o}
      /\ IsInjective(Q.delq) /\ Members(Q.delq) = Members(P.delq) \ {o}
      /\ Q.size = [P.size EXCEPT ![g] = @ - 1]
  BY DEF Freed
<1>3. o \in Obj /\ P.socks[o] # None
  BY DEF Allocated
<1>4. Q.socks[o] = None /\ \A p \in Obj \ {o} : Q.socks[p] = P.socks[p]
  BY <1>1, <1>2, <1>3 DEF PortState
<1>5. /\ Allocated(Q) = Allocated(P) \ {o} /\ Live(Q) = Live(P) \ {o}
      /\ Deleting(Q) = Deleting(P) \ {o}
  BY <1>4 DEF Allocated, Live, Deleting
<1>6. s \in Sock /\ P.socks[o] \in SockState
  BY <1>1, SocksAre DEF SockState
<1>7. TreeOK(Q)
  <2>. SUFFICES ASSUME NEW r \in Sock, NEW p \in Obj
                PROVE  Q.tree[r] = p <=> (p \in Live(Q) /\ Q.socks[p].sock = r)
    BY DEF TreeOK
  <2>1. P.tree[r] = p <=> (p \in Live(P) /\ P.socks[p].sock = r)
    BY <1>1 DEF TreeOK
  <2>2. P.tree[r] = o <=> (o \in Live(P) /\ s = r)
    BY <1>1, <1>3 DEF TreeOK
  <2>3. o \in Live(P) <=> ~P.socks[o].deleting
    BY <1>1, <1>3, SocksAre
  <2>4. P.tree[r] # o => Q.tree[r] = P.tree[r]
    <3>1. CASE P.socks[o].deleting
      BY <1>2, <3>1
    <3>2. CASE ~P.socks[o].deleting
      <4>1. Q.tree = [P.tree EXCEPT ![s] = None]
        BY <1>2, <3>2
      <4>2. P.tree[r] # o => r # s
        BY <2>2, <2>3, <3>2
      <4>. QED
        BY <1>1, <4>1, <4>2 DEF PortState
    <3>. QED
      BY <3>1, <3>2
  <2>5. P.tree[r] = o => Q.tree[r] = None
    <3>. SUFFICES ASSUME P.tree[r] = o PROVE Q.tree[r] = None
      OBVIOUS
    <3>1. ~P.socks[o].deleting /\ s = r
      BY <2>2, <2>3
    <3>. QED
      BY <1>1, <1>2, <3>1 DEF PortState
  <2>6. CASE p = o
    <3>1. Q.tree[r] # o
      BY <1>3, <2>4, <2>5, NoneAssumption
    <3>. QED
      BY <1>5, <2>6, <3>1
  <2>7. CASE p # o
    <3>1. p \in Live(Q) <=> p \in Live(P)
      BY <1>5, <2>7
    <3>2. Q.socks[p] = P.socks[p]
      BY <1>4, <2>7
    <3>3. Q.tree[r] = p <=> P.tree[r] = p
      BY <2>4, <2>5, <2>7, NoneAssumption
    <3>. QED
      BY <2>1, <3>1, <3>2, <3>3
  <2>. QED
    BY <2>6, <2>7
<1>8. UpdqOK(Q) /\ DelqOK(Q)
  BY <1>1, <1>2, <1>5 DEF UpdqOK, DelqOK
<1>9. CountsOK(Q)
  <2>1. /\ g \in DOMAIN P.size /\ P.size[g] - 1 = Cardinality(InGroup(P.socks, g) \ {o})
        /\ \A h \in DOMAIN P.size : P.size[h] = Cardinality(InGroup(P.socks, h))
        /\ \A p \in Allocated(P) : P.socks[p].group \in DOMAIN P.size
    BY <1>1, GroupCounts DEF CountsOK
  <2>2. /\ DOMAIN Q.size = DOMAIN P.size /\ Q.size[g] = P.size[g] - 1
        /\ \A h \in DOMAIN P.size \ {g} : Q.size[h] = P.size[h]
    BY <1>2, <2>1
  <2>3. \A p \in Allocated(Q) : Q.socks[p].group \in DOMAIN Q.size
    <3>. SUFFICES ASSUME NEW p \in Allocated(Q) PROVE Q.socks[p].group \in DOMAIN Q.size
      OBVIOUS
    <3>1. p \in Allocated(P) /\ p \in Obj \ {o}
      BY <1>5 DEF Allocated
    <3>. QED
      BY <1>4, <2>1, <2>2, <3>1
  <2>4. InGroup(Q.socks, g) = InGroup(P.socks, g) \ {o}
    BY <1>4 DEF InGroup
  <2>5. \A h : h # g => InGroup(Q.socks, h) = InGroup(P.socks, h)
    BY <1>4 DEF InGroup
  <2>6. ASSUME NEW h \in DOMAIN Q.size PROVE Q.size[h] = Cardinality(InGroup(Q.socks, h))
    <3>1. CASE h = g
      BY <2>1, <2>2, <2>4, <3>1
    <3>2. CASE h # g
      BY <2>1, <2>2, <2>5, <2>6, <3>2
    <3>. QED
      BY <3>1, <3>2
  <2>. QED
    BY <2>3, <2>6 DEF CountsOK
<1>10. Structure(Q)
  BY <1>2, <1>7, <1>8, <1>9 DEF Structure
<1>11. \A p \in Allocated(Q) : Q.socks[p] = P.socks[p]
  BY <1>4, <1>5 DEF Allocated
<1>. QED
  BY <1>5, <1>10, <1>11

(* Freeing a sock_state keeps the port in order.                           *)
LEMMA FreedKeeps ==
  ASSUME NEW P, NEW C, PortOK(P, C), NEW o \in Allocated(P), NEW Q, Freed(P, Q, o)
  PROVE  PortOK(Q, C \ {o})
<1>1. Structure(P) /\ SocksOK(P, C) /\ DeletingOK(P) /\ ServedOK(P)
  BY DEF PortOK
<1>2. /\ Structure(Q)
      /\ Allocated(Q) = Allocated(P) \ {o} /\ Live(Q) = Live(P) \ {o}
      /\ Deleting(Q) = Deleting(P) \ {o}
      /\ \A p \in Allocated(Q) : Q.socks[p] = P.socks[p]
  BY <1>1, FreedIs
<1>3. Q.cancels = P.cancels \ {o} /\ Members(Q.updq) = Members(P.updq) \ {o}
  BY DEF Freed
<1>4. SocksOK(Q, C \ {o})
  <2>1. C \ {o} \subseteq Allocated(Q) /\ Q.cancels \subseteq Allocated(Q)
    BY <1>1, <1>2, <1>3 DEF SocksOK
  <2>2. ASSUME NEW p \in Allocated(Q)
        PROVE  SockOK(Q.socks[p], p \in C \ {o}, p \in Q.cancels)
    <3>1. p \in Allocated(P) /\ p # o /\ Q.socks[p] = P.socks[p]
      BY <1>2
    <3>2. SockOK(P.socks[p], p \in C, p \in P.cancels)
      BY <1>1, <3>1 DEF SocksOK
    <3>3. (p \in C \ {o} <=> p \in C) /\ (p \in Q.cancels <=> p \in P.cancels)
      BY <1>3, <3>1
    <3>. QED
      BY <3>1, <3>2, <3>3 DEF SockOK
  <2>. QED
    BY <2>1, <2>2 DEF SocksOK
<1>5. DeletingOK(Q) /\ ServedOK(Q)
  <2>1. Live(P) \subseteq Allocated(P) /\ Deleting(P) \subseteq Allocated(P)
    BY DEF Live, Deleting
  <2>2. /\ \A p \in Deleting(Q) : p \in Deleting(P) /\ Q.socks[p] = P.socks[p]
        /\ \A p \in Live(Q) : p \in Live(P) /\ Q.socks[p] = P.socks[p] /\ p # o
    BY <1>2, <2>1
  <2>3. DeletingOK(Q)
    BY <1>1, <2>2 DEF DeletingOK
  <2>4. \A p \in Live(Q) \ Members(Q.updq) : p \in Live(P) \ Members(P.updq)
    BY <1>3, <2>2
  <2>. QED
    BY <1>1, <2>2, <2>3, <2>4 DEF ServedOK
<1>. QED
  BY <1>2, <1>4, <1>5 DEF PortOK

(* A change of one sock_state that stays what it is to the tree and to its *)
(* group: its poll, its mask or its place in the update queue.             *)
LEMMA StoredKeeps ==
  ASSUME NEW P, NEW C, PortOK(P, C), NEW o \in Allocated(P),
         NEW Q, NEW D, NEW S, Stored(P, Q, o, S),
         S.sock = P.socks[o].sock, S.group = P.socks[o].group,
         S.deleting = P.socks[o].deleting,
         IsInjective(Q.updq), Members(Q.updq) \ {o} = Members(P.updq) \ {o},
         o \in Members(Q.updq) => ~S.deleting,
         Q.delq = P.delq,
         D \ {o} = C \ {o}, Q.cancels \ {o} = P.cancels \ {o},
         SockOK(S, o \in D, o \in Q.cancels),
         S.deleting => S.poll # "IDLE",
         ~S.deleting /\ o \notin Members(Q.updq) => Served(S)
  PROVE  PortOK(Q, D)
<1>1. /\ Structure(P) /\ SocksOK(P, C) /\ DeletingOK(P) /\ ServedOK(P)
      /\ P \in PortState /\ TreeOK(P) /\ UpdqOK(P) /\ DelqOK(P)
      /\ GroupQueueOK(P) /\ CountsOK(P)
  BY DEF PortOK, Structure
<1>2. /\ Q \in PortState /\ S \in SockState /\ Q.socks = [P.socks EXCEPT ![o] = S]
      /\ Q.tree = P.tree /\ Q.groups = P.groups /\ Q.size = P.size
  BY DEF Stored
<1>3. o \in Obj /\ P.socks[o] # None
  BY DEF Allocated
<1>4. Q.socks[o] = S /\ S # None /\ \A p \in Obj \ {o} : Q.socks[p] = P.socks[p]
  BY <1>1, <1>2, <1>3, NoneAssumption DEF PortState
<1>5. /\ Allocated(Q) = Allocated(P) /\ Live(Q) = Live(P) /\ Deleting(Q) = Deleting(P)
  BY <1>3, <1>4 DEF Allocated, Live, Deleting
<1>6. \A p \in Obj : Q.socks[p].sock = P.socks[p].sock
  BY <1>3, <1>4
<1>7. TreeOK(Q)
  BY <1>1, <1>2, <1>5, <1>6 DEF TreeOK
<1>8. o \in Deleting(P) <=> S.deleting
  BY <1>3 DEF Deleting, Allocated
<1>9. UpdqOK(Q) /\ DelqOK(Q)
  <2>1. o \in Members(Q.updq) => o \in Live(P)
    BY <1>8 DEF Live
  <2>2. Members(Q.updq) \subseteq Live(P)
    BY <1>1, <2>1 DEF UpdqOK
  <2>. QED
    BY <1>1, <1>5, <2>2 DEF UpdqOK, DelqOK
<1>10. GroupQueueOK(Q)
  BY <1>1, <1>2 DEF GroupQueueOK
<1>11. CountsOK(Q)
  <2>1. \A h : InGroup(Q.socks, h) = InGroup(P.socks, h)
    BY <1>3, <1>4 DEF InGroup
  <2>2. \A p \in Allocated(P) : Q.socks[p].group = P.socks[p].group
    BY <1>4 DEF Allocated
  <2>. QED
    BY <1>1, <1>2, <1>5, <2>1, <2>2 DEF CountsOK
<1>12. SocksOK(Q, D)
  <2>1. D \subseteq Allocated(Q) /\ Q.cancels \subseteq Allocated(Q)
    BY <1>1, <1>5 DEF SocksOK
  <2>2. ASSUME NEW p \in Allocated(Q), p # o
        PROVE  SockOK(Q.socks[p], p \in D, p \in Q.cancels)
    <3>1. p \in Allocated(P) /\ p \in Obj \ {o}
      BY <1>5, <2>2 DEF Allocated
    <3>2. SockOK(P.socks[p], p \in C, p \in P.cancels) /\ Q.socks[p] = P.socks[p]
      BY <1>1, <1>4, <3>1 DEF SocksOK
    <3>3. (p \in D <=> p \in C) /\ (p \in Q.cancels <=> p \in P.cancels)
      BY <2>2
    <3>. QED
      BY <3>2, <3>3 DEF SockOK
  <2>. QED
    BY <1>4, <2>1, <2>2 DEF SocksOK
<1>13. DeletingOK(Q)
  <2>. SUFFICES ASSUME NEW p \in Deleting(Q) PROVE Q.socks[p].poll # "IDLE"
    BY DEF DeletingOK
  <2>1. p \in Deleting(P) /\ p \in Obj
    BY <1>5 DEF Deleting, Allocated
  <2>. QED
    BY <1>1, <1>4, <1>8, <2>1 DEF DeletingOK
<1>14. ServedOK(Q)
  <2>. SUFFICES ASSUME NEW p \in Live(Q) \ Members(Q.updq) PROVE Served(Q.socks[p])
    BY DEF ServedOK
  <2>1. p \in Live(P) /\ p \in Obj
    BY <1>5 DEF Live, Allocated
  <2>2. CASE p = o
    BY <1>4, <1>8, <2>1, <2>2 DEF Live
  <2>3. CASE p # o
    <3>1. p \in Live(P) \ Members(P.updq)
      BY <2>1, <2>3
    <3>. QED
      BY <1>1, <1>4, <2>1, <2>3, <3>1 DEF ServedOK
  <2>. QED
    BY <2>2, <2>3
<1>15. Structure(Q)
  BY <1>2, <1>7, <1>9, <1>10, <1>11 DEF Structure
<1>. QED
  BY <1>12, <1>13, <1>14, <1>15 DEF PortOK

(* A registered socket whose poll is out is deleted.                       *)
LEMMA MarkedKeeps ==
  ASSUME NEW P, NEW C, PortOK(P, C), NEW o \in Live(P), P.socks[o].poll # "IDLE",
         NEW Q, NEW cancel, Marked(P, Q, o, cancel),
         IsInjective(Q.delq), Members(Q.delq) = Members(P.delq) \cup {o}
  PROVE  PortOK(Q, C)
<1>. DEFINE R == P.socks[o]
            S == MarkedSock(R, cancel)
<1>1. /\ Structure(P) /\ SocksOK(P, C) /\ DeletingOK(P) /\ ServedOK(P)
      /\ P \in PortState /\ TreeOK(P) /\ UpdqOK(P) /\ DelqOK(P)
      /\ GroupQueueOK(P) /\ CountsOK(P)
  BY DEF PortOK, Structure
<1>2. o \in Obj /\ o \in Allocated(P) /\ R # None /\ ~R.deleting /\ R \in SockState
  BY <1>1, SocksAre
<1>3. /\ S \in SockState /\ S.deleting
      /\ S.sock = R.sock /\ S.user = R.user /\ S.group = R.group
      /\ S.status = R.status /\ S.info = R.info
      /\ R.poll = "PENDING" /\ cancel => S.poll = "CANCELLED" /\ S.pending = {}
      /\ ~(R.poll = "PENDING" /\ cancel) => S.poll = R.poll /\ S.pending = R.pending
  BY <1>2, MarkedIs
<1>. HIDE DEF S
<1>4. /\ Q \in PortState /\ Q.socks = [P.socks EXCEPT ![o] = S]
      /\ Q.tree = [P.tree EXCEPT ![R.sock] = None]
      /\ IsInjective(Q.updq) /\ Members(Q.updq) = Members(P.updq) \ {o}
      /\ Q.groups = P.groups /\ Q.size = P.size
      /\ Q.cancels = IF R.poll = "PENDING" /\ cancel /\ R.status = "PENDING"
                     THEN P.cancels \cup {o} ELSE P.cancels
  BY DEF Marked, S
<1>. HIDE DEF R
<1>5. Q.socks[o] = S /\ S # None /\ \A p \in Obj \ {o} : Q.socks[p] = P.socks[p]
  BY <1>1, <1>2, <1>3, <1>4, NoneAssumption DEF PortState
<1>6. P.socks[o] = R
  BY DEF R
<1>7. /\ Allocated(Q) = Allocated(P) /\ Live(Q) = Live(P) \ {o}
      /\ Deleting(Q) = Deleting(P) \cup {o}
  BY <1>2, <1>3, <1>5, <1>6 DEF Allocated, Live, Deleting
<1>8. TreeOK(Q)
  <2>. SUFFICES ASSUME NEW r \in Sock, NEW p \in Obj
                PROVE  Q.tree[r] = p <=> (p \in Live(Q) /\ Q.socks[p].sock = r)
    BY DEF TreeOK
  <2>1. P.tree[r] = p <=> (p \in Live(P) /\ P.socks[p].sock = r)
    BY <1>1 DEF TreeOK
  <2>2. P.tree[r] = o <=> R.sock = r
    BY <1>1, <1>2, <1>6 DEF TreeOK
  <2>3. R.sock \in Sock
    BY <1>2 DEF SockState
  <2>4. /\ r = R.sock => Q.tree[r] = None
        /\ r # R.sock => Q.tree[r] = P.tree[r]
    BY <1>1, <1>4, <2>3 DEF PortState
  <2>5. CASE p = o
    BY <1>2, <1>7, <2>2, <2>4, <2>5, NoneAssumption
  <2>6. CASE p # o
    <3>1. (p \in Live(Q) <=> p \in Live(P)) /\ Q.socks[p] = P.socks[p]
      BY <1>5, <1>7, <2>6
    <3>2. Q.tree[r] = p <=> P.tree[r] = p
      BY <2>2, <2>4, <2>6, NoneAssumption
    <3>. QED
      BY <2>1, <3>1, <3>2
  <2>. QED
    BY <2>5, <2>6
<1>9. UpdqOK(Q) /\ DelqOK(Q) /\ GroupQueueOK(Q)
  BY <1>1, <1>4, <1>7 DEF UpdqOK, DelqOK, GroupQueueOK
<1>10. CountsOK(Q)
  <2>1. \A h : InGroup(Q.socks, h) = InGroup(P.socks, h)
    BY <1>2, <1>3, <1>5, <1>6 DEF InGroup
  <2>2. \A p \in Allocated(P) : Q.socks[p].group = P.socks[p].group
    BY <1>3, <1>5, <1>6 DEF Allocated
  <2>. QED
    BY <1>1, <1>4, <1>7, <2>1, <2>2 DEF CountsOK
<1>11. SocksOK(Q, C)
  <2>1. SockOK(R, o \in C, o \in P.cancels)
    BY <1>1, <1>2, <1>6 DEF SocksOK
  <2>2. SockOK(S, o \in C, o \in Q.cancels)
    <3>1. CASE R.poll = "PENDING" /\ cancel
      <4>1. o \in Q.cancels <=> R.status = "PENDING"
        BY <1>4, <2>1, <3>1 DEF SockOK
      <4>. QED
        BY <1>3, <2>1, <3>1, <4>1 DEF SockOK
    <3>2. CASE ~(R.poll = "PENDING" /\ cancel)
      BY <1>3, <1>4, <2>1, <3>2 DEF SockOK
    <3>. QED
      BY <3>1, <3>2
  <2>3. ASSUME NEW p \in Allocated(Q), p # o
        PROVE  SockOK(Q.socks[p], p \in C, p \in Q.cancels)
    <3>1. p \in Allocated(P) /\ p \in Obj \ {o}
      BY <1>7, <2>3 DEF Allocated
    <3>2. SockOK(P.socks[p], p \in C, p \in P.cancels) /\ Q.socks[p] = P.socks[p]
      BY <1>1, <1>5, <3>1 DEF SocksOK
    <3>3. p \in Q.cancels <=> p \in P.cancels
      BY <1>4, <2>3
    <3>. QED
      BY <3>2, <3>3 DEF SockOK
  <2>4. C \subseteq Allocated(Q) /\ Q.cancels \subseteq Allocated(Q)
    BY <1>1, <1>2, <1>4, <1>7 DEF SocksOK
  <2>. QED
    BY <1>5, <2>2, <2>3, <2>4 DEF SocksOK
<1>12. DeletingOK(Q)
  <2>. SUFFICES ASSUME NEW p \in Deleting(Q) PROVE Q.socks[p].poll # "IDLE"
    BY DEF DeletingOK
  <2>1. CASE p = o
    BY <1>3, <1>5, <1>6, <2>1
  <2>2. CASE p # o
    <3>1. p \in Deleting(P) /\ p \in Obj \ {o}
      BY <1>7, <2>2 DEF Deleting, Allocated
    <3>. QED
      BY <1>1, <1>5, <3>1 DEF DeletingOK
  <2>. QED
    BY <2>1, <2>2
<1>13. ServedOK(Q)
  <2>. SUFFICES ASSUME NEW p \in Live(Q) \ Members(Q.updq) PROVE Served(Q.socks[p])
    BY DEF ServedOK
  <2>1. p \in Live(P) \ Members(P.updq) /\ p \in Obj \ {o}
    BY <1>4, <1>7 DEF Live, Allocated
  <2>. QED
    BY <1>1, <1>5, <2>1 DEF ServedOK
<1>14. Structure(Q)
  BY <1>4, <1>8, <1>9, <1>10 DEF Structure
<1>. QED
  BY <1>11, <1>12, <1>13, <1>14 DEF PortOK
-----------------------------------------------------------------------------
(* The first n nodes of a queue.                                           *)
Prefix(q, n) == {q[i] : i \in 1 .. n}

(* A loop over a queue has dealt with one node more each time.             *)
LEMMA PrefixIs ==
  ASSUME NEW S, NEW q \in Seq(S), IsInjective(q)
  PROVE  /\ Prefix(q, 0) = {} /\ Prefix(q, Len(q)) = Members(q)
         /\ \A n \in 0 .. Len(q) - 1 :
              /\ Prefix(q, n + 1) = Prefix(q, n) \cup {q[n + 1]}
              /\ q[n + 1] \in Members(q) \ Prefix(q, n)
              /\ n + 1 \in 0 .. Len(q)
<1>1. Len(q) \in Nat /\ DOMAIN q = 1 .. Len(q)
  BY SeqIs
<1>2. Prefix(q, 0) = {} /\ Prefix(q, Len(q)) = Members(q)
  BY <1>1 DEF Prefix, Members
<1>3. ASSUME NEW n \in 0 .. Len(q) - 1
      PROVE  /\ Prefix(q, n + 1) = Prefix(q, n) \cup {q[n + 1]}
             /\ q[n + 1] \in Members(q) \ Prefix(q, n)
             /\ n + 1 \in 0 .. Len(q)
  <2>1. n + 1 \in 1 .. Len(q) /\ n + 1 \in 1 .. n + 1 /\ n + 1 \in 0 .. Len(q)
    BY <1>1
  <2>2. \A i : i \in 1 .. n + 1 <=> (i \in 1 .. n \/ i = n + 1)
    BY <1>1
  <2>3. Prefix(q, n + 1) = Prefix(q, n) \cup {q[n + 1]}
    BY <2>2 DEF Prefix
  <2>4. \A i \in 1 .. n : i \in 1 .. Len(q) /\ i # n + 1
    BY <1>1
  <2>5. q[n + 1] \notin Prefix(q, n)
    BY <1>1, <2>1, <2>4 DEF Prefix, IsInjective
  <2>6. q[n + 1] \in Members(q)
    BY <1>1, <2>1 DEF Members
  <2>. QED
    BY <2>1, <2>3, <2>5, <2>6
<1>. QED
  BY <1>2, <1>3

(* A queue with no members.                                                *)
LEMMA EmptyIs ==
  ASSUME NEW S, NEW q \in Seq(S), Members(q) = {}
  PROVE  q = <<>>
<1>1. Len(q) \in Nat /\ \A i \in 1 .. Len(q) : q[i] \in Members(q)
  BY SeqIs
<1>2. Len(q) = 0
  BY <1>1
<1>. QED
  BY <1>2, EmptySeq

(* The events there are.                                                   *)
LEMMA EventsAre ==
  /\ Always \subseteq Events /\ Closed \subseteq Afd
  /\ \A events : AfdEvents(events) \subseteq Afd
<1>1. "ABORT" \in DOMAIN AsksFor /\ "CONNECT_FAIL" \in DOMAIN AsksFor
  BY DEF AsksFor
<1>2. DOMAIN ReportsAs = DOMAIN AsksFor
  BY DEF ReportsAs
<1>3. AsksFor["ABORT"] = {"HUP"}
  BY DEF AsksFor
<1>4. "HUP" \in ReportsAs["ABORT"] /\ "ERR" \in ReportsAs["CONNECT_FAIL"]
  BY <1>1, <1>3 DEF ReportsAs
<1>5. "HUP" \in Events /\ "ERR" \in Events
  BY <1>1, <1>2, <1>4 DEF Events
<1>. QED
  BY <1>5 DEF Always, Afd, AfdEvents, Closed

(* What the parts of PortOK say, and what is true of a live socket.        *)
LEMMA PortParts ==
  ASSUME NEW P, NEW C, PortOK(P, C)
  PROVE  /\ Structure(P) /\ SocksOK(P, C) /\ DeletingOK(P) /\ ServedOK(P)
         /\ P \in PortState /\ TreeOK(P) /\ UpdqOK(P) /\ DelqOK(P)
         /\ GroupQueueOK(P) /\ CountsOK(P)
         /\ IsInjective(P.updq) /\ IsInjective(P.delq)
         /\ Members(P.updq) \subseteq Live(P) /\ Members(P.delq) = Deleting(P)
         /\ \A o \in Live(P) :
              /\ o \in Allocated(P) /\ o \in Obj /\ ~P.socks[o].deleting
              /\ o \notin Members(P.delq)
              /\ o \notin Members(P.updq) => Served(P.socks[o])
         /\ \A o \in Allocated(P) :
              /\ SockOK(P.socks[o], o \in C, o \in P.cancels)
              /\ P.socks[o] \in SockState /\ o \in Obj
              /\ P.socks[o].deleting => P.socks[o].poll # "IDLE"
              /\ o \notin Members(P.delq) => o \in Live(P)
<1>1. /\ Structure(P) /\ SocksOK(P, C) /\ DeletingOK(P) /\ ServedOK(P)
      /\ P \in PortState /\ TreeOK(P) /\ UpdqOK(P) /\ DelqOK(P)
      /\ GroupQueueOK(P) /\ CountsOK(P)
      /\ IsInjective(P.updq) /\ IsInjective(P.delq)
      /\ Members(P.updq) \subseteq Live(P) /\ Members(P.delq) = Deleting(P)
  BY DEF PortOK, Structure, UpdqOK, DelqOK
<1>2. ASSUME NEW o \in Live(P)
      PROVE  /\ o \in Allocated(P) /\ o \in Obj /\ ~P.socks[o].deleting
             /\ o \notin Members(P.delq)
             /\ o \notin Members(P.updq) => Served(P.socks[o])
  BY <1>1 DEF Live, Deleting, Allocated, ServedOK
<1>3. ASSUME NEW o \in Allocated(P)
      PROVE  /\ SockOK(P.socks[o], o \in C, o \in P.cancels)
             /\ P.socks[o] \in SockState /\ o \in Obj
             /\ P.socks[o].deleting => P.socks[o].poll # "IDLE"
             /\ o \notin Members(P.delq) => o \in Live(P)
  <2>1. P.socks[o] \in SockState /\ o \in Obj
    BY <1>1, SocksAre
  <2>2. P.socks[o].deleting => P.socks[o].poll # "IDLE"
    BY <1>1 DEF DeletingOK, Deleting
  <2>3. SockOK(P.socks[o], o \in C, o \in P.cancels)
    BY <1>1 DEF SocksOK
  <2>. QED
    BY <1>1, <2>1, <2>2, <2>3 DEF Live
<1>. QED
  BY <1>1, <1>2, <1>3, Zenon

(* What sock_set_event(), and most else, leaves alone.                     *)
SameCounters(P, Q) == Q.active = P.active /\ Q.packets = P.packets

(* port_request_socket_update() for a socket that is not deleted.          *)
LEMMA RequestIs ==
  ASSUME NEW P \in PortState, IsInjective(P.updq), NEW o \in Obj, o \notin Members(P.delq)
  PROVE  LET Q == RequestUpdate(P, o)
         IN  /\ Q \in PortState /\ IsInjective(Q.updq)
             /\ Members(Q.updq) = Members(P.updq) \cup {o}
             /\ Q.socks = P.socks /\ Q.tree = P.tree /\ Q.delq = P.delq
             /\ Q.groups = P.groups /\ Q.size = P.size /\ Q.cancels = P.cancels
             /\ SameCounters(P, Q)
<1>1. CASE o \in Members(P.updq)
  <2>1. RequestUpdate(P, o) = P
    BY <1>1 DEF RequestUpdate, Enqueued
  <2>2. Members(P.updq) = Members(P.updq) \cup {o}
    BY <1>1
  <2>. QED
    BY <2>1, <2>2 DEF SameCounters
<1>2. CASE o \notin Members(P.updq)
  <2>. DEFINE u == Append(P.updq, o)
              Q == RequestUpdate(P, o)
  <2>1. Q = [P EXCEPT !.updq = u]
    BY <1>2 DEF RequestUpdate, Enqueued
  <2>2. P.updq \in Seq(Obj)
    BY DEF PortState
  <2>3. u \in Seq(Obj) /\ IsInjective(u) /\ Members(u) = Members(P.updq) \cup {o}
    BY <1>2, <2>2, AppendIs
  <2>. HIDE DEF u, Q
  <2>4. /\ Q \in PortState /\ Q.updq = u
        /\ Q.socks = P.socks /\ Q.tree = P.tree /\ Q.delq = P.delq
        /\ Q.groups = P.groups /\ Q.size = P.size /\ Q.cancels = P.cancels
        /\ Q.active = P.active /\ Q.packets = P.packets
    BY <2>1, <2>3 DEF PortState
  <2>. QED
    BY <2>3, <2>4 DEF Q, SameCounters
<1>. QED
  BY <1>1, <1>2

(* P with S for the sock_state of o, in the driver's list or not.          *)
LEMMA StoreIs ==
  ASSUME NEW P \in PortState, NEW o \in Obj, NEW S \in SockState,
         NEW Q, Q = [P EXCEPT !.socks = [P.socks EXCEPT ![o] = S]]
  PROVE  /\ Stored(P, Q, o, S)
         /\ Q.updq = P.updq /\ Q.delq = P.delq /\ Q.cancels = P.cancels
<1>1. /\ Q \in PortState /\ Q.socks = [P.socks EXCEPT ![o] = S]
      /\ Q.updq = P.updq /\ Q.delq = P.delq /\ Q.cancels = P.cancels
      /\ Q.tree = P.tree /\ Q.groups = P.groups /\ Q.size = P.size
      /\ Q.active = P.active /\ Q.packets = P.packets
  BY DEF PortState
<1>. QED
  BY <1>1 DEF Stored

(* sock_set_event() of a registered socket.                                *)
LEMMA SetEventKeeps ==
  ASSUME NEW P, NEW C, PortOK(P, C), NEW o \in Live(P),
         NEW mask \in SUBSET Events, NEW once \in BOOLEAN
  PROVE  PortOK(SetEvent(P, o, mask, once), C) /\ SameCounters(P, SetEvent(P, o, mask, once))
<1>. DEFINE R == P.socks[o]
            events == mask \cup Always
            S == [R EXCEPT !.user = events, !.once = once]
            Q == [P EXCEPT !.socks[o] = [@ EXCEPT !.user = events, !.once = once]]
            T == SetEvent(P, o, mask, once)
<1>1. /\ P \in PortState /\ IsInjective(P.updq) /\ o \in Allocated(P) /\ o \in Obj
      /\ ~R.deleting /\ o \notin Members(P.delq)
      /\ o \notin Members(P.updq) => Served(R)
      /\ SockOK(R, o \in C, o \in P.cancels) /\ R \in SockState
  BY PortParts
<1>2. events \in SUBSET Events /\ Always \subseteq events /\ events # {}
  BY EventsAre DEF Always
<1>. HIDE DEF R, events
<1>3. /\ S \in SockState /\ S.user = events /\ S.pending = R.pending /\ S.poll = R.poll
      /\ S.status = R.status /\ S.info = R.info /\ S.sock = R.sock /\ S.group = R.group
      /\ S.deleting = R.deleting
  BY <1>1, <1>2 DEF SockState
<1>4. Q = [P EXCEPT !.socks = [P.socks EXCEPT ![o] = S]]
  BY DEF R
<1>. HIDE DEF S
<1>5. /\ Stored(P, Q, o, S) /\ Q.updq = P.updq /\ Q.delq = P.delq /\ Q.cancels = P.cancels
  <2>. HIDE DEF Q
  <2>. QED
    BY <1>1, <1>3, <1>4, StoreIs
<1>6. T = IF events \ R.pending = {} THEN Q ELSE RequestUpdate(Q, o)
  BY DEF SetEvent, R, events
<1>. HIDE DEF Q, T
<1>7. SockOK(S, o \in C, o \in P.cancels)
  BY <1>1, <1>2, <1>3 DEF SockOK
<1>8. P.socks[o] = R
  BY DEF R
<1>9. CASE events \ R.pending = {}
  <2>1. T = Q
    BY <1>6, <1>9
  <2>2. o \notin Members(Q.updq) => Served(S)
    BY <1>1, <1>3, <1>5, <1>9 DEF Served
  <2>3. Members(Q.updq) \ {o} = Members(P.updq) \ {o} /\ C \ {o} = C \ {o}
    BY <1>5
  <2>4. PortOK(Q, C)
    BY <1>1, <1>3, <1>5, <1>7, <1>8, <2>2, <2>3, StoredKeeps
  <2>. QED
    BY <1>5, <2>1, <2>4 DEF Stored, SameCounters, T
<1>10. CASE events \ R.pending # {}
  <2>1. T = RequestUpdate(Q, o)
    BY <1>6, <1>10
  <2>2. Q \in PortState
    BY <1>5 DEF Stored
  <2>3. /\ T \in PortState /\ IsInjective(T.updq) /\ Members(T.updq) = Members(Q.updq) \cup {o}
        /\ T.socks = Q.socks /\ T.tree = Q.tree /\ T.delq = Q.delq
        /\ T.groups = Q.groups /\ T.size = Q.size /\ T.cancels = Q.cancels
        /\ SameCounters(Q, T)
    BY <1>1, <1>5, <2>1, <2>2, RequestIs
  <2>4. Stored(P, T, o, S)
    BY <1>5, <2>3 DEF Stored, SameCounters
  <2>5. /\ Members(T.updq) \ {o} = Members(P.updq) \ {o} /\ o \in Members(T.updq)
        /\ T.delq = P.delq /\ T.cancels = P.cancels
    BY <1>5, <2>3
  <2>6. PortOK(T, C)
    BY <1>1, <1>3, <1>7, <1>8, <2>3, <2>4, <2>5, StoredKeeps
  <2>. QED
    BY <2>4, <2>6 DEF Stored, SameCounters, T
<1>. QED
  BY <1>9, <1>10 DEF T
-----------------------------------------------------------------------------
(* sock_update() of a socket in the update queue.                          *)
Updated(P, Q, C, o) ==
  /\ PortOK(Q, C) /\ SameCounters(P, Q) /\ Members(Q.updq) = Members(P.updq) \ {o}

(* An idle poll is submitted.                                              *)
LEMMA SubmitKeeps ==
  ASSUME NEW P, NEW C, PortOK(P, C), NEW o \in Members(P.updq), P.socks[o].poll = "IDLE"
  PROVE  Updated(P, Dequeued(Submit(P, o), o), C, o)
<1>. DEFINE R == P.socks[o]
            S == [R EXCEPT !.poll = "PENDING", !.pending = R.user,
                           !.status = "PENDING", !.info = AfdEvents(R.user)]
            D == Submit(P, o)
            Q == Dequeued(D, o)
<1>1. /\ P \in PortState /\ IsInjective(P.updq) /\ IsInjective(P.delq)
      /\ o \in Live(P) /\ o \in Allocated(P) /\ o \in Obj
      /\ ~R.deleting /\ o \notin Members(P.delq)
      /\ SockOK(R, o \in C, o \in P.cancels) /\ R \in SockState
  BY PortParts
<1>2. /\ S \in SockState /\ S.user = R.user /\ S.pending = R.user /\ S.poll = "PENDING"
      /\ S.status = "PENDING" /\ S.info = AfdEvents(R.user)
      /\ S.sock = R.sock /\ S.group = R.group /\ S.deleting = R.deleting
  BY <1>1, EventsAre DEF SockState
<1>3. D = [P EXCEPT !.socks = [P.socks EXCEPT ![o] = S]]
  BY DEF Submit
<1>. HIDE DEF S, D
<1>4. Stored(P, D, o, S) /\ D.updq = P.updq /\ D.delq = P.delq /\ D.cancels = P.cancels
  BY <1>1, <1>2, <1>3, StoreIs
<1>5. /\ Q \in PortState
      /\ IsInjective(Q.updq) /\ Members(Q.updq) = Members(D.updq) \ {o}
      /\ o \notin Members(D.delq) => Q.delq = D.delq
      /\ Q.tree = D.tree /\ Q.socks = D.socks /\ Q.groups = D.groups
      /\ Q.size = D.size /\ Q.active = D.active /\ Q.packets = D.packets
      /\ Q.cancels = D.cancels
  <2>1. D \in PortState /\ IsInjective(D.updq) /\ IsInjective(D.delq)
    BY <1>1, <1>4 DEF Stored
  <2>. QED
    BY <2>1, DequeuedIs
<1>. HIDE DEF Q
<1>6. Stored(P, Q, o, S)
  BY <1>4, <1>5 DEF Stored
<1>7. /\ Q.delq = P.delq /\ Q.cancels = P.cancels /\ Members(Q.updq) = Members(P.updq) \ {o}
      /\ Members(Q.updq) \ {o} = Members(P.updq) \ {o} /\ o \notin Members(Q.updq)
  BY <1>1, <1>4, <1>5
<1>8. SockOK(S, o \in C, o \in Q.cancels)
  BY <1>1, <1>2, <1>7 DEF SockOK
<1>9. Served(S)
  BY <1>2 DEF Served
<1>10. PortOK(Q, C)
  <2>1. C \ {o} = C \ {o} /\ ~S.deleting
    BY <1>1, <1>2
  <2>. HIDE DEF R
  <2>2. P.socks[o] = R
    BY DEF R
  <2>. QED
    BY <1>1, <1>2, <1>5, <1>6, <1>7, <1>8, <1>9, <2>1, <2>2, StoredKeeps
<1>. QED
  BY <1>6, <1>7, <1>10 DEF Stored, Updated, SameCounters, Q, D

(* A poll that watches too little is cancelled.                            *)
LEMMA CancelKeeps ==
  ASSUME NEW P, NEW C, PortOK(P, C), NEW o \in Members(P.updq), P.socks[o].poll = "PENDING"
  PROVE  Updated(P, Dequeued(CancelPoll(P, o), o), C, o)
<1>. DEFINE R == P.socks[o]
            S == CancelledSock(R)
            D == CancelPoll(P, o)
            Q == Dequeued(D, o)
<1>1. /\ P \in PortState /\ IsInjective(P.updq) /\ IsInjective(P.delq)
      /\ o \in Live(P) /\ o \in Allocated(P) /\ o \in Obj
      /\ ~R.deleting /\ o \notin Members(P.delq)
      /\ SockOK(R, o \in C, o \in P.cancels) /\ R \in SockState
  BY PortParts
<1>2. /\ S \in SockState /\ S.poll = "CANCELLED" /\ S.pending = {} /\ S.user = R.user
      /\ S.sock = R.sock /\ S.group = R.group /\ S.deleting = R.deleting
      /\ S.status = R.status
  BY <1>1, CancelledIs
<1>3. /\ Stored(P, D, o, S) /\ D.updq = P.updq /\ D.delq = P.delq
      /\ D.cancels = IF R.status = "PENDING" THEN P.cancels \cup {o} ELSE P.cancels
  BY <1>1, CancelPollIs
<1>. HIDE DEF S, D
<1>4. /\ Q \in PortState
      /\ IsInjective(Q.updq) /\ Members(Q.updq) = Members(D.updq) \ {o}
      /\ o \notin Members(D.delq) => Q.delq = D.delq
      /\ Q.tree = D.tree /\ Q.socks = D.socks /\ Q.groups = D.groups
      /\ Q.size = D.size /\ Q.active = D.active /\ Q.packets = D.packets
      /\ Q.cancels = D.cancels
  <2>1. D \in PortState /\ IsInjective(D.updq) /\ IsInjective(D.delq)
    BY <1>1, <1>3 DEF Stored
  <2>. QED
    BY <2>1, DequeuedIs
<1>. HIDE DEF Q
<1>5. Stored(P, Q, o, S)
  BY <1>3, <1>4 DEF Stored
<1>6. /\ Q.delq = P.delq /\ Members(Q.updq) = Members(P.updq) \ {o}
      /\ Members(Q.updq) \ {o} = Members(P.updq) \ {o} /\ o \notin Members(Q.updq)
      /\ Q.cancels \ {o} = P.cancels \ {o}
      /\ o \in Q.cancels <=> (R.status = "PENDING" \/ o \in P.cancels)
  BY <1>1, <1>3, <1>4
<1>7. SockOK(S, o \in C, o \in Q.cancels)
  BY <1>1, <1>2, <1>6 DEF SockOK
<1>8. Served(S)
  BY <1>2 DEF Served
<1>9. PortOK(Q, C)
  <2>1. C \ {o} = C \ {o} /\ ~S.deleting
    BY <1>1, <1>2
  <2>. HIDE DEF R
  <2>2. P.socks[o] = R
    BY DEF R
  <2>. QED
    BY <1>1, <1>2, <1>4, <1>5, <1>6, <1>7, <1>8, <2>1, <2>2, StoredKeeps
<1>. QED
  BY <1>5, <1>6, <1>9 DEF Stored, Updated, SameCounters, Q, D

(* A poll that watches enough is left alone.                               *)
LEMMA LeaveKeeps ==
  ASSUME NEW P, NEW C, PortOK(P, C), NEW o \in Members(P.updq), Served(P.socks[o])
  PROVE  Updated(P, Dequeued(P, o), C, o)
<1>. DEFINE S == P.socks[o]
            Q == Dequeued(P, o)
<1>1. /\ P \in PortState /\ IsInjective(P.updq) /\ IsInjective(P.delq)
      /\ o \in Live(P) /\ o \in Allocated(P) /\ o \in Obj
      /\ ~S.deleting /\ o \notin Members(P.delq)
      /\ SockOK(S, o \in C, o \in P.cancels) /\ S \in SockState
  BY PortParts
<1>2. /\ Q \in PortState
      /\ IsInjective(Q.updq) /\ Members(Q.updq) = Members(P.updq) \ {o}
      /\ o \notin Members(P.delq) => Q.delq = P.delq
      /\ Q.tree = P.tree /\ Q.socks = P.socks /\ Q.groups = P.groups
      /\ Q.size = P.size /\ Q.active = P.active /\ Q.packets = P.packets
      /\ Q.cancels = P.cancels
  BY <1>1, DequeuedIs
<1>. HIDE DEF Q
<1>3. Q.socks = [P.socks EXCEPT ![o] = S]
  BY <1>1, <1>2 DEF PortState
<1>4. Stored(P, Q, o, S)
  BY <1>1, <1>2, <1>3 DEF Stored
<1>5. /\ Q.delq = P.delq /\ Q.cancels \ {o} = P.cancels \ {o} /\ C \ {o} = C \ {o}
      /\ Members(Q.updq) \ {o} = Members(P.updq) \ {o} /\ o \notin Members(Q.updq)
      /\ SockOK(S, o \in C, o \in Q.cancels)
  BY <1>1, <1>2
<1>6. PortOK(Q, C)
  <2>. HIDE DEF S
  <2>1. P.socks[o] = S /\ Served(S)
    BY DEF S
  <2>. QED
    BY <1>1, <1>2, <1>4, <1>5, <2>1, StoredKeeps
<1>. QED
  BY <1>2, <1>6 DEF Updated, SameCounters, Q

(* A socket that was closed is dropped.                                    *)
LEMMA DropKeeps ==
  ASSUME NEW P, NEW C, PortOK(P, C), NEW o \in Members(P.updq), P.socks[o].poll = "IDLE"
  PROVE  Updated(P, Delete(P, o, FALSE, TRUE), C, o)
<1>. DEFINE Q == Delete(P, o, FALSE, TRUE)
<1>1. /\ P \in PortState /\ IsInjective(P.updq) /\ IsInjective(P.delq)
      /\ GroupQueueOK(P) /\ CountsOK(P) /\ o \in Allocated(P)
      /\ SockOK(P.socks[o], o \in C, o \in P.cancels)
  BY PortParts
<1>2. P.socks[o].group \in DOMAIN P.size /\ P.size[P.socks[o].group] > 0
  BY <1>1, GroupCounts
<1>3. Freed(P, Q, o)
  BY <1>1, <1>2, DeleteFrees
<1>. HIDE DEF Q
<1>4. PortOK(Q, C \ {o})
  BY <1>1, <1>3, FreedKeeps
<1>5. C \ {o} = C
  BY <1>1 DEF SockOK
<1>. QED
  BY <1>3, <1>4, <1>5 DEF Freed, Updated, SameCounters, Q

(* All that sock_update() may do.                                          *)
LEMMA UpdateKeeps ==
  ASSUME NEW P, NEW C, PortOK(P, C), NEW o \in Members(P.updq)
  PROVE  Updated(P, Update(P, o), C, o)
<1>1. P.socks[o] \in SockState
  BY PortParts
<1>2. CASE P.socks[o].poll = "IDLE" /\ cond[P.socks[o].sock] = Closed
  <2>1. Update(P, o) = Delete(P, o, FALSE, TRUE)
    BY <1>2 DEF Update
  <2>. QED
    BY <1>2, <2>1, DropKeeps
<1>3. CASE P.socks[o].poll = "IDLE" /\ cond[P.socks[o].sock] # Closed
  <2>1. Update(P, o) = Dequeued(Submit(P, o), o)
    BY <1>3 DEF Update
  <2>. QED
    BY <1>3, <2>1, SubmitKeeps
<1>4. CASE P.socks[o].poll = "PENDING" /\ ~Watched(P, o)
  <2>1. Update(P, o) = Dequeued(CancelPoll(P, o), o)
    BY <1>4 DEF Update
  <2>. QED
    BY <1>4, <2>1, CancelKeeps
<1>5. CASE P.socks[o].poll # "IDLE" /\ ~(P.socks[o].poll = "PENDING" /\ ~Watched(P, o))
  <2>1. Update(P, o) = Dequeued(P, o)
    BY <1>5 DEF Update
  <2>2. Served(P.socks[o])
    BY <1>1, <1>5 DEF Served, Watched, SockState
  <2>. QED
    BY <2>1, <2>2, LeaveKeeps
<1>. QED
  BY <1>2, <1>3, <1>4, <1>5

(* port__update_events(), up to the n-th socket of the queue.              *)
LEMMA UpdateToKeeps ==
  ASSUME NEW P, NEW C, PortOK(P, C), NEW n \in 0 .. Len(P.updq)
  PROVE  /\ PortOK(UpdateTo(P, n), C) /\ SameCounters(P, UpdateTo(P, n))
         /\ Failures(P, n) = 0 => UpdateTo(P, n).updq = <<>>
         /\ Failures(P, n) \in 0 .. 1
<1>. DEFINE q == SubSeq(P.updq, 1, n)
            Good(m) == {Q \in PortState : /\ PortOK(Q, C) /\ SameCounters(P, Q)
                                          /\ Members(Q.updq) = Members(P.updq) \ Prefix(q, m)}
            G == [m \in 0 .. n |-> Good(m)]
            T == UpdateTo(P, n)
<1>1. P \in PortState /\ P.updq \in Seq(Obj) /\ IsInjective(P.updq)
  BY PortParts DEF PortState
<1>2. /\ q \in Seq(Obj) /\ IsInjective(q) /\ Len(q) = n
      /\ \A i \in 1 .. n : q[i] = P.updq[i]
  BY <1>1, CutIs
<1>3. T = Each(Update, P, q)
  BY DEF UpdateTo
<1>4. Len(P.updq) \in Nat /\ n \in Nat /\ DOMAIN P.updq = 1 .. Len(P.updq)
  BY <1>1, SeqIs
<1>. HIDE DEF q, T
<1>5. P \in G[0]
  <2>1. Members(P.updq) = Members(P.updq) \ Prefix(q, 0)
    BY <1>2, PrefixIs
  <2>. QED
    BY <1>1, <1>4, <2>1 DEF SameCounters
<1>6. \A m \in 0 .. Len(q) - 1 : \A Q \in G[m] : Update(Q, q[m + 1]) \in G[m + 1]
  <2>. SUFFICES ASSUME NEW m \in 0 .. n - 1, NEW Q \in G[m]
                PROVE  Update(Q, q[m + 1]) \in G[m + 1]
    BY <1>2
  <2>1. /\ Prefix(q, m + 1) = Prefix(q, m) \cup {q[m + 1]}
        /\ q[m + 1] \notin Prefix(q, m) /\ m + 1 \in 0 .. n
    BY <1>2, PrefixIs
  <2>2. /\ Q \in PortState /\ PortOK(Q, C) /\ SameCounters(P, Q)
        /\ Members(Q.updq) = Members(P.updq) \ Prefix(q, m)
    BY <1>4
  <2>3. q[m + 1] \in Members(P.updq)
    <3>1. m + 1 \in 1 .. n /\ m + 1 \in 1 .. Len(P.updq)
      BY <1>4
    <3>. QED
      BY <1>2, <1>4, <3>1 DEF Members
  <2>. DEFINE U == Update(Q, q[m + 1])
  <2>4. Updated(Q, U, C, q[m + 1])
    BY <2>1, <2>2, <2>3, UpdateKeeps
  <2>. HIDE DEF U
  <2>5. PortOK(U, C) /\ SameCounters(P, U) /\ U \in PortState
    BY <2>2, <2>4, PortParts DEF Updated, SameCounters
  <2>6. Members(U.updq) = Members(P.updq) \ Prefix(q, m + 1)
    BY <2>1, <2>2, <2>4 DEF Updated
  <2>7. U \in Good(m + 1)
    BY <2>5, <2>6
  <2>. QED
    BY <2>1, <2>7 DEF U
<1>7. T \in G[Len(q)]
  <2>. HIDE DEF G
  <2>. QED
    BY <1>2, <1>3, <1>5, <1>6, UpdateLoop
<1>8. /\ T \in PortState /\ PortOK(T, C) /\ SameCounters(P, T)
      /\ Members(T.updq) = Members(P.updq) \ Prefix(q, n)
  BY <1>2, <1>4, <1>7
<1>9. Failures(P, n) \in 0 .. 1
  BY DEF Failures
<1>10. ASSUME Failures(P, n) = 0 PROVE T.updq = <<>>
  <2>1. n = Len(P.updq)
    BY <1>4, <1>10 DEF Failures
  <2>2. \A i \in 1 .. Len(P.updq) : P.updq[i] \in Prefix(q, n)
    BY <1>2, <2>1 DEF Prefix
  <2>3. Members(P.updq) \subseteq Prefix(q, n)
    BY <1>4, <2>2 DEF Members
  <2>4. Members(T.updq) = {} /\ T.updq \in Seq(Obj)
    BY <1>8, <2>3 DEF PortState
  <2>. QED
    BY <2>4, EmptyIs
<1>. QED
  BY <1>8, <1>9, <1>10 DEF T

(* It updates a part of the queue, or all of it.                           *)
LEMMA UpdatesAre ==
  ASSUME NEW P \in PortState, NEW n \in Updates(P)
  PROVE  n \in 0 .. Len(P.updq)
<1>1. Len(P.updq) \in Nat /\ DOMAIN P.updq = 1 .. Len(P.updq)
  BY SeqIs DEF PortState
<1>. QED
  BY <1>1 DEF Updates

(* port__update_events_if_polling()                                        *)
LEMMA UpdatesKeep ==
  ASSUME NEW P, NEW C, PortOK(P, C), NEW Q, NEW fails, UpdatesIfPolling(P, Q, fails)
  PROVE  /\ PortOK(Q, C) /\ SameCounters(P, Q) /\ fails \in 0 .. 1
         /\ P.active > 0 /\ fails = 0 => Q.updq = <<>>
<1>1. CASE P.active > 0
  <2>1. PICK n \in Updates(P) : Q = UpdateTo(P, n) /\ fails = Failures(P, n)
    BY <1>1 DEF UpdatesIfPolling
  <2>2. n \in 0 .. Len(P.updq)
    BY <2>1, PortParts, UpdatesAre
  <2>. QED
    BY <1>1, <2>1, <2>2, UpdateToKeeps
<1>2. CASE ~(P.active > 0)
  <2>1. Q = P /\ fails = 0
    BY <1>2 DEF UpdatesIfPolling
  <2>. QED
    BY <1>2, <2>1 DEF SameCounters
<1>. QED
  BY <1>1, <1>2
-----------------------------------------------------------------------------
(* EPOLL_CTL_DEL of a registered socket.                                   *)
LEMMA DeleteKeeps ==
  ASSUME NEW P, NEW C, PortOK(P, C), NEW o \in Live(P), NEW cancel
  PROVE  /\ PortOK(Delete(P, o, FALSE, cancel), C)
         /\ SameCounters(P, Delete(P, o, FALSE, cancel))
         /\ Members(Delete(P, o, FALSE, cancel).updq) = Members(P.updq) \ {o}
<1>. DEFINE Q == Delete(P, o, FALSE, cancel)
<1>1. /\ P \in PortState /\ IsInjective(P.updq) /\ IsInjective(P.delq)
      /\ GroupQueueOK(P) /\ CountsOK(P) /\ o \in Allocated(P) /\ ~P.socks[o].deleting
      /\ SockOK(P.socks[o], o \in C, o \in P.cancels)
  BY PortParts
<1>2. CASE P.socks[o].poll = "IDLE"
  <2>1. P.socks[o].group \in DOMAIN P.size /\ P.size[P.socks[o].group] > 0
    BY <1>1, GroupCounts
  <2>2. Freed(P, Q, o)
    BY <1>1, <1>2, <2>1, DeleteFrees
  <2>. HIDE DEF Q
  <2>3. PortOK(Q, C \ {o})
    BY <1>1, <2>2, FreedKeeps
  <2>4. C \ {o} = C
    BY <1>1, <1>2 DEF SockOK
  <2>. QED
    BY <2>2, <2>3, <2>4 DEF Freed, SameCounters, Q
<1>3. CASE P.socks[o].poll # "IDLE"
  <2>1. /\ Marked(P, Q, o, cancel)
        /\ IsInjective(Q.delq) /\ Members(Q.delq) = Members(P.delq) \cup {o}
    BY <1>1, <1>3, DeleteDefers
  <2>. HIDE DEF Q
  <2>2. PortOK(Q, C)
    BY <1>3, <2>1, MarkedKeeps
  <2>. QED
    BY <2>1, <2>2 DEF Marked, SameCounters, Q
<1>. QED
  BY <1>2, <1>3

(* A sock_state that has been freed is not missed by one that differs from *)
(* the port in that sock_state only.                                       *)
LEMMA FreedAlike ==
  ASSUME NEW P \in PortState, NEW R, NEW o, NEW S, Stored(P, R, o, S), o \in Obj,
         S.sock = P.socks[o].sock, S.group = P.socks[o].group,
         S.deleting = P.socks[o].deleting,
         R.updq = P.updq, R.delq = P.delq, R.cancels = P.cancels,
         NEW Q, Freed(R, Q, o)
  PROVE  Freed(P, Q, o)
<1>1. R.socks = [P.socks EXCEPT ![o] = S] /\ R.socks[o] = S
  BY DEF Stored, PortState
<1>2. [R.socks EXCEPT ![o] = None] = [P.socks EXCEPT ![o] = None]
  BY <1>1 DEF PortState
<1>3. R.tree = P.tree /\ R.size = P.size /\ R.active = P.active /\ R.packets = P.packets
  BY DEF Stored
<1>4. /\ Q \in PortState /\ GroupQueueOK(Q)
      /\ Q.tree = IF S.deleting THEN R.tree ELSE [R.tree EXCEPT ![S.sock] = None]
      /\ Q.socks = [R.socks EXCEPT ![o] = None]
      /\ IsInjective(Q.updq) /\ Members(Q.updq) = Members(R.updq) \ {o}
      /\ IsInjective(Q.delq) /\ Members(Q.delq) = Members(R.delq) \ {o}
      /\ Q.size = [R.size EXCEPT ![S.group] = @ - 1]
      /\ Q.cancels = R.cancels \ {o} /\ Q.active = R.active /\ Q.packets = R.packets
  BY <1>1 DEF Freed
<1>. QED
  BY <1>2, <1>3, <1>4 DEF Freed

(* sock_feed_event(): the completion is consumed, the rest of the port is  *)
(* as it was, and an event is reported for a registered socket only, and   *)
(* only if it is in the mask.                                              *)
Report == [sock : Sock, events : SUBSET Events]

Fed(A, B, C, o) ==
  /\ PortOK(B.port, C \ {o}) /\ SameCounters(A.port, B.port)
  /\ \A p \in Obj \ {o} : B.port.socks[p] = A.port.socks[p]
  /\ B = [port |-> B.port, got |-> B.got]
  /\ \A e \in B.got \ A.got :
        /\ e \in Report /\ o \in Live(A.port)
        /\ e.sock = A.port.socks[o].sock /\ e.events \subseteq A.port.socks[o].user

(* What Fed says is true of every completion that is on its way.           *)
LEMMA FeedKeeps ==
  ASSUME NEW A, A = [port |-> A.port, got |-> A.got],
         NEW C, PortOK(A.port, C), NEW o \in C
  PROVE  Fed(A, Feed(A, o), C, o)
<1>. DEFINE O == A.port
            R == O.socks[o]
            S == [R EXCEPT !.poll = "IDLE", !.pending = {}]
            P == [O EXCEPT !.socks[o] = [@ EXCEPT !.poll = "IDLE", !.pending = {}]]
            B == Feed(A, o)
<1>1. /\ O \in PortState /\ IsInjective(O.updq) /\ IsInjective(O.delq)
      /\ GroupQueueOK(O) /\ CountsOK(O)
  BY PortParts
<1>2. o \in Allocated(O)
  BY PortParts DEF SocksOK
<1>3. /\ o \in Obj /\ R \in SockState /\ SockOK(R, o \in C, o \in O.cancels)
      /\ o \notin Members(O.delq) => o \in Live(O)
      /\ o \in Live(O) => o \notin Members(O.delq)
      /\ Members(O.delq) = Deleting(O)
      /\ o \in Deleting(O) <=> R.deleting
  BY <1>1, <1>2, PortParts, SocksAre
<1>4. R.status # "PENDING" /\ o \notin O.cancels /\ R.poll # "IDLE"
  BY <1>3 DEF SockOK
<1>5. /\ S \in SockState /\ S.user = R.user /\ S.pending = {} /\ S.poll = "IDLE"
      /\ S.status = R.status /\ S.info = R.info /\ S.sock = R.sock /\ S.group = R.group
      /\ S.deleting = R.deleting /\ S.once = R.once
  BY <1>3 DEF SockState
<1>6. P = [O EXCEPT !.socks = [O.socks EXCEPT ![o] = S]]
  OBVIOUS
<1>. HIDE DEF S, P
<1>7. Stored(O, P, o, S) /\ P.updq = O.updq /\ P.delq = O.delq /\ P.cancels = O.cancels
  <2>. HIDE DEF O
  <2>. QED
    BY <1>1, <1>3, <1>5, <1>6, StoreIs
<1>8. /\ P \in PortState /\ P.socks = [O.socks EXCEPT ![o] = S] /\ P.socks[o] = S
      /\ P.size = O.size /\ P.groups = O.groups
      /\ \A p \in Obj \ {o} : P.socks[p] = O.socks[p]
  BY <1>1, <1>3, <1>7 DEF Stored, PortState
<1>9. CASE S.deleting \/ (S.status = "SUCCESS" /\ "LOCAL_CLOSE" \in S.info)
  <2>. DEFINE Q == Delete(P, o, FALSE, TRUE)
  <2>1. B = [A EXCEPT !.port = Q]
    BY <1>8, <1>9 DEF Feed, P
  <2>2. B = [port |-> Q, got |-> A.got]
    BY <2>1
  <2>3. o \in Allocated(P)
    BY <1>3, <1>5, <1>8, NoneAssumption DEF Allocated
  <2>4. GroupQueueOK(P)
    BY <1>1, <1>8 DEF GroupQueueOK
  <2>5. P.socks[o].group \in DOMAIN P.size /\ P.size[P.socks[o].group] > 0
    BY <1>1, <1>2, <1>5, <1>8, GroupCounts
  <2>6. P.socks[o].poll = "IDLE" /\ IsInjective(P.updq) /\ IsInjective(P.delq)
    BY <1>1, <1>5, <1>7, <1>8
  <2>7. Freed(P, Q, o)
    BY <1>8, <2>3, <2>4, <2>5, <2>6, DeleteFrees
  <2>. HIDE DEF Q, O, B
  <2>8. R = O.socks[o]
    OBVIOUS
  <2>. HIDE DEF R
  <2>9. Freed(O, Q, o)
    BY <1>1, <1>3, <1>5, <1>7, <2>7, <2>8, FreedAlike
  <2>10. PortOK(O, C)
    BY DEF O
  <2>11. PortOK(Q, C \ {o})
    BY <1>2, <2>9, <2>10, FreedKeeps
  <2>12. SameCounters(O, Q) /\ \A p \in Obj \ {o} : Q.socks[p] = O.socks[p]
    BY <1>1, <1>3, <2>9 DEF Freed, SameCounters, PortState
  <2>13. B.port = Q /\ B.got = A.got
    BY <2>2
  <2>14. Fed(A, B, C, o)
    BY <2>2, <2>11, <2>12, <2>13 DEF Fed, O
  <2>. QED
    BY <2>14 DEF B
<1>10. CASE ~(S.deleting \/ (S.status = "SUCCESS" /\ "LOCAL_CLOSE" \in S.info))
  <2>. DEFINE Q == RequestUpdate(P, o)
              Z == [S EXCEPT !.user = {}, !.once = FALSE]
              K == [Q EXCEPT !.socks = [Q.socks EXCEPT ![o] = Z]]
  <2>1. o \notin Members(P.delq) /\ o \in Live(O)
    BY <1>3, <1>5, <1>7, <1>10
  <2>2. /\ Q \in PortState /\ IsInjective(Q.updq)
        /\ Members(Q.updq) = Members(P.updq) \cup {o}
        /\ Q.socks = P.socks /\ Q.tree = P.tree /\ Q.delq = P.delq
        /\ Q.groups = P.groups /\ Q.size = P.size /\ Q.cancels = P.cancels
        /\ SameCounters(P, Q)
    BY <1>1, <1>3, <1>7, <1>8, <2>1, RequestIs
  <2>. HIDE DEF Q
  <2>3. /\ Z \in SockState /\ Z.user = {} /\ Z.pending = {} /\ Z.poll = "IDLE"
        /\ Z.status = R.status /\ Z.info = R.info /\ Z.sock = R.sock /\ Z.group = R.group
        /\ Z.deleting = R.deleting
    BY <1>5 DEF SockState
  <2>4. Q.socks[o] = S
    BY <1>8, <2>2
  <2>5. [Q EXCEPT !.socks[o] = [@ EXCEPT !.user = {}, !.once = FALSE]] = K
    BY <2>4
  <2>. HIDE DEF Z
  <2>6. Stored(Q, K, o, Z) /\ K.updq = Q.updq /\ K.delq = Q.delq /\ K.cancels = Q.cancels
    <3>. HIDE DEF K
    <3>1. K = [Q EXCEPT !.socks = [Q.socks EXCEPT ![o] = Z]]
      BY DEF K
    <3>. QED
      BY <1>3, <2>2, <2>3, <3>1, StoreIs
  <2>. HIDE DEF K
  <2>7. \E T : /\ T \in {Q, K} /\ B.port = T
               /\ B = [port |-> B.port, got |-> B.got]
               /\ \A e \in B.got \ A.got : e = [sock |-> S.sock, events |-> Reported(S)]
    <3>1. CASE Reported(S) = {}
      <4>1. B = [A EXCEPT !.port = Q]
        BY <1>8, <1>10, <3>1 DEF Feed, P, Q
      <4>2. B = [port |-> Q, got |-> A.got]
        BY <4>1
      <4>. QED
        BY <4>2
    <3>2. CASE Reported(S) # {} /\ S.once
      <4>1. B = [port |-> K, got |-> A.got \cup {[sock |-> S.sock, events |-> Reported(S)]}]
        BY <1>8, <1>10, <2>5, <3>2 DEF Feed, P, Q
      <4>. QED
        BY <4>1
    <3>3. CASE Reported(S) # {} /\ ~S.once
      <4>1. B = [port |-> Q, got |-> A.got \cup {[sock |-> S.sock, events |-> Reported(S)]}]
        BY <1>8, <1>10, <3>3 DEF Feed, P, Q
      <4>. QED
        BY <4>1
    <3>. QED
      BY <3>1, <3>2, <3>3
  <2>8. PICK T : /\ T \in {Q, K} /\ B.port = T
                 /\ B = [port |-> B.port, got |-> B.got]
                 /\ \A e \in B.got \ A.got : e = [sock |-> S.sock, events |-> Reported(S)]
    BY <2>7
  <2>9. \E Y : /\ Stored(O, T, o, Y) /\ IsInjective(T.updq)
               /\ Members(T.updq) = Members(O.updq) \cup {o}
               /\ T.delq = O.delq /\ T.cancels = O.cancels
               /\ SockOK(Y, FALSE, FALSE) /\ ~Y.deleting
               /\ Y.sock = R.sock /\ Y.group = R.group /\ Y.deleting = R.deleting
    <3>1. CASE T = Q
      <4>1. Stored(O, Q, o, S)
        BY <1>7, <2>2 DEF Stored, SameCounters
      <4>2. SockOK(S, FALSE, FALSE)
        BY <1>3, <1>4, <1>5 DEF SockOK
      <4>. QED
        BY <1>5, <1>7, <1>10, <2>2, <3>1, <4>1, <4>2
    <3>2. CASE T = K
      <4>1. K.socks = [[O.socks EXCEPT ![o] = S] EXCEPT ![o] = Z]
        BY <1>8, <2>2, <2>6 DEF Stored
      <4>. DEFINE f == O.socks
      <4>2. f \in [Obj -> SockState \cup {None}] /\ O.socks = f
        BY <1>1 DEF PortState
      <4>. HIDE DEF f
      <4>3. [[f EXCEPT ![o] = S] EXCEPT ![o] = Z] = [f EXCEPT ![o] = Z]
        BY <4>2
      <4>4. K.socks = [O.socks EXCEPT ![o] = Z]
        BY <4>1, <4>2, <4>3 DEF f
      <4>5. Stored(O, K, o, Z)
        BY <1>7, <2>2, <2>6, <4>4 DEF Stored, SameCounters
      <4>6. SockOK(Z, FALSE, FALSE)
        BY <1>3, <1>4, <2>3 DEF SockOK
      <4>. QED
        BY <1>5, <1>7, <1>10, <2>2, <2>3, <2>6, <3>2, <4>5, <4>6
    <3>. QED
      BY <2>8, <3>1, <3>2
  <2>10. PICK Y : /\ Stored(O, T, o, Y) /\ IsInjective(T.updq)
                  /\ Members(T.updq) = Members(O.updq) \cup {o}
                  /\ T.delq = O.delq /\ T.cancels = O.cancels
                  /\ SockOK(Y, FALSE, FALSE) /\ ~Y.deleting
                  /\ Y.sock = R.sock /\ Y.group = R.group /\ Y.deleting = R.deleting
    BY <2>9
  <2>. HIDE DEF B
  <2>11. PortOK(T, C \ {o})
    <3>. DEFINE D == C \ {o}
    <3>1. D \ {o} = C \ {o} /\ o \notin D
      OBVIOUS
    <3>2. /\ Members(T.updq) \ {o} = Members(O.updq) \ {o} /\ o \in Members(T.updq)
          /\ T.cancels \ {o} = O.cancels \ {o}
      BY <2>10
    <3>. HIDE DEF D
    <3>3. SockOK(Y, o \in D, o \in T.cancels)
      BY <1>4, <2>10, <3>1 DEF SockOK
    <3>. HIDE DEF O, R
    <3>4. PortOK(O, C) /\ O.socks[o] = R
      BY DEF O, R
    <3>. QED
      BY <1>2, <2>10, <3>1, <3>2, <3>3, <3>4, StoredKeeps DEF D
  <2>12. SameCounters(O, T) /\ \A p \in Obj \ {o} : T.socks[p] = O.socks[p]
    BY <1>1, <1>3, <2>10 DEF Stored, SameCounters, PortState
  <2>13. \A e \in B.got \ A.got :
            e \in Report /\ e.sock = R.sock /\ e.events \subseteq R.user
    <3>1. Reported(S) \subseteq S.user /\ S.user \subseteq Events /\ S.sock \in Sock
      BY <1>5 DEF Reported, SockState
    <3>2. [sock |-> S.sock, events |-> Reported(S)] \in Report
      BY <3>1 DEF Report
    <3>. QED
      BY <1>5, <2>8, <3>1, <3>2
  <2>14. Fed(A, B, C, o)
    BY <2>1, <2>8, <2>11, <2>12, <2>13 DEF Fed
  <2>. QED
    BY <2>14 DEF B
<1>. QED
  BY <1>9, <1>10
-----------------------------------------------------------------------------
(* The event e is of a registered socket and in its mask.                  *)
Asked(P, e) ==
  e.sock \in Registered(P) /\ e.events \subseteq P.socks[P.tree[e.sock]].user

(* The socket of a live sock_state is registered, with its mask.           *)
LEMMA LiveAsked ==
  ASSUME NEW P, Structure(P), NEW o \in Live(P), NEW e,
         e.sock = P.socks[o].sock, e.events \subseteq P.socks[o].user
  PROVE  Asked(P, e)
<1>1. P \in PortState /\ o \in Obj /\ P.socks[o] \in SockState
  BY SocksAre DEF Structure
<1>2. P.socks[o].sock \in Sock
  BY <1>1 DEF SockState
<1>3. P.tree[P.socks[o].sock] = o
  BY <1>1, <1>2 DEF Structure, TreeOK
<1>. QED
  BY <1>1, <1>2, <1>3, NoneAssumption DEF Asked, Registered

(* port__feed_events(): the completions of the batch are consumed, and     *)
(* what is reported had been asked for when it began.                      *)
LEMMA FeedsKeep ==
  ASSUME NEW P, NEW C, PortOK(P, C), NEW q \in Seq(Obj), IsInjective(q),
         Members(q) \subseteq C
  PROVE  LET A == Each(Feed, [port |-> P, got |-> {}], q)
         IN  /\ PortOK(A.port, C \ Members(q)) /\ SameCounters(P, A.port)
             /\ \A e \in A.got : Asked(P, e)
<1>. DEFINE L == Len(q)
            x == [port |-> P, got |-> {}]
            Left(m, Q) == \A i \in 1 .. L : m < i => Q.socks[q[i]] = P.socks[q[i]]
            Good(m) == {A \in [port : PortState, got : SUBSET Report] :
                          /\ PortOK(A.port, C \ Prefix(q, m)) /\ SameCounters(P, A.port)
                          /\ Left(m, A.port)
                          /\ \A e \in A.got : Asked(P, e)}
            G == [m \in 0 .. L |-> Good(m)]
            T == Each(Feed, x, q)
<1>1. P \in PortState /\ Structure(P)
  BY PortParts
<1>2. L \in Nat /\ DOMAIN q = 1 .. L /\ Prefix(q, 0) = {} /\ Prefix(q, L) = Members(q)
  BY SeqIs, PrefixIs
<1>3. x \in G[0]
  <2>1. x \in [port : PortState, got : SUBSET Report] /\ x.port = P /\ x.got = {}
    BY <1>1
  <2>2. C \ Prefix(q, 0) = C
    BY <1>2
  <2>3. x \in Good(0)
    BY <2>1, <2>2 DEF SameCounters
  <2>. QED
    BY <1>2, <2>3
<1>4. \A m \in 0 .. L - 1 : \A A \in G[m] : Feed(A, q[m + 1]) \in G[m + 1]
  <2>. SUFFICES ASSUME NEW m \in 0 .. L - 1, NEW A \in G[m]
                PROVE  Feed(A, q[m + 1]) \in G[m + 1]
    OBVIOUS
  <2>. DEFINE o == q[m + 1]
              B == Feed(A, o)
              Cm == C \ Prefix(q, m)
              Cn == C \ Prefix(q, m + 1)
  <2>1. /\ Prefix(q, m + 1) = Prefix(q, m) \cup {o}
        /\ o \in Members(q) \ Prefix(q, m) /\ m + 1 \in 0 .. L /\ m \in 0 .. L
    <3>1. m \in 0 .. Len(q) - 1
      OBVIOUS
    <3>2. /\ Prefix(q, m + 1) = Prefix(q, m) \cup {q[m + 1]}
          /\ q[m + 1] \in Members(q) \ Prefix(q, m)
          /\ m + 1 \in 0 .. Len(q)
      BY <3>1, PrefixIs
    <3>. QED
      BY <1>2, <3>2
  <2>2. /\ A \in [port : PortState, got : SUBSET Report]
        /\ PortOK(A.port, Cm) /\ SameCounters(P, A.port) /\ Left(m, A.port)
        /\ \A e \in A.got : Asked(P, e)
    BY <2>1
  <2>3. o \in Cm /\ Cm \ {o} = Cn /\ o \in Obj
    BY <1>2, <2>1, SeqIs
  <2>4. A = [port |-> A.port, got |-> A.got]
    BY <2>2
  <2>. HIDE DEF B, Cm, Cn
  <2>5. Fed(A, B, Cm, o)
    BY <2>2, <2>3, <2>4, FeedKeeps DEF B
  <2>6. /\ PortOK(B.port, Cn) /\ SameCounters(P, B.port)
        /\ B = [port |-> B.port, got |-> B.got]
    BY <2>2, <2>3, <2>5 DEF Fed, SameCounters
  <2>7. B.port \in PortState
    BY <2>6, PortParts
  <2>8. Left(m + 1, B.port)
    <3>. SUFFICES ASSUME NEW i \in 1 .. L, m + 1 < i
                  PROVE  B.port.socks[q[i]] = P.socks[q[i]]
      BY Zenon
    <3>1. q[i] # o /\ q[i] \in Obj /\ m < i
      BY <1>2, <2>1, SeqIs DEF IsInjective
    <3>2. B.port.socks[q[i]] = A.port.socks[q[i]]
      BY <2>5, <3>1 DEF Fed
    <3>. QED
      BY <2>2, <3>1, <3>2
  <2>9. ASSUME NEW e \in B.got PROVE e \in Report /\ Asked(P, e)
    <3>1. CASE e \in A.got
      BY <2>2, <3>1
    <3>2. CASE e \notin A.got
      <4>1. /\ e \in Report /\ o \in Live(A.port) /\ e.sock = A.port.socks[o].sock
            /\ e.events \subseteq A.port.socks[o].user
        BY <2>5, <3>2 DEF Fed
      <4>2. A.port.socks[o] = P.socks[o]
        <5>1. m + 1 \in 1 .. L /\ m < m + 1
          BY <2>1
        <5>. QED
          BY <2>2, <5>1
      <4>3. o \in Live(P)
        BY <1>1, <2>2, <2>3, <4>1, <4>2, SocksAre
      <4>. QED
        BY <1>1, <4>1, <4>2, <4>3, LiveAsked
    <3>. QED
      BY <3>1, <3>2
  <2>10. B \in [port : PortState, got : SUBSET Report]
    BY <2>6, <2>7, <2>9
  <2>11. B \in Good(m + 1)
    BY <2>6, <2>8, <2>9, <2>10 DEF Cn
  <2>. QED
    BY <2>1, <2>11 DEF B
<1>5. T \in G[L]
  <2>. HIDE DEF G, x
  <2>. QED
    BY <1>3, <1>4, FeedLoop
<1>. HIDE DEF T
<1>6. PortOK(T.port, C \ Members(q)) /\ SameCounters(P, T.port) /\ \A e \in T.got : Asked(P, e)
  BY <1>2, <1>5
<1>. QED
  BY <1>6 DEF T
-----------------------------------------------------------------------------
(* The counter of polling threads and the completion port may change.      *)
Alike(P, Q) ==
  /\ Q \in PortState
  /\ Q.tree = P.tree /\ Q.socks = P.socks /\ Q.updq = P.updq /\ Q.delq = P.delq
  /\ Q.groups = P.groups /\ Q.size = P.size /\ Q.cancels = P.cancels

(* Neither of them matters to the rest of the port.                        *)
LEMMA AlikeKeeps ==
  ASSUME NEW P, NEW Q, Alike(P, Q)
  PROVE  /\ Structure(P) => Structure(Q)
         /\ \A C : PortOK(P, C) => PortOK(Q, C)
<1>1. Allocated(Q) = Allocated(P) /\ Deleting(Q) = Deleting(P) /\ Live(Q) = Live(P)
  BY DEF Alike, Allocated, Deleting, Live
<1>2. Structure(P) => Structure(Q)
  <2>1. /\ TreeOK(P) => TreeOK(Q)
        /\ UpdqOK(P) => UpdqOK(Q)
        /\ DelqOK(P) => DelqOK(Q)
    BY <1>1 DEF Alike, TreeOK, UpdqOK, DelqOK
  <2>2. (GroupQueueOK(P) => GroupQueueOK(Q)) /\ (CountsOK(P) => CountsOK(Q))
    BY <1>1 DEF Alike, GroupQueueOK, CountsOK
  <2>. QED
    BY <2>1, <2>2 DEF Alike, Structure
<1>3. ASSUME NEW C, PortOK(P, C) PROVE PortOK(Q, C)
  <2>1. SocksOK(P, C) => SocksOK(Q, C)
    BY <1>1 DEF Alike, SocksOK
  <2>2. (DeletingOK(P) => DeletingOK(Q)) /\ (ServedOK(P) => ServedOK(Q))
    BY <1>1 DEF Alike, DeletingOK, ServedOK
  <2>. QED
    BY <1>2, <1>3, <2>1, <2>2 DEF PortOK
<1>. QED
  BY <1>2, <1>3

(* The driver completes a poll: the completion of o is on its way.         *)
Completed(P, Q, C, o) ==
  /\ PortOK(Q, C \cup {o}) /\ Q.active = P.active /\ Q.updq = P.updq
  /\ Q.packets = Append(P.packets, o)
  /\ \A p \in Obj \ {o} : Q.socks[p] = P.socks[p]

(* However the poll comes out.                                             *)
LEMMA CompleteKeeps ==
  ASSUME NEW P, NEW C, PortOK(P, C), NEW o \in Allocated(P), P.socks[o].status = "PENDING",
         NEW status \in {"SUCCESS", "CANCELLED", "FAILED"}, NEW info \in SUBSET Afd
  PROVE  Completed(P, Complete(P, o, status, info), C, o)
<1>. DEFINE R == P.socks[o]
            S == [R EXCEPT !.status = status, !.info = info]
            K == [P EXCEPT !.socks = [P.socks EXCEPT ![o] = S], !.cancels = P.cancels \ {o}]
            Q == Complete(P, o, status, info)
<1>1. /\ P \in PortState /\ o \in Obj /\ R \in SockState
      /\ SockOK(R, o \in C, o \in P.cancels)
      /\ R.deleting => R.poll # "IDLE"
      /\ IsInjective(P.updq)
      /\ Members(P.updq) \subseteq Live(P)
      /\ o \in Live(P) => ~R.deleting /\ (o \notin Members(P.updq) => Served(R))
  BY PortParts
<1>2. /\ S \in SockState /\ S.status = status /\ S.sock = R.sock /\ S.group = R.group
      /\ S.deleting = R.deleting /\ S.user = R.user /\ S.pending = R.pending
      /\ S.poll = R.poll
  BY <1>1 DEF SockState
<1>3. ~R.deleting => o \in Live(P)
  BY <1>1 DEF Live, Deleting
<1>. HIDE DEF S
<1>4. /\ K \in PortState /\ K.socks = [P.socks EXCEPT ![o] = S] /\ K.tree = P.tree
      /\ K.groups = P.groups /\ K.size = P.size /\ K.active = P.active
      /\ K.packets = P.packets /\ K.updq = P.updq /\ K.delq = P.delq
      /\ K.cancels = P.cancels \ {o}
  <2>. HIDE DEF R
  <2>1. [P.socks EXCEPT ![o] = S] \in [Obj -> SockState \cup {None}]
    BY <1>1, <1>2 DEF PortState
  <2>. QED
    BY <1>1, <2>1 DEF PortState
<1>5. Stored(P, K, o, S)
  <2>. HIDE DEF K
  <2>. QED
    BY <1>2, <1>4 DEF Stored
<1>6. SockOK(S, TRUE, FALSE)
  BY <1>1, <1>2 DEF SockOK
<1>7. Q = [K EXCEPT !.packets = Append(P.packets, o)]
  BY DEF Complete, S
<1>. HIDE DEF K, Q
<1>8. PortOK(K, C \cup {o})
  <2>. DEFINE D == C \cup {o}
  <2>1. D \ {o} = C \ {o} /\ o \in D
    OBVIOUS
  <2>2. K.cancels \ {o} = P.cancels \ {o} /\ o \notin K.cancels
    BY <1>4
  <2>. HIDE DEF D
  <2>3. SockOK(S, o \in D, o \in K.cancels)
    BY <1>6, <2>1, <2>2 DEF SockOK
  <2>4. IsInjective(K.updq) /\ Members(K.updq) \ {o} = Members(P.updq) \ {o}
    BY <1>1, <1>4
  <2>5. o \in Members(K.updq) => ~S.deleting
    BY <1>1, <1>2, <1>4
  <2>6. ~S.deleting /\ o \notin Members(K.updq) => Served(S)
    BY <1>1, <1>2, <1>3, <1>4 DEF Served
  <2>7. S.deleting => S.poll # "IDLE"
    BY <1>1, <1>2
  <2>. QED
    BY <1>2, <1>4, <1>5, <2>1, <2>2, <2>3, <2>4, <2>5, <2>6, <2>7, StoredKeeps DEF D
<1>9. /\ Q.packets = Append(P.packets, o) /\ Alike(K, Q) /\ Q.active = P.active
  <2>1. Append(P.packets, o) \in Seq(Obj)
    BY <1>1, AppendProperties DEF PortState
  <2>. QED
    BY <1>4, <1>7, <2>1 DEF Alike, PortState
<1>10. PortOK(Q, C \cup {o}) /\ Q.updq = P.updq /\ Q.socks = [P.socks EXCEPT ![o] = S]
  BY <1>4, <1>8, <1>9, AlikeKeeps DEF Alike
<1>. QED
  BY <1>1, <1>9, <1>10 DEF Completed, PortState, Q

(* Closing a socket completes all of its polls.                            *)
LEMMA ClosesKeep ==
  ASSUME NEW P, NEW C, PortOK(P, C), NEW q \in Seq(Obj), IsInjective(q),
         IsInjective(P.packets), Members(P.packets) \subseteq C,
         \A o \in Members(q) : o \in Allocated(P) /\ P.socks[o].status = "PENDING"
  PROVE  LET Q == Each(Close, P, q)
         IN  /\ PortOK(Q, C \cup Members(q)) /\ Q.active = P.active /\ Q.updq = P.updq
             /\ IsInjective(Q.packets) /\ Members(Q.packets) = Members(P.packets) \cup Members(q)
<1>. DEFINE L == Len(q)
            Left(m, Q) == \A i \in 1 .. L : m < i => Q.socks[q[i]] = P.socks[q[i]]
            Good(m) == {Q \in PortState :
                          /\ PortOK(Q, C \cup Prefix(q, m))
                          /\ Q.active = P.active /\ Q.updq = P.updq
                          /\ IsInjective(Q.packets)
                          /\ Members(Q.packets) = Members(P.packets) \cup Prefix(q, m)
                          /\ Left(m, Q)}
            G == [m \in 0 .. L |-> Good(m)]
            T == Each(Close, P, q)
<1>1. P \in PortState
  BY PortParts
<1>2. L \in Nat /\ DOMAIN q = 1 .. L /\ Prefix(q, 0) = {} /\ Prefix(q, L) = Members(q)
  BY SeqIs, PrefixIs
<1>3. P \in G[0]
  <2>1. C \cup Prefix(q, 0) = C /\ Members(P.packets) = Members(P.packets) \cup Prefix(q, 0)
    BY <1>2
  <2>2. P \in Good(0)
    BY <1>1, <2>1
  <2>. QED
    BY <1>2, <2>2
<1>4. \A o \in Members(q) : o \notin C
  <2>. SUFFICES ASSUME NEW o \in Members(q) PROVE o \notin C
    OBVIOUS
  <2>1. SockOK(P.socks[o], o \in C, o \in P.cancels) /\ P.socks[o].status = "PENDING"
    BY PortParts
  <2>. QED
    BY <2>1 DEF SockOK
<1>5. \A m \in 0 .. L - 1 : \A A \in G[m] : Close(A, q[m + 1]) \in G[m + 1]
  <2>. SUFFICES ASSUME NEW m \in 0 .. L - 1, NEW A \in G[m]
                PROVE  Close(A, q[m + 1]) \in G[m + 1]
    OBVIOUS
  <2>. DEFINE o == q[m + 1]
              B == Close(A, o)
              Cm == C \cup Prefix(q, m)
              Cn == C \cup Prefix(q, m + 1)
  <2>1. /\ Prefix(q, m + 1) = Prefix(q, m) \cup {o}
        /\ o \in Members(q) \ Prefix(q, m) /\ m + 1 \in 0 .. L /\ m \in 0 .. L
    <3>1. m \in 0 .. Len(q) - 1
      OBVIOUS
    <3>2. /\ Prefix(q, m + 1) = Prefix(q, m) \cup {q[m + 1]}
          /\ q[m + 1] \in Members(q) \ Prefix(q, m)
          /\ m + 1 \in 0 .. Len(q)
      BY <3>1, PrefixIs
    <3>. QED
      BY <1>2, <3>2
  <2>2. /\ A \in PortState /\ PortOK(A, Cm) /\ A.active = P.active /\ A.updq = P.updq
        /\ IsInjective(A.packets)
        /\ Members(A.packets) = Members(P.packets) \cup Prefix(q, m)
        /\ Left(m, A)
    BY <2>1
  <2>3. o \in Obj /\ Cm \cup {o} = Cn
    BY <1>2, <2>1, SeqIs
  <2>4. A.socks[o] = P.socks[o]
    <3>1. m + 1 \in 1 .. L /\ m < m + 1
      BY <2>1
    <3>. QED
      BY <2>2, <3>1
  <2>5. o \in Allocated(A) /\ A.socks[o].status = "PENDING"
    BY <2>1, <2>4 DEF Allocated
  <2>. HIDE DEF B, Cm, Cn
  <2>6. Completed(A, B, Cm, o)
    <3>1. Closed \in SUBSET Afd /\ "SUCCESS" \in {"SUCCESS", "CANCELLED", "FAILED"}
      BY DEF Afd
    <3>2. B = Complete(A, o, "SUCCESS", Closed)
      BY DEF B, Close
    <3>. QED
      BY <2>2, <2>5, <3>1, <3>2, CompleteKeeps
  <2>7. /\ PortOK(B, Cn) /\ B.active = P.active /\ B.updq = P.updq /\ B \in PortState
        /\ B.packets = Append(A.packets, o)
    BY <2>2, <2>3, <2>6, PortParts DEF Completed
  <2>8. o \notin Members(A.packets)
    BY <1>4, <2>1, <2>2
  <2>9. IsInjective(B.packets) /\ Members(B.packets) = Members(P.packets) \cup Prefix(q, m + 1)
    <3>1. A.packets \in Seq(Obj)
      BY <2>2 DEF PortState
    <3>2. IsInjective(B.packets) /\ Members(B.packets) = Members(A.packets) \cup {o}
      BY <2>2, <2>3, <2>7, <2>8, <3>1, AppendIs
    <3>. QED
      BY <2>1, <2>2, <3>2
  <2>10. Left(m + 1, B)
    <3>. SUFFICES ASSUME NEW i \in 1 .. L, m + 1 < i
                  PROVE  B.socks[q[i]] = P.socks[q[i]]
      BY Zenon
    <3>1. q[i] # o /\ q[i] \in Obj /\ m < i
      BY <1>2, <2>1, SeqIs DEF IsInjective
    <3>2. B.socks[q[i]] = A.socks[q[i]]
      BY <2>6, <3>1 DEF Completed
    <3>. QED
      BY <2>2, <3>1, <3>2
  <2>11. B \in Good(m + 1)
    BY <2>7, <2>9, <2>10 DEF Cn
  <2>. QED
    BY <2>1, <2>11 DEF B
<1>6. T \in G[L]
  <2>. HIDE DEF G
  <2>. QED
    BY <1>3, <1>5, CloseLoop
<1>. HIDE DEF T
<1>7. /\ PortOK(T, C \cup Members(q)) /\ T.active = P.active /\ T.updq = P.updq
      /\ IsInjective(T.packets) /\ Members(T.packets) = Members(P.packets) \cup Members(q)
  BY <1>2, <1>6
<1>. QED
  BY <1>7 DEF T
-----------------------------------------------------------------------------
(* The groups once poll_group_acquire() has counted one socket more.       *)
LEMMA AcquireCounts ==
  ASSUME NEW P \in PortState, GroupQueueOK(P), CountsOK(P)
  PROVE  LET g == NextGroup(P)
             n == Acquire(P).size
         IN  /\ g \in Nat /\ g \in DOMAIN n /\ DOMAIN P.size \subseteq DOMAIN n
             /\ n[g] = Cardinality(InGroup(P.socks, g)) + 1
             /\ \A h \in DOMAIN n \ {g} : n[h] = Cardinality(InGroup(P.socks, h))
<1>. DEFINE g == NextGroup(P)
            n == Acquire(P).size
            S == InGroup(P.socks, g)
<1>1. /\ g \in Nat /\ DOMAIN n = DOMAIN P.size \cup {g}
      /\ \A h \in DOMAIN P.size \ {g} : n[h] = P.size[h]
      /\ g \in DOMAIN P.size => n[g] = P.size[g] + 1
      /\ g \notin DOMAIN P.size => n[g] = 1
  BY AcquireIs
<1>. HIDE DEF n, g
<1>2. n[g] = Cardinality(S) + 1
  <2>1. CASE g \in DOMAIN P.size
    BY <1>1, <2>1 DEF CountsOK
  <2>2. CASE g \notin DOMAIN P.size
    <3>1. S = {}
      BY <2>2 DEF CountsOK, InGroup, Allocated
    <3>2. Cardinality(S) = 0
      BY <3>1, FS_EmptySet
    <3>. QED
      BY <1>1, <2>2, <3>2
  <2>. QED
    BY <2>1, <2>2
<1>3. \A h \in DOMAIN n \ {g} : n[h] = Cardinality(InGroup(P.socks, h))
  BY <1>1 DEF CountsOK
<1>. QED
  BY <1>1, <1>2, <1>3 DEF n, g

(* What depends on the groups only.                                        *)
LEMMA RegroupedKeeps ==
  ASSUME NEW P, NEW C, PortOK(P, C), NEW Q, Regrouped(P, Q), CountsOK(Q)
  PROVE  PortOK(Q, C)
<1>1. Allocated(Q) = Allocated(P) /\ Deleting(Q) = Deleting(P) /\ Live(Q) = Live(P)
  BY DEF Regrouped, Allocated, Deleting, Live
<1>2. TreeOK(Q) /\ UpdqOK(Q) /\ DelqOK(Q)
  BY <1>1, PortParts DEF Regrouped, TreeOK, UpdqOK, DelqOK
<1>3. SocksOK(Q, C)
  BY <1>1, PortParts DEF Regrouped, SocksOK
<1>4. DeletingOK(Q) /\ ServedOK(Q)
  BY <1>1, PortParts DEF Regrouped, DeletingOK, ServedOK
<1>. QED
  BY <1>2, <1>3, <1>4 DEF PortOK, Structure, Regrouped

(* EPOLL_CTL_ADD, when sock_new() fails after it has taken a poll group.   *)
LEMMA BackOutKeeps ==
  ASSUME NEW P, NEW C, PortOK(P, C)
  PROVE  /\ PortOK(Release(Acquire(P), NextGroup(P)), C)
         /\ SameCounters(P, Release(Acquire(P), NextGroup(P)))
         /\ Release(Acquire(P), NextGroup(P)).updq = P.updq
<1>. DEFINE g == NextGroup(P)
            A == Acquire(P)
            Q == Release(A, g)
<1>1. P \in PortState /\ GroupQueueOK(P) /\ CountsOK(P)
  BY PortParts
<1>2. Regrouped(P, A)
  BY <1>1, AcquireIs
<1>3. /\ g \in DOMAIN A.size /\ DOMAIN P.size \subseteq DOMAIN A.size
      /\ A.size[g] = Cardinality(InGroup(P.socks, g)) + 1
      /\ \A h \in DOMAIN A.size \ {g} : A.size[h] = Cardinality(InGroup(P.socks, h))
  BY <1>1, AcquireCounts
<1>4. Cardinality(InGroup(P.socks, g)) \in Nat
  <2>1. IsFiniteSet(InGroup(P.socks, g))
    <3>1. InGroup(P.socks, g) \subseteq Obj
      BY DEF InGroup
    <3>. QED
      BY <3>1, FiniteAssumption, FS_Subset
  <2>. QED
    BY <2>1, FS_CardinalityType
<1>. HIDE DEF A, g
<1>5. A \in PortState /\ GroupQueueOK(A) /\ A.size[g] > 0
  BY <1>2, <1>3, <1>4 DEF Regrouped
<1>6. Regrouped(A, Q) /\ Q.size = [A.size EXCEPT ![g] = @ - 1]
  BY <1>3, <1>5, ReleaseIs
<1>. HIDE DEF Q
<1>7. Regrouped(P, Q)
  BY <1>2, <1>6 DEF Regrouped
<1>8. CountsOK(Q)
  <2>1. Q.socks = P.socks /\ Allocated(Q) = Allocated(P)
    BY <1>7 DEF Regrouped, Allocated
  <2>2. DOMAIN Q.size = DOMAIN A.size
    BY <1>6
  <2>3. ASSUME NEW h \in DOMAIN Q.size PROVE Q.size[h] = Cardinality(InGroup(Q.socks, h))
    <3>1. CASE h = g
      <4>1. Q.size[g] = A.size[g] - 1
        BY <1>3, <1>6
      <4>. QED
        BY <1>3, <1>4, <2>1, <3>1, <4>1
    <3>2. CASE h # g
      <4>1. Q.size[h] = A.size[h]
        BY <1>6, <2>2, <3>2
      <4>. QED
        BY <1>3, <2>1, <2>2, <3>2, <4>1
    <3>. QED
      BY <3>1, <3>2
  <2>4. \A o \in Allocated(Q) : Q.socks[o].group \in DOMAIN Q.size
    BY <1>1, <1>3, <2>1, <2>2 DEF CountsOK
  <2>. QED
    BY <2>3, <2>4 DEF CountsOK
<1>9. PortOK(Q, C)
  BY <1>7, <1>8, RegroupedKeeps
<1>. QED
  BY <1>7, <1>9 DEF Regrouped, SameCounters, Q, A, g

(* EPOLL_CTL_ADD, when it succeeds.                                        *)
Added(P, s, o) ==
  [Acquire(P) EXCEPT !.socks[o] = NewSock(s, NextGroup(P)), !.tree[s] = o]

FreshSock(s, g, mask, once) ==
  [NewSock(s, g) EXCEPT !.user = mask \cup Always, !.once = once]

(* Q is P with the sock_state S, in the update queue, for the socket s.    *)
Joined(P, Q, s, o, S) ==
  /\ S \in SockState /\ Q \in PortState /\ GroupQueueOK(Q)
  /\ SockOK(S, FALSE, FALSE) /\ ~S.deleting
  /\ S.sock = s /\ S.group = NextGroup(P)
  /\ Q.socks = [P.socks EXCEPT ![o] = S] /\ Q.tree = [P.tree EXCEPT ![s] = o]
  /\ IsInjective(Q.updq) /\ Members(Q.updq) = Members(P.updq) \cup {o}
  /\ Q.delq = P.delq /\ Q.cancels = P.cancels /\ Q.size = Acquire(P).size
  /\ SameCounters(P, Q)

(* The port with the new sock_state.                                       *)
LEMMA AddedIs ==
  ASSUME NEW P, NEW C, PortOK(P, C), NEW s \in Sock \ Registered(P),
         NEW o \in Obj \ Allocated(P), NEW mask \in SUBSET Events, NEW once \in BOOLEAN
  PROVE  Joined(P, SetEvent(Added(P, s, o), o, mask, once), s, o,
                FreshSock(s, NextGroup(P), mask, once))
<1>. DEFINE g == NextGroup(P)
            A == Acquire(P)
            N == NewSock(s, g)
            S == FreshSock(s, g, mask, once)
            D == Added(P, s, o)
            E == [D EXCEPT !.socks[o] = [@ EXCEPT !.user = mask \cup Always, !.once = once]]
            Q == SetEvent(D, o, mask, once)
<1>1. P \in PortState /\ GroupQueueOK(P) /\ IsInjective(P.updq)
      /\ Members(P.updq) \subseteq Live(P) /\ Members(P.delq) = Deleting(P)
  BY PortParts
<1>2. Regrouped(P, A) /\ g \in Nat
  BY <1>1, AcquireIs
<1>3. o \notin Members(P.updq) /\ o \notin Members(P.delq)
  BY <1>1 DEF Live, Deleting
<1>4. /\ S \in SockState /\ S.user = mask \cup Always /\ S.pending = {} /\ S.poll = "IDLE"
      /\ S.status = "SUCCESS" /\ S.sock = s /\ S.group = g /\ S.deleting = FALSE
  <2>1. mask \cup Always \in SUBSET Events
    BY EventsAre
  <2>. QED
    BY <1>2, <2>1 DEF FreshSock, NewSock, SockState
<1>5. N.pending = {} /\ S = [N EXCEPT !.user = mask \cup Always, !.once = once]
  BY DEF NewSock, FreshSock
<1>6. SockOK(S, FALSE, FALSE)
  BY <1>4 DEF SockOK
<1>7. A \in PortState
  BY <1>2 DEF Regrouped
<1>. HIDE DEF S, N, A, g
<1>8. /\ D.socks = [A.socks EXCEPT ![o] = N] /\ D.tree = [A.tree EXCEPT ![s] = o]
      /\ D = [A EXCEPT !.socks = [A.socks EXCEPT ![o] = N], !.tree = [A.tree EXCEPT ![s] = o]]
  BY <1>7 DEF Added, N, A, g, PortState
<1>. HIDE DEF D
<1>9. D.socks[o] = N
  BY <1>7, <1>8 DEF PortState
<1>10. E.socks = [A.socks EXCEPT ![o] = S]
  <2>1. E.socks = [D.socks EXCEPT ![o] = S]
    BY <1>5, <1>7, <1>8, <1>9 DEF PortState
  <2>. DEFINE f == A.socks
  <2>2. f \in [Obj -> SockState \cup {None}]
    BY <1>7 DEF PortState
  <2>. HIDE DEF f, E
  <2>3. [[f EXCEPT ![o] = N] EXCEPT ![o] = S] = [f EXCEPT ![o] = S]
    BY <2>2
  <2>. QED
    BY <1>8, <2>1, <2>3 DEF f
<1>11. /\ E.tree = [P.tree EXCEPT ![s] = o] /\ E.socks = [P.socks EXCEPT ![o] = S]
       /\ E.updq = P.updq /\ E.delq = P.delq /\ E.groups = A.groups /\ E.size = A.size
       /\ E.cancels = P.cancels /\ E.active = P.active /\ E.packets = P.packets
  BY <1>2, <1>7, <1>8, <1>10 DEF Regrouped, PortState
<1>12. E = [A EXCEPT !.socks = [A.socks EXCEPT ![o] = S], !.tree = [A.tree EXCEPT ![s] = o]]
  <2>1. E = [D EXCEPT !.socks = E.socks]
    BY <1>7, <1>8 DEF PortState
  <2>2. E.socks = [A.socks EXCEPT ![o] = S] /\ A \in PortState
    BY <1>7, <1>10
  <2>. HIDE DEF E
  <2>. QED
    BY <1>8, <2>1, <2>2 DEF PortState
<1>13. Q = RequestUpdate(E, o)
  <2>1. (mask \cup Always) \ D.socks[o].pending # {}
    BY <1>5, <1>9 DEF Always
  <2>. QED
    BY <2>1 DEF SetEvent
<1>. HIDE DEF E, Q
<1>14. E \in PortState
  <2>1. [A.socks EXCEPT ![o] = S] \in [Obj -> SockState \cup {None}]
    BY <1>4, <1>7 DEF PortState
  <2>2. [A.tree EXCEPT ![s] = o] \in [Sock -> Obj \cup {None}]
    BY <1>7 DEF PortState
  <2>. QED
    BY <1>7, <1>12, <2>1, <2>2 DEF PortState
<1>15. /\ Q \in PortState /\ IsInjective(Q.updq)
       /\ Members(Q.updq) = Members(E.updq) \cup {o}
       /\ Q.socks = E.socks /\ Q.tree = E.tree /\ Q.delq = E.delq
       /\ Q.groups = E.groups /\ Q.size = E.size /\ Q.cancels = E.cancels
       /\ SameCounters(E, Q)
  <2>1. IsInjective(E.updq) /\ o \notin Members(E.delq)
    BY <1>1, <1>3, <1>11
  <2>. QED
    BY <1>13, <1>14, <2>1, RequestIs
<1>16. GroupQueueOK(Q)
  BY <1>2, <1>11, <1>15 DEF Regrouped, GroupQueueOK
<1>17. Joined(P, Q, s, o, S)
  BY <1>4, <1>6, <1>11, <1>15, <1>16 DEF Joined, SameCounters, A, g
<1>. QED
  BY <1>17 DEF Q, D, S, g
(* The new sock_state fits in.                                             *)
LEMMA AddKeeps ==
  ASSUME NEW P, NEW C, PortOK(P, C), NEW s \in Sock \ Registered(P),
         NEW o \in Obj \ Allocated(P), NEW mask \in SUBSET Events, NEW once \in BOOLEAN
  PROVE  /\ PortOK(SetEvent(Added(P, s, o), o, mask, once), C)
         /\ SameCounters(P, SetEvent(Added(P, s, o), o, mask, once))
<1>. DEFINE g == NextGroup(P)
            S == FreshSock(s, g, mask, once)
            n == Acquire(P).size
            Q == SetEvent(Added(P, s, o), o, mask, once)
<1>1. /\ P \in PortState /\ TreeOK(P) /\ GroupQueueOK(P) /\ CountsOK(P) /\ SocksOK(P, C)
      /\ IsInjective(P.updq) /\ IsInjective(P.delq)
      /\ Members(P.updq) \subseteq Live(P) /\ Members(P.delq) = Deleting(P)
      /\ DeletingOK(P) /\ ServedOK(P)
  BY PortParts
<1>2. /\ S \in SockState /\ Q \in PortState /\ GroupQueueOK(Q)
      /\ SockOK(S, FALSE, FALSE) /\ ~S.deleting
      /\ S.sock = s /\ S.group = g
      /\ Q.socks = [P.socks EXCEPT ![o] = S] /\ Q.tree = [P.tree EXCEPT ![s] = o]
      /\ IsInjective(Q.updq) /\ Members(Q.updq) = Members(P.updq) \cup {o}
      /\ Q.delq = P.delq /\ Q.cancels = P.cancels /\ Q.size = n
      /\ SameCounters(P, Q)
  <2>1. Joined(P, Q, s, o, S)
    BY AddedIs
  <2>. QED
    BY <2>1 DEF Joined
<1>3. /\ g \in DOMAIN n /\ DOMAIN P.size \subseteq DOMAIN n
      /\ n[g] = Cardinality(InGroup(P.socks, g)) + 1
      /\ \A h \in DOMAIN n \ {g} : n[h] = Cardinality(InGroup(P.socks, h))
  BY <1>1, AcquireCounts
<1>. HIDE DEF S, Q, n, g
<1>4. /\ P.socks[o] = None /\ P.socks \in [Obj -> SockState \cup {None}] /\ S # None
      /\ P.tree \in [Sock -> Obj \cup {None}]
  BY <1>1, <1>2, NoneAssumption DEF Allocated, PortState
<1>5. Q.socks[o] = S /\ \A p \in Obj \ {o} : Q.socks[p] = P.socks[p]
  BY <1>2, <1>4
<1>6. /\ Allocated(Q) = Allocated(P) \cup {o} /\ Deleting(Q) = Deleting(P)
      /\ Live(Q) = Live(P) \cup {o}
  <2>1. Allocated(Q) = Allocated(P) \cup {o}
    BY <1>4, <1>5 DEF Allocated
  <2>2. o \notin Allocated(P)
    OBVIOUS
  <2>3. Deleting(Q) = Deleting(P)
    BY <1>2, <1>5, <2>1, <2>2 DEF Deleting, Allocated
  <2>4. o \notin Deleting(P)
    BY <2>2 DEF Deleting
  <2>. QED
    BY <2>1, <2>2, <2>3, <2>4 DEF Live
<1>7. \A p \in Allocated(P) : p # o /\ p \in Obj /\ Q.socks[p] = P.socks[p]
  BY <1>5 DEF Allocated
<1>8. TreeOK(Q)
  <2>. SUFFICES ASSUME NEW r \in Sock, NEW p \in Obj
                PROVE  Q.tree[r] = p <=> (p \in Live(Q) /\ Q.socks[p].sock = r)
    BY DEF TreeOK
  <2>1. Q.tree[r] = IF r = s THEN o ELSE P.tree[r]
    BY <1>2, <1>4
  <2>2. P.tree[s] = None
    BY DEF Registered
  <2>3. None \notin Obj
    BY NoneAssumption
  <2>4. P.tree[r] = p <=> (p \in Live(P) /\ P.socks[p].sock = r)
    BY <1>1 DEF TreeOK
  <2>5. p \in Live(P) => p # o /\ Q.socks[p] = P.socks[p]
    BY <1>7 DEF Live
  <2>6. CASE p = o
    <3>1. p \notin Live(P)
      BY <2>5, <2>6
    <3>2. P.tree[r] # p
      BY <2>4, <3>1
    <3>. QED
      BY <1>2, <1>5, <1>6, <2>1, <2>6, <3>2
  <2>7. CASE p # o
    <3>1. p \in Live(Q) <=> p \in Live(P)
      BY <1>6, <2>7
    <3>2. Q.tree[r] = p <=> (r # s /\ P.tree[r] = p)
      BY <2>1, <2>7
    <3>3. r = s => P.tree[r] # p
      BY <2>2, <2>3
    <3>. QED
      BY <2>4, <2>5, <3>1, <3>2, <3>3
  <2>. QED
    BY <2>6, <2>7
<1>9. UpdqOK(Q) /\ DelqOK(Q)
  BY <1>1, <1>2, <1>6 DEF UpdqOK, DelqOK
<1>10. CountsOK(Q)
  <2>1. ASSUME NEW p \in Allocated(Q) PROVE Q.socks[p].group \in DOMAIN Q.size
    BY <1>1, <1>2, <1>3, <1>5, <1>6, <1>7 DEF CountsOK
  <2>2. InGroup(Q.socks, g) = InGroup(P.socks, g) \cup {o} /\ o \notin InGroup(P.socks, g)
    BY <1>2, <1>4, <1>5 DEF InGroup
  <2>3. IsFiniteSet(InGroup(P.socks, g))
    <3>1. InGroup(P.socks, g) \subseteq Obj
      BY DEF InGroup
    <3>. QED
      BY <3>1, FiniteAssumption, FS_Subset
  <2>4. Cardinality(InGroup(Q.socks, g)) = Cardinality(InGroup(P.socks, g)) + 1
    BY <2>2, <2>3, FS_AddElement
  <2>5. ASSUME NEW h, h # g PROVE InGroup(Q.socks, h) = InGroup(P.socks, h)
    BY <1>2, <1>4, <1>5, <2>5 DEF InGroup
  <2>6. ASSUME NEW h \in DOMAIN Q.size PROVE Q.size[h] = Cardinality(InGroup(Q.socks, h))
    <3>1. CASE h = g
      BY <1>2, <1>3, <2>4, <3>1
    <3>2. CASE h # g
      BY <1>2, <1>3, <2>5, <3>2
    <3>. QED
      BY <3>1, <3>2
  <2>. QED
    BY <2>1, <2>6 DEF CountsOK
<1>11. SocksOK(Q, C)
  <2>1. C \subseteq Allocated(P) /\ P.cancels \subseteq Allocated(P) /\ o \notin Allocated(P)
    BY <1>1 DEF SocksOK
  <2>2. ASSUME NEW p \in Allocated(Q) PROVE SockOK(Q.socks[p], p \in C, p \in Q.cancels)
    <3>1. CASE p = o
      <4>1. o \notin C /\ o \notin Q.cancels
        BY <1>2, <2>1
      <4>. QED
        BY <1>2, <1>5, <3>1, <4>1 DEF SockOK
    <3>2. CASE p # o
      <4>1. p \in Allocated(P)
        BY <1>6, <3>2
      <4>2. SockOK(P.socks[p], p \in C, p \in P.cancels)
        BY <1>1, <4>1 DEF SocksOK
      <4>3. Q.cancels = P.cancels /\ Q.socks[p] = P.socks[p]
        BY <1>2, <1>7, <4>1
      <4>. QED
        BY <4>2, <4>3
    <3>. QED
      BY <3>1, <3>2
  <2>. QED
    BY <1>2, <1>6, <2>1, <2>2 DEF SocksOK
<1>12. DeletingOK(Q)
  <2>1. \A p \in Deleting(P) : p \in Allocated(P)
    BY DEF Deleting
  <2>. QED
    BY <1>1, <1>6, <1>7, <2>1 DEF DeletingOK
<1>13. ServedOK(Q)
  <2>1. \A p \in Live(P) : p \in Allocated(P)
    BY DEF Live
  <2>. QED
    BY <1>1, <1>2, <1>6, <1>7, <2>1 DEF ServedOK
<1>14. PortOK(Q, C)
  BY <1>2, <1>8, <1>9, <1>10, <1>11, <1>12, <1>13 DEF PortOK, Structure
<1>. QED
  BY <1>2, <1>14 DEF Q, S, g
-----------------------------------------------------------------------------
(* port_delete() frees one socket after the other, with its poll or not.   *)
LEMMA ForcesKeep ==
  ASSUME NEW P, Structure(P), NEW q \in Seq(Obj), IsInjective(q),
         Members(q) \subseteq Allocated(P)
  PROVE  LET Q == Each(ForceDelete, P, q)
         IN  /\ Structure(Q) /\ Q.active = P.active
             /\ Allocated(Q) = Allocated(P) \ Members(q)
             /\ Deleting(Q) = Deleting(P) \ Members(q)
             /\ Q.cancels = P.cancels \ Members(q)
<1>. DEFINE L == Len(q)
            Good(m) == {Q \in PortState :
                          /\ Structure(Q) /\ Q.active = P.active
                          /\ Allocated(Q) = Allocated(P) \ Prefix(q, m)
                          /\ Deleting(Q) = Deleting(P) \ Prefix(q, m)
                          /\ Q.cancels = P.cancels \ Prefix(q, m)}
            G == [m \in 0 .. L |-> Good(m)]
            T == Each(ForceDelete, P, q)
<1>1. L \in Nat /\ DOMAIN q = 1 .. L /\ Prefix(q, 0) = {} /\ Prefix(q, L) = Members(q)
  BY SeqIs, PrefixIs
<1>2. P \in G[0]
  <2>1. P \in Good(0)
    BY <1>1 DEF Structure
  <2>. QED
    BY <1>1, <2>1
<1>3. \A m \in 0 .. L - 1 : \A A \in G[m] : ForceDelete(A, q[m + 1]) \in G[m + 1]
  <2>. SUFFICES ASSUME NEW m \in 0 .. L - 1, NEW A \in G[m]
                PROVE  ForceDelete(A, q[m + 1]) \in G[m + 1]
    OBVIOUS
  <2>. DEFINE o == q[m + 1]
              B == Delete(A, o, TRUE, TRUE)
  <2>1. /\ Prefix(q, m + 1) = Prefix(q, m) \cup {o}
        /\ o \in Members(q) \ Prefix(q, m) /\ m + 1 \in 0 .. L /\ m \in 0 .. L
    <3>1. m \in 0 .. Len(q) - 1
      OBVIOUS
    <3>2. /\ Prefix(q, m + 1) = Prefix(q, m) \cup {q[m + 1]}
          /\ q[m + 1] \in Members(q) \ Prefix(q, m)
          /\ m + 1 \in 0 .. Len(q)
      BY <3>1, PrefixIs
    <3>. QED
      BY <1>1, <3>2
  <2>2. /\ Structure(A) /\ A.active = P.active
        /\ Allocated(A) = Allocated(P) \ Prefix(q, m)
        /\ Deleting(A) = Deleting(P) \ Prefix(q, m)
        /\ A.cancels = P.cancels \ Prefix(q, m)
    BY <2>1
  <2>3. o \in Allocated(A)
    BY <2>1, <2>2
  <2>4. /\ A \in PortState /\ GroupQueueOK(A) /\ CountsOK(A)
        /\ IsInjective(A.updq) /\ IsInjective(A.delq)
    BY <2>2 DEF Structure, UpdqOK, DelqOK
  <2>5. A.socks[o].group \in DOMAIN A.size /\ A.size[A.socks[o].group] > 0
    BY <2>3, <2>4, GroupCounts
  <2>6. Freed(A, B, o)
    BY <2>3, <2>4, <2>5, DeleteFrees
  <2>. HIDE DEF B
  <2>7. /\ Structure(B) /\ Allocated(B) = Allocated(A) \ {o}
        /\ Deleting(B) = Deleting(A) \ {o}
    BY <2>2, <2>3, <2>6, FreedIs
  <2>8. B \in PortState /\ B.active = A.active /\ B.cancels = A.cancels \ {o}
    BY <2>6 DEF Freed
  <2>9. B \in Good(m + 1)
    <3>1. /\ Allocated(B) = Allocated(P) \ Prefix(q, m + 1)
          /\ Deleting(B) = Deleting(P) \ Prefix(q, m + 1)
          /\ B.cancels = P.cancels \ Prefix(q, m + 1)
      BY <2>1, <2>2, <2>7, <2>8
    <3>. QED
      BY <2>2, <2>7, <2>8, <3>1
  <2>10. ForceDelete(A, q[m + 1]) = B
    BY DEF ForceDelete, B
  <2>. QED
    BY <2>1, <2>9, <2>10
<1>4. T \in G[L]
  <2>. HIDE DEF G
  <2>. QED
    BY <1>2, <1>3, ForceLoop
<1>. HIDE DEF T
<1>5. /\ Structure(T) /\ T.active = P.active
      /\ Allocated(T) = Allocated(P) \ Members(q)
      /\ Deleting(T) = Deleting(P) \ Members(q)
      /\ T.cancels = P.cancels \ Members(q)
  BY <1>1, <1>4
<1>. QED
  BY <1>5 DEF T

(* A port without sock_states has empty queues and empty groups.           *)
LEMMA EmptyPortIs ==
  ASSUME NEW P, Structure(P), Allocated(P) = {}, P.cancels = {}
  PROVE  /\ P.updq = <<>> /\ P.delq = <<>>
         /\ \A g \in DOMAIN P.size : P.size[g] = 0
         /\ PortOK(P, {})
<1>1. /\ P \in PortState /\ UpdqOK(P) /\ DelqOK(P) /\ CountsOK(P)
      /\ Live(P) = {} /\ Deleting(P) = {}
  BY DEF Structure, Live, Deleting
<1>2. P.updq = <<>> /\ P.delq = <<>>
  <2>1. Members(P.updq) = {} /\ Members(P.delq) = {}
    BY <1>1 DEF UpdqOK, DelqOK
  <2>2. P.updq \in Seq(Obj) /\ P.delq \in Seq(Obj)
    BY <1>1 DEF PortState
  <2>. QED
    BY <2>1, <2>2, EmptyIs
<1>3. ASSUME NEW g \in DOMAIN P.size PROVE P.size[g] = 0
  <2>1. InGroup(P.socks, g) = {}
    BY DEF InGroup, Allocated
  <2>2. Cardinality(InGroup(P.socks, g)) = 0
    BY <2>1, FS_EmptySet
  <2>. QED
    BY <1>1, <2>2 DEF CountsOK
<1>4. SocksOK(P, {}) /\ DeletingOK(P) /\ ServedOK(P)
  BY <1>1 DEF SocksOK, DeletingOK, ServedOK
<1>. QED
  BY <1>2, <1>3, <1>4 DEF PortOK

(* What port_delete() leaves.                                              *)
Emptied(Q) ==
  /\ PortOK(Q, {}) /\ Q.active = 0 /\ Q.packets = <<>>
  /\ Q.updq = <<>> /\ Q.delq = <<>> /\ Allocated(Q) = {}
  /\ \A g \in DOMAIN Q.size : Q.size[g] = 0

(* port_delete() frees the registered sockets, then the deleted ones.      *)
LEMMA PortDeletes ==
  ASSUME NEW P, NEW C, PortOK(P, C), P.active = 0
  PROVE  LET K == Each(ForceDelete, P, SetToSeq({P.tree[s] : s \in Registered(P)}))
             Q == [Each(ForceDelete, K, K.delq) EXCEPT !.packets = <<>>]
         IN  Emptied(Q)
<1>. DEFINE R == {P.tree[s] : s \in Registered(P)}
            l == SetToSeq(R)
            K == Each(ForceDelete, P, l)
            M == Each(ForceDelete, K, K.delq)
            Q == [M EXCEPT !.packets = <<>>]
<1>1. P \in PortState /\ Structure(P) /\ TreeOK(P) /\ P.cancels \subseteq Allocated(P)
  BY PortParts DEF SocksOK
<1>2. R = Live(P)
  <2>1. ASSUME NEW s \in Registered(P) PROVE P.tree[s] \in Live(P)
    <3>1. s \in Sock /\ P.tree[s] \in Obj
      BY <1>1 DEF Registered, PortState
    <3>. QED
      BY <1>1, <3>1 DEF TreeOK
  <2>2. ASSUME NEW o \in Live(P) PROVE \E s \in Registered(P) : P.tree[s] = o
    <3>1. o \in Obj /\ P.socks[o] \in SockState
      BY <1>1, SocksAre
    <3>2. P.socks[o].sock \in Sock
      BY <3>1 DEF SockState
    <3>3. P.tree[P.socks[o].sock] = o
      BY <1>1, <3>1, <3>2 DEF TreeOK
    <3>. QED
      BY <3>1, <3>2, <3>3, NoneAssumption DEF Registered
  <2>. QED
    BY <2>1, <2>2
<1>3. Live(P) \subseteq Allocated(P) /\ Allocated(P) \subseteq Obj
      /\ Allocated(P) \ Live(P) = Deleting(P)
  BY DEF Live, Deleting, Allocated
<1>4. l \in Seq(Obj) /\ IsInjective(l) /\ Members(l) = Live(P)
  <2>. HIDE DEF R
  <2>1. IsFiniteSet(R)
    BY <1>2, <1>3, FiniteAssumption, FS_Subset
  <2>2. l \in Seq(R) /\ IsInjective(l) /\ Members(l) = R
    BY <2>1, SetToSeqIs
  <2>3. l \in Seq(Obj)
    <3>1. R \subseteq Obj
      BY <1>2, <1>3
    <3>. HIDE DEF l
    <3>. QED
      BY <2>2, <3>1
  <2>. QED
    BY <1>2, <2>2, <2>3
<1>. HIDE DEF R, l
<1>5. /\ Structure(K) /\ K.active = P.active
      /\ Allocated(K) = Allocated(P) \ Live(P)
      /\ Deleting(K) = Deleting(P) \ Live(P)
      /\ K.cancels = P.cancels \ Live(P)
  BY <1>1, <1>3, <1>4, ForcesKeep
<1>. HIDE DEF K
<1>6. /\ K.delq \in Seq(Obj) /\ IsInjective(K.delq) /\ Members(K.delq) = Deleting(P)
      /\ Allocated(K) = Deleting(P)
  <2>1. K \in PortState /\ DelqOK(K)
    BY <1>5 DEF Structure
  <2>2. Deleting(P) \ Live(P) = Deleting(P)
    BY DEF Live
  <2>. QED
    BY <1>3, <1>5, <2>1, <2>2 DEF DelqOK, PortState
<1>7. /\ Structure(M) /\ M.active = K.active
      /\ Allocated(M) = Allocated(K) \ Members(K.delq)
      /\ M.cancels = K.cancels \ Members(K.delq)
  BY <1>5, <1>6, ForcesKeep
<1>. HIDE DEF M
<1>8. Allocated(M) = {} /\ M.cancels = {}
  BY <1>1, <1>3, <1>5, <1>6, <1>7
<1>9. /\ M.updq = <<>> /\ M.delq = <<>> /\ \A g \in DOMAIN M.size : M.size[g] = 0
      /\ PortOK(M, {})
  BY <1>7, <1>8, EmptyPortIs
<1>10. /\ Alike(M, Q) /\ Q.active = M.active /\ Q.packets = <<>>
  <2>1. M \in PortState /\ <<>> \in Seq(Obj)
    BY <1>7, EmptySeq DEF Structure
  <2>. QED
    BY <2>1 DEF Alike, PortState
<1>. HIDE DEF Q
<1>11. Emptied(Q)
  <2>1. Q.updq = M.updq /\ Q.delq = M.delq /\ Q.size = M.size /\ Q.socks = M.socks
    BY <1>10 DEF Alike
  <2>2. Allocated(Q) = Allocated(M)
    BY <2>1 DEF Allocated
  <2>3. PortOK(Q, {})
    BY <1>9, <1>10, AlikeKeeps
  <2>. QED
    BY <1>5, <1>7, <1>8, <1>9, <1>10, <2>1, <2>2, <2>3 DEF Emptied
<1>. QED
  BY <1>11, Zenon DEF Q, M, K, l, R
-----------------------------------------------------------------------------
(* Every action keeps the invariant: first what actions have in common.    *)
LEMMA NextInv ==
  ASSUME Types', PortOK(port', Flying'), FlyingOK', ActiveOK', GoneOK'
  PROVE  Inv'
BY DEF Inv

(* The parts of the invariant, and the types they need.                    *)
LEMMA InvParts ==
  ASSUME Inv
  PROVE  /\ Types /\ PortOK(port, Flying) /\ FlyingOK /\ ActiveOK /\ GoneOK
         /\ port \in PortState /\ Structure(port)
         /\ port.updq \in Seq(Obj) /\ port.packets \in Seq(Obj) /\ port.active \in Nat
         /\ errors \in 0 .. MaxErrors /\ MaxErrors \in Nat
<1>1. PICK P : P = port
  OBVIOUS
<1>2. PICK C : C = Flying
  OBVIOUS
<1>3. PortOK(P, C)
  BY <1>1, <1>2 DEF Inv
<1>4. P \in PortState /\ Structure(P)
  BY <1>3, PortParts
<1>5. P.updq \in Seq(Obj) /\ P.packets \in Seq(Obj) /\ P.active \in Nat
  BY <1>4 DEF PortState
<1>. QED
  BY <1>1, <1>4, <1>5, SizesAssumption DEF Inv, Types

(* The same completions are on their way.                                  *)
LEMMA SameFlying ==
  ASSUME Inv, batch' = batch, pc' = pc, port'.packets = port.packets
  PROVE  Flying' = Flying /\ FlyingOK'
BY DEF Inv, FlyingOK, Flying

(* A call of epoll_ctl() that changes the port to one that is in order.    *)
LEMMA CtlOK ==
  ASSUME Inv, Ctl, PortOK(port', Flying), SameCounters(port, port'),
         errors' \in 0 .. MaxErrors,
         port.active > 0 /\ errors' = 0 => port'.updq = <<>>
  PROVE  Inv'
<1>1. /\ cond' = cond /\ pc' = pc /\ batch' = batch /\ gone' = gone /\ ~gone
      /\ ctls < MaxCtls /\ ctls' = ctls + 1
  BY DEF Ctl
<1>2. Types'
  BY <1>1, SizesAssumption DEF Inv, Types
<1>3. port'.active = port.active /\ port'.packets = port.packets
  BY DEF SameCounters
<1>4. Flying' = Flying /\ FlyingOK'
  BY <1>1, <1>3, SameFlying
<1>5. PortOK(port', Flying')
  BY <1>4
<1>6. ActiveOK'
  BY <1>1, <1>3 DEF Inv, ActiveOK
<1>7. GoneOK'
  BY <1>1 DEF GoneOK
<1>. QED
  BY <1>2, <1>4, <1>5, <1>6, <1>7, NextInv

(* A step without a failure was preceded by none.                          *)
LEMMA FailsIs ==
  ASSUME Inv, NEW n \in Nat, Fails(n)
  PROVE  /\ errors' \in 0 .. MaxErrors /\ errors' = errors + n
         /\ errors' = 0 => errors = 0 /\ n = 0
<1>1. errors \in Nat /\ MaxErrors \in Nat
  BY InvParts
<1>. QED
  BY <1>1 DEF Fails

(* A call that fails, leaving the port as it was or in order.              *)
LEMMA CtlFailsOK ==
  ASSUME Inv, Ctl, NEW P, PortOK(P, Flying), SameCounters(port, P), P.updq = port.updq,
         CtlFails(P), NEW n \in Nat, Fails(n)
  PROVE  Inv'
<1>1. port' = P
  BY DEF CtlFails
<1>2. errors' \in 0 .. MaxErrors /\ (errors' = 0 => errors = 0)
  BY FailsIs
<1>3. PortOK(port', Flying) /\ SameCounters(port, port')
  BY <1>1
<1>4. port.active > 0 /\ errors' = 0 => port'.updq = <<>>
  BY <1>1, <1>2 DEF Inv, ActiveOK
<1>. QED
  BY <1>2, <1>3, <1>4, CtlOK

(* A call that ends by updating the queue for the polling threads.         *)
LEMMA CtlUpdatesOK ==
  ASSUME Inv, Ctl, NEW P, PortOK(P, Flying), SameCounters(port, P), CtlUpdates(P)
  PROVE  Inv'
<1>1. PICK fails \in 0 .. 1 : UpdatesIfPolling(P, port', fails) /\ Fails(fails)
  BY DEF CtlUpdates
<1>2. /\ errors' \in 0 .. MaxErrors /\ (errors' = 0 => fails = 0)
  BY <1>1, FailsIs
<1>3. PICK C, Q : C = Flying /\ Q = port'
  OBVIOUS
<1>4. UpdatesIfPolling(P, Q, fails) /\ PortOK(P, C)
  BY <1>1, <1>3
<1>5. /\ PortOK(Q, C) /\ SameCounters(P, Q)
      /\ P.active > 0 /\ fails = 0 => Q.updq = <<>>
  BY <1>4, UpdatesKeep
<1>6. PortOK(port', Flying) /\ SameCounters(port, port')
  BY <1>3, <1>5 DEF SameCounters
<1>7. port.active > 0 /\ errors' = 0 => port'.updq = <<>>
  BY <1>2, <1>3, <1>5 DEF SameCounters
<1>. QED
  BY <1>2, <1>6, <1>7, CtlOK

(* EPOLL_CTL_ADD, whether it succeeds or fails.                            *)
LEMMA CtlAddKeeps ==
  ASSUME Inv, NEW s \in Sock, NEW mask \in Masks, NEW once \in BOOLEAN,
         CtlAdd(s, mask, once)
  PROVE  Inv'
<1>1. PICK P, C : P = port /\ C = Flying
  OBVIOUS
<1>2. PortOK(P, C) /\ Ctl /\ SameCounters(port, P)
  BY <1>1 DEF Inv, CtlAdd, SameCounters
<1>3. mask \in SUBSET Events
  BY MasksAssumption
<1>4. CASE CtlFails(port) /\ \E n \in 0 .. 1 : Fails(n)
  BY <1>1, <1>2, <1>4, CtlFailsOK
<1>5. CASE CtlFails(Release(Acquire(port), NextGroup(port))) /\ Fails(0)
  <2>1. PICK K : K = Release(Acquire(P), NextGroup(P))
    OBVIOUS
  <2>2. PortOK(K, C) /\ SameCounters(P, K) /\ K.updq = P.updq
    BY <1>2, <2>1, BackOutKeeps
  <2>3. PortOK(K, Flying) /\ SameCounters(port, K) /\ K.updq = port.updq /\ CtlFails(K)
    BY <1>1, <1>5, <2>1, <2>2
  <2>. QED
    BY <1>2, <1>5, <2>3, CtlFailsOK
<1>6. CASE /\ s \notin Registered(port)
           /\ \E o \in Obj \ Allocated(port) :
                 CtlUpdates(SetEvent(Added(port, s, o), o, mask, once))
  <2>1. PICK o \in Obj \ Allocated(P) : CtlUpdates(SetEvent(Added(P, s, o), o, mask, once))
    BY <1>1, <1>6
  <2>2. PICK K : K = SetEvent(Added(P, s, o), o, mask, once)
    OBVIOUS
  <2>3. s \in Sock \ Registered(P)
    BY <1>1, <1>6
  <2>4. PortOK(K, C) /\ SameCounters(P, K)
    BY <1>2, <1>3, <2>2, <2>3, AddKeeps
  <2>5. PortOK(K, Flying) /\ SameCounters(port, K) /\ CtlUpdates(K)
    BY <1>1, <2>1, <2>2, <2>4
  <2>. QED
    BY <1>2, <2>5, CtlUpdatesOK
<1>7. \/ CtlFails(port) /\ (Fails(0) \/ Fails(1))
      \/ CtlFails(Release(Acquire(port), NextGroup(port))) /\ Fails(0)
      \/ /\ s \notin Registered(port)
         /\ \E o \in Obj \ Allocated(port) :
               CtlUpdates(SetEvent(Added(port, s, o), o, mask, once))
  BY Zenon DEF CtlAdd, Added
<1>8. Fails(0) \/ Fails(1) => \E n \in 0 .. 1 : Fails(n)
  OBVIOUS
<1>. QED
  BY <1>4, <1>5, <1>6, <1>7, <1>8, Zenon

(* EPOLL_CTL_MOD                                                           *)
LEMMA CtlModKeeps ==
  ASSUME Inv, NEW s \in Sock, NEW mask \in Masks, NEW once \in BOOLEAN,
         CtlMod(s, mask, once)
  PROVE  Inv'
<1>1. PICK P, C : P = port /\ C = Flying
  OBVIOUS
<1>2. PortOK(P, C) /\ Ctl /\ SameCounters(port, P)
  BY <1>1 DEF Inv, CtlMod, SameCounters
<1>3. mask \in SUBSET Events
  BY MasksAssumption
<1>4. CASE s \in Registered(port)
  <2>1. PICK o : o = P.tree[s]
    OBVIOUS
  <2>2. o \in Live(P)
    <3>1. P \in PortState /\ TreeOK(P)
      BY <1>2, PortParts
    <3>2. o \in Obj
      BY <1>1, <1>4, <2>1, <3>1 DEF Registered, PortState
    <3>. QED
      BY <2>1, <3>1, <3>2 DEF TreeOK
  <2>3. PICK K : K = SetEvent(P, o, mask, once)
    OBVIOUS
  <2>4. PortOK(K, C) /\ SameCounters(P, K)
    BY <1>2, <1>3, <2>2, <2>3, SetEventKeeps
  <2>5. PortOK(K, Flying) /\ SameCounters(port, K) /\ CtlUpdates(K)
    BY <1>1, <1>4, <2>1, <2>3, <2>4 DEF CtlMod
  <2>. QED
    BY <1>2, <2>5, CtlUpdatesOK
<1>5. CASE s \notin Registered(port)
  <2>1. CtlFails(P) /\ Fails(0) /\ P.updq = port.updq /\ PortOK(P, Flying)
    BY <1>1, <1>2, <1>5 DEF CtlMod
  <2>. QED
    BY <1>2, <2>1, CtlFailsOK
<1>. QED
  BY <1>4, <1>5

(* EPOLL_CTL_DEL                                                           *)
LEMMA CtlDelKeeps ==
  ASSUME Inv, NEW s \in Sock, CtlDel(s)
  PROVE  Inv'
<1>1. PICK P, C : P = port /\ C = Flying
  OBVIOUS
<1>2. PortOK(P, C) /\ Ctl /\ SameCounters(port, P)
  BY <1>1 DEF Inv, CtlDel, SameCounters
<1>3. CASE s \in Registered(port)
  <2>1. PICK o : o = P.tree[s]
    OBVIOUS
  <2>2. P \in PortState /\ TreeOK(P)
    BY <1>2, PortParts
  <2>3. o \in Live(P)
    <3>1. o \in Obj
      BY <1>1, <1>3, <2>1, <2>2 DEF Registered, PortState
    <3>. QED
      BY <2>1, <2>2, <3>1 DEF TreeOK
  <2>4. \E cancel \in BOOLEAN, n \in 0 .. 1 :
           port' = Delete(port, port.tree[s], FALSE, cancel) /\ Fails(n)
    <3>1. CASE port' = Delete(port, port.tree[s], FALSE, TRUE) /\ Fails(0)
      <4>1. TRUE \in BOOLEAN /\ 0 \in 0 .. 1
        OBVIOUS
      <4>. QED
        BY <3>1, <4>1, Zenon
    <3>2. CASE port' = Delete(port, port.tree[s], FALSE, FALSE) /\ Fails(1)
      <4>1. FALSE \in BOOLEAN /\ 1 \in 0 .. 1
        OBVIOUS
      <4>. QED
        BY <3>2, <4>1, Zenon
    <3>. QED
      BY <1>3, <3>1, <3>2, Zenon DEF CtlDel
  <2>5. PICK cancel \in BOOLEAN, n \in 0 .. 1 :
           port' = Delete(P, o, FALSE, cancel) /\ Fails(n)
    BY <1>1, <2>1, <2>4
  <2>6. PICK K : K = Delete(P, o, FALSE, cancel)
    OBVIOUS
  <2>7. PortOK(K, C) /\ SameCounters(P, K) /\ Members(K.updq) = Members(P.updq) \ {o}
    BY <1>2, <2>3, <2>6, DeleteKeeps
  <2>8. errors' \in 0 .. MaxErrors /\ (errors' = 0 => errors = 0)
    BY <2>5, FailsIs
  <2>9. port.active > 0 /\ errors' = 0 => port'.updq = <<>>
    <3>. SUFFICES ASSUME port.active > 0, errors' = 0 PROVE port'.updq = <<>>
      OBVIOUS
    <3>1. P.updq = <<>>
      BY <1>1, <2>8 DEF Inv, ActiveOK
    <3>2. Members(K.updq) = {}
      <4>1. Members(P.updq) = {}
        BY <3>1 DEF Members
      <4>. QED
        BY <2>7, <4>1
    <3>3. K.updq \in Seq(Obj)
      BY <2>7, PortParts DEF PortState
    <3>. QED
      BY <2>5, <2>6, <3>2, <3>3, EmptyIs
  <2>10. PortOK(port', Flying) /\ SameCounters(port, port')
    BY <1>1, <2>5, <2>6, <2>7
  <2>. QED
    BY <1>2, <2>8, <2>9, <2>10, CtlOK
<1>4. CASE s \notin Registered(port)
  <2>1. CtlFails(P) /\ Fails(0) /\ P.updq = port.updq /\ PortOK(P, Flying)
    BY <1>1, <1>2, <1>4 DEF CtlDel, CtlFails
  <2>. QED
    BY <1>2, <2>1, CtlFailsOK
<1>. QED
  BY <1>3, <1>4
-----------------------------------------------------------------------------
(* The threads: those but t that are in epoll_wait().                      *)
Others(t) == {u \in Thread \ {t} : pc[u] # "out"}

(* They and t are counted in active_poll_count.                            *)
LEMMA OthersAre ==
  ASSUME Inv, NEW t \in Thread
  PROVE  /\ IsFiniteSet(Others(t)) /\ Cardinality(Others(t)) \in Nat
         /\ pc[t] = "out" => port.active = Cardinality(Others(t))
         /\ pc[t] # "out" => port.active = Cardinality(Others(t)) + 1
<1>1. PICK S : S = Others(t)
  OBVIOUS
<1>2. IsFiniteSet(S) /\ t \notin S
  <2>1. S \subseteq Thread /\ t \notin S
    BY <1>1 DEF Others
  <2>. QED
    BY <2>1, FiniteAssumption, FS_Subset
<1>3. Cardinality(S) \in Nat /\ Cardinality(S \cup {t}) = Cardinality(S) + 1
  BY <1>2, FS_CardinalityType, FS_AddElement
<1>4. {u \in Thread : pc[u] # "out"} = IF pc[t] = "out" THEN S ELSE S \cup {t}
  BY <1>1 DEF Others
<1>5. port.active = Cardinality({u \in Thread : pc[u] # "out"})
  BY DEF Inv, ActiveOK
<1>. QED
  BY <1>1, <1>2, <1>3, <1>4, <1>5

(* The thread t is out of epoll_wait(), or in the kernel.                  *)
Settled(t, P, C) ==
  /\ PortOK(port', C) /\ port'.packets = P.packets
  /\ errors' \in 0 .. MaxErrors
  /\ port'.active > 0 /\ errors' = 0 => port'.updq = <<>>
  /\ \/ pc' = [pc EXCEPT ![t] = "out"] /\ port'.active = P.active
     \/ pc' = [pc EXCEPT ![t] = "blocked"] /\ port'.active = P.active + 1

(* The end of port_wait().                                                 *)
LEMMA LeaveSettles ==
  ASSUME Inv, NEW t \in Thread, NEW P, NEW C, PortOK(P, C), NEW reports, NEW fails \in Nat,
         Leave(t, P, reports, fails)
  PROVE  Settled(t, P, C)
<1>1. PICK more \in 0 .. 1 : /\ UpdatesIfPolling(P, port', more) /\ Fails(fails + more)
                             /\ pc' = [pc EXCEPT ![t] = "out"]
  BY DEF Leave
<1>2. fails + more \in Nat
  OBVIOUS
<1>3. errors' \in 0 .. MaxErrors /\ (errors' = 0 => more = 0)
  <2>1. PICK n \in Nat : n = fails + more
    BY <1>2
  <2>2. errors' \in 0 .. MaxErrors /\ (errors' = 0 => n = 0)
    BY <1>1, <2>1, FailsIs
  <2>. QED
    BY <2>1, <2>2
<1>4. PICK Q : Q = port'
  OBVIOUS
<1>5. /\ PortOK(Q, C) /\ SameCounters(P, Q)
      /\ P.active > 0 /\ more = 0 => Q.updq = <<>>
  BY <1>1, <1>4, UpdatesKeep
<1>. QED
  BY <1>1, <1>3, <1>4, <1>5 DEF Settled, SameCounters

(* port__poll(), up to the kernel.                                         *)
LEMMA PollSettles ==
  ASSUME Inv, NEW t \in Thread, NEW P, NEW C, PortOK(P, C), Poll(t, P)
  PROVE  Settled(t, P, C)
<1>1. PICK n \in Updates(P) :
         \/ /\ Failures(P, n) = 0 /\ Fails(0)
            /\ port' = [UpdateTo(P, n) EXCEPT !.active = @ + 1]
            /\ pc' = [pc EXCEPT ![t] = "blocked"]
         \/ Leave(t, UpdateTo(P, n), {}, 1)
  BY Zenon DEF Poll
<1>2. n \in 0 .. Len(P.updq)
  BY PortParts, UpdatesAre
<1>3. PICK U : U = UpdateTo(P, n)
  OBVIOUS
<1>4. /\ PortOK(U, C) /\ SameCounters(P, U)
      /\ Failures(P, n) = 0 => U.updq = <<>>
  BY <1>2, <1>3, UpdateToKeeps
<1>5. CASE /\ Failures(P, n) = 0 /\ Fails(0)
           /\ port' = [UpdateTo(P, n) EXCEPT !.active = @ + 1]
           /\ pc' = [pc EXCEPT ![t] = "blocked"]
  <2>1. PICK Q : Q = port'
    OBVIOUS
  <2>2. U \in PortState
    BY <1>4, PortParts
  <2>3. Q = [U EXCEPT !.active = U.active + 1]
    BY <1>3, <1>5, <2>1
  <2>4. U.active + 1 \in Nat
    BY <2>2 DEF PortState
  <2>5. Alike(U, Q) /\ Q.active = U.active + 1 /\ Q.packets = U.packets
    BY <2>2, <2>3, <2>4 DEF Alike, PortState
  <2>6. PortOK(Q, C) /\ Q.updq = <<>>
    BY <1>4, <1>5, <2>5, AlikeKeeps DEF Alike
  <2>7. errors' \in 0 .. MaxErrors
    BY <1>5, FailsIs
  <2>. QED
    BY <1>4, <1>5, <2>1, <2>5, <2>6, <2>7 DEF Settled, SameCounters
<1>6. CASE Leave(t, UpdateTo(P, n), {}, 1)
  <2>1. Settled(t, U, C)
    BY <1>3, <1>4, <1>6, LeaveSettles
  <2>. QED
    BY <1>4, <2>1 DEF Settled, SameCounters
<1>. QED
  BY <1>1, <1>5, <1>6

(* A step of t that ends so, when P counts the other threads.              *)
LEMMA SettledOK ==
  ASSUME Inv, NEW t \in Thread, NEW P, NEW C, Settled(t, P, C), C = Flying', FlyingOK',
         P.active = Cardinality(Others(t)), ~gone,
         cond' = cond, ctls' = ctls, gone' = gone
  PROVE  Inv'
<1>1. /\ PortOK(port', C) /\ errors' \in 0 .. MaxErrors
      /\ port'.active > 0 /\ errors' = 0 => port'.updq = <<>>
      /\ \/ pc' = [pc EXCEPT ![t] = "out"] /\ port'.active = P.active
         \/ pc' = [pc EXCEPT ![t] = "blocked"] /\ port'.active = P.active + 1
  BY DEF Settled
<1>2. pc \in [Thread -> {"out", "blocked", "feeding"}]
  BY DEF Inv, Types
<1>3. Types'
  BY <1>1, <1>2 DEF Inv, Types
<1>4. port'.active = Cardinality({u \in Thread : pc'[u] # "out"})
  <2>1. PICK S : S = Others(t)
    OBVIOUS
  <2>2. IsFiniteSet(S) /\ t \notin S
    BY <2>1, OthersAre DEF Others
  <2>3. Cardinality(S \cup {t}) = Cardinality(S) + 1
    BY <2>2, FS_AddElement
  <2>4. CASE pc' = [pc EXCEPT ![t] = "out"] /\ port'.active = P.active
    <3>1. {u \in Thread : pc'[u] # "out"} = S
      BY <1>2, <2>1, <2>4 DEF Others
    <3>. QED
      BY <2>1, <2>4, <3>1
  <2>5. CASE pc' = [pc EXCEPT ![t] = "blocked"] /\ port'.active = P.active + 1
    <3>1. {u \in Thread : pc'[u] # "out"} = S \cup {t}
      BY <1>2, <2>1, <2>5 DEF Others
    <3>. QED
      BY <2>1, <2>3, <2>5, <3>1
  <2>. QED
    BY <1>1, <2>4, <2>5
<1>5. ActiveOK'
  BY <1>1, <1>4 DEF ActiveOK
<1>6. GoneOK'
  BY DEF GoneOK
<1>7. PortOK(port', Flying')
  BY <1>1
<1>. QED
  BY <1>3, <1>5, <1>6, <1>7, NextInv

(* epoll_wait() begins.                                                    *)
LEMMA WaitEnterKeeps ==
  ASSUME Inv, NEW t \in Thread, WaitEnter(t)
  PROVE  Inv'
<1>1. PICK P, C : P = port /\ C = Flying
  OBVIOUS
<1>2. PortOK(P, C) /\ Poll(t, P)
  BY <1>1 DEF Inv, WaitEnter
<1>3. Settled(t, P, C)
  BY <1>2, PollSettles
<1>4. /\ pc[t] = "out" /\ ~gone
      /\ batch' = batch /\ cond' = cond /\ ctls' = ctls /\ gone' = gone
  BY DEF WaitEnter
<1>5. C = Flying'
  BY <1>1, <1>3, <1>4 DEF Settled, Flying
<1>6. FlyingOK'
  <2>1. /\ port'.packets = port.packets
        /\ \A u \in Thread : pc'[u] # "feeding" => pc[u] # "feeding"
    BY <1>1, <1>3, <1>4 DEF Settled, Inv, Types
  <2>. QED
    BY <1>4, <2>1 DEF Inv, FlyingOK
<1>7. P.active = Cardinality(Others(t))
  BY <1>1, <1>4, OthersAre
<1>. QED
  BY <1>3, <1>4, <1>5, <1>6, <1>7, SettledOK

(* The port when a thread has come back from the kernel.                   *)
LEMMA BackKeeps ==
  ASSUME NEW P, NEW C, PortOK(P, C), P.active \in Nat \ {0}
  PROVE  LET Q == [P EXCEPT !.active = @ - 1]
         IN  Alike(P, Q) /\ PortOK(Q, C) /\ Q.active = P.active - 1 /\ Q.packets = P.packets
<1>. DEFINE Q == [P EXCEPT !.active = @ - 1]
<1>1. P \in PortState /\ P.active - 1 \in Nat
  BY PortParts
<1>2. Alike(P, Q) /\ Q.active = P.active - 1 /\ Q.packets = P.packets
  BY <1>1 DEF Alike, PortState
<1>. HIDE DEF Q
<1>3. PortOK(Q, C)
  BY <1>2, AlikeKeeps
<1>. QED
  BY <1>2, <1>3 DEF Q

(* It counts the other threads only.                                       *)
LEMMA BackIs ==
  ASSUME Inv, NEW t \in Thread, pc[t] # "out"
  PROVE  \E P, C, K : /\ P = port /\ C = Flying /\ PortOK(P, C)
                      /\ K = [P EXCEPT !.active = @ - 1] /\ Alike(P, K) /\ PortOK(K, C)
                      /\ K.active = Cardinality(Others(t)) /\ K.packets = P.packets
<1>1. PICK P, C : P = port /\ C = Flying
  OBVIOUS
<1>2. PortOK(P, C)
  BY <1>1 DEF Inv
<1>3. PICK K : K = [P EXCEPT !.active = @ - 1]
  OBVIOUS
<1>4. Cardinality(Others(t)) \in Nat /\ P.active = Cardinality(Others(t)) + 1
  BY <1>1, OthersAre
<1>5. P.active \in Nat \ {0} /\ P.active - 1 = Cardinality(Others(t))
  BY <1>4
<1>6. Alike(P, K) /\ PortOK(K, C) /\ K.active = P.active - 1 /\ K.packets = P.packets
  BY <1>2, <1>3, <1>5, BackKeeps
<1>. QED
  BY <1>1, <1>2, <1>3, <1>5, <1>6

(* epoll_wait() times out.                                                 *)
LEMMA TimeOutKeeps ==
  ASSUME Inv, NEW t \in Thread, TimeOut(t)
  PROVE  Inv'
<1>1. /\ pc[t] = "blocked" /\ Leave(t, [port EXCEPT !.active = @ - 1], {}, 0)
      /\ cond' = cond /\ batch' = batch /\ ctls' = ctls /\ gone' = gone
  BY DEF TimeOut
<1>2. PICK P, C, K : /\ P = port /\ C = Flying /\ PortOK(P, C)
                     /\ K = [P EXCEPT !.active = @ - 1] /\ Alike(P, K) /\ PortOK(K, C)
                     /\ K.active = Cardinality(Others(t)) /\ K.packets = P.packets
  BY <1>1, BackIs
<1>3. Leave(t, K, {}, 0)
  BY <1>1, <1>2
<1>4. Settled(t, K, C)
  BY <1>2, <1>3, LeaveSettles
<1>5. ~gone
  BY <1>1 DEF Inv, GoneOK
<1>6. C = Flying'
  BY <1>1, <1>2, <1>4 DEF Settled, Flying
<1>7. FlyingOK'
  <2>1. /\ port'.packets = port.packets
        /\ \A u \in Thread : pc'[u] # "feeding" => pc[u] # "feeding"
    BY <1>1, <1>2, <1>4 DEF Settled, Inv, Types
  <2>. QED
    BY <1>1, <2>1 DEF Inv, FlyingOK
<1>. QED
  BY <1>1, <1>2, <1>4, <1>5, <1>6, <1>7, SettledOK

(* epoll_wait() feeds its batch, and reports what was asked for.           *)
LEMMA FeedEventsKeep ==
  ASSUME Inv, NEW t \in Thread, FeedEvents(t)
  PROVE  /\ Inv'
         /\ \A e \in got' : Asked(port, e)
<1>1. /\ pc[t] = "feeding" /\ batch' = [batch EXCEPT ![t] = <<>>]
      /\ cond' = cond /\ ctls' = ctls /\ gone' = gone
  BY DEF FeedEvents
<1>2. PICK P, C, K : /\ P = port /\ C = Flying /\ PortOK(P, C)
                     /\ K = [P EXCEPT !.active = @ - 1] /\ Alike(P, K) /\ PortOK(K, C)
                     /\ K.active = Cardinality(Others(t)) /\ K.packets = P.packets
  BY <1>1, BackIs
<1>3. PICK q, b : q = batch[t] /\ b = batch
  OBVIOUS
<1>4. PICK A : A = Each(Feed, [port |-> K, got |-> {}], q)
  OBVIOUS
<1>5. Leave(t, A.port, A.got, 0) \/ (A.got = {} /\ Poll(t, A.port))
  BY <1>2, <1>3, <1>4 DEF FeedEvents
<1>6. /\ b \in [Thread -> Seq(Obj)]
      /\ \A u \in Thread :
            /\ IsInjective(b[u]) /\ Len(b[u]) <= MaxEvents
            /\ Members(b[u]) \cap Members(P.packets) = {}
      /\ \A u, v \in Thread : u # v => Members(b[u]) \cap Members(b[v]) = {}
      /\ C = Members(P.packets) \cup UNION {Members(b[u]) : u \in Thread}
  BY <1>2, <1>3 DEF Inv, FlyingOK, Flying
<1>7. q \in Seq(Obj) /\ IsInjective(q) /\ Members(q) \subseteq C /\ q = b[t]
  BY <1>3, <1>6
<1>8. /\ PortOK(A.port, C \ Members(q)) /\ SameCounters(K, A.port)
      /\ \A e \in A.got : Asked(K, e)
  BY <1>2, <1>4, <1>7, FeedsKeep
<1>9. PICK R, g, D : R = A.port /\ g = A.got /\ D = C \ Members(q)
  OBVIOUS
<1>10. Settled(t, R, D)
  BY <1>5, <1>8, <1>9, LeaveSettles, PollSettles
<1>11. ~gone
  BY <1>1 DEF Inv, GoneOK
<1>12. R.active = K.active /\ R.packets = P.packets /\ port'.packets = P.packets
  BY <1>2, <1>8, <1>9, <1>10 DEF SameCounters, Settled
<1>13. Members(<<>>) = {} /\ IsInjective(<<>>) /\ Len(<<>>) = 0 /\ <<>> \in Seq(Obj)
  <2>1. DOMAIN <<>> = {} /\ Len(<<>>) = 0 /\ <<>> \in Seq(Obj)
    BY EmptySeq, LenProperties
  <2>. QED
    BY <2>1 DEF Members, IsInjective
<1>14. PICK c : c = [b EXCEPT ![t] = <<>>]
  OBVIOUS
<1>15. batch' = c /\ c \in [Thread -> Seq(Obj)] /\ c[t] = <<>>
       /\ \A u \in Thread \ {t} : c[u] = b[u]
  BY <1>1, <1>3, <1>6, <1>13, <1>14
<1>16. D = Members(P.packets) \cup UNION {Members(c[u]) : u \in Thread}
  <2>1. ASSUME NEW o \in D
        PROVE  o \in Members(P.packets) \cup UNION {Members(c[u]) : u \in Thread}
    <3>1. o \in C /\ o \notin Members(q)
      BY <1>9
    <3>2. CASE o \in Members(P.packets)
      BY <3>2
    <3>3. CASE o \notin Members(P.packets)
      <4>1. PICK u \in Thread : o \in Members(b[u])
        BY <1>6, <3>1, <3>3
      <4>2. o \in Members(c[u])
        BY <1>7, <1>15, <3>1, <4>1
      <4>. QED
        BY <4>2
    <3>. QED
      BY <3>2, <3>3
  <2>2. ASSUME NEW o \in Members(P.packets) PROVE o \in D
    BY <1>6, <1>7, <1>9
  <2>3. ASSUME NEW u \in Thread, NEW o \in Members(c[u]) PROVE o \in D
    <3>1. u # t /\ o \in Members(b[u])
      BY <1>13, <1>15, <2>3
    <3>2. o \in C /\ o \notin Members(q)
      BY <1>6, <1>7, <3>1
    <3>. QED
      BY <1>9, <3>2
  <2>. QED
    BY <2>1, <2>2, <2>3
<1>17. D = Flying'
  BY <1>12, <1>15, <1>16 DEF Flying
<1>18. FlyingOK'
  <2>1. \A u \in Thread : pc'[u] # "feeding" => c[u] = <<>>
    <3>. SUFFICES ASSUME NEW u \in Thread, pc'[u] # "feeding" PROVE c[u] = <<>>
      OBVIOUS
    <3>1. CASE u = t
      BY <1>15, <3>1
    <3>2. CASE u # t
      <4>1. pc'[u] = pc[u]
        BY <1>10, <3>2 DEF Settled, Inv, Types
      <4>2. b[u] = <<>>
        BY <1>3, <4>1 DEF Inv, FlyingOK
      <4>. QED
        BY <1>15, <3>2, <4>2
    <3>. QED
      BY <3>1, <3>2
  <2>2. ASSUME NEW u \in Thread
        PROVE  /\ IsInjective(c[u]) /\ Len(c[u]) <= MaxEvents
               /\ Members(c[u]) \cap Members(P.packets) = {}
    <3>1. CASE u = t
      BY <1>13, <1>15, <3>1, SizesAssumption
    <3>2. CASE u # t
      BY <1>6, <1>15, <3>2
    <3>. QED
      BY <3>1, <3>2
  <2>3. \A u, v \in Thread : u # v => Members(c[u]) \cap Members(c[v]) = {}
    BY <1>6, <1>13, <1>15
  <2>4. IsInjective(port'.packets)
    BY <1>2, <1>12 DEF Inv, FlyingOK
  <2>. QED
    BY <1>12, <1>15, <2>1, <2>2, <2>3, <2>4 DEF FlyingOK
<1>19. Inv'
  BY <1>1, <1>2, <1>10, <1>11, <1>12, <1>17, <1>18, SettledOK
<1>20. \A e \in got' : Asked(port, e)
  <2>1. got' = A.got \/ got' = {}
    BY <1>5 DEF Leave, Poll
  <2>2. P.tree = K.tree /\ P.socks = K.socks
    BY <1>2 DEF Alike
  <2>. QED
    BY <1>2, <1>8, <2>1, <2>2 DEF Asked, Registered
<1>. QED
  BY <1>19, <1>20
-----------------------------------------------------------------------------
(* GetQueuedCompletionStatusEx() hands a thread the first completions.     *)
LEMMA WakeKeeps ==
  ASSUME Inv, NEW t \in Thread, Wake(t)
  PROVE  Inv'
<1>1. PICK P, C, b : P = port /\ C = Flying /\ b = batch
  OBVIOUS
<1>2. PICK n : n = Least(MaxEvents, Len(P.packets))
  OBVIOUS
<1>3. PICK q, r : q = SubSeq(P.packets, 1, n) /\ r = SubSeq(P.packets, n + 1, Len(P.packets))
  OBVIOUS
<1>4. /\ pc[t] = "blocked" /\ batch' = [b EXCEPT ![t] = q]
      /\ port' = [P EXCEPT !.packets = r] /\ pc' = [pc EXCEPT ![t] = "feeding"]
      /\ cond' = cond /\ ctls' = ctls /\ errors' = errors /\ gone' = gone
  BY <1>1, <1>2, <1>3 DEF Wake
<1>5. /\ PortOK(P, C) /\ P \in PortState /\ P.packets \in Seq(Obj) /\ IsInjective(P.packets)
      /\ b \in [Thread -> Seq(Obj)]
      /\ \A u \in Thread :
            /\ IsInjective(b[u]) /\ Len(b[u]) <= MaxEvents
            /\ Members(b[u]) \cap Members(P.packets) = {}
      /\ \A u, v \in Thread : u # v => Members(b[u]) \cap Members(b[v]) = {}
      /\ C = Members(P.packets) \cup UNION {Members(b[u]) : u \in Thread}
      /\ b[t] = <<>>
  BY <1>1, <1>4, InvParts DEF FlyingOK, Flying
<1>6. n \in 0 .. Len(P.packets) /\ n <= MaxEvents
  <2>1. Len(P.packets) \in Nat /\ MaxEvents \in Nat
    BY <1>5, SeqIs, SizesAssumption
  <2>. QED
    BY <1>2, <2>1 DEF Least
<1>7. /\ q \in Seq(Obj) /\ IsInjective(q) /\ Len(q) = n
      /\ r \in Seq(Obj) /\ IsInjective(r)
      /\ Members(q) \cup Members(r) = Members(P.packets)
      /\ Members(q) \cap Members(r) = {}
  BY <1>3, <1>5, <1>6, CutIs
<1>8. Members(b[t]) = {}
  <2>1. Members(<<>>) = {}
    BY EmptySeq DEF Members
  <2>. QED
    BY <1>5, <2>1
<1>9. PICK c, Q : c = [b EXCEPT ![t] = q] /\ Q = [P EXCEPT !.packets = r]
  OBVIOUS
<1>10. /\ batch' = c /\ c \in [Thread -> Seq(Obj)] /\ c[t] = q
       /\ \A u \in Thread \ {t} : c[u] = b[u]
  BY <1>4, <1>5, <1>7, <1>9
<1>11. port' = Q /\ Q.packets = r /\ Q.active = P.active /\ Q.updq = P.updq /\ Alike(P, Q)
  BY <1>4, <1>5, <1>7, <1>9 DEF Alike, PortState
<1>12. C = Members(r) \cup UNION {Members(c[u]) : u \in Thread}
  <2>1. ASSUME NEW o \in C PROVE o \in Members(r) \cup UNION {Members(c[u]) : u \in Thread}
    <3>1. CASE o \in Members(P.packets)
      BY <1>7, <1>10, <3>1
    <3>2. CASE o \notin Members(P.packets)
      <4>1. PICK u \in Thread : o \in Members(b[u])
        BY <1>5, <3>2
      <4>2. o \in Members(c[u])
        BY <1>8, <1>10, <4>1
      <4>. QED
        BY <4>2
    <3>. QED
      BY <3>1, <3>2
  <2>2. ASSUME NEW o \in Members(r) PROVE o \in C
    BY <1>5, <1>7
  <2>3. ASSUME NEW u \in Thread, NEW o \in Members(c[u]) PROVE o \in C
    BY <1>5, <1>7, <1>10
  <2>. QED
    BY <2>1, <2>2, <2>3
<1>13. C = Flying'
  BY <1>10, <1>11, <1>12 DEF Flying
<1>14. PortOK(port', Flying')
  BY <1>5, <1>11, <1>13, AlikeKeeps
<1>15. pc \in [Thread -> {"out", "blocked", "feeding"}]
  BY DEF Inv, Types
<1>16. FlyingOK'
  <2>1. \A u \in Thread : pc'[u] # "feeding" => c[u] = <<>>
    BY <1>1, <1>4, <1>10, <1>15 DEF Inv, FlyingOK
  <2>2. ASSUME NEW u \in Thread
        PROVE  /\ IsInjective(c[u]) /\ Len(c[u]) <= MaxEvents
               /\ Members(c[u]) \cap Members(r) = {}
    <3>1. CASE u = t
      BY <1>6, <1>7, <1>10, <3>1
    <3>2. CASE u # t
      BY <1>5, <1>7, <1>10, <3>2
    <3>. QED
      BY <3>1, <3>2
  <2>3. ASSUME NEW u \in Thread, NEW v \in Thread, u # v
        PROVE  Members(c[u]) \cap Members(c[v]) = {}
    <3>1. CASE u = t
      BY <1>5, <1>7, <1>10, <2>3, <3>1
    <3>2. CASE u # t
      BY <1>5, <1>7, <1>10, <2>3, <3>2
    <3>. QED
      BY <3>1, <3>2
  <2>. QED
    BY <1>7, <1>10, <1>11, <2>1, <2>2, <2>3 DEF FlyingOK
<1>17. Types'
  BY <1>4, <1>15 DEF Inv, Types
<1>18. ActiveOK'
  <2>1. {u \in Thread : pc'[u] # "out"} = {u \in Thread : pc[u] # "out"}
    BY <1>4, <1>15
  <2>. QED
    BY <1>1, <1>4, <1>11, <2>1 DEF Inv, ActiveOK
<1>19. GoneOK'
  BY <1>4 DEF Inv, GoneOK
<1>. QED
  BY <1>14, <1>16, <1>17, <1>18, <1>19, NextInv

(* port_delete(), when no thread is in the port.                           *)
LEMMA PortDeleteKeeps ==
  ASSUME Inv, PortDelete
  PROVE  Inv'
<1>1. PICK P, C : P = port /\ C = Flying
  OBVIOUS
<1>2. PICK K : K = Each(ForceDelete, P, SetToSeq({P.tree[s] : s \in Registered(P)}))
  OBVIOUS
<1>3. PICK Q : Q = [Each(ForceDelete, K, K.delq) EXCEPT !.packets = <<>>]
  OBVIOUS
<1>4. /\ \A t \in Thread : pc[t] = "out"
      /\ port' = Q
      /\ cond' = cond /\ pc' = pc /\ batch' = batch /\ ctls' = ctls /\ errors' = errors
      /\ gone' = TRUE
  BY <1>1, <1>2, <1>3, Zenon DEF PortDelete
<1>5. PortOK(P, C)
  BY <1>1 DEF Inv
<1>6. {t \in Thread : pc[t] # "out"} = {} /\ Cardinality({}) = 0
  BY <1>4, FS_EmptySet
<1>7. P.active = 0
  BY <1>1, <1>6 DEF Inv, ActiveOK
<1>8. /\ PortOK(Q, {}) /\ Q.active = 0 /\ Q.packets = <<>>
      /\ Q.updq = <<>> /\ Q.delq = <<>> /\ Allocated(Q) = {}
      /\ \A g \in DOMAIN Q.size : Q.size[g] = 0
  <2>1. Emptied(Q)
    BY <1>2, <1>3, <1>5, <1>7, PortDeletes, Zenon
  <2>. QED
    BY <2>1 DEF Emptied
<1>9. Members(<<>>) = {} /\ IsInjective(<<>>)
  BY EmptySeq DEF Members, IsInjective
<1>10. \A t \in Thread : batch'[t] = <<>>
  BY <1>4 DEF Inv, FlyingOK
<1>11. Flying' = {}
  BY <1>4, <1>8, <1>9, <1>10 DEF Flying
<1>12. FlyingOK'
  <2>1. port'.packets = <<>> /\ batch' \in [Thread -> Seq(Obj)]
    BY <1>4, <1>8 DEF Inv, FlyingOK
  <2>2. \A t \in Thread : Len(batch'[t]) <= MaxEvents
    BY <1>4 DEF Inv, FlyingOK
  <2>. QED
    BY <1>9, <1>10, <2>1, <2>2 DEF FlyingOK
<1>13. Types'
  BY <1>4 DEF Inv, Types
<1>14. ActiveOK'
  BY <1>4, <1>6, <1>8 DEF ActiveOK
<1>15. GoneOK'
  BY <1>4, <1>8 DEF GoneOK
<1>16. PortOK(port', Flying')
  BY <1>4, <1>8, <1>11
<1>. QED
  BY <1>12, <1>13, <1>14, <1>15, <1>16, NextInv

(* The driver and the sockets: a step that leaves the threads alone.       *)
LEMMA DriverOK ==
  ASSUME Inv, PortOK(port', Flying'), FlyingOK', ~gone,
         port'.active = port.active, port'.updq = port.updq,
         cond' \in [Sock -> (SUBSET Conditions) \cup {Closed}],
         pc' = pc, ctls' = ctls, gone' = gone,
         errors' \in 0 .. MaxErrors, errors' = 0 => errors = 0
  PROVE  Inv'
<1>1. Types'
  BY DEF Inv, Types
<1>2. ActiveOK'
  BY DEF Inv, ActiveOK
<1>3. GoneOK'
  BY DEF GoneOK
<1>. QED
  BY <1>1, <1>2, <1>3, NextInv

(* A completion is put in the completion port.                             *)
LEMMA CompletionOK ==
  ASSUME Inv, NEW o \in Obj, InDriver(o), ~gone,
         NEW status \in {"SUCCESS", "CANCELLED", "FAILED"}, NEW info \in SUBSET Afd,
         port' = Complete(port, o, status, info),
         NEW n \in Nat, Fails(n),
         cond' = cond, pc' = pc, batch' = batch, ctls' = ctls, gone' = gone
  PROVE  Inv'
<1>1. PICK P, C, Q : P = port /\ C = Flying /\ Q = port'
  OBVIOUS
<1>2. PortOK(P, C) /\ o \in Allocated(P) /\ P.socks[o].status = "PENDING"
  BY <1>1 DEF Inv, InDriver, Allocated
<1>3. Completed(P, Q, C, o)
  <2>1. Q = Complete(P, o, status, info)
    BY <1>1
  <2>. QED
    BY <1>2, <2>1, CompleteKeeps
<1>4. o \notin C
  <2>1. SockOK(P.socks[o], o \in C, o \in P.cancels)
    BY <1>2, PortParts
  <2>. QED
    BY <1>2, <2>1 DEF SockOK
<1>5. /\ PortOK(Q, C \cup {o}) /\ Q.active = P.active /\ Q.updq = P.updq
      /\ Q.packets = Append(P.packets, o)
  BY <1>3 DEF Completed
<1>6. IsInjective(Q.packets) /\ Members(Q.packets) = Members(P.packets) \cup {o}
  <2>1. P.packets \in Seq(Obj) /\ IsInjective(P.packets) /\ o \notin Members(P.packets)
    BY <1>1, <1>4, InvParts DEF FlyingOK, Flying
  <2>. QED
    BY <1>5, <2>1, AppendIs
<1>7. Flying' = C \cup {o}
  BY <1>1, <1>6 DEF Flying
<1>8. FlyingOK'
  <2>1. \A t \in Thread : o \notin Members(batch[t])
    BY <1>1, <1>4 DEF Flying
  <2>2. /\ port'.packets = Q.packets /\ port.packets = P.packets
    BY <1>1
  <2>3. \A t \in Thread : Members(batch[t]) \cap Members(P.packets) = {}
    BY <1>1 DEF Inv, FlyingOK
  <2>4. \A t \in Thread : Members(batch[t]) \cap Members(Q.packets) = {}
    BY <1>6, <2>1, <2>3
  <2>. QED
    BY <1>6, <2>2, <2>4 DEF Inv, FlyingOK
<1>9. PortOK(port', Flying')
  BY <1>1, <1>5, <1>7
<1>10. errors' \in 0 .. MaxErrors /\ (errors' = 0 => errors = 0)
  BY FailsIs
<1>11. port'.active = port.active /\ port'.updq = port.updq
  BY <1>1, <1>5
<1>12. cond' \in [Sock -> (SUBSET Conditions) \cup {Closed}]
  BY DEF Inv, Types
<1>. QED
  BY <1>8, <1>9, <1>10, <1>11, <1>12, DriverOK

(* A poll completes, cancelled or with events.                             *)
LEMMA PollCompletesKeep ==
  ASSUME Inv, NEW o \in Obj, PollCompletes(o)
  PROVE  Inv'
<1>1. PICK now : now = port.socks[o].info \cap cond[port.socks[o].sock]
  OBVIOUS
<1>2. /\ ~gone /\ InDriver(o)
      /\ \/ port' = Complete(port, o, "CANCELLED", {}) /\ Fails(0)
         \/ port' = Complete(port, o, "SUCCESS", now) /\ Fails(0)
      /\ cond' = cond /\ pc' = pc /\ batch' = batch /\ ctls' = ctls /\ gone' = gone
  BY <1>1, Zenon DEF PollCompletes
<1>3. now \in SUBSET Afd /\ {} \in SUBSET Afd
  <2>1. PICK P, C : P = port /\ C = Flying
    OBVIOUS
  <2>2. PortOK(P, C) /\ o \in Allocated(P)
    BY <1>2, <2>1 DEF Inv, InDriver, Allocated
  <2>3. P.socks[o] \in SockState
    BY <2>2, PortParts
  <2>4. P.socks[o].info \in SUBSET Afd
    BY <2>3 DEF SockState
  <2>. QED
    BY <1>1, <2>1, <2>4
<1>4. CASE port' = Complete(port, o, "CANCELLED", {}) /\ Fails(0)
  BY <1>2, <1>3, <1>4, CompletionOK
<1>5. CASE port' = Complete(port, o, "SUCCESS", now) /\ Fails(0)
  BY <1>2, <1>3, <1>5, CompletionOK
<1>. QED
  BY <1>2, <1>4, <1>5

(* A poll completes with an error.                                         *)
LEMMA PollFailsKeep ==
  ASSUME Inv, NEW o \in Obj, PollFails(o)
  PROVE  Inv'
<1>1. /\ ~gone /\ InDriver(o) /\ port' = Complete(port, o, "FAILED", {}) /\ Fails(1)
      /\ cond' = cond /\ pc' = pc /\ batch' = batch /\ ctls' = ctls /\ gone' = gone
  BY DEF PollFails
<1>2. {} \in SUBSET Afd
  OBVIOUS
<1>. QED
  BY <1>1, <1>2, CompletionOK

(* The program closes a socket.                                            *)
LEMMA CloseSocketKeeps ==
  ASSUME Inv, NEW s \in Sock, CloseSocket(s)
  PROVE  Inv'
<1>1. PICK P, C : P = port /\ C = Flying
  OBVIOUS
<1>2. PICK polls : polls = {o \in Obj \ port.cancels : InDriver(o) /\ port.socks[o].sock = s}
  OBVIOUS
<1>3. PICK q : q = SetToSeq(polls)
  OBVIOUS
<1>4. /\ ~gone /\ cond' = [cond EXCEPT ![s] = Closed] /\ port' = Each(Close, P, q)
      /\ pc' = pc /\ batch' = batch /\ ctls' = ctls /\ errors' = errors /\ gone' = gone
  BY <1>1, <1>2, <1>3, Zenon DEF CloseSocket
<1>5. \A o \in polls : o \in Allocated(P) /\ P.socks[o].status = "PENDING"
  BY <1>1, <1>2 DEF InDriver, Allocated
<1>6. q \in Seq(Obj) /\ IsInjective(q) /\ Members(q) = polls
  <2>1. IsFiniteSet(polls) /\ polls \subseteq Obj
    BY <1>2, FiniteAssumption, FS_Subset
  <2>2. q \in Seq(polls) /\ IsInjective(q) /\ Members(q) = polls
    BY <1>3, <2>1, SetToSeqIs
  <2>. QED
    BY <2>1, <2>2
<1>7. /\ PortOK(P, C) /\ IsInjective(P.packets) /\ Members(P.packets) \subseteq C
  BY <1>1 DEF Inv, FlyingOK, Flying
<1>8. PICK Q : Q = Each(Close, P, q)
  OBVIOUS
<1>9. /\ PortOK(Q, C \cup polls) /\ Q.active = P.active /\ Q.updq = P.updq
      /\ IsInjective(Q.packets) /\ Members(Q.packets) = Members(P.packets) \cup polls
  BY <1>5, <1>6, <1>7, <1>8, ClosesKeep
<1>10. polls \cap C = {}
  <2>1. ASSUME NEW o \in polls PROVE o \notin C
    <3>1. SockOK(P.socks[o], o \in C, o \in P.cancels) /\ P.socks[o].status = "PENDING"
      BY <1>5, <1>7, PortParts
    <3>. QED
      BY <3>1 DEF SockOK
  <2>. QED
    BY <2>1
<1>11. Flying' = C \cup polls
  BY <1>1, <1>4, <1>8, <1>9 DEF Flying
<1>12. FlyingOK'
  <2>1. \A t \in Thread : Members(batch[t]) \cap polls = {}
    BY <1>1, <1>10 DEF Flying
  <2>2. port'.packets = Q.packets
    BY <1>4, <1>8
  <2>3. \A t \in Thread : Members(batch[t]) \cap Members(P.packets) = {}
    BY <1>1 DEF Inv, FlyingOK
  <2>4. \A t \in Thread : Members(batch[t]) \cap Members(Q.packets) = {}
    BY <1>9, <2>1, <2>3
  <2>. QED
    BY <1>4, <1>9, <2>2, <2>4 DEF Inv, FlyingOK
<1>13. PortOK(port', Flying')
  BY <1>4, <1>8, <1>9, <1>11
<1>14. port'.active = port.active /\ port'.updq = port.updq
  BY <1>1, <1>4, <1>8, <1>9
<1>15. cond' \in [Sock -> (SUBSET Conditions) \cup {Closed}]
  BY <1>4 DEF Inv, Types
<1>16. errors' \in 0 .. MaxErrors /\ (errors' = 0 => errors = 0)
  BY <1>4 DEF Inv, Types
<1>. QED
  BY <1>4, <1>12, <1>13, <1>14, <1>15, <1>16, DriverOK

(* The state of a socket changes, or one is opened under a closed name.    *)
LEMMA SocketKeeps ==
  ASSUME Inv, NEW s \in Sock, OpenSocket(s) \/ \E c \in SUBSET Conditions : Changes(s, c)
  PROVE  Inv'
<1>1. PICK c \in SUBSET Conditions : cond' = [cond EXCEPT ![s] = c]
  BY DEF OpenSocket, Changes
<1>2. /\ ~gone /\ port' = port /\ pc' = pc /\ batch' = batch
      /\ ctls' = ctls /\ errors' = errors /\ gone' = gone
  BY DEF OpenSocket, Changes
<1>3. Flying' = Flying /\ FlyingOK'
  BY <1>2, SameFlying
<1>4. PortOK(port', Flying')
  BY <1>2, <1>3 DEF Inv
<1>5. cond' \in [Sock -> (SUBSET Conditions) \cup {Closed}]
  BY <1>1 DEF Inv, Types
<1>6. errors' \in 0 .. MaxErrors /\ (errors' = 0 => errors = 0)
  BY <1>2 DEF Inv, Types
<1>. QED
  BY <1>2, <1>3, <1>4, <1>5, <1>6, DriverOK
-----------------------------------------------------------------------------
(* The invariant holds of every behaviour.                                 *)
LEMMA InitInv == Init => Inv
<1>. SUFFICES ASSUME Init PROVE Inv
  OBVIOUS
<1>1. PICK P : P = EmptyPort
  OBVIOUS
<1>2. Members(<<>>) = {} /\ IsInjective(<<>>) /\ Len(<<>>) = 0 /\ DOMAIN <<>> = {}
      /\ <<>> \in Seq(Obj) /\ <<>> \in Seq(Nat)
  <2>1. DOMAIN <<>> = {} /\ Len(<<>>) = 0 /\ <<>> \in Seq(Obj) /\ <<>> \in Seq(Nat)
    BY EmptySeq, LenProperties
  <2>. QED
    BY <2>1 DEF Members, IsInjective
<1>3. /\ P \in PortState /\ P.updq = <<>> /\ P.delq = <<>> /\ P.packets = <<>>
      /\ P.size = <<>> /\ P.groups = <<>> /\ P.active = 0 /\ P.cancels = {}
      /\ \A s \in Sock : P.tree[s] = None
      /\ \A o \in Obj : P.socks[o] = None
  BY <1>1, <1>2 DEF EmptyPort, PortState
<1>4. Allocated(P) = {} /\ Live(P) = {} /\ Deleting(P) = {}
  BY <1>3 DEF Allocated, Live, Deleting
<1>5. TreeOK(P) /\ UpdqOK(P) /\ DelqOK(P) /\ CountsOK(P)
  BY <1>2, <1>3, <1>4, NoneAssumption DEF TreeOK, UpdqOK, DelqOK, CountsOK
<1>6. GroupQueueOK(P)
  <2>1. DOMAIN P.size = {} /\ 1 .. Len(P.groups) = {} /\ DOMAIN P.groups = {}
    BY <1>2, <1>3
  <2>. QED
    BY <1>2, <1>3, <2>1 DEF GroupQueueOK, FullFirst
<1>7. PortOK(P, {})
  BY <1>3, <1>4, <1>5, <1>6 DEF PortOK, Structure, SocksOK, DeletingOK, ServedOK
<1>8. \A t \in Thread : batch[t] = <<>>
  BY DEF Init
<1>9. Flying = {}
  BY <1>1, <1>2, <1>3, <1>8 DEF Init, Flying
<1>10. FlyingOK
  <2>1. batch \in [Thread -> Seq(Obj)] /\ port.packets = <<>>
    BY <1>1, <1>2, <1>3 DEF Init
  <2>. QED
    BY <1>2, <1>8, <2>1, SizesAssumption DEF FlyingOK
<1>11. Types
  <2>1. cond \in [Sock -> (SUBSET Conditions) \cup {Closed}]
    <3>1. {} \in (SUBSET Conditions) \cup {Closed}
      OBVIOUS
    <3>. QED
      BY <3>1 DEF Init
  <2>2. pc \in [Thread -> {"out", "blocked", "feeding"}] /\ gone \in BOOLEAN
    BY DEF Init
  <2>3. ctls \in 0 .. MaxCtls /\ errors \in 0 .. MaxErrors
    BY SizesAssumption DEF Init
  <2>. QED
    BY <2>1, <2>2, <2>3, Zenon DEF Types
<1>12. ActiveOK
  <2>1. {t \in Thread : pc[t] # "out"} = {} /\ Cardinality({}) = 0
    BY FS_EmptySet DEF Init
  <2>. QED
    BY <1>1, <1>3, <2>1 DEF Init, ActiveOK
<1>13. GoneOK
  BY DEF Init, GoneOK
<1>14. PortOK(port, Flying)
  BY <1>1, <1>7, <1>9 DEF Init
<1>. QED
  BY <1>10, <1>11, <1>12, <1>13, <1>14 DEF Inv

(* The steps of the program.                                               *)
LEMMA ProgramKeeps ==
  ASSUME Inv, Program
  PROVE  Inv'
<1>1. PICK s \in Sock :
         \/ \E mask \in Masks, once \in BOOLEAN : CtlAdd(s, mask, once) \/ CtlMod(s, mask, once)
         \/ CtlDel(s) \/ CloseSocket(s)
         \/ OpenSocket(s) \/ \E c \in SUBSET Conditions : Changes(s, c)
  BY Zenon DEF Program
<1>2. CASE \E mask \in Masks, once \in BOOLEAN : CtlAdd(s, mask, once) \/ CtlMod(s, mask, once)
  <2>1. PICK mask \in Masks, once \in BOOLEAN : CtlAdd(s, mask, once) \/ CtlMod(s, mask, once)
    BY <1>2
  <2>. QED
    BY <2>1, CtlAddKeeps, CtlModKeeps
<1>. QED
  BY <1>1, <1>2, CtlDelKeeps, CloseSocketKeeps, SocketKeeps

(* Every step.                                                             *)
LEMMA StepKeeps == Inv /\ [Next]_vars => Inv'
<1>. SUFFICES ASSUME Inv, [Next]_vars PROVE Inv'
  OBVIOUS
<1>1. ASSUME NEW t \in Thread, WaitEnter(t) \/ Wake(t) \/ TimeOut(t) \/ FeedEvents(t)
      PROVE  Inv'
  BY <1>1, WaitEnterKeeps, WakeKeeps, TimeOutKeeps, FeedEventsKeep
<1>2. ASSUME NEW o \in Obj, PollCompletes(o) \/ PollFails(o) PROVE Inv'
  BY <1>2, PollCompletesKeep, PollFailsKeep
<1>3. CASE UNCHANGED vars
  <2>1. /\ port' = port /\ cond' = cond /\ pc' = pc /\ batch' = batch
        /\ ctls' = ctls /\ errors' = errors /\ gone' = gone
    BY <1>3 DEF vars
  <2>2. Flying' = Flying /\ FlyingOK'
    BY <2>1, SameFlying
  <2>3. PortOK(port', Flying')
    BY <2>1, <2>2 DEF Inv
  <2>. QED
    BY <2>1, <2>2, <2>3, NextInv DEF Inv, Types, ActiveOK, GoneOK
<1>. QED
  BY <1>1, <1>2, <1>3, ProgramKeeps, PortDeleteKeeps DEF Next

(* So the invariant always holds.                                          *)
LEMMA PortInvariant == Spec => []Inv
  BY InitInv, StepKeeps, PTL DEF Spec
-----------------------------------------------------------------------------
(* The state of the port has its types: every sock_state in memory is in a *)
(* poll group that exists, and active_poll_count counts no more threads    *)
(* than there are (port_state_t, wepoll.c:1054).                           *)
THEOREM PortTypes == Spec => []TypeOK
<1>1. Inv => TypeOK
  <2>. SUFFICES ASSUME Inv PROVE TypeOK
    OBVIOUS
  <2>1. PICK P, C : P = port /\ C = Flying
    OBVIOUS
  <2>2. PortOK(P, C)
    BY <2>1 DEF Inv
  <2>3. P \in PortState /\ GroupQueueOK(P) /\ CountsOK(P)
    BY <2>2, PortParts
  <2>4. /\ DOMAIN P.socks = Obj /\ P.tree \in [Sock -> Obj \cup {None}]
        /\ DOMAIN P.size = 1 .. Len(P.groups)
    BY <2>3 DEF PortState, GroupQueueOK
  <2>5. \A o \in Allocated(P) : P.socks[o] \in SockState /\ P.socks[o].group \in DOMAIN P.size
    BY <2>2, <2>3, PortParts DEF CountsOK
  <2>6. P.active \in 0 .. Cardinality(Thread)
    <3>. DEFINE S == {t \in Thread : pc[t] # "out"}
    <3>1. P.active = Cardinality(S)
      BY <2>1 DEF Inv, ActiveOK
    <3>2. PICK K : K = S
      OBVIOUS
    <3>3. K \subseteq Thread
      BY <3>2
    <3>4. Cardinality(K) <= Cardinality(Thread) /\ Cardinality(K) \in Nat
          /\ Cardinality(Thread) \in Nat
      BY <3>3, FiniteAssumption, FS_Subset, FS_CardinalityType
    <3>. QED
      BY <3>1, <3>2, <3>4
  <2>. QED
    BY <2>1, <2>4, <2>5, <2>6 DEF Inv, Types, TypeOK
<1>. QED
  BY <1>1, PortInvariant, PTL

(* The tree holds exactly the live sockets, the update queue only live     *)
(* ones, the deleted queue exactly those that wait for their poll          *)
(* (sock__delete(), wepoll.c:1677-1700).                                   *)
THEOREM QueuesAgree == Spec => []QueuesOK
<1>1. Inv /\ TypeOK => QueuesOK
  <2>. SUFFICES ASSUME Inv, TypeOK PROVE QueuesOK
    OBVIOUS
  <2>1. PICK P, C : P = port /\ C = Flying
    OBVIOUS
  <2>2. PortOK(P, C)
    BY <2>1 DEF Inv
  <2>3. /\ P \in PortState /\ TreeOK(P) /\ DeletingOK(P)
        /\ Members(P.updq) \subseteq Live(P) /\ IsInjective(P.updq)
        /\ Members(P.delq) = Deleting(P) /\ IsInjective(P.delq)
    BY <2>2, PortParts
  <2>4. ASSUME NEW s \in Registered(P)
        PROVE  P.tree[s] \in Live(P) /\ P.socks[P.tree[s]].sock = s
    <3>1. s \in Sock /\ P.tree[s] \in Obj
      BY <2>3 DEF Registered, PortState
    <3>. QED
      BY <2>3, <3>1 DEF TreeOK
  <2>5. ASSUME NEW o \in Live(P)
        PROVE  P.socks[o].sock \in Registered(P) /\ P.tree[P.socks[o].sock] = o
    <3>1. o \in Obj /\ P.socks[o] \in SockState
      BY <2>3, SocksAre
    <3>2. P.socks[o].sock \in Sock
      BY <3>1 DEF SockState
    <3>3. P.tree[P.socks[o].sock] = o
      BY <2>3, <3>1, <3>2 DEF TreeOK
    <3>. QED
      BY <3>1, <3>2, <3>3, NoneAssumption DEF Registered
  <2>6. \A o \in Deleting(P) : P.socks[o].poll # "IDLE"
    BY <2>3 DEF DeletingOK
  <2>. QED
    BY <2>1, <2>3, <2>4, <2>5, <2>6 DEF QueuesOK
<1>2. Spec => []TypeOK
  BY PortTypes
<1>. QED
  BY <1>1, <1>2, PortInvariant, PTL

(* How often a socket is in a queue that holds none twice.                 *)
LEMMA OnceIn ==
  ASSUME NEW q \in Seq(Obj), IsInjective(q), NEW o
  PROVE  Cardinality({i \in DOMAIN q : q[i] = o}) = IF o \in Members(q) THEN 1 ELSE 0
<1>. DEFINE S == {i \in DOMAIN q : q[i] = o}
<1>1. CASE o \in Members(q)
  <2>1. PICK i \in DOMAIN q : q[i] = o
    BY <1>1 DEF Members
  <2>2. S = {i}
    BY <2>1 DEF IsInjective
  <2>. QED
    BY <1>1, <2>2, FS_Singleton
<1>2. CASE o \notin Members(q)
  <2>1. S = {}
    BY <1>2 DEF Members
  <2>. QED
    BY <1>2, <2>1, FS_EmptySet
<1>. QED
  BY <1>1, <1>2

(* The completions counted for a socket are the one on its way.            *)
LEMMA CompletionsAre ==
  ASSUME Inv, NEW o
  PROVE  Completions(o) = IF o \in Flying THEN 1 ELSE 0
<1>1. PICK q, b : q = port.packets /\ b = batch
  OBVIOUS
<1>. DEFINE S == {i \in DOMAIN q : q[i] = o}
            B == {e \in Thread \X (1 .. MaxEvents) : e[2] \in DOMAIN b[e[1]] /\ b[e[1]][e[2]] = o}
<1>2. /\ q \in Seq(Obj) /\ IsInjective(q) /\ b \in [Thread -> Seq(Obj)]
      /\ \A t \in Thread : /\ IsInjective(b[t]) /\ Len(b[t]) <= MaxEvents
                           /\ Members(b[t]) \cap Members(q) = {}
      /\ \A t, u \in Thread : t # u => Members(b[t]) \cap Members(b[u]) = {}
      /\ Flying = Members(q) \cup UNION {Members(b[t]) : t \in Thread}
  BY <1>1, InvParts DEF FlyingOK, Flying
<1>3. Completions(o) = Cardinality(S) + Cardinality(B)
  BY <1>1 DEF Completions
<1>4. Cardinality(S) = IF o \in Members(q) THEN 1 ELSE 0
  BY <1>2, OnceIn
<1>5. \A t \in Thread : b[t] \in Seq(Obj) /\ DOMAIN b[t] = 1 .. Len(b[t]) /\ Len(b[t]) \in Nat
  BY <1>2, SeqIs
<1>6. CASE \E t \in Thread : o \in Members(b[t])
  <2>1. PICK t \in Thread : o \in Members(b[t])
    BY <1>6
  <2>2. PICK i \in DOMAIN b[t] : b[t][i] = o
    BY <2>1 DEF Members
  <2>3. i \in 1 .. MaxEvents
    BY <1>2, <1>5, <2>2, SizesAssumption
  <2>4. \A e \in B : e = <<t, i>>
    <3>. SUFFICES ASSUME NEW e \in B PROVE e = <<t, i>>
      OBVIOUS
    <3>1. PICK u \in Thread, j \in 1 .. MaxEvents : e = <<u, j>>
      OBVIOUS
    <3>2. j \in DOMAIN b[u] /\ b[u][j] = o
      BY <3>1
    <3>3. o \in Members(b[u])
      BY <3>2 DEF Members
    <3>4. u = t
      BY <1>2, <2>1, <3>3
    <3>5. j = i
      BY <1>2, <2>2, <3>2, <3>4 DEF IsInjective
    <3>. QED
      BY <3>1, <3>4, <3>5
  <2>5. <<t, i>> \in B
    BY <2>2, <2>3
  <2>6. B = {<<t, i>>}
    BY <2>4, <2>5
  <2>7. Cardinality(B) = 1
    BY <2>6, FS_Singleton
  <2>8. o \notin Members(q) /\ o \in Flying
    BY <1>2, <2>1
  <2>. QED
    BY <1>3, <1>4, <2>7, <2>8
<1>7. CASE ~\E t \in Thread : o \in Members(b[t])
  <2>1. B = {}
    BY <1>7 DEF Members
  <2>2. Cardinality(B) = 0
    BY <2>1, FS_EmptySet
  <2>3. o \in Flying <=> o \in Members(q)
    BY <1>2, <1>7
  <2>. QED
    BY <1>3, <1>4, <2>2, <2>3
<1>. QED
  BY <1>6, <1>7

(* A sock_state is in the driver or has one completion under way exactly   *)
(* when poll_status says so, and no completion comes for one that was      *)
(* freed (sock_update(), sock_feed_event(), wepoll.c:1773-1888).           *)
THEOREM PollsAccounted == Spec => []PollsOK
<1>1. Inv => PollsOK
  <2>. SUFFICES ASSUME Inv PROVE PollsOK
    OBVIOUS
  <2>1. PICK P, C : P = port /\ C = Flying
    OBVIOUS
  <2>2. PortOK(P, C)
    BY <2>1 DEF Inv
  <2>3. ASSUME NEW o \in Allocated(P)
        PROVE  (IF InDriver(o) THEN 1 ELSE 0) + Completions(o)
                  = (IF P.socks[o].poll = "IDLE" THEN 0 ELSE 1)
    <3>1. SockOK(P.socks[o], o \in C, o \in P.cancels)
      BY <2>2, PortParts
    <3>2. InDriver(o) <=> P.socks[o].status = "PENDING"
      BY <2>1 DEF InDriver, Allocated
    <3>3. Completions(o) = IF o \in C THEN 1 ELSE 0
      BY <2>1, CompletionsAre
    <3>4. /\ P.socks[o].poll = "IDLE" <=> (P.socks[o].status # "PENDING" /\ o \notin C)
          /\ ~(P.socks[o].status = "PENDING" /\ o \in C)
      BY <3>1 DEF SockOK
    <3>5. CASE o \in C
      BY <3>2, <3>3, <3>4, <3>5
    <3>6. CASE o \notin C
      BY <3>2, <3>3, <3>4, <3>6
    <3>. QED
      BY <3>5, <3>6
  <2>4. ASSUME NEW o \in Obj \ Allocated(P) PROVE Completions(o) = 0
    <3>1. o \notin C
      BY <2>2, PortParts DEF SocksOK
    <3>. QED
      BY <2>1, <3>1, CompletionsAre
  <2>. QED
    BY <2>1, <2>3, <2>4 DEF PollsOK
<1>. QED
  BY <1>1, PortInvariant, PTL

(* No interest is lost: the poll of a live socket watches what its user    *)
(* asked for, is being cancelled, or the socket is queued, which it is     *)
(* while a thread polls only if Windows failed a call (sock_set_event(),   *)
(* port__update_events_if_polling(), wepoll.c:1187-1190, 1714-1729).       *)
THEOREM InterestKept == Spec => []NoLostInterest
<1>1. Inv => NoLostInterest
  <2>. SUFFICES ASSUME Inv PROVE NoLostInterest
    OBVIOUS
  <2>1. PICK P, C : P = port /\ C = Flying
    OBVIOUS
  <2>2. PortOK(P, C)
    BY <2>1 DEF Inv
  <2>3. \A o \in Live(P) \ Members(P.updq) : Served(P.socks[o])
    BY <2>2, PortParts DEF ServedOK
  <2>. QED
    BY <2>1, <2>3 DEF NoLostInterest, Served, Watched, Inv, ActiveOK
<1>. QED
  BY <1>1, PortInvariant, PTL

(* A poll in the driver completes for exactly the events that come out as  *)
(* an epoll event it is there for: the two conversions between AFD and     *)
(* epoll events agree on every mask (wepoll.c:1731-1771).                  *)
THEOREM PollsAreExact == Spec => []PollsExact
<1>1. Inv => PollsExact
  <2>. SUFFICES ASSUME Inv PROVE PollsExact
    OBVIOUS
  <2>1. PICK P, C : P = port /\ C = Flying
    OBVIOUS
  <2>2. PortOK(P, C)
    BY <2>1 DEF Inv
  <2>. SUFFICES ASSUME NEW o \in Live(P), InDriver(o), P.socks[o].poll = "PENDING"
                PROVE  P.socks[o].info \ Closed =
                         {a \in DOMAIN ReportsAs : ReportsAs[a] \cap P.socks[o].pending # {}}
    BY <2>1 DEF PollsExact
  <2>3. SockOK(P.socks[o], o \in C, o \in P.cancels) /\ P.socks[o].status = "PENDING"
    BY <2>1, <2>2, PortParts DEF InDriver
  <2>4. PICK E : E = P.socks[o].pending
    OBVIOUS
  <2>5. P.socks[o].info = AfdEvents(E) /\ (E = {} \/ Always \subseteq E)
    BY <2>3, <2>4 DEF SockOK
  <2>6. DOMAIN ReportsAs = DOMAIN AsksFor /\ "LOCAL_CLOSE" \notin DOMAIN AsksFor
    BY DEF ReportsAs, AsksFor
  <2>7. AfdEvents(E) \ Closed = {a \in DOMAIN AsksFor : AsksFor[a] \cap E # {}}
    BY <2>6 DEF AfdEvents, Closed
  <2>8. ASSUME NEW a \in DOMAIN AsksFor
        PROVE  AsksFor[a] \cap E # {} <=> ReportsAs[a] \cap E # {}
    <3>1. CASE a = "CONNECT_FAIL"
      <4>1. "ERR" \in AsksFor[a] /\ "ERR" \in ReportsAs[a] /\ "ERR" \in Always
        BY <3>1 DEF AsksFor, ReportsAs, Always
      <4>. QED
        BY <2>5, <4>1
    <3>2. CASE a # "CONNECT_FAIL"
      BY <3>2 DEF ReportsAs
    <3>. QED
      BY <3>1, <3>2
  <2>. QED
    BY <2>4, <2>5, <2>6, <2>7, <2>8
<1>. QED
  BY <1>1, PortInvariant, PTL

(* Every poll group counts its sockets and is never over full, and groups  *)
(* with room come last (poll_group_acquire(), wepoll.c:995-1025).          *)
THEOREM GroupsCount == Spec => []GroupsOK
<1>1. Inv => GroupsOK
  <2>. SUFFICES ASSUME Inv PROVE GroupsOK
    OBVIOUS
  <2>1. PICK P, C : P = port /\ C = Flying
    OBVIOUS
  <2>2. PortOK(P, C)
    BY <2>1 DEF Inv
  <2>3. GroupQueueOK(P) /\ CountsOK(P)
    BY <2>2, PortParts
  <2>4. \A g : InGroup(P.socks, g) = {o \in Allocated(P) : P.socks[o].group = g}
    BY DEF InGroup, Allocated
  <2>5. ASSUME NEW g \in DOMAIN P.size
        PROVE  /\ P.size[g] = Cardinality({o \in Allocated(P) : P.socks[o].group = g})
               /\ P.size[g] <= GroupSize
    BY <2>3, <2>4 DEF GroupQueueOK, CountsOK
  <2>6. FullFirst(P.groups, P.size)
    BY <2>3 DEF GroupQueueOK
  <2>. QED
    BY <2>1, <2>5, <2>6, Zenon DEF GroupsOK, FullFirst
<1>. QED
  BY <1>1, PortInvariant, PTL

(* port_delete() frees all, and what it asserts of the queues and groups   *)
(* holds (wepoll.c:1138-1167).                                             *)
THEOREM DeletesAll == Spec => []DeleteAsserts
<1>1. Inv => DeleteAsserts
  BY DEF Inv, GoneOK, DeleteAsserts
<1>. QED
  BY <1>1, PortInvariant, PTL

(* epoll_wait() reports only sockets that are registered when it looks and *)
(* only events that are in the mask set last: a completion that was under  *)
(* way when epoll_ctl() came reports nothing else (wepoll.c:1835-1888).    *)
THEOREM ReportsWanted == Spec => OnlyWanted
<1>. DEFINE Wants == \A e \in got' : Asked(port, e)
<1>1. ASSUME Inv, Next PROVE Wants
  <2>1. ASSUME NEW t \in Thread, FeedEvents(t) PROVE Wants
    BY <1>1, <2>1, FeedEventsKeep
  <2>2. ASSUME NEW t \in Thread, WaitEnter(t) \/ Wake(t) \/ TimeOut(t) PROVE got' = {}
    BY <2>2 DEF WaitEnter, Wake, TimeOut, Poll, Leave
  <2>3. ASSUME NEW o \in Obj, PollCompletes(o) \/ PollFails(o) PROVE got' = {}
    BY <2>3 DEF PollCompletes, PollFails
  <2>4. ASSUME PortDelete PROVE got' = {}
    BY <2>4 DEF PortDelete
  <2>5. ASSUME NEW s \in Sock, NEW mask \in Masks, NEW once \in BOOLEAN,
               CtlAdd(s, mask, once) \/ CtlMod(s, mask, once)
        PROVE  got' = {}
    BY <2>5, Zenon DEF CtlAdd, CtlMod, CtlFails, CtlUpdates
  <2>6. ASSUME NEW s \in Sock, CtlDel(s) \/ CloseSocket(s) \/ OpenSocket(s)
        PROVE  got' = {}
    BY <2>6 DEF CtlDel, CloseSocket, OpenSocket
  <2>7. ASSUME NEW s \in Sock, NEW c, Changes(s, c) PROVE got' = {}
    BY <2>7 DEF Changes
  <2>8. ASSUME Program PROVE got' = {}
    BY <2>5, <2>6, <2>7, <2>8, Zenon DEF Program
  <2>. QED
    BY <1>1, <2>1, <2>2, <2>3, <2>4, <2>8 DEF Next
<1>2. Inv /\ [Next]_vars =>
        [\A e \in got' :
            /\ e.sock \in Registered(port)
            /\ e.events \subseteq port.socks[port.tree[e.sock]].user]_vars
  BY <1>1 DEF Asked
<1>. QED
  BY <1>2, PortInvariant, PTL DEF Spec, OnlyWanted
=============================================================================
