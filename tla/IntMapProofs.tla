---------------------------- MODULE IntMapProofs ----------------------------
(***************************************************************************)
(* Spec => []Inv for every set of keys, values and nodes and every number  *)
(* of slots. Inv is inductive as it stands: LinksOK and Reachable need one *)
(* another, and KeysUnique is what makes "the first node of the key" the   *)
(* only one. At the end, IntMap implements MapSpec: the map a caller sees  *)
(* has a key for each node and the node's value under it, and every method *)
(* maps to its promise.                                                    *)
(***************************************************************************)
EXTENDS IntMap, FiniteSetTheorems, FunctionTheorems, TLAPS

LEMMA SlotOfType == ASSUME NEW v \in Int PROVE SlotOf(v) \in Slots
  BY SizeAssumption DEF SlotOf, Slots

(* A one-element set's first node is that element.                         *)
LEMMA FirstOfOne ==
  ASSUME TypeOK, NEW n \in live
  PROVE  First({n}) = n
<1>1. n \in Walk(n)
  BY NullAssumption DEF Walk, Closed, TypeOK
<1>. QED
  BY <1>1 DEF First

(* With every node reachable, the nodes get() can stop at are those of the *)
(* key, wherever they are.                                                 *)
LEMMA MatchesAll ==
  ASSUME Reachable, NEW v \in Key
  PROVE  Matches(v) = {n \in live : heap[n].val = v}
  BY DEF Reachable, Matches, Chain, Walk

(* A key that is found has one node, and First picks it.                   *)
LEMMA OneMatch ==
  ASSUME Inv, NEW v \in Key, Matches(v) # {}
  PROVE  /\ First(Matches(v)) \in live
         /\ heap[First(Matches(v))].val = v
         /\ Lookup(v) = heap[First(Matches(v))].value
<1>1. PICK n \in live : heap[n].val = v /\ n \in Matches(v)
  BY MatchesAll DEF Inv
<1>2. Matches(v) = {n}
  BY <1>1, MatchesAll DEF Inv, KeysUnique
<1>3. First(Matches(v)) = n
  BY <1>2, FirstOfOne DEF Inv
<1>. QED
  BY <1>1, <1>3 DEF Lookup

(* A fresh key is on no node.                                              *)
LEMMA FreshMeansAbsent ==
  ASSUME Inv, NEW v \in Key, FreshKey(v)
  PROVE  \A n \in live : heap[n].val # v
<1>1. CASE Matches(v) = {}
  BY <1>1, MatchesAll DEF Inv
<1>2. CASE Matches(v) # {}
  <2>1. Lookup(v) \in Value
    BY <1>2, OneMatch DEF Inv, TypeOK, IntMapNode
  <2>. QED
    BY <2>1, NullAssumption DEF FreshKey
<1>. QED
  BY <1>1, <1>2
-----------------------------------------------------------------------------
LEMMA InitInv == Init => Inv
<1>. SUFFICES ASSUME Init PROVE Inv
  OBVIOUS
<1>1. live = {}
  BY DEF Init, live
<1>2. TypeOK
  BY <1>1 DEF Init, TypeOK
<1>3. LinksOK /\ Reachable /\ KeysUnique
  BY <1>1 DEF LinksOK, Reachable, KeysUnique, Init
<1>4. CountOK
  BY <1>1, FS_EmptySet DEF CountOK, Init
<1>. QED
  BY <1>2, <1>3, <1>4 DEF Inv

(* A call that changes nothing but the answer.                             *)
LEMMA SameMapInv ==
  ASSUME Inv, UNCHANGED <<nodes, heap, count>>
  PROVE  Inv'
<1>1. TypeOK'
  BY DEF Inv, TypeOK, live
<1>2. LinksOK'
  BY DEF Inv, LinksOK, live
<1>3. Reachable'
  BY DEF Inv, Reachable, Chain, Walk, Closed, live
<1>4. CountOK' /\ KeysUnique'
  BY DEF Inv, CountOK, KeysUnique, live
<1>. QED
  BY <1>1, <1>2, <1>3, <1>4 DEF Inv
-----------------------------------------------------------------------------
LEMMA PutInv ==
  ASSUME Inv, NEW v \in Key, NEW x \in Value, FreshKey(v), Put(v, x)
  PROVE  Inv'
<1>. DEFINE s    == SlotOf(v)
            head == nodes[s]
<1>1. PICK n \in Node \ live :
        /\ heap' = [m \in live \cup {n} |->
                      IF m = n
                      THEN [val |-> v, value |-> x, prev |-> Null, next |-> head]
                      ELSE [heap[m] EXCEPT !.prev = IF m = head THEN n ELSE @]]
        /\ nodes' = [nodes EXCEPT ![s] = n]
        /\ count' = count + 1
  BY DEF Put
<1>2. s \in Slots /\ v \in Int /\ n # Null
  BY SlotOfType, KeyAssumption, NullAssumption
<1>. HIDE DEF s
<1>3. live' = live \cup {n}
  BY <1>1 DEF live
<1>4. /\ nodes'[s] = n
      /\ \A t \in Slots \ {s} : nodes'[t] = nodes[t]
  BY <1>1, <1>2 DEF Inv, TypeOK
<1>5. /\ heap'[n] = [val |-> v, value |-> x, prev |-> Null, next |-> head]
      /\ \A m \in live :
           /\ heap'[m].val = heap[m].val
           /\ heap'[m].next = heap[m].next
           /\ heap'[m].prev = IF m = head THEN n ELSE heap[m].prev
  <2>1. heap'[n] = [val |-> v, value |-> x, prev |-> Null, next |-> head]
    BY <1>1
  <2>2. ASSUME NEW m \in live
        PROVE  /\ heap'[m].val = heap[m].val
               /\ heap'[m].next = heap[m].next
               /\ heap'[m].prev = IF m = head THEN n ELSE heap[m].prev
    <3>1. heap'[m] = [heap[m] EXCEPT !.prev = IF m = head THEN n ELSE @]
      BY <1>1
    <3>2. heap[m] \in IntMapNode
      BY DEF Inv, TypeOK
    <3>. QED
      BY <3>1, <3>2 DEF IntMapNode
  <2>. QED
    BY <2>1, <2>2
<1>6. \A m \in live : SlotOf(heap[m].val) \in Slots
  BY SlotOfType, KeyAssumption DEF Inv, TypeOK, IntMapNode
<1>7. TypeOK'
  <2>1. nodes' \in [Slots -> Node \cup {Null}]
    BY <1>1, <1>2 DEF Inv, TypeOK
  <2>2. heap' \in [live' -> IntMapNode]
    <3>1. head \in Node \cup {Null}
      BY <1>2 DEF Inv, TypeOK
    <3>2. [val |-> v, value |-> x, prev |-> Null, next |-> head] \in IntMapNode
      BY <3>1 DEF IntMapNode
    <3>3. ASSUME NEW m \in live
          PROVE  [heap[m] EXCEPT !.prev = IF m = head THEN n ELSE @] \in IntMapNode
      BY DEF Inv, TypeOK, IntMapNode
    <3>. QED
      BY <1>1, <1>3, <3>2, <3>3
  <2>. QED
    BY <1>1, <1>3, <2>1, <2>2 DEF Inv, TypeOK
<1>8. LinksOK'
  <2>1. ASSUME NEW t \in Slots, nodes'[t] # Null
        PROVE  /\ nodes'[t] \in live'
               /\ SlotOf(heap'[nodes'[t]].val) = t
               /\ heap'[nodes'[t]].prev = Null
    <3>1. CASE t = s
      BY <3>1, <1>3, <1>4, <1>5 DEF s
    <3>2. CASE t # s
      <4>1. nodes[t] # Null /\ nodes'[t] = nodes[t]
        BY <3>2, <2>1, <1>4
      <4>2. nodes[t] \in live /\ SlotOf(heap[nodes[t]].val) = t /\ heap[nodes[t]].prev = Null
        BY <4>1 DEF Inv, LinksOK
      <4>3. nodes[t] # head
        BY <4>1, <4>2, <3>2, <1>2 DEF Inv, LinksOK
      <4>. QED
        BY <4>1, <4>2, <4>3, <1>3, <1>5
    <3>. QED
      BY <3>1, <3>2
  <2>2. ASSUME NEW m \in live'
        PROVE  /\ heap'[m].prev = Null => nodes'[SlotOf(heap'[m].val)] = m
               /\ heap'[m].prev # Null =>
                    /\ heap'[m].prev \in live'
                    /\ heap'[heap'[m].prev].next = m
               /\ heap'[m].next # Null =>
                    /\ heap'[m].next \in live'
                    /\ heap'[heap'[m].next].prev = m
                    /\ SlotOf(heap'[heap'[m].next].val) = SlotOf(heap'[m].val)
    <3>1. CASE m = n
      <4>1. head # Null => head \in live /\ SlotOf(heap[head].val) = s
        BY <1>2 DEF Inv, LinksOK
      <4>. QED
        BY <3>1, <4>1, <1>3, <1>4, <1>5 DEF s
    <3>2. CASE m \in live
      <4>1. heap'[m].prev = Null => nodes'[SlotOf(heap'[m].val)] = m
        BY <3>2, <1>2, <1>4, <1>5, <1>6 DEF Inv, LinksOK
      <4>2. heap'[m].prev # Null =>
                    /\ heap'[m].prev \in live'
                    /\ heap'[heap'[m].prev].next = m
        BY <3>2, <1>3, <1>5 DEF Inv, LinksOK
      <4>3. heap'[m].next # Null =>
                    /\ heap'[m].next \in live'
                    /\ heap'[heap'[m].next].prev = m
                    /\ SlotOf(heap'[heap'[m].next].val) = SlotOf(heap'[m].val)
        <5>1. SUFFICES ASSUME heap[m].next # Null
              PROVE  /\ heap[m].next \in live
                     /\ heap'[heap[m].next].prev = m
                     /\ SlotOf(heap[heap[m].next].val) = SlotOf(heap[m].val)
          BY <3>2, <1>3, <1>5
        <5>2. /\ heap[m].next \in live
              /\ heap[heap[m].next].prev = m
              /\ SlotOf(heap[heap[m].next].val) = SlotOf(heap[m].val)
          BY <3>2, <5>1 DEF Inv, LinksOK
        <5>3. heap[m].next # head
          <6>1. m # Null
            BY <3>2, NullAssumption DEF Inv, TypeOK
          <6>. QED
            BY <5>1, <6>1, <5>2, <1>2 DEF Inv, LinksOK
        <5>. QED
          BY <5>2, <5>3, <1>5
      <4>. QED
        BY <4>1, <4>2, <4>3
    <3>. QED
      BY <3>1, <3>2, <1>3
  <2>. QED
    BY <2>1, <2>2 DEF LinksOK
<1>9. Reachable'
  <2>. SUFFICES ASSUME NEW m \in live', NEW S \in SUBSET (live'),
                       nodes'[SlotOf(heap'[m].val)] \in S \cup {Null},
                       \A y \in S : heap'[y].next \in S \cup {Null}
                PROVE  m \in S
    BY DEF Reachable, Chain, Walk, Closed
  <2>. DEFINE T == S \ {n}
  <2>1. T \in SUBSET live
    BY <1>3
  <2>2. \A y \in T : heap[y].next \in T \cup {Null}
    <3>. SUFFICES ASSUME NEW y \in T PROVE heap[y].next \in T \cup {Null}
      OBVIOUS
    <3>1. heap'[y].next = heap[y].next /\ heap[y].next \in S \cup {Null}
      BY <2>1, <1>5
    <3>2. heap[y].next # n
      BY <2>1, <1>2 DEF Inv, LinksOK
    <3>. QED
      BY <3>1, <3>2
  <2>3. CASE m = n
    BY <2>3, <1>4, <1>5, <1>2 DEF s
  <2>4. CASE m \in live
    <3>1. m \in Chain(heap[m].val) /\ heap'[m].val = heap[m].val
      BY <2>4, <1>5 DEF Inv, Reachable
    <3>2. SlotOf(heap[m].val) \in Slots
      BY <2>4, <1>6
    <3>3. nodes[SlotOf(heap[m].val)] \in T \cup {Null}
      <4>1. CASE SlotOf(heap[m].val) = s
        <5>1. n \in S
          BY <4>1, <3>1, <1>4, <1>2
        <5>2. head \in S \cup {Null}
          BY <5>1, <1>5
        <5>3. head # n
          BY <1>2 DEF Inv, LinksOK
        <5>. QED
          BY <4>1, <5>2, <5>3
      <4>2. CASE SlotOf(heap[m].val) # s
        <5>1. nodes[SlotOf(heap[m].val)] \in S \cup {Null}
          BY <4>2, <3>1, <3>2, <1>4
        <5>2. nodes[SlotOf(heap[m].val)] # n
          BY <3>2, <1>2 DEF Inv, LinksOK
        <5>. QED
          BY <5>1, <5>2
      <4>. QED
        BY <4>1, <4>2
    <3>4. m \in T
      BY <2>1, <2>2, <3>1, <3>3 DEF Chain, Walk, Closed
    <3>. QED
      BY <3>4
  <2>. QED
    BY <2>3, <2>4, <1>3
<1>10. CountOK'
  <2>1. IsFiniteSet(live)
    BY NodeAssumption, FS_Subset DEF Inv, TypeOK
  <2>. QED
    BY <2>1, <1>1, <1>3, FS_AddElement DEF Inv, CountOK
<1>11. KeysUnique'
  <2>1. \A m \in live : heap[m].val # v
    BY FreshMeansAbsent
  <2>. QED
    BY <2>1, <1>3, <1>5 DEF Inv, KeysUnique
<1>. QED
  BY <1>7, <1>8, <1>9, <1>10, <1>11 DEF Inv
-----------------------------------------------------------------------------
(* replace() exchanges a value and touches no link.                        *)
LEMMA ReplaceInv ==
  ASSUME Inv, NEW v \in Key, NEW old \in Value, NEW new \in Value,
         Replace(v, old, new)
  PROVE  Inv'
<1>. DEFINE found == {n \in Matches(v) : heap[n].value = old}
<1>1. CASE found = {}
  BY <1>1, SameMapInv DEF Replace
<1>2. CASE found # {}
  <2>1. PICK c \in live : heap' = [heap EXCEPT ![c].value = new]
    <3>1. PICK c \in live : c \in found /\ heap[c].val = v
      BY <1>2, MatchesAll DEF Inv
    <3>2. found = {c}
      BY <3>1, MatchesAll DEF Inv, KeysUnique
    <3>. QED
      BY <3>1, <3>2, <1>2, FirstOfOne DEF Inv, Replace
  <2>2. nodes' = nodes /\ count' = count
    BY DEF Replace
  <2>3. live' = live
    BY <2>1 DEF live, Inv, TypeOK
  <2>4. heap' \in [live -> IntMapNode]
    BY <2>1 DEF Inv, TypeOK, IntMapNode
  <2>5. \A m \in live : /\ heap'[m].val = heap[m].val
                        /\ heap'[m].prev = heap[m].prev
                        /\ heap'[m].next = heap[m].next
    BY <2>1 DEF Inv, TypeOK, IntMapNode
  <2>. HIDE DEF found
  <2>6. TypeOK'
    BY <2>2, <2>3, <2>4 DEF Inv, TypeOK
  <2>7. LinksOK'
    BY <2>2, <2>3, <2>5 DEF Inv, LinksOK
  <2>8. Reachable'
    BY <2>2, <2>3, <2>5 DEF Inv, Reachable, Chain, Walk, Closed
  <2>9. CountOK' /\ KeysUnique'
    BY <2>2, <2>3, <2>5 DEF Inv, CountOK, KeysUnique
  <2>. QED
    BY <2>6, <2>7, <2>8, <2>9 DEF Inv
<1>. QED
  BY <1>1, <1>2
-----------------------------------------------------------------------------
(* Taking a node out of its chain: of the nodes that are left, the links   *)
(* change of its two neighbours only.                                      *)
LEMMA UnlinkInv ==
  ASSUME Inv, NEW c \in live, Unlink(c)
  PROVE  Inv'
<1>. DEFINE p == heap[c].prev
            q == heap[c].next
            s == SlotOf(heap[c].val)
<1>1. live' = live \ {c} /\ count' = count - 1
  BY DEF Unlink, live
<1>a. heap' = [m \in live \ {c} |->
                 [heap[m] EXCEPT !.next = IF m = p THEN q ELSE @,
                                 !.prev = IF m = q THEN p ELSE @]]
  BY DEF Unlink
<1>b. nodes' = IF p = Null THEN [nodes EXCEPT ![s] = q] ELSE nodes
  BY DEF Unlink
<1>2. /\ \A m \in live : /\ m # Null
                         /\ SlotOf(heap[m].val) \in Slots
      /\ s \in Slots
  BY NullAssumption, SlotOfType, KeyAssumption DEF Inv, TypeOK, IntMapNode
<1>3. /\ p = Null => nodes[s] = c
      /\ p # Null => p \in live /\ heap[p].next = c
                     /\ SlotOf(heap[p].val) = s
      /\ q # Null => q \in live /\ heap[q].prev = c
                     /\ SlotOf(heap[q].val) = s
  BY <1>2 DEF Inv, LinksOK
<1>4. p # c /\ q # c
  <2>1. ~(p = c /\ q = c)
    (* A ring of one node would not be reachable from its slot. *)
    <3>. SUFFICES ASSUME p = c, q = c PROVE FALSE
      OBVIOUS
    <3>1. c \in Walk(nodes[s]) /\ nodes[s] # c
      BY <1>2 DEF Inv, Reachable, Chain, LinksOK
    <3>. DEFINE T == live \ {c}
    <3>2. nodes[s] \in T \cup {Null}
      BY <1>2, <3>1 DEF Inv, LinksOK
    <3>3. \A x \in T : heap[x].next \in T \cup {Null}
      BY <1>2 DEF Inv, LinksOK
    <3>. QED
      BY <3>1, <3>2, <3>3 DEF Walk, Closed
  <2>. QED
    BY <2>1, <1>2, <1>3
<1>5. \A m \in live \ {c} :
        /\ heap'[m].val = heap[m].val
        /\ heap'[m].next = IF m = p THEN q ELSE heap[m].next
        /\ heap'[m].prev = IF m = q THEN p ELSE heap[m].prev
  <2>. SUFFICES ASSUME NEW m \in live \ {c}
       PROVE  /\ heap'[m].val = heap[m].val
              /\ heap'[m].next = IF m = p THEN q ELSE heap[m].next
              /\ heap'[m].prev = IF m = q THEN p ELSE heap[m].prev
    OBVIOUS
  <2>1. heap'[m] = [heap[m] EXCEPT !.next = IF m = p THEN q ELSE @,
                                   !.prev = IF m = q THEN p ELSE @]
    BY <1>a
  <2>2. heap[m] \in IntMapNode
    BY DEF Inv, TypeOK
  <2>. QED
    BY <2>1, <2>2 DEF IntMapNode
<1>6. /\ p = Null => nodes'[s] = q
      /\ \A t \in Slots : t # s \/ p # Null => nodes'[t] = nodes[t]
  BY <1>b, <1>2 DEF Inv, TypeOK
<1>7. TypeOK'
  <2>1. p \in Node \cup {Null} /\ q \in Node \cup {Null}
    BY DEF Inv, TypeOK, IntMapNode
  <2>2. nodes' \in [Slots -> Node \cup {Null}]
    BY <1>b, <1>2, <2>1 DEF Inv, TypeOK
  <2>3. ASSUME NEW m \in live
        PROVE  [heap[m] EXCEPT !.next = IF m = p THEN q ELSE @,
                               !.prev = IF m = q THEN p ELSE @] \in IntMapNode
    BY <2>1 DEF Inv, TypeOK, IntMapNode
  <2>4. heap' \in [live' -> IntMapNode]
    BY <1>1, <1>a, <2>3
  <2>. QED
    BY <1>1, <2>2, <2>4 DEF Inv, TypeOK
<1>. HIDE DEF s
<1>8. LinksOK'
  <2>1. ASSUME NEW t \in Slots, nodes'[t] # Null
        PROVE  /\ nodes'[t] \in live'
               /\ SlotOf(heap'[nodes'[t]].val) = t
               /\ heap'[nodes'[t]].prev = Null
    <3>1. CASE t = s /\ p = Null
      <4>1. nodes'[t] = q /\ q # Null
        BY <2>1, <3>1, <1>6
      <4>. QED
        BY <3>1, <4>1, <1>1, <1>3, <1>4, <1>5
    <3>2. CASE t # s \/ p # Null
      <4>1. nodes'[t] = nodes[t] /\ nodes[t] # Null
        BY <2>1, <3>2, <1>6
      <4>2. /\ nodes[t] \in live
            /\ SlotOf(heap[nodes[t]].val) = t
            /\ heap[nodes[t]].prev = Null
        BY <4>1 DEF Inv, LinksOK
      <4>3. nodes[t] # c
        BY <4>2, <3>2 DEF s
      <4>4. nodes[t] # q
        BY <4>1, <4>2, <1>2, <1>3
      <4>. QED
        BY <4>1, <4>2, <4>3, <4>4, <1>1, <1>5
    <3>. QED
      BY <3>1, <3>2
  <2>2. ASSUME NEW m \in live \ {c}
        PROVE  heap'[m].prev = Null => nodes'[SlotOf(heap'[m].val)] = m
    <3>1. CASE m = q
      BY <2>2, <3>1, <1>2, <1>3, <1>5, <1>6
    <3>2. CASE m # q
      <4>1. heap'[m].prev = heap[m].prev /\ heap'[m].val = heap[m].val
        BY <3>2, <1>5
      <4>2. heap[m].prev = Null => nodes[SlotOf(heap[m].val)] = m
        BY DEF Inv, LinksOK
      <4>3. SlotOf(heap[m].val) \in Slots /\ m # c
        BY <1>2
      <4>. QED
        BY <4>1, <4>2, <4>3, <1>3, <1>6
    <3>. QED
      BY <3>1, <3>2
  <2>3. ASSUME NEW m \in live \ {c}
        PROVE  heap'[m].prev # Null => /\ heap'[m].prev \in live'
                                       /\ heap'[heap'[m].prev].next = m
    <3>1. CASE m = q
      BY <3>1, <1>1, <1>3, <1>4, <1>5
    <3>2. CASE m # q
      <4>1. heap'[m].prev = heap[m].prev
        BY <3>2, <1>5
      <4>. SUFFICES ASSUME heap[m].prev # Null
                    PROVE  /\ heap[m].prev \in live'
                           /\ heap'[heap[m].prev].next = m
        BY <4>1
      <4>2. heap[m].prev \in live /\ heap[heap[m].prev].next = m
        BY DEF Inv, LinksOK
      <4>3. heap[m].prev # c
        BY <4>2, <3>2
      <4>4. heap[m].prev # p
        BY <4>2, <1>2, <1>3
      <4>. QED
        BY <4>2, <4>3, <4>4, <1>1, <1>5
    <3>. QED
      BY <3>1, <3>2
  <2>4. ASSUME NEW m \in live \ {c}
        PROVE  heap'[m].next # Null =>
                 /\ heap'[m].next \in live'
                 /\ heap'[heap'[m].next].prev = m
                 /\ SlotOf(heap'[heap'[m].next].val) = SlotOf(heap'[m].val)
    <3>1. CASE m = p
      BY <3>1, <1>1, <1>2, <1>3, <1>4, <1>5
    <3>2. CASE m # p
      <4>1. heap'[m].next = heap[m].next /\ heap'[m].val = heap[m].val
        BY <3>2, <1>5
      <4>. SUFFICES ASSUME heap[m].next # Null
                    PROVE  /\ heap[m].next \in live'
                           /\ heap'[heap[m].next].prev = m
                           /\ SlotOf(heap'[heap[m].next].val) = SlotOf(heap[m].val)
        BY <4>1
      <4>2. /\ heap[m].next \in live /\ heap[heap[m].next].prev = m
            /\ SlotOf(heap[heap[m].next].val) = SlotOf(heap[m].val)
        BY DEF Inv, LinksOK
      <4>3. heap[m].next # c /\ heap[m].next # q
        BY <4>2, <3>2, <1>2, <1>3
      <4>. QED
        BY <4>2, <4>3, <1>1, <1>5
    <3>. QED
      BY <3>1, <3>2
  <2>. QED
    BY <2>1, <2>2, <2>3, <2>4, <1>1 DEF LinksOK
<1>9. Reachable'
  <2>. SUFFICES ASSUME NEW m \in live \ {c}, NEW S \in SUBSET (live \ {c}),
                       nodes'[SlotOf(heap'[m].val)] \in S \cup {Null},
                       \A y \in S : heap'[y].next \in S \cup {Null}
                PROVE  m \in S
    BY <1>1 DEF Reachable, Chain, Walk, Closed
  <2>1. heap'[m].val = heap[m].val /\ SlotOf(heap[m].val) \in Slots
    BY <1>2, <1>5
  <2>2. m \in Walk(nodes[SlotOf(heap[m].val)])
    BY DEF Inv, Reachable, Chain
  (* S, with the node put back where the walk would have met it, is closed *)
  (* under the old links.                                                  *)
  <2>3. CASE p # Null /\ p \in S
    <3>. DEFINE T == S \cup {c}
    <3>1. T \in SUBSET live
      OBVIOUS
    <3>2. nodes[SlotOf(heap[m].val)] \in T \cup {Null}
      BY <2>1, <2>3, <1>6
    <3>3. q \in T \cup {Null}
      BY <2>3, <1>5
    <3>4. \A y \in S : heap[y].next \in T \cup {Null}
      BY <2>3, <1>3, <1>5
    <3>. QED
      BY <2>2, <3>1, <3>2, <3>3, <3>4 DEF Walk, Closed
  <2>4. CASE p = Null /\ SlotOf(heap[m].val) = s
    <3>. DEFINE T == S \cup {c}
    <3>1. T \in SUBSET live
      OBVIOUS
    <3>2. nodes[SlotOf(heap[m].val)] \in T \cup {Null}
      BY <2>4, <1>3
    <3>3. q \in T \cup {Null}
      BY <2>1, <2>4, <1>6
    <3>4. \A y \in S : heap[y].next \in T \cup {Null}
      BY <2>4, <1>2, <1>5
    <3>. QED
      BY <2>2, <3>1, <3>2, <3>3, <3>4 DEF Walk, Closed
  <2>5. CASE (p # Null /\ p \notin S) \/ (p = Null /\ SlotOf(heap[m].val) # s)
    <3>1. \A y \in S : heap[y].next \in S \cup {Null}
      BY <2>5, <1>2, <1>5
    <3>2. nodes[SlotOf(heap[m].val)] \in S \cup {Null}
      BY <2>1, <2>5, <1>6
    <3>. QED
      BY <2>2, <3>1, <3>2 DEF Walk, Closed
  <2>. QED
    BY <2>3, <2>4, <2>5
<1>10. CountOK'
  <2>1. IsFiniteSet(live)
    BY NodeAssumption, FS_Subset DEF Inv, TypeOK
  <2>. QED
    BY <2>1, <1>1, FS_RemoveElement DEF Inv, CountOK
<1>11. KeysUnique'
  BY <1>1, <1>5 DEF Inv, KeysUnique
<1>. QED
  BY <1>7, <1>8, <1>9, <1>10, <1>11 DEF Inv

LEMMA RemoveInv ==
  ASSUME Inv, NEW v \in Key, NEW x \in Value, Remove(v, x)
  PROVE  Inv'
<1>1. CASE Matches(v) # {} /\ Lookup(v) = x
  BY <1>1, OneMatch, UnlinkInv DEF Remove
<1>2. CASE ~(Matches(v) # {} /\ Lookup(v) = x)
  BY <1>2, SameMapInv DEF Remove
<1>. QED
  BY <1>1, <1>2
-----------------------------------------------------------------------------
LEMMA NextInv == Inv /\ [Next]_vars => Inv'
<1>. SUFFICES ASSUME Inv, [Next]_vars PROVE Inv'
  OBVIOUS
<1>1. ASSUME NEW v \in Key, Get(v) PROVE Inv'
  BY <1>1, SameMapInv DEF Get
<1>2. ASSUME NEW v \in Key, NEW x \in Value, FreshKey(v), Put(v, x) PROVE Inv'
  BY <1>2, PutInv
<1>3. ASSUME NEW v \in Key, NEW old \in Value, NEW new \in Value,
             Replace(v, old, new)
      PROVE  Inv'
  BY <1>3, ReplaceInv
<1>4. ASSUME NEW v \in Key, NEW x \in Value, Remove(v, x) PROVE Inv'
  BY <1>4, RemoveInv
<1>5. CASE Count \/ IsEmpty \/ AsList
  BY <1>5, SameMapInv DEF Count, IsEmpty, AsList
<1>6. CASE UNCHANGED vars
  BY <1>6, SameMapInv DEF vars
<1>. QED
  BY <1>1, <1>2, <1>3, <1>4, <1>5, <1>6 DEF Next

(* The invariant of the map: in every reachable state the links agree in   *)
(* both directions, every entry can be found from the slot of its key,     *)
(* count() is the number of entries and no socket is in the map twice      *)
(* (IntMap.java:52-106).                                                   *)
THEOREM MapInvariant == Spec => []Inv
<1>. QED
  BY InitInv, NextInv, PTL DEF Spec

(* The chains stay doubly linked lists of keys of their slot, whatever the *)
(* order of the calls: unlink() may trust prev and next (IntMap.java:90-97).*)
THEOREM ChainsLinked == Spec => [](TypeOK /\ LinksOK)
<1>1. Inv => TypeOK /\ LinksOK
  BY DEF Inv
<1>. QED
  BY <1>1, MapInvariant, PTL

(* get(), replace(), remove() and asList() find every entry that was put   *)
(* and not removed, for any number of slots, keys and entries.             *)
THEOREM NoEntryLost == Spec => []Reachable
<1>1. Inv => Reachable
  BY DEF Inv
<1>. QED
  BY <1>1, MapInvariant, PTL

(* count() and isEmpty() tell the number of entries (IntMap.java:108-114). *)
THEOREM CountExact == Spec => []CountOK
<1>1. Inv => CountOK
  BY DEF Inv
<1>. QED
  BY <1>1, MapInvariant, PTL
-----------------------------------------------------------------------------
Vals(S) == {heap[n].val : n \in S}

(* What the caller sees, told by the nodes.                                *)
SeenIs ==
  /\ DOMAIN Seen = Vals(live)
  /\ \A n \in live : Seen[heap[n].val] = heap[n].value
-----------------------------------------------------------------------------
LEMMA LookupIs ==
  ASSUME Inv, NEW v \in Key
  PROVE  /\ Lookup(v) # Null <=> v \in Vals(live)
         /\ \A n \in live : heap[n].val = v => Lookup(v) = heap[n].value
<1>1. CASE Matches(v) = {}
  <2>1. \A n \in live : heap[n].val # v
    BY <1>1, MatchesAll DEF Inv
  <2>2. Lookup(v) = Null
    BY <1>1 DEF Lookup
  <2>. QED
    BY <2>1, <2>2 DEF Vals
<1>2. CASE Matches(v) # {}
  <2>. DEFINE n == First(Matches(v))
  <2>1. n \in live /\ heap[n].val = v /\ Lookup(v) = heap[n].value
    BY <1>2, OneMatch
  <2>. HIDE DEF n
  <2>2. heap[n].value \in Value
    BY <2>1 DEF Inv, TypeOK, IntMapNode
  <2>3. \A m \in live : heap[m].val = v => m = n
    BY <2>1 DEF Inv, KeysUnique
  <2>. QED
    BY <2>1, <2>2, <2>3, NullAssumption DEF Vals
<1>. QED
  BY <1>1, <1>2

LEMMA InvSeenIs == Inv => SeenIs
<1>. SUFFICES ASSUME Inv PROVE SeenIs
  OBVIOUS
<1>1. \A n \in live : heap[n].val \in Key
  BY DEF Inv, TypeOK, IntMapNode
<1>2. Seen = [v \in {k \in Key : Lookup(k) # Null} |-> Lookup(v)]
  BY DEF Seen
<1>3. {k \in Key : Lookup(k) # Null} = Vals(live)
  BY <1>1, LookupIs DEF Vals
<1>. QED
  BY <1>1, <1>2, <1>3, LookupIs DEF SeenIs, Vals

(* A function with a node's value under each node's key is what is seen.   *)
LEMMA SeenNext ==
  ASSUME Inv', NEW M, M = [k \in Vals(live)' |-> M[k]],
         \A n \in live' : M[heap'[n].val] = heap'[n].value
  PROVE  Seen' = M
<1>1. SeenIs'
  BY InvSeenIs, PTL
<1>2. Seen' = [k \in Vals(live)' |-> Seen'[k]]
  BY <1>1 DEF SeenIs, Seen
<1>3. \A k \in Vals(live)' : Seen'[k] = M[k]
  BY <1>1 DEF SeenIs, Vals
<1>. QED
  BY <1>2, <1>3

LEMMA SeenSame ==
  ASSUME Inv, Inv', heap' = heap
  PROVE  Seen' = Seen
<1>1. SeenIs
  BY InvSeenIs
<1>2. Seen = [k \in DOMAIN Seen |-> Seen[k]]
  BY DEF Seen
<1>3. live' = live /\ Vals(live)' = Vals(live)
  BY DEF Vals, live
<1>. DEFINE M == Seen
<1>4. M = [k \in Vals(live)' |-> M[k]]
  BY <1>1, <1>2, <1>3 DEF SeenIs
<1>5. \A n \in live' : M[heap'[n].val] = heap'[n].value
  BY <1>1, <1>3 DEF SeenIs
<1>. HIDE DEF M
<1>6. Seen' = M
  BY <1>4, <1>5, SeenNext
<1>. QED
  BY <1>6 DEF M
-----------------------------------------------------------------------------
LEMMA GetRefines ==
  ASSUME Inv, Inv', NEW v \in Key, Get(v)
  PROVE  Abstract!MapGet(v)
<1>1. Seen' = Seen
  BY SeenSame DEF Get
<1>2. ret' = IF v \in DOMAIN Seen THEN Seen[v] ELSE Null
  BY DEF Get, Seen
<1>. QED
  BY <1>1, <1>2 DEF Get, Abstract!MapGet, Abstract!dom

LEMMA PutRefines ==
  ASSUME Inv, Inv', NEW v \in Key, NEW x \in Value, FreshKey(v), Put(v, x)
  PROVE  Abstract!MapPut(v, x)
<1>. DEFINE M == [k \in DOMAIN Seen \cup {v} |-> IF k = v THEN x ELSE Seen[k]]
<1>1. SeenIs
  BY InvSeenIs
<1>2. v \notin DOMAIN Seen
  BY DEF FreshKey, Seen
<1>3. PICK n \in Node \ live :
        /\ live' = live \cup {n}
        /\ heap'[n].val = v /\ heap'[n].value = x
        /\ \A m \in live : heap'[m].val = heap[m].val /\ heap'[m].value = heap[m].value
  <2>1. PICK n \in Node \ live :
          heap' = [m \in live \cup {n} |->
                     IF m = n
                     THEN [val |-> v, value |-> x, prev |-> Null, next |-> nodes[SlotOf(v)]]
                     ELSE [heap[m] EXCEPT !.prev = IF m = nodes[SlotOf(v)] THEN n ELSE @]]
    BY DEF Put
  <2>2. \A m \in live : heap[m] \in IntMapNode
    BY DEF Inv, TypeOK
  <2>. QED
    BY <2>1, <2>2 DEF IntMapNode, live
<1>4. Vals(live)' = DOMAIN Seen \cup {v}
  BY <1>1, <1>3 DEF SeenIs, Vals
<1>5. \A m \in live' : M[heap'[m].val] = heap'[m].value
  BY <1>1, <1>2, <1>3 DEF SeenIs, Vals
<1>6. M = [k \in Vals(live)' |-> M[k]]
  BY <1>4
<1>. HIDE DEF M
<1>7. Seen' = M
  BY <1>5, <1>6, SeenNext
<1>. QED
  BY <1>2, <1>7 DEF M, Put, Abstract!MapPut, Abstract!dom

LEMMA ReplaceRefines ==
  ASSUME Inv, Inv', NEW v \in Key, NEW old \in Value, NEW new \in Value, Replace(v, old, new)
  PROVE  Abstract!MapReplace(v, old, new)
<1>. DEFINE found == {n \in Matches(v) : heap[n].value = old}
<1>1. SeenIs
  BY InvSeenIs
<1>2. found = {n \in live : heap[n].val = v /\ heap[n].value = old}
  BY MatchesAll DEF Inv
<1>3. found # {} <=> v \in DOMAIN Seen /\ Seen[v] = old
  BY <1>1, <1>2 DEF SeenIs, Vals
<1>4. CASE found = {}
  <2>1. Seen' = Seen
    BY <1>4, SeenSame DEF Replace
  <2>. QED
    BY <1>3, <1>4, <2>1 DEF Replace, Abstract!MapReplace, Abstract!dom
<1>5. CASE found # {}
  <2>. DEFINE M == [Seen EXCEPT ![v] = new]
  <2>1. PICK n \in live : heap[n].val = v /\ heap[n].value = old
    BY <1>2, <1>5
  <2>2. found = {n}
    BY <1>2, <2>1 DEF Inv, KeysUnique
  <2>3. First(found) = n
    BY <2>2, FirstOfOne DEF Inv
  <2>4. heap' = [heap EXCEPT ![n].value = new] /\ ret' = "done"
    BY <1>5, <2>3 DEF Replace
  <2>5. \A m \in live : heap[m] \in IntMapNode
    BY DEF Inv, TypeOK
  <2>6. /\ live' = live
        /\ \A m \in live : /\ heap'[m].val = heap[m].val
                           /\ heap'[m].value = IF m = n THEN new ELSE heap[m].value
    BY <2>4, <2>5 DEF IntMapNode, live
  <2>7. Vals(live)' = DOMAIN Seen
    BY <1>1, <2>6 DEF SeenIs, Vals
  <2>8. \A m \in live : m # n => heap[m].val # v
    BY <2>1 DEF Inv, KeysUnique
  <2>9. \A m \in live' : M[heap'[m].val] = heap'[m].value
    BY <1>1, <2>1, <2>6, <2>8 DEF SeenIs, Vals
  <2>10. M = [k \in Vals(live)' |-> M[k]]
    BY <2>7
  <2>. HIDE DEF M
  <2>11. Seen' = M
    BY <2>9, <2>10, SeenNext
  <2>. QED
    BY <1>3, <1>5, <2>4, <2>11 DEF M, Replace, Abstract!MapReplace, Abstract!dom
<1>. QED
  BY <1>4, <1>5

LEMMA RemoveRefines ==
  ASSUME Inv, Inv', NEW v \in Key, NEW x \in Value, Remove(v, x)
  PROVE  Abstract!MapRemove(v, x)
<1>1. SeenIs
  BY InvSeenIs
<1>2. Matches(v) # {} <=> v \in DOMAIN Seen
  BY <1>1, MatchesAll DEF SeenIs, Vals, Inv
<1>3. v \in DOMAIN Seen => Seen[v] = Lookup(v)
  BY DEF Seen
<1>4. CASE ~(v \in DOMAIN Seen /\ Seen[v] = x)
  <2>1. ret' = FALSE /\ heap' = heap /\ call' = <<"remove", v, x>>
    BY <1>2, <1>3, <1>4 DEF Remove
  <2>2. Seen' = Seen
    BY <2>1, SeenSame
  <2>. QED
    BY <1>4, <2>1, <2>2 DEF Abstract!MapRemove, Abstract!dom
<1>5. CASE v \in DOMAIN Seen /\ Seen[v] = x
  <2>. DEFINE n == First(Matches(v))
              M == [k \in DOMAIN Seen \ {v} |-> Seen[k]]
  <2>1. n \in live /\ heap[n].val = v
    BY <1>2, <1>5, OneMatch
  <2>2. Unlink(n) /\ ret' = TRUE /\ call' = <<"remove", v, x>>
    BY <1>2, <1>3, <1>5 DEF Remove
  <2>. HIDE DEF n
  <2>3. \A m \in live : heap[m] \in IntMapNode
    BY DEF Inv, TypeOK
  <2>4. /\ live' = live \ {n}
        /\ \A m \in live' : heap'[m].val = heap[m].val /\ heap'[m].value = heap[m].value
    BY <2>2, <2>3 DEF Unlink, IntMapNode, live
  <2>5. \A m \in live : m # n => heap[m].val # v
    BY <2>1 DEF Inv, KeysUnique
  <2>6. Vals(live)' = DOMAIN Seen \ {v}
    BY <1>1, <2>1, <2>4, <2>5 DEF SeenIs, Vals
  <2>7. \A m \in live' : M[heap'[m].val] = heap'[m].value
    BY <1>1, <2>4, <2>5 DEF SeenIs, Vals
  <2>8. M = [k \in Vals(live)' |-> M[k]]
    BY <2>6
  <2>. HIDE DEF M
  <2>9. Seen' = M
    BY <2>7, <2>8, SeenNext
  <2>. QED
    BY <1>5, <2>2, <2>9 DEF M, Abstract!MapRemove, Abstract!dom
<1>. QED
  BY <1>4, <1>5
-----------------------------------------------------------------------------
(* As many nodes as keys, of any of them.                                  *)
LEMMA SameNumber ==
  ASSUME Inv, NEW S \in SUBSET live
  PROVE  /\ IsFiniteSet(S) /\ IsFiniteSet(Vals(S))
         /\ Cardinality(Vals(S)) = Cardinality(S)
<1>. DEFINE f == [n \in S |-> heap[n].val]
<1>1. IsFiniteSet(S)
  BY FS_Subset, NodeAssumption DEF Inv, TypeOK
<1>2. f \in [S -> Vals(S)]
  BY DEF Vals
<1>3. \A a, b \in S : f[a] = f[b] => a = b
  BY DEF Inv, KeysUnique
<1>4. \A k \in Vals(S) : \E n \in S : f[n] = k
  BY DEF Vals
<1>. HIDE DEF f
<1>5. f \in Bijection(S, Vals(S))
  BY <1>2, <1>3, <1>4, Fun_IsBij
<1>6. ExistsBijection(S, Vals(S))
  BY <1>5, Fun_ExistsBij
<1>. QED
  BY <1>1, <1>6, FS_Bijection

LEMMA CountRefines ==
  ASSUME Inv, Inv', Count
  PROVE  Abstract!MapCount
<1>1. Seen' = Seen
  BY SeenSame DEF Count
<1>2. count = Cardinality(DOMAIN Seen)
  BY InvSeenIs, SameNumber DEF SeenIs, Inv, CountOK
<1>. QED
  BY <1>1, <1>2 DEF Count, Abstract!MapCount, Abstract!dom, Abstract!Cardinality, Cardinality

LEMMA IsEmptyRefines ==
  ASSUME Inv, Inv', IsEmpty
  PROVE  Abstract!MapIsEmpty
<1>1. Seen' = Seen
  BY SeenSame DEF IsEmpty
<1>2. DOMAIN Seen = Vals(live)
  BY InvSeenIs DEF SeenIs
<1>3. IsFiniteSet(live) /\ count = Cardinality(live)
  BY SameNumber DEF Inv, CountOK
<1>4. (count = 0) = (live = {})
  BY <1>3, FS_EmptySet
<1>5. (live = {}) = (DOMAIN Seen = {})
  BY <1>2 DEF Vals
<1>. QED
  BY <1>1, <1>4, <1>5 DEF IsEmpty, Abstract!MapIsEmpty, Abstract!dom

LEMMA AsListRefines ==
  ASSUME Inv, Inv', AsList
  PROVE  Abstract!MapAsList
<1>1. Seen' = Seen
  BY SeenSame DEF AsList
<1>2. SeenIs
  BY InvSeenIs
<1>3. Listed = live
  <2>1. \A n \in live : heap[n].val \in Int
    BY KeyAssumption DEF Inv, TypeOK, IntMapNode
  <2>2. \A n \in live : SlotOf(heap[n].val) \in Slots /\ n \in Walk(nodes[SlotOf(heap[n].val)])
    BY <2>1, SlotOfType DEF Inv, Reachable, Chain
  <2>3. \A s \in Slots : Walk(nodes[s]) \subseteq live
    BY DEF Walk
  <2>. QED
    BY <2>2, <2>3 DEF Listed
<1>4. ASSUME NEW x \in Value
      PROVE  Cardinality({n \in Listed : heap[n].value = x}) =
               Cardinality({v \in DOMAIN Seen : Seen[v] = x})
  <2>. DEFINE S == {n \in live : heap[n].value = x}
  <2>1. {v \in DOMAIN Seen : Seen[v] = x} = Vals(S)
    BY <1>2 DEF SeenIs, Vals
  <2>2. Cardinality(Vals(S)) = Cardinality(S)
    BY SameNumber
  <2>. QED
    BY <1>3, <2>1, <2>2
<1>5. ret' = [x \in Value |-> Cardinality({v \in DOMAIN Seen : Seen[v] = x})]
  BY <1>4 DEF AsList
<1>. QED
  BY <1>1, <1>5 DEF AsList, Abstract!MapAsList, Abstract!dom, Abstract!Cardinality, Cardinality
-----------------------------------------------------------------------------
LEMMA InitRefines == Init => Abstract!MapInit
<1>. SUFFICES ASSUME Init PROVE Abstract!MapInit
  OBVIOUS
<1>1. DOMAIN Seen = {}
  BY InitInv, InvSeenIs DEF SeenIs, Vals, Init, live
<1>2. Seen = [v \in DOMAIN Seen |-> Seen[v]]
  BY DEF Seen
<1>. QED
  BY <1>1, <1>2 DEF Init, Abstract!MapInit

LEMMA NextRefines ==
  Inv /\ [Next]_vars => [Abstract!MapNext]_<<Seen, call, ret>>
<1>. SUFFICES ASSUME Inv, [Next]_vars
              PROVE  Abstract!MapNext \/ UNCHANGED <<Seen, call, ret>>
  OBVIOUS
<1>. Inv'
  BY NextInv
<1>1. ASSUME NEW v \in Key, Get(v) PROVE Abstract!MapNext
  BY <1>1, GetRefines DEF Abstract!MapNext
<1>2. ASSUME NEW v \in Key, NEW x \in Value, FreshKey(v), Put(v, x) PROVE Abstract!MapNext
  BY <1>2, PutRefines DEF Abstract!MapNext
<1>3. ASSUME NEW v \in Key, NEW old \in Value, NEW new \in Value, Replace(v, old, new)
      PROVE  Abstract!MapNext
  BY <1>3, ReplaceRefines DEF Abstract!MapNext
<1>4. ASSUME NEW v \in Key, NEW x \in Value, Remove(v, x) PROVE Abstract!MapNext
  BY <1>4, RemoveRefines DEF Abstract!MapNext
<1>5. CASE Count \/ IsEmpty \/ AsList
  BY <1>5, CountRefines, IsEmptyRefines, AsListRefines DEF Abstract!MapNext
<1>6. CASE UNCHANGED vars
  BY <1>6, SeenSame DEF vars
<1>. QED
  BY <1>1, <1>2, <1>3, <1>4, <1>5, <1>6 DEF Next

(* IntMap is a map from keys to values, whatever chains its keys share:    *)
(* every call answers and leaves behind what MapSpec says                  *)
(* (IntMap.java:40-126).                                                   *)
THEOREM ImplementsMap == Spec => BehavesAsMap
<1>. QED
  BY InitRefines, NextRefines, MapInvariant, PTL
  DEF Spec, BehavesAsMap, Abstract!MapSpecification
=============================================================================
