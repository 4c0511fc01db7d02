------------------------------ MODULE IntMap ------------------------------
(***************************************************************************)
(* IntMap.java: a hash map from int keys (sockets) to objects, an array of *)
(* slots each holding the head of a doubly linked chain of IntMapNodes.    *)
(* The class is not thread safe and never grows: every method runs alone,  *)
(* so every method is one action.                                          *)
(*                                                                         *)
(* The heap is a function whose domain is the set of nodes the map has     *)
(* allocated and not unlinked; a node that is unlinked is garbage and its  *)
(* identity may be allocated again.                                        *)
(***************************************************************************)
EXTENDS Integers, FiniteSets

CONSTANTS
  Key,    \* the int keys (file descriptors)
  Value,  \* the objects stored, compared by reference
  Node,   \* the IntMapNode objects; bounds the number of entries in a run
  Size,   \* the number of slots
  Null

ASSUME SizeAssumption ==
  /\ Size \in Nat \ {0}
  /\ \E n \in 0 .. 30 : Size = 2^n     \* Integer.bitCount(size) = 1
ASSUME KeyAssumption  == Key \subseteq Int
ASSUME NullAssumption == Null \notin Node \cup Value
ASSUME NodeAssumption == IsFiniteSet(Node)

VARIABLES
  nodes,  \* slot -> the first node of its chain
  heap,   \* live node -> its fields
  count,
  call,   \* the latest call: its name and arguments
  ret     \* what it returned

vars == <<nodes, heap, count, call, ret>>

IntMapNode == [val : Key, value : Value, prev : Node \cup {Null},
               next : Node \cup {Null}]

Slots == 0 .. Size - 1
live  == DOMAIN heap

TypeOK ==
  /\ nodes \in [Slots -> Node \cup {Null}]
  /\ live \subseteq Node
  /\ heap \in [live -> IntMapNode]
  /\ count \in Int
---------------------------------------------------------------------------
(* `val & mask` with mask = Size - 1 and Size a power of two, also for a   *)
(* negative val in two's complement.                                       *)
SlotOf(v) == v % Size

(* The nodes a walk `current = current.next` visits when it starts at n:   *)
(* the least set that holds n and is closed under next.                    *)
Closed(S, n) ==
  /\ n \in S \cup {Null}
  /\ \A x \in S : heap[x].next \in S \cup {Null}

Walk(n) == {m \in live : \A S \in SUBSET live : Closed(S, n) => m \in S}

Chain(v) == Walk(nodes[SlotOf(v)])

(* The node of S a walk meets first.                                       *)
First(S) == CHOOSE n \in S : S \subseteq Walk(n)

Matches(v) == {n \in Chain(v) : heap[n].val = v}

Lookup(v) ==
  LET found == Matches(v)
  IN  IF found = {} THEN Null ELSE heap[First(found)].value
---------------------------------------------------------------------------
Init ==
  /\ nodes = [s \in Slots |-> Null]
  /\ heap = [n \in {} |-> Null]
  /\ count = 0
  /\ call = <<"new">>
  /\ ret = Null

Get(v) ==
  /\ call' = <<"get", v>>
  /\ ret' = Lookup(v)
  /\ UNCHANGED <<nodes, heap, count>>

(* Mutant of Put: the new head does not link to the chain.                 *)
PutDropsChain(v, x) ==
  \E n \in Node \ live :
    /\ heap' = [m \in live \cup {n} |->
                  IF m = n THEN [val |-> v, value |-> x, prev |-> Null, next |-> Null]
                           ELSE heap[m]]
    /\ nodes' = [nodes EXCEPT ![SlotOf(v)] = n]
    /\ count' = count + 1
    /\ call' = <<"put", v, x>> /\ ret' = Null

(* put() pushes a new node in front of the chain and does not look for the *)
(* key: IntMap.java:16 leaves that to the caller.                          *)
Put(v, x) ==
  LET s    == SlotOf(v)
      head == nodes[s]
  IN  \E n \in Node \ live :
        /\ heap' = [m \in live \cup {n} |->
                      IF m = n
                      THEN [val |-> v, value |-> x, prev |-> Null, next |-> head]
                      ELSE [heap[m] EXCEPT !.prev = IF m = head THEN n ELSE @]]
        /\ nodes' = [nodes EXCEPT ![s] = n]
        /\ count' = count + 1
        /\ call' = <<"put", v, x>>
        /\ ret' = Null

(* replace() looks on past a node of the key that holds another value, and *)
(* throws FrameworkException(CONTEXT, UNREACHED) at the end of the chain.  *)
Replace(v, old, new) ==
  LET found == {n \in Matches(v) : heap[n].value = old}
  IN  /\ IF found = {}
         THEN heap' = heap /\ ret' = "Unreached"
         ELSE heap' = [heap EXCEPT ![First(found)].value = new] /\ ret' = "done"
      /\ call' = <<"replace", v, old, new>>
      /\ UNCHANGED <<nodes, count>>

(* Mutants of Unlink: the next node keeps its prev; the count stays.       *)
UnlinkOneWay(n) ==
  /\ heap' = [m \in live \ {n} |->
                [heap[m] EXCEPT !.next = IF m = heap[n].prev THEN heap[n].next ELSE @]]
  /\ nodes' = IF heap[n].prev = Null
              THEN [nodes EXCEPT ![SlotOf(heap[n].val)] = heap[n].next]
              ELSE nodes
  /\ count' = count - 1

UnlinkUncounted(n) ==
  /\ heap' = [m \in live \ {n} |->
                [heap[m] EXCEPT !.next = IF m = heap[n].prev THEN heap[n].next ELSE @,
                                !.prev = IF m = heap[n].next THEN heap[n].prev ELSE @]]
  /\ nodes' = IF heap[n].prev = Null
              THEN [nodes EXCEPT ![SlotOf(heap[n].val)] = heap[n].next]
              ELSE nodes
  /\ count' = count

Unlink(n) ==
  LET prev == heap[n].prev
      next == heap[n].next
  IN  /\ heap' = [m \in live \ {n} |->
                    [heap[m] EXCEPT !.next = IF m = prev THEN next ELSE @,
                                    !.prev = IF m = next THEN prev ELSE @]]
      /\ nodes' = IF prev = Null
                  THEN [nodes EXCEPT ![SlotOf(heap[n].val)] = next]
                  ELSE nodes
      /\ count' = count - 1

(* Mutant of Remove: does not compare the value.                           *)
RemoveAnyValue(v, x) ==
  /\ call' = <<"remove", v, x>>
  /\ IF Matches(v) # {}
     THEN Unlink(First(Matches(v))) /\ ret' = TRUE
     ELSE ret' = FALSE /\ UNCHANGED <<nodes, heap, count>>

(* remove() answers for the first node of the key only.                    *)
Remove(v, x) ==
  /\ call' = <<"remove", v, x>>
  /\ IF Matches(v) # {} /\ Lookup(v) = x
     THEN Unlink(First(Matches(v))) /\ ret' = TRUE
     ELSE ret' = FALSE /\ UNCHANGED <<nodes, heap, count>>

Count ==
  /\ call' = <<"count">>
  /\ ret' = count
  /\ UNCHANGED <<nodes, heap, count>>

IsEmpty ==
  /\ call' = <<"isEmpty">>
  /\ ret' = (count = 0)
  /\ UNCHANGED <<nodes, heap, count>>

(* asList() collects the values of every chain, slot by slot; how often    *)
(* each value is in the list is kept, the order is not.                    *)
Listed == UNION {Walk(nodes[s]) : s \in Slots}
AsList ==
  /\ call' = <<"asList">>
  /\ ret' = [x \in Value |-> Cardinality({n \in Listed : heap[n].value = x})]
  /\ UNCHANGED <<nodes, heap, count>>

(* The caller's side of IntMap.java:16: a socket that is put is not in the *)
(* map, because the operating system never hands out an open one.          *)
FreshKey(v) == Lookup(v) = Null

Next ==
  \/ \E v \in Key : Get(v)
  \/ \E v \in Key, x \in Value : FreshKey(v) /\ Put(v, x)
  \/ \E v \in Key, old, new \in Value : Replace(v, old, new)
  \/ \E v \in Key, x \in Value : Remove(v, x)
  \/ Count \/ IsEmpty \/ AsList

Spec == Init /\ [][Next]_vars
---------------------------------------------------------------------------
(* The links of a chain agree in both directions, the head of each slot is *)
(* the one node of it without a prev, and a chain holds only keys of its   *)
(* slot: what remove() relies on when it unlinks a node through prev and   *)
(* next without walking to it again (IntMap.java:90-97).                   *)
LinksOK ==
  /\ \A s \in Slots : nodes[s] # Null =>
       /\ nodes[s] \in live
       /\ SlotOf(heap[nodes[s]].val) = s
       /\ heap[nodes[s]].prev = Null
  /\ \A n \in live :
       /\ heap[n].prev = Null => nodes[SlotOf(heap[n].val)] = n
       /\ heap[n].prev # Null =>
            /\ heap[n].prev \in live
            /\ heap[heap[n].prev].next = n
       /\ heap[n].next # Null =>
            /\ heap[n].next \in live
            /\ heap[heap[n].next].prev = n
            /\ SlotOf(heap[heap[n].next].val) = SlotOf(heap[n].val)

(* No entry is lost: a walk from the slot of its key reaches every live    *)
(* node, so get(), replace(), remove() and asList() all see it. Together   *)
(* with LinksOK it also says that no chain is a ring.                      *)
Reachable == \A n \in live : n \in Chain(heap[n].val)

(* count() is the number of entries a caller can still reach.              *)
CountOK == count = Cardinality(live)

(* A socket is in the map at most once.                                    *)
KeysUnique ==
  \A m, n \in live : heap[m].val = heap[n].val => m = n

Inv == TypeOK /\ LinksOK /\ Reachable /\ CountOK /\ KeysUnique
---------------------------------------------------------------------------
(* The map a caller sees: the keys get() finds, with what it returns.      *)
Seen ==
  LET found == [v \in Key |-> Lookup(v)]
  IN  [v \in {k \in Key : found[k] # Null} |-> found[v]]

Abstract == INSTANCE MapSpec WITH map <- Seen

(* IntMap behaves as a map from keys to values: no operation on one key    *)
(* changes what another key answers, whatever chain they share, and        *)
(* count() and asList() agree with what get() finds (IntMap.java:40-126).  *)
BehavesAsMap == Abstract!MapSpecification
===========================================================================
