------------------------------ MODULE MapSpec ------------------------------
(***************************************************************************)
(* What IntMap promises its caller: a finite map from keys to values. The  *)
(* chains, the slots and the counter are gone; every answer is a function  *)
(* of the map and of the call.                                             *)
(***************************************************************************)
EXTENDS Integers, FiniteSets

CONSTANTS Key, Value, Null

VARIABLES
  map,
  call,  \* the latest call: its name and arguments
  ret    \* what it returned

dom == DOMAIN map

MapInit == map = [v \in {} |-> Null] /\ call = <<"new">> /\ ret = Null

MapGet(v) ==
  /\ call' = <<"get", v>>
  /\ ret' = IF v \in dom THEN map[v] ELSE Null
  /\ map' = map

MapPut(v, x) ==
  /\ call' = <<"put", v, x>>
  /\ v \notin dom
  /\ map' = [k \in dom \cup {v} |-> IF k = v THEN x ELSE map[k]]
  /\ ret' = Null

MapReplace(v, old, new) ==
  /\ call' = <<"replace", v, old, new>>
  /\ IF v \in dom /\ map[v] = old
     THEN map' = [map EXCEPT ![v] = new] /\ ret' = "done"
     ELSE map' = map /\ ret' = "Unreached"

MapRemove(v, x) ==
  /\ call' = <<"remove", v, x>>
  /\ ret' = (v \in dom /\ map[v] = x)
  /\ map' = IF ret' THEN [k \in dom \ {v} |-> map[k]] ELSE map

MapCount ==
  /\ call' = <<"count">>
  /\ ret' = Cardinality(dom)
  /\ map' = map

MapIsEmpty ==
  /\ call' = <<"isEmpty">>
  /\ ret' = (dom = {})
  /\ map' = map

MapAsList ==
  /\ call' = <<"asList">>
  /\ ret' = [x \in Value |-> Cardinality({v \in dom : map[v] = x})]
  /\ map' = map

MapNext ==
  \/ \E v \in Key : MapGet(v)
  \/ \E v \in Key, x \in Value : MapPut(v, x) \/ MapRemove(v, x)
  \/ \E v \in Key, old, new \in Value : MapReplace(v, old, new)
  \/ MapCount \/ MapIsEmpty \/ MapAsList

MapSpecification == MapInit /\ [][MapNext]_<<map, call, ret>>
===========================================================================
