------------------------------- MODULE RBTree -------------------------------
(***************************************************************************)
(* The red-black tree of c/wepoll.c that finds ports by their handle and   *)
(* sockets by theirs: tree_add(), tree_del() and tree_find() as functions  *)
(* on trees. Nodes are their keys. What tree_del() leaves in the node it   *)
(* takes out is not kept: tree_add() sets every field of a node.           *)
(***************************************************************************)
EXTENDS Integers, FiniteSets

CONSTANT TreeSize   \* the number of nodes of the largest tree looked at

Keys == 0 .. 2 * TreeSize   \* keys of nodes are odd; every gap has a key
Nil  == -1
Side == {"left", "right"}

Other(side) == IF side = "left" THEN "right" ELSE "left"

(* tree_t and its nodes: kid[side] is the field left or right.             *)
EmptyTree == [root   |-> Nil,
              kid    |-> [s \in Side |-> [k \in Keys |-> Nil]],
              parent |-> [k \in Keys |-> Nil],
              red    |-> [k \in Keys |-> FALSE]]

SetKid(t, side, n, c)  == [t EXCEPT !.kid[side][n] = c]
SetParent(t, n, p)     == IF n = Nil THEN t ELSE [t EXCEPT !.parent[n] = p]
SetRed(t, n, isRed)    == [t EXCEPT !.red[n] = isRed]
Red(t, n)              == n # Nil /\ t.red[n]

(* What hangs at the place of n hereafter.                                 *)
Replace(t, n, by) ==
  LET p == t.parent[n]
  IN  IF p = Nil THEN [t EXCEPT !.root = by]
      ELSE SetKid(t, IF t.kid["left"][p] = n THEN "left" ELSE "right", p, by)

(* TREE__ROTATE                                                            *)
Rotate(t, cis, p) ==
  LET q == t.kid[Other(cis)][p]
      c == t.kid[cis][q]
      u == SetParent(SetParent(SetParent(Replace(t, p, q), q, t.parent[p]), p, q), c, p)
  IN  SetKid(SetKid(u, Other(cis), p, c), cis, q, p)
-----------------------------------------------------------------------------
(* The loop of tree_add(), TREE__REBALANCE_AFTER_INSERT: node is red, and  *)
(* so may be its parent.                                                   *)
RECURSIVE AfterInsert(_, _)
AfterInsert(t, node) ==
  LET parent == t.parent[node]
      grand  == t.parent[parent]
      cis    == IF parent = t.kid["left"][grand] THEN "left" ELSE "right"
      trans  == Other(cis)
      uncle  == t.kid[trans][grand]
      inner  == node = t.kid[trans][parent]
      top    == IF inner THEN node ELSE parent
      u      == IF inner THEN Rotate(t, cis, parent) ELSE t
  IN  IF ~Red(t, parent) THEN t
      ELSE IF Red(t, uncle)
      THEN AfterInsert(SetRed(SetRed(SetRed(t, parent, FALSE), uncle, FALSE), grand, TRUE),
                       grand)
      ELSE Rotate(SetRed(SetRed(u, top, FALSE), grand, TRUE), trans, grand)

(* Where the search for key ends: at its node, or at the node it would     *)
(* hang under.                                                             *)
Toward(key, n) == IF key < n THEN "left" ELSE "right"

RECURSIVE Descend(_, _, _)
Descend(t, key, n) ==
  LET c == t.kid[Toward(key, n)][n]
  IN  IF n = key \/ c = Nil THEN n ELSE Descend(t, key, c)

TreeFind(t, key) ==
  IF t.root # Nil /\ Descend(t, key, t.root) = key THEN key ELSE Nil

(* The tree after tree_add(); t itself if that returns -1.                 *)
TreeAdd(t, key) ==
  LET parent == Descend(t, key, t.root)
      hung   == IF t.root = Nil THEN [t EXCEPT !.root = key]
                ELSE SetKid(t, Toward(key, parent), parent, key)
      node   == SetRed(SetKid(SetKid([hung EXCEPT !.parent[key] =
                                        IF t.root = Nil THEN Nil ELSE parent],
                                     "left", key, Nil), "right", key, Nil), key, TRUE)
      done   == AfterInsert(node, key)
  IN  IF TreeFind(t, key) = key THEN t ELSE SetRed(done, done.root, FALSE)
-----------------------------------------------------------------------------
(* The loop of tree_del(), TREE__REBALANCE_AFTER_REMOVE: the paths through *)
(* node, which hangs under parent and may be none, are one black short.    *)
RECURSIVE AfterRemove(_, _, _)
AfterRemove(t, node, parent) ==
  LET cis   == IF node = t.kid["left"][parent] THEN "left" ELSE "right"
      trans == Other(cis)
      first == t.kid[trans][parent]
      u     == IF Red(t, first)
               THEN Rotate(SetRed(SetRed(t, first, FALSE), parent, TRUE), cis, parent)
               ELSE t
      near  == u.kid[trans][parent]
      v     == IF Red(u, u.kid[trans][near]) THEN u
               ELSE Rotate(SetRed(SetRed(u, u.kid[cis][near], FALSE), near, TRUE), trans, near)
      sib   == v.kid[trans][parent]
      w     == SetRed(SetRed(SetRed(v, sib, v.red[parent]), parent, FALSE),
                      v.kid[trans][sib], FALSE)
  IN  IF node = t.root \/ Red(t, node) THEN IF node = Nil THEN t ELSE SetRed(t, node, FALSE)
      ELSE IF \E side \in Side : Red(u, u.kid[side][near])
      THEN LET x == Rotate(w, cis, parent) IN SetRed(x, x.root, FALSE)
      ELSE AfterRemove(SetRed(u, near, TRUE), parent, u.parent[parent])

RECURSIVE Leftmost(_, _)
Leftmost(t, n) == IF t.kid["left"][n] = Nil THEN n ELSE Leftmost(t, t.kid["left"][n])

(* A deleted node's fields, as those of a node never used.                 *)
Forget(t, n) ==
  SetRed([SetKid(SetKid(t, "left", n, Nil), "right", n, Nil) EXCEPT !.parent[n] = Nil],
         n, FALSE)

(* tree_del() of a node with at most one child: the tree without it, the   *)
(* child that took its place, and the parent of that.                      *)
Spliced(t, node) ==
  LET next == IF t.kid["left"][node] = Nil THEN t.kid["right"][node] ELSE t.kid["left"][node]
  IN  [tree |-> SetParent(Replace(t, node, next), next, t.parent[node]),
       node |-> next, parent |-> t.parent[node], red |-> t.red[node]]

(* tree_del() of a node with two: its successor takes its place and color, *)
(* and what is missing is the successor, from where it was.                *)
Swapped(t, node) ==
  LET left  == t.kid["left"][node]
      right == t.kid["right"][node]
      next  == Leftmost(t, right)
      below == t.kid["right"][next]
      hung  == IF next = right THEN next ELSE t.parent[next]
      u     == SetParent(SetKid(SetRed(Replace(t, node, next), next, t.red[node]),
                                "left", next, left), left, next)
      v     == IF next = right THEN u
               ELSE SetParent(SetKid(SetKid(u, "left", hung, below), "right", next, right),
                              right, next)
  IN  [tree |-> SetParent(SetParent(v, next, t.parent[node]), below, hung),
       node |-> below, parent |-> hung, red |-> t.red[next]]

(* Mutant of TreeDel: the successor brings its own color along.            *)
TreeDelOwnColor(t, node) ==
  LET two == \A side \in Side : t.kid[side][node] # Nil
      cut == IF two THEN Swapped(t, node) ELSE Spliced(t, node)
      own == IF two THEN SetRed(cut.tree, Leftmost(t, t.kid["right"][node]), cut.red)
             ELSE cut.tree
  IN  IF cut.red THEN Forget(own, node)
      ELSE Forget(AfterRemove(own, cut.node, cut.parent), node)

TreeDel(t, node) ==
  LET two == \A side \in Side : t.kid[side][node] # Nil
      cut == IF two THEN Swapped(t, node) ELSE Spliced(t, node)
  IN  IF cut.red THEN Forget(cut.tree, node)
      ELSE Forget(AfterRemove(cut.tree, cut.node, cut.parent), node)
-----------------------------------------------------------------------------
RECURSIVE Under(_, _)
Under(t, n) ==
  IF n = Nil THEN {} ELSE {n} \cup UNION {Under(t, t.kid[side][n]) : side \in Side}

Nodes(t) == Under(t, t.root)

(* The black nodes on the way down from n, if all ways have as many.       *)
RECURSIVE BlackHeight(_, _)
BlackHeight(t, n) ==
  IF n = Nil THEN 0
  ELSE LET l == BlackHeight(t, t.kid["left"][n])
           r == BlackHeight(t, t.kid["right"][n])
       IN  IF l # r \/ l = Nil THEN Nil ELSE l + (IF t.red[n] THEN 0 ELSE 1)

(* A red-black tree with sound links: the search order, the parents, the   *)
(* black root, no red node under a red one, and equal black heights.       *)
RedBlack(t) ==
  /\ \A n \in Nodes(t) :
        /\ \A k \in Under(t, t.kid["left"][n])  : k < n
        /\ \A k \in Under(t, t.kid["right"][n]) : k > n
        /\ \A side \in Side :
             LET c == t.kid[side][n]
             IN  c # Nil => t.parent[c] = n /\ ~(t.red[n] /\ t.red[c])
  /\ t.root # Nil => t.parent[t.root] = Nil /\ ~t.red[t.root]
  /\ BlackHeight(t, t.root) # Nil

(* The red-black subtrees on the odd keys above 2*lo and below 2*hi, of a  *)
(* black height and with a root that may be red.                           *)
RECURSIVE Subtrees(_, _, _, _)
Subtrees(lo, hi, black, mayBeRed) ==
  IF lo = hi THEN IF black = 0 THEN {[EmptyTree EXCEPT !.root = Nil]} ELSE {}
  ELSE UNION {
    LET top == 2 * mid + 1
    IN  {LET t == [kid    |-> [s \in Side |-> [k \in Keys |->
                                 IF k = top THEN (IF s = "left" THEN l.root ELSE r.root)
                                 ELSE IF k < top THEN l.kid[s][k] ELSE r.kid[s][k]]],
                   parent |-> [k \in Keys |->
                                 IF k \in {l.root, r.root} THEN top
                                 ELSE IF k < top THEN l.parent[k] ELSE r.parent[k]],
                   red    |-> [k \in Keys |-> IF k = top THEN color
                                              ELSE l.red[k] \/ r.red[k]],
                   root   |-> top]
         IN t :
         l \in Subtrees(lo, mid, IF color THEN black ELSE black - 1, ~color),
         r \in Subtrees(mid + 1, hi, IF color THEN black ELSE black - 1, ~color)}
    : mid \in lo .. hi - 1, color \in {c \in BOOLEAN : (c => mayBeRed) /\ (~c => black > 0)}}

(* Every red-black tree of up to TreeSize nodes. No path has more than     *)
(* four black nodes in one of up to fourteen.                              *)
Trees == UNION {Subtrees(0, n, black, FALSE) : n \in 0 .. TreeSize, black \in 0 .. 4}

(* What each operation does to any of them: a red-black tree is left, with *)
(* the nodes it should have, and the search finds those and no other.      *)
AddKeepsTree ==
  \A t \in Trees : \A key \in Keys :
    LET u == TreeAdd(t, key) IN RedBlack(u) /\ Nodes(u) = Nodes(t) \cup {key}

DelKeepsTree ==
  \A t \in Trees : \A key \in Nodes(t) :
    LET u == TreeDel(t, key) IN RedBlack(u) /\ Nodes(u) = Nodes(t) \ {key}

FindIsExact ==
  \A t \in Trees : \A key \in Keys :
    TreeFind(t, key) = (IF key \in Nodes(t) THEN key ELSE Nil)
=============================================================================
