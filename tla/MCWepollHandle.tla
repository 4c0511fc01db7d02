--------------------------- MODULE MCWepollHandle ---------------------------
(* WepollHandle on the red-black tree its handles are kept in. A step that  *)
(* changes the tree adds or deletes one handle, whatever other handles the  *)
(* process has: every red-black tree of up to TreeSize nodes.               *)
EXTENDS WepollHandle, RBTree

(* epoll_create() and epoll_close() leave a red-black tree with one handle  *)
(* more or less, whichever that is, and a lookup finds the handles that are *)
(* in the tree and no other (wepoll.c:1973-2181): no rotation or recoloring *)
(* loses, doubles or misplaces a port.                                      *)
TreeOps ==
  [][/\ FindIsExact
     /\ DOMAIN tree' \ DOMAIN tree # {} => AddKeepsTree
     /\ DOMAIN tree \ DOMAIN tree' # {} => DelKeepsTree]_vars
=============================================================================
