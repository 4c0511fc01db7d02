---------------------------- MODULE MCWepollPort ----------------------------
(* WepollPort with the masks and conditions of a small program.            *)
EXTENDS WepollPort, TLC

JustIn     == {{"IN"}}
Receive    == {"RECEIVE"}

TwoMasks   == {{"RDHUP"}, {"WRBAND", "MSG"}}
Failure    == {"CONNECT_FAIL"}

MCSymmetry == Permutations(Obj)
=============================================================================
