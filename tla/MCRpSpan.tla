------------------------------ MODULE MCRpSpan ------------------------------
(***************************************************************************)
(* The requests RpSpan is checked with: one span for blocks, a large one   *)
(* of three spans, and a huge one.                                         *)
(***************************************************************************)
EXTENDS RpSpan

MCSymmetry == Permutations(Thread)

MCRequests == {<<"small", 1>>, <<"large", 3>>, <<"huge", 6>>}
=============================================================================
