------------------------------ MODULE MCRpSize ------------------------------
(* RpSize with the sizes next to every limit of the source, and some between.*)
EXTENDS RpSize

MCSizes ==
  {0, 129, SMALL_SIZE_LIMIT, SMALL_SIZE_LIMIT + 1, MediumLimit, MediumLimit + 1,
   2 * SPAN - SPAN_HEADER_SIZE, 3 * SPAN, LARGE_SIZE_LIMIT, LARGE_SIZE_LIMIT + 1}

(* Linux and older macOS, newer macOS, Windows.                             *)
MCPlatforms ==
  {[page |-> 4096,  granularity |-> 4096],
   [page |-> 16384, granularity |-> 16384],
   [page |-> 4096,  granularity |-> 65536]}

(* TLC's view of a state: the bytes moved are written by every action and  *)
(* read by none, so they say nothing of what comes next; DataKept is       *)
(* checked on every step all the same.                                     *)
AllButMoved == <<platform, block, size, align, mapped, errno>>
=============================================================================
