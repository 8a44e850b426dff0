--------------------------- MODULE MCPlaySession ---------------------------
(* PlaySession on a queue of two titles of different lengths.              *)
EXTENDS PlaySession, TLC

CONSTANTS a, b

ThreadSymmetry == Permutations(Threads)


MCDurations  == (a :> {2}) @@ (b :> {1})
MCShort      == (a :> {1}) @@ (b :> {1})
MCViewOffset == (a :> 1) @@ (b :> 0)
MCNoOffset   == (a :> 0) @@ (b :> 0)
MCNextItem   == (a :> b) @@ (b :> NoKey)
MCPrevItem   == (a :> NoKey) @@ (b :> a)
=============================================================================
