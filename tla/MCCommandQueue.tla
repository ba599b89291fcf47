--------------------------- MODULE MCCommandQueue ---------------------------
(* Instance of CommandQueue for TLC: two lanes, both with resets, timeouts    *)
(* and changes of concurrency, and one waiter.                                *)
EXTENDS CommandQueue, TLC

\* The names of the lanes are interchangeable.
LaneSymmetry == Permutations(Lanes)

=============================================================================
