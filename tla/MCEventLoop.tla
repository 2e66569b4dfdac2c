---------------------------- MODULE MCEventLoop ----------------------------
(***************************************************************************)
(* A watch and two timers besides the delegator's watch, so that a         *)
(* callback finds others of its batch behind it; two defers, so that one   *)
(* is swapped into the place of the other while both are freed.  Three     *)
(* operations of callbacks: enough to free one object, set a second, and   *)
(* create or free a third.  The defers are symmetric.                      *)
(***************************************************************************)
EXTENDS EventLoop

CONSTANTS delegator, io, pos, once, d1, d2

MCWatches == {delegator, io}
MCTimers == {pos, once}
MCPeriodic == {pos}
MCDefers == {d1, d2}
MCMaxOps == 3
MCSymmetry == Permutations(MCDefers)
=============================================================================
