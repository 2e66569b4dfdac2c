----------------------------- MODULE MCMainloop -----------------------------
(***************************************************************************)
(* One io event, so that it is disabled, set or freed by a callback of its *)
(* batch, and two kinds beside it; the clock takes a step, so that a time  *)
(* is set after, at and before the one that has just expired.              *)
(***************************************************************************)
EXTENDS Mainloop

CONSTANTS io, t1, d1

MCIos == {io}
MCTimes == {t1}
MCDefers == {d1}
=============================================================================
