---------------------------- MODULE MCDelegator ----------------------------
(***************************************************************************)
(* The loop with two posting threads, as in oka, where each loop is posted *)
(* to by the other loop's thread and by the diagnostics thread.  Three     *)
(* posts let one delegate be queued behind another while a third is being  *)
(* pushed, which is as far as the two positions that matter (the head of   *)
(* the queue, and "something behind it") go.                               *)
(***************************************************************************)
EXTENDS Delegator

CONSTANTS main, diag, message

MCPosters == {main, diag}
MCDelegates == {message}
MCMaxPosts == 3
=============================================================================
