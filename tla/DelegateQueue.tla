--------------------------- MODULE DelegateQueue ---------------------------
(***************************************************************************)
(* What a loop's delegator promises to the threads that post to it, with   *)
(* no mention of the queue, the mutex or the eventfd that implement it:    *)
(* delegates are run on the loop's thread, one at a time, in the order     *)
(* they were posted, each exactly once, and none is forgotten while the    *)
(* loop lives.  src/src/utils/delegate.c, channel.c and loop.c implement   *)
(* this (module Delegator).                                                *)
(***************************************************************************)
EXTENDS Naturals, Sequences

CONSTANT Delegate   \* what can be posted

VARIABLES
  log,    \* every delegate posted so far, in posting order
  ran,    \* every delegate run so far, in running order
  phase   \* "open", "stopping" (loop_stop was called) or "exited"

vars == <<log, ran, phase>>

Init == log = <<>> /\ ran = <<>> /\ phase = "open"

\* Any thread may post at any time, also to a loop that is gone.
Post(d) == log' = Append(log, d) /\ UNCHANGED <<ran, phase>>

\* The loop runs the oldest delegate it has not run yet; the delegate may
\* call loop_stop.
Run ==
  /\ phase # "exited"
  /\ Len(ran) < Len(log)
  /\ ran' = Append(ran, log[Len(ran) + 1])
  /\ phase' \in {phase, "stopping"}
  /\ UNCHANGED log

\* Some other callback of the loop calls loop_stop.
Stop == phase = "open" /\ phase' = "stopping" /\ UNCHANGED <<log, ran>>

\* The loop notices and returns; what is still posted then is never run.
Exit == phase = "stopping" /\ phase' = "exited" /\ UNCHANGED <<log, ran>>

Next == (\E d \in Delegate : Post(d)) \/ Run \/ Stop \/ Exit

SafeSpec == Init /\ [][Next]_vars

Spec == SafeSpec /\ WF_vars(Run)
=============================================================================
