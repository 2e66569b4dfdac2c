------------------------------- MODULE Defer --------------------------------
(***************************************************************************)
(* utils/defer.c: a list of deferred callbacks.  defer_run calls each that *)
(* is enabled, and again those that were rescheduled meanwhile, until      *)
(* there are none; callbacks add, enable, disable, reschedule and free.    *)
(***************************************************************************)
EXTENDS Integers, Sequences, SequencesExt

CONSTANTS Callbacks, \* struct deferred, each added at most once
          NULL,
          MaxOps     \* bound: operations during a run

VARIABLES vec, enabled, freed,
          resched,     \* those whose rescheduled is set
          rescheduled, \* that of struct defer
          pc,          \* "idle", or defer_run's loop: "first", "again" or "collect"
          i, cb, ops,
          owed         \* history: enabled since, and not called since, the run
                       \* began or they were rescheduled in it

vars == <<vec, enabled, freed, resched, rescheduled, pc, i, cb, ops, owed>>

Init == /\ vec = <<>> /\ enabled = {} /\ freed = {} /\ resched = {}
        /\ rescheduled = FALSE /\ pc = "idle" /\ i = 1 /\ cb = NULL
        /\ ops = 0 /\ owed = {}

\* Before a run as often as one likes, in it from a callback.
Operation ==
  /\ \/ pc = "idle" /\ UNCHANGED ops
     \/ cb # NULL /\ ops < MaxOps /\ ops' = ops + 1
  /\ UNCHANGED <<pc, i, cb>>

Live == ToSet(vec) \ freed

Add(d) ==
  /\ Operation /\ d \notin ToSet(vec) \cup freed
  /\ vec' = Append(vec, d) /\ enabled' = enabled \cup {d}
  /\ UNCHANGED <<freed, resched, rescheduled, owed>>

Enable(d, b) ==
  /\ Operation /\ d \in Live
  /\ enabled' = IF b THEN enabled \cup {d} ELSE enabled \ {d}
  /\ owed' = IF b THEN owed ELSE owed \ {d}
  /\ UNCHANGED <<vec, freed, resched, rescheduled>>

\* Mutant: only the deferred is marked.
RescheduleOne(d) ==
  /\ Operation /\ d \in Live
  /\ resched' = resched \cup {d} /\ owed' = owed \cup (enabled \cap {d})
  /\ UNCHANGED <<vec, enabled, freed, rescheduled>>

Reschedule(d) ==
  /\ Operation /\ d \in Live
  /\ resched' = resched \cup {d} /\ rescheduled' = TRUE
  /\ owed' = owed \cup (enabled \cap {d})
  /\ UNCHANGED <<vec, enabled, freed>>

Free(d) ==
  /\ Operation /\ d \in Live
  /\ enabled' = enabled \ {d} /\ resched' = resched \ {d} /\ freed' = freed \cup {d}
  /\ owed' = owed \ {d}
  /\ UNCHANGED <<vec, rescheduled>>

Run ==
  /\ pc = "idle" /\ pc' = "first" /\ i' = 1 /\ ops' = 0
  /\ rescheduled' = FALSE /\ owed' = enabled
  /\ UNCHANGED <<vec, enabled, freed, resched, cb>>

\* The next element: called if it is enabled and, the first time aside, marked.
Step ==
  /\ pc \in {"first", "again"} /\ cb = NULL /\ i <= Len(vec)
  /\ LET d == vec[i]
         called == d \in enabled /\ (pc = "first" \/ d \in resched)
     IN /\ cb' = IF called THEN d ELSE NULL
        /\ owed' = IF called THEN owed \ {d} ELSE owed
        /\ resched' = IF called \/ pc = "first" THEN resched \ {d} ELSE resched
  /\ i' = i + 1
  /\ UNCHANGED <<vec, enabled, freed, rescheduled, pc, ops>>

Return == cb # NULL /\ cb' = NULL
          /\ UNCHANGED <<vec, enabled, freed, resched, rescheduled, pc, i, ops, owed>>

\* Mutant: what was rescheduled is not forgotten before the next pass.
AgainForever ==
  /\ pc \in {"first", "again"} /\ cb = NULL /\ i > Len(vec)
  /\ pc' = IF rescheduled THEN "again" ELSE "collect"
  /\ i' = 1
  /\ UNCHANGED <<vec, enabled, freed, resched, cb, ops, owed, rescheduled>>

Again ==
  /\ pc \in {"first", "again"} /\ cb = NULL /\ i > Len(vec)
  /\ pc' = IF rescheduled THEN "again" ELSE "collect"
  /\ rescheduled' = FALSE /\ i' = 1
  /\ UNCHANGED <<vec, enabled, freed, resched, cb, ops, owed>>

Collect ==
  /\ pc = "collect"
  /\ IF i > Len(vec) THEN pc' = "idle" /\ i' = 1 /\ UNCHANGED vec
     ELSE IF vec[i] \in freed
     THEN vec' = Front([vec EXCEPT ![i] = Last(vec)]) /\ UNCHANGED <<pc, i>>
     ELSE i' = i + 1 /\ UNCHANGED <<vec, pc>>
  /\ UNCHANGED <<enabled, freed, resched, rescheduled, cb, ops, owed>>

Next ==
  \/ \E d \in Callbacks : Add(d) \/ Reschedule(d) \/ Free(d) \/ \E b \in BOOLEAN : Enable(d, b)
  \/ Run \/ Step \/ Return \/ Again \/ Collect

\* defer_run goes on and callbacks return.
Fairness == WF_vars(Step \/ Return \/ Again \/ Collect)

Spec == Init /\ [][Next]_vars /\ Fairness

\* Types, and what is marked or enabled is in the list, alive.
TypeOK ==
  /\ vec \in Seq(Callbacks) /\ IsInjective(vec) /\ freed \subseteq Callbacks
  /\ enabled \cup resched \cup owed \subseteq Live
  /\ rescheduled \in BOOLEAN /\ pc \in {"idle", "first", "again", "collect"}
  /\ i \in 1 .. Len(vec) + 1 /\ cb \in Callbacks \cup {NULL} /\ ops \in 0 .. MaxOps

\* defer_run does not end before each that was enabled all along, and each
\* that a callback rescheduled, wherever it is in the list, has been called.
NoneForgotten == pc = "collect" => owed = {}

\* After a run the list holds nothing that was freed in it.
Collected == [][pc = "collect" /\ pc' = "idle" => ToSet(vec) \cap freed = {}]_vars

\* defer_run returns when callbacks stop rescheduling.
RunReturns == pc = "first" ~> pc = "idle"

\* However callbacks change the list while it is run: all are served, what was freed is
\* gone, and the run ends.
ListServed == []TypeOK /\ []NoneForgotten /\ Collected /\ RunReturns
=============================================================================
