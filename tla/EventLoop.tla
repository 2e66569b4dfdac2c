----------------------------- MODULE EventLoop -----------------------------
(***************************************************************************)
(* loop.c on one thread: watches, timers and deferred callbacks, which     *)
(* callbacks create, set and free while the loop goes through them, and    *)
(* the garbage the loop collects once an iteration.  Its users are         *)
(* plugins/pulse/mainloop.c, player.c and main.c: a watch keeps its file   *)
(* descriptor, a freed object is not used again, its callback's data are   *)
(* gone at once, and a periodic timer is not freed by its own callback.    *)
(***************************************************************************)
EXTENDS Integers, Sequences, SequencesExt

CONSTANTS
  Watches, Timers, Defers,  \* objects, each created at most once
  DelegatorWatch,           \* the loop's own watch
  Periodic,                 \* timers with an interval
  MaxOps,                   \* bound: operations of callbacks
  NULL

ASSUME ConstantsAssumption ==
  /\ DelegatorWatch \in Watches
  /\ Periodic \subseteq Timers
  /\ MaxOps \in Nat
  /\ NULL \notin Watches \cup Timers \cup Defers
  /\ Watches \cap Timers = {} /\ (Watches \cup Timers) \cap Defers = {}

Sources == Watches \cup Timers
Objects == Sources \cup Defers

VARIABLES
  mem,      \* "none", "live", "freed" (by its user) or "gone" (its memory)
  on,       \* sources whose fd is not -1, which epoll watches
  armed,    \* timers that are going to expire
  due,      \* expirations not read yet
  deferred, \* loop.deferred
  enabled,  \* defers that are enabled
  lpc,      \* where the loop is
  idx,      \* its index into deferred
  cb,       \* whose callback runs
  calls,    \* calls of a timer's callback still to make
  batch,    \* sources whose events are not handled yet
  force,    \* loop.force_iteration
  running,  \* loop.running
  objs,     \* loop.objs
  ops,      \* operations so far
  ran,      \* history: enabled defers that ran since they were enabled
  late      \* history: defers enabled by a deferred callback behind them

sourceVars == <<on, armed, due>>
deferVars  == <<deferred, enabled, ran, late>>
loopVars   == <<lpc, idx, cb, calls, batch>>
vars == <<mem, sourceVars, deferVars, loopVars, force, running, objs, ops>>

\* loop_new
Init ==
  /\ mem = [o \in Objects |-> IF o = DelegatorWatch THEN "live" ELSE "none"]
  /\ on = {DelegatorWatch} /\ armed = {} /\ due = [t \in Timers |-> 0]
  /\ deferred = <<>> /\ enabled = {} /\ ran = {} /\ late = {}
  /\ lpc = "setup" /\ idx = 1 /\ cb = NULL /\ calls = 0 /\ batch = {}
  /\ force = FALSE /\ running = TRUE /\ objs = 1 /\ ops = 0

-----------------------------------------------------------------------------
(* The operations, called before loop_run, by callbacks, or after loop_run *)
(* has returned, when they only free.                                      *)

Operation(o) ==
  /\ \/ lpc = "setup" /\ mem[o] \in {"none", "live"} /\ UNCHANGED ops
     \/ cb # NULL /\ ops < MaxOps /\ ops' = ops + 1
  /\ UNCHANGED <<loopVars, running>>

Release ==
  /\ \/ lpc = "exited" /\ UNCHANGED ops
     \/ cb # NULL /\ ops < MaxOps /\ ops' = ops + 1
  /\ UNCHANGED <<loopVars, running>>

Create(o) ==
  /\ Operation(o)
  /\ mem[o] = "none" /\ mem' = [mem EXCEPT ![o] = "live"]
  /\ objs' = objs + 1
  /\ UNCHANGED force

WatchNew(w) == Create(w) /\ UNCHANGED <<sourceVars, deferVars>>

\* loop_watch_set, or loop_watch_disable.
WatchSet(w) ==
  /\ Operation(w) /\ mem[w] = "live" /\ w # DelegatorWatch
  /\ \E b \in BOOLEAN : on' = IF b THEN on \cup {w} ELSE on \ {w}
  /\ UNCHANGED <<mem, armed, due, deferVars, force, objs>>

\* Mutant: the watch stays with epoll.
WatchFreeEnabled(w) ==
  /\ Release /\ mem[w] = "live" /\ w # DelegatorWatch
  /\ mem' = [mem EXCEPT ![w] = "freed"]
  /\ UNCHANGED <<sourceVars, deferVars, force, objs>>

WatchFree(w) ==
  /\ Release /\ mem[w] = "live" /\ w # DelegatorWatch
  /\ mem' = [mem EXCEPT ![w] = "freed"]
  /\ on' = on \ {w}
  /\ UNCHANGED <<armed, due, deferVars, force, objs>>

TimerNew(t) == Create(t) /\ on' = on \cup {t} /\ UNCHANGED <<armed, due, deferVars>>

\* loop_timer_set, or loop_timer_disable: either way what has expired and
\* was not read is forgotten.
TimerSet(t) ==
  /\ Operation(t) /\ mem[t] = "live"
  /\ \E b \in BOOLEAN : armed' = IF b THEN armed \cup {t} ELSE armed \ {t}
  /\ due' = [due EXCEPT ![t] = 0]
  /\ UNCHANGED <<mem, on, deferVars, force, objs>>

TimerFree(t) ==
  /\ Release /\ mem[t] = "live" /\ ~(t \in Periodic /\ cb = t)
  /\ mem' = [mem EXCEPT ![t] = "freed"]
  /\ on' = on \ {t} /\ armed' = armed \ {t} /\ due' = [due EXCEPT ![t] = 0]
  /\ UNCHANGED <<deferVars, force, objs>>

DeferNew(d) ==
  /\ Create(d)
  /\ deferred' = Append(deferred, d)
  /\ enabled' = enabled \cup {d}
  /\ UNCHANGED <<sourceVars, ran, late>>

\* loop_defer_set; player.c forces an iteration along with it, the mainloop
\* of the pulse plugin does not.
DeferSet(d) ==
  /\ Operation(d) /\ mem[d] = "live"
  /\ \E b, forced \in BOOLEAN :
       /\ enabled' = IF b THEN enabled \cup {d} ELSE enabled \ {d}
       /\ force' = (force \/ (b /\ forced))
       /\ LET passed == lpc = "defer" /\ \E i \in 1 .. idx - 1 : deferred[i] = d
          IN IF b /\ d \notin enabled
             THEN /\ ran' = ran \ {d}
                  /\ late' = IF passed THEN late \cup {d} ELSE late \ {d}
             ELSE UNCHANGED <<ran, late>>
  /\ UNCHANGED <<mem, sourceVars, deferred, objs>>

\* The last element takes the place of the removed one.
SwapRemove(s, i) == Front([s EXCEPT ![i] = Last(s)])

\* Mutant: the defer is removed from the vector at once.
DeferFreeNow(d) ==
  /\ Release /\ mem[d] = "live"
  /\ mem' = [mem EXCEPT ![d] = "gone"]
  /\ enabled' = enabled \ {d}
  /\ deferred' = SwapRemove(deferred, CHOOSE i \in DOMAIN deferred : deferred[i] = d)
  /\ objs' = objs - 1
  /\ UNCHANGED <<sourceVars, ran, late, force>>

DeferFree(d) ==
  /\ Release /\ mem[d] = "live"
  /\ mem' = [mem EXCEPT ![d] = "freed"]
  /\ enabled' = enabled \ {d}
  /\ UNCHANGED <<sourceVars, deferred, ran, late, force, objs>>

\* loop_stop
StopLoop ==
  /\ cb # NULL /\ running /\ running' = FALSE
  /\ UNCHANGED <<mem, sourceVars, deferVars, loopVars, force, objs, ops>>

\* The callback returns; a timer's is called once for each expiration.
Return ==
  /\ cb # NULL
  /\ \/ calls > 1 /\ calls' = calls - 1 /\ UNCHANGED cb
     \/ calls <= 1 /\ calls' = 0 /\ cb' = NULL
  /\ UNCHANGED <<mem, sourceVars, deferVars, lpc, idx, batch, force, running, objs, ops>>

-----------------------------------------------------------------------------
(* loop_run and loop_free.                                                 *)

\* The head of loop_run's loop.
TestRunning ==
  /\ lpc \in {"setup", "batch"} /\ cb = NULL /\ batch = {}
  /\ lpc' = IF running THEN "defer" ELSE "exited"
  /\ idx' = 1
  /\ late' = {}
  /\ UNCHANGED <<mem, sourceVars, deferred, enabled, ran, cb, calls, batch, force,
                 running, objs, ops>>

\* loop_run_deferred; the vector may grow meanwhile.
RunDeferred ==
  /\ lpc = "defer" /\ cb = NULL
  /\ IF idx > Len(deferred)
     THEN lpc' = "sources" /\ UNCHANGED <<idx, cb, ran>>
     ELSE /\ IF deferred[idx] \in enabled
             THEN cb' = deferred[idx] /\ ran' = ran \cup {deferred[idx]}
             ELSE UNCHANGED <<cb, ran>>
          /\ idx' = idx + 1
          /\ UNCHANGED lpc
  /\ UNCHANGED <<mem, sourceVars, deferred, enabled, late, calls, batch, force,
                 running, objs, ops>>

\* loop_collect_garbage: first the two lists of sources ...
CollectSources ==
  /\ lpc = "sources"
  /\ LET garbage == {s \in Sources : mem[s] = "freed"}
     IN /\ mem' = [o \in Objects |-> IF o \in garbage THEN "gone" ELSE mem[o]]
        /\ objs' = objs - Cardinality(garbage)
  /\ lpc' = "defers" /\ idx' = 1
  /\ UNCHANGED <<sourceVars, deferVars, cb, calls, batch, force, running, ops>>

Collected == IF mem[DelegatorWatch] = "gone" THEN "dead" ELSE "wait"

\* Mutant: the element that was swapped in is not looked at.
CollectDefersSkip ==
  /\ lpc = "defers"
  /\ IF idx > Len(deferred)
     THEN lpc' = Collected /\ UNCHANGED <<mem, deferred, idx, objs>>
     ELSE /\ IF mem[deferred[idx]] = "freed"
             THEN /\ mem' = [mem EXCEPT ![deferred[idx]] = "gone"]
                  /\ objs' = objs - 1
                  /\ deferred' = SwapRemove(deferred, idx)
             ELSE UNCHANGED <<mem, objs, deferred>>
          /\ idx' = idx + 1
          /\ UNCHANGED lpc
  /\ UNCHANGED <<sourceVars, enabled, ran, late, cb, calls, batch, force, running, ops>>

\* ... then the vector of defers, one by one.
CollectDefers ==
  /\ lpc = "defers"
  /\ IF idx > Len(deferred)
     THEN lpc' = Collected /\ UNCHANGED <<mem, deferred, idx, objs>>
     ELSE /\ IF mem[deferred[idx]] = "freed"
             THEN /\ mem' = [mem EXCEPT ![deferred[idx]] = "gone"]
                  /\ objs' = objs - 1
                  /\ deferred' = SwapRemove(deferred, idx)
                  /\ UNCHANGED idx
             ELSE idx' = idx + 1 /\ UNCHANGED <<mem, objs, deferred>>
          /\ UNCHANGED lpc
  /\ UNCHANGED <<sourceVars, enabled, ran, late, cb, calls, batch, force, running, ops>>

\* epoll_wait returns some events, none if the iteration is forced or a
\* signal interrupts it.
EpollWait ==
  /\ lpc = "wait"
  /\ \E events \in SUBSET {s \in on : s \in Timers => due[s] > 0} : batch' = events
  /\ force' = FALSE
  /\ lpc' = "batch"
  /\ UNCHANGED <<mem, sourceVars, deferVars, idx, cb, calls, running, objs, ops>>

\* Mutant: the fd is not looked at.
HandleFdAny ==
  /\ lpc = "batch" /\ cb = NULL
  /\ \E s \in batch :
       /\ batch' = batch \ {s}
       /\ IF s \in Timers /\ due[s] = 0
          THEN UNCHANGED <<cb, calls, due>>
          ELSE /\ cb' = s
               /\ calls' = IF s \in Timers THEN due[s] ELSE 0
               /\ due' = IF s \in Timers THEN [due EXCEPT ![s] = 0] ELSE due
  /\ UNCHANGED <<mem, on, armed, deferVars, lpc, idx, force, running, objs, ops>>

\* loop_handle_fd and loop_timer_handle: an earlier event of the batch may
\* have disabled or freed the source, or set the timer again.
HandleFd ==
  /\ lpc = "batch" /\ cb = NULL
  /\ \E s \in batch :
       /\ batch' = batch \ {s}
       /\ IF s \notin on \/ (s \in Timers /\ due[s] = 0)
          THEN UNCHANGED <<cb, calls, due>>
          ELSE /\ cb' = s
               /\ calls' = IF s \in Timers THEN due[s] ELSE 0
               /\ due' = IF s \in Timers THEN [due EXCEPT ![s] = 0] ELSE due
  /\ UNCHANGED <<mem, on, armed, deferVars, lpc, idx, force, running, objs, ops>>

\* A timer expires, a periodic one perhaps twice before it is read.
Expire ==
  /\ lpc \in {"wait", "batch"} /\ cb = NULL
  /\ \E t \in armed :
       /\ due[t] < IF t \in Periodic THEN 2 ELSE 1
       /\ due' = [due EXCEPT ![t] = @ + 1]
       /\ armed' = IF t \in Periodic THEN armed ELSE armed \ {t}
  /\ UNCHANGED <<mem, on, deferVars, loopVars, force, running, objs, ops>>

\* loop_free, when the users have freed what they created.
LoopFree ==
  /\ lpc = "exited"
  /\ \A o \in Objects \ {DelegatorWatch} : mem[o] # "live"
  /\ mem' = [mem EXCEPT ![DelegatorWatch] = "freed"]
  /\ on' = on \ {DelegatorWatch}
  /\ lpc' = "sources"
  /\ UNCHANGED <<armed, due, deferVars, idx, cb, calls, batch, force, running, objs, ops>>

Next ==
  \/ \E w \in Watches : WatchNew(w) \/ WatchSet(w) \/ WatchFree(w)
  \/ \E t \in Timers : TimerNew(t) \/ TimerSet(t) \/ TimerFree(t)
  \/ \E d \in Defers : DeferNew(d) \/ DeferSet(d) \/ DeferFree(d)
  \/ StopLoop \/ Return
  \/ TestRunning \/ RunDeferred \/ CollectSources \/ CollectDefers
  \/ EpollWait \/ HandleFd \/ Expire \/ LoopFree

Spec == Init /\ [][Next]_vars

-----------------------------------------------------------------------------
(* Properties.                                                             *)

TypeOK ==
  /\ mem \in [Objects -> {"none", "live", "freed", "gone"}]
  /\ on \subseteq Sources /\ armed \subseteq on /\ batch \subseteq Sources
  /\ due \in [Timers -> 0 .. 2]
  /\ deferred \in Seq(Defers) /\ IsInjective(deferred)
  /\ enabled \subseteq {deferred[i] : i \in DOMAIN deferred}
  /\ lpc \in {"setup", "defer", "sources", "defers", "wait", "batch", "exited", "dead"}
  /\ cb \in Objects \cup {NULL} /\ calls \in 0 .. 2
  /\ {force, running} \subseteq BOOLEAN
  /\ objs = Cardinality({o \in Objects : mem[o] \in {"live", "freed"}})
  /\ ops \in 0 .. MaxOps

\* A callback is called only for an object its user has not freed, although
\* it may have been freed since epoll reported it, or since the pass over
\* the defers began: mainloop.c frees the callback's data at once.
CalledAlive ==
  [][cb' # NULL /\ (cb = NULL \/ calls' < calls) => mem[cb'] = "live"]_vars

\* Nothing the loop is going to look at has been collected: the events of a
\* batch, the object whose callback runs, the vector of defers.
NothingDangling ==
  \A o \in on \cup batch \cup ToSet(deferred) \cup ({cb} \ {NULL}) : mem[o] # "gone"

\* An iteration leaves no garbage, and the count that loop_free checks
\* (loop.c:100) is 0 when the users have freed everything.
GarbageCollected ==
  /\ lpc = "wait" => \A o \in Objects : mem[o] # "freed"
  /\ lpc = "dead" => objs = 0

\* Objects are collected when nobody can look at them any more, not before, and all of
\* them, whatever callbacks create and free while the loop iterates over them.
MemorySafe == TypeOK /\ NothingDangling /\ GarbageCollected

\* When the loop goes to sleep, every enabled defer has been called since it
\* was enabled, however the vector changed during the pass, but for one that
\* a deferred callback behind it enabled without forcing an iteration.
DefersServed ==
  lpc = "wait" /\ ~force => enabled \ ran \subseteq late
=============================================================================
