-------------------------- MODULE EventLoopProofs --------------------------
(***************************************************************************)
(* Safety of module EventLoop for any objects and any number of            *)
(* operations: which objects are called, which are collected, and that no  *)
(* enabled defer is forgotten.                                             *)
(***************************************************************************)
EXTENDS EventLoop, SequenceTheorems, FiniteSetTheorems, TLAPS

USE ConstantsAssumption

-----------------------------------------------------------------------------
(* The vector of defers.                                                   *)

LEMMA SwapRemoveIs ==
  ASSUME NEW S, NEW s \in Seq(S), IsInjective(s), NEW i \in 1 .. Len(s)
  PROVE  LET t == SwapRemove(s, i)
         IN /\ t \in Seq(S) /\ Len(t) = Len(s) - 1 /\ IsInjective(t)
            /\ \A k \in 1 .. Len(s) - 1 : t[k] = IF k = i THEN s[Len(s)] ELSE s[k]
            /\ ToSet(t) = ToSet(s) \ {s[i]}
<1> DEFINE n == Len(s)
           u == [s EXCEPT ![i] = s[n]]
           t == SubSeq(u, 1, n - 1)
<1>0. n \in Nat /\ n >= 1 /\ i \in 1 .. n /\ DOMAIN s = 1 .. n /\ s[n] \in S
  <2>1. n \in Nat /\ DOMAIN s = 1 .. n
    OBVIOUS
  <2> QED BY <2>1
<1>1. SwapRemove(s, i) = t
  <2>1. Len(u) = n
    BY <1>0
  <2> QED BY <2>1 DEF SwapRemove, Front, Last
<1>2. /\ u \in Seq(S) /\ Len(u) = n
      /\ \A k \in 1 .. n : u[k] = IF k = i THEN s[n] ELSE s[k]
  BY <1>0
<1> HIDE DEF u
<1>3. /\ t \in Seq(S) /\ Len(t) = n - 1
      /\ \A k \in 1 .. n - 1 : t[k] = u[k]
  BY <1>0, <1>2, SubSeqProperties
<1>4. \A k \in 1 .. n - 1 : t[k] = IF k = i THEN s[n] ELSE s[k]
  BY <1>0, <1>2, <1>3
<1>5. \A a, b \in 1 .. n : s[a] = s[b] => a = b
  BY <1>0 DEF IsInjective
<1> HIDE DEF t, n
<1>6. DOMAIN t = 1 .. n - 1
  BY <1>3
<1>7. IsInjective(t)
  <2> SUFFICES ASSUME NEW a \in 1 .. n - 1, NEW b \in 1 .. n - 1, t[a] = t[b] PROVE a = b
    BY <1>6 DEF IsInjective
  <2> QED BY <1>0, <1>4, <1>5
<1>8. ToSet(t) = ToSet(s) \ {s[i]}
  <2>1. ASSUME NEW k \in 1 .. n - 1 PROVE t[k] \in ToSet(s) /\ t[k] # s[i]
    <3>1. PICK l \in 1 .. n : t[k] = s[l] /\ l # i
      BY <1>0, <1>4
    <3> QED BY <1>0, <1>5, <3>1 DEF ToSet
  <2>2. ASSUME NEW k \in 1 .. n, s[k] # s[i] PROVE s[k] \in ToSet(t)
    <3>1. CASE k = n
      <4>1. i \in 1 .. n - 1 /\ t[i] = s[k]
        BY <1>0, <1>4, <2>2, <3>1
      <4> QED BY <1>6, <4>1 DEF ToSet
    <3>2. CASE k # n
      <4>1. k \in 1 .. n - 1 /\ k # i
        BY <1>0, <2>2, <3>2
      <4>2. t[k] = s[k]
        BY <1>4, <4>1
      <4> QED BY <1>6, <4>1, <4>2 DEF ToSet
    <3> QED BY <3>1, <3>2
  <2>3. ToSet(t) = {t[k] : k \in 1 .. n - 1} /\ ToSet(s) = {s[k] : k \in 1 .. n}
    BY <1>0, <1>6 DEF ToSet
  <2> QED BY <2>1, <2>2, <2>3
<1> QED BY <1>1, <1>3, <1>4, <1>7, <1>8 DEF n

LEMMA AppendIs ==
  ASSUME NEW S, NEW s \in Seq(S), IsInjective(s), NEW e \in S, e \notin ToSet(s)
  PROVE  /\ Append(s, e) \in Seq(S) /\ Len(Append(s, e)) = Len(s) + 1
         /\ Append(s, e)[Len(s) + 1] = e
         /\ \A i \in 1 .. Len(s) : Append(s, e)[i] = s[i]
         /\ IsInjective(Append(s, e)) /\ ToSet(Append(s, e)) = ToSet(s) \cup {e}
<1>1. /\ Append(s, e) \in Seq(S) /\ Len(s) \in Nat
      /\ Len(Append(s, e)) = Len(s) + 1 /\ Append(s, e)[Len(s) + 1] = e
      /\ \A i \in 1 .. Len(s) : Append(s, e)[i] = s[i]
      /\ DOMAIN s = 1 .. Len(s) /\ DOMAIN Append(s, e) = 1 .. Len(s) + 1
  BY AppendProperties
<1>2. \A a, b \in 1 .. Len(s) : s[a] = s[b] => a = b
  BY <1>1 DEF IsInjective
<1>3. \A a \in 1 .. Len(s) : s[a] # e
  BY <1>1 DEF ToSet
<1>4. IsInjective(Append(s, e))
  BY <1>1, <1>2, <1>3 DEF IsInjective
<1>5. ToSet(Append(s, e)) = ToSet(s) \cup {e}
  BY <1>1 DEF ToSet
<1> QED BY <1>1, <1>4, <1>5
-----------------------------------------------------------------------------
(* The inductive invariant, in parts.  TypeOK is the first three.          *)

Types ==
  /\ mem \in [Objects -> {"none", "live", "freed", "gone"}]
  /\ on \subseteq Sources /\ armed \subseteq on /\ batch \subseteq Sources
  /\ due \in [Timers -> 0 .. 2]
  /\ lpc \in {"setup", "defer", "sources", "defers", "wait", "batch", "exited", "dead"}
  /\ cb \in Objects \cup {NULL} /\ calls \in 0 .. 2
  /\ {force, running} \subseteq BOOLEAN
  /\ ops \in 0 .. MaxOps

Vector ==
  /\ deferred \in Seq(Defers) /\ IsInjective(deferred)
  /\ enabled \subseteq ToSet(deferred)

\* The objects whose memory has not been given back.
Held == {o \in Objects : mem[o] \in {"live", "freed"}}

\* There are finitely many of them at any time, however many there can be.
Counted == IsFiniteSet(Held) /\ objs = Cardinality(Held)

\* What epoll watches, what is armed and what is enabled is in use; the
\* vector holds the defers that are held.
Placed ==
  /\ \A s \in on : mem[s] = "live"
  /\ armed \subseteq Timers
  /\ \A t \in Timers : mem[t] = "live" => t \in on
  /\ \A d \in enabled : mem[d] = "live"
  /\ \A d \in Defers : d \in ToSet(deferred) <=> d \in Held

\* Callbacks run in two phases only, and what they may be about is held.
Phases ==
  /\ lpc # "batch" => batch = {}
  /\ lpc \notin {"defer", "batch"} => cb = NULL
  /\ lpc \in {"defer", "defers"} => idx \in 1 .. Len(deferred) + 1
  /\ batch \subseteq Held
  /\ cb # NULL => cb \in Held
  /\ \A t \in Timers \ Periodic : due[t] <= 1
  /\ calls > 1 => cb \in Periodic /\ mem[cb] = "live"

\* The loop's own watch goes last.
LoopLast ==
  /\ mem[DelegatorWatch] # "none"
  /\ mem[DelegatorWatch] # "live"
       => lpc \in {"sources", "defers", "dead"} /\ \A o \in Objects : mem[o] # "live"
  /\ lpc = "dead" => mem[DelegatorWatch] = "gone"

\* The garbage that is left.
Garbage ==
  /\ lpc \in {"defers", "wait", "dead"} => \A s \in Sources : mem[s] # "freed"
  /\ lpc = "defers" => \A i \in 1 .. idx - 1 : mem[deferred[i]] # "freed"
  /\ lpc \in {"wait", "dead"} => \A d \in Defers : mem[d] # "freed"

\* The defers that were passed have been called, or were enabled behind.
Served ==
  /\ lpc = "defer" =>
       \A i \in 1 .. idx - 1 : deferred[i] \in enabled => deferred[i] \in ran \cup late
  /\ lpc \in {"sources", "defers", "wait"} => enabled \subseteq ran \cup late

IInv ==
  /\ Types /\ Vector /\ Counted
  /\ Placed /\ Phases /\ LoopLast /\ Garbage /\ Served
\* What an operation leaves alone.
LEMMA OperationKeeps ==
  ASSUME Types, NEW o, Operation(o) \/ Release
  PROVE  /\ UNCHANGED <<lpc, idx, cb, calls, batch, running>> /\ ops' \in 0 .. MaxOps
         /\ lpc \in {"setup", "exited"} \/ cb # NULL
<1>1. ops' \in 0 .. MaxOps
  <2>1. ops \in 0 .. MaxOps /\ (ops' = ops \/ (ops < MaxOps /\ ops' = ops + 1))
    BY DEF Operation, Release, Types
  <2> QED BY ONLY <2>1, ConstantsAssumption
<1> QED BY <1>1 DEF Operation, Release, loopVars

LEMMA TypesStep == Types /\ Vector /\ Placed /\ Phases /\ [Next]_vars => Types'
<1> SUFFICES ASSUME Types, Vector, Placed, Phases, [Next]_vars PROVE Types'
  OBVIOUS
<1> USE DEF sourceVars, deferVars
<1>1. ASSUME NEW w \in Watches, WatchNew(w) PROVE Types'
  <2>1. Operation(w) /\ UNCHANGED <<on, armed, due, force>>
          /\ mem' = [mem EXCEPT ![w] = "live"]
    BY <1>1 DEF WatchNew, Create
  <2> QED BY <2>1, OperationKeeps DEF Types
<1>2. ASSUME NEW w \in Watches, WatchSet(w) PROVE Types'
  <2>1. Operation(w) /\ UNCHANGED <<mem, armed, due, force>>
    BY <1>2 DEF WatchSet
  <2>2. w \notin armed /\ (on' = on \cup {w} \/ on' = on \ {w})
    BY <1>2 DEF WatchSet, Placed
  <2>3. on' \subseteq Sources /\ armed' \subseteq on'
    BY <2>1, <2>2 DEF Types, Sources
  <2> QED BY <2>1, <2>3, OperationKeeps DEF Types
<1>3. ASSUME NEW w \in Watches, WatchFree(w) PROVE Types'
  <2>1. Release /\ UNCHANGED <<armed, due, force>> /\ on' = on \ {w}
          /\ mem' = [mem EXCEPT ![w] = "freed"]
    BY <1>3 DEF WatchFree
  <2>2. w \notin armed
    BY DEF Placed
  <2> QED BY <2>1, <2>2, OperationKeeps DEF Types
<1>4. ASSUME NEW t \in Timers, TimerNew(t) PROVE Types'
  <2>1. Operation(t) /\ UNCHANGED <<armed, due, force>> /\ on' = on \cup {t}
          /\ mem' = [mem EXCEPT ![t] = "live"]
    BY <1>4 DEF TimerNew, Create
  <2> QED BY <2>1, OperationKeeps DEF Types, Sources
<1>5. ASSUME NEW t \in Timers, TimerSet(t) PROVE Types'
  <2>1. Operation(t) /\ UNCHANGED <<mem, on, force>> /\ mem[t] = "live"
          /\ (armed' = armed \cup {t} \/ armed' = armed \ {t})
          /\ due' = [due EXCEPT ![t] = 0]
    BY <1>5 DEF TimerSet
  <2>2. t \in on
    BY <2>1 DEF Placed
  <2> QED BY <2>1, <2>2, OperationKeeps DEF Types
<1>6. ASSUME NEW t \in Timers, TimerFree(t) PROVE Types'
  <2>1. Release /\ UNCHANGED force /\ on' = on \ {t} /\ armed' = armed \ {t}
          /\ due' = [due EXCEPT ![t] = 0] /\ mem' = [mem EXCEPT ![t] = "freed"]
    BY <1>6 DEF TimerFree
  <2>2. due' \in [Timers -> 0 .. 2]
    BY <2>1 DEF Types
  <2>3. on' \subseteq Sources /\ armed' \subseteq on'
    BY <2>1 DEF Types
  <2> QED BY <2>1, <2>2, <2>3, OperationKeeps DEF Types
<1>7. ASSUME NEW d \in Defers, DeferNew(d) PROVE Types'
  <2>1. Operation(d) /\ UNCHANGED <<on, armed, due, force>>
          /\ mem' = [mem EXCEPT ![d] = "live"]
    BY <1>7 DEF DeferNew, Create
  <2> QED BY <2>1, OperationKeeps DEF Types
<1>8. ASSUME NEW d \in Defers, DeferSet(d) PROVE Types'
  <2>1. Operation(d) /\ UNCHANGED <<mem, on, armed, due>> /\ force' \in BOOLEAN
    BY <1>8 DEF DeferSet, Types
  <2> QED BY <2>1, OperationKeeps DEF Types
<1>9. ASSUME NEW d \in Defers, DeferFree(d) PROVE Types'
  <2>1. Release /\ UNCHANGED <<on, armed, due, force>>
          /\ mem' = [mem EXCEPT ![d] = "freed"]
    BY <1>9 DEF DeferFree
  <2> QED BY <2>1, OperationKeeps DEF Types
<1>10. CASE StopLoop
  BY <1>10 DEF StopLoop, Types, loopVars
<1>11. CASE Return
  BY <1>11 DEF Return, Types
<1>12. CASE TestRunning
  BY <1>12 DEF TestRunning, Types
<1>13. CASE RunDeferred
  <2>1. cb' \in Objects \cup {NULL}
    <3>1. enabled \subseteq Objects
      BY DEF Vector, ToSet, Objects
    <3> QED BY <1>13, <3>1 DEF RunDeferred, Types
  <2>2. lpc' \in {"defer", "sources"}
    BY <1>13 DEF RunDeferred
  <2>3. UNCHANGED <<mem, on, armed, due, calls, batch, force, running, ops>>
    BY <1>13 DEF RunDeferred
  <2> QED BY <2>1, <2>2, <2>3 DEF Types
<1>14. CASE CollectSources
  <2>1. mem' \in [Objects -> {"none", "live", "freed", "gone"}]
    BY <1>14 DEF CollectSources, Types
  <2> QED BY <1>14, <2>1 DEF CollectSources, Types
<1>15. CASE CollectDefers
  <2>1. mem' = mem \/ mem' = [mem EXCEPT ![deferred[idx]] = "gone"]
    BY <1>15 DEF CollectDefers
  <2>2. mem' \in [Objects -> {"none", "live", "freed", "gone"}]
    BY <2>1 DEF Types
  <2>3. lpc' \in {"defers", "wait", "dead"}
    BY <1>15 DEF CollectDefers, Collected
  <2>4. UNCHANGED <<on, armed, due, cb, calls, batch, force, running, ops>>
    BY <1>15 DEF CollectDefers
  <2> QED BY <2>2, <2>3, <2>4 DEF Types
<1>16. CASE EpollWait
  BY <1>16 DEF EpollWait, Types
<1>17. CASE HandleFd
  <2>1. PICK s \in batch :
          /\ batch' = batch \ {s}
          /\ IF s \notin on \/ (s \in Timers /\ due[s] = 0)
             THEN UNCHANGED <<cb, calls, due>>
             ELSE /\ cb' = s
                  /\ calls' = IF s \in Timers THEN due[s] ELSE 0
                  /\ due' = IF s \in Timers THEN [due EXCEPT ![s] = 0] ELSE due
    BY <1>17 DEF HandleFd
  <2>2. UNCHANGED <<mem, on, armed, lpc, force, running, ops>>
    BY <1>17 DEF HandleFd
  <2>3. s \in Objects
    BY DEF Types, Objects
  <2> QED BY <2>1, <2>2, <2>3 DEF Types
<1>18. CASE Expire
  <2>1. PICK t \in armed :
          /\ due[t] < IF t \in Periodic THEN 2 ELSE 1
          /\ due' = [due EXCEPT ![t] = @ + 1]
          /\ armed' = IF t \in Periodic THEN armed ELSE armed \ {t}
    BY <1>18 DEF Expire
  <2>2. due' \in [Timers -> 0 .. 2]
    <3>1. t \in Timers /\ due \in [Timers -> 0 .. 2] /\ due[t] + 1 \in 0 .. 2
      BY <2>1 DEF Types, Placed
    <3> QED BY <2>1, <3>1
  <2>3. UNCHANGED <<mem, on, lpc, cb, calls, batch, force, running, ops>>
    BY <1>18 DEF Expire, loopVars
  <2> QED BY <2>1, <2>2, <2>3 DEF Types
<1>19. CASE LoopFree
  <2>1. DelegatorWatch \notin armed
    BY DEF Placed
  <2> QED BY <1>19, <2>1 DEF LoopFree, Types
<1>20. CASE UNCHANGED vars
  BY <1>20 DEF vars, Types, loopVars
<1> QED BY <1>1, <1>2, <1>3, <1>4, <1>5, <1>6, <1>7, <1>8, <1>9, <1>10, <1>11,
          <1>12, <1>13, <1>14, <1>15, <1>16, <1>17, <1>18, <1>19, <1>20 DEF Next
\* What each step does to the vector: nothing but for a new defer, which goes
\* to its end, and one that is collected.
LEMMA VectorStep == Types /\ Vector /\ Placed /\ Phases /\ [Next]_vars => Vector'
<1> SUFFICES ASSUME Types, Vector, Placed, Phases, [Next]_vars PROVE Vector'
  OBVIOUS
<1> USE DEF sourceVars, deferVars
<1>1. ASSUME NEW d \in Defers, DeferNew(d) PROVE Vector'
  <2>1. /\ mem[d] = "none" /\ deferred' = Append(deferred, d)
        /\ enabled' = enabled \cup {d}
    BY <1>1 DEF DeferNew, Create
  <2>2. deferred \in Seq(Defers) /\ IsInjective(deferred) /\ d \notin ToSet(deferred)
    BY <2>1 DEF Vector, Placed, Held
  <2>3. /\ deferred' \in Seq(Defers) /\ IsInjective(deferred')
        /\ ToSet(deferred') = ToSet(deferred) \cup {d}
    BY ONLY <2>1, <2>2, AppendIs
  <2> QED BY <2>1, <2>3 DEF Vector
<1>2. ASSUME NEW d \in Defers, DeferSet(d) PROVE Vector'
  <2>1. deferred' = deferred /\ enabled' \subseteq enabled \cup {d} /\ mem[d] = "live"
    BY <1>2 DEF DeferSet
  <2>2. d \in ToSet(deferred)
    BY <2>1 DEF Placed, Held, Objects
  <2> QED BY <2>1, <2>2 DEF Vector
<1>3. ASSUME NEW d \in Defers, DeferFree(d) PROVE Vector'
  BY <1>3 DEF DeferFree, Vector
<1>4. CASE CollectDefers
  <2>1. CASE deferred' = deferred
    BY <1>4, <2>1 DEF CollectDefers, Vector
  <2>2. CASE deferred' # deferred
    <3>1. /\ idx \in 1 .. Len(deferred) /\ mem[deferred[idx]] = "freed"
          /\ deferred' = SwapRemove(deferred, idx) /\ enabled' = enabled
      <4>1. /\ lpc = "defers" /\ ~(idx > Len(deferred)) /\ mem[deferred[idx]] = "freed"
            /\ deferred' = SwapRemove(deferred, idx) /\ enabled' = enabled
        BY <1>4, <2>2 DEF CollectDefers
      <4>2. idx \in 1 .. Len(deferred) + 1 /\ Len(deferred) \in Nat
        BY <4>1 DEF Phases, Vector
      <4> QED BY <4>1, <4>2
    <3>2. deferred \in Seq(Defers) /\ IsInjective(deferred)
      BY DEF Vector
    <3>3. /\ deferred' \in Seq(Defers) /\ IsInjective(deferred')
          /\ ToSet(deferred') = ToSet(deferred) \ {deferred[idx]}
      BY ONLY <3>1, <3>2, SwapRemoveIs
    <3>4. deferred[idx] \notin enabled
      BY <3>1 DEF Placed
    <3> QED BY <3>1, <3>3, <3>4 DEF Vector
  <2> QED BY <2>1, <2>2
<1>5. CASE UNCHANGED <<deferred, enabled>>
  BY <1>5 DEF Vector
<1>6. ASSUME NEW w \in Watches, WatchNew(w) \/ WatchSet(w) \/ WatchFree(w)
      PROVE  UNCHANGED <<deferred, enabled>>
  BY <1>6 DEF WatchNew, WatchSet, WatchFree
<1>7. ASSUME NEW t \in Timers, TimerNew(t) \/ TimerSet(t) \/ TimerFree(t)
      PROVE  UNCHANGED <<deferred, enabled>>
  BY <1>7 DEF TimerNew, TimerSet, TimerFree
<1>8. StopLoop \/ Return \/ TestRunning \/ RunDeferred \/ CollectSources \/ EpollWait
        \/ HandleFd \/ Expire \/ LoopFree \/ UNCHANGED vars
          => UNCHANGED <<deferred, enabled>>
  BY DEF StopLoop, Return, TestRunning, RunDeferred, CollectSources, EpollWait,
         HandleFd, Expire, LoopFree, vars
<1> QED BY <1>1, <1>2, <1>3, <1>4, <1>5, <1>6, <1>7, <1>8 DEF Next

\* Every object that is made or collected is counted.
LEMMA CountedStep ==
  Types /\ Vector /\ Phases /\ LoopLast /\ Counted /\ [Next]_vars => Counted'
<1> SUFFICES ASSUME Types, Vector, Phases, LoopLast, Counted, [Next]_vars PROVE Counted'
  OBVIOUS
<1>1. ASSUME NEW o \in Objects, Create(o) PROVE Counted'
  <2>1. /\ mem[o] = "none" /\ mem' = [mem EXCEPT ![o] = "live"] /\ objs' = objs + 1
    BY <1>1 DEF Create
  <2>2. Held' = Held \cup {o} /\ o \notin Held
    BY <2>1 DEF Types, Held
  <2>3. IsFiniteSet(Held) /\ objs = Cardinality(Held)
    BY DEF Counted
  <2>4. IsFiniteSet(Held \cup {o}) /\ Cardinality(Held \cup {o}) = Cardinality(Held) + 1
    BY ONLY <2>2, <2>3, FS_AddElement
  <2> QED BY <2>1, <2>2, <2>3, <2>4 DEF Counted
<1>2. ASSUME NEW o \in Objects, mem[o] = "live", mem' = [mem EXCEPT ![o] = "freed"], objs' = objs
      PROVE  Counted'
  <2>1. Held' = Held
    BY <1>2 DEF Types, Held
  <2> QED BY <1>2, <2>1 DEF Counted
<1>3. CASE UNCHANGED <<mem, objs>>
  BY <1>3 DEF Counted, Held
<1>4. CASE CollectSources
  <2> DEFINE garbage == {s \in Sources : mem[s] = "freed"}
  <2>1. /\ mem' = [o \in Objects |-> IF o \in garbage THEN "gone" ELSE mem[o]]
        /\ objs' = objs - Cardinality(garbage)
    BY <1>4 DEF CollectSources
  <2>2. garbage \subseteq Held /\ Held' = Held \ garbage
    BY <2>1 DEF Types, Held, Objects
  <2>3. IsFiniteSet(Held) /\ objs = Cardinality(Held)
    BY DEF Counted
  <2> HIDE DEF garbage
  <2>4. Held \cap garbage = garbage
    BY <2>2
  <2>5. /\ IsFiniteSet(Held \ garbage)
        /\ Cardinality(Held \ garbage) = Cardinality(Held) - Cardinality(Held \cap garbage)
    BY <2>3, FS_Difference
  <2> QED BY <2>1, <2>2, <2>3, <2>4, <2>5 DEF Counted
<1>5. CASE CollectDefers
  <2>1. CASE mem' # mem \/ objs' # objs
    <3>1. /\ lpc = "defers" /\ ~(idx > Len(deferred)) /\ mem[deferred[idx]] = "freed"
          /\ mem' = [mem EXCEPT ![deferred[idx]] = "gone"] /\ objs' = objs - 1
      BY <1>5, <2>1 DEF CollectDefers
    <3>2. deferred[idx] \in Objects
      BY <3>1 DEF Phases, Vector, Objects
    <3>3. Held' = Held \ {deferred[idx]} /\ deferred[idx] \in Held
      BY <3>1, <3>2 DEF Types, Held
    <3>4. IsFiniteSet(Held) /\ objs = Cardinality(Held)
      BY DEF Counted
    <3>5. /\ IsFiniteSet(Held \ {deferred[idx]})
          /\ Cardinality(Held \ {deferred[idx]}) = Cardinality(Held) - 1
      BY ONLY <3>3, <3>4, FS_RemoveElement
    <3> QED BY <3>1, <3>3, <3>4, <3>5 DEF Counted
  <2> QED BY <1>3, <2>1
<1>6. CASE LoopFree
  <2>1. /\ mem' = [mem EXCEPT ![DelegatorWatch] = "freed"] /\ objs' = objs
        /\ lpc = "exited" /\ DelegatorWatch \in Objects
    BY <1>6 DEF LoopFree, Objects, Sources
  <2>2. mem[DelegatorWatch] = "live"
    BY <2>1 DEF LoopLast, Types
  <2> QED BY <1>2, <2>1, <2>2
<1>7. ASSUME NEW w \in Watches, WatchNew(w) \/ WatchSet(w) \/ WatchFree(w) PROVE Counted'
  <2>1. w \in Objects
    BY DEF Objects, Sources
  <2>2. WatchNew(w) => Create(w)
    BY DEF WatchNew
  <2>3. WatchSet(w) => UNCHANGED <<mem, objs>>
    BY DEF WatchSet
  <2>4. WatchFree(w) => mem[w] = "live" /\ mem' = [mem EXCEPT ![w] = "freed"] /\ objs' = objs
    BY DEF WatchFree
  <2> QED BY <1>1, <1>2, <1>3, <1>7, <2>1, <2>2, <2>3, <2>4
<1>8. ASSUME NEW t \in Timers, TimerNew(t) \/ TimerSet(t) \/ TimerFree(t) PROVE Counted'
  <2>1. t \in Objects
    BY DEF Objects, Sources
  <2>2. TimerNew(t) => Create(t)
    BY DEF TimerNew
  <2>3. TimerSet(t) => UNCHANGED <<mem, objs>>
    BY DEF TimerSet
  <2>4. TimerFree(t) => mem[t] = "live" /\ mem' = [mem EXCEPT ![t] = "freed"] /\ objs' = objs
    BY DEF TimerFree
  <2> QED BY <1>1, <1>2, <1>3, <1>8, <2>1, <2>2, <2>3, <2>4
<1>9. ASSUME NEW d \in Defers, DeferNew(d) \/ DeferSet(d) \/ DeferFree(d) PROVE Counted'
  <2>1. d \in Objects
    BY DEF Objects
  <2>2. DeferNew(d) => Create(d)
    BY DEF DeferNew
  <2>3. DeferSet(d) => UNCHANGED <<mem, objs>>
    BY DEF DeferSet
  <2>4. DeferFree(d) => mem[d] = "live" /\ mem' = [mem EXCEPT ![d] = "freed"] /\ objs' = objs
    BY DEF DeferFree
  <2> QED BY <1>1, <1>2, <1>3, <1>9, <2>1, <2>2, <2>3, <2>4
<1>10. StopLoop \/ Return \/ TestRunning \/ RunDeferred \/ EpollWait \/ HandleFd \/ Expire
         \/ UNCHANGED vars => UNCHANGED <<mem, objs>>
  BY DEF StopLoop, Return, TestRunning, RunDeferred, EpollWait, HandleFd, Expire, vars
<1> QED BY <1>3, <1>4, <1>5, <1>6, <1>7, <1>8, <1>9, <1>10 DEF Next
LEMMA PlacedStep ==
  Types /\ Vector /\ Placed /\ Phases /\ LoopLast /\ Vector' /\ [Next]_vars => Placed'
<1> SUFFICES ASSUME Types, Vector, Placed, Phases, LoopLast, Vector', [Next]_vars
             PROVE  Placed'
  OBVIOUS
<1> USE DEF sourceVars, deferVars
<1>0. /\ mem \in [Objects -> {"none", "live", "freed", "gone"}]
      /\ on \subseteq Sources /\ enabled \subseteq Defers
      /\ Watches \subseteq Objects /\ Timers \subseteq Objects /\ Defers \subseteq Objects
      /\ Sources \subseteq Objects /\ Sources \cap Defers = {}
  BY DEF Types, Vector, Objects, Sources, ToSet
<1>1. ASSUME NEW w \in Watches, WatchNew(w) PROVE Placed'
  <2>1. /\ mem[w] = "none" /\ mem' = [mem EXCEPT ![w] = "live"]
        /\ UNCHANGED <<on, armed, deferred, enabled>>
    BY <1>1 DEF WatchNew, Create
  <2>2. w \notin Timers /\ w \notin Defers
    BY ConstantsAssumption
  <2> QED BY <1>0, <2>1, <2>2 DEF Placed, Held
<1>2. ASSUME NEW w \in Watches, WatchSet(w) PROVE Placed'
  <2>1. /\ mem[w] = "live" /\ (on' = on \cup {w} \/ on' = on \ {w})
        /\ UNCHANGED <<mem, armed, deferred, enabled>>
    BY <1>2 DEF WatchSet
  <2>2. w \notin Timers
    BY ConstantsAssumption
  <2> QED BY <1>0, <2>1, <2>2 DEF Placed, Held
<1>3. ASSUME NEW w \in Watches, WatchFree(w) PROVE Placed'
  <2>1. /\ mem[w] = "live" /\ mem' = [mem EXCEPT ![w] = "freed"] /\ on' = on \ {w}
        /\ UNCHANGED <<armed, deferred, enabled>>
    BY <1>3 DEF WatchFree
  <2>2. w \notin Timers /\ w \notin Defers
    BY ConstantsAssumption
  <2> QED BY <1>0, <2>1, <2>2 DEF Placed, Held
<1>4. ASSUME NEW t \in Timers, TimerNew(t) PROVE Placed'
  <2>1. /\ mem[t] = "none" /\ mem' = [mem EXCEPT ![t] = "live"] /\ on' = on \cup {t}
        /\ UNCHANGED <<armed, deferred, enabled>>
    BY <1>4 DEF TimerNew, Create
  <2>2. t \notin Defers
    BY ConstantsAssumption
  <2> QED BY <1>0, <2>1, <2>2 DEF Placed, Held
<1>5. ASSUME NEW t \in Timers, TimerSet(t) PROVE Placed'
  <2>1. /\ armed' \subseteq armed \cup {t} /\ UNCHANGED <<mem, on, deferred, enabled>>
    BY <1>5 DEF TimerSet
  <2> QED BY <1>0, <2>1 DEF Placed, Held
<1>6. ASSUME NEW t \in Timers, TimerFree(t) PROVE Placed'
  <2>1. /\ mem[t] = "live" /\ mem' = [mem EXCEPT ![t] = "freed"] /\ on' = on \ {t}
        /\ armed' = armed \ {t} /\ UNCHANGED <<deferred, enabled>>
    BY <1>6 DEF TimerFree
  <2>2. t \notin Defers
    BY ConstantsAssumption
  <2> QED BY <1>0, <2>1, <2>2 DEF Placed, Held
<1>7. ASSUME NEW d \in Defers, DeferNew(d) PROVE Placed'
  <2>1. /\ mem[d] = "none" /\ mem' = [mem EXCEPT ![d] = "live"] /\ enabled' = enabled \cup {d}
        /\ deferred' = Append(deferred, d) /\ UNCHANGED <<on, armed>>
    BY <1>7 DEF DeferNew, Create
  <2>2. deferred \in Seq(Defers) /\ IsInjective(deferred) /\ d \notin ToSet(deferred)
    BY <1>0, <2>1 DEF Vector, Placed, Held
  <2>3. ToSet(deferred') = ToSet(deferred) \cup {d}
    BY ONLY <2>1, <2>2, AppendIs
  <2>4. d \notin Timers /\ d \notin on
    BY <1>0, ConstantsAssumption
  <2> QED BY <1>0, <2>1, <2>3, <2>4 DEF Placed, Held
<1>8. ASSUME NEW d \in Defers, DeferSet(d) PROVE Placed'
  <2>1. /\ enabled' \subseteq enabled \cup {d} /\ mem[d] = "live"
        /\ UNCHANGED <<mem, on, armed, deferred>>
    BY <1>8 DEF DeferSet
  <2> QED BY <2>1 DEF Placed, Held
<1>9. ASSUME NEW d \in Defers, DeferFree(d) PROVE Placed'
  <2>1. /\ mem[d] = "live" /\ mem' = [mem EXCEPT ![d] = "freed"]
        /\ enabled' = enabled \ {d} /\ UNCHANGED <<on, armed, deferred>>
    BY <1>9 DEF DeferFree
  <2>2. d \notin Timers /\ d \notin on
    BY <1>0, ConstantsAssumption
  <2> QED BY <1>0, <2>1, <2>2 DEF Placed, Held
<1>10. CASE CollectSources
  <2>1. /\ mem' = [o \in Objects |-> IF o \in {s \in Sources : mem[s] = "freed"}
                                    THEN "gone" ELSE mem[o]]
        /\ UNCHANGED <<on, armed, deferred, enabled>>
    BY <1>10 DEF CollectSources
  <2>2. \A o \in Objects : mem[o] # "freed" => mem'[o] = mem[o]
    BY <2>1
  <2>3. \A d \in Defers : mem'[d] = mem[d]
    BY <1>0, <2>1
  <2>4. \A o \in Objects : mem'[o] = "live" => mem[o] = "live"
    BY <2>1
  <2> QED BY <1>0, <2>1, <2>2, <2>3, <2>4 DEF Placed, Held
<1>11. CASE CollectDefers
  <2>1. CASE mem' = mem /\ deferred' = deferred
    BY <1>11, <2>1 DEF CollectDefers, Placed, Held
  <2>2. CASE ~(mem' = mem /\ deferred' = deferred)
    <3> DEFINE e == deferred[idx]
    <3>1. /\ lpc = "defers" /\ ~(idx > Len(deferred)) /\ mem[e] = "freed"
          /\ mem' = [mem EXCEPT ![e] = "gone"] /\ deferred' = SwapRemove(deferred, idx)
          /\ UNCHANGED <<on, armed, enabled>>
      BY <1>11, <2>2 DEF CollectDefers
    <3>2. idx \in 1 .. Len(deferred)
      BY <3>1 DEF Phases, Vector
    <3>3. deferred \in Seq(Defers) /\ IsInjective(deferred) /\ e \in Defers
      BY <3>2 DEF Vector
    <3>4. ToSet(deferred') = ToSet(deferred) \ {e}
      BY ONLY <3>1, <3>2, <3>3, SwapRemoveIs
    <3> HIDE DEF e
    <3>5. e \notin Timers /\ e \notin on /\ e \notin enabled
      BY <1>0, <3>1, <3>3, ConstantsAssumption DEF Placed
    <3> QED BY <1>0, <3>1, <3>3, <3>4, <3>5 DEF Placed, Held
  <2> QED BY <2>1, <2>2
<1>12. CASE Expire
  <2>1. armed' \subseteq armed /\ UNCHANGED <<mem, on, deferred, enabled>>
    BY <1>12 DEF Expire
  <2> QED BY <2>1 DEF Placed, Held
<1>13. CASE LoopFree
  <2>1. /\ mem' = [mem EXCEPT ![DelegatorWatch] = "freed"] /\ on' = on \ {DelegatorWatch}
        /\ lpc = "exited" /\ UNCHANGED <<armed, deferred, enabled>>
    BY <1>13 DEF LoopFree
  <2>2. /\ DelegatorWatch \notin Timers /\ DelegatorWatch \notin Defers
        /\ DelegatorWatch \in Objects
    BY <1>0, ConstantsAssumption
  <2> QED BY <1>0, <2>1, <2>2 DEF Placed, Held
<1>14. CASE UNCHANGED <<mem, on, armed, deferred, enabled>>
  BY <1>14 DEF Placed, Held
<1>15. StopLoop \/ Return \/ TestRunning \/ RunDeferred \/ EpollWait \/ HandleFd
         \/ UNCHANGED vars => UNCHANGED <<mem, on, armed, deferred, enabled>>
  BY DEF StopLoop, Return, TestRunning, RunDeferred, EpollWait, HandleFd, vars
<1> QED BY <1>1, <1>2, <1>3, <1>4, <1>5, <1>6, <1>7, <1>8, <1>9, <1>10, <1>11, <1>12,
          <1>13, <1>14, <1>15 DEF Next
\* An operation frees or makes nothing that is gone, and nothing that was
\* called more than once.
LEMMA PhasesStep ==
  Types /\ Vector /\ Placed /\ Phases /\ LoopLast /\ Types' /\ Vector' /\ [Next]_vars => Phases'
<1> SUFFICES ASSUME Types, Vector, Placed, Phases, LoopLast, Types', Vector', [Next]_vars
             PROVE  Phases'
  OBVIOUS
<1> USE DEF sourceVars, deferVars
<1>0. /\ mem \in [Objects -> {"none", "live", "freed", "gone"}]
      /\ batch \subseteq Objects /\ Periodic \subseteq Objects
      /\ Watches \subseteq Objects /\ Timers \subseteq Objects /\ Defers \subseteq Objects
      /\ Len(deferred) \in Nat /\ deferred \in Seq(Defers) /\ IsInjective(deferred)
  BY DEF Types, Vector, Objects, Sources
\* The operations that leave the vector alone.
<1>1. ASSUME NEW o \in Objects, Operation(o) \/ Release,
             \/ mem' = mem
             \/ mem' = [mem EXCEPT ![o] = "live"]
             \/ mem' = [mem EXCEPT ![o] = "freed"] /\ mem[o] = "live" /\ ~(o \in Periodic /\ cb = o),
             Len(deferred') \in Nat /\ Len(deferred') >= Len(deferred),
             \/ due' = due
             \/ o \in Timers /\ due' = [due EXCEPT ![o] = 0]
      PROVE  Phases'
  <2>1. UNCHANGED <<lpc, idx, cb, calls, batch, running>>
    BY <1>1, OperationKeeps
  <2>2. Held \subseteq Held' /\ \A p \in Periodic : cb = p /\ mem[p] = "live" => mem'[p] = "live"
    BY <1>0, <1>1 DEF Held
  <2>3. \A t \in Timers : due'[t] = due[t] \/ due'[t] = 0
    BY <1>1 DEF Types
  <2>4. lpc' \in {"defer", "defers"} => idx' \in 1 .. Len(deferred') + 1
    BY <1>0, <1>1, <2>1 DEF Phases
  <2>5. \A t \in Timers \ Periodic : due'[t] <= 1
    BY <2>3 DEF Phases
  <2> QED BY <2>1, <2>2, <2>4, <2>5 DEF Phases
<1>2. ASSUME NEW w \in Watches, WatchNew(w) \/ WatchSet(w) \/ WatchFree(w) PROVE Phases'
  <2>1. w \notin Periodic
    BY ConstantsAssumption
  <2> QED BY <1>0, <1>1, <1>2, <2>1 DEF WatchNew, Create, WatchSet, WatchFree
<1>3. ASSUME NEW t \in Timers, TimerNew(t) \/ TimerSet(t) \/ TimerFree(t) PROVE Phases'
  BY <1>0, <1>1, <1>3 DEF TimerNew, Create, TimerSet, TimerFree
<1>4. ASSUME NEW d \in Defers, DeferNew(d) PROVE Phases'
  <2>1. Len(deferred') = Len(deferred) + 1
    BY <1>0, <1>4, AppendProperties DEF DeferNew
  <2>2. Len(deferred') \in Nat /\ Len(deferred') >= Len(deferred) /\ d \in Objects
    BY <1>0, <2>1
  <2>3. Operation(d) /\ mem' = [mem EXCEPT ![d] = "live"] /\ due' = due
    BY <1>4 DEF DeferNew, Create
  <2> QED BY <1>1, <2>2, <2>3
<1>5. ASSUME NEW d \in Defers, DeferSet(d) \/ DeferFree(d) PROVE Phases'
  <2>1. d \notin Periodic
    BY ConstantsAssumption
  <2> QED BY <1>0, <1>1, <1>5, <2>1 DEF DeferSet, DeferFree
<1>6. CASE StopLoop
  BY <1>6 DEF StopLoop, loopVars, Phases, Held
<1>7. CASE Return
  <2>1. calls \in 0 .. 2
    BY DEF Types
  <2>2. CASE calls > 1
    <3>1. cb' = cb /\ calls' = calls - 1 /\ ~(calls' > 1)
      BY <1>7, <2>1, <2>2 DEF Return
    <3> QED BY <1>7, <3>1 DEF Return, Phases, Held
  <2>3. CASE calls <= 1
    <3>1. cb' = NULL /\ calls' = 0
      BY <1>7, <2>1, <2>3 DEF Return
    <3> QED BY <1>7, <3>1 DEF Return, Phases, Held
  <2> QED BY <2>1, <2>2, <2>3
<1>8. CASE TestRunning
  BY <1>0, <1>8 DEF TestRunning, Phases, Held
<1>9. CASE RunDeferred
  <2>1. CASE idx > Len(deferred)
    BY <1>9, <2>1 DEF RunDeferred, Phases, Held
  <2>2. CASE ~(idx > Len(deferred))
    <3>1. /\ lpc = "defer" /\ lpc' = "defer" /\ cb = NULL /\ idx' = idx + 1
          /\ cb' = (IF deferred[idx] \in enabled THEN deferred[idx] ELSE cb)
          /\ UNCHANGED <<mem, due, deferred, batch, calls>>
      BY <1>9, <2>2 DEF RunDeferred
    <3>2. idx \in 1 .. Len(deferred)
      BY <1>0, <2>2, <3>1 DEF Phases
    <3>3. deferred[idx] \in enabled => deferred[idx] \in Held
      BY <1>0, <3>2 DEF Placed, Held
    <3>4. ~(calls > 1)
      <4>1. cb \notin Periodic
        BY <1>0, <3>1 DEF Objects, Sources
      <4> QED BY <4>1 DEF Phases
    <3>5. idx' \in 1 .. Len(deferred') + 1
      BY <1>0, <3>1, <3>2
    <3> QED BY <3>1, <3>3, <3>4, <3>5 DEF Phases, Held
  <2> QED BY <2>1, <2>2
<1>10. CASE CollectSources
  <2>1. batch = {} /\ cb = NULL /\ ~(calls > 1)
    <3>1. batch = {} /\ cb = NULL
      BY <1>10 DEF CollectSources, Phases
    <3> QED BY <1>0, <3>1 DEF Phases, Objects, Sources
  <2> QED BY <1>0, <1>10, <2>1 DEF CollectSources, Phases
<1>11. CASE CollectDefers
  <2>1. /\ batch = {} /\ cb = NULL /\ lpc = "defers"
        /\ idx \in 1 .. Len(deferred) + 1
        /\ UNCHANGED <<due, batch, cb, calls>>
    BY <1>11 DEF CollectDefers, Phases
  <2>2. ~(calls > 1)
    BY <1>0, <2>1 DEF Phases, Objects, Sources
  <2>3. lpc' = "defers" => idx' \in 1 .. Len(deferred') + 1
    <3>1. ASSUME ~(idx > Len(deferred)), mem[deferred[idx]] = "freed"
          PROVE  idx' \in 1 .. Len(deferred') + 1
      <4>1. idx \in 1 .. Len(deferred) /\ deferred' = SwapRemove(deferred, idx) /\ idx' = idx
        BY <1>0, <1>11, <2>1, <3>1 DEF CollectDefers
      <4>2. Len(deferred') = Len(deferred) - 1
        BY <1>0, <4>1, SwapRemoveIs
      <4> QED BY <1>0, <4>1, <4>2
    <3>2. ASSUME ~(idx > Len(deferred)), mem[deferred[idx]] # "freed"
          PROVE  idx' \in 1 .. Len(deferred') + 1
      <4>1. idx' = idx + 1 /\ deferred' = deferred
        BY <1>11, <3>2 DEF CollectDefers
      <4> QED BY <1>0, <2>1, <3>2, <4>1
    <3>3. idx > Len(deferred) => lpc' \in {"dead", "wait"}
      BY <1>11 DEF CollectDefers, Collected
    <3> QED BY <3>1, <3>2, <3>3
  <2>4. lpc' \in {"defers", "wait", "dead"}
    BY <1>11 DEF CollectDefers, Collected
  <2> QED BY <1>0, <2>1, <2>2, <2>3, <2>4 DEF Phases
<1>12. CASE EpollWait
  <2>1. on \subseteq Held
    BY DEF Placed, Held, Types, Objects
  <2> QED BY <1>0, <1>12, <2>1 DEF EpollWait, Phases, Held
<1>13. CASE HandleFd
  <2>1. PICK s \in batch :
          /\ batch' = batch \ {s}
          /\ IF s \notin on \/ (s \in Timers /\ due[s] = 0)
             THEN UNCHANGED <<cb, calls, due>>
             ELSE /\ cb' = s
                  /\ calls' = IF s \in Timers THEN due[s] ELSE 0
                  /\ due' = IF s \in Timers THEN [due EXCEPT ![s] = 0] ELSE due
    BY <1>13 DEF HandleFd
  <2>2. lpc = "batch" /\ cb = NULL /\ UNCHANGED <<mem, deferred, lpc, idx>>
    BY <1>13 DEF HandleFd
  <2>3. ~(calls > 1)
    BY <1>0, <2>2 DEF Phases, Objects, Sources
  <2>4. CASE s \notin on \/ (s \in Timers /\ due[s] = 0)
    BY <2>1, <2>2, <2>3, <2>4 DEF Phases, Held
  <2>5. CASE ~(s \notin on \/ (s \in Timers /\ due[s] = 0))
    <3>1. s \in Held /\ mem[s] = "live" /\ cb' = s
      BY <2>1, <2>5 DEF Placed, Phases
    <3>2. calls' > 1 => s \in Periodic
      BY <2>1, <2>5 DEF Phases, Types
    <3>3. \A t \in Timers \ Periodic : due'[t] <= 1
      BY <2>1, <2>5 DEF Phases, Types
    <3> QED BY <2>1, <2>2, <3>1, <3>2, <3>3 DEF Phases, Held
  <2> QED BY <2>4, <2>5
<1>14. CASE Expire
  <2>1. PICK t \in armed :
          /\ due[t] < IF t \in Periodic THEN 2 ELSE 1
          /\ due' = [due EXCEPT ![t] = @ + 1]
    BY <1>14 DEF Expire
  <2>2. \A u \in Timers \ Periodic : due'[u] <= 1
    <3>1. due \in [Timers -> 0 .. 2] /\ t \in Timers
      BY DEF Types, Placed
    <3> QED BY <2>1, <3>1 DEF Phases
  <2> QED BY <1>14, <2>2 DEF Expire, loopVars, Phases, Held
<1>15. CASE LoopFree
  <2>1. batch = {} /\ cb = NULL
    BY <1>15 DEF LoopFree, Phases
  <2>2. ~(calls > 1)
    BY <1>0, <2>1 DEF Phases, Objects, Sources
  <2> QED BY <1>15, <2>1, <2>2 DEF LoopFree, Phases
<1>16. CASE UNCHANGED vars
  BY <1>16 DEF vars, loopVars, Phases, Held
<1> QED BY <1>2, <1>3, <1>4, <1>5, <1>6, <1>7, <1>8, <1>9, <1>10, <1>11, <1>12, <1>13,
          <1>14, <1>15, <1>16 DEF Next
LEMMA LoopLastStep ==
  Types /\ Vector /\ Phases /\ LoopLast /\ Garbage /\ [Next]_vars => LoopLast'
<1> SUFFICES ASSUME Types, Vector, Phases, LoopLast, Garbage, [Next]_vars PROVE LoopLast'
  OBVIOUS
<1> DEFINE dw == DelegatorWatch
<1>0. /\ mem \in [Objects -> {"none", "live", "freed", "gone"}] /\ dw \in Objects
      /\ Watches \subseteq Objects /\ Timers \subseteq Objects /\ Defers \subseteq Objects
      /\ dw \in Sources /\ dw \notin Timers /\ dw \notin Defers
  BY DEF Types, Objects, Sources
\* While anything is called or freed by a user the loop's own watch is there.
<1>1. ASSUME NEW o \in Objects \ {dw}, Operation(o) \/ Release,
             \/ mem' = mem
             \/ mem' = [mem EXCEPT ![o] = "live"]
             \/ mem' = [mem EXCEPT ![o] = "freed"]
      PROVE  LoopLast'
  <2>1. lpc' = lpc /\ (lpc \in {"setup", "exited"} \/ cb # NULL)
    BY <1>1, OperationKeeps
  <2>2. lpc \notin {"sources", "defers", "dead"} /\ mem[dw] = "live"
    BY <1>0, <2>1 DEF Phases, LoopLast
  <2>3. mem'[dw] = "live"
    BY <1>0, <1>1, <2>2
  <2> QED BY <2>1, <2>2, <2>3 DEF LoopLast
<1>2. ASSUME NEW w \in Watches, WatchNew(w) \/ WatchSet(w) \/ WatchFree(w) PROVE LoopLast'
  <2>1. CASE w = dw
    <3>1. mem[w] = "none" /\ WatchNew(w)
      BY <1>2, <2>1 DEF WatchNew, Create, WatchSet, WatchFree
    <3> QED BY <2>1, <3>1 DEF LoopLast
  <2>2. CASE w # dw
    BY <1>0, <1>1, <1>2, <2>2 DEF WatchNew, Create, WatchSet, WatchFree
  <2> QED BY <2>1, <2>2
<1>3. ASSUME NEW t \in Timers, TimerNew(t) \/ TimerSet(t) \/ TimerFree(t) PROVE LoopLast'
  <2>1. t \in Objects \ {dw}
    BY <1>0
  <2> QED BY <1>1, <1>3, <2>1 DEF TimerNew, Create, TimerSet, TimerFree
<1>4. ASSUME NEW d \in Defers, DeferNew(d) \/ DeferSet(d) \/ DeferFree(d) PROVE LoopLast'
  <2>1. d \in Objects \ {dw}
    BY <1>0
  <2> QED BY <1>1, <1>4, <2>1 DEF DeferNew, Create, DeferSet, DeferFree
<1>5. CASE StopLoop \/ Return \/ Expire
  <2>1. UNCHANGED <<mem, lpc>>
    BY <1>5 DEF StopLoop, Return, Expire, loopVars
  <2> QED BY <2>1 DEF LoopLast
<1>6. CASE TestRunning \/ RunDeferred \/ EpollWait \/ HandleFd
  <2>1. mem' = mem /\ lpc \notin {"sources", "defers", "dead"} /\ lpc' # "dead"
    BY <1>6 DEF TestRunning, RunDeferred, EpollWait, HandleFd
  <2>2. mem[dw] = "live"
    BY <1>0, <2>1 DEF LoopLast
  <2> QED BY <2>1, <2>2 DEF LoopLast
<1>7. CASE CollectSources
  <2>1. /\ mem' = [o \in Objects |-> IF o \in {s \in Sources : mem[s] = "freed"}
                                    THEN "gone" ELSE mem[o]]
        /\ lpc' = "defers"
    BY <1>7 DEF CollectSources
  <2>2. \A o \in Objects : mem'[o] \in {"live", "none"} <=> mem[o] \in {"live", "none"}
    BY <1>0, <2>1
  <2>3. \A o \in Objects : mem'[o] = "live" <=> mem[o] = "live"
    BY <1>0, <2>1
  <2> QED BY <1>0, <2>1, <2>2, <2>3 DEF LoopLast
<1>8. CASE CollectDefers
  <2>1. lpc = "defers" /\ (lpc' = "defers" \/ (lpc' = Collected /\ mem' = mem))
    BY <1>8 DEF CollectDefers
  <2>2. mem' = mem \/ (deferred[idx] \in Defers /\ mem' = [mem EXCEPT ![deferred[idx]] = "gone"])
    <3>1. CASE idx > Len(deferred)
      BY <1>8, <3>1 DEF CollectDefers
    <3>2. CASE ~(idx > Len(deferred))
      <4>1. deferred[idx] \in Defers
        BY <2>1, <3>2 DEF Phases, Vector
      <4> QED BY <1>8, <3>2, <4>1 DEF CollectDefers
    <3> QED BY <3>1, <3>2
  <2>3. mem'[dw] = mem[dw] /\ \A o \in Objects : mem'[o] = "live" => mem[o] = "live"
    BY <1>0, <2>2
  <2>4. CASE lpc' = "defers"
    BY <2>3, <2>4 DEF LoopLast
  <2>5. CASE lpc' # "defers"
    <3>1. lpc' = (IF mem[dw] = "gone" THEN "dead" ELSE "wait") /\ mem' = mem
      BY <2>1, <2>5 DEF Collected
    <3>2. mem[dw] \in {"live", "gone"}
      BY <1>0, <2>1 DEF LoopLast, Garbage
    <3> QED BY <2>3, <3>1, <3>2 DEF LoopLast
  <2> QED BY <2>4, <2>5
<1>9. CASE LoopFree
  <2>1. /\ mem' = [mem EXCEPT ![dw] = "freed"] /\ lpc' = "sources"
        /\ \A o \in Objects \ {dw} : mem[o] # "live"
    BY <1>9 DEF LoopFree
  <2> QED BY <1>0, <2>1 DEF LoopLast
<1>10. CASE UNCHANGED vars
  BY <1>10 DEF vars, loopVars, LoopLast
<1> QED BY <1>2, <1>3, <1>4, <1>5, <1>6, <1>7, <1>8, <1>9, <1>10 DEF Next

\* The pass over the sources leaves none, and the pass over the vector none of
\* those it has passed, although the last one takes the place of each.
LEMMA GarbageStep ==
  Types /\ Vector /\ Placed /\ Phases /\ LoopLast /\ Garbage /\ Types' /\ [Next]_vars => Garbage'
<1> SUFFICES ASSUME Types, Vector, Placed, Phases, LoopLast, Garbage, Types', [Next]_vars
             PROVE  Garbage'
  OBVIOUS
<1>0. /\ mem \in [Objects -> {"none", "live", "freed", "gone"}]
      /\ deferred \in Seq(Defers) /\ IsInjective(deferred) /\ Len(deferred) \in Nat
      /\ Sources \subseteq Objects /\ Defers \subseteq Objects /\ Sources \cap Defers = {}
  BY DEF Types, Vector, Objects, Sources
<1>1. ASSUME NEW o, Operation(o) \/ Release PROVE Garbage'
  <2>1. lpc' = lpc /\ lpc \notin {"sources", "defers", "wait", "dead"}
    BY <1>1, OperationKeeps DEF Phases
  <2> QED BY <2>1 DEF Garbage
<1>2. ASSUME NEW w \in Watches, WatchNew(w) \/ WatchSet(w) \/ WatchFree(w) PROVE Garbage'
  BY <1>1, <1>2 DEF WatchNew, Create, WatchSet, WatchFree
<1>3. ASSUME NEW t \in Timers, TimerNew(t) \/ TimerSet(t) \/ TimerFree(t) PROVE Garbage'
  BY <1>1, <1>3 DEF TimerNew, Create, TimerSet, TimerFree
<1>4. ASSUME NEW d \in Defers, DeferNew(d) \/ DeferSet(d) \/ DeferFree(d) PROVE Garbage'
  BY <1>1, <1>4 DEF DeferNew, Create, DeferSet, DeferFree
<1>5. CASE TestRunning \/ RunDeferred \/ EpollWait \/ HandleFd \/ LoopFree
  <2>1. lpc' \notin {"defers", "wait", "dead"}
    BY <1>5 DEF TestRunning, RunDeferred, EpollWait, HandleFd, LoopFree
  <2> QED BY <2>1 DEF Garbage
<1>6. CASE StopLoop \/ Return \/ Expire \/ UNCHANGED vars
  <2>1. UNCHANGED <<mem, lpc, idx, deferred>>
    BY <1>6 DEF StopLoop, Return, Expire, vars, loopVars, deferVars
  <2> QED BY <2>1 DEF Garbage
<1>7. CASE CollectSources
  <2>1. /\ mem' = [o \in Objects |-> IF o \in {s \in Sources : mem[s] = "freed"}
                                    THEN "gone" ELSE mem[o]]
        /\ lpc' = "defers" /\ idx' = 1
    BY <1>7 DEF CollectSources
  <2>2. \A s \in Sources : mem'[s] # "freed"
    BY <1>0, <2>1
  <2>3. 1 .. idx' - 1 = {}
    BY <2>1
  <2> QED BY <2>1, <2>2, <2>3 DEF Garbage
<1>8. CASE CollectDefers
  <2>0. lpc = "defers" /\ idx \in 1 .. Len(deferred) + 1
    BY <1>8 DEF CollectDefers, Phases
  <2>1. CASE idx > Len(deferred)
    <3>1. /\ mem' = mem /\ deferred' = deferred /\ lpc' \in {"wait", "dead"}
      BY <1>8, <2>1 DEF CollectDefers, Collected
    <3>2. \A i \in 1 .. Len(deferred) : mem[deferred[i]] # "freed"
      <4>1. idx = Len(deferred) + 1
        BY <1>0, <2>0, <2>1
      <4>2. idx - 1 = Len(deferred)
        BY <1>0, <4>1
      <4> QED BY <2>0, <4>2 DEF Garbage
    <3>3. \A d \in ToSet(deferred) : mem[d] # "freed"
      BY <1>0, <3>2 DEF ToSet
    <3>4. \A d \in Defers : mem[d] # "freed"
      BY <1>0, <3>3 DEF Placed, Held
    <3> QED BY <2>0, <3>1, <3>4 DEF Garbage
  <2>2. CASE ~(idx > Len(deferred)) /\ mem[deferred[idx]] # "freed"
    <3>1. mem' = mem /\ deferred' = deferred /\ idx' = idx + 1 /\ lpc' = "defers"
      BY <1>8, <2>2 DEF CollectDefers
    <3>2. \A i \in 1 .. idx' - 1 : mem[deferred[i]] # "freed"
      BY <1>0, <2>0, <2>2, <3>1 DEF Garbage
    <3> QED BY <2>0, <3>1, <3>2 DEF Garbage
  <2>3. CASE ~(idx > Len(deferred)) /\ mem[deferred[idx]] = "freed"
    <3>1. /\ mem' = [mem EXCEPT ![deferred[idx]] = "gone"] /\ idx' = idx /\ lpc' = "defers"
          /\ deferred' = SwapRemove(deferred, idx)
      BY <1>8, <2>0, <2>3 DEF CollectDefers
    <3>2. idx \in 1 .. Len(deferred) /\ deferred[idx] \in Defers
      BY <1>0, <2>0, <2>3
    <3>3. \A k \in 1 .. Len(deferred) - 1 :
             deferred'[k] = IF k = idx THEN deferred[Len(deferred)] ELSE deferred[k]
      <4>1. deferred \in Seq(Defers) /\ IsInjective(deferred)
        BY <1>0
      <4> QED BY ONLY <3>1, <3>2, <4>1, SwapRemoveIs, ZenonT(60)
    <3>4. ASSUME NEW i \in 1 .. idx' - 1 PROVE mem'[deferred'[i]] # "freed"
      <4>1. i \in 1 .. Len(deferred) - 1 /\ i # idx /\ i \in 1 .. idx - 1
              /\ i \in 1 .. Len(deferred)
        BY <1>0, <3>1, <3>2
      <4>2. deferred'[i] = deferred[i] /\ deferred[i] \in Defers /\ mem[deferred[i]] # "freed"
        BY <1>0, <2>0, <3>3, <4>1 DEF Garbage
      <4> QED BY <1>0, <3>1, <4>2
    <3>5. \A s \in Sources : mem'[s] # "freed"
      <4>1. \A s \in Sources : mem[s] # "freed"
        BY <2>0 DEF Garbage
      <4> QED BY <1>0, <3>1, <4>1
    <3> QED BY <3>1, <3>4, <3>5 DEF Garbage
  <2> QED BY <2>1, <2>2, <2>3
<1> QED BY <1>2, <1>3, <1>4, <1>5, <1>6, <1>7, <1>8 DEF Next
\* The pass over the vector forgets no defer: what it has passed was called,
\* unless it was enabled behind.
LEMMA ServedStep ==
  Types /\ Vector /\ Placed /\ Phases /\ LoopLast /\ Served /\ Types' /\ [Next]_vars => Served'
<1> SUFFICES ASSUME Types, Vector, Placed, Phases, LoopLast, Served, Types', [Next]_vars
             PROVE  Served'
  OBVIOUS
<1> USE DEF sourceVars, deferVars
<1>0. /\ deferred \in Seq(Defers) /\ IsInjective(deferred) /\ Len(deferred) \in Nat
      /\ enabled \subseteq ToSet(deferred)
      /\ lpc = "defer" => idx \in 1 .. Len(deferred) + 1
  BY DEF Vector, Phases
<1>1. ASSUME NEW o, Operation(o) \/ Release,
             UNCHANGED <<deferred, ran, late>>, enabled' \subseteq enabled
      PROVE  Served'
  <2>1. UNCHANGED <<lpc, idx>>
    BY <1>1, OperationKeeps
  <2> QED BY <1>1, <2>1 DEF Served
<1>2. ASSUME NEW w \in Watches, WatchNew(w) \/ WatchSet(w) \/ WatchFree(w) PROVE Served'
  BY <1>1, <1>2 DEF WatchNew, Create, WatchSet, WatchFree
<1>3. ASSUME NEW t \in Timers, TimerNew(t) \/ TimerSet(t) \/ TimerFree(t) PROVE Served'
  BY <1>1, <1>3 DEF TimerNew, Create, TimerSet, TimerFree
<1>4. ASSUME NEW d \in Defers, DeferFree(d) PROVE Served'
  BY <1>1, <1>4 DEF DeferFree
<1>5. ASSUME NEW d \in Defers, DeferNew(d) PROVE Served'
  <2>1. /\ deferred' = Append(deferred, d) /\ enabled' = enabled \cup {d} /\ mem[d] = "none"
        /\ UNCHANGED <<ran, late>> /\ Operation(d)
    BY <1>5 DEF DeferNew, Create
  <2>2. UNCHANGED <<lpc, idx>> /\ lpc \notin {"sources", "defers", "wait"}
    BY <2>1, OperationKeeps DEF Phases
  <2>3. ASSUME lpc = "defer", NEW i \in 1 .. idx - 1, deferred'[i] \in enabled'
        PROVE  deferred'[i] \in ran \cup late
    <3>1. i \in 1 .. Len(deferred) /\ i \in 1 .. idx - 1
      BY <1>0, <2>3
    <3>2. deferred'[i] = deferred[i] /\ deferred[i] \in Defers
      BY <1>0, <2>1, <3>1, AppendProperties
    <3>3. deferred[i] \in Held
      <4>1. deferred[i] \in ToSet(deferred)
        BY <1>0, <3>1 DEF ToSet
      <4> QED BY <3>2, <4>1 DEF Placed
    <3>4. deferred[i] # d
      BY <2>1, <3>3 DEF Held
    <3> QED BY <2>1, <2>3, <3>1, <3>2, <3>4 DEF Served
  <2> QED BY <2>1, <2>2, <2>3 DEF Served
<1>6. ASSUME NEW d \in Defers, DeferSet(d) PROVE Served'
  <2> DEFINE passed == lpc = "defer" /\ \E i \in 1 .. idx - 1 : deferred[i] = d
  <2>1. PICK b \in BOOLEAN :
          /\ enabled' = IF b THEN enabled \cup {d} ELSE enabled \ {d}
          /\ IF b /\ d \notin enabled
             THEN /\ ran' = ran \ {d}
                  /\ late' = IF passed THEN late \cup {d} ELSE late \ {d}
             ELSE UNCHANGED <<ran, late>>
    BY <1>6 DEF DeferSet
  <2>2. Operation(d) /\ deferred' = deferred
    BY <1>6 DEF DeferSet
  <2>3. UNCHANGED <<lpc, idx>> /\ lpc \notin {"sources", "defers", "wait"}
    BY <2>2, OperationKeeps DEF Phases
  <2>4. CASE ~(b /\ d \notin enabled)
    BY <2>1, <2>2, <2>3, <2>4 DEF Served
  <2>5. CASE b /\ d \notin enabled
    <3>1. ASSUME lpc = "defer", NEW i \in 1 .. idx - 1, deferred[i] \in enabled'
          PROVE  deferred[i] \in ran' \cup late'
      <4>1. CASE deferred[i] = d
        BY <2>1, <2>5, <3>1, <4>1
      <4>2. CASE deferred[i] # d
        <5>1. deferred[i] \in ran \cup late
          BY <2>1, <2>5, <3>1, <4>2 DEF Served
        <5> QED BY <2>1, <2>5, <4>2, <5>1
      <4> QED BY <4>1, <4>2
    <3> QED BY <2>2, <2>3, <3>1 DEF Served
  <2> QED BY <2>4, <2>5
<1>7. CASE StopLoop \/ Return \/ CollectSources \/ Expire \/ UNCHANGED vars
  <2>1. UNCHANGED <<enabled, ran, late>>
    BY <1>7 DEF StopLoop, Return, CollectSources, Expire, vars
  <2>2. CASE UNCHANGED <<lpc, idx, deferred>>
    BY <2>1, <2>2 DEF Served
  <2>3. CASE CollectSources
    <3>1. lpc = "sources" /\ lpc' = "defers"
      BY <2>3 DEF CollectSources
    <3> QED BY <2>1, <3>1 DEF Served
  <2> QED BY <1>7, <2>2, <2>3 DEF StopLoop, Return, Expire, vars, loopVars
<1>8. CASE TestRunning
  <2>1. idx' = 1 /\ lpc' \in {"defer", "exited"}
    BY <1>8 DEF TestRunning
  <2>2. 1 .. idx' - 1 = {}
    BY <2>1
  <2> QED BY <2>1, <2>2 DEF Served
<1>9. CASE RunDeferred
  <2>1. CASE idx > Len(deferred)
    <3>1. lpc = "defer" /\ lpc' = "sources" /\ UNCHANGED <<deferred, enabled, ran, late>>
      BY <1>9, <2>1 DEF RunDeferred
    <3>2. idx - 1 = Len(deferred) /\ DOMAIN deferred = 1 .. Len(deferred)
      BY <1>0, <2>1, <3>1
    <3>3. \A d \in ToSet(deferred) : d \in enabled => d \in ran \cup late
      BY <3>1, <3>2 DEF Served, ToSet
    <3> QED BY <1>0, <3>1, <3>3 DEF Served
  <2>2. CASE ~(idx > Len(deferred))
    <3>1. /\ lpc = "defer" /\ lpc' = "defer" /\ idx' = idx + 1
          /\ UNCHANGED <<deferred, enabled, late>>
          /\ ran' = IF deferred[idx] \in enabled THEN ran \cup {deferred[idx]} ELSE ran
      BY <1>9, <2>2 DEF RunDeferred
    <3>2. ASSUME NEW i \in 1 .. idx' - 1, deferred[i] \in enabled
          PROVE  deferred[i] \in ran' \cup late
      <4>1. i = idx \/ i \in 1 .. idx - 1
        BY <1>0, <3>1
      <4> QED BY <3>1, <3>2, <4>1 DEF Served
    <3> QED BY <3>1, <3>2 DEF Served
  <2> QED BY <2>1, <2>2
<1>10. CASE CollectDefers
  <2>1. lpc = "defers" /\ lpc' \in {"defers", "wait", "dead"} /\ UNCHANGED <<enabled, ran, late>>
    BY <1>10 DEF CollectDefers, Collected
  <2> QED BY <2>1 DEF Served
<1>11. CASE EpollWait \/ HandleFd
  <2>1. lpc' = "batch"
    BY <1>11 DEF EpollWait, HandleFd
  <2> QED BY <2>1 DEF Served
<1>12. CASE LoopFree
  <2>1. /\ lpc' = "sources" /\ UNCHANGED <<enabled, ran, late>>
        /\ \A o \in Objects \ {DelegatorWatch} : mem[o] # "live"
    BY <1>12 DEF LoopFree
  <2>2. enabled = {}
    <3>1. enabled \subseteq Defers
      BY <1>0 DEF ToSet
    <3>2. \A d \in Defers : d \in Objects \ {DelegatorWatch}
      BY ConstantsAssumption DEF Objects, Sources
    <3> QED BY <2>1, <3>1, <3>2 DEF Placed
  <2> QED BY <2>1, <2>2 DEF Served
<1> QED BY <1>2, <1>3, <1>4, <1>5, <1>6, <1>7, <1>8, <1>9, <1>10, <1>11, <1>12 DEF Next

THEOREM Inductive == Spec => []IInv
<1>1. Init => IInv
  <2> SUFFICES ASSUME Init PROVE IInv
    OBVIOUS
  <2> USE DEF Init
  <2>0. DelegatorWatch \in Objects /\ Timers \subseteq Objects /\ Watches \subseteq Objects
          /\ Defers \subseteq Objects /\ DelegatorWatch \notin Timers
    BY DEF Objects, Sources
  <2>1. Types
    <3>1. ops \in 0 .. MaxOps /\ calls \in 0 .. 2
      OBVIOUS
    <3>2. mem \in [Objects -> {"none", "live", "freed", "gone"}] /\ due \in [Timers -> 0 .. 2]
      OBVIOUS
    <3>3. on \subseteq Sources /\ armed \subseteq on /\ batch \subseteq Sources
      BY DEF Sources
    <3>4. /\ lpc = "setup" /\ cb = NULL /\ {force, running} \subseteq BOOLEAN
      OBVIOUS
    <3> QED BY ONLY <3>1, <3>2, <3>3, <3>4 DEF Types
  <2>2. Vector /\ ToSet(deferred) = {}
    <3>1. deferred = <<>> /\ <<>> \in Seq(Defers) /\ DOMAIN <<>> = {}
      OBVIOUS
    <3> QED BY <3>1 DEF Vector, IsInjective, ToSet
  <2>3. Held = {DelegatorWatch}
    BY <2>0 DEF Held
  <2>4. Counted
    <3>1. IsFiniteSet({DelegatorWatch}) /\ Cardinality({DelegatorWatch}) = 1
      BY FS_Singleton
    <3> QED BY <2>3, <3>1 DEF Counted
  <2>5. Placed
    <3>1. \A d \in Defers : d # DelegatorWatch
      BY ConstantsAssumption
    <3> QED BY <2>0, <2>2, <2>3, <3>1 DEF Placed
  <2>6. Phases
    BY DEF Phases
  <2>7. LoopLast /\ Garbage /\ Served
    BY <2>0 DEF LoopLast, Garbage, Served
  <2> QED BY <2>1, <2>2, <2>4, <2>5, <2>6, <2>7 DEF IInv
<1>2. IInv /\ [Next]_vars => Types' /\ Vector' /\ Counted' /\ LoopLast'
  BY TypesStep, VectorStep, CountedStep, LoopLastStep DEF IInv
<1>3. IInv /\ [Next]_vars => IInv'
  BY <1>2, PlacedStep, PhasesStep, GarbageStep, ServedStep DEF IInv
<1> QED BY <1>1, <1>3, PTL DEF Spec

-----------------------------------------------------------------------------
(* What follows from it.                                                   *)

\* Nothing the loop looks at is collected before, and nothing is left: for any
\* objects, however many operations the callbacks make, in any order.
THEOREM Memory == Spec => []MemorySafe
<1>1. IInv => MemorySafe
  <2> SUFFICES ASSUME IInv PROVE MemorySafe
    OBVIOUS
  <2> USE DEF IInv
  <2>1. TypeOK
    BY DEF TypeOK, Types, Vector, Counted, Held, ToSet
  <2>2. NothingDangling
    <3>1. on \subseteq Held
      BY DEF Placed, Held, Types, Objects
    <3>2. batch \subseteq Held /\ cb # NULL => cb \in Held
      BY DEF Phases
    <3>3. ToSet(deferred) \subseteq Held
      BY DEF Placed, Vector, ToSet
    <3> QED BY <3>1, <3>2, <3>3 DEF NothingDangling, Held, Phases
  <2>3. GarbageCollected
    <3>1. Objects = Sources \cup Defers
      BY DEF Objects
    <3>2. lpc = "wait" => \A o \in Objects : mem[o] # "freed"
      BY <3>1 DEF Garbage
    <3>3. ASSUME lpc = "dead" PROVE objs = 0
      <4>1. \A o \in Objects : mem[o] # "freed" /\ mem[o] # "live"
        BY <3>1, <3>3 DEF Garbage, LoopLast
      <4>2. Held = {}
        BY <4>1 DEF Held
      <4> QED BY <4>2, FS_EmptySet DEF Counted
    <3> QED BY <3>2, <3>3 DEF GarbageCollected
  <2> QED BY <2>1, <2>2, <2>3 DEF MemorySafe
<1> QED BY <1>1, Inductive, PTL

\* When the loop goes to sleep unforced, no enabled defer waits for it.
THEOREM NoDeferForgotten == Spec => []DefersServed
<1>1. IInv => DefersServed
  BY DEF IInv, Served, DefersServed
<1> QED BY <1>1, Inductive, PTL

\* No callback is called for an object that its user has freed.
THEOREM CalledForTheLiving == Spec => CalledAlive
<1> DEFINE Alive == cb' # NULL /\ (cb = NULL \/ calls' < calls) => mem[cb'] = "live"
<1>1. ASSUME IInv, [Next]_vars PROVE Alive
  <2> USE DEF sourceVars, deferVars, loopVars
  <2>0. Types /\ Placed /\ Phases /\ calls \in 0 .. 2
    BY <1>1 DEF IInv, Types
  <2>1. ASSUME NEW o, Operation(o) \/ Release PROVE Alive
    <3>1. UNCHANGED <<cb, calls>>
      BY <2>0, <2>1, OperationKeeps
    <3> QED BY <2>0, <3>1
  <2>2. ASSUME NEW w \in Watches, WatchNew(w) \/ WatchSet(w) \/ WatchFree(w) PROVE Alive
    BY <2>1, <2>2 DEF WatchNew, Create, WatchSet, WatchFree
  <2>3. ASSUME NEW t \in Timers, TimerNew(t) \/ TimerSet(t) \/ TimerFree(t) PROVE Alive
    BY <2>1, <2>3 DEF TimerNew, Create, TimerSet, TimerFree
  <2>4. ASSUME NEW d \in Defers, DeferNew(d) \/ DeferSet(d) \/ DeferFree(d) PROVE Alive
    BY <2>1, <2>4 DEF DeferNew, Create, DeferSet, DeferFree
  <2>5. CASE Return
    <3>1. calls > 1 \/ cb' = NULL
      BY <2>5 DEF Return
    <3> QED BY <2>0, <2>5, <3>1 DEF Return, Phases
  <2>6. CASE RunDeferred
    <3>1. cb' = cb \/ (cb' = deferred[idx] /\ deferred[idx] \in enabled)
      BY <2>6 DEF RunDeferred
    <3>2. calls' = calls /\ cb = NULL
      BY <2>6 DEF RunDeferred
    <3> QED BY <2>0, <3>1, <3>2 DEF Placed
  <2>7. CASE HandleFd
    <3>1. cb = NULL /\ (cb' = cb \/ cb' \in on)
      BY <2>7 DEF HandleFd
    <3> QED BY <2>0, <3>1 DEF Placed
  <2>8. CASE StopLoop \/ TestRunning \/ CollectSources \/ CollectDefers \/ EpollWait \/ Expire
             \/ LoopFree \/ UNCHANGED vars
    <3>1. UNCHANGED <<cb, calls>>
      BY <2>8 DEF StopLoop, TestRunning, CollectSources, CollectDefers, EpollWait, Expire,
                  LoopFree, vars
    <3> QED BY <2>0, <3>1
  <2> QED BY <1>1, <2>2, <2>3, <2>4, <2>5, <2>6, <2>7, <2>8 DEF Next
<1>2. IInv /\ [Next]_vars => [Alive]_vars
  BY <1>1
<1> QED BY <1>2, Inductive, PTL DEF CalledAlive, Spec
=============================================================================
