-------------------------- MODULE DelegatorProofs --------------------------
(***************************************************************************)
(* Safety of module Delegator for any set of posters and delegates and any *)
(* number of posts: the invariants TLC checks on MCDelegator, and that     *)
(* every step of the loop and its posters is a step of DelegateQueue.      *)
(***************************************************************************)
EXTENDS Delegator, SequenceTheorems, TLAPS

-----------------------------------------------------------------------------
(* Sequences.                                                              *)

\* Moving the head of b to the end of a leaves a followed by b the same.
LEMMA MoveHead ==
  ASSUME NEW S, NEW a \in Seq(S), NEW b \in Seq(S), b # <<>>
  PROVE  a \o b = Append(a, Head(b)) \o Tail(b)
<1>1. Head(b) \in S /\ Tail(b) \in Seq(S)
  BY HeadTailProperties
<1>2. a \o b \in Seq(S) /\ Append(a, Head(b)) \o Tail(b) \in Seq(S)
  BY <1>1
<1>3. Len(a \o b) = Len(Append(a, Head(b)) \o Tail(b))
  BY <1>1, HeadTailProperties
<1>4. \A i \in 1 .. Len(a \o b) :
        (a \o b)[i] = (Append(a, Head(b)) \o Tail(b))[i]
  BY <1>1, HeadTailProperties
<1> QED BY <1>2, <1>3, <1>4, SeqEqual

-----------------------------------------------------------------------------
(* The types.                                                              *)

USE ConstantsAssumption

\* Every action keeps TypeOK, the two lock disciplines in it included.
LEMMA TypeStep == TypeOK /\ [Next]_vars => TypeOK'
<1> SUFFICES ASSUME TypeOK, [Next]_vars PROVE TypeOK'
  OBVIOUS
<1> USE DEF TypeOK, channelVars, posterVars, loopVars
<1>1. ASSUME NEW p \in Posters, NEW d \in Delegates, NEW sync \in BOOLEAN,
             Call(p, d, sync)
      PROVE  TypeOK'
  <2>1. [d |-> d, from |-> p, sync |-> sync] \in Entry
    BY DEF Entry
  <2> QED BY <1>1, <2>1 DEF Call
<1>2. ASSUME NEW p \in Posters, PushAppend(p) PROVE TypeOK'
  BY <1>2 DEF PushAppend
<1>3. ASSUME NEW p \in Posters, PushSignal(p) PROVE TypeOK'
  BY <1>3 DEF PushSignal
<1>4. ASSUME NEW p \in Posters, SyncCheck(p) PROVE TypeOK'
  BY <1>4 DEF SyncCheck
<1>5. ASSUME NEW p \in Posters, SpuriousWakeup(p) PROVE TypeOK'
  BY <1>5 DEF SpuriousWakeup
<1>6. CASE EpollWait
  BY <1>6 DEF EpollWait
<1>7. CASE HandleWatch
  BY <1>7 DEF HandleWatch
<1>8. CASE HandleDelegator
  BY <1>8 DEF HandleDelegator
<1>9. CASE BatchDone
  BY <1>9 DEF BatchDone
<1>10. CASE ClearFd
  BY <1>10 DEF ClearFd
<1>11. CASE Pop
  <2>1. queue # <<>> => Head(queue) \in Entry /\ Tail(queue) \in Seq(Entry)
    BY HeadTailProperties
  <2> QED BY <1>11, <2>1 DEF Pop
<1>12. CASE Run
  BY <1>12 DEF Run
<1>13. CASE SyncSignal
  BY <1>13 DEF SyncSignal, Entry
<1>14. CASE SyncUnlock
  BY <1>14 DEF SyncUnlock, Entry
<1>15. CASE UNCHANGED vars
  BY <1>15 DEF vars
<1> QED BY <1>1, <1>2, <1>3, <1>4, <1>5, <1>6, <1>7, <1>8, <1>9, <1>10, <1>11,
          <1>12, <1>13, <1>14, <1>15 DEF Next, Poster, Loop

\* Every reachable state of the loop and its posters has its type, for any
\* posters, delegates and bound.
THEOREM TypeCorrect == Spec => []TypeOK
<1>1. Init => TypeOK
  <2> SUFFICES ASSUME Init PROVE TypeOK
    OBVIOUS
  <2>1. /\ <<>> \in Seq(Entry)
        /\ \A p \in Posters : mutex # p /\ ppc[p] = "idle" /\ ~smutex[p]
    BY DEF Init, ConstantsAssumption
  <2>2. /\ ppc \in [Posters -> {"idle", "push", "signal", "check", "wait"}]
        /\ call \in [Posters -> Entry \cup {NULL}]
        /\ done \in [Posters -> BOOLEAN] /\ smutex \in [Posters -> BOOLEAN]
    BY DEF Init
  <2>3. mutex = NULL /\ fd = FALSE /\ lpc = "epoll" /\ batch = {}
          /\ running = TRUE /\ cur = NULL
          /\ queue = <<>> /\ log = <<>> /\ ran = <<>>
    BY DEF Init
  <2> QED BY <2>1, <2>2, <2>3 DEF TypeOK
<1> QED BY <1>1, TypeStep, PTL DEF Spec

-----------------------------------------------------------------------------
(* Order.                                                                  *)

LEMMA OrderStep ==
  TypeOK /\ NothingLostOrReordered /\ [Next]_vars => NothingLostOrReordered'
<1> SUFFICES ASSUME TypeOK, NothingLostOrReordered, [Next]_vars
             PROVE  NothingLostOrReordered'
  OBVIOUS
<1> USE DEF NothingLostOrReordered, Taken, channelVars, posterVars, loopVars
<1>0. /\ queue \in Seq(Entry) /\ ran \in Seq(Entry) /\ log \in Seq(Entry)
      /\ lpc = "run" => cur \in Entry
      /\ Taken \in Seq(Entry)
  BY DEF TypeOK
<1>1. ASSUME NEW p \in Posters, NEW d \in Delegates, NEW sync \in BOOLEAN,
             Call(p, d, sync)
      PROVE  NothingLostOrReordered'
  BY <1>1 DEF Call
<1>2. ASSUME NEW p \in Posters, PushAppend(p) PROVE NothingLostOrReordered'
  <2> HIDE DEF Taken, NothingLostOrReordered
  <2>1. call[p] \in Entry
    BY <1>2 DEF PushAppend, TypeOK
  <2>2. Append(Taken \o queue, call[p]) = Taken \o Append(queue, call[p])
    <3>1. queue \in Seq(Entry) /\ Taken \in Seq(Entry)
      BY DEF TypeOK, Taken
    <3> QED BY ONLY <2>1, <3>1
  <2>3. Taken' = Taken
    BY <1>2 DEF PushAppend, Taken
  <2>4. log' = Append(log, call[p]) /\ queue' = Append(queue, call[p])
    BY <1>2 DEF PushAppend
  <2> QED BY <2>2, <2>3, <2>4 DEF NothingLostOrReordered
<1>3. ASSUME NEW p \in Posters, PushSignal(p) PROVE NothingLostOrReordered'
  BY <1>3 DEF PushSignal
<1>4. ASSUME NEW p \in Posters, SyncCheck(p) PROVE NothingLostOrReordered'
  BY <1>4 DEF SyncCheck
<1>5. ASSUME NEW p \in Posters, SpuriousWakeup(p) PROVE NothingLostOrReordered'
  BY <1>5 DEF SpuriousWakeup
<1>6. CASE Pop
  <2>1. CASE queue = <<>>
    BY <1>6, <2>1 DEF Pop
  <2>2. CASE queue # <<>>
    <3>1. /\ Taken = ran /\ Taken' = Append(ran, Head(queue))
          /\ queue' = Tail(queue) /\ log' = log
      BY <1>6, <2>2 DEF Pop
    <3>2. ran \o queue = Append(ran, Head(queue)) \o Tail(queue)
      BY <1>0, <2>2, MoveHead
    <3> QED BY <3>1, <3>2
  <2> QED BY <2>1, <2>2
<1>7. CASE Run
  <2>1. Taken' = Taken /\ queue' = queue /\ log' = log
    BY <1>7 DEF Run
  <2> QED BY <2>1
<1>8. CASE \/ EpollWait \/ HandleWatch \/ HandleDelegator \/ BatchDone
           \/ ClearFd \/ SyncSignal \/ SyncUnlock \/ UNCHANGED vars
  <2>1. Taken' = Taken /\ queue' = queue /\ log' = log
    BY <1>8 DEF EpollWait, HandleWatch, HandleDelegator, BatchDone, ClearFd,
                SyncSignal, SyncUnlock, vars
  <2> QED BY <2>1
<1> QED BY <1>1, <1>2, <1>3, <1>4, <1>5, <1>6, <1>7, <1>8 DEF Next, Poster, Loop

\* Delegates are run in posting order, each at most once and none skipped,
\* whatever the interleaving of channel_push and delegator_run.
THEOREM OrderKept == Spec => []NothingLostOrReordered
<1>1. Init => NothingLostOrReordered
  BY DEF Init, NothingLostOrReordered, Taken
<1> QED BY <1>1, OrderStep, TypeCorrect, PTL DEF Spec

-----------------------------------------------------------------------------
(* Wake-ups.                                                               *)

LEMMA WakeupStep == TypeOK /\ NoLostWakeup /\ [Next]_vars => NoLostWakeup'
<1> SUFFICES ASSUME TypeOK, NoLostWakeup, [Next]_vars PROVE NoLostWakeup'
  OBVIOUS
<1> USE DEF TypeOK, NoLostWakeup, channelVars, posterVars, loopVars
<1>1. ASSUME NEW p \in Posters, NEW d \in Delegates, NEW sync \in BOOLEAN,
             Call(p, d, sync)
      PROVE  NoLostWakeup'
  BY <1>1 DEF Call
<1>2. ASSUME NEW p \in Posters, PushAppend(p) PROVE NoLostWakeup'
  BY <1>2 DEF PushAppend
<1>3. ASSUME NEW p \in Posters, PushSignal(p) PROVE NoLostWakeup'
  BY <1>3 DEF PushSignal
<1>4. ASSUME NEW p \in Posters, SyncCheck(p) PROVE NoLostWakeup'
  BY <1>4 DEF SyncCheck
<1>5. ASSUME NEW p \in Posters, SpuriousWakeup(p) PROVE NoLostWakeup'
  BY <1>5 DEF SpuriousWakeup
<1>6. CASE EpollWait
  <2>1. fd => "delegator" \in batch'
    BY <1>6 DEF EpollWait
  <2>2. queue' = queue /\ fd' = fd /\ ppc' = ppc
    BY <1>6 DEF EpollWait
  <2>3. lpc = "epoll" /\ batch = {}
    BY <1>6 DEF EpollWait
  <2> QED BY <2>1, <2>2, <2>3
<1>7. CASE HandleWatch
  BY <1>7 DEF HandleWatch
<1>8. CASE HandleDelegator
  BY <1>8 DEF HandleDelegator
<1>9. CASE BatchDone
  BY <1>9 DEF BatchDone
<1>10. CASE ClearFd \/ Run \/ SyncSignal \/ SyncUnlock
  BY <1>10 DEF ClearFd, Run, SyncSignal, SyncUnlock
<1>11. CASE Pop
  BY <1>11 DEF Pop
<1>12. CASE UNCHANGED vars
  BY <1>12 DEF vars
<1> QED BY <1>1, <1>2, <1>3, <1>4, <1>5, <1>6, <1>7, <1>8, <1>9, <1>10, <1>11,
          <1>12 DEF Next, Poster, Loop

\* The loop never sleeps on a delegate: the reset of the eventfd comes
\* before the drain, and the drain ends on an empty queue.
THEOREM WakeupKept == Spec => []NoLostWakeup
<1>1. Init => NoLostWakeup
  BY DEF Init, NoLostWakeup
<1> QED BY <1>1, WakeupStep, TypeCorrect, PTL DEF Spec

-----------------------------------------------------------------------------
(* Frames.                                                                 *)

\* The poster of a synchronous entry is inside the call that posted it.
InCall(e) == call[e.from] = e /\ ppc[e.from] \in {"signal", "check", "wait"}

LoopHasEntry == lpc \in {"run", "sync", "unlock"}

\* Why a frame is alive: an unanswered call keeps its caller waiting because
\* done is false, an answered one because the loop still holds the struct's
\* mutex, and a caller has one call at a time, so answering one entry frees
\* no other.
FramesInv ==
  /\ \A i \in 1 .. Len(queue) :
       queue[i].sync => InCall(queue[i]) /\ ~done[queue[i].from]
  /\ \A i, j \in 1 .. Len(queue) :
       queue[i].sync /\ queue[j].sync /\ queue[i].from = queue[j].from => i = j
  /\ LoopHasEntry /\ cur.sync =>
       /\ InCall(cur) /\ ppc[cur.from] # "signal"
       /\ \A i \in 1 .. Len(queue) : queue[i].sync => queue[i].from # cur.from
       /\ IF lpc = "unlock" THEN smutex[cur.from] ELSE ~done[cur.from]
  /\ lpc \in {"sync", "unlock"} => cur.sync
  /\ \A p \in Posters : ppc[p] = "push" => ~done[p]

LEMMA FramesStep == TypeOK /\ FramesInv /\ [Next]_vars => FramesInv'
<1> SUFFICES ASSUME TypeOK, FramesInv, [Next]_vars PROVE FramesInv'
  OBVIOUS
<1> USE DEF FramesInv, InCall, LoopHasEntry, channelVars, posterVars, loopVars
<1>0. /\ queue \in Seq(Entry)
      /\ \A i \in 1 .. Len(queue) : queue[i] \in Entry
      /\ \A e \in Entry : e.from \in Posters /\ e.sync \in BOOLEAN
      /\ LoopHasEntry => cur \in Entry
  <2>1. \A e \in Entry : e.from \in Posters /\ e.sync \in BOOLEAN
    BY DEF Entry
  <2> QED BY <2>1 DEF TypeOK
<1>1. ASSUME NEW p \in Posters, NEW d \in Delegates, NEW sync \in BOOLEAN,
             Call(p, d, sync)
      PROVE  FramesInv'
  BY <1>0, <1>1 DEF Call, TypeOK
<1>2. ASSUME NEW p \in Posters, PushAppend(p) PROVE FramesInv'
  <2>1. /\ call[p] \in Entry /\ call[p].from = p
        /\ ppc[p] = "push" /\ ~done[p]
    BY <1>2 DEF PushAppend, TypeOK
  <2>2. /\ \A i \in 1 .. Len(queue) : queue[i].sync => queue[i].from # p
        /\ LoopHasEntry /\ cur.sync => cur.from # p
    BY <1>0, <2>1
  <2>3. /\ queue' = Append(queue, call[p])
        /\ Len(queue') = Len(queue) + 1
        /\ queue'[Len(queue) + 1] = call[p]
        /\ \A i \in 1 .. Len(queue) : queue'[i] = queue[i]
    BY <1>0, <1>2, <2>1 DEF PushAppend
  <2>4. /\ call' = call /\ done' = done /\ smutex' = smutex
        /\ lpc' = lpc /\ cur' = cur
        /\ ppc'[p] = "signal"
        /\ \A q \in Posters \ {p} : ppc'[q] = ppc[q]
    BY <1>2 DEF PushAppend, TypeOK
  <2>5. \A i \in 1 .. Len(queue') :
          i \in 1 .. Len(queue) \/ i = Len(queue) + 1
    BY <1>0, <2>3
  <2>6. (\A i \in 1 .. Len(queue) :
           queue[i].sync => InCall(queue[i]) /\ ~done[queue[i].from])'
    BY <1>0, <2>1, <2>2, <2>3, <2>4, <2>5
  <2>7. (\A i, j \in 1 .. Len(queue) :
           queue[i].sync /\ queue[j].sync /\ queue[i].from = queue[j].from
             => i = j)'
    BY <1>0, <2>1, <2>2, <2>3, <2>5
  <2>8. (LoopHasEntry /\ cur.sync =>
           /\ InCall(cur) /\ ppc[cur.from] # "signal"
           /\ \A i \in 1 .. Len(queue) : queue[i].sync => queue[i].from # cur.from
           /\ IF lpc = "unlock" THEN smutex[cur.from] ELSE ~done[cur.from])'
    BY <1>0, <2>1, <2>2, <2>3, <2>4, <2>5
  <2> QED BY <2>4, <2>6, <2>7, <2>8
<1>3. ASSUME NEW p \in Posters, PushSignal(p) PROVE FramesInv'
  <2>1. ~call[p].sync =>
          /\ \A i \in 1 .. Len(queue) : queue[i].sync => queue[i].from # p
          /\ LoopHasEntry /\ cur.sync => cur.from # p
    BY <1>0
  <2> QED BY <1>0, <1>3, <2>1 DEF PushSignal, TypeOK
<1>4. ASSUME NEW p \in Posters, SyncCheck(p) PROVE FramesInv'
  <2>1. done[p] =>
          /\ \A i \in 1 .. Len(queue) : queue[i].sync => queue[i].from # p
          /\ LoopHasEntry /\ cur.sync => cur.from # p
    BY <1>0, <1>4 DEF SyncCheck
  <2> QED BY <1>0, <1>4, <2>1 DEF SyncCheck, TypeOK
<1>5. ASSUME NEW p \in Posters, SpuriousWakeup(p) PROVE FramesInv'
  BY <1>0, <1>5 DEF SpuriousWakeup, TypeOK
<1>6. CASE EpollWait \/ HandleWatch \/ HandleDelegator \/ BatchDone \/ ClearFd
  BY <1>6 DEF EpollWait, HandleWatch, HandleDelegator, BatchDone, ClearFd
<1>7. CASE Pop
  <2>1. CASE queue = <<>>
    BY <1>7, <2>1 DEF Pop
  <2>2. CASE queue # <<>>
    <3>1. /\ cur' = queue[1] /\ queue' = Tail(queue) /\ lpc' = "run"
          /\ Len(queue') = Len(queue) - 1 /\ 1 \in 1 .. Len(queue)
          /\ \A i \in 1 .. Len(queue') :
               i + 1 \in 1 .. Len(queue) /\ queue'[i] = queue[i + 1]
      BY <1>0, <1>7, <2>2, HeadTailProperties, SMTT(20) DEF Pop
    <3>2. /\ ppc' = ppc /\ call' = call /\ done' = done /\ smutex' = smutex
          /\ \A q \in Posters : ppc[q] # "signal"
      BY <1>7, ConstantsAssumption DEF Pop, TypeOK, ConstantsAssumption
    <3>3. (\A i, j \in 1 .. Len(queue) :
             queue[i].sync /\ queue[j].sync /\ queue[i].from = queue[j].from
               => i = j)'
      BY <1>0, <3>1
    <3>4. cur'.sync => \A i \in 1 .. Len(queue') :
                         queue'[i].sync => queue'[i].from # cur'.from
      BY <1>0, <3>1
    <3> QED BY <1>0, <3>1, <3>2, <3>3, <3>4
  <2> QED BY <2>1, <2>2
<1>8. CASE Run
  BY <1>8 DEF Run
<1>9. CASE SyncSignal
  <2>1. /\ \A i \in 1 .. Len(queue) : queue[i].sync => queue[i].from # cur.from
        /\ cur \in Entry /\ cur.from \in Posters /\ ppc[cur.from] # "push"
    BY <1>0, <1>9 DEF SyncSignal
  <2> QED BY <1>0, <1>9, <2>1 DEF SyncSignal, TypeOK
<1>10. CASE SyncUnlock
  BY <1>0, <1>10 DEF SyncUnlock, TypeOK
<1>11. CASE UNCHANGED vars
  BY <1>11 DEF vars
<1> QED BY <1>1, <1>2, <1>3, <1>4, <1>5, <1>6, <1>7, <1>8, <1>9, <1>10, <1>11
        DEF Next, Poster, Loop

\* The struct on a synchronous caller's stack outlives every access of the
\* loop to it.
THEOREM FramesKept == Spec => []FramesAlive
<1>1. Init => FramesInv
  BY DEF Init, FramesInv, LoopHasEntry
<1>2. TypeOK /\ FramesInv => FramesAlive
  <2> SUFFICES ASSUME TypeOK, FramesInv, NEW e \in Reachable, e.sync
               PROVE  ppc[e.from] \in {"signal", "check", "wait"}
    BY DEF FramesAlive
  <2>1. CASE \E i \in DOMAIN queue : e = queue[i]
    <3>1. DOMAIN queue = 1 .. Len(queue)
      BY DEF TypeOK
    <3> QED BY <2>1, <3>1 DEF FramesInv, InCall
  <2>2. CASE LoopHasEntry /\ e = cur
    BY <2>2 DEF FramesInv, InCall
  <2> QED BY <2>1, <2>2 DEF Reachable, LoopHasEntry
<1> QED BY <1>1, <1>2, FramesStep, TypeCorrect, PTL DEF Spec

-----------------------------------------------------------------------------
(* Refinement.                                                             *)

LEMMA RefinementStep ==
  TypeOK /\ NothingLostOrReordered /\ [Next]_vars => [DQ!Next]_(DQ!vars)
<1> SUFFICES ASSUME TypeOK, NothingLostOrReordered, [Next]_vars
             PROVE  [DQ!Next]_(DQ!vars)
  OBVIOUS
<1> USE DEF DQ!Next, DQ!vars, Phase, channelVars, posterVars, loopVars
<1>1. ASSUME NEW p \in Posters, NEW d \in Delegates, NEW sync \in BOOLEAN,
             Call(p, d, sync)
      PROVE  UNCHANGED DQ!vars
  BY <1>1 DEF Call
<1>2. ASSUME NEW p \in Posters, PushAppend(p) PROVE DQ!Next
  <2>1. call[p] \in Entry
    BY <1>2 DEF PushAppend, TypeOK
  <2>2. DQ!Post(call[p])
    BY <1>2 DEF PushAppend, DQ!Post
  <2> QED BY <2>1, <2>2
<1>3. ASSUME NEW p \in Posters, PushSignal(p) \/ SyncCheck(p) \/ SpuriousWakeup(p)
      PROVE  UNCHANGED DQ!vars
  BY <1>3 DEF PushSignal, SyncCheck, SpuriousWakeup
<1>4. CASE \/ EpollWait \/ HandleDelegator \/ ClearFd \/ Pop \/ SyncSignal
           \/ SyncUnlock \/ UNCHANGED vars
  BY <1>4 DEF EpollWait, HandleDelegator, ClearFd, Pop, SyncSignal, SyncUnlock, vars
<1>5. CASE HandleWatch
  BY <1>5 DEF HandleWatch, DQ!Stop, TypeOK
<1>6. CASE BatchDone
  BY <1>6 DEF BatchDone, DQ!Exit, TypeOK
<1>7. CASE Run
  <2>1. /\ ran \in Seq(Entry) /\ queue \in Seq(Entry) /\ cur \in Entry
        /\ log = Append(ran, cur) \o queue
    BY <1>7 DEF Run, TypeOK, NothingLostOrReordered, Taken
  <2>2. Len(ran) < Len(log) /\ log[Len(ran) + 1] = cur
    BY <2>1
  <2>3. DQ!Run
    BY <1>7, <2>2 DEF Run, DQ!Run, TypeOK
  <2> QED BY <2>3
<1> QED BY <1>1, <1>2, <1>3, <1>4, <1>5, <1>6, <1>7 DEF Next, Poster, Loop

\* Every behaviour of the loop and its posters is one DelegateQueue allows:
\* what the rest of the program may assume of loop_delegate.
THEOREM Refinement == Spec => DQ!SafeSpec
<1>1. Init => DQ!Init
  BY DEF Init, DQ!Init, Phase
<1> QED BY <1>1, RefinementStep, TypeCorrect, OrderKept, PTL DEF Spec, DQ!SafeSpec
=============================================================================
