----------------------------- MODULE Delegator -----------------------------
(***************************************************************************)
(* One loop of oka and the threads that post delegates to it: the channel  *)
(* (a list under a mutex, with an eventfd that says "not empty"), the      *)
(* delegator on top of it, the epoll loop that drains it, and the          *)
(* synchronous call delegator_delegate_sync, whose struct thread_sync      *)
(* lives on the caller's stack.                                            *)
(*                                                                         *)
(* Grain.  A critical section is one action unless a step inside it is     *)
(* visible to a thread that does not take the mutex: channel_push appends  *)
(* and then writes the eventfd, which delegator_run reads without the      *)
(* mutex, so it is two actions with the mutex held in between.             *)
(***************************************************************************)
EXTENDS Naturals, Sequences

CONSTANTS
  Posters,    \* threads that call loop_delegate and loop_delegate_sync
  Delegates,  \* delegate objects; a static one is posted many times
  MaxPosts,   \* bound: no call starts once this many were posted
  NULL

ASSUME ConstantsAssumption == /\ MaxPosts \in Nat
                              /\ NULL \notin Posters

\* What channel_push stores: the delegate, and for a synchronous call the
\* thread whose stack holds the struct delegate_sync around it.
Entry == [d : Delegates, from : Posters, sync : BOOLEAN]

VARIABLES
  queue,    \* channel.head
  mutex,    \* owner of channel.mutex, or NULL
  fd,       \* the eventfd counter is not 0
  ppc,      \* where each poster is
  call,     \* what each poster is posting, or posted last
  done,     \* thread_sync.done of each poster's struct
  smutex,   \* the loop is inside thread_sync_signal's critical section
  lpc,      \* where the loop is
  batch,    \* events of this epoll_wait not handled yet
  running,  \* loop.running
  cur,      \* the delegate delegator_run has popped
  log, ran  \* history: everything posted, everything run

channelVars == <<queue, mutex, fd>>
posterVars  == <<ppc, call, done, smutex>>
loopVars    == <<lpc, batch, running, cur>>
vars == <<channelVars, posterVars, loopVars, log, ran>>

Init ==
  /\ queue = <<>> /\ mutex = NULL /\ fd = FALSE
  /\ ppc = [p \in Posters |-> "idle"]
  /\ call = [p \in Posters |-> NULL]
  /\ done = [p \in Posters |-> FALSE]
  /\ smutex = [p \in Posters |-> FALSE]
  /\ lpc = "epoll" /\ batch = {} /\ running = TRUE /\ cur = NULL
  /\ log = <<>> /\ ran = <<>>

-----------------------------------------------------------------------------
(* A posting thread.                                                       *)

\* loop_delegate or loop_delegate_sync is called; the latter initialises a
\* struct thread_sync in its frame.
Call(p, d, sync) ==
  /\ ppc[p] = "idle"
  /\ Len(log) < MaxPosts
  /\ call' = [call EXCEPT ![p] = [d |-> d, from |-> p, sync |-> sync]]
  /\ done' = [done EXCEPT ![p] = FALSE]
  /\ ppc' = [ppc EXCEPT ![p] = "push"]
  /\ UNCHANGED <<channelVars, smutex, loopVars, log, ran>>

\* channel_push takes the mutex and appends the new entry.
PushAppend(p) ==
  /\ ppc[p] = "push"
  /\ mutex = NULL
  /\ mutex' = p
  /\ queue' = Append(queue, call[p])
  /\ log' = Append(log, call[p])
  /\ ppc' = [ppc EXCEPT ![p] = "signal"]
  /\ UNCHANGED <<fd, call, done, smutex, loopVars, ran>>

\* Mutant: the eventfd is not written.
PushSignalSilent(p) ==
  /\ ppc[p] = "signal"
  /\ mutex' = NULL
  /\ ppc' = [ppc EXCEPT ![p] = IF call[p].sync THEN "check" ELSE "idle"]
  /\ UNCHANGED <<queue, fd, call, done, smutex, loopVars, log, ran>>

\* channel_push writes the eventfd and releases the mutex.
PushSignal(p) ==
  /\ ppc[p] = "signal"
  /\ fd' = TRUE
  /\ mutex' = NULL
  /\ ppc' = [ppc EXCEPT ![p] = IF call[p].sync THEN "check" ELSE "idle"]
  /\ UNCHANGED <<queue, call, done, smutex, loopVars, log, ran>>

\* Mutant: done is read without the struct's mutex.
SyncCheckUnlocked(p) ==
  /\ ppc[p] = "check"
  /\ ppc' = [ppc EXCEPT ![p] = IF done[p] THEN "idle" ELSE "wait"]
  /\ done' = [done EXCEPT ![p] = FALSE]
  /\ UNCHANGED <<channelVars, call, smutex, loopVars, log, ran>>

\* thread_sync_wait: under the struct's mutex, return if done is set (the
\* caller's frame is then gone), else wait on the condition.
SyncCheck(p) ==
  /\ ppc[p] = "check"
  /\ ~smutex[p]
  /\ ppc' = [ppc EXCEPT ![p] = IF done[p] THEN "idle" ELSE "wait"]
  /\ done' = [done EXCEPT ![p] = FALSE]
  /\ UNCHANGED <<channelVars, call, smutex, loopVars, log, ran>>

\* pthread_cond_wait may return without a signal.
SpuriousWakeup(p) ==
  /\ ppc[p] = "wait"
  /\ ppc' = [ppc EXCEPT ![p] = "check"]
  /\ UNCHANGED <<channelVars, call, done, smutex, loopVars, log, ran>>

Poster(p) ==
  \/ \E d \in Delegates, sync \in BOOLEAN : Call(p, d, sync)
  \/ PushAppend(p)
  \/ PushSignal(p)
  \/ SyncCheck(p)
  \/ SpuriousWakeup(p)

-----------------------------------------------------------------------------
(* The loop's thread.                                                      *)

\* epoll_wait returns: the delegator's eventfd if it is signalled, and
\* perhaps some other watch of the loop.
EpollWait ==
  /\ lpc = "epoll"
  /\ \E other \in BOOLEAN :
       /\ fd \/ other
       /\ batch' = {e \in {"delegator", "watch"} :
                      IF e = "delegator" THEN fd ELSE other}
  /\ lpc' = "batch"
  /\ UNCHANGED <<channelVars, posterVars, running, cur, log, ran>>

\* Another watch's callback runs; it may call loop_stop.
HandleWatch ==
  /\ lpc = "batch"
  /\ "watch" \in batch
  /\ batch' = batch \ {"watch"}
  /\ \E stop \in BOOLEAN : running' = (running /\ ~stop)
  /\ UNCHANGED <<channelVars, posterVars, lpc, cur, log, ran>>

\* loop_handle_delegate enters delegator_run.
HandleDelegator ==
  /\ lpc = "batch"
  /\ "delegator" \in batch
  /\ batch' = batch \ {"delegator"}
  /\ lpc' = "clear"
  /\ UNCHANGED <<channelVars, posterVars, running, cur, log, ran>>

\* The batch is finished and loop_run tests loop->running.
BatchDone ==
  /\ lpc = "batch"
  /\ batch = {}
  /\ lpc' = IF running THEN "epoll" ELSE "exited"
  /\ UNCHANGED <<channelVars, posterVars, batch, running, cur, log, ran>>

\* delegator_run first resets the eventfd, without the channel's mutex.
ClearFd ==
  /\ lpc = "clear"
  /\ fd' = FALSE
  /\ lpc' = "pop"
  /\ UNCHANGED <<queue, mutex, posterVars, batch, running, cur, log, ran>>

\* Mutant: the newest entry is popped.
PopLast ==
  /\ lpc = "pop"
  /\ mutex = NULL
  /\ \/ /\ queue = <<>>
        /\ lpc' = "batch"
        /\ UNCHANGED <<queue, cur>>
     \/ /\ queue # <<>>
        /\ cur' = queue[Len(queue)]
        /\ queue' = SubSeq(queue, 1, Len(queue) - 1)
        /\ lpc' = "run"
  /\ UNCHANGED <<mutex, fd, posterVars, batch, running, log, ran>>

\* channel_pop under the mutex: the oldest entry, or the end of the drain.
Pop ==
  /\ lpc = "pop"
  /\ mutex = NULL
  /\ \/ /\ queue = <<>>
        /\ lpc' = "batch"
        /\ UNCHANGED <<queue, cur>>
     \/ /\ queue # <<>>
        /\ cur' = Head(queue)
        /\ queue' = Tail(queue)
        /\ lpc' = "run"
  /\ UNCHANGED <<mutex, fd, posterVars, batch, running, log, ran>>

\* Mutant: delegator_run runs one delegate instead of all of them.
RunOne ==
  /\ lpc = "run"
  /\ ran' = Append(ran, cur)
  /\ lpc' = IF cur.sync THEN "sync" ELSE "batch"
  /\ \E stop \in BOOLEAN : running' = (running /\ ~stop)
  /\ UNCHANGED <<channelVars, posterVars, batch, cur, log>>

\* dd->run(dd): the delegate may call loop_stop; a synchronous one then
\* signals its caller.
Run ==
  /\ lpc = "run"
  /\ ran' = Append(ran, cur)
  /\ lpc' = IF cur.sync THEN "sync" ELSE "pop"
  /\ \E stop \in BOOLEAN : running' = (running /\ ~stop)
  /\ UNCHANGED <<channelVars, posterVars, batch, cur, log>>

\* Mutant: the condition is not signalled.
SyncSignalNoWake ==
  /\ lpc = "sync"
  /\ smutex' = [smutex EXCEPT ![cur.from] = TRUE]
  /\ done' = [done EXCEPT ![cur.from] = TRUE]
  /\ lpc' = "unlock"
  /\ UNCHANGED <<channelVars, ppc, call, batch, running, cur, log, ran>>

\* thread_sync_signal: lock, done = true, wake the caller if it waits.
SyncSignal ==
  /\ lpc = "sync"
  /\ smutex' = [smutex EXCEPT ![cur.from] = TRUE]
  /\ done' = [done EXCEPT ![cur.from] = TRUE]
  /\ ppc' = [ppc EXCEPT ![cur.from] = IF @ = "wait" THEN "check" ELSE @]
  /\ lpc' = "unlock"
  /\ UNCHANGED <<channelVars, call, batch, running, cur, log, ran>>

\* thread_sync_signal unlocks: its last access to the caller's frame.
SyncUnlock ==
  /\ lpc = "unlock"
  /\ smutex' = [smutex EXCEPT ![cur.from] = FALSE]
  /\ lpc' = "pop"
  /\ UNCHANGED <<channelVars, ppc, call, done, batch, running, cur, log, ran>>

Loop ==
  \/ EpollWait \/ HandleWatch \/ HandleDelegator \/ BatchDone
  \/ ClearFd \/ Pop \/ Run \/ SyncSignal \/ SyncUnlock

Next == (\E p \in Posters : Poster(p)) \/ Loop

\* The kernel schedules every thread that can run.  A thread that calls
\* nothing, and a condition that wakes spuriously, are not forced.
Fairness ==
  /\ WF_vars(Loop)
  /\ \A p \in Posters : /\ WF_vars(PushAppend(p))
                        /\ WF_vars(PushSignal(p))
                        /\ WF_vars(SyncCheck(p))

Spec == Init /\ [][Next]_vars /\ Fairness

-----------------------------------------------------------------------------
(* Properties.                                                             *)

\* Every variable has its type; the channel's mutex is held exactly by the
\* poster inside channel_push, a sync mutex only by the loop inside
\* thread_sync_signal, and a poster past Call has a call to make.
TypeOK ==
  /\ queue \in Seq(Entry) /\ log \in Seq(Entry) /\ ran \in Seq(Entry)
  /\ mutex \in Posters \cup {NULL}
  /\ \A p \in Posters : (mutex = p) <=> (ppc[p] = "signal")
  /\ fd \in BOOLEAN /\ running \in BOOLEAN
  /\ ppc \in [Posters -> {"idle", "push", "signal", "check", "wait"}]
  /\ call \in [Posters -> Entry \cup {NULL}]
  /\ \A p \in Posters : ppc[p] # "idle" => call[p] \in Entry /\ call[p].from = p
  /\ done \in [Posters -> BOOLEAN] /\ smutex \in [Posters -> BOOLEAN]
  /\ lpc \in {"epoll", "batch", "clear", "pop", "run", "sync", "unlock", "exited"}
  /\ batch \subseteq {"delegator", "watch"}
  /\ lpc = "epoll" => batch = {}
  /\ cur \in Entry \cup {NULL}
  /\ lpc \in {"run", "sync", "unlock"} => cur \in Entry
  /\ \A p \in Posters : smutex[p] => lpc = "unlock" /\ cur.from = p

\* The entries the loop has taken: those it ran, and the one it is about to.
Taken == IF lpc = "run" THEN Append(ran, cur) ELSE ran

\* Delegates are run in posting order, none twice, none skipped: what was
\* taken followed by what is queued is what was posted.  main.c relies on it
\* when it posts set_sink (plugins.c:123) before set_input (main.c:262).
NothingLostOrReordered == log = Taken \o queue

\* delegator_run resets the eventfd without the channel's mutex
\* (delegate.c:33), so a push can come between the reset and the pops: yet
\* the loop never goes to sleep on a non-empty queue unless the eventfd is
\* set or about to be.
NoLostWakeup ==
  queue # <<>> /\ lpc \in {"epoll", "batch"} /\ "delegator" \notin batch
    => fd \/ \E p \in Posters : ppc[p] = "signal"

\* Entries the loop will still dereference.
Reachable ==
  {queue[i] : i \in DOMAIN queue}
    \cup (IF lpc \in {"run", "sync", "unlock"} THEN {cur} ELSE {})

\* delegator_delegate_sync posts a struct on its own stack: as long as the
\* loop may touch it, up to the unlock in thread_sync_signal, the caller is
\* still inside the call.
FramesAlive ==
  \A e \in Reachable : e.sync => ppc[e.from] \in {"signal", "check", "wait"}

\* A synchronous call returns, or the loop it was posted to has exited.
SyncCallReturns ==
  \A p \in Posters :
    ppc[p] = "push" /\ call[p].sync ~> ppc[p] = "idle" \/ lpc = "exited"

\* What DelegateQueue's phase is here.
Phase == IF lpc = "exited" THEN "exited"
         ELSE IF running THEN "open" ELSE "stopping"

DQ == INSTANCE DelegateQueue WITH Delegate <- Entry, phase <- Phase

\* The channel, the eventfd and the epoll loop implement DelegateQueue, its
\* liveness included: no delegate posted to a living loop waits for ever.
ImplementsDelegateQueue == DQ!Spec
=============================================================================
