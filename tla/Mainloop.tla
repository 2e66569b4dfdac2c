------------------------------ MODULE Mainloop ------------------------------
(***************************************************************************)
(* The pa_mainloop_api that plugins/pulse/mainloop.c builds for libpulse   *)
(* from watches, timers and defers of the event loop.  libpulse calls its  *)
(* operations from whatever runs on the loop's thread, its own callbacks   *)
(* or the player's, between two steps of the loop, and frees the event at  *)
(* once: epoll has then perhaps reported it already.  What the loop does   *)
(* with its own objects' memory is in EventLoop; here are the descriptors, *)
(* the timerfds and the clock behind them.                                 *)
(***************************************************************************)
EXTENDS Integers

CONSTANTS Ios, Times, Defers, MaxTime, NULL,
          MaxOps  \* bound: operations libpulse performs

Events == Ios \cup Times \cup Defers
Flags == {"in", "out"}       \* PA_IO_EVENT_INPUT/EPOLLIN, OUTPUT/EPOLLOUT
Epoch == 0                   \* the timeval of two zeros
Instants == 1 .. MaxTime

ASSUME MainloopAssumption ==
  /\ MaxTime \in Nat \ {0} /\ MaxOps \in Nat /\ NULL \notin Events \cup Instants \cup {Epoch}
  /\ Ios \cap Times = {} /\ Ios \cap Defers = {} /\ Times \cap Defers = {}

VARIABLES
  life,    \* of an event: "none", "live" or "freed"
  destroy, \* events whose destroy_cb is set
  told,    \* history: events whose destroy_cb was called
  mask,    \* what epoll watches a descriptor for, {} if watch.fd is -1
  ready,   \* the conditions a descriptor is in
  tv,      \* the tv of a time event
  timerfd, \* when it expires, NULL if it is disarmed
  expired, \* time events with an expiration not read yet
  enabled, \* defers that are enabled
  now,     \* CLOCK_REALTIME
  call,    \* the callback of libpulse that runs and its argument, or NULL
  lpc,     \* the loop is in "defer", "wait" or "batch"
  passed,  \* defers loop_run_deferred is past
  batch,   \* events not handled yet, with the flags of an io event
  ops      \* operations so far

eventVars == <<life, destroy, told>>
objectVars == <<mask, tv, timerfd, expired, enabled>>
loopVars == <<lpc, passed, batch>>
vars == <<eventVars, objectVars, ready, now, call, loopVars, ops>>

Init ==
  /\ life = [e \in Events |-> "none"] /\ destroy = {} /\ told = {}
  /\ mask = [e \in Ios |-> {}] /\ ready \in [Ios -> SUBSET {"in"}]
  /\ tv = [e \in Times |-> Epoch] /\ timerfd = [e \in Times |-> NULL]
  /\ expired = {} /\ enabled = {} /\ now = 1 /\ call = NULL
  /\ lpc = "defer" /\ passed = {} /\ batch = {} /\ ops = 0

-----------------------------------------------------------------------------
(* The operations.                                                         *)

Operation(e) ==
  /\ lpc # "wait" /\ ops < MaxOps /\ ops' = ops + 1
  /\ UNCHANGED <<ready, now, call, loopVars>>

\* pulse_mainloop_io_enable; without flags the descriptor leaves epoll.
IoEnable(e, flags) ==
  /\ mask' = [mask EXCEPT ![e] = flags]
  /\ UNCHANGED <<tv, timerfd, expired, enabled>>

\* pulse_mainloop_time_restart; timerfd_settime forgets what has expired, and is told to
\* disarm the timer by a time of two zeros, whether that is no tv or the epoch.
TimeRestart(e, t) ==
  /\ tv' = IF t = NULL THEN tv ELSE [tv EXCEPT ![e] = t]
  /\ timerfd' = [timerfd EXCEPT ![e] = IF t = Epoch THEN NULL ELSE t]
  /\ expired' = expired \ {e}
  /\ UNCHANGED <<mask, enabled>>

DeferEnable(e, b) ==
  /\ enabled' = IF b THEN enabled \cup {e} ELSE enabled \ {e}
  /\ UNCHANGED <<mask, tv, timerfd, expired>>

Set(e) ==
  \/ e \in Ios /\ \E flags \in SUBSET Flags : IoEnable(e, flags)
  \/ e \in Times /\ \E t \in Instants \cup {Epoch, NULL} : TimeRestart(e, t)

New(e) ==
  /\ Operation(e)
  /\ life[e] = "none" /\ life' = [life EXCEPT ![e] = "live"]
  /\ Set(e) \/ (e \in Defers /\ DeferEnable(e, TRUE))
  /\ UNCHANGED <<destroy, told>>

Change(e) ==
  /\ Operation(e) /\ life[e] = "live"
  /\ Set(e) \/ (e \in Defers /\ \E b \in BOOLEAN : DeferEnable(e, b))
  /\ UNCHANGED eventVars

SetDestroy(e) ==
  /\ Operation(e) /\ life[e] = "live"
  /\ destroy' = destroy \cup {e}
  /\ UNCHANGED <<life, told, objectVars>>

\* pulse_mainloop_{io,time,defer}_free: destroy_cb, then the loop's object,
\* then the event.
Free(e) ==
  /\ Operation(e) /\ life[e] = "live"
  /\ told' = told \cup ({e} \cap destroy)
  /\ \/ e \in Ios /\ IoEnable(e, {})
     \/ e \in Times /\ timerfd' = [timerfd EXCEPT ![e] = NULL]
        /\ expired' = expired \ {e} /\ UNCHANGED <<mask, tv, enabled>>
     \/ e \in Defers /\ DeferEnable(e, FALSE)
  /\ life' = [life EXCEPT ![e] = "freed"]
  /\ UNCHANGED destroy

-----------------------------------------------------------------------------
(* loop_run, as far as it serves these events.                             *)

\* loop_run_deferred looks at one of its vector; after the last of them the
\* loop goes on to sleep.
RunDeferred ==
  /\ lpc = "defer" /\ call = NULL
  /\ LET left == {d \in Defers : life[d] # "none"} \ passed
     IN \/ \E d \in left :
             /\ passed' = passed \cup {d}
             /\ call' = IF d \in enabled THEN <<d, NULL>> ELSE NULL
             /\ UNCHANGED lpc
        \/ left = {} /\ lpc' = "wait" /\ passed' = {} /\ UNCHANGED call
  /\ UNCHANGED <<eventVars, objectVars, ready, now, batch, ops>>

Reported(e) ==
  IF mask[e] = {} THEN {} ELSE ready[e] \cap (mask[e] \cup {"hup"})

\* epoll_wait: all that is ready, as the array of ten has room for it, or
\* something else on the loop's thread.
EpollWait ==
  /\ lpc = "wait"
  /\ batch' = {<<e, Reported(e)>> : e \in {i \in Ios : Reported(i) # {}}}
              \cup {<<e, {}>> : e \in expired}
  /\ lpc' = "batch"
  /\ UNCHANGED <<eventVars, objectVars, ready, now, call, passed, ops>>

\* Mutant: the fd of the watch is not looked at.
WatchedAny(e) == TRUE

Watched(e) == mask[e] # {}

\* Mutant: the timerfd is not read.
HandleFdUnread ==
  /\ lpc = "batch" /\ call = NULL
  /\ \E b \in batch :
       /\ batch' = batch \ {b}
       /\ call' = IF b[1] \in expired THEN <<b[1], tv[b[1]]>>
                  ELSE IF b[1] \in Ios /\ Watched(b[1]) THEN b ELSE NULL
  /\ UNCHANGED <<eventVars, objectVars, ready, now, lpc, passed, ops>>

\* loop_handle_fd, with pulse_mainloop_watch_cb or, by way of
\* loop_timer_handle, pulse_mainloop_timer_cb.
HandleFd ==
  /\ lpc = "batch" /\ call = NULL
  /\ \E b \in batch :
       /\ batch' = batch \ {b}
       /\ IF b[1] \in Ios
          THEN /\ call' = IF Watched(b[1]) THEN b ELSE NULL
               /\ UNCHANGED expired
          ELSE /\ call' = IF b[1] \in expired THEN <<b[1], tv[b[1]]>> ELSE NULL
               /\ expired' = expired \ {b[1]}
  /\ UNCHANGED <<eventVars, mask, tv, timerfd, enabled, ready, now, lpc, passed, ops>>

BatchDone ==
  /\ lpc = "batch" /\ call = NULL /\ batch = {}
  /\ lpc' = "defer"
  /\ UNCHANGED <<eventVars, objectVars, ready, now, call, passed, batch, ops>>

\* A callback of libpulse reads or writes the descriptors first: an io
\* event's own one, a defer's any.
Return ==
  /\ call # NULL /\ call' = NULL
  /\ \E i \in Ios : \E drained \in SUBSET Flags :
       /\ drained = {} \/ call[1] \in {i} \cup Defers
       /\ ready' = [ready EXCEPT ![i] = @ \ drained]
  /\ UNCHANGED <<eventVars, objectVars, now, loopVars, ops>>

Loop == RunDeferred \/ EpollWait \/ HandleFd \/ BatchDone \/ Return

-----------------------------------------------------------------------------
(* The world: time passes, timerfds expire, peers send, read and go.       *)

Tick ==
  /\ now < MaxTime /\ now' = now + 1
  /\ UNCHANGED <<eventVars, objectVars, ready, call, loopVars, ops>>

Expire(e) ==
  /\ timerfd[e] \in 1 .. now
  /\ expired' = expired \cup {e} /\ timerfd' = [timerfd EXCEPT ![e] = NULL]
  /\ UNCHANGED <<eventVars, mask, tv, enabled, ready, now, call, loopVars, ops>>

Peer(i) ==
  /\ \E c \in (Flags \cup {"hup"}) \ ready[i] :
       ready' = [ready EXCEPT ![i] = @ \cup {c}]
  /\ UNCHANGED <<eventVars, objectVars, now, call, loopVars, ops>>

Next ==
  \/ \E e \in Events : New(e) \/ Change(e) \/ SetDestroy(e) \/ Free(e)
  \/ Loop \/ Tick
  \/ \E e \in Times : Expire(e)
  \/ \E i \in Ios : Peer(i)

\* The loop goes on, and a timerfd whose time has come expires.
Fairness == WF_vars(Loop) /\ \A e \in Times : WF_vars(Expire(e))

Spec == Init /\ [][Next]_vars /\ Fairness

-----------------------------------------------------------------------------
(* Properties.                                                             *)

TypeOK ==
  /\ life \in [Events -> {"none", "live", "freed"}]
  /\ destroy \subseteq Events /\ told \subseteq destroy
  /\ mask \in [Ios -> SUBSET Flags]
  /\ tv \in [Times -> Instants \cup {Epoch}] /\ timerfd \in [Times -> Instants \cup {NULL}]
  /\ expired \subseteq {e \in Times : life[e] = "live" /\ timerfd[e] = NULL}
  /\ enabled \subseteq {e \in Defers : life[e] = "live"}
  /\ lpc \in {"defer", "wait", "batch"} /\ passed \subseteq Defers
  /\ batch # {} => lpc = "batch"
  /\ ops \in 0 .. MaxOps

\* The mainloop keeps the promises of MainloopApi, although epoll reports
\* events that libpulse disables, sets again or frees before they are handled
\* (loop.c:124, 260).
Api == INSTANCE MainloopApi WITH
  wants <- mask,
  at <- [e \in Times |-> IF e \in expired THEN tv[e] ELSE timerfd[e]]

PromisesKept == []TypeOK /\ Api!ApiSpec

\* Every due time event and every descriptor in a condition that is asked for
\* is called in the end, however long the batches before it.
NobodyStarves == Api!EachIsCalled
=============================================================================
