--------------------------- MODULE MainloopProofs ---------------------------
(***************************************************************************)
(* Module Mainloop implements MainloopApi, for any events, any clock and   *)
(* any number of operations of libpulse.                                   *)
(***************************************************************************)
EXTENDS Mainloop, TLAPS

USE MainloopAssumption

Conditions == Flags \cup {"hup"}

-----------------------------------------------------------------------------
(* The inductive invariant.                                                *)

Ready == ready \in [Ios -> SUBSET Conditions] /\ now \in Instants

\* What a timerfd is set to is what the event was restarted with, and it has
\* not expired before that.
Armed ==
  /\ \A e \in Times : timerfd[e] # NULL => life[e] = "live" /\ timerfd[e] = tv[e]
  /\ \A e \in expired : tv[e] \in 1 .. now

\* A callback runs in the pass over the defers or in a batch, for an event of
\* the kinds that are called there.
Calling ==
  call # NULL => \/ lpc = "defer" /\ call[1] \in Defers
                 \/ lpc = "batch" /\ call[1] \in Ios \cup Times

\* What epoll_wait reported of a descriptor is still so when it is handled:
\* only the event's own callback drains it, and it runs once in a batch.
Reports ==
  /\ batch \subseteq (Ios \X SUBSET Conditions) \cup (Times \X {{}})
  /\ \A b \in batch : b[1] \in Ios => b[2] # {} /\ b[2] \subseteq ready[b[1]]
  /\ \A a, b \in batch : a[1] = b[1] => a = b
  /\ call # NULL => \A b \in batch : b[1] # call[1]

IInv == TypeOK /\ Ready /\ Armed /\ Calling /\ Reports

-----------------------------------------------------------------------------
(* Every step keeps it.                                                    *)

LEMMA InitIs == Init => IInv
BY DEF Init, IInv, TypeOK, Ready, Armed, Calling, Reports, Conditions, Flags, Instants, Epoch, Events

\* libpulse's operations touch neither the descriptors nor the batch, and
\* what they start or stop is of a live event.
LEMMA OperationKeeps ==
  ASSUME NEW e \in Events, IInv, New(e) \/ Change(e) \/ SetDestroy(e) \/ Free(e)
  PROVE  IInv'
<1> DEFINE Same == UNCHANGED <<ready, now, call, loopVars>>
<1>1. Same /\ lpc # "wait" /\ ops' \in 0 .. MaxOps
  <2>1. Operation(e)
    BY DEF New, Change, SetDestroy, Free
  <2> QED BY <2>1 DEF IInv, TypeOK, Operation
<1>2. Ready' /\ Calling' /\ Reports'
  BY <1>1 DEF IInv, Ready, Calling, Reports, loopVars
<1>3. ASSUME life' \in [Events -> {"none", "live", "freed"}], life'[e] = "live",
             \A x \in Events : x # e => life'[x] = life[x],
             destroy' \subseteq Events, told' \subseteq destroy',
             Set(e) \/ (e \in Defers /\ \E b \in BOOLEAN : DeferEnable(e, b))
      PROVE  TypeOK' /\ Armed'
  <2>1. CASE e \in Ios /\ \E flags \in SUBSET Flags : IoEnable(e, flags)
    BY <1>1, <1>3, <2>1 DEF IInv, TypeOK, Armed, IoEnable, loopVars, Events, Instants
  <2>2. CASE e \in Times /\ \E t \in Instants \cup {Epoch, NULL} : TimeRestart(e, t)
    BY <1>1, <1>3, <2>2 DEF IInv, TypeOK, Armed, TimeRestart, loopVars, Events, Instants, Epoch
  <2>3. CASE e \in Defers /\ \E b \in BOOLEAN : DeferEnable(e, b)
    BY <1>1, <1>3, <2>3 DEF IInv, TypeOK, Armed, DeferEnable, loopVars, Events, Instants
  <2> QED BY <1>3, <2>1, <2>2, <2>3 DEF Set
<1>4. CASE New(e)
  <2>1. /\ life' = [life EXCEPT ![e] = "live"] /\ UNCHANGED <<destroy, told>>
        /\ Set(e) \/ (e \in Defers /\ DeferEnable(e, TRUE))
    BY <1>4 DEF New
  <2>2. /\ life \in [Events -> {"none", "live", "freed"}]
        /\ destroy \subseteq Events /\ told \subseteq destroy
    BY DEF IInv, TypeOK
  <2>3. TypeOK' /\ Armed'
    BY <1>3, <2>1, <2>2
  <2> QED BY <1>2, <2>3 DEF IInv
<1>5. CASE Change(e)
  <2>1. /\ life[e] = "live" /\ UNCHANGED <<life, destroy, told>>
        /\ Set(e) \/ (e \in Defers /\ \E b \in BOOLEAN : DeferEnable(e, b))
    BY <1>5 DEF Change, eventVars
  <2>2. /\ life \in [Events -> {"none", "live", "freed"}]
        /\ destroy \subseteq Events /\ told \subseteq destroy
    BY DEF IInv, TypeOK
  <2>3. TypeOK' /\ Armed'
    BY <1>3, <2>1, <2>2
  <2> QED BY <1>2, <2>3 DEF IInv
<1>6. CASE SetDestroy(e)
  <2>1. destroy' = destroy \cup {e} /\ UNCHANGED <<life, told, objectVars>>
    BY <1>6 DEF SetDestroy
  <2>2. TypeOK' /\ Armed'
    BY <1>1, <2>1 DEF objectVars, loopVars, IInv, TypeOK, Armed
  <2> QED BY <1>2, <2>2 DEF IInv
<1>7. CASE Free(e)
  <2>1. /\ life' = [life EXCEPT ![e] = "freed"] /\ UNCHANGED destroy
        /\ told' = told \cup ({e} \cap destroy)
    BY <1>7 DEF Free
  <2>2. CASE e \in Ios /\ IoEnable(e, {})
    <3>1. TypeOK' /\ Armed'
      BY <1>1, <2>1, <2>2 DEF IInv, TypeOK, Armed, IoEnable, loopVars, Events, Instants
    <3> QED BY <1>2, <3>1 DEF IInv
  <2>3. CASE /\ e \in Times /\ timerfd' = [timerfd EXCEPT ![e] = NULL]
             /\ expired' = expired \ {e} /\ UNCHANGED <<mask, tv, enabled>>
    <3>1. TypeOK' /\ Armed'
      BY <1>1, <2>1, <2>3 DEF IInv, TypeOK, Armed, loopVars, Events, Instants
    <3> QED BY <1>2, <3>1 DEF IInv
  <2>4. CASE e \in Defers /\ DeferEnable(e, FALSE)
    <3>1. TypeOK' /\ Armed'
      BY <1>1, <2>1, <2>4 DEF IInv, TypeOK, Armed, DeferEnable, loopVars, Events, Instants
    <3> QED BY <1>2, <3>1 DEF IInv
  <2> QED BY <1>7, <2>2, <2>3, <2>4 DEF Free
<1> QED BY <1>4, <1>5, <1>6, <1>7

\* The pass over the defers calls nothing but defers.
LEMMA RunDeferredKeeps == ASSUME IInv, RunDeferred PROVE IInv'
<1>1. /\ lpc = "defer" /\ call = NULL
      /\ UNCHANGED <<eventVars, objectVars, ready, now, batch, ops>>
  BY DEF RunDeferred
<1>2. \/ lpc' = lpc /\ passed' \subseteq Defers /\ (call' # NULL => call'[1] \in Defers)
      \/ lpc' = "wait" /\ passed' = {} /\ call' = NULL
  BY DEF RunDeferred, IInv, TypeOK
<1>3. batch = {} /\ lpc' \in {"defer", "wait"}
  BY <1>1, <1>2 DEF IInv, TypeOK
<1> QED BY <1>1, <1>2, <1>3
     DEF IInv, TypeOK, Ready, Armed, Calling, Reports, eventVars, objectVars

\* epoll_wait reports every event once, with what its descriptor is in.
LEMMA EpollWaitKeeps == ASSUME IInv, EpollWait PROVE IInv'
<1>1. /\ lpc = "wait" /\ lpc' = "batch" /\ call = NULL
      /\ UNCHANGED <<eventVars, objectVars, ready, now, call, passed, ops>>
  BY DEF EpollWait, IInv, Calling
<1>2. ASSUME NEW i \in Ios PROVE Reported(i) \subseteq ready[i] /\ ready[i] \subseteq Conditions
  BY DEF Reported, IInv, Ready
<1>3. ASSUME NEW b \in batch'
      PROVE  \/ \E i \in Ios : b = <<i, Reported(i)>> /\ Reported(i) # {}
             \/ \E t \in Times : b = <<t, {}>>
  BY <1>3 DEF EpollWait, IInv, TypeOK
<1>4. Reports'
  <2>1. batch' \subseteq (Ios \X SUBSET Conditions) \cup (Times \X {{}})
    BY <1>2, <1>3
  <2>2. \A b \in batch' : b[1] \in Ios => b[2] # {} /\ b[2] \subseteq ready[b[1]]
    BY <1>2, <1>3
  <2>3. \A b \in batch' : /\ b[1] \in Ios => b = <<b[1], Reported(b[1])>>
                          /\ b[1] \notin Ios => b = <<b[1], {}>>
    BY <1>3
  <2>4. \A a, b \in batch' : a[1] = b[1] => a = b
    BY <2>3
  <2> QED BY <1>1, <2>1, <2>2, <2>4 DEF Reports
<1> QED BY <1>1, <1>4 DEF IInv, TypeOK, Ready, Armed, Calling, eventVars, objectVars

\* What is handled has left the batch.
LEMMA HandleFdKeeps == ASSUME IInv, HandleFd PROVE IInv'
<1>1. /\ lpc = "batch" /\ call = NULL
      /\ UNCHANGED <<eventVars, mask, tv, timerfd, enabled, ready, now, lpc, passed, ops>>
  BY DEF HandleFd
<1>2. PICK b \in batch :
        /\ batch' = batch \ {b}
        /\ IF b[1] \in Ios
           THEN call' = (IF Watched(b[1]) THEN b ELSE NULL) /\ UNCHANGED expired
           ELSE /\ call' = IF b[1] \in expired THEN <<b[1], tv[b[1]]>> ELSE NULL
                /\ expired' = expired \ {b[1]}
  BY DEF HandleFd
<1>3. b[1] \in Ios \cup Times
  BY DEF IInv, Reports
<1>4. call' # NULL => call'[1] = b[1]
  BY <1>2
<1>5. expired' \subseteq expired
  BY <1>2
<1>6. Reports'
  <2>1. \A a \in batch' : a \in batch /\ a # b
    BY <1>2
  <2> QED BY <1>1, <1>4, <2>1 DEF IInv, Reports
<1>7. Calling'
  BY <1>1, <1>3, <1>4 DEF Calling
<1> QED BY <1>1, <1>2, <1>5, <1>6, <1>7 DEF IInv, TypeOK, Ready, Armed, eventVars

\* Only the event whose callback runs is drained, and it is not in the batch.
LEMMA ReturnKeeps == ASSUME IInv, Return PROVE IInv'
<1>1. PICK i \in Ios, drained \in SUBSET Flags :
        /\ drained = {} \/ call[1] \in {i} \cup Defers
        /\ ready' = [ready EXCEPT ![i] = @ \ drained]
  BY DEF Return
<1>2. call # NULL /\ call' = NULL /\ UNCHANGED <<eventVars, objectVars, now, loopVars, ops>>
  BY DEF Return
<1>3. Ready'
  BY <1>1, <1>2 DEF IInv, Ready
<1>4. Reports'
  <2>1. ASSUME NEW b \in batch, b[1] \in Ios PROVE ready'[b[1]] = ready[b[1]]
    <3>1. b[1] # call[1] /\ lpc = "batch" /\ call[1] \in Ios \cup Times
      BY <1>2, <2>1 DEF IInv, Reports, Calling, TypeOK
    <3>2. b[1] = i => drained = {}
      BY <1>1, <3>1
    <3>3. ready \in [Ios -> SUBSET Conditions]
      BY DEF IInv, Ready
    <3> QED BY <1>1, <2>1, <3>2, <3>3
  <2> QED BY <1>2, <2>1 DEF IInv, Reports, loopVars
<1> QED BY <1>2, <1>3, <1>4 DEF IInv, TypeOK, Armed, Calling, eventVars, objectVars, loopVars

LEMMA WorldKeeps ==
  ASSUME IInv, Tick \/ (\E e \in Times : Expire(e)) \/ (\E i \in Ios : Peer(i))
  PROVE  IInv'
<1>1. CASE Tick
  BY <1>1 DEF Tick, IInv, TypeOK, Ready, Armed, Calling, Reports, Instants,
              eventVars, objectVars, loopVars
<1>2. ASSUME NEW e \in Times, Expire(e) PROVE IInv'
  <2>1. timerfd[e] # NULL /\ timerfd[e] = tv[e] /\ life[e] = "live" /\ tv[e] <= now
    BY <1>2 DEF Expire, IInv, Ready, Armed, Instants
  <2> QED BY <1>2, <2>1 DEF Expire, IInv, TypeOK, Ready, Armed, Calling, Reports,
                             eventVars, loopVars
<1>3. ASSUME NEW i \in Ios, Peer(i) PROVE IInv'
  BY <1>3 DEF Peer, IInv, TypeOK, Ready, Armed, Calling, Reports, Conditions,
              eventVars, objectVars, loopVars
<1> QED BY <1>1, <1>2, <1>3

LEMMA StepKeeps == IInv /\ [Next]_vars => IInv'
<1> SUFFICES ASSUME IInv, [Next]_vars PROVE IInv'
  OBVIOUS
<1>1. CASE BatchDone
  BY <1>1 DEF BatchDone, IInv, TypeOK, Ready, Armed, Calling, Reports, eventVars, objectVars
<1>2. CASE UNCHANGED vars
  BY <1>2 DEF vars, IInv, TypeOK, Ready, Armed, Calling, Reports, eventVars, objectVars, loopVars
<1> QED BY <1>1, <1>2, OperationKeeps, RunDeferredKeeps, EpollWaitKeeps, HandleFdKeeps,
           ReturnKeeps, WorldKeeps DEF Next, Loop

\* The invariant is inductive.
THEOREM Inductive == Spec => []IInv
BY InitIs, StepKeeps, PTL DEF Spec

-----------------------------------------------------------------------------
(* Refinement.                                                             *)

\* When a time event is to be called, in the words of MainloopApi.
at == [e \in Times |-> IF e \in expired THEN tv[e] ELSE timerfd[e]]

LEMMA SetIs ==
  ASSUME NEW e \in Events, IInv, Set(e) \/ (e \in Defers /\ \E b \in BOOLEAN : DeferEnable(e, b))
  PROVE  \/ /\ e \in Ios /\ \E flags \in SUBSET Flags : mask' = [mask EXCEPT ![e] = flags]
            /\ UNCHANGED <<at, enabled>>
         \/ /\ e \in Times /\ \E t \in Instants \cup {NULL} : at' = [at EXCEPT ![e] = t]
            /\ UNCHANGED <<mask, enabled>>
         \/ /\ e \in Defers /\ enabled' \in {enabled \cup {e}, enabled \ {e}}
            /\ UNCHANGED <<mask, at>>
<1>1. ASSUME NEW flags \in SUBSET Flags, e \in Ios, IoEnable(e, flags)
      PROVE  mask' = [mask EXCEPT ![e] = flags] /\ UNCHANGED <<at, enabled>>
  BY <1>1 DEF IoEnable, at
<1>2. ASSUME NEW t \in Instants \cup {Epoch, NULL}, e \in Times, TimeRestart(e, t)
      PROVE  /\ \E s \in Instants \cup {NULL} : at' = [at EXCEPT ![e] = s]
             /\ UNCHANGED <<mask, enabled>>
  <2> DEFINE s == IF t = Epoch THEN NULL ELSE t
  <2>1. /\ timerfd' = [timerfd EXCEPT ![e] = s] /\ expired' = expired \ {e}
        /\ \A x \in Times : x # e => tv'[x] = tv[x]
        /\ timerfd \in [Times -> Instants \cup {NULL}] /\ UNCHANGED <<mask, enabled>>
    BY <1>2 DEF TimeRestart, IInv, TypeOK
  <2>2. at' = [at EXCEPT ![e] = s]
    <3> HIDE DEF s
    <3> QED BY <1>2, <2>1 DEF at
  <2>3. s \in Instants \cup {NULL}
    BY <1>2
  <2> QED BY <2>1, <2>2, <2>3
<1>3. ASSUME NEW b \in BOOLEAN, e \in Defers, DeferEnable(e, b)
      PROVE  enabled' \in {enabled \cup {e}, enabled \ {e}} /\ UNCHANGED <<mask, at>>
  BY <1>3 DEF DeferEnable, at
<1> QED BY <1>1, <1>2, <1>3 DEF Set

LEMMA OperationImplements ==
  ASSUME NEW e \in Events, IInv, New(e) \/ Change(e) \/ SetDestroy(e) \/ Free(e)
  PROVE  Api!New(e) \/ Api!Change(e) \/ Api!Free(e)
<1>1. UNCHANGED <<ready, now, call>>
  BY DEF New, Change, SetDestroy, Free, Operation
<1>2. CASE New(e)
  <2>1. /\ life[e] = "none" /\ life' = [life EXCEPT ![e] = "live"] /\ UNCHANGED <<destroy, told>>
        /\ Set(e) \/ (e \in Defers /\ DeferEnable(e, TRUE))
    BY <1>2 DEF New
  <2>2. e \in Defers => ~Set(e) /\ enabled' = enabled \cup {e}
    BY <2>1 DEF Set, DeferEnable, Events
  <2>3. \/ /\ e \in Ios /\ \E flags \in SUBSET Flags : mask' = [mask EXCEPT ![e] = flags]
           /\ UNCHANGED <<at, enabled>>
        \/ /\ e \in Times /\ \E t \in Instants \cup {NULL} : at' = [at EXCEPT ![e] = t]
           /\ UNCHANGED <<mask, enabled>>
        \/ e \in Defers /\ enabled' = enabled \cup {e} /\ UNCHANGED <<mask, at>>
    BY <2>1, <2>2, SetIs
  <2> QED BY ONLY <1>1, <2>1, <2>3 DEF Api!New, Api!Flags, Flags, Api!Instants, Instants, at
<1>3. CASE Change(e)
  <2>1. /\ life[e] = "live" /\ UNCHANGED <<life, destroy, told>>
        /\ Set(e) \/ (e \in Defers /\ \E b \in BOOLEAN : DeferEnable(e, b))
    BY <1>3 DEF Change, eventVars
  <2>2. \/ /\ e \in Ios /\ \E flags \in SUBSET Flags : mask' = [mask EXCEPT ![e] = flags]
           /\ UNCHANGED <<at, enabled>>
        \/ /\ e \in Times /\ \E t \in Instants \cup {NULL} : at' = [at EXCEPT ![e] = t]
           /\ UNCHANGED <<mask, enabled>>
        \/ /\ e \in Defers /\ enabled' \in {enabled \cup {e}, enabled \ {e}}
           /\ UNCHANGED <<mask, at>>
    BY <2>1, SetIs
  <2> QED BY ONLY <1>1, <2>1, <2>2 DEF Api!Change, Api!Flags, Flags, Api!Instants, Instants, at
<1>4. CASE SetDestroy(e)
  BY <1>1, <1>4 DEF SetDestroy, objectVars, Api!Change
<1>5. CASE Free(e)
  BY <1>1, <1>5 DEF Free, IoEnable, DeferEnable, Api!Free, IInv, TypeOK
<1> QED BY <1>2, <1>3, <1>4, <1>5

\* A report that is handled is a call that may be made, or nothing.
LEMMA HandleFdImplements ==
  ASSUME IInv, HandleFd
  PROVE  \/ \E e \in Ios : Api!CallIo(e)
         \/ \E e \in Times : Api!CallTime(e)
         \/ UNCHANGED Api!apiVars
<1>1. call = NULL /\ UNCHANGED <<life, destroy, told, mask, tv, timerfd, enabled, ready, now>>
  BY DEF HandleFd, eventVars
<1>2. PICK b \in batch :
        IF b[1] \in Ios
        THEN call' = (IF Watched(b[1]) THEN b ELSE NULL) /\ UNCHANGED expired
        ELSE /\ call' = IF b[1] \in expired THEN <<b[1], tv[b[1]]>> ELSE NULL
             /\ expired' = expired \ {b[1]}
  BY DEF HandleFd
<1>3. CASE b[1] \in Ios
  <2>1. UNCHANGED at
    BY <1>1, <1>2, <1>3 DEF at
  <2>2. b = <<b[1], b[2]>> /\ b[2] \in (SUBSET ready[b[1]]) \ {{}}
    BY <1>3 DEF IInv, Reports
  <2>3. CASE Watched(b[1])
    <3>1. mask[b[1]] # {} /\ call' = <<b[1], b[2]>>
      BY <1>2, <1>3, <2>2, <2>3 DEF Watched
    <3>2. Api!CallIo(b[1])
      BY <1>1, <2>1, <2>2, <3>1 DEF Api!CallIo, at
    <3> QED BY <1>3, <3>2
  <2>4. CASE ~Watched(b[1])
    <3>1. UNCHANGED <<call, at>>
      BY <1>1, <1>2, <1>3, <2>1, <2>4
    <3> QED BY <1>1, <3>1 DEF Api!apiVars, at
  <2> QED BY <2>3, <2>4
<1>4. CASE b[1] \notin Ios /\ b[1] \in expired
  <2>1. b[1] \in Times /\ timerfd[b[1]] = NULL /\ timerfd \in [Times -> Instants \cup {NULL}]
    BY <1>4 DEF IInv, TypeOK
  <2>2. tv[b[1]] \in 1 .. now /\ tv[b[1]] # NULL
    BY <1>4, <2>1 DEF IInv, TypeOK, Ready, Armed, Instants
  <2>3. call' = <<b[1], tv[b[1]]>> /\ expired' = expired \ {b[1]}
    BY <1>2, <1>4
  <2>4. at[b[1]] = tv[b[1]] /\ at' = [at EXCEPT ![b[1]] = NULL]
    BY <1>1, <1>4, <2>1, <2>3 DEF at
  <2>5. Api!CallTime(b[1])
    BY <1>1, <2>2, <2>3, <2>4 DEF Api!CallTime, at
  <2> QED BY <2>1, <2>5
<1>5. CASE b[1] \notin Ios /\ b[1] \notin expired
  <2>1. UNCHANGED <<call, expired>>
    BY <1>1, <1>2, <1>5
  <2> QED BY <1>1, <2>1 DEF Api!apiVars
<1> QED BY <1>3, <1>4, <1>5

LEMMA RunDeferredImplements ==
  ASSUME IInv, RunDeferred
  PROVE  (\E e \in Defers : Api!CallDefer(e)) \/ UNCHANGED Api!apiVars
<1>1. call = NULL /\ UNCHANGED <<life, destroy, told, objectVars, ready, now>>
  BY DEF RunDeferred, eventVars
<1>2. UNCHANGED <<mask, tv, timerfd, expired, enabled>>
  BY <1>1 DEF objectVars
<1>3. call' = NULL \/ \E d \in Defers : d \in enabled /\ call' = <<d, NULL>>
  BY <1>1 DEF RunDeferred
<1>4. CASE call' = NULL
  BY <1>1, <1>2, <1>4 DEF Api!apiVars
<1>5. ASSUME NEW d \in Defers, d \in enabled, call' = <<d, NULL>> PROVE Api!CallDefer(d)
  BY <1>1, <1>2, <1>5 DEF Api!CallDefer
<1> QED BY <1>3, <1>4, <1>5

LEMMA ReturnImplements == ASSUME IInv, Return PROVE Api!Returns
<1>1. PICK i \in Ios, drained \in SUBSET Flags :
        /\ drained = {} \/ call[1] \in {i} \cup Defers
        /\ ready' = [ready EXCEPT ![i] = @ \ drained]
  BY DEF Return
<1>2. /\ call # NULL /\ call' = NULL
      /\ UNCHANGED <<life, destroy, told, mask, tv, timerfd, expired, enabled, now>>
  BY DEF Return, eventVars, objectVars
<1>3. ready \in [Ios -> SUBSET Conditions]
  BY DEF IInv, Ready
<1>4. ready' \in [Ios -> SUBSET Conditions]
  BY <1>1, <1>3
<1>5. ASSUME NEW j \in Ios
      PROVE  ready'[j] = ready[j] \/ (call[1] \in {j} \cup Defers /\ ready'[j] \subseteq ready[j])
  BY <1>1, <1>3
<1> QED BY <1>2, <1>4, <1>5 DEF Api!Returns, Api!Conditions, Api!Flags, Conditions, Flags

\* A timerfd that expires changes nothing of when its event is to be called.
LEMMA WorldImplements ==
  ASSUME IInv, Tick \/ (\E e \in Times : Expire(e)) \/ (\E i \in Ios : Peer(i))
  PROVE  Api!Environment \/ UNCHANGED Api!apiVars
<1>1. CASE Tick
  <2>1. now' \in Instants /\ now' > now
    BY <1>1 DEF Tick, IInv, Ready, Instants
  <2> QED BY <1>1, <2>1 DEF Tick, eventVars, objectVars, Api!Environment, Api!Instants, Instants
<1>2. ASSUME NEW e \in Times, Expire(e) PROVE UNCHANGED Api!apiVars
  <2>1. timerfd[e] # NULL /\ timerfd[e] = tv[e]
    BY <1>2 DEF Expire, IInv, Ready, Armed, Instants
  <2>2. timerfd \in [Times -> Instants \cup {NULL}]
    BY DEF IInv, TypeOK
  <2>3. at' = at
    BY <1>2, <2>1, <2>2 DEF Expire, at
  <2> QED BY <1>2, <2>3 DEF Expire, eventVars, Api!apiVars, at
<1>3. ASSUME NEW i \in Ios, Peer(i) PROVE Api!Environment
  BY <1>3 DEF Peer, eventVars, objectVars, Api!Environment, Api!Conditions, Api!Flags, Flags
<1> QED BY <1>1, <1>2, <1>3

LEMMA RefinementStep == IInv /\ [Next]_vars => [Api!ApiNext]_(Api!apiVars)
<1> SUFFICES ASSUME IInv, [Next]_vars PROVE [Api!ApiNext]_(Api!apiVars)
  OBVIOUS
<1>1. CASE EpollWait \/ BatchDone \/ UNCHANGED vars
  BY <1>1 DEF EpollWait, BatchDone, vars, eventVars, objectVars, Api!apiVars
<1>2. ASSUME NEW e \in Events, New(e) \/ Change(e) \/ SetDestroy(e) \/ Free(e)
      PROVE  Api!ApiNext
  <2>1. Api!New(e) \/ Api!Change(e) \/ Api!Free(e)
    BY <1>2, OperationImplements
  <2> QED BY <2>1 DEF Api!ApiNext, Api!Events, Events
<1>3. CASE HandleFd
  BY <1>3, HandleFdImplements DEF Api!ApiNext
<1>4. CASE RunDeferred
  BY <1>4, RunDeferredImplements DEF Api!ApiNext
<1>5. CASE Return
  BY <1>5, ReturnImplements DEF Api!ApiNext
<1>6. CASE Tick \/ (\E e \in Times : Expire(e)) \/ (\E i \in Ios : Peer(i))
  BY <1>6, WorldImplements DEF Api!ApiNext
<1> QED BY <1>1, <1>2, <1>3, <1>4, <1>5, <1>6 DEF Next, Loop

\* Every behaviour of the adapter on its loop is one libpulse is promised:
\* whatever it disables, sets again or frees between epoll_wait and the
\* handling of what was reported, only callbacks it may expect are called.
THEOREM Refinement == Spec => PromisesKept
<1>1. Init => Api!ApiInit
  BY DEF Init, Api!ApiInit, Api!Events, Events
<1>2. IInv => TypeOK
  BY DEF IInv
<1> QED BY <1>1, <1>2, RefinementStep, Inductive, PTL DEF Spec, PromisesKept, Api!ApiSpec
=============================================================================
