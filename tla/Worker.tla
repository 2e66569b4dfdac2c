------------------------------- MODULE Worker -------------------------------
(***************************************************************************)
(* worker.c: a thread that takes jobs from a channel, and clients that add *)
(* jobs, cancel them by type and take the results.  A job's data are freed *)
(* by whoever gets rid of the job: the thread after running it, or the     *)
(* client that removes it from the channel.                                *)
(*                                                                         *)
(* Grain.  Each critical section of the jobs channel's mutex or of the     *)
(* worker's mutex is one action.  Nothing is locked between the pop of a   *)
(* job and the section that makes it the current one.                      *)
(***************************************************************************)
EXTENDS Naturals, Sequences, SequencesExt

CONSTANTS
  Clients,     \* threads that use the worker
  Owner,       \* the client that frees it
  Jobs,        \* jobs, each added at most once
  Type,        \* the bits of each job's type
  Bits,        \* all bits
  MaxCancels,  \* bound: calls of worker_cancel_job_by_type
  NULL

ASSUME ConstantsAssumption ==
  /\ Owner \in Clients
  /\ Type \in [Jobs -> SUBSET Bits]
  /\ MaxCancels \in Nat
  /\ NULL \notin Jobs

VARIABLES
  jobs,     \* the channel of jobs; NULL tells the thread to end
  results,  \* the channel of results; a result is named by its job
  wpc,      \* where the thread is
  job,      \* worker_loop's variable, NULL while it waits
  current,  \* worker.current
  cancel,   \* worker.cancel_current
  cpc,      \* where each client is
  mask,     \* the types each client cancels
  targets,  \* history: the jobs each client's call is about
  added,    \* jobs added so far
  freed,    \* how often each job's data were freed
  hit,      \* history: jobs that were current when a call about them looked
  cancels   \* calls so far

workerVars == <<wpc, job, current>>
clientVars == <<cpc, mask, targets, cancels>>
vars == <<jobs, results, workerVars, cancel, clientVars, added, freed, hit>>

\* worker_cancel_job_by_type_cb
Matches(j, m) == Type[j] \cap m # {}

Init ==
  /\ jobs = <<>> /\ results = <<>>
  /\ wpc = "wait" /\ job = NULL /\ current = NULL /\ cancel = FALSE
  /\ cpc = [c \in Clients |-> "idle"]
  /\ mask = [c \in Clients |-> {}]
  /\ targets = [c \in Clients |-> {}]
  /\ added = {} /\ freed = [j \in Jobs |-> 0] /\ hit = {} /\ cancels = 0

\* worker_free was called.
Freeing == cpc[Owner] \in {"free cancel", "free current", "poison", "join", "done"}

-----------------------------------------------------------------------------
(* The clients.                                                            *)

\* worker_add_job
AddJob(c, j) ==
  /\ cpc[c] = "idle" /\ ~Freeing
  /\ j \notin added /\ added' = added \cup {j}
  /\ jobs' = Append(jobs, j)
  /\ UNCHANGED <<results, workerVars, cancel, clientVars, freed, hit>>

\* worker_cancel_job_by_type is called.
CancelJob(c, m) ==
  /\ cpc[c] = "idle" /\ ~Freeing /\ cancels < MaxCancels
  /\ cancels' = cancels + 1
  /\ cpc' = [cpc EXCEPT ![c] = "cancel"]
  /\ mask' = [mask EXCEPT ![c] = m]
  /\ targets' = [targets EXCEPT ![c] = {j \in added : Matches(j, m)}]
  /\ UNCHANGED <<jobs, results, workerVars, cancel, added, freed, hit>>

\* worker_free begins, as a call with every bit set.  Nobody else may use
\* the worker any more.
Free ==
  /\ \A c \in Clients : cpc[c] = "idle"
  /\ cpc' = [cpc EXCEPT ![Owner] = "free cancel"]
  /\ mask' = [mask EXCEPT ![Owner] = Bits]
  /\ targets' = [targets EXCEPT ![Owner] = {j \in added : Matches(j, Bits)}]
  /\ UNCHANGED <<jobs, results, workerVars, cancel, cancels, added, freed, hit>>

\* Mutant: channel_remove stops at the first match.
RemoveQueuedFirst(c) ==
  LET removed == {i \in DOMAIN jobs : Matches(jobs[i], mask[c])}
      i == CHOOSE k \in removed : \A l \in removed : k <= l
  IN /\ cpc[c] \in {"cancel", "free cancel"}
     /\ IF removed = {} THEN UNCHANGED <<jobs, freed>>
        ELSE /\ jobs' = RemoveAt(jobs, i)
             /\ freed' = [freed EXCEPT ![jobs[i]] = @ + 1]
     /\ cpc' = [cpc EXCEPT ![c] = IF @ = "cancel" THEN "current" ELSE "free current"]
     /\ UNCHANGED <<results, workerVars, cancel, mask, targets, cancels, added, hit>>

\* channel_remove goes through the list and unlinks every job that matches.
Without(s, m) ==
  LET kept[i \in 0 .. Len(s)] ==
        IF i = 0 THEN <<>>
        ELSE IF Matches(s[i], m) THEN kept[i - 1] ELSE Append(kept[i - 1], s[i])
  IN kept[Len(s)]

\* Every matching job that is still queued goes, and its data with it.
RemoveQueued(c) ==
  /\ cpc[c] \in {"cancel", "free cancel"}
  /\ jobs' = Without(jobs, mask[c])
  /\ freed' = [j \in Jobs |->
                 IF Contains(jobs, j) /\ Matches(j, mask[c]) THEN freed[j] + 1 ELSE freed[j]]
  /\ cpc' = [cpc EXCEPT ![c] = IF @ = "cancel" THEN "current" ELSE "free current"]
  /\ UNCHANGED <<results, workerVars, cancel, mask, targets, cancels, added, hit>>

\* Mutant: the current job's data are freed like those of a queued one.
CancelCurrentFrees(c) ==
  /\ cpc[c] \in {"current", "free current"}
  /\ LET matched == current # NULL /\ Matches(current, mask[c])
     IN /\ cancel' = (cancel \/ matched)
        /\ hit' = IF matched THEN hit \cup {current} ELSE hit
        /\ freed' = IF matched THEN [freed EXCEPT ![current] = @ + 1] ELSE freed
  /\ cpc' = [cpc EXCEPT ![c] = IF @ = "current" THEN "idle" ELSE "poison"]
  /\ UNCHANGED <<jobs, results, workerVars, mask, targets, cancels, added>>

\* The rest of worker_cancel_job: under the worker's mutex, the current job
\* is told to stop if it matches.
CancelCurrent(c) ==
  /\ cpc[c] \in {"current", "free current"}
  /\ LET matched == current # NULL /\ Matches(current, mask[c])
     IN /\ cancel' = (cancel \/ matched)
        /\ hit' = IF matched THEN hit \cup {current} ELSE hit
  /\ cpc' = [cpc EXCEPT ![c] = IF @ = "current" THEN "idle" ELSE "poison"]
  /\ UNCHANGED <<jobs, results, workerVars, mask, targets, cancels, added, freed>>

\* Mutant: the pill is put in front of the jobs that are left.
PoisonFirst ==
  /\ cpc[Owner] = "poison"
  /\ jobs' = <<NULL>> \o jobs
  /\ cpc' = [cpc EXCEPT ![Owner] = "join"]
  /\ UNCHANGED <<results, workerVars, cancel, mask, targets, cancels, added, freed, hit>>

\* Mutant: the pill is not pushed.
PoisonNone ==
  /\ cpc[Owner] = "poison"
  /\ cpc' = [cpc EXCEPT ![Owner] = "join"]
  /\ UNCHANGED <<jobs, results, workerVars, cancel, mask, targets, cancels, added,
                 freed, hit>>

\* worker_free pushes NULL.
Poison ==
  /\ cpc[Owner] = "poison"
  /\ jobs' = Append(jobs, NULL)
  /\ cpc' = [cpc EXCEPT ![Owner] = "join"]
  /\ UNCHANGED <<results, workerVars, cancel, mask, targets, cancels, added, freed, hit>>

\* worker_free joins the thread and frees the channels; results nobody took
\* are dropped with theirs.
Join ==
  /\ cpc[Owner] = "join" /\ wpc = "ended"
  /\ cpc' = [cpc EXCEPT ![Owner] = "done"]
  /\ results' = <<>>
  /\ UNCHANGED <<jobs, workerVars, cancel, mask, targets, cancels, added, freed, hit>>

\* worker_pop_result
PopResult(c) ==
  /\ cpc[c] = "idle" /\ ~Freeing
  /\ results # <<>> /\ results' = Tail(results)
  /\ UNCHANGED <<jobs, workerVars, cancel, clientVars, added, freed, hit>>

-----------------------------------------------------------------------------
(* The worker's thread: worker_loop.                                       *)

PopWait ==
  /\ wpc = "wait"
  /\ jobs # <<>> /\ jobs' = Tail(jobs)
  /\ job' = Head(jobs)
  /\ wpc' = IF Head(jobs) = NULL THEN "ended" ELSE "popped"
  /\ UNCHANGED <<results, current, cancel, clientVars, added, freed, hit>>

\* Mutant: the flag of the last job stays.
EnterFlagged ==
  /\ wpc = "popped"
  /\ current' = job
  /\ wpc' = "run"
  /\ UNCHANGED <<jobs, results, job, cancel, clientVars, added, freed, hit>>

\* The job becomes the current one, under the worker's mutex.
Enter ==
  /\ wpc = "popped"
  /\ cancel' = FALSE
  /\ current' = job
  /\ wpc' = "run"
  /\ UNCHANGED <<jobs, results, job, clientVars, added, freed, hit>>

\* job_cb returns, with a result or without.
RunJob ==
  /\ wpc = "run"
  /\ \E some \in BOOLEAN :
       results' = IF some THEN Append(results, job) ELSE results
  /\ wpc' = "finish"
  /\ UNCHANGED <<jobs, job, current, cancel, clientVars, added, freed, hit>>

\* Mutant: the freed job stays the current one.
FinishCurrent ==
  /\ wpc = "finish"
  /\ freed' = [freed EXCEPT ![job] = @ + 1]
  /\ job' = NULL
  /\ wpc' = "wait"
  /\ UNCHANGED <<jobs, results, current, cancel, clientVars, added, hit>>

\* free_cb, under the worker's mutex; there is no current job any more.
Finish ==
  /\ wpc = "finish"
  /\ freed' = [freed EXCEPT ![job] = @ + 1]
  /\ current' = NULL /\ job' = NULL
  /\ wpc' = "wait"
  /\ UNCHANGED <<jobs, results, cancel, clientVars, added, hit>>

Thread == PopWait \/ Enter \/ RunJob \/ Finish

Next ==
  \/ Thread
  \/ \E c \in Clients :
       \/ \E j \in Jobs : AddJob(c, j)
       \/ \E m \in (SUBSET Bits) \ {{}} : CancelJob(c, m)
       \/ RemoveQueued(c) \/ CancelCurrent(c) \/ PopResult(c)
  \/ Free \/ Poison \/ Join

\* Both threads are scheduled, and a job's callback returns.
Fairness ==
  /\ WF_vars(Thread)
  /\ \A c \in Clients : WF_vars(RemoveQueued(c)) /\ WF_vars(CancelCurrent(c))
  /\ WF_vars(Poison) /\ WF_vars(Join)

Spec == Init /\ [][Next]_vars /\ Fairness

-----------------------------------------------------------------------------
(* Properties.                                                             *)

TypeOK ==
  /\ jobs \in Seq(Jobs \cup {NULL}) /\ results \in Seq(Jobs)
  /\ wpc \in {"wait", "popped", "run", "finish", "ended"}
  /\ job \in IF wpc \in {"popped", "run", "finish"} THEN Jobs ELSE {NULL}
  /\ current = IF wpc \in {"run", "finish"} THEN job ELSE NULL
  /\ cancel \in BOOLEAN
  /\ cpc \in [Clients -> {"idle", "cancel", "current", "free cancel",
                          "free current", "poison", "join", "done"}]
  /\ mask \in [Clients -> SUBSET Bits] /\ targets \in [Clients -> SUBSET Jobs]
  /\ added \subseteq Jobs /\ hit \subseteq added
  /\ freed \in [Jobs -> Nat] /\ cancels \in 0 .. MaxCancels

\* Whoever gets rid of a job frees its data, once: a job that was added is
\* queued, in the thread's hands, or freed, and only one of these, although
\* clients cancel at the same time as the thread runs and each other cancels.
FreedOnce ==
  \A j \in added :
    (IF Contains(jobs, j) THEN 1 ELSE 0) + (IF job = j THEN 1 ELSE 0) + freed[j] = 1

\* worker_cancel_job passes the current job's data to the client's callback
\* (worker.c:130): they are not freed yet.
CurrentIsAlive == current # NULL => freed[current] = 0

\* A job that sees worker_cancel_current was meant by a call: the flag is
\* not left over from the job before.
NoStaleCancel == wpc \in {"run", "finish"} /\ cancel => current \in hit

\* When worker_cancel_job returns, every job it is about is freed or told to
\* stop, but for one: a job the thread has popped and not made current yet
\* (between worker.c:50 and worker.c:56) is missed and runs to its end.
CancelMissesOnlyTheGap ==
  [][\A c \in Clients :
       CancelCurrent(c) =>
         \A j \in targets[c] :
           \/ freed[j] > 0
           \/ j = current /\ cancel'
           \/ j = job /\ wpc = "popped"]_vars

\* Once worker_free has joined the thread, nothing is left to run and no
\* job's data are leaked, those of type 0 included, which no mask matches.
FreeLeavesNothing ==
  cpc[Owner] = "done" => jobs = <<>> /\ \A j \in added : freed[j] = 1

\* A job belongs to the queue, to the thread or to nobody any more, whatever the clients
\* cancel while it is popped, run and finished, and none is left behind by worker_free.
JobsOwned == TypeOK /\ FreedOnce /\ CurrentIsAlive /\ FreeLeavesNothing

\* worker_free returns.
FreeReturns == cpc[Owner] = "free cancel" ~> cpc[Owner] = "done"
=============================================================================
