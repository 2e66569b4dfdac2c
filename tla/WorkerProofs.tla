---------------------------- MODULE WorkerProofs ----------------------------
(***************************************************************************)
(* Safety of module Worker for any clients, jobs and types: whose each     *)
(* job's data are, what the cancel flag means, and which job a             *)
(* cancellation can miss.                                                  *)
(***************************************************************************)
EXTENDS Worker, SequenceTheorems, WellFoundedInduction, TLAPS

-----------------------------------------------------------------------------
(* Induction over data, as the existence of a least counterexample.        *)

Below == {p \in Nat \X Nat : p[1] < p[2]}

LEMMA BelowWF == IsWellFoundedOn(Below, Nat)
<1>1. OpToRel(<, Nat) = Below
  BY Zenon DEF OpToRel, Below
<1> QED BY <1>1, NatLessThanWellFounded, Zenon

\* A set of numbers that is not empty has a least element.
LEMMA Least ==
  ASSUME NEW T \in SUBSET Nat, T # {}
  PROVE  \E n \in T : \A k \in T : n <= k
<1>1. \A k, n \in Nat : k < n => <<k, n>> \in Below
  BY DEF Below
<1>2. PICK n \in T : \A k \in T : <<k, n>> \notin Below
  BY BelowWF, WFMin, Zenon
<1>3. ASSUME NEW k \in T PROVE n <= k
  <2>1. n \in Nat /\ k \in Nat /\ ~(k < n)
    BY <1>1, <1>2, <1>3, Zenon
  <2> QED BY <2>1
<1> QED BY <1>2, <1>3, Zenon

-----------------------------------------------------------------------------
(* What channel_remove leaves.                                             *)

\* f is the table that Without computes, up to n.
IsKept(f, s, m, n) ==
  f = [i \in 0 .. n |->
         IF i = 0 THEN <<>>
         ELSE IF Matches(s[i], m) THEN f[i - 1] ELSE Append(f[i - 1], s[i])]

\* The table exists.
LEMMA KeptExists ==
  ASSUME NEW s, NEW m, NEW n \in Nat
  PROVE  \E f : IsKept(f, s, m, n)
<1> DEFINE Bad == {k \in Nat : ~\E f : IsKept(f, s, m, k)}
<1>1. ASSUME n \in Bad PROVE FALSE
  <2>1. PICK k \in Bad : \A l \in Bad : k <= l
    BY <1>1, Least, Zenon
  <2>2. CASE k = 0
    <3>1. IsKept([i \in 0 .. 0 |-> <<>>], s, m, 0)
      BY DEF IsKept
    <3> QED BY <2>1, <2>2, <3>1
  <2>3. CASE k # 0
    <3>1. k - 1 \in Nat /\ k - 1 \notin Bad
      BY <2>1, <2>3
    <3>2. PICK f : IsKept(f, s, m, k - 1)
      BY <3>1
    <3> DEFINE g == [i \in 0 .. k |->
                       IF i < k THEN f[i]
                       ELSE IF Matches(s[k], m) THEN f[k - 1] ELSE Append(f[k - 1], s[k])]
    <3>3. ASSUME NEW i \in 0 .. k
          PROVE  g[i] = IF i = 0 THEN <<>>
                        ELSE IF Matches(s[i], m) THEN g[i - 1]
                             ELSE Append(g[i - 1], s[i])
      <4>1. CASE i = k
        BY <2>3, <4>1
      <4>2. CASE i < k
        <5>1. i \in 0 .. k - 1 /\ (i # 0 => i - 1 \in 0 .. k /\ i - 1 < k)
          BY <4>2
        <5>2. f[i] = IF i = 0 THEN <<>>
                     ELSE IF Matches(s[i], m) THEN f[i - 1] ELSE Append(f[i - 1], s[i])
          BY <3>2, <5>1 DEF IsKept
        <5> QED BY <4>2, <5>1, <5>2
      <4> QED BY <4>1, <4>2
    <3>4. IsKept(g, s, m, k)
      BY <3>3 DEF IsKept
    <3> QED BY <2>1, <3>4
  <2> QED BY <2>2, <2>3
<1> QED BY <1>1

LEMMA WithoutKept ==
  ASSUME NEW S, NEW s \in Seq(S), NEW m
  PROVE  \E f : IsKept(f, s, m, Len(s)) /\ Without(s, m) = f[Len(s)]
<1> DEFINE kept == CHOOSE f : IsKept(f, s, m, Len(s))
<1>1. IsKept(kept, s, m, Len(s))
  <2>1. Len(s) \in Nat
    OBVIOUS
  <2>2. \E f : IsKept(f, s, m, Len(s))
    BY <2>1, KeptExists, Zenon
  <2> QED BY <2>2, Zenon
<1>2. Without(s, m) = kept[Len(s)]
  BY Zenon DEF Without, IsKept
<1> QED BY <1>1, <1>2

\* What is left is what does not match, and no job twice if none was before.
LEMMA WithoutIs ==
  ASSUME NEW S, NEW s \in Seq(S), IsInjective(s), NEW m
  PROVE  /\ Without(s, m) \in Seq(S)
         /\ IsInjective(Without(s, m))
         /\ \A j : Contains(Without(s, m), j) <=> Contains(s, j) /\ ~Matches(j, m)
<1>1. PICK f : IsKept(f, s, m, Len(s)) /\ Without(s, m) = f[Len(s)]
  BY WithoutKept
<1> DEFINE Good(k) ==
      /\ f[k] \in Seq(S)
      /\ \A a, b \in 1 .. Len(f[k]) : f[k][a] = f[k][b] => a = b
      /\ \A j : (\E a \in 1 .. Len(f[k]) : f[k][a] = j)
                  <=> (\E a \in 1 .. k : s[a] = j) /\ ~Matches(j, m)
<1> DEFINE Bad == {k \in 0 .. Len(s) : ~Good(k)}
<1>2. f[0] = <<>>
  BY <1>1 DEF IsKept
<1>3. ASSUME NEW k \in 1 .. Len(s)
      PROVE  f[k] = IF Matches(s[k], m) THEN f[k - 1] ELSE Append(f[k - 1], s[k])
  <2>1. k \in 0 .. Len(s) /\ k # 0
    OBVIOUS
  <2>2. f[k] = IF k = 0 THEN <<>>
               ELSE IF Matches(s[k], m) THEN f[k - 1] ELSE Append(f[k - 1], s[k])
    BY <1>1, <2>1, Zenon DEF IsKept
  <2> QED BY <2>1, <2>2
<1>4. Good(0)
  BY <1>2
<1>5. ASSUME NEW k \in 1 .. Len(s), Good(k - 1) PROVE Good(k)
  <2>1. s[k] \in S
    OBVIOUS
  <2>2. \A a \in 1 .. k - 1 : s[a] # s[k]
    BY DEF IsInjective
  <2>3. \A j : (\E a \in 1 .. k : s[a] = j) <=> (\E a \in 1 .. k - 1 : s[a] = j) \/ j = s[k]
    OBVIOUS
  <2>4. CASE Matches(s[k], m)
    <3>1. f[k] = f[k - 1]
      BY <1>3, <2>4
    <3> QED BY <1>5, <2>3, <2>4, <3>1
  <2>5. CASE ~Matches(s[k], m)
    <3> DEFINE t == f[k - 1]
    <3>1. f[k] = Append(t, s[k])
      BY <1>3, <2>5
    <3>2. t \in Seq(S) /\ \A a \in 1 .. Len(t) : t[a] # s[k]
      BY <1>5, <2>2
    <3> HIDE DEF t
    <3>3. /\ f[k] \in Seq(S) /\ Len(f[k]) = Len(t) + 1
          /\ \A a \in 1 .. Len(t) : f[k][a] = t[a]
          /\ f[k][Len(t) + 1] = s[k]
      BY <2>1, <3>1, <3>2, AppendProperties
    <3>4. \A j : (\E a \in 1 .. Len(f[k]) : f[k][a] = j)
                 <=> (\E a \in 1 .. Len(t) : t[a] = j) \/ j = s[k]
      <4>1. /\ Len(t) + 1 \in 1 .. Len(f[k])
            /\ \A a \in 1 .. Len(t) : a \in 1 .. Len(f[k])
            /\ \A a \in 1 .. Len(f[k]) : a \in 1 .. Len(t) \/ a = Len(t) + 1
        BY <3>2, <3>3
      <4> QED BY <3>3, <4>1, Zenon
    <3>5. \A a, b \in 1 .. Len(f[k]) : f[k][a] = f[k][b] => a = b
      <4>1. \A a, b \in 1 .. Len(t) : t[a] = t[b] => a = b
        BY <1>5 DEF t
      <4> QED BY <3>2, <3>3, <4>1
    <3>6. \A j : (\E a \in 1 .. Len(t) : t[a] = j)
                 <=> (\E a \in 1 .. k - 1 : s[a] = j) /\ ~Matches(j, m)
      BY <1>5, Zenon DEF t
    <3>7. \A j : (\E a \in 1 .. Len(f[k]) : f[k][a] = j)
                 <=> (\E a \in 1 .. k : s[a] = j) /\ ~Matches(j, m)
      BY <2>3, <2>5, <3>4, <3>6, Zenon
    <3> QED BY <3>3, <3>5, <3>7
  <2> QED BY <2>4, <2>5
<1> HIDE DEF Good
<1>6. ASSUME Bad # {} PROVE FALSE
  <2>1. PICK k \in Bad : \A l \in Bad : k <= l
    <3>1. Bad \in SUBSET Nat
      OBVIOUS
    <3> HIDE DEF Bad
    <3> QED BY <1>6, <3>1, Least, Zenon
  <2>2. k # 0 /\ k \in 1 .. Len(s)
    BY <1>4, <2>1
  <2>3. k - 1 \in 0 .. Len(s) /\ k - 1 \notin Bad
    BY <2>1, <2>2
  <2> QED BY <1>5, <2>1, <2>2, <2>3
<1>7. Good(Len(s))
  <2>1. Len(s) \in 0 .. Len(s)
    OBVIOUS
  <2> QED BY <1>6, <2>1
<1> QED
  <2>1. IsInjective(Without(s, m))
    BY <1>1, <1>7 DEF Good, IsInjective
  <2>2. \A j : Contains(Without(s, m), j) <=> Contains(s, j) /\ ~Matches(j, m)
    BY <1>1, <1>7, Zenon DEF Good, Contains
  <2> QED BY <1>1, <1>7, <2>1, <2>2 DEF Good
LEMMA TailIs ==
  ASSUME NEW S, NEW s \in Seq(S), IsInjective(s), s # <<>>
  PROVE  /\ Tail(s) \in Seq(S) /\ Head(s) \in S /\ Contains(s, Head(s))
         /\ Len(s) \in Nat \ {0}
         /\ IsInjective(Tail(s)) /\ Len(Tail(s)) = Len(s) - 1
         /\ \A i \in 1 .. Len(s) - 1 : Tail(s)[i] = s[i + 1]
         /\ \A j : Contains(Tail(s), j) <=> Contains(s, j) /\ j # Head(s)
<1>1. /\ Tail(s) \in Seq(S) /\ Head(s) \in S /\ Head(s) = s[1]
      /\ Len(s) \in Nat \ {0} /\ Len(Tail(s)) = Len(s) - 1
      /\ \A i \in 1 .. Len(s) - 1 : Tail(s)[i] = s[i + 1]
  BY HeadTailProperties
<1>2. \A a, b \in 1 .. Len(s) : s[a] = s[b] => a = b
  BY DEF IsInjective
<1>3. IsInjective(Tail(s))
  BY <1>1, <1>2 DEF IsInjective
<1>4. ASSUME NEW j PROVE Contains(Tail(s), j) <=> Contains(s, j) /\ j # Head(s)
  <2>1. ASSUME NEW i \in 1 .. Len(s), s[i] = j, j # Head(s)
        PROVE  i - 1 \in 1 .. Len(s) - 1 /\ Tail(s)[i - 1] = j
    BY <1>1, <2>1
  <2>2. ASSUME NEW i \in 1 .. Len(s) - 1, Tail(s)[i] = j
        PROVE  i + 1 \in 1 .. Len(s) /\ s[i + 1] = j /\ j # Head(s)
    BY <1>1, <1>2, <2>2
  <2> QED BY <1>1, <2>1, <2>2 DEF Contains
<1> QED BY <1>1, <1>3, <1>4 DEF Contains

LEMMA AppendIs ==
  ASSUME NEW S, NEW s \in Seq(S), IsInjective(s), NEW e \in S, ~Contains(s, e)
  PROVE  /\ Append(s, e) \in Seq(S) /\ IsInjective(Append(s, e))
         /\ Len(Append(s, e)) = Len(s) + 1 /\ Append(s, e)[Len(s) + 1] = e
         /\ \A i \in 1 .. Len(s) : Append(s, e)[i] = s[i]
         /\ \A j : Contains(Append(s, e), j) <=> Contains(s, j) \/ j = e
<1>1. /\ Append(s, e) \in Seq(S) /\ Len(s) \in Nat
      /\ Len(Append(s, e)) = Len(s) + 1 /\ Append(s, e)[Len(s) + 1] = e
      /\ \A i \in 1 .. Len(s) : Append(s, e)[i] = s[i]
  BY AppendProperties
<1>2. \A a, b \in 1 .. Len(s) : s[a] = s[b] => a = b
  BY DEF IsInjective
<1>3. \A a \in 1 .. Len(s) : s[a] # e
  BY DEF Contains
<1>4. IsInjective(Append(s, e))
  BY <1>1, <1>2, <1>3 DEF IsInjective
<1> QED BY <1>1, <1>4 DEF Contains

-----------------------------------------------------------------------------
(* The inductive invariant.                                                *)

\* A job is queued at most once, and one that was not added is nowhere.
QueuedOnce ==
  /\ IsInjective(jobs)
  /\ \A j \in Jobs \ added : ~Contains(jobs, j) /\ job # j /\ freed[j] = 0

\* While the worker is freed nobody else uses it; the pill is the last thing
\* that is queued, and the thread ends with it.
FreedLast ==
  /\ \A c \in Clients \ {Owner} :
       /\ cpc[c] \in {"idle", "cancel", "current"}
       /\ Freeing => cpc[c] = "idle"
  /\ Contains(jobs, NULL) => cpc[Owner] = "join" /\ jobs[Len(jobs)] = NULL
  /\ wpc = "ended" => jobs = <<>> /\ cpc[Owner] \in {"join", "done"}
  /\ cpc[Owner] = "done" => wpc = "ended"

\* What a call is about matches it, and is not queued once it has gone
\* through the queue.
TargetsGone ==
  \A c \in Clients :
    /\ cpc[c] \in {"cancel", "free cancel", "current", "free current"}
         => \A j \in targets[c] : j \in added /\ Matches(j, mask[c])
    /\ cpc[c] \in {"current", "free current"}
         => \A j \in targets[c] : ~Contains(jobs, j)

IInv ==
  /\ TypeOK /\ FreedOnce /\ NoStaleCancel
  /\ QueuedOnce /\ FreedLast /\ TargetsGone
USE ConstantsAssumption

\* Every action keeps the types.
LEMMA TypeStep == TypeOK /\ QueuedOnce /\ FreedLast /\ [Next]_vars => TypeOK'
<1> SUFFICES ASSUME TypeOK, QueuedOnce, FreedLast, [Next]_vars PROVE TypeOK'
  OBVIOUS
<1> USE DEF TypeOK, workerVars, clientVars
<1>1. ASSUME NEW c \in Clients, NEW j \in Jobs, AddJob(c, j) PROVE TypeOK'
  BY <1>1, AppendProperties DEF AddJob
<1>2. ASSUME NEW c \in Clients, NEW m \in (SUBSET Bits) \ {{}}, CancelJob(c, m)
      PROVE  TypeOK'
  <2>1. cancels' \in 0 .. MaxCancels
    <3>1. cancels \in 0 .. MaxCancels /\ cancels < MaxCancels /\ cancels' = cancels + 1
      BY <1>2 DEF CancelJob
    <3> QED BY ONLY <3>1, ConstantsAssumption
  <2>2. targets' \in [Clients -> SUBSET Jobs]
    BY <1>2 DEF CancelJob
  <2>3. mask' \in [Clients -> SUBSET Bits]
    BY <1>2 DEF CancelJob
  <2> QED BY <1>2, <2>1, <2>2, <2>3 DEF CancelJob
<1>3. ASSUME NEW c \in Clients, RemoveQueued(c) PROVE TypeOK'
  <2>1. jobs' \in Seq(Jobs \cup {NULL})
    BY <1>3, WithoutIs DEF RemoveQueued, QueuedOnce
  <2>2. freed' \in [Jobs -> Nat]
    <3>1. /\ freed \in [Jobs -> Nat]
          /\ freed' = [j \in Jobs |-> IF Contains(jobs, j) /\ Matches(j, mask[c])
                                     THEN freed[j] + 1 ELSE freed[j]]
      BY <1>3 DEF RemoveQueued
    <3> QED BY ONLY <3>1
  <2>3. cpc' \in [Clients -> {"idle", "cancel", "current", "free cancel",
                              "free current", "poison", "join", "done"}]
    BY <1>3 DEF RemoveQueued
  <2> QED BY <1>3, <2>1, <2>2, <2>3 DEF RemoveQueued
<1>4. ASSUME NEW c \in Clients, CancelCurrent(c) PROVE TypeOK'
  <2>1. hit' \subseteq added
    BY <1>4 DEF CancelCurrent, QueuedOnce
  <2> QED BY <1>4, <2>1 DEF CancelCurrent
<1>5. ASSUME NEW c \in Clients, PopResult(c) PROVE TypeOK'
  BY <1>5, HeadTailProperties DEF PopResult
<1>6. CASE Free
  <2>1. targets' \in [Clients -> SUBSET Jobs] /\ mask' \in [Clients -> SUBSET Bits]
    BY <1>6 DEF Free
  <2>2. cpc' \in [Clients -> {"idle", "cancel", "current", "free cancel",
                              "free current", "poison", "join", "done"}]
    BY <1>6 DEF Free
  <2>3. UNCHANGED <<jobs, results, workerVars, cancel, cancels, added, freed, hit>>
    BY <1>6 DEF Free
  <2> QED BY <2>1, <2>2, <2>3
<1>7. CASE Poison
  <2>1. jobs' \in Seq(Jobs \cup {NULL})
    BY <1>7, AppendProperties DEF Poison
  <2> QED BY <1>7, <2>1 DEF Poison
<1>8. CASE Join
  <2>1. results' \in Seq(Jobs)
    <3>1. results' = <<>>
      BY <1>8 DEF Join
    <3> QED BY ONLY <3>1
  <2>2. cpc' \in [Clients -> {"idle", "cancel", "current", "free cancel",
                              "free current", "poison", "join", "done"}]
    BY <1>8 DEF Join
  <2> QED BY <1>8, <2>1, <2>2 DEF Join
<1>9. CASE PopWait
  <2>1. Head(jobs) \in Jobs \cup {NULL} /\ Tail(jobs) \in Seq(Jobs \cup {NULL})
    BY <1>9, HeadTailProperties DEF PopWait
  <2> QED BY <1>9, <2>1 DEF PopWait
<1>10. CASE Enter
  BY <1>10 DEF Enter
<1>11. CASE RunJob
  <2>1. job \in Jobs
    BY <1>11 DEF RunJob
  <2>2. results' \in Seq(Jobs)
    <3>1. results' = results \/ results' = Append(results, job)
      BY <1>11 DEF RunJob
    <3>2. results \in Seq(Jobs)
      OBVIOUS
    <3> QED BY ONLY <2>1, <3>1, <3>2, AppendProperties
  <2>3. wpc = "run" /\ wpc' = "finish" /\ job' = job /\ current' = current
    BY <1>11 DEF RunJob
  <2>4. UNCHANGED <<jobs, cancel, clientVars, added, freed, hit>>
    BY <1>11 DEF RunJob
  <2> QED BY <2>1, <2>2, <2>3, <2>4
<1>12. CASE Finish
  <2>1. job \in Jobs /\ wpc = "finish"
    BY <1>12 DEF Finish
  <2>2. freed' \in [Jobs -> Nat]
    <3>1. freed \in [Jobs -> Nat] /\ freed' = [freed EXCEPT ![job] = @ + 1]
      BY <1>12 DEF Finish
    <3> QED BY ONLY <2>1, <3>1
  <2>3. job' = NULL /\ current' = NULL /\ wpc' = "wait"
    BY <1>12 DEF Finish
  <2>4. UNCHANGED <<jobs, results, cancel, clientVars, added, hit>>
    BY <1>12 DEF Finish
  <2> QED BY <2>2, <2>3, <2>4
<1>13. CASE UNCHANGED vars
  BY <1>13 DEF vars
<1> QED BY <1>1, <1>2, <1>3, <1>4, <1>5, <1>6, <1>7, <1>8, <1>9, <1>10, <1>11,
          <1>12, <1>13 DEF Next, Thread
\* FreedOnce and QueuedOnce in one formula: how many hold each job's data.
Holders(j) ==
  (IF Contains(jobs, j) THEN 1 ELSE 0) + (IF job = j THEN 1 ELSE 0) + freed[j]

OneHolder ==
  /\ IsInjective(jobs)
  /\ \A j \in Jobs : Holders(j) = IF j \in added THEN 1 ELSE 0

LEMMA HoldersSum == TypeOK => (FreedOnce /\ QueuedOnce <=> OneHolder)
<1> SUFFICES ASSUME TypeOK PROVE FreedOnce /\ QueuedOnce <=> OneHolder
  OBVIOUS
<1>1. added \subseteq Jobs /\ \A j \in Jobs : freed[j] \in Nat
  BY DEF TypeOK
<1>2. ASSUME NEW j \in Jobs \ added
      PROVE  Holders(j) = 0 <=> ~Contains(jobs, j) /\ job # j /\ freed[j] = 0
  BY <1>1 DEF Holders
<1>3. FreedOnce <=> \A j \in added : Holders(j) = 1
  BY Zenon DEF FreedOnce, Holders
<1> QED BY <1>1, <1>2, <1>3 DEF QueuedOnce, OneHolder

\* Every action keeps FreedOnce and QueuedOnce.
LEMMA OwnStep ==
  TypeOK /\ TypeOK' /\ FreedOnce /\ QueuedOnce /\ FreedLast /\ [Next]_vars
    => FreedOnce' /\ QueuedOnce'
<1> SUFFICES ASSUME TypeOK, TypeOK', FreedOnce, QueuedOnce, FreedLast, [Next]_vars
             PROVE  OneHolder'
  <2>1. (TypeOK => (FreedOnce /\ QueuedOnce <=> OneHolder))'
    BY HoldersSum, PTL
  <2> QED BY <2>1
<1>0. /\ IsInjective(jobs) /\ jobs \in Seq(Jobs \cup {NULL}) /\ freed \in [Jobs -> Nat]
      /\ \A j \in Jobs : Holders(j) = IF j \in added THEN 1 ELSE 0
  BY HoldersSum DEF TypeOK, OneHolder
<1> USE DEF workerVars, clientVars
<1>1. ASSUME NEW c \in Clients, NEW e \in Jobs, AddJob(c, e) PROVE OneHolder'
  <2>1. ~Contains(jobs, e) /\ job # e /\ freed[e] = 0 /\ e \in Jobs \cup {NULL}
    BY <1>1 DEF AddJob, QueuedOnce
  <2>2. jobs' = Append(jobs, e) /\ added' = added \cup {e} /\ job' = job /\ freed' = freed
    BY <1>1 DEF AddJob
  <2>3. /\ IsInjective(jobs')
        /\ \A j : Contains(jobs', j) <=> Contains(jobs, j) \/ j = e
    BY ONLY <1>0, <2>1, <2>2, AppendIs
  <2>4. ASSUME NEW j \in Jobs PROVE Holders(j)' = IF j \in added' THEN 1 ELSE 0
    <3>1. CASE j = e
      BY <2>1, <2>2, <2>3, <3>1 DEF Holders
    <3>2. CASE j # e
      <4>1. Holders(j)' = Holders(j) /\ (j \in added' <=> j \in added)
        BY <2>2, <2>3, <3>2 DEF Holders
      <4> QED BY <1>0, <4>1
    <3> QED BY <3>1, <3>2
  <2> QED BY <2>3, <2>4 DEF OneHolder
<1>2. ASSUME NEW c \in Clients, RemoveQueued(c) PROVE OneHolder'
  <2>1. jobs' = Without(jobs, mask[c]) /\ job' = job /\ added' = added
    BY <1>2 DEF RemoveQueued
  <2>2. /\ IsInjective(jobs')
        /\ \A j : Contains(jobs', j) <=> Contains(jobs, j) /\ ~Matches(j, mask[c])
    BY ONLY <1>0, <2>1, WithoutIs
  <2>3. \A j \in Jobs : freed'[j] = IF Contains(jobs, j) /\ Matches(j, mask[c])
                                   THEN freed[j] + 1 ELSE freed[j]
    BY <1>2 DEF RemoveQueued
  <2>4. ASSUME NEW j \in Jobs PROVE Holders(j)' = Holders(j)
    BY <1>0, <2>1, <2>2, <2>3 DEF Holders
  <2> QED BY <1>0, <2>1, <2>2, <2>4 DEF OneHolder
<1>3. CASE Poison
  <2>1. ~Contains(jobs, NULL) /\ NULL \in Jobs \cup {NULL}
    BY <1>3 DEF Poison, FreedLast
  <2>2. jobs' = Append(jobs, NULL) /\ job' = job /\ added' = added /\ freed' = freed
    BY <1>3 DEF Poison
  <2>3. /\ IsInjective(jobs')
        /\ \A j : Contains(jobs', j) <=> Contains(jobs, j) \/ j = NULL
    BY ONLY <1>0, <2>1, <2>2, AppendIs
  <2>4. ASSUME NEW j \in Jobs PROVE Holders(j)' = Holders(j)
    BY <1>0, <2>2, <2>3 DEF Holders
  <2> QED BY <1>0, <2>2, <2>3, <2>4 DEF OneHolder
<1>4. CASE PopWait
  <2>1. /\ jobs # <<>> /\ jobs' = Tail(jobs) /\ job' = Head(jobs)
        /\ added' = added /\ freed' = freed
    BY <1>4 DEF PopWait
  <2>2. /\ IsInjective(jobs') /\ Contains(jobs, Head(jobs))
        /\ \A j : Contains(jobs', j) <=> Contains(jobs, j) /\ j # Head(jobs)
    BY ONLY <1>0, <2>1, TailIs
  <2>3. job \notin Jobs
    BY <1>4 DEF PopWait, TypeOK
  <2>4. ASSUME NEW j \in Jobs PROVE Holders(j)' = Holders(j)
    BY <1>0, <2>1, <2>2, <2>3 DEF Holders
  <2> QED BY <1>0, <2>1, <2>2, <2>4 DEF OneHolder
<1>5. CASE Finish
  <2>1. job \in Jobs /\ job' \notin Jobs /\ jobs' = jobs /\ added' = added
    BY <1>5 DEF Finish, TypeOK
  <2>2. freed' = [freed EXCEPT ![job] = @ + 1]
    BY <1>5 DEF Finish
  <2>3. ASSUME NEW j \in Jobs PROVE Holders(j)' = Holders(j)
    BY <1>0, <2>1, <2>2 DEF Holders
  <2> QED BY <1>0, <2>1, <2>3 DEF OneHolder
<1>6. CASE UNCHANGED <<jobs, job, added, freed>>
  BY <1>0, <1>6 DEF OneHolder, Holders
<1>7. ASSUME NEW c \in Clients,
             \/ \E m \in (SUBSET Bits) \ {{}} : CancelJob(c, m)
             \/ CancelCurrent(c) \/ PopResult(c)
      PROVE  UNCHANGED <<jobs, job, added, freed>>
  BY <1>7 DEF CancelJob, CancelCurrent, PopResult
<1>8. Free \/ Join \/ Enter \/ RunJob \/ UNCHANGED vars
        => UNCHANGED <<jobs, job, added, freed>>
  BY DEF Free, Join, Enter, RunJob, vars
<1> QED BY <1>1, <1>2, <1>3, <1>4, <1>5, <1>6, <1>7, <1>8 DEF Next, Thread

\* Every action keeps FreedLast.
LEMMA LastStep ==
  TypeOK /\ TypeOK' /\ QueuedOnce /\ FreedLast /\ [Next]_vars => FreedLast'
<1> SUFFICES ASSUME TypeOK, TypeOK', QueuedOnce, FreedLast, [Next]_vars
             PROVE  FreedLast'
  OBVIOUS
<1>0. cpc \in [Clients -> {"idle", "cancel", "current", "free cancel",
                              "free current", "poison", "join", "done"}]
  BY DEF TypeOK
<1>q. jobs \in Seq(Jobs \cup {NULL}) /\ IsInjective(jobs)
  BY DEF TypeOK, QueuedOnce
<1> USE DEF workerVars, clientVars, Freeing
<1>1. ASSUME NEW c \in Clients, NEW e \in Jobs, AddJob(c, e) PROVE FreedLast'
  <2>1. /\ ~Contains(jobs, e) /\ cpc[Owner] \notin {"join", "done"}
        /\ e # NULL /\ e \in Jobs \cup {NULL}
    BY <1>1 DEF AddJob, QueuedOnce
  <2>2. jobs' = Append(jobs, e) /\ cpc' = cpc /\ wpc' = wpc
    BY <1>1 DEF AddJob
  <2>3. \A j : Contains(jobs', j) <=> Contains(jobs, j) \/ j = e
    BY ONLY <1>q, <2>1, <2>2, AppendIs
  <2> QED BY <2>1, <2>2, <2>3 DEF FreedLast
<1>2. ASSUME NEW c \in Clients, RemoveQueued(c) PROVE FreedLast'
  <2>1. cpc[Owner] \notin {"join", "done"} /\ ~Contains(jobs, NULL) /\ wpc # "ended"
    BY <1>2 DEF RemoveQueued, FreedLast
  <2>2. ~Contains(jobs', NULL)
    BY <1>q, <1>2, <2>1, WithoutIs DEF RemoveQueued
  <2>3. cpc' = [cpc EXCEPT ![c] = IF @ = "cancel" THEN "current" ELSE "free current"]
          /\ wpc' = wpc /\ cpc[c] \in {"cancel", "free cancel"}
    BY <1>2 DEF RemoveQueued
  <2> QED BY <1>0, <2>1, <2>2, <2>3 DEF FreedLast
<1>3. ASSUME NEW c \in Clients, CancelCurrent(c) PROVE FreedLast'
  BY <1>0, <1>3 DEF CancelCurrent, FreedLast
<1>4. ASSUME NEW c \in Clients, NEW m \in (SUBSET Bits) \ {{}}, CancelJob(c, m)
      PROVE  FreedLast'
  BY <1>0, <1>4 DEF CancelJob, FreedLast
<1>5. CASE Free
  BY <1>0, <1>5 DEF Free, FreedLast
<1>6. CASE Poison
  <2>1. /\ ~Contains(jobs, NULL) /\ wpc # "ended" /\ NULL \in Jobs \cup {NULL}
        /\ jobs' = Append(jobs, NULL)
    BY <1>6 DEF Poison, FreedLast
  <2>2. Len(jobs') = Len(jobs) + 1 /\ jobs'[Len(jobs) + 1] = NULL
    BY ONLY <1>q, <2>1, AppendIs
  <2>3. cpc' = [cpc EXCEPT ![Owner] = "join"] /\ wpc' = wpc /\ cpc[Owner] = "poison"
    BY <1>6 DEF Poison
  <2> QED BY <1>0, <2>1, <2>2, <2>3 DEF FreedLast
<1>7. CASE Join
  <2>1. ~Contains(jobs, NULL)
    BY <1>7 DEF Join, FreedLast, Contains
  <2> QED BY <1>0, <1>7, <2>1 DEF Join, FreedLast
<1>8. CASE PopWait
  <2>0. Len(jobs) \in Nat
    <3>1. jobs \in Seq(Jobs \cup {NULL})
      BY <1>q
    <3> QED BY ONLY <3>1
  <2>1. /\ Len(jobs) \in Nat /\ jobs # <<>> /\ jobs' = Tail(jobs) /\ cpc' = cpc
        /\ wpc' = IF Head(jobs) = NULL THEN "ended" ELSE "popped"
        /\ Head(jobs) = jobs[1]
    BY <1>8, <2>0 DEF PopWait
  <2>2. /\ Contains(jobs, Head(jobs)) /\ Len(jobs) \in Nat \ {0}
        /\ Len(jobs') = Len(jobs) - 1
        /\ jobs' \in Seq(Jobs \cup {NULL})
        /\ \A i \in 1 .. Len(jobs) - 1 : jobs'[i] = jobs[i + 1]
        /\ \A j : Contains(jobs', j) <=> Contains(jobs, j) /\ j # Head(jobs)
    BY <1>q, <2>1, TailIs
  <2>3. CASE Head(jobs) = NULL
    <3>1. jobs[Len(jobs)] = NULL /\ jobs[1] = NULL
      BY <2>1, <2>2, <2>3 DEF FreedLast
    <3>2. 1 \in DOMAIN jobs /\ Len(jobs) \in DOMAIN jobs
      <4>1. DOMAIN jobs = 1 .. Len(jobs)
        BY ONLY <1>q
      <4> QED BY <2>2, <4>1
    <3>3. Len(jobs) = 1
      BY <1>q, <3>1, <3>2 DEF IsInjective
    <3>4. jobs' = <<>>
      BY <2>1, <2>2, <3>3
    <3>5. cpc[Owner] = "join" /\ ~Contains(jobs', NULL)
      BY <2>2, <2>3 DEF FreedLast
    <3> QED BY <2>1, <2>3, <3>4, <3>5 DEF FreedLast
  <2>4. CASE Head(jobs) # NULL
    <3>1. wpc' = "popped" /\ wpc = "wait"
      BY <1>8, <2>1, <2>4 DEF PopWait
    <3>2. ASSUME Contains(jobs', NULL) PROVE jobs'[Len(jobs')] = NULL
      <4>1. jobs[Len(jobs)] = NULL /\ jobs[1] = Head(jobs)
        BY <2>1, <2>2, <3>2 DEF FreedLast
      <4>2. Len(jobs) - 1 \in 1 .. Len(jobs) - 1
        BY <2>0, <2>1, <2>2, <2>4, <4>1, <3>2 DEF Contains
      <4> QED BY <2>0, <2>2, <4>1, <4>2
    <3> QED BY <2>1, <2>2, <3>1, <3>2 DEF FreedLast
  <2> QED BY <2>3, <2>4
<1>9. CASE Enter
  BY <1>9 DEF Enter, FreedLast
<1>10. CASE RunJob
  BY <1>10 DEF RunJob, FreedLast
<1>11. CASE Finish
  BY <1>11 DEF Finish, FreedLast
<1>12. CASE (\E c \in Clients : PopResult(c)) \/ UNCHANGED vars
  BY <1>12 DEF PopResult, FreedLast, vars
<1> QED BY <1>1, <1>2, <1>3, <1>4, <1>5, <1>6, <1>7, <1>8, <1>9, <1>10, <1>11,
          <1>12 DEF Next, Thread

\* Every action keeps TargetsGone: a job that a call is about was added before
\* it, and is not added again.
LEMMA TargetsStep ==
  TypeOK /\ QueuedOnce /\ FreedLast /\ TargetsGone /\ [Next]_vars => TargetsGone'
<1> SUFFICES ASSUME TypeOK, QueuedOnce, FreedLast, TargetsGone, [Next]_vars
             PROVE  TargetsGone'
  OBVIOUS
<1>0. /\ cpc \in [Clients -> {"idle", "cancel", "current", "free cancel",
                              "free current", "poison", "join", "done"}]
      /\ mask \in [Clients -> SUBSET Bits] /\ targets \in [Clients -> SUBSET Jobs]
      /\ jobs \in Seq(Jobs \cup {NULL}) /\ IsInjective(jobs)
  BY DEF TypeOK, QueuedOnce
<1> USE DEF workerVars, clientVars
<1>1. ASSUME NEW c \in Clients, NEW e \in Jobs, AddJob(c, e) PROVE TargetsGone'
  <2>1. /\ ~Contains(jobs, e) /\ e \notin added /\ added' = added \cup {e}
        /\ jobs' = Append(jobs, e) /\ e \in Jobs \cup {NULL}
    BY <1>1 DEF AddJob, QueuedOnce
  <2>2. \A j : Contains(jobs', j) <=> Contains(jobs, j) \/ j = e
    BY ONLY <1>0, <2>1, AppendIs, ZenonT(60)
  <2>3. UNCHANGED <<cpc, mask, targets>>
    BY <1>1 DEF AddJob
  <2> QED BY <2>1, <2>2, <2>3 DEF TargetsGone
<1>2. ASSUME NEW c \in Clients, NEW m \in (SUBSET Bits) \ {{}}, CancelJob(c, m)
      PROVE  TargetsGone'
  BY <1>0, <1>2 DEF CancelJob, TargetsGone
<1>3. CASE Free
  BY <1>0, <1>3 DEF Free, TargetsGone
<1>4. ASSUME NEW c \in Clients, RemoveQueued(c) PROVE TargetsGone'
  <2>1. \A j : Contains(jobs', j) <=> Contains(jobs, j) /\ ~Matches(j, mask[c])
    BY <1>0, <1>4, WithoutIs DEF RemoveQueued
  <2>2. /\ cpc[c] \in {"cancel", "free cancel"} /\ UNCHANGED <<mask, targets, added>>
        /\ cpc' = [cpc EXCEPT ![c] = IF @ = "cancel" THEN "current" ELSE "free current"]
    BY <1>4 DEF RemoveQueued
  <2> QED BY <1>0, <2>1, <2>2 DEF TargetsGone
<1>5. ASSUME NEW c \in Clients, CancelCurrent(c) PROVE TargetsGone'
  BY <1>0, <1>5 DEF CancelCurrent, TargetsGone
<1>6. CASE Poison
  <2>1. ~Contains(jobs, NULL) /\ jobs' = Append(jobs, NULL) /\ NULL \in Jobs \cup {NULL}
    BY <1>6 DEF Poison, FreedLast
  <2>2. \A j : Contains(jobs', j) <=> Contains(jobs, j) \/ j = NULL
    BY ONLY <1>0, <2>1, AppendIs, ZenonT(60)
  <2>3. NULL \notin Jobs /\ UNCHANGED <<mask, targets, added>>
          /\ cpc' = [cpc EXCEPT ![Owner] = "join"]
    BY <1>6 DEF Poison
  <2> QED BY <1>0, <2>2, <2>3 DEF TargetsGone
<1>7. CASE Join
  BY <1>0, <1>7 DEF Join, TargetsGone
<1>8. CASE PopWait
  <2>1. \A j : Contains(jobs', j) => Contains(jobs, j)
    BY <1>0, <1>8, TailIs DEF PopWait
  <2> QED BY <1>8, <2>1 DEF PopWait, TargetsGone
<1>9. CASE \/ \E c \in Clients : PopResult(c)
           \/ Enter \/ RunJob \/ Finish \/ UNCHANGED vars
  BY <1>9 DEF PopResult, Enter, RunJob, Finish, vars, TargetsGone
<1> QED BY <1>1, <1>2, <1>3, <1>4, <1>5, <1>6, <1>7, <1>8, <1>9 DEF Next, Thread

\* Every action keeps NoStaleCancel.
LEMMA CancelStep == NoStaleCancel /\ [Next]_vars => NoStaleCancel'
<1> SUFFICES ASSUME NoStaleCancel, [Next]_vars PROVE NoStaleCancel'
  OBVIOUS
<1> USE DEF workerVars, clientVars, NoStaleCancel
<1>1. ASSUME NEW c \in Clients, CancelCurrent(c) PROVE NoStaleCancel'
  BY <1>1 DEF CancelCurrent
<1>2. CASE Enter
  BY <1>2 DEF Enter
<1>3. CASE UNCHANGED <<current, cancel, hit>> /\ (wpc' = wpc \/ wpc = "run" \/ wpc' = "popped"
                                                 \/ wpc' = "ended")
  BY <1>3
<1>4. CASE Finish
  BY <1>4 DEF Finish
<1>5. ASSUME NEW c \in Clients,
             \/ \E j \in Jobs : AddJob(c, j)
             \/ \E m \in (SUBSET Bits) \ {{}} : CancelJob(c, m)
             \/ RemoveQueued(c) \/ PopResult(c)
      PROVE  UNCHANGED <<current, cancel, hit, wpc>>
  BY <1>5 DEF AddJob, CancelJob, RemoveQueued, PopResult
<1>6. Free \/ Poison \/ Join \/ UNCHANGED vars => UNCHANGED <<current, cancel, hit, wpc>>
  BY DEF Free, Poison, Join, vars
<1>7. PopWait => UNCHANGED <<current, cancel, hit>> /\ wpc' \in {"popped", "ended"}
  BY DEF PopWait
<1>8. RunJob => UNCHANGED <<current, cancel, hit>> /\ wpc = "run"
  BY DEF RunJob
<1> HIDE DEF NoStaleCancel
<1> QED BY <1>1, <1>2, <1>3, <1>4, <1>5, <1>6, <1>7, <1>8 DEF Next, Thread

THEOREM Inductive == Spec => []IInv
<1>1. Init => IInv
  <2> SUFFICES ASSUME Init PROVE IInv
    OBVIOUS
  <2> USE DEF Init
  <2>1. TypeOK
    <3>1. jobs \in Seq(Jobs \cup {NULL}) /\ results \in Seq(Jobs)
      OBVIOUS
    <3>2. freed \in [Jobs -> Nat] /\ cancels \in 0 .. MaxCancels
      OBVIOUS
    <3> QED BY <3>1, <3>2 DEF TypeOK
  <2>2. \A j : ~Contains(jobs, j)
    BY DEF Contains
  <2>3. IsInjective(jobs)
    BY DEF IsInjective
  <2> QED BY <2>1, <2>2, <2>3 DEF IInv, FreedOnce, NoStaleCancel, QueuedOnce, FreedLast,
                                TargetsGone, Freeing
<1>2. IInv /\ [Next]_vars => IInv'
  BY TypeStep, OwnStep, LastStep, TargetsStep, CancelStep DEF IInv
<1> QED BY <1>1, <1>2, PTL DEF Spec

-----------------------------------------------------------------------------
(* What follows from it.                                                   *)

\* Whoever gets rid of a job frees its data, once, whatever the clients cancel
\* while the thread pops, runs and finishes it, and worker_free leaves none.
THEOREM JobsAreOwned == Spec => []JobsOwned
<1>1. IInv => JobsOwned
  <2> SUFFICES ASSUME IInv PROVE JobsOwned
    OBVIOUS
  <2> USE DEF IInv
  <2>1. CurrentIsAlive
    <3>1. ASSUME current # NULL PROVE freed[current] = 0
      <4>1. job = current /\ job \in Jobs /\ freed[job] \in Nat
        BY <3>1 DEF TypeOK
      <4>2. job \in added
        BY <4>1 DEF QueuedOnce
      <4> QED BY <4>1, <4>2 DEF FreedOnce
    <3> QED BY <3>1 DEF CurrentIsAlive
  <2>2. FreeLeavesNothing
    <3> SUFFICES ASSUME cpc[Owner] = "done"
                 PROVE  jobs = <<>> /\ \A j \in added : freed[j] = 1
      BY DEF FreeLeavesNothing
    <3>1. jobs = <<>> /\ job \notin Jobs
      BY DEF FreedLast, TypeOK
    <3>2. \A j : ~Contains(jobs, j)
      BY <3>1 DEF Contains
    <3>3. \A j \in added : job # j /\ freed[j] \in Nat
      BY <3>1 DEF TypeOK
    <3> QED BY <3>1, <3>2, <3>3 DEF FreedOnce
  <2> QED BY <2>1, <2>2 DEF JobsOwned
<1> QED BY <1>1, Inductive, PTL

\* A job that sees worker_cancel_current was meant by a call.
THEOREM FlagIsMeant == Spec => []NoStaleCancel
<1>1. IInv => NoStaleCancel
  BY DEF IInv
<1> QED BY <1>1, Inductive, PTL

\* A call of worker_cancel_job misses no job it is about, but for the one that
\* the thread has popped and not made current yet.
THEOREM OnlyTheGap == Spec => CancelMissesOnlyTheGap
<1>1. ASSUME IInv, NEW c \in Clients, CancelCurrent(c), NEW j \in targets[c]
      PROVE  \/ freed[j] > 0
             \/ j = current /\ cancel'
             \/ j = job /\ wpc = "popped"
  <2>1. j \in added /\ j \in Jobs /\ Matches(j, mask[c]) /\ ~Contains(jobs, j)
    BY <1>1 DEF IInv, TypeOK, TargetsGone, CancelCurrent
  <2>2. CASE job # j
    <3>1. freed[j] \in Nat /\ (IF Contains(jobs, j) THEN 1 ELSE 0)
            + (IF job = j THEN 1 ELSE 0) + freed[j] = 1
      BY <2>1, <1>1 DEF IInv, TypeOK, FreedOnce
    <3> QED BY ONLY <2>1, <2>2, <3>1
  <2>3. CASE job = j
    <3>1. wpc \in {"popped", "run", "finish"}
      BY <2>1, <2>3, <1>1 DEF IInv, TypeOK
    <3>2. CASE wpc \in {"run", "finish"}
      <4>1. current = j /\ current # NULL
        BY <2>1, <2>3, <3>2, <1>1 DEF IInv, TypeOK
      <4> QED BY <1>1, <2>1, <4>1 DEF CancelCurrent
    <3> QED BY <2>3, <3>1, <3>2
  <2> QED BY <2>2, <2>3
<1>2. IInv => \A c \in Clients :
                CancelCurrent(c) =>
                  \A j \in targets[c] :
                    \/ freed[j] > 0
                    \/ j = current /\ cancel'
                    \/ j = job /\ wpc = "popped"
  BY <1>1
<1> QED BY <1>2, Inductive, PTL DEF CancelMissesOnlyTheGap
=============================================================================
