---------------------------- MODULE PulseProofs ----------------------------
(***************************************************************************)
(* Safety of module Pulse for any formats, any number of streams and any   *)
(* buffer: which streams there are and which of them is heard, what the    *)
(* player may write, and what the context believes.                        *)
(***************************************************************************)
EXTENDS Pulse, SequenceTheorems, WellFoundedInduction, TLAPS

-----------------------------------------------------------------------------
(* Sequences of sequences, flattened.  An induction over their length is   *)
(* the least counterexample.                                               *)

Below == {p \in Nat \X Nat : p[1] < p[2]}

LEMMA BelowWF == IsWellFoundedOn(Below, Nat)
<1>1. OpToRel(<, Nat) = Below
  BY Zenon DEF OpToRel, Below
<1> QED BY <1>1, NatLessThanWellFounded, Zenon

\* A set of numbers that is not empty has a least element.
LEMMA Least ==
  ASSUME NEW T \in SUBSET Nat, T # {}
  PROVE  \E n \in T : \A k \in T : n <= k
<1>1. \A k, n \in Nat : k < n => <<k, n>> \in Below
  BY DEF Below
<1>2. PICK n \in T : \A k \in T : <<k, n>> \notin Below
  BY BelowWF, WFMin, Zenon
<1>3. ASSUME NEW k \in T PROVE n <= k
  <2>1. n \in Nat /\ k \in Nat /\ ~(k < n)
    BY <1>1, <1>2, <1>3, Zenon
  <2> QED BY <2>1
<1> QED BY <1>2, <1>3, Zenon

\* What holds of 1, and of i + 1 if of i, holds up to n: T is where it holds.
LEMMA UpTo ==
  ASSUME NEW n \in Nat, NEW T, 1 \in T,
         \A i \in 1 .. n : i < n /\ i \in T => i + 1 \in T
  PROVE  \A i \in 1 .. n : i \in T
<1> DEFINE Bad == {i \in 1 .. n : i \notin T}
<1>1. ASSUME Bad # {} PROVE FALSE
  <2>1. PICK b \in Bad : \A k \in Bad : b <= k
    <3>1. Bad \in SUBSET Nat
      OBVIOUS
    <3> QED BY <1>1, <3>1, Least, Zenon
  <2>2. b - 1 \in 1 .. n /\ b - 1 < n /\ (b - 1) + 1 = b
    BY <2>1
  <2>3. b - 1 \in T
    BY <2>1, <2>2
  <2> QED BY <2>1, <2>2, <2>3
<1> QED BY <1>1

\* f is the table that FlattenSeq computes of s.
IsFlat(f, s) ==
  f = [i \in 1 .. Len(s) |-> IF i = 1 THEN s[i] ELSE f[i - 1] \o s[i]]

\* The table exists, up to any n.
LEMMA TableExists ==
  ASSUME NEW s, NEW n \in Nat
  PROVE  \E f : f = [i \in 1 .. n |-> IF i = 1 THEN s[i] ELSE f[i - 1] \o s[i]]
<1> DEFINE Is(f, k) == f = [i \in 1 .. k |-> IF i = 1 THEN s[i] ELSE f[i - 1] \o s[i]]
           Bad == {k \in Nat : ~\E f : Is(f, k)}
<1>1. ASSUME n \in Bad PROVE FALSE
  <2>1. PICK k \in Bad : \A l \in Bad : k <= l
    BY <1>1, Least, Zenon
  <2>2. CASE k = 0
    <3>1. Is([i \in 1 .. 0 |-> <<>>], 0)
      <4>1. 1 .. 0 = {}
        OBVIOUS
      <4>2. \A i \in 1 .. 0 : FALSE
        BY <4>1
      <4> QED BY <4>2, Zenon
    <3> QED BY <2>1, <2>2, <3>1
  <2>3. CASE k # 0
    <3>0. k \in Nat /\ k - 1 \in Nat /\ ~(k <= k - 1)
      <4>1. k \in Nat
        BY <2>1
      <4> QED BY <2>3, <4>1
    <3>1. k - 1 \in Nat /\ k - 1 \notin Bad /\ k \in Nat
      BY <2>1, <3>0, Zenon
    <3>2. PICK f : Is(f, k - 1)
      BY <3>1
    <3> DEFINE g == [i \in 1 .. k |->
                       IF i < k THEN f[i] ELSE IF i = 1 THEN s[i] ELSE f[i - 1] \o s[i]]
    <3>3. ASSUME NEW i \in 1 .. k
          PROVE  g[i] = IF i = 1 THEN s[i] ELSE g[i - 1] \o s[i]
      <4>1. CASE i = k
        BY <3>1, <4>1
      <4>2. CASE i < k
        <5>1. i \in 1 .. k - 1 /\ (i # 1 => i - 1 \in 1 .. k /\ i - 1 < k)
          BY <3>1, <4>2
        <5>2. f[i] = IF i = 1 THEN s[i] ELSE f[i - 1] \o s[i]
          BY <3>2, <5>1
        <5> QED BY <4>2, <5>1, <5>2
      <4> QED BY <3>1, <4>1, <4>2
    <3>4. Is(g, k)
      BY <3>3
    <3> QED BY <2>1, <3>4
  <2> QED BY <2>2, <2>3
<1> QED BY <1>1

\* FlattenSeq is the last entry of its table, which is made of sequences.
LEMMA FlatIs ==
  ASSUME NEW S, NEW s \in Seq(Seq(S)), Len(s) > 0
  PROVE  \E f : /\ IsFlat(f, s) /\ FlattenSeq(s) = f[Len(s)]
                /\ \A i \in 1 .. Len(s) : f[i] \in Seq(S)
<1> DEFINE flatten == CHOOSE f : IsFlat(f, s)
<1>1. IsFlat(flatten, s)
  <2>1. \E f : IsFlat(f, s)
    <3>1. Len(s) \in Nat
      OBVIOUS
    <3> QED BY <3>1, TableExists, Zenon DEF IsFlat
  <2> QED BY <2>1, Zenon
<1>2. FlattenSeq(s) = flatten[Len(s)]
  <2>1. Len(s) # 0
    OBVIOUS
  <2> QED BY <2>1, Zenon DEF FlattenSeq, IsFlat
<1> HIDE DEF flatten
<1>3. \A i \in 1 .. Len(s) : flatten[i] = IF i = 1 THEN s[i] ELSE flatten[i - 1] \o s[i]
  BY <1>1 DEF IsFlat
<1> DEFINE T == {i \in 1 .. Len(s) : flatten[i] \in Seq(S)}
<1>4. \A i \in 1 .. Len(s) : s[i] \in Seq(S)
  OBVIOUS
<1>5. 1 \in T
  BY <1>3, <1>4
<1>6. ASSUME NEW i \in 1 .. Len(s), i < Len(s), i \in T PROVE i + 1 \in T
  <2>1. i + 1 \in 1 .. Len(s) /\ i + 1 # 1 /\ (i + 1) - 1 = i
    BY <1>6
  <2>2. flatten[i + 1] = flatten[i] \o s[i + 1]
    BY <1>3, <2>1
  <2>3. flatten[i] \in Seq(S) /\ s[i + 1] \in Seq(S)
    BY <1>4, <1>6, <2>1
  <2>4. flatten[i] \o s[i + 1] \in Seq(S)
    BY <2>3, ConcatProperties
  <2> QED BY <2>1, <2>2, <2>4
<1> HIDE DEF T
<1>7. \A i \in 1 .. Len(s) : i \in T
  <2>1. Len(s) \in Nat
    OBVIOUS
  <2> QED BY <1>5, <1>6, <2>1, UpTo
<1> QED BY <1>1, <1>2, <1>7 DEF T

LEMMA FlatNone == FlattenSeq(<<>>) = <<>>
BY DEF FlattenSeq

\* Of sequences that agree up to n the tables agree up to n.
LEMMA TablesAgree ==
  ASSUME NEW s, NEW t, Len(s) \in Nat, Len(t) \in Nat, NEW f, NEW g, IsFlat(f, s), IsFlat(g, t),
         NEW n \in 1 .. Len(s), n <= Len(t), \A i \in 1 .. n : s[i] = t[i]
  PROVE  f[n] = g[n]
<1> DEFINE T == {i \in 1 .. n : f[i] = g[i]}
<1>1. /\ \A i \in 1 .. n : f[i] = IF i = 1 THEN s[i] ELSE f[i - 1] \o s[i]
      /\ \A i \in 1 .. n : g[i] = IF i = 1 THEN t[i] ELSE g[i - 1] \o t[i]
  <2>1. \A i \in 1 .. n : i \in 1 .. Len(s) /\ i \in 1 .. Len(t)
    OBVIOUS
  <2>2. \A i \in 1 .. Len(s) : f[i] = IF i = 1 THEN s[i] ELSE f[i - 1] \o s[i]
    BY DEF IsFlat
  <2>3. \A i \in 1 .. Len(t) : g[i] = IF i = 1 THEN t[i] ELSE g[i - 1] \o t[i]
    BY DEF IsFlat
  <2> QED BY <2>1, <2>2, <2>3, Zenon
<1>2. 1 \in T
  BY <1>1
<1>3. ASSUME NEW i \in 1 .. n, i < n, i \in T PROVE i + 1 \in T
  <2>1. i + 1 \in 1 .. n /\ i + 1 # 1 /\ (i + 1) - 1 = i
    BY <1>3
  <2>2. f[i + 1] = f[i] \o s[i + 1] /\ g[i + 1] = g[i] \o t[i + 1]
    BY <1>1, <2>1
  <2> QED BY <1>3, <2>1, <2>2
<1> HIDE DEF T
<1>4. \A i \in 1 .. n : i \in T
  BY <1>2, <1>3, UpTo, SMTT(40)
<1> QED BY <1>4 DEF T

\* Taken apart at the last, and at the first.
LEMMA FlatLast ==
  ASSUME NEW S, NEW s \in Seq(Seq(S)), NEW t \in Seq(Seq(S)), Len(s) = Len(t) + 1,
         \A i \in 1 .. Len(t) : s[i] = t[i]
  PROVE  /\ FlattenSeq(s) = FlattenSeq(t) \o s[Len(s)]
         /\ FlattenSeq(t) \in Seq(S) /\ s[Len(s)] \in Seq(S) /\ FlattenSeq(s) \in Seq(S)
<1>0. Len(s) \in Nat /\ Len(t) \in Nat /\ Len(s) > 0 /\ s[Len(s)] \in Seq(S) /\ Len(s) \in 1 .. Len(s)
  OBVIOUS
<1>1. PICK f : /\ IsFlat(f, s) /\ FlattenSeq(s) = f[Len(s)]
               /\ \A i \in 1 .. Len(s) : f[i] \in Seq(S)
  BY <1>0, FlatIs
<1>2. CASE Len(t) = 0
  <2>1. t = <<>>
    BY <1>2, EmptySeq
  <2>2. FlattenSeq(t) = <<>> /\ <<>> \in Seq(S)
    BY <2>1, FlatNone
  <2>3. f[Len(s)] = s[Len(s)]
    BY <1>0, <1>1, <1>2 DEF IsFlat
  <2>4. <<>> \o s[Len(s)] = s[Len(s)]
    BY <1>0, ConcatEmptySeq
  <2> QED BY <1>0, <1>1, <2>2, <2>3, <2>4
<1>3. CASE Len(t) > 0
  <2>1. PICK g : /\ IsFlat(g, t) /\ FlattenSeq(t) = g[Len(t)]
                 /\ \A i \in 1 .. Len(t) : g[i] \in Seq(S)
    BY <1>3, FlatIs
  <2>2. Len(t) \in 1 .. Len(t) /\ Len(t) \in 1 .. Len(s) /\ Len(s) # 1 /\ Len(s) - 1 = Len(t)
    BY <1>0, <1>3
  <2>3. f[Len(t)] = g[Len(t)]
    <3>1. IsFlat(f, s) /\ IsFlat(g, t) /\ Len(t) <= Len(t)
      BY <1>0, <1>1, <2>1
    <3> DEFINE n == Len(t)
    <3>2. n \in 1 .. Len(s) /\ n <= Len(t) /\ \A i \in 1 .. n : s[i] = t[i]
      BY <2>2, <3>1
    <3> HIDE DEF n
    <3>3. f[n] = g[n]
      BY ONLY <1>0, <3>1, <3>2, TablesAgree
    <3> QED BY <3>3 DEF n
  <2>4. f[Len(s)] = f[Len(s) - 1] \o s[Len(s)]
    BY <1>0, <1>1, <2>2 DEF IsFlat
  <2> QED BY <1>0, <1>1, <2>1, <2>2, <2>3, <2>4
<1> QED BY <1>0, <1>2, <1>3

LEMMA FlatFirst ==
  ASSUME NEW S, NEW s \in Seq(Seq(S)), NEW t \in Seq(Seq(S)), Len(s) = Len(t) + 1,
         \A i \in 1 .. Len(t) : t[i] = s[i + 1]
  PROVE  /\ FlattenSeq(s) = s[1] \o FlattenSeq(t)
         /\ FlattenSeq(t) \in Seq(S) /\ s[1] \in Seq(S)
<1>0. Len(s) \in Nat /\ Len(t) \in Nat /\ Len(s) > 0 /\ s[1] \in Seq(S) /\ 1 \in 1 .. Len(s)
  OBVIOUS
<1>1. PICK f : /\ IsFlat(f, s) /\ FlattenSeq(s) = f[Len(s)]
               /\ \A i \in 1 .. Len(s) : f[i] \in Seq(S)
  BY <1>0, FlatIs
<1>f. \A i \in 1 .. Len(s) : f[i] = IF i = 1 THEN s[i] ELSE f[i - 1] \o s[i]
  BY <1>1 DEF IsFlat
<1>2. CASE Len(t) = 0
  <2>1. t = <<>>
    BY <1>2, EmptySeq
  <2>2. FlattenSeq(t) = <<>> /\ <<>> \in Seq(S)
    BY <2>1, FlatNone
  <2>3. f[Len(s)] = s[1]
    BY <1>0, <1>f, <1>2
  <2>4. s[1] \o <<>> = s[1]
    BY <1>0, ConcatEmptySeq
  <2> QED BY <1>0, <1>1, <2>2, <2>3, <2>4
<1>3. CASE Len(t) > 0
  <2>1. PICK g : /\ IsFlat(g, t) /\ FlattenSeq(t) = g[Len(t)]
                 /\ \A i \in 1 .. Len(t) : g[i] \in Seq(S)
    BY <1>3, FlatIs
  <2>g. \A i \in 1 .. Len(t) : g[i] = IF i = 1 THEN t[i] ELSE g[i - 1] \o t[i]
    BY <2>1 DEF IsFlat
  <2> DEFINE T == {i \in 1 .. Len(t) : f[i + 1] = s[1] \o g[i]}
  <2>2. 1 \in T
    <3>1. 1 \in 1 .. Len(t) /\ 2 \in 1 .. Len(s) /\ 1 \in 1 .. Len(s)
      BY <1>0, <1>3
    <3>2. f[1] = s[1] /\ g[1] = t[1]
      BY <1>f, <2>g, <3>1
    <3>3. f[2] = f[1] \o s[2]
      <4>1. 2 # 1 /\ 2 - 1 = 1
        OBVIOUS
      <4> QED BY <1>f, <3>1, <4>1
    <3>4. t[1] = s[2]
      <4>1. 1 + 1 = 2
        OBVIOUS
      <4> QED BY <3>1, <4>1
    <3>5. f[1 + 1] = s[1] \o g[1]
      <4>1. 1 + 1 = 2
        OBVIOUS
      <4> QED BY <3>2, <3>3, <3>4, <4>1, Zenon
    <3> QED BY <3>1, <3>5
  <2>3. ASSUME NEW i \in 1 .. Len(t), i < Len(t), i \in T PROVE i + 1 \in T
    <3>1. /\ i + 1 \in 1 .. Len(t) /\ i + 1 # 1 /\ (i + 1) - 1 = i
          /\ (i + 1) + 1 \in 1 .. Len(s) /\ (i + 1) + 1 # 1 /\ ((i + 1) + 1) - 1 = i + 1
      BY <1>0, <2>3, SMTT(40)
    <3>2. /\ g[i + 1] = g[i] \o t[i + 1] /\ f[(i + 1) + 1] = f[i + 1] \o s[(i + 1) + 1]
          /\ t[i + 1] = s[(i + 1) + 1] /\ f[i + 1] = s[1] \o g[i]
      BY <1>f, <2>g, <2>3, <3>1
    <3>3. g[i] \in Seq(S) /\ t[i + 1] \in Seq(S)
      BY <2>1, <3>1, SMTT(40)
    <3>4. f[(i + 1) + 1] = f[i + 1] \o t[i + 1]
      BY <3>2
    <3>5. f[(i + 1) + 1] = s[1] \o g[i + 1]
      <4>1. PICK x, y, z \in Seq(S) : x = s[1] /\ y = g[i] /\ z = t[i + 1]
        BY ONLY <1>0, <3>3
      <4>2. (x \o y) \o z = x \o (y \o z)
        BY ONLY x \in Seq(S), y \in Seq(S), z \in Seq(S), SMTT(40)
      <4>3. f[(i + 1) + 1] = (x \o y) \o z /\ g[i + 1] = y \o z
        BY <3>2, <3>4, <4>1
      <4> QED BY ONLY <4>1, <4>2, <4>3
    <3> QED BY <3>1, <3>5
  <2> HIDE DEF T
  <2>4. \A i \in 1 .. Len(t) : i \in T
    BY <1>0, <2>2, <2>3, UpTo
  <2>5. Len(t) \in 1 .. Len(t)
    BY <1>0, <1>3
  <2>6. f[Len(t) + 1] = s[1] \o g[Len(t)]
    BY <2>4, <2>5 DEF T
  <2> QED BY <1>0, <1>1, <2>1, <2>5, <2>6
<1> QED BY <1>0, <1>2, <1>3

USE ConstantsAssumption

-----------------------------------------------------------------------------
(* The inductive invariant.                                                *)

Contexts == [state : {"disabled", "enabled", "ready"}, streams : Seq(Streams),
             input : Streams \cup {NULL}, fmt : Formats \cup {NULL},
             mute : BOOLEAN, paused : BOOLEAN]

StreamStates == [made : BOOLEAN, live : BOOLEAN, fmt : Formats \cup {NULL},
                 state : {"connecting", "ready"}, req : 0 .. Target,
                 drain : BOOLEAN, cork : BOOLEAN, mute : BOOLEAN,
                 buf : Nat, fed : BOOLEAN, owed : BOOLEAN, news : BOOLEAN]

Questions == [s : Streams, paused : BOOLEAN, mute : BOOLEAN]

Players == [sink : {"none", "loaded", "gone"}, want : BOOLEAN,
            paused : BOOLEAN, mute : BOOLEAN]

Types ==
  /\ c \in Contexts /\ st \in [Streams -> StreamStates] /\ player \in Players
  /\ asked \in Seq(Questions) /\ dead \in Deaths \cup {NULL}

\* Streams are numbered as they are made; the list holds those that are not
\* freed, in that order; and only a context that is ready has any.
Listed(k, t) ==
  /\ \E n \in 0 .. MaxStreams : \A s \in Streams : t[s].made <=> s <= n
  /\ \A s \in Streams : t[s].live => t[s].made /\ t[s].fmt # NULL
  /\ \A s \in Streams : t[s].live <=> \E i \in 1 .. Len(k.streams) : k.streams[i] = s
  /\ \A i, j \in 1 .. Len(k.streams) : i < j => k.streams[i] < k.streams[j]
  /\ Len(k.streams) > 0 => k.state = "ready"

\* Nothing has happened to a stream that is not ready, or is freed.
Idle(t) ==
  \A s \in Streams :
    /\ ~t[s].live => t[s].state = "connecting"
    /\ t[s].state = "connecting" => t[s].buf = 0 /\ t[s].req = 0 /\ ~t[s].drain /\ ~t[s].fed

\* A stream behind the first is corked, so that it keeps what it was given.
Behind(k, t) ==
  \A i \in 1 .. Len(k.streams) :
    i > 1 => /\ t[k.streams[i]].cork
             /\ t[k.streams[i]].fed => t[k.streams[i]].buf > 0

\* The input is the last of the list; it has the context's format, and it is
\* not draining.
InputIsLast(k, t) ==
  k.input # NULL => /\ Len(k.streams) > 0 /\ k.input = k.streams[Len(k.streams)]
                    /\ t[k.input].fmt = k.fmt /\ ~t[k.input].drain

\* The player wants to write only where it may.
Wanted(k, t, want) ==
  want => k.state = "ready" /\ k.input # NULL /\ t[k.input].state = "ready"

\* The stream that is heard makes way, unless it is the input.
Yields(k, t) ==
  Len(k.streams) > 0 =>
    LET s == k.streams[1]
    IN s # k.input /\ t[s].fed => t[s].drain \/ t[s].owed \/ t[s].buf > 0

\* The last question about s, if there is one, will be answered with what is so.
Current(t, q, s) ==
  \A i \in 1 .. Len(q) :
    q[i].s = s /\ (\A j \in 1 .. Len(q) : j > i => q[j].s # s)
      => q[i].paused = t[s].cork /\ q[i].mute = t[s].mute

\* Unless a notification is on its way, the answers to come are current; and
\* if none are, what the context believes of the stream that is heard is.
Answered(t, q) ==
  \A s \in Streams :
    t[s].live /\ t[s].state = "ready" /\ ~t[s].news => Current(t, q, s)

Believed(k, t, q) ==
  Len(k.streams) > 0 =>
    LET s == k.streams[1]
    IN t[s].state = "ready" /\ ~t[s].news /\ (\A i \in 1 .. Len(q) : q[i].s # s)
         => k.paused = t[s].cork /\ k.mute = t[s].mute

IInv ==
  /\ Types
  /\ Listed(c, st) /\ Idle(st) /\ Behind(c, st)
  /\ InputIsLast(c, st) /\ Wanted(c, st, player.want) /\ Yields(c, st)
  /\ Answered(st, asked) /\ Believed(c, st, asked)
  /\ player.sink = "loaded" \/ c.state = "disabled"
  /\ dead # "assertion"

-----------------------------------------------------------------------------
(* What holds of every world a step passes through.                        *)

Worlds == [c : Contexts, st : [Streams -> StreamStates], want : BOOLEAN,
           dead : Deaths \cup {NULL}]

Sound(w) ==
  /\ w \in Worlds /\ w.dead # "assertion"
  /\ Listed(w.c, w.st) /\ Idle(w.st) /\ Behind(w.c, w.st)

FirstOf(w) == w.c.streams[1]

\* From w to v no stream changes its flags silently, and the context believes
\* of the stream that is heard what it did, or what is so.
Tells(w, v) ==
  /\ \A s \in Streams :
       v.st[s].live /\ v.st[s].state = "ready" /\ ~v.st[s].news
         => /\ w.st[s].live /\ w.st[s].state = "ready" /\ ~w.st[s].news
            /\ v.st[s].cork = w.st[s].cork /\ v.st[s].mute = w.st[s].mute
  /\ Len(v.c.streams) > 0 /\ v.st[FirstOf(v)].state = "ready" /\ ~v.st[FirstOf(v)].news
       => /\ \/ v.c.paused = v.st[FirstOf(v)].cork
             \/ Len(w.c.streams) > 0 /\ FirstOf(w) = FirstOf(v) /\ v.c.paused = w.c.paused
          /\ \/ v.c.mute = v.st[FirstOf(v)].mute
             \/ Len(w.c.streams) > 0 /\ FirstOf(w) = FirstOf(v) /\ v.c.mute = w.c.mute

\* And no stream is freed that has audio left.
Spares(w, v) == \A s \in Streams : w.st[s].live /\ w.st[s].buf > 0 => v.st[s].live

LEMMA PlayingIs ==
  ASSUME NEW w \in Worlds
  PROVE  /\ Len(w.c.streams) \in Nat
         /\ \A i \in 1 .. Len(w.c.streams) : w.c.streams[i] \in Streams
         /\ Len(w.c.streams) = 0 => Playing(w) = NULL
         /\ Len(w.c.streams) > 0 => Playing(w) = FirstOf(w) /\ FirstOf(w) \in Streams
<1>1. w.c.streams \in Seq(Streams)
  BY DEF Worlds, Contexts
<1>2. Len(w.c.streams) = 0 <=> w.c.streams = <<>>
  BY <1>1
<1> QED BY <1>1, <1>2 DEF Playing, FirstOf

\* The list is sound whatever else changes of the context.
LEMMA SameStreams ==
  ASSUME NEW w, Sound(w), NEW v \in Worlds, v.dead # "assertion",
         v.st = w.st, v.c.streams = w.c.streams, v.c.state = w.c.state
  PROVE  Sound(v)
<1>1. Listed(w.c, w.st) /\ Idle(w.st) /\ Behind(w.c, w.st)
  BY DEF Sound
<1>2. Listed(v.c, v.st)
  BY <1>1 DEF Listed
<1>3. Idle(v.st)
  BY <1>1
<1>4. Behind(v.c, v.st)
  BY <1>1 DEF Behind
<1> QED BY <1>2, <1>3, <1>4 DEF Sound

LEMMA HeardIsFirst ==
  ASSUME NEW w, Sound(w), NEW i \in 1 .. Len(w.c.streams), i > 1
  PROVE  w.c.streams[i] # FirstOf(w)
<1>1. Len(w.c.streams) \in Nat /\ w.c.streams[i] \in Streams /\ w.c.streams[1] \in Streams
  BY PlayingIs DEF Sound, FirstOf
<1>2. w.c.streams[1] < w.c.streams[i]
  BY <1>1 DEF Sound, Listed
<1> QED BY <1>1, <1>2 DEF FirstOf, Streams

LEMMA FreedIs ==
  /\ Freed \in StreamStates /\ NoStream \in StreamStates
  /\ Freed.made /\ ~Freed.live /\ Freed.state = "connecting" /\ Freed.buf = 0 /\ Freed.req = 0
  /\ ~Freed.drain /\ ~Freed.fed
<1>1. 0 \in 0 .. Target
  OBVIOUS
<1>2. NoStream \in StreamStates
  BY <1>1 DEF NoStream, StreamStates
<1>3. Freed \in StreamStates
  BY <1>2 DEF Freed, StreamStates
<1>4. /\ Freed.made /\ ~Freed.live /\ Freed.state = "connecting" /\ Freed.buf = 0 /\ Freed.req = 0
      /\ ~Freed.drain /\ ~Freed.fed
  BY DEF Freed, NoStream
<1> QED BY <1>2, <1>3, <1>4

\* The first stream is freed.
LEMMA FreeHead ==
  ASSUME NEW w, Sound(w), Len(w.c.streams) > 0
  PROVE  LET v == [FreeStream(w, FirstOf(w)) EXCEPT !.c.streams = Tail(@)]
         IN /\ Sound(v)
            /\ v.c = [w.c EXCEPT !.streams = Tail(w.c.streams)]
            /\ v.st = [w.st EXCEPT ![FirstOf(w)] = Freed]
            /\ v.want = w.want /\ v.dead = w.dead
            /\ Len(v.c.streams) = Len(w.c.streams) - 1
            /\ \A i \in 1 .. Len(w.c.streams) - 1 : v.c.streams[i] = w.c.streams[i + 1]
<1> DEFINE v == [FreeStream(w, FirstOf(w)) EXCEPT !.c.streams = Tail(@)]
           h == FirstOf(w)
<1>0. w \in Worlds /\ w.c \in Contexts /\ w.st \in [Streams -> StreamStates] /\ w.c.streams \in Seq(Streams)
  BY DEF Sound, Worlds, Contexts
<1>1. h \in Streams /\ Len(w.c.streams) \in Nat
  BY <1>0, PlayingIs
<1>2. /\ v.c = [w.c EXCEPT !.streams = Tail(w.c.streams)]
      /\ v.st = [w.st EXCEPT ![h] = Freed]
      /\ v.want = w.want /\ v.dead = w.dead
  BY <1>0 DEF FreeStream, Worlds
<1>3. /\ Tail(w.c.streams) \in Seq(Streams) /\ Len(Tail(w.c.streams)) = Len(w.c.streams) - 1
      /\ \A i \in 1 .. Len(w.c.streams) - 1 : Tail(w.c.streams)[i] = w.c.streams[i + 1]
  BY <1>0, <1>1, HeadTailProperties
<1>4. Freed \in StreamStates
  BY FreedIs
<1>5. v \in Worlds
  BY <1>0, <1>3, <1>4 DEF Worlds, Contexts, FreeStream
<1>6. v.c.streams = Tail(w.c.streams) /\ v.c.state = w.c.state
  BY <1>0, <1>2 DEF Contexts
<1>7. \A s \in Streams : v.st[s] = IF s = h THEN Freed ELSE w.st[s]
  BY <1>0, <1>1, <1>2
<1>8. /\ Freed.made /\ ~Freed.live /\ Freed.state = "connecting" /\ Freed.buf = 0 /\ Freed.req = 0
      /\ ~Freed.drain /\ ~Freed.fed
  BY FreedIs
<1> HIDE DEF v
<1>9. Listed(v.c, v.st)
  <2>1. Listed(w.c, w.st)
    BY DEF Sound
  <2>2. w.st[h].made
    BY <1>1, <2>1 DEF Listed, FirstOf
  <2>3. \A s \in Streams : v.st[s].made <=> w.st[s].made
    BY <1>7, <1>8, <2>2, Zenon
  <2>4. \A s \in Streams : v.st[s].live <=> w.st[s].live /\ s # h
    BY <1>7, <1>8, Zenon
  <2>5. \A i, j \in 1 .. Len(v.c.streams) : i < j => v.c.streams[i] < v.c.streams[j]
    BY <1>1, <1>3, <1>6, <2>1 DEF Listed
  <2>6. \A s \in Streams : v.st[s].live <=> \E i \in 1 .. Len(v.c.streams) : v.c.streams[i] = s
    <3>1. \A i \in 1 .. Len(w.c.streams) - 1 : w.c.streams[i + 1] # h
      BY <1>0, <1>1, HeardIsFirst
    <3> SUFFICES ASSUME NEW s \in Streams
                 PROVE  v.st[s].live <=> \E i \in 1 .. Len(v.c.streams) : v.c.streams[i] = s
      OBVIOUS
    <3>2. w.st[s].live <=> \E i \in 1 .. Len(w.c.streams) : w.c.streams[i] = s
      BY <2>1 DEF Listed
    <3>3. ASSUME w.st[s].live, s # h PROVE \E i \in 1 .. Len(v.c.streams) : v.c.streams[i] = s
      <4>1. PICK i \in 1 .. Len(w.c.streams) : w.c.streams[i] = s
        BY <3>2, <3>3
      <4>2. i - 1 \in 1 .. Len(w.c.streams) - 1 /\ i = (i - 1) + 1
        BY <1>1, <3>3, <4>1 DEF FirstOf
      <4> QED BY <1>3, <1>6, <4>1, <4>2
    <3>4. ASSUME NEW i \in 1 .. Len(v.c.streams), v.c.streams[i] = s PROVE w.st[s].live /\ s # h
      <4>1. i \in 1 .. Len(w.c.streams) - 1 /\ i + 1 \in 1 .. Len(w.c.streams)
        BY <1>1, <1>3, <1>6
      <4> QED BY <1>3, <1>6, <3>1, <3>2, <3>4, <4>1
    <3> QED BY <2>4, <3>3, <3>4
  <2>7. Len(v.c.streams) > 0 => v.c.state = "ready"
    BY <1>1, <1>3, <1>6, <2>1 DEF Listed
  <2>8. \A s \in Streams : v.st[s].live => v.st[s].made /\ v.st[s].fmt # NULL
    BY <1>7, <2>1, <2>3, <2>4, Zenon DEF Listed
  <2>9. \E n \in 0 .. MaxStreams : \A s \in Streams : v.st[s].made <=> s <= n
    BY <2>1, <2>3 DEF Listed
  <2> QED BY <2>5, <2>6, <2>7, <2>8, <2>9 DEF Listed
<1>10. Idle(v.st)
  BY <1>7, <1>8 DEF Sound, Idle
<1>11. Behind(v.c, v.st)
  <2> SUFFICES ASSUME NEW i \in 1 .. Len(v.c.streams), i > 1
               PROVE  /\ v.st[v.c.streams[i]].cork
                      /\ v.st[v.c.streams[i]].fed => v.st[v.c.streams[i]].buf > 0
    BY DEF Behind
  <2>1. i + 1 \in 1 .. Len(w.c.streams) /\ i + 1 > 1 /\ v.c.streams[i] = w.c.streams[i + 1]
    BY <1>1, <1>3, <1>6
  <2>2. w.c.streams[i + 1] # h
    BY <1>0, <1>1, <2>1, HeardIsFirst
  <2>3. v.st[v.c.streams[i]] = w.st[w.c.streams[i + 1]]
    BY <1>7, <2>1, <2>2, <1>0
  <2> QED BY <2>1, <2>3 DEF Sound, Behind
<1> QED BY <1>2, <1>3, <1>5, <1>6, <1>9, <1>10, <1>11 DEF Sound, v

\* The flags of the first stream change, and nothing else.
Alike(w, v) ==
  /\ v.c = w.c /\ v.want = w.want
  /\ \A s \in Streams :
       /\ v.st[s].made = w.st[s].made /\ v.st[s].live = w.st[s].live
       /\ v.st[s].fmt = w.st[s].fmt /\ v.st[s].state = w.st[s].state
       /\ v.st[s].req = w.st[s].req /\ v.st[s].drain = w.st[s].drain
       /\ v.st[s].buf = w.st[s].buf /\ v.st[s].fed = w.st[s].fed
       /\ v.st[s].owed = w.st[s].owed
       /\ s # FirstOf(w) => v.st[s] = w.st[s]

LEMMA AlikeIsSound ==
  ASSUME NEW w, Sound(w), NEW v \in Worlds, v.dead # "assertion", Alike(w, v)
  PROVE  Sound(v)
<1>0. v.c = w.c /\ v.c.streams = w.c.streams /\ v.c.state = w.c.state
  BY DEF Alike
<1>1. Listed(v.c, v.st)
  <2>1. \A s \in Streams : /\ v.st[s].made = w.st[s].made /\ v.st[s].live = w.st[s].live
                           /\ v.st[s].fmt = w.st[s].fmt
    BY DEF Alike
  <2> QED BY <1>0, <2>1 DEF Sound, Listed
<1>2. Idle(v.st)
  BY DEF Sound, Idle, Alike
<1>3. Behind(v.c, v.st)
  <2>1. \A i \in 1 .. Len(w.c.streams) :
          i > 1 => w.c.streams[i] \in Streams /\ w.c.streams[i] # FirstOf(w)
    BY HeardIsFirst, PlayingIs DEF Sound
  <2>2. \A i \in 1 .. Len(w.c.streams) : i > 1 => v.st[w.c.streams[i]] = w.st[w.c.streams[i]]
    BY <2>1 DEF Alike
  <2> QED BY <1>0, <2>2 DEF Sound, Behind
<1> QED BY <1>1, <1>2, <1>3 DEF Sound

LEMMA PauseIs ==
  ASSUME NEW w, Sound(w), Len(w.c.streams) > 0, NEW b \in BOOLEAN
  PROVE  LET h == FirstOf(w)
             v == SetStreamPause(w, h, b)
         IN /\ Sound(v) /\ Alike(w, v) /\ v.st[h].mute = w.st[h].mute
            /\ w.st[h].state = "ready" => /\ v.st[h].cork = b
                                          /\ v.dead = w.dead
                                          /\ v.st[h].news <=> w.st[h].news \/ w.st[h].cork # b
<1> DEFINE h == FirstOf(w)
           v == SetStreamPause(w, h, b)
<1>0. /\ w \in Worlds /\ w.c \in Contexts /\ w.st \in [Streams -> StreamStates] /\ h \in Streams
      /\ w.dead \in Deaths \cup {NULL} /\ w.dead # "assertion" /\ w.st[h] \in StreamStates
  BY PlayingIs DEF Sound, Worlds
<1>1. CASE w.st[h].state # "ready"
  <2>1. v = [w EXCEPT !.dead = "cork"]
    BY <1>1 DEF SetStreamPause
  <2>2. v \in Worlds /\ v.dead # "assertion" /\ v.c = w.c /\ v.st = w.st /\ v.want = w.want
    BY <1>0, <2>1 DEF Worlds, Deaths
  <2>3. Alike(w, v)
    BY <2>2 DEF Alike
  <2> HIDE DEF v
  <2> QED BY <1>1, <2>2, <2>3, AlikeIsSound DEF v
<1>2. CASE w.st[h].state = "ready"
  <2> DEFINE n == w.st[h].news \/ w.st[h].cork # b
             x == [w.st[h] EXCEPT !.cork = b, !.news = n]
  <2>1. v = [w EXCEPT !.st = [w.st EXCEPT ![h] = x]]
    BY <1>0, <1>2, ZenonT(60) DEF SetStreamPause, Worlds, StreamStates
  <2>2. n \in BOOLEAN
    OBVIOUS
  <2> HIDE DEF n
  <2>3. /\ x \in StreamStates /\ x.cork = b /\ x.news = n
        /\ x.made = w.st[h].made /\ x.live = w.st[h].live /\ x.fmt = w.st[h].fmt
        /\ x.state = w.st[h].state /\ x.req = w.st[h].req /\ x.drain = w.st[h].drain
        /\ x.buf = w.st[h].buf /\ x.fed = w.st[h].fed /\ x.owed = w.st[h].owed
        /\ x.mute = w.st[h].mute
    BY <1>0, <2>2 DEF StreamStates
  <2> HIDE DEF x
  <2>4. /\ v \in Worlds /\ v.c = w.c /\ v.want = w.want /\ v.dead = w.dead
        /\ \A s \in Streams : v.st[s] = IF s = h THEN x ELSE w.st[s]
    BY <1>0, <2>1, <2>3 DEF Worlds
  <2> HIDE DEF v
  <2>5. Alike(w, v)
    BY <2>3, <2>4 DEF Alike
  <2>6. v.st[h] = x
    BY <1>0, <2>4
  <2>7. Sound(v)
    BY <1>0, <2>4, <2>5, AlikeIsSound
  <2> QED BY <2>3, <2>4, <2>5, <2>6, <2>7 DEF n, v
<1> QED BY <1>1, <1>2

LEMMA MuteIs ==
  ASSUME NEW w, Sound(w), Len(w.c.streams) > 0, NEW b \in BOOLEAN
  PROVE  LET h == FirstOf(w)
             v == SetStreamMute(w, h, b)
         IN /\ Sound(v) /\ Alike(w, v) /\ v.st[h].cork = w.st[h].cork /\ v.dead = w.dead
            /\ w.st[h].state = "ready" => /\ v.st[h].mute = b
                                          /\ v.st[h].news <=> w.st[h].news \/ w.st[h].mute # b
<1> DEFINE h == FirstOf(w)
           v == SetStreamMute(w, h, b)
<1>0. /\ w \in Worlds /\ w.c \in Contexts /\ w.st \in [Streams -> StreamStates] /\ h \in Streams
      /\ w.dead \in Deaths \cup {NULL} /\ w.dead # "assertion" /\ w.st[h] \in StreamStates
  BY PlayingIs DEF Sound, Worlds
<1>1. CASE w.st[h].state # "ready"
  <2>1. v = w
    BY <1>1 DEF SetStreamMute
  <2> QED BY <1>1, <2>1 DEF Alike
<1>2. CASE w.st[h].state = "ready"
  <2> DEFINE n == w.st[h].news \/ w.st[h].mute # b
             x == [w.st[h] EXCEPT !.mute = b, !.news = n]
  <2>1. v = [w EXCEPT !.st = [w.st EXCEPT ![h] = x]]
    BY <1>0, <1>2, ZenonT(60) DEF SetStreamMute, Worlds, StreamStates
  <2>2. n \in BOOLEAN
    OBVIOUS
  <2> HIDE DEF n
  <2>3. /\ x \in StreamStates /\ x.mute = b /\ x.news = n
        /\ x.made = w.st[h].made /\ x.live = w.st[h].live /\ x.fmt = w.st[h].fmt
        /\ x.state = w.st[h].state /\ x.req = w.st[h].req /\ x.drain = w.st[h].drain
        /\ x.buf = w.st[h].buf /\ x.fed = w.st[h].fed /\ x.owed = w.st[h].owed
        /\ x.cork = w.st[h].cork
    BY <1>0, <2>2 DEF StreamStates
  <2> HIDE DEF x
  <2>4. /\ v \in Worlds /\ v.c = w.c /\ v.want = w.want /\ v.dead = w.dead
        /\ \A s \in Streams : v.st[s] = IF s = h THEN x ELSE w.st[s]
    BY <1>0, <2>1, <2>3 DEF Worlds
  <2> HIDE DEF v
  <2>5. Alike(w, v)
    BY <2>3, <2>4 DEF Alike
  <2>6. v.st[h] = x
    BY <1>0, <2>4
  <2>7. Sound(v)
    BY <1>0, <2>4, <2>5, AlikeIsSound
  <2> QED BY <2>3, <2>4, <2>5, <2>6, <2>7 DEF n, v
<1> QED BY <1>1, <1>2

\* The stream that is heard, whichever that now is, gets the context's flags.
LEMMA FlagsAre ==
  ASSUME NEW w, Sound(w), Len(w.c.streams) > 0
  PROVE  LET h == FirstOf(w)
             v == SetStreamPause(SetStreamMute(w, h, w.c.mute), h, w.c.paused)
         IN /\ Sound(v) /\ Alike(w, v)
            /\ \A s \in Streams :
                 v.st[s].live /\ v.st[s].state = "ready" /\ ~v.st[s].news
                   => w.st[s].live /\ w.st[s].state = "ready" /\ ~w.st[s].news
                      /\ v.st[s].cork = w.st[s].cork /\ v.st[s].mute = w.st[s].mute
            /\ v.st[h].state = "ready" => v.st[h].cork = w.c.paused /\ v.st[h].mute = w.c.mute
<1> DEFINE h == FirstOf(w)
           u == SetStreamMute(w, h, w.c.mute)
           v == SetStreamPause(u, h, w.c.paused)
<1>0. /\ w \in Worlds /\ w.c.mute \in BOOLEAN /\ w.c.paused \in BOOLEAN /\ h \in Streams
  BY PlayingIs DEF Sound, Worlds, Contexts
<1>1. /\ Sound(u) /\ Alike(w, u) /\ u.st[h].cork = w.st[h].cork
      /\ w.st[h].state = "ready" => /\ u.st[h].mute = w.c.mute
                                    /\ u.st[h].news <=> w.st[h].news \/ w.st[h].mute # w.c.mute
  BY <1>0, MuteIs
<1> HIDE DEF u
<1>2. Len(u.c.streams) > 0 /\ FirstOf(u) = h
  BY <1>1 DEF Alike, FirstOf
<1>3. /\ Sound(v) /\ Alike(u, v) /\ v.st[h].mute = u.st[h].mute
      /\ u.st[h].state = "ready" => /\ v.st[h].cork = w.c.paused
                                    /\ v.st[h].news <=> u.st[h].news \/ u.st[h].cork # w.c.paused
  BY <1>0, <1>1, <1>2, PauseIs
<1> HIDE DEF v, h
<1>4. Alike(w, v)
  BY <1>1, <1>2, <1>3 DEF Alike, h
<1>5. v.st[h].state = w.st[h].state /\ u.st[h].state = w.st[h].state /\ v.st[h].live = w.st[h].live
  BY <1>0, <1>1, <1>4 DEF Alike
<1>6. ASSUME v.st[h].live, v.st[h].state = "ready", ~v.st[h].news
      PROVE  w.st[h].live /\ w.st[h].state = "ready" /\ ~w.st[h].news
             /\ v.st[h].cork = w.st[h].cork /\ v.st[h].mute = w.st[h].mute
  BY <1>1, <1>3, <1>5, <1>6
<1>7. \A s \in Streams : s # h => v.st[s] = w.st[s]
  BY <1>4 DEF Alike, h
<1>8. v.st[h].state = "ready" => v.st[h].cork = w.c.paused /\ v.st[h].mute = w.c.mute
  BY <1>1, <1>3, <1>5
<1> QED BY <1>3, <1>4, <1>6, <1>7, <1>8 DEF u, v, h

\* What pulse_ctx_stream_drained does.
Drains(w, s, v) ==
  LET First == Len(w.c.streams) > 0 /\ s = FirstOf(w)
  IN /\ v.want = w.want
     /\ v.c.state = w.c.state /\ v.c.input = w.c.input /\ v.c.fmt = w.c.fmt
     /\ v.c.mute = w.c.mute /\ v.c.paused = w.c.paused
     /\ First => /\ Len(v.c.streams) = Len(w.c.streams) - 1
                 /\ \A i \in 1 .. Len(w.c.streams) - 1 : v.c.streams[i] = w.c.streams[i + 1]
     /\ ~First => v.c.streams = w.c.streams
     /\ \A x \in Streams :
          \/ First /\ x = s
          \/ /\ v.st[x].live = w.st[x].live /\ v.st[x].made = w.st[x].made
             /\ v.st[x].fmt = w.st[x].fmt /\ v.st[x].state = w.st[x].state
             /\ v.st[x].req = w.st[x].req /\ v.st[x].drain = w.st[x].drain
             /\ v.st[x].buf = w.st[x].buf /\ v.st[x].fed = w.st[x].fed
             /\ v.st[x].owed = w.st[x].owed

LEMMA DrainedIs ==
  ASSUME NEW w, Sound(w), NEW s \in Streams
  PROVE  LET v == Drained(w, s) IN Sound(v) /\ Tells(w, v) /\ Drains(w, s, v)
<1> DEFINE v == Drained(w, s)
           First == Len(w.c.streams) > 0 /\ s = FirstOf(w)
           u == IF s = Playing(w) THEN [FreeStream(w, s) EXCEPT !.c.streams = Tail(@)] ELSE w
<1>0. w \in Worlds /\ Len(w.c.streams) \in Nat /\ s # NULL
      /\ w.c \in Contexts /\ w.st \in [Streams -> StreamStates]
  BY PlayingIs DEF Sound, Worlds
<1>1. s = Playing(w) <=> First
  BY <1>0, PlayingIs
<1>2. ~First => u = w
  BY <1>1
<1>3. First => u = [FreeStream(w, FirstOf(w)) EXCEPT !.c.streams = Tail(@)]
  BY <1>1
<1>4. v = IF Playing(u) = NULL THEN u
          ELSE SetStreamPause(SetStreamMute(u, Playing(u), u.c.mute), Playing(u), u.c.paused)
  BY DEF Drained
<1> HIDE DEF u, v
<1>5. Sound(u)
  <2>1. CASE First
    <3>1. Len(w.c.streams) > 0 /\ u = [FreeStream(w, FirstOf(w)) EXCEPT !.c.streams = Tail(@)]
      BY <1>3, <2>1
    <3> QED BY <3>1, FreeHead
  <2> QED BY <1>2, <2>1
<1>6. u \in Worlds
  BY <1>5 DEF Sound
\* Either nothing is heard any more, or the flags are set.
<1>7. \/ /\ Len(u.c.streams) = 0 /\ v = u
      \/ /\ Len(u.c.streams) > 0 /\ Sound(v) /\ Alike(u, v)
         /\ v.c = u.c /\ FirstOf(v) = FirstOf(u) /\ v.want = u.want /\ FirstOf(u) \in Streams
         /\ \A x \in Streams :
              v.st[x].live /\ v.st[x].state = "ready" /\ ~v.st[x].news
                => u.st[x].live /\ u.st[x].state = "ready" /\ ~u.st[x].news
                   /\ v.st[x].cork = u.st[x].cork /\ v.st[x].mute = u.st[x].mute
         /\ v.st[FirstOf(u)].state = "ready" => v.st[FirstOf(u)].cork = u.c.paused
                                              /\ v.st[FirstOf(u)].mute = u.c.mute
  <2>1. Len(u.c.streams) \in Nat
    BY <1>6, PlayingIs
  <2>2. CASE Len(u.c.streams) = 0
    BY <1>4, <1>6, <2>2, PlayingIs
  <2>3. CASE Len(u.c.streams) > 0
    <3>1. Playing(u) = FirstOf(u) /\ Playing(u) # NULL /\ FirstOf(u) \in Streams
      BY <1>6, <2>3, PlayingIs
    <3>2. v = SetStreamPause(SetStreamMute(u, FirstOf(u), u.c.mute), FirstOf(u), u.c.paused)
      BY <1>4, <3>1
    <3>3. v.c = u.c /\ FirstOf(v) = FirstOf(u) /\ v.want = u.want
      BY <1>5, <2>3, <3>2, FlagsAre DEF Alike, FirstOf
    <3>4. LET h == FirstOf(u)
              x == SetStreamPause(SetStreamMute(u, h, u.c.mute), h, u.c.paused)
          IN /\ Sound(x) /\ Alike(u, x)
             /\ \A y \in Streams :
                  x.st[y].live /\ x.st[y].state = "ready" /\ ~x.st[y].news
                    => u.st[y].live /\ u.st[y].state = "ready" /\ ~u.st[y].news
                       /\ x.st[y].cork = u.st[y].cork /\ x.st[y].mute = u.st[y].mute
             /\ x.st[h].state = "ready" => x.st[h].cork = u.c.paused /\ x.st[h].mute = u.c.mute
      BY <1>5, <2>3, FlagsAre, Zenon
    <3> QED BY <2>3, <3>1, <3>2, <3>3, <3>4, Zenon
  <2> QED BY <2>1, <2>2, <2>3
<1>8. CASE First
  <2>2. /\ u.c = [w.c EXCEPT !.streams = Tail(w.c.streams)] /\ u.st = [w.st EXCEPT ![s] = Freed]
        /\ u.want = w.want
        /\ Len(u.c.streams) = Len(w.c.streams) - 1
        /\ \A i \in 1 .. Len(w.c.streams) - 1 : u.c.streams[i] = w.c.streams[i + 1]
    <3>1. /\ Len(w.c.streams) > 0 /\ s = FirstOf(w)
          /\ u = [FreeStream(w, FirstOf(w)) EXCEPT !.c.streams = Tail(@)]
      BY <1>3, <1>8
    <3> QED BY <3>1, FreeHead
  <2>3. /\ u.c.state = w.c.state /\ u.c.input = w.c.input /\ u.c.fmt = w.c.fmt
        /\ u.c.mute = w.c.mute /\ u.c.paused = w.c.paused
    BY <1>0, <2>2 DEF Contexts
  <2>4. \A x \in Streams : u.st[x] = IF x = s THEN Freed ELSE w.st[x]
    BY <1>0, <2>2
  <2>5. Sound(v) /\ v.c = u.c /\ v.want = u.want
    BY <1>5, <1>7
  <2>6. Tells(w, v)
    <3>1. CASE Len(u.c.streams) = 0 /\ v = u
      BY <2>4, <3>1, FreedIs DEF Tells
    <3>2. CASE Len(u.c.streams) > 0
      BY <1>7, <2>4, <3>2, FreedIs DEF Tells
    <3> QED BY <1>7, <3>1, <3>2
  <2>7. \A x \in Streams : x # s => u.st[x] = w.st[x]
    BY <2>4
  <2>8. Alike(u, v)
    BY <1>7 DEF Alike
  <2>9. \A x \in Streams :
          \/ First /\ x = s
          \/ /\ v.st[x].live = w.st[x].live /\ v.st[x].made = w.st[x].made
             /\ v.st[x].fmt = w.st[x].fmt /\ v.st[x].state = w.st[x].state
             /\ v.st[x].req = w.st[x].req /\ v.st[x].drain = w.st[x].drain
             /\ v.st[x].buf = w.st[x].buf /\ v.st[x].fed = w.st[x].fed
             /\ v.st[x].owed = w.st[x].owed
    BY <1>8, <2>7, <2>8 DEF Alike
  <2>10. Drains(w, s, v)
    BY <1>8, <2>2, <2>3, <2>5, <2>9 DEF Drains
  <2> QED BY <2>5, <2>6, <2>10 DEF v
<1>9. CASE ~First
  <2>1. u = w
    BY <1>2, <1>9
  <2>2. Sound(v) /\ v.c = w.c /\ v.want = w.want
    BY <1>5, <1>7, <2>1
  <2>3. Tells(w, v)
    BY <1>7, <2>1 DEF Tells
  <2>4. Drains(w, s, v)
    <3>1. \/ v = w
          \/ Alike(w, v)
      BY <1>7, <2>1
    <3>2. \A x \in Streams :
             /\ v.st[x].live = w.st[x].live /\ v.st[x].made = w.st[x].made
             /\ v.st[x].fmt = w.st[x].fmt /\ v.st[x].state = w.st[x].state
             /\ v.st[x].req = w.st[x].req /\ v.st[x].drain = w.st[x].drain
             /\ v.st[x].buf = w.st[x].buf /\ v.st[x].fed = w.st[x].fed
             /\ v.st[x].owed = w.st[x].owed
      BY <3>1 DEF Alike
    <3> HIDE DEF First
    <3> QED BY ONLY <1>9, <2>2, <3>2 DEF Drains, First
  <2> QED BY <2>2, <2>3, <2>4 DEF v
<1> QED BY <1>8, <1>9

LEMMA SetDrainReady ==
  ASSUME NEW w, Sound(w), NEW s \in Streams, w.st[s].state = "ready", NEW b \in BOOLEAN
  PROVE  LET v == SetDrain(w, s, b)
         IN /\ Sound(v) /\ v.c = w.c /\ v.want = w.want /\ v.dead = w.dead
            /\ \A x \in Streams :
                 /\ v.st[x].made = w.st[x].made /\ v.st[x].live = w.st[x].live
                 /\ v.st[x].fmt = w.st[x].fmt /\ v.st[x].state = w.st[x].state
                 /\ v.st[x].req = w.st[x].req /\ v.st[x].buf = w.st[x].buf
                 /\ v.st[x].cork = w.st[x].cork /\ v.st[x].mute = w.st[x].mute
                 /\ v.st[x].fed = w.st[x].fed /\ v.st[x].owed = w.st[x].owed
                 /\ v.st[x].news = w.st[x].news
                 /\ x # s => v.st[x].drain = w.st[x].drain
            /\ v.st[s].drain = b
<1> DEFINE y == [w.st[s] EXCEPT !.drain = b]
           v == SetDrain(w, s, b)
<1>0. /\ w \in Worlds /\ w.c \in Contexts /\ w.st \in [Streams -> StreamStates]
      /\ w.st[s] \in StreamStates
  BY DEF Sound, Worlds
<1>1. v = [w EXCEPT !.st = [w.st EXCEPT ![s] = y]]
  BY <1>0 DEF SetDrain, Worlds, StreamStates
<1>2. /\ y \in StreamStates /\ y.drain = b
      /\ y.made = w.st[s].made /\ y.live = w.st[s].live
      /\ y.fmt = w.st[s].fmt /\ y.state = w.st[s].state
      /\ y.req = w.st[s].req /\ y.buf = w.st[s].buf
      /\ y.cork = w.st[s].cork /\ y.mute = w.st[s].mute
      /\ y.fed = w.st[s].fed /\ y.owed = w.st[s].owed
      /\ y.news = w.st[s].news
  BY <1>0 DEF StreamStates
<1> HIDE DEF y
<1>3. /\ v \in Worlds /\ v.c = w.c /\ v.want = w.want /\ v.dead = w.dead
      /\ \A x \in Streams : v.st[x] = IF x = s THEN y ELSE w.st[x]
  BY <1>0, <1>1, <1>2 DEF Worlds
<1> HIDE DEF v
<1>4. \A x \in Streams :
        /\ v.st[x].made = w.st[x].made /\ v.st[x].live = w.st[x].live
        /\ v.st[x].fmt = w.st[x].fmt /\ v.st[x].state = w.st[x].state
        /\ v.st[x].req = w.st[x].req /\ v.st[x].buf = w.st[x].buf
        /\ v.st[x].cork = w.st[x].cork /\ v.st[x].mute = w.st[x].mute
        /\ v.st[x].fed = w.st[x].fed /\ v.st[x].owed = w.st[x].owed
        /\ v.st[x].news = w.st[x].news
        /\ x # s => v.st[x].drain = w.st[x].drain
  BY <1>2, <1>3
<1>5. Listed(v.c, v.st)
  BY <1>3, <1>4, SMTT(20) DEF Sound, Listed
<1>6. Idle(v.st)
  <2>1. \A x \in Streams : v.st[x].state = "connecting" => ~v.st[x].drain
    BY <1>4 DEF Sound, Idle
  <2> QED BY <1>4, <2>1 DEF Sound, Idle
<1>7. Behind(v.c, v.st)
  <2> SUFFICES ASSUME NEW i \in 1 .. Len(w.c.streams), i > 1
               PROVE  /\ v.st[w.c.streams[i]].cork
                      /\ v.st[w.c.streams[i]].fed => v.st[w.c.streams[i]].buf > 0
    BY <1>3 DEF Behind
  <2>1. w.c.streams[i] \in Streams
    BY <1>0, PlayingIs
  <2>2. /\ w.st[w.c.streams[i]].cork
        /\ w.st[w.c.streams[i]].fed => w.st[w.c.streams[i]].buf > 0
    BY DEF Sound, Behind
  <2>3. /\ v.st[w.c.streams[i]].cork = w.st[w.c.streams[i]].cork
        /\ v.st[w.c.streams[i]].fed = w.st[w.c.streams[i]].fed
        /\ v.st[w.c.streams[i]].buf = w.st[w.c.streams[i]].buf
    BY <1>4, <2>1
  <2> QED BY <2>2, <2>3
<1>8. v.st[s].drain = b
  BY <1>2, <1>3
<1> QED BY <1>3, <1>4, <1>5, <1>6, <1>7, <1>8 DEF Sound, v

\* What pulse_ctx_create_input_stream does: a stream that is not ready is added.
Creates(w, f, v) ==
  /\ v.c.state = w.c.state /\ v.c.mute = w.c.mute /\ v.c.paused = w.c.paused
  /\ v.c.fmt = f /\ v.want = FALSE
  /\ Len(v.c.streams) = Len(w.c.streams) + 1
  /\ \A i \in 1 .. Len(w.c.streams) : v.c.streams[i] = w.c.streams[i]
  /\ v.c.input = v.c.streams[Len(w.c.streams) + 1]
  /\ v.c.input \in Streams /\ ~w.st[v.c.input].made
  /\ \A x \in Streams : x # v.c.input => v.st[x] = w.st[x]
  /\ v.st[v.c.input].state = "connecting" /\ v.st[v.c.input].fmt = f

LEMMA CreateIs ==
  ASSUME NEW w, Sound(w), w.c.state = "ready", NEW f \in Formats,
         \E s \in Streams : ~w.st[s].made
  PROVE  LET v == CreateInput(w, f) IN Sound(v) /\ Creates(w, f, v)
<1> DEFINE s == CHOOSE i \in Streams : ~w.st[i].made /\ \A j \in 1 .. i - 1 : w.st[j].made
           new == [NoStream EXCEPT !.made = TRUE, !.live = TRUE, !.fmt = f,
                                   !.cork = w.c.streams # <<>> \/ w.c.paused]
           v == CreateInput(w, f)
           n == Len(w.c.streams)
<1>0. /\ w \in Worlds /\ w.c \in Contexts /\ w.st \in [Streams -> StreamStates]
      /\ w.c.streams \in Seq(Streams) /\ n \in Nat /\ DOMAIN w.c.streams = 1 .. n
      /\ \A i \in 1 .. n : w.c.streams[i] \in Streams
      /\ MaxStreams \in Nat /\ w.c.paused \in BOOLEAN
  BY PlayingIs DEF Sound, Worlds, Contexts
<1>1. s \in Streams /\ ~w.st[s].made /\ \A j \in 1 .. s - 1 : w.st[j].made
  <2>1. PICK k \in 0 .. MaxStreams : \A i \in Streams : w.st[i].made <=> i <= k
    BY DEF Sound, Listed
  <2>2. k + 1 \in Streams /\ ~w.st[k + 1].made /\ \A j \in 1 .. (k + 1) - 1 : w.st[j].made
    <3>1. PICK r \in Streams : ~w.st[r].made
      OBVIOUS
    <3>2. k < r /\ r \in 1 .. MaxStreams /\ k \in Nat
      BY <1>0, <2>1, <3>1 DEF Streams
    <3>3. k + 1 \in Streams
      BY <1>0, <3>2 DEF Streams
    <3>4. \A j \in 1 .. (k + 1) - 1 : j \in Streams /\ j <= k
      BY <1>0, <3>2 DEF Streams
    <3>5. ~(k + 1 <= k)
      BY <3>2
    <3> QED BY <2>1, <3>3, <3>4, <3>5
  <2> QED BY <2>2
<1> HIDE DEF s
<1>2. /\ new \in StreamStates
      /\ new.made /\ new.live /\ new.fmt = f /\ new.state = "connecting" /\ new.req = 0
      /\ ~new.drain /\ new.buf = 0 /\ ~new.fed
      /\ n > 0 => new.cork
  <2> DEFINE k == w.c.streams # <<>> \/ w.c.paused
  <2>1. k \in BOOLEAN /\ (n > 0 => k)
    BY <1>0
  <2> HIDE DEF k
  <2>2. new = [NoStream EXCEPT !.made = TRUE, !.live = TRUE, !.fmt = f, !.cork = k]
    BY DEF k
  <2>3. NoStream \in StreamStates
    BY FreedIs
  <2> HIDE DEF new
  <2>4. new \in StreamStates
    BY <2>1, <2>2, <2>3 DEF StreamStates
  <2>5. /\ new.made /\ new.live /\ new.fmt = f /\ new.state = "connecting" /\ new.req = 0
        /\ ~new.drain /\ new.buf = 0 /\ ~new.fed /\ new.cork = k
    BY <2>2 DEF NoStream
  <2> QED BY <2>1, <2>4, <2>5
<1>3. v = [SetInput([w EXCEPT !.st[s] = new], s) EXCEPT !.c.streams = Append(@, s)]
  BY DEF CreateInput, s
<1> HIDE DEF new
<1>4. /\ Append(w.c.streams, s) \in Seq(Streams) /\ Len(Append(w.c.streams, s)) = n + 1
      /\ \A i \in 1 .. n : Append(w.c.streams, s)[i] = w.c.streams[i]
      /\ Append(w.c.streams, s)[n + 1] = s
  BY <1>0, <1>1, AppendProperties
<1>5. v = [c    |-> [w.c EXCEPT !.input = s, !.fmt = f, !.streams = Append(w.c.streams, s)],
           st   |-> [w.st EXCEPT ![s] = new],
           want |-> FALSE,
           dead |-> w.dead]
  BY <1>0, <1>1, <1>2, <1>3 DEF SetInput, Worlds, Contexts
<1> HIDE DEF v
<1>6. v \in Worlds
  BY <1>0, <1>1, <1>2, <1>4, <1>5 DEF Worlds, Contexts
<1>7. /\ v.c.state = w.c.state /\ v.c.mute = w.c.mute /\ v.c.paused = w.c.paused
      /\ v.c.fmt = f /\ v.c.input = s /\ v.c.streams = Append(w.c.streams, s)
      /\ v.want = FALSE /\ v.dead = w.dead
      /\ \A x \in Streams : v.st[x] = IF x = s THEN new ELSE w.st[x]
  BY <1>0, <1>1, <1>5 DEF Contexts
<1>8. Creates(w, f, v)
  BY <1>0, <1>1, <1>2, <1>4, <1>7 DEF Creates
<1>9. Listed(v.c, v.st)
  <2>0. Listed(w.c, w.st)
    BY DEF Sound
  <2>1. \A x \in Streams : v.st[x].made <=> x <= s
    <3>1. PICK k \in 0 .. MaxStreams : \A i \in Streams : w.st[i].made <=> i <= k
      BY <2>0 DEF Listed
    <3>2. k = s - 1
      <4>1. s > k
        BY <1>1, <3>1 DEF Streams
      <4>2. CASE s > 1
        <5>1. s - 1 \in Streams /\ s - 1 \in 1 .. s - 1
          BY <1>0, <1>1, <4>2 DEF Streams
        <5> QED BY <1>1, <3>1, <4>1, <5>1 DEF Streams
      <4>3. CASE s = 1
        BY <4>1, <4>3
      <4> QED BY <1>1, <4>2, <4>3 DEF Streams
    <3> QED BY <1>1, <1>2, <1>7, <3>1, <3>2 DEF Streams
  <2>2. s \in 0 .. MaxStreams
    BY <1>0, <1>1 DEF Streams
  <2>3. \A i \in 1 .. n : w.st[w.c.streams[i]].made /\ w.c.streams[i] # s /\ w.c.streams[i] < s
    <3> SUFFICES ASSUME NEW i \in 1 .. n
                 PROVE  w.st[w.c.streams[i]].made /\ w.c.streams[i] # s /\ w.c.streams[i] < s
      OBVIOUS
    <3>1. w.c.streams[i] \in Streams /\ w.st[w.c.streams[i]].made
      BY <1>0, <2>0 DEF Listed
    <3>2. w.c.streams[i] # s
      BY <1>1, <3>1
    <3>3. w.c.streams[i] <= s
      BY <1>7, <2>1, <3>1, <3>2
    <3> QED BY <1>1, <3>1, <3>2, <3>3 DEF Streams
  <2>4. \A x \in Streams : v.st[x].live => v.st[x].made /\ v.st[x].fmt # NULL
    BY <1>2, <1>7, <2>0 DEF Listed
  <2>5. \A i, j \in 1 .. n + 1 : i < j => v.c.streams[i] < v.c.streams[j]
    <3> SUFFICES ASSUME NEW i \in 1 .. n + 1, NEW j \in 1 .. n + 1, i < j
                 PROVE  v.c.streams[i] < v.c.streams[j]
      OBVIOUS
    <3>1. i \in 1 .. n /\ v.c.streams[i] = w.c.streams[i]
      BY <1>0, <1>4, <1>7
    <3>2. CASE j = n + 1
      BY <1>4, <1>7, <2>3, <3>1, <3>2
    <3>3. CASE j # n + 1
      <4>1. j \in 1 .. n /\ v.c.streams[j] = w.c.streams[j]
        BY <1>0, <1>4, <1>7, <3>3
      <4> QED BY <2>0, <3>1, <4>1 DEF Listed
    <3> QED BY <3>2, <3>3
  <2>6. \A x \in Streams : v.st[x].live <=> \E i \in 1 .. n + 1 : v.c.streams[i] = x
    <3> SUFFICES ASSUME NEW x \in Streams
                 PROVE  v.st[x].live <=> \E i \in 1 .. n + 1 : v.c.streams[i] = x
      OBVIOUS
    <3>1. CASE x = s
      <4>1. n + 1 \in 1 .. n + 1
        BY <1>0
      <4> QED BY <1>2, <1>4, <1>7, <3>1, <4>1
    <3>2. CASE x # s
      <4>1. v.st[x].live <=> \E i \in 1 .. n : w.c.streams[i] = x
        BY <1>7, <2>0, <3>2 DEF Listed
      <4>2. \A i \in 1 .. n + 1 : v.c.streams[i] = x => i \in 1 .. n /\ v.c.streams[i] = w.c.streams[i]
        BY <1>0, <1>4, <1>7, <3>2
      <4>3. \A i \in 1 .. n : i \in 1 .. n + 1 /\ v.c.streams[i] = w.c.streams[i]
        BY <1>0, <1>4, <1>7
      <4> QED BY <4>1, <4>2, <4>3
    <3> QED BY <3>1, <3>2
  <2>7. Len(v.c.streams) = n + 1 /\ v.c.state = "ready"
    BY <1>4, <1>7
  <2> QED BY <2>1, <2>2, <2>4, <2>5, <2>6, <2>7 DEF Listed
<1>10. Idle(v.st)
  BY <1>2, <1>7 DEF Sound, Idle
<1>11. Behind(v.c, v.st)
  <2> SUFFICES ASSUME NEW i \in 1 .. Len(v.c.streams), i > 1
               PROVE  /\ v.st[v.c.streams[i]].cork
                      /\ v.st[v.c.streams[i]].fed => v.st[v.c.streams[i]].buf > 0
    BY DEF Behind
  <2>1. CASE i = n + 1
    BY <1>0, <1>1, <1>2, <1>4, <1>7, <2>1, SMTT(40)
  <2>2. CASE i # n + 1
    <3>1. i \in 1 .. n /\ v.c.streams[i] = w.c.streams[i] /\ w.c.streams[i] \in Streams
      BY <1>0, <1>4, <1>7, <2>2
    <3>2. w.c.streams[i] # s
      BY <1>1, <3>1 DEF Sound, Listed
    <3> QED BY <1>7, <3>1, <3>2 DEF Sound, Behind
  <2> QED BY <2>1, <2>2
<1> QED BY <1>6, <1>7, <1>8, <1>9, <1>10, <1>11 DEF Sound, v

\* The stream that is heard is told to drain, or freed.
MakesWay(t) == t.drain \/ t.owed \/ (t.fed => t.buf > 0)

Ended(w, v) ==
  /\ v.want = w.want
  /\ v.c.state = w.c.state /\ v.c.input = w.c.input /\ v.c.fmt = w.c.fmt
  /\ v.c.mute = w.c.mute /\ v.c.paused = w.c.paused
  /\ \A x \in Streams : ~w.st[x].made => ~v.st[x].made
  /\ Len(v.c.streams) > 0 => MakesWay(v.st[FirstOf(v)])

LEMMA EndIs ==
  ASSUME NEW w, Sound(w), Len(w.c.streams) > 0
  PROVE  LET v == SetDrain(w, FirstOf(w), TRUE)
         IN Sound(v) /\ Ended(w, v) /\ Tells(w, v) /\ Spares(w, v)
<1> DEFINE h == FirstOf(w)
           v == SetDrain(w, h, TRUE)
<1>0. w \in Worlds /\ h \in Streams /\ Len(w.c.streams) \in Nat
  BY PlayingIs DEF Sound
<1>1. CASE w.st[h].state = "ready"
  <2>1. /\ Sound(v) /\ v.c = w.c /\ v.want = w.want
        /\ \A x \in Streams :
             /\ v.st[x].made = w.st[x].made /\ v.st[x].live = w.st[x].live
             /\ v.st[x].state = w.st[x].state
             /\ v.st[x].cork = w.st[x].cork /\ v.st[x].mute = w.st[x].mute
             /\ v.st[x].news = w.st[x].news
        /\ v.st[h].drain = TRUE
    <3> HIDE DEF h, v
    <3>1. \A b \in BOOLEAN :
            LET u == SetDrain(w, h, b)
            IN /\ Sound(u) /\ u.c = w.c /\ u.want = w.want
               /\ \A x \in Streams :
                    /\ u.st[x].made = w.st[x].made /\ u.st[x].live = w.st[x].live
                    /\ u.st[x].state = w.st[x].state
                    /\ u.st[x].cork = w.st[x].cork /\ u.st[x].mute = w.st[x].mute
                    /\ u.st[x].news = w.st[x].news
               /\ u.st[h].drain = b
      BY <1>0, <1>1, SetDrainReady
    <3> QED BY <3>1, Zenon DEF v
  <2> HIDE DEF v
  <2>2. FirstOf(v) = h
    BY <2>1 DEF FirstOf
  <2>3. v.st[h].drain
    BY <1>0, <2>1
  <2>4. Ended(w, v)
    BY <2>1, <2>2, <2>3 DEF Ended, MakesWay
  <2>5. Tells(w, v)
    BY <1>0, <2>1, <2>2 DEF Tells
  <2>6. Spares(w, v)
    BY <2>1 DEF Spares
  <2> QED BY <2>1, <2>4, <2>5, <2>6 DEF v, h
<1>2. CASE w.st[h].state # "ready"
  <2>1. v = Drained(w, h)
    BY <1>2 DEF SetDrain
  <2>2. Sound(v) /\ Tells(w, v) /\ Drains(w, h, v)
    BY <1>0, <2>1, DrainedIs
  <2> HIDE DEF v
  <2>3. w.st[h].live /\ w.st[h].made
    BY <1>0 DEF Sound, Listed, FirstOf
  <2>4. w.st[h].buf = 0
    <3>1. w.st[h].state = "connecting"
      BY <1>0, <1>2 DEF Worlds, StreamStates
    <3> QED BY <1>0, <3>1 DEF Sound, Idle
  <2>5. /\ Len(v.c.streams) = Len(w.c.streams) - 1
        /\ \A i \in 1 .. Len(w.c.streams) - 1 : v.c.streams[i] = w.c.streams[i + 1]
    BY <2>2 DEF Drains, h
  <2>6. \A x \in Streams : x # h =>
          /\ v.st[x].live = w.st[x].live /\ v.st[x].made = w.st[x].made
          /\ v.st[x].buf = w.st[x].buf /\ v.st[x].fed = w.st[x].fed
    BY <2>2 DEF Drains
  <2>7. Spares(w, v)
    BY <2>4, <2>6 DEF Spares
  <2>8. ASSUME Len(v.c.streams) > 0 PROVE MakesWay(v.st[FirstOf(v)])
    <3>1. 2 \in 1 .. Len(w.c.streams) /\ FirstOf(v) = w.c.streams[2]
      BY <1>0, <2>5, <2>8 DEF FirstOf
    <3>2. FirstOf(v) \in Streams /\ FirstOf(v) # h
      BY <1>0, <3>1, HeardIsFirst, PlayingIs DEF h
    <3>3. w.st[FirstOf(v)].fed => w.st[FirstOf(v)].buf > 0
      BY <3>1 DEF Sound, Behind
    <3> QED BY <2>6, <3>2, <3>3 DEF MakesWay
  <2>9. \A x \in Streams : ~w.st[x].made => ~v.st[x].made
    BY <2>3, <2>6
  <2>10. Ended(w, v)
    BY <2>2, <2>8, <2>9 DEF Drains, Ended
  <2> QED BY <2>2, <2>7, <2>10 DEF v, h
<1> QED BY <1>1, <1>2

LEMMA CreateKeeps ==
  ASSUME NEW w, NEW b, Sound(b), NEW f \in Formats, NEW v, Sound(v), Creates(b, f, v),
         Tells(w, b), Len(b.c.streams) > 0 => MakesWay(b.st[FirstOf(b)])
  PROVE  /\ Tells(w, v)
         /\ Spares(w, b) => Spares(w, v)
         /\ InputIsLast(v.c, v.st) /\ Wanted(v.c, v.st, v.want) /\ Yields(v.c, v.st)
<1> DEFINE n == Len(b.c.streams)
           s == v.c.input
<1>0. b \in Worlds /\ v \in Worlds /\ n \in Nat
  BY PlayingIs DEF Sound
<1>1. /\ v.c.fmt = f /\ v.want = FALSE /\ v.c.paused = b.c.paused /\ v.c.mute = b.c.mute
      /\ Len(v.c.streams) = n + 1 /\ s = v.c.streams[n + 1]
      /\ \A i \in 1 .. n : v.c.streams[i] = b.c.streams[i]
      /\ s \in Streams /\ ~b.st[s].made
      /\ \A x \in Streams : x # s => v.st[x] = b.st[x]
      /\ v.st[s].state = "connecting" /\ v.st[s].fmt = f
  BY DEF Creates
<1>2. Tells(w, v) /\ Yields(v.c, v.st)
  <2>1. CASE n = 0
    <3>1. FirstOf(v) = s /\ v.c.streams[1] = s /\ v.st[s].state # "ready"
      BY <1>1, <2>1 DEF FirstOf
    <3> HIDE DEF n, s
    <3>2. Tells(w, v)
      BY <1>1, <3>1, SMTT(40) DEF Tells
    <3>3. Yields(v.c, v.st)
      BY <3>1 DEF Yields, s
    <3> QED BY <3>2, <3>3
  <2>2. CASE n # 0
    <3>0. n > 0 /\ 1 \in 1 .. n
      BY <1>0, <2>2
    <3>1. n > 0 /\ FirstOf(v) = FirstOf(b) /\ FirstOf(b) \in Streams /\ v.c.streams[1] = FirstOf(b)
      <4>1. v.c.streams[1] = b.c.streams[1]
        BY <1>1, <3>0
      <4>2. FirstOf(b) \in Streams
        BY <1>0, <3>0, PlayingIs
      <4> QED BY <3>0, <4>1, <4>2 DEF FirstOf
    <3>2. b.st[FirstOf(b)].made
      BY <3>1 DEF Sound, Listed, FirstOf
    <3>3. FirstOf(b) # s /\ v.st[FirstOf(b)] = b.st[FirstOf(b)]
      BY <1>1, <3>1, <3>2
    <3>4. Len(b.c.streams) > 0 /\ Len(v.c.streams) > 0
      <4>1. Len(v.c.streams) = n + 1
        BY <1>1
      <4> HIDE DEF n
      <4>2. n > 0 /\ Len(v.c.streams) > 0
        BY <1>0, <3>0, <4>1
      <4> QED BY <4>2 DEF n
    <3> HIDE DEF n, s
    <3>5. Tells(w, v)
      BY <1>1, <3>1, <3>3, <3>4 DEF Tells
    <3>6. Yields(v.c, v.st)
      BY <3>1, <3>3, <3>4 DEF Yields, MakesWay
    <3> QED BY <3>5, <3>6
  <2> QED BY <2>1, <2>2
<1>3. Spares(w, b) => Spares(w, v)
  <2>1. ~b.st[s].live
    BY <1>1 DEF Sound, Listed
  <2> QED BY <1>1, <2>1 DEF Spares
<1>4. InputIsLast(v.c, v.st)
  <2>1. ~v.st[s].drain
    BY <1>1 DEF Sound, Idle
  <2>2. Len(v.c.streams) > 0 /\ s = v.c.streams[Len(v.c.streams)]
    <3>1. Len(v.c.streams) = n + 1 /\ s = v.c.streams[n + 1]
      BY <1>1
    <3> HIDE DEF n, s
    <3> QED BY <1>0, <3>1
  <2>3. v.st[s].fmt = v.c.fmt
    BY <1>1
  <2> QED BY <2>1, <2>2, <2>3 DEF InputIsLast
<1>5. Wanted(v.c, v.st, v.want)
  BY <1>1 DEF Wanted
<1> QED BY <1>2, <1>3, <1>4, <1>5

\* What the end of a step owes its input and what is heard.
Whole(v) == InputIsLast(v.c, v.st) /\ Yields(v.c, v.st)

LEMMA FormatIs ==
  ASSUME NEW w, Sound(w), Whole(w), NEW f \in Formats \cup {NULL},
         w.c.state = "ready" /\ f # NULL /\ f # w.c.fmt => \E s \in Streams : ~w.st[s].made
  PROVE  LET v == SetInputFormat(w, f)
         IN /\ Sound(v) /\ Whole(v) /\ Tells(w, v) /\ Spares(w, v)
            /\ \/ Wanted(w.c, w.st, w.want) /\ (f # NULL \/ ~w.want)
               \/ w.c.state = "ready" /\ f # NULL /\ f # w.c.fmt
               => Wanted(v.c, v.st, v.want)
            /\ f = NULL => /\ v.c.state = w.c.state
                           /\ v.c.state = "ready" => v.c.fmt = NULL
                           /\ \A x \in Streams : ~w.st[x].made => ~v.st[x].made
<1> DEFINE v == SetInputFormat(w, f)
           d == IF Playing(w) = NULL THEN w ELSE SetDrain(w, Playing(w), TRUE)
           b == [d EXCEPT !.c.input = NULL, !.c.fmt = f]
<1>0. /\ w \in Worlds /\ w.c \in Contexts /\ w.st \in [Streams -> StreamStates]
      /\ w.dead \in Deaths \cup {NULL} /\ w.dead # "assertion" /\ Len(w.c.streams) \in Nat
      /\ w.c.state \in {"disabled", "enabled", "ready"}
  BY PlayingIs DEF Sound, Worlds, Contexts
<1>1. v = CASE w.c.state = "enabled"  -> [w EXCEPT !.c.fmt = f]
            [] w.c.state = "disabled" -> [w EXCEPT !.dead = "invalid state"]
            [] OTHER -> IF f # NULL /\ f = w.c.fmt THEN w
                        ELSE IF f = NULL THEN b ELSE CreateInput(b, f)
  BY DEF SetInputFormat
<1>2. /\ Sound(d) /\ Ended(w, d) /\ Tells(w, d) /\ Spares(w, d)
  <2>1. Len(w.c.streams) = 0 => d = w
    BY <1>0, PlayingIs
  <2>2. Len(w.c.streams) > 0 => d = SetDrain(w, FirstOf(w), TRUE)
    <3>1. Len(w.c.streams) > 0 => Playing(w) = FirstOf(w) /\ Playing(w) # NULL
      BY <1>0, PlayingIs
    <3> QED BY <3>1
  <2> HIDE DEF d
  <2>3. CASE Len(w.c.streams) = 0
    BY <2>1, <2>3 DEF Ended, Tells, Spares
  <2>4. CASE Len(w.c.streams) # 0
    <3>1. Len(w.c.streams) > 0
      BY <1>0, <2>4
    <3>2. d = SetDrain(w, FirstOf(w), TRUE)
      BY <2>2, <3>1, Zenon
    <3> QED BY <3>1, <3>2, EndIs
  <2> QED BY <2>3, <2>4
<1> HIDE DEF d
<1>3. /\ d \in Worlds /\ d.c \in Contexts
      /\ b = [d EXCEPT !.c = [d.c EXCEPT !.input = NULL, !.fmt = f]]
  BY <1>2 DEF Sound, Worlds
<1>4. /\ b \in Worlds /\ b.st = d.st /\ b.want = d.want /\ b.dead = d.dead
      /\ b.c.streams = d.c.streams /\ b.c.state = d.c.state /\ b.c.input = NULL /\ b.c.fmt = f
      /\ b.c.mute = d.c.mute /\ b.c.paused = d.c.paused
  BY <1>3 DEF Worlds, Contexts
<1> HIDE DEF b
<1>5. /\ Sound(b) /\ Tells(w, b) /\ Spares(w, b)
      /\ b.want = w.want /\ b.c.state = w.c.state
      /\ \A x \in Streams : ~w.st[x].made => ~b.st[x].made
      /\ Len(b.c.streams) > 0 => MakesWay(b.st[FirstOf(b)])
  <2>1. Sound(b)
    BY <1>2, <1>4, SameStreams DEF Sound
  <2>2. FirstOf(b) = FirstOf(d)
    BY <1>4 DEF FirstOf
  <2>3. Tells(w, b) /\ Spares(w, b)
    BY <1>2, <1>4, <2>2 DEF Tells, Spares
  <2> QED BY <1>2, <1>4, <2>1, <2>2, <2>3 DEF Ended
<1> HIDE DEF v
<1>6. CASE w.c.state = "enabled"
  <2>1. v = [w EXCEPT !.c = [w.c EXCEPT !.fmt = f]]
    BY <1>0, <1>1, <1>6 DEF Worlds
  <2>2. /\ v \in Worlds /\ v.st = w.st /\ v.want = w.want /\ v.dead = w.dead
        /\ v.c.streams = w.c.streams /\ v.c.state = w.c.state /\ v.c.input = w.c.input /\ v.c.fmt = f
        /\ v.c.mute = w.c.mute /\ v.c.paused = w.c.paused
    BY <1>0, <2>1 DEF Worlds, Contexts
  <2>3. Sound(v)
    BY <1>0, <2>2, SameStreams
  <2>4. Len(w.c.streams) = 0
    BY <1>0, <1>6 DEF Sound, Listed
  <2>5. Tells(w, v) /\ Spares(w, v)
    BY <2>2, <2>4 DEF Tells, Spares
  <2>6. Whole(v)
    BY <2>2, <2>4 DEF Whole, InputIsLast, Yields
  <2>7. Wanted(w.c, w.st, w.want) => Wanted(v.c, v.st, v.want)
    BY <1>6, <2>2 DEF Wanted
  <2> QED BY <1>6, <2>2, <2>3, <2>5, <2>6, <2>7 DEF v
<1>7. CASE w.c.state = "disabled"
  <2>1. v = [w EXCEPT !.dead = "invalid state"]
    BY <1>1, <1>7
  <2>2. /\ v \in Worlds /\ v.st = w.st /\ v.want = w.want /\ v.dead # "assertion" /\ v.c = w.c
    BY <1>0, <2>1 DEF Worlds, Deaths
  <2>3. Sound(v)
    BY <2>2 DEF Sound
  <2>4. FirstOf(v) = FirstOf(w)
    BY <2>2 DEF FirstOf
  <2>5. Tells(w, v) /\ Spares(w, v)
    BY <2>2, <2>4 DEF Tells, Spares
  <2>6. Whole(v)
    BY <2>2 DEF Whole
  <2> QED BY <1>7, <2>2, <2>3, <2>5, <2>6 DEF v
<1>8. CASE w.c.state = "ready" /\ f # NULL /\ f = w.c.fmt
  <2>1. v = w
    BY <1>1, <1>8
  <2>2. Tells(w, w) /\ Spares(w, w)
    BY DEF Tells, Spares
  <2> QED BY <1>8, <2>1, <2>2 DEF v
<1>9. CASE w.c.state = "ready" /\ f = NULL
  <2>1. v = b
    BY <1>1, <1>9
  <2>2. Whole(b)
    <3>1. InputIsLast(b.c, b.st)
      BY <1>4 DEF InputIsLast
    <3>2. Yields(b.c, b.st)
      BY <1>5 DEF Yields, FirstOf, MakesWay
    <3> QED BY <3>1, <3>2 DEF Whole
  <2>3. ~w.want => Wanted(b.c, b.st, b.want)
    BY <1>5 DEF Wanted
  <2> QED BY <1>4, <1>5, <1>9, <2>1, <2>2, <2>3 DEF v
<1>10. CASE w.c.state = "ready" /\ f # NULL /\ f # w.c.fmt
  <2>1. v = CreateInput(b, f)
    BY <1>1, <1>10
  <2>2. Sound(v) /\ Creates(b, f, v)
    <3>1. \E s \in Streams : ~b.st[s].made
      BY <1>5, <1>10
    <3>2. f \in Formats /\ b.c.state = "ready"
      BY <1>5, <1>10
    <3> QED BY <1>5, <2>1, <3>1, <3>2, CreateIs
  <2>3. /\ Tells(w, v) /\ Spares(w, v)
        /\ InputIsLast(v.c, v.st) /\ Wanted(v.c, v.st, v.want) /\ Yields(v.c, v.st)
    <3>1. f \in Formats
      BY <1>10
    <3>2. Sound(b) /\ Tells(w, b) /\ Spares(w, b)
          /\ (Len(b.c.streams) > 0 => MakesWay(b.st[FirstOf(b)]))
      BY <1>5
    <3> QED BY ONLY <2>2, <3>1, <3>2, CreateKeeps
  <2> QED BY <1>10, <2>2, <2>3 DEF Whole, v
<1> QED BY <1>0, <1>6, <1>7, <1>8, <1>9, <1>10

\* All streams but the first are freed.
OnlyFirst(w) ==
  [w EXCEPT !.st = [i \in Streams |->
              IF i \in ToSet(w.c.streams) \ {Playing(w)} THEN FreeStream(w, i).st[i] ELSE w.st[i]],
            !.c.streams = IF Playing(w) = NULL THEN <<>> ELSE <<Playing(w)>>,
            !.c.input = NULL, !.c.fmt = NULL]

LEMMA OnlyFirstIs ==
  ASSUME NEW w, Sound(w)
  PROVE  LET v == OnlyFirst(w)
         IN /\ Sound(v) /\ Tells(w, v)
            /\ v.c.state = w.c.state /\ v.c.mute = w.c.mute /\ v.c.paused = w.c.paused
            /\ v.c.input = NULL /\ v.c.fmt = NULL /\ v.want = w.want /\ v.dead = w.dead
            /\ Len(v.c.streams) = IF Len(w.c.streams) > 0 THEN 1 ELSE 0
            /\ Len(w.c.streams) > 0 => FirstOf(v) = FirstOf(w) /\ v.st[FirstOf(w)] = w.st[FirstOf(w)]
            /\ \A x \in Streams : ~w.st[x].made => ~v.st[x].made
<1> DEFINE v == OnlyFirst(w)
           q == IF Playing(w) = NULL THEN <<>> ELSE <<Playing(w)>>
           t == [i \in Streams |->
                   IF i \in ToSet(w.c.streams) \ {Playing(w)} THEN FreeStream(w, i).st[i] ELSE w.st[i]]
           n == Len(w.c.streams)
           h == FirstOf(w)
<1>0. /\ w \in Worlds /\ w.c \in Contexts /\ w.st \in [Streams -> StreamStates]
      /\ n \in Nat /\ w.c.streams \in Seq(Streams) /\ DOMAIN w.c.streams = 1 .. n
      /\ Listed(w.c, w.st) /\ Idle(w.st)
  BY PlayingIs DEF Sound, Worlds, Contexts
<1>1. v = [w EXCEPT !.st = t, !.c = [w.c EXCEPT !.streams = q, !.input = NULL, !.fmt = NULL]]
  BY <1>0 DEF OnlyFirst, Worlds
<1>2. \A i \in Streams : i \in ToSet(w.c.streams) <=> w.st[i].live
  BY <1>0 DEF ToSet, Listed
<1>3. \A i \in Streams : t[i] = IF w.st[i].live /\ i # Playing(w) THEN Freed ELSE w.st[i]
  <2>1. \A i \in Streams : FreeStream(w, i).st[i] = Freed
    BY <1>0 DEF FreeStream, Worlds
  <2> QED BY <1>2, <2>1
<1>4. t \in [Streams -> StreamStates]
  BY <1>0, <1>3, FreedIs
<1>5. /\ q \in Seq(Streams)
      /\ n = 0 => Len(q) = 0 /\ \A i \in Streams : ~w.st[i].live
      /\ n > 0 => Len(q) = 1 /\ q[1] = h /\ h \in Streams /\ Playing(w) = h /\ w.st[h].live
  <2>1. CASE n = 0
    BY <1>0, <2>1, PlayingIs DEF Listed
  <2>2. CASE n # 0
    <3>1. n > 0 /\ Playing(w) = h /\ h \in Streams /\ Playing(w) # NULL
      BY <1>0, <2>2, PlayingIs
    <3>2. q = <<h>>
      BY <3>1
    <3>3. w.st[h].live
      BY <1>0, <3>1 DEF Listed, FirstOf
    <3> QED BY <3>1, <3>2, <3>3
  <2> QED BY <2>1, <2>2
<1> HIDE DEF t, q
<1>6. /\ v \in Worlds /\ v.st = t /\ v.want = w.want /\ v.dead = w.dead /\ v.c.streams = q
      /\ v.c.state = w.c.state /\ v.c.mute = w.c.mute /\ v.c.paused = w.c.paused
      /\ v.c.input = NULL /\ v.c.fmt = NULL
  <2> DEFINE k == [w.c EXCEPT !.streams = q, !.input = NULL, !.fmt = NULL]
  <2>1. /\ k \in Contexts /\ k.streams = q /\ k.input = NULL /\ k.fmt = NULL
        /\ k.state = w.c.state /\ k.mute = w.c.mute /\ k.paused = w.c.paused
    BY <1>0, <1>5 DEF Contexts
  <2>2. v = [w EXCEPT !.st = t, !.c = k]
    BY <1>1
  <2> HIDE DEF k, v
  <2>3. v \in Worlds /\ v.c = k /\ v.st = t /\ v.want = w.want /\ v.dead = w.dead
    BY <1>0, <1>4, <2>1, <2>2 DEF Worlds
  <2> QED BY <2>1, <2>3
<1> HIDE DEF v
<1>7. \A i \in Streams : v.st[i].made <=> w.st[i].made
  <2>1. \A i \in Streams : w.st[i].live => w.st[i].made
    BY <1>0 DEF Listed
  <2> QED BY <1>3, <1>6, <2>1, FreedIs
<1>8. Len(v.c.streams) = IF n > 0 THEN 1 ELSE 0
  BY <1>0, <1>5, <1>6
<1>9. n > 0 => FirstOf(v) = h /\ v.st[h] = w.st[h]
  BY <1>3, <1>5, <1>6 DEF FirstOf
<1>10. \A i \in Streams : v.st[i].live <=> n > 0 /\ i = h
  BY <1>0, <1>3, <1>5, <1>6, FreedIs
<1>11. Listed(v.c, v.st)
  <2>1. \E k \in 0 .. MaxStreams : \A i \in Streams : v.st[i].made <=> i <= k
    BY <1>0, <1>7 DEF Listed
  <2>2. \A i \in Streams : v.st[i].live => v.st[i].made /\ v.st[i].fmt # NULL
    BY <1>0, <1>5, <1>7, <1>9, <1>10 DEF Listed
  <2>3. \A i \in Streams : v.st[i].live <=> \E j \in 1 .. Len(v.c.streams) : v.c.streams[j] = i
    BY <1>5, <1>6, <1>8, <1>10
  <2>4. \A i, j \in 1 .. Len(v.c.streams) : i < j => v.c.streams[i] < v.c.streams[j]
    BY <1>8
  <2>5. Len(v.c.streams) > 0 => v.c.state = "ready"
    BY <1>0, <1>6, <1>8 DEF Listed
  <2> QED BY <2>1, <2>2, <2>3, <2>4, <2>5 DEF Listed
<1>12. Idle(v.st)
  BY <1>0, <1>3, <1>6, FreedIs DEF Idle
<1>13. Behind(v.c, v.st)
  BY <1>8 DEF Behind
<1>14. Sound(v)
  BY <1>6, <1>11, <1>12, <1>13 DEF Sound
<1>15. Tells(w, v)
  BY <1>0, <1>5, <1>6, <1>8, <1>9, <1>10 DEF Tells
<1> QED BY <1>6, <1>7, <1>8, <1>9, <1>14, <1>15 DEF v

\* And the first, with what it holds.
LEMMA FreeOnly ==
  ASSUME NEW w, Sound(w), Len(w.c.streams) = 1
  PROVE  LET v == [FreeStream(w, FirstOf(w)) EXCEPT !.c.streams = <<>>]
         IN /\ Sound(v) /\ v.want = w.want /\ Len(v.c.streams) = 0
            /\ v.c.state = w.c.state /\ v.c.input = w.c.input /\ v.c.fmt = w.c.fmt
            /\ \A x \in Streams : v.st[x] = IF x = FirstOf(w) THEN Freed ELSE w.st[x]
<1> DEFINE v == [FreeStream(w, FirstOf(w)) EXCEPT !.c.streams = <<>>]
<1>1. w.c.streams \in Seq(Streams) /\ w \in Worlds /\ w.c \in Contexts
      /\ w.st \in [Streams -> StreamStates] /\ FirstOf(w) \in Streams /\ Len(w.c.streams) > 0
  <2>1. w \in Worlds /\ Len(w.c.streams) > 0
    BY DEF Sound
  <2> QED BY <2>1, PlayingIs DEF Worlds, Contexts
<1>2. Tail(w.c.streams) = <<>>
  <2>1. \A q \in Seq(Streams) : Len(q) = 1 => Tail(q) = <<>>
    <3> SUFFICES ASSUME NEW q \in Seq(Streams), Len(q) = 1 PROVE Tail(q) = <<>>
      OBVIOUS
    <3>1. q # <<>>
      <4>1. Len(<<>>) = 0
        OBVIOUS
      <4>2. Len(q) # 0
        BY ONLY Len(q) = 1
      <4> QED BY ONLY <4>1, <4>2
    <3>2. Tail(q) \in Seq(Streams) /\ Len(Tail(q)) = 0
      BY <3>1, HeadTailProperties
    <3> QED BY <3>2, EmptySeq
  <2> QED BY <1>1, <2>1, Zenon
<1>3. v = [FreeStream(w, FirstOf(w)) EXCEPT !.c.streams = Tail(@)]
  BY <1>1, <1>2 DEF FreeStream, Worlds, Contexts
<1> HIDE DEF v
<1>4. /\ Sound(v)
      /\ v.c = [w.c EXCEPT !.streams = Tail(w.c.streams)]
      /\ v.st = [w.st EXCEPT ![FirstOf(w)] = Freed]
      /\ v.want = w.want
  BY <1>1, <1>3, FreeHead
<1>5. /\ v.c.streams = <<>> /\ v.c.state = w.c.state /\ v.c.input = w.c.input
      /\ v.c.fmt = w.c.fmt
  BY <1>1, <1>2, <1>4 DEF Contexts
<1> QED BY <1>1, <1>4, <1>5 DEF v

\* The first stream stays, as the input, with what it holds dropped.
Kept(r, h) ==
  LET v == SetDrain(r, h, FALSE)
  IN SetInput(IF r.st[h].state = "ready" THEN [v EXCEPT !.st[h].buf = 0, !.st[h].owed = TRUE]
              ELSE v, h)

LEMMA KeptIs ==
  ASSUME NEW r, Sound(r), Len(r.c.streams) = 1
  PROVE  LET v == Kept(r, FirstOf(r))
         IN /\ Sound(v) /\ Whole(v) /\ Wanted(v.c, v.st, v.want) /\ Tells(r, v)
            /\ v.c.state = r.c.state /\ v.c.fmt = r.st[FirstOf(r)].fmt
            /\ Len(v.c.streams) = 1 /\ v.st[FirstOf(v)].buf = 0
<1> DEFINE h == FirstOf(r)
           d == SetDrain(r, h, FALSE)
           e == [d EXCEPT !.st[h].buf = 0, !.st[h].owed = TRUE]
           x == IF r.st[h].state = "ready" THEN e ELSE d
           v == Kept(r, h)
<1>1. /\ r \in Worlds /\ r.c \in Contexts /\ r.st \in [Streams -> StreamStates]
      /\ h \in Streams /\ Len(r.c.streams) > 0 /\ r.c.streams[1] = h
  <2>1. r \in Worlds /\ Len(r.c.streams) > 0
    BY DEF Sound
  <2> QED BY <2>1, PlayingIs DEF Worlds, Contexts, FirstOf
<1>2. /\ Sound(x) /\ x.c = r.c /\ x.want = r.want
      /\ ~x.st[h].drain /\ x.st[h].buf = 0
      /\ \A i \in Streams :
           /\ x.st[i].live = r.st[i].live
           /\ x.st[i].fmt = r.st[i].fmt /\ x.st[i].state = r.st[i].state
           /\ x.st[i].cork = r.st[i].cork /\ x.st[i].mute = r.st[i].mute
           /\ x.st[i].news = r.st[i].news
  <2>1. CASE r.st[h].state = "ready"
    <3>1. /\ Sound(d) /\ d.c = r.c /\ d.want = r.want
          /\ \A i \in Streams :
               /\ d.st[i].live = r.st[i].live
               /\ d.st[i].fmt = r.st[i].fmt /\ d.st[i].state = r.st[i].state
               /\ d.st[i].cork = r.st[i].cork /\ d.st[i].mute = r.st[i].mute
               /\ d.st[i].news = r.st[i].news
          /\ d.st[h].drain = FALSE
      <4> HIDE DEF h, d
      <4>1. \A b \in BOOLEAN :
              LET u == SetDrain(r, h, b)
              IN /\ Sound(u) /\ u.c = r.c /\ u.want = r.want
                 /\ \A i \in Streams :
                      /\ u.st[i].live = r.st[i].live
                      /\ u.st[i].fmt = r.st[i].fmt /\ u.st[i].state = r.st[i].state
                      /\ u.st[i].cork = r.st[i].cork /\ u.st[i].mute = r.st[i].mute
                      /\ u.st[i].news = r.st[i].news
                 /\ u.st[h].drain = b
        BY <1>1, <2>1, SetDrainReady
      <4> QED BY <4>1, Zenon DEF d
    <3>2. d \in Worlds /\ d.st \in [Streams -> StreamStates]
      BY <3>1 DEF Sound, Worlds
    <3> HIDE DEF d
    <3> DEFINE y == [d.st[h] EXCEPT !.buf = 0, !.owed = TRUE]
    <3>3. /\ y \in StreamStates /\ y.buf = 0 /\ y.made = d.st[h].made /\ y.live = d.st[h].live
          /\ y.fmt = d.st[h].fmt /\ y.state = d.st[h].state /\ y.req = d.st[h].req
          /\ y.drain = d.st[h].drain /\ y.cork = d.st[h].cork /\ y.mute = d.st[h].mute
          /\ y.news = d.st[h].news
      <4>1. d.st[h] \in StreamStates /\ 0 \in 0 .. Target
        BY <1>1, <3>2
      <4> QED BY <4>1 DEF StreamStates
    <3>4. e = [d EXCEPT !.st = [d.st EXCEPT ![h] = y]]
      BY <1>1, <3>2 DEF Worlds, StreamStates
    <3> HIDE DEF y
    <3>5. /\ e \in Worlds /\ e.c = d.c /\ e.want = d.want /\ e.dead = d.dead
          /\ \A i \in Streams : e.st[i] = IF i = h THEN y ELSE d.st[i]
      <4> DEFINE t == [d.st EXCEPT ![h] = y]
      <4>1. t \in [Streams -> StreamStates] /\ \A i \in Streams : t[i] = IF i = h THEN y ELSE d.st[i]
        BY <1>1, <3>2, <3>3
      <4>2. e = [d EXCEPT !.st = t]
        BY <3>4
      <4> HIDE DEF t, h
      <4>3. e \in Worlds /\ e.c = d.c /\ e.want = d.want /\ e.dead = d.dead /\ e.st = t
        BY ONLY <3>2, <4>1, <4>2 DEF Worlds
      <4> QED BY <4>1, <4>3
    <3> HIDE DEF e
    <3>6. Sound(e)
      <4>1. Listed(e.c, e.st)
        <5>1. \A i \in Streams : /\ e.st[i].made = d.st[i].made /\ e.st[i].live = d.st[i].live
                                 /\ e.st[i].fmt = d.st[i].fmt
          BY <3>3, <3>5
        <5>2. Listed(d.c, d.st) /\ e.c = d.c
          BY <3>1, <3>5 DEF Sound
        <5> QED BY ONLY <5>1, <5>2 DEF Listed
      <4>2. Idle(e.st)
        BY <1>1, <2>1, <3>1, <3>3, <3>5 DEF Sound, Idle
      <4>3. Behind(e.c, e.st)
        BY <3>1, <3>5 DEF Behind
      <4> QED BY <3>1, <3>5, <4>1, <4>2, <4>3 DEF Sound
    <3>7. x = e
      BY <2>1
    <3> HIDE DEF x
    <3> QED BY <1>1, <3>1, <3>3, <3>5, <3>6, <3>7
  <2>2. CASE r.st[h].state # "ready"
    <3>1. x = r
      BY <2>2 DEF SetDrain
    <3>2. ~r.st[h].drain /\ r.st[h].buf = 0
      <4>1. r.st[h].state = "connecting"
        BY <1>1, <2>2 DEF StreamStates
      <4> QED BY <1>1, <4>1 DEF Sound, Idle
    <3> HIDE DEF x
    <3> QED BY <3>1, <3>2
  <2> QED BY <2>1, <2>2
<1>3. v = SetInput(x, h)
  BY DEF Kept
<1> HIDE DEF x
<1>4. /\ x \in Worlds /\ x.c \in Contexts /\ x.st \in [Streams -> StreamStates]
      /\ x.st[h] \in StreamStates
  BY <1>1, <1>2 DEF Sound, Worlds
<1>5. /\ v = [x EXCEPT !.c = [x.c EXCEPT !.input = h, !.fmt = x.st[h].fmt],
                      !.want = x.st[h].req # 0]
  BY <1>3, <1>4 DEF SetInput, Worlds
<1> HIDE DEF v
<1>6. /\ v.st = x.st /\ v.dead = x.dead /\ (v.want <=> x.st[h].req # 0)
      /\ v.c = [x.c EXCEPT !.input = h, !.fmt = x.st[h].fmt] /\ v \in Worlds
  <2> DEFINE q == x.st[h].req # 0
             k == [x.c EXCEPT !.input = h, !.fmt = x.st[h].fmt]
  <2>1. q \in BOOLEAN
    OBVIOUS
  <2>2. k \in Contexts
    BY <1>1, <1>4 DEF Contexts, StreamStates
  <2> HIDE DEF q, k
  <2>3. v = [x EXCEPT !.c = k, !.want = q]
    BY <1>5 DEF q, k
  <2>4. v \in Worlds /\ v.st = x.st /\ v.dead = x.dead /\ v.c = k /\ v.want = q
    BY <1>4, <2>1, <2>2, <2>3 DEF Worlds
  <2> QED BY <2>4 DEF q, k
<1>7. /\ v.c.streams = r.c.streams /\ v.c.state = r.c.state /\ v.c.input = h
      /\ v.c.fmt = r.st[h].fmt /\ v.c.mute = r.c.mute /\ v.c.paused = r.c.paused
  BY <1>1, <1>2, <1>4, <1>6 DEF Contexts
<1>8. Sound(v)
  <2>1. Sound(x) /\ x.dead # "assertion" /\ x.c = r.c
    BY <1>2 DEF Sound
  <2>2. v \in Worlds /\ v.dead # "assertion" /\ v.st = x.st /\ v.c.streams = x.c.streams
        /\ v.c.state = x.c.state
    BY <1>6, <1>7, <2>1
  <2> QED BY ONLY <2>1, <2>2, SameStreams
<1>9. Whole(v)
  <2>1. InputIsLast(v.c, v.st)
    BY <1>1, <1>2, <1>6, <1>7 DEF InputIsLast
  <2>2. Yields(v.c, v.st)
    BY <1>1, <1>7 DEF Yields
  <2> QED BY <2>1, <2>2 DEF Whole
<1>10. Wanted(v.c, v.st, v.want)
  <2>1. ASSUME v.want PROVE v.st[h].state = "ready"
    <3>1. v.st[h].req # 0 /\ v.st[h] \in StreamStates
      BY <1>4, <1>6, <2>1
    <3>2. v.st[h].state \in {"connecting", "ready"}
      BY <3>1 DEF StreamStates
    <3> QED BY <1>1, <1>8, <3>1, <3>2 DEF Sound, Idle
  <2>2. v.c.state = "ready"
    BY <1>1, <1>7 DEF Sound, Listed
  <2> QED BY <1>1, <1>7, <2>1, <2>2 DEF Wanted
<1>11. Tells(r, v)
  <2>1. FirstOf(v) = h
    BY <1>1, <1>7 DEF FirstOf
  <2> QED BY <1>1, <1>2, <1>6, <1>7, <2>1 DEF Tells
<1>12. Len(v.c.streams) = 1 /\ FirstOf(v) = h /\ v.st[h].buf = 0
  BY <1>1, <1>2, <1>6, <1>7 DEF FirstOf
<1> QED BY <1>7, <1>8, <1>9, <1>10, <1>11, <1>12 DEF v, h

LEMMA TellsOn ==
  ASSUME NEW u, NEW v, NEW w, Sound(v), Sound(w), Tells(u, v), Tells(v, w)
  PROVE  Tells(u, w)
<1>1. Len(w.c.streams) > 0 => FirstOf(w) \in Streams
  BY PlayingIs DEF Sound
<1>2. \A s \in Streams :
        w.st[s].live /\ w.st[s].state = "ready" /\ ~w.st[s].news
          => /\ v.st[s].live /\ v.st[s].state = "ready" /\ ~v.st[s].news
             /\ u.st[s].live /\ u.st[s].state = "ready" /\ ~u.st[s].news
             /\ w.st[s].cork = v.st[s].cork /\ w.st[s].mute = v.st[s].mute
             /\ w.st[s].cork = u.st[s].cork /\ w.st[s].mute = u.st[s].mute
  BY DEF Tells
<1>3. ASSUME Len(w.c.streams) > 0, w.st[FirstOf(w)].state = "ready", ~w.st[FirstOf(w)].news
      PROVE  /\ \/ w.c.paused = w.st[FirstOf(w)].cork
                \/ Len(u.c.streams) > 0 /\ FirstOf(u) = FirstOf(w) /\ w.c.paused = u.c.paused
             /\ \/ w.c.mute = w.st[FirstOf(w)].mute
                \/ Len(u.c.streams) > 0 /\ FirstOf(u) = FirstOf(w) /\ w.c.mute = u.c.mute
  <2>1. w.st[FirstOf(w)].live
    <3>1. Len(w.c.streams) \in Nat
      BY PlayingIs DEF Sound
    <3> QED BY <1>1, <1>3, <3>1 DEF Sound, Listed, FirstOf
  <2>2. /\ v.st[FirstOf(w)].state = "ready" /\ ~v.st[FirstOf(w)].news
        /\ w.st[FirstOf(w)].cork = v.st[FirstOf(w)].cork /\ w.st[FirstOf(w)].mute = v.st[FirstOf(w)].mute
    BY <1>1, <1>2, <1>3, <2>1
  <2> QED BY <1>3, <2>2 DEF Tells
<1> QED BY <1>2, <1>3 DEF Tells

-----------------------------------------------------------------------------
(* What is going to be heard.                                              *)

Units(t) == [j \in 1 .. t.buf |-> t.fmt]
Audio(k, t) == [i \in DOMAIN k.streams |-> Units(t[k.streams[i]])]
Held(w) == FlattenSeq(Audio(w.c, w.st))

Kinds == Formats \cup {NULL}

LEMMA UnitsAre ==
  ASSUME NEW t \in StreamStates
  PROVE  Units(t) \in Seq(Kinds) /\ Len(Units(t)) = t.buf /\ (t.buf = 0 => Units(t) = <<>>)
<1>1. t.buf \in Nat /\ t.fmt \in Kinds
  BY DEF StreamStates, Kinds
<1>2. Units(t) \in Seq(Kinds) /\ Len(Units(t)) = t.buf
  BY <1>1 DEF Units
<1> QED BY <1>2, EmptySeq

LEMMA AudioIs ==
  ASSUME NEW w, Sound(w)
  PROVE  LET a == Audio(w.c, w.st)
         IN /\ a \in Seq(Seq(Kinds)) /\ Len(a) = Len(w.c.streams) /\ Len(a) \in Nat
            /\ \A i \in 1 .. Len(w.c.streams) :
                 a[i] = Units(w.st[w.c.streams[i]]) /\ w.c.streams[i] \in Streams
<1>1. w \in Worlds /\ w.st \in [Streams -> StreamStates] /\ w.c.streams \in Seq(Streams)
  BY DEF Sound, Worlds, Contexts
<1>2. Len(w.c.streams) \in Nat /\ \A i \in 1 .. Len(w.c.streams) : w.c.streams[i] \in Streams
  BY <1>1, PlayingIs
<1>3. DOMAIN w.c.streams = 1 .. Len(w.c.streams)
  BY <1>1
<1>4. \A i \in 1 .. Len(w.c.streams) : Units(w.st[w.c.streams[i]]) \in Seq(Kinds)
  BY <1>1, <1>2, UnitsAre
<1>5. Audio(w.c, w.st) = [i \in 1 .. Len(w.c.streams) |-> Units(w.st[w.c.streams[i]])]
  BY <1>3 DEF Audio
<1> QED BY <1>2, <1>4, <1>5

\* The streams of v are those of w, as far as they are heard.
LEMMA HeldSame ==
  ASSUME NEW w, Sound(w), NEW v, Sound(v), v.c.streams = w.c.streams,
         \A x \in Streams : v.st[x].buf = w.st[x].buf /\ v.st[x].fmt = w.st[x].fmt
  PROVE  Held(v) = Held(w)
<1>1. \A i \in DOMAIN w.c.streams : w.c.streams[i] \in Streams
  BY DEF Sound, Worlds, Contexts
<1>2. Audio(v.c, v.st) = Audio(w.c, w.st)
  BY <1>1 DEF Audio, Units
<1> QED BY <1>2 DEF Held

LEMMA HeldBehead ==
  ASSUME NEW w, Sound(w), NEW v, Sound(v), Len(v.c.streams) = Len(w.c.streams) - 1,
         \A i \in 1 .. Len(v.c.streams) :
           /\ v.c.streams[i] = w.c.streams[i + 1]
           /\ v.st[v.c.streams[i]].buf = w.st[v.c.streams[i]].buf
           /\ v.st[v.c.streams[i]].fmt = w.st[v.c.streams[i]].fmt
  PROVE  /\ Held(w) = Units(w.st[FirstOf(w)]) \o Held(v)
         /\ w.st[FirstOf(w)].buf = 0 => Held(w) = Held(v)
<1> DEFINE a == Audio(w.c, w.st)
           b == Audio(v.c, v.st)
<1>1. /\ a \in Seq(Seq(Kinds)) /\ Len(a) = Len(w.c.streams) /\ Len(a) \in Nat
      /\ \A i \in 1 .. Len(w.c.streams) : a[i] = Units(w.st[w.c.streams[i]])
                                          /\ w.c.streams[i] \in Streams
  BY AudioIs
<1>2. /\ b \in Seq(Seq(Kinds)) /\ Len(b) = Len(v.c.streams) /\ Len(b) \in Nat
      /\ \A i \in 1 .. Len(v.c.streams) : b[i] = Units(v.st[v.c.streams[i]])
                                          /\ v.c.streams[i] \in Streams
  BY AudioIs
<1> HIDE DEF a, b
<1>3. Len(a) = Len(b) + 1 /\ 1 \in 1 .. Len(w.c.streams)
  BY <1>1, <1>2
<1>4. ASSUME NEW i \in 1 .. Len(b) PROVE b[i] = a[i + 1]
  <2>1. i + 1 \in 1 .. Len(w.c.streams) /\ i \in 1 .. Len(v.c.streams)
    <3> DEFINE m == Len(b)
    <3>1. m \in Nat /\ i \in 1 .. m /\ m = Len(v.c.streams) /\ m + 1 = Len(w.c.streams)
      <4>1. Len(a) = m + 1 /\ Len(a) = Len(w.c.streams)
        BY ONLY <1>1, <1>3
      <4>2. m \in Nat /\ m = Len(v.c.streams)
        BY ONLY <1>2
      <4> QED BY <4>1, <4>2, Zenon
    <3> HIDE DEF m
    <3> QED BY ONLY <3>1
  <2>2. b[i] = Units(v.st[v.c.streams[i]]) /\ a[i + 1] = Units(w.st[w.c.streams[i + 1]])
    <3>1. \A j \in 1 .. Len(w.c.streams) : a[j] = Units(w.st[w.c.streams[j]])
      BY ONLY <1>1
    <3>2. \A j \in 1 .. Len(v.c.streams) : b[j] = Units(v.st[v.c.streams[j]])
      BY ONLY <1>2
    <3> QED BY ONLY <2>1, <3>1, <3>2, Zenon
  <2>3. /\ v.c.streams[i] = w.c.streams[i + 1]
        /\ v.st[v.c.streams[i]].buf = w.st[v.c.streams[i]].buf
        /\ v.st[v.c.streams[i]].fmt = w.st[v.c.streams[i]].fmt
    BY <2>1
  <2>4. Units(v.st[v.c.streams[i]]) = Units(w.st[v.c.streams[i]])
    BY <2>3 DEF Units
  <2> QED BY <2>2, <2>3, <2>4
<1>5. FlattenSeq(a) = a[1] \o FlattenSeq(b) /\ FlattenSeq(b) \in Seq(Kinds) /\ a[1] \in Seq(Kinds)
  <2>1. /\ a \in Seq(Seq(Kinds)) /\ b \in Seq(Seq(Kinds)) /\ Len(a) = Len(b) + 1
        /\ \A i \in 1 .. Len(b) : b[i] = a[i + 1]
    BY <1>1, <1>2, <1>3, <1>4
  <2> QED BY ONLY <2>1, FlatFirst, ZenonT(60)
<1>6. a[1] = Units(w.st[FirstOf(w)]) /\ FirstOf(w) \in Streams
  BY <1>1, <1>3 DEF FirstOf
<1>7. w.st[FirstOf(w)] \in StreamStates
  BY <1>6 DEF Sound, Worlds
<1>8. ASSUME w.st[FirstOf(w)].buf = 0 PROVE a[1] \o FlattenSeq(b) = FlattenSeq(b)
  <2>1. a[1] = <<>>
    BY <1>6, <1>7, <1>8, UnitsAre
  <2> QED BY <1>5, <2>1, ConcatEmptySeq
<1> QED BY <1>5, <1>6, <1>8 DEF Held, a, b

LEMMA HeldAppend ==
  ASSUME NEW w, Sound(w), NEW v, Sound(v), Len(v.c.streams) = Len(w.c.streams) + 1,
         \A i \in 1 .. Len(w.c.streams) :
           /\ v.c.streams[i] = w.c.streams[i]
           /\ v.st[w.c.streams[i]].buf = w.st[w.c.streams[i]].buf
           /\ v.st[w.c.streams[i]].fmt = w.st[w.c.streams[i]].fmt,
         v.st[v.c.streams[Len(v.c.streams)]].buf = 0
  PROVE  Held(v) = Held(w)
<1> DEFINE a == Audio(w.c, w.st)
           b == Audio(v.c, v.st)
           n == Len(v.c.streams)
<1>1. /\ a \in Seq(Seq(Kinds)) /\ Len(a) = Len(w.c.streams) /\ Len(a) \in Nat
      /\ \A i \in 1 .. Len(w.c.streams) : a[i] = Units(w.st[w.c.streams[i]])
                                          /\ w.c.streams[i] \in Streams
  BY AudioIs
<1>2. /\ b \in Seq(Seq(Kinds)) /\ Len(b) = n /\ n \in Nat
      /\ \A i \in 1 .. n : b[i] = Units(v.st[v.c.streams[i]]) /\ v.c.streams[i] \in Streams
  BY AudioIs
<1> HIDE DEF a, b
<1>3. Len(b) = Len(a) + 1 /\ n \in 1 .. n
  BY <1>1, <1>2
<1>4. ASSUME NEW i \in 1 .. Len(a) PROVE b[i] = a[i]
  <2>1. i \in 1 .. Len(w.c.streams) /\ i \in 1 .. n
    BY <1>1, <1>2, <1>3
  <2>2. b[i] = Units(v.st[v.c.streams[i]]) /\ a[i] = Units(w.st[w.c.streams[i]])
    BY <1>1, <1>2, <2>1
  <2>3. /\ v.c.streams[i] = w.c.streams[i]
        /\ v.st[w.c.streams[i]].buf = w.st[w.c.streams[i]].buf
        /\ v.st[w.c.streams[i]].fmt = w.st[w.c.streams[i]].fmt
    BY <2>1
  <2>4. Units(v.st[w.c.streams[i]]) = Units(w.st[w.c.streams[i]])
    BY <2>3 DEF Units
  <2> QED BY <2>2, <2>3, <2>4
<1>5. FlattenSeq(b) = FlattenSeq(a) \o b[Len(b)] /\ FlattenSeq(a) \in Seq(Kinds)
  <2>1. /\ b \in Seq(Seq(Kinds)) /\ a \in Seq(Seq(Kinds)) /\ Len(b) = Len(a) + 1
        /\ \A i \in 1 .. Len(a) : b[i] = a[i]
    BY <1>1, <1>2, <1>3, <1>4
  <2> QED BY ONLY <2>1, FlatLast, ZenonT(60)
<1>6. b[Len(b)] = <<>>
  <2>1. b[n] = Units(v.st[v.c.streams[n]]) /\ v.c.streams[n] \in Streams
    BY <1>2, <1>3
  <2>2. v.st[v.c.streams[n]] \in StreamStates
    BY <2>1 DEF Sound, Worlds
  <2> QED BY <1>2, <2>1, <2>2, UnitsAre
<1>7. FlattenSeq(a) \o b[Len(b)] = FlattenSeq(a)
  BY <1>5, <1>6, ConcatEmptySeq
<1> QED BY <1>5, <1>7 DEF Held, a, b

LEMMA HeldNone == ASSUME NEW w, Sound(w), Len(w.c.streams) = 0 PROVE Held(w) = <<>>
<1>1. Audio(w.c, w.st) \in Seq(Seq(Kinds)) /\ Len(Audio(w.c, w.st)) = 0
  BY AudioIs
<1>2. Audio(w.c, w.st) = <<>>
  BY <1>1, EmptySeq
<1> QED BY <1>2, FlatNone DEF Held

\* One stream, that has nothing.
LEMMA HeldOne ==
  ASSUME NEW w, Sound(w), Len(w.c.streams) = 1, w.st[FirstOf(w)].buf = 0
  PROVE  Held(w) = <<>>
<1> DEFINE a == Audio(w.c, w.st)
<1>1. a \in Seq(Seq(Kinds)) /\ Len(a) = 1 /\ a[1] = Units(w.st[FirstOf(w)]) /\ FirstOf(w) \in Streams
  BY AudioIs DEF FirstOf
<1> HIDE DEF a
<1>2. <<>> \in Seq(Seq(Kinds)) /\ Len(<<>>) = 0
  OBVIOUS
<1>3. FlattenSeq(a) = FlattenSeq(<<>>) \o a[1] /\ FlattenSeq(<<>>) = <<>>
  <2>1. \A s, t \in Seq(Seq(Kinds)) : Len(s) = 1 /\ Len(t) = 0 => FlattenSeq(s) = FlattenSeq(t) \o s[1]
    <3> SUFFICES ASSUME NEW s \in Seq(Seq(Kinds)), NEW t \in Seq(Seq(Kinds)), Len(s) = 1, Len(t) = 0
                 PROVE  FlattenSeq(s) = FlattenSeq(t) \o s[1]
      OBVIOUS
    <3>1. Len(s) = Len(t) + 1 /\ \A i \in 1 .. Len(t) : s[i] = t[i]
      OBVIOUS
    <3>2. FlattenSeq(s) = FlattenSeq(t) \o s[Len(s)]
      BY <3>1, FlatLast
    <3> QED BY <3>2
  <2> QED BY <1>1, <1>2, <2>1, FlatNone
<1>4. a[1] = <<>>
  <2>1. w.st[FirstOf(w)] \in StreamStates
    BY <1>1 DEF Sound, Worlds
  <2> QED BY <1>1, <2>1, UnitsAre
<1>5. <<>> \o <<>> = <<>>
  BY ConcatEmptySeq
<1> QED BY <1>3, <1>4, <1>5 DEF Held, a

LEMMA HeldDrained ==
  ASSUME NEW w, Sound(w), NEW s \in Streams,
         Len(w.c.streams) > 0 /\ s = FirstOf(w) => w.st[s].buf = 0
  PROVE  Sound(Drained(w, s)) /\ Held(Drained(w, s)) = Held(w)
<1> DEFINE v == Drained(w, s)
           n == Len(w.c.streams)
<1>1. Sound(v) /\ Drains(w, s, v)
  BY DrainedIs
<1>2. n \in Nat /\ \A i \in 1 .. n : w.c.streams[i] \in Streams
  BY PlayingIs DEF Sound
<1> HIDE DEF v, n
<1>3. CASE n > 0 /\ s = FirstOf(w)
  <2>1. /\ Len(v.c.streams) = n - 1
        /\ \A i \in 1 .. n - 1 : v.c.streams[i] = w.c.streams[i + 1]
        /\ \A x \in Streams : x # s => v.st[x].buf = w.st[x].buf /\ v.st[x].fmt = w.st[x].fmt
    BY <1>1, <1>3 DEF Drains, n
  <2>2. ASSUME NEW i \in 1 .. Len(v.c.streams)
        PROVE  /\ v.c.streams[i] = w.c.streams[i + 1]
               /\ v.st[v.c.streams[i]].buf = w.st[v.c.streams[i]].buf
               /\ v.st[v.c.streams[i]].fmt = w.st[v.c.streams[i]].fmt
    <3>1. i \in 1 .. n - 1 /\ i + 1 \in 1 .. n /\ i + 1 > 1
      BY <1>2, <2>1
    <3>2. v.c.streams[i] = w.c.streams[i + 1] /\ w.c.streams[i + 1] \in Streams
      BY <1>2, <2>1, <3>1
    <3>3. w.c.streams[i + 1] # FirstOf(w)
      BY <3>1, HeardIsFirst DEF n
    <3> QED BY <1>3, <2>1, <3>2, <3>3
  <2>3. w.st[FirstOf(w)].buf = 0 => Held(w) = Held(v)
    BY <1>1, <2>1, <2>2, HeldBehead DEF n
  <2>4. w.st[FirstOf(w)].buf = 0
    BY <1>3 DEF n
  <2> QED BY <1>1, <2>3, <2>4 DEF v
<1>4. CASE ~(n > 0 /\ s = FirstOf(w))
  <2>1. /\ v.c.streams = w.c.streams
        /\ \A x \in Streams : v.st[x].buf = w.st[x].buf /\ v.st[x].fmt = w.st[x].fmt
    BY <1>1, <1>4 DEF Drains, n
  <2> QED BY <1>1, <2>1, HeldSame DEF v
<1> QED BY <1>3, <1>4

LEMMA HeldSetDrain ==
  ASSUME NEW w, Sound(w), NEW s \in Streams, NEW b \in BOOLEAN
  PROVE  Sound(SetDrain(w, s, b)) /\ Held(SetDrain(w, s, b)) = Held(w)
<1> DEFINE v == SetDrain(w, s, b)
<1>1. CASE w.st[s].state = "ready"
  <2>1. /\ Sound(v) /\ v.c = w.c
        /\ \A x \in Streams : v.st[x].buf = w.st[x].buf /\ v.st[x].fmt = w.st[x].fmt
    BY <1>1, SetDrainReady
  <2> HIDE DEF v
  <2>2. Held(v) = Held(w)
    BY <2>1, HeldSame
  <2> QED BY <2>1, <2>2 DEF v
<1>2. CASE w.st[s].state # "ready"
  <2>1. w.st[s].buf = 0
    <3>1. w.st[s].state = "connecting"
      BY <1>2 DEF Sound, Worlds, StreamStates
    <3> QED BY <3>1 DEF Sound, Idle
  <2>2. v = IF b THEN Drained(w, s) ELSE w
    BY <1>2 DEF SetDrain
  <2>3. Sound(Drained(w, s)) /\ Held(Drained(w, s)) = Held(w)
    BY <2>1, HeldDrained
  <2> HIDE DEF v
  <2>4. Sound(v) /\ Held(v) = Held(w)
    BY <2>2, <2>3
  <2> QED BY <2>4 DEF v
<1> QED BY <1>1, <1>2

LEMMA HeldCreate ==
  ASSUME NEW w, Sound(w), w.c.state = "ready", NEW f \in Formats,
         \E s \in Streams : ~w.st[s].made
  PROVE  Sound(CreateInput(w, f)) /\ Held(CreateInput(w, f)) = Held(w)
<1> DEFINE v == CreateInput(w, f)
           n == Len(w.c.streams)
<1>1. Sound(v) /\ Creates(w, f, v)
  BY CreateIs
<1>2. n \in Nat /\ \A i \in 1 .. n : w.c.streams[i] \in Streams
  BY PlayingIs DEF Sound
<1> HIDE DEF v, n
<1>3. /\ Len(v.c.streams) = n + 1 /\ v.c.input = v.c.streams[n + 1]
      /\ v.c.input \in Streams /\ ~w.st[v.c.input].made
      /\ \A i \in 1 .. n : v.c.streams[i] = w.c.streams[i]
      /\ \A x \in Streams : x # v.c.input => v.st[x] = w.st[x]
      /\ v.st[v.c.input].state = "connecting"
  BY <1>1 DEF Creates, n
<1>4. \A i \in 1 .. n : w.st[w.c.streams[i]].made
  BY <1>2 DEF Sound, Listed, n
<1>5. ASSUME NEW i \in 1 .. n
      PROVE  /\ v.c.streams[i] = w.c.streams[i]
             /\ v.st[w.c.streams[i]].buf = w.st[w.c.streams[i]].buf
             /\ v.st[w.c.streams[i]].fmt = w.st[w.c.streams[i]].fmt
  <2>1. w.c.streams[i] \in Streams /\ w.c.streams[i] # v.c.input
    BY <1>2, <1>3, <1>4
  <2> QED BY <1>3, <2>1
<1>6. v.st[v.c.streams[Len(v.c.streams)]].buf = 0
  BY <1>1, <1>3 DEF Sound, Idle
<1>7. Held(v) = Held(w)
  BY <1>1, <1>3, <1>5, <1>6, HeldAppend DEF n
<1> QED BY <1>1, <1>7 DEF v

LEMMA HeldFormat ==
  ASSUME NEW w, Sound(w), Whole(w), NEW f \in Kinds,
         w.c.state = "ready" /\ f # NULL /\ f # w.c.fmt => \E s \in Streams : ~w.st[s].made
  PROVE  Held(SetInputFormat(w, f)) = Held(w)
<1> DEFINE v == SetInputFormat(w, f)
           d == IF Playing(w) = NULL THEN w ELSE SetDrain(w, Playing(w), TRUE)
           b == [d EXCEPT !.c.input = NULL, !.c.fmt = f]
<1>0. /\ w \in Worlds /\ w.c \in Contexts /\ Len(w.c.streams) \in Nat
      /\ w.c.state \in {"disabled", "enabled", "ready"} /\ f \in Formats \cup {NULL}
  BY PlayingIs DEF Sound, Worlds, Contexts, Kinds
<1>1. v = CASE w.c.state = "enabled"  -> [w EXCEPT !.c.fmt = f]
            [] w.c.state = "disabled" -> [w EXCEPT !.dead = "invalid state"]
            [] OTHER -> IF f # NULL /\ f = w.c.fmt THEN w
                        ELSE IF f = NULL THEN b ELSE CreateInput(b, f)
  BY DEF SetInputFormat
<1>2. Sound(v)
  BY <1>0, FormatIs
<1> HIDE DEF v
<1>3. CASE w.c.state = "enabled"
  <2>1. v = [w EXCEPT !.c = [w.c EXCEPT !.fmt = f]]
    BY <1>0, <1>1, <1>3 DEF Worlds
  <2>2. v.st = w.st /\ v.c.streams = w.c.streams
    BY <1>0, <2>1 DEF Worlds, Contexts
  <2>3. Held(v) = Held(w)
    BY <1>2, <2>2, HeldSame
  <2> QED BY <2>3 DEF v
<1>4. CASE w.c.state = "disabled"
  <2>1. v = [w EXCEPT !.dead = "invalid state"]
    BY <1>1, <1>4
  <2>2. v.st = w.st /\ v.c = w.c
    BY <1>0, <2>1 DEF Worlds
  <2>3. Held(v) = Held(w)
    BY <1>2, <2>2, HeldSame
  <2> QED BY <2>3 DEF v
<1>5. Sound(d) /\ Held(d) = Held(w) /\ d.c.state = w.c.state
      /\ \A x \in Streams : ~w.st[x].made => ~d.st[x].made
  <2>1. CASE Len(w.c.streams) = 0
    <3>1. d = w
      BY <1>0, <2>1, PlayingIs
    <3> QED BY <3>1
  <2>2. CASE Len(w.c.streams) # 0
    <3>1. Len(w.c.streams) > 0
      BY <1>0, <2>2
    <3>2. Playing(w) = FirstOf(w) /\ FirstOf(w) \in Streams /\ FirstOf(w) # NULL
      BY <1>0, <3>1, PlayingIs
    <3>3. d = SetDrain(w, FirstOf(w), TRUE)
      BY <3>2
    <3> HIDE DEF d
    <3>4. Sound(d) /\ Ended(w, d)
      BY <3>1, <3>3, EndIs
    <3>5. Held(d) = Held(w)
      BY <3>2, <3>3, HeldSetDrain
    <3> QED BY <3>4, <3>5 DEF Ended
  <2> QED BY <2>1, <2>2
<1> HIDE DEF d
<1>6. d \in Worlds /\ d.c \in Contexts /\ d.dead # "assertion"
      /\ b = [d EXCEPT !.c = [d.c EXCEPT !.input = NULL, !.fmt = f]]
  BY <1>5 DEF Sound, Worlds
<1>7. /\ b \in Worlds /\ b.st = d.st /\ b.dead = d.dead
      /\ b.c.streams = d.c.streams /\ b.c.state = d.c.state
  BY <1>0, <1>6 DEF Worlds, Contexts
<1> HIDE DEF b
<1>8. Sound(b)
  BY <1>5, <1>6, <1>7, SameStreams
<1>9. Held(b) = Held(w)
  BY <1>5, <1>7, <1>8, HeldSame
<1>10. CASE w.c.state = "ready"
  <2>1. CASE f # NULL /\ f = w.c.fmt
    BY <1>1, <1>10, <2>1 DEF v
  <2>2. CASE f = NULL
    <3>1. v = b
      BY <1>1, <1>10, <2>2
    <3> QED BY <1>9, <3>1 DEF v
  <2>3. CASE f # NULL /\ f # w.c.fmt
    <3>1. v = CreateInput(b, f)
      BY <1>1, <1>10, <2>3
    <3>2. f \in Formats /\ b.c.state = "ready" /\ \E s \in Streams : ~b.st[s].made
      BY <1>0, <1>5, <1>7, <1>10, <2>3
    <3>3. Held(v) = Held(b)
      BY <1>8, <3>1, <3>2, HeldCreate
    <3> QED BY <1>9, <3>3 DEF v
  <2> QED BY <2>1, <2>2, <2>3
<1> QED BY <1>0, <1>3, <1>4, <1>10

\* n units of audio of format f, as a client writes them into a stream in one call.
Stretch(n, f) == [i \in 1 .. n |-> f]

\* n units are written to the last stream, and one is played of the first.
LEMMA HeldWritten ==
  ASSUME NEW w, Sound(w), NEW v, Sound(v), v.c.streams = w.c.streams,
         NEW f \in Kinds, NEW n \in Nat, NEW s \in Streams,
         Len(w.c.streams) > 0, s = w.c.streams[Len(w.c.streams)],
         \A x \in Streams : x # s => v.st[x] = w.st[x],
         w.st[s].fmt = f, v.st[s].fmt = f, v.st[s].buf = w.st[s].buf + n
  PROVE  Held(v) = Held(w) \o Stretch(n, f)
<1> DEFINE a == Audio(w.c, w.st)
           b == Audio(v.c, v.st)
           m == Len(w.c.streams)
           p == [i \in 1 .. m - 1 |-> a[i]]
           new == [i \in 1 .. n |-> f]
<1>1. /\ a \in Seq(Seq(Kinds)) /\ Len(a) = m /\ m \in Nat
      /\ \A i \in 1 .. m : a[i] = Units(w.st[w.c.streams[i]]) /\ w.c.streams[i] \in Streams
  BY AudioIs
<1>2. /\ b \in Seq(Seq(Kinds)) /\ Len(b) = m
      /\ \A i \in 1 .. m : b[i] = Units(v.st[w.c.streams[i]])
  <2>1. /\ b \in Seq(Seq(Kinds)) /\ Len(b) = Len(v.c.streams)
        /\ \A i \in 1 .. Len(v.c.streams) : b[i] = Units(v.st[v.c.streams[i]])
    BY AudioIs
  <2>2. v.c.streams = w.c.streams
    OBVIOUS
  <2> HIDE DEF b
  <2> QED BY ONLY <2>1, <2>2
<1>3. m \in 1 .. m /\ m - 1 \in Nat
  BY <1>1
<1>4. ASSUME NEW i \in 1 .. m - 1 PROVE b[i] = a[i]
  <2>1. i \in 1 .. m /\ i < m
    BY <1>1
  <2>2. w.c.streams[i] \in Streams /\ w.c.streams[i] # s
    <3>1. w.c.streams[i] < w.c.streams[m] /\ w.c.streams[i] \in Streams
      BY <1>1, <1>3, <2>1 DEF Sound, Listed
    <3> QED BY <3>1 DEF Streams
  <2> QED BY <1>1, <1>2, <2>1, <2>2
<1> HIDE DEF a, b
<1>5. p \in Seq(Seq(Kinds)) /\ Len(p) = m - 1 /\ \A i \in 1 .. m - 1 : p[i] = a[i] /\ p[i] = b[i]
  <2>1. \A i \in 1 .. m - 1 : a[i] \in Seq(Kinds)
    BY <1>1
  <2> QED BY <1>3, <1>4, <2>1
<1> HIDE DEF p
<1>6. FlattenSeq(a) = FlattenSeq(p) \o a[m] /\ FlattenSeq(p) \in Seq(Kinds) /\ a[m] \in Seq(Kinds)
  <2>1. /\ a \in Seq(Seq(Kinds)) /\ p \in Seq(Seq(Kinds)) /\ Len(a) = Len(p) + 1 /\ Len(a) = m
        /\ \A i \in 1 .. Len(p) : a[i] = p[i]
    BY ONLY <1>1, <1>3, <1>5
  <2>2. /\ FlattenSeq(a) = FlattenSeq(p) \o a[Len(a)] /\ FlattenSeq(p) \in Seq(Kinds)
        /\ a[Len(a)] \in Seq(Kinds)
    BY ONLY <2>1, FlatLast, ZenonT(60)
  <2> QED BY ONLY <2>1, <2>2
<1>7. FlattenSeq(b) = FlattenSeq(p) \o b[m]
  <2>1. /\ b \in Seq(Seq(Kinds)) /\ p \in Seq(Seq(Kinds)) /\ Len(b) = Len(p) + 1 /\ Len(b) = m
        /\ \A i \in 1 .. Len(p) : b[i] = p[i]
    BY ONLY <1>1, <1>2, <1>3, <1>5
  <2>2. FlattenSeq(b) = FlattenSeq(p) \o b[Len(b)]
    BY ONLY <2>1, FlatLast, ZenonT(60)
  <2> QED BY ONLY <2>1, <2>2
<1>8. new \in Seq(Kinds)
  OBVIOUS
<1>9. b[m] = a[m] \o new
  <2> DEFINE k == w.st[s].buf
  <2>1. k \in Nat
    BY DEF Sound, Worlds, StreamStates
  <2>2. a[m] = [j \in 1 .. k |-> f] /\ b[m] = [j \in 1 .. k + n |-> f]
    <3>1. a[m] = Units(w.st[s]) /\ b[m] = Units(v.st[s])
      BY <1>1, <1>2, <1>3
    <3>2. w.st[s].fmt = f /\ v.st[s].fmt = f /\ v.st[s].buf = k + n
      OBVIOUS
    <3> QED BY ONLY <3>1, <3>2 DEF Units, k
  <2> HIDE DEF k
  <2>3. [j \in 1 .. k + n |-> f] = [j \in 1 .. k |-> f] \o [i \in 1 .. n |-> f]
    BY ONLY <2>1, n \in Nat
  <2> QED BY <2>2, <2>3
<1> HIDE DEF new
<1>10. (FlattenSeq(p) \o a[m]) \o new = FlattenSeq(p) \o (a[m] \o new)
  <2>1. \A x, y, z \in Seq(Kinds) : (x \o y) \o z = x \o (y \o z)
    <3> SUFFICES ASSUME NEW x \in Seq(Kinds), NEW y \in Seq(Kinds), NEW z \in Seq(Kinds)
                 PROVE  (x \o y) \o z = x \o (y \o z)
      OBVIOUS
    <3> QED BY ONLY x \in Seq(Kinds), y \in Seq(Kinds), z \in Seq(Kinds)
  <2> QED BY <1>6, <1>8, <2>1, ZenonT(60)
<1> QED BY <1>6, <1>7, <1>9, <1>10 DEF Held, a, b, new, Stretch

LEMMA HeldPlayed ==
  ASSUME NEW w, Sound(w), NEW v, Sound(v), v.c.streams = w.c.streams, Len(w.c.streams) > 0,
         \A x \in Streams : x # FirstOf(w) => v.st[x] = w.st[x],
         v.st[FirstOf(w)].fmt = w.st[FirstOf(w)].fmt, w.st[FirstOf(w)].buf > 0,
         v.st[FirstOf(w)].buf = w.st[FirstOf(w)].buf - 1
  PROVE  Held(w) # <<>> /\ Held(v) = Tail(Held(w))
<1> DEFINE a == Audio(w.c, w.st)
           b == Audio(v.c, v.st)
           m == Len(w.c.streams)
           p == [i \in 1 .. m - 1 |-> a[i + 1]]
           h == FirstOf(w)
<1>1. /\ a \in Seq(Seq(Kinds)) /\ Len(a) = m /\ m \in Nat
      /\ \A i \in 1 .. m : a[i] = Units(w.st[w.c.streams[i]]) /\ w.c.streams[i] \in Streams
  BY AudioIs
<1>2. /\ b \in Seq(Seq(Kinds)) /\ Len(b) = m
      /\ \A i \in 1 .. m : b[i] = Units(v.st[w.c.streams[i]])
  <2>1. /\ b \in Seq(Seq(Kinds)) /\ Len(b) = Len(v.c.streams)
        /\ \A i \in 1 .. Len(v.c.streams) : b[i] = Units(v.st[v.c.streams[i]])
    BY AudioIs
  <2>2. v.c.streams = w.c.streams
    OBVIOUS
  <2> HIDE DEF b
  <2> QED BY ONLY <2>1, <2>2
<1>3. 1 \in 1 .. m /\ m - 1 \in Nat /\ h = w.c.streams[1] /\ h \in Streams
  <2>1. m \in Nat /\ m > 0 /\ h = w.c.streams[1]
    BY <1>1 DEF FirstOf
  <2> HIDE DEF m, h
  <2>2. 1 \in 1 .. m /\ m - 1 \in Nat
    BY ONLY <2>1
  <2> QED BY <1>1, <2>1, <2>2, ZenonT(60)
<1>4. ASSUME NEW i \in 1 .. m - 1 PROVE b[i + 1] = a[i + 1]
  <2>1. i + 1 \in 1 .. m /\ i + 1 > 1
    BY <1>1
  <2>2. w.c.streams[i + 1] \in Streams /\ w.c.streams[i + 1] # h
    BY <1>1, <2>1, HeardIsFirst
  <2> QED BY <1>1, <1>2, <2>1, <2>2
<1> HIDE DEF a, b, m
<1>5. p \in Seq(Seq(Kinds)) /\ Len(p) = m - 1
      /\ \A i \in 1 .. m - 1 : p[i] = a[i + 1] /\ p[i] = b[i + 1]
  <2>1. \A i \in 1 .. m - 1 : i + 1 \in 1 .. m
    BY <1>1
  <2>2. \A i \in 1 .. m - 1 : a[i + 1] \in Seq(Kinds)
    BY <1>1, <2>1
  <2>3. m - 1 \in Nat
    BY <1>3
  <2>4. p \in Seq(Seq(Kinds)) /\ Len(p) = m - 1 /\ \A i \in 1 .. m - 1 : p[i] = a[i + 1]
    BY ONLY <2>2, <2>3
  <2> HIDE DEF p
  <2> QED BY ONLY <1>4, <2>4, ZenonT(60)
<1> HIDE DEF p
<1>6. FlattenSeq(a) = a[1] \o FlattenSeq(p) /\ FlattenSeq(p) \in Seq(Kinds) /\ a[1] \in Seq(Kinds)
  <2>0. m \in Nat /\ Len(a) = m /\ Len(p) = m - 1
    BY ONLY <1>1, <1>5, ZenonT(60)
  <2>1. Len(a) = Len(p) + 1 /\ \A i \in 1 .. Len(p) : p[i] = a[i + 1]
    <3>1. Len(a) = Len(p) + 1
      BY ONLY <2>0
    <3> QED BY ONLY <1>5, <2>0, <3>1, ZenonT(60)
  <2> QED BY ONLY <1>1, <1>5, <2>1, FlatFirst, ZenonT(60)
<1>7. FlattenSeq(b) = b[1] \o FlattenSeq(p)
  <2>0. m \in Nat /\ Len(b) = m /\ Len(p) = m - 1
    BY ONLY <1>1, <1>2, <1>5, ZenonT(60)
  <2>1. Len(b) = Len(p) + 1 /\ \A i \in 1 .. Len(p) : p[i] = b[i + 1]
    <3>1. Len(b) = Len(p) + 1
      BY ONLY <2>0
    <3> QED BY ONLY <1>5, <2>0, <3>1, ZenonT(60)
  <2> QED BY ONLY <1>2, <1>5, <2>1, FlatFirst, ZenonT(60)
<1>8. a[1] # <<>> /\ b[1] = Tail(a[1])
  <2> DEFINE k == w.st[h].buf
             f == w.st[h].fmt
  <2>1. k \in Nat /\ k > 0
    BY <1>3 DEF Sound, Worlds, StreamStates
  <2>2. a[1] = [j \in 1 .. k |-> f] /\ b[1] = [j \in 1 .. k - 1 |-> f]
    <3>1. a[1] = Units(w.st[h]) /\ b[1] = Units(v.st[h])
      BY <1>1, <1>2, <1>3
    <3>2. v.st[h].buf = k - 1 /\ v.st[h].fmt = f
      OBVIOUS
    <3> QED BY <3>1, <3>2 DEF Units
  <2> HIDE DEF k, f
  <2>3. [j \in 1 .. k |-> f] # <<>> /\ [j \in 1 .. k - 1 |-> f] = Tail([j \in 1 .. k |-> f])
    BY ONLY <2>1
  <2> QED BY <2>2, <2>3
<1>9. \A x, y \in Seq(Kinds) : x # <<>> => x \o y # <<>> /\ Tail(x \o y) = Tail(x) \o y
  <2> SUFFICES ASSUME NEW x \in Seq(Kinds), NEW y \in Seq(Kinds), x # <<>>
               PROVE  x \o y # <<>> /\ Tail(x \o y) = Tail(x) \o y
    OBVIOUS
  <2> QED BY ONLY x \in Seq(Kinds), y \in Seq(Kinds), x # <<>>
<1>10. a[1] \o FlattenSeq(p) # <<>> /\ Tail(a[1] \o FlattenSeq(p)) = Tail(a[1]) \o FlattenSeq(p)
  BY <1>6, <1>8, <1>9
<1> QED BY <1>6, <1>7, <1>8, <1>10 DEF Held, a, b

\* What is left as pulse_ctx_flush sets the format: nothing that is heard, and
\* the player wants what it may, or the format is new.
LEMMA FlushedIs ==
  ASSUME NEW w, Sound(w), Whole(w), Wanted(w.c, w.st, w.want), NEW f \in Formats \cup {NULL},
         \E s \in Streams : ~w.st[s].made
  PROVE  \E x : /\ CtxFlush(w, f) = SetInputFormat(x, f)
                /\ Sound(x) /\ Whole(x) /\ Tells(w, x) /\ Held(x) = <<>>
                /\ \/ Wanted(x.c, x.st, x.want) /\ (f # NULL \/ ~x.want)
                   \/ x.c.state = "ready" /\ x.c.fmt = NULL
                /\ \/ \E y \in Streams : ~x.st[y].made
                   \/ f # NULL /\ f = x.c.fmt
<1> DEFINE s == Playing(w)
           r == OnlyFirst(w)
           x == IF w.c.state # "ready" THEN w
                ELSE IF s = NULL THEN r
                ELSE IF f = w.st[s].fmt
                     THEN SetInput(IF w.st[s].state = "ready"
                                   THEN [SetDrain(r, s, FALSE) EXCEPT !.st[s].buf = 0,
                                                                      !.st[s].owed = TRUE]
                                   ELSE SetDrain(r, s, FALSE), s)
                ELSE [FreeStream(r, s) EXCEPT !.c.streams = <<>>]
           v == CtxFlush(w, f)
<1>0. /\ w \in Worlds /\ Len(w.c.streams) \in Nat /\ w.c.state \in {"disabled", "enabled", "ready"}
      /\ Len(w.c.streams) = 0 => s = NULL
      /\ Len(w.c.streams) > 0 => s = FirstOf(w) /\ s \in Streams /\ s # NULL
  BY PlayingIs DEF Sound, Worlds, Contexts
<1>1. v = SetInputFormat(x, f)
  BY DEF CtxFlush, OnlyFirst
<1>2. /\ Sound(r) /\ Tells(w, r) /\ r.c.state = w.c.state
      /\ r.c.input = NULL /\ r.c.fmt = NULL /\ r.want = w.want
      /\ Len(r.c.streams) = IF Len(w.c.streams) > 0 THEN 1 ELSE 0
      /\ Len(w.c.streams) > 0 => FirstOf(r) = FirstOf(w) /\ r.st[FirstOf(w)] = w.st[FirstOf(w)]
      /\ \A y \in Streams : ~w.st[y].made => ~r.st[y].made
  BY OnlyFirstIs
<1>3. w.c.state # "ready" => x = w
  OBVIOUS
<1>4. w.c.state = "ready" /\ Len(w.c.streams) = 0 => x = r
  BY <1>0
<1>5. w.c.state = "ready" /\ Len(w.c.streams) > 0 /\ f = w.st[s].fmt => x = Kept(r, FirstOf(r))
  <2> SUFFICES ASSUME w.c.state = "ready", Len(w.c.streams) > 0, f = w.st[s].fmt
               PROVE  x = Kept(r, FirstOf(r))
    OBVIOUS
  <2>1. s # NULL /\ FirstOf(r) = s /\ r.st[s].state = w.st[s].state
    BY <1>0, <1>2
  <2> HIDE DEF r, s
  <2>2. x = SetInput(IF r.st[s].state = "ready"
                     THEN [SetDrain(r, s, FALSE) EXCEPT !.st[s].buf = 0, !.st[s].owed = TRUE]
                     ELSE SetDrain(r, s, FALSE), s)
    BY <2>1
  <2> HIDE DEF x
  <2> QED BY <2>1, <2>2, ZenonT(40) DEF Kept
<1>6. w.c.state = "ready" /\ Len(w.c.streams) > 0 /\ f # w.st[s].fmt
      => x = [FreeStream(r, FirstOf(r)) EXCEPT !.c.streams = <<>>]
  BY <1>0, <1>2
<1> HIDE DEF r, x, v
<1>7. /\ Sound(x) /\ Whole(x) /\ Tells(w, x) /\ Held(x) = <<>>
      /\ \/ Wanted(x.c, x.st, x.want) /\ (f # NULL \/ ~x.want)
         \/ x.c.state = "ready" /\ x.c.fmt = NULL
      /\ \/ \E y \in Streams : ~x.st[y].made
         \/ f # NULL /\ f = x.c.fmt
  <2>1. CASE w.c.state # "ready"
    <3>1. ~w.want
      BY <2>1 DEF Wanted
    <3>2. x = w
      BY <1>3, <2>1
    <3>3. Tells(w, w)
      BY DEF Tells
    <3>4. Held(w) = <<>>
      BY <1>0, <2>1, HeldNone DEF Sound, Listed
    <3> QED BY <3>1, <3>2, <3>3, <3>4
  <2>2. CASE w.c.state = "ready" /\ Len(w.c.streams) = 0
    <3>1. x = r
      BY <1>4, <2>2
    <3>2. Whole(r)
      BY <1>2, <2>2 DEF Whole, InputIsLast, Yields
    <3>3. Held(r) = <<>>
      BY <1>2, <2>2, HeldNone
    <3> QED BY <1>2, <2>2, <3>1, <3>2, <3>3
  <2>3. CASE w.c.state = "ready" /\ Len(w.c.streams) > 0 /\ f = w.st[s].fmt
    <3>1. x = Kept(r, FirstOf(r)) /\ Len(r.c.streams) = 1
      BY <1>2, <1>5, <2>3
    <3>2. /\ Sound(x) /\ Whole(x) /\ Wanted(x.c, x.st, x.want) /\ Tells(r, x)
          /\ x.c.fmt = r.st[FirstOf(r)].fmt
          /\ Len(x.c.streams) = 1 /\ x.st[FirstOf(x)].buf = 0
      BY <1>2, <3>1, KeptIs
    <3>3. Tells(w, x)
      BY <1>2, <3>2, TellsOn
    <3>4. w.st[s].fmt # NULL /\ x.c.fmt = w.st[s].fmt
      <4>1. w.st[s].live
        BY <1>0, <2>3 DEF Sound, Listed, FirstOf
      <4> QED BY <1>0, <1>2, <2>3, <3>2, <4>1 DEF Sound, Listed
    <3>5. Held(x) = <<>>
      BY <3>2, HeldOne
    <3> QED BY <2>3, <3>2, <3>3, <3>4, <3>5
  <2>4. CASE w.c.state = "ready" /\ Len(w.c.streams) > 0 /\ f # w.st[s].fmt
    <3>1. x = [FreeStream(r, FirstOf(r)) EXCEPT !.c.streams = <<>>] /\ Len(r.c.streams) = 1
      BY <1>2, <1>6, <2>4
    <3>2. /\ Sound(x) /\ Len(x.c.streams) = 0
          /\ x.c.state = r.c.state /\ x.c.input = r.c.input /\ x.c.fmt = r.c.fmt
          /\ \A y \in Streams : x.st[y] = IF y = FirstOf(r) THEN Freed ELSE r.st[y]
      BY <1>2, <3>1, FreeOnly
    <3>3. Tells(w, x)
      BY <1>2, <3>2, FreedIs DEF Tells
    <3>4. Whole(x)
      BY <1>2, <3>2 DEF Whole, InputIsLast, Yields
    <3>5. \E y \in Streams : ~x.st[y].made
      <4>1. w.st[s].made
        BY <1>0, <2>4 DEF Sound, Listed, FirstOf
      <4> QED BY <1>0, <1>2, <2>4, <3>2, <4>1
    <3>6. Held(x) = <<>>
      BY <3>2, HeldNone
    <3> QED BY <1>2, <2>4, <3>2, <3>3, <3>4, <3>5, <3>6
  <2> QED BY <1>0, <2>1, <2>2, <2>3, <2>4
<1> QED BY <1>1, <1>7 DEF v

\* What pulse_ctx_flush leaves.
LEMMA FlushIs ==
  ASSUME NEW w, Sound(w), Whole(w), Wanted(w.c, w.st, w.want), NEW f \in Formats \cup {NULL},
         \E s \in Streams : ~w.st[s].made
  PROVE  LET v == CtxFlush(w, f)
         IN /\ Sound(v) /\ Whole(v) /\ Tells(w, v) /\ Held(v) = <<>>
            /\ \/ Wanted(v.c, v.st, v.want)
               \/ f = NULL /\ v.c.state = "ready" /\ v.c.fmt = NULL
            /\ f = NULL => \E s \in Streams : ~v.st[s].made
<1> DEFINE v == CtxFlush(w, f)
<1>1. PICK x : /\ v = SetInputFormat(x, f)
               /\ Sound(x) /\ Whole(x) /\ Tells(w, x) /\ Held(x) = <<>>
               /\ \/ Wanted(x.c, x.st, x.want) /\ (f # NULL \/ ~x.want)
                  \/ x.c.state = "ready" /\ x.c.fmt = NULL
               /\ \/ \E y \in Streams : ~x.st[y].made
                  \/ f # NULL /\ f = x.c.fmt
  BY FlushedIs
<1> HIDE DEF v
<1>2. x.c.state = "ready" /\ f # NULL /\ f # x.c.fmt => \E y \in Streams : ~x.st[y].made
  BY <1>1
<1>3. /\ Sound(v) /\ Whole(v) /\ Tells(x, v)
      /\ \/ Wanted(x.c, x.st, x.want) /\ (f # NULL \/ ~x.want)
         \/ x.c.state = "ready" /\ f # NULL /\ f # x.c.fmt
         => Wanted(v.c, v.st, v.want)
      /\ f = NULL => /\ v.c.state = x.c.state
                     /\ v.c.state = "ready" => v.c.fmt = NULL
                     /\ \A y \in Streams : ~x.st[y].made => ~v.st[y].made
  BY <1>1, <1>2, FormatIs
<1>4. Held(v) = <<>>
  BY <1>1, <1>2, HeldFormat DEF Kinds
<1>5. Tells(w, v)
  BY <1>1, <1>3, TellsOn
<1>6. \/ Wanted(v.c, v.st, v.want)
      \/ f = NULL /\ v.c.state = "ready" /\ v.c.fmt = NULL
  BY <1>1, <1>3
<1> QED BY <1>1, <1>3, <1>4, <1>5, <1>6 DEF v

-----------------------------------------------------------------------------
(* Steps.                                                                  *)

\* No stream that has audio left is freed, except by death.
Cuts ==
  \A s \in Streams : st[s].live /\ ~st'[s].live /\ st[s].buf > 0 => dead' # NULL

\* What is going to be heard stays, or all of it is dropped; or some audio is
\* added to its end, or the first of it is played.
Holding == FlattenSeq(Audio(c, st))

Steady == Holding' \in {Holding, <<>>}

Commits ==
  /\ c.fmt # NULL /\ c'.fmt = c.fmt
  /\ \E n \in 1 .. Block : Holding' = Holding \o [i \in 1 .. n |-> c.fmt]

Plays == Holding # <<>> /\ Holding' = Tail(Holding) /\ c'.fmt = c.fmt

LEMMA WorldIs ==
  ASSUME IInv
  PROVE  /\ World.c = c /\ World.st = st /\ World.want = player.want /\ World.dead = NULL
         /\ Sound(World) /\ Whole(World) /\ Wanted(World.c, World.st, World.want)
         /\ Held(World) = Holding
<1>1. /\ World \in Worlds /\ World.c = c /\ World.st = st /\ World.want = player.want
      /\ World.dead = NULL
  BY DEF IInv, Types, World, Worlds, Players
<1>2. NULL # "assertion"
  BY DEF Deaths
<1> QED BY <1>1, <1>2 DEF IInv, Sound, Whole, Held, Holding

LEMMA DieIs ==
  ASSUME NEW why \in Deaths \ {"assertion"}, Die(why)
  PROVE  IInv' /\ Cuts /\ Holding' = <<>>
<1> DEFINE none == [s \in Streams |-> NoStream]
<1>1. /\ c' = Disabled /\ st' = none /\ asked' = <<>> /\ dead' = why
      /\ player' = [sink |-> "none", want |-> FALSE, paused |-> FALSE, mute |-> FALSE]
  BY DEF Die
<1>2. Disabled \in Contexts /\ Disabled.streams = <<>> /\ Disabled.input = NULL
      /\ Disabled.state = "disabled"
  BY DEF Disabled, Contexts
<1>3. none \in [Streams -> StreamStates]
  BY FreedIs
<1>4. \A s \in Streams : /\ ~none[s].made /\ ~none[s].live /\ none[s].state = "connecting"
                        /\ none[s].buf = 0 /\ none[s].req = 0 /\ ~none[s].drain /\ ~none[s].fed
  BY DEF NoStream
<1> HIDE DEF none
<1>5. Types'
  BY <1>1, <1>2, <1>3 DEF Types, Players
<1>6. Listed(Disabled, none)
  <2>1. 0 \in 0 .. MaxStreams
    OBVIOUS
  <2>2. \E n \in 0 .. MaxStreams : \A s \in Streams : none[s].made <=> s <= n
    BY <1>4, <2>1 DEF Streams
  <2>3. Len(Disabled.streams) = 0
    BY <1>2
  <2> QED BY <1>4, <2>2, <2>3 DEF Listed
<1>7. Idle(none) /\ Behind(Disabled, none) /\ InputIsLast(Disabled, none) /\ Yields(Disabled, none)
  BY <1>2, <1>4 DEF Idle, Behind, InputIsLast, Yields
<1>8. Wanted(Disabled, none, FALSE) /\ Believed(Disabled, none, <<>>)
  BY <1>2 DEF Wanted, Believed
<1>9. Answered(none, <<>>)
  BY <1>4 DEF Answered
<1>10. player'.want = FALSE
  BY <1>1
<1>11. IInv'
  BY <1>1, <1>2, <1>5, <1>6, <1>7, <1>8, <1>9, <1>10 DEF IInv
<1>12. NULL # why
  OBVIOUS
<1>13. Holding' = <<>>
  <2> DEFINE v == [c |-> Disabled, st |-> none, want |-> FALSE, dead |-> NULL]
  <2>1. v \in Worlds /\ v.c = Disabled /\ v.st = none /\ v.dead = NULL
    BY <1>2, <1>3 DEF Worlds
  <2> HIDE DEF v
  <2>2. Sound(v) /\ Len(v.c.streams) = 0
    <3>1. Len(Disabled.streams) = 0 /\ NULL # "assertion"
      BY <1>2, EmptySeq DEF Deaths
    <3> QED BY <1>6, <1>7, <2>1, <3>1 DEF Sound
  <2>3. Held(v) = <<>>
    BY <2>2, HeldNone
  <2> QED BY <1>1, <2>1, <2>3 DEF Held, Holding
<1> QED BY <1>1, <1>11, <1>12, <1>13 DEF Cuts

LEMMA BecomeIs ==
  ASSUME IInv, NEW v, Sound(v), Whole(v), Wanted(v.c, v.st, v.want),
         Answered(v.st, asked), Believed(v.c, v.st, asked),
         NEW sink \in {"loaded", "gone"}, sink = "loaded" \/ v.c.state = "disabled",
         Become(v, sink)
  PROVE  /\ IInv' /\ (Spares(World, v) => Cuts)
         /\ Holding' = <<>> \/ (Holding' = Held(v) /\ c'.fmt = v.c.fmt)
<1>0. v \in Worlds /\ v.dead \in Deaths \cup {NULL} /\ v.dead # "assertion"
  BY DEF Sound, Worlds
<1>1. CASE v.dead # NULL
  <2>1. v.dead \in Deaths \ {"assertion"} /\ Die(v.dead)
    BY <1>0, <1>1 DEF Become
  <2> QED BY <2>1, DieIs
<1>2. CASE v.dead = NULL
  <2>1. /\ c' = v.c /\ st' = v.st /\ player' = [player EXCEPT !.want = v.want, !.sink = sink]
        /\ asked' = asked /\ dead' = dead
    BY <1>2 DEF Become
  <2>2. player \in Players /\ asked \in Seq(Questions) /\ dead \in Deaths \cup {NULL} /\ dead # "assertion"
    BY DEF IInv, Types
  <2>3. /\ v.c \in Contexts /\ v.st \in [Streams -> StreamStates] /\ v.want \in BOOLEAN
    BY <1>0 DEF Worlds
  <2>4. player' \in Players /\ player'.want = v.want /\ player'.sink = sink
    BY <2>1, <2>2, <2>3 DEF Players
  <2>5. Types'
    BY <2>1, <2>2, <2>3, <2>4 DEF Types
  <2>6. IInv'
    BY <2>1, <2>2, <2>4, <2>5 DEF IInv, Sound, Whole
  <2>7. Spares(World, v) => Cuts
    BY <2>1, WorldIs DEF Spares, Cuts
  <2>8. Holding' = Held(v) /\ c'.fmt = v.c.fmt
    BY <2>1 DEF Held, Holding
  <2> QED BY <2>6, <2>7, <2>8
<1> QED BY <1>1, <1>2

LEMMA TellsKeeps ==
  ASSUME NEW w, NEW v, Sound(v), Tells(w, v), NEW q,
         Answered(w.st, q), Believed(w.c, w.st, q)
  PROVE  Answered(v.st, q) /\ Believed(v.c, v.st, q)
<1>1. Answered(v.st, q)
  <2> SUFFICES ASSUME NEW s \in Streams, v.st[s].live, v.st[s].state = "ready", ~v.st[s].news
               PROVE  Current(v.st, q, s)
    BY DEF Answered
  <2>1. /\ Current(w.st, q, s)
        /\ v.st[s].cork = w.st[s].cork /\ v.st[s].mute = w.st[s].mute
    BY DEF Tells, Answered
  <2> QED BY <2>1 DEF Current
<1>2. Believed(v.c, v.st, q)
  <2> DEFINE h == FirstOf(v)
  <2> SUFFICES ASSUME Len(v.c.streams) > 0, v.st[h].state = "ready", ~v.st[h].news,
                      \A i \in 1 .. Len(q) : q[i].s # h
               PROVE  v.c.paused = v.st[h].cork /\ v.c.mute = v.st[h].mute
    BY DEF Believed, FirstOf
  <2>1. h \in Streams /\ v.st[h].live
    <3>1. Len(v.c.streams) \in Nat /\ h \in Streams
      BY PlayingIs DEF Sound
    <3> QED BY <3>1 DEF Sound, Listed, FirstOf
  <2>2. /\ w.st[h].state = "ready" /\ ~w.st[h].news
        /\ v.st[h].cork = w.st[h].cork /\ v.st[h].mute = w.st[h].mute
    BY <2>1 DEF Tells
  <2>3. /\ \/ v.c.paused = v.st[h].cork
           \/ Len(w.c.streams) > 0 /\ FirstOf(w) = h /\ v.c.paused = w.c.paused
        /\ \/ v.c.mute = v.st[h].mute
           \/ Len(w.c.streams) > 0 /\ FirstOf(w) = h /\ v.c.mute = w.c.mute
    BY DEF Tells
  <2>4. Len(w.c.streams) > 0 /\ FirstOf(w) = h => w.c.paused = w.st[h].cork /\ w.c.mute = w.st[h].mute
    <3> HIDE DEF h
    <3> QED BY <2>2 DEF Believed, FirstOf
  <2> QED BY <2>2, <2>3, <2>4
<1> QED BY <1>1, <1>2

\* A step that tells the server's word, and owes nothing.
LEMMA StepIs ==
  ASSUME IInv, NEW v, Sound(v), Whole(v), Wanted(v.c, v.st, v.want), Tells(World, v),
         NEW sink \in {"loaded", "gone"}, sink = "loaded" \/ v.c.state = "disabled",
         Become(v, sink)
  PROVE  /\ IInv' /\ (Spares(World, v) => Cuts)
         /\ Holding' = <<>> \/ (Holding' = Held(v) /\ c'.fmt = v.c.fmt)
<1>1. Answered(World.st, asked) /\ Believed(World.c, World.st, asked)
  BY WorldIs DEF IInv
<1>2. Answered(v.st, asked) /\ Believed(v.c, v.st, asked)
  BY <1>1, TellsKeeps
<1> QED BY <1>2, BecomeIs

\* Without streams, and with no wish to write, there is nothing to tell.
LEMMA NoStreams ==
  ASSUME IInv, NEW v \in Worlds, v.c.streams = <<>>, v.c.input = NULL, v.want = FALSE,
         v.dead # "assertion", \A s \in Streams : ~st[s].live /\ v.st[s] = st[s]
  PROVE  Sound(v) /\ Whole(v) /\ Wanted(v.c, v.st, v.want) /\ Tells(World, v) /\ Spares(World, v)
         /\ Held(v) = <<>>
<1>1. Len(v.c.streams) = 0
  BY EmptySeq
<1>2. Listed(v.c, v.st)
  <2>1. Listed(c, st)
    BY DEF IInv
  <2>2. \E n \in 0 .. MaxStreams : \A s \in Streams : v.st[s].made <=> s <= n
    BY <2>1 DEF Listed
  <2> QED BY <1>1, <2>2 DEF Listed
<1>3. Idle(v.st)
  BY DEF IInv, Idle
<1>4. Sound(v) /\ Whole(v) /\ Wanted(v.c, v.st, v.want)
  BY <1>1, <1>2, <1>3 DEF Sound, Behind, Whole, InputIsLast, Yields, Wanted
<1>5. Tells(World, v) /\ Spares(World, v)
  BY <1>1, WorldIs DEF Tells, Spares
<1>6. Held(v) = <<>>
  BY <1>1, <1>4, HeldNone
<1> QED BY <1>4, <1>5, <1>6

\* Only a context that is ready has streams, or an input, or asks for data.
LEMMA IdleContext ==
  ASSUME IInv, c.state # "ready"
  PROVE  /\ c.streams = <<>> /\ c.input = NULL /\ player.want = FALSE
         /\ \A s \in Streams : ~st[s].live
<1>1. c.streams \in Seq(Streams) /\ Len(c.streams) = 0
  BY DEF IInv, Types, Contexts, Listed
<1>2. \A s \in Streams : ~st[s].live
  BY <1>1 DEF IInv, Listed
<1>3. c.input = NULL
  BY <1>1 DEF IInv, InputIsLast
<1>4. player.want = FALSE
  BY DEF IInv, Wanted, Types, Players
<1> QED BY <1>1, <1>2, <1>3, <1>4

LEMMA EnableKeeps ==
  ASSUME IInv, NEW f \in Formats \cup {NULL}, Enable(f)
  PROVE  IInv' /\ Cuts /\ Steady
<1>1. PICK rc \in BOOLEAN :
        LET v == [World EXCEPT !.c.state = IF rc THEN "enabled" ELSE "disabled"]
            w == IF f = NULL THEN v ELSE SetInputFormat(v, f)
        IN Become(w, "loaded")
  BY DEF Enable
<1> DEFINE a == IF rc THEN "enabled" ELSE "disabled"
           v == [World EXCEPT !.c.state = a]
           w == IF f = NULL THEN v ELSE SetInputFormat(v, f)
<1>2. a \in {"enabled", "disabled"}
  OBVIOUS
<1> HIDE DEF a
<1>3. c.state # "ready"
  BY DEF IInv, Enable
<1>4. World \in Worlds /\ World.c \in Contexts /\ World.c = c /\ World.st = st
      /\ World.want = player.want /\ World.dead = NULL
  BY WorldIs DEF Sound, Worlds
<1>5. /\ v \in Worlds /\ v.c.streams = c.streams /\ v.c.input = c.input /\ v.c.state = a
      /\ v.st = st /\ v.want = player.want /\ v.dead = NULL
  BY <1>2, <1>4 DEF Worlds, Contexts
<1> HIDE DEF v
<1>6. NULL # "assertion"
  BY DEF Deaths
<1>7. /\ Sound(v) /\ Whole(v) /\ Wanted(v.c, v.st, v.want) /\ Tells(World, v) /\ Spares(World, v)
      /\ Held(v) = <<>>
  BY <1>3, <1>5, <1>6, IdleContext, NoStreams
<1>8. CASE f = NULL
  <2>1. Become(v, "loaded")
    BY <1>1, <1>8 DEF v, a
  <2>2. IInv' /\ (Spares(World, v) => Cuts) /\ Holding' \in {Held(v), <<>>}
    BY <1>7, <2>1, StepIs
  <2> QED BY <1>7, <2>2 DEF Steady
<1>9. CASE f # NULL
  <2>1. Become(w, "loaded") /\ w = SetInputFormat(v, f)
    BY <1>1, <1>9 DEF v, a
  <2>2. v.c.state # "ready"
    BY <1>2, <1>5
  <2> HIDE DEF w
  <2>3. /\ Sound(w) /\ Whole(w) /\ Tells(v, w) /\ Spares(v, w) /\ Wanted(w.c, w.st, w.want)
    BY <1>7, <1>9, <2>1, <2>2, FormatIs
  <2>4. Tells(World, w)
    BY <1>7, <2>3, TellsOn
  <2>5. Spares(World, w)
    BY <1>4, <1>5, <2>3 DEF Spares
  <2>6. Held(w) = <<>>
    BY <1>7, <1>9, <2>1, <2>2, HeldFormat DEF Kinds
  <2>7. IInv' /\ (Spares(World, w) => Cuts) /\ Holding' \in {Held(w), <<>>}
    BY <2>1, <2>3, <2>4, StepIs
  <2> QED BY <2>5, <2>6, <2>7 DEF Steady
<1> QED BY <1>8, <1>9

\* A call of set_input_format, and what the player does before.
LEMMA FormatKeeps ==
  ASSUME IInv, NEW f \in Formats \cup {NULL},
         NEW want \in BOOLEAN, want => player.want /\ f # NULL,
         f # NULL => \E s \in Streams : ~st[s].made,
         Become(SetInputFormat([World EXCEPT !.want = want], f), "loaded")
  PROVE  IInv' /\ Cuts /\ Steady
<1> DEFINE v == [World EXCEPT !.want = want]
           w == SetInputFormat(v, f)
<1>1. /\ v \in Worlds /\ v.c = World.c /\ v.st = World.st /\ v.want = want /\ v.dead = World.dead
      /\ World.c = c /\ World.st = st /\ World.want = player.want
  BY WorldIs DEF Sound, Worlds
<1> HIDE DEF v
<1>2. Sound(v) /\ Whole(v)
  BY <1>1, WorldIs DEF Sound, Whole
<1>3. Wanted(v.c, v.st, v.want)
  BY <1>1, WorldIs DEF Wanted
<1>4. Tells(World, v) /\ Spares(World, v)
  BY <1>1 DEF Tells, Spares, FirstOf
<1>5. Become(w, "loaded")
  BY DEF v
<1>6. /\ Sound(w) /\ Whole(w) /\ Tells(v, w) /\ Spares(v, w) /\ Wanted(w.c, w.st, w.want)
  BY <1>1, <1>2, <1>3, FormatIs
<1> HIDE DEF w
<1>7. Tells(World, w)
  BY <1>2, <1>4, <1>6, TellsOn
<1>8. Spares(World, w)
  BY <1>1, <1>6 DEF Spares
<1>9. Held(w) = Holding
  <2>1. Held(v) = Holding
    BY <1>1, <1>2, WorldIs, HeldSame
  <2>2. Held(w) = Held(v)
    BY <1>1, <1>2, HeldFormat DEF Kinds, w
  <2> QED BY <2>1, <2>2
<1>10. IInv' /\ (Spares(World, w) => Cuts) /\ Holding' \in {Held(w), <<>>}
  BY <1>5, <1>6, <1>7, StepIs
<1> QED BY <1>8, <1>9, <1>10 DEF Steady

LEMMA FirstFormatKeeps ==
  ASSUME IInv, NEW f \in Formats, FirstFormat(f)
  PROVE  IInv' /\ Cuts /\ Steady
<1>1. [World EXCEPT !.want = player.want] = World
  BY DEF World
<1>2. player.want \in BOOLEAN
  BY DEF IInv, Types, Players
<1> QED BY <1>1, <1>2, FormatKeeps DEF FirstFormat, Room

LEMMA StopInputKeeps ==
  ASSUME IInv, StopInput
  PROVE  IInv' /\ Cuts /\ Steady
<1>1. player.sink = "loaded" /\ Become(SetInputFormat([World EXCEPT !.want = FALSE], NULL), player.sink)
  BY DEF StopInput
<1> QED BY <1>1, FormatKeeps

LEMMA DisableKeeps ==
  ASSUME IInv, Disable
  PROVE  IInv' /\ Steady
<1> DEFINE v == [World EXCEPT !.want = FALSE]
           w == SetInputFormat(v, NULL)
           gone == [s \in Streams |-> IF w.st[s].live THEN Freed ELSE w.st[s]]
           x == [w EXCEPT !.c = Disabled, !.st = gone, !.want = FALSE]
<1>0. Become(x, "gone")
  BY DEF Disable
<1>1. /\ v \in Worlds /\ v.c = World.c /\ v.st = World.st /\ v.want = FALSE /\ v.dead = World.dead
      /\ World.c = c /\ World.st = st
  BY WorldIs DEF Sound, Worlds
<1> HIDE DEF v
<1>2. Sound(v) /\ Whole(v)
  BY <1>1, WorldIs DEF Sound, Whole
<1>3. Sound(w)
  BY <1>2, FormatIs
<1> HIDE DEF w
<1>4. /\ Disabled \in Contexts /\ Disabled.streams = <<>> /\ Disabled.input = NULL
      /\ Disabled.state = "disabled"
  BY DEF Disabled, Contexts
<1>5. w \in Worlds /\ w.st \in [Streams -> StreamStates] /\ w.dead # "assertion"
      /\ Listed(w.c, w.st) /\ Idle(w.st)
  BY <1>3 DEF Sound, Worlds
<1>6. gone \in [Streams -> StreamStates]
  BY <1>5, FreedIs
<1>7. \A s \in Streams : /\ gone[s].made <=> w.st[s].made
                        /\ ~gone[s].live
                        /\ gone[s].state = "connecting" /\ gone[s].buf = 0 /\ gone[s].req = 0
                        /\ ~gone[s].drain /\ ~gone[s].fed
  <2> SUFFICES ASSUME NEW s \in Streams
               PROVE  /\ gone[s].made <=> w.st[s].made
                      /\ ~gone[s].live
                      /\ gone[s].state = "connecting" /\ gone[s].buf = 0 /\ gone[s].req = 0
                      /\ ~gone[s].drain /\ ~gone[s].fed
    OBVIOUS
  <2>1. CASE w.st[s].live
    BY <1>5, <2>1, FreedIs DEF Listed
  <2>2. CASE ~w.st[s].live
    BY <1>5, <2>2 DEF Idle
  <2> QED BY <2>1, <2>2
<1> HIDE DEF gone
<1>8. x \in Worlds /\ x.c = Disabled /\ x.st = gone /\ x.want = FALSE /\ x.dead # "assertion"
  BY <1>4, <1>5, <1>6 DEF Worlds
<1> HIDE DEF x
<1>9. Len(Disabled.streams) = 0
  BY <1>4, EmptySeq
<1>10. Sound(x)
  <2>1. \E n \in 0 .. MaxStreams : \A s \in Streams : gone[s].made <=> s <= n
    BY <1>5, <1>7 DEF Listed
  <2>2. Listed(Disabled, gone)
    BY <1>7, <1>9, <2>1 DEF Listed
  <2> QED BY <1>7, <1>8, <1>9, <2>2 DEF Sound, Idle, Behind
<1>11. Whole(x) /\ Wanted(x.c, x.st, x.want) /\ Tells(World, x)
  BY <1>4, <1>7, <1>8, <1>9 DEF Whole, InputIsLast, Yields, Wanted, Tells
<1>12. Held(x) = <<>>
  BY <1>8, <1>9, <1>10, HeldNone
<1>13. IInv' /\ Holding' \in {Held(x), <<>>}
  BY <1>0, <1>4, <1>8, <1>10, <1>11, StepIs
<1> QED BY <1>12, <1>13 DEF Steady

LEMMA FlushInputKeeps ==
  ASSUME IInv, NEW f \in Formats, FlushInput(f)
  PROVE  IInv' /\ Steady
<1>0. /\ World.c = c /\ World.st = st /\ World.want = player.want
      /\ Sound(World) /\ Whole(World) /\ Wanted(World.c, World.st, World.want)
  BY WorldIs
<1>1. (\E s \in Streams : ~World.st[s].made) /\ player.sink = "loaded"
  BY <1>0 DEF FlushInput, Room
<1>2. f # NULL /\ f \in Formats \cup {NULL} /\ NULL \in Formats \cup {NULL}
  OBVIOUS
<1>3. CASE Become(CtxFlush(World, f), player.sink)
  <2> DEFINE v == CtxFlush(World, f)
  <2>1. Sound(v) /\ Whole(v) /\ Tells(World, v) /\ Wanted(v.c, v.st, v.want) /\ Held(v) = <<>>
    BY <1>0, <1>1, <1>2, FlushIs
  <2>2. IInv' /\ Holding' \in {Held(v), <<>>}
    BY <1>1, <1>3, <2>1, StepIs
  <2> QED BY <2>1, <2>2 DEF Steady
<1>4. CASE Become(SetInputFormat(CtxFlush(World, NULL), f), player.sink)
  <2> DEFINE u == CtxFlush(World, NULL)
             v == SetInputFormat(u, f)
  <2>1. /\ Sound(u) /\ Whole(u) /\ Tells(World, u) /\ Held(u) = <<>>
        /\ Wanted(u.c, u.st, u.want) \/ (u.c.state = "ready" /\ u.c.fmt = NULL)
        /\ \E s \in Streams : ~u.st[s].made
    BY <1>0, <1>1, <1>2, FlushIs
  <2>2. Become(v, "loaded")
    BY <1>1, <1>4
  <2> HIDE DEF u
  <2>3. Sound(v) /\ Whole(v) /\ Tells(u, v) /\ Wanted(v.c, v.st, v.want)
    BY <1>2, <2>1, FormatIs
  <2>4. Held(v) = <<>>
    BY <1>2, <2>1, HeldFormat DEF Kinds
  <2> HIDE DEF v
  <2>5. Tells(World, v)
    BY <2>1, <2>3, TellsOn
  <2>6. IInv' /\ Holding' \in {Held(v), <<>>}
    BY <2>2, <2>3, <2>5, StepIs
  <2> QED BY <2>4, <2>6 DEF Steady
<1> QED BY <1>3, <1>4 DEF FlushInput

\* A change of the context's flags, with the stream that is heard or without.
LEMMA FlagsKept ==
  ASSUME IInv, NEW v, Sound(v), v.c.streams = c.streams, v.c.input = c.input,
         v.c.fmt = c.fmt, v.c.state = c.state, v.want = player.want,
         \A s \in Streams :
           /\ v.st[s].live = st[s].live /\ v.st[s].fmt = st[s].fmt
           /\ v.st[s].state = st[s].state /\ v.st[s].drain = st[s].drain
           /\ v.st[s].buf = st[s].buf /\ v.st[s].fed = st[s].fed /\ v.st[s].owed = st[s].owed
           /\ v.st[s].state = "ready" /\ ~v.st[s].news
              => ~st[s].news /\ v.st[s].cork = st[s].cork /\ v.st[s].mute = st[s].mute,
         Believed(v.c, v.st, asked), Become(v, "loaded")
  PROVE  IInv' /\ Cuts /\ Steady
<1>1. c.input # NULL => c.input \in Streams
  BY DEF IInv, Types, Contexts
<1>2. Len(c.streams) > 0 => c.streams[1] \in Streams
  BY WorldIs, PlayingIs DEF Sound, FirstOf
<1>3. InputIsLast(v.c, v.st)
  BY <1>1 DEF IInv, InputIsLast
<1>4. Yields(v.c, v.st)
  BY <1>2 DEF IInv, Yields
<1>5. Wanted(v.c, v.st, v.want)
  BY <1>1 DEF IInv, Wanted
<1>6. Answered(v.st, asked)
  <2> SUFFICES ASSUME NEW s \in Streams, v.st[s].live, v.st[s].state = "ready", ~v.st[s].news
               PROVE  Current(v.st, asked, s)
    BY DEF Answered
  <2>1. /\ Current(st, asked, s)
        /\ v.st[s].cork = st[s].cork /\ v.st[s].mute = st[s].mute
    BY DEF IInv, Answered
  <2> QED BY <2>1 DEF Current
<1>7. Spares(World, v)
  BY WorldIs DEF Spares
<1>8. IInv' /\ (Spares(World, v) => Cuts) /\ Holding' \in {Held(v), <<>>}
  BY <1>3, <1>4, <1>5, <1>6, BecomeIs DEF Whole
<1>9. Held(v) = Holding
  <2>1. Sound(World) /\ v.c.streams = World.c.streams /\ Held(World) = Holding
        /\ \A x \in Streams : v.st[x].buf = World.st[x].buf /\ v.st[x].fmt = World.st[x].fmt
    BY WorldIs
  <2> QED BY <2>1, HeldSame
<1> QED BY <1>7, <1>8, <1>9 DEF Steady

LEMMA TogglePauseKeeps ==
  ASSUME IInv, TogglePause
  PROVE  IInv' /\ Cuts /\ Steady
<1> DEFINE b == ~player.paused
           w == [World EXCEPT !.c.paused = b]
           v == IF Playing(w) = NULL THEN w ELSE SetStreamPause(w, Playing(w), b)
<1>0. player.sink = "loaded" /\ Become(v, "loaded")
  BY DEF TogglePause
<1>1. b \in BOOLEAN
  OBVIOUS
<1> HIDE DEF b
<1>2. World \in Worlds /\ World.c \in Contexts /\ World.c = c /\ World.st = st
      /\ World.want = player.want /\ World.dead = NULL /\ Sound(World)
  BY WorldIs DEF Sound, Worlds
<1>3. /\ w \in Worlds /\ w.c.streams = c.streams /\ w.c.input = c.input /\ w.c.fmt = c.fmt
      /\ w.c.state = c.state /\ w.c.mute = c.mute /\ w.c.paused = b
      /\ w.st = st /\ w.want = player.want /\ w.dead = NULL
  BY <1>1, <1>2 DEF Worlds, Contexts
<1>4. (Len(w.c.streams) = 0 => v = w)
      /\ (Len(w.c.streams) > 0 => v = SetStreamPause(w, FirstOf(w), b) /\ FirstOf(w) \in Streams)
      /\ Len(w.c.streams) \in Nat
  <2>1. Len(w.c.streams) > 0 => Playing(w) = FirstOf(w) /\ Playing(w) # NULL /\ FirstOf(w) \in Streams
    BY <1>3, PlayingIs
  <2>2. (Len(w.c.streams) = 0 => Playing(w) = NULL) /\ Len(w.c.streams) \in Nat
    BY <1>3, PlayingIs
  <2> QED BY <2>1, <2>2
<1> HIDE DEF w, v
<1>5. Sound(w)
  <2>1. /\ Sound(World) /\ w \in Worlds /\ w.dead # "assertion" /\ w.st = World.st
        /\ w.c.streams = World.c.streams /\ w.c.state = World.c.state
    BY <1>2, <1>3 DEF Sound
  <2> QED BY ONLY <2>1, SameStreams
<1>6. CASE Len(w.c.streams) = 0
  <2>1. Believed(v.c, v.st, asked)
    BY <1>4, <1>6 DEF Believed
  <2> QED BY <1>0, <1>3, <1>4, <1>5, <1>6, <2>1, FlagsKept
<1>7. CASE Len(w.c.streams) # 0
  <2> DEFINE h == FirstOf(w)
  <2>1. /\ Sound(v) /\ Alike(w, v) /\ v.st[h].mute = w.st[h].mute /\ h \in Streams
        /\ w.st[h].state = "ready" => /\ v.st[h].cork = b
                                      /\ v.st[h].news <=> w.st[h].news \/ w.st[h].cork # b
    BY <1>1, <1>4, <1>5, <1>7, PauseIs
  <2>2. /\ v.c.streams = c.streams /\ v.c.input = c.input /\ v.c.fmt = c.fmt
        /\ v.c.state = c.state /\ v.want = player.want
        /\ v.c.mute = c.mute /\ v.c.paused = b
    BY <1>3, <2>1 DEF Alike
  <2> HIDE DEF h
  <2>3. \A s \in Streams :
          /\ v.st[s].live = st[s].live /\ v.st[s].fmt = st[s].fmt
          /\ v.st[s].state = st[s].state /\ v.st[s].drain = st[s].drain
          /\ v.st[s].buf = st[s].buf /\ v.st[s].fed = st[s].fed /\ v.st[s].owed = st[s].owed
          /\ s # h => v.st[s] = st[s]
    BY <1>3, <2>1 DEF Alike, h
  <2>4. v.st[h].state = "ready" /\ ~v.st[h].news
        => ~st[h].news /\ v.st[h].cork = st[h].cork /\ v.st[h].mute = st[h].mute
    BY <1>3, <2>1, <2>3
  <2>5. \A s \in Streams :
          v.st[s].state = "ready" /\ ~v.st[s].news
          => ~st[s].news /\ v.st[s].cork = st[s].cork /\ v.st[s].mute = st[s].mute
    BY <2>3, <2>4
  <2>6. Believed(v.c, v.st, asked)
    <3> SUFFICES ASSUME v.st[h].state = "ready", ~v.st[h].news,
                        \A i \in 1 .. Len(asked) : asked[i].s # h
                 PROVE  v.c.paused = v.st[h].cork /\ v.c.mute = v.st[h].mute
      BY <1>3, <2>2 DEF Believed, FirstOf, h
    <3>1. c.streams[1] = h /\ Len(c.streams) > 0
      BY <1>3, <1>4, <1>7 DEF FirstOf, h
    <3>2. st[h].state = "ready" /\ ~st[h].news
      BY <2>1, <2>3, <2>4
    <3>3. c.mute = st[h].mute
      BY <3>1, <3>2 DEF IInv, Believed
    <3> QED BY <1>3, <2>1, <2>2, <3>2, <3>3
  <2> QED BY <1>0, <2>1, <2>2, <2>3, <2>5, <2>6, FlagsKept
<1> QED BY <1>4, <1>6, <1>7

LEMMA ToggleMuteKeeps ==
  ASSUME IInv, ToggleMute
  PROVE  IInv' /\ Cuts /\ Steady
<1> DEFINE b == ~player.mute
           w == [World EXCEPT !.c.mute = b]
           v == IF Playing(w) = NULL THEN w ELSE SetStreamMute(w, Playing(w), b)
<1>0. player.sink = "loaded" /\ Become(v, "loaded")
  BY DEF ToggleMute
<1>1. b \in BOOLEAN
  OBVIOUS
<1> HIDE DEF b
<1>2. World \in Worlds /\ World.c \in Contexts /\ World.c = c /\ World.st = st
      /\ World.want = player.want /\ World.dead = NULL /\ Sound(World)
  BY WorldIs DEF Sound, Worlds
<1>3. /\ w \in Worlds /\ w.c.streams = c.streams /\ w.c.input = c.input /\ w.c.fmt = c.fmt
      /\ w.c.state = c.state /\ w.c.paused = c.paused /\ w.c.mute = b
      /\ w.st = st /\ w.want = player.want /\ w.dead = NULL
  BY <1>1, <1>2 DEF Worlds, Contexts
<1>4. (Len(w.c.streams) = 0 => v = w)
      /\ (Len(w.c.streams) > 0 => v = SetStreamMute(w, FirstOf(w), b) /\ FirstOf(w) \in Streams)
      /\ Len(w.c.streams) \in Nat
  <2>1. Len(w.c.streams) > 0 => Playing(w) = FirstOf(w) /\ Playing(w) # NULL /\ FirstOf(w) \in Streams
    BY <1>3, PlayingIs
  <2>2. (Len(w.c.streams) = 0 => Playing(w) = NULL) /\ Len(w.c.streams) \in Nat
    BY <1>3, PlayingIs
  <2> QED BY <2>1, <2>2
<1> HIDE DEF w, v
<1>5. Sound(w)
  <2>1. /\ Sound(World) /\ w \in Worlds /\ w.dead # "assertion" /\ w.st = World.st
        /\ w.c.streams = World.c.streams /\ w.c.state = World.c.state
    BY <1>2, <1>3 DEF Sound
  <2> QED BY ONLY <2>1, SameStreams
<1>6. CASE Len(w.c.streams) = 0
  <2>1. Believed(v.c, v.st, asked)
    BY <1>4, <1>6 DEF Believed
  <2> QED BY <1>0, <1>3, <1>4, <1>5, <1>6, <2>1, FlagsKept
<1>7. CASE Len(w.c.streams) # 0
  <2> DEFINE h == FirstOf(w)
  <2>1. /\ Sound(v) /\ Alike(w, v) /\ v.st[h].cork = w.st[h].cork /\ h \in Streams
        /\ w.st[h].state = "ready" => /\ v.st[h].mute = b
                                      /\ v.st[h].news <=> w.st[h].news \/ w.st[h].mute # b
    BY <1>1, <1>4, <1>5, <1>7, MuteIs
  <2>2. /\ v.c.streams = c.streams /\ v.c.input = c.input /\ v.c.fmt = c.fmt
        /\ v.c.state = c.state /\ v.want = player.want
        /\ v.c.paused = c.paused /\ v.c.mute = b
    BY <1>3, <2>1 DEF Alike
  <2> HIDE DEF h
  <2>3. \A s \in Streams :
          /\ v.st[s].live = st[s].live /\ v.st[s].fmt = st[s].fmt
          /\ v.st[s].state = st[s].state /\ v.st[s].drain = st[s].drain
          /\ v.st[s].buf = st[s].buf /\ v.st[s].fed = st[s].fed /\ v.st[s].owed = st[s].owed
          /\ s # h => v.st[s] = st[s]
    BY <1>3, <2>1 DEF Alike, h
  <2>4. v.st[h].state = "ready" /\ ~v.st[h].news
        => ~st[h].news /\ v.st[h].cork = st[h].cork /\ v.st[h].mute = st[h].mute
    BY <1>3, <2>1, <2>3
  <2>5. \A s \in Streams :
          v.st[s].state = "ready" /\ ~v.st[s].news
          => ~st[s].news /\ v.st[s].cork = st[s].cork /\ v.st[s].mute = st[s].mute
    BY <2>3, <2>4
  <2>6. Believed(v.c, v.st, asked)
    <3> SUFFICES ASSUME v.st[h].state = "ready", ~v.st[h].news,
                        \A i \in 1 .. Len(asked) : asked[i].s # h
                 PROVE  v.c.paused = v.st[h].cork /\ v.c.mute = v.st[h].mute
      BY <1>3, <2>2 DEF Believed, FirstOf, h
    <3>1. c.streams[1] = h /\ Len(c.streams) > 0
      BY <1>3, <1>4, <1>7 DEF FirstOf, h
    <3>2. st[h].state = "ready" /\ ~st[h].news
      BY <2>1, <2>3, <2>4
    <3>3. c.paused = st[h].cork
      BY <3>1, <3>2 DEF IInv, Believed
    <3> QED BY <1>3, <2>1, <2>2, <3>2, <3>3
  <2> QED BY <1>0, <2>1, <2>2, <2>3, <2>5, <2>6, FlagsKept
<1> QED BY <1>4, <1>6, <1>7

LEMMA ContextReadyKeeps ==
  ASSUME IInv, ContextReady
  PROVE  IInv' /\ Cuts /\ Steady
<1> DEFINE w == [World EXCEPT !.c.state = "ready"]
           v == IF c.fmt = NULL THEN w ELSE CreateInput(w, c.fmt)
<1>0. Become(v, player.sink) /\ c.state = "enabled" /\ (c.fmt = NULL \/ Room)
  BY DEF ContextReady
<1>1. World \in Worlds /\ World.c \in Contexts /\ World.c = c /\ World.st = st
      /\ World.want = player.want /\ World.dead = NULL /\ c.fmt \in Formats \cup {NULL}
  BY WorldIs DEF Sound, Worlds, Contexts
<1>2. /\ w \in Worlds /\ w.c.streams = c.streams /\ w.c.input = c.input /\ w.c.state = "ready"
      /\ w.st = st /\ w.want = player.want /\ w.dead = NULL
  BY <1>1 DEF Worlds, Contexts
<1> HIDE DEF w, v
<1>3. NULL # "assertion" /\ player.sink = "loaded"
  BY <1>0 DEF IInv, Deaths
<1>4. /\ Sound(w) /\ Whole(w) /\ Wanted(w.c, w.st, w.want) /\ Tells(World, w) /\ Spares(World, w)
      /\ Held(w) = <<>>
  BY <1>0, <1>2, <1>3, IdleContext, NoStreams
<1>5. CASE c.fmt = NULL
  <2>1. v = w
    BY <1>5 DEF v
  <2>2. IInv' /\ (Spares(World, w) => Cuts) /\ Holding' \in {Held(w), <<>>}
    BY <1>0, <1>3, <1>4, <2>1, StepIs
  <2> QED BY <1>4, <2>2 DEF Steady
<1>6. CASE c.fmt # NULL
  <2>1. v = CreateInput(w, c.fmt) /\ c.fmt \in Formats
    BY <1>1, <1>6 DEF v
  <2>2. \E s \in Streams : ~w.st[s].made
    BY <1>0, <1>2, <1>6 DEF Room
  <2>3. Sound(v) /\ Creates(w, c.fmt, v)
    BY <1>2, <1>4, <2>1, <2>2, CreateIs
  <2>4. Len(w.c.streams) = 0
    BY <1>0, <1>2, IdleContext, EmptySeq
  <2>5. /\ Tells(World, v) /\ Spares(World, v)
        /\ InputIsLast(v.c, v.st) /\ Wanted(v.c, v.st, v.want) /\ Yields(v.c, v.st)
    BY <1>4, <2>1, <2>3, <2>4, CreateKeeps
  <2>6. Held(v) = <<>>
    BY <1>2, <1>4, <2>1, <2>2, HeldCreate
  <2>7. IInv' /\ (Spares(World, v) => Cuts) /\ Holding' \in {Held(v), <<>>}
    BY <1>0, <1>3, <2>3, <2>5, StepIs DEF Whole
  <2> QED BY <2>5, <2>6, <2>7 DEF Steady
<1> QED BY <1>5, <1>6

LEMMA DrainDoneKeeps ==
  ASSUME IInv, NEW s \in Streams, DrainDone(s)
  PROVE  IInv' /\ Cuts /\ Steady
<1> DEFINE w == [World EXCEPT !.st[s].drain = FALSE]
           v == Drained(w, s)
<1>0. st[s].drain /\ st[s].buf = 0 /\ Become(v, player.sink)
  BY DEF DrainDone
<1>1. World \in Worlds /\ World.st \in [Streams -> StreamStates] /\ World.c = c /\ World.st = st
      /\ World.want = player.want /\ World.dead = NULL
      /\ Sound(World) /\ Whole(World) /\ Wanted(World.c, World.st, World.want)
  BY WorldIs DEF Sound, Worlds
<1>2. st[s].state = "ready" /\ st[s].live
  <2>1. st[s].state \in {"connecting", "ready"}
    BY <1>1 DEF StreamStates
  <2> QED BY <1>0, <2>1 DEF IInv, Idle
<1>3. /\ Sound(w) /\ w.c = c /\ w.want = player.want
      /\ \A x \in Streams :
           /\ w.st[x].made = st[x].made /\ w.st[x].live = st[x].live
           /\ w.st[x].fmt = st[x].fmt /\ w.st[x].state = st[x].state
           /\ w.st[x].req = st[x].req /\ w.st[x].buf = st[x].buf
           /\ w.st[x].cork = st[x].cork /\ w.st[x].mute = st[x].mute
           /\ w.st[x].fed = st[x].fed /\ w.st[x].owed = st[x].owed
           /\ w.st[x].news = st[x].news
           /\ x # s => w.st[x].drain = st[x].drain
  <2>1. w = SetDrain(World, s, FALSE)
    BY <1>1, <1>2 DEF SetDrain
  <2> HIDE DEF w
  <2>2. \A b \in BOOLEAN :
          LET u == SetDrain(World, s, b)
          IN /\ Sound(u) /\ u.c = c /\ u.want = player.want
             /\ \A x \in Streams :
                  /\ u.st[x].made = st[x].made /\ u.st[x].live = st[x].live
                  /\ u.st[x].fmt = st[x].fmt /\ u.st[x].state = st[x].state
                  /\ u.st[x].req = st[x].req /\ u.st[x].buf = st[x].buf
                  /\ u.st[x].cork = st[x].cork /\ u.st[x].mute = st[x].mute
                  /\ u.st[x].fed = st[x].fed /\ u.st[x].owed = st[x].owed
                  /\ u.st[x].news = st[x].news
                  /\ x # s => u.st[x].drain = st[x].drain
    BY <1>1, <1>2, SetDrainReady
  <2> QED BY <2>1, <2>2, Zenon
<1> HIDE DEF w
<1>4. Sound(v) /\ Tells(w, v) /\ Drains(w, s, v)
  BY <1>3, DrainedIs
<1> HIDE DEF v
<1>5. Tells(World, w)
  BY <1>1, <1>3 DEF Tells, FirstOf
<1>6. Tells(World, v)
  BY <1>3, <1>4, <1>5, TellsOn
<1> DEFINE First == Len(c.streams) > 0 /\ s = c.streams[1]
           n == Len(c.streams)
\* All but s, if it was the first, is as it was.
<1>7. /\ v.want = player.want /\ v.c.state = c.state /\ v.c.input = c.input /\ v.c.fmt = c.fmt
      /\ First => /\ Len(v.c.streams) = n - 1
                  /\ \A i \in 1 .. n - 1 : v.c.streams[i] = c.streams[i + 1]
      /\ ~First => v.c.streams = c.streams
      /\ \A x \in Streams :
           \/ First /\ x = s
           \/ /\ v.st[x].live = st[x].live /\ v.st[x].fmt = st[x].fmt /\ v.st[x].state = st[x].state
              /\ v.st[x].buf = st[x].buf /\ v.st[x].fed = st[x].fed /\ v.st[x].owed = st[x].owed
              /\ x # s => v.st[x].drain = st[x].drain
  BY <1>3, <1>4 DEF Drains, FirstOf
<1>8. n \in Nat /\ \A i \in 1 .. n : c.streams[i] \in Streams
  BY <1>1, PlayingIs
<1>9. c.input # s /\ (c.input # NULL => c.input \in Streams /\ n > 0 /\ c.input = c.streams[n])
  BY <1>0, <1>8 DEF IInv, InputIsLast
<1> HIDE DEF First
<1>10. InputIsLast(v.c, v.st)
  <2> SUFFICES ASSUME c.input # NULL
               PROVE  /\ Len(v.c.streams) > 0 /\ c.input = v.c.streams[Len(v.c.streams)]
                      /\ v.st[c.input].fmt = c.fmt /\ ~v.st[c.input].drain
    BY <1>7 DEF InputIsLast
  <2>1. v.st[c.input].fmt = c.fmt /\ ~v.st[c.input].drain
    BY <1>7, <1>9 DEF IInv, InputIsLast
  <2>2. CASE First
    <3>1. n > 1
      BY <1>8, <1>9, <2>2 DEF First
    <3> QED BY <1>7, <1>8, <1>9, <2>1, <2>2, <3>1, SMTT(20)
  <2>3. CASE ~First
    BY <1>7, <1>9, <2>1, <2>3
  <2> QED BY <2>2, <2>3
<1>11. Wanted(v.c, v.st, v.want)
  BY <1>7, <1>9 DEF IInv, Wanted
<1>12. Yields(v.c, v.st)
  <2>1. CASE First /\ Len(v.c.streams) > 0
    <3>1. 2 \in 1 .. n /\ v.c.streams[1] = c.streams[2] /\ c.streams[2] \in Streams
      BY <1>7, <1>8, <2>1
    <3>2. st[c.streams[2]].fed => st[c.streams[2]].buf > 0
      BY <3>1 DEF IInv, Behind
    <3>3. c.streams[2] # s
      <4>1. 2 \in 1 .. Len(World.c.streams) /\ s = FirstOf(World)
        BY <1>1, <2>1, <3>1 DEF First, FirstOf
      <4> QED BY <1>1, <4>1, HeardIsFirst
    <3> QED BY <1>7, <3>1, <3>2, <3>3 DEF Yields
  <2>2. CASE ~First /\ Len(v.c.streams) > 0
    <3>1. v.c.streams = c.streams /\ n > 0 /\ c.streams[1] \in Streams /\ c.streams[1] # s
      BY <1>7, <1>8, <2>2 DEF First
    <3> QED BY <1>7, <2>2, <3>1 DEF IInv, Yields
  <2> QED BY <2>1, <2>2 DEF Yields
<1>13. Spares(World, v)
  BY <1>0, <1>1, <1>7 DEF Spares
<1>14. player.sink = "loaded"
  BY <1>2, <1>8 DEF IInv, Listed
<1>15. Become(v, "loaded")
  BY <1>0, <1>14
<1>16. Held(v) = Holding
  <2>1. w.c.streams = World.c.streams /\ Held(World) = Holding
        /\ \A x \in Streams : w.st[x].buf = World.st[x].buf /\ w.st[x].fmt = World.st[x].fmt
    BY <1>1, <1>3, WorldIs
  <2>2. Held(w) = Holding
    BY <1>1, <1>3, <2>1, HeldSame
  <2>3. Held(v) = Held(w)
    BY <1>0, <1>3, HeldDrained DEF v
  <2> QED BY <2>2, <2>3
<1>17. IInv' /\ (Spares(World, v) => Cuts) /\ Holding' \in {Held(v), <<>>}
  BY <1>4, <1>6, <1>10, <1>11, <1>12, <1>15, StepIs DEF Whole
<1> QED BY <1>13, <1>16, <1>17 DEF Steady

\* What a stream that is ready holds, and was asked for, changes.
LEMMA ServedIs ==
  ASSUME IInv, NEW s \in Streams, st[s].live, st[s].state = "ready",
         NEW v \in Worlds, v.c = c, v.dead = NULL,
         \A x \in Streams :
           /\ v.st[x].made = st[x].made /\ v.st[x].live = st[x].live
           /\ v.st[x].fmt = st[x].fmt /\ v.st[x].state = st[x].state
           /\ v.st[x].drain = st[x].drain
           /\ v.st[x].cork = st[x].cork /\ v.st[x].mute = st[x].mute
           /\ v.st[x].news = st[x].news
           /\ x # s => v.st[x] = st[x],
         v.st[s].buf > 0 \/ (v.st[s].buf = st[s].buf /\ v.st[s].fed = st[s].fed)
  PROVE  /\ Sound(v) /\ Tells(World, v) /\ Spares(World, v) /\ InputIsLast(v.c, v.st)
         /\ s = c.input => Yields(v.c, v.st)
         /\ s # c.input /\ v.st[s].drain => Yields(v.c, v.st)
         /\ c.state = "ready" /\ player.sink = "loaded"
<1>0. /\ World.c = c /\ World.st = st
      /\ Len(c.streams) \in Nat /\ \A i \in 1 .. Len(c.streams) : c.streams[i] \in Streams
  BY WorldIs, PlayingIs DEF Sound
<1>1. Listed(v.c, v.st)
  <2>1. \A x \in Streams : /\ v.st[x].made = st[x].made /\ v.st[x].live = st[x].live
                           /\ v.st[x].fmt = st[x].fmt
    OBVIOUS
  <2>2. Listed(c, st)
    BY DEF IInv
  <2> QED BY <2>1, <2>2, SMTT(20) DEF Listed
<1>2. Idle(v.st)
  <2>1. Idle(st) /\ v.st[s].state = "ready" /\ v.st[s].live
    BY DEF IInv
  <2> QED BY <2>1 DEF Idle
<1>3. Behind(v.c, v.st)
  <2> SUFFICES ASSUME NEW i \in 1 .. Len(c.streams), i > 1
               PROVE  /\ v.st[c.streams[i]].cork
                      /\ v.st[c.streams[i]].fed => v.st[c.streams[i]].buf > 0
    BY DEF Behind
  <2>1. c.streams[i] \in Streams
    BY <1>0
  <2>2. st[c.streams[i]].cork /\ (st[c.streams[i]].fed => st[c.streams[i]].buf > 0)
    BY DEF IInv, Behind
  <2> QED BY <2>1, <2>2
<1>4. NULL # "assertion"
  BY DEF Deaths
<1>5. Sound(v)
  BY <1>1, <1>2, <1>3, <1>4 DEF Sound
<1>6. Tells(World, v)
  <2>1. FirstOf(World) = FirstOf(v)
    BY <1>0 DEF FirstOf
  <2> QED BY <1>0, <2>1 DEF Tells
<1>7. Spares(World, v)
  BY <1>0 DEF Spares
<1>8. InputIsLast(v.c, v.st)
  BY <1>0 DEF IInv, InputIsLast
<1>9. s = c.input => Yields(v.c, v.st)
  BY <1>0 DEF IInv, Yields
<1>10. s # c.input /\ v.st[s].drain => Yields(v.c, v.st)
  BY <1>0 DEF IInv, Yields
<1>11. c.state = "ready" /\ player.sink = "loaded"
  BY <1>0 DEF IInv, Listed
<1> QED BY <1>5, <1>6, <1>7, <1>8, <1>9, <1>10, <1>11

LEMMA WriteableKeeps ==
  ASSUME IInv, NEW s \in Streams, Writeable(s)
  PROVE  IInv' /\ Cuts /\ Steady
<1> DEFINE y == [st[s] EXCEPT !.req = Target - st[s].buf, !.owed = FALSE]
           w == [World EXCEPT !.st[s].req = Target - st[s].buf, !.st[s].owed = FALSE]
           v == RequestChanged(w, s)
<1>0. st[s].live /\ st[s].state = "ready" /\ Become(v, player.sink)
  BY DEF Writeable
<1>1. /\ World \in Worlds /\ World.c = c /\ World.st = st /\ st \in [Streams -> StreamStates]
      /\ World.want = player.want /\ World.dead = NULL /\ st[s] \in StreamStates
      /\ Wanted(c, st, player.want) /\ c \in Contexts
  BY WorldIs DEF Sound, Worlds
<1>2. /\ y \in StreamStates
      /\ y.made = st[s].made /\ y.live = st[s].live /\ y.fmt = st[s].fmt /\ y.state = st[s].state
      /\ y.drain = st[s].drain /\ y.cork = st[s].cork /\ y.mute = st[s].mute
      /\ y.news = st[s].news /\ y.buf = st[s].buf /\ y.fed = st[s].fed
  <2>1. Target - st[s].buf \in 0 .. Target
    <3>1. st[s].buf \in Nat /\ st[s].buf < Target
      BY <1>1 DEF StreamStates, Writeable
    <3>2. Target \in Nat
      OBVIOUS
    <3> QED BY <3>1, <3>2
  <2> QED BY <1>1, <2>1 DEF StreamStates
<1>3. w = [World EXCEPT !.st = [st EXCEPT ![s] = y]]
  BY <1>1, ZenonT(60) DEF Worlds, StreamStates
<1> HIDE DEF y, w, v
<1>4. /\ w \in Worlds /\ w.c = c /\ w.want = player.want /\ w.dead = NULL
      /\ \A x \in Streams : w.st[x] = IF x = s THEN y ELSE st[x]
  BY <1>1, <1>2, <1>3 DEF Worlds
<1>5. /\ w.st[s] = y
      /\ \A x \in Streams :
           /\ w.st[x].made = st[x].made /\ w.st[x].live = st[x].live
           /\ w.st[x].fmt = st[x].fmt /\ w.st[x].state = st[x].state
           /\ w.st[x].drain = st[x].drain
           /\ w.st[x].cork = st[x].cork /\ w.st[x].mute = st[x].mute
           /\ w.st[x].news = st[x].news
           /\ x # s => w.st[x] = st[x]
  BY <1>2, <1>4
<1>6. /\ Sound(w) /\ Tells(World, w) /\ Spares(World, w) /\ InputIsLast(w.c, w.st)
      /\ s = c.input => Yields(w.c, w.st)
      /\ s # c.input /\ w.st[s].drain => Yields(w.c, w.st)
      /\ c.state = "ready" /\ player.sink = "loaded"
  BY <1>0, <1>2, <1>4, <1>5, ServedIs
<1>7. Held(w) = Holding
  <2>1. Sound(World) /\ w.c.streams = World.c.streams /\ Held(World) = Holding
    BY <1>1, <1>4, WorldIs
  <2>2. \A x \in Streams : w.st[x].buf = World.st[x].buf /\ w.st[x].fmt = World.st[x].fmt
    BY <1>1, <1>2, <1>5
  <2> QED BY <1>6, <2>1, <2>2, HeldSame
<1>8. CASE s = c.input
  <2> DEFINE b == w.st[s].req # 0
  <2>1. v = [w EXCEPT !.want = b]
    BY <1>4, <1>8 DEF RequestChanged, v
  <2>2. b \in BOOLEAN
    OBVIOUS
  <2> HIDE DEF b
  <2>3. v \in Worlds /\ v.c = w.c /\ v.st = w.st /\ v.dead = w.dead
    BY <1>4, <2>1, <2>2 DEF Worlds
  <2>4. Sound(v) /\ Whole(v)
    BY <1>6, <1>8, <2>3 DEF Sound, Whole
  <2>5. Wanted(v.c, v.st, v.want)
    BY <1>0, <1>4, <1>5, <1>6, <1>8, <2>3 DEF Wanted
  <2>6. Tells(World, v) /\ Spares(World, v)
    BY <1>6, <2>3 DEF Tells, Spares, FirstOf
  <2>7. Held(v) = Holding
    BY <1>6, <1>7, <2>3, <2>4, HeldSame
  <2>8. IInv' /\ (Spares(World, v) => Cuts) /\ Holding' \in {Held(v), <<>>}
    BY <1>0, <1>6, <2>4, <2>5, <2>6, StepIs
  <2> QED BY <2>6, <2>7, <2>8 DEF Steady
<1>9. CASE s # c.input
  <2>1. v = SetDrain(w, s, TRUE)
    BY <1>4, <1>9 DEF RequestChanged, v
  <2>2. /\ Sound(v) /\ v.c = c /\ v.want = player.want /\ v.dead = NULL
        /\ \A x \in Streams :
             /\ v.st[x].live = w.st[x].live /\ v.st[x].fmt = w.st[x].fmt
             /\ v.st[x].state = w.st[x].state /\ v.st[x].buf = w.st[x].buf
             /\ v.st[x].cork = w.st[x].cork /\ v.st[x].mute = w.st[x].mute
             /\ v.st[x].fed = w.st[x].fed /\ v.st[x].owed = w.st[x].owed
             /\ v.st[x].news = w.st[x].news
             /\ x # s => v.st[x].drain = w.st[x].drain
        /\ v.st[s].drain = TRUE
    <3>1. w.st[s].state = "ready"
      BY <1>0, <1>5
    <3>2. \A b \in BOOLEAN :
            LET u == SetDrain(w, s, b)
            IN /\ Sound(u) /\ u.c = c /\ u.want = player.want /\ u.dead = NULL
               /\ \A x \in Streams :
                    /\ u.st[x].live = w.st[x].live /\ u.st[x].fmt = w.st[x].fmt
                    /\ u.st[x].state = w.st[x].state /\ u.st[x].buf = w.st[x].buf
                    /\ u.st[x].cork = w.st[x].cork /\ u.st[x].mute = w.st[x].mute
                    /\ u.st[x].fed = w.st[x].fed /\ u.st[x].owed = w.st[x].owed
                    /\ u.st[x].news = w.st[x].news
                    /\ x # s => u.st[x].drain = w.st[x].drain
               /\ u.st[s].drain = b
      BY <1>4, <1>6, <3>1, SetDrainReady
    <3> QED BY <2>1, <3>2, Zenon
  <2>3. /\ Len(c.streams) > 0 => c.streams[1] \in Streams
        /\ c.input # NULL => c.input \in Streams
    BY <1>1, PlayingIs DEF FirstOf, Contexts
  <2>4. InputIsLast(v.c, v.st)
    <3>1. c.input # NULL => v.st[c.input].fmt = w.st[c.input].fmt /\ v.st[c.input].drain = w.st[c.input].drain
      BY <1>9, <2>2, <2>3
    <3> QED BY <1>4, <1>6, <2>2, <3>1 DEF InputIsLast
  <2>5. Yields(v.c, v.st)
    <3> SUFFICES ASSUME Len(c.streams) > 0, c.streams[1] # c.input, v.st[c.streams[1]].fed
                 PROVE  \/ v.st[c.streams[1]].drain \/ v.st[c.streams[1]].owed
                        \/ v.st[c.streams[1]].buf > 0
      BY <2>2 DEF Yields
    <3>1. CASE c.streams[1] = s
      BY <2>2, <3>1
    <3>2. CASE c.streams[1] # s
      <4> DEFINE h == c.streams[1]
      <4>1. h \in Streams /\ w.st[h] = st[h]
        BY <1>5, <2>3, <3>2
      <4>2. st[h].fed => st[h].drain \/ st[h].owed \/ st[h].buf > 0
        BY DEF IInv, Yields
      <4> QED BY <2>2, <3>2, <4>1, <4>2, SMTT(40)
    <3> QED BY <3>1, <3>2
  <2>6. Wanted(v.c, v.st, v.want)
    BY <1>1, <1>5, <2>2, <2>3 DEF Wanted
  <2>7. Tells(World, v)
    BY <1>1, <1>6, <2>2, <1>4 DEF Tells, FirstOf
  <2>8. Spares(World, v)
    BY <1>6, <2>2 DEF Spares
  <2>9. Held(v) = Holding
    BY <1>6, <1>7, <2>1, HeldSetDrain
  <2>10. IInv' /\ (Spares(World, v) => Cuts) /\ Holding' \in {Held(v), <<>>}
    BY <1>0, <1>6, <2>2, <2>4, <2>5, <2>6, <2>7, StepIs DEF Whole
  <2> QED BY <2>8, <2>9, <2>10 DEF Steady
<1> QED BY <1>8, <1>9

\* n units are written to s, of which l are still asked for.
Filled(t, l, n) == [t EXCEPT !.req = l, !.buf = t.buf + n, !.fed = TRUE]
Written(w, s, l, n) == [w EXCEPT !.st[s].req = l, !.st[s].buf = @ + n, !.st[s].fed = TRUE]

LEMMA WrittenIs ==
  ASSUME NEW w \in Worlds, NEW s \in Streams, NEW l \in 0 .. Target, NEW n,
         w.st[s].buf + n \in Nat
  PROVE  LET v == Written(w, s, l, n)
         IN /\ v \in Worlds /\ v.c = w.c /\ v.want = w.want /\ v.dead = w.dead
            /\ v.st[s] = Filled(w.st[s], l, n)
            /\ \A x \in Streams : x # s => v.st[x] = w.st[x]
<1> DEFINE t == w.st[s]
           x == [t EXCEPT !.req = l]
           y == [x EXCEPT !.buf = t.buf + n]
           z == [y EXCEPT !.fed = TRUE]
           World1 == [w EXCEPT !.st = [w.st EXCEPT ![s] = x]]
           World2 == [World1 EXCEPT !.st = [World1.st EXCEPT ![s] = y]]
           World3 == [World2 EXCEPT !.st = [World2.st EXCEPT ![s] = z]]
<1>1. t \in StreamStates /\ w.st \in [Streams -> StreamStates]
  BY DEF Worlds
<1>2. x \in StreamStates /\ x.buf = t.buf
  BY <1>1 DEF StreamStates
<1>3. y \in StreamStates
  BY <1>2 DEF StreamStates
<1>4. z \in StreamStates
  BY <1>3 DEF StreamStates
<1>5. World1 \in Worlds /\ World1.st = [w.st EXCEPT ![s] = x] /\ World1.st[s] = x
  <2> HIDE DEF x
  <2> QED BY <1>1, <1>2 DEF Worlds
<1>6. World2 \in Worlds /\ World2.st[s] = y /\ World2 = [w EXCEPT !.st = [w.st EXCEPT ![s] = y]]
  <2> HIDE DEF x, y
  <2>1. [World1.st EXCEPT ![s] = y] = [w.st EXCEPT ![s] = y]
    BY <1>1, <1>5
  <2>2. World2 \in Worlds /\ World2.st[s] = y
    BY <1>3, <1>5, <2>1 DEF Worlds
  <2> QED BY <2>1, <2>2 DEF Worlds
<1>7. World3 = [w EXCEPT !.st = [w.st EXCEPT ![s] = z]]
  <2> HIDE DEF x, y, z, World1
  <2>1. World2.st = [w.st EXCEPT ![s] = y]
    BY <1>6 DEF Worlds
  <2>2. [World2.st EXCEPT ![s] = z] = [w.st EXCEPT ![s] = z]
    BY <1>1, <2>1
  <2> QED BY <1>6, <2>2 DEF Worlds
<1>8. z = Filled(t, l, n)
  BY DEF Filled
<1>9. World3 = Written(w, s, l, n)
  <2>1. World1 = [w EXCEPT !.st[s].req = l]
    OBVIOUS
  <2>2. World2 = [World1 EXCEPT !.st[s].buf = t.buf + n]
    BY <1>2, <1>5, Zenon
  <2>3. World3 = [World2 EXCEPT !.st[s].fed = TRUE]
    BY <1>6, Zenon
  <2> HIDE DEF World1, World2, World3
  <2> QED BY <2>1, <2>2, <2>3, Zenon DEF Written
<1>10. /\ World3 \in Worlds /\ World3.c = w.c /\ World3.want = w.want /\ World3.dead = w.dead
       /\ World3.st[s] = z /\ \A a \in Streams : a # s => World3.st[a] = w.st[a]
  <2> HIDE DEF World3, z
  <2> QED BY <1>1, <1>4, <1>7 DEF Worlds
<1> HIDE DEF World3, z
<1> QED BY <1>8, <1>9, <1>10

LEMMA ProvideInputKeeps ==
  ASSUME IInv, ProvideInput
  PROVE  IInv' /\ Cuts /\ (Steady \/ Commits)
<1> DEFINE s == c.input
           Left(n) == IF st[s].req > n THEN st[s].req - n ELSE 0
           Given(n) == [World EXCEPT !.st[s].req = Left(n), !.st[s].buf = @ + n, !.st[s].fed = TRUE]
<1>1. player.sink = "loaded" /\ player.want /\ MayWrite
  BY DEF ProvideInput, IInv, Wanted, MayWrite
<1>2. \/ Die("failed")
      \/ \E n \in 1 .. Block :
           Become(IF Left(n) = 0 THEN RequestChanged(Given(n), s) ELSE Given(n), player.sink)
      \/ Room /\ \E f \in Formats : Become(SetInputFormat(World, f), player.sink)
  BY <1>1 DEF ProvideInput
<1>3. /\ World \in Worlds /\ World.c = c /\ World.st = st /\ st \in [Streams -> StreamStates]
      /\ World.want = player.want /\ World.dead = NULL /\ Wanted(c, st, player.want)
      /\ Sound(World) /\ Whole(World) /\ c \in Contexts
  BY WorldIs DEF Sound, Worlds
<1>4. /\ s \in Streams /\ st[s].state = "ready" /\ st[s] \in StreamStates /\ st[s].live
      /\ c.state = "ready"
  <2>1. s \in Streams /\ s # NULL /\ st[s].state = "ready" /\ c.state = "ready"
    BY <1>1, <1>3 DEF MayWrite, Contexts
  <2>2. st[s].live
    BY <2>1 DEF IInv, Idle
  <2> QED BY <1>3, <2>1, <2>2
<1>5. CASE Die("failed")
  <2>1. Die("failed") /\ "failed" \in Deaths \ {"assertion"}
    BY <1>5 DEF Deaths
  <2> QED BY <2>1, DieIs DEF Steady
<1>6. ASSUME NEW n \in 1 .. Block,
             Become(IF Left(n) = 0 THEN RequestChanged(Given(n), s) ELSE Given(n), player.sink)
      PROVE  IInv' /\ Cuts /\ (Steady \/ Commits)
  <2> DEFINE l == Left(n)
             y == [st[s] EXCEPT !.req = l, !.buf = st[s].buf + n, !.fed = TRUE]
             w == Given(n)
             v == IF l = 0 THEN RequestChanged(w, s) ELSE w
  <2>0. Become(v, "loaded")
    BY <1>1, <1>6
  <2>1. l \in 0 .. Target /\ st[s].buf + n \in Nat /\ st[s].buf + n > 0
    <3>1. st[s].buf \in Nat /\ st[s].req \in 0 .. Target /\ Target \in Nat /\ Block \in Nat
      BY <1>4 DEF StreamStates
    <3> QED BY <3>1
  <2> HIDE DEF l
  <2>2. /\ y \in StreamStates
        /\ y.made = st[s].made /\ y.live = st[s].live /\ y.fmt = st[s].fmt /\ y.state = st[s].state
        /\ y.drain = st[s].drain /\ y.cork = st[s].cork /\ y.mute = st[s].mute
        /\ y.news = st[s].news /\ y.buf = st[s].buf + n /\ y.req = l
    BY <1>4, <2>1 DEF StreamStates
  <2>3. w = Written(World, s, l, n) /\ World.st[s].buf + n \in Nat
    <3>1. w = Written(World, s, l, n)
      BY DEF Written, l
    <3> HIDE DEF s, l, w
    <3> QED BY <1>3, <2>1, <3>1
  <2> HIDE DEF y, w, s
  <2>4. /\ w \in Worlds /\ w.c = c /\ w.want = player.want /\ w.dead = NULL
        /\ \A x \in Streams : w.st[x] = IF x = s THEN y ELSE st[x]
    <3>0. /\ World \in Worlds /\ s \in Streams /\ l \in 0 .. Target
          /\ World.st[s].buf + n \in Nat
      BY <1>3, <1>4, <2>1, <2>3
    <3>1. LET u == Written(World, s, l, n)
          IN /\ u \in Worlds /\ u.c = World.c /\ u.want = World.want /\ u.dead = World.dead
             /\ u.st[s] = Filled(World.st[s], l, n)
             /\ \A x \in Streams : x # s => u.st[x] = World.st[x]
      BY ONLY <3>0, WrittenIs
    <3>2. World.st[s] = st[s]
      BY <1>3
    <3>3. w.st[s] = y
      BY <2>3, <3>1, <3>2 DEF y, Filled
    <3> HIDE DEF y
    <3>4. \A x \in Streams : x # s => w.st[x] = st[x]
      BY <1>3, <2>3, <3>1
    <3> QED BY <1>3, <2>3, <3>1, <3>3, <3>4
  <2>5. /\ w.st[s] = y
        /\ \A x \in Streams :
             /\ w.st[x].made = st[x].made /\ w.st[x].live = st[x].live
             /\ w.st[x].fmt = st[x].fmt /\ w.st[x].state = st[x].state
             /\ w.st[x].drain = st[x].drain
             /\ w.st[x].cork = st[x].cork /\ w.st[x].mute = st[x].mute
             /\ w.st[x].news = st[x].news
             /\ x # s => w.st[x] = st[x]
    BY <1>4, <2>2, <2>4
  <2>6. /\ Sound(w) /\ Tells(World, w) /\ Spares(World, w) /\ InputIsLast(w.c, w.st)
        /\ Yields(w.c, w.st)
    <3>1. w.st[s].buf > 0 /\ s = c.input
      BY <2>1, <2>2, <2>5 DEF s
    <3> QED BY <1>4, <2>4, <2>5, <3>1, ServedIs
  <2>7. ASSUME Holding' = <<>> \/ (Holding' = Held(w) /\ c'.fmt = c.fmt)
        PROVE  Steady \/ Commits
    <3>1. CASE Holding' = <<>>
      BY <3>1 DEF Steady
    <3>2. CASE Holding' = Held(w) /\ c'.fmt = c.fmt
      <4>1. /\ Len(c.streams) > 0 /\ s = c.streams[Len(c.streams)] /\ st[s].fmt = c.fmt
            /\ c.fmt # NULL /\ c.fmt \in Kinds
        <5>1. s = c.input /\ c.input # NULL
          BY <1>4 DEF s
        <5>2. st[s].fmt # NULL
          BY <1>4 DEF IInv, Listed
        <5> QED BY <1>3, <5>1, <5>2 DEF IInv, InputIsLast, Contexts, Kinds
      <4>2. n \in Nat /\ n \in 1 .. Block
        BY <1>6
      <4>3. /\ w.c.streams = World.c.streams /\ Len(World.c.streams) > 0
            /\ s = World.c.streams[Len(World.c.streams)]
            /\ \A x \in Streams : x # s => w.st[x] = World.st[x]
            /\ World.st[s].fmt = c.fmt /\ w.st[s].fmt = c.fmt
            /\ w.st[s].buf = World.st[s].buf + n
        BY <1>3, <2>2, <2>4, <2>5, <4>1
      <4>4. Held(w) = Held(World) \o [i \in 1 .. n |-> c.fmt]
        <5>1. Sound(World) /\ Sound(w) /\ c.fmt \in Kinds /\ n \in Nat /\ s \in Streams
          BY <1>3, <1>4, <2>6, <4>1, <4>2
        <5> DEFINE old == World
                   kind == c.fmt
        <5>2. /\ Sound(old) /\ Sound(w) /\ kind \in Kinds /\ n \in Nat /\ s \in Streams
              /\ w.c.streams = old.c.streams /\ Len(old.c.streams) > 0
              /\ s = old.c.streams[Len(old.c.streams)]
              /\ \A x \in Streams : x # s => w.st[x] = old.st[x]
              /\ old.st[s].fmt = kind /\ w.st[s].fmt = kind
              /\ w.st[s].buf = old.st[s].buf + n
          BY ONLY <4>3, <5>1
        <5> HIDE DEF old, kind
        <5>3. Held(w) = Held(old) \o Stretch(n, kind)
          BY ONLY <5>2, HeldWritten, ZenonT(60)
        <5> QED BY ONLY <5>3 DEF old, kind, Stretch
      <4>5. Holding' = Holding \o [i \in 1 .. n |-> c.fmt]
        BY <3>2, <4>4, WorldIs
      <4> QED BY <3>2, <4>1, <4>2, <4>5 DEF Commits
    <3> QED BY <2>7, <3>1, <3>2
  <2>8. CASE l # 0
    <3>1. v = w
      BY <2>8
    <3>2. Wanted(w.c, w.st, w.want)
      BY <1>4, <2>4, <2>5 DEF Wanted, s
    <3>3. /\ IInv' /\ (Spares(World, w) => Cuts)
          /\ Holding' = <<>> \/ (Holding' = Held(w) /\ c'.fmt = c.fmt)
      BY <2>0, <2>4, <2>6, <3>1, <3>2, StepIs DEF Whole
    <3> QED BY <2>6, <2>7, <3>3
  <2>9. CASE l = 0
    <3>1. v = [w EXCEPT !.want = FALSE]
      <4>1. w.st[s].req = 0 /\ s = w.c.input
        BY <2>2, <2>4, <2>5, <2>9 DEF s
      <4> QED BY <2>9, <4>1 DEF RequestChanged
    <3> HIDE DEF v
    <3>2. v \in Worlds /\ v.c = w.c /\ v.st = w.st /\ v.want = FALSE /\ v.dead = w.dead
      BY <2>4, <3>1 DEF Worlds
    <3>3. /\ Sound(v) /\ Whole(v) /\ Wanted(v.c, v.st, v.want)
          /\ Tells(World, v) /\ Spares(World, v)
      BY <2>6, <3>2 DEF Sound, Whole, Wanted, Tells, Spares, FirstOf
    <3>4. Held(v) = Held(w)
      BY <2>6, <3>2, <3>3, HeldSame
    <3>5. /\ IInv' /\ (Spares(World, v) => Cuts)
          /\ Holding' = <<>> \/ (Holding' = Held(v) /\ c'.fmt = c.fmt)
      BY <2>0, <2>4, <3>2, <3>3, StepIs
    <3> QED BY <2>7, <3>3, <3>4, <3>5
  <2> QED BY <2>8, <2>9
<1>7. ASSUME Room, NEW f \in Formats, Become(SetInputFormat(World, f), player.sink)
      PROVE  IInv' /\ Cuts /\ Steady
  <2>1. [World EXCEPT !.want = player.want] = World
    BY DEF World
  <2>2. player.want \in BOOLEAN
    BY DEF IInv, Types, Players
  <2> QED BY <1>1, <1>7, <2>1, <2>2, FormatKeeps DEF Room
<1> QED BY <1>2, <1>5, <1>6, <1>7

\* A question is appended.
LEMMA AskIs ==
  ASSUME NEW q \in Seq(Questions), NEW e \in Questions
  PROVE  LET r == Append(q, e)
         IN /\ r \in Seq(Questions)
            /\ \A t : e.paused = t[e.s].cork /\ e.mute = t[e.s].mute => Current(t, r, e.s)
            /\ \A t, x : x # e.s /\ Current(t, q, x) => Current(t, r, x)
            /\ \A x : (\A i \in 1 .. Len(r) : r[i].s # x)
                    => x # e.s /\ \A i \in 1 .. Len(q) : q[i].s # x
<1> DEFINE r == Append(q, e)
           n == Len(q)
<1>1. /\ r \in Seq(Questions) /\ Len(r) = n + 1 /\ n \in Nat
      /\ r[n + 1] = e /\ \A i \in 1 .. n : r[i] = q[i]
  BY AppendProperties
<1> HIDE DEF r
<1>2. ASSUME NEW t, e.paused = t[e.s].cork, e.mute = t[e.s].mute PROVE Current(t, r, e.s)
  <2> SUFFICES ASSUME NEW i \in 1 .. n + 1, \A j \in 1 .. n + 1 : j > i => r[j].s # e.s
               PROVE  r[i].paused = t[e.s].cork /\ r[i].mute = t[e.s].mute
    BY <1>1 DEF Current
  <2>1. i = n + 1
    BY <1>1
  <2> QED BY <1>1, <1>2, <2>1
<1>3. ASSUME NEW t, NEW x, x # e.s, Current(t, q, x) PROVE Current(t, r, x)
  <2> SUFFICES ASSUME NEW i \in 1 .. n + 1, r[i].s = x, \A j \in 1 .. n + 1 : j > i => r[j].s # x
               PROVE  r[i].paused = t[x].cork /\ r[i].mute = t[x].mute
    BY <1>1 DEF Current
  <2>1. i \in 1 .. n /\ q[i].s = x /\ r[i] = q[i]
    BY <1>1, <1>3
  <2>2. \A j \in 1 .. n : j > i => q[j].s # x
    BY <1>1
  <2> QED BY <1>3, <2>1, <2>2 DEF Current
<1>4. ASSUME NEW x, \A i \in 1 .. Len(r) : r[i].s # x
      PROVE  x # e.s /\ \A i \in 1 .. Len(q) : q[i].s # x
  BY <1>1, <1>4, SMTT(40)
<1> QED BY <1>1, <1>2, <1>3, <1>4 DEF r

\* The first question is answered.
LEMMA AnsweredIs ==
  ASSUME NEW q \in Seq(Questions), q # <<>>
  PROVE  /\ Tail(q) \in Seq(Questions) /\ Head(q) = q[1] /\ q[1] \in Questions
         /\ \A t, x : Current(t, q, x) => Current(t, Tail(q), x)
         /\ \A x : (\A i \in 1 .. Len(Tail(q)) : Tail(q)[i].s # x)
                 => /\ q[1].s # x => \A i \in 1 .. Len(q) : q[i].s # x
                    /\ \A t : q[1].s = x /\ Current(t, q, x)
                              => q[1].paused = t[x].cork /\ q[1].mute = t[x].mute
<1> DEFINE r == Tail(q)
           n == Len(q)
<1>1. /\ r \in Seq(Questions) /\ Len(r) = n - 1 /\ n \in Nat /\ n >= 1 /\ Head(q) = q[1]
      /\ \A i \in 1 .. n - 1 : r[i] = q[i + 1]
  BY HeadTailProperties, EmptySeq
<1>0. q[1] \in Questions
  BY <1>1
<1> HIDE DEF r
<1>2. ASSUME NEW t, NEW x, Current(t, q, x) PROVE Current(t, r, x)
  <2> SUFFICES ASSUME NEW i \in 1 .. n - 1, r[i].s = x, \A j \in 1 .. n - 1 : j > i => r[j].s # x
               PROVE  r[i].paused = t[x].cork /\ r[i].mute = t[x].mute
    BY <1>1 DEF Current
  <2>1. i + 1 \in 1 .. n /\ q[i + 1].s = x /\ r[i] = q[i + 1]
    BY <1>1
  <2>2. ASSUME NEW j \in 1 .. n, j > i + 1 PROVE q[j].s # x
    <3>1. j - 1 \in 1 .. n - 1 /\ j - 1 > i /\ (j - 1) + 1 = j
      BY <1>1, <2>2
    <3> QED BY <1>1, <3>1
  <2> QED BY <1>2, <2>1, <2>2 DEF Current
<1>3. ASSUME NEW x, \A i \in 1 .. Len(r) : r[i].s # x
      PROVE  \A i \in 1 .. n : i > 1 => q[i].s # x
  <2> SUFFICES ASSUME NEW i \in 1 .. n, i > 1 PROVE q[i].s # x
    OBVIOUS
  <2>1. i - 1 \in 1 .. n - 1 /\ (i - 1) + 1 = i
    BY <1>1
  <2> QED BY <1>1, <1>3, <2>1
<1>4. ASSUME NEW x, \A i \in 1 .. Len(r) : r[i].s # x, q[1].s # x
      PROVE  \A i \in 1 .. n : q[i].s # x
  <2>1. \A i \in 1 .. n : i > 1 => q[i].s # x
    BY <1>3, <1>4
  <2> QED BY <1>1, <1>4, <2>1
<1>5. ASSUME NEW x, \A i \in 1 .. Len(r) : r[i].s # x, NEW t, q[1].s = x, Current(t, q, x)
      PROVE  q[1].paused = t[x].cork /\ q[1].mute = t[x].mute
  <2>1. \A i \in 1 .. n : i > 1 => q[i].s # x
    BY <1>3, <1>5
  <2> QED BY <1>1, <1>5, <2>1 DEF Current
<1> QED BY <1>0, <1>1, <1>2, <1>4, <1>5 DEF r

\* What the streams hold is left alone.
LEMMA HeldStays ==
  ASSUME IInv, c'.streams = c.streams,
         \A x \in Streams : st'[x].buf = st[x].buf /\ st'[x].fmt = st[x].fmt
  PROVE  Steady
<1>1. \A i \in DOMAIN c.streams : c.streams[i] \in Streams
  BY DEF IInv, Types, Contexts
<1>2. Audio(c', st') = Audio(c, st)
  BY <1>1 DEF Audio, Units
<1> QED BY <1>2 DEF Steady, Holding

\* Something happens to one stream, and nothing else.
LEMMA OneStream ==
  ASSUME IInv, NEW s \in Streams, st[s].live, NEW y \in StreamStates,
         y.made = st[s].made, y.live = st[s].live, y.fmt = st[s].fmt,
         y.state = "ready" \/ (y.state = st[s].state /\ y.req = st[s].req /\ y.buf = st[s].buf),
         y.drain = st[s].drain, y.cork = st[s].cork, y.fed = st[s].fed,
         y.buf = st[s].buf \/ ~st[s].cork,
         y.owed \/ (y.owed = st[s].owed /\ y.buf = st[s].buf),
         st' = [st EXCEPT ![s] = y], UNCHANGED <<c, player, dead>>, asked' \in Seq(Questions),
         \A x \in Streams : x # s => (Current(st, asked, x) => Current(st, asked', x)),
         \A x : (\A i \in 1 .. Len(asked') : asked'[i].s # x) => \A i \in 1 .. Len(asked) : asked[i].s # x,
         ~y.news => Current(st', asked', s),
         ~y.news /\ (\A i \in 1 .. Len(asked') : asked'[i].s # s)
           => st[s].state = "ready" /\ ~st[s].news /\ y.mute = st[s].mute
  PROVE  IInv' /\ Cuts /\ (y.buf = st[s].buf => Steady)
<1>0. /\ st \in [Streams -> StreamStates] /\ Len(c.streams) \in Nat
      /\ \A i \in 1 .. Len(c.streams) : c.streams[i] \in Streams
      /\ c.input # NULL => c.input \in Streams
  BY WorldIs, PlayingIs DEF Sound, IInv, Types, Contexts
<1>1. \A x \in Streams : st'[x] = IF x = s THEN y ELSE st[x]
  BY <1>0
<1>2. Types'
  BY <1>0 DEF IInv, Types
<1>3. Listed(c, st')
  <2>1. \A x \in Streams : /\ st'[x].made = st[x].made /\ st'[x].live = st[x].live
                           /\ st'[x].fmt = st[x].fmt
    BY <1>1
  <2>2. Listed(c, st)
    BY DEF IInv
  <2> QED BY ONLY <2>1, <2>2 DEF Listed
<1>4. Idle(st')
  <2> SUFFICES ASSUME NEW x \in Streams
               PROVE  /\ ~st'[x].live => st'[x].state = "connecting"
                      /\ st'[x].state = "connecting"
                         => st'[x].buf = 0 /\ st'[x].req = 0 /\ ~st'[x].drain /\ ~st'[x].fed
    BY DEF Idle
  <2>1. CASE x = s
    <3>1. st'[x] = y /\ y.live
      BY <1>1, <2>1
    <3>2. y.state = "connecting" => st[s].state = "connecting" /\ y.req = st[s].req /\ y.buf = st[s].buf
      OBVIOUS
    <3> QED BY <3>1, <3>2 DEF IInv, Idle
  <2>2. CASE x # s
    BY <1>1, <2>2 DEF IInv, Idle
  <2> QED BY <2>1, <2>2
<1>5. Behind(c, st')
  <2> SUFFICES ASSUME NEW i \in 1 .. Len(c.streams), i > 1
               PROVE  /\ st'[c.streams[i]].cork
                      /\ st'[c.streams[i]].fed => st'[c.streams[i]].buf > 0
    BY DEF Behind
  <2>1. c.streams[i] \in Streams
    BY <1>0
  <2>2. st[c.streams[i]].cork /\ (st[c.streams[i]].fed => st[c.streams[i]].buf > 0)
    BY DEF IInv, Behind
  <2> QED BY <1>1, <2>1, <2>2
<1>6. InputIsLast(c, st')
  BY <1>0, <1>1 DEF IInv, InputIsLast
<1>7. Wanted(c, st', player.want)
  BY <1>0, <1>1 DEF IInv, Wanted
<1>8. Yields(c, st')
  <2> SUFFICES ASSUME Len(c.streams) > 0, c.streams[1] # c.input, st'[c.streams[1]].fed
               PROVE  \/ st'[c.streams[1]].drain \/ st'[c.streams[1]].owed
                      \/ st'[c.streams[1]].buf > 0
    BY DEF Yields
  <2>1. c.streams[1] \in Streams
    BY <1>0
  <2>2. st[c.streams[1]].fed => \/ st[c.streams[1]].drain \/ st[c.streams[1]].owed
                               \/ st[c.streams[1]].buf > 0
    BY DEF IInv, Yields
  <2> QED BY <1>1, <2>1, <2>2
<1>9. Answered(st', asked')
  <2> SUFFICES ASSUME NEW x \in Streams, st'[x].live, st'[x].state = "ready", ~st'[x].news
               PROVE  Current(st', asked', x)
    BY DEF Answered
  <2>1. CASE x = s
    BY <1>1, <2>1
  <2>2. CASE x # s
    <3>1. st'[x] = st[x]
      BY <1>1, <2>2
    <3>2. Current(st, asked, x)
      BY <3>1 DEF IInv, Answered
    <3>3. Current(st, asked', x)
      BY <2>2, <3>2
    <3> QED BY <3>1, <3>3 DEF Current
  <2> QED BY <2>1, <2>2
<1>10. Believed(c, st', asked')
  <2> DEFINE h == c.streams[1]
  <2> SUFFICES ASSUME Len(c.streams) > 0, st'[h].state = "ready", ~st'[h].news,
                      \A i \in 1 .. Len(asked') : asked'[i].s # h
               PROVE  c.paused = st'[h].cork /\ c.mute = st'[h].mute
    BY DEF Believed
  <2>1. h \in Streams /\ \A i \in 1 .. Len(asked) : asked[i].s # h
    <3>1. h \in Streams
      BY <1>0
    <3> HIDE DEF h
    <3> QED BY <3>1, Zenon
  <2>2. st[h].state = "ready" /\ ~st[h].news /\ st'[h].cork = st[h].cork /\ st'[h].mute = st[h].mute
    BY <1>1, <2>1
  <2>3. c.paused = st[h].cork /\ c.mute = st[h].mute
    BY <2>1, <2>2 DEF IInv, Believed
  <2> QED BY <2>2, <2>3
<1>11. IInv'
  BY <1>2, <1>3, <1>4, <1>5, <1>6, <1>7, <1>8, <1>9, <1>10 DEF IInv
<1>12. Cuts
  BY <1>1 DEF Cuts
<1>13. ASSUME y.buf = st[s].buf PROVE Steady
  <2>1. \A x \in Streams : st'[x].buf = st[x].buf /\ st'[x].fmt = st[x].fmt
    BY <1>1, <1>13
  <2> QED BY <2>1, HeldStays
<1> QED BY <1>11, <1>12, <1>13

\* What pulse_stream_query_info asks.
LEMMA QuestionIs ==
  ASSUME IInv, NEW s \in Streams
  PROVE  /\ Question(s) \in Questions /\ Question(s).s = s
         /\ Question(s).paused = st[s].cork /\ Question(s).mute = st[s].mute
<1>1. st[s] \in StreamStates
  BY DEF IInv, Types
<1> QED BY <1>1 DEF Question, Questions, StreamStates

LEMMA AskKeeps ==
  ASSUME IInv, NEW s \in Streams, st[s].live, NEW y \in StreamStates,
         y.made = st[s].made, y.live = st[s].live, y.fmt = st[s].fmt,
         y.state = "ready" \/ (y.state = st[s].state /\ y.req = st[s].req),
         y.drain = st[s].drain, y.cork = st[s].cork, y.fed = st[s].fed, y.mute = st[s].mute,
         y.buf = st[s].buf, y.owed \/ y.owed = st[s].owed,
         st' = [st EXCEPT ![s] = y], UNCHANGED <<c, player, dead>>,
         asked' = Append(asked, Question(s))
  PROVE  IInv' /\ Cuts /\ Steady
<1> DEFINE e == Question(s)
<1>1. e \in Questions /\ e.s = s /\ e.paused = st[s].cork /\ e.mute = st[s].mute
  BY QuestionIs
<1>2. /\ asked \in Seq(Questions) /\ st'[s].cork = st[s].cork /\ st'[s].mute = st[s].mute
      /\ asked' = Append(asked, e)
  BY DEF IInv, Types
<1> HIDE DEF e
<1>3. /\ asked' \in Seq(Questions)
      /\ \A t : e.paused = t[e.s].cork /\ e.mute = t[e.s].mute => Current(t, asked', e.s)
      /\ \A t, x : x # e.s /\ Current(t, asked, x) => Current(t, asked', x)
      /\ \A x : (\A i \in 1 .. Len(asked') : asked'[i].s # x)
              => x # e.s /\ \A i \in 1 .. Len(asked) : asked[i].s # x
  BY ONLY <1>1, <1>2, AskIs
<1>4. Current(st', asked', s)
  <2> DEFINE t == st'
  <2>1. e.paused = t[s].cork /\ e.mute = t[s].mute
    BY <1>1, <1>2
  <2> HIDE DEF t
  <2>2. Current(t, asked', s)
    BY <1>1, <1>3, <2>1
  <2> QED BY <2>2 DEF t
<1>5. ~(\A i \in 1 .. Len(asked') : asked'[i].s # s)
  BY <1>1, <1>3
<1>6. /\ y.owed \/ (y.owed = st[s].owed /\ y.buf = st[s].buf)
      /\ y.state = "ready" \/ (y.state = st[s].state /\ y.req = st[s].req /\ y.buf = st[s].buf)
      /\ y.buf = st[s].buf \/ ~st[s].cork
  OBVIOUS
<1>7. /\ \A x \in Streams : x # s => (Current(st, asked, x) => Current(st, asked', x))
      /\ \A x : (\A i \in 1 .. Len(asked') : asked'[i].s # x)
              => \A i \in 1 .. Len(asked) : asked[i].s # x
  BY <1>1, <1>3
<1>8. /\ ~y.news => Current(st', asked', s)
      /\ ~y.news /\ (\A i \in 1 .. Len(asked') : asked'[i].s # s)
           => st[s].state = "ready" /\ ~st[s].news /\ y.mute = st[s].mute
  BY <1>4, <1>5
<1> QED BY <1>3, <1>6, <1>7, <1>8, OneStream, Zenon

LEMMA StreamReadyKeeps ==
  ASSUME IInv, NEW s \in Streams, StreamReady(s)
  PROVE  IInv' /\ Cuts /\ Steady
<1> DEFINE y == [st[s] EXCEPT !.state = "ready", !.owed = TRUE]
<1>1. st[s] \in StreamStates /\ st \in [Streams -> StreamStates]
  BY DEF IInv, Types
<1>2. /\ y \in StreamStates
      /\ y.made = st[s].made /\ y.live = st[s].live /\ y.fmt = st[s].fmt /\ y.state = "ready"
      /\ y.drain = st[s].drain /\ y.cork = st[s].cork /\ y.fed = st[s].fed /\ y.mute = st[s].mute
      /\ y.buf = st[s].buf /\ y.owed
  BY <1>1 DEF StreamStates
<1>3. st' = [st EXCEPT ![s] = y]
  BY <1>1 DEF StreamReady, StreamStates
<1>4. st[s].live /\ asked' = Append(asked, Question(s)) /\ UNCHANGED <<c, player, dead>>
  BY DEF StreamReady
<1> HIDE DEF y
<1> QED BY <1>2, <1>3, <1>4, AskKeeps

LEMMA SubscriptionKeeps ==
  ASSUME IInv, NEW s \in Streams, Subscription(s)
  PROVE  IInv' /\ Cuts /\ Steady
<1> DEFINE y == [st[s] EXCEPT !.news = FALSE]
<1>1. st[s] \in StreamStates /\ st \in [Streams -> StreamStates]
  BY DEF IInv, Types
<1>2. /\ y \in StreamStates
      /\ y.made = st[s].made /\ y.live = st[s].live /\ y.fmt = st[s].fmt /\ y.state = st[s].state
      /\ y.drain = st[s].drain /\ y.cork = st[s].cork /\ y.fed = st[s].fed /\ y.mute = st[s].mute
      /\ y.buf = st[s].buf /\ y.owed = st[s].owed /\ y.req = st[s].req
  BY <1>1 DEF StreamStates
<1>3. st' = [st EXCEPT ![s] = y]
  BY <1>1 DEF Subscription, StreamStates
<1>4. st[s].live /\ asked' = Append(asked, Question(s)) /\ UNCHANGED <<c, player, dead>>
  BY DEF Subscription
<1> HIDE DEF y
<1> QED BY <1>2, <1>3, <1>4, AskKeeps

LEMMA PlayKeeps ==
  ASSUME IInv, NEW s \in Streams, Play(s)
  PROVE  IInv' /\ Cuts /\ Plays
<1> DEFINE y == [st[s] EXCEPT !.buf = st[s].buf - 1, !.owed = TRUE]
<1>1. /\ st[s] \in StreamStates /\ st \in [Streams -> StreamStates]
      /\ asked' \in Seq(Questions) /\ asked' = asked /\ UNCHANGED <<c, player, dead>>
      /\ st[s].live /\ st[s].state = "ready" /\ ~st[s].cork /\ st[s].buf > 0
  BY DEF IInv, Types, Play
<1>2. /\ y \in StreamStates
      /\ y.made = st[s].made /\ y.live = st[s].live /\ y.fmt = st[s].fmt /\ y.state = "ready"
      /\ y.drain = st[s].drain /\ y.cork = st[s].cork /\ y.fed = st[s].fed /\ y.mute = st[s].mute
      /\ y.owed /\ y.news = st[s].news
  <2>1. st[s].buf - 1 \in Nat
    <3>1. st[s].buf \in Nat
      BY <1>1 DEF StreamStates
    <3> QED BY <1>1, <3>1
  <2> QED BY <1>1, <2>1 DEF StreamStates
<1>3. st' = [st EXCEPT ![s] = y]
  BY <1>1 DEF Play, StreamStates
<1> HIDE DEF y
<1>4. ~y.news => Current(st', asked', s)
  <2>1. ~y.news => Current(st, asked, s)
    BY <1>1, <1>2 DEF IInv, Answered
  <2>2. st'[s].cork = st[s].cork /\ st'[s].mute = st[s].mute
    BY <1>1, <1>2, <1>3
  <2> QED BY <1>1, <2>1, <2>2 DEF Current
<1>5. /\ \A x \in Streams : x # s => (Current(st, asked, x) => Current(st, asked', x))
      /\ \A x : (\A i \in 1 .. Len(asked') : asked'[i].s # x)
              => \A i \in 1 .. Len(asked) : asked[i].s # x
      /\ ~y.news /\ (\A i \in 1 .. Len(asked') : asked'[i].s # s)
           => st[s].state = "ready" /\ ~st[s].news /\ y.mute = st[s].mute
  BY <1>1, <1>2
<1>6. IInv' /\ Cuts
  BY <1>1, <1>2, <1>3, <1>4, <1>5, OneStream, Zenon
\* A stream that plays is the first.
<1>7. Len(World.c.streams) > 0 /\ s = FirstOf(World) /\ World.c = c /\ World.st = st
      /\ Sound(World) /\ Held(World) = Holding
  <2>1. PICK i \in 1 .. Len(c.streams) : c.streams[i] = s
    BY <1>1 DEF IInv, Listed
  <2>2. i = 1 /\ Len(c.streams) > 0
    <3>1. Len(c.streams) \in Nat
      BY WorldIs, PlayingIs DEF Sound
    <3>2. ~(i > 1)
      BY <1>1, <2>1 DEF IInv, Behind
    <3> QED BY <3>1, <3>2
  <2> QED BY <2>1, <2>2, WorldIs DEF FirstOf
<1> DEFINE v == [c |-> c', st |-> st', want |-> FALSE, dead |-> NULL]
<1>8. Sound(v) /\ v.c = c /\ v.st = st'
  <2>1. /\ v \in Worlds /\ v.c = c' /\ v.st = st' /\ v.dead = NULL /\ c' = c /\ NULL # "assertion"
    BY <1>1, <1>6 DEF IInv, Types, Worlds, Deaths
  <2> HIDE DEF v
  <2> QED BY <1>6, <2>1 DEF IInv, Sound
<1> HIDE DEF v
<1>9. /\ v.c.streams = World.c.streams
      /\ \A x \in Streams : x # FirstOf(World) => v.st[x] = World.st[x]
      /\ v.st[FirstOf(World)].fmt = World.st[FirstOf(World)].fmt /\ World.st[FirstOf(World)].buf > 0
      /\ v.st[FirstOf(World)].buf = World.st[FirstOf(World)].buf - 1
  BY <1>1, <1>2, <1>3, <1>7, <1>8 DEF y
<1>10. Holding # <<>> /\ Held(v) = Tail(Holding)
  BY <1>7, <1>8, <1>9, HeldPlayed
<1>11. Holding' = Held(v)
  BY <1>1, <1>8 DEF Holding, Held
<1> QED BY <1>1, <1>6, <1>10, <1>11 DEF Plays

LEMMA MixerKeeps ==
  ASSUME IInv, NEW s \in Streams, Mixer(s)
  PROVE  IInv' /\ Cuts /\ Steady
<1> DEFINE b == ~st[s].mute
           y == [st[s] EXCEPT !.mute = b, !.news = TRUE]
<1>1. /\ st[s] \in StreamStates /\ st \in [Streams -> StreamStates]
      /\ asked' \in Seq(Questions) /\ asked' = asked /\ UNCHANGED <<c, player, dead>>
      /\ st[s].live /\ st[s].state = "ready"
  BY DEF IInv, Types, Mixer
<1>2. b \in BOOLEAN
  OBVIOUS
<1>3. st' = [st EXCEPT ![s] = y]
  BY <1>1 DEF Mixer, StreamStates
<1> HIDE DEF b
<1>4. /\ y \in StreamStates
      /\ y.made = st[s].made /\ y.live = st[s].live /\ y.fmt = st[s].fmt /\ y.state = "ready"
      /\ y.drain = st[s].drain /\ y.cork = st[s].cork /\ y.fed = st[s].fed
      /\ y.owed = st[s].owed /\ y.buf = st[s].buf /\ y.news
  BY <1>1, <1>2 DEF StreamStates
<1> HIDE DEF y
<1>5. /\ \A x \in Streams : x # s => (Current(st, asked, x) => Current(st, asked', x))
      /\ \A x : (\A i \in 1 .. Len(asked') : asked'[i].s # x)
              => \A i \in 1 .. Len(asked) : asked[i].s # x
      /\ ~y.news => Current(st', asked', s)
      /\ ~y.news /\ (\A i \in 1 .. Len(asked') : asked'[i].s # s)
           => st[s].state = "ready" /\ ~st[s].news /\ y.mute = st[s].mute
  BY <1>1, <1>4
<1> QED BY <1>1, <1>3, <1>4, <1>5, OneStream, Zenon

LEMMA InfoKeeps ==
  ASSUME IInv, Info
  PROVE  IInv' /\ Cuts /\ Steady
<1> DEFINE q == asked[1]
           k == [c EXCEPT !.paused = q.paused, !.mute = q.mute]
<1>1. /\ asked \in Seq(Questions) /\ asked # <<>> /\ c \in Contexts /\ player \in Players
      /\ World.c = c /\ World \in Worlds
  BY WorldIs DEF IInv, Types, Info, Sound
<1>2. /\ Tail(asked) \in Seq(Questions) /\ Head(asked) = q /\ q \in Questions
      /\ \A t, x : Current(t, asked, x) => Current(t, Tail(asked), x)
      /\ \A x : (\A i \in 1 .. Len(Tail(asked)) : Tail(asked)[i].s # x)
              => /\ q.s # x => \A i \in 1 .. Len(asked) : asked[i].s # x
                 /\ \A t : q.s = x /\ Current(t, asked, x)
                           => q.paused = t[x].cork /\ q.mute = t[x].mute
  BY <1>1, AnsweredIs
<1>3. q.s \in Streams /\ q.paused \in BOOLEAN /\ q.mute \in BOOLEAN
  BY <1>2 DEF Questions
<1>4. CASE ~st[q.s].live
  <2>1. Die("info") /\ "info" \in Deaths \ {"assertion"}
    BY <1>2, <1>4 DEF Info, Deaths
  <2> QED BY <2>1, DieIs DEF Steady
<1>5. CASE st[q.s].live
  <2>1. /\ asked' = Tail(asked) /\ UNCHANGED <<st, dead>>
        /\ IF q.s # Playing(World) THEN UNCHANGED <<c, player>>
           ELSE c' = k /\ player' = [player EXCEPT !.paused = q.paused, !.mute = q.mute]
    BY <1>2, <1>5 DEF Info
  <2>2. /\ Len(c.streams) \in Nat
        /\ Len(c.streams) = 0 => Playing(World) = NULL
        /\ Len(c.streams) > 0 => Playing(World) = c.streams[1] /\ c.streams[1] \in Streams
    BY <1>1, PlayingIs DEF FirstOf
  <2> HIDE DEF q
  <2>3. /\ c' \in Contexts /\ c'.streams = c.streams /\ c'.state = c.state
        /\ c'.input = c.input /\ c'.fmt = c.fmt
        /\ player' \in Players /\ player'.want = player.want /\ player'.sink = player.sink
        /\ q.s # Playing(World) => c' = c
        /\ q.s = Playing(World) => c'.paused = q.paused /\ c'.mute = q.mute
    <3>1. CASE q.s # Playing(World)
      BY <1>1, <2>1, <3>1
    <3>2. CASE q.s = Playing(World)
      <4>1. /\ k \in Contexts /\ k.streams = c.streams /\ k.state = c.state
            /\ k.input = c.input /\ k.fmt = c.fmt /\ k.paused = q.paused /\ k.mute = q.mute
        BY <1>1, <1>3 DEF Contexts
      <4> DEFINE p == [player EXCEPT !.paused = q.paused, !.mute = q.mute]
      <4>2. p \in Players /\ p.want = player.want /\ p.sink = player.sink
        BY <1>1, <1>3 DEF Players
      <4>3. c' = k /\ player' = p
        BY <2>1, <3>2
      <4> HIDE DEF k, p
      <4> QED BY <3>2, <4>1, <4>2, <4>3
    <3> QED BY <3>1, <3>2
  <2>4. Types'
    BY <1>2, <2>1, <2>3 DEF IInv, Types
  <2>5. Answered(st, Tail(asked))
    BY <1>2 DEF IInv, Answered
  <2>6. Believed(c', st, Tail(asked))
    <3> DEFINE h == c.streams[1]
    <3> SUFFICES ASSUME Len(c.streams) > 0, st[h].state = "ready", ~st[h].news,
                        \A i \in 1 .. Len(Tail(asked)) : Tail(asked)[i].s # h
                 PROVE  c'.paused = st[h].cork /\ c'.mute = st[h].mute
      BY <2>3 DEF Believed
    <3>1. h \in Streams /\ Playing(World) = h
      BY <2>2
    <3>2. CASE q.s # h
      <4>1. \A i \in 1 .. Len(asked) : asked[i].s # h
        <5> HIDE DEF h
        <5> QED BY <1>2, <3>2
      <4>2. c.paused = st[h].cork /\ c.mute = st[h].mute
        BY <4>1 DEF IInv, Believed
      <4> QED BY <2>3, <3>1, <3>2, <4>2
    <3>3. CASE q.s = h
      <4>1. Current(st, asked, h)
        BY <1>5, <3>1, <3>3 DEF IInv, Answered
      <4>2. q.paused = st[h].cork /\ q.mute = st[h].mute
        <5> HIDE DEF h
        <5> QED BY <1>2, <3>3, <4>1
      <4> QED BY <2>3, <3>1, <3>3, <4>2
    <3> QED BY <3>2, <3>3
  <2>7. /\ Listed(c', st) /\ Behind(c', st) /\ InputIsLast(c', st) /\ Wanted(c', st, player'.want)
        /\ Yields(c', st) /\ Idle(st)
    BY <2>3 DEF IInv, Listed, Behind, InputIsLast, Wanted, Yields
  <2>8. (player.sink = "loaded" \/ c.state = "disabled") /\ dead # "assertion"
    BY DEF IInv
  <2>9. IInv'
    BY <2>1, <2>3, <2>4, <2>5, <2>6, <2>7, <2>8 DEF IInv
  <2>10. Cuts
    BY <2>1 DEF Cuts
  <2>11. Steady
    BY <2>1, <2>3, HeldStays
  <2> QED BY <2>9, <2>10, <2>11
<1> QED BY <1>4, <1>5

-----------------------------------------------------------------------------
(* The theorems.                                                           *)

LEMMA InitIs == Init => IInv
<1> SUFFICES ASSUME Init PROVE IInv
  OBVIOUS
<1> DEFINE none == [s \in Streams |-> NoStream]
<1>1. /\ c = Disabled /\ st = none /\ asked = <<>> /\ dead = NULL
      /\ player = [sink |-> "none", want |-> FALSE, paused |-> FALSE, mute |-> FALSE]
  BY DEF Init
<1>2. Disabled \in Contexts /\ Disabled.streams = <<>> /\ Disabled.input = NULL
      /\ Disabled.state = "disabled"
  BY DEF Disabled, Contexts
<1>3. none \in [Streams -> StreamStates]
  BY FreedIs
<1>4. \A s \in Streams : /\ ~none[s].made /\ ~none[s].live /\ none[s].state = "connecting"
                        /\ none[s].buf = 0 /\ none[s].req = 0 /\ ~none[s].drain /\ ~none[s].fed
  BY DEF NoStream
<1> HIDE DEF none
<1>5. Types
  BY <1>1, <1>2, <1>3 DEF Types, Players
<1>6. Listed(c, st)
  <2>1. 0 \in 0 .. MaxStreams
    OBVIOUS
  <2>2. \E n \in 0 .. MaxStreams : \A s \in Streams : none[s].made <=> s <= n
    BY <1>4, <2>1 DEF Streams
  <2>3. Len(Disabled.streams) = 0
    BY <1>2
  <2> QED BY <1>1, <1>4, <2>2, <2>3 DEF Listed
<1>7. Idle(st) /\ Behind(c, st) /\ InputIsLast(c, st) /\ Yields(c, st)
  BY <1>1, <1>2, <1>4 DEF Idle, Behind, InputIsLast, Yields
<1>8. Wanted(c, st, player.want) /\ Believed(c, st, asked)
  BY <1>1, <1>2 DEF Wanted, Believed
<1>9. Answered(st, asked)
  BY <1>1, <1>4 DEF Answered
<1>10. NULL # "assertion"
  BY DEF Deaths
<1> QED BY <1>1, <1>2, <1>5, <1>6, <1>7, <1>8, <1>9, <1>10 DEF IInv

LEMMA StepKeeps ==
  ASSUME IInv, [Next]_vars
  PROVE  /\ IInv' /\ (Cuts \/ Disable \/ \E f \in Formats : FlushInput(f))
         /\ Steady \/ Commits \/ Plays
<1>1. CASE UNCHANGED vars
  BY <1>1 DEF vars, IInv, Types, Cuts, Steady, Holding
<1>2. ASSUME NEW f \in Formats \cup {NULL}, Enable(f) PROVE IInv' /\ Cuts /\ Steady
  BY <1>2, EnableKeeps
<1>3. CASE Disable
  BY <1>3, DisableKeeps
<1>4. ASSUME NEW f \in Formats, FirstFormat(f) PROVE IInv' /\ Cuts /\ Steady
  BY <1>4, FirstFormatKeeps
<1>5. ASSUME NEW f \in Formats, FlushInput(f) PROVE IInv' /\ Steady
  BY <1>5, FlushInputKeeps
<1>6. CASE StopInput
  BY <1>6, StopInputKeeps
<1>7. CASE TogglePause
  BY <1>7, TogglePauseKeeps
<1>8. CASE ToggleMute
  BY <1>8, ToggleMuteKeeps
<1>9. CASE ProvideInput
  BY <1>9, ProvideInputKeeps
<1>10. CASE ContextReady
  BY <1>10, ContextReadyKeeps
<1>11. CASE ContextFailed
  <2>1. Die("failed") /\ "failed" \in Deaths \ {"assertion"}
    BY <1>11 DEF ContextFailed, Deaths
  <2> QED BY <2>1, DieIs DEF Steady
<1>12. CASE Info
  BY <1>12, InfoKeeps
<1>13. ASSUME NEW s \in Streams,
              \/ StreamReady(s) \/ StreamFailed(s) \/ Writeable(s)
              \/ DrainDone(s) \/ Subscription(s) \/ Play(s) \/ Mixer(s)
       PROVE  IInv' /\ Cuts /\ (Steady \/ Plays)
  <2>1. CASE StreamReady(s)
    BY <2>1, StreamReadyKeeps
  <2>2. CASE StreamFailed(s)
    <3>1. Die("stream died") /\ "stream died" \in Deaths \ {"assertion"}
      BY <2>2 DEF StreamFailed, Deaths
    <3> QED BY <3>1, DieIs DEF Steady
  <2>3. CASE Writeable(s)
    BY <2>3, WriteableKeeps
  <2>4. CASE DrainDone(s)
    BY <2>4, DrainDoneKeeps
  <2>5. CASE Subscription(s)
    BY <2>5, SubscriptionKeeps
  <2>6. CASE Play(s)
    BY <2>6, PlayKeeps
  <2>7. CASE Mixer(s)
    BY <2>7, MixerKeeps
  <2> QED BY <1>13, <2>1, <2>2, <2>3, <2>4, <2>5, <2>6, <2>7
<1> QED BY <1>1, <1>2, <1>3, <1>4, <1>5, <1>6, <1>7, <1>8, <1>9, <1>10, <1>11, <1>12, <1>13 DEF Next

\* The invariant is inductive.
THEOREM Inductive == Spec => []IInv
<1>1. IInv /\ [Next]_vars => IInv'
  BY StepKeeps
<1> QED BY InitIs, <1>1, PTL DEF Spec

\* The list is what the server plays and calls back about, whatever is
\* created, drained, flushed or freed: the input is its last stream, and no
\* drain of a stream that is freed is answered.
THEOREM ListIsTrue == Spec => []StreamsKept
<1>1. IInv => StreamsKept
  <2> SUFFICES ASSUME IInv PROVE StreamsKept
    OBVIOUS
  <2>1. c.streams \in Seq(Streams) /\ DOMAIN c.streams = 1 .. Len(c.streams) /\ Len(c.streams) \in Nat
    BY DEF IInv, Types, Contexts
  <2>2. /\ c.state \in {"disabled", "enabled", "ready"}
        /\ c.fmt \in Formats \cup {NULL} /\ {c.mute, c.paused} \subseteq BOOLEAN
        /\ DOMAIN st = Streams /\ dead \in Deaths \cup {NULL}
        /\ \A s \in Streams : st[s].buf \in Nat /\ st[s].req \in 0 .. Target
    BY DEF IInv, Types, Contexts, StreamStates
  <2>3. \A s \in Streams : st[s].live <=> s \in ToSet(c.streams)
    BY <2>1 DEF IInv, Listed, ToSet
  <2>4. \A i, j \in DOMAIN c.streams : i < j => c.streams[i] < c.streams[j]
    BY <2>1 DEF IInv, Listed
  <2>5. c.input # NULL => c.streams # <<>> /\ c.input = Last(c.streams)
                          /\ st[c.input].fmt = c.fmt
    BY <2>1 DEF IInv, InputIsLast, Last
  <2>6. NoStaleDrain
    <3>1. \A s \in Streams : st[s].state \in {"connecting", "ready"}
      BY DEF IInv, Types, StreamStates
    <3> QED BY <3>1 DEF IInv, Idle, NoStaleDrain
  <2> QED BY <2>2, <2>3, <2>4, <2>5, <2>6 DEF StreamsKept, TypeOK
<1> QED BY <1>1, Inductive, PTL

\* The player never writes where the plugin does not expect it: the
\* assertions of provide_buf and commit_buf are not reached.
THEOREM NoAssertion == Spec => []WritesAreExpected
<1>1. IInv => WritesAreExpected
  BY DEF IInv, WritesAreExpected
<1> QED BY <1>1, Inductive, PTL

\* Two tracks are never heard at once.
THEOREM OneTrack == Spec => []OneAtATime
<1>1. IInv => OneAtATime
  <2> SUFFICES ASSUME IInv PROVE OneAtATime
    OBVIOUS
  <2>1. DOMAIN c.streams = 1 .. Len(c.streams)
    BY DEF IInv, Types, Contexts
  <2> QED BY <2>1 DEF IInv, Behind, OneAtATime
<1> QED BY <1>1, Inductive, PTL

\* A stream that is heard and not written to any more is on its way out.
THEOREM MadeWay == Spec => []GivesWay
<1>1. IInv => GivesWay
  <2> SUFFICES ASSUME IInv PROVE GivesWay
    OBVIOUS
  <2>1. /\ Len(c.streams) = 0 => Playing(World) = NULL
        /\ Len(c.streams) > 0 => Playing(World) = c.streams[1]
        /\ Len(c.streams) \in Nat
    BY WorldIs, PlayingIs DEF Sound, FirstOf
  <2> QED BY <2>1 DEF IInv, Yields, GivesWay
<1> QED BY <1>1, Inductive, PTL

\* What the context believes of the stream that is heard, once nothing about
\* it is on its way, is so.
THEOREM BeliefsHold == Spec => []BeliefsAgree
<1>1. IInv => BeliefsAgree
  <2> SUFFICES ASSUME IInv PROVE BeliefsAgree
    OBVIOUS
  <2>1. /\ Len(c.streams) = 0 => Playing(World) = NULL
        /\ Len(c.streams) > 0 => Playing(World) = c.streams[1]
        /\ Len(c.streams) \in Nat
    BY WorldIs, PlayingIs DEF Sound, FirstOf
  <2>2. asked = <<>> => Len(asked) = 0
    BY EmptySeq
  <2> QED BY <2>1, <2>2 DEF IInv, Believed, BeliefsAgree, Quiet
<1> QED BY <1>1, Inductive, PTL

\* Nothing that was written is cut off, but by a flush, by the end of the
\* sink or by death.
THEOREM HeardToTheEnd == Spec => NothingCutOff
<1> DEFINE A == \A s \in Streams :
                  st[s].live /\ ~st'[s].live /\ st[s].buf > 0
                    => dead' # NULL \/ Disable \/ \E f \in Formats : FlushInput(f)
<1>1. IInv /\ [Next]_vars => [A]_vars
  <2> SUFFICES ASSUME IInv, [Next]_vars PROVE A
    OBVIOUS
  <2>1. Cuts \/ Disable \/ \E f \in Formats : FlushInput(f)
    BY StepKeeps
  <2> QED BY <2>1 DEF Cuts
<1> QED BY <1>1, Inductive, PTL DEF Spec, NothingCutOff

\* Each step is one of a sink's, or leaves what the sink is to the player.
LEMMA SinkStep ==
  ASSUME IInv, [Next]_vars
  PROVE  [Heard!SinkNext]_(Heard!sinkVars)
<1>1. IInv' /\ (Steady \/ Commits \/ Plays)
  BY StepKeeps
<1>2. c'.fmt \in Formats \cup {NULL}
  BY <1>1 DEF IInv, Types, Contexts
<1>3. CASE Steady
  <2>1. Heard!SetFormat(c'.fmt) \/ Heard!Flush(c'.fmt)
    BY <1>3 DEF Steady, Holding, Audio, Units, Heard!SetFormat, Heard!Flush
  <2> QED BY <1>2, <2>1 DEF Heard!SinkNext
<1>4. CASE Commits
  <2>1. PICK n \in 1 .. Block : Holding' = Holding \o [i \in 1 .. n |-> c.fmt]
    BY <1>4 DEF Commits
  <2>2. Heard!Commit(n)
    BY <1>4, <2>1 DEF Commits, Holding, Audio, Units, Heard!Commit
  <2> QED BY <2>2 DEF Heard!SinkNext
<1>5. CASE Plays
  <2>1. Heard!Play
    BY <1>5 DEF Plays, Holding, Audio, Units, Heard!Play
  <2> QED BY <2>1 DEF Heard!SinkNext
<1> QED BY <1>1, <1>3, <1>4, <1>5

\* The list of streams is one sink to the player: what it committed is heard in
\* that order, whichever stream is created, drained, corked or freed meanwhile.
THEOREM OneSink == Spec => HeardInOrder
<1>1. Init => Heard!SinkInit
  <2> SUFFICES ASSUME Init PROVE Heard!SinkInit
    OBVIOUS
  <2>1. Holding = <<>>
    <3>1. Sound(World) /\ World.c = c /\ Held(World) = Holding
      BY InitIs, WorldIs
    <3>2. Len(World.c.streams) = 0
      BY <3>1, EmptySeq DEF Init, Disabled
    <3> QED BY <3>1, <3>2, HeldNone
  <2>2. c.fmt = NULL
    BY DEF Init, Disabled
  <2> QED BY <2>1, <2>2 DEF Holding, Audio, Units, Heard!SinkInit
<1>2. IInv /\ [Next]_vars => [Heard!SinkNext]_(Heard!sinkVars)
  BY SinkStep
<1> QED BY <1>1, <1>2, Inductive, PTL DEF Spec, HeardInOrder, Heard!SinkSpec
=============================================================================
