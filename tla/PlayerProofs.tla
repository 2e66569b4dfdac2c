---------------------------- MODULE PlayerProofs ----------------------------
(***************************************************************************)
(* Safety of module Player for any tracks, any sink buffer, any seeks and  *)
(* any length of a second: who owns the streams, what is decoded, that the *)
(* loop serves the sink, when a track change is due, and that the position *)
(* shown is true.                                                          *)
(***************************************************************************)
EXTENDS Player, SequenceTheorems, WellFoundedInduction, TLAPS

USE ConstantsAssumption

-----------------------------------------------------------------------------
(* The inductive invariant.                                                *)

Tracked == Streams \cup {NULL}

Players ==
  [inputs : Seq(InputType), paused : BOOLEAN, defer : BOOLEAN, force : BOOLEAN,
   posUpd : Nat, posMs : Nat, posSec : Nat, posTimer : Nat \cup {NULL},
   tcUpd : Nat, tcTimer : Nat \cup {NULL},
   toldPos : Nat \cup {NULL}, toldTrack : Tracked, closed : SUBSET Tracked,
   crashed : BOOLEAN]

\* What was noted of the clock is past, and no decoder is behind the end of
\* its stream.
Sane(p) ==
  /\ p \in Players /\ p.posUpd <= now /\ p.tcUpd <= now
  /\ \A i \in 1 .. Len(p.inputs) : p.inputs[i].at <= LengthOf(p.inputs[i].s)

\* No two inputs have the same stream, and each that is open has one.
Owned(p, streams) ==
  /\ \A i, j \in 1 .. Len(p.inputs) : p.inputs[i].s = p.inputs[j].s => i = j
  /\ \A i \in 1 .. Len(p.inputs) : p.inputs[i].s \in streams \ p.closed
  /\ \A s \in streams \ p.closed : \E i \in 1 .. Len(p.inputs) : p.inputs[i].s = s
  /\ p.closed \subseteq streams

AllEnded(p) == \A i \in 1 .. Len(p.inputs) : p.inputs[i].eof
LastOpen(p) == \A i \in 1 .. Len(p.inputs) : p.inputs[i].eof <=> i < Len(p.inputs)

\* The sink expects the format of the input that is decoded.
Formatted(p, k) ==
  k # NULL /\ k.fmt # NULL =>
    Len(p.inputs) > 0 /\ k.fmt = FormatOf(p.inputs[Len(p.inputs)].s)

TimerSet(p) ==
  ~p.paused /\ Len(p.inputs) > 0 /\ p.inputs[1].eof => p.tcTimer = p.tcUpd + p.inputs[1].rem

\* What is left of an input, had the sink played since.
Early(p) ==
  \A i \in 1 .. Len(p.inputs) :
    p.inputs[i].left > 0 => p.inputs[i].rem - (now - p.tcUpd) >= p.inputs[i].left

Silent(p) == \A i \in 1 .. Len(p.inputs) : p.inputs[i].left = 0

\* At any time the thread runs: p is the player, k the sink, streams those
\* that were opened, and calm says that nothing has disturbed the timing.
Sound(p, k, streams, calm) ==
  /\ Fails \/ Owned(p, streams)
  /\ p.defer => k # NULL
  /\ calm => Early(p) /\ ~p.paused /\ (k # NULL => ~k.cork)
  /\ k = NULL => Silent(p)

\* Between two callbacks; and while main looks for the track that follows.
Listed(p, k, streams) ==
  /\ LastOpen(p)
  /\ streams # {} \/ p.defer => Len(p.inputs) > 0
  /\ Formatted(p, k)
  /\ p.defer /\ ~Fails => k.fmt # NULL

Settled(p, k, streams) == Listed(p, k, streams) /\ TimerSet(p)

Asking(p, a) ==
  /\ ~a.flush => AllEnded(p) /\ TimerSet(p)
  /\ a.back = "sinkdefer" => p.force

\* The thread is at c, where it waits for an answer to a.
Holds(p, k, a, c, streams, calm) ==
  /\ Sane(p) /\ k \in Sinks \cup {NULL} /\ a \in Questions \cup {NULL}
  /\ c \in {"defer", "sinkdefer", "epoll", "handle", "next", "exited"}
  /\ c = "next" <=> a # NULL
  /\ streams \subseteq Streams /\ calm \in BOOLEAN
  /\ c # "exited" => Sound(p, k, streams, calm)
  /\ c = "next" => Asking(p, a)
  /\ c \notin {"next", "exited"} => Settled(p, k, streams)
  /\ c \in {"sinkdefer", "epoll"} /\ p.defer => p.force

IInv ==
  /\ now \in 0 .. MaxTime /\ ops \in 0 .. MaxOps
  /\ Holds(pl, sk, asked, pc, opened, faith)

-----------------------------------------------------------------------------
(* The functions of player.c.                                              *)

LEMMA DivIs ==
  ASSUME NEW a \in Nat, NEW b \in Nat \ {0}
  PROVE  a \div b \in Nat /\ (a \div b) * b <= a /\ a < (a \div b + 1) * b
OBVIOUS

LEMMA LengthIs == \A s \in Streams \cup {NULL} : LengthOf(s) \in Nat
BY DEF LengthOf

LEMMA FormatIs ==
  /\ \A s \in Streams : FormatOf(s) = Format[s] /\ FormatOf(s) \in Formats /\ FormatOf(s) # NULL
  /\ FormatOf(NULL) = NULL
BY DEF FormatOf, Formats

LEMMA ElementIs ==
  ASSUME NEW inputs \in Seq(InputType), NEW i \in 1 .. Len(inputs)
  PROVE  /\ inputs[i] \in InputType
         /\ inputs[i].s \in Tracked /\ inputs[i].eof \in BOOLEAN /\ inputs[i].rem \in Int
         /\ inputs[i].pos \in Nat /\ inputs[i].at \in Nat /\ inputs[i].left \in Nat
<1>1. inputs[i] \in InputType
  OBVIOUS
<1> QED BY <1>1 DEF InputType, Tracked

LEMMA PositiveIs == ASSUME NEW n \in Int PROVE Positive(n) \in Nat /\ Positive(n) >= n
BY DEF Positive

\* But for the position.
Alike(p, q) ==
  /\ q.inputs = p.inputs /\ q.closed = p.closed
  /\ q.paused = p.paused /\ q.defer = p.defer /\ q.force = p.force
  /\ q.tcUpd = p.tcUpd /\ q.tcTimer = p.tcTimer

LEMMA TimingIs ==
  ASSUME now \in Nat, NEW p, Sane(p), NEW k \in Sinks \cup {NULL}, NEW seeked \in BOOLEAN
  PROVE  Sane(TimingUpdate(p, k, seeked)) /\ Alike(p, TimingUpdate(p, k, seeked))
<1> DEFINE q == TimingUpdate(p, k, seeked)
<1>0. p \in Players
  BY DEF Sane
<1>1. CASE p.inputs = <<>>
  <2>1. q = [p EXCEPT !.posMs = 0, !.posSec = 0, !.posTimer = NULL, !.toldPos = 0]
    BY <1>1 DEF TimingUpdate
  <2> HIDE DEF q
  <2>2. q \in Players /\ Alike(p, q) /\ q.posUpd = p.posUpd
    BY <1>0, <2>1 DEF Players, Alike
  <2> QED BY <1>0, <2>2 DEF Sane, Alike, q
<1>2. CASE p.inputs # <<>> /\ (k = NULL \/ (p.paused /\ ~seeked))
  <2>1. q = [p EXCEPT !.posTimer = NULL, !.toldPos = p.posSec]
    BY <1>2 DEF TimingUpdate
  <2> QED BY <1>0, <2>1 DEF Sane, Players, Alike
<1>3. CASE p.inputs # <<>> /\ ~(k = NULL \/ (p.paused /\ ~seeked)) /\ Head(p.inputs).s = NULL
  <2>1. q = [p EXCEPT !.crashed = TRUE]
    BY <1>3 DEF TimingUpdate
  <2> QED BY <1>0, <2>1 DEF Sane, Players, Alike
<1>4. CASE p.inputs # <<>> /\ ~(k = NULL \/ (p.paused /\ ~seeked)) /\ Head(p.inputs).s # NULL
  <2> DEFINE first   == Head(p.inputs)
             latency == IF first.eof THEN Positive(first.rem - (now - p.tcUpd)) ELSE Latency(k)
             ms      == Positive(first.pos - latency)
             newSec  == ms \div Second
             tell    == Tell(p, newSec, seeked)
             sec     == IF tell THEN newSec ELSE p.posSec
  <2>1. q = [p EXCEPT !.posUpd = now, !.posMs = ms, !.posSec = sec,
                      !.toldPos = IF tell THEN sec ELSE @,
                      !.posTimer = now + (sec + 1) * Second - ms]
    BY <1>4 DEF TimingUpdate
  <2>2. first \in InputType
    BY <1>0, <1>4 DEF Players
  <2>3. latency \in Nat
    <3>1. first.rem - (now - p.tcUpd) \in Int
      BY <1>0, <2>2 DEF Players, InputType
    <3>2. Latency(k) \in Nat
      BY DEF Latency, Sinks
    <3> QED BY <3>1, <3>2, PositiveIs
  <2>4. ms \in Nat
    <3>1. first.pos - latency \in Int
      BY <2>2, <2>3 DEF InputType
    <3> QED BY <3>1, PositiveIs
  <2>5. newSec \in Nat /\ ms < (newSec + 1) * Second
    BY <2>4, DivIs
  <2>6. sec \in Nat /\ newSec <= sec
    BY <1>0, <2>5 DEF Tell, Players
  <2> HIDE DEF ms, newSec, sec, tell
  <2>7. (newSec + 1) * Second <= (sec + 1) * Second
    BY <2>5, <2>6
  <2>8. now + (sec + 1) * Second - ms \in Nat
    <3>1. (sec + 1) * Second \in Nat
      BY <2>6
    <3>2. (newSec + 1) * Second \in Nat
      BY <2>5
    <3> QED BY <2>4, <2>5, <2>7, <3>1, <3>2
  <2> DEFINE told  == IF tell THEN sec ELSE p.toldPos
             timer == now + (sec + 1) * Second - ms
  <2>9. q = [p EXCEPT !.posUpd = now, !.posMs = ms, !.posSec = sec, !.toldPos = told,
                      !.posTimer = timer]
    BY <1>0, <2>1 DEF Players
  <2>10. told \in Nat \cup {NULL} /\ timer \in Nat
    BY <1>0, <2>6, <2>8 DEF Players
  <2> HIDE DEF q, told, timer
  <2>11. q \in Players /\ Alike(p, q) /\ q.posUpd = now
    BY <1>0, <2>4, <2>6, <2>9, <2>10 DEF Players, Alike
  <2> QED BY <2>11 DEF Sane, Alike, q
<1> QED BY <1>1, <1>2, <1>3, <1>4

-----------------------------------------------------------------------------
(* Track changes.                                                          *)

Below == {p \in Nat \X Nat : p[1] < p[2]}

LEMMA BelowWF == IsWellFoundedOn(Below, Nat)
<1>1. OpToRel(<, Nat) = Below
  BY Zenon DEF OpToRel, Below
<1> QED BY <1>1, NatLessThanWellFounded, Zenon

\* A set of numbers that is not empty has a least element.
LEMMA MinIs ==
  ASSUME NEW T \in SUBSET Nat, T # {}
  PROVE  Min(T) \in T /\ \A k \in T : Min(T) <= k
<1>1. \A k, n \in Nat : k < n => <<k, n>> \in Below
  BY DEF Below
<1>2. PICK n \in T : \A k \in T : <<k, n>> \notin Below
  BY BelowWF, WFMin, Zenon
<1>3. ASSUME NEW k \in T PROVE n <= k
  <2>1. n \in Nat /\ k \in Nat /\ ~(k < n)
    BY <1>1, <1>2, <1>3, Zenon
  <2> QED BY <2>1
<1>4. \E m \in T : \A k \in T : m <= k
  BY <1>2, <1>3, Zenon
<1> QED BY <1>4, Zenon DEF Min

Over(x) == x.eof /\ x.rem <= 0

\* The position is as it was.
Shows(p, q) ==
  /\ q.posSec = p.posSec /\ q.posMs = p.posMs /\ q.posUpd = p.posUpd
  /\ q.posTimer = p.posTimer /\ q.toldPos = p.toldPos

\* The first n inputs have been heard to their ends, and the next has not.
Dropped(p, q, n) ==
  /\ Len(q.inputs) = Len(p.inputs) - n
  /\ \A i \in 1 .. Len(q.inputs) : q.inputs[i] = p.inputs[i + n]
  /\ \A i \in 1 .. n : Over(p.inputs[i])
  /\ n < Len(p.inputs) => ~Over(p.inputs[n + 1])
  /\ q.closed = p.closed \cup {p.inputs[i].s : i \in 1 .. n}
  /\ q.paused = p.paused /\ q.defer = p.defer /\ q.force = p.force
  /\ q.tcUpd = p.tcUpd /\ q.tcTimer = p.tcTimer

LEMMA EndedIs ==
  ASSUME NEW inputs \in Seq(InputType)
  PROVE  LET alive == SelectInSeq(inputs, LAMBDA x : ~x.eof \/ x.rem > 0)
             n     == IF alive = 0 THEN Len(inputs) ELSE alive - 1
         IN /\ n \in 0 .. Len(inputs)
            /\ \A i \in 1 .. n : Over(inputs[i])
            /\ n < Len(inputs) => ~Over(inputs[n + 1])
<1> DEFINE I == {i \in 1 .. Len(inputs) : ~inputs[i].eof \/ inputs[i].rem > 0}
           alive == SelectInSeq(inputs, LAMBDA x : ~x.eof \/ x.rem > 0)
<1>1. alive = IF I # {} THEN Min(I) ELSE 0
  BY DEF SelectInSeq
<1>2. \A i \in 1 .. Len(inputs) : i \in I <=> ~Over(inputs[i])
  <2>1. \A i \in 1 .. Len(inputs) : inputs[i].eof \in BOOLEAN /\ inputs[i].rem \in Int
    BY ElementIs
  <2> QED BY <2>1 DEF Over
<1>3. I \subseteq 1 .. Len(inputs) /\ Len(inputs) \in Nat
  OBVIOUS
<1> HIDE DEF I, alive
<1>4. CASE I = {}
  <2>1. alive = 0
    BY <1>1, <1>4
  <2>2. \A i \in 1 .. Len(inputs) : Over(inputs[i])
    BY <1>2, <1>4
  <2> QED BY <1>3, <2>1, <2>2 DEF alive
<1>5. CASE I # {}
  <2>1. alive \in I /\ \A k \in I : alive <= k
    BY <1>1, <1>3, <1>5, MinIs
  <2>2. alive \in 1 .. Len(inputs) /\ ~Over(inputs[alive])
    BY <1>2, <1>3, <2>1
  <2>3. \A i \in 1 .. alive - 1 : Over(inputs[i])
    BY <1>2, <1>3, <2>1, <2>2
  <2> QED BY <1>3, <2>2, <2>3 DEF alive
<1> QED BY <1>4, <1>5

\* Inputs are dropped, and the position is that of the one that follows.
LEMMA DropIs ==
  ASSUME now \in Nat, NEW p, Sane(p), NEW k \in Sinks \cup {NULL}
  PROVE  \/ DropEnded(p, k) = p /\ Dropped(p, p, 0)
         \/ \E n \in 1 .. Len(p.inputs) : \E q :
              /\ Sane(q) /\ Dropped(p, q, n) /\ Shows(p, q)
              /\ DropEnded(p, k) = TimingUpdate(q, k, TRUE)
<1> DEFINE alive == SelectInSeq(p.inputs, LAMBDA x : ~x.eof \/ x.rem > 0)
           n     == IF alive = 0 THEN Len(p.inputs) ELSE alive - 1
           q     == [p EXCEPT !.toldTrack = p.inputs[n].s,
                              !.closed = @ \cup StreamsOf(SubSeq(p.inputs, 1, n)),
                              !.inputs = SubSeq(@, n + 1, Len(@))]
           r     == TimingUpdate(q, k, TRUE)
<1>0. p \in Players /\ p.inputs \in Seq(InputType) /\ Len(p.inputs) \in Nat
  BY DEF Sane, Players
<1>1. /\ n \in 0 .. Len(p.inputs)
      /\ \A i \in 1 .. n : Over(p.inputs[i])
      /\ n < Len(p.inputs) => ~Over(p.inputs[n + 1])
  BY <1>0, EndedIs
<1>2. DropEnded(p, k) = IF n = 0 THEN p ELSE r
  BY DEF DropEnded
<1> HIDE DEF n
<1>3. CASE n = 0
  <2>1. Dropped(p, p, 0)
    BY <1>0, <1>1, <1>3 DEF Dropped
  <2> QED BY <1>2, <1>3, <2>1
<1>4. CASE n # 0
  <2>1. /\ SubSeq(p.inputs, 1, n) \in Seq(InputType) /\ Len(SubSeq(p.inputs, 1, n)) = n
        /\ \A i \in 1 .. n : SubSeq(p.inputs, 1, n)[i] = p.inputs[i]
    BY <1>0, <1>1, SubSeqProperties
  <2>2. /\ SubSeq(p.inputs, n + 1, Len(p.inputs)) \in Seq(InputType)
        /\ Len(SubSeq(p.inputs, n + 1, Len(p.inputs))) = Len(p.inputs) - n
        /\ \A i \in 1 .. Len(p.inputs) - n :
             SubSeq(p.inputs, n + 1, Len(p.inputs))[i] = p.inputs[i + n]
    BY <1>0, <1>1, SubSeqProperties
  <2> DEFINE heard == SubSeq(p.inputs, 1, n)
             rest  == SubSeq(p.inputs, n + 1, Len(p.inputs))
  <2>3. StreamsOf(heard) = {p.inputs[i].s : i \in 1 .. n}
    BY <2>1 DEF StreamsOf
  <2>4. StreamsOf(heard) \subseteq Tracked /\ p.inputs[n].s \in Tracked
    <3>1. \A i \in 1 .. n : p.inputs[i].s \in Tracked
      BY <1>0, <1>1, ElementIs
    <3> QED BY <1>1, <1>4, <2>3, <3>1
  <2> HIDE DEF heard, rest
  <2>5. q = [p EXCEPT !.toldTrack = p.inputs[n].s, !.closed = @ \cup StreamsOf(heard),
                      !.inputs = rest]
    BY <1>0 DEF heard, rest, Players
  <2> HIDE DEF q
  <2>6. rest \in Seq(InputType)
    BY <2>2 DEF rest
  <2>7. /\ q \in Players /\ q.inputs = rest /\ q.closed = p.closed \cup StreamsOf(heard)
        /\ q.paused = p.paused /\ q.defer = p.defer /\ q.force = p.force
        /\ q.tcUpd = p.tcUpd /\ q.tcTimer = p.tcTimer /\ q.posUpd = p.posUpd
        /\ Shows(p, q)
    BY ONLY <1>0, <2>4, <2>5, <2>6 DEF Players, Shows
  <2>8. Sane(q)
    <3>1. ASSUME NEW i \in 1 .. Len(rest) PROVE rest[i].at <= LengthOf(rest[i].s)
      <4>1. rest[i] = p.inputs[i + n] /\ i + n \in 1 .. Len(p.inputs)
        BY <1>0, <1>1, <2>2 DEF rest
      <4> QED BY <4>1 DEF Sane
    <3> QED BY <2>7, <3>1 DEF Sane
  <2>9. Dropped(p, q, n)
    BY <1>0, <1>1, <2>2, <2>3, <2>7 DEF Dropped, rest
  <2>10. n \in 1 .. Len(p.inputs) /\ DropEnded(p, k) = TimingUpdate(q, k, TRUE)
    BY <1>0, <1>1, <1>2, <1>4
  <2> QED BY <2>7, <2>8, <2>9, <2>10
<1> QED BY <1>3, <1>4

LEMMA DropEndedIs ==
  ASSUME now \in Nat, NEW p, Sane(p), NEW k \in Sinks \cup {NULL}
  PROVE  Sane(DropEnded(p, k)) /\ \E n \in 0 .. Len(p.inputs) : Dropped(p, DropEnded(p, k), n)
<1>0. Len(p.inputs) \in Nat
  BY DEF Sane, Players
<1>1. CASE DropEnded(p, k) = p /\ Dropped(p, p, 0)
  BY <1>0, <1>1
<1>2. CASE \E n \in 1 .. Len(p.inputs) : \E q :
             /\ Sane(q) /\ Dropped(p, q, n) /\ Shows(p, q)
             /\ DropEnded(p, k) = TimingUpdate(q, k, TRUE)
  <2>0. PICK n \in 1 .. Len(p.inputs) : \E q :
          /\ Sane(q) /\ Dropped(p, q, n) /\ DropEnded(p, k) = TimingUpdate(q, k, TRUE)
    BY <1>2
  <2>1. PICK q :
          /\ Sane(q) /\ Dropped(p, q, n) /\ DropEnded(p, k) = TimingUpdate(q, k, TRUE)
    BY <2>0
  <2> DEFINE r == TimingUpdate(q, k, TRUE)
  <2>2. Sane(r) /\ Alike(q, r)
    BY <2>1, TimingIs
  <2> HIDE DEF r
  <2>3. Dropped(p, r, n)
    BY <2>1, <2>2 DEF Dropped, Alike
  <2>4. n \in 0 .. Len(p.inputs)
    BY <1>0
  <2> QED BY <2>1, <2>2, <2>3, <2>4 DEF r
<1> QED BY <1>1, <1>2, DropIs

\* What is left of x in a list last updated at the time then.
Left(x, then) == x.rem - (now - then)

\* From p to q inputs that are at their end are dropped from the front of the
\* list, and no less is left of the others.
Served(p, q) ==
  /\ Sane(q)
  /\ q.paused = p.paused /\ q.defer = p.defer /\ q.force = p.force
  /\ \E n \in 0 .. Len(p.inputs) :
       /\ Len(q.inputs) = Len(p.inputs) - n
       /\ \A i \in 1 .. n : p.inputs[i].eof
       /\ q.closed = p.closed \cup {p.inputs[i].s : i \in 1 .. n}
       /\ \A i \in 1 .. Len(q.inputs) :
            /\ q.inputs[i].s = p.inputs[i + n].s
            /\ q.inputs[i].eof = p.inputs[i + n].eof
            /\ q.inputs[i].left = p.inputs[i + n].left
            /\ Left(q.inputs[i], q.tcUpd) >= Left(p.inputs[i + n], p.tcUpd)

LEMMA SaneIs ==
  ASSUME NEW p, Sane(p)
  PROVE  /\ p \in Players /\ p.inputs \in Seq(InputType) /\ Len(p.inputs) \in Nat
         /\ p.tcUpd \in Nat /\ p.tcUpd <= now /\ p.posUpd \in Nat /\ p.posUpd <= now
         /\ \A i \in 1 .. Len(p.inputs) :
              p.inputs[i] \in InputType /\ p.inputs[i].at <= LengthOf(p.inputs[i].s)
BY ElementIs DEF Sane, Players

LEMMA LeftIs ==
  ASSUME now \in Nat, NEW p, Sane(p), NEW i \in 1 .. Len(p.inputs)
  PROVE  p.inputs[i].rem \in Int /\ Left(p.inputs[i], p.tcUpd) = p.inputs[i].rem - (now - p.tcUpd)
         /\ Left(p.inputs[i], p.tcUpd) \in Int
BY SaneIs, ElementIs DEF Left

LEMMA ServedTrans ==
  ASSUME now \in Nat, NEW p, Sane(p), NEW q, Served(p, q), NEW r, Served(q, r)
  PROVE  Served(p, r)
<1>0. Sane(q) /\ Sane(r)
  BY DEF Served
<1> DEFINE P == p.inputs  Q == q.inputs  R == r.inputs
<1>1. PICK n \in 0 .. Len(P) :
        /\ Len(Q) = Len(P) - n
        /\ \A i \in 1 .. n : P[i].eof
        /\ q.closed = p.closed \cup {P[i].s : i \in 1 .. n}
        /\ \A i \in 1 .. Len(Q) : /\ Q[i].s = P[i + n].s /\ Q[i].eof = P[i + n].eof
                                  /\ Q[i].left = P[i + n].left
                                  /\ Left(Q[i], q.tcUpd) >= Left(P[i + n], p.tcUpd)
  BY DEF Served
<1>2. PICK m \in 0 .. Len(Q) :
        /\ Len(R) = Len(Q) - m
        /\ \A i \in 1 .. m : Q[i].eof
        /\ r.closed = q.closed \cup {Q[i].s : i \in 1 .. m}
        /\ \A i \in 1 .. Len(R) : /\ R[i].s = Q[i + m].s /\ R[i].eof = Q[i + m].eof
                                  /\ R[i].left = Q[i + m].left
                                  /\ Left(R[i], r.tcUpd) >= Left(Q[i + m], q.tcUpd)
  BY DEF Served
<1>3. Len(P) \in Nat /\ Len(Q) \in Nat /\ Len(R) \in Nat
  BY <1>0, SaneIs
<1> HIDE DEF P, Q, R
<1>4. n + m \in 0 .. Len(P) /\ Len(R) = Len(P) - (n + m)
  BY <1>1, <1>2, <1>3
<1>5. ASSUME NEW i \in 1 .. n + m PROVE P[i].eof
  <2>1. CASE i <= n
    BY <1>1, <2>1
  <2>2. CASE i > n
    <3>1. i - n \in 1 .. m /\ i - n \in 1 .. Len(Q) /\ (i - n) + n = i
      BY <1>1, <1>2, <1>3, <2>2
    <3>2. Q[i - n].eof
      BY <1>2, <3>1
    <3>3. Q[i - n].eof = P[(i - n) + n].eof
      BY <1>1, <3>1
    <3> QED BY <3>1, <3>2, <3>3
  <2> QED BY <2>1, <2>2
<1>6. r.closed = p.closed \cup {P[i].s : i \in 1 .. n + m}
  <2>1. ASSUME NEW i \in 1 .. m PROVE Q[i].s \in {P[j].s : j \in 1 .. n + m}
    <3>1. i + n \in 1 .. n + m /\ i \in 1 .. Len(Q)
      BY <1>1, <1>2, <1>3
    <3>2. Q[i].s = P[i + n].s
      BY <1>1, <3>1
    <3> QED BY <3>1, <3>2
  <2>2. ASSUME NEW j \in 1 .. n + m
        PROVE  P[j].s \in {P[i].s : i \in 1 .. n} \cup {Q[i].s : i \in 1 .. m}
    <3>1. CASE j <= n
      <4>1. j \in 1 .. n
        BY <1>1, <3>1
      <4> QED BY <4>1
    <3>2. CASE j > n
      <4>1. j - n \in 1 .. m /\ j - n \in 1 .. Len(Q) /\ (j - n) + n = j
        BY <1>1, <1>2, <1>3, <3>2
      <4>2. Q[j - n].s = P[(j - n) + n].s
        BY <1>1, <4>1
      <4> QED BY <4>1, <4>2
    <3> QED BY <3>1, <3>2
  <2>3. \A i \in 1 .. n : P[i].s \in {P[j].s : j \in 1 .. n + m}
    <3>1. \A i \in 1 .. n : i \in 1 .. n + m
      BY <1>1, <1>2, <1>3
    <3> QED BY <3>1
  <2>4. {P[i].s : i \in 1 .. n + m} = {P[i].s : i \in 1 .. n} \cup {Q[i].s : i \in 1 .. m}
    BY <2>1, <2>2, <2>3
  <2> QED BY <1>1, <1>2, <2>4
<1>7. ASSUME NEW i \in 1 .. Len(R)
      PROVE  /\ R[i].s = P[i + (n + m)].s /\ R[i].eof = P[i + (n + m)].eof
             /\ R[i].left = P[i + (n + m)].left
             /\ Left(R[i], r.tcUpd) >= Left(P[i + (n + m)], p.tcUpd)
  <2>1. i + m \in 1 .. Len(Q) /\ (i + m) + n = i + (n + m) /\ i + (n + m) \in 1 .. Len(P)
    BY <1>1, <1>2, <1>3
  <2>2. /\ Left(R[i], r.tcUpd) \in Int /\ Left(Q[i + m], q.tcUpd) \in Int
        /\ Left(P[i + (n + m)], p.tcUpd) \in Int
    BY <1>0, <2>1, LeftIs DEF P, Q, R
  <2>3. /\ R[i].s = Q[i + m].s /\ R[i].eof = Q[i + m].eof /\ R[i].left = Q[i + m].left
        /\ Left(R[i], r.tcUpd) >= Left(Q[i + m], q.tcUpd)
    BY <1>2
  <2>4. /\ Q[i + m].s = P[i + (n + m)].s /\ Q[i + m].eof = P[i + (n + m)].eof
        /\ Q[i + m].left = P[i + (n + m)].left
        /\ Left(Q[i + m], q.tcUpd) >= Left(P[i + (n + m)], p.tcUpd)
    BY <1>1, <2>1
  <2> QED BY <2>2, <2>3, <2>4
<1>8. r.paused = p.paused /\ r.defer = p.defer /\ r.force = p.force
  BY DEF Served
<1>9. \E d \in 0 .. Len(P) :
        /\ Len(R) = Len(P) - d
        /\ \A i \in 1 .. d : P[i].eof
        /\ r.closed = p.closed \cup {P[i].s : i \in 1 .. d}
        /\ \A i \in 1 .. Len(R) : /\ R[i].s = P[i + d].s /\ R[i].eof = P[i + d].eof
                                  /\ R[i].left = P[i + d].left
                                  /\ Left(R[i], r.tcUpd) >= Left(P[i + d], p.tcUpd)
  BY <1>4, <1>5, <1>6, <1>7
<1> QED BY <1>0, <1>8, <1>9, ZenonT(60) DEF Served, P, R

\* The cases without a change of track.
LEMMA AgedIs ==
  ASSUME now \in Nat, NEW p, Sane(p), NEW q, Sane(q),
         q.paused = p.paused, q.defer = p.defer, q.force = p.force, q.closed = p.closed,
         Len(q.inputs) = Len(p.inputs),
         \A i \in 1 .. Len(p.inputs) :
           /\ q.inputs[i].s = p.inputs[i].s /\ q.inputs[i].eof = p.inputs[i].eof
           /\ q.inputs[i].left = p.inputs[i].left
           /\ Left(q.inputs[i], q.tcUpd) >= Left(p.inputs[i], p.tcUpd)
  PROVE  Served(p, q)
<1>1. Len(p.inputs) \in Nat /\ {p.inputs[i].s : i \in 1 .. 0} = {}
  BY SaneIs
<1>2. /\ 0 \in 0 .. Len(p.inputs) /\ Len(q.inputs) = Len(p.inputs) - 0
      /\ \A i \in 1 .. 0 : p.inputs[i].eof
      /\ q.closed = p.closed \cup {p.inputs[i].s : i \in 1 .. 0}
  BY <1>1
<1>3. \A i \in 1 .. Len(q.inputs) :
        /\ q.inputs[i].s = p.inputs[i + 0].s /\ q.inputs[i].eof = p.inputs[i + 0].eof
        /\ q.inputs[i].left = p.inputs[i + 0].left
        /\ Left(q.inputs[i], q.tcUpd) >= Left(p.inputs[i + 0], p.tcUpd)
  BY <1>1
<1> HIDE <1>1
<1> QED BY <1>2, <1>3 DEF Served

LEMMA AlikeServed ==
  ASSUME now \in Nat, NEW p, Sane(p), NEW q, Sane(q), Alike(p, q)
  PROVE  Served(p, q) /\ (TimerSet(p) <=> TimerSet(q))
<1>1. \A i \in 1 .. Len(p.inputs) : Left(p.inputs[i], p.tcUpd) \in Int
  BY LeftIs
<1>2. Served(p, q)
  BY <1>1, AgedIs DEF Alike
<1> QED BY <1>2 DEF Alike, TimerSet

LEMMA DroppedServed ==
  ASSUME now \in Nat, NEW p, Sane(p), NEW q, Sane(q),
         NEW n \in 0 .. Len(p.inputs), Dropped(p, q, n)
  PROVE  Served(p, q)
<1>1. /\ q.paused = p.paused /\ q.defer = p.defer /\ q.force = p.force
      /\ Len(q.inputs) = Len(p.inputs) - n
      /\ \A i \in 1 .. n : p.inputs[i].eof
      /\ q.closed = p.closed \cup {p.inputs[i].s : i \in 1 .. n}
  BY DEF Dropped, Over
<1>2. ASSUME NEW i \in 1 .. Len(q.inputs)
      PROVE  /\ q.inputs[i].s = p.inputs[i + n].s
             /\ q.inputs[i].eof = p.inputs[i + n].eof
             /\ q.inputs[i].left = p.inputs[i + n].left
             /\ Left(q.inputs[i], q.tcUpd) >= Left(p.inputs[i + n], p.tcUpd)
  <2>1. q.inputs[i] = p.inputs[i + n] /\ q.tcUpd = p.tcUpd
    BY DEF Dropped
  <2>2. Left(q.inputs[i], q.tcUpd) \in Int
    BY LeftIs
  <2> QED BY <2>1, <2>2
<1> QED BY <1>1, <1>2 DEF Served

LEMMA ContinueIs ==
  ASSUME now \in Nat, NEW p, Sane(p), p.tcUpd = now, NEW k \in Sinks \cup {NULL}
  PROVE  Served(p, ContinueTimer(p, k)) /\ TimerSet(ContinueTimer(p, k))
<1> DEFINE q == DropEnded(p, k)
           r == [q EXCEPT !.tcTimer = now + q.inputs[1].rem]
<1>1. CASE p.paused
  <2>1. ContinueTimer(p, k) = p
    BY <1>1 DEF ContinueTimer
  <2>2. Served(p, p)
    BY AlikeServed DEF Alike
  <2> QED BY <1>1, <2>1, <2>2 DEF TimerSet
<1>2. CASE ~p.paused
  <2>1. Sane(q)
    BY DropEndedIs
  <2>2. PICK n \in 0 .. Len(p.inputs) : Dropped(p, q, n)
    BY DropEndedIs
  <2>3. Served(p, q)
    BY <2>1, <2>2, DroppedServed
  <2>4. ContinueTimer(p, k) = IF q.inputs = <<>> \/ ~q.inputs[1].eof THEN q ELSE r
    BY <1>2 DEF ContinueTimer
  <2> HIDE DEF q
  <2>5. Len(q.inputs) \in Nat /\ q.inputs \in Seq(InputType) /\ Len(p.inputs) \in Nat
    BY <2>1, SaneIs
  <2>6. CASE q.inputs = <<>> \/ ~q.inputs[1].eof
    <3>1. TimerSet(q)
      BY <2>5, <2>6 DEF TimerSet
    <3> QED BY <2>3, <2>4, <2>6, <3>1
  <2>7. CASE ~(q.inputs = <<>> \/ ~q.inputs[1].eof)
    <3>1. Len(q.inputs) > 0
      BY <2>5, <2>7
    <3>2. q.inputs[1].rem \in Int /\ ~Over(q.inputs[1])
      <4>1. 1 \in 1 .. Len(q.inputs)
        BY <2>5, <3>1
      <4>2. q.inputs[1] = p.inputs[n + 1] /\ n < Len(p.inputs)
        BY <2>2, <2>5, <3>1, <4>1 DEF Dropped
      <4> QED BY <2>1, <2>2, <4>1, <4>2, LeftIs DEF Dropped
    <3>3. now + q.inputs[1].rem \in Nat
      BY <2>7, <3>2 DEF Over
    <3>4. q \in Players /\ q.tcUpd = now
      BY <2>1, <2>2 DEF Sane, Dropped
    <3>5. /\ r \in Players /\ r.inputs = q.inputs /\ r.tcTimer = now + q.inputs[1].rem
          /\ r.tcUpd = q.tcUpd /\ r.posUpd = q.posUpd /\ r.closed = q.closed
          /\ r.paused = q.paused /\ r.defer = q.defer /\ r.force = q.force
      BY <3>3, <3>4 DEF Players
    <3> HIDE DEF r
    <3>6. Sane(r)
      BY <2>1, <3>5 DEF Sane
    <3>7. \A i \in 1 .. Len(q.inputs) : Left(q.inputs[i], q.tcUpd) \in Int
      BY <2>1, LeftIs
    <3>8. Served(q, r)
      BY <2>1, <3>5, <3>6, <3>7, AgedIs
    <3>9. Served(p, r)
      BY <2>3, <3>8, ServedTrans
    <3>10. TimerSet(r)
      BY <3>4, <3>5 DEF TimerSet
    <3> QED BY <2>4, <2>7, <3>9, <3>10
  <2> QED BY <2>6, <2>7
<1> QED BY <1>1, <1>2

LEMMA StartIs ==
  ASSUME now \in Nat, NEW p, Sane(p), NEW k \in Sinks \cup {NULL}
  PROVE  Served(p, StartTimer(p, k)) /\ TimerSet(StartTimer(p, k))
<1> DEFINE q == [p EXCEPT !.tcUpd = now]
<1>0. p \in Players
  BY DEF Sane
<1>1. /\ q \in Players /\ q.inputs = p.inputs /\ q.tcUpd = now /\ q.posUpd = p.posUpd
      /\ q.closed = p.closed /\ q.paused = p.paused /\ q.defer = p.defer /\ q.force = p.force
  BY <1>0 DEF Players
<1>2. StartTimer(p, k) = ContinueTimer(q, k)
  BY DEF StartTimer
<1> HIDE DEF q
<1>3. Sane(q)
  BY <1>1 DEF Sane
<1>4. \A i \in 1 .. Len(p.inputs) : Left(p.inputs[i], now) >= Left(p.inputs[i], p.tcUpd)
  <2>1. p.tcUpd \in Nat /\ p.tcUpd <= now
    BY SaneIs
  <2>2. \A i \in 1 .. Len(p.inputs) : p.inputs[i].rem \in Int
    BY LeftIs
  <2> QED BY <2>1, <2>2 DEF Left
<1>5. Served(p, q)
  BY <1>1, <1>3, <1>4, AgedIs
<1>6. Served(q, ContinueTimer(q, k)) /\ TimerSet(ContinueTimer(q, k))
  BY <1>1, <1>3, ContinueIs
<1> QED BY <1>2, <1>5, <1>6, ServedTrans

\* The time that has passed is taken off what is left of each input.
LEMMA AgeIs ==
  ASSUME now \in Nat, NEW p, Sane(p)
  PROVE  LET aged == [i \in DOMAIN p.inputs |-> [p.inputs[i] EXCEPT !.rem = @ - (now - p.tcUpd)]]
         IN /\ aged \in Seq(InputType) /\ Len(aged) = Len(p.inputs)
            /\ \A i \in 1 .. Len(p.inputs) :
                 /\ aged[i] \in InputType /\ aged[i].s = p.inputs[i].s
                 /\ aged[i].eof = p.inputs[i].eof /\ aged[i].left = p.inputs[i].left
                 /\ aged[i].at = p.inputs[i].at /\ aged[i].pos = p.inputs[i].pos
                 /\ aged[i].rem = p.inputs[i].rem - (now - p.tcUpd)
<1> DEFINE aged == [i \in DOMAIN p.inputs |-> [p.inputs[i] EXCEPT !.rem = @ - (now - p.tcUpd)]]
<1>0. /\ p \in Players /\ p.inputs \in Seq(InputType) /\ Len(p.inputs) \in Nat
      /\ DOMAIN p.inputs = 1 .. Len(p.inputs) /\ p.tcUpd \in Nat
  BY SaneIs
<1>1. ASSUME NEW i \in 1 .. Len(p.inputs)
      PROVE  /\ aged[i] \in InputType /\ aged[i].s = p.inputs[i].s
             /\ aged[i].eof = p.inputs[i].eof /\ aged[i].left = p.inputs[i].left
             /\ aged[i].at = p.inputs[i].at /\ aged[i].pos = p.inputs[i].pos
             /\ aged[i].rem = p.inputs[i].rem - (now - p.tcUpd)
  <2> DEFINE x == p.inputs[i]
             d == now - p.tcUpd
  <2>1. x \in InputType /\ d \in Int
    BY <1>0, SaneIs
  <2>2. aged[i] = [x EXCEPT !.rem = @ - d]
    BY <1>0
  <2> HIDE DEF x, d, aged
  <2>3. aged[i] \in InputType /\ aged[i].rem = x.rem - d
    <3>1. aged[i] = [x EXCEPT !.rem = x.rem - d]
      BY <2>1, <2>2 DEF InputType
    <3>2. x.rem \in Int /\ x.rem - d \in Int
      BY <2>1 DEF InputType
    <3> QED BY <2>1, <3>1, <3>2 DEF InputType
  <2>4. /\ aged[i].s = x.s /\ aged[i].eof = x.eof /\ aged[i].left = x.left
        /\ aged[i].at = x.at /\ aged[i].pos = x.pos
    BY <2>1, <2>2 DEF InputType
  <2> QED BY <2>3, <2>4 DEF x, d
<1>2. aged \in Seq(InputType) /\ Len(aged) = Len(p.inputs)
  <2>1. aged = [i \in 1 .. Len(p.inputs) |-> aged[i]]
    BY <1>0
  <2> HIDE DEF aged
  <2>2. aged \in [1 .. Len(p.inputs) -> InputType]
    BY <1>1, <2>1
  <2> QED BY <1>0, <2>2
<1> QED BY <1>1, <1>2

LEMMA TickIs ==
  ASSUME now \in Nat, NEW p, Sane(p), NEW k \in Sinks \cup {NULL}
  PROVE  Served(p, TrackTick(p, k)) /\ TimerSet(TrackTick(p, k))
<1> DEFINE aged == [i \in DOMAIN p.inputs |-> [p.inputs[i] EXCEPT !.rem = @ - (now - p.tcUpd)]]
           q    == [p EXCEPT !.tcUpd = now, !.inputs = aged]
           r    == DropEnded(q, k)
<1>0. /\ p \in Players /\ p.inputs \in Seq(InputType) /\ Len(p.inputs) \in Nat
      /\ DOMAIN p.inputs = 1 .. Len(p.inputs) /\ p.tcUpd \in Nat
  BY SaneIs
<1>1. ASSUME NEW i \in 1 .. Len(p.inputs)
      PROVE  /\ aged[i] \in InputType /\ aged[i].s = p.inputs[i].s
             /\ aged[i].eof = p.inputs[i].eof /\ aged[i].left = p.inputs[i].left
             /\ aged[i].at = p.inputs[i].at
             /\ aged[i].rem = p.inputs[i].rem - (now - p.tcUpd)
  BY AgeIs, SMTT(40)
<1>2. aged \in Seq(InputType) /\ Len(aged) = Len(p.inputs)
  BY AgeIs
<1>3. TrackTick(p, k) = ContinueTimer(r, k)
  BY DEF TrackTick
<1> HIDE DEF aged
<1>4. /\ q \in Players /\ q.inputs = aged /\ q.tcUpd = now /\ q.posUpd = p.posUpd
      /\ q.closed = p.closed /\ q.paused = p.paused /\ q.defer = p.defer /\ q.force = p.force
  BY <1>0, <1>2 DEF Players
<1> HIDE DEF q
<1>5. Sane(q)
  <2>1. \A i \in 1 .. Len(aged) : aged[i].at <= LengthOf(aged[i].s)
    BY <1>1, <1>2, SaneIs
  <2> QED BY <1>4, <2>1 DEF Sane
<1>6. Served(p, q)
  <2>1. \A i \in 1 .. Len(p.inputs) : Left(aged[i], now) >= Left(p.inputs[i], p.tcUpd)
    <3>1. \A i \in 1 .. Len(p.inputs) : p.inputs[i].rem \in Int
      BY LeftIs
    <3> QED BY <1>0, <1>1, <3>1, SMTT(20) DEF Left
  <2> QED BY <1>1, <1>2, <1>4, <1>5, <2>1, AgedIs
<1>7. Sane(r) /\ \E n \in 0 .. Len(q.inputs) : Dropped(q, r, n)
  BY <1>5, DropEndedIs
<1> HIDE DEF r
<1>8. r.tcUpd = now
  BY <1>4, <1>7 DEF Dropped
<1>9. Served(q, r)
  BY <1>5, <1>7, DroppedServed
<1>10. Served(r, ContinueTimer(r, k)) /\ TimerSet(ContinueTimer(r, k))
  BY <1>7, <1>8, ContinueIs
<1>11. Served(p, r)
  BY <1>6, <1>9, ServedTrans
<1> QED BY <1>3, <1>10, <1>11, ServedTrans

LEMMA PauseIs ==
  ASSUME now \in Nat, NEW p, Sane(p), NEW k \in Sinks \cup {NULL}
  PROVE  Served(p, PauseTimer(p, k)) /\ TimerSet(PauseTimer(p, k))
<1> DEFINE q == [p EXCEPT !.tcTimer = NULL]
<1>1. /\ q \in Players /\ q.inputs = p.inputs /\ q.tcUpd = p.tcUpd /\ q.posUpd = p.posUpd
      /\ q.closed = p.closed /\ q.paused = p.paused /\ q.defer = p.defer /\ q.force = p.force
  BY DEF Sane, Players
<1>2. PauseTimer(p, k) = TrackTick(q, k)
  BY DEF PauseTimer
<1> HIDE DEF q
<1>3. Sane(q)
  BY <1>1 DEF Sane
<1>4. \A i \in 1 .. Len(p.inputs) : Left(p.inputs[i], p.tcUpd) \in Int
  BY LeftIs
<1>5. Served(p, q)
  BY <1>1, <1>3, <1>4, AgedIs
<1>6. Served(q, TrackTick(q, k)) /\ TimerSet(TrackTick(q, k))
  BY <1>3, TickIs
<1> QED BY <1>2, <1>5, <1>6, ServedTrans

\* What the functions that serve the timers leave as it is.
LEMMA ServedKeeps ==
  ASSUME now \in Nat, NEW p, Sane(p), NEW q, Served(p, q), NEW k, NEW streams, NEW calm
  PROVE  /\ Sound(p, k, streams, calm) => Sound(q, k, streams, calm)
         /\ AllEnded(p) => AllEnded(q)
         /\ Listed(p, k, streams) => Listed(q, k, streams)
<1> DEFINE P == p.inputs  Q == q.inputs
<1>1. PICK n \in 0 .. Len(P) :
        /\ Len(Q) = Len(P) - n
        /\ \A i \in 1 .. n : P[i].eof
        /\ q.closed = p.closed \cup {P[i].s : i \in 1 .. n}
        /\ \A i \in 1 .. Len(Q) : /\ Q[i].s = P[i + n].s /\ Q[i].eof = P[i + n].eof
                                  /\ Q[i].left = P[i + n].left
                                  /\ Left(Q[i], q.tcUpd) >= Left(P[i + n], p.tcUpd)
  BY DEF Served
<1>2. q.paused = p.paused /\ q.defer = p.defer /\ q.force = p.force /\ Sane(q)
  BY DEF Served
<1>3. Len(P) \in Nat /\ Len(Q) \in Nat
  BY <1>2, SaneIs
<1>4. \A i \in 1 .. Len(Q) :
        /\ Q[i].rem - (now - q.tcUpd) = Left(Q[i], q.tcUpd) /\ Left(Q[i], q.tcUpd) \in Int
        /\ Q[i].left \in Nat
  BY <1>2, LeftIs, SaneIs, ElementIs
<1>5. \A i \in 1 .. Len(P) :
        /\ P[i].rem - (now - p.tcUpd) = Left(P[i], p.tcUpd) /\ Left(P[i], p.tcUpd) \in Int
        /\ P[i].left \in Nat /\ P[i].eof \in BOOLEAN
  BY LeftIs, SaneIs, ElementIs
<1> HIDE DEF P, Q
<1>6. \A i \in 1 .. Len(Q) : i + n \in 1 .. Len(P)
  BY <1>1, <1>3
<1>7. Owned(p, streams) => Owned(q, streams)
  <2> SUFFICES ASSUME Owned(p, streams) PROVE Owned(q, streams)
    OBVIOUS
  <2>1. /\ \A i, j \in 1 .. Len(P) : P[i].s = P[j].s => i = j
        /\ \A i \in 1 .. Len(P) : P[i].s \in streams \ p.closed
        /\ \A s \in streams \ p.closed : \E i \in 1 .. Len(P) : P[i].s = s
        /\ p.closed \subseteq streams
    BY DEF Owned, P
  <2>2. \A i, j \in 1 .. Len(Q) : Q[i].s = Q[j].s => i = j
    <3> SUFFICES ASSUME NEW i \in 1 .. Len(Q), NEW j \in 1 .. Len(Q), Q[i].s = Q[j].s
                 PROVE  i = j
      OBVIOUS
    <3>1. P[i + n].s = P[j + n].s
      BY <1>1
    <3>2. i + n = j + n
      BY <1>6, <2>1, <3>1
    <3> QED BY <1>1, <1>3, <3>2
  <2>3. ASSUME NEW i \in 1 .. Len(Q) PROVE Q[i].s \in streams \ q.closed
    <3>1. Q[i].s = P[i + n].s /\ i + n \in 1 .. Len(P)
      BY <1>1, <1>6
    <3>2. ASSUME NEW j \in 1 .. n PROVE P[j].s # P[i + n].s
      <4>1. j \in 1 .. Len(P) /\ j # i + n
        BY <1>1, <1>3
      <4> QED BY <2>1, <3>1, <4>1
    <3> QED BY <1>1, <2>1, <3>1, <3>2
  <2>4. ASSUME NEW s \in streams \ q.closed PROVE \E i \in 1 .. Len(Q) : Q[i].s = s
    <3>1. PICK i \in 1 .. Len(P) : P[i].s = s
      BY <1>1, <2>1
    <3>2. i \notin 1 .. n
      BY <1>1, <3>1
    <3>3. i - n \in 1 .. Len(Q) /\ (i - n) + n = i
      BY <1>1, <1>3, <3>2
    <3>4. Q[i - n].s = P[(i - n) + n].s
      BY <1>1, <3>3
    <3> QED BY <3>1, <3>3, <3>4
  <2>5. q.closed \subseteq streams
    <3>1. \A i \in 1 .. n : P[i].s \in streams
      BY <1>1, <1>3, <2>1
    <3> QED BY <1>1, <2>1, <3>1
  <2> QED BY <2>2, <2>3, <2>4, <2>5 DEF Owned, Q
<1>8. Early(p) => Early(q)
  <2> SUFFICES ASSUME Early(p), NEW i \in 1 .. Len(Q), Q[i].left > 0
               PROVE  Left(Q[i], q.tcUpd) >= Q[i].left
    BY <1>4 DEF Early, Q
  <2>1. i + n \in 1 .. Len(P) /\ P[i + n].left = Q[i].left
    BY <1>1, <1>6
  <2>2. Left(P[i + n], p.tcUpd) >= P[i + n].left
    BY <1>5, <2>1 DEF Early, P
  <2>3. Left(Q[i], q.tcUpd) >= Left(P[i + n], p.tcUpd)
    BY <1>1
  <2>4. Left(Q[i], q.tcUpd) \in Int /\ Left(P[i + n], p.tcUpd) \in Int /\ Q[i].left \in Nat
    BY <1>4, <1>5, <2>1
  <2> QED BY <2>1, <2>2, <2>3, <2>4
<1>9. Silent(p) => Silent(q)
  BY <1>1, <1>6 DEF Silent, P, Q
<1>10. AllEnded(p) => AllEnded(q)
  BY <1>1, <1>6 DEF AllEnded, P, Q
<1>11. LastOpen(p) => /\ LastOpen(q)
                      /\ Len(P) > 0 => Len(Q) > 0 /\ Q[Len(Q)].s = P[Len(P)].s
  <2> SUFFICES ASSUME \A i \in 1 .. Len(P) : P[i].eof <=> i < Len(P)
               PROVE  /\ \A i \in 1 .. Len(Q) : Q[i].eof <=> i < Len(Q)
                      /\ Len(P) > 0 => Len(Q) > 0 /\ Q[Len(Q)].s = P[Len(P)].s
    BY DEF LastOpen, P, Q
  <2>1. ASSUME NEW i \in 1 .. Len(Q) PROVE Q[i].eof <=> i < Len(Q)
    <3>1. Q[i].eof <=> P[i + n].eof
      BY <1>1
    <3>2. P[i + n].eof <=> i + n < Len(P)
      BY <1>6
    <3> QED BY <1>1, <1>3, <3>1, <3>2
  <2>2. ASSUME Len(P) > 0 PROVE Len(Q) > 0 /\ Q[Len(Q)].s = P[Len(P)].s
    <3>1. ~P[Len(P)].eof
      BY <1>3, <2>2
    <3>2. n # Len(P)
      BY <1>1, <1>3, <2>2, <3>1
    <3>3. Len(Q) > 0 /\ Len(Q) + n = Len(P)
      BY <1>1, <1>3, <3>2
    <3>4. Q[Len(Q)].s = P[Len(Q) + n].s
      BY <1>1, <1>3, <3>3
    <3> QED BY <3>3, <3>4
  <2> QED BY <2>1, <2>2
<1>12. Sound(p, k, streams, calm) => Sound(q, k, streams, calm)
  BY <1>2, <1>7, <1>8, <1>9 DEF Sound
<1>13. Listed(p, k, streams) => Listed(q, k, streams)
  BY <1>2, <1>3, <1>11 DEF Listed, Formatted, P, Q
<1> QED BY <1>10, <1>12, <1>13

-----------------------------------------------------------------------------
(* The position.                                                           *)

Before(p, i) == IF i > 1 THEN Positive(p.inputs[i - 1].rem) ELSE 0

\* How much the sink holds at most: of the input that is decoded all that was
\* read, and what is left of the one before.
Room(p) ==
  LET n == Len(p.inputs)
  IN IF n = 0 THEN 0
     ELSE IF p.inputs[n].eof THEN p.inputs[n].left
     ELSE p.inputs[n].at + (IF n > 1 THEN p.inputs[n - 1].left ELSE 0)

\* What is believed to be left of an input is no more than what was read of
\* it, after the one before has been heard to its end.
Ranged(p, i) ==
  LET x == p.inputs[i]
  IN /\ x.s # NULL /\ x.pos <= x.at
     /\ i < Len(p.inputs) => x.eof
     /\ x.eof => x.rem <= x.at + Before(p, i)

Fitting(p, k) ==
  /\ ~p.paused /\ Early(p)
  /\ \A i \in 1 .. Len(p.inputs) : Ranged(p, i)
  /\ k # NULL => k.buf <= Room(p)

\* What the sink has yet to play of the first input; and what player.c
\* believes it has.
Unheard(x, k) == IF x.eof THEN x.left ELSE Latency(k)
Believed(p, k) ==
  LET x == p.inputs[1] IN IF x.eof THEN Positive(Left(x, p.tcUpd)) ELSE Latency(k)

\* The position that is shown is not ahead; nor is the one that the next tick
\* of the position timer shows.
Behind(p, k) ==
  k # NULL /\ Len(p.inputs) > 0 =>
    p.posSec * Second <= p.inputs[1].at - Unheard(p.inputs[1], k)
Advanced(p, k) ==
  k # NULL /\ Len(p.inputs) > 0 =>
    p.posMs + (now - p.posUpd) <= p.inputs[1].at - Believed(p, k)

\* What is shown is what was told; when the position timer is due, it is past.
Timed(p) ==
  /\ p.toldPos \in {NULL, p.posSec}
  /\ p.posTimer # NULL => p.posMs + (p.posTimer - p.posUpd) >= p.posSec * Second

Rises(p, q) == p.toldPos # NULL => q.toldPos \in Nat /\ q.toldPos >= p.toldPos

LEMMA ShowsIs ==
  ASSUME NEW p, Sane(p), NEW q, Shows(p, q)
  PROVE  Rises(p, q) /\ (Timed(p) => Timed(q))
<1>1. p.toldPos \in Nat \cup {NULL}
  BY DEF Sane, Players
<1> QED BY <1>1 DEF Shows, Rises, Timed

\* The list and the time of its update decide what fits.
LEMMA SameFits ==
  ASSUME NEW p, NEW q, q.inputs = p.inputs, q.tcUpd = p.tcUpd, q.paused = p.paused, NEW k
  PROVE  /\ Fitting(p, k) => Fitting(q, k)
         /\ Shows(p, q) => /\ Behind(p, k) => Behind(q, k)
                           /\ Advanced(p, k) => Advanced(q, k)
BY DEF Fitting, Early, Ranged, Before, Room, Shows, Behind, Advanced, Believed

\* The first input, and what it is believed to be short of.
LEMMA FirstIs ==
  ASSUME now \in Nat, NEW p, Sane(p), NEW k \in Sinks, k # NULL, Fitting(p, k), Len(p.inputs) > 0
  PROVE  LET x == p.inputs[1]
         IN /\ x \in InputType /\ x.at \in Nat /\ x.pos \in Nat /\ x.pos <= x.at
            /\ x.s # NULL /\ Believed(p, k) \in Nat /\ Unheard(x, k) \in Nat
            /\ Unheard(x, k) <= Believed(p, k) /\ Believed(p, k) <= x.at
<1> DEFINE x == p.inputs[1]
<1>1. /\ p.inputs \in Seq(InputType) /\ Len(p.inputs) \in Nat /\ 1 \in 1 .. Len(p.inputs)
      /\ p.tcUpd \in Nat /\ p.tcUpd <= now
  BY SaneIs
<1>2. /\ x \in InputType /\ x.eof \in BOOLEAN /\ x.rem \in Int /\ x.pos \in Nat /\ x.at \in Nat
      /\ x.left \in Nat
  BY <1>1, ElementIs
<1>3. Ranged(p, 1)
  BY <1>1 DEF Fitting
<1>4. Before(p, 1) = 0
  BY DEF Before
<1>5. /\ x.pos <= x.at /\ x.s # NULL /\ (1 < Len(p.inputs) => x.eof)
      /\ x.eof => x.rem <= x.at + 0
  BY <1>3, <1>4 DEF Ranged
<1>6. k.buf \in Nat /\ Latency(k) = k.buf /\ k.buf <= Room(p)
  BY DEF Sinks, Latency, Fitting
<1>7. CASE x.eof
  <2> DEFINE l == Left(x, p.tcUpd)
  <2>1. l = x.rem - (now - p.tcUpd) /\ l \in Int
    BY <1>1, <1>2 DEF Left
  <2>2. l <= x.at
    BY <1>1, <1>2, <1>5, <1>7, <2>1
  <2>3. x.left > 0 => l >= x.left
    BY <1>1, <2>1 DEF Fitting, Early
  <2>4. Believed(p, k) = Positive(l) /\ Unheard(x, k) = x.left
    BY <1>7 DEF Believed, Unheard
  <2> HIDE DEF l
  <2>5. Positive(l) \in Nat /\ x.left <= Positive(l) /\ Positive(l) <= x.at
    BY <1>2, <2>1, <2>2, <2>3 DEF Positive
  <2> QED BY <1>2, <1>5, <2>4, <2>5
<1>8. CASE ~x.eof
  <2>1. Len(p.inputs) = 1
    <3> DEFINE n == Len(p.inputs)
    <3>1. n \in Nat /\ n > 0 /\ ~(1 < n)
      BY <1>1, <1>5, <1>8, Zenon
    <3> HIDE DEF n
    <3>2. n = 1
      BY <3>1
    <3> QED BY <3>2 DEF n
  <2>2. Room(p) = x.at
    BY <1>2, <1>8, <2>1 DEF Room
  <2>3. Believed(p, k) = k.buf /\ Unheard(x, k) = k.buf
    BY <1>6, <1>8 DEF Believed, Unheard
  <2> QED BY <1>2, <1>5, <1>6, <2>2, <2>3
<1> QED BY <1>7, <1>8

LEMMA TimingShows ==
  ASSUME now \in Nat, NEW p, Sane(p), Timed(p), NEW k \in Sinks \cup {NULL}, NEW seeked \in BOOLEAN
  PROVE  LET q == TimingUpdate(p, k, seeked)
         IN /\ Timed(q)
            /\ Len(p.inputs) > 0 /\ ~seeked => Rises(p, q)
            /\ Len(p.inputs) = 0 => q.toldPos = 0 /\ q.posTimer = NULL
            /\ Fitting(p, k) => Fitting(q, k)
            /\ Fitting(p, k) /\ (seeked \/ Behind(p, k)) => Behind(q, k) /\ Advanced(q, k)
<1> DEFINE q == TimingUpdate(p, k, seeked)
<1>0. /\ p \in Players /\ p.inputs \in Seq(InputType) /\ Len(p.inputs) \in Nat
      /\ p.toldPos \in Nat \cup {NULL} /\ p.posSec \in Nat /\ p.posMs \in Nat /\ p.posUpd \in Nat
  BY SaneIs DEF Players
<1>1. p.inputs = <<>> <=> Len(p.inputs) = 0
  BY <1>0
<1>2. Fitting(p, k) => Fitting(q, k)
  <2>1. Alike(p, q)
    BY TimingIs
  <2> HIDE DEF q
  <2> QED BY <2>1, SameFits DEF Alike
<1>3. CASE p.inputs = <<>>
  <2>1. q = [p EXCEPT !.posMs = 0, !.posSec = 0, !.posTimer = NULL, !.toldPos = 0]
    BY <1>3 DEF TimingUpdate
  <2> HIDE DEF q
  <2>2. /\ q.posMs = 0 /\ q.posSec = 0 /\ q.posTimer = NULL /\ q.toldPos = 0
        /\ q.inputs = p.inputs
    BY <1>0, <2>1 DEF Players
  <2>3. Timed(q)
    BY <2>2 DEF Timed
  <2>4. Behind(q, k) /\ Advanced(q, k)
    BY <1>0, <1>1, <1>3, <2>2 DEF Behind, Advanced
  <2> QED BY <1>1, <1>2, <1>3, <2>2, <2>3, <2>4 DEF q
<1>4. CASE p.inputs # <<>> /\ (k = NULL \/ (p.paused /\ ~seeked))
  <2>1. q = [p EXCEPT !.posTimer = NULL, !.toldPos = p.posSec]
    BY <1>4 DEF TimingUpdate
  <2> HIDE DEF q
  <2>2. q.posTimer = NULL /\ q.toldPos = p.posSec /\ q.posSec = p.posSec
    BY <1>0, <2>1 DEF Players
  <2>3. Timed(q) /\ Rises(p, q)
    BY <1>0, <2>2 DEF Timed, Rises
  <2>4. Fitting(p, k) => k = NULL
    BY <1>4 DEF Fitting
  <2> QED BY <1>1, <1>2, <1>4, <2>3, <2>4 DEF q, Behind, Advanced
<1>5. CASE p.inputs # <<>> /\ ~(k = NULL \/ (p.paused /\ ~seeked)) /\ Head(p.inputs).s = NULL
  <2>1. q = [p EXCEPT !.crashed = TRUE]
    BY <1>5 DEF TimingUpdate
  <2> HIDE DEF q
  <2>2. Shows(p, q)
    BY <1>0, <2>1 DEF Players, Shows
  <2>3. Timed(q) /\ Rises(p, q)
    BY <2>2, ShowsIs
  <2>4. ~Fitting(p, k)
    <3>1. Head(p.inputs) = p.inputs[1] /\ 1 \in 1 .. Len(p.inputs)
      BY <1>0, <1>5
    <3> QED BY <1>5, <3>1 DEF Fitting, Ranged
  <2> QED BY <1>1, <1>5, <2>3, <2>4 DEF q
<1>6. CASE p.inputs # <<>> /\ ~(k = NULL \/ (p.paused /\ ~seeked)) /\ Head(p.inputs).s # NULL
  <2> DEFINE first   == Head(p.inputs)
             latency == IF first.eof THEN Positive(first.rem - (now - p.tcUpd)) ELSE Latency(k)
             ms      == Positive(first.pos - latency)
             newSec  == ms \div Second
             tell    == Tell(p, newSec, seeked)
             sec     == IF tell THEN newSec ELSE p.posSec
  <2>1. q = [p EXCEPT !.posUpd = now, !.posMs = ms, !.posSec = sec,
                      !.toldPos = IF tell THEN sec ELSE @,
                      !.posTimer = now + (sec + 1) * Second - ms]
    BY <1>6 DEF TimingUpdate
  <2>2. first = p.inputs[1] /\ first \in InputType /\ 1 \in 1 .. Len(p.inputs) /\ Len(p.inputs) > 0
    BY <1>0, <1>6 DEF Players
  <2>3. latency = Believed(p, k)
    <3> DEFINE y == p.inputs[1]
    <3>1. Believed(p, k) = IF y.eof THEN Positive(y.rem - (now - p.tcUpd)) ELSE Latency(k)
      BY DEF Believed, Left
    <3>2. Head(p.inputs) = y
      BY <2>2, Zenon
    <3> HIDE DEF y
    <3>3. latency = IF y.eof THEN Positive(y.rem - (now - p.tcUpd)) ELSE Latency(k)
      BY ONLY <3>2
    <3> HIDE DEF latency
    <3> QED BY ONLY <3>1, <3>3, Zenon
  <2>4. first.pos \in Nat /\ first.rem - (now - p.tcUpd) \in Int /\ p.tcUpd \in Nat
    <3> HIDE DEF first
    <3>1. first.pos \in Nat /\ first.rem \in Int
      BY ONLY <2>2 DEF InputType
    <3>2. p.tcUpd \in Nat
      BY SaneIs
    <3> QED BY ONLY now \in Nat, <3>1, <3>2
  <2>5. latency \in Nat
    <3>1. Latency(k) \in Nat
      BY DEF Latency, Sinks
    <3> QED BY <2>4, <3>1, PositiveIs
  <2>6. ms \in Nat
    <3>1. first.pos - latency \in Int
      BY <2>4, <2>5
    <3> QED BY <3>1, PositiveIs
  <2>7. newSec \in Nat /\ newSec * Second <= ms
    BY <2>6, DivIs
  <2>8. /\ sec \in Nat /\ (tell => sec = newSec) /\ (~tell => sec = p.posSec)
        /\ seeked => sec = newSec
        /\ ~seeked => sec >= p.posSec
    BY <1>0, <2>7 DEF Tell
  <2> DEFINE told  == IF tell THEN sec ELSE p.toldPos
             timer == now + (sec + 1) * Second - ms
  <2>9. q = [p EXCEPT !.posUpd = now, !.posMs = ms, !.posSec = sec, !.toldPos = told,
                      !.posTimer = timer]
    BY <1>0, <2>1 DEF Players
  <2> HIDE DEF q, told, timer, ms, newSec, sec, tell, latency, first
  <2>10. /\ q.posUpd = now /\ q.posMs = ms /\ q.posSec = sec /\ q.toldPos = told
         /\ q.posTimer = timer /\ q.inputs = p.inputs /\ q.tcUpd = p.tcUpd
    BY <1>0, <2>9 DEF Players
  <2>11. Timed(q)
    <3>1. told \in {NULL, sec}
      BY <2>8 DEF told, Timed
    <3>2. ms + (timer - now) >= sec * Second
      <4>1. (sec + 1) * Second = sec * Second + Second /\ sec * Second \in Nat
        BY <2>8
      <4> QED BY <2>6, <4>1 DEF timer
    <3> QED BY <2>10, <3>1, <3>2 DEF Timed
  <2>12. ~seeked => Rises(p, q)
    BY <1>0, <2>8, <2>10 DEF Rises, told, Timed
  <2>13. ASSUME Fitting(p, k), seeked \/ Behind(p, k) PROVE Behind(q, k) /\ Advanced(q, k)
    <3>1. k \in Sinks /\ k # NULL
      BY <1>6
    <3>2. /\ first.at \in Nat /\ first.pos <= first.at
          /\ Unheard(first, k) \in Nat /\ Unheard(first, k) <= latency /\ latency <= first.at
      BY <2>2, <2>3, <2>13, <3>1, FirstIs
    <3>3. ms <= first.at - latency
      BY <2>4, <2>5, <3>2 DEF ms, Positive
    <3>4. q.posSec * Second <= first.at - Unheard(first, k)
      <4>1. CASE sec = newSec
        <5>1. newSec * Second \in Nat
          BY <2>7
        <5> QED BY <2>5, <2>6, <2>7, <2>10, <3>2, <3>3, <4>1
      <4>2. CASE sec # newSec
        <5>1. sec = p.posSec /\ Behind(p, k)
          BY <2>8, <2>13, <4>2
        <5> QED BY <2>2, <2>10, <3>1, <5>1 DEF Behind
      <4> QED BY <4>1, <4>2
    <3>5. Believed(q, k) = latency
      BY <2>3, <2>10 DEF Believed
    <3>6. q.posMs + (now - q.posUpd) <= first.at - Believed(q, k)
      BY <2>6, <2>10, <3>3, <3>5
    <3> QED BY <2>2, <2>10, <3>4, <3>6 DEF Behind, Advanced
  <2> QED BY <1>1, <1>2, <1>6, <2>11, <2>12, <2>13 DEF q
<1> QED BY <1>3, <1>4, <1>5, <1>6

\* Inputs that are over make no room, and what follows them loses nothing.
LEMMA DropFits ==
  ASSUME now \in Nat, NEW p, Sane(p), p.tcUpd = now, NEW q, Sane(q),
         NEW n \in 1 .. Len(p.inputs), Dropped(p, q, n), NEW k \in Sinks \cup {NULL}, Fitting(p, k)
  PROVE  Fitting(q, k)
<1> DEFINE P == p.inputs  Q == q.inputs
<1>1. /\ Len(P) \in Nat /\ Len(Q) \in Nat /\ Len(Q) = Len(P) - n
      /\ \A i \in 1 .. Len(Q) : Q[i] = P[i + n] /\ i + n \in 1 .. Len(P)
      /\ \A i \in 1 .. n : P[i].eof /\ P[i].rem <= 0
      /\ q.paused = p.paused /\ q.tcUpd = now
  BY SaneIs DEF Dropped, Over
<1>0. n \in Nat /\ n >= 1
  <2>1. Len(p.inputs) \in Nat
    BY SaneIs
  <2> QED BY <2>1
<1>2. \A i \in 1 .. Len(P) : /\ P[i].eof \in BOOLEAN /\ P[i].rem \in Int /\ P[i].at \in Nat
                             /\ P[i].left \in Nat /\ P[i].pos \in Nat
  BY SaneIs, ElementIs
<1>3. /\ ~p.paused
      /\ \A i \in 1 .. Len(P) : P[i].left > 0 => P[i].rem >= P[i].left
      /\ \A i \in 1 .. Len(P) :
           /\ P[i].s # NULL /\ P[i].pos <= P[i].at /\ (i < Len(P) => P[i].eof)
           /\ P[i].eof => P[i].rem <= P[i].at + Before(p, i)
  <2>1. \A i \in 1 .. Len(P) : P[i].left > 0 => P[i].rem - (now - now) >= P[i].left
    BY DEF Fitting, Early
  <2>2. \A i \in 1 .. Len(P) : P[i].rem - (now - now) = P[i].rem
    BY <1>2
  <2> QED BY <2>1, <2>2 DEF Fitting, Ranged
<1> HIDE DEF P, Q
<1>4. \A i \in 1 .. n : i \in 1 .. Len(P) /\ P[i].left = 0
  <2> SUFFICES ASSUME NEW i \in 1 .. n PROVE i \in 1 .. Len(P) /\ P[i].left = 0
    OBVIOUS
  <2>1. i \in 1 .. Len(P)
    BY <1>1 DEF P
  <2> QED BY <1>1, <1>2, <1>3, <2>1
<1>5. Early(q)
  <2>1. \A i \in 1 .. Len(Q) : Q[i].left > 0 => Q[i].rem - (now - now) >= Q[i].left
    BY <1>1, <1>2, <1>3
  <2> QED BY <1>1, <2>1 DEF Early, Q
<1>6. ASSUME NEW i \in 1 .. Len(Q) PROVE Ranged(q, i)
  <2>1. Q[i] = P[i + n] /\ i + n \in 1 .. Len(P) /\ (i < Len(Q) => i + n < Len(P))
    BY <1>1
  <2>2. Before(q, i) = Before(p, i + n)
    <3>1. CASE i = 1
      <4>1. Before(q, i) = 0 /\ Before(p, i + n) = Positive(P[n].rem)
        BY <1>1, <3>1 DEF Before, P
      <4>2. n \in 1 .. Len(P) /\ n \in 1 .. n
        BY <1>1 DEF P
      <4>3. P[n].rem \in Int /\ P[n].rem <= 0
        BY <1>1, <1>2, <4>2
      <4> QED BY <4>1, <4>3 DEF Positive
    <3>2. CASE i # 1
      <4>1. i - 1 \in 1 .. Len(Q) /\ i > 1 /\ i + n > 1 /\ (i - 1) + n = (i + n) - 1
        BY <1>1, <3>2
      <4>2. Q[i - 1] = P[(i + n) - 1]
        BY <1>1, <4>1
      <4> QED BY <4>1, <4>2 DEF Before, P, Q
    <3> QED BY <3>1, <3>2
  <2>3. /\ Q[i].s # NULL /\ Q[i].pos <= Q[i].at /\ (i < Len(Q) => Q[i].eof)
        /\ Q[i].eof => Q[i].rem <= Q[i].at + Before(q, i)
    BY <1>3, <2>1, <2>2
  <2> QED BY <2>3 DEF Ranged, Q
<1>7. Room(q) = Room(p)
  <2>1. CASE Len(Q) = 0
    <3>1. Len(P) = n /\ Len(P) \in 1 .. n /\ Len(P) # 0
      BY <1>1, <2>1
    <3>2. P[Len(P)].eof /\ P[Len(P)].left = 0
      BY <1>1, <1>4, <3>1
    <3> QED BY <2>1, <3>1, <3>2 DEF Room, P, Q
  <2>2. CASE Len(Q) # 0
    <3>1. Len(P) # 0 /\ Len(Q) \in 1 .. Len(Q) /\ Len(Q) + n = Len(P) /\ Len(P) > 1
      BY <1>1, <2>2
    <3>2. Q[Len(Q)] = P[Len(P)]
      BY <1>1, <3>1
    <3>3. (IF Len(Q) > 1 THEN Q[Len(Q) - 1].left ELSE 0) = P[Len(P) - 1].left
      <4>1. CASE Len(Q) = 1
        <5>1. Len(P) - 1 = n /\ n \in 1 .. n
          BY <1>0, <3>1, <4>1
        <5>2. P[n].left = 0 /\ ~(Len(Q) > 1)
          BY <1>4, <4>1, <5>1
        <5> QED BY <5>1, <5>2
      <4>2. CASE Len(Q) # 1
        <5>1. Len(Q) > 1 /\ Len(Q) - 1 \in 1 .. Len(Q) /\ (Len(Q) - 1) + n = Len(P) - 1
          BY <1>1, <2>2, <4>2
        <5>2. Q[Len(Q) - 1] = P[(Len(Q) - 1) + n]
          BY <1>1, <5>1
        <5> QED BY <5>1, <5>2
      <4> QED BY <4>1, <4>2
    <3> QED BY <2>2, <3>1, <3>2, <3>3 DEF Room, P, Q
  <2> QED BY <2>1, <2>2
<1> QED BY <1>1, <1>3, <1>5, <1>6, <1>7 DEF Fitting, Q

\* What the functions that serve the track-change timer do to the position:
\* nothing, unless the first input is over.
Follows(p, q, k) ==
  /\ Len(q.inputs) <= Len(p.inputs)
  /\ Len(q.inputs) = Len(p.inputs) => Shows(p, q)
  /\ Timed(p) =>
       /\ Timed(q)
       /\ Fitting(p, k) => Fitting(q, k) /\ (Behind(p, k) => Behind(q, k))

\* With Steady the position timer may go on, too.
Steady(p, q, k) ==
  /\ Follows(p, q, k)
  /\ Timed(p) /\ Fitting(p, k) /\ Behind(p, k) /\ Advanced(p, k) => Advanced(q, k)

LEMMA FollowsTrans ==
  ASSUME NEW p, Sane(p), NEW q, Sane(q), NEW r, Sane(r), NEW k,
         Follows(p, q, k), Follows(q, r, k)
  PROVE  Follows(p, r, k) /\ (Steady(p, q, k) /\ Steady(q, r, k) => Steady(p, r, k))
<1>1. Len(p.inputs) \in Nat /\ Len(q.inputs) \in Nat /\ Len(r.inputs) \in Nat
  BY SaneIs
<1>2. /\ Len(q.inputs) <= Len(p.inputs) /\ (Len(q.inputs) = Len(p.inputs) => Shows(p, q))
      /\ Len(r.inputs) <= Len(q.inputs) /\ (Len(r.inputs) = Len(q.inputs) => Shows(q, r))
  BY DEF Follows
<1>3. Len(r.inputs) <= Len(p.inputs)
  BY <1>1, <1>2
<1>4. Len(r.inputs) = Len(p.inputs) => Shows(p, r)
  <2>1. Len(r.inputs) = Len(p.inputs) =>
          Len(r.inputs) = Len(q.inputs) /\ Len(q.inputs) = Len(p.inputs)
    BY <1>1, <1>2
  <2> QED BY <1>2, <2>1 DEF Shows
<1> QED BY <1>3, <1>4 DEF Follows, Steady

\* As much less is left of each input as passes between the updates, or none.
LEMMA AgedFollows ==
  ASSUME now \in Nat, NEW p, Sane(p), NEW q, Sane(q), NEW d \in Nat,
         q.paused = p.paused, Shows(p, q), Len(q.inputs) = Len(p.inputs),
         \A i \in 1 .. Len(p.inputs) :
           /\ q.inputs[i].s = p.inputs[i].s /\ q.inputs[i].eof = p.inputs[i].eof
           /\ q.inputs[i].left = p.inputs[i].left /\ q.inputs[i].pos = p.inputs[i].pos
           /\ q.inputs[i].at = p.inputs[i].at /\ q.inputs[i].rem = p.inputs[i].rem - d
           /\ Left(q.inputs[i], q.tcUpd) >= Left(p.inputs[i], p.tcUpd),
         NEW k \in Sinks \cup {NULL}
  PROVE  /\ Follows(p, q, k)
         /\ (\A i \in 1 .. Len(p.inputs) : Left(q.inputs[i], q.tcUpd) = Left(p.inputs[i], p.tcUpd))
              => Steady(p, q, k)
<1> DEFINE P == p.inputs  Q == q.inputs
<1>1. /\ Len(P) \in Nat /\ Len(Q) = Len(P)
      /\ \A i \in 1 .. Len(P) :
           /\ P[i].eof \in BOOLEAN /\ P[i].rem \in Int /\ P[i].at \in Nat
           /\ P[i].left \in Nat /\ P[i].pos \in Nat
           /\ Q[i].s = P[i].s /\ Q[i].eof = P[i].eof
           /\ Q[i].left = P[i].left /\ Q[i].pos = P[i].pos
           /\ Q[i].at = P[i].at /\ Q[i].rem = P[i].rem - d
  BY SaneIs, ElementIs
<1>2. \A i \in 1 .. Len(P) :
        /\ Left(P[i], p.tcUpd) \in Int /\ Left(Q[i], q.tcUpd) \in Int
        /\ Left(P[i], p.tcUpd) = P[i].rem - (now - p.tcUpd)
        /\ Left(Q[i], q.tcUpd) = Q[i].rem - (now - q.tcUpd)
        /\ Left(Q[i], q.tcUpd) >= Left(P[i], p.tcUpd)
  BY <1>1, LeftIs
<1>3. Len(q.inputs) <= Len(p.inputs)
  BY <1>1
<1>4. Timed(p) => Timed(q)
  BY DEF Shows, Timed
<1> HIDE DEF P, Q
<1>5. Fitting(p, k) => Fitting(q, k)
  <2> SUFFICES ASSUME Fitting(p, k) PROVE Fitting(q, k)
    OBVIOUS
  <2>1. /\ ~p.paused
        /\ \A i \in 1 .. Len(P) : P[i].left > 0 => P[i].rem - (now - p.tcUpd) >= P[i].left
        /\ \A i \in 1 .. Len(P) :
             /\ P[i].s # NULL /\ P[i].pos <= P[i].at /\ (i < Len(P) => P[i].eof)
             /\ P[i].eof => P[i].rem <= P[i].at + Before(p, i)
    BY DEF Fitting, Early, Ranged, P
  <2>2. Early(q)
    <3>1. \A i \in 1 .. Len(Q) : Q[i].left > 0 => Q[i].rem - (now - q.tcUpd) >= Q[i].left
      BY <1>1, <1>2, <2>1
    <3> QED BY <3>1 DEF Early, Q
  <2>3. ASSUME NEW i \in 1 .. Len(Q) PROVE Ranged(q, i)
    <3>1. Q[i].eof => Q[i].rem <= Q[i].at + Before(q, i)
      <4> SUFFICES ASSUME Q[i].eof PROVE Q[i].rem <= Q[i].at + Before(q, i)
        OBVIOUS
      <4>1. i \in 1 .. Len(P) /\ P[i].rem <= P[i].at + Before(p, i)
        BY <1>1, <2>1
      <4>2. CASE i > 1
        <5>1. i - 1 \in 1 .. Len(P)
          BY <1>1, <4>2
        <5>2. Before(p, i) = Positive(P[i - 1].rem) /\ Before(q, i) = Positive(P[i - 1].rem - d)
          BY <1>1, <4>2, <5>1 DEF Before, P, Q
        <5> DEFINE a == P[i].rem  b == P[i].at  c == P[i - 1].rem
        <5>3. /\ a \in Int /\ b \in Int /\ c \in Int /\ a <= b + Positive(c)
              /\ Q[i].rem = a - d /\ Q[i].at = b /\ Before(q, i) = Positive(c - d)
          BY <1>1, <4>1, <5>1, <5>2, SMTT(40)
        <5> HIDE DEF a, b, c
        <5>4. a - d <= b + Positive(c - d)
          BY <5>3 DEF Positive
        <5> QED BY <5>3, <5>4
      <4>3. CASE ~(i > 1)
        <5>1. Before(p, i) = 0 /\ Before(q, i) = 0
          BY <4>3 DEF Before
        <5> QED BY <1>1, <4>1, <5>1
      <4> QED BY <4>2, <4>3
    <3> QED BY <1>1, <2>1, <3>1 DEF Ranged, Q
  <2>4. Room(q) = Room(p)
    <3>1. CASE Len(P) = 0
      BY <1>1, <3>1 DEF Room, P, Q
    <3>2. CASE Len(P) # 0
      <4>1. Len(P) \in 1 .. Len(P) /\ (Len(P) > 1 => Len(P) - 1 \in 1 .. Len(P))
        BY <1>1, <3>2
      <4> QED BY <1>1, <4>1 DEF Room, P, Q
    <3> QED BY <3>1, <3>2
  <2> QED BY <2>1, <2>2, <2>3, <2>4 DEF Fitting, Q
<1>6. Behind(p, k) => Behind(q, k)
  <2>1. Len(P) > 0 => 1 \in 1 .. Len(P)
    BY <1>1
  <2> QED BY <1>1, <2>1 DEF Behind, Unheard, Shows, P, Q
<1>7. ASSUME \A i \in 1 .. Len(p.inputs) : Left(q.inputs[i], q.tcUpd) = Left(p.inputs[i], p.tcUpd),
             Advanced(p, k)
      PROVE  Advanced(q, k)
  <2>1. Len(P) > 0 => 1 \in 1 .. Len(P)
    BY <1>1
  <2> QED BY <1>1, <1>7, <2>1 DEF Advanced, Believed, Shows, P, Q
<1> QED BY <1>3, <1>4, <1>5, <1>6, <1>7 DEF Follows, Steady

\* The timer, the list and the position stay.
LEMMA SameSteady ==
  ASSUME now \in Nat, NEW p, Sane(p), NEW q, Sane(q), q.inputs = p.inputs, q.tcUpd = p.tcUpd,
         q.paused = p.paused, Shows(p, q), NEW k
  PROVE  Steady(p, q, k)
<1>1. Len(p.inputs) \in Nat /\ Len(q.inputs) = Len(p.inputs)
  BY SaneIs
<1> QED BY <1>1, SameFits, ShowsIs DEF Steady, Follows

\* Of a track change the position is told anew.
LEMMA DropFollows ==
  ASSUME now \in Nat, NEW p, Sane(p), p.tcUpd = now, NEW k \in Sinks \cup {NULL}
  PROVE  Sane(DropEnded(p, k)) /\ Steady(p, DropEnded(p, k), k)
<1> DEFINE r == DropEnded(p, k)
<1>0. Sane(r)
  BY DropEndedIs
<1>1. CASE r = p
  <2>1. Shows(p, p)
    BY DEF Shows
  <2>2. Steady(p, p, k)
    BY <2>1, SameSteady
  <2> QED BY <1>0, <1>1, <2>2
<1>2. CASE \E n \in 1 .. Len(p.inputs) : \E q :
             /\ Sane(q) /\ Dropped(p, q, n) /\ Shows(p, q)
             /\ r = TimingUpdate(q, k, TRUE)
  <2>0. PICK n \in 1 .. Len(p.inputs) : \E q :
          Sane(q) /\ Dropped(p, q, n) /\ Shows(p, q) /\ r = TimingUpdate(q, k, TRUE)
    BY <1>2
  <2>1. PICK q :
          Sane(q) /\ Dropped(p, q, n) /\ Shows(p, q) /\ r = TimingUpdate(q, k, TRUE)
    BY <2>0
  <2> HIDE DEF r
  <2> DEFINE u == TimingUpdate(q, k, TRUE)
  <2>2. Alike(q, u)
    BY <2>1, TimingIs
  <2>3. Timed(q) => /\ Timed(u)
                    /\ Fitting(q, k) => Fitting(u, k) /\ Behind(u, k) /\ Advanced(u, k)
    BY <2>1, TimingShows
  <2> HIDE DEF u
  <2>4. /\ Alike(q, r)
        /\ Timed(q) => /\ Timed(r)
                       /\ Fitting(q, k) => Fitting(r, k) /\ Behind(r, k) /\ Advanced(r, k)
    BY <2>1, <2>2, <2>3 DEF u
  <2>5. ASSUME Timed(p)
        PROVE  Timed(r) /\ (Fitting(p, k) => Fitting(r, k) /\ Behind(r, k) /\ Advanced(r, k))
    <3>1. Timed(q)
      BY <2>1, <2>5, ShowsIs
    <3>2. Fitting(p, k) => Fitting(q, k)
      BY <2>1, DropFits
    <3> QED BY <2>4, <3>1, <3>2
  <2>6. Len(r.inputs) <= Len(p.inputs) /\ Len(r.inputs) # Len(p.inputs)
    <3>1. Len(p.inputs) \in Nat /\ Len(r.inputs) = Len(q.inputs)
      BY <2>4, SaneIs DEF Alike
    <3>2. Len(q.inputs) = Len(p.inputs) - n
      BY <2>1 DEF Dropped
    <3> QED BY <3>1, <3>2
  <2>7. Steady(p, r, k)
    BY <2>5, <2>6 DEF Steady, Follows
  <2> QED BY <1>0, <2>7 DEF r
<1> QED BY <1>1, <1>2, DropIs

LEMMA ContinueFollows ==
  ASSUME now \in Nat, NEW p, Sane(p), p.tcUpd = now, NEW k \in Sinks \cup {NULL}
  PROVE  Steady(p, ContinueTimer(p, k), k)
<1> DEFINE q == DropEnded(p, k)
           r == ContinueTimer(p, k)
<1>0. Sane(r)
  BY ContinueIs DEF Served
<1>1. CASE p.paused
  <2>1. r = p
    BY <1>1 DEF ContinueTimer
  <2>2. Shows(p, p)
    BY DEF Shows
  <2> QED BY <2>1, <2>2, SameSteady
<1>2. CASE ~p.paused
  <2>1. Sane(q) /\ Steady(p, q, k)
    BY DropFollows
  <2>2. q \in Players
    BY <2>1 DEF Sane
  <2>3. r = q \/ r = [q EXCEPT !.tcTimer = now + q.inputs[1].rem]
    BY <1>2 DEF ContinueTimer
  <2> HIDE DEF q, r
  <2>4. r.inputs = q.inputs /\ r.tcUpd = q.tcUpd /\ r.paused = q.paused /\ Shows(q, r)
    BY <2>2, <2>3 DEF Players, Shows
  <2>5. Steady(q, r, k)
    BY <1>0, <2>1, <2>4, SameSteady
  <2>6. Follows(p, q, k) /\ Follows(q, r, k)
    BY <2>1, <2>5 DEF Steady
  <2> QED BY <1>0, <2>1, <2>5, <2>6, FollowsTrans DEF r
<1> QED BY <1>1, <1>2

LEMMA StartFollows ==
  ASSUME now \in Nat, NEW p, Sane(p), NEW k \in Sinks \cup {NULL}
  PROVE  Follows(p, StartTimer(p, k), k)
<1> DEFINE q == [p EXCEPT !.tcUpd = now]
<1>0. p \in Players
  BY DEF Sane
<1>1. /\ q \in Players /\ q.inputs = p.inputs /\ q.tcUpd = now /\ q.posUpd = p.posUpd
      /\ q.paused = p.paused /\ Shows(p, q)
  BY <1>0 DEF Players, Shows
<1>2. StartTimer(p, k) = ContinueTimer(q, k)
  BY DEF StartTimer
<1> HIDE DEF q
<1>3. Sane(q)
  BY <1>1 DEF Sane
<1>4. \A i \in 1 .. Len(p.inputs) :
        Left(p.inputs[i], now) >= Left(p.inputs[i], p.tcUpd) /\ p.inputs[i].rem = p.inputs[i].rem - 0
  <2>1. p.tcUpd \in Nat /\ p.tcUpd <= now
    BY SaneIs
  <2>2. \A i \in 1 .. Len(p.inputs) : p.inputs[i].rem \in Int
    BY LeftIs
  <2> QED BY <2>1, <2>2 DEF Left
<1>5. Follows(p, q, k)
  BY <1>1, <1>3, <1>4, AgedFollows
<1>6. Steady(q, ContinueTimer(q, k), k) /\ Sane(ContinueTimer(q, k))
  BY <1>1, <1>3, ContinueFollows, ContinueIs DEF Served
<1>7. Follows(q, ContinueTimer(q, k), k)
  BY <1>6 DEF Steady
<1> QED BY <1>2, <1>3, <1>5, <1>6, <1>7, FollowsTrans

LEMMA TickFollows ==
  ASSUME now \in Nat, NEW p, Sane(p), NEW k \in Sinks \cup {NULL}
  PROVE  Steady(p, TrackTick(p, k), k)
<1> DEFINE aged == [i \in DOMAIN p.inputs |-> [p.inputs[i] EXCEPT !.rem = @ - (now - p.tcUpd)]]
           q    == [p EXCEPT !.tcUpd = now, !.inputs = aged]
           r    == DropEnded(q, k)
<1>0. /\ p \in Players /\ p.inputs \in Seq(InputType) /\ Len(p.inputs) \in Nat
      /\ DOMAIN p.inputs = 1 .. Len(p.inputs) /\ p.tcUpd \in Nat /\ now - p.tcUpd \in Nat
  BY SaneIs
<1>1. /\ aged \in Seq(InputType) /\ Len(aged) = Len(p.inputs)
      /\ \A i \in 1 .. Len(p.inputs) :
           /\ aged[i] \in InputType /\ aged[i].s = p.inputs[i].s
           /\ aged[i].eof = p.inputs[i].eof /\ aged[i].left = p.inputs[i].left
           /\ aged[i].at = p.inputs[i].at /\ aged[i].pos = p.inputs[i].pos
           /\ aged[i].rem = p.inputs[i].rem - (now - p.tcUpd)
  BY <1>0, AgeIs
<1>2. TrackTick(p, k) = ContinueTimer(r, k)
  BY DEF TrackTick
<1> HIDE DEF aged
<1>3. /\ q \in Players /\ q.inputs = aged /\ q.tcUpd = now /\ q.posUpd = p.posUpd
      /\ q.paused = p.paused /\ Shows(p, q)
  BY <1>0, <1>1 DEF Players, Shows
<1> HIDE DEF q
<1>4. Sane(q)
  <2>1. \A i \in 1 .. Len(aged) : aged[i].at <= LengthOf(aged[i].s)
    BY <1>1, SaneIs
  <2> QED BY <1>3, <2>1 DEF Sane
<1>5. Steady(p, q, k)
  <2>1. \A i \in 1 .. Len(p.inputs) :
          /\ Left(aged[i], now) = Left(p.inputs[i], p.tcUpd)
          /\ Left(aged[i], now) >= Left(p.inputs[i], p.tcUpd)
    <3>1. \A i \in 1 .. Len(p.inputs) : p.inputs[i].rem \in Int
      BY LeftIs
    <3> QED BY <1>0, <1>1, <3>1, SMTT(20) DEF Left
  <2> QED BY <1>0, <1>1, <1>3, <1>4, <2>1, AgedFollows
<1>6. Sane(r) /\ Steady(q, r, k) /\ \E n \in 0 .. Len(q.inputs) : Dropped(q, r, n)
  BY <1>3, <1>4, DropFollows, DropEndedIs
<1> HIDE DEF r
<1>7. r.tcUpd = now
  BY <1>3, <1>6 DEF Dropped
<1>8. Steady(r, ContinueTimer(r, k), k) /\ Sane(ContinueTimer(r, k))
  BY <1>6, <1>7, ContinueFollows, ContinueIs DEF Served
<1>9. Steady(p, r, k)
  BY <1>4, <1>5, <1>6, FollowsTrans DEF Steady
<1> QED BY <1>2, <1>6, <1>8, <1>9, FollowsTrans DEF Steady

LEMMA PauseFollows ==
  ASSUME now \in Nat, NEW p, Sane(p), NEW k \in Sinks \cup {NULL}
  PROVE  Steady(p, PauseTimer(p, k), k)
<1> DEFINE q == [p EXCEPT !.tcTimer = NULL]
<1>1. /\ q \in Players /\ q.inputs = p.inputs /\ q.tcUpd = p.tcUpd /\ q.posUpd = p.posUpd
      /\ q.paused = p.paused /\ Shows(p, q)
  BY DEF Sane, Players, Shows
<1>2. PauseTimer(p, k) = TrackTick(q, k)
  BY DEF PauseTimer
<1> HIDE DEF q
<1>3. Sane(q)
  BY <1>1 DEF Sane
<1>4. Steady(p, q, k)
  BY <1>1, <1>3, SameSteady
<1>5. Steady(q, TrackTick(q, k), k) /\ Sane(TrackTick(q, k))
  BY <1>3, TickFollows, TickIs DEF Served
<1> QED BY <1>2, <1>3, <1>4, <1>5, FollowsTrans DEF Steady

\* A list that is shorter holds other streams.
LEMMA FewerDiffer ==
  ASSUME NEW p, Sane(p), NEW q, Served(p, q), NEW streams, Owned(q, streams),
         Len(q.inputs) # Len(p.inputs)
  PROVE  StreamsOf(p.inputs) # StreamsOf(q.inputs)
<1>1. PICK n \in 0 .. Len(p.inputs) :
        /\ Len(q.inputs) = Len(p.inputs) - n
        /\ q.closed = p.closed \cup {p.inputs[i].s : i \in 1 .. n}
  BY DEF Served
<1>2. Len(p.inputs) \in Nat /\ p.inputs \in Seq(InputType) /\ q.inputs \in Seq(InputType)
  BY SaneIs DEF Served
<1>3. n >= 1 /\ 1 \in 1 .. n /\ 1 \in 1 .. Len(p.inputs)
  BY <1>1, <1>2
<1>4. p.inputs[1].s \in StreamsOf(p.inputs)
  BY <1>2, <1>3 DEF StreamsOf
<1>5. p.inputs[1].s \in q.closed
  BY <1>1, <1>3
<1>6. p.inputs[1].s \notin StreamsOf(q.inputs)
  BY <1>2, <1>5 DEF StreamsOf, Owned
<1> QED BY <1>4, <1>6

-----------------------------------------------------------------------------
(* Requests, and what is loaded.                                           *)

\* The timers and the user's pause are left alone.
SameTimes(p, q) == q.paused = p.paused /\ q.tcUpd = p.tcUpd /\ q.tcTimer = p.tcTimer

LEMMA RequestIs ==
  ASSUME NEW p, Sane(p), NEW b \in BOOLEAN
  PROVE  LET q == RequestInput(p, b)
         IN /\ Sane(q) /\ SameTimes(p, q) /\ Shows(p, q)
            /\ q.inputs = p.inputs /\ q.closed = p.closed
            /\ q.defer = b /\ (p.force => q.force) /\ (b => q.force)
<1> DEFINE q == RequestInput(p, b)
           f == p.force \/ b
<1>1. p \in Players /\ q = [p EXCEPT !.defer = b, !.force = f]
  BY DEF Sane, Players, RequestInput
<1>2. f \in BOOLEAN
  BY <1>1 DEF Players
<1> HIDE DEF q, f
<1>3. /\ q \in Players /\ SameTimes(p, q) /\ q.inputs = p.inputs /\ q.closed = p.closed
      /\ q.posUpd = p.posUpd /\ q.defer = b /\ q.force = f /\ Shows(p, q)
  BY <1>1, <1>2 DEF Players, SameTimes, Shows
<1>4. Sane(q)
  BY <1>3 DEF Sane, SameTimes
<1> QED BY <1>3, <1>4 DEF q, f

\* The inputs are the same, but nothing is left of them.
Quieted(p, q) ==
  /\ Len(q.inputs) = Len(p.inputs)
  /\ \A i \in 1 .. Len(p.inputs) :
       /\ q.inputs[i].s = p.inputs[i].s /\ q.inputs[i].eof = p.inputs[i].eof
       /\ q.inputs[i].rem = p.inputs[i].rem /\ q.inputs[i].pos = p.inputs[i].pos
       /\ q.inputs[i].at = p.inputs[i].at /\ q.inputs[i].left = 0

LEMMA SilencedIs ==
  ASSUME NEW p, Sane(p)
  PROVE  LET q == Silenced(p)
         IN /\ Sane(q) /\ SameTimes(p, q) /\ Quieted(p, q) /\ Shows(p, q)
            /\ q.closed = p.closed /\ q.defer = p.defer /\ q.force = p.force
<1> DEFINE mute == [i \in DOMAIN p.inputs |-> [p.inputs[i] EXCEPT !.left = 0]]
           q == Silenced(p)
<1>0. /\ p \in Players /\ p.inputs \in Seq(InputType) /\ Len(p.inputs) \in Nat
      /\ DOMAIN p.inputs = 1 .. Len(p.inputs)
  BY SaneIs
<1>1. ASSUME NEW i \in 1 .. Len(p.inputs)
      PROVE  /\ mute[i] \in InputType /\ mute[i].s = p.inputs[i].s /\ mute[i].left = 0
             /\ mute[i].eof = p.inputs[i].eof /\ mute[i].rem = p.inputs[i].rem
             /\ mute[i].at = p.inputs[i].at /\ mute[i].pos = p.inputs[i].pos
  <2> DEFINE x == p.inputs[i]
  <2>1. x \in InputType
    BY <1>0, ElementIs
  <2>2. mute[i] = [x EXCEPT !.left = 0]
    BY <1>0
  <2> HIDE DEF mute, x
  <2>3. /\ mute[i] \in InputType /\ mute[i].s = x.s /\ mute[i].left = 0
        /\ mute[i].eof = x.eof /\ mute[i].rem = x.rem /\ mute[i].at = x.at
        /\ mute[i].pos = x.pos
    BY <2>1, <2>2, SMTT(20) DEF InputType
  <2> QED BY <2>3 DEF x
<1>2. mute \in Seq(InputType) /\ Len(mute) = Len(p.inputs)
  <2>1. mute = [i \in 1 .. Len(p.inputs) |-> mute[i]]
    BY <1>0
  <2> HIDE DEF mute
  <2>2. mute \in [1 .. Len(p.inputs) -> InputType]
    BY <1>1, <2>1
  <2> QED BY <1>0, <2>2
<1>3. q = [p EXCEPT !.inputs = mute]
  BY <1>0 DEF Silenced, Players
<1> HIDE DEF q, mute
<1>4. /\ q \in Players /\ SameTimes(p, q) /\ q.inputs = mute /\ q.closed = p.closed
      /\ q.posUpd = p.posUpd /\ q.defer = p.defer /\ q.force = p.force /\ Shows(p, q)
  BY <1>0, <1>2, <1>3 DEF Players, SameTimes, Shows
<1>5. Sane(q)
  <2>1. \A i \in 1 .. Len(mute) : mute[i].at <= LengthOf(mute[i].s)
    BY <1>1, <1>2, SaneIs
  <2> QED BY <1>4, <2>1 DEF Sane, SameTimes
<1>6. Quieted(p, q)
  BY <1>1, <1>2, <1>4 DEF Quieted
<1> QED BY <1>4, <1>5, <1>6 DEF q

LEMMA FreeAllIs ==
  ASSUME NEW p, Sane(p)
  PROVE  LET q == FreeAll(p)
         IN /\ Sane(q) /\ SameTimes(p, q) /\ Shows(p, q) /\ q.inputs = <<>>
            /\ q.closed = p.closed \cup {p.inputs[i].s : i \in 1 .. Len(p.inputs)}
            /\ q.defer = p.defer /\ q.force = p.force
<1> DEFINE q == FreeAll(p)
           none == <<>>
           crash == p.crashed \/ NULL \in StreamsOf(p.inputs)
<1>0. /\ p \in Players /\ p.inputs \in Seq(InputType)
      /\ DOMAIN p.inputs = 1 .. Len(p.inputs)
  BY SaneIs
<1>1. q = [p EXCEPT !.inputs = none, !.closed = p.closed \cup StreamsOf(p.inputs),
                    !.crashed = crash]
  BY <1>0 DEF FreeAll, Players
<1>2. StreamsOf(p.inputs) = {p.inputs[i].s : i \in 1 .. Len(p.inputs)}
  BY <1>0 DEF StreamsOf
<1>3. StreamsOf(p.inputs) \subseteq Tracked /\ crash \in BOOLEAN /\ none \in Seq(InputType)
  <2>1. \A i \in 1 .. Len(p.inputs) : p.inputs[i].s \in Tracked
    BY <1>0, ElementIs
  <2>2. p.crashed \in BOOLEAN
    BY <1>0 DEF Players
  <2> QED BY <1>2, <2>1, <2>2
<1> HIDE DEF q, crash, none
<1>4. /\ q \in Players /\ SameTimes(p, q) /\ q.inputs = none
      /\ q.closed = p.closed \cup StreamsOf(p.inputs)
      /\ q.posUpd = p.posUpd /\ q.defer = p.defer /\ q.force = p.force /\ Shows(p, q)
  BY <1>0, <1>1, <1>3 DEF Players, SameTimes, Shows
<1>5. Sane(q)
  BY <1>4 DEF Sane, SameTimes, none
<1> QED BY <1>2, <1>4, <1>5 DEF q, none

LEMMA SinkIs ==
  ASSUME NEW k \in Sinks, NEW f \in Formats \cup {NULL}
  PROVE  /\ SetFormat(k, f) \in Sinks /\ SetFormat(k, f).fmt = f
         /\ SetFormat(k, f).cork = k.cork /\ SetFormat(k, f).buf = k.buf
         /\ Flush(k, f) \in Sinks /\ Flush(k, f).fmt = f /\ Flush(k, f).cork = k.cork
         /\ Flush(k, f).buf = 0
<1>1. \A g \in Formats \cup {NULL}, n \in 0 .. Capacity :
        LET h == [k EXCEPT !.fmt = g, !.buf = n]
        IN h \in Sinks /\ h.fmt = g /\ h.cork = k.cork /\ h.buf = n
  BY DEF Sinks
<1>2. SetFormat(k, f) = [k EXCEPT !.fmt = f, !.buf = k.buf] /\ k.buf \in 0 .. Capacity
  BY DEF SetFormat, Sinks
<1>3. Flush(k, f) = [k EXCEPT !.fmt = f, !.buf = 0] /\ 0 \in 0 .. Capacity
  BY DEF Flush
<1>4. LET h == [k EXCEPT !.fmt = f, !.buf = k.buf]
      IN h \in Sinks /\ h.fmt = f /\ h.cork = k.cork /\ h.buf = k.buf
  BY <1>1, <1>2
<1>5. LET h == [k EXCEPT !.fmt = f, !.buf = 0]
      IN h \in Sinks /\ h.fmt = f /\ h.cork = k.cork /\ h.buf = 0
  BY <1>1, <1>3
<1> QED BY ONLY <1>2, <1>3, <1>4, <1>5

LEMMA OnFormatIs ==
  ASSUME NEW p, Sane(p), NEW k \in Sinks, NEW f \in Formats \cup {NULL}
  PROVE  LET q == OnFormat(p, k, f)
         IN /\ Sane(q) /\ SameTimes(p, q) /\ Shows(p, q)
            /\ q.inputs = p.inputs /\ q.closed = p.closed
            /\ q.defer => p.defer
            /\ p.force => q.force
<1>1. \/ OnFormat(p, k, f) = p
      \/ OnFormat(p, k, f) = RequestInput(p, FALSE)
  BY DEF OnFormat
<1>2. LET q == RequestInput(p, FALSE)
      IN /\ Sane(q) /\ SameTimes(p, q) /\ Shows(p, q)
         /\ q.inputs = p.inputs /\ q.closed = p.closed
         /\ ~q.defer /\ (p.force => q.force)
  <2>1. FALSE \in BOOLEAN
    OBVIOUS
  <2> QED BY <2>1, RequestIs, Zenon
<1>3. CASE OnFormat(p, k, f) = p
  BY <1>3 DEF SameTimes, Shows
<1>4. CASE OnFormat(p, k, f) = RequestInput(p, FALSE)
  BY <1>2, <1>4, Zenon
<1> QED BY <1>1, <1>3, <1>4

LEMMA OnFlushIs ==
  ASSUME NEW p, Sane(p), NEW k \in Sinks, NEW f \in Formats \cup {NULL}, NEW want \in BOOLEAN
  PROVE  LET q == OnFlush(p, k, f, want)
         IN /\ Sane(q) /\ SameTimes(p, q) /\ Quieted(p, q) /\ Shows(p, q)
            /\ q.closed = p.closed /\ (p.force => q.force)
<1> DEFINE r == Silenced(p)
<1>1. \/ OnFlush(p, k, f, want) = r
      \/ OnFlush(p, k, f, want) = RequestInput(r, want /\ f = k.fmt)
  BY DEF OnFlush
<1>2. /\ Sane(r) /\ SameTimes(p, r) /\ Quieted(p, r) /\ Shows(p, r)
      /\ r.closed = p.closed /\ r.defer = p.defer /\ r.force = p.force
  BY SilencedIs
<1> HIDE DEF r
<1>3. ASSUME NEW b \in BOOLEAN
      PROVE  LET q == RequestInput(r, b)
             IN /\ Sane(q) /\ SameTimes(p, q) /\ Quieted(p, q) /\ Shows(p, q)
                /\ q.closed = p.closed /\ (p.force => q.force)
  <2> DEFINE q == RequestInput(r, b)
  <2>1. /\ Sane(q) /\ SameTimes(r, q) /\ Shows(r, q)
        /\ q.inputs = r.inputs /\ q.closed = r.closed /\ (r.force => q.force)
    BY <1>2, RequestIs
  <2> HIDE DEF q
  <2>2. SameTimes(p, q) /\ Quieted(p, q) /\ Shows(p, q)
    BY ONLY <1>2, <2>1 DEF SameTimes, Quieted, Shows
  <2> QED BY <1>2, <2>1, <2>2 DEF q
<1>4. (want /\ f = k.fmt) \in BOOLEAN
  OBVIOUS
<1> QED BY <1>1, <1>2, <1>3, <1>4

\* From p to q a stream s was appended to the list, which was freed first if
\* flush says so.
Loaded(p, q, s, flush) ==
  /\ Sane(q) /\ SameTimes(p, q) /\ (p.force => q.force)
  /\ q.closed = IF flush THEN p.closed \cup {p.inputs[i].s : i \in 1 .. Len(p.inputs)}
                ELSE p.closed
  /\ Len(q.inputs) = (IF flush THEN 0 ELSE Len(p.inputs)) + 1
  /\ LET x == q.inputs[Len(q.inputs)]
     IN x.s = s /\ ~x.eof /\ x.left = 0 /\ x.pos = 0 /\ x.at = 0
  /\ ~flush => \A i \in 1 .. Len(p.inputs) : q.inputs[i] = p.inputs[i]

LEMMA InputIs ==
  ASSUME NEW s \in Tracked
  PROVE  /\ Input(s) \in InputType /\ Input(s).s = s /\ Input(s).eof = FALSE
         /\ Input(s).left = 0 /\ Input(s).pos = 0 /\ Input(s).at = 0 /\ 0 <= LengthOf(s)
<1>1. LengthOf(s) \in Nat
  BY LengthIs DEF Tracked
<1> QED BY <1>1 DEF Input, InputType, Tracked

\* With r, q is what is loaded before the position is updated, k2 the sink.
Loading(p, k, s, flush, r, q, k2) ==
  /\ r.p = TimingUpdate(q, k2, TRUE) /\ r.k = k2
  /\ Loaded(p, q, s, flush) /\ Shows(p, q)
  /\ k = NULL => k2 = NULL /\ q.defer = p.defer
  /\ k # NULL =>
       /\ k2 \in Sinks /\ k2.fmt = FormatOf(s) /\ k2.cork = k.cork
       /\ k2.buf = IF flush /\ Len(p.inputs) > 0 THEN 0 ELSE k.buf

LEMMA InputLoadIs ==
  ASSUME now \in Nat, NEW p, Sane(p), NEW k \in Sinks \cup {NULL}, NEW s \in Tracked,
         NEW flush \in BOOLEAN, NEW want \in BOOLEAN
  PROVE  \E q, k2 : Loading(p, k, s, flush, InputLoad(p, k, s, flush, want), q, k2)
<1> DEFINE was  == p.inputs # <<>>
           kept == IF flush THEN FreeAll(p) ELSE p
           told == IF kept.inputs = <<>> THEN s ELSE kept.toldTrack
           q    == [kept EXCEPT !.inputs = Append(@, Input(s)), !.toldTrack = told]
           f    == FormatOf(s)
           k2   == IF was /\ flush THEN Flush(k, f) ELSE SetFormat(k, f)
           q2   == IF was /\ flush THEN OnFlush(q, k, f, want)
                   ELSE IF s # NULL THEN OnFormat(q, k, f)
                   ELSE [q EXCEPT !.defer = FALSE]
           r    == InputLoad(p, k, s, flush, want)
           n    == IF flush THEN 0 ELSE Len(p.inputs)
<1>1. /\ Sane(kept) /\ SameTimes(p, kept) /\ Shows(p, kept)
      /\ kept.defer = p.defer /\ kept.force = p.force
      /\ kept.closed = IF flush THEN p.closed \cup {p.inputs[i].s : i \in 1 .. Len(p.inputs)}
                       ELSE p.closed
      /\ kept.inputs = IF flush THEN <<>> ELSE p.inputs
  BY FreeAllIs DEF SameTimes, Shows
<1>2. kept \in Players /\ kept.inputs \in Seq(InputType)
  BY <1>1, SaneIs
<1>3. r = IF k = NULL THEN [p |-> TimingUpdate(q, k, TRUE), k |-> k]
          ELSE [p |-> TimingUpdate(q2, k2, TRUE), k |-> k2]
  <2>1. q = [kept EXCEPT !.inputs = Append(@, Input(s)),
                         !.toldTrack = IF kept.inputs = <<>> THEN s ELSE @]
    BY <1>2 DEF Players
  <2> HIDE DEF q
  <2> QED BY <2>1 DEF InputLoad
<1> HIDE DEF kept
<1>4. Len(kept.inputs) = n /\ n \in Nat
  BY <1>1, <1>2, SaneIs
<1>5. /\ Append(kept.inputs, Input(s)) \in Seq(InputType)
      /\ Len(Append(kept.inputs, Input(s))) = n + 1
      /\ Append(kept.inputs, Input(s))[n + 1] = Input(s)
      /\ \A i \in 1 .. n : Append(kept.inputs, Input(s))[i] = kept.inputs[i]
  <2>1. Input(s) \in InputType
    BY InputIs
  <2> QED BY ONLY <1>2, <1>4, <2>1, AppendProperties
<1>6. told \in Tracked
  BY <1>2 DEF Players
<1> DEFINE more == Append(kept.inputs, Input(s))
<1> HIDE DEF told, more
<1>7. /\ q \in Players /\ q.inputs = more /\ q.posUpd = kept.posUpd
      /\ q.tcUpd = kept.tcUpd /\ q.tcTimer = kept.tcTimer /\ q.paused = kept.paused
      /\ q.closed = kept.closed /\ q.defer = kept.defer /\ q.force = kept.force
      /\ Shows(kept, q)
  <2>1. q = [kept EXCEPT !.inputs = more, !.toldTrack = told]
    BY <1>2 DEF Players, more
  <2>2. more \in Seq(InputType)
    BY <1>5 DEF more
  <2> HIDE DEF q
  <2> QED BY <1>2, <1>6, <2>1, <2>2 DEF Players, Shows
<1> HIDE DEF q
<1>8. Sane(q)
  <2>1. ASSUME NEW i \in 1 .. Len(more) PROVE more[i].at <= LengthOf(more[i].s)
    <3>1. CASE i = n + 1
      <4>1. more[i] = Input(s)
        BY <1>5, <3>1 DEF more
      <4>2. Input(s).s = s /\ Input(s).at = 0 /\ 0 <= LengthOf(s)
        BY InputIs
      <4> QED BY <4>1, <4>2
    <3>2. CASE i # n + 1
      <4>1. i \in 1 .. n
        BY ONLY <1>4, <1>5, <3>2 DEF more
      <4>2. more[i] = kept.inputs[i]
        BY <1>5, <4>1 DEF more
      <4> QED BY <1>1, <1>4, <4>1, <4>2, SaneIs
    <3> QED BY <3>1, <3>2
  <2> QED BY <1>1, <1>7, <2>1 DEF Sane
<1>9. Loaded(p, q, s, flush)
  <2>1. /\ Len(more) = n + 1 /\ more[n + 1] = Input(s)
        /\ \A i \in 1 .. n : more[i] = kept.inputs[i]
    BY <1>5 DEF more
  <2>2. SameTimes(p, q) /\ (p.force => q.force) /\ q.closed = kept.closed
    BY <1>1, <1>7 DEF SameTimes
  <2>3. ~flush => \A i \in 1 .. Len(p.inputs) : more[i] = p.inputs[i]
    BY <1>1, <2>1
  <2>4. LET x == more[n + 1] IN x.s = s /\ ~x.eof /\ x.left = 0 /\ x.pos = 0 /\ x.at = 0
    BY <2>1, InputIs, ZenonT(60)
  <2>5. q.inputs = more /\ kept.closed = IF flush THEN p.closed \cup {p.inputs[i].s : i \in 1 .. Len(p.inputs)}
                                         ELSE p.closed
    BY <1>1, <1>7
  <2> QED BY ONLY <1>8, <2>1, <2>2, <2>3, <2>4, <2>5 DEF Loaded
\* The rest leaves the list as it is, but for what is left of the inputs.
<1>10. ASSUME NEW v, Sane(v), SameTimes(q, v), q.force => v.force, v.closed = q.closed,
              v.inputs = q.inputs \/ (flush /\ Quieted(q, v))
       PROVE  Loaded(p, v, s, flush)
  <2>1. /\ SameTimes(p, v) /\ (p.force => v.force) /\ v.closed = q.closed
    BY <1>9, <1>10 DEF Loaded, SameTimes
  <2>2. Len(q.inputs) = n + 1
    BY <1>9 DEF Loaded
  <2>3. /\ Len(v.inputs) = Len(q.inputs)
        /\ LET x == v.inputs[n + 1] IN x.s = s /\ ~x.eof /\ x.left = 0 /\ x.pos = 0 /\ x.at = 0
        /\ ~flush => v.inputs = q.inputs
    <3>1. n + 1 \in 1 .. Len(q.inputs)
      BY <1>4, <2>2
    <3> QED BY <1>9, <1>10, <2>2, <3>1 DEF Loaded, Quieted
  <2> QED BY <1>9, <1>10, <2>1, <2>2, <2>3, ZenonT(60) DEF Loaded
<1>11. Shows(p, q) /\ (was <=> Len(p.inputs) > 0)
  <2>1. p.inputs \in Seq(InputType)
    BY SaneIs
  <2> QED BY <1>1, <1>7, <2>1 DEF Shows
<1>12. CASE k = NULL
  <2>1. r.p = TimingUpdate(q, k, TRUE) /\ r.k = k
    BY <1>3, <1>12
  <2>2. SameTimes(q, q)
    BY DEF SameTimes
  <2>3. Loaded(p, q, s, flush) /\ q.defer = p.defer
    BY <1>1, <1>7, <1>9
  <2> HIDE DEF r
  <2>4. Loading(p, k, s, flush, r, q, k)
    BY <1>12, <1>11, <2>1, <2>3 DEF Loading
  <2> QED BY <2>4 DEF r
<1>13. CASE k # NULL
  <2>1. k \in Sinks /\ f \in Formats \cup {NULL}
    BY <1>13, FormatIs DEF Tracked
  <2>2. k2 \in Sinks /\ k2.fmt = f /\ k2.cork = k.cork /\ k2.buf = IF flush /\ was THEN 0 ELSE k.buf
    BY <2>1, SinkIs, ZenonT(60)
  <2>3. r.p = TimingUpdate(q2, k2, TRUE) /\ r.k = k2
    BY <1>3, <1>13
  <2> HIDE DEF f, k2, r
  <2>4. /\ Sane(q2) /\ SameTimes(q, q2) /\ (q.force => q2.force) /\ q2.closed = q.closed
        /\ q2.inputs = q.inputs \/ (flush /\ Quieted(q, q2))
        /\ Shows(q, q2)
    <3>1. CASE was /\ flush
      <4>1. q2 = OnFlush(q, k, f, want)
        BY ONLY <3>1
      <4> HIDE DEF q2, was
      <4> QED BY <1>8, <2>1, <3>1, <4>1, OnFlushIs
    <3>2. CASE ~(was /\ flush) /\ s # NULL
      <4>1. q2 = OnFormat(q, k, f)
        BY ONLY <3>2
      <4> HIDE DEF q2, was
      <4> QED BY <1>8, <2>1, <4>1, OnFormatIs
    <3>3. CASE ~(was /\ flush) /\ s = NULL
      <4>1. q2 = [q EXCEPT !.defer = FALSE]
        BY ONLY <3>3
      <4> HIDE DEF q2
      <4> QED BY <1>7, <1>8, <4>1 DEF Sane, Players, SameTimes, Shows
    <3> QED BY <3>1, <3>2, <3>3
  <2> HIDE DEF q2, was
  <2>5. Loaded(p, q2, s, flush)
    BY <1>10, <2>4
  <2>6. Shows(p, q2)
    BY <1>11, <2>4 DEF Shows
  <2>7. k2.buf = IF flush /\ Len(p.inputs) > 0 THEN 0 ELSE k.buf
    BY <1>11, <2>2
  <2>8. Loading(p, k, s, flush, r, q2, k2)
    BY <1>13, <2>2, <2>3, <2>5, <2>6, <2>7 DEF Loading, f
  <2> QED BY <2>8 DEF r
<1> QED BY <1>12, <1>13

LEMMA LoadIs ==
  ASSUME now \in Nat, NEW p, Sane(p), NEW k \in Sinks \cup {NULL}, NEW s \in Tracked,
         NEW flush \in BOOLEAN, NEW want \in BOOLEAN
  PROVE  LET r == InputLoad(p, k, s, flush, want)
         IN /\ Loaded(p, r.p, s, flush)
            /\ k = NULL => r.k = NULL /\ r.p.defer = p.defer
            /\ k # NULL => r.k \in Sinks /\ r.k.fmt = FormatOf(s) /\ r.k.cork = k.cork
<1> DEFINE r == InputLoad(p, k, s, flush, want)
<1>1. PICK q, k2 : Loading(p, k, s, flush, r, q, k2)
  BY InputLoadIs
<1> HIDE DEF r
<1>2. /\ r.p = TimingUpdate(q, k2, TRUE) /\ r.k = k2
      /\ Loaded(p, q, s, flush)
      /\ k = NULL => k2 = NULL /\ q.defer = p.defer
      /\ k # NULL => k2 \in Sinks /\ k2.fmt = FormatOf(s) /\ k2.cork = k.cork
  BY <1>1 DEF Loading
<1> DEFINE w == TimingUpdate(q, k2, TRUE)
<1>3. Sane(w) /\ Alike(q, w)
  <2>1. Sane(q) /\ k2 \in Sinks \cup {NULL}
    BY <1>2 DEF Loaded
  <2> QED BY <2>1, TimingIs
<1> HIDE DEF w
<1>4. Loaded(p, w, s, flush) /\ w.defer = q.defer
  BY ONLY <1>2, <1>3, ZenonT(60) DEF Loaded, Alike, SameTimes
<1> QED BY <1>2, <1>4 DEF r, w

-----------------------------------------------------------------------------
(* What the steps of the thread have in common.                            *)

LEMMA StepIs ==
  ASSUME IInv, now' = now, ops' \in 0 .. MaxOps,
         NEW p, NEW k, NEW a, NEW c, NEW streams, NEW calm,
         p = pl', k = sk', a = asked', c = pc', streams = opened', calm = faith',
         Holds(p, k, a, c, streams, calm)
  PROVE  IInv'
<1>1. Sane(p) => Sane(pl)'
  BY DEF Sane
<1>2. Sound(p, k, streams, calm) => Sound(pl, sk, opened, faith)'
  BY DEF Sound, Early
<1>3. Holds(pl, sk, asked, pc, opened, faith)'
  BY <1>1, <1>2 DEF Holds
<1> QED BY <1>3 DEF IInv

\* A step that leaves the inputs alone.
LEMMA SameKeeps ==
  ASSUME NEW p, NEW q, SameTimes(p, q), q.inputs = p.inputs, q.closed = p.closed,
         NEW k, NEW k2, NEW streams, NEW calm, NEW calm2,
         k2 = NULL <=> k = NULL,
         k # NULL => k2.fmt = k.fmt \/ (k2.fmt = NULL /\ ~q.defer),
         calm2 => calm /\ (k # NULL => k2.cork = k.cork),
         q.defer => p.defer \/ (k # NULL /\ k.fmt # NULL)
  PROVE  /\ Sound(p, k, streams, calm) => Sound(q, k2, streams, calm2)
         /\ Settled(p, k, streams) => Settled(q, k2, streams)
<1>1. Sound(p, k, streams, calm) => Sound(q, k2, streams, calm2)
  BY DEF SameTimes, Sound, Owned, Early, Silent
<1>2. Settled(p, k, streams) => Settled(q, k2, streams)
  BY DEF SameTimes, Settled, Listed, LastOpen, Formatted, TimerSet
<1> QED BY <1>1, <1>2

\* The timers are served and the position is updated.
LEMMA ServedThen ==
  ASSUME now \in Nat, NEW p, Sane(p), NEW q, Served(p, q), TimerSet(q),
         NEW k \in Sinks \cup {NULL}, NEW seeked \in BOOLEAN, NEW streams, NEW calm
  PROVE  LET r == TimingUpdate(q, k, seeked)
         IN /\ Sane(r) /\ TimerSet(r) /\ r.defer = p.defer /\ r.force = p.force
            /\ Sound(p, k, streams, calm) => Sound(r, k, streams, calm)
            /\ AllEnded(p) => AllEnded(r)
            /\ Listed(p, k, streams) => Settled(r, k, streams)
<1> DEFINE r == TimingUpdate(q, k, seeked)
<1>1. Sane(q)
  BY DEF Served
<1>2. Sane(r) /\ Alike(q, r)
  BY <1>1, TimingIs
<1> HIDE DEF r
<1>3. Served(q, r) /\ TimerSet(r)
  BY <1>1, <1>2, AlikeServed
<1>4. Served(p, r)
  BY <1>3, ServedTrans
<1>5. r.defer = p.defer /\ r.force = p.force
  BY <1>4 DEF Served
<1>6. /\ Sound(p, k, streams, calm) => Sound(r, k, streams, calm)
      /\ AllEnded(p) => AllEnded(r)
      /\ Listed(p, k, streams) => Settled(r, k, streams)
  BY <1>3, <1>4, ServedKeeps DEF Settled
<1> QED BY <1>2, <1>3, <1>5, <1>6 DEF r

LEMMA TimingKeeps ==
  ASSUME now \in Nat, NEW p, Sane(p), NEW k \in Sinks \cup {NULL}, NEW seeked \in BOOLEAN,
         NEW streams, NEW calm, Settled(p, k, streams), Sound(p, k, streams, calm)
  PROVE  LET r == TimingUpdate(p, k, seeked)
         IN /\ Sane(r) /\ r.defer = p.defer /\ r.force = p.force
            /\ Sound(r, k, streams, calm) /\ Settled(r, k, streams)
<1>1. Alike(p, p)
  BY DEF Alike
<1>2. Served(p, p) /\ TimerSet(p)
  BY <1>1, AlikeServed DEF Settled
<1>3. Listed(p, k, streams)
  BY DEF Settled
<1> QED BY <1>2, <1>3, ServedThen

\* What the invariant says where the thread runs.
LEMMA HereIs ==
  ASSUME IInv
  PROVE  /\ now \in Nat /\ ops \in 0 .. MaxOps /\ Sane(pl) /\ sk \in Sinks \cup {NULL}
         /\ opened \subseteq Streams /\ faith \in BOOLEAN
         /\ pc # "exited" => Sound(pl, sk, opened, faith)
         /\ pc \in {"defer", "sinkdefer", "epoll", "handle"} =>
              asked = NULL /\ Settled(pl, sk, opened)
BY DEF IInv, Holds

-----------------------------------------------------------------------------
(* The loop and the callbacks.                                             *)

LEMMA RequestKeeps ==
  ASSUME IInv, NEW back \in {"epoll", "handle"}, pc \in {"sinkdefer", "epoll", "handle"},
         ~pl.crashed, SinkRequest(back)
  PROVE  IInv'
<1> DEFINE b == sk.buf < Capacity
           q == RequestInput(pl, b)
<1>1. /\ Sane(q) /\ SameTimes(pl, q) /\ q.inputs = pl.inputs /\ q.closed = pl.closed
      /\ q.defer = b /\ (b => q.force)
  <2>1. b \in BOOLEAN /\ Sane(pl)
    BY HereIs
  <2> HIDE DEF b
  <2> QED BY <2>1, RequestIs
<1>2. /\ pl' = q /\ pc' = back /\ sk # NULL /\ sk.fmt # NULL
      /\ UNCHANGED <<sk, now, asked, opened, ops, faith>>
  BY DEF SinkRequest
<1> HIDE DEF q, b
<1>3. Sound(q, sk, opened, faith) /\ Settled(q, sk, opened)
  BY <1>1, <1>2, HereIs, SameKeeps
<1>4. Holds(q, sk, NULL, back, opened, faith)
  BY <1>1, <1>3, HereIs DEF Holds
<1> QED BY <1>2, <1>4, HereIs, StepIs

LEMMA InfoKeeps ==
  ASSUME IInv, NEW back \in {"epoll", "handle"}, pc \in {"sinkdefer", "epoll", "handle"},
         ~pl.crashed, SinkInfo(back), back = "epoll" => pc = "sinkdefer"
  PROVE  IInv'
<1> DEFINE p == [pl EXCEPT !.paused = sk.cork]
           q == IF p.paused THEN PauseTimer(p, sk) ELSE StartTimer(p, sk)
           r == TimingUpdate(q, sk, FALSE)
<1>1. /\ pl' = r /\ pc' = back /\ sk # NULL
      /\ UNCHANGED <<sk, now, asked, opened, ops, faith>>
  BY DEF SinkInfo
<1>2. pl \in Players /\ sk \in Sinks /\ sk.cork \in BOOLEAN /\ asked = NULL
  BY <1>1, HereIs DEF Sane, Sinks
<1>3. /\ p \in Players /\ p.inputs = pl.inputs /\ p.closed = pl.closed /\ p.tcUpd = pl.tcUpd
      /\ p.tcTimer = pl.tcTimer /\ p.posUpd = pl.posUpd /\ p.defer = pl.defer
      /\ p.force = pl.force /\ p.paused = sk.cork
  BY <1>2 DEF Players
<1> HIDE DEF p, r
<1>4. Sane(p)
  BY <1>3, HereIs DEF Sane
<1>5. Served(p, q) /\ TimerSet(q)
  BY <1>2, <1>4, HereIs, PauseIs, StartIs
<1> HIDE DEF q
<1>6. Sound(p, sk, opened, faith)
  <2>1. Sound(pl, sk, opened, faith)
    BY HereIs
  <2> QED BY <1>1, <1>3, <2>1 DEF Sound, Owned, Early, Silent
<1>7. Sane(r) /\ r.defer = p.defer /\ r.force = p.force /\ Sound(r, sk, opened, faith)
  BY <1>4, <1>5, <1>6, HereIs, ServedThen DEF r
<1>8. Settled(r, sk, opened)
  <2>1. Listed(pl, sk, opened)
    BY HereIs DEF Settled
  <2>2. Listed(p, sk, opened)
    BY <1>3, <2>1 DEF Listed, LastOpen, Formatted
  <2> QED BY <1>4, <1>5, <2>2, HereIs, ServedThen DEF r
<1>9. pc = "sinkdefer" \/ pc = "epoll" => (pl.defer => pl.force)
  BY DEF IInv, Holds
<1>10. Holds(r, sk, NULL, back, opened, faith)
  BY <1>2, <1>3, <1>7, <1>8, <1>9, HereIs DEF Holds
<1> QED BY <1>1, <1>2, <1>10, HereIs, StepIs

\* player_pos_tick moves the position, and nothing else.
LEMMA PosTickIs ==
  ASSUME now \in Nat, NEW p, Sane(p), Due(p.posTimer)
  PROVE  Sane(PosTick(p)) /\ Alike(p, PosTick(p))
<1> DEFINE ms   == p.posMs + (now - p.posUpd)
           next == p.posTimer + Second * ((now - p.posTimer) \div Second + 1)
           sec  == ms \div Second
           told == IF sec # p.posSec THEN sec ELSE p.toldPos
           q    == PosTick(p)
<1>0. /\ p \in Players /\ p.posUpd \in Nat /\ p.posUpd <= now /\ p.posMs \in Nat
      /\ p.posTimer \in Nat /\ p.posTimer <= now
  BY DEF Sane, Players, Due
<1>1. next \in Nat
  <2>1. now - p.posTimer \in Nat
    BY <1>0
  <2>2. (now - p.posTimer) \div Second \in Nat
    BY <2>1, DivIs
  <2> DEFINE d == (now - p.posTimer) \div Second
  <2> HIDE DEF d
  <2>3. d + 1 \in Nat /\ Second \in Nat
    BY <2>2 DEF d
  <2>4. Second * (d + 1) \in Nat
    BY <2>3
  <2> QED BY <1>0, <2>4 DEF d
<1>2. ms \in Nat /\ sec \in Nat
  <2>1. ms \in Nat
    BY <1>0
  <2> HIDE DEF ms
  <2> QED BY <2>1, DivIs
<1>3. told \in Nat \cup {NULL}
  BY <1>0, <1>2 DEF Players
<1>4. \/ q = [p EXCEPT !.posTimer = next]
      \/ q = [p EXCEPT !.posTimer = next, !.posUpd = now, !.posMs = ms, !.posSec = sec,
                       !.toldPos = told]
  BY <1>0 DEF PosTick, Players
<1> HIDE DEF ms, next, sec, told, q
<1>5. q \in Players /\ Alike(p, q) /\ (q.posUpd = p.posUpd \/ q.posUpd = now)
  <2>1. CASE q = [p EXCEPT !.posTimer = next]
    BY <1>0, <1>1, <2>1 DEF Players, Alike
  <2>2. CASE q = [p EXCEPT !.posTimer = next, !.posUpd = now, !.posMs = ms, !.posSec = sec,
                           !.toldPos = told]
    BY <1>0, <1>1, <1>2, <1>3, <2>2 DEF Players, Alike
  <2> QED BY <1>4, <2>1, <2>2
<1> QED BY <1>0, <1>5 DEF Sane, Alike, q

LEMMA TimerKeeps == ASSUME IInv, TimerEvent PROVE IInv'
<1>0. /\ UNCHANGED <<sk, now, asked, opened, ops, faith>> /\ pc' = "handle"
      /\ pc \in {"epoll", "handle"}
  BY DEF TimerEvent, Event, At
<1>1. /\ Sane(pl) /\ Sound(pl, sk, opened, faith) /\ Settled(pl, sk, opened) /\ asked = NULL
      /\ now \in Nat /\ sk \in Sinks \cup {NULL} /\ opened \subseteq Streams
      /\ faith \in BOOLEAN /\ ops \in 0 .. MaxOps
  BY <1>0, HereIs
<1>2. ASSUME NEW q, Served(pl, q), TimerSet(q), pl' = q
      PROVE  IInv'
  <2>1. Sane(q)
    BY <1>2 DEF Served
  <2>2. Sound(q, sk, opened, faith) /\ Listed(q, sk, opened)
    BY <1>1, <1>2, ServedKeeps DEF Settled
  <2>3. Holds(q, sk, NULL, "handle", opened, faith)
    BY <1>1, <1>2, <2>1, <2>2 DEF Holds, Settled
  <2> QED BY <1>0, <1>1, <1>2, <2>3, StepIs
<1>3. CASE Due(pl.posTimer) /\ pl' = PosTick(pl)
  <2>1. Sane(PosTick(pl)) /\ Alike(pl, PosTick(pl))
    BY <1>1, <1>3, PosTickIs
  <2>2. Served(pl, PosTick(pl)) /\ TimerSet(PosTick(pl))
    BY <1>1, <2>1, AlikeServed DEF Settled
  <2> QED BY <1>2, <1>3, <2>2
<1>4. CASE pl' = TrackTick([pl EXCEPT !.tcTimer = NULL], sk)
  <2>1. pl' = PauseTimer(pl, sk)
    BY <1>4 DEF PauseTimer
  <2>2. Served(pl, PauseTimer(pl, sk)) /\ TimerSet(PauseTimer(pl, sk))
    BY <1>1, PauseIs
  <2> QED BY <1>2, <2>1, <2>2
<1> QED BY <1>3, <1>4 DEF TimerEvent

\* Only where the thread is changes, and who waits for whom.
LEMMA LoopKeeps ==
  ASSUME IInv, SkipProvide \/ SinkDefer \/ Poll \/ HandleDone \/ SinkEvent
  PROVE  IInv'
<1>1. CASE SkipProvide
  <2>1. /\ pc = "defer" /\ ~pl.defer /\ pc' = "sinkdefer"
        /\ UNCHANGED <<pl, sk, now, asked, opened, ops, faith>>
    BY <1>1 DEF SkipProvide, At
  <2>2. Holds(pl, sk, NULL, "sinkdefer", opened, faith)
    BY <2>1, HereIs DEF Holds
  <2> QED BY <2>1, <2>2, HereIs, StepIs
<1>2. CASE SinkDefer
  <2>1. pc = "sinkdefer" /\ ~pl.crashed
    BY <1>2 DEF SinkDefer, At
  <2>2. CASE SinkRequest("epoll")
    BY <2>1, <2>2, RequestKeeps
  <2>3. CASE SinkInfo("epoll")
    BY <2>1, <2>3, InfoKeeps
  <2>4. CASE pc' = "epoll" /\ UNCHANGED <<pl, sk, now, asked, opened, ops, faith>>
    <3>1. Holds(pl, sk, NULL, "epoll", opened, faith)
      BY <2>1, HereIs DEF IInv, Holds
    <3> QED BY <2>1, <2>4, <3>1, HereIs, StepIs
  <2> QED BY <1>2, <2>2, <2>3, <2>4 DEF SinkDefer
<1>3. CASE Poll
  <2> DEFINE q == [pl EXCEPT !.force = FALSE]
  <2>1. /\ pc = "epoll" /\ pl' = q /\ pc' = "handle"
        /\ UNCHANGED <<sk, now, asked, opened, ops, faith>>
    BY <1>3 DEF Poll, At
  <2>2. /\ Sane(pl) /\ Sound(pl, sk, opened, faith) /\ Settled(pl, sk, opened)
    BY <2>1, HereIs
  <2>3. /\ q \in Players /\ SameTimes(pl, q) /\ q.inputs = pl.inputs /\ q.closed = pl.closed
        /\ q.defer = pl.defer /\ q.posUpd = pl.posUpd
    BY <2>2 DEF Sane, Players, SameTimes
  <2> HIDE DEF q
  <2>4. Sane(q)
    BY <2>2, <2>3 DEF Sane, SameTimes
  <2>5. Sound(q, sk, opened, faith) /\ Settled(q, sk, opened)
    BY <2>2, <2>3, SameKeeps
  <2>6. Holds(q, sk, NULL, "handle", opened, faith)
    BY <2>4, <2>5, HereIs DEF Holds
  <2> QED BY <2>1, <2>6, HereIs, StepIs
<1>4. CASE HandleDone
  <2>1. /\ pc = "handle" /\ pc' = "defer"
        /\ UNCHANGED <<pl, sk, now, asked, opened, ops, faith>>
    BY <1>4 DEF HandleDone, At
  <2>2. Holds(pl, sk, NULL, "defer", opened, faith)
    BY <2>1, HereIs DEF Holds
  <2> QED BY <2>1, <2>2, HereIs, StepIs
<1>5. CASE SinkEvent
  <2>1. pc \in {"epoll", "handle"} /\ ~pl.crashed
    BY <1>5 DEF SinkEvent, Event, At
  <2>2. CASE SinkRequest("handle")
    BY <2>1, <2>2, RequestKeeps
  <2>3. CASE SinkInfo("handle")
    BY <2>1, <2>3, InfoKeeps
  <2> QED BY <1>5, <2>2, <2>3 DEF SinkEvent
<1> QED BY <1>1, <1>2, <1>3, <1>4, <1>5

\* The last input is read, or found to be at its end.
LEMMA LastSetIs ==
  ASSUME NEW inputs \in Seq(InputType), Len(inputs) > 0, NEW x \in InputType
  PROVE  LET more == [inputs EXCEPT ![Len(inputs)] = x]
         IN /\ more \in Seq(InputType) /\ Len(more) = Len(inputs) /\ more[Len(inputs)] = x
            /\ \A i \in 1 .. Len(inputs) : i # Len(inputs) => more[i] = inputs[i]
<1> DEFINE n == Len(inputs)
           more == [inputs EXCEPT ![n] = x]
<1>1. n \in Nat /\ n \in 1 .. n /\ inputs \in [1 .. n -> InputType]
  BY LenProperties
<1> HIDE DEF n
<1>2. more \in [1 .. n -> InputType] /\ more[n] = x
  BY <1>1
<1>3. \A i \in 1 .. n : i # n => more[i] = inputs[i]
  BY <1>1
<1> HIDE DEF more
<1>4. more \in Seq(InputType) /\ Len(more) = n
  BY <1>1, <1>2
<1> QED BY <1>2, <1>3, <1>4 DEF n, more

LEMMA LastBecomes ==
  ASSUME NEW p, Sane(p), Len(p.inputs) > 0, NEW x \in InputType,
         x.s = p.inputs[Len(p.inputs)].s, x.at <= LengthOf(x.s)
  PROVE  LET n == Len(p.inputs)
             q == [p EXCEPT !.inputs[n] = x]
         IN /\ Sane(q) /\ SameTimes(p, q) /\ Shows(p, q) /\ Len(q.inputs) = n /\ q.inputs[n] = x
            /\ \A i \in 1 .. n : i # n => q.inputs[i] = p.inputs[i]
            /\ q.closed = p.closed /\ q.defer = p.defer /\ q.force = p.force
<1> DEFINE n    == Len(p.inputs)
           more == [p.inputs EXCEPT ![n] = x]
           q    == [p EXCEPT !.inputs[n] = x]
<1>0. p \in Players /\ p.inputs \in Seq(InputType) /\ n \in Nat
  BY SaneIs
<1>1. /\ more \in Seq(InputType) /\ Len(more) = n /\ more[n] = x
      /\ \A i \in 1 .. n : i # n => more[i] = p.inputs[i]
  BY <1>0, LastSetIs
<1>2. q = [p EXCEPT !.inputs = more]
  BY <1>0 DEF Players
<1> HIDE DEF q, more
<1>3. /\ q \in Players /\ q.inputs = more /\ SameTimes(p, q) /\ q.closed = p.closed
      /\ q.defer = p.defer /\ q.force = p.force /\ q.posUpd = p.posUpd /\ Shows(p, q)
  BY <1>0, <1>1, <1>2 DEF Players, SameTimes, Shows
<1>4. \A i \in 1 .. n : more[i].at <= LengthOf(more[i].s)
  BY <1>1, SaneIs
<1>5. Sane(q)
  BY <1>1, <1>3, <1>4 DEF Sane, SameTimes
<1> QED BY <1>1, <1>3, <1>5 DEF q

LEMMA ProvideKeeps == ASSUME IInv, Provide PROVE IInv'
<1> DEFINE n     == Len(pl.inputs)
           last  == Last(pl.inputs)
           space == Capacity - sk.buf
           rest  == LengthOf(last.s) - last.at
<1>0. pc = "defer" /\ pl.defer /\ UNCHANGED <<now, opened, ops, faith>>
  BY DEF Provide, At
<1>1. /\ Sane(pl) /\ Sound(pl, sk, opened, faith) /\ Settled(pl, sk, opened) /\ asked = NULL
      /\ now \in Nat /\ sk \in Sinks \cup {NULL} /\ opened \subseteq Streams
      /\ faith \in BOOLEAN /\ ops \in 0 .. MaxOps
  BY <1>0, HereIs
<1>2. sk # NULL /\ sk \in Sinks /\ n > 0
  BY <1>0, <1>1 DEF Sound, Settled, Listed
<1>3. /\ pl \in Players /\ pl.inputs \in Seq(InputType) /\ n \in Nat /\ n \in 1 .. n
      /\ last = pl.inputs[n] /\ last \in InputType
      /\ pl.tcUpd \in Nat /\ pl.tcUpd <= now
  BY <1>1, <1>2, SaneIs DEF Last
<1>4. /\ last.at \in Nat /\ last.at <= LengthOf(last.s) /\ LengthOf(last.s) \in Nat
      /\ last.s \in Tracked /\ last.rem \in Int /\ last.left \in Nat
  BY <1>1, <1>3, SaneIs, ElementIs, LengthIs DEF Tracked
<1>5. sk.buf \in 0 .. Capacity /\ space \in Nat /\ sk.buf \in Nat
  BY <1>2 DEF Sinks
<1>6. ASSUME NEW len \in 1 .. space, len <= rest
      PROVE  len \in Nat /\ last.at + len <= LengthOf(last.s) /\ sk.buf + len \in 0 .. Capacity
  BY <1>4, <1>5, <1>6
<1> HIDE DEF last, space, rest
\* The sink is full.
<1>7. CASE /\ space = 0 /\ pl' = [pl EXCEPT !.defer = FALSE] /\ pc' = "sinkdefer"
           /\ UNCHANGED <<sk, asked>>
  <2> DEFINE q == [pl EXCEPT !.defer = FALSE]
  <2>1. /\ q \in Players /\ SameTimes(pl, q) /\ q.inputs = pl.inputs /\ q.closed = pl.closed
        /\ ~q.defer /\ q.posUpd = pl.posUpd
    BY <1>3 DEF Players, SameTimes
  <2>2. pl' = q
    BY <1>7
  <2> HIDE DEF q
  <2>3. Sane(q)
    BY <1>1, <2>1 DEF Sane, SameTimes
  <2>4. Sound(q, sk, opened, faith) /\ Settled(q, sk, opened)
    BY <1>1, <2>1, SameKeeps
  <2>5. Holds(q, sk, NULL, "sinkdefer", opened, faith)
    BY <1>1, <2>1, <2>3, <2>4 DEF Holds
  <2> QED BY <1>0, <1>1, <1>7, <2>2, <2>5, StepIs
\* The list as it is when the last input has become x.
<1>8. ASSUME NEW x \in InputType, x.s = last.s, x.at <= LengthOf(x.s)
      PROVE  LET q == [pl EXCEPT !.inputs[n] = x]
             IN /\ Sane(q) /\ SameTimes(pl, q) /\ Len(q.inputs) = n /\ q.inputs[n] = x
                /\ \A i \in 1 .. n : i # n => q.inputs[i] = pl.inputs[i]
                /\ q.closed = pl.closed /\ q.defer = pl.defer /\ q.force = pl.force
  BY <1>1, <1>2, <1>3, <1>8, LastBecomes, ZenonT(60)
\* Audio is handed to the sink.
<1>9. ASSUME NEW len \in 1 .. space, len <= rest, sk' = [sk EXCEPT !.buf = @ + len],
             LET p == [pl EXCEPT !.inputs[n] = [last EXCEPT !.pos = last.at, !.at = last.at + len],
                                 !.defer = len < space, !.force = TRUE]
             IN pl' = TimingUpdate(p, sk', FALSE),
             pc' = "sinkdefer", UNCHANGED asked
      PROVE  IInv'
  <2>0. len \in Nat /\ last.at + len <= LengthOf(last.s) /\ sk.buf + len \in 0 .. Capacity
    BY <1>6, <1>9
  <2> DEFINE x  == [last EXCEPT !.pos = last.at, !.at = last.at + len]
             q  == [pl EXCEPT !.inputs[n] = x]
             b  == len < space
             p  == [q EXCEPT !.defer = b, !.force = TRUE]
             k2 == [sk EXCEPT !.buf = @ + len]
             r  == TimingUpdate(p, k2, FALSE)
  <2>1. /\ x \in InputType /\ x.s = last.s /\ x.at <= LengthOf(x.s)
        /\ x.eof = last.eof /\ x.rem = last.rem /\ x.left = last.left
    <3> DEFINE m == last.at + len
    <3>0. m \in Nat
      BY <1>4, <2>0
    <3>1. x = [last EXCEPT !.pos = last.at, !.at = m]
      OBVIOUS
    <3> HIDE DEF m, x
    <3>2. /\ x \in InputType /\ x.s = last.s /\ x.at = m
          /\ x.eof = last.eof /\ x.rem = last.rem /\ x.left = last.left
      BY <1>3, <1>4, <3>0, <3>1 DEF InputType
    <3> QED BY <2>0, <3>2 DEF m
  <2>2. k2 \in Sinks /\ k2.fmt = sk.fmt /\ k2.cork = sk.cork /\ k2 # NULL
    <3> DEFINE m == sk.buf + len
    <3>1. k2 = [sk EXCEPT !.buf = m] /\ m \in 0 .. Capacity
      BY <1>2, <2>0 DEF Sinks
    <3> HIDE DEF m, k2
    <3>2. k2 \in Sinks /\ k2.fmt = sk.fmt /\ k2.cork = sk.cork
      BY <1>2, <3>1 DEF Sinks
    <3> QED BY <3>2
  <2>3. b \in BOOLEAN
    OBVIOUS
  <2> HIDE DEF x, b, k2
  <2>4. /\ Sane(q) /\ SameTimes(pl, q) /\ Len(q.inputs) = n /\ q.inputs[n] = x
        /\ \A i \in 1 .. n : i # n => q.inputs[i] = pl.inputs[i]
        /\ q.closed = pl.closed /\ q.defer = pl.defer /\ q.force = pl.force
    BY <1>8, <2>1
  <2>5. p = [pl EXCEPT !.inputs[n] = x, !.defer = b, !.force = TRUE]
    OBVIOUS
  <2>6. pl' = r /\ sk' = k2
    BY <1>9, <2>5 DEF x, b, k2
  <2> HIDE DEF q, r
  <2>7. ASSUME NEW i \in 1 .. n
        PROVE  /\ q.inputs[i].s = pl.inputs[i].s /\ q.inputs[i].eof = pl.inputs[i].eof
               /\ q.inputs[i].rem = pl.inputs[i].rem /\ q.inputs[i].left = pl.inputs[i].left
    BY <1>3, <2>1, <2>4
  <2>8. Sound(q, sk, opened, faith)
    <3>1. Owned(pl, opened) => Owned(q, opened)
      BY <2>4, <2>7 DEF Owned
    <3>2. Early(pl) => Early(q)
      BY <2>4, <2>7 DEF Early, SameTimes
    <3>3. Silent(pl) => Silent(q)
      BY <2>4, <2>7 DEF Silent
    <3> QED BY <1>1, <2>4, <3>1, <3>2, <3>3 DEF Sound, SameTimes
  <2>9. Settled(q, sk, opened)
    <3>1. LastOpen(q)
      BY <1>1, <2>4, <2>7 DEF Settled, Listed, LastOpen
    <3>2. Formatted(q, sk)
      BY <1>1, <1>3, <2>4, <2>7 DEF Settled, Listed, Formatted
    <3>3. TimerSet(q)
      <4>1. 1 \in 1 .. n
        BY <1>2, <1>3
      <4>2. TimerSet(pl)
        BY <1>1 DEF Settled
      <4> QED BY <2>4, <2>7, <4>1, <4>2 DEF TimerSet, SameTimes
    <3> QED BY <1>1, <2>4, <3>1, <3>2, <3>3 DEF Settled, Listed
  <2>10. /\ SameTimes(q, p) /\ p.inputs = q.inputs /\ p.closed = q.closed /\ p.force
         /\ Sane(p)
    <3>1. q \in Players
      BY <2>4, SaneIs
    <3>2. /\ p \in Players /\ SameTimes(q, p) /\ p.inputs = q.inputs /\ p.closed = q.closed
          /\ p.force = TRUE /\ p.posUpd = q.posUpd
      BY <2>3, <3>1 DEF Players, SameTimes
    <3> QED BY <2>4, <3>2 DEF Sane, SameTimes
  <2> HIDE DEF p
  <2>11. Sound(p, k2, opened, faith) /\ Settled(p, k2, opened)
    <3>1. q.defer
      BY <1>0, <2>4
    <3> QED BY <1>2, <2>2, <2>8, <2>9, <2>10, <3>1, SameKeeps
  <2>12. Sane(r) /\ r.force /\ Sound(r, k2, opened, faith) /\ Settled(r, k2, opened)
    BY <1>1, <2>2, <2>10, <2>11, TimingKeeps DEF r
  <2>13. Holds(r, k2, NULL, "sinkdefer", opened, faith)
    BY <1>1, <2>2, <2>12 DEF Holds
  <2> QED BY <1>0, <1>1, <1>9, <2>6, <2>13, StepIs
\* The last input is at its end.
<1>10. CASE /\ space > 0 /\ rest = 0
            /\ LET p == [pl EXCEPT !.inputs[n] = [last EXCEPT !.pos = last.at, !.eof = TRUE,
                                                             !.rem = sk.buf, !.left = sk.buf],
                                   !.force = TRUE]
               IN pl' = TimingUpdate(StartTimer(p, sk), sk, FALSE)
            /\ asked' = [flush |-> FALSE, back |-> "sinkdefer"]
            /\ pc' = "next" /\ UNCHANGED sk
  <2> DEFINE x  == [last EXCEPT !.pos = last.at, !.eof = TRUE, !.rem = sk.buf, !.left = sk.buf]
             q  == [pl EXCEPT !.inputs[n] = x]
             p  == [q EXCEPT !.force = TRUE]
             p1 == [p EXCEPT !.tcUpd = now]
             c  == ContinueTimer(p1, sk)
             r  == TimingUpdate(c, sk, FALSE)
             a  == [flush |-> FALSE, back |-> "sinkdefer"]
  <2>1. /\ x \in InputType /\ x.s = last.s /\ x.at <= LengthOf(x.s)
        /\ x.eof /\ x.rem = sk.buf /\ x.left = sk.buf
    <3> DEFINE m == sk.buf
    <3>1. x = [last EXCEPT !.pos = last.at, !.eof = TRUE, !.rem = m, !.left = m]
      OBVIOUS
    <3>2. m \in Nat
      BY <1>5
    <3> HIDE DEF m, x
    <3>3. /\ x \in InputType /\ x.s = last.s /\ x.at = last.at
          /\ x.eof = TRUE /\ x.rem = m /\ x.left = m
      <4>1. last \in InputType /\ last.at \in Nat /\ m \in Int
        BY <1>3, <1>4, <3>2
      <4> QED BY ONLY <3>1, <3>2, <4>1 DEF InputType
    <3> QED BY <1>4, <3>3 DEF m
  <2> HIDE DEF x
  <2>2. /\ Sane(q) /\ SameTimes(pl, q) /\ Len(q.inputs) = n /\ q.inputs[n] = x
        /\ \A i \in 1 .. n : i # n => q.inputs[i] = pl.inputs[i]
        /\ q.closed = pl.closed /\ q.defer = pl.defer /\ q.force = pl.force
    BY <1>8, <2>1
  <2>3. p = [pl EXCEPT !.inputs[n] = x, !.force = TRUE]
    OBVIOUS
  <2>4. StartTimer(p, sk) = c
    BY DEF StartTimer
  <2>5. pl' = r /\ asked' = a
    BY <1>10, <2>3, <2>4 DEF x
  <2> HIDE DEF q, p, c, r
  <2>6. /\ Sane(p1) /\ p1.inputs = q.inputs /\ p1.closed = pl.closed /\ p1.paused = pl.paused
        /\ p1.tcUpd = now /\ p1.force /\ p1.defer
    <3>1. q \in Players
      BY <2>2, SaneIs
    <3>2. /\ p1 \in Players /\ p1.inputs = q.inputs /\ p1.closed = q.closed
          /\ p1.paused = q.paused /\ p1.tcUpd = now /\ p1.force = TRUE /\ p1.defer = q.defer
          /\ p1.posUpd = q.posUpd
      BY <1>1, <3>1 DEF p, Players
    <3> HIDE DEF p1
    <3>3. Sane(p1)
      BY <1>1, <2>2, <3>2 DEF Sane
    <3> QED BY <1>0, <2>2, <3>2, <3>3 DEF SameTimes
  <2> HIDE DEF p1
  <2>7. Sound(p1, sk, opened, faith)
    <3>1. \A i \in 1 .. n : p1.inputs[i].s = pl.inputs[i].s
      BY <1>3, <2>1, <2>2, <2>6
    <3>2. Owned(pl, opened) => Owned(p1, opened)
      BY <2>2, <2>6, <3>1 DEF Owned
    <3>3. Early(pl) => Early(p1)
      <4> SUFFICES ASSUME Early(pl), NEW i \in 1 .. n, p1.inputs[i].left > 0
                   PROVE  p1.inputs[i].rem - (now - p1.tcUpd) >= p1.inputs[i].left
        BY <2>2, <2>6 DEF Early
      <4>1. CASE i = n
        BY <1>1, <1>5, <2>1, <2>2, <2>6, <4>1
      <4>2. CASE i # n
        <5>1. p1.inputs[i] = pl.inputs[i]
          BY <2>2, <2>6, <4>2
        <5>2. pl.inputs[i].rem \in Int /\ pl.inputs[i].left \in Nat
          BY <1>3, ElementIs
        <5>3. pl.inputs[i].rem - (now - pl.tcUpd) >= pl.inputs[i].left
          BY <5>1 DEF Early
        <5> QED BY <1>1, <1>3, <2>6, <5>1, <5>2, <5>3
      <4> QED BY <4>1, <4>2
    <3> QED BY <1>1, <1>2, <2>6, <3>2, <3>3 DEF Sound
  <2>8. AllEnded(p1)
    <3>1. \A i \in 1 .. n : pl.inputs[i].eof <=> i < n
      BY <1>1 DEF Settled, Listed, LastOpen
    <3>2. \A i \in 1 .. n : i # n => i < n
      BY <1>3
    <3> QED BY <2>1, <2>2, <2>6, <3>1, <3>2 DEF AllEnded
  <2>9. Served(p1, c) /\ TimerSet(c)
    BY <1>1, <2>6, ContinueIs DEF c
  <2>10. Sane(r) /\ TimerSet(r) /\ r.force /\ Sound(r, sk, opened, faith) /\ AllEnded(r)
    BY <1>1, <2>6, <2>7, <2>8, <2>9, ServedThen DEF r
  <2>11. a \in Questions /\ a # NULL /\ a.back = "sinkdefer"
    <3>1. a \in Questions
      BY DEF Questions
    <3>2. a.back = "sinkdefer"
      OBVIOUS
    <3> HIDE DEF a
    <3> QED BY <3>1, <3>2
  <2> HIDE DEF a
  <2>12. Holds(r, sk, a, "next", opened, faith)
    BY <1>1, <2>10, <2>11 DEF Holds, Asking
  <2> QED BY <1>0, <1>1, <1>10, <2>5, <2>12, StepIs
\* The read fails.
<1>11. CASE pl' = [pl EXCEPT !.crashed = TRUE] /\ UNCHANGED <<sk, pc, asked>>
  <2> DEFINE q == [pl EXCEPT !.crashed = TRUE]
  <2>1. /\ q \in Players /\ SameTimes(pl, q) /\ q.inputs = pl.inputs /\ q.closed = pl.closed
        /\ q.defer = pl.defer /\ q.posUpd = pl.posUpd
    BY <1>3 DEF Players, SameTimes
  <2>2. pl' = q
    BY <1>11
  <2> HIDE DEF q
  <2>3. Sane(q)
    BY <1>1, <2>1 DEF Sane, SameTimes
  <2>4. Sound(q, sk, opened, faith) /\ Settled(q, sk, opened)
    BY <1>1, <2>1, SameKeeps
  <2>5. Holds(q, sk, NULL, "defer", opened, faith)
    BY <1>1, <2>1, <2>3, <2>4 DEF Holds
  <2> QED BY <1>0, <1>1, <1>11, <2>2, <2>5, StepIs
<1> QED BY <1>7, <1>9, <1>10, <1>11 DEF Provide, n, last, space, rest

-----------------------------------------------------------------------------
(* Tracks and the operations of the user.                                  *)

LEMMA LoadedKeeps ==
  ASSUME now \in Nat, NEW p, Sane(p), NEW k \in Sinks \cup {NULL}, NEW streams, NEW calm,
         Sound(p, k, streams, calm), NEW s \in Tracks, s \notin streams,
         NEW flush \in BOOLEAN, ~flush => AllEnded(p) /\ TimerSet(p), NEW q, Loaded(p, q, s, flush),
         NEW k2 \in Sinks \cup {NULL}, k = NULL => k2 = NULL /\ q.defer = p.defer,
         k # NULL => k2 # NULL /\ k2.fmt = FormatOf(s) /\ k2.cork = k.cork
  PROVE  /\ Sound(q, k2, streams \cup ({s} \ {NULL}), calm)
         /\ Settled(q, k2, streams \cup ({s} \ {NULL}))
<1> DEFINE more == streams \cup ({s} \ {NULL})
           n == IF flush THEN 0 ELSE Len(p.inputs)
<1>0. /\ Sane(q) /\ SameTimes(p, q) /\ (p.force => q.force)
      /\ q.closed = IF flush THEN p.closed \cup {p.inputs[i].s : i \in 1 .. Len(p.inputs)}
                    ELSE p.closed
      /\ Len(q.inputs) = n + 1
      /\ q.inputs[n + 1].s = s /\ ~q.inputs[n + 1].eof /\ q.inputs[n + 1].left = 0
      /\ ~flush => \A i \in 1 .. Len(p.inputs) : q.inputs[i] = p.inputs[i]
  BY DEF Loaded
<1>1. n \in Nat /\ Len(p.inputs) \in Nat /\ (~Fails => s \in Streams /\ s # NULL)
  BY SaneIs DEF Tracks
<1>2. \A i \in 1 .. n : ~flush /\ i \in 1 .. Len(p.inputs) /\ q.inputs[i] = p.inputs[i]
  BY <1>0, <1>1
<1>3. \A i \in 1 .. Len(q.inputs) : i = n + 1 \/ i \in 1 .. n
  BY <1>0, <1>1
<1>4. flush => n = 0
  OBVIOUS
<1>5. ~flush => n = Len(p.inputs)
  OBVIOUS
<1> HIDE DEF n
<1>6. ~Fails => Owned(q, more)
  <2> SUFFICES ASSUME ~Fails PROVE Owned(q, more)
    OBVIOUS
  <2>1. more = streams \cup {s}
    BY <1>1
  <2> HIDE DEF more
  <2>2. /\ \A i, j \in 1 .. Len(p.inputs) : p.inputs[i].s = p.inputs[j].s => i = j
        /\ \A i \in 1 .. Len(p.inputs) : p.inputs[i].s \in streams \ p.closed
        /\ \A t \in streams \ p.closed : \E i \in 1 .. Len(p.inputs) : p.inputs[i].s = t
        /\ p.closed \subseteq streams
    BY DEF Sound, Owned
  <2>3. CASE flush
    <3>1. q.closed = streams
      BY <1>0, <2>2, <2>3
    <3>2. Len(q.inputs) = 1 /\ q.inputs[1].s = s
      BY <1>0, <1>4, <2>3
    <3> QED BY <2>1, <3>1, <3>2 DEF Owned
  <2>4. CASE ~flush
    <3>1. q.closed = p.closed /\ n = Len(p.inputs)
      BY <1>0, <1>5, <2>4
    <3>2. \A i \in 1 .. n : q.inputs[i].s = p.inputs[i].s /\ q.inputs[i].s # s
      BY <1>2, <2>2
    <3>3. \A i, j \in 1 .. Len(q.inputs) : q.inputs[i].s = q.inputs[j].s => i = j
      BY <1>0, <1>3, <2>2, <3>1, <3>2, SMTT(40)
    <3>4. \A i \in 1 .. Len(q.inputs) : q.inputs[i].s \in more \ q.closed
      BY <1>0, <1>3, <2>1, <2>2, <3>1, <3>2, SMTT(20)
    <3>5. ASSUME NEW t \in more \ q.closed PROVE \E i \in 1 .. Len(q.inputs) : q.inputs[i].s = t
      <4>1. CASE t = s
        BY <1>0, <1>1, <4>1
      <4>2. CASE t # s
        <5>1. PICK i \in 1 .. Len(p.inputs) : p.inputs[i].s = t
          BY <2>1, <2>2, <3>1, <4>2
        <5>2. i \in 1 .. n /\ i \in 1 .. Len(q.inputs)
          BY <1>0, <1>1, <3>1
        <5> QED BY <3>2, <5>1, <5>2
      <4> QED BY <4>1, <4>2
    <3>6. q.closed \subseteq more
      BY <2>1, <2>2, <3>1
    <3> QED BY <3>3, <3>4, <3>5, <3>6 DEF Owned
  <2> QED BY <2>3, <2>4
<1>7. Early(p) => Early(q)
  <2> SUFFICES ASSUME Early(p), NEW i \in 1 .. Len(q.inputs), q.inputs[i].left > 0
               PROVE  q.inputs[i].rem - (now - q.tcUpd) >= q.inputs[i].left
    BY DEF Early
  <2>1. i \in 1 .. n
    BY <1>0, <1>3
  <2> QED BY <1>0, <1>2, <2>1 DEF Early, SameTimes
<1>8. Silent(p) => Silent(q)
  BY <1>0, <1>2, <1>3 DEF Silent
<1>9. Sound(q, k2, more, calm)
  BY <1>0, <1>6, <1>7, <1>8 DEF Sound, SameTimes
<1>10. LastOpen(q)
  <2>1. \A i \in 1 .. n : q.inputs[i].eof
    BY <1>2 DEF AllEnded
  <2>2. \A i \in 1 .. n : i < n + 1
    BY <1>1
  <2>3. ~(n + 1 < n + 1)
    BY <1>1
  <2> QED BY <1>0, <1>3, <2>1, <2>2, <2>3 DEF LastOpen
<1>11. Formatted(q, k2)
  BY <1>0, <1>1 DEF Formatted
<1>12. TimerSet(q)
  <2>1. CASE n = 0
    BY <1>0, <2>1 DEF TimerSet
  <2>2. CASE n # 0
    <3>1. 1 \in 1 .. n /\ ~flush /\ Len(p.inputs) > 0
      BY <1>1, <1>4, <1>5, <2>2
    <3>2. q.inputs[1] = p.inputs[1]
      BY <1>2, <3>1
    <3> QED BY <1>0, <3>1, <3>2 DEF TimerSet, SameTimes
  <2> QED BY <2>1, <2>2
<1>13. q.defer /\ ~Fails => k2.fmt # NULL
  <2>1. ~Fails => FormatOf(s) # NULL
    BY <1>1, FormatIs
  <2> QED BY <2>1 DEF Sound
<1>14. Len(q.inputs) > 0
  BY <1>0, <1>1
<1> QED BY <1>9, <1>10, <1>11, <1>12, <1>13, <1>14 DEF Settled, Listed

\* A stream that main opened is loaded.
LEMMA TrackKeeps ==
  ASSUME IInv, NEW s \in Tracks, NextTrack(s) \/ SetInput(s)
  PROVE  IInv'
<1>1. ASSUME NEW flush \in BOOLEAN, NEW want \in BOOLEAN, NEW back \in {"sinkdefer", "handle"},
             pc # "exited", s \notin opened, opened' = opened \cup ({s} \ {NULL}),
             ~flush => AllEnded(pl) /\ TimerSet(pl),
             back = "sinkdefer" => pl.force,
             pl' = InputLoad(pl, sk, s, flush, want).p, sk' = InputLoad(pl, sk, s, flush, want).k,
             pc' = back, asked' = NULL, now' = now, ops' \in 0 .. MaxOps, faith' = faith
      PROVE  IInv'
  <2> DEFINE r == InputLoad(pl, sk, s, flush, want)
             q == r.p
             k == r.k
  <2>1. /\ Sane(pl) /\ Sound(pl, sk, opened, faith) /\ now \in Nat
        /\ sk \in Sinks \cup {NULL} /\ opened \subseteq Streams /\ faith \in BOOLEAN
    BY <1>1, HereIs
  <2>2. s \in Tracked /\ opened' \subseteq Streams
    BY <1>1, <2>1 DEF Tracks, Tracked
  <2>3. /\ Loaded(pl, q, s, flush)
        /\ sk = NULL => k = NULL /\ q.defer = pl.defer
        /\ sk # NULL => k \in Sinks /\ k # NULL /\ k.fmt = FormatOf(s) /\ k.cork = sk.cork
    BY <2>1, <2>2, LoadIs
  <2>4. pl' = q /\ sk' = k
    BY <1>1
  <2> HIDE DEF q, k
  <2>5. k \in Sinks \cup {NULL}
    BY <2>3
  <2>6. Sound(q, k, opened', faith) /\ Settled(q, k, opened')
    BY <1>1, <2>1, <2>3, <2>5, LoadedKeeps
  <2>7. Sane(q) /\ (pl.force => q.force)
    BY <2>3 DEF Loaded
  <2>8. Holds(q, k, NULL, back, opened', faith)
    BY <1>1, <2>1, <2>2, <2>5, <2>6, <2>7 DEF Holds
  <2> QED BY <1>1, <2>4, <2>8, StepIs
<1>2. CASE NextTrack(s)
  <2>1. /\ pc = "next" /\ s \notin opened /\ opened' = opened \cup ({s} \ {NULL})
        /\ pc' = asked.back /\ asked' = NULL /\ UNCHANGED <<now, ops, faith>>
    BY <1>2 DEF NextTrack, At
  <2>2. PICK want \in BOOLEAN : /\ pl' = InputLoad(pl, sk, s, asked.flush, want).p
                                /\ sk' = InputLoad(pl, sk, s, asked.flush, want).k
    BY <1>2 DEF NextTrack
  <2>3. Asking(pl, asked) /\ asked \in Questions
    BY <2>1 DEF IInv, Holds
  <2>4. asked.flush \in BOOLEAN /\ asked.back \in {"sinkdefer", "handle"}
    BY <2>3 DEF Questions
  <2> QED BY <1>1, <2>1, <2>2, <2>3, <2>4, HereIs DEF Asking
<1>3. CASE SetInput(s)
  <2>1. /\ pc \in {"epoll", "handle"} /\ s \notin opened
        /\ opened' = opened \cup ({s} \ {NULL})
        /\ pc' = "handle" /\ UNCHANGED <<now, asked, faith>> /\ ops' = ops + 1 /\ ops < MaxOps
    BY <1>3 DEF SetInput, Operation, Event, At
  <2>2. PICK want \in BOOLEAN : /\ pl' = InputLoad(pl, sk, s, TRUE, want).p
                                /\ sk' = InputLoad(pl, sk, s, TRUE, want).k
    BY <1>3 DEF SetInput
  <2>3. asked' = NULL /\ ops' \in 0 .. MaxOps
    BY <2>1, HereIs
  <2> QED BY <1>1, <2>1, <2>2, <2>3
<1> QED BY <1>2, <1>3

LEMMA OperationIs ==
  ASSUME IInv, Operation
  PROVE  /\ pc \in {"epoll", "handle"} /\ asked = NULL /\ now' = now /\ ops' \in 0 .. MaxOps
         /\ Sane(pl) /\ Sound(pl, sk, opened, faith) /\ Settled(pl, sk, opened)
         /\ now \in Nat /\ sk \in Sinks \cup {NULL} /\ opened \subseteq Streams
         /\ faith \in BOOLEAN
<1>1. /\ pc \in {"epoll", "handle"} /\ now' = now /\ ops' = ops + 1 /\ ops < MaxOps
  BY DEF Operation, Event, At
<1>2. ops' \in 0 .. MaxOps
  BY <1>1, HereIs
<1> QED BY <1>1, <1>2, HereIs

\* The sink that is let go of drops what it held.
LEMMA LetGoIs ==
  ASSUME now \in Nat, NEW p, Sane(p), NEW k, NEW streams, NEW calm, Sound(p, k, streams, calm)
  PROVE  LET q == IF k = NULL THEN p ELSE [Silenced(p) EXCEPT !.defer = FALSE]
         IN /\ Sane(q) /\ SameTimes(p, q) /\ Quieted(p, q) /\ Shows(p, q)
            /\ q.closed = p.closed /\ ~q.defer
<1> DEFINE m == Silenced(p)
           r == [m EXCEPT !.defer = FALSE]
<1>1. CASE k = NULL
  <2>1. Silent(p) /\ ~p.defer
    BY <1>1 DEF Sound
  <2> QED BY <1>1, <2>1 DEF SameTimes, Quieted, Silent, Shows
<1>2. CASE k # NULL
  <2>1. Sane(m) /\ SameTimes(p, m) /\ Quieted(p, m) /\ Shows(p, m) /\ m.closed = p.closed
    BY SilencedIs
  <2> HIDE DEF m
  <2>2. m \in Players
    BY <2>1 DEF Sane
  <2>3. /\ r \in Players /\ SameTimes(m, r) /\ r.inputs = m.inputs /\ r.closed = m.closed
        /\ r.posUpd = m.posUpd /\ r.defer = FALSE /\ Shows(m, r)
    BY <2>2 DEF Players, SameTimes, Shows
  <2> HIDE DEF r
  <2>4. Sane(r) /\ SameTimes(p, r) /\ Quieted(p, r) /\ Shows(p, r)
    BY <2>1, <2>3 DEF Sane, SameTimes, Quieted, Shows
  <2> QED BY <1>2, <2>1, <2>3, <2>4 DEF m, r
<1> QED BY <1>1, <1>2

LEMMA SetSinkKeeps == ASSUME IInv, NEW on \in BOOLEAN, SetSink(on) PROVE IInv'
<1> DEFINE n == Len(pl.inputs)
           f == IF pl.inputs = <<>> THEN NULL ELSE FormatOf(Last(pl.inputs).s)
           p == IF sk = NULL THEN pl ELSE [Silenced(pl) EXCEPT !.defer = FALSE]
           q == IF on THEN OnFormat(p, NoFormat, f) ELSE p
           k == IF on THEN SetFormat(NoFormat, f) ELSE NULL
           calm == (faith /\ pl.inputs = <<>>)
<1>1. /\ pl' = q /\ sk' = k /\ faith' = calm /\ pc' = "handle" /\ asked' = asked
      /\ opened' = opened /\ Operation
  BY DEF SetSink
<1>2. /\ asked = NULL /\ now' = now /\ ops' \in 0 .. MaxOps
      /\ Sane(pl) /\ Sound(pl, sk, opened, faith) /\ Settled(pl, sk, opened)
      /\ now \in Nat /\ sk \in Sinks \cup {NULL} /\ opened \subseteq Streams
      /\ faith \in BOOLEAN
  BY <1>1, OperationIs
<1>3. n \in Nat /\ pl.inputs \in Seq(InputType) /\ (n > 0 => n \in 1 .. n)
  BY <1>2, SaneIs
<1>4. /\ n = 0 => f = NULL
      /\ n > 0 => f = FormatOf(pl.inputs[n].s)
      /\ f \in Formats \cup {NULL}
  <2>1. ASSUME n > 0 PROVE f = FormatOf(pl.inputs[n].s) /\ pl.inputs[n].s \in Tracked
    <3>1. pl.inputs # <<>>
      BY <2>1
    <3> QED BY <1>3, <2>1, <3>1, ElementIs DEF Last
  <2>2. n > 0 => FormatOf(pl.inputs[n].s) \in Formats \cup {NULL}
    BY <2>1, FormatIs DEF Tracked
  <2>3. n = 0 => f = NULL
    BY <1>3
  <2> QED BY <1>3, <2>1, <2>2, <2>3
<1>5. Sane(p) /\ SameTimes(pl, p) /\ Quieted(pl, p) /\ p.closed = pl.closed /\ ~p.defer
  BY <1>2, LetGoIs
<1>6. /\ NoFormat \in Sinks /\ NoFormat.cork = FALSE
      /\ k \in Sinks \cup {NULL} /\ (k # NULL => k.fmt = f /\ k.cork = FALSE)
  <2>1. NoFormat \in Sinks
    BY DEF NoFormat, Sinks
  <2>2. NoFormat.cork = FALSE
    BY DEF NoFormat
  <2>3. SetFormat(NoFormat, f) \in Sinks /\ SetFormat(NoFormat, f).fmt = f
        /\ SetFormat(NoFormat, f).cork = NoFormat.cork
    BY <1>4, <2>1, SinkIs
  <2> QED BY <2>1, <2>2, <2>3
<1>7. calm => faith /\ n = 0
  BY <1>3
<1> HIDE DEF f, p, k, calm
<1>8. Sane(q) /\ SameTimes(p, q) /\ q.inputs = p.inputs /\ q.closed = p.closed /\ ~q.defer
  BY <1>4, <1>5, <1>6, OnFormatIs DEF SameTimes
<1> HIDE DEF q
<1>9. /\ Len(q.inputs) = n /\ q.paused = pl.paused
      /\ \A i \in 1 .. n : /\ q.inputs[i].s = pl.inputs[i].s
                           /\ q.inputs[i].eof = pl.inputs[i].eof
                           /\ q.inputs[i].rem = pl.inputs[i].rem
                           /\ q.inputs[i].left = 0
  BY <1>5, <1>8 DEF Quieted, SameTimes
<1>10. Sound(q, k, opened, calm)
  <2>1. Owned(pl, opened) => Owned(q, opened)
    BY <1>5, <1>8, <1>9 DEF Owned
  <2>2. Early(q) /\ Silent(q)
    BY <1>9 DEF Early, Silent
  <2> QED BY <1>2, <1>6, <1>7, <1>8, <1>9, <2>1, <2>2 DEF Sound
<1>11. Settled(q, k, opened)
  <2>1. LastOpen(q)
    BY <1>2, <1>9 DEF Settled, Listed, LastOpen
  <2>2. Formatted(q, k)
    BY <1>3, <1>4, <1>6, <1>9 DEF Formatted
  <2>3. TimerSet(q)
    <3>1. TimerSet(pl)
      BY <1>2 DEF Settled
    <3>2. n > 0 => 1 \in 1 .. n
      BY <1>3
    <3> QED BY <1>5, <1>8, <1>9, <3>1, <3>2 DEF TimerSet, SameTimes
  <2> QED BY <1>2, <1>8, <1>9, <2>1, <2>2, <2>3 DEF Settled, Listed
<1>12. calm \in BOOLEAN
  BY DEF calm
<1>13. Holds(q, k, NULL, "handle", opened, calm)
  BY <1>2, <1>6, <1>8, <1>10, <1>11, <1>12 DEF Holds
<1> QED BY <1>1, <1>2, <1>13, StepIs

LEMMA ControlKeeps == ASSUME IInv, GotoNext \/ TogglePause \/ Stop PROVE IInv'
<1>1. Operation
  BY DEF GotoNext, TogglePause, Stop
<1>2. /\ asked = NULL /\ now' = now /\ ops' \in 0 .. MaxOps
      /\ Sane(pl) /\ Sound(pl, sk, opened, faith) /\ Settled(pl, sk, opened)
      /\ now \in Nat /\ sk \in Sinks \cup {NULL} /\ opened \subseteq Streams
      /\ faith \in BOOLEAN
  BY <1>1, OperationIs
<1>3. CASE GotoNext
  <2> DEFINE a == [flush |-> TRUE, back |-> "handle"]
  <2>1. asked' = a /\ pc' = "next" /\ UNCHANGED <<pl, sk, opened, faith>>
    BY <1>3 DEF GotoNext
  <2>2. a \in Questions /\ a.flush = TRUE /\ a.back = "handle"
    BY DEF Questions
  <2> HIDE DEF a
  <2>3. a # NULL
    BY <2>2
  <2>4. Holds(pl, sk, a, "next", opened, faith)
    BY <1>2, <2>2, <2>3 DEF Holds, Asking
  <2> QED BY <1>2, <2>1, <2>4, StepIs
<1>4. CASE TogglePause
  <2> DEFINE k == [sk EXCEPT !.cork = ~pl.paused]
  <2>1. /\ sk' = k /\ sk # NULL /\ faith' = FALSE /\ pc' = "handle"
        /\ UNCHANGED <<pl, asked, opened>>
    BY <1>4 DEF TogglePause
  <2>2. k \in Sinks /\ k.fmt = sk.fmt
    <3>1. (~pl.paused) \in BOOLEAN /\ sk \in Sinks
      BY <1>2, <2>1
    <3> QED BY <3>1 DEF Sinks
  <2> HIDE DEF k
  <2>3. k # NULL /\ SameTimes(pl, pl)
    BY <2>2 DEF SameTimes
  <2>4. Sound(pl, k, opened, FALSE) /\ Settled(pl, k, opened)
    BY <1>2, <2>1, <2>2, <2>3, SameKeeps
  <2>5. Holds(pl, k, NULL, "handle", opened, FALSE)
    BY <1>2, <2>2, <2>4 DEF Holds
  <2> QED BY <1>2, <2>1, <2>5, StepIs
<1>5. CASE Stop
  <2> DEFINE q == [pl EXCEPT !.defer = FALSE, !.crashed = @ \/ sk = NULL]
             k == IF sk = NULL THEN NULL ELSE SetFormat(sk, NULL)
  <2>1. /\ sk' = k /\ pl' = q /\ faith' = FALSE /\ pc' = "handle"
        /\ UNCHANGED <<asked, opened>>
    BY <1>5 DEF Stop
  <2>2. /\ k \in Sinks \cup {NULL} /\ (k = NULL <=> sk = NULL)
        /\ sk # NULL => k.fmt = NULL
    BY <1>2, SinkIs
  <2>3. /\ q \in Players /\ SameTimes(pl, q) /\ q.inputs = pl.inputs /\ q.closed = pl.closed
        /\ q.posUpd = pl.posUpd /\ q.defer = FALSE
    <3> DEFINE b == pl.crashed \/ sk = NULL
    <3>1. b \in BOOLEAN /\ pl \in Players /\ q = [pl EXCEPT !.defer = FALSE, !.crashed = b]
      BY <1>2 DEF Sane, Players
    <3> HIDE DEF b, q
    <3> QED BY <3>1 DEF Players, SameTimes
  <2> HIDE DEF k, q
  <2>4. Sane(q)
    BY <1>2, <2>3 DEF Sane, SameTimes
  <2>5. Sound(q, k, opened, FALSE) /\ Settled(q, k, opened)
    <3>1. Sound(pl, sk, opened, faith) /\ Settled(pl, sk, opened)
      BY <1>2
    <3> QED BY ONLY <2>2, <2>3, <3>1, SameKeeps
  <2>6. Holds(q, k, NULL, "handle", opened, FALSE)
    BY <1>2, <2>2, <2>4, <2>5 DEF Holds
  <2> QED BY <1>2, <2>1, <2>6, StepIs
<1> QED BY <1>3, <1>4, <1>5

\* The thread ends.
LEMMA ExitKeeps == ASSUME IInv, Exit PROVE IInv'
<1> DEFINE p == IF sk = NULL THEN pl ELSE [Silenced(pl) EXCEPT !.defer = FALSE]
           q == InputLoad(p, NULL, NULL, FALSE, FALSE).p
<1>1. /\ pl' = q /\ sk' = NULL /\ pc' = "exited" /\ Operation
      /\ UNCHANGED <<asked, opened, faith>>
  BY DEF Exit
<1>2. /\ asked = NULL /\ now' = now /\ ops' \in 0 .. MaxOps
      /\ Sane(pl) /\ Sound(pl, sk, opened, faith)
      /\ now \in Nat /\ sk \in Sinks \cup {NULL} /\ opened \subseteq Streams
      /\ faith \in BOOLEAN
  BY <1>1, OperationIs
<1>3. Sane(p)
  BY <1>2, LetGoIs
<1> HIDE DEF p
<1>4. Sane(q)
  <2>1. NULL \in Tracked /\ NULL \in Sinks \cup {NULL}
    BY DEF Tracked
  <2>2. Loaded(p, q, NULL, FALSE)
    BY <1>2, <1>3, <2>1, LoadIs
  <2> QED BY <2>2 DEF Loaded
<1> HIDE DEF q
<1>5. Holds(q, NULL, NULL, "exited", opened, faith)
  BY <1>2, <1>4 DEF Holds
<1> QED BY <1>1, <1>2, <1>5, StepIs

LEMMA SoughtIs ==
  ASSUME NEW x \in InputType, NEW pos \in Nat
  PROVE  LET y == Sought(x, pos)
         IN y \in InputType /\ y.s = x.s /\ y.pos = pos /\ y.at = pos /\ y.eof = FALSE /\ y.left = x.left
<1> DEFINE y == Sought(x, pos)
<1>1. y = [x EXCEPT !.pos = pos, !.at = pos, !.eof = FALSE]
  BY DEF Sought
<1> HIDE DEF y
<1>2. y \in InputType /\ y.s = x.s /\ y.pos = pos /\ y.at = pos /\ y.eof = FALSE /\ y.left = x.left
  BY <1>1 DEF InputType
<1> QED BY <1>2 DEF y

\* What a seek makes of the list: one input is kept of it.
Keeping(p, x) == [FreeAll(p) EXCEPT !.inputs = <<x>>, !.closed = @ \ {x.s}]

LEMMA KeptIs ==
  ASSUME NEW p, Sane(p), NEW i \in 1 .. Len(p.inputs), NEW pos \in Nat,
         pos <= LengthOf(p.inputs[i].s)
  PROVE  LET x == Sought(p.inputs[i], pos)
             q == Keeping(p, x)
         IN /\ Sane(q) /\ SameTimes(p, q) /\ Len(q.inputs) = 1 /\ q.inputs[1] = x
            /\ q.closed = (p.closed \cup {p.inputs[j].s : j \in 1 .. Len(p.inputs)}) \ {x.s}
            /\ q.defer = p.defer /\ Shows(p, q)
<1> DEFINE x    == Sought(p.inputs[i], pos)
           m    == FreeAll(p)
           one  == <<x>>
           left == m.closed \ {x.s}
           q    == Keeping(p, x)
<1>1. /\ Sane(m) /\ SameTimes(p, m) /\ Shows(p, m) /\ m.defer = p.defer
      /\ m.closed = p.closed \cup {p.inputs[j].s : j \in 1 .. Len(p.inputs)}
  BY FreeAllIs
<1>2. x \in InputType /\ x.s = p.inputs[i].s /\ x.at = pos
  <2>1. p.inputs[i] \in InputType
    BY SaneIs
  <2> QED BY <2>1, SoughtIs
<1> HIDE DEF x, m
<1>3. m \in Players /\ m.closed \in SUBSET Tracked
  BY <1>1 DEF Sane, Players
<1>4. one \in Seq(InputType) /\ Len(one) = 1 /\ one[1] = x /\ left \in SUBSET Tracked
  BY <1>2, <1>3
<1>5. q = [m EXCEPT !.inputs = one, !.closed = left]
  BY <1>3 DEF Players, Keeping, m
<1> HIDE DEF q, one, left
<1>6. /\ q \in Players /\ SameTimes(m, q) /\ q.inputs = one /\ q.closed = left
      /\ q.posUpd = m.posUpd /\ q.defer = m.defer /\ Shows(m, q)
  BY <1>3, <1>4, <1>5 DEF Players, SameTimes, Shows
<1>7. Sane(q)
  <2>1. \A j \in 1 .. Len(one) : one[j].at <= LengthOf(one[j].s)
    BY <1>2, <1>4
  <2> QED BY <1>1, <1>6, <2>1 DEF Sane, SameTimes
<1> QED BY <1>1, <1>4, <1>6, <1>7 DEF SameTimes, Shows, x, m, q, left

\* Of the list there is the one input that was the i-th, or none if the seek
\* went past the last; nothing of it is left in the sink.
Moved(q, k, i) ==
  /\ Sane(q) /\ SameTimes(pl, q) /\ Shows(pl, q) /\ Silent(q) /\ (sk = NULL => ~q.defer)
  /\ k \in Sinks \cup {NULL} /\ (k = NULL <=> sk = NULL)
  /\ sk # NULL => k.cork = sk.cork /\ k.buf = 0
  /\ \/ /\ Len(q.inputs) = 0
        /\ q.closed = pl.closed \cup {pl.inputs[j].s : j \in 1 .. Len(pl.inputs)}
     \/ /\ Len(q.inputs) = 1 /\ i \in 1 .. Len(pl.inputs) /\ q.inputs[1].s = pl.inputs[i].s
        /\ ~q.inputs[1].eof /\ q.inputs[1].pos = q.inputs[1].at
        /\ q.closed = (pl.closed \cup {pl.inputs[j].s : j \in 1 .. Len(pl.inputs)}) \ {q.inputs[1].s}
        /\ sk # NULL => k.fmt = FormatOf(q.inputs[1].s)

\* For that input the position is updated; without one main is asked.
Seeked(q, k) ==
  /\ sk' = k
  /\ \/ /\ Len(q.inputs) = 0 /\ pl' = q /\ pc' = "next"
        /\ asked' = [flush |-> TRUE, back |-> "handle"]
     \/ /\ Len(q.inputs) = 1 /\ pl' = TimingUpdate(PauseTimer(q, k), k, TRUE)
        /\ pc' = "handle" /\ asked' = asked

LEMMA SeekIs ==
  ASSUME IInv, NEW diff \in Seeks, Seek(diff)
  PROVE  \E q, k, i : Moved(q, k, i) /\ Seeked(q, k)
<1> DEFINE n     == Len(pl.inputs)
           first == Head(pl.inputs)
           pos   == Positive(first.at + diff - Latency(sk))
           past  == pos >= LengthOf(first.s)
           gone  == past /\ Len(pl.inputs) = 1
           kept  == IF past THEN Sought(pl.inputs[2], 0) ELSE Sought(first, pos)
           p     == IF gone THEN FreeAll(pl)
                    ELSE [FreeAll(pl) EXCEPT !.inputs = <<kept>>, !.closed = @ \ {kept.s}]
           f     == IF gone THEN NULL ELSE FormatOf(kept.s)
           k     == IF sk = NULL THEN NULL ELSE Flush(sk, f)
<1>1. Operation /\ UNCHANGED <<opened, faith>> /\ pl.inputs # <<>>
  BY DEF Seek
<1>2. /\ asked = NULL /\ now' = now /\ ops' \in 0 .. MaxOps
      /\ Sane(pl) /\ Sound(pl, sk, opened, faith) /\ Settled(pl, sk, opened)
      /\ now \in Nat /\ sk \in Sinks \cup {NULL} /\ opened \subseteq Streams
      /\ faith \in BOOLEAN
  BY <1>1, OperationIs
<1>3. PICK want \in BOOLEAN :
        LET q == IF sk = NULL THEN p ELSE OnFlush(p, sk, f, want)
        IN /\ sk' = k
           /\ \/ /\ gone
                 /\ pl' = q
                 /\ asked' = [flush |-> TRUE, back |-> "handle"]
                 /\ pc' = "next"
              \/ /\ ~gone
                 /\ pl' = TimingUpdate(PauseTimer(q, sk'), sk', TRUE)
                 /\ pc' = "handle"
                 /\ UNCHANGED asked
  BY DEF Seek
<1>4. /\ pl.inputs \in Seq(InputType) /\ n \in Nat /\ n > 0 /\ 1 \in 1 .. n
      /\ first = pl.inputs[1]
  BY <1>1, <1>2, SaneIs
<1>5. pos \in Nat
  <2>1. first.at \in Nat
    BY <1>4, ElementIs
  <2>2. Latency(sk) \in Nat
    BY <1>2 DEF Latency, Sinks
  <2>3. diff \in Int
    OBVIOUS
  <2>4. first.at + diff - Latency(sk) \in Int
    BY <2>1, <2>2, <2>3
  <2> QED BY <2>4, PositiveIs
\* The input that is kept, and the sink.
<1>6. ~gone => \E i \in 1 .. n :
        /\ kept.s = pl.inputs[i].s /\ ~kept.eof /\ kept.left = pl.inputs[i].left /\ kept.pos = kept.at
        /\ Sane(p) /\ SameTimes(pl, p) /\ Shows(pl, p) /\ Len(p.inputs) = 1 /\ p.inputs[1] = kept
        /\ p.closed = (pl.closed \cup {pl.inputs[j].s : j \in 1 .. n}) \ {kept.s}
        /\ p.defer = pl.defer
  <2>1. ~gone => p = Keeping(pl, kept)
    BY DEF Keeping
  <2>2. /\ past => kept = Sought(pl.inputs[2], 0)
        /\ ~past => kept = Sought(first, pos) /\ ~(pos >= LengthOf(first.s))
        /\ ~gone /\ past => n # 1
    OBVIOUS
  <2> HIDE DEF first, pos, past, gone, kept, p, f, k
  <2>3. ASSUME ~gone, NEW i \in 1 .. n, NEW at \in Nat, kept = Sought(pl.inputs[i], at),
               at <= LengthOf(pl.inputs[i].s)
        PROVE  /\ kept.s = pl.inputs[i].s /\ ~kept.eof /\ kept.left = pl.inputs[i].left
               /\ kept.pos = kept.at
               /\ Sane(p) /\ SameTimes(pl, p) /\ Shows(pl, p) /\ Len(p.inputs) = 1 /\ p.inputs[1] = kept
               /\ p.closed = (pl.closed \cup {pl.inputs[j].s : j \in 1 .. n}) \ {kept.s}
               /\ p.defer = pl.defer
    <3>1. pl.inputs[i] \in InputType
      BY <1>4, ElementIs
    <3>2. /\ kept.s = pl.inputs[i].s /\ ~kept.eof /\ kept.left = pl.inputs[i].left
          /\ kept.pos = kept.at
      <4> DEFINE x == pl.inputs[i]
                 y == Sought(x, at)
      <4>1. y.s = x.s /\ y.pos = at /\ y.at = at /\ y.eof = FALSE /\ y.left = x.left
        BY <3>1, SoughtIs, Zenon
      <4>2. kept = y
        BY <2>3
      <4> HIDE DEF x, y
      <4>3. kept.s = x.s /\ ~kept.eof /\ kept.left = x.left /\ kept.pos = kept.at
        BY ONLY <4>1, <4>2
      <4> QED BY <4>3 DEF x
    <3>3. LET x == Sought(pl.inputs[i], at)
              q == Keeping(pl, x)
          IN /\ Sane(q) /\ SameTimes(pl, q) /\ Len(q.inputs) = 1 /\ q.inputs[1] = x
             /\ q.closed = (pl.closed \cup {pl.inputs[j].s : j \in 1 .. n}) \ {x.s}
             /\ q.defer = pl.defer /\ Shows(pl, q)
      BY <1>2, <2>3, KeptIs, ZenonT(60)
    <3>4. p = Keeping(pl, kept)
      BY <2>1, <2>3
    <3> QED BY ONLY <2>3, <3>2, <3>3, <3>4
  <2>4. ASSUME ~gone, past PROVE \E i \in 1 .. n : kept = Sought(pl.inputs[i], 0)
    <3>1. 2 \in 1 .. n
      <4>1. n \in Nat /\ n > 0 /\ n # 1
        BY <1>4, <2>2, <2>4
      <4> HIDE DEF n
      <4> QED BY ONLY <4>1
    <3> QED BY <2>2, <2>4, <3>1
  <2>5. \A i \in 1 .. n : LengthOf(pl.inputs[i].s) \in Nat
    BY <1>4, ElementIs, LengthIs DEF Tracked
  <2>6. CASE past
    <3>1. \A i \in 1 .. n : 0 <= LengthOf(pl.inputs[i].s)
      BY <2>5
    <3> QED BY <2>3, <2>4, <2>6, <3>1
  <2>7. CASE ~past
    <3>1. pos <= LengthOf(pl.inputs[1].s) /\ kept = Sought(pl.inputs[1], pos)
      BY <1>4, <1>5, <2>2, <2>5, <2>7
    <3> QED BY <1>4, <1>5, <2>3, <3>1
  <2> QED BY <2>6, <2>7
<1>7. gone => /\ Sane(p) /\ SameTimes(pl, p) /\ Shows(pl, p) /\ p.inputs = <<>> /\ p.defer = pl.defer
              /\ p.closed = pl.closed \cup {pl.inputs[j].s : j \in 1 .. n}
  BY <1>2, FreeAllIs
<1>8. f \in Formats \cup {NULL}
  <2>1. ~gone => kept.s \in Tracked
    BY <1>4, <1>6, ElementIs
  <2> HIDE DEF kept, gone
  <2> QED BY <2>1, FormatIs DEF Tracked
<1> HIDE DEF kept, gone, past, pos, p, f
<1> DEFINE q == IF sk = NULL THEN p ELSE OnFlush(p, sk, f, want)
<1>9. Sane(p) /\ SameTimes(pl, p) /\ Shows(pl, p) /\ p.defer = pl.defer
  BY <1>6, <1>7
<1>10. /\ Sane(q) /\ SameTimes(pl, q) /\ Shows(pl, q) /\ Quieted(p, q) /\ q.closed = p.closed
       /\ sk = NULL => ~q.defer
  <2>1. CASE sk = NULL
    <3>1. Silent(pl) /\ ~pl.defer
      BY <1>2, <2>1 DEF Sound
    <3>2. Silent(p)
      BY <1>6, <1>7, <3>1 DEF Silent
    <3> QED BY <1>9, <2>1, <3>1, <3>2 DEF Quieted, Silent, SameTimes, Shows
  <2>2. CASE sk # NULL
    <3>1. sk \in Sinks
      BY <1>2, <2>2
    <3>2. LET r == OnFlush(p, sk, f, want)
          IN Sane(r) /\ SameTimes(p, r) /\ Shows(p, r) /\ Quieted(p, r) /\ r.closed = p.closed
      BY <1>8, <1>9, <3>1, OnFlushIs
    <3> QED BY <1>9, <2>2, <3>2 DEF SameTimes, Shows
  <2> QED BY <2>1, <2>2
<1>11. /\ k \in Sinks \cup {NULL} /\ (k = NULL <=> sk = NULL)
       /\ sk # NULL => k.fmt = f /\ k.cork = sk.cork /\ k.buf = 0
  BY <1>2, <1>8, SinkIs
<1>12. q.inputs \in Seq(InputType) /\ Len(q.inputs) = Len(p.inputs) /\ Silent(q)
  BY <1>10, SaneIs DEF Quieted, Silent
<1>13. sk' = k /\ \/ /\ gone /\ pl' = q /\ pc' = "next"
                     /\ asked' = [flush |-> TRUE, back |-> "handle"]
                  \/ /\ ~gone /\ pl' = TimingUpdate(PauseTimer(q, k), k, TRUE)
                     /\ pc' = "handle" /\ asked' = asked
  BY <1>3
<1> HIDE DEF q, k
<1>14. CASE gone
  <2>1. Len(q.inputs) = 0 /\ q.closed = pl.closed \cup {pl.inputs[j].s : j \in 1 .. n}
    BY <1>7, <1>10, <1>12, <1>14
  <2>2. Moved(q, k, 1)
    BY <1>10, <1>11, <1>12, <2>1 DEF Moved
  <2>3. Seeked(q, k)
    BY <1>13, <1>14, <2>1 DEF Seeked
  <2> QED BY <2>2, <2>3
<1>15. CASE ~gone
  <2>1. PICK i \in 1 .. n :
          /\ kept.s = pl.inputs[i].s /\ ~kept.eof /\ kept.pos = kept.at
          /\ Len(p.inputs) = 1 /\ p.inputs[1] = kept
          /\ p.closed = (pl.closed \cup {pl.inputs[j].s : j \in 1 .. n}) \ {kept.s}
    BY <1>6, <1>15
  <2>2. /\ Len(q.inputs) = 1 /\ q.inputs[1].s = kept.s /\ ~q.inputs[1].eof
        /\ q.inputs[1].pos = q.inputs[1].at /\ q.closed = p.closed
    BY <1>10, <2>1 DEF Quieted
  <2>3. f = FormatOf(kept.s)
    BY <1>15 DEF f
  <2>4. Moved(q, k, i)
    BY <1>10, <1>11, <1>12, <2>1, <2>2, <2>3 DEF Moved
  <2>5. Seeked(q, k)
    BY <1>13, <1>15, <2>2 DEF Seeked
  <2> QED BY <2>4, <2>5
<1> QED BY <1>14, <1>15

LEMMA SeekKeeps == ASSUME IInv, NEW diff \in Seeks, Seek(diff) PROVE IInv'
<1> DEFINE n == Len(pl.inputs)
<1>1. Operation /\ UNCHANGED <<opened, faith>>
  BY DEF Seek
<1>2. /\ asked = NULL /\ now' = now /\ ops' \in 0 .. MaxOps
      /\ Sane(pl) /\ Sound(pl, sk, opened, faith)
      /\ now \in Nat /\ sk \in Sinks \cup {NULL} /\ opened \subseteq Streams
      /\ faith \in BOOLEAN
  BY <1>1, OperationIs
<1>3. PICK q, k, i : Moved(q, k, i) /\ Seeked(q, k)
  BY SeekIs
<1>4. /\ Sane(q) /\ SameTimes(pl, q) /\ Silent(q) /\ (sk = NULL => ~q.defer)
      /\ k \in Sinks \cup {NULL} /\ (k = NULL <=> sk = NULL)
      /\ sk # NULL => k.cork = sk.cork
      /\ sk' = k
  BY <1>3 DEF Moved, Seeked
<1>5. Owned(pl, opened) => Owned(q, opened)
  <2> SUFFICES ASSUME Owned(pl, opened) PROVE Owned(q, opened)
    OBVIOUS
  <2>1. /\ \A m \in 1 .. n : pl.inputs[m].s \in opened
        /\ \A s \in opened \ pl.closed : \E m \in 1 .. n : pl.inputs[m].s = s
        /\ pl.closed \subseteq opened
    BY DEF Owned
  <2>2. pl.closed \cup {pl.inputs[j].s : j \in 1 .. n} = opened
    BY <2>1
  <2>3. CASE Len(q.inputs) = 0
    <3>1. Len(q.inputs) # 1
      BY <2>3
    <3>2. q.closed = pl.closed \cup {pl.inputs[j].s : j \in 1 .. n}
      BY <1>3, <3>1, Zenon DEF Moved
    <3>3. q.closed = opened
      BY ONLY <2>2, <3>2
    <3> QED BY <2>3, <3>3 DEF Owned
  <2>4. CASE Len(q.inputs) = 1
    <3>1. q.closed = opened \ {q.inputs[1].s} /\ q.inputs[1].s \in opened
      BY <1>3, <2>1, <2>2, <2>4 DEF Moved
    <3> QED BY <2>4, <3>1 DEF Owned
  <2> QED BY <1>3, <2>3, <2>4 DEF Moved
<1>6. Sound(q, k, opened, faith)
  <2>1. Early(q)
    BY <1>4 DEF Silent, Early
  <2> QED BY <1>2, <1>4, <1>5, <2>1 DEF Sound, SameTimes
<1>7. CASE Len(q.inputs) = 0
  <2> DEFINE a == [flush |-> TRUE, back |-> "handle"]
  <2>1. a \in Questions /\ a.flush = TRUE /\ a.back = "handle"
    BY DEF Questions
  <2>2. pl' = q /\ pc' = "next" /\ asked' = a
    BY <1>3, <1>7 DEF Seeked
  <2> HIDE DEF a
  <2>3. a # NULL
    BY <2>1
  <2>4. Holds(q, k, a, "next", opened, faith)
    BY <1>2, <1>4, <1>6, <2>1, <2>3 DEF Holds, Asking
  <2> QED BY <1>1, <1>2, <1>4, <2>2, <2>4, StepIs
<1>8. CASE Len(q.inputs) = 1
  <2> DEFINE r == TimingUpdate(PauseTimer(q, k), k, TRUE)
  <2>1. /\ ~q.inputs[1].eof
        /\ sk # NULL => k.fmt = FormatOf(q.inputs[1].s)
    BY <1>3, <1>8 DEF Moved
  <2>2. Listed(q, k, opened)
    <3>1. LastOpen(q)
      BY <1>8, <2>1 DEF LastOpen
    <3>2. Formatted(q, k)
      BY <1>4, <1>8, <2>1 DEF Formatted
    <3>3. q.defer /\ ~Fails => k.fmt # NULL
      <4> SUFFICES ASSUME q.defer, ~Fails PROVE k.fmt # NULL
        OBVIOUS
      <4>1. q.inputs[1].s \in Streams
        <5>1. Owned(q, opened)
          BY <1>6 DEF Sound
        <5> QED BY <1>2, <1>8, <5>1 DEF Owned
      <4> QED BY <1>4, <2>1, <4>1, FormatIs
    <3> QED BY <1>8, <3>1, <3>2, <3>3 DEF Listed
  <2>3. Served(q, PauseTimer(q, k)) /\ TimerSet(PauseTimer(q, k))
    BY <1>2, <1>4, PauseIs
  <2>4. Sane(r) /\ Sound(r, k, opened, faith) /\ Settled(r, k, opened)
    <3> DEFINE m == PauseTimer(q, k)
    <3> HIDE DEF m
    <3>1. Served(q, m) /\ TimerSet(m)
      BY <2>3 DEF m
    <3>2. LET t == TimingUpdate(m, k, TRUE)
          IN Sane(t) /\ Sound(t, k, opened, faith) /\ Settled(t, k, opened)
      BY <1>2, <1>4, <1>6, <2>2, <3>1, ServedThen
    <3> QED BY <3>2 DEF m
  <2>5. pl' = r /\ pc' = "handle" /\ asked' = NULL
    BY <1>2, <1>3, <1>8 DEF Seeked
  <2> HIDE DEF r
  <2>6. Holds(r, k, NULL, "handle", opened, faith)
    BY <1>2, <1>4, <2>4 DEF Holds
  <2> QED BY <1>1, <1>2, <1>4, <2>5, <2>6, StepIs
<1> QED BY <1>3, <1>7, <1>8 DEF Moved

-----------------------------------------------------------------------------
(* Time passes.                                                            *)

LEMMA PlayedIs ==
  ASSUME NEW p, Sane(p)
  PROVE  LET q == Played(p)
         IN /\ Sane(q) /\ SameTimes(p, q) /\ Shows(p, q) /\ q.closed = p.closed
            /\ q.defer = p.defer /\ q.force = p.force /\ Len(q.inputs) = Len(p.inputs)
            /\ \A i \in 1 .. Len(p.inputs) :
                 /\ q.inputs[i].s = p.inputs[i].s /\ q.inputs[i].eof = p.inputs[i].eof
                 /\ q.inputs[i].rem = p.inputs[i].rem /\ q.inputs[i].pos = p.inputs[i].pos
                 /\ q.inputs[i].at = p.inputs[i].at
                 /\ q.inputs[i].left = Positive(p.inputs[i].left - 1)
<1> DEFINE less == [i \in DOMAIN p.inputs |-> [p.inputs[i] EXCEPT !.left = Positive(p.inputs[i].left - 1)]]
           q == Played(p)
<1>0. /\ p \in Players /\ p.inputs \in Seq(InputType) /\ Len(p.inputs) \in Nat
      /\ DOMAIN p.inputs = 1 .. Len(p.inputs)
  BY SaneIs
<1>1. ASSUME NEW i \in 1 .. Len(p.inputs)
      PROVE  /\ less[i] \in InputType /\ less[i].s = p.inputs[i].s
             /\ less[i].left = Positive(p.inputs[i].left - 1)
             /\ less[i].eof = p.inputs[i].eof /\ less[i].rem = p.inputs[i].rem
             /\ less[i].at = p.inputs[i].at /\ less[i].pos = p.inputs[i].pos
  <2> DEFINE x == p.inputs[i]
             m == Positive(x.left - 1)
  <2>1. x \in InputType /\ x.left \in Nat
    BY <1>0, ElementIs
  <2>2. m \in Nat
    <3>1. x.left - 1 \in Int
      BY <2>1
    <3> QED BY <3>1, PositiveIs
  <2>3. less[i] = [x EXCEPT !.left = m]
    <3>1. less[i] = [x EXCEPT !.left = Positive(x.left - 1)]
      BY <1>0
    <3> HIDE DEF less
    <3> QED BY <2>1, <3>1 DEF InputType
  <2> HIDE DEF less, x, m
  <2>4. /\ less[i] \in InputType /\ less[i].s = x.s /\ less[i].left = m
        /\ less[i].eof = x.eof /\ less[i].rem = x.rem /\ less[i].at = x.at
        /\ less[i].pos = x.pos
    BY <2>1, <2>2, <2>3 DEF InputType
  <2> QED BY <2>4 DEF x, m
<1>2. less \in Seq(InputType) /\ Len(less) = Len(p.inputs)
  <2>1. less = [i \in 1 .. Len(p.inputs) |-> less[i]]
    BY <1>0
  <2> HIDE DEF less
  <2>2. less \in [1 .. Len(p.inputs) -> InputType]
    BY <1>1, <2>1
  <2> QED BY <1>0, <2>2
<1>3. q = [p EXCEPT !.inputs = less]
  BY <1>0 DEF Played, Players
<1> HIDE DEF q, less
<1>4. /\ q \in Players /\ SameTimes(p, q) /\ q.inputs = less /\ q.closed = p.closed
      /\ q.posUpd = p.posUpd /\ q.defer = p.defer /\ q.force = p.force
      /\ Shows(p, q)
  BY <1>0, <1>2, <1>3 DEF Players, SameTimes, Shows
<1>5. Sane(q)
  <2>1. \A i \in 1 .. Len(less) : less[i].at <= LengthOf(less[i].s)
    BY <1>1, <1>2, SaneIs
  <2> QED BY <1>4, <2>1 DEF Sane, SameTimes
<1> QED BY <1>1, <1>2, <1>4, <1>5 DEF q

LEMMA TickKeeps == ASSUME IInv, Tick PROVE IInv'
<1> DEFINE plays == sk # NULL /\ ~sk.cork /\ sk.buf > 0
           k == IF plays THEN [sk EXCEPT !.buf = @ - 1] ELSE sk
           q == IF plays THEN Played(pl) ELSE pl
           calm == (faith /\ (plays \/ pl.inputs = <<>>))
           n == Len(pl.inputs)
<1>1. /\ pc \in {"next", "epoll"} /\ now < MaxTime /\ now' = now + 1
      /\ sk' = k /\ pl' = q /\ faith' = calm /\ UNCHANGED <<pc, asked, opened, ops>>
  BY DEF Tick, At
<1>2. /\ now \in Nat /\ ops \in 0 .. MaxOps /\ Sane(pl) /\ sk \in Sinks \cup {NULL}
      /\ opened \subseteq Streams /\ faith \in BOOLEAN /\ Sound(pl, sk, opened, faith)
  BY <1>1, HereIs
<1>3. now' \in 0 .. MaxTime /\ now <= now'
  BY <1>1, <1>2
<1>4. /\ k \in Sinks \cup {NULL} /\ (k = NULL <=> sk = NULL)
      /\ sk # NULL => k.fmt = sk.fmt /\ k.cork = sk.cork
  <2>1. ASSUME plays PROVE [sk EXCEPT !.buf = @ - 1] \in Sinks
                           /\ [sk EXCEPT !.buf = @ - 1].fmt = sk.fmt
                           /\ [sk EXCEPT !.buf = @ - 1].cork = sk.cork
    <3> DEFINE m == sk.buf - 1
    <3>1. sk \in Sinks /\ sk.buf \in 0 .. Capacity /\ sk.buf > 0
      BY <1>2, <2>1 DEF Sinks
    <3>2. m \in 0 .. Capacity
      BY <3>1
    <3>3. [sk EXCEPT !.buf = @ - 1] = [sk EXCEPT !.buf = m]
      BY <3>1 DEF Sinks
    <3> HIDE DEF m
    <3>4. [sk EXCEPT !.buf = m] \in Sinks /\ [sk EXCEPT !.buf = m].fmt = sk.fmt
          /\ [sk EXCEPT !.buf = m].cork = sk.cork
      BY <3>1, <3>2 DEF Sinks
    <3> QED BY <3>3, <3>4
  <2> HIDE DEF plays
  <2>2. CASE plays
    <3>1. k \in Sinks /\ k.fmt = sk.fmt /\ k.cork = sk.cork
      BY <2>1, <2>2
    <3>2. sk # NULL
      BY <2>2 DEF plays
    <3> HIDE DEF k
    <3> QED BY <3>1, <3>2
  <2>3. CASE ~plays
    BY <1>2, <2>3
  <2> QED BY <2>2, <2>3
<1>5. /\ Sane(q) /\ SameTimes(pl, q) /\ q.closed = pl.closed
      /\ q.defer = pl.defer /\ q.force = pl.force /\ Len(q.inputs) = n
      /\ \A i \in 1 .. n :
           /\ q.inputs[i].s = pl.inputs[i].s /\ q.inputs[i].eof = pl.inputs[i].eof
           /\ q.inputs[i].rem = pl.inputs[i].rem
           /\ plays => q.inputs[i].left = Positive(pl.inputs[i].left - 1)
           /\ ~plays => q.inputs[i].left = pl.inputs[i].left
  BY <1>2, PlayedIs DEF SameTimes
<1>6. n \in Nat /\ (calm => faith /\ (plays \/ n = 0)) /\ (plays => sk # NULL)
  BY <1>2, SaneIs
<1>7. calm \in BOOLEAN
  OBVIOUS
<1> HIDE DEF plays, k, q, calm
<1>8. Sane(pl)'
  <2>1. /\ q \in Players /\ q.posUpd <= now /\ q.tcUpd <= now /\ q.posUpd \in Nat /\ q.tcUpd \in Nat
        /\ \A i \in 1 .. Len(q.inputs) : q.inputs[i].at <= LengthOf(q.inputs[i].s)
    BY <1>5, SaneIs
  <2> QED BY <1>1, <1>2, <1>3, <2>1 DEF Sane
<1>9. Sound(pl, sk, opened, faith)'
  <2>1. Owned(pl, opened) => Owned(q, opened)
    BY <1>5 DEF Owned
  <2>2. Silent(pl) /\ ~plays => Silent(q)
    BY <1>5 DEF Silent
  <2>3. calm /\ Early(pl) => Early(pl)'
    <3> SUFFICES ASSUME calm, Early(pl), NEW i \in 1 .. n, q.inputs[i].left > 0
                 PROVE  q.inputs[i].rem - (now' - q.tcUpd) >= q.inputs[i].left
      BY <1>1, <1>5 DEF Early
    <3>1. plays
      BY <1>6
    <3>2. /\ pl.inputs[i].left \in Nat /\ pl.inputs[i].rem \in Int
          /\ pl.tcUpd \in Nat
      BY <1>2, LeftIs, SaneIs, ElementIs
    <3>3. q.inputs[i].left = pl.inputs[i].left - 1 /\ pl.inputs[i].left > 0
      BY <1>5, <3>1, <3>2 DEF Positive
    <3>4. pl.inputs[i].rem - (now - pl.tcUpd) >= pl.inputs[i].left
      BY <3>3 DEF Early
    <3>5. q.inputs[i].rem = pl.inputs[i].rem /\ q.tcUpd = pl.tcUpd
      BY <1>5 DEF SameTimes
    <3> QED BY <1>1, <1>2, <3>2, <3>3, <3>4, <3>5, SMTT(20)
  <2>4. calm => ~q.paused /\ (k # NULL => ~k.cork)
    BY <1>2, <1>4, <1>5, <1>6 DEF Sound, SameTimes
  <2>5. q.defer => k # NULL
    BY <1>2, <1>4, <1>5 DEF Sound
  <2>6. k = NULL => Silent(q)
    BY <1>2, <1>4, <1>6, <2>2 DEF Sound
  <2>7. Fails \/ Owned(q, opened)
    BY <1>2, <2>1 DEF Sound
  <2>8. calm => Early(pl)'
    BY <1>2, <1>6, <2>3 DEF Sound
  <2> QED BY <1>1, <2>4, <2>5, <2>6, <2>7, <2>8 DEF Sound
<1>10. TimerSet(pl) => TimerSet(q)
  <2>1. n > 0 => 1 \in 1 .. n
    BY <1>6
  <2> QED BY <1>5, <2>1 DEF TimerSet, SameTimes
<1>11. AllEnded(pl) => AllEnded(q)
  BY <1>5 DEF AllEnded
<1>12. Settled(pl, sk, opened) => Settled(q, k, opened)
  <2> SUFFICES ASSUME Settled(pl, sk, opened) PROVE Settled(q, k, opened)
    OBVIOUS
  <2>1. LastOpen(q)
    BY <1>5 DEF Settled, Listed, LastOpen
  <2>2. Formatted(q, k)
    <3>1. n > 0 => n \in 1 .. n
      BY <1>6
    <3> QED BY <1>4, <1>5, <3>1 DEF Settled, Listed, Formatted
  <2>3. q.defer /\ ~Fails => k.fmt # NULL
    BY <1>2, <1>4, <1>5 DEF Settled, Listed, Sound
  <2> QED BY <1>5, <1>10, <2>1, <2>2, <2>3 DEF Settled, Listed
<1>13. pc = "next" => Asking(q, asked)
  <2>1. pc = "next" => Asking(pl, asked)
    BY DEF IInv, Holds
  <2> QED BY <1>5, <1>10, <1>11, <2>1 DEF Asking
<1>14. /\ asked \in Questions \cup {NULL} /\ (pc = "next" <=> asked # NULL)
       /\ pc = "epoll" => Settled(pl, sk, opened) /\ (pl.defer => pl.force)
  BY <1>1 DEF IInv, Holds
<1>15. Holds(pl, sk, asked, pc, opened, faith)'
  BY <1>1, <1>2, <1>4, <1>5, <1>7, <1>8, <1>9, <1>12, <1>13, <1>14 DEF Holds
<1> QED BY <1>1, <1>2, <1>3, <1>15 DEF IInv

-----------------------------------------------------------------------------
(* The position that is shown.                                             *)

\* Between two callbacks the position is behind what is heard; before the
\* first track there is none.
Shown(p, k, c, calm) ==
  /\ Timed(p)
  /\ c # "exited" /\ calm => Fitting(p, k)
  /\ c \notin {"next", "exited"} =>
       /\ calm => Behind(p, k) /\ Advanced(p, k)
       /\ Len(p.inputs) = 0 => p.toldPos \in {NULL, 0} /\ p.posTimer = NULL

JInv == Shown(pl, sk, pc, faith)

\* What is told does not go back while the list holds the same streams.
Told(p, q) == Rises(p, q) \/ StreamsOf(p.inputs) # StreamsOf(q.inputs)

LEMMA ShownStep ==
  ASSUME now' = now, NEW p, NEW k, NEW c, NEW calm,
         p = pl', k = sk', c = pc', calm = faith', Shown(p, k, c, calm)
  PROVE  JInv'
<1>1. Timed(p) => Timed(pl)'
  BY DEF Timed
<1>2. Fitting(p, k) => Fitting(pl, sk)'
  BY DEF Fitting, Early, Ranged, Before, Room
<1>3. Behind(p, k) => Behind(pl, sk)'
  BY DEF Behind, Unheard
<1>4. Advanced(p, k) => Advanced(pl, sk)'
  BY DEF Advanced, Believed, Left
<1> QED BY <1>1, <1>2, <1>3, <1>4 DEF JInv, Shown

\* The list of a step that leaves the thread running owns its streams.
LEMMA OwnedThen ==
  ASSUME ~Fails, IInv', pc' # "exited"
  PROVE  Owned(pl', opened')
BY DEF IInv, Holds, Sound, Owned

\* A step that leaves the inputs, the position and the sink's audio alone.
LEMMA QuietShown ==
  ASSUME IInv, JInv, pc \notin {"next", "exited"}, now' = now, faith' => faith,
         Shows(pl, pl'), SameTimes(pl, pl'), pl'.inputs = pl.inputs,
         sk' = NULL <=> sk = NULL, sk # NULL => sk'.buf = sk.buf
  PROVE  JInv' /\ Told(pl, pl')
<1> DEFINE p == pl  q == pl'  k == sk  k2 == sk'
<1>0. Sane(pl)
  BY HereIs
<1>1. Rises(p, q) /\ Timed(q)
  BY <1>0, ShowsIs DEF JInv, Shown
<1>2. Fitting(p, k) => Fitting(q, k2)
  BY DEF SameTimes, Fitting, Early, Ranged, Before, Room
<1>3. Latency(k2) = Latency(k)
  BY DEF Latency
<1>4. Behind(p, k) => Behind(q, k2)
  BY <1>3 DEF Shows, Behind, Unheard
<1>5. Advanced(p, k) => Advanced(q, k2)
  BY <1>3 DEF SameTimes, Shows, Advanced, Believed
<1>6. Shown(q, k2, pc', faith')
  BY <1>1, <1>2, <1>4, <1>5 DEF JInv, Shown, Shows
<1> QED BY <1>1, <1>6, ShownStep DEF Told

\* A step that ends with an update of the position.
LEMMA UpdatedShown ==
  ASSUME now \in Nat, NEW q, Sane(q), NEW k \in Sinks \cup {NULL}, NEW seeked \in BOOLEAN,
         Timed(q), NEW calm, calm => Fitting(q, k) /\ (seeked \/ Behind(q, k)), NEW c
  PROVE  LET r == TimingUpdate(q, k, seeked)
         IN /\ Shown(r, k, c, calm) /\ r.inputs = q.inputs
            /\ Len(q.inputs) > 0 /\ ~seeked => Rises(q, r)
            /\ Len(q.inputs) = 0 => r.toldPos = 0
<1> DEFINE r == TimingUpdate(q, k, seeked)
<1>1. /\ Timed(r)
      /\ Len(q.inputs) > 0 /\ ~seeked => Rises(q, r)
      /\ Len(q.inputs) = 0 => r.toldPos = 0 /\ r.posTimer = NULL
      /\ Fitting(q, k) => Fitting(r, k)
      /\ Fitting(q, k) /\ (seeked \/ Behind(q, k)) => Behind(r, k) /\ Advanced(r, k)
  BY TimingShows
<1>2. r.inputs = q.inputs
  BY TimingIs DEF Alike
<1> HIDE DEF r
<1> QED BY <1>1, <1>2 DEF Shown, r

LEMMA AnewShown ==
  ASSUME now \in Nat, NEW q, Sane(q), NEW k \in Sinks \cup {NULL},
         Timed(q), NEW calm, calm => Fitting(q, k), NEW c
  PROVE  LET r == TimingUpdate(q, k, TRUE)
         IN Shown(r, k, c, calm) /\ r.inputs = q.inputs
<1> DEFINE r == TimingUpdate(q, k, TRUE)
<1>1. TRUE \in BOOLEAN
  OBVIOUS
<1>2. /\ Timed(r)
      /\ Len(q.inputs) = 0 => r.toldPos = 0 /\ r.posTimer = NULL
      /\ Fitting(q, k) => Fitting(r, k) /\ Behind(r, k) /\ Advanced(r, k)
  BY <1>1, TimingShows
<1>3. r.inputs = q.inputs
  BY <1>1, TimingIs DEF Alike
<1> HIDE DEF r
<1> QED BY <1>2, <1>3 DEF Shown, r

LEMMA LoopShown ==
  ASSUME IInv, JInv, SkipProvide \/ Poll \/ HandleDone \/ (SinkDefer /\ UNCHANGED pl)
  PROVE  JInv' /\ Told(pl, pl')
<1>1. pc \in {"defer", "sinkdefer", "epoll", "handle"}
  BY DEF SkipProvide, Poll, HandleDone, SinkDefer, At
<1>2. Sane(pl) /\ pl \in Players
  BY HereIs DEF Sane
<1>3. /\ Shows(pl, pl') /\ SameTimes(pl, pl') /\ pl'.inputs = pl.inputs
      /\ UNCHANGED <<sk, now, faith>>
  <2>1. CASE SkipProvide \/ HandleDone
    BY <2>1 DEF SkipProvide, HandleDone, Shows, SameTimes
  <2>2. CASE Poll
    BY <1>2, <2>2 DEF Poll, Shows, SameTimes, Players
  <2>3. CASE SinkDefer /\ UNCHANGED pl
    BY <2>3 DEF SinkDefer, SinkRequest, SinkInfo, Shows, SameTimes
  <2> QED BY <2>1, <2>2, <2>3
<1> QED BY <1>1, <1>3, QuietShown

LEMMA RequestShown ==
  ASSUME IInv, JInv, NEW back \in {"epoll", "handle"}, pc \in {"sinkdefer", "epoll", "handle"},
         SinkRequest(back)
  PROVE  JInv' /\ Told(pl, pl')
<1> DEFINE b == sk.buf < Capacity
           q == RequestInput(pl, b)
<1>1. Sane(q) /\ SameTimes(pl, q) /\ Shows(pl, q) /\ q.inputs = pl.inputs
  <2>1. b \in BOOLEAN /\ Sane(pl)
    BY HereIs
  <2> HIDE DEF b
  <2> QED BY <2>1, RequestIs
<1>2. pl' = q /\ UNCHANGED <<sk, now, faith>>
  BY DEF SinkRequest
<1> HIDE DEF q, b
<1> QED BY <1>1, <1>2, QuietShown

LEMMA ControlShown ==
  ASSUME IInv, JInv, GotoNext \/ TogglePause \/ Stop
  PROVE  JInv' /\ Told(pl, pl')
<1>1. pc \in {"epoll", "handle"}
  BY DEF GotoNext, TogglePause, Stop, Operation, Event, At
<1>2. Sane(pl) /\ pl \in Players /\ sk \in Sinks \cup {NULL}
  BY HereIs DEF Sane
<1>3. /\ Shows(pl, pl') /\ SameTimes(pl, pl') /\ pl'.inputs = pl.inputs /\ now' = now
      /\ sk' = NULL <=> sk = NULL
      /\ sk # NULL => sk'.buf = sk.buf
      /\ faith' => faith
  <2>1. CASE GotoNext
    BY <2>1 DEF GotoNext, Operation, Shows, SameTimes
  <2>2. CASE TogglePause
    <3>1. /\ sk \in Sinks /\ sk' = [sk EXCEPT !.cork = ~pl.paused] /\ pl' = pl /\ ~faith' /\ now' = now
      BY <1>2, <2>2 DEF TogglePause, Operation
    <3>2. sk' \in Sinks /\ sk'.buf = sk.buf
      BY <1>2, <3>1 DEF Sinks, Players
    <3> QED BY <3>1, <3>2 DEF Shows, SameTimes
  <2>3. CASE Stop
    <3>1. /\ sk' = IF sk = NULL THEN NULL ELSE SetFormat(sk, NULL)
          /\ pl' = [pl EXCEPT !.defer = FALSE, !.crashed = @ \/ sk = NULL]
          /\ ~faith' /\ now' = now
      BY <2>3 DEF Stop, Operation
    <3>2. (sk' = NULL <=> sk = NULL) /\ (sk # NULL => sk'.buf = sk.buf)
      BY <1>2, <3>1, SinkIs
    <3> QED BY <1>2, <3>1, <3>2 DEF Shows, SameTimes, Players
  <2> QED BY <2>1, <2>2, <2>3
<1> QED BY <1>1, <1>3, QuietShown

\* The timers are served and the position is updated: what is told changes with the list, or rises.
LEMMA ServedTold ==
  ASSUME now \in Nat, Sane(pl), NEW p, Sane(p), StreamsOf(p.inputs) = StreamsOf(pl.inputs),
         Len(p.inputs) = Len(pl.inputs), Shows(pl, p),
         NEW q, Served(p, q), Len(q.inputs) = Len(p.inputs) => Shows(p, q),
         NEW r, r.inputs = q.inputs, r.closed = q.closed, NEW streams, Owned(r, streams),
         Len(q.inputs) > 0 => Rises(q, r),
         Len(pl.inputs) = 0 => Rises(pl, r)
  PROVE  Told(pl, r)
<1>1. Sane(q) /\ Len(q.inputs) \in Nat /\ Len(p.inputs) \in Nat
  BY SaneIs DEF Served
<1>2. CASE Len(q.inputs) # Len(p.inputs)
  <2>1. Owned(q, streams)
    BY DEF Owned
  <2>2. StreamsOf(p.inputs) # StreamsOf(q.inputs)
    BY <1>2, <2>1, FewerDiffer
  <2> QED BY <2>2 DEF Told
<1>3. CASE Len(q.inputs) = Len(p.inputs) /\ Len(p.inputs) > 0
  <2>1. Shows(p, q) /\ Rises(q, r)
    BY <1>3
  <2>2. q.toldPos = pl.toldPos
    BY <2>1 DEF Shows
  <2> QED BY <2>1, <2>2 DEF Told, Rises
<1>4. CASE Len(p.inputs) = 0
  BY <1>4 DEF Told
<1> QED BY <1>1, <1>2, <1>3, <1>4

LEMMA InfoShown ==
  ASSUME ~Fails, IInv, IInv', JInv, NEW back \in {"epoll", "handle"},
         pc \in {"sinkdefer", "epoll", "handle"}, SinkInfo(back)
  PROVE  JInv' /\ Told(pl, pl')
<1> DEFINE p == [pl EXCEPT !.paused = sk.cork]
           q == IF p.paused THEN PauseTimer(p, sk) ELSE StartTimer(p, sk)
           r == TimingUpdate(q, sk, FALSE)
<1>1. /\ pl' = r /\ pc' = back /\ sk # NULL
      /\ UNCHANGED <<sk, now, asked, opened, ops, faith>>
  BY DEF SinkInfo
<1>2. /\ pl \in Players /\ sk \in Sinks /\ sk.cork \in BOOLEAN /\ now \in Nat /\ Sane(pl)
      /\ Sound(pl, sk, opened, faith)
  BY <1>1, HereIs DEF Sane, Sinks
<1>3. /\ p \in Players /\ p.inputs = pl.inputs /\ p.closed = pl.closed /\ p.tcUpd = pl.tcUpd
      /\ p.posUpd = pl.posUpd /\ p.paused = sk.cork /\ Shows(pl, p)
  BY <1>2 DEF Players, Shows
<1> HIDE DEF p, r
<1>4. Sane(p)
  BY <1>2, <1>3 DEF Sane
<1>5. Served(p, q) /\ Follows(p, q, sk)
  <2>1. sk \in Sinks \cup {NULL}
    BY <1>2
  <2> QED BY <1>2, <1>4, <2>1, PauseIs, StartIs, PauseFollows, StartFollows DEF Steady
<1> HIDE DEF q
<1>6. Sane(q) /\ Timed(p) /\ Timed(q)
  BY <1>2, <1>3, <1>5, ShowsIs DEF Served, JInv, Shown, Follows
<1>7. faith => Fitting(q, sk) /\ Behind(q, sk)
  <2> SUFFICES ASSUME faith PROVE Fitting(q, sk) /\ Behind(q, sk)
    OBVIOUS
  <2>1. Fitting(pl, sk) /\ Behind(pl, sk)
    BY <1>1 DEF JInv, Shown
  <2>2. p.paused = pl.paused
    BY <1>1, <1>2, <1>3 DEF Sound, Players
  <2>3. Fitting(p, sk) /\ Behind(p, sk)
    BY <1>3, <2>1, <2>2, SameFits
  <2> QED BY <1>5, <1>6, <2>3 DEF Follows
<1>8. /\ Shown(r, sk, back, faith) /\ r.inputs = q.inputs /\ r.closed = q.closed
      /\ Len(q.inputs) > 0 => Rises(q, r)
      /\ Len(q.inputs) = 0 => r.toldPos = 0
  <2>1. Alike(q, TimingUpdate(q, sk, FALSE))
    BY <1>2, <1>6, TimingIs
  <2> QED BY <1>2, <1>6, <1>7, <2>1, UpdatedShown DEF r, Alike
<1>9. JInv'
  BY <1>1, <1>8, ShownStep
<1>10. Len(pl.inputs) = 0 => Rises(pl, r)
  <2> SUFFICES ASSUME Len(pl.inputs) = 0 PROVE Rises(pl, r)
    OBVIOUS
  <2>1. Len(q.inputs) = 0
    <3>1. Len(q.inputs) <= Len(p.inputs) /\ Len(q.inputs) \in Nat
      BY <1>5, <1>6, SaneIs DEF Follows
    <3> QED BY <1>3, <3>1
  <2>2. pl.toldPos \in {NULL, 0}
    BY <1>1 DEF JInv, Shown
  <2> QED BY <1>8, <2>1, <2>2 DEF Rises
<1>11. Owned(r, opened)
  BY <1>1, OwnedThen
<1>12. Len(q.inputs) = Len(p.inputs) => Shows(p, q)
  BY <1>5 DEF Follows
<1>13. Told(pl, r)
  BY <1>2, <1>3, <1>4, <1>5, <1>8, <1>10, <1>11, <1>12, ServedTold
<1> QED BY <1>1, <1>9, <1>13

LEMMA DivAtLeast ==
  ASSUME NEW a \in Nat, NEW b \in Nat \ {0}, NEW m \in Nat, m * b <= a
  PROVE  a \div b >= m
<1> DEFINE d == a \div b
<1>1. d \in Nat /\ a < (d + 1) * b
  BY DivIs
<1> HIDE DEF d
<1>2. SUFFICES ASSUME d < m PROVE FALSE
  BY <1>1 DEF d
<1>3. PICK e \in Nat : m = (d + 1) + e
  <2>1. m - (d + 1) \in Nat /\ m = (d + 1) + (m - (d + 1))
    BY <1>1, <1>2
  <2> QED BY <2>1
<1>4. m * b = (d + 1) * b + e * b
  BY <1>1, <1>3
<1>5. e * b \in Nat /\ (d + 1) * b \in Nat
  BY <1>1, <1>3
<1> QED BY <1>1, <1>4, <1>5

\* player_pos_tick shows what the last update of the position has led to since.
LEMMA PosTickShows ==
  ASSUME now \in Nat, NEW p, Sane(p), Due(p.posTimer), Timed(p)
  PROVE  LET q == PosTick(p)
         IN /\ Timed(q) /\ Rises(p, q)
            /\ q.posMs + (now - q.posUpd) = p.posMs + (now - p.posUpd)
            /\ ~p.paused => q.posSec * Second <= p.posMs + (now - p.posUpd)
<1> DEFINE ms   == p.posMs + (now - p.posUpd)
           next == p.posTimer + Second * ((now - p.posTimer) \div Second + 1)
           sec  == ms \div Second
           told == IF sec # p.posSec THEN sec ELSE p.toldPos
           q    == PosTick(p)
<1>0. /\ p \in Players /\ p.posUpd \in Nat /\ p.posUpd <= now /\ p.posMs \in Nat
      /\ p.posTimer \in Nat /\ p.posTimer <= now /\ p.posSec \in Nat
      /\ p.posTimer # NULL
  BY DEF Sane, Players, Due
<1>1. next \in Nat /\ next > now
  <2> DEFINE d == (now - p.posTimer) \div Second
  <2>1. now - p.posTimer \in Nat
    BY <1>0
  <2>2. d \in Nat /\ now - p.posTimer < (d + 1) * Second
    BY <2>1, DivIs
  <2> HIDE DEF d
  <2>3. Second * (d + 1) = (d + 1) * Second /\ Second * (d + 1) \in Nat
    BY <2>2
  <2> QED BY <1>0, <2>2, <2>3 DEF d
<1>2. ms \in Nat /\ sec \in Nat /\ sec * Second <= ms /\ sec * Second \in Nat
  <2>1. ms \in Nat
    BY <1>0
  <2> HIDE DEF ms
  <2>2. sec \in Nat /\ sec * Second <= ms
    BY <2>1, DivIs
  <2> HIDE DEF sec
  <2> QED BY <2>1, <2>2
<1>3. p.toldPos \in {NULL, p.posSec} /\ p.posMs + (p.posTimer - p.posUpd) >= p.posSec * Second
  BY <1>0 DEF Timed
<1>4. p.posSec * Second \in Nat
  BY <1>0
<1>5. sec >= p.posSec
  <2>1. p.posSec * Second <= ms
    BY <1>0, <1>3, <1>4
  <2> HIDE DEF ms
  <2> QED BY <1>0, <1>2, <2>1, DivAtLeast
<1>6. \/ p.paused /\ q = [p EXCEPT !.posTimer = next]
      \/ ~p.paused /\ q = [p EXCEPT !.posTimer = next, !.posUpd = now, !.posMs = ms, !.posSec = sec,
                                    !.toldPos = told]
  BY <1>0 DEF PosTick, Players
<1>7. told \in {NULL, sec} /\ (p.toldPos # NULL => told = sec)
  BY <1>3
<1> HIDE DEF next, sec, told, q
<1>8. CASE p.paused /\ q = [p EXCEPT !.posTimer = next]
  <2>1. /\ q.posTimer = next /\ q.posMs = p.posMs /\ q.posUpd = p.posUpd /\ q.posSec = p.posSec
        /\ q.toldPos = p.toldPos
    BY <1>0, <1>8 DEF Players
  <2>2. q.posMs + (q.posTimer - q.posUpd) >= q.posSec * Second
    BY <1>0, <1>1, <1>3, <1>4, <2>1
  <2>3. Timed(q) /\ Rises(p, q)
    BY <1>0, <1>3, <2>1, <2>2 DEF Timed, Rises
  <2> QED BY <1>8, <2>1, <2>3 DEF q
<1>9. CASE ~p.paused /\ q = [p EXCEPT !.posTimer = next, !.posUpd = now, !.posMs = ms,
                                      !.posSec = sec, !.toldPos = told]
  <2> HIDE DEF ms
  <2>1. /\ q.posTimer = next /\ q.posMs = ms /\ q.posUpd = now /\ q.posSec = sec
        /\ q.toldPos = told
    BY <1>0, <1>9 DEF Players
  <2>2. q.posMs + (q.posTimer - q.posUpd) >= q.posSec * Second
    BY <1>1, <1>2, <2>1
  <2>3. Timed(q) /\ Rises(p, q)
    BY <1>2, <1>3, <1>5, <1>7, <2>1, <2>2 DEF Timed, Rises
  <2>4. q.posMs + (now - q.posUpd) = ms /\ q.posSec * Second <= ms
    BY <1>2, <2>1
  <2> QED BY <2>3, <2>4 DEF q, ms
<1> QED BY <1>6, <1>8, <1>9

LEMMA TimerShown ==
  ASSUME ~Fails, IInv, IInv', JInv, TimerEvent
  PROVE  JInv' /\ Told(pl, pl')
<1>0. /\ UNCHANGED <<sk, now, asked, opened, ops, faith>> /\ pc' = "handle"
      /\ pc \in {"epoll", "handle"}
  BY DEF TimerEvent, Event, At
<1>1. /\ Sane(pl) /\ Sound(pl, sk, opened, faith) /\ Settled(pl, sk, opened)
      /\ now \in Nat /\ sk \in Sinks \cup {NULL}
  BY <1>0, HereIs
<1>2. /\ Timed(pl)
      /\ faith => Fitting(pl, sk) /\ Behind(pl, sk) /\ Advanced(pl, sk)
      /\ Len(pl.inputs) = 0 => pl.toldPos \in {NULL, 0} /\ pl.posTimer = NULL
  BY <1>0 DEF JInv, Shown
<1>3. CASE Due(pl.posTimer) /\ pl' = PosTick(pl)
  <2> DEFINE q == PosTick(pl)
  <2>1. Sane(q) /\ Alike(pl, q)
    BY <1>1, <1>3, PosTickIs
  <2>2. /\ Timed(q) /\ Rises(pl, q)
        /\ q.posMs + (now - q.posUpd) = pl.posMs + (now - pl.posUpd)
        /\ ~pl.paused => q.posSec * Second <= pl.posMs + (now - pl.posUpd)
    BY <1>1, <1>2, <1>3, PosTickShows
  <2> HIDE DEF q
  <2>3. /\ q.inputs = pl.inputs /\ q.tcUpd = pl.tcUpd /\ q.paused = pl.paused
    BY <2>1 DEF Alike
  <2>4. Len(pl.inputs) # 0
    BY <1>2, <1>3 DEF Due
  <2>5. faith => Fitting(q, sk) /\ Behind(q, sk) /\ Advanced(q, sk)
    <3> SUFFICES ASSUME faith PROVE Fitting(q, sk) /\ Behind(q, sk) /\ Advanced(q, sk)
      OBVIOUS
    <3>1. Fitting(q, sk) /\ Fitting(pl, sk) /\ ~pl.paused
      BY <1>2, <2>3, SameFits DEF Fitting
    <3>2. Advanced(q, sk)
      BY <1>2, <2>2, <2>3 DEF Advanced, Believed
    <3>3. Behind(q, sk)
      <4> SUFFICES ASSUME sk # NULL, Len(q.inputs) > 0
                   PROVE  q.posSec * Second <= q.inputs[1].at - Unheard(q.inputs[1], sk)
        BY DEF Behind
      <4> DEFINE x == pl.inputs[1]
                 b == Believed(pl, sk)
                 u == Unheard(x, sk)
                 v == pl.posMs + (now - pl.posUpd)
      <4>1. x.at \in Nat /\ b \in Nat /\ u \in Nat /\ u <= b /\ b <= x.at
        <5>1. sk \in Sinks
          BY <1>1
        <5> QED BY <1>1, <2>3, <3>1, <5>1, FirstIs
      <4>2. v <= x.at - b
        BY <1>2, <2>3 DEF Advanced
      <4>3. q.posSec * Second <= v
        BY <2>2, <3>1
      <4>4. v \in Int /\ q.posSec * Second \in Int
        <5>1. pl.posMs \in Nat /\ pl.posUpd \in Nat /\ q.posSec \in Nat
          BY <1>1, <2>1 DEF Sane, Players
        <5> QED BY <1>1, <5>1
      <4> HIDE DEF x, b, u, v
      <4>5. q.posSec * Second <= x.at - u
        BY <4>1, <4>2, <4>3, <4>4
      <4> QED BY <2>3, <4>5 DEF x, u
    <3> QED BY <3>1, <3>2, <3>3
  <2>6. Shown(q, sk, "handle", faith)
    BY <2>2, <2>3, <2>4, <2>5 DEF Shown
  <2>7. pl' = q
    BY <1>3 DEF q
  <2> QED BY <1>0, <2>2, <2>6, <2>7, ShownStep DEF Told
<1>4. CASE pl' = TrackTick([pl EXCEPT !.tcTimer = NULL], sk)
  <2> DEFINE q == PauseTimer(pl, sk)
  <2>1. pl' = q
    BY <1>4 DEF PauseTimer
  <2>2. Served(pl, q) /\ TimerSet(q) /\ Steady(pl, q, sk)
    BY <1>1, PauseIs, PauseFollows
  <2> HIDE DEF q
  <2>3. /\ Sane(q) /\ Timed(q)
        /\ Len(q.inputs) <= Len(pl.inputs)
        /\ Len(q.inputs) = Len(pl.inputs) => Shows(pl, q)
        /\ faith => Fitting(q, sk) /\ Behind(q, sk) /\ Advanced(q, sk)
    BY <1>2, <2>2 DEF Served, Steady, Follows
  <2>4. /\ Owned(pl, opened) /\ Owned(q, opened)
    <3>1. Owned(pl', opened')
      BY <1>0, OwnedThen
    <3> QED BY <1>0, <1>1, <2>1, <3>1 DEF Sound
  <2>5. Len(q.inputs) = 0 => q.toldPos \in {NULL, 0} /\ q.posTimer = NULL
    <3> SUFFICES ASSUME Len(q.inputs) = 0 PROVE q.toldPos \in {NULL, 0} /\ q.posTimer = NULL
      OBVIOUS
    <3>1. Len(pl.inputs) = 0
      <4>1. Listed(q, sk, opened)
        BY <1>1, <2>2, ServedKeeps DEF Settled
      <4>2. opened = {}
        BY <4>1 DEF Listed
      <4>3. Len(pl.inputs) \in Nat
        BY <1>1, SaneIs
      <4>4. \A i \in 1 .. Len(pl.inputs) : FALSE
        BY <2>4, <4>2 DEF Owned
      <4> QED BY <4>3, <4>4
    <3> QED BY <1>2, <2>3, <3>1 DEF Shows
  <2>6. Shown(q, sk, "handle", faith)
    BY <2>3, <2>5 DEF Shown
  <2>7. Told(pl, q)
    <3>1. CASE Len(q.inputs) = Len(pl.inputs)
      BY <1>1, <2>3, <3>1, ShowsIs DEF Told
    <3>2. CASE Len(q.inputs) # Len(pl.inputs)
      BY <1>1, <2>2, <2>4, <3>2, FewerDiffer DEF Told
    <3> QED BY <3>1, <3>2
  <2> QED BY <1>0, <2>1, <2>6, <2>7, ShownStep
<1> QED BY <1>3, <1>4 DEF TimerEvent

\* What was left of an input is no more than what is believed to be.
LEMMA RoomIs ==
  ASSUME now \in Nat, NEW p, Sane(p), Early(p), NEW n \in 1 .. Len(p.inputs),
         Len(p.inputs) = n, ~p.inputs[n].eof
  PROVE  Room(p) \in Nat /\ Room(p) <= p.inputs[n].at + Before(p, n)
<1>1. /\ p.inputs \in Seq(InputType) /\ p.tcUpd \in Nat /\ p.tcUpd <= now
      /\ n \in Nat /\ n > 0
  BY SaneIs
<1>2. p.inputs[n].at \in Nat
  BY <1>1, ElementIs
<1>3. Room(p) = p.inputs[n].at + (IF n > 1 THEN p.inputs[n - 1].left ELSE 0)
  BY <1>1 DEF Room
<1>4. CASE n > 1
  <2> DEFINE x == p.inputs[n - 1]
  <2>1. n - 1 \in 1 .. Len(p.inputs)
    BY <1>1, <1>4
  <2>2. x.left \in Nat /\ x.rem \in Int
    BY <1>1, <2>1, ElementIs
  <2>3. x.left > 0 => x.rem - (now - p.tcUpd) >= x.left
    BY <2>1 DEF Early
  <2>4. Before(p, n) = Positive(x.rem)
    BY <1>4 DEF Before
  <2> HIDE DEF x
  <2>5. x.left <= Positive(x.rem) /\ Positive(x.rem) \in Nat
    BY <1>1, <2>2, <2>3 DEF Positive
  <2> QED BY <1>2, <1>3, <1>4, <2>2, <2>4, <2>5, SMTT(40) DEF x
<1>5. CASE ~(n > 1)
  BY <1>2, <1>3, <1>5 DEF Before
<1> QED BY <1>4, <1>5

LEMMA ProvideShown ==
  ASSUME ~Fails, IInv, IInv', JInv, Provide
  PROVE  JInv' /\ Told(pl, pl')
<1> DEFINE n     == Len(pl.inputs)
           last  == Last(pl.inputs)
           space == Capacity - sk.buf
           rest  == LengthOf(last.s) - last.at
<1>0. pc = "defer" /\ pl.defer /\ UNCHANGED <<now, opened, ops, faith>>
  BY DEF Provide, At
<1>1. /\ Sane(pl) /\ Sound(pl, sk, opened, faith) /\ Settled(pl, sk, opened)
      /\ now \in Nat /\ sk \in Sinks \cup {NULL} /\ faith \in BOOLEAN
  BY <1>0, HereIs
<1>2. sk # NULL /\ sk \in Sinks /\ n > 0
  BY <1>0, <1>1 DEF Sound, Settled, Listed
<1>3. /\ pl \in Players /\ pl.inputs \in Seq(InputType) /\ n \in Nat /\ n \in 1 .. n
      /\ last = pl.inputs[n] /\ last \in InputType
      /\ pl.tcUpd \in Nat /\ pl.tcUpd <= now /\ 1 \in 1 .. n
  BY <1>1, <1>2, SaneIs DEF Last
<1>4. n = 1 \/ 1 < n
  <2>1. n \in Nat /\ n > 0
    BY <1>2, <1>3
  <2> HIDE DEF n
  <2> QED BY <2>1
<1>5. /\ last.at \in Nat /\ last.at <= LengthOf(last.s) /\ LengthOf(last.s) \in Nat
      /\ last.s \in Tracked /\ last.rem \in Int /\ last.left \in Nat
  BY <1>1, <1>3, SaneIs, ElementIs, LengthIs DEF Tracked
<1>6. sk.buf \in 0 .. Capacity /\ space \in Nat /\ sk.buf \in Nat
  BY <1>2 DEF Sinks
<1>7. ASSUME NEW len \in 1 .. space, len <= rest
      PROVE  len \in Nat /\ last.at + len <= LengthOf(last.s) /\ sk.buf + len \in 0 .. Capacity
  BY <1>5, <1>6, <1>7
<1> HIDE DEF last, space, rest
<1>8. /\ Timed(pl)
      /\ faith => Fitting(pl, sk) /\ Behind(pl, sk) /\ Advanced(pl, sk)
  BY <1>0 DEF JInv, Shown
<1>9. /\ \A i \in 1 .. n : pl.inputs[i].eof <=> i < n
      /\ last.eof = FALSE /\ ~(n < n)
  BY <1>1, <1>3, SMTT(40) DEF Settled, Listed, LastOpen, InputType
<1>10. faith => /\ Early(pl) /\ ~pl.paused
                /\ \A i \in 1 .. n : Ranged(pl, i)
                /\ sk.buf <= Room(pl)
  BY <1>2, <1>8 DEF Fitting
<1>11. faith => Room(pl) \in Nat /\ Room(pl) <= last.at + Before(pl, n)
  BY <1>1, <1>3, <1>9, <1>10, RoomIs
\* The sink is full.
<1>12. CASE /\ space = 0 /\ pl' = [pl EXCEPT !.defer = FALSE] /\ pc' = "sinkdefer"
            /\ UNCHANGED <<sk, asked>>
  <2>1. SameTimes(pl, pl') /\ Shows(pl, pl') /\ pl'.inputs = pl.inputs
    BY <1>3, <1>12 DEF Players, SameTimes, Shows
  <2> QED BY <1>0, <1>12, <2>1, QuietShown
\* The list when its last input has become x.
<1>13. ASSUME NEW x \in InputType, x.s = last.s, x.at <= LengthOf(x.s), NEW b \in BOOLEAN
       PROVE  LET p == [pl EXCEPT !.inputs[n] = x, !.defer = b, !.force = TRUE]
              IN /\ Sane(p) /\ SameTimes(pl, p) /\ Shows(pl, p)
                 /\ Len(p.inputs) = n /\ p.inputs[n] = x
                 /\ \A i \in 1 .. n : i # n => p.inputs[i] = pl.inputs[i]
                 /\ p.closed = pl.closed /\ p.defer = b
                 /\ StreamsOf(p.inputs) = StreamsOf(pl.inputs)
  <2> DEFINE q == [pl EXCEPT !.inputs[n] = x]
             p == [q EXCEPT !.defer = b, !.force = TRUE]
  <2>1. /\ Sane(q) /\ SameTimes(pl, q) /\ Shows(pl, q) /\ Len(q.inputs) = n /\ q.inputs[n] = x
        /\ \A i \in 1 .. n : i # n => q.inputs[i] = pl.inputs[i]
        /\ q.closed = pl.closed
    BY <1>1, <1>2, <1>3, <1>13, LastBecomes
  <2>2. p = [pl EXCEPT !.inputs[n] = x, !.defer = b, !.force = TRUE]
    OBVIOUS
  <2> HIDE DEF q
  <2>3. q \in Players
    BY <2>1, SaneIs
  <2>4. /\ p \in Players /\ SameTimes(pl, p) /\ Shows(pl, p) /\ p.inputs = q.inputs
        /\ p.closed = pl.closed /\ p.posUpd = q.posUpd /\ p.tcUpd = q.tcUpd /\ p.defer = b
    BY <2>1, <2>3 DEF Players, SameTimes, Shows
  <2> HIDE DEF p
  <2>5. Sane(p)
    BY <2>1, <2>4 DEF Sane
  <2>6. StreamsOf(p.inputs) = StreamsOf(pl.inputs)
    <3>1. DOMAIN p.inputs = 1 .. n /\ DOMAIN pl.inputs = 1 .. n
      BY <1>3, <2>1, <2>4, <2>5, SaneIs
    <3>2. \A i \in 1 .. n : p.inputs[i].s = pl.inputs[i].s
      BY <1>3, <1>13, <2>1, <2>4
    <3> QED BY <3>1, <3>2 DEF StreamsOf
  <2> QED BY <2>1, <2>2, <2>4, <2>5, <2>6
\* Audio is handed to the sink.
<1>14. ASSUME NEW len \in 1 .. space, len <= rest, sk' = [sk EXCEPT !.buf = @ + len],
              LET p == [pl EXCEPT !.inputs[n] = [last EXCEPT !.pos = last.at, !.at = last.at + len],
                                  !.defer = len < space, !.force = TRUE]
              IN pl' = TimingUpdate(p, sk', FALSE),
              pc' = "sinkdefer", UNCHANGED asked
       PROVE  JInv' /\ Told(pl, pl')
  <2>0. len \in Nat /\ last.at + len <= LengthOf(last.s) /\ sk.buf + len \in 0 .. Capacity
    BY <1>7, <1>14
  <2> DEFINE x  == [last EXCEPT !.pos = last.at, !.at = last.at + len]
             b  == len < space
             p  == [pl EXCEPT !.inputs[n] = x, !.defer = b, !.force = TRUE]
             k  == [sk EXCEPT !.buf = @ + len]
             r  == TimingUpdate(p, k, FALSE)
  <2>1. /\ x \in InputType /\ x.s = last.s /\ x.at = last.at + len /\ x.pos = last.at
        /\ x.eof = FALSE /\ x.rem = last.rem /\ x.left = last.left
    <3> DEFINE m == last.at + len
    <3>0. m \in Nat
      BY <1>5, <2>0
    <3>1. x = [last EXCEPT !.pos = last.at, !.at = m]
      OBVIOUS
    <3> HIDE DEF m, x
    <3>2. /\ x \in InputType /\ x.s = last.s /\ x.at = m /\ x.pos = last.at
          /\ x.eof = last.eof /\ x.rem = last.rem /\ x.left = last.left
      BY <1>3, <1>5, <3>0, <3>1 DEF InputType
    <3>3. last.eof = FALSE
      BY <1>3, <1>9 DEF InputType
    <3> QED BY <3>2, <3>3 DEF m
  <2>2. k \in Sinks /\ k # NULL /\ k.buf = sk.buf + len /\ Latency(k) = k.buf
    <3> DEFINE m == sk.buf + len
    <3>1. k = [sk EXCEPT !.buf = m] /\ m \in 0 .. Capacity
      BY <1>2, <2>0 DEF Sinks
    <3> HIDE DEF m, k
    <3>2. k \in Sinks /\ k.buf = m
      BY <1>2, <3>1 DEF Sinks
    <3> QED BY <3>2 DEF m, Latency
  <2>3. pl' = r /\ sk' = k
    BY <1>14
  <2> HIDE DEF x, k
  <2>4. /\ Sane(p) /\ SameTimes(pl, p) /\ Shows(pl, p) /\ Len(p.inputs) = n /\ p.inputs[n] = x
        /\ \A i \in 1 .. n : i # n => p.inputs[i] = pl.inputs[i]
    <3>1. x.at <= LengthOf(x.s) /\ b \in BOOLEAN
      BY <2>0, <2>1
    <3> HIDE DEF b
    <3> QED BY <1>13, <2>1, <3>1, ZenonT(60)
  <2> HIDE DEF p, r
  <2>5. \A i \in 1 .. n : /\ p.inputs[i].eof = pl.inputs[i].eof /\ p.inputs[i].s = pl.inputs[i].s
                          /\ p.inputs[i].rem = pl.inputs[i].rem
                          /\ p.inputs[i].left = pl.inputs[i].left
    BY <1>3, <1>9, <2>1, <2>4
  <2>6. faith => Fitting(p, k)
    <3> SUFFICES ASSUME faith PROVE Fitting(p, k)
      OBVIOUS
    <3>1. ~p.paused /\ Early(p)
      BY <1>10, <2>4, <2>5 DEF Early, SameTimes
    <3>2. ASSUME NEW i \in 1 .. n PROVE Ranged(p, i)
      <4>1. Ranged(pl, i) /\ i \in Nat /\ i > 0
        BY <1>3, <1>10
      <4>2. Before(p, i) = Before(pl, i)
        <5>1. i > 1 => i - 1 \in 1 .. n
          BY <1>3, <4>1
        <5> QED BY <2>5, <5>1 DEF Before
      <4>3. CASE i = n
        <5>1. x.pos <= x.at
          BY <1>5, <2>0, <2>1
        <5>2. last.s # NULL
          BY <1>3, <4>1, <4>3 DEF Ranged
        <5>3. /\ p.inputs[i].s # NULL /\ p.inputs[i].pos <= p.inputs[i].at
              /\ ~p.inputs[i].eof /\ ~(i < Len(p.inputs))
          BY <1>9, <2>1, <2>4, <4>3, <5>1, <5>2
        <5> QED BY <5>3 DEF Ranged
      <4>4. CASE i # n
        <5>1. p.inputs[i] = pl.inputs[i]
          BY <2>4, <4>4
        <5> QED BY <2>4, <4>1, <4>2, <5>1 DEF Ranged
      <4> QED BY <4>3, <4>4
    <3>3. k.buf <= Room(p)
      <4> DEFINE m == IF n > 1 THEN pl.inputs[n - 1].left ELSE 0
      <4>1. n > 1 => p.inputs[n - 1].left = pl.inputs[n - 1].left
        <5>1. n > 1 => n - 1 \in 1 .. n
          BY <1>3
        <5> QED BY <2>5, <5>1
      <4>2. m \in Nat
        <5>1. n > 1 => n - 1 \in 1 .. n
          BY <1>3
        <5> QED BY <1>3, <5>1, ElementIs
      <4>3. Room(pl) = last.at + m
        BY <1>2, <1>3, <1>9 DEF Room
      <4>4. Room(p) = x.at + m
        BY <1>2, <1>3, <2>1, <2>4, <4>1 DEF Room
      <4> HIDE DEF m
      <4> QED BY <1>5, <1>6, <2>0, <1>10, <2>1, <2>2, <4>2, <4>3, <4>4
    <3> QED BY <2>4, <3>1, <3>2, <3>3 DEF Fitting
  <2>7. faith => Behind(p, k)
    <3> SUFFICES ASSUME faith PROVE Behind(p, k)
      OBVIOUS
    <3>1. pl.posSec * Second <= pl.inputs[1].at - Unheard(pl.inputs[1], sk)
      BY <1>2, <1>8 DEF Behind
    <3>2. p.inputs[1].at - Unheard(p.inputs[1], k) = pl.inputs[1].at - Unheard(pl.inputs[1], sk)
      <4>1. CASE n = 1
        <5>1. Latency(sk) = sk.buf
          BY <1>2 DEF Latency
        <5>2. Unheard(pl.inputs[1], sk) = sk.buf /\ Unheard(p.inputs[1], k) = sk.buf + len
          BY <1>3, <1>9, <2>1, <2>2, <2>4, <4>1, <5>1 DEF Unheard
        <5>3. pl.inputs[1].at = last.at /\ p.inputs[1].at = last.at + len
          BY <1>3, <2>1, <2>4, <4>1
        <5> QED BY <1>5, <1>6, <2>0, <5>2, <5>3
      <4>2. CASE n # 1
        <5>1. p.inputs[1] = pl.inputs[1] /\ 1 < n
          BY <1>3, <1>4, <2>4, <4>2
        <5>2. pl.inputs[1].eof
          BY <1>3, <1>9, <5>1
        <5> QED BY <5>1, <5>2 DEF Unheard
      <4> QED BY <4>1, <4>2
    <3> QED BY <2>4, <3>1, <3>2 DEF Behind, Shows
  <2>8. Timed(p) /\ Rises(pl, p)
    BY <1>1, <1>8, <2>4, ShowsIs
  <2>9. Shown(r, k, "sinkdefer", faith) /\ Rises(p, r)
    <3>1. FALSE \in BOOLEAN /\ k \in Sinks \cup {NULL}
      BY <2>2
    <3> QED BY <1>1, <1>2, <2>4, <2>6, <2>7, <2>8, <3>1, UpdatedShown DEF r
  <2>10. Rises(pl, r)
    BY <2>4, <2>9 DEF Rises, Shows
  <2> QED BY <1>0, <1>14, <2>3, <2>9, <2>10, ShownStep DEF Told
\* The last input is at its end.
<1>15. CASE /\ space > 0 /\ rest = 0
            /\ LET p == [pl EXCEPT !.inputs[n] = [last EXCEPT !.pos = last.at, !.eof = TRUE,
                                                             !.rem = sk.buf, !.left = sk.buf],
                                   !.force = TRUE]
               IN pl' = TimingUpdate(StartTimer(p, sk), sk, FALSE)
            /\ asked' = [flush |-> FALSE, back |-> "sinkdefer"]
            /\ pc' = "next" /\ UNCHANGED sk
  <2> DEFINE x  == [last EXCEPT !.pos = last.at, !.eof = TRUE, !.rem = sk.buf, !.left = sk.buf]
             b  == pl.defer
             p  == [pl EXCEPT !.inputs[n] = x, !.defer = b, !.force = TRUE]
             p1 == [p EXCEPT !.tcUpd = now]
             c  == ContinueTimer(p1, sk)
             r  == TimingUpdate(c, sk, FALSE)
  <2>1. /\ x \in InputType /\ x.s = last.s /\ x.at = last.at /\ x.pos = last.at
        /\ x.eof = TRUE /\ x.rem = sk.buf /\ x.left = sk.buf
    <3> DEFINE m == sk.buf
    <3>1. x = [last EXCEPT !.pos = last.at, !.eof = TRUE, !.rem = m, !.left = m]
      OBVIOUS
    <3>2. m \in Nat
      BY <1>6
    <3> HIDE DEF m, x
    <3>3. /\ x \in InputType /\ x.s = last.s /\ x.at = last.at /\ x.pos = last.at
          /\ x.eof = TRUE /\ x.rem = m /\ x.left = m
      <4>1. last \in InputType /\ last.at \in Nat /\ m \in Int
        BY <1>3, <1>5, <3>2
      <4> QED BY ONLY <3>1, <3>2, <4>1 DEF InputType
    <3> QED BY <3>3 DEF m
  <2>2. pl' = r /\ UNCHANGED sk
    <3>1. StartTimer([pl EXCEPT !.inputs[n] = x, !.force = TRUE], sk) = c
      <4>1. [pl EXCEPT !.inputs[n] = x, !.force = TRUE] = p
        BY <1>3 DEF Players
      <4> QED BY <4>1 DEF StartTimer
    <3> QED BY <1>15, <3>1
  <2> HIDE DEF x
  <2>3. /\ Sane(p) /\ SameTimes(pl, p) /\ Shows(pl, p) /\ Len(p.inputs) = n /\ p.inputs[n] = x
        /\ \A i \in 1 .. n : i # n => p.inputs[i] = pl.inputs[i]
        /\ StreamsOf(p.inputs) = StreamsOf(pl.inputs)
    <3>1. x.at <= LengthOf(x.s) /\ b \in BOOLEAN
      BY <1>3, <1>5, <2>1 DEF Players
    <3> HIDE DEF b
    <3> QED BY <1>13, <2>1, <3>1, ZenonT(60)
  <2> HIDE DEF p, c, r
  <2>4. /\ Sane(p1) /\ p1.inputs = p.inputs /\ p1.paused = pl.paused /\ p1.tcUpd = now
        /\ Shows(pl, p1)
    <3>1. p \in Players
      BY <2>3, SaneIs
    <3>2. /\ p1 \in Players /\ p1.inputs = p.inputs /\ p1.paused = p.paused /\ p1.tcUpd = now
          /\ p1.posUpd = p.posUpd /\ Shows(p, p1)
      BY <1>1, <3>1 DEF Players, Shows
    <3> HIDE DEF p1
    <3>3. Sane(p1)
      BY <1>1, <2>3, <3>2 DEF Sane
    <3> QED BY <2>3, <3>2, <3>3 DEF SameTimes, Shows
  <2> HIDE DEF p1
  <2>5. faith => Fitting(p1, sk)
    <3> SUFFICES ASSUME faith PROVE Fitting(p1, sk)
      OBVIOUS
    <3>1. Early(p1)
      <4> SUFFICES ASSUME NEW i \in 1 .. n, p1.inputs[i].left > 0
                   PROVE  p1.inputs[i].rem - (now - p1.tcUpd) >= p1.inputs[i].left
        BY <2>3, <2>4 DEF Early
      <4>1. CASE i = n
        BY <1>1, <1>6, <2>1, <2>3, <2>4, <4>1
      <4>2. CASE i # n
        <5>1. p1.inputs[i] = pl.inputs[i]
          BY <2>3, <2>4, <4>2
        <5>2. pl.inputs[i].rem \in Int /\ pl.inputs[i].left \in Nat
          BY <1>3, ElementIs
        <5>3. pl.inputs[i].rem - (now - pl.tcUpd) >= pl.inputs[i].left
          BY <1>10, <5>1 DEF Early
        <5> QED BY <1>1, <1>3, <2>4, <5>1, <5>2, <5>3
      <4> QED BY <4>1, <4>2
    <3>2. ASSUME NEW i \in 1 .. n PROVE Ranged(p1, i)
      <4>1. Ranged(pl, i) /\ i \in Nat /\ i > 0 /\ i <= n
        BY <1>3, <1>10
      <4>2. Before(p1, i) = Before(pl, i)
        <5>1. i > 1 => i - 1 \in 1 .. n /\ i - 1 # n
          BY <1>3, <4>1
        <5> QED BY <2>3, <2>4, <5>1 DEF Before
      <4>3. CASE i = n
        <5>1. sk.buf <= last.at + Before(p1, n)
          <6>1. Before(pl, n) \in Nat
            <7>1. n > 1 => n - 1 \in 1 .. n
              BY <1>3
            <7>2. n > 1 => pl.inputs[n - 1].rem \in Int
              BY <1>3, <7>1, ElementIs
            <7> QED BY <7>2, PositiveIs DEF Before
          <6> QED BY <1>5, <1>6, <1>10, <1>11, <4>2, <4>3, <6>1
        <5>2. last.s # NULL
          BY <1>3, <4>1, <4>3 DEF Ranged
        <5>3. /\ p1.inputs[i].s # NULL /\ p1.inputs[i].pos <= p1.inputs[i].at
              /\ ~(i < Len(p1.inputs))
              /\ p1.inputs[i].rem <= p1.inputs[i].at + Before(p1, i)
          BY <1>5, <1>9, <2>1, <2>3, <2>4, <4>3, <5>1, <5>2
        <5> QED BY <5>3 DEF Ranged
      <4>4. CASE i # n
        <5>1. p1.inputs[i] = pl.inputs[i]
          BY <2>3, <2>4, <4>4
        <5> QED BY <2>3, <2>4, <4>1, <4>2, <5>1 DEF Ranged
      <4> QED BY <4>3, <4>4
    <3>3. sk.buf <= Room(p1)
      <4>1. Room(p1) = sk.buf
        BY <1>2, <2>1, <2>3, <2>4 DEF Room
      <4> QED BY <1>6, <4>1
    <3> QED BY <1>10, <2>3, <2>4, <3>1, <3>2, <3>3 DEF Fitting
  <2>6. faith => Behind(p1, sk)
    <3> SUFFICES ASSUME faith PROVE Behind(p1, sk)
      OBVIOUS
    <3>1. pl.posSec * Second <= pl.inputs[1].at - Unheard(pl.inputs[1], sk)
      BY <1>2, <1>8 DEF Behind
    <3>2. p1.inputs[1].at - Unheard(p1.inputs[1], sk) = pl.inputs[1].at - Unheard(pl.inputs[1], sk)
      <4>1. CASE n = 1
        <5>1. Latency(sk) = sk.buf
          BY <1>2 DEF Latency
        <5>2. Unheard(pl.inputs[1], sk) = sk.buf /\ Unheard(p1.inputs[1], sk) = sk.buf
          BY <1>3, <1>9, <2>1, <2>3, <2>4, <4>1, <5>1 DEF Unheard
        <5> QED BY <1>3, <2>1, <2>3, <2>4, <4>1, <5>2
      <4>2. CASE n # 1
        <5>1. p1.inputs[1] = pl.inputs[1] /\ 1 < n
          BY <1>3, <1>4, <2>3, <2>4, <4>2
        <5>2. pl.inputs[1].eof
          BY <1>3, <1>9, <5>1
        <5> QED BY <5>1, <5>2 DEF Unheard
      <4> QED BY <4>1, <4>2
    <3> QED BY <2>4, <3>1, <3>2 DEF Behind, Shows
  <2>7. Timed(p1)
    BY <1>1, <1>8, <2>4, ShowsIs
  <2>8. Served(p1, c) /\ Follows(p1, c, sk)
    BY <1>1, <2>4, ContinueIs, ContinueFollows DEF c, Steady
  <2>9. /\ Sane(c) /\ Timed(c) /\ (faith => Fitting(c, sk) /\ Behind(c, sk))
        /\ Len(c.inputs) = Len(p1.inputs) => Shows(p1, c)
    BY <2>5, <2>6, <2>7, <2>8 DEF Served, Follows
  <2>10. /\ Shown(r, sk, "next", faith) /\ r.inputs = c.inputs /\ r.closed = c.closed
         /\ Len(c.inputs) > 0 => Rises(c, r)
    <3>1. Alike(c, TimingUpdate(c, sk, FALSE))
      BY <1>1, <2>9, TimingIs
    <3> QED BY <1>1, <2>9, <3>1, UpdatedShown DEF r, Alike
  <2>11. Owned(r, opened)
    <3>1. Owned(pl', opened')
      BY <1>15, OwnedThen
    <3> QED BY <1>0, <2>2, <3>1
  <2>12. Told(pl, r)
    <3>1. /\ StreamsOf(p1.inputs) = StreamsOf(pl.inputs) /\ Len(p1.inputs) = Len(pl.inputs)
          /\ ~(Len(pl.inputs) = 0)
      BY <1>2, <2>3, <2>4
    <3> QED BY <1>1, <2>4, <2>8, <2>9, <2>10, <2>11, <3>1, ServedTold
  <2> QED BY <1>0, <1>15, <2>2, <2>10, <2>12, ShownStep
\* The read fails.
<1>16. CASE pl' = [pl EXCEPT !.crashed = TRUE] /\ UNCHANGED <<sk, pc, asked>>
  <2>1. SameTimes(pl, pl') /\ Shows(pl, pl') /\ pl'.inputs = pl.inputs
    BY <1>3, <1>16 DEF Players, SameTimes, Shows
  <2> QED BY <1>0, <1>16, <2>1, QuietShown
<1> QED BY <1>12, <1>14, <1>15, <1>16 DEF Provide, n, last, space, rest

\* What the sink holds still fits when a stream is loaded.
LEMMA LoadedFits ==
  ASSUME now \in Nat, NEW p, Sane(p), NEW k \in Sinks \cup {NULL}, Fitting(p, k),
         NEW s \in Streams, NEW flush \in BOOLEAN, ~flush => AllEnded(p),
         NEW r, NEW q, NEW k2, Loading(p, k, s, flush, r, q, k2)
  PROVE  Fitting(q, k2)
<1> DEFINE n == IF flush THEN 0 ELSE Len(p.inputs)
<1>1. /\ Sane(q) /\ SameTimes(p, q)
      /\ Len(q.inputs) = n + 1
      /\ q.inputs[n + 1].s = s /\ ~q.inputs[n + 1].eof /\ q.inputs[n + 1].left = 0
      /\ q.inputs[n + 1].pos = 0 /\ q.inputs[n + 1].at = 0
      /\ ~flush => \A i \in 1 .. Len(p.inputs) : q.inputs[i] = p.inputs[i]
  BY DEF Loading, Loaded
<1>2. n \in Nat /\ Len(p.inputs) \in Nat /\ s # NULL
  BY SaneIs
<1>3. \A i \in 1 .. n : ~flush /\ i \in 1 .. Len(p.inputs) /\ q.inputs[i] = p.inputs[i]
  BY <1>1, <1>2
<1>4. \A i \in 1 .. Len(q.inputs) : i = n + 1 \/ (i \in 1 .. n /\ i # n + 1)
  BY <1>1, <1>2
<1>5. (flush => n = 0) /\ (~flush => n = Len(p.inputs))
  OBVIOUS
<1>6. /\ ~p.paused /\ Early(p) /\ (k # NULL => k.buf <= Room(p))
      /\ \A i \in 1 .. Len(p.inputs) : Ranged(p, i)
  BY DEF Fitting
<1> HIDE DEF n
<1>7. ~q.paused /\ Early(q)
  <2>1. ASSUME NEW i \in 1 .. Len(q.inputs), q.inputs[i].left > 0
        PROVE  q.inputs[i].rem - (now - q.tcUpd) >= q.inputs[i].left
    <3>1. i \in 1 .. n
      BY <1>1, <1>4, <2>1
    <3> QED BY <1>1, <1>3, <1>6, <2>1, <3>1 DEF Early, SameTimes
  <2> QED BY <1>1, <1>6, <2>1 DEF Early, SameTimes
<1>8. ASSUME NEW i \in 1 .. Len(q.inputs) PROVE Ranged(q, i)
  <2>1. CASE i = n + 1
    <3>1. ~(i < Len(q.inputs)) /\ q.inputs[i].pos <= q.inputs[i].at
      BY <1>1, <1>2, <2>1
    <3> QED BY <1>1, <1>2, <2>1, <3>1 DEF Ranged
  <2>2. CASE i \in 1 .. n
    <3>1. q.inputs[i] = p.inputs[i] /\ i \in 1 .. Len(p.inputs) /\ ~flush
      BY <1>3, <2>2
    <3>2. Before(q, i) = Before(p, i)
      <4>1. i > 1 => i - 1 \in 1 .. n
        BY <1>2, <2>2
      <4> QED BY <1>3, <4>1 DEF Before
    <3>3. Ranged(p, i) /\ p.inputs[i].eof
      BY <1>6, <3>1 DEF AllEnded
    <3> QED BY <3>1, <3>2, <3>3 DEF Ranged
  <2> QED BY <1>4, <2>1, <2>2
<1>9. k2 # NULL => k2.buf <= Room(q)
  <2> SUFFICES ASSUME k2 # NULL PROVE k2.buf <= Room(q)
    OBVIOUS
  <2>1. k # NULL /\ k \in Sinks /\ k2.buf = IF flush /\ Len(p.inputs) > 0 THEN 0 ELSE k.buf
    BY DEF Loading
  <2>2. k.buf \in Nat /\ k.buf <= Room(p)
    BY <1>6, <2>1 DEF Sinks
  <2>3. Len(q.inputs) = n + 1 /\ n + 1 # 0 /\ (n + 1) - 1 = n /\ (n + 1 > 1 <=> n > 0)
    BY <1>1, <1>2
  <2>4. Room(q) = 0 + (IF n > 0 THEN q.inputs[n].left ELSE 0)
    BY <1>1, <2>3 DEF Room
  <2>5. CASE n > 0
    <3>1. n \in 1 .. n
      BY <1>2, <2>5
    <3>2. ~flush /\ n = Len(p.inputs) /\ q.inputs[n] = p.inputs[n] /\ n \in 1 .. Len(p.inputs)
      BY <1>3, <1>5, <3>1
    <3>3. Room(p) = p.inputs[n].left /\ p.inputs[n].left \in Nat
      BY <2>5, <3>2, SaneIs, ElementIs DEF Room, AllEnded
    <3> QED BY <2>1, <2>2, <2>4, <2>5, <3>2, <3>3
  <2>6. CASE n = 0
    <3>1. (flush /\ Len(p.inputs) > 0) \/ Len(p.inputs) = 0
      BY <1>2, <1>5, <2>6
    <3>2. Len(p.inputs) = 0 => Room(p) = 0
      BY DEF Room
    <3>3. k2.buf = 0
      BY <2>1, <2>2, <3>1, <3>2
    <3> QED BY <2>4, <2>6, <3>3
  <2> QED BY <1>2, <2>5, <2>6
<1> QED BY <1>7, <1>8, <1>9 DEF Fitting

LEMMA LoadShown ==
  ASSUME ~Fails, IInv, JInv, NEW s \in Tracks, NextTrack(s) \/ SetInput(s)
  PROVE  JInv' /\ Told(pl, pl')
<1>1. ASSUME NEW flush \in BOOLEAN, NEW want \in BOOLEAN, NEW back \in {"sinkdefer", "handle"},
             pc # "exited", s \notin opened, ~flush => AllEnded(pl),
             pl' = InputLoad(pl, sk, s, flush, want).p, sk' = InputLoad(pl, sk, s, flush, want).k,
             pc' = back, now' = now, faith' = faith
      PROVE  JInv' /\ Told(pl, pl')
  <2> DEFINE r == InputLoad(pl, sk, s, flush, want)
  <2>1. /\ Sane(pl) /\ Owned(pl, opened) /\ now \in Nat /\ sk \in Sinks \cup {NULL}
        /\ Timed(pl) /\ (faith => Fitting(pl, sk))
    BY <1>1, HereIs DEF Sound, JInv, Shown
  <2>2. s \in Streams /\ s \in Tracked
    BY DEF Tracks, Tracked
  <2>3. PICK q, k : Loading(pl, sk, s, flush, r, q, k)
    BY <2>1, <2>2, InputLoadIs
  <2>4. pl' = r.p /\ sk' = r.k
    BY <1>1
  <2> HIDE DEF r
  <2>5. /\ r.p = TimingUpdate(q, k, TRUE) /\ r.k = k /\ Sane(q) /\ Shows(pl, q)
        /\ k \in Sinks \cup {NULL}
        /\ Len(q.inputs) >= 1 /\ Len(q.inputs) \in Nat
        /\ q.inputs[Len(q.inputs)].s = s /\ q.inputs \in Seq(InputType)
    <3>1. /\ r.p = TimingUpdate(q, k, TRUE) /\ r.k = k /\ Sane(q) /\ Shows(pl, q)
          /\ k \in Sinks \cup {NULL}
          /\ Len(q.inputs) = (IF flush THEN 0 ELSE Len(pl.inputs)) + 1
          /\ q.inputs[Len(q.inputs)].s = s
      BY <2>1, <2>3 DEF Loading, Loaded
    <3>2. Len(pl.inputs) \in Nat /\ q.inputs \in Seq(InputType)
      BY <2>1, <3>1, SaneIs
    <3> QED BY <3>1, <3>2
  <2>6. Timed(q)
    BY <2>1, <2>5, ShowsIs
  <2>7. faith => Fitting(q, k)
    BY <1>1, <2>1, <2>2, <2>3, LoadedFits
  <2>8. Shown(r.p, k, back, faith) /\ r.p.inputs = q.inputs
    <3> DEFINE w == TimingUpdate(q, k, TRUE)
    <3>1. now \in Nat /\ Sane(q) /\ k \in Sinks \cup {NULL} /\ r.p = w
      BY <2>1, <2>5
    <3>2. Shown(w, k, back, faith) /\ w.inputs = q.inputs
      BY <2>6, <2>7, <3>1, AnewShown
    <3> HIDE DEF w
    <3> QED BY <3>1, <3>2
  <2>9. JInv'
    BY <1>1, <2>4, <2>5, <2>8, ShownStep
  <2>10. StreamsOf(pl.inputs) # StreamsOf(q.inputs)
    <3>1. s \in StreamsOf(q.inputs)
      <4>1. DOMAIN q.inputs = 1 .. Len(q.inputs) /\ Len(q.inputs) \in 1 .. Len(q.inputs)
        BY <2>5
      <4> QED BY <2>5, <4>1 DEF StreamsOf
    <3>2. s \notin StreamsOf(pl.inputs)
      <4>1. DOMAIN pl.inputs = 1 .. Len(pl.inputs)
        BY <2>1, SaneIs
      <4> QED BY <1>1, <2>1, <4>1 DEF StreamsOf, Owned
    <3> QED BY <3>1, <3>2
  <2> QED BY <2>4, <2>8, <2>9, <2>10 DEF Told
<1>2. CASE NextTrack(s)
  <2>1. /\ pc = "next" /\ s \notin opened /\ pc' = asked.back /\ UNCHANGED <<now, faith>>
    BY <1>2 DEF NextTrack, At
  <2>2. PICK want \in BOOLEAN : /\ pl' = InputLoad(pl, sk, s, asked.flush, want).p
                                /\ sk' = InputLoad(pl, sk, s, asked.flush, want).k
    BY <1>2 DEF NextTrack
  <2>3. Asking(pl, asked) /\ asked \in Questions
    BY <2>1 DEF IInv, Holds
  <2>4. asked.flush \in BOOLEAN /\ asked.back \in {"sinkdefer", "handle"}
    BY <2>3 DEF Questions
  <2> QED BY <1>1, <2>1, <2>2, <2>3, <2>4 DEF Asking
<1>3. CASE SetInput(s)
  <2>1. /\ pc \in {"epoll", "handle"} /\ s \notin opened
        /\ pc' = "handle" /\ UNCHANGED <<now, faith>>
    BY <1>3 DEF SetInput, Operation, Event, At
  <2>2. PICK want \in BOOLEAN : /\ pl' = InputLoad(pl, sk, s, TRUE, want).p
                                /\ sk' = InputLoad(pl, sk, s, TRUE, want).k
    BY <1>3 DEF SetInput
  <2> QED BY <1>1, <2>1, <2>2
<1> QED BY <1>2, <1>3

LEMMA SetSinkShown ==
  ASSUME ~Fails, IInv, JInv, NEW on \in BOOLEAN, SetSink(on)
  PROVE  JInv' /\ Told(pl, pl')
<1> DEFINE f == IF pl.inputs = <<>> THEN NULL ELSE FormatOf(Last(pl.inputs).s)
           p == IF sk = NULL THEN pl ELSE [Silenced(pl) EXCEPT !.defer = FALSE]
           q == IF on THEN OnFormat(p, NoFormat, f) ELSE p
           k == IF on THEN SetFormat(NoFormat, f) ELSE NULL
           calm == (faith /\ pl.inputs = <<>>)
<1>1. /\ pl' = q /\ sk' = k /\ faith' = calm /\ pc' = "handle" /\ Operation
  BY DEF SetSink
<1>2. /\ pc \in {"epoll", "handle"} /\ now' = now /\ Sane(pl) /\ Sound(pl, sk, opened, faith)
      /\ now \in Nat /\ sk \in Sinks \cup {NULL} /\ faith \in BOOLEAN
  BY <1>1, OperationIs
<1>3. /\ Len(pl.inputs) \in Nat /\ pl.inputs \in Seq(InputType)
      /\ (calm => faith /\ Len(pl.inputs) = 0)
      /\ f \in Formats \cup {NULL}
  <2>1. Len(pl.inputs) \in Nat /\ pl.inputs \in Seq(InputType)
    BY <1>2, SaneIs
  <2>2. pl.inputs # <<>> => Last(pl.inputs).s \in Tracked
    <3> SUFFICES ASSUME pl.inputs # <<>> PROVE Last(pl.inputs).s \in Tracked
      OBVIOUS
    <3>1. Len(pl.inputs) \in 1 .. Len(pl.inputs)
      BY <2>1
    <3> QED BY <2>1, <3>1, ElementIs DEF Last
  <2> QED BY <2>1, <2>2, FormatIs DEF Tracked
<1>4. Sane(p) /\ SameTimes(pl, p) /\ Quieted(pl, p) /\ Shows(pl, p)
  BY <1>2, LetGoIs
<1>5. k = NULL \/ k.buf = 0
  <2>1. NoFormat \in Sinks /\ NoFormat.buf = 0
    BY DEF NoFormat, Sinks
  <2> QED BY <1>3, <2>1, SinkIs
<1> HIDE DEF f, p, k, calm
<1>6. /\ Sane(q) /\ SameTimes(p, q) /\ Shows(p, q) /\ q.inputs = p.inputs
  <2>1. NoFormat \in Sinks
    BY DEF NoFormat, Sinks
  <2> QED BY <1>3, <1>4, <2>1, OnFormatIs DEF SameTimes, Shows
<1> HIDE DEF q
<1>7. /\ SameTimes(pl, q) /\ Shows(pl, q) /\ Len(q.inputs) = Len(pl.inputs)
      /\ \A i \in 1 .. Len(pl.inputs) : q.inputs[i].s = pl.inputs[i].s
  BY <1>4, <1>6 DEF SameTimes, Shows, Quieted
<1>8. /\ Timed(pl)
      /\ Len(pl.inputs) = 0 => pl.toldPos \in {NULL, 0} /\ pl.posTimer = NULL
  BY <1>2 DEF JInv, Shown
<1>9. Timed(q) /\ Rises(pl, q)
  BY <1>2, <1>7, <1>8, ShowsIs
<1>10. calm => Fitting(q, k) /\ Behind(q, k) /\ Advanced(q, k)
  <2> SUFFICES ASSUME calm PROVE Fitting(q, k) /\ Behind(q, k) /\ Advanced(q, k)
    OBVIOUS
  <2>1. ~q.paused /\ Len(q.inputs) = 0
    BY <1>2, <1>3, <1>7 DEF Sound, SameTimes
  <2>2. Room(q) = 0
    BY <2>1 DEF Room
  <2> QED BY <1>5, <2>1, <2>2 DEF Fitting, Early, Behind, Advanced
<1>11. Shown(q, k, "handle", calm)
  BY <1>7, <1>8, <1>9, <1>10 DEF Shown, Shows
<1> QED BY <1>1, <1>2, <1>9, <1>11, ShownStep DEF Told

LEMMA ExitShown ==
  ASSUME ~Fails, IInv, JInv, Exit
  PROVE  JInv' /\ Told(pl, pl')
<1> DEFINE p == IF sk = NULL THEN pl ELSE [Silenced(pl) EXCEPT !.defer = FALSE]
           r == InputLoad(p, NULL, NULL, FALSE, FALSE)
<1>1. /\ pl' = r.p /\ sk' = NULL /\ pc' = "exited" /\ Operation /\ faith' = faith
  BY DEF Exit
<1>2. /\ now' = now /\ Sane(pl) /\ Sound(pl, sk, opened, faith) /\ Owned(pl, opened)
      /\ now \in Nat /\ opened \subseteq Streams /\ faith \in BOOLEAN
  BY <1>1, OperationIs DEF Sound
<1>3. Sane(p) /\ Shows(pl, p)
  BY <1>2, LetGoIs
<1> HIDE DEF p
<1>4. PICK q, k : Loading(p, NULL, NULL, FALSE, r, q, k)
  <2>1. NULL \in Tracked /\ NULL \in Sinks \cup {NULL}
    BY DEF Tracked
  <2> QED BY <1>2, <1>3, <2>1, InputLoadIs
<1> HIDE DEF r
<1>5. /\ r.p = TimingUpdate(q, k, TRUE) /\ k = NULL /\ Sane(q) /\ Shows(p, q)
      /\ Len(q.inputs) = Len(p.inputs) + 1 /\ q.inputs[Len(q.inputs)].s = NULL
  BY <1>4 DEF Loading, Loaded
<1>6. Timed(pl) /\ Timed(p) /\ Timed(q)
  BY <1>2, <1>3, <1>5, ShowsIs DEF JInv, Shown
<1>7. Timed(r.p) /\ r.p.inputs = q.inputs
  <2> DEFINE w == TimingUpdate(q, k, TRUE)
  <2>1. k \in Sinks \cup {NULL} /\ TRUE \in BOOLEAN
    BY <1>5
  <2>2. Timed(w) /\ Alike(q, w)
    BY <1>2, <1>5, <1>6, <2>1, TimingShows, TimingIs
  <2> HIDE DEF w
  <2> QED BY <1>5, <2>2 DEF Alike, w
<1>8. Shown(r.p, NULL, "exited", faith)
  BY <1>7 DEF Shown
<1>9. StreamsOf(pl.inputs) # StreamsOf(q.inputs)
  <2>1. NULL \in StreamsOf(q.inputs)
    <3>1. /\ DOMAIN q.inputs = 1 .. Len(q.inputs) /\ Len(q.inputs) \in Nat
          /\ Len(p.inputs) \in Nat
      BY <1>3, <1>5, SaneIs
    <3>2. Len(q.inputs) \in 1 .. Len(q.inputs)
      BY <1>5, <3>1
    <3> QED BY <1>5, <3>1, <3>2 DEF StreamsOf
  <2>2. NULL \notin StreamsOf(pl.inputs)
    <3>1. DOMAIN pl.inputs = 1 .. Len(pl.inputs)
      BY <1>2, SaneIs
    <3> QED BY <1>2, <3>1 DEF StreamsOf, Owned
  <2> QED BY <2>1, <2>2
<1> QED BY <1>1, <1>2, <1>7, <1>8, <1>9, ShownStep DEF Told

LEMMA SeekShown ==
  ASSUME ~Fails, IInv, JInv, NEW diff \in Seeks, Seek(diff)
  PROVE  JInv'
<1>1. Operation /\ faith' = faith
  BY DEF Seek
<1>2. /\ now' = now /\ Sane(pl) /\ Sound(pl, sk, opened, faith) /\ Owned(pl, opened)
      /\ now \in Nat /\ opened \subseteq Streams
  BY <1>1, OperationIs DEF Sound
<1>3. PICK q, k, i : Moved(q, k, i) /\ Seeked(q, k)
  BY SeekIs
<1>4. /\ Sane(q) /\ SameTimes(pl, q) /\ Shows(pl, q) /\ Silent(q)
      /\ k \in Sinks \cup {NULL} /\ (k = NULL <=> sk = NULL) /\ (sk # NULL => k.buf = 0)
      /\ sk' = k /\ Len(q.inputs) \in {0, 1}
  BY <1>3 DEF Moved, Seeked
<1>5. Timed(pl) /\ Timed(q)
  BY <1>2, <1>4, ShowsIs DEF JInv, Shown
<1>6. faith => Fitting(q, k)
  <2> SUFFICES ASSUME faith PROVE Fitting(q, k)
    OBVIOUS
  <2>1. ~q.paused /\ Early(q)
    BY <1>2, <1>4 DEF Sound, SameTimes, Silent, Early
  <2>2. CASE Len(q.inputs) = 0
    <3>1. Room(q) = 0
      BY <2>2 DEF Room
    <3> QED BY <1>4, <2>1, <2>2, <3>1 DEF Fitting
  <2>3. CASE Len(q.inputs) = 1
    <3> DEFINE x == q.inputs[1]
    <3>1. Len(q.inputs) # 0
      BY <2>3
    <3>2. /\ i \in 1 .. Len(pl.inputs) /\ x.s = pl.inputs[i].s /\ ~x.eof /\ x.pos = x.at
      BY <1>3, <3>1, Zenon DEF Moved
    <3>3. x.at \in Nat
      BY <1>4, <2>3, SaneIs, ElementIs
    <3>4. x.s # NULL
      BY <1>2, <3>2 DEF Owned
    <3> HIDE DEF x
    <3>5. Room(q) = x.at
      BY <2>3, <3>2, <3>3 DEF Room, x
    <3>6. Ranged(q, 1)
      BY <2>3, <3>2, <3>3, <3>4 DEF Ranged, x
    <3>7. \A j \in 1 .. Len(q.inputs) : j = 1
      BY <2>3
    <3> QED BY <1>4, <2>1, <3>3, <3>5, <3>6, <3>7 DEF Fitting
  <2> QED BY <1>4, <2>2, <2>3
<1>7. CASE Len(q.inputs) = 0
  <2>1. pl' = q /\ pc' = "next"
    <3>1. Len(q.inputs) # 1
      BY <1>7
    <3> QED BY <1>3, <3>1, Zenon DEF Seeked
  <2>2. Shown(q, k, "next", faith)
    BY <1>5, <1>6 DEF Shown
  <2> QED BY <1>1, <1>2, <1>4, <2>1, <2>2, ShownStep
<1>8. CASE Len(q.inputs) = 1
  <2> DEFINE m == PauseTimer(q, k)
             r == TimingUpdate(m, k, TRUE)
  <2>1. pl' = r /\ pc' = "handle"
    <3>1. Len(q.inputs) # 0
      BY <1>8
    <3> QED BY <1>3, <3>1, Zenon DEF Seeked
  <2>2. Served(q, m) /\ Steady(q, m, k)
    BY <1>2, <1>4, PauseIs, PauseFollows
  <2> HIDE DEF m
  <2>3. Sane(m) /\ Timed(m) /\ (faith => Fitting(m, k))
    BY <1>5, <1>6, <2>2 DEF Served, Steady, Follows
  <2>4. Shown(r, k, "handle", faith)
    BY <1>2, <1>4, <2>3, AnewShown
  <2> HIDE DEF r
  <2> QED BY <1>1, <1>2, <1>4, <2>1, <2>4, ShownStep
<1> QED BY <1>4, <1>7, <1>8

\* While the sink plays, the position timer and what is heard advance alike:
\* the track-change timer is not due, so the first input is not over.
LEMMA TickShown ==
  ASSUME ~Fails, IInv, IInv', JInv, Tick
  PROVE  JInv' /\ Told(pl, pl')
<1> DEFINE plays == sk # NULL /\ ~sk.cork /\ sk.buf > 0
           k == IF plays THEN [sk EXCEPT !.buf = @ - 1] ELSE sk
           q == IF plays THEN Played(pl) ELSE pl
           calm == (faith /\ (plays \/ pl.inputs = <<>>))
           n == Len(pl.inputs)
<1>1. /\ pc \in {"next", "epoll"} /\ now' = now + 1 /\ pc' = pc
      /\ sk' = k /\ pl' = q /\ faith' = calm
      /\ pc = "epoll" => ~Due(pl.tcTimer)
  BY DEF Tick, At
<1>2. /\ now \in Nat /\ Sane(pl) /\ sk \in Sinks \cup {NULL} /\ faith \in BOOLEAN
      /\ Sound(pl, sk, opened, faith)
  BY <1>1, HereIs
<1>3. /\ n \in Nat /\ pl.inputs \in Seq(InputType)
      /\ (calm => faith /\ (plays \/ n = 0)) /\ (plays => sk # NULL)
  BY <1>2, SaneIs
<1>4. sk # NULL => sk.buf \in Nat /\ Latency(sk) = sk.buf
  BY <1>2 DEF Sinks, Latency
<1>5. /\ ~plays => k = sk
      /\ plays => /\ k.buf = sk.buf - 1 /\ k # NULL /\ Latency(k) = sk.buf - 1
                  /\ sk.buf \in Nat /\ sk.buf > 0
  <2>1. ASSUME plays PROVE [sk EXCEPT !.buf = @ - 1].buf = sk.buf - 1
                           /\ [sk EXCEPT !.buf = @ - 1] \in Sinks
    <3> DEFINE m == sk.buf - 1
    <3>1. sk \in Sinks /\ sk.buf \in 0 .. Capacity /\ sk.buf > 0
      BY <1>2, <2>1 DEF Sinks
    <3>2. m \in 0 .. Capacity
      BY <3>1
    <3>3. [sk EXCEPT !.buf = @ - 1] = [sk EXCEPT !.buf = m]
      BY <3>1 DEF Sinks
    <3> HIDE DEF m
    <3>4. [sk EXCEPT !.buf = m] \in Sinks /\ [sk EXCEPT !.buf = m].buf = m
      BY <3>1, <3>2 DEF Sinks
    <3> QED BY <3>3, <3>4 DEF m
  <2>2. plays => sk.buf > 0
    OBVIOUS
  <2>3. plays => k = [sk EXCEPT !.buf = @ - 1]
    OBVIOUS
  <2>4. ~plays => k = sk
    OBVIOUS
  <2> HIDE DEF k, plays
  <2>5. plays => k \in Sinks /\ k.buf = sk.buf - 1
    BY <2>1, <2>3
  <2>6. plays => k # NULL
    BY <2>5
  <2> QED BY <1>3, <1>4, <2>2, <2>4, <2>5, <2>6 DEF Latency
<1>6. /\ Sane(q) /\ SameTimes(pl, q) /\ Shows(pl, q) /\ Len(q.inputs) = n
      /\ \A i \in 1 .. n :
           /\ q.inputs[i].s = pl.inputs[i].s /\ q.inputs[i].eof = pl.inputs[i].eof
           /\ q.inputs[i].rem = pl.inputs[i].rem /\ q.inputs[i].pos = pl.inputs[i].pos
           /\ q.inputs[i].at = pl.inputs[i].at
           /\ plays => q.inputs[i].left = Positive(pl.inputs[i].left - 1)
  BY <1>2, PlayedIs DEF SameTimes, Shows
<1>7. ~plays => q = pl
  OBVIOUS
<1> HIDE DEF plays, k, q, calm
<1>8. Rises(pl, q) /\ Timed(q)
  BY <1>2, <1>6, ShowsIs DEF JInv, Shown
<1>9. \A i \in 1 .. n : /\ pl.inputs[i].left \in Nat /\ pl.inputs[i].at \in Nat
                        /\ pl.inputs[i].rem \in Int
                        /\ plays => /\ q.inputs[i].left \in Nat
                                    /\ q.inputs[i].left >= pl.inputs[i].left - 1
                                    /\ q.inputs[i].left <= pl.inputs[i].left
  BY <1>3, <1>6, ElementIs, SMTT(40) DEF Positive
<1>10. calm => Fitting(pl, sk)'
  <2> SUFFICES ASSUME calm PROVE Fitting(pl, sk)'
    OBVIOUS
  <2>1. /\ ~pl.paused /\ (sk # NULL => sk.buf <= Room(pl))
        /\ \A i \in 1 .. n : Ranged(pl, i)
    BY <1>1, <1>3 DEF JInv, Shown, Fitting
  <2>2. Early(pl)'
    BY <1>1 DEF IInv, Holds, Sound
  <2>3. \A i \in 1 .. n : Ranged(q, i)
    <3> SUFFICES ASSUME NEW i \in 1 .. n PROVE Ranged(q, i)
      OBVIOUS
    <3>1. Before(q, i) = Before(pl, i)
      <4>1. i > 1 => i - 1 \in 1 .. n
        BY <1>3
      <4> QED BY <1>6, <4>1 DEF Before
    <3> QED BY <1>6, <2>1, <3>1 DEF Ranged
  <2>4. k # NULL => k.buf <= Room(q)
    <3>1. CASE n = 0
      <4>1. Room(pl) = 0 /\ Room(q) = 0
        BY <1>6, <3>1 DEF Room
      <4>2. ~plays
        BY <1>3, <1>5, <2>1, <4>1
      <4> QED BY <1>5, <2>1, <4>1, <4>2
    <3>2. CASE n > 0
      <4>1. /\ plays /\ k.buf = sk.buf - 1 /\ sk.buf \in Nat /\ sk.buf > 0 /\ sk.buf <= Room(pl)
        BY <1>3, <1>5, <2>1, <3>2
      <4> DEFINE x == pl.inputs[n]
                 y == q.inputs[n]
      <4>2. n \in 1 .. n
        BY <1>3, <3>2
      <4>3. /\ x.left \in Nat /\ x.at \in Nat /\ y.left \in Nat /\ y.left >= x.left - 1
            /\ y.eof = x.eof /\ y.at = x.at
        BY <1>6, <1>9, <4>1, <4>2
      <4>4. /\ Room(pl) = IF x.eof THEN x.left
                          ELSE x.at + (IF n > 1 THEN pl.inputs[n - 1].left ELSE 0)
            /\ Room(q) = IF y.eof THEN y.left
                         ELSE y.at + (IF n > 1 THEN q.inputs[n - 1].left ELSE 0)
        BY <1>6, <3>2 DEF Room
      <4>5. n > 1 => /\ pl.inputs[n - 1].left \in Nat /\ q.inputs[n - 1].left \in Nat
                     /\ q.inputs[n - 1].left >= pl.inputs[n - 1].left - 1
        <5>1. n > 1 => n - 1 \in 1 .. n
          BY <1>3
        <5> QED BY <1>9, <4>1, <5>1
      <4> HIDE DEF x, y
      <4>6. CASE x.eof
        BY <4>1, <4>3, <4>4, <4>6
      <4>7. CASE ~x.eof /\ n > 1
        <5> DEFINE l == pl.inputs[n - 1].left
                   m == q.inputs[n - 1].left
        <5>1. Room(pl) = x.at + l /\ Room(q) = x.at + m
          BY <4>3, <4>4, <4>7
        <5>2. l \in Nat /\ m \in Nat /\ m >= l - 1
          BY <4>5, <4>7
        <5> HIDE DEF l, m
        <5> QED BY <4>1, <4>3, <5>1, <5>2
      <4>8. CASE ~x.eof /\ ~(n > 1)
        BY <4>1, <4>3, <4>4, <4>8
      <4> QED BY <4>6, <4>7, <4>8
    <3> QED BY <1>3, <3>1, <3>2
  <2>5. \A i \in 1 .. Len(q.inputs) : Ranged(q, i)
    BY <1>6, <2>3
  <2>6. ~q.paused
    BY <1>6, <2>1 DEF SameTimes
  <2>7. Room(pl)' = Room(q) /\ (\A i \in 1 .. Len(pl.inputs) : Ranged(pl, i))'
    BY <1>1, <2>5 DEF Room, Ranged, Before
  <2> QED BY <1>1, <2>2, <2>4, <2>6, <2>7 DEF Fitting
<1>11. calm /\ pc = "epoll" => Behind(pl, sk)' /\ Advanced(pl, sk)'
  <2> SUFFICES ASSUME calm, pc = "epoll", n > 0 PROVE Behind(pl, sk)' /\ Advanced(pl, sk)'
    BY <1>1, <1>3, <1>6 DEF Behind, Advanced
  <2> DEFINE x    == pl.inputs[1]
             y    == q.inputs[1]
             left == x.rem - (now - pl.tcUpd)
  <2>1. /\ plays /\ sk # NULL /\ sk.buf \in Nat /\ sk.buf > 0
        /\ Latency(sk) = sk.buf /\ Latency(k) = sk.buf - 1
    BY <1>3, <1>4, <1>5
  <2>2. 1 \in 1 .. n
    BY <1>3
  <2>3. /\ y.eof = x.eof /\ y.rem = x.rem /\ y.at = x.at /\ x.at \in Nat /\ x.rem \in Int
        /\ y.left \in Nat /\ x.left \in Nat /\ y.left <= x.left
    BY <1>6, <1>9, <2>1, <2>2
  <2>4. /\ pl.posSec \in Nat /\ pl.posMs \in Nat /\ pl.posUpd \in Nat /\ pl.tcUpd \in Nat
        /\ q.posSec = pl.posSec /\ q.posMs = pl.posMs /\ q.posUpd = pl.posUpd
        /\ q.tcUpd = pl.tcUpd
    BY <1>2, <1>6 DEF Sane, Players, Shows, SameTimes
  <2>5. /\ pl.posSec * Second <= x.at - (IF x.eof THEN x.left ELSE Latency(sk))
        /\ pl.posMs + (now - pl.posUpd)
             <= x.at - (IF x.eof THEN Positive(left) ELSE Latency(sk))
    BY <1>3, <2>1 DEF JInv, Shown, Behind, Advanced, Unheard, Believed, Left
  <2>6. x.eof => left > 0
    <3>1. TimerSet(pl) /\ ~Due(pl.tcTimer) /\ ~pl.paused
      BY <1>1, <1>2, <1>3, HereIs DEF Settled, Sound
    <3>2. x.eof => pl.tcTimer = pl.tcUpd + x.rem
      BY <3>1 DEF TimerSet
    <3>3. pl.tcUpd + x.rem \in Int
      BY <2>3, <2>4
    <3>4. pl.tcUpd + x.rem # NULL
      BY <3>3, NullAssumption
    <3>5. x.eof => ~(pl.tcUpd + x.rem <= now)
      BY <3>1, <3>2, <3>4 DEF Due
    <3> HIDE DEF x
    <3> QED BY <1>2, <2>3, <2>4, <3>5
  <2>7. pl.posSec * Second \in Int /\ left \in Int
    BY <1>2, <2>3, <2>4, SMTT(40)
  <2> HIDE DEF left
  <2>8. y.rem - (now' - q.tcUpd) = left - 1
    <3>1. \A a, b, c \in Int : a - ((b + 1) - c) = (a - (b - c)) - 1
      OBVIOUS
    <3>2. x.rem \in Int /\ now \in Int /\ pl.tcUpd \in Int
      BY <1>2, <2>3, <2>4
    <3>3. x.rem - ((now + 1) - pl.tcUpd) = left - 1
      BY ONLY <3>1, <3>2, Zenon DEF left
    <3>4. now' = now + 1 /\ y.rem = x.rem /\ q.tcUpd = pl.tcUpd
      BY <1>1, <2>3, <2>4
    <3> QED BY ONLY <3>3, <3>4, Zenon
  <2> DEFINE v == pl.posSec * Second
             m == pl.posMs + (now - pl.posUpd)
  <2>9. v \in Int /\ m \in Int
    BY <1>2, <2>4, <2>7
  <2>10. q.posSec * Second = v /\ q.posMs + (now' - q.posUpd) = m + 1
    <3>1. \A a, b, c \in Int : a + ((b + 1) - c) = (a + (b - c)) + 1
      OBVIOUS
    <3>2. pl.posMs + ((now + 1) - pl.posUpd) = m + 1
      BY <1>2, <2>4, <3>1, SMTT(40)
    <3>3. q.posMs + (now' - q.posUpd) = m + 1
      BY ONLY <1>1, <2>4, <3>2
    <3>4. q.posSec * Second = v
      BY <2>4
    <3> QED BY <3>3, <3>4
  <2> HIDE DEF left, x, y, v, m
  <2>11. /\ v <= y.at - (IF y.eof THEN y.left ELSE Latency(k))
         /\ m + 1 <= y.at - (IF y.eof THEN Positive(left - 1) ELSE Latency(k))
    <3>1. CASE x.eof
      <4>1. v <= x.at - x.left /\ m <= x.at - Positive(left) /\ left > 0
        BY <2>5, <2>6, <3>1 DEF v, m
      <4>2. Positive(left) = left /\ Positive(left - 1) = left - 1
        BY <2>7, <4>1 DEF Positive
      <4>3. v <= y.at - y.left /\ m + 1 <= y.at - Positive(left - 1)
        BY <2>3, <2>7, <2>9, <4>1, <4>2, SMTT(40)
      <4> QED BY <2>3, <3>1, <4>3
    <3>2. CASE ~x.eof
      <4>1. v <= x.at - sk.buf /\ m <= x.at - sk.buf
        BY <2>1, <2>5, <3>2 DEF v, m
      <4>2. v <= y.at - Latency(k) /\ m + 1 <= y.at - Latency(k)
        BY <2>1, <2>3, <2>9, <4>1
      <4> QED BY <2>3, <3>2, <4>2
    <3> QED BY <3>1, <3>2
  <2>12. Behind(pl, sk)'
    BY <1>1, <2>10, <2>11 DEF Behind, Unheard, y
  <2>13. Advanced(pl, sk)'
    BY <1>1, <2>8, <2>10, <2>11 DEF Advanced, Believed, Left, y
  <2> QED BY <2>12, <2>13
<1>12. pc = "epoll" /\ Len(q.inputs) = 0 => q.toldPos \in {NULL, 0} /\ q.posTimer = NULL
  BY <1>6 DEF JInv, Shown, Shows
<1>13. JInv'
  BY <1>1, <1>8, <1>10, <1>11, <1>12 DEF JInv, Shown, Timed
<1> QED BY <1>1, <1>8, <1>13 DEF Told

-----------------------------------------------------------------------------
(* The theorems.                                                           *)

LEMMA InitIs == Init => IInv
<1> SUFFICES ASSUME Init PROVE IInv
  OBVIOUS
<1>1. /\ sk = NULL /\ now = 0 /\ pc = "defer" /\ asked = NULL /\ opened = {} /\ ops = 0
      /\ faith = TRUE
  BY DEF Init
<1>2. /\ pl \in Players /\ pl.inputs = <<>> /\ pl.posUpd = 0 /\ pl.tcUpd = 0 /\ pl.closed = {}
      /\ ~pl.paused /\ ~pl.defer
  <2>1. U32Max \in Nat
    BY DEF U32Max
  <2> DEFINE none == <<>>
             max == U32Max
             nothing == {}
  <2>2. none \in Seq(InputType) /\ max \in Nat /\ nothing \in SUBSET Tracked /\ NULL \in Tracked
    BY <2>1 DEF Tracked
  <2>3. pl = [inputs |-> none, paused |-> FALSE, defer |-> FALSE, force |-> FALSE,
              posUpd |-> 0, posMs |-> 0, posSec |-> max, posTimer |-> NULL,
              tcUpd |-> 0, tcTimer |-> NULL,
              toldPos |-> NULL, toldTrack |-> NULL, closed |-> nothing, crashed |-> FALSE]
    BY DEF Init
  <2> HIDE DEF none, max, nothing
  <2>4. /\ pl \in Players /\ pl.inputs = none /\ pl.posUpd = 0 /\ pl.tcUpd = 0
        /\ pl.closed = nothing /\ pl.paused = FALSE /\ pl.defer = FALSE
    BY <2>2, <2>3 DEF Players
  <2> QED BY <2>4 DEF none, nothing
<1>3. Sane(pl) /\ Len(pl.inputs) = 0
  BY <1>1, <1>2 DEF Sane
<1>4. Sound(pl, sk, opened, faith)
  BY <1>1, <1>2, <1>3 DEF Sound, Owned, Early, Silent
<1>5. Settled(pl, sk, opened)
  BY <1>1, <1>2, <1>3 DEF Settled, Listed, LastOpen, Formatted, TimerSet
<1>6. Holds(pl, sk, asked, pc, opened, faith)
  BY <1>1, <1>2, <1>3, <1>4, <1>5 DEF Holds
<1>7. now \in 0 .. MaxTime /\ ops \in 0 .. MaxOps
  BY <1>1
<1> QED BY <1>6, <1>7 DEF IInv

LEMMA NextKeeps == IInv /\ [Next]_vars => IInv'
<1> SUFFICES ASSUME IInv, [Next]_vars PROVE IInv'
  OBVIOUS
<1>1. CASE Provide
  BY <1>1, ProvideKeeps
<1>2. CASE SkipProvide \/ SinkDefer \/ Poll \/ HandleDone \/ SinkEvent
  BY <1>2, LoopKeeps
<1>3. CASE TimerEvent
  BY <1>3, TimerKeeps
<1>4. CASE \E s \in Tracks : NextTrack(s) \/ SetInput(s)
  BY <1>4, TrackKeeps
<1>5. CASE \E on \in BOOLEAN : SetSink(on)
  BY <1>5, SetSinkKeeps
<1>6. CASE GotoNext \/ TogglePause \/ Stop
  BY <1>6, ControlKeeps
<1>7. CASE \E diff \in Seeks : Seek(diff)
  BY <1>7, SeekKeeps
<1>8. CASE Exit
  BY <1>8, ExitKeeps
<1>9. CASE Tick
  BY <1>9, TickKeeps
<1>10. CASE UNCHANGED vars
  <2>1. /\ pl' = pl /\ sk' = sk /\ now' = now /\ pc' = pc /\ asked' = asked
        /\ opened' = opened /\ ops' = ops /\ faith' = faith
    BY <1>10 DEF vars
  <2>2. Holds(pl, sk, asked, pc, opened, faith) /\ ops \in 0 .. MaxOps
    BY DEF IInv
  <2> QED BY <2>1, <2>2, StepIs
<1> QED BY <1>1, <1>2, <1>3, <1>4, <1>5, <1>6, <1>7, <1>8, <1>9, <1>10 DEF Next

\* The invariant above holds in every state of the player, whether or not
\* tracks fail to open.
THEOREM Inductive == Spec => []IInv
BY InitIs, NextKeeps, PTL DEF Spec

\* If every track opens, each stream main has handed over is one input of the
\* list or closed, and never both, through flushes, seeks and track changes.
THEOREM OwnedOnce == ~Fails => (Spec => []InputsOwned)
<1> SUFFICES ASSUME ~Fails PROVE Spec => []InputsOwned
  OBVIOUS
<1>1. IInv => InputsOwned
  <2> SUFFICES ASSUME IInv PROVE TypeOK /\ StreamsOwned
    BY DEF InputsOwned
  <2>1. /\ pl \in Players /\ pl.inputs \in Seq(InputType) /\ DOMAIN pl.inputs = 1 .. Len(pl.inputs)
        /\ \A i \in 1 .. Len(pl.inputs) : pl.inputs[i] \in InputType
    BY HereIs, SaneIs
  <2>2. TypeOK
    <3>1. /\ pl.paused \in BOOLEAN /\ pl.defer \in BOOLEAN /\ pl.force \in BOOLEAN
          /\ pl.posUpd \in Nat /\ pl.posMs \in Nat /\ pl.posSec \in Nat /\ pl.tcUpd \in Nat
          /\ pl.posTimer \in Nat \cup {NULL} /\ pl.tcTimer \in Nat \cup {NULL}
      BY <2>1 DEF Players
    <3>2. /\ faith \in BOOLEAN /\ sk \in Sinks \cup {NULL} /\ asked \in Questions \cup {NULL}
          /\ pc \in {"defer", "sinkdefer", "epoll", "handle", "next", "exited"}
          /\ (pc = "next") = (asked # NULL)
          /\ now \in 0 .. MaxTime /\ ops \in 0 .. MaxOps /\ opened \subseteq Streams
      BY DEF IInv, Holds
    <3> QED BY <2>1, <3>1, <3>2 DEF TypeOK
  <2>3. ASSUME pc # "exited"
        PROVE  /\ IsInjective([i \in DOMAIN pl.inputs |-> pl.inputs[i].s])
               /\ StreamsOf(pl.inputs) \cap pl.closed = {}
               /\ StreamsOf(pl.inputs) \cup pl.closed = opened
    <3>1. Owned(pl, opened)
      BY <2>3, HereIs DEF Sound
    <3>2. \A i, j \in DOMAIN pl.inputs : pl.inputs[i].s = pl.inputs[j].s => i = j
      BY <2>1, <3>1 DEF Owned
    <3>3. StreamsOf(pl.inputs) = {pl.inputs[i].s : i \in 1 .. Len(pl.inputs)}
      BY <2>1 DEF StreamsOf
    <3>4. StreamsOf(pl.inputs) = opened \ pl.closed /\ pl.closed \subseteq opened
      BY <3>1, <3>3 DEF Owned
    <3> QED BY <3>2, <3>4 DEF IsInjective
  <2> QED BY <2>2, <2>3 DEF StreamsOwned
<1> QED BY <1>1, Inductive, PTL

\* If every track opens, only the last input is decoded, and whenever the loop
\* asks for data there is one, in the format the sink expects.
THEOREM Decoded == ~Fails => (Spec => []LastIsDecoded)
<1> SUFFICES ASSUME ~Fails PROVE Spec => []LastIsDecoded
  OBVIOUS
<1>1. IInv => LastIsDecoded
  <2> SUFFICES ASSUME IInv, pc \notin {"exited", "next"}
               PROVE  /\ \A i \in DOMAIN pl.inputs : pl.inputs[i].eof <=> i < Len(pl.inputs)
                      /\ opened # {} => pl.inputs # <<>>
                      /\ pl.defer => /\ pl.inputs # <<>> /\ sk # NULL
                                     /\ sk.fmt = Format[Last(pl.inputs).s]
    BY DEF LastIsDecoded
  <2>1. pc \in {"defer", "sinkdefer", "epoll", "handle"}
    BY DEF IInv, Holds
  <2>2. Sane(pl) /\ Sound(pl, sk, opened, faith) /\ Settled(pl, sk, opened) /\ opened \subseteq Streams
    BY <2>1, HereIs
  <2>3. pl.inputs \in Seq(InputType) /\ DOMAIN pl.inputs = 1 .. Len(pl.inputs)
    BY <2>2, SaneIs
  <2>4. \A i \in DOMAIN pl.inputs : pl.inputs[i].eof <=> i < Len(pl.inputs)
    BY <2>2, <2>3 DEF Settled, Listed, LastOpen
  <2>5. opened # {} \/ pl.defer => pl.inputs # <<>>
    BY <2>2, <2>3 DEF Settled, Listed
  <2>6. ASSUME pl.defer PROVE sk # NULL /\ sk.fmt = Format[Last(pl.inputs).s]
    <3>1. sk # NULL /\ sk.fmt # NULL
      BY <2>2, <2>6 DEF Sound, Settled, Listed
    <3>2. Len(pl.inputs) > 0 /\ sk.fmt = FormatOf(pl.inputs[Len(pl.inputs)].s)
      BY <2>2, <3>1 DEF Settled, Listed, Formatted
    <3>3. Len(pl.inputs) \in 1 .. Len(pl.inputs) /\ Last(pl.inputs) = pl.inputs[Len(pl.inputs)]
      BY <2>3, <3>2 DEF Last
    <3>4. pl.inputs[Len(pl.inputs)].s \in Streams
      BY <2>2, <3>3 DEF Sound, Owned
    <3> QED BY <3>1, <3>2, <3>3, <3>4, FormatIs
  <2> QED BY <2>4, <2>5, <2>6
<1> QED BY <1>1, Inductive, PTL

\* The loop never waits for an event while the sink wants data.
THEOREM Forced == Spec => []NoStarvation
<1>1. IInv => NoStarvation
  BY DEF IInv, Holds, NoStarvation
<1> QED BY <1>1, Inductive, PTL

\* The timer of the next track change is set, and for the time that is left.
THEOREM TimerKept == Spec => []TrackTimerSet
<1>1. IInv => TrackTimerSet
  <2> SUFFICES ASSUME IInv, pc \notin {"exited", "next"}, ~pl.paused, pl.inputs # <<>>,
                      Head(pl.inputs).eof
               PROVE  pl.tcTimer = pl.tcUpd + Head(pl.inputs).rem
    BY DEF TrackTimerSet
  <2>1. pc \in {"defer", "sinkdefer", "epoll", "handle"}
    BY DEF IInv, Holds
  <2>2. Sane(pl) /\ TimerSet(pl)
    BY <2>1, HereIs DEF Settled
  <2>3. pl.inputs \in Seq(InputType)
    BY <2>2, SaneIs
  <2>4. Len(pl.inputs) > 0 /\ Head(pl.inputs) = pl.inputs[1]
    BY <2>3
  <2> QED BY <2>2, <2>4 DEF TimerSet
<1> QED BY <1>1, Inductive, PTL

\* Without a pause the player believes no input to be over before its last
\* tick was heard.
THEOREM HeardOut == Spec => []NotEarly
<1>1. IInv => NotEarly
  <2> SUFFICES ASSUME IInv, faith, pc # "exited", NEW i \in DOMAIN pl.inputs,
                      pl.inputs[i].left > 0
               PROVE  Remaining(pl.inputs[i]) >= pl.inputs[i].left
    BY DEF NotEarly
  <2>1. Sane(pl) /\ Early(pl) /\ ~pl.paused
    BY HereIs DEF Sound
  <2>2. i \in 1 .. Len(pl.inputs)
    BY <2>1, SaneIs
  <2> QED BY <2>1, <2>2 DEF Early, Remaining
<1> QED BY <1>1, Inductive, PTL

-----------------------------------------------------------------------------
(* The position.                                                           *)

LEMMA InitShown == Init => JInv
<1> SUFFICES ASSUME Init PROVE JInv
  OBVIOUS
<1>1. /\ sk = NULL /\ pc = "defer" /\ pl.inputs = <<>> /\ ~pl.paused
      /\ pl.posTimer = NULL /\ pl.toldPos = NULL
  BY DEF Init
<1>2. Len(pl.inputs) = 0
  BY <1>1
<1> QED BY <1>1, <1>2 DEF JInv, Shown, Timed, Fitting, Early, Behind, Advanced

\* Every step keeps the position behind what is heard; only a seek may take
\* back what was told of a list of the same streams.
LEMMA NextShown ==
  ASSUME ~Fails, IInv, IInv', JInv, [Next]_vars
  PROVE  JInv' /\ ((\E diff \in Seeks : Seek(diff)) \/ Told(pl, pl'))
<1>1. CASE Provide
  BY <1>1, ProvideShown
<1>2. CASE SkipProvide \/ Poll \/ HandleDone
  BY <1>2, LoopShown
<1>3. CASE SinkDefer
  <2>1. pc \in {"sinkdefer", "epoll", "handle"} /\ "epoll" \in {"epoll", "handle"}
    BY <1>3 DEF SinkDefer, At
  <2>2. CASE SinkRequest("epoll")
    BY <2>1, <2>2, RequestShown
  <2>3. CASE SinkInfo("epoll")
    BY <2>1, <2>3, InfoShown
  <2>4. CASE UNCHANGED pl
    BY <1>3, <2>4, LoopShown
  <2> QED BY <1>3, <2>2, <2>3, <2>4 DEF SinkDefer
<1>4. CASE SinkEvent
  <2>1. pc \in {"sinkdefer", "epoll", "handle"} /\ "handle" \in {"epoll", "handle"}
    BY <1>4 DEF SinkEvent, Event, At
  <2>2. CASE SinkRequest("handle")
    BY <2>1, <2>2, RequestShown
  <2>3. CASE SinkInfo("handle")
    BY <2>1, <2>3, InfoShown
  <2> QED BY <1>4, <2>2, <2>3 DEF SinkEvent
<1>5. CASE TimerEvent
  BY <1>5, TimerShown
<1>6. CASE \E s \in Tracks : NextTrack(s) \/ SetInput(s)
  BY <1>6, LoadShown
<1>7. CASE \E on \in BOOLEAN : SetSink(on)
  BY <1>7, SetSinkShown
<1>8. CASE GotoNext \/ TogglePause \/ Stop
  BY <1>8, ControlShown
<1>9. CASE \E diff \in Seeks : Seek(diff)
  BY <1>9, SeekShown
<1>10. CASE Exit
  BY <1>10, ExitShown
<1>11. CASE Tick
  BY <1>11, TickShown
<1>12. CASE UNCHANGED vars
  <2>1. pl' = pl /\ sk' = sk /\ now' = now /\ pc' = pc /\ faith' = faith
    BY <1>12 DEF vars
  <2>2. JInv'
    BY <2>1, ShownStep DEF JInv
  <2>3. Sane(pl) /\ Shows(pl, pl')
    BY <2>1 DEF IInv, Holds, Shows
  <2> QED BY <2>2, <2>3, ShowsIs DEF Told
<1> QED BY <1>1, <1>2, <1>3, <1>4, <1>5, <1>6, <1>7, <1>8, <1>9, <1>10, <1>11, <1>12 DEF Next

\* If every track opens, then without a pause or an underrun the position
\* shown is not ahead of what is heard, for all that the timer advances it
\* without asking the sink; and it goes back only by a seek or a change of
\* track, not because the sink's latency grows (player.c:96, 102).
THEOREM ToldTruly == ~Fails => (Spec => PositionShown)
<1> SUFFICES ASSUME ~Fails PROVE Spec => PositionShown
  OBVIOUS
<1>1. Init => IInv /\ JInv
  BY InitIs, InitShown
<1>2. IInv /\ JInv /\ [Next]_vars => (IInv /\ JInv)'
  BY NextKeeps, NextShown
<1>3. JInv => NotAhead
  BY DEF JInv, Shown, Behind, NotAhead, Heard, Unheard
<1>4. IInv /\ JInv /\ [Next]_vars =>
        [pl.toldPos # NULL /\ pl'.toldPos < pl.toldPos
           => \/ \E diff \in Seeks : Seek(diff)
              \/ StreamsOf(pl.inputs) # StreamsOf(pl'.inputs)]_vars
  <2> SUFFICES ASSUME IInv, JInv, [Next]_vars, pl.toldPos # NULL, pl'.toldPos < pl.toldPos
               PROVE  \/ \E diff \in Seeks : Seek(diff)
                      \/ StreamsOf(pl.inputs) # StreamsOf(pl'.inputs)
    OBVIOUS
  <2>1. IInv'
    BY NextKeeps
  <2>2. (\E diff \in Seeks : Seek(diff)) \/ Told(pl, pl')
    BY <2>1, NextShown
  <2>3. ~Rises(pl, pl')
    <3>1. pl.toldPos \in Nat
      BY DEF IInv, Holds, Sane, Players
    <3> QED BY <3>1 DEF Rises
  <2> QED BY <2>2, <2>3 DEF Told
<1> QED BY <1>1, <1>2, <1>3, <1>4, PTL DEF Spec, PositionShown, NeverBack
=============================================================================
