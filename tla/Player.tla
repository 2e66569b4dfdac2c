------------------------------- MODULE Player -------------------------------
(***************************************************************************)
(* The player thread (src/src/player.c) between a sink and the decoder     *)
(* streams main hands it: the list of inputs, of which the first is heard  *)
(* and the last is decoded, the timer that says when the first has been    *)
(* heard to its end, and the position shown to the user.                   *)
(*                                                                         *)
(* Time is discrete; Second ticks make a second, and positions, latencies  *)
(* and timers are in ticks.  A callback takes no time, except that asking  *)
(* main for the next track blocks the thread.  The sink is any sink that   *)
(* keeps the contract of include/sink.h, as plugins/pulse/ctx.c does; the  *)
(* streams are any that keep include/decoder.h.                            *)
(***************************************************************************)
EXTENDS Integers, SequencesExt

CONSTANTS
  Streams,   \* decoder streams main can open; each is also its cookie
  Length,    \* ticks of audio in each stream
  Format,    \* the audio format of each stream
  Capacity,  \* ticks of audio the sink buffers
  Second,    \* ticks in a second
  Seeks,     \* distances the user seeks
  MaxTime,   \* bound: the clock stops here
  MaxOps,    \* bound: user operations
  Fails,     \* may plugins_open fail, and return NULL?
  NULL

Formats == {Format[s] : s \in Streams}
Sinks == [fmt : Formats \cup {NULL}, buf : 0 .. Capacity, cork : BOOLEAN]
Questions == [flush : BOOLEAN, back : {"sinkdefer", "handle"}]

ASSUME ConstantsAssumption ==
  /\ Length \in [Streams -> Nat \ {0}]
  /\ DOMAIN Format = Streams
  /\ Capacity \in Nat \ {0} /\ Second \in Nat \ {0}
  /\ Seeks \subseteq Int /\ MaxTime \in Nat /\ MaxOps \in Nat /\ Fails \in BOOLEAN
  /\ NULL \notin Streams /\ NULL \notin Formats /\ NULL \notin Sinks /\ NULL \notin Questions

\* No timer is set to NULL.
ASSUME NullAssumption == NULL \notin Int

VARIABLES
  pl,      \* player.c's statics and its two timers
  sk,      \* the sink, NULL when there is none: format, audio held, corked
  now,     \* the monotonic clock
  pc,      \* where the loop of the player thread is
  asked,   \* main_get_next_track_SYNC in progress: [flush, back], or NULL
  opened,  \* streams main has opened
  ops,     \* user operations so far
  faith    \* no pause, underrun or change of sink has disturbed the timing

vars == <<pl, sk, now, pc, asked, opened, ops, faith>>

\* player_pos_sec starts at (u32)-1: above any position.
U32Max == 100 * MaxTime + 100

\* pos is pos_samples, at where the decoder is: ip_read tells where it was before the read.
Input(s) == [s |-> s, eof |-> FALSE, rem |-> 0, pos |-> 0, at |-> 0, left |-> 0]
NoFormat == [fmt |-> NULL, buf |-> 0, cork |-> FALSE]

Init ==
  /\ pl = [inputs |-> <<>>, paused |-> FALSE, defer |-> FALSE, force |-> FALSE,
           posUpd |-> 0, posMs |-> 0, posSec |-> U32Max, posTimer |-> NULL,
           tcUpd |-> 0, tcTimer |-> NULL,
           toldPos |-> NULL, toldTrack |-> NULL, closed |-> {}, crashed |-> FALSE]
  /\ sk = NULL /\ now = 0 /\ pc = "defer" /\ asked = NULL
  /\ opened = {} /\ ops = 0 /\ faith = TRUE

-----------------------------------------------------------------------------
(* The functions of player.c, from a player (and sink) to a player.        *)

Positive(n) == IF n > 0 THEN n ELSE 0
StreamsOf(inputs) == {inputs[i].s : i \in DOMAIN inputs}
Latency(k) == IF k = NULL THEN 0 ELSE k.buf

\* Whether player_timing_update reports a position of newSec seconds.
\* Mutant: one that is earlier, too.
TellAny(p, newSec, seeked) == newSec # p.posSec
Tell(p, newSec, seeked) ==
  newSec > p.posSec \/ (seeked /\ newSec # p.posSec)

\* player_timing_update
TimingUpdate(p, k, seeked) ==
  IF p.inputs = <<>>
  THEN [p EXCEPT !.posMs = 0, !.posSec = 0, !.posTimer = NULL, !.toldPos = 0]
  ELSE IF k = NULL \/ (p.paused /\ ~seeked)
  THEN [p EXCEPT !.posTimer = NULL, !.toldPos = p.posSec]
  ELSE IF Head(p.inputs).s = NULL THEN [p EXCEPT !.crashed = TRUE]
  ELSE LET first   == Head(p.inputs)
           latency == IF first.eof THEN Positive(first.rem - (now - p.tcUpd))
                      ELSE Latency(k)
           ms      == Positive(first.pos - latency)
           newSec  == ms \div Second
           tell    == Tell(p, newSec, seeked)
           sec     == IF tell THEN newSec ELSE p.posSec
       IN [p EXCEPT !.posUpd = now, !.posMs = ms, !.posSec = sec,
                    !.toldPos = IF tell THEN sec ELSE @,
                    !.posTimer = now + (sec + 1) * Second - ms]

\* player_track_change for every leading input that has been heard to its
\* end; of the updates in between only the last is visible.
DropEnded(p, k) ==
  LET alive == SelectInSeq(p.inputs, LAMBDA x : ~x.eof \/ x.rem > 0)
      n     == IF alive = 0 THEN Len(p.inputs) ELSE alive - 1
  IN IF n = 0 THEN p
     ELSE TimingUpdate([p EXCEPT !.toldTrack = p.inputs[n].s,
                                 !.closed = @ \cup StreamsOf(SubSeq(p.inputs, 1, n)),
                                 !.inputs = SubSeq(@, n + 1, Len(@))], k, TRUE)

\* player_continue_track_change_timer
ContinueTimer(p, k) ==
  IF p.paused THEN p
  ELSE LET q == DropEnded(p, k)
       IN IF q.inputs = <<>> \/ ~q.inputs[1].eof THEN q
          ELSE [q EXCEPT !.tcTimer = now + q.inputs[1].rem]

\* player_start_track_change_timer
StartTimer(p, k) == ContinueTimer([p EXCEPT !.tcUpd = now], k)

\* Mutant: the update time stays.
TrackTickStale(p, k) ==
  LET aged == [i \in DOMAIN p.inputs |->
                 [p.inputs[i] EXCEPT !.rem = @ - (now - p.tcUpd)]]
  IN ContinueTimer(DropEnded([p EXCEPT !.inputs = aged], k), k)

\* Mutant: the timer is not set again for the input that is now first.
TrackTickOnce(p, k) ==
  LET aged == [i \in DOMAIN p.inputs |->
                 [p.inputs[i] EXCEPT !.rem = @ - (now - p.tcUpd)]]
  IN DropEnded([p EXCEPT !.tcUpd = now, !.inputs = aged], k)

\* player_track_change_tick
TrackTick(p, k) ==
  LET aged == [i \in DOMAIN p.inputs |->
                 [p.inputs[i] EXCEPT !.rem = @ - (now - p.tcUpd)]]
  IN ContinueTimer(DropEnded([p EXCEPT !.tcUpd = now, !.inputs = aged], k), k)

\* player_pause_track_change_timer
PauseTimer(p, k) == TrackTick([p EXCEPT !.tcTimer = NULL], k)

\* player_pos_tick; the timer goes on with a period of a second.
PosTick(p) ==
  LET ms   == p.posMs + (now - p.posUpd)
      next == p.posTimer + Second * ((now - p.posTimer) \div Second + 1)
  IN IF p.paused THEN [p EXCEPT !.posTimer = next]
     ELSE [p EXCEPT !.posTimer = next, !.posUpd = now, !.posMs = ms,
                    !.posSec = ms \div Second,
                    !.toldPos = IF ms \div Second # p.posSec
                                THEN ms \div Second ELSE @]

\* Mutant: the iteration is not forced.
RequestQuietly(p, request) == [p EXCEPT !.defer = request]

\* player_sink_request_input
RequestInput(p, request) ==
  [p EXCEPT !.defer = request, !.force = @ \/ request]

\* Audio the sink drops is not going to be heard.
Silenced(p) ==
  [p EXCEPT !.inputs = [i \in DOMAIN @ |-> [@[i] EXCEPT !.left = 0]]]

\* sink->set_format: the sink plays out what it holds; a stream of a new
\* format asks for nothing yet.
SetFormat(k, f) == [k EXCEPT !.fmt = f]
OnFormat(p, k, f) == IF f \in {k.fmt, NULL} THEN p ELSE RequestInput(p, FALSE)

\* sink->flush: what the sink holds is dropped.  A stream that keeps its
\* format may still want data, a new one asks for nothing yet.
Flush(k, f) == [k EXCEPT !.fmt = f, !.buf = 0]
OnFlush(p, k, f, want) ==
  IF f = NULL THEN Silenced(p)
  ELSE RequestInput(Silenced(p), want /\ f = k.fmt)

-----------------------------------------------------------------------------
(* The loop of the player thread.  An iteration runs the player's deferred *)
(* callback, then the sink's, then waits for events, at once if the        *)
(* iteration is forced, and handles some.                                  *)

\* Of no stream &s->fmt, its first member, is NULL; nothing can be read of it.
FormatOf(s) == IF s = NULL THEN NULL ELSE Format[s]
LengthOf(s) == IF s = NULL THEN 0 ELSE Length[s]

At(where) == pc = where /\ ~pl.crashed

\* player_provide_input: a read gives some of what is asked for, nothing at the end of the
\* stream, or fails; the player does not survive that.
Provide ==
  /\ At("defer") /\ pl.defer
  /\ LET last  == Last(pl.inputs)
         space == Capacity - sk.buf
         rest  == LengthOf(last.s) - last.at
         n     == Len(pl.inputs)
     IN \/ /\ space = 0
           /\ pl' = [pl EXCEPT !.defer = FALSE]
           /\ pc' = "sinkdefer"
           /\ UNCHANGED <<sk, asked>>
        \/ \E len \in 1 .. space :
              /\ len <= rest
              /\ sk' = [sk EXCEPT !.buf = @ + len]
              /\ LET p == [pl EXCEPT !.inputs[n] = [last EXCEPT !.pos = last.at, !.at = last.at + len],
                                     !.defer = len < space, !.force = TRUE]
                 IN pl' = TimingUpdate(p, sk', FALSE)
              /\ pc' = "sinkdefer"
              /\ UNCHANGED asked
        \/ /\ space > 0
           /\ pl' = [pl EXCEPT !.crashed = TRUE]
           /\ UNCHANGED <<sk, pc, asked>>
        \/ /\ space > 0 /\ rest = 0
           /\ LET p == [pl EXCEPT !.inputs[n] = [last EXCEPT !.pos = last.at, !.eof = TRUE,
                                                            !.rem = sk.buf, !.left = sk.buf],
                                  !.force = TRUE]
              IN pl' = TimingUpdate(StartTimer(p, sk), sk, FALSE)
           /\ asked' = [flush |-> FALSE, back |-> "sinkdefer"]
           /\ pc' = "next"
           /\ UNCHANGED sk
  /\ UNCHANGED <<now, opened, ops, faith>>

SkipProvide ==
  /\ At("defer") /\ ~pl.defer
  /\ pc' = "sinkdefer"
  /\ UNCHANGED <<pl, sk, now, asked, opened, ops, faith>>

\* The inputs are freed: player_input_free for each.
\* Mutant: the list is emptied without closing the streams.
ForgetAll(p) == [p EXCEPT !.inputs = <<>>]
FreeAll(p) == [p EXCEPT !.inputs = <<>>, !.closed = @ \cup StreamsOf(p.inputs),
                        !.crashed = @ \/ NULL \in StreamsOf(p.inputs)]

\* player_input_load, with a track or, as the thread ends, with none.
InputLoad(p, k, s, flush, want) ==
  LET was  == p.inputs # <<>>
      kept == IF flush THEN FreeAll(p) ELSE p
      q    == [kept EXCEPT !.inputs = Append(@, Input(s)),
                           !.toldTrack = IF kept.inputs = <<>> THEN s ELSE @]
  IN IF k = NULL THEN [p |-> TimingUpdate(q, k, TRUE), k |-> k]
     ELSE LET f  == FormatOf(s)
              k2 == IF was /\ flush THEN Flush(k, f) ELSE SetFormat(k, f)
              q2 == IF was /\ flush THEN OnFlush(q, k, f, want)
                    ELSE IF s # NULL THEN OnFormat(q, k, f)
                    ELSE [q EXCEPT !.defer = FALSE]
          IN [p |-> TimingUpdate(q2, k2, TRUE), k |-> k2]

\* main_get_next_track_SYNC returns and player_goto_next_ goes on.
NextTrack(s) ==
  /\ At("next")
  /\ s \notin opened /\ opened' = opened \cup ({s} \ {NULL})
  /\ \E want \in BOOLEAN :
       LET r == InputLoad(pl, sk, s, asked.flush, want)
       IN pl' = r.p /\ sk' = r.k
  /\ pc' = asked.back /\ asked' = NULL
  /\ UNCHANGED <<now, ops, faith>>

\* A callback of the sink asks for data or calls it off.
SinkRequest(back) ==
  /\ sk # NULL /\ sk.fmt # NULL
  /\ pl' = RequestInput(pl, sk.buf < Capacity)
  /\ pc' = back
  /\ UNCHANGED <<sk, now, asked, opened, ops, faith>>

\* player_sink_info_changed: the sink tells what it does, or that something
\* else changed.
SinkInfo(back) ==
  /\ sk # NULL /\ (sk.fmt # NULL \/ sk.buf > 0)
  /\ LET p == [pl EXCEPT !.paused = sk.cork]
         q == IF p.paused THEN PauseTimer(p, sk) ELSE StartTimer(p, sk)
     IN pl' = TimingUpdate(q, sk, FALSE)
  /\ pc' = back
  /\ UNCHANGED <<sk, now, asked, opened, ops, faith>>

\* The deferred callbacks of the sink, which run after the player's.
SinkDefer ==
  /\ At("sinkdefer")
  /\ \/ SinkRequest("epoll") \/ SinkInfo("epoll")
     \/ /\ pc' = "epoll"
        /\ UNCHANGED <<pl, sk, now, asked, opened, ops, faith>>

\* epoll_wait with a timeout of 0.
Poll ==
  /\ At("epoll") /\ pl.force
  /\ pl' = [pl EXCEPT !.force = FALSE]
  /\ pc' = "handle"
  /\ UNCHANGED <<sk, now, asked, opened, ops, faith>>

HandleDone ==
  /\ At("handle")
  /\ pc' = "defer"
  /\ UNCHANGED <<pl, sk, now, asked, opened, ops, faith>>

\* An event is handled: one of a batch, or the one that ended the wait.
Event == At("handle") \/ (At("epoll") /\ ~pl.force)

SinkEvent == Event /\ (SinkRequest("handle") \/ SinkInfo("handle"))

Due(timer) == timer # NULL /\ timer <= now

TimerEvent ==
  /\ Event
  /\ \/ /\ Due(pl.posTimer)
        /\ pl' = PosTick(pl)
     \/ /\ Due(pl.tcTimer)
        /\ pl' = TrackTick([pl EXCEPT !.tcTimer = NULL], sk)
  /\ pc' = "handle"
  /\ UNCHANGED <<sk, now, asked, opened, ops, faith>>

-----------------------------------------------------------------------------
(* The delegates of the user's operations.                                 *)

Operation == Event /\ ops < MaxOps /\ ops' = ops + 1 /\ UNCHANGED now

\* player_set_sink_delegate; the old sink stops and drops what it holds.
SetSink(on) ==
  /\ Operation
  /\ LET f == IF pl.inputs = <<>> THEN NULL ELSE FormatOf(Last(pl.inputs).s)
         p == IF sk = NULL THEN pl ELSE [Silenced(pl) EXCEPT !.defer = FALSE]
     IN /\ sk' = IF on THEN SetFormat(NoFormat, f) ELSE NULL
        /\ pl' = IF on THEN OnFormat(p, NoFormat, f) ELSE p
  /\ faith' = (faith /\ pl.inputs = <<>>)
  /\ pc' = "handle"
  /\ UNCHANGED <<asked, opened>>

\* player_set_input_delegate
SetInput(s) ==
  /\ Operation
  /\ s \notin opened /\ opened' = opened \cup ({s} \ {NULL})
  /\ \E want \in BOOLEAN :
       LET r == InputLoad(pl, sk, s, TRUE, want)
       IN pl' = r.p /\ sk' = r.k
  /\ pc' = "handle"
  /\ UNCHANGED <<asked, faith>>

\* player_goto_next_delegate
GotoNext ==
  /\ Operation
  /\ asked' = [flush |-> TRUE, back |-> "handle"]
  /\ pc' = "next"
  /\ UNCHANGED <<pl, sk, opened, faith>>

\* player_toggle_pause_delegate; the sink reports back later.
TogglePause ==
  /\ Operation
  /\ sk # NULL
  /\ sk' = [sk EXCEPT !.cork = ~pl.paused]
  /\ faith' = FALSE
  /\ pc' = "handle"
  /\ UNCHANGED <<pl, asked, opened>>

\* player_stop_delegate, which does not ask whether there is a sink.
Stop ==
  /\ Operation
  /\ pl' = [pl EXCEPT !.defer = FALSE, !.crashed = @ \/ sk = NULL]
  /\ sk' = IF sk = NULL THEN NULL ELSE SetFormat(sk, NULL)
  /\ faith' = FALSE
  /\ pc' = "handle"
  /\ UNCHANGED <<asked, opened>>

\* The input that stays in the list after a seek.
\* Mutant: it keeps its end-of-file mark.
SoughtStillEnded(x, pos) == [x EXCEPT !.pos = pos, !.at = pos]
Sought(x, pos) == [x EXCEPT !.pos = pos, !.at = pos, !.eof = FALSE]

\* player_seek_delegate: relative to what is heard.  Past the end the first
\* input is given up for the second, or for a track main has to name.
Seek(diff) ==
  /\ Operation
  /\ pl.inputs # <<>>
  /\ LET first  == Head(pl.inputs)
         pos    == Positive(first.at + diff - Latency(sk))
         past   == pos >= LengthOf(first.s)
         gone   == past /\ Len(pl.inputs) = 1
         kept   == IF past THEN Sought(pl.inputs[2], 0) ELSE Sought(first, pos)
         p      == IF gone THEN FreeAll(pl)
                   ELSE [FreeAll(pl) EXCEPT !.inputs = <<kept>>, !.closed = @ \ {kept.s}]
         f      == IF gone THEN NULL ELSE FormatOf(kept.s)
     IN \E want \in BOOLEAN :
          LET q == IF sk = NULL THEN p ELSE OnFlush(p, sk, f, want)
          IN /\ sk' = IF sk = NULL THEN NULL ELSE Flush(sk, f)
             /\ \/ /\ gone
                   /\ pl' = q
                   /\ asked' = [flush |-> TRUE, back |-> "handle"]
                   /\ pc' = "next"
                \/ /\ ~gone
                   /\ pl' = TimingUpdate(PauseTimer(q, sk'), sk', TRUE)
                   /\ pc' = "handle"
                   /\ UNCHANGED asked
  /\ UNCHANGED <<opened, faith>>

\* player_exit_delegate stops the loop; player_run lets go of the sink and
\* appends an input without a stream.
Exit ==
  /\ Operation
  /\ pc' = "exited"
  /\ sk' = NULL
  /\ LET p == IF sk = NULL THEN pl ELSE [Silenced(pl) EXCEPT !.defer = FALSE]
     IN pl' = InputLoad(p, NULL, NULL, FALSE, FALSE).p
  /\ UNCHANGED <<asked, opened, faith>>

-----------------------------------------------------------------------------
(* Time passes while the thread waits, for main or for an event: a timer   *)
(* that is due is such an event.  An uncorked sink plays meanwhile.        *)

\* A tick of what is left of each input is heard.
Played(p) ==
  [p EXCEPT !.inputs = [i \in DOMAIN @ |-> [@[i] EXCEPT !.left = Positive(p.inputs[i].left - 1)]]]

Tick ==
  /\ \/ At("next")
     \/ At("epoll") /\ ~Due(pl.posTimer) /\ ~Due(pl.tcTimer)
  /\ now < MaxTime
  /\ now' = now + 1
  /\ LET plays == sk # NULL /\ ~sk.cork /\ sk.buf > 0
     IN /\ sk' = IF plays THEN [sk EXCEPT !.buf = @ - 1] ELSE sk
        /\ pl' = IF plays
                 THEN Played(pl) ELSE pl
        /\ faith' = (faith /\ (plays \/ pl.inputs = <<>>))
  /\ UNCHANGED <<pc, asked, opened, ops>>

\* What main may hand over: a stream it opens, or none if plugins_open fails.
Tracks == IF Fails THEN Streams \cup {NULL} ELSE Streams

Next ==
  \/ Provide \/ SkipProvide \/ SinkDefer \/ Poll \/ HandleDone
  \/ SinkEvent \/ TimerEvent
  \/ \E s \in Tracks : NextTrack(s) \/ SetInput(s)
  \/ \E on \in BOOLEAN : SetSink(on)
  \/ GotoNext \/ TogglePause \/ Stop
  \/ \E diff \in Seeks : Seek(diff)
  \/ Exit
  \/ Tick

Spec == Init /\ [][Next]_vars

-----------------------------------------------------------------------------
(* Properties.                                                             *)

InputType == [s : Streams \cup {NULL}, eof : BOOLEAN, rem : Int, pos : Nat, at : Nat, left : Nat]

TypeOK ==
  /\ \A i \in DOMAIN pl.inputs : pl.inputs[i] \in InputType
  /\ {pl.paused, pl.defer, pl.force, faith} \subseteq BOOLEAN
  /\ {pl.posUpd, pl.posMs, pl.posSec, pl.tcUpd} \subseteq Nat
  /\ {pl.posTimer, pl.tcTimer} \subseteq Nat \cup {NULL}
  /\ sk \in Sinks \cup {NULL} /\ asked \in Questions \cup {NULL}
  /\ pc \in {"defer", "sinkdefer", "epoll", "handle", "next", "exited"}
  /\ (pc = "next") = (asked # NULL)
  /\ now \in 0 .. MaxTime /\ ops \in 0 .. MaxOps /\ opened \subseteq Streams

\* Every stream main has handed over is either one input of the list or
\* closed, never both and never two inputs: none is leaked, used after its
\* close, or closed twice by the flushes, seeks and track changes, which
\* each remove inputs in their own way.
StreamsOwned ==
  pc # "exited" =>
    /\ IsInjective([i \in DOMAIN pl.inputs |-> pl.inputs[i].s])
    /\ StreamsOf(pl.inputs) \cap pl.closed = {}
    /\ StreamsOf(pl.inputs) \cup pl.closed = opened

\* The list of inputs is well-formed and owns the streams that are open.
InputsOwned == TypeOK /\ StreamsOwned

\* Only the last input is decoded: those before it are at their end, and it
\* is not unless main is being asked for the next.  So when the loop asks
\* for data there is an input to read (player_provide_input does not check,
\* player.c:314-316), and the sink expects its format.
LastIsDecoded ==
  pc \notin {"exited", "next"} =>
    /\ \A i \in DOMAIN pl.inputs : pl.inputs[i].eof <=> i < Len(pl.inputs)
    /\ opened # {} => pl.inputs # <<>>
    /\ pl.defer => /\ pl.inputs # <<>> /\ sk # NULL
                   /\ sk.fmt = Format[Last(pl.inputs).s]

\* The loop never waits for an event while the sink wants data: whoever
\* enables the deferred callback after it was skipped forces an iteration.
NoStarvation == pc = "epoll" /\ pl.defer => pl.force

\* While playing, the track-change timer of an input at its end is set, and
\* for the time that is left of it: the track change is not missed however
\* pauses, seeks, ends of input and track changes follow each other.
TrackTimerSet ==
  pc \notin {"exited", "next"} /\ ~pl.paused /\ pl.inputs # <<>> /\ Head(pl.inputs).eof
    => pl.tcTimer = pl.tcUpd + Head(pl.inputs).rem

\* What player.c believes to be left of an input at its end.
Remaining(x) == x.rem - (IF pl.paused THEN 0 ELSE now - pl.tcUpd)

\* Without a pause the player never believes an input to be over, and so
\* never reports a track change, before its last tick was heard.
NotEarly ==
  faith /\ pc # "exited" =>
    \A i \in DOMAIN pl.inputs :
      pl.inputs[i].left > 0 => Remaining(pl.inputs[i]) >= pl.inputs[i].left

\* What the user hears now.
Heard == LET x == Head(pl.inputs)
         IN x.at - (IF x.eof THEN x.left ELSE Latency(sk))

\* Without a pause or an underrun the position shown is not ahead of what is
\* heard, although the timer advances it without asking the sink, and although
\* what is left of an input that has ended is a guess; nor is it when a track
\* change is overdue.
NotAhead ==
  faith /\ pc \notin {"exited", "next"} /\ pl.inputs # <<>> /\ sk # NULL
    => pl.posSec * Second <= Heard

\* The position shown goes back only by a seek or a change of track, not by
\* the sink's latency growing (player.c:96, 102).
NeverBack ==
  [][pl.toldPos # NULL /\ pl'.toldPos < pl.toldPos
       => \/ \E diff \in Seeks : Seek(diff)
          \/ StreamsOf(pl.inputs) # StreamsOf(pl'.inputs)]_vars

\* What the user reads is true: not ahead of the audio, and never taken back.
PositionShown == []NotAhead /\ NeverBack

(* Not so; see section 4 of the README.                                    *)

\* player.c:24 says of remaining_ms: "until this track has been fully
\* played".  Without a pause, that is what is left in the sink.
RemainingIsTrue ==
  faith /\ pc # "exited" =>
    \A i \in DOMAIN pl.inputs :
      pl.inputs[i].left > 0 => Remaining(pl.inputs[i]) = pl.inputs[i].left

\* player.c:250 asks whether there is a stream to play (`s != NULL`): a track that does
\* not open stops the player, and no more.  What ends the thread is a read that fails, and
\* a stop when there is no sink.
NoTrackSurvived == [][~pl.crashed /\ pl'.crashed => Provide \/ Stop]_vars

\* main prints "track changed: %s" (main.c:310): what it was told last is the
\* track that is now heard.
TrackShown ==
  pc = "epoll" /\ pl.inputs # <<>> => pl.toldTrack = Head(pl.inputs).s
=============================================================================
