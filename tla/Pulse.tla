------------------------------- MODULE Pulse -------------------------------
(***************************************************************************)
(* The pulse plugin (ctx.c and stream.c) between the player and a          *)
(* PulseAudio server.  The plugin keeps a list of streams: the first is    *)
(* heard, the last is the one the player writes to, and each track of a    *)
(* new format adds a stream, while those before it drain.                  *)
(*                                                                         *)
(* Everything runs on the player's thread: a step is a callback of         *)
(* libpulse or a callback of the player with all the calls it makes.       *)
(* Commands reach the server in the order they are sent, and an answer     *)
(* tells what was so when the server handled the question.  The player     *)
(* makes the calls player.c makes.                                         *)
(***************************************************************************)
EXTENDS Naturals, SequencesExt

CONSTANTS
  Formats,     \* audio formats of tracks
  Target,      \* what the server wants to hold of a stream
  Block,       \* what libpulse takes at once
  MaxStreams,  \* bound: streams the plugin creates
  MaxPending,  \* bound: questions not answered yet
  Muting,      \* bound: whether anybody mutes or unmutes
  NULL

Streams == 1 .. MaxStreams

\* What the process can die of.
Deaths == {"cork", "info", "invalid state", "failed", "stream died", "assertion"}

ASSUME ConstantsAssumption ==
  /\ NULL \notin Formats /\ NULL \notin Streams /\ NULL \notin Deaths
  /\ {Target, Block, MaxStreams, MaxPending} \subseteq Nat \ {0}
  /\ Muting \in BOOLEAN

VARIABLES
  c,       \* struct pulse_ctx_priv; fmt is NULL if have_fmt is false
  st,      \* the streams, and what the server knows of each
  player,  \* whether the player wants to write, and what it was told
  asked,   \* questions about streams, with the answers to come
  dead     \* why the process has died, or NULL

vars == <<c, st, player, asked, dead>>

\* pulse_ctx_init
Disabled == [state |-> "disabled", streams |-> <<>>, input |-> NULL, fmt |-> NULL,
             mute |-> FALSE, paused |-> FALSE]

NoStream == [made |-> FALSE, live |-> FALSE, fmt |-> NULL, state |-> "connecting",
             req |-> 0, drain |-> FALSE, cork |-> FALSE, mute |-> FALSE, buf |-> 0,
             fed |-> FALSE, owed |-> FALSE, news |-> FALSE]

Init ==
  /\ c = Disabled
  /\ st = [s \in Streams |-> NoStream]
  /\ player = [sink |-> "none", want |-> FALSE, paused |-> FALSE, mute |-> FALSE]
  /\ asked = <<>>
  /\ dead = NULL

World == [c |-> c, st |-> st, want |-> player.want, dead |-> NULL]

-----------------------------------------------------------------------------
(* The functions of ctx.c and stream.c, from a world to a world: the       *)
(* context, the streams, the player's wish to write, and death.            *)

Playing(w) == IF w.c.streams = <<>> THEN NULL ELSE Head(w.c.streams)

Freed == [NoStream EXCEPT !.made = TRUE]

\* Mutant: the drain operation is not cancelled.
FreeStreamDraining(w, s) == [w EXCEPT !.st[s] = [Freed EXCEPT !.drain = w.st[s].drain]]

\* pulse_stream_free: nothing but an answer to a question comes any more.
FreeStream(w, s) == [w EXCEPT !.st[s] = Freed]

\* pulse_ctx_set_input
SetInput(w, s) ==
  [w EXCEPT !.c.input = s, !.c.fmt = w.st[s].fmt, !.want = w.st[s].req # 0]

\* Mutant: the new stream starts at once.
CreateInputPlaying(w, f) ==
  LET s == CHOOSE i \in Streams : ~w.st[i].made /\ \A j \in 1 .. i - 1 : w.st[j].made
      new == [NoStream EXCEPT !.made = TRUE, !.live = TRUE, !.fmt = f, !.cork = w.c.paused]
  IN [SetInput([w EXCEPT !.st[s] = new], s) EXCEPT !.c.streams = Append(@, s)]

\* pulse_ctx_create_input_stream: behind another stream, or while paused, it
\* starts corked.
CreateInput(w, f) ==
  LET s == CHOOSE i \in Streams : ~w.st[i].made /\ \A j \in 1 .. i - 1 : w.st[j].made
      new == [NoStream EXCEPT !.made = TRUE, !.live = TRUE, !.fmt = f,
                              !.cork = w.c.streams # <<>> \/ w.c.paused]
  IN [SetInput([w EXCEPT !.st[s] = new], s) EXCEPT !.c.streams = Append(@, s)]

\* pulse_stream_set_pause: libpulse gives no operation for a stream that is
\* not ready, and pa_operation_unref dies of it.
SetStreamPause(w, s, b) ==
  IF w.st[s].state # "ready" THEN [w EXCEPT !.dead = "cork"]
  ELSE [w EXCEPT !.st[s].cork = b, !.st[s].news = @ \/ w.st[s].cork # b]

\* pulse_stream_set_mute: before the stream is ready its index is not known,
\* and the server mutes something else, if anything.
SetStreamMute(w, s, b) ==
  IF w.st[s].state # "ready" THEN w
  ELSE [w EXCEPT !.st[s].mute = b, !.st[s].news = @ \/ w.st[s].mute # b]

\* Mutant: whichever stream has drained is taken for the first.
DrainedAny(w, s) ==
  LET v == [FreeStream(w, s) EXCEPT !.c.streams = Tail(@)]
      n == Playing(v)
  IN IF n = NULL THEN v
     ELSE SetStreamPause(SetStreamMute(v, n, v.c.mute), n, v.c.paused)

\* pulse_ctx_stream_drained: the next stream is heard.
Drained(w, s) ==
  LET v == IF s = Playing(w)
           THEN [FreeStream(w, s) EXCEPT !.c.streams = Tail(@)] ELSE w
      n == Playing(v)
  IN IF n = NULL THEN v
     ELSE SetStreamPause(SetStreamMute(v, n, v.c.mute), n, v.c.paused)

\* Mutant: a stream that is ready is not waited for either.
SetDrainAtOnce(w, s, b) == IF b THEN Drained(w, s) ELSE w

\* pulse_stream_set_drain
SetDrain(w, s, b) ==
  IF w.st[s].state = "ready" THEN [w EXCEPT !.st[s].drain = b]
  ELSE IF b THEN Drained(w, s) ELSE w

\* Mutant: only the input is looked at.
RequestChangedInput(w, s) ==
  IF s = w.c.input THEN [w EXCEPT !.want = w.st[s].req # 0] ELSE w

\* pulse_ctx_stream_request_changed
RequestChanged(w, s) ==
  IF s = w.c.input THEN [w EXCEPT !.want = w.st[s].req # 0]
  ELSE SetDrain(w, s, TRUE)

\* pulse_ctx_set_input_format
SetInputFormat(w, f) ==
  LET drained == IF Playing(w) = NULL THEN w ELSE SetDrain(w, Playing(w), TRUE)
      bare    == [drained EXCEPT !.c.input = NULL, !.c.fmt = f]
  IN CASE w.c.state = "enabled"  -> [w EXCEPT !.c.fmt = f]
       [] w.c.state = "disabled" -> [w EXCEPT !.dead = "invalid state"]
       [] OTHER -> IF f # NULL /\ f = w.c.fmt THEN w
                   ELSE IF f = NULL THEN bare ELSE CreateInput(bare, f)

\* pulse_ctx_flush: only the first stream may stay, for its own format.
CtxFlush(w, f) ==
  LET s     == Playing(w)
      first == [w EXCEPT !.st = [i \in Streams |->
                  IF i \in ToSet(w.c.streams) \ {s} THEN FreeStream(w, i).st[i]
                  ELSE w.st[i]],
                         !.c.streams = IF s = NULL THEN <<>> ELSE <<s>>,
                         !.c.input = NULL, !.c.fmt = NULL]
      kept  == LET v == SetDrain(first, s, FALSE)
               IN SetInput(IF w.st[s].state = "ready"
                           THEN [v EXCEPT !.st[s].buf = 0, !.st[s].owed = TRUE] ELSE v, s)
  IN SetInputFormat(
       IF w.c.state # "ready" THEN w
       ELSE IF s = NULL THEN first
       ELSE IF f = w.st[s].fmt THEN kept
       ELSE [FreeStream(first, s) EXCEPT !.c.streams = <<>>], f)

\* pulse_stream_query_info: the question and its answer.
Question(s) == [s |-> s, paused |-> st[s].cork, mute |-> st[s].mute]

-----------------------------------------------------------------------------
\* Nothing is left of a process that dies.
Die(why) ==
  /\ dead' = why /\ c' = Disabled /\ asked' = <<>>
  /\ st' = [s \in Streams |-> NoStream]
  /\ player' = [sink |-> "none", want |-> FALSE, paused |-> FALSE, mute |-> FALSE]

\* The step ends in world w, with the player's sink not loaded yet, loaded, or
\* unloaded for good (pulse_ctx_disable forgets the player's callbacks).
Become(w, sink) ==
  IF w.dead # NULL THEN Die(w.dead)
  ELSE /\ c' = w.c /\ st' = w.st
       /\ player' = [player EXCEPT !.want = w.want, !.sink = sink]
       /\ UNCHANGED <<asked, dead>>

Room == \E s \in Streams : ~st[s].made

(* The player.                                                             *)

\* player_sink_load with a sink; the server may not even be there.
Enable(f) ==
  /\ player.sink = "none"
  /\ \E rc \in BOOLEAN :
       LET v == [World EXCEPT !.c.state = IF rc THEN "enabled" ELSE "disabled"]
           w == IF f = NULL THEN v ELSE SetInputFormat(v, f)
       IN Become(w, "loaded")

\* player_sink_load without one, as the player's thread ends.
Disable ==
  /\ player.sink = "loaded"
  /\ LET w == SetInputFormat([World EXCEPT !.want = FALSE], NULL)
         gone == [s \in Streams |-> IF w.st[s].live THEN Freed ELSE w.st[s]]
     IN Become([w EXCEPT !.c = Disabled, !.st = gone, !.want = FALSE], "gone")

\* player_input_load: the first track.
FirstFormat(f) ==
  /\ player.sink = "loaded" /\ c.fmt = NULL /\ Room
  /\ Become(SetInputFormat(World, f), player.sink)

\* Mutant: the deferred callback that writes stays enabled.
StopInputWanting ==
  /\ player.sink = "loaded"
  /\ Become(SetInputFormat(World, NULL), player.sink)

\* player_stop_delegate
StopInput ==
  /\ player.sink = "loaded"
  /\ Become(SetInputFormat([World EXCEPT !.want = FALSE], NULL), player.sink)

\* player_seek_delegate, player_set_input_delegate, player_goto_next_delegate
FlushInput(f) ==
  /\ player.sink = "loaded" /\ Room
  /\ \/ Become(CtxFlush(World, f), player.sink)
     \/ Become(SetInputFormat(CtxFlush(World, NULL), f), player.sink)

\* player_toggle_pause_delegate
TogglePause ==
  /\ player.sink = "loaded"
  /\ LET w == [World EXCEPT !.c.paused = ~player.paused]
         s == Playing(w)
     IN Become(IF s = NULL THEN w ELSE SetStreamPause(w, s, ~player.paused), player.sink)

\* player_toggle_mute_delegate
ToggleMute ==
  /\ player.sink = "loaded" /\ Muting
  /\ LET w == [World EXCEPT !.c.mute = ~player.mute]
         s == Playing(w)
     IN Become(IF s = NULL THEN w ELSE SetStreamMute(w, s, ~player.mute), player.sink)

\* The assertions of provide_buf and commit_buf.
MayWrite == c.state = "ready" /\ c.input # NULL /\ st[c.input].state = "ready"

\* player_provide_input: libpulse gives a buffer, of a size that is not what
\* was asked for; some of it is written, or the track is at its end (it had
\* some audio) and the next begins, or something fails.
ProvideInput ==
  /\ player.sink = "loaded" /\ player.want
  /\ IF ~MayWrite THEN Die("assertion")
     ELSE LET s == c.input
          IN \/ \E n \in 1 .. Block :
                  LET left == IF st[s].req > n THEN st[s].req - n ELSE 0
                      v == [World EXCEPT !.st[s].req = left, !.st[s].buf = @ + n,
                                         !.st[s].fed = TRUE]
                  IN Become(IF left = 0 THEN RequestChanged(v, s) ELSE v, player.sink)
             \/ /\ st[s].fed /\ Room
                /\ \E f \in Formats : Become(SetInputFormat(World, f), player.sink)
             \/ Die("failed")

-----------------------------------------------------------------------------
(* Callbacks of libpulse.                                                  *)

\* The server's word has to come in order: no question overtakes another.
MayAsk == Len(asked) < MaxPending

\* pulse_ctx_on_ready
ContextReady ==
  /\ c.state = "enabled" /\ (c.fmt = NULL \/ Room)
  /\ LET w == [World EXCEPT !.c.state = "ready"]
     IN Become(IF c.fmt = NULL THEN w ELSE CreateInput(w, c.fmt), player.sink)

\* pulse_ctx_on_failed: the player takes it for a bug.
ContextFailed == c.state # "disabled" /\ Die("failed")

\* pulse_stream_on_ready
StreamReady(s) ==
  /\ st[s].live /\ st[s].state = "connecting" /\ MayAsk
  /\ st' = [st EXCEPT ![s].state = "ready", ![s].owed = TRUE]
  /\ asked' = Append(asked, Question(s))
  /\ UNCHANGED <<c, player, dead>>

\* pulse_stream_on_failed: so does the context of a stream.
StreamFailed(s) == st[s].live /\ Die("stream died")

\* pulse_stream_on_writeable: there is more space than it was told.
Writeable(s) ==
  /\ st[s].live /\ st[s].state = "ready" /\ st[s].owed /\ st[s].buf < Target
  /\ Become(RequestChanged([World EXCEPT !.st[s].req = Target - st[s].buf,
                                         !.st[s].owed = FALSE], s), player.sink)

\* pulse_stream_drain_cb
DrainDone(s) ==
  /\ st[s].drain /\ st[s].buf = 0
  /\ Become(Drained([World EXCEPT !.st[s].drain = FALSE], s), player.sink)

\* pulse_ctx_on_subscription_event
Subscription(s) ==
  /\ st[s].live /\ st[s].news /\ MayAsk
  /\ st' = [st EXCEPT ![s].news = FALSE]
  /\ asked' = Append(asked, Question(s))
  /\ UNCHANGED <<c, player, dead>>

\* Mutant: what the context believes is left alone.
InfoToPlayer ==
  /\ asked # <<>>
  /\ LET q == Head(asked)
     IN IF ~st[q.s].live THEN Die("info")
        ELSE /\ IF q.s # Playing(World) THEN UNCHANGED player
                ELSE player' = [player EXCEPT !.paused = q.paused, !.mute = q.mute]
             /\ asked' = Tail(asked) /\ UNCHANGED <<c, st, dead>>

\* pulse_stream_on_info writes to the stream, and tells the player if it is
\* the one that is heard.
Info ==
  /\ asked # <<>>
  /\ LET q == Head(asked)
     IN IF ~st[q.s].live THEN Die("info")
        ELSE /\ IF q.s # Playing(World) THEN UNCHANGED <<c, player>>
                ELSE /\ c' = [c EXCEPT !.paused = q.paused, !.mute = q.mute]
                     /\ player' = [player EXCEPT !.paused = q.paused, !.mute = q.mute]
             /\ asked' = Tail(asked) /\ UNCHANGED <<st, dead>>

\* The server plays, and somebody else mutes or unmutes the stream.
Play(s) ==
  /\ st[s].live /\ st[s].state = "ready" /\ ~st[s].cork /\ st[s].buf > 0
  /\ st' = [st EXCEPT ![s].buf = @ - 1, ![s].owed = TRUE]
  /\ UNCHANGED <<c, player, asked, dead>>

Mixer(s) ==
  /\ Muting /\ st[s].live /\ st[s].state = "ready" /\ ~st[s].news
  /\ st' = [st EXCEPT ![s].mute = ~@, ![s].news = TRUE]
  /\ UNCHANGED <<c, player, asked, dead>>

Next ==
  /\ dead = NULL
  /\ \/ \E f \in Formats \cup {NULL} : Enable(f)
     \/ Disable
     \/ \E f \in Formats : FirstFormat(f) \/ FlushInput(f)
     \/ StopInput \/ TogglePause \/ ToggleMute \/ ProvideInput
     \/ ContextReady \/ ContextFailed \/ Info
     \/ \E s \in Streams : \/ StreamReady(s) \/ StreamFailed(s) \/ Writeable(s)
                           \/ DrainDone(s) \/ Subscription(s) \/ Play(s) \/ Mixer(s)

Spec == Init /\ [][Next]_vars

-----------------------------------------------------------------------------
(* Properties.                                                             *)

\* Every variable has its type; the list holds the streams that are not
\* freed, in the order they were made; and the input, if there is one, is
\* the last of them and has the context's format.
TypeOK ==
  /\ c.state \in {"disabled", "enabled", "ready"}
  /\ c.fmt \in Formats \cup {NULL} /\ {c.mute, c.paused} \subseteq BOOLEAN
  /\ DOMAIN st = Streams /\ dead \in Deaths \cup {NULL}
  /\ \A s \in Streams : st[s].buf \in Nat /\ st[s].req \in 0 .. Target
  /\ \A s \in Streams : st[s].live <=> s \in ToSet(c.streams)
  /\ \A i, j \in DOMAIN c.streams : i < j => c.streams[i] < c.streams[j]
  /\ c.input # NULL => c.streams # <<>> /\ c.input = Last(c.streams)
                       /\ st[c.input].fmt = c.fmt

\* The player writes only when the context is ready and has an input that is
\* ready: the BUG_ONs of ctx.c:156-157, 166-167 and stream.c:95, 160 are not
\* reached, whatever came between the request and the deferred callback that
\* serves it.
WritesAreExpected == dead # "assertion"

\* Two tracks are never heard at once: a stream behind the first is corked,
\* from its creation until the first is freed.
OneAtATime ==
  dead = NULL => \A i \in DOMAIN c.streams : i > 1 => st[c.streams[i]].cork

\* Without a seek, a skip, a stop of the player's thread or a failure, what
\* was written is heard to its end: a stream is freed when it is empty.
NothingCutOff ==
  [][\A s \in Streams :
       st[s].live /\ ~st'[s].live /\ st[s].buf > 0
         => dead' # NULL \/ Disable \/ \E f \in Formats : FlushInput(f)]_vars

\* The list of streams is one sink to the player: audio is heard in the order
\* it was committed, of one format after the other, and no unit in the middle
\* of it is lost, whichever stream drains, is corked or is asked for data.
Heard == INSTANCE Sink WITH
  fmt <- c.fmt, MaxCommit <- Block,
  held <- FlattenSeq([i \in DOMAIN c.streams |->
            [j \in 1 .. st[c.streams[i]].buf |-> st[c.streams[i]].fmt]])

HeardInOrder == Heard!SinkSpec

\* A stream that is heard, that has been written to and is not any more makes
\* way for the next one, although only the first of the list is told to drain
\* when a track ends: it is draining, or it has audio left, or the server is
\* going to ask for data, which makes it drain.
GivesWay ==
  LET s == Playing(World)
  IN dead = NULL /\ s # NULL /\ s # c.input /\ st[s].fed
       => st[s].drain \/ st[s].owed \/ st[s].buf > 0

\* libpulse never calls back with a drain of a stream that is freed.
NoStaleDrain == \A s \in Streams : st[s].drain => st[s].live

\* The list of streams is what the server plays and calls back about.
StreamsKept == TypeOK /\ NoStaleDrain

\* No notification and no answer about the stream that is heard is on its way.
Quiet ==
  LET s == Playing(World)
  IN dead = NULL /\ s # NULL /\ asked = <<>> /\ st[s].state = "ready" /\ ~st[s].news

\* Then the context believes of that stream what the server knows: the next
\* stream is neither paused nor muted unless this one was.
BeliefsAgree ==
  Quiet => LET s == Playing(World)
           IN c.paused = st[s].cork /\ c.mute = st[s].mute

\* And what the player was told of pause, which main prints (main.c:278-279)
\* and the pause key inverts (player.c:379), is so.
PauseIsTold == Quiet => player.paused = st[Playing(World)].cork

(* Not so; see section 4 of the README.                                    *)

\* The BUG("invalid state") of pulse_ctx_set_input_format (ctx.c:347) says
\* that no format is given to a context that is not enabled.
FormatsAreExpected == dead # "invalid state"
=============================================================================
