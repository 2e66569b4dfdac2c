# A verification of oka in TLA+

oka is a small music player in C: a main thread with a terminal, a player thread,
a worker thread, and plugins (a decoder over libmpg123, a sink over PulseAudio). This
directory holds TLA+ models of its parts, the TLC configurations that check them and
TLAPS proofs. Paths below are relative to the repository; `player.c:149` is a line
of `src/player.c`.

## 1. The system

| Part | State | Operations | Talks to |
| --- | --- | --- | --- |
| delegates (`utils/delegate.c`, `channel.c`, `thread.c`) | a locked list and an eventfd per loop; a flag, mutex and condition per synchronous call | post, post and wait, run | called by every thread; run by the loop's |
| event loop (`utils/loop.c`) | epoll set, freed lists, vector of defers, `running`, `force_iteration`, `objs` | new/set/free of watches, timers, defers; run, stop, free | calls back everybody; only its own thread touches it, except for posts |
| player (`player.c`) | list of inputs, sink, deferred callback, two timers, position, pause | eleven delegates, callbacks of the sink and the timers | asks main for the next track and *waits*; reports to main by posts |
| main (`main.c`, `plugins.c`) | its loop, the last position and track, the plugins | start, keys, next track, shutdown | posts to the player, joins its thread |
| worker (`worker.c`) | channel of jobs, channel of results, current job, cancel flag | add, cancel, pop a result, free | a thread of its own |
| pulse sink (`plugins/pulse/ctx.c`, `stream.c`) | context state, list of streams, input, format, pause, mute | enable, disable, format, flush, pause, mute, write | the player's thread; libpulse calls back on it |
| pulse mainloop adapter (`plugins/pulse/mainloop.c`) | libpulse's io, time and defer events over watches, timers and defers | new, enable or restart, set_destroy, free | libpulse calls it on the player's thread; the loop calls back |
| decoder (`plugins/mpg123.c`) | a handle of libmpg123 per stream | metadata, open, read, seek, close | main opens; the player's thread reads and closes |
| metadata (`utils/id3.c`) | none | text frames to fields | the decoder |
| terminal input (`term.c`, `main_handle_stdin`) | 16 bytes of input, the sequence being read | get a character | main's loop calls the handler, which asks the player |
| terminal output (`term.c`) | 4096 bytes of output | put, flush | main's delegates and handlers |
| hash map (`utils/hash.c`), deferred callbacks (`utils/defer.c`) | a table with tombstones; a list with marks | get, set, remove, reserve; add, enable, reschedule, free, run | nothing yet: no part of the program uses them |
| formats, lists, vectors, diagnostics, start of the terminal | | | see section 7 |

What is hard: two threads that call each other, one of them synchronously; a queue
whose wake-up is not under its lock; a loop whose callbacks free what the loop is
iterating over; a shutdown in a fixed order; a player that keeps its own idea of time,
pause and what is left, fed by notifications that may be late; a server that answers
late, about streams that may be gone; a worker that is cancelled and freed while it
runs; libpulse, which frees events that epoll has reported already; a terminal whose
sequences arrive cut anywhere. `PROJECT.json` lists these hazards at their lines with the properties aimed
at them, and says of each hazard without a property why.

## 2. The modules

    DelegateQueue  <-- implemented by --  Delegator      (proved: DelegatorProofs)
         ^
         |  two instances: main's queue, the player's queue
        Oka            Player         EventLoop        Worker         Pulse
        threads and    the player     loop.c and       worker.c       ctx.c, stream.c
        shutdown       thread         its users                       and the server
                                                                         |
                                                          implements     v
        Decoder + Id3         Mainloop --> MainloopApi                  Sink
        plugins.c, mpg123.c,  mainloop.c,   what libpulse               what the player
        id3.c                 libpulse      is promised                 may rely on
        (proved: LeafProofs)

        Term            TermOut                  HashMap --> Dictionary     Defer
        term.c, input   term.c, output                                      defer.c
                        (proved: LeafProofs)
        \_______________________ side by side in MCLeaves ________________________/

Oka, Player, EventLoop, Worker, Pulse and Mainloop each have a module of proofs named
after them; Decoder and TermOut share one, LeafProofs (section 5).

Each module has an `MC` module that gives its constants values; Term, TermOut, HashMap
and Defer share one. Every definition that
models code is in the `map` of `PROJECT.json` with its lines. Definitions commented
`Mutant:` are plausible bugs: no specification uses them, each shows that a property
fails when the definition after it is replaced by it.

**DelegateQueue** is what a loop promises its posters: `log` is what was posted,
`ran` a prefix of it in order; the loop stops when asked to and whatever was posted
while it was open is run.

**Delegator** is the implementation at the grain of its critical sections: append under
the mutex (`PushAppend`), signal of the eventfd, still under it (`PushSignal`), reset
without it (`ClearFd`), pops until empty (`Pop`), and a synchronous call's frame with
its mutex, flag and condition (`SyncCheck`, `SpuriousWakeup`, `SyncSignal`,
`SyncUnlock`). `ImplementsDelegateQueue` is the refinement, with liveness.

**Oka** runs the whole program from `main_init` to the end of `main_exit` with the two
queues as instances of DelegateQueue: plugins are loaded, the first track opened, keys
and Ctrl-C handled, the next track served, the player joined, everything freed
(`gone`). The player thread loads, reports, asks main and waits, ends. The directory of plugins
may hold no sink, or no decoder, and then `main` ends in `plugins_open`. The grain is a
delegate.

**Player** is `player.c` on its loop: a record `pl` with the inputs (stream, end of file,
`remaining_ms`, position, what has not been heard), the timers as absolute times, the
update times and what main was told; `sk`, any sink that obeys `sink.h` (a buffer, a
format, corked or not); a discrete clock. Functions of the code that call each other are
operators from a record to a record, so an action is one callback with all it calls.
Blocking in `main_get_next_track_SYNC` is a `pc` of its own. A read of a stream gives any
number of its bytes or fails, which a `BUG_ON` turns into the end of the process
(`pl.crashed`), and so does a stop when there is no sink. `left` and `faith` are
history: what of an input has not been heard, and whether the assumptions of a
property (no pause, no underrun) have held. `Sinks` and `Questions` are the sets `sk` and
what main is asked are in; the assumption that `NULL` is in none of them, and is no time a
timer may be set to, is stated with them.

**EventLoop** is `loop.c` with `mem`, the state of each object's memory (none, live, freed
by its user, collected), the epoll set, the vector of defers, the batch of events that is
being handled and the callback that runs. A callback is any sequence of up to `MaxOps`
operations on any object. `late` is history: defers enabled behind the loop's back.

**Worker** is `worker.c` at the grain of critical sections: between `PopWait` and `Enter` a
job is neither queued nor current. `targets`, `hit` and `freed` are history. `Without` is
the walk of a cancellation over the queue, a recursive function.

**Pulse** is the plugin with the server: a stream's record holds what the plugin knows
(state, requested bytes, drain operation) and what the server knows (cork, mute, buffer,
whether it owes a request or a notification); `asked` are questions on their way with
the answers the server gave. A function of `ctx.c` or `stream.c` is an operator from a
world (context, streams, the player's wish to write, death) to a world. A write is of any
size up to `Block`, whatever was asked for. The process
dies (`dead`) where libpulse or a `BUG` aborts it, the one of `player.c` for a write that
failed included.

**Sink** is what `include/sink.h` promises the player: audio is taken in the format given
last and heard in that order whatever the format, unless a flush, a disable or a failure
drops all of it. `HeardInOrder` shows that Pulse, with its chain of streams of different
formats that drain one after the other, implements it.

**Mainloop** is `mainloop.c` with the part of `loop.c` it needs: descriptors and their
conditions, timerfds and a clock, the pass over the defers, the batch of reported events
that are handled one by one while libpulse goes on changing and freeing them. Instant 0 is the
epoch: a time event restarted with it is disarmed, like one without a time (`mainloop.c:115`).
**MainloopApi** is what libpulse is promised: an io event is called only while it is
enabled, with conditions its descriptor is really in; a time event once for each restart,
not before the time it was restarted with last, and with that time; a freed event never
again, after its destroy callback. `PromisesKept` is the refinement; `at` of the
abstraction is the armed time, or `tv` while an expiration waits to be read.

**Decoder** goes from a path to audio: `plugins_load_one` for every file found, in any
order; `plugins_open`, which is `ip_metadata` and then `ip_open` with each call of
libmpg123 a step that may fail; and the open streams in the hands of the player's thread,
interleaved with the opening of the next. A handle is the formats it may put out, its
position, and whether it was deleted; a seek may fail, and its negative result becomes a
position (`Sought`, `U64`). **Id3** holds the operators that turn a tag's text
frames into metadata; a text is a sequence of the characters that have a meaning.

**Term** is the parser of `term.c` with the handler that calls it. A person presses keys,
their bytes travel in packets, and every read of the parser may find the tty empty, hung
up, or a buffer full of bytes that end in the middle of a sequence; `mode` and `seq` are
where the parser is. A byte is named by its meaning to the parser, a decimal number is
one byte. The buffer of a CSI sequence is full after `CsiLen` of them. **TermOut** is the output buffer, with bytes numbered in the order of printing.

**HashMap** is `hash.c` with its probes (h, h + 1, h + 3, ...), tombstones, counters and
resizing. Where a search reads behind the table the model goes `astray` and stops; where it
asks a tombstone for its key, which is memory behind a single byte, it stops or passes it by, so
that searches over any number of tombstones, and what is put in their place, are in the
model. `IsDictionary` shows that it implements **Dictionary**, a partial function, for as long
as the searches stay inside the table. **Defer** is `defer_run` with callbacks that do any
sequence of operations to the list it iterates over.

**MCLeaves** puts Term, TermOut, HashMap and Defer side by side: each behaviour is one of
a single part while the others stay as they began. They call nothing else of the program
and share nothing, so every behaviour of each is among these, and a property that holds
of the sum holds of the part.

## 3. The runs

| Run | Bounds | What it shows |
| --- | --- | --- |
| MCDelegator | 2 posters, 3 posts | no lost wake-up, frames alive while used, synchronous calls return, refinement of DelegateQueue with order and liveness |
| MCOka | 2 keys, 2 reports besides the last, 2 tracks that end | the sink precedes every track; nothing is freed under the player; the sink has let go of the loop before it is freed; the last position is printed; the shutdown ends or is in the one known wait; every delegate is served |
| MCPlayer | 3 tracks, 2 formats, 3 operations, a clock of 5 ticks | ownership of streams, which input is decoded, no starved sink, track-change timer set, tracks not ended early, the position shown neither ahead nor back |
| MCEventLoop | delegator and a watch, 2 timers, 2 defers, 3 operations in callbacks | callbacks of live objects only, nothing collected while in use, no garbage, all defers served |
| MCWorker | 2 clients, 3 jobs (one of no type), 2 cancellations | data freed once, current job alive, nothing left behind (`JobsOwned`); cancel flag fresh, cancellation misses only the job just popped, `worker_free` returns |
| MCPulse | 3 streams, 2 formats, a server that wants 2 units and takes writes of 2, 2 questions | no write is unexpected, one stream heard at a time, a dry stream makes way, nothing written is lost, no stale drain callback; refinement of Sink |
| MCPulseBeliefs | 2 streams, mute, 2 questions | the context's flags agree with the server when nothing is on its way |
| MCMainloop | an io, a time and a defer event, 5 operations, the epoch and a clock of 2 instants | refinement of MainloopApi; what is due is called |
| MCDecoder | any set of 4 plugin files, 3 tracks, 4 handles, 2 reads or seeks, tags of any two of 22 frames, of any three about dates, and of each kind of text beside any other | no handle leaks or is deleted twice on any error path, the format told is the only one put out, every field holds what its last frame means (of a date with dashes: the year) |
| MCLeaves | 2 keys out of 20, a buffer of 4 and one of 6 for a CSI sequence; texts of up to 9 bytes in a buffer of 4; 4 keys that collide in 2 to 16 buckets; 3 deferred callbacks, 3 operations | input is understood wherever the buffer cuts it, and all of it; output in order; refinement of Dictionary inside the table; the list of callbacks is served and the run ends |
| MCPulsePause, MCTermSplit | as above; keys in two packets | the disagreements of section 4 |

Why the bounds are enough. Two posters are needed for a push between the append and the
signal of another, a third delegate for one that arrives after the queue was emptied.
Three tracks give one that is heard, one that drains behind it and one that is decoded;
two formats give gapless changes with and without a new stream. Three streams are the
same for the plugin. Two questions give an answer that is stale and the one that corrects
it. Two defers are needed for one to free or enable the other, before and behind it in the
vector, and two timers because only a one-shot timer may be freed by its own callback
(a periodic one would be called again with what it freed). Three jobs put one in the
thread, one in the queue and one behind it. Two keys put the end of the first read into the
first, between the two and into the second; the longest report of a mouse fills the buffer of
a CSI sequence to the last byte, and one of the 20 is longer than it. A text of nine bytes needs two flushes of a
buffer of four. In the hash map two keys have one hash, one lies beside them, and one begins
at the last bucket. Three deferred callbacks give the running one a neighbour on either
side, and two freed ones at the end of the list. Two handles opened at a time are the stream
that plays and the one being opened; a tag of two frames has both of one field or one of each,
and three about dates fill one of the two fields twice. A write of two units meets
a server that wants one, none, or two more. Each counter (`MaxOps`, `MaxTime`, `MaxKeys`,
`MaxTells`, `MaxTracks`, `MaxCancels`, `MaxStreams`, `MaxPending`, `MaxOpens`, `MaxReads`,
`MaxBytes`, `MaxReserve`, `MaxBuckets`) only bounds how often
the environment acts. `MCEventLoop` uses symmetry of its two defers and the pulse runs
of the formats; none of these checks a liveness property.

Deadlock is not checked where the program ends or a bound stops the environment: all
runs but MCMainloop, whose loop always goes on.

Each module's type invariant is checked with its strongest state invariant (`StreamsSound`
is `TypeOK`, `HandlesOwned` and `FormatAgreed`; `JobsOwned`, `MemorySafe`, `InputsOwned`,
`StreamsKept`, `InputUnderstood`, `IsDictionary`, `ListServed` and `PromisesKept` are built
the same way), except where it is proved (section 5).

Assumptions about code outside the repository: epoll returns any nonempty or empty set of
ready sources (a signal may interrupt it); timers expire after they are due; a condition
may wake spuriously; the server handles commands in order and answers in order; it
notifies of a change of cork or mute only if there was one; a drain ends when the buffer
is empty; a decoder reads a prefix of the rest, says it is at the end, or fails; a read of the tty returns what
is there, and 0 bytes when nothing is; a write takes any number of bytes, or fails.

**Fairness.** Delegator, Oka and Worker have weak fairness of each thread's own steps: the
kernel schedules runnable threads, and a mutex that is free again and again is not
contended for ever by the bounded number of posters. A key, the end of a track, a timer
that reports, Ctrl-C and a call of `worker_free` are not fair: they need not happen.
A job's callback and a delegate are assumed to return. In Mainloop the loop's steps are fair
as one, so that it may choose any order, and a timerfd expires once its time has come; the
clock and the peers need not move. In Term packets arrive, the loop calls the handler of a
readable descriptor and the parser goes on; nobody has to press a key. In Defer the run goes
on and callbacks return, but reschedule only a bounded number of times.

## 4. Where the code disagrees with itself

Two of the disagreements are runs that TLC finds violated.

- *MCPulsePause*: a pause that meets the end of a drain is not reported; the player
  believes it plays, and the pause key asks for a pause for ever.
- *MCTermSplit*: the parser is meant to wait `term_escdelay` for the rest of a sequence, but
  a read of 0 bytes is a timeout already (`term.c:87`), so the poll in `term.c:101` is
  never reached. A sequence in two packets is taken apart, and its last byte is a command.

The others are stated beside the properties of their modules, under "Not so"; TLC refutes
each at once as the invariant of the module's configuration (HashMap's as `Map!ProbesStayInside`
and `Map!TombstonesHaveNoKey` in MCLeaves).

| Definition | The code | The text it contradicts |
| --- | --- | --- |
| `Player!RemainingIsTrue` | `player_start_track_change_timer` forgets the time since the last update (`player.c:216`): a notification during a drain delays the track change | `player.c:24`: "until this track has been fully played" |
| `Player!TrackShown` | the cookie reported is that of the track that has just ended (`player.c:149`) | `main.c:310`: "track changed: %s" |
| `Player!NoTrackSurvived` (`Fails = TRUE`) | a track that does not open is appended as a null stream and followed (`player.c:270`); without that only a failing read (`player.c:316`) and a stop without a sink (`player.c:223`) end the thread | `player.c:250`: `s != NULL` |
| `Oka!FatalDoesNotReturn` | `api->fatal` only posts and returns, the process aborts before the message is printed (`main.c:71`) | `diag.c:63`: "d->api->fatal(msg) returned" is a BUG |
| `Pulse!FormatsAreExpected` | the result of `enable` is dropped (`player.c:239`) | `ctx.c:347`: BUG("invalid state") |
| `Decoder!NoSinkSurvived` | the range of a sink that may not exist is read (`plugins.c:168`) | `plugins.c:121` asks whether there is one |
| `Decoder!UntaggedSurvived` | a file without an ID3v2 tag has its texts counted through NULL (`mpg123.c:228`) | `plugins.c:163` provides for a track without metadata |
| `Decoder!SeekMoves` | a seek counts 44100 samples a second whatever the rate, and one that fails makes a position of its negative result (`mpg123.c:67`, `76`) | `player.c:80` divides by the stream's rate |
| `Decoder!DatesAreDigits` | a timestamp is copied with its dashes, because `*txt`, where the text begins, is tested instead of the cursor (`id3.c:73`): 2012-04-25 is stored as "2012-04-" | `metadata.h:27`: `sizeof("20120425")` |
| `HashMap!ProbesStayInside` | the index of a search is not masked (`hash.c:49`) | `hash.c:104` masks it |
| `HashMap!TombstonesHaveNoKey` | every tombstone of a search but the first is asked for its key (`hash.c:59`) | `hash.c:101` excludes it |

The wait that `ExitCompletes` excepts is one more: if a track ends between main's last
pass over its delegates and the stop of the player, main joins a thread that waits
for main. No text of the repository promises otherwise, so it is stated in the property
and not as a violated run.

Seen while reading, and left as they are in the models: an io event whose flags changed
after epoll reported it is called with the old ones; a defer that is enabled behind the pass
of the loop waits for the next wake-up, because `mainloop.c` forces no iteration;
`main_handle_stdin` never returns while reads fail (`Term!ReadFails`; `KeysHandled` speaks only of
a terminal that is there); `player_stop_delegate` uses a sink that may not exist
(`player.c:223`), and `plugins_open` a decoder and a sink that may not (`plugins.c:159`, `168`; `main`
is then at `crash` in Oka); mpg123's plugin aborts on its second
copy; two names of `id3_genres` have no comma between them (`id3.c:107`), which shifts every
number behind them; the length of a CSI sequence is tested after the byte was stored
(`term.c:324`), so that the byte behind the buffer is written before the sequence is given up; the coordinates of mouse mode 1000 keep their offset of 32.

## 5. What is proved

The only assumptions are those of the modules on their constants: numbers are natural
numbers; `NULL` is no number, poster, stream, death, format, sink or question; watches, timers and
defers are different things, and so are libpulse's io, time and defer events. No set is
assumed to be finite. From WorkerProofs on the strengthening is `IInv`, a conjunction of
named parts, which TLC checked on the component's run before it was proved.

**DelegatorProofs**, for any set of posters and delegates and any number of posts:

| Theorem | States |
| --- | --- |
| `TypeCorrect` | `Spec => []TypeOK` |
| `OrderKept` | `Spec => []NothingLostOrReordered` |
| `WakeupKept` | `Spec => []NoLostWakeup` |
| `FramesKept` | `Spec => []FramesAlive` |
| `Refinement` | `Spec => DQ!SafeSpec`: the safety of DelegateQueue |

`TypeOK` holds the two lock disciplines: the channel's mutex is held exactly by a poster
between append and signal, the mutex of a frame only by the loop inside
`thread_sync_signal`. With it `NothingLostOrReordered` and `NoLostWakeup` are
inductive; the latter because `ClearFd` moves to the drain, which only a pop of an empty
queue ends, and a pop needs the mutex, so nobody is between append and signal then.
`FramesAlive` is not inductive, and `FramesInv` strengthens it: an unanswered frame keeps
its caller waiting because its flag is clear; an answered one because the loop still holds
the frame's mutex, which the caller needs to leave; and no two queued entries, or a
queued one and the current one, have the same frame, so that answering one does not let
the caller of another go. The refinement needs that `Taken` is a prefix of `log`.

**OkaProofs**, for any number of keys, reports and tracks:

| Theorem | States | Strengthening |
| --- | --- | --- |
| `TypeCorrect` | `Spec => []TypeOK` | `Types`, `ReplyInv`, `ReportInv` |
| `NothingFreedEarly` | `Spec => []NothingUsedAfterFree` | `LifeInv` |
| `SinkLetGo` | `Spec => []SinkReleased` | `LifeInv` |
| `SinkFirst` | `Spec => []SinkBeforeInput` | `SinkInv` |
| `PositionKept` | `Spec => []PositionCaughtUp` | inductive with `Types` |

`LifeInv` ties the place of the player thread to the phase of its loop: it lets go of the
sink on the way out and never runs its loop again, and main frees only when it is dead.
`SinkInv` carries the argument over the queue: `set_sink` is the first delegate ever
posted to the player, so once the player has run anything it has the sink; and a track is
loaded only by a delegate, or by a callback that an earlier track needed. `ReplyInv` says
that one call for a track exists at a time, in main's queue, being served, or answered,
and that its caller waits: that is why an answer is never left for a later call. Both
use only what DelegateQueue promises, which `Refinement` proves of the real queue.

**LeafProofs**, of Decoder for any plugins, files, tags and choices of libmpg123, and of
TermOut for any size of the buffer and any texts:

| Theorem | States |
| --- | --- |
| `StreamsHold` | `Spec => []StreamsSound`: no handle leaks or is deleted twice on any error path, and a stream's format is the only one its handle puts out |
| `OutTyped` | `OutSpec => []OutTypeOK`: the cursors stay inside the buffer |
| `AllShown` | `OutSpec => []NothingMissing`: a flush leaves nothing unprinted unless a write failed |
| `OrderShown` | `OutSpec => InOrder` |

For Decoder the handle `plugins_open` has in hand is live and nobody's, and the live handles
are those of the open streams and this one; so each early return of `ip_open` deletes just
what it made. What a seek makes of a failure is a position like any other to it.

In TermOut `OutTypeOK` needs no help. The other two rest on `Pending`: the slots from `base` on hold
consecutive bytes up to `next`, and on `Progress`: without a failure the first of them is
the one after `shown`.

**WorkerProofs**, for any clients, jobs and cancellations:

| Theorem | States |
| --- | --- |
| `JobsAreOwned` | `Spec => []JobsOwned`: freed once, alive while current, nothing left behind by `worker_free` |
| `FlagIsMeant` | `Spec => []NoStaleCancel`: the cancel flag a job sees is about that job |
| `OnlyTheGap` | `Spec => CancelMissesOnlyTheGap`, an action property |

A job is queued at most once (`QueuedOnce`; with `FreedOnce`, in one place only). While the
worker is freed no client uses it, the pill that ends the thread is the last thing queued,
and the thread ends with an empty queue (`FreedLast`). What a cancellation is about matches
it, and is not queued any more once the walk is over (`TargetsGone`): what it has missed
is in the gap or current. What `Without` keeps and frees is an induction over the queue; since
induction theorems cannot be used, it is proved by the least counterexample: a set of
naturals that is not empty has a least member (`Least`), and there is none before it.

**EventLoopProofs**, for any objects and any operations in callbacks:

| Theorem | States |
| --- | --- |
| `Memory` | `Spec => []MemorySafe` |
| `NoDeferForgotten` | `Spec => []DefersServed` |
| `CalledForTheLiving` | `Spec => CalledAlive`, an action property |

The parts of `IInv`: `Vector` (the vector holds no defer twice and every enabled one),
`Counted` (`objs` is the cardinality of the objects whose memory is held, a finite set
though `Objects` need not be), `Placed` (what epoll watches and what is enabled is in use,
the vector holds just the defers that are held), `Phases` (which callbacks run when, and that
they are about what is held), `LoopLast` (the loop's own watch goes last), `Garbage` (what is
left to collect at each point of an iteration), and `Served` (a defer that was passed has
been called, or was enabled behind the pass). The step that needs them all is a collection
during the walk over the vector, which moves the last defer into the hole (`SwapRemoveIs`).

**PulseProofs**, for any formats, number of streams, buffer size and player:

| Theorem | States |
| --- | --- |
| `ListIsTrue` | `Spec => []StreamsKept` |
| `NoAssertion` | `Spec => []WritesAreExpected` |
| `OneTrack` | `Spec => []OneAtATime` |
| `MadeWay` | `Spec => []GivesWay` |
| `BeliefsHold` | `Spec => []BeliefsAgree` |
| `HeardToTheEnd` | `Spec => NothingCutOff`, an action property |
| `OneSink` | `Spec => HeardInOrder`: the refinement of Sink |

Because functions of `ctx.c` and `stream.c` call each other, the argument goes function by
function and not action by action: each operator from a world to a world keeps `Sound`, and
stands in the relation `Tells` (no flag of the plugin or the server changes without a
question or a notification on its way) and in `Spares` (no stream with audio is
freed) to where it began, unless it is one that may. The parts of the invariant are
`Listed` (the list holds the streams that are not freed, as they were made), `Idle`, `Behind`
(all but the first are corked, and keep what they were given), `InputIsLast`, `Wanted` (the
player wants to write only where it may), `Yields` (a stream that is heard and is not the
input drains, is owed a request, or has audio), and `Answered` and `Believed` (the last
answer on its way, or else what the context believes, is what is so, unless a notification
is on its way).

`OneSink` maps the list to one queue: what its streams hold, first to last. Each function is
shown to leave that queue as it was (a stream that leaves the list is empty, a new one
too), to drop all of it, to append to its end (a write goes to the last stream), or to play its
head (only the first stream is uncorked, by `OneAtATime`). That the joined sequences agree
element by element is an induction over the list; like `Without` of Worker it is done by the
least counterexample.

**MainloopProofs**, for any io, time and defer events:

| Theorem | States |
| --- | --- |
| `Refinement` | `Spec => PromisesKept`: the safety of MainloopApi |

Each operation of libpulse is the operation of the same name there, a handled descriptor, a
deferred call and a return are a call and its end, and the tick of the clock and the
peers are the environment or nothing. The step that needs an invariant is the handling of a
report: that what epoll reported of a descriptor is still so when its turn in the batch
comes (`Reports`). It is, because only an event's own callback drains its descriptor, and
it runs once in a batch. `Armed` says that a timerfd is set to what its event was restarted
with last and does not expire before, `Calling` that a callback is about an event of the kind
that is called in that phase.

**PlayerProofs**, for any tracks, formats, latency and clock:

| Theorem | States | Tracks |
| --- | --- | --- |
| `OwnedOnce` | `Spec => []InputsOwned` | all open |
| `Decoded` | `Spec => []LastIsDecoded` | all open |
| `Forced` | `Spec => []NoStarvation` | open or not |
| `TimerKept` | `Spec => []TrackTimerSet` | open or not |
| `HeardOut` | `Spec => []NotEarly` | open or not |
| `ToldTruly` | `Spec => PositionShown`, an invariant and an action property | all open |

Three have the hypothesis `~Fails`, that every track opens, without which the player
follows a null stream (the third row of section 4); and `MCPlayer` checks them under it
too. The
invariant has two levels. `Sane` and `Sound` hold inside callbacks too: types, ownership, no
deferred call without a sink, and, while nothing has disturbed the timing, that no less is
left of an input by the player's count than has not been heard (`Early`). `Settled` holds
between them: the list in order (`Listed`: only the last input is open, and its format is the
sink's) and the timer set (`TimerSet`). While main is asked, `Asking` says what the waiting
callback has already done. Functions are related by `Served` (the timers drop ended inputs from the front and
leave no less of the rest), `Alike` (only the position differs), `Loaded` (a stream is
appended, to an empty list after a flush) and `Quieted`. The proof showed that two CASEs
of the model had overlapping guards, in which TLA+ leaves the choice open; they are
conditionals now.

`ToldTruly` has an invariant of its own, `JInv`, on top of `IInv`:

- `Behind`: the second that is shown is not past what is heard; and `Advanced`: nor is
  the millisecond the position timer will go by, `posMs` and the time since, past what
  player.c believes to be heard. The timer needs the second to keep the first.
- `Fitting` bounds what player.c believes. The sink holds no more than was read of the
  input that is decoded and what is left of the one before (`Room`), and what is believed
  to be left of an ended input is no more than was read of it, once those before it
  are over (`Ranged`). So no more is believed to be left than was read, and an update of the
  position that is cut off at zero is not ahead either; by `Early` no less is believed to be left
  than is.
- `Timed`: what main was told is `posSec`, and when the timer is due it does not show less.

The functions that serve the track-change timer are related by `Follows` and `Steady`: they
keep all of this, and change nothing of the position unless an input is dropped. The step that is
least obvious is a tick of the clock: what is heard and `posMs` grow alike only as
long as the first input is not over, and it is not, because then the track-change timer
(`TimerSet`) would be due and the thread would not be waiting. So `NotAhead` holds while a track
change is overdue as well; an earlier form of it had left that out. That the
position is not taken back follows from `Rises`, which each step but a seek has
unless it changes the streams of the list.

Only model-checked: liveness, which is out of the prover's reach as is `ENABLED`
(`SyncCallReturns`, the liveness of `ImplementsDelegateQueue`, `ExitCompletes`,
`DelegatesServed`, `FreeReturns`, `NobodyStarves`, `KeysHandled`, `ListServed`); and what is an
induction over data: the fold over a tag's frames in `MetadataMeant` of Decoder, the
parser's sequences in `InputUnderstood` of Term, and the probe sequences of HashMap in
`IsDictionary`. No module declares a recursive operator.

## 6. Plan

Every component with state is modelled and checked; the delegates, the shutdown, the
worker, the event loop, the pulse plugin and its refinement of Sink, its mainloop adapter, the
player, the decoder and the output buffer are also proved. What could follow:

1. Player and Pulse composed, with Sink as the interface: `OneSink` has proved one side.
2. The safety of HashMap's refinement, with an invariant for the probe sequence of a key
   instead of an induction over it.

## 7. What is not modelled

Tables without state: sample formats (`audio.c`, `pulse/utils.c`) and names of keys. The
setting and restoring of termios, signals and the window size. Volume and the text of
messages. Errors of allocation (they abort). Latency in Player is the sink's buffer, so the
seek's use of the total latency is in the model, but not milliseconds as numbers. In Pulse
the server's prebuffer is left out: a middle stream with less audio than it would not start;
so are failures of flush. `pulse_mainloop_quit` does nothing in the
code, and has no action. Player and Pulse are not composed step by step: Player runs on any
sink that obeys `sink.h`, and Pulse implements Sink for a player that does what the calls of
`player.c` allow. Library code (epoll, timerfd, pthread, libpulse, libmpg123, the terminal)
is modelled from how the code uses it.
