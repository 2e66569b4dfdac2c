-------------------------------- MODULE Oka --------------------------------
(***************************************************************************)
(* The whole program from main_init to the end of main_exit: the main      *)
(* thread and the player thread, each with a loop, and the objects they    *)
(* share.  The two delegate queues are instances of DelegateQueue, which   *)
(* module Delegator implements; what a delegate does to the program is     *)
(* here.  The sink and the decoder are any plugins; the decoder opens what *)
(* it is asked to open, once there is one.                                 *)
(***************************************************************************)
EXTENDS Naturals, Sequences

CONSTANTS
  MaxKeys,    \* bound: keys the user presses, besides Ctrl-C
  MaxTells,   \* bound: positions the player reports
  MaxTracks   \* bound: tracks the player asks for

ASSUME ConstantsAssumption == {MaxKeys, MaxTells, MaxTracks} \subseteq Nat

VARIABLES
  mlog, mran, mphase,  \* main's delegate queue
  plog, pran, pphase,  \* the player's delegate queue
  mpc,    \* where the main thread is
  ppc,    \* where the player thread is
  sink,   \* "absent", "registered", "enabled" or "disabled"
  loaded, \* the player has an input
  reply,  \* the delegate of main_get_next_track_SYNC has run
  gone,   \* objects main_exit has freed
  told,   \* main_pos: the position reported last
  shown,  \* the position printed last
  keys    \* keys pressed

mainVars   == <<mlog, mran, mphase>>
playerVars == <<plog, pran, pphase>>
vars == <<mainVars, playerVars, mpc, ppc, sink, loaded, reply, gone, told,
          shown, keys>>

MainDelegates   == {"info", "fatal", "position", "next_track"}
PlayerDelegates == {"set_sink", "set_input", "goto_next", "other", "exit"}

MainQ == INSTANCE DelegateQueue
           WITH Delegate <- MainDelegates, log <- mlog, ran <- mran, phase <- mphase
PlayerQ == INSTANCE DelegateQueue
             WITH Delegate <- PlayerDelegates, log <- plog, ran <- pran, phase <- pphase

Init ==
  /\ MainQ!Init /\ PlayerQ!Init
  /\ mpc = "plugins" /\ ppc = "loop"
  /\ sink = "absent" /\ loaded = FALSE /\ reply = FALSE
  /\ gone = {}
  /\ told = 0 /\ shown = 0 /\ keys = 0

-----------------------------------------------------------------------------
(* The main thread.                                                        *)

\* plugins_open says what the metadata of the track are.
Info == MainQ!Post("info") \/ UNCHANGED mainVars

\* Mutant: the sink is registered and not handed over.
PluginsInitNoSink ==
  /\ mpc = "plugins"
  /\ mpc' = "open"
  /\ sink' = "registered"
  /\ UNCHANGED <<mainVars, playerVars, ppc, loaded, reply, gone, told, shown, keys>>

\* plugins_init finds no plugin directory, or loads the plugins and hands
\* the first sink, if one registered, to the player.  diag_fatal posts its
\* message to the loop of the calling thread, returns from d->api->fatal and
\* hits BUG.
PluginsInit ==
  /\ mpc = "plugins"
  /\ \/ /\ MainQ!Post("fatal")
        /\ mpc' = "abort"
        /\ UNCHANGED <<playerVars, sink>>
     \/ /\ sink' = "registered"
        /\ PlayerQ!Post("set_sink")
        /\ mpc' = "open"
        /\ UNCHANGED mainVars
     \/ /\ mpc' = "open"
        /\ UNCHANGED <<mainVars, playerVars, sink>>
  /\ UNCHANGED <<ppc, loaded, reply, gone, told, shown, keys>>

\* main opens the first track and hands it to the player.  plugins_open asks
\* neither whether a decoder nor whether a sink registered, and reads both.
OpenFirst ==
  /\ mpc = "open"
  /\ Info
  /\ \/ /\ sink # "absent"
        /\ PlayerQ!Post("set_input")
        /\ mpc' = "loop"
     \/ /\ mpc' = "crash"
        /\ UNCHANGED playerVars
  /\ UNCHANGED <<ppc, sink, loaded, reply, gone, told, shown, keys>>

\* main_handle_stdin.
Key ==
  /\ mpc = "loop" /\ mphase = "open" /\ keys < MaxKeys
  /\ keys' = keys + 1
  /\ \E d \in {"goto_next", "other"} : PlayerQ!Post(d)
  /\ UNCHANGED <<mainVars, mpc, ppc, sink, loaded, reply, gone, told, shown>>

\* Ctrl-C in main_handle_stdin.
CtrlC ==
  /\ mpc = "loop" /\ MainQ!Stop
  /\ UNCHANGED <<playerVars, mpc, ppc, sink, loaded, reply, gone, told, shown, keys>>

\* A delegate main's loop has begun to run.
MainRun ==
  /\ mpc = "loop"
  /\ UNCHANGED mphase /\ MainQ!Run
  /\ LET d == mran'[Len(mran')]
     IN /\ mpc' = IF d = "next_track" THEN "serve" ELSE mpc
        /\ shown' = IF d = "position" THEN told ELSE shown
  /\ UNCHANGED <<playerVars, ppc, sink, loaded, reply, gone, told, keys>>

\* Mutant: the caller is not signalled.
ServeSilent ==
  /\ mpc = "serve"
  /\ Info
  /\ mpc' = "loop"
  /\ UNCHANGED <<playerVars, ppc, sink, loaded, reply, gone, told, shown, keys>>

\* main_get_next_track_delegate opens the track and the caller is signalled.
Serve ==
  /\ mpc = "serve"
  /\ Info
  /\ reply' = TRUE
  /\ mpc' = "loop"
  /\ UNCHANGED <<playerVars, ppc, sink, loaded, gone, told, shown, keys>>

\* loop_run returns and main_exit calls player_exit.
MainLoopExit ==
  /\ mpc = "loop" /\ MainQ!Exit
  /\ mpc' = "exit"
  /\ UNCHANGED <<playerVars, ppc, sink, loaded, reply, gone, told, shown, keys>>

\* player_exit asks the player's loop to stop.
PlayerExit ==
  /\ mpc = "exit"
  /\ PlayerQ!Post("exit")
  /\ mpc' = "join"
  /\ UNCHANGED <<mainVars, ppc, sink, loaded, reply, gone, told, shown, keys>>

\* Mutant: the thread is not waited for.
JoinDetached ==
  /\ mpc = "join"
  /\ gone' = gone \cup {"player loop"}
  /\ mpc' = "plugins exit"
  /\ UNCHANGED <<mainVars, playerVars, ppc, sink, loaded, reply, told, shown, keys>>

\* player_exit waits for the thread and frees its loop.
Join ==
  /\ mpc = "join" /\ ppc = "dead"
  /\ gone' = gone \cup {"player loop"}
  /\ mpc' = "plugins exit"
  /\ UNCHANGED <<mainVars, playerVars, ppc, sink, loaded, reply, told, shown, keys>>

\* plugins_exit frees the decoders and the sinks and closes the plugins.
PluginsExit ==
  /\ mpc = "plugins exit"
  /\ gone' = gone \cup {"plugins"}
  /\ mpc' = "teardown"
  /\ UNCHANGED <<mainVars, playerVars, ppc, sink, loaded, reply, told, shown, keys>>

\* The rest of main_exit.
Teardown ==
  /\ mpc = "teardown"
  /\ gone' = gone \cup {"main loop", "diag"}
  /\ mpc' = "done"
  /\ UNCHANGED <<mainVars, playerVars, ppc, sink, loaded, reply, told, shown, keys>>

-----------------------------------------------------------------------------
(* The player thread.                                                      *)

\* Mutant: player_exit_delegate does not stop the loop.
PlayerRunOn ==
  /\ ppc = "loop"
  /\ UNCHANGED pphase /\ PlayerQ!Run
  /\ LET d == pran'[Len(pran')]
     IN /\ sink' = IF d = "set_sink" THEN "enabled" ELSE sink
        /\ loaded' = (loaded \/ d = "set_input")
        /\ ppc' = IF d = "goto_next" THEN "ask" ELSE "loop"
  /\ UNCHANGED <<mainVars, mpc, reply, gone, told, shown, keys>>

\* A delegate of the player's loop runs.
PlayerRun ==
  /\ ppc = "loop"
  /\ PlayerQ!Run
  /\ LET d == pran'[Len(pran')]
     IN /\ pphase' = IF d = "exit" THEN "stopping" ELSE pphase
        /\ sink' = IF d = "set_sink" THEN "enabled" ELSE sink
        /\ loaded' = (loaded \/ d = "set_input")
        /\ ppc' = IF d = "goto_next" THEN "ask" ELSE "loop"
  /\ UNCHANGED <<mainVars, mpc, reply, gone, told, shown, keys>>

\* How many tracks were asked for.
Asked == Len(SelectSeq(mlog, LAMBDA d : d = "next_track"))

\* player_input_eof, in the deferred callback of the player.
Eof ==
  /\ ppc = "loop" /\ pphase = "open" /\ loaded /\ sink = "enabled"
  /\ Asked < MaxTracks
  /\ ppc' = "ask"
  /\ UNCHANGED <<mainVars, playerVars, mpc, sink, loaded, reply, gone, told, shown, keys>>

\* Mutant: the position is stored after the delegate is posted.
TellSwapped ==
  /\ \/ /\ \/ ppc = "loop" /\ loaded /\ told < MaxTells
           \/ ppc = "farewell"
        /\ MainQ!Post("position")
        /\ ppc' = "post"
        /\ UNCHANGED told
     \/ /\ ppc = "post"
        /\ told' = told + 1
        /\ ppc' = IF pphase = "exited" THEN "dead" ELSE "loop"
        /\ UNCHANGED mainVars
  /\ UNCHANGED <<playerVars, mpc, sink, loaded, reply, gone, shown, keys>>

\* main_position_changed (and main_track_changed, which is like it): store
\* the value, then post the one static delegate.
Tell ==
  /\ \/ /\ \/ ppc = "loop" /\ loaded /\ told < MaxTells
           \/ ppc = "farewell"
        /\ told' = told + 1
        /\ ppc' = "post"
        /\ UNCHANGED mainVars
     \/ /\ ppc = "post"
        /\ MainQ!Post("position")
        /\ ppc' = IF pphase = "exited" THEN "dead" ELSE "loop"
        /\ UNCHANGED told
  /\ UNCHANGED <<playerVars, mpc, sink, loaded, reply, gone, shown, keys>>

\* main_get_next_track_SYNC posts its delegate and waits.
Ask ==
  /\ ppc = "ask"
  /\ MainQ!Post("next_track")
  /\ ppc' = "wait"
  /\ UNCHANGED <<playerVars, mpc, sink, loaded, reply, gone, told, shown, keys>>

\* main_get_next_track_SYNC returns and the track is loaded.
Resume ==
  /\ ppc = "wait" /\ reply
  /\ reply' = FALSE /\ loaded' = TRUE
  /\ ppc' = "loop"
  /\ UNCHANGED <<mainVars, playerVars, mpc, sink, gone, told, shown, keys>>

PlayerLoopExit ==
  /\ ppc = "loop" /\ PlayerQ!Exit
  /\ ppc' = "unload"
  /\ UNCHANGED <<mainVars, mpc, sink, loaded, reply, gone, told, shown, keys>>

\* Mutant: player_run does not let go of the sink.
UnloadNothing ==
  /\ ppc = "unload"
  /\ ppc' = "farewell"
  /\ UNCHANGED <<mainVars, playerVars, mpc, sink, loaded, reply, gone, told, shown, keys>>

\* player_run lets go of the sink, and then reports one last time.
Unload ==
  /\ ppc = "unload"
  /\ sink' = IF sink = "enabled" THEN "disabled" ELSE sink
  /\ ppc' = "farewell"
  /\ UNCHANGED <<mainVars, playerVars, mpc, loaded, reply, gone, told, shown, keys>>

-----------------------------------------------------------------------------
MainProgress ==
  \/ PluginsInit \/ OpenFirst \/ MainRun \/ Serve \/ MainLoopExit
  \/ PlayerExit \/ Join \/ PluginsExit \/ Teardown

PlayerProgress ==
  \/ PlayerRun \/ Ask \/ Resume \/ PlayerLoopExit \/ Unload
  \/ (ppc # "loop" /\ Tell)

\* debug_bug__ aborts the process; a read through NULL ends it, too.
Alive == mpc \notin {"abort", "crash"}

Next == Alive /\ (MainProgress \/ Key \/ CtrlC \/ PlayerProgress \/ Eof \/ Tell)

\* The kernel schedules both threads.  A key, the end of a track and a timer
\* that reports a position need not come.
Fairness == WF_vars(Alive /\ MainProgress) /\ WF_vars(Alive /\ PlayerProgress)

Spec == Init /\ [][Next]_vars /\ Fairness

-----------------------------------------------------------------------------
(* Properties.                                                             *)

Objects == {"player loop", "plugins", "main loop", "diag"}

\* Every variable has its type, and an answer is there only for a caller
\* that waits for it.
TypeOK ==
  /\ reply => ppc = "wait"
  /\ mlog \in Seq(MainDelegates) /\ plog \in Seq(PlayerDelegates)
  /\ Len(mran) <= Len(mlog) /\ Len(pran) <= Len(plog)
  /\ {mphase, pphase} \subseteq {"open", "stopping", "exited"}
  /\ mpc \in {"plugins", "open", "loop", "serve", "exit", "join",
              "plugins exit", "teardown", "done", "abort", "crash"}
  /\ ppc \in {"loop", "ask", "wait", "post", "unload", "farewell", "dead"}
  /\ sink \in {"absent", "registered", "enabled", "disabled"}
  /\ {loaded, reply} \subseteq BOOLEAN
  /\ gone \subseteq Objects
  /\ told \in 0 .. MaxTells + 1 /\ shown \in 0 .. told /\ keys \in 0 .. MaxKeys

\* player_input_load gives the format of a track only to a sink it has
\* (player.c:268-275), and nothing gives it later: no track, be it the first
\* or one the user skipped to, is loaded before the sink is enabled.
SinkBeforeInput == loaded => sink \in {"enabled", "disabled"}

\* main_exit frees nothing the player thread may still use: the loops, the
\* sink, or the diag the sink reports to.
NothingUsedAfterFree == ppc # "dead" => gone = {}

\* loop_free checks that nothing is registered with the loop any more
\* (loop.c:100), and sink->free runs after the player's loop is freed: by
\* then the sink has given its watches and timers back, on the player's
\* thread.
SinkReleased == "player loop" \in gone => sink # "enabled"

\* The positions waiting in main's queue.
Pending == {i \in Len(mran) + 1 .. Len(mlog) : mlog[i] = "position"}

\* One static delegate is posted again before it has run and the values in
\* between are overwritten (main.c:296-301), but never the last one: when no
\* report is on its way, what is printed is what was reported last.
PositionCaughtUp == Pending = {} /\ ppc # "post" => shown = told

\* The player waits for a track from a loop that is not going to run again.
Stuck == ppc = "wait" /\ ~reply /\ mphase = "exited"

\* Once main_exit has begun, the program ends, unless the player asked for a
\* track after main's loop was done with its delegates: main joins a thread
\* that waits for main (main.c:346, player.c:368).
ExitCompletes == mpc = "join" ~> mpc = "done" \/ Stuck

\* Main's loop never waits for the player's: whatever is posted to the
\* player is run although the player waits for main in between.
DelegatesServed ==
  \A n \in 1 .. MaxKeys + 3 :
    Len(plog) >= n ~> Len(pran) >= n \/ Stuck \/ ~Alive

(* Not so; see section 4 of the README.                                    *)

\* diag_fatal has BUG("d->api->fatal(msg) returned") behind the call
\* (diag.c:63): it is never reached.
FatalDoesNotReturn == mpc # "abort"
=============================================================================
