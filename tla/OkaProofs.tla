----------------------------- MODULE OkaProofs -----------------------------
(***************************************************************************)
(* Safety of module Oka for any number of keys, reports and tracks: the    *)
(* invariants TLC checks on MCOka.                                         *)
(***************************************************************************)
EXTENDS Oka, SequenceTheorems, TLAPS

LEMMA Bounds == MaxKeys \in Nat /\ MaxTells \in Nat /\ MaxTracks \in Nat
BY ConstantsAssumption DEF ConstantsAssumption

-----------------------------------------------------------------------------
(* The two threads.                                                        *)

\* What of TypeOK is inductive by itself, and that what was run is made of
\* delegates.
MainTypes ==
  /\ mlog \in Seq(MainDelegates) /\ mran \in Seq(MainDelegates)
  /\ Len(mran) <= Len(mlog)

PlayerTypes ==
  /\ plog \in Seq(PlayerDelegates) /\ pran \in Seq(PlayerDelegates)
  /\ Len(pran) <= Len(plog)

ThreadTypes ==
  /\ {mphase, pphase} \subseteq {"open", "stopping", "exited"}
  /\ mpc \in {"plugins", "open", "loop", "serve", "exit", "join",
              "plugins exit", "teardown", "done", "abort", "crash"}
  /\ ppc \in {"loop", "ask", "wait", "post", "unload", "farewell", "dead"}
  /\ sink \in {"absent", "registered", "enabled", "disabled"}
  /\ {loaded, reply} \subseteq BOOLEAN
  /\ gone \subseteq Objects
  /\ keys \in 0 .. MaxKeys

Types == MainTypes /\ PlayerTypes /\ ThreadTypes

\* The actions that only post a delegate, or none, and move one thread on.
Simple ==
  \/ OpenFirst \/ Serve \/ MainLoopExit \/ PlayerExit \/ Join \/ PluginsExit
  \/ Teardown \/ Key \/ CtrlC \/ Ask \/ Resume \/ PlayerLoopExit \/ Unload
  \/ Eof \/ Tell

\* Next is one of these.
LEMMA Actions ==
  [Next]_vars => \/ Simple \/ PluginsInit \/ MainRun \/ PlayerRun
                 \/ UNCHANGED vars
BY DEF Next, MainProgress, PlayerProgress, Simple

\* A delegate that the player's loop runs is the oldest it has not run.
LEMMA PlayerRunOldest ==
  ASSUME PlayerTypes, PlayerRun
  PROVE  LET d == plog[Len(pran) + 1]
         IN /\ Len(pran) < Len(plog) /\ d \in PlayerDelegates
            /\ pran' = Append(pran, d) /\ plog' = plog
            /\ pran'[Len(pran')] = d /\ Len(pran') = Len(pran) + 1
            /\ pran' \in Seq(PlayerDelegates) /\ pran' # <<>>
<1>1. /\ Len(pran) < Len(plog) /\ pran' = Append(pran, plog[Len(pran) + 1])
      /\ plog' = plog
  BY DEF PlayerRun, PlayerQ!Run
<1>2. plog[Len(pran) + 1] \in PlayerDelegates
  BY <1>1 DEF PlayerTypes
<1> QED BY <1>1, <1>2, AppendProperties DEF PlayerTypes

\* So is one that main's loop runs.
LEMMA MainRunOldest ==
  ASSUME MainTypes, MainRun
  PROVE  LET d == mlog[Len(mran) + 1]
         IN /\ Len(mran) < Len(mlog) /\ d \in MainDelegates
            /\ mran' = Append(mran, d) /\ mlog' = mlog
            /\ mran'[Len(mran')] = d /\ Len(mran') = Len(mran) + 1
            /\ mran' \in Seq(MainDelegates)
<1>1. /\ Len(mran) < Len(mlog) /\ mran' = Append(mran, mlog[Len(mran) + 1])
      /\ mlog' = mlog
  BY DEF MainRun, MainQ!Run
<1>2. mlog[Len(mran) + 1] \in MainDelegates
  BY <1>1 DEF MainTypes
<1> QED BY <1>1, <1>2, AppendProperties DEF MainTypes

\* A posted delegate goes to the end of its queue, before which nothing
\* changes.
LEMMA PlayerPost ==
  ASSUME PlayerTypes, NEW d \in PlayerDelegates, PlayerQ!Post(d)
  PROVE  /\ plog' \in Seq(PlayerDelegates) /\ Len(plog') = Len(plog) + 1
         /\ plog'[Len(plog) + 1] = d
         /\ \A i \in 1 .. Len(plog) : plog'[i] = plog[i]
         /\ pran' = pran /\ pphase' = pphase
BY AppendProperties DEF PlayerTypes, PlayerQ!Post

LEMMA MainPost ==
  ASSUME MainTypes, NEW d \in MainDelegates, MainQ!Post(d)
  PROVE  /\ mlog' \in Seq(MainDelegates) /\ Len(mlog') = Len(mlog) + 1
         /\ mlog'[Len(mlog) + 1] = d
         /\ \A i \in 1 .. Len(mlog) : mlog'[i] = mlog[i]
         /\ mran' = mran /\ mphase' = mphase
BY AppendProperties DEF MainTypes, MainQ!Post

\* How any step but a run changes main's queue.
MainGrows(D) ==
  /\ mran' = mran
  /\ \/ mlog' = mlog
     \/ /\ mlog' \in Seq(MainDelegates) /\ Len(mlog') = Len(mlog) + 1
        /\ mlog'[Len(mlog) + 1] \in D
        /\ \A i \in 1 .. Len(mlog) : mlog'[i] = mlog[i]

\* How any step but a run changes the player's queue.
PlayerGrows ==
  /\ pran' = pran
  /\ \/ plog' = plog
     \/ /\ plog' \in Seq(PlayerDelegates) /\ Len(plog') = Len(plog) + 1
        /\ \A i \in 1 .. Len(plog) : plog'[i] = plog[i]

LEMMA PlayerQueue ==
  ASSUME Types, Simple \/ PluginsInit \/ MainRun \/ UNCHANGED vars
  PROVE  PlayerGrows
<1>1. CASE OpenFirst
  <2>1. PlayerQ!Post("set_input") \/ UNCHANGED playerVars BY <1>1 DEF OpenFirst
  <2> QED BY <2>1, PlayerPost DEF Types, PlayerGrows, PlayerDelegates, playerVars
<1>2. CASE PlayerExit
  <2>1. PlayerQ!Post("exit") BY <1>2 DEF PlayerExit
  <2> QED BY <2>1, PlayerPost DEF Types, PlayerGrows, PlayerDelegates
<1>3. CASE Key
  <2>1. PlayerQ!Post("goto_next") \/ PlayerQ!Post("other") BY <1>3 DEF Key
  <2> QED BY <2>1, PlayerPost DEF Types, PlayerGrows, PlayerDelegates
<1>4. CASE PluginsInit
  <2>1. PlayerQ!Post("set_sink") \/ UNCHANGED playerVars
    BY <1>4 DEF PluginsInit
  <2> QED BY <2>1, PlayerPost DEF Types, PlayerGrows, PlayerDelegates, playerVars
<1>5. CASE MainRun \/ Serve \/ MainLoopExit \/ Join \/ PluginsExit \/ Teardown
           \/ CtrlC \/ Ask \/ Resume \/ Unload \/ Eof \/ Tell \/ UNCHANGED vars
  BY <1>5 DEF PlayerGrows, playerVars, vars, MainRun, Serve, MainLoopExit, Join,
     PluginsExit, Teardown, CtrlC, Ask, Resume, Unload, Eof, Tell
<1>6. CASE PlayerLoopExit
  BY <1>6 DEF PlayerGrows, PlayerLoopExit, PlayerQ!Exit
<1> QED BY <1>1, <1>2, <1>3, <1>4, <1>5, <1>6 DEF Simple

\* Only Ask posts next_track, and only Tell posts position.
LEMMA MainQueue ==
  ASSUME Types, Simple \/ PluginsInit \/ PlayerRun \/ UNCHANGED vars
  PROVE  /\ ~Ask /\ ~Tell => MainGrows({"info", "fatal"})
         /\ Ask => MainGrows({"next_track"})
         /\ Tell => MainGrows({"position"})
<1>1. CASE OpenFirst \/ Serve
  <2>1. MainQ!Post("info") \/ UNCHANGED mainVars
    BY <1>1 DEF OpenFirst, Serve, Info
  <2>2. MainGrows({"info", "fatal"})
    BY <2>1, MainPost DEF Types, MainGrows, MainDelegates, mainVars
  <2>3. ~Ask /\ ~Tell
    BY <1>1 DEF OpenFirst, Serve, Ask, Tell
  <2> QED BY <2>2, <2>3
<1>2. CASE PluginsInit
  <2>1. MainQ!Post("fatal") \/ UNCHANGED mainVars
    BY <1>2 DEF PluginsInit
  <2>2. MainGrows({"info", "fatal"})
    BY <2>1, MainPost DEF Types, MainGrows, MainDelegates, mainVars
  <2>3. ~Ask /\ ~Tell
    BY <1>2 DEF PluginsInit, Ask, Tell
  <2> QED BY <2>2, <2>3
<1>3. CASE Ask
  <2>1. MainQ!Post("next_track") /\ ~Tell
    BY <1>3 DEF Ask, Tell
  <2> QED BY <1>3, <2>1, MainPost DEF Types, MainGrows, MainDelegates
<1>4. CASE Tell
  <2>1. (MainQ!Post("position") \/ UNCHANGED mainVars) /\ ~Ask
    BY <1>4 DEF Ask, Tell
  <2> QED BY <1>4, <2>1, MainPost DEF Types, MainGrows, MainDelegates, mainVars
<1>5. CASE \/ PlayerExit \/ Join \/ PluginsExit \/ Teardown \/ Key \/ Resume
           \/ PlayerLoopExit \/ Unload \/ Eof \/ PlayerRun \/ UNCHANGED vars
           \/ MainLoopExit \/ CtrlC
  <2>1. MainGrows({"info", "fatal"})
    BY <1>5 DEF MainGrows, mainVars, vars, PlayerExit, Join, PluginsExit, Teardown,
       Key, Resume, PlayerLoopExit, Unload, Eof, PlayerRun, MainLoopExit, CtrlC,
       MainQ!Exit, MainQ!Stop
  <2>2. Ask \/ Tell => MainGrows({"next_track"}) /\ MainGrows({"position"})
    BY <1>5 DEF MainGrows, mainVars, vars, PlayerExit, Join, PluginsExit, Teardown,
       Key, Resume, PlayerLoopExit, Unload, Eof, PlayerRun, MainLoopExit, CtrlC,
       MainQ!Exit, MainQ!Stop
  <2> QED BY <2>1, <2>2
<1> QED BY <1>1, <1>2, <1>3, <1>4, <1>5 DEF Simple

\* Every step keeps the types.
LEMMA TypesStep == Types /\ [Next]_vars => Types'
<1> SUFFICES ASSUME Types, [Next]_vars PROVE Types'
  OBVIOUS
<1>1. MainTypes'
  <2>1. CASE MainRun
    BY <2>1, MainRunOldest DEF Types, MainTypes
  <2>2. CASE \/ MainGrows({"info", "fatal"}) \/ MainGrows({"next_track"})
             \/ MainGrows({"position"})
    BY <2>2 DEF MainGrows, Types, MainTypes
  <2> QED BY <2>1, <2>2, Actions, MainQueue
<1>2. PlayerTypes'
  <2>1. CASE PlayerRun
    BY <2>1, PlayerRunOldest DEF Types, PlayerTypes
  <2>2. CASE PlayerGrows
    BY <2>2 DEF PlayerGrows, Types, PlayerTypes
  <2> QED BY <2>1, <2>2, Actions, PlayerQueue
<1>3. ThreadTypes'
  <2> USE DEF Types, ThreadTypes, mainVars, playerVars, MainQ!Post, PlayerQ!Post
  <2>1. CASE PluginsInit \/ OpenFirst \/ Serve
    BY <2>1 DEF PluginsInit, OpenFirst, Serve, Info
  <2>2. CASE MainLoopExit \/ PlayerExit \/ Join
    BY <2>2 DEF MainLoopExit, PlayerExit, Join, MainQ!Exit, Objects
  <2>3. CASE PluginsExit \/ Teardown \/ Key
    <3>1. keys' = keys \/ (keys' = keys + 1 /\ keys < MaxKeys)
      BY <2>3 DEF PluginsExit, Teardown, Key
    <3>2. keys \in 0 .. MaxKeys
      OBVIOUS
    <3>3. keys' \in 0 .. MaxKeys
      BY ONLY <3>1, <3>2, Bounds
    <3> QED BY <2>3, <3>3 DEF PluginsExit, Teardown, Key, Objects
  <2>4. CASE CtrlC \/ Ask \/ Resume \/ Eof
    BY <2>4 DEF CtrlC, MainQ!Stop, Ask, Resume, Eof
  <2>5. CASE PlayerLoopExit \/ Unload \/ Tell
    BY <2>5 DEF PlayerLoopExit, PlayerQ!Exit, Unload, Tell
  <2>6. CASE MainRun
    BY <2>6 DEF MainRun
  <2>7. CASE PlayerRun
    BY <2>7 DEF PlayerRun, PlayerQ!Run
  <2>8. CASE UNCHANGED vars
    BY <2>8 DEF vars
  <2> QED BY <2>1, <2>2, <2>3, <2>4, <2>5, <2>6, <2>7, <2>8, Actions DEF Simple
<1> QED BY <1>1, <1>2, <1>3 DEF Types

LEMMA TypesKept == Spec => []Types
<1>1. Init => Types
  <2> SUFFICES ASSUME Init PROVE Types
    OBVIOUS
  <2>1. MainTypes
    BY DEF Init, MainQ!Init, MainTypes
  <2>2. PlayerTypes
    BY DEF Init, PlayerQ!Init, PlayerTypes
  <2>3. ThreadTypes
    <3>1. loaded = FALSE /\ reply = FALSE /\ keys \in 0 .. MaxKeys
      BY Bounds DEF Init
    <3> QED BY <3>1 DEF Init, MainQ!Init, PlayerQ!Init, ThreadTypes
  <2> QED BY <2>1, <2>2, <2>3 DEF Types
<1> QED BY <1>1, TypesStep, PTL DEF Spec

-----------------------------------------------------------------------------
(* What is freed, and when.                                                *)

\* The player thread stays in its loop until the loop exits, then it lets go
\* of the sink, and dies after that; main frees nothing before.
LifeInv ==
  /\ ppc \in {"loop", "ask", "wait"} => pphase # "exited"
  /\ ppc \in {"unload", "farewell", "dead"} => pphase = "exited"
  /\ pphase = "exited" /\ ppc # "unload" => sink # "enabled"
  /\ gone # {} \/ mpc \in {"plugins exit", "teardown"} => ppc = "dead"

LEMMA LifeStep == Types /\ LifeInv /\ [Next]_vars => LifeInv'
<1> SUFFICES ASSUME Types, LifeInv, [Next]_vars PROVE LifeInv'
  OBVIOUS
<1> USE DEF LifeInv, mainVars, playerVars, PlayerQ!Post
<1>1. CASE PluginsInit \/ OpenFirst \/ Serve
  BY <1>1 DEF PluginsInit, OpenFirst, Serve
<1>2. CASE MainLoopExit \/ PlayerExit \/ Join
  BY <1>2 DEF MainLoopExit, PlayerExit, Join
<1>3. CASE PluginsExit \/ Teardown \/ Key
  BY <1>3 DEF PluginsExit, Teardown, Key
<1>4. CASE CtrlC \/ Ask \/ Resume \/ Eof
  BY <1>4 DEF CtrlC, Ask, Resume, Eof
<1>5. CASE PlayerLoopExit \/ Unload \/ Tell
  BY <1>5 DEF PlayerLoopExit, PlayerQ!Exit, Unload, Tell
<1>6. CASE MainRun
  BY <1>6 DEF MainRun
<1>7. CASE PlayerRun
  BY <1>7 DEF PlayerRun, PlayerQ!Run
<1>8. CASE UNCHANGED vars
  BY <1>8 DEF vars
<1> QED BY <1>1, <1>2, <1>3, <1>4, <1>5, <1>6, <1>7, <1>8, Actions DEF Simple

LEMMA LifeKept == Spec => []LifeInv
<1>1. Init => LifeInv
  BY DEF Init, LifeInv, PlayerQ!Init
<1> QED BY <1>1, LifeStep, TypesKept, PTL DEF Spec

\* main_exit frees no loop, plugin or diag while the player thread lives,
\* whatever is still queued when the user quits.
THEOREM NothingFreedEarly == Spec => []NothingUsedAfterFree
<1>1. LifeInv => NothingUsedAfterFree
  BY DEF LifeInv, NothingUsedAfterFree
<1> QED BY <1>1, LifeKept, PTL

\* When the player's loop is freed, the sink has given back what it
\* registered with it.
THEOREM SinkLetGo == Spec => []SinkReleased
<1>1. LifeInv => SinkReleased
  BY DEF LifeInv, SinkReleased
<1> QED BY <1>1, LifeKept, PTL

-----------------------------------------------------------------------------
(* The sink and the tracks.                                                *)

SinkReady == sink \in {"enabled", "disabled"}

\* No sink was handed over, and main goes no further than this.
Sinkless ==
  \/ mpc \in {"plugins", "abort"}
  \/ sink = "absent" /\ mpc \in {"open", "crash"}

\* Handing over the sink is the first thing ever posted to the player, so
\* the player has the sink once it has run anything at all, and a track is
\* loaded, or asked for, by a delegate or by a callback of a loaded track.
SinkInv ==
  /\ mpc = "plugins" => sink = "absent"
  /\ Sinkless => plog = <<>>
  /\ ~Sinkless => plog # <<>> /\ plog[1] = "set_sink"
  /\ pran # <<>> => SinkReady
  /\ loaded \/ ppc \in {"ask", "wait"} => pran # <<>>

LEMMA SinkStep == Types /\ SinkInv /\ [Next]_vars => SinkInv'
<1> SUFFICES ASSUME Types, SinkInv, [Next]_vars PROVE SinkInv'
  OBVIOUS
<1>0. /\ plog \in Seq(PlayerDelegates) /\ pran \in Seq(PlayerDelegates)
      /\ Len(pran) <= Len(plog)
  BY DEF Types, PlayerTypes
<1>1. CASE PluginsInit
  <2>1. plog = <<>> /\ pran = <<>> /\ ~loaded /\ ppc \notin {"ask", "wait"}
    BY <1>0, <1>1 DEF PluginsInit, SinkInv, Sinkless
  <2>2. loaded' = loaded /\ ppc' = ppc
    BY <1>1 DEF PluginsInit
  <2>3. CASE mpc' = "abort" /\ UNCHANGED playerVars
    BY <2>1, <2>2, <2>3 DEF SinkInv, Sinkless, playerVars
  <2>4. CASE mpc' = "open" /\ sink' = "registered" /\ PlayerQ!Post("set_sink")
    <3>1. plog' = Append(<<>>, "set_sink") /\ pran' = <<>>
      BY <2>1, <2>4 DEF PlayerQ!Post
    <3> QED BY <2>1, <2>2, <2>4, <3>1 DEF SinkInv, Sinkless
  <2>5. CASE mpc' = "open" /\ sink' = sink /\ UNCHANGED playerVars
    <3>1. sink = "absent"
      BY <1>1 DEF PluginsInit, SinkInv
    <3> QED BY <2>1, <2>2, <2>5, <3>1 DEF SinkInv, Sinkless, playerVars
  <2> QED BY <1>1, <2>3, <2>4, <2>5 DEF PluginsInit
<1>2. CASE PlayerRun
  <2>1. /\ plog # <<>> /\ plog' = plog /\ mpc' = mpc /\ pran' # <<>>
        /\ pran'[Len(pran')] = plog[Len(pran) + 1]
    BY <1>0, <1>2, PlayerRunOldest DEF PlayerRun, Types
  <2>2. SinkReady'
    <3>1. CASE pran = <<>>
      <4>1. pran'[Len(pran')] = "set_sink"
        BY <2>1, <3>1 DEF SinkInv
      <4> QED BY <1>2, <4>1 DEF PlayerRun, SinkReady
    <3>2. CASE pran # <<>>
      BY <1>2, <3>2 DEF PlayerRun, SinkReady, SinkInv
    <3> QED BY <3>1, <3>2
  <2>3. ~Sinkless /\ ~Sinkless'
    <3>1. ~Sinkless
      BY <2>1 DEF SinkInv
    <3> QED BY <1>2, <2>1, <3>1 DEF PlayerRun, Sinkless
  <2> QED BY <2>1, <2>2, <2>3 DEF SinkInv, Sinkless
<1>3. CASE Simple \/ MainRun \/ UNCHANGED vars
  <2>1. PlayerGrows
    BY <1>3, PlayerQueue
  <2>2. plog # <<>> => plog' # <<>> /\ plog'[1] = plog[1]
    BY <1>0, <2>1 DEF PlayerGrows
  <2>3. /\ pran' = pran
        /\ SinkReady => SinkReady'
        /\ loaded' \/ ppc' \in {"ask", "wait"} =>
             loaded \/ ppc \in {"ask", "wait"}
    <3>1. CASE OpenFirst \/ Serve \/ MainLoopExit \/ PlayerExit \/ Join
               \/ PluginsExit \/ Teardown \/ Key \/ CtrlC \/ MainRun
      <4>1. loaded' = loaded /\ ppc' = ppc /\ sink' = sink
        BY <3>1 DEF OpenFirst, Serve, MainLoopExit, PlayerExit, Join, PluginsExit,
           Teardown, Key, CtrlC, MainRun
      <4> QED BY <2>1, <4>1 DEF PlayerGrows, SinkReady
    <3>2. CASE Ask \/ Resume \/ PlayerLoopExit \/ Eof \/ UNCHANGED vars
      BY <2>1, <3>2 DEF PlayerGrows, SinkReady, Ask, Resume, PlayerLoopExit, Eof, vars
    <3>3. CASE Unload \/ Tell
      BY <2>1, <3>3 DEF PlayerGrows, SinkReady, Unload, Tell
    <3> QED BY <1>3, <3>1, <3>2, <3>3 DEF Simple
  <2>4. /\ Sinkless => Sinkless' /\ plog' = plog
        /\ ~Sinkless => ~Sinkless'
        /\ mpc' = "plugins" => mpc = "plugins" /\ (sink = "absent" => sink' = "absent")
    <3> USE DEF playerVars, Sinkless
    <3>1. CASE OpenFirst \/ Serve \/ MainLoopExit \/ PlayerExit \/ Join
               \/ PluginsExit \/ Teardown \/ Key \/ CtrlC \/ MainRun
      BY <3>1 DEF OpenFirst, Serve, MainLoopExit, PlayerExit, Join, PluginsExit,
         Teardown, Key, CtrlC, MainRun
    <3>2. CASE Ask \/ Resume \/ PlayerLoopExit \/ Unload \/ Eof \/ Tell
               \/ UNCHANGED vars
      BY <3>2 DEF Ask, Resume, PlayerLoopExit, Unload, Eof, Tell, vars,
         PlayerQ!Exit
    <3> QED BY <1>3, <3>1, <3>2 DEF Simple
  <2> QED BY <2>2, <2>3, <2>4 DEF SinkInv
<1> QED BY <1>1, <1>2, <1>3, Actions

\* Whatever the user types and however the threads interleave, the player
\* has its sink before it loads a track.
THEOREM SinkFirst == Spec => []SinkBeforeInput
<1>1. Init => SinkInv
  BY DEF Init, PlayerQ!Init, SinkInv, Sinkless
<1>2. SinkInv => SinkBeforeInput
  BY DEF SinkInv, SinkReady, SinkBeforeInput
<1> QED BY <1>1, <1>2, SinkStep, TypesKept, PTL DEF Spec

-----------------------------------------------------------------------------
(* The position.                                                           *)

LEMMA PositionStep ==
  Types /\ PositionCaughtUp /\ [Next]_vars => PositionCaughtUp'
<1> SUFFICES ASSUME Types, PositionCaughtUp, [Next]_vars
             PROVE  PositionCaughtUp'
  OBVIOUS
<1>0. /\ mlog \in Seq(MainDelegates) /\ mran \in Seq(MainDelegates)
      /\ Len(mran) <= Len(mlog)
  BY DEF Types, MainTypes
<1>1. CASE MainRun
  <2>1. /\ mlog' = mlog /\ Len(mran') = Len(mran) + 1 /\ told' = told
        /\ mran'[Len(mran')] = mlog[Len(mran) + 1] /\ ppc' = ppc
    BY <1>1, MainRunOldest DEF MainRun, Types
  <2>2. CASE mlog[Len(mran) + 1] = "position"
    <3>1. shown' = told
      BY <1>1, <2>1, <2>2 DEF MainRun
    <3> QED BY <2>1, <3>1 DEF PositionCaughtUp
  <2>3. CASE mlog[Len(mran) + 1] # "position"
    <3>1. shown' = shown
      BY <1>1, <2>1, <2>3 DEF MainRun
    <3>2. Pending' = Pending
      BY <1>0, <2>1, <2>3 DEF Pending
    <3> QED BY <2>1, <3>1, <3>2 DEF PositionCaughtUp
  <2> QED BY <2>2, <2>3
<1>2. CASE Tell
  <2>1. CASE ppc = "post"
    <3>1. MainQ!Post("position")
      BY <1>2, <2>1 DEF Tell
    <3>2. /\ Len(mlog') = Len(mlog) + 1 /\ mlog'[Len(mlog) + 1] = "position"
          /\ mran' = mran
      BY <3>1, MainPost DEF Types, MainDelegates
    <3>3. Len(mlog) + 1 \in Pending'
      BY <1>0, <3>2 DEF Pending
    <3> QED BY <3>3 DEF PositionCaughtUp
  <2>2. CASE ppc # "post"
    BY <1>2, <2>2 DEF Tell, PositionCaughtUp
  <2> QED BY <2>1, <2>2
<1>3. CASE ~MainRun /\ ~Tell
  <2>1. told' = told /\ shown' = shown
    BY <1>3, Actions DEF Simple, vars, PluginsInit, OpenFirst, Serve, MainLoopExit,
       PlayerExit, Join, PluginsExit, Teardown, Key, CtrlC, Ask, Resume,
       PlayerLoopExit, Unload, Eof, PlayerRun
  <2>2. ppc = "post" => ppc' = "post"
    BY <1>3, Actions DEF Simple, vars, PluginsInit, OpenFirst, Serve, MainLoopExit,
       PlayerExit, Join, PluginsExit, Teardown, Key, CtrlC, Ask, Resume,
       PlayerLoopExit, Unload, Eof, PlayerRun
  <2>3. MainGrows({"info", "fatal"}) \/ MainGrows({"next_track"})
    BY <1>3, Actions, MainQueue
  <2>4. Pending \subseteq Pending'
    BY <1>0, <2>3 DEF MainGrows, Pending
  <2> QED BY <2>1, <2>2, <2>4 DEF PositionCaughtUp
<1> QED BY <1>1, <1>2, <1>3

\* The terminal never stays behind the last position that was reported,
\* although the one delegate is posted again before it has run.
THEOREM PositionKept == Spec => []PositionCaughtUp
<1>1. Init => PositionCaughtUp
  BY DEF Init, PositionCaughtUp
<1> QED BY <1>1, PositionStep, TypesKept, PTL DEF Spec

-----------------------------------------------------------------------------
(* The types, with the one call that waits for an answer and the reports.  *)

\* The positions in main's queue that hold a call for the next track.
Calls == {i \in Len(mran) + 1 .. Len(mlog) : mlog[i] = "next_track"}

\* One call at a time is queued, served or answered, and its caller waits.
ReplyInv ==
  /\ reply => ppc = "wait"
  /\ mpc = "serve" => ppc = "wait" /\ ~reply
  /\ Calls # {} => ppc = "wait" /\ ~reply /\ mpc # "serve"
  /\ \A i, j \in Calls : i = j

LEMMA ReplyStep == Types /\ ReplyInv /\ [Next]_vars => ReplyInv'
<1> SUFFICES ASSUME Types, ReplyInv, [Next]_vars PROVE ReplyInv'
  OBVIOUS
<1>0. /\ mlog \in Seq(MainDelegates) /\ mran \in Seq(MainDelegates)
      /\ Len(mran) <= Len(mlog) /\ reply \in BOOLEAN
  BY DEF Types, MainTypes, ThreadTypes
<1>1. CASE MainRun
  <2>1. /\ mlog' = mlog /\ Len(mran') = Len(mran) + 1 /\ Len(mran) < Len(mlog)
        /\ mran'[Len(mran')] = mlog[Len(mran) + 1]
        /\ ppc' = ppc /\ reply' = reply /\ mpc = "loop"
    BY <1>1, MainRunOldest DEF MainRun, Types
  <2>2. CASE mlog[Len(mran) + 1] = "next_track"
    <3>1. Len(mran) + 1 \in Calls
      BY <1>0, <2>1, <2>2 DEF Calls
    <3>2. Calls' = {}
      <4> SUFFICES ASSUME NEW i \in Calls' PROVE FALSE
        OBVIOUS
      <4>1. i \in Calls /\ i # Len(mran) + 1
        BY <1>0, <2>1 DEF Calls
      <4> QED BY <3>1, <4>1 DEF ReplyInv
    <3> QED BY <2>1, <3>1, <3>2 DEF ReplyInv
  <2>3. CASE mlog[Len(mran) + 1] # "next_track"
    <3>1. mpc' = mpc
      BY <1>1, <2>1, <2>3 DEF MainRun
    <3>2. Calls' = Calls
      BY <1>0, <2>1, <2>3 DEF Calls
    <3> QED BY <2>1, <3>1, <3>2 DEF ReplyInv
  <2> QED BY <2>2, <2>3
<1>2. CASE Ask
  <2>1. Calls = {} /\ mpc # "serve" /\ ~reply
    BY <1>2 DEF Ask, ReplyInv
  <2>2. /\ Len(mlog') = Len(mlog) + 1 /\ mran' = mran
        /\ \A i \in 1 .. Len(mlog) : mlog'[i] = mlog[i]
    BY <1>0, <1>2, MainPost DEF Ask, Types, MainDelegates
  <2>3. Calls' \subseteq {Len(mlog) + 1}
    <3> SUFFICES ASSUME NEW i \in Calls', i # Len(mlog) + 1 PROVE FALSE
      OBVIOUS
    <3>1. i \in Calls
      BY <1>0, <2>2 DEF Calls
    <3> QED BY <2>1, <3>1
  <2>4. ppc' = "wait" /\ reply' = reply /\ mpc' = mpc
    BY <1>2 DEF Ask
  <2> QED BY <2>1, <2>3, <2>4 DEF ReplyInv
<1>3. CASE ~MainRun /\ ~Ask
  <2>1. MainGrows({"info", "fatal"}) \/ MainGrows({"position"})
    BY <1>3, Actions, MainQueue
  <2>2. Calls' \subseteq Calls
    BY <1>0, <2>1 DEF MainGrows, Calls
  <2>3. CASE PluginsInit \/ OpenFirst \/ MainLoopExit \/ PlayerExit \/ Join
             \/ PluginsExit \/ Teardown \/ Key \/ CtrlC
    <3>1. ppc' = ppc /\ reply' = reply /\ (mpc' = "serve" => mpc = "serve")
      BY <2>3 DEF PluginsInit, OpenFirst, MainLoopExit, PlayerExit, Join,
         PluginsExit, Teardown, Key, CtrlC
    <3> QED BY <2>2, <3>1 DEF ReplyInv
  <2>4. CASE Serve
    BY <2>2, <2>4 DEF Serve, ReplyInv
  <2>5. CASE Resume
    BY <2>2, <2>5 DEF Resume, ReplyInv
  <2>6. CASE PlayerRun \/ PlayerLoopExit \/ Unload \/ Eof \/ Tell \/ UNCHANGED vars
    <3>1. /\ reply' = reply /\ mpc' = mpc
          /\ ppc = "wait" => ppc' = "wait"
      BY <2>6 DEF PlayerRun, PlayerLoopExit, Unload, Eof, Tell, vars
    <3> QED BY <2>2, <3>1 DEF ReplyInv
  <2> QED BY <1>3, <2>3, <2>4, <2>5, <2>6, Actions DEF Simple
<1> QED BY <1>1, <1>2, <1>3

\* Only the report behind the loop exceeds the bound.
ReportInv ==
  /\ told \in Nat /\ shown \in 0 .. told
  /\ \/ told <= MaxTells
     \/ told = MaxTells + 1 /\ pphase = "exited" /\ ppc \in {"post", "dead"}

LEMMA ReportStep ==
  Types /\ LifeInv /\ ReportInv /\ [Next]_vars => ReportInv'
<1> SUFFICES ASSUME Types, LifeInv, ReportInv, [Next]_vars PROVE ReportInv'
  OBVIOUS
<1>1. CASE MainRun
  <2>1. told' = told /\ shown' \in {told, shown} /\ pphase' = pphase /\ ppc' = ppc
    BY <1>1 DEF MainRun, playerVars
  <2> QED BY <2>1, Bounds DEF ReportInv
<1>2. CASE Tell
  <2>1. pphase' = pphase /\ shown' = shown
    BY <1>2 DEF Tell, playerVars
  <2>2. CASE ppc = "loop"
    <3>1. told' = told + 1 /\ told < MaxTells
      BY <1>2, <2>2 DEF Tell
    <3> QED BY <2>1, <3>1, Bounds DEF ReportInv
  <2>3. CASE ppc = "farewell"
    <3>1. told' = told + 1 /\ ppc' = "post" /\ pphase = "exited"
      BY <1>2, <2>3 DEF Tell, LifeInv
    <3>2. told <= MaxTells
      BY <2>3 DEF ReportInv
    <3> QED BY <2>1, <3>1, <3>2, Bounds DEF ReportInv
  <2>4. CASE ppc = "post"
    <3>1. told' = told /\ (pphase = "exited" => ppc' = "dead")
      BY <1>2, <2>4 DEF Tell
    <3> QED BY <2>1, <3>1 DEF ReportInv
  <2> QED BY <1>2, <2>2, <2>3, <2>4 DEF Tell
<1>3. CASE ~MainRun /\ ~Tell
  <2>1. told' = told /\ shown' = shown
    BY <1>3, Actions DEF Simple, vars, PluginsInit, OpenFirst, Serve, MainLoopExit,
       PlayerExit, Join, PluginsExit, Teardown, Key, CtrlC, Ask, Resume,
       PlayerLoopExit, Unload, Eof, PlayerRun
  <2>2. pphase = "exited" /\ ppc \in {"post", "dead"} => pphase' = pphase /\ ppc' = ppc
    <3> USE DEF playerVars, PlayerQ!Post
    <3>1. CASE PluginsInit \/ OpenFirst \/ Serve \/ MainLoopExit \/ PlayerExit
               \/ Join \/ PluginsExit \/ Teardown \/ Key \/ CtrlC \/ UNCHANGED vars
      BY <3>1 DEF PluginsInit, OpenFirst, Serve, MainLoopExit, PlayerExit, Join,
         PluginsExit, Teardown, Key, CtrlC, vars
    <3>2. CASE Ask \/ Resume \/ PlayerLoopExit \/ Unload \/ Eof \/ PlayerRun
      BY <3>2 DEF Ask, Resume, PlayerLoopExit, Unload, Eof, PlayerRun
    <3> QED BY <1>3, <3>1, <3>2, Actions DEF Simple
  <2> QED BY <2>1, <2>2, Bounds DEF ReportInv
<1> QED BY <1>1, <1>2, <1>3

\* Every reachable state of the program has its type, and no answer for the
\* next track is ever left over for a later call to find.
THEOREM TypeCorrect == Spec => []TypeOK
<1>1. Init => ReplyInv /\ ReportInv
  BY Bounds DEF Init, MainQ!Init, ReplyInv, Calls, ReportInv
<1>2. Types /\ ReplyInv /\ ReportInv => TypeOK
  <2> SUFFICES ASSUME Types, ReplyInv, ReportInv PROVE TypeOK
    OBVIOUS
  <2>1. told \in 0 .. MaxTells + 1 /\ shown \in 0 .. told
    BY Bounds DEF ReportInv
  <2> QED BY <2>1 DEF Types, MainTypes, PlayerTypes, ThreadTypes, ReplyInv, TypeOK
<1> QED BY <1>1, <1>2, ReplyStep, ReportStep, LifeKept, TypesKept, PTL DEF Spec
=============================================================================
