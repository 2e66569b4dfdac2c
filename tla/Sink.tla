-------------------------------- MODULE Sink --------------------------------
(***************************************************************************)
(* What a sink is to the player (include/sink.h): it takes audio of the    *)
(* format it was given last, and plays what it has taken in that order,    *)
(* whatever the format, unless a flush, or the end of the sink, drops all  *)
(* of it.                                                                  *)
(***************************************************************************)
EXTENDS Naturals, Sequences

CONSTANTS Formats,
          MaxCommit, \* bound: units of audio committed at once
          NULL

VARIABLES fmt,  \* the format audio is taken in, or NULL
          held  \* the format of each unit that is going to be heard

sinkVars == <<fmt, held>>

SinkInit == fmt = NULL /\ held = <<>>

SetFormat(f) == fmt' = f /\ UNCHANGED held

\* provide_buf and commit_buf
Commit(n) ==
  /\ fmt # NULL
  /\ held' = held \o [i \in 1 .. n |-> fmt] /\ UNCHANGED fmt

Play == held # <<>> /\ held' = Tail(held) /\ UNCHANGED fmt

\* flush, and with NULL also disable and failure.
Flush(f) == held' = <<>> /\ fmt' = f

SinkNext ==
  \/ \E f \in Formats \cup {NULL} : SetFormat(f) \/ Flush(f)
  \/ \E n \in 1 .. MaxCommit : Commit(n)
  \/ Play

SinkSpec == SinkInit /\ [][SinkNext]_sinkVars
=============================================================================
