------------------------------ MODULE MCPlayer ------------------------------
(***************************************************************************)
(* Three tracks, the longest as long as the sink's buffer and the shortest *)
(* a single tick, so that a whole track can sit in the buffer behind the   *)
(* end of another; t3 has another format.  The user seeks back, and past   *)
(* the end of any track.  Five ticks are two seconds and a half: enough    *)
(* for the position to be told twice and for a track to be heard to its    *)
(* end in between.                                                         *)
(***************************************************************************)
EXTENDS Player

CONSTANTS t1, t2, t3, mp3, flac

MCStreams == {t1, t2, t3}
MCLength == (t1 :> 3) @@ (t2 :> 1) @@ (t3 :> 2)
MCFormat == (t1 :> mp3) @@ (t2 :> mp3) @@ (t3 :> flac)
MCSeeks == {-1, 3}
=============================================================================
