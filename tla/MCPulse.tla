------------------------------ MODULE MCPulse ------------------------------
(***************************************************************************)
(* Two formats, so that a change of format and a return to the first one   *)
(* occur.                                                                  *)
(*                                                                         *)
(* MCPulse.cfg: three streams, one that is heard, one that waits behind it *)
(* and one that is written to; two units of buffer, written at once or in  *)
(* two; nobody mutes.                                                      *)
(*                                                                         *)
(* MCPulseBeliefs.cfg: two streams, so that one takes the place of the     *)
(* other, and two questions, a stale answer and the one that corrects it.  *)
(***************************************************************************)
EXTENDS Pulse, TLC

CONSTANTS mp3, flac

MCFormats == {mp3, flac}
MCSymmetry == Permutations(MCFormats)
=============================================================================
