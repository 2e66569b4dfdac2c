------------------------------- MODULE MCOka -------------------------------
(***************************************************************************)
(* Two keys, so that one can be queued behind another the player is        *)
(* serving; two reported positions besides the last, so that one can be    *)
(* overwritten before main prints it; two tracks that end by themselves.   *)
(***************************************************************************)
EXTENDS Oka

MCMaxKeys == 2
MCMaxTells == 2
MCMaxTracks == 2
=============================================================================
