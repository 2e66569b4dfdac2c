----------------------------- MODULE MCDecoder ------------------------------
(***************************************************************************)
(* One file at the rate the decoder counts with, one at a higher one, one  *)
(* without a tag; any set of plugins; a sink that takes two of the three   *)
(* rates and one of the two encodings.  Tags of up to three frames: dates  *)
(* of four digits, of eight and of more, with dashes inside, at the        *)
(* beginning and alone; genres by number, the last of the table and the    *)
(* one behind it, with a refinement behind the number, as Remix and Cover, *)
(* and by name; frames with an empty text, without one, of another kind.   *)
(***************************************************************************)
EXTENDS Decoder

File(rate, length, tagged) == [rate |-> rate, length |-> length, tagged |-> tagged]

MCFormats == [rate : {1, 2, 3}, channels : {1, 2}, enc : {"s16", "u24"}]
MCRange == {f \in MCFormats : f.rate >= 2 /\ f.channels = 2 /\ f.enc = "s16"}
MCFiles == {File(2, 4, TRUE), File(3, 9, TRUE), File(2, 2, FALSE)}
MCDirectory == {"pulse", "mpg123", "copy", "old"}
MCDiffs == {-1, 1}

F(id, text, key, means) == [id |-> id, text |-> text, key |-> key, means |-> means]

Bare == [TBPM |-> "bpm", TCMP |-> "compilation", TPE1 |-> "artist", TPE2 |-> "albumartist",
         TPE4 |-> "remixer", TPOS |-> "disc", TRCK |-> "track"]

MCFrames ==
  { F("TIT2", <<Other>>, "title", <<Other>>), F("TALB", <<Other, Other>>, "album", <<Other, Other>>),
    F("TIT2", <<>>, "title", <<>>), F("TIT2", NULL, "none", <<>>), F("TXXX", <<Other>>, "none", <<>>),
    F("TYER", <<2, 0, 1, 2>>, "date", <<2, 0, 1, 2, 0, 0, 0, 0>>),
    F("TORY", <<1, 9, 9, 9>>, "originaldate", <<1, 9, 9, 9, 0, 0, 0, 0>>),
    F("TDRC", <<2, 0, 1, 2>>, "date", <<2, 0, 1, 2, 0, 0, 0, 0>>),
    F("TDRL", <<2, 0, 1, 2, 0, 4, 2, 5>>, "date", <<2, 0, 1, 2, 0, 4, 2, 5>>),
    F("TDOR", <<2, 0, 1, 2, 0, 4, 2, 5, 1, 1>>, "originaldate", <<2, 0, 1, 2, 0, 4, 2, 5>>),
    F("TCON", <<Other, Other>>, "genre", <<Other, Other>>), F("TCON", <<>>, "genre", <<>>),
    F("TCON", <<LPar, 1, 1, RPar>>, "genre", GenreName(11)),
    F("TCON", <<LPar, 4, RPar, Other>>, "genre", GenreName(4)),
    F("TCON", <<LPar, 1, 2, RPar>>, "genre", <<LPar, 1, 2, RPar>>),
    F("TCON", <<LPar, RPar>>, "genre", <<LPar, RPar>>),
    F("TCON", <<LPar, R, X, RPar>>, "genre", Remix),
    F("TCON", <<LPar, C, R, RPar>>, "genre", Cover) }

\* Timestamps with dashes, and what the standard means by them.
MCDashed ==
  { F("TDRC", <<2, 0, 1, 2, Dash, 0, 4, Dash, 2, 5>>, "date", <<2, 0, 1, 2, 0, 4, 2, 5>>),
    F("TDOR", <<1, 9, 9, 9, Dash, 1, 2>>, "originaldate", <<1, 9, 9, 9, 1, 2, 0, 0>>),
    F("TDRL", <<Dash, 0, 4>>, "date", <<0, 0, 0, 0, 0, 4, 0, 0>>),
    F("TDRC", <<Dash>>, "date", <<0, 0, 0, 0, 0, 0, 0, 0>>) }

\* Any two frames of these, any three that are about dates, and one whose text is copied
\* as it is beside any other.
MCTags ==
  UNION {[1 .. n -> MCFrames \cup MCDashed] : n \in 0 .. 2}
    \cup [1 .. 3 -> {f \in MCFrames \cup MCDashed : f.key \in {"date", "originaldate"}}]
    \cup {<<F(id, <<Other>>, Bare[id], <<Other>>), f>> : id \in DOMAIN Bare, f \in MCFrames}
=============================================================================
