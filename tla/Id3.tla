-------------------------------- MODULE Id3 ---------------------------------
(***************************************************************************)
(* The tags of a track (src/utils/id3.c): the text frames of an ID3v2 tag  *)
(* are turned, one by one, into metadata: operators that Decoder uses.     *)
(*                                                                         *)
(* A text is a sequence of characters: digits, Dash, and other characters  *)
(* of which the parentheses and the letters of RX and CR have a meaning.   *)
(* The names of the table of genres are characters of their own.  A frame  *)
(* or a field without a text has NULL for one.                             *)
(***************************************************************************)
EXTENDS Integers, Sequences
LOCAL INSTANCE SequencesExt

CONSTANTS DateLen,   \* sizeof(metadata_date_format) - 1 (8)
          Genres,    \* N_ELEMENTS(id3_genres)
          NULL

ASSUME Id3Assumption == DateLen \in Nat /\ Genres \in Nat

Nul == -1                \* the character behind the last one of a text
Dash == 10
LPar == 11
RPar == 12
R == 13
X == 14
C == 15
Other == 16              \* any other letter
Remix == <<17>>
Cover == <<18>>
GenreName(n) == <<19 + n>>

\* id3_map, with the field that id3_fill_date chooses for the last five
KeyOf == [TALB |-> "album", TBPM |-> "bpm", TCMP |-> "compilation", TCON |-> "genre",
          TIT2 |-> "title", TPE1 |-> "artist", TPE2 |-> "albumartist", TPE4 |-> "remixer",
          TPOS |-> "disc", TRCK |-> "track",
          TDOR |-> "originaldate", TORY |-> "originaldate",
          TDRC |-> "date", TDRL |-> "date", TYER |-> "date"]
Years == {"TORY", "TYER"}
Timestamps == {"TDOR", "TDRC", "TDRL"}
Keys == {KeyOf[id] : id \in DOMAIN KeyOf}

IsDigit(c) == c \in 0 .. 9

\* Mutant: the date is as long as the text.
FillYearShort(txt) == txt

\* id3_fill_year: the text, cut or filled up with zeros.
FillYear(txt) == [i \in 1 .. DateLen |-> IF i <= Len(txt) THEN txt[i] ELSE 0]

\* What a byte may be that nobody wrote: in a date from malloc, or behind the end of a text.
Junk == {Nul, 0, Other}

\* id3_fill_timestamp: `*txt == '-'` looks for a dash where the text begins, not at i.  There
\* it moves txt on and leaves a byte of the date as malloc gave it; any other dash is copied.
\* After a dash txt[i] is two characters on, perhaps behind the end of the text.
FillTimestamp(txt, junk) ==
  LET at(k) == IF k < Len(txt) THEN txt[k + 1] ELSE IF k = Len(txt) THEN Nul ELSE junk
      moved[i \in 0 .. DateLen] ==
        IF i = 0 THEN 0 ELSE moved[i - 1] + (IF at(moved[i - 1]) = Dash THEN 1 ELSE 0)
      \* the loop has written the i-th byte of the date, or skipped it
      Reached(i) == \A j \in 0 .. i - 1 : at(moved[j] + j) # Nul
  IN  [i \in 1 .. DateLen |-> IF ~Reached(i) THEN 0
                              ELSE IF at(moved[i - 1]) = Dash THEN junk
                              ELSE at(moved[i - 1] + i - 1)]

\* strtoul from the second character on: the digits, the character behind them.
Digits(txt) ==
  LET stops == {i \in 2 .. Len(txt) : ~IsDigit(txt[i])}
      end == IF stops = {} THEN Len(txt) + 1 ELSE CHOOSE i \in stops : \A j \in stops : i <= j
  IN  SubSeq(txt, 2, end - 1)

Number(digits) ==
  LET value[i \in 0 .. Len(digits)] == IF i = 0 THEN 0 ELSE 10 * value[i - 1] + digits[i]
  IN  value[Len(digits)]

Begins(txt, with) == Len(txt) >= Len(with) /\ SubSeq(txt, 1, Len(with)) = with

\* A number of the table in parentheses; what follows them is not looked at.
IsGenre(txt) ==
  /\ Begins(txt, <<LPar>>) /\ Digits(txt) # <<>>
  /\ Len(txt) > 1 + Len(Digits(txt)) /\ txt[Len(Digits(txt)) + 2] = RPar
  /\ Number(Digits(txt)) < Genres

\* id3_fill_genre
Genre(txt) ==
  CASE Begins(txt, <<LPar, R, X, RPar>>) -> Remix
    [] Begins(txt, <<LPar, C, R, RPar>>) -> Cover
    [] IsGenre(txt) -> GenreName(Number(Digits(txt)))
    [] OTHER -> txt

\* id3_metadata
Value(id, txt, junk) == CASE id \in Years -> FillYear(txt)
                    [] id \in Timestamps -> FillTimestamp(txt, junk)
                    [] id = "TCON" -> Genre(txt)
                    [] OTHER -> txt

Untagged == [k \in Keys |-> NULL]

\* What the loop of ip_metadata makes of the text frames of a tag: id3_metadata for each.
\* One without a text (size 0) or of an id that is not in the table is passed over, any
\* other one replaces what was there.  One byte of junk stands for all.
Metadata(tag, junk) ==
  LET Fill(metadata, f) ==
        IF f.text = NULL \/ f.id \notin DOMAIN KeyOf THEN metadata
        ELSE [metadata EXCEPT ![KeyOf[f.id]] = Value(f.id, f.text, junk)]
  IN  FoldLeft(Fill, Untagged, tag)
=============================================================================
