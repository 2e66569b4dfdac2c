------------------------------ MODULE Decoder -------------------------------
(***************************************************************************)
(* From a path to audio: the plugins that are found (src/plugins.c), what  *)
(* main asks of the first decoder for a track, and the decoder of          *)
(* src/plugins/mpg123.c with the streams it opens.                         *)
(*                                                                         *)
(* libmpg123 is known by a handle: the formats it may put out, where it    *)
(* is in the file, and whether it was deleted.  Every call of it that may  *)
(* fail does, here (mpg123_tell may not).  Main opens; the player's thread *)
(* seeks, reads and closes what is open, so the two interleave.            *)
(***************************************************************************)
EXTENDS Integers, Sequences, Id3

CONSTANTS Directory,  \* plugin files there may be: "pulse", "mpg123", "copy" of it, "old", "broken"
          Files,      \* tracks: [rate, channels, length, tagged], the length in samples
          Formats,    \* all formats: [rate, channels, enc]
          Range,      \* those in the sink's audio_format_range
          SeekRate,   \* samples in a unit of time: the 44100 of ip_seek
          Diffs,      \* distances the player seeks, in units of time
          Tags,       \* what a tag may hold: sequences of text frames, each with its id and
                      \* text, and key and means, the field it is for and what belongs there
          PosBits,    \* bits of a position (64)
          Buffer,     \* samples in the buffer given to ip_read
          MaxOpens,   \* bound: handles made; tags are looked into for the first one
          MaxReads    \* bound: seeks and reads

ASSUME DecoderAssumption ==
  /\ Range \subseteq Formats
  /\ \A f \in Formats : f.rate \in Nat \ {0}
  /\ \A f \in Files : f.rate \in Nat \ {0} /\ f.length \in Nat
  /\ NULL \notin Nat
  /\ SeekRate \in Nat \ {0} /\ Diffs \subseteq Int /\ Buffer \in Nat \ {0} /\ PosBits \in Nat

Handles == 1 .. MaxOpens

VARIABLES pending,   \* plugin files not loaded yet
          sinks,     \* plugins_sinks
          decoders,  \* plugins_decoders
          handle,    \* the mpg123 handles made: [file, allowed, at]
          live,      \* handles that are not deleted
          streams,   \* handles held by an ip_stream, and the format it tells
          cur,       \* plugins_open in progress: [step, file, h, fmt, why]
          reads,     \* seeks and reads so far
          last       \* the answer of the last seek or read

vars == <<pending, sinks, decoders, handle, live, streams, cur, reads, last>>

None == [step |-> "idle"]
Crash(by) == [step |-> "crashed", by |-> by]   \* a null pointer is followed, or a BUG
Fresh == Len(handle) + 1

\* Any of the plugins may have been installed.
Init == /\ pending \in SUBSET Directory /\ sinks = {} /\ decoders = {}
        /\ handle = <<>> /\ live = {} /\ streams = [h \in {} |-> NULL]
        /\ cur = None /\ reads = 0 /\ last = NULL

Loading == pending # {} /\ cur.step # "crashed"
Audio == UNCHANGED <<handle, live, streams, reads, last>>

\* plugins_load_one, in the order readdir gives; add_sink and add_decoder refuse a
\* second one of a name, and mpg123's plugin_init BUGs on that.
Load(p) ==
  /\ p \in pending
  /\ cur = None
  /\ pending' = pending \ {p}
  /\ sinks' = IF p = "pulse" THEN sinks \cup {"pulse"} ELSE sinks
  /\ decoders' = IF p \in {"mpg123", "copy"} THEN decoders \cup {"mpg123"} ELSE decoders
  /\ cur' = IF p \in {"mpg123", "copy"} /\ decoders # {} THEN Crash("BUG") ELSE None
  /\ Audio

-----------------------------------------------------------------------------
(* plugins_open: ip_metadata, then ip_open.                                *)

Rest == UNCHANGED <<pending, sinks, decoders, reads, last>>
GoTo(step) == cur' = [cur EXCEPT !.step = step]

\* plugins_decoders.ptr[0], whatever plugins_decoders.len is.
PluginsOpen(f) ==
  /\ ~Loading /\ cur = None
  /\ Fresh + 1 <= MaxOpens
  /\ cur' = IF decoders = {} THEN Crash("decoder")
            ELSE [step |-> "new", file |-> f, h |-> NULL, fmt |-> NULL, why |-> "metadata",
                  tag |-> <<>>, metadata |-> Untagged]
  /\ Rest /\ UNCHANGED <<handle, live, streams>>

\* mpg123_new
New ==
  /\ cur.step = "new"
  /\ \/ GoTo("return") /\ UNCHANGED <<handle, live>>
     \/ /\ cur' = [cur EXCEPT !.step = "open", !.h = Fresh]
        /\ handle' = Append(handle, [file |-> cur.file, allowed |-> Formats, at |-> 0])
        /\ live' = live \cup {Fresh}
  /\ Rest /\ UNCHANGED streams

\* mpg123_open
OpenFile ==
  /\ cur.step = "open"
  /\ \/ GoTo("return")
     \/ GoTo(IF cur.why = "metadata" THEN "scan" ELSE "range")
  /\ Rest /\ UNCHANGED <<handle, live, streams>>

\* mpg123_scan and mpg123_id3, which gives no tag (NULL) for a file without one, and
\* id3_metadata for every frame.
ReadTag ==
  /\ cur.step = "scan"
  /\ \/ ~cur.file.tagged /\ cur' = Crash("tag")
     \/ /\ cur.file.tagged
        /\ \E tag \in IF cur.h = 1 THEN Tags ELSE {<<>>} : \E junk \in Junk :
             cur' = [cur EXCEPT !.step = "return", !.tag = tag, !.metadata = Metadata(tag, junk)]
  /\ Rest /\ UNCHANGED <<handle, live, streams>>

\* ip_set_range: every rate of the range, with the range's channels and encodings.
\* The range is a part of the first sink, and plugins_current_sink may be none.
SetRange ==
  /\ cur.step = "range"
  /\ \/ sinks = {} /\ cur' = Crash("sink") /\ UNCHANGED handle
     \/ sinks # {} /\ GoTo("return") /\ UNCHANGED handle
     \/ /\ sinks # {}
        /\ handle' = [handle EXCEPT ![cur.h].allowed = Range]
        /\ GoTo("fix")
  /\ Rest /\ UNCHANGED <<live, streams>>

\* What libmpg123 can make of a file: its own channels or the other number of them,
\* at its own rate or a lower one.
Playable(f) == {fmt \in Formats : fmt.rate <= f.rate}

\* Mutant: the handle is left free to change its format.
FixFormatOpen ==
  /\ cur.step = "fix"
  /\ \/ GoTo("return") /\ UNCHANGED handle
     \/ \E fmt \in handle[cur.h].allowed \cap Playable(cur.file) :
          /\ UNCHANGED handle
          /\ cur' = [cur EXCEPT !.fmt = fmt, !.step = "stream"]
  /\ Rest /\ UNCHANGED <<live, streams>>

\* ip_fix_format: from now on the handle puts out that format only.
FixFormat ==
  /\ cur.step = "fix"
  /\ \/ GoTo("return") /\ UNCHANGED handle
     \/ \E fmt \in handle[cur.h].allowed \cap Playable(cur.file) :
          /\ handle' = [handle EXCEPT ![cur.h].allowed = {fmt}]
          /\ cur' = [cur EXCEPT !.fmt = fmt, !.step = "stream"]
  /\ Rest /\ UNCHANGED <<live, streams>>

\* ip_open succeeds: the handle is the stream's now.
MakeStream ==
  /\ cur.step = "stream"
  /\ streams' = [h \in DOMAIN streams \cup {cur.h} |-> IF h = cur.h THEN cur.fmt ELSE streams[h]]
  /\ cur' = [cur EXCEPT !.step = "return", !.h = NULL]
  /\ Rest /\ UNCHANGED <<handle, live>>

\* Mutant: an error path forgets the handle.
ReturnLeak ==
  /\ cur.step = "return"
  /\ UNCHANGED live
  /\ cur' = IF cur.why = "metadata"
            THEN [cur EXCEPT !.step = "new", !.h = NULL, !.why = "open", !.tag = <<>>, !.metadata = Untagged]
            ELSE None
  /\ Rest /\ UNCHANGED <<handle, streams>>

\* The function returns, with auto_delete; whatever ip_metadata said, its metadata are
\* printed and freed, and ip_open is next.
Return ==
  /\ cur.step = "return"
  /\ live' = live \ {cur.h}
  /\ cur' = IF cur.why = "metadata"
            THEN [cur EXCEPT !.step = "new", !.h = NULL, !.why = "open", !.tag = <<>>, !.metadata = Untagged]
            ELSE None
  /\ Rest /\ UNCHANGED <<handle, streams>>

-----------------------------------------------------------------------------
(* An open stream, in the hands of the player.                             *)

Min(a, b) == IF a < b THEN a ELSE b
Max(a, b) == IF a > b THEN a ELSE b

\* Samples the file has at the rate the handle puts out.
Length(h) == (handle[h].file.length * streams[h].rate) \div handle[h].file.rate

Use(h) == /\ h \in DOMAIN streams /\ cur.step # "crashed" /\ reads < MaxReads
          /\ reads' = reads + 1
          /\ UNCHANGED <<pending, sinks, decoders, live, streams, cur>>

\* ip_read: the position before the read, and n samples; none only at the end, because
\* it reads again when a read gave nothing but a new format.
Read(h, n) ==
  /\ Use(h)
  /\ n = 0 => handle[h].at = Length(h)
  /\ handle[h].at + n <= Length(h)
  /\ handle' = [handle EXCEPT ![h].at = @ + n]
  /\ last' = [op |-> "read", h |-> h, pos |-> handle[h].at, len |-> n]

\* ip_read fails
ReadFails(h) ==
  /\ Use(h)
  /\ last' = [op |-> "failed", h |-> h]
  /\ UNCHANGED handle

Clamp(h, at) == Min(Max(at, 0), Length(h))

\* What mpg123_seek says of a seek: where the stream is now, inside of the file, or
\* MPG123_ERR, and the stream is where it was.
Said(to) == {to, -1}
Sought(h, said) == [handle EXCEPT ![h].at = IF said = -1 THEN @ ELSE said]

\* (u64), which makes a large position of MPG123_ERR
U64(n) == n % 2 ^ PosBits

\* ip_seek succeeds whatever mpg123_seek says.  Whether the stream is at its end it learns
\* from a read of nothing, which may fail.
Seek(h, diff) ==
  /\ Use(h)
  /\ \E said \in Said(Clamp(h, handle[h].at + diff * SeekRate)) : \E failed \in BOOLEAN :
       /\ handle' = Sought(h, said)
       /\ last' = [op |-> "seek", h |-> h, pos |-> U64(said), diff |-> diff, from |-> handle[h].at,
                   eof |-> ~failed /\ handle'[h].at = Length(h)]

\* ip_seek_abs, which the player calls with 0
SeekStart(h) ==
  /\ Use(h)
  /\ \E said \in Said(0) : /\ handle' = Sought(h, said)
                          /\ last' = [op |-> "seek_abs", h |-> h, pos |-> U64(said)]

\* ip_close
Close(h) ==
  /\ h \in DOMAIN streams /\ cur.step # "crashed"
  /\ streams' = [s \in DOMAIN streams \ {h} |-> streams[s]]
  /\ live' = live \ {h}
  /\ UNCHANGED <<pending, sinks, decoders, handle, cur, reads, last>>

Next ==
  \/ \E p \in Directory : Load(p)
  \/ \E f \in Files : PluginsOpen(f)
  \/ New \/ OpenFile \/ ReadTag \/ SetRange \/ FixFormat \/ MakeStream \/ Return
  \/ \E h \in Handles : \/ \E n \in 0 .. Buffer : Read(h, n)
                        \/ \E diff \in Diffs : Seek(h, diff)
                        \/ SeekStart(h) \/ ReadFails(h) \/ Close(h)

Spec == Init /\ [][Next]_vars

-----------------------------------------------------------------------------
(* Properties                                                              *)

TypeOK ==
  /\ sinks \subseteq {"pulse"} /\ decoders \subseteq {"mpg123"}
  /\ live \subseteq DOMAIN handle /\ DOMAIN streams \subseteq DOMAIN handle
  /\ \A h \in DOMAIN handle : /\ handle[h].file \in Files /\ handle[h].allowed \subseteq Formats
                             /\ handle[h].at \in Nat
  /\ cur.step \in {"idle", "new", "open", "scan", "range", "fix", "stream", "return", "crashed"}

\* An mpg123 handle is deleted by the function that made it or belongs to one open
\* stream, whichever call fails on the way (auto_delete, move and ip_close).
HandlesOwned ==
  /\ DOMAIN streams \subseteq live
  /\ cur = None => live = DOMAIN streams

\* The format a stream tells is one the sink takes, and the only one its handle will
\* put out: the player tells it to the sink once and reads without looking again.
FormatAgreed ==
  \A h \in DOMAIN streams : streams[h] \in Range /\ handle[h].allowed = {streams[h]}

\* An open stream has a live handle of its own that does what the stream tells.
StreamsSound == TypeOK /\ HandlesOwned /\ FormatAgreed

\* The last of the frames of a tag for a key, or 0.
LastFor(tag, k) ==
  LET at == {i \in DOMAIN tag : tag[i].key = k}
  IN  IF at = {} THEN 0 ELSE CHOOSE i \in at : \A j \in at : j <= i

\* A timestamp as the standard has it, yyyy-MM-dd.
Dashed(f) == f.id \in Timestamps /\ \E i \in DOMAIN f.text : f.text[i] = Dash

\* Every field of a tag holds what its last frame means: the two fields for dates with
\* their five kinds of frames, genres by number, by abbreviation and by name, texts that are
\* empty, and frames to be passed over do not get into each other's way.  Of a timestamp
\* with dashes that is so of the year only (see DatesAreDigits).
MetadataMeant ==
  cur.step = "return" => \A k \in Keys :
    LET n == LastFor(cur.tag, k)
        year(text) == SubSeq(text, 1, 4)
    IN  IF n > 0 /\ Dashed(cur.tag[n])
        THEN Head(cur.tag[n].text) # Dash => year(cur.metadata[k]) = year(cur.tag[n].means)
        ELSE cur.metadata[k] = IF n = 0 THEN NULL ELSE cur.tag[n].means

(* Not so; see section 4 of the README.                                    *)

\* plugins.c:121 asks `if (plugins_sinks.len > 0)`: there may be no sink.
NoSinkSurvived == cur # Crash("sink")

\* plugins.c:163 asks `if (metadata[i])`: a file need not have a tag.
UntaggedSurvived == cur # Crash("tag")

\* player.c:80 turns pos_samples into milliseconds with the stream's rate: a seek moves
\* the position it shows by the distance asked for, unless an end of the file is nearer;
\* it does not when the stream's rate is another than 44100, nor when mpg123_seek fails.
SeekMoves ==
  (last # NULL /\ last.op = "seek" /\ last.h \in DOMAIN streams) =>
    \/ last.pos \in {0, Length(last.h)}
    \/ last.pos - last.from = last.diff * streams[last.h].rate

\* include/utils/metadata.h:27 has a date as sizeof("20120425"), eight digits: the dashes
\* of a timestamp are not skipped (id3.c:73), and 2012-04-25 is stored as 2012-04-.
DatesAreDigits ==
  cur.step = "return" => \A k \in {"date", "originaldate"} :
    cur.metadata[k] # NULL =>
      Len(cur.metadata[k]) = DateLen /\ \A i \in 1 .. DateLen : IsDigit(cur.metadata[k][i])
=============================================================================
