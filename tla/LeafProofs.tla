--------------------------- MODULE LeafProofs ----------------------------
(***************************************************************************)
(* Safety of two parts that call nothing else of the program: the decoder, *)
(* for any plugins, files, formats and ranges, and the output buffer of    *)
(* the terminal, for any size of the buffer, any texts and any way the     *)
(* writes cut them.                                                        *)
(***************************************************************************)
EXTENDS Decoder, TermOut, TLAPS

-----------------------------------------------------------------------------
(* The decoder.                                                            *)

HandleType == [file : Files, allowed : SUBSET Formats, at : Nat]

\* plugins_open is in progress.
Opening(c) ==
  /\ c = [step |-> c.step, file |-> c.file, h |-> c.h, fmt |-> c.fmt, why |-> c.why,
          tag |-> c.tag, metadata |-> c.metadata]
  /\ c.step \in {"new", "open", "scan", "range", "fix", "stream", "return"}
  /\ c.file \in Files

\* The handle of the function in progress, if there is one, is live and no
\* stream's; and what was agreed of its format so far.
Step(c, hs, alive, open) ==
  \/ c = None /\ alive = open
  \/ c.step = "crashed"
  \/ Opening(c) /\ c.step \in {"new", "return"} /\ c.h = NULL /\ alive = open
  \/ /\ Opening(c) /\ c.step # "new" /\ c.h \in DOMAIN hs
     /\ alive = open \cup {c.h} /\ c.h \notin open
     /\ c.step = "fix" => hs[c.h].allowed \subseteq Range
     /\ c.step = "stream" => c.fmt \in Range /\ hs[c.h].allowed = {c.fmt}

IInv ==
  /\ sinks \subseteq {"pulse"} /\ decoders \subseteq {"mpg123"}
  /\ handle \in Seq(HandleType)
  /\ live \subseteq DOMAIN handle /\ DOMAIN streams \subseteq live
  /\ \A h \in DOMAIN streams : streams[h] \in Range /\ handle[h].allowed = {streams[h]}
  /\ Step(cur, handle, live, DOMAIN streams)

\* The invariant is strong enough.
LEMMA Implied == IInv => StreamsSound
<1> SUFFICES ASSUME IInv PROVE StreamsSound
  OBVIOUS
<1>1. /\ sinks \subseteq {"pulse"} /\ decoders \subseteq {"mpg123"}
      /\ handle \in Seq(HandleType) /\ live \subseteq DOMAIN handle /\ DOMAIN streams \subseteq live
      /\ \A h \in DOMAIN streams : streams[h] \in Range /\ handle[h].allowed = {streams[h]}
      /\ Step(cur, handle, live, DOMAIN streams)
  BY DEF IInv
<1>2. \A h \in DOMAIN handle : /\ handle[h].file \in Files /\ handle[h].allowed \subseteq Formats
                               /\ handle[h].at \in Nat
  <2>1. \A h \in DOMAIN handle : handle[h] \in HandleType
    BY <1>1
  <2> QED BY <2>1 DEF HandleType
<1>3. cur.step \in {"idle", "new", "open", "scan", "range", "fix", "stream", "return", "crashed"}
  BY <1>1 DEF Step, Opening, None
<1>4. TypeOK
  BY <1>1, <1>2, <1>3 DEF TypeOK
<1>5. HandlesOwned
  BY <1>1 DEF HandlesOwned, Step, Opening, None
<1> QED BY <1>1, <1>4, <1>5 DEF StreamsSound, FormatAgreed

\* At the start nothing is open.
LEMMA InitIs == Init => IInv
<1> SUFFICES ASSUME Init PROVE IInv
  OBVIOUS
<1>1. handle = <<>> /\ Len(handle) = 0 /\ DOMAIN handle = {} /\ handle \in Seq(HandleType)
  BY DEF Init
<1>2. DOMAIN streams = {}
  BY DEF Init
<1> QED BY <1>1, <1>2, DecoderAssumption DEF Init, IInv, Step, None

\* A handle changes, but its file stays.
LEMMA HandleSet ==
  ASSUME NEW hs \in Seq(HandleType), NEW h \in DOMAIN hs, NEW x \in HandleType,
         NEW q, q = [hs EXCEPT ![h] = x]
  PROVE  /\ q \in Seq(HandleType) /\ Len(q) = Len(hs) /\ DOMAIN q = DOMAIN hs /\ q[h] = x
         /\ \A i \in DOMAIN hs : i # h => q[i] = hs[i]
OBVIOUS

\* The handle in hand is told its format, which no stream sees.
LEMMA StillThere ==
  ASSUME IInv, NEW h \in DOMAIN handle, NEW x \in HandleType,
         x.file = handle[h].file, x.at = handle[h].at, h \notin DOMAIN streams,
         handle' = [handle EXCEPT ![h] = x], UNCHANGED <<pending, sinks, decoders, live, streams, last>>,
         Step(cur', handle', live, DOMAIN streams)
  PROVE  IInv'
<1>1. /\ handle \in Seq(HandleType) /\ live \subseteq DOMAIN handle /\ DOMAIN streams \subseteq live
  BY DEF IInv
<1>2. /\ handle' \in Seq(HandleType) /\ Len(handle') = Len(handle) /\ DOMAIN handle' = DOMAIN handle
      /\ handle'[h] = x /\ \A i \in DOMAIN handle : i # h => handle'[i] = handle[i]
  BY <1>1, HandleSet
<1>3. \A i \in DOMAIN streams : i \in DOMAIN handle /\ handle'[i] = handle[i]
  BY <1>1, <1>2
<1> QED BY <1>1, <1>2, <1>3 DEF IInv

\* plugins_open goes on, or ends, with the handles as they are.
LEMMA Onward ==
  ASSUME IInv, UNCHANGED <<handle, streams, last>>, sinks' \subseteq {"pulse"},
         decoders' \subseteq {"mpg123"}, live' \subseteq DOMAIN handle, DOMAIN streams \subseteq live',
         Step(cur', handle, live', DOMAIN streams)
  PROVE  IInv'
BY DEF IInv

\* Only the step of plugins_open changes.
LEMMA SetIs ==
  ASSUME NEW c, Opening(c),
         NEW step \in {"new", "open", "scan", "range", "fix", "stream", "return"},
         NEW d, d = [c EXCEPT !.step = step]
  PROVE  Opening(d) /\ d.step = step /\ d.h = c.h /\ d.fmt = c.fmt
<1>1. d = [step |-> step, file |-> c.file, h |-> c.h, fmt |-> c.fmt, why |-> c.why,
           tag |-> c.tag, metadata |-> c.metadata]
  BY DEF Opening
<1>2. /\ d.step = step /\ d.file = c.file /\ d.h = c.h /\ d.fmt = c.fmt /\ d.why = c.why
      /\ d.tag = c.tag /\ d.metadata = c.metadata
  BY <1>1
<1> QED BY <1>1, <1>2 DEF Opening

\* What the invariant says of the handles.
LEMMA Here ==
  ASSUME IInv
  PROVE  /\ handle \in Seq(HandleType) /\ Len(handle) \in Nat /\ DOMAIN handle = 1 .. Len(handle)
         /\ NULL \notin DOMAIN handle
         /\ live \subseteq DOMAIN handle /\ DOMAIN streams \subseteq live
         /\ \A h \in DOMAIN handle : handle[h] \in HandleType
         /\ Step(cur, handle, live, DOMAIN streams)
<1>1. handle \in Seq(HandleType)
  BY DEF IInv
<1>2. Len(handle) \in Nat /\ DOMAIN handle = 1 .. Len(handle)
  BY <1>1
<1> QED BY <1>1, <1>2, DecoderAssumption DEF IInv

\* What plugins_open has: no handle, or one that is nobody else's.
LEMMA InHand ==
  ASSUME IInv, NEW step \in {"new", "open", "scan", "range", "fix", "stream", "return"},
         cur.step = step
  PROVE  /\ Opening(cur)
         /\ \/ /\ step \in {"new", "return"} /\ cur.h = NULL /\ live = DOMAIN streams
            \/ /\ step # "new" /\ cur.h \in DOMAIN handle
               /\ live = DOMAIN streams \cup {cur.h} /\ cur.h \notin DOMAIN streams
         /\ step = "fix" => handle[cur.h].allowed \subseteq Range
         /\ step = "stream" => cur.fmt \in Range /\ handle[cur.h].allowed = {cur.fmt}
<1>1. Step(cur, handle, live, DOMAIN streams) /\ cur.step # "crashed" /\ cur # None
  BY Here DEF None
<1> QED BY <1>1 DEF Step

\* It goes on with the handle it has.
LEMMA GoesOn ==
  ASSUME IInv, NEW from \in {"new", "open", "scan", "range", "fix", "stream", "return"},
         cur.step = from,
         NEW step \in {"open", "scan", "range", "return"}, GoTo(step),
         from \in {"new", "return"} => step = "return",
         UNCHANGED <<pending, sinks, decoders, reads, last, handle, live, streams>>
  PROVE  IInv'
<1>1. cur' = [cur EXCEPT !.step = step]
  BY DEF GoTo
<1>2. /\ Opening(cur)
      /\ \/ from \in {"new", "return"} /\ cur.h = NULL /\ live = DOMAIN streams
         \/ /\ from # "new" /\ cur.h \in DOMAIN handle
            /\ live = DOMAIN streams \cup {cur.h} /\ cur.h \notin DOMAIN streams
  BY InHand
<1>3. Opening(cur') /\ cur'.step = step /\ cur'.h = cur.h
  BY <1>1, <1>2, SetIs
<1>4. Step(cur', handle, live, DOMAIN streams)
  <2>1. CASE from \in {"new", "return"} /\ cur.h = NULL /\ live = DOMAIN streams
    <3>1. cur'.step = "return" /\ cur'.h = NULL
      BY <1>3, <2>1
    <3> QED BY <1>3, <2>1, <3>1 DEF Step
  <2>2. CASE /\ from # "new" /\ cur.h \in DOMAIN handle
             /\ live = DOMAIN streams \cup {cur.h} /\ cur.h \notin DOMAIN streams
    <3>1. /\ cur'.step # "new" /\ cur'.step # "fix" /\ cur'.step # "stream"
          /\ cur'.h = cur.h
      BY <1>3
    <3> QED BY <1>3, <2>2, <3>1 DEF Step
  <2> QED BY <1>2, <2>1, <2>2
<1> QED BY <1>4, Here, Onward DEF IInv

LEMMA LoadKeeps == ASSUME IInv, NEW p \in Directory, Load(p) PROVE IInv'
<1>1. UNCHANGED <<handle, live, streams, last>> /\ cur = None
  BY DEF Load, Audio
<1>2. sinks' \subseteq {"pulse"} /\ decoders' \subseteq {"mpg123"}
  BY DEF Load, IInv
<1>3. live = DOMAIN streams
  BY <1>1, Here DEF Step, Opening, None
<1>4. Step(cur', handle, live, DOMAIN streams)
  BY <1>3 DEF Load, Crash, Step
<1> QED BY <1>1, <1>2, <1>4, Here, Onward

LEMMA OpenKeeps == ASSUME IInv, NEW f \in Files, PluginsOpen(f) PROVE IInv'
<1>1. UNCHANGED <<pending, sinks, decoders, handle, live, streams, reads, last>> /\ cur = None
  BY DEF PluginsOpen, Rest
<1>2. live = DOMAIN streams
  BY <1>1, Here DEF Step, Opening, None
<1>3. CASE cur' = Crash("decoder")
  <2>1. Step(cur', handle, live, DOMAIN streams)
    BY <1>3 DEF Crash, Step
  <2> QED BY <1>1, <2>1, Here, Onward DEF IInv
<1>4. CASE cur' = [step |-> "new", file |-> f, h |-> NULL, fmt |-> NULL, why |-> "metadata",
                   tag |-> <<>>, metadata |-> Untagged]
  <2>1. Opening(cur') /\ cur'.step = "new" /\ cur'.h = NULL
    BY <1>4 DEF Opening
  <2>2. Step(cur', handle, live, DOMAIN streams)
    BY <1>2, <2>1 DEF Step
  <2> QED BY <1>1, <2>2, Here, Onward DEF IInv
<1> QED BY <1>3, <1>4 DEF PluginsOpen

\* A new handle is live, and in hand.
LEMMA NewKeeps == ASSUME IInv, New PROVE IInv'
<1>1. cur.step = "new" /\ UNCHANGED <<pending, sinks, decoders, reads, last, streams>>
  BY DEF New, Rest
<1>2. CASE GoTo("return") /\ UNCHANGED <<handle, live>>
  BY <1>1, <1>2, GoesOn
<1>3. CASE /\ cur' = [cur EXCEPT !.step = "open", !.h = Fresh]
           /\ handle' = Append(handle, [file |-> cur.file, allowed |-> Formats, at |-> 0])
           /\ live' = live \cup {Fresh}
  <2> DEFINE x == [file |-> cur.file, allowed |-> Formats, at |-> 0]
  <2>1. Opening(cur) /\ cur.h = NULL /\ live = DOMAIN streams
    BY <1>1, InHand
  <2>2. x \in HandleType
    BY <2>1 DEF HandleType, Opening
  <2> HIDE DEF x
  <2>3. handle' = Append(handle, x) /\ handle \in Seq(HandleType) /\ Len(handle) \in Nat
    BY <1>3, Here DEF x
  <2>4. /\ handle' \in Seq(HandleType) /\ DOMAIN handle' = 1 .. Len(handle) + 1
        /\ \A i \in 1 .. Len(handle) : handle'[i] = handle[i]
    BY <2>2, <2>3
  <2>5. DOMAIN handle = 1 .. Len(handle) /\ live \subseteq DOMAIN handle
    BY Here
  <2>6. Fresh \in DOMAIN handle' /\ Fresh \notin DOMAIN handle /\ DOMAIN handle \subseteq DOMAIN handle'
    BY <2>3, <2>4, <2>5 DEF Fresh
  <2>7. cur' = [step |-> "open", file |-> cur.file, h |-> Fresh, fmt |-> cur.fmt, why |-> cur.why,
                tag |-> cur.tag, metadata |-> cur.metadata]
    BY <1>3, <2>1 DEF Opening
  <2> DEFINE fresh == Fresh
  <2> HIDE DEF fresh
  <2>8. Opening(cur') /\ cur'.step = "open" /\ cur'.h = Fresh
    <3>1. cur.file \in Files
      BY <2>1 DEF Opening
    <3>2. cur' = [step |-> "open", file |-> cur.file, h |-> fresh, fmt |-> cur.fmt, why |-> cur.why,
                  tag |-> cur.tag, metadata |-> cur.metadata]
      BY <2>7 DEF fresh
    <3> QED BY <3>1, <3>2 DEF Opening, fresh
  <2>9. Step(cur', handle', live', DOMAIN streams)
    BY <1>3, <2>1, <2>5, <2>6, <2>8 DEF Step
  <2>10. \A h \in DOMAIN streams : streams[h] \in Range /\ handle'[h].allowed = {streams[h]}
    BY <2>4, <2>5, Here DEF IInv
  <2> QED BY <1>1, <1>3, <2>1, <2>4, <2>5, <2>6, <2>9, <2>10 DEF IInv
<1> QED BY <1>2, <1>3 DEF New

LEMMA TagKeeps == ASSUME IInv, ReadTag PROVE IInv'
<1>1. cur.step = "scan" /\ UNCHANGED <<pending, sinks, decoders, reads, last, handle, live, streams>>
  BY DEF ReadTag, Rest
<1>2. /\ Opening(cur) /\ cur.h \in DOMAIN handle
      /\ live = DOMAIN streams \cup {cur.h} /\ cur.h \notin DOMAIN streams
  BY <1>1, InHand
<1>3. CASE cur' = Crash("tag")
  <2>1. Step(cur', handle, live, DOMAIN streams)
    BY <1>3 DEF Crash, Step
  <2> QED BY <1>1, <2>1, Here, Onward DEF IInv
<1>4. ASSUME NEW tag, NEW junk,
             cur' = [cur EXCEPT !.step = "return", !.tag = tag, !.metadata = Metadata(tag, junk)]
      PROVE  IInv'
  <2> DEFINE m == Metadata(tag, junk)
  <2> HIDE DEF m
  <2>1. cur' = [step |-> "return", file |-> cur.file, h |-> cur.h, fmt |-> cur.fmt, why |-> cur.why,
                tag |-> tag, metadata |-> m]
    BY <1>2, <1>4 DEF Opening, m
  <2>2. Opening(cur') /\ cur'.step = "return" /\ cur'.h = cur.h
    <3>1. cur.file \in Files
      BY <1>2 DEF Opening
    <3> QED BY <2>1, <3>1 DEF Opening
  <2>3. Step(cur', handle, live, DOMAIN streams)
    BY <1>2, <2>2 DEF Step
  <2> QED BY <1>1, <2>3, Here, Onward DEF IInv
<1> QED BY <1>3, <1>4 DEF ReadTag

LEMMA RangeKeeps == ASSUME IInv, SetRange PROVE IInv'
<1>1. cur.step = "range" /\ UNCHANGED <<pending, sinks, decoders, reads, last, live, streams>>
  BY DEF SetRange, Rest
<1>2. /\ Opening(cur) /\ cur.h \in DOMAIN handle
      /\ live = DOMAIN streams \cup {cur.h} /\ cur.h \notin DOMAIN streams
  BY <1>1, InHand
<1>3. CASE cur' = Crash("sink") /\ UNCHANGED handle
  <2>1. Step(cur', handle, live, DOMAIN streams)
    BY <1>3 DEF Crash, Step
  <2> QED BY <1>1, <1>3, <2>1, Here, Onward DEF IInv
<1>4. CASE GoTo("return") /\ UNCHANGED handle
  BY <1>1, <1>4, GoesOn
<1>5. CASE handle' = [handle EXCEPT ![cur.h].allowed = Range] /\ GoTo("fix")
  <2> DEFINE x == [handle[cur.h] EXCEPT !.allowed = Range]
  <2>1. handle' = [handle EXCEPT ![cur.h] = x]
    BY <1>5
  <2>2. x \in HandleType /\ x.file = handle[cur.h].file /\ x.at = handle[cur.h].at /\ x.allowed = Range
    <3>1. handle[cur.h] \in HandleType /\ Range \in SUBSET Formats
      BY <1>2, Here, DecoderAssumption
    <3> QED BY <3>1 DEF HandleType
  <2> HIDE DEF x
  <2>3. DOMAIN handle' = DOMAIN handle /\ handle'[cur.h] = x
    BY <1>2, <2>1, <2>2, Here, HandleSet
  <2>4. Opening(cur') /\ cur'.step = "fix" /\ cur'.h = cur.h
    BY <1>2, <1>5, SetIs DEF GoTo
  <2>5. Step(cur', handle', live, DOMAIN streams)
    BY <1>2, <2>2, <2>3, <2>4 DEF Step
  <2> QED BY <1>1, <1>2, <2>1, <2>2, <2>5, StillThere
<1> QED BY <1>3, <1>4, <1>5 DEF SetRange

LEMMA FixKeeps == ASSUME IInv, FixFormat PROVE IInv'
<1>1. cur.step = "fix" /\ UNCHANGED <<pending, sinks, decoders, reads, last, live, streams>>
  BY DEF FixFormat, Rest
<1>2. /\ Opening(cur) /\ cur.h \in DOMAIN handle /\ handle[cur.h].allowed \subseteq Range
      /\ live = DOMAIN streams \cup {cur.h} /\ cur.h \notin DOMAIN streams
  BY <1>1, InHand
<1>3. CASE GoTo("return") /\ UNCHANGED handle
  BY <1>1, <1>3, GoesOn
<1>4. ASSUME NEW fmt \in handle[cur.h].allowed,
             handle' = [handle EXCEPT ![cur.h].allowed = {fmt}],
             cur' = [cur EXCEPT !.fmt = fmt, !.step = "stream"]
      PROVE  IInv'
  <2> DEFINE x == [handle[cur.h] EXCEPT !.allowed = {fmt}]
  <2>1. handle' = [handle EXCEPT ![cur.h] = x]
    BY <1>4
  <2>2. x \in HandleType /\ x.file = handle[cur.h].file /\ x.at = handle[cur.h].at /\ x.allowed = {fmt}
    <3>1. handle[cur.h] \in HandleType /\ {fmt} \in SUBSET Formats
      BY <1>2, Here, DecoderAssumption
    <3> QED BY <3>1 DEF HandleType
  <2> HIDE DEF x
  <2>3. DOMAIN handle' = DOMAIN handle /\ handle'[cur.h] = x
    BY <1>2, <2>1, <2>2, Here, HandleSet
  <2>4. cur' = [step |-> "stream", file |-> cur.file, h |-> cur.h, fmt |-> fmt, why |-> cur.why,
                tag |-> cur.tag, metadata |-> cur.metadata]
    BY <1>2, <1>4 DEF Opening
  <2>5. Opening(cur') /\ cur'.step = "stream" /\ cur'.h = cur.h /\ cur'.fmt = fmt
    <3>1. cur.file \in Files
      BY <1>2 DEF Opening
    <3> QED BY <2>4, <3>1 DEF Opening
  <2>6. Step(cur', handle', live, DOMAIN streams)
    BY <1>2, <2>2, <2>3, <2>5 DEF Step
  <2> QED BY <1>1, <1>2, <2>1, <2>2, <2>6, StillThere
<1> QED BY <1>3, <1>4 DEF FixFormat


\* The handle in hand is given to a stream.
LEMMA MakeKeeps == ASSUME IInv, MakeStream PROVE IInv'
<1>1. /\ cur.step = "stream" /\ cur' = [cur EXCEPT !.step = "return", !.h = NULL]
      /\ streams' = [h \in DOMAIN streams \cup {cur.h} |-> IF h = cur.h THEN cur.fmt ELSE streams[h]]
      /\ UNCHANGED <<pending, sinks, decoders, reads, last, handle, live>>
  BY DEF MakeStream, Rest
<1>2. /\ Opening(cur) /\ cur.h \in DOMAIN handle /\ cur.h \notin DOMAIN streams
      /\ live = DOMAIN streams \cup {cur.h} /\ cur.fmt \in Range /\ handle[cur.h].allowed = {cur.fmt}
  BY <1>1, InHand
<1>3. /\ DOMAIN streams' = live /\ streams'[cur.h] = cur.fmt
      /\ \A h \in DOMAIN streams : streams'[h] = streams[h]
  BY <1>1, <1>2
<1>4. Opening(cur') /\ cur'.step = "return" /\ cur'.h = NULL
  <2>1. cur' = [step |-> "return", file |-> cur.file, h |-> NULL, fmt |-> cur.fmt, why |-> cur.why,
                tag |-> cur.tag, metadata |-> cur.metadata]
    BY <1>1, <1>2 DEF Opening
  <2>2. cur.file \in Files
    BY <1>2 DEF Opening
  <2> QED BY <2>1, <2>2 DEF Opening
<1>5. Step(cur', handle, live, DOMAIN streams')
  BY <1>3, <1>4 DEF Step
<1>6. \A h \in DOMAIN streams' : streams'[h] \in Range /\ handle[h].allowed = {streams'[h]}
  BY <1>2, <1>3 DEF IInv
<1> QED BY <1>1, <1>3, <1>5, <1>6, Here DEF IInv

\* auto_delete: the handle in hand is deleted, if there is one.
LEMMA ReturnKeeps == ASSUME IInv, Return PROVE IInv'
<1>1. /\ cur.step = "return" /\ live' = live \ {cur.h}
      /\ cur' = IF cur.why = "metadata"
                THEN [cur EXCEPT !.step = "new", !.h = NULL, !.why = "open", !.tag = <<>>, !.metadata = Untagged]
                ELSE None
      /\ UNCHANGED <<pending, sinks, decoders, reads, last, handle, streams>>
  BY DEF Return, Rest
<1>2. Opening(cur) /\ live' = DOMAIN streams
  <2>1. NULL \notin live
    BY Here
  <2> QED BY <1>1, <2>1, InHand
<1>3. Step(cur', handle, live', DOMAIN streams)
  <2>1. CASE cur.why = "metadata"
    <3> DEFINE none == <<>>
               untold == Untagged
    <3> HIDE DEF none, untold
    <3>1. cur' = [step |-> "new", file |-> cur.file, h |-> NULL, fmt |-> cur.fmt, why |-> "open",
                  tag |-> none, metadata |-> untold]
      BY <1>1, <1>2, <2>1 DEF Opening, none, untold
    <3>2. cur.file \in Files
      BY <1>2 DEF Opening
    <3>3. Opening(cur') /\ cur'.step = "new" /\ cur'.h = NULL
      BY <3>1, <3>2 DEF Opening
    <3> QED BY <1>2, <3>3 DEF Step
  <2>2. CASE cur.why # "metadata"
    BY <1>1, <1>2, <2>2 DEF Step
  <2> QED BY <2>1, <2>2
<1>4. live' \subseteq DOMAIN handle
  BY <1>1, Here
<1> QED BY <1>1, <1>2, <1>3, <1>4, Onward DEF IInv

-----------------------------------------------------------------------------
(* The streams that are open.                                              *)

\* A stream has a length.
LEMMA LengthIs ==
  ASSUME IInv, NEW h \in DOMAIN streams
  PROVE  h \in DOMAIN handle /\ handle[h] \in HandleType /\ Length(h) \in Nat
<1>1. h \in DOMAIN handle /\ handle[h] \in HandleType /\ streams[h] \in Formats
  BY Here, DecoderAssumption DEF IInv
<1>2. /\ handle[h].file.length \in Nat /\ streams[h].rate \in Nat
      /\ handle[h].file.rate \in Nat \ {0}
  BY <1>1, DecoderAssumption DEF HandleType
<1> DEFINE n == handle[h].file.length * streams[h].rate
           r == handle[h].file.rate
<1>3. n \in Nat /\ r \in Nat \ {0}
  BY <1>2
<1> HIDE DEF n, r
<1>4. n \div r \in Nat
  BY <1>3
<1> QED BY <1>1, <1>4 DEF Length, n, r

\* A handle is moved.
LEMMA Moved ==
  ASSUME IInv, NEW h \in Handles, Use(h), NEW at \in Nat, handle' = [handle EXCEPT ![h].at = at]
  PROVE  IInv'
<1>1. h \in DOMAIN streams /\ UNCHANGED <<pending, sinks, decoders, live, streams, cur>>
  BY DEF Use
<1>2. h \in DOMAIN handle /\ handle[h] \in HandleType /\ handle \in Seq(HandleType)
  BY <1>1, LengthIs, Here
<1> DEFINE x == [handle[h] EXCEPT !.at = at]
<1>3. x \in HandleType /\ x.allowed = handle[h].allowed /\ x.at = at
  BY <1>2 DEF HandleType
<1>4. handle' = [handle EXCEPT ![h] = x]
  BY <1>2
<1> HIDE DEF x
<1>5. /\ handle' \in Seq(HandleType) /\ DOMAIN handle' = DOMAIN handle /\ handle'[h] = x
      /\ \A i \in DOMAIN handle : i # h => handle'[i] = handle[i]
  BY <1>2, <1>3, <1>4, HandleSet
<1>6. \A i \in DOMAIN handle : handle'[i].allowed = handle[i].allowed
  BY <1>3, <1>5
<1>7. Step(cur, handle', live, DOMAIN streams)
  BY <1>5, <1>6, Here DEF Step
<1>8. \A i \in DOMAIN streams : streams[i] \in Range /\ handle'[i].allowed = {streams[i]}
  BY <1>6, Here DEF IInv
<1> QED BY <1>1, <1>5, <1>7, <1>8, Here DEF IInv

\* mpg123_seek moves it or not.
LEMMA SoughtKeeps ==
  ASSUME IInv, NEW h \in Handles, Use(h), NEW to \in Nat, NEW said \in Said(to),
         handle' = Sought(h, said)
  PROVE  IInv'
<1>1. h \in DOMAIN handle /\ handle[h] \in HandleType
  BY LengthIs DEF Use
<1> DEFINE at == IF said = -1 THEN handle[h].at ELSE said
<1>2. at \in Nat
  BY <1>1 DEF HandleType, Said
<1>3. handle' = [handle EXCEPT ![h].at = at]
  BY DEF Sought
<1> HIDE DEF at
<1> QED BY <1>2, <1>3, Moved

LEMMA UseKeeps ==
  ASSUME IInv, NEW h \in Handles,
         \/ \E n \in 0 .. Buffer : Read(h, n)
         \/ \E diff \in Diffs : Seek(h, diff)
         \/ SeekStart(h) \/ ReadFails(h)
  PROVE  IInv'
<1>1. ASSUME NEW n \in 0 .. Buffer, Read(h, n) PROVE IInv'
  <2>1. Use(h) /\ h \in DOMAIN streams /\ handle' = [handle EXCEPT ![h].at = @ + n]
    BY <1>1 DEF Read, Use
  <2>2. handle[h].at \in Nat /\ n \in Nat
    BY <2>1, LengthIs, DecoderAssumption DEF HandleType
  <2> DEFINE at == handle[h].at + n
  <2>3. at \in Nat /\ handle' = [handle EXCEPT ![h].at = at]
    BY <2>1, <2>2
  <2> HIDE DEF at
  <2> QED BY <2>1, <2>3, Moved
<1>2. ASSUME NEW diff \in Diffs, Seek(h, diff) PROVE IInv'
  <2> DEFINE to == Clamp(h, handle[h].at + diff * SeekRate)
  <2>1. Use(h) /\ h \in DOMAIN streams
    BY <1>2 DEF Seek, Use
  <2>2. handle[h].at \in Nat /\ Length(h) \in Nat
    BY <2>1, LengthIs DEF HandleType
  <2>3. to \in Nat
    <3>1. diff * SeekRate \in Int
      BY DecoderAssumption
    <3>2. handle[h].at + diff * SeekRate \in Int
      BY <2>2, <3>1
    <3> QED BY <2>2, <3>2 DEF Clamp, Min, Max
  <2>4. PICK said \in Said(to) : handle' = Sought(h, said)
    BY <1>2 DEF Seek
  <2> HIDE DEF to
  <2> QED BY <2>1, <2>3, <2>4, SoughtKeeps
<1>3. CASE SeekStart(h)
  <2>1. Use(h)
    BY <1>3 DEF SeekStart
  <2>2. PICK said \in Said(0) : handle' = Sought(h, said)
    BY <1>3 DEF SeekStart
  <2> QED BY <2>1, <2>2, SoughtKeeps
<1>4. CASE ReadFails(h)
  <2>1. UNCHANGED <<handle, pending, sinks, decoders, live, streams, cur>>
    BY <1>4 DEF ReadFails, Use
  <2> QED BY <2>1 DEF IInv
<1> QED BY <1>1, <1>2, <1>3, <1>4

LEMMA CloseKeeps == ASSUME IInv, NEW h \in Handles, Close(h) PROVE IInv'
<1>1. /\ h \in DOMAIN streams /\ streams' = [s \in DOMAIN streams \ {h} |-> streams[s]]
      /\ live' = live \ {h} /\ UNCHANGED <<pending, sinks, decoders, handle, cur, reads, last>>
  BY DEF Close
<1>2. /\ DOMAIN streams' = DOMAIN streams \ {h}
      /\ \A s \in DOMAIN streams' : streams'[s] = streams[s]
  BY <1>1
<1>3. Step(cur, handle, live', DOMAIN streams')
  BY <1>1, <1>2, Here DEF Step
<1>4. live' \subseteq DOMAIN handle /\ DOMAIN streams' \subseteq live'
  BY <1>1, <1>2, Here
<1> QED BY <1>1, <1>2, <1>3, <1>4 DEF IInv

\* Every step keeps the invariant.
LEMMA NextKeeps == IInv /\ [Next]_vars => IInv'
<1> SUFFICES ASSUME IInv, [Next]_vars PROVE IInv'
  OBVIOUS
<1>1. ASSUME NEW p \in Directory, Load(p) PROVE IInv'
  BY <1>1, LoadKeeps
<1>2. ASSUME NEW f \in Files, PluginsOpen(f) PROVE IInv'
  BY <1>2, OpenKeeps
<1>3. CASE New
  BY <1>3, NewKeeps
<1>4. CASE OpenFile
  <2>1. cur.step = "open" /\ UNCHANGED <<pending, sinks, decoders, reads, last, handle, live, streams>>
    BY <1>4 DEF OpenFile, Rest
  <2>2. PICK step \in {"scan", "range", "return"} : GoTo(step)
    BY <1>4 DEF OpenFile
  <2> QED BY <2>1, <2>2, GoesOn
<1>5. CASE ReadTag
  BY <1>5, TagKeeps
<1>6. CASE SetRange
  BY <1>6, RangeKeeps
<1>7. CASE FixFormat
  BY <1>7, FixKeeps
<1>8. CASE MakeStream
  BY <1>8, MakeKeeps
<1>9. CASE Return
  BY <1>9, ReturnKeeps
<1>10. ASSUME NEW h \in Handles,
              \/ \E n \in 0 .. Buffer : Read(h, n)
              \/ \E diff \in Diffs : Seek(h, diff)
              \/ SeekStart(h) \/ ReadFails(h)
       PROVE  IInv'
  BY <1>10, UseKeeps
<1>11. ASSUME NEW h \in Handles, Close(h) PROVE IInv'
  BY <1>11, CloseKeeps
<1>12. CASE UNCHANGED vars
  BY <1>12 DEF vars, IInv
<1> QED BY ONLY [Next]_vars, <1>1, <1>2, <1>3, <1>4, <1>5, <1>6, <1>7, <1>8, <1>9, <1>10, <1>11, <1>12 DEF Next

LEMMA Inductive == Spec => []IInv
BY InitIs, NextKeeps, PTL DEF Spec

\* Whichever call fails on the way of plugins_open, and whatever the player does with the
\* streams it has meanwhile, an open stream has a live handle that is nobody else's, fixed
\* to the format it tells (auto_delete, move, ip_fix_format and ip_close).
THEOREM StreamsHold == Spec => []StreamsSound
BY Inductive, Implied, PTL

-----------------------------------------------------------------------------
(* The output of the terminal.                                             *)

\* Where the bytes that wait in the buffer begin.
Start == IF pc = "flush" THEN base ELSE 0

\* They are the last ones copied, one after the other.
Pending == \A i \in Slots : Start <= i /\ i < Start + pos => slot[i] = next - pos + 1 + (i - Start)

\* What does not wait was shown, or dropped by a write that failed.
Progress == /\ shown <= next - pos
            /\ ~failed => shown = next - pos
            /\ pc = "idle" => left = 0

OutInv == OutTypeOK /\ Pending /\ Progress

\* At the start the buffer is empty.
LEMMA Initially == OutInit => OutInv
<1> SUFFICES ASSUME OutInit PROVE OutInv
  OBVIOUS
<1> USE OutAssumption DEF OutInit
<1>1. slot \in [Slots -> Nat]
  OBVIOUS
<1>2. OutTypeOK
  <2>1. failed \in BOOLEAN
    OBVIOUS
  <2>2. Cap \in Nat /\ pos \in 0 .. Cap /\ base \in 0 .. Cap /\ next \in Nat /\ left \in Nat /\ shown \in Nat
    OBVIOUS
  <2> QED BY <1>1, <2>1, <2>2 DEF OutTypeOK
<1>3. Pending
  BY DEF Pending, Start, Slots
<1>4. Progress
  BY DEF Progress
<1> QED BY <1>2, <1>3, <1>4 DEF OutInv

\* A write takes the bytes that are next to be shown.
LEMMA WriteStep ==
  ASSUME OutInv, NEW n \in 1 .. Cap, Write(n)
  PROVE  /\ OutInv'
         /\ slot[base] = next - pos + 1
         /\ \A i \in base .. base + n - 1 : slot[i] = slot[base] + (i - base)
<1> USE OutAssumption DEF OutInv, Write
<1>1. /\ pc = "flush" /\ pc' = "flush" /\ n <= pos /\ pos' = pos - n /\ base' = base + n
      /\ slot' = slot /\ next' = next /\ left' = left /\ failed' = failed
      /\ shown' = slot[base + n - 1]
  OBVIOUS
<1>2. /\ pos \in Nat /\ base \in Nat /\ next \in Nat /\ n \in Nat /\ n >= 1 /\ base + pos <= Cap
      /\ slot \in [Slots -> Nat]
  BY <1>1 DEF OutTypeOK
<1>3. \A i \in base .. base + pos - 1 : i \in Slots /\ slot[i] = next - pos + 1 + (i - base)
  BY <1>1, <1>2 DEF Pending, Start, Slots
<1>4. slot[base] = next - pos + 1
  BY <1>1, <1>2, <1>3
<1>5. \A i \in base .. base + n - 1 : slot[i] = slot[base] + (i - base)
  BY <1>1, <1>2, <1>3, <1>4
<1>6. shown' = next - pos + n
  BY <1>1, <1>2, <1>3
<1>7. OutTypeOK'
  BY <1>1, <1>2, <1>3, <1>6 DEF OutTypeOK, Slots, Progress
<1>8. Pending'
  BY <1>1, <1>2, <1>3 DEF Pending, Start, Slots
<1>9. Progress'
  BY <1>1, <1>2, <1>6 DEF Progress
<1> QED BY <1>4, <1>5, <1>7, <1>8, <1>9

\* A round of term_putsn puts the bytes of its text behind those that wait.
LEMMA CopyStep == ASSUME OutInv, Copy PROVE OutInv'
<1> USE OutAssumption DEF OutInv
<1> DEFINE copy == IF left < Cap - pos THEN left ELSE Cap - pos
<1>1. /\ pc = "copy" /\ pos' = pos + copy /\ next' = next + copy /\ left' = left - copy
      /\ pc' = (IF left > copy THEN "flush" ELSE "idle") /\ base' = 0
      /\ slot' = [i \in Slots |-> IF pos <= i /\ i < pos + copy THEN next + 1 + (i - pos) ELSE slot[i]]
      /\ shown' = shown /\ failed' = failed
  BY DEF Copy
<1>2. /\ pos \in Nat /\ next \in Nat /\ left \in Nat /\ shown \in Nat /\ pos <= Cap
      /\ slot \in [Slots -> Nat]
  BY DEF OutTypeOK
<1>3. copy \in Nat /\ copy <= left /\ pos + copy <= Cap
  BY <1>2
<1> HIDE DEF copy
<1>4. OutTypeOK'
  <2>1. slot' \in [Slots -> Nat]
    BY <1>1, <1>2, <1>3 DEF Slots
  <2> QED BY <1>1, <1>2, <1>3, <2>1 DEF OutTypeOK
<1>5. Pending'
  BY <1>1, <1>2, <1>3 DEF Pending, Start, Slots
<1>6. Progress'
  BY <1>1, <1>2, <1>3 DEF Progress
<1> QED BY <1>4, <1>5, <1>6

\* Every step keeps the invariant.
LEMMA OutStep == OutInv /\ [OutNext]_outVars => OutInv'
<1> SUFFICES ASSUME OutInv, [OutNext]_outVars PROVE OutInv'
  OBVIOUS
<1> USE OutAssumption DEF OutInv
<1>1. ASSUME NEW len \in 0 .. MaxLen, Put(len) PROVE OutInv'
  BY <1>1 DEF Put, OutTypeOK, Pending, Progress, Start, Slots
<1>2. CASE Copy
  BY <1>2, CopyStep
<1>3. CASE Flush
  BY <1>3 DEF Flush, OutTypeOK, Pending, Progress, Start, Slots
<1>4. CASE Writing
  BY <1>4, WriteStep DEF Writing
<1>5. CASE WriteFails
  BY <1>5 DEF WriteFails, OutTypeOK, Pending, Progress, Start, Slots
<1>6. CASE Flushed
  BY <1>6 DEF Flushed, OutTypeOK, Pending, Progress, Start, Slots
<1>7. CASE UNCHANGED outVars
  BY <1>7 DEF outVars, OutTypeOK, Pending, Progress, Start, Slots
<1> QED BY <1>1, <1>2, <1>3, <1>4, <1>5, <1>6, <1>7 DEF OutNext

LEMMA OutInductive == OutSpec => []OutInv
<1>1. OutInit => OutInv
  BY Initially
<1>2. OutInv /\ [OutNext]_outVars => OutInv'
  BY OutStep
<1> QED BY <1>1, <1>2, PTL DEF OutSpec

\* The cursors of the buffer stay inside it, whatever is printed and however it is written.
THEOREM OutTyped == OutSpec => []OutTypeOK
<1>1. OutInv => OutTypeOK
  BY DEF OutInv
<1> QED BY <1>1, OutInductive, PTL

\* Once term_out_buf is flushed everything printed was shown, unless a write failed.
THEOREM AllShown == OutSpec => []NothingMissing
<1>1. OutInv => NothingMissing
  BY DEF OutInv, OutTypeOK, Progress, NothingMissing
<1> QED BY <1>1, OutInductive, PTL

\* The terminal gets the bytes in the order of printing, none twice, and without a gap
\* until a write fails.
THEOREM OrderShown == OutSpec => InOrder
<1> DEFINE Follows == shown' # shown =>
      /\ failed \/ slot[base] = shown + 1
      /\ slot[base] > shown
      /\ \A i \in base .. base + (pos - pos') - 1 : slot[i] = slot[base] + (i - base)
<1>1. ASSUME OutInv, [OutNext]_outVars, shown' # shown
      PROVE  Follows
  <2>1. PICK n \in 1 .. Cap : Write(n)
    BY <1>1 DEF OutNext, outVars, Put, Copy, Flush, WriteFails, Flushed, Writing
  <2>2. /\ slot[base] = next - pos + 1
        /\ \A i \in base .. base + n - 1 : slot[i] = slot[base] + (i - base)
    BY <1>1, <2>1, WriteStep
  <2>3. pos - pos' = n
    BY <1>1, <2>1 DEF Write, OutInv, OutTypeOK
  <2> QED BY <1>1, <2>2, <2>3 DEF OutInv, OutTypeOK, Progress
<1>2. OutInv /\ [OutNext]_outVars => [Follows]_outVars
  BY <1>1
<1> QED BY <1>2, OutInductive, PTL DEF OutSpec, InOrder
=============================================================================
