-------------------------------- MODULE Term --------------------------------
(***************************************************************************)
(* The terminal's input (src/term.c) and the handler of stdin that reads   *)
(* it (main_handle_stdin in src/main.c).                                   *)
(*                                                                         *)
(* The person at the terminal presses keys; the terminal sends the bytes   *)
(* of a key in one packet or, over a slow line, in two.  The bytes wait in *)
(* the tty until the loop calls the handler, which takes characters out of *)
(* term_get_char until that says TERM_TIMED_OUT.  term_get_char is a       *)
(* parser that reads the tty through term_in_buf, InBuf bytes at a time,   *)
(* and every one of its reads may find the tty empty or hung up.           *)
(*                                                                         *)
(* A byte is named by what it means to the parser, and a decimal number in *)
(* a sequence is one byte.  term_mouse_x and term_mouse_y, which nothing   *)
(* reads, and what is printed are left out.                                *)
(***************************************************************************)
EXTENDS Sequences, Naturals, TLC
LOCAL INSTANCE SequencesExt

CONSTANTS Keys,     \* the keys: bytes, what the terminal sends, and means, what was meant
          InBuf,    \* the size of term_in_buf (16)
          CsiLen,   \* the size of the buffer of term_handle_csi (128)
          MaxKeys,  \* bound: keys pressed
          Splits,   \* may the bytes of a key arrive in two packets?
          Hangups   \* may the terminal go away?

VARIABLES pressed,  \* the keys pressed so far
          line,     \* packets on their way to the tty
          tty,      \* bytes a read would return
          hung,     \* reads fail with EIO from now on
          buf,      \* the unread part of term_in_buf
          mode,     \* where term_get_char is; "idle" while the handler is not running
          seq,      \* the bytes of the sequence term_get_char has read
          chars,    \* what term_get_char returned to the handler
          calls,    \* what the handler asked of the player
          stopped   \* loop_stop was called

vars == <<pressed, line, tty, hung, buf, mode, seq, chars, calls, stopped>>

None == {}
Plain(k) == [key |-> k, mods |-> None]
With(k, m) == [key |-> k, mods |-> m]
UNKNOWN_ESC == Plain("unknown_esc")
IsError(c) == c = UNKNOWN_ESC        \* no result of a table is at most TERM_ERR_MAX but this

-----------------------------------------------------------------------------
(* The tables.                                                             *)

\* term_handle_ss3
Ss3 == ("A" :> Plain("up")) @@ ("B" :> Plain("down")) @@ ("c" :> With("right", {"ctrl"}))
       @@ ("H" :> Plain("home")) @@ ("P" :> Plain("f1"))

\* the final bytes of term_handle_csi that term_handle_csi_generic gives modifiers
Generic == ("A" :> Plain("up")) @@ ("B" :> Plain("down")) @@ ("c" :> With("right", {"shift"}))
           @@ ("H" :> Plain("home")) @@ ("P" :> Plain("f1")) @@ ("Z" :> Plain("backtab"))

Modifiers(n) ==
  CASE n = "2" -> {"shift"} [] n = "3" -> {"alt"} [] n = "4" -> {"shift", "alt"}
    [] n = "5" -> {"ctrl"} [] n = "6" -> {"shift", "ctrl"} [] n = "7" -> {"alt", "ctrl"}
    [] n = "8" -> {"shift", "alt", "ctrl"} [] OTHER -> None

KeyNumbers == ("1" :> Plain("home")) @@ ("3" :> Plain("delete")) @@ ("5" :> Plain("page_up"))
              @@ ("15" :> Plain("f5"))

Buttons == ("0" :> Plain("mouse1")) @@ ("32" :> Plain("mouse1")) @@ ("2" :> Plain("mouse3"))
           @@ ("4" :> With("mouse1", {"shift"})) @@ ("64" :> Plain("scroll_up"))

Numbers == DOMAIN KeyNumbers \cup DOMAIN Buttons \cup {"6", "7", "8"}

-----------------------------------------------------------------------------
(* What a whole sequence of bytes s means; the handlers of term.c.         *)

Add(c, m) == [c EXCEPT !.mods = @ \cup m]

\* strchr(buf, ';'): the modifier stands behind the first semicolon
CsiGeneric(s, base) ==
  LET semicolons == {i \in DOMAIN s : s[i] = ";"}
      first == CHOOSE i \in semicolons : \A j \in semicolons : i <= j
  IN  IF semicolons = {} \/ first = Len(s) THEN base
      ELSE Add(base, Modifiers(s[first + 1]))

CsiTilde(s) ==
  IF s = <<>> \/ s[1] \notin Numbers \/ (Len(s) > 1 /\ s[2] # ";") \/ s[1] \notin DOMAIN KeyNumbers
  THEN UNKNOWN_ESC
  ELSE Add(KeyNumbers[s[1]], IF Len(s) > 2 THEN Modifiers(s[3]) ELSE None)

CsiCaret(s) == IF IsError(CsiTilde(s)) THEN UNKNOWN_ESC ELSE Add(CsiTilde(s), {"ctrl"})

\* three numbers, and nothing behind them
IsReport(s) == /\ Len(s) = 5
               /\ \A i \in {1, 3, 5} : s[i] \in Numbers
               /\ \A i \in {2, 4} : s[i] = ";"

Mouse1015(s) == IF IsReport(s) THEN Buttons[s[1]] ELSE UNKNOWN_ESC

Mouse1006(s, minor) ==
  IF IsReport(s) /\ minor = "m"
  THEN [Mouse1015(s) EXCEPT !.key = "mouse_release"]
  ELSE Mouse1015(s)

\* term_handle_csi on the parameters s and the final byte; M without parameters
\* reads on, see CsiByte
Csi(s, last) ==
  CASE last \in DOMAIN Generic -> CsiGeneric(s, Generic[last])
    [] last = "~" -> CsiTilde(s)
    [] last = "^" -> CsiCaret(s)
    [] last \in {"M", "m"} /\ s # <<>> -> IF s[1] = "<" THEN Mouse1006(Tail(s), last) ELSE Mouse1015(s)
    [] OTHER -> UNKNOWN_ESC

\* the byte ends a CSI sequence (0x40 <= byte < 0x7f)
IsFinal(b) == b \notin Numbers \cup {";", "<", "ESC", "^C", "DEL", "c1ss3", "c1csi", "lead2", "lead3", "trail"}

\* utils_utf8_width of a leading byte, and the character it starts
Width == ("lead2" :> 2) @@ ("lead3" :> 3)
Wide == ("lead2" :> "e_acute") @@ ("lead3" :> "euro")

Commands == ("c" :> "toggle_pause") @@ ("m" :> "toggle_mute") @@ ("h" :> "seek_back")
            @@ ("l" :> "seek_forward") @@ ("n" :> "goto_next")

-----------------------------------------------------------------------------

Init == /\ pressed = <<>> /\ line = <<>> /\ tty = <<>> /\ hung = FALSE
        /\ buf = <<>> /\ mode = "idle" /\ seq = <<>>
        /\ chars = <<>> /\ calls = <<>> /\ stopped = FALSE

Outside == UNCHANGED <<pressed, line, hung>>

Press(k) ==
  /\ Len(pressed) < MaxKeys
  /\ ~hung
  /\ pressed' = Append(pressed, k)
  /\ \E n \in 0 .. Len(k.bytes) - 1 :
       /\ n > 0 => Splits
       /\ line' = line \o (IF n = 0 THEN <<k.bytes>>
                           ELSE <<SubSeq(k.bytes, 1, n), SubSeq(k.bytes, n + 1, Len(k.bytes))>>)
  /\ UNCHANGED <<tty, hung, buf, mode, seq, chars, calls, stopped>>

Deliver ==
  /\ line # <<>>
  /\ ~hung
  /\ tty' = tty \o Head(line)
  /\ line' = Tail(line)
  /\ UNCHANGED <<pressed, hung, buf, mode, seq, chars, calls, stopped>>

\* The terminal is closed: what the tty still holds is lost.
Hangup ==
  /\ Hangups /\ ~hung
  /\ hung' = TRUE /\ line' = <<>> /\ tty' = <<>>
  /\ UNCHANGED <<pressed, buf, mode, seq, chars, calls, stopped>>

\* The loop finds stdin readable (or hung up) and calls main_handle_stdin.
Called ==
  /\ mode = "idle" /\ ~stopped
  /\ tty # <<>> \/ hung
  /\ mode' = "char" /\ seq' = <<>>
  /\ Outside /\ UNCHANGED <<tty, buf, chars, calls, stopped>>

\* term_in_buf_fill: the read returns what there is, at most a buffer full.
Fill ==
  LET n == IF Len(tty) < InBuf THEN Len(tty) ELSE InBuf
  IN  /\ mode # "idle" /\ buf = <<>> /\ tty # <<>>
      /\ buf' = SubSeq(tty, 1, n)
      /\ tty' = SubSeq(tty, n + 1, Len(tty))
      /\ Outside /\ UNCHANGED <<mode, seq, chars, calls, stopped>>

\* Mutant: the handler takes one key only.
GotOne(c) ==
  /\ chars' = Append(chars, c)
  /\ seq' = <<>> /\ mode' = "idle"
  /\ stopped' = (c = Plain("^C"))
  /\ calls' = IF c.key \in DOMAIN Commands THEN Append(calls, Commands[c.key]) ELSE calls

\* main_handle_stdin gets c from term_get_char.  A key it does not know is printed.
Got(c) ==
  /\ chars' = Append(chars, c)
  /\ seq' = <<>>
  /\ IF c = Plain("^C")
     THEN stopped' = TRUE /\ mode' = "idle"
     ELSE stopped' = stopped /\ mode' = "char"
  /\ calls' = IF c.key \in DOMAIN Commands THEN Append(calls, Commands[c.key]) ELSE calls

\* term_get_char says TERM_TIMED_OUT and the handler returns.
GotTimeout == mode' = "idle" /\ seq' = <<>> /\ UNCHANGED <<chars, calls, stopped>>

\* Mutant: behind ESC the read waits for another byte.
TimedOutWaits ==
  /\ mode \notin {"idle", "esc"} /\ buf = <<>> /\ tty = <<>> /\ ~hung
  /\ GotTimeout
  /\ Outside /\ UNCHANGED <<tty, buf>>

\* The read returns 0, which term_in_buf_fill reports as -ETIMEDOUT, so that
\* term_in_buf_fill_esc returns before it polls.
TimedOut ==
  /\ mode # "idle" /\ buf = <<>> /\ tty = <<>> /\ ~hung
  /\ \/ mode = "esc" /\ Got(Plain("ESC"))
     \/ mode # "esc" /\ GotTimeout
  /\ Outside /\ UNCHANGED <<tty, buf>>

\* The read fails: the sequence is dropped, the handler prints the error and asks again.
ReadFails ==
  /\ mode # "idle" /\ buf = <<>> /\ hung
  /\ mode' = "char" /\ seq' = <<>>
  /\ Outside /\ UNCHANGED <<tty, buf, chars, calls, stopped>>

Stay(m, s) == mode' = m /\ seq' = s /\ UNCHANGED <<chars, calls, stopped>>

\* One byte read in mode m; b is the byte.
Byte(m) == mode = m /\ buf # <<>> /\ buf' = Tail(buf) /\ Outside /\ UNCHANGED tty

CharByte ==
  LET b == Head(buf)
  IN  /\ Byte("char")
      /\ \/ b = "ESC" /\ Stay("esc", <<>>)
         \/ b = "DEL" /\ Got(Plain("backspace"))
         \/ b \in DOMAIN Width /\ Stay("utf8", <<b>>)
         \/ b = "c1ss3" /\ Stay("ss3", <<>>)
         \/ b = "c1csi" /\ Stay("csi", <<>>)
         \/ b = "trail" /\ Got(UNKNOWN_ESC)
         \/ b \notin {"ESC", "DEL", "c1ss3", "c1csi", "trail"} \cup DOMAIN Width /\ Got(Plain(b))

\* Mutant: the byte behind ESC is swallowed.
EscByteSwallow ==
  LET b == Head(buf)
  IN  \/ Byte("esc") /\ b = "[" /\ Stay("csi", <<>>)
      \/ Byte("esc") /\ b = "O" /\ Stay("ss3", <<>>)
      \/ Byte("esc") /\ b \notin {"[", "O"} /\ Got(Plain("ESC"))

\* term_handle_esc: a byte that starts no sequence stays in the buffer.
EscByte ==
  LET b == Head(buf)
  IN  \/ Byte("esc") /\ b = "[" /\ Stay("csi", <<>>)
      \/ Byte("esc") /\ b = "O" /\ Stay("ss3", <<>>)
      \/ /\ mode = "esc" /\ buf # <<>> /\ b \notin {"[", "O"}
         /\ Got(Plain("ESC"))
         /\ Outside /\ UNCHANGED <<tty, buf>>

Ss3Byte ==
  LET b == Head(buf)
  IN  Byte("ss3") /\ Got(IF b \in DOMAIN Ss3 THEN Ss3[b] ELSE UNKNOWN_ESC)

\* Mutant: one byte more is taken before the limit is looked at.
CsiByteLong ==
  LET b == Head(buf)
  IN  /\ Byte("csi")
      /\ \/ ~IsFinal(b) /\ Len(seq) <= CsiLen /\ Stay("csi", Append(seq, b))
         \/ ~IsFinal(b) /\ Len(seq) > CsiLen /\ Got(UNKNOWN_ESC)
         \/ b \in {"M", "m"} /\ seq = <<>> /\ Stay("mouse", <<>>)
         \/ IsFinal(b) /\ ~(b \in {"M", "m"} /\ seq = <<>>) /\ Got(Csi(seq, b))

\* term_handle_csi takes CsiLen bytes before the final one.  It looks at the limit after it
\* has stored a byte, so that one of them goes behind the end of the buffer, which is taken
\* to hurt nothing; the rest of a sequence that is too long is left to be read as keys.
CsiByte ==
  LET b == Head(buf)
  IN  /\ Byte("csi")
      /\ \/ ~IsFinal(b) /\ Len(seq) < CsiLen /\ Stay("csi", Append(seq, b))
         \/ ~IsFinal(b) /\ Len(seq) = CsiLen /\ Got(UNKNOWN_ESC)
         \/ b \in {"M", "m"} /\ seq = <<>> /\ Stay("mouse", <<>>)
         \/ IsFinal(b) /\ ~(b \in {"M", "m"} /\ seq = <<>>) /\ Got(Csi(seq, b))

\* term_handle_mouse_1000: the button and two coordinates, whatever bytes they are.
MouseByte ==
  LET s == Append(seq, Head(buf))
  IN  /\ Byte("mouse")
      /\ IF Len(s) < 3 THEN Stay("mouse", s) ELSE Got(Buttons[s[1]])

Utf8Byte ==
  LET s == Append(seq, Head(buf))
  IN  /\ Byte("utf8")
      /\ IF Len(s) < Width[s[1]] THEN Stay("utf8", s) ELSE Got(Plain(Wide[s[1]]))

TermGetChar == \/ Fill \/ TimedOut \/ ReadFails
               \/ CharByte \/ EscByte \/ Ss3Byte \/ CsiByte \/ MouseByte \/ Utf8Byte

Next == (\E k \in Keys : Press(k)) \/ Deliver \/ Hangup \/ Called \/ TermGetChar

\* Packets arrive, the loop calls the handler of a readable descriptor, and the
\* main thread goes on.  Nobody has to press a key.
Fairness == WF_vars(Deliver) /\ WF_vars(Called) /\ WF_vars(TermGetChar)

Spec == Init /\ [][Next]_vars /\ Fairness

-----------------------------------------------------------------------------
(* Properties                                                              *)

Meant(ks) == FlattenSeq([i \in DOMAIN ks |-> ks[i].means])
Asked(ks) == LET commands == SelectSeq(Meant(ks), LAMBDA c : c.key \in DOMAIN Commands)
             IN  [i \in DOMAIN commands |-> Commands[commands[i].key]]

TypeOK ==
  /\ pressed \in Seq(Keys) /\ Len(pressed) <= MaxKeys
  /\ hung \in BOOLEAN /\ stopped \in BOOLEAN
  /\ mode \in {"idle", "char", "esc", "csi", "ss3", "mouse", "utf8"}
  /\ Len(buf) <= InBuf
  /\ seq # <<>> => mode \in {"csi", "mouse", "utf8"}
  /\ \A i \in DOMAIN calls : \E k \in DOMAIN Commands : calls[i] = Commands[k]

\* When the bytes of a key arrive together, the handler gets the keys that were
\* pressed, in their order and nothing else, wherever the end of term_in_buf cuts a
\* sequence; and all of them once nothing is left to read.
KeysUnderstood ==
  ~hung => /\ IsPrefix(chars, Meant(pressed))
           /\ (line = <<>> /\ tty = <<>> /\ mode = "idle" /\ ~stopped) => chars = Meant(pressed)

\* Bytes in term_in_buf make no descriptor readable: the handler, which the loop calls
\* only for a readable one, must not return while it has some.
NothingLeftBehind == (mode = "idle" /\ ~stopped) => buf = <<>>

\* Input is taken whole: nothing is lost, made up, reordered or left in the buffer.
InputUnderstood == TypeOK /\ KeysUnderstood /\ NothingLeftBehind

\* Every key is understood in the end, unless Ctrl-C came first or the terminal went away.
KeysHandled ==
  \A n \in 1 .. MaxKeys :
    Len(pressed) >= n ~> \/ stopped \/ hung
                         \/ Len(pressed) >= n /\ Len(chars) >= Len(Meant(SubSeq(pressed, 1, n)))

\* The player is asked for nothing but what the pressed keys stand for, also when a
\* sequence takes a while to arrive: term.c waits term_escdelay for the rest of one.
OnlyPressedCommands == ~hung => IsPrefix(calls, Asked(pressed))
=============================================================================
