------------------------------ MODULE TermOut -------------------------------
(***************************************************************************)
(* The terminal's output (src/term.c): term_putsn copies text into         *)
(* term_out_buf, flushing it whenever it is full, and term_flush writes it *)
(* out in as many writes as the terminal makes of it.                      *)
(*                                                                         *)
(* The bytes the program prints are numbered 1, 2, ... in the order of     *)
(* printing; a slot of the buffer holds the number of the byte in it.      *)
(***************************************************************************)
EXTENDS Integers

CONSTANTS Cap,      \* sizeof(term_out_buf) (4096)
          MaxLen,   \* the longest text given to term_putsn
          MaxBytes  \* bound: bytes printed

ASSUME OutAssumption == Cap \in Nat \ {0} /\ MaxLen \in Nat /\ MaxBytes \in Nat

VARIABLES slot,     \* term_out_buf
          pos,      \* term_out_buf_pos
          base,     \* in term_flush: the first byte that is not written yet
          next,     \* the last byte that was copied into the buffer, or dropped
          left,     \* in term_putsn: the bytes of the text still to be copied
          pc,       \* "idle", "copy" in term_putsn, "flush" in term_flush
          shown,    \* the last byte the terminal got
          failed    \* a write has failed

outVars == <<slot, pos, base, next, left, pc, shown, failed>>

Slots == 0 .. Cap - 1

OutInit == /\ slot = [i \in Slots |-> 0] /\ pos = 0 /\ base = 0
           /\ next = 0 /\ left = 0 /\ pc = "idle"
           /\ shown = 0 /\ failed = FALSE

\* term_putsn, called with a text of len bytes by term_puts, term_printf and the
\* functions that print an escape sequence.
Put(len) ==
  /\ pc = "idle"
  /\ next + len <= MaxBytes
  /\ left' = len /\ pc' = "copy"
  /\ UNCHANGED <<slot, pos, base, next, shown, failed>>

\* One round of term_putsn: as much of the text as there is space for; a flush if
\* that was not all of it.
Copy ==
  LET space == Cap - pos
      copy == IF left < space THEN left ELSE space
  IN  /\ pc = "copy"
      /\ slot' = [i \in Slots |-> IF pos <= i /\ i < pos + copy THEN next + 1 + (i - pos) ELSE slot[i]]
      /\ pos' = pos + copy /\ next' = next + copy /\ left' = left - copy
      /\ pc' = IF left > copy THEN "flush" ELSE "idle"
      /\ base' = 0
      /\ UNCHANGED <<shown, failed>>

\* term_flush, called by the handlers of main.c and by term_exit.
Flush ==
  /\ pc = "idle"
  /\ pc' = "flush" /\ base' = 0
  /\ UNCHANGED <<slot, pos, next, left, shown, failed>>

\* Mutant: the next write starts at the beginning of the buffer again.
WriteAgain(n) ==
  /\ pc = "flush" /\ n <= pos
  /\ shown' = slot[base + n - 1]
  /\ pos' = pos - n
  /\ UNCHANGED <<slot, base, next, left, pc, failed>>

\* A write takes n bytes.
Write(n) ==
  /\ pc = "flush" /\ n <= pos
  /\ shown' = slot[base + n - 1]
  /\ pos' = pos - n /\ base' = base + n
  /\ UNCHANGED <<slot, next, left, pc, failed>>

\* A write fails: what is buffered is dropped, and term_putsn drops the rest of its text.
WriteFails ==
  /\ pc = "flush" /\ pos > 0
  /\ pos' = 0 /\ failed' = TRUE
  /\ next' = next + left /\ left' = 0 /\ pc' = "idle"
  /\ UNCHANGED <<slot, base, shown>>

\* The buffer is empty: back to term_putsn if it has something left.
Flushed ==
  /\ pc = "flush" /\ pos = 0
  /\ pc' = IF left > 0 THEN "copy" ELSE "idle"
  /\ UNCHANGED <<slot, pos, base, next, left, shown, failed>>

Writing == \E n \in 1 .. Cap : Write(n)

OutNext == \/ \E len \in 0 .. MaxLen : Put(len)
           \/ Copy \/ Flush \/ Writing \/ WriteFails \/ Flushed

OutSpec == OutInit /\ [][OutNext]_outVars

-----------------------------------------------------------------------------
(* Properties                                                              *)

OutTypeOK ==
  /\ slot \in [Slots -> Nat] /\ pos \in 0 .. Cap /\ base \in 0 .. Cap
  /\ next \in Nat /\ left \in Nat /\ shown \in Nat
  /\ pc \in {"idle", "copy", "flush"} /\ failed \in BOOLEAN
  /\ pc = "flush" => base + pos <= Cap

\* A write gives the terminal the bytes that follow those it has, none twice and none
\* out of order, however the writes cut the text; only a failed write leaves a gap.
\* term_putsn and term_flush share term_out_buf and term_out_buf_pos for that.
InOrder ==
  [][shown' # shown =>
       /\ failed \/ slot[base] = shown + 1
       /\ slot[base] > shown
       /\ \A i \in base .. base + (pos - pos') - 1 : slot[i] = slot[base] + (i - base)]_outVars

\* Once the buffer was flushed, everything printed was shown, unless a write failed.
NothingMissing == (pc = "idle" /\ pos = 0 /\ ~failed) => shown = next /\ left = 0
=============================================================================
