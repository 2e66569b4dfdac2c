------------------------------ MODULE MCLeaves ------------------------------
(***************************************************************************)
(* The parts that call nothing else of the program: the terminal's input   *)
(* and output, the hash map and the deferred callbacks.  They share no     *)
(* state, so a behaviour is one of a single part while the others stay as  *)
(* they began; every behaviour of each part is among them, and TLC has the *)
(* sum of four state spaces to visit instead of their product.             *)
(***************************************************************************)
EXTENDS TermOut, Sequences, TLC

CONSTANTS k1, k2, k3, k4, v1, v2, Empty, Deleted, d1, d2, d3, NULL

VARIABLES part,
          pressed, line, tty, hung, buf, mode, seq, chars, calls, stopped,  \* Term
          bucket, elements, deleted, answer, astray,                        \* HashMap
          vec, enabled, freed, resched, rescheduled, dpc, index, cb, ops, owed \* Defer

-----------------------------------------------------------------------------
(* Term: keys of every form the parser knows, and a buffer of four bytes,  *)
(* so that its end falls into every sequence.  The longest report fills    *)
(* the buffer of a CSI sequence, and one is longer than it.                *)

Plain(k) == [key |-> k, mods |-> {}]
With(k, m) == [key |-> k, mods |-> m]
Key(b, m) == [bytes |-> b, means |-> m]

MCKeys ==
  { Key(<<"n">>, <<Plain("n")>>),
    Key(<<"^C">>, <<Plain("^C")>>),
    Key(<<"ESC", "c">>, <<Plain("ESC"), Plain("c")>>),                            \* alt-c
    Key(<<"ESC">>, <<Plain("ESC")>>),
    Key(<<"DEL">>, <<Plain("backspace")>>),
    Key(<<"ESC", "[", "1", ";", "6", "A">>, <<With("up", {"shift", "ctrl"})>>),
    Key(<<"ESC", "[", "c">>, <<With("right", {"shift"})>>),                       \* rxvt
    Key(<<"ESC", "O", "c">>, <<With("right", {"ctrl"})>>),                        \* rxvt
    Key(<<"ESC", "[", "15", "~">>, <<Plain("f5")>>),
    Key(<<"ESC", "[", "3", ";", "3", "~">>, <<With("delete", {"alt"})>>),
    Key(<<"ESC", "[", "5", "^">>, <<With("page_up", {"ctrl"})>>),
    Key(<<"ESC", "[", "M", "32", "40", "50">>, <<Plain("mouse1")>>),              \* mode 1000
    Key(<<"ESC", "[", "64", ";", "1", ";", "1", "M">>, <<Plain("scroll_up")>>),   \* mode 1015
    Key(<<"ESC", "[", "<", "4", ";", "1", ";", "1", "m">>, <<With("mouse_release", {"shift"})>>),
    Key(<<"lead3", "trail", "trail">>, <<Plain("euro")>>),
    Key(<<"c1csi", "Z">>, <<Plain("backtab")>>),
    Key(<<"c1ss3", "P">>, <<Plain("f1")>>),
    Key(<<"trail">>, <<Plain("unknown_esc")>>),                                            \* 0x80 to 0xbf, but for the two above
    Key(<<"ESC", "[", "1", ";", "6", ";", "1", ";", "3", "A">>, <<Plain("unknown_esc"), Plain("A")>>),  \* too long
    Key(<<"ESC", "[", "q">>, <<Plain("unknown_esc")>>) }

In == INSTANCE Term WITH
  Keys <- MCKeys, InBuf <- 4, CsiLen <- 6, MaxKeys <- 2, Splits <- FALSE, Hangups <- TRUE

-----------------------------------------------------------------------------
(* HashMap: two keys of one hash, one beside them and one that begins at   *)
(* the last bucket of a table of four or eight.                            *)

MCHash == (k1 :> 0) @@ (k2 :> 8) @@ (k3 :> 1) @@ (k4 :> 7)

Map == INSTANCE HashMap WITH
  Keys <- {k1, k2, k3, k4}, Values <- {v1, v2}, Hash <- MCHash, MaxReserve <- 2, MaxBuckets <- 16

-----------------------------------------------------------------------------
(* Defer: three callbacks, so that one before and one behind the running   *)
(* one are rescheduled, and two freed ones meet at the end of the list.    *)

List == INSTANCE Defer WITH
  Callbacks <- {d1, d2, d3}, MaxOps <- 3, pc <- dpc, i <- index

-----------------------------------------------------------------------------

termVars == <<pressed, line, tty, hung, buf, mode, seq, chars, calls, stopped>>
mapVars == <<bucket, elements, deleted, answer, astray>>
listVars == <<vec, enabled, freed, resched, rescheduled, dpc, index, cb, ops, owed>>
leaves == <<part, outVars, termVars, mapVars, listVars>>

LeavesInit == /\ part \in {"in", "out", "map", "list"}
              /\ OutInit /\ In!Init /\ Map!Init /\ List!Init

LeavesNext ==
  /\ UNCHANGED part
  /\ \/ part = "in" /\ In!Next /\ UNCHANGED <<outVars, mapVars, listVars>>
     \/ part = "out" /\ OutNext /\ UNCHANGED <<termVars, mapVars, listVars>>
     \/ part = "map" /\ Map!Next /\ UNCHANGED <<outVars, termVars, listVars>>
     \/ part = "list" /\ List!Next /\ UNCHANGED <<outVars, termVars, mapVars>>

\* A part that stays as it began owes nobody a step.
LeavesSpec == LeavesInit /\ [][LeavesNext]_leaves /\ In!Fairness /\ List!Fairness

InputUnderstood == In!InputUnderstood
KeysHandled == In!KeysHandled
IsDictionary == Map!IsDictionary
ListServed == List!ListServed
=============================================================================
