------------------------------- MODULE MCTerm -------------------------------
(* Term with two keys, one of them a sequence that ends in the other's kind *)
(* of byte; MCLeaves has keys of every form.                                *)
EXTENDS Term

Key(b, m) == [bytes |-> b, means |-> m]

FewKeys ==
  { Key(<<"m">>, <<Plain("m")>>), Key(<<"ESC", "O", "c">>, <<With("right", {"ctrl"})>>) }
=============================================================================
