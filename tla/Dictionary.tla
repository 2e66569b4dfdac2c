----------------------------- MODULE Dictionary -----------------------------
(***************************************************************************)
(* What a hash map promises (include/utils/hash.h): a partial function     *)
(* from keys to values that hash_map_set, hash_map_get and hash_map_remove *)
(* work on, and a reserve that nobody sees.                                *)
(***************************************************************************)
CONSTANTS Keys, Values, NULL

VARIABLES map, answer

Lookup(k) == IF k \in DOMAIN map THEN map[k] ELSE NULL

Init == map = [k \in {} |-> NULL] /\ answer = NULL

Set(k, v) ==
  /\ map' = [x \in DOMAIN map \cup {k} |-> IF x = k THEN v ELSE map[x]]
  /\ UNCHANGED answer

Get(k) == answer' = Lookup(k) /\ UNCHANGED map

Remove(k) ==
  /\ answer' = Lookup(k)
  /\ map' = [x \in DOMAIN map \ {k} |-> map[x]]

Next == \E k \in Keys : Get(k) \/ Remove(k) \/ \E v \in Values : Set(k, v)

Spec == Init /\ [][Next]_<<map, answer>>
=============================================================================
