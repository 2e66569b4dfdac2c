------------------------------ MODULE HashMap -------------------------------
(***************************************************************************)
(* The hash map of src/utils/hash.c: open addressing, with a tombstone for *)
(* every removed value.  Nothing in the program uses it yet.               *)
(*                                                                         *)
(* A value is its key and what is stored with it.  Reading beyond the      *)
(* table is undefined: the model goes astray then and stops.  So is asking *)
(* a tombstone for its key, and there it stops or goes on.                 *)
(***************************************************************************)
EXTENDS Integers, FiniteSets

CONSTANTS Keys, Values,
          Hash,       \* ops->hash, from keys to natural numbers
          MaxReserve, \* bound: hash_map_reserve asks for so many
          MaxBuckets, \* bound: the table grows to so many buckets
          Empty,      \* NULL in a bucket
          Deleted,    \* &hash_map_deleted
          NULL

VARIABLES bucket,    \* the table, from 0
          elements,  \* buckets that are not empty
          deleted,   \* tombstones among them
          answer,    \* what hash_map_get or hash_map_remove returned last
          astray

vars == <<bucket, elements, deleted, answer, astray>>

Buckets == Cardinality(DOMAIN bucket)
Item(k, v) == [key |-> k, val |-> v]
Items == {Item(k, v) : k \in Keys, v \in Values}

\* hash_map_new
Init == /\ bucket = [i \in 0 .. 1 |-> Empty]
        /\ elements = 0 /\ deleted = 0
        /\ answer = NULL /\ astray = FALSE

First(S) == CHOOSE i \in S : \A j \in S : i <= j

\* The i-th place a search that begins at h looks at: h, h + 1, h + 3, h + 6, ...
Probe(h, i) == h + (i * (i + 1)) \div 2

\* Mutant: the tombstone it has passed is where the search ends.
SearchTombstone(t, n, k) ==
  LET h == Hash[k] % n
      Inside(i) == Probe(h, i) < n
      At(i) == t[Probe(h, i)]
      stops == {i \in 0 .. n : ~Inside(i) \/ At(i) \in {Empty, Deleted} \/ At(i).key = k}
      end == First(stops)
      status == CASE ~Inside(end) -> "beyond"
                  [] Inside(end) /\ At(end) = Deleted -> "DELETED"
                  [] Inside(end) /\ At(end) = Empty -> "EMPTY"
                  [] OTHER -> "SET"
  IN  [status |-> status, pos |-> Probe(h, end), asked |-> FALSE]

\* hash_map_search of k in a table t of n buckets: up to the key or an empty bucket, past
\* tombstones, of which the first is where the key goes if it is not there.  The index is
\* not masked; and every tombstone but the first is asked for its key.
Search(t, n, k) ==
  LET h == Hash[k] % n
      Inside(i) == Probe(h, i) < n
      At(i) == t[Probe(h, i)]
      stops == {i \in 0 .. n : \/ ~Inside(i) \/ At(i) = Empty
                               \/ At(i) # Deleted /\ At(i).key = k}
      end == First(stops)
      passed == {j \in 0 .. end - 1 : At(j) = Deleted}
      status == CASE ~Inside(end) -> "beyond"
                  [] Inside(end) /\ At(end) = Empty /\ passed = {} -> "EMPTY"
                  [] Inside(end) /\ At(end) = Empty /\ passed # {} -> "DELETED"
                  [] OTHER -> "SET"
  IN  [status |-> status, asked |-> Cardinality(passed) > 1,
       pos |-> Probe(h, IF status = "DELETED" THEN First(passed) ELSE end)]

\* Where a search has no defined result.  What a tombstone has in the place of a key is
\* no item's, if looking at it does not end the process.
Strays(s) == IF s.status = "beyond" THEN {TRUE} ELSE IF s.asked THEN BOOLEAN ELSE {FALSE}

Powers == {2 ^ i : i \in 0 .. 10}

\* utils_next_power_of_two
NextPowerOfTwo(n) == First({p \in Powers : p >= n})

\* hash_map_copy: the values of the old table in their order, each at the first empty
\* place of its probes, which are masked here.
Copy(t, n) ==
  LET old == Cardinality(DOMAIN t)
      Place(new, item) ==
        LET probe(i) == Probe(Hash[item.key] % n, i) % n
        IN  [new EXCEPT ![probe(First({i \in 0 .. n : new[probe(i)] = Empty}))] = item]
      copied[i \in 0 .. old] ==
        IF i = 0 THEN [p \in 0 .. n - 1 |-> Empty]
        ELSE IF t[i - 1] \in {Empty, Deleted} THEN copied[i - 1]
        ELSE Place(copied[i - 1], t[i - 1])
  IN  copied[old]

\* hash_map_reserve, and hash_map_resize if there is not room for num more: the new
\* table, its elements and its tombstones.
Reserved(num) ==
  IF Buckets \div 2 - elements <= num
  THEN [t |-> Copy(bucket, 2 * NextPowerOfTwo(elements - deleted + 1 + num)),
        e |-> elements - deleted, d |-> 0]
  ELSE [t |-> bucket, e |-> elements, d |-> deleted]

Bounded(t) == Cardinality(DOMAIN t) <= MaxBuckets

Reserve(num) ==
  LET r == Reserved(num)
  IN  /\ ~astray /\ Bounded(r.t)
      /\ bucket' = r.t /\ elements' = r.e /\ deleted' = r.d
      /\ UNCHANGED <<answer, astray>>

\* Mutant: reusing a tombstone is counted as a new element.
SetCounts(k, v) ==
  LET r == Reserved(1)
      s == Search(r.t, Cardinality(DOMAIN r.t), k)
  IN  /\ ~astray /\ Bounded(r.t)
      /\ astray' \in Strays(s)
      /\ bucket' = IF astray' THEN r.t ELSE [r.t EXCEPT ![s.pos] = Item(k, v)]
      /\ elements' = IF s.status \in {"EMPTY", "DELETED"} /\ ~astray' THEN r.e + 1 ELSE r.e
      /\ deleted' = r.d
      /\ UNCHANGED answer

\* hash_map_set
Set(k, v) ==
  LET r == Reserved(1)
      s == Search(r.t, Cardinality(DOMAIN r.t), k)
  IN  /\ ~astray /\ Bounded(r.t)
      /\ astray' \in Strays(s)
      /\ bucket' = IF astray' THEN r.t ELSE [r.t EXCEPT ![s.pos] = Item(k, v)]
      /\ elements' = IF s.status = "EMPTY" /\ ~astray' THEN r.e + 1 ELSE r.e
      /\ deleted' = IF s.status = "DELETED" /\ ~astray' THEN r.d - 1 ELSE r.d
      /\ UNCHANGED answer

Found(s) == IF s.status = "SET" THEN bucket[s.pos].val ELSE NULL

\* hash_map_get
Get(k) ==
  LET s == Search(bucket, Buckets, k)
  IN  /\ ~astray
      /\ astray' \in Strays(s)
      /\ answer' = IF astray' THEN answer ELSE Found(s)
      /\ UNCHANGED <<bucket, elements, deleted>>

\* hash_map_remove
Remove(k) ==
  LET s == Search(bucket, Buckets, k)
  IN  /\ ~astray
      /\ astray' \in Strays(s)
      /\ answer' = IF astray' THEN answer ELSE Found(s)
      /\ IF s.status = "SET" /\ ~astray'
         THEN bucket' = [bucket EXCEPT ![s.pos] = Deleted] /\ deleted' = deleted + 1
         ELSE UNCHANGED <<bucket, deleted>>
      /\ UNCHANGED elements

Next == \/ \E num \in 1 .. MaxReserve : Reserve(num)
        \/ \E k \in Keys : Get(k) \/ Remove(k) \/ \E v \in Values : Set(k, v)

Spec == Init /\ [][Next]_vars

-----------------------------------------------------------------------------
(* Properties                                                              *)

Slots(of) == {i \in DOMAIN bucket : bucket[i] \in of}

TypeOK ==
  /\ \A i \in DOMAIN bucket : bucket[i] \in Items \cup {Empty, Deleted}
  /\ DOMAIN bucket = 0 .. Buckets - 1 /\ Buckets \in Powers
  /\ answer \in Values \cup {NULL} /\ astray \in BOOLEAN

\* The counters are true, and half of the buckets are empty at least, tombstones
\* counted: that is what ends the loops of hash_map_search and hash_map_copy, and what
\* keeps `map->buckets / 2 - map->elements` from wrapping around.
HalfEmpty ==
  /\ Cardinality(Slots(Items \cup {Deleted})) = elements
  /\ Cardinality(Slots({Deleted})) = deleted
  /\ 2 * elements <= Buckets

\* The items of the table as a partial function.
Contents == [k \in {bucket[i].key : i \in Slots(Items)} |->
               bucket[CHOOSE i \in Slots(Items) : bucket[i].key = k].val]

\* Whatever collides, is removed and set again, and whenever the table grows, the map
\* answers as a dictionary does, past any number of tombstones, as long as its searches stay
\* inside of the table, and always has the empty buckets that end them.
D == INSTANCE Dictionary WITH map <- Contents
IsDictionary == []TypeOK /\ []HalfEmpty /\ D!Spec

(* Not so; see section 4 of the README.                                    *)

\* hash.c:104 masks every step of a probe (`& (buckets - 1)`): a search stays in the table.
ProbesStayInside ==
  \A k \in Keys : ~astray => Search(bucket, Buckets, k).status # "beyond"

\* hash.c:101 asks for no key of a tombstone (`*bucket != &hash_map_deleted`).
TombstonesHaveNoKey ==
  \A k \in Keys : ~astray => ~Search(bucket, Buckets, k).asked
=============================================================================
