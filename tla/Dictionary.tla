------------------------------ MODULE Dictionary ------------------------------
(***************************************************************************)
(* What a table with search promises: a partial function from keys to      *)
(* values.  HashTable and SearchTree implement it.                         *)
(***************************************************************************)
EXTENDS Functions

CONSTANT Absent      \* the answer of a search that finds nothing

VARIABLES entries, answer

DictionaryInit == entries = [k \in {} |-> Absent]

Put(k, v) ==
  /\ entries' = [x \in DOMAIN entries \cup {k} |-> IF x = k THEN v ELSE entries[x]]
  /\ UNCHANGED answer

Get(k) ==
  /\ answer' = IF k \in DOMAIN entries THEN entries[k] ELSE Absent
  /\ UNCHANGED entries

Erase(k) ==
  entries' = Restrict(entries, DOMAIN entries \ {k}) /\ UNCHANGED answer

EraseAll == entries' = [k \in {} |-> Absent] /\ UNCHANGED answer
=============================================================================
