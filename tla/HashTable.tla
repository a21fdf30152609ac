------------------------------ MODULE HashTable ------------------------------
(***************************************************************************)
(* The hash table of IAL project 2 (src/2/IAL/2/hashtable.c): a table of   *)
(* chains of synonyms, item by item over a heap, a function from the items *)
(* that are allocated.  The hash of a key is a CONSTANT.  An insertion for *)
(* which malloc has no memory returns and nothing has changed.             *)
(***************************************************************************)
EXTENDS Integers, Sequences, SequencesExt, FiniteSets, Links

CONSTANTS
  HtItems,     \* the addresses malloc can return; bounds the table
  HtKeys, HtValues,
  HtHash,      \* get_hash of a key
  HT_SIZE,
  HtNull       \* NULL, also as the answer of a search without success

ASSUME HashTableAssumption ==
  HtHash \in [HtKeys -> 0 .. HT_SIZE - 1] /\ HtNull \notin HtItems

VARIABLES
  htTable,     \* index -> the first item of its chain, or HtNull
  htHeap,      \* item -> [key, value, next]
  htAnswer     \* the value that the last ht_get found

htVars == <<htTable, htHeap, htAnswer>>

get_hash(key) == HtHash[key]

HtInit ==
  /\ htTable = [i \in 0 .. HT_SIZE - 1 |-> HtNull]
  /\ htHeap = [x \in {} |-> HtNull]
  /\ htAnswer = HtNull

\* The items from x on; those of the chain a key belongs to; and the place of
\* the key in it, 0 if it is not there.
HtNexts == [x \in DOMAIN htHeap |-> htHeap[x].next]
HtChain(x) == Walk(x, HtNexts, HtNull)
HtChainOf(key) == HtChain(htTable[get_hash(key)])
HtPosition(chain, key) == Place(key, [i \in DOMAIN chain |-> htHeap[chain[i]].key])

HtItemAt(chain, p) == IF p = 0 THEN HtNull ELSE chain[p]
HtFirstWith(chain, key) == HtItemAt(chain, HtPosition(chain, key))
ht_search(key) == HtFirstWith(HtChainOf(key), key)

HtWith(x, item) == [y \in DOMAIN htHeap \cup {x} |-> IF y = x THEN item ELSE htHeap[y]]

\* A new item goes to the head of its chain.
ht_insert(key, value) == \E c_item \in {ht_search(key)} :
  /\ IF c_item # HtNull
     THEN htHeap' = [htHeap EXCEPT ![c_item].value = value] /\ UNCHANGED htTable
     ELSE \E new \in HtItems \ DOMAIN htHeap :
            /\ htHeap' = HtWith(new, [key |-> key, value |-> value,
                                      next |-> htTable[get_hash(key)]])
            /\ htTable' = [htTable EXCEPT ![get_hash(key)] = new]
  /\ UNCHANGED htAnswer

ht_get(key) == \E item \in {ht_search(key)} :
  /\ htAnswer' = IF item = HtNull THEN HtNull ELSE htHeap[item].value
  /\ UNCHANGED <<htTable, htHeap>>

WithoutItem(heap, x) == Restrict(heap, DOMAIN heap \ {x})

\* Mutant: every item is unlinked from the table.
ht_delete_from_head(key) ==
  \E chain \in {HtChainOf(key)} : \E p \in {HtPosition(chain, key)} :
    /\ p # 0
    /\ htTable' = [htTable EXCEPT ![get_hash(key)] = htHeap[chain[p]].next]
    /\ htHeap' = WithoutItem(htHeap, chain[p])
    /\ UNCHANGED htAnswer

\* The first item of the chain is unlinked from the table, any other from
\* the item that was met before it.
ht_delete(key) == \E chain \in {HtChainOf(key)} : \E p \in {HtPosition(chain, key)} :
  /\ \/ /\ p = 1
        /\ htTable' = [htTable EXCEPT ![get_hash(key)] = htHeap[chain[p]].next]
        /\ htHeap' = WithoutItem(htHeap, chain[p])
     \/ /\ p > 1
        /\ htHeap' = WithoutItem([htHeap EXCEPT ![chain[p - 1]].next = htHeap[chain[p]].next],
                                 chain[p])
        /\ UNCHANGED htTable
  /\ UNCHANGED htAnswer

\* Every chain is freed from its head, every index of the table cleared.
ht_delete_all ==
  /\ htHeap' = [x \in DOMAIN htHeap \ UNION {ToSet(HtChain(htTable[i])) : i \in 0 .. HT_SIZE - 1}
                  |-> htHeap[x]]
  /\ htTable' = [i \in 0 .. HT_SIZE - 1 |-> HtNull]
  /\ UNCHANGED htAnswer

HtNext ==
  \/ \E key \in HtKeys :
       (\E value \in HtValues : ht_insert(key, value)) \/ ht_get(key) \/ ht_delete(key)
  \/ ht_delete_all

HtSpec == HtInit /\ [][HtNext]_htVars
-----------------------------------------------------------------------------
(* Property *)

HtFound == {key \in HtKeys : ht_search(key) # HtNull}

HtEntries == [key \in HtFound |-> htHeap[ht_search(key)].value]

HtSpecified == INSTANCE Dictionary
  WITH entries <- HtEntries, answer <- htAnswer, Absent <- HtNull

\* Every allocated item is in the one chain that its key hashes to and none
\* is reachable after it was freed, and every operation changes what a search
\* finds as a dictionary does, for synonyms at any place of their chain.
HashTableIsDictionary ==
  /\ HtSpecified!DictionaryInit
  /\ [](/\ \A i \in 0 .. HT_SIZE - 1 : \A x \in ToSet(HtChain(htTable[i])) :
             get_hash(htHeap[x].key) = i
        /\ Cardinality(HtFound) = Cardinality(DOMAIN htHeap))
  /\ [][htVars' # htVars =>
         /\ \A key \in HtKeys :
              /\ \A value \in HtValues : ht_insert(key, value) => HtSpecified!Put(key, value)
              /\ ht_get(key) => HtSpecified!Get(key)
              /\ ht_delete(key) => HtSpecified!Erase(key)
         /\ ht_delete_all => HtSpecified!EraseAll]_htVars
=============================================================================
