--------------------------- MODULE PointerStorage ---------------------------
(***************************************************************************)
(* The compiler's record of what it has allocated (src/2/IFJ/utils.c): an  *)
(* array of pointers that doubles when it is full, so that error_exit and  *)
(* the end of main can free everything.  The allocator is external: it     *)
(* hands out any block that is not live, an address freed before included, *)
(* and may fail.                                                           *)
(***************************************************************************)
EXTENDS Naturals, Sequences, SequencesExt, FiniteSets

CONSTANTS
  Blocks,          \* addresses the allocator may return
  Foreign,         \* a pointer that was never allocated: a string literal
  FirstCapacity,   \* what main passes to init_pointers_storage
  MaxCapacity      \* bound: the largest array of the model

ASSUME PointerStorageAssumption ==
  FirstCapacity \in Nat \ {0} /\ MaxCapacity \in Nat /\ Foreign \notin Blocks

VARIABLES
  pointers,    \* global_storage.pointers[0 .. count - 1]
  capacity,    \* global_storage.capacity
  live,        \* blocks malloc has given out and free has not taken back
  badFree,     \* free was called on a block that is not live
  lost         \* blocks that error_exit left behind

storageVars == <<pointers, capacity, live, badFree, lost>>

Open == capacity > 0

StorageInit ==
  /\ pointers = <<>> /\ capacity = FirstCapacity
  /\ live = {} /\ badFree = FALSE /\ lost = {}

\* free of every entry, then of the array itself.
cleanup_pointers_storage(allocated) ==
  /\ live' = allocated \ ToSet(pointers)
  /\ lost' = allocated \ ToSet(pointers)
  /\ badFree' = (badFree \/ ~ToSet(pointers) \subseteq allocated
                         \/ ~IsInjective(pointers))
  /\ pointers' = <<>> /\ capacity' = 0

CapacityToAdd == IF Len(pointers) >= capacity THEN 2 * capacity ELSE capacity

\* malloc, then add_pointer_to_storage.
safe_malloc(b) ==
  /\ b \notin live
  /\ CapacityToAdd <= MaxCapacity
  /\ live' = live \cup {b}
  /\ pointers' = Append(pointers, b)
  /\ capacity' = CapacityToAdd
  /\ UNCHANGED <<badFree, lost>>

\* malloc or realloc fails and error_exit cleans up, as the end of main does.
EndProgram == cleanup_pointers_storage(live)

\* malloc succeeds and the array cannot grow: error_exit does not know of the
\* new block.
GrowthFails(b) ==
  /\ b \notin live /\ Len(pointers) >= capacity
  /\ cleanup_pointers_storage(live \cup {b})

\* Mutant: the record keeps the old address.
safe_realloc_unrecorded(p, q) ==
  /\ p \in live /\ q \in (Blocks \ live) \cup {p}
  /\ live' = (live \ {p}) \cup {q}
  /\ UNCHANGED <<pointers, capacity, badFree, lost>>

\* The block stays where it is or moves; the first entry that holds the old
\* address takes the new one.  A NULL pointer makes it safe_malloc.
safe_realloc(p, q) ==
  /\ p \in live /\ q \in (Blocks \ live) \cup {p}
  /\ live' = (live \ {p}) \cup {q}
  /\ pointers' = IF \E i \in DOMAIN pointers : pointers[i] = p
                 THEN [pointers EXCEPT ![SelectInSeq(pointers, LAMBDA x : x = p)] = q]
                 ELSE pointers
  /\ UNCHANGED <<capacity, badFree, lost>>

\* Only a pointer that is on record is freed; any other, a literal or one
\* freed before, gets a message.
safe_free(p) ==
  /\ p \in ToSet(pointers)
  /\ pointers' = RemoveAt(pointers, SelectInSeq(pointers, LAMBDA x : x = p))
  /\ live' = live \ {p}
  /\ badFree' = (badFree \/ p \notin live)
  /\ UNCHANGED <<capacity, lost>>

StorageNext ==
  /\ Open
  /\ \/ \E b \in Blocks : safe_malloc(b) \/ GrowthFails(b)
     \/ \E p, q \in Blocks : safe_realloc(p, q)
     \/ \E p \in Blocks \cup {Foreign} : safe_free(p)
     \/ EndProgram

StorageSpec == StorageInit /\ [][StorageNext]_storageVars
-----------------------------------------------------------------------------
(* Property *)

\* The record holds every live block exactly once, never more entries than
\* the array has room for, nothing is freed twice however blocks move and
\* addresses come back, and when the program ends nothing is left but the
\* one block whose own entry could not be made.
EveryBlockOnRecord ==
  /\ Open => ToSet(pointers) = live
  /\ IsInjective(pointers)
  /\ Len(pointers) <= capacity
  /\ ~badFree
  /\ Cardinality(lost) <= 1
=============================================================================
