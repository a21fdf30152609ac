-------------------------------- MODULE Links --------------------------------
(***************************************************************************)
(* Following links: what is met on the way from a cell through a heap.     *)
(* DLList, SList and HashTable are read with it.                           *)
(***************************************************************************)
EXTENDS Naturals, Sequences, FiniteSets

\* The cells met from x on, where next is the link of every cell that is
\* allocated and null ends the way.  A way that never ends, or that leads to
\* a cell that is not allocated, is followed one step further than there are
\* cells.
Walk(x, next, null) ==
  LET at[k \in 1 .. Cardinality(DOMAIN next) + 1] ==
        IF k = 1 THEN x
        ELSE IF at[k - 1] \in DOMAIN next THEN next[at[k - 1]] ELSE null
  IN [i \in 1 .. Cardinality({k \in DOMAIN at : at[k] # null}) |-> at[i]]

\* The first place of x in a sequence, 0 when it is not there.
Place(x, s) ==
  IF \E i \in DOMAIN s : s[i] = x
  THEN CHOOSE i \in DOMAIN s : s[i] = x /\ \A j \in 1 .. i - 1 : s[j] # x ELSE 0

\* The data of a sequence of cells.
Items(s, heap) == [i \in DOMAIN s |-> heap[s[i]].data]
=============================================================================
