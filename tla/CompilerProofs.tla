--------------------------- MODULE CompilerProofs ---------------------------
(***************************************************************************)
(* What holds of the compiler's front end for every program and every      *)
(* memory allocator: its record of allocated blocks is right, its text is  *)
(* read as Scopes describes, and so as nested blocks, and the identifiers  *)
(* of an accepted program stand inside the blocks of their declarations.   *)
(***************************************************************************)
EXTENDS Parser, SymTable, PointerStorage, FiniteSetTheorems, SequenceTheorems,
        WellFoundedInduction, TLAPS

(* Numbers *)

\* The order of the numbers, to pick the least one of a set by.
LessThan == {p \in Nat \X Nat : p[1] < p[2]}

LEMMA LessThanWellFounded == IsWellFoundedOn(LessThan, Nat)
<1>1. LessThan = OpToRel(<, Nat)
  BY DEF LessThan, OpToRel
<1> QED BY <1>1, NatLessThanWellFounded

LEMMA LeastExists ==
  ASSUME NEW I \in SUBSET Nat, I # {}
  PROVE  \E i \in I : \A j \in I : i <= j
<1>1. PICK i \in I : \A j \in I : <<j, i>> \notin LessThan
  BY LessThanWellFounded, WFMin
<1>2. \A j \in I : ~(j < i)
  BY <1>1 DEF LessThan
<1> QED BY <1>1, <1>2

\* The greatest number of a set is the least when counted down from a bound.
LEMMA GreatestExists ==
  ASSUME NEW n \in Nat, NEW I \in SUBSET (0 .. n), I # {}
  PROVE  \E i \in I : \A j \in I : j <= i
<1> DEFINE down == {n - i : i \in I}
<1>1. down \in SUBSET Nat /\ down # {}
  <2>1. \A i \in I : n - i \in Nat
    OBVIOUS
  <2>2. PICK i \in I : TRUE
    OBVIOUS
  <2>3. n - i \in down
    OBVIOUS
  <2> QED BY <2>1, <2>3
<1>2. PICK d \in down : \A e \in down : d <= e
  BY <1>1, LeastExists
<1>3. PICK i \in I : d = n - i
  OBVIOUS
<1>4. ASSUME NEW j \in I PROVE j <= i
  <2>1. d <= n - j
    BY <1>2
  <2> QED BY <2>1, <1>3
<1> QED BY <1>4
-----------------------------------------------------------------------------
(* Pointer storage *)

\* remove_pointer finds the entry of a pointer that is on the record.
LEMMA FirstPosition ==
  ASSUME NEW p, pointers \in Seq(Blocks), \E i \in DOMAIN pointers : pointers[i] = p
  PROVE  /\ SelectInSeq(pointers, LAMBDA x : x = p) \in 1 .. Len(pointers)
         /\ pointers[SelectInSeq(pointers, LAMBDA x : x = p)] = p
<1> DEFINE I == {i \in 1 .. Len(pointers) : pointers[i] = p}
<1>1. I \in SUBSET Nat /\ I # {}
  OBVIOUS
<1>2. \E i \in I : \A j \in I : i <= j
  BY <1>1, LeastExists
<1>3. Min(I) \in I
  BY <1>2 DEF Min
<1>4. SelectInSeq(pointers, LAMBDA x : x = p) = Min(I)
  BY <1>1 DEF SelectInSeq
<1> QED BY <1>3, <1>4

\* The program runs, and each live block has its own entry; or it has ended,
\* and at most one block was forgotten.
OnRecord ==
  /\ pointers \in Seq(Blocks) /\ IsInjective(pointers) /\ ToSet(pointers) = live
  /\ Len(pointers) <= capacity /\ lost = {}
\* The clean-up has run; realloc may have left one block behind before it.
AfterCleanup ==
  pointers = <<>> /\ ~Open /\ (lost = {} \/ \E b : lost = {b})

\* The invariant: what the record lists is what is live, until the clean-up.
StorageInv ==
  capacity \in Nat /\ ~badFree /\ (OnRecord \/ AfterCleanup)

\* It holds at the start, is kept by every call, and says what is claimed.
LEMMA StorageMeans == StorageInv => EveryBlockOnRecord
<1> SUFFICES ASSUME StorageInv PROVE EveryBlockOnRecord
  OBVIOUS
<1>1. lost = {} \/ \E b : lost = {b}
  BY DEF StorageInv, OnRecord, AfterCleanup
<1>2. Cardinality(lost) = 0 \/ Cardinality(lost) = 1
  BY <1>1, FS_EmptySet, FS_Singleton
<1>3. Open => ToSet(pointers) = live
  BY DEF StorageInv, OnRecord, AfterCleanup
<1>4. IsInjective(pointers) /\ Len(pointers) <= capacity
  <2>1. CASE OnRecord
    BY <2>1 DEF OnRecord
  <2>2. CASE AfterCleanup
    BY <2>2 DEF AfterCleanup, StorageInv, IsInjective
  <2> QED BY <2>1, <2>2 DEF StorageInv
<1> QED BY <1>2, <1>3, <1>4 DEF StorageInv, EveryBlockOnRecord

LEMMA StorageStarts == StorageInit => StorageInv
<1> SUFFICES ASSUME StorageInit PROVE StorageInv
  OBVIOUS
<1>1. IsInjective(pointers) /\ ToSet(pointers) = live
  BY DEF StorageInit, IsInjective, ToSet
<1> QED BY <1>1, PointerStorageAssumption DEF StorageInit, StorageInv, OnRecord

\* One lemma for each of the functions that touch the record.
LEMMA MallocKeeps ==
  ASSUME StorageInv, Open, NEW b \in Blocks, safe_malloc(b)
  PROVE  StorageInv'
<1>1. OnRecord /\ capacity \in Nat \ {0}
  BY DEF StorageInv, AfterCleanup, Open
<1>2. /\ pointers' \in Seq(Blocks) /\ Len(pointers') = Len(pointers) + 1
      /\ \A i \in 1 .. Len(pointers) : pointers'[i] = pointers[i]
      /\ pointers'[Len(pointers) + 1] = b
  BY <1>1, AppendProperties DEF OnRecord, safe_malloc
<1>3. Len(pointers) \in Nat /\ DOMAIN pointers = 1 .. Len(pointers)
      /\ DOMAIN pointers' = 1 .. Len(pointers) + 1
  BY <1>1, <1>2 DEF OnRecord
<1>4. b \notin live /\ ToSet(pointers) = live
  BY <1>1 DEF OnRecord, safe_malloc
<1>5. \A i \in 1 .. Len(pointers) : pointers[i] # b
  BY <1>3, <1>4 DEF ToSet
<1>6. IsInjective(pointers')
  BY <1>1, <1>2, <1>3, <1>5 DEF OnRecord, IsInjective
<1>7. ToSet(pointers') = live'
  <2>1. ToSet(pointers') = ToSet(pointers) \cup {b}
    BY <1>2, <1>3 DEF ToSet
  <2> QED BY <2>1, <1>4 DEF safe_malloc
<1>8. Len(pointers') <= capacity' /\ capacity' \in Nat
  BY <1>1, <1>2, <1>3 DEF OnRecord, safe_malloc, CapacityToAdd
<1>9. lost' = {} /\ ~badFree'
  BY <1>1 DEF OnRecord, StorageInv, safe_malloc
<1> QED BY <1>2, <1>6, <1>7, <1>8, <1>9 DEF StorageInv, OnRecord

\* All entries are live, and at most one live block has none.
LEMMA CleanupKeeps ==
  ASSUME StorageInv, Open, NEW extra, cleanup_pointers_storage(live \cup extra),
         extra = {} \/ \E b : extra = {b}
  PROVE  StorageInv'
<1>1. OnRecord
  BY DEF StorageInv, AfterCleanup
<1>2. lost' = (live \cup extra) \ live
  BY <1>1 DEF OnRecord, cleanup_pointers_storage
<1>3. lost' = {} \/ \E b : lost' = {b}
  BY <1>2
<1>4. ~badFree'
  BY <1>1 DEF OnRecord, StorageInv, cleanup_pointers_storage
<1>5. pointers' = <<>> /\ capacity' = 0
  BY DEF cleanup_pointers_storage
<1> QED BY <1>3, <1>4, <1>5 DEF StorageInv, AfterCleanup, Open

\* A block that moves is live, so its entry is found and takes the address.
LEMMA ReallocKeeps ==
  ASSUME StorageInv, Open, NEW p \in Blocks, NEW q \in Blocks, safe_realloc(p, q)
  PROVE  StorageInv'
<1>1. OnRecord /\ p \in live /\ (q \notin live \/ q = p)
  BY DEF StorageInv, AfterCleanup, safe_realloc
<1>2. /\ pointers \in Seq(Blocks) /\ Len(pointers) \in Nat
      /\ DOMAIN pointers = 1 .. Len(pointers) /\ ToSet(pointers) = live
  BY <1>1 DEF OnRecord
<1>3. \E i \in DOMAIN pointers : pointers[i] = p
  BY <1>1, <1>2 DEF ToSet
<1> DEFINE first == SelectInSeq(pointers, LAMBDA x : x = p)
<1>4. first \in 1 .. Len(pointers) /\ pointers[first] = p
  BY <1>2, <1>3, FirstPosition
<1>5. pointers' = [pointers EXCEPT ![first] = q]
  BY <1>3 DEF safe_realloc
<1> HIDE DEF first
<1>6. /\ pointers' \in Seq(Blocks) /\ Len(pointers') = Len(pointers)
      /\ \A i \in 1 .. Len(pointers) : pointers'[i] = IF i = first THEN q ELSE pointers[i]
  BY <1>2, <1>4, <1>5, ExceptSeq
<1>7. DOMAIN pointers' = 1 .. Len(pointers)
  BY <1>2, <1>6
<1>8. \A i \in 1 .. Len(pointers) : i # first => pointers[i] # p /\ pointers[i] # q
  <2>1. \A i \in 1 .. Len(pointers) : i # first => pointers[i] # p
    BY <1>1, <1>2, <1>4 DEF OnRecord, IsInjective
  <2>2. q \notin live => \A i \in 1 .. Len(pointers) : pointers[i] # q
    BY <1>2 DEF ToSet
  <2> QED BY <2>1, <2>2, <1>1
<1>9. IsInjective(pointers')
  BY <1>1, <1>2, <1>6, <1>7, <1>8 DEF OnRecord, IsInjective
<1>10. ToSet(pointers') = (live \ {p}) \cup {q}
  <2>1. ASSUME NEW x \in ToSet(pointers') PROVE x \in (live \ {p}) \cup {q}
    BY <2>1, <1>2, <1>6, <1>7, <1>8 DEF ToSet
  <2>2. ASSUME NEW x \in live \ {p} PROVE x \in ToSet(pointers')
    <3>1. PICK i \in 1 .. Len(pointers) : pointers[i] = x
      BY <2>2, <1>2 DEF ToSet
    <3>2. pointers'[i] = x
      BY <3>1, <2>2, <1>4, <1>6
    <3> QED BY <3>2, <1>7 DEF ToSet
  <2>3. q \in ToSet(pointers')
    BY <1>4, <1>6, <1>7 DEF ToSet
  <2> QED BY <2>1, <2>2, <2>3
<1>11. /\ live' = (live \ {p}) \cup {q}
       /\ capacity' = capacity /\ lost' = lost /\ badFree' = badFree
  BY DEF safe_realloc
<1> QED BY <1>1, <1>6, <1>9, <1>10, <1>11 DEF StorageInv, OnRecord

\* Only what is on record is freed, and it has no second entry.
LEMMA FreeKeeps ==
  ASSUME StorageInv, Open, NEW p, safe_free(p)
  PROVE  StorageInv'
<1>1. OnRecord /\ p \in live
  BY DEF StorageInv, AfterCleanup, OnRecord, safe_free
<1>2. /\ pointers \in Seq(Blocks) /\ Len(pointers) \in Nat
      /\ DOMAIN pointers = 1 .. Len(pointers) /\ ToSet(pointers) = live
  BY <1>1 DEF OnRecord
<1>3. \E i \in DOMAIN pointers : pointers[i] = p
  BY <1>1, <1>2 DEF ToSet
<1> DEFINE first == SelectInSeq(pointers, LAMBDA x : x = p)
<1>4. first \in 1 .. Len(pointers) /\ pointers[first] = p
  BY <1>2, <1>3, FirstPosition
<1>5. pointers' = SubSeq(pointers, 1, first - 1) \o SubSeq(pointers, first + 1, Len(pointers))
  BY DEF safe_free, RemoveAt
<1> HIDE DEF first
<1> DEFINE before == SubSeq(pointers, 1, first - 1)
           after == SubSeq(pointers, first + 1, Len(pointers))
<1>6. /\ before \in Seq(Blocks) /\ Len(before) = first - 1
      /\ \A i \in 1 .. first - 1 : before[i] = pointers[i]
  BY <1>2, <1>4
<1>7. /\ after \in Seq(Blocks) /\ Len(after) = Len(pointers) - first
      /\ \A i \in 1 .. Len(pointers) - first : after[i] = pointers[first + i]
  <2>1. \A i \in first + 1 .. Len(pointers) : pointers[i] \in Blocks
    BY <1>2, <1>4
  <2>2. first + 1 \in Int /\ Len(pointers) \in Int
    BY <1>2, <1>4
  <2>3. /\ after \in Seq(Blocks)
        /\ Len(after) = IF first + 1 <= Len(pointers) THEN Len(pointers) - (first + 1) + 1 ELSE 0
        /\ \A i \in 1 .. Len(pointers) - (first + 1) + 1 : after[i] = pointers[(first + 1) + i - 1]
    BY <2>1, <2>2, SubSeqProperties
  <2> HIDE DEF after
  <2>4. Len(after) = Len(pointers) - first
    <3>1. first \in Nat /\ first <= Len(pointers) /\ Len(pointers) \in Nat
      BY <1>2, <1>4
    <3>2. CASE first + 1 <= Len(pointers)
      <4>1. Len(after) = Len(pointers) - (first + 1) + 1
        BY <2>3, <3>2
      <4> QED BY <4>1, <3>1
    <3>3. CASE ~(first + 1 <= Len(pointers))
      <4>1. Len(after) = 0 /\ first = Len(pointers)
        BY <2>3, <3>1, <3>3
      <4> QED BY <4>1, <3>1
    <3> QED BY <3>2, <3>3
  <2>5. ASSUME NEW i \in 1 .. Len(pointers) - first
        PROVE  after[i] = pointers[first + i]
    <3>1. (first + 1) + i - 1 = first + i /\ Len(pointers) - (first + 1) + 1 = Len(pointers) - first
      BY <1>2, <1>4
    <3> QED BY <2>3, <3>1
  <2> QED BY <2>3, <2>4, <2>5
<1> HIDE DEF before, after
<1>8. /\ before \o after \in Seq(Blocks) /\ Len(before \o after) = Len(before) + Len(after)
      /\ \A i \in 1 .. Len(before) + Len(after) :
           (before \o after)[i] = IF i <= Len(before) THEN before[i] ELSE after[i - Len(before)]
  BY <1>6, <1>7, ConcatProperties
<1>9. pointers' = before \o after
  BY <1>5 DEF before, after
<1>10. /\ pointers' \in Seq(Blocks) /\ Len(pointers') = Len(pointers) - 1
       /\ \A i \in 1 .. Len(pointers) - 1 :
            pointers'[i] = pointers[IF i < first THEN i ELSE i + 1]
  <2>1. Len(before) + Len(after) = Len(pointers) - 1
    BY <1>2, <1>4, <1>6, <1>7
  <2>2. ASSUME NEW i \in 1 .. Len(pointers) - 1
        PROVE  pointers'[i] = pointers[IF i < first THEN i ELSE i + 1]
    <3>1. pointers'[i] = IF i <= first - 1 THEN before[i] ELSE after[i - (first - 1)]
      BY <1>6, <1>8, <1>9, <2>1
    <3>2. CASE i < first
      BY <3>1, <3>2, <1>2, <1>4, <1>6
    <3>3. CASE ~(i < first)
      <4>1. i - (first - 1) \in 1 .. Len(pointers) - first
        BY <3>3, <1>2, <1>4
      <4>2. pointers'[i] = pointers[first + (i - (first - 1))]
        BY <3>1, <3>3, <4>1, <1>2, <1>4, <1>7
      <4>3. first + (i - (first - 1)) = i + 1
        BY <1>4
      <4> QED BY <4>2, <4>3, <3>3
    <3> QED BY <3>2, <3>3
  <2> QED BY <1>8, <1>9, <2>1, <2>2
<1>11. DOMAIN pointers' = 1 .. Len(pointers) - 1
  BY <1>2, <1>10
<1>12. IsInjective(pointers')
  <2> SUFFICES ASSUME NEW i \in 1 .. Len(pointers) - 1, NEW j \in 1 .. Len(pointers) - 1,
                      pointers'[i] = pointers'[j]
               PROVE  i = j
    BY <1>11 DEF IsInjective
  <2> DEFINE at(k) == IF k < first THEN k ELSE k + 1
  <2>1. at(i) \in 1 .. Len(pointers) /\ at(j) \in 1 .. Len(pointers)
    BY <1>2, <1>4
  <2>2. pointers[at(i)] = pointers[at(j)]
    BY <1>10
  <2>3. at(i) = at(j)
    <3> HIDE DEF at
    <3> QED BY <1>1, <1>2, <2>1, <2>2 DEF OnRecord, IsInjective
  <2> QED BY <2>3, <1>4
<1>13. ToSet(pointers') = live \ {p}
  <2>1. ASSUME NEW i \in 1 .. Len(pointers) - 1
        PROVE  pointers'[i] \in live \ {p}
    <3> DEFINE k == IF i < first THEN i ELSE i + 1
    <3>1. k \in 1 .. Len(pointers) /\ k # first
      BY <1>2, <1>4
    <3>2. pointers'[i] = pointers[k]
      BY <1>10
    <3> HIDE DEF k
    <3>3. pointers[k] # pointers[first]
      BY <3>1, <1>1, <1>2, <1>4 DEF OnRecord, IsInjective
    <3> QED BY <3>1, <3>2, <3>3, <1>2, <1>4 DEF ToSet
  <2>2. ASSUME NEW x \in live \ {p}
        PROVE  \E i \in 1 .. Len(pointers) - 1 : pointers'[i] = x
    <3>1. PICK k \in 1 .. Len(pointers) : pointers[k] = x
      BY <2>2, <1>2 DEF ToSet
    <3>2. k # first
      BY <3>1, <2>2, <1>4
    <3>3. CASE k < first
      <4>1. k \in 1 .. Len(pointers) - 1
        BY <3>3, <1>2, <1>4
      <4> QED BY <4>1, <3>1, <3>3, <1>10
    <3>4. CASE k > first
      <4>1. k - 1 \in 1 .. Len(pointers) - 1 /\ ~(k - 1 < first) /\ (k - 1) + 1 = k
        BY <3>4, <1>2, <1>4
      <4>2. pointers'[k - 1] = pointers[k]
        BY <4>1, <1>10
      <4> QED BY <4>1, <4>2, <3>1
    <3> QED BY <3>2, <3>3, <3>4, <1>4
  <2> QED BY <2>1, <2>2, <1>11 DEF ToSet
<1>14. /\ live' = live \ {p} /\ capacity' = capacity
       /\ lost' = lost /\ ~badFree'
  BY <1>1 DEF safe_free, StorageInv
<1>15. Len(pointers') <= capacity'
  BY <1>1, <1>2, <1>10, <1>14 DEF OnRecord, StorageInv
<1> QED BY <1>1, <1>10, <1>12, <1>13, <1>14, <1>15 DEF StorageInv, OnRecord

LEMMA StorageStep == StorageInv /\ [StorageNext]_storageVars => StorageInv'
<1> SUFFICES ASSUME StorageInv, [StorageNext]_storageVars PROVE StorageInv'
  OBVIOUS
<1>1. ASSUME Open, NEW b \in Blocks, GrowthFails(b) PROVE StorageInv'
  BY <1>1, CleanupKeeps DEF GrowthFails
<1>2. ASSUME Open, EndProgram PROVE StorageInv'
  <2>1. live \cup {} = live
    OBVIOUS
  <2> QED BY <2>1, <1>2, CleanupKeeps DEF EndProgram
<1>3. CASE UNCHANGED storageVars
  BY <1>3 DEF storageVars, StorageInv, OnRecord, AfterCleanup, Open
<1> QED BY <1>1, <1>2, <1>3, MallocKeeps, ReallocKeeps, FreeKeeps DEF StorageNext

\* Whatever addresses the allocator hands out, and however many: the record
\* holds every live block once, and the end frees all but one at most.
THEOREM RecordIsRight == StorageSpec => []EveryBlockOnRecord
<1>1. StorageSpec => []StorageInv
  BY StorageStarts, StorageStep, PTL DEF StorageSpec
<1> QED BY <1>1, StorageMeans, PTL
-----------------------------------------------------------------------------
(* The symbol table *)

\* The tables of a size.
Symbols == [name : SymNames, used : BOOLEAN]
Tables(size) == [0 .. size - 1 -> Seq(Symbols)]

\* Cells are the places of a table and Hashed makes the name of each unique.
LEMMA CellsOfTable ==
  ASSUME NEW size \in Nat, NEW t \in Tables(size)
  PROVE  /\ \A h, i : <<h, i>> \in Cells(t, size) <=> h \in 0 .. size - 1 /\ i \in 1 .. Len(t[h])
         /\ \A c \in Cells(t, size) :
              /\ c = <<c[1], c[2]>> /\ c[1] \in 0 .. size - 1 /\ c[2] \in 1 .. Len(t[c[1]])
              /\ At(t, c) = t[c[1]][c[2]] /\ At(t, c) \in Symbols
<1>1. \A h \in 0 .. size - 1 : t[h] \in Seq(Symbols) /\ DOMAIN t[h] = 1 .. Len(t[h])
  BY DEF Tables
<1>2. \A h, i : <<h, i>> \in Cells(t, size) <=> h \in 0 .. size - 1 /\ i \in 1 .. Len(t[h])
  <2>1. ASSUME NEW h, NEW i PROVE <<h, i>> \in Cells(t, size) => h \in 0 .. size - 1 /\ i \in 1 .. Len(t[h])
    <3>1. SUFFICES ASSUME <<h, i>> \in Cells(t, size)
                   PROVE  h \in 0 .. size - 1 /\ i \in 1 .. Len(t[h])
      OBVIOUS
    <3>2. PICK g \in 0 .. size - 1 : <<h, i>> \in {g} \X DOMAIN t[g]
      BY <3>1 DEF Cells
    <3>3. h = g /\ i \in DOMAIN t[g]
      BY <3>2
    <3> QED BY <3>3, <1>1
  <2>2. ASSUME NEW h \in 0 .. size - 1, NEW i \in 1 .. Len(t[h]) PROVE <<h, i>> \in Cells(t, size)
    <3>1. <<h, i>> \in {h} \X DOMAIN t[h]
      BY <1>1
    <3> QED BY <3>1 DEF Cells
  <2> QED BY <2>1, <2>2, Zenon
<1>3. ASSUME NEW c \in Cells(t, size)
      PROVE  c = <<c[1], c[2]>> /\ c[1] \in 0 .. size - 1 /\ c[2] \in 1 .. Len(t[c[1]])
  <2>1. PICK h \in 0 .. size - 1 : c \in {h} \X DOMAIN t[h]
    BY <1>3 DEF Cells
  <2>2. c = <<c[1], c[2]>> /\ c[1] = h /\ c[2] \in DOMAIN t[h]
    BY <2>1
  <2> QED BY <2>2, <1>1
<1>4. ASSUME NEW c \in Cells(t, size) PROVE At(t, c) \in Symbols
  <2>1. t[c[1]] \in Seq(Symbols) /\ c[2] \in 1 .. Len(t[c[1]])
    BY <1>1, <1>3
  <2> QED BY <2>1 DEF At
<1> QED BY <1>2, <1>3, <1>4 DEF At

LEMMA MarkOfCell ==
  ASSUME NEW size \in Nat, NEW t \in Tables(size), Hashed(t, size), NEW c \in Cells(t, size)
  PROVE  /\ At(t, c).name \in Names(t, size)
         /\ Mark(t, size, At(t, c).name) = At(t, c).used
<1>1. \A d \in Cells(t, size) : At(t, d).name = At(t, c).name => d = c
  BY DEF Hashed
<1>2. (CHOOSE d \in Cells(t, size) : At(t, d).name = At(t, c).name) = c
  BY <1>1
<1> QED BY <1>2, Zenon DEF Mark, Names

\* A table is a set of names as large as its set of cells.
LEMMA AsManyNames ==
  ASSUME NEW size \in Nat, NEW t \in Tables(size), Hashed(t, size), IsFiniteSet(Names(t, size))
  PROVE  /\ IsFiniteSet(Cells(t, size))
         /\ Cardinality(Cells(t, size)) = Cardinality(Names(t, size))
<1> DEFINE name == [c \in Cells(t, size) |-> At(t, c).name]
<1>1. name \in Bijection(Cells(t, size), Names(t, size))
  <2>1. name \in [Cells(t, size) -> Names(t, size)]
    BY DEF Names
  <2>2. \A c, d \in Cells(t, size) : name[c] = name[d] => c = d
    BY DEF Hashed
  <2>3. \A n \in Names(t, size) : \E c \in Cells(t, size) : name[c] = n
    BY DEF Names
  <2> HIDE DEF name
  <2> QED BY <2>1, <2>2, <2>3 DEF Bijection, Injection, Surjection, IsInjective
<1>2. name \in Injection(Cells(t, size), Names(t, size)) /\ name \in Surjection(Cells(t, size), Names(t, size))
  BY <1>1 DEF Bijection
<1> QED BY <1>2, FS_Injection, Zenon

\* What a position in a chain is.
LEMMA Position ==
  ASSUME NEW size \in Nat, NEW t \in Tables(size), Hashed(t, size), size > 0, NEW n \in SymNames
  PROVE  LET h == symtable_hash(n, size)
             i == SymPosition(t[h], n)
         IN /\ h \in 0 .. size - 1
            /\ i # 0 <=> n \in Names(t, size)
            /\ i # 0 => <<h, i>> \in Cells(t, size) /\ i \in 1 .. Len(t[h]) /\ t[h][i].name = n
<1> DEFINE h == symtable_hash(n, size)
           i == SymPosition(t[h], n)
<1>1. h \in 0 .. size - 1
  BY SymTableAssumption DEF symtable_hash
<1> HIDE DEF h
<1>2. t[h] \in Seq(Symbols) /\ DOMAIN t[h] = 1 .. Len(t[h]) /\ Len(t[h]) \in Nat
  BY <1>1 DEF Tables
<1>3. ASSUME NEW j \in 1 .. Len(t[h]), t[h][j].name = n
      PROVE  j = i
  <2>1. ASSUME NEW k \in 1 .. Len(t[h]), t[h][k].name = n PROVE k = j
    <3>1. <<h, k>> \in Cells(t, size) /\ <<h, j>> \in Cells(t, size)
      BY <1>1, CellsOfTable, Zenon
    <3>2. At(t, <<h, k>>).name = At(t, <<h, j>>).name
      BY <2>1, <1>3 DEF At
    <3>3. <<h, k>> = <<h, j>>
      BY <3>1, <3>2, Zenon DEF Hashed
    <3> QED BY <3>3
  <2>2. \A k \in 1 .. j - 1 : t[h][k].name # n
    BY <2>1, <1>2, <1>3
  <2>3. (CHOOSE k \in DOMAIN t[h] : t[h][k].name = n /\ \A l \in 1 .. k - 1 : t[h][l].name # n) = j
    BY <2>1, <2>2, <1>2, <1>3
  <2>4. \E k \in DOMAIN t[h] : t[h][k].name = n
    BY <1>2, <1>3
  <2>5. i = CHOOSE k \in DOMAIN t[h] : t[h][k].name = n /\ \A l \in 1 .. k - 1 : t[h][l].name # n
    BY <2>4, Zenon DEF SymPosition
  <2> QED BY <2>3, <2>5, Zenon
<1>4. (\E j \in 1 .. Len(t[h]) : t[h][j].name = n) <=> n \in Names(t, size)
  <2>1. ASSUME NEW j \in 1 .. Len(t[h]), t[h][j].name = n PROVE n \in Names(t, size)
    <3>1. <<h, j>> \in Cells(t, size)
      BY <1>1, CellsOfTable, Zenon
    <3>2. At(t, <<h, j>>).name = n
      BY <2>1 DEF At
    <3> QED BY <3>1, <3>2 DEF Names
  <2>2. ASSUME n \in Names(t, size) PROVE \E j \in 1 .. Len(t[h]) : t[h][j].name = n
    <3>1. PICK c \in Cells(t, size) : At(t, c).name = n
      BY <2>2 DEF Names
    <3>2. c[1] = h
      BY <3>1, Zenon DEF Hashed, h
    <3> QED BY <3>1, <3>2, CellsOfTable
  <2> QED BY <2>1, <2>2
<1>5. n \notin Names(t, size) => i = 0
  BY <1>4, <1>2, Zenon DEF SymPosition
<1>6. ASSUME n \in Names(t, size) PROVE i \in 1 .. Len(t[h]) /\ t[h][i].name = n
  BY <1>3, <1>4, <1>6
<1>7. i \in 1 .. Len(t[h]) => <<h, i>> \in Cells(t, size) /\ i # 0
  BY <1>1, CellsOfTable
<1> QED BY <1>1, <1>5, <1>6, <1>7, Zenon DEF h
\* The symbols of a table, wherever they stand.
Present(t, size) == {At(t, c) : c \in Cells(t, size)}

\* What the table holds, without the order of its chains.
LEMMA ContentsOfPresent ==
  ASSUME NEW size \in Nat, NEW t \in Tables(size), Hashed(t, size)
  PROVE  /\ Names(t, size) \subseteq SymNames
         /\ DOMAIN Contents(t, size) = Names(t, size)
         /\ Names(t, size) = {s.name : s \in Present(t, size)}
         /\ Present(t, size) \subseteq Symbols
         /\ \A s \in Present(t, size) : Contents(t, size)[s.name] = s.used
<1>1. \A c \in Cells(t, size) : At(t, c) \in Symbols /\ At(t, c).name \in SymNames
  BY CellsOfTable DEF Symbols
<1>2. Names(t, size) \subseteq SymNames /\ Present(t, size) \subseteq Symbols
  BY <1>1 DEF Names, Present
<1>3. Names(t, size) = {s.name : s \in Present(t, size)}
  BY DEF Names, Present
<1>4. ASSUME NEW s \in Present(t, size) PROVE Contents(t, size)[s.name] = s.used
  <2>1. PICK c \in Cells(t, size) : s = At(t, c)
    BY DEF Present
  <2>2. s.name \in Names(t, size) /\ Mark(t, size, s.name) = s.used
    BY <2>1, MarkOfCell
  <2> QED BY <2>2 DEF Contents
<1> QED BY <1>2, <1>3, <1>4 DEF Contents

\* A symbol pushed to the head of its chain, one taken out, and one marked used.
LEMMA PushedTable ==
  ASSUME NEW size \in Nat, size > 0, NEW t \in Tables(size), Hashed(t, size),
         NEW s \in Symbols, s.name \notin Names(t, size)
  PROVE  /\ PushSymbol(t, s, size) \in Tables(size)
         /\ Hashed(PushSymbol(t, s, size), size)
         /\ Present(PushSymbol(t, s, size), size) = Present(t, size) \cup {s}
<1> DEFINE h == symtable_hash(s.name, size)
           u == PushSymbol(t, s, size)
<1>1. h \in 0 .. size - 1
  BY SymTableAssumption DEF symtable_hash, Symbols
<1> HIDE DEF h
<1>2. t[h] \in Seq(Symbols) /\ Len(t[h]) \in Nat /\ <<s>> \in Seq(Symbols) /\ Len(<<s>>) = 1
  BY <1>1 DEF Tables
<1>3. u = [t EXCEPT ![h] = <<s>> \o t[h]]
  BY <1>1 DEF PushSymbol, h
<1>4. /\ <<s>> \o t[h] \in Seq(Symbols)
      /\ Len(<<s>> \o t[h]) = Len(t[h]) + 1
      /\ (<<s>> \o t[h])[1] = s
      /\ \A i \in 2 .. Len(t[h]) + 1 : (<<s>> \o t[h])[i] = t[h][i - 1]
  BY <1>2
<1> HIDE DEF u
<1>5. u \in Tables(size) /\ u[h] = <<s>> \o t[h] /\ \A g \in 0 .. size - 1 : g # h => u[g] = t[g]
  BY <1>1, <1>3, <1>4 DEF Tables
<1> DEFINE Old(c) == IF c[1] = h THEN <<h, c[2] - 1>> ELSE c
<1>6. <<h, 1>> \in Cells(u, size) /\ At(u, <<h, 1>>) = s
  <2>1. 1 \in 1 .. Len(u[h])
    BY <1>4, <1>5, <1>2
  <2>2. <<h, 1>> \in Cells(u, size)
    BY <2>1, <1>1, <1>5, CellsOfTable, Zenon
  <2> QED BY <2>2, <1>4, <1>5 DEF At
<1>7. ASSUME NEW c \in Cells(u, size), c # <<h, 1>>
      PROVE  Old(c) \in Cells(t, size) /\ At(u, c) = At(t, Old(c)) /\ Old(c)[1] = c[1]
  <2>1. c = <<c[1], c[2]>> /\ c[1] \in 0 .. size - 1 /\ c[2] \in 1 .. Len(u[c[1]])
    BY <1>5, CellsOfTable, Zenon
  <2>2. CASE c[1] = h
    <3>1. c[2] \in 2 .. Len(t[h]) + 1
      BY <2>1, <2>2, <1>2, <1>4, <1>5, <1>7
    <3>2. c[2] - 1 \in 1 .. Len(t[h])
      BY <3>1, <1>2
    <3>3. <<h, c[2] - 1>> \in Cells(t, size)
      BY <3>2, <1>1, CellsOfTable, Zenon
    <3>4. At(u, c) = t[h][c[2] - 1]
      BY <3>1, <2>2, <1>4, <1>5 DEF At
    <3> QED BY <2>2, <3>3, <3>4 DEF At
  <2>3. CASE c[1] # h
    <3>1. u[c[1]] = t[c[1]]
      BY <2>1, <2>3, <1>5
    <3>2. <<c[1], c[2]>> \in Cells(t, size)
      BY <3>1, <2>1, CellsOfTable
    <3> QED BY <2>1, <2>3, <3>1, <3>2 DEF At
  <2> QED BY <2>2, <2>3
<1>8. ASSUME NEW c \in Cells(u, size), NEW d \in Cells(u, size),
             c # <<h, 1>>, d # <<h, 1>>, Old(c) = Old(d)
      PROVE  c = d
  <2>1. c = <<c[1], c[2]>> /\ d = <<d[1], d[2]>> /\ c[2] \in Int /\ d[2] \in Int
    BY <1>5, CellsOfTable
  <2> QED BY <2>1, <1>8
<1>9. ASSUME NEW c \in Cells(t, size)
      PROVE  \E d \in Cells(u, size) : d # <<h, 1>> /\ Old(d) = c
  <2>1. c = <<c[1], c[2]>> /\ c[1] \in 0 .. size - 1 /\ c[2] \in 1 .. Len(t[c[1]])
    BY CellsOfTable, Zenon
  <2>2. CASE c[1] = h
    <3>4. c[2] \in 1 .. Len(t[h]) /\ Len(u[h]) = Len(t[h]) + 1
      BY <2>1, <2>2, <1>4, <1>5, Zenon
    <3>1. c[2] + 1 \in 1 .. Len(u[h]) /\ c[2] + 1 # 1 /\ (c[2] + 1) - 1 = c[2]
      BY <3>4, <1>2
    <3>2. <<h, c[2] + 1>> \in Cells(u, size)
      BY <3>1, <1>1, <1>5, CellsOfTable, Zenon
    <3>3. Old(<<h, c[2] + 1>>) = c /\ <<h, c[2] + 1>> # <<h, 1>>
      BY <3>1, <2>1, <2>2
    <3> QED BY <3>2, <3>3
  <2>3. CASE c[1] # h
    <3>1. u[c[1]] = t[c[1]]
      BY <2>1, <2>3, <1>5
    <3>2. <<c[1], c[2]>> \in Cells(u, size)
      BY <3>1, <2>1, <1>5, CellsOfTable
    <3>3. Old(c) = c /\ c # <<h, 1>>
      BY <2>3
    <3> QED BY <2>1, <3>2, <3>3
  <2> QED BY <2>2, <2>3
<1> HIDE DEF Old
<1>10. Hashed(u, size)
  <2>1. ASSUME NEW c \in Cells(u, size) PROVE symtable_hash(At(u, c).name, size) = c[1]
    <3>1. CASE c = <<h, 1>>
      BY <3>1, <1>6 DEF h
    <3>2. CASE c # <<h, 1>>
      BY <3>2, <1>7, Zenon DEF Hashed
    <3> QED BY <3>1, <3>2
  <2>2. ASSUME NEW c \in Cells(u, size), c # <<h, 1>> PROVE At(u, c).name # s.name
    <3>1. Old(c) \in Cells(t, size) /\ At(u, c) = At(t, Old(c))
      BY <2>2, <1>7, Zenon
    <3>2. At(u, c).name \in Names(t, size)
      BY <3>1 DEF Names
    <3> QED BY <3>2
  <2>3. ASSUME NEW c \in Cells(u, size), NEW d \in Cells(u, size), At(u, c).name = At(u, d).name
        PROVE  c = d
    <3>1. CASE c # <<h, 1>> /\ d # <<h, 1>>
      <4>1. /\ Old(c) \in Cells(t, size) /\ At(u, c) = At(t, Old(c))
            /\ Old(d) \in Cells(t, size) /\ At(u, d) = At(t, Old(d))
        BY <3>1, <1>7, Zenon
      <4>2. Old(c) = Old(d)
        BY <4>1, <2>3, Zenon DEF Hashed
      <4> QED BY <4>2, <3>1, <1>8, Zenon
    <3>2. CASE c = <<h, 1>> \/ d = <<h, 1>>
      BY <3>2, <2>2, <2>3, <1>6, Zenon
    <3> QED BY <3>1, <3>2
  <2> QED BY <2>1, <2>3, Zenon DEF Hashed
<1>11. Present(u, size) = Present(t, size) \cup {s}
  <2>1. ASSUME NEW c \in Cells(u, size) PROVE At(u, c) \in Present(t, size) \cup {s}
    BY <1>6, <1>7 DEF Present
  <2>2. ASSUME NEW c \in Cells(t, size) PROVE At(t, c) \in Present(u, size)
    <3>1. PICK d \in Cells(u, size) : d # <<h, 1>> /\ Old(d) = c
      BY <1>9, Zenon
    <3>2. At(u, d) = At(t, c)
      BY <3>1, <1>7, Zenon
    <3> QED BY <3>2 DEF Present
  <2>3. s \in Present(u, size)
    BY <1>6 DEF Present
  <2> QED BY <2>1, <2>2, <2>3 DEF Present
<1> QED BY <1>5, <1>10, <1>11 DEF u

LEMMA RemovedAt ==
  ASSUME NEW Items, NEW s \in Seq(Items), NEW i \in 1 .. Len(s)
  PROVE  /\ RemoveAt(s, i) \in Seq(Items)
         /\ Len(RemoveAt(s, i)) = Len(s) - 1
         /\ \A j \in 1 .. Len(s) - 1 : RemoveAt(s, i)[j] = IF j < i THEN s[j] ELSE s[j + 1]
<1> DEFINE a == SubSeq(s, 1, i - 1)
           b == SubSeq(s, i + 1, Len(s))
<1>1. Len(s) \in Nat /\ i \in Int /\ i - 1 \in 0 .. Len(s) /\ i + 1 \in 1 .. Len(s) + 1
  OBVIOUS
<1>2. a \in Seq(Items) /\ Len(a) = i - 1 /\ \A j \in 1 .. i - 1 : a[j] = s[j]
  BY <1>1
<1>3. b \in Seq(Items) /\ Len(b) = Len(s) - i /\ \A j \in 1 .. Len(s) - i : b[j] = s[i + j]
  BY <1>1
<1> HIDE DEF a, b
<1>4. a \o b \in Seq(Items) /\ Len(a \o b) = Len(s) - 1
  <2>1. a \o b \in Seq(Items) /\ Len(a \o b) = Len(a) + Len(b)
    BY <1>2, <1>3, ConcatProperties
  <2> QED BY <2>1, <1>1, <1>2, <1>3
<1>5. ASSUME NEW j \in 1 .. Len(s) - 1
      PROVE  (a \o b)[j] = IF j < i THEN s[j] ELSE s[j + 1]
  <2>1. CASE j < i
    BY <2>1, <1>1, <1>2, <1>3
  <2>2. CASE ~(j < i)
    <3>1. j - (i - 1) \in 1 .. Len(s) - i /\ i + (j - (i - 1)) = j + 1 /\ j > i - 1
      BY <2>2, <1>1
    <3>2. (a \o b)[j] = b[j - (i - 1)]
      BY <3>1, <1>1, <1>2, <1>3
    <3>3. b[j - (i - 1)] = s[j + 1]
      BY <3>1, <1>3
    <3> QED BY <2>2, <3>2, <3>3
  <2> QED BY <2>1, <2>2
<1> QED BY <1>4, <1>5 DEF RemoveAt, a, b

\* A table without the symbol at a place, and with that symbol marked as used.
Without(t, h, i) == [t EXCEPT ![h] = RemoveAt(@, i)]

LEMMA TableWithout ==
  ASSUME NEW size \in Nat, NEW t \in Tables(size), Hashed(t, size),
         NEW h, NEW i, <<h, i>> \in Cells(t, size)
  PROVE  /\ Without(t, h, i) \in Tables(size)
         /\ Hashed(Without(t, h, i), size)
         /\ Present(Without(t, h, i), size) = Present(t, size) \ {t[h][i]}
<1> DEFINE u == Without(t, h, i)
           New(j) == IF j < i THEN j ELSE j + 1
           Old(c) == IF c[1] = h THEN <<h, New(c[2])>> ELSE c
<1>1. h \in 0 .. size - 1 /\ i \in 1 .. Len(t[h])
  BY CellsOfTable, Zenon
<1>2. t[h] \in Seq(Symbols) /\ Len(t[h]) \in Nat
  BY <1>1 DEF Tables
<1>3. /\ RemoveAt(t[h], i) \in Seq(Symbols) /\ Len(RemoveAt(t[h], i)) = Len(t[h]) - 1
      /\ \A j \in 1 .. Len(t[h]) - 1 : RemoveAt(t[h], i)[j] = IF j < i THEN t[h][j] ELSE t[h][j + 1]
  BY <1>1, <1>2, RemovedAt, Zenon
<1>4. u \in Tables(size) /\ u[h] = RemoveAt(t[h], i) /\ \A g \in 0 .. size - 1 : g # h => u[g] = t[g]
  BY <1>1, <1>3 DEF Tables, Without
<1> HIDE DEF u
<1>5. Len(u[h]) = Len(t[h]) - 1 /\ \A j \in 1 .. Len(t[h]) - 1 : u[h][j] = t[h][New(j)]
  BY <1>3, <1>4
<1>6. ASSUME NEW c \in Cells(u, size)
      PROVE  Old(c) \in Cells(t, size) /\ At(u, c) = At(t, Old(c)) /\ Old(c)[1] = c[1] /\ Old(c) # <<h, i>>
  <2>1. c = <<c[1], c[2]>> /\ c[1] \in 0 .. size - 1 /\ c[2] \in 1 .. Len(u[c[1]])
    BY <1>4, CellsOfTable, Zenon
  <2>2. CASE c[1] = h
    <3>1. c[2] \in 1 .. Len(u[h])
      BY <2>1, <2>2
    <3>2. New(c[2]) \in 1 .. Len(t[h]) /\ New(c[2]) # i /\ c[2] \in 1 .. Len(t[h]) - 1
      BY <3>1, <1>1, <1>2, <1>5
    <3>3. <<h, New(c[2])>> \in Cells(t, size)
      BY <3>2, <1>1, CellsOfTable, Zenon
    <3>4. At(u, c) = t[h][New(c[2])]
      BY <3>2, <2>2, <1>5, Zenon DEF At
    <3>5. Old(c) = <<h, New(c[2])>>
      BY <2>2, Zenon
    <3>6. Old(c) # <<h, i>> /\ Old(c)[1] = h /\ At(t, Old(c)) = t[h][New(c[2])]
      BY <3>2, <3>5 DEF At
    <3> QED BY <2>2, <3>3, <3>4, <3>5, <3>6
  <2>3. CASE c[1] # h
    <3>1. u[c[1]] = t[c[1]]
      BY <2>1, <2>3, <1>4
    <3>2. <<c[1], c[2]>> \in Cells(t, size)
      BY <3>1, <2>1, CellsOfTable
    <3>3. Old(c) = c
      BY <2>3
    <3> QED BY <2>1, <2>3, <3>1, <3>2, <3>3 DEF At
  <2> QED BY <2>2, <2>3
<1>7. ASSUME NEW c \in Cells(u, size), NEW d \in Cells(u, size), Old(c) = Old(d)
      PROVE  c = d
  <2>1. c = <<c[1], c[2]>> /\ d = <<d[1], d[2]>> /\ c[2] \in Int /\ d[2] \in Int /\ i \in Int
    BY <1>1, <1>4, CellsOfTable
  <2> QED BY <2>1, <1>7
<1>8. ASSUME NEW c \in Cells(t, size), c # <<h, i>>
      PROVE  \E d \in Cells(u, size) : Old(d) = c
  <2>1. c = <<c[1], c[2]>> /\ c[1] \in 0 .. size - 1 /\ c[2] \in 1 .. Len(t[c[1]])
    BY CellsOfTable, Zenon
  <2>2. CASE c[1] = h
    <3> DEFINE j == IF c[2] < i THEN c[2] ELSE c[2] - 1
    <3>1. c[2] \in 1 .. Len(t[h]) /\ c[2] # i
      BY <2>1, <2>2, <1>8
    <3>2. j \in 1 .. Len(u[h]) /\ New(j) = c[2]
      BY <3>1, <1>1, <1>2, <1>5
    <3> HIDE DEF j
    <3>3. <<h, j>> \in Cells(u, size)
      BY <3>2, <1>1, <1>4, CellsOfTable, Zenon
    <3>4. Old(<<h, j>>) = <<h, New(j)>>
      OBVIOUS
    <3> QED BY <2>1, <2>2, <3>2, <3>3, <3>4
  <2>3. CASE c[1] # h
    <3>1. u[c[1]] = t[c[1]]
      BY <2>1, <2>3, <1>4
    <3>2. <<c[1], c[2]>> \in Cells(u, size)
      BY <3>1, <2>1, <1>4, CellsOfTable
    <3>3. Old(c) = c
      BY <2>3
    <3> QED BY <2>1, <3>2, <3>3
  <2> QED BY <2>2, <2>3
<1> HIDE DEF Old
<1>9. Hashed(u, size)
  <2>1. ASSUME NEW c \in Cells(u, size) PROVE symtable_hash(At(u, c).name, size) = c[1]
    BY <1>6, Zenon DEF Hashed
  <2>2. ASSUME NEW c \in Cells(u, size), NEW d \in Cells(u, size), At(u, c).name = At(u, d).name
        PROVE  c = d
    <3>1. Old(c) = Old(d)
      BY <2>2, <1>6, Zenon DEF Hashed
    <3> QED BY <3>1, <1>7, Zenon
  <2> QED BY <2>1, <2>2, Zenon DEF Hashed
<1>10. Present(u, size) = Present(t, size) \ {t[h][i]}
  <2>1. At(t, <<h, i>>) = t[h][i]
    BY DEF At
  <2>2. ASSUME NEW c \in Cells(t, size), At(t, c) = t[h][i] PROVE c = <<h, i>>
    BY <2>1, <2>2, Zenon DEF Hashed
  <2>3. ASSUME NEW c \in Cells(u, size) PROVE At(u, c) \in Present(t, size) /\ At(u, c) # t[h][i]
    BY <2>2, <1>6, Zenon DEF Present
  <2>4. ASSUME NEW c \in Cells(t, size), At(t, c) # t[h][i] PROVE At(t, c) \in Present(u, size)
    <3>1. PICK d \in Cells(u, size) : Old(d) = c
      BY <2>1, <2>4, <1>8, Zenon
    <3>2. At(u, d) = At(t, c)
      BY <3>1, <1>6, Zenon
    <3> QED BY <3>2 DEF Present
  <2> QED BY <2>3, <2>4 DEF Present
<1> QED BY <1>4, <1>9, <1>10 DEF u

Marking(t, h, i) == [t EXCEPT ![h][i].used = TRUE]

LEMMA MarkedTable ==
  ASSUME NEW size \in Nat, NEW t \in Tables(size), Hashed(t, size),
         NEW h, NEW i, <<h, i>> \in Cells(t, size)
  PROVE  /\ Marking(t, h, i) \in Tables(size)
         /\ Hashed(Marking(t, h, i), size)
         /\ Present(Marking(t, h, i), size) = (Present(t, size) \ {t[h][i]}) \cup {[name |-> t[h][i].name, used |-> TRUE]}
<1> DEFINE u == Marking(t, h, i)
           s == [name |-> t[h][i].name, used |-> TRUE]
<1>1. h \in 0 .. size - 1 /\ i \in 1 .. Len(t[h])
  BY CellsOfTable, Zenon
<1>2. t[h] \in Seq(Symbols) /\ t[h][i] \in Symbols /\ DOMAIN t[h] = 1 .. Len(t[h])
  BY <1>1 DEF Tables
<1>3. [t[h][i] EXCEPT !.used = TRUE] = s /\ s \in Symbols
  <2>1. ASSUME NEW r \in Symbols
        PROVE  [r EXCEPT !.used = TRUE] = [name |-> r.name, used |-> TRUE]
    <3> DEFINE m == [r EXCEPT !.used = TRUE]
    <3>1. m \in Symbols /\ m.name = r.name /\ m.used = TRUE
      BY DEF Symbols
    <3> HIDE DEF m
    <3>2. m = [name |-> m.name, used |-> m.used]
      BY <3>1 DEF Symbols
    <3>3. m = [name |-> r.name, used |-> TRUE]
      BY <3>1, <3>2, Zenon
    <3> QED BY <3>3 DEF m
  <2> QED BY <1>2, <2>1 DEF Symbols
<1>4. u = [t EXCEPT ![h] = [t[h] EXCEPT ![i] = s]]
  BY <1>3 DEF Marking
<1> HIDE DEF s, u
<1>5. /\ [t[h] EXCEPT ![i] = s] \in Seq(Symbols)
      /\ Len([t[h] EXCEPT ![i] = s]) = Len(t[h])
      /\ \A j \in 1 .. Len(t[h]) : [t[h] EXCEPT ![i] = s][j] = IF j = i THEN s ELSE t[h][j]
  BY <1>1, <1>2, <1>3, ExceptSeq
<1>6. /\ u \in Tables(size) /\ \A g \in 0 .. size - 1 : Len(u[g]) = Len(t[g]) /\ (g # h => u[g] = t[g])
      /\ \A j \in 1 .. Len(t[h]) : u[h][j] = IF j = i THEN s ELSE t[h][j]
  BY <1>1, <1>4, <1>5 DEF Tables
<1>7. Cells(u, size) = Cells(t, size)
  <2>1. \A g, j : <<g, j>> \in Cells(u, size) <=> <<g, j>> \in Cells(t, size)
    <3>1. \A g, j : <<g, j>> \in Cells(u, size) <=> g \in 0 .. size - 1 /\ j \in 1 .. Len(u[g])
      BY <1>6, CellsOfTable, Zenon
    <3>2. \A g, j : <<g, j>> \in Cells(t, size) <=> g \in 0 .. size - 1 /\ j \in 1 .. Len(t[g])
      BY CellsOfTable, Zenon
    <3> QED BY <1>6, <3>1, <3>2
  <2>2. \A c \in Cells(u, size) \cup Cells(t, size) : c = <<c[1], c[2]>>
    BY <1>6, CellsOfTable
  <2> QED BY <2>1, <2>2
<1>8. ASSUME NEW c \in Cells(t, size)
      PROVE  At(u, c) = IF c = <<h, i>> THEN s ELSE At(t, c)
  <2>1. c = <<c[1], c[2]>> /\ c[1] \in 0 .. size - 1 /\ c[2] \in 1 .. Len(t[c[1]])
    BY CellsOfTable, Zenon
  <2> QED BY <2>1, <1>6 DEF At
<1>9. At(t, <<h, i>>) = t[h][i] /\ s.name = t[h][i].name
  BY DEF At, s
<1>10. \A c \in Cells(t, size) : At(u, c).name = At(t, c).name
  BY <1>8, <1>9
<1>11. Hashed(u, size)
  BY <1>7, <1>10 DEF Hashed
<1>12. Present(u, size) = (Present(t, size) \ {t[h][i]}) \cup {s}
  <2>1. \A c \in Cells(t, size) : At(t, c) = t[h][i] => c = <<h, i>>
    BY <1>9, Zenon DEF Hashed
  <2> QED BY <1>7, <1>8, <1>9, <2>1 DEF Present
<1> QED BY <1>6, <1>11, <1>12 DEF s, u

\* Pushing in turn puts every symbol at a place of its own.
LEMMA AllPushed ==
  ASSUME NEW t, NEW cells \in SUBSET (Nat \X Nat), IsFiniteSet(cells)
  PROVE  /\ Cardinality(cells) \in Nat
         /\ \E place \in Bijection(1 .. Cardinality(cells), cells) :
              PushedInTurn(t, cells) = [i \in 1 .. Cardinality(cells) |-> At(t, place[i])]
<1> DEFINE n == Cardinality(cells)
           After(c) == {d \in cells : ReadAfter(d, c)}
           rank == [c \in cells |-> Cardinality(After(c))]
           Nth(i) == CHOOSE c \in cells : Cardinality({d \in cells : ReadAfter(d, c)}) = i - 1
           place == [i \in 1 .. n |-> Nth(i)]
<1>1. n \in Nat
  BY FS_CardinalityType, Zenon
<1>2. ASSUME NEW c \in cells
      PROVE  IsFiniteSet(After(c)) /\ Cardinality(After(c)) \in 0 .. n - 1
  <2>1. After(c) \subseteq cells \ {c}
    BY DEF ReadAfter
  <2>2. IsFiniteSet(cells \ {c}) /\ Cardinality(cells \ {c}) = n - 1
    BY FS_RemoveElement
  <2> HIDE DEF After
  <2>3. IsFiniteSet(After(c)) /\ Cardinality(After(c)) <= n - 1
    BY <2>1, <2>2, FS_Subset
  <2>4. Cardinality(After(c)) \in Nat
    BY <2>3, FS_CardinalityType, Zenon
  <2> QED BY <2>3, <2>4, <1>1
<1>3. ASSUME NEW c \in cells, NEW d \in cells, ReadAfter(d, c)
      PROVE  Cardinality(After(d)) < Cardinality(After(c))
  <2>1. c[1] \in Nat /\ c[2] \in Nat /\ d[1] \in Nat /\ d[2] \in Nat
    OBVIOUS
  <2>2. \A e \in cells : e[1] \in Nat /\ e[2] \in Nat
    OBVIOUS
  <2>3. \A e \in cells : ReadAfter(e, d) => ReadAfter(e, c)
    BY <2>1, <2>2, <1>3 DEF ReadAfter
  <2>4. After(d) \subseteq After(c) /\ d \in After(c) /\ d \notin After(d)
    BY <2>1, <2>3, <1>3 DEF ReadAfter
  <2>5. /\ IsFiniteSet(After(c))
        /\ Cardinality(After(c)) \in Nat /\ Cardinality(After(d)) \in Nat
    BY <1>2
  <2> HIDE DEF After
  <2>6. Cardinality(After(d)) <= Cardinality(After(c)) /\ After(c) # After(d)
    BY <2>4, <2>5, FS_Subset
  <2>7. Cardinality(After(c)) # Cardinality(After(d))
    BY <2>4, <2>5, <2>6, FS_Subset
  <2> QED BY <2>5, <2>6, <2>7
<1>4. ASSUME NEW c \in cells, NEW d \in cells, Cardinality(After(c)) = Cardinality(After(d))
      PROVE  c = d
  <2>1. Cardinality(After(c)) \in Int /\ Cardinality(After(d)) \in Int
    <3> HIDE DEF After, n
    <3> QED BY <1>2
  <2>2. ~ ReadAfter(c, d) /\ ~ ReadAfter(d, c)
    <3> HIDE DEF After
    <3> QED BY <2>1, <1>3, <1>4
  <2>3. c = <<c[1], c[2]>> /\ d = <<d[1], d[2]>> /\ {c[1], c[2], d[1], d[2]} \subseteq Int
    OBVIOUS
  <2> QED BY <2>2, <2>3 DEF ReadAfter
<1> HIDE DEF n, After
<1>5. rank \in Injection(cells, 0 .. n - 1)
  BY <1>2, <1>4 DEF Injection, IsInjective
<1>6. rank \in Surjection(cells, 0 .. n - 1)
  <2>1. IsFiniteSet(0 .. n - 1) /\ Cardinality(0 .. n - 1) = n
    BY <1>1, FS_Interval
  <2> HIDE DEF rank
  <2> QED BY <2>1, <1>5, FS_Injection, Zenon DEF n
<1>7. \A i \in 1 .. n : Nth(i) \in cells /\ rank[Nth(i)] = i - 1
  <2>1. ASSUME NEW i \in 1 .. n PROVE \E c \in cells : rank[c] = i - 1
    <3>1. i - 1 \in 0 .. n - 1
      BY <1>1
    <3> QED BY <3>1, <1>6 DEF Surjection
  <2>2. ASSUME NEW i \in 1 .. n PROVE Nth(i) \in cells /\ Cardinality(After(Nth(i))) = i - 1
    <3>1. \E c \in cells : Cardinality({d \in cells : ReadAfter(d, c)}) = i - 1
      BY <2>1 DEF After
    <3> QED BY <3>1 DEF After
  <2> HIDE DEF Nth
  <2> QED BY <2>2
<1> HIDE DEF rank
<1>8. \A c \in cells : \E i \in 1 .. n : Nth(i) = c
  <2>1. ASSUME NEW c \in cells PROVE rank[c] + 1 \in 1 .. n /\ (rank[c] + 1) - 1 = rank[c]
    BY <1>1, <1>5 DEF Injection
  <2>2. ASSUME NEW c \in cells PROVE Nth(rank[c] + 1) = c
    <3>1. Nth(rank[c] + 1) \in cells /\ rank[Nth(rank[c] + 1)] = rank[c]
      BY <2>1, <1>7
    <3> HIDE DEF Nth
    <3> QED BY <3>1, <1>5 DEF Injection, IsInjective
  <2> HIDE DEF Nth
  <2> QED BY <2>1, <2>2
<1> HIDE DEF Nth
<1>9. place \in Bijection(1 .. n, cells)
  <2>1. place \in [1 .. n -> cells]
    BY <1>7
  <2>2. \A i, j \in 1 .. n : place[i] = place[j] => i = j
    <3>1. ASSUME NEW i \in 1 .. n, NEW j \in 1 .. n, Nth(i) = Nth(j) PROVE i = j
      <4>1. i - 1 = j - 1
        BY <3>1, <1>7
      <4> QED BY <4>1, <1>1
    <3> QED BY <3>1
  <2>3. \A c \in cells : \E i \in 1 .. n : place[i] = c
    BY <1>8
  <2> HIDE DEF place
  <2> QED BY <2>1, <2>2, <2>3 DEF Bijection, Injection, Surjection, IsInjective
<1>10. PushedInTurn(t, cells) = [i \in 1 .. n |-> At(t, place[i])]
  BY DEF PushedInTurn, Nth, n
<1> HIDE DEF place
<1> QED BY <1>1, <1>9, <1>10, Zenon DEF n

\* Growth pushes each symbol once into the chain of its new hash, so the grown
\* table holds what the old one held and is hashed under the new size.
LEMMA GrownTableRight ==
  ASSUME NEW size \in Nat, NEW t \in Tables(size), Hashed(t, size), size > 0,
         IsFiniteSet(Cells(t, size))
  PROVE  /\ GrownTable(t, size) \in Tables(2 * size)
         /\ Hashed(GrownTable(t, size), 2 * size)
         /\ Present(GrownTable(t, size), 2 * size) = Present(t, size)
<1> DEFINE u == GrownTable(t, size)
           Moved(h) == {c \in Cells(t, size) : symtable_hash(At(t, c).name, 2 * size) = h}
           Places(h) == Bijection(1 .. Len(u[h]), Moved(h))
<1>1. 2 * size \in Nat /\ 2 * size > 0
  OBVIOUS
<1>2. \A c \in Cells(t, size) : c \in Nat \X Nat /\ At(t, c) \in Symbols
  <2>1. ASSUME NEW c \in Cells(t, size)
        PROVE  c = <<c[1], c[2]>> /\ c[1] \in Nat /\ c[2] \in Nat /\ At(t, c) \in Symbols
    <3>1. c[1] \in 0 .. size - 1 /\ c[2] \in 1 .. Len(t[c[1]])
      BY CellsOfTable, Zenon
    <3>2. c = <<c[1], c[2]>> /\ At(t, c) \in Symbols
      BY CellsOfTable, Zenon
    <3> QED BY <3>1, <3>2
  <2> QED BY <2>1
<1>3. ASSUME NEW h \in 0 .. 2 * size - 1
      PROVE  /\ u[h] \in Seq(Symbols)
             /\ \E place \in Places(h) : \A i \in 1 .. Len(u[h]) : u[h][i] = At(t, place[i])
  <2>1. IsFiniteSet(Moved(h)) /\ Moved(h) \in SUBSET (Nat \X Nat)
    BY <1>2, FS_Subset
  <2>2. u[h] = PushedInTurn(t, Moved(h))
    BY DEF GrownTable
  <2> HIDE DEF u
  <2>3. /\ Cardinality(Moved(h)) \in Nat
        /\ \E place \in Bijection(1 .. Cardinality(Moved(h)), Moved(h)) :
             u[h] = [i \in 1 .. Cardinality(Moved(h)) |-> At(t, place[i])]
    <3>1. /\ Cardinality(Moved(h)) \in Nat
          /\ \E place \in Bijection(1 .. Cardinality(Moved(h)), Moved(h)) :
               PushedInTurn(t, Moved(h)) = [i \in 1 .. Cardinality(Moved(h)) |-> At(t, place[i])]
      <4> HIDE DEF Moved
      <4> QED BY <2>1, AllPushed, Zenon
    <3> QED BY <2>2, <3>1
  <2>4. PICK place \in Bijection(1 .. Cardinality(Moved(h)), Moved(h)) :
               u[h] = [i \in 1 .. Cardinality(Moved(h)) |-> At(t, place[i])]
    BY <2>3
  <2>5. \A i \in 1 .. Cardinality(Moved(h)) : place[i] \in Cells(t, size) /\ At(t, place[i]) \in Symbols
    BY <1>2 DEF Bijection, Injection
  <2>6. u[h] \in Seq(Symbols) /\ Len(u[h]) = Cardinality(Moved(h))
    BY <2>3, <2>4, <2>5
  <2> QED BY <2>4, <2>6
<1>4. u \in Tables(2 * size)
  <2>1. DOMAIN u = 0 .. 2 * size - 1 /\ u = [h \in DOMAIN u |-> u[h]]
    BY DEF GrownTable
  <2> HIDE DEF u
  <2> QED BY <2>1, <1>3 DEF Tables
<1> HIDE DEF u
<1>5. ASSUME NEW c \in Cells(u, 2 * size)
      PROVE  c = <<c[1], c[2]>> /\ c[1] \in 0 .. 2 * size - 1 /\ c[2] \in 1 .. Len(u[c[1]]) /\ At(u, c) = u[c[1]][c[2]]
  BY <1>1, <1>4, CellsOfTable, Zenon
<1>6. ASSUME NEW c \in Cells(u, 2 * size)
      PROVE  /\ symtable_hash(At(u, c).name, 2 * size) = c[1]
             /\ At(u, c) \in Present(t, size)
  <2>1. PICK place \in Places(c[1]) : \A i \in 1 .. Len(u[c[1]]) : u[c[1]][i] = At(t, place[i])
    BY <1>3, <1>5
  <2>2. place[c[2]] \in Moved(c[1])
    BY <1>5 DEF Bijection, Injection
  <2>3. At(u, c) = At(t, place[c[2]])
    BY <2>1, <1>5
  <2> QED BY <2>2, <2>3 DEF Present
<1>7. ASSUME NEW c \in Cells(u, 2 * size), NEW d \in Cells(u, 2 * size), At(u, c).name = At(u, d).name
      PROVE  c = d
  <2>1. c[1] = d[1]
    BY <1>6, <1>7
  <2>2. PICK place \in Places(c[1]) : \A i \in 1 .. Len(u[c[1]]) : u[c[1]][i] = At(t, place[i])
    BY <1>3, <1>5
  <2>3. c[2] \in 1 .. Len(u[c[1]]) /\ d[2] \in 1 .. Len(u[c[1]])
    BY <2>1, <1>5
  <2>4. place[c[2]] \in Cells(t, size) /\ place[d[2]] \in Cells(t, size)
    BY <2>3 DEF Bijection, Injection
  <2>5. At(u, c) = At(t, place[c[2]]) /\ At(u, d) = At(t, place[d[2]])
    BY <2>1, <2>2, <2>3, <1>5
  <2>6. place[c[2]] = place[d[2]]
    BY <2>4, <2>5, <1>7, Zenon DEF Hashed
  <2>7. c[2] = d[2]
    BY <2>3, <2>6 DEF Bijection, Injection, IsInjective
  <2> QED BY <2>1, <2>7, <1>5
<1>8. ASSUME NEW c \in Cells(t, size) PROVE At(t, c) \in Present(u, 2 * size)
  <2> DEFINE h == symtable_hash(At(t, c).name, 2 * size)
  <2>1. h \in 0 .. 2 * size - 1
    <3>1. SymHash[At(t, c).name] \in Nat
      BY <1>2, SymTableAssumption DEF Symbols
    <3> QED BY <3>1, <1>1 DEF symtable_hash
  <2>2. c \in Moved(h)
    OBVIOUS
  <2> HIDE DEF h
  <2>3. PICK place \in Places(h) : \A i \in 1 .. Len(u[h]) : u[h][i] = At(t, place[i])
    BY <2>1, <1>3
  <2>4. PICK i \in 1 .. Len(u[h]) : place[i] = c
    BY <2>2 DEF Bijection, Surjection
  <2>5. <<h, i>> \in Cells(u, 2 * size) /\ At(u, <<h, i>>) = u[h][i]
    BY <2>1, <1>1, <1>4, CellsOfTable DEF At
  <2>6. At(u, <<h, i>>) = At(t, c)
    BY <2>3, <2>4, <2>5
  <2> QED BY <2>5, <2>6 DEF Present
<1>9. Hashed(u, 2 * size)
  BY <1>6, <1>7, Zenon DEF Hashed
<1>10. Present(u, 2 * size) = Present(t, size)
  BY <1>6, <1>8 DEF Present
<1> QED BY <1>4, <1>9, <1>10 DEF u

\* The partial function of a table that gained or lost a symbol, or none.
LEMMA ContentsWith ==
  ASSUME NEW size \in Nat, NEW t \in Tables(size), Hashed(t, size),
         NEW newSize \in Nat, NEW u \in Tables(newSize), Hashed(u, newSize),
         NEW n \in SymNames, NEW used \in BOOLEAN,
         Present(u, newSize) =
           {s \in Present(t, size) : s.name # n} \cup {[name |-> n, used |-> used]}
  PROVE  /\ Names(u, newSize) = Names(t, size) \cup {n}
         /\ Contents(u, newSize) = [m \in DOMAIN Contents(t, size) \cup {n} |->
                                      IF m = n THEN used ELSE Contents(t, size)[m]]
<1> DEFINE new == [name |-> n, used |-> used]
<1>1. new.name = n /\ new.used = used
  OBVIOUS
<1>2. Present(u, newSize) = {s \in Present(t, size) : s.name # n} \cup {new}
  OBVIOUS
<1> HIDE DEF new
<1>3. /\ Names(t, size) = {s.name : s \in Present(t, size)}
      /\ \A s \in Present(t, size) : Contents(t, size)[s.name] = s.used
      /\ DOMAIN Contents(t, size) = Names(t, size)
  BY ContentsOfPresent, Zenon
<1>4. /\ Names(u, newSize) = {s.name : s \in Present(u, newSize)}
      /\ \A s \in Present(u, newSize) : Contents(u, newSize)[s.name] = s.used
  BY ContentsOfPresent, Zenon
<1>5. Names(u, newSize) = Names(t, size) \cup {n}
  BY <1>1, <1>2, <1>3, <1>4
<1>6. ASSUME NEW m \in Names(u, newSize)
      PROVE  Contents(u, newSize)[m] = IF m = n THEN used ELSE Contents(t, size)[m]
  <2>1. CASE m = n
    BY <2>1, <1>1, <1>2, <1>4
  <2>2. CASE m # n
    <3>1. PICK s \in Present(u, newSize) : m = s.name
      BY <1>4
    <3>2. s \in Present(t, size)
      BY <3>1, <2>2, <1>1, <1>2
    <3> QED BY <3>1, <3>2, <2>2, <1>3, <1>4
  <2> QED BY <2>1, <2>2
<1>7. Contents(u, newSize) = [m \in Names(u, newSize) |-> Contents(u, newSize)[m]]
  BY DEF Contents
<1> QED BY <1>3, <1>5, <1>6, <1>7

LEMMA ContentsWithout ==
  ASSUME NEW size \in Nat, NEW t \in Tables(size), Hashed(t, size),
         NEW newSize \in Nat, NEW u \in Tables(newSize), Hashed(u, newSize), NEW N,
         \A s : s \in Present(u, newSize) <=> s \in Present(t, size) /\ s.name \notin N
  PROVE  /\ \A m : m \in Names(u, newSize) <=> m \in Names(t, size) /\ m \notin N
         /\ \A m \in Names(u, newSize) : Contents(u, newSize)[m] = Contents(t, size)[m]
<1>1. /\ Names(t, size) = {s.name : s \in Present(t, size)}
      /\ \A s \in Present(t, size) : Contents(t, size)[s.name] = s.used
  BY ContentsOfPresent, Zenon
<1>2. /\ Names(u, newSize) = {s.name : s \in Present(u, newSize)}
      /\ \A s \in Present(u, newSize) : Contents(u, newSize)[s.name] = s.used
  BY ContentsOfPresent, Zenon
<1>3. \A m : m \in Names(u, newSize) <=> m \in Names(t, size) /\ m \notin N
  BY <1>1, <1>2
<1>4. ASSUME NEW m \in Names(u, newSize) PROVE Contents(u, newSize)[m] = Contents(t, size)[m]
  <2>1. PICK s \in Present(u, newSize) : m = s.name
    BY <1>2
  <2> QED BY <2>1, <1>1, <1>2
<1> QED BY <1>3, <1>4

LEMMA SameContents ==
  ASSUME NEW size \in Nat, NEW t \in Tables(size), Hashed(t, size),
         NEW newSize \in Nat, NEW u \in Tables(newSize), Hashed(u, newSize),
         Present(u, newSize) = Present(t, size)
  PROVE  /\ Names(u, newSize) = Names(t, size)
         /\ Contents(u, newSize) = Contents(t, size)
<1>1. /\ \A m : m \in Names(u, newSize) <=> m \in Names(t, size)
      /\ \A m \in Names(u, newSize) : Contents(u, newSize)[m] = Contents(t, size)[m]
  <2> DEFINE none == {}
  <2>1. \A s : s \in Present(u, newSize) <=> s \in Present(t, size) /\ s.name \notin none
    OBVIOUS
  <2>2. \A m : m \notin none
    OBVIOUS
  <2> HIDE DEF none
  <2>3. /\ \A m : m \in Names(u, newSize) <=> m \in Names(t, size) /\ m \notin none
        /\ \A m \in Names(u, newSize) : Contents(u, newSize)[m] = Contents(t, size)[m]
    BY <2>1, ContentsWithout
  <2> QED BY <2>2, <2>3
<1>2. Names(u, newSize) = Names(t, size)
  BY <1>1
<1>3. \A m \in Names(t, size) : Mark(u, newSize, m) = Mark(t, size, m)
  BY <1>1 DEF Contents
<1> QED BY <1>2, <1>3 DEF Contents

\* The symbols of other names than the one found are all but the one found.
LEMMA OtherSymbols ==
  ASSUME NEW size \in Nat, NEW t \in Tables(size), Hashed(t, size),
         NEW h, NEW i, <<h, i>> \in Cells(t, size)
  PROVE  Present(t, size) \ {t[h][i]} = {s \in Present(t, size) : s.name # t[h][i].name}
<1>1. At(t, <<h, i>>) = t[h][i]
  BY DEF At
<1>2. ASSUME NEW s \in Present(t, size), s.name = t[h][i].name PROVE s = t[h][i]
  <2>1. PICK c \in Cells(t, size) : s = At(t, c)
    BY DEF Present
  <2>2. c = <<h, i>>
    BY <2>1, <1>1, <1>2, Zenon DEF Hashed
  <2> QED BY <2>1, <2>2, <1>1
<1> QED BY <1>2

\* The table of symtable_init.
LEMMA EmptyTable ==
  ASSUME NEW size \in Nat
  PROVE  /\ NoChains(size) \in Tables(size)
         /\ Hashed(NoChains(size), size)
         /\ Cells(NoChains(size), size) = {}
<1>1. NoChains(size) \in Tables(size)
  BY DEF NoChains, Tables
<1>2. \A h \in 0 .. size - 1 : Len(NoChains(size)[h]) = 0
  BY DEF NoChains
<1>3. Cells(NoChains(size), size) = {}
  BY <1>1, <1>2, CellsOfTable
<1> QED BY <1>1, <1>3 DEF Hashed

\* The table is hashed, and counts the names in it.
SymInv ==
  /\ symSize \in Nat
  /\ symTable \in Tables(symSize)
  /\ Hashed(symTable, symSize)
  /\ IsFiniteSet(Names(symTable, symSize))
  /\ symCount = Cardinality(Names(symTable, symSize))

LEMMA SymInitRight == SymInit => SymInv
<1>1. SUFFICES ASSUME SymInit PROVE SymInv
  OBVIOUS
<1> DEFINE s == [name |-> SymUnderscore, used |-> TRUE]
           n == SymInitialSize
<1>2. n \in Nat /\ n > 0 /\ s \in Symbols /\ s.name = SymUnderscore
  BY SymTableAssumption DEF Symbols
<1>3. symSize = n /\ symCount = 1 /\ symTable = PushSymbol(NoChains(n), s, n)
  BY <1>1 DEF SymInit
<1> HIDE DEF s, n
<1>4. Names(NoChains(n), n) = {} /\ Present(NoChains(n), n) = {}
  BY <1>2, EmptyTable DEF Names, Present
<1>5. NoChains(n) \in Tables(n) /\ Hashed(NoChains(n), n)
  BY <1>2, EmptyTable
<1>6. symTable \in Tables(n) /\ Hashed(symTable, n) /\ Present(symTable, n) = {s}
  BY <1>2, <1>3, <1>4, <1>5, PushedTable
<1>7. Names(symTable, n) = {SymUnderscore}
  BY <1>2, <1>6, ContentsOfPresent
<1> QED BY <1>2, <1>3, <1>6, <1>7, FS_Singleton DEF SymInv

\* What symtable_insert inserts into, grown or not.
LEMMA TableReady ==
  ASSUME SymInv, symSize > 0
  PROVE  /\ SizeForInsert \in Nat /\ SizeForInsert > 0
         /\ TableForInsert \in Tables(SizeForInsert)
         /\ Hashed(TableForInsert, SizeForInsert)
         /\ Present(TableForInsert, SizeForInsert) = Present(symTable, symSize)
<1>1. CASE NeedsGrowth
  <2>1. IsFiniteSet(Cells(symTable, symSize))
    BY AsManyNames DEF SymInv
  <2>2. SizeForInsert = 2 * symSize /\ TableForInsert = GrownTable(symTable, symSize)
    BY <1>1 DEF SizeForInsert, TableForInsert
  <2>3. /\ GrownTable(symTable, symSize) \in Tables(2 * symSize)
        /\ Hashed(GrownTable(symTable, symSize), 2 * symSize)
        /\ Present(GrownTable(symTable, symSize), 2 * symSize) = Present(symTable, symSize)
    BY <2>1, GrownTableRight DEF SymInv
  <2>4. 2 * symSize \in Nat /\ 2 * symSize > 0
    BY DEF SymInv
  <2> QED BY <2>2, <2>3, <2>4
<1>2. CASE ~NeedsGrowth
  BY <1>2 DEF SizeForInsert, TableForInsert, SymInv
<1> QED BY <1>1, <1>2

\* Every function keeps the invariant and answers as SymbolDictionary does.
LEMMA InsertRight ==
  ASSUME SymInv, symSize > 0, NEW n \in SymNames, NEW used \in BOOLEAN, symtable_insert(n, used)
  PROVE  SymInv' /\ D!Insert(n, used)
<1> DEFINE z == SizeForInsert
           t == TableForInsert
           s == [name |-> n, used |-> used]
           f == Contents(symTable, symSize)
<1>1. z \in Nat /\ z > 0 /\ t \in Tables(z) /\ Hashed(t, z) /\ Present(t, z) = Present(symTable, symSize)
  BY TableReady
<1>2. s \in Symbols /\ s.name = n
  BY DEF Symbols
<1>3. symSize' = z
  BY DEF symtable_insert
<1>4. \/ /\ SymPosition(t[symtable_hash(n, z)], n) # 0
         /\ symTable' = t /\ symAnswer' = SymNull /\ symCount' = symCount
      \/ /\ SymPosition(t[symtable_hash(n, z)], n) = 0
         /\ symTable' = PushSymbol(t, s, z) /\ symCount' = symCount + 1 /\ symAnswer' = n
  BY DEF symtable_insert
<1>5. symSize \in Nat /\ symTable \in Tables(symSize) /\ Hashed(symTable, symSize)
  BY DEF SymInv
<1>6. DOMAIN f = Names(symTable, symSize) /\ f = [m \in DOMAIN f |-> f[m]]
  BY DEF Contents
<1> HIDE DEF z, t, f
<1>7. Names(t, z) = Names(symTable, symSize) /\ Contents(t, z) = f
  BY <1>1, <1>5, SameContents DEF f
<1>8. SymPosition(t[symtable_hash(n, z)], n) # 0 <=> n \in Names(t, z)
  BY <1>1, Position
<1>9. CASE n \in Names(t, z)
  <2>1. symTable' = t /\ symAnswer' = SymNull /\ symCount' = symCount
    BY <1>4, <1>8, <1>9
  <2>2. Contents(symTable', symSize') = f
    BY <2>1, <1>3, <1>7
  <2>3. SymInv'
    BY <2>1, <1>1, <1>3, <1>7 DEF SymInv
  <2>4. n \in DOMAIN f
    BY <1>6, <1>7, <1>9
  <2> QED BY <2>1, <2>2, <2>3, <2>4 DEF D!Insert, f
<1>10. CASE n \notin Names(t, z)
  <2>1. symTable' = PushSymbol(t, s, z) /\ symCount' = symCount + 1 /\ symAnswer' = n
    BY <1>4, <1>8, <1>10
  <2>2. /\ symTable' \in Tables(z) /\ Hashed(symTable', z)
        /\ Present(symTable', z) = Present(t, z) \cup {s}
    BY <2>1, <1>1, <1>2, <1>10, PushedTable
  <2>3. \A r \in Present(t, z) : r.name # n
    BY <1>1, <1>10, ContentsOfPresent
  <2>4. Present(symTable', z) = {r \in Present(t, z) : r.name # n} \cup {[name |-> n, used |-> used]}
    BY <2>2, <2>3
  <2>5. /\ Names(symTable', z) = Names(t, z) \cup {n}
        /\ Contents(symTable', z) = [m \in DOMAIN Contents(t, z) \cup {n} |->
                                       IF m = n THEN used ELSE Contents(t, z)[m]]
    BY <2>2, <2>4, <1>1, ContentsWith
  <2>6. Contents(symTable', symSize') = D!Put(n, used)
    BY <2>5, <1>3, <1>7 DEF D!Put, f
  <2>7. IsFiniteSet(Names(symTable', z)) /\ Cardinality(Names(symTable', z)) = symCount + 1
    <3>1. IsFiniteSet(Names(t, z)) /\ Cardinality(Names(t, z)) = symCount
      BY <1>7 DEF SymInv
    <3> QED BY <3>1, <2>5, <1>10, FS_AddElement
  <2>8. SymInv'
    BY <2>1, <2>2, <2>7, <1>1, <1>3 DEF SymInv
  <2>9. n \notin DOMAIN f
    BY <1>6, <1>7, <1>10
  <2> QED BY <2>1, <2>6, <2>8, <2>9 DEF D!Insert, f
<1> QED BY <1>9, <1>10

LEMMA SearchRight ==
  ASSUME SymInv, symSize > 0, NEW n \in SymNames, symtable_search(n)
  PROVE  SymInv' /\ D!Search(n)
<1> DEFINE h == symtable_hash(n, symSize)
           i == SymPosition(symTable[h], n)
           f == Contents(symTable, symSize)
<1>1. symSize \in Nat /\ symTable \in Tables(symSize) /\ Hashed(symTable, symSize)
  BY DEF SymInv
<1>2. /\ i # 0 <=> n \in Names(symTable, symSize)
      /\ i # 0 => <<h, i>> \in Cells(symTable, symSize) /\ symTable[h][i].name = n
  BY <1>1, Position
<1>3. symSize' = symSize /\ symCount' = symCount
  BY DEF symtable_search
<1>4. \/ i # 0 /\ symTable' = [symTable EXCEPT ![h][i].used = TRUE] /\ symAnswer' = n
      \/ i = 0 /\ symAnswer' = SymNull /\ symTable' = symTable
  BY DEF symtable_search
<1> HIDE DEF h, i
<1>5. DOMAIN f = Names(symTable, symSize)
  BY DEF Contents
<1>6. CASE i # 0
  <2>1. symTable' = [symTable EXCEPT ![h][i].used = TRUE] /\ symAnswer' = n
    BY <1>4, <1>6
  <2>2. <<h, i>> \in Cells(symTable, symSize) /\ symTable[h][i].name = n
    BY <1>2, <1>6
  <2>3. /\ symTable' \in Tables(symSize) /\ Hashed(symTable', symSize)
        /\ Present(symTable', symSize) = (Present(symTable, symSize) \ {symTable[h][i]})
                                            \cup {[name |-> symTable[h][i].name, used |-> TRUE]}
    <3>1. symTable' = Marking(symTable, h, i)
      BY <2>1 DEF Marking
    <3> QED BY <3>1, <2>2, <1>1, MarkedTable
  <2>4. Present(symTable, symSize) \ {symTable[h][i]}
          = {s \in Present(symTable, symSize) : s.name # symTable[h][i].name}
    BY <2>2, <1>1, OtherSymbols
  <2>5. Present(symTable', symSize) =
          {s \in Present(symTable, symSize) : s.name # n} \cup {[name |-> n, used |-> TRUE]}
    BY <2>2, <2>3, <2>4
  <2>6. /\ Names(symTable', symSize) = Names(symTable, symSize) \cup {n}
        /\ Contents(symTable', symSize) = [m \in DOMAIN f \cup {n} |-> IF m = n THEN TRUE ELSE f[m]]
    <3> DEFINE mark == TRUE
    <3>1. mark \in BOOLEAN
      OBVIOUS
    <3>2. Present(symTable', symSize) =
            {s \in Present(symTable, symSize) : s.name # n} \cup {[name |-> n, used |-> mark]}
      BY <2>5
    <3> HIDE DEF mark
    <3>3. /\ Names(symTable', symSize) = Names(symTable, symSize) \cup {n}
          /\ Contents(symTable', symSize) = [m \in DOMAIN f \cup {n} |-> IF m = n THEN mark ELSE f[m]]
      BY <2>3, <3>1, <3>2, <1>1, ContentsWith
    <3> QED BY <3>3 DEF mark
  <2>7. Names(symTable', symSize) = Names(symTable, symSize)
    BY <2>6, <1>2, <1>6
  <2>8. SymInv'
    BY <2>3, <2>7, <1>3 DEF SymInv
  <2>9. D!Search(n)
    BY <2>1, <2>6, <1>2, <1>3, <1>5, <1>6 DEF D!Search, D!Put
  <2> QED BY <2>8, <2>9
<1>7. CASE i = 0
  <2>1. symTable' = symTable /\ symAnswer' = SymNull
    BY <1>4, <1>7
  <2>2. SymInv'
    BY <2>1, <1>3 DEF SymInv
  <2>3. D!Search(n)
    BY <2>1, <1>2, <1>3, <1>5, <1>7 DEF D!Search
  <2> QED BY <2>2, <2>3
<1> QED BY <1>6, <1>7

LEMMA RemoveRight ==
  ASSUME SymInv, symSize > 0, NEW n \in SymNames, symtable_remove(n)
  PROVE  SymInv' /\ D!Remove(n)
<1> DEFINE h == symtable_hash(n, symSize)
           i == SymPosition(symTable[h], n)
<1>1. symSize \in Nat /\ symTable \in Tables(symSize) /\ Hashed(symTable, symSize)
  BY DEF SymInv
<1>2. /\ i # 0 /\ symTable' = [symTable EXCEPT ![h] = RemoveAt(@, i)]
      /\ symCount' = symCount - 1 /\ symSize' = symSize /\ symAnswer' = symAnswer
  BY DEF symtable_remove
<1>3. /\ n \in Names(symTable, symSize) /\ <<h, i>> \in Cells(symTable, symSize)
      /\ symTable[h][i].name = n
  BY <1>1, <1>2, Position
<1> HIDE DEF h, i
<1>4. /\ symTable' \in Tables(symSize) /\ Hashed(symTable', symSize)
      /\ Present(symTable', symSize) = Present(symTable, symSize) \ {symTable[h][i]}
  <2>1. symTable' = Without(symTable, h, i)
    BY <1>2 DEF Without
  <2> QED BY <2>1, <1>1, <1>3, TableWithout
<1>5. Present(symTable, symSize) \ {symTable[h][i]}
        = {s \in Present(symTable, symSize) : s.name # symTable[h][i].name}
  BY <1>1, <1>3, OtherSymbols
<1> DEFINE removed == {n}
<1>6. \A s : s \in Present(symTable', symSize) <=> s \in Present(symTable, symSize) /\ s.name \notin removed
  BY <1>3, <1>4, <1>5
<1>7. \A m : m \in removed <=> m = n
  OBVIOUS
<1> HIDE DEF removed
<1>8. /\ \A m : m \in Names(symTable', symSize) <=> m \in Names(symTable, symSize) /\ m \notin removed
      /\ \A m \in Names(symTable', symSize) :
           Contents(symTable', symSize)[m] = Contents(symTable, symSize)[m]
  BY <1>1, <1>4, <1>6, ContentsWithout
<1>9. Names(symTable', symSize) = Names(symTable, symSize) \ {n}
  BY <1>7, <1>8
<1>10. SymInv'
  <2>1. /\ IsFiniteSet(Names(symTable', symSize))
        /\ Cardinality(Names(symTable', symSize)) = symCount - 1
    BY <1>3, <1>9, FS_RemoveElement DEF SymInv
  <2> QED BY <2>1, <1>1, <1>2, <1>4 DEF SymInv
<1>11. D!Remove(n)
  <2>1. Contents(symTable', symSize)
          = [m \in Names(symTable, symSize) \ {n} |-> Contents(symTable, symSize)[m]]
    <3>1. DOMAIN Contents(symTable', symSize) = Names(symTable, symSize) \ {n}
      BY <1>9 DEF Contents
    <3>2. \A m \in Names(symTable, symSize) \ {n} :
            Contents(symTable', symSize)[m] = Contents(symTable, symSize)[m]
      BY <1>8, <1>9
    <3>3. Contents(symTable', symSize)
            = [m \in DOMAIN Contents(symTable', symSize) |-> Contents(symTable', symSize)[m]]
      BY DEF Contents
    <3> QED BY <3>1, <3>2, <3>3
  <2>2. DOMAIN Contents(symTable, symSize) = Names(symTable, symSize)
    BY DEF Contents
  <2> QED BY <2>1, <2>2, <1>2 DEF D!Remove
<1> QED BY <1>10, <1>11

LEMMA CheckRight ==
  ASSUME SymInv, is_symtable_all_used
  PROVE  SymInv' /\ D!CheckUsed
<1> DEFINE f == Contents(symTable, symSize)
           AllMarked == \A h \in 0 .. symSize - 1 : \A i \in DOMAIN symTable[h] :
                          symTable[h][i].used \/ symTable[h][i].name \in SymBuiltin
<1>1. symSize \in Nat /\ symTable \in Tables(symSize) /\ Hashed(symTable, symSize)
  BY DEF SymInv
<1>2. /\ symAnswer' = (IF AllMarked THEN SymAllUsed ELSE SymNull)
      /\ symSize' = symSize /\ symCount' = symCount /\ symTable' = symTable
  BY DEF is_symtable_all_used
<1>3. \A c \in Cells(symTable, symSize) :
        At(symTable, c).name \in DOMAIN f /\ f[At(symTable, c).name] = At(symTable, c).used
  <2>1. ASSUME NEW c \in Cells(symTable, symSize)
        PROVE  /\ At(symTable, c).name \in Names(symTable, symSize)
               /\ Mark(symTable, symSize, At(symTable, c).name) = At(symTable, c).used
    BY <1>1, MarkOfCell, Zenon
  <2> QED BY <2>1 DEF Contents
<1>4. \A n \in DOMAIN f : \E c \in Cells(symTable, symSize) : At(symTable, c).name = n
  BY DEF Contents, Names
<1>5. AllMarked <=> \A c \in Cells(symTable, symSize) :
                      At(symTable, c).used \/ At(symTable, c).name \in SymBuiltin
  <2>1. ASSUME AllMarked, NEW c \in Cells(symTable, symSize)
        PROVE  At(symTable, c).used \/ At(symTable, c).name \in SymBuiltin
    <3>1. c[1] \in 0 .. symSize - 1 /\ c[2] \in 1 .. Len(symTable[c[1]])
      BY <1>1, CellsOfTable, Zenon
    <3>2. DOMAIN symTable[c[1]] = 1 .. Len(symTable[c[1]])
      BY <3>1, <1>1 DEF Tables
    <3> QED BY <2>1, <3>1, <3>2 DEF At
  <2>2. ASSUME \A c \in Cells(symTable, symSize) :
                 At(symTable, c).used \/ At(symTable, c).name \in SymBuiltin,
               NEW h \in 0 .. symSize - 1, NEW i \in DOMAIN symTable[h]
        PROVE  symTable[h][i].used \/ symTable[h][i].name \in SymBuiltin
    <3>1. i \in 1 .. Len(symTable[h])
      BY <1>1 DEF Tables
    <3>2. <<h, i>> \in Cells(symTable, symSize)
      BY <3>1, <1>1, CellsOfTable, Zenon
    <3> QED BY <2>2, <3>2 DEF At
  <2> QED BY <2>1, <2>2
<1> HIDE DEF AllMarked, f
<1>6. AllMarked <=> \A n \in DOMAIN f \ SymBuiltin : f[n]
  <2>1. ASSUME AllMarked, NEW n \in DOMAIN f \ SymBuiltin PROVE f[n]
    <3>1. PICK c \in Cells(symTable, symSize) : At(symTable, c).name = n
      BY <1>4
    <3>2. At(symTable, c).used \/ At(symTable, c).name \in SymBuiltin
      BY <2>1, <1>5
    <3>3. n \notin SymBuiltin
      OBVIOUS
    <3>4. At(symTable, c).used
      BY <3>1, <3>2, <3>3
    <3>5. f[n] = At(symTable, c).used
      BY <3>1, <1>3
    <3> QED BY <3>4, <3>5, Zenon
  <2>2. ASSUME \A n \in DOMAIN f \ SymBuiltin : f[n], NEW c \in Cells(symTable, symSize),
               At(symTable, c).name \notin SymBuiltin
        PROVE  At(symTable, c).used
    <3>1. At(symTable, c).name \in DOMAIN f \ SymBuiltin
      BY <2>2, <1>3
    <3>2. f[At(symTable, c).name]
      BY <2>2, <3>1, Zenon
    <3>3. f[At(symTable, c).name] = At(symTable, c).used
      BY <1>3, Zenon
    <3> QED BY <3>2, <3>3, Zenon
  <2> QED BY <2>1, <2>2, <1>5
<1>7. SymInv'
  BY <1>2 DEF SymInv
<1>8. D!CheckUsed
  BY <1>2, <1>6, Zenon DEF D!CheckUsed, f
<1> QED BY <1>7, <1>8

LEMMA FreeRight ==
  ASSUME SymInv, symtable_free
  PROVE  SymInv' /\ D!Clear
<1>1. symSize' = 0 /\ symCount' = 0 /\ symTable' = NoChains(0) /\ symAnswer' = symAnswer
  BY DEF symtable_free
<1>2. NoChains(0) \in Tables(0) /\ Hashed(NoChains(0), 0) /\ Names(NoChains(0), 0) = {}
  BY EmptyTable DEF Names
<1>3. Contents(NoChains(0), 0) = [n \in {} |-> FALSE]
  BY <1>2 DEF Contents
<1>4. SymInv'
  BY <1>1, <1>2, FS_EmptySet DEF SymInv
<1> QED BY <1>1, <1>3, <1>4 DEF D!Clear

LEMMA SymStep ==
  SymInv /\ [SymNext]_symVars =>
    /\ SymInv'
    /\ [/\ \A n \in SymNames :
             /\ \A used \in BOOLEAN : symtable_insert(n, used) => D!Insert(n, used)
             /\ symtable_search(n) => D!Search(n)
             /\ symtable_remove(n) => D!Remove(n)
        /\ is_symtable_all_used => D!CheckUsed
        /\ symtable_free => D!Clear]_symVars
<1>1. SUFFICES ASSUME SymInv, [SymNext]_symVars
               PROVE  SymInv' /\ [/\ \A n \in SymNames :
                                       /\ \A used \in BOOLEAN : symtable_insert(n, used) => D!Insert(n, used)
                                       /\ symtable_search(n) => D!Search(n)
                                       /\ symtable_remove(n) => D!Remove(n)
                                  /\ is_symtable_all_used => D!CheckUsed
                                  /\ symtable_free => D!Clear]_symVars
  OBVIOUS
<1>2. CASE UNCHANGED symVars
  <2>1. SymInv'
    BY <1>1, <1>2 DEF SymInv, symVars
  <2> QED BY <2>1, <1>2, Zenon
<1>3. CASE SymNext
  <2>1. symSize > 0
    BY <1>3 DEF SymNext
  <2>2. ASSUME NEW n \in SymNames, NEW used \in BOOLEAN, symtable_insert(n, used)
        PROVE  SymInv' /\ D!Insert(n, used)
    BY <1>1, <2>1, <2>2, InsertRight
  <2>3. ASSUME NEW n \in SymNames, symtable_search(n) PROVE SymInv' /\ D!Search(n)
    BY <1>1, <2>1, <2>3, SearchRight
  <2>4. ASSUME NEW n \in SymNames, symtable_remove(n) PROVE SymInv' /\ D!Remove(n)
    BY <1>1, <2>1, <2>4, RemoveRight
  <2>5. ASSUME is_symtable_all_used PROVE SymInv' /\ D!CheckUsed
    BY <1>1, <2>5, CheckRight
  <2>6. ASSUME symtable_free PROVE SymInv' /\ D!Clear
    BY <1>1, <2>6, FreeRight
  <2>7. SymInv'
    BY <1>3, <2>2, <2>3, <2>4, <2>5, <2>6, Zenon DEF SymNext
  <2> QED BY <2>2, <2>3, <2>4, <2>5, <2>6, <2>7, Zenon
<1> QED BY <1>1, <1>2, <1>3, Zenon

\* Every symbol of symtable.c stands in the chain its name hashes to under the
\* present size, no name stands twice, and the count is the number of symbols:
\* for any names, any hash and any size to start from, across every growth.
THEOREM SymbolTableRight == SymSpec => []ChainsRight
<1>1. SymInv => ChainsRight
  <2>1. SUFFICES ASSUME SymInv PROVE ChainsRight
    OBVIOUS
  <2>2. Cardinality(Cells(symTable, symSize)) = Cardinality(Names(symTable, symSize))
    BY <2>1, AsManyNames DEF SymInv
  <2> QED BY <2>1, <2>2, Zenon DEF SymInv, ChainsRight
<1>2. SymInv /\ [SymNext]_symVars => SymInv'
  BY SymStep, Zenon
<1> QED BY <1>1, <1>2, SymInitRight, PTL DEF SymSpec

\* Insertion, search, removal and growth of symtable.c do to the set of symbols
\* what a partial function from names promises: nothing is lost, found twice or
\* hidden by a later symbol of the same chain.
THEOREM SymbolTableIsDictionary == SymSpec => ImplementsDictionary
<1>1. SymInv /\ [SymNext]_symVars => SymInv'
  BY SymStep, Zenon
<1> QED BY <1>1, SymStep, SymInitRight, PTL DEF SymSpec, ImplementsDictionary
-----------------------------------------------------------------------------
(* The parser: the blocks that are open, and how many scopes they have *)

\* The fields of a block that the parser is in.
ParamSet == [name : Identifiers, type : DataTypes]

IsBlock(b) ==
  /\ DOMAIN b = {"kind", "todo", "opened", "empty", "code", "other"}
  /\ b.kind \in {"function", "true", "after", "else", "while"}
  /\ b.todo \in Seq(ParamSet)
  /\ b.opened \in BOOLEAN
  /\ b.kind = "after" => b.opened

\* Its two scopes are not entered yet, or left already.
Shut(b) == ~b.opened \/ b.kind = "after"

\* The outermost block is a function's, which has one scope; each of the
\* others has two, but for the innermost while it is shut.
Nested(bs, depth) ==
  /\ \E R : bs \in Seq(R)
  /\ \A i \in 1 .. Len(bs) : IsBlock(bs[i]) /\ (bs[i].kind = "function" <=> i = 1)
  /\ \A i \in 1 .. Len(bs) - 1 : ~Shut(bs[i])
  /\ bs # <<>> => bs[1].opened
  /\ bs = <<>> => depth = 0
  /\ bs # <<>> => depth = 2 * Len(bs) - IF Shut(bs[Len(bs)]) THEN 3 ELSE 1

\* The nesting of the blocks when the innermost changes, one is entered, one is
\* left, and when the body of a function begins.
LEMMA TopBecomes ==
  ASSUME NEW bs, NEW depth, Nested(bs, depth), bs # <<>>, NEW b, IsBlock(b),
         b.kind = "function" <=> bs[Len(bs)].kind = "function",
         b.kind = "function" => b.opened,
         NEW d, d = 2 * Len(bs) - IF Shut(b) THEN 3 ELSE 1
  PROVE  Nested([bs EXCEPT ![Len(bs)] = b], d)
<1>1. PICK R : bs \in Seq(R)
  BY DEF Nested
<1>2. Len(bs) \in Nat \ {0} /\ bs \in Seq(R \cup {b}) /\ b \in R \cup {b}
  BY <1>1
<1> DEFINE cs == [bs EXCEPT ![Len(bs)] = b]
<1>3. /\ cs \in Seq(R \cup {b}) /\ Len(cs) = Len(bs)
      /\ \A i \in 1 .. Len(bs) : cs[i] = IF i = Len(bs) THEN b ELSE bs[i]
  <2>1. Len(bs) \in 1 .. Len(bs)
    BY <1>2
  <2> QED BY <2>1, <1>2, ExceptSeq
<1> HIDE DEF cs
<1>4. cs # <<>> /\ cs[Len(cs)] = b
  BY <1>2, <1>3
<1>5. ASSUME NEW i \in 1 .. Len(cs)
      PROVE  IsBlock(cs[i]) /\ (cs[i].kind = "function" <=> i = 1)
  <2>1. IsBlock(bs[i]) /\ (bs[i].kind = "function" <=> i = 1)
    BY <1>3, <1>5 DEF Nested
  <2> QED BY <2>1, <1>3, <1>5
<1>6. ASSUME NEW i \in 1 .. Len(cs) - 1
      PROVE  ~Shut(cs[i])
  BY <1>2, <1>3, <1>6 DEF Nested
<1>7. cs[1].opened
  <2>1. CASE Len(bs) = 1
    BY <2>1, <1>3, <1>4, <1>5
  <2>2. CASE Len(bs) # 1
    BY <2>2, <1>2, <1>3 DEF Nested
  <2> QED BY <2>1, <2>2
<1> QED BY <1>3, <1>4, <1>5, <1>6, <1>7 DEF Nested, cs

LEMMA BlockPushed ==
  ASSUME NEW bs, NEW depth, Nested(bs, depth), bs # <<>>, ~Shut(bs[Len(bs)]),
         NEW b, IsBlock(b), b.kind # "function", Shut(b)
  PROVE  Nested(Append(bs, b), depth)
<1>1. PICK R : bs \in Seq(R)
  BY DEF Nested
<1>2. Len(bs) \in Nat \ {0} /\ bs \in Seq(R \cup {b}) /\ b \in R \cup {b}
  BY <1>1
<1> DEFINE cs == Append(bs, b)
<1>3. /\ cs \in Seq(R \cup {b}) /\ Len(cs) = Len(bs) + 1
      /\ \A i \in 1 .. Len(bs) : cs[i] = bs[i]
      /\ cs[Len(bs) + 1] = b
  BY <1>2, AppendProperties
<1> HIDE DEF cs
<1>4. cs # <<>> /\ cs[Len(cs)] = b
  BY <1>2, <1>3
<1>5. ASSUME NEW i \in 1 .. Len(cs)
      PROVE  IsBlock(cs[i]) /\ (cs[i].kind = "function" <=> i = 1)
  <2>1. CASE i = Len(bs) + 1
    BY <2>1, <1>2, <1>3
  <2>2. CASE i # Len(bs) + 1
    <3>1. i \in 1 .. Len(bs)
      BY <2>2, <1>2, <1>3, <1>5
    <3> QED BY <3>1, <1>3 DEF Nested
  <2> QED BY <2>1, <2>2
<1>6. ASSUME NEW i \in 1 .. Len(cs) - 1
      PROVE  ~Shut(cs[i])
  <2>1. i \in 1 .. Len(bs) /\ cs[i] = bs[i]
    BY <1>2, <1>3, <1>6
  <2>2. CASE i = Len(bs)
    BY <2>1, <2>2
  <2>3. CASE i # Len(bs)
    BY <2>1, <2>3, <1>2 DEF Nested
  <2> QED BY <2>2, <2>3
<1>7. cs[1].opened
  BY <1>2, <1>3 DEF Nested
<1>8. depth = 2 * Len(cs) - 3
  BY <1>2, <1>3 DEF Nested
<1> QED BY <1>3, <1>4, <1>5, <1>6, <1>7, <1>8 DEF Nested, cs

LEMMA BlockDropped ==
  ASSUME NEW bs, NEW depth, Nested(bs, depth), bs # <<>>, bs[Len(bs)].kind # "function"
  PROVE  /\ SubSeq(bs, 1, Len(bs) - 1) # <<>>
         /\ Len(SubSeq(bs, 1, Len(bs) - 1)) = Len(bs) - 1 /\ Len(bs) \in Nat \ {0, 1}
         /\ ~Shut(SubSeq(bs, 1, Len(bs) - 1)[Len(bs) - 1])
         /\ Nested(SubSeq(bs, 1, Len(bs) - 1), 2 * Len(bs) - 3)
<1>1. PICK R : bs \in Seq(R)
  BY DEF Nested
<1>2. Len(bs) \in Nat \ {0, 1}
  BY <1>1 DEF Nested
<1> DEFINE cs == SubSeq(bs, 1, Len(bs) - 1)
<1>3. /\ cs \in Seq(R) /\ Len(cs) = Len(bs) - 1
      /\ \A i \in 1 .. Len(bs) - 1 : cs[i] = bs[i]
  <2>1. \A i \in 1 .. Len(bs) - 1 : bs[i] \in R
    BY <1>1, <1>2
  <2>2. /\ cs \in Seq(R)
        /\ Len(cs) = IF 1 <= Len(bs) - 1 THEN Len(bs) - 1 - 1 + 1 ELSE 0
        /\ \A i \in 1 .. Len(bs) - 1 - 1 + 1 : cs[i] = bs[1 + i - 1]
    BY <2>1, <1>2, SubSeqProperties
  <2> HIDE DEF cs
  <2>3. Len(bs) - 1 - 1 + 1 = Len(bs) - 1 /\ 1 <= Len(bs) - 1
    BY <1>2
  <2>4. \A i \in 1 .. Len(bs) - 1 : 1 + i - 1 = i
    BY <1>2
  <2> QED BY <2>2, <2>3, <2>4
<1> HIDE DEF cs
<1>4. cs # <<>> /\ Len(cs) \in Nat \ {0}
  BY <1>2, <1>3
<1>5. \A i \in 1 .. Len(cs) : IsBlock(cs[i]) /\ (cs[i].kind = "function" <=> i = 1) /\ ~Shut(cs[i])
  BY <1>2, <1>3 DEF Nested
<1>6. cs[1].opened
  BY <1>4, <1>5 DEF Shut
<1>7. 2 * Len(bs) - 3 = 2 * Len(cs) - 1 /\ ~Shut(cs[Len(cs)])
  BY <1>2, <1>3, <1>4, <1>5
<1>8. Nested(cs, 2 * Len(bs) - 3)
  BY <1>3, <1>4, <1>5, <1>6, <1>7 DEF Nested
<1> QED BY <1>2, <1>3, <1>4, <1>7, <1>8 DEF cs

LEMMA FunctionBlock ==
  ASSUME NEW params \in Seq(ParamSet)
  PROVE  Nested(<<Block("function", params, TRUE)>>, 1)
<1> DEFINE b == Block("function", params, TRUE)
<1>1. IsBlock(b) /\ ~Shut(b) /\ b.kind = "function" /\ b.opened
  BY DEF IsBlock, Block, Shut
<1> HIDE DEF b
<1>2. /\ <<b>> \in Seq({b}) /\ Len(<<b>>) = 1 /\ <<b>>[1] = b /\ <<b>> # <<>>
  OBVIOUS
<1> DEFINE bs == <<b>>
<1>3. /\ \A i \in 1 .. Len(bs) : i = 1 /\ bs[i] = b
      /\ \A i \in 1 .. Len(bs) - 1 : FALSE
  BY <1>2
<1>4. bs[1] = b /\ bs[Len(bs)] = b /\ 2 * Len(bs) - 1 = 1 /\ bs # <<>> /\ bs \in Seq({b})
  BY <1>2
<1> HIDE DEF bs
<1>5. Nested(bs, 1)
  BY <1>1, <1>3, <1>4 DEF Nested
<1> QED BY <1>5 DEF bs, b
-----------------------------------------------------------------------------
(* The parser: what the checks of an expression have established *)

\* When no error was found no check has failed.
LEMMA FirstErrorFree ==
  ASSUME NEW checks, DOMAIN checks \in SUBSET Nat,
         \A i \in DOMAIN checks : checks[i][1] => checks[i][2] # NoError,
         FirstError(checks) = NoError
  PROVE  \A i \in DOMAIN checks : ~checks[i][1]
<1> DEFINE failed == {i \in DOMAIN checks : checks[i][1]}
<1> SUFFICES ASSUME failed # {} PROVE FALSE
  OBVIOUS
<1>1. \E i \in failed : \A j \in failed : i <= j
  BY LeastExists
<1> DEFINE first == CHOOSE i \in failed : \A j \in failed : i <= j
<1>2. first \in failed
  BY <1>1
<1>3. FirstError(checks) = checks[first][2]
  BY DEF FirstError
<1> QED BY <1>2, <1>3

\* A name that was found, by a number that is on the stack.
Resolved(k) == k \in VariableKeys /\ k[2] \in OpenScopes

\* Numbers of open scopes are positive and no key carries 0.
StackTyped == scope_counter \in Nat /\ scope_stack \in Seq(Nat \ {0})
NoKeyOfNoScope == \A k \in VariableKeys : k[2] # 0

\* A search that succeeds ends in an open scope.
LEMMA FoundIsResolved ==
  ASSUME StackTyped, NoKeyOfNoScope, NEW n, Find(n) # S!NoKey
  PROVE  Resolved(Find(n))
<1> DEFINE hits == S!Hits(n, Len(scope_stack))
<1>1. hits # {} /\ hits \in SUBSET (0 .. Len(scope_stack)) /\ Len(scope_stack) \in Nat
  BY DEF Find, S!search_variable_in_scopes, S!Hits, StackTyped
<1>2. \E i \in hits : \A j \in hits : j <= i
  BY <1>1, GreatestExists
<1> DEFINE top == CHOOSE i \in hits : \A j \in hits : j <= i
<1>3. top \in hits
  BY <1>2
<1>4. Find(n) = S!VarKey(n, S!ScopeAt(top), function)
  BY <1>1 DEF Find, S!search_variable_in_scopes
<1> HIDE DEF top
<1>5. /\ top \in 0 .. Len(scope_stack)
      /\ S!VarKey(n, S!ScopeAt(top), function) \in VariableKeys
  BY <1>3 DEF S!Hits, S!DeclaredIn
<1>6. S!VarKey(n, S!ScopeAt(top), function)[2] = S!ScopeAt(top)
  BY DEF S!VarKey
<1>7. S!ScopeAt(top) # 0
  BY <1>5, <1>6 DEF NoKeyOfNoScope
<1>8. top \in DOMAIN scope_stack /\ S!ScopeAt(top) = scope_stack[top]
  BY <1>5, <1>7 DEF S!ScopeAt, StackTyped
<1>9. S!ScopeAt(top) \in OpenScopes
  BY <1>8 DEF OpenScopes, ToSet
<1> QED BY <1>4, <1>5, <1>6, <1>9 DEF Resolved

\* What becomes of an expression without an error: each identifier node is
\* resolved, and its own name, but for a literal's, is resolved, a
\* function's, or that of an operator or of a built-in function.
Known(x) == x.err = NoError => \A k \in x.idents : Resolved(k)
Named(x) ==
  x.err = NoError =>
    /\ x.name \in DOMAIN symtable \cup {OperatorName, BuiltinName}
    /\ x.name \in VariableKeys => Resolved(x.name)

\* The names of operators and functions are no keys of variables.
LEMMA NamesAreNoVariables ==
  /\ OperatorName \notin VariableKeys /\ BuiltinName \notin VariableKeys
  /\ \A f : FunKey(f) \notin VariableKeys
<1>1. \A x : Len(<<x>>) = 1
  OBVIOUS
<1>2. Len(OperatorName) = 1 /\ Len(BuiltinName) = 1 /\ \A f : Len(FunKey(f)) = 1
  BY <1>1 DEF OperatorName, BuiltinName, FunKey
<1> QED BY <1>2 DEF VariableKeys

\* One lemma for each kind of expression.
LEMMA LeafIsKnown ==
  ASSUME StackTyped, NoKeyOfNoScope, NEW e
  PROVE  Known(Leaf(e)) /\ (e.form # "literal" => Named(Leaf(e)))
<1>1. CASE e.form = "literal"
  BY <1>1 DEF Leaf, Node, Known
<1>2. CASE e.form # "literal"
  <2> DEFINE k == Find(e.name)
  <2>1. Leaf(e) = Node(IF k = S!NoKey THEN UNDEF ELSE NoError, FALSE, TypeOf(k), k, {k}, {k})
    BY <1>2 DEF Leaf, NameNode
  <2> HIDE DEF k
  <2>2. CASE k = S!NoKey
    <3>1. Leaf(e).err # NoError
      BY <2>1, <2>2 DEF Node, UNDEF, NoError
    <3> QED BY <3>1 DEF Known, Named
  <2>3. CASE k # S!NoKey
    <3>1. Leaf(e).idents = {k} /\ Leaf(e).name = k
      BY <2>1 DEF Node
    <3>2. Resolved(k)
      BY <2>3, FoundIsResolved DEF k
    <3>3. k \in DOMAIN symtable
      BY <3>2 DEF Resolved, VariableKeys
    <3> QED BY <3>1, <3>2, <3>3 DEF Known, Named
  <2> QED BY <2>2, <2>3
<1> QED BY <1>1, <1>2

LEMMA CallIsKnown ==
  ASSUME NEW e
  PROVE  Known(Call(e)) /\ Named(Call(e))
<1>1. CASE e.form = "builtin"
  <2>1. Call(e).idents = {} /\ Call(e).name = BuiltinName
    BY <1>1 DEF Call, CallNode, Node
  <2> QED BY <2>1, NamesAreNoVariables DEF Known, Named
<1>2. CASE e.form # "builtin" /\ FunKey(e.name) \in DOMAIN symtable
  <2>1. Call(e).idents = {} /\ Call(e).name = FunKey(e.name)
    BY <1>2 DEF Call, CallNode, Node
  <2> QED BY <2>1, <1>2, NamesAreNoVariables DEF Known, Named
<1>3. CASE e.form # "builtin" /\ FunKey(e.name) \notin DOMAIN symtable
  <2>1. Call(e).err = UNDEF
    BY <1>3 DEF Call, Node
  <2> QED BY <2>1 DEF Known, Named, UNDEF, NoError
<1> QED BY <1>1, <1>2, <1>3

LEMMA OperandIsKnown ==
  ASSUME StackTyped, NoKeyOfNoScope, NEW e
  PROVE  Known(Operand(e)) /\ (e.form # "literal" => Named(Operand(e)))
<1>1. CASE e.form \in {"literal", "name"}
  BY <1>1, LeafIsKnown DEF Operand
<1>2. CASE e.form \notin {"literal", "name"}
  BY <1>2, CallIsKnown DEF Operand
<1> QED BY <1>1, <1>2

LEMMA OperationErrors ==
  ASSUME NEW l, NEW r, NEW type, OperationNode(l, r, type).err = NoError
  PROVE  l.err = NoError /\ r.err = NoError
<1> DEFINE checks == <<Check(l.err), Check(r.err), <<type = NoType, TYPE>> >>
<1>1. FirstError(checks) = NoError
  BY DEF OperationNode, Node
<1>2. DOMAIN checks = 1 .. 3
  OBVIOUS
<1>3. /\ checks[1][1] <=> l.err # NoError
      /\ checks[2][1] <=> r.err # NoError
      /\ checks[1][2] = l.err /\ checks[2][2] = r.err /\ checks[3][2] = TYPE
  BY DEF Check
<1> HIDE DEF checks
<1>4. \A i \in DOMAIN checks : checks[i][1] => checks[i][2] # NoError
  <2>1. TYPE # NoError
    BY DEF TYPE, NoError
  <2>2. \A i \in 1 .. 3 : i = 1 \/ i = 2 \/ i = 3
    OBVIOUS
  <2> QED BY <1>2, <1>3, <2>1, <2>2
<1>5. \A i \in DOMAIN checks : ~checks[i][1]
  <2>1. DOMAIN checks \in SUBSET Nat
    BY <1>2
  <2> QED BY <2>1, <1>1, <1>4, FirstErrorFree
<1> QED BY <1>2, <1>3, <1>5

LEMMA ExpressionIsKnown ==
  ASSUME StackTyped, NoKeyOfNoScope, NEW e
  PROVE  Known(Expression(e)) /\ (e.form # "literal" => Named(Expression(e)))
<1>1. CASE e.form # "operation"
  BY <1>1, OperandIsKnown DEF Expression
<1>2. CASE e.form = "operation"
  <2> DEFINE l == Operand(e.left)
             r == Operand(e.right)
             type == OperationType(e.op, l, r)
  <2>1. Expression(e) = OperationNode(l, r, type)
    BY <1>2 DEF Expression, Joined
  <2>2. Known(l) /\ Known(r)
    BY OperandIsKnown
  <2> HIDE DEF l, r, type
  <2>3. /\ OperationNode(l, r, type).idents = l.idents \cup r.idents
        /\ OperationNode(l, r, type).name = OperatorName
    BY DEF OperationNode, Node
  <2>4. Known(Expression(e))
    BY <2>1, <2>2, <2>3, OperationErrors DEF Known
  <2> QED BY <2>1, <2>3, <2>4, NamesAreNoVariables DEF Named
<1> QED BY <1>1, <1>2
-----------------------------------------------------------------------------
(* The parser: what the checks of a statement have established *)

\* The verdicts that are no acceptance.
ErrorCodes == {Crash, UNDEF, PARAMS, OTHER_ERROR, RETURN, TYPE, INFER, UNUSED, INTERNAL}

LEMMA CodesAreErrors == NoError \notin ErrorCodes
BY DEF NoError, ErrorCodes, Crash, UNDEF, PARAMS, OTHER_ERROR, RETURN, TYPE, INFER,
       UNUSED, INTERNAL

\* No check fires when the sequence has no error: each gives an error's code,
\* or the error it found.
LEMMA NoneFires ==
  ASSUME NEW n \in Nat, NEW checks, DOMAIN checks = 1 .. n,
         \A i \in 1 .. n : checks[i][2] \in ErrorCodes
                             \/ (checks[i][1] <=> checks[i][2] # NoError),
         FirstError(checks) = NoError
  PROVE  \A i \in 1 .. n : ~checks[i][1]
<1>1. DOMAIN checks \in SUBSET Nat
  OBVIOUS
<1>2. \A i \in DOMAIN checks : checks[i][1] => checks[i][2] # NoError
  BY CodesAreErrors
<1> QED BY <1>1, <1>2, FirstErrorFree

\* What a statement that passed its checks has found.
LEMMA DeclarationChecked ==
  ASSUME NEW d, NEW x, VariableError(d, x) = NoError
  PROVE  /\ x.err = NoError
         /\ ~S!DeclaredOutside(d.name)
         /\ S!CurrentKey(d.name) \notin DOMAIN symtable
<1> DEFINE checks == <<
        Check(x.err),
        <<~(d.type = "unknown") /\ ~can_assign_type(d.type, x.type), TYPE>>,
        <<(d.type = "unknown") /\ x.type = "void", TYPE>>,
        <<(d.type = "unknown") /\ x.type \in {"unknown", "null"}, INFER>>,
        <<StringLiteral(x), INFER>>,
        <<S!DeclaredOutside(d.name), OTHER_ERROR>>,
        <<S!CurrentKey(d.name) \in DOMAIN symtable, OTHER_ERROR>> >>
<1>1. FirstError(checks) = NoError
  BY DEF VariableError
<1>2. DOMAIN checks = 1 .. 7
  OBVIOUS
<1>3. /\ checks[1][1] <=> x.err # NoError
      /\ checks[6][1] <=> S!DeclaredOutside(d.name)
      /\ checks[7][1] <=> S!CurrentKey(d.name) \in DOMAIN symtable
  BY DEF Check
<1>4. /\ checks[1][2] = x.err /\ checks[2][2] = TYPE /\ checks[3][2] = TYPE
      /\ checks[4][2] = INFER /\ checks[5][2] = INFER
      /\ checks[6][2] = OTHER_ERROR /\ checks[7][2] = OTHER_ERROR
  BY DEF Check
<1> HIDE DEF checks
<1>5. \A i \in 1 .. 7 : checks[i][2] \in ErrorCodes
                          \/ (checks[i][1] <=> checks[i][2] # NoError)
  <2>1. \A i \in 1 .. 7 : i = 1 \/ i = 2 \/ i = 3 \/ i = 4 \/ i = 5 \/ i = 6 \/ i = 7
    OBVIOUS
  <2> QED BY <2>1, <1>3, <1>4 DEF ErrorCodes
<1>6. \A i \in 1 .. 7 : ~checks[i][1]
  BY <1>1, <1>2, <1>5, NoneFires
<1> QED BY <1>3, <1>6

LEMMA AssignmentChecked ==
  ASSUME NEW k, NEW x,
         FirstError(<< <<k = S!NoKey, UNDEF>>, Check(x.err), <<StringLiteral(x), INFER>>,
                       <<~can_assign_type(TypeOf(k), x.type), TYPE>> >>) = NoError
  PROVE  x.err = NoError /\ k # S!NoKey
<1> DEFINE checks == << <<k = S!NoKey, UNDEF>>, Check(x.err), <<StringLiteral(x), INFER>>,
                        <<~can_assign_type(TypeOf(k), x.type), TYPE>> >>
<1>1. FirstError(checks) = NoError /\ DOMAIN checks = 1 .. 4
  OBVIOUS
<1>2. /\ checks[1][1] <=> k = S!NoKey
      /\ checks[2][1] <=> x.err # NoError
      /\ checks[1][2] = UNDEF /\ checks[2][2] = x.err
      /\ checks[3][2] = INFER /\ checks[4][2] = TYPE
  BY DEF Check
<1> HIDE DEF checks
<1>3. \A i \in 1 .. 4 : checks[i][2] \in ErrorCodes
                          \/ (checks[i][1] <=> checks[i][2] # NoError)
  <2>1. \A i \in 1 .. 4 : i = 1 \/ i = 2 \/ i = 3 \/ i = 4
    OBVIOUS
  <2> QED BY <2>1, <1>2 DEF ErrorCodes
<1>4. \A i \in 1 .. 4 : ~checks[i][1]
  BY <1>1, <1>3, NoneFires
<1> QED BY <1>2, <1>4

\* A condition without an error is no literal: no literal has its type.
LEMMA ConditionChecked ==
  ASSUME NEW c \in Menus[menu].conditions, menu \in DOMAIN Menus,
         ConditionError(c, Expression(c.condition)) = NoError
  PROVE  Expression(c.condition).err = NoError /\ c.condition.form # "literal"
<1> DEFINE x == Expression(c.condition)
<1> DEFINE checks == <<Check(x.err),
               <<x.type # "bool" /\ ~is_nullable(x.type), TYPE>>,
               <<c.pipe \in Functions /\ FunKey(c.pipe) \in DOMAIN symtable, OTHER_ERROR>> >>
<1>1. FirstError(checks) = NoError /\ DOMAIN checks = 1 .. 3
  BY DEF ConditionError
<1>2. c.condition.form = "literal" => x.type \in LiteralTypes
  BY MenusAssumption DEF Expression, Operand, Leaf, Node
<1> HIDE DEF x
<1>3. /\ checks[1][1] <=> x.err # NoError
      /\ checks[2][1] <=> (x.type # "bool" /\ ~is_nullable(x.type))
      /\ checks[1][2] = x.err /\ checks[2][2] = TYPE /\ checks[3][2] = OTHER_ERROR
  BY DEF Check
<1> HIDE DEF checks
<1>4. \A i \in 1 .. 3 : checks[i][2] \in ErrorCodes
                          \/ (checks[i][1] <=> checks[i][2] # NoError)
  <2>1. \A i \in 1 .. 3 : i = 1 \/ i = 2 \/ i = 3
    OBVIOUS
  <2> QED BY <2>1, <1>3 DEF ErrorCodes
<1>5. \A i \in 1 .. 3 : ~checks[i][1]
  BY <1>1, <1>4, NoneFires
<1>6. x.err = NoError /\ (x.type = "bool" \/ is_nullable(x.type))
  BY <1>3, <1>5
<1>7. x.type \notin LiteralTypes
  BY <1>6 DEF is_nullable, NullableTypes, LiteralTypes
<1> QED BY <1>2, <1>6, <1>7 DEF x
-----------------------------------------------------------------------------
(* The parser: the table *)

\* How an entry or a mark changes the keys.
LEMMA TableGrows ==
  ASSUME NEW t, NEW keys, NEW key, NEW s
  PROVE  /\ DOMAIN Marked(t, keys) = DOMAIN t
         /\ DOMAIN Inserted(t, key, s) = DOMAIN t \cup {key}
BY DEF Marked, Inserted

LEMMA KeysMarked ==
  ASSUME DOMAIN symtable' = DOMAIN symtable
  PROVE  VariableKeys' = VariableKeys
BY DEF VariableKeys

LEMMA KeysAreThree ==
  ASSUME NEW n
  PROVE  Len(S!CurrentKey(n)) = 3 /\ S!CurrentKey(n)[2] = S!current_scope_id
<1>1. \A x, y, z : Len(<<x, y, z>>) = 3 /\ <<x, y, z>>[2] = y
  OBVIOUS
<1> QED BY <1>1 DEF S!CurrentKey, S!VarKey

LEMMA KeysEntered ==
  ASSUME NEW n, DOMAIN symtable' = DOMAIN symtable \cup {S!CurrentKey(n)}
  PROVE  VariableKeys' = VariableKeys \cup {S!CurrentKey(n)}
BY KeysAreThree DEF VariableKeys
-----------------------------------------------------------------------------
(* The parser: its invariant *)

\* The program is one of a menu; the scopes are those of the open blocks; and
\* every identifier of the tree stands in the scope its key names.
ProgramInv ==
  /\ menu \in DOMAIN Menus /\ function \in Functions
  /\ headers \in Seq(Menus[menu].headers)
  /\ begun \in 0 .. Len(headers) /\ (begun = 0 => blocks = <<>>)

ScopeInv == StackTyped /\ NoKeyOfNoScope /\ Nested(blocks, Len(scope_stack))

\* The key of a variable carries the number of a scope around the node.
InScope(id) ==
  /\ id.name \in DOMAIN symtable \cup {OperatorName, BuiltinName}
  /\ id.name \in VariableKeys => id.name[2] \in id.within

NamesInv == \A id \in identifiers : InScope(id)

\* The invariant.
ParserInv == ProgramInv /\ ScopeInv /\ NamesInv

\* It holds at the start and after every way of stopping.
LEMMA ParserStarts == ParserInit => ParserInv /\ S!ScopesInit
<1> SUFFICES ASSUME ParserInit PROVE ParserInv /\ S!ScopesInit
  OBVIOUS
<1>1. DOMAIN symtable = {}
  BY DEF ParserInit
<1>2. VariableKeys = {}
  BY <1>1 DEF VariableKeys
<1>3. ProgramInv
  BY DEF ParserInit, ProgramInv
<1>4. Nested(<<>>, 0)
  <2>1. <<>> \in Seq({}) /\ Len(<<>>) = 0
    OBVIOUS
  <2> QED BY <2>1 DEF Nested
<1>5. StackTyped /\ Len(scope_stack) = 0 /\ blocks = <<>>
  BY DEF ParserInit, StackTyped
<1>6. ScopeInv
  BY <1>2, <1>4, <1>5 DEF ScopeInv, NoKeyOfNoScope
<1>7. NamesInv
  BY DEF ParserInit, NamesInv
<1>8. S!ScopesInit
  BY <1>2 DEF ParserInit, S!ScopesInit
<1> QED BY <1>3, <1>6, <1>7, <1>8 DEF ParserInv

\* error_exit, a crash, or nothing at all.
LEMMA EndedKeeps ==
  ASSUME ParserInv,
         UNCHANGED <<scope_stack, scope_counter, function, symtable, headers, begun,
                     blocks, identifiers, menu>>
  PROVE  ParserInv' /\ UNCHANGED S!scopeVars
<1>1. VariableKeys' = VariableKeys
  BY DEF VariableKeys
<1>2. UNCHANGED S!scopeVars
  BY <1>1 DEF S!scopeVars
<1>3. ProgramInv'
  BY DEF ParserInv, ProgramInv
<1>4. ScopeInv'
  BY <1>1 DEF ParserInv, ScopeInv, StackTyped, NoKeyOfNoScope, Nested
<1>5. NamesInv'
  BY <1>1 DEF ParserInv, NamesInv, InScope
<1> QED BY <1>2, <1>3, <1>4, <1>5 DEF ParserInv

LEMMA StopKeeps ==
  ASSUME ParserInv, NEW v \in ErrorCodes, Stop(v)
  PROVE  ParserInv' /\ UNCHANGED S!scopeVars
BY EndedKeeps DEF Stop

\* What a statement of the tree needs: its identifiers in scope, and no key of
\* scope 0.
LEMMA NamesKept ==
  ASSUME \A id \in identifiers' : InScope(id), DOMAIN symtable \subseteq DOMAIN symtable'
  PROVE  NamesInv'
<1>1. ASSUME NEW id \in identifiers'
      PROVE  /\ id.name \in DOMAIN symtable' \cup {OperatorName, BuiltinName}
             /\ id.name \in VariableKeys' => id.name[2] \in id.within
  <2>1. id.name \in DOMAIN symtable \cup {OperatorName, BuiltinName}
    BY DEF InScope
  <2>2. Len(OperatorName) # 3 /\ Len(BuiltinName) # 3
    <3>1. \A x : Len(<<x>>) = 1
      OBVIOUS
    <3> QED BY <3>1 DEF OperatorName, BuiltinName
  <2>3. id.name \in VariableKeys' => id.name \in VariableKeys
    BY <2>1, <2>2 DEF VariableKeys
  <2> QED BY <2>1, <2>3 DEF InScope
<1>2. OperatorName' = OperatorName /\ BuiltinName' = BuiltinName
  BY DEF OperatorName, BuiltinName
<1> QED BY <1>1, <1>2 DEF NamesInv, InScope

\* An open block has an open scope, whose number is not that of no scope.
LEMMA InAScope ==
  ASSUME ScopeInv, blocks # <<>>
  PROVE  /\ scope_stack # <<>> /\ Len(scope_stack) \in Nat \ {0}
         /\ S!current_scope_id = scope_stack[Len(scope_stack)]
         /\ S!current_scope_id \in Nat \ {0}
<1>1. PICK R : blocks \in Seq(R)
  BY DEF ScopeInv, Nested
<1>2. Len(blocks) \in Nat \ {0} /\ Len(scope_stack) \in Nat
  BY <1>1 DEF ScopeInv, StackTyped
<1>3. Len(blocks) = 1 => ~Shut(blocks[Len(blocks)])
  <2>1. Len(blocks) = 1 => blocks[1].opened /\ blocks[1].kind = "function"
    BY <1>2 DEF ScopeInv, Nested
  <2> QED BY <2>1 DEF Shut
<1>4. Len(scope_stack) = 2 * Len(blocks) - IF Shut(blocks[Len(blocks)]) THEN 3 ELSE 1
  BY DEF ScopeInv, Nested
<1>5. Len(scope_stack) # 0
  BY <1>2, <1>3, <1>4
<1>6. scope_stack # <<>> /\ Len(scope_stack) \in 1 .. Len(scope_stack)
  BY <1>2, <1>5
<1>7. S!current_scope_id = scope_stack[Len(scope_stack)]
  BY <1>6 DEF S!current_scope_id
<1> QED BY <1>2, <1>5, <1>6, <1>7 DEF ScopeInv, StackTyped

LEMMA KeysKept ==
  ASSUME ScopeInv, blocks # <<>>,
         \/ DOMAIN symtable' = DOMAIN symtable
         \/ \E n \in Identifiers : DOMAIN symtable' = DOMAIN symtable \cup {S!CurrentKey(n)}
  PROVE  NoKeyOfNoScope'
<1>1. CASE DOMAIN symtable' = DOMAIN symtable
  BY <1>1, KeysMarked DEF ScopeInv, NoKeyOfNoScope
<1>2. ASSUME NEW n \in Identifiers, DOMAIN symtable' = DOMAIN symtable \cup {S!CurrentKey(n)}
      PROVE  NoKeyOfNoScope'
  <2>1. VariableKeys' = VariableKeys \cup {S!CurrentKey(n)}
    BY <1>2, KeysEntered
  <2>2. S!CurrentKey(n)[2] # 0
    BY InAScope, KeysAreThree
  <2> QED BY <2>1, <2>2 DEF ScopeInv, NoKeyOfNoScope
<1> QED BY <1>1, <1>2

\* A statement without blocks is one more in the innermost block.
LEMMA AppendedIs ==
  ASSUME NEW depth, Nested(blocks, depth), AtStatement, NEW code
  PROVE  /\ Nested(Appended(code), depth)
         /\ Appended(code) # <<>>
         /\ Len(Appended(code)) = Len(blocks)
         /\ ~Shut(Appended(code)[Len(blocks)])
<1>1. PICK R : blocks \in Seq(R)
  BY DEF Nested
<1>2. blocks # <<>> /\ Len(blocks) \in Nat \ {0} /\ Len(blocks) \in 1 .. Len(blocks)
  BY <1>1 DEF AtStatement
<1> DEFINE n == Len(blocks)
           b == [blocks[n] EXCEPT !.code = @ \o code, !.empty = FALSE]
<1>3. IsBlock(blocks[n]) /\ blocks[n].opened /\ blocks[n].kind # "after"
  BY <1>2 DEF Nested, AtStatement, Top
<1>4. /\ DOMAIN b = DOMAIN blocks[n]
      /\ b.kind = blocks[n].kind /\ b.todo = blocks[n].todo /\ b.opened = blocks[n].opened
  BY <1>3 DEF IsBlock
<1>5. Appended(code) = [blocks EXCEPT ![n] = b]
  BY <1>1, <1>2 DEF Appended
<1> HIDE DEF b
<1>6. IsBlock(b) /\ ~Shut(b)
  BY <1>3, <1>4 DEF IsBlock, Shut
<1>7. ~Shut(blocks[n])
  BY <1>3 DEF Shut
<1>8. depth = 2 * n - IF Shut(b) THEN 3 ELSE 1
  BY <1>2, <1>6, <1>7 DEF Nested
<1>9. Nested([blocks EXCEPT ![n] = b], depth)
  BY <1>2, <1>3, <1>4, <1>6, <1>8, TopBecomes
<1>10. Len([blocks EXCEPT ![n] = b]) = n /\ [blocks EXCEPT ![n] = b][n] = b
  BY <1>1, <1>2
<1> QED BY <1>2, <1>5, <1>6, <1>9, <1>10
-----------------------------------------------------------------------------
(* The parser: a step of each kind *)

LEMMA StatementKeeps ==
  ASSUME ParserInv, AtStatement, NEW names, NEW code,
         \A k \in names : Resolved(k),
         \/ DOMAIN symtable' = DOMAIN symtable
         \/ \E n \in Identifiers : DOMAIN symtable' = DOMAIN symtable \cup {S!CurrentKey(n)},
         identifiers' = identifiers \cup Placed(names, OpenScopes),
         blocks' = Appended(code),
         UNCHANGED <<scope_stack, scope_counter, function, verdict, headers, begun, menu>>
  PROVE  ParserInv'
<1>1. /\ Nested(Appended(code), Len(scope_stack)) /\ Appended(code) # <<>>
      /\ blocks # <<>> /\ verdict = Running
  BY AppendedIs DEF ParserInv, ScopeInv, AtStatement
<1>2. NoKeyOfNoScope'
  BY <1>1, KeysKept DEF ParserInv
<1>3. ScopeInv'
  BY <1>1, <1>2 DEF ParserInv, ScopeInv, StackTyped, Nested
<1>4. ProgramInv'
  BY <1>1 DEF ParserInv, ProgramInv
<1>6. NamesInv'
  <2>1. ASSUME NEW id \in Placed(names, OpenScopes) PROVE InScope(id)
    <3>1. PICK k \in names : id = [name |-> k, in |-> begun, within |-> OpenScopes]
      BY DEF Placed
    <3>2. id.name = k /\ id.within = OpenScopes
      BY <3>1
    <3>3. k \in DOMAIN symtable /\ k[2] \in OpenScopes
      BY DEF Resolved, VariableKeys
    <3> QED BY <3>2, <3>3 DEF InScope
  <2>2. \A id \in identifiers' : InScope(id)
    BY <2>1 DEF ParserInv, NamesInv
  <2> QED BY <2>2, NamesKept
<1> QED BY <1>3, <1>4, <1>6 DEF ParserInv

\* Simple, where the table keeps its keys.
LEMMA SimpleKeeps ==
  ASSUME ParserInv, AtStatement, NEW err, NEW keys, NEW names, NEW code,
         Simple(err, Marked(symtable, keys), names, code),
         err = NoError => \A k \in names : Resolved(k)
  PROVE  ParserInv' /\ UNCHANGED S!scopeVars
<1>1. CASE err # NoError
  <2>1. StopAt(err)
    BY <1>1 DEF Simple
  <2> QED BY <1>1, <2>1, EndedKeeps DEF StopAt, Accepted
<1>2. CASE err = NoError
  <2>1. DOMAIN symtable' = DOMAIN symtable
    BY <1>2, TableGrows DEF Simple
  <2>2. ParserInv'
    BY <1>2, <2>1, StatementKeeps DEF Simple
  <2>3. VariableKeys' = VariableKeys
    BY <2>1, KeysMarked
  <2>4. UNCHANGED <<scope_stack, scope_counter, function>>
    BY <1>2 DEF Simple
  <2> QED BY <2>2, <2>3, <2>4 DEF S!scopeVars
<1> QED BY <1>1, <1>2

\* Every step enters, fills or leaves scopes as Scopes does, or leaves them.
Scoping == [S!ScopesNext]_(S!scopeVars)

\* One lemma for each action of the parser.
LEMMA DeclareVariableKeeps ==
  ASSUME ParserInv, NEW d \in Menus[menu].declarations, DeclareVariable(d)
  PROVE  ParserInv' /\ Scoping
<1> DEFINE x == Expression(d.init)
           key == S!CurrentKey(d.name)
<1>1. AtStatement /\ blocks # <<>> /\ verdict = Running
  BY DEF DeclareVariable, NewStatement, AtStatement
<1>2. PICK garbage \in BOOLEAN :
        Simple(VariableError(d, x),
               Inserted(Marked(symtable, x.marks), key,
                 Variable("variable", IF d.type = "unknown" THEN x.type ELSE d.type,
                          garbage, S!current_scope_id)),
               x.idents, <<>>)
  BY DEF DeclareVariable
<1>3. d.name \in Identifiers
  BY MenusAssumption DEF ParserInv, ProgramInv
<1>4. Known(x)
  BY ExpressionIsKnown DEF ParserInv, ScopeInv
<1> HIDE DEF x, key
<1>5. CASE VariableError(d, x) # NoError
  <2>1. StopAt(VariableError(d, x))
    BY <1>2, <1>5 DEF Simple
  <2>2. ParserInv' /\ UNCHANGED S!scopeVars
    BY <1>5, <2>1, EndedKeeps DEF StopAt, Accepted
  <2> QED BY <2>2 DEF Scoping
<1>6. CASE VariableError(d, x) = NoError
  <2>1. x.err = NoError /\ ~S!DeclaredOutside(d.name) /\ key \notin DOMAIN symtable
    BY <1>6, DeclarationChecked DEF key
  <2>2. \A k \in x.idents : Resolved(k)
    BY <1>4, <2>1 DEF Known
  <2>3. DOMAIN symtable' = DOMAIN symtable \cup {key}
    <3> DEFINE s == Variable("variable", IF d.type = "unknown" THEN x.type ELSE d.type,
                             garbage, S!current_scope_id)
    <3>1. symtable' = Inserted(Marked(symtable, x.marks), key, s)
      BY <1>2, <1>6 DEF Simple
    <3> HIDE DEF s
    <3>2. DOMAIN Marked(symtable, x.marks) = DOMAIN symtable
      BY TableGrows
    <3>3. DOMAIN Inserted(Marked(symtable, x.marks), key, s) =
            DOMAIN Marked(symtable, x.marks) \cup {key}
      BY TableGrows
    <3> QED BY <3>1, <3>2, <3>3
  <2>4. /\ identifiers' = identifiers \cup Placed(x.idents, OpenScopes)
        /\ blocks' = Appended(<<>>)
        /\ UNCHANGED <<scope_stack, scope_counter, function, verdict, headers, begun, menu>>
    BY <1>2, <1>6 DEF Simple
  <2>5. ParserInv'
    BY <1>1, <1>3, <2>2, <2>3, <2>4, StatementKeeps DEF key
  <2>6. VariableKeys' = VariableKeys \cup {key}
    BY <2>3, KeysEntered DEF key
  <2>7. scope_stack # <<>>
    BY <1>1, InAScope DEF ParserInv
  <2>8. ~S!DeclaredIn(d.name, S!current_scope_id)
    BY <2>1 DEF key, S!CurrentKey, S!DeclaredIn, VariableKeys
  <2>9. S!DeclareVariable(d.name)
    BY <2>1, <2>4, <2>6, <2>7, <2>8 DEF S!DeclareVariable, S!Enter, key
  <2>10. S!ScopesNext
    BY <1>3, <2>9 DEF S!ScopesNext
  <2> QED BY <2>5, <2>10 DEF Scoping
<1> QED BY <1>5, <1>6

LEMMA AssignVariableKeeps ==
  ASSUME ParserInv, NEW a, AssignVariable(a)
  PROVE  ParserInv' /\ UNCHANGED S!scopeVars
<1> DEFINE k == Find(a.name)
           x == Expression(a.value)
           err == FirstError(<< <<k = S!NoKey, UNDEF>>, Check(x.err),
                                <<StringLiteral(x), INFER>>,
                                <<~can_assign_type(TypeOf(k), x.type), TYPE>> >>)
<1>1. AtStatement
  BY DEF AssignVariable, NewStatement
<1>2. Simple(err, Marked(symtable, x.marks \cup {k}), x.idents \cup {k}, <<>>)
  BY DEF AssignVariable
<1>3. err = NoError => x.err = NoError /\ k # S!NoKey
  BY AssignmentChecked
<1>4. Known(x) /\ (k # S!NoKey => Resolved(k))
  BY ExpressionIsKnown, FoundIsResolved DEF ParserInv, ScopeInv
<1> HIDE DEF k, x, err
<1>5. err = NoError => \A n \in x.idents \cup {k} : Resolved(n)
  BY <1>3, <1>4 DEF Known
<1> QED BY <1>1, <1>2, <1>5, SimpleKeeps

LEMMA DiscardKeeps ==
  ASSUME ParserInv, NEW e, Discard(e)
  PROVE  ParserInv' /\ UNCHANGED S!scopeVars
<1> DEFINE x == Expression(e)
<1>1. AtStatement /\ Simple(x.err, Marked(symtable, x.marks), x.idents, <<>>)
  BY DEF Discard, NewStatement
<1>2. Known(x)
  BY ExpressionIsKnown DEF ParserInv, ScopeInv
<1> HIDE DEF x
<1>3. x.err = NoError => \A n \in x.idents : Resolved(n)
  BY <1>2 DEF Known
<1> QED BY <1>1, <1>3, SimpleKeeps

LEMMA CallStatementKeeps ==
  ASSUME ParserInv, NEW e, CallStatement(e)
  PROVE  ParserInv' /\ UNCHANGED S!scopeVars
<1> DEFINE x == Call(e)
           err == FirstError(<<Check(x.err), <<e.form = "call" /\ x.type # "void", PARAMS>> >>)
<1>1. AtStatement /\ Simple(err, Marked(symtable, x.marks), {}, <<>>)
  BY DEF CallStatement, NewStatement
<1> HIDE DEF x, err
<1>2. err = NoError => \A n \in {} : Resolved(n)
  OBVIOUS
<1> QED BY <1>1, <1>2, SimpleKeeps

LEMMA ReturnKeeps ==
  ASSUME ParserInv, NEW e, Return(e)
  PROVE  ParserInv' /\ UNCHANGED S!scopeVars
<1> DEFINE x == Returned(e)
           node == << [t |-> "return", type |-> x.type, literal |-> x.literal,
                       bare |-> e = NoValue] >>
<1>1. AtStatement /\ Simple(x.err, Marked(symtable, x.marks), x.idents, node)
  BY DEF Return, NewStatement
<1>2. Known(x)
  <2>1. CASE e = NoValue
    BY <2>1 DEF Returned, Node, Known
  <2>2. CASE e # NoValue
    BY <2>2, ExpressionIsKnown DEF Returned, ParserInv, ScopeInv
  <2> QED BY <2>1, <2>2
<1> HIDE DEF x, node
<1>3. x.err = NoError => \A n \in x.idents : Resolved(n)
  BY <1>2 DEF Known
<1> QED BY <1>1, <1>3, SimpleKeeps

\* The header's name is entered; parameters are entered one by one.
LEMMA DeclareFunctionKeeps ==
  ASSUME ParserInv, NEW h \in Menus[menu].headers, DeclareFunction(h)
  PROVE  ParserInv' /\ Scoping
<1>1. CASE Stop(OTHER_ERROR)
  <2>1. OTHER_ERROR \in ErrorCodes
    BY DEF ErrorCodes
  <2> QED BY <1>1, <2>1, StopKeeps DEF Scoping
<1>2. CASE ~Stop(OTHER_ERROR)
  <2> DEFINE s == [kind |-> "function", type |-> h.type, used |-> h.name = "main",
                   home |-> 0, params |-> [i \in DOMAIN h.params |-> h.params[i].type]]
  <2>1. /\ S!Room(1) /\ scope_counter' = scope_counter + 1 /\ function' = h.name
        /\ symtable' = Inserted(symtable, FunKey(h.name), s)
        /\ headers' = Append(headers, h) /\ begun = 0 /\ verdict = Running
        /\ UNCHANGED <<scope_stack, verdict, begun, blocks, identifiers, statements, menu>>
    BY <1>2 DEF DeclareFunction
  <2> HIDE DEF s
  <2>2. h.name \in Functions
    BY MenusAssumption DEF ParserInv, ProgramInv
  <2>3. DOMAIN symtable' = DOMAIN symtable \cup {FunKey(h.name)}
    BY <2>1, TableGrows
  <2>4. Len(FunKey(h.name)) # 3
    <3>1. \A x : Len(<<x>>) = 1
      OBVIOUS
    <3> QED BY <3>1 DEF FunKey
  <2>5. VariableKeys' = VariableKeys
    BY <2>3, <2>4 DEF VariableKeys
  <2>6. blocks = <<>> /\ Len(scope_stack) = 0 /\ scope_stack = <<>>
    BY <2>1 DEF ParserInv, ProgramInv, ScopeInv, Nested, StackTyped
  <2>7. ProgramInv'
    <3>1. headers' \in Seq(Menus[menu].headers) /\ begun \in 0 .. Len(headers')
      BY <2>1 DEF ParserInv, ProgramInv
    <3> QED BY <2>1, <2>2, <3>1 DEF ParserInv, ProgramInv
  <2>8. ScopeInv'
    <3>1. StackTyped' /\ NoKeyOfNoScope'
      BY <2>1, <2>5 DEF ParserInv, ScopeInv, StackTyped, NoKeyOfNoScope
    <3> QED BY <2>1, <3>1 DEF ParserInv, ScopeInv, Nested
  <2>9. NamesInv'
    <3>1. \A id \in identifiers' : InScope(id)
      BY <2>1 DEF ParserInv, NamesInv
    <3> QED BY <2>3, <3>1, NamesKept
  <2>11. S!SkipFunction(h.name)
    BY <2>1, <2>5, <2>6 DEF S!SkipFunction
  <2>12. S!ScopesNext
    BY <2>2, <2>11 DEF S!ScopesNext
  <2> QED BY <2>7, <2>8, <2>9, <2>12 DEF ParserInv, Scoping
<1> QED BY <1>1, <1>2

LEMMA BeginFunctionKeeps ==
  ASSUME ParserInv, BeginFunction
  PROVE  ParserInv' /\ Scoping
<1>1. CASE Stop(Crash)
  <2>1. Crash \in ErrorCodes
    BY DEF ErrorCodes
  <2> QED BY <1>1, <2>1, StopKeeps DEF Scoping
<1>2. CASE ~Stop(Crash)
  <2> DEFINE h == headers[begun + 1]
  <2>1. /\ begun < Len(headers) /\ blocks = <<>> /\ verdict = Running
        /\ UNCHANGED <<symtable, verdict, headers, identifiers, menu>>
        /\ S!OpenFunction(h.name) /\ begun' = begun + 1
        /\ blocks' = <<Block("function", h.params, TRUE)>>
    BY <1>2 DEF BeginFunction
  <2>2. h \in Menus[menu].headers /\ Len(headers) \in Nat
    <3>1. begun + 1 \in 1 .. Len(headers)
      BY <2>1 DEF ParserInv, ProgramInv
    <3> QED BY <3>1 DEF ParserInv, ProgramInv
  <2>3. h.name \in Functions /\ h.params \in Seq(ParamSet)
    BY <2>2, MenusAssumption DEF ParserInv, ProgramInv, ParamSet
  <2> HIDE DEF h
  <2>4. /\ scope_stack = <<>> /\ function' = h.name /\ scope_counter' = scope_counter + 1
        /\ scope_stack' = scope_stack \o [i \in 1 .. 1 |-> scope_counter + i]
    BY <2>1 DEF S!OpenFunction, S!EnterScopes
  <2>5. scope_stack' \in Seq(Nat \ {0}) /\ Len(scope_stack') = 1
    <3> DEFINE new == [i \in 1 .. 1 |-> scope_counter + i]
    <3>1. new \in Seq(Nat \ {0}) /\ Len(new) = 1
      BY DEF ParserInv, ScopeInv, StackTyped
    <3> HIDE DEF new
    <3>2. scope_stack' = <<>> \o new
      BY <2>4 DEF new
    <3> QED BY <3>1, <3>2
  <2>6. Nested(blocks', 1)
    BY <2>1, <2>3, FunctionBlock
  <2>7. VariableKeys' = VariableKeys
    BY <2>1 DEF VariableKeys
  <2>8. ScopeInv'
    <3>1. StackTyped' /\ NoKeyOfNoScope'
      BY <2>4, <2>5, <2>7 DEF ParserInv, ScopeInv, StackTyped, NoKeyOfNoScope
    <3> QED BY <2>5, <2>6, <3>1 DEF ScopeInv, Nested
  <2>9. ProgramInv'
    <3>1. begun' \in 0 .. Len(headers) /\ begun' # 0
      BY <2>1, <2>2 DEF ParserInv, ProgramInv
    <3> QED BY <2>1, <2>3, <2>4, <3>1 DEF ParserInv, ProgramInv
  <2>10. NamesInv'
    BY <2>1, <2>7 DEF ParserInv, NamesInv, InScope
  <2>12. S!ScopesNext
    BY <2>1, <2>3 DEF S!ScopesNext
  <2> QED BY <2>8, <2>9, <2>10, <2>12 DEF ParserInv, Scoping
<1> QED BY <1>1, <1>2

LEMMA ParseParameterKeeps ==
  ASSUME ParserInv, ParseParameter
  PROVE  ParserInv' /\ Scoping
<1> DEFINE n == Len(blocks)
           p == Head(Top.todo)
           key == S!CurrentKey(p.name)
<1>1. CASE key \in DOMAIN symtable
  <2>1. OTHER_ERROR \in ErrorCodes /\ Stop(OTHER_ERROR)
    BY <1>1 DEF ErrorCodes, ParseParameter
  <2> QED BY <2>1, StopKeeps DEF Scoping
<1>2. CASE key \notin DOMAIN symtable
  <2>1. PICK garbage \in BOOLEAN :
          symtable' = Inserted(symtable, key, Variable("parameter", p.type, garbage, begun))
    BY <1>2 DEF ParseParameter
  <2>2. /\ blocks' = [blocks EXCEPT ![n].todo = Tail(@)]
        /\ blocks # <<>> /\ Top.todo # <<>> /\ verdict = Running
        /\ UNCHANGED <<scope_stack, scope_counter, function, verdict, headers,
                       begun, identifiers, statements, menu>>
    BY <1>2 DEF ParseParameter
  <2>3. PICK R : blocks \in Seq(R)
    BY DEF ParserInv, ScopeInv, Nested
  <2>4. n \in Nat \ {0} /\ n \in 1 .. n /\ IsBlock(Top) /\ Top = blocks[n]
    BY <2>2, <2>3 DEF ParserInv, ScopeInv, Nested, Top
  <2>5. p \in ParamSet /\ Tail(Top.todo) \in Seq(ParamSet)
    BY <2>2, <2>4, HeadTailProperties DEF IsBlock
  <2>6. p.name \in Identifiers
    BY <2>5 DEF ParamSet
  <2> DEFINE b == [Top EXCEPT !.todo = Tail(@)]
  <2>7. /\ DOMAIN b = DOMAIN Top /\ b.todo = Tail(Top.todo)
        /\ b.kind = Top.kind /\ b.opened = Top.opened
    BY <2>4 DEF IsBlock
  <2>8. blocks' = [blocks EXCEPT ![n] = b]
    BY <2>2, <2>3, <2>4
  <2> HIDE DEF b, p, key
  <2>9. IsBlock(b) /\ (Shut(b) <=> Shut(Top)) /\ (Top.kind = "function" => Top.opened)
    <3>1. IsBlock(b)
      BY <2>4, <2>5, <2>7 DEF IsBlock
    <3>2. Shut(b) <=> Shut(Top)
      BY <2>7 DEF Shut
    <3>3. Top.kind = "function" => Top.opened
      BY <2>2, <2>4 DEF ParserInv, ScopeInv, Nested
    <3> QED BY <3>1, <3>2, <3>3
  <2>10. Len(scope_stack) = 2 * n - IF Shut(b) THEN 3 ELSE 1
    BY <2>2, <2>4, <2>9 DEF ParserInv, ScopeInv, Nested
  <2>11. Nested(blocks', Len(scope_stack))
    <3>1. Nested(blocks, Len(scope_stack)) /\ blocks # <<>> /\ Top = blocks[Len(blocks)]
      BY <2>2, <2>4 DEF ParserInv, ScopeInv
    <3>2. /\ b.kind = "function" <=> blocks[Len(blocks)].kind = "function"
          /\ b.kind = "function" => b.opened
      BY <2>7, <2>9, <3>1
    <3>3. Nested([blocks EXCEPT ![Len(blocks)] = b], Len(scope_stack))
      BY <2>9, <2>10, <3>1, <3>2, TopBecomes
    <3> QED BY <2>8, <3>3
  <2>12. DOMAIN symtable' = DOMAIN symtable \cup {key}
    BY <2>1, TableGrows
  <2>13. ScopeInv'
    <3>1. NoKeyOfNoScope'
      BY <2>2, <2>6, <2>12, KeysKept DEF ParserInv, key
    <3>2. StackTyped'
      BY <2>2 DEF ParserInv, ScopeInv, StackTyped
    <3> QED BY <2>2, <2>11, <3>1, <3>2 DEF ScopeInv, Nested
  <2>14. ProgramInv'
    BY <2>2 DEF ParserInv, ProgramInv
  <2>15. NamesInv'
    <3>1. \A id \in identifiers' : InScope(id)
      BY <2>2 DEF ParserInv, NamesInv
    <3> QED BY <2>12, <3>1, NamesKept
  <2>17. S!DeclareLocal(p.name)
    <3>1. VariableKeys' = VariableKeys \cup {key} /\ scope_stack # <<>>
      BY <2>2, <2>12, KeysEntered, InAScope DEF ParserInv, key
    <3> QED BY <2>2, <3>1 DEF S!DeclareLocal, S!Enter, key
  <2>18. S!ScopesNext
    BY <2>6, <2>17 DEF S!ScopesNext
  <2> QED BY <2>13, <2>14, <2>15, <2>18 DEF ParserInv, Scoping
<1> QED BY <1>1, <1>2

LEMMA ConditionKeeps ==
  ASSUME ParserInv, NEW kind \in {"true", "while"}, NEW c \in Menus[menu].conditions,
         Condition(kind, c)
  PROVE  ParserInv' /\ Scoping
<1> DEFINE x == Expression(c.condition)
<1>1. AtStatement /\ blocks # <<>> /\ verdict = Running
  BY DEF Condition, NewStatement, AtStatement
<1>2. PICK garbage \in BOOLEAN :
        IF ConditionError(c, x) # NoError THEN StopAt(ConditionError(c, x))
        ELSE OpenStatement(kind, c, x, garbage)
  BY DEF Condition
<1>3. CASE ConditionError(c, x) # NoError
  <2>1. ParserInv' /\ UNCHANGED S!scopeVars
    BY <1>2, <1>3, EndedKeeps DEF StopAt, Accepted
  <2> QED BY <2>1 DEF Scoping
<1>4. CASE ConditionError(c, x) = NoError
  <2>1. x.err = NoError /\ c.condition.form # "literal"
    BY <1>4, ConditionChecked DEF ParserInv, ProgramInv
  <2>2. /\ \A k \in x.idents : Resolved(k)
        /\ x.name \in DOMAIN symtable \cup {OperatorName, BuiltinName}
        /\ x.name \in VariableKeys => Resolved(x.name)
    BY <2>1, ExpressionIsKnown DEF ParserInv, ScopeInv, Known, Named
  <2> HIDE DEF x
  <2>3. OpenStatement(kind, c, x, garbage)
    BY <1>2, <1>4
  <2> DEFINE piped == c.pipe # NoPipe
             key == S!CurrentKey(c.pipe)
  <2>4. /\ ~piped => DOMAIN symtable' = DOMAIN symtable
        /\ piped => c.pipe \in Identifiers /\ DOMAIN symtable' = DOMAIN symtable \cup {key}
    <3> DEFINE s == Variable("variable", detach_nullable(x.type), garbage, BlockScope)
    <3>1. symtable' = IF piped THEN Inserted(Marked(symtable, x.marks), key, s)
                      ELSE Marked(symtable, x.marks)
      BY <2>3 DEF OpenStatement
    <3>2. c.pipe \in Identifiers \cup {NoPipe}
      BY MenusAssumption DEF ParserInv, ProgramInv
    <3> HIDE DEF s
    <3>3. DOMAIN Marked(symtable, x.marks) = DOMAIN symtable
      BY TableGrows
    <3>4. DOMAIN Inserted(Marked(symtable, x.marks), key, s) =
            DOMAIN Marked(symtable, x.marks) \cup {key}
      BY TableGrows
    <3> QED BY <3>1, <3>2, <3>3, <3>4
  <2>5. /\ blocks' = Append(Appended(<<>>), Block(kind, <<>>, FALSE))
        /\ UNCHANGED <<scope_stack, scope_counter, function, verdict, headers, begun, menu>>
    BY <2>3 DEF OpenStatement
  <2>6. Nested(blocks', Len(scope_stack)) /\ blocks' # <<>>
    <3> DEFINE b == Block(kind, <<>>, FALSE)
               top == Appended(<<>>)
    <3>1. IsBlock(b) /\ b.kind # "function" /\ Shut(b)
      BY DEF IsBlock, Block, Shut
    <3>2. /\ Nested(top, Len(scope_stack)) /\ top # <<>>
          /\ ~Shut(top[Len(top)])
      BY <1>1, AppendedIs DEF ParserInv, ScopeInv
    <3> HIDE DEF b, top
    <3>3. Nested(Append(top, b), Len(scope_stack))
      BY <3>1, <3>2, BlockPushed
    <3>4. Append(top, b) # <<>>
      <4>1. PICK R : top \in Seq(R)
        BY <3>2 DEF Nested
      <4>2. top \in Seq(R \cup {b}) /\ b \in R \cup {b}
        BY <4>1
      <4> QED BY <4>2, AppendProperties
    <3> QED BY <2>5, <3>3, <3>4 DEF b, top
  <2> HIDE DEF key
  <2>7. ScopeInv'
    <3>1. NoKeyOfNoScope'
      BY <1>1, <2>4, KeysKept DEF ParserInv, key
    <3>2. StackTyped'
      BY <2>5 DEF ParserInv, ScopeInv, StackTyped
    <3> QED BY <2>5, <2>6, <3>1, <3>2 DEF ScopeInv, Nested
  <2>8. ProgramInv'
    BY <1>1, <2>5 DEF ParserInv, ProgramInv
  <2>9. NamesInv'
    <3>1. ASSUME NEW k \in x.idents,
                 NEW id, id = [name |-> k, in |-> begun, within |-> OpenScopes]
          PROVE  InScope(id)
      <4>1. id.name = k /\ id.within = OpenScopes
        BY <3>1
      <4>2. k \in DOMAIN symtable /\ k[2] \in OpenScopes
        BY <2>2 DEF Resolved, VariableKeys
      <4> QED BY <4>1, <4>2 DEF InScope
    <3> DEFINE inside == OpenScopes \cup {BlockScope - 1, BlockScope}
    <3>2. ASSUME NEW id, id = [name |-> x.name, in |-> begun, within |-> inside]
          PROVE  InScope(id)
      <4>1. id.name = x.name /\ id.within = inside
        BY <3>2
      <4>2. x.name \in VariableKeys => x.name[2] \in inside
        BY <2>2 DEF Resolved
      <4> QED BY <2>2, <4>1, <4>2 DEF InScope
    <3> HIDE DEF inside
    <3>3. ASSUME NEW id \in identifiers' PROVE InScope(id)
      <4>1. identifiers' = identifiers \cup Placed(x.idents, OpenScopes)
                             \cup IF c.pipe = NoPipe THEN {} ELSE Placed({x.name}, inside)
        BY <2>3 DEF OpenStatement, inside
      <4>2. CASE id \in identifiers
        BY <4>2 DEF ParserInv, NamesInv
      <4>3. CASE id \in Placed(x.idents, OpenScopes)
        BY <4>3, <3>1 DEF Placed
      <4>4. CASE id \in Placed({x.name}, inside)
        BY <4>4, <3>2 DEF Placed
      <4> QED BY <4>1, <4>2, <4>3, <4>4
    <3>4. DOMAIN symtable \subseteq DOMAIN symtable'
      BY <2>4
    <3> QED BY <3>3, <3>4, NamesKept
  <2>11. Scoping
    <3>1. CASE piped
      <4>1. VariableKeys' = VariableKeys \cup {key} /\ scope_stack # <<>>
        BY <1>1, <2>4, <3>1, KeysEntered, InAScope DEF ParserInv, key
      <4>2. S!DeclareLocal(c.pipe)
        BY <2>5, <4>1 DEF S!DeclareLocal, S!Enter, key
      <4>3. S!ScopesNext
        BY <2>4, <3>1, <4>2 DEF S!ScopesNext
      <4> QED BY <4>3 DEF Scoping
    <3>2. CASE ~piped
      <4>1. VariableKeys' = VariableKeys
        BY <2>4, <3>2, KeysMarked
      <4> QED BY <2>5, <4>1 DEF Scoping, S!scopeVars
    <3> QED BY <3>1, <3>2
  <2> QED BY <2>7, <2>8, <2>9, <2>11 DEF ParserInv
<1> QED BY <1>3, <1>4

\* A step between statements: only the scopes and the blocks change.
LEMMA MovedKeeps ==
  ASSUME ParserInv, verdict = Running, blocks # <<>>,
         Nested(blocks', Len(scope_stack')), StackTyped',
         UNCHANGED <<function, symtable, verdict>>, Unchanged
  PROVE  ParserInv' /\ VariableKeys' = VariableKeys
<1>1. VariableKeys' = VariableKeys
  BY DEF VariableKeys
<1>2. ScopeInv'
  BY <1>1 DEF ParserInv, ScopeInv, NoKeyOfNoScope, Nested
<1>3. ProgramInv'
  BY DEF ParserInv, ProgramInv, Unchanged
<1>4. NamesInv'
  BY <1>1 DEF ParserInv, NamesInv, InScope, Unchanged
<1> QED BY <1>1, <1>2, <1>3, <1>4 DEF ParserInv

\* Leaving one or two scopes.
LEMMA ScopesExited ==
  ASSUME StackTyped, NEW k \in 1 .. 2, S!ExitScopes(k)
  PROVE  StackTyped' /\ Len(scope_stack') = Len(scope_stack) - k
<1>1. /\ scope_stack \in Seq(Nat \ {0}) /\ Len(scope_stack) \in Nat /\ Len(scope_stack) >= k
      /\ scope_stack' = SubSeq(scope_stack, 1, Len(scope_stack) - k)
      /\ scope_counter' = scope_counter
  BY DEF StackTyped, S!ExitScopes
<1>2. scope_stack' \in Seq(Nat \ {0}) /\ Len(scope_stack') = Len(scope_stack) - k
  BY <1>1
<1> QED BY <1>1, <1>2 DEF StackTyped

\* Where the next token starts a statement: the innermost block is open.
LEMMA AtStatementIs ==
  ASSUME ParserInv, AtStatement
  PROVE  /\ verdict = Running /\ blocks # <<>> /\ Len(blocks) \in Nat \ {0}
         /\ Top = blocks[Len(blocks)] /\ IsBlock(Top) /\ ~Shut(Top)
         /\ Nested(blocks, Len(scope_stack))
         /\ Len(scope_stack) = 2 * Len(blocks) - 1
         /\ Top.kind = "function" <=> Len(blocks) = 1
<1>1. PICK R : blocks \in Seq(R)
  BY DEF ParserInv, ScopeInv, Nested
<1>2. /\ verdict = Running /\ blocks # <<>> /\ Top = blocks[Len(blocks)]
      /\ Top.opened /\ Top.kind # "after" /\ Len(blocks) \in Nat \ {0}
      /\ Nested(blocks, Len(scope_stack))
  BY <1>1 DEF AtStatement, Top, ParserInv, ScopeInv
<1>3. ~Shut(Top)
  BY <1>2 DEF Shut
<1>4. Len(blocks) \in 1 .. Len(blocks)
  BY <1>2
<1> QED BY <1>2, <1>3, <1>4 DEF Nested

LEMMA EnterBlockKeeps ==
  ASSUME ParserInv, EnterBlock
  PROVE  ParserInv' /\ Scoping
<1>1. CASE ~S!Room(2)
  <2>1. INTERNAL \in ErrorCodes /\ Stop(INTERNAL)
    BY <1>1 DEF ErrorCodes, EnterBlock
  <2> QED BY <2>1, StopKeeps DEF Scoping
<1>2. CASE S!Room(2)
  <2> DEFINE n == Len(blocks)
  <2>1. /\ verdict = Running /\ blocks # <<>> /\ ~Top.opened /\ S!EnterScopes(2)
        /\ blocks' = [blocks EXCEPT ![n].opened = TRUE]
        /\ UNCHANGED <<function, symtable, verdict>> /\ Unchanged
    BY <1>2 DEF EnterBlock
  <2>2. PICK R : blocks \in Seq(R)
    BY DEF ParserInv, ScopeInv, Nested
  <2>3. n \in Nat \ {0} /\ n \in 1 .. n /\ IsBlock(Top) /\ Top = blocks[n] /\ Shut(Top)
        /\ Nested(blocks, Len(scope_stack))
    BY <2>1, <2>2 DEF ParserInv, ScopeInv, Nested, Top, Shut
  <2> DEFINE b == [Top EXCEPT !.opened = TRUE]
  <2>4. /\ DOMAIN b = DOMAIN Top /\ b.todo = Top.todo /\ b.kind = Top.kind /\ b.opened
    BY <2>3 DEF IsBlock
  <2>5. blocks' = [blocks EXCEPT ![n] = b]
    BY <2>1, <2>2, <2>3
  <2>6. b.opened \in BOOLEAN
    BY <2>3 DEF IsBlock
  <2> HIDE DEF b
  <2>7. IsBlock(b) /\ ~Shut(b)
    BY <2>1, <2>3, <2>4, <2>6 DEF IsBlock, Shut
  <2>8. /\ StackTyped' /\ Len(scope_stack') = Len(scope_stack) + 2
        /\ scope_stack # <<>>
    <3> DEFINE new == [i \in 1 .. 2 |-> scope_counter + i]
    <3>1. scope_stack \in Seq(Nat \ {0}) /\ scope_counter \in Nat /\ scope_stack # <<>>
      BY <2>1, InAScope DEF ParserInv, ScopeInv, StackTyped
    <3>2. new \in Seq(Nat \ {0}) /\ Len(new) = 2
      BY <3>1
    <3>3. scope_stack' = scope_stack \o new /\ scope_counter' = scope_counter + 2
      BY <2>1 DEF S!EnterScopes
    <3> HIDE DEF new
    <3>4. /\ scope_stack \o new \in Seq(Nat \ {0})
          /\ Len(scope_stack \o new) = Len(scope_stack) + Len(new)
      BY <3>1, <3>2, ConcatProperties
    <3> QED BY <3>1, <3>2, <3>3, <3>4 DEF StackTyped
  <2>9. Len(scope_stack') = 2 * n - IF Shut(b) THEN 3 ELSE 1
    <3>1. Len(scope_stack) = 2 * n - 3
      BY <2>1, <2>3 DEF Nested
    <3> QED BY <2>3, <2>7, <2>8, <3>1
  <2>10. Nested(blocks', Len(scope_stack'))
    <3>1. /\ b.kind = "function" <=> blocks[Len(blocks)].kind = "function"
          /\ b.kind = "function" => b.opened
      BY <2>3, <2>4
    <3>2. Nested([blocks EXCEPT ![Len(blocks)] = b], Len(scope_stack'))
      BY <2>1, <2>3, <2>7, <2>9, <3>1, TopBecomes
    <3> QED BY <2>5, <3>2
  <2>11. ParserInv' /\ VariableKeys' = VariableKeys
    BY <2>1, <2>8, <2>10, MovedKeeps
  <2>12. S!OpenBlock
    BY <2>1, <2>8, <2>11 DEF S!OpenBlock
  <2>13. S!ScopesNext
    BY <2>12 DEF S!ScopesNext
  <2> QED BY <2>11, <2>13 DEF Scoping
<1> QED BY <1>1, <1>2

LEMMA CloseTrueBlockKeeps ==
  ASSUME ParserInv, CloseTrueBlock
  PROVE  ParserInv' /\ Scoping
<1> DEFINE n == Len(blocks)
<1>1. /\ AtStatement /\ Top.kind = "true" /\ S!ExitScopes(2)
      /\ blocks' = [blocks EXCEPT ![n].kind = "after"]
      /\ UNCHANGED <<function, symtable, verdict>> /\ Unchanged
  BY DEF CloseTrueBlock
<1>2. /\ verdict = Running /\ blocks # <<>> /\ n \in Nat \ {0} /\ n # 1
      /\ Top = blocks[n] /\ IsBlock(Top) /\ Nested(blocks, Len(scope_stack))
      /\ Len(scope_stack) = 2 * n - 1 /\ Top.opened
  BY <1>1, AtStatementIs DEF Shut
<1>3. PICK R : blocks \in Seq(R)
  BY DEF ParserInv, ScopeInv, Nested
<1> DEFINE b == [Top EXCEPT !.kind = "after"]
<1>4. DOMAIN b = DOMAIN Top /\ b.todo = Top.todo /\ b.kind = "after" /\ b.opened = Top.opened
  BY <1>2 DEF IsBlock
<1>5. blocks' = [blocks EXCEPT ![n] = b]
  BY <1>1, <1>2, <1>3
<1> HIDE DEF b
<1>6. IsBlock(b) /\ Shut(b)
  BY <1>2, <1>4 DEF IsBlock, Shut
<1>7. StackTyped' /\ Len(scope_stack') = Len(scope_stack) - 2
  BY <1>1, ScopesExited DEF ParserInv, ScopeInv
<1>8. Len(scope_stack') = 2 * n - IF Shut(b) THEN 3 ELSE 1
  BY <1>2, <1>6, <1>7
<1>9. Nested(blocks', Len(scope_stack'))
  <2>1. /\ b.kind = "function" <=> blocks[Len(blocks)].kind = "function"
        /\ b.kind = "function" => b.opened
    BY <1>1, <1>2, <1>4
  <2>2. Nested([blocks EXCEPT ![Len(blocks)] = b], Len(scope_stack'))
    BY <1>2, <1>6, <1>8, <2>1, TopBecomes
  <2> QED BY <1>5, <2>2
<1>10. ParserInv' /\ VariableKeys' = VariableKeys
  BY <1>1, <1>2, <1>7, <1>9, MovedKeeps
<1>11. S!CloseBlock
  <2>1. Len(scope_stack) >= 3
    BY <1>2
  <2> QED BY <1>1, <1>10, <2>1 DEF S!CloseBlock
<1>12. S!ScopesNext
  BY <1>11 DEF S!ScopesNext
<1> QED BY <1>10, <1>12 DEF Scoping

\* The block around one that ends gets its statement.
LEMMA ClosedIs ==
  ASSUME NEW depth, Nested(blocks, depth), blocks # <<>>, Top.kind # "function", NEW node
  PROVE  /\ Nested(Closed(node), 2 * Len(blocks) - 3) /\ Closed(node) # <<>>
         /\ Len(blocks) \in Nat \ {0, 1}
<1> DEFINE n == Len(Outer)
<1>1. /\ Outer # <<>> /\ n = Len(blocks) - 1 /\ Len(blocks) \in Nat \ {0, 1}
      /\ ~Shut(Outer[n]) /\ Nested(Outer, 2 * Len(blocks) - 3)
  BY BlockDropped DEF Outer, Top
<1>2. PICK R : Outer \in Seq(R)
  BY <1>1 DEF Nested
<1>3. n \in 1 .. n /\ IsBlock(Outer[n])
  BY <1>1 DEF Nested
<1> DEFINE b == [Outer[n] EXCEPT !.code = Append(@, node)]
<1>4. /\ DOMAIN b = DOMAIN Outer[n] /\ b.todo = Outer[n].todo
      /\ b.kind = Outer[n].kind /\ b.opened = Outer[n].opened
  BY <1>3 DEF IsBlock
<1>5. Closed(node) = [Outer EXCEPT ![n] = b]
  BY <1>2, <1>3 DEF Closed
<1> HIDE DEF b
<1>6. IsBlock(b) /\ ~Shut(b)
  BY <1>1, <1>3, <1>4 DEF IsBlock, Shut
<1>7. b.kind = "function" => b.opened
  BY <1>6 DEF Shut
<1>8. 2 * Len(blocks) - 3 = 2 * Len(Outer) - IF Shut(b) THEN 3 ELSE 1
  BY <1>1, <1>6
<1>9. Nested([Outer EXCEPT ![Len(Outer)] = b], 2 * Len(blocks) - 3)
  BY <1>1, <1>4, <1>6, <1>7, <1>8, TopBecomes
<1>10. [Outer EXCEPT ![n] = b] # <<>>
  <2>1. Len([Outer EXCEPT ![n] = b]) = n
    BY <1>2, <1>3
  <2> QED BY <1>3, <2>1
<1> QED BY <1>1, <1>5, <1>9, <1>10

LEMMA AfterTrueBlockKeeps ==
  ASSUME ParserInv, AfterTrueBlock
  PROVE  ParserInv' /\ UNCHANGED S!scopeVars
<1>1. /\ verdict = Running /\ blocks # <<>> /\ Top.kind = "after"
      /\ UNCHANGED <<scope_stack, scope_counter, function, symtable, verdict>> /\ Unchanged
  BY DEF AfterTrueBlock
<1>2. /\ Nested(blocks, Len(scope_stack)) /\ Top = blocks[Len(blocks)]
      /\ Len(scope_stack) = 2 * Len(blocks) - 3
  BY <1>1 DEF ParserInv, ScopeInv, Nested, Top, Shut
<1>3. /\ Outer # <<>> /\ Len(Outer) = Len(blocks) - 1 /\ ~Shut(Outer[Len(Outer)])
      /\ Nested(Outer, 2 * Len(blocks) - 3)
  BY <1>1, <1>2, BlockDropped DEF Outer
<1>4. Nested(blocks', Len(scope_stack))
  <2> DEFINE b == [Block("else", <<>>, FALSE) EXCEPT !.other = Top.code]
             node == [t |-> "if", body |-> Top.code, left |-> <<>>]
  <2>1. CASE blocks' = Append(Outer, b)
    <3>1. IsBlock(b) /\ b.kind # "function" /\ Shut(b)
      BY DEF IsBlock, Block, Shut
    <3> HIDE DEF b
    <3> QED BY <1>2, <1>3, <2>1, <3>1, BlockPushed
  <2>2. CASE blocks' = Closed(node)
    <3> HIDE DEF node
    <3> QED BY <1>1, <1>2, <2>2, ClosedIs
  <2> QED BY <2>1, <2>2 DEF AfterTrueBlock
<1>5. StackTyped'
  BY <1>1 DEF ParserInv, ScopeInv, StackTyped
<1>6. Nested(blocks', Len(scope_stack'))
  BY <1>1, <1>4
<1>7. ParserInv' /\ VariableKeys' = VariableKeys
  BY <1>1, <1>5, <1>6, MovedKeeps
<1> QED BY <1>1, <1>7 DEF S!scopeVars

LEMMA CloseBlockKeeps ==
  ASSUME ParserInv, CloseBlock
  PROVE  ParserInv' /\ Scoping
<1>1. /\ AtStatement /\ Top.kind \in {"else", "while"} /\ S!ExitScopes(2)
      /\ \E node : blocks' = Closed(node)
      /\ UNCHANGED <<function, symtable, verdict>> /\ Unchanged
  BY DEF CloseBlock
<1>2. /\ verdict = Running /\ blocks # <<>> /\ Top.kind # "function"
      /\ Nested(blocks, Len(scope_stack)) /\ Len(scope_stack) = 2 * Len(blocks) - 1
  BY <1>1, AtStatementIs
<1>3. PICK node : blocks' = Closed(node)
  BY <1>1
<1>4. Nested(blocks', 2 * Len(blocks) - 3) /\ Len(blocks) \in Nat \ {0, 1}
  BY <1>2, <1>3, ClosedIs
<1>5. StackTyped' /\ Len(scope_stack') = Len(scope_stack) - 2
  BY <1>1, ScopesExited DEF ParserInv, ScopeInv
<1>6. Len(scope_stack') = 2 * Len(blocks) - 3 /\ Len(scope_stack) >= 3
  BY <1>2, <1>4, <1>5
<1>7. ParserInv' /\ VariableKeys' = VariableKeys
  BY <1>1, <1>2, <1>4, <1>5, <1>6, MovedKeeps
<1>8. S!CloseBlock
  BY <1>1, <1>6, <1>7 DEF S!CloseBlock
<1>9. S!ScopesNext
  BY <1>8 DEF S!ScopesNext
<1> QED BY <1>7, <1>9 DEF Scoping

\* The one scope that is left when a function's body ends is its own.
LEMMA EndFunctionKeeps ==
  ASSUME ParserInv, EndFunction
  PROVE  ParserInv' /\ Scoping
<1> DEFINE err == ReturnError(Header.type, Top.empty, Top.code)
<1>1. AtStatement /\ Top.kind = "function"
  BY DEF EndFunction
<1>2. CASE err # NoError
  <2>1. Stop(err)
    BY <1>2 DEF EndFunction
  <2>2. ParserInv' /\ UNCHANGED S!scopeVars
    BY <1>2, <2>1, EndedKeeps DEF Stop, Accepted
  <2> QED BY <2>2 DEF Scoping
<1>3. CASE err = NoError
  <2>1. /\ S!ExitScopes(1) /\ blocks' = <<>>
        /\ UNCHANGED <<function, symtable, verdict>> /\ Unchanged
    BY <1>3 DEF EndFunction
  <2>2. verdict = Running /\ blocks # <<>> /\ Len(scope_stack) = 1
    <3>1. verdict = Running /\ blocks # <<>> /\ Len(blocks) = 1
      BY <1>1, AtStatementIs
    <3>2. Len(scope_stack) = 2 * Len(blocks) - 1
      BY <1>1, AtStatementIs
    <3> QED BY <3>1, <3>2
  <2>3. StackTyped' /\ Len(scope_stack') = 0
    BY <2>1, <2>2, ScopesExited DEF ParserInv, ScopeInv
  <2>4. Nested(blocks', Len(scope_stack'))
    <3>1. <<>> \in Seq({}) /\ Len(<<>>) = 0
      OBVIOUS
    <3> QED BY <2>1, <2>3, <3>1 DEF Nested
  <2>5. ParserInv' /\ VariableKeys' = VariableKeys
    BY <2>1, <2>2, <2>3, <2>4, MovedKeeps
  <2>6. S!CloseFunction
    BY <2>1, <2>2, <2>5 DEF S!CloseFunction
  <2>7. S!ScopesNext
    BY <2>6 DEF S!ScopesNext
  <2> QED BY <2>5, <2>7 DEF Scoping
<1> QED BY <1>2, <1>3

LEMMA FinishKeeps ==
  ASSUME ParserInv, Finish
  PROVE  ParserInv' /\ UNCHANGED S!scopeVars
<1>1. PICK v : Stop(v)
  BY DEF Finish
<1> QED BY <1>1, EndedKeeps DEF Stop

\* All actions together.
LEMMA ParserStep == ParserInv /\ [ParserNext]_parserVars => ParserInv' /\ Scoping
<1> SUFFICES ASSUME ParserInv, [ParserNext]_parserVars PROVE ParserInv' /\ Scoping
  OBVIOUS
<1>1. ASSUME NEW a \in Menus[menu].assignments, AssignVariable(a)
      PROVE  ParserInv' /\ Scoping
  BY <1>1, AssignVariableKeeps DEF Scoping
<1>2. ASSUME NEW e \in Menus[menu].discards, Discard(e)
      PROVE  ParserInv' /\ Scoping
  BY <1>2, DiscardKeeps DEF Scoping
<1>3. ASSUME NEW e \in Menus[menu].calls, CallStatement(e)
      PROVE  ParserInv' /\ Scoping
  BY <1>3, CallStatementKeeps DEF Scoping
<1>4. ASSUME NEW e \in Menus[menu].returns, Return(e)
      PROVE  ParserInv' /\ Scoping
  BY <1>4, ReturnKeeps DEF Scoping
<1>5. CASE AfterTrueBlock
  BY <1>5, AfterTrueBlockKeeps DEF Scoping
<1>6. CASE Finish
  BY <1>6, FinishKeeps DEF Scoping
<1>7. CASE UNCHANGED parserVars
  BY <1>7, EndedKeeps DEF parserVars, Scoping
<1> QED
  BY <1>1, <1>2, <1>3, <1>4, <1>5, <1>6, <1>7, DeclareFunctionKeeps, BeginFunctionKeeps,
     ParseParameterKeeps, DeclareVariableKeeps, ConditionKeeps, EnterBlockKeeps,
     CloseTrueBlockKeeps, CloseBlockKeeps, EndFunctionKeeps
  DEF ParserNext
-----------------------------------------------------------------------------
(* The parser: the theorems *)

LEMMA ParserInvariant == ParserSpec => []ParserInv
BY ParserStarts, ParserStep, PTL DEF ParserSpec

\* Whatever the program, however long and deep: the parser enters, fills and
\* leaves scopes as Scopes describes it.
THEOREM ParserImplementsScopes == ParserSpec => ImplementsScopes
<1>1. ParserInit => S!ScopesInit
  BY ParserStarts
<1>2. ParserInv /\ [ParserNext]_parserVars => [S!ScopesNext]_(S!scopeVars)
  BY ParserStep DEF Scoping
<1> QED BY <1>1, <1>2, ParserInvariant, PTL DEF ParserSpec, ImplementsScopes, S!ScopesSpec

\* The number in the key of a name that was found belongs to a scope around
\* the node: the search and the later walk of the tree agree on it.
THEOREM FoundNamesInScope == ParserSpec => []OrdinaryNamesInScope
<1>1. ParserInv => OrdinaryNamesInScope
  BY DEF ParserInv, NamesInv, InScope, OrdinaryNamesInScope
<1> QED BY <1>1, ParserInvariant, PTL

\* The theorem about Scopes, for the keys of the table of the parser.
SP == INSTANCE ScopesProofs WITH declared <- VariableKeys

\* So it keeps a block structure, with a flat table and numbers for scopes:
\* no declaration reaches further than its block.
THEOREM ParserIsLexical == ParserSpec => ScopesAreLexical
<1>1. SP!ScopesSpec => SP!ScopesAreLexical
  BY SP!KeysAreLexical
<1>2. S!ScopesSpec => SP!ScopesSpec
  <2>1. S!ScopesInit => SP!ScopesInit
    BY DEF S!ScopesInit, SP!ScopesInit
  <2>2. [S!ScopesNext]_(S!scopeVars) => [SP!ScopesNext]_(SP!scopeVars)
    BY DEF S!ScopesNext, SP!ScopesNext, S!scopeVars, SP!scopeVars,
           S!OpenFunction, SP!OpenFunction, S!SkipFunction, SP!SkipFunction,
           S!CloseFunction, SP!CloseFunction, S!OpenBlock, SP!OpenBlock,
           S!CloseBlock, SP!CloseBlock, S!DeclareVariable, SP!DeclareVariable,
           S!DeclareLocal, SP!DeclareLocal, S!Room, SP!Room,
           S!EnterScopes, SP!EnterScopes, S!ExitScopes, SP!ExitScopes,
           S!Enter, SP!Enter, S!CurrentKey, SP!CurrentKey, S!VarKey, SP!VarKey,
           S!current_scope_id, SP!current_scope_id,
           S!DeclaredOutside, SP!DeclaredOutside, S!DeclaredIn, SP!DeclaredIn,
           S!Hits, SP!Hits, S!ScopeAt, SP!ScopeAt
  <2> QED BY <2>1, <2>2, PTL DEF S!ScopesSpec, SP!ScopesSpec
<1>3. SP!ScopesAreLexical => ScopesAreLexical
  <2> DEFINE same == [i \in DOMAIN scope_stack |-> S!FrameOf(scope_stack[i])]
             frames == [i \in DOMAIN scope_stack |-> SP!FrameOf(scope_stack[i])]
  <2>1. SP!Lex!LexInit => S!Lex!LexInit
    BY DEF SP!Lex!LexInit, S!Lex!LexInit, SP!FrameOf, S!FrameOf, SP!DeclaredIn, S!DeclaredIn,
           SP!VarKey, S!VarKey
  <2>2. [SP!Lex!LexNext]_frames => [S!Lex!LexNext]_same
    BY DEF SP!Lex!LexNext, S!Lex!LexNext, SP!Lex!Push, S!Lex!Push, SP!Lex!Pop, S!Lex!Pop,
           SP!Lex!BindVariable, S!Lex!BindVariable, SP!Lex!BindLocal, S!Lex!BindLocal,
           SP!Lex!BindIn, S!Lex!BindIn, SP!Lex!Visible, S!Lex!Visible,
           SP!FrameOf, S!FrameOf, SP!DeclaredIn, S!DeclaredIn, SP!VarKey, S!VarKey
  <2>3. SP!Lex!LexSpec => S!Lex!LexSpec
    BY <2>1, <2>2, PTL DEF SP!Lex!LexSpec, S!Lex!LexSpec
  <2> QED BY <2>3, PTL DEF SP!ScopesAreLexical, ScopesAreLexical, S!ScopesAreLexical
<1> QED BY <1>1, <1>2, <1>3, ParserImplementsScopes, PTL DEF ImplementsScopes
=============================================================================
