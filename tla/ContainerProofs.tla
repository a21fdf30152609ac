--------------------------- MODULE ContainerProofs ---------------------------
(***************************************************************************)
(* The containers of the IAL projects, and the array of clusters of IZP    *)
(* project 2, do what their abstract modules say, for every size, every    *)
(* set of addresses and every set of data.                                 *)
(*                                                                         *)
(* The ring of c203.c is a bounded queue: the invariant keeps both indices *)
(* inside the part in use, and each operation does to the sequence of      *)
(* waiting characters what Fifo says.                                      *)
(*                                                                         *)
(* The lists of c201.c and c206.c and the chains of hashtable.c are        *)
(* described by sequences of cells: Chain says that following the links    *)
(* from a cell meets just these cells in this order, and WalkOfChain that  *)
(* the Walk of Links then reads them.  Linking a cell in at a place makes  *)
(* the sequence Plus, unlinking one makes it Minus, and the rest is where  *)
(* each operation finds its place.                                         *)
(*                                                                         *)
(* The array of clusters of cluster.c holds every object of the file in    *)
(* one cluster, and a merge unites two of the nearest, as SingleLinkage    *)
(* does: Moved says where the other clusters go, ChosenPair why the pair   *)
(* is nearest also when find_neighbours leaves it as it was.               *)
(***************************************************************************)
EXTENDS CharQueue, SList, DLList, HashTable, Clusters, FiniteSetTheorems,
        SequenceTheorems, WellFoundedInduction, TLAPS

-----------------------------------------------------------------------------
(* The ring *)

\* The indices stay inside the part in use.
QueueInv ==
  /\ array \in [0 .. MAX_QUEUE - 1 -> QueueData]
  /\ firstIndex \in 0 .. QUEUE_SIZE - 1
  /\ freeIndex \in 0 .. QUEUE_SIZE - 1
  /\ dataPtr \in QueueData
  /\ error_flag \in BOOLEAN
-----------------------------------------------------------------------------
(* Going round the ring *)

LEMMA Wrapped ==
  ASSUME NEW n \in Nat \ {0}, NEW x \in 0 .. 2 * n - 1
  PROVE  x % n = IF x < n THEN x ELSE x - n
<1>1. CASE x < n
  BY <1>1, SMT
<1>2. CASE ~(x < n)
  BY <1>2, SMT
<1> QED BY <1>1, <1>2

LEMMA WrappedSum ==
  ASSUME NEW n \in Nat \ {0}, NEW i \in 0 .. n - 1, NEW k \in 0 .. n
  PROVE  (i + k) % n = IF i + k < n THEN i + k ELSE i + k - n
<1>1. PICK x \in 0 .. 2 * n - 1 : x = i + k
  OBVIOUS
<1>2. x % n = IF x < n THEN x ELSE x - n
  BY Wrapped
<1> QED BY <1>1, <1>2

LEMMA Behind ==
  ASSUME NEW n \in Nat \ {0}, NEW x \in -n .. -1
  PROVE  x % n = x + n
BY SMT

LEMMA Distance ==
  ASSUME NEW n \in Nat \ {0}, NEW i \in 0 .. n - 1, NEW j \in 0 .. n - 1
  PROVE  (j - i) % n = IF j >= i THEN j - i ELSE j - i + n
<1>1. CASE j >= i
  <2>1. j - i \in 0 .. 2 * n - 1 /\ j - i < n
    BY <1>1
  <2>2. (j - i) % n = IF j - i < n THEN j - i ELSE j - i - n
    BY <2>1, Wrapped, Zenon
  <2> QED BY <1>1, <2>1, <2>2
<1>2. CASE ~(j >= i)
  <2>1. j - i \in -n .. -1
    BY <1>2
  <2>2. (j - i) % n = j - i + n
    BY <2>1, Behind, Zenon
  <2> QED BY <1>2, <2>2
<1> QED BY <1>1, <1>2

\* The slots of the ring, and the number of characters in it.
LEMMA Ring ==
  ASSUME QueueInv
  PROVE  /\ QUEUE_SIZE \in Nat \ {0} /\ MAX_QUEUE \in Nat /\ QUEUE_SIZE <= MAX_QUEUE
         /\ \A i \in 0 .. QUEUE_SIZE - 1 :
              nextIndex(i) = IF i = QUEUE_SIZE - 1 THEN 0 ELSE i + 1
         /\ \A i \in 0 .. QUEUE_SIZE :
              (firstIndex + i) % QUEUE_SIZE =
                IF firstIndex + i < QUEUE_SIZE THEN firstIndex + i
                ELSE firstIndex + i - QUEUE_SIZE
         /\ InQueue = IF freeIndex >= firstIndex THEN freeIndex - firstIndex
                      ELSE freeIndex - firstIndex + QUEUE_SIZE
<1>1. QUEUE_SIZE \in Nat \ {0} /\ MAX_QUEUE \in Nat /\ QUEUE_SIZE <= MAX_QUEUE
  BY QueueAssumption
<1>2. firstIndex \in 0 .. QUEUE_SIZE - 1 /\ freeIndex \in 0 .. QUEUE_SIZE - 1
  BY DEF QueueInv
<1>3. ASSUME NEW i \in 0 .. QUEUE_SIZE - 1
      PROVE  nextIndex(i) = IF i = QUEUE_SIZE - 1 THEN 0 ELSE i + 1
  <2>1. 1 \in 0 .. QUEUE_SIZE
    BY <1>1
  <2>2. (i + 1) % QUEUE_SIZE = IF i + 1 < QUEUE_SIZE THEN i + 1 ELSE i + 1 - QUEUE_SIZE
    BY <2>1, <1>1, <1>3, WrappedSum
  <2> QED BY <2>2, <1>1, <1>3 DEF nextIndex
<1>4. ASSUME NEW i \in 0 .. QUEUE_SIZE
      PROVE  (firstIndex + i) % QUEUE_SIZE =
               IF firstIndex + i < QUEUE_SIZE THEN firstIndex + i
               ELSE firstIndex + i - QUEUE_SIZE
  BY <1>1, <1>2, <1>4, WrappedSum
<1>5. InQueue = IF freeIndex >= firstIndex THEN freeIndex - firstIndex
                ELSE freeIndex - firstIndex + QUEUE_SIZE
  BY <1>1, <1>2, Distance DEF InQueue
<1> QED BY <1>1, <1>3, <1>4, <1>5

\* Full and empty, told apart by the slot that stays free.
LEMMA WaitingIs ==
  ASSUME QueueInv
  PROVE  /\ Waiting \in Seq(QueueData) /\ Len(Waiting) = InQueue
         /\ InQueue \in 0 .. QUEUE_SIZE - 1
         /\ Queue_IsEmpty <=> Waiting = <<>>
         /\ Queue_IsFull <=> InQueue = QUEUE_SIZE - 1
         /\ \A i \in 1 .. InQueue : (firstIndex + i - 1) % QUEUE_SIZE \in 0 .. QUEUE_SIZE - 1
<1>1. firstIndex \in 0 .. QUEUE_SIZE - 1 /\ freeIndex \in 0 .. QUEUE_SIZE - 1
  BY DEF QueueInv
<1>2. InQueue \in 0 .. QUEUE_SIZE - 1 /\ (Queue_IsEmpty <=> InQueue = 0)
  BY <1>1, Ring DEF Queue_IsEmpty
<1>3. Queue_IsFull <=> InQueue = QUEUE_SIZE - 1
  <2>1. nextIndex(freeIndex) = IF freeIndex = QUEUE_SIZE - 1 THEN 0 ELSE freeIndex + 1
    BY <1>1, Ring
  <2> QED BY <2>1, <1>1, Ring DEF Queue_IsFull
<1>4. ASSUME NEW i \in 1 .. InQueue
      PROVE  (firstIndex + i - 1) % QUEUE_SIZE \in 0 .. QUEUE_SIZE - 1
  <2>1. i - 1 \in 0 .. QUEUE_SIZE /\ firstIndex + i - 1 = firstIndex + (i - 1)
    BY <1>1, <1>2, <1>4, Ring
  <2> QED BY <2>1, <1>1, Ring
<1>5. ASSUME NEW i \in 1 .. InQueue
      PROVE  array[(firstIndex + i - 1) % QUEUE_SIZE] \in QueueData
  <2>1. (firstIndex + i - 1) % QUEUE_SIZE \in 0 .. MAX_QUEUE - 1
    BY <1>4, <1>5, Ring
  <2> QED BY <2>1 DEF QueueInv
<1>6. Waiting \in Seq(QueueData) /\ Len(Waiting) = InQueue
  BY <1>2, <1>5 DEF Waiting
<1>7. Queue_IsEmpty <=> Waiting = <<>>
  BY <1>2, <1>6
<1> QED BY <1>2, <1>3, <1>4, <1>6, <1>7
-----------------------------------------------------------------------------
(* The operations *)

LEMMA EnqueuePuts ==
  ASSUME QueueInv, NEW data \in QueueData, Queue_Enqueue(data)
  PROVE  F!Put(data) /\ QueueInv'
<1>1. CASE Queue_IsFull
  <2>1. Queue_Error
    BY <1>1 DEF Queue_Enqueue
  <2>2. Len(Waiting) >= QUEUE_SIZE - 1
    BY <1>1, WaitingIs, Ring
  <2>3. Waiting' = Waiting
    BY <2>1 DEF Queue_Error, Waiting, InQueue
  <2> QED BY <2>1, <2>2, <2>3 DEF F!Put, F!Refused, Queue_Error, QueueInv
<1>2. CASE ~Queue_IsFull
  <2>1. /\ array' = [array EXCEPT ![freeIndex] = data]
        /\ freeIndex' = nextIndex(freeIndex)
        /\ UNCHANGED <<firstIndex, dataPtr, error_flag>>
    BY <1>2 DEF Queue_Enqueue
  <2>2. freeIndex \in 0 .. QUEUE_SIZE - 1 /\ firstIndex \in 0 .. QUEUE_SIZE - 1
    BY DEF QueueInv
  <2>0. nextIndex(freeIndex) = IF freeIndex = QUEUE_SIZE - 1 THEN 0 ELSE freeIndex + 1
    BY <2>2, Ring
  <2>3. QueueInv'
    <3>1. freeIndex' \in 0 .. QUEUE_SIZE - 1
      <4>1. QUEUE_SIZE \in Nat
        BY Ring
      <4> QED BY <2>0, <2>1, <2>2, <4>1
    <3> QED BY <2>1, <3>1 DEF QueueInv
  <2>4. InQueue < QUEUE_SIZE - 1 /\ InQueue \in Nat
    BY <1>2, WaitingIs, Ring
  <2>5. InQueue' = InQueue + 1
    <3>1. QUEUE_SIZE \in Nat \ {0} /\ freeIndex' \in 0 .. QUEUE_SIZE - 1
      BY <2>0, <2>1, <2>2, Ring
    <3>2. InQueue = IF freeIndex >= firstIndex THEN freeIndex - firstIndex
                    ELSE freeIndex - firstIndex + QUEUE_SIZE
      BY Ring
    <3>3. InQueue' = IF freeIndex' >= firstIndex' THEN freeIndex' - firstIndex'
                     ELSE freeIndex' - firstIndex' + QUEUE_SIZE
      BY <3>1, <2>1, <2>2, Distance DEF InQueue
    <3> QED BY <3>1, <3>2, <3>3, <2>0, <2>1, <2>2, <2>4
  <2>6. (firstIndex + InQueue) % QUEUE_SIZE = freeIndex
    BY <2>2, <2>4, Ring
  <2>7. ASSUME NEW i \in 1 .. InQueue
        PROVE  (firstIndex + i - 1) % QUEUE_SIZE # freeIndex
    <3>1. QUEUE_SIZE \in Nat
      BY Ring
    <3>2. i - 1 \in 0 .. QUEUE_SIZE /\ firstIndex + i - 1 = firstIndex + (i - 1)
      BY <3>1, <2>2, <2>4, <2>7
    <3>3. (firstIndex + (i - 1)) % QUEUE_SIZE = IF firstIndex + (i - 1) < QUEUE_SIZE
                                               THEN firstIndex + (i - 1)
                                               ELSE firstIndex + (i - 1) - QUEUE_SIZE
      BY <3>2, Ring
    <3>4. InQueue = IF freeIndex >= firstIndex THEN freeIndex - firstIndex
                    ELSE freeIndex - firstIndex + QUEUE_SIZE
      BY Ring
    <3> QED BY <3>1, <3>2, <3>3, <3>4, <2>2, <2>4, <2>7
  <2>8. Waiting' = Append(Waiting, data)
    <3>1. freeIndex \in DOMAIN array
      BY <2>2, Ring DEF QueueInv
    <3>2. ASSUME NEW i \in 1 .. InQueue + 1
          PROVE  array'[(firstIndex + i - 1) % QUEUE_SIZE] =
                   IF i <= InQueue THEN array[(firstIndex + i - 1) % QUEUE_SIZE] ELSE data
      <4>1. CASE i <= InQueue
        <5>1. i \in 1 .. InQueue
          BY <4>1, <3>2, <2>4
        <5>2. (firstIndex + i - 1) % QUEUE_SIZE \in DOMAIN array
          BY <5>1, WaitingIs, Ring DEF QueueInv
        <5> QED BY <5>1, <5>2, <4>1, <2>1, <2>7
      <4>2. CASE ~(i <= InQueue)
        <5>1. firstIndex + i - 1 = firstIndex + InQueue
          BY <4>2, <3>2, <2>2, <2>4
        <5> QED BY <5>1, <4>2, <3>1, <2>1, <2>6
      <4> QED BY <4>1, <4>2
    <3>3. Waiting' = [i \in 1 .. InQueue + 1 |-> array'[(firstIndex + i - 1) % QUEUE_SIZE]]
      BY <2>1, <2>5 DEF Waiting
    <3>4. Len(Waiting) = InQueue /\ Waiting \in Seq(QueueData)
      BY WaitingIs
    <3>5. \A i \in 1 .. InQueue : Waiting[i] = array[(firstIndex + i - 1) % QUEUE_SIZE]
      BY DEF Waiting
    <3>6. /\ Append(Waiting, data) \in Seq(QueueData)
          /\ Len(Append(Waiting, data)) = InQueue + 1
          /\ \A i \in 1 .. InQueue : Append(Waiting, data)[i] = Waiting[i]
          /\ Append(Waiting, data)[InQueue + 1] = data
      BY <3>4, AppendProperties
    <3>7. Waiting' \in Seq(QueueData) /\ Len(Waiting') = InQueue + 1
      <4>1. InQueue + 1 \in Nat
        BY <2>4
      <4>2. ASSUME NEW i \in 1 .. InQueue + 1
            PROVE  array'[(firstIndex + i - 1) % QUEUE_SIZE] \in QueueData
        <5>1. CASE i <= InQueue
          <6>1. i \in 1 .. InQueue
            BY <5>1, <4>2, <2>4
          <6>2. Waiting[i] \in QueueData
            BY <6>1, <3>4, ElementOfSeq
          <6>3. Waiting[i] = array'[(firstIndex + i - 1) % QUEUE_SIZE]
            BY <6>1, <5>1, <4>2, <3>2, <3>5, Zenon
          <6> QED BY <6>2, <6>3, Zenon
        <5>2. CASE ~(i <= InQueue)
          BY <5>2, <4>2, <3>2, Zenon
        <5> QED BY <5>1, <5>2
      <4> QED BY <4>1, <4>2, <3>3
    <3>8. ASSUME NEW i \in 1 .. InQueue + 1
          PROVE  Append(Waiting, data)[i] = Waiting'[i]
      <4>1. Waiting'[i] = IF i <= InQueue THEN array[(firstIndex + i - 1) % QUEUE_SIZE] ELSE data
        BY <3>2, <3>3, <3>8
      <4>2. i \in 1 .. InQueue \/ (i = InQueue + 1 /\ ~(i <= InQueue))
        BY <3>8, <2>4
      <4> QED BY <4>1, <4>2, <3>5, <3>6
    <3> QED BY <3>6, <3>7, <3>8, SeqEqual, Zenon
  <2>9. ~(Len(Waiting) >= QUEUE_SIZE - 1)
    BY <2>4, WaitingIs, Ring
  <2> QED BY <2>1, <2>3, <2>8, <2>9 DEF F!Put
<1> QED BY <1>1, <1>2

\* Taking the first character away, whether or not it is handed over.
LEMMA FirstLeaves ==
  ASSUME QueueInv, ~Queue_IsEmpty, firstIndex' = nextIndex(firstIndex),
         UNCHANGED <<array, freeIndex>>
  PROVE  /\ Waiting' = Tail(Waiting) /\ Head(Waiting) = array[firstIndex]
         /\ firstIndex' \in 0 .. QUEUE_SIZE - 1
<1>1. freeIndex \in 0 .. QUEUE_SIZE - 1 /\ firstIndex \in 0 .. QUEUE_SIZE - 1
  BY DEF QueueInv
<1>2. InQueue \in 1 .. QUEUE_SIZE - 1 /\ Len(Waiting) = InQueue /\ Waiting \in Seq(QueueData)
  BY <1>1, WaitingIs, Ring
<1>3. firstIndex' = IF firstIndex = QUEUE_SIZE - 1 THEN 0 ELSE firstIndex + 1
  BY <1>1, Ring
<1>4. firstIndex' \in 0 .. QUEUE_SIZE - 1
  BY <1>1, <1>3, Ring
<1>5. InQueue' = InQueue - 1
  <2>1. InQueue' = IF freeIndex >= firstIndex' THEN freeIndex - firstIndex'
                   ELSE freeIndex - firstIndex' + QUEUE_SIZE
    BY <1>1, <1>4, Ring, Distance DEF InQueue
  <2> QED BY <2>1, <1>1, <1>2, <1>3, Ring
<1>6. Head(Waiting) = array[firstIndex]
  <2>1. firstIndex + 1 - 1 = firstIndex /\ firstIndex % QUEUE_SIZE = firstIndex
    BY <1>1, Ring, Wrapped
  <2>2. Waiting[1] = array[(firstIndex + 1 - 1) % QUEUE_SIZE]
    BY <1>2 DEF Waiting
  <2> QED BY <2>1, <2>2, <1>2
<1>7. ASSUME NEW i \in 1 .. InQueue - 1
      PROVE  (firstIndex' + i - 1) % QUEUE_SIZE = (firstIndex + (i + 1) - 1) % QUEUE_SIZE
  <2>1. (firstIndex + i) % QUEUE_SIZE = IF firstIndex + i < QUEUE_SIZE THEN firstIndex + i
                                       ELSE firstIndex + i - QUEUE_SIZE
    BY <1>2, <1>7, Ring
  <2>2. i - 1 \in 0 .. QUEUE_SIZE /\ firstIndex' + i - 1 = firstIndex' + (i - 1)
    BY <1>2, <1>4, <1>7, Ring
  <2>3. (firstIndex' + (i - 1)) % QUEUE_SIZE = IF firstIndex' + (i - 1) < QUEUE_SIZE
                                              THEN firstIndex' + (i - 1)
                                              ELSE firstIndex' + (i - 1) - QUEUE_SIZE
    BY <2>2, <1>4, Ring, WrappedSum
  <2>4. firstIndex + (i + 1) - 1 = firstIndex + i
    BY <1>1, <1>2, <1>7
  <2>5. QUEUE_SIZE \in Nat
    BY Ring
  <2> QED BY <2>1, <2>2, <2>3, <2>4, <2>5, <1>1, <1>2, <1>3, <1>7
<1>8. Waiting' = [i \in 1 .. InQueue - 1 |-> array[(firstIndex' + i - 1) % QUEUE_SIZE]]
  BY <1>5 DEF Waiting
<1>9. /\ Tail(Waiting) \in Seq(QueueData) /\ Len(Tail(Waiting)) = InQueue - 1
      /\ \A i \in 1 .. InQueue - 1 : Tail(Waiting)[i] = Waiting[i + 1]
  BY <1>2, HeadTailProperties
<1>10. ASSUME NEW i \in 1 .. InQueue - 1
       PROVE  Waiting[i + 1] = array[(firstIndex' + i - 1) % QUEUE_SIZE]
  <2>1. i + 1 \in 1 .. InQueue
    BY <1>2, <1>10
  <2>2. Waiting[i + 1] = array[(firstIndex + (i + 1) - 1) % QUEUE_SIZE]
    BY <2>1 DEF Waiting
  <2> QED BY <2>2, <1>7
<1>11. Waiting' \in Seq(QueueData) /\ Len(Waiting') = InQueue - 1
  <2>1. InQueue - 1 \in Nat
    BY <1>2
  <2>2. \A i \in 1 .. InQueue - 1 : array[(firstIndex' + i - 1) % QUEUE_SIZE] \in QueueData
    BY <1>2, <1>10, ElementOfSeq
  <2> QED BY <2>1, <2>2, <1>8
<1>12. Tail(Waiting) = Waiting'
  BY <1>8, <1>9, <1>10, <1>11, SeqEqual
<1> QED BY <1>4, <1>6, <1>12

LEMMA FrontPeeks ==
  ASSUME QueueInv, Queue_Front
  PROVE  F!Peek /\ QueueInv'
<1>1. Waiting' = Waiting /\ firstIndex' = firstIndex /\ freeIndex' = freeIndex /\ array' = array
  BY DEF Queue_Front, Queue_Error, Waiting, InQueue
<1>2. CASE Queue_IsEmpty
  BY <1>1, <1>2, WaitingIs DEF Queue_Front, Queue_Error, F!Peek, F!Refused, QueueInv
<1>3. CASE ~Queue_IsEmpty
  <2>1. dataPtr' = array[firstIndex] /\ UNCHANGED error_flag
    BY <1>3 DEF Queue_Front
  <2>2. Waiting # <<>> /\ Waiting \in Seq(QueueData) /\ InQueue \in 1 .. QUEUE_SIZE - 1
    BY <1>3, WaitingIs
  <2>3. Head(Waiting) = array[firstIndex]
    <3>1. firstIndex + 1 - 1 = firstIndex /\ firstIndex % QUEUE_SIZE = firstIndex
      BY Ring, Wrapped DEF QueueInv
    <3>2. Waiting[1] = array[(firstIndex + 1 - 1) % QUEUE_SIZE]
      BY <2>2 DEF Waiting
    <3> QED BY <3>1, <3>2, <2>2
  <2> QED BY <1>1, <2>1, <2>2, <2>3 DEF F!Peek, QueueInv
<1> QED BY <1>2, <1>3

LEMMA RemoveDrops ==
  ASSUME QueueInv, Queue_Remove
  PROVE  F!Drop /\ QueueInv'
<1>1. CASE Queue_IsEmpty
  <2>1. Queue_Error
    BY <1>1 DEF Queue_Remove
  <2>2. Waiting' = Waiting
    BY <2>1 DEF Queue_Error, Waiting, InQueue
  <2> QED BY <1>1, <2>1, <2>2, WaitingIs DEF Queue_Error, F!Drop, F!Refused, QueueInv
<1>2. CASE ~Queue_IsEmpty
  <2>1. firstIndex' = nextIndex(firstIndex) /\ UNCHANGED <<array, freeIndex, dataPtr, error_flag>>
    BY <1>2 DEF Queue_Remove
  <2>2. Waiting' = Tail(Waiting) /\ firstIndex' \in 0 .. QUEUE_SIZE - 1
    BY <1>2, <2>1, FirstLeaves
  <2> QED BY <1>2, <2>1, <2>2, WaitingIs DEF F!Drop, QueueInv
<1> QED BY <1>1, <1>2

LEMMA DequeueTakes ==
  ASSUME QueueInv, Queue_Dequeue
  PROVE  F!Take /\ QueueInv'
<1>1. CASE Queue_IsEmpty
  <2>1. Queue_Error
    BY <1>1 DEF Queue_Dequeue
  <2>2. Waiting' = Waiting
    BY <2>1 DEF Queue_Error, Waiting, InQueue
  <2> QED BY <1>1, <2>1, <2>2, WaitingIs DEF Queue_Error, F!Take, F!Refused, QueueInv
<1>2. CASE ~Queue_IsEmpty
  <2>1. /\ dataPtr' = array[firstIndex] /\ firstIndex' = nextIndex(firstIndex)
        /\ UNCHANGED <<array, freeIndex, error_flag>>
    BY <1>2 DEF Queue_Dequeue
  <2>2. /\ Waiting' = Tail(Waiting) /\ Head(Waiting) = array[firstIndex]
        /\ firstIndex' \in 0 .. QUEUE_SIZE - 1
    BY <1>2, <2>1, FirstLeaves
  <2>3. array[firstIndex] \in QueueData
    <3>1. firstIndex \in 0 .. MAX_QUEUE - 1
      BY Ring DEF QueueInv
    <3> QED BY <3>1 DEF QueueInv
  <2> QED BY <1>2, <2>1, <2>2, <2>3, WaitingIs DEF F!Take, QueueInv
<1> QED BY <1>1, <1>2

\* A new ring, or one set up again, is empty.
LEMMA EmptyRing ==
  /\ EmptyArray \in [0 .. MAX_QUEUE - 1 -> QueueData]
  /\ 0 \in 0 .. QUEUE_SIZE - 1 /\ (0 - 0) % QUEUE_SIZE = 0
<1>1. QUEUE_SIZE \in Nat \ {0}
  BY QueueAssumption
<1>2. 0 \in 0 .. 2 * QUEUE_SIZE - 1 /\ 0 - 0 = 0
  BY <1>1
<1> QED BY <1>1, <1>2, QueueAssumption, Wrapped DEF EmptyArray

LEMMA InitResets ==
  ASSUME QueueInv, Queue_Init
  PROVE  F!Reset /\ QueueInv'
<1>1. InQueue' = 0
  BY EmptyRing DEF Queue_Init, InQueue
<1>2. Waiting' = <<>>
  BY <1>1 DEF Waiting
<1> QED BY <1>2, EmptyRing DEF Queue_Init, F!Reset, QueueInv
-----------------------------------------------------------------------------
(* The theorem *)

LEMMA QueueStarts == QueueInit => QueueInv /\ F!FifoInit
<1> SUFFICES ASSUME QueueInit PROVE QueueInv /\ F!FifoInit
  OBVIOUS
<1>1. InQueue = 0
  BY EmptyRing DEF QueueInit, InQueue
<1>2. Waiting = <<>>
  BY <1>1 DEF Waiting
<1> QED BY <1>2, EmptyRing DEF QueueInit, QueueInv, F!FifoInit

LEMMA QueueStep == QueueInv /\ [QueueNext]_queueVars => QueueInv'
<1> SUFFICES ASSUME QueueInv, [QueueNext]_queueVars PROVE QueueInv'
  OBVIOUS
<1>1. ASSUME NEW data \in QueueData, Queue_Enqueue(data) PROVE QueueInv'
  BY <1>1, EnqueuePuts
<1>2. CASE UNCHANGED queueVars
  BY <1>2 DEF queueVars, QueueInv
<1> QED BY <1>1, <1>2, FrontPeeks, RemoveDrops, DequeueTakes, InitResets DEF QueueNext

\* The ring is a first-in-first-out queue of QUEUE_SIZE - 1 places, for every
\* MAX_QUEUE, every QUEUE_SIZE up to it, and every set of characters: each
\* call of c203.c does to the waiting characters what Fifo says of it.
THEOREM RingIsFifo == QueueSpec => QueueIsFifo
<1>1. QueueInit => QueueInv /\ F!FifoInit
  BY QueueStarts
<1>2. QueueInv /\ [QueueNext]_queueVars => QueueInv'
  BY QueueStep
<1>3. QueueInv =>
        /\ \A data \in QueueData : Queue_Enqueue(data) => F!Put(data)
        /\ Queue_Front => F!Peek
        /\ Queue_Remove => F!Drop
        /\ Queue_Dequeue => F!Take
        /\ Queue_Init => F!Reset
  BY EnqueuePuts, FrontPeeks, RemoveDrops, DequeueTakes, InitResets
<1> QED BY <1>1, <1>2, <1>3, PTL DEF QueueSpec, QueueIsFifo

\* Seen from outside the ring steps as a bounded queue steps.
THEOREM RingImplementsFifo == QueueSpec => F!FifoSpec
<1> DEFINE Seen == <<Waiting, dataPtr, error_flag>>
<1>1. QueueInit => QueueInv /\ F!FifoInit
  BY QueueStarts
<1>2. QueueInv /\ [QueueNext]_queueVars => QueueInv'
  BY QueueStep
<1>3. QueueInv /\ [QueueNext]_queueVars => [F!FifoNext]_Seen
  <2> SUFFICES ASSUME QueueInv, [QueueNext]_queueVars PROVE F!FifoNext \/ UNCHANGED Seen
    OBVIOUS
  <2>1. ASSUME NEW data \in QueueData, Queue_Enqueue(data) PROVE F!FifoNext
    BY <2>1, EnqueuePuts DEF F!FifoNext
  <2>2. CASE UNCHANGED queueVars
    BY <2>2 DEF queueVars, Waiting, InQueue
  <2> QED BY <2>1, <2>2, FrontPeeks, RemoveDrops, DequeueTakes, InitResets
          DEF QueueNext, F!FifoNext
<1> QED BY <1>1, <1>2, <1>3, PTL DEF QueueSpec, F!FifoSpec

-----------------------------------------------------------------------------
(* Cells in a chain *)

\* The order of the numbers, to pick the least one of a set by.
LessThan == {p \in Nat \X Nat : p[1] < p[2]}

LEMMA LessThanWellFounded == IsWellFoundedOn(LessThan, Nat)
<1>1. LessThan = OpToRel(<, Nat)
  BY DEF LessThan, OpToRel
<1> QED BY <1>1, NatLessThanWellFounded

\* A set of numbers that is not empty has a least one.
LEMMA LeastExists ==
  ASSUME NEW I \in SUBSET Nat, I # {}
  PROVE  \E i \in I : \A j \in I : i <= j
<1>1. PICK i \in I : \A j \in I : <<j, i>> \notin LessThan
  BY LessThanWellFounded, WFMin
<1>2. \A j \in I : ~(j < i)
  BY <1>1 DEF LessThan
<1> QED BY <1>1, <1>2

\* A sequence with what stands beyond its ends.
Nth(s, i, null) == IF i \in 1 .. Len(s) THEN s[i] ELSE null

\* No cell stands in a sequence twice; every one of some cells stands in it.
Distinct(s) == \A i, j \in 1 .. Len(s) : s[i] = s[j] => i = j
Covers(s, cells) == \A c \in cells : \E i \in 1 .. Len(s) : s[i] = c

\* The cells of a chain from x on, in their order.
Chain(s, x, next, null) ==
  /\ s \in Seq(DOMAIN next)
  /\ Distinct(s)
  /\ x = Nth(s, 1, null)
  /\ \A i \in 1 .. Len(s) : next[s[i]] = Nth(s, i + 1, null)

LEMMA IntervalSize ==
  ASSUME NEW n \in Nat
  PROVE  IsFiniteSet(1 .. n) /\ Cardinality(1 .. n) = n
BY FS_Interval

\* A sequence without repetition has at most as many cells as there are, and as
\* many when it covers them.
LEMMA ChainLength ==
  ASSUME NEW cells, IsFiniteSet(cells), NEW s \in Seq(cells),
         Distinct(s)
  PROVE  /\ Len(s) \in Nat /\ Cardinality(cells) \in Nat
         /\ Len(s) <= Cardinality(cells)
         /\ Covers(s, cells) => Len(s) = Cardinality(cells)
<1>1. Len(s) \in Nat /\ s \in [1 .. Len(s) -> cells]
  OBVIOUS
<1>2. s \in Injection(1 .. Len(s), cells)
  BY <1>1 DEF Injection, IsInjective, Distinct
<1>3. Cardinality(1 .. Len(s)) = Len(s) /\ IsFiniteSet(1 .. Len(s))
  BY <1>1, IntervalSize, Zenon
<1>4. Cardinality(cells) \in Nat
  BY FS_CardinalityType, Zenon
<1>5. Len(s) <= Cardinality(cells) /\ (s \in Surjection(1 .. Len(s), cells) => Len(s) = Cardinality(cells))
  BY <1>2, <1>3, FS_Injection
<1>6. Covers(s, cells) => s \in Surjection(1 .. Len(s), cells)
  BY <1>1 DEF Surjection, Covers
<1> QED BY <1>1, <1>4, <1>5, <1>6, Zenon

\* Following the links of a chain yields the chain.
LEMMA WalkOfChain ==
  ASSUME NEW s, NEW x, NEW next, NEW null, IsFiniteSet(DOMAIN next), null \notin DOMAIN next,
         Chain(s, x, next, null)
  PROVE  Walk(x, next, null) = s
<1> DEFINE N == 1 .. Cardinality(DOMAIN next) + 1
           Step(f) == [k \in N |-> IF k = 1 THEN x
                                   ELSE IF f[k - 1] \in DOMAIN next THEN next[f[k - 1]] ELSE null]
           way == [k \in N |-> Nth(s, k, null)]
           at == CHOOSE f : f = Step(f)
<1>1. s \in Seq(DOMAIN next) /\ Len(s) \in Nat /\ DOMAIN s = 1 .. Len(s) /\ Cardinality(DOMAIN next) \in Nat
      /\ Len(s) <= Cardinality(DOMAIN next)
  <2>1. s \in Seq(DOMAIN next) /\ Distinct(s)
    BY DEF Chain
  <2> QED BY <2>1, ChainLength
<1>2. \A i \in 1 .. Len(s) : s[i] \in DOMAIN next
  BY <1>1
<1>8. Cardinality(1 .. Len(s)) = Len(s)
  BY <1>1, IntervalSize, Zenon
<1>3. way = Step(way)
  <2>1. ASSUME NEW k \in N
        PROVE  way[k] = IF k = 1 THEN x
                        ELSE IF way[k - 1] \in DOMAIN next THEN next[way[k - 1]] ELSE null
    <3>1. CASE k = 1
      BY <3>1 DEF Chain
    <3>2. CASE k # 1
      <4>1. k - 1 \in N /\ k = (k - 1) + 1
        BY <3>2, <1>1
      <4>2. CASE k - 1 \in 1 .. Len(s)
        <5>1. way[k - 1] = s[k - 1] /\ s[k - 1] \in DOMAIN next
          BY <4>1, <4>2, <1>2 DEF Nth
        <5>2. next[s[k - 1]] = Nth(s, k, null)
          BY <4>1, <4>2 DEF Chain
        <5> QED BY <5>1, <5>2, <3>2
      <4>3. CASE k - 1 \notin 1 .. Len(s)
        <5>1. way[k - 1] = null /\ way[k] = null
          BY <4>1, <4>3, <1>1 DEF Nth
        <5> QED BY <5>1, <3>2
      <4> QED BY <4>2, <4>3
    <3> QED BY <3>1, <3>2
  <2> HIDE DEF N
  <2> QED BY <2>1
<1>4. at = Step(at)
  <2> HIDE DEF Step, way
  <2> QED BY <1>3
<1>5. at = way
  <2> HIDE DEF at, way, N
  <2>1. at = [k \in N |-> at[k]]
    BY <1>4
  <2>2. way = [k \in N |-> way[k]]
    BY DEF way
  <2>3. ASSUME NEW k \in N
        PROVE  /\ at[k] = IF k = 1 THEN x ELSE IF at[k - 1] \in DOMAIN next THEN next[at[k - 1]] ELSE null
               /\ way[k] = IF k = 1 THEN x ELSE IF way[k - 1] \in DOMAIN next THEN next[way[k - 1]] ELSE null
    BY <1>3, <1>4
  <2> HIDE DEF Step
  <2> DEFINE Differ == {k \in N : at[k] # way[k]}
  <2>4. ASSUME Differ # {} PROVE FALSE
    <3>1. Differ \in SUBSET Nat
      BY DEF N
    <3>2. PICK k \in Differ : \A j \in Differ : k <= j
      BY <2>4, <3>1, LeastExists
    <3>3. k # 1
      BY <2>3, <3>2
    <3>4. k - 1 \in N /\ ~(k <= k - 1)
      BY <3>2, <3>3, <1>1 DEF N
    <3>5. at[k - 1] = way[k - 1]
      BY <3>2, <3>4
    <3>6. at[k] = way[k]
      BY <2>3, <3>2, <3>3, <3>5
    <3> QED BY <3>2, <3>6
  <2> QED BY <2>1, <2>2, <2>4
<1>6. Walk(x, next, null) = [i \in 1 .. Cardinality({k \in DOMAIN at : at[k] # null}) |-> at[i]]
  BY DEF Walk
<1>7. {k \in DOMAIN at : at[k] # null} = 1 .. Len(s)
  <2>1. ASSUME NEW k \in N PROVE way[k] # null <=> k \in 1 .. Len(s)
    BY <1>2 DEF Nth
  <2>2. DOMAIN way = N /\ 1 .. Len(s) \subseteq N
    BY <1>1
  <2> HIDE DEF way, N, at
  <2> QED BY <1>5, <2>1, <2>2
<1>9. \A i \in 1 .. Len(s) : at[i] = s[i]
  <2> HIDE DEF at
  <2> QED BY <1>1, <1>5 DEF Nth
<1> HIDE DEF at
<1>10. Walk(x, next, null) = [i \in 1 .. Len(s) |-> s[i]]
  BY <1>6, <1>7, <1>8, <1>9
<1> QED BY <1>1, <1>10

-----------------------------------------------------------------------------
(* Cells put in and left out *)

\* A sequence with c put in at place p, and with what stands there left out.
Plus(s, p, c) ==
  [i \in 1 .. Len(s) + 1 |-> IF i < p THEN s[i] ELSE IF i = p THEN c ELSE s[i - 1]]
Minus(s, p) == [i \in 1 .. Len(s) - 1 |-> IF i < p THEN s[i] ELSE s[i + 1]]

\* What both of them are, place by place.
LEMMA PlusSequence ==
  ASSUME NEW S, NEW s \in Seq(S), NEW p \in 1 .. Len(s) + 1, NEW c \in S
  PROVE  /\ Plus(s, p, c) \in Seq(S)
         /\ Len(Plus(s, p, c)) = Len(s) + 1
         /\ DOMAIN Plus(s, p, c) = 1 .. Len(s) + 1
         /\ Plus(s, p, c)[p] = c
         /\ \A i \in 1 .. p - 1 : Plus(s, p, c)[i] = s[i]
         /\ \A i \in p .. Len(s) : Plus(s, p, c)[i + 1] = s[i]
<1>1. Len(s) \in Nat /\ p \in Int
  OBVIOUS
<1>2. ASSUME NEW i \in 1 .. Len(s) + 1
      PROVE  (IF i < p THEN s[i] ELSE IF i = p THEN c ELSE s[i - 1]) \in S
  BY <1>1
<1>3. Plus(s, p, c) \in [1 .. Len(s) + 1 -> S]
  BY <1>1, <1>2 DEF Plus
<1> QED BY <1>1, <1>3 DEF Plus

LEMMA PlusType ==
  ASSUME NEW S, NEW s \in Seq(S), NEW p \in 1 .. Len(s) + 1, NEW c \in S
  PROVE  Plus(s, p, c) \in Seq(S) /\ Len(Plus(s, p, c)) = Len(s) + 1
BY PlusSequence

LEMMA MinusSequence ==
  ASSUME NEW S, NEW s \in Seq(S), NEW p \in 1 .. Len(s)
  PROVE  /\ Minus(s, p) \in Seq(S)
         /\ Len(Minus(s, p)) = Len(s) - 1
         /\ DOMAIN Minus(s, p) = 1 .. Len(s) - 1
         /\ \A i \in 1 .. p - 1 : Minus(s, p)[i] = s[i]
         /\ \A i \in p .. Len(s) - 1 : Minus(s, p)[i] = s[i + 1]
<1>1. Len(s) \in Nat /\ p \in Int /\ Len(s) - 1 \in Nat
  OBVIOUS
<1>2. ASSUME NEW i \in 1 .. Len(s) - 1
      PROVE  (IF i < p THEN s[i] ELSE s[i + 1]) \in S
  BY <1>1
<1>3. Minus(s, p) \in [1 .. Len(s) - 1 -> S]
  BY <1>1, <1>2 DEF Minus
<1> QED BY <1>1, <1>3 DEF Minus

\* The operators of the sequences module.
LEMMA InsertAtIsPlus ==
  ASSUME NEW S, NEW s \in Seq(S), NEW p \in 1 .. Len(s) + 1, NEW c \in S
  PROVE  InsertAt(s, p, c) = Plus(s, p, c)
<1> DEFINE a == SubSeq(s, 1, p - 1)
           b == SubSeq(s, p, Len(s))
           m == <<c>>
<1>1. Len(s) \in Nat /\ p \in Int /\ p - 1 \in 0 .. Len(s)
  OBVIOUS
<1>2. a \in Seq(S) /\ Len(a) = p - 1 /\ \A j \in 1 .. p - 1 : a[j] = s[j]
  BY <1>1
<1>3. b \in Seq(S) /\ Len(b) = Len(s) + 1 - p /\ \A j \in 1 .. Len(s) + 1 - p : b[j] = s[p - 1 + j]
  BY <1>1
<1>4. m \in Seq(S) /\ Len(m) = 1 /\ m[1] = c
  OBVIOUS
<1> HIDE DEF a, b, m
<1>5. /\ a \o m \in Seq(S) /\ Len(a \o m) = p
      /\ (a \o m)[p] = c
      /\ \A j \in 1 .. p - 1 : (a \o m)[j] = s[j]
  <2>1. a \o m \in Seq(S) /\ Len(a \o m) = Len(a) + Len(m)
    BY <1>2, <1>4, ConcatProperties
  <2>2. p > Len(a) /\ p <= Len(a) + Len(m) /\ p - Len(a) = 1 /\ Len(a) + Len(m) = p
    BY <1>1, <1>2, <1>4
  <2>3. (a \o m)[p] = m[p - Len(a)]
    BY <2>2, <1>2, <1>4, ConcatProperties
  <2>4. \A j \in 1 .. p - 1 : (a \o m)[j] = a[j]
    BY <1>1, <1>2, <1>4
  <2> QED BY <2>1, <2>2, <2>3, <2>4, <1>2, <1>4
<1> DEFINE am == a \o m
<1> HIDE DEF am
<1>6. am \in Seq(S) /\ Len(am) = p /\ am[p] = c /\ \A j \in 1 .. p - 1 : am[j] = s[j]
  BY <1>5 DEF am
<1>7. am \o b \in Seq(S) /\ Len(am \o b) = Len(s) + 1
  <2>1. am \o b \in Seq(S) /\ Len(am \o b) = Len(am) + Len(b)
    BY <1>3, <1>6, ConcatProperties
  <2> QED BY <2>1, <1>1, <1>3, <1>6
<1>8. ASSUME NEW j \in 1 .. Len(s) + 1
      PROVE  (am \o b)[j] = Plus(s, p, c)[j]
  <2>1. CASE j < p
    BY <2>1, <1>1, <1>3, <1>6 DEF Plus
  <2>2. CASE j = p
    BY <2>2, <1>1, <1>3, <1>6 DEF Plus
  <2>3. CASE j > p
    <3>1. j - p \in 1 .. Len(s) + 1 - p /\ p - 1 + (j - p) = j - 1
      BY <2>3, <1>1
    <3>2. (am \o b)[j] = b[j - p]
      <4>1. j > Len(am) /\ j <= Len(am) + Len(b) /\ j - Len(am) = j - p
        BY <3>1, <2>3, <1>1, <1>3, <1>6
      <4> QED BY <4>1, <1>3, <1>6, ConcatProperties
    <3>3. b[j - p] = s[j - 1]
      BY <3>1, <1>3
    <3>4. Plus(s, p, c)[j] = s[j - 1]
      BY <2>3, <1>1 DEF Plus
    <3> QED BY <3>2, <3>3, <3>4
  <2>4. j < p \/ j = p \/ j > p
    BY <1>1
  <2> QED BY <2>1, <2>2, <2>3, <2>4, Zenon
<1>9. Plus(s, p, c) \in Seq(S) /\ Len(Plus(s, p, c)) = Len(s) + 1
  BY PlusSequence
<1>10. am \o b = Plus(s, p, c)
  BY <1>7, <1>8, <1>9, SeqEqual
<1> QED BY <1>10 DEF InsertAt, am, a, m, b

LEMMA RemovedAt ==
  ASSUME NEW S, NEW s \in Seq(S), NEW i \in 1 .. Len(s)
  PROVE  /\ RemoveAt(s, i) \in Seq(S)
         /\ Len(RemoveAt(s, i)) = Len(s) - 1
         /\ \A j \in 1 .. Len(s) - 1 : RemoveAt(s, i)[j] = IF j < i THEN s[j] ELSE s[j + 1]
<1> DEFINE a == SubSeq(s, 1, i - 1)
           b == SubSeq(s, i + 1, Len(s))
<1>1. Len(s) \in Nat /\ i \in Int /\ i - 1 \in 0 .. Len(s) /\ i + 1 \in 1 .. Len(s) + 1
  OBVIOUS
<1>2. a \in Seq(S) /\ Len(a) = i - 1 /\ \A j \in 1 .. i - 1 : a[j] = s[j]
  BY <1>1
<1>3. b \in Seq(S) /\ Len(b) = Len(s) - i /\ \A j \in 1 .. Len(s) - i : b[j] = s[i + j]
  BY <1>1
<1> HIDE DEF a, b
<1>4. a \o b \in Seq(S) /\ Len(a \o b) = Len(s) - 1
  <2>1. a \o b \in Seq(S) /\ Len(a \o b) = Len(a) + Len(b)
    BY <1>2, <1>3, ConcatProperties
  <2> QED BY <2>1, <1>1, <1>2, <1>3
<1>5. ASSUME NEW j \in 1 .. Len(s) - 1
      PROVE  (a \o b)[j] = IF j < i THEN s[j] ELSE s[j + 1]
  <2>1. CASE j < i
    BY <2>1, <1>1, <1>2, <1>3
  <2>2. CASE ~(j < i)
    <3>1. j - (i - 1) \in 1 .. Len(s) - i /\ i + (j - (i - 1)) = j + 1 /\ j > i - 1
      BY <2>2, <1>1
    <3>2. (a \o b)[j] = b[j - (i - 1)]
      <4>1. j \in 1 .. Len(a) + Len(b) /\ ~(j <= Len(a)) /\ j - Len(a) = j - (i - 1)
        BY <3>1, <1>1, <1>2, <1>3
      <4>2. (a \o b)[j] = IF j <= Len(a) THEN a[j] ELSE b[j - Len(a)]
        BY <4>1, <1>2, <1>3, ConcatProperties
      <4> QED BY <4>1, <4>2
    <3>3. b[j - (i - 1)] = s[j + 1]
      BY <3>1, <1>3
    <3> QED BY <2>2, <3>2, <3>3
  <2> QED BY <2>1, <2>2
<1> QED BY <1>4, <1>5 DEF RemoveAt, a, b

LEMMA RemoveAtIsMinus ==
  ASSUME NEW S, NEW s \in Seq(S), NEW p \in 1 .. Len(s)
  PROVE  RemoveAt(s, p) = Minus(s, p)
<1>1. /\ RemoveAt(s, p) \in Seq(S)
      /\ Len(RemoveAt(s, p)) = Len(s) - 1
      /\ \A j \in 1 .. Len(s) - 1 : RemoveAt(s, p)[j] = IF j < p THEN s[j] ELSE s[j + 1]
  BY RemovedAt
<1>2. Minus(s, p) \in Seq(S) /\ Len(Minus(s, p)) = Len(s) - 1
  BY MinusSequence
<1>3. \A j \in 1 .. Len(s) - 1 : RemoveAt(s, p)[j] = Minus(s, p)[j]
  BY <1>1 DEF Minus
<1> QED BY <1>1, <1>2, <1>3, SeqEqual

\* Putting in and leaving out at either end.
LEMMA EndsOfSequence ==
  ASSUME NEW S, NEW s \in Seq(S), NEW c \in S
  PROVE  /\ <<c>> \o s = Plus(s, 1, c)
         /\ Append(s, c) = Plus(s, Len(s) + 1, c)
         /\ s # <<>> => Tail(s) = Minus(s, 1) /\ Front(s) = Minus(s, Len(s))
<1>1. Len(s) \in Nat /\ 1 \in 1 .. Len(s) + 1 /\ Len(s) + 1 \in 1 .. Len(s) + 1
  OBVIOUS
<1>2. /\ Plus(s, 1, c) \in Seq(S) /\ Len(Plus(s, 1, c)) = Len(s) + 1
      /\ Plus(s, Len(s) + 1, c) \in Seq(S) /\ Len(Plus(s, Len(s) + 1, c)) = Len(s) + 1
  BY <1>1, PlusType
<1>3. <<c>> \o s = Plus(s, 1, c)
  <2> DEFINE m == <<c>>
  <2>1. m \in Seq(S) /\ Len(m) = 1 /\ m[1] = c
    OBVIOUS
  <2> HIDE DEF m
  <2>2. /\ m \o s \in Seq(S) /\ Len(m \o s) = Len(s) + 1
        /\ \A i \in 1 .. 1 + Len(s) : (m \o s)[i] = IF i <= 1 THEN m[i] ELSE s[i - 1]
    <3>1. /\ m \o s \in Seq(S) /\ Len(m \o s) = Len(m) + Len(s)
          /\ \A i \in 1 .. Len(m) + Len(s) : (m \o s)[i] = IF i <= Len(m) THEN m[i] ELSE s[i - Len(m)]
      BY <2>1, ConcatProperties
    <3> QED BY <3>1, <2>1, <1>1
  <2>3. \A i \in 1 .. Len(s) + 1 : (m \o s)[i] = Plus(s, 1, c)[i]
    BY <2>1, <2>2, <1>1 DEF Plus
  <2>4. m \o s = Plus(s, 1, c)
    BY <1>2, <2>2, <2>3, SeqEqual
  <2> QED BY <2>4 DEF m
<1>4. Append(s, c) = Plus(s, Len(s) + 1, c)
  <2>1. Append(s, c) \in Seq(S) /\ Len(Append(s, c)) = Len(s) + 1
    OBVIOUS
  <2>2. \A i \in 1 .. Len(s) + 1 : Append(s, c)[i] = Plus(s, Len(s) + 1, c)[i]
    BY <1>1 DEF Plus
  <2> QED BY <1>2, <2>1, <2>2, SeqEqual
<1>5. ASSUME s # <<>> PROVE Tail(s) = Minus(s, 1) /\ Front(s) = Minus(s, Len(s))
  <2>1. Len(s) \in 1 .. Len(s) /\ 1 \in 1 .. Len(s)
    BY <1>5, <1>1, EmptySeq
  <2>2. /\ Minus(s, 1) \in Seq(S) /\ Len(Minus(s, 1)) = Len(s) - 1
        /\ Minus(s, Len(s)) \in Seq(S) /\ Len(Minus(s, Len(s))) = Len(s) - 1
    BY <2>1, MinusSequence
  <2>3. Tail(s) \in Seq(S) /\ Len(Tail(s)) = Len(s) - 1 /\ \A i \in 1 .. Len(s) - 1 : Tail(s)[i] = s[i + 1]
    BY <1>5
  <2>4. Front(s) \in Seq(S) /\ Len(Front(s)) = Len(s) - 1 /\ \A i \in 1 .. Len(s) - 1 : Front(s)[i] = s[i]
    BY <2>1 DEF Front
  <2>5. /\ \A i \in 1 .. Len(s) - 1 : Tail(s)[i] = Minus(s, 1)[i]
        /\ \A i \in 1 .. Len(s) - 1 : Front(s)[i] = Minus(s, Len(s))[i]
    BY <2>3, <2>4, <1>1 DEF Minus
  <2> QED BY <2>2, <2>3, <2>4, <2>5, SeqEqual
<1> QED BY <1>3, <1>4, <1>5, Zenon

\* The links back are a chain of the reversed order, which changes with it.
LEMMA ReversedSequence ==
  ASSUME NEW S, NEW s \in Seq(S)
  PROVE  /\ Reverse(s) \in Seq(S) /\ Len(Reverse(s)) = Len(s)
         /\ \A i \in 1 .. Len(s) : Reverse(s)[i] = s[Len(s) + 1 - i]
<1>1. Reverse(s) \in [1 .. Len(s) -> S]
  BY DEF Reverse
<1>2. Len(s) \in Nat /\ \A i \in 1 .. Len(s) : Reverse(s)[i] = s[(Len(s) - i) + 1]
  BY DEF Reverse
<1>3. \A i \in 1 .. Len(s) : (Len(s) - i) + 1 = Len(s) + 1 - i
  BY <1>2
<1> QED BY <1>1, <1>2, <1>3

LEMMA ReverseOfPlus ==
  ASSUME NEW S, NEW s \in Seq(S), NEW p \in 1 .. Len(s) + 1, NEW c \in S
  PROVE  Reverse(Plus(s, p, c)) = Plus(Reverse(s), Len(s) + 2 - p, c)
<1> DEFINE q == Len(s) + 2 - p
           t == Plus(s, p, c)
           r == Reverse(s)
<1>1. Len(s) \in Nat /\ p \in Int /\ q \in 1 .. Len(s) + 1
  OBVIOUS
<1>2. t \in Seq(S) /\ Len(t) = Len(s) + 1
  BY PlusSequence
<1>3. r \in Seq(S) /\ Len(r) = Len(s) /\ \A i \in 1 .. Len(s) : r[i] = s[Len(s) + 1 - i]
  BY ReversedSequence
<1> HIDE DEF r
<1>4. Plus(r, q, c) \in Seq(S) /\ Len(Plus(r, q, c)) = Len(s) + 1
  <2> HIDE DEF q
  <2>1. q \in 1 .. Len(r) + 1
    BY <1>1, <1>3
  <2>2. Plus(r, q, c) \in Seq(S) /\ Len(Plus(r, q, c)) = Len(r) + 1
    BY <1>3, <2>1, PlusType
  <2> QED BY <2>2, <1>3
<1>5. Reverse(t) \in Seq(S) /\ Len(Reverse(t)) = Len(s) + 1
      /\ \A i \in 1 .. Len(s) + 1 : Reverse(t)[i] = t[Len(s) + 2 - i]
  <2> HIDE DEF t
  <2>1. Reverse(t) \in Seq(S) /\ Len(Reverse(t)) = Len(t)
        /\ \A i \in 1 .. Len(t) : Reverse(t)[i] = t[Len(t) + 1 - i]
    BY <1>2, ReversedSequence
  <2>2. \A i \in 1 .. Len(s) + 1 : Len(t) + 1 - i = Len(s) + 2 - i
    BY <1>1, <1>2
  <2> QED BY <2>1, <2>2, <1>2
<1>6. ASSUME NEW i \in 1 .. Len(s) + 1
      PROVE  Plus(r, q, c)[i] = t[Len(s) + 2 - i]
  <2>1. Len(s) + 2 - i \in 1 .. Len(s) + 1
    BY <1>1
  <2>2. CASE i < q
    <3>1. i \in 1 .. Len(s) /\ Len(s) + 2 - i > p /\ (Len(s) + 2 - i) - 1 = Len(s) + 1 - i
      BY <2>2, <1>1
    <3>2. Plus(r, q, c)[i] = r[i]
      BY <2>2, <1>3 DEF Plus
    <3>3. t[Len(s) + 2 - i] = s[(Len(s) + 2 - i) - 1]
      BY <2>1, <3>1, <1>1 DEF Plus
    <3> QED BY <3>1, <3>2, <3>3, <1>3
  <2>3. CASE i = q
    <3>1. Len(s) + 2 - i = p
      BY <2>3, <1>1
    <3>2. Plus(r, q, c)[i] = c
      BY <2>3, <1>1, <1>3 DEF Plus
    <3>3. t[p] = c
      BY PlusSequence
    <3> QED BY <3>1, <3>2, <3>3
  <2>4. CASE i > q
    <3>1. i - 1 \in 1 .. Len(s) /\ Len(s) + 2 - i < p /\ Len(s) + 1 - (i - 1) = Len(s) + 2 - i
      BY <2>4, <1>1
    <3>2. Plus(r, q, c)[i] = r[i - 1]
      BY <2>4, <1>1, <1>3 DEF Plus
    <3>3. t[Len(s) + 2 - i] = s[Len(s) + 2 - i]
      BY <2>1, <3>1, <1>1 DEF Plus
    <3>4. r[i - 1] = s[Len(s) + 1 - (i - 1)]
      BY <3>1, <1>3
    <3> QED BY <3>1, <3>2, <3>3, <3>4
  <2>5. i < q \/ i = q \/ i > q
    BY <1>1
  <2> QED BY <2>2, <2>3, <2>4, <2>5, Zenon
<1>7. Reverse(t) = Plus(r, q, c)
  <2> HIDE DEF t, q
  <2>1. \A i \in 1 .. Len(s) + 1 : Reverse(t)[i] = Plus(r, q, c)[i]
    BY <1>5, <1>6
  <2> QED BY <1>4, <1>5, <2>1, SeqEqual
<1> QED BY <1>7 DEF r

LEMMA ReverseOfMinus ==
  ASSUME NEW S, NEW s \in Seq(S), NEW p \in 1 .. Len(s)
  PROVE  Reverse(Minus(s, p)) = Minus(Reverse(s), Len(s) + 1 - p)
<1> DEFINE q == Len(s) + 1 - p
           t == Minus(s, p)
           r == Reverse(s)
<1>1. Len(s) \in Nat /\ p \in Int /\ q \in 1 .. Len(s) /\ Len(s) - 1 \in Nat
  OBVIOUS
<1>2. t \in Seq(S) /\ Len(t) = Len(s) - 1
  BY MinusSequence
<1>3. r \in Seq(S) /\ Len(r) = Len(s) /\ \A i \in 1 .. Len(s) : r[i] = s[Len(s) + 1 - i]
  BY ReversedSequence
<1> HIDE DEF r
<1>4. Minus(r, q) \in Seq(S) /\ Len(Minus(r, q)) = Len(s) - 1
  BY <1>1, <1>3, MinusSequence
<1>5. Reverse(t) \in Seq(S) /\ Len(Reverse(t)) = Len(s) - 1
      /\ \A i \in 1 .. Len(s) - 1 : Reverse(t)[i] = t[Len(s) - i]
  <2> HIDE DEF t
  <2>1. Reverse(t) \in Seq(S) /\ Len(Reverse(t)) = Len(t)
        /\ \A i \in 1 .. Len(t) : Reverse(t)[i] = t[Len(t) + 1 - i]
    BY <1>2, ReversedSequence
  <2>2. \A i \in 1 .. Len(s) - 1 : Len(t) + 1 - i = Len(s) - i
    BY <1>1, <1>2
  <2> QED BY <2>1, <2>2, <1>2
<1>6. ASSUME NEW i \in 1 .. Len(s) - 1
      PROVE  Minus(r, q)[i] = t[Len(s) - i]
  <2>1. Len(s) - i \in 1 .. Len(s) - 1
    BY <1>1
  <2>2. CASE i < q
    <3>1. i \in 1 .. Len(s) /\ ~(Len(s) - i < p) /\ (Len(s) - i) + 1 = Len(s) + 1 - i
      BY <2>2, <1>1
    <3>2. Minus(r, q)[i] = r[i]
      BY <2>2, <1>3 DEF Minus
    <3>3. t[Len(s) - i] = s[(Len(s) - i) + 1]
      BY <2>1, <3>1, <1>1 DEF Minus
    <3> QED BY <3>1, <3>2, <3>3, <1>3
  <2>3. CASE ~(i < q)
    <3>1. i + 1 \in 1 .. Len(s) /\ Len(s) - i < p /\ Len(s) + 1 - (i + 1) = Len(s) - i
      BY <2>3, <1>1
    <3>2. Minus(r, q)[i] = r[i + 1]
      BY <2>3, <1>1, <1>3 DEF Minus
    <3>3. t[Len(s) - i] = s[Len(s) - i]
      BY <2>1, <3>1, <1>1 DEF Minus
    <3>4. r[i + 1] = s[Len(s) + 1 - (i + 1)]
      BY <3>1, <1>3
    <3> QED BY <3>1, <3>2, <3>3, <3>4
  <2> QED BY <2>2, <2>3
<1>7. Reverse(t) = Minus(r, q)
  <2> HIDE DEF t, q
  <2>1. \A i \in 1 .. Len(s) - 1 : Reverse(t)[i] = Minus(r, q)[i]
    BY <1>5, <1>6
  <2> QED BY <1>4, <1>5, <2>1, SeqEqual
<1> QED BY <1>7 DEF r

\* A new cell put in, or one left out, leaves no repetition and covers what it
\* should.
LEMMA PlusDistinct ==
  ASSUME NEW S, NEW s \in Seq(S), Distinct(s), NEW c, c \notin S, NEW p \in 1 .. Len(s) + 1
  PROVE  Distinct(Plus(s, p, c)) /\ Covers(Plus(s, p, c), {c})
         /\ \A cells : Covers(s, cells) => Covers(Plus(s, p, c), cells)
<1> DEFINE t == Plus(s, p, c)
<1>1. Len(s) \in Nat /\ p \in Int
  OBVIOUS
<1>2. /\ Len(t) = Len(s) + 1 /\ t[p] = c /\ p \in 1 .. Len(t)
      /\ \A i \in 1 .. p - 1 : t[i] = s[i]
      /\ \A i \in p .. Len(s) : t[i + 1] = s[i]
  <2> DEFINE T == S \cup {c}
  <2>1. s \in Seq(T) /\ c \in T
    OBVIOUS
  <2> HIDE DEF T
  <2>2. /\ Len(t) = Len(s) + 1 /\ t[p] = c
        /\ \A i \in 1 .. p - 1 : t[i] = s[i]
        /\ \A i \in p .. Len(s) : t[i + 1] = s[i]
    BY <2>1, PlusSequence
  <2> QED BY <1>1, <2>2
<1> HIDE DEF t
<1>3. ASSUME NEW i \in 1 .. Len(t), i # p
      PROVE  \E k \in 1 .. Len(s) : t[i] = s[k] /\ k = IF i < p THEN i ELSE i - 1
  <2>1. CASE i < p
    BY <2>1, <1>1, <1>2
  <2>2. CASE ~(i < p)
    <3>1. i - 1 \in p .. Len(s) /\ (i - 1) + 1 = i /\ i - 1 \in 1 .. Len(s)
      BY <2>2, <1>1, <1>2, <1>3
    <3> QED BY <3>1, <1>2, <2>2
  <2> QED BY <2>1, <2>2
<1>4. ASSUME NEW i \in 1 .. Len(t), NEW j \in 1 .. Len(t), t[i] = t[j]
      PROVE  i = j
  <2>1. \A k \in 1 .. Len(s) : s[k] # c
    OBVIOUS
  <2>2. CASE i = p \/ j = p
    BY <2>1, <2>2, <1>2, <1>3, <1>4
  <2>3. CASE i # p /\ j # p
    <3>1. PICK k \in 1 .. Len(s) : t[i] = s[k] /\ k = IF i < p THEN i ELSE i - 1
      BY <1>3, <2>3
    <3>2. PICK l \in 1 .. Len(s) : t[j] = s[l] /\ l = IF j < p THEN j ELSE j - 1
      BY <1>3, <2>3
    <3>3. k = l
      BY <3>1, <3>2, <1>4 DEF Distinct
    <3> QED BY <3>1, <3>2, <3>3, <2>3, <1>1, <1>2
  <2> QED BY <2>2, <2>3
<1>5. ASSUME NEW i \in 1 .. Len(s) PROVE \E k \in 1 .. Len(t) : t[k] = s[i]
  <2>1. CASE i < p
    <3>1. i \in 1 .. p - 1 /\ i \in 1 .. Len(t)
      BY <2>1, <1>1, <1>2
    <3> QED BY <3>1, <1>2
  <2>2. CASE ~(i < p)
    <3>1. i \in p .. Len(s) /\ i + 1 \in 1 .. Len(t)
      BY <2>2, <1>1, <1>2
    <3> QED BY <3>1, <1>2
  <2> QED BY <2>1, <2>2
<1>6. ASSUME NEW cells, Covers(s, cells) PROVE Covers(t, cells)
  BY <1>5, <1>6 DEF Covers
<1> QED BY <1>2, <1>4, <1>6 DEF Distinct, Covers, t

LEMMA MinusDistinct ==
  ASSUME NEW S, NEW s \in Seq(S), Distinct(s), NEW p \in 1 .. Len(s)
  PROVE  Distinct(Minus(s, p)) /\ Minus(s, p) \in Seq(S \ {s[p]})
         /\ \A cells : Covers(s, cells) => Covers(Minus(s, p), cells \ {s[p]})
<1> DEFINE t == Minus(s, p)
<1>1. Len(s) \in Nat /\ p \in Int /\ Len(s) - 1 \in Nat
  OBVIOUS
<1>2. /\ t \in Seq(S) /\ Len(t) = Len(s) - 1
      /\ \A i \in 1 .. p - 1 : t[i] = s[i]
      /\ \A i \in p .. Len(s) - 1 : t[i] = s[i + 1]
  BY <1>1, MinusSequence
<1> HIDE DEF t
<1>3. ASSUME NEW i \in 1 .. Len(t)
      PROVE  \E k \in 1 .. Len(s) : k # p /\ t[i] = s[k] /\ k = IF i < p THEN i ELSE i + 1
  <2>1. CASE i < p
    BY <2>1, <1>1, <1>2
  <2>2. CASE ~(i < p)
    <3>1. i \in p .. Len(s) - 1 /\ i + 1 \in 1 .. Len(s) /\ i + 1 # p
      BY <2>2, <1>1, <1>2
    <3> QED BY <3>1, <1>2, <2>2
  <2> QED BY <2>1, <2>2
<1>4. ASSUME NEW i \in 1 .. Len(t), NEW j \in 1 .. Len(t), t[i] = t[j]
      PROVE  i = j
  <2>1. PICK k \in 1 .. Len(s) : t[i] = s[k] /\ k = IF i < p THEN i ELSE i + 1
    BY <1>3
  <2>2. PICK l \in 1 .. Len(s) : t[j] = s[l] /\ l = IF j < p THEN j ELSE j + 1
    BY <1>3
  <2>3. k = l
    BY <2>1, <2>2, <1>4 DEF Distinct
  <2> QED BY <2>1, <2>2, <2>3, <1>1, <1>2
<1>5. \A i \in 1 .. Len(t) : t[i] \in S \ {s[p]}
  BY <1>3 DEF Distinct
<1>6. ASSUME NEW i \in 1 .. Len(s), i # p PROVE \E k \in 1 .. Len(t) : t[k] = s[i]
  <2>1. CASE i < p
    <3>1. i \in 1 .. p - 1 /\ i \in 1 .. Len(t)
      BY <2>1, <1>1, <1>2
    <3> QED BY <3>1, <1>2
  <2>2. CASE ~(i < p)
    <3>1. i - 1 \in p .. Len(s) - 1 /\ (i - 1) + 1 = i /\ i - 1 \in 1 .. Len(t)
      BY <2>2, <1>1, <1>2, <1>6
    <3> QED BY <3>1, <1>2
  <2> QED BY <2>1, <2>2
<1>7. ASSUME NEW cells, Covers(s, cells) PROVE Covers(t, cells \ {s[p]})
  BY <1>6, <1>7 DEF Covers
<1>8. t \in Seq(S \ {s[p]})
  <2>1. Len(t) \in Nat /\ t = [i \in 1 .. Len(t) |-> t[i]]
    BY <1>2
  <2> QED BY <2>1, <1>5
<1> QED BY <1>4, <1>7, <1>8 DEF Distinct, t

\* The links with the new cell c at place p of the chain s, and without the
\* cell at place p.
Spliced(s, p, c, next, next2, null) ==
  /\ p \in 1 .. Len(s) + 1 /\ c \notin DOMAIN next
  /\ DOMAIN next2 = DOMAIN next \cup {c}
  /\ next2[c] = Nth(s, p, null)
  /\ p > 1 => next2[s[p - 1]] = c
  /\ \A i \in 1 .. Len(s) : i # p - 1 => next2[s[i]] = next[s[i]]

\* Links next2 that go past the cell at place p of a chain.
Unlinked(s, p, next, next2) ==
  /\ p \in 1 .. Len(s)
  /\ DOMAIN next2 = DOMAIN next \ {s[p]}
  /\ p > 1 => next2[s[p - 1]] = next[s[p]]
  /\ \A i \in 1 .. Len(s) : i # p /\ i # p - 1 => next2[s[i]] = next[s[i]]

\* The chain goes on through the cell that was linked in, or past the one that
\* was not.
LEMMA ChainPlus ==
  ASSUME NEW s, NEW x, NEW next, NEW null, Chain(s, x, next, null),
         NEW p, NEW c, NEW next2, Spliced(s, p, c, next, next2, null)
  PROVE  Chain(Plus(s, p, c), IF p = 1 THEN c ELSE x, next2, null)
<1> USE DEF Spliced
<1> DEFINE x2 == IF p = 1 THEN c ELSE x t == Plus(s, p, c)
<1>1. s \in Seq(DOMAIN next) /\ Len(s) \in Nat /\ p \in Int
      /\ s \in Seq(DOMAIN next2) /\ c \in DOMAIN next2
  BY DEF Chain
<1>2. /\ t \in Seq(DOMAIN next2) /\ Len(t) = Len(s) + 1 /\ t[p] = c
      /\ \A i \in 1 .. p - 1 : t[i] = s[i]
      /\ \A i \in p .. Len(s) : t[i + 1] = s[i]
  <2> DEFINE T == DOMAIN next2
  <2>1. s \in Seq(T) /\ c \in T /\ p \in 1 .. Len(s) + 1
    BY <1>1
  <2> HIDE DEF T
  <2>2. /\ t \in Seq(T) /\ Len(t) = Len(s) + 1 /\ t[p] = c
        /\ \A i \in 1 .. p - 1 : t[i] = s[i]
        /\ \A i \in p .. Len(s) : t[i + 1] = s[i]
    BY <2>1, PlusSequence
  <2> QED BY <2>2 DEF T
<1>3. Distinct(t)
  <2> DEFINE S == DOMAIN next
  <2>1. s \in Seq(S) /\ Distinct(s) /\ c \notin S /\ p \in 1 .. Len(s) + 1
    BY DEF Chain
  <2> HIDE DEF S
  <2> QED BY <2>1, PlusDistinct, Zenon
<1> HIDE DEF t
<1>4. x2 = Nth(t, 1, null)
  <2>1. CASE p = 1
    BY <2>1, <1>1, <1>2 DEF Nth
  <2>2. CASE p # 1
    <3>1. 1 \in 1 .. p - 1 /\ 1 \in 1 .. Len(s) /\ 1 \in 1 .. Len(t)
      BY <2>2, <1>1, <1>2
    <3> QED BY <3>1, <2>2, <1>2 DEF Nth, Chain
  <2> QED BY <2>1, <2>2
<1>5. ASSUME NEW i \in 1 .. Len(t)
      PROVE  next2[t[i]] = Nth(t, i + 1, null)
  <2>0. \A j \in 1 .. Len(s) : next[s[j]] = Nth(s, j + 1, null)
    BY DEF Chain
  <2>1. CASE i < p - 1
    <3>1. i \in 1 .. p - 1 /\ i + 1 \in 1 .. p - 1 /\ i \in 1 .. Len(s) /\ i + 1 \in 1 .. Len(s)
          /\ i + 1 \in 1 .. Len(t) /\ i # p - 1
      BY <2>1, <1>1, <1>2
    <3>2. next2[s[i]] = s[i + 1]
      <4>1. next2[s[i]] = next[s[i]] /\ next[s[i]] = Nth(s, i + 1, null)
        BY <3>1, <2>0
      <4> QED BY <4>1, <3>1 DEF Nth
    <3> QED BY <3>1, <3>2, <1>2 DEF Nth
  <2>2. CASE i = p - 1
    <3>1. i \in 1 .. p - 1 /\ i + 1 = p /\ p > 1 /\ p \in 1 .. Len(t)
      BY <2>2, <1>1, <1>2
    <3> QED BY <2>2, <3>1, <1>2 DEF Nth
  <2>3. CASE i = p
    <3>1. CASE p <= Len(s)
      <4>1. p \in p .. Len(s) /\ p \in 1 .. Len(s) /\ p + 1 \in 1 .. Len(t)
        BY <3>1, <1>1, <1>2
      <4> QED BY <4>1, <2>3, <1>2 DEF Nth
    <3>2. CASE ~(p <= Len(s))
      <4>1. p \notin 1 .. Len(s) /\ p + 1 \notin 1 .. Len(t)
        BY <3>2, <1>1, <1>2
      <4> QED BY <4>1, <2>3, <1>2 DEF Nth
    <3> QED BY <3>1, <3>2
  <2>4. CASE i > p
    <3>1. i - 1 \in 1 .. Len(s) /\ i - 1 \in p .. Len(s) /\ (i - 1) + 1 = i /\ i - 1 # p - 1
      BY <2>4, <1>1, <1>2
    <3>2. t[i] = s[i - 1] /\ next2[t[i]] = Nth(s, i, null)
      <4>1. t[i] = s[i - 1]
        BY <3>1, <1>2
      <4>2. next2[s[i - 1]] = next[s[i - 1]] /\ next[s[i - 1]] = Nth(s, (i - 1) + 1, null)
        BY <3>1, <2>0
      <4> QED BY <4>1, <4>2, <3>1
    <3>3. CASE i <= Len(s)
      <4>1. i \in p .. Len(s) /\ i \in 1 .. Len(s) /\ i + 1 \in 1 .. Len(t)
        BY <3>3, <2>4, <1>1, <1>2
      <4> QED BY <4>1, <3>2, <1>2 DEF Nth
    <3>4. CASE ~(i <= Len(s))
      <4>1. i \notin 1 .. Len(s) /\ i + 1 \notin 1 .. Len(t)
        BY <3>4, <1>1, <1>2
      <4> QED BY <4>1, <3>2 DEF Nth
    <3> QED BY <3>3, <3>4
  <2>5. i < p - 1 \/ i = p - 1 \/ i = p \/ i > p
    BY <1>1
  <2> QED BY <2>1, <2>2, <2>3, <2>4, <2>5, Zenon
<1> QED BY <1>2, <1>3, <1>4, <1>5 DEF Chain, t

LEMMA ChainMinus ==
  ASSUME NEW s, NEW x, NEW next, NEW null, Chain(s, x, next, null),
         NEW p, NEW next2, Unlinked(s, p, next, next2)
  PROVE  Chain(Minus(s, p), IF p = 1 THEN next[x] ELSE x, next2, null)
<1> USE DEF Unlinked
<1> DEFINE x2 == IF p = 1 THEN next[x] ELSE x t == Minus(s, p)
<1>1. s \in Seq(DOMAIN next) /\ Len(s) \in Nat /\ p \in Int /\ Distinct(s)
  BY DEF Chain
<1>2. /\ Len(t) = Len(s) - 1
      /\ \A i \in 1 .. p - 1 : t[i] = s[i]
      /\ \A i \in p .. Len(s) - 1 : t[i] = s[i + 1]
  <2> DEFINE S == DOMAIN next
  <2>1. s \in Seq(S)
    BY <1>1
  <2> HIDE DEF S
  <2> QED BY <2>1, MinusSequence
<1>3. Distinct(t) /\ t \in Seq(DOMAIN next2)
  BY <1>1, MinusDistinct
<1> HIDE DEF t
<1>4. \A j \in 1 .. Len(s) : next[s[j]] = Nth(s, j + 1, null)
  BY DEF Chain
<1>5. x2 = Nth(t, 1, null)
  <2>1. CASE p = 1
    <3>1. x = s[1] /\ next[x] = Nth(s, 2, null)
      BY <2>1, <1>1, <1>4 DEF Chain, Nth
    <3>2. CASE Len(s) = 1
      BY <3>1, <3>2, <2>1, <1>2 DEF Nth
    <3>3. CASE Len(s) # 1
      <4>1. 1 \in p .. Len(s) - 1 /\ 2 \in 1 .. Len(s) /\ 1 \in 1 .. Len(t) /\ 1 + 1 = 2
        BY <3>3, <2>1, <1>1, <1>2
      <4> QED BY <4>1, <3>1, <2>1, <1>2 DEF Nth
    <3> QED BY <3>2, <3>3
  <2>2. CASE p # 1
    <3>1. 1 \in 1 .. p - 1 /\ 1 \in 1 .. Len(s) /\ 1 \in 1 .. Len(t)
      BY <2>2, <1>1, <1>2
    <3> QED BY <3>1, <2>2, <1>2 DEF Nth, Chain
  <2> QED BY <2>1, <2>2
<1>6. ASSUME NEW i \in 1 .. Len(t)
      PROVE  next2[t[i]] = Nth(t, i + 1, null)
  <2>1. CASE i < p - 1
    <3>1. i \in 1 .. p - 1 /\ i + 1 \in 1 .. p - 1 /\ i \in 1 .. Len(s) /\ i + 1 \in 1 .. Len(s)
          /\ i + 1 \in 1 .. Len(t) /\ i # p - 1 /\ i # p
      BY <2>1, <1>1, <1>2
    <3>2. next2[s[i]] = s[i + 1]
      BY <3>1, <1>4 DEF Nth
    <3> QED BY <3>1, <3>2, <1>2 DEF Nth
  <2>2. CASE i = p - 1
    <3>1. i \in 1 .. p - 1 /\ i + 1 = p /\ p > 1
      BY <2>2, <1>1, <1>2
    <3>2. next2[t[i]] = Nth(s, p + 1, null)
      BY <2>2, <3>1, <1>2, <1>4
    <3>3. CASE p < Len(s)
      <4>1. p \in p .. Len(s) - 1 /\ p + 1 \in 1 .. Len(s) /\ p \in 1 .. Len(t)
        BY <3>3, <1>1, <1>2
      <4> QED BY <4>1, <3>1, <3>2, <1>2 DEF Nth
    <3>4. CASE ~(p < Len(s))
      <4>1. p + 1 \notin 1 .. Len(s) /\ p \notin 1 .. Len(t)
        BY <3>4, <1>1, <1>2
      <4> QED BY <4>1, <3>1, <3>2 DEF Nth
    <3> QED BY <3>3, <3>4
  <2>3. CASE i >= p
    <3>1. i \in p .. Len(s) - 1 /\ i + 1 \in 1 .. Len(s) /\ i + 1 # p /\ i + 1 # p - 1
      BY <2>3, <1>1, <1>2
    <3>2. t[i] = s[i + 1] /\ next2[t[i]] = Nth(s, (i + 1) + 1, null)
      BY <3>1, <1>2, <1>4
    <3>3. CASE i + 1 < Len(s)
      <4>1. i + 1 \in p .. Len(s) - 1 /\ (i + 1) + 1 \in 1 .. Len(s) /\ i + 1 \in 1 .. Len(t)
        BY <3>3, <2>3, <1>1, <1>2
      <4> QED BY <4>1, <3>2, <1>2 DEF Nth
    <3>4. CASE ~(i + 1 < Len(s))
      <4>1. (i + 1) + 1 \notin 1 .. Len(s) /\ i + 1 \notin 1 .. Len(t)
        BY <3>4, <1>1, <1>2
      <4> QED BY <4>1, <3>2 DEF Nth
    <3> QED BY <3>3, <3>4
  <2>4. i < p - 1 \/ i = p - 1 \/ i >= p
    BY <1>1
  <2> QED BY <2>1, <2>2, <2>3, <2>4, Zenon
<1> QED BY <1>3, <1>5, <1>6 DEF Chain, t

\* A chain depends on the links of its own cells only.
LEMMA ChainKept ==
  ASSUME NEW next, NEW null, NEW x, NEW s, Chain(s, x, next, null),
         NEW next2, \A i \in 1 .. Len(s) : s[i] \in DOMAIN next2 /\ next2[s[i]] = next[s[i]]
  PROVE  Chain(s, x, next2, null)
<1>1. s = [i \in 1 .. Len(s) |-> s[i]] /\ Len(s) \in Nat
  BY DEF Chain
<1>2. s \in Seq(DOMAIN next2)
  BY <1>1
<1> QED BY <1>2 DEF Chain

(* The places of cells in a chain *)

\* In a chain Place finds the one place of a cell, also after a cell was put in
\* or left out.
LEMMA PlaceOf ==
  ASSUME NEW S, NEW s \in Seq(S), Distinct(s)
  PROVE  /\ \A i \in 1 .. Len(s) : Place(s[i], s) = i
         /\ \A x : (\A i \in 1 .. Len(s) : s[i] # x) => Place(x, s) = 0
<1>1. DOMAIN s = 1 .. Len(s) /\ Len(s) \in Nat
  OBVIOUS
<1>2. ASSUME NEW i \in 1 .. Len(s) PROVE Place(s[i], s) = i
  <2>1. \A k \in DOMAIN s : (s[k] = s[i] /\ \A j \in 1 .. k - 1 : s[j] # s[i]) <=> k = i
    <3>1. \A k \in DOMAIN s : s[k] = s[i] <=> k = i
      BY <1>1 DEF Distinct
    <3>2. \A j \in 1 .. i - 1 : j \in DOMAIN s /\ j # i
      BY <1>1
    <3> QED BY <3>1, <3>2
  <2> QED BY <1>1, <2>1 DEF Place
<1>3. ASSUME NEW x, \A i \in 1 .. Len(s) : s[i] # x PROVE Place(x, s) = 0
  BY <1>1, <1>3 DEF Place
<1> QED BY <1>2, <1>3

LEMMA PlaceIn ==
  ASSUME NEW S, NEW s \in Seq(S), Distinct(s), NEW x
  PROVE  /\ Place(x, s) \in 0 .. Len(s)
         /\ Place(x, s) # 0 => s[Place(x, s)] = x
         /\ Place(x, s) = 0 => \A i \in 1 .. Len(s) : s[i] # x
<1>1. CASE \E i \in 1 .. Len(s) : s[i] = x
  BY <1>1, PlaceOf
<1>2. CASE \A i \in 1 .. Len(s) : s[i] # x
  BY <1>2, PlaceOf
<1> QED BY <1>1, <1>2

LEMMA PlacePlus ==
  ASSUME NEW S, NEW s \in Seq(S), Distinct(s), NEW p \in 1 .. Len(s) + 1,
         NEW c, c \notin S, NEW x, x # c
  PROVE  Place(x, Plus(s, p, c)) =
           IF Place(x, s) < p THEN Place(x, s) ELSE Place(x, s) + 1
<1> DEFINE t == Plus(s, p, c)
           k == Place(x, s)
<1>1. Len(s) \in Nat /\ p \in Int /\ k \in 0 .. Len(s)
      /\ (k # 0 => s[k] = x) /\ (k = 0 => \A i \in 1 .. Len(s) : s[i] # x)
  BY PlaceIn
<1>2. s \in Seq(S \cup {c}) /\ c \in S \cup {c}
  OBVIOUS
<1>3. /\ t \in Seq(S \cup {c}) /\ Len(t) = Len(s) + 1 /\ t[p] = c
      /\ \A i \in 1 .. p - 1 : t[i] = s[i]
      /\ \A i \in p .. Len(s) : t[i + 1] = s[i]
  BY <1>2, PlusSequence
<1>4. Distinct(t)
  BY PlusDistinct
<1> HIDE DEF t, k
<1>5. /\ \A i \in 1 .. Len(t) : Place(t[i], t) = i
      /\ (\A i \in 1 .. Len(t) : t[i] # x) => Place(x, t) = 0
  BY <1>3, <1>4, PlaceOf
<1>6. CASE k = 0
  <2>1. ASSUME NEW i \in 1 .. Len(t) PROVE t[i] # x
    <3>1. CASE i < p
      <4>1. i \in 1 .. p - 1 /\ i \in 1 .. Len(s)
        BY <3>1, <1>1, <1>3
      <4> QED BY <4>1, <1>1, <1>3, <1>6
    <3>2. CASE i = p
      BY <3>2, <1>3
    <3>3. CASE i > p
      <4>1. i - 1 \in p .. Len(s) /\ i - 1 \in 1 .. Len(s) /\ (i - 1) + 1 = i
        BY <3>3, <1>1, <1>3
      <4>2. t[i] = s[i - 1]
        BY <4>1, <1>3
      <4> QED BY <4>1, <4>2, <1>1, <1>6
    <3> QED BY <3>1, <3>2, <3>3, <1>1
  <2> QED BY <2>1, <1>1, <1>5, <1>6 DEF t, k
<1>7. CASE k # 0 /\ k < p
  <2>1. k \in 1 .. p - 1 /\ k \in 1 .. Len(t)
    BY <1>7, <1>1, <1>3
  <2>2. t[k] = x
    BY <2>1, <1>1, <1>3, <1>7
  <2>3. Place(x, t) = k
    BY <2>1, <2>2, <1>5
  <2> QED BY <2>3, <1>7 DEF t, k
<1>8. CASE k # 0 /\ ~(k < p)
  <2>1. k \in p .. Len(s) /\ k + 1 \in 1 .. Len(t)
    BY <1>8, <1>1, <1>3
  <2>2. t[k + 1] = x
    BY <2>1, <1>1, <1>3, <1>8
  <2>3. Place(x, t) = k + 1
    BY <2>1, <2>2, <1>5
  <2> QED BY <2>3, <1>8 DEF t, k
<1> QED BY <1>6, <1>7, <1>8

LEMMA PlaceMinus ==
  ASSUME NEW S, NEW s \in Seq(S), Distinct(s), NEW p \in 1 .. Len(s), NEW x
  PROVE  Place(x, Minus(s, p)) =
           IF Place(x, s) = p THEN 0 ELSE IF Place(x, s) < p THEN Place(x, s) ELSE Place(x, s) - 1
<1> DEFINE t == Minus(s, p)
           k == Place(x, s)
<1>1. Len(s) \in Nat /\ p \in Int /\ k \in 0 .. Len(s)
      /\ (k # 0 => s[k] = x) /\ (k = 0 => \A i \in 1 .. Len(s) : s[i] # x)
  BY PlaceIn
<1>2. /\ t \in Seq(S) /\ Len(t) = Len(s) - 1
      /\ \A i \in 1 .. p - 1 : t[i] = s[i]
      /\ \A i \in p .. Len(s) - 1 : t[i] = s[i + 1]
  BY MinusSequence
<1>3. Distinct(t)
  BY MinusDistinct
<1> HIDE DEF t, k
<1>4. /\ \A i \in 1 .. Len(t) : Place(t[i], t) = i
      /\ (\A i \in 1 .. Len(t) : t[i] # x) => Place(x, t) = 0
  BY <1>2, <1>3, PlaceOf
<1>5. CASE k = 0 \/ k = p
  <2>1. \A i \in 1 .. Len(s) : s[i] = x => i = p
    BY <1>1, <1>5 DEF Distinct
  <2>2. ASSUME NEW i \in 1 .. Len(t) PROVE t[i] # x
    <3>1. CASE i < p
      <4>1. i \in 1 .. p - 1 /\ i \in 1 .. Len(s) /\ i # p
        BY <3>1, <1>1, <1>2
      <4> QED BY <4>1, <2>1, <1>2
    <3>2. CASE ~(i < p)
      <4>1. i \in p .. Len(s) - 1 /\ i + 1 \in 1 .. Len(s) /\ i + 1 # p
        BY <3>2, <1>1, <1>2
      <4> QED BY <4>1, <2>1, <1>2
    <3> QED BY <3>1, <3>2
  <2>3. Place(x, t) = 0
    BY <2>2, <1>4
  <2> QED BY <2>3, <1>1, <1>5 DEF t, k
<1>6. CASE k # 0 /\ k < p
  <2>1. k \in 1 .. p - 1 /\ k \in 1 .. Len(t)
    BY <1>6, <1>1, <1>2
  <2>2. t[k] = x
    BY <2>1, <1>1, <1>2, <1>6
  <2>3. Place(x, t) = k
    BY <2>1, <2>2, <1>4
  <2> QED BY <2>3, <1>6 DEF t, k
<1>7. CASE k > p
  <2>1. k - 1 \in p .. Len(s) - 1 /\ k - 1 \in 1 .. Len(t) /\ (k - 1) + 1 = k /\ k # 0
    BY <1>7, <1>1, <1>2
  <2>2. t[k - 1] = x
    BY <2>1, <1>1, <1>2
  <2>3. Place(x, t) = k - 1 /\ k # p /\ ~(k < p)
    BY <2>1, <2>2, <1>1, <1>4, <1>7
  <2> QED BY <2>3 DEF t, k
<1>8. k = 0 \/ k = p \/ (k # 0 /\ k < p) \/ k > p
  BY <1>1
<1> QED BY <1>5, <1>6, <1>7, <1>8, Zenon

-----------------------------------------------------------------------------
(* The singly linked list *)

\* The items of the list, when a cell is put in or left out.
LEMMA ItemsPlus ==
  ASSUME NEW C, NEW s \in Seq(C), NEW heap, NEW p \in 1 .. Len(s) + 1, NEW c, c \notin C,
         NEW heap2, \A x \in C : heap2[x].data = heap[x].data
  PROVE  Items(Plus(s, p, c), heap2) = Plus(Items(s, heap), p, heap2[c].data)
<1> DEFINE t == Plus(s, p, c)
           u == Items(s, heap)
           d == heap2[c].data
<1>1. Len(s) \in Nat /\ p \in Int /\ DOMAIN u = 1 .. Len(s) /\ Len(u) = Len(s)
      /\ \A i \in 1 .. Len(s) : u[i] = heap[s[i]].data
  <2>1. DOMAIN s = 1 .. Len(s) /\ Len(s) \in Nat
    OBVIOUS
  <2>2. u \in Seq({heap[s[i]].data : i \in 1 .. Len(s)})
    BY <2>1 DEF Items
  <2>3. DOMAIN u = 1 .. Len(s)
    BY <2>1 DEF Items
  <2> HIDE DEF u
  <2>4. Len(u) = Len(s)
    BY <2>1, <2>2, <2>3
  <2> QED BY <2>1, <2>3, <2>4 DEF Items, u
<1>2. DOMAIN t = 1 .. Len(s) + 1
  BY <1>1 DEF Plus
<1> HIDE DEF u
<1>3. ASSUME NEW i \in 1 .. Len(s) + 1
      PROVE  heap2[t[i]].data = IF i < p THEN u[i] ELSE IF i = p THEN d ELSE u[i - 1]
  <2>1. CASE i < p
    <3>1. i \in 1 .. Len(s) /\ s[i] \in C
      BY <2>1, <1>1
    <3> QED BY <3>1, <2>1, <1>1 DEF Plus
  <2>2. CASE i = p
    BY <2>2, <1>1 DEF Plus
  <2>3. CASE i > p
    <3>1. i - 1 \in 1 .. Len(s) /\ s[i - 1] \in C
      BY <2>3, <1>1
    <3> QED BY <3>1, <2>3, <1>1 DEF Plus
  <2>4. i < p \/ i = p \/ i > p
    BY <1>1
  <2> QED BY <2>1, <2>2, <2>3, <2>4, Zenon
<1>4. Items(t, heap2) = [i \in 1 .. Len(s) + 1 |-> heap2[t[i]].data]
  BY <1>2 DEF Items
<1>5. Plus(u, p, d) = [i \in 1 .. Len(s) + 1 |-> IF i < p THEN u[i] ELSE IF i = p THEN d ELSE u[i - 1]]
  BY <1>1 DEF Plus
<1> HIDE DEF t, d
<1>6. Items(t, heap2) = Plus(u, p, d)
  BY <1>3, <1>4, <1>5
<1> QED BY <1>6 DEF t, u, d

LEMMA ItemsMinus ==
  ASSUME NEW C, NEW s \in Seq(C), Distinct(s), NEW heap, NEW p \in 1 .. Len(s),
         NEW heap2, \A x \in C : x # s[p] => heap2[x].data = heap[x].data
  PROVE  Items(Minus(s, p), heap2) = Minus(Items(s, heap), p)
<1> DEFINE t == Minus(s, p)
           u == Items(s, heap)
<1>1. Len(s) \in Nat /\ p \in Int /\ DOMAIN u = 1 .. Len(s) /\ Len(u) = Len(s)
      /\ \A i \in 1 .. Len(s) : u[i] = heap[s[i]].data
  <2>1. DOMAIN s = 1 .. Len(s) /\ Len(s) \in Nat
    OBVIOUS
  <2>2. u \in Seq({heap[s[i]].data : i \in 1 .. Len(s)})
    BY <2>1 DEF Items
  <2>3. DOMAIN u = 1 .. Len(s)
    BY <2>1 DEF Items
  <2> HIDE DEF u
  <2>4. Len(u) = Len(s)
    BY <2>1, <2>2, <2>3
  <2> QED BY <2>1, <2>3, <2>4 DEF Items, u
<1>2. DOMAIN t = 1 .. Len(s) - 1
  BY <1>1 DEF Minus
<1> HIDE DEF u
<1>3. ASSUME NEW i \in 1 .. Len(s) - 1
      PROVE  heap2[t[i]].data = IF i < p THEN u[i] ELSE u[i + 1]
  <2>1. CASE i < p
    <3>1. i \in 1 .. Len(s) /\ s[i] \in C /\ s[i] # s[p]
      BY <2>1, <1>1 DEF Distinct
    <3> QED BY <3>1, <2>1, <1>1 DEF Minus
  <2>2. CASE ~(i < p)
    <3>1. i + 1 \in 1 .. Len(s) /\ s[i + 1] \in C /\ i + 1 # p
      BY <2>2, <1>1
    <3>2. s[i + 1] # s[p]
      BY <3>1 DEF Distinct
    <3> QED BY <3>1, <3>2, <2>2, <1>1 DEF Minus
  <2> QED BY <2>1, <2>2
<1>4. Items(t, heap2) = [i \in 1 .. Len(s) - 1 |-> heap2[t[i]].data]
  BY <1>2 DEF Items
<1>5. Minus(u, p) = [i \in 1 .. Len(s) - 1 |-> IF i < p THEN u[i] ELSE u[i + 1]]
  BY <1>1 DEF Minus
<1> HIDE DEF t
<1>6. Items(t, heap2) = Minus(u, p)
  BY <1>3, <1>4, <1>5
<1> QED BY <1>6 DEF t, u

ListCellType == [data : ListData, next : ListCells \cup {ListNull}]

\* The order read from the pointers is a chain of all the cells that are
\* allocated, currentLength counts them, and the active element is one of them.
ListInv ==
  /\ listHeap \in [DOMAIN listHeap -> ListCellType]
  /\ DOMAIN listHeap \subseteq ListCells /\ IsFiniteSet(DOMAIN listHeap)
  /\ Chain(ListOrder, listFirst, ListNexts, ListNull)
  /\ Covers(ListOrder, DOMAIN listHeap)
  /\ listLength = Len(ListOrder)
  /\ listActive \in DOMAIN listHeap \cup {ListNull}

\* What the invariant says of the pointers, by their places in the order.
LEMMA ListFacts ==
  ASSUME ListInv
  PROVE  /\ ListOrder \in Seq(DOMAIN listHeap) /\ Len(ListOrder) \in Nat /\ Distinct(ListOrder)
         /\ DOMAIN ListOrder = 1 .. Len(ListOrder)
         /\ DOMAIN ListNexts = DOMAIN listHeap /\ ListNull \notin DOMAIN listHeap
         /\ \A i \in 1 .. Len(ListOrder) : ListOrder[i] \in DOMAIN listHeap
         /\ listFirst = Nth(ListOrder, 1, ListNull)
         /\ \A i \in 1 .. Len(ListOrder) : listHeap[ListOrder[i]].next = Nth(ListOrder, i + 1, ListNull)
         /\ ListItems \in Seq(ListData) /\ Len(ListItems) = Len(ListOrder)
         /\ ListPlace \in 0 .. Len(ListOrder)
         /\ ListPlace = 0 <=> listActive = ListNull
         /\ ListPlace # 0 => ListOrder[ListPlace] = listActive
<1> DEFINE s == ListOrder
<1>1. DOMAIN ListNexts = DOMAIN listHeap /\ \A c \in DOMAIN listHeap : ListNexts[c] = listHeap[c].next
  BY DEF ListNexts
<1>2. ListNull \notin DOMAIN listHeap
  BY ListAssumption DEF ListInv
<1>3. s \in Seq(DOMAIN listHeap) /\ Distinct(s) /\ listFirst = Nth(s, 1, ListNull)
      /\ \A i \in 1 .. Len(s) : ListNexts[s[i]] = Nth(s, i + 1, ListNull)
  BY <1>1 DEF ListInv, Chain
<1>4. Covers(s, DOMAIN listHeap) /\ listActive \in DOMAIN listHeap \cup {ListNull}
      /\ \A c \in DOMAIN listHeap : listHeap[c].data \in ListData
  BY DEF ListInv, ListCellType
<1> HIDE DEF s
<1>5. Len(s) \in Nat /\ DOMAIN s = 1 .. Len(s) /\ \A i \in 1 .. Len(s) : s[i] \in DOMAIN listHeap
  BY <1>3
<1>6. \A i \in 1 .. Len(s) : listHeap[s[i]].next = Nth(s, i + 1, ListNull)
  BY <1>1, <1>3, <1>5
<1>7. Items(s, listHeap) \in [1 .. Len(s) -> ListData]
  BY <1>4, <1>5 DEF Items
<1>8. Items(s, listHeap) \in Seq(ListData) /\ Len(Items(s, listHeap)) = Len(s)
  BY <1>5, <1>7
<1>9. /\ Place(listActive, s) \in 0 .. Len(s)
      /\ Place(listActive, s) # 0 => s[Place(listActive, s)] = listActive
      /\ Place(listActive, s) = 0 => \A i \in 1 .. Len(s) : s[i] # listActive
  BY <1>3, PlaceIn
<1>10. Place(listActive, s) = 0 <=> listActive = ListNull
  BY <1>2, <1>4, <1>5, <1>9 DEF Covers
<1> QED BY <1>1, <1>2, <1>3, <1>5, <1>6, <1>8, <1>9, <1>10 DEF ListItems, ListPlace, s

\* Whatever is a chain of all cells after a step is the order after it.
LEMMA ListRestored ==
  ASSUME listHeap' \in [DOMAIN listHeap' -> ListCellType],
         DOMAIN listHeap' \subseteq ListCells, IsFiniteSet(DOMAIN listHeap'),
         NEW s, Chain(s, listFirst', ListNexts', ListNull), Covers(s, DOMAIN listHeap'),
         listLength' = Len(s), listActive' \in DOMAIN listHeap' \cup {ListNull}
  PROVE  ListInv' /\ ListOrder' = s
<1>1. DOMAIN ListNexts' = DOMAIN listHeap' /\ ListNull \notin DOMAIN listHeap'
  BY ListAssumption DEF ListNexts
<1>2. Walk(listFirst', ListNexts', ListNull) = s
  BY <1>1, WalkOfChain
<1>3. ListOrder' = s
  BY <1>2 DEF ListOrder
<1> QED BY <1>3 DEF ListInv

\* A cell linked in at place p, and the cell at place p unlinked and freed.
LEMMA ListInserted ==
  ASSUME ListInv, NEW d \in ListData, NEW c \in ListCells \ DOMAIN listHeap,
         NEW p \in 1 .. Len(ListOrder) + 1,
         listHeap' = [x \in DOMAIN listHeap \cup {c} |-> listHeap'[x]],
         listHeap'[c] = [data |-> d, next |-> Nth(ListOrder, p, ListNull)],
         \A x \in DOMAIN listHeap :
           /\ listHeap'[x] \in ListCellType /\ listHeap'[x].data = listHeap[x].data
           /\ listHeap'[x].next = IF p > 1 /\ x = ListOrder[p - 1] THEN c ELSE listHeap[x].next,
         listFirst' = IF p = 1 THEN c ELSE listFirst,
         listLength' = listLength + 1, listActive' = listActive
  PROVE  /\ ListInv'
         /\ ListItems' = Plus(ListItems, p, d)
         /\ ListPlace' = IF ListPlace < p THEN ListPlace ELSE ListPlace + 1
<1> DEFINE s == ListOrder
           t == Plus(s, p, c)
           next == ListNexts
           nextAfter == [x \in DOMAIN listHeap \cup {c} |-> listHeap'[x].next]
<1>1. /\ s \in Seq(DOMAIN listHeap) /\ Len(s) \in Nat /\ Distinct(s) /\ DOMAIN next = DOMAIN listHeap
      /\ \A i \in 1 .. Len(s) : s[i] \in DOMAIN listHeap
      /\ Nth(s, p, ListNull) \in ListCells \cup {ListNull}
  <2>1. /\ s \in Seq(DOMAIN listHeap) /\ Len(s) \in Nat /\ Distinct(s) /\ DOMAIN next = DOMAIN listHeap
        /\ \A i \in 1 .. Len(s) : s[i] \in DOMAIN listHeap
    BY ListFacts
  <2> QED BY <2>1 DEF Nth, ListInv
<1>2. /\ Chain(s, listFirst, next, ListNull) /\ Covers(s, DOMAIN listHeap)
      /\ listLength = Len(s) /\ listActive \in DOMAIN listHeap \cup {ListNull}
      /\ DOMAIN listHeap \subseteq ListCells /\ IsFiniteSet(DOMAIN listHeap)
      /\ ListNull \notin ListCells
  BY ListAssumption DEF ListInv
<1>3. DOMAIN listHeap' = DOMAIN listHeap \cup {c} /\ ListNexts' = nextAfter
  BY DEF ListNexts
<1>4. listHeap' \in [DOMAIN listHeap' -> ListCellType] /\ IsFiniteSet(DOMAIN listHeap')
      /\ DOMAIN listHeap' \subseteq ListCells
  <2>1. listHeap'[c] \in ListCellType
    BY <1>1 DEF ListCellType
  <2>2. IsFiniteSet(DOMAIN listHeap \cup {c})
    BY <1>2, FS_AddElement
  <2> QED BY <1>2, <1>3, <2>1, <2>2
<1>5. Chain(t, listFirst', nextAfter, ListNull)
  <2>1. p > 1 => nextAfter[s[p - 1]] = c
    BY <1>1
  <2>2. ASSUME NEW i \in 1 .. Len(s), i # p - 1 PROVE nextAfter[s[i]] = next[s[i]]
    <3>1. p > 1 => p - 1 \in 1 .. Len(s)
      BY <1>1
    <3>2. ~(p > 1 /\ s[i] = s[p - 1])
      BY <3>1, <2>2, <1>1 DEF Distinct
    <3> QED BY <3>2, <1>1 DEF ListNexts
  <2>3. /\ p \in 1 .. Len(s) + 1 /\ c \notin DOMAIN next
        /\ DOMAIN nextAfter = DOMAIN next \cup {c}
        /\ nextAfter[c] = Nth(s, p, ListNull)
    BY <1>1
  <2> HIDE DEF s, next, nextAfter
  <2>4. Spliced(s, p, c, next, nextAfter, ListNull)
    BY <2>1, <2>2, <2>3 DEF Spliced
  <2> QED BY <1>2, <2>4, ChainPlus DEF t
<1>6. Covers(t, DOMAIN listHeap')
  <2>1. Covers(t, {c}) /\ \A cells : Covers(s, cells) => Covers(t, cells)
    BY <1>1, PlusDistinct
  <2>2. Covers(t, {c}) /\ Covers(t, DOMAIN listHeap)
    BY <2>1, <1>2
  <2> QED BY <2>2, <1>3 DEF Covers
<1>7. Len(t) = Len(s) + 1
  <2> DEFINE T == DOMAIN listHeap \cup {c}
  <2>1. s \in Seq(T) /\ c \in T
    BY <1>1
  <2> HIDE DEF T, s
  <2> QED BY <2>1, PlusType DEF s
<1> HIDE DEF t, s, nextAfter
<1>8. ListInv' /\ ListOrder' = t
  BY <1>2, <1>3, <1>4, <1>5, <1>6, <1>7, ListRestored
<1>9. ListItems' = Plus(ListItems, p, d)
  <2> DEFINE heap2 == listHeap'
  <2>1. \A x \in DOMAIN listHeap : heap2[x].data = listHeap[x].data
    OBVIOUS
  <2>2. heap2[c].data = d
    OBVIOUS
  <2> HIDE DEF heap2
  <2>3. Items(t, heap2) = Plus(Items(s, listHeap), p, heap2[c].data)
    BY <1>1, <2>1, ItemsPlus DEF s, t
  <2>4. ListItems' = Items(t, heap2)
    BY <1>8 DEF ListItems, heap2
  <2> QED BY <2>2, <2>3, <2>4 DEF ListItems, s
<1>10. ListPlace' = IF ListPlace < p THEN ListPlace ELSE ListPlace + 1
  <2>1. listActive # c
    BY <1>2
  <2>2. Place(listActive, t) = IF Place(listActive, s) < p THEN Place(listActive, s) ELSE Place(listActive, s) + 1
    BY <1>1, <2>1, PlacePlus DEF s, t
  <2>3. ListPlace' = Place(listActive, t)
    BY <1>8 DEF ListPlace
  <2> QED BY <2>2, <2>3 DEF ListPlace, s
<1> QED BY <1>8, <1>9, <1>10

LEMMA ListDeleted ==
  ASSUME ListInv, NEW p \in 1 .. Len(ListOrder),
         listHeap' = [x \in DOMAIN listHeap \ {ListOrder[p]} |-> listHeap'[x]],
         \A x \in DOMAIN listHeap \ {ListOrder[p]} :
           /\ listHeap'[x] \in ListCellType /\ listHeap'[x].data = listHeap[x].data
           /\ listHeap'[x].next = IF p > 1 /\ x = ListOrder[p - 1]
                                  THEN listHeap[ListOrder[p]].next ELSE listHeap[x].next,
         listFirst' = IF p = 1 THEN listHeap[listFirst].next ELSE listFirst,
         listLength' = listLength - 1,
         listActive' = IF listActive = ListOrder[p] THEN ListNull ELSE listActive
  PROVE  /\ ListInv'
         /\ ListItems' = Minus(ListItems, p)
         /\ ListPlace' = IF ListPlace = p THEN 0
                         ELSE IF ListPlace < p THEN ListPlace ELSE ListPlace - 1
<1> DEFINE s == ListOrder
           t == Minus(s, p)
           next == ListNexts
           nextAfter == [x \in DOMAIN listHeap \ {s[p]} |-> listHeap'[x].next]
<1>1. /\ s \in Seq(DOMAIN listHeap) /\ Len(s) \in Nat /\ Distinct(s) /\ DOMAIN next = DOMAIN listHeap
      /\ \A i \in 1 .. Len(s) : s[i] \in DOMAIN listHeap
      /\ listFirst = Nth(s, 1, ListNull)
  BY ListFacts
<1>2. /\ Chain(s, listFirst, next, ListNull) /\ Covers(s, DOMAIN listHeap)
      /\ listLength = Len(s) /\ listActive \in DOMAIN listHeap \cup {ListNull}
      /\ DOMAIN listHeap \subseteq ListCells /\ IsFiniteSet(DOMAIN listHeap)
      /\ ListNull \notin ListCells
  BY ListAssumption DEF ListInv
<1>3. DOMAIN listHeap' = DOMAIN listHeap \ {s[p]} /\ ListNexts' = nextAfter
  BY DEF ListNexts
<1>4. listHeap' \in [DOMAIN listHeap' -> ListCellType] /\ IsFiniteSet(DOMAIN listHeap')
      /\ DOMAIN listHeap' \subseteq ListCells
  <2>1. IsFiniteSet(DOMAIN listHeap \ {s[p]})
    BY <1>2, FS_RemoveElement
  <2> QED BY <1>2, <1>3, <2>1
<1>5. Chain(t, listFirst', nextAfter, ListNull)
  <2>1. p > 1 => nextAfter[s[p - 1]] = next[s[p]]
    <3>1. ASSUME p > 1 PROVE p - 1 \in 1 .. Len(s) /\ s[p - 1] # s[p]
      BY <3>1, <1>1 DEF Distinct
    <3> QED BY <3>1, <1>1 DEF ListNexts
  <2>2. ASSUME NEW i \in 1 .. Len(s), i # p, i # p - 1 PROVE nextAfter[s[i]] = next[s[i]]
    <3>1. p > 1 => p - 1 \in 1 .. Len(s)
      BY <1>1
    <3>2. ~(p > 1 /\ s[i] = s[p - 1]) /\ s[i] # s[p]
      BY <3>1, <2>2, <1>1 DEF Distinct
    <3> QED BY <3>2, <1>1 DEF ListNexts
  <2>3. Unlinked(s, p, next, nextAfter)
    BY <1>1, <2>1, <2>2 DEF Unlinked
  <2>4. listFirst' = IF p = 1 THEN next[listFirst] ELSE listFirst
    BY <1>1 DEF Nth, ListNexts
  <2> HIDE DEF s, next, nextAfter
  <2> QED BY <1>2, <2>3, <2>4, ChainMinus DEF t
<1>6. Covers(t, DOMAIN listHeap')
  <2>1. \A cells : Covers(s, cells) => Covers(t, cells \ {s[p]})
    BY <1>1, MinusDistinct
  <2> QED BY <2>1, <1>2, <1>3
<1>7. Len(t) = Len(s) - 1
  BY <1>1, MinusSequence
<1> HIDE DEF t, s, nextAfter
<1>8. ListInv' /\ ListOrder' = t
  <2>1. listActive' \in DOMAIN listHeap' \cup {ListNull}
    BY <1>2, <1>3 DEF s
  <2> QED BY <1>2, <1>3, <1>4, <1>5, <1>6, <1>7, <2>1, ListRestored
<1>9. ListItems' = Minus(ListItems, p)
  <2> DEFINE heap2 == listHeap'
  <2>1. \A x \in DOMAIN listHeap : x # s[p] => heap2[x].data = listHeap[x].data
    BY DEF s
  <2> HIDE DEF heap2
  <2>2. Items(t, heap2) = Minus(Items(s, listHeap), p)
    BY <1>1, <2>1, ItemsMinus DEF s, t
  <2>3. ListItems' = Items(t, heap2)
    BY <1>8 DEF ListItems, heap2
  <2> QED BY <2>2, <2>3 DEF ListItems, s
<1>10. ListPlace' = IF ListPlace = p THEN 0
                    ELSE IF ListPlace < p THEN ListPlace ELSE ListPlace - 1
  <2> DEFINE k == Place(listActive, s)
  <2>1. \A x : Place(x, t) = IF Place(x, s) = p THEN 0
                        ELSE IF Place(x, s) < p THEN Place(x, s) ELSE Place(x, s) - 1
    BY <1>1, PlaceMinus DEF s, t
  <2>2. Place(s[p], s) = p
    BY <1>1, PlaceOf DEF s
  <2>3. Place(ListNull, s) = 0
    <3>1. \A i \in 1 .. Len(s) : s[i] # ListNull
      BY <1>1, <1>2
    <3> QED BY <1>1, <3>1, PlaceOf
  <2>4. p # 0 /\ 0 < p
    OBVIOUS
  <2>5. ListPlace' = Place(listActive', t) /\ ListPlace = Place(listActive, s)
    BY <1>8 DEF ListPlace, s
  <2>6. CASE listActive = s[p]
    BY <2>6, <2>1, <2>2, <2>3, <2>4, <2>5 DEF s
  <2>7. CASE listActive # s[p]
    BY <2>7, <2>1, <2>5 DEF s
  <2> QED BY <2>6, <2>7
<1> QED BY <1>8, <1>9, <1>10

\* Moving the active element changes nothing else.
LEMMA ListKept ==
  ASSUME ListInv, UNCHANGED <<listHeap, listFirst, listLength>>,
         listActive' \in DOMAIN listHeap \cup {ListNull}
  PROVE  /\ ListInv' /\ ListOrder' = ListOrder /\ ListItems' = ListItems
         /\ ListPlace' = Place(listActive', ListOrder)
<1>1. ListNexts' = ListNexts
  BY DEF ListNexts
<1>2. ListOrder' = ListOrder
  BY <1>1 DEF ListOrder
<1> QED BY <1>1, <1>2 DEF ListInv, ListItems, ListPlace

\* Every action keeps the invariant, and does to the items and the cursor
\* what CursorList says.
LEMMA ListInsertFirst ==
  ASSUME ListInv, NEW d \in ListData, List_InsertFirst(d)
  PROVE  ListInv' /\ ListSpecified!InsertFirst(d)
<1> USE ListAssumption
<1>1. PICK c \in ListCells \ DOMAIN listHeap :
        /\ listHeap' = Grown(listHeap, c, d, listFirst)
        /\ listFirst' = c /\ listLength' = listLength + 1
        /\ UNCHANGED listActive /\ ListQuiet
  BY DEF List_InsertFirst
<1>2. /\ ListItems \in Seq(ListData) /\ ListPlace \in Nat /\ Len(ListOrder) \in Nat
      /\ listFirst = Nth(ListOrder, 1, ListNull)
      /\ ListPlace # 0 <=> List_IsActive
  BY ListFacts DEF List_IsActive
<1>3. /\ listHeap' = [x \in DOMAIN listHeap \cup {c} |-> listHeap'[x]]
      /\ listHeap'[c] = [data |-> d, next |-> Nth(ListOrder, 1, ListNull)]
      /\ \A x \in DOMAIN listHeap : listHeap'[x] = listHeap[x] /\ listHeap[x] \in ListCellType
  <2>1. \A x \in DOMAIN listHeap : x # c /\ listHeap[x] \in ListCellType
    BY DEF ListInv
  <2>2. listHeap' = [x \in DOMAIN listHeap \cup {c} |->
                       IF x = c THEN [data |-> d, next |-> listFirst] ELSE listHeap[x]]
    BY <1>1 DEF Grown
  <2> QED BY <1>2, <2>1, <2>2
<1>4. 1 \in 1 .. Len(ListOrder) + 1 /\ ~(1 > 1) /\ 1 = 1
  BY <1>2
<1>5. /\ ListInv'
      /\ ListItems' = Plus(ListItems, 1, d)
      /\ ListPlace' = IF ListPlace < 1 THEN ListPlace ELSE ListPlace + 1
  BY <1>1, <1>3, <1>4, ListInserted
<1>6. <<d>> \o ListItems = Plus(ListItems, 1, d)
  BY <1>2, EndsOfSequence
<1>7. ListPlace' = IF ListPlace # 0 THEN ListPlace + 1 ELSE 0
  BY <1>2, <1>5
<1> QED BY <1>1, <1>5, <1>6, <1>7 DEF ListSpecified!InsertFirst, ListSpecified!At,
                                      ListSpecified!Shifted, ListSpecified!Active, ListQuiet

LEMMA ListInsertAfter ==
  ASSUME ListInv, NEW d \in ListData, List_InsertAfter(d)
  PROVE  ListInv' /\ ListSpecified!InsertAfter(d)
<1> USE DEF List_IsActive
<1>0. /\ ListItems \in Seq(ListData) /\ Len(ListItems) = Len(ListOrder)
      /\ ListPlace \in 0 .. Len(ListOrder) /\ Len(ListOrder) \in Nat
      /\ ListPlace # 0 <=> List_IsActive
      /\ ListPlace # 0 => ListOrder[ListPlace] = listActive
      /\ \A i \in 1 .. Len(ListOrder) : listHeap[ListOrder[i]].next = Nth(ListOrder, i + 1, ListNull)
  BY ListFacts
<1>1. CASE ~List_IsActive
  <2>1. UNCHANGED listVars
    BY <1>1 DEF List_InsertAfter, ListIdle
  <2>2. ListInv' /\ ListItems' = ListItems /\ ListPlace' = ListPlace
    BY <2>1, ListKept DEF listVars, ListInv, ListPlace
  <2> QED BY <1>0, <1>1, <2>1, <2>2 DEF ListSpecified!InsertAfter, ListSpecified!At,
                                        ListSpecified!Active, listVars
<1>2. CASE List_IsActive
  <2>1. PICK c \in ListCells \ DOMAIN listHeap :
          /\ listHeap' = [Grown(listHeap, c, d, listHeap[listActive].next) EXCEPT ![listActive].next = c]
          /\ listLength' = listLength + 1
          /\ UNCHANGED <<listFirst, listActive>> /\ ListQuiet
    BY <1>2 DEF List_InsertAfter
  <2> DEFINE k == ListPlace
             p == k + 1
             heap2 == listHeap'
  <2>2. k \in 1 .. Len(ListOrder) /\ p \in 1 .. Len(ListOrder) + 1 /\ p > 1 /\ p # 1 /\ p - 1 = k
        /\ ListOrder[k] = listActive
    BY <1>0, <1>2
  <2>3. /\ listHeap[listActive].next = Nth(ListOrder, p, ListNull)
        /\ listActive \in DOMAIN listHeap /\ listHeap \in [DOMAIN listHeap -> ListCellType]
        /\ DOMAIN listHeap \subseteq ListCells
    BY <1>0, <1>2, <2>2 DEF ListInv
  <2>4. \A x \in DOMAIN listHeap : listHeap[x] \in ListCellType
    BY <2>3
  <2>5. /\ heap2 = [x \in DOMAIN listHeap \cup {c} |-> heap2[x]]
        /\ heap2[c] = [data |-> d, next |-> Nth(ListOrder, p, ListNull)]
        /\ \A x \in DOMAIN listHeap :
             heap2[x] = IF x = listActive THEN [listHeap[x] EXCEPT !.next = c] ELSE listHeap[x]
    BY <2>1, <2>3 DEF Grown
  <2>6. ASSUME NEW x \in DOMAIN listHeap
        PROVE  /\ heap2[x] \in ListCellType /\ heap2[x].data = listHeap[x].data
               /\ heap2[x].next = IF p > 1 /\ x = ListOrder[p - 1] THEN c ELSE listHeap[x].next
    <3>1. CASE x = listActive
      <4>1. heap2[x] = [listHeap[x] EXCEPT !.next = c]
        BY <2>5, <3>1
      <4>2. listHeap[x] \in ListCellType
        BY <2>4
      <4>3. heap2[x] \in ListCellType /\ heap2[x].data = listHeap[x].data /\ heap2[x].next = c
        BY <4>1, <4>2 DEF ListCellType
      <4> QED BY <4>3, <2>2, <3>1
    <3>2. CASE x # listActive
      BY <2>2, <2>4, <2>5, <3>2
    <3> QED BY <3>1, <3>2
  <2> HIDE DEF p
  <2>7. /\ ListInv'
        /\ ListItems' = Plus(ListItems, p, d)
        /\ ListPlace' = IF ListPlace < p THEN ListPlace ELSE ListPlace + 1
    BY <2>1, <2>2, <2>5, <2>6, ListInserted
  <2>8. InsertAt(ListItems, p, d) = Plus(ListItems, p, d)
    BY <1>0, <2>2, InsertAtIsPlus
  <2>9. ListPlace' = ListPlace /\ ListPlace # 0
    BY <1>0, <1>2, <2>7 DEF p
  <2>10. ListItems' = InsertAt(ListItems, ListPlace + 1, d)
    BY <2>7, <2>8 DEF p
  <2>11. listAnswer' = listAnswer
    BY <2>1 DEF ListQuiet
  <2> QED BY <2>7, <2>9, <2>10, <2>11
          DEF ListSpecified!InsertAfter, ListSpecified!At, ListSpecified!Active,
              ListSpecified!InsertAt, InsertAt
<1> QED BY <1>1, <1>2

LEMMA ListSetValue ==
  ASSUME ListInv, NEW d \in ListData, List_SetValue(d)
  PROVE  ListInv' /\ ListSpecified!SetValue(d)
<1> USE DEF List_IsActive
<1>0. /\ ListOrder \in Seq(DOMAIN listHeap) /\ Distinct(ListOrder)
      /\ DOMAIN ListOrder = 1 .. Len(ListOrder)
      /\ \A i \in 1 .. Len(ListOrder) : ListOrder[i] \in DOMAIN listHeap
      /\ ListPlace \in 0 .. Len(ListOrder) /\ Len(ListOrder) \in Nat
      /\ ListPlace # 0 <=> List_IsActive
      /\ ListPlace # 0 => ListOrder[ListPlace] = listActive
  BY ListFacts
<1>1. CASE ~List_IsActive
  <2>1. UNCHANGED listVars
    BY <1>1 DEF List_SetValue, ListQuiet, listVars
  <2>2. ListInv' /\ ListItems' = ListItems /\ ListPlace' = ListPlace
    BY <2>1, ListKept DEF listVars, ListInv, ListPlace
  <2> QED BY <1>0, <1>1, <2>1, <2>2 DEF ListSpecified!SetValue, ListSpecified!At,
                                        ListSpecified!Active, listVars
<1>2. CASE List_IsActive
  <2>1. /\ listHeap' = [listHeap EXCEPT ![listActive].data = d]
        /\ UNCHANGED <<listFirst, listActive, listLength>> /\ ListQuiet
    BY <1>2 DEF List_SetValue
  <2>2. listActive \in DOMAIN listHeap /\ listHeap \in [DOMAIN listHeap -> ListCellType]
    BY <1>2 DEF ListInv
  <2>3. DOMAIN listHeap' = DOMAIN listHeap
    BY <2>1
  <2>4. ASSUME NEW x \in DOMAIN listHeap
        PROVE  /\ listHeap'[x] \in ListCellType /\ listHeap'[x].next = listHeap[x].next
               /\ listHeap'[x].data = IF x = listActive THEN d ELSE listHeap[x].data
    <3>1. listHeap[x] \in ListCellType
      BY <2>2
    <3>2. listHeap'[x] = IF x = listActive THEN [listHeap[x] EXCEPT !.data = d] ELSE listHeap[x]
      BY <2>1, <2>2
    <3>3. CASE x = listActive
      <4>1. listHeap'[x] = [listHeap[x] EXCEPT !.data = d]
        BY <3>2, <3>3
      <4> QED BY <4>1, <3>1, <3>3 DEF ListCellType
    <3> QED BY <3>1, <3>2, <3>3
  <2>5. ListNexts' = ListNexts
    BY <2>3, <2>4 DEF ListNexts
  <2>6. ListOrder' = ListOrder
    BY <2>1, <2>5 DEF ListOrder
  <2>7. listHeap' \in [DOMAIN listHeap' -> ListCellType]
    <3>1. listHeap' = [x \in DOMAIN listHeap |-> listHeap'[x]]
      BY <2>1
    <3> QED BY <3>1, <2>3, <2>4
  <2>8. ListInv'
    BY <2>1, <2>3, <2>5, <2>6, <2>7 DEF ListInv
  <2>9. ListItems' = [ListItems EXCEPT ![ListPlace] = d]
    <3>1. ASSUME NEW i \in 1 .. Len(ListOrder)
          PROVE  listHeap'[ListOrder[i]].data = IF i = ListPlace THEN d ELSE listHeap[ListOrder[i]].data
      <4>1. ListOrder[i] = listActive <=> i = ListPlace
        BY <1>0, <1>2 DEF Distinct
      <4> QED BY <4>1, <1>0, <2>4
    <3>2. ListItems = [i \in 1 .. Len(ListOrder) |-> listHeap[ListOrder[i]].data]
      BY <1>0 DEF ListItems, Items
    <3>3. ListItems' = [i \in 1 .. Len(ListOrder) |-> listHeap'[ListOrder[i]].data]
      BY <1>0, <2>6 DEF ListItems, Items
    <3> QED BY <3>1, <3>2, <3>3
  <2>10. ListPlace' = ListPlace
    BY <2>1, <2>6 DEF ListPlace
  <2> QED BY <1>0, <1>2, <2>1, <2>8, <2>9, <2>10
          DEF ListSpecified!SetValue, ListSpecified!At, ListSpecified!Active, ListQuiet
<1> QED BY <1>1, <1>2

LEMMA ListDeleteFirst ==
  ASSUME ListInv, List_DeleteFirst
  PROVE  ListInv' /\ ListSpecified!DeleteFirst
<1>0. /\ ListItems \in Seq(ListData) /\ Len(ListItems) = Len(ListOrder)
      /\ ListPlace \in 0 .. Len(ListOrder) /\ Len(ListOrder) \in Nat
      /\ listFirst = Nth(ListOrder, 1, ListNull)
      /\ \A i \in 1 .. Len(ListOrder) : ListOrder[i] \in DOMAIN listHeap
      /\ ListNull \notin DOMAIN listHeap
  BY ListFacts
<1>1. listFirst = ListNull <=> Len(ListOrder) = 0
  BY <1>0 DEF Nth
<1>2. ListItems = <<>> <=> Len(ListOrder) = 0
  BY <1>0, EmptySeq
<1>3. CASE listFirst = ListNull
  <2>1. UNCHANGED listVars
    BY <1>3 DEF List_DeleteFirst, ListIdle
  <2>2. ListInv' /\ ListItems' = ListItems /\ ListPlace' = ListPlace
    BY <2>1, ListKept DEF listVars, ListInv, ListPlace
  <2> QED BY <1>1, <1>2, <1>3, <2>1, <2>2 DEF ListSpecified!DeleteFirst, ListSpecified!At, listVars
<1>4. CASE listFirst # ListNull
  <2>1. /\ listActive' = IF listActive = listFirst THEN ListNull ELSE listActive
        /\ listFirst' = listHeap[listFirst].next
        /\ listHeap' = Freed(listHeap, listFirst)
        /\ listLength' = listLength - 1 /\ ListQuiet
    BY <1>4 DEF List_DeleteFirst
  <2>2. 1 \in 1 .. Len(ListOrder) /\ listFirst = ListOrder[1] /\ ~(1 > 1)
    BY <1>0, <1>1, <1>4 DEF Nth
  <2>3. /\ listHeap' = [x \in DOMAIN listHeap \ {ListOrder[1]} |-> listHeap'[x]]
        /\ \A x \in DOMAIN listHeap \ {ListOrder[1]} :
             listHeap'[x] = listHeap[x] /\ listHeap[x] \in ListCellType
    BY <2>1, <2>2 DEF Freed, ListInv
  <2>4. /\ ListInv'
        /\ ListItems' = Minus(ListItems, 1)
        /\ ListPlace' = IF ListPlace = 1 THEN 0 ELSE IF ListPlace < 1 THEN ListPlace ELSE ListPlace - 1
    BY <2>1, <2>2, <2>3, ListDeleted
  <2>5. ListItems # <<>> /\ ListItems' = Tail(ListItems)
    <3>1. PICK d \in ListData : TRUE
      BY <1>0, <2>2
    <3> QED BY <1>0, <1>1, <1>2, <1>4, <2>4, <3>1, EndsOfSequence
  <2>6. ListPlace' = IF ListPlace <= 1 THEN 0 ELSE ListPlace - 1
    BY <1>0, <2>4
  <2> QED BY <2>1, <2>4, <2>5, <2>6 DEF ListSpecified!DeleteFirst, ListSpecified!At, ListQuiet
<1> QED BY <1>3, <1>4

LEMMA ListDeleteAfter ==
  ASSUME ListInv, List_DeleteAfter
  PROVE  ListInv' /\ ListSpecified!DeleteAfter
<1> USE DEF List_IsActive
<1>0. /\ ListItems \in Seq(ListData) /\ Len(ListItems) = Len(ListOrder)
      /\ ListPlace \in 0 .. Len(ListOrder) /\ Len(ListOrder) \in Nat
      /\ ListPlace # 0 <=> List_IsActive
      /\ ListPlace # 0 => ListOrder[ListPlace] = listActive
      /\ \A i \in 1 .. Len(ListOrder) : listHeap[ListOrder[i]].next = Nth(ListOrder, i + 1, ListNull)
      /\ \A i \in 1 .. Len(ListOrder) : ListOrder[i] \in DOMAIN listHeap
      /\ ListNull \notin DOMAIN listHeap /\ Distinct(ListOrder)
  BY ListFacts
<1>1. (List_IsActive /\ listHeap[listActive].next # ListNull) <=> (ListPlace # 0 /\ ListPlace < Len(ListOrder))
  <2>1. ASSUME ListPlace # 0
        PROVE  listHeap[listActive].next # ListNull <=> ListPlace < Len(ListOrder)
    <3>1. ListPlace \in 1 .. Len(ListOrder) /\ listHeap[listActive].next = Nth(ListOrder, ListPlace + 1, ListNull)
      BY <1>0, <2>1
    <3>2. ListPlace + 1 \in 1 .. Len(ListOrder) <=> ListPlace < Len(ListOrder)
      BY <1>0
    <3> QED BY <3>1, <3>2, <1>0 DEF Nth
  <2> QED BY <1>0, <2>1
<1>2. CASE ~(List_IsActive /\ listHeap[listActive].next # ListNull)
  <2>1. UNCHANGED listVars
    BY <1>2 DEF List_DeleteAfter, ListIdle
  <2>2. ListInv' /\ ListItems' = ListItems /\ ListPlace' = ListPlace
    BY <2>1, ListKept DEF listVars, ListInv, ListPlace
  <2>3. ~(ListPlace # 0 /\ ListPlace < Len(ListItems))
    BY <1>0, <1>1, <1>2
  <2> QED BY <2>1, <2>2, <2>3 DEF ListSpecified!DeleteAfter, ListSpecified!At,
                                  ListSpecified!Active, listVars
<1>3. CASE List_IsActive /\ listHeap[listActive].next # ListNull
  <2> DEFINE k == ListPlace
             p == k + 1
             gone == listHeap[listActive].next
             heap2 == listHeap'
  <2>1. /\ heap2 = Freed([listHeap EXCEPT ![listActive].next = listHeap[gone].next], gone)
        /\ listLength' = listLength - 1
        /\ UNCHANGED <<listFirst, listActive>> /\ ListQuiet
    BY <1>3 DEF List_DeleteAfter
  <2>2. k \in 1 .. Len(ListOrder) /\ p \in 1 .. Len(ListOrder) /\ p > 1 /\ p # 1 /\ p - 1 = k
        /\ ListOrder[k] = listActive
    BY <1>0, <1>1, <1>3
  <2>3. gone = ListOrder[p]
    BY <1>0, <2>2 DEF Nth
  <2>4. /\ listActive \in DOMAIN listHeap /\ listHeap \in [DOMAIN listHeap -> ListCellType]
        /\ gone \in DOMAIN listHeap /\ listActive # gone
    BY <1>0, <1>3, <2>2, <2>3 DEF ListInv, Distinct
  <2>5. \A x \in DOMAIN listHeap : listHeap[x] \in ListCellType
    BY <2>4
  <2> HIDE DEF gone
  <2>6. /\ heap2 = [x \in DOMAIN listHeap \ {gone} |-> heap2[x]]
        /\ \A x \in DOMAIN listHeap \ {gone} :
             heap2[x] = IF x = listActive THEN [listHeap[x] EXCEPT !.next = listHeap[gone].next]
                        ELSE listHeap[x]
    BY <2>1, <2>4 DEF Freed
  <2>7. ASSUME NEW x \in DOMAIN listHeap \ {gone}
        PROVE  /\ heap2[x] \in ListCellType /\ heap2[x].data = listHeap[x].data
               /\ heap2[x].next = IF p > 1 /\ x = ListOrder[p - 1] THEN listHeap[gone].next
                                  ELSE listHeap[x].next
    <3>1. CASE x = listActive
      <4>1. heap2[x] = [listHeap[x] EXCEPT !.next = listHeap[gone].next]
        BY <2>6, <3>1
      <4>2. listHeap[x] \in ListCellType /\ listHeap[gone].next \in ListCells \cup {ListNull}
        BY <2>4, <2>5 DEF ListCellType
      <4>3. heap2[x] \in ListCellType /\ heap2[x].data = listHeap[x].data
            /\ heap2[x].next = listHeap[gone].next
        BY <4>1, <4>2 DEF ListCellType
      <4> QED BY <4>3, <2>2, <3>1
    <3>2. CASE x # listActive
      BY <2>2, <2>5, <2>6, <3>2
    <3> QED BY <3>1, <3>2
  <2> HIDE DEF p
  <2>8. listActive' = IF listActive = ListOrder[p] THEN ListNull ELSE listActive
    BY <2>1, <2>3, <2>4
  <2>9. listFirst' = IF p = 1 THEN listHeap[listFirst].next ELSE listFirst
    BY <2>1, <2>2
  <2>10. /\ ListInv'
         /\ ListItems' = Minus(ListItems, p)
         /\ ListPlace' = IF ListPlace = p THEN 0 ELSE IF ListPlace < p THEN ListPlace ELSE ListPlace - 1
    BY <2>1, <2>2, <2>3, <2>6, <2>7, <2>8, <2>9, ListDeleted
  <2>11. RemoveAt(ListItems, p) = Minus(ListItems, p)
    BY <1>0, <2>2, RemoveAtIsMinus
  <2>12. ListPlace' = ListPlace /\ ListPlace # 0 /\ ListPlace < Len(ListItems)
    BY <1>0, <2>2, <2>10 DEF p
  <2>13. ListItems' = RemoveAt(ListItems, ListPlace + 1)
    BY <2>10, <2>11 DEF p
  <2>14. listAnswer' = listAnswer
    BY <2>1 DEF ListQuiet
  <2> QED BY <2>10, <2>12, <2>13, <2>14
          DEF ListSpecified!DeleteAfter, ListSpecified!At, ListSpecified!Active,
              ListSpecified!RemoveAt, RemoveAt
<1> QED BY <1>2, <1>3

LEMMA ListFirstAndNext ==
  ASSUME ListInv
  PROVE  /\ List_First => ListInv' /\ ListSpecified!First
         /\ List_Next => ListInv' /\ ListSpecified!Next_
<1> USE DEF List_IsActive
<1>0. /\ ListItems \in Seq(ListData) /\ Len(ListItems) = Len(ListOrder)
      /\ ListPlace \in 0 .. Len(ListOrder) /\ Len(ListOrder) \in Nat
      /\ ListPlace # 0 <=> List_IsActive
      /\ ListPlace # 0 => ListOrder[ListPlace] = listActive
      /\ listFirst = Nth(ListOrder, 1, ListNull)
      /\ \A i \in 1 .. Len(ListOrder) : listHeap[ListOrder[i]].next = Nth(ListOrder, i + 1, ListNull)
      /\ \A i \in 1 .. Len(ListOrder) : ListOrder[i] \in DOMAIN listHeap
      /\ ListNull \notin DOMAIN listHeap /\ Distinct(ListOrder)
      /\ ListOrder \in Seq(DOMAIN listHeap)
  BY ListFacts
<1>1. \A i \in Nat : i >= 1 =>
        /\ Nth(ListOrder, i, ListNull) \in DOMAIN listHeap \cup {ListNull}
        /\ Place(Nth(ListOrder, i, ListNull), ListOrder) = IF i <= Len(ListOrder) THEN i ELSE 0
  <2>1. \A i \in 1 .. Len(ListOrder) : Place(ListOrder[i], ListOrder) = i
    BY <1>0, PlaceOf
  <2>2. Place(ListNull, ListOrder) = 0
    <3>1. \A i \in 1 .. Len(ListOrder) : ListOrder[i] # ListNull
      BY <1>0
    <3> QED BY <1>0, <3>1, PlaceOf
  <2>3. \A i \in Nat : i >= 1 => (i \in 1 .. Len(ListOrder) <=> i <= Len(ListOrder))
    BY <1>0
  <2> QED BY <1>0, <2>1, <2>2, <2>3 DEF Nth
<1>2. ListItems = <<>> <=> Len(ListOrder) = 0
  BY <1>0, EmptySeq
<1>3. ASSUME List_First PROVE ListInv' /\ ListSpecified!First
  <2>1. /\ UNCHANGED <<listHeap, listFirst, listLength>> /\ UNCHANGED listAnswer
        /\ listActive' = Nth(ListOrder, 1, ListNull)
    BY <1>0, <1>3 DEF List_First, ListActivate, ListQuiet
  <2>2. /\ listActive' \in DOMAIN listHeap \cup {ListNull}
        /\ Place(listActive', ListOrder) = IF 1 <= Len(ListOrder) THEN 1 ELSE 0
    BY <1>1, <2>1
  <2>3. ListInv' /\ ListItems' = ListItems /\ ListPlace' = Place(listActive', ListOrder)
    BY <2>1, <2>2, ListKept
  <2>4. ListPlace' = IF ListItems = <<>> THEN 0 ELSE 1
    BY <1>0, <1>2, <2>2, <2>3
  <2> QED BY <2>1, <2>3, <2>4 DEF ListSpecified!First, ListSpecified!At
<1>4. ASSUME List_Next PROVE ListInv' /\ ListSpecified!Next_
  <2>1. /\ UNCHANGED <<listHeap, listFirst, listLength>> /\ UNCHANGED listAnswer
        /\ listActive' = IF List_IsActive THEN listHeap[listActive].next ELSE ListNull
    BY <1>4 DEF List_Next, ListActivate, ListQuiet
  <2>2. /\ listActive' \in DOMAIN listHeap \cup {ListNull}
        /\ Place(listActive', ListOrder) =
             IF ListPlace < Len(ListOrder) THEN (IF ListPlace # 0 THEN ListPlace + 1 ELSE 0) ELSE 0
    <3>1. CASE List_IsActive
      <4>1. ListPlace \in 1 .. Len(ListOrder) /\ ListPlace + 1 \in Nat /\ ListPlace + 1 >= 1
            /\ (ListPlace + 1 <= Len(ListOrder) <=> ListPlace < Len(ListOrder))
        BY <1>0, <3>1
      <4>2. listActive' = Nth(ListOrder, ListPlace + 1, ListNull)
        BY <1>0, <2>1, <3>1, <4>1
      <4> QED BY <1>0, <1>1, <3>1, <4>1, <4>2
    <3>2. CASE ~List_IsActive
      <4>1. \A i \in 1 .. Len(ListOrder) : ListOrder[i] # ListNull
        BY <1>0
      <4>2. Place(ListNull, ListOrder) = 0
        BY <1>0, <4>1, PlaceOf
      <4> QED BY <1>0, <2>1, <3>2, <4>2
    <3> QED BY <3>1, <3>2
  <2>3. ListInv' /\ ListItems' = ListItems /\ ListPlace' = Place(listActive', ListOrder)
    BY <2>1, <2>2, ListKept
  <2> QED BY <1>0, <2>1, <2>2, <2>3 DEF ListSpecified!Next_, ListSpecified!At,
                                   ListSpecified!Shifted, ListSpecified!Active
<1> QED BY <1>3, <1>4

LEMMA ListGets ==
  ASSUME ListInv
  PROVE  /\ List_GetFirst => ListInv' /\ ListSpecified!GetFirst
         /\ List_GetValue => ListInv' /\ ListSpecified!GetValue
<1> USE DEF List_IsActive
<1>0. /\ ListItems \in Seq(ListData) /\ Len(ListItems) = Len(ListOrder)
      /\ ListPlace \in 0 .. Len(ListOrder) /\ Len(ListOrder) \in Nat
      /\ ListPlace = 0 <=> listActive = ListNull
      /\ ListPlace # 0 => ListOrder[ListPlace] = listActive
      /\ listFirst = Nth(ListOrder, 1, ListNull)
      /\ \A i \in 1 .. Len(ListOrder) : ListOrder[i] \in DOMAIN listHeap
      /\ ListNull \notin DOMAIN listHeap
      /\ DOMAIN ListOrder = 1 .. Len(ListOrder)
  BY ListFacts
<1>1. ASSUME NEW c, NEW i \in Nat, c = Nth(ListOrder, i, ListNull), ListStore(c)
      PROVE  ListInv' /\ ListSpecified!Answer(i)
  <2>1. /\ listAnswer' = IF c = ListNull THEN ListFailed ELSE listHeap[c].data
        /\ UNCHANGED <<listHeap, listFirst, listActive, listLength>>
    BY <1>1 DEF ListStore
  <2>2. ListInv' /\ ListItems' = ListItems /\ ListPlace' = ListPlace
    BY <2>1, ListKept DEF ListInv, ListPlace
  <2>3. DOMAIN ListItems = 1 .. Len(ListOrder)
        /\ \A j \in 1 .. Len(ListOrder) : ListItems[j] = listHeap[ListOrder[j]].data
    BY <1>0 DEF ListItems, Items
  <2>4. listAnswer' = IF i \in DOMAIN ListItems THEN ListItems[i] ELSE ListFailed
    BY <1>0, <1>1, <2>1, <2>3 DEF Nth
  <2> QED BY <2>2, <2>4 DEF ListSpecified!Answer
<1>2. listActive = Nth(ListOrder, ListPlace, ListNull)
  BY <1>0 DEF Nth
<1> QED BY <1>0, <1>1, <1>2 DEF List_GetFirst, List_GetValue,
                                ListSpecified!GetFirst, ListSpecified!GetValue

\* No cell is allocated: the chain is empty.
LEMMA EmptyChain ==
  ASSUME NEW next, DOMAIN next = {}, NEW null
  PROVE  Chain(<<>>, null, next, null) /\ Covers(<<>>, {}) /\ Walk(null, next, null) = <<>>
         /\ Len(<<>>) = 0 /\ IsFiniteSet({}) /\ Place(null, <<>>) = 0
         /\ \A heap : Items(<<>>, heap) = <<>>
<1>1. Len(<<>>) = 0 /\ <<>> \in Seq({}) /\ DOMAIN <<>> = {}
  OBVIOUS
<1>2. Chain(<<>>, null, next, null)
  <2>1. <<>> \in Seq(DOMAIN next)
    BY <1>1
  <2>2. \A i \in 1 .. 0 : FALSE
    OBVIOUS
  <2>3. 1 \notin 1 .. 0
    OBVIOUS
  <2> QED BY <1>1, <2>1, <2>2, <2>3 DEF Chain, Distinct, Nth
<1>3. Walk(null, next, null) = <<>>
  BY <1>2, WalkOfChain, FS_EmptySet
<1> QED BY <1>1, <1>2, <1>3, FS_EmptySet DEF Covers, Place, Items

LEMMA ListDispose ==
  ASSUME ListInv, List_Dispose
  PROVE  ListInv' /\ ListSpecified!Clear
<1>1. /\ listHeap' = [c \in {} |-> ListNull] /\ listFirst' = ListNull /\ listActive' = ListNull
      /\ listLength' = 0 /\ listAnswer' = listAnswer
  BY DEF List_Dispose, ListQuiet
<1>2. ListInv' /\ ListItems' = <<>> /\ ListPlace' = 0
  <2>1. DOMAIN ListNexts' = {} /\ DOMAIN listHeap' = {}
    BY <1>1 DEF ListNexts
  <2>2. ListInv' /\ ListOrder' = <<>>
    BY <1>1, <2>1, EmptyChain, ListRestored
  <2> QED BY <1>1, <2>1, <2>2, EmptyChain DEF ListItems, ListPlace
<1> QED BY <1>1, <1>2 DEF ListSpecified!Clear, ListSpecified!At

\* The invariant holds at the start and is kept by every step.
LEMMA ListInvInit == ListInit => ListInv /\ ListSpecified!CursorInit
<1> SUFFICES ASSUME ListInit PROVE ListInv /\ ListSpecified!CursorInit
  OBVIOUS
<1>1. /\ DOMAIN listHeap = {} /\ DOMAIN ListNexts = {} /\ listFirst = ListNull
      /\ listActive = ListNull /\ listLength = 0 /\ listAnswer = ListFailed
  BY DEF ListInit, ListNexts
<1>2. ListOrder = <<>>
  BY <1>1, EmptyChain DEF ListOrder
<1>3. ListInv
  <2>1. listHeap \in [DOMAIN listHeap -> ListCellType]
    BY <1>1 DEF ListInit
  <2> QED BY <1>1, <1>2, <2>1, EmptyChain DEF ListInv
<1>4. ListItems = <<>> /\ ListPlace = 0
  BY <1>1, <1>2, EmptyChain DEF ListItems, ListPlace
<1> QED BY <1>1, <1>3, <1>4 DEF ListSpecified!CursorInit

LEMMA ListInvStep == ListInv /\ [ListNext]_listVars => ListInv'
<1> SUFFICES ASSUME ListInv, [ListNext]_listVars PROVE ListInv'
  OBVIOUS
<1>1. ASSUME NEW d \in ListData, List_InsertFirst(d) PROVE ListInv'
  BY <1>1, ListInsertFirst
<1>2. ASSUME NEW d \in ListData, List_InsertAfter(d) PROVE ListInv'
  BY <1>2, ListInsertAfter
<1>3. ASSUME NEW d \in ListData, List_SetValue(d) PROVE ListInv'
  BY <1>3, ListSetValue
<1>4. CASE List_DeleteFirst
  BY <1>4, ListDeleteFirst
<1>5. CASE List_DeleteAfter
  BY <1>5, ListDeleteAfter
<1>6. CASE List_Dispose
  BY <1>6, ListDispose
<1>7. CASE List_First \/ List_Next
  BY <1>7, ListFirstAndNext
<1>8. CASE List_GetFirst \/ List_GetValue
  BY <1>8, ListGets
<1>9. CASE UNCHANGED <<listHeap, listFirst, listActive, listLength>>
  BY <1>9, ListKept DEF ListInv
<1>10. CASE List_InsertFails
  BY <1>9, <1>10 DEF List_InsertFails
<1>11. CASE UNCHANGED listVars
  BY <1>9, <1>11 DEF listVars
<1> QED BY <1>1, <1>2, <1>3, <1>4, <1>5, <1>6, <1>7, <1>8, <1>10, <1>11 DEF ListNext

\* The state part of SListIsCursorList.
LEMMA ListInvHolds ==
  ListInv => /\ ToSet(ListOrder) = DOMAIN listHeap
             /\ Cardinality(DOMAIN listHeap) = listLength /\ Len(ListOrder) = listLength
             /\ List_IsActive => listActive \in DOMAIN listHeap
<1> SUFFICES ASSUME ListInv
             PROVE  /\ ToSet(ListOrder) = DOMAIN listHeap
                    /\ Cardinality(DOMAIN listHeap) = listLength /\ Len(ListOrder) = listLength
                    /\ List_IsActive => listActive \in DOMAIN listHeap
  OBVIOUS
<1>1. /\ ListOrder \in Seq(DOMAIN listHeap) /\ Distinct(ListOrder)
      /\ DOMAIN ListOrder = 1 .. Len(ListOrder)
      /\ \A i \in 1 .. Len(ListOrder) : ListOrder[i] \in DOMAIN listHeap
  BY ListFacts
<1>2. Covers(ListOrder, DOMAIN listHeap) /\ IsFiniteSet(DOMAIN listHeap)
      /\ listLength = Len(ListOrder) /\ listActive \in DOMAIN listHeap \cup {ListNull}
  BY DEF ListInv
<1>3. Len(ListOrder) = Cardinality(DOMAIN listHeap)
  BY <1>1, <1>2, ChainLength
<1>4. ToSet(ListOrder) = DOMAIN listHeap
  BY <1>1, <1>2 DEF ToSet, Covers
<1> QED BY <1>2, <1>3, <1>4 DEF List_IsActive

\* The singly linked list of c201.c does what a sequence with a cursor does: every
\* cell that is allocated is on the list, once, currentLength counts them and the
\* active element is a cell of the list, for every set of addresses and data.
THEOREM SListRefinesCursorList == ListSpec => SListIsCursorList
<1> DEFINE Whole == /\ ToSet(ListOrder) = DOMAIN listHeap
                    /\ Cardinality(DOMAIN listHeap) = listLength /\ Len(ListOrder) = listLength
                    /\ List_IsActive => listActive \in DOMAIN listHeap
           Does == /\ \A d \in ListData :
                        /\ List_InsertFirst(d) => ListSpecified!InsertFirst(d)
                        /\ List_InsertAfter(d) => ListSpecified!InsertAfter(d)
                        /\ List_SetValue(d) => ListSpecified!SetValue(d)
                   /\ List_DeleteFirst => ListSpecified!DeleteFirst
                   /\ List_DeleteAfter => ListSpecified!DeleteAfter
                   /\ List_First => ListSpecified!First
                   /\ List_Next => ListSpecified!Next_
                   /\ List_GetFirst => ListSpecified!GetFirst
                   /\ List_GetValue => ListSpecified!GetValue
                   /\ List_Dispose => ListSpecified!Clear
<1>1. ListInit => ListInv /\ ListSpecified!CursorInit
  BY ListInvInit
<1>2. ListInv /\ [ListNext]_listVars => ListInv'
  BY ListInvStep
<1>3. ListInv => Whole
  BY ListInvHolds
<1>4. ASSUME ListInv PROVE Does
  <2>1. ASSUME NEW d \in ListData
        PROVE  /\ List_InsertFirst(d) => ListSpecified!InsertFirst(d)
               /\ List_InsertAfter(d) => ListSpecified!InsertAfter(d)
               /\ List_SetValue(d) => ListSpecified!SetValue(d)
    BY <1>4, ListInsertFirst, ListInsertAfter, ListSetValue
  <2> QED BY <1>4, <2>1, ListDeleteFirst, ListDeleteAfter, ListFirstAndNext, ListGets, ListDispose
<1>5. ListInv => (listVars' # listVars => Does)
  BY <1>4
<1> QED BY <1>1, <1>2, <1>3, <1>5, PTL DEF ListSpec, SListIsCursorList

-----------------------------------------------------------------------------
(* The doubly linked list *)

DLLCellType == [data : DLLData, prev : DLLCells \cup {DLLNull}, next : DLLCells \cup {DLLNull}]

\* The order read from the links next is a chain of all the cells that are
\* allocated, and the links prev are a chain of the same order reversed.
DLLSound ==
  /\ dllHeap \in [DOMAIN dllHeap -> DLLCellType]
  /\ DOMAIN dllHeap \subseteq DLLCells /\ IsFiniteSet(DOMAIN dllHeap)
  /\ Chain(DLLOrder, dllFirst, DLLNexts, DLLNull)
  /\ Chain(Reverse(DLLOrder), dllLast, DLLPrevs, DLLNull)
  /\ Covers(DLLOrder, DOMAIN dllHeap)
  /\ dllLength = Len(DLLOrder)
  /\ dllActive \in DOMAIN dllHeap \cup {DLLNull}
\* The invariant: so it is until a NULL is written through or a cell linked to
\* itself, which is the one way DLL_InsertBefore and a failed malloc break it.
DLLInv == ~dllBroken => DLLSound

(* Heaps with changed links *)

LEMMA DLLLinks ==
  ASSUME NEW heap, heap \in [DOMAIN heap -> DLLCellType], NEW a \in DOMAIN heap,
         NEW to \in DLLCells \cup {DLLNull}
  PROVE  /\ DOMAIN LinkNext(heap, a, to) = DOMAIN heap
         /\ LinkNext(heap, a, to) \in [DOMAIN heap -> DLLCellType]
         /\ \A x \in DOMAIN heap :
              /\ LinkNext(heap, a, to)[x].data = heap[x].data
              /\ LinkNext(heap, a, to)[x].prev = heap[x].prev
              /\ LinkNext(heap, a, to)[x].next = IF x = a THEN to ELSE heap[x].next
         /\ DOMAIN LinkPrev(heap, a, to) = DOMAIN heap
         /\ LinkPrev(heap, a, to) \in [DOMAIN heap -> DLLCellType]
         /\ \A x \in DOMAIN heap :
              /\ LinkPrev(heap, a, to)[x].data = heap[x].data
              /\ LinkPrev(heap, a, to)[x].prev = IF x = a THEN to ELSE heap[x].prev
              /\ LinkPrev(heap, a, to)[x].next = heap[x].next
<1> DEFINE n == LinkNext(heap, a, to)
           q == LinkPrev(heap, a, to)
<1>1. \A x \in DOMAIN heap : heap[x] \in DLLCellType
  OBVIOUS
<1>2. /\ n = [x \in DOMAIN heap |-> IF x = a THEN [heap[a] EXCEPT !.next = to] ELSE heap[x]]
      /\ q = [x \in DOMAIN heap |-> IF x = a THEN [heap[a] EXCEPT !.prev = to] ELSE heap[x]]
  BY DEF LinkNext, LinkPrev
<1> HIDE DEF n, q
<1>3. /\ [heap[a] EXCEPT !.next = to] \in DLLCellType
      /\ [heap[a] EXCEPT !.next = to].data = heap[a].data
      /\ [heap[a] EXCEPT !.next = to].prev = heap[a].prev
      /\ [heap[a] EXCEPT !.next = to].next = to
  BY <1>1 DEF DLLCellType
<1>4. /\ [heap[a] EXCEPT !.prev = to] \in DLLCellType
      /\ [heap[a] EXCEPT !.prev = to].data = heap[a].data
      /\ [heap[a] EXCEPT !.prev = to].prev = to
      /\ [heap[a] EXCEPT !.prev = to].next = heap[a].next
  BY <1>1 DEF DLLCellType
<1>5. /\ DOMAIN n = DOMAIN heap /\ n \in [DOMAIN heap -> DLLCellType]
      /\ \A x \in DOMAIN heap :
              /\ n[x].data = heap[x].data /\ n[x].prev = heap[x].prev
              /\ n[x].next = IF x = a THEN to ELSE heap[x].next
  BY <1>1, <1>2, <1>3
<1>6. /\ DOMAIN q = DOMAIN heap /\ q \in [DOMAIN heap -> DLLCellType]
      /\ \A x \in DOMAIN heap :
              /\ q[x].data = heap[x].data /\ q[x].next = heap[x].next
              /\ q[x].prev = IF x = a THEN to ELSE heap[x].prev
  BY <1>1, <1>2, <1>4
<1> QED BY <1>5, <1>6 DEF n, q

LEMMA DLLOldCell ==
  ASSUME NEW heap, heap \in [DOMAIN heap -> DLLCellType], NEW c
  PROVE  /\ DOMAIN DLLWithout(heap, c) = DOMAIN heap \ {c}
         /\ DLLWithout(heap, c) \in [DOMAIN heap \ {c} -> DLLCellType]
         /\ \A x \in DOMAIN heap \ {c} : DLLWithout(heap, c)[x] = heap[x]
BY DEF DLLWithout

\* What a sound list says of the pointers, by their places in the order.
LEMMA DLLFacts ==
  ASSUME DLLSound
  PROVE  /\ DLLOrder \in Seq(DOMAIN dllHeap) /\ Len(DLLOrder) \in Nat /\ Distinct(DLLOrder)
         /\ DOMAIN DLLOrder = 1 .. Len(DLLOrder)
         /\ DOMAIN DLLNexts = DOMAIN dllHeap /\ DOMAIN DLLPrevs = DOMAIN dllHeap
         /\ DLLNull \notin DOMAIN dllHeap
         /\ \A i \in 1 .. Len(DLLOrder) : DLLOrder[i] \in DOMAIN dllHeap
         /\ dllFirst = Nth(DLLOrder, 1, DLLNull) /\ dllLast = Nth(DLLOrder, Len(DLLOrder), DLLNull)
         /\ \A i \in 1 .. Len(DLLOrder) : dllHeap[DLLOrder[i]].next = Nth(DLLOrder, i + 1, DLLNull)
         /\ \A i \in 1 .. Len(DLLOrder) : dllHeap[DLLOrder[i]].prev = Nth(DLLOrder, i - 1, DLLNull)
         /\ DLLItems \in Seq(DLLData) /\ Len(DLLItems) = Len(DLLOrder)
         /\ DLLPlace \in 0 .. Len(DLLOrder)
         /\ DLLPlace = 0 <=> dllActive = DLLNull
         /\ DLLPlace # 0 => DLLOrder[DLLPlace] = dllActive
<1> DEFINE s == DLLOrder
           r == Reverse(s)
<1>1. /\ DOMAIN DLLNexts = DOMAIN dllHeap /\ \A c \in DOMAIN dllHeap : DLLNexts[c] = dllHeap[c].next
      /\ DOMAIN DLLPrevs = DOMAIN dllHeap /\ \A c \in DOMAIN dllHeap : DLLPrevs[c] = dllHeap[c].prev
  BY DEF DLLNexts, DLLPrevs
<1>2. DLLNull \notin DOMAIN dllHeap
  BY DLLAssumption DEF DLLSound
<1>3. s \in Seq(DOMAIN dllHeap) /\ Distinct(s) /\ dllFirst = Nth(s, 1, DLLNull)
      /\ \A i \in 1 .. Len(s) : DLLNexts[s[i]] = Nth(s, i + 1, DLLNull)
  BY <1>1 DEF DLLSound, Chain
<1>4. /\ Covers(s, DOMAIN dllHeap) /\ dllActive \in DOMAIN dllHeap \cup {DLLNull}
      /\ \A c \in DOMAIN dllHeap : dllHeap[c].data \in DLLData
      /\ dllLast = Nth(r, 1, DLLNull)
      /\ \A i \in 1 .. Len(r) : DLLPrevs[r[i]] = Nth(r, i + 1, DLLNull)
  BY DEF DLLSound, DLLCellType, Chain
<1> HIDE DEF s, r
<1>5. Len(s) \in Nat /\ DOMAIN s = 1 .. Len(s) /\ \A i \in 1 .. Len(s) : s[i] \in DOMAIN dllHeap
  BY <1>3
<1>6. \A i \in 1 .. Len(s) : dllHeap[s[i]].next = Nth(s, i + 1, DLLNull)
  BY <1>1, <1>3, <1>5
<1>7. Items(s, dllHeap) \in [1 .. Len(s) -> DLLData]
  BY <1>4, <1>5 DEF Items
<1>8. Items(s, dllHeap) \in Seq(DLLData) /\ Len(Items(s, dllHeap)) = Len(s)
  BY <1>5, <1>7
<1>9. /\ Place(dllActive, s) \in 0 .. Len(s)
      /\ Place(dllActive, s) # 0 => s[Place(dllActive, s)] = dllActive
      /\ Place(dllActive, s) = 0 => \A i \in 1 .. Len(s) : s[i] # dllActive
  BY <1>3, PlaceIn
<1>10. Place(dllActive, s) = 0 <=> dllActive = DLLNull
  BY <1>2, <1>4, <1>5, <1>9 DEF Covers
<1>11. Len(r) = Len(s) /\ \A i \in 1 .. Len(s) : r[i] = s[Len(s) + 1 - i]
  BY <1>3, ReversedSequence DEF r
<1>12. \A i \in Int : Nth(r, i, DLLNull) = Nth(s, Len(s) + 1 - i, DLLNull)
  <2>1. \A i \in Int : i \in 1 .. Len(s) <=> Len(s) + 1 - i \in 1 .. Len(s)
    BY <1>5
  <2> QED BY <1>11, <2>1 DEF Nth
<1>13. dllLast = Nth(s, Len(s), DLLNull)
  <2>1. 1 \in Int /\ Len(s) + 1 - 1 = Len(s)
    BY <1>5
  <2> QED BY <1>4, <1>12, <2>1
<1>14. ASSUME NEW i \in 1 .. Len(s) PROVE dllHeap[s[i]].prev = Nth(s, i - 1, DLLNull)
  <2> DEFINE j == Len(s) + 1 - i
  <2>1. j \in 1 .. Len(s) /\ j + 1 \in Int /\ Len(s) + 1 - j = i /\ Len(s) + 1 - (j + 1) = i - 1
    BY <1>5
  <2> HIDE DEF j
  <2>2. r[j] = s[i] /\ DLLPrevs[r[j]] = Nth(r, j + 1, DLLNull)
    BY <1>4, <1>11, <2>1
  <2>3. Nth(r, j + 1, DLLNull) = Nth(s, i - 1, DLLNull)
    BY <1>12, <2>1
  <2> QED BY <1>1, <1>5, <2>2, <2>3
<1> QED BY <1>1, <1>2, <1>3, <1>5, <1>6, <1>8, <1>9, <1>10, <1>13, <1>14 DEF DLLItems, DLLPlace, s

\* Whatever is a chain of all cells after a step, forwards and back, is the
\* order after it.
LEMMA DLLRestored ==
  ASSUME dllHeap' \in [DOMAIN dllHeap' -> DLLCellType],
         DOMAIN dllHeap' \subseteq DLLCells, IsFiniteSet(DOMAIN dllHeap'),
         NEW s, Chain(s, dllFirst', DLLNexts', DLLNull), Chain(Reverse(s), dllLast', DLLPrevs', DLLNull),
         Covers(s, DOMAIN dllHeap'),
         dllLength' = Len(s), dllActive' \in DOMAIN dllHeap' \cup {DLLNull}
  PROVE  DLLSound' /\ DLLOrder' = s
<1>1. DOMAIN DLLNexts' = DOMAIN dllHeap' /\ DLLNull \notin DOMAIN dllHeap'
  BY DLLAssumption DEF DLLNexts
<1>2. Walk(dllFirst', DLLNexts', DLLNull) = s
  BY <1>1, WalkOfChain
<1>3. DLLOrder' = s
  BY <1>2 DEF DLLOrder
<1> QED BY <1>3 DEF DLLSound

\* A cell linked in at place p, and the cell at place p unlinked and freed: what
\* the heap must be afterwards.
LEMMA DLLInserted ==
  ASSUME DLLSound, NEW d \in DLLData, NEW c \in DLLCells \ DOMAIN dllHeap,
         NEW p \in 1 .. Len(DLLOrder) + 1,
         DOMAIN dllHeap' = DOMAIN dllHeap \cup {c},
         dllHeap' \in [DOMAIN dllHeap \cup {c} -> DLLCellType],
         dllHeap'[c].data = d,
         dllHeap'[c].next = Nth(DLLOrder, p, DLLNull), dllHeap'[c].prev = Nth(DLLOrder, p - 1, DLLNull),
         \A x \in DOMAIN dllHeap :
           /\ dllHeap'[x].data = dllHeap[x].data
           /\ dllHeap'[x].next = IF p > 1 /\ x = DLLOrder[p - 1] THEN c ELSE dllHeap[x].next
           /\ dllHeap'[x].prev = IF p <= Len(DLLOrder) /\ x = DLLOrder[p] THEN c ELSE dllHeap[x].prev,
         dllFirst' = IF p = 1 THEN c ELSE dllFirst,
         dllLast' = IF p = Len(DLLOrder) + 1 THEN c ELSE dllLast,
         dllLength' = dllLength + 1, dllActive' = dllActive
  PROVE  /\ DLLSound'
         /\ DLLItems' = Plus(DLLItems, p, d)
         /\ DLLPlace' = IF DLLPlace < p THEN DLLPlace ELSE DLLPlace + 1
<1> DEFINE s == DLLOrder
           r == Reverse(s)
           q == Len(s) + 2 - p
           t == Plus(s, p, c)
           next == DLLNexts
           prev == DLLPrevs
           nextAfter == [x \in DOMAIN dllHeap \cup {c} |-> dllHeap'[x].next]
           prevAfter == [x \in DOMAIN dllHeap \cup {c} |-> dllHeap'[x].prev]
<1>1. /\ s \in Seq(DOMAIN dllHeap) /\ Len(s) \in Nat /\ Distinct(s)
      /\ DOMAIN next = DOMAIN dllHeap /\ DOMAIN prev = DOMAIN dllHeap
      /\ \A i \in 1 .. Len(s) : s[i] \in DOMAIN dllHeap
  BY DLLFacts
<1>2. /\ Chain(s, dllFirst, next, DLLNull) /\ Chain(r, dllLast, prev, DLLNull) /\ Covers(s, DOMAIN dllHeap)
      /\ dllLength = Len(s) /\ dllActive \in DOMAIN dllHeap \cup {DLLNull}
      /\ DOMAIN dllHeap \subseteq DLLCells /\ IsFiniteSet(DOMAIN dllHeap)
      /\ DLLNull \notin DLLCells
  BY DLLAssumption DEF DLLSound
<1>3. DLLNexts' = nextAfter /\ DLLPrevs' = prevAfter
  BY DEF DLLNexts, DLLPrevs
<1>4. IsFiniteSet(DOMAIN dllHeap') /\ DOMAIN dllHeap' \subseteq DLLCells
      /\ dllHeap' \in [DOMAIN dllHeap' -> DLLCellType]
  <2>1. IsFiniteSet(DOMAIN dllHeap \cup {c})
    BY <1>2, FS_AddElement
  <2> QED BY <1>2, <2>1
<1>5. Chain(t, dllFirst', nextAfter, DLLNull)
  <2>1. p > 1 => nextAfter[s[p - 1]] = c
    BY <1>1
  <2>2. ASSUME NEW i \in 1 .. Len(s), i # p - 1 PROVE nextAfter[s[i]] = next[s[i]]
    <3>1. p > 1 => p - 1 \in 1 .. Len(s)
      BY <1>1
    <3>2. ~(p > 1 /\ s[i] = s[p - 1])
      BY <3>1, <2>2, <1>1 DEF Distinct
    <3> QED BY <3>2, <1>1 DEF DLLNexts
  <2>3. /\ p \in 1 .. Len(s) + 1 /\ c \notin DOMAIN next
        /\ DOMAIN nextAfter = DOMAIN next \cup {c}
        /\ nextAfter[c] = Nth(s, p, DLLNull)
    BY <1>1
  <2> HIDE DEF s, next, nextAfter
  <2>4. Spliced(s, p, c, next, nextAfter, DLLNull)
    BY <2>1, <2>2, <2>3 DEF Spliced
  <2> QED BY <1>2, <2>4, ChainPlus DEF t
<1>6. /\ r \in Seq(DOMAIN dllHeap) /\ Len(r) = Len(s) /\ \A i \in 1 .. Len(s) : r[i] = s[Len(s) + 1 - i]
      /\ Reverse(t) = Plus(r, q, c)
  <2> DEFINE T == DOMAIN dllHeap \cup {c}
  <2>1. s \in Seq(T) /\ c \in T /\ p \in 1 .. Len(s) + 1
    BY <1>1
  <2> HIDE DEF T, s
  <2>2. Reverse(t) = Plus(r, q, c)
    BY <2>1, ReverseOfPlus
  <2> QED BY <1>1, <2>2, ReversedSequence
<1>7. Chain(Reverse(t), dllLast', prevAfter, DLLNull)
  <2>1. p \in Int /\ q \in 1 .. Len(r) + 1 /\ (q = 1 <=> p = Len(s) + 1) /\ (q > 1 <=> p <= Len(s))
    BY <1>1, <1>6
  <2>2. q > 1 => prevAfter[r[q - 1]] = c
    <3>1. ASSUME q > 1 PROVE q - 1 \in 1 .. Len(s) /\ Len(s) + 1 - (q - 1) = p /\ p \in 1 .. Len(s)
      BY <3>1, <1>1
    <3>2. ASSUME q > 1 PROVE r[q - 1] = s[p]
      <4> HIDE DEF r, q, s
      <4> QED BY <3>1, <3>2, <1>6
    <3> HIDE DEF r, q
    <3> QED BY <3>1, <3>2, <2>1, <1>1
  <2>3. ASSUME NEW i \in 1 .. Len(r), i # q - 1 PROVE prevAfter[r[i]] = prev[r[i]]
    <3>1. Len(s) + 1 - i \in 1 .. Len(s) /\ Len(s) + 1 - i # p
      <4> HIDE DEF r, s
      <4>1. i \in 1 .. Len(s) /\ p \in Int /\ Len(s) \in Nat
        BY <2>1, <1>1, <1>6
      <4> QED BY <4>1, <2>3
    <3>2. p <= Len(s) => p \in 1 .. Len(s)
      BY <2>1
    <3>3. ~(p <= Len(s) /\ s[Len(s) + 1 - i] = s[p])
      BY <3>1, <3>2, <1>1 DEF Distinct
    <3>4. r[i] = s[Len(s) + 1 - i]
      BY <2>3, <1>6
    <3> HIDE DEF r
    <3> QED BY <3>1, <3>3, <3>4, <1>1 DEF DLLPrevs
  <2>4. prevAfter[c] = Nth(r, q, DLLNull)
    <3>1. q \in 1 .. Len(s) <=> p - 1 \in 1 .. Len(s)
      BY <1>1
    <3>2. Len(s) + 1 - q = p - 1
      BY <1>1
    <3>3. q \in 1 .. Len(s) => r[q] = s[p - 1]
      <4> HIDE DEF r, q, s
      <4> QED BY <3>2, <1>6
    <3>4. prevAfter[c] = Nth(s, p - 1, DLLNull)
      OBVIOUS
    <3> HIDE DEF r, q, s
    <3> QED BY <3>1, <3>3, <3>4, <1>6 DEF Nth
  <2>5. c \notin DOMAIN prev /\ DOMAIN prevAfter = DOMAIN prev \cup {c}
    BY <1>1
  <2>6. dllLast' = IF q = 1 THEN c ELSE dllLast
    BY <2>1
  <2> HIDE DEF r, q, s, prev, prevAfter, t
  <2>7. Spliced(r, q, c, prev, prevAfter, DLLNull)
    BY <2>1, <2>2, <2>3, <2>4, <2>5 DEF Spliced
  <2> QED BY <1>2, <1>6, <2>6, <2>7, ChainPlus
<1>8. Covers(t, DOMAIN dllHeap')
  <2>1. Covers(t, {c}) /\ \A cells : Covers(s, cells) => Covers(t, cells)
    BY <1>1, PlusDistinct
  <2>2. Covers(t, {c}) /\ Covers(t, DOMAIN dllHeap)
    BY <2>1, <1>2
  <2> QED BY <2>2 DEF Covers
<1>9. Len(t) = Len(s) + 1
  <2> DEFINE T == DOMAIN dllHeap \cup {c}
  <2>1. s \in Seq(T) /\ c \in T
    BY <1>1
  <2> HIDE DEF T, s
  <2> QED BY <2>1, PlusType DEF s
<1> HIDE DEF t, s, r, q, nextAfter, prevAfter
<1>10. DLLSound' /\ DLLOrder' = t
  BY <1>2, <1>3, <1>4, <1>5, <1>7, <1>8, <1>9, DLLRestored
<1>11. DLLItems' = Plus(DLLItems, p, d)
  <2> DEFINE heap2 == dllHeap'
  <2>1. \A x \in DOMAIN dllHeap : heap2[x].data = dllHeap[x].data
    OBVIOUS
  <2>2. heap2[c].data = d
    OBVIOUS
  <2> HIDE DEF heap2
  <2>3. Items(t, heap2) = Plus(Items(s, dllHeap), p, heap2[c].data)
    BY <1>1, <2>1, ItemsPlus DEF s, t
  <2>4. DLLItems' = Items(t, heap2)
    BY <1>10 DEF DLLItems, heap2
  <2> QED BY <2>2, <2>3, <2>4 DEF DLLItems, s
<1>12. DLLPlace' = IF DLLPlace < p THEN DLLPlace ELSE DLLPlace + 1
  <2>1. dllActive # c
    BY <1>2
  <2>2. Place(dllActive, t) = IF Place(dllActive, s) < p THEN Place(dllActive, s) ELSE Place(dllActive, s) + 1
    BY <1>1, <2>1, PlacePlus DEF s, t
  <2>3. DLLPlace' = Place(dllActive, t)
    BY <1>10 DEF DLLPlace
  <2> QED BY <2>2, <2>3 DEF DLLPlace, s
<1> QED BY <1>10, <1>11, <1>12

LEMMA DLLDeleted ==
  ASSUME DLLSound, NEW p \in 1 .. Len(DLLOrder),
         DOMAIN dllHeap' = DOMAIN dllHeap \ {DLLOrder[p]},
         dllHeap' \in [DOMAIN dllHeap \ {DLLOrder[p]} -> DLLCellType],
         \A x \in DOMAIN dllHeap \ {DLLOrder[p]} :
           /\ dllHeap'[x].data = dllHeap[x].data
           /\ dllHeap'[x].next = IF p > 1 /\ x = DLLOrder[p - 1]
                                 THEN dllHeap[DLLOrder[p]].next ELSE dllHeap[x].next
           /\ dllHeap'[x].prev = IF p < Len(DLLOrder) /\ x = DLLOrder[p + 1]
                                 THEN dllHeap[DLLOrder[p]].prev ELSE dllHeap[x].prev,
         dllFirst' = IF p = 1 THEN dllHeap[dllFirst].next ELSE dllFirst,
         dllLast' = IF p = Len(DLLOrder) THEN dllHeap[dllLast].prev ELSE dllLast,
         dllLength' = dllLength - 1,
         dllActive' = IF dllActive = DLLOrder[p] THEN DLLNull ELSE dllActive
  PROVE  /\ DLLSound'
         /\ DLLItems' = Minus(DLLItems, p)
         /\ DLLPlace' = IF DLLPlace = p THEN 0
                        ELSE IF DLLPlace < p THEN DLLPlace ELSE DLLPlace - 1
<1> DEFINE s == DLLOrder
           r == Reverse(s)
           q == Len(s) + 1 - p
           t == Minus(s, p)
           next == DLLNexts
           prev == DLLPrevs
           nextAfter == [x \in DOMAIN dllHeap \ {s[p]} |-> dllHeap'[x].next]
           prevAfter == [x \in DOMAIN dllHeap \ {s[p]} |-> dllHeap'[x].prev]
<1>1. /\ s \in Seq(DOMAIN dllHeap) /\ Len(s) \in Nat /\ Distinct(s)
      /\ DOMAIN next = DOMAIN dllHeap /\ DOMAIN prev = DOMAIN dllHeap
      /\ \A i \in 1 .. Len(s) : s[i] \in DOMAIN dllHeap
      /\ dllFirst = Nth(s, 1, DLLNull) /\ dllLast = Nth(s, Len(s), DLLNull)
  BY DLLFacts
<1>2. /\ Chain(s, dllFirst, next, DLLNull) /\ Chain(r, dllLast, prev, DLLNull) /\ Covers(s, DOMAIN dllHeap)
      /\ dllLength = Len(s) /\ dllActive \in DOMAIN dllHeap \cup {DLLNull}
      /\ DOMAIN dllHeap \subseteq DLLCells /\ IsFiniteSet(DOMAIN dllHeap)
      /\ DLLNull \notin DLLCells
  BY DLLAssumption DEF DLLSound
<1>3. DLLNexts' = nextAfter /\ DLLPrevs' = prevAfter
  BY DEF DLLNexts, DLLPrevs
<1>4. IsFiniteSet(DOMAIN dllHeap') /\ DOMAIN dllHeap' \subseteq DLLCells
      /\ dllHeap' \in [DOMAIN dllHeap' -> DLLCellType]
  <2>1. IsFiniteSet(DOMAIN dllHeap \ {s[p]})
    BY <1>2, FS_RemoveElement
  <2> QED BY <1>2, <2>1
<1>5. Chain(t, dllFirst', nextAfter, DLLNull)
  <2>1. p > 1 => nextAfter[s[p - 1]] = next[s[p]]
    <3>1. ASSUME p > 1 PROVE p - 1 \in 1 .. Len(s) /\ s[p - 1] # s[p]
      BY <3>1, <1>1 DEF Distinct
    <3> QED BY <3>1, <1>1 DEF DLLNexts
  <2>2. ASSUME NEW i \in 1 .. Len(s), i # p, i # p - 1 PROVE nextAfter[s[i]] = next[s[i]]
    <3>1. p > 1 => p - 1 \in 1 .. Len(s)
      BY <1>1
    <3>2. ~(p > 1 /\ s[i] = s[p - 1]) /\ s[i] # s[p]
      BY <3>1, <2>2, <1>1 DEF Distinct
    <3> QED BY <3>2, <1>1 DEF DLLNexts
  <2>3. Unlinked(s, p, next, nextAfter)
    BY <1>1, <2>1, <2>2 DEF Unlinked
  <2>4. dllFirst' = IF p = 1 THEN next[dllFirst] ELSE dllFirst
    BY <1>1 DEF Nth, DLLNexts
  <2> HIDE DEF s, next, nextAfter
  <2> QED BY <1>2, <2>3, <2>4, ChainMinus DEF t
<1>6. /\ r \in Seq(DOMAIN dllHeap) /\ Len(r) = Len(s) /\ \A i \in 1 .. Len(s) : r[i] = s[Len(s) + 1 - i]
      /\ Reverse(t) = Minus(r, q)
  BY <1>1, ReverseOfMinus, ReversedSequence
<1>7. Chain(Reverse(t), dllLast', prevAfter, DLLNull)
  <2>1. p \in Int /\ q \in 1 .. Len(r) /\ (q = 1 <=> p = Len(s)) /\ (q > 1 <=> p < Len(s))
        /\ Len(s) + 1 - q = p
    BY <1>1, <1>6
  <2>2. r[q] = s[p]
    <3> HIDE DEF r, q, s
    <3> QED BY <2>1, <1>6
  <2>3. q > 1 => prevAfter[r[q - 1]] = prev[r[q]]
    <3>1. ASSUME q > 1
          PROVE  q - 1 \in 1 .. Len(s) /\ Len(s) + 1 - (q - 1) = p + 1 /\ p < Len(s)
                 /\ p + 1 \in 1 .. Len(s) /\ p \in 1 .. Len(s)
      BY <3>1, <1>1
    <3>2. ASSUME q > 1 PROVE r[q - 1] = s[p + 1]
      <4> HIDE DEF r, q, s
      <4> QED BY <3>1, <3>2, <1>6
    <3>3. ASSUME q > 1 PROVE s[p + 1] # s[p]
      <4>1. p + 1 # p
        BY <2>1
      <4> QED BY <3>1, <3>3, <4>1, <1>1 DEF Distinct
    <3>4. ASSUME q > 1 PROVE prevAfter[s[p + 1]] = prev[s[p]]
      BY <3>1, <3>3, <3>4, <1>1 DEF DLLPrevs
    <3> HIDE DEF r, q, prev, prevAfter, s
    <3> QED BY <3>2, <3>4, <2>2
  <2>4. ASSUME NEW i \in 1 .. Len(r), i # q, i # q - 1 PROVE prevAfter[r[i]] = prev[r[i]]
    <3>1. Len(s) + 1 - i \in 1 .. Len(s) /\ Len(s) + 1 - i # p /\ Len(s) + 1 - i # p + 1
      <4> HIDE DEF r, s
      <4>1. i \in 1 .. Len(s) /\ p \in Int /\ Len(s) \in Nat
        BY <2>1, <1>1, <1>6
      <4>2. i # Len(s) + 1 - p /\ i # Len(s) - p
        BY <4>1, <2>4
      <4>3. Len(s) + 1 - i # p
        BY <4>1, <4>2
      <4>4. Len(s) + 1 - i # p + 1
        BY <4>1, <4>2
      <4> QED BY <4>1, <4>3, <4>4
    <3>2. p < Len(s) => p + 1 \in 1 .. Len(s)
      BY <1>1
    <3>3. ~(p < Len(s) /\ s[Len(s) + 1 - i] = s[p + 1]) /\ s[Len(s) + 1 - i] # s[p]
      BY <3>1, <3>2, <1>1 DEF Distinct
    <3>4. r[i] = s[Len(s) + 1 - i]
      BY <2>4, <1>6
    <3> HIDE DEF r
    <3> QED BY <3>1, <3>3, <3>4, <1>1 DEF DLLPrevs
  <2>5. DOMAIN prevAfter = DOMAIN prev \ {r[q]}
    <3>1. DOMAIN prevAfter = DOMAIN prev \ {s[p]}
      BY <1>1
    <3> HIDE DEF r, q, prev, prevAfter, s
    <3> QED BY <3>1, <2>2
  <2>6. dllLast' = IF q = 1 THEN prev[dllLast] ELSE dllLast
    <3>1. p = Len(s) => dllLast \in DOMAIN dllHeap
      BY <1>1 DEF Nth
    <3> QED BY <2>1, <3>1 DEF DLLPrevs
  <2> HIDE DEF r, q, s, prev, prevAfter, t
  <2>7. Unlinked(r, q, prev, prevAfter)
    BY <2>1, <2>3, <2>4, <2>5 DEF Unlinked
  <2> QED BY <1>2, <1>6, <2>6, <2>7, ChainMinus
<1>8. Covers(t, DOMAIN dllHeap')
  <2>1. \A cells : Covers(s, cells) => Covers(t, cells \ {s[p]})
    BY <1>1, MinusDistinct
  <2> QED BY <2>1, <1>2
<1>9. Len(t) = Len(s) - 1
  BY <1>1, MinusSequence
<1> HIDE DEF t, s, r, q, nextAfter, prevAfter
<1>10. DLLSound' /\ DLLOrder' = t
  <2>1. dllActive' \in DOMAIN dllHeap' \cup {DLLNull}
    BY <1>2 DEF s
  <2> QED BY <1>2, <1>3, <1>4, <1>5, <1>7, <1>8, <1>9, <2>1, DLLRestored
<1>11. DLLItems' = Minus(DLLItems, p)
  <2> DEFINE heap2 == dllHeap'
  <2>1. \A x \in DOMAIN dllHeap : x # s[p] => heap2[x].data = dllHeap[x].data
    BY DEF s
  <2> HIDE DEF heap2
  <2>2. Items(t, heap2) = Minus(Items(s, dllHeap), p)
    BY <1>1, <2>1, ItemsMinus DEF s, t
  <2>3. DLLItems' = Items(t, heap2)
    BY <1>10 DEF DLLItems, heap2
  <2> QED BY <2>2, <2>3 DEF DLLItems, s
<1>12. DLLPlace' = IF DLLPlace = p THEN 0
                   ELSE IF DLLPlace < p THEN DLLPlace ELSE DLLPlace - 1
  <2>1. \A x : Place(x, t) = IF Place(x, s) = p THEN 0
                        ELSE IF Place(x, s) < p THEN Place(x, s) ELSE Place(x, s) - 1
    BY <1>1, PlaceMinus DEF s, t
  <2>2. Place(s[p], s) = p
    BY <1>1, PlaceOf DEF s
  <2>3. Place(DLLNull, s) = 0
    <3>1. \A i \in 1 .. Len(s) : s[i] # DLLNull
      BY <1>1, <1>2
    <3> QED BY <1>1, <3>1, PlaceOf
  <2>4. p # 0 /\ 0 < p
    OBVIOUS
  <2>5. DLLPlace' = Place(dllActive', t) /\ DLLPlace = Place(dllActive, s)
    BY <1>10 DEF DLLPlace, s
  <2>6. CASE dllActive = s[p]
    BY <2>6, <2>1, <2>2, <2>3, <2>4, <2>5 DEF s
  <2>7. CASE dllActive # s[p]
    BY <2>7, <2>1, <2>5 DEF s
  <2> QED BY <2>6, <2>7
<1> QED BY <1>10, <1>11, <1>12

\* What stands at a place, and where it stands.
LEMMA NthValues ==
  ASSUME NEW S, NEW s \in Seq(S), NEW null, null \notin S, Distinct(s)
  PROVE  \A i \in Int : /\ Nth(s, i, null) \in S \cup {null}
                        /\ Nth(s, i, null) = null <=> i \notin 1 .. Len(s)
                        /\ Place(Nth(s, i, null), s) = IF i \in 1 .. Len(s) THEN i ELSE 0
<1>1. \A i \in 1 .. Len(s) : s[i] \in S /\ s[i] # null /\ Place(s[i], s) = i
  BY PlaceOf
<1>2. Place(null, s) = 0
  BY <1>1, PlaceOf
<1> QED BY <1>1, <1>2 DEF Nth

\* The cells before and behind place p linked to a new cell c, and linked to
\* each other.
NextLinked(heap, p, to) == IF p > 1 THEN LinkNext(heap, DLLOrder[p - 1], to) ELSE heap
PrevLinked(heap, p, to) == IF p <= Len(DLLOrder) THEN LinkPrev(heap, DLLOrder[p], to) ELSE heap

\* The two links may be written in either order, as the code does.
LEMMA DLLBothLinked ==
  ASSUME DLLSound, NEW heap, DOMAIN dllHeap \subseteq DOMAIN heap,
         heap \in [DOMAIN heap -> DLLCellType],
         NEW p \in 1 .. Len(DLLOrder) + 1, NEW q \in 1 .. Len(DLLOrder) + 1,
         NEW next \in DLLCells \cup {DLLNull}, NEW prev \in DLLCells \cup {DLLNull},
         NEW heap2, \/ heap2 = PrevLinked(NextLinked(heap, p, next), q, prev)
                    \/ heap2 = NextLinked(PrevLinked(heap, q, prev), p, next)
  PROVE  /\ DOMAIN heap2 = DOMAIN heap /\ heap2 \in [DOMAIN heap -> DLLCellType]
         /\ \A x \in DOMAIN heap :
              /\ heap2[x].data = heap[x].data
              /\ heap2[x].next = IF p > 1 /\ x = DLLOrder[p - 1] THEN next ELSE heap[x].next
              /\ heap2[x].prev = IF q <= Len(DLLOrder) /\ x = DLLOrder[q] THEN prev ELSE heap[x].prev
<1>1. /\ Len(DLLOrder) \in Nat
      /\ p > 1 => DLLOrder[p - 1] \in DOMAIN heap
      /\ q <= Len(DLLOrder) => DLLOrder[q] \in DOMAIN heap
  BY DLLFacts
<1>2. ASSUME NEW h, DOMAIN h = DOMAIN heap, h \in [DOMAIN heap -> DLLCellType]
      PROVE  /\ DOMAIN NextLinked(h, p, next) = DOMAIN heap
             /\ NextLinked(h, p, next) \in [DOMAIN heap -> DLLCellType]
             /\ \A x \in DOMAIN heap :
                  /\ NextLinked(h, p, next)[x].data = h[x].data
                  /\ NextLinked(h, p, next)[x].prev = h[x].prev
                  /\ NextLinked(h, p, next)[x].next =
                       IF p > 1 /\ x = DLLOrder[p - 1] THEN next ELSE h[x].next
  <2>1. CASE p > 1
    <3> DEFINE a == DLLOrder[p - 1]
    <3>1. a \in DOMAIN h
      BY <1>1, <1>2, <2>1
    <3>2. NextLinked(h, p, next) = LinkNext(h, a, next)
      BY <2>1 DEF NextLinked
    <3> HIDE DEF a
    <3>3. /\ DOMAIN LinkNext(h, a, next) = DOMAIN h
          /\ LinkNext(h, a, next) \in [DOMAIN h -> DLLCellType]
          /\ \A x \in DOMAIN h :
               /\ LinkNext(h, a, next)[x].data = h[x].data
               /\ LinkNext(h, a, next)[x].prev = h[x].prev
               /\ LinkNext(h, a, next)[x].next = IF x = a THEN next ELSE h[x].next
      BY <1>2, <3>1, DLLLinks
    <3> QED BY <1>2, <2>1, <3>2, <3>3 DEF a
  <2>2. CASE ~(p > 1)
    BY <1>2, <2>2 DEF NextLinked
  <2> QED BY <2>1, <2>2
<1>3. ASSUME NEW h, DOMAIN h = DOMAIN heap, h \in [DOMAIN heap -> DLLCellType]
      PROVE  /\ DOMAIN PrevLinked(h, q, prev) = DOMAIN heap
             /\ PrevLinked(h, q, prev) \in [DOMAIN heap -> DLLCellType]
             /\ \A x \in DOMAIN heap :
                  /\ PrevLinked(h, q, prev)[x].data = h[x].data
                  /\ PrevLinked(h, q, prev)[x].prev =
                       IF q <= Len(DLLOrder) /\ x = DLLOrder[q] THEN prev ELSE h[x].prev
                  /\ PrevLinked(h, q, prev)[x].next = h[x].next
  <2>1. CASE q <= Len(DLLOrder)
    <3> DEFINE a == DLLOrder[q]
    <3>1. a \in DOMAIN h
      BY <1>1, <1>3, <2>1
    <3>2. PrevLinked(h, q, prev) = LinkPrev(h, a, prev)
      BY <2>1 DEF PrevLinked
    <3> HIDE DEF a
    <3>3. /\ DOMAIN LinkPrev(h, a, prev) = DOMAIN h
          /\ LinkPrev(h, a, prev) \in [DOMAIN h -> DLLCellType]
          /\ \A x \in DOMAIN h :
               /\ LinkPrev(h, a, prev)[x].data = h[x].data
               /\ LinkPrev(h, a, prev)[x].prev = IF x = a THEN prev ELSE h[x].prev
               /\ LinkPrev(h, a, prev)[x].next = h[x].next
      BY <1>3, <3>1, DLLLinks
    <3> QED BY <1>3, <2>1, <3>2, <3>3 DEF a
  <2>2. CASE ~(q <= Len(DLLOrder))
    BY <1>3, <2>2 DEF PrevLinked
  <2> QED BY <2>1, <2>2
<1>4. CASE heap2 = PrevLinked(NextLinked(heap, p, next), q, prev)
  <2> DEFINE h == NextLinked(heap, p, next)
  <2>1. /\ DOMAIN h = DOMAIN heap /\ h \in [DOMAIN heap -> DLLCellType]
        /\ \A x \in DOMAIN heap :
             /\ h[x].data = heap[x].data /\ h[x].prev = heap[x].prev
             /\ h[x].next = IF p > 1 /\ x = DLLOrder[p - 1] THEN next ELSE heap[x].next
    BY <1>2
  <2>2. heap2 = PrevLinked(h, q, prev)
    BY <1>4
  <2> HIDE DEF h
  <2> QED BY <2>1, <2>2, <1>3
<1>5. CASE heap2 = NextLinked(PrevLinked(heap, q, prev), p, next)
  <2> DEFINE h == PrevLinked(heap, q, prev)
  <2>1. /\ DOMAIN h = DOMAIN heap /\ h \in [DOMAIN heap -> DLLCellType]
        /\ \A x \in DOMAIN heap :
             /\ h[x].data = heap[x].data /\ h[x].next = heap[x].next
             /\ h[x].prev = IF q <= Len(DLLOrder) /\ x = DLLOrder[q] THEN prev ELSE heap[x].prev
    BY <1>3
  <2>2. heap2 = NextLinked(h, p, next)
    BY <1>5
  <2> HIDE DEF h
  <2> QED BY <2>1, <2>2, <1>2
<1> QED BY <1>4, <1>5

\* A cell linked in at place p.
LEMMA DLLSpliced ==
  ASSUME DLLSound, NEW d \in DLLData, NEW c \in DLLCells \ DOMAIN dllHeap,
         NEW p \in 1 .. Len(DLLOrder) + 1,
         NEW cell, cell = DLLWith(c, DLLCell(d, Nth(DLLOrder, p - 1, DLLNull), Nth(DLLOrder, p, DLLNull))),
         dllHeap' = PrevLinked(NextLinked(cell, p, c), p, c),
         dllFirst' = IF p = 1 THEN c ELSE dllFirst,
         dllLast' = IF p = Len(DLLOrder) + 1 THEN c ELSE dllLast,
         dllLength' = dllLength + 1, dllActive' = dllActive
  PROVE  /\ DLLSound'
         /\ DLLItems' = Plus(DLLItems, p, d)
         /\ DLLPlace' = IF DLLPlace < p THEN DLLPlace ELSE DLLPlace + 1
<1> DEFINE before == Nth(DLLOrder, p - 1, DLLNull)
           behind == Nth(DLLOrder, p, DLLNull)
           heap2 == dllHeap'
<1>1. /\ DLLOrder \in Seq(DOMAIN dllHeap) /\ Len(DLLOrder) \in Nat /\ Distinct(DLLOrder)
      /\ DLLNull \notin DOMAIN dllHeap
      /\ \A i \in 1 .. Len(DLLOrder) : DLLOrder[i] \in DOMAIN dllHeap
  BY DLLFacts
<1>2. /\ dllHeap \in [DOMAIN dllHeap -> DLLCellType] /\ DOMAIN dllHeap \subseteq DLLCells
  BY DEF DLLSound
<1>3. before \in DLLCells \cup {DLLNull} /\ behind \in DLLCells \cup {DLLNull}
  BY <1>1, <1>2 DEF Nth
<1> HIDE DEF before, behind
<1>4. /\ DOMAIN cell = DOMAIN dllHeap \cup {c}
      /\ cell \in [DOMAIN dllHeap \cup {c} -> DLLCellType]
      /\ \A x \in DOMAIN dllHeap : x # c /\ cell[x] = dllHeap[x]
      /\ cell[c].data = d /\ cell[c].prev = before /\ cell[c].next = behind
  <2>1. cell = DLLWith(c, DLLCell(d, before, behind)) /\ c \notin DOMAIN dllHeap
    BY DEF before, behind
  <2> DEFINE w == DLLWith(c, DLLCell(d, before, behind))
  <2>2. /\ DOMAIN w = DOMAIN dllHeap \cup {c}
        /\ w \in [DOMAIN dllHeap \cup {c} -> DLLCellType]
        /\ \A x \in DOMAIN dllHeap : x # c /\ w[x] = dllHeap[x]
        /\ w[c].data = d /\ w[c].prev = before /\ w[c].next = behind
    <3>1. \A x \in DOMAIN dllHeap : x # c /\ dllHeap[x] \in DLLCellType
      BY <1>2, <2>1
    <3>2. [data |-> d, prev |-> before, next |-> behind] \in DLLCellType
      BY <1>3 DEF DLLCellType
    <3>3. w = [x \in DOMAIN dllHeap \cup {c} |->
                 IF x = c THEN [data |-> d, prev |-> before, next |-> behind] ELSE dllHeap[x]]
      BY DEF DLLWith, DLLCell
    <3> HIDE DEF w
    <3> QED BY <3>1, <3>2, <3>3
  <2>3. cell = w
    BY <2>1
  <2> HIDE DEF w
  <2> QED BY <2>2, <2>3, Zenon
<1>5. /\ DOMAIN heap2 = DOMAIN cell /\ heap2 \in [DOMAIN cell -> DLLCellType]
      /\ \A x \in DOMAIN cell :
           /\ heap2[x].data = cell[x].data
           /\ heap2[x].next = IF p > 1 /\ x = DLLOrder[p - 1] THEN c ELSE cell[x].next
           /\ heap2[x].prev = IF p <= Len(DLLOrder) /\ x = DLLOrder[p] THEN c ELSE cell[x].prev
  <2>1. DOMAIN dllHeap \subseteq DOMAIN cell /\ cell \in [DOMAIN cell -> DLLCellType]
        /\ c \in DLLCells \cup {DLLNull}
    BY <1>4
  <2>2. heap2 = PrevLinked(NextLinked(cell, p, c), p, c)
    OBVIOUS
  <2> HIDE DEF heap2
  <2> QED BY <2>1, <2>2, DLLBothLinked
<1>6. /\ p > 1 => c # DLLOrder[p - 1]
      /\ p <= Len(DLLOrder) => c # DLLOrder[p]
  BY <1>1
<1>7. heap2[c].data = d /\ heap2[c].next = behind /\ heap2[c].prev = before
  BY <1>4, <1>5, <1>6
<1>8. /\ DOMAIN heap2 = DOMAIN dllHeap \cup {c}
      /\ heap2 \in [DOMAIN dllHeap \cup {c} -> DLLCellType]
      /\ \A x \in DOMAIN dllHeap :
           /\ heap2[x].data = dllHeap[x].data
           /\ heap2[x].next = IF p > 1 /\ x = DLLOrder[p - 1] THEN c ELSE dllHeap[x].next
           /\ heap2[x].prev = IF p <= Len(DLLOrder) /\ x = DLLOrder[p] THEN c ELSE dllHeap[x].prev
  BY <1>4, <1>5
<1> QED BY <1>7, <1>8, DLLInserted DEF before, behind

\* The cell at place p unlinked.
LEMMA DLLUnlinked ==
  ASSUME DLLSound, NEW p \in 1 .. Len(DLLOrder), NEW heap,
         \/ heap = PrevLinked(NextLinked(dllHeap, p, Nth(DLLOrder, p + 1, DLLNull)), p + 1,
                              Nth(DLLOrder, p - 1, DLLNull))
         \/ heap = NextLinked(PrevLinked(dllHeap, p + 1, Nth(DLLOrder, p - 1, DLLNull)), p,
                              Nth(DLLOrder, p + 1, DLLNull)),
         dllHeap' = DLLWithout(heap, DLLOrder[p]),
         dllFirst' = IF p = 1 THEN Nth(DLLOrder, 2, DLLNull) ELSE dllFirst,
         dllLast' = IF p = Len(DLLOrder) THEN Nth(DLLOrder, p - 1, DLLNull) ELSE dllLast,
         dllLength' = dllLength - 1,
         dllActive' = IF dllActive = DLLOrder[p] THEN DLLNull ELSE dllActive
  PROVE  /\ DLLSound'
         /\ DLLItems' = Minus(DLLItems, p)
         /\ DLLPlace' = IF DLLPlace = p THEN 0
                        ELSE IF DLLPlace < p THEN DLLPlace ELSE DLLPlace - 1
<1> DEFINE before == Nth(DLLOrder, p - 1, DLLNull)
           behind == Nth(DLLOrder, p + 1, DLLNull)
           heap2 == dllHeap'
           gone == DLLOrder[p]
<1>1. /\ DLLOrder \in Seq(DOMAIN dllHeap) /\ Len(DLLOrder) \in Nat /\ Distinct(DLLOrder)
      /\ \A i \in 1 .. Len(DLLOrder) : DLLOrder[i] \in DOMAIN dllHeap
      /\ dllFirst = Nth(DLLOrder, 1, DLLNull) /\ dllLast = Nth(DLLOrder, Len(DLLOrder), DLLNull)
      /\ \A i \in 1 .. Len(DLLOrder) : dllHeap[DLLOrder[i]].next = Nth(DLLOrder, i + 1, DLLNull)
      /\ \A i \in 1 .. Len(DLLOrder) : dllHeap[DLLOrder[i]].prev = Nth(DLLOrder, i - 1, DLLNull)
  BY DLLFacts
<1>2. /\ dllHeap \in [DOMAIN dllHeap -> DLLCellType] /\ DOMAIN dllHeap \subseteq DLLCells
  BY DEF DLLSound
<1>3. before \in DLLCells \cup {DLLNull} /\ behind \in DLLCells \cup {DLLNull}
      /\ p \in 1 .. Len(DLLOrder) + 1 /\ p + 1 \in 1 .. Len(DLLOrder) + 1
      /\ (p + 1 <= Len(DLLOrder) <=> p < Len(DLLOrder))
      /\ dllHeap[gone].next = behind /\ dllHeap[gone].prev = before
  BY <1>1, <1>2 DEF Nth
<1>4. /\ dllFirst' = IF p = 1 THEN dllHeap[dllFirst].next ELSE dllFirst
      /\ dllLast' = IF p = Len(DLLOrder) THEN dllHeap[dllLast].prev ELSE dllLast
  <2>1. p = 1 => dllFirst = DLLOrder[p] /\ Nth(DLLOrder, 2, DLLNull) = behind
    BY <1>1 DEF Nth
  <2>2. p = Len(DLLOrder) => dllLast = DLLOrder[p]
    BY <1>1 DEF Nth
  <2> QED BY <1>3, <2>1, <2>2
<1>5. \/ heap = PrevLinked(NextLinked(dllHeap, p, behind), p + 1, before)
      \/ heap = NextLinked(PrevLinked(dllHeap, p + 1, before), p, behind)
  OBVIOUS
<1> HIDE DEF before, behind
<1>6. /\ DOMAIN heap = DOMAIN dllHeap /\ heap \in [DOMAIN dllHeap -> DLLCellType]
      /\ \A x \in DOMAIN dllHeap :
           /\ heap[x].data = dllHeap[x].data
           /\ heap[x].next = IF p > 1 /\ x = DLLOrder[p - 1] THEN behind ELSE dllHeap[x].next
           /\ heap[x].prev = IF p + 1 <= Len(DLLOrder) /\ x = DLLOrder[p + 1] THEN before
                             ELSE dllHeap[x].prev
  <2> DEFINE q == p + 1
             h == dllHeap
  <2>1. /\ DOMAIN dllHeap \subseteq DOMAIN h /\ h \in [DOMAIN h -> DLLCellType]
        /\ q \in 1 .. Len(DLLOrder) + 1
        /\ \/ heap = PrevLinked(NextLinked(h, p, behind), q, before)
           \/ heap = NextLinked(PrevLinked(h, q, before), p, behind)
    BY <1>2, <1>3, <1>5
  <2> HIDE DEF q, h
  <2>2. /\ DOMAIN heap = DOMAIN h /\ heap \in [DOMAIN h -> DLLCellType]
        /\ \A x \in DOMAIN h :
             /\ heap[x].data = h[x].data
             /\ heap[x].next = IF p > 1 /\ x = DLLOrder[p - 1] THEN behind ELSE h[x].next
             /\ heap[x].prev = IF q <= Len(DLLOrder) /\ x = DLLOrder[q] THEN before ELSE h[x].prev
    BY <1>3, <2>1, DLLBothLinked
  <2> QED BY <2>2 DEF q, h
<1>7. /\ DOMAIN heap2 = DOMAIN dllHeap \ {gone} /\ heap2 \in [DOMAIN dllHeap \ {gone} -> DLLCellType]
      /\ \A x \in DOMAIN dllHeap \ {gone} : heap2[x] = heap[x]
  <2>1. heap \in [DOMAIN heap -> DLLCellType] /\ DOMAIN heap = DOMAIN dllHeap
    BY <1>6
  <2>2. heap2 = DLLWithout(heap, gone)
    OBVIOUS
  <2> HIDE DEF heap2, gone
  <2>3. /\ DOMAIN DLLWithout(heap, gone) = DOMAIN heap \ {gone}
        /\ DLLWithout(heap, gone) \in [DOMAIN heap \ {gone} -> DLLCellType]
        /\ \A x \in DOMAIN heap \ {gone} : DLLWithout(heap, gone)[x] = heap[x]
    BY <2>1, DLLOldCell
  <2> QED BY <2>1, <2>2, <2>3
<1>8. \A x \in DOMAIN dllHeap \ {gone} :
           /\ heap2[x].data = dllHeap[x].data
           /\ heap2[x].next = IF p > 1 /\ x = DLLOrder[p - 1] THEN dllHeap[gone].next ELSE dllHeap[x].next
           /\ heap2[x].prev = IF p < Len(DLLOrder) /\ x = DLLOrder[p + 1] THEN dllHeap[gone].prev
                              ELSE dllHeap[x].prev
  BY <1>3, <1>6, <1>7
<1> QED BY <1>4, <1>7, <1>8, DLLDeleted

\* Moving the active element, or doing nothing at all, changes nothing else.
LEMMA DLLKept ==
  ASSUME DLLSound, UNCHANGED <<dllHeap, dllFirst, dllLast, dllLength>>,
         dllActive' \in DOMAIN dllHeap \cup {DLLNull}
  PROVE  /\ DLLSound' /\ DLLOrder' = DLLOrder /\ DLLItems' = DLLItems
         /\ DLLPlace' = Place(dllActive', DLLOrder)
<1>1. DLLNexts' = DLLNexts /\ DLLPrevs' = DLLPrevs
  BY DEF DLLNexts, DLLPrevs
<1>2. DLLOrder' = DLLOrder
  BY <1>1 DEF DLLOrder
<1> QED BY <1>1, <1>2 DEF DLLSound, DLLItems, DLLPlace

LEMMA DLLUnmoved ==
  ASSUME DLLSound, UNCHANGED dllVars
  PROVE  DLLSound' /\ DLLItems' = DLLItems /\ DLLPlace' = DLLPlace /\ dllAnswer' = dllAnswer
<1>1. /\ UNCHANGED <<dllHeap, dllFirst, dllLast, dllLength>> /\ dllActive' = dllActive
      /\ dllAnswer' = dllAnswer /\ dllActive' \in DOMAIN dllHeap \cup {DLLNull}
  BY DEF dllVars, DLLSound
<1> QED BY <1>1, DLLKept DEF DLLPlace

\* What is where, said of the places in the order.
LEMMA DLLPlaces ==
  ASSUME DLLSound
  PROVE  /\ Len(DLLOrder) \in Nat /\ DLLPlace \in 0 .. Len(DLLOrder)
         /\ dllFirst = Nth(DLLOrder, 1, DLLNull) /\ dllLast = Nth(DLLOrder, Len(DLLOrder), DLLNull)
         /\ dllActive = Nth(DLLOrder, DLLPlace, DLLNull)
         /\ dllFirst # DLLNull <=> Len(DLLOrder) # 0
         /\ dllLast # DLLNull <=> Len(DLLOrder) # 0
         /\ dllFirst = dllLast /\ Len(DLLOrder) # 0 => Len(DLLOrder) = 1
         /\ Len(DLLOrder) = 1 => dllFirst = dllLast
         /\ DLL_IsActive <=> DLLPlace # 0
         /\ DLL_IsActive => /\ dllHeap[dllActive].next = Nth(DLLOrder, DLLPlace + 1, DLLNull)
                            /\ dllHeap[dllActive].prev = Nth(DLLOrder, DLLPlace - 1, DLLNull)
                            /\ dllActive = dllFirst <=> DLLPlace = 1
                            /\ dllActive = dllLast <=> DLLPlace = Len(DLLOrder)
         /\ \A i \in 1 .. Len(DLLOrder) : /\ DLLOrder[i] \in DOMAIN dllHeap
                                          /\ DLLOrder[i] = Nth(DLLOrder, i, DLLNull)
         /\ \A i \in Int : Nth(DLLOrder, i, DLLNull) = DLLNull <=> i \notin 1 .. Len(DLLOrder)
         /\ \A i, j \in 1 .. Len(DLLOrder) : DLLOrder[i] = DLLOrder[j] <=> i = j
         /\ DLLItems = <<>> <=> Len(DLLOrder) = 0
         /\ DLLItems \in Seq(DLLData) /\ Len(DLLItems) = Len(DLLOrder)
<1>1. /\ DLLOrder \in Seq(DOMAIN dllHeap) /\ Len(DLLOrder) \in Nat /\ Distinct(DLLOrder)
      /\ DLLNull \notin DOMAIN dllHeap
      /\ \A i \in 1 .. Len(DLLOrder) : DLLOrder[i] \in DOMAIN dllHeap
      /\ dllFirst = Nth(DLLOrder, 1, DLLNull) /\ dllLast = Nth(DLLOrder, Len(DLLOrder), DLLNull)
      /\ \A i \in 1 .. Len(DLLOrder) : dllHeap[DLLOrder[i]].next = Nth(DLLOrder, i + 1, DLLNull)
      /\ \A i \in 1 .. Len(DLLOrder) : dllHeap[DLLOrder[i]].prev = Nth(DLLOrder, i - 1, DLLNull)
      /\ DLLItems \in Seq(DLLData) /\ Len(DLLItems) = Len(DLLOrder)
      /\ DLLPlace \in 0 .. Len(DLLOrder)
      /\ DLLPlace # 0 => DLLOrder[DLLPlace] = dllActive
  BY DLLFacts
<1>2. DLLPlace = 0 <=> dllActive = DLLNull
  BY DLLFacts
<1>3. /\ DLL_IsActive <=> DLLPlace # 0
      /\ dllActive = Nth(DLLOrder, DLLPlace, DLLNull)
  BY <1>1, <1>2 DEF DLL_IsActive, Nth
<1>4. /\ \A i \in Int : Nth(DLLOrder, i, DLLNull) = DLLNull <=> i \notin 1 .. Len(DLLOrder)
      /\ \A i, j \in 1 .. Len(DLLOrder) : DLLOrder[i] = DLLOrder[j] <=> i = j
      /\ \A i \in 1 .. Len(DLLOrder) : DLLOrder[i] = Nth(DLLOrder, i, DLLNull)
  BY <1>1 DEF Nth, Distinct
<1>5. /\ dllFirst # DLLNull <=> Len(DLLOrder) # 0
      /\ dllLast # DLLNull <=> Len(DLLOrder) # 0
  BY <1>1, <1>4
<1>6. Len(DLLOrder) # 0 => 1 \in 1 .. Len(DLLOrder) /\ Len(DLLOrder) \in 1 .. Len(DLLOrder)
  BY <1>1
<1>7. /\ dllFirst = dllLast /\ Len(DLLOrder) # 0 => Len(DLLOrder) = 1
      /\ Len(DLLOrder) = 1 => dllFirst = dllLast
  <2>1. dllFirst = Nth(DLLOrder, 1, DLLNull) /\ dllLast = Nth(DLLOrder, Len(DLLOrder), DLLNull)
    BY <1>1
  <2>2. ASSUME dllFirst = dllLast, Len(DLLOrder) # 0 PROVE Len(DLLOrder) = 1
    <3>1. DLLOrder[1] = dllFirst /\ DLLOrder[Len(DLLOrder)] = dllLast
      BY <2>1, <2>2, <1>4, <1>6
    <3> QED BY <3>1, <2>2, <1>4, <1>6
  <2>3. Len(DLLOrder) = 1 => dllFirst = dllLast
    BY <2>1
  <2> QED BY <2>2, <2>3
<1>8. DLL_IsActive => /\ dllHeap[dllActive].next = Nth(DLLOrder, DLLPlace + 1, DLLNull)
                      /\ dllHeap[dllActive].prev = Nth(DLLOrder, DLLPlace - 1, DLLNull)
                      /\ dllActive = dllFirst <=> DLLPlace = 1
                      /\ dllActive = dllLast <=> DLLPlace = Len(DLLOrder)
  <2>1. DLL_IsActive => DLLPlace \in 1 .. Len(DLLOrder) /\ dllActive = DLLOrder[DLLPlace]
    BY <1>1, <1>3
  <2> QED BY <2>1, <1>1, <1>4, <1>6
<1>9. DLLItems = <<>> <=> Len(DLLOrder) = 0
  BY <1>1, EmptySeq
<1> QED BY <1>1, <1>3, <1>4, <1>5, <1>7, <1>8, <1>9

\* Every operation keeps the list sound and does to the items and the cursor what
\* CursorList says.
LEMMA DLLInsertsFirst ==
  ASSUME DLLSound, NEW d \in DLLData, DLL_InsertFirst(d)
  PROVE  DLLSound' /\ DLLSpecified!InsertFirst(d)
<1> DEFINE n == Len(DLLOrder)
<1>0. /\ n \in Nat /\ DLLPlace \in 0 .. n
      /\ dllFirst = Nth(DLLOrder, 1, DLLNull)
      /\ dllFirst # DLLNull <=> n # 0
      /\ \A i \in 1 .. n : DLLOrder[i] = Nth(DLLOrder, i, DLLNull)
      /\ DLLItems \in Seq(DLLData) /\ Nth(DLLOrder, 0, DLLNull) = DLLNull
  BY DLLPlaces DEF Nth
<1>1. PICK c \in DLLFree :
        LET heap == DLLWith(c, DLLCell(d, DLLNull, dllFirst))
        IN /\ IF dllFirst # DLLNull
              THEN dllHeap' = LinkPrev(heap, dllFirst, c) /\ DLLEnds(c, dllLast)
              ELSE dllHeap' = heap /\ DLLEnds(c, c)
           /\ UNCHANGED dllActive /\ DLLLonger /\ DLLQuiet
  BY DEF DLL_InsertFirst
<1> DEFINE cell == DLLWith(c, DLLCell(d, DLLNull, dllFirst))
<1>2. dllHeap' = PrevLinked(NextLinked(cell, 1, c), 1, c)
  <2>1. NextLinked(cell, 1, c) = cell
    BY DEF NextLinked
  <2>2. CASE dllFirst # DLLNull
    <3>1. 1 <= n /\ DLLOrder[1] = dllFirst
      BY <1>0, <2>2
    <3> QED BY <1>1, <2>1, <2>2, <3>1 DEF PrevLinked
  <2>3. CASE dllFirst = DLLNull
    <3>1. ~(1 <= n)
      BY <1>0, <2>3
    <3> QED BY <1>1, <2>1, <2>3, <3>1 DEF PrevLinked
  <2> QED BY <2>2, <2>3
<1>3. /\ dllFirst' = c /\ dllLast' = IF 1 = n + 1 THEN c ELSE dllLast
      /\ dllLength' = dllLength + 1 /\ dllActive' = dllActive /\ dllAnswer' = dllAnswer
  BY <1>0, <1>1 DEF DLLEnds, DLLLonger, DLLQuiet
<1>4. cell = DLLWith(c, DLLCell(d, Nth(DLLOrder, 1 - 1, DLLNull), Nth(DLLOrder, 1, DLLNull)))
  <2>1. 1 - 1 = 0
    OBVIOUS
  <2> QED BY <1>0, <2>1
<1>5. 1 \in 1 .. n + 1 /\ c \in DLLCells \ DOMAIN dllHeap
  BY <1>0 DEF DLLFree
<1> HIDE DEF cell
<1>6. /\ DLLSound' /\ DLLItems' = Plus(DLLItems, 1, d)
      /\ DLLPlace' = IF DLLPlace < 1 THEN DLLPlace ELSE DLLPlace + 1
  BY <1>2, <1>3, <1>4, <1>5, DLLSpliced
<1>7. DLLItems' = <<d>> \o DLLItems /\ DLLPlace' = IF DLLPlace # 0 THEN DLLPlace + 1 ELSE 0
  BY <1>0, <1>6, EndsOfSequence
<1> QED BY <1>3, <1>6, <1>7 DEF DLLSpecified!InsertFirst, DLLSpecified!At,
                                DLLSpecified!Shifted, DLLSpecified!Active

LEMMA DLLInsertsLast ==
  ASSUME DLLSound, NEW d \in DLLData, DLL_InsertLast(d)
  PROVE  DLLSound' /\ DLLSpecified!InsertLast(d)
<1> DEFINE n == Len(DLLOrder)
           p == n + 1
<1>0. /\ n \in Nat /\ DLLPlace \in 0 .. n
      /\ dllLast = Nth(DLLOrder, n, DLLNull)
      /\ dllLast # DLLNull <=> n # 0
      /\ \A i \in 1 .. n : DLLOrder[i] = Nth(DLLOrder, i, DLLNull)
      /\ DLLItems \in Seq(DLLData) /\ Len(DLLItems) = n
  BY DLLPlaces
<1>1. PICK c \in DLLFree :
        LET heap == DLLWith(c, DLLCell(d, dllLast, DLLNull))
        IN /\ IF dllLast # DLLNull
              THEN dllHeap' = LinkNext(heap, dllLast, c) /\ DLLEnds(dllFirst, c)
              ELSE dllHeap' = heap /\ DLLEnds(c, c)
           /\ UNCHANGED dllActive /\ DLLLonger /\ DLLQuiet
  BY DEF DLL_InsertLast
<1> DEFINE cell == DLLWith(c, DLLCell(d, dllLast, DLLNull))
<1>2. p \in 1 .. n + 1 /\ ~(p <= n) /\ p - 1 = n /\ (p > 1 <=> n # 0) /\ (p = 1 <=> n = 0)
  BY <1>0
<1>3. dllHeap' = PrevLinked(NextLinked(cell, p, c), p, c)
  <2>1. \A h : PrevLinked(h, p, c) = h
    BY <1>2 DEF PrevLinked
  <2>2. CASE dllLast # DLLNull
    <3>1. p > 1 /\ DLLOrder[p - 1] = dllLast
      BY <1>0, <1>2, <2>2
    <3>2. NextLinked(cell, p, c) = LinkNext(cell, dllLast, c)
      BY <3>1 DEF NextLinked
    <3> QED BY <1>1, <2>1, <2>2, <3>2
  <2>3. CASE dllLast = DLLNull
    <3>1. NextLinked(cell, p, c) = cell
      BY <1>0, <1>2, <2>3 DEF NextLinked
    <3> QED BY <1>1, <2>1, <2>3, <3>1
  <2> QED BY <2>2, <2>3
<1>4. /\ dllFirst' = (IF p = 1 THEN c ELSE dllFirst) /\ dllLast' = c
      /\ dllLength' = dllLength + 1 /\ dllActive' = dllActive /\ dllAnswer' = dllAnswer
  BY <1>0, <1>1, <1>2 DEF DLLEnds, DLLLonger, DLLQuiet
<1>5. cell = DLLWith(c, DLLCell(d, Nth(DLLOrder, p - 1, DLLNull), Nth(DLLOrder, p, DLLNull)))
  <2>1. Nth(DLLOrder, p, DLLNull) = DLLNull
    BY <1>0, <1>2 DEF Nth
  <2> QED BY <1>0, <1>2, <2>1
<1>6. c \in DLLCells \ DOMAIN dllHeap /\ dllLast' = IF p = Len(DLLOrder) + 1 THEN c ELSE dllLast
  BY <1>4 DEF DLLFree
<1> HIDE DEF cell, p
<1>7. /\ DLLSound' /\ DLLItems' = Plus(DLLItems, p, d)
      /\ DLLPlace' = IF DLLPlace < p THEN DLLPlace ELSE DLLPlace + 1
  BY <1>2, <1>3, <1>4, <1>5, <1>6, DLLSpliced
<1>8. DLLItems' = Append(DLLItems, d)
  <2>1. Append(DLLItems, d) = Plus(DLLItems, Len(DLLItems) + 1, d)
    BY <1>0, EndsOfSequence
  <2> QED BY <1>0, <1>7, <2>1 DEF p
<1>9. DLLPlace' = DLLPlace
  BY <1>0, <1>7 DEF p
<1> QED BY <1>4, <1>7, <1>8, <1>9 DEF DLLSpecified!InsertLast, DLLSpecified!At

LEMMA DLLInsertsAfter ==
  ASSUME DLLSound, NEW d \in DLLData, DLL_InsertAfter(d)
  PROVE  DLLSound' /\ DLLSpecified!InsertAfter(d)
<1> DEFINE n == Len(DLLOrder)
           p == DLLPlace + 1
<1>0. /\ n \in Nat /\ DLLPlace \in 0 .. n
      /\ DLL_IsActive <=> DLLPlace # 0
      /\ dllActive = Nth(DLLOrder, DLLPlace, DLLNull)
      /\ DLL_IsActive => /\ dllHeap[dllActive].next = Nth(DLLOrder, p, DLLNull)
                         /\ dllActive = dllLast <=> DLLPlace = n
      /\ \A i \in 1 .. n : DLLOrder[i] = Nth(DLLOrder, i, DLLNull)
      /\ DLLItems \in Seq(DLLData) /\ Len(DLLItems) = n
  BY DLLPlaces
<1>1. CASE ~DLL_IsActive
  <2>1. UNCHANGED dllVars
    BY <1>1 DEF DLL_InsertAfter, DLLIdle
  <2> QED BY <1>0, <1>1, <2>1, DLLUnmoved DEF DLLSpecified!InsertAfter, DLLSpecified!At,
                                              DLLSpecified!Active
<1>2. CASE DLL_IsActive
  <2> DEFINE next == dllHeap[dllActive].next
  <2>1. PICK c \in DLLFree :
          LET heap == LinkNext(DLLWith(c, DLLCell(d, dllActive, next)), dllActive, c)
          IN /\ IF dllActive = dllLast
                THEN dllHeap' = heap /\ DLLEnds(dllFirst, c)
                ELSE dllHeap' = LinkPrev(heap, next, c) /\ DLLEnds(dllFirst, dllLast)
             /\ UNCHANGED dllActive /\ DLLLonger /\ DLLQuiet
    BY <1>2 DEF DLL_InsertAfter
  <2> DEFINE cell == DLLWith(c, DLLCell(d, dllActive, next))
  <2>2. /\ p \in 1 .. n + 1 /\ p - 1 = DLLPlace /\ p > 1 /\ p # 1 /\ (p <= n <=> DLLPlace # n)
        /\ (p = n + 1 <=> DLLPlace = n)
        /\ DLLOrder[DLLPlace] = dllActive /\ (p <= n => DLLOrder[p] = next)
        /\ next = Nth(DLLOrder, p, DLLNull)
    BY <1>0, <1>2
  <2> HIDE DEF p, next
  <2>3. dllHeap' = PrevLinked(NextLinked(cell, p, c), p, c)
    <3>1. NextLinked(cell, p, c) = LinkNext(cell, dllActive, c)
      BY <2>2 DEF NextLinked
    <3>2. CASE DLLPlace = n
      BY <1>0, <1>2, <2>1, <2>2, <3>1, <3>2 DEF PrevLinked
    <3>3. CASE DLLPlace # n
      BY <1>0, <1>2, <2>1, <2>2, <3>1, <3>3 DEF PrevLinked
    <3> QED BY <3>2, <3>3
  <2>4. /\ dllFirst' = (IF p = 1 THEN c ELSE dllFirst) /\ dllLast' = (IF p = n + 1 THEN c ELSE dllLast)
        /\ dllLength' = dllLength + 1 /\ dllActive' = dllActive /\ dllAnswer' = dllAnswer
    BY <1>0, <1>2, <2>1, <2>2 DEF DLLEnds, DLLLonger, DLLQuiet
  <2>5. /\ cell = DLLWith(c, DLLCell(d, Nth(DLLOrder, p - 1, DLLNull), Nth(DLLOrder, p, DLLNull)))
        /\ c \in DLLCells \ DOMAIN dllHeap
    BY <1>0, <2>2 DEF DLLFree
  <2> HIDE DEF cell
  <2>6. /\ DLLSound' /\ DLLItems' = Plus(DLLItems, p, d)
        /\ DLLPlace' = IF DLLPlace < p THEN DLLPlace ELSE DLLPlace + 1
    BY <2>2, <2>3, <2>4, <2>5, DLLSpliced
  <2>7. InsertAt(DLLItems, p, d) = Plus(DLLItems, p, d)
    BY <1>0, <2>2, InsertAtIsPlus
  <2>8. DLLItems' = InsertAt(DLLItems, DLLPlace + 1, d) /\ DLLPlace' = DLLPlace /\ DLLPlace # 0
    BY <1>0, <1>2, <2>6, <2>7 DEF p
  <2> QED BY <2>4, <2>6, <2>8 DEF DLLSpecified!InsertAfter, DLLSpecified!At,
                     DLLSpecified!Active, DLLSpecified!InsertAt, InsertAt
<1> QED BY <1>1, <1>2

\* Before the first element; before any other the list breaks.
LEMMA DLLInsertsBefore ==
  ASSUME DLLSound, NEW d \in DLLData, DLL_InsertBefore(d), ~dllBroken'
  PROVE  DLLSound' /\ DLLSpecified!InsertBefore(d)
<1> DEFINE n == Len(DLLOrder)
<1>0. /\ n \in Nat /\ DLLPlace \in 0 .. n
      /\ DLL_IsActive <=> DLLPlace # 0
      /\ dllActive = Nth(DLLOrder, DLLPlace, DLLNull)
      /\ DLL_IsActive => /\ dllHeap[dllActive].prev = Nth(DLLOrder, DLLPlace - 1, DLLNull)
                         /\ dllActive = dllFirst <=> DLLPlace = 1
      /\ \A i \in 1 .. n : DLLOrder[i] = Nth(DLLOrder, i, DLLNull)
      /\ DLLItems \in Seq(DLLData) /\ Len(DLLItems) = n
  BY DLLPlaces
<1>1. CASE ~DLL_IsActive
  <2>1. UNCHANGED dllVars
    BY <1>1 DEF DLL_InsertBefore, DLLIdle
  <2> QED BY <1>0, <1>1, <2>1, DLLUnmoved DEF DLLSpecified!InsertBefore, DLLSpecified!At,
                                              DLLSpecified!Active, DLLSpecified!Shifted
<1>2. CASE DLL_IsActive
  <2> DEFINE prev == dllHeap[dllActive].prev
  <2>1. PICK c \in DLLFree :
          /\ dllActive = dllFirst
          /\ dllHeap' = LinkPrev(DLLWith(c, DLLCell(d, prev, dllActive)), dllActive, c)
          /\ DLLEnds(c, dllLast) /\ UNCHANGED <<dllActive, dllAnswer>> /\ DLLLonger
    BY <1>2 DEF DLL_InsertBefore
  <2> DEFINE cell == DLLWith(c, DLLCell(d, prev, dllActive))
  <2>2. /\ DLLPlace = 1 /\ 1 \in 1 .. n /\ 1 \in 1 .. n + 1 /\ 1 # n + 1 /\ 1 - 1 = 0 /\ ~(1 > 1) /\ 1 <= n
        /\ DLLOrder[1] = dllActive /\ prev = Nth(DLLOrder, 1 - 1, DLLNull)
        /\ dllActive = Nth(DLLOrder, 1, DLLNull)
    <3>1. DLLPlace = 1
      BY <1>0, <1>2, <2>1
    <3>2. 1 \in 1 .. n /\ 1 \in 1 .. n + 1 /\ 1 # n + 1 /\ 1 - 1 = 0 /\ ~(1 > 1) /\ 1 <= n
      BY <1>0, <3>1
    <3>3. prev = Nth(DLLOrder, DLLPlace - 1, DLLNull) /\ dllActive = Nth(DLLOrder, 1, DLLNull)
      BY <1>0, <1>2, <3>1
    <3> HIDE DEF prev
    <3> QED BY <1>0, <3>1, <3>2, <3>3
  <2> HIDE DEF prev
  <2>3. dllHeap' = PrevLinked(NextLinked(cell, 1, c), 1, c)
    <3>1. NextLinked(cell, 1, c) = cell
      BY DEF NextLinked
    <3>2. PrevLinked(cell, 1, c) = LinkPrev(cell, dllActive, c)
      BY <2>2 DEF PrevLinked
    <3> QED BY <2>1, <3>1, <3>2
  <2>4. /\ dllFirst' = c /\ dllLast' = (IF 1 = n + 1 THEN c ELSE dllLast)
        /\ dllLength' = dllLength + 1 /\ dllActive' = dllActive /\ dllAnswer' = dllAnswer
    BY <2>1, <2>2 DEF DLLEnds, DLLLonger
  <2>5. /\ cell = DLLWith(c, DLLCell(d, Nth(DLLOrder, 1 - 1, DLLNull), Nth(DLLOrder, 1, DLLNull)))
        /\ c \in DLLCells \ DOMAIN dllHeap
    BY <2>2 DEF DLLFree
  <2> HIDE DEF cell
  <2>6. /\ DLLSound' /\ DLLItems' = Plus(DLLItems, 1, d)
        /\ DLLPlace' = IF DLLPlace < 1 THEN DLLPlace ELSE DLLPlace + 1
    BY <2>2, <2>3, <2>4, <2>5, DLLSpliced
  <2>7. InsertAt(DLLItems, 1, d) = Plus(DLLItems, 1, d)
    BY <1>0, <2>2, InsertAtIsPlus
  <2>8. DLLItems' = InsertAt(DLLItems, DLLPlace, d) /\ DLLPlace' = DLLPlace + 1 /\ DLLPlace # 0
    BY <2>2, <2>6, <2>7
  <2> QED BY <2>4, <2>6, <2>8 DEF DLLSpecified!InsertBefore, DLLSpecified!At, DLLSpecified!Shifted,
                     DLLSpecified!Active, DLLSpecified!InsertAt, InsertAt
<1> QED BY <1>1, <1>2

LEMMA DLLLinkAt ==
  ASSUME DLLSound, NEW i \in 1 .. Len(DLLOrder)
  PROVE  /\ dllHeap[DLLOrder[i]].next = Nth(DLLOrder, i + 1, DLLNull)
         /\ dllHeap[DLLOrder[i]].prev = Nth(DLLOrder, i - 1, DLLNull)
BY DLLFacts

LEMMA DLLDeletesFirst ==
  ASSUME DLLSound, DLL_DeleteFirst
  PROVE  DLLSound' /\ DLLSpecified!DeleteFirst
<1> DEFINE n == Len(DLLOrder)
<1>0. /\ n \in Nat /\ DLLPlace \in 0 .. n
      /\ dllFirst = Nth(DLLOrder, 1, DLLNull) /\ dllLast = Nth(DLLOrder, n, DLLNull)
      /\ dllFirst # DLLNull <=> n # 0
      /\ dllFirst = dllLast /\ n # 0 => n = 1
      /\ n = 1 => dllFirst = dllLast
      /\ \A i \in 1 .. n : DLLOrder[i] = Nth(DLLOrder, i, DLLNull)
      /\ DLLItems = <<>> <=> n = 0
      /\ DLLItems \in Seq(DLLData) /\ Len(DLLItems) = n
  BY DLLPlaces
<1>1. CASE dllFirst = DLLNull
  <2>1. UNCHANGED dllVars
    BY <1>1 DEF DLL_DeleteFirst, DLLIdle
  <2> QED BY <1>0, <1>1, <2>1, DLLUnmoved DEF DLLSpecified!DeleteFirst, DLLSpecified!At
<1>2. CASE dllFirst # DLLNull
  <2> DEFINE next == dllHeap[dllFirst].next
  <2>1. /\ IF dllFirst = dllLast
           THEN DLLEnds(DLLNull, DLLNull) /\ dllHeap' = DLLWithout(dllHeap, dllFirst)
           ELSE /\ DLLEnds(next, dllLast)
                /\ dllHeap' = DLLWithout(LinkPrev(dllHeap, next, DLLNull), dllFirst)
        /\ dllActive' = IF dllActive = dllFirst THEN DLLNull ELSE dllActive
        /\ DLLShorter /\ DLLQuiet
    BY <1>2 DEF DLL_DeleteFirst
  <2>2. /\ 1 \in 1 .. n /\ 1 <= n /\ 1 + 1 = 2 /\ 1 - 1 = 0 /\ ~(1 > 1)
        /\ (2 <= n <=> n # 1) /\ (2 \in 1 .. n <=> n # 1) /\ 0 \notin 1 .. n
        /\ dllFirst = DLLOrder[1]
    BY <1>0, <1>2
  <2>3. next = Nth(DLLOrder, 2, DLLNull) /\ Nth(DLLOrder, 0, DLLNull) = DLLNull
    BY <2>2, DLLLinkAt DEF Nth
  <2>4. n # 1 => next = DLLOrder[2]
    BY <2>2, <2>3 DEF Nth
  <2> HIDE DEF next
  <2> DEFINE heap == PrevLinked(NextLinked(dllHeap, 1, Nth(DLLOrder, 2, DLLNull)), 2,
                                Nth(DLLOrder, 0, DLLNull))
  <2>5. heap = IF n = 1 THEN dllHeap ELSE LinkPrev(dllHeap, next, DLLNull)
    BY <2>2, <2>3, <2>4 DEF NextLinked, PrevLinked
  <2>6. dllHeap' = DLLWithout(heap, DLLOrder[1])
    BY <1>0, <1>2, <2>1, <2>2, <2>5
  <2> HIDE DEF heap
  <2>7. /\ dllFirst' = Nth(DLLOrder, 2, DLLNull)
        /\ dllLast' = IF 1 = n THEN Nth(DLLOrder, 0, DLLNull) ELSE dllLast
    <3>1. n = 1 => Nth(DLLOrder, 2, DLLNull) = DLLNull
      BY <2>2 DEF Nth
    <3> QED BY <1>0, <1>2, <2>1, <2>3, <3>1 DEF DLLEnds
  <2>8. /\ dllLength' = dllLength - 1 /\ dllAnswer' = dllAnswer
        /\ dllActive' = IF dllActive = DLLOrder[1] THEN DLLNull ELSE dllActive
    BY <2>1, <2>2 DEF DLLShorter, DLLQuiet
  <2>9. heap = PrevLinked(NextLinked(dllHeap, 1, Nth(DLLOrder, 1 + 1, DLLNull)), 1 + 1,
                          Nth(DLLOrder, 1 - 1, DLLNull))
    BY <2>2 DEF heap
  <2>10. /\ DLLSound' /\ DLLItems' = Minus(DLLItems, 1)
         /\ DLLPlace' = IF DLLPlace = 1 THEN 0 ELSE IF DLLPlace < 1 THEN DLLPlace ELSE DLLPlace - 1
    BY <2>2, <2>6, <2>7, <2>8, <2>9, DLLUnlinked
  <2>11. Tail(DLLItems) = Minus(DLLItems, 1) /\ DLLItems # <<>>
    <3>1. DLLItems # <<>>
      BY <1>0, <1>2
    <3>2. PICK d \in DLLData : TRUE
      <4>1. 1 \in DOMAIN DLLItems /\ DLLItems[1] \in DLLData
        BY <1>0, <1>2
      <4> QED BY <4>1
    <3> QED BY <1>0, <3>1, <3>2, EndsOfSequence
  <2>12. DLLPlace' = IF DLLPlace <= 1 THEN 0 ELSE DLLPlace - 1
    BY <1>0, <2>10
  <2> QED BY <2>8, <2>10, <2>11, <2>12 DEF DLLSpecified!DeleteFirst, DLLSpecified!At
<1> QED BY <1>1, <1>2

LEMMA DLLDeletesLast ==
  ASSUME DLLSound, DLL_DeleteLast
  PROVE  DLLSound' /\ DLLSpecified!DeleteLast
<1> DEFINE n == Len(DLLOrder)
<1>0. /\ n \in Nat /\ DLLPlace \in 0 .. n
      /\ dllFirst = Nth(DLLOrder, 1, DLLNull) /\ dllLast = Nth(DLLOrder, n, DLLNull)
      /\ dllLast # DLLNull <=> n # 0
      /\ dllFirst = dllLast /\ n # 0 => n = 1
      /\ n = 1 => dllFirst = dllLast
      /\ \A i \in 1 .. n : DLLOrder[i] = Nth(DLLOrder, i, DLLNull)
      /\ DLLItems = <<>> <=> n = 0
      /\ DLLItems \in Seq(DLLData) /\ Len(DLLItems) = n
  BY DLLPlaces
<1>1. CASE dllLast = DLLNull
  <2>1. UNCHANGED dllVars
    BY <1>1 DEF DLL_DeleteLast, DLLIdle
  <2> QED BY <1>0, <1>1, <2>1, DLLUnmoved DEF DLLSpecified!DeleteLast, DLLSpecified!At
<1>2. CASE dllLast # DLLNull
  <2> DEFINE prev == dllHeap[dllLast].prev
  <2>1. /\ IF dllFirst = dllLast
           THEN DLLEnds(DLLNull, DLLNull) /\ dllHeap' = DLLWithout(dllHeap, dllLast)
           ELSE /\ DLLEnds(dllFirst, prev)
                /\ dllHeap' = DLLWithout(LinkNext(dllHeap, prev, DLLNull), dllLast)
        /\ dllActive' = IF dllActive = dllLast THEN DLLNull ELSE dllActive
        /\ DLLShorter /\ DLLQuiet
    BY <1>2 DEF DLL_DeleteLast
  <2>2. /\ n \in 1 .. n /\ ~(n + 1 <= n) /\ n + 1 \notin 1 .. n
        /\ (n > 1 <=> n # 1) /\ (n - 1 \in 1 .. n <=> n # 1)
        /\ dllLast = DLLOrder[n]
    BY <1>0, <1>2
  <2>3. prev = Nth(DLLOrder, n - 1, DLLNull) /\ Nth(DLLOrder, n + 1, DLLNull) = DLLNull
    BY <2>2, DLLLinkAt DEF Nth
  <2>4. n # 1 => prev = DLLOrder[n - 1]
    BY <2>2, <2>3 DEF Nth
  <2> HIDE DEF prev
  <2> DEFINE heap == PrevLinked(NextLinked(dllHeap, n, Nth(DLLOrder, n + 1, DLLNull)), n + 1,
                                Nth(DLLOrder, n - 1, DLLNull))
  <2>5. heap = IF n = 1 THEN dllHeap ELSE LinkNext(dllHeap, prev, DLLNull)
    BY <2>2, <2>3, <2>4 DEF NextLinked, PrevLinked
  <2>6. dllHeap' = DLLWithout(heap, DLLOrder[n])
    BY <1>0, <1>2, <2>1, <2>2, <2>5
  <2>7. /\ dllFirst' = IF n = 1 THEN Nth(DLLOrder, 2, DLLNull) ELSE dllFirst
        /\ dllLast' = IF n = n THEN Nth(DLLOrder, n - 1, DLLNull) ELSE dllLast
    <3>1. n = 1 => Nth(DLLOrder, 2, DLLNull) = DLLNull /\ Nth(DLLOrder, n - 1, DLLNull) = DLLNull
      BY <2>2 DEF Nth
    <3> QED BY <1>0, <1>2, <2>1, <2>3, <3>1 DEF DLLEnds
  <2>8. /\ dllLength' = dllLength - 1 /\ dllAnswer' = dllAnswer
        /\ dllActive' = IF dllActive = DLLOrder[n] THEN DLLNull ELSE dllActive
    BY <2>1, <2>2 DEF DLLShorter, DLLQuiet
  <2>10. /\ DLLSound' /\ DLLItems' = Minus(DLLItems, n)
         /\ DLLPlace' = IF DLLPlace = n THEN 0 ELSE IF DLLPlace < n THEN DLLPlace ELSE DLLPlace - 1
    BY <2>2, <2>6, <2>7, <2>8, DLLUnlinked
  <2>11. Front(DLLItems) = Minus(DLLItems, n) /\ DLLItems # <<>>
    <3>1. DLLItems # <<>>
      BY <1>0, <1>2
    <3>2. PICK d \in DLLData : TRUE
      <4>1. 1 \in DOMAIN DLLItems /\ DLLItems[1] \in DLLData
        BY <1>0, <1>2
      <4> QED BY <4>1
    <3> QED BY <1>0, <3>1, <3>2, EndsOfSequence
  <2>12. DLLPlace' = IF DLLPlace = Len(DLLItems) THEN 0 ELSE DLLPlace
    BY <1>0, <2>10
  <2> QED BY <2>8, <2>10, <2>11, <2>12 DEF DLLSpecified!DeleteLast, DLLSpecified!At,
                                           DLLSpecified!Front, Front
<1> QED BY <1>1, <1>2

LEMMA DLLDeletesAfter ==
  ASSUME DLLSound, DLL_DeleteAfter
  PROVE  DLLSound' /\ DLLSpecified!DeleteAfter
<1> DEFINE n == Len(DLLOrder)
           p == DLLPlace + 1
<1>0. /\ n \in Nat /\ DLLPlace \in 0 .. n
      /\ dllLast = Nth(DLLOrder, n, DLLNull)
      /\ DLL_IsActive <=> DLLPlace # 0
      /\ dllActive = Nth(DLLOrder, DLLPlace, DLLNull)
      /\ DLL_IsActive => dllHeap[dllActive].next = Nth(DLLOrder, p, DLLNull)
      /\ \A i \in 1 .. n : DLLOrder[i] = Nth(DLLOrder, i, DLLNull)
      /\ \A i \in Int : Nth(DLLOrder, i, DLLNull) = DLLNull <=> i \notin 1 .. n
      /\ \A i, j \in 1 .. n : DLLOrder[i] = DLLOrder[j] <=> i = j
      /\ DLLItems \in Seq(DLLData) /\ Len(DLLItems) = n
  BY DLLPlaces
<1>1. DLL_IsActive /\ dllHeap[dllActive].next # DLLNull <=> DLLPlace # 0 /\ DLLPlace < n
  <2>1. p \in Int /\ (DLLPlace # 0 => (p \in 1 .. n <=> DLLPlace < n))
    BY <1>0
  <2> HIDE DEF p
  <2> QED BY <1>0, <2>1
<1>2. CASE ~(DLL_IsActive /\ dllHeap[dllActive].next # DLLNull)
  <2>1. UNCHANGED dllVars
    BY <1>2 DEF DLL_DeleteAfter, DLLIdle
  <2>2. ~(DLLPlace # 0 /\ DLLPlace < Len(DLLItems))
    BY <1>0, <1>1, <1>2
  <2> QED BY <2>1, <2>2, DLLUnmoved DEF DLLSpecified!DeleteAfter, DLLSpecified!At,
                                        DLLSpecified!Active
<1>3. CASE DLL_IsActive /\ dllHeap[dllActive].next # DLLNull
  <2> DEFINE gone == dllHeap[dllActive].next
             next == dllHeap[gone].next
             link == LinkNext(dllHeap, dllActive, next)
  <2>1. /\ IF gone = dllLast
           THEN DLLEnds(dllFirst, dllActive) /\ dllHeap' = DLLWithout(link, gone)
           ELSE /\ DLLEnds(dllFirst, dllLast)
                /\ dllHeap' = DLLWithout(LinkPrev(link, next, dllActive), gone)
        /\ UNCHANGED dllActive /\ DLLShorter /\ DLLQuiet
    BY <1>3 DEF DLL_DeleteAfter
  <2>2. /\ p \in 1 .. n /\ p - 1 = DLLPlace /\ p - 1 \in 1 .. n /\ n \in 1 .. n
        /\ p > 1 /\ p # 1 /\ p # p - 1
        /\ (p + 1 <= n <=> p # n) /\ (p + 1 \in 1 .. n <=> p # n)
    BY <1>0, <1>1, <1>3
  <2>3. gone = Nth(DLLOrder, p, DLLNull)
    BY <1>0, <1>3
  <2> HIDE DEF p, gone
  <2>4. /\ gone = DLLOrder[p] /\ dllActive = DLLOrder[p - 1]
        /\ dllActive = Nth(DLLOrder, p - 1, DLLNull)
        /\ gone # dllActive /\ (gone = dllLast <=> p = n)
    BY <1>0, <2>2, <2>3
  <2>5. next = Nth(DLLOrder, p + 1, DLLNull)
    BY <2>2, <2>4, DLLLinkAt
  <2> HIDE DEF next
  <2> DEFINE heap == PrevLinked(NextLinked(dllHeap, p, Nth(DLLOrder, p + 1, DLLNull)), p + 1,
                                Nth(DLLOrder, p - 1, DLLNull))
  <2>6. heap = IF p = n THEN link ELSE LinkPrev(link, next, dllActive)
    <3>1. NextLinked(dllHeap, p, Nth(DLLOrder, p + 1, DLLNull)) = link
      BY <2>2, <2>4, <2>5 DEF NextLinked
    <3>2. p # n => DLLOrder[p + 1] = next
      BY <1>0, <2>2, <2>5
    <3> HIDE DEF link
    <3> QED BY <2>2, <2>4, <3>1, <3>2 DEF PrevLinked
  <2>7. dllHeap' = DLLWithout(heap, DLLOrder[p])
    BY <2>1, <2>4, <2>6
  <2>8. /\ dllFirst' = IF p = 1 THEN Nth(DLLOrder, 2, DLLNull) ELSE dllFirst
        /\ dllLast' = IF p = n THEN Nth(DLLOrder, p - 1, DLLNull) ELSE dllLast
    BY <2>1, <2>2, <2>4 DEF DLLEnds
  <2>9. /\ dllLength' = dllLength - 1 /\ dllAnswer' = dllAnswer
        /\ dllActive' = IF dllActive = DLLOrder[p] THEN DLLNull ELSE dllActive
    BY <2>1, <2>4 DEF DLLShorter, DLLQuiet
  <2>10. /\ DLLSound' /\ DLLItems' = Minus(DLLItems, p)
         /\ DLLPlace' = IF DLLPlace = p THEN 0 ELSE IF DLLPlace < p THEN DLLPlace ELSE DLLPlace - 1
    BY <2>2, <2>7, <2>8, <2>9, DLLUnlinked
  <2>11. RemoveAt(DLLItems, p) = Minus(DLLItems, p)
    BY <1>0, <2>2, RemoveAtIsMinus
  <2>12. DLLPlace' = DLLPlace /\ DLLPlace # 0 /\ DLLPlace < Len(DLLItems)
    BY <1>0, <1>1, <1>3, <2>10 DEF p
  <2>13. DLLItems' = RemoveAt(DLLItems, DLLPlace + 1)
    BY <2>10, <2>11 DEF p
  <2> QED BY <2>9, <2>10, <2>12, <2>13 DEF DLLSpecified!DeleteAfter, DLLSpecified!At,
                     DLLSpecified!Active, DLLSpecified!RemoveAt, RemoveAt
<1> QED BY <1>2, <1>3

LEMMA DLLDeletesBefore ==
  ASSUME DLLSound, DLL_DeleteBefore
  PROVE  DLLSound' /\ DLLSpecified!DeleteBefore
<1> DEFINE n == Len(DLLOrder)
           p == DLLPlace - 1
<1>0. /\ n \in Nat /\ DLLPlace \in 0 .. n
      /\ dllFirst = Nth(DLLOrder, 1, DLLNull)
      /\ DLL_IsActive <=> DLLPlace # 0
      /\ dllActive = Nth(DLLOrder, DLLPlace, DLLNull)
      /\ DLL_IsActive => dllHeap[dllActive].prev = Nth(DLLOrder, p, DLLNull)
      /\ \A i \in 1 .. n : DLLOrder[i] = Nth(DLLOrder, i, DLLNull)
      /\ \A i \in Int : Nth(DLLOrder, i, DLLNull) = DLLNull <=> i \notin 1 .. n
      /\ \A i, j \in 1 .. n : DLLOrder[i] = DLLOrder[j] <=> i = j
      /\ DLLItems \in Seq(DLLData) /\ Len(DLLItems) = n
  BY DLLPlaces
<1>1. DLL_IsActive /\ dllHeap[dllActive].prev # DLLNull <=> DLLPlace > 1
  <2>1. p \in Int /\ (p \in 1 .. n <=> DLLPlace > 1) /\ (DLLPlace > 1 => DLLPlace # 0)
    BY <1>0
  <2> HIDE DEF p
  <2> QED BY <1>0, <2>1
<1>2. CASE ~(DLL_IsActive /\ dllHeap[dllActive].prev # DLLNull)
  <2>1. UNCHANGED dllVars
    BY <1>2 DEF DLL_DeleteBefore, DLLIdle
  <2> QED BY <1>1, <1>2, <2>1, DLLUnmoved DEF DLLSpecified!DeleteBefore, DLLSpecified!At
<1>3. CASE DLL_IsActive /\ dllHeap[dllActive].prev # DLLNull
  <2> DEFINE gone == dllHeap[dllActive].prev
             prev == dllHeap[gone].prev
             link == LinkPrev(dllHeap, dllActive, prev)
  <2>1. /\ IF gone = dllFirst
           THEN DLLEnds(dllActive, dllLast) /\ dllHeap' = DLLWithout(link, gone)
           ELSE /\ DLLEnds(dllFirst, dllLast)
                /\ dllHeap' = DLLWithout(LinkNext(link, prev, dllActive), gone)
        /\ UNCHANGED dllActive /\ DLLShorter /\ DLLQuiet
    BY <1>3 DEF DLL_DeleteBefore
  <2>2. /\ p \in 1 .. n /\ p + 1 = DLLPlace /\ p + 1 \in 1 .. n /\ 1 \in 1 .. n
        /\ p # n /\ p + 1 <= n /\ p # p + 1
        /\ (p > 1 <=> p # 1) /\ (p - 1 \in 1 .. n <=> p # 1)
    BY <1>0, <1>1, <1>3
  <2>3. gone = Nth(DLLOrder, p, DLLNull)
    BY <1>0, <1>3
  <2> HIDE DEF p, gone
  <2>4. /\ gone = DLLOrder[p] /\ dllActive = DLLOrder[p + 1]
        /\ dllActive = Nth(DLLOrder, p + 1, DLLNull)
        /\ gone # dllActive /\ (gone = dllFirst <=> p = 1)
    BY <1>0, <2>2, <2>3
  <2>5. prev = Nth(DLLOrder, p - 1, DLLNull)
    BY <2>2, <2>4, DLLLinkAt
  <2> HIDE DEF prev
  <2> DEFINE heap == NextLinked(PrevLinked(dllHeap, p + 1, Nth(DLLOrder, p - 1, DLLNull)), p,
                                Nth(DLLOrder, p + 1, DLLNull))
  <2>6. heap = IF p = 1 THEN link ELSE LinkNext(link, prev, dllActive)
    <3>1. PrevLinked(dllHeap, p + 1, Nth(DLLOrder, p - 1, DLLNull)) = link
      BY <2>2, <2>4, <2>5 DEF PrevLinked
    <3>2. p # 1 => DLLOrder[p - 1] = prev
      BY <1>0, <2>2, <2>5
    <3> HIDE DEF link
    <3> QED BY <2>2, <2>4, <3>1, <3>2 DEF NextLinked
  <2>7. dllHeap' = DLLWithout(heap, DLLOrder[p])
    BY <2>1, <2>4, <2>6
  <2>8. /\ dllFirst' = IF p = 1 THEN Nth(DLLOrder, 2, DLLNull) ELSE dllFirst
        /\ dllLast' = IF p = n THEN Nth(DLLOrder, p - 1, DLLNull) ELSE dllLast
    <3>1. p = 1 => p + 1 = 2
      OBVIOUS
    <3> QED BY <2>1, <2>2, <2>4, <3>1 DEF DLLEnds
  <2>9. /\ dllLength' = dllLength - 1 /\ dllAnswer' = dllAnswer
        /\ dllActive' = IF dllActive = DLLOrder[p] THEN DLLNull ELSE dllActive
    BY <2>1, <2>4 DEF DLLShorter, DLLQuiet
  <2>10. /\ DLLSound' /\ DLLItems' = Minus(DLLItems, p)
         /\ DLLPlace' = IF DLLPlace = p THEN 0 ELSE IF DLLPlace < p THEN DLLPlace ELSE DLLPlace - 1
    BY <2>2, <2>7, <2>8, <2>9, DLLUnlinked
  <2>11. RemoveAt(DLLItems, p) = Minus(DLLItems, p)
    BY <1>0, <2>2, RemoveAtIsMinus
  <2>12. DLLPlace' = DLLPlace - 1 /\ DLLPlace > 1
    BY <1>0, <1>1, <1>3, <2>10 DEF p
  <2>13. DLLItems' = RemoveAt(DLLItems, DLLPlace - 1)
    BY <2>10, <2>11 DEF p
  <2> QED BY <2>9, <2>10, <2>12, <2>13 DEF DLLSpecified!DeleteBefore, DLLSpecified!At,
                     DLLSpecified!RemoveAt, RemoveAt
<1> QED BY <1>2, <1>3

LEMMA DLLSetsValue ==
  ASSUME DLLSound, NEW d \in DLLData, DLL_SetValue(d)
  PROVE  DLLSound' /\ DLLSpecified!SetValue(d)
<1>0. /\ DLLOrder \in Seq(DOMAIN dllHeap) /\ Distinct(DLLOrder)
      /\ DOMAIN DLLOrder = 1 .. Len(DLLOrder)
      /\ \A i \in 1 .. Len(DLLOrder) : DLLOrder[i] \in DOMAIN dllHeap
      /\ DLLPlace \in 0 .. Len(DLLOrder) /\ Len(DLLOrder) \in Nat
      /\ DLLPlace # 0 => DLLOrder[DLLPlace] = dllActive
  BY DLLFacts
<1>1. DLL_IsActive <=> DLLPlace # 0
  BY DLLPlaces
<1>2. CASE ~DLL_IsActive
  <2>1. UNCHANGED dllVars
    BY <1>2 DEF DLL_SetValue, DLLQuiet, dllVars
  <2> QED BY <1>1, <1>2, <2>1, DLLUnmoved DEF DLLSpecified!SetValue, DLLSpecified!At,
                                              DLLSpecified!Active
<1>3. CASE DLL_IsActive
  <2>1. /\ dllHeap' = [dllHeap EXCEPT ![dllActive].data = d]
        /\ UNCHANGED <<dllFirst, dllLast, dllActive, dllLength>> /\ dllAnswer' = dllAnswer
    BY <1>3 DEF DLL_SetValue, DLLQuiet
  <2>2. dllActive \in DOMAIN dllHeap /\ dllHeap \in [DOMAIN dllHeap -> DLLCellType]
    BY <1>3 DEF DLLSound, DLL_IsActive
  <2>3. DOMAIN dllHeap' = DOMAIN dllHeap
    BY <2>1
  <2>4. ASSUME NEW x \in DOMAIN dllHeap
        PROVE  /\ dllHeap'[x] \in DLLCellType
               /\ dllHeap'[x].next = dllHeap[x].next /\ dllHeap'[x].prev = dllHeap[x].prev
               /\ dllHeap'[x].data = IF x = dllActive THEN d ELSE dllHeap[x].data
    <3>1. dllHeap[x] \in DLLCellType
      BY <2>2
    <3>2. dllHeap'[x] = IF x = dllActive THEN [dllHeap[x] EXCEPT !.data = d] ELSE dllHeap[x]
      BY <2>1, <2>2
    <3>3. CASE x = dllActive
      <4>1. dllHeap'[x] = [dllHeap[x] EXCEPT !.data = d]
        BY <3>2, <3>3
      <4> QED BY <4>1, <3>1, <3>3 DEF DLLCellType
    <3> QED BY <3>1, <3>2, <3>3
  <2>5. DLLNexts' = DLLNexts /\ DLLPrevs' = DLLPrevs
    BY <2>3, <2>4 DEF DLLNexts, DLLPrevs
  <2>6. DLLOrder' = DLLOrder
    BY <2>1, <2>5 DEF DLLOrder
  <2>7. dllHeap' \in [DOMAIN dllHeap' -> DLLCellType]
    <3>1. dllHeap' = [x \in DOMAIN dllHeap |-> dllHeap'[x]]
      BY <2>1
    <3> QED BY <3>1, <2>3, <2>4
  <2>8. DLLSound'
    BY <2>1, <2>3, <2>5, <2>6, <2>7 DEF DLLSound
  <2>9. DLLItems' = [DLLItems EXCEPT ![DLLPlace] = d]
    <3>1. ASSUME NEW i \in 1 .. Len(DLLOrder)
          PROVE  dllHeap'[DLLOrder[i]].data = IF i = DLLPlace THEN d ELSE dllHeap[DLLOrder[i]].data
      <4>1. DLLOrder[i] = dllActive <=> i = DLLPlace
        BY <1>0, <1>1, <1>3 DEF Distinct
      <4> QED BY <4>1, <1>0, <2>4
    <3>2. DLLItems = [i \in 1 .. Len(DLLOrder) |-> dllHeap[DLLOrder[i]].data]
      BY <1>0 DEF DLLItems, Items
    <3>3. DLLItems' = [i \in 1 .. Len(DLLOrder) |-> dllHeap'[DLLOrder[i]].data]
      BY <1>0, <2>6 DEF DLLItems, Items
    <3> QED BY <3>1, <3>2, <3>3
  <2>10. DLLPlace' = DLLPlace
    BY <2>1, <2>6 DEF DLLPlace
  <2> QED BY <1>1, <1>3, <2>1, <2>8, <2>9, <2>10 DEF DLLSpecified!SetValue, DLLSpecified!At,
                                                    DLLSpecified!Active
<1> QED BY <1>2, <1>3

\* Moving the active element to place i of the order, or to nowhere.
LEMMA DLLMoves ==
  ASSUME DLLSound, NEW i \in Int, DLLActivate(Nth(DLLOrder, i, DLLNull))
  PROVE  /\ DLLSound' /\ DLLItems' = DLLItems /\ dllAnswer' = dllAnswer
         /\ DLLPlace' = IF i \in 1 .. Len(DLLOrder) THEN i ELSE 0
<1>1. /\ DLLOrder \in Seq(DOMAIN dllHeap) /\ Distinct(DLLOrder) /\ DLLNull \notin DOMAIN dllHeap
  BY DLLFacts
<1>2. /\ Nth(DLLOrder, i, DLLNull) \in DOMAIN dllHeap \cup {DLLNull}
      /\ Place(Nth(DLLOrder, i, DLLNull), DLLOrder) = IF i \in 1 .. Len(DLLOrder) THEN i ELSE 0
  BY <1>1, NthValues
<1>3. /\ UNCHANGED <<dllHeap, dllFirst, dllLast, dllLength>> /\ dllAnswer' = dllAnswer
      /\ dllActive' = Nth(DLLOrder, i, DLLNull)
  BY DEF DLLActivate
<1> QED BY <1>2, <1>3, DLLKept

LEMMA DLLMovesActive ==
  ASSUME DLLSound
  PROVE  /\ DLL_First => DLLSound' /\ DLLSpecified!First
         /\ DLL_Last => DLLSound' /\ DLLSpecified!Last_
         /\ DLL_Next => DLLSound' /\ DLLSpecified!Next_
         /\ DLL_Previous => DLLSound' /\ DLLSpecified!Previous
<1> DEFINE n == Len(DLLOrder)
<1>0. /\ n \in Nat /\ DLLPlace \in 0 .. n
      /\ dllFirst = Nth(DLLOrder, 1, DLLNull) /\ dllLast = Nth(DLLOrder, n, DLLNull)
      /\ DLL_IsActive <=> DLLPlace # 0
      /\ DLL_IsActive => /\ dllHeap[dllActive].next = Nth(DLLOrder, DLLPlace + 1, DLLNull)
                         /\ dllHeap[dllActive].prev = Nth(DLLOrder, DLLPlace - 1, DLLNull)
      /\ DLLItems = <<>> <=> n = 0
      /\ DLLItems \in Seq(DLLData) /\ Len(DLLItems) = n
      /\ Nth(DLLOrder, 0, DLLNull) = DLLNull
  BY DLLPlaces DEF Nth
<1>1. ASSUME DLL_First PROVE DLLSound' /\ DLLSpecified!First
  <2>1. DLLActivate(Nth(DLLOrder, 1, DLLNull))
    BY <1>0, <1>1 DEF DLL_First
  <2>2. /\ DLLSound' /\ DLLItems' = DLLItems /\ dllAnswer' = dllAnswer
        /\ DLLPlace' = IF 1 \in 1 .. n THEN 1 ELSE 0
    BY <2>1, DLLMoves
  <2>3. DLLPlace' = IF DLLItems = <<>> THEN 0 ELSE 1
    BY <1>0, <2>2
  <2> QED BY <2>2, <2>3 DEF DLLSpecified!First, DLLSpecified!At
<1>2. ASSUME DLL_Last PROVE DLLSound' /\ DLLSpecified!Last_
  <2>1. DLLActivate(Nth(DLLOrder, n, DLLNull)) /\ n \in Int
    BY <1>0, <1>2 DEF DLL_Last
  <2>2. /\ DLLSound' /\ DLLItems' = DLLItems /\ dllAnswer' = dllAnswer
        /\ DLLPlace' = IF n \in 1 .. n THEN n ELSE 0
    BY <2>1, DLLMoves
  <2>3. DLLPlace' = Len(DLLItems)
    BY <1>0, <2>2
  <2> QED BY <2>2, <2>3 DEF DLLSpecified!Last_, DLLSpecified!At
<1>3. ASSUME DLL_Next PROVE DLLSound' /\ DLLSpecified!Next_
  <2> DEFINE i == IF DLL_IsActive THEN DLLPlace + 1 ELSE 0
  <2>1. DLLActivate(Nth(DLLOrder, i, DLLNull)) /\ i \in Int
    <3>1. (IF DLL_IsActive THEN dllHeap[dllActive].next ELSE DLLNull) = Nth(DLLOrder, i, DLLNull)
      BY <1>0
    <3> QED BY <1>0, <1>3, <3>1 DEF DLL_Next
  <2>2. /\ DLLSound' /\ DLLItems' = DLLItems /\ dllAnswer' = dllAnswer
        /\ DLLPlace' = IF i \in 1 .. n THEN i ELSE 0
    <3> HIDE DEF i
    <3> QED BY <2>1, DLLMoves
  <2>3. DLLPlace' = IF DLLPlace < Len(DLLItems) THEN (IF DLLPlace # 0 THEN DLLPlace + 1 ELSE 0) ELSE 0
    BY <1>0, <2>2
  <2> QED BY <2>2, <2>3 DEF DLLSpecified!Next_, DLLSpecified!At, DLLSpecified!Shifted,
                            DLLSpecified!Active
<1>4. ASSUME DLL_Previous PROVE DLLSound' /\ DLLSpecified!Previous
  <2> DEFINE i == IF DLL_IsActive THEN DLLPlace - 1 ELSE 0
  <2>1. DLLActivate(Nth(DLLOrder, i, DLLNull)) /\ i \in Int
    <3>1. (IF DLL_IsActive THEN dllHeap[dllActive].prev ELSE DLLNull) = Nth(DLLOrder, i, DLLNull)
      BY <1>0
    <3> QED BY <1>0, <1>4, <3>1 DEF DLL_Previous
  <2>2. /\ DLLSound' /\ DLLItems' = DLLItems /\ dllAnswer' = dllAnswer
        /\ DLLPlace' = IF i \in 1 .. n THEN i ELSE 0
    <3> HIDE DEF i
    <3> QED BY <2>1, DLLMoves
  <2>3. DLLPlace' = IF DLLPlace # 0 THEN DLLPlace - 1 ELSE 0
    BY <1>0, <2>2
  <2> QED BY <2>2, <2>3 DEF DLLSpecified!Previous, DLLSpecified!At, DLLSpecified!Active
<1> QED BY <1>1, <1>2, <1>3, <1>4

LEMMA DLLGets ==
  ASSUME DLLSound
  PROVE  /\ DLL_GetFirst => DLLSound' /\ DLLSpecified!GetFirst
         /\ DLL_GetLast => DLLSound' /\ DLLSpecified!GetLast
         /\ DLL_GetValue => DLLSound' /\ DLLSpecified!GetValue
<1>0. /\ Len(DLLOrder) \in Nat /\ DLLPlace \in 0 .. Len(DLLOrder)
      /\ dllFirst = Nth(DLLOrder, 1, DLLNull)
      /\ dllLast = Nth(DLLOrder, Len(DLLOrder), DLLNull)
      /\ dllActive = Nth(DLLOrder, DLLPlace, DLLNull)
      /\ \A i \in Int : Nth(DLLOrder, i, DLLNull) = DLLNull <=> i \notin 1 .. Len(DLLOrder)
      /\ Len(DLLItems) = Len(DLLOrder)
  BY DLLPlaces
<1>1. ASSUME NEW c, NEW i \in Nat, c = Nth(DLLOrder, i, DLLNull), DLLStore(c)
      PROVE  DLLSound' /\ DLLSpecified!Answer(i)
  <2>1. /\ dllAnswer' = IF c = DLLNull THEN DLLFailed ELSE dllHeap[c].data
        /\ UNCHANGED <<dllHeap, dllFirst, dllLast, dllActive, dllLength>>
    BY <1>1 DEF DLLStore
  <2>2. DLLSound' /\ DLLItems' = DLLItems /\ DLLPlace' = DLLPlace
    BY <2>1, DLLKept DEF DLLSound, DLLPlace
  <2>3. DOMAIN DLLOrder = 1 .. Len(DLLOrder)
    BY DLLFacts
  <2>4. DOMAIN DLLItems = 1 .. Len(DLLOrder)
        /\ \A j \in 1 .. Len(DLLOrder) : DLLItems[j] = dllHeap[DLLOrder[j]].data
    BY <2>3 DEF DLLItems, Items
  <2>5. dllAnswer' = IF i \in DOMAIN DLLItems THEN DLLItems[i] ELSE DLLFailed
    BY <1>0, <1>1, <2>1, <2>4 DEF Nth
  <2> QED BY <2>2, <2>5 DEF DLLSpecified!Answer
<1> QED BY <1>0, <1>1 DEF DLL_GetFirst, DLL_GetLast, DLL_GetValue, DLLSpecified!GetFirst,
                          DLLSpecified!GetLast, DLLSpecified!GetValue

LEMMA DLLDisposes ==
  ASSUME DLLSound, DLL_Dispose
  PROVE  DLLSound' /\ DLLSpecified!Clear
<1>1. /\ dllHeap' = [c \in {} |-> DLLNull] /\ dllFirst' = DLLNull /\ dllLast' = DLLNull
      /\ dllActive' = DLLNull /\ dllLength' = 0 /\ dllAnswer' = dllAnswer
  BY DEF DLL_Dispose, DLLQuiet, DLLEnds
<1>2. DLLSound' /\ DLLItems' = <<>> /\ DLLPlace' = 0
  <2>1. DOMAIN DLLNexts' = {} /\ DOMAIN DLLPrevs' = {} /\ DOMAIN dllHeap' = {}
    BY <1>1 DEF DLLNexts, DLLPrevs
  <2>2. Reverse(<<>>) = <<>>
    BY DEF Reverse
  <2>3. Chain(<<>>, dllFirst', DLLNexts', DLLNull) /\ Chain(Reverse(<<>>), dllLast', DLLPrevs', DLLNull)
    BY <1>1, <2>1, <2>2, EmptyChain
  <2>4. DLLSound' /\ DLLOrder' = <<>>
    BY <1>1, <2>1, <2>3, EmptyChain, DLLRestored
  <2> QED BY <1>1, <2>1, <2>4, EmptyChain DEF DLLItems, DLLPlace
<1> QED BY <1>1, <1>2 DEF DLLSpecified!Clear, DLLSpecified!At

\* The invariant holds at the start.
LEMMA DLLInvInit == DLLInit => DLLInv /\ DLLSpecified!CursorInit
<1> SUFFICES ASSUME DLLInit PROVE DLLInv /\ DLLSpecified!CursorInit
  OBVIOUS
<1>1. /\ DOMAIN dllHeap = {} /\ DOMAIN DLLNexts = {} /\ DOMAIN DLLPrevs = {}
      /\ dllFirst = DLLNull /\ dllLast = DLLNull
      /\ dllActive = DLLNull /\ dllLength = 0 /\ dllAnswer = DLLFailed
  BY DEF DLLInit, DLLNexts, DLLPrevs
<1>2. DLLOrder = <<>> /\ Reverse(<<>>) = <<>>
  BY <1>1, EmptyChain DEF DLLOrder, Reverse
<1>3. DLLSound
  <2>1. dllHeap \in [DOMAIN dllHeap -> DLLCellType]
    BY <1>1 DEF DLLInit
  <2> QED BY <1>1, <1>2, <2>1, EmptyChain DEF DLLSound
<1>4. DLLItems = <<>> /\ DLLPlace = 0
  BY <1>1, <1>2, EmptyChain DEF DLLItems, DLLPlace
<1> QED BY <1>1, <1>3, <1>4 DEF DLLSpecified!CursorInit, DLLInv

\* What every step that leaves the list whole does, as CursorList says.
DLLDoes ==
  /\ \A d \in DLLData :
       /\ DLL_InsertFirst(d) => DLLSpecified!InsertFirst(d)
       /\ DLL_InsertLast(d) => DLLSpecified!InsertLast(d)
       /\ DLL_InsertAfter(d) => DLLSpecified!InsertAfter(d)
       /\ DLL_InsertBefore(d) => DLLSpecified!InsertBefore(d)
       /\ DLL_SetValue(d) => DLLSpecified!SetValue(d)
  /\ DLL_DeleteFirst => DLLSpecified!DeleteFirst
  /\ DLL_DeleteLast => DLLSpecified!DeleteLast
  /\ DLL_DeleteAfter => DLLSpecified!DeleteAfter
  /\ DLL_DeleteBefore => DLLSpecified!DeleteBefore
  /\ DLL_First => DLLSpecified!First
  /\ DLL_Last => DLLSpecified!Last_
  /\ DLL_Next => DLLSpecified!Next_
  /\ DLL_Previous => DLLSpecified!Previous
  /\ DLL_GetFirst => DLLSpecified!GetFirst
  /\ DLL_GetLast => DLLSpecified!GetLast
  /\ DLL_GetValue => DLLSpecified!GetValue
  /\ DLL_Dispose => DLLSpecified!Clear

\* All operations of a sound list, and the soundness of the list after them.
LEMMA DLLOperations ==
  ASSUME DLLSound, ~dllBroken'
  PROVE  DLLDoes
<1>1. ASSUME NEW d \in DLLData
      PROVE  /\ DLL_InsertFirst(d) => DLLSpecified!InsertFirst(d)
             /\ DLL_InsertLast(d) => DLLSpecified!InsertLast(d)
             /\ DLL_InsertAfter(d) => DLLSpecified!InsertAfter(d)
             /\ DLL_InsertBefore(d) => DLLSpecified!InsertBefore(d)
             /\ DLL_SetValue(d) => DLLSpecified!SetValue(d)
  BY DLLInsertsFirst, DLLInsertsLast, DLLInsertsAfter, DLLInsertsBefore, DLLSetsValue
<1>2. /\ DLL_DeleteFirst => DLLSpecified!DeleteFirst
      /\ DLL_DeleteLast => DLLSpecified!DeleteLast
      /\ DLL_DeleteAfter => DLLSpecified!DeleteAfter
      /\ DLL_DeleteBefore => DLLSpecified!DeleteBefore
  BY DLLDeletesFirst, DLLDeletesLast, DLLDeletesAfter, DLLDeletesBefore
<1> QED BY <1>1, <1>2, DLLMovesActive, DLLGets, DLLDisposes DEF DLLDoes

LEMMA DLLSoundStep ==
  ASSUME DLLSound, DLLNext, ~dllBroken'
  PROVE  DLLSound'
<1>1. ASSUME NEW d \in DLLData, DLL_InsertFirst(d) PROVE DLLSound'
  BY <1>1, DLLInsertsFirst
<1>2. ASSUME NEW d \in DLLData, DLL_InsertLast(d) PROVE DLLSound'
  BY <1>2, DLLInsertsLast
<1>3. ASSUME NEW d \in DLLData, DLL_InsertAfter(d) PROVE DLLSound'
  BY <1>3, DLLInsertsAfter
<1>4. ASSUME NEW d \in DLLData, DLL_InsertBefore(d) PROVE DLLSound'
  BY <1>4, DLLInsertsBefore
<1>5. ASSUME NEW d \in DLLData, DLL_SetValue(d) PROVE DLLSound'
  BY <1>5, DLLSetsValue
<1>6. CASE DLL_DeleteFirst
  BY <1>6, DLLDeletesFirst
<1>7. CASE DLL_DeleteLast
  BY <1>7, DLLDeletesLast
<1>8. CASE DLL_DeleteAfter
  BY <1>8, DLLDeletesAfter
<1>9. CASE DLL_DeleteBefore
  BY <1>9, DLLDeletesBefore
<1>10. CASE DLL_First \/ DLL_Last \/ DLL_Next \/ DLL_Previous
  BY <1>10, DLLMovesActive
<1>11. CASE DLL_GetFirst \/ DLL_GetLast \/ DLL_GetValue
  BY <1>11, DLLGets
<1>12. CASE DLL_Dispose
  BY <1>12, DLLDisposes
<1>13. CASE DLL_InsertFails
  BY <1>13 DEF DLL_InsertFails
<1> QED BY <1>1, <1>2, <1>3, <1>4, <1>5, <1>6, <1>7, <1>8, <1>9, <1>10, <1>11, <1>12, <1>13
        DEF DLLNext

LEMMA DLLInvStep == DLLInv /\ [DLLNext]_dllVars => DLLInv'
<1> SUFFICES ASSUME DLLInv, [DLLNext]_dllVars, ~dllBroken' PROVE DLLSound'
  BY DEF DLLInv
<1>1. CASE DLLNext
  BY <1>1, DLLSoundStep DEF DLLInv, DLLNext
<1>2. CASE UNCHANGED dllVars
  BY <1>2, DLLUnmoved DEF DLLInv, dllVars
<1> QED BY <1>1, <1>2

\* The state part of DLLIsCursorList.
LEMMA DLLSoundIsWellLinked == DLLSound => DLLWellLinked
<1> SUFFICES ASSUME DLLSound PROVE DLLWellLinked
  OBVIOUS
<1>1. /\ DLLOrder \in Seq(DOMAIN dllHeap) /\ Distinct(DLLOrder)
      /\ DOMAIN DLLOrder = 1 .. Len(DLLOrder) /\ DOMAIN DLLPrevs = DOMAIN dllHeap
      /\ DLLNull \notin DOMAIN dllHeap
      /\ \A i \in 1 .. Len(DLLOrder) : DLLOrder[i] \in DOMAIN dllHeap
  BY DLLFacts
<1>2. /\ Covers(DLLOrder, DOMAIN dllHeap) /\ IsFiniteSet(DOMAIN dllHeap)
      /\ Chain(Reverse(DLLOrder), dllLast, DLLPrevs, DLLNull)
      /\ dllLength = Len(DLLOrder) /\ dllActive \in DOMAIN dllHeap \cup {DLLNull}
  BY DEF DLLSound
<1>3. Walk(dllLast, DLLPrevs, DLLNull) = Reverse(DLLOrder)
  BY <1>1, <1>2, WalkOfChain
<1>4. Len(DLLOrder) = Cardinality(DOMAIN dllHeap)
  BY <1>1, <1>2, ChainLength
<1>5. ToSet(DLLOrder) = DOMAIN dllHeap
  BY <1>1, <1>2 DEF ToSet, Covers
<1> QED BY <1>2, <1>3, <1>4, <1>5 DEF DLL_IsActive, DLLWellLinked

\* As long as no NULL is written through and no cell linked to itself, the
\* doubly linked list of c206.c does what a sequence with a cursor does, its
\* links mirror each other and currentLength counts the cells, for every set of
\* addresses and data: DLL_InsertBefore is right only before the first element,
\* and every operation that follows malloc only when there was memory.
THEOREM DLListRefinesCursorList == DLLSpec => DLLIsCursorList
<1>1. DLLInit => DLLInv /\ DLLSpecified!CursorInit
  BY DLLInvInit
<1>2. DLLInv /\ [DLLNext]_dllVars => DLLInv'
  BY DLLInvStep
<1>3. DLLInv => (~dllBroken => DLLWellLinked)
  BY DLLSoundIsWellLinked DEF DLLInv
<1>4. ASSUME DLLInv, [DLLNext]_dllVars
      PROVE  ~dllBroken' /\ dllVars' # dllVars => DLLDoes
  BY <1>4, DLLOperations DEF DLLInv, DLLNext
<1>5. DLLInv /\ [DLLNext]_dllVars => (~dllBroken' /\ dllVars' # dllVars => DLLDoes)
  BY <1>4
<1> QED BY <1>1, <1>2, <1>3, <1>5, PTL DEF DLLSpec, DLLIsCursorList, DLLDoes

-----------------------------------------------------------------------------
(* The hash table *)

HtItemType == [key : HtKeys, value : HtValues, next : HtItems \cup {HtNull}]
HtIndices == 0 .. HT_SIZE - 1
HtLinks(heap) == [x \in DOMAIN heap |-> heap[x].next]

\* Each index has a chain of items of its hash, every item is on the chain of its
\* hash, and no two items have the same key.
HtSound(chain, table, heap) ==
  /\ heap \in [DOMAIN heap -> HtItemType]
  /\ DOMAIN heap \subseteq HtItems /\ IsFiniteSet(DOMAIN heap)
  /\ table \in [HtIndices -> HtItems \cup {HtNull}]
  /\ \A i \in HtIndices : Chain(chain[i], table[i], HtLinks(heap), HtNull)
  /\ \A i \in HtIndices : \A k \in 1 .. Len(chain[i]) : get_hash(heap[chain[i][k]].key) = i
  /\ \A x \in DOMAIN heap : Covers(chain[get_hash(heap[x].key)], {x})
  /\ \A x, y \in DOMAIN heap : heap[x].key = heap[y].key => x = y

HtInv == \E chain : HtSound(chain, htTable, htHeap)

(* What a search does, said of any table and heap *)

HtKeysOf(s, heap) == [i \in DOMAIN s |-> heap[s[i]].key]
\* The item a search for a key finds, or HtNull, and what is found for all keys.
HtLookup(table, heap, key) ==
  LET s == Walk(table[get_hash(key)], HtLinks(heap), HtNull)
      p == Place(key, HtKeysOf(s, heap))
  IN IF p = 0 THEN HtNull ELSE s[p]
HtEntriesIn(table, heap) ==
  [key \in {k \in HtKeys : HtLookup(table, heap, k) # HtNull} |-> heap[HtLookup(table, heap, key)].value]

LEMMA HtHashType == ASSUME NEW key \in HtKeys PROVE get_hash(key) \in HtIndices
BY HashTableAssumption DEF get_hash, HtIndices

\* What a sound table says of its items and of the links of each chain.
LEMMA HtHeapTypes ==
  ASSUME NEW chain, NEW table, NEW heap, HtSound(chain, table, heap)
  PROVE  /\ \A x \in DOMAIN heap : /\ heap[x] \in HtItemType /\ heap[x].key \in HtKeys
                                   /\ heap[x].next \in HtItems \cup {HtNull}
                                   /\ get_hash(heap[x].key) \in HtIndices
         /\ HtNull \notin DOMAIN heap
         /\ DOMAIN HtLinks(heap) = DOMAIN heap
         /\ \A x \in DOMAIN heap : HtLinks(heap)[x] = heap[x].next
         /\ \A i \in HtIndices : /\ chain[i] \in Seq(DOMAIN heap) /\ Distinct(chain[i])
                                 /\ Len(chain[i]) \in Nat /\ DOMAIN chain[i] = 1 .. Len(chain[i])
                                 /\ \A k \in 1 .. Len(chain[i]) : chain[i][k] \in DOMAIN heap
                                 /\ table[i] = Nth(chain[i], 1, HtNull)
                                 /\ \A k \in 1 .. Len(chain[i]) :
                                      heap[chain[i][k]].next = Nth(chain[i], k + 1, HtNull)
<1>1. \A x \in DOMAIN heap : heap[x] \in HtItemType
  BY DEF HtSound
<1>2. \A x \in DOMAIN heap : heap[x].key \in HtKeys /\ heap[x].next \in HtItems \cup {HtNull}
  BY <1>1 DEF HtItemType
<1>3. HtNull \notin DOMAIN heap
  BY HashTableAssumption DEF HtSound
<1>4. /\ DOMAIN HtLinks(heap) = DOMAIN heap
      /\ \A x \in DOMAIN heap : HtLinks(heap)[x] = heap[x].next
  BY DEF HtLinks
<1>5. ASSUME NEW i \in HtIndices
      PROVE  /\ chain[i] \in Seq(DOMAIN heap) /\ Distinct(chain[i])
             /\ Len(chain[i]) \in Nat /\ DOMAIN chain[i] = 1 .. Len(chain[i])
             /\ \A k \in 1 .. Len(chain[i]) : chain[i][k] \in DOMAIN heap
             /\ table[i] = Nth(chain[i], 1, HtNull)
             /\ \A k \in 1 .. Len(chain[i]) : heap[chain[i][k]].next = Nth(chain[i], k + 1, HtNull)
  <2> DEFINE s == chain[i]
  <2>1. Chain(s, table[i], HtLinks(heap), HtNull)
    BY DEF HtSound
  <2> HIDE DEF s
  <2>2. /\ s \in Seq(DOMAIN heap) /\ Distinct(s) /\ table[i] = Nth(s, 1, HtNull)
        /\ \A k \in 1 .. Len(s) : HtLinks(heap)[s[k]] = Nth(s, k + 1, HtNull)
    BY <1>4, <2>1 DEF Chain
  <2>3. /\ Len(s) \in Nat /\ DOMAIN s = 1 .. Len(s) /\ \A k \in 1 .. Len(s) : s[k] \in DOMAIN heap
    BY <2>2
  <2> QED BY <1>4, <2>2, <2>3 DEF s
<1> QED BY <1>1, <1>2, <1>3, <1>4, <1>5, HtHashType

\* A search finds the item with the key when there is one and only then.
LEMMA HtSearched ==
  ASSUME NEW chain, NEW table, NEW heap, HtSound(chain, table, heap), NEW key \in HtKeys,
         NEW s, s = chain[get_hash(key)], NEW p, p = Place(key, HtKeysOf(s, heap))
  PROVE  /\ p \in 0 .. Len(s) /\ s = Walk(table[get_hash(key)], HtLinks(heap), HtNull)
         /\ p = 0 => /\ HtLookup(table, heap, key) = HtNull
                     /\ \A x \in DOMAIN heap : heap[x].key # key
         /\ p # 0 => /\ HtLookup(table, heap, key) = s[p]
                     /\ s[p] \in DOMAIN heap /\ heap[s[p]].key = key
<1> DEFINE i == get_hash(key)
           ks == HtKeysOf(s, heap)
<1>1. i \in HtIndices
  BY HtHashType
<1>2. /\ s \in Seq(DOMAIN heap) /\ Distinct(s) /\ Len(s) \in Nat /\ DOMAIN s = 1 .. Len(s)
      /\ \A k \in 1 .. Len(s) : s[k] \in DOMAIN heap
      /\ \A x \in DOMAIN heap : heap[x].key \in HtKeys
      /\ HtNull \notin DOMAIN heap
      /\ DOMAIN HtLinks(heap) = DOMAIN heap
  BY <1>1, HtHeapTypes
<1>3. /\ Chain(s, table[i], HtLinks(heap), HtNull) /\ IsFiniteSet(DOMAIN heap)
      /\ \A x, y \in DOMAIN heap : heap[x].key = heap[y].key => x = y
      /\ \A x \in DOMAIN heap : heap[x].key = key => \E k \in 1 .. Len(s) : s[k] = x
  BY <1>1 DEF HtSound, Covers
<1>4. Walk(table[i], HtLinks(heap), HtNull) = s
  BY <1>2, <1>3, WalkOfChain
<1>5. ks \in [1 .. Len(s) -> HtKeys] /\ \A k \in 1 .. Len(s) : ks[k] = heap[s[k]].key
  BY <1>2 DEF HtKeysOf
<1> HIDE DEF ks
<1>6. ks \in Seq(HtKeys) /\ Len(ks) = Len(s)
  BY <1>2, <1>5
<1>7. Distinct(ks)
  BY <1>2, <1>3, <1>5, <1>6 DEF Distinct
<1>8. /\ Place(key, ks) \in 0 .. Len(ks)
      /\ Place(key, ks) # 0 => ks[Place(key, ks)] = key
      /\ Place(key, ks) = 0 => \A k \in 1 .. Len(ks) : ks[k] # key
  BY <1>6, <1>7, PlaceIn
<1>9. p = Place(key, ks)
  BY DEF ks
<1>10. HtLookup(table, heap, key) = IF p = 0 THEN HtNull ELSE s[p]
  BY <1>4 DEF HtLookup
<1>11. p \in 0 .. Len(s) /\ (p # 0 => p \in 1 .. Len(s))
  BY <1>2, <1>6, <1>8, <1>9
<1>12. p = 0 => \A x \in DOMAIN heap : heap[x].key # key
  BY <1>3, <1>5, <1>6, <1>8, <1>9
<1>13. p # 0 => s[p] \in DOMAIN heap /\ heap[s[p]].key = key
  BY <1>2, <1>5, <1>8, <1>9, <1>11
<1> QED BY <1>4, <1>10, <1>11, <1>12, <1>13

LEMMA HtLookedUp ==
  ASSUME NEW chain, NEW table, NEW heap, HtSound(chain, table, heap)
  PROVE  /\ \A key \in HtKeys :
              HtLookup(table, heap, key) # HtNull <=> \E x \in DOMAIN heap : heap[x].key = key
         /\ \A x \in DOMAIN heap : HtLookup(table, heap, heap[x].key) = x
<1>1. /\ HtNull \notin DOMAIN heap /\ \A x \in DOMAIN heap : heap[x].key \in HtKeys
      /\ \A x, y \in DOMAIN heap : heap[x].key = heap[y].key => x = y
  BY HtHeapTypes DEF HtSound
<1>2. ASSUME NEW key \in HtKeys
      PROVE  \/ /\ HtLookup(table, heap, key) = HtNull
                /\ \A x \in DOMAIN heap : heap[x].key # key
             \/ /\ HtLookup(table, heap, key) \in DOMAIN heap
                /\ heap[HtLookup(table, heap, key)].key = key
  BY HtSearched
<1> QED BY <1>1, <1>2

\* The entries are the key and value of every item.
HtRecords(g, K, heap) ==
  /\ g = [k \in K |-> g[k]]
  /\ \A k : k \in K <=> \E x \in DOMAIN heap : heap[x].key = k
  /\ \A x \in DOMAIN heap : g[heap[x].key] = heap[x].value

\* What holds the key and value of every item is what the searches find.
LEMMA HtEntriesAre ==
  ASSUME NEW chain, NEW table, NEW heap, HtSound(chain, table, heap),
         NEW K, NEW g, HtRecords(g, K, heap)
  PROVE  HtEntriesIn(table, heap) = g
<1> USE DEF HtRecords
<1>1. \A x \in DOMAIN heap : heap[x].key \in HtKeys
  BY HtHeapTypes
<1> DEFINE Found == {k \in HtKeys : HtLookup(table, heap, k) # HtNull}
<1>2. Found = K
  <2>1. \A k : k \in Found <=> k \in K
    BY <1>1, HtLookedUp
  <2> QED BY <2>1
<1>3. ASSUME NEW k \in K PROVE heap[HtLookup(table, heap, k)].value = g[k]
  <2>1. PICK x \in DOMAIN heap : heap[x].key = k
    OBVIOUS
  <2>2. HtLookup(table, heap, k) = x
    BY <2>1, HtLookedUp
  <2> QED BY <2>1, <2>2
<1>4. HtEntriesIn(table, heap) = [k \in Found |-> heap[HtLookup(table, heap, k)].value]
  BY DEF HtEntriesIn
<1> QED BY <1>2, <1>3, <1>4

LEMMA HtEntriesOf ==
  ASSUME NEW chain, NEW table, NEW heap, HtSound(chain, table, heap)
  PROVE  /\ \A k : k \in DOMAIN HtEntriesIn(table, heap) <=> \E x \in DOMAIN heap : heap[x].key = k
         /\ \A x \in DOMAIN heap : HtEntriesIn(table, heap)[heap[x].key] = heap[x].value
<1>1. \A x \in DOMAIN heap : heap[x].key \in HtKeys
  BY HtHeapTypes
<1> DEFINE Found == {k \in HtKeys : HtLookup(table, heap, k) # HtNull}
           E == HtEntriesIn(table, heap)
<1>2. DOMAIN E = Found /\ \A k \in Found : E[k] = heap[HtLookup(table, heap, k)].value
  BY DEF HtEntriesIn
<1>3. \A k : k \in Found <=> \E x \in DOMAIN heap : heap[x].key = k
  BY <1>1, HtLookedUp
<1>4. \A x \in DOMAIN heap : heap[x].key \in Found /\ HtLookup(table, heap, heap[x].key) = x
  BY <1>3, HtLookedUp
<1> HIDE DEF E, Found
<1> QED BY <1>2, <1>3, <1>4 DEF E

LEMMA HtSearchIsLookup ==
  /\ \A key : ht_search(key) = HtLookup(htTable, htHeap, key)
  /\ HtEntries = HtEntriesIn(htTable, htHeap)
<1>1. \A key : ht_search(key) = HtLookup(htTable, htHeap, key)
  BY DEF ht_search, HtFirstWith, HtItemAt, HtChainOf, HtChain, HtPosition, HtNexts,
         HtLookup, HtLinks, HtKeysOf
<1> QED BY <1>1 DEF HtEntries, HtFound, HtEntriesIn

LEMMA HtSearchIsLookupAfter == HtEntries' = HtEntriesIn(htTable', htHeap')
<1>1. \A key : ht_search(key)' = HtLookup(htTable', htHeap', key)
  BY DEF ht_search, HtFirstWith, HtItemAt, HtChainOf, HtChain, HtPosition, HtNexts,
         HtLookup, HtLinks, HtKeysOf, get_hash
<1> QED BY <1>1 DEF HtEntries, HtFound, HtEntriesIn

\* A new value for item a.
HtRevalues(heap, a, v, heap2) ==
  a \in DOMAIN heap /\ v \in HtValues /\ heap2 = [heap EXCEPT ![a].value = v]

\* A new item at the head of the chain of its key, which no item has.
HtAdds(heap, table, key, v, new, heap2, table2) ==
  /\ key \in HtKeys /\ v \in HtValues /\ \A x \in DOMAIN heap : heap[x].key # key
  /\ new \in HtItems \ DOMAIN heap
  /\ DOMAIN heap2 = DOMAIN heap \cup {new} /\ heap2 = [x \in DOMAIN heap2 |-> heap2[x]]
  /\ heap2[new] = [key |-> key, value |-> v, next |-> table[get_hash(key)]]
  /\ \A x \in DOMAIN heap : heap2[x] = heap[x]
  /\ table2 = [table EXCEPT ![get_hash(key)] = new]

\* The item at place p of the chain s of index i unlinked and freed.
HtRemoves(heap, table, i, s, p, heap2, table2) ==
  /\ i \in HtIndices /\ p \in 1 .. Len(s)
  /\ DOMAIN heap2 = DOMAIN heap \ {s[p]} /\ heap2 \in [DOMAIN heap \ {s[p]} -> HtItemType]
  /\ \A x \in DOMAIN heap \ {s[p]} :
       /\ heap2[x].key = heap[x].key
       /\ heap2[x].next = IF p > 1 /\ x = s[p - 1] THEN heap[s[p]].next ELSE heap[x].next
  /\ table2 = IF p = 1 THEN [table EXCEPT ![i] = heap[s[p]].next] ELSE table

\* Items whose keys and links are as they were.
LEMMA HtRevalued ==
  ASSUME NEW chain, NEW table, NEW heap, HtSound(chain, table, heap),
         NEW a, NEW v, NEW heap2, HtRevalues(heap, a, v, heap2)
  PROVE  /\ HtSound(chain, table, heap2) /\ DOMAIN heap2 = DOMAIN heap
         /\ \A x \in DOMAIN heap : heap2[x].key = heap[x].key
                                   /\ heap2[x].value = IF x = a THEN v ELSE heap[x].value
<1> USE DEF HtRevalues
<1>1. /\ \A x \in DOMAIN heap : heap[x] \in HtItemType
      /\ \A i \in HtIndices : \A k \in 1 .. Len(chain[i]) : chain[i][k] \in DOMAIN heap
  BY HtHeapTypes
<1>2. DOMAIN heap2 = DOMAIN heap
  OBVIOUS
<1>3. ASSUME NEW x \in DOMAIN heap
      PROVE  /\ heap2[x] \in HtItemType /\ heap2[x].key = heap[x].key /\ heap2[x].next = heap[x].next
             /\ heap2[x].value = IF x = a THEN v ELSE heap[x].value
  <2>1. CASE x = a
    <3>1. heap2[x] = [heap[x] EXCEPT !.value = v] /\ heap[x] \in HtItemType
      BY <1>1, <2>1
    <3> QED BY <2>1, <3>1 DEF HtItemType
  <2>2. CASE x # a
    BY <1>1, <2>2
  <2> QED BY <2>1, <2>2
<1>4. HtLinks(heap2) = HtLinks(heap)
  BY <1>2, <1>3 DEF HtLinks
<1>5. heap2 \in [DOMAIN heap2 -> HtItemType]
  BY <1>2, <1>3
<1>6. HtSound(chain, table, heap2)
  <2>1. \A i \in HtIndices : \A k \in 1 .. Len(chain[i]) : get_hash(heap2[chain[i][k]].key) = i
    BY <1>1, <1>3 DEF HtSound
  <2>2. \A x \in DOMAIN heap2 : Covers(chain[get_hash(heap2[x].key)], {x})
    BY <1>2, <1>3 DEF HtSound
  <2>3. \A x, y \in DOMAIN heap2 : heap2[x].key = heap2[y].key => x = y
    BY <1>2, <1>3 DEF HtSound
  <2> QED BY <1>2, <1>4, <1>5, <2>1, <2>2, <2>3 DEF HtSound
<1> QED BY <1>2, <1>3, <1>6

\* A new item at the head of the chain of its key.
LEMMA HtAdded ==
  ASSUME NEW chain, NEW table, NEW heap, HtSound(chain, table, heap),
         NEW key, NEW v, NEW new, NEW heap2, NEW table2, HtAdds(heap, table, key, v, new, heap2, table2)
  PROVE  \E chain2 : HtSound(chain2, table2, heap2)
<1> PICK i : i = get_hash(key)
  OBVIOUS
<1> USE DEF HtAdds
<1> DEFINE s == chain[i]
           t == Plus(s, 1, new)
           next == HtLinks(heap)
           next2 == HtLinks(heap2)
           chain2 == [j \in HtIndices |-> IF j = i THEN t ELSE chain[j]]
<1>1. i \in HtIndices
  BY HtHashType
<1>2. /\ \A x \in DOMAIN heap : heap[x] \in HtItemType /\ get_hash(heap[x].key) \in HtIndices
      /\ DOMAIN next = DOMAIN heap /\ \A x \in DOMAIN heap : next[x] = heap[x].next
  BY HtHeapTypes
<1>3. \A j \in HtIndices : /\ chain[j] \in Seq(DOMAIN heap) /\ Len(chain[j]) \in Nat /\ Distinct(chain[j])
                           /\ \A k \in 1 .. Len(chain[j]) : chain[j][k] \in DOMAIN heap
                           /\ table[j] = Nth(chain[j], 1, HtNull)
  BY HtHeapTypes
<1>4. /\ table \in [HtIndices -> HtItems \cup {HtNull}] /\ IsFiniteSet(DOMAIN heap)
      /\ DOMAIN heap \subseteq HtItems
      /\ \A j \in HtIndices : Chain(chain[j], table[j], next, HtNull)
      /\ \A j \in HtIndices : \A k \in 1 .. Len(chain[j]) : get_hash(heap[chain[j][k]].key) = j
      /\ \A x \in DOMAIN heap : Covers(chain[get_hash(heap[x].key)], {x})
      /\ \A x, y \in DOMAIN heap : heap[x].key = heap[y].key => x = y
  BY DEF HtSound
<1>5. heap2[new] \in HtItemType /\ heap2[new].key = key /\ heap2[new].next = table[i]
      /\ new \notin DOMAIN heap
  BY <1>1, <1>4 DEF HtItemType
<1>6. heap2 \in [DOMAIN heap2 -> HtItemType] /\ DOMAIN heap2 \subseteq HtItems
  BY <1>2, <1>4, <1>5
<1>7. IsFiniteSet(DOMAIN heap2)
  <2>1. IsFiniteSet(DOMAIN heap \cup {new})
    BY <1>4, FS_AddElement
  <2> QED BY <2>1
<1>8. table2 \in [HtIndices -> HtItems \cup {HtNull}]
      /\ \A j \in HtIndices : table2[j] = IF j = i THEN new ELSE table[j]
  BY <1>1, <1>4
<1>9. /\ DOMAIN next2 = DOMAIN heap \cup {new} /\ next2[new] = table[i]
      /\ \A x \in DOMAIN heap : next2[x] = next[x]
  BY <1>2, <1>5 DEF HtLinks
<1> HIDE DEF next, next2
<1>10. ASSUME NEW j \in HtIndices PROVE Chain(chain2[j], table2[j], next2, HtNull)
  <2>1. CASE j = i
    <3>1. Spliced(s, 1, new, next, next2, HtNull)
      <4>1. 1 \in 1 .. Len(s) + 1 /\ new \notin DOMAIN next /\ DOMAIN next2 = DOMAIN next \cup {new}
        BY <1>1, <1>2, <1>3, <1>5, <1>9
      <4>2. \A k \in 1 .. Len(s) : next2[s[k]] = next[s[k]]
        BY <1>1, <1>3, <1>9
      <4>3. next2[new] = Nth(s, 1, HtNull) /\ ~(1 > 1)
        BY <1>1, <1>3, <1>9
      <4> HIDE DEF s
      <4> QED BY <4>1, <4>2, <4>3 DEF Spliced
    <3>2. Chain(s, table[i], next, HtNull)
      BY <1>1, <1>4
    <3> HIDE DEF s
    <3>3. Chain(Plus(s, 1, new), IF 1 = 1 THEN new ELSE table[i], next2, HtNull)
      BY <3>1, <3>2, ChainPlus
    <3> QED BY <1>8, <2>1, <3>3
  <2>2. CASE j # i
    <3> DEFINE r == chain[j]
    <3>1. Chain(r, table[j], next, HtNull)
          /\ \A k \in 1 .. Len(r) : r[k] \in DOMAIN next2 /\ next2[r[k]] = next[r[k]]
      BY <1>3, <1>4, <1>9
    <3> HIDE DEF r
    <3>2. Chain(r, table[j], next2, HtNull)
      BY <3>1, ChainKept
    <3> QED BY <1>8, <2>2, <3>2 DEF r
  <2> QED BY <2>1, <2>2
<1>11. /\ Len(t) = Len(s) + 1 /\ t[1] = new /\ Len(s) \in Nat
       /\ \A k \in 2 .. Len(s) + 1 : k - 1 \in 1 .. Len(s) /\ t[k] = s[k - 1]
  <2>1. Len(s) \in Nat
    BY <1>1, <1>3
  <2> DEFINE T == DOMAIN heap \cup {new}
  <2>2. s \in Seq(T) /\ new \in T /\ 1 \in 1 .. Len(s) + 1
    BY <1>1, <1>3
  <2> HIDE DEF T, s
  <2>3. Len(t) = Len(s) + 1 /\ t[1] = new /\ \A k \in 1 .. Len(s) : t[k + 1] = s[k]
    <3>1. <<new>> \o s = t
      BY <2>2, EndsOfSequence
    <3> HIDE DEF t
    <3> QED BY <2>1, <2>2, <3>1
  <2>4. \A k \in 2 .. Len(s) + 1 : k - 1 \in 1 .. Len(s) /\ (k - 1) + 1 = k
    BY <2>1
  <2> HIDE DEF t
  <2>5. ASSUME NEW k \in 2 .. Len(s) + 1 PROVE t[k] = s[k - 1]
    BY <2>3, <2>4
  <2> QED BY <2>1, <2>3, <2>4, <2>5
<1>12. \A j \in HtIndices : \A k \in 1 .. Len(chain2[j]) : get_hash(heap2[chain2[j][k]].key) = j
  <2>1. ASSUME NEW k \in 1 .. Len(t) PROVE get_hash(heap2[t[k]].key) = i
    <3>1. CASE k = 1
      BY <1>5, <1>11, <3>1
    <3>2. CASE k # 1
      <4>1. k \in 2 .. Len(s) + 1
        BY <1>11, <3>2
      <4>2. t[k] = s[k - 1] /\ k - 1 \in 1 .. Len(s)
        BY <4>1, <1>11
      <4> QED BY <4>2, <1>1, <1>3, <1>4
    <3> QED BY <3>1, <3>2
  <2>2. ASSUME NEW j \in HtIndices, NEW k \in 1 .. Len(chain[j]) PROVE get_hash(heap2[chain[j][k]].key) = j
    BY <1>3, <1>4
  <2> HIDE DEF t, s
  <2> QED BY <2>1, <2>2
<1>13. ASSUME NEW x \in DOMAIN heap2 PROVE Covers(chain2[get_hash(heap2[x].key)], {x})
  <2>1. Covers(t, {new}) /\ \A cells : Covers(s, cells) => Covers(t, cells)
    <3>1. 1 \in 1 .. Len(s) + 1 /\ s \in Seq(DOMAIN heap) /\ Distinct(s) /\ new \notin DOMAIN heap
      BY <1>1, <1>3
    <3> HIDE DEF s
    <3> QED BY <3>1, PlusDistinct
  <2> HIDE DEF t
  <2>2. CASE x = new
    BY <1>1, <1>5, <2>1, <2>2
  <2>3. CASE x # new
    <3>1. /\ x \in DOMAIN heap /\ heap2[x] = heap[x] /\ get_hash(heap[x].key) \in HtIndices
          /\ Covers(chain[get_hash(heap[x].key)], {x})
      BY <1>2, <1>4, <2>3
    <3> QED BY <2>1, <3>1
  <2> QED BY <2>2, <2>3
<1>14. \A x, y \in DOMAIN heap2 : heap2[x].key = heap2[y].key => x = y
  BY <1>4, <1>5
<1> HIDE DEF chain2
<1>15. HtSound(chain2, table2, heap2)
  BY <1>6, <1>7, <1>8, <1>10, <1>12, <1>13, <1>14 DEF HtSound, next2
<1> QED BY <1>15

LEMMA MinusFrom ==
  ASSUME NEW S, NEW s \in Seq(S), NEW p \in 1 .. Len(s)
  PROVE  \A k \in 1 .. Len(Minus(s, p)) : \E m \in 1 .. Len(s) : Minus(s, p)[k] = s[m]
<1> DEFINE t == Minus(s, p)
<1>1. /\ Len(s) \in Nat /\ p \in Int /\ Len(t) = Len(s) - 1
      /\ \A k \in 1 .. p - 1 : t[k] = s[k]
      /\ \A k \in p .. Len(s) - 1 : t[k] = s[k + 1]
  <2>1. Len(s) \in Nat /\ p \in Int
    OBVIOUS
  <2>2. Len(t) = Len(s) - 1
    BY MinusSequence
  <2>3. \A k \in 1 .. p - 1 : t[k] = s[k]
    BY MinusSequence
  <2>4. \A k \in p .. Len(s) - 1 : t[k] = s[k + 1]
    BY MinusSequence
  <2> QED BY <2>1, <2>2, <2>3, <2>4
<1> HIDE DEF t
<1>2. ASSUME NEW k \in 1 .. Len(t) PROVE \E m \in 1 .. Len(s) : t[k] = s[m]
  <2>1. CASE k < p
    <3>1. k \in 1 .. p - 1 /\ k \in 1 .. Len(s)
      BY <1>1, <2>1
    <3>2. t[k] = s[k]
      BY <1>1, <3>1
    <3> QED BY <3>1, <3>2
  <2>2. CASE ~(k < p)
    <3>1. k \in p .. Len(s) - 1 /\ k + 1 \in 1 .. Len(s)
      BY <1>1, <2>2
    <3>2. t[k] = s[k + 1]
      BY <1>1, <3>1
    <3> QED BY <3>1, <3>2
  <2> QED BY <2>1, <2>2
<1> QED BY <1>2 DEF t

\* An item unlinked from its chain.
LEMMA HtRemoved ==
  ASSUME NEW chain, NEW table, NEW heap, HtSound(chain, table, heap),
         NEW i, NEW s, s = chain[i], NEW p, NEW heap2, NEW table2,
         HtRemoves(heap, table, i, s, p, heap2, table2)
  PROVE  \E chain2 : HtSound(chain2, table2, heap2)
<1> PICK gone : gone = s[p]
  OBVIOUS
<1> USE DEF HtRemoves
<1> DEFINE t == Minus(s, p)
           next == HtLinks(heap)
           next2 == HtLinks(heap2)
           chain2 == [j \in HtIndices |-> IF j = i THEN t ELSE chain[j]]
<1>1. p \in Int /\ s \in Seq(DOMAIN heap) /\ Len(s) \in Nat /\ Distinct(s)
      /\ (\A k \in 1 .. Len(s) : s[k] \in DOMAIN heap) /\ gone \in DOMAIN heap
  BY HtHeapTypes
<1>2. /\ \A x \in DOMAIN heap : /\ heap[x] \in HtItemType /\ get_hash(heap[x].key) \in HtIndices
                                /\ heap[x].next \in HtItems \cup {HtNull}
      /\ DOMAIN next = DOMAIN heap /\ \A x \in DOMAIN heap : next[x] = heap[x].next
  BY HtHeapTypes
<1>3. \A j \in HtIndices : /\ Len(chain[j]) \in Nat
                           /\ \A k \in 1 .. Len(chain[j]) : chain[j][k] \in DOMAIN heap
                           /\ table[j] = Nth(chain[j], 1, HtNull)
  BY HtHeapTypes
<1>4. /\ table \in [HtIndices -> HtItems \cup {HtNull}] /\ IsFiniteSet(DOMAIN heap)
      /\ DOMAIN heap \subseteq HtItems
      /\ \A j \in HtIndices : Chain(chain[j], table[j], next, HtNull)
      /\ \A j \in HtIndices : \A k \in 1 .. Len(chain[j]) : get_hash(heap[chain[j][k]].key) = j
      /\ \A x \in DOMAIN heap : Covers(chain[get_hash(heap[x].key)], {x})
      /\ \A x, y \in DOMAIN heap : heap[x].key = heap[y].key => x = y
  BY DEF HtSound
<1>5. IsFiniteSet(DOMAIN heap2)
  <2>1. IsFiniteSet(DOMAIN heap \ {gone})
    BY <1>4, FS_RemoveElement
  <2> QED BY <2>1
<1>6. table2 \in [HtIndices -> HtItems \cup {HtNull}]
      /\ \A j \in HtIndices : table2[j] = IF j = i /\ p = 1 THEN next[table[i]] ELSE table[j]
  <2>1. heap[gone].next \in HtItems \cup {HtNull}
    BY <1>1, <1>2
  <2>2. p = 1 => next[table[i]] = heap[gone].next
    BY <1>1, <1>2, <1>3 DEF Nth
  <2> QED BY <1>4, <2>1, <2>2
<1>7. /\ DOMAIN next2 = DOMAIN heap \ {gone}
      /\ \A x \in DOMAIN heap \ {gone} :
           next2[x] = IF p > 1 /\ x = s[p - 1] THEN next[gone] ELSE next[x]
  <2>1. \A x \in DOMAIN heap \ {gone} : next2[x] = heap2[x].next
    BY DEF HtLinks
  <2> QED BY <1>1, <1>2, <2>1 DEF HtLinks
<1> HIDE DEF next, next2
<1>8. Chain(t, IF p = 1 THEN next[table[i]] ELSE table[i], next2, HtNull)
  <2>1. p > 1 => next2[s[p - 1]] = next[s[p]]
    <3>1. ASSUME p > 1 PROVE p - 1 \in 1 .. Len(s) /\ p - 1 # p
      BY <3>1, <1>1
    <3>2. ASSUME p > 1 PROVE s[p - 1] \in DOMAIN heap \ {gone}
      BY <3>1, <3>2, <1>1 DEF Distinct
    <3> QED BY <3>2, <1>7
  <2>2. ASSUME NEW k \in 1 .. Len(s), k # p, k # p - 1 PROVE next2[s[k]] = next[s[k]]
    <3>1. p > 1 => p - 1 \in 1 .. Len(s)
      BY <1>1
    <3>2. ~(p > 1 /\ s[k] = s[p - 1]) /\ s[k] # gone
      BY <3>1, <2>2, <1>1 DEF Distinct
    <3> QED BY <3>2, <1>1, <1>7
  <2>3. Unlinked(s, p, next, next2)
    BY <1>2, <1>7, <2>1, <2>2 DEF Unlinked
  <2>4. Chain(s, table[i], next, HtNull)
    BY <1>4
  <2> QED BY <2>3, <2>4, ChainMinus
<1>9. ASSUME NEW j \in HtIndices, j # i, NEW k \in 1 .. Len(chain[j])
      PROVE  /\ chain[j][k] \in DOMAIN heap \ {gone}
             /\ next2[chain[j][k]] = next[chain[j][k]]
  <2>1. \A m \in 1 .. Len(s) : chain[j][k] # s[m]
    <3>1. get_hash(heap[chain[j][k]].key) = j /\ \A m \in 1 .. Len(s) : get_hash(heap[s[m]].key) = i
      BY <1>4
    <3> QED BY <3>1, <1>9
  <2>2. p > 1 => p - 1 \in 1 .. Len(s)
    BY <1>1
  <2> QED BY <1>3, <1>7, <2>1, <2>2
<1>10. ASSUME NEW j \in HtIndices PROVE Chain(chain2[j], table2[j], next2, HtNull)
  <2>1. CASE j = i
    BY <1>6, <1>8, <2>1
  <2>2. CASE j # i
    <3> DEFINE r == chain[j]
    <3>1. Chain(r, table[j], next, HtNull)
          /\ \A k \in 1 .. Len(r) : r[k] \in DOMAIN next2 /\ next2[r[k]] = next[r[k]]
      BY <1>4, <1>7, <1>9, <2>2
    <3> HIDE DEF r
    <3>2. Chain(r, table[j], next2, HtNull)
      BY <3>1, ChainKept
    <3> QED BY <1>6, <2>2, <3>2 DEF r
  <2> QED BY <2>1, <2>2
<1>11. /\ t \in Seq(DOMAIN heap \ {gone}) /\ \A k \in 1 .. Len(t) : t[k] \in DOMAIN heap \ {gone}
       /\ \A cells : Covers(s, cells) => Covers(t, cells \ {gone})
  <2>1. t \in Seq(DOMAIN heap \ {gone}) /\ \A cells : Covers(s, cells) => Covers(t, cells \ {s[p]})
    BY <1>1, MinusDistinct
  <2> HIDE DEF t
  <2> QED BY <2>1
<1>12. \A k \in 1 .. Len(t) : \E m \in 1 .. Len(s) : t[k] = s[m]
  BY <1>1, MinusFrom
<1>13. ASSUME NEW j \in HtIndices, NEW k \in 1 .. Len(chain2[j])
       PROVE  get_hash(heap2[chain2[j][k]].key) = j
  <2> HIDE DEF t
  <2>1. CASE j = i
    <3>1. k \in 1 .. Len(t) /\ chain2[j][k] = t[k]
      BY <2>1
    <3>2. PICK m \in 1 .. Len(s) : t[k] = s[m]
      BY <1>12, <3>1
    <3>3. t[k] \in DOMAIN heap \ {gone}
      BY <1>11, <3>1
    <3>4. heap2[t[k]].key = heap[t[k]].key
      BY <3>3
    <3>5. get_hash(heap[s[m]].key) = i
      BY <1>4
    <3> QED BY <2>1, <3>1, <3>2, <3>4, <3>5
  <2>2. CASE j # i
    <3>1. chain2[j] = chain[j]
      BY <2>2
    <3> HIDE DEF chain2
    <3>2. k \in 1 .. Len(chain[j])
      BY <3>1
    <3>3. chain[j][k] \in DOMAIN heap \ {gone}
      BY <1>9, <2>2, <3>2
    <3>4. get_hash(heap[chain[j][k]].key) = j
      BY <1>4, <3>2
    <3> QED BY <3>1, <3>3, <3>4
  <2> QED BY <2>1, <2>2
<1>14. ASSUME NEW x \in DOMAIN heap2 PROVE Covers(chain2[get_hash(heap2[x].key)], {x})
  <2> DEFINE h == get_hash(heap[x].key)
  <2>1. x \in DOMAIN heap \ {gone} /\ heap2[x].key = heap[x].key /\ h \in HtIndices
        /\ Covers(chain[h], {x}) /\ {x} \ {gone} = {x}
    <3>1. x \in DOMAIN heap \ {gone} /\ x \in DOMAIN heap /\ x # gone
      OBVIOUS
    <3>2. heap2[x].key = heap[x].key
      BY <3>1
    <3>3. h \in HtIndices /\ Covers(chain[h], {x})
      BY <1>2, <1>4, <3>1
    <3>4. {x} \ {gone} = {x}
      BY <3>1
    <3> HIDE DEF h
    <3> QED BY <3>1, <3>2, <3>3, <3>4
  <2> HIDE DEF t, h
  <2>2. CASE h = i
    <3>1. Covers(s, {x}) /\ chain2[h] = t
      BY <2>1, <2>2
    <3>2. Covers(t, {x} \ {gone})
      BY <1>11, <3>1
    <3> QED BY <2>1, <3>1, <3>2 DEF h
  <2>3. CASE h # i
    BY <2>1, <2>3 DEF h
  <2> QED BY <2>2, <2>3
<1>15. \A x, y \in DOMAIN heap2 : heap2[x].key = heap2[y].key => x = y
  BY <1>4
<1> HIDE DEF chain2
<1>16. HtSound(chain2, table2, heap2)
  BY <1>4, <1>5, <1>6, <1>10, <1>13, <1>14, <1>15 DEF HtSound, next2
<1> QED BY <1>16

\* The searches of the actions, in the terms of the lemmas.
LEMMA HtSearching ==
  ASSUME NEW chain, HtSound(chain, htTable, htHeap), NEW key \in HtKeys
  PROVE  /\ HtChainOf(key) = chain[get_hash(key)]
         /\ HtPosition(HtChainOf(key), key) \in 0 .. Len(HtChainOf(key))
         /\ ht_search(key) = HtItemAt(HtChainOf(key), HtPosition(HtChainOf(key), key))
         /\ HtPosition(HtChainOf(key), key) = 0 =>
              /\ ht_search(key) = HtNull /\ \A x \in DOMAIN htHeap : htHeap[x].key # key
         /\ HtPosition(HtChainOf(key), key) # 0 =>
              /\ ht_search(key) = HtChainOf(key)[HtPosition(HtChainOf(key), key)]
              /\ ht_search(key) \in DOMAIN htHeap /\ htHeap[ht_search(key)].key = key
<1> DEFINE s == chain[get_hash(key)]
           p == Place(key, HtKeysOf(s, htHeap))
<1>1. /\ p \in 0 .. Len(s) /\ s = Walk(htTable[get_hash(key)], HtLinks(htHeap), HtNull)
      /\ p = 0 => /\ HtLookup(htTable, htHeap, key) = HtNull
                  /\ \A x \in DOMAIN htHeap : htHeap[x].key # key
      /\ p # 0 => /\ HtLookup(htTable, htHeap, key) = s[p]
                  /\ s[p] \in DOMAIN htHeap /\ htHeap[s[p]].key = key
  BY HtSearched
<1>2. s = HtChainOf(key)
  BY <1>1 DEF HtChainOf, HtChain, HtNexts, HtLinks
<1> HIDE DEF s
<1>3. p = HtPosition(HtChainOf(key), key)
  BY <1>2 DEF HtPosition, HtKeysOf
<1>4. ht_search(key) = HtLookup(htTable, htHeap, key)
  BY HtSearchIsLookup
<1>5. ht_search(key) = HtItemAt(HtChainOf(key), HtPosition(HtChainOf(key), key))
  BY DEF ht_search, HtFirstWith
<1> HIDE DEF p
<1> QED BY <1>1, <1>2, <1>3, <1>4, <1>5 DEF s

\* Every operation keeps the invariant and does what a dictionary does.
LEMMA HtPuts ==
  ASSUME HtInv, NEW key \in HtKeys, NEW v \in HtValues, ht_insert(key, v)
  PROVE  HtInv' /\ HtSpecified!Put(key, v)
<1>1. PICK chain : HtSound(chain, htTable, htHeap)
  BY DEF HtInv
<1> DEFINE E == HtEntries
           E2 == HtEntriesIn(htTable', htHeap')
           a == ht_search(key)
<1>2. /\ \A k : k \in DOMAIN E <=> \E x \in DOMAIN htHeap : htHeap[x].key = k
      /\ \A x \in DOMAIN htHeap : E[htHeap[x].key] = htHeap[x].value
  BY <1>1, HtEntriesOf, HtSearchIsLookup
<1>3. HtEntries' = E2 /\ htAnswer' = htAnswer
  BY HtSearchIsLookupAfter DEF ht_insert
<1> DEFINE K == DOMAIN E \cup {key}
           g == [k \in K |-> IF k = key THEN v ELSE E[k]]
<1> HIDE DEF E
<1>4. g = [x \in DOMAIN E \cup {key} |-> IF x = key THEN v ELSE E[x]]
  OBVIOUS
<1>5. \/ a = HtNull /\ \A x \in DOMAIN htHeap : htHeap[x].key # key
      \/ a # HtNull /\ a \in DOMAIN htHeap /\ htHeap[a].key = key
  <2>1. HtNull \notin DOMAIN htHeap
    BY <1>1, HtHeapTypes
  <2> QED BY <1>1, <2>1, HtSearching
<1> HIDE DEF a
<1>6. CASE a # HtNull
  <2>1. htHeap' = [htHeap EXCEPT ![a].value = v] /\ htTable' = htTable
    BY <1>6 DEF ht_insert, a
  <2> DEFINE heap2 == htHeap'
  <2>2. /\ HtSound(chain, htTable, heap2) /\ DOMAIN heap2 = DOMAIN htHeap
        /\ \A x \in DOMAIN htHeap : heap2[x].key = htHeap[x].key
                                    /\ heap2[x].value = IF x = a THEN v ELSE htHeap[x].value
    <3>1. HtRevalues(htHeap, a, v, heap2)
      BY <1>5, <1>6, <2>1 DEF HtRevalues
    <3> HIDE DEF heap2
    <3> QED BY <1>1, <3>1, HtRevalued
  <2>3. \A x, y \in DOMAIN htHeap : htHeap[x].key = htHeap[y].key => x = y
    BY <1>1 DEF HtSound
  <2>4. \A k : k \in K <=> \E x \in DOMAIN heap2 : heap2[x].key = k
    BY <1>2, <1>5, <1>6, <2>2 DEF E
  <2>5. \A x \in DOMAIN heap2 : g[heap2[x].key] = heap2[x].value
    <3>1. ASSUME NEW x \in DOMAIN heap2 PROVE g[heap2[x].key] = heap2[x].value
      <4>1. heap2[x].key \in K /\ x \in DOMAIN htHeap /\ heap2[x].key = htHeap[x].key
        BY <2>2, <2>4
      <4>2. heap2[x].key = key <=> x = a
        BY <1>5, <1>6, <2>3, <4>1
      <4>3. g[heap2[x].key] = IF heap2[x].key = key THEN v ELSE E[heap2[x].key]
        BY <4>1
      <4> QED BY <1>2, <2>2, <4>1, <4>2, <4>3 DEF E
    <3> QED BY <3>1
  <2>6. HtSound(chain, htTable', heap2)
    BY <2>1, <2>2
  <2>8. HtInv'
    BY <2>6 DEF HtInv
  <2>9. E2 = g
    <3>1. HtRecords(g, K, heap2)
      BY <2>4, <2>5 DEF HtRecords
    <3> HIDE DEF heap2, K, g
    <3>2. HtEntriesIn(htTable', heap2) = g
      BY <2>6, <3>1, HtEntriesAre
    <3> QED BY <3>2 DEF heap2
  <2> QED BY <1>3, <1>4, <2>8, <2>9 DEF HtSpecified!Put, E
<1>7. CASE a = HtNull
  <2> DEFINE i == get_hash(key)
             heap2 == htHeap'
             table2 == htTable'
  <2>1. PICK new \in HtItems \ DOMAIN htHeap :
          /\ htHeap' = HtWith(new, [key |-> key, value |-> v, next |-> htTable[i]])
          /\ htTable' = [htTable EXCEPT ![i] = new]
    BY <1>7 DEF ht_insert, a
  <2> DEFINE item == [key |-> key, value |-> v, next |-> htTable[i]]
  <2>2. /\ DOMAIN heap2 = DOMAIN htHeap \cup {new} /\ heap2 = [x \in DOMAIN heap2 |-> heap2[x]]
        /\ heap2[new] = item /\ \A x \in DOMAIN htHeap : heap2[x] = htHeap[x]
    <3>2. heap2 = [x \in DOMAIN htHeap \cup {new} |-> IF x = new THEN item ELSE htHeap[x]]
      BY <2>1 DEF HtWith
    <3> HIDE DEF heap2, item
    <3> QED BY <2>1, <3>2
  <2>3. heap2[new].key = key /\ heap2[new].value = v /\ new \notin DOMAIN htHeap
    BY <2>2
  <2>4. \E chain2 : HtSound(chain2, table2, heap2)
    <3>1. HtAdds(htHeap, htTable, key, v, new, heap2, table2)
      BY <1>5, <1>7, <2>1, <2>2 DEF HtAdds
    <3> HIDE DEF heap2, table2
    <3> QED BY <1>1, <3>1, HtAdded
  <2>5. PICK chain2 : HtSound(chain2, table2, heap2)
    BY <2>4
  <2>6. \A k : k \in K <=> \E x \in DOMAIN heap2 : heap2[x].key = k
    BY <1>2, <2>2, <2>3 DEF E
  <2>7. \A x \in DOMAIN heap2 : g[heap2[x].key] = heap2[x].value
    <3>1. ASSUME NEW x \in DOMAIN heap2 PROVE g[heap2[x].key] = heap2[x].value
      <4>1. heap2[x].key \in K
        BY <2>6
      <4>2. g[heap2[x].key] = IF heap2[x].key = key THEN v ELSE E[heap2[x].key]
        BY <4>1
      <4>3. CASE x = new
        BY <2>3, <4>2, <4>3
      <4>4. CASE x # new
        <5>1. x \in DOMAIN htHeap /\ heap2[x] = htHeap[x] /\ htHeap[x].key # key
          BY <1>5, <1>7, <2>2, <4>4
        <5> QED BY <1>2, <4>2, <5>1 DEF E
      <4> QED BY <4>3, <4>4
    <3> QED BY <3>1
  <2>9. HtInv'
    BY <2>5 DEF HtInv
  <2>10. E2 = g
    <3>1. HtRecords(g, K, heap2)
      BY <2>6, <2>7 DEF HtRecords
    <3> HIDE DEF heap2, table2, K, g
    <3>2. HtEntriesIn(table2, heap2) = g
      BY <2>5, <3>1, HtEntriesAre
    <3> QED BY <3>2 DEF heap2, table2
  <2> QED BY <1>3, <1>4, <2>9, <2>10 DEF HtSpecified!Put, E
<1> QED BY <1>6, <1>7

LEMMA HtGets ==
  ASSUME HtInv, NEW key \in HtKeys, ht_get(key)
  PROVE  HtInv' /\ HtSpecified!Get(key)
<1>1. PICK chain : HtSound(chain, htTable, htHeap)
  BY DEF HtInv
<1>2. /\ \A k : k \in DOMAIN HtEntries <=> \E x \in DOMAIN htHeap : htHeap[x].key = k
      /\ \A x \in DOMAIN htHeap : HtEntries[htHeap[x].key] = htHeap[x].value
  BY <1>1, HtEntriesOf, HtSearchIsLookup
<1>3. /\ htAnswer' = IF ht_search(key) = HtNull THEN HtNull ELSE htHeap[ht_search(key)].value
      /\ UNCHANGED <<htTable, htHeap>>
  BY DEF ht_get
<1>4. HtNull \notin DOMAIN htHeap
  BY <1>1, HtHeapTypes
<1>5. \/ ht_search(key) = HtNull /\ \A x \in DOMAIN htHeap : htHeap[x].key # key
      \/ ht_search(key) # HtNull /\ ht_search(key) \in DOMAIN htHeap /\ htHeap[ht_search(key)].key = key
  BY <1>1, <1>4, HtSearching
<1>6. htAnswer' = IF key \in DOMAIN HtEntries THEN HtEntries[key] ELSE HtNull
  BY <1>2, <1>3, <1>5
<1>7. HtEntries' = HtEntries
  BY <1>3, HtSearchIsLookup, HtSearchIsLookupAfter
<1>8. HtInv'
  BY <1>1, <1>3 DEF HtInv
<1> QED BY <1>6, <1>7, <1>8 DEF HtSpecified!Get

LEMMA HtErases ==
  ASSUME HtInv, NEW key \in HtKeys, ht_delete(key)
  PROVE  HtInv' /\ HtSpecified!Erase(key)
<1>1. PICK chain : HtSound(chain, htTable, htHeap)
  BY DEF HtInv
<1> DEFINE E == HtEntries
           E2 == HtEntriesIn(htTable', htHeap')
           i == get_hash(key)
           s == HtChainOf(key)
           p == HtPosition(s, key)
           gone == s[p]
           heap2 == htHeap'
           table2 == htTable'
<1>2. /\ \A k : k \in DOMAIN E <=> \E x \in DOMAIN htHeap : htHeap[x].key = k
      /\ \A x \in DOMAIN htHeap : E[htHeap[x].key] = htHeap[x].value
  BY <1>1, HtEntriesOf, HtSearchIsLookup
<1>3. HtEntries' = E2 /\ htAnswer' = htAnswer
  BY HtSearchIsLookupAfter DEF ht_delete
<1> HIDE DEF E
<1>4. /\ \/ /\ p = 1
            /\ htTable' = [htTable EXCEPT ![i] = htHeap[gone].next]
            /\ htHeap' = WithoutItem(htHeap, gone)
         \/ /\ p > 1
            /\ htHeap' = WithoutItem([htHeap EXCEPT ![s[p - 1]].next = htHeap[gone].next], gone)
            /\ htTable' = htTable
  BY DEF ht_delete
<1>5. i \in HtIndices /\ s = chain[i] /\ p \in 0 .. Len(s) /\ Len(s) \in Nat
  BY <1>1, HtHashType, HtSearching, HtHeapTypes
<1>6. p \in 1 .. Len(s) /\ p # 0 /\ p \in Int /\ (p > 1 => p - 1 \in 1 .. Len(s) /\ p # 1)
  <2> HIDE DEF s, p
  <2> QED BY <1>4, <1>5
<1>7. gone \in DOMAIN htHeap /\ htHeap[gone].key = key
  BY <1>1, <1>6, HtSearching
<1> HIDE DEF s, p, gone, i
<1>8. /\ \A x \in DOMAIN htHeap : htHeap[x] \in HtItemType /\ htHeap[x].next \in HtItems \cup {HtNull}
      /\ \A k \in 1 .. Len(s) : s[k] \in DOMAIN htHeap
      /\ Distinct(s)
  BY <1>1, <1>5, HtHeapTypes
<1>9. ASSUME NEW x \in DOMAIN htHeap \ {gone}
      PROVE  /\ heap2[x] \in HtItemType /\ heap2[x].key = htHeap[x].key
             /\ heap2[x].value = htHeap[x].value
             /\ heap2[x].next = IF p > 1 /\ x = s[p - 1] THEN htHeap[gone].next ELSE htHeap[x].next
  <2>1. CASE ~(p > 1)
    <3>1. heap2 = [y \in DOMAIN htHeap \ {gone} |-> htHeap[y]]
      BY <1>4, <2>1 DEF WithoutItem, Restrict
    <3> HIDE DEF heap2
    <3> QED BY <1>8, <2>1, <3>1
  <2>2. CASE p > 1
    <3>1. heap2 = [y \in DOMAIN htHeap \ {gone} |->
                     [htHeap EXCEPT ![s[p - 1]].next = htHeap[gone].next][y]]
      BY <1>4, <1>6, <2>2 DEF WithoutItem, Restrict
    <3> HIDE DEF heap2
    <3>2. heap2[x] = [htHeap EXCEPT ![s[p - 1]].next = htHeap[gone].next][x]
      BY <3>1
    <3>3. s[p - 1] \in DOMAIN htHeap
      BY <1>6, <1>8, <2>2
    <3>4. CASE x = s[p - 1]
      <4>1. heap2[x] = [htHeap[x] EXCEPT !.next = htHeap[gone].next]
        BY <3>2, <3>3, <3>4
      <4>2. htHeap[x] \in HtItemType /\ htHeap[gone].next \in HtItems \cup {HtNull}
        BY <1>7, <1>8
      <4> QED BY <2>2, <3>4, <4>1, <4>2 DEF HtItemType
    <3>5. CASE x # s[p - 1]
      <4>1. heap2[x] = htHeap[x]
        BY <3>2, <3>5
      <4> QED BY <1>8, <3>5, <4>1
    <3> QED BY <3>4, <3>5
  <2> QED BY <2>1, <2>2
<1>10. DOMAIN heap2 = DOMAIN htHeap \ {gone} /\ heap2 \in [DOMAIN htHeap \ {gone} -> HtItemType]
  <2>1. heap2 = [y \in DOMAIN htHeap \ {gone} |-> heap2[y]]
    BY <1>4 DEF WithoutItem, Restrict
  <2> HIDE DEF heap2
  <2> QED BY <1>9, <2>1
<1>11. table2 = IF p = 1 THEN [htTable EXCEPT ![i] = htHeap[gone].next] ELSE htTable
  BY <1>4, <1>6
<1>12. \E chain2 : HtSound(chain2, table2, heap2)
  <2>1. HtRemoves(htHeap, htTable, i, s, p, heap2, table2)
    BY <1>5, <1>6, <1>9, <1>10, <1>11 DEF gone, HtRemoves
  <2> HIDE DEF heap2, table2
  <2> QED BY <1>1, <1>5, <2>1, HtRemoved
<1>13. PICK chain2 : HtSound(chain2, table2, heap2)
  BY <1>12
<1> DEFINE K == DOMAIN E \ {key}
           g == [k \in K |-> E[k]]
<1>14. \A x, y \in DOMAIN htHeap : htHeap[x].key = htHeap[y].key => x = y
  BY <1>1 DEF HtSound
<1>15. \A k : k \in K <=> \E x \in DOMAIN heap2 : heap2[x].key = k
  <2> HIDE DEF heap2
  <2>1. ASSUME NEW k, k \in K PROVE \E x \in DOMAIN heap2 : heap2[x].key = k
    BY <1>2, <1>7, <1>9, <1>10, <2>1 DEF E
  <2>2. ASSUME NEW x \in DOMAIN heap2 PROVE heap2[x].key \in K
    BY <1>2, <1>7, <1>9, <1>10, <1>14 DEF E
  <2> QED BY <2>1, <2>2
<1>16. \A x \in DOMAIN heap2 : g[heap2[x].key] = heap2[x].value
  <2> HIDE DEF heap2
  <2>1. ASSUME NEW x \in DOMAIN heap2 PROVE g[heap2[x].key] = heap2[x].value
    <3>1. heap2[x].key \in K /\ x \in DOMAIN htHeap \ {gone}
      BY <1>10, <1>15
    <3>2. g[heap2[x].key] = E[heap2[x].key]
      BY <3>1
    <3> QED BY <1>2, <1>9, <3>1, <3>2 DEF E
  <2> QED BY <2>1
<1>18. HtInv'
  BY <1>13 DEF HtInv
<1>19. E2 = g
  <2>1. HtRecords(g, K, heap2)
    BY <1>15, <1>16 DEF HtRecords
  <2> HIDE DEF heap2, table2, K, g
  <2>2. HtEntriesIn(table2, heap2) = g
    BY <1>13, <2>1, HtEntriesAre
  <2> QED BY <2>2 DEF heap2, table2
<1> QED BY <1>3, <1>18, <1>19 DEF HtSpecified!Erase, HtSpecified!Restrict, Restrict, E

\* The table of ht_init, and of ht_delete_all.
LEMMA HtSoundEmpty ==
  ASSUME NEW table, table = [i \in HtIndices |-> HtNull], NEW heap, heap = [x \in {} |-> HtNull]
  PROVE  /\ \E chain : HtSound(chain, table, heap)
         /\ HtEntriesIn(table, heap) = [k \in {} |-> HtNull]
<1> DEFINE chain == [i \in HtIndices |-> <<>>]
<1>1. DOMAIN heap = {} /\ HtLinks(heap) = [x \in {} |-> HtNull] /\ DOMAIN HtLinks(heap) = {}
  BY DEF HtLinks
<1>2. Chain(<<>>, HtNull, HtLinks(heap), HtNull) /\ IsFiniteSet({}) /\ Len(<<>>) = 0
  <2>1. Len(<<>>) = 0 /\ <<>> \in Seq({}) /\ 1 .. 0 = {}
    OBVIOUS
  <2> QED BY <1>1, <2>1, FS_EmptySet DEF Chain, Distinct, Nth
<1>3. HtSound(chain, table, heap)
  <2>1. heap \in [DOMAIN heap -> HtItemType]
    BY <1>1
  <2> QED BY <1>1, <1>2, <2>1 DEF HtSound
<1> HIDE DEF chain
<1>4. HtEntriesIn(table, heap) = [k \in {} |-> HtNull]
  <2> DEFINE K == {} g == [k \in K |-> HtNull]
  <2>1. HtRecords(g, K, heap)
    BY <1>1 DEF HtRecords
  <2> HIDE DEF g, K
  <2>2. HtEntriesIn(table, heap) = g
    BY <1>3, <2>1, HtEntriesAre
  <2> QED BY <2>2 DEF K, g
<1> QED BY <1>3, <1>4

LEMMA HtErasesAll ==
  ASSUME HtInv, ht_delete_all
  PROVE  HtInv' /\ HtSpecified!EraseAll
<1>1. PICK chain : HtSound(chain, htTable, htHeap)
  BY DEF HtInv
<1>2. \A x \in DOMAIN htHeap : \E i \in HtIndices : x \in ToSet(HtChain(htTable[i]))
  <2>1. ASSUME NEW x \in DOMAIN htHeap PROVE \E i \in HtIndices : x \in ToSet(HtChain(htTable[i]))
    <3> DEFINE i == get_hash(htHeap[x].key)
    <3>1. i \in HtIndices /\ htHeap[x].key \in HtKeys
      BY <1>1, HtHeapTypes
    <3>2. HtChain(htTable[i]) = chain[i]
      BY <1>1, <3>1, HtSearching DEF HtChainOf
    <3>3. \E k \in 1 .. Len(chain[i]) : chain[i][k] = x
      BY <1>1 DEF HtSound, Covers
    <3>4. DOMAIN chain[i] = 1 .. Len(chain[i])
      BY <1>1, <3>1, HtHeapTypes
    <3> QED BY <3>1, <3>2, <3>3, <3>4 DEF ToSet
  <2> QED BY <2>1
<1>3. htHeap' = [x \in {} |-> HtNull] /\ htTable' = [i \in HtIndices |-> HtNull]
      /\ htAnswer' = htAnswer
  <2> DEFINE D == DOMAIN htHeap \ UNION {ToSet(HtChain(htTable[i])) : i \in 0 .. HT_SIZE - 1}
  <2>1. D = {}
    BY <1>2 DEF HtIndices
  <2>2. htHeap' = [x \in D |-> htHeap[x]]
    BY DEF ht_delete_all
  <2> HIDE DEF D
  <2>3. htHeap' = [x \in {} |-> HtNull]
    BY <2>1, <2>2
  <2> QED BY <2>3 DEF ht_delete_all, HtIndices
<1>4. HtInv' /\ HtEntries' = [k \in {} |-> HtNull]
  BY <1>3, HtSoundEmpty, HtSearchIsLookupAfter DEF HtInv
<1> QED BY <1>3, <1>4 DEF HtSpecified!EraseAll

\* The invariant holds at the start and is kept by every step.
LEMMA HtInvInit == HtInit => HtInv /\ HtSpecified!DictionaryInit
<1> SUFFICES ASSUME HtInit PROVE HtInv /\ HtSpecified!DictionaryInit
  OBVIOUS
<1>1. htHeap = [x \in {} |-> HtNull] /\ htTable = [i \in HtIndices |-> HtNull]
  BY DEF HtInit, HtIndices
<1>2. HtInv /\ HtEntries = [k \in {} |-> HtNull]
  BY <1>1, HtSoundEmpty, HtSearchIsLookup DEF HtInv
<1> QED BY <1>2 DEF HtSpecified!DictionaryInit

LEMMA HtInvStep == HtInv /\ [HtNext]_htVars => HtInv'
<1> SUFFICES ASSUME HtInv, [HtNext]_htVars PROVE HtInv'
  OBVIOUS
<1>1. ASSUME NEW key \in HtKeys, NEW value \in HtValues, ht_insert(key, value) PROVE HtInv'
  BY <1>1, HtPuts
<1>2. ASSUME NEW key \in HtKeys, ht_get(key) PROVE HtInv'
  BY <1>2, HtGets
<1>3. ASSUME NEW key \in HtKeys, ht_delete(key) PROVE HtInv'
  BY <1>3, HtErases
<1>4. CASE ht_delete_all
  BY <1>4, HtErasesAll
<1>5. CASE UNCHANGED htVars
  BY <1>5 DEF htVars, HtInv
<1> QED BY <1>1, <1>2, <1>3, <1>4, <1>5 DEF HtNext

\* Two sets with as many members.
LEMMA CountedBy ==
  ASSUME NEW A, IsFiniteSet(A), NEW B, NEW f, \A x \in A : f[x] \in B,
         \A y \in B : \E x \in A : f[x] = y, \A x, y \in A : f[x] = f[y] => x = y
  PROVE  Cardinality(B) = Cardinality(A)
<1> DEFINE h == [x \in A |-> f[x]]
<1>1. h \in Bijection(A, B)
  BY DEF Bijection, Injection, Surjection, IsInjective
<1>2. ExistsBijection(A, B)
  BY <1>1 DEF ExistsBijection
<1> QED BY <1>2, FS_Bijection

\* The state part of HashTableIsDictionary.
LEMMA HtInvHolds ==
  HtInv => /\ \A i \in 0 .. HT_SIZE - 1 : \A x \in ToSet(HtChain(htTable[i])) :
                get_hash(htHeap[x].key) = i
           /\ Cardinality(HtFound) = Cardinality(DOMAIN htHeap)
<1> SUFFICES ASSUME HtInv
             PROVE  /\ \A i \in HtIndices : \A x \in ToSet(HtChain(htTable[i])) :
                         get_hash(htHeap[x].key) = i
                    /\ Cardinality(HtFound) = Cardinality(DOMAIN htHeap)
  BY DEF HtIndices
<1>1. PICK chain : HtSound(chain, htTable, htHeap)
  BY DEF HtInv
<1>2. ASSUME NEW i \in HtIndices, NEW x \in ToSet(HtChain(htTable[i]))
      PROVE  get_hash(htHeap[x].key) = i
  <2>1. /\ DOMAIN HtLinks(htHeap) = DOMAIN htHeap /\ HtNull \notin DOMAIN htHeap
        /\ DOMAIN chain[i] = 1 .. Len(chain[i])
    BY <1>1, HtHeapTypes
  <2>2. /\ Chain(chain[i], htTable[i], HtLinks(htHeap), HtNull) /\ IsFiniteSet(DOMAIN htHeap)
        /\ \A k \in 1 .. Len(chain[i]) : get_hash(htHeap[chain[i][k]].key) = i
    BY <1>1 DEF HtSound
  <2>3. HtChain(htTable[i]) = chain[i]
    <3>1. Walk(htTable[i], HtLinks(htHeap), HtNull) = chain[i]
      BY <2>1, <2>2, WalkOfChain
    <3> QED BY <3>1 DEF HtChain, HtNexts, HtLinks
  <2> QED BY <1>2, <2>1, <2>2, <2>3 DEF ToSet
<1>3. Cardinality(HtFound) = Cardinality(DOMAIN htHeap)
  <2> DEFINE f == [x \in DOMAIN htHeap |-> htHeap[x].key]
             A == DOMAIN htHeap
  <2>1. \A k : k \in HtFound <=> \E x \in A : htHeap[x].key = k
    BY <1>1, HtEntriesOf, HtSearchIsLookup DEF HtEntries
  <2>2. IsFiniteSet(A) /\ \A x, y \in A : htHeap[x].key = htHeap[y].key => x = y
    BY <1>1 DEF HtSound
  <2>3. \A x \in A : f[x] = htHeap[x].key
    OBVIOUS
  <2> HIDE DEF f, A
  <2>4. /\ \A x \in A : f[x] \in HtFound
        /\ \A y \in HtFound : \E x \in A : f[x] = y
        /\ \A x, y \in A : f[x] = f[y] => x = y
    BY <2>1, <2>2, <2>3
  <2>5. Cardinality(HtFound) = Cardinality(A)
    BY <2>2, <2>4, CountedBy
  <2> QED BY <2>5 DEF A
<1> QED BY <1>2, <1>3

\* The hash table of hashtable.c is a dictionary, for every size, hash function,
\* set of keys and number of items: an insertion, search or deletion does to what
\* ht_search finds what the dictionary says, every item stands in the chain of its
\* hash, and no item is beyond reach of a search.
THEOREM HashTableImplementsDictionary == HtSpec => HashTableIsDictionary
<1> DEFINE Whole == /\ \A i \in 0 .. HT_SIZE - 1 : \A x \in ToSet(HtChain(htTable[i])) :
                         get_hash(htHeap[x].key) = i
                    /\ Cardinality(HtFound) = Cardinality(DOMAIN htHeap)
           Does == /\ \A key \in HtKeys :
                        /\ \A value \in HtValues : ht_insert(key, value) => HtSpecified!Put(key, value)
                        /\ ht_get(key) => HtSpecified!Get(key)
                        /\ ht_delete(key) => HtSpecified!Erase(key)
                   /\ ht_delete_all => HtSpecified!EraseAll
<1>1. HtInit => HtInv /\ HtSpecified!DictionaryInit
  BY HtInvInit
<1>2. HtInv /\ [HtNext]_htVars => HtInv'
  BY HtInvStep
<1>3. HtInv => Whole
  BY HtInvHolds
<1>4. HtInv => (htVars' # htVars => Does)
  BY HtPuts, HtGets, HtErases, HtErasesAll
<1> QED BY <1>1, <1>2, <1>3, <1>4, PTL DEF HtSpec, HashTableIsDictionary

-----------------------------------------------------------------------------
(* The clustering *)

\* The objects of a file, and those that are in the square.
CluObjects == [id : Int, x : Int, y : Int]

LEMMA SquareBound ==
  ASSUME NEW d \in Int
  PROVE  /\ d * d \in Nat
         /\ d \in -1000 .. 1000 => d * d <= 1000 * 1000
<1>1. d * d >= 0
  BY SMT
<1>2. ASSUME d \in -1000 .. 1000 PROVE d * d <= 1000 * 1000
  <2>1. (1000 - d) * (1000 + d) >= 0
    BY <1>2, SMT
  <2>2. (1000 - d) * (1000 + d) = 1000 * 1000 - d * d
    BY SMT
  <2> QED BY <2>1, <2>2
<1> QED BY <1>1, <1>2

LEMMA SquareInTheSquare ==
  ASSUME NEW d \in -1000 .. 1000
  PROVE  d * d <= 1000 * 1000
<1>1. d \in Int
  OBVIOUS
<1> QED BY <1>1, SquareBound

InTheSquare(o) == o.x \in 0 .. 1000 /\ o.y \in 0 .. 1000

\* Distances do not depend on the order of the two, and in the square none is
\* greater than where find_neighbours starts.
LEMMA DistanceOfObjects ==
  ASSUME NEW a \in CluObjects, NEW b \in CluObjects
  PROVE  /\ obj_distance(a, b) \in Nat
         /\ obj_distance(a, b) = obj_distance(b, a)
         /\ InTheSquare(a) /\ InTheSquare(b) => obj_distance(a, b) <= FarthestDistance
<1> DEFINE dx == a.x - b.x
           dy == a.y - b.y
<1>1. a.x \in Int /\ b.x \in Int /\ a.y \in Int /\ b.y \in Int
  BY DEF CluObjects
<1>2. dx \in Int /\ dy \in Int /\ b.x - a.x = -dx /\ b.y - a.y = -dy
  BY <1>1
<1>3. obj_distance(a, b) = dx * dx + dy * dy /\ obj_distance(b, a) = (-dx) * (-dx) + (-dy) * (-dy)
  BY <1>2 DEF obj_distance
<1>4. InTheSquare(a) /\ InTheSquare(b) => dx \in -1000 .. 1000 /\ dy \in -1000 .. 1000
  <2>2. SUFFICES ASSUME InTheSquare(a), InTheSquare(b)
                 PROVE  dx \in -1000 .. 1000 /\ dy \in -1000 .. 1000
    OBVIOUS
  <2>3. a.x \in 0 .. 1000 /\ b.x \in 0 .. 1000 /\ a.y \in 0 .. 1000 /\ b.y \in 0 .. 1000
    BY <2>2 DEF InTheSquare
  <2>4. PICK i \in 0 .. 1000 : a.x = i
    BY <2>3
  <2>5. PICK j \in 0 .. 1000 : b.x = j
    BY <2>3
  <2>6. PICK k \in 0 .. 1000 : a.y = k
    BY <2>3
  <2>7. PICK m \in 0 .. 1000 : b.y = m
    BY <2>3
  <2> QED BY <2>4, <2>5, <2>6, <2>7
<1> HIDE DEF dx, dy
<1>5. (-dx) * (-dx) = dx * dx /\ (-dy) * (-dy) = dy * dy
  <2>1. \A d \in Int : (-d) * (-d) = d * d
    BY SMT
  <2> QED BY <2>1, <1>2
<1>6. dx * dx \in Nat /\ dy * dy \in Nat
  BY <1>2, SquareBound
<1>7. InTheSquare(a) /\ InTheSquare(b) => dx * dx <= 1000 * 1000 /\ dy * dy <= 1000 * 1000
  <2>1. ASSUME InTheSquare(a), InTheSquare(b)
        PROVE  dx * dx <= 1000 * 1000 /\ dy * dy <= 1000 * 1000
    <3>1. dx \in -1000 .. 1000 /\ dy \in -1000 .. 1000
      BY <2>1, <1>4
    <3>2. dx * dx <= 1000 * 1000
      BY <3>1, SquareInTheSquare
    <3>3. dy * dy <= 1000 * 1000
      BY <3>1, SquareInTheSquare
    <3> QED BY <3>2, <3>3
  <2> QED BY <2>1
<1> QED BY <1>3, <1>5, <1>6, <1>7 DEF FarthestDistance

\* What Smallest chooses.
LEMMA SmallestIs ==
  ASSUME NEW I \in SUBSET Nat, I # {}
  PROVE  Smallest(I) \in I /\ \A i \in I : Smallest(I) <= i
<1>1. \E i \in I : \A j \in I : i <= j
  BY LeastExists
<1> QED BY <1>1 DEF Smallest

\* The distance of two clusters is that of their nearest objects, or where
\* cluster_distance starts if no two are nearer.
LEMMA DistanceOfClusters ==
  ASSUME NEW A \in Seq(CluObjects), NEW B \in Seq(CluObjects)
  PROVE  /\ cluster_distance(A, B) \in Nat
         /\ cluster_distance(A, B) <= FarthestDistance
         /\ \A i \in 1 .. Len(A), j \in 1 .. Len(B) : cluster_distance(A, B) <= obj_distance(A[i], B[j])
         /\ \/ cluster_distance(A, B) = FarthestDistance
            \/ \E i \in 1 .. Len(A), j \in 1 .. Len(B) : cluster_distance(A, B) = obj_distance(A[i], B[j])
<1> DEFINE D == {FarthestDistance} \cup {obj_distance(A[i], B[j]) : i \in DOMAIN A, j \in DOMAIN B}
<1>1. DOMAIN A = 1 .. Len(A) /\ DOMAIN B = 1 .. Len(B)
  OBVIOUS
<1>2. \A i \in DOMAIN A, j \in DOMAIN B : obj_distance(A[i], B[j]) \in Nat
  <2>1. \A i \in DOMAIN A : A[i] \in CluObjects
    OBVIOUS
  <2>2. \A j \in DOMAIN B : B[j] \in CluObjects
    OBVIOUS
  <2> QED BY <2>1, <2>2, DistanceOfObjects
<1>3. FarthestDistance \in Nat
  BY DEF FarthestDistance
<1>4. D \in SUBSET Nat /\ D # {}
  BY <1>2, <1>3
<1>5. Smallest(D) \in D /\ \A d \in D : Smallest(D) <= d
  <2> HIDE DEF D
  <2> QED BY <1>4, SmallestIs
<1>6. cluster_distance(A, B) = Smallest(D)
  BY DEF cluster_distance
<1>7. FarthestDistance \in D /\ \A i \in DOMAIN A, j \in DOMAIN B : obj_distance(A[i], B[j]) \in D
  OBVIOUS
<1>8. \A d \in D : d = FarthestDistance \/ \E i \in DOMAIN A, j \in DOMAIN B : d = obj_distance(A[i], B[j])
  OBVIOUS
<1>9. cluster_distance(A, B) \in D /\ \A d \in D : cluster_distance(A, B) <= d
  <2> HIDE DEF D
  <2> QED BY <1>5, <1>6
<1> HIDE DEF D
<1>10. cluster_distance(A, B) \in Nat
  BY <1>4, <1>9
<1> QED BY <1>1, <1>7, <1>8, <1>9, <1>10

LEMMA DistanceIsSymmetric ==
  ASSUME NEW A \in Seq(CluObjects), NEW B \in Seq(CluObjects)
  PROVE  cluster_distance(A, B) = cluster_distance(B, A)
<1>1. \A i \in DOMAIN A, j \in DOMAIN B : obj_distance(A[i], B[j]) = obj_distance(B[j], A[i])
  <2>1. (\A i \in DOMAIN A : A[i] \in CluObjects) /\ \A j \in DOMAIN B : B[j] \in CluObjects
    OBVIOUS
  <2> QED BY <2>1, DistanceOfObjects
<1> DEFINE x == cluster_distance(A, B)
           y == cluster_distance(B, A)
<1>2. /\ x \in Nat /\ x <= FarthestDistance
      /\ \A i \in 1 .. Len(A), j \in 1 .. Len(B) : x <= obj_distance(A[i], B[j])
      /\ \/ x = FarthestDistance
         \/ \E i \in 1 .. Len(A), j \in 1 .. Len(B) : x = obj_distance(A[i], B[j])
  BY DistanceOfClusters
<1>3. /\ y \in Nat /\ y <= FarthestDistance
      /\ \A i \in 1 .. Len(B), j \in 1 .. Len(A) : y <= obj_distance(B[i], A[j])
      /\ \/ y = FarthestDistance
         \/ \E i \in 1 .. Len(B), j \in 1 .. Len(A) : y = obj_distance(B[i], A[j])
  BY DistanceOfClusters
<1> HIDE DEF x, y
<1>4. DOMAIN A = 1 .. Len(A) /\ DOMAIN B = 1 .. Len(B) /\ FarthestDistance \in Nat
  BY DEF FarthestDistance
<1>5. x <= y /\ y <= x
  BY <1>1, <1>2, <1>3, <1>4
<1>6. x = y
  BY <1>2, <1>3, <1>5
<1> QED BY <1>6 DEF x, y

\* Sorting is by an order in which any two places can be compared.
LEMMA InFrontIsAnOrder ==
  ASSUME NEW s \in Seq(CluObjects), NEW i \in 1 .. Len(s), NEW j \in 1 .. Len(s), NEW k \in 1 .. Len(s)
  PROVE  /\ ~InFront(s, i, i)
         /\ InFront(s, i, j) /\ InFront(s, j, k) => InFront(s, i, k)
         /\ InFront(s, i, j) \/ InFront(s, j, i) \/ i = j
<1>1. s[i] \in CluObjects /\ s[j] \in CluObjects /\ s[k] \in CluObjects
  OBVIOUS
<1>2. PICK a \in Int : s[i].id = a
  BY <1>1 DEF CluObjects
<1>3. PICK b \in Int : s[j].id = b
  BY <1>1 DEF CluObjects
<1>4. PICK c \in Int : s[k].id = c
  BY <1>1 DEF CluObjects
<1> QED BY <1>2, <1>3, <1>4 DEF InFront

\* Sorting puts every place to a rank of its own.
LEMMA Ranks ==
  ASSUME NEW s \in Seq(CluObjects)
  PROVE  /\ \A k \in 1 .. Len(s) : Rank(s, k) \in 1 .. Len(s)
         /\ \A j, k \in 1 .. Len(s) : InFront(s, j, k) => Rank(s, j) < Rank(s, k)
         /\ \A j, k \in 1 .. Len(s) : Rank(s, j) = Rank(s, k) => j = k
         /\ \A r \in 1 .. Len(s) : \E k \in 1 .. Len(s) : Rank(s, k) = r
<1> DEFINE n == Len(s)
           All == 1 .. n
           Ahead(k) == {j \in All : InFront(s, j, k)}
           rank == [k \in All |-> Cardinality(Ahead(k)) + 1]
<1>1. n \in Nat /\ DOMAIN s = All
  OBVIOUS
<1>2. IsFiniteSet(All) /\ Cardinality(All) = n
  BY <1>1, FS_Interval
<1>3. \A k : Rank(s, k) = Cardinality(Ahead(k)) + 1
  BY <1>1 DEF Rank
<1>4. ASSUME NEW k \in All
      PROVE  IsFiniteSet(Ahead(k)) /\ Cardinality(Ahead(k)) \in 0 .. n - 1
  <2>1. Ahead(k) \subseteq All \ {k}
    BY InFrontIsAnOrder
  <2> HIDE DEF Ahead, All
  <2>2. IsFiniteSet(All \ {k}) /\ Cardinality(All \ {k}) = n - 1
    BY <1>2, FS_RemoveElement
  <2>3. IsFiniteSet(Ahead(k)) /\ Cardinality(Ahead(k)) <= n - 1
    BY <2>1, <2>2, FS_Subset
  <2>4. Cardinality(Ahead(k)) \in Nat
    BY <2>3, FS_CardinalityType, Zenon
  <2> HIDE DEF n
  <2> QED BY <2>3, <2>4, <1>1
<1>5. ASSUME NEW j \in All, NEW k \in All, InFront(s, j, k)
      PROVE  Cardinality(Ahead(j)) < Cardinality(Ahead(k))
  <2>1. \A i \in All : InFront(s, i, j) => InFront(s, i, k)
    BY <1>5, InFrontIsAnOrder
  <2>2. j \in Ahead(k) /\ j \notin Ahead(j)
    BY <1>5, InFrontIsAnOrder
  <2>3. Ahead(j) \subseteq Ahead(k)
    BY <2>1
  <2>4. /\ IsFiniteSet(Ahead(k))
        /\ Cardinality(Ahead(k)) \in Nat /\ Cardinality(Ahead(j)) \in Nat
    <3> HIDE DEF Ahead, n
    <3> QED BY <1>4
  <2> HIDE DEF Ahead
  <2>5. Cardinality(Ahead(j)) <= Cardinality(Ahead(k)) /\ Cardinality(Ahead(k)) # Cardinality(Ahead(j))
    BY <2>2, <2>3, <2>4, FS_Subset
  <2> QED BY <2>4, <2>5
<1>6. ASSUME NEW j \in All, NEW k \in All, Cardinality(Ahead(j)) = Cardinality(Ahead(k))
      PROVE  j = k
  <2>1. Cardinality(Ahead(j)) \in Int /\ Cardinality(Ahead(k)) \in Int
    <3> HIDE DEF Ahead, n
    <3> QED BY <1>4
  <2>2. ~InFront(s, j, k) /\ ~InFront(s, k, j)
    <3> HIDE DEF Ahead
    <3> QED BY <2>1, <1>5, <1>6
  <2> QED BY <2>2, InFrontIsAnOrder
<1> HIDE DEF Ahead
<1>7. rank \in [All -> 1 .. n]
  <2>1. ASSUME NEW k \in All PROVE Cardinality(Ahead(k)) + 1 \in 1 .. n
    <3>1. Cardinality(Ahead(k)) \in 0 .. n - 1
      BY <1>4
    <3> HIDE DEF n
    <3> QED BY <3>1, <1>1
  <2> QED BY <2>1
<1>8. rank \in Injection(All, All)
  <2>1. \A j, k \in All : rank[j] = rank[k] => j = k
    <3>1. ASSUME NEW j \in All, NEW k \in All, rank[j] = rank[k] PROVE j = k
      <4>1. Cardinality(Ahead(j)) + 1 = Cardinality(Ahead(k)) + 1
        BY <3>1
      <4>2. Cardinality(Ahead(j)) \in Int /\ Cardinality(Ahead(k)) \in Int
        BY <1>4
      <4> QED BY <4>1, <4>2, <1>6
    <3> QED BY <3>1
  <2> HIDE DEF rank
  <2> QED BY <1>7, <2>1 DEF Injection, IsInjective
<1>9. rank \in Surjection(All, All)
  <2> HIDE DEF rank, All
  <2> QED BY <1>2, <1>8, FS_Injection, Zenon
<1>10. \A r \in All : \E k \in All : rank[k] = r
  BY <1>9 DEF Surjection
<1>11. \A k \in All : Rank(s, k) = rank[k]
  BY <1>3
<1>12. \A j, k \in All : InFront(s, j, k) => rank[j] < rank[k]
  <2>1. ASSUME NEW j \in All, NEW k \in All, InFront(s, j, k)
        PROVE  Cardinality(Ahead(j)) + 1 < Cardinality(Ahead(k)) + 1
    <3>1. Cardinality(Ahead(j)) < Cardinality(Ahead(k))
      BY <2>1, <1>5
    <3>2. Cardinality(Ahead(j)) \in Int /\ Cardinality(Ahead(k)) \in Int
      BY <1>4
    <3> QED BY <3>1, <3>2
  <2> QED BY <2>1
<1>13. \A j, k \in All : rank[j] = rank[k] => j = k
  BY <1>8 DEF Injection, IsInjective
<1> HIDE DEF rank
<1>14. \A k \in All : rank[k] \in All
  BY <1>7
<1>15. \A k \in All : Rank(s, k) \in All
  BY <1>11, <1>14, Zenon
<1>16. \A j, k \in All : InFront(s, j, k) => Rank(s, j) < Rank(s, k)
  BY <1>11, <1>12
<1>17. \A j, k \in All : Rank(s, j) = Rank(s, k) => j = k
  BY <1>11, <1>13
<1>18. \A r \in All : \E k \in All : Rank(s, k) = r
  <2> HIDE DEF All
  <2>1. \A r \in All : \E k \in All : rank[k] = r
    BY <1>10
  <2> QED BY <2>1, <1>11
<1> QED BY <1>15, <1>16, <1>17, <1>18 DEF All, n

\* What the sorted sequence is: the same objects, by their ids.
SortOf(s, t) ==
  /\ t \in Seq(CluObjects) /\ Len(t) = Len(s) /\ DOMAIN t = 1 .. Len(t)
  /\ \A i \in 1 .. Len(t) : \E k \in 1 .. Len(s) : t[i] = s[k]
  /\ \A k \in 1 .. Len(s) : \E i \in 1 .. Len(t) : t[i] = s[k]
  /\ \A r, q \in 1 .. Len(t) : r < q => t[r].id < t[q].id

LEMMA SortedIs ==
  ASSUME NEW s \in Seq(CluObjects), \A j, k \in 1 .. Len(s) : s[j].id = s[k].id => j = k,
         NEW t, t = Sorted(s)
  PROVE  SortOf(s, t)
<1> DEFINE n == Len(s)
           at == [r \in 1 .. n |-> CHOOSE k \in 1 .. n : Rank(s, k) = r]
<1>1. n \in Nat /\ DOMAIN s = 1 .. n
  OBVIOUS
<1>2. \A r \in 1 .. n : at[r] \in 1 .. n /\ Rank(s, at[r]) = r
  BY Ranks
<1>3. t = [r \in 1 .. n |-> s[at[r]]]
  BY <1>1 DEF Sorted
<1> HIDE DEF at
<1>4. \A r \in 1 .. n : t[r] = s[at[r]] /\ t[r] \in CluObjects
  BY <1>2, <1>3
<1>5. t \in Seq(CluObjects) /\ Len(t) = n /\ DOMAIN t = 1 .. n
  <2>1. t \in [1 .. n -> CluObjects]
    BY <1>3, <1>4
  <2> QED BY <2>1, <1>1
<1>6. \A k \in 1 .. n : Rank(s, k) \in 1 .. n /\ at[Rank(s, k)] = k
  <2>1. \A k \in 1 .. n : Rank(s, k) \in 1 .. n
    BY Ranks
  <2>2. \A j, k \in 1 .. n : Rank(s, j) = Rank(s, k) => j = k
    BY Ranks
  <2> QED BY <1>2, <2>1, <2>2
<1>7. ASSUME NEW r \in 1 .. n, NEW q \in 1 .. n, r < q PROVE t[r].id < t[q].id
  <2> DEFINE j == at[r]
             k == at[q]
  <2>1. j \in 1 .. n /\ k \in 1 .. n /\ Rank(s, j) = r /\ Rank(s, k) = q
    BY <1>2
  <2> HIDE DEF j, k
  <2>2. j # k /\ ~(q < r)
    BY <2>1, <1>7
  <2>3. ~InFront(s, k, j)
    BY <2>1, <2>2, Ranks
  <2>4. InFront(s, j, k)
    BY <2>1, <2>2, <2>3, InFrontIsAnOrder
  <2>5. s[j].id < s[k].id
    BY <2>1, <2>2, <2>4 DEF InFront
  <2> QED BY <2>5, <1>4 DEF j, k
<1>8. \A i \in 1 .. n : \E k \in 1 .. n : t[i] = s[k]
  BY <1>2, <1>4
<1>9. ASSUME NEW k \in 1 .. n PROVE \E i \in 1 .. n : t[i] = s[k]
  <2>1. Rank(s, k) \in 1 .. n /\ t[Rank(s, k)] = s[k]
    BY <1>4, <1>6
  <2> QED BY <2>1
<1> QED BY <1>5, <1>7, <1>8, <1>9 DEF SortOf

\* Counting the pairs of objects with equal ids finds those of equal places only
\* when load_clusters goes on.
LEMMA IdsAreDistinct ==
  ASSUME cluFile \in Seq(CluObjects), DistinctIds
  PROVE  \A i, j \in 1 .. Len(cluFile) : cluFile[i].id = cluFile[j].id => i = j
<1> DEFINE n == Len(cluFile)
           D == 1 .. n
           P == {p \in D \X D : cluFile[p[1]].id = cluFile[p[2]].id}
           f == [i \in D |-> <<i, i>>]
           Same == {p \in D \X D : p[1] = p[2]}
<1>1. n \in Nat /\ DOMAIN cluFile = D
  OBVIOUS
<1>2. IsFiniteSet(D) /\ Cardinality(D) = n
  BY <1>1, FS_Interval
<1>3. Cardinality(P) = n
  BY <1>1 DEF DistinctIds
<1>4. Same \subseteq P /\ P \subseteq D \X D
  OBVIOUS
<1>5. Cardinality(Same) = n
  <2>1. \A i \in D : f[i] \in Same
    OBVIOUS
  <2>2. \A p \in Same : \E i \in D : f[i] = p
    OBVIOUS
  <2>3. \A i, j \in D : f[i] = f[j] => i = j
    OBVIOUS
  <2> HIDE DEF f, D, Same
  <2> QED BY <1>2, <2>1, <2>2, <2>3, CountedBy
<1> HIDE DEF P, Same, D
<1>6. IsFiniteSet(P)
  <2>1. IsFiniteSet(D \X D)
    BY <1>2, FS_Product
  <2> QED BY <2>1, <1>4, FS_Subset
<1>7. Same = P
  BY <1>3, <1>4, <1>5, <1>6, FS_Subset, Zenon
<1>8. ASSUME NEW i \in D, NEW j \in D, cluFile[i].id = cluFile[j].id
      PROVE  i = j
  <2>1. <<i, j>> \in P
    BY <1>8 DEF P
  <2> QED BY <2>1, <1>7 DEF Same
<1> QED BY <1>8 DEF D

\* A set of pairs has a first one.
LEMMA FirstOfPairs ==
  ASSUME NEW I \in SUBSET (Nat \X Nat), I # {},
         NEW p, p = CHOOSE q \in I : \A r \in I : q[1] < r[1] \/ (q[1] = r[1] /\ q[2] <= r[2])
  PROVE  p \in I /\ \A r \in I : p[1] < r[1] \/ (p[1] = r[1] /\ p[2] <= r[2])
<1> DEFINE Firsts == {i \in Nat : \E r \in I : r[1] = i}
<1>1. Firsts \in SUBSET Nat /\ Firsts # {}
  OBVIOUS
<1>2. PICK i \in Firsts : \A j \in Firsts : i <= j
  <2> HIDE DEF Firsts
  <2> QED BY <1>1, LeastExists
<1> DEFINE Seconds == {j \in Nat : <<i, j>> \in I}
<1>3. Seconds \in SUBSET Nat /\ Seconds # {}
  BY <1>2
<1>4. PICK k \in Seconds : \A j \in Seconds : k <= j
  <2> HIDE DEF Seconds
  <2> QED BY <1>3, LeastExists
<1>5. <<i, k>> \in I
  BY <1>4
<1>6. ASSUME NEW r \in I
      PROVE  i < r[1] \/ (i = r[1] /\ k <= r[2])
  <2>1. r[1] \in Firsts /\ r[2] \in Nat /\ r = <<r[1], r[2]>>
    OBVIOUS
  <2>2. i <= r[1]
    BY <1>2, <2>1
  <2>3. i = r[1] => r[2] \in Seconds
    BY <2>1
  <2>4. i = r[1] => k <= r[2]
    BY <1>4, <2>3
  <2>5. i \in Nat /\ r[1] \in Nat
    BY <1>2, <2>1
  <2> QED BY <2>2, <2>4, <2>5
<1>7. \E q \in I : \A r \in I : q[1] < r[1] \/ (q[1] = r[1] /\ q[2] <= r[2])
  <2>1. <<i, k>>[1] = i /\ <<i, k>>[2] = k
    OBVIOUS
  <2> QED BY <1>5, <1>6, <2>1
<1> QED BY <1>7

\* The distance of the clusters at two indexes.
Between(i, j) == cluster_distance(carr[i], carr[j])

\* When some clusters are nearer than the diagonal, find_neighbours returns two of
\* the nearest, the one with the smaller index first.
LEMMA NeighboursAreNearest ==
  ASSUME narr \in Nat, \A i \in 0 .. narr - 1 : carr[i] \in Seq(CluObjects), Nearer # {},
         NEW p, p = find_neighbours
  PROVE  /\ p[1] \in 0 .. narr - 1 /\ p[2] \in 0 .. narr - 1 /\ p[1] < p[2]
         /\ Between(p[1], p[2]) < FarthestDistance
         /\ \A i, j \in 0 .. narr - 1 : i # j => Between(p[1], p[2]) <= Between(i, j)
<1>1. \A i, j \in 0 .. narr - 1 : Between(i, j) \in Nat /\ Between(i, j) = Between(j, i)
  BY DistanceOfClusters, DistanceIsSymmetric DEF Between
<1> DEFINE D == {Between(q[1], q[2]) : q \in Nearer}
           least == Smallest(D)
<1>2. Nearer = {q \in Pairs : Between(q[1], q[2]) < FarthestDistance}
  BY DEF Nearer, Between
<1>3. \A q \in Nearer : q[1] \in 0 .. narr - 1 /\ q[2] \in 0 .. narr - 1 /\ q[1] # q[2] /\ q = <<q[1], q[2]>>
  BY <1>2 DEF Pairs
<1>4. D \in SUBSET Nat /\ D # {}
  BY <1>1, <1>3
<1>5. least \in D /\ \A d \in D : least <= d
  <2> HIDE DEF D
  <2> QED BY <1>4, SmallestIs
<1>6. D = {cluster_distance(carr[q[1]], carr[q[2]]) : q \in Nearer}
  BY DEF Between
<1>7. NearestPairs = {q \in Nearer : Between(q[1], q[2]) = least}
  BY <1>6 DEF NearestPairs, Nearby, Between
<1>8. NearestPairs # {} /\ NearestPairs \in SUBSET (Nat \X Nat)
  <2>1. PICK c \in Nearer : least = Between(c[1], c[2])
    BY <1>5
  <2>2. NearestPairs # {}
    BY <2>1, <1>7
  <2>3. ASSUME NEW q \in NearestPairs PROVE q \in Nat \X Nat
    <3>1. q \in Nearer
      BY <1>7
    <3> QED BY <3>1, <1>3
  <2> QED BY <2>2, <2>3
<1>9. p = CHOOSE q \in NearestPairs : \A r \in NearestPairs : q[1] < r[1] \/ (q[1] = r[1] /\ q[2] <= r[2])
  BY DEF find_neighbours
<1>10. p \in NearestPairs /\ \A r \in NearestPairs : p[1] < r[1] \/ (p[1] = r[1] /\ p[2] <= r[2])
  BY <1>8, <1>9, FirstOfPairs
<1>11. p \in Nearer /\ Between(p[1], p[2]) = least
  BY <1>7, <1>10
<1> HIDE DEF least
<1>12. p[1] \in 0 .. narr - 1 /\ p[2] \in 0 .. narr - 1 /\ p[1] # p[2] /\ Between(p[1], p[2]) < FarthestDistance
  BY <1>2, <1>3, <1>11
<1>13. p[1] < p[2]
  <2> DEFINE q == <<p[2], p[1]>>
  <2>1. q \in Pairs /\ q[1] = p[2] /\ q[2] = p[1]
    BY <1>12 DEF Pairs
  <2>2. Between(q[1], q[2]) = Between(p[1], p[2])
    BY <1>1, <1>12, <2>1
  <2>3. q \in NearestPairs
    BY <1>2, <1>7, <1>11, <1>12, <2>1, <2>2
  <2>4. p[1] < q[1] \/ (p[1] = q[1] /\ p[2] <= q[2])
    BY <1>10, <2>3
  <2> HIDE DEF q
  <2> QED BY <2>1, <2>4, <1>12
<1>14. ASSUME NEW i \in 0 .. narr - 1, NEW j \in 0 .. narr - 1, i # j
       PROVE  Between(p[1], p[2]) <= Between(i, j)
  <2> DEFINE q == <<i, j>>
  <2>1. q \in Pairs /\ q[1] = i /\ q[2] = j
    BY <1>14 DEF Pairs
  <2> HIDE DEF q
  <2>2. CASE Between(i, j) < FarthestDistance
    <3>1. q \in Nearer
      BY <2>1, <2>2, <1>2
    <3>2. Between(i, j) \in D
      BY <3>1, <2>1
    <3> QED BY <3>2, <1>5, <1>11 DEF least
  <2>3. CASE ~(Between(i, j) < FarthestDistance)
    <3>1. Between(i, j) \in Nat /\ Between(p[1], p[2]) \in Nat /\ FarthestDistance \in Nat
      <4>1. FarthestDistance \in Nat
        BY DEF FarthestDistance
      <4> HIDE DEF FarthestDistance
      <4> QED BY <1>1, <1>12, <4>1
    <3> HIDE DEF FarthestDistance
    <3> QED BY <3>1, <2>3, <1>12
  <2> QED BY <2>2, <2>3
<1> QED BY <1>12, <1>13, <1>14

\* What holds of the array: its first n clusters hold the objects of the file,
\* every one in one of them, in the order of their ids.
CluSound(file, arr, n) ==
  /\ n \in 0 .. Len(file)
  /\ DOMAIN arr = 0 .. Len(file) - 1
  /\ arr = [i \in DOMAIN arr |-> arr[i]]
  /\ \A i \in 0 .. n - 1 : arr[i] \in Seq(CluObjects) /\ Len(arr[i]) >= 1
  /\ \A i \in 0 .. n - 1 : \A k \in 1 .. Len(arr[i]) :
       \E m \in 1 .. Len(file) : arr[i][k] = file[m]
  /\ \A m \in 1 .. Len(file) :
       \E i \in 0 .. n - 1 : \E k \in 1 .. Len(arr[i]) : arr[i][k] = file[m]
  /\ \A i, j \in 0 .. n - 1 : \A k \in 1 .. Len(arr[i]), l \in 1 .. Len(arr[j]) :
       arr[i][k].id = arr[j][l].id => i = j
  /\ \A i \in 0 .. n - 1 : \A k, l \in 1 .. Len(arr[i]) : k < l => arr[i][k].id < arr[i][l].id

\* What merge_clusters makes of two clusters without a common id.
IsMerged(A, B, m) ==
  /\ m \in Seq(CluObjects) /\ Len(m) = Len(A) + Len(B)
  /\ \A r, q \in 1 .. Len(m) : r < q => m[r].id < m[q].id
  /\ \A i \in 1 .. Len(m) : \/ \E k \in 1 .. Len(A) : m[i] = A[k]
                            \/ \E k \in 1 .. Len(B) : m[i] = B[k]
  /\ \A k \in 1 .. Len(A) : \E i \in 1 .. Len(m) : m[i] = A[k]
  /\ \A k \in 1 .. Len(B) : \E i \in 1 .. Len(m) : m[i] = B[k]

LEMMA MergedIs ==
  ASSUME NEW A \in Seq(CluObjects), NEW B \in Seq(CluObjects),
         \A i, j \in 1 .. Len(A) : i < j => A[i].id < A[j].id,
         \A i, j \in 1 .. Len(B) : i < j => B[i].id < B[j].id,
         \A i \in 1 .. Len(A), j \in 1 .. Len(B) : A[i].id # B[j].id,
         NEW m, m = merge_clusters(A, B)
  PROVE  IsMerged(A, B, m)
<1> DEFINE s == A \o B
           a == Len(A)
           b == Len(B)
<1>1. /\ s \in Seq(CluObjects) /\ Len(s) = a + b /\ a \in Nat /\ b \in Nat
      /\ \A k \in 1 .. a : s[k] = A[k]
      /\ \A k \in 1 .. a + b : k > a => s[k] = B[k - a]
      /\ \A k \in 1 .. b : s[k + a] = B[k]
  OBVIOUS
<1>2. \A i, j \in 1 .. a : A[i].id = A[j].id => i = j
  <2>1. ASSUME NEW i \in 1 .. a, NEW j \in 1 .. a, A[i].id = A[j].id PROVE i = j
    <3>1. A[i] \in CluObjects /\ A[j] \in CluObjects
      OBVIOUS
    <3>2. PICK x \in Int : A[i].id = x
      BY <3>1 DEF CluObjects
    <3>3. A[j].id = x /\ ~(x < x)
      BY <2>1, <3>2
    <3>4. ~(i < j) /\ ~(j < i)
      <4>1. (i < j => A[i].id < A[j].id) /\ (j < i => A[j].id < A[i].id)
        OBVIOUS
      <4> QED BY <4>1, <3>2, <3>3
    <3> QED BY <3>4
  <2> QED BY <2>1
<1>3. \A i, j \in 1 .. b : B[i].id = B[j].id => i = j
  <2>1. ASSUME NEW i \in 1 .. b, NEW j \in 1 .. b, B[i].id = B[j].id PROVE i = j
    <3>1. B[i] \in CluObjects /\ B[j] \in CluObjects
      OBVIOUS
    <3>2. PICK x \in Int : B[i].id = x
      BY <3>1 DEF CluObjects
    <3>3. B[j].id = x /\ ~(x < x)
      BY <2>1, <3>2
    <3>4. ~(i < j) /\ ~(j < i)
      <4>1. (i < j => B[i].id < B[j].id) /\ (j < i => B[j].id < B[i].id)
        OBVIOUS
      <4> QED BY <4>1, <3>2, <3>3
    <3> QED BY <3>4
  <2> QED BY <2>1
<1> HIDE DEF s, a, b
<1>4. ASSUME NEW j \in 1 .. a + b, NEW k \in 1 .. a + b, s[j].id = s[k].id
      PROVE  j = k
  <2>1. CASE j <= a /\ k <= a
    <3>1. j \in 1 .. a /\ k \in 1 .. a
      BY <2>1, <1>1
    <3>2. A[j].id = A[k].id
      BY <3>1, <1>1, <1>4
    <3> QED BY <3>1, <3>2, <1>2
  <2>2. CASE j <= a /\ k > a
    <3>1. j \in 1 .. a /\ k - a \in 1 .. b
      BY <2>2, <1>1
    <3>2. A[j].id = B[k - a].id
      BY <3>1, <2>2, <1>1, <1>4
    <3> QED BY <3>1, <3>2 DEF a, b
  <2>3. CASE j > a /\ k <= a
    <3>1. k \in 1 .. a /\ j - a \in 1 .. b
      BY <2>3, <1>1
    <3>2. A[k].id = B[j - a].id
      BY <3>1, <2>3, <1>1, <1>4
    <3> QED BY <3>1, <3>2 DEF a, b
  <2>4. CASE j > a /\ k > a
    <3>1. j - a \in 1 .. b /\ k - a \in 1 .. b
      BY <2>4, <1>1
    <3>2. B[j - a].id = B[k - a].id
      BY <2>4, <1>1, <1>4
    <3>3. j - a = k - a
      BY <3>1, <3>2, <1>3
    <3> QED BY <3>3, <1>1
  <2> QED BY <2>1, <2>2, <2>3, <2>4, <1>1
<1>5. m = Sorted(s)
  BY DEF merge_clusters, s
<1>6. /\ m \in Seq(CluObjects) /\ Len(m) = Len(s)
      /\ \A i \in 1 .. Len(m) : \E k \in 1 .. Len(s) : m[i] = s[k]
      /\ \A k \in 1 .. Len(s) : \E i \in 1 .. Len(m) : m[i] = s[k]
      /\ \A r, q \in 1 .. Len(m) : r < q => m[r].id < m[q].id
  <2>1. s \in Seq(CluObjects) /\ \A j, k \in 1 .. Len(s) : s[j].id = s[k].id => j = k
    BY <1>1, <1>4
  <2>2. /\ m \in Seq(CluObjects) /\ Len(m) = Len(s) /\ DOMAIN m = 1 .. Len(m)
        /\ \A i \in 1 .. Len(m) : \E k \in 1 .. Len(s) : m[i] = s[k]
        /\ \A k \in 1 .. Len(s) : \E i \in 1 .. Len(m) : m[i] = s[k]
        /\ \A r, q \in 1 .. Len(m) : r < q => m[r].id < m[q].id
    <3>1. SortOf(s, m)
      BY <2>1, <1>5, SortedIs
    <3> QED BY <3>1 DEF SortOf
  <2> QED BY <2>2, Zenon
<1>7. ASSUME NEW i \in 1 .. Len(m)
      PROVE  (\E k \in 1 .. a : m[i] = A[k]) \/ \E k \in 1 .. b : m[i] = B[k]
  <2>1. PICK k \in 1 .. a + b : m[i] = s[k]
    <3>1. \E k \in 1 .. Len(s) : m[i] = s[k]
      BY <1>6
    <3> QED BY <3>1, <1>1
  <2>2. CASE k <= a
    <3>1. k \in 1 .. a
      BY <2>2, <1>1
    <3>2. m[i] = A[k]
      BY <2>1, <3>1, <1>1
    <3> QED BY <3>1, <3>2
  <2>3. CASE k > a
    <3>1. k - a \in 1 .. b /\ m[i] = B[k - a]
      BY <2>1, <2>3, <1>1
    <3> QED BY <3>1
  <2>4. k <= a \/ k > a
    BY <1>1
  <2> QED BY <2>2, <2>3, <2>4
<1>8. \A k \in 1 .. a : \E i \in 1 .. Len(m) : m[i] = A[k]
  BY <1>1, <1>6
<1>9. ASSUME NEW k \in 1 .. b PROVE \E i \in 1 .. Len(m) : m[i] = B[k]
  <2>1. k + a \in 1 .. Len(s) /\ s[k + a] = B[k]
    BY <1>1
  <2> QED BY <2>1, <1>6
<1> QED BY <1>1, <1>6, <1>7, <1>8, <1>9 DEF a, b, IsMerged

\* Where the clusters are after the one at p2 was appended to the one at p1 and
\* removed.
Moved(p1, p2, i) == IF i = p2 THEN p1 ELSE IF i < p2 THEN i ELSE i - 1

MovesRight(n, p1, p2) ==
  /\ \A i \in 0 .. n - 1 : Moved(p1, p2, i) \in 0 .. n - 2
  /\ \A i \in 0 .. n - 1 : Moved(p1, p2, i) = p1 <=> i \in {p1, p2}
  /\ \A i, j \in 0 .. n - 1 :
       Moved(p1, p2, i) = Moved(p1, p2, j) => i = j \/ (i \in {p1, p2} /\ j \in {p1, p2})
  /\ \A j \in 0 .. n - 2 : \E i \in 0 .. n - 1 : i # p2 /\ Moved(p1, p2, i) = j

LEMMA MovedIs ==
  ASSUME NEW n \in Nat, NEW p1 \in 0 .. n - 1, NEW p2 \in 0 .. n - 1, p1 < p2
  PROVE  MovesRight(n, p1, p2)
<1>1. \A j \in 0 .. n - 2 : \E i \in 0 .. n - 1 : i # p2 /\ Moved(p1, p2, i) = j
  <2>1. SUFFICES ASSUME NEW j \in 0 .. n - 2
                 PROVE  \E i \in 0 .. n - 1 : i # p2 /\ Moved(p1, p2, i) = j
    OBVIOUS
  <2>2. CASE j < p2
    <3>1. j \in 0 .. n - 1 /\ j # p2 /\ Moved(p1, p2, j) = j
      BY <2>2 DEF Moved
    <3> QED BY <3>1
  <2>3. CASE j >= p2
    <3>1. j + 1 \in 0 .. n - 1 /\ j + 1 # p2 /\ Moved(p1, p2, j + 1) = j
      BY <2>3 DEF Moved
    <3> QED BY <3>1
  <2> QED BY <2>2, <2>3
<1> QED BY <1>1 DEF Moved, MovesRight

\* The array after a merge: the two are one, the others stay or move down.
IsMergedArray(arr, n, p1, p2, new) ==
  /\ DOMAIN new = DOMAIN arr /\ new = [i \in DOMAIN new |-> new[i]]
  /\ new[p1] = merge_clusters(arr[p1], arr[p2])
  /\ \A i \in 0 .. n - 1 : i \notin {p1, p2} => new[Moved(p1, p2, i)] = arr[i]

LEMMA MergedArray ==
  ASSUME NEW file, NEW arr, NEW p1, NEW p2, narr \in Nat, CluSound(file, arr, narr), Len(file) \in Nat,
         p1 \in 0 .. narr - 1, p2 \in 0 .. narr - 1, p1 < p2,
         NEW new, new = remove_cluster([arr EXCEPT ![p1] = merge_clusters(arr[p1], arr[p2])], p2)
  PROVE  IsMergedArray(arr, narr, p1, p2, new)
<1> DEFINE M == merge_clusters(arr[p1], arr[p2])
           mid == [arr EXCEPT ![p1] = M]
<1>1. DOMAIN arr = 0 .. Len(file) - 1 /\ narr <= Len(file)
  BY DEF CluSound
<1>2. new = remove_cluster(mid, p2)
  OBVIOUS
<1> HIDE DEF M
<1>3. /\ DOMAIN mid = DOMAIN arr /\ mid[p1] = M
      /\ \A i \in DOMAIN arr : i # p1 => mid[i] = arr[i]
  BY <1>1
<1> HIDE DEF mid
<1>4. new = [i \in DOMAIN mid |->
     IF i < p2 \/ i >= narr THEN mid[i]
     ELSE IF i + 1 \in DOMAIN mid THEN mid[i + 1] ELSE Garbage]
  BY <1>2 DEF remove_cluster
<1>5. DOMAIN new = DOMAIN arr /\ new = [i \in DOMAIN new |-> new[i]]
  BY <1>3, <1>4
<1>6. new[p1] = M
  <2>1. p1 \in DOMAIN mid /\ p1 < p2
    BY <1>1, <1>3
  <2>2. new[p1] = mid[p1]
    BY <2>1, <1>4
  <2> QED BY <2>2, <1>3
<1>7. ASSUME NEW i \in 0 .. narr - 1, i \notin {p1, p2}
      PROVE  new[Moved(p1, p2, i)] = arr[i]
  <2>1. CASE i < p2
    <3>1. i \in DOMAIN mid /\ Moved(p1, p2, i) = i
      BY <2>1, <1>1, <1>3, <1>7 DEF Moved
    <3>2. new[i] = mid[i]
      BY <2>1, <3>1, <1>4
    <3> QED BY <3>1, <3>2, <1>3, <1>7
  <2>2. CASE i > p2
    <3>1. Moved(p1, p2, i) = i - 1 /\ i - 1 \in DOMAIN mid /\ ~(i - 1 < p2) /\ ~(i - 1 >= narr)
      BY <2>2, <1>1, <1>3 DEF Moved
    <3>2. (i - 1) + 1 = i /\ i \in DOMAIN mid
      BY <1>1, <1>3
    <3>3. new[i - 1] = mid[i]
      BY <3>1, <3>2, <1>4
    <3> QED BY <3>1, <3>2, <3>3, <1>3, <1>7
  <2> QED BY <2>1, <2>2, <1>7
<1> QED BY <1>5, <1>6, <1>7 DEF M, IsMergedArray

LEMMA ToSetIs ==
  ASSUME NEW S, NEW s \in Seq(S)
  PROVE  \A x : x \in ToSet(s) <=> \E k \in 1 .. Len(s) : x = s[k]
BY DEF ToSet

\* How the objects of the clusters before and after a merge hang together.
Carried(arr, n, p1, p2, new) ==
  /\ \A i \in 0 .. n - 1 : \A k \in 1 .. Len(arr[i]) :
       \E l \in 1 .. Len(new[Moved(p1, p2, i)]) : new[Moved(p1, p2, i)][l] = arr[i][k]
  /\ \A j \in 0 .. n - 2 : \A l \in 1 .. Len(new[j]) :
       \E i \in 0 .. n - 1 : /\ Moved(p1, p2, i) = j
                             /\ \E k \in 1 .. Len(arr[i]) : new[j][l] = arr[i][k]

LEMMA MergeCarries ==
  ASSUME NEW file, NEW arr, NEW p1, NEW p2, narr \in Nat, CluSound(file, arr, narr), Len(file) \in Nat,
         p1 \in 0 .. narr - 1, p2 \in 0 .. narr - 1, p1 < p2,
         NEW new, new = remove_cluster([arr EXCEPT ![p1] = merge_clusters(arr[p1], arr[p2])], p2)
  PROVE  Carried(arr, narr, p1, p2, new) /\ CluSound(file, new, narr - 1)
<1> DEFINE n == narr
           A == arr[p1]
           B == arr[p2]
           M == merge_clusters(A, B)
           to(i) == Moved(p1, p2, i)
<1>1. /\ n \in 0 .. Len(file) /\ DOMAIN arr = 0 .. Len(file) - 1
      /\ \A i \in 0 .. n - 1 : arr[i] \in Seq(CluObjects) /\ Len(arr[i]) >= 1
      /\ \A i \in 0 .. n - 1 : \A k \in 1 .. Len(arr[i]) :
           \E m \in 1 .. Len(file) : arr[i][k] = file[m]
      /\ \A m \in 1 .. Len(file) :
           \E i \in 0 .. n - 1 : \E k \in 1 .. Len(arr[i]) : arr[i][k] = file[m]
      /\ \A i, j \in 0 .. n - 1 : \A k \in 1 .. Len(arr[i]), l \in 1 .. Len(arr[j]) :
           arr[i][k].id = arr[j][l].id => i = j
      /\ \A i \in 0 .. n - 1 : \A k, l \in 1 .. Len(arr[i]) : k < l => arr[i][k].id < arr[i][l].id
  BY DEF CluSound
<1>2. /\ A \in Seq(CluObjects) /\ B \in Seq(CluObjects) /\ Len(A) >= 1 /\ Len(B) >= 1
      /\ \A i, j \in 1 .. Len(A) : i < j => A[i].id < A[j].id
      /\ \A i, j \in 1 .. Len(B) : i < j => B[i].id < B[j].id
      /\ \A i \in 1 .. Len(A), j \in 1 .. Len(B) : A[i].id # B[j].id
  <2>1. p1 \in 0 .. n - 1 /\ p2 \in 0 .. n - 1 /\ p1 # p2
    OBVIOUS
  <2> HIDE DEF n
  <2>2. A \in Seq(CluObjects) /\ B \in Seq(CluObjects) /\ Len(A) >= 1 /\ Len(B) >= 1
    BY <1>1, <2>1
  <2>3. /\ \A i, j \in 1 .. Len(A) : i < j => A[i].id < A[j].id
        /\ \A i, j \in 1 .. Len(B) : i < j => B[i].id < B[j].id
    BY <1>1, <2>1
  <2>4. \A i \in 1 .. Len(A), j \in 1 .. Len(B) : A[i].id # B[j].id
    BY <1>1, <2>1
  <2> QED BY <2>2, <2>3, <2>4
<1>3. /\ M \in Seq(CluObjects) /\ Len(M) = Len(A) + Len(B)
      /\ \A r, q \in 1 .. Len(M) : r < q => M[r].id < M[q].id
      /\ \A i \in 1 .. Len(M) : \/ \E k \in 1 .. Len(A) : M[i] = A[k]
                                \/ \E k \in 1 .. Len(B) : M[i] = B[k]
      /\ \A k \in 1 .. Len(A) : \E i \in 1 .. Len(M) : M[i] = A[k]
      /\ \A k \in 1 .. Len(B) : \E i \in 1 .. Len(M) : M[i] = B[k]
  <2> HIDE DEF A, B
  <2>1. IsMerged(A, B, M)
    BY <1>2, MergedIs
  <2> HIDE DEF M
  <2> QED BY <2>1 DEF IsMerged
<1>4. /\ DOMAIN new = DOMAIN arr /\ new = [i \in DOMAIN new |-> new[i]]
      /\ new[p1] = M
      /\ \A i \in 0 .. n - 1 : i \notin {p1, p2} => new[to(i)] = arr[i]
  <2>1. IsMergedArray(arr, n, p1, p2, new)
    BY MergedArray
  <2> QED BY <2>1 DEF IsMergedArray
<1>5. /\ \A i \in 0 .. n - 1 : to(i) \in 0 .. n - 2
      /\ \A i \in 0 .. n - 1 : to(i) = p1 <=> i \in {p1, p2}
      /\ \A i \in 0 .. n - 1, j \in 0 .. n - 1 :
           to(i) = to(j) => i = j \/ (i \in {p1, p2} /\ j \in {p1, p2})
      /\ \A j \in 0 .. n - 2 : \E i \in 0 .. n - 1 : i # p2 /\ to(i) = j
  <2>1. MovesRight(n, p1, p2)
    BY MovedIs
  <2> QED BY <2>1 DEF MovesRight
<1> HIDE DEF M, to
<1>6. ASSUME NEW i \in 0 .. n - 1, NEW k \in 1 .. Len(arr[i])
      PROVE  \E l \in 1 .. Len(new[to(i)]) : new[to(i)][l] = arr[i][k]
  <2>1. CASE i = p1
    <3>1. to(i) = p1 /\ new[to(i)] = M /\ arr[i] = A
      BY <2>1, <1>4, <1>5
    <3>2. k \in 1 .. Len(A)
      BY <3>1
    <3>3. \E l \in 1 .. Len(M) : M[l] = A[k]
      BY <3>2, <1>3
    <3> HIDE DEF A
    <3> QED BY <3>1, <3>3
  <2>2. CASE i = p2
    <3>1. to(i) = p1 /\ new[to(i)] = M /\ arr[i] = B
      BY <2>2, <1>4, <1>5
    <3>2. k \in 1 .. Len(B)
      BY <3>1
    <3>3. \E l \in 1 .. Len(M) : M[l] = B[k]
      BY <3>2, <1>3
    <3> HIDE DEF B
    <3> QED BY <3>1, <3>3
  <2>3. CASE i \notin {p1, p2}
    BY <2>3, <1>4
  <2> QED BY <2>1, <2>2, <2>3
<1>7. ASSUME NEW j \in 0 .. n - 2, NEW l \in 1 .. Len(new[j])
      PROVE  \E i \in 0 .. n - 1 : to(i) = j /\ \E k \in 1 .. Len(arr[i]) : new[j][l] = arr[i][k]
  <2>1. PICK i \in 0 .. n - 1 : i # p2 /\ to(i) = j
    BY <1>5
  <2>2. CASE i = p1
    <3>1. new[j] = M /\ j = p1 /\ to(p1) = j /\ to(p2) = j
      BY <2>1, <2>2, <1>4, <1>5
    <3>2. (\E k \in 1 .. Len(A) : new[j][l] = A[k]) \/ \E k \in 1 .. Len(B) : new[j][l] = B[k]
      BY <3>1, <1>3
    <3> QED BY <3>1, <3>2
  <2>3. CASE i # p1
    <3>1. new[j] = arr[i]
      BY <2>1, <2>3, <1>4
    <3>2. new[j][l] = arr[i][l] /\ l \in 1 .. Len(arr[i])
      BY <3>1
    <3> QED BY <3>2, <2>1
  <2> QED BY <2>2, <2>3
<1>8. Carried(arr, n, p1, p2, new)
  BY <1>6, <1>7 DEF Carried, to
<1>9. ASSUME NEW j \in 0 .. n - 2
      PROVE  /\ new[j] \in Seq(CluObjects) /\ Len(new[j]) >= 1
             /\ \A k, l \in 1 .. Len(new[j]) : k < l => new[j][k].id < new[j][l].id
  <2>1. PICK i \in 0 .. n - 1 : i # p2 /\ to(i) = j
    BY <1>5
  <2>2. CASE i = p1
    <3>1. new[j] = M
      BY <2>1, <2>2, <1>4, <1>5
    <3>2. Len(M) >= 1
      <4> HIDE DEF A, B
      <4>1. Len(A) \in Nat /\ Len(B) \in Nat
        BY <1>2
      <4> QED BY <4>1, <1>2, <1>3
    <3>3. \A r, q \in 1 .. Len(M) : r < q => M[r].id < M[q].id
      BY <1>3
    <3> QED BY <3>1, <3>2, <3>3, <1>3
  <2>3. CASE i # p1
    <3>1. new[j] = arr[i]
      BY <2>1, <2>3, <1>4
    <3>2. /\ arr[i] \in Seq(CluObjects) /\ Len(arr[i]) >= 1
          /\ \A k, l \in 1 .. Len(arr[i]) : k < l => arr[i][k].id < arr[i][l].id
      BY <1>1
    <3> QED BY <3>1, <3>2
  <2> QED BY <2>2, <2>3
<1>10. ASSUME NEW j \in 0 .. n - 2, NEW l \in 1 .. Len(new[j])
       PROVE  \E m \in 1 .. Len(file) : new[j][l] = file[m]
  <2>1. PICK i \in 0 .. n - 1 : \E k \in 1 .. Len(arr[i]) : new[j][l] = arr[i][k]
    BY <1>7
  <2>2. PICK k \in 1 .. Len(arr[i]) : new[j][l] = arr[i][k]
    BY <2>1
  <2>3. PICK m \in 1 .. Len(file) : arr[i][k] = file[m]
    BY <1>1
  <2> QED BY <2>2, <2>3
<1>11. ASSUME NEW m \in 1 .. Len(file)
       PROVE  \E j \in 0 .. n - 2 : \E l \in 1 .. Len(new[j]) : new[j][l] = file[m]
  <2>1. PICK i \in 0 .. n - 1 : \E k \in 1 .. Len(arr[i]) : arr[i][k] = file[m]
    BY <1>1
  <2>2. PICK k \in 1 .. Len(arr[i]) : arr[i][k] = file[m]
    BY <2>1
  <2>3. PICK l \in 1 .. Len(new[to(i)]) : new[to(i)][l] = arr[i][k]
    BY <1>6
  <2>4. to(i) \in 0 .. n - 2
    BY <1>5
  <2> QED BY <2>2, <2>3, <2>4
<1>12. ASSUME NEW i \in 0 .. n - 2, NEW j \in 0 .. n - 2,
              NEW k \in 1 .. Len(new[i]), NEW l \in 1 .. Len(new[j]), new[i][k].id = new[j][l].id
       PROVE  i = j
  <2>1. PICK x \in 0 .. n - 1 : to(x) = i /\ \E h \in 1 .. Len(arr[x]) : new[i][k] = arr[x][h]
    BY <1>7
  <2>2. PICK y \in 0 .. n - 1 : to(y) = j /\ \E h \in 1 .. Len(arr[y]) : new[j][l] = arr[y][h]
    BY <1>7
  <2>3. PICK h \in 1 .. Len(arr[x]) : new[i][k] = arr[x][h]
    BY <2>1
  <2>4. PICK g \in 1 .. Len(arr[y]) : new[j][l] = arr[y][g]
    BY <2>2
  <2>5. arr[x][h].id = arr[y][g].id
    BY <1>12, <2>3, <2>4
  <2>6. x = y
    BY <2>5, <1>1
  <2> QED BY <2>1, <2>2, <2>6
<1>13. n - 1 \in 0 .. Len(file) /\ 0 .. (n - 1) - 1 = 0 .. n - 2
  <2>1. n \in 0 .. Len(file)
    BY <1>1
  <2>2. n \in Nat /\ n >= 1
    OBVIOUS
  <2> HIDE DEF n
  <2> QED BY <2>1, <2>2
<1> HIDE DEF n
<1>14. CluSound(file, new, n - 1)
  <2> DEFINE J == 0 .. (n - 1) - 1
  <2>1. J = 0 .. n - 2
    BY <1>13
  <2> HIDE DEF J
  <2>2. /\ \A i \in J : new[i] \in Seq(CluObjects) /\ Len(new[i]) >= 1
        /\ \A i \in J : \A k, l \in 1 .. Len(new[i]) : k < l => new[i][k].id < new[i][l].id
    BY <1>9, <2>1
  <2>3. \A i \in J : \A k \in 1 .. Len(new[i]) : \E m \in 1 .. Len(file) : new[i][k] = file[m]
    BY <1>10, <2>1
  <2>4. \A m \in 1 .. Len(file) :
          \E i \in J : \E k \in 1 .. Len(new[i]) : new[i][k] = file[m]
    BY <1>11, <2>1
  <2>5. \A i, j \in J : \A k \in 1 .. Len(new[i]), l \in 1 .. Len(new[j]) :
          new[i][k].id = new[j][l].id => i = j
    BY <1>12, <2>1
  <2>6. DOMAIN new = 0 .. Len(file) - 1
    BY <1>1, <1>4
  <2> QED BY <2>2, <2>3, <2>4, <2>5, <2>6, <1>4, <1>13, Zenon DEF CluSound, J
<1> QED BY <1>8, <1>14 DEF n

\* The classes of a sound array are as many as its clusters and have all objects.
CluCounted(file, arr, n) ==
  /\ \A i, j \in 0 .. n - 1 : ToSet(arr[i]) = ToSet(arr[j]) => i = j
  /\ Cardinality({ToSet(arr[i]) : i \in 0 .. n - 1}) = n
  /\ UNION {ToSet(arr[i]) : i \in 0 .. n - 1} = ToSet(file)

LEMMA ClassesCounted ==
  ASSUME NEW file \in Seq(CluObjects), NEW arr, NEW n, CluSound(file, arr, n)
  PROVE  CluCounted(file, arr, n)
<1> DEFINE I == 0 .. n - 1
           S(i) == ToSet(arr[i])
           f == [i \in I |-> S(i)]
           B == {S(i) : i \in I}
<1>1. /\ n \in 0 .. Len(file)
      /\ \A i \in I : arr[i] \in Seq(CluObjects) /\ Len(arr[i]) >= 1
      /\ \A i \in I : \A k \in 1 .. Len(arr[i]) : \E m \in 1 .. Len(file) : arr[i][k] = file[m]
      /\ \A m \in 1 .. Len(file) : \E i \in I : \E k \in 1 .. Len(arr[i]) : arr[i][k] = file[m]
      /\ \A i, j \in I : \A k \in 1 .. Len(arr[i]), l \in 1 .. Len(arr[j]) :
           arr[i][k].id = arr[j][l].id => i = j
  BY DEF CluSound
<1>2. \A i \in I : \A x : x \in S(i) <=> \E k \in 1 .. Len(arr[i]) : x = arr[i][k]
  <2>1. \A i \in I : arr[i] \in Seq(CluObjects)
    BY <1>1
  <2> QED BY <2>1, ToSetIs
<1>3. \A x : x \in ToSet(file) <=> \E m \in 1 .. Len(file) : x = file[m]
  BY ToSetIs
<1> HIDE DEF S
<1>4. ASSUME NEW i \in I, NEW j \in I, S(i) = S(j)
      PROVE  i = j
  <2>1. 1 \in 1 .. Len(arr[i])
    BY <1>1
  <2>2. arr[i][1] \in S(j)
    BY <2>1, <1>2, <1>4
  <2>3. PICK k \in 1 .. Len(arr[j]) : arr[i][1] = arr[j][k]
    BY <2>2, <1>2
  <2>4. arr[i][1].id = arr[j][k].id
    BY <2>3
  <2> QED BY <2>1, <2>4, <1>1
<1>5. UNION B = ToSet(file)
  <2>1. ASSUME NEW x \in UNION B PROVE x \in ToSet(file)
    <3>1. PICK i \in I : x \in S(i)
      OBVIOUS
    <3>2. PICK k \in 1 .. Len(arr[i]) : x = arr[i][k]
      BY <3>1, <1>2
    <3>3. PICK m \in 1 .. Len(file) : arr[i][k] = file[m]
      BY <1>1
    <3> QED BY <3>2, <3>3, <1>3
  <2>2. ASSUME NEW x \in ToSet(file) PROVE x \in UNION B
    <3>1. PICK m \in 1 .. Len(file) : x = file[m]
      BY <1>3
    <3>2. PICK i \in I : \E k \in 1 .. Len(arr[i]) : arr[i][k] = file[m]
      BY <1>1
    <3>3. x \in S(i)
      BY <3>1, <3>2, <1>2
    <3> QED BY <3>3
  <2> HIDE DEF B
  <2> QED BY <2>1, <2>2
<1>6. Cardinality(B) = n
  <2>1. IsFiniteSet(I) /\ Cardinality(I) = n
    <3>1. n \in Nat
      BY <1>1
    <3>2. IsFiniteSet(0 .. n - 1) /\ Cardinality(0 .. n - 1) = IF 0 > n - 1 THEN 0 ELSE (n - 1) - 0 + 1
      <4>1. 0 \in Int /\ n - 1 \in Int
        BY <3>1
      <4> QED BY <4>1, FS_Interval
    <3> QED BY <3>1, <3>2
  <2>2. \A i \in I : f[i] \in B
    OBVIOUS
  <2>3. \A y \in B : \E i \in I : f[i] = y
    OBVIOUS
  <2>4. \A i, j \in I : f[i] = f[j] => i = j
    BY <1>4
  <2> HIDE DEF f, B, I
  <2>5. Cardinality(B) = Cardinality(I)
    BY <2>1, <2>2, <2>3, <2>4, CountedBy
  <2> QED BY <2>1, <2>5
<1> QED BY <1>4, <1>5, <1>6 DEF CluCounted, S

\* A merge unites the classes of the two and leaves the others as they are.
United(arr, n, p1, p2, new) ==
  {ToSet(new[j]) : j \in 0 .. n - 2}
    = ({ToSet(arr[i]) : i \in 0 .. n - 1} \ {ToSet(arr[p1]), ToSet(arr[p2])})
        \cup {ToSet(arr[p1]) \cup ToSet(arr[p2])}

LEMMA ClassesUnited ==
  ASSUME NEW file \in Seq(CluObjects), NEW arr, NEW n \in Nat, NEW p1, NEW p2, NEW new,
         CluSound(file, arr, n), CluSound(file, new, n - 1), Carried(arr, n, p1, p2, new),
         p1 \in 0 .. n - 1, p2 \in 0 .. n - 1, p1 < p2
  PROVE  United(arr, n, p1, p2, new)
<1> DEFINE I == 0 .. n - 1
           J == 0 .. n - 2
           S(i) == ToSet(arr[i])
           T(j) == ToSet(new[j])
           to(i) == Moved(p1, p2, i)
<1>1. MovesRight(n, p1, p2)
  BY MovedIs
<1>2. /\ \A i \in I : to(i) \in J
      /\ \A i \in I : to(i) = p1 <=> i \in {p1, p2}
      /\ \A i, j \in I : to(i) = to(j) => i = j \/ (i \in {p1, p2} /\ j \in {p1, p2})
      /\ \A j \in J : \E i \in I : i # p2 /\ to(i) = j
  BY <1>1 DEF MovesRight
<1>3. \A i \in I : \A x : x \in S(i) <=> \E k \in 1 .. Len(arr[i]) : x = arr[i][k]
  <2>1. \A i \in I : arr[i] \in Seq(CluObjects)
    BY DEF CluSound
  <2> QED BY <2>1, ToSetIs
<1>4. \A j \in J : \A x : x \in T(j) <=> \E l \in 1 .. Len(new[j]) : x = new[j][l]
  <2>1. \A j \in 0 .. (n - 1) - 1 : new[j] \in Seq(CluObjects)
    BY DEF CluSound
  <2>2. \A j \in J : new[j] \in Seq(CluObjects)
    BY <2>1
  <2> QED BY <2>2, ToSetIs
<1>5. /\ \A i \in I : \A k \in 1 .. Len(arr[i]) : \E l \in 1 .. Len(new[to(i)]) : new[to(i)][l] = arr[i][k]
      /\ \A j \in J : \A l \in 1 .. Len(new[j]) :
           \E i \in I : to(i) = j /\ \E k \in 1 .. Len(arr[i]) : new[j][l] = arr[i][k]
  BY DEF Carried
<1>6. \A i, j \in I : S(i) = S(j) => i = j
  BY ClassesCounted DEF CluCounted
<1> HIDE DEF S, T, to
<1>7. ASSUME NEW i \in I, NEW x \in S(i) PROVE x \in T(to(i))
  <2>1. PICK k \in 1 .. Len(arr[i]) : x = arr[i][k]
    BY <1>3
  <2>2. to(i) \in J /\ \E l \in 1 .. Len(new[to(i)]) : new[to(i)][l] = x
    BY <2>1, <1>2, <1>5
  <2> QED BY <2>2, <1>4
<1>8. ASSUME NEW j \in J, NEW x \in T(j) PROVE \E i \in I : to(i) = j /\ x \in S(i)
  <2>1. PICK l \in 1 .. Len(new[j]) : x = new[j][l]
    BY <1>4
  <2>2. PICK i \in I : to(i) = j /\ \E k \in 1 .. Len(arr[i]) : new[j][l] = arr[i][k]
    BY <1>5
  <2>3. x \in S(i)
    BY <2>1, <2>2, <1>3
  <2> QED BY <2>2, <2>3
<1> HIDE DEF I, J
<1>p. p1 \in I /\ p2 \in I /\ p1 # p2
  BY DEF I
<1>9. to(p1) = p1 /\ to(p2) = p1 /\ p1 \in J
  BY <1>p, <1>2
<1>10. T(p1) = S(p1) \cup S(p2)
  <2>1. \A x \in T(p1) : x \in S(p1) \cup S(p2)
    <3>1. ASSUME NEW x \in T(p1) PROVE x \in S(p1) \cup S(p2)
      <4>1. PICK i \in I : to(i) = p1 /\ x \in S(i)
        BY <1>8, <1>9
      <4>2. i \in {p1, p2}
        BY <4>1, <1>2
      <4> QED BY <4>1, <4>2
    <3> QED BY <3>1
  <2>2. \A x \in S(p1) \cup S(p2) : x \in T(p1)
    BY <1>7, <1>9, <1>p
  <2> QED BY <2>1, <2>2
<1>11. ASSUME NEW i \in I, i \notin {p1, p2} PROVE T(to(i)) = S(i)
  <2>1. \A x \in S(i) : x \in T(to(i))
    BY <1>7
  <2>2. ASSUME NEW x \in T(to(i)) PROVE x \in S(i)
    <3>1. PICK h \in I : to(h) = to(i) /\ x \in S(h)
      BY <1>2, <1>8
    <3>2. h = i
      BY <3>1, <1>2, <1>11
    <3> QED BY <3>1, <3>2
  <2> QED BY <2>1, <2>2
<1>12. ASSUME NEW j \in J
       PROVE  T(j) \in ({S(i) : i \in I} \ {S(p1), S(p2)}) \cup {S(p1) \cup S(p2)}
  <2>1. PICK i \in I : i # p2 /\ to(i) = j
    BY <1>2
  <2>2. CASE i = p1
    BY <2>1, <2>2, <1>9, <1>10
  <2>3. CASE i # p1
    <3>1. T(j) = S(i)
      BY <2>1, <2>3, <1>11
    <3>2. S(i) # S(p1) /\ S(i) # S(p2)
      BY <2>1, <2>3, <1>6, <1>p
    <3> QED BY <3>1, <3>2
  <2> QED BY <2>2, <2>3
<1>13. ASSUME NEW X \in ({S(i) : i \in I} \ {S(p1), S(p2)}) \cup {S(p1) \cup S(p2)}
       PROVE  X \in {T(j) : j \in J}
  <2>1. CASE X = S(p1) \cup S(p2)
    BY <2>1, <1>9, <1>10
  <2>2. CASE X # S(p1) \cup S(p2)
    <3>1. PICK i \in I : X = S(i) /\ i \notin {p1, p2}
      BY <2>2
    <3>2. X = T(to(i)) /\ to(i) \in J
      BY <3>1, <1>2, <1>11
    <3> QED BY <3>2
  <2> QED BY <2>1, <2>2
<1>14. {T(j) : j \in J} = ({S(i) : i \in I} \ {S(p1), S(p2)}) \cup {S(p1) \cup S(p2)}
  <2>1. \A X \in {T(j) : j \in J} : X \in ({S(i) : i \in I} \ {S(p1), S(p2)}) \cup {S(p1) \cup S(p2)}
    BY <1>12
  <2>2. \A X \in ({S(i) : i \in I} \ {S(p1), S(p2)}) \cup {S(p1) \cup S(p2)} : X \in {T(j) : j \in J}
    BY <1>13
  <2> QED BY <2>1, <2>2
<1> QED BY <1>14 DEF S, T, I, J, United

\* The invariant.  The indexes an earlier iteration left are in their order, so a
\* pair that is taken again is still a pair of two clusters.
CluInv ==
  /\ cluFile \in CluFiles /\ cluArgument \in CluArguments
  /\ narr = -1 \/ CluSound(cluFile, carr, narr)
  /\ cluC1 \in Nat /\ cluC2 \in Nat
  /\ (cluC1 = 0 /\ cluC2 = 0) \/ cluC1 < cluC2
  /\ cluEnd = Printed_ => narr = cluArgument

\* The least distance of all objects in different clusters is one of p1's and
\* p2's.
NearestIn(arr, n, p1, p2) ==
  \E a \in 1 .. Len(arr[p1]), b \in 1 .. Len(arr[p2]) :
    \A i, j \in 0 .. n - 1 : i # j =>
      \A k \in 1 .. Len(arr[i]), l \in 1 .. Len(arr[j]) :
        obj_distance(arr[p1][a], arr[p2][b]) <= obj_distance(arr[i][k], arr[j][l])

LEMMA FilesAreOfObjects ==
  ASSUME cluFile \in CluFiles
  PROVE  cluFile \in Seq(CluObjects) /\ Len(cluFile) \in Nat
<1>1. cluFile \in Seq(CluObjects)
  BY ClustersAssumption DEF CluObjects
<1> QED BY <1>1

\* The pair that is united, a stale one included, is nearest: a stale one is taken
\* only if no two clusters are nearer than the diagonal, and in the square none are
\* farther.
LEMMA ChosenPair ==
  ASSUME CluInv, narr # -1, NEW p, p = find_neighbours, p[1] # p[2], p[2] < narr
  PROVE  /\ p[1] \in 0 .. narr - 1 /\ p[2] \in 0 .. narr - 1 /\ p[1] < p[2]
         /\ InSquare => NearestIn(carr, narr, p[1], p[2])
<1> DEFINE I == 0 .. narr - 1
<1>1. /\ narr \in Nat
      /\ \A i \in I : carr[i] \in Seq(CluObjects) /\ Len(carr[i]) >= 1
      /\ \A i \in I : \A k \in 1 .. Len(carr[i]) : \E m \in 1 .. Len(cluFile) : carr[i][k] = cluFile[m]
  BY FilesAreOfObjects DEF CluInv, CluSound
<1>2. p[1] \in I /\ p[2] \in I /\ p[1] < p[2]
  <2>1. CASE Nearer = {}
    <3>1. p = <<cluC1, cluC2>>
      BY <2>1 DEF find_neighbours
    <3>2. p[1] = cluC1 /\ p[2] = cluC2
      BY <3>1
    <3>3. cluC1 \in Nat /\ cluC2 \in Nat /\ cluC1 < cluC2 /\ cluC2 < narr
      BY <3>2 DEF CluInv
    <3> QED BY <3>2, <3>3, <1>1
  <2>2. CASE Nearer # {}
    BY <2>2, <1>1, NeighboursAreNearest
  <2> QED BY <2>1, <2>2
<1>3. \A i, j \in I : /\ Between(i, j) \in Nat /\ Between(i, j) <= FarthestDistance
                      /\ \A k \in 1 .. Len(carr[i]), l \in 1 .. Len(carr[j]) :
                           Between(i, j) <= obj_distance(carr[i][k], carr[j][l])
  BY <1>1, DistanceOfClusters DEF Between
<1>4. \A i, j \in I : \A k \in 1 .. Len(carr[i]), l \in 1 .. Len(carr[j]) :
         obj_distance(carr[i][k], carr[j][l]) \in Nat
  <2>1. \A i \in I : \A k \in 1 .. Len(carr[i]) : carr[i][k] \in CluObjects
    BY <1>1
  <2> QED BY <2>1, DistanceOfObjects
<1>5. FarthestDistance \in Nat
  BY DEF FarthestDistance
<1> HIDE DEF I
<1>6. ASSUME InSquare, Nearer = {}
      PROVE  NearestIn(carr, narr, p[1], p[2])
  <2>1. 1 \in 1 .. Len(carr[p[1]]) /\ 1 \in 1 .. Len(carr[p[2]])
    BY <1>1, <1>2
  <2> DEFINE d == obj_distance(carr[p[1]][1], carr[p[2]][1])
  <2>2. d \in Nat /\ d <= FarthestDistance
    <3>1. \A i \in I : \A k \in 1 .. Len(carr[i]) : InTheSquare(carr[i][k]) /\ carr[i][k] \in CluObjects
      <4>1. ASSUME NEW i \in I, NEW k \in 1 .. Len(carr[i])
            PROVE  InTheSquare(carr[i][k]) /\ carr[i][k] \in CluObjects
        <5>1. PICK m \in 1 .. Len(cluFile) : carr[i][k] = cluFile[m]
          BY <1>1
        <5>2. cluFile \in Seq(CluObjects) /\ m \in DOMAIN cluFile
          BY FilesAreOfObjects DEF CluInv
        <5>3. InTheSquare(cluFile[m])
          BY <1>6, <5>2 DEF InSquare, InTheSquare
        <5>4. cluFile[m] \in CluObjects
          BY <5>2
        <5> QED BY <5>1, <5>3, <5>4
      <4> QED BY <4>1
    <3> QED BY <3>1, <2>1, <1>2, DistanceOfObjects
  <2>3. ASSUME NEW i \in I, NEW j \in I, i # j PROVE Between(i, j) = FarthestDistance
    <3>1. <<i, j>> \in Pairs
      BY <2>3 DEF Pairs, I
    <3>2. ~(Between(i, j) < FarthestDistance)
      BY <3>1, <1>6 DEF Nearer, Between
    <3> HIDE DEF FarthestDistance
    <3> QED BY <3>2, <1>3, <1>5
  <2>4. ASSUME NEW i \in I, NEW j \in I, i # j, NEW k \in 1 .. Len(carr[i]), NEW l \in 1 .. Len(carr[j])
        PROVE  d <= obj_distance(carr[i][k], carr[j][l])
    <3>1. FarthestDistance <= obj_distance(carr[i][k], carr[j][l])
      BY <2>3, <2>4, <1>3
    <3>2. obj_distance(carr[i][k], carr[j][l]) \in Nat
      BY <1>4
    <3> HIDE DEF d, FarthestDistance
    <3> QED BY <3>1, <3>2, <2>2, <1>5
  <2> QED BY <2>1, <2>4, Zenon DEF NearestIn, I
<1>7. ASSUME Nearer # {}
      PROVE  NearestIn(carr, narr, p[1], p[2])
  <2>1. /\ Between(p[1], p[2]) < FarthestDistance
        /\ \A i, j \in I : i # j => Between(p[1], p[2]) <= Between(i, j)
    BY <1>1, <1>7, NeighboursAreNearest DEF I
  <2>2. \E a \in 1 .. Len(carr[p[1]]), b \in 1 .. Len(carr[p[2]]) :
          Between(p[1], p[2]) = obj_distance(carr[p[1]][a], carr[p[2]][b])
    <3>1. \/ Between(p[1], p[2]) = FarthestDistance
          \/ \E a \in 1 .. Len(carr[p[1]]), b \in 1 .. Len(carr[p[2]]) :
               Between(p[1], p[2]) = obj_distance(carr[p[1]][a], carr[p[2]][b])
      <4>1. carr[p[1]] \in Seq(CluObjects) /\ carr[p[2]] \in Seq(CluObjects)
        BY <1>1, <1>2
      <4> QED BY <4>1, DistanceOfClusters DEF Between
    <3> HIDE DEF FarthestDistance
    <3>2. Between(p[1], p[2]) # FarthestDistance
      BY <2>1, <1>2, <1>3, <1>5
    <3> QED BY <3>1, <3>2
  <2>3. PICK a \in 1 .. Len(carr[p[1]]), b \in 1 .. Len(carr[p[2]]) :
          Between(p[1], p[2]) = obj_distance(carr[p[1]][a], carr[p[2]][b])
    BY <2>2
  <2>4. ASSUME NEW i \in I, NEW j \in I, i # j, NEW k \in 1 .. Len(carr[i]), NEW l \in 1 .. Len(carr[j])
        PROVE  obj_distance(carr[p[1]][a], carr[p[2]][b]) <= obj_distance(carr[i][k], carr[j][l])
    <3>1. Between(p[1], p[2]) <= Between(i, j) /\ Between(i, j) <= obj_distance(carr[i][k], carr[j][l])
      BY <2>1, <2>4, <1>3
    <3>2. Between(p[1], p[2]) \in Nat /\ Between(i, j) \in Nat /\ obj_distance(carr[i][k], carr[j][l]) \in Nat
      BY <1>2, <1>3, <1>4
    <3> QED BY <3>1, <3>2, <2>3
  <2> QED BY <2>4, Zenon DEF NearestIn, I
<1> QED BY <1>2, <1>6, <1>7 DEF I

\* An iteration that unites keeps the array sound and does what SingleLinkage does.
LEMMA UnitesTheNearest ==
  ASSUME CluInv, narr # -1, NEW p, p = find_neighbours, p[1] # p[2], p[2] < narr,
         carr' = remove_cluster([carr EXCEPT ![p[1]] = merge_clusters(carr[p[1]], carr[p[2]])], p[2]),
         narr' = narr - 1
  PROVE  /\ CluSound(cluFile, carr', narr')
         /\ InSquare => Linkage!Unite
<1> DEFINE I == 0 .. narr - 1
           S(i) == ToSet(carr[i])
           Classes == {S(i) : i \in I}
           A == S(p[1])
           B == S(p[2])
<1>1. /\ narr \in Nat /\ CluSound(cluFile, carr, narr)
      /\ cluFile \in Seq(CluObjects) /\ Len(cluFile) \in Nat
      /\ \A i \in I : carr[i] \in Seq(CluObjects)
  BY FilesAreOfObjects DEF CluInv, CluSound
<1>2. /\ p[1] \in I /\ p[2] \in I /\ p[1] < p[2]
      /\ InSquare => NearestIn(carr, narr, p[1], p[2])
  BY ChosenPair
<1>3. Carried(carr, narr, p[1], p[2], carr') /\ CluSound(cluFile, carr', narr - 1)
  BY <1>1, <1>2, MergeCarries
<1>4. {ToSet(carr'[j]) : j \in 0 .. narr - 2} = (Classes \ {A, B}) \cup {A \cup B}
  <2> DEFINE new == carr'
  <2>1. /\ CluSound(cluFile, new, narr - 1) /\ Carried(carr, narr, p[1], p[2], new)
        /\ p[1] \in 0 .. narr - 1 /\ p[2] \in 0 .. narr - 1 /\ p[1] < p[2]
    BY <1>2, <1>3
  <2> HIDE DEF new
  <2>2. United(carr, narr, p[1], p[2], new)
    BY <1>1, <2>1, ClassesUnited
  <2> QED BY <2>2 DEF new, United
<1>5. narr' - 1 = narr - 2
  BY <1>1
<1>6. \A i \in I : \A x : x \in S(i) <=> \E k \in 1 .. Len(carr[i]) : x = carr[i][k]
  BY <1>1, ToSetIs
<1>7. \A i, j \in I : S(i) = S(j) => i = j
  BY <1>1, ClassesCounted DEF CluCounted
<1>8. A # B /\ A \in Classes /\ B \in Classes
  BY <1>1, <1>2, <1>7
<1> HIDE DEF S
<1>9. ASSUME InSquare
      PROVE  \E d \in Linkage!Apart(A, B) :
               \A X, Y \in Classes : X # Y => \A e \in Linkage!Apart(X, Y) : d <= e
  <2>1. PICK a \in 1 .. Len(carr[p[1]]), b \in 1 .. Len(carr[p[2]]) :
    \A i, j \in I : i # j =>
      \A k \in 1 .. Len(carr[i]), l \in 1 .. Len(carr[j]) :
        obj_distance(carr[p[1]][a], carr[p[2]][b]) <= obj_distance(carr[i][k], carr[j][l])
    BY <1>2, <1>9 DEF NearestIn
  <2> DEFINE d == obj_distance(carr[p[1]][a], carr[p[2]][b])
  <2>2. d \in Linkage!Apart(A, B)
    <3>1. carr[p[1]][a] \in A /\ carr[p[2]][b] \in B
      BY <1>2, <1>6
    <3> QED BY <3>1 DEF Linkage!Apart
  <2>3. ASSUME NEW X \in Classes, NEW Y \in Classes, X # Y, NEW e \in Linkage!Apart(X, Y)
        PROVE  d <= e
    <3>1. PICK i \in I : X = S(i)
      OBVIOUS
    <3>2. PICK j \in I : Y = S(j)
      OBVIOUS
    <3>3. PICK x \in X, y \in Y : e = obj_distance(x, y)
      BY <2>3 DEF Linkage!Apart
    <3>4. PICK k \in 1 .. Len(carr[i]) : x = carr[i][k]
      BY <1>6, <3>1, <3>3
    <3>5. PICK l \in 1 .. Len(carr[j]) : y = carr[j][l]
      BY <1>6, <3>2, <3>3
    <3>6. i # j
      BY <2>3, <3>1, <3>2
    <3> HIDE DEF I
    <3> QED BY <2>1, <3>3, <3>4, <3>5, <3>6
  <2> HIDE DEF d, A, B, Classes
  <2> QED BY <2>2, <2>3
<1>10. ASSUME InSquare PROVE Linkage!Unite
  <2>1. \E d \in Linkage!Apart(A, B) :
          \A X, Y \in Classes : X # Y => \A e \in Linkage!Apart(X, Y) : d <= e
    BY <1>9, <1>10
  <2>2. Classes = {ToSet(carr[i]) : i \in 0 .. narr - 1}
    BY DEF S
  <2>3. {ToSet(carr'[i]) : i \in 0 .. narr' - 1} = (Classes \ {A, B}) \cup {A \cup B}
    BY <1>4, <1>5
  <2> HIDE DEF Classes, A, B
  <2> QED BY <1>8, <2>1, <2>2, <2>3, Zenon DEF Linkage!Unite, Linkage!Nearest
<1>11. CluSound(cluFile, carr', narr')
  BY <1>3
<1> QED BY <1>10, <1>11

\* The invariant holds at the start and is kept by every step.
LEMMA CluInitially == ClustersInit => CluInv
<1> SUFFICES ASSUME ClustersInit PROVE CluInv
  OBVIOUS
<1>1. narr = -1 /\ cluC1 = 0 /\ cluC2 = 0 /\ cluFile \in CluFiles /\ cluArgument \in CluArguments
  BY DEF ClustersInit
<1>2. cluEnd # Printed_
  BY DEF ClustersInit, CluRunning, Printed_
<1> QED BY <1>1, <1>2 DEF CluInv

LEMMA CluEndKept ==
  ASSUME CluInv, NEW e, EndWith(e), e = Printed_ => narr = cluArgument
  PROVE  CluInv' /\ narr' = narr
<1>1. cluFile' = cluFile /\ cluArgument' = cluArgument /\ carr' = carr /\ narr' = narr
      /\ cluC1' = cluC1 /\ cluC2' = cluC2 /\ cluEnd' = e
  BY DEF EndWith
<1>2. (narr = -1 \/ CluSound(cluFile, carr, narr))'
  <2>1. CASE narr = -1
    BY <1>1, <2>1
  <2>2. CASE CluSound(cluFile, carr, narr)
    BY <1>1, <2>2 DEF CluSound
  <2> QED BY <2>1, <2>2 DEF CluInv
<1> QED BY <1>1, <1>2 DEF CluInv

LEMMA CluLoaded ==
  ASSUME CluInv, load_clusters
  PROVE  CluInv'
<1>1. CASE ~DistinctIds /\ EndWith("4")
  <2>1. "4" # Printed_
    BY DEF Printed_
  <2> QED BY <1>1, <2>1, CluEndKept
<1>2. CASE /\ DistinctIds
           /\ carr' = [i \in 0 .. Len(cluFile) - 1 |-> <<cluFile[i + 1]>>]
           /\ narr' = Len(cluFile)
           /\ UNCHANGED <<cluFile, cluArgument, cluC1, cluC2, cluEnd>>
  <2> DEFINE n == Len(cluFile)
             new == [i \in 0 .. n - 1 |-> <<cluFile[i + 1]>>]
  <2>1. cluFile \in Seq(CluObjects) /\ n \in Nat
    BY FilesAreOfObjects DEF CluInv
  <2>2. \A i, j \in 1 .. n : cluFile[i].id = cluFile[j].id => i = j
    BY <1>2, <2>1, IdsAreDistinct
  <2>3. \A i \in 0 .. n - 1 :
          /\ i + 1 \in 1 .. n /\ new[i] = <<cluFile[i + 1]>> /\ new[i] \in Seq(CluObjects)
          /\ Len(new[i]) = 1 /\ new[i][1] = cluFile[i + 1]
    BY <2>1
  <2>4. CluSound(cluFile, new, n)
    <3>1. n \in 0 .. n /\ DOMAIN new = 0 .. n - 1 /\ new = [i \in DOMAIN new |-> new[i]]
      BY <2>1
    <3> HIDE DEF new
    <3>2. \A i \in 0 .. n - 1 : new[i] \in Seq(CluObjects) /\ Len(new[i]) >= 1
      BY <2>3
    <3>3. ASSUME NEW i \in 0 .. n - 1, NEW k \in 1 .. Len(new[i])
          PROVE  k = 1 /\ new[i][k] = cluFile[i + 1] /\ i + 1 \in 1 .. n
      <4>1. Len(new[i]) = 1 /\ new[i][1] = cluFile[i + 1] /\ i + 1 \in 1 .. n
        BY <2>3
      <4>2. k = 1
        BY <4>1
      <4> QED BY <4>1, <4>2
    <3>4. \A i \in 0 .. n - 1 : \A k \in 1 .. Len(new[i]) : \E m \in 1 .. n : new[i][k] = cluFile[m]
      BY <3>3
    <3>5. ASSUME NEW m \in 1 .. n
          PROVE  \E i \in 0 .. n - 1 : \E k \in 1 .. Len(new[i]) : new[i][k] = cluFile[m]
      <4>1. m - 1 \in 0 .. n - 1 /\ (m - 1) + 1 = m
        BY <2>1
      <4>2. 1 \in 1 .. Len(new[m - 1]) /\ new[m - 1][1] = cluFile[m]
        BY <2>3, <4>1
      <4> QED BY <4>1, <4>2
    <3>6. ASSUME NEW i \in 0 .. n - 1, NEW j \in 0 .. n - 1,
                 NEW k \in 1 .. Len(new[i]), NEW l \in 1 .. Len(new[j]), new[i][k].id = new[j][l].id
          PROVE  i = j
      <4>1. i + 1 \in 1 .. n /\ j + 1 \in 1 .. n /\ cluFile[i + 1].id = cluFile[j + 1].id
        BY <3>3, <3>6
      <4>2. i + 1 = j + 1
        BY <4>1, <2>2
      <4> QED BY <4>2
    <3>7. \A i \in 0 .. n - 1 : \A k, l \in 1 .. Len(new[i]) : k < l => new[i][k].id < new[i][l].id
      <4>1. \A i \in 0 .. n - 1 : \A k, l \in 1 .. Len(new[i]) : k = 1 /\ l = 1
        BY <3>3
      <4> QED BY <4>1
    <3> QED BY <3>1, <3>2, <3>4, <3>5, <3>6, <3>7, Zenon DEF CluSound
  <2>5. CluSound(cluFile, carr, narr)'
    BY <1>2, <2>4
  <2>6. cluEnd' # Printed_
    BY <1>2 DEF load_clusters, CluRunning, Printed_
  <2> QED BY <1>2, <2>5, <2>6 DEF CluInv
<1> QED BY <1>1, <1>2 DEF load_clusters

LEMMA CluIterated ==
  ASSUME CluInv, Iterate
  PROVE  CluInv' /\ (narr' # narr /\ InSquare => Linkage!Unite)
<1>1. PICK p \in {find_neighbours} :
       \/ /\ narr <= 0 \/ (p[1] # p[2] /\ p[2] >= narr)
          /\ EndWith(Undefined)
       \/ /\ narr > 0 /\ p[1] = p[2]
          /\ EndWith(Hangs)
       \/ /\ p[1] # p[2] /\ p[2] < narr
          /\ carr' = remove_cluster(
                       [carr EXCEPT ![p[1]] = merge_clusters(carr[p[1]], carr[p[2]])], p[2])
          /\ narr' = narr - 1
          /\ cluC1' = p[1] /\ cluC2' = p[2]
          /\ UNCHANGED <<cluFile, cluArgument, cluEnd>>
  BY Zenon DEF Iterate
<1>2. p = find_neighbours
  OBVIOUS
<1>3. Undefined # Printed_ /\ Hangs # Printed_
  BY DEF Undefined, Hangs, Printed_
<1>4. CASE EndWith(Undefined) \/ EndWith(Hangs)
  BY <1>3, <1>4, CluEndKept
<1>5. CASE /\ p[1] # p[2] /\ p[2] < narr
           /\ carr' = remove_cluster(
                        [carr EXCEPT ![p[1]] = merge_clusters(carr[p[1]], carr[p[2]])], p[2])
           /\ narr' = narr - 1
           /\ cluC1' = p[1] /\ cluC2' = p[2]
           /\ UNCHANGED <<cluFile, cluArgument, cluEnd>>
  <2>1. narr # -1
    BY DEF Iterate
  <2>2. p[1] \in 0 .. narr - 1 /\ p[2] \in 0 .. narr - 1 /\ p[1] < p[2]
    BY <1>2, <1>5, <2>1, ChosenPair
  <2>3. CluSound(cluFile, carr', narr') /\ (InSquare => Linkage!Unite)
    BY <1>2, <1>5, <2>1, UnitesTheNearest
  <2>4. (CluSound(cluFile, carr, narr))'
    BY <1>5, <2>3
  <2>5. cluEnd' # Printed_
    BY <1>5 DEF Iterate, CluRunning, Printed_
  <2>6. cluC1' \in Nat /\ cluC2' \in Nat /\ cluC1' < cluC2'
    BY <1>5, <2>2
  <2>7. cluFile' \in CluFiles /\ cluArgument' \in CluArguments
    BY <1>5 DEF CluInv
  <2> QED BY <2>3, <2>4, <2>5, <2>6, <2>7 DEF CluInv
<1> QED BY <1>1, <1>4, <1>5

LEMMA CluStep ==
  ASSUME CluInv, [ClustersNext]_clusterVars
  PROVE  CluInv' /\ (narr # -1 /\ narr' # narr /\ InSquare => Linkage!Unite)
<1>1. CASE load_clusters
  <2>1. narr = -1
    BY <1>1 DEF load_clusters
  <2> QED BY <1>1, <2>1, CluLoaded
<1>2. CASE RefuseArgument
  <2>1. PICK e \in {"3", "5"} : EndWith(e)
    BY <1>2 DEF RefuseArgument
  <2>2. e # Printed_
    BY DEF Printed_
  <2> QED BY <2>1, <2>2, CluEndKept
<1>3. CASE Iterate
  BY <1>3, CluIterated
<1>4. CASE print_clusters
  <2>1. EndWith(Printed_) /\ narr = cluArgument
    BY <1>4 DEF print_clusters
  <2> QED BY <2>1, CluEndKept
<1>5. CASE UNCHANGED clusterVars
  <2>1. /\ cluFile' = cluFile /\ cluArgument' = cluArgument /\ carr' = carr /\ narr' = narr
        /\ cluC1' = cluC1 /\ cluC2' = cluC2 /\ cluEnd' = cluEnd
    BY <1>5 DEF clusterVars
  <2>2. EndWith(cluEnd)
    BY <2>1 DEF EndWith
  <2>3. cluEnd = Printed_ => narr = cluArgument
    BY DEF CluInv
  <2> QED BY <2>2, <2>3, CluEndKept
<1> QED BY <1>1, <1>2, <1>3, <1>4, <1>5 DEF ClustersNext

\* The state part of ClusteringIsSingleLinkage.
LEMMA CluInvImplies ==
  ASSUME CluInv
  PROVE  /\ narr # -1 =>
              /\ Cardinality({ToSet(carr[i]) : i \in 0 .. narr - 1}) = narr
              /\ UNION {ToSet(carr[i]) : i \in 0 .. narr - 1} = ToSet(cluFile)
              /\ \A i \in 0 .. narr - 1 : \A k \in 1 .. Len(carr[i]) - 1 :
                   carr[i][k].id < carr[i][k + 1].id
         /\ cluEnd = Printed_ => narr = cluArgument
<1>1. ASSUME narr # -1
      PROVE  /\ Cardinality({ToSet(carr[i]) : i \in 0 .. narr - 1}) = narr
             /\ UNION {ToSet(carr[i]) : i \in 0 .. narr - 1} = ToSet(cluFile)
             /\ \A i \in 0 .. narr - 1 : \A k \in 1 .. Len(carr[i]) - 1 :
                  carr[i][k].id < carr[i][k + 1].id
  <2>1. cluFile \in Seq(CluObjects) /\ CluSound(cluFile, carr, narr)
    BY <1>1, FilesAreOfObjects DEF CluInv
  <2>2. CluCounted(cluFile, carr, narr)
    BY <2>1, ClassesCounted
  <2>3. ASSUME NEW i \in 0 .. narr - 1, NEW k \in 1 .. Len(carr[i]) - 1
        PROVE  carr[i][k].id < carr[i][k + 1].id
    <3>1. /\ carr[i] \in Seq(CluObjects)
          /\ \A h, l \in 1 .. Len(carr[i]) : h < l => carr[i][h].id < carr[i][l].id
      BY <2>1 DEF CluSound
    <3>2. k \in 1 .. Len(carr[i]) /\ k + 1 \in 1 .. Len(carr[i]) /\ k < k + 1
      BY <3>1
    <3> QED BY <3>1, <3>2
  <2> QED BY <2>2, <2>3 DEF CluCounted
<1> QED BY <1>1 DEF CluInv

\* The clustering of cluster.c, for every file of objects and every argument: no
\* object is lost or doubled, the clusters stay sorted, what is printed is as many
\* as were asked for, and in the square every iteration unites two of the nearest
\* clusters.
THEOREM ClusteringIsRight == ClustersSpec => ClusteringIsSingleLinkage
<1>1. ClustersInit => CluInv
  BY CluInitially
<1>2. CluInv /\ [ClustersNext]_clusterVars => CluInv'
  BY CluStep
<1>3. CluInv /\ [ClustersNext]_clusterVars
        => [narr # -1 /\ narr' # narr /\ InSquare => Linkage!Unite]_clusterVars
  BY CluStep
<1>4. CluInv =>
        /\ narr # -1 =>
              /\ Cardinality({ToSet(carr[i]) : i \in 0 .. narr - 1}) = narr
              /\ UNION {ToSet(carr[i]) : i \in 0 .. narr - 1} = ToSet(cluFile)
              /\ \A i \in 0 .. narr - 1 : \A k \in 1 .. Len(carr[i]) - 1 :
                   carr[i][k].id < carr[i][k + 1].id
        /\ cluEnd = Printed_ => narr = cluArgument
  BY CluInvImplies
<1> QED BY <1>1, <1>2, <1>3, <1>4, PTL DEF ClustersSpec, ClusteringIsSingleLinkage
=============================================================================
