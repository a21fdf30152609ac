------------------------------ MODULE CharQueue ------------------------------
(***************************************************************************)
(* The queue of IAL project 1 (src/2/IAL/1/c203.c): a ring in an array of  *)
(* MAX_QUEUE characters of which QUEUE_SIZE are used.  The slot before the *)
(* first character always stays free, so that a full ring and an empty one *)
(* differ.                                                                 *)
(***************************************************************************)
EXTENDS Integers, Sequences

CONSTANTS
  QueueData,     \* the characters
  Star,          \* the character '*' that fills a new array
  MAX_QUEUE,
  QUEUE_SIZE     \* may be lowered below MAX_QUEUE by the tests

ASSUME QueueAssumption ==
  /\ MAX_QUEUE \in Nat /\ QUEUE_SIZE \in 1 .. MAX_QUEUE
  /\ Star \in QueueData

VARIABLES
  array, firstIndex, freeIndex,    \* the queue
  dataPtr,                         \* where the caller wants the character
  error_flag                       \* set by Queue_Error and by nothing cleared

queueVars == <<array, firstIndex, freeIndex, dataPtr, error_flag>>

nextIndex(index) == (index + 1) % QUEUE_SIZE
Queue_IsEmpty == firstIndex = freeIndex

\* Mutant: full is noticed only where the ring does not wrap.
Queue_IsFullUnwrapped == freeIndex + 1 = firstIndex

Queue_IsFull == nextIndex(freeIndex) = firstIndex

EmptyArray == [i \in 0 .. MAX_QUEUE - 1 |-> Star]

QueueInit ==
  /\ array = EmptyArray /\ firstIndex = 0 /\ freeIndex = 0
  /\ dataPtr \in QueueData
  /\ error_flag = FALSE

Queue_Error == error_flag' = TRUE /\ UNCHANGED <<array, firstIndex, freeIndex, dataPtr>>

Queue_Init ==
  /\ array' = EmptyArray /\ firstIndex' = 0 /\ freeIndex' = 0
  /\ UNCHANGED <<dataPtr, error_flag>>

Queue_Front ==
  IF Queue_IsEmpty THEN Queue_Error
  ELSE /\ dataPtr' = array[firstIndex]
       /\ UNCHANGED <<array, firstIndex, freeIndex, error_flag>>

Queue_Remove ==
  IF Queue_IsEmpty THEN Queue_Error
  ELSE /\ firstIndex' = nextIndex(firstIndex)
       /\ UNCHANGED <<array, freeIndex, dataPtr, error_flag>>

\* Queue_Front and Queue_Remove, of the same queue that is not empty.
Queue_Dequeue ==
  IF Queue_IsEmpty THEN Queue_Error
  ELSE /\ dataPtr' = array[firstIndex]
       /\ firstIndex' = nextIndex(firstIndex)
       /\ UNCHANGED <<array, freeIndex, error_flag>>

Queue_Enqueue(data) ==
  IF Queue_IsFull THEN Queue_Error
  ELSE /\ array' = [array EXCEPT ![freeIndex] = data]
       /\ freeIndex' = nextIndex(freeIndex)
       /\ UNCHANGED <<firstIndex, dataPtr, error_flag>>

QueueNext ==
  \/ Queue_Init \/ Queue_Front \/ Queue_Remove \/ Queue_Dequeue
  \/ \E data \in QueueData : Queue_Enqueue(data)

QueueSpec == QueueInit /\ [][QueueNext]_queueVars
-----------------------------------------------------------------------------
(* Property *)

\* How many characters wait, and which: those from firstIndex on, round the
\* end of the ring.
InQueue == (freeIndex - firstIndex) % QUEUE_SIZE
Waiting == [i \in 1 .. InQueue |-> array[(firstIndex + i - 1) % QUEUE_SIZE]]

F == INSTANCE Fifo WITH FifoData <- QueueData, Capacity <- QUEUE_SIZE - 1,
                        waiting <- Waiting, got <- dataPtr, error <- error_flag

\* However far the ring has turned, it is a first-in-first-out queue that
\* takes QUEUE_SIZE - 1 characters and no more: every call does what Fifo
\* says of it.
QueueIsFifo ==
  /\ F!FifoInit
  /\ [][/\ \A data \in QueueData : Queue_Enqueue(data) => F!Put(data)
        /\ Queue_Front => F!Peek
        /\ Queue_Remove => F!Drop
        /\ Queue_Dequeue => F!Take
        /\ Queue_Init => F!Reset]_queueVars
=============================================================================
