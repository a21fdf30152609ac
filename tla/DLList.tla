------------------------------- MODULE DLList -------------------------------
(***************************************************************************)
(* The doubly linked list of IAL project 1 (src/2/IAL/1/c206.c), cell by   *)
(* cell.  The heap is a function from the cells that are allocated, so     *)
(* that following a pointer to a freed cell has no value at all.  malloc   *)
(* returns any free cell.  When it returns NULL the error is reported and  *)
(* the NULL written through all the same.                                  *)
(***************************************************************************)
EXTENDS Integers, Sequences, SequencesExt, FiniteSets, Links

CONSTANTS
  DLLCells,     \* the addresses malloc can return; bounds the list
  DLLData,
  DLLNull,
  DLLFailed     \* the answer of a call that ran DLL_Error

ASSUME DLLAssumption == DLLNull \notin DLLCells

VARIABLES
  dllHeap,      \* cell -> [data, next, prev]
  dllFirst, dllLast, dllActive,
  dllLength,    \* currentLength
  dllAnswer,    \* what the last of the Get functions stored, or DLLFailed
  dllBroken     \* a NULL was written through, or a cell linked to itself

dllVars == <<dllHeap, dllFirst, dllLast, dllActive, dllLength, dllAnswer, dllBroken>>

DLLInit ==
  /\ dllHeap = [c \in {} |-> DLLNull]
  /\ dllFirst = DLLNull /\ dllLast = DLLNull /\ dllActive = DLLNull
  /\ dllLength = 0 /\ dllAnswer = DLLFailed /\ dllBroken = FALSE

DLL_IsActive == dllActive # DLLNull
DLLCell(d, prev, next) == [data |-> d, prev |-> prev, next |-> next]
DLLFree == DLLCells \ DOMAIN dllHeap

\* The heap with a new cell, or without one, and with links changed.
DLLWith(c, cell) == [x \in DOMAIN dllHeap \cup {c} |-> IF x = c THEN cell ELSE dllHeap[x]]
DLLWithout(heap, c) == [x \in DOMAIN heap \ {c} |-> heap[x]]
LinkNext(heap, c, to) == [heap EXCEPT ![c].next = to]
LinkPrev(heap, c, to) == [heap EXCEPT ![c].prev = to]

DLLEnds(first, last) == dllFirst' = first /\ dllLast' = last
DLLLonger == dllLength' = dllLength + 1
DLLShorter == dllLength' = dllLength - 1
DLLQuiet == UNCHANGED <<dllAnswer, dllBroken>>
DLLIdle == UNCHANGED dllVars

\* DLL_Init again on a list in use would lose its cells; DLL_Dispose deletes
\* them one by one from the first.
DLL_Dispose ==
  /\ dllHeap' = [c \in {} |-> DLLNull]
  /\ DLLEnds(DLLNull, DLLNull) /\ dllActive' = DLLNull /\ dllLength' = 0 /\ DLLQuiet

DLL_InsertFirst(d) == \E c \in DLLFree :
  LET heap == DLLWith(c, DLLCell(d, DLLNull, dllFirst))
  IN /\ IF dllFirst # DLLNull
        THEN dllHeap' = LinkPrev(heap, dllFirst, c) /\ DLLEnds(c, dllLast)
        ELSE dllHeap' = heap /\ DLLEnds(c, c)
     /\ UNCHANGED dllActive /\ DLLLonger /\ DLLQuiet

DLL_InsertLast(d) == \E c \in DLLFree :
  LET heap == DLLWith(c, DLLCell(d, dllLast, DLLNull))
  IN /\ IF dllLast # DLLNull
        THEN dllHeap' = LinkNext(heap, dllLast, c) /\ DLLEnds(dllFirst, c)
        ELSE dllHeap' = heap /\ DLLEnds(c, c)
     /\ UNCHANGED dllActive /\ DLLLonger /\ DLLQuiet

DLL_InsertAfter(d) ==
  IF ~DLL_IsActive THEN DLLIdle
  ELSE \E c \in DLLFree :
         LET next == dllHeap[dllActive].next
             heap == LinkNext(DLLWith(c, DLLCell(d, dllActive, next)), dllActive, c)
         IN /\ IF dllActive = dllLast
               THEN dllHeap' = heap /\ DLLEnds(dllFirst, c)
               ELSE dllHeap' = LinkPrev(heap, next, c) /\ DLLEnds(dllFirst, dllLast)
            /\ UNCHANGED dllActive /\ DLLLonger /\ DLLQuiet

\* The link back from the active cell is changed before the cell that used
\* to precede it is reached through that link: the new cell is what is
\* reached, and its own link forward is what is changed.
DLL_InsertBefore(d) ==
  IF ~DLL_IsActive THEN DLLIdle
  ELSE \E c \in DLLFree :
         LET heap == LinkPrev(DLLWith(c, DLLCell(d, dllHeap[dllActive].prev, dllActive)),
                              dllActive, c)
         IN /\ IF dllActive = dllFirst
               THEN dllHeap' = heap /\ DLLEnds(c, dllLast) /\ UNCHANGED dllBroken
               ELSE /\ dllHeap' = LinkNext(heap, heap[dllActive].prev, c)
                    /\ DLLEnds(dllFirst, dllLast) /\ dllBroken' = TRUE
            /\ UNCHANGED <<dllActive, dllAnswer>> /\ DLLLonger

\* malloc returns NULL in one of the insertions.
DLL_InsertFails == dllBroken' = TRUE
                   /\ UNCHANGED <<dllHeap, dllFirst, dllLast, dllActive, dllLength, dllAnswer>>

DLL_DeleteFirst ==
  IF dllFirst = DLLNull THEN DLLIdle
  ELSE LET next == dllHeap[dllFirst].next
       IN /\ IF dllFirst = dllLast
             THEN DLLEnds(DLLNull, DLLNull) /\ dllHeap' = DLLWithout(dllHeap, dllFirst)
             ELSE /\ DLLEnds(next, dllLast)
                  /\ dllHeap' = DLLWithout(LinkPrev(dllHeap, next, DLLNull), dllFirst)
          /\ dllActive' = IF dllActive = dllFirst THEN DLLNull ELSE dllActive
          /\ DLLShorter /\ DLLQuiet

DLL_DeleteLast ==
  IF dllLast = DLLNull THEN DLLIdle
  ELSE LET prev == dllHeap[dllLast].prev
       IN /\ IF dllFirst = dllLast
             THEN DLLEnds(DLLNull, DLLNull) /\ dllHeap' = DLLWithout(dllHeap, dllLast)
             ELSE /\ DLLEnds(dllFirst, prev)
                  /\ dllHeap' = DLLWithout(LinkNext(dllHeap, prev, DLLNull), dllLast)
          /\ dllActive' = IF dllActive = dllLast THEN DLLNull ELSE dllActive
          /\ DLLShorter /\ DLLQuiet

\* Mutant: the end of the list stays where it was.
DLL_DeleteAfterKeepsLast ==
  IF ~DLL_IsActive \/ dllHeap[dllActive].next = DLLNull THEN DLLIdle
  ELSE LET gone == dllHeap[dllActive].next
           next == dllHeap[gone].next
           heap == LinkNext(dllHeap, dllActive, next)
       IN /\ dllHeap' = DLLWithout(IF next = DLLNull THEN heap
                                   ELSE LinkPrev(heap, next, dllActive), gone)
          /\ UNCHANGED <<dllFirst, dllLast, dllActive>> /\ DLLShorter /\ DLLQuiet

DLL_DeleteAfter ==
  IF ~DLL_IsActive \/ dllHeap[dllActive].next = DLLNull THEN DLLIdle
  ELSE LET gone == dllHeap[dllActive].next
           next == dllHeap[gone].next
           heap == LinkNext(dllHeap, dllActive, next)
       IN /\ IF gone = dllLast
             THEN DLLEnds(dllFirst, dllActive) /\ dllHeap' = DLLWithout(heap, gone)
             ELSE /\ DLLEnds(dllFirst, dllLast)
                  /\ dllHeap' = DLLWithout(LinkPrev(heap, next, dllActive), gone)
          /\ UNCHANGED dllActive /\ DLLShorter /\ DLLQuiet

DLL_DeleteBefore ==
  IF ~DLL_IsActive \/ dllHeap[dllActive].prev = DLLNull THEN DLLIdle
  ELSE LET gone == dllHeap[dllActive].prev
           prev == dllHeap[gone].prev
           heap == LinkPrev(dllHeap, dllActive, prev)
       IN /\ IF gone = dllFirst
             THEN DLLEnds(dllActive, dllLast) /\ dllHeap' = DLLWithout(heap, gone)
             ELSE /\ DLLEnds(dllFirst, dllLast)
                  /\ dllHeap' = DLLWithout(LinkNext(heap, prev, dllActive), gone)
          /\ UNCHANGED dllActive /\ DLLShorter /\ DLLQuiet

DLLActivate(c) ==
  /\ dllActive' = c
  /\ UNCHANGED <<dllHeap, dllFirst, dllLast, dllLength, dllAnswer, dllBroken>>
DLL_First == DLLActivate(dllFirst)
DLL_Last == DLLActivate(dllLast)
DLL_Next == DLLActivate(IF DLL_IsActive THEN dllHeap[dllActive].next ELSE DLLNull)
DLL_Previous == DLLActivate(IF DLL_IsActive THEN dllHeap[dllActive].prev ELSE DLLNull)

DLLStore(c) ==
  /\ dllAnswer' = IF c = DLLNull THEN DLLFailed ELSE dllHeap[c].data
  /\ UNCHANGED <<dllHeap, dllFirst, dllLast, dllActive, dllLength, dllBroken>>
DLL_GetFirst == DLLStore(dllFirst)
DLL_GetLast == DLLStore(dllLast)
DLL_GetValue == DLLStore(dllActive)

DLL_SetValue(d) ==
  /\ dllHeap' = IF DLL_IsActive THEN [dllHeap EXCEPT ![dllActive].data = d] ELSE dllHeap
  /\ UNCHANGED <<dllFirst, dllLast, dllActive, dllLength>> /\ DLLQuiet

\* What becomes of a broken list is not followed.
DLLNext ==
  /\ ~dllBroken
  /\ \/ \E d \in DLLData : DLL_InsertFirst(d) \/ DLL_InsertLast(d) \/ DLL_InsertAfter(d)
                             \/ DLL_InsertBefore(d) \/ DLL_SetValue(d)
     \/ DLL_DeleteFirst \/ DLL_DeleteLast \/ DLL_DeleteAfter \/ DLL_DeleteBefore
     \/ DLL_First \/ DLL_Last \/ DLL_Next \/ DLL_Previous
     \/ DLL_GetFirst \/ DLL_GetLast \/ DLL_GetValue
     \/ DLL_Dispose \/ DLL_InsertFails

DLLSpec == DLLInit /\ [][DLLNext]_dllVars
-----------------------------------------------------------------------------
(* Properties *)

DLLNexts == [c \in DOMAIN dllHeap |-> dllHeap[c].next]
DLLPrevs == [c \in DOMAIN dllHeap |-> dllHeap[c].prev]
DLLOrder == Walk(dllFirst, DLLNexts, DLLNull)
DLLItems == Items(DLLOrder, dllHeap)
DLLPlace == Place(dllActive, DLLOrder)

DLLSpecified == INSTANCE CursorList
  WITH items <- DLLItems, cursor <- DLLPlace, answer <- dllAnswer, Failed <- DLLFailed

\* Read backwards the list is the same, it holds every allocated cell once,
\* the active cell is one of them, and its length is the length it states.
DLLWellLinked ==
  /\ Walk(dllLast, DLLPrevs, DLLNull) = Reverse(DLLOrder)
  /\ ToSet(DLLOrder) = DOMAIN dllHeap
  /\ Len(DLLOrder) = Cardinality(DOMAIN dllHeap)
  /\ dllLength = Len(DLLOrder)
  /\ DLL_IsActive => dllActive \in DOMAIN dllHeap

\* Whatever calls came before, every operation changes the list as CursorList
\* says, up to the first insertion before an active element that is not the
\* first, or without memory, which breaks it.
DLLIsCursorList ==
  /\ DLLSpecified!CursorInit
  /\ [](~dllBroken => DLLWellLinked)
  /\ [][~dllBroken' /\ dllVars' # dllVars =>
         /\ \A d \in DLLData :
              /\ DLL_InsertFirst(d) => DLLSpecified!InsertFirst(d)
              /\ DLL_InsertLast(d) => DLLSpecified!InsertLast(d)
              /\ DLL_InsertAfter(d) => DLLSpecified!InsertAfter(d)
              /\ DLL_InsertBefore(d) => DLLSpecified!InsertBefore(d)
              /\ DLL_SetValue(d) => DLLSpecified!SetValue(d)
         /\ DLL_DeleteFirst => DLLSpecified!DeleteFirst
         /\ DLL_DeleteLast => DLLSpecified!DeleteLast
         /\ DLL_DeleteAfter => DLLSpecified!DeleteAfter
         /\ DLL_DeleteBefore => DLLSpecified!DeleteBefore
         /\ DLL_First => DLLSpecified!First
         /\ DLL_Last => DLLSpecified!Last_
         /\ DLL_Next => DLLSpecified!Next_
         /\ DLL_Previous => DLLSpecified!Previous
         /\ DLL_GetFirst => DLLSpecified!GetFirst
         /\ DLL_GetLast => DLLSpecified!GetLast
         /\ DLL_GetValue => DLLSpecified!GetValue
         /\ DLL_Dispose => DLLSpecified!Clear]_dllVars

\* "Inserts an element before the active element of the list", as the comment
\* of DLL_InsertBefore says: the item becomes the one before the active item.
InsertsBeforeActive ==
  [][\A d \in DLLData : DLL_InsertBefore(d) => DLLSpecified!InsertBefore(d)]_dllVars
=============================================================================
