-------------------------------- MODULE SList --------------------------------
(***************************************************************************)
(* The singly linked list of IAL project 1 (src/2/IAL/1/c201.c), cell by   *)
(* cell, over a heap like that of DLList.                                  *)
(***************************************************************************)
EXTENDS Integers, Sequences, SequencesExt, FiniteSets, Links

CONSTANTS
  ListCells,    \* the addresses malloc can return; bounds the list
  ListData,
  ListNull,
  ListFailed    \* the answer of a call that ran List_Error

ASSUME ListAssumption == ListNull \notin ListCells

VARIABLES
  listHeap,     \* cell -> [data, next]
  listFirst, listActive,
  listLength,   \* currentLength
  listAnswer,   \* what the last of the Get functions stored, or ListFailed
  listCrashed   \* a NULL that malloc returned was written through

listVars == <<listHeap, listFirst, listActive, listLength, listAnswer, listCrashed>>

ListInit ==
  /\ listHeap = [c \in {} |-> ListNull]
  /\ listFirst = ListNull /\ listActive = ListNull
  /\ listLength = 0 /\ listAnswer = ListFailed /\ listCrashed = FALSE

List_IsActive == listActive # ListNull
ListIdle == UNCHANGED listVars
ListQuiet == UNCHANGED <<listAnswer, listCrashed>>

\* The heap with the new cell c.
Grown(heap, c, d, next) ==
  [x \in DOMAIN heap \cup {c} |-> IF x = c THEN [data |-> d, next |-> next] ELSE heap[x]]
Freed(heap, c) == [x \in DOMAIN heap \ {c} |-> heap[x]]

List_InsertFirst(d) == \E c \in ListCells \ DOMAIN listHeap :
  /\ listHeap' = Grown(listHeap, c, d, listFirst)
  /\ listFirst' = c /\ listLength' = listLength + 1
  /\ UNCHANGED listActive /\ ListQuiet

List_InsertAfter(d) ==
  IF ~List_IsActive THEN ListIdle
  ELSE \E c \in ListCells \ DOMAIN listHeap :
         /\ listHeap' = [Grown(listHeap, c, d, listHeap[listActive].next)
                           EXCEPT ![listActive].next = c]
         /\ listLength' = listLength + 1
         /\ UNCHANGED <<listFirst, listActive>> /\ ListQuiet

\* malloc returns NULL in one of the insertions: the error is reported, and
\* the new element is filled in all the same.
List_InsertFails ==
  /\ listCrashed' = TRUE
  /\ UNCHANGED <<listHeap, listFirst, listActive, listLength, listAnswer>>

\* Mutant: the element that is deleted stays active.
List_DeleteFirstActive ==
  IF listFirst = ListNull THEN ListIdle
  ELSE /\ listFirst' = listHeap[listFirst].next
       /\ listHeap' = Freed(listHeap, listFirst)
       /\ listLength' = listLength - 1
       /\ UNCHANGED listActive /\ ListQuiet

List_DeleteFirst ==
  IF listFirst = ListNull THEN ListIdle
  ELSE /\ listActive' = IF listActive = listFirst THEN ListNull ELSE listActive
       /\ listFirst' = listHeap[listFirst].next
       /\ listHeap' = Freed(listHeap, listFirst)
       /\ listLength' = listLength - 1 /\ ListQuiet

List_DeleteAfter ==
  IF ~List_IsActive \/ listHeap[listActive].next = ListNull THEN ListIdle
  ELSE LET gone == listHeap[listActive].next
       IN /\ listHeap' = Freed([listHeap EXCEPT ![listActive].next = listHeap[gone].next], gone)
          /\ listLength' = listLength - 1
          /\ UNCHANGED <<listFirst, listActive>> /\ ListQuiet

\* The first element becomes active, and one List_DeleteFirst after another
\* leaves none, and none active.
List_Dispose ==
  /\ listHeap' = [c \in {} |-> ListNull]
  /\ listFirst' = ListNull /\ listActive' = ListNull /\ listLength' = 0 /\ ListQuiet

ListActivate(c) ==
  listActive' = c /\ UNCHANGED <<listHeap, listFirst, listLength>> /\ ListQuiet
List_First == ListActivate(listFirst)
List_Next == ListActivate(IF List_IsActive THEN listHeap[listActive].next ELSE ListNull)

ListStore(c) ==
  /\ listAnswer' = IF c = ListNull THEN ListFailed ELSE listHeap[c].data
  /\ UNCHANGED <<listHeap, listFirst, listActive, listLength, listCrashed>>
List_GetFirst == ListStore(listFirst)
List_GetValue == ListStore(listActive)

List_SetValue(d) ==
  /\ listHeap' = IF List_IsActive THEN [listHeap EXCEPT ![listActive].data = d] ELSE listHeap
  /\ UNCHANGED <<listFirst, listActive, listLength>> /\ ListQuiet

ListNext ==
  /\ ~listCrashed
  /\ \/ \E d \in ListData : List_InsertFirst(d) \/ List_InsertAfter(d) \/ List_SetValue(d)
     \/ List_DeleteFirst \/ List_DeleteAfter \/ List_Dispose
     \/ List_First \/ List_Next \/ List_GetFirst \/ List_GetValue
     \/ List_InsertFails

ListSpec == ListInit /\ [][ListNext]_listVars
-----------------------------------------------------------------------------
(* Property *)

ListNexts == [c \in DOMAIN listHeap |-> listHeap[c].next]
ListOrder == Walk(listFirst, ListNexts, ListNull)
ListItems == Items(ListOrder, listHeap)
ListPlace == Place(listActive, ListOrder)

ListSpecified == INSTANCE CursorList
  WITH items <- ListItems, cursor <- ListPlace, answer <- listAnswer, Failed <- ListFailed

\* The list holds every allocated cell once, its length is the one it states,
\* the active cell is never one that was freed, and every operation changes
\* the items and the cursor as CursorList says, whatever calls came before.
SListIsCursorList ==
  /\ ListSpecified!CursorInit
  /\ [](/\ ToSet(ListOrder) = DOMAIN listHeap
        /\ Cardinality(DOMAIN listHeap) = listLength /\ Len(ListOrder) = listLength
        /\ List_IsActive => listActive \in DOMAIN listHeap)
  /\ [][listVars' # listVars =>
         /\ \A d \in ListData :
              /\ List_InsertFirst(d) => ListSpecified!InsertFirst(d)
              /\ List_InsertAfter(d) => ListSpecified!InsertAfter(d)
              /\ List_SetValue(d) => ListSpecified!SetValue(d)
         /\ List_DeleteFirst => ListSpecified!DeleteFirst
         /\ List_DeleteAfter => ListSpecified!DeleteAfter
         /\ List_First => ListSpecified!First
         /\ List_Next => ListSpecified!Next_
         /\ List_GetFirst => ListSpecified!GetFirst
         /\ List_GetValue => ListSpecified!GetValue
         /\ List_Dispose => ListSpecified!Clear]_listVars
=============================================================================
