----------------------------- MODULE CursorList -----------------------------
(***************************************************************************)
(* What a linked list with an active element promises its user: a sequence *)
(* of items and a cursor into it, 0 when no item is active.  DLList and    *)
(* SList implement it with cells and pointers.                             *)
(***************************************************************************)
EXTENDS Naturals, Sequences, SequencesExt

CONSTANT Failed    \* the answer of a call that reported an error

VARIABLES items, cursor, answer

CursorInit == items = <<>> /\ cursor = 0 /\ answer = Failed

Active == cursor # 0
At(c, s) == cursor' = c /\ items' = s /\ UNCHANGED answer
Shifted == IF Active THEN cursor + 1 ELSE 0

Clear == At(0, <<>>)
InsertFirst(d) == At(Shifted, <<d>> \o items)
InsertLast(d) == At(cursor, Append(items, d))
InsertAfter(d) == At(cursor, IF Active THEN InsertAt(items, cursor + 1, d) ELSE items)
InsertBefore(d) == At(Shifted, IF Active THEN InsertAt(items, cursor, d) ELSE items)

\* Deleting the active item leaves no item active.
DeleteFirst ==
  IF items = <<>> THEN At(cursor, items)
  ELSE At(IF cursor <= 1 THEN 0 ELSE cursor - 1, Tail(items))
DeleteLast ==
  IF items = <<>> THEN At(cursor, items)
  ELSE At(IF cursor = Len(items) THEN 0 ELSE cursor, Front(items))
DeleteAfter ==
  At(cursor, IF Active /\ cursor < Len(items) THEN RemoveAt(items, cursor + 1) ELSE items)
DeleteBefore ==
  IF cursor > 1 THEN At(cursor - 1, RemoveAt(items, cursor - 1)) ELSE At(cursor, items)

First == At(IF items = <<>> THEN 0 ELSE 1, items)
Last_ == At(Len(items), items)
Next_ == At(IF cursor < Len(items) THEN Shifted ELSE 0, items)
Previous == At(IF Active THEN cursor - 1 ELSE 0, items)

SetValue(d) == At(cursor, IF Active THEN [items EXCEPT ![cursor] = d] ELSE items)

\* A value is answered, or the error when there is none.
Answer(i) ==
  /\ answer' = IF i \in DOMAIN items THEN items[i] ELSE Failed
  /\ UNCHANGED <<items, cursor>>
GetFirst == Answer(1)
GetLast == Answer(Len(items))
GetValue == Answer(cursor)
=============================================================================
