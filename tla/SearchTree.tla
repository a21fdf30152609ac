------------------------------ MODULE SearchTree ------------------------------
(***************************************************************************)
(* The binary search tree of IAL project 2, which has two implementations  *)
(* of the same functions: with loops and explicit stacks (src/2/IAL/2/     *)
(* btree-iter.c), which is the one whose steps are taken here, and with    *)
(* recursion (btree-rec.c), whose results over the same tree are operators *)
(* whose names end in _rec.  Nodes live in a heap, a function from those   *)
(* that are allocated; nothing depends on which free node malloc returns.  *)
(***************************************************************************)
EXTENDS Integers, Sequences, SequencesExt, Functions, TLC

CONSTANTS
  BstNodes,        \* the addresses malloc can return; bounds the tree
  BstKeys,         \* integers: characters
  BstValues,
  BstNull,         \* NULL, also as the answer of a search without success
  BstCrash         \* the answer after NULL was read through

ASSUME BstAssumption == BstKeys \subseteq Int /\ BstNull \notin BstNodes

VARIABLES
  bstRoot,      \* *tree
  bstHeap,      \* node -> [key, content, left, right]
  bstAnswer     \* what the last search found, or BstCrash

bstVars == <<bstRoot, bstHeap, bstAnswer>>

BstInit ==
  /\ bstRoot = BstNull
  /\ bstHeap = [n \in {} |-> BstNull]
  /\ bstAnswer = BstNull

\* A node as the loops reach it: the pointer to it is the field side of the
\* node parent, or *tree when the side is "root".
PlaceAt(node, parent, side) == [node |-> node, parent |-> parent, side |-> side]
RootPlace == PlaceAt(bstRoot, BstNull, "root")

ChildPlace(n, side) == PlaceAt(bstHeap[n][side], n, side)

\* The descent of the loops, to the node with the key or past a leaf.
RECURSIVE Descend(_, _)
Descend(p, key) ==
  IF p.node = BstNull \/ bstHeap[p.node].key = key THEN p
  ELSE Descend(ChildPlace(p.node, IF key < bstHeap[p.node].key THEN "left" ELSE "right"), key)

\* The pointer at a place is set: the new root and the new heap.
SetRoot(p, to) == IF p.side = "root" THEN to ELSE bstRoot
SetLink(heap, p, to) ==
  CASE p.side = "root" -> heap
    [] p.side = "left" -> [heap EXCEPT ![p.parent].left = to]
    [] p.side = "right" -> [heap EXCEPT ![p.parent].right = to]

FreeNode(heap, n) == Restrict(heap, DOMAIN heap \ {n})

bst_search(key) == \E p \in {Descend(RootPlace, key)} :
  /\ bstAnswer' = IF p.node = BstNull THEN BstNull ELSE bstHeap[p.node].content
  /\ UNCHANGED <<bstRoot, bstHeap>>

\* The node is allocated first and freed again when the key is there; without
\* memory the call returns and nothing has changed.
bst_insert(key, value) ==
  /\ DOMAIN bstHeap # BstNodes
  /\ \E p \in {Descend(RootPlace, key)}, new \in {CHOOSE n \in BstNodes : n \notin DOMAIN bstHeap} :
       IF p.node # BstNull
       THEN /\ bstHeap' = [bstHeap EXCEPT ![p.node].content = value]
            /\ UNCHANGED bstRoot
       ELSE /\ bstRoot' = SetRoot(p, new)
            /\ bstHeap' = (new :> [key |-> key, content |-> value,
                                  left |-> BstNull, right |-> BstNull])
                            @@ SetLink(bstHeap, p, new)
  /\ UNCHANGED bstAnswer

\* The place of the rightmost node at or below p.
RECURSIVE Rightmost(_)
Rightmost(p) ==
  IF bstHeap[p.node].right = BstNull THEN p ELSE Rightmost(ChildPlace(p.node, "right"))

\* Mutant: the left subtree of the rightmost node is dropped.
bst_replace_without_subtree(target, q) ==
  FreeNode([SetLink(bstHeap, q, BstNull) EXCEPT
              ![target].key = bstHeap[q.node].key,
              ![target].content = bstHeap[q.node].content],
           q.node)

\* bst_replace_by_rightmost: the node at q, the rightmost of the left
\* subtree, gives its key and content to the target and makes room for its
\* own left subtree.
bst_replace_by_rightmost(target, q) ==
  FreeNode([SetLink(bstHeap, q, bstHeap[q.node].left) EXCEPT
              ![target].key = bstHeap[q.node].key,
              ![target].content = bstHeap[q.node].content],
           q.node)

OnlyChild(n) == IF n.left # BstNull THEN n.left ELSE n.right

\* Whether the node is a left and whether it is a right child is decided by
\* the keys of both children of the parent, so that both must be there.
SiblingMissing(p) ==
  p.side # "root" /\ BstNull \in {bstHeap[p.parent].left, bstHeap[p.parent].right}

bst_delete(key) == \E p \in {Descend(RootPlace, key)} :
  /\ p.node # BstNull
  /\ \/ /\ SiblingMissing(p)
        /\ bstAnswer' = BstCrash
        /\ UNCHANGED <<bstRoot, bstHeap>>
     \/ /\ ~SiblingMissing(p)
        /\ BstNull \in {bstHeap[p.node].left, bstHeap[p.node].right}
        /\ bstRoot' = SetRoot(p, OnlyChild(bstHeap[p.node]))
        /\ bstHeap' = FreeNode(SetLink(bstHeap, p, OnlyChild(bstHeap[p.node])), p.node)
        /\ UNCHANGED bstAnswer
     \/ /\ ~SiblingMissing(p)
        /\ BstNull \notin {bstHeap[p.node].left, bstHeap[p.node].right}
        /\ bstHeap' = bst_replace_by_rightmost(p.node, Rightmost(ChildPlace(p.node, "left")))
        /\ UNCHANGED <<bstRoot, bstAnswer>>

\* bst_dispose pops a node, pushes its children and frees it.
RECURSIVE Disposed(_)
Disposed(stack) ==
  IF stack = <<>> THEN {}
  ELSE LET n == Last(stack)
           children == SelectSeq(<<bstHeap[n].left, bstHeap[n].right>>, LAMBDA c : c # BstNull)
       IN {n} \cup Disposed(Front(stack) \o children)

bst_dispose ==
  /\ bstRoot # BstNull
  /\ bstRoot' = BstNull
  /\ bstHeap' = Restrict(bstHeap, DOMAIN bstHeap \ Disposed(<<bstRoot>>))
  /\ UNCHANGED bstAnswer

BstNext ==
  /\ bstAnswer # BstCrash
  /\ \/ \E key \in BstKeys :
          (\E value \in BstValues : bst_insert(key, value)) \/ bst_search(key) \/ bst_delete(key)
     \/ bst_dispose

BstSpec == BstInit /\ [][BstNext]_bstVars
-----------------------------------------------------------------------------
(* The traversals of both implementations, as sequences of nodes *)

\* The nodes down the left links, in the order in which the loops push them.
RECURSIVE LeftSpine(_)
LeftSpine(n) == IF n = BstNull THEN <<>> ELSE <<n>> \o LeftSpine(bstHeap[n].left)

RECURSIVE PreorderLoop(_, _)
PreorderLoop(stack, items) ==
  IF stack = <<>> THEN items
  ELSE LET more == LeftSpine(bstHeap[Last(stack)].right)
       IN PreorderLoop(Front(stack) \o more, items \o more)

\* Mutant: the first way down is not visited.
bst_preorder_unvisited(n) == PreorderLoop(LeftSpine(n), <<>>)

bst_preorder(n) == PreorderLoop(LeftSpine(n), LeftSpine(n))

RECURSIVE InorderLoop(_, _)
InorderLoop(stack, items) ==
  IF stack = <<>> THEN items
  ELSE InorderLoop(Front(stack) \o LeftSpine(bstHeap[Last(stack)].right),
                   Append(items, Last(stack)))
bst_inorder(n) == InorderLoop(LeftSpine(n), <<>>)

\* The second stack says of every node whether it is met for the first time.
FirstVisits(nodes) == [i \in DOMAIN nodes |-> <<nodes[i], TRUE>>]
RECURSIVE PostorderLoop(_, _)
PostorderLoop(stack, items) ==
  IF stack = <<>> THEN items
  ELSE LET n == Last(stack)[1]
       IN IF Last(stack)[2]
          THEN PostorderLoop(Append(Front(stack), <<n, FALSE>>)
                               \o FirstVisits(LeftSpine(bstHeap[n].right)), items)
          ELSE PostorderLoop(Front(stack), Append(items, n))
bst_postorder(n) == PostorderLoop(FirstVisits(LeftSpine(n)), <<>>)

RECURSIVE bst_preorder_rec(_), bst_inorder_rec(_), bst_postorder_rec(_)
bst_preorder_rec(n) ==
  IF n = BstNull THEN <<>>
  ELSE <<n>> \o bst_preorder_rec(bstHeap[n].left) \o bst_preorder_rec(bstHeap[n].right)
bst_inorder_rec(n) ==
  IF n = BstNull THEN <<>>
  ELSE bst_inorder_rec(bstHeap[n].left) \o <<n>> \o bst_inorder_rec(bstHeap[n].right)
bst_postorder_rec(n) ==
  IF n = BstNull THEN <<>>
  ELSE bst_postorder_rec(bstHeap[n].left) \o bst_postorder_rec(bstHeap[n].right) \o <<n>>
-----------------------------------------------------------------------------
(* The recursive search, insertion and deletion, as the trees they leave *)

EmptyTree == <<>>
Tree(key, content, left, right) ==
  [key |-> key, content |-> content, left |-> left, right |-> right]

\* The tree below a node of the heap.
RECURSIVE TreeAt(_, _)
TreeAt(heap, n) ==
  IF n = BstNull THEN EmptyTree
  ELSE Tree(heap[n].key, heap[n].content, TreeAt(heap, heap[n].left), TreeAt(heap, heap[n].right))

RECURSIVE bst_search_rec(_, _)
bst_search_rec(t, key) ==
  IF t = EmptyTree THEN BstNull
  ELSE IF t.key = key THEN t.content
  ELSE bst_search_rec(IF t.key > key THEN t.left ELSE t.right, key)

RECURSIVE bst_insert_rec(_, _, _)
bst_insert_rec(t, key, value) ==
  IF t = EmptyTree THEN Tree(key, value, EmptyTree, EmptyTree)
  ELSE IF t.key = key THEN [t EXCEPT !.content = value]
  ELSE IF key < t.key THEN [t EXCEPT !.left = bst_insert_rec(t.left, key, value)]
  ELSE [t EXCEPT !.right = bst_insert_rec(t.right, key, value)]

RECURSIVE RightmostOf(_), WithoutRightmost(_)
RightmostOf(t) == IF t.right = EmptyTree THEN t ELSE RightmostOf(t.right)
WithoutRightmost(t) ==
  IF t.right = EmptyTree THEN t.left ELSE [t EXCEPT !.right = WithoutRightmost(t.right)]

RECURSIVE bst_delete_rec(_, _)
bst_delete_rec(t, key) ==
  IF t = EmptyTree THEN t
  ELSE IF key < t.key THEN [t EXCEPT !.left = bst_delete_rec(t.left, key)]
  ELSE IF key > t.key THEN [t EXCEPT !.right = bst_delete_rec(t.right, key)]
  ELSE IF t.left = EmptyTree THEN t.right
  ELSE IF t.right = EmptyTree THEN t.left
  ELSE Tree(RightmostOf(t.left).key, RightmostOf(t.left).content,
            WithoutRightmost(t.left), t.right)
-----------------------------------------------------------------------------
(* Properties *)

BstNodesInOrder == bst_inorder_rec(bstRoot)
BstEntries ==
  [key \in {bstHeap[n].key : n \in DOMAIN bstHeap} |->
     bstHeap[CHOOSE n \in DOMAIN bstHeap : bstHeap[n].key = key].content]

BstSpecified == INSTANCE Dictionary
  WITH entries <- BstEntries, answer <- bstAnswer, Absent <- BstNull

\* The tree holds every allocated node once, in the order of the keys, and
\* every operation changes the set of entries as a dictionary does, whatever
\* was inserted and deleted before, as long as none crashed.
TreeIsDictionary ==
  /\ BstSpecified!DictionaryInit
  /\ [](/\ \A i \in 1 .. Len(BstNodesInOrder) - 1 :
             bstHeap[BstNodesInOrder[i]].key < bstHeap[BstNodesInOrder[i + 1]].key
        /\ ToSet(BstNodesInOrder) = DOMAIN bstHeap)
  /\ [][bstVars' # bstVars /\ bstAnswer' # BstCrash =>
         /\ \A key \in BstKeys :
              /\ \A value \in BstValues : bst_insert(key, value) => BstSpecified!Put(key, value)
              /\ bst_search(key) => BstSpecified!Get(key)
              /\ bst_delete(key) => BstSpecified!Erase(key)
         /\ bst_dispose => BstSpecified!EraseAll]_bstVars

\* Both implementations agree: the traversals of any subtree visit the same
\* nodes in the same order, and every call that does not crash leaves the
\* same tree and finds the same content.
IterativeAgreesWithRecursive ==
  /\ [](\A n \in DOMAIN bstHeap \cup {BstNull} :
          /\ bst_preorder(n) = bst_preorder_rec(n)
          /\ bst_inorder(n) = bst_inorder_rec(n)
          /\ bst_postorder(n) = bst_postorder_rec(n))
  /\ [][bstVars' # bstVars /\ bstAnswer' # BstCrash =>
         \A key \in BstKeys :
           /\ \A value \in BstValues :
                bst_insert(key, value) =>
                  TreeAt(bstHeap', bstRoot') = bst_insert_rec(TreeAt(bstHeap, bstRoot), key, value)
           /\ bst_delete(key) =>
                TreeAt(bstHeap', bstRoot') = bst_delete_rec(TreeAt(bstHeap, bstRoot), key)
           /\ bst_search(key) => bstAnswer' = bst_search_rec(TreeAt(bstHeap, bstRoot), key)]_bstVars
=============================================================================
