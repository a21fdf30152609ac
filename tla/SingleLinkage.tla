---------------------------- MODULE SingleLinkage ----------------------------
(***************************************************************************)
(* Clustering by the nearest neighbour: the classes of a partition are     *)
(* united two by two, always two whose nearest members are nearest to each *)
(* other among all classes.                                                *)
(***************************************************************************)
EXTENDS Integers, FiniteSets

CONSTANT Distance(_, _)     \* of two members

VARIABLE classes

Apart(A, B) == {Distance(a, b) : a \in A, b \in B}

\* No two members of different classes are nearer than the nearest of A and B.
Nearest(A, B) ==
  \E d \in Apart(A, B) :
    \A X, Y \in classes : X # Y => \A e \in Apart(X, Y) : d <= e

Unite ==
  \E A, B \in classes :
    /\ A # B /\ Nearest(A, B)
    /\ classes' = (classes \ {A, B}) \cup {A \cup B}
=============================================================================
