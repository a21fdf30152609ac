--------------------------- MODULE LexicalScopes ----------------------------
(***************************************************************************)
(* What a block-structured language means by scope: a stack of frames, each *)
(* the set of names declared in one open block.  A block starts with an    *)
(* empty frame, closing it forgets its names, and a declaration adds to the *)
(* innermost frame.  The compiler's flat table implements it (Scopes).     *)
(***************************************************************************)
EXTENDS Naturals, Sequences

CONSTANT Identifiers

VARIABLE frames

Visible(n) == \E i \in DOMAIN frames : n \in frames[i]

LexInit == frames = <<>>

\* A block is opened by one or two frames at once (see Scopes).
Push(k) == frames' = frames \o [i \in 1 .. k |-> {}]

Pop(k) == Len(frames) >= k /\ frames' = SubSeq(frames, 1, Len(frames) - k)

BindIn(n) ==
  /\ frames # <<>>
  /\ frames' = [frames EXCEPT ![Len(frames)] = @ \cup {n}]

\* A variable may not hide one that is visible.
BindVariable(n) == ~Visible(n) /\ BindIn(n)

\* A parameter or the variable between pipes only has to be new in its frame.
BindLocal(n) == frames # <<>> /\ n \notin frames[Len(frames)] /\ BindIn(n)

LexNext ==
  \/ \E k \in 1 .. 2 : Push(k) \/ Pop(k)
  \/ \E n \in Identifiers : BindVariable(n) \/ BindLocal(n)

LexSpec == LexInit /\ [][LexNext]_frames
=============================================================================
