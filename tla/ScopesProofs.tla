---------------------------- MODULE ScopesProofs ----------------------------
(***************************************************************************)
(* The compiler's flat table of keys, together with its stack of scope     *)
(* numbers, implements nested blocks: for any names, any functions and any *)
(* depth.  It does so because a number that was given out is never given   *)
(* out again, so a block just opened finds no key under its own number.    *)
(***************************************************************************)
EXTENDS Scopes, SequenceTheorems, TLAPS

\* Open scopes have numbers that were given out, each a different one.
StackInv ==
  /\ scope_counter \in Nat
  /\ scope_stack \in Seq(Nat)
  /\ \A i \in 1 .. Len(scope_stack) : scope_stack[i] \in 1 .. scope_counter
  /\ \A i, j \in 1 .. Len(scope_stack) : i < j => scope_stack[i] < scope_stack[j]

\* No key carries a number that is still to be given out.
FreshInv ==
  \A n \in Identifiers, f \in Functions, s \in Nat :
    VarKey(n, s, f) \in declared => s <= scope_counter

ScopesInv == StackInv /\ FreshInv /\ function \in Functions

Frames == [i \in DOMAIN scope_stack |-> FrameOf(scope_stack[i])]

LEMMA FramesAre ==
  ASSUME StackInv
  PROVE  /\ Frames \in Seq(SUBSET Identifiers)
         /\ Len(Frames) = Len(scope_stack)
         /\ \A i \in 1 .. Len(scope_stack) : Frames[i] = FrameOf(scope_stack[i])
<1>1. Len(scope_stack) \in Nat /\ DOMAIN scope_stack = 1 .. Len(scope_stack)
  BY DEF StackInv
<1>2. \A i \in 1 .. Len(scope_stack) : FrameOf(scope_stack[i]) \in SUBSET Identifiers
  BY DEF FrameOf
<1> QED BY <1>1, <1>2 DEF Frames

LEMMA FramesNext ==
  ASSUME StackInv'
  PROVE  /\ Frames' \in Seq(SUBSET Identifiers)
         /\ Len(Frames') = Len(scope_stack')
         /\ \A i \in 1 .. Len(scope_stack') : Frames'[i] = FrameOf(scope_stack[i])'
<1>1. Len(scope_stack') \in Nat /\ DOMAIN scope_stack' = 1 .. Len(scope_stack')
  BY DEF StackInv
<1>2. \A i \in 1 .. Len(scope_stack') : (FrameOf(scope_stack[i]))' \in SUBSET Identifiers
  BY DEF FrameOf
<1> QED BY <1>1, <1>2 DEF Frames

\* The stack after entering k scopes, and after leaving k.
LEMMA Entered ==
  ASSUME StackInv, NEW k \in 1 .. 2, EnterScopes(k)
  PROVE  /\ StackInv'
         /\ Len(scope_stack') = Len(scope_stack) + k
         /\ \A i \in 1 .. Len(scope_stack) : scope_stack'[i] = scope_stack[i]
         /\ \A i \in Len(scope_stack) + 1 .. Len(scope_stack) + k :
              scope_stack'[i] \in Nat /\ scope_stack'[i] > scope_counter
<1> DEFINE new == [i \in 1 .. k |-> scope_counter + i]
<1>1. new \in Seq(Nat) /\ Len(new) = k /\ \A i \in 1 .. k : new[i] = scope_counter + i
  BY DEF StackInv
<1>2. scope_stack' = scope_stack \o new /\ scope_counter' = scope_counter + k
  BY DEF EnterScopes
<1>3. scope_stack \in Seq(Nat) /\ Len(scope_stack) \in Nat /\ scope_counter \in Nat
  BY DEF StackInv
<1> HIDE DEF new
<1>4. /\ scope_stack' \in Seq(Nat)
      /\ Len(scope_stack') = Len(scope_stack) + k
      /\ \A i \in 1 .. Len(scope_stack) + k :
           scope_stack'[i] = IF i <= Len(scope_stack) THEN scope_stack[i]
                             ELSE new[i - Len(scope_stack)]
  BY <1>1, <1>2, <1>3, ConcatProperties
<1>5. \A i \in 1 .. Len(scope_stack) : scope_stack'[i] = scope_stack[i]
  BY <1>3, <1>4
<1>6. ASSUME NEW i \in Len(scope_stack) + 1 .. Len(scope_stack) + k
      PROVE  scope_stack'[i] = scope_counter + (i - Len(scope_stack))
  BY <1>1, <1>3, <1>4, <1>6
<1>7. ASSUME NEW i \in 1 .. Len(scope_stack')
      PROVE  scope_stack'[i] \in 1 .. scope_counter'
  BY <1>2, <1>3, <1>4, <1>5, <1>6, <1>7 DEF StackInv
<1>8. ASSUME NEW i \in 1 .. Len(scope_stack'), NEW j \in 1 .. Len(scope_stack'), i < j
      PROVE  scope_stack'[i] < scope_stack'[j]
  <2>1. CASE j <= Len(scope_stack)
    BY <2>1, <1>3, <1>5, <1>8 DEF StackInv
  <2>2. CASE i <= Len(scope_stack) /\ j > Len(scope_stack)
    <3>1. scope_stack'[i] <= scope_counter /\ scope_stack'[i] \in Nat
      BY <2>2, <1>3, <1>5, <1>8 DEF StackInv
    <3>2. j \in Len(scope_stack) + 1 .. Len(scope_stack) + k
      BY <2>2, <1>3, <1>4, <1>8
    <3>3. scope_stack'[j] = scope_counter + (j - Len(scope_stack))
      BY <3>2, <1>6
    <3> QED BY <3>1, <3>2, <3>3, <1>3
  <2>3. CASE i > Len(scope_stack)
    <3>1. /\ i \in Len(scope_stack) + 1 .. Len(scope_stack) + k
          /\ j \in Len(scope_stack) + 1 .. Len(scope_stack) + k
      BY <2>3, <1>3, <1>4, <1>8
    <3>2. /\ scope_stack'[i] = scope_counter + (i - Len(scope_stack))
          /\ scope_stack'[j] = scope_counter + (j - Len(scope_stack))
      BY <3>1, <1>6
    <3> QED BY <3>1, <3>2, <1>3, <1>8
  <2> QED BY <2>1, <2>2, <2>3, <1>3, <1>4, <1>8
<1>9. StackInv'
  BY <1>2, <1>3, <1>4, <1>7, <1>8 DEF StackInv
<1> QED BY <1>3, <1>4, <1>5, <1>6, <1>9

LEMMA Left ==
  ASSUME StackInv, NEW k \in 1 .. 2, ExitScopes(k)
  PROVE  /\ StackInv'
         /\ Len(scope_stack') = Len(scope_stack) - k
         /\ \A i \in 1 .. Len(scope_stack) - k : scope_stack'[i] = scope_stack[i]
<1>1. /\ scope_stack' = SubSeq(scope_stack, 1, Len(scope_stack) - k)
      /\ Len(scope_stack) >= k /\ scope_counter' = scope_counter
  BY DEF ExitScopes
<1>2. scope_stack \in Seq(Nat) /\ Len(scope_stack) \in Nat /\ scope_counter \in Nat
  BY DEF StackInv
<1>3. /\ scope_stack' \in Seq(Nat)
      /\ Len(scope_stack') = Len(scope_stack) - k
      /\ \A i \in 1 .. Len(scope_stack) - k : scope_stack'[i] = scope_stack[i]
  BY <1>1, <1>2
<1>4. /\ \A i \in 1 .. Len(scope_stack') : scope_stack'[i] \in 1 .. scope_counter'
      /\ \A i, j \in 1 .. Len(scope_stack') : i < j => scope_stack'[i] < scope_stack'[j]
  <2>1. \A i \in 1 .. Len(scope_stack') :
          i \in 1 .. Len(scope_stack) /\ scope_stack'[i] = scope_stack[i]
    BY <1>2, <1>3
  <2>2. scope_counter' = scope_counter
    BY <1>1
  <2> QED BY <2>1, <2>2 DEF StackInv
<1>5. scope_counter' = scope_counter
  BY <1>1
<1>6. StackInv'
  BY <1>2, <1>3, <1>4, <1>5 DEF StackInv
<1> QED BY <1>3, <1>6
-----------------------------------------------------------------------------
(* What the operations do to the frames *)

\* A new scope has no names: its number is greater than those of all keys.
LEMMA Pushed ==
  ASSUME ScopesInv, NEW k \in 1 .. 2, EnterScopes(k), UNCHANGED declared,
         function' \in Functions, scope_stack = <<>> \/ function' = function
  PROVE  Lex!Push(k) /\ ScopesInv'
<1>1. /\ StackInv' /\ Len(scope_stack') = Len(scope_stack) + k
      /\ \A i \in 1 .. Len(scope_stack) : scope_stack'[i] = scope_stack[i]
      /\ \A i \in Len(scope_stack) + 1 .. Len(scope_stack) + k :
           scope_stack'[i] \in Nat /\ scope_stack'[i] > scope_counter
  BY Entered DEF ScopesInv
<1>2. /\ Frames \in Seq(SUBSET Identifiers) /\ Len(Frames) = Len(scope_stack)
      /\ \A i \in 1 .. Len(scope_stack) : Frames[i] = FrameOf(scope_stack[i])
  BY FramesAre DEF ScopesInv
<1>3. /\ Frames' \in Seq(SUBSET Identifiers) /\ Len(Frames') = Len(scope_stack')
      /\ \A i \in 1 .. Len(scope_stack') : Frames'[i] = (FrameOf(scope_stack[i]))'
  BY <1>1, FramesNext
<1>4. Len(scope_stack) \in Nat /\ scope_counter \in Nat
  BY DEF ScopesInv, StackInv
<1>5. ScopesInv'
  <2>1. scope_counter' = scope_counter + k
    BY DEF EnterScopes
  <2>2. \A n \in Identifiers, f \in Functions, s \in Nat :
          VarKey(n, s, f) \in declared' => s <= scope_counter
    BY DEF ScopesInv, FreshInv
  <2>3. FreshInv'
    BY <2>1, <2>2, <1>4 DEF FreshInv, VarKey
  <2> QED BY <1>1, <2>3 DEF ScopesInv
<1> DEFINE new == [i \in 1 .. k |-> {}]
<1>6. new \in Seq(SUBSET Identifiers) /\ Len(new) = k /\ \A i \in 1 .. k : new[i] = {}
  OBVIOUS
<1> HIDE DEF new
<1>7. /\ Frames \o new \in Seq(SUBSET Identifiers)
      /\ Len(Frames \o new) = Len(scope_stack) + k
      /\ \A i \in 1 .. Len(scope_stack) + k :
           (Frames \o new)[i] = IF i <= Len(scope_stack) THEN Frames[i]
                                ELSE new[i - Len(scope_stack)]
  BY <1>2, <1>6, ConcatProperties
<1>8. ASSUME NEW i \in 1 .. Len(Frames')
      PROVE  Frames'[i] = (Frames \o new)[i]
  <2>1. i \in 1 .. Len(scope_stack) + k
    BY <1>1, <1>3, <1>8
  <2>2. CASE i <= Len(scope_stack)
    <3>1. i \in 1 .. Len(scope_stack) /\ scope_stack # <<>>
      BY <2>1, <2>2, <1>4
    <3>2. scope_stack'[i] = scope_stack[i] /\ function' = function
      BY <3>1, <1>1
    <3>3. (FrameOf(scope_stack[i]))' = FrameOf(scope_stack[i])
      BY <3>2 DEF FrameOf, DeclaredIn
    <3> QED BY <3>1, <3>3, <2>1, <2>2, <1>1, <1>2, <1>3, <1>7
  <2>3. CASE ~(i <= Len(scope_stack))
    <3>1. i \in Len(scope_stack) + 1 .. Len(scope_stack) + k /\ i - Len(scope_stack) \in 1 .. k
      BY <2>1, <2>3, <1>4
    <3>2. scope_stack'[i] \in Nat /\ scope_stack'[i] > scope_counter
      BY <3>1, <1>1
    <3>3. ~(scope_stack'[i] <= scope_counter)
      BY <3>2, <1>4
    <3>4. \A n \in Identifiers : VarKey(n, scope_stack'[i], function') \notin declared
      BY <3>2, <3>3 DEF ScopesInv, FreshInv
    <3>5. (FrameOf(scope_stack[i]))' = {}
      BY <3>4 DEF FrameOf, DeclaredIn, VarKey
    <3> QED BY <3>1, <3>5, <2>1, <2>3, <1>1, <1>3, <1>6, <1>7
  <2> QED BY <2>2, <2>3
<1>9. Frames' = Frames \o new
  BY <1>1, <1>3, <1>7, <1>8, SeqEqual
<1> QED BY <1>5, <1>9 DEF Lex!Push, Frames, new

LEMMA Popped ==
  ASSUME ScopesInv, NEW k \in 1 .. 2, ExitScopes(k), UNCHANGED <<declared, function>>
  PROVE  Lex!Pop(k) /\ ScopesInv'
<1>1. /\ StackInv' /\ Len(scope_stack') = Len(scope_stack) - k
      /\ \A i \in 1 .. Len(scope_stack) - k : scope_stack'[i] = scope_stack[i]
  BY Left DEF ScopesInv
<1>2. /\ Frames \in Seq(SUBSET Identifiers) /\ Len(Frames) = Len(scope_stack)
      /\ \A i \in 1 .. Len(scope_stack) : Frames[i] = FrameOf(scope_stack[i])
  BY FramesAre DEF ScopesInv
<1>3. /\ Frames' \in Seq(SUBSET Identifiers) /\ Len(Frames') = Len(scope_stack')
      /\ \A i \in 1 .. Len(scope_stack') : Frames'[i] = (FrameOf(scope_stack[i]))'
  BY <1>1, FramesNext
<1>4. Len(scope_stack) \in Nat /\ Len(scope_stack) >= k /\ scope_counter' = scope_counter
  BY DEF ScopesInv, StackInv, ExitScopes
<1>5. ScopesInv'
  BY <1>1, <1>4 DEF ScopesInv, FreshInv, VarKey
<1>6. /\ SubSeq(Frames, 1, Len(Frames) - k) \in Seq(SUBSET Identifiers)
      /\ Len(SubSeq(Frames, 1, Len(Frames) - k)) = Len(scope_stack) - k
      /\ \A i \in 1 .. Len(scope_stack) - k :
           SubSeq(Frames, 1, Len(Frames) - k)[i] = Frames[i]
  BY <1>2, <1>4
<1>7. ASSUME NEW i \in 1 .. Len(Frames')
      PROVE  Frames'[i] = SubSeq(Frames, 1, Len(Frames) - k)[i]
  <2>1. i \in 1 .. Len(scope_stack) - k /\ i \in 1 .. Len(scope_stack)
    BY <1>1, <1>3, <1>4, <1>7
  <2>2. (FrameOf(scope_stack[i]))' = FrameOf(scope_stack[i])
    BY <2>1, <1>1 DEF FrameOf, DeclaredIn
  <2> QED BY <2>1, <2>2, <1>1, <1>2, <1>3, <1>6
<1>8. Frames' = SubSeq(Frames, 1, Len(Frames) - k)
  BY <1>1, <1>3, <1>6, <1>7, SeqEqual
<1>9. Len(Frames) >= k
  BY <1>2, <1>4
<1> QED BY <1>5, <1>8, <1>9 DEF Lex!Pop, Frames

\* A key entered under the current number changes the innermost frame only,
\* because no other open scope has that number.
LEMMA Bound ==
  ASSUME ScopesInv, NEW n \in Identifiers, scope_stack # <<>>, Enter(n),
         UNCHANGED <<scope_stack, scope_counter, function>>
  PROVE  Lex!BindIn(n) /\ ScopesInv'
<1>1. Len(scope_stack) \in Nat \ {0} /\ current_scope_id = scope_stack[Len(scope_stack)]
  BY DEF ScopesInv, StackInv, current_scope_id
<1>2. current_scope_id \in 1 .. scope_counter /\ scope_counter \in Nat
  BY <1>1 DEF ScopesInv, StackInv
<1>3. declared' = declared \cup {<<n, current_scope_id, function>>}
  BY DEF Enter, CurrentKey, VarKey
<1>4. StackInv'
  BY DEF ScopesInv, StackInv
<1>5. ScopesInv'
  <2>1. ASSUME NEW m \in Identifiers, NEW f \in Functions, NEW s \in Nat, <<m, s, f>> \in declared'
        PROVE  s <= scope_counter
    BY <2>1, <1>2, <1>3 DEF ScopesInv, FreshInv, VarKey
  <2>2. FreshInv'
    BY <2>1 DEF FreshInv, VarKey
  <2> QED BY <2>2, <1>4 DEF ScopesInv
<1>6. /\ Frames \in Seq(SUBSET Identifiers) /\ Len(Frames) = Len(scope_stack)
      /\ \A i \in 1 .. Len(scope_stack) : Frames[i] = FrameOf(scope_stack[i])
  BY FramesAre DEF ScopesInv
<1>7. /\ Frames' \in Seq(SUBSET Identifiers) /\ Len(Frames') = Len(scope_stack)
      /\ \A i \in 1 .. Len(scope_stack) : Frames'[i] = (FrameOf(scope_stack[i]))'
  BY <1>4, FramesNext
<1> DEFINE bound == [Frames EXCEPT ![Len(Frames)] = @ \cup {n}]
<1>8. /\ bound \in Seq(SUBSET Identifiers) /\ Len(bound) = Len(scope_stack)
      /\ \A i \in 1 .. Len(scope_stack) :
           bound[i] = IF i = Len(scope_stack) THEN Frames[i] \cup {n} ELSE Frames[i]
  <2>1. Len(Frames) \in 1 .. Len(Frames)
    BY <1>1, <1>6
  <2>2. Frames[Len(Frames)] \cup {n} \in SUBSET Identifiers
    BY <2>1, <1>6, ElementOfSeq
  <2>3. bound = [Frames EXCEPT ![Len(Frames)] = Frames[Len(Frames)] \cup {n}]
    BY <2>1, <1>6
  <2>4. /\ [Frames EXCEPT ![Len(Frames)] = Frames[Len(Frames)] \cup {n}] \in Seq(SUBSET Identifiers)
        /\ Len([Frames EXCEPT ![Len(Frames)] = Frames[Len(Frames)] \cup {n}]) = Len(Frames)
        /\ \A j \in 1 .. Len(Frames) :
             [Frames EXCEPT ![Len(Frames)] = Frames[Len(Frames)] \cup {n}][j] =
               IF j = Len(Frames) THEN Frames[Len(Frames)] \cup {n} ELSE Frames[j]
    BY <2>1, <2>2, <1>6, ExceptSeq
  <2> HIDE DEF bound
  <2> QED BY <2>3, <2>4, <1>6
<1> HIDE DEF bound
<1>9. ASSUME NEW i \in 1 .. Len(Frames')
      PROVE  Frames'[i] = bound[i]
  <2>1. i \in 1 .. Len(scope_stack)
    BY <1>7, <1>9
  <2>2. CASE i = Len(scope_stack)
    <3>1. (FrameOf(scope_stack[i]))' = FrameOf(scope_stack[i]) \cup {n}
      BY <2>2, <1>1, <1>3 DEF FrameOf, DeclaredIn, VarKey
    <3> QED BY <3>1, <2>1, <2>2, <1>6, <1>7, <1>8
  <2>3. CASE i # Len(scope_stack)
    <3>1. scope_stack[i] < scope_stack[Len(scope_stack)]
      BY <2>1, <2>3, <1>1 DEF ScopesInv, StackInv
    <3>2. scope_stack[i] # current_scope_id
      BY <3>1, <2>1, <1>1, <1>2 DEF ScopesInv, StackInv
    <3>3. (FrameOf(scope_stack[i]))' = FrameOf(scope_stack[i])
      BY <3>2, <1>3 DEF FrameOf, DeclaredIn, VarKey
    <3> QED BY <3>3, <2>1, <2>3, <1>6, <1>7, <1>8
  <2> QED BY <2>2, <2>3
<1>10. Frames' = bound
  BY <1>6, <1>7, <1>8, <1>9, SeqEqual
<1>11. Frames # <<>>
  BY <1>1, <1>6
<1> QED BY <1>5, <1>10, <1>11 DEF Lex!BindIn, Frames, bound

\* Visible to the parser's searches and visible as a block structure says.
LEMMA NotVisible ==
  ASSUME ScopesInv, NEW n \in Identifiers, scope_stack # <<>>,
         ~DeclaredOutside(n), ~DeclaredIn(n, current_scope_id)
  PROVE  ~Lex!Visible(n)
<1>1. Len(scope_stack) \in Nat \ {0} /\ current_scope_id = scope_stack[Len(scope_stack)]
  BY DEF ScopesInv, StackInv, current_scope_id
<1>2. /\ Frames \in Seq(SUBSET Identifiers) /\ Len(Frames) = Len(scope_stack)
      /\ \A i \in 1 .. Len(scope_stack) : Frames[i] = FrameOf(scope_stack[i])
  BY FramesAre DEF ScopesInv
<1>3. ASSUME NEW i \in 1 .. Len(scope_stack)
      PROVE  n \notin Frames[i]
  <2>1. ~DeclaredIn(n, scope_stack[i])
    <3>1. CASE i = Len(scope_stack)
      BY <3>1, <1>1
    <3>2. CASE i # Len(scope_stack)
      <4>1. i \in 0 .. Len(scope_stack) - 1 /\ i # 0
        BY <3>2, <1>1, <1>3
      <4> QED BY <4>1 DEF DeclaredOutside, Hits, ScopeAt
    <3> QED BY <3>1, <3>2
  <2> QED BY <2>1, <1>2 DEF FrameOf
<1>4. DOMAIN Frames = 1 .. Len(scope_stack)
  BY <1>2
<1> QED BY <1>3, <1>4 DEF Lex!Visible, Frames

\* A key that is taken, or nothing at all: no frame changes.
LEMMA Kept ==
  ASSUME ScopesInv, UNCHANGED <<scope_stack, declared>>, scope_counter' \in Nat,
         scope_counter' >= scope_counter, function' \in Functions,
         scope_stack = <<>> \/ function' = function
  PROVE  Frames' = Frames /\ ScopesInv'
<1>1. Frames' = Frames
  <2>1. CASE scope_stack = <<>>
    BY <2>1 DEF Frames
  <2>2. CASE function' = function
    BY <2>2 DEF Frames, FrameOf, DeclaredIn
  <2> QED BY <2>1, <2>2
<1>2. StackInv'
  BY DEF ScopesInv, StackInv
<1>3. FreshInv'
  BY DEF ScopesInv, StackInv, FreshInv, VarKey
<1> QED BY <1>1, <1>2, <1>3 DEF ScopesInv
-----------------------------------------------------------------------------
(* The theorem *)

LEMMA ScopesStart == ScopesInit => ScopesInv /\ Lex!LexInit
<1> SUFFICES ASSUME ScopesInit PROVE ScopesInv /\ Lex!LexInit
  OBVIOUS
<1>1. StackInv /\ FreshInv
  BY DEF ScopesInit, StackInv, FreshInv
<1>2. Frames = <<>>
  BY DEF ScopesInit, Frames
<1> QED BY <1>1, <1>2 DEF ScopesInit, ScopesInv, Lex!LexInit, Frames

LEMMA ScopesStep ==
  ScopesInv /\ [ScopesNext]_scopeVars => ScopesInv' /\ [Lex!LexNext]_Frames
<1> SUFFICES ASSUME ScopesInv, [ScopesNext]_scopeVars
             PROVE  ScopesInv' /\ (Lex!LexNext \/ Frames' = Frames)
  OBVIOUS
<1> 1 \in 1 .. 2 /\ 2 \in 1 .. 2
  OBVIOUS
<1>1. ASSUME NEW f \in Functions, OpenFunction(f)
      PROVE  ScopesInv' /\ Lex!LexNext
  BY <1>1, Pushed DEF OpenFunction, Lex!LexNext
<1>2. ASSUME NEW f \in Functions, SkipFunction(f)
      PROVE  ScopesInv' /\ Frames' = Frames
  <2>1. scope_counter' = scope_counter + 1 /\ scope_counter \in Nat
    BY <1>2 DEF SkipFunction, ScopesInv, StackInv
  <2>2. scope_counter' \in Nat /\ scope_counter' >= scope_counter
    BY <2>1
  <2> QED BY <1>2, <2>2, Kept DEF SkipFunction
<1>3. ASSUME CloseFunction
      PROVE  ScopesInv' /\ Lex!LexNext
  BY <1>3, Popped DEF CloseFunction, Lex!LexNext
<1>4. ASSUME OpenBlock
      PROVE  ScopesInv' /\ Lex!LexNext
  BY <1>4, Pushed DEF OpenBlock, ScopesInv, Lex!LexNext
<1>5. ASSUME CloseBlock
      PROVE  ScopesInv' /\ Lex!LexNext
  BY <1>5, Popped DEF CloseBlock, Lex!LexNext
<1>6. ASSUME NEW n \in Identifiers, DeclareVariable(n)
      PROVE  ScopesInv' /\ Lex!LexNext
  BY <1>6, Bound, NotVisible DEF DeclareVariable, Lex!BindVariable, Lex!LexNext
<1>7. ASSUME NEW n \in Identifiers, DeclareLocal(n)
      PROVE  ScopesInv' /\ (Lex!LexNext \/ Frames' = Frames)
  <2>1. CASE CurrentKey(n) \in declared
    <3>1. UNCHANGED <<scope_stack, scope_counter, declared, function>>
      BY <1>7, <2>1 DEF DeclareLocal, Enter
    <3>2. scope_counter \in Nat /\ scope_counter >= scope_counter /\ function \in Functions
      BY DEF ScopesInv, StackInv
    <3> QED BY <3>1, <3>2, Kept
  <2>2. CASE CurrentKey(n) \notin declared
    <3>1. Lex!BindIn(n) /\ ScopesInv'
      BY <1>7, Bound DEF DeclareLocal
    <3>2. /\ Frames \in Seq(SUBSET Identifiers) /\ Len(Frames) = Len(scope_stack)
          /\ \A i \in 1 .. Len(scope_stack) : Frames[i] = FrameOf(scope_stack[i])
      BY FramesAre DEF ScopesInv
    <3>3. Len(scope_stack) \in Nat \ {0} /\ current_scope_id = scope_stack[Len(scope_stack)]
      BY <1>7 DEF DeclareLocal, ScopesInv, StackInv, current_scope_id
    <3>4. Len(scope_stack) \in 1 .. Len(scope_stack)
      BY <3>3
    <3>5. Frames # <<>> /\ n \notin Frames[Len(Frames)]
      BY <2>2, <3>2, <3>3, <3>4 DEF FrameOf, DeclaredIn, CurrentKey
    <3>6. Lex!BindLocal(n)
      BY <3>1, <3>5 DEF Lex!BindLocal, Frames
    <3> QED BY <3>1, <3>6 DEF Lex!LexNext
  <2> QED BY <2>1, <2>2
<1>8. CASE UNCHANGED scopeVars
  <2>1. UNCHANGED <<scope_stack, scope_counter, declared, function>>
    BY <1>8 DEF scopeVars
  <2>2. scope_counter \in Nat /\ scope_counter >= scope_counter /\ function \in Functions
    BY DEF ScopesInv, StackInv
  <2> QED BY <2>1, <2>2, Kept
<1> QED BY <1>1, <1>2, <1>3, <1>4, <1>5, <1>6, <1>7, <1>8 DEF ScopesNext

\* For any names, any functions and any depth of nesting, keys with scope
\* numbers in a flat table, looked up along the stack of open numbers, are a
\* stack of frames: a block just opened sees no name of its own whatever came
\* before it, and the names of a closed one are gone.
THEOREM KeysAreLexical == ScopesSpec => ScopesAreLexical
<1>1. ScopesSpec => []ScopesInv
  BY ScopesStart, ScopesStep, PTL DEF ScopesSpec
<1>2. ScopesInv /\ [ScopesNext]_scopeVars => [Lex!LexNext]_Frames
  BY ScopesStep
<1>3. ScopesInit => Lex!LexInit
  BY ScopesStart
<1> QED BY <1>1, <1>2, <1>3, PTL DEF ScopesSpec, ScopesAreLexical, Lex!LexSpec, Frames
=============================================================================
