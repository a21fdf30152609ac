-------------------------- MODULE OutputFileProofs --------------------------
(***************************************************************************)
(* The lines of proj2.out are numbered 1, 2, 3, ... for any set of         *)
(* processes and any number of lines.                                      *)
(***************************************************************************)
EXTENDS OutputFile, TLAPS

\* In the initial state the file is empty and nobody holds the semaphore.
LEMMA InitEstablishesIInv == Init => IInv
  BY DEF Init, IInv, TypeOK, Labels, Exclusive, Holds, CounterInv, Numbered

\* Every step of a process that prints a line, and its death, keeps the invariant.
LEMMA StepKeepsIInv == IInv /\ [Next]_vars => IInv'
<1> SUFFICES ASSUME IInv, [Next]_vars PROVE IInv'
  OBVIOUS
<1> USE DEF IInv, TypeOK, Labels, Exclusive, Holds, CounterInv, Numbered, GoTo
<1>1. ASSUME NEW p \in Procs, Wait(p) PROVE IInv'
  BY <1>1 DEF Wait
<1>2. ASSUME NEW p \in Procs, ReadCounter(p) PROVE IInv'
  BY <1>2 DEF ReadCounter
<1>3. ASSUME NEW p \in Procs, StoreCounter(p) PROVE IInv'
  BY <1>3 DEF StoreCounter
<1>4. ASSUME NEW p \in Procs, WriteLine(p) PROVE IInv'
  <2>1. /\ Len(file) \in Nat /\ file' \in Seq(Nat) /\ Len(file') = Len(file) + 1
        /\ \A i \in 1..Len(file) : file'[i] = file[i]
        /\ file'[Len(file) + 1] = Len(file) + 1
    BY <1>4 DEF WriteLine
  <2>2. Numbered'
    <3> SUFFICES ASSUME NEW i \in 1..(Len(file) + 1) PROVE file'[i] = i
      BY <2>1
    <3>1. CASE i \in 1..Len(file)
      BY <2>1, <3>1
    <3>2. CASE i = Len(file) + 1
      BY <2>1, <3>2
    <3> QED BY <2>1, <3>1, <3>2
  <2>3. output # 1 /\ output' # 1
    BY <1>4 DEF WriteLine
  <2>4. output_cnt = Len(file) + 1
    BY <1>4 DEF WriteLine
  <2>5. ASSUME NEW q \in Procs, q # p PROVE at'[q] = at[q] /\ ~Holds(q)
    BY <1>4, <2>5 DEF WriteLine
  <2>6. at'[p] = "post"
    BY <1>4 DEF WriteLine
  <2>7. CounterInv'
    BY <1>4, <2>1, <2>3, <2>4, <2>5, <2>6 DEF WriteLine
  <2>8. TypeOK' /\ Exclusive'
    BY <1>4, <2>1 DEF WriteLine
  <2> QED BY <2>2, <2>7, <2>8
<1>5. ASSUME NEW p \in Procs, Post(p) PROVE IInv'
  BY <1>5 DEF Post
<1>6. ASSUME NEW p \in Procs, End(p) PROVE IInv'
  BY <1>6 DEF End
<1>7. ASSUME NEW p \in Procs, Kill(p) PROVE IInv'
  BY <1>7 DEF Kill
<1>8. CASE Terminated \/ UNCHANGED vars
  BY <1>8 DEF Terminated, vars
<1> QED
  BY <1>1, <1>2, <1>3, <1>4, <1>5, <1>6, <1>7, <1>8 DEF Next

\* The semaphore is held by at most one process, which has read the counter as
\* it is, and every line written so far has its number.
THEOREM OutputInvariance == Spec => []IInv
BY InitEstablishesIInv, StepKeepsIInv, PTL DEF Spec

\* The i-th line of the file carries the number i in every reachable state,
\* whatever the interleaving of the prints and of the kills.
THEOREM LinesAreNumbered == Spec => []Numbered
<1>1. IInv => Numbered
  BY DEF IInv
<1> QED
  BY InitEstablishesIInv, StepKeepsIInv, <1>1, PTL DEF Spec

=============================================================================
