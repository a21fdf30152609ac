---------------------------- MODULE SkibusProofs ----------------------------
(***************************************************************************)
(* The safety of the ski-bus, for any number of skiers and stops, any      *)
(* capacity and any TL.                                                    *)
(***************************************************************************)
EXTENDS Skibus, FiniteSetTheorems, TLAPS

-----------------------------------------------------------------------------
(***************************************************************************)
(* Mutual exclusion and the two hand-overs: these need no counting.        *)
(***************************************************************************)

LEMMA ProcsDisjoint ==
  /\ Bus \in Procs /\ Bus \notin Skiers /\ Skiers \subseteq Procs
  /\ \A p \in Procs : p # Bus => p \in Skiers
  BY ArgumentCheck DEF Bus, Procs, Skiers

\* A skier is forked into a slot that no process has used.
LEMMA ForkedSkier ==
  ASSUME IInv, ForkSkier
  PROVE  /\ forked + 1 \in Skiers /\ pc[forked + 1] = "unborn" /\ main = "forkSkiers"
         /\ forked' = forked + 1 /\ main' \in {"waitBus", "forkSkiers"}
         /\ main' = "forkSkiers" => forked' < L
         /\ pc' = [pc EXCEPT ![forked + 1] = "start"]
         /\ UNCHANGED <<printing, output, bus_arrived, zastavka_sem, boarding,
                        zastavka_capacity, terminus, going_ski, transported_skiers,
                        current_zastavka, current_capacity, waits_on_zastavka, killed>>
  BY ArgumentCheck
  DEF IInv, TypeOK, ForkInv, ForkSkier, GoTo, Skiers, outVars, stopVars, finalVars, busVars

\* Every step keeps the output file with at most one process, at a print.
LEMMA PrintStep ==
  ASSUME IInv, [Next]_vars PROVE PrintInv'
<1> USE ProcsDisjoint DEF IInv, TypeOK, PrintInv, AtPrint, BusPrints, SkierPrints,
         outVars, GoTo, SemWait, SemPost, stopVars, finalVars, busVars, mainVars
<1>1. ASSUME NEW s \in Skiers, Skier(s) PROVE PrintInv'
  <2>1. CASE LockOutput(s)
    BY <2>1 DEF LockOutput
  <2>2. CASE PrintStarted(s) \/ PrintArrived(s) \/ PrintBoarding(s) \/
          PrintGoingToSki(s)
    BY <2>2 DEF PrintStarted, PrintArrived, PrintBoarding, PrintGoingToSki, Printed
  <2>3. CASE Breakfast(s) \/ BreakfastDividesByZero(s) \/ EnterStop(s) \/ Enqueue(s)
    BY <2>3 DEF Breakfast, BreakfastDividesByZero, EnterStop, Enqueue
  <2>4. CASE GetOn(s) \/ Dequeue(s) \/ GetOff(s) \/ CountTransported(s)
    BY <2>4 DEF GetOn, Dequeue, GetOff, CountTransported
  <2> QED BY <1>1, <2>1, <2>2, <2>3, <2>4 DEF Skier
<1>2. CASE BusProcess
  <2>1. CASE LockOutput(Bus)
    BY <2>1 DEF LockOutput
  <2>2. CASE BusPrintStarted \/ BusPrintArrived \/ BusPrintLeaving \/ BusPrintFinal \/
          BusPrintLeavingFinal \/ BusPrintFinish
    BY <2>2 DEF BusPrintStarted, BusPrintArrived, BusPrintLeaving, BusPrintFinal,
           BusPrintLeavingFinal, BusPrintFinish, Printed
  <2>3. CASE BeginRound \/ EndRounds \/ Drive \/ DriveDividesByZero
    BY <2>3 DEF BeginRound, EndRounds, Drive, DriveDividesByZero
  <2>4. CASE CloseStops \/ CallSkier \/ AwaitBoarded \/ StopLoading
    BY <2>4 DEF CloseStops, CallSkier, AwaitBoarded, StopLoading
  <2>5. CASE OpenStops \/ CallOut \/ AwaitGone \/ StopUnloading
    BY <2>5 DEF OpenStops, CallOut, AwaitGone, StopUnloading
  <2> QED BY <1>2, <2>1, <2>2, <2>3, <2>4, <2>5 DEF BusProcess
<1>3. CASE MainProcess
  <2>1. CASE ForkBus
    BY <2>1 DEF ForkBus, ForkInv
  <2>2. CASE ForkSkier
    BY <2>2, ForkedSkier
  <2>3. CASE ForkFails \/ KillSkier \/ KillEveryProcess \/ WaitBus
    BY <2>3 DEF ForkFails, KillSkier, KillEveryProcess, WaitBus
  <2> QED BY <1>3, <2>1, <2>2, <2>3 DEF MainProcess
<1>4. CASE Terminated \/ UNCHANGED vars
  BY <1>4 DEF Terminated, vars
<1> QED BY <1>1, <1>2, <1>3, <1>4 DEF Next

\* Every step keeps the gate with one owner, or free.
LEMMA GateStep ==
  ASSUME IInv, [Next]_vars PROVE GateOwned'
<1> USE ProcsDisjoint DEF IInv, TypeOK, GateOwned, InGate, GoTo, SemWait, SemPost,
         stopVars, finalVars, busVars, mainVars
<1>1. ASSUME NEW s \in Skiers, Skier(s) PROVE GateOwned'
  <2>1. CASE LockOutput(s)
    BY <2>1 DEF LockOutput
  <2>2. CASE PrintStarted(s) \/ PrintArrived(s) \/ PrintBoarding(s) \/
          PrintGoingToSki(s)
    BY <2>2 DEF PrintStarted, PrintArrived, PrintBoarding, PrintGoingToSki, Printed
  <2>3. CASE Breakfast(s) \/ BreakfastDividesByZero(s) \/ GetOn(s) \/ Dequeue(s)
    BY <2>3 DEF Breakfast, BreakfastDividesByZero, GetOn, Dequeue
  <2>4. CASE GetOff(s) \/ CountTransported(s)
    BY <2>4 DEF GetOff, CountTransported
  <2>5. CASE EnterStop(s)
    BY <2>5 DEF EnterStop
  <2>6. CASE Enqueue(s)
    BY <2>6 DEF Enqueue
  <2> QED BY <1>1, <2>1, <2>2, <2>3, <2>4, <2>5, <2>6 DEF Skier
<1>2. CASE BusProcess
  <2>1. CASE LockOutput(Bus)
    BY <2>1 DEF LockOutput
  <2>2. CASE BusPrintStarted \/ BusPrintFinal \/ BusPrintLeavingFinal \/ BusPrintFinish
    BY <2>2 DEF BusPrintStarted, BusPrintFinal, BusPrintLeavingFinal, BusPrintFinish,
           Printed
  <2>3. CASE BusPrintArrived
    BY <2>3 DEF BusPrintArrived, Printed
  <2>4. CASE BusPrintLeaving
    BY <2>4 DEF BusPrintLeaving, Printed
  <2>5. CASE BeginRound \/ EndRounds \/ Drive \/ DriveDividesByZero
    BY <2>5, ArgumentCheck DEF BeginRound, EndRounds, Drive, DriveDividesByZero
  <2>6. CASE CallSkier \/ AwaitBoarded \/ StopLoading \/ CallOut
    BY <2>6 DEF CallSkier, AwaitBoarded, StopLoading, CallOut
  <2>7. CASE AwaitGone \/ StopUnloading
    BY <2>7 DEF AwaitGone, StopUnloading
  <2>8. CASE CloseStops
    BY <2>8 DEF CloseStops
  <2>9. CASE OpenStops
    BY <2>9 DEF OpenStops
  <2> QED BY <1>2, <2>1, <2>2, <2>3, <2>4, <2>5, <2>6, <2>7, <2>8, <2>9 DEF BusProcess
<1>3. CASE MainProcess
  <2>1. CASE ForkBus
    BY <2>1 DEF ForkBus, ForkInv
  <2>2. CASE ForkSkier
    BY <2>2, ForkedSkier
  <2>3. CASE ForkFails \/ KillSkier \/ KillEveryProcess \/ WaitBus
    BY <2>3 DEF ForkFails, KillSkier, KillEveryProcess, WaitBus
  <2> QED BY <1>3, <2>1, <2>2, <2>3 DEF MainProcess
<1>4. CASE Terminated \/ UNCHANGED vars
  BY <1>4 DEF Terminated, vars
<1> QED BY <1>1, <1>2, <1>3, <1>4 DEF Next

\* Every step keeps at most one skier called, and only while the bus waits.
LEMMA BoardingStep ==
  ASSUME IInv, [Next]_vars PROVE BoardingInv'
<1> USE ProcsDisjoint DEF IInv, TypeOK, BoardingInv, Called, Stops, GoTo, SemWait,
         SemPost, stopVars, finalVars, busVars, mainVars
<1>1. ASSUME NEW s \in Skiers, Skier(s) PROVE BoardingInv'
  <2>1. CASE LockOutput(s)
    BY <2>1 DEF LockOutput
  <2>2. CASE PrintStarted(s) \/ PrintArrived(s) \/ PrintGoingToSki(s)
    BY <2>2 DEF PrintStarted, PrintArrived, PrintGoingToSki, Printed
  <2>3. CASE PrintBoarding(s)
    BY <2>3 DEF PrintBoarding, Printed
  <2>4. CASE Breakfast(s) \/ BreakfastDividesByZero(s) \/ EnterStop(s) \/ GetOff(s)
    BY <2>4 DEF Breakfast, BreakfastDividesByZero, EnterStop, GetOff
  <2>5. CASE CountTransported(s)
    BY <2>5 DEF CountTransported
  <2>6. CASE Enqueue(s)
    BY <2>6 DEF Enqueue
  <2>7. CASE GetOn(s)
    BY <2>7 DEF GetOn
  <2>8. CASE Dequeue(s)
    BY <2>8 DEF Dequeue
  <2> QED BY <1>1, <2>1, <2>2, <2>3, <2>4, <2>5, <2>6, <2>7, <2>8 DEF Skier
<1>2. CASE BusProcess
  <2>1. CASE LockOutput(Bus)
    BY <2>1 DEF LockOutput
  <2>2. CASE BusPrintStarted \/ BusPrintArrived \/ BusPrintLeaving \/ BusPrintFinal \/
          BusPrintLeavingFinal \/ BusPrintFinish
    BY <2>2 DEF BusPrintStarted, BusPrintArrived, BusPrintLeaving, BusPrintFinal,
           BusPrintLeavingFinal, BusPrintFinish, Printed
  <2>3. CASE EndRounds \/ Drive \/ DriveDividesByZero \/ CloseStops
    BY <2>3 DEF EndRounds, Drive, DriveDividesByZero, CloseStops
  <2>4. CASE StopLoading \/ CallOut \/ AwaitGone \/ StopUnloading
    BY <2>4 DEF StopLoading, CallOut, AwaitGone, StopUnloading
  <2>5. CASE BeginRound
    BY <2>5, ArgumentCheck DEF BeginRound
  <2>6. CASE CallSkier
    BY <2>6 DEF CallSkier
  <2>7. CASE AwaitBoarded
    BY <2>7 DEF AwaitBoarded
  <2>8. CASE OpenStops
    BY <2>8, ArgumentCheck DEF OpenStops
  <2> QED BY <1>2, <2>1, <2>2, <2>3, <2>4, <2>5, <2>6, <2>7, <2>8 DEF BusProcess
<1>3. CASE MainProcess
  <2>1. CASE ForkBus
    BY <2>1 DEF ForkBus, ForkInv
  <2>2. CASE ForkSkier
    BY <2>2, ForkedSkier
  <2>3. CASE ForkFails \/ KillSkier \/ KillEveryProcess \/ WaitBus
    BY <2>3 DEF ForkFails, KillSkier, KillEveryProcess, WaitBus
  <2> QED BY <1>3, <2>1, <2>2, <2>3 DEF MainProcess
<1>4. CASE Terminated \/ UNCHANGED vars
  BY <1>4 DEF Terminated, vars
<1> QED BY <1>1, <1>2, <1>3, <1>4 DEF Next

\* Every step keeps at most one skier let out, and only while the bus waits.
LEMMA TerminusStep ==
  ASSUME IInv, [Next]_vars PROVE TerminusInv'
<1> USE ProcsDisjoint DEF IInv, TypeOK, TerminusInv, Leaving, GoTo, SemWait, SemPost,
         stopVars, finalVars, busVars, mainVars
<1>1. ASSUME NEW s \in Skiers, Skier(s) PROVE TerminusInv'
  <2>1. CASE LockOutput(s)
    BY <2>1 DEF LockOutput
  <2>2. CASE PrintStarted(s) \/ PrintArrived(s) \/ PrintBoarding(s)
    BY <2>2 DEF PrintStarted, PrintArrived, PrintBoarding, Printed
  <2>3. CASE PrintGoingToSki(s)
    BY <2>3 DEF PrintGoingToSki, Printed
  <2>4. CASE Breakfast(s) \/ BreakfastDividesByZero(s) \/ EnterStop(s) \/ Enqueue(s)
    BY <2>4 DEF Breakfast, BreakfastDividesByZero, EnterStop, Enqueue
  <2>5. CASE GetOn(s) \/ Dequeue(s)
    BY <2>5 DEF GetOn, Dequeue
  <2>6. CASE GetOff(s)
    BY <2>6 DEF GetOff
  <2>7. CASE CountTransported(s)
    BY <2>7 DEF CountTransported
  <2> QED BY <1>1, <2>1, <2>2, <2>3, <2>4, <2>5, <2>6, <2>7 DEF Skier
<1>2. CASE BusProcess
  <2>1. CASE LockOutput(Bus)
    BY <2>1 DEF LockOutput
  <2>2. CASE BusPrintStarted \/ BusPrintArrived \/ BusPrintLeaving \/ BusPrintFinal \/
          BusPrintLeavingFinal \/ BusPrintFinish
    BY <2>2 DEF BusPrintStarted, BusPrintArrived, BusPrintLeaving, BusPrintFinal,
           BusPrintLeavingFinal, BusPrintFinish, Printed
  <2>3. CASE BeginRound \/ EndRounds \/ Drive \/ DriveDividesByZero
    BY <2>3 DEF BeginRound, EndRounds, Drive, DriveDividesByZero
  <2>4. CASE CloseStops \/ CallSkier \/ AwaitBoarded \/ StopLoading
    BY <2>4 DEF CloseStops, CallSkier, AwaitBoarded, StopLoading
  <2>5. CASE OpenStops \/ StopUnloading
    BY <2>5 DEF OpenStops, StopUnloading
  <2>6. CASE CallOut
    BY <2>6 DEF CallOut
  <2>7. CASE AwaitGone
    BY <2>7 DEF AwaitGone
  <2> QED BY <1>2, <2>1, <2>2, <2>3, <2>4, <2>5, <2>6, <2>7 DEF BusProcess
<1>3. CASE MainProcess
  <2>1. CASE ForkBus
    BY <2>1 DEF ForkBus, ForkInv
  <2>2. CASE ForkSkier
    BY <2>2, ForkedSkier
  <2>3. CASE ForkFails \/ KillSkier \/ KillEveryProcess \/ WaitBus
    BY <2>3 DEF ForkFails, KillSkier, KillEveryProcess, WaitBus
  <2> QED BY <1>3, <2>1, <2>2, <2>3 DEF MainProcess
<1>4. CASE Terminated \/ UNCHANGED vars
  BY <1>4 DEF Terminated, vars
<1> QED BY <1>1, <1>2, <1>3, <1>4 DEF Next

-----------------------------------------------------------------------------
(***************************************************************************)
(* Counting.                                                               *)
(***************************************************************************)

\* The skiers, and every set of them, are finite.
LEMMA SkiersFinite ==
  /\ IsFiniteSet(Skiers) /\ Cardinality(Skiers) = L
  /\ \A S \in SUBSET Skiers : IsFiniteSet(S) /\ Cardinality(S) \in 0..L
<1>1. IsFiniteSet(Skiers) /\ Cardinality(Skiers) = L
  BY ArgumentCheck, FS_Interval DEF Skiers
<1>2. ASSUME NEW S \in SUBSET Skiers PROVE IsFiniteSet(S) /\ Cardinality(S) \in 0..L
  BY <1>1, FS_Subset, FS_CardinalityType, ArgumentCheck
<1> QED BY <1>1, <1>2

\* One more, or one less, member of a set of skiers.
LEMMA CountOne ==
  ASSUME NEW S \in SUBSET Skiers, NEW s \in Skiers
  PROVE  /\ s \notin S => Cardinality(S \cup {s}) = Cardinality(S) + 1
         /\ s \in S => Cardinality(S \ {s}) = Cardinality(S) - 1
         /\ s \in S => S \cup {s} = S
         /\ s \notin S => S \ {s} = S
         /\ Cardinality(S) \in Nat
         /\ Cardinality(S) = 0 <=> S = {}
<1>1. IsFiniteSet(S) /\ Cardinality(S) \in Nat /\ IsFiniteSet(S \ {s})
  BY SkiersFinite, FS_CardinalityType, FS_RemoveElement
<1>2. s \notin S => Cardinality(S \cup {s}) = Cardinality(S) + 1
  BY <1>1, FS_AddElement
<1>3. s \in S => Cardinality(S \ {s}) = Cardinality(S) - 1
  BY <1>1, FS_RemoveElement
<1>4. Cardinality(S) = 0 <=> S = {}
  BY <1>1, FS_EmptySet
<1> QED BY <1>1, <1>2, <1>3, <1>4

\* Where a step of skier s to a control point l leaves the sets of skiers.
LEMMA SkierMoves ==
  ASSUME TypeOK, NEW s \in Skiers, NEW l,
         pc' = [pc EXCEPT ![s] = l], waits_on_zastavka' = waits_on_zastavka
  PROVE  /\ \A z \in Stops :
              Standing(z)' = IF l \in {"wait", "board", "dequeue"} /\ waits_on_zastavka[s] = z
                             THEN Standing(z) \cup {s} ELSE Standing(z) \ {s}
         /\ Aboard' = IF l \in {"dequeue", "aboard", "alight"}
                      THEN Aboard \cup {s} ELSE Aboard \ {s}
         /\ Skied' = IF l = "done" THEN Skied \cup {s} ELSE Skied \ {s}
  BY ProcsDisjoint DEF TypeOK, Standing, Aboard, Skied

\* A step that moves no skier, or one outside the sets, leaves them as they are.
LEMMA NobodyMoves ==
  ASSUME TypeOK,
         \A s \in Skiers : \/ pc'[s] = pc[s] /\ waits_on_zastavka'[s] = waits_on_zastavka[s]
                          \/ {pc[s], pc'[s]} \cap {"wait", "board", "dequeue", "aboard",
                                                    "alight", "done"} = {}
  PROVE  /\ \A z \in Stops : Standing(z)' = Standing(z)
         /\ Aboard' = Aboard /\ Skied' = Skied
  BY DEF Standing, Aboard, Skied

\* The bus changes nothing that a skier or main owns.
LEMMA BusMovesNoSkier ==
  ASSUME IInv, BusProcess
  PROVE  /\ \A s \in Skiers : pc'[s] = pc[s]
         /\ UNCHANGED <<waits_on_zastavka, zastavka_capacity, main, forked, killed>>
         /\ transported_skiers' = transported_skiers \/ BusPrintStarted
  BY ProcsDisjoint DEF BusProcess, LockOutput, BusPrintStarted, BeginRound, EndRounds, Drive,
    DriveDividesByZero, CloseStops, BusPrintArrived, CallSkier, AwaitBoarded, StopLoading,
    BusPrintLeaving, OpenStops, BusPrintFinal, CallOut, AwaitGone, StopUnloading,
    BusPrintLeavingFinal, BusPrintFinish, IInv, TypeOK, GoTo, stopVars, finalVars, mainVars

\* The steps that move a skier in or out of one of the sets, or within it.
Moving(s) == Enqueue(s) \/ GetOn(s) \/ PrintBoarding(s) \/ Dequeue(s) \/ GetOff(s)
               \/ PrintGoingToSki(s) \/ CountTransported(s)

\* No other step changes the sets or the counts.
LEMMA OthersKeepSets ==
  ASSUME IInv, [Next]_vars, \A s \in Skiers : ~Moving(s)
  PROVE  /\ \A z \in Stops : Standing(z)' = Standing(z)
         /\ Aboard' = Aboard /\ Skied' = Skied
         /\ zastavka_capacity' = zastavka_capacity
         /\ transported_skiers' = transported_skiers \/ BusPrintStarted
<1> DEFINE Kept == /\ \A z \in Stops : Standing(z)' = Standing(z)
                   /\ Aboard' = Aboard /\ Skied' = Skied
                   /\ zastavka_capacity' = zastavka_capacity
                   /\ transported_skiers' = transported_skiers \/ BusPrintStarted
<1> USE ProcsDisjoint DEF IInv, GoTo, stopVars, finalVars, mainVars
<1>1. ASSUME NEW s \in Skiers, Skier(s) PROVE Kept
  <2>1. LockOutput(s) \/ PrintStarted(s) \/ Breakfast(s) \/ BreakfastDividesByZero(s)
          \/ EnterStop(s) \/ PrintArrived(s)
    BY <1>1 DEF Skier, Moving
  <2>2. /\ zastavka_capacity' = zastavka_capacity /\ transported_skiers' = transported_skiers
        /\ \A t \in Skiers :
             \/ pc'[t] = pc[t] /\ waits_on_zastavka'[t] = waits_on_zastavka[t]
             \/ {pc[t], pc'[t]} \cap {"wait", "board", "dequeue", "aboard",
                                      "alight", "done"} = {}
    BY <2>1 DEF LockOutput, PrintStarted, Breakfast, BreakfastDividesByZero, EnterStop,
                PrintArrived, TypeOK
  <2> QED BY <2>2, NobodyMoves
<1>2. CASE BusProcess
  <2> QED BY <1>2, BusMovesNoSkier, NobodyMoves
<1>3. CASE MainProcess
  <2>1. CASE ForkSkier
    <3>1. \A t \in Skiers :
             \/ pc'[t] = pc[t] /\ waits_on_zastavka'[t] = waits_on_zastavka[t]
             \/ {pc[t], pc'[t]} \cap {"wait", "board", "dequeue", "aboard",
                                      "alight", "done"} = {}
      BY <2>1, ForkedSkier DEF TypeOK
    <3> QED BY <2>1, <3>1, ForkedSkier, NobodyMoves
  <2>2. CASE ForkBus \/ ForkFails \/ KillSkier \/ KillEveryProcess \/ WaitBus
    <3>1. /\ zastavka_capacity' = zastavka_capacity
          /\ transported_skiers' = transported_skiers
          /\ \A t \in Skiers : pc'[t] = pc[t] /\ waits_on_zastavka'[t] = waits_on_zastavka[t]
      BY <2>2 DEF ForkBus, ForkFails, KillSkier, KillEveryProcess, WaitBus, TypeOK
    <3> QED BY <3>1, NobodyMoves
  <2> QED BY <1>3, <2>1, <2>2 DEF MainProcess
<1>4. CASE Terminated \/ UNCHANGED vars
  <2>1. UNCHANGED vars
    BY <1>4 DEF Terminated
  <2> QED BY <2>1, NobodyMoves DEF vars
<1> QED BY <1>1, <1>2, <1>3, <1>4 DEF Next

\* A stop's count follows the skiers that stand there: up with the one that
\* arrives, down with the one that has boarded.
LEMMA StopCountStep ==
  ASSUME IInv, [Next]_vars PROVE StopCountsAreExact'
<1> USE DEF IInv, GoTo
<1> SUFFICES ASSUME NEW z \in Stops
             PROVE  zastavka_capacity'[z] = Cardinality(Standing(z)')
  BY DEF StopCountsAreExact
<1>1. zastavka_capacity[z] = Cardinality(Standing(z)) /\ Standing(z) \in SUBSET Skiers
  BY DEF StopCountsAreExact, Standing
<1>2. ASSUME NEW s \in Skiers, Enqueue(s) PROVE zastavka_capacity'[z] = Cardinality(Standing(z)')
  <2>1. s \notin Standing(z)
    BY <1>2 DEF Enqueue, Standing
  <2>2. Standing(z)' = IF waits_on_zastavka[s] = z THEN Standing(z) \cup {s}
                                                    ELSE Standing(z) \ {s}
    BY <1>2, SkierMoves DEF Enqueue
  <2>3. zastavka_capacity'[z] = IF waits_on_zastavka[s] = z THEN zastavka_capacity[z] + 1
                                                           ELSE zastavka_capacity[z]
    BY <1>2 DEF Enqueue, TypeOK
  <2>4. CASE waits_on_zastavka[s] = z
    BY <1>1, <2>1, <2>2, <2>3, <2>4, CountOne
  <2>5. CASE waits_on_zastavka[s] # z
    BY <1>1, <2>1, <2>2, <2>3, <2>5
  <2> QED BY <2>4, <2>5
<1>3. ASSUME NEW s \in Skiers, Dequeue(s) PROVE zastavka_capacity'[z] = Cardinality(Standing(z)')
  <2>1. s \in Standing(z) <=> waits_on_zastavka[s] = z
    BY <1>3 DEF Dequeue, Standing
  <2>2. Standing(z)' = Standing(z) \ {s}
    BY <1>3, SkierMoves DEF Dequeue
  <2>3. zastavka_capacity'[z] = IF waits_on_zastavka[s] = z THEN zastavka_capacity[z] - 1
                                                           ELSE zastavka_capacity[z]
    BY <1>3 DEF Dequeue, TypeOK
  <2> QED BY <1>1, <2>1, <2>2, <2>3, CountOne
<1>4. ASSUME NEW s \in Skiers, GetOn(s) \/ PrintBoarding(s)
      PROVE  zastavka_capacity'[z] = Cardinality(Standing(z)')
  <2>1. s \in Standing(z) <=> waits_on_zastavka[s] = z
    BY <1>4 DEF GetOn, PrintBoarding, Standing
  <2>2. Standing(z)' = IF waits_on_zastavka[s] = z THEN Standing(z) \cup {s}
                                                    ELSE Standing(z) \ {s}
    <3>1. CASE GetOn(s)
      BY <3>1, SkierMoves DEF GetOn
    <3>2. CASE PrintBoarding(s)
      BY <3>2, SkierMoves DEF PrintBoarding
    <3> QED BY <1>4, <3>1, <3>2
  <2>3. Standing(z)' = Standing(z)
    BY <1>1, <2>1, <2>2, CountOne
  <2> QED BY <1>1, <1>4, <2>3 DEF GetOn, PrintBoarding, stopVars
<1>5. ASSUME NEW s \in Skiers, GetOff(s) \/ PrintGoingToSki(s) \/ CountTransported(s)
      PROVE  zastavka_capacity'[z] = Cardinality(Standing(z)')
  <2>1. s \notin Standing(z)
    BY <1>5 DEF GetOff, PrintGoingToSki, CountTransported, Standing
  <2>2. Standing(z)' = Standing(z) \ {s}
    <3>1. /\ \E l \in {"alight", "count", "done"} : pc' = [pc EXCEPT ![s] = l]
          /\ waits_on_zastavka' = waits_on_zastavka
      BY <1>5 DEF GetOff, PrintGoingToSki, CountTransported
    <3> QED BY <3>1, SkierMoves
  <2>3. Standing(z)' = Standing(z)
    BY <2>1, <2>2
  <2> QED BY <1>1, <1>5, <2>3 DEF GetOff, PrintGoingToSki, CountTransported, stopVars
<1>6. CASE \A s \in Skiers : ~Moving(s)
  BY <1>1, <1>6, OthersKeepSets
<1> QED BY <1>2, <1>3, <1>4, <1>5, <1>6 DEF Moving

\* transported_skiers follows the skiers on the slopes.
LEMMA TransportedStep ==
  ASSUME IInv, [Next]_vars PROVE TransportedInv'
<1> USE ProcsDisjoint DEF IInv, GoTo
<1>1. Skied \in SUBSET Skiers /\ transported_skiers = Cardinality(Skied)
  BY DEF TransportedInv, Skied
<1>2. ASSUME NEW s \in Skiers, CountTransported(s) PROVE TransportedInv'
  <2>1. s \notin Skied /\ pc[Bus] = "skiWait"
    BY <1>2 DEF CountTransported, Skied, TerminusInv, Leaving
  <2>2. Skied' = Skied \cup {s} /\ transported_skiers' = transported_skiers + 1
    BY <1>2, SkierMoves DEF CountTransported
  <2>3. pc'[Bus] = "skiWait"
    BY <1>2, <2>1 DEF CountTransported, TypeOK
  <2> QED BY <1>1, <2>1, <2>2, <2>3, CountOne DEF TransportedInv
<1>3. ASSUME NEW s \in Skiers, Moving(s), ~CountTransported(s) PROVE TransportedInv'
  <2>1. s \notin Skied
    BY <1>3 DEF Moving, Enqueue, GetOn, PrintBoarding, Dequeue, GetOff, PrintGoingToSki, Skied
  <2>2. transported_skiers' = transported_skiers /\ pc'[Bus] = pc[Bus]
    BY <1>3 DEF Moving, Enqueue, GetOn, PrintBoarding, Dequeue, GetOff, PrintGoingToSki,
                TypeOK, finalVars
  <2>3. Skied' = Skied \ {s}
    BY <1>3, SkierMoves DEF Moving, Enqueue, GetOn, PrintBoarding, Dequeue, GetOff,
                            PrintGoingToSki
  <2> QED BY <1>1, <2>1, <2>2, <2>3 DEF TransportedInv
<1>4. CASE \A s \in Skiers : ~Moving(s)
  <2>1. Skied' = Skied
    BY <1>4, OthersKeepSets
  <2>2. CASE BusPrintStarted
    <3>1. Skied = {} /\ transported_skiers' = 0 /\ pc'[Bus] = "loop"
      BY <2>2 DEF BusPrintStarted, TransportedInv, TypeOK
    <3> QED BY <2>1, <3>1, FS_EmptySet DEF TransportedInv
  <2>3. CASE ~BusPrintStarted
    <3>1. transported_skiers' = transported_skiers
      BY <1>4, <2>3, OthersKeepSets
    <3>2. pc'[Bus] \in {"unborn", "start"} => pc[Bus] \in {"unborn", "start"}
      <4>1. CASE BusProcess
        BY <4>1, <2>3 DEF BusProcess, LockOutput, BeginRound, EndRounds, Drive,
          DriveDividesByZero, CloseStops, BusPrintArrived, CallSkier, AwaitBoarded,
          StopLoading, BusPrintLeaving, OpenStops, BusPrintFinal, CallOut, AwaitGone,
          StopUnloading, BusPrintLeavingFinal, BusPrintFinish, TypeOK
      <4>2. ASSUME NEW s \in Skiers, Skier(s) PROVE pc'[Bus] = pc[Bus]
        BY <4>2, <1>4 DEF Skier, Moving, LockOutput, PrintStarted, Breakfast,
          BreakfastDividesByZero, EnterStop, PrintArrived, TypeOK
      <4>3. CASE MainProcess
        BY <4>3, ForkedSkier DEF MainProcess, ForkBus, ForkFails, KillSkier,
          KillEveryProcess, WaitBus, ForkInv, TypeOK
      <4>4. CASE Terminated \/ UNCHANGED vars
        BY <4>4 DEF Terminated, vars
      <4> QED BY <4>1, <4>2, <4>3, <4>4 DEF Next
    <3> QED BY <1>1, <2>1, <3>1, <3>2 DEF TransportedInv
  <2> QED BY <2>2, <2>3
<1> QED BY <1>2, <1>3, <1>4

\* What the hand-over invariants say of the two one-skier differences.
LEMMA Differences ==
  ASSUME IInv
  PROVE  /\ CalledNotAboard => pc[Bus] = "boardWait"
         /\ LetOutNotGone => pc[Bus] = "skiWait"
         /\ Aboard \in SUBSET Skiers
  BY DEF IInv, BoardingInv, TerminusInv, CalledNotAboard, LetOutNotGone, Called, Leaving, Aboard

\* A step that leaves the bus where it is, and the skiers that the seats count.
LEMMA SeatsKept ==
  ASSUME IInv, pc'[Bus] = pc[Bus], Aboard' = Aboard,
         CalledNotAboard' <=> CalledNotAboard, LetOutNotGone' <=> LetOutNotGone,
         current_capacity' = current_capacity, current_zastavka' = current_zastavka,
         pc[Bus] = "leave" => zastavka_capacity'[current_zastavka] = zastavka_capacity[current_zastavka]
  PROVE  SeatsInv'
  BY DEF IInv, SeatsInv

\* current_capacity counts the skiers in the bus, up to the one being called
\* or let out.
LEMMA SeatsStep ==
  ASSUME IInv, [Next]_vars PROVE SeatsInv'
<1> USE ProcsDisjoint DEF GoTo, SemWait, SemPost
<1>1. ASSUME NEW s \in Skiers, Skier(s) PROVE SeatsInv'
  <2>1. CASE ~Moving(s)
    <3>1. LockOutput(s) \/ PrintStarted(s) \/ Breakfast(s) \/ BreakfastDividesByZero(s)
            \/ EnterStop(s) \/ PrintArrived(s)
      BY <1>1, <2>1 DEF Skier, Moving
    <3>2. /\ pc'[Bus] = pc[Bus] /\ CalledNotAboard' = CalledNotAboard
          /\ LetOutNotGone' = LetOutNotGone /\ Aboard' = Aboard
          /\ UNCHANGED <<zastavka_capacity, current_capacity, current_zastavka>>
      BY <3>1 DEF LockOutput, PrintStarted, Breakfast, BreakfastDividesByZero, EnterStop,
        PrintArrived, IInv, TypeOK, CalledNotAboard, LetOutNotGone, Aboard, stopVars,
        finalVars, busVars
    <3> QED BY <3>2, SeatsKept
  <2>2. CASE Enqueue(s)
    <3>1. pc[Bus] # "leave"
      BY <2>2 DEF Enqueue, IInv, GateOwned, InGate
    <3>2. /\ pc'[Bus] = pc[Bus] /\ CalledNotAboard' = CalledNotAboard
          /\ LetOutNotGone' = LetOutNotGone /\ Aboard' = Aboard
          /\ UNCHANGED <<current_capacity, current_zastavka>>
      BY <2>2 DEF Enqueue, IInv, TypeOK, CalledNotAboard, LetOutNotGone, Aboard, finalVars,
                  busVars
    <3> QED BY <3>1, <3>2, SeatsKept
  <2>3. CASE GetOn(s)
    <3>1. pc[Bus] = "boardWait" /\ CalledNotAboard
      BY <2>3 DEF GetOn, IInv, TypeOK, BoardingInv, CalledNotAboard
    <3>2. /\ pc'[Bus] = pc[Bus] /\ CalledNotAboard' /\ LetOutNotGone' = LetOutNotGone
          /\ Aboard' = Aboard /\ UNCHANGED <<current_capacity, current_zastavka>>
      BY <2>3 DEF GetOn, IInv, TypeOK, CalledNotAboard, LetOutNotGone, Aboard, finalVars,
                  busVars
    <3> QED BY <3>1, <3>2, SeatsKept
  <2>4. CASE PrintBoarding(s)
    <3>1. pc[Bus] = "boardWait" /\ CalledNotAboard /\ s \notin Aboard /\ ~LetOutNotGone
      BY <2>4, Differences DEF PrintBoarding, IInv, CalledNotAboard, Aboard, BoardingInv, Called
    <3>2. Aboard' = Aboard \cup {s}
      BY <2>4, SkierMoves DEF PrintBoarding, IInv
    <3>3. pc'[Bus] = "boardWait" /\ ~LetOutNotGone'
          /\ UNCHANGED <<current_capacity, current_zastavka>>
      BY <2>4, <3>1 DEF PrintBoarding, IInv, TypeOK, LetOutNotGone, finalVars, busVars
    <3>4. ~CalledNotAboard'
      BY <2>4 DEF PrintBoarding, IInv, TypeOK, CalledNotAboard, BoardingInv, Called, stopVars
    <3>5. Cardinality(Aboard') = Cardinality(Aboard) + 1
      BY <3>1, <3>2, CountOne, Differences DEF IInv
    <3>6. current_capacity = Cardinality(Aboard) + 1 /\ current_capacity \in 0..K
      BY <3>1 DEF IInv, SeatsInv
    <3>7. Cardinality(Aboard) \in Nat
      BY Differences, CountOne DEF IInv
    <3> QED BY <3>3, <3>4, <3>5, <3>6, <3>7 DEF SeatsInv
  <2>5. CASE Dequeue(s)
    <3>1. pc[Bus] = "boardWait" /\ s \in Aboard
      BY <2>5 DEF Dequeue, IInv, BoardingInv, Called, Aboard
    <3>2. /\ pc'[Bus] = pc[Bus] /\ CalledNotAboard' = CalledNotAboard
          /\ LetOutNotGone' = LetOutNotGone /\ Aboard' = Aboard
          /\ UNCHANGED <<current_capacity, current_zastavka>>
      BY <2>5 DEF Dequeue, IInv, TypeOK, CalledNotAboard, LetOutNotGone, Aboard, finalVars,
                  busVars
    <3> QED BY <3>1, <3>2, SeatsKept
  <2>6. CASE GetOff(s)
    <3>1. pc[Bus] = "skiWait" /\ LetOutNotGone
      BY <2>6 DEF GetOff, IInv, TypeOK, TerminusInv, LetOutNotGone
    <3>2. /\ pc'[Bus] = pc[Bus] /\ CalledNotAboard' = CalledNotAboard /\ LetOutNotGone'
          /\ Aboard' = Aboard
          /\ UNCHANGED <<current_capacity, current_zastavka>>
      BY <2>6 DEF GetOff, IInv, TypeOK, CalledNotAboard, LetOutNotGone, Aboard, stopVars,
                  busVars
    <3> QED BY <3>1, <3>2, SeatsKept
  <2>7. CASE PrintGoingToSki(s)
    <3>1. pc[Bus] = "skiWait" /\ LetOutNotGone /\ s \in Aboard /\ ~CalledNotAboard
      BY <2>7, Differences DEF PrintGoingToSki, IInv, LetOutNotGone, Aboard, TerminusInv, Leaving
    <3>2. Aboard' = Aboard \ {s}
      BY <2>7, SkierMoves DEF PrintGoingToSki, IInv
    <3>3. pc'[Bus] = "skiWait" /\ ~CalledNotAboard'
          /\ UNCHANGED <<current_capacity, current_zastavka>>
      BY <2>7, <3>1 DEF PrintGoingToSki, IInv, TypeOK, CalledNotAboard, stopVars, busVars
    <3>4. ~LetOutNotGone'
      BY <2>7 DEF PrintGoingToSki, IInv, TypeOK, LetOutNotGone, TerminusInv, Leaving, finalVars
    <3>5. Cardinality(Aboard') = Cardinality(Aboard) - 1 /\ Cardinality(Aboard) \in Nat
      BY <3>1, <3>2, CountOne, Differences DEF IInv
    <3>6. /\ current_capacity = Cardinality(Aboard) - 1
          /\ current_capacity \in 0..K /\ current_capacity < K
      BY <3>1 DEF IInv, SeatsInv
    <3> QED BY <3>3, <3>4, <3>5, <3>6 DEF SeatsInv
  <2>8. CASE CountTransported(s)
    <3>1. /\ pc'[Bus] = pc[Bus] /\ CalledNotAboard' = CalledNotAboard
          /\ LetOutNotGone' = LetOutNotGone /\ Aboard' = Aboard
          /\ UNCHANGED <<zastavka_capacity, current_capacity, current_zastavka>>
      BY <2>8 DEF CountTransported, IInv, TypeOK, CalledNotAboard, LetOutNotGone, Aboard,
                  stopVars, busVars
    <3> QED BY <3>1, SeatsKept
  <2> QED BY <2>1, <2>2, <2>3, <2>4, <2>5, <2>6, <2>7, <2>8 DEF Moving
<1>2. CASE BusProcess
  <2> USE DEF IInv
  <2>1. Aboard' = Aboard /\ Cardinality(Aboard) \in Nat /\ (Cardinality(Aboard) = 0 <=> Aboard = {})
    BY <1>2, BusMovesNoSkier, Differences, SkiersFinite, FS_EmptySet DEF Aboard
  <2>2. CASE LockOutput(Bus)
    BY <2>2, SeatsKept DEF LockOutput, CalledNotAboard, LetOutNotGone, Aboard, stopVars,
                           finalVars, busVars
  <2>3. CASE BusPrintStarted \/ EndRounds \/ BusPrintLeavingFinal \/ BusPrintFinish
    <3>1. /\ Aboard = {}
          /\ pc'[Bus] \in {"loop", "finish", "done"}
      BY <2>3 DEF BusPrintStarted, EndRounds, BusPrintLeavingFinal, BusPrintFinish, SeatsInv, TypeOK
    <3> QED BY <2>1, <3>1 DEF SeatsInv
  <2>4. CASE BeginRound
    <3>1. pc[Bus] = "loop" /\ pc'[Bus] = "drive" /\ current_capacity' = 0
      BY <2>4 DEF BeginRound, TypeOK
    <3>2. ~CalledNotAboard' /\ ~LetOutNotGone'
      BY <3>1, Differences, <2>4 DEF BeginRound, CalledNotAboard, LetOutNotGone, TypeOK,
                                     stopVars, finalVars
    <3> QED BY <2>1, <3>1, <3>2, ArgumentCheck DEF SeatsInv
  <2>5. CASE Drive \/ DriveDividesByZero \/ CloseStops \/ BusPrintArrived \/ BusPrintLeaving
               \/ OpenStops \/ BusPrintFinal \/ AwaitBoarded \/ AwaitGone
    <3>1. /\ pc[Bus] \in {"drive", "gate", "arrive", "boardWait", "leave", "release", "final",
                          "skiWait"}
          /\ pc'[Bus] \in {"drive", "gate", "arrive", "load", "release", "final", "unload",
                           "crashed"}
          /\ current_capacity' = current_capacity
      BY <2>5 DEF Drive, DriveDividesByZero, CloseStops, BusPrintArrived, BusPrintLeaving,
                  OpenStops, BusPrintFinal, AwaitBoarded, AwaitGone, TypeOK, busVars
    <3>2. ~CalledNotAboard /\ ~LetOutNotGone
      <4>1. CASE AwaitBoarded
        BY <4>1, Differences DEF AwaitBoarded, TypeOK, BoardingInv, CalledNotAboard, Called
      <4>2. CASE AwaitGone
        BY <4>2, Differences DEF AwaitGone, TypeOK, TerminusInv, LetOutNotGone, Leaving
      <4>3. CASE ~AwaitBoarded /\ ~AwaitGone
        BY <2>5, <4>3, Differences DEF Drive, DriveDividesByZero, CloseStops, BusPrintArrived,
          BusPrintLeaving, OpenStops, BusPrintFinal
      <4> QED BY <4>1, <4>2, <4>3
    <3>3. ~CalledNotAboard' /\ ~LetOutNotGone'
      BY <2>5, <3>2 DEF Drive, DriveDividesByZero, CloseStops, BusPrintArrived,
        BusPrintLeaving, OpenStops, BusPrintFinal, AwaitBoarded, AwaitGone, TypeOK,
        CalledNotAboard, LetOutNotGone, stopVars, finalVars
    <3> QED BY <2>1, <3>1, <3>2, <3>3 DEF SeatsInv
  <2>6. CASE StopLoading
    <3>1. /\ pc[Bus] = "load" /\ pc'[Bus] = "leave"
          /\ UNCHANGED <<current_capacity, current_zastavka, zastavka_capacity>>
          /\ current_capacity >= K \/ zastavka_capacity[current_zastavka] = 0
      BY <2>6, ArgumentCheck DEF StopLoading, CanLoad, HasRoom, TypeOK, stopVars, busVars
    <3>2. ~CalledNotAboard /\ ~LetOutNotGone
      BY <3>1, Differences
    <3>3. ~CalledNotAboard' /\ ~LetOutNotGone'
      BY <2>6, <3>2 DEF StopLoading, TypeOK, CalledNotAboard, LetOutNotGone, stopVars, finalVars
    <3>4. current_capacity \in 0..K /\ current_capacity = Cardinality(Aboard)
      BY <2>1, <3>1, <3>2 DEF SeatsInv
    <3> QED BY <2>1, <3>1, <3>3, <3>4, ArgumentCheck DEF SeatsInv
  <2>7. CASE CallSkier
    <3>1. /\ pc[Bus] = "load" /\ pc'[Bus] = "boardWait"
          /\ current_capacity < K /\ current_capacity' = current_capacity + 1
      BY <2>7, ArgumentCheck DEF CallSkier, CanLoad, HasRoom, TypeOK
    <3>2. ~CalledNotAboard /\ ~LetOutNotGone
      BY <3>1, Differences
    <3>3. CalledNotAboard'
      <4>1. current_zastavka \in Stops /\ zastavka_sem[current_zastavka] = 0
        BY <3>1, <3>2 DEF BoardingInv, CalledNotAboard, TypeOK
      <4> QED BY <2>7, <4>1 DEF CallSkier, CalledNotAboard, TypeOK
    <3>4. current_capacity \in 0..K /\ current_capacity = Cardinality(Aboard)
      BY <2>1, <3>1, <3>2 DEF SeatsInv
    <3> QED BY <2>1, <3>1, <3>3, <3>4, ArgumentCheck DEF SeatsInv
  <2>8. CASE CallOut
    <3>1. /\ pc[Bus] = "unload" /\ pc'[Bus] = "skiWait"
          /\ current_capacity # 0 /\ current_capacity' = current_capacity - 1
      BY <2>8, ArgumentCheck DEF CallOut, TypeOK
    <3>2. ~CalledNotAboard /\ ~LetOutNotGone
      BY <3>1, Differences
    <3>3. ~CalledNotAboard' /\ LetOutNotGone'
      BY <2>8, <3>2 DEF CallOut, CalledNotAboard, LetOutNotGone, TypeOK, stopVars
    <3>4. current_capacity \in 0..K /\ current_capacity = Cardinality(Aboard)
      BY <2>1, <3>1, <3>2 DEF SeatsInv
    <3> QED BY <2>1, <3>1, <3>3, <3>4, ArgumentCheck DEF SeatsInv
  <2>9. CASE StopUnloading
    <3>1. pc[Bus] = "unload" /\ pc'[Bus] = "leaveFinal" /\ current_capacity = 0
      BY <2>9, ArgumentCheck DEF StopUnloading, TypeOK
    <3>2. ~CalledNotAboard /\ ~LetOutNotGone
      BY <3>1, Differences
    <3>3. Cardinality(Aboard) = 0
      BY <2>1, <3>1, <3>2 DEF SeatsInv
    <3> QED BY <2>1, <3>1, <3>3 DEF SeatsInv
  <2> QED BY <1>2, <2>2, <2>3, <2>4, <2>5, <2>6, <2>7, <2>8, <2>9 DEF BusProcess
<1>3. CASE MainProcess
  <2>1. CASE ForkBus
    <3>1. /\ pc[Bus] = "unborn" /\ pc'[Bus] = "start" /\ Aboard' = Aboard
      BY <2>1 DEF ForkBus, IInv, ForkInv, TypeOK, Aboard
    <3> QED BY <3>1 DEF IInv, SeatsInv
  <2>2. CASE ForkSkier
    <3>1. /\ pc'[Bus] = pc[Bus] /\ CalledNotAboard' = CalledNotAboard
          /\ LetOutNotGone' = LetOutNotGone /\ Aboard' = Aboard
          /\ UNCHANGED <<zastavka_capacity, current_capacity, current_zastavka>>
      BY <2>2, ForkedSkier DEF IInv, TypeOK, CalledNotAboard, LetOutNotGone, Aboard
    <3> QED BY <3>1, SeatsKept
  <2>3. CASE ForkFails \/ KillSkier \/ KillEveryProcess \/ WaitBus
    <3>1. /\ pc'[Bus] = pc[Bus] /\ CalledNotAboard' = CalledNotAboard
          /\ LetOutNotGone' = LetOutNotGone /\ Aboard' = Aboard
          /\ UNCHANGED <<zastavka_capacity, current_capacity, current_zastavka>>
      BY <2>3 DEF ForkFails, KillSkier, KillEveryProcess, WaitBus, CalledNotAboard,
                  LetOutNotGone, Aboard, stopVars, finalVars, busVars
    <3> QED BY <3>1, SeatsKept
  <2> QED BY <1>3, <2>1, <2>2, <2>3 DEF MainProcess
<1>4. CASE Terminated \/ UNCHANGED vars
  <2>1. /\ pc'[Bus] = pc[Bus] /\ CalledNotAboard' = CalledNotAboard
        /\ LetOutNotGone' = LetOutNotGone /\ Aboard' = Aboard
        /\ UNCHANGED <<zastavka_capacity, current_capacity, current_zastavka>>
    BY <1>4 DEF Terminated, vars, CalledNotAboard, LetOutNotGone, Aboard, stopVars, finalVars,
                busVars
  <2> QED BY <2>1, SeatsKept
<1> QED BY <1>1, <1>2, <1>3, <1>4 DEF Next

-----------------------------------------------------------------------------
(***************************************************************************)
(* Types, the order of forking and of ending, and the theorems.            *)
(***************************************************************************)

\* No process is started twice, and the bus ends only with every skier on
\* the slopes.
LEMMA ForkStep ==
  ASSUME IInv, [Next]_vars PROVE ForkInv'
<1> USE ProcsDisjoint DEF GoTo, mainVars
<1>1. ASSUME NEW s \in Skiers, Skier(s) PROVE ForkInv'
  <2>1. /\ pc'[Bus] = pc[Bus] /\ UNCHANGED <<main, forked>>
        /\ pc[s] # "unborn" /\ \A t \in Skiers : t # s => pc'[t] = pc[t]
    BY <1>1 DEF Skier, LockOutput, AtPrint, SkierPrints, PrintStarted, Breakfast,
      BreakfastDividesByZero, EnterStop, PrintArrived, Enqueue, GetOn, PrintBoarding, Dequeue,
      GetOff, PrintGoingToSki, CountTransported, IInv, TypeOK
  <2>2. pc[Bus] \in {"finish", "done"} => Skied' = Skiers
    <3> SUFFICES ASSUME pc[Bus] \in {"finish", "done"} PROVE Skied' = Skiers
      OBVIOUS
    <3>1. Skied = Skiers
      BY DEF IInv, ForkInv
    <3>2. pc[s] = "done"
      BY <3>1 DEF Skied
    <3> QED BY <1>1, <3>2 DEF Skier, LockOutput, AtPrint, SkierPrints, PrintStarted, Breakfast,
      BreakfastDividesByZero, EnterStop, PrintArrived, Enqueue, GetOn, PrintBoarding, Dequeue,
      GetOff, PrintGoingToSki, CountTransported
  <2> QED BY <2>1, <2>2 DEF IInv, ForkInv
<1>2. CASE BusProcess
  <2>1. Skied' = Skied
    BY <1>2, BusMovesNoSkier DEF Skied
  <2>2. UNCHANGED <<main, forked>> /\ \A t \in Skiers : pc'[t] = pc[t]
    BY <1>2, BusMovesNoSkier
  <2>3. CASE EndRounds
    <3>1. Skied = Skiers
      <4>1. Cardinality(Skied) = Cardinality(Skiers)
        BY <2>3, ArgumentCheck, SkiersFinite DEF EndRounds, IInv, TypeOK, TransportedInv, Skied
      <4> QED BY <4>1, SkiersFinite, FS_Subset DEF Skied
    <3>2. pc[Bus] = "loop" /\ pc'[Bus] = "finish"
      BY <2>3 DEF EndRounds, IInv, TypeOK
    <3> QED BY <2>1, <2>2, <3>1, <3>2 DEF IInv, ForkInv
  <2>4. CASE BusPrintFinish
    <3>1. pc[Bus] = "finish" /\ pc'[Bus] = "done"
      BY <2>4 DEF BusPrintFinish, IInv, TypeOK
    <3> QED BY <2>1, <2>2, <3>1 DEF IInv, ForkInv
  <2>5. CASE DriveDividesByZero
    <3>1. TL = 0 /\ pc[Bus] = "drive" /\ pc'[Bus] = "crashed"
      BY <2>5 DEF DriveDividesByZero, IInv, TypeOK
    <3> QED BY <2>1, <2>2, <3>1 DEF IInv, ForkInv
  <2>6. CASE ~EndRounds /\ ~BusPrintFinish /\ ~DriveDividesByZero
    <3>1. /\ pc[Bus] \notin {"unborn", "done", "crashed"}
          /\ pc'[Bus] = pc[Bus] \/ pc'[Bus] \notin {"unborn", "finish", "done", "crashed"}
      BY <1>2, <2>6 DEF BusProcess, LockOutput, AtPrint, BusPrints, BusPrintStarted, BeginRound,
        Drive, CloseStops, BusPrintArrived, CallSkier, AwaitBoarded, StopLoading,
        BusPrintLeaving, OpenStops, BusPrintFinal, CallOut, AwaitGone, StopUnloading,
        BusPrintLeavingFinal, IInv, TypeOK
    <3> QED BY <2>1, <2>2, <3>1 DEF IInv, ForkInv
  <2> QED BY <2>3, <2>4, <2>5, <2>6
<1>3. CASE MainProcess
  <2>1. CASE ForkBus
    <3>1. /\ main = "forkBus" /\ main' \in {"waitBus", "forkSkiers"} /\ forked' = forked
          /\ main' = "forkSkiers" => L # 0
          /\ pc[Bus] = "unborn" /\ pc'[Bus] = "start" /\ forked = 0
          /\ \A t \in Skiers : pc'[t] = pc[t]
      BY <2>1 DEF ForkBus, IInv, ForkInv, TypeOK
    <3> QED BY <3>1, ArgumentCheck DEF IInv, ForkInv, Skied
  <2>2. CASE ForkSkier
    <3>1. /\ pc'[Bus] = pc[Bus] /\ pc'[forked + 1] = "start"
          /\ \A t \in Skiers : t # forked + 1 => pc'[t] = pc[t]
      BY <2>2, ForkedSkier DEF IInv, TypeOK
    <3>2. pc[Bus] \notin {"finish", "done"}
      BY <2>2, ForkedSkier DEF IInv, ForkInv, Skied
    <3>3. \A t \in Skiers : t > forked' => t > forked /\ t # forked + 1
      BY <2>2, ForkedSkier DEF IInv, TypeOK, Skiers
    <3> QED BY <2>2, <3>1, <3>2, <3>3, ForkedSkier DEF IInv, ForkInv
  <2>3. CASE ForkFails \/ KillSkier \/ KillEveryProcess \/ WaitBus
    <3>1. /\ pc' = pc /\ forked' = forked
          /\ main' = main \/ main' \in {"failing", "failed", "exited"}
          /\ main' = "exited" /\ main # "exited" => pc[Bus] \in {"done", "crashed"}
      BY <2>3 DEF ForkFails, KillSkier, KillEveryProcess, WaitBus
    <3> QED BY <3>1 DEF IInv, ForkInv, Skied
  <2> QED BY <1>3, <2>1, <2>2, <2>3 DEF MainProcess
<1>4. CASE Terminated \/ UNCHANGED vars
  BY <1>4 DEF Terminated, vars, IInv, ForkInv, Skied
<1> QED BY <1>1, <1>2, <1>3, <1>4 DEF Next

\* The counters stay in range because the sets they count do.
LEMMA CountersInRange ==
  ASSUME IInv, [Next]_vars
  PROVE  transported_skiers' \in 0..L /\ \A z \in Stops : zastavka_capacity'[z] \in 0..L
<1>1. Skied' \in SUBSET Skiers /\ \A z \in Stops : Standing(z)' \in SUBSET Skiers
  BY DEF Skied, Standing
<1>2. StopCountsAreExact' /\ TransportedInv'
  BY StopCountStep, TransportedStep
<1> QED BY <1>1, <1>2, SkiersFinite DEF StopCountsAreExact, TransportedInv

\* Every step keeps every variable in its range.
LEMMA TypeStep ==
  ASSUME IInv, [Next]_vars PROVE TypeOK'
<1> USE ProcsDisjoint DEF SkierLabels, BusLabels, MainLabels, GoTo, SemWait, SemPost,
        outVars, stopVars, finalVars, busVars, mainVars
<1>1. ASSUME NEW s \in Skiers, Skier(s) PROVE TypeOK'
  <2>1. CASE LockOutput(s) \/ PrintStarted(s) \/ PrintArrived(s) \/ PrintBoarding(s)
               \/ PrintGoingToSki(s)
    BY <2>1 DEF LockOutput, PrintStarted, PrintArrived, PrintBoarding, PrintGoingToSki,
      Printed, TypeOK, IInv, PrintInv
  <2>2. CASE Breakfast(s) \/ BreakfastDividesByZero(s) \/ EnterStop(s)
    BY <2>2 DEF Breakfast, BreakfastDividesByZero, EnterStop, TypeOK, IInv
  <2>3. CASE Enqueue(s)
    <3>1. bus_arrived = 0
      BY <2>3 DEF Enqueue, IInv, TypeOK, GateOwned, InGate
    <3>2. zastavka_capacity' \in [Stops -> 0..L]
      BY <2>3, CountersInRange DEF Enqueue, IInv, TypeOK
    <3> QED BY <2>3, <3>1, <3>2 DEF Enqueue, IInv, TypeOK
  <2>4. CASE GetOn(s)
    BY <2>4 DEF GetOn, IInv, TypeOK
  <2>5. CASE Dequeue(s)
    <3>1. boarding = 0
      BY <2>5 DEF Dequeue, IInv, TypeOK, BoardingInv, Called
    <3>2. zastavka_capacity' \in [Stops -> 0..L]
      BY <2>5, CountersInRange DEF Dequeue, IInv, TypeOK
    <3> QED BY <2>5, <3>1, <3>2 DEF Dequeue, IInv, TypeOK
  <2>6. CASE GetOff(s)
    BY <2>6 DEF GetOff, IInv, TypeOK
  <2>7. CASE CountTransported(s)
    <3>1. going_ski = 0
      BY <2>7 DEF CountTransported, IInv, TypeOK, TerminusInv, Leaving
    <3> QED BY <2>7, <3>1, CountersInRange DEF CountTransported, IInv, TypeOK
  <2> QED BY <1>1, <2>1, <2>2, <2>3, <2>4, <2>5, <2>6, <2>7 DEF Skier
<1>2. CASE BusProcess
  <2>1. CASE LockOutput(Bus) \/ BusPrintArrived \/ BusPrintLeaving \/ BusPrintFinal
               \/ BusPrintLeavingFinal \/ BusPrintFinish
    BY <2>1 DEF LockOutput, BusPrintArrived, BusPrintLeaving, BusPrintFinal,
      BusPrintLeavingFinal, BusPrintFinish, Printed, TypeOK, IInv, PrintInv
  <2>2. CASE BusPrintStarted
    BY <2>2, ArgumentCheck DEF BusPrintStarted, Printed, TypeOK, IInv, PrintInv
  <2>3. CASE BeginRound
    BY <2>3, ArgumentCheck DEF BeginRound, TypeOK, IInv
  <2>4. CASE EndRounds \/ Drive \/ DriveDividesByZero \/ CloseStops \/ StopLoading
               \/ AwaitBoarded \/ AwaitGone
    BY <2>4 DEF EndRounds, Drive, DriveDividesByZero, CloseStops, StopLoading, AwaitBoarded,
      AwaitGone, TypeOK, IInv
  <2>5. CASE CallSkier
    <3>1. current_zastavka \in Stops /\ zastavka_sem[current_zastavka] = 0
      BY <2>5 DEF CallSkier, IInv, TypeOK, BoardingInv
    <3>2. current_capacity' \in -1..K
      BY <2>5, ArgumentCheck DEF CallSkier, CanLoad, HasRoom, IInv, TypeOK
    <3> QED BY <2>5, <3>1, <3>2 DEF CallSkier, IInv, TypeOK
  <2>6. CASE OpenStops
    <3>1. bus_arrived = 0
      BY <2>6 DEF OpenStops, IInv, TypeOK, GateOwned, InGate
    <3>2. current_zastavka \in Stops
      BY <2>6 DEF OpenStops, IInv, BoardingInv
    <3> QED BY <2>6, <3>1, <3>2, ArgumentCheck DEF OpenStops, IInv, TypeOK, Stops
  <2>7. CASE CallOut \/ StopUnloading
    <3>1. current_capacity' \in -1..K
      BY <2>7, ArgumentCheck DEF CallOut, StopUnloading, IInv, SeatsInv
    <3>2. terminus = 0
      BY <2>7 DEF CallOut, StopUnloading, IInv, TypeOK, TerminusInv
    <3> QED BY <2>7, <3>1, <3>2 DEF CallOut, StopUnloading, IInv, TypeOK
  <2> QED BY <1>2, <2>1, <2>2, <2>3, <2>4, <2>5, <2>6, <2>7 DEF BusProcess
<1>3. CASE MainProcess
  <2>1. CASE ForkBus
    BY <2>1 DEF ForkBus, IInv, TypeOK
  <2>2. CASE ForkSkier
    <3>1. forked' \in 0..L
      BY <2>2, ForkedSkier DEF Skiers, IInv, TypeOK
    <3> QED BY <2>2, <3>1, ForkedSkier DEF IInv, TypeOK
  <2>3. CASE ForkFails \/ WaitBus
    BY <2>3 DEF ForkFails, WaitBus, IInv, TypeOK
  <2>4. CASE KillSkier \/ KillEveryProcess
    <3>1. killed \subseteq Procs \cup {Others} /\ \A s \in 1..forked : s \in Procs
      BY ArgumentCheck DEF IInv, TypeOK, Procs
    <3>2. killed' \in SUBSET (Procs \cup {Others})
      BY <2>4, <3>1 DEF KillSkier, KillEveryProcess
    <3> QED BY <2>4, <3>2 DEF KillSkier, KillEveryProcess, IInv, TypeOK
  <2> QED BY <1>3, <2>1, <2>2, <2>3, <2>4 DEF MainProcess
<1>4. CASE Terminated \/ UNCHANGED vars
  BY <1>4 DEF Terminated, vars, IInv, TypeOK
<1> QED BY <1>1, <1>2, <1>3, <1>4 DEF Next

-----------------------------------------------------------------------------
LEMMA InitEstablishesIInv == Init => IInv
<1> SUFFICES ASSUME Init PROVE IInv
  OBVIOUS
<1> USE ProcsDisjoint, ArgumentCheck DEF Init
<1>1. TypeOK
  BY DEF TypeOK, SkierLabels, BusLabels, MainLabels, Stops
<1>2. ForkInv /\ PrintInv /\ GateOwned
  BY DEF ForkInv, PrintInv, GateOwned, InGate
<1>3. BoardingInv /\ TerminusInv
  BY DEF BoardingInv, TerminusInv, Called, Leaving
<1>4. Skied = {} /\ Aboard = {} /\ \A z \in Stops : Standing(z) = {}
  BY DEF Skied, Aboard, Standing
<1>5. StopCountsAreExact /\ TransportedInv /\ SeatsInv
  BY <1>4, FS_EmptySet DEF StopCountsAreExact, TransportedInv, SeatsInv
<1> QED BY <1>1, <1>2, <1>3, <1>5 DEF IInv

LEMMA StepKeepsIInv == IInv /\ [Next]_vars => IInv'
  BY TypeStep, ForkStep, PrintStep, GateStep, BoardingStep, TerminusStep, StopCountStep,
     TransportedStep, SeatsStep DEF IInv

\* The invariant that the theorems below rest on.
THEOREM Invariance == Spec => []IInv
  BY InitEstablishesIInv, StepKeepsIInv, PTL DEF Spec

\* Every variable keeps to its range: all the semaphores stay binary and no
\* counter underflows.
THEOREM TypeCorrect == Spec => []TypeOK
<1>1. IInv => TypeOK
  BY DEF IInv
<1> QED BY Invariance, <1>1, PTL

\* The gate to the stops has one owner at a time and is never lost.
THEOREM GateIsOwned == Spec => []GateOwned
<1>1. IInv => GateOwned
  BY DEF IInv
<1> QED BY Invariance, <1>1, PTL

\* The count the bus reads at a stop is the number of skiers standing there.
THEOREM StopCountsExact == Spec => []StopCountsAreExact
<1>1. IInv => StopCountsAreExact
  BY DEF IInv
<1> QED BY Invariance, <1>1, PTL

\* What the invariant says of the decisions of the bus.
LEMMA IInvDecides ==
  ASSUME IInv PROVE BusDecidesRight
<1>1. Aboard \in SUBSET Skiers /\ Cardinality(Aboard) \in Nat
  BY Differences, SkiersFinite
<1>2. pc[Bus] = "leave" => Cardinality(Aboard) = K \/ Standing(current_zastavka) = {}
  <2> SUFFICES ASSUME pc[Bus] = "leave"
               PROVE  Cardinality(Aboard) = K \/ Standing(current_zastavka) = {}
    OBVIOUS
  <2>1. current_capacity = Cardinality(Aboard)
    BY <1>1, Differences DEF IInv, SeatsInv
  <2>2. CASE current_capacity = K
    BY <2>1, <2>2
  <2>3. CASE zastavka_capacity[current_zastavka] = 0
    <3>1. current_zastavka \in Stops
      BY DEF IInv, BoardingInv
    <3>2. Cardinality(Standing(current_zastavka)) = 0
      BY <2>3, <3>1 DEF IInv, StopCountsAreExact
    <3> QED BY <3>2, SkiersFinite, FS_EmptySet DEF Standing
  <2> QED BY <2>2, <2>3 DEF IInv, SeatsInv
<1>3. pc[Bus] \in {"leaveFinal", "loop", "finish", "done"} => Aboard = {}
  BY DEF IInv, SeatsInv
<1>4. Cardinality(Aboard) <= K
  <2>1. CASE Aboard = {}
    BY <2>1, FS_EmptySet, ArgumentCheck
  <2>2. CASE Aboard # {}
    <3>1. /\ current_capacity \in 0..K
          /\ current_capacity = Cardinality(Aboard)
               + (IF CalledNotAboard THEN 1 ELSE IF LetOutNotGone THEN -1 ELSE 0)
          /\ pc[Bus] = "skiWait" => current_capacity < K
      BY <2>2 DEF IInv, TypeOK, BusLabels, SeatsInv
    <3> QED BY <1>1, <3>1, Differences, ArgumentCheck
  <2> QED BY <2>1, <2>2
<1> QED BY <1>2, <1>3, <1>4 DEF BusDecidesRight

\* The bus leaves a stop only full or with nobody left there, leaves the
\* terminus empty, and never carries more than K skiers.
THEOREM BusDecidesRightly == Spec => []BusDecidesRight
<1>1. IInv => BusDecidesRight
  BY IInvDecides
<1> QED BY Invariance, <1>1, PTL

\* When main destroys the semaphores no skier has an operation on them left.
THEOREM SemaphoresDestroyedUnused == Spec => []DestroyedUnused
<1>1. IInv => DestroyedUnused
  BY ArgumentCheck DEF IInv, ForkInv, DestroyedUnused, Skied
<1> QED BY Invariance, <1>1, PTL

\* At most one process at a time is about to access a stop's count, or
\* transported_skiers: the unlocked increments and reads never overlap.
THEOREM NoDataRaces == Spec => []NoDataRace
<1>1. ASSUME IInv PROVE NoDataRace
  <2>1. ASSUME NEW z \in Stops, NEW p \in AtCount(z), NEW q \in AtCount(z) PROVE p = q
    <3>1. \A s \in Skiers : pc[s] = "dequeue" => pc[Bus] = "boardWait"
      BY <1>1 DEF IInv, BoardingInv, Called
    <3>2. \A s, t \in Skiers : pc[s] = "dequeue" /\ pc[t] = "dequeue" => s = t
      BY <1>1 DEF IInv, BoardingInv, Called
    <3>3. \A s \in Skiers : pc[s] = "enqueue" => InGate(s)
      BY ProcsDisjoint DEF InGate
    <3>4. pc[Bus] \in {"load", "boardWait"} => InGate(Bus)
      BY DEF InGate
    <3> QED BY <1>1, <2>1, <3>1, <3>2, <3>3, <3>4, ProcsDisjoint DEF AtCount, IInv, GateOwned
  <2>2. ASSUME NEW p \in AtTransported, NEW q \in AtTransported PROVE p = q
    BY <1>1, <2>2 DEF AtTransported, IInv, TerminusInv, Leaving
  <2>3. ASSUME NEW S, \A p, q \in S : p = q PROVE Cardinality(S) <= 1
    <3>1. CASE S = {}
      BY <3>1, FS_EmptySet
    <3>2. CASE S # {}
      <4>1. PICK p \in S : TRUE
        BY <3>2
      <4>2. S = {p}
        BY <2>3, <4>1
      <4>3. Cardinality({p}) = 1
        BY FS_Singleton
      <4> QED BY <4>2, <4>3
    <3> QED BY <3>1, <3>2
  <2> QED BY <2>1, <2>2, <2>3 DEF NoDataRace
<1> QED BY Invariance, <1>1, PTL

-----------------------------------------------------------------------------
(***************************************************************************)
(* proj2.out tells a story that SkiLog allows.                             *)
(***************************************************************************)

\* A bus at the stop, seen through the control points.
LEMMA LoggedBusIs ==
  /\ LoggedBus = "stop" <=> pc[Bus] \in {"load", "boardWait", "leave"}
  /\ LoggedBus = "final" <=> pc[Bus] \in {"unload", "skiWait", "leaveFinal"}
  /\ LoggedBus = "over" <=> pc[Bus] = "done"
  /\ LoggedBus \in {"stop", "final", "over", "road"}
  BY DEF LoggedBus

\* The sets of SkiLog, in terms of Skibus.
LEMMA LoggedSkierIs ==
  ASSUME NEW s \in Skiers
  PROVE  /\ LoggedSkier[s] = "waiting" <=> pc[s] \in {"enqueue", "wait", "board"}
         /\ LoggedSkier[s] = "aboard" <=> pc[s] \in {"dequeue", "aboard", "alight"}
         /\ LoggedSkier[s] = "skied" <=> pc[s] \in {"count", "done"}
         /\ LoggedSkier[s] \in {"home", "waiting", "aboard", "skied"}
  BY DEF LoggedSkier

LEMMA LoggedAboard == Log!OnTheBus = Aboard
  BY LoggedSkierIs DEF Log!OnTheBus, Aboard

LEMMA LoggedFull == Log!Full <=> Cardinality(Aboard) = K
<1>1. Log!Cardinality(Aboard) = Cardinality(Aboard)
  BY DEF Log!Cardinality, Cardinality
<1> QED BY <1>1, LoggedAboard DEF Log!Full

LEMMA InitImplementsLog == Init => Log!LogInit
  BY ProcsDisjoint, ArgumentCheck DEF Init, Log!LogInit, LoggedSkier, LoggedBus, LoggedNext, Stops

\* A step of a skier to control point l changes its place in the log alone.
LEMMA LogOfSkierStep ==
  ASSUME TypeOK, NEW s \in Skiers, NEW l, pc' = [pc EXCEPT ![s] = l],
         UNCHANGED <<waits_on_zastavka, current_zastavka>>
  PROVE  /\ LoggedBus' = LoggedBus /\ LoggedNext' = LoggedNext
         /\ LoggedSkier' = [LoggedSkier EXCEPT ![s] =
              CASE l \in {"enqueue", "wait", "board"}    -> "waiting"
                [] l \in {"dequeue", "aboard", "alight"} -> "aboard"
                [] l \in {"count", "done"}               -> "skied"
                [] OTHER                                 -> "home"]
<1>1. pc'[Bus] = pc[Bus] /\ \A t \in Skiers : pc'[t] = IF t = s THEN l ELSE pc[t]
  BY ProcsDisjoint DEF TypeOK
<1> QED BY <1>1 DEF LoggedBus, LoggedNext, LoggedSkier

\* Every step of the program is one line of the log, or none.
LEMMA StepImplementsLog ==
  ASSUME IInv, [Next]_vars
  PROVE  [Log!LogNext]_(Log!logVars)
<1> USE DEF Log!logVars, GoTo, busVars
<1>1. ASSUME NEW s \in Skiers, Skier(s) PROVE [Log!LogNext]_(Log!logVars)
  <2> USE <1>1
  <2>1. CASE LockOutput(s)
    BY <2>1 DEF LockOutput, LoggedSkier, LoggedBus, LoggedNext
  <2>2. CASE PrintStarted(s) \/ BreakfastDividesByZero(s) \/ EnterStop(s)
    <3>1. /\ \E l \in {"breakfast", "crashed", "arrive"} : pc' = [pc EXCEPT ![s] = l]
          /\ UNCHANGED <<waits_on_zastavka, current_zastavka>>
          /\ LoggedSkier[s] = "home"
      BY <2>2 DEF PrintStarted, BreakfastDividesByZero, EnterStop, LoggedSkier
    <3>2. LoggedSkier' = [LoggedSkier EXCEPT ![s] = "home"]
      BY <3>1, LogOfSkierStep DEF IInv
    <3>3. LoggedSkier' = LoggedSkier
      BY <3>1, <3>2 DEF LoggedSkier
    <3> QED BY <3>1, <3>3, LogOfSkierStep DEF IInv
  <2>3. CASE Breakfast(s)
    <3>1. /\ LoggedSkier[s] = "home" /\ pc' = [pc EXCEPT ![s] = "gate"]
          /\ current_zastavka' = current_zastavka
          /\ \E z \in 1..Z : waits_on_zastavka' = [waits_on_zastavka EXCEPT ![s] = z]
      BY <2>3 DEF Breakfast, LoggedSkier, Stops
    <3>2. pc'[Bus] = pc[Bus] /\ \A t \in Skiers : pc'[t] = IF t = s THEN "gate" ELSE pc[t]
      BY <3>1, ProcsDisjoint DEF IInv, TypeOK
    <3>3. UNCHANGED <<LoggedSkier, LoggedBus, LoggedNext>>
      BY <3>1, <3>2 DEF LoggedSkier, LoggedBus, LoggedNext
    <3> QED BY <3>1, <3>3 DEF Log!LogNext, Log!ChooseStop
  <2>4. CASE PrintArrived(s)
    <3>1. /\ pc[s] = "arrive" /\ LoggedSkier[s] = "home" /\ pc' = [pc EXCEPT ![s] = "enqueue"]
          /\ UNCHANGED <<waits_on_zastavka, current_zastavka>>
      BY <2>4 DEF PrintArrived, LoggedSkier
    <3>2. /\ LoggedSkier' = [LoggedSkier EXCEPT ![s] = "waiting"]
          /\ LoggedBus' = LoggedBus /\ LoggedNext' = LoggedNext
      BY <3>1, LogOfSkierStep DEF IInv
    <3>3. LoggedBus \in {"road", "final"}
      <4>1. InGate(s)
        BY <3>1, ProcsDisjoint DEF InGate
      <4>2. ~InGate(Bus)
        BY <4>1, ProcsDisjoint DEF IInv, GateOwned
      <4>3. pc[Bus] # "done"
        BY <3>1 DEF IInv, ForkInv, Skied
      <4> QED BY <4>2, <4>3, LoggedBusIs DEF InGate
    <3> QED BY <3>1, <3>2, <3>3 DEF Log!LogNext, Log!Arrive
  <2>5. CASE Enqueue(s) \/ GetOn(s)
    <3>1. /\ \E l \in {"wait", "board"} : pc' = [pc EXCEPT ![s] = l]
          /\ UNCHANGED <<waits_on_zastavka, current_zastavka>>
          /\ LoggedSkier[s] = "waiting"
      BY <2>5 DEF Enqueue, GetOn, LoggedSkier
    <3>2. LoggedSkier' = [LoggedSkier EXCEPT ![s] = "waiting"]
      BY <3>1, LogOfSkierStep DEF IInv
    <3>3. LoggedSkier' = LoggedSkier
      BY <3>1, <3>2 DEF LoggedSkier
    <3> QED BY <3>1, <3>3, LogOfSkierStep DEF IInv
  <2>6. CASE PrintBoarding(s)
    <3>1. /\ pc[s] = "board" /\ LoggedSkier[s] = "waiting"
          /\ pc' = [pc EXCEPT ![s] = "dequeue"]
          /\ UNCHANGED <<waits_on_zastavka, current_zastavka>>
      BY <2>6 DEF PrintBoarding, LoggedSkier
    <3>2. /\ LoggedSkier' = [LoggedSkier EXCEPT ![s] = "aboard"]
          /\ LoggedBus' = LoggedBus /\ LoggedNext' = LoggedNext
      BY <3>1, LogOfSkierStep DEF IInv
    <3>3. pc[Bus] = "boardWait" /\ waits_on_zastavka[s] = current_zastavka
      BY <3>1 DEF IInv, BoardingInv, Called
    <3>4. LoggedBus = "stop" /\ LoggedNext = current_zastavka
      BY <3>3 DEF LoggedBus, LoggedNext
    <3>5. s \in Log!QueueAt(LoggedNext)
      BY <3>1, <3>3, <3>4 DEF Log!QueueAt
    <3>6. ~Log!Full
      <4>1. CalledNotAboard /\ Cardinality(Aboard) \in Nat
        BY <3>1, Differences, SkiersFinite DEF CalledNotAboard
      <4>2. current_capacity \in 0..K /\ current_capacity = Cardinality(Aboard) + 1
        BY <3>3, <4>1 DEF IInv, SeatsInv
      <4> QED BY <4>1, <4>2, LoggedFull, ArgumentCheck
    <3> QED BY <3>1, <3>2, <3>4, <3>5, <3>6 DEF Log!LogNext, Log!Board
  <2>7. CASE Dequeue(s) \/ GetOff(s)
    <3>1. /\ \E l \in {"aboard", "alight"} : pc' = [pc EXCEPT ![s] = l]
          /\ UNCHANGED <<waits_on_zastavka, current_zastavka>>
          /\ LoggedSkier[s] = "aboard"
      BY <2>7 DEF Dequeue, GetOff, LoggedSkier
    <3>2. LoggedSkier' = [LoggedSkier EXCEPT ![s] = "aboard"]
      BY <3>1, LogOfSkierStep DEF IInv
    <3>3. LoggedSkier' = LoggedSkier
      BY <3>1, <3>2 DEF LoggedSkier
    <3> QED BY <3>1, <3>3, LogOfSkierStep DEF IInv
  <2>8. CASE PrintGoingToSki(s)
    <3>1. /\ pc[s] = "alight" /\ LoggedSkier[s] = "aboard" /\ pc' = [pc EXCEPT ![s] = "count"]
          /\ UNCHANGED <<waits_on_zastavka, current_zastavka>>
      BY <2>8 DEF PrintGoingToSki, LoggedSkier
    <3>2. /\ LoggedSkier' = [LoggedSkier EXCEPT ![s] = "skied"]
          /\ LoggedBus' = LoggedBus /\ LoggedNext' = LoggedNext
      BY <3>1, LogOfSkierStep DEF IInv
    <3>3. LoggedBus = "final"
      BY <3>1, LoggedBusIs DEF IInv, TerminusInv, Leaving
    <3> QED BY <3>1, <3>2, <3>3 DEF Log!LogNext, Log!GoToSki
  <2>9. CASE CountTransported(s)
    <3>1. /\ pc' = [pc EXCEPT ![s] = "done"] /\ LoggedSkier[s] = "skied"
          /\ UNCHANGED <<waits_on_zastavka, current_zastavka>>
      BY <2>9 DEF CountTransported, LoggedSkier
    <3>2. LoggedSkier' = [LoggedSkier EXCEPT ![s] = "skied"]
      BY <3>1, LogOfSkierStep DEF IInv
    <3>3. LoggedSkier' = LoggedSkier
      BY <3>1, <3>2 DEF LoggedSkier
    <3> QED BY <3>1, <3>3, LogOfSkierStep DEF IInv
  <2> QED BY <2>1, <2>2, <2>3, <2>4, <2>5, <2>6, <2>7, <2>8, <2>9 DEF Skier
<1>2. CASE BusProcess
  <2> USE ProcsDisjoint
  <2>1. LoggedSkier' = LoggedSkier /\ waits_on_zastavka' = waits_on_zastavka
    BY <1>2, BusMovesNoSkier DEF LoggedSkier
  <2>2. CASE LockOutput(Bus) \/ BusPrintStarted \/ BeginRound \/ EndRounds \/ Drive
               \/ DriveDividesByZero \/ CloseStops
    <3>1. LoggedBus' = LoggedBus /\ LoggedNext' = LoggedNext
      BY <2>2 DEF LockOutput, BusPrintStarted, BeginRound, EndRounds, Drive,
        DriveDividesByZero, CloseStops, LoggedBus, LoggedNext, IInv, TypeOK
    <3> QED BY <2>1, <3>1
  <2>3. CASE CallSkier \/ AwaitBoarded \/ StopLoading \/ CallOut \/ AwaitGone \/ StopUnloading
    <3>1. LoggedBus' = LoggedBus /\ LoggedNext' = LoggedNext
      BY <2>3 DEF CallSkier, AwaitBoarded, StopLoading, CallOut, AwaitGone, StopUnloading,
        LoggedBus, LoggedNext, IInv, TypeOK
    <3> QED BY <2>1, <3>1
  <2>4. CASE OpenStops
    <3>1. LoggedBus' = LoggedBus /\ LoggedNext' = LoggedNext
      BY <2>4 DEF OpenStops, LoggedBus, LoggedNext, IInv, TypeOK
    <3> QED BY <2>1, <3>1
  <2>5. CASE BusPrintArrived
    <3>1. /\ LoggedBus = "road" /\ LoggedBus' = "stop"
          /\ LoggedNext = current_zastavka /\ LoggedNext' = current_zastavka
          /\ current_zastavka \in 1..Z
      BY <2>5 DEF BusPrintArrived, LoggedBus, LoggedNext, IInv, TypeOK, BoardingInv, Stops
    <3> QED BY <2>1, <3>1, ArgumentCheck DEF Log!LogNext, Log!BusArrives
  <2>6. CASE BusPrintLeaving
    <3>1. /\ pc[Bus] = "leave" /\ LoggedBus = "stop" /\ LoggedBus' = "road"
          /\ LoggedNext = current_zastavka /\ LoggedNext' = current_zastavka + 1
      BY <2>6 DEF BusPrintLeaving, LoggedBus, LoggedNext, IInv, TypeOK
    <3>2. Cardinality(Aboard) = K \/ Standing(current_zastavka) = {}
      BY <3>1, IInvDecides DEF BusDecidesRight
    <3>3. Log!QueueAt(current_zastavka) \subseteq Standing(current_zastavka)
      <4>1. \A s \in Skiers : pc[s] # "enqueue"
        BY <3>1, ProcsDisjoint DEF IInv, GateOwned, InGate
      <4> QED BY <4>1, LoggedSkierIs DEF Log!QueueAt, Standing
    <3>4. Log!Full \/ Log!QueueAt(LoggedNext) = {}
      BY <3>1, <3>2, <3>3, LoggedFull
    <3> QED BY <2>1, <3>1, <3>4 DEF Log!LogNext, Log!Leave
  <2>7. CASE BusPrintFinal
    <3>1. /\ LoggedBus = "road" /\ LoggedBus' = "final"
          /\ LoggedNext = Z + 1 /\ LoggedNext' = LoggedNext
      BY <2>7 DEF BusPrintFinal, LoggedBus, LoggedNext, IInv, TypeOK, BoardingInv
    <3> QED BY <2>1, <3>1 DEF Log!LogNext, Log!ReachFinal
  <2>8. CASE BusPrintLeavingFinal
    <3>1. /\ pc[Bus] = "leaveFinal" /\ LoggedBus = "final" /\ LoggedBus' = "road"
          /\ LoggedNext' = 1
      BY <2>8 DEF BusPrintLeavingFinal, LoggedBus, LoggedNext, IInv, TypeOK
    <3>2. Log!OnTheBus = {}
      BY <3>1, LoggedAboard DEF IInv, SeatsInv
    <3> QED BY <2>1, <3>1, <3>2 DEF Log!LogNext, Log!LeaveFinal
  <2>9. CASE BusPrintFinish
    <3>1. /\ pc[Bus] = "finish" /\ LoggedBus = "road" /\ LoggedBus' = "over"
          /\ LoggedNext = 1 /\ LoggedNext' = 1
      BY <2>9 DEF BusPrintFinish, LoggedBus, LoggedNext, IInv, TypeOK
    <3>2. \A s \in Skiers : LoggedSkier[s] = "skied"
      BY <3>1, LoggedSkierIs DEF IInv, ForkInv, Skied
    <3> QED BY <2>1, <3>1, <3>2 DEF Log!LogNext, Log!Finish
  <2> QED BY <1>2, <2>2, <2>3, <2>4, <2>5, <2>6, <2>7, <2>8, <2>9 DEF BusProcess
<1>3. CASE MainProcess
  <2>1. CASE ForkBus
    BY <2>1 DEF ForkBus, IInv, TypeOK, ForkInv, LoggedSkier, LoggedBus, LoggedNext
  <2>2. CASE ForkSkier
    <3>1. pc'[Bus] = pc[Bus] /\ \A s \in Skiers :
            pc'[s] = IF s = forked + 1 THEN "start" ELSE pc[s]
      BY <2>2, ForkedSkier, ProcsDisjoint DEF IInv, TypeOK
    <3> QED BY <2>2, <3>1, ForkedSkier DEF LoggedSkier, LoggedBus, LoggedNext
  <2>3. CASE ForkFails \/ KillSkier \/ KillEveryProcess \/ WaitBus
    BY <2>3 DEF ForkFails, KillSkier, KillEveryProcess, WaitBus, LoggedSkier, LoggedBus,
                LoggedNext
  <2> QED BY <1>3, <2>1, <2>2, <2>3 DEF MainProcess
<1>4. CASE Terminated \/ UNCHANGED vars
  BY <1>4 DEF Terminated, vars, LoggedSkier, LoggedBus, LoggedNext
<1> QED BY <1>1, <1>2, <1>3, <1>4 DEF Next

\* The lines of proj2.out follow each other as SkiLog allows, whatever the
\* interleaving of the processes and whichever of them die.
THEOREM ProgramImplementsLog == Spec => ImplementsLog
<1>1. IInv /\ [Next]_vars => [Log!LogNext]_(Log!logVars)
  BY StepImplementsLog
<1> QED BY Invariance, InitImplementsLog, <1>1, PTL DEF Spec, ImplementsLog, Log!LogSpec

=============================================================================
