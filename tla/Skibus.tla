------------------------------- MODULE Skibus -------------------------------
(***************************************************************************)
(* The ski-bus simulation of 1/IOS/2-project/proj2.c: one bus process, L   *)
(* skier processes and the main process, synchronised by POSIX semaphores  *)
(* and counters in shared memory.                                          *)
(*                                                                         *)
(* A step is one semaphore operation, or one access to a shared counter    *)
(* with the sem_post that follows it, so every interleaving that the       *)
(* semaphores leave possible is a behaviour.  A counter's ++ or -- is one  *)
(* step because no other process can be at an access to the same counter   *)
(* (NoDataRace below).  The lines of proj2.out are modelled by the step    *)
(* that prints them; the numbers on them are the subject of OutputFile.    *)
(***************************************************************************)
EXTENDS Integers, FiniteSets

CONSTANTS
  L,    \* number of skiers
  Z,    \* number of stops
  K,    \* capacity of the bus
  TL    \* upper bound of the random sleeps

\* The argument check of main (lines 255-259), without its upper bounds and
\* with the bus capacity scaled down: nothing below depends on K >= 10.
ASSUME ArgumentCheck == L \in Nat /\ Z \in Nat \ {0} /\ K \in Nat \ {0} /\ TL \in Nat

Bus    == 0
Skiers == 1..L
Procs  == 0..L
Stops  == 1..Z

VARIABLES
  pc,                  \* control point of the bus and of every skier
  printing,            \* processes between sem_wait(output) and sem_post(output)
  output,              \* semaphore guarding the output file
  bus_arrived,         \* semaphore bus_arrived_to_zastavka
  zastavka_sem,        \* one semaphore per stop
  boarding,            \* semaphore: the skier has boarded
  terminus,            \* semaphore: a skier may get off
  going_ski,           \* semaphore: the skier has got off
  zastavka_capacity,   \* shared: number of skiers standing at each stop
  transported_skiers,  \* shared: number of skiers that went skiing
  waits_on_zastavka,   \* private to each skier: its stop
  current_zastavka,    \* private to the bus: the stop it drives to or stands at
  current_capacity,    \* private to the bus: skiers on board
  main,                \* control point of the main process
  forked,              \* number of skier processes created so far
  killed               \* whom the error path of main has killed

outVars   == <<output, printing>>
stopVars  == <<bus_arrived, zastavka_sem, boarding, zastavka_capacity>>
finalVars == <<terminus, going_ski, transported_skiers>>
busVars   == <<current_zastavka, current_capacity>>
mainVars  == <<main, forked, killed>>
vars == <<pc, outVars, stopVars, finalVars, busVars, mainVars, waits_on_zastavka>>

SkierLabels == {"unborn", "start", "breakfast", "gate", "arrive", "enqueue", "wait",
                "board", "dequeue", "aboard", "alight", "count", "done", "crashed"}
BusLabels == {"unborn", "start", "loop", "drive", "gate", "arrive", "load", "boardWait",
              "leave", "release", "final", "unload", "skiWait", "leaveFinal", "finish",
              "done", "crashed"}
MainLabels == {"forkBus", "forkSkiers", "waitBus", "exited", "failing", "failed"}

\* Every process outside the program, seen as one: kill(-1, ...) reaches them.
Others == -1

\* Control points at which the next thing the process does is print a line.
SkierPrints == {"start", "arrive", "board", "alight"}
BusPrints   == {"start", "arrive", "leave", "final", "leaveFinal", "finish"}
AtPrint(p)  == pc[p] \in (IF p = Bus THEN BusPrints ELSE SkierPrints)

Alive(p) == p \notin killed
GoTo(p, label) == pc' = [pc EXCEPT ![p] = label]

(***************************************************************************)
(* sem_wait and sem_post.                                                  *)
(***************************************************************************)
SemWait(sem) == sem > 0 /\ sem' = sem - 1
SemPost(sem) == sem' = sem + 1

-----------------------------------------------------------------------------
(***************************************************************************)
(* Printing: sem_wait(output); fprintf(...); sem_post(output).             *)
(***************************************************************************)
LockOutput(p) ==
  /\ Alive(p) /\ AtPrint(p) /\ p \notin printing
  /\ SemWait(output)
  /\ printing' = printing \cup {p}
  /\ UNCHANGED <<pc, stopVars, finalVars, busVars, mainVars, waits_on_zastavka>>

\* The line is in the file and the output semaphore is released.
Printed(p) ==
  /\ p \in printing
  /\ SemPost(output)
  /\ printing' = printing \ {p}

-----------------------------------------------------------------------------
(***************************************************************************)
(* The skier process, lyzars(idL).                                         *)
(***************************************************************************)
PrintStarted(s) ==
  /\ Alive(s) /\ pc[s] = "start" /\ Printed(s)
  /\ GoTo(s, "breakfast")
  /\ UNCHANGED <<stopVars, finalVars, busVars, mainVars, waits_on_zastavka>>

\* usleep(rand() % TL + 1), then the choice of a stop.
Breakfast(s) ==
  /\ Alive(s) /\ pc[s] = "breakfast" /\ TL # 0
  /\ \E z \in Stops : waits_on_zastavka' = [waits_on_zastavka EXCEPT ![s] = z]
  /\ GoTo(s, "gate")
  /\ UNCHANGED <<outVars, stopVars, finalVars, busVars, mainVars>>

\* rand() % 0: the process dies of SIGFPE, holding no semaphore.
BreakfastDividesByZero(s) ==
  /\ Alive(s) /\ pc[s] = "breakfast" /\ TL = 0
  /\ GoTo(s, "crashed")
  /\ UNCHANGED <<outVars, stopVars, finalVars, busVars, mainVars, waits_on_zastavka>>

\* Mutant: the skier walks to its stop while the bus stands at one.
EnterStopUnguarded(s) ==
  /\ Alive(s) /\ pc[s] = "gate"
  /\ bus_arrived' = bus_arrived
  /\ GoTo(s, "arrive")
  /\ UNCHANGED <<outVars, zastavka_sem, boarding, zastavka_capacity, finalVars,
                 busVars, mainVars, waits_on_zastavka>>

EnterStop(s) ==
  /\ Alive(s) /\ pc[s] = "gate"
  /\ SemWait(bus_arrived)
  /\ GoTo(s, "arrive")
  /\ UNCHANGED <<outVars, zastavka_sem, boarding, zastavka_capacity, finalVars,
                 busVars, mainVars, waits_on_zastavka>>

PrintArrived(s) ==
  /\ Alive(s) /\ pc[s] = "arrive" /\ Printed(s)
  /\ GoTo(s, "enqueue")
  /\ UNCHANGED <<stopVars, finalVars, busVars, mainVars, waits_on_zastavka>>

Enqueue(s) ==
  /\ Alive(s) /\ pc[s] = "enqueue"
  /\ zastavka_capacity' = [zastavka_capacity EXCEPT ![waits_on_zastavka[s]] = @ + 1]
  /\ SemPost(bus_arrived)
  /\ GoTo(s, "wait")
  /\ UNCHANGED <<outVars, zastavka_sem, boarding, finalVars, busVars, mainVars,
                 waits_on_zastavka>>

\* Mutant: every skier waits on the semaphore of the first stop.
GetOnWrongStop(s) ==
  /\ Alive(s) /\ pc[s] = "wait"
  /\ zastavka_sem[1] > 0
  /\ zastavka_sem' = [zastavka_sem EXCEPT ![1] = @ - 1]
  /\ GoTo(s, "board")
  /\ UNCHANGED <<outVars, bus_arrived, boarding, zastavka_capacity, finalVars, busVars,
                 mainVars, waits_on_zastavka>>

GetOn(s) ==
  /\ Alive(s) /\ pc[s] = "wait"
  /\ zastavka_sem[waits_on_zastavka[s]] > 0
  /\ zastavka_sem' = [zastavka_sem EXCEPT ![waits_on_zastavka[s]] = @ - 1]
  /\ GoTo(s, "board")
  /\ UNCHANGED <<outVars, bus_arrived, boarding, zastavka_capacity, finalVars, busVars,
                 mainVars, waits_on_zastavka>>

PrintBoarding(s) ==
  /\ Alive(s) /\ pc[s] = "board" /\ Printed(s)
  /\ GoTo(s, "dequeue")
  /\ UNCHANGED <<stopVars, finalVars, busVars, mainVars, waits_on_zastavka>>

\* Mutant: the skier leaves the count of its stop as it was.
DequeueForgotten(s) ==
  /\ Alive(s) /\ pc[s] = "dequeue"
  /\ zastavka_capacity' = zastavka_capacity
  /\ SemPost(boarding)
  /\ GoTo(s, "aboard")
  /\ UNCHANGED <<outVars, bus_arrived, zastavka_sem, finalVars, busVars, mainVars,
                 waits_on_zastavka>>

Dequeue(s) ==
  /\ Alive(s) /\ pc[s] = "dequeue"
  /\ zastavka_capacity' = [zastavka_capacity EXCEPT ![waits_on_zastavka[s]] = @ - 1]
  /\ SemPost(boarding)
  /\ GoTo(s, "aboard")
  /\ UNCHANGED <<outVars, bus_arrived, zastavka_sem, finalVars, busVars, mainVars,
                 waits_on_zastavka>>

GetOff(s) ==
  /\ Alive(s) /\ pc[s] = "aboard"
  /\ SemWait(terminus)
  /\ GoTo(s, "alight")
  /\ UNCHANGED <<outVars, stopVars, going_ski, transported_skiers, busVars, mainVars,
                 waits_on_zastavka>>

PrintGoingToSki(s) ==
  /\ Alive(s) /\ pc[s] = "alight" /\ Printed(s)
  /\ GoTo(s, "count")
  /\ UNCHANGED <<stopVars, finalVars, busVars, mainVars, waits_on_zastavka>>

CountTransported(s) ==
  /\ Alive(s) /\ pc[s] = "count"
  /\ transported_skiers' = transported_skiers + 1
  /\ SemPost(going_ski)
  /\ GoTo(s, "done")
  /\ UNCHANGED <<outVars, stopVars, terminus, busVars, mainVars, waits_on_zastavka>>

Skier(s) ==
  \/ LockOutput(s) \/ PrintStarted(s) \/ Breakfast(s) \/ BreakfastDividesByZero(s) \/ EnterStop(s) \/ PrintArrived(s) \/ Enqueue(s)
  \/ GetOn(s) \/ PrintBoarding(s) \/ Dequeue(s) \/ GetOff(s) \/ PrintGoingToSki(s)
  \/ CountTransported(s)

-----------------------------------------------------------------------------
(***************************************************************************)
(* The bus process, skibus().                                              *)
(***************************************************************************)
BusPrintStarted ==
  /\ Alive(Bus) /\ pc[Bus] = "start" /\ Printed(Bus)
  /\ transported_skiers' = 0
  /\ GoTo(Bus, "loop")
  /\ UNCHANGED <<stopVars, terminus, going_ski, busVars, mainVars, waits_on_zastavka>>

\* while (*transported_skiers < L): begin a round, or go on to the end.
BeginRound ==
  /\ Alive(Bus) /\ pc[Bus] = "loop" /\ transported_skiers < L
  /\ current_capacity' = 0
  /\ current_zastavka' = 1
  /\ GoTo(Bus, "drive")
  /\ UNCHANGED <<outVars, stopVars, finalVars, mainVars, waits_on_zastavka>>

EndRounds ==
  /\ Alive(Bus) /\ pc[Bus] = "loop" /\ transported_skiers >= L
  /\ GoTo(Bus, "finish")
  /\ UNCHANGED <<outVars, stopVars, finalVars, busVars, mainVars, waits_on_zastavka>>

\* usleep(rand() % TL + 1): the bus too sleeps up to TL, and divides by it.
Drive ==
  /\ Alive(Bus) /\ pc[Bus] = "drive" /\ TL # 0
  /\ GoTo(Bus, "gate")
  /\ UNCHANGED <<outVars, stopVars, finalVars, busVars, mainVars, waits_on_zastavka>>

\* Mutant: the bus sleeps after it has closed the stops, not before.
DriveDividesByZeroInGate ==
  /\ Alive(Bus) /\ pc[Bus] = "drive" /\ TL = 0
  /\ SemWait(bus_arrived)
  /\ GoTo(Bus, "crashed")
  /\ UNCHANGED <<outVars, zastavka_sem, boarding, zastavka_capacity, finalVars, busVars,
                 mainVars, waits_on_zastavka>>

DriveDividesByZero ==
  /\ Alive(Bus) /\ pc[Bus] = "drive" /\ TL = 0
  /\ GoTo(Bus, "crashed")
  /\ UNCHANGED <<outVars, stopVars, finalVars, busVars, mainVars, waits_on_zastavka>>

CloseStops ==
  /\ Alive(Bus) /\ pc[Bus] = "gate"
  /\ SemWait(bus_arrived)
  /\ GoTo(Bus, "arrive")
  /\ UNCHANGED <<outVars, zastavka_sem, boarding, zastavka_capacity, finalVars,
                 busVars, mainVars, waits_on_zastavka>>

BusPrintArrived ==
  /\ Alive(Bus) /\ pc[Bus] = "arrive" /\ Printed(Bus)
  /\ GoTo(Bus, "load")
  /\ UNCHANGED <<stopVars, finalVars, busVars, mainVars, waits_on_zastavka>>

\* Mutant: one skier too many fits.
HasRoomOffByOne == current_capacity <= K

HasRoom == current_capacity < K

CanLoad == HasRoom /\ zastavka_capacity[current_zastavka] # 0

CallSkier ==
  /\ Alive(Bus) /\ pc[Bus] = "load" /\ CanLoad
  /\ zastavka_sem' = [zastavka_sem EXCEPT ![current_zastavka] = @ + 1]
  /\ current_capacity' = current_capacity + 1
  /\ GoTo(Bus, "boardWait")
  /\ UNCHANGED <<outVars, bus_arrived, boarding, zastavka_capacity, finalVars,
                 current_zastavka, mainVars, waits_on_zastavka>>

\* Mutant: the bus does not wait until the called skier has boarded.
AwaitBoardedUnguarded ==
  /\ Alive(Bus) /\ pc[Bus] = "boardWait"
  /\ boarding' = boarding
  /\ GoTo(Bus, "load")
  /\ UNCHANGED <<outVars, bus_arrived, zastavka_sem, zastavka_capacity, finalVars,
                 busVars, mainVars, waits_on_zastavka>>

AwaitBoarded ==
  /\ Alive(Bus) /\ pc[Bus] = "boardWait"
  /\ SemWait(boarding)
  /\ GoTo(Bus, "load")
  /\ UNCHANGED <<outVars, bus_arrived, zastavka_sem, zastavka_capacity, finalVars,
                 busVars, mainVars, waits_on_zastavka>>

StopLoading ==
  /\ Alive(Bus) /\ pc[Bus] = "load" /\ ~CanLoad
  /\ GoTo(Bus, "leave")
  /\ UNCHANGED <<outVars, stopVars, finalVars, busVars, mainVars, waits_on_zastavka>>

BusPrintLeaving ==
  /\ Alive(Bus) /\ pc[Bus] = "leave" /\ Printed(Bus)
  /\ GoTo(Bus, "release")
  /\ UNCHANGED <<stopVars, finalVars, busVars, mainVars, waits_on_zastavka>>

\* Mutant: bus_arrived_to_zastavka stays taken after the stop.
OpenStopsForgotten ==
  /\ Alive(Bus) /\ pc[Bus] = "release"
  /\ bus_arrived' = bus_arrived
  /\ current_zastavka' = current_zastavka + 1
  /\ GoTo(Bus, IF current_zastavka + 1 <= Z THEN "drive" ELSE "final")
  /\ UNCHANGED <<outVars, zastavka_sem, boarding, zastavka_capacity, finalVars,
                 current_capacity, mainVars, waits_on_zastavka>>

\* Mutant: the loop over the stops ends before the last one.
OpenStopsSkipsLast ==
  /\ Alive(Bus) /\ pc[Bus] = "release"
  /\ SemPost(bus_arrived)
  /\ current_zastavka' = current_zastavka + 1
  /\ GoTo(Bus, IF current_zastavka + 1 < Z THEN "drive" ELSE "final")
  /\ UNCHANGED <<outVars, zastavka_sem, boarding, zastavka_capacity, finalVars,
                 current_capacity, mainVars, waits_on_zastavka>>

\* sem_post and the increment and test of the for loop over the stops.
OpenStops ==
  /\ Alive(Bus) /\ pc[Bus] = "release"
  /\ SemPost(bus_arrived)
  /\ current_zastavka' = current_zastavka + 1
  /\ GoTo(Bus, IF current_zastavka + 1 <= Z THEN "drive" ELSE "final")
  /\ UNCHANGED <<outVars, zastavka_sem, boarding, zastavka_capacity, finalVars,
                 current_capacity, mainVars, waits_on_zastavka>>

BusPrintFinal ==
  /\ Alive(Bus) /\ pc[Bus] = "final" /\ Printed(Bus)
  /\ GoTo(Bus, "unload")
  /\ UNCHANGED <<stopVars, finalVars, busVars, mainVars, waits_on_zastavka>>

\* while (current_capacity-- != 0): the test decrements on both outcomes.
CallOut ==
  /\ Alive(Bus) /\ pc[Bus] = "unload" /\ current_capacity # 0
  /\ current_capacity' = current_capacity - 1
  /\ SemPost(terminus)
  /\ GoTo(Bus, "skiWait")
  /\ UNCHANGED <<outVars, stopVars, going_ski, transported_skiers, current_zastavka,
                 mainVars, waits_on_zastavka>>

\* Mutant: the bus drives on before the last skiers have got off.
AwaitGoneUnguarded ==
  /\ Alive(Bus) /\ pc[Bus] = "skiWait"
  /\ going_ski' = going_ski
  /\ GoTo(Bus, "unload")
  /\ UNCHANGED <<outVars, stopVars, terminus, transported_skiers, busVars, mainVars,
                 waits_on_zastavka>>

AwaitGone ==
  /\ Alive(Bus) /\ pc[Bus] = "skiWait"
  /\ SemWait(going_ski)
  /\ GoTo(Bus, "unload")
  /\ UNCHANGED <<outVars, stopVars, terminus, transported_skiers, busVars, mainVars,
                 waits_on_zastavka>>

StopUnloading ==
  /\ Alive(Bus) /\ pc[Bus] = "unload" /\ current_capacity = 0
  /\ current_capacity' = current_capacity - 1
  /\ GoTo(Bus, "leaveFinal")
  /\ UNCHANGED <<outVars, stopVars, finalVars, current_zastavka, mainVars,
                 waits_on_zastavka>>

BusPrintLeavingFinal ==
  /\ Alive(Bus) /\ pc[Bus] = "leaveFinal" /\ Printed(Bus)
  /\ GoTo(Bus, "loop")
  /\ UNCHANGED <<stopVars, finalVars, busVars, mainVars, waits_on_zastavka>>

BusPrintFinish ==
  /\ Alive(Bus) /\ pc[Bus] = "finish" /\ Printed(Bus)
  /\ GoTo(Bus, "done")
  /\ UNCHANGED <<stopVars, finalVars, busVars, mainVars, waits_on_zastavka>>

BusProcess ==
  \/ LockOutput(Bus) \/ BusPrintStarted \/ BeginRound \/ EndRounds \/ Drive
  \/ DriveDividesByZero \/ CloseStops \/ BusPrintArrived
  \/ CallSkier \/ AwaitBoarded \/ StopLoading \/ BusPrintLeaving \/ OpenStops
  \/ BusPrintFinal \/ CallOut \/ AwaitGone \/ StopUnloading \/ BusPrintLeavingFinal
  \/ BusPrintFinish

-----------------------------------------------------------------------------
(***************************************************************************)
(* The main process.                                                       *)
(***************************************************************************)
ForkBus ==
  /\ main = "forkBus"
  /\ main' = IF L = 0 THEN "waitBus" ELSE "forkSkiers"
  /\ GoTo(Bus, "start")
  /\ UNCHANGED <<outVars, stopVars, finalVars, busVars, waits_on_zastavka, forked, killed>>

ForkSkier ==
  /\ main = "forkSkiers"
  /\ forked' = forked + 1
  /\ main' = IF forked + 1 = L THEN "waitBus" ELSE "forkSkiers"
  /\ GoTo(forked + 1, "start")
  /\ UNCHANGED <<outVars, stopVars, finalVars, busVars, waits_on_zastavka, killed>>

\* fork() returned -1; destroy_vars() unmaps main's own view only.
ForkFails ==
  /\ main \in {"forkBus", "forkSkiers"}
  /\ main' = "failing"
  /\ UNCHANGED <<pc, outVars, stopVars, finalVars, busVars, waits_on_zastavka, forked, killed>>

\* for (j = 0; j < i; j++) kill(child_processes[j]), up to the failed fork's slot.
KillSkier ==
  /\ main = "failing"
  /\ \E s \in 1..forked :
       /\ s \notin killed /\ 1..(s - 1) \subseteq killed
       /\ killed' = killed \cup {s}
  /\ UNCHANGED <<pc, outVars, stopVars, finalVars, busVars, waits_on_zastavka, main, forked>>

\* The last slot, and skibus_process when its own fork failed, hold -1:
\* kill(-1, SIGKILL) reaches every process but the caller.
KillEveryProcess ==
  /\ main = "failing" /\ 1..forked \subseteq killed
  /\ killed' = Procs \cup {Others}
  /\ main' = "failed"
  /\ UNCHANGED <<pc, outVars, stopVars, finalVars, busVars, waits_on_zastavka, forked>>

\* Mutant: main does not wait for the bus before it destroys the semaphores.
WaitBusUnguarded ==
  /\ main = "waitBus"
  /\ main' = "exited"
  /\ UNCHANGED <<pc, outVars, stopVars, finalVars, busVars, waits_on_zastavka, forked, killed>>

\* waitpid(skibus_process), destroy_vars(), return 0.
WaitBus ==
  /\ main = "waitBus" /\ pc[Bus] \in {"done", "crashed"}
  /\ main' = "exited"
  /\ UNCHANGED <<pc, outVars, stopVars, finalVars, busVars, waits_on_zastavka, forked, killed>>

MainProcess == ForkBus \/ ForkSkier \/ ForkFails \/ KillSkier \/ KillEveryProcess \/ WaitBus

\* Every process has ended: the only state in which nothing may happen.
Terminated ==
  /\ main \in {"exited", "failed"}
  /\ \A p \in Procs : Alive(p) => pc[p] \in {"done", "crashed"}
  /\ UNCHANGED vars

-----------------------------------------------------------------------------
Init ==
  /\ pc = [p \in Procs |-> "unborn"]
  /\ printing = {} /\ output = 1
  /\ bus_arrived = 1
  /\ zastavka_sem = [z \in Stops |-> 0]
  /\ boarding = 0 /\ terminus = 0 /\ going_ski = 0
  /\ zastavka_capacity = [z \in Stops |-> 0]
  /\ transported_skiers = 0
  /\ waits_on_zastavka \in [Skiers -> {1}]
  /\ current_zastavka = 1 /\ current_capacity = 0
  /\ main = "forkBus" /\ forked = 0 /\ killed = {}

Next ==
  \/ \E s \in Skiers : Skier(s)
  \/ BusProcess
  \/ MainProcess
  \/ Terminated

Spec == Init /\ [][Next]_vars

(***************************************************************************)
(* Every process keeps running.  A skier that contends with the bus for    *)
(* the output file or for the gate to the stops gets its turn eventually:  *)
(* the bus sleeps at least a microsecond between any two of its rounds     *)
(* through either semaphore.  Nothing stronger is assumed of the bus.      *)
(***************************************************************************)
Fairness ==
  /\ WF_vars(MainProcess)
  /\ WF_vars(BusProcess)
  /\ \A s \in Skiers :
       WF_vars(Skier(s)) /\ SF_vars(LockOutput(s)) /\ SF_vars(EnterStop(s))

FairSpec == Spec /\ Fairness

-----------------------------------------------------------------------------
(***************************************************************************)
(* Properties.                                                             *)
(***************************************************************************)

\* Every variable keeps to its range; in particular the semaphores are
\* binary although sem_t is not, and the bus's seat count, which the test of
\* the unloading loop takes below zero, never goes under -1.
TypeOK ==
  /\ pc \in [Procs -> SkierLabels \cup BusLabels]
  /\ pc[Bus] \in BusLabels /\ \A s \in Skiers : pc[s] \in SkierLabels
  /\ printing \in SUBSET Procs /\ output \in 0..1
  /\ bus_arrived \in 0..1
  /\ zastavka_sem \in [Stops -> 0..1]
  /\ boarding \in 0..1 /\ terminus \in 0..1 /\ going_ski \in 0..1
  /\ zastavka_capacity \in [Stops -> 0..L]
  /\ transported_skiers \in 0..L
  /\ waits_on_zastavka \in [Skiers -> Stops]
  /\ current_zastavka \in 1..(Z + 1) /\ current_capacity \in -1..K
  /\ main \in MainLabels /\ forked \in 0..L
  /\ killed \in SUBSET (Procs \cup {Others})

\* Processes whose next access to shared memory is to the count of stop z.
AtCount(z) ==
  {s \in Skiers : pc[s] \in {"enqueue", "dequeue"} /\ waits_on_zastavka[s] = z}
    \cup (IF pc[Bus] = "load" /\ current_zastavka = z THEN {Bus} ELSE {})

\* Processes whose next access is to transported_skiers.
AtTransported ==
  {s \in Skiers : pc[s] = "count"}
    \cup (IF pc[Bus] = "loop" \/ (pc[Bus] = "start" /\ Bus \in printing) THEN {Bus} ELSE {})

\* The shared counters carry no lock of their own: the semaphore protocol
\* must keep two processes from being at an access to the same one (an
\* increment is a read and a write, and the bus reads both counters bare).
NoDataRace ==
  /\ \A z \in Stops : Cardinality(AtCount(z)) <= 1
  /\ Cardinality(AtTransported) <= 1

\* Skiers that stand at stop z, skiers in the bus, skiers on the slopes.
Standing(z) == {s \in Skiers : pc[s] \in {"wait", "board", "dequeue"} /\ waits_on_zastavka[s] = z}
Aboard == {s \in Skiers : pc[s] \in {"dequeue", "aboard", "alight"}}
Skied  == {s \in Skiers : pc[s] = "done"}

\* Between sem_wait and sem_post on bus_arrived_to_zastavka.
InGate(p) ==
  pc[p] \in (IF p = Bus THEN {"arrive", "load", "boardWait", "leave", "release"}
                        ELSE {"arrive", "enqueue"})

\* The count the bus reads at a stop is the number of skiers that stand
\* there, whichever of them are between their printed line and their next
\* semaphore: the count neither misses a skier nor keeps one that left.
StopCountsAreExact ==
  \A z \in Stops : zastavka_capacity[z] = Cardinality(Standing(z))

\* The bus decides from counters alone, and it decides right: it stops
\* loading only when it is full or nobody stands at the stop, it starts a
\* round and leaves the terminus empty, and it never carries more than K.
BusDecidesRight ==
  /\ pc[Bus] = "leave" => Cardinality(Aboard) = K \/ Standing(current_zastavka) = {}
  /\ pc[Bus] \in {"leaveFinal", "loop", "finish", "done"} => Aboard = {}
  /\ Cardinality(Aboard) <= K

\* The gate to the stops belongs to one process at a time, the bus for a
\* whole stop or a skier for its arrival, and it is never lost: a semaphore
\* left taken by a process that moved on or died would stop everyone else.
GateOwned ==
  /\ bus_arrived = 1 <=> \A p \in Procs : ~InGate(p)
  /\ \A p, q \in Procs : InGate(p) /\ InGate(q) => p = q

\* main destroys the semaphores when the bus has ended, without waiting for
\* the skiers: by then no skier may still have a semaphore operation to make.
DestroyedUnused ==
  main = "exited" /\ TL > 0 => \A s \in Skiers : pc[s] = "done"

\* Unless a fork fails, every skier goes skiing and the program ends.
EverySkierSkis ==
  (main = "waitBus") ~> (main = "exited" /\ \A s \in Skiers : pc[s] = "done")

\* Where the lines printed so far put each skier and the bus.
LoggedSkier ==
  [s \in Skiers |->
     CASE pc[s] \in {"enqueue", "wait", "board"}      -> "waiting"
       [] pc[s] \in {"dequeue", "aboard", "alight"}   -> "aboard"
       [] pc[s] \in {"count", "done"}                 -> "skied"
       [] OTHER                                       -> "home"]

LoggedBus ==
  CASE pc[Bus] \in {"load", "boardWait", "leave"}     -> "stop"
    [] pc[Bus] \in {"unload", "skiWait", "leaveFinal"} -> "final"
    [] pc[Bus] = "done"                               -> "over"
    [] OTHER                                          -> "road"

LoggedNext ==
  CASE pc[Bus] \in {"unborn", "start", "loop", "finish", "done"} -> 1
    [] pc[Bus] = "release" -> current_zastavka + 1
    [] OTHER               -> current_zastavka

Log == INSTANCE SkiLog WITH
  skier <- LoggedSkier, stop <- waits_on_zastavka, bus <- LoggedBus, next <- LoggedNext

\* The lines that proj2.c writes follow each other as SkiLog allows: whatever
\* the interleaving, a killed or crashed process included, the file tells the
\* story of one bus that takes every skier it can.
ImplementsLog == Log!LogSpec

\* The error path of main says that it kills its child processes: it should
\* kill nobody else.
OnlyChildrenKilled == killed \subseteq Procs

-----------------------------------------------------------------------------
(***************************************************************************)
(* The inductive invariant behind the safety properties, in named parts.   *)
(***************************************************************************)

\* Who may be where before everything has been forked, and after the end.
ForkInv ==
  /\ main = "forkBus" => forked = 0 /\ pc[Bus] = "unborn"
  /\ main = "forkSkiers" => forked < L
  /\ \A s \in Skiers : s > forked => pc[s] = "unborn"
  /\ pc[Bus] = "finish" => Skied = Skiers
  /\ pc[Bus] = "done" => Skied = Skiers
  /\ main = "exited" => pc[Bus] \in {"done", "crashed"}
  /\ pc[Bus] = "crashed" => TL = 0

PrintInv ==
  /\ \A p \in printing : AtPrint(p)
  /\ \/ output = 1 /\ printing = {}
     \/ output = 0 /\ \E p \in Procs : printing = {p}

\* At most one skier is being called at a time, and only while the bus waits
\* for it: the token is in the stop's semaphore, with the skier, or in boarding.
Called == {s \in Skiers : pc[s] \in {"board", "dequeue"}}
BoardingInv ==
  /\ \A z \in Stops : zastavka_sem[z] = 1 => pc[Bus] = "boardWait" /\ z = current_zastavka
  /\ \A s \in Called : pc[Bus] = "boardWait" /\ waits_on_zastavka[s] = current_zastavka
  /\ boarding = 1 => pc[Bus] = "boardWait"
  /\ \A s, t \in Called : s = t
  /\ \A z \in Stops : zastavka_sem[z] = 1 => Called = {} /\ boarding = 0
  /\ boarding = 1 => Called = {}
  /\ pc[Bus] \in {"load", "boardWait", "leave", "release", "drive", "gate", "arrive"}
       => current_zastavka \in Stops
  /\ pc[Bus] = "final" => current_zastavka = Z + 1

\* The same hand-over at the terminus.
Leaving == {s \in Skiers : pc[s] \in {"alight", "count"}}
TerminusInv ==
  /\ terminus = 1 \/ going_ski = 1 \/ Leaving # {} => pc[Bus] = "skiWait"
  /\ \A s, t \in Leaving : s = t
  /\ terminus = 1 => Leaving = {} /\ going_ski = 0
  /\ going_ski = 1 => Leaving = {}

TransportedInv ==
  /\ transported_skiers = Cardinality(Skied)
  /\ pc[Bus] \in {"unborn", "start"} => Skied = {}

\* current_capacity runs ahead of the skiers in the bus by the one that was
\* called and has not printed its line, and behind them by the one that was
\* let out and has not.
CalledNotAboard == (\E z \in Stops : zastavka_sem[z] = 1) \/ (\E s \in Skiers : pc[s] = "board")
LetOutNotGone   == terminus = 1 \/ \E s \in Skiers : pc[s] = "alight"
SeatsInv ==
  /\ pc[Bus] \in {"unborn", "start", "leaveFinal", "loop", "finish", "done"} => Aboard = {}
  /\ pc[Bus] \in {"drive", "gate", "arrive", "load", "boardWait", "leave", "release",
                  "final", "unload", "skiWait", "crashed"} =>
       /\ current_capacity \in 0..K
       /\ current_capacity = Cardinality(Aboard)
            + (IF CalledNotAboard THEN 1 ELSE IF LetOutNotGone THEN -1 ELSE 0)
  /\ pc[Bus] = "skiWait" => current_capacity < K
  /\ pc[Bus] = "leave" => current_capacity = K \/ zastavka_capacity[current_zastavka] = 0

IInv ==
  /\ TypeOK /\ ForkInv /\ PrintInv /\ GateOwned /\ BoardingInv /\ TerminusInv
  /\ StopCountsAreExact /\ TransportedInv /\ SeatsInv

=============================================================================
