------------------------------- MODULE SkiLog -------------------------------
(***************************************************************************)
(* What proj2.out promises its reader: the order in which the lines of one *)
(* simulation may follow each other, with no process, semaphore or counter *)
(* in sight.  One action is one line of the file (the two "started" lines  *)
(* change nothing here).                                                   *)
(***************************************************************************)
EXTENDS Integers, FiniteSets

CONSTANTS Skiers,  \* the skiers named in the file
          Z,       \* stops 1..Z
          K        \* capacity of the bus

VARIABLES
  skier,   \* each skier: "home", "waiting", "aboard" or "skied"
  stop,    \* each skier's stop
  bus,     \* "road", "stop", "final" or "over"
  next     \* the stop the bus stands at, or drives to; Z + 1 is the terminus

logVars == <<skier, stop, bus, next>>

Places    == {"home", "waiting", "aboard", "skied"}
OnTheBus  == {s \in Skiers : skier[s] = "aboard"}
QueueAt(z) == {s \in Skiers : skier[s] = "waiting" /\ stop[s] = z}
Full      == Cardinality(OnTheBus) = K

\* "L s: arrived to z" never falls between the bus's "arrived to" and "leaving".
Arrive(s) ==
  /\ skier[s] = "home" /\ bus \in {"road", "final"}
  /\ skier' = [skier EXCEPT ![s] = "waiting"]
  /\ UNCHANGED <<stop, bus, next>>

\* The skier's private choice of a stop, which no line shows until it arrives.
ChooseStop(s) ==
  /\ skier[s] = "home"
  /\ \E z \in 1..Z : stop' = [stop EXCEPT ![s] = z]
  /\ UNCHANGED <<skier, bus, next>>

\* "BUS: arrived to z"
BusArrives ==
  /\ bus = "road" /\ next <= Z
  /\ bus' = "stop"
  /\ UNCHANGED <<skier, stop, next>>

\* "L s: boarding"
Board(s) ==
  /\ bus = "stop" /\ s \in QueueAt(next) /\ ~Full
  /\ skier' = [skier EXCEPT ![s] = "aboard"]
  /\ UNCHANGED <<stop, bus, next>>

\* "BUS: leaving z": nobody who fits is left behind.
Leave ==
  /\ bus = "stop" /\ (Full \/ QueueAt(next) = {})
  /\ bus' = "road" /\ next' = next + 1
  /\ UNCHANGED <<skier, stop>>

\* "BUS: arrived to final"
ReachFinal ==
  /\ bus = "road" /\ next = Z + 1
  /\ bus' = "final"
  /\ UNCHANGED <<skier, stop, next>>

\* "L s: going to ski"
GoToSki(s) ==
  /\ bus = "final" /\ skier[s] = "aboard"
  /\ skier' = [skier EXCEPT ![s] = "skied"]
  /\ UNCHANGED <<stop, bus, next>>

\* "BUS: leaving final": empty.
LeaveFinal ==
  /\ bus = "final" /\ OnTheBus = {}
  /\ bus' = "road" /\ next' = 1
  /\ UNCHANGED <<skier, stop>>

\* "BUS: finish": at the start of a round, with every skier on the slopes.
Finish ==
  /\ bus = "road" /\ next = 1
  /\ \A s \in Skiers : skier[s] = "skied"
  /\ bus' = "over"
  /\ UNCHANGED <<skier, stop, next>>

LogInit ==
  /\ skier = [s \in Skiers |-> "home"]
  /\ stop \in [Skiers -> 1..Z]
  /\ bus = "road" /\ next = 1

LogNext ==
  \/ \E s \in Skiers : ChooseStop(s) \/ Arrive(s) \/ Board(s) \/ GoToSki(s)
  \/ BusArrives \/ Leave \/ ReachFinal \/ LeaveFinal \/ Finish

LogSpec == LogInit /\ [][LogNext]_logVars

=============================================================================
