-------------------------------- MODULE Fifo --------------------------------
(***************************************************************************)
(* What the queue of IAL project 1 promises: characters leave in the order *)
(* in which they came, at most Capacity of them wait, and a call that      *)
(* cannot be served changes nothing but raises the error.                  *)
(***************************************************************************)
EXTENDS Integers, Sequences

CONSTANTS FifoData, Capacity

VARIABLES waiting, got, error

FifoInit == waiting = <<>> /\ got \in FifoData /\ error = FALSE

Refused == error' = TRUE /\ UNCHANGED <<waiting, got>>

Put(d) ==
  IF Len(waiting) >= Capacity THEN Refused
  ELSE waiting' = Append(waiting, d) /\ UNCHANGED <<got, error>>

Peek ==
  IF waiting = <<>> THEN Refused
  ELSE got' = Head(waiting) /\ UNCHANGED <<waiting, error>>

Drop ==
  IF waiting = <<>> THEN Refused
  ELSE waiting' = Tail(waiting) /\ UNCHANGED <<got, error>>

Take ==
  IF waiting = <<>> THEN Refused
  ELSE got' = Head(waiting) /\ waiting' = Tail(waiting) /\ UNCHANGED error

Reset == waiting' = <<>> /\ UNCHANGED <<got, error>>

FifoNext == (\E d \in FifoData : Put(d)) \/ Peek \/ Drop \/ Take \/ Reset

FifoSpec == FifoInit /\ [][FifoNext]_<<waiting, got, error>>
=============================================================================
