----------------------------- MODULE OutputFile -----------------------------
(***************************************************************************)
(* The numbering of the lines of proj2.out.  Every process of              *)
(* 1/IOS/2-project/proj2.c prints a line as                                *)
(*                                                                         *)
(*     sem_wait(output);                                                   *)
(*     fprintf(fp, "%i: ...", ++( *output_cnt), ...);                      *)
(*     sem_post(output);                                                   *)
(*                                                                         *)
(* where output_cnt is shared memory and the stream is unbuffered, on one  *)
(* file offset that all the processes inherited.  The increment is a read  *)
(* and a write, each a step here, and the line reaches the file in a third *)
(* one.  What the line says, and when a process prints, is Skibus's.       *)
(***************************************************************************)
EXTENDS Integers, Sequences

CONSTANTS Procs,    \* the bus and the skiers
          MaxLines  \* bound on the lines printed

ASSUME MaxLinesAssumption == MaxLines \in Nat

VARIABLES
  at,          \* control point of each process
  output,      \* the semaphore
  output_cnt,  \* the shared counter
  value,       \* private to each process: what its ++ computed
  file         \* the numbers on the lines, in file order

vars == <<at, output, output_cnt, value, file>>

Labels == {"idle", "read", "store", "write", "post", "ended"}

GoTo(p, label) == at' = [at EXCEPT ![p] = label]

\* Mutant: the process prints without waiting for the semaphore.
WaitUnguarded(p) ==
  /\ at[p] = "idle" /\ Len(file) < MaxLines
  /\ output' = output
  /\ GoTo(p, "read")
  /\ UNCHANGED <<output_cnt, value, file>>

Wait(p) ==
  /\ at[p] = "idle" /\ Len(file) < MaxLines
  /\ output > 0 /\ output' = output - 1
  /\ GoTo(p, "read")
  /\ UNCHANGED <<output_cnt, value, file>>

ReadCounter(p) ==
  /\ at[p] = "read"
  /\ value' = [value EXCEPT ![p] = output_cnt + 1]
  /\ GoTo(p, "store")
  /\ UNCHANGED <<output, output_cnt, file>>

StoreCounter(p) ==
  /\ at[p] = "store"
  /\ output_cnt' = value[p]
  /\ GoTo(p, "write")
  /\ UNCHANGED <<output, value, file>>

WriteLine(p) ==
  /\ at[p] = "write"
  /\ file' = Append(file, value[p])
  /\ GoTo(p, "post")
  /\ UNCHANGED <<output, output_cnt, value>>

Post(p) ==
  /\ at[p] = "post"
  /\ output' = output + 1
  /\ GoTo(p, "idle")
  /\ UNCHANGED <<output_cnt, value, file>>

\* The process has printed its last line, or dies of a division by zero.
End(p) ==
  /\ at[p] = "idle"
  /\ GoTo(p, "ended")
  /\ UNCHANGED <<output, output_cnt, value, file>>

\* kill(p, SIGKILL) on main's error path, wherever p is; the semaphore stays
\* as it is.
Kill(p) ==
  /\ at[p] \notin {"idle", "ended"}
  /\ GoTo(p, "ended")
  /\ UNCHANGED <<output, output_cnt, value, file>>

Terminated == (\A p \in Procs : at[p] = "ended") /\ UNCHANGED vars

Init ==
  /\ at = [p \in Procs |-> "idle"]
  /\ output = 1 /\ output_cnt = 0
  /\ value = [p \in Procs |-> 0]
  /\ file = << >>

Next ==
  \/ \E p \in Procs : \/ Wait(p) \/ ReadCounter(p) \/ StoreCounter(p) \/ WriteLine(p)
                      \/ Post(p) \/ End(p) \/ Kill(p)
  \/ Terminated

Spec == Init /\ [][Next]_vars

-----------------------------------------------------------------------------
TypeOK ==
  /\ at \in [Procs -> Labels]
  /\ output \in 0..1 /\ output_cnt \in Nat
  /\ value \in [Procs -> Nat]
  /\ file \in Seq(Nat)

\* Line i of proj2.out carries the number i, however the processes' prints
\* interleave and whichever of them is killed half way through one.
Numbered == \A i \in 1..Len(file) : file[i] = i

(***************************************************************************)
(* The inductive invariant.                                                *)
(***************************************************************************)
Holds(p) == at[p] \in {"read", "store", "write", "post"}

\* One process at a time is inside; none is when the semaphore is free.
Exclusive ==
  /\ output = 1 => \A p \in Procs : ~Holds(p)
  /\ \A p, q \in Procs : Holds(p) /\ Holds(q) => p = q

\* The counter and the file agree, up to the line that is being printed; a
\* killed process leaves them apart with the semaphore taken for good.
CounterInv ==
  /\ output = 1 => output_cnt = Len(file)
  /\ \A p \in Procs :
       /\ at[p] \in {"read", "post"} => output_cnt = Len(file)
       /\ at[p] = "store" => output_cnt = Len(file) /\ value[p] = Len(file) + 1
       /\ at[p] = "write" => output_cnt = Len(file) + 1 /\ value[p] = Len(file) + 1

IInv == TypeOK /\ Exclusive /\ CounterInv /\ Numbered

=============================================================================
