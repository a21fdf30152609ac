--------------------------- MODULE PortScanProofs ---------------------------
(***************************************************************************)
(* Proofs about the port scan, for every list of ports.                    *)
(***************************************************************************)
EXTENDS PortScan, TLAPS, SequenceTheorems

USE DEF Truths, Hosts

LEMMA TargetFacts ==
  /\ Len(Targets) \in Nat
  /\ \A j \in Positions : Targets[j].proto \in {"tcp", "udp"}
<1>1. Len(Targets) \in Nat
  BY ScanAssumption
<1>2. \A j \in 1..Len(Targets) : Targets[j] \in [proto : {"tcp", "udp"}, port : Nat]
  BY ScanAssumption, ElementOfSeq
<1>. QED
  BY <1>1, <1>2 DEF Positions

\* The two outcomes of Repeat.
LEMMA RepeatCases ==
  ASSUME Repeat
  PROVE  \/ flag = 0 /\ flag' = 1 /\ UNCHANGED <<i, verdict>>
         \/ flag = 1 /\ flag' = 0 /\ i' = i + 1
            /\ verdict' = [verdict EXCEPT ![i] = Silent(Targets[i].proto)]
BY DEF Repeat, Report

LEMMA ScanInitInv == Init => ScanInv
<1> SUFFICES ASSUME Init PROVE ScanInv
  OBVIOUS
<1> USE TargetFacts, ScanAssumption DEF Init, Positions
<1>1. TypeOK
  BY DEF TypeOK, Packets
<1>2. ReportedInOrder /\ AtMostTwoProbes /\ VerdictsRight /\ CleanInv
  BY DEF ReportedInOrder, AtMostTwoProbes, VerdictsRight, CleanInv
<1>. QED
  BY <1>1, <1>2 DEF ScanInv

LEMMA TypeStep == ScanInv /\ [Next]_vars => TypeOK'
<1> SUFFICES ASSUME ScanInv, [Next]_vars PROVE TypeOK'
  OBVIOUS
<1> USE TargetFacts DEF ScanInv, TypeOK
<1>1. CASE UNCHANGED vars
  BY <1>1 DEF vars, netVars
<1>2. CASE Send
  <2>1. i \in Positions
    BY <1>2 DEF Send, Positions
  <2>2. captured' \in Seq(Packets)
    BY <1>2 DEF Send
  <2>3. probes' \in [Positions -> 0..3]
    BY <1>2, <2>1 DEF Send
  <2>4. inflight' \in [Positions -> Nat]
    BY <1>2, <2>1 DEF Send
  <2>5. lost' \subseteq Positions
    BY <1>2, <2>1 DEF Send
  <2>. QED
    BY <1>2, <2>2, <2>3, <2>4, <2>5 DEF Send
<1>3. ASSUME Repeat, phase = "wait" PROVE i' \in 1..(Len(Targets) + 1) /\ flag' \in 0..1
            /\ verdict' \in [Positions -> Truths \cup {"none"}]
  BY <1>3, RepeatCases DEF Silent, Positions
<1>4. CASE Timeout
  BY <1>4, <1>3 DEF Timeout, netVars
<1>5. CASE Read
  <2>1. captured' \in Seq(Packets)
    BY <1>5 DEF Read
  <2>2. CASE Repeat
    BY <1>5, <2>1, <2>2, <1>3 DEF Read
  <2>3. ASSUME NEW v \in Truths, Report(v), UNCHANGED flag PROVE TypeOK'
    <3>1. i \in Positions
      BY <1>5 DEF Read, Positions
    <3>2. i' \in 1..(Len(Targets) + 1) /\ verdict' \in [Positions -> Truths \cup {"none"}]
      BY <2>3, <3>1 DEF Report, Positions
    <3>. QED
      BY <1>5, <2>1, <2>3, <3>2 DEF Read
  <2>. QED
    BY <1>5, <2>2, <2>3 DEF Read
<1>6. CASE ReadFails
  <2>1. clean' \in BOOLEAN
    BY <1>6, Zenon DEF ReadFails
  <2>2. i' \in 1..(Len(Targets) + 1) /\ flag' \in 0..1
            /\ verdict' \in [Positions -> Truths \cup {"none"}]
    BY <1>6, <1>3 DEF ReadFails, Positions
  <2>3. skipped' \subseteq Positions
    <3>1. i \in Positions /\ (skipped' = skipped \cup {i} \/ skipped' = skipped)
      BY <1>6 DEF ReadFails, Positions
    <3>. QED
      BY <3>1
  <2>. QED
    BY <1>6, <2>1, <2>2, <2>3 DEF ReadFails, netVars
<1>7. CASE Finish \/ Exit \/ Ended
  BY <1>7 DEF Finish, Exit, Ended, netVars, vars
<1>8. ASSUME NEW j \in Positions, Capture(j) PROVE TypeOK'
  <2>1. [proto |-> Targets[j].proto, kind |-> Kind(j)] \in Packets
    BY DEF Packets, Kind
  <2>2. captured' \in Seq(Packets)
    BY <1>8, <2>1 DEF Capture
  <2>3. inflight' \in [Positions -> Nat]
    BY <1>8 DEF Capture
  <2>. QED
    BY <1>8, <2>2, <2>3 DEF Capture
<1>9. CASE Noise
  <2>1. [proto |-> Targets[i].proto, kind |-> "other"] \in Packets
    <3>1. Targets[i].proto \in {"tcp", "udp"}
      BY <1>9 DEF Noise, Positions
    <3>. QED
      BY <3>1 DEF Packets
  <2>2. captured' \in Seq(Packets)
    BY <1>9, <2>1 DEF Noise
  <2>3. clean' \in BOOLEAN
    BY <1>9, Zenon DEF Noise
  <2>. QED
    BY <1>9, <2>2, <2>3 DEF Noise
<1>. QED
  BY <1>1, <1>2, <1>4, <1>5, <1>6, <1>7, <1>8, <1>9 DEF Next, Scan

\* Order, number of probes and position: what the loop itself keeps.
Progress ==
  /\ ReportedInOrder /\ AtMostTwoProbes
  /\ phase = "wait" => i <= Len(Targets)

LEMMA ProgressStep == ScanInv /\ [Next]_vars => Progress'
<1> SUFFICES ASSUME ScanInv, [Next]_vars PROVE Progress'
  OBVIOUS
<1> USE TargetFacts DEF ScanInv, TypeOK, Progress, ReportedInOrder, AtMostTwoProbes, Positions
<1>1. CASE UNCHANGED vars
  BY <1>1 DEF vars, netVars
<1>2. CASE Send
  <2>1. i \in Positions /\ probes[i] <= flag /\ probes[i] # 3
    BY <1>2 DEF Send
  <2>2. UNCHANGED <<i, flag, verdict, skipped>> /\ phase = "send" /\ phase' = "wait"
    BY <1>2 DEF Send
  <2>3. \A j \in Positions : probes'[j] = IF j = i THEN probes[j] + 1 ELSE probes[j]
    BY <1>2, <2>1 DEF Send
  <2>4. AtMostTwoProbes'
    <3>1. ASSUME NEW j \in Positions PROVE probes'[j] <= 2 /\ (j > i' => probes'[j] = 0)
      <4>1. CASE j = i
        <5>1. probes'[i] = probes[i] + 1 /\ probes[i] \in 0..3 /\ flag \in 0..1
          BY <2>1, <2>3
        <5>2. ~(i > i')
          BY <2>1, <2>2
        <5>. QED
          BY <2>1, <4>1, <5>1, <5>2
      <4>2. CASE j # i
        BY <2>2, <2>3, <4>2
      <4>. QED
        BY <4>1, <4>2
    <3>2. probes'[i] = probes[i] + 1 /\ probes[i] \in 0..3
      BY <2>1, <2>3
    <3>3. probes'[i'] <= flag' + (IF phase' = "send" THEN 0 ELSE 1)
      BY <2>1, <2>2, <3>2
    <3>. QED
      BY <3>1, <3>3
  <2>. QED
    BY <2>1, <2>2, <2>4
\* The loop stays where it is.
<1>a. ASSUME UNCHANGED <<i, verdict, skipped, probes>>, flag' = flag,
             phase' = phase \/ phase' \in {"done", "exited"}
      PROVE  Progress'
  <2>1. ReportedInOrder'
    BY <1>a
  <2>2. i' \in Positions => probes'[i'] <= flag' + (IF phase' = "send" THEN 0 ELSE 1)
    <3>. SUFFICES ASSUME i \in Positions
                  PROVE  probes[i] <= flag + (IF phase' = "send" THEN 0 ELSE 1)
      BY <1>a
    <3>1. probes[i] \in 0..3 /\ flag \in 0..1
      OBVIOUS
    <3>2. probes[i] <= flag + (IF phase = "send" THEN 0 ELSE 1)
      OBVIOUS
    <3>3. CASE phase = "send"
      BY <3>1, <3>2, <3>3
    <3>4. CASE phase # "send"
      BY <1>a, <3>1, <3>2, <3>4
    <3>. QED
      BY <3>3, <3>4
  <2>3. AtMostTwoProbes'
    BY <1>a, <2>2
  <2>4. phase' = "wait" => i' <= Len(Targets)
    BY <1>a
  <2>. QED
    BY <2>1, <2>3, <2>4
\* The three ways a wait ends: the same port again, a verdict, or silence.
<1>3. ASSUME phase = "wait", phase' = "send", UNCHANGED <<skipped, probes>>,
             flag = 0, flag' = 1, UNCHANGED <<i, verdict>>
      PROVE  Progress'
  <2>1. ReportedInOrder'
    BY <1>3
  <2>2. AtMostTwoProbes'
    BY <1>3
  <2>. QED
    BY <1>3, <2>1, <2>2
<1>4. ASSUME phase = "wait", phase' = "send", UNCHANGED <<skipped, probes>>,
             flag' \in 0..1, NEW v \in Truths, Report(v)
      PROVE  Progress'
  <2>1. i \in Positions /\ i' = i + 1
    BY <1>4 DEF Report
  <2>2. \A j \in Positions : verdict'[j] = IF j = i THEN v ELSE verdict[j]
    BY <1>4, <2>1 DEF Report
  <2>3. ASSUME NEW j \in Positions
        PROVE  (j < i' <=> verdict'[j] # "none" \/ j \in skipped')
                 /\ (verdict'[j] = "none" \/ j \notin skipped')
    <3>1. CASE j = i
      BY <1>4, <2>1, <2>2, <3>1
    <3>2. CASE j # i
      BY <1>4, <2>1, <2>2, <3>2
    <3>. QED
      BY <3>1, <3>2
  <2>4. AtMostTwoProbes'
    BY <1>4, <2>1
  <2>. QED
    BY <1>4, <2>3, <2>4
<1>5. ASSUME phase = "wait", phase' = "send", skipped' = skipped \cup {i}, UNCHANGED probes,
             flag' \in 0..1, i' = i + 1, UNCHANGED verdict
      PROVE  Progress'
  <2>1. i \in Positions
    BY <1>5
  <2>2. ASSUME NEW j \in Positions
        PROVE  (j < i' <=> verdict'[j] # "none" \/ j \in skipped')
                 /\ (verdict'[j] = "none" \/ j \notin skipped')
    <3>1. CASE j = i
      BY <1>5, <2>1, <3>1
    <3>2. CASE j # i
      BY <1>5, <2>1, <3>2
    <3>. QED
      BY <3>1, <3>2
  <2>3. AtMostTwoProbes'
    BY <1>5, <2>1
  <2>. QED
    BY <1>5, <2>2, <2>3
<1>6. ASSUME phase = "wait", phase' = "send", UNCHANGED <<skipped, probes>>, Repeat
      PROVE  Progress'
  <2>1. Silent(Targets[i].proto) \in Truths
    BY DEF Silent
  <2>. QED
    BY <1>3, <1>4, <1>6, <2>1 DEF Repeat
<1>7. CASE Timeout
  BY <1>6, <1>7 DEF Timeout
<1>8. CASE Read
  BY <1>4, <1>6, <1>8 DEF Read
<1>9. CASE ReadFails
  BY <1>5, <1>6, <1>9 DEF ReadFails
<1>10. CASE Finish \/ Exit \/ Ended
  BY <1>a, <1>10 DEF Finish, Exit, Ended, netVars, vars
<1>11. ASSUME NEW j \in Positions, Capture(j) PROVE Progress'
  BY <1>a, <1>11 DEF Capture
<1>12. CASE Noise
  BY <1>a, <1>12 DEF Noise
<1>. QED
  BY <1>1, <1>2, <1>7, <1>8, <1>9, <1>10, <1>11, <1>12 DEF Next, Scan

\* What the host sends is read for what it is.
LEMMA OwnAnswerRead ==
  ASSUME NEW j \in Positions, host \in Hosts, Answers(j)
  PROVE  \/ host[j] = "open" /\ HandleResponse(Targets[j].proto, Kind(j)) = "OPEN"
         \/ host[j] = "closed" /\ HandleResponse(Targets[j].proto, Kind(j)) = "CLOSED"
<1>1. CASE Targets[j].proto = "udp"
  <2>1. host[j] = "closed" /\ Kind(j) = "unreachable"
    BY <1>1 DEF Answers, Silent, Kind
  <2>2. HandleResponse("udp", "unreachable") = "CLOSED"
    BY DEF HandleResponse
  <2>. QED
    BY <1>1, <2>1, <2>2
<1>2. CASE Targets[j].proto = "tcp"
  <2>1. \/ host[j] = "open" /\ Kind(j) = "syn-ack"
        \/ host[j] = "closed" /\ Kind(j) = "rst"
    BY <1>2 DEF Answers, Silent, Kind
  <2>2. HandleResponse("tcp", "syn-ack") = "OPEN" /\ HandleResponse("tcp", "rst") = "CLOSED"
    BY DEF HandleResponse
  <2>. QED
    BY <1>2, <2>1, <2>2
<1>. QED
  BY <1>1, <1>2, TargetFacts

LEMMA VerdictStep == ScanInv /\ [Next]_vars => VerdictsRight'
<1> SUFFICES ASSUME ScanInv, [Next]_vars, clean' PROVE VerdictsRight'
  BY DEF VerdictsRight
<1> USE TargetFacts DEF ScanInv, TypeOK, VerdictsRight, Positions
<1>1. CASE UNCHANGED <<clean, host, verdict, lost>>
  BY <1>1 DEF Silent
<1>2. CASE Send
  BY <1>2 DEF Send
\* A verdict that is true of the port it is printed for.
<1>3. ASSUME clean, UNCHANGED <<host, lost>>, NEW v \in Truths, Report(v),
             i \in Positions, v = host[i] \/ (i \in lost /\ v = Silent(Targets[i].proto))
      PROVE  VerdictsRight'
  BY <1>3 DEF Report
<1>4. CASE Timeout
  <2>1. clean /\ i \in Positions /\ (Answers(i) => i \in lost)
    <3>1. clean /\ \A j \in Positions : inflight[j] = 0
      BY <1>4, Zenon DEF Timeout
    <3>. QED
      BY <1>4, <3>1 DEF Timeout, CleanInv
  <2>2. CASE UNCHANGED verdict
    BY <1>1, <1>4, <2>1, <2>2 DEF Timeout, netVars
  <2>3. CASE Report(Silent(Targets[i].proto))
    BY <1>3, <1>4, <2>1, <2>3 DEF Timeout, netVars, Answers, Silent
  <2>. QED
    BY <1>4, <2>2, <2>3 DEF Timeout, Repeat
<1>5. CASE Read
  <2>1. clean /\ i \in Positions /\ Answers(i) /\ Head(captured).kind = Kind(i)
    BY <1>5 DEF Read, CleanInv, OwnAnswer
  <2>2. \/ host[i] = "open" /\ Report("open")
        \/ host[i] = "closed" /\ Report("closed")
    BY <1>5, <2>1, OwnAnswerRead DEF Read
  <2>. QED
    BY <1>3, <1>5, <2>1, <2>2 DEF Read
<1>6. CASE ReadFails
  BY <1>6 DEF ReadFails
<1>7. CASE Finish \/ Exit \/ Ended \/ \E j \in Positions : Capture(j)
  BY <1>1, <1>7 DEF Finish, Exit, Ended, netVars, vars, Capture
<1>8. CASE Noise
  BY <1>8 DEF Noise
<1>9. CASE UNCHANGED vars
  BY <1>1, <1>9 DEF vars, netVars
<1>. QED
  BY <1>2, <1>4, <1>5, <1>6, <1>7, <1>8, <1>9 DEF Next, Scan

LEMMA CleanStep == ScanInv /\ [Next]_vars => CleanInv'
<1> SUFFICES ASSUME ScanInv, [Next]_vars, clean' PROVE CleanInv'
  BY DEF CleanInv
<1> USE TargetFacts DEF ScanInv, TypeOK, CleanInv, Positions, Answers, Kind, OwnAnswer, Silent
<1>1. CASE UNCHANGED vars
  BY <1>1 DEF vars, netVars
<1>2. CASE Send
  <2>1. captured = << >> /\ \A j \in Positions : inflight[j] = 0
    BY <1>2 DEF Send
  <2>. QED
    BY <1>2, <2>1 DEF Send
<1>3. CASE Timeout
  BY <1>3 DEF Timeout, netVars
<1>4. CASE Read
  <2>1. captured' = << >> /\ \A j \in Positions : inflight[j] = 0
    BY <1>4 DEF Read
  <2>. QED
    BY <1>4, <2>1 DEF Read
<1>5. CASE ReadFails \/ Noise
  <2>1. ~clean'
    BY <1>5, Zenon DEF ReadFails, Noise
  <2>. QED
    BY <2>1, Zenon
<1>6. CASE Finish
  BY <1>6 DEF Finish, netVars
<1>7. CASE Exit
  BY <1>7 DEF Exit, netVars
<1>8. ASSUME NEW j \in Positions, Capture(j) PROVE CleanInv'
  <2>1. j = i /\ inflight[j] = 1 /\ phase # "send" /\ Answers(j) /\ captured = << >>
    <3>1. clean
      BY <1>8, Zenon DEF Capture
    <3>2. inflight[j] # 0
      BY <1>8 DEF Capture
    <3>. QED
      BY <3>1, <3>2
  <2>2. captured' = << OwnAnswer >>
    BY <1>8, <2>1 DEF Capture
  <2>3. \A k \in Positions : inflight'[k] = 0
    BY <1>8, <2>1 DEF Capture
  <2>. QED
    BY <1>8, <2>1, <2>2, <2>3 DEF Capture
<1>. QED
  BY <1>1, <1>2, <1>3, <1>4, <1>5, <1>6, <1>7, <1>8 DEF Next, Scan, Ended

-----------------------------------------------------------------------------
\* For every list of ports the scan keeps ScanInv: each port is reported in
\* its turn, probed at most twice, and while no answer is late, no stranger
\* speaks and no capture fails, reported as what it is.
THEOREM ScanInvariant == Spec => []ScanInv
<1>1. ScanInv /\ [Next]_vars => ScanInv'
  BY TypeStep, ProgressStep, VerdictStep, CleanStep DEF ScanInv, Progress
<1>. QED
  BY ScanInitInv, <1>1, PTL DEF Spec

\* Every port is reported in its turn, also when answers are late and strangers
\* speak; those that are passed over are exactly those whose capture failed.
THEOREM PortsReportedInOrder == Spec => []ReportedInOrder
BY ScanInvariant, PTL DEF ScanInv

\* The flag that outlives its port never costs a port a third probe.
THEOREM ProbedAtMostTwice == Spec => []AtMostTwoProbes
BY ScanInvariant, PTL DEF ScanInv

\* In the clean case the verdicts are the truth, up to lost answers.
THEOREM VerdictsAreRight == Spec => []VerdictsRight
BY ScanInvariant, PTL DEF ScanInv

=============================================================================
