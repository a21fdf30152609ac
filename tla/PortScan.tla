------------------------------ MODULE PortScan ------------------------------
(***************************************************************************)
(* The scan of 2/IPK/2-project: main's loop over the TCP ports and then    *)
(* over the UDP ports, one probe, one wait and one verdict at a time, with *)
(* one retry governed by a flag, and handle_response's reading of what the *)
(* capture delivers.  The host and the network are outside the repository: *)
(* an answer is lost, late, or in time, and the capture, whose filter does *)
(* not name the probed port, takes it whenever it arrives.                 *)
(***************************************************************************)
EXTENDS Integers, Sequences

CONSTANTS
  Targets,  \* the ports in scanning order, as [proto |-> ..., port |-> ...]
  MaxNoise  \* bound on the packets to the source port that are no answers

ASSUME ScanAssumption ==
  /\ Targets \in Seq([proto : {"tcp", "udp"}, port : Nat])
  /\ MaxNoise \in Nat

VARIABLES
  host,      \* what each port really is
  phase,     \* "send", "wait", "done" or "exited"
  i,         \* position of the loop in Targets
  flag,      \* a probe has been repeated
  verdict,   \* what was printed for each position
  probes,    \* how many probes each position got; more than two count as three
  inflight,  \* answers under way, per position that was probed
  captured,  \* packets captured and not read
  noise,     \* other packets so far
  lost,      \* positions that lost a probe or an answer
  clean,     \* so far no late answer, no other packet and no failed capture
  skipped    \* positions at which the capture failed

netVars == <<host, inflight, captured, noise, lost>>
vars == <<netVars, clean, skipped, phase, i, flag, verdict, probes>>

Positions == 1..Len(Targets)
Truths    == {"open", "closed", "filtered"}
\* A port that never answers is reported filtered by TCP and open by UDP.
Silent(proto) == IF proto = "tcp" THEN "filtered" ELSE "open"

\* A UDP port that answers nothing counts as open.
Hosts == {h \in [Positions -> Truths] :
            \A j \in Positions : Targets[j].proto = "udp" => h[j] # "filtered"}

\* What the host sends back to a probe.
Answers(j) == host[j] # Silent(Targets[j].proto)
Kind(j) ==
  IF Targets[j].proto = "udp" THEN "unreachable"
  ELSE IF host[j] = "open" THEN "syn-ack" ELSE "rst"

\* Mutant: the ACK flag alone, which an RST carries too, makes a port open.
HandleResponseNoSyn(proto, kind) ==
  IF kind = "unreachable" THEN "CLOSED"
  ELSE IF kind \in {"syn-ack", "rst"} \/ proto = "udp" THEN "OPEN"
  ELSE "UNKNOWN"

\* handle_response
HandleResponse(proto, kind) ==
  IF kind \in {"unreachable", "rst"} THEN "CLOSED"
  ELSE IF kind = "syn-ack" \/ proto = "udp" THEN "OPEN"
  ELSE "UNKNOWN"

-----------------------------------------------------------------------------
Report(v) ==
  /\ verdict' = [verdict EXCEPT ![i] = v] /\ i' = i + 1

\* Mutant: the flag is never set, so that a silent port is probed for ever.
RepeatForgotten ==
  \/ flag = 0 /\ flag' = 0 /\ UNCHANGED <<i, verdict>>
  \/ flag = 1 /\ flag' = 0 /\ Report(Silent(Targets[i].proto))

\* Mutant: a port that stays silent is passed over.
RepeatUnreported ==
  \/ flag = 0 /\ flag' = 1 /\ UNCHANGED <<i, verdict>>
  \/ flag = 1 /\ flag' = 0 /\ i' = i + 1 /\ UNCHANGED verdict

\* No usable answer: probe the same port again, or give up on it.
Repeat ==
  \/ flag = 0 /\ flag' = 1 /\ UNCHANGED <<i, verdict>>
  \/ flag = 1 /\ flag' = 0 /\ Report(Silent(Targets[i].proto))

\* send_packet: the filter is set first; what the TCP filter let through is
\* not delivered under the UDP filter.
Send ==
  /\ phase = "send" /\ i <= Len(Targets)
  /\ phase' = "wait"
  /\ probes' = [probes EXCEPT ![i] = IF @ = 3 THEN 3 ELSE @ + 1]
  /\ captured' = IF captured # << >> /\ Head(captured).proto # Targets[i].proto
                    THEN << >> ELSE captured
  /\ \/ Answers(i) /\ inflight' = [inflight EXCEPT ![i] = @ + 1]
        /\ UNCHANGED lost
     \/ Answers(i) /\ lost' = lost \cup {i} /\ UNCHANGED inflight
     \/ ~Answers(i) /\ UNCHANGED <<inflight, lost>>
  /\ UNCHANGED <<host, noise, clean, skipped, i, flag, verdict>>

\* select returned 0.
Timeout ==
  /\ phase = "wait" /\ captured = << >>
  /\ clean' = (clean /\ \A j \in Positions : inflight[j] = 0)
  /\ Repeat /\ phase' = "send"
  /\ UNCHANGED <<netVars, skipped, probes>>

\* A packet was read.
Read ==
  /\ phase = "wait" /\ captured # << >>
  /\ captured' = Tail(captured)
  /\ LET res == HandleResponse(Targets[i].proto, Head(captured).kind) IN
       \/ res = "OPEN"   /\ Report("open")   /\ UNCHANGED flag
       \/ res = "CLOSED" /\ Report("closed") /\ UNCHANGED flag
       \/ res = "UNKNOWN" /\ Repeat
  /\ phase' = "send"
  /\ UNCHANGED <<host, inflight, noise, lost, clean, skipped, probes>>

\* pcap_next_ex returned -1: the loop goes on without a word about the port;
\* or 0: as if nothing had come.
ReadFails ==
  /\ phase = "wait" /\ clean' = FALSE
  /\ \/ i' = i + 1 /\ skipped' = skipped \cup {i} /\ UNCHANGED <<flag, verdict>>
     \/ Repeat /\ UNCHANGED skipped
  /\ phase' = "send"
  /\ UNCHANGED <<netVars, probes>>

Finish ==
  /\ phase = "send" /\ i > Len(Targets) /\ phase' = "done"
  /\ UNCHANGED <<netVars, clean, skipped, i, flag, verdict, probes>>

\* SIGINT, or select or sendto failed.
Exit ==
  /\ phase \in {"send", "wait"} /\ phase' = "exited"
  /\ UNCHANGED <<netVars, clean, skipped, i, flag, verdict, probes>>

\* The capture takes an answer, if the filter in force lets it through.
Capture(j) ==
  /\ inflight[j] > 0
  /\ inflight' = [inflight EXCEPT ![j] = @ - 1]
  /\ captured' = IF i <= Len(Targets) /\ Targets[j].proto = Targets[i].proto
                    THEN Append(captured, [proto |-> Targets[j].proto, kind |-> Kind(j)])
                    ELSE captured
  /\ UNCHANGED <<host, noise, lost, clean, skipped, phase, i, flag, verdict, probes>>

\* A packet to the source port that is no answer of the host.
Noise ==
  /\ i <= Len(Targets) /\ noise < MaxNoise /\ noise' = noise + 1
  /\ captured' = Append(captured, [proto |-> Targets[i].proto, kind |-> "other"])
  /\ clean' = FALSE
  /\ UNCHANGED <<host, inflight, lost, skipped, phase, i, flag, verdict, probes>>

Ended == phase \in {"done", "exited"} /\ UNCHANGED vars

Scan == Send \/ Timeout \/ Read \/ ReadFails \/ Finish

Init ==
  /\ host \in Hosts
  /\ phase = "send" /\ i = 1 /\ flag = 0
  /\ verdict = [j \in Positions |-> "none"]
  /\ probes = [j \in Positions |-> 0] /\ inflight = [j \in Positions |-> 0]
  /\ captured = << >> /\ noise = 0
  /\ lost = {} /\ clean = TRUE /\ skipped = {}

Next ==
  \/ Scan \/ Exit \/ Ended
  \/ Noise \/ \E j \in Positions : Capture(j)

Spec == Init /\ [][Next]_vars

\* select returns, and the answers that are not lost are captured.
FairSpec == Spec /\ WF_vars(Scan) /\ \A j \in Positions : WF_vars(Capture(j))

-----------------------------------------------------------------------------
(***************************************************************************)
(* Properties.                                                             *)
(***************************************************************************)
Packets == [proto : {"tcp", "udp"}, kind : {"syn-ack", "rst", "unreachable", "other"}]

TypeOK ==
  /\ host \in Hosts
  /\ phase \in {"send", "wait", "done", "exited"}
  /\ i \in 1..(Len(Targets) + 1) /\ flag \in 0..1
  /\ verdict \in [Positions -> Truths \cup {"none"}]
  /\ probes \in [Positions -> 0..3] /\ inflight \in [Positions -> Nat]
  /\ captured \in Seq(Packets) /\ noise \in Nat
  /\ lost \subseteq Positions /\ clean \in BOOLEAN /\ skipped \subseteq Positions

\* The loop takes the ports in order, however often it goes back by i--,
\* whatever the flag was left at and whatever packets arrive late or from
\* elsewhere: each port it has passed got one verdict, except exactly those
\* at which the capture failed, and no port it has not reached has any.
ReportedInOrder ==
  \A j \in Positions :
    /\ j < i <=> verdict[j] # "none" \/ j \in skipped
    /\ verdict[j] = "none" \/ j \notin skipped

\* No port gets more than two probes.  The flag outlives the port that set
\* it, so that a port may get one only, but never a third.
AtMostTwoProbes ==
  /\ \A j \in Positions : probes[j] <= 2 /\ (j > i => probes[j] = 0)
  /\ i \in Positions => probes[i] <= flag + (IF phase = "send" THEN 0 ELSE 1)

\* As long as answers have come before the timeout and nobody else has talked
\* to the source port, every verdict is the truth about its own port, except
\* that a port which lost an answer may count as silent.
VerdictsRight ==
  clean => \A j \in Positions : verdict[j] # "none" =>
    \/ verdict[j] = host[j]
    \/ j \in lost /\ verdict[j] = Silent(Targets[j].proto)

\* The scan comes to an end.
ScanEnds == <>(phase \in {"done", "exited"})

\* "If no response in second attempt": filtered means probed twice in vain.
FilteredAfterTwoProbes ==
  clean => \A j \in Positions : verdict[j] = "filtered" => probes[j] = 2

\* Why VerdictsRight holds: while all is clean at most one answer is under way
\* or captured, and it is the current port's; and a port that answers is
\* probed again only after it lost an answer.
OwnAnswer == [proto |-> Targets[i].proto, kind |-> Kind(i)]
CleanInv ==
  clean =>
    /\ \A j \in Positions :
         inflight[j] # 0 => j = i /\ inflight[j] = 1 /\ phase # "send" /\ Answers(j) /\ captured = << >>
    /\ captured # << >> =>
         i \in Positions /\ phase # "send" /\ Answers(i) /\ captured = << OwnAnswer >>
    /\ phase = "wait" /\ Answers(i) =>
         i \in lost \/ inflight[i] = 1 \/ captured # << >>

ScanInv ==
  /\ TypeOK /\ ReportedInOrder /\ AtMostTwoProbes /\ VerdictsRight /\ CleanInv
  /\ phase = "wait" => i <= Len(Targets)

=============================================================================
