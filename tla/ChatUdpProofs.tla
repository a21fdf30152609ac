--------------------------- MODULE ChatUdpProofs ---------------------------
(***************************************************************************)
(* Proofs about the UDP chat client, for every number of retransmissions,  *)
(* commands and server messages, and every size of the message id.         *)
(***************************************************************************)
EXTENDS ChatUdp, TLAPS

\* What a return of udp_send to its caller preserves: the state is open
\* afterwards only if it was, or if the event says that the AUTH was accepted.
LEMMA ReturnOpens ==
  ASSUME NEW event, Return(event), event = "ok" => accepted, AcceptedInv
  PROVE  /\ call' = NoCall
         /\ state' = "Open" => accepted
BY DEF Return, Fsm, AcceptedInv, OpenOnlyAfterAccepted

\* The same of a round of the retransmission loop, and of what it sends.
LEMMA RetryKeeps ==
  ASSUME NEW cnt, NEW event, NEW sent, Retry(cnt, event, sent),
         event = "ok" => accepted, AcceptedInv,
         \A p \in sent : p.type \in {"join", "msg"} => accepted
  PROVE  /\ state' = "Open" => accepted
         /\ call'.event = "ok" => accepted
         /\ call'.type \in {"join", "msg"} => accepted
         /\ \A p \in toServer' : p.type \in {"join", "msg"} => accepted
<1>1. CASE cnt = 0 /\ Return(event) /\ toServer' = sent
  BY <1>1, ReturnOpens DEF NoCall, Call
<1>2. CASE state' = "exited" /\ call' = NoCall /\ toServer' = sent
  BY <1>2 DEF NoCall, Call
<1>3. CASE Return("null") /\ toServer' = sent
  BY <1>3, ReturnOpens DEF NoCall, Call
<1>4. CASE /\ call' = Call(call.type, call.n, cnt - 1, call.out + 1, event)
           /\ toServer' = sent \cup {Packet(call.type, call.n, server_addr)}
           /\ UNCHANGED state
  BY <1>4 DEF Call, Packet, AcceptedInv, OpenOnlyAfterAccepted
<1>. QED
  BY <1>1, <1>2, <1>3, <1>4 DEF Retry

-----------------------------------------------------------------------------
LEMMA AcceptedInit == Init => AcceptedInv
BY DEF Init, AcceptedInv, OpenOnlyAfterAccepted, NothingBeforeAccepted, NoCall, Call

\* Acceptance is never taken back, and no packet is: a step of the client
\* has to keep only the conjuncts about its own state and what it sends.
LEMMA ClientKeeps ==
  ASSUME AcceptedInv, UNCHANGED <<serverVars, toClient>>,
         state' = "Open" => accepted,
         call'.event = "ok" => accepted,
         call'.type \in {"join", "msg"} => accepted,
         \A p \in toServer' : p.type \in {"join", "msg"} => accepted
  PROVE  AcceptedInv'
BY DEF AcceptedInv, OpenOnlyAfterAccepted, NothingBeforeAccepted, serverVars

\* A call of udp_send that begins, and the CONFIRM that the client sends.
LEMMA BeginKeeps ==
  ASSUME NEW type, NEW k, NEW to, NEW sent, BeginSend(type, k, to, sent),
         type \in {"join", "msg"} => accepted,
         \A p \in sent : p.type \in {"join", "msg"} => accepted
  PROVE  /\ call'.event = "ok" => accepted
         /\ call'.type \in {"join", "msg"} => accepted
         /\ \A p \in toServer' : p.type \in {"join", "msg"} => accepted
BY DEF BeginSend, Call, Packet

LEMMA ConfirmKeeps ==
  ASSUME AcceptedInv, NEW p, NEW to, NEW q \in toServer \cup {Confirm(p, to)},
         q.type \in {"join", "msg"}
  PROVE  accepted
BY DEF AcceptedInv, NothingBeforeAccepted, Confirm

\* All actions together.
LEMMA AcceptedStep == AcceptedInv /\ [Next]_vars => AcceptedInv'
<1> SUFFICES ASSUME AcceptedInv, [Next]_vars PROVE AcceptedInv'
  OBVIOUS
<1> USE DEF AcceptedInv, OpenOnlyAfterAccepted, NothingBeforeAccepted
<1>1. CASE UNCHANGED vars
  BY <1>1 DEF vars, clientVars, serverVars
<1>2. ASSUME NEW type \in Commands, Command(type) PROVE AcceptedInv'
  <2>1. type \in {"join", "msg"} => accepted
    BY <1>2 DEF Command, Supported, Idle
  <2>. QED
    BY <1>2, <2>1, BeginKeeps, ClientKeeps DEF Command
<1>3. ASSUME NEW p \in toClient, SocketMessage(p) PROVE AcceptedInv'
  <2>1. state' = "Open" => accepted
    BY <1>3 DEF SocketMessage, Fsm
  <2>. QED
    BY <1>3, <2>1, ConfirmKeeps, ClientKeeps DEF SocketMessage
<1>4. ASSUME NEW p \in toClient, SocketConfirm(p) PROVE AcceptedInv'
  BY <1>4, ConfirmKeeps, BeginKeeps, ClientKeeps DEF SocketConfirm
<1>5. CASE ErrorBye
  BY <1>5, BeginKeeps, ClientKeeps DEF ErrorBye
<1>6. CASE Sigint
  BY <1>6, BeginKeeps, ClientKeeps DEF Sigint
<1>7. ASSUME NEW p \in toClient, RecvConfirm(p) PROVE AcceptedInv'
  BY <1>7, ReturnOpens, ClientKeeps DEF RecvConfirm, NoCall, Call
<1>8. ASSUME NEW p \in toClient, RecvInsteadOfConfirm(p) PROVE AcceptedInv'
  BY <1>8, ReturnOpens, ConfirmKeeps, ClientKeeps DEF RecvInsteadOfConfirm, NoCall, Call
<1>9. ASSUME NEW p \in toClient, RecvInLoop(p) PROVE AcceptedInv'
  BY <1>9, RetryKeeps, ConfirmKeeps, ClientKeeps DEF RecvInLoop
<1>10. CASE NoConfirm
  BY <1>10, RetryKeeps, ClientKeeps DEF NoConfirm
<1>11. ASSUME NEW p \in toServer, ServerConfirms(p) PROVE AcceptedInv'
  BY <1>11 DEF ServerConfirms, ConfirmTo, clientVars
<1>12. ASSUME NEW p \in toServer, NEW type \in {"ok", "nok"}, ServerAnswers(p, type)
       PROVE  AcceptedInv'
  <2>1. (accepted => accepted') /\ (type = "ok" => accepted')
    BY <1>12 DEF ServerAnswers
  <2>2. UNCHANGED <<clientVars, toServer>> /\ seen \subseteq seen' /\ p.id \in seen'
    BY <1>12 DEF ServerAnswers
  <2>3. toClient' = toClient \cup {ConfirmTo(p), Says(type)}
    BY <1>12 DEF ServerAnswers
  <2>. QED
    BY <2>1, <2>2, <2>3 DEF ConfirmTo, Says, clientVars
<1>13. ASSUME NEW type \in {"msg", "err", "bye"}, ServerSays(type) PROVE AcceptedInv'
  BY <1>13 DEF ServerSays, Says, clientVars
<1>. QED
  BY <1>1, <1>2, <1>3, <1>4, <1>5, <1>6, <1>7, <1>8, <1>9, <1>10, <1>11, <1>12, <1>13
     DEF Next, InSend, Server, Ended

\* The invariant behind the theorems below, in every reachable state.
THEOREM AcceptedInvariant == Spec => []AcceptedInv
BY AcceptedInit, AcceptedStep, PTL DEF Spec

\* The client is open only if the server accepted its AUTH: the state machine
\* of main and the events udp_send carries, under every fault of the network.
THEOREM OpenIsAccepted == Spec => []OpenOnlyAfterAccepted
<1>1. AcceptedInv => OpenOnlyAfterAccepted
  BY DEF AcceptedInv
<1>. QED
  BY <1>1, AcceptedInvariant, PTL

\* No JOIN and no message of the user leaves before the server accepted an
\* AUTH: the check in ReadEvent, and what a running udp_send goes on sending.
THEOREM NothingLeavesBefore == Spec => []NothingBeforeAccepted
<1>1. AcceptedInv => NothingBeforeAccepted
  BY DEF AcceptedInv
<1>. QED
  BY <1>1, AcceptedInvariant, PTL

\* message_id leaves an id only after the server has received it: the id
\* comparison of udp_send, against late and duplicated CONFIRMs.
THEOREM ConfirmsAreReal == Spec => ConfirmedIdsWereSeen
<1>1. AcceptedInv /\ [Next]_vars => [message_id' # message_id => message_id \in seen]_vars
  <2> SUFFICES ASSUME AcceptedInv, Next, message_id' # message_id PROVE message_id \in seen
    BY DEF vars, clientVars
  <2>1. PICK p \in toClient : RecvConfirm(p)
    BY DEF Next, Command, SocketMessage, SocketConfirm, ErrorBye, Sigint, InSend, NoConfirm,
           RecvInsteadOfConfirm, RecvInLoop, Server, ServerConfirms, ServerAnswers,
           ServerSays, Ended, vars, clientVars
  <2>. QED
    BY <2>1 DEF RecvConfirm, Matches, AcceptedInv
<1>. QED
  BY <1>1, AcceptedInvariant, PTL DEF Spec, ConfirmedIdsWereSeen

-----------------------------------------------------------------------------
(* Types: an id that the server takes from a packet is always one of the   *)
(* client's, although an ERR is sent without its id and CONFIRMs carry the *)
(* ids of the server.                                                      *)

\* A command or BYE under way carries an id of the client.
PacketsTyped ==
  \A p \in toServer : p.type \in Commands \cup {"bye"} => p.id \in Ids

TypeInv == TypeOK /\ PacketsTyped

\* What a call may be sending, and the frames there are.
CallTypes == Commands \cup {"bye", "junk", "none"}
Calls == [type : CallTypes, n : 0..MaxCommands, cnt : 0..Retransmissions,
          out : 0..(MaxOut + 1), event : Events]

\* A set of packets that may be in toServer.
PacketOK(p) ==
  /\ p.id \in Ids \cup Sids \cup {NoId} /\ p.to \in Ports
  /\ p.type \in Commands \cup {"bye"} => p.id \in Ids

\* TypeInv with the frames of a call as one set.
LEMMA TypeInvIs ==
  TypeInv <=>
    /\ state \in States /\ message_id \in Ids /\ server_addr \in Ports
    /\ call \in Calls
    /\ n \in 0..MaxCommands /\ sigint \in BOOLEAN /\ shown \in [Sids -> 0..2]
    /\ \A p \in toServer : PacketOK(p)
    /\ \A p \in toClient : p.id \in Ids \cup Sids /\ p.from \in Ports
    /\ accepted \in BOOLEAN /\ seen \subseteq Ids /\ sid \in 0..MaxServer
BY DEF TypeInv, TypeOK, PacketsTyped, Calls, CallTypes, PacketOK

\* The two bytes of an id: counting wraps round in them, and the byte that
\* AUTH puts in the wrong place is an id too.
LEMMA IdArithmetic ==
  ASSUME NEW i \in Ids
  PROVE  (i + 1) % (Base * Base) \in Ids /\ i \div Base \in Ids /\ 0 \in Ids
<1>1. Base \in Nat \ {0}
  BY ChatAssumption
<1>2. PICK m \in Nat \ {0} : m = Base * Base
  BY <1>1
<1>3. i \in 0..(m - 1) /\ Ids = 0..(m - 1)
  BY <1>2 DEF Ids
<1>4. (i + 1) % m \in 0..(m - 1) /\ 0 \in 0..(m - 1)
  BY <1>2, <1>3
<1>5. i \div Base \in 0..i
  BY <1>1, <1>3
<1>. QED
  BY <1>2, <1>3, <1>4, <1>5

\* What is sent is a packet.
LEMMA PacketTyped ==
  ASSUME TypeInv, NEW type, NEW k, NEW to \in Ports
  PROVE  PacketOK(Packet(type, k, to))
<1>1. message_id \in Ids /\ message_id \div Base \in Ids
  BY IdArithmetic, TypeInvIs
<1>. QED
  BY <1>1 DEF PacketOK, Packet, WireId, Commands

LEMMA ConfirmTyped ==
  ASSUME TypeInv, NEW p \in toClient, NEW to \in Ports,
         NEW q \in toServer \cup {Confirm(p, to)}
  PROVE  PacketOK(q)
BY TypeInvIs DEF PacketOK, Confirm, Commands

\* The steps of the client, one lemma for each part of them.
LEMMA NoCallTyped == NoCall \in Calls
BY ChatAssumption DEF NoCall, Call, Calls, CallTypes, Events

\* The steps of the client change neither the server nor what it has sent.
LEMMA ClientTyped ==
  ASSUME TypeInv, UNCHANGED <<serverVars, toClient>>,
         state' \in States, message_id' \in Ids, server_addr' \in Ports, call' \in Calls,
         n' \in 0..MaxCommands, sigint' \in BOOLEAN, shown' \in [Sids -> 0..2],
         \A p \in toServer' : PacketOK(p)
  PROVE  TypeInv'
<1>1. /\ \A p \in toClient' : p.id \in Ids \cup Sids /\ p.from \in Ports
      /\ accepted' \in BOOLEAN /\ seen' \subseteq Ids /\ sid' \in 0..MaxServer
  BY TypeInvIs DEF serverVars
<1>. QED
  BY <1>1 DEF TypeInv, TypeOK, PacketsTyped, Calls, CallTypes, PacketOK

LEMMA BeginTyped ==
  ASSUME TypeInv, NEW type \in CallTypes, NEW k \in 0..MaxCommands, NEW to \in Ports, NEW sent,
         BeginSend(type, k, to, sent), \A p \in sent : PacketOK(p)
  PROVE  call' \in Calls /\ \A p \in toServer' : PacketOK(p)
<1>1. call' \in Calls
  BY ChatAssumption DEF BeginSend, Call, Calls, Events
<1>2. PacketOK(Packet(type, k, to))
  BY PacketTyped
<1>. QED
  BY <1>1, <1>2 DEF BeginSend

LEMMA FsmTyped ==
  ASSUME TypeInv, NEW event, Fsm(event)
  PROVE  state' \in States
BY TypeInvIs DEF Fsm, States

LEMMA ReturnTyped ==
  ASSUME TypeInv, NEW event, Return(event)
  PROVE  call' \in Calls /\ state' \in States
<1>1. state' \in States
  BY FsmTyped DEF Return, States
<1>. QED
  BY <1>1, NoCallTyped DEF Return

LEMMA RetryTyped ==
  ASSUME TypeInv, NEW cnt \in 0..(Retransmissions + 1), NEW event \in Events, NEW sent,
         Retry(cnt, event, sent), \A p \in sent : PacketOK(p)
  PROVE  call' \in Calls /\ state' \in States /\ \A p \in toServer' : PacketOK(p)
<1>1. CASE cnt = 0 /\ Return(event) /\ toServer' = sent
  BY <1>1, ReturnTyped
<1>2. CASE state' = "exited" /\ call' = NoCall /\ toServer' = sent
  BY <1>2, NoCallTyped DEF States
<1>3. CASE Return("null") /\ toServer' = sent
  BY <1>3, ReturnTyped
<1>4. CASE /\ cnt > 0 /\ call.out <= MaxOut
           /\ call' = Call(call.type, call.n, cnt - 1, call.out + 1, event)
           /\ toServer' = sent \cup {Packet(call.type, call.n, server_addr)}
           /\ UNCHANGED state
  <2>1. call \in Calls /\ server_addr \in Ports /\ state \in States
    BY TypeInvIs
  <2>2. call.out + 1 \in 0..(MaxOut + 1) /\ cnt - 1 \in 0..Retransmissions
    BY <1>4, <2>1, ChatAssumption DEF Calls
  <2>3. call' \in Calls
    BY <1>4, <2>1, <2>2 DEF Call, Calls
  <2>4. PacketOK(Packet(call.type, call.n, server_addr))
    BY <2>1, PacketTyped
  <2>. QED
    BY <1>4, <2>1, <2>3, <2>4
<1>. QED
  BY <1>1, <1>2, <1>3, <1>4 DEF Retry

LEMMA DisplayTyped ==
  ASSUME TypeInv, NEW p, Display(p)
  PROVE  shown' \in [Sids -> 0..2]
<1>1. shown \in [Sids -> 0..2]
  BY TypeInvIs
<1>2. CASE p.id \in Sids /\ shown[p.id] # 2
  <2>1. shown[p.id] + 1 \in 0..2
    BY <1>1, <1>2
  <2>. QED
    BY <1>1, <1>2, <2>1 DEF Display
<1>3. CASE ~(p.id \in Sids)
  BY <1>1, <1>3 DEF Display
<1>. QED
  BY <1>1, <1>2, <1>3 DEF Display

\* It holds at the start and is kept by every step.
LEMMA TypeInit == Init => TypeInv
<1> SUFFICES ASSUME Init PROVE TypeInv
  OBVIOUS
<1>1. 0 \in Ids /\ 0 \in 0..MaxServer /\ 0 \in 0..MaxCommands
  <2>1. Base \in Nat \ {0} /\ MaxServer \in Nat /\ MaxCommands \in Nat
    BY ChatAssumption
  <2>2. Base * Base - 1 \in Nat
    BY <2>1
  <2>. QED
    BY <2>1, <2>2 DEF Ids
<1>2. [i \in Sids |-> 0] \in [Sids -> 0..2]
  OBVIOUS
<1>. QED
  BY <1>1, <1>2, NoCallTyped, TypeInvIs DEF Init, States, Ports

LEMMA TypeStep == TypeInv /\ [Next]_vars => TypeInv'
<1> SUFFICES ASSUME TypeInv, [Next]_vars PROVE TypeInv'
  OBVIOUS
<1> DEFINE Now ==
      /\ state \in States /\ message_id \in Ids /\ server_addr \in Ports /\ call \in Calls
      /\ n \in 0..MaxCommands /\ sigint \in BOOLEAN /\ shown \in [Sids -> 0..2]
      /\ \A p \in toServer : PacketOK(p)
      /\ \A p \in toClient : p.from \in Ports
<1>0. Now /\ MaxCommands \in Nat
  BY TypeInvIs, ChatAssumption
<1>1. CASE UNCHANGED vars
  BY <1>1, <1>0, ClientTyped DEF vars, clientVars
<1>2. ASSUME NEW type \in Commands, Command(type) PROVE TypeInv'
  <2>1. n + 1 \in 0..MaxCommands /\ type \in CallTypes
    BY <1>2, <1>0 DEF Command, CallTypes
  <2>2. call' \in Calls /\ \A p \in toServer' : PacketOK(p)
    BY <1>2, <1>0, <2>1, BeginTyped DEF Command
  <2>. QED
    BY <1>2, <1>0, <2>1, <2>2, ClientTyped DEF Command
<1>3. ASSUME NEW p \in toClient, SocketMessage(p) PROVE TypeInv'
  <2>1. /\ state' \in States /\ shown' \in [Sids -> 0..2] /\ p.from \in Ports
        /\ \A q \in toServer' : PacketOK(q)
    BY <1>3, <1>0, FsmTyped, DisplayTyped, ConfirmTyped DEF SocketMessage
  <2>. QED
    BY <1>3, <1>0, <2>1, ClientTyped DEF SocketMessage
<1>4. ASSUME NEW p \in toClient, SocketConfirm(p) PROVE TypeInv'
  <2>1. "junk" \in CallTypes /\ 0 \in 0..MaxCommands /\ p.from \in Ports
    BY <1>0 DEF CallTypes
  <2>2. \A q \in toServer \cup {Confirm(p, p.from)} : PacketOK(q)
    BY <2>1, ConfirmTyped
  <2>3. call' \in Calls /\ \A q \in toServer' : PacketOK(q)
    BY <1>4, <2>1, <2>2, BeginTyped DEF SocketConfirm
  <2>. QED
    BY <1>4, <1>0, <2>1, <2>3, ClientTyped DEF SocketConfirm
<1>5. ASSUME ErrorBye \/ Sigint PROVE TypeInv'
  <2>1. BeginSend("bye", 0, server_addr, toServer)
    BY <1>5 DEF ErrorBye, Sigint
  <2>2. "bye" \in CallTypes /\ 0 \in 0..MaxCommands
    BY <1>0 DEF CallTypes
  <2>3. call' \in Calls /\ \A q \in toServer' : PacketOK(q)
    BY <1>0, <2>1, <2>2, BeginTyped
  <2>. QED
    BY <1>5, <1>0, <2>3, ClientTyped DEF ErrorBye, Sigint
<1>6. ASSUME NEW p \in toClient, RecvConfirm(p) PROVE TypeInv'
  <2>1. message_id' \in Ids
    BY <1>6, <1>0, IdArithmetic DEF RecvConfirm
  <2>. QED
    BY <1>6, <1>0, <2>1, ReturnTyped, ClientTyped DEF RecvConfirm
<1>7. ASSUME NEW p \in toClient, RecvInsteadOfConfirm(p) PROVE TypeInv'
  <2>1. /\ state' \in States /\ call' \in Calls /\ shown' \in [Sids -> 0..2]
        /\ \A q \in toServer' : PacketOK(q)
    BY <1>7, <1>0, ReturnTyped, DisplayTyped, ConfirmTyped DEF RecvInsteadOfConfirm
  <2>. QED
    BY <1>7, <1>0, <2>1, ClientTyped DEF RecvInsteadOfConfirm
<1>8. ASSUME NEW p \in toClient, RecvInLoop(p) PROVE TypeInv'
  <2>1. call.cnt + 1 \in 0..(Retransmissions + 1) /\ p.type \in Events
    BY <1>8, <1>0, ChatAssumption DEF Calls, RecvInLoop, Events
  <2>2. \A q \in toServer \cup {Confirm(p, server_addr)} : PacketOK(q)
    BY <1>0, ConfirmTyped
  <2>3. call' \in Calls /\ state' \in States /\ \A q \in toServer' : PacketOK(q)
    BY <1>8, <2>1, <2>2, RetryTyped DEF RecvInLoop
  <2>4. shown' \in [Sids -> 0..2]
    BY <1>8, DisplayTyped DEF RecvInLoop
  <2>. QED
    BY <1>8, <1>0, <2>3, <2>4, ClientTyped DEF RecvInLoop
<1>9. CASE NoConfirm
  <2>1. call.cnt \in 0..(Retransmissions + 1) /\ call.event \in Events
    BY <1>0, ChatAssumption DEF Calls
  <2>2. call' \in Calls /\ state' \in States /\ \A q \in toServer' : PacketOK(q)
    BY <1>9, <1>0, <2>1, RetryTyped DEF NoConfirm
  <2>. QED
    BY <1>9, <1>0, <2>2, ClientTyped DEF NoConfirm
<1>10. ASSUME NEW p \in toServer, ServerConfirms(p) PROVE TypeInv'
  <2>1. p.id \in Ids /\ p.to \in Ports
    BY <1>10, <1>0 DEF ServerConfirms, Reaches, PacketOK
  <2>. QED
    BY <1>10, <2>1 DEF ServerConfirms, ConfirmTo, clientVars, TypeInv, TypeOK, PacketsTyped
<1>11. ASSUME NEW p \in toServer, NEW type \in {"ok", "nok"}, ServerAnswers(p, type)
       PROVE  TypeInv'
  <2>1. p.id \in Ids /\ p.to \in Ports
    BY <1>11, <1>0 DEF ServerAnswers, Reaches, PacketOK
  <2>2. sid \in Sids /\ sid + 1 \in 0..MaxServer
    BY <1>11, ChatAssumption, TypeInvIs DEF ServerAnswers, Sids
  <2>. QED
    BY <1>11, <2>1, <2>2
       DEF ServerAnswers, ConfirmTo, Says, clientVars, TypeInv, TypeOK, PacketsTyped, Ports
<1>12. ASSUME NEW type \in {"msg", "err", "bye"}, ServerSays(type) PROVE TypeInv'
  <2>1. sid \in Sids /\ sid + 1 \in 0..MaxServer
    BY <1>12, ChatAssumption, TypeInvIs DEF ServerSays, Sids
  <2>. QED
    BY <1>12, <2>1 DEF ServerSays, Says, clientVars, TypeInv, TypeOK, PacketsTyped, Ports
<1>. QED
  BY <1>1, <1>2, <1>3, <1>4, <1>5, <1>6, <1>7, <1>8, <1>9, <1>10, <1>11, <1>12
     DEF Next, InSend, Server, Ended

\* Ids stay within their two bytes, retransmission counters within the options
\* of the command line, and the server never learns an id that is none: main,
\* udp_send and decode_msg under every fault of the network.
THEOREM ChatTyped == Spec => []TypeOK
<1>1. TypeInv => TypeOK
  BY DEF TypeInv
<1>. QED
  BY <1>1, TypeInit, TypeStep, PTL DEF Spec

=============================================================================
