------------------------------ MODULE ChatUdp ------------------------------
(***************************************************************************)
(* The UDP variant of the chat client of 2/IPK/1-project: the state        *)
(* machine of main, ReadEvent, and udp_send with its wait for a CONFIRM    *)
(* and its retransmissions, against a server that follows the protocol and *)
(* a network that loses, delays, reorders and duplicates.                  *)
(*                                                                         *)
(* A step of the client is one return of recv, recvfrom or epoll_wait with *)
(* all that the program does until it next waits.  A packet stays in the   *)
(* network once it was sent: it may arrive never, late, or many times.     *)
(***************************************************************************)
EXTENDS Integers, FiniteSets

CONSTANTS
  Base,             \* size of a byte of the message id: 256 in the program
  Retransmissions,  \* max_retransmissions, option -r
  MaxOut,           \* the limit of msg_out_ctrl and of cnt: 20 in the program
  TimeoutSet,       \* setsockopt accepted the timeout: option -d below 1000
  SendMayFail,      \* whether a sendto of the retransmission loop may fail
  MaxCommands,      \* bound on the user's commands
  MaxServer         \* bound on the server's own messages

ASSUME ChatAssumption ==
  /\ Base \in Nat \ {0} /\ Retransmissions \in Nat /\ MaxOut \in Nat
  /\ TimeoutSet \in BOOLEAN /\ SendMayFail \in BOOLEAN /\ MaxCommands \in Nat /\ MaxServer \in Nat

VARIABLES
  state,        \* eNextState of main, or "exited"
  message_id,   \* the id of the client's next message
  server_addr,  \* where the client sends to
  call,         \* the running udp_send, or NoCall
  n,            \* number of user commands sent so far
  sigint,       \* SIGINT has been delivered
  shown,        \* how often each message of the server has been displayed
  toServer,     \* packets the client has sent
  toClient,     \* packets the server has sent
  accepted,     \* the server has accepted an AUTH
  seen,         \* ids the server has received
  sid           \* the id of the server's next message

clientVars == <<state, message_id, server_addr, call, n, sigint, shown>>
serverVars == <<accepted, seen, sid>>
vars == <<clientVars, serverVars, toServer, toClient>>

States == {"Auth", "Open", "Error", "exited"}
Ids    == 0..(Base * Base - 1)
Sids   == 0..(MaxServer - 1)
Ports  == {"welcome", "session"}
Commands == {"auth", "join", "msg"}
Messages == {"ok", "nok", "msg", "err", "bye"}
Events   == Messages \cup {"null"}
NoId   == -1

\* A running udp_send: what it sends, its cnt and msg_out_ctrl, and its event.
Call(type, k, cnt, out, event) ==
  [type |-> type, n |-> k, cnt |-> cnt, out |-> out, event |-> event]
NoCall == Call("none", 0, 0, 0, "null")

\* The id on the wire.  input_parse stores AUTH's one byte too far and the
\* user name overwrites its low byte; the strcpy of ReadEvent overwrites the
\* type and id of the client's own ERR with text.
WireId(type) ==
  CASE type = "auth" -> message_id \div Base
    [] type = "junk" -> NoId
    [] OTHER         -> message_id

Packet(type, k, to) == [type |-> type, n |-> k, id |-> WireId(type), to |-> to]
Confirm(p, to)      == [type |-> "confirm", n |-> 0, id |-> p.id, to |-> to]

-----------------------------------------------------------------------------
(***************************************************************************)
(* Outcomes of a step of the client.  "sent" is what it has sent before.   *)
(***************************************************************************)

\* udp_send up to its first recv.
BeginSend(type, k, to, sent) ==
  /\ call' = Call(type, k, Retransmissions, 1, "null")
  /\ toServer' = sent \cup {Packet(type, k, to)}

\* Mutant: any answer to AUTH opens the session.
FsmOpensOnAnyReply(event) ==
  state' = CASE event = "bye"                                -> "exited"
             [] event = "err"                                -> "Error"
             [] event \in {"ok", "nok"} /\ state = "Auth"    -> "Open"
             [] OTHER                                        -> state

\* The switch of main on the event that ReadEvent returned.
Fsm(event) ==
  state' = CASE event = "bye"                   -> "exited"
             [] event = "err"                   -> "Error"
             [] event = "ok" /\ state = "Auth"  -> "Open"
             [] OTHER                           -> state

\* Mutant: the signal handler returns to the program instead of exiting.
ReturnFromHandler(event) ==
  /\ call' = NoCall
  /\ IF call.type = "bye" THEN state' = state ELSE Fsm(IF call.type = "junk" THEN "err" ELSE event)

\* udp_send returns: to sigint_handler, which exits; to the error branch of
\* ReadEvent, which returns its own msg_error_Event; or to the command branch.
Return(event) ==
  /\ call' = NoCall
  /\ IF call.type = "bye" THEN state' = "exited" ELSE Fsm(IF call.type = "junk" THEN "err" ELSE event)

\* Mutant: msg_out_ctrl counts the first send only.
RetryUncounted(cnt, event, sent) ==
  \/ cnt = 0 /\ Return(event) /\ toServer' = sent
  \/ /\ cnt > 0 /\ cnt - 1 <= MaxOut /\ call.out <= MaxOut
     /\ call' = Call(call.type, call.n, cnt - 1, 2, event)
     /\ toServer' = sent \cup {Packet(call.type, call.n, server_addr)}
     /\ UNCHANGED state

\* Mutant: the limit on what one call sends is not tested.
RetryUnlimited(cnt, event, sent) ==
  \/ cnt = 0 /\ Return(event) /\ toServer' = sent
  \/ /\ cnt > 0
     /\ call' = Call(call.type, call.n, cnt - 1, call.out + 1, event)
     /\ toServer' = sent \cup {Packet(call.type, call.n, server_addr)}
     /\ UNCHANGED state

\* while (cnt-- > 0): leave the loop, exit at the limit, or send again, which
\* may fail.
Retry(cnt, event, sent) ==
  \/ cnt = 0 /\ Return(event) /\ toServer' = sent
  \/ /\ cnt > 0 /\ (cnt - 1 > MaxOut \/ call.out > MaxOut)
     /\ state' = "exited" /\ call' = NoCall /\ toServer' = sent
  \/ /\ cnt > 0 /\ cnt - 1 <= MaxOut /\ call.out <= MaxOut
     /\ \/ SendMayFail /\ Return("null") /\ toServer' = sent
        \/ /\ call' = Call(call.type, call.n, cnt - 1, call.out + 1, event)
           /\ toServer' = sent \cup {Packet(call.type, call.n, server_addr)}
           /\ UNCHANGED state

\* decode_msg's caller displays what was decoded; CONFIRM and BYE show nothing.
Display(p) ==
  shown' = IF p.type = "bye" \/ shown[p.id] = 2 THEN shown ELSE [shown EXCEPT ![p.id] = @ + 1]

-----------------------------------------------------------------------------
(***************************************************************************)
(* The client while no udp_send is running.                                *)
(***************************************************************************)
Idle == call = NoCall /\ state \in {"Auth", "Open"}

\* Mutant: the command is sent whatever the state.
SupportedAlways(type) == type \in Commands

Supported(type) == (state = "Auth") = (type = "auth")

\* A command read from stdin: the ones the state does not support, the
\* malformed and the local ones end without a trace.
Command(type) ==
  /\ Idle /\ n < MaxCommands /\ Supported(type)
  /\ BeginSend(type, n + 1, server_addr, toServer) /\ n' = n + 1
  /\ UNCHANGED <<state, message_id, server_addr, sigint, shown, serverVars, toClient>>

\* A packet read by recvfrom, which also takes its sender as the server's
\* address.  decode_msg confirms it there before it looks at its type.
SocketMessage(p) ==
  /\ Idle /\ p.type \in Messages
  /\ server_addr' = p.from
  /\ toServer' = toServer \cup {Confirm(p, p.from)}
  /\ Display(p) /\ Fsm(p.type)
  /\ UNCHANGED <<message_id, call, n, sigint, serverVars, toClient>>

\* A CONFIRM read outside udp_send is an unknown message: it is confirmed,
\* and answered with what was to be an ERR.
SocketConfirm(p) ==
  /\ Idle /\ p.type = "confirm"
  /\ server_addr' = p.from
  /\ BeginSend("junk", 0, p.from, toServer \cup {Confirm(p, p.from)})
  /\ UNCHANGED <<state, message_id, n, sigint, shown, serverVars, toClient>>

\* The Error_State calls sigint_handler.
ErrorBye ==
  /\ state = "Error" /\ call = NoCall
  /\ BeginSend("bye", 0, server_addr, toServer)
  /\ UNCHANGED <<state, message_id, server_addr, n, sigint, shown, serverVars, toClient>>

\* SIGINT, at any point of the program: its udp_send replaces the running one.
Sigint ==
  /\ state # "exited" /\ ~sigint
  /\ sigint' = TRUE
  /\ BeginSend("bye", 0, server_addr, toServer)
  /\ UNCHANGED <<state, message_id, server_addr, n, shown, serverVars, toClient>>

-----------------------------------------------------------------------------
(***************************************************************************)
(* The client inside udp_send.                                             *)
(***************************************************************************)
Sending == call # NoCall

\* Mutant: the id of the CONFIRM is not compared.
MatchesAny(p) == p.type = "confirm" /\ p.id \in Ids

Matches(p) == p.type = "confirm" /\ p.id = message_id

RecvConfirm(p) ==
  /\ Sending /\ Matches(p)
  /\ message_id' = (message_id + 1) % (Base * Base)
  /\ Return(call.event)
  /\ UNCHANGED <<server_addr, n, sigint, shown, serverVars, toServer, toClient>>

\* Anything but a CONFIRM, where the first one was expected, ends the call.
RecvInsteadOfConfirm(p) ==
  /\ Sending /\ p.type \in Messages /\ call.out = 1
  /\ toServer' = toServer \cup {Confirm(p, server_addr)}
  /\ Display(p) /\ Return(p.type)
  /\ UNCHANGED <<message_id, server_addr, n, sigint, serverVars, toClient>>

\* In the loop it becomes the event, whatever the event was, and costs no retry.
RecvInLoop(p) ==
  /\ Sending /\ p.type \in Messages /\ call.out > 1
  /\ Display(p)
  /\ Retry(call.cnt + 1, p.type, toServer \cup {Confirm(p, server_addr)})
  /\ UNCHANGED <<message_id, server_addr, n, sigint, serverVars, toClient>>

\* The timeout, or a CONFIRM for another id.
NoConfirm ==
  /\ Sending
  /\ TimeoutSet \/ \E p \in toClient : p.type = "confirm" /\ ~Matches(p)
  /\ Retry(call.cnt, call.event, toServer)
  /\ UNCHANGED <<message_id, server_addr, n, sigint, shown, serverVars, toClient>>

InSend == NoConfirm \/ \E p \in toClient : RecvConfirm(p) \/ RecvInsteadOfConfirm(p) \/ RecvInLoop(p)

-----------------------------------------------------------------------------
(***************************************************************************)
(* The server, outside the repository: it confirms every packet with an id *)
(* that reaches it, acts once on each id, answers AUTH and JOIN, and talks *)
(* from a port of its own once it has answered the first AUTH.             *)
(***************************************************************************)
Reaches(p) == p.type \in Commands \cup {"bye"} /\ (p.to = "session" \/ p.type = "auth")
ConfirmTo(p) == [type |-> "confirm", id |-> p.id, from |-> p.to]
Says(type) == [type |-> type, id |-> sid, from |-> "session"]

ServerConfirms(p) ==
  /\ Reaches(p) /\ (p.id \in seen \/ p.type \in {"msg", "bye"})
  /\ seen' = seen \cup {p.id} /\ toClient' = toClient \cup {ConfirmTo(p)}
  /\ UNCHANGED <<clientVars, toServer, accepted, sid>>

ServerAnswers(p, type) ==
  /\ Reaches(p) /\ p.id \notin seen /\ sid < MaxServer
  /\ p.type \in {"auth", "join"} /\ (type = "ok" => p.type = "auth" \/ accepted)
  /\ seen' = seen \cup {p.id} /\ sid' = sid + 1
  /\ accepted' = (accepted \/ (p.type = "auth" /\ type = "ok"))
  /\ toClient' = toClient \cup {ConfirmTo(p), Says(type)}
  /\ UNCHANGED <<clientVars, toServer>>

ServerSays(type) ==
  /\ accepted /\ sid < MaxServer
  /\ sid' = sid + 1 /\ toClient' = toClient \cup {Says(type)}
  /\ UNCHANGED <<clientVars, toServer, accepted, seen>>

Server ==
  \/ \E p \in toServer : ServerConfirms(p) \/ \E type \in {"ok", "nok"} : ServerAnswers(p, type)
  \/ \E type \in {"msg", "err", "bye"} : ServerSays(type)

-----------------------------------------------------------------------------
Init ==
  /\ state = "Auth" /\ message_id = 0 /\ server_addr = "welcome"
  /\ call = NoCall /\ n = 0 /\ sigint = FALSE
  /\ shown = [i \in Sids |-> 0]
  /\ toServer = {} /\ toClient = {}
  /\ accepted = FALSE /\ seen = {} /\ sid = 0

\* The process has ended.
Ended == state = "exited" /\ UNCHANGED vars

Next ==
  \/ \E type \in Commands : Command(type)
  \/ \E p \in toClient : SocketMessage(p) \/ SocketConfirm(p)
  \/ ErrorBye \/ Sigint \/ InSend \/ Server \/ Ended

Spec == Init /\ [][Next]_vars

\* The program runs, and a recv with a timeout returns.  Neither the network,
\* the server nor the user has to do anything.
FairSpec == Spec /\ WF_vars(InSend) /\ WF_vars(ErrorBye)

-----------------------------------------------------------------------------
(***************************************************************************)
(* Properties.                                                             *)
(***************************************************************************)
TypeOK ==
  /\ state \in States /\ message_id \in Ids /\ server_addr \in Ports
  /\ call \in [type : Commands \cup {"bye", "junk", "none"}, n : 0..MaxCommands,
               cnt : 0..Retransmissions, out : 0..(MaxOut + 1), event : Events]
  /\ n \in 0..MaxCommands /\ sigint \in BOOLEAN /\ shown \in [Sids -> 0..2]
  /\ \A p \in toServer : p.id \in Ids \cup Sids \cup {NoId} /\ p.to \in Ports
  /\ \A p \in toClient : p.id \in Ids \cup Sids /\ p.from \in Ports
  /\ accepted \in BOOLEAN /\ seen \subseteq Ids /\ sid \in 0..MaxServer

\* The client is in its open state only if the server accepted its AUTH,
\* whatever was lost, late or duplicated on the way.
OpenOnlyAfterAccepted == state = "Open" => accepted

\* No JOIN or message of the user leaves the client before the server has
\* accepted its AUTH.
NothingBeforeAccepted ==
  \A p \in toServer : p.type \in {"join", "msg"} => accepted

\* The message id moves on only from an id that the server has received: a
\* delayed or duplicated CONFIRM of an earlier message never confirms an id
\* the server has not seen.
ConfirmedIdsWereSeen ==
  [][message_id' # message_id => message_id \in seen]_vars

\* Why both hold: acceptance reaches the state machine through the network and
\* through the event of a running udp_send, and what may leave the client is
\* decided where a call begins but sent again until it ends.
AcceptedInv ==
  /\ \A p \in toClient : p.type = "ok" => accepted
  /\ \A p \in toClient : p.type = "confirm" => p.id \in seen
  /\ call.event = "ok" => accepted
  /\ OpenOnlyAfterAccepted
  /\ call.type \in {"join", "msg"} => accepted
  /\ NothingBeforeAccepted

\* udp_send comes to an end: by a CONFIRM, at the last retransmission or at
\* its limit, even if messages of the server keep arriving in its loop.
SendEnds == Sending ~> ~Sending

\* Once in Error_State, or interrupted, the client says BYE and exits.
LeavesOnError == (state = "Error" \/ sigint) ~> state = "exited"

\* udp_send returns the event that decides on the action to take: when it
\* has displayed that the server accepted the AUTH, the session is open.
AcceptanceNotForgotten ==
  \A p \in toClient :
    p.type = "ok" /\ shown[p.id] > 0 /\ Idle => state = "Open"

\* Message ids serve to detect duplicates: none is displayed twice.
DisplayedOnce == \A i \in Sids : shown[i] <= 1

\* Delays, duplicates and reordering are handled: the client gives up the
\* session only if the server reported an error.
ErrorOnlyFromServer == state = "Error" => \E p \in toClient : p.type = "err"

=============================================================================
