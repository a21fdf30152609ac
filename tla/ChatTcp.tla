------------------------------- MODULE ChatTcp -------------------------------
(***************************************************************************)
(* The TCP variant of the chat client (src/2/IPK/1-project/src): main's    *)
(* loop with ReadEventTcp, input_parse_tcp and decode_msg_tcp.  The stream *)
(* is reliable and keeps no boundaries: a read returns any number of the   *)
(* pieces that have come, and what it returns is decoded as one message.   *)
(*   A message is cut into pieces at the places that matter to the decoder *)
(* and strtok (Pieces).  No text looks like a message.  The server and the *)
(* stream are external; a connection that breaks makes a call fail.        *)
(***************************************************************************)
EXTENDS Integers, Sequences, SequencesExt

CONSTANTS
  TcpKinds,         \* of the messages of the server
  MaxTcpMessages,   \* bound: messages of the server
  MaxTcpCommands    \* bound: lines typed by the user

ASSUME ChatTcpAssumption ==
  /\ TcpKinds \subseteq {"reply_ok", "reply_nok", "msg", "err", "bye"}
  /\ MaxTcpMessages \in Nat /\ MaxTcpCommands \in Nat

VARIABLES
  tcpState,      \* eNextState, or how the program ended
  tcpStream,     \* the pieces sent by the server and not yet read
  tcpServed,     \* the kinds of the messages of the server, in their order
  tcpClosed,     \* the server has closed its side
  tcpTyped,      \* how many lines were typed
  tcpLog         \* what was sent and displayed, in its order

tcpVars == <<tcpState, tcpStream, tcpServed, tcpClosed, tcpTyped, tcpLog>>

TcpStates == {"Auth_State", "Open_State", "Error_State"}
TcpRunning == tcpState \in TcpStates
\* ReadEventTcp waits for an event.
Waits == tcpState \in {"Auth_State", "Open_State"}

Sent(kind) == [what |-> "sent", kind |-> kind]
Shown(kind, n) == [what |-> "shown", kind |-> kind, number |-> n]
TcpLogged(entry) == tcpLog' = Append(tcpLog, entry)
\* The program ends, or goes on, without sending or displaying anything.
Silently(state) == tcpState' = state /\ UNCHANGED tcpLog

ChatTcpInit ==
  /\ tcpState = "Auth_State"
  /\ tcpStream = <<>> /\ tcpServed = <<>> /\ tcpClosed = FALSE
  /\ tcpTyped = 0 /\ tcpLog = <<>>

\* The server, external.  The pieces of a message with a text: the first
\* word, a space, the other fields, the beginning of the text, spaces in it,
\* the rest with the end of the line.  Those of a BYE: "BY", "E", and the end
\* of the line.
PieceCount(kind) == IF kind = "bye" THEN 3 ELSE 6
Pieces(n, kind) == [i \in 1 .. PieceCount(kind) |-> [number |-> n, part |-> i]]
ServerSends(kind) ==
  /\ ~tcpClosed /\ Len(tcpServed) < MaxTcpMessages
  /\ tcpServed' = Append(tcpServed, kind)
  /\ tcpStream' = tcpStream \o Pieces(Len(tcpServed) + 1, kind)
  /\ UNCHANGED <<tcpState, tcpClosed, tcpTyped, tcpLog>>
ServerCloses ==
  /\ ~tcpClosed /\ tcpClosed' = TRUE
  /\ UNCHANGED <<tcpState, tcpStream, tcpServed, tcpTyped, tcpLog>>

\* sendto on the socket: the message goes out and main is in the given state
\* afterwards; or the call fails, and the event that is returned moves
\* nothing; or the peer is gone and SIGPIPE, which nobody handles, kills.
SendTo(kind, state) ==
  \/ TcpLogged(Sent(kind)) /\ tcpState' = state
  \/ Silently(tcpState)
  \/ tcpClosed /\ Silently("killed")

\* input_parse_tcp: what a line makes the client send; the other commands and
\* the lines it refuses are null_Event.
LineKinds == {"auth", "join", "msg", "null"}

\* Mutant: the state is not asked.
TakesAny(line) == line # "null"

\* A line is dropped unless the state takes it.
Takes(line) == CASE tcpState = "Auth_State" -> line = "auth"
                 [] tcpState = "Open_State" -> line \in {"join", "msg"}

TypeLine(line) ==
  /\ Waits /\ tcpTyped < MaxTcpCommands
  /\ tcpTyped' = tcpTyped + 1
  /\ IF Takes(line) THEN SendTo(line, tcpState) ELSE Silently(tcpState)
  /\ UNCHANGED <<tcpStream, tcpServed, tcpClosed>>

\* Nothing but spaces, or nothing at all: strtok finds no word in it.
Blank(read) ==
  \A i \in DOMAIN read : tcpServed[read[i].number] # "bye" /\ read[i].part \in {2, 5}

\* decode_msg_tcp.  Without a first word strcmp reads through NULL.  A BYE is
\* one only if the read ends in front of its end of line, which is part of
\* the word otherwise.  Of the others everything is expected from the
\* beginning to some of the text; what follows is ignored.
decode_msg_tcp(read) ==
  IF Blank(read) THEN "crash"
  ELSE LET kind == tcpServed[read[1].number]
       IN IF /\ read[1].part = 1
             /\ IF kind = "bye" THEN Len(read) = 2 ELSE Len(read) >= 4
          THEN kind ELSE "msg_error"

\* main, in the state and with the event of a message that was displayed.
StateAfter(event) ==
  CASE event = "err" -> "Error_State"
    [] event = "reply_ok" -> "Open_State"
    [] OTHER -> tcpState

\* What ReadEventTcp and main make of a read: a BYE ends the program without
\* a word, what could not be decoded is answered with an error message, which
\* only leads to the error state when it went out, the rest is displayed.
Handle(read, event) ==
  CASE event = "crash" -> Silently("crashed")
    [] event = "bye" -> Silently("finished")
    [] event = "msg_error" -> SendTo("err", "Error_State")
    [] OTHER -> TcpLogged(Shown(event, read[1].number)) /\ tcpState' = StateAfter(event)

ReadSocket ==
  /\ Waits
  /\ \E k \in 1 .. Len(tcpStream) :
       LET read == SubSeq(tcpStream, 1, k)
       IN /\ Handle(read, decode_msg_tcp(read))
          /\ tcpStream' = SubSeq(tcpStream, k + 1, Len(tcpStream))
  /\ UNCHANGED <<tcpServed, tcpClosed, tcpTyped>>

\* recv returns 0 at the end of the stream, or -1, which ends the program.
ReadNothing ==
  /\ Waits
  /\ \/ tcpClosed /\ tcpStream = <<>> /\ Handle(<<>>, decode_msg_tcp(<<>>))
     \/ Silently("failed")
  /\ UNCHANGED <<tcpStream, tcpServed, tcpClosed, tcpTyped>>

\* sigint_handler: on the signal, whenever it comes, and from Error_State.
\* It leaves whether or not the goodbye went out.
sigint_handler ==
  /\ TcpRunning
  /\ \/ TcpLogged(Sent("bye")) /\ tcpState' = "left"
     \/ Silently("left")
     \/ tcpClosed /\ Silently("killed")
  /\ UNCHANGED <<tcpStream, tcpServed, tcpClosed, tcpTyped>>

ChatTcpNext ==
  \/ \E kind \in TcpKinds : ServerSends(kind)
  \/ ServerCloses
  \/ \E line \in LineKinds : TypeLine(line)
  \/ ReadSocket \/ ReadNothing \/ sigint_handler

ChatTcpSpec == ChatTcpInit /\ [][ChatTcpNext]_tcpVars
-----------------------------------------------------------------------------
(* Properties *)

\* However the stream is cut and whatever fails: what is displayed are
\* messages of the server, of the kind it sent them, in their order and none
\* twice; the client joins and talks only after an accepting reply was
\* displayed; it complains at most once, and from then or from an error
\* message on it only says goodbye; and it leaves without a word only at a
\* BYE, behind all that it displayed.
TcpFollowsServer ==
  LET Is(i, what, kind) == tcpLog[i].what = what /\ tcpLog[i].kind = kind
  IN /\ \A i \in DOMAIN tcpLog :
          /\ tcpLog[i].what = "shown" =>
               /\ tcpLog[i].kind = tcpServed[tcpLog[i].number]
               /\ \A j \in 1 .. i - 1 :
                    tcpLog[j].what = "shown" => tcpLog[j].number < tcpLog[i].number
          /\ Is(i, "sent", "join") \/ Is(i, "sent", "msg") =>
               \E j \in 1 .. i - 1 : Is(j, "shown", "reply_ok")
          /\ (\E j \in 1 .. i - 1 : Is(j, "shown", "err") \/ Is(j, "sent", "err"))
               => Is(i, "sent", "bye")
          /\ Is(i, "sent", "bye") => i = Len(tcpLog)
     /\ tcpState = "finished" =>
          \E n \in DOMAIN tcpServed :
            /\ tcpServed[n] = "bye"
            /\ \A i \in DOMAIN tcpLog :
                 tcpLog[i].what = "shown" => tcpLog[i].number < n
=============================================================================
