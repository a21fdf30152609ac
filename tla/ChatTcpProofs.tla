--------------------------- MODULE ChatTcpProofs ---------------------------
(***************************************************************************)
(* Proofs about the TCP chat client: for every set of kinds, any number of *)
(* messages and of lines typed, and every way of cutting the stream.       *)
(***************************************************************************)
EXTENDS ChatTcp, SequenceTheorems, TLAPS

\* The pieces of the stream and the entries of the log.
PieceSet == [number : Nat \ {0}, part : 1 .. 6]
SentSet == [what : {"sent"}, kind : {"auth", "join", "msg", "err", "bye"}]
ShownSet == [what : {"shown"}, kind : TcpKinds, number : Nat \ {0}]
Entries == SentSet \cup ShownSet

\* How the program ends.
TcpEnds == {"left", "finished", "crashed", "failed", "killed"}

\* The types of the variables.
TcpTyped ==
  /\ tcpState \in TcpStates \cup TcpEnds
  /\ tcpServed \in Seq(TcpKinds)
  /\ tcpStream \in Seq(PieceSet)
  /\ tcpLog \in Seq(Entries)

\* The stream carries the pieces in the order of the messages, and those of
\* one message in their order.
Before(p, q) == p.number < q.number \/ (p.number = q.number /\ p.part < q.part)
\* The pieces in the stream are in the order they were sent in.
StreamInv ==
  /\ \A i \in 1 .. Len(tcpStream) : tcpStream[i].number <= Len(tcpServed)
  /\ \A i, j \in 1 .. Len(tcpStream) : i < j => Before(tcpStream[i], tcpStream[j])

\* No beginning of a displayed message, or of one before it, is still to come.
Ahead(e) == \A j \in 1 .. Len(tcpStream) : tcpStream[j].part = 1 => e.number < tcpStream[j].number
ShownInv ==
  \A i \in 1 .. Len(tcpLog) : tcpLog[i].what = "shown" =>
    tcpLog[i].number <= Len(tcpServed) /\ Ahead(tcpLog[i])

\* What the log tells about the state of main.
Greeted == \E i \in 1 .. Len(tcpLog) : tcpLog[i].what = "shown" /\ tcpLog[i].kind = "reply_ok"
Quiet == \A i \in 1 .. Len(tcpLog) : tcpLog[i].kind # "err"
Present == \A i \in 1 .. Len(tcpLog) : ~(tcpLog[i].what = "sent" /\ tcpLog[i].kind = "bye")
StateInv ==
  /\ tcpState = "Open_State" => Greeted
  /\ tcpState \in {"Auth_State", "Open_State"} => Quiet
  /\ TcpRunning => Present

\* The invariant.
TcpInv == TcpTyped /\ StreamInv /\ ShownInv /\ StateInv /\ TcpFollowsServer

\* TcpFollowsServer, of one entry of the log.
Is(i, what, kind) == tcpLog[i].what = what /\ tcpLog[i].kind = kind
\* What TcpFollowsServer says of entry i of the log.
Follows(i) ==
  /\ tcpLog[i].what = "shown" =>
       /\ tcpLog[i].kind = tcpServed[tcpLog[i].number]
       /\ \A j \in 1 .. i - 1 : tcpLog[j].what = "shown" => tcpLog[j].number < tcpLog[i].number
  /\ Is(i, "sent", "join") \/ Is(i, "sent", "msg") =>
       \E j \in 1 .. i - 1 : Is(j, "shown", "reply_ok")
  /\ (\E j \in 1 .. i - 1 : Is(j, "shown", "err") \/ Is(j, "sent", "err")) => Is(i, "sent", "bye")
  /\ Is(i, "sent", "bye") => i = Len(tcpLog)

\* What it says of the program that left without a word.
Dismissed ==
  \E n \in 1 .. Len(tcpServed) :
    /\ tcpServed[n] = "bye"
    /\ \A i \in 1 .. Len(tcpLog) : tcpLog[i].what = "shown" => tcpLog[i].number < n
Farewell == tcpState = "finished" => Dismissed

\* TcpFollowsServer is about each entry of the log, and about the end.
LEMMA FollowsIs ==
  TcpTyped => (TcpFollowsServer <=> Farewell /\ \A i \in 1 .. Len(tcpLog) : Follows(i))
<1> SUFFICES ASSUME TcpTyped
             PROVE  TcpFollowsServer <=> Farewell /\ \A i \in 1 .. Len(tcpLog) : Follows(i)
  OBVIOUS
<1>1. DOMAIN tcpLog = 1 .. Len(tcpLog) /\ DOMAIN tcpServed = 1 .. Len(tcpServed)
  BY LenProperties DEF TcpTyped
<1>2. TcpFollowsServer <=>
        /\ \A i \in 1 .. Len(tcpLog) : Follows(i)
        /\ tcpState = "finished" => Dismissed
  BY <1>1 DEF TcpFollowsServer, Follows, Is, Dismissed
<1>. QED
  BY <1>2 DEF Farewell

-----------------------------------------------------------------------------
(* What the steps do to the log and to the stream *)

\* An entry joins the log at its end.
LEMMA Logging ==
  ASSUME TcpTyped, NEW e \in Entries, TcpLogged(e)
  PROVE  /\ Len(tcpLog) \in Nat
         /\ tcpLog' \in Seq(Entries)
         /\ Len(tcpLog') = Len(tcpLog) + 1
         /\ \A i \in 1 .. Len(tcpLog) : tcpLog'[i] = tcpLog[i]
         /\ tcpLog'[Len(tcpLog) + 1] = e
BY AppendProperties, LenProperties DEF TcpTyped, TcpLogged

\* The step of an entry: what is known of it makes the invariant.
LEMMA EntryKeeps ==
  ASSUME TcpInv, NEW e \in Entries, TcpLogged(e), UNCHANGED tcpServed,
         TcpTyped', StreamInv',
         TcpRunning, tcpState' # "finished",
         \A j \in 1 .. Len(tcpStream') :
           tcpStream'[j].part = 1 =>
             \E i \in 1 .. Len(tcpStream) : tcpStream'[j] = tcpStream[i],
         e.what = "shown" =>
           /\ e.number <= Len(tcpServed) /\ e.kind = tcpServed[e.number]
           /\ \A i \in 1 .. Len(tcpLog) : tcpLog[i].what = "shown" => tcpLog[i].number < e.number
           /\ \A j \in 1 .. Len(tcpStream') :
                tcpStream'[j].part = 1 => e.number < tcpStream'[j].number,
         e.what = "sent" /\ e.kind \in {"join", "msg"} => Greeted,
         Quiet \/ (e.what = "sent" /\ e.kind = "bye"),
         tcpState' = "Open_State" =>
           Greeted \/ (e.what = "shown" /\ e.kind = "reply_ok"),
         tcpState' \in {"Auth_State", "Open_State"} => Quiet /\ e.kind # "err",
         tcpState' \in TcpStates => ~(e.what = "sent" /\ e.kind = "bye")
  PROVE  TcpInv'
<1>0. PICK L \in Nat : L = Len(tcpLog)
  BY Logging DEF TcpInv
<1>1. /\ L = Len(tcpLog) /\ Len(tcpLog') = L + 1
      /\ \A i \in 1 .. L : tcpLog'[i] = tcpLog[i]
      /\ tcpLog'[L + 1] = e
  BY <1>0, Logging DEF TcpInv
<1>2. \A i \in 1 .. L + 1 : i \in 1 .. L \/ i = L + 1
  BY <1>1
<1>3. Present
  BY DEF TcpInv, StateInv
<1>4. ShownInv'
  BY <1>1, <1>2 DEF TcpInv, ShownInv, Ahead
<1>5. StateInv'
  <2>1. tcpState' = "Open_State" => Greeted'
    BY <1>1 DEF Greeted
  <2>2. Quiet /\ e.kind # "err" => Quiet'
    BY <1>1, <1>2 DEF Quiet
  <2>3. ~(e.what = "sent" /\ e.kind = "bye") => Present'
    BY <1>1, <1>2, <1>3 DEF Present
  <2>. QED
    BY <2>1, <2>2, <2>3 DEF StateInv, TcpRunning, TcpStates
<1>6. TcpFollowsServer'
  <2>1. \A i \in 1 .. L : Follows(i)
    BY <1>1, FollowsIs DEF TcpInv
  <2>2. ASSUME NEW i \in 1 .. L PROVE Follows(i)'
    <3>1. /\ \A j \in 1 .. i - 1 : j \in 1 .. L /\ tcpLog'[j] = tcpLog[j]
          /\ tcpLog'[i] = tcpLog[i]
      BY <1>1
    <3>2. ~(tcpLog[i].what = "sent" /\ tcpLog[i].kind = "bye")
      BY <1>1, <1>3 DEF Present
    <3>. QED
      BY <2>1, <3>1, <3>2 DEF Follows, Is
  <2>3. Follows(L + 1)'
    <3>2. Quiet => \A j \in 1 .. L : tcpLog'[j].kind # "err"
      BY <1>1 DEF Quiet
    <3>3. Greeted => \E j \in 1 .. L : tcpLog'[j].what = "shown" /\ tcpLog'[j].kind = "reply_ok"
      BY <1>1 DEF Greeted
    <3>4. Is(L + 1, "sent", "join")' \/ Is(L + 1, "sent", "msg")' =>
            \E j \in 1 .. L : Is(j, "shown", "reply_ok")'
      BY <1>1, <3>3 DEF Is
    <3>5. (\E j \in 1 .. L : Is(j, "shown", "err")' \/ Is(j, "sent", "err")')
            => Is(L + 1, "sent", "bye")'
      BY <1>1, <3>2 DEF Is
    <3>6. tcpLog'[L + 1].what = "shown" =>
            /\ tcpLog'[L + 1].kind = tcpServed'[tcpLog'[L + 1].number]
            /\ \A j \in 1 .. L :
                 tcpLog'[j].what = "shown" => tcpLog'[j].number < tcpLog'[L + 1].number
      BY <1>1
    <3>7. (L + 1) - 1 = L
      BY <1>1
    <3>. QED
      BY <1>1, <3>4, <3>5, <3>6, <3>7, Zenon DEF Follows
  <2>4. \A i \in 1 .. Len(tcpLog') : Follows(i)'
    BY <1>1, <1>2, <2>2, <2>3, Zenon
  <2>5. TcpTyped' => (TcpFollowsServer' <=> (Farewell /\ \A i \in 1 .. Len(tcpLog) : Follows(i))')
    BY FollowsIs, PTL
  <2>6. Farewell'
    BY DEF Farewell
  <2>. QED
    BY <2>4, <2>5, <2>6
<1>. QED
  BY <1>4, <1>5, <1>6 DEF TcpInv

-----------------------------------------------------------------------------
\* A step that logs nothing keeps what is said of the log, as long as no
\* beginning in front of what was displayed comes back.
LEMMA SilentKeeps ==
  ASSUME TcpInv, UNCHANGED <<tcpLog, tcpServed>>, TcpTyped', StreamInv',
         \A j \in 1 .. Len(tcpStream') :
           tcpStream'[j].part = 1 =>
             \E i \in 1 .. Len(tcpStream) : tcpStream'[j] = tcpStream[i],
         tcpState' = tcpState \/ tcpState' \in TcpEnds,
         tcpState' = "finished" => tcpState = "finished" \/ Dismissed
  PROVE  TcpInv'
<1>1. ShownInv'
  BY DEF TcpInv, ShownInv, Ahead
<1>2. StateInv'
  BY DEF TcpInv, StateInv, Greeted, Quiet, Present, TcpRunning, TcpStates, TcpEnds
<1>3. TcpFollowsServer'
  <2>1. Farewell /\ \A i \in 1 .. Len(tcpLog) : Follows(i)
    BY FollowsIs DEF TcpInv
  <2>2. (\A i \in 1 .. Len(tcpLog) : Follows(i))'
    BY <2>1 DEF Follows, Is
  <2>3. Farewell'
    BY <2>1 DEF Farewell, Dismissed
  <2>4. TcpTyped' => (TcpFollowsServer' <=> (Farewell /\ \A i \in 1 .. Len(tcpLog) : Follows(i))')
    BY FollowsIs, PTL
  <2>. QED
    BY <2>2, <2>3, <2>4
<1>. QED
  BY <1>1, <1>2, <1>3 DEF TcpInv

\* The pieces of a message of the server.
LEMMA PiecesAre ==
  ASSUME NEW m \in Nat \ {0}, NEW kind
  PROVE  /\ PieceCount(kind) \in 1 .. 6
         /\ Pieces(m, kind) \in Seq(PieceSet) /\ Len(Pieces(m, kind)) = PieceCount(kind)
         /\ \A i \in 1 .. PieceCount(kind) :
              Pieces(m, kind)[i].number = m /\ Pieces(m, kind)[i].part = i
<1>1. PICK c \in 1 .. 6 : c = PieceCount(kind)
  BY DEF PieceCount
<1>2. \A i \in 1 .. c : [number |-> m, part |-> i] \in PieceSet
  BY <1>1 DEF PieceSet
<1>. QED
  BY <1>1, <1>2 DEF Pieces

\* A new message of the server goes to the end of the stream.
LEMMA ServerKeeps ==
  ASSUME TcpInv, NEW kind \in TcpKinds, ServerSends(kind)
  PROVE  TcpInv'
<1>1. PICK m \in Nat : m = Len(tcpServed)
  BY LenProperties DEF TcpInv, TcpTyped
<1>2. PICK k \in Nat : k = Len(tcpStream)
  BY LenProperties DEF TcpInv, TcpTyped
<1>3. /\ tcpServed' \in Seq(TcpKinds) /\ Len(tcpServed') = m + 1
      /\ \A i \in 1 .. m : tcpServed'[i] = tcpServed[i]
  BY <1>1, AppendProperties DEF TcpInv, TcpTyped, ServerSends
<1> DEFINE added == Pieces(m + 1, kind)
<1>0. PICK c \in 1 .. 6 : c = PieceCount(kind)
  BY PiecesAre
<1>4. /\ added \in Seq(PieceSet) /\ Len(added) = c
      /\ \A i \in 1 .. c : added[i].number = m + 1 /\ added[i].part = i
  BY <1>0, PiecesAre
<1>5. tcpStream \in Seq(PieceSet) /\ tcpStream' = tcpStream \o added
  BY <1>1 DEF TcpInv, TcpTyped, ServerSends
<1> HIDE DEF added
<1>6. /\ tcpStream' \in Seq(PieceSet) /\ Len(tcpStream') = k + c
      /\ \A i \in 1 .. k + c :
           tcpStream'[i] = IF i <= k THEN tcpStream[i] ELSE added[i - k]
  <2>1. /\ tcpStream \o added \in Seq(PieceSet)
        /\ Len(tcpStream \o added) = Len(tcpStream) + Len(added)
        /\ \A i \in 1 .. Len(tcpStream) + Len(added) :
             (tcpStream \o added)[i] =
               IF i <= Len(tcpStream) THEN tcpStream[i] ELSE added[i - Len(tcpStream)]
    BY <1>4, <1>5, ConcatProperties
  <2>. QED
    BY <2>1, <1>2, <1>4, <1>5
<1>7. /\ \A i \in 1 .. k : tcpStream'[i] = tcpStream[i]
      /\ \A i \in 1 .. k + c : ~(i <= k) =>
           tcpStream'[i].number = m + 1 /\ tcpStream'[i].part = i - k
  BY <1>4, <1>6
<1>8. \A i \in 1 .. k + c : i <= k => i \in 1 .. k
  OBVIOUS
<1>9. \A i \in 1 .. k : tcpStream[i].number \in Nat /\ tcpStream[i].number <= m
  <2>1. \A i \in 1 .. k : tcpStream[i] \in PieceSet
    BY <1>2, <1>5, ElementOfSeq
  <2>. QED
    BY <1>1, <1>2, <2>1 DEF TcpInv, StreamInv, PieceSet
<1>10. StreamInv'
  <2>1. \A i \in 1 .. k + c : tcpStream'[i].number <= m + 1
    BY <1>7, <1>8, <1>9
  <2>2. ASSUME NEW i \in 1 .. k + c, NEW j \in 1 .. k + c, i < j
        PROVE  Before(tcpStream'[i], tcpStream'[j])
    <3>1. CASE j <= k
      <4>1. i \in 1 .. k /\ j \in 1 .. k
        BY <2>2, <3>1
      <4>. QED
        BY <4>1, <1>2, <1>7, <2>2 DEF TcpInv, StreamInv
    <3>2. CASE ~(j <= k) /\ i <= k
      <4>1. tcpStream'[i].number <= m /\ tcpStream'[i].number \in Nat
        BY <1>7, <1>8, <1>9, <3>2
      <4>2. tcpStream'[j].number = m + 1
        BY <1>7, <3>2
      <4>. QED
        BY <4>1, <4>2 DEF Before
    <3>3. CASE ~(j <= k) /\ ~(i <= k)
      <4>1. tcpStream'[i].number = m + 1 /\ tcpStream'[i].part = i - k
        BY <1>7, <3>3
      <4>2. tcpStream'[j].number = m + 1 /\ tcpStream'[j].part = j - k
        BY <1>7, <3>3
      <4>. QED
        BY <4>1, <4>2, <2>2 DEF Before
    <3>. QED
      BY <3>1, <3>2, <3>3
  <2>. QED
    BY <2>1, <2>2, <1>3, <1>6 DEF StreamInv, Before
<1>11. UNCHANGED <<tcpState, tcpLog>>
  BY DEF ServerSends
<1>12. PICK l \in Nat : l = Len(tcpLog)
  BY LenProperties DEF TcpInv, TcpTyped
<1>13. \A i \in 1 .. l : tcpLog[i].what = "shown" =>
         tcpLog[i].number \in 1 .. m /\ Ahead(tcpLog[i])
  <2>1. \A i \in 1 .. l : tcpLog[i] \in Entries
    BY <1>12, ElementOfSeq DEF TcpInv, TcpTyped
  <2>. QED
    BY <2>1, <1>1, <1>12 DEF TcpInv, ShownInv, Entries, ShownSet, SentSet
<1>14. ShownInv'
  <2>1. ASSUME NEW i \in 1 .. l, tcpLog[i].what = "shown",
               NEW j \in 1 .. k + c, tcpStream'[j].part = 1
        PROVE  tcpLog[i].number < tcpStream'[j].number
    <3>1. CASE j <= k
      BY <2>1, <3>1, <1>2, <1>7, <1>8, <1>13 DEF Ahead
    <3>2. CASE ~(j <= k)
      BY <2>1, <3>2, <1>7, <1>13
    <3>. QED
      BY <3>1, <3>2
  <2>. QED
    BY <2>1, <1>3, <1>6, <1>11, <1>12, <1>13 DEF ShownInv, Ahead
<1>15. TcpTyped'
  BY <1>3, <1>6, <1>11 DEF TcpInv, TcpTyped, TcpStates
<1>16. TcpFollowsServer'
  <2>1. DOMAIN tcpLog = 1 .. l
    BY <1>12, LenProperties DEF TcpInv, TcpTyped
  <2>2. \A i \in 1 .. l : tcpLog[i].what = "shown" =>
          tcpServed'[tcpLog[i].number] = tcpServed[tcpLog[i].number]
    BY <1>3, <1>13
  <2>3. DOMAIN tcpServed = 1 .. m /\ DOMAIN tcpServed' = 1 .. m + 1
    BY <1>1, <1>3, LenProperties DEF TcpInv, TcpTyped
  <2>4. \A n \in 1 .. m : n \in 1 .. m + 1 /\ tcpServed'[n] = tcpServed[n]
    BY <1>3
  <2>. QED
    BY <2>1, <2>2, <2>3, <2>4, <1>11 DEF TcpInv, TcpFollowsServer
<1>17. StateInv'
  BY <1>11 DEF TcpInv, StateInv, Greeted, Quiet, Present, TcpRunning
<1>. QED
  BY <1>10, <1>14, <1>15, <1>16, <1>17 DEF TcpInv

-----------------------------------------------------------------------------
(* Reading *)

\* What a read leaves in the stream: the rest, in its order.
LEMMA RestIs ==
  ASSUME TcpInv, NEW k \in 1 .. Len(tcpStream),
         tcpStream' = SubSeq(tcpStream, k + 1, Len(tcpStream)), UNCHANGED tcpServed
  PROVE  /\ tcpStream' \in Seq(PieceSet)
         /\ \A j \in 1 .. Len(tcpStream') :
              j + k \in 2 .. Len(tcpStream) /\ tcpStream'[j] = tcpStream[j + k]
         /\ StreamInv'
<1>1. PICK n \in Nat : n = Len(tcpStream)
  BY LenProperties DEF TcpInv, TcpTyped
<1>2. \A i \in (k + 1) .. n : tcpStream[i] \in PieceSet
  <2>1. \A i \in (k + 1) .. n : i \in 1 .. Len(tcpStream)
    BY <1>1
  <2>. QED
    BY <2>1, ElementOfSeq DEF TcpInv, TcpTyped
<1>3. k + 1 \in Int /\ n \in Int
  BY <1>1
<1>4. /\ tcpStream' \in Seq(PieceSet)
      /\ Len(tcpStream') = IF k + 1 <= n THEN n - (k + 1) + 1 ELSE 0
      /\ \A i \in 1 .. n - (k + 1) + 1 : tcpStream'[i] = tcpStream[k + 1 + i - 1]
  BY <1>1, <1>2, <1>3, SubSeqProperties
<1>5. Len(tcpStream') = n - k
  BY <1>1, <1>4
<1>6. ASSUME NEW j \in 1 .. n - k
      PROVE  j + k \in 2 .. n /\ tcpStream'[j] = tcpStream[j + k]
  <2>1. j \in 1 .. n - (k + 1) + 1 /\ k + 1 + j - 1 = j + k
    BY <1>1
  <2>2. tcpStream'[j] = tcpStream[j + k]
    BY <2>1, <1>4
  <2>. QED
    BY <2>2, <1>1
<1>7. StreamInv'
  <2>1. \A j \in 1 .. n - k : tcpStream'[j].number <= Len(tcpServed)
    BY <1>1, <1>6 DEF TcpInv, StreamInv
  <2>2. ASSUME NEW i \in 1 .. n - k, NEW j \in 1 .. n - k, i < j
        PROVE  Before(tcpStream'[i], tcpStream'[j])
    <3>1. i + k \in 1 .. n /\ j + k \in 1 .. n /\ i + k < j + k
      BY <1>1, <2>2
    <3>. QED
      BY <3>1, <1>1, <1>6 DEF TcpInv, StreamInv
  <2>. QED
    BY <2>1, <2>2, <1>5 DEF StreamInv, Before
<1>. QED
  BY <1>1, <1>4, <1>5, <1>6, <1>7

\* decode_msg_tcp: what it recognises begins with the beginning of a message
\* of the server, and is of its kind.
LEMMA DecodedIs ==
  ASSUME TcpTyped, NEW k \in 1 .. Len(tcpStream),
         \A i \in 1 .. Len(tcpStream) : tcpStream[i].number <= Len(tcpServed)
  PROVE  LET read == SubSeq(tcpStream, 1, k)
             event == decode_msg_tcp(read)
         IN \/ event \in {"crash", "msg_error"}
            \/ /\ read[1] = tcpStream[1] /\ tcpStream[1].part = 1
               /\ tcpStream[1] \in PieceSet /\ tcpStream[1].number \in 1 .. Len(tcpServed)
               /\ event = tcpServed[tcpStream[1].number]
               /\ event \in TcpKinds
<1> DEFINE read == SubSeq(tcpStream, 1, k)
           event == decode_msg_tcp(read)
<1>1. Len(tcpStream) \in Nat /\ k \in Nat \ {0} /\ k <= Len(tcpStream)
  BY LenProperties DEF TcpTyped
<1>2. 1 \in 1 .. Len(tcpStream) /\ \A i \in 1 .. k : i \in 1 .. Len(tcpStream)
  BY <1>1
<1>3. tcpStream[1] \in PieceSet
  BY <1>2, ElementOfSeq DEF TcpTyped
<1>4. read[1] = tcpStream[1]
  <2>1. \A i \in 1 .. k : tcpStream[i] \in PieceSet
    BY <1>2, ElementOfSeq DEF TcpTyped
  <2>2. \A i \in 1 .. k - 1 + 1 : read[i] = tcpStream[1 + i - 1]
    BY <2>1, <1>1, SubSeqProperties
  <2>. QED
    BY <2>2, <1>1
<1>5. tcpStream[1].number \in 1 .. Len(tcpServed)
  BY <1>2, <1>3, LenProperties DEF TcpTyped, PieceSet
<1>6. tcpServed[tcpStream[1].number] \in TcpKinds
  BY <1>5, ElementOfSeq DEF TcpTyped
<1>7. event \notin {"crash", "msg_error"} =>
        tcpStream[1].part = 1 /\ event = tcpServed[tcpStream[1].number]
  BY <1>4 DEF decode_msg_tcp
<1>. QED
  BY <1>3, <1>4, <1>5, <1>6, <1>7

\* A beginning in front of the stream is behind all that was displayed and
\* before all other beginnings.
LEMMA ReadKeeps == TcpInv /\ ReadSocket => TcpInv'
<1> SUFFICES ASSUME TcpInv, ReadSocket PROVE TcpInv'
  OBVIOUS
<1>1. PICK k \in 1 .. Len(tcpStream) :
        LET read == SubSeq(tcpStream, 1, k)
        IN /\ Handle(read, decode_msg_tcp(read))
           /\ tcpStream' = SubSeq(tcpStream, k + 1, Len(tcpStream))
  BY DEF ReadSocket
<1> DEFINE read == SubSeq(tcpStream, 1, k)
           event == decode_msg_tcp(read)
           p == tcpStream[1]
<1>2. /\ tcpState \in {"Auth_State", "Open_State"} /\ UNCHANGED tcpServed
      /\ Handle(read, event)
  BY <1>1 DEF ReadSocket, Waits
<1>3. /\ tcpStream' \in Seq(PieceSet)
      /\ \A j \in 1 .. Len(tcpStream') :
           j + k \in 2 .. Len(tcpStream) /\ tcpStream'[j] = tcpStream[j + k]
      /\ StreamInv'
  BY <1>1, <1>2, RestIs
<1>4. /\ Quiet /\ TcpRunning
      /\ tcpState = "Open_State" => Greeted
  BY <1>2 DEF TcpInv, StateInv, TcpRunning, TcpStates
<1>5. \A j \in 1 .. Len(tcpStream') : \E i \in 1 .. Len(tcpStream) : tcpStream'[j] = tcpStream[i]
  <2>1. \A j \in 1 .. Len(tcpStream') : j + k \in 1 .. Len(tcpStream)
    BY <1>3
  <2>. QED
    BY <2>1, <1>3
<1>6. ASSUME UNCHANGED tcpLog, tcpState' = tcpState \/ tcpState' \in {"crashed", "killed"}
      PROVE  TcpInv'
  <2>1. TcpTyped'
    BY <1>2, <1>3, <1>6 DEF TcpInv, TcpTyped, TcpEnds
  <2>. QED
    BY <2>1, <1>2, <1>3, <1>5, <1>6, SilentKeeps DEF TcpEnds
<1>7. CASE event = "crash"
  BY <1>2, <1>6, <1>7 DEF Handle, Silently
<1>8. CASE event = "msg_error"
  <2>1. SendTo("err", "Error_State")
    BY <1>2, <1>8 DEF Handle
  <2>2. CASE TcpLogged(Sent("err")) /\ tcpState' = "Error_State"
    <3>1. Sent("err") \in Entries
      BY DEF Sent, Entries, SentSet
    <3>2. TcpTyped'
      BY <2>2, <3>1, <1>2, <1>3, Logging DEF TcpInv, TcpTyped, TcpStates
    <3>. QED
      BY <2>2, <3>1, <3>2, <1>2, <1>3, <1>4, <1>5, EntryKeeps DEF Sent
  <2>. QED
    BY <2>1, <2>2, <1>6 DEF SendTo, Silently
<1>9. CASE event \notin {"crash", "msg_error"}
  <2>1. /\ read[1] = p /\ p.part = 1 /\ p \in PieceSet /\ p.number \in 1 .. Len(tcpServed)
        /\ event = tcpServed[p.number] /\ event \in TcpKinds
    BY <1>9, DecodedIs DEF TcpInv, StreamInv
  <2>6. 1 \in 1 .. Len(tcpStream) /\ Len(tcpStream) \in Nat
    BY LenProperties DEF TcpInv, TcpTyped
  <2>7. \A i \in 1 .. Len(tcpLog) : tcpLog[i].what = "shown" => tcpLog[i].number < p.number
    BY <2>1, <2>6 DEF TcpInv, ShownInv, Ahead
  <2>10. CASE event = "bye"
    <3>1. Silently("finished")
      BY <1>2, <2>10 DEF Handle
    <3>2. Dismissed
      BY <2>1, <2>7, <2>10 DEF Dismissed
    <3>3. TcpTyped'
      BY <1>2, <1>3, <3>1 DEF TcpInv, TcpTyped, TcpEnds, Silently
    <3>. QED
      BY <1>2, <1>3, <1>5, <3>1, <3>2, <3>3, SilentKeeps DEF TcpEnds, Silently
  <2>11. CASE event # "bye"
    <3> DEFINE e == Shown(event, p.number)
    <3>2. TcpLogged(e) /\ tcpState' = StateAfter(event)
      BY <1>2, <1>9, <2>1, <2>11 DEF Handle
    <3>3. e \in Entries /\ e.what = "shown" /\ e.kind = event /\ e.number = p.number
      BY <2>1 DEF Shown, Entries, ShownSet, PieceSet
    <3>4. /\ tcpState' \in {"Auth_State", "Open_State", "Error_State"}
          /\ tcpState' = "Open_State" => tcpState = "Open_State" \/ event = "reply_ok"
          /\ tcpState' \in {"Auth_State", "Open_State"} => event # "err"
      BY <1>2, <3>2 DEF StateAfter
    <3>5. TcpTyped'
      BY <3>2, <3>3, <3>4, <1>2, <1>3, Logging DEF TcpInv, TcpTyped, TcpStates
    <3>8. ASSUME NEW j \in 1 .. Len(tcpStream'), tcpStream'[j].part = 1
          PROVE  p.number < tcpStream'[j].number
      <4>1. j + k \in 1 .. Len(tcpStream) /\ 1 < j + k /\ tcpStream'[j] = tcpStream[j + k]
        BY <1>3, <2>6
      <4>2. Before(p, tcpStream[j + k])
        BY <4>1, <2>6 DEF TcpInv, StreamInv
      <4>. QED
        BY <4>1, <4>2, <2>1, <3>8 DEF Before
    <3>9. p.number <= Len(tcpServed)
      BY <2>1
    <3> HIDE DEF event, p, e, read
    <3>. QED
      BY <2>1, <3>2, <3>3, <3>4, <3>5, <2>7, <3>8, <3>9, <2>11, <1>2, <1>3, <1>4, <1>5,
         EntryKeeps
  <2>. QED
    BY <2>10, <2>11
<1>. QED
  BY <1>7, <1>8, <1>9

-----------------------------------------------------------------------------
LEMMA TcpInit == ChatTcpInit => TcpInv
<1> SUFFICES ASSUME ChatTcpInit PROVE TcpInv
  OBVIOUS
<1>1. TcpTyped
  BY EmptySeq DEF ChatTcpInit, TcpTyped, TcpStates
<1>2. Len(tcpLog) = 0 /\ Len(tcpStream) = 0 /\ DOMAIN tcpLog = {}
  BY DEF ChatTcpInit
<1>. QED
  BY <1>1, <1>2 DEF TcpInv, StreamInv, ShownInv, StateInv, Quiet, Present, TcpFollowsServer,
                    ChatTcpInit

\* A step that leaves log and stream alone, and at most ends the program.
LEMMA IdleKeeps ==
  ASSUME TcpInv, UNCHANGED <<tcpLog, tcpStream, tcpServed>>,
         tcpState' = tcpState \/ tcpState' \in TcpEnds \ {"finished"}
  PROVE  TcpInv'
<1>1. TcpTyped' /\ StreamInv'
  BY DEF TcpInv, TcpTyped, StreamInv, Before
<1>. QED
  BY <1>1, SilentKeeps DEF TcpEnds

\* A message that goes out, after which the client is where it was or has left.
LEMMA SentKeeps ==
  ASSUME TcpInv, UNCHANGED <<tcpStream, tcpServed>>, TcpRunning,
         NEW kind \in {"auth", "join", "msg", "bye"}, TcpLogged(Sent(kind)),
         \/ kind = "bye" /\ tcpState' = "left"
         \/ /\ kind # "bye" /\ tcpState' = tcpState
            /\ tcpState = "Open_State" \/ (tcpState = "Auth_State" /\ kind = "auth")
  PROVE  TcpInv'
<1>1. /\ Sent(kind) \in Entries /\ Sent(kind).what = "sent" /\ Sent(kind).kind = kind
  BY DEF Sent, Entries, SentSet
<1>2. TcpTyped' /\ StreamInv'
  BY <1>1, Logging DEF TcpInv, TcpTyped, StreamInv, Before, TcpEnds
<1>3. /\ tcpState \in {"Auth_State", "Open_State"} => Quiet
      /\ tcpState = "Open_State" => Greeted
      /\ tcpState' # "finished"
  BY DEF TcpInv, StateInv, TcpRunning, TcpStates
<1>. QED
  BY <1>1, <1>2, <1>3, EntryKeeps DEF TcpStates

\* All actions together.
LEMMA TcpStep == TcpInv /\ [ChatTcpNext]_tcpVars => TcpInv'
<1> SUFFICES ASSUME TcpInv, [ChatTcpNext]_tcpVars PROVE TcpInv'
  OBVIOUS
<1>1. CASE UNCHANGED tcpVars
  BY <1>1, IdleKeeps DEF tcpVars
<1>2. ASSUME NEW kind \in TcpKinds, ServerSends(kind) PROVE TcpInv'
  BY <1>2, ServerKeeps
<1>3. CASE ServerCloses
  BY <1>3, IdleKeeps DEF ServerCloses
<1>4. CASE ReadNothing
  <2>1. decode_msg_tcp(<<>>) = "crash"
    BY DEF decode_msg_tcp, Blank
  <2>2. Handle(<<>>, "crash") => Silently("crashed")
    BY DEF Handle
  <2>. QED
    BY <1>4, <2>1, <2>2, IdleKeeps DEF ReadNothing, Silently, TcpEnds
<1>5. CASE ReadSocket
  BY <1>5, ReadKeeps
<1>6. CASE sigint_handler
  BY <1>6, IdleKeeps, SentKeeps DEF sigint_handler, Silently, TcpEnds
<1>7. ASSUME NEW line \in LineKinds, TypeLine(line) PROVE TcpInv'
  <2>1. /\ tcpState \in {"Auth_State", "Open_State"}
        /\ UNCHANGED <<tcpStream, tcpServed>>
    BY <1>7 DEF TypeLine, Waits
  <2>2. CASE Takes(line) /\ TcpLogged(Sent(line)) /\ tcpState' = tcpState
    <3>1. /\ tcpState = "Open_State" \/ (tcpState = "Auth_State" /\ line = "auth")
          /\ line \in {"auth", "join", "msg"}
      BY <2>1, <2>2 DEF Takes
    <3>2. TcpRunning
      BY <2>1 DEF TcpRunning, TcpStates
    <3>. QED
      BY <2>1, <2>2, <3>1, <3>2, SentKeeps
  <2>3. CASE Silently(tcpState) \/ Silently("killed")
    BY <2>1, <2>3, IdleKeeps DEF Silently, TcpEnds
  <2>. QED
    BY <1>7, <2>2, <2>3 DEF TypeLine, SendTo
<1>. QED
  BY <1>1, <1>2, <1>3, <1>4, <1>5, <1>6, <1>7 DEF ChatTcpNext

\* However the stream is cut, what the client displays and sends follows what
\* the server sent: main, decode_msg_tcp and input_parse_tcp over the stream.
THEOREM ClientFollowsServer == ChatTcpSpec => []TcpFollowsServer
<1>1. TcpInv => TcpFollowsServer
  BY DEF TcpInv
<1>. QED
  BY <1>1, TcpInit, TcpStep, PTL DEF ChatTcpSpec

=============================================================================
