-------------------------- MODULE GenericTcpServer --------------------------
(***************************************************************************)
(* src/code/net/GenericTCPServer.c over the socket of Tcp: a server that   *)
(* sends back, in upper case, what it receives, and closes the connection  *)
(* after an escape.  A character and its capital are one byte here.  Each  *)
(* pass of the main loop calls TCPTick, receives segments and calls the    *)
(* server; any order of these is allowed.                                   *)
(***************************************************************************)
EXTENDS Tcp

CONSTANT Escape   \* the place of the escape in what the remote node sends

ASSUME EscapeAssumption == Escape \in Nat

VARIABLE
  server          \* TCPServerState

allVars == <<vars, server>>

Chunk(t) == Slice(t.rxFifo, RxRing, t.rxTail, t.rxTail + Lesser(IsGetReady(t), IsPutReady(t)))

IsEscape(b) == b[2] = Escape

\* SM_LISTENING.  TCPIsConnected means ESTABLISHED.  The FIFOs are smaller
\* than the buffer of the server, so that there is one chunk; one with an
\* escape is still echoed.
Echo(t) ==
  IF t.sm # "ESTABLISHED" \/ Chunk(t) = <<>> THEN t
  ELSE TCPPutArray(TCPGetArray(t, Len(Chunk(t))), Chunk(t))

SawEscape(t) ==
  t.sm = "ESTABLISHED" /\ \E i \in 1 .. Len(Chunk(t)) : IsEscape(Chunk(t)[i])

\* One call of the server: the socket and the state after it.
GenericTCPServer(t) ==
  CASE server = "SM_HOME" ->
         IF t.sm = "CLOSED" THEN <<TCPOpen(t), "SM_LISTENING">> ELSE <<t, server>>
    [] server = "SM_LISTENING" ->
         <<Echo(t), IF SawEscape(t) THEN "SM_CLOSING" ELSE server>>
    [] server = "SM_CLOSING" -> <<TCPClose(t), "SM_HOME">>

\* What is sent goes on its way at the end of a pass, or is lost.
Settle(t) ==
  /\ s' = [t EXCEPT !.out = {}, !.done = FALSE]
  /\ \E sent \in SUBSET t.out :
       /\ sent = {} \/ (~gone /\ Cardinality(toPeer \cup sent) <= MaxOut)
       /\ toPeer' = toPeer \cup sent

\* What the receive loop of StackTask does with what has arrived: a segment is
\* processed unless it is too old.
TakeReceived(t, received) ==
  LET heard == {h \in received : InTime(t, h)}
  IN IF heard = {} THEN t ELSE TCPProcess(t, CHOOSE h \in heard : TRUE)

\* One pass of the main loop: TCPTick, at most one received segment, and the
\* server.
PassWith(due) ==
  \E received \in {{}} \cup {{h} : h \in toDevice} :
    LET after == GenericTCPServer(TakeReceived(TCPTick(s, due), received))
    IN /\ Settle(after[1])
       /\ server' = after[2]
       /\ toDevice' = toDevice \ received
       /\ UNCHANGED <<peer, gone>>

\* Timers are due one at a time.
TimerPass(timer) == timer \in Running(s) /\ PassWith({timer})

Pass == PassWith({}) \/ \E timer \in Timers : TimerPass(timer)

Init ==
  /\ s = ClosedSocket(FALSE, 0)
  /\ toDevice = {} /\ toPeer = {}
  /\ peer = NoPeer /\ gone = FALSE
  /\ server = "SM_HOME"

Next == Pass \/ (Remote /\ UNCHANGED server)

Spec == Init /\ [][Next]_allVars

-----------------------------------------------------------------------------
\* Each field of the socket has its type, the pointers stand in their order,
\* and neither FIFO holds more than it can, the bytes kept behind a hole among
\* it: what TCPProcess, the timers and
\* the server do to one record agrees.
TypeOK ==
  /\ s.sm \in States
  /\ 0 <= s.txTail /\ s.txTail <= s.txUnacked /\ s.txUnacked <= s.txHead
  /\ s.txHead <= s.txTail + TxRing - 1
  /\ 0 <= s.rxTail /\ s.rxTail <= s.rxHead /\ s.rxHead <= s.rxTail + RxRing - 1
  /\ s.window \in 0 .. Word - 1 /\ s.noneAcked \in 0 .. 2
  /\ s.retries \in 0 .. Greater(MaxRetries, SynRetries) /\ s.keepalives \in 0 .. Keepalives
  /\ IF s.hole = -1 THEN s.future = 0
     ELSE s.hole > 0 /\ s.future > 0 /\ s.hole + s.future <= RxFree(s)
  /\ Len(s.synQueue) <= SynQueueSize

\* The remote node gets back exactly what it sent, from the first byte on,
\* whatever segments were lost, repeated or overtaken and however the window
\* cut them: the FIFOs of TCP.c and their pointers make one stream.
EchoInOrder == \A i \in 1 .. Len(peer.got) : peer.got[i] = Byte(peer.port, i)

\* The socket and the remote node are two ends of one connection.
SameConnection ==
  peer.st = "established" /\ s.port = peer.port /\ s.synSent /\ peer.rcv \div Far = s.iss \div Far

\* A FIN reaches the remote node behind the last byte that the server has
\* written, never instead of one that waits in the FIFO for the window.
FinMeansAll == SameConnection /\ peer.finRcvd => Len(peer.got) = s.txHead

\* A byte leaves the transmit FIFO only when the remote node has got it: no
\* acknowledgment that is late, repeated or of the FIN makes DropAcked lose
\* one that may have to be sent again.
DroppedWasReceived == SameConnection => s.txTail <= Len(peer.got)

\* MySEQ and RemoteSEQ, which are kept beside the FIFO pointers through roll
\* backs, retransmissions and filled holes, never drift from them.
NumbersFollowPointers == SameConnection /\ s.sm # "SYN_RECEIVED" =>
  /\ s.mySeq = s.iss + 1 + s.txUnacked
  /\ s.remoteSeq - 1 - s.rxHead \in {0, 1}

\* Where the code can wait for good: nothing of the socket is under way and
\* what waits in it, bytes or a FIN, meets a closed window, which no timer
\* asks about and no retry is counted for; or a second FIN with a byte missing
\* before it has ended the timer of FIN_WAIT_2 (TCP.c:3944).
ZeroWindow ==
  /\ s.sm \in Open \cup Leaving
  /\ s.window = 0 /\ s.txTail = s.txUnacked /\ (Unsent(s) > 0 \/ s.txFin)

Hung == ZeroWindow \/ (s.sm = "FIN_WAIT_2" /\ ~s.timer)

\* In every other state of a connection some timer runs or a segment is about
\* to be sent: the socket cannot be lost to a remote node that is silent, with
\* bytes or a FIN under way or with nothing to say.
NotForgotten ==
  s.sm \in States \ {"CLOSED", "LISTEN"} /\ ~Hung
    => Running(s) # {} \/ s.asap \/ s.asapKeepTimer
=============================================================================
