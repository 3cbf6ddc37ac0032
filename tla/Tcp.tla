-------------------------------- MODULE Tcp --------------------------------
(***************************************************************************)
(* One server socket of src/code/net/TCP.c, the network, and the remote    *)
(* nodes that connect to it.                                               *)
(*                                                                         *)
(* The socket is a record, and each function of TCP.c that changes it an   *)
(* operator from the record to the record; "out" collects what SendTCP     *)
(* transmits until the step ends.  A circular pointer of the code is a     *)
(* position here, counted from the start of the connection; the FIFOs      *)
(* themselves are rings, so that a wrong position reads a wrong byte.  A   *)
(* timer that runs may be due at any call of TCPTick.  All the sockets of  *)
(* this program are servers, so the states of a client (SYN_SENT, ARP, DNS) *)
(* and CLOSED_BUT_RESERVED cannot be reached and are left out, as are       *)
(* urgent data and checksums; the network loses what they would reject.     *)
(***************************************************************************)
EXTENDS Integers, Sequences, FiniteSets

CONSTANTS
  TxRing,        \* bytes of the transmit FIFO; one is never used
  RxRing,        \* bytes of the receive FIFO; one is never used
  Mss,           \* wRemoteMSS, and what the remote node sends at most
  MaxRetries,    \* TCP_MAX_RETRIES: 5
  SynRetries,    \* TCP_MAX_SYN_RETRIES: 2
  Keepalives,    \* TCP_MAX_UNACKED_KEEP_ALIVES: 6
  SynQueueSize,  \* TCP_SYN_QUEUE_MAX_ENTRIES: 3
  Word,          \* values of a WORD: 2^16
  Script,        \* bytes a remote node has to send
  PeerRoom,      \* the receive buffer of the remote node
  Departures,    \* how a remote node may end: "close", "abort", "vanish"
  MaxPort,       \* bound on connections, one after the other
  MaxIn,         \* bound on the segments under way to the device
  MaxOut         \* bound on the segments under way from it

ASSUME TcpAssumption ==
  /\ {TxRing, RxRing} \subseteq Nat \ {0, 1} /\ Mss \in Nat \ {0}
  /\ {MaxRetries, SynRetries, Keepalives, SynQueueSize} \subseteq Nat
  /\ Word \in Nat /\ Word % 2 = 0 /\ Word > TxRing + PeerRoom
  /\ Word \div 2 > Mss + 1 /\ Word \div 2 >= RxRing /\ Script \in Nat
  /\ Departures \subseteq {"close", "abort", "vanish"}
  /\ PeerRoom \in Nat \ {0} /\ MaxPort \in Nat \ {0} /\ {MaxIn, MaxOut} \subseteq Nat \ {0}

VARIABLES
  s,             \* the socket: MyTCBStub and MyTCB, and SYNQueue
  toDevice,      \* segments under way to the socket
  toPeer,        \* segments under way to the remote node
  peer,          \* the remote node's end of its newest connection
  gone           \* the remote node has left for good

vars == <<s, toDevice, toPeer, peer, gone>>

Lesser(a, b) == IF a < b THEN a ELSE b
Greater(a, b) == IF a > b THEN a ELSE b

\* The byte at a place of what the remote node with this port sends.
Byte(port, place) == <<port, place>>
Junk == <<0, 0>>

-----------------------------------------------------------------------------
(* The socket. *)

Open == {"ESTABLISHED", "CLOSE_WAIT"}
Leaving == {"FIN_WAIT_1", "FIN_WAIT_2", "CLOSING", "LAST_ACK"}
States == {"CLOSED", "LISTEN", "SYN_RECEIVED"} \cup Open \cup Leaving

\* MySEQ starts anew at random: at a number so far from everything that is
\* still known of earlier connections that no number of one connection, the
\* window of the remote node added, is a number of another.
Far == Script + PeerRoom + 3
FreshSeq(t) ==
  LET known == {n \div Far : n \in {t.iss, peer.rcv} \cup {m.seq : m \in toPeer \cup t.out}
                                                    \cup {h.ack : h \in toDevice}}
  IN Far * (CHOOSE k \in 0 .. Cardinality(known) : k \notin known)

ClosedSocket(server, iss) ==
  [sm |-> IF server THEN "LISTEN" ELSE "CLOSED", bServer |-> server, port |-> 0,
   iss |-> iss, mySeq |-> iss, remoteSeq |-> 0, window |-> 1,
   txTail |-> 0, txUnacked |-> 0, txHead |-> 0,
   txFifo |-> [i \in 0 .. TxRing - 1 |-> Junk],
   rxTail |-> 0, rxHead |-> 0, hole |-> -1, future |-> 0,
   rxFifo |-> [i \in 0 .. RxRing - 1 |-> Junk],
   retries |-> 0, timer |-> FALSE, timer2 |-> FALSE, delayedAck |-> FALSE,
   asap |-> FALSE, asapKeepTimer |-> FALSE, halfFull |-> FALSE,
   txFin |-> FALSE, finSent |-> FALSE, synSent |-> FALSE,
   noneAcked |-> 0, keepalives |-> 0, synQueue |-> <<>>, out |-> {}, done |-> FALSE]

\* The port is unbound and every pointer, flag and timer starts anew.
CloseSocket(t) ==
  LET iss == IF t.synSent THEN FreshSeq(t) ELSE t.iss
  IN [ClosedSocket(t.bServer, iss) EXCEPT
        !.synQueue = t.synQueue, !.out = t.out, !.done = TRUE]

RxFree(t) == RxRing - 1 - (t.rxHead - t.rxTail)
Unsent(t) == t.txHead - t.txUnacked

\* The bytes of a FIFO from one position up to another.
Slice(fifo, ring, from, to) == [i \in 1 .. to - from |-> fifo[(from + i - 1) % ring]]

\* The places of a FIFO from one position up to another hold nothing any more.
Cleared(fifo, ring, from, to) ==
  [k \in 0 .. ring - 1 |-> IF \E i \in from .. to - 1 : i % ring = k THEN Junk ELSE fifo[k]]

\* Writes bytes into a FIFO at a position.
Written(fifo, ring, at, bytes) ==
  [k \in 0 .. ring - 1 |->
     IF \E i \in 1 .. Len(bytes) : (at + i - 1) % ring = k
     THEN bytes[CHOOSE i \in 1 .. Len(bytes) : (at + i - 1) % ring = k]
     ELSE fifo[k]]

\* Mutant: the FIN goes out with whatever segment comes first.
FinFitsAlways(t, len) == TRUE

\* The FIN waits while the window or the segment is full.
FinFits(t, len) == len # t.window /\ len # Mss

\* What the remote node has to acknowledge starts the retransmission timer.
AsksForAnswer(flags, len, fin) == len > 0 \/ "syn" \in flags \/ fin

\* SendTCP.  "mode" is "reset" with SENDTCP_RESET_TIMERS, "probe" with
\* SENDTCP_KEEP_ALIVE.  The FIN sticks until it is sent; MySEQ does not count
\* it.  A segment that asks for no answer does not start the timer, and one
\* that had nothing to repeat does not count as a retry.
SendTCP(t, flags, mode) ==
  LET bare == flags \cap {"syn", "rst"} # {}
      txFin == t.txFin \/ "fin" \in flags
      sendable == Lesser(Unsent(t), t.window)
      len == IF bare THEN 0 ELSE Lesser(sendable, Mss)
      fin == ~bare /\ txFin /\ FinFits(t, len)
      counts == AsksForAnswer(flags, len, fin)
      probe == ~counts /\ mode = "probe"
      back == probe \/ ("syn" \in flags /\ t.synSent)
      header == [port |-> t.port, flags |-> (flags \ {"fin"}) \cup (IF fin THEN {"fin"} ELSE {}),
                 seq |-> IF back THEN t.mySeq - 1 ELSE t.mySeq,
                 data |-> IF probe THEN <<Junk>>
                          ELSE Slice(t.txFifo, TxRing, t.txUnacked, t.txUnacked + len),
                 ack |-> t.remoteSeq]
  IN [t EXCEPT
        !.out = @ \cup {header},
        !.txFin = txFin, !.finSent = @ \/ fin,
        !.timer2 = FALSE, !.delayedAck = FALSE, !.asap = FALSE, !.halfFull = FALSE,
        !.asapKeepTimer = ~bare /\ sendable > Mss,
        !.txUnacked = @ + len, !.window = @ - len,
        !.mySeq = @ + len + (IF "syn" \in flags /\ ~t.synSent THEN 1 ELSE 0),
        !.synSent = @ \/ "syn" \in flags,
        !.timer = @ \/ counts,
        !.retries = IF counts THEN IF mode = "reset" THEN 0 ELSE @
                    ELSE IF ~probe /\ t.timer /\ mode = "none" /\ @ > 0 THEN @ - 1 ELSE @,
        !.keepalives = IF probe THEN @ + 1 ELSE @]

\* A RST that claims to be the answer to h; MySEQ is put back behind it.
Refuse(t, h, mode) ==
  [SendTCP([t EXCEPT !.mySeq = h.ack], {"rst"}, mode) EXCEPT !.mySeq = t.mySeq]

-----------------------------------------------------------------------------
(* HandleTCPSeg, for a segment h that FindMatchingSocket gave to t. *)

SegmentLength(h) == h.len + (IF h.fin THEN 1 ELSE 0) + (IF h.kind = "syn" THEN 1 ELSE 0)

\* Bytes missing between what was received in order and the segment; below
\* zero it repeats some.
Missing(t, h) == h.seq - t.remoteSeq

\* An integer cut to a WORD and read as a SHORT.
Short(n) == ((n + Word \div 2) % Word) - Word \div 2

\* wMissingBytes: what is left of Missing in a WORD.
MissingWord(t, h) == Short(Missing(t, h))

\* The segment begins within the window.
Ahead(t, h) == Missing(t, h) >= 0 /\ RxFree(t) > Missing(t, h)

\* The three tests of the code for a segment with a length.  The last one
\* takes a segment that is older than half of a WORD for a new one.
Acceptable(t, h) ==
  LET length == SegmentLength(h)
      ends == Missing(t, h) + length > 0 /\ Missing(t, h) <= Short(RxFree(t) - length)
      overlaps == Missing(t, h) < RxFree(t) /\ MissingWord(t, h) + Short(length) > 0
  IN IF length > 0 THEN RxFree(t) > 0 /\ (Ahead(t, h) \/ ends \/ overlaps)
     ELSE Missing(t, h) = 0 \/ Ahead(t, h)

\* A listening socket; a RST or anything unexpected unbinds it again.
ListenSegment(t, h) ==
  CASE h.kind = "syn" ->
         [SendTCP([t EXCEPT !.remoteSeq = h.seq + 1], {"syn", "ack"}, "reset")
            EXCEPT !.sm = "SYN_RECEIVED"]
    [] h.kind = "ack" -> CloseSocket(Refuse(t, h, "none"))
    [] OTHER -> CloseSocket(t)

\* What the acknowledgment says of the FIFO, with the FIN not counted.
Acked(t, ack) == ack - (t.mySeq - (t.txUnacked - t.txTail))

\* Bytes that were acknowledged leave the FIFO, also those that a roll back
\* has marked as not sent.
DropAcked(t, ack) ==
  LET tail == t.txTail + Acked(t, ack)
  IN [t EXCEPT !.noneAcked = 0, !.halfFull = FALSE, !.txTail = tail,
               !.txFifo = Cleared(@, TxRing, t.txTail, tail),
               !.mySeq = @ + Greater(tail - t.txUnacked, 0),
               !.txUnacked = Greater(@, tail)]

\* Mutant: a roll back leaves MySEQ as it is.
RollBackKeepsSeq(t) == [t EXCEPT !.txUnacked = t.txTail]

\* Everything that was sent and not acknowledged is to be sent again.
RollBack(t) ==
  [t EXCEPT !.mySeq = @ - (t.txUnacked - t.txTail), !.txUnacked = t.txTail]

\* Three segments that acknowledge nothing: a fast retransmission.
NoneAcked(t) ==
  IF t.txTail = t.txUnacked THEN t
  ELSE [IF t.noneAcked = 2 THEN [RollBack(t) EXCEPT !.asapKeepTimer = TRUE] ELSE t
          EXCEPT !.noneAcked = Lesser(@ + 1, 2)]

\* The timer ends with the last acknowledgment; the FIN is dropped if it was
\* sent and all before it is acknowledged.
StopTimer(t, ack) ==
  IF t.txTail # t.txHead THEN t
  ELSE IF ~t.txFin THEN [t EXCEPT !.timer = FALSE]
  ELSE IF t.mySeq = ack /\ t.finSent THEN [t EXCEPT !.timer = FALSE, !.txFin = FALSE]
  ELSE t

\* The window in the segment, less what is under way, in a WORD.
NewWindow(t, h, ack) == (h.window - (t.mySeq - ack)) % Word

\* Mutant: a window that opens is no reason to send.
TakeWindowLazy(t, h, ack) == [t EXCEPT !.window = NewWindow(t, h, ack)]

TakeWindow(t, h, ack) ==
  [t EXCEPT !.window = NewWindow(t, h, ack),
            !.asap = @ \/ (t.window = 0 /\ NewWindow(t, h, ack) # 0)]

\* What the states after our FIN make of the acknowledgment.
AfterFin(t, h, ack) ==
  CASE t.sm = "FIN_WAIT_1" /\ t.mySeq = ack /\ t.finSent ->
         [t EXCEPT !.sm = "FIN_WAIT_2", !.timer = TRUE]
    [] t.sm = "FIN_WAIT_2" /\ ~h.fin ->
         CloseSocket(SendTCP([t EXCEPT !.mySeq = ack], {"rst", "ack"}, "none"))
    [] t.sm = "CLOSING" -> IF t.mySeq = ack THEN CloseSocket(t) ELSE [t EXCEPT !.done = TRUE]
    [] OTHER -> t

\* Mutant: the FIN is taken for a byte of data.
AckOfFin(t, h) == h.ack

\* How far the acknowledgment is beyond everything there is to send, and the
\* acknowledgment without the FIN, which MySEQ does not count.
Beyond(t, h) == h.ack - (t.mySeq + Unsent(t))
AckOfData(t, h) == IF Beyond(t, h) = 1 THEN h.ack - 1 ELSE h.ack

\* The acknowledgment of a segment, for a socket that is connected.
AckSegment(t, h) ==
  IF Beyond(t, h) > 0 /\ (~t.finSent \/ Beyond(t, h) # 1)
  THEN [SendTCP(t, {"ack"}, "none") EXCEPT !.done = TRUE]
  ELSE LET ack == AckOfData(t, h)
           a == IF Acked(t, ack) > 0 THEN DropAcked(t, ack) ELSE NoneAcked(t)
       IN AfterFin(TakeWindow(StopTimer(a, ack), h, ack), h, ack)

\* The bytes of a segment.
Payload(h) == [i \in 1 .. h.len |-> Byte(h.port, h.seq + i - 1)]

\* Mutant: RemoteSEQ is not moved over the bytes behind a filled hole.
FillHoleKeepsSeq(t, len) ==
  LET hole == t.hole - len
      more == t.future + hole
  IN IF t.hole = -1 THEN t
     ELSE IF more < 0 THEN [t EXCEPT !.hole = -1, !.future = 0]
     ELSE IF hole > 0 THEN [t EXCEPT !.hole = hole]
     ELSE [t EXCEPT !.hole = -1, !.future = 0, !.rxHead = @ + more]

\* After len more bytes in order: if they reach the bytes kept behind the
\* hole, those count too; if they go beyond, there is nothing left of them.
FillHole(t, len) ==
  LET hole == t.hole - len
      more == t.future + hole
  IN IF t.hole = -1 THEN t
     ELSE IF more < 0 THEN [t EXCEPT !.hole = -1, !.future = 0]
     ELSE IF hole > 0 THEN [t EXCEPT !.hole = hole]
     ELSE [t EXCEPT !.hole = -1, !.future = 0, !.remoteSeq = @ + more, !.rxHead = @ + more]

\* The next bytes in order, as many as fit.
StoreNext(t, h) ==
  LET old == - MissingWord(t, h)
      len == Lesser(h.len - old, RxFree(t))
      bytes == SubSeq(Payload(h), old + 1, old + len)
  IN FillHole([t EXCEPT !.rxFifo = Written(@, RxRing, t.rxHead, bytes),
                        !.remoteSeq = @ + len, !.rxHead = @ + len], len)

\* Bytes behind a hole.  One range of them is kept: a new one is joined with
\* it where they touch, takes its place if it is nearer, and is forgotten if
\* it is farther.
StoreFuture(t, h) ==
  LET at == MissingWord(t, h)
      len == Lesser(h.len, RxFree(t) - at)
      end == at + len
      oldEnd == t.hole + t.future
      u == [t EXCEPT !.rxFifo = Written(@, RxRing, t.rxHead + at, SubSeq(Payload(h), 1, len))]
  IN IF t.hole = -1 THEN [u EXCEPT !.hole = at, !.future = len]
     ELSE IF at < t.hole
     THEN [u EXCEPT !.hole = at,
                    !.future = IF end > oldEnd \/ end < t.hole THEN len ELSE oldEnd - at]
     ELSE IF end > oldEnd /\ at <= oldEnd THEN [u EXCEPT !.future = end - t.hole]
     ELSE u

StoreData(t, h) ==
  IF h.len = 0 THEN t
  ELSE IF MissingWord(t, h) <= 0 THEN StoreNext(t, h) ELSE StoreFuture(t, h)

Discarded(t) ==
  [t EXCEPT !.rxTail = t.rxHead, !.rxFifo = Cleared(@, RxRing, t.rxTail, t.rxHead)]

\* Nobody reads a socket that is not ESTABLISHED, so its data is dropped.
\* Every second segment is answered at once, the others a little later.
AnswerData(t, h) ==
  LET u == IF t.sm # "ESTABLISHED" THEN Discarded(t) ELSE t
  IN IF SegmentLength(h) = 0 THEN t
     ELSE IF t.delayedAck THEN SendTCP(u, {"ack"}, "reset")
     ELSE [u EXCEPT !.delayedAck = TRUE]

\* A FIN with nothing missing before it.
FinSegment(t, h) ==
  LET ack == AckOfData(t, h)
      u == [t EXCEPT !.remoteSeq = @ + 1]
      Acknowledge(v) == SendTCP(v, {"ack"}, "reset")
      Last(v) == CloseSocket(SendTCP(v, {"ack"}, "none"))
  IN IF ~h.fin \/ t.remoteSeq + 1 # h.seq + SegmentLength(h) THEN t
     ELSE CASE t.sm = "ESTABLISHED" -> Acknowledge([u EXCEPT !.sm = "CLOSE_WAIT"])
            [] t.sm = "FIN_WAIT_1" /\ t.mySeq = ack -> Last(u)
            [] t.sm = "FIN_WAIT_1" /\ t.mySeq # ack -> Acknowledge([u EXCEPT !.sm = "CLOSING"])
            [] t.sm = "FIN_WAIT_2" -> Last(u)
            [] OTHER -> Acknowledge(u)

\* Data and FIN; a remote node that has sent its FIN has no more of them.
DataSegment(t, h) ==
  IF t.done \/ t.sm \in {"CLOSE_WAIT", "CLOSING", "LAST_ACK"} THEN t
  ELSE FinSegment(AnswerData(StoreData(t, h), h), h)

HandleTCPSeg(t0, h) ==
  LET t == [t0 EXCEPT !.keepalives = 0]
  IN CASE t.sm = "LISTEN" -> ListenSegment(t, h)
       [] t.sm # "LISTEN" /\ ~Acceptable(t, h) ->
            IF h.kind = "rst" THEN t ELSE SendTCP(t, {"ack"}, "reset")
       [] OTHER ->
            IF h.kind \in {"rst", "syn"} THEN CloseSocket(t)
            ELSE IF t.sm = "SYN_RECEIVED" /\ h.ack # t.mySeq THEN Refuse(t, h, "reset")
            ELSE IF t.sm = "LAST_ACK"
            THEN IF h.ack = t.mySeq + 1 THEN CloseSocket(t) ELSE t
            ELSE DataSegment(AckSegment([t EXCEPT !.sm = IF @ = "SYN_RECEIVED" THEN "ESTABLISHED" ELSE @], h), h)

-----------------------------------------------------------------------------
(* FindMatchingSocket. *)

\* The segments of the connection, and any that meet the socket listening;
\* these bind it to their sender.
Matches(t, h) == t.sm = "LISTEN" \/ (t.sm # "CLOSED" /\ t.port = h.port)

\* Others are dropped, but a SYN for a server's port is kept for later.
QueueSyn(t, h) ==
  IF /\ h.kind = "syn" /\ t.bServer
     /\ Len(t.synQueue) < SynQueueSize
     /\ \A i \in 1 .. Len(t.synQueue) : t.synQueue[i].port # h.port
  THEN [t EXCEPT !.synQueue = Append(@, [port |-> h.port, seq |-> h.seq])] ELSE t

TCPProcess(t, h) ==
  IF Matches(t, h) THEN [HandleTCPSeg([t EXCEPT !.port = h.port], h) EXCEPT !.done = FALSE]
  ELSE QueueSyn(t, h)

-----------------------------------------------------------------------------
(* What the application calls. *)

IsGetReady(t) == t.rxHead - t.rxTail
IsPutReady(t) == IF t.sm \in Open THEN TxRing - 1 - (t.txHead - t.txTail) ELSE 0

\* TCPOpen, on a closed socket of the right purpose.
TCPOpen(t) == [t EXCEPT !.bServer = TRUE, !.sm = "LISTEN"]

TCPFlush(t) == IF Unsent(t) > 0 THEN SendTCP(t, {"ack"}, "reset") ELSE t

\* TCPGetArray, of n bytes that are there: reading half of what is there
\* makes a new window worth telling soon.
TCPGetArray(t, n) ==
  LET u == [t EXCEPT !.rxTail = @ + n, !.rxFifo = Cleared(@, RxRing, t.rxTail, t.rxTail + n)]
  IN IF IsGetReady(t) - n <= n THEN [u EXCEPT !.asapKeepTimer = TRUE]
     ELSE [u EXCEPT !.timer2 = TRUE]

\* TCPPutArray, of no more bytes than there is room for: a FIFO that is half
\* full is sent first, once, and one that is full is sent.
TCPPutArray(t, bytes) ==
  LET free == IsPutReady(t)
      half == ~t.halfFull /\ free <= TxRing \div 2
      u == IF half THEN [TCPFlush(t) EXCEPT !.halfFull = TRUE] ELSE t
      v == [u EXCEPT !.txFifo = Written(@, TxRing, u.txHead, bytes), !.txHead = @ + Len(bytes)]
  IN IF free = 0 THEN TCPFlush(t)
     ELSE IF free <= Len(bytes) THEN TCPFlush(v) ELSE [v EXCEPT !.timer2 = TRUE]

\* The FIN goes out with the last of what is in the FIFO, as far as the
\* window of the remote node allows.
SendAllAndFin(t) ==
  LET step[n \in 0 .. TxRing] ==
        IF n = 0 THEN SendTCP(t, {"fin", "ack"}, "reset")
        ELSE LET u == step[n - 1]
             IN IF u.window = 0 \/ Unsent(u) = 0 THEN u ELSE SendTCP(u, {"fin", "ack"}, "reset")
  IN step[TxRing]

TCPDisconnect(t0) ==
  LET t == Discarded(t0)
  IN CASE t.sm \in {"SYN_RECEIVED", "ESTABLISHED"} ->
            [SendAllAndFin(t) EXCEPT !.sm = "FIN_WAIT_1"]
       [] t.sm = "CLOSE_WAIT" -> [SendAllAndFin(t) EXCEPT !.sm = "LAST_ACK"]
       [] OTHER -> CloseSocket(SendTCP(t, {"rst", "ack"}, "none"))

TCPClose(t) == TCPDisconnect([t EXCEPT !.bServer = FALSE])

-----------------------------------------------------------------------------
(* TCPTick, with the set of timers that are due. *)

Timers == {"eventTime", "eventTime2", "delayedACKTime", "closeWaitTime", "synQueue"}

\* The timers that run and may be due; the keep-alive shares eventTime.
Running(t) ==
  {x \in Timers :
     CASE x = "synQueue" -> t.synQueue # <<>>
       [] x = "eventTime" -> t.timer \/ t.sm = "ESTABLISHED"
       [] x = "eventTime2" -> t.timer2
       [] x = "delayedACKTime" -> t.delayedAck
       [] OTHER -> t.sm = "CLOSE_WAIT"}

\* First what is to be sent anyway, the end of CLOSE_WAIT, and a connection
\* that waited for the socket to listen again.
TickSend(t, due) ==
  LET wanted == \/ t.asap \/ t.asapKeepTimer
                \/ t.timer2 /\ "eventTime2" \in due
                \/ t.delayedAck /\ "delayedACKTime" \in due
      mode == IF t.asapKeepTimer THEN "none" ELSE "reset"
  IN CASE t.sm = "CLOSE_WAIT" /\ "closeWaitTime" \in due ->
            SendTCP([t EXCEPT !.sm = "LAST_ACK"], {"fin", "ack"}, mode)
       [] t.sm = "LISTEN" /\ t.synQueue # <<>> ->
            SendTCP([t EXCEPT !.sm = "SYN_RECEIVED", !.port = Head(t.synQueue).port,
                              !.remoteSeq = Head(t.synQueue).seq + 1,
                              !.synQueue = Tail(@)], {"syn", "ack"}, mode)
       [] OTHER -> IF wanted THEN SendTCP(t, {"ack"}, mode) ELSE t

\* Without a retransmission timer: keep-alives, and after too many without an
\* answer a FIN and a RST.
TickKeepalive(t) ==
  IF t.sm # "ESTABLISHED" THEN t
  ELSE IF t.keepalives = Keepalives THEN TCPDisconnect(TCPDisconnect(t))
  ELSE SendTCP(t, {"ack"}, "probe")

\* Mutant: the retries of data are not counted.
RepeatUncounted(t, flags) ==
  LET u == RollBack(t)
  IN SendTCP([u EXCEPT !.retries = IF Unsent(u) = 0 THEN @ + 1 ELSE @,
                       !.window = (@ + (t.txUnacked - t.txTail)) % Word], flags, "none")

\* What was not acknowledged is sent once more; its room in the window comes
\* back, in a WORD.
Repeat(t, flags) ==
  LET u == RollBack(t)
  IN SendTCP([u EXCEPT !.retries = @ + 1,
                       !.window = (@ + (t.txUnacked - t.txTail)) % Word], flags, "none")

GiveUp(t) == CloseSocket(SendTCP(t, {"rst", "ack"}, "reset"))

\* The retransmission timer.
TickTimer(t) ==
  LET again == t.retries < MaxRetries
  IN CASE t.sm = "SYN_RECEIVED" ->
            IF t.retries < SynRetries THEN Repeat(t, {"syn", "ack"})
            ELSE IF t.bServer THEN GiveUp(t) ELSE SendTCP(t, {"syn"}, "reset")
       [] t.sm \in Open ->
            IF again THEN Repeat(t, {"ack"})
            ELSE SendTCP([t EXCEPT !.sm = "FIN_WAIT_1"], {"fin", "ack"}, "reset")
       [] t.sm \in {"FIN_WAIT_1", "LAST_ACK"} ->
            IF again THEN Repeat(t, {"fin", "ack"}) ELSE GiveUp(t)
       [] t.sm = "FIN_WAIT_2" -> GiveUp(t)
       [] t.sm = "CLOSING" -> IF again THEN Repeat(t, {"ack"}) ELSE GiveUp(t)
       [] OTHER -> t

\* A segment that was just sent has started the retransmission timer anew.
TickSocket(t, due) ==
  LET u == TickSend(t, due)
  IN IF "eventTime" \notin due \/ (u.timer /\ u.out # {}) THEN u
     ELSE IF u.timer THEN TickTimer(u) ELSE TickKeepalive(u)

\* A connection that waited too long for the socket is forgotten.
TCPTick(t, due) ==
  LET u == TickSocket(t, due)
  IN [u EXCEPT !.done = FALSE,
               !.synQueue = IF "synQueue" \in due /\ @ # <<>> THEN Tail(@) ELSE @]

-----------------------------------------------------------------------------
(* The remote node: a correct client, or one that has left.  It opens one    *)
(* connection after the other, sends its bytes in any pieces and again       *)
(* whenever it likes, and stops reading when it likes.                        *)

\* What the network and the remote node owe the socket: a segment does not
\* come so late that more than half of a WORD of bytes have been received
\* from its first one on.
InTime(t, h) == t.port = h.port => t.remoteSeq - h.seq <= Word \div 2

NoPeer == [st |-> "closed", port |-> 0, unacked |-> 0, next |-> 0,
           fin |-> FALSE, rcv |-> 0, got |-> <<>>, finRcvd |-> FALSE, unread |-> 0]

PeerWindow == PeerRoom - peer.unread

Segment(kind, seq, len, fin, ack, window) ==
  [port |-> peer.port, kind |-> kind, seq |-> seq, len |-> len, fin |-> fin,
   ack |-> ack, window |-> window]

PeerSends(h) ==
  /\ toDevice' \in {toDevice, toDevice \cup {h}} /\ Cardinality(toDevice') <= MaxIn
  /\ \A g1, g2 \in toDevice' : g1.seq = g2.seq => g1 = g2
  /\ UNCHANGED <<s, toPeer, gone>>

PeerOpen ==
  /\ ~gone /\ peer.st = "closed" /\ peer.port < MaxPort
  /\ peer' = [NoPeer EXCEPT !.st = "synSent", !.port = peer.port + 1, !.next = 1]
  /\ UNCHANGED <<s, toDevice, toPeer, gone>>

PeerSyn ==
  /\ ~gone /\ peer.st = "synSent"
  /\ PeerSends(Segment("syn", 0, 0, FALSE, 0, 0))
  /\ UNCHANGED peer

\* Any piece of what is not acknowledged, also more than there is room for,
\* or nothing: an acknowledgment.
PeerSegment ==
  /\ ~gone /\ peer.st = "established"
  /\ \E len \in 0 .. Mss, seq \in peer.unacked .. peer.next :
       LET end == seq + len
           fin == peer.fin /\ end = peer.next
       IN /\ end <= (IF peer.fin THEN peer.next ELSE Script + 1)
          /\ len > 0 \/ fin \/ seq = peer.next
          /\ PeerSends(Segment("ack", IF len = 0 /\ ~fin /\ peer.fin THEN peer.next + 1 ELSE seq,
                               len, fin, peer.rcv, PeerWindow))
          /\ peer' = [peer EXCEPT !.next = Greater(@, end)]

PeerClose ==
  /\ "close" \in Departures
  /\ ~gone /\ peer.st = "established" /\ ~peer.fin
  /\ peer' = [peer EXCEPT !.fin = TRUE]
  /\ UNCHANGED <<s, toDevice, toPeer, gone>>

PeerReads ==
  /\ ~gone /\ peer.unread > 0
  /\ peer' = [peer EXCEPT !.unread = 0]
  /\ UNCHANGED <<s, toDevice, toPeer, gone>>

PeerAbort ==
  /\ "abort" \in Departures
  /\ ~gone /\ peer.st = "established"
  /\ PeerSends(Segment("rst", peer.next, 0, FALSE, peer.rcv, 0))
  /\ peer' = [NoPeer EXCEPT !.port = peer.port]

\* The cable is pulled: nothing comes from the remote node any more.
PeerVanishes ==
  /\ "vanish" \in Departures
  /\ ~gone /\ gone' = TRUE
  /\ toPeer' = {} /\ peer' = NoPeer
  /\ UNCHANGED <<s, toDevice>>

\* What the remote node accepts of a segment of its connection.
Accepted(m) ==
  LET old == peer.rcv - m.seq
      len == Lesser(Len(m.data) - old, PeerWindow)
      rcv == IF old >= 0 /\ len > 0 THEN peer.rcv + len ELSE peer.rcv
      fin == ~peer.finRcvd /\ "fin" \in m.flags /\ rcv = m.seq + Len(m.data)
      unacked == Greater(peer.unacked, m.ack)
      p == [peer EXCEPT !.unacked = Lesser(unacked, peer.next),
                        !.rcv = rcv + (IF fin THEN 1 ELSE 0),
                        !.got = @ \o (IF rcv > peer.rcv THEN SubSeq(m.data, old + 1, old + len) ELSE <<>>),
                        !.unread = @ + (rcv - peer.rcv),
                        !.finRcvd = @ \/ fin]
  IN IF peer.rcv + PeerWindow < m.seq \/ m.seq + Len(m.data) < peer.rcv THEN peer
     ELSE IF p.finRcvd /\ p.fin /\ m.ack = p.next + 1 THEN [p EXCEPT !.st = "closed"] ELSE p

PeerReceives(m) ==
  /\ ~gone /\ m \in toPeer
  /\ toPeer' = toPeer \ {m}
  /\ peer' =
       IF m.port # peer.port \/ peer.st = "closed" THEN peer
       ELSE IF "rst" \in m.flags
       THEN IF m.seq \in peer.rcv .. peer.rcv + PeerWindow THEN [NoPeer EXCEPT !.port = peer.port] ELSE peer
       ELSE IF peer.st = "synSent"
       THEN IF "syn" \in m.flags /\ m.ack = 1
            THEN [peer EXCEPT !.st = "established", !.unacked = 1, !.rcv = m.seq + 1]
            ELSE peer
       ELSE IF "syn" \in m.flags THEN peer ELSE Accepted(m)
  /\ UNCHANGED <<s, toDevice, gone>>

\* The answer to a segment of a connection that is no more.
PeerRefuses(m) ==
  /\ ~gone /\ m \in toPeer /\ "rst" \notin m.flags
  /\ m.port # peer.port \/ peer.st = "closed"
  /\ toPeer' = toPeer \ {m}
  /\ toDevice' = toDevice \cup {[port |-> m.port, kind |-> "rst", seq |-> m.ack, len |-> 0,
                                 fin |-> FALSE, ack |-> 0, window |-> 0]}
  /\ Cardinality(toDevice') <= MaxIn
  /\ UNCHANGED <<s, peer, gone>>

Remote ==
  \/ PeerOpen \/ PeerSyn \/ PeerSegment \/ PeerClose \/ PeerReads \/ PeerAbort
  \/ PeerVanishes
  \/ \E m \in toPeer : PeerReceives(m) \/ PeerRefuses(m)
=============================================================================
