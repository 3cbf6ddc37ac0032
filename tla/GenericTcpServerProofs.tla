----------------------- MODULE GenericTcpServerProofs -----------------------
(***************************************************************************)
(* Proofs about GenericTcpServer and the socket of Tcp, for FIFOs, windows, *)
(* retries and queues of any size and any number of remote nodes.          *)
(***************************************************************************)
EXTENDS GenericTcpServer, FiniteSetTheorems, SequenceTheorems, WellFoundedInduction,
        TLAPS

SocketFields ==
  {"sm", "bServer", "port", "iss", "mySeq", "remoteSeq", "window",
   "txTail", "txUnacked", "txHead", "txFifo",
   "rxTail", "rxHead", "hole", "future", "rxFifo",
   "retries", "timer", "timer2", "delayedAck",
   "asap", "asapKeepTimer", "halfFull", "txFin", "finSent", "synSent",
   "noneAcked", "keepalives", "synQueue", "out", "done"}

\* A SYN that waits; every SYN begins at zero here.
Waiting == [port : Int, seq : {0}]

MostRetries == Greater(MaxRetries, SynRetries)

\* What SendTCP leaves in "out", as far as the remote node counts with it.
Sent(m) == m.port \in Int /\ m.seq \in Int /\ m.ack \in Int /\ Len(m.data) \in Nat

TxOrder(t) ==
  /\ t.txTail \in Nat /\ t.txUnacked \in Nat /\ t.txHead \in Nat
  /\ t.txTail <= t.txUnacked /\ t.txUnacked <= t.txHead
  /\ t.txHead <= t.txTail + TxRing - 1

RxOrder(t) ==
  /\ t.rxTail \in Nat /\ t.rxHead \in Nat /\ t.hole \in Int /\ t.future \in Int
  /\ t.rxTail <= t.rxHead /\ t.rxHead <= t.rxTail + RxRing - 1
  /\ IF t.hole = -1 THEN t.future = 0
     ELSE t.hole > 0 /\ t.future > 0 /\ t.hole + t.future <= RxFree(t)

Counted(t) ==
  /\ t.window \in 0 .. Word - 1 /\ t.noneAcked \in 0 .. 2
  /\ t.retries \in 0 .. MostRetries /\ t.keepalives \in 0 .. Keepalives

Queued(t) ==
  /\ t.synQueue \in Seq(Waiting) /\ Len(t.synQueue) <= SynQueueSize
  /\ IsFiniteSet(t.out) /\ \A m \in t.out : Sent(m)

Socket(t) ==
  /\ DOMAIN t = SocketFields
  /\ t.sm \in States /\ {t.port, t.iss, t.mySeq, t.remoteSeq} \subseteq Int
  /\ TxOrder(t) /\ RxOrder(t) /\ Counted(t) /\ Queued(t)

-----------------------------------------------------------------------------
(* SendTCP. *)

\* What SendTCP leaves alone.
Kept(r, t) ==
  /\ r.sm = t.sm /\ r.bServer = t.bServer /\ r.port = t.port /\ r.iss = t.iss
  /\ r.remoteSeq = t.remoteSeq
  /\ r.txTail = t.txTail /\ r.txHead = t.txHead
  /\ r.rxTail = t.rxTail /\ r.rxHead = t.rxHead /\ r.hole = t.hole /\ r.future = t.future
  /\ r.noneAcked = t.noneAcked /\ r.synQueue = t.synQueue /\ r.done = t.done

\* The numbers that SendTCP moves, together.
LEMMA SendTCPMoves ==
  ASSUME NEW t, Socket(t), NEW flags, NEW mode
  PROVE  LET r == SendTCP(t, flags, mode)
         IN /\ DOMAIN r = SocketFields
            /\ Kept(r, t)
            /\ \E len \in Nat :
                 /\ len <= Unsent(t) /\ len <= t.window
                 /\ r.txUnacked = t.txUnacked + len
                 /\ r.window = t.window - len
                 /\ r.mySeq = t.mySeq + len + (IF "syn" \in flags /\ ~t.synSent THEN 1 ELSE 0)
            /\ r.synSent = (t.synSent \/ "syn" \in flags)
<1> DEFINE bare == flags \cap {"syn", "rst"} # {}
           sendable == Lesser(Unsent(t), t.window)
           len == IF bare THEN 0 ELSE Lesser(sendable, Mss)
           r == SendTCP(t, flags, mode)
<1>1. len \in Nat /\ len <= Unsent(t) /\ len <= t.window
  BY TcpAssumption DEF Socket, TxOrder, Counted, Lesser, Unsent, TcpAssumption
<1>2. DOMAIN r = SocketFields
  BY DEF SendTCP, Socket
<1>3. Kept(r, t)
  BY DEF SendTCP, Socket, Kept, SocketFields
<1>4. /\ r.txUnacked = t.txUnacked + len
      /\ r.window = t.window - len
      /\ r.mySeq = t.mySeq + len + (IF "syn" \in flags /\ ~t.synSent THEN 1 ELSE 0)
  BY DEF SendTCP, Socket, SocketFields
<1>5. r.synSent = (t.synSent \/ "syn" \in flags)
  BY DEF SendTCP, Socket, SocketFields
<1> HIDE DEF len, r
<1> QED
  BY <1>1, <1>2, <1>3, <1>4, <1>5 DEF r

\* What is asked to be acknowledged is timed, and a FIN that is to be sent is,
\* unless the window is closed.
LEMMA SendTCPTimes ==
  ASSUME NEW t, Socket(t), NEW flags, NEW mode
  PROVE  LET r == SendTCP(t, flags, mode)
         IN /\ t.timer \/ "syn" \in flags => r.timer
            /\ t.txFin \/ "fin" \in flags => r.txFin
            /\ r.txFin /\ flags \cap {"syn", "rst"} = {} => r.timer \/ r.window = 0
<1> DEFINE bare == flags \cap {"syn", "rst"} # {}
           sendable == Lesser(Unsent(t), t.window)
           len == IF bare THEN 0 ELSE Lesser(sendable, Mss)
           txFin == t.txFin \/ "fin" \in flags
           fin == ~bare /\ txFin /\ FinFits(t, len)
           counts == AsksForAnswer(flags, len, fin)
           r == SendTCP(t, flags, mode)
<1>1. /\ r.timer = (t.timer \/ counts)
      /\ r.txFin = txFin
      /\ r.window = t.window - len
  BY DEF SendTCP, Socket, SocketFields
<1>2. len \in Nat /\ t.window \in Nat /\ Mss # 0
  BY TcpAssumption DEF Socket, TxOrder, Counted, Lesser, Unsent, TcpAssumption
<1>3. ASSUME txFin, ~bare, ~counts PROVE t.window - len = 0
  BY <1>2, <1>3 DEF AsksForAnswer, FinFits
<1>4. "syn" \in flags => counts
  BY DEF AsksForAnswer
<1> HIDE DEF r, len, counts
<1> QED
  BY <1>1, <1>3, <1>4 DEF r

\* What is cut out of a FIFO has a length.
LEMMA SliceLength ==
  ASSUME NEW fifo, NEW ring, NEW from \in Nat, NEW len \in Nat
  PROVE  Len(Slice(fifo, ring, from, from + len)) = len
<1> DEFINE f == Slice(fifo, ring, from, from + len)
           R == {f[i] : i \in 1 .. len}
<1>1. f = [i \in 1 .. len |-> fifo[(from + i - 1) % ring]]
  BY DEF Slice
<1>2. f \in [1 .. len -> R]
  BY <1>1
<1> HIDE DEF f, R
<1>3. f \in Seq(R)
  BY <1>2, SeqDef
<1>4. DOMAIN f = 1 .. len /\ DOMAIN f = 1 .. Len(f) /\ Len(f) \in Nat
  BY <1>2, <1>3, LenProperties
<1>5. Len(f) = len
  BY <1>4
<1> QED BY <1>5 DEF f

\* A segment that is sent leaves each pointer in its order.
LEMMA SendTCPTyped ==
  ASSUME NEW t, Socket(t), NEW flags, NEW mode,
         mode = "probe" => t.keepalives < Keepalives
  PROVE  Socket(SendTCP(t, flags, mode))
<1> DEFINE bare == flags \cap {"syn", "rst"} # {}
           sendable == Lesser(Unsent(t), t.window)
           len == IF bare THEN 0 ELSE Lesser(sendable, Mss)
           txFin == t.txFin \/ "fin" \in flags
           fin == ~bare /\ txFin /\ FinFits(t, len)
           counts == AsksForAnswer(flags, len, fin)
           probe == ~counts /\ mode = "probe"
           back == probe \/ ("syn" \in flags /\ t.synSent)
           data == IF probe THEN <<Junk>>
                   ELSE Slice(t.txFifo, TxRing, t.txUnacked, t.txUnacked + len)
           header == [port |-> t.port, flags |-> (flags \ {"fin"}) \cup (IF fin THEN {"fin"} ELSE {}),
                      seq |-> IF back THEN t.mySeq - 1 ELSE t.mySeq,
                      data |-> data, ack |-> t.remoteSeq]
           r == SendTCP(t, flags, mode)
<1>1. /\ DOMAIN r = SocketFields /\ Kept(r, t)
      /\ \E n \in Nat :
           /\ n <= Unsent(t) /\ n <= t.window
           /\ r.txUnacked = t.txUnacked + n
           /\ r.window = t.window - n
           /\ r.mySeq = t.mySeq + n + (IF "syn" \in flags /\ ~t.synSent THEN 1 ELSE 0)
  BY SendTCPMoves
<1>2. /\ r.out = t.out \cup {header}
      /\ r.retries = IF counts THEN IF mode = "reset" THEN 0 ELSE t.retries
                     ELSE IF ~probe /\ t.timer /\ mode = "none" /\ t.retries > 0
                          THEN t.retries - 1 ELSE t.retries
      /\ r.keepalives = IF probe THEN t.keepalives + 1 ELSE t.keepalives
  BY DEF SendTCP, Socket, SocketFields
<1>3. Sent(header)
  <2>1. len \in Nat /\ t.txUnacked \in Nat
    BY TcpAssumption DEF Socket, TxOrder, Counted, Lesser, Unsent, TcpAssumption
  <2>2. Len(data) \in Nat
    <3> HIDE DEF len, probe
    <3> QED BY <2>1, SliceLength
  <2>3. t.port \in Int /\ t.mySeq \in Int /\ t.remoteSeq \in Int
    BY DEF Socket
  <2> HIDE DEF data, back
  <2> QED BY <2>2, <2>3 DEF Sent
<1> HIDE DEF r, header, counts, probe
<1>4. Queued(r)
  <2>1. IsFiniteSet(r.out)
    BY <1>2, FS_AddElement DEF Socket, Queued
  <2> QED BY <1>1, <1>2, <1>3, <2>1 DEF Socket, Queued, Kept
<1>5. MostRetries \in Nat /\ Keepalives \in Nat
  BY TcpAssumption DEF MostRetries, Greater, TcpAssumption
<1>6. r.retries \in 0 .. MostRetries
  BY <1>2, <1>5 DEF Socket, Counted
<1>7. r.keepalives \in 0 .. Keepalives
  BY <1>2, <1>5 DEF Socket, Counted, probe
<1>8. TxOrder(r) /\ RxOrder(r) /\ r.mySeq \in Int /\ r.window \in 0 .. Word - 1
  BY <1>1, TcpAssumption DEF Socket, TxOrder, RxOrder, Kept, Counted, Unsent, RxFree, TcpAssumption
<1>9. Counted(r)
  BY <1>1, <1>6, <1>7, <1>8 DEF Socket, Counted, Kept
<1> QED
  BY <1>1, <1>4, <1>8, <1>9 DEF Socket, r, Kept

-----------------------------------------------------------------------------
(* What the numbers and the timers of a socket have to do with its state. *)

Idle == {"CLOSED", "LISTEN"}

\* The remote node's FIN counts in RemoteSEQ.
FinCounted(t) == t.sm \notin Idle /\ t.remoteSeq = 2 + t.rxHead

\* A socket without a connection.
AtRest(t) ==
  /\ Socket(t) /\ t.sm \in Idle
  /\ ~t.synSent /\ t.mySeq = t.iss /\ t.txHead = 0 /\ t.rxHead = 0

\* A socket with one: MySEQ counts the SYN and the bytes that are sent,
\* RemoteSEQ the SYN, the bytes in order, and perhaps the FIN.
Connected(t) ==
  /\ Socket(t) /\ t.sm \notin Idle
  /\ t.synSent /\ t.mySeq = t.iss + 1 + t.txUnacked
  /\ t.remoteSeq - 1 - t.rxHead \in {0, 1}

\* Which states have seen the FIN.
StateSawFin(t) ==
  /\ t.sm \in {"SYN_RECEIVED", "ESTABLISHED"} => ~FinCounted(t)
  /\ t.sm \in {"CLOSE_WAIT", "CLOSING", "LAST_ACK"} => FinCounted(t)

\* A FIN that waits for its acknowledgment keeps a timer running, unless the
\* window is closed.
Waits(t) == t.txFin /\ (t.window = 0 \/ t.timer \/ t.asap \/ t.asapKeepTimer)

Alive(t) ==
  /\ t.sm = "SYN_RECEIVED" => t.timer /\ t.txHead = 0
  /\ t.sm \in {"FIN_WAIT_1", "CLOSING", "LAST_ACK"} => Waits(t)

Good(t) ==
  AtRest(t) \/ (Connected(t) /\ StateSawFin(t) /\ Alive(t))

\* SendTCP, for a connection.
LEMMA SendTCPConnected ==
  ASSUME NEW t, Connected(t), NEW flags, NEW mode,
         mode = "probe" => t.keepalives < Keepalives
  PROVE  LET r == SendTCP(t, flags, mode)
         IN /\ Connected(r) /\ Kept(r, t)
            /\ FinCounted(r) = FinCounted(t)
            /\ t.timer \/ "syn" \in flags => r.timer
            /\ t.txFin \/ "fin" \in flags => r.txFin
            /\ r.txFin /\ flags \cap {"syn", "rst"} = {} => r.timer \/ r.window = 0
<1> DEFINE r == SendTCP(t, flags, mode)
<1>1. Socket(t) /\ t.synSent
  BY DEF Connected
<1>2. Socket(r)
  BY <1>1, SendTCPTyped
<1>3. /\ Kept(r, t) /\ r.synSent
      /\ \E len \in Nat : r.txUnacked = t.txUnacked + len /\ r.mySeq = t.mySeq + len
  <2>1. PICK len \in Nat :
                 /\ r.txUnacked = t.txUnacked + len
                 /\ r.mySeq = t.mySeq + len + (IF "syn" \in flags /\ ~t.synSent THEN 1 ELSE 0)
    BY <1>1, SendTCPMoves
  <2>2. Kept(r, t) /\ r.synSent = (t.synSent \/ "syn" \in flags)
    BY <1>1, SendTCPMoves
  <2> HIDE DEF r
  <2>3. r.mySeq = t.mySeq + len
    BY <2>1, <1>1 DEF Socket
  <2> QED BY <2>1, <2>2, <2>3, <1>1
<1>4. /\ t.timer \/ "syn" \in flags => r.timer
      /\ t.txFin \/ "fin" \in flags => r.txFin
      /\ r.txFin /\ flags \cap {"syn", "rst"} = {} => r.timer \/ r.window = 0
  BY <1>1, SendTCPTimes
<1> HIDE DEF r
<1>5. Connected(r)
  BY <1>2, <1>3 DEF Connected, Kept, Socket, TxOrder, RxOrder
<1> QED BY <1>3, <1>4, <1>5 DEF Kept, FinCounted, r

\* And for a socket without one.
LEMMA SendTCPAtRest ==
  ASSUME NEW t, AtRest(t), NEW flags, NEW mode, mode # "probe", "syn" \notin flags
  PROVE  AtRest(SendTCP(t, flags, mode)) /\ Kept(SendTCP(t, flags, mode), t)
<1> DEFINE r == SendTCP(t, flags, mode)
<1>1. Socket(t) /\ ~t.synSent
  BY DEF AtRest
<1>2. Socket(r)
  BY <1>1, SendTCPTyped
<1>3. PICK len \in Nat :
                 /\ len <= Unsent(t)
                 /\ r.txUnacked = t.txUnacked + len
                 /\ r.mySeq = t.mySeq + len + (IF "syn" \in flags /\ ~t.synSent THEN 1 ELSE 0)
  BY <1>1, SendTCPMoves
<1>4. Kept(r, t) /\ r.synSent = (t.synSent \/ "syn" \in flags)
  BY <1>1, SendTCPMoves
<1> HIDE DEF r
<1>5. r.mySeq = t.mySeq + len
  BY <1>1, <1>3 DEF Socket
<1>6. len = 0
  BY <1>1, <1>3 DEF AtRest, Socket, TxOrder, Unsent
<1>7. ~r.synSent
  BY <1>1, <1>4
<1>8. r.mySeq = t.mySeq
  BY <1>1, <1>5, <1>6 DEF Socket
<1> QED BY <1>2, <1>4, <1>7, <1>8 DEF AtRest, Kept, r

-----------------------------------------------------------------------------
(* CloseSocket. *)

\* What a finite set is mapped to is finite.
LEMMA ImageFinite ==
  ASSUME NEW S, IsFiniteSet(S), NEW T, NEW f \in [S -> T],
         \A y \in T : \E x \in S : f[x] = y
  PROVE  IsFiniteSet(T)
<1>1. f \in Surjection(S, T)
  BY DEF Surjection
<1> QED BY <1>1, FS_Surjection

\* The numbers that are known of earlier connections.
Numbers(t) ==
  {t.iss, peer.rcv} \cup {m.seq : m \in toPeer \cup t.out} \cup {h.ack : h \in toDevice}

\* Of one number more than are known there is one that is not.
LEMMA FreshSeqIsNew ==
  ASSUME NEW t, IsFiniteSet(t.out), IsFiniteSet(toPeer), IsFiniteSet(toDevice)
  PROVE  \E k \in Nat : FreshSeq(t) = Far * k /\ \A n \in Numbers(t) : n \div Far # k
<1> DEFINE numbers == Numbers(t)
           known == {n \div Far : n \in numbers}
<1>1. IsFiniteSet(numbers)
  <2> DEFINE sent == toPeer \cup t.out
             seqs == {m.seq : m \in sent}
             acks == {h.ack : h \in toDevice}
  <2>0. IsFiniteSet(sent)
    BY FS_Union
  <2>1. IsFiniteSet(seqs)
    <3> HIDE DEF sent
    <3> DEFINE f == [m \in sent |-> m.seq]
    <3>1. f \in [sent -> seqs]
      OBVIOUS
    <3>2. \A y \in seqs : \E m \in sent : f[m] = y
      OBVIOUS
    <3> HIDE DEF seqs, f
    <3> QED BY <2>0, <3>1, <3>2, ImageFinite
  <2>2. IsFiniteSet(acks)
    <3> DEFINE f == [h \in toDevice |-> h.ack]
    <3>1. f \in [toDevice -> acks]
      OBVIOUS
    <3>2. \A y \in acks : \E h \in toDevice : f[h] = y
      OBVIOUS
    <3> HIDE DEF acks, f
    <3> QED BY <3>1, <3>2, ImageFinite
  <2>3. IsFiniteSet({t.iss}) /\ IsFiniteSet({peer.rcv})
    BY FS_Singleton
  <2>4. IsFiniteSet({t.iss} \cup {peer.rcv})
    BY <2>3, FS_Union
  <2>5. IsFiniteSet(({t.iss} \cup {peer.rcv}) \cup seqs)
    <3> HIDE DEF seqs
    <3> QED BY <2>1, <2>4, FS_Union
  <2>6. IsFiniteSet((({t.iss} \cup {peer.rcv}) \cup seqs) \cup acks)
    <3> HIDE DEF seqs, acks
    <3> QED BY <2>2, <2>5, FS_Union
  <2>7. numbers = (({t.iss} \cup {peer.rcv}) \cup seqs) \cup acks
    BY DEF Numbers
  <2> QED BY <2>6, <2>7
<1>2. IsFiniteSet(known) /\ Cardinality(known) \in Nat
  <2> HIDE DEF numbers
  <2> DEFINE f == [n \in numbers |-> n \div Far]
  <2>1. f \in [numbers -> known]
    OBVIOUS
  <2>2. \A y \in known : \E n \in numbers : f[n] = y
    OBVIOUS
  <2> HIDE DEF known, f
  <2>3. IsFiniteSet(known)
    BY <1>1, <2>1, <2>2, ImageFinite
  <2> QED BY <2>3, FS_CardinalityType
<1>3. \E k \in 0 .. Cardinality(known) : k \notin known
  <2> HIDE DEF known
  <2> SUFFICES ASSUME 0 .. Cardinality(known) \subseteq known
               PROVE  FALSE
    OBVIOUS
  <2>1. Cardinality(0 .. Cardinality(known)) <= Cardinality(known)
    BY <1>2, FS_Subset
  <2>2. Cardinality(0 .. Cardinality(known)) = Cardinality(known) + 1
    BY <1>2, FS_Interval
  <2> QED BY <1>2, <2>1, <2>2
<1> DEFINE k == CHOOSE j \in 0 .. Cardinality(known) : j \notin known
<1>4. FreshSeq(t) = Far * k
  BY DEF FreshSeq, Numbers
<1>5. k \in 0 .. Cardinality(known) /\ k \notin known
  <2> HIDE DEF known
  <2> QED BY <1>3
<1>6. k \in Nat
  <2> HIDE DEF known, k
  <2> QED BY <1>2, <1>5
<1>7. \A n \in Numbers(t) : n \div Far # k
  <2> HIDE DEF k
  <2> QED BY <1>5
<1> HIDE DEF k
<1> QED BY <1>4, <1>6, <1>7

LEMMA FreshSeqTyped ==
  ASSUME NEW t, IsFiniteSet(t.out), IsFiniteSet(toPeer), IsFiniteSet(toDevice)
  PROVE  FreshSeq(t) \in Int
<1>1. PICK k \in Nat : FreshSeq(t) = Far * k
  BY FreshSeqIsNew
<1>2. Far \in Nat
  BY TcpAssumption DEF Far, TcpAssumption
<1> QED BY <1>1, <1>2

\* Whatever it was, a closed socket is at rest.
LEMMA CloseSocketAtRest ==
  ASSUME NEW t, Socket(t), IsFiniteSet(toPeer), IsFiniteSet(toDevice)
  PROVE  AtRest(CloseSocket(t)) /\ CloseSocket(t).done
<1> DEFINE iss == IF t.synSent THEN FreshSeq(t) ELSE t.iss
           c == ClosedSocket(t.bServer, iss)
           r == CloseSocket(t)
<1>1. iss \in Int
  BY FreshSeqTyped DEF Socket, Queued
<1>2. r = [c EXCEPT !.synQueue = t.synQueue, !.out = t.out, !.done = TRUE]
  BY DEF CloseSocket
<1> HIDE DEF iss
<1>3. /\ DOMAIN c = SocketFields
      /\ c.sm \in Idle /\ c.port = 0 /\ c.iss = iss /\ c.mySeq = iss /\ c.remoteSeq = 0
      /\ c.window = 1
      /\ c.txTail = 0 /\ c.txUnacked = 0 /\ c.txHead = 0
      /\ c.rxTail = 0 /\ c.rxHead = 0 /\ c.hole = -1 /\ c.future = 0
      /\ c.retries = 0 /\ c.noneAcked = 0 /\ c.keepalives = 0 /\ c.synSent = FALSE
  BY DEF ClosedSocket, SocketFields, Idle
<1> HIDE DEF c, r
<1>4. /\ DOMAIN r = SocketFields
      /\ r.sm \in Idle /\ r.port = 0 /\ r.iss = iss /\ r.mySeq = iss /\ r.remoteSeq = 0
      /\ r.window = 1
      /\ r.txTail = 0 /\ r.txUnacked = 0 /\ r.txHead = 0
      /\ r.rxTail = 0 /\ r.rxHead = 0 /\ r.hole = -1 /\ r.future = 0
      /\ r.retries = 0 /\ r.noneAcked = 0 /\ r.keepalives = 0 /\ r.synSent = FALSE
  BY <1>2, <1>3 DEF SocketFields
<1>5. r.synQueue = t.synQueue /\ r.out = t.out /\ r.done
  BY <1>2, <1>3 DEF SocketFields
<1>6. MostRetries \in Nat /\ Keepalives \in Nat /\ Word \in Nat /\ Word > 1 /\ TxRing - 1 \in Nat
      /\ RxRing - 1 \in Nat
  BY TcpAssumption DEF MostRetries, Greater, TcpAssumption
<1>7. Queued(r)
  BY <1>5 DEF Socket, Queued
<1>8. TxOrder(r) /\ RxOrder(r) /\ Counted(r)
  BY <1>4, <1>6 DEF TxOrder, RxOrder, Counted
<1>9. Socket(r)
  BY <1>1, <1>4, <1>7, <1>8 DEF Socket, Idle, States
<1> QED BY <1>4, <1>5, <1>9 DEF AtRest, r

-----------------------------------------------------------------------------
(* The acknowledgment of a segment. *)

\* A segment that comes to the socket.
Arriving(h) ==
  /\ h.port \in Int /\ h.seq \in Int /\ h.ack \in Int /\ h.window \in Int
  /\ h.len \in Nat /\ h.len <= Mss
  /\ h.kind \in {"syn", "ack", "rst"}
  /\ h.kind = "syn" => h.seq = 0

\* What the transmitting side leaves alone.
TxOnly(r, t) ==
  /\ r.sm = t.sm /\ r.port = t.port /\ r.remoteSeq = t.remoteSeq
  /\ r.rxTail = t.rxTail /\ r.rxHead = t.rxHead /\ r.hole = t.hole /\ r.future = t.future

\* The bytes that are dropped are counted in MySEQ.
LEMMA DropAckedConnected ==
  ASSUME NEW t, Connected(t), NEW ack \in Int, Acked(t, ack) > 0, ack <= t.mySeq + Unsent(t)
  PROVE  LET r == DropAcked(t, ack)
         IN /\ Connected(r) /\ TxOnly(r, t) /\ (Waits(t) => Waits(r))
<1> DEFINE tail == t.txTail + Acked(t, ack)
           r == DropAcked(t, ack)
<1>1. /\ Socket(t) /\ t.mySeq \in Int /\ TxOrder(t)
      /\ t.txTail \in Nat /\ t.txUnacked \in Nat /\ t.txHead \in Nat
  BY DEF Connected, Socket, TxOrder
<1>2. tail \in Nat /\ tail > t.txTail /\ tail <= t.txHead
  BY <1>1 DEF Acked, Unsent, TxOrder
<1> HIDE DEF tail
<1>3. /\ r.txTail = tail /\ r.noneAcked = 0
      /\ r.mySeq = t.mySeq + Greater(tail - t.txUnacked, 0)
      /\ r.txUnacked = Greater(t.txUnacked, tail)
  BY <1>1 DEF DropAcked, Socket, SocketFields, tail
<1>4. /\ DOMAIN r = SocketFields
      /\ r.sm = t.sm /\ r.port = t.port /\ r.iss = t.iss /\ r.remoteSeq = t.remoteSeq
      /\ r.rxTail = t.rxTail /\ r.rxHead = t.rxHead /\ r.hole = t.hole /\ r.future = t.future
      /\ r.window = t.window /\ r.retries = t.retries /\ r.keepalives = t.keepalives
      /\ r.synQueue = t.synQueue /\ r.out = t.out /\ r.synSent = t.synSent
      /\ r.txHead = t.txHead
  BY <1>1 DEF DropAcked, Socket, SocketFields
<1>5. /\ r.txFin = t.txFin /\ r.timer = t.timer /\ r.asap = t.asap
      /\ r.asapKeepTimer = t.asapKeepTimer
  BY <1>1 DEF DropAcked, Socket, SocketFields
<1> HIDE DEF r
<1>6. TxOrder(r) /\ r.mySeq \in Int /\ r.mySeq - r.txUnacked = t.mySeq - t.txUnacked
  BY <1>1, <1>2, <1>3, <1>4, TcpAssumption DEF TxOrder, Greater, TcpAssumption
<1>7. RxOrder(r) /\ Counted(r) /\ Queued(r)
  BY <1>1, <1>3, <1>4 DEF Socket, RxOrder, RxFree, Counted, Queued
<1>8. Socket(r)
  BY <1>1, <1>4, <1>6, <1>7 DEF Socket
<1>9. Connected(r)
  BY <1>4, <1>6, <1>8 DEF Connected, Socket, TxOrder
<1> QED BY <1>4, <1>5, <1>9 DEF TxOnly, Waits, r

\* A roll back moves the number and the pointer together.
LEMMA RollBackConnected ==
  ASSUME NEW t, Connected(t)
  PROVE  LET r == RollBack(t)
         IN /\ Connected(r) /\ TxOnly(r, t) /\ (Waits(t) => Waits(r))
            /\ r.noneAcked = t.noneAcked /\ r.txHead = t.txHead /\ r.timer = t.timer
            /\ r.txFin = t.txFin /\ r.retries = t.retries /\ r.window = t.window
            /\ r.bServer = t.bServer
<1> DEFINE r == RollBack(t)
<1>1. /\ Socket(t) /\ t.mySeq \in Int /\ TxOrder(t)
  BY DEF Connected, Socket
<1>2. /\ DOMAIN r = SocketFields
      /\ r.txUnacked = t.txTail /\ r.mySeq = t.mySeq - (t.txUnacked - t.txTail)
      /\ r.sm = t.sm /\ r.port = t.port /\ r.iss = t.iss /\ r.remoteSeq = t.remoteSeq
      /\ r.rxTail = t.rxTail /\ r.rxHead = t.rxHead /\ r.hole = t.hole /\ r.future = t.future
      /\ r.window = t.window /\ r.retries = t.retries /\ r.keepalives = t.keepalives
      /\ r.noneAcked = t.noneAcked /\ r.bServer = t.bServer
      /\ r.synQueue = t.synQueue /\ r.out = t.out /\ r.synSent = t.synSent
      /\ r.txHead = t.txHead /\ r.txTail = t.txTail
      /\ r.txFin = t.txFin /\ r.timer = t.timer /\ r.asap = t.asap
      /\ r.asapKeepTimer = t.asapKeepTimer
  BY <1>1 DEF RollBack, Socket, SocketFields
<1> HIDE DEF r
<1>3. TxOrder(r) /\ r.mySeq \in Int /\ r.mySeq - r.txUnacked = t.mySeq - t.txUnacked
  BY <1>1, <1>2 DEF TxOrder
<1>4. RxOrder(r) /\ Counted(r) /\ Queued(r)
  BY <1>1, <1>2 DEF Socket, RxOrder, RxFree, Counted, Queued
<1>5. Socket(r)
  BY <1>1, <1>2, <1>3, <1>4 DEF Socket
<1>6. Connected(r)
  BY <1>2, <1>3, <1>5 DEF Connected, Socket, TxOrder
<1> QED BY <1>2, <1>6 DEF TxOnly, Waits, r

LEMMA NoneAckedConnected ==
  ASSUME NEW t, Connected(t)
  PROVE  LET r == NoneAcked(t)
         IN /\ Connected(r) /\ TxOnly(r, t) /\ (Waits(t) => Waits(r))
<1> DEFINE b == RollBack(t)
           u == IF t.noneAcked = 2 THEN [b EXCEPT !.asapKeepTimer = TRUE] ELSE t
           r == [u EXCEPT !.noneAcked = Lesser(@ + 1, 2)]
<1>1. CASE t.txTail = t.txUnacked
  BY <1>1 DEF NoneAcked, TxOnly
<1>2. CASE t.txTail # t.txUnacked
  <2>1. NoneAcked(t) = r
    BY <1>2 DEF NoneAcked
  <2>2. /\ Connected(b) /\ TxOnly(b, t) /\ (Waits(t) => Waits(b))
        /\ b.noneAcked = t.noneAcked
    BY RollBackConnected
  <2>3. Connected(u) /\ TxOnly(u, t) /\ (Waits(t) => Waits(u))
    <3>1. CASE t.noneAcked # 2
      BY <3>1 DEF TxOnly
    <3>2. CASE t.noneAcked = 2
      <4> HIDE DEF b
      <4> QED
      BY <2>2, <3>2 DEF Connected, Socket, SocketFields, TxOrder, RxOrder, RxFree, Counted,
                        Queued, TxOnly, Waits
    <3> QED BY <3>1, <3>2
  <2> HIDE DEF u
  <2>4. Connected(r) /\ TxOnly(r, u) /\ (Waits(u) => Waits(r))
    <3>1. Lesser(u.noneAcked + 1, 2) \in 0 .. 2
      BY <2>3 DEF Lesser, Connected, Socket, Counted
    <3> QED
      BY <2>3, <3>1 DEF Connected, Socket, SocketFields, TxOrder, RxOrder, RxFree, Counted,
                        Queued, TxOnly, Waits
  <2> HIDE DEF r
  <2> QED BY <2>1, <2>3, <2>4 DEF TxOnly
<1> QED BY <1>1, <1>2

\* The timer ends when nothing is left to be acknowledged: with a FIN, only
\* when that is.
LEMMA StopTimerConnected ==
  ASSUME NEW t, Connected(t), NEW ack
  PROVE  LET r == StopTimer(t, ack)
         IN /\ Connected(r) /\ TxOnly(r, t) /\ r.mySeq = t.mySeq /\ r.finSent = t.finSent
            /\ Waits(t) => Waits(r) \/ (t.mySeq = ack /\ t.finSent)
<1> DEFINE r == StopTimer(t, ack)
<1>1. \/ r = t
      \/ r = [t EXCEPT !.timer = FALSE] /\ ~t.txFin
      \/ r = [t EXCEPT !.timer = FALSE, !.txFin = FALSE] /\ t.mySeq = ack /\ t.finSent
  BY DEF StopTimer
<1>2. DOMAIN t = SocketFields
  BY DEF Connected, Socket
<1> HIDE DEF r
<1>3. Connected(r) /\ TxOnly(r, t) /\ r.mySeq = t.mySeq /\ r.finSent = t.finSent
  <2>1. CASE r = t
    BY <2>1 DEF TxOnly
  <2>2. CASE r = [t EXCEPT !.timer = FALSE]
    BY <1>2, <2>2 DEF Connected, Socket, SocketFields, TxOrder, RxOrder, RxFree, Counted,
                      Queued, TxOnly
  <2>3. CASE r = [t EXCEPT !.timer = FALSE, !.txFin = FALSE]
    BY <1>2, <2>3 DEF Connected, Socket, SocketFields, TxOrder, RxOrder, RxFree, Counted,
                      Queued, TxOnly
  <2> QED BY <1>1, <2>1, <2>2, <2>3
<1>4. Waits(t) => Waits(r) \/ (t.mySeq = ack /\ t.finSent)
  BY <1>1 DEF Waits
<1> QED BY <1>3, <1>4 DEF r

\* A window that opens is a reason to send.
LEMMA TakeWindowConnected ==
  ASSUME NEW t, Connected(t), NEW h, Arriving(h), NEW ack \in Int
  PROVE  LET r == TakeWindow(t, h, ack)
         IN /\ Connected(r) /\ TxOnly(r, t) /\ r.mySeq = t.mySeq /\ r.finSent = t.finSent
            /\ Waits(t) => Waits(r)
<1> DEFINE w == NewWindow(t, h, ack)
           r == TakeWindow(t, h, ack)
<1>1. w \in 0 .. Word - 1
  <2>1. h.window - (t.mySeq - ack) \in Int
    BY DEF Connected, Socket, Arriving
  <2>2. Word \in Nat \ {0}
    BY TcpAssumption DEF TcpAssumption
  <2> QED BY <2>1, <2>2 DEF NewWindow
<1>2. r = [t EXCEPT !.window = w, !.asap = @ \/ (t.window = 0 /\ w # 0)]
  BY DEF TakeWindow
<1>3. DOMAIN t = SocketFields
  BY DEF Connected, Socket
<1> HIDE DEF r, w
<1>4. Connected(r) /\ TxOnly(r, t) /\ r.mySeq = t.mySeq /\ r.finSent = t.finSent
  BY <1>1, <1>2, <1>3 DEF Connected, Socket, SocketFields, TxOrder, RxOrder, RxFree, Counted,
                    Queued, TxOnly
<1>5. Waits(t) => Waits(r)
  BY <1>2, <1>3 DEF Waits, SocketFields
<1> QED BY <1>4, <1>5 DEF r

\* What the acknowledgment leaves of a connection: nothing, or the same
\* received bytes.
RxKept(r, t) ==
  /\ r.port = t.port /\ r.remoteSeq = t.remoteSeq
  /\ r.rxTail = t.rxTail /\ r.rxHead = t.rxHead /\ r.hole = t.hole /\ r.future = t.future

Answered(r, t) ==
  \/ AtRest(r) /\ r.done
  \/ /\ Connected(r) /\ RxKept(r, t)
     /\ r.sm = t.sm \/ (t.sm = "FIN_WAIT_1" /\ r.sm = "FIN_WAIT_2")
     /\ r.sm \in {"FIN_WAIT_1", "CLOSING", "LAST_ACK"} /\ Waits(t) => Waits(r)

LEMMA AfterFinAnswers ==
  ASSUME IsFiniteSet(toPeer), IsFiniteSet(toDevice),
         NEW t, Connected(t), NEW h, Arriving(h), NEW ack \in Int, t.sm # "LAST_ACK",
         NEW t0, TxOnly(t, t0), Waits(t0) => Waits(t) \/ (t.mySeq = ack /\ t.finSent)
  PROVE  Answered(AfterFin(t, h, ack), t0)
<1> DEFINE r == AfterFin(t, h, ack)
<1>1. DOMAIN t = SocketFields /\ Socket(t)
  BY DEF Connected, Socket
<1>2. CASE t.sm = "FIN_WAIT_1" /\ t.mySeq = ack /\ t.finSent
  <2>1. r = [t EXCEPT !.sm = "FIN_WAIT_2", !.timer = TRUE]
    BY <1>2 DEF AfterFin
  <2> HIDE DEF r
  <2>2. Connected(r) /\ r.sm = "FIN_WAIT_2" /\ RxKept(r, t)
    BY <1>1, <2>1 DEF Connected, Socket, SocketFields, TxOrder, RxOrder, RxFree, Counted,
                      Queued, RxKept, Idle, States, Leaving
  <2> QED BY <1>2, <2>2 DEF Answered, RxKept, TxOnly, r
<1>3. CASE t.sm = "FIN_WAIT_2" /\ ~h.fin
  <2> DEFINE u == [t EXCEPT !.mySeq = ack]
  <2>1. r = CloseSocket(SendTCP(u, {"rst", "ack"}, "none"))
    BY <1>3 DEF AfterFin
  <2>2. Socket(u)
    BY <1>1 DEF Socket, SocketFields, TxOrder, RxOrder, RxFree, Counted, Queued
  <2> HIDE DEF u
  <2>3. Socket(SendTCP(u, {"rst", "ack"}, "none"))
    BY <2>2, SendTCPTyped
  <2> QED BY <2>1, <2>3, CloseSocketAtRest DEF Answered
<1>4. CASE t.sm = "CLOSING" /\ t.mySeq = ack
  BY <1>1, <1>4, CloseSocketAtRest DEF AfterFin, Answered
<1>5. CASE t.sm = "CLOSING" /\ t.mySeq # ack
  <2>1. r = [t EXCEPT !.done = TRUE]
    BY <1>5 DEF AfterFin
  <2> HIDE DEF r
  <2>2. Connected(r) /\ r.sm = t.sm /\ RxKept(r, t)
    BY <1>1, <2>1 DEF Connected, Socket, SocketFields, TxOrder, RxOrder, RxFree, Counted,
                      Queued, RxKept
  <2>3. Waits(t) => Waits(r)
    BY <1>1, <2>1 DEF Waits, SocketFields
  <2> QED BY <1>5, <2>2, <2>3 DEF Answered, RxKept, TxOnly, r
<1>6. CASE /\ ~ (t.sm = "FIN_WAIT_1" /\ t.mySeq = ack /\ t.finSent)
           /\ ~ (t.sm = "FIN_WAIT_2" /\ ~h.fin) /\ t.sm # "CLOSING"
  <2>1. r = t
    BY <1>6 DEF AfterFin
  <2>2. t.sm = "FIN_WAIT_1" => ~ (t.mySeq = ack /\ t.finSent)
    BY <1>6
  <2> HIDE DEF r
  <2> QED BY <1>6, <2>1, <2>2 DEF Answered, RxKept, TxOnly, r
<1> QED BY <1>2, <1>3, <1>4, <1>5, <1>6

\* An acknowledgment moves nothing on the receiving side.
LEMMA AckSegmentAnswers ==
  ASSUME IsFiniteSet(toPeer), IsFiniteSet(toDevice),
         NEW t, Connected(t), NEW h, Arriving(h), t.sm # "LAST_ACK"
  PROVE  Answered(AckSegment(t, h), t)
<1>1. Socket(t) /\ t.mySeq \in Int /\ Unsent(t) \in Int /\ h.ack \in Int /\ DOMAIN t = SocketFields
  BY DEF Connected, Socket, TxOrder, Unsent, Arriving
<1>2. CASE Beyond(t, h) > 0 /\ (~t.finSent \/ Beyond(t, h) # 1)
  <2> DEFINE u == SendTCP(t, {"ack"}, "none")
             r == [u EXCEPT !.done = TRUE]
  <2>1. AckSegment(t, h) = r
    BY <1>2 DEF AckSegment
  <2>2. /\ Connected(u) /\ Kept(u, t)
        /\ t.txFin => u.txFin
        /\ u.txFin => u.timer \/ u.window = 0
    BY SendTCPConnected
  <2> HIDE DEF u
  <2>3. Connected(r) /\ r.sm = u.sm /\ RxKept(r, u)
    BY <2>2 DEF Connected, Socket, SocketFields, TxOrder, RxOrder, RxFree, Counted,
                Queued, RxKept
  <2>4. Waits(t) => Waits(r)
    BY <2>2 DEF Waits, Connected, Socket, SocketFields
  <2> HIDE DEF r
  <2> QED BY <2>1, <2>2, <2>3, <2>4 DEF Answered, RxKept, Kept
<1>3. CASE ~ (Beyond(t, h) > 0 /\ (~t.finSent \/ Beyond(t, h) # 1))
  <2> DEFINE ack == AckOfData(t, h)
             a == IF Acked(t, ack) > 0 THEN DropAcked(t, ack) ELSE NoneAcked(t)
             b == StopTimer(a, ack)
             c == TakeWindow(b, h, ack)
  <2>1. AckSegment(t, h) = AfterFin(c, h, ack)
    BY <1>3 DEF AckSegment
  <2>2. ack \in Int /\ ack <= t.mySeq + Unsent(t)
    BY <1>1, <1>3 DEF AckOfData, Beyond
  <2> HIDE DEF ack
  <2>3. Connected(a) /\ TxOnly(a, t) /\ (Waits(t) => Waits(a))
    BY <2>2, DropAckedConnected, NoneAckedConnected
  <2> HIDE DEF a
  <2>4. /\ Connected(b) /\ TxOnly(b, a) /\ b.mySeq = a.mySeq /\ b.finSent = a.finSent
        /\ Waits(a) => Waits(b) \/ (a.mySeq = ack /\ a.finSent)
    BY <2>3, StopTimerConnected
  <2> HIDE DEF b
  <2>5. /\ Connected(c) /\ TxOnly(c, b) /\ c.mySeq = b.mySeq /\ c.finSent = b.finSent
        /\ Waits(b) => Waits(c)
    BY <2>2, <2>4, TakeWindowConnected
  <2> HIDE DEF c
  <2>6. TxOnly(c, t) /\ c.sm # "LAST_ACK"
    BY <2>3, <2>4, <2>5 DEF TxOnly
  <2>7. Waits(t) => Waits(c) \/ (c.mySeq = ack /\ c.finSent)
    BY <2>3, <2>4, <2>5
  <2> QED BY <2>1, <2>2, <2>5, <2>6, <2>7, AfterFinAnswers
<1> QED BY <1>2, <1>3

-----------------------------------------------------------------------------
(* The bytes and the FIN of a segment. *)

\* What comes in moves RemoteSEQ and the head of the FIFO together.
Received(r, t) ==
  /\ Connected(r) /\ r.sm = t.sm /\ r.port = t.port
  /\ r.remoteSeq - r.rxHead = t.remoteSeq - t.rxHead
  /\ Waits(t) => Waits(r)

\* What only the receiving side changes.
Untouched(r, t) ==
  /\ DOMAIN r = SocketFields
  /\ r.sm = t.sm /\ r.port = t.port /\ r.iss = t.iss /\ r.mySeq = t.mySeq /\ r.synSent = t.synSent
  /\ r.txTail = t.txTail /\ r.txUnacked = t.txUnacked /\ r.txHead = t.txHead
  /\ r.window = t.window /\ r.noneAcked = t.noneAcked /\ r.retries = t.retries
  /\ r.keepalives = t.keepalives /\ r.synQueue = t.synQueue /\ r.out = t.out
  /\ r.txFin = t.txFin /\ r.timer = t.timer /\ r.asap = t.asap
  /\ r.asapKeepTimer = t.asapKeepTimer

\* It is enough that the receiving side keeps its own order.
LEMMA UntouchedReceived ==
  ASSUME NEW t, Connected(t), NEW r, Untouched(r, t), RxOrder(r), r.remoteSeq \in Int,
         r.remoteSeq - r.rxHead = t.remoteSeq - t.rxHead
  PROVE  Received(r, t)
<1>1. TxOrder(r) /\ Counted(r) /\ Queued(r)
  BY DEF Untouched, Connected, Socket, TxOrder, Counted, Queued
<1>2. Socket(r)
  BY <1>1 DEF Connected, Untouched, Socket
<1>3. t.remoteSeq \in Int /\ t.rxHead \in Int /\ r.rxHead \in Int
  BY DEF Connected, Socket, RxOrder
<1>4. r.remoteSeq - 1 - r.rxHead = t.remoteSeq - 1 - t.rxHead
  BY <1>3
<1>5. Connected(r)
  BY <1>2, <1>4 DEF Connected, Untouched
<1> QED BY <1>5 DEF Received, Untouched, Waits

LEMMA FillHoleReceived ==
  ASSUME NEW t, Connected(t), NEW len \in Nat, len <= RxFree(t), NEW u, Untouched(u, t),
         u.rxHead = t.rxHead + len, u.remoteSeq = t.remoteSeq + len,
         u.rxTail = t.rxTail, u.hole = t.hole, u.future = t.future
  PROVE  Received(FillHole(u, len), t)
<1> DEFINE hole == u.hole - len
           more == u.future + hole
           r == FillHole(u, len)
<1>1. /\ RxOrder(t) /\ t.remoteSeq \in Int /\ DOMAIN u = SocketFields
      /\ t.rxTail \in Nat /\ t.rxHead \in Nat /\ t.hole \in Int /\ t.future \in Int
      /\ RxRing \in Nat
  BY TcpAssumption DEF Connected, Socket, RxOrder, Untouched, TcpAssumption
<1>2. CASE u.hole = -1
  <2>1. r = u
    BY <1>2 DEF FillHole
  <2>2. RxOrder(u) /\ u.remoteSeq \in Int /\ u.remoteSeq - u.rxHead = t.remoteSeq - t.rxHead
    BY <1>1, <1>2 DEF RxOrder, RxFree
  <2> QED BY <2>1, <2>2, UntouchedReceived
<1>3. CASE u.hole # -1 /\ more < 0
  <2>1. r = [u EXCEPT !.hole = -1, !.future = 0]
    BY <1>3 DEF FillHole
  <2> HIDE DEF r, more, hole
  <2>2. /\ Untouched(r, t) /\ r.hole = -1 /\ r.future = 0 /\ r.rxTail = t.rxTail
        /\ r.rxHead = t.rxHead + len /\ r.remoteSeq = t.remoteSeq + len
    BY <1>1, <2>1 DEF Untouched, SocketFields
  <2>3. RxOrder(r) /\ r.remoteSeq \in Int /\ r.remoteSeq - r.rxHead = t.remoteSeq - t.rxHead
    BY <1>1, <2>2 DEF RxOrder, RxFree
  <2>4. Received(r, t)
    BY <2>2, <2>3, UntouchedReceived
  <2> QED BY <2>4 DEF r
<1>4. CASE u.hole # -1 /\ ~ (more < 0) /\ hole > 0
  <2>1. r = [u EXCEPT !.hole = hole]
    BY <1>4 DEF FillHole
  <2> HIDE DEF r
  <2>2. /\ Untouched(r, t) /\ r.hole = t.hole - len /\ r.future = t.future /\ r.rxTail = t.rxTail
        /\ r.rxHead = t.rxHead + len /\ r.remoteSeq = t.remoteSeq + len
    BY <1>1, <2>1 DEF Untouched, SocketFields
  <2>3. RxOrder(r) /\ r.remoteSeq \in Int /\ r.remoteSeq - r.rxHead = t.remoteSeq - t.rxHead
    BY <1>1, <1>4, <2>2 DEF RxOrder, RxFree
  <2>4. Received(r, t)
    BY <2>2, <2>3, UntouchedReceived
  <2> QED BY <2>4 DEF r
<1>5. CASE u.hole # -1 /\ ~ (more < 0) /\ ~ (hole > 0)
  <2>1. r = [u EXCEPT !.hole = -1, !.future = 0, !.remoteSeq = @ + more, !.rxHead = @ + more]
    BY <1>5 DEF FillHole
  <2> HIDE DEF r
  <2>2. /\ Untouched(r, t) /\ r.hole = -1 /\ r.future = 0 /\ r.rxTail = t.rxTail
        /\ r.rxHead = t.rxHead + len + more /\ r.remoteSeq = t.remoteSeq + len + more
    BY <1>1, <2>1 DEF Untouched, SocketFields
  <2>3. more = t.future + t.hole - len /\ t.hole + t.future <= RxFree(t) /\ more >= 0
    BY <1>1, <1>5 DEF RxOrder
  <2> HIDE DEF more
  <2>4. RxOrder(r) /\ r.remoteSeq \in Int /\ r.remoteSeq - r.rxHead = t.remoteSeq - t.rxHead
    BY <1>1, <2>2, <2>3 DEF RxOrder, RxFree
  <2>5. Received(r, t)
    BY <2>2, <2>4, UntouchedReceived
  <2> QED BY <2>5 DEF r
<1> QED BY <1>2, <1>3, <1>4, <1>5

\* A segment of the connection that has a length and lies in the window.
Fits(t, h) ==
  /\ Arriving(h) /\ h.kind = "ack" /\ SegmentLength(h) > 0
  /\ RxFree(t) > Missing(t, h) /\ RxFree(t) > 0
  /\ Missing(t, h) + SegmentLength(h) > 0

\* A WORD is two halves.
LEMMA TwoHalves ==
  LET half == Word \div 2
  IN half \in Nat /\ Word = 2 * half /\ Mss + 1 < half /\ RxRing <= half
     /\ Mss \in Nat /\ RxRing \in Nat
BY TcpAssumption DEF TcpAssumption

\* A number within the range of a SHORT is not changed by one.
LEMMA ShortIs ==
  ASSUME NEW n \in Int, - (Word \div 2) <= n, n < Word \div 2
  PROVE  Short(n) = n
<1> DEFINE half == Word \div 2
<1>1. half \in Nat /\ Word = 2 * half /\ half > 1
  BY TwoHalves
<1>2. Short(n) = ((n + half) % Word) - half
  BY DEF Short
<1>3. n + half \in 0 .. Word - 1
  <2> HIDE DEF half
  <2>1. - half <= n /\ n < half
    BY DEF half
  <2> QED BY <1>1, <2>1
<1> HIDE DEF half
<1>4. (n + half) % Word = n + half
  <2> DEFINE m == n + half
  <2>1. m \in Nat /\ m < Word /\ Word \in Nat
    BY <1>1, <1>3
  <2> HIDE DEF m
  <2>2. m % Word = m
    BY <2>1
  <2> QED BY <2>2 DEF m
<1> QED BY <1>1, <1>2, <1>4

\* A segment that fits is not so far away that a WORD could not tell.
LEMMA WordIsMissing ==
  ASSUME NEW t, Connected(t), NEW h, Fits(t, h)
  PROVE  MissingWord(t, h) = Missing(t, h)
<1> DEFINE half == Word \div 2
<1>1. half \in Nat /\ Mss + 1 < half /\ RxRing <= half /\ Mss \in Nat /\ RxRing \in Nat
  BY TwoHalves
<1> HIDE DEF half
<1>2. Missing(t, h) \in Int /\ RxFree(t) \in Int /\ RxFree(t) < RxRing
  BY <1>1 DEF Connected, Socket, RxOrder, RxFree, Fits, Arriving, Missing
<1>3. SegmentLength(h) \in Int /\ SegmentLength(h) <= Mss + 1
  BY <1>1 DEF Fits, Arriving, SegmentLength
<1>4. - half <= Missing(t, h) /\ Missing(t, h) < half
  BY <1>1, <1>2, <1>3 DEF Fits
<1> QED BY <1>2, <1>4, ShortIs DEF MissingWord, half

\* A segment that comes in time and is accepted lies in the window.
LEMMA InTimeFits ==
  ASSUME NEW t, Connected(t), NEW h, Arriving(h), h.kind = "ack", t.port = h.port,
         InTime(t, h), Acceptable(t, h), SegmentLength(h) > 0
  PROVE  Fits(t, h)
<1> DEFINE half == Word \div 2
           length == SegmentLength(h)
           missing == Missing(t, h)
           free == RxFree(t)
<1>1. half \in Nat /\ Mss + 1 < half /\ RxRing <= half /\ Mss \in Nat /\ RxRing \in Nat
  BY TwoHalves
<1>2. free \in Int /\ free < RxRing /\ missing \in Int /\ length \in 1 .. Mss + 1
  <2> HIDE DEF half
  <2> QED BY <1>1 DEF Connected, Socket, RxOrder, RxFree, Arriving, Missing, SegmentLength
<1>3. - half <= missing
  <2>1. t.remoteSeq - h.seq <= half /\ t.remoteSeq \in Int /\ h.seq \in Int
    BY DEF InTime, Connected, Socket, Arriving
  <2> HIDE DEF half
  <2> QED BY <1>1, <2>1 DEF Missing
<1>4. /\ free > 0
      /\ \/ missing >= 0 /\ free > missing
         \/ missing + length > 0 /\ missing <= Short(free - length)
         \/ missing < free /\ Short(missing) + Short(length) > 0
  BY DEF Acceptable, Ahead, MissingWord
<1> HIDE DEF length, missing, free
<1>5. free - length \in Int /\ - half <= free - length /\ free - length < half
      /\ length \in Int /\ - half <= length /\ length < half
      /\ (missing < free => missing < half)
  <2> HIDE DEF half
  <2> QED BY <1>1, <1>2, <1>4
<1>6. Short(free - length) = free - length /\ Short(length) = length
      /\ (missing < free => Short(missing) = missing)
  BY <1>2, <1>3, <1>5, ShortIs
<1>7. free > missing /\ missing + length > 0
  <2> HIDE DEF half
  <2> QED BY <1>2, <1>4, <1>6
<1> QED BY <1>4, <1>7 DEF Fits, length, missing, free

LEMMA StoreNextReceived ==
  ASSUME NEW t, Connected(t), NEW h, Fits(t, h), Missing(t, h) <= 0
  PROVE  Received(StoreNext(t, h), t)
<1> DEFINE old == - Missing(t, h)
           len == Lesser(h.len - old, RxFree(t))
           bytes == SubSeq(Payload(h), old + 1, old + len)
           u == [t EXCEPT !.rxFifo = Written(@, RxRing, t.rxHead, bytes),
                          !.remoteSeq = @ + len, !.rxHead = @ + len]
<1>1. /\ RxFree(t) \in Int /\ h.seq \in Int /\ t.remoteSeq \in Int /\ h.len \in Nat
      /\ DOMAIN t = SocketFields
  BY TcpAssumption DEF Connected, Socket, RxOrder, RxFree, Fits, Arriving, TcpAssumption
<1>2. len \in Nat /\ len <= RxFree(t)
  <2>1. SegmentLength(h) \in {h.len, h.len + 1}
    BY <1>1 DEF SegmentLength, Fits
  <2>2. Missing(t, h) \in Int /\ h.len + Missing(t, h) >= 0
    BY <1>1, <2>1 DEF Missing, Fits
  <2> QED BY <1>1, <2>2 DEF Lesser, Fits
<1>3. StoreNext(t, h) = FillHole(u, len)
  BY WordIsMissing DEF StoreNext
<1> HIDE DEF len, bytes
<1>4. /\ Untouched(u, t) /\ u.rxHead = t.rxHead + len /\ u.remoteSeq = t.remoteSeq + len
      /\ u.rxTail = t.rxTail /\ u.hole = t.hole /\ u.future = t.future
  BY <1>1 DEF Untouched, SocketFields
<1> HIDE DEF u
<1> QED BY <1>2, <1>3, <1>4, FillHoleReceived

LEMMA StoreFutureReceived ==
  ASSUME NEW t, Connected(t), NEW h, Fits(t, h), Missing(t, h) > 0, h.len > 0
  PROVE  Received(StoreFuture(t, h), t)
<1> DEFINE at == Missing(t, h)
           len == Lesser(h.len, RxFree(t) - at)
           end == at + len
           oldEnd == t.hole + t.future
           fifo == Written(t.rxFifo, RxRing, t.rxHead + at, SubSeq(Payload(h), 1, len))
           u == [t EXCEPT !.rxFifo = fifo]
           r == StoreFuture(t, h)
<1>1. /\ RxOrder(t) /\ RxFree(t) \in Int /\ at \in Int /\ at > 0 /\ at < RxFree(t)
      /\ h.len \in Nat /\ t.remoteSeq \in Int
      /\ t.hole \in Int /\ t.future \in Int /\ DOMAIN t = SocketFields
  BY TcpAssumption DEF Connected, Socket, RxOrder, RxFree, Fits, Arriving, Missing, TcpAssumption
<1> HIDE DEF at
<1>2. len \in Int /\ len > 0 /\ at + len <= RxFree(t)
  BY <1>1 DEF Lesser
<1>3. r = IF t.hole = -1 THEN [u EXCEPT !.hole = at, !.future = len]
          ELSE IF at < t.hole
          THEN [u EXCEPT !.hole = at,
                         !.future = IF end > oldEnd \/ end < t.hole THEN len ELSE oldEnd - at]
          ELSE IF end > oldEnd /\ at <= oldEnd THEN [u EXCEPT !.future = end - t.hole]
          ELSE u
  BY WordIsMissing DEF StoreFuture, at
<1> HIDE DEF len, fifo, r
<1>4. /\ Untouched(r, t) /\ r.rxHead = t.rxHead /\ r.remoteSeq = t.remoteSeq
      /\ r.rxTail = t.rxTail
  BY <1>1, <1>3 DEF Untouched, SocketFields
<1>5. \/ r.hole = t.hole /\ r.future = t.future
      \/ r.hole > 0 /\ r.future > 0 /\ r.hole + r.future <= RxFree(t)
         /\ r.hole \in Int /\ r.future \in Int
  <2>1. CASE t.hole = -1
    <3>1. r.hole = at /\ r.future = len
      BY <1>1, <1>3, <2>1 DEF SocketFields
    <3> QED BY <1>1, <1>2, <3>1
  <2>2. t.hole # -1 => t.hole > 0 /\ t.future > 0 /\ oldEnd <= RxFree(t)
    BY <1>1 DEF RxOrder
  <2>3. CASE t.hole # -1 /\ at < t.hole
    <3>1. r.hole = at /\ r.future \in {len, oldEnd - at}
      BY <1>1, <1>3, <2>3 DEF SocketFields
    <3> QED BY <1>1, <1>2, <2>2, <2>3, <3>1
  <2>4. CASE t.hole # -1 /\ ~ (at < t.hole) /\ end > oldEnd /\ at <= oldEnd
    <3>1. r.hole = t.hole /\ r.future = end - t.hole
      BY <1>1, <1>3, <2>4 DEF SocketFields
    <3> QED BY <1>1, <1>2, <2>2, <2>4, <3>1
  <2>5. CASE t.hole # -1 /\ ~ (at < t.hole) /\ ~ (end > oldEnd /\ at <= oldEnd)
    BY <1>1, <1>3, <2>5 DEF SocketFields
  <2> QED BY <2>1, <2>3, <2>4, <2>5
<1>6. RxOrder(r)
  BY <1>1, <1>4, <1>5 DEF RxOrder, RxFree
<1>7. Received(r, t)
  BY <1>1, <1>4, <1>6, UntouchedReceived
<1> QED BY <1>7 DEF r

\* Stored bytes move RemoteSEQ and the head of the FIFO together.
LEMMA StoreDataReceived ==
  ASSUME NEW t, Connected(t), NEW h, Fits(t, h)
  PROVE  Received(StoreData(t, h), t)
<1>1. CASE h.len = 0
  BY <1>1 DEF StoreData, Received
<1>2. CASE h.len # 0 /\ Missing(t, h) <= 0
  BY <1>2, StoreNextReceived, WordIsMissing DEF StoreData
<1>3. CASE h.len # 0 /\ ~ (Missing(t, h) <= 0)
  <2>1. Missing(t, h) > 0 /\ h.len > 0
    BY <1>3 DEF Connected, Socket, Fits, Arriving, Missing
  <2> QED BY <1>3, <2>1, StoreFutureReceived, WordIsMissing DEF StoreData
<1> QED BY <1>1, <1>2, <1>3

LEMMA DiscardedReceived ==
  ASSUME NEW t, Connected(t)
  PROVE  /\ Received(Discarded(t), t) /\ Untouched(Discarded(t), t)
         /\ Discarded(t).remoteSeq = t.remoteSeq /\ Discarded(t).rxHead = t.rxHead
<1> DEFINE fifo == Cleared(t.rxFifo, RxRing, t.rxTail, t.rxHead)
           r == Discarded(t)
<1>1. /\ RxOrder(t) /\ t.remoteSeq \in Int /\ DOMAIN t = SocketFields
      /\ RxRing - 1 \in Nat
  BY TcpAssumption DEF Connected, Socket, TcpAssumption
<1>2. r = [t EXCEPT !.rxTail = t.rxHead, !.rxFifo = fifo]
  BY DEF Discarded
<1> HIDE DEF r, fifo
<1>3. /\ Untouched(r, t) /\ r.rxTail = t.rxHead /\ r.rxHead = t.rxHead
      /\ r.remoteSeq = t.remoteSeq /\ r.hole = t.hole /\ r.future = t.future
  BY <1>1, <1>2 DEF Untouched, SocketFields
<1>4. RxOrder(r)
  BY <1>1, <1>3 DEF RxOrder, RxFree
<1>5. Received(r, t)
  BY <1>1, <1>3, <1>4, UntouchedReceived
<1> QED BY <1>3, <1>5 DEF r

\* Sending is no matter of what comes in.
LEMMA SendTCPReceived ==
  ASSUME NEW t, Connected(t), NEW flags, flags \cap {"syn", "rst"} = {},
         NEW mode, mode # "probe"
  PROVE  Received(SendTCP(t, flags, mode), t)
<1> DEFINE r == SendTCP(t, flags, mode)
<1>1. /\ Connected(r) /\ Kept(r, t)
      /\ t.txFin => r.txFin
      /\ r.txFin => r.timer \/ r.window = 0
  BY SendTCPConnected
<1> HIDE DEF r
<1> QED BY <1>1 DEF Received, Kept, Waits, r

LEMMA AnswerDataReceived ==
  ASSUME NEW t, Connected(t), NEW h
  PROVE  Received(AnswerData(t, h), t)
<1> DEFINE u == IF t.sm # "ESTABLISHED" THEN Discarded(t) ELSE t
           v == [u EXCEPT !.delayedAck = TRUE]
           w == SendTCP(u, {"ack"}, "reset")
<1>1. Received(u, t)
  BY DiscardedReceived DEF Received
<1> HIDE DEF u
<1>2. Connected(u)
  BY <1>1 DEF Received
<1>3. Received(v, u)
  <2>1. Untouched(v, u) /\ RxOrder(v) /\ v.remoteSeq = u.remoteSeq /\ v.rxHead = u.rxHead
    BY <1>2 DEF Untouched, Connected, Socket, SocketFields, RxOrder, RxFree
  <2>2. v.remoteSeq \in Int
    BY <1>2, <2>1 DEF Connected, Socket
  <2> HIDE DEF v
  <2> QED BY <1>2, <2>1, <2>2, UntouchedReceived
<1>4. Received(w, u)
  BY <1>2, SendTCPReceived
<1>5. AnswerData(t, h) \in {t, v, w}
  BY DEF AnswerData, u
<1> HIDE DEF v, w
<1>6. Received(v, t) /\ Received(w, t) /\ Received(t, t)
  BY <1>1, <1>3, <1>4 DEF Received
<1> QED BY <1>5, <1>6

\* Where a segment ends: behind its FIN, if it has one.
End(h) == h.seq + SegmentLength(h)

\* What a segment makes of a connection.
Handled(r, t, h) ==
  \/ AtRest(r)
  \/ /\ Connected(r) /\ StateSawFin(r) /\ r.port = t.port
     /\ Alive(t) => Alive(r)
     /\ FinCounted(r) => \/ FinCounted(t) /\ r.remoteSeq = t.remoteSeq
                         \/ h.kind = "ack" /\ h.fin /\ r.remoteSeq = End(h)

\* A FIN counts once, and only a segment with one makes it count.
LEMMA FinSegmentHandled ==
  ASSUME IsFiniteSet(toPeer), IsFiniteSet(toDevice),
         NEW t, Connected(t), ~FinCounted(t), t.sm \in {"ESTABLISHED", "FIN_WAIT_1", "FIN_WAIT_2"},
         NEW h, Arriving(h), h.kind = "ack"
  PROVE  Handled(FinSegment(t, h), t, h)
<1> DEFINE u == [t EXCEPT !.remoteSeq = @ + 1]
           ack == AckOfData(t, h)
           r == FinSegment(t, h)
           Acknowledge(v) == SendTCP(v, {"ack"}, "reset")
           Last(v) == CloseSocket(SendTCP(v, {"ack"}, "none"))
<1>1. StateSawFin(t)
  BY DEF StateSawFin
<1>2. CASE ~h.fin \/ t.remoteSeq + 1 # End(h)
  <2>1. r = t
    BY <1>2 DEF FinSegment, End
  <2> QED BY <1>1, <2>1 DEF Handled, r
<1>3. ASSUME h.fin, t.remoteSeq + 1 = End(h) PROVE Handled(r, t, h)
  <2>1. DOMAIN t = SocketFields /\ t.remoteSeq = 1 + t.rxHead /\ t.rxHead \in Int /\ t.remoteSeq \in Int
    <3>1. t.remoteSeq \in Int /\ t.rxHead \in Int /\ t.remoteSeq - 1 - t.rxHead \in {0, 1} /\ t.sm \notin Idle
      BY DEF Connected, Socket, RxOrder
    <3> QED BY <3>1 DEF Connected, Socket, FinCounted
  \* In any state, the FIN is counted.
  <2>2. ASSUME NEW sm \in States \ Idle
        PROVE  LET v == [u EXCEPT !.sm = sm]
               IN /\ Connected(v) /\ v.sm = sm /\ v.port = t.port
                  /\ v.remoteSeq = End(h) /\ FinCounted(v) /\ (Waits(t) => Waits(v))
    <3> DEFINE v == [u EXCEPT !.sm = sm]
    <3>1. /\ DOMAIN v = SocketFields /\ v.sm = sm /\ v.port = t.port /\ v.iss = t.iss
          /\ v.mySeq = t.mySeq /\ v.synSent = t.synSent
          /\ v.txTail = t.txTail /\ v.txUnacked = t.txUnacked /\ v.txHead = t.txHead
          /\ v.window = t.window /\ v.noneAcked = t.noneAcked /\ v.retries = t.retries
          /\ v.keepalives = t.keepalives /\ v.synQueue = t.synQueue /\ v.out = t.out
          /\ v.txFin = t.txFin /\ v.timer = t.timer /\ v.asap = t.asap
          /\ v.asapKeepTimer = t.asapKeepTimer
          /\ v.rxTail = t.rxTail /\ v.rxHead = t.rxHead /\ v.hole = t.hole
          /\ v.future = t.future /\ v.remoteSeq = t.remoteSeq + 1
      BY <2>1 DEF SocketFields
    <3> HIDE DEF v
    <3>2. TxOrder(v) /\ RxOrder(v) /\ Counted(v) /\ Queued(v)
      BY <3>1 DEF Connected, Socket, TxOrder, RxOrder, RxFree, Counted, Queued
    <3>3. v.remoteSeq = 2 + v.rxHead /\ v.remoteSeq - 1 - v.rxHead = 1 /\ v.remoteSeq \in Int
      BY <2>1, <3>1
    <3>4. Socket(v)
      BY <3>1, <3>2, <3>3 DEF Connected, Socket
    <3>5. Connected(v)
      BY <3>1, <3>3, <3>4 DEF Connected
    <3> QED BY <1>3, <3>1, <3>3, <3>5 DEF FinCounted, Waits, v
  <2>3. u = [u EXCEPT !.sm = t.sm]
    BY <2>1 DEF SocketFields
  <2>4. t.sm \in States \ Idle
    BY DEF Connected, Socket
  <2>5. ASSUME NEW v, Connected(v), v.port = t.port, v.remoteSeq = End(h), FinCounted(v),
               v.sm \in {"CLOSE_WAIT", "CLOSING", "FIN_WAIT_1", "FIN_WAIT_2"},
               v.sm = "CLOSING" => t.sm = "FIN_WAIT_1",
               v.sm = "FIN_WAIT_1" => t.sm = "FIN_WAIT_1",
               Waits(t) => Waits(v)
        PROVE  Handled(Acknowledge(v), t, h)
    <3> DEFINE a == Acknowledge(v)
    <3>1. Connected(a) /\ a.remoteSeq = v.remoteSeq /\ a.rxHead = v.rxHead /\ a.sm = v.sm
      BY <2>5, SendTCPConnected DEF Kept
    <3>2. Received(a, v)
      BY <2>5, SendTCPReceived
    <3> HIDE DEF a
    <3>3. FinCounted(a) /\ StateSawFin(a)
      BY <2>5, <3>1 DEF FinCounted, StateSawFin
    <3>4. Alive(t) => Alive(a)
      BY <2>5, <3>1, <3>2 DEF Alive, Received
    <3> QED BY <1>3, <2>5, <3>1, <3>2, <3>3, <3>4 DEF Handled, Received, a
  <2>6. CASE t.sm = "ESTABLISHED"
    <3>1. r = Acknowledge([u EXCEPT !.sm = "CLOSE_WAIT"])
      BY <1>3, <2>6 DEF FinSegment, End
    <3>2. "CLOSE_WAIT" \in States \ Idle
      BY DEF States, Open, Idle
    <3> HIDE DEF u, r, Acknowledge
    <3> QED BY <2>2, <2>5, <3>1, <3>2
  <2>7. CASE t.sm = "FIN_WAIT_1" /\ t.mySeq # ack
    <3>1. r = Acknowledge([u EXCEPT !.sm = "CLOSING"])
      BY <1>3, <2>7 DEF FinSegment, End
    <3>2. "CLOSING" \in States \ Idle
      BY DEF States, Leaving, Idle
    <3> HIDE DEF u, r, Acknowledge
    <3> QED BY <2>2, <2>5, <2>7, <3>1, <3>2
  <2>8. CASE t.sm = "FIN_WAIT_2" \/ (t.sm = "FIN_WAIT_1" /\ t.mySeq = ack)
    <3>1. r = Last(u)
      <4>1. CASE t.sm = "FIN_WAIT_2"
        BY <1>3, <4>1 DEF FinSegment, End
      <4>2. CASE t.sm = "FIN_WAIT_1" /\ t.mySeq = ack
        BY <1>3, <4>2 DEF FinSegment, End
      <4> QED BY <2>8, <4>1, <4>2
    <3>2. Connected(u)
      <4> HIDE DEF u
      <4> QED BY <2>2, <2>3, <2>4
    <3> HIDE DEF u
    <3>3. Socket(SendTCP(u, {"ack"}, "none"))
      BY <3>2, SendTCPTyped DEF Connected
    <3> QED BY <3>1, <3>3, CloseSocketAtRest DEF Handled
  <2> QED BY <2>6, <2>7, <2>8
<1> QED BY <1>2, <1>3

\* Data and FIN of a segment that is acceptable.
LEMMA DataSegmentHandled ==
  ASSUME IsFiniteSet(toPeer), IsFiniteSet(toDevice),
         NEW t, Connected(t), StateSawFin(t), t.sm # "SYN_RECEIVED",
         NEW h, Arriving(h), h.kind = "ack", SegmentLength(h) > 0 => Fits(t, h),
         FinCounted(t) => End(h) <= t.remoteSeq
  PROVE  Handled(DataSegment(t, h), t, h)
<1>1. Handled(t, t, h)
  BY DEF Handled
<1>2. CASE t.done \/ t.sm \in {"CLOSE_WAIT", "CLOSING", "LAST_ACK"}
  BY <1>1, <1>2 DEF DataSegment
<1>3. CASE ~t.done /\ t.sm \notin {"CLOSE_WAIT", "CLOSING", "LAST_ACK"}
  <2> DEFINE a == StoreData(t, h)
             b == AnswerData(a, h)
             r == FinSegment(b, h)
  <2>1. DataSegment(t, h) = r
    BY <1>3 DEF DataSegment
  <2>2. t.sm \in {"ESTABLISHED", "FIN_WAIT_1", "FIN_WAIT_2"}
    BY <1>3 DEF Connected, Socket, States, Open, Leaving, Idle
  <2>3. CASE SegmentLength(h) > 0
    <3>1. Fits(t, h) /\ h.seq \in Int /\ SegmentLength(h) \in Int /\ t.remoteSeq \in Int
      BY <2>3 DEF Arriving, SegmentLength, Connected, Socket
    <3>2. ~FinCounted(t)
      BY <3>1 DEF Fits, Missing, End
    <3>3. Received(a, t)
      BY <3>1, StoreDataReceived
    <3> HIDE DEF a
    <3>4. Connected(a)
      BY <3>3 DEF Received
    <3>5. Received(b, a)
      BY <3>4, AnswerDataReceived
    <3> HIDE DEF b
    <3>6. /\ Connected(b) /\ b.sm = t.sm /\ b.port = t.port
          /\ b.remoteSeq - b.rxHead = t.remoteSeq - t.rxHead
          /\ Waits(t) => Waits(b)
      BY <3>3, <3>5 DEF Received
    <3>7. ~FinCounted(b)
      <4>1. /\ b.remoteSeq \in Int /\ b.rxHead \in Int /\ t.remoteSeq \in Int /\ t.rxHead \in Int
        BY <3>6 DEF Connected, Socket, RxOrder
      <4>2. t.sm \notin Idle /\ t.remoteSeq # 2 + t.rxHead
        BY <3>2 DEF FinCounted, Connected
      <4>3. b.remoteSeq # 2 + b.rxHead
        BY <3>6, <4>1, <4>2
      <4> QED BY <4>3 DEF FinCounted
    <3>8. Handled(r, b, h)
      BY <2>2, <3>6, <3>7, FinSegmentHandled
    <3>9. Alive(t) => Alive(b)
      BY <2>2, <3>6 DEF Alive
    <3> HIDE DEF r
    <3>10. Handled(r, t, h)
      BY <3>6, <3>7, <3>8, <3>9 DEF Handled
    <3> QED BY <2>1, <3>10
  <2>4. CASE ~ (SegmentLength(h) > 0)
    <3>1. SegmentLength(h) = 0 /\ h.len = 0 /\ ~h.fin
      BY <2>4 DEF SegmentLength, Arriving
    <3>2. r = t
      BY <3>1 DEF StoreData, AnswerData, FinSegment
    <3> QED BY <1>1, <2>1, <3>2
  <2> QED BY <2>3, <2>4
<1> QED BY <1>2, <1>3

-----------------------------------------------------------------------------
(* HandleTCPSeg. *)

\* What a call may make of a socket: with the segment h of its connection.
Outcome(r, t, h) ==
  /\ Good(r)
  /\ FinCounted(r) => \/ FinCounted(t) /\ r.remoteSeq = t.remoteSeq /\ r.port = t.port
                      \/ h.kind = "ack" /\ h.fin /\ r.remoteSeq = End(h) /\ r.port = h.port

LEMMA AtRestGood ==
  ASSUME NEW r, AtRest(r)
  PROVE  Good(r) /\ ~FinCounted(r)
BY DEF Good, AtRest, FinCounted

LEMMA SendTCPGood ==
  ASSUME NEW t, Good(t), NEW flags, flags \cap {"syn", "rst"} = {}, NEW mode,
         mode = "probe" => t.keepalives < Keepalives /\ ~AtRest(t)
  PROVE  LET r == SendTCP(t, flags, mode)
         IN /\ Good(r) /\ r.sm = t.sm /\ r.port = t.port /\ r.remoteSeq = t.remoteSeq
            /\ r.keepalives \in Int
            /\ FinCounted(r) = FinCounted(t) /\ (Connected(t) => Connected(r))
<1> DEFINE r == SendTCP(t, flags, mode)
<1>1. CASE AtRest(t)
  <2>1. AtRest(r) /\ Kept(r, t)
    BY <1>1, SendTCPAtRest
  <2> HIDE DEF r
  <2>2. ~Connected(t)
    BY <1>1 DEF AtRest, Connected
  <2>3. r.keepalives \in Int
    BY <2>1 DEF AtRest, Socket, Counted
  <2> QED BY <1>1, <2>1, <2>2, <2>3, AtRestGood DEF Kept, FinCounted, r
<1>2. CASE Connected(t) /\ StateSawFin(t) /\ Alive(t)
  <2>1. /\ Connected(r) /\ Kept(r, t) /\ FinCounted(r) = FinCounted(t)
        /\ t.timer \/ "syn" \in flags => r.timer
        /\ t.txFin \/ "fin" \in flags => r.txFin
        /\ r.txFin /\ flags \cap {"syn", "rst"} = {} => r.timer \/ r.window = 0
    BY <1>2, SendTCPConnected
  <2> HIDE DEF r
  <2>2. StateSawFin(r)
    BY <1>2, <2>1 DEF StateSawFin, Kept
  <2>3. Waits(t) => Waits(r)
    BY <2>1 DEF Waits
  <2>4. Alive(r)
    BY <1>2, <2>1, <2>3 DEF Alive, Kept
  <2>5. r.keepalives \in Int
    BY <2>1 DEF Connected, Socket, Counted
  <2> QED BY <2>1, <2>2, <2>4, <2>5 DEF Good, Kept, r
<1> QED BY <1>1, <1>2 DEF Good

\* A RST that claims to be an answer leaves the numbers as they are.
LEMMA RefuseTyped ==
  ASSUME NEW t, Socket(t), NEW h, Arriving(h), NEW mode, mode # "probe"
  PROVE  LET r == Refuse(t, h, mode)
         IN /\ Socket(r) /\ Kept(r, t) /\ r.mySeq = t.mySeq /\ (t.synSent => r.synSent)
            /\ r.txUnacked \in t.txUnacked .. t.txHead
            /\ t.timer => r.timer
<1> DEFINE u == [t EXCEPT !.mySeq = h.ack]
           v == SendTCP(u, {"rst"}, mode)
           r == [v EXCEPT !.mySeq = t.mySeq]
<1>1. Refuse(t, h, mode) = r
  BY DEF Refuse
<1>2. /\ Socket(u) /\ Kept(u, t) /\ u.synSent = t.synSent /\ u.txUnacked = t.txUnacked
      /\ u.timer = t.timer
  BY DEF Socket, SocketFields, TxOrder, RxOrder, RxFree, Counted, Queued, Kept, Arriving
<1> HIDE DEF u
<1>3. Socket(v) /\ Kept(v, u) /\ (u.timer => v.timer)
  BY <1>2, SendTCPTyped, SendTCPMoves, SendTCPTimes
<1>4. v.synSent = (u.synSent \/ "syn" \in {"rst"})
  BY <1>2, SendTCPMoves
<1>5. v.txUnacked \in u.txUnacked .. u.txHead
  <2>1. \E len \in Nat : len <= Unsent(u) /\ v.txUnacked = u.txUnacked + len
    BY <1>2, SendTCPMoves
  <2> HIDE DEF v
  <2> QED BY <1>2, <2>1 DEF Socket, TxOrder, Unsent
<1>6. u.synSent => v.synSent
  BY <1>4
<1> HIDE DEF v
<1>7. Socket(r) /\ Kept(r, v) /\ r.mySeq = t.mySeq /\ r.synSent = v.synSent
      /\ r.txUnacked = v.txUnacked /\ r.timer = v.timer
  BY <1>3 DEF Socket, SocketFields, TxOrder, RxOrder, RxFree, Counted, Queued, Kept
<1> HIDE DEF r
<1>8. u.txHead = t.txHead
  BY <1>2 DEF Kept
<1>9. Kept(r, t)
  BY <1>2, <1>3, <1>7 DEF Kept
<1> QED BY <1>1, <1>2, <1>3, <1>5, <1>6, <1>7, <1>8, <1>9

\* A socket that listens and gets a SYN has sent its own.
LEMMA SynAnswered ==
  ASSUME NEW t, AtRest(t), NEW u, DOMAIN u = SocketFields, u.remoteSeq = 1,
         \A f \in SocketFields \ {"sm", "port", "remoteSeq", "synQueue"} : u[f] = t[f],
         u.sm \in States, u.port \in Int, u.synQueue \in Seq(Waiting), Len(u.synQueue) <= SynQueueSize,
         NEW mode, mode # "probe",
         NEW r, DOMAIN r = SocketFields, r.sm = "SYN_RECEIVED",
         \A f \in SocketFields \ {"sm"} : r[f] = SendTCP(u, {"syn", "ack"}, mode)[f]
  PROVE  Good(r) /\ ~FinCounted(r)
<1> DEFINE v == SendTCP(u, {"syn", "ack"}, mode)
<1>1. /\ DOMAIN u = SocketFields
      /\ u.remoteSeq = 1 /\ u.iss = t.iss /\ u.mySeq = t.mySeq /\ u.window = t.window
      /\ u.txTail = t.txTail /\ u.txUnacked = t.txUnacked /\ u.txHead = t.txHead
      /\ u.rxTail = t.rxTail /\ u.rxHead = t.rxHead /\ u.hole = t.hole /\ u.future = t.future
      /\ u.noneAcked = t.noneAcked /\ u.retries = t.retries /\ u.keepalives = t.keepalives
      /\ u.synSent = t.synSent /\ u.out = t.out
  BY DEF SocketFields
<1>2. TxOrder(u) /\ RxOrder(u) /\ Counted(u) /\ Queued(u)
  BY <1>1 DEF AtRest, Socket, TxOrder, RxOrder, RxFree, Counted, Queued
<1>3. Socket(u) /\ ~u.synSent /\ Unsent(u) = 0 /\ u.txUnacked = 0 /\ u.txHead = 0 /\ u.rxHead = 0
      /\ u.mySeq = u.iss
  BY <1>1, <1>2 DEF AtRest, Socket, TxOrder, Unsent
<1> HIDE <1>1
<1>4. Socket(v) /\ Kept(v, u) /\ v.timer /\ v.synSent
  <2>1. v.synSent = (u.synSent \/ "syn" \in {"syn", "ack"})
    BY <1>3, SendTCPMoves
  <2> QED BY <1>3, <2>1, SendTCPTyped, SendTCPMoves, SendTCPTimes
<1>5. v.txUnacked = 0 /\ v.mySeq = u.iss + 1
  <2>1. PICK len \in Nat :
          /\ len <= Unsent(u) /\ len <= u.window
          /\ v.txUnacked = u.txUnacked + len
          /\ v.window = u.window - len
          /\ v.mySeq = u.mySeq + len + (IF "syn" \in {"syn", "ack"} /\ ~u.synSent THEN 1 ELSE 0)
    BY <1>3, SendTCPMoves
  <2> HIDE DEF v
  <2>2. len = 0
    BY <1>3, <2>1
  <2>3. v.mySeq = u.mySeq + 0 + 1
    BY <1>3, <2>1, <2>2
  <2> QED BY <1>3, <2>1, <2>2, <2>3 DEF Socket
<1> HIDE DEF v
<1>6. /\ Socket(r) /\ r.sm = "SYN_RECEIVED" /\ r.synSent /\ r.timer
      /\ r.txUnacked = 0 /\ r.mySeq = r.iss + 1 /\ r.txHead = 0 /\ r.rxHead = 0 /\ r.remoteSeq = 1
      /\ r.iss \in Int
  <2>1. Socket(r)
    <3>1. \A f \in SocketFields \ {"sm"} : r[f] = v[f]
      BY DEF v
    <3>2. /\ r.port = v.port /\ r.iss = v.iss /\ r.mySeq = v.mySeq /\ r.remoteSeq = v.remoteSeq
          /\ r.txTail = v.txTail /\ r.txUnacked = v.txUnacked /\ r.txHead = v.txHead
          /\ r.window = v.window /\ r.noneAcked = v.noneAcked /\ r.retries = v.retries
          /\ r.keepalives = v.keepalives /\ r.synQueue = v.synQueue /\ r.out = v.out
          /\ r.rxTail = v.rxTail /\ r.rxHead = v.rxHead /\ r.hole = v.hole /\ r.future = v.future
      BY <3>1 DEF SocketFields
    <3>3. TxOrder(r) /\ RxOrder(r) /\ Counted(r) /\ Queued(r)
      BY <1>4, <3>2 DEF Socket, TxOrder, RxOrder, RxFree, Counted, Queued
    <3> QED BY <1>4, <3>2, <3>3 DEF Socket, States
  <2>2. v.txHead = 0 /\ v.rxHead = 0 /\ v.remoteSeq = 1 /\ v.iss = u.iss
    BY <1>1, <1>3, <1>4 DEF Kept
  <2>3. \A f \in {"timer", "synSent", "txUnacked", "mySeq", "iss", "txHead", "rxHead", "remoteSeq"} :
          r[f] = v[f]
    BY DEF SocketFields, v
  <2> QED BY <1>4, <1>5, <2>1, <2>2, <2>3 DEF Socket
<1>7. Connected(r)
  <2>1. r.mySeq = r.iss + 1 + r.txUnacked /\ r.remoteSeq - 1 - r.rxHead = 0
    BY <1>6
  <2> QED BY <1>6, <2>1 DEF Connected, Idle
<1>8. ~FinCounted(r)
  BY <1>6 DEF FinCounted
<1> QED BY <1>6, <1>7, <1>8 DEF Good, StateSawFin, Alive

LEMMA ListenSegmentOutcome ==
  ASSUME IsFiniteSet(toPeer), IsFiniteSet(toDevice),
         NEW t, AtRest(t), NEW h, Arriving(h)
  PROVE  Outcome(ListenSegment(t, h), t, h)
<1> DEFINE r == ListenSegment(t, h)
<1>1. Socket(t)
  BY DEF AtRest
<1>2. CASE h.kind = "syn"
  <2> DEFINE u == [t EXCEPT !.remoteSeq = h.seq + 1]
  <2>1. r = [SendTCP(u, {"syn", "ack"}, "reset") EXCEPT !.sm = "SYN_RECEIVED"]
    BY <1>2 DEF ListenSegment
  <2>2. h.seq + 1 = 1
    BY <1>2 DEF Arriving
  <2>3. u.sm = t.sm /\ u.port = t.port /\ u.synQueue = t.synQueue
    BY <1>1 DEF Socket, SocketFields
  <2>4. /\ DOMAIN u = SocketFields /\ u.remoteSeq = 1
        /\ \A f \in SocketFields \ {"sm", "port", "remoteSeq", "synQueue"} : u[f] = t[f]
    BY <1>1, <2>2 DEF Socket, SocketFields
  <2>5. u.sm \in States /\ u.port \in Int /\ u.synQueue \in Seq(Waiting) /\ Len(u.synQueue) <= SynQueueSize
    BY <1>1, <2>3 DEF Socket, Queued
  <2>6. Socket(u)
    BY SMTT(40), <1>1, <2>2, <2>5 DEF Socket, SocketFields, TxOrder, RxOrder, RxFree, Counted, Queued
  <2> HIDE DEF u
  <2> DEFINE v == SendTCP(u, {"syn", "ack"}, "reset")
             w == [v EXCEPT !.sm = "SYN_RECEIVED"]
  <2>7. DOMAIN v = SocketFields
    BY <2>6, SendTCPMoves
  <2> HIDE DEF v
  <2>8. DOMAIN w = SocketFields /\ w.sm = "SYN_RECEIVED" /\ \A f \in SocketFields \ {"sm"} : w[f] = v[f]
    BY <2>7 DEF SocketFields
  <2> HIDE DEF w
  <2>9. Good(w) /\ ~FinCounted(w)
    BY <2>4, <2>5, <2>8, SynAnswered DEF v
  <2> QED BY <2>1, <2>9 DEF Outcome, v, w
<1>3. CASE h.kind = "ack"
  <2>1. r = CloseSocket(Refuse(t, h, "none"))
    BY <1>3 DEF ListenSegment
  <2>2. Socket(Refuse(t, h, "none"))
    BY <1>1, RefuseTyped
  <2> QED BY <2>1, <2>2, CloseSocketAtRest, AtRestGood DEF Outcome
<1>4. CASE h.kind # "syn" /\ h.kind # "ack"
  <2>1. r = CloseSocket(t)
    BY <1>4 DEF ListenSegment
  <2> QED BY <1>1, <2>1, CloseSocketAtRest, AtRestGood DEF Outcome
<1> QED BY <1>2, <1>3, <1>4

\* The fields that the order, the numbers and the timers are about.
Compared ==
  SocketFields \ {"txFifo", "rxFifo", "timer2", "delayedAck", "halfFull", "finSent",
                  "keepalives", "synQueue", "out", "done", "bServer", "port"}

\* A change of any other is of no matter.
LEMMA SameSocket ==
  ASSUME NEW t, Good(t), NEW r, DOMAIN r = SocketFields, Queued(r), r.keepalives \in 0 .. Keepalives,
         \A f \in Compared : r[f] = t[f],
         r.port \in Int
  PROVE  Good(r) /\ FinCounted(r) = FinCounted(t) /\ r.sm = t.sm /\ r.remoteSeq = t.remoteSeq
         /\ (Connected(t) => Connected(r)) /\ (AtRest(t) => AtRest(r))
<1>1. /\ r.sm = t.sm /\ r.remoteSeq = t.remoteSeq /\ r.iss = t.iss /\ r.mySeq = t.mySeq
      /\ r.window = t.window
      /\ r.txTail = t.txTail /\ r.txUnacked = t.txUnacked /\ r.txHead = t.txHead
      /\ r.rxTail = t.rxTail /\ r.rxHead = t.rxHead /\ r.hole = t.hole /\ r.future = t.future
      /\ r.noneAcked = t.noneAcked /\ r.retries = t.retries
      /\ r.synSent = t.synSent /\ r.txFin = t.txFin /\ r.timer = t.timer
      /\ r.asap = t.asap /\ r.asapKeepTimer = t.asapKeepTimer
  BY DEF SocketFields, Compared
<1>2. Socket(t)
  BY DEF Good, AtRest, Connected
<1>3. TxOrder(r) /\ RxOrder(r) /\ Counted(r)
  BY <1>1, <1>2 DEF Socket, TxOrder, RxOrder, RxFree, Counted
<1>4. Socket(r)
  BY <1>1, <1>2, <1>3 DEF Socket
<1>5. (AtRest(t) => AtRest(r)) /\ (Connected(t) => Connected(r)) /\ FinCounted(r) = FinCounted(t)
  BY <1>1, <1>4 DEF AtRest, Connected, FinCounted
<1>6. (StateSawFin(t) => StateSawFin(r)) /\ (Alive(t) => Alive(r))
  BY <1>1, <1>5 DEF StateSawFin, Alive, Waits
<1> QED BY <1>1, <1>5, <1>6 DEF Good

\* An acceptable segment of a connection that is not being opened or waiting
\* for the last acknowledgment.
LEMMA AckAndDataOutcome ==
  ASSUME IsFiniteSet(toPeer), IsFiniteSet(toDevice),
         NEW t, Connected(t), StateSawFin(t), Alive(t), t.sm \notin {"SYN_RECEIVED", "LAST_ACK"},
         NEW h, Arriving(h), h.kind = "ack", t.port = h.port,
         SegmentLength(h) > 0 => Fits(t, h),
         FinCounted(t) => End(h) <= t.remoteSeq
  PROVE  Outcome(DataSegment(AckSegment(t, h), h), t, h)
<1> DEFINE a == AckSegment(t, h)
           r == DataSegment(a, h)
<1> SUFFICES Outcome(r, t, h)
  OBVIOUS
<1>1. Answered(a, t)
  BY AckSegmentAnswers
<1> HIDE DEF a
<1>2. CASE AtRest(a) /\ a.done
  <2>1. r = a
    BY <1>2 DEF DataSegment
  <2> QED BY <1>2, <2>1, AtRestGood DEF Outcome
<1>3. CASE /\ Connected(a) /\ RxKept(a, t)
           /\ a.sm = t.sm \/ (t.sm = "FIN_WAIT_1" /\ a.sm = "FIN_WAIT_2")
           /\ a.sm \in {"FIN_WAIT_1", "CLOSING", "LAST_ACK"} /\ Waits(t) => Waits(a)
  <2>1. FinCounted(a) = FinCounted(t)
    BY <1>3 DEF FinCounted, Connected, RxKept
  <2>2. StateSawFin(a)
    BY <1>3, <2>1 DEF StateSawFin
  <2>3. Alive(a)
    BY <1>3 DEF Alive
  <2>4. SegmentLength(h) > 0 => Fits(a, h)
    BY <1>3 DEF Fits, RxKept, Missing, RxFree
  <2>5. FinCounted(a) => End(h) <= a.remoteSeq
    BY <1>3, <2>1 DEF RxKept
  <2>6. Handled(r, a, h)
    BY <1>3, <2>2, <2>4, <2>5, DataSegmentHandled
  <2> HIDE DEF r
  <2>7. a.port = h.port /\ a.remoteSeq = t.remoteSeq
    BY <1>3 DEF RxKept
  <2>8. CASE AtRest(r)
    BY <2>8, AtRestGood DEF Outcome
  <2>9. CASE ~AtRest(r)
    BY <2>1, <2>3, <2>6, <2>7, <2>9 DEF Handled, Outcome, Good
  <2> QED BY <2>8, <2>9
<1> QED BY <1>1, <1>2, <1>3 DEF Answered

\* A segment of the connection.
LEMMA HandleTCPSegOutcome ==
  ASSUME IsFiniteSet(toPeer), IsFiniteSet(toDevice),
         NEW t0, Good(t0), t0.sm # "CLOSED",
         NEW h, Arriving(h), t0.port = h.port,
         t0.sm # "LISTEN" => InTime(t0, h),
         FinCounted(t0) /\ h.kind = "ack" => End(h) <= t0.remoteSeq
  PROVE  Outcome(HandleTCPSeg(t0, h), t0, h)
<1> DEFINE t == [t0 EXCEPT !.keepalives = 0]
           r == HandleTCPSeg(t0, h)
<1>1. Good(t) /\ FinCounted(t) = FinCounted(t0) /\ t.remoteSeq = t0.remoteSeq /\ t.port = t0.port
      /\ t.sm = t0.sm
  <2>1. DOMAIN t0 = SocketFields /\ Socket(t0)
    BY DEF Good, AtRest, Connected, Socket
  <2>2. /\ DOMAIN t = SocketFields /\ t.keepalives = 0 /\ t.synQueue = t0.synQueue
        /\ t.out = t0.out /\ t.port = t0.port
        /\ \A f \in SocketFields \ {"keepalives"} : t[f] = t0[f]
    BY <2>1 DEF SocketFields
  <2>3. Keepalives \in Nat
    BY TcpAssumption DEF TcpAssumption
  <2> HIDE DEF t
  <2>4. Queued(t) /\ t.port \in Int /\ t.keepalives \in 0 .. Keepalives
    BY <2>1, <2>2, <2>3 DEF Socket, Queued
  <2> QED BY <2>2, <2>4, SameSocket DEF Compared
<1> SUFFICES Outcome(r, t, h)
  BY <1>1 DEF Outcome
<1>2. CASE t.sm = "LISTEN"
  <2>1. r = ListenSegment(t, h)
    BY <1>2 DEF HandleTCPSeg
  <2>2. AtRest(t)
    BY <1>1, <1>2 DEF Good, Connected, Idle
  <2> HIDE DEF t
  <2> QED BY <2>1, <2>2, ListenSegmentOutcome
<1>3. ASSUME t.sm # "LISTEN" PROVE Outcome(r, t, h)
  <2>1. /\ Connected(t) /\ StateSawFin(t) /\ Alive(t) /\ Socket(t)
        /\ DOMAIN t = SocketFields
    BY <1>1, <1>3 DEF Good, AtRest, Connected, Socket, Idle
  <2>2. CASE ~Acceptable(t, h)
    <3> DEFINE u == SendTCP(t, {"ack"}, "reset")
    <3>1. r \in {t, u}
      BY <1>3, <2>2 DEF HandleTCPSeg
    <3>2. /\ Good(u) /\ u.port = t.port /\ u.remoteSeq = t.remoteSeq
          /\ FinCounted(u) = FinCounted(t)
      <4> HIDE DEF t
      <4> QED BY <1>1, SendTCPGood
    <3> HIDE DEF u, t
    <3> QED BY <1>1, <3>1, <3>2 DEF Outcome
  <2>3. CASE Acceptable(t, h) /\ h.kind \in {"rst", "syn"}
    <3>1. r = CloseSocket(t)
      BY <1>3, <2>3 DEF HandleTCPSeg
    <3> HIDE DEF t
    <3> QED BY <2>1, <3>1, CloseSocketAtRest, AtRestGood DEF Outcome
  <2>4. CASE Acceptable(t, h) /\ h.kind = "ack" /\ t.sm = "SYN_RECEIVED" /\ h.ack # t.mySeq
    <3>1. r = Refuse(t, h, "reset")
      BY <1>3, <2>4 DEF HandleTCPSeg
    <3> HIDE DEF t
    <3> DEFINE v == Refuse(t, h, "reset")
    <3>2. /\ Socket(v) /\ Kept(v, t) /\ v.mySeq = t.mySeq /\ (t.synSent => v.synSent)
          /\ v.txUnacked \in t.txUnacked .. t.txHead
          /\ t.timer => v.timer
      BY <2>1, RefuseTyped
    <3> HIDE DEF v
    <3>3. v.txUnacked = t.txUnacked
      BY <2>1, <2>4, <3>2 DEF Alive, Socket, TxOrder
    <3>4. Connected(v) /\ StateSawFin(v) /\ Alive(v) /\ ~FinCounted(v)
      BY <2>1, <2>4, <3>2, <3>3 DEF Connected, StateSawFin, FinCounted, Alive, Kept
    <3> QED BY <3>1, <3>4 DEF Outcome, Good, v
  <2>5. CASE Acceptable(t, h) /\ h.kind = "ack" /\ t.sm = "LAST_ACK"
    <3>1. r \in {t, CloseSocket(t)}
      BY <1>3, <2>5 DEF HandleTCPSeg
    <3>2. Outcome(t, t, h)
      <4> HIDE DEF t
      <4> QED BY <1>1 DEF Outcome
    <3> HIDE DEF t
    <3> QED BY <2>1, <3>1, <3>2, CloseSocketAtRest, AtRestGood DEF Outcome
  <2>6. CASE /\ Acceptable(t, h) /\ h.kind = "ack" /\ t.sm # "LAST_ACK"
             /\ ~ (t.sm = "SYN_RECEIVED" /\ h.ack # t.mySeq)
    <3> DEFINE u == [t EXCEPT !.sm = IF @ = "SYN_RECEIVED" THEN "ESTABLISHED" ELSE @]
    <3>1. r = DataSegment(AckSegment(u, h), h)
      BY <1>3, <2>6 DEF HandleTCPSeg
    <3> HIDE DEF t
    <3>2. /\ DOMAIN u = SocketFields /\ u.port = t.port /\ u.remoteSeq = t.remoteSeq
          /\ u.rxTail = t.rxTail /\ u.rxHead = t.rxHead
          /\ u.sm = IF t.sm = "SYN_RECEIVED" THEN "ESTABLISHED" ELSE t.sm
      BY <2>1 DEF SocketFields
    <3>3. Connected(u)
      BY <2>1 DEF Connected, Socket, SocketFields, TxOrder, RxOrder, RxFree, Counted, Queued,
                  States, Open, Idle
    <3>4. FinCounted(u) = FinCounted(t)
      BY <2>1, <3>2 DEF FinCounted, Idle
    <3>5. Waits(t) => Waits(u)
      BY <2>1 DEF Waits, SocketFields
    <3> HIDE DEF u
    <3>6. StateSawFin(u) /\ Alive(u)
      BY <2>1, <3>2, <3>4, <3>5 DEF StateSawFin, Alive
    <3>7. SegmentLength(h) > 0 => Fits(u, h)
      <4>1. Acceptable(u, h) /\ InTime(u, h) /\ u.port = h.port
        BY <1>1, <1>3, <2>6, <3>2
           DEF Acceptable, Ahead, MissingWord, RxFree, Missing, InTime
      <4> QED BY <2>6, <3>3, <4>1, InTimeFits
    <3>8. FinCounted(u) => End(h) <= u.remoteSeq
      BY <1>1, <2>6, <3>2, <3>4
    <3>9. Outcome(DataSegment(AckSegment(u, h), h), u, h)
      BY <1>1, <2>6, <3>2, <3>3, <3>6, <3>7, <3>8, AckAndDataOutcome
    <3> QED BY <3>1, <3>2, <3>4, <3>9 DEF Outcome
  <2> QED BY <2>2, <2>3, <2>4, <2>5, <2>6 DEF Arriving
<1> QED BY <1>2, <1>3

-----------------------------------------------------------------------------
(* TCPProcess. *)

LEMMA QueueSynOutcome ==
  ASSUME NEW t, Good(t), NEW h, Arriving(h)
  PROVE  Good(QueueSyn(t, h)) /\ Outcome(QueueSyn(t, h), t, h)
<1> DEFINE r == QueueSyn(t, h)
           queue == Append(t.synQueue, [port |-> h.port, seq |-> h.seq])
<1>1. Socket(t) /\ DOMAIN t = SocketFields
  BY DEF Good, AtRest, Connected, Socket
<1>2. CASE r = t
  BY <1>2 DEF Outcome
<1>3. CASE r # t
  <2>1. /\ h.kind = "syn" /\ Len(t.synQueue) < SynQueueSize
        /\ r = [t EXCEPT !.synQueue = queue]
    BY <1>3 DEF QueueSyn
  <2>2. queue \in Seq(Waiting) /\ Len(queue) <= SynQueueSize
    <3>1. [port |-> h.port, seq |-> h.seq] \in Waiting
      BY <2>1 DEF Arriving, Waiting
    <3>2. t.synQueue \in Seq(Waiting)
      BY <1>1 DEF Socket, Queued
    <3>3. SynQueueSize \in Nat
      BY TcpAssumption DEF TcpAssumption
    <3> QED BY <2>1, <3>1, <3>2, <3>3
  <2> HIDE DEF r, queue
  <2>3. /\ DOMAIN r = SocketFields /\ r.synQueue = queue /\ r.out = t.out
        /\ r.keepalives = t.keepalives /\ r.port = t.port
        /\ \A f \in SocketFields \ {"synQueue"} : r[f] = t[f]
    BY <1>1, <2>1 DEF SocketFields
  <2>4. Queued(r) /\ r.port \in Int /\ r.keepalives \in 0 .. Keepalives
    BY <1>1, <2>2, <2>3 DEF Socket, Queued, Counted
  <2>5. Good(r) /\ FinCounted(r) = FinCounted(t) /\ r.remoteSeq = t.remoteSeq
    BY <2>3, <2>4, SameSocket DEF Compared
  <2> QED BY <2>3, <2>5 DEF Outcome, r
<1> QED BY <1>2, <1>3

\* What passes with a step, "out" and "done", is of no matter.
LEMMA DoneGood ==
  ASSUME NEW t, Good(t), NEW done
  PROVE  LET r == [t EXCEPT !.done = done]
         IN /\ Good(r) /\ FinCounted(r) = FinCounted(t) /\ r.sm = t.sm
            /\ r.remoteSeq = t.remoteSeq /\ r.port = t.port
<1> DEFINE r == [t EXCEPT !.done = done]
<1>1. Socket(t) /\ DOMAIN t = SocketFields
  BY DEF Good, AtRest, Connected, Socket
<1>2. /\ DOMAIN r = SocketFields /\ r.synQueue = t.synQueue /\ r.out = t.out
      /\ r.keepalives = t.keepalives /\ r.port = t.port
      /\ \A f \in SocketFields \ {"done"} : r[f] = t[f]
  BY <1>1 DEF SocketFields
<1> HIDE DEF r
<1>3. Queued(r) /\ r.port \in Int /\ r.keepalives \in 0 .. Keepalives
  BY <1>1, <1>2 DEF Socket, Queued, Counted
<1>4. Good(r) /\ FinCounted(r) = FinCounted(t) /\ r.remoteSeq = t.remoteSeq /\ r.sm = t.sm
  BY <1>2, <1>3, SameSocket DEF Compared
<1> QED BY <1>2, <1>4 DEF r

\* A segment of any connection.
LEMMA TCPProcessOutcome ==
  ASSUME IsFiniteSet(toPeer), IsFiniteSet(toDevice),
         NEW t, Good(t), NEW h, Arriving(h), InTime(t, h),
         FinCounted(t) /\ h.kind = "ack" /\ h.port = t.port => End(h) <= t.remoteSeq
  PROVE  Outcome(TCPProcess(t, h), t, h)
<1>1. CASE ~Matches(t, h)
  BY <1>1, QueueSynOutcome DEF TCPProcess
<1>2. CASE Matches(t, h)
  <2> DEFINE u == [t EXCEPT !.port = h.port]
             v == HandleTCPSeg(u, h)
             r == [v EXCEPT !.done = FALSE]
  <2>1. TCPProcess(t, h) = r
    BY <1>2 DEF TCPProcess
  <2>2. Socket(t) /\ DOMAIN t = SocketFields
    BY DEF Good, AtRest, Connected, Socket
  <2>3. /\ DOMAIN u = SocketFields /\ u.synQueue = t.synQueue /\ u.out = t.out
        /\ u.keepalives = t.keepalives /\ u.port = h.port /\ u.sm = t.sm
        /\ \A f \in SocketFields \ {"port"} : u[f] = t[f]
    BY <2>2 DEF SocketFields
  <2> HIDE DEF u
  <2>4. Queued(u) /\ u.port \in Int /\ u.keepalives \in 0 .. Keepalives
    BY <2>2, <2>3 DEF Socket, Queued, Counted, Arriving
  <2>5. /\ Good(u) /\ FinCounted(u) = FinCounted(t) /\ u.remoteSeq = t.remoteSeq
        /\ AtRest(t) => AtRest(u)
    BY <2>3, <2>4, SameSocket DEF Compared
  <2>6. u.sm # "CLOSED"
    BY <1>2, <2>3 DEF Matches
  <2>7. FinCounted(u) => t.port = h.port
    BY <1>2, <2>3, <2>5 DEF Matches, FinCounted, Idle
  <2>8. Outcome(v, u, h)
    <3>1. u.sm # "LISTEN" => InTime(u, h)
      BY <1>2, <2>3, <2>5 DEF Matches, InTime
    <3> QED BY <2>3, <2>5, <2>6, <2>7, <3>1, HandleTCPSegOutcome
  <2> HIDE DEF v
  <2>9. Good(r) /\ FinCounted(r) = FinCounted(v) /\ r.remoteSeq = v.remoteSeq /\ r.port = v.port
    BY <2>8, DoneGood DEF Outcome
  <2> HIDE DEF r
  <2> QED BY <2>1, <2>3, <2>5, <2>7, <2>8, <2>9 DEF Outcome
<1> QED BY <1>1, <1>2

-----------------------------------------------------------------------------
(* TCPDisconnect. *)

\* A set of natural numbers that is not empty has a least member.
LEMMA LeastNumber ==
  ASSUME NEW S \in SUBSET Nat, S # {}
  PROVE  \E x \in S : \A y \in S : x <= y
<1> DEFINE R == OpToRel(<, Nat)
<1>1. IsWellFoundedOn(R, Nat)
  BY NatLessThanWellFounded, Zenon
<1>2. \A x, y \in Nat : y < x => <<y, x>> \in R
  BY Zenon DEF OpToRel
<1> HIDE DEF R
<1>3. PICK x \in S : \A y \in S : ~ (<<y, x>> \in R)
  BY <1>1, WFMin
<1>4. \A y \in S : ~ (y < x)
  BY <1>2, <1>3
<1> QED BY <1>4

\* One more segment of what is left, while the window and the FIFO have any.
SendMore(u) ==
  IF u.window = 0 \/ Unsent(u) = 0 THEN u ELSE SendTCP(u, {"fin", "ack"}, "reset")

\* The segments of SendAllAndFin, one after the other.
Series(f, n, t) ==
  f = [i \in 0 .. n |-> IF i = 0 THEN SendTCP(t, {"fin", "ack"}, "reset") ELSE SendMore(f[i - 1])]

\* The recursive function of SendAllAndFin exists.
LEMMA SeriesExists ==
  ASSUME NEW t, NEW n \in Nat
  PROVE  \E f : Series(f, n, t)
<1> DEFINE First == SendTCP(t, {"fin", "ack"}, "reset")
           Bad == {m \in Nat : ~ \E f : Series(f, m, t)}
<1>1. SUFFICES ASSUME Bad # {} PROVE FALSE
  OBVIOUS
<1>2. PICK m \in Bad : \A k \in Bad : m <= k
  <2> HIDE DEF Bad
  <2>1. Bad \in SUBSET Nat
    BY DEF Bad
  <2> QED BY <1>1, <2>1, LeastNumber
<1>3. m # 0
  <2>1. SUFFICES ASSUME m = 0 PROVE \E f : Series(f, 0, t)
    BY <1>2
  <2>2. Series([i \in 0 .. 0 |-> First], 0, t)
    <3> HIDE DEF First
    <3>1. [i \in 0 .. 0 |-> First]
            = [i \in 0 .. 0 |-> IF i = 0 THEN First ELSE SendMore([j \in 0 .. 0 |-> First][i - 1])]
      OBVIOUS
    <3> QED BY <3>1 DEF Series, First
  <2> QED BY <2>2
<1>4. PICK f : Series(f, m - 1, t)
  <2>1. m - 1 \in Nat /\ m - 1 \notin Bad
    BY <1>2, <1>3
  <2> QED BY <2>1
<1> DEFINE g == [i \in 0 .. m |-> IF i = m THEN SendMore(f[m - 1]) ELSE f[i]]
<1>5. Series(g, m, t)
  <2>0. m \in Nat \ {0}
    BY <1>3
  <2> HIDE DEF First, Bad
  <2>1. f = [i \in 0 .. m - 1 |-> IF i = 0 THEN First ELSE SendMore(f[i - 1])]
    BY <1>4 DEF Series, First
  <2>2. ASSUME NEW i \in 0 .. m
        PROVE  g[i] = IF i = 0 THEN First ELSE SendMore(g[i - 1])
    <3>1. CASE i = m
      <4>1. g[i] = SendMore(f[m - 1]) /\ g[m - 1] = f[m - 1]
        BY <2>0, <3>1
      <4> QED BY <2>0, <3>1, <4>1
    <3>2. CASE i # m /\ i = 0
      <4>1. g[i] = f[i] /\ i \in 0 .. m - 1
        BY <2>0, <3>2
      <4> QED BY <2>1, <3>2, <4>1
    <3>3. CASE i # m /\ i # 0
      <4>1. /\ g[i] = f[i] /\ i \in 0 .. m - 1 /\ g[i - 1] = f[i - 1]
        BY <2>0, <3>3
      <4> QED BY <2>1, <3>3, <4>1
    <3> QED BY <3>1, <3>2, <3>3
  <2>3. g = [i \in 0 .. m |-> g[i]]
    OBVIOUS
  <2> HIDE DEF g
  <2>4. [i \in 0 .. m |-> g[i]] = [i \in 0 .. m |-> IF i = 0 THEN First ELSE SendMore(g[i - 1])]
    BY <2>2
  <2> QED BY <2>3, <2>4 DEF Series, First
<1> QED BY <1>2, <1>5

\* After each of them the FIN has been asked for, and is timed unless the
\* window is closed.
LEMMA SeriesConnected ==
  ASSUME NEW t, Connected(t), NEW n \in Nat, NEW f, Series(f, n, t), NEW i \in 0 .. n
  PROVE  Connected(f[i]) /\ Kept(f[i], t) /\ f[i].txFin /\ (f[i].timer \/ f[i].window = 0)
<1> DEFINE Ok(r) == Connected(r) /\ Kept(r, t) /\ r.txFin /\ (r.timer \/ r.window = 0)
           Bad == {j \in 0 .. n : ~ Ok(f[j])}
<1>1. \A j \in 0 .. n : f[j] = IF j = 0 THEN SendTCP(t, {"fin", "ack"}, "reset") ELSE SendMore(f[j - 1])
  BY DEF Series
<1>2. ASSUME NEW j \in 0 .. n, j # 0 => Ok(f[j - 1]) PROVE Ok(f[j])
  <2>1. {"fin", "ack"} \cap {"syn", "rst"} = {} /\ "fin" \in {"fin", "ack"}
    OBVIOUS
  <2>2. CASE j = 0
    <3>1. f[j] = SendTCP(t, {"fin", "ack"}, "reset")
      BY <1>1, <2>2
    <3> QED BY <2>1, <3>1, SendTCPConnected
  <2>3. CASE j # 0
    <3> DEFINE u == f[j - 1]
    <3>1. f[j] = SendMore(u) /\ Ok(u)
      BY <1>1, <1>2, <2>3
    <3> HIDE DEF u
    <3>2. CASE u.window = 0 \/ Unsent(u) = 0
      BY <3>1, <3>2 DEF SendMore
    <3>3. CASE ~ (u.window = 0 \/ Unsent(u) = 0)
      <4>1. f[j] = SendTCP(u, {"fin", "ack"}, "reset")
        BY <3>1, <3>3 DEF SendMore
      <4>2. /\ Connected(f[j]) /\ Kept(f[j], u) /\ f[j].txFin
            /\ f[j].timer \/ f[j].window = 0
        BY <2>1, <3>1, <4>1, SendTCPConnected
      <4> QED BY <3>1, <4>2 DEF Kept
    <3> QED BY <3>2, <3>3
  <2> QED BY <2>2, <2>3
<1>3. Bad = {}
  <2> HIDE DEF Ok
  <2> SUFFICES ASSUME Bad # {} PROVE FALSE
    OBVIOUS
  <2>1. Bad \in SUBSET Nat
    OBVIOUS
  <2>2. PICK j \in Bad : \A k \in Bad : j <= k
    <3> HIDE DEF Bad
    <3> QED BY <2>1, LeastNumber
  <2>3. ASSUME j # 0 PROVE Ok(f[j - 1])
    <3>1. j - 1 \in 0 .. n /\ j - 1 \notin Bad
      BY <2>2, <2>3
    <3> QED BY <3>1
  <2> QED BY <1>2, <2>2, <2>3
<1> QED BY <1>3

\* All that the window takes is sent, and the FIN is asked for.
LEMMA SendAllAndFinConnected ==
  ASSUME NEW t, Connected(t)
  PROVE  LET r == SendAllAndFin(t)
         IN Connected(r) /\ Kept(r, t) /\ r.txFin /\ (r.timer \/ r.window = 0)
<1> DEFINE step == CHOOSE f : Series(f, TxRing, t)
<1>1. TxRing \in Nat
  BY TcpAssumption DEF TcpAssumption
<1>2. Series(step, TxRing, t)
  BY <1>1, SeriesExists
<1>3. SendAllAndFin(t) = step[TxRing]
  BY DEF SendAllAndFin, Series, SendMore
<1> HIDE DEF step
<1>4. TxRing \in 0 .. TxRing
  BY <1>1
<1> QED BY <1>1, <1>2, <1>3, <1>4, SeriesConnected

\* Without a segment, a socket stays bound to its port and its FIN counts no
\* other number.
Stayed(r, t) ==
  /\ Good(r)
  /\ FinCounted(r) => FinCounted(t) /\ r.remoteSeq = t.remoteSeq /\ r.port = t.port

\* Discarding is no matter for a socket of any kind.
LEMMA DiscardedTyped ==
  ASSUME NEW t, Socket(t)
  PROVE  Socket(Discarded(t)) /\ Discarded(t).sm = t.sm
<1> DEFINE fifo == Cleared(t.rxFifo, RxRing, t.rxTail, t.rxHead)
           r == Discarded(t)
<1>1. r = [t EXCEPT !.rxTail = t.rxHead, !.rxFifo = fifo]
  BY DEF Discarded
<1>2. RxRing \in Nat /\ RxRing >= 2
  BY TcpAssumption DEF TcpAssumption
<1> HIDE DEF r, fifo
<1>3. /\ DOMAIN r = SocketFields
      /\ r.sm = t.sm /\ r.port = t.port /\ r.iss = t.iss /\ r.mySeq = t.mySeq /\ r.remoteSeq = t.remoteSeq
      /\ r.txTail = t.txTail /\ r.txUnacked = t.txUnacked /\ r.txHead = t.txHead
      /\ r.window = t.window /\ r.noneAcked = t.noneAcked /\ r.retries = t.retries
      /\ r.keepalives = t.keepalives /\ r.synQueue = t.synQueue /\ r.out = t.out
      /\ r.rxTail = t.rxHead /\ r.rxHead = t.rxHead /\ r.hole = t.hole /\ r.future = t.future
  BY <1>1 DEF Socket, SocketFields
<1>4. RxOrder(r)
  BY <1>2, <1>3 DEF Socket, RxOrder, RxFree
<1>5. TxOrder(r) /\ Counted(r) /\ Queued(r)
  BY <1>3 DEF Socket, TxOrder, Counted, Queued
<1> QED BY <1>3, <1>4, <1>5 DEF Socket, r

\* A connection that asks for the FIN and goes to the state that waits for
\* its acknowledgment.
LEMMA LeavingGood ==
  ASSUME NEW t, Connected(t), StateSawFin(t), NEW v, Connected(v), Kept(v, t),
         v.txFin, v.timer \/ v.window = 0, NEW r, NEW sm,
         r = [v EXCEPT !.sm = sm],
         \/ sm = "FIN_WAIT_1"
         \/ sm = "LAST_ACK" /\ t.sm \in {"CLOSE_WAIT", "LAST_ACK"}
  PROVE  Stayed(r, t) /\ Connected(r) /\ r.sm = sm
<1>1. /\ Connected(r) /\ r.sm = sm
  BY DEF Connected, Socket, SocketFields, TxOrder, RxOrder, RxFree, Counted, Queued,
         States, Leaving, Idle
<1>2. /\ r.remoteSeq = t.remoteSeq /\ r.rxHead = t.rxHead /\ r.port = t.port /\ Waits(r)
  BY DEF Connected, Socket, SocketFields, Kept, Waits
<1>3. FinCounted(r) = FinCounted(t)
  BY <1>1, <1>2 DEF FinCounted, Idle, Connected
<1>4. StateSawFin(r) /\ Alive(r)
  BY <1>1, <1>2, <1>3 DEF StateSawFin, Alive
<1> QED BY <1>1, <1>2, <1>3, <1>4 DEF Stayed, Good

\* The application or the keep-alive ends the connection.
LEMMA TCPDisconnectStayed ==
  ASSUME IsFiniteSet(toPeer), IsFiniteSet(toDevice), NEW t0, Good(t0)
  PROVE  Stayed(TCPDisconnect(t0), t0)
<1> DEFINE t == Discarded(t0)
           r == TCPDisconnect(t0)
<1>1. Socket(t0)
  BY DEF Good, AtRest, Connected
<1>2. Socket(t) /\ t.sm = t0.sm
  BY <1>1, DiscardedTyped
<1>3. CASE t.sm \in {"SYN_RECEIVED", "ESTABLISHED", "CLOSE_WAIT"}
  <2> DEFINE v == SendAllAndFin(t)
             sm == IF t.sm = "CLOSE_WAIT" THEN "LAST_ACK" ELSE "FIN_WAIT_1"
  <2>1. r = [v EXCEPT !.sm = sm]
    BY <1>3 DEF TCPDisconnect
  <2>2. Connected(t0) /\ StateSawFin(t0)
    BY <1>2, <1>3 DEF Good, AtRest, Idle
  <2>3. /\ Received(t, t0) /\ Untouched(t, t0)
        /\ t.remoteSeq = t0.remoteSeq /\ t.rxHead = t0.rxHead
    BY <2>2, DiscardedReceived
  <2> HIDE DEF t
  <2>4. Connected(t) /\ t.port = t0.port /\ FinCounted(t) = FinCounted(t0)
    BY <2>3 DEF Received, FinCounted
  <2>5. StateSawFin(t)
    BY <1>2, <2>2, <2>4 DEF StateSawFin
  <2>6. Connected(v) /\ Kept(v, t) /\ v.txFin /\ (v.timer \/ v.window = 0)
    BY <2>4, SendAllAndFinConnected
  <2> HIDE DEF v
  <2>7. Stayed(r, t)
    <3> HIDE DEF r
    <3> QED BY <1>3, <2>1, <2>4, <2>5, <2>6, LeavingGood
  <2> HIDE DEF r
  <2>8. Stayed(r, t0)
    BY <2>3, <2>4, <2>7 DEF Stayed
  <2> QED BY <2>8 DEF r
<1>4. CASE t.sm \notin {"SYN_RECEIVED", "ESTABLISHED", "CLOSE_WAIT"}
  <2> DEFINE v == SendTCP(t, {"rst", "ack"}, "none")
  <2>1. r = CloseSocket(v)
    BY <1>4 DEF TCPDisconnect
  <2> HIDE DEF t
  <2>2. Socket(v)
    BY <1>2, SendTCPTyped
  <2> HIDE DEF v
  <2>3. AtRest(CloseSocket(v))
    BY <2>2, CloseSocketAtRest
  <2>4. Stayed(CloseSocket(v), t0)
    BY <2>3, AtRestGood DEF Stayed
  <2> QED BY <2>1, <2>4
<1> QED BY <1>3, <1>4

-----------------------------------------------------------------------------
(* TCPTick. *)

LEMMA LeavingFirst ==
  ASSUME NEW t, Connected(t), StateSawFin(t), NEW mode, mode # "probe", NEW sm,
         \/ sm = "FIN_WAIT_1"
         \/ sm = "LAST_ACK" /\ t.sm = "CLOSE_WAIT"
  PROVE  Stayed(SendTCP([t EXCEPT !.sm = sm], {"fin", "ack"}, mode), t)
<1> DEFINE u == [t EXCEPT !.sm = sm]
           v == SendTCP(u, {"fin", "ack"}, mode)
<1>1. /\ Connected(u) /\ u.sm = sm /\ u.port = t.port /\ u.remoteSeq = t.remoteSeq
      /\ u.rxHead = t.rxHead
  BY DEF Connected, Socket, SocketFields, TxOrder, RxOrder, RxFree, Counted, Queued,
         States, Leaving, Idle
<1> HIDE DEF u
<1>2. {"fin", "ack"} \cap {"syn", "rst"} = {} /\ "fin" \in {"fin", "ack"}
  OBVIOUS
<1>3. /\ Connected(v) /\ Kept(v, u) /\ v.txFin /\ (v.timer \/ v.window = 0)
  BY <1>1, <1>2, SendTCPConnected
<1> HIDE DEF v
<1>4. /\ v.sm = sm /\ v.remoteSeq = t.remoteSeq /\ v.rxHead = t.rxHead /\ v.port = t.port
      /\ Waits(v)
  BY <1>1, <1>3 DEF Kept, Waits
<1>5. FinCounted(v) = FinCounted(t)
  BY <1>4 DEF FinCounted, Idle, Connected
<1>6. StateSawFin(v) /\ Alive(v)
  BY <1>4, <1>5 DEF StateSawFin, Alive
<1> QED BY <1>3, <1>4, <1>5, <1>6 DEF Stayed, Good, u, v

\* How SendTCP of a flag that is neither SYN nor RST keeps a socket.
LEMMA SendTCPStayed ==
  ASSUME NEW t, Good(t), NEW flags, flags \cap {"syn", "rst"} = {}, NEW mode,
         mode = "probe" => t.keepalives < Keepalives /\ ~AtRest(t)
  PROVE  Stayed(SendTCP(t, flags, mode), t)
<1> DEFINE r == SendTCP(t, flags, mode)
<1>1. /\ Good(r) /\ r.port = t.port /\ r.remoteSeq = t.remoteSeq
      /\ FinCounted(r) = FinCounted(t)
  BY SendTCPGood
<1> HIDE DEF r
<1> QED BY <1>1 DEF Stayed, r

\* What is to be sent anyway, and the connection that waited.
LEMMA TickSendStayed ==
  ASSUME NEW t, Good(t), NEW due
  PROVE  Stayed(TickSend(t, due), t)
<1> DEFINE mode == IF t.asapKeepTimer THEN "none" ELSE "reset"
           r == TickSend(t, due)
<1>0. Socket(t) /\ mode # "probe" /\ DOMAIN t = SocketFields
  BY DEF Good, AtRest, Connected, Socket
<1>1. CASE t.sm = "CLOSE_WAIT" /\ "closeWaitTime" \in due
  <2>1. r = SendTCP([t EXCEPT !.sm = "LAST_ACK"], {"fin", "ack"}, mode)
    BY <1>1 DEF TickSend
  <2>2. Connected(t) /\ StateSawFin(t)
    BY <1>1 DEF Good, AtRest, Idle
  <2> HIDE DEF mode
  <2> QED BY <1>0, <1>1, <2>1, <2>2, LeavingFirst
<1>2. CASE t.sm = "LISTEN" /\ t.synQueue # <<>>
  <2> DEFINE u == [t EXCEPT !.sm = "SYN_RECEIVED", !.port = Head(t.synQueue).port,
                            !.remoteSeq = Head(t.synQueue).seq + 1,
                            !.synQueue = Tail(@)]
             v == SendTCP(u, {"syn", "ack"}, mode)
  <2>1. r = v
    BY <1>2 DEF TickSend
  <2>2. /\ Head(t.synQueue) \in Waiting /\ Tail(t.synQueue) \in Seq(Waiting)
        /\ Len(Tail(t.synQueue)) <= SynQueueSize
    <3>1. t.synQueue \in Seq(Waiting) /\ Len(t.synQueue) <= SynQueueSize /\ SynQueueSize \in Nat
      BY <1>0, TcpAssumption DEF Socket, Queued, TcpAssumption
    <3> QED BY <1>2, <3>1, HeadTailProperties
  <2>3. Head(t.synQueue).port \in Int /\ Head(t.synQueue).seq + 1 = 1
    BY <2>2 DEF Waiting
  <2>4. /\ u.sm = "SYN_RECEIVED" /\ u.port = Head(t.synQueue).port /\ u.synQueue = Tail(t.synQueue)
    BY <1>0 DEF SocketFields
  <2>5. /\ DOMAIN u = SocketFields /\ u.remoteSeq = 1
        /\ \A f \in SocketFields \ {"sm", "port", "remoteSeq", "synQueue"} : u[f] = t[f]
    BY <1>0, <2>3 DEF SocketFields
  <2> HIDE DEF mode
  <2>6. Socket(u)
    BY <1>0, <2>2, <2>3, SMTT(20) DEF Socket, SocketFields, TxOrder, RxOrder, RxFree, Counted, Queued, States
  <2>7. AtRest(t)
    BY <1>2 DEF Good, Connected, Idle
  <2>8. u.sm \in States /\ u.port \in Int /\ u.synQueue \in Seq(Waiting)
        /\ Len(u.synQueue) <= SynQueueSize
    BY <2>2, <2>3, <2>4 DEF States
  <2> HIDE DEF u
  <2>9. DOMAIN v = SocketFields /\ v.sm = "SYN_RECEIVED"
    BY <2>4, <2>6, SendTCPMoves DEF Kept
  <2>10. Good(v) /\ ~FinCounted(v)
    <3>1. \A f \in SocketFields \ {"sm"} : v[f] = SendTCP(u, {"syn", "ack"}, mode)[f]
      OBVIOUS
    <3> HIDE DEF v
    <3> QED BY <1>0, <2>5, <2>7, <2>8, <2>9, <3>1, SynAnswered
  <2> QED BY <2>1, <2>10 DEF Stayed
<1>3. CASE ~ (t.sm = "CLOSE_WAIT" /\ "closeWaitTime" \in due) /\ ~ (t.sm = "LISTEN" /\ t.synQueue # <<>>)
  <2>1. r \in {t, SendTCP(t, {"ack"}, mode)}
    BY <1>3 DEF TickSend
  <2> HIDE DEF mode
  <2>2. Stayed(SendTCP(t, {"ack"}, mode), t)
    BY <1>0, SendTCPStayed
  <2>3. Stayed(t, t)
    BY DEF Stayed
  <2> QED BY <2>1, <2>2, <2>3
<1> QED BY <1>1, <1>2, <1>3

\* Where a retransmission starts.
LEMMA RolledBack ==
  ASSUME NEW t, Connected(t), t.retries < MostRetries
  PROVE  LET x == [RollBack(t) EXCEPT
                     !.retries = @ + 1,
                     !.window = (@ + (t.txUnacked - t.txTail)) % Word]
         IN /\ Connected(x) /\ TxOnly(x, t) /\ x.txHead = t.txHead /\ x.timer = t.timer
            /\ x.txFin = t.txFin
            /\ \A f \in SocketFields \ {"retries", "window"} : x[f] = RollBack(t)[f]
<1> DEFINE u == RollBack(t)
           w == (u.window + (t.txUnacked - t.txTail)) % Word
           x == [u EXCEPT !.retries = @ + 1, !.window = w]
<1>1. /\ Connected(u) /\ TxOnly(u, t)
      /\ u.txHead = t.txHead /\ u.timer = t.timer
      /\ u.txFin = t.txFin /\ u.retries = t.retries /\ u.window = t.window
  BY RollBackConnected
<1> HIDE DEF u
<1>2. w \in 0 .. Word - 1
  <2>1. u.window + (t.txUnacked - t.txTail) \in Int
    BY <1>1 DEF Connected, Socket, TxOrder, Counted
  <2>2. Word \in Nat \ {0}
    BY TcpAssumption DEF TcpAssumption
  <2> QED BY <2>1, <2>2
<1>3. u.retries + 1 \in 0 .. MostRetries
  <2>1. MostRetries \in Nat
    BY TcpAssumption DEF MostRetries, Greater, TcpAssumption
  <2> QED BY <1>1, <2>1 DEF Connected, Socket, Counted
<1> HIDE DEF w
<1>4. /\ Connected(x) /\ TxOnly(x, t) /\ x.txHead = t.txHead /\ x.timer = t.timer
      /\ x.txFin = t.txFin /\ \A f \in SocketFields \ {"retries", "window"} : x[f] = u[f]
  <2>1. /\ DOMAIN x = SocketFields /\ x.retries = u.retries + 1 /\ x.window = w
        /\ \A f \in SocketFields \ {"retries", "window"} : x[f] = u[f]
    BY <1>1 DEF Connected, Socket, SocketFields
  <2> HIDE DEF x
  <2>2. /\ x.sm = u.sm /\ x.port = u.port /\ x.iss = u.iss /\ x.mySeq = u.mySeq
        /\ x.remoteSeq = u.remoteSeq /\ x.synSent = u.synSent
        /\ x.txTail = u.txTail /\ x.txUnacked = u.txUnacked /\ x.txHead = u.txHead
        /\ x.rxTail = u.rxTail /\ x.rxHead = u.rxHead /\ x.hole = u.hole /\ x.future = u.future
        /\ x.noneAcked = u.noneAcked /\ x.keepalives = u.keepalives
        /\ x.synQueue = u.synQueue /\ x.out = u.out /\ x.timer = u.timer /\ x.txFin = u.txFin
    BY <2>1 DEF SocketFields
  <2>3. TxOrder(x) /\ RxOrder(x) /\ Counted(x) /\ Queued(x)
    BY <1>1, <1>2, <1>3, <2>1, <2>2 DEF Connected, Socket, TxOrder, RxOrder, RxFree, Counted, Queued
  <2>4. Socket(x)
    BY <1>1, <2>1, <2>2, <2>3 DEF Connected, Socket
  <2> QED BY <1>1, <2>1, <2>2, <2>4 DEF Connected, TxOnly
<1> QED BY <1>4 DEF x, w, u

\* A retransmission, within what the retries allow.
LEMMA RepeatStayed ==
  ASSUME NEW t, Connected(t), StateSawFin(t), Alive(t), t.retries < MostRetries,
         NEW flags, "rst" \notin flags, "syn" \in flags <=> t.sm = "SYN_RECEIVED"
  PROVE  Stayed(Repeat(t, flags), t)
<1> DEFINE x == [RollBack(t) EXCEPT !.retries = @ + 1,
                                    !.window = (@ + (t.txUnacked - t.txTail)) % Word]
           r == SendTCP(x, flags, "none")
<1>1. Repeat(t, flags) = r
  BY DEF Repeat
<1>2. /\ Connected(x) /\ TxOnly(x, t) /\ x.txHead = t.txHead /\ x.timer = t.timer
      /\ x.txFin = t.txFin
  BY RolledBack
<1> HIDE DEF x
<1>3. /\ Connected(r) /\ Kept(r, x)
      /\ x.timer \/ "syn" \in flags => r.timer
      /\ x.txFin => r.txFin
      /\ r.txFin /\ flags \cap {"syn", "rst"} = {} => r.timer \/ r.window = 0
  BY <1>2, SendTCPConnected
<1> HIDE DEF r
<1>4. /\ r.sm = t.sm /\ r.port = t.port /\ r.remoteSeq = t.remoteSeq /\ r.rxHead = t.rxHead
      /\ r.txHead = t.txHead
  BY <1>2, <1>3 DEF Kept, TxOnly
<1>5. FinCounted(r) = FinCounted(t)
  BY <1>4 DEF FinCounted
<1>6. StateSawFin(r)
  BY <1>4, <1>5 DEF StateSawFin
<1>7. Alive(r)
  <2>1. t.sm # "SYN_RECEIVED" => flags \cap {"syn", "rst"} = {}
    OBVIOUS
  <2>2. t.sm \in {"FIN_WAIT_1", "CLOSING", "LAST_ACK"} => Waits(r)
    BY <1>2, <1>3, <2>1 DEF Alive, Waits
  <2> QED BY <1>2, <1>3, <1>4, <2>2 DEF Alive
<1> QED BY <1>1, <1>3, <1>4, <1>5, <1>6, <1>7 DEF Stayed, Good


\* What stays, goes on staying.
LEMMA StayedOn ==
  ASSUME NEW t, NEW u, Stayed(u, t), NEW r, Stayed(r, u)
  PROVE  Stayed(r, t)
BY DEF Stayed

LEMMA AtRestStayed ==
  ASSUME NEW t, NEW r, AtRest(r)
  PROVE  Stayed(r, t)
BY AtRestGood DEF Stayed

LEMMA GiveUpStayed ==
  ASSUME IsFiniteSet(toPeer), IsFiniteSet(toDevice), NEW t, Socket(t)
  PROVE  Stayed(GiveUp(t), t)
<1>1. Socket(SendTCP(t, {"rst", "ack"}, "reset"))
  BY SendTCPTyped
<1> QED BY <1>1, CloseSocketAtRest, AtRestStayed DEF GiveUp

\* The retransmission timer repeats, closes or gives up.
LEMMA TickTimerStayed ==
  ASSUME IsFiniteSet(toPeer), IsFiniteSet(toDevice), NEW t, Good(t)
  PROVE  Stayed(TickTimer(t), t)
<1>1. Socket(t)
  BY DEF Good, AtRest, Connected
<1>2. Stayed(GiveUp(t), t)
  BY <1>1, GiveUpStayed
<1>3. Stayed(t, t)
  BY DEF Stayed
<1>4. CASE t.sm \in Idle
  <2>1. TickTimer(t) = t
    BY <1>4 DEF TickTimer, Idle, Open
  <2> QED BY <1>3, <2>1
<1>5. CASE t.sm \notin Idle
  <2>1. Connected(t) /\ StateSawFin(t) /\ Alive(t)
    BY <1>5 DEF Good, AtRest
  <2>2. /\ t.retries < MaxRetries => t.retries < MostRetries
        /\ t.retries < SynRetries => t.retries < MostRetries
    <3>1. {MaxRetries, SynRetries} \subseteq Nat /\ t.retries \in Int
      BY <1>1, TcpAssumption DEF TcpAssumption, Socket, Counted
    <3> QED BY <3>1 DEF MostRetries, Greater
  <2>3. CASE t.sm = "SYN_RECEIVED"
    <3>1. t.retries < SynRetries => Stayed(Repeat(t, {"syn", "ack"}), t)
      BY <2>1, <2>2, <2>3, RepeatStayed
    <3>2. Stayed(SendTCP(t, {"syn"}, "reset"), t)
      <4> DEFINE r == SendTCP(t, {"syn"}, "reset")
      <4>1. Connected(r) /\ Kept(r, t) /\ FinCounted(r) = FinCounted(t) /\ r.timer
        BY <2>1, SendTCPConnected
      <4> HIDE DEF r
      <4>2. StateSawFin(r) /\ Alive(r)
        BY <2>1, <2>3, <4>1 DEF StateSawFin, Alive, Kept
      <4> QED BY <4>1, <4>2 DEF Stayed, Good, Kept, r
    <3>3. TickTimer(t) = IF t.retries < SynRetries THEN Repeat(t, {"syn", "ack"})
                         ELSE IF t.bServer THEN GiveUp(t) ELSE SendTCP(t, {"syn"}, "reset")
      BY <2>3 DEF TickTimer, Open
    <3> QED BY <1>2, <3>1, <3>2, <3>3
  <2>4. CASE t.sm \in Open
    <3>1. t.retries < MaxRetries => Stayed(Repeat(t, {"ack"}), t)
      BY <2>1, <2>2, <2>4, RepeatStayed DEF Open
    <3>2. Stayed(SendTCP([t EXCEPT !.sm = "FIN_WAIT_1"], {"fin", "ack"}, "reset"), t)
      BY <2>1, LeavingFirst
    <3>3. TickTimer(t) = IF t.retries < MaxRetries THEN Repeat(t, {"ack"})
                         ELSE SendTCP([t EXCEPT !.sm = "FIN_WAIT_1"], {"fin", "ack"}, "reset")
      BY <2>4 DEF TickTimer, Open
    <3> QED BY <3>1, <3>2, <3>3
  <2>5. CASE t.sm \in {"FIN_WAIT_1", "LAST_ACK"}
    <3>1. t.retries < MaxRetries => Stayed(Repeat(t, {"fin", "ack"}), t)
      BY <2>1, <2>2, <2>5, RepeatStayed
    <3>2. TickTimer(t) = IF t.retries < MaxRetries THEN Repeat(t, {"fin", "ack"}) ELSE GiveUp(t)
      BY <2>5 DEF TickTimer, Open
    <3> QED BY <1>2, <3>1, <3>2
  <2>6. CASE t.sm = "CLOSING"
    <3>1. t.retries < MaxRetries => Stayed(Repeat(t, {"ack"}), t)
      BY <2>1, <2>2, <2>6, RepeatStayed
    <3>2. TickTimer(t) = IF t.retries < MaxRetries THEN Repeat(t, {"ack"}) ELSE GiveUp(t)
      BY <2>6 DEF TickTimer, Open
    <3> QED BY <1>2, <3>1, <3>2
  <2>7. CASE t.sm = "FIN_WAIT_2"
    <3>1. TickTimer(t) = GiveUp(t)
      BY <2>7 DEF TickTimer, Open
    <3> QED BY <1>2, <3>1
  <2> QED BY <1>1, <1>5, <2>3, <2>4, <2>5, <2>6, <2>7 DEF Socket, States, Idle, Leaving
<1> QED BY <1>4, <1>5

LEMMA TickKeepaliveStayed ==
  ASSUME IsFiniteSet(toPeer), IsFiniteSet(toDevice), NEW t, Good(t)
  PROVE  Stayed(TickKeepalive(t), t)
<1>1. Stayed(TCPDisconnect(TCPDisconnect(t)), t)
  <2>1. Stayed(TCPDisconnect(t), t)
    BY TCPDisconnectStayed
  <2>2. Stayed(TCPDisconnect(TCPDisconnect(t)), TCPDisconnect(t))
    BY <2>1, TCPDisconnectStayed DEF Stayed
  <2> QED BY <2>1, <2>2, StayedOn
<1>2. Stayed(t, t)
  BY DEF Stayed
<1>3. t.sm = "ESTABLISHED" /\ t.keepalives # Keepalives => Stayed(SendTCP(t, {"ack"}, "probe"), t)
  <2> SUFFICES ASSUME t.sm = "ESTABLISHED", t.keepalives # Keepalives
               PROVE  Stayed(SendTCP(t, {"ack"}, "probe"), t)
    OBVIOUS
  <2>1. Socket(t) /\ Keepalives \in Nat
    BY TcpAssumption DEF TcpAssumption, Good, AtRest, Connected
  <2>2. t.keepalives < Keepalives /\ ~AtRest(t)
    BY <2>1 DEF Socket, Counted, AtRest, Idle
  <2> QED BY <2>2, SendTCPStayed
<1> QED BY <1>1, <1>2, <1>3 DEF TickKeepalive

LEMMA TickSocketStayed ==
  ASSUME IsFiniteSet(toPeer), IsFiniteSet(toDevice), NEW t, Good(t), NEW due
  PROVE  Stayed(TickSocket(t, due), t)
<1> DEFINE u == TickSend(t, due)
<1>1. Stayed(u, t)
  BY TickSendStayed
<1>2. TickSocket(t, due) \in {u, TickTimer(u), TickKeepalive(u)}
  BY DEF TickSocket
<1> HIDE DEF u
<1>3. Stayed(TickTimer(u), u) /\ Stayed(TickKeepalive(u), u)
  BY <1>1, TickTimerStayed, TickKeepaliveStayed DEF Stayed
<1> QED BY <1>1, <1>2, <1>3, StayedOn


\* All that a call of TCPTick does to the socket.
LEMMA TCPTickStayed ==
  ASSUME IsFiniteSet(toPeer), IsFiniteSet(toDevice), NEW t, Good(t), NEW due
  PROVE  Stayed(TCPTick(t, due), t)
<1> DEFINE u == TickSocket(t, due)
           queue == IF "synQueue" \in due /\ u.synQueue # <<>> THEN Tail(u.synQueue) ELSE u.synQueue
           r == [u EXCEPT !.done = FALSE, !.synQueue = queue]
<1>1. Stayed(u, t)
  BY TickSocketStayed
<1>2. TCPTick(t, due) = r
  BY DEF TCPTick
<1> HIDE DEF u
<1>3. Good(u) /\ Socket(u)
  BY <1>1 DEF Stayed, Good, AtRest, Connected
<1>4. queue \in Seq(Waiting) /\ Len(queue) <= SynQueueSize
  <2>1. u.synQueue \in Seq(Waiting) /\ Len(u.synQueue) <= SynQueueSize /\ SynQueueSize \in Nat
    BY <1>3, TcpAssumption DEF TcpAssumption, Socket, Queued
  <2>2. u.synQueue # <<>> => Tail(u.synQueue) \in Seq(Waiting) /\ Len(Tail(u.synQueue)) <= SynQueueSize
    BY <2>1, HeadTailProperties
  <2> QED BY <2>1, <2>2
<1> HIDE DEF queue
<1>5. /\ DOMAIN r = SocketFields /\ r.synQueue = queue
      /\ \A f \in SocketFields \ {"done", "synQueue"} : r[f] = u[f]
  BY <1>3 DEF Socket, SocketFields
<1> HIDE DEF r
<1>6. r.out = u.out /\ r.keepalives = u.keepalives /\ r.port = u.port
  BY <1>5 DEF SocketFields
<1>7. Queued(r) /\ r.keepalives \in 0 .. Keepalives /\ r.port \in Int
  BY <1>3, <1>4, <1>5, <1>6 DEF Socket, Queued, Counted
<1>8. \A f \in Compared : r[f] = u[f]
  BY <1>5 DEF Compared
<1>9. Stayed(r, u)
  <2>1. Good(r) /\ FinCounted(r) = FinCounted(u) /\ r.remoteSeq = u.remoteSeq
    BY <1>3, <1>5, <1>7, <1>8, SameSocket
  <2> QED BY <1>6, <2>1 DEF Stayed
<1> QED BY <1>1, <1>2, <1>9, StayedOn

-----------------------------------------------------------------------------
(* What the application calls. *)

LEMMA TCPOpenStayed ==
  ASSUME NEW t, Good(t), t.sm = "CLOSED"
  PROVE  Stayed(TCPOpen(t), t)
<1> DEFINE r == TCPOpen(t)
<1>1. AtRest(t)
  BY DEF Good, Connected, Idle
<1>2. /\ DOMAIN r = SocketFields /\ r.sm = "LISTEN"
      /\ \A f \in SocketFields \ {"bServer", "sm"} : r[f] = t[f]
  BY <1>1 DEF TCPOpen, AtRest, Socket, SocketFields
<1> HIDE DEF r
<1>3. /\ r.port = t.port /\ r.iss = t.iss /\ r.mySeq = t.mySeq
      /\ r.remoteSeq = t.remoteSeq /\ r.synSent = t.synSent
      /\ r.txTail = t.txTail /\ r.txUnacked = t.txUnacked /\ r.txHead = t.txHead
      /\ r.rxTail = t.rxTail /\ r.rxHead = t.rxHead /\ r.hole = t.hole /\ r.future = t.future
      /\ r.window = t.window /\ r.noneAcked = t.noneAcked /\ r.retries = t.retries
      /\ r.keepalives = t.keepalives /\ r.synQueue = t.synQueue /\ r.out = t.out
  BY <1>2 DEF SocketFields
<1>4. TxOrder(r) /\ RxOrder(r) /\ Counted(r) /\ Queued(r)
  BY <1>1, <1>3 DEF AtRest, Socket, TxOrder, RxOrder, RxFree, Counted, Queued
<1>5. AtRest(r)
  BY <1>1, <1>2, <1>3, <1>4 DEF AtRest, Socket, States, Idle
<1> QED BY <1>5, AtRestStayed DEF r

\* The fields that a flush leaves as they are.
LEMMA TCPFlushStayed ==
  ASSUME NEW t, Good(t)
  PROVE  LET r == TCPFlush(t)
         IN /\ Stayed(r, t) /\ r.sm = t.sm /\ r.txHead = t.txHead /\ r.txTail = t.txTail
<1>1. Stayed(t, t)
  BY DEF Stayed
<1>2. Stayed(SendTCP(t, {"ack"}, "reset"), t)
  BY SendTCPStayed
<1>3. Kept(SendTCP(t, {"ack"}, "reset"), t)
  BY SendTCPMoves DEF Good, AtRest, Connected
<1> QED BY <1>1, <1>2, <1>3 DEF TCPFlush, Kept

LEMMA TCPGetArrayStayed ==
  ASSUME NEW t, Good(t), t.sm = "ESTABLISHED", NEW n \in Nat, n <= IsGetReady(t)
  PROVE  LET r == TCPGetArray(t, n)
         IN Stayed(r, t) /\ r.sm = t.sm /\ r.txHead = t.txHead /\ r.txTail = t.txTail
<1> DEFINE fifo == Cleared(t.rxFifo, RxRing, t.rxTail, t.rxTail + n)
           u == [t EXCEPT !.rxTail = @ + n, !.rxFifo = fifo]
           r == TCPGetArray(t, n)
<1>1. Connected(t) /\ StateSawFin(t) /\ Alive(t)
  BY DEF Good, AtRest, Idle
<1>2. r \in {[u EXCEPT !.asapKeepTimer = TRUE], [u EXCEPT !.timer2 = TRUE]}
  BY DEF TCPGetArray
<1> HIDE DEF fifo
<1>3. /\ DOMAIN r = SocketFields /\ r.rxTail = t.rxTail + n
      /\ \A f \in SocketFields \ {"rxTail", "rxFifo", "asapKeepTimer", "timer2"} : r[f] = t[f]
  BY ZenonT(60), <1>1, <1>2 DEF Connected, Socket, SocketFields
<1> HIDE DEF r, u
<1>4. /\ r.sm = t.sm /\ r.port = t.port /\ r.iss = t.iss /\ r.mySeq = t.mySeq
      /\ r.remoteSeq = t.remoteSeq /\ r.synSent = t.synSent
      /\ r.txTail = t.txTail /\ r.txUnacked = t.txUnacked /\ r.txHead = t.txHead
      /\ r.rxHead = t.rxHead /\ r.hole = t.hole /\ r.future = t.future
      /\ r.window = t.window /\ r.noneAcked = t.noneAcked /\ r.retries = t.retries
      /\ r.keepalives = t.keepalives /\ r.synQueue = t.synQueue /\ r.out = t.out
  BY <1>3 DEF SocketFields
<1>5. RxOrder(r)
  <2>1. RxRing \in Nat
    BY TcpAssumption DEF TcpAssumption
  <2> QED BY <1>1, <1>3, <1>4, <2>1 DEF Connected, Socket, RxOrder, RxFree, IsGetReady
<1>6. TxOrder(r) /\ Counted(r) /\ Queued(r)
  BY <1>1, <1>4 DEF Connected, Socket, TxOrder, Counted, Queued
<1>7. Connected(r)
  BY <1>1, <1>3, <1>4, <1>5, <1>6 DEF Connected, Socket
<1>8. FinCounted(r) = FinCounted(t)
  BY <1>4 DEF FinCounted
<1>9. StateSawFin(r) /\ Alive(r)
  BY <1>1, <1>4, <1>8 DEF StateSawFin, Alive
<1> QED BY <1>4, <1>7, <1>8, <1>9 DEF Stayed, Good, r


\* Bytes that fit are added behind the others.
LEMMA AddedStayed ==
  ASSUME NEW t, Good(t), t.sm = "ESTABLISHED",
         NEW bytes, Len(bytes) \in Nat, Len(bytes) <= IsPutReady(t)
  PROVE  LET r == [t EXCEPT !.txFifo = Written(@, TxRing, t.txHead, bytes),
                            !.txHead = @ + Len(bytes)]
         IN /\ Stayed(r, t) /\ r.sm = t.sm
            /\ Stayed([r EXCEPT !.timer2 = TRUE], t) /\ [r EXCEPT !.timer2 = TRUE].sm = t.sm
<1> DEFINE fifo == Written(t.txFifo, TxRing, t.txHead, bytes)
           u == [t EXCEPT !.txFifo = fifo, !.txHead = @ + Len(bytes)]
<1>1. Connected(t) /\ StateSawFin(t) /\ Alive(t)
  BY DEF Good, AtRest, Idle
<1> HIDE DEF fifo
<1>2. DOMAIN u = SocketFields
  BY <1>1 DEF Connected, Socket
<1>3. \A r \in {u, [u EXCEPT !.timer2 = TRUE]} : Stayed(r, t) /\ r.sm = t.sm
  <2> SUFFICES ASSUME NEW r \in {u, [u EXCEPT !.timer2 = TRUE]}
               PROVE  Stayed(r, t) /\ r.sm = t.sm
    OBVIOUS
  <2>1. /\ DOMAIN r = SocketFields /\ r.txHead = t.txHead + Len(bytes)
        /\ \A f \in SocketFields \ {"txHead", "txFifo", "timer2"} : r[f] = t[f]
    BY <1>1, <1>2 DEF Connected, Socket, SocketFields
  <2> HIDE DEF u
  <2>2. /\ r.sm = t.sm /\ r.port = t.port /\ r.iss = t.iss /\ r.mySeq = t.mySeq
        /\ r.remoteSeq = t.remoteSeq /\ r.synSent = t.synSent
        /\ r.txTail = t.txTail /\ r.txUnacked = t.txUnacked
        /\ r.rxTail = t.rxTail /\ r.rxHead = t.rxHead /\ r.hole = t.hole /\ r.future = t.future
        /\ r.window = t.window /\ r.noneAcked = t.noneAcked /\ r.retries = t.retries
        /\ r.keepalives = t.keepalives /\ r.synQueue = t.synQueue /\ r.out = t.out
    BY <2>1 DEF SocketFields
  <2>3. TxOrder(r)
    <3>1. TxRing \in Nat /\ Len(bytes) <= TxRing - 1 - (t.txHead - t.txTail)
      BY TcpAssumption DEF TcpAssumption, IsPutReady, Open
    <3>2. TxOrder(t) /\ Len(bytes) \in Nat
      BY <1>1 DEF Connected, Socket
    <3>3. /\ r.txHead = t.txHead + Len(bytes)
          /\ r.txTail = t.txTail /\ r.txUnacked = t.txUnacked
      BY <2>1, <2>2
    <3> QED BY ONLY <3>1, <3>2, <3>3 DEF TxOrder
  <2>4. RxOrder(r) /\ Counted(r) /\ Queued(r)
    BY <1>1, <2>2 DEF Connected, Socket, RxOrder, RxFree, Counted, Queued
  <2>5. Connected(r)
    BY <1>1, <2>1, <2>2, <2>3, <2>4 DEF Connected, Socket
  <2>6. FinCounted(r) = FinCounted(t)
    BY <2>2 DEF FinCounted
  <2>7. StateSawFin(r) /\ Alive(r)
    BY <1>1, <2>2, <2>6 DEF StateSawFin, Alive
  <2> QED BY <2>2, <2>5, <2>6, <2>7 DEF Stayed, Good
<1> QED BY <1>3 DEF fifo

\* halfFull is of no matter to the order.
LEMMA HalfFullStayed ==
  ASSUME NEW t, Good(t)
  PROVE  LET r == [t EXCEPT !.halfFull = TRUE]
         IN Stayed(r, t) /\ r.sm = t.sm /\ r.txHead = t.txHead /\ r.txTail = t.txTail
<1> DEFINE r == [t EXCEPT !.halfFull = TRUE]
<1>1. Socket(t)
  BY DEF Good, AtRest, Connected
<1>2. DOMAIN r = SocketFields /\ \A f \in SocketFields \ {"halfFull"} : r[f] = t[f]
  BY <1>1 DEF Socket, SocketFields
<1> HIDE DEF r
<1>3. /\ r.sm = t.sm /\ r.out = t.out /\ r.keepalives = t.keepalives /\ r.port = t.port
      /\ r.synQueue = t.synQueue /\ r.txHead = t.txHead /\ r.txTail = t.txTail
  BY <1>2 DEF SocketFields
<1>4. Queued(r) /\ r.keepalives \in 0 .. Keepalives /\ r.port \in Int
  BY <1>1, <1>3 DEF Socket, Queued, Counted
<1>5. \A f \in Compared : r[f] = t[f]
  BY <1>2 DEF Compared
<1>6. Good(r) /\ FinCounted(r) = FinCounted(t) /\ r.remoteSeq = t.remoteSeq
  BY <1>2, <1>4, <1>5, SameSocket
<1> QED BY <1>3, <1>6 DEF Stayed, r

LEMMA TCPPutArrayStayed ==
  ASSUME NEW t, Good(t), t.sm = "ESTABLISHED",
         NEW bytes, Len(bytes) \in Nat, Len(bytes) <= IsPutReady(t)
  PROVE  Stayed(TCPPutArray(t, bytes), t)
<1> DEFINE flushed == TCPFlush(t)
           u == IF ~t.halfFull /\ IsPutReady(t) <= TxRing \div 2
                THEN [flushed EXCEPT !.halfFull = TRUE] ELSE t
           v == [u EXCEPT !.txFifo = Written(@, TxRing, u.txHead, bytes), !.txHead = @ + Len(bytes)]
<1>1. /\ Stayed(flushed, t) /\ flushed.sm = t.sm
      /\ flushed.txHead = t.txHead /\ flushed.txTail = t.txTail
  BY TCPFlushStayed
<1>2. TCPPutArray(t, bytes) \in {flushed, TCPFlush(v), [v EXCEPT !.timer2 = TRUE]}
  BY DEF TCPPutArray
<1> HIDE DEF flushed
<1>3. Stayed(u, t) /\ u.sm = "ESTABLISHED" /\ u.txHead = t.txHead /\ u.txTail = t.txTail
  <2>1. Stayed(t, t)
    BY DEF Stayed
  <2>2. LET r == [flushed EXCEPT !.halfFull = TRUE]
        IN Stayed(r, flushed) /\ r.sm = flushed.sm /\ r.txHead = flushed.txHead
           /\ r.txTail = flushed.txTail
    BY <1>1, HalfFullStayed DEF Stayed
  <2> QED BY <1>1, <2>1, <2>2, StayedOn
<1> HIDE DEF u
<1>4. IsPutReady(u) = IsPutReady(t)
  BY SMTT(40), <1>3 DEF IsPutReady
<1>5. Stayed(v, u) /\ Stayed([v EXCEPT !.timer2 = TRUE], u)
  BY <1>3, <1>4, AddedStayed DEF Stayed
<1> HIDE DEF v
<1>6. Stayed(TCPFlush(v), v)
  BY <1>5, TCPFlushStayed DEF Stayed
<1>7. Stayed(TCPFlush(v), t) /\ Stayed([v EXCEPT !.timer2 = TRUE], t)
  BY <1>3, <1>5, <1>6, StayedOn
<1> QED BY <1>1, <1>2, <1>7

\* The server reads no more than it can write.
LEMMA EchoStayed ==
  ASSUME NEW t, Good(t)
  PROVE  Stayed(Echo(t), t)
<1>1. Stayed(t, t)
  BY DEF Stayed
<1>2. ASSUME t.sm = "ESTABLISHED"
      PROVE  Stayed(TCPPutArray(TCPGetArray(t, Len(Chunk(t))), Chunk(t)), t)
  <2> DEFINE n == Lesser(IsGetReady(t), IsPutReady(t))
             g == TCPGetArray(t, n)
  <2>1. Connected(t) /\ IsPutReady(t) = TxRing - 1 - (t.txHead - t.txTail) /\ TxRing \in Nat
    BY <1>2, TcpAssumption DEF TcpAssumption, Good, AtRest, Idle, IsPutReady, Open
  <2>2. t.rxTail \in Nat /\ n \in Nat /\ n <= IsGetReady(t) /\ n <= IsPutReady(t)
    BY <2>1 DEF Lesser, IsGetReady, Connected, Socket, TxOrder, RxOrder
  <2>3. Len(Chunk(t)) = n
    <3> HIDE DEF n
    <3>1. Chunk(t) = Slice(t.rxFifo, RxRing, t.rxTail, t.rxTail + n)
      BY DEF Chunk, n
    <3> QED BY <2>2, <3>1, SliceLength
  <2> HIDE DEF n
  <2>4. /\ Stayed(g, t) /\ g.sm = "ESTABLISHED" /\ g.txHead = t.txHead /\ g.txTail = t.txTail
    BY <1>2, <2>2, TCPGetArrayStayed
  <2>5. g = TCPGetArray(t, Len(Chunk(t)))
    BY <2>3
  <2> HIDE DEF g
  <2>6. IsPutReady(g) = IsPutReady(t)
    BY <1>2, <2>4 DEF IsPutReady
  <2>7. Stayed(TCPPutArray(g, Chunk(t)), g)
    BY <2>2, <2>3, <2>4, <2>6, TCPPutArrayStayed DEF Stayed
  <2> QED BY <2>4, <2>5, <2>7, StayedOn
<1> QED BY <1>1, <1>2 DEF Echo

LEMMA TCPCloseStayed ==
  ASSUME IsFiniteSet(toPeer), IsFiniteSet(toDevice), NEW t, Good(t)
  PROVE  Stayed(TCPClose(t), t)
<1> DEFINE u == [t EXCEPT !.bServer = FALSE]
<1>1. Socket(t)
  BY DEF Good, AtRest, Connected
<1>2. DOMAIN u = SocketFields /\ \A f \in SocketFields \ {"bServer"} : u[f] = t[f]
  BY <1>1 DEF Socket, SocketFields
<1>3. TCPClose(t) = TCPDisconnect(u)
  BY DEF TCPClose
<1> HIDE DEF u
<1>4. u.sm = t.sm /\ u.out = t.out /\ u.keepalives = t.keepalives /\ u.port = t.port
      /\ u.synQueue = t.synQueue
  BY <1>2 DEF SocketFields
<1>5. Queued(u) /\ u.keepalives \in 0 .. Keepalives /\ u.port \in Int
  BY <1>1, <1>4 DEF Socket, Queued, Counted
<1>6. \A f \in Compared : u[f] = t[f]
  BY <1>2 DEF Compared
<1>7. Stayed(u, t)
  <2>1. Good(u) /\ FinCounted(u) = FinCounted(t) /\ u.remoteSeq = t.remoteSeq
    BY <1>2, <1>5, <1>6, SameSocket
  <2> QED BY <1>4, <2>1 DEF Stayed
<1>8. Stayed(TCPDisconnect(u), u)
  BY <1>7, TCPDisconnectStayed DEF Stayed
<1> QED BY <1>3, <1>7, <1>8, StayedOn

\* One call of the server.
LEMMA ServerStayed ==
  ASSUME IsFiniteSet(toPeer), IsFiniteSet(toDevice), NEW t, Good(t),
         server \in {"SM_HOME", "SM_LISTENING", "SM_CLOSING"}
  PROVE  /\ Stayed(GenericTCPServer(t)[1], t)
         /\ GenericTCPServer(t)[2] \in {"SM_HOME", "SM_LISTENING", "SM_CLOSING"}
<1>1. Stayed(t, t)
  BY DEF Stayed
<1>2. CASE server = "SM_HOME"
  <2>1. t.sm = "CLOSED" => Stayed(TCPOpen(t), t)
    BY TCPOpenStayed
  <2>2. GenericTCPServer(t) = IF t.sm = "CLOSED" THEN <<TCPOpen(t), "SM_LISTENING">> ELSE <<t, server>>
    BY <1>2 DEF GenericTCPServer
  <2> QED BY <1>1, <1>2, <2>1, <2>2
<1>3. CASE server = "SM_LISTENING"
  <2>1. GenericTCPServer(t) = <<Echo(t), IF SawEscape(t) THEN "SM_CLOSING" ELSE server>>
    BY <1>3 DEF GenericTCPServer
  <2> QED BY <1>3, <2>1, EchoStayed
<1>4. CASE server = "SM_CLOSING"
  <2>1. GenericTCPServer(t) = <<TCPClose(t), "SM_HOME">>
    BY <1>4 DEF GenericTCPServer
  <2> QED BY <2>1, TCPCloseStayed
<1> QED BY <1>2, <1>3, <1>4


-----------------------------------------------------------------------------
(* The whole system. *)

\* What is sent leaves the socket.
LEMMA SettledStayed ==
  ASSUME NEW t, Good(t), NEW r, r = [t EXCEPT !.out = {}, !.done = FALSE]
  PROVE  Stayed(r, t) /\ r.out = {}
<1>1. Socket(t)
  BY DEF Good, AtRest, Connected
<1>2. /\ DOMAIN r = SocketFields /\ r.out = {}
      /\ \A f \in SocketFields \ {"out", "done"} : r[f] = t[f]
  BY <1>1 DEF Socket, SocketFields
<1>3. r.keepalives = t.keepalives /\ r.port = t.port /\ r.synQueue = t.synQueue
  BY <1>2 DEF SocketFields
<1>4. Queued(r) /\ r.keepalives \in 0 .. Keepalives /\ r.port \in Int
  <2>1. IsFiniteSet(r.out)
    BY <1>2, FS_EmptySet
  <2> QED BY <1>1, <1>2, <1>3, <2>1 DEF Socket, Queued, Counted
<1>5. \A f \in Compared : r[f] = t[f]
  BY <1>2 DEF Compared
<1>6. Good(r) /\ FinCounted(r) = FinCounted(t) /\ r.remoteSeq = t.remoteSeq
  BY <1>2, <1>4, <1>5, SameSocket
<1> QED BY <1>2, <1>3, <1>6 DEF Stayed

PeerFields ==
  {"st", "port", "unacked", "next", "fin", "rcv", "got", "finRcvd", "unread"}

PeerTyped(p) ==
  /\ DOMAIN p = PeerFields /\ p.st \in {"closed", "synSent", "established"}
  /\ {p.port, p.unacked, p.next, p.rcv, p.unread} \subseteq Int

\* Each part of the system has its type.
Typed ==
  /\ Good(s) /\ s.out = {}
  /\ IsFiniteSet(toPeer) /\ \A m \in toPeer : Sent(m)
  /\ IsFiniteSet(toDevice) /\ \A h \in toDevice : Arriving(h)
  /\ PeerTyped(peer)
  /\ server \in {"SM_HOME", "SM_LISTENING", "SM_CLOSING"}

\* The segments of the data of the connection with this port.
Segments(port) == {h \in toDevice : h.kind = "ack" /\ h.port = port}

\* No segment under way ends behind a FIN.
FinIsLast ==
  \A h \in toDevice : h.kind = "ack" /\ h.fin => \A g \in Segments(h.port) : End(g) <= End(h)

\* Where the remote node stands is the end of what it has sent.
PeerEnd == peer.next + (IF peer.fin THEN 1 ELSE 0)

PeerIsAhead ==
  ~gone => \A h \in toDevice : h.kind = "ack" =>
    /\ h.port <= peer.port
    /\ peer.st # "closed" /\ h.port = peer.port =>
         /\ peer.st = "established" /\ End(h) <= PeerEnd
         /\ h.fin => peer.fin /\ End(h) = peer.next + 1

\* A socket that has counted a FIN has counted the last one there is.
CountedIsLast ==
  FinCounted(s) =>
    /\ \A h \in Segments(s.port) : End(h) <= s.remoteSeq
    /\ ~gone => s.port <= peer.port
    /\ ~gone /\ peer.port = s.port /\ peer.st # "closed" =>
         peer.st = "established" /\ peer.fin /\ peer.next + 1 = s.remoteSeq

\* The inductive invariant.
Inv == Typed /\ FinIsLast /\ PeerIsAhead /\ CountedIsLast

LEMMA Initially == Init => Inv
<1> SUFFICES ASSUME Init PROVE Inv
  OBVIOUS
<1>1. AtRest(s) /\ s.out = {}
  <2>1. TxRing \in Nat /\ RxRing \in Nat /\ TxRing >= 2 /\ RxRing >= 2 /\ Word \in Nat /\ Word > 1
        /\ MaxRetries \in Nat /\ SynRetries \in Nat /\ Keepalives \in Nat /\ SynQueueSize \in Nat
    BY TcpAssumption DEF TcpAssumption
  <2>2. MostRetries \in Nat
    BY <2>1 DEF MostRetries, Greater
  <2>3. IsFiniteSet({})
    BY FS_EmptySet
  <2>4. s = ClosedSocket(FALSE, 0)
    BY DEF Init
  <2>5. DOMAIN s = SocketFields
    BY <2>4 DEF ClosedSocket, SocketFields
  <2>6. /\ s.sm = "CLOSED" /\ s.port = 0 /\ s.iss = 0 /\ s.mySeq = 0 /\ s.remoteSeq = 0
        /\ s.window = 1 /\ s.txTail = 0 /\ s.txUnacked = 0 /\ s.txHead = 0
        /\ s.rxTail = 0 /\ s.rxHead = 0 /\ s.hole = -1 /\ s.future = 0
        /\ s.retries = 0 /\ s.synSent = FALSE /\ s.noneAcked = 0 /\ s.keepalives = 0
        /\ s.synQueue = <<>> /\ s.out = {}
    BY <2>4 DEF ClosedSocket
  <2>7. Queued(s)
    BY <2>1, <2>3, <2>6 DEF Queued
  <2>8. TxOrder(s) /\ RxOrder(s) /\ Counted(s)
    BY <2>1, <2>2, <2>6 DEF TxOrder, RxOrder, Counted
  <2> QED BY <2>5, <2>6, <2>7, <2>8 DEF AtRest, Socket, States, Idle
<1>2. PeerTyped(peer)
  BY DEF Init, NoPeer, PeerTyped, PeerFields
<1>3. Typed
  <2>1. toPeer = {} /\ toDevice = {} /\ server = "SM_HOME"
    BY DEF Init
  <2> QED BY <1>1, <1>2, <2>1, AtRestGood, FS_EmptySet DEF Typed
<1>4. FinIsLast /\ PeerIsAhead
  BY DEF Init, FinIsLast, PeerIsAhead
<1>5. CountedIsLast
  BY <1>1, AtRestGood DEF CountedIsLast
<1> QED BY <1>3, <1>4, <1>5 DEF Inv

\* A pass of the main loop takes at most one segment.
LEMMA PassKeeps ==
  ASSUME Inv, NEW due, PassWith(due)
  PROVE  Inv'
<1>1. /\ Good(s) /\ IsFiniteSet(toPeer) /\ IsFiniteSet(toDevice)
      /\ \A h \in toDevice : Arriving(h)
      /\ server \in {"SM_HOME", "SM_LISTENING", "SM_CLOSING"}
  BY DEF Inv, Typed
<1> DEFINE ticked == TCPTick(s, due)
<1>2. PICK received \in {{}} \cup {{h} : h \in toDevice} :
        LET heard == {h \in received : InTime(ticked, h)}
            after == GenericTCPServer(IF heard = {} THEN ticked
                                      ELSE TCPProcess(ticked, CHOOSE h \in heard : TRUE))
        IN /\ Settle(after[1])
           /\ server' = after[2]
           /\ toDevice' = toDevice \ received
           /\ UNCHANGED <<peer, gone>>
  BY DEF PassWith, TakeReceived
<1>3. Stayed(ticked, s)
  BY <1>1, TCPTickStayed
<1> HIDE DEF ticked
<1> DEFINE heard == {h \in received : InTime(ticked, h)}
           t == IF heard = {} THEN ticked
                ELSE TCPProcess(ticked, CHOOSE h \in heard : TRUE)
           a == GenericTCPServer(t)[1]
<1>4. Good(t) /\ (FinCounted(t) => \/ FinCounted(s) /\ t.remoteSeq = s.remoteSeq /\ t.port = s.port
                                   \/ \E h \in toDevice : /\ h.kind = "ack" /\ h.fin
                                                          /\ t.remoteSeq = End(h) /\ t.port = h.port)
  <2>1. CASE heard = {}
    BY <1>3, <2>1 DEF Stayed
  <2>2. CASE heard # {}
    <3>1. PICK h \in toDevice : heard = {h} /\ InTime(ticked, h)
      BY <2>2
    <3>2. t = TCPProcess(ticked, h)
      BY <3>1
    <3> HIDE DEF t
    <3>3. FinCounted(ticked) /\ h.kind = "ack" /\ h.port = ticked.port => End(h) <= ticked.remoteSeq
      BY <1>3 DEF Stayed, Inv, CountedIsLast, Segments
    <3>4. Outcome(t, ticked, h)
      BY <1>1, <1>3, <3>1, <3>2, <3>3, TCPProcessOutcome DEF Stayed
    <3> QED BY <1>3, <3>4 DEF Outcome, Stayed
  <2> QED BY <2>1, <2>2
<1>5. /\ Settle(a) /\ server' = GenericTCPServer(t)[2] /\ toDevice' \subseteq toDevice
      /\ peer' = peer /\ gone' = gone
  BY <1>2
<1> HIDE DEF t, heard
<1>6. Stayed(a, t) /\ server' \in {"SM_HOME", "SM_LISTENING", "SM_CLOSING"}
  BY <1>1, <1>4, <1>5, ServerStayed
<1> HIDE DEF a
<1>7. Stayed(s', a) /\ s'.out = {}
  BY <1>5, <1>6, SettledStayed DEF Settle, Stayed
<1>8. Stayed(s', t)
  BY <1>6, <1>7, StayedOn
<1>9. Typed'
  <2>1. IsFiniteSet(a.out) /\ \A m \in a.out : Sent(m)
    BY <1>6 DEF Stayed, Good, AtRest, Connected, Socket, Queued
  <2>2. PICK sent \in SUBSET a.out : toPeer' = toPeer \cup sent
    BY <1>5 DEF Settle
  <2>3. IsFiniteSet(toPeer') /\ \A m \in toPeer' : Sent(m)
    <3>1. IsFiniteSet(sent)
      BY <2>1, FS_Subset
    <3> QED BY <1>1, <2>1, <2>2, <3>1, FS_Union DEF Inv, Typed
  <2>4. IsFiniteSet(toDevice') /\ \A h \in toDevice' : Arriving(h)
    BY <1>1, <1>5, FS_Subset
  <2>5. PeerTyped(peer')
    BY <1>5 DEF Inv, Typed
  <2> QED BY <1>6, <1>7, <2>3, <2>4, <2>5 DEF Typed, Stayed
<1>10. FinIsLast' /\ PeerIsAhead'
  BY <1>5 DEF Inv, FinIsLast, PeerIsAhead, PeerEnd, Segments
<1>11. CountedIsLast'
  <2> SUFFICES ASSUME FinCounted(s')
               PROVE  /\ \A h \in toDevice : h.kind = "ack" /\ h.port = s'.port => End(h) <= s'.remoteSeq
                      /\ ~gone => s'.port <= peer.port
                      /\ ~gone /\ peer.port = s'.port /\ peer.st # "closed" =>
                           peer.st = "established" /\ peer.fin /\ peer.next + 1 = s'.remoteSeq
    BY <1>5 DEF CountedIsLast, Segments
  <2>1. FinCounted(t) /\ s'.remoteSeq = t.remoteSeq /\ s'.port = t.port
    BY <1>8 DEF Stayed
  <2>2. CASE FinCounted(s) /\ t.remoteSeq = s.remoteSeq /\ t.port = s.port
    BY <2>1, <2>2 DEF Inv, CountedIsLast, Segments
  <2>3. CASE \E h \in toDevice : h.kind = "ack" /\ h.fin /\ t.remoteSeq = End(h) /\ t.port = h.port
    BY <2>1, <2>3 DEF Inv, FinIsLast, PeerIsAhead, Segments
  <2> QED BY <1>4, <2>1, <2>2, <2>3
<1> QED BY <1>9, <1>10, <1>11 DEF Inv


\* The remote node has sent a segment that says nothing of data.
LEMMA NoDataKeeps ==
  ASSUME Inv, UNCHANGED <<s, gone, server>>, toPeer' \subseteq toPeer,
         NEW h, Arriving(h), h.kind # "ack", toDevice' \in {toDevice, toDevice \cup {h}},
         PeerTyped(peer'), peer'.port = peer.port, peer'.st \in {"closed", peer.st},
         peer'.st # "closed" => peer'.next = peer.next /\ peer'.fin = peer.fin
  PROVE  Inv'
<1>1. Typed'
  <2>1. IsFiniteSet(toDevice') /\ \A g \in toDevice' : Arriving(g)
    <3>1. IsFiniteSet(toDevice \cup {h})
      BY FS_AddElement DEF Inv, Typed
    <3> QED BY <3>1 DEF Inv, Typed
  <2>2. IsFiniteSet(toPeer') /\ \A m \in toPeer' : Sent(m)
    BY FS_Subset DEF Inv, Typed
  <2> QED BY <2>1, <2>2 DEF Inv, Typed
<1>2. \A g \in toDevice' : g.kind = "ack" => g \in toDevice
  OBVIOUS
<1>3. FinIsLast'
  BY <1>2 DEF Inv, FinIsLast, Segments
<1>4. PeerIsAhead'
  BY <1>2 DEF Inv, PeerIsAhead, PeerEnd
<1>5. CountedIsLast'
  BY <1>2 DEF Inv, CountedIsLast, Segments
<1> QED BY <1>1, <1>3, <1>4, <1>5 DEF Inv

\* Nothing but the remote node's own state changes, and no number that is
\* compared.
LEMMA PeerAloneKeeps ==
  ASSUME Inv, UNCHANGED <<s, gone, server, toDevice>>, toPeer' \subseteq toPeer,
         PeerTyped(peer'), peer'.port = peer.port,
         \/ peer'.st \in {"closed", peer.st}
         \/ peer.st = "synSent",
         peer'.st # "closed" => peer'.next = peer.next /\ peer'.fin = peer.fin
  PROVE  Inv'
<1>1. Typed'
  <2>1. IsFiniteSet(toPeer') /\ \A m \in toPeer' : Sent(m)
    BY FS_Subset DEF Inv, Typed
  <2> QED BY <2>1 DEF Inv, Typed
<1>2. FinIsLast'
  BY DEF Inv, FinIsLast, Segments
<1>3. PeerIsAhead'
  BY DEF Inv, PeerIsAhead, PeerEnd
<1>4. CountedIsLast'
  BY DEF Inv, CountedIsLast, Segments
<1> QED BY <1>1, <1>2, <1>3, <1>4 DEF Inv

\* No segment the remote node sends ends behind its FIN.
LEMMA SegmentKeeps ==
  ASSUME Inv, UNCHANGED server, PeerSegment
  PROVE  Inv'
<1>1. PICK len \in 0 .. Mss, seq \in peer.unacked .. peer.next :
        LET end == seq + len
            fin == peer.fin /\ end = peer.next
        IN /\ end <= (IF peer.fin THEN peer.next ELSE Script + 1)
           /\ len > 0 \/ fin \/ seq = peer.next
           /\ PeerSends(Segment("ack", IF len = 0 /\ ~fin /\ peer.fin THEN peer.next + 1 ELSE seq,
                                len, fin, peer.rcv, PeerWindow))
           /\ peer' = [peer EXCEPT !.next = Greater(@, end)]
  BY DEF PeerSegment
<1> DEFINE end == seq + len
           fin == peer.fin /\ end = peer.next
           from == IF len = 0 /\ ~fin /\ peer.fin THEN peer.next + 1 ELSE seq
           h == Segment("ack", from, len, fin, peer.rcv, PeerWindow)
<1>2. /\ ~gone /\ peer.st = "established" /\ PeerTyped(peer)
      /\ peer.next \in Int /\ peer.port \in Int /\ peer.unacked \in Int
      /\ len \in Nat /\ seq \in Int /\ seq <= peer.next
  <2>1. PeerTyped(peer) /\ ~gone /\ peer.st = "established"
    BY DEF PeerSegment, Inv, Typed
  <2>2. Mss \in Nat
    BY TcpAssumption DEF TcpAssumption
  <2> QED BY <2>1, <2>2 DEF PeerTyped
<1>3. /\ toDevice' \in {toDevice, toDevice \cup {h}} /\ UNCHANGED <<s, toPeer, gone>>
      /\ end <= (IF peer.fin THEN peer.next ELSE Script + 1)
  BY <1>1 DEF PeerSends
<1>4. /\ h.port = peer.port /\ h.kind = "ack" /\ h.seq = from /\ h.len = len /\ h.fin = fin
      /\ h.ack = peer.rcv /\ h.window = PeerWindow
  BY DEF Segment
<1>5. End(h) = from + len + (IF fin THEN 1 ELSE 0) /\ from \in Int
  <2>1. from \in Int
    BY <1>2
  <2> HIDE DEF from, fin, h
  <2> QED BY <1>2, <1>4, <2>1 DEF End, SegmentLength
<1>6. /\ DOMAIN peer' = DOMAIN peer /\ peer'.next = Greater(peer.next, end)
      /\ \A f \in PeerFields \ {"next"} : peer'[f] = peer[f]
  BY <1>1, <1>2 DEF PeerTyped, PeerFields
<1>7. Arriving(h)
  <2>1. peer.rcv \in Int /\ PeerWindow \in Int
    BY <1>2, TcpAssumption DEF TcpAssumption, PeerTyped, PeerWindow
  <2> QED BY <1>2, <1>4, <2>1 DEF Arriving
<1> HIDE DEF h
<1>8. /\ peer'.st = peer.st /\ peer'.port = peer.port /\ peer'.fin = peer.fin
      /\ peer'.rcv = peer.rcv /\ peer'.unacked = peer.unacked /\ peer'.unread = peer.unread
  BY <1>6 DEF PeerFields
<1>9. /\ peer'.next \in Int /\ peer'.next >= peer.next /\ peer'.next >= end
      /\ peer.fin => peer'.next = peer.next
  BY <1>2, <1>3, <1>6 DEF Greater
<1>10. /\ End(h) \in Int /\ (h.fin => peer.fin /\ End(h) = peer.next + 1)
       /\ peer.fin => End(h) <= peer.next + 1
       /\ ~peer.fin => End(h) <= peer'.next
  <2>1. CASE fin
    BY <1>2, <1>4, <1>5, <2>1
  <2>2. CASE ~fin /\ peer.fin /\ len = 0
    BY <1>2, <1>4, <1>5, <2>2
  <2>3. CASE ~fin /\ ~(peer.fin /\ len = 0)
    <3>1. from = seq /\ end = seq + len
      BY <2>3
    <3>2. peer.fin => end <= peer.next
      BY <1>3
    <3> HIDE DEF from, fin, end
    <3> QED BY <1>2, <1>4, <1>5, <1>9, <2>3, <3>1, <3>2
  <2> QED BY <2>1, <2>2, <2>3
<1> HIDE DEF end, fin, from
<1>11. \A g \in Segments(peer.port) :
         /\ End(g) <= PeerEnd
         /\ g.fin => peer.fin /\ End(g) = peer.next + 1
  BY <1>2 DEF Inv, PeerIsAhead, Segments
<1>12. \A g \in toDevice : End(g) \in Int
  BY DEF Inv, Typed, Arriving, End, SegmentLength
<1>13. Typed'
  <2>1. IsFiniteSet(toDevice') /\ \A g \in toDevice' : Arriving(g)
    <3>1. IsFiniteSet(toDevice \cup {h})
      BY FS_AddElement DEF Inv, Typed
    <3> QED BY <1>3, <1>7, <3>1 DEF Inv, Typed
  <2>2. PeerTyped(peer')
    BY <1>2, <1>6, <1>8, <1>9 DEF PeerTyped
  <2> QED BY <1>3, <2>1, <2>2 DEF Inv, Typed
<1>14. FinIsLast'
  <2> SUFFICES ASSUME NEW b \in toDevice \cup {h}, b.kind = "ack", b.fin,
                      NEW g \in toDevice \cup {h}, g.kind = "ack", g.port = b.port
               PROVE  End(g) <= End(b)
    BY <1>3 DEF FinIsLast, Segments
  <2>1. CASE b \in toDevice /\ g \in toDevice
    BY <2>1 DEF Inv, FinIsLast, Segments
  <2>2. CASE b = h
    BY <1>4, <1>10, <1>11, <1>12, <2>2 DEF Segments, PeerEnd
  <2>3. CASE b \in toDevice /\ g = h
    BY <1>4, <1>10, <1>11, <2>3 DEF Segments
  <2> QED BY <2>1, <2>2, <2>3
<1>15. PeerIsAhead'
  <2> SUFFICES ASSUME NEW g \in toDevice \cup {h}, g.kind = "ack"
               PROVE  /\ g.port <= peer.port
                      /\ g.port = peer.port =>
                           /\ End(g) <= peer'.next + (IF peer.fin THEN 1 ELSE 0)
                           /\ g.fin => peer.fin /\ End(g) = peer'.next + 1
    BY <1>2, <1>3, <1>8 DEF PeerIsAhead, PeerEnd
  <2>1. CASE g \in toDevice
    <3>1. g.port <= peer.port
      BY <1>2, <2>1 DEF Inv, PeerIsAhead
    <3>2. ASSUME g.port = peer.port
          PROVE  /\ End(g) <= peer'.next + (IF peer.fin THEN 1 ELSE 0)
                 /\ g.fin => peer.fin /\ End(g) = peer'.next + 1
      BY <1>2, <1>9, <1>11, <1>12, <2>1, <3>2 DEF Segments, PeerEnd
    <3> QED BY <3>1, <3>2
  <2>2. CASE g = h
    BY <1>2, <1>4, <1>9, <1>10, <2>2
  <2> QED BY <2>1, <2>2
<1>16. CountedIsLast'
  BY <1>2, <1>3, <1>4, <1>8, <1>9, <1>10 DEF Inv, CountedIsLast, Segments
<1> QED BY <1>13, <1>14, <1>15, <1>16 DEF Inv


\* What the remote node accepts does not change what it has sent.
LEMMA AcceptedTyped ==
  ASSUME PeerTyped(peer), NEW m, Sent(m)
  PROVE  LET r == Accepted(m)
         IN /\ PeerTyped(r) /\ r.port = peer.port /\ r.next = peer.next /\ r.fin = peer.fin
            /\ r.st \in {"closed", peer.st}
<1> DEFINE old == peer.rcv - m.seq
           len == Lesser(Len(m.data) - old, PeerWindow)
           rcv == IF old >= 0 /\ len > 0 THEN peer.rcv + len ELSE peer.rcv
           fin == ~peer.finRcvd /\ "fin" \in m.flags /\ rcv = m.seq + Len(m.data)
           unacked == Lesser(Greater(peer.unacked, m.ack), peer.next)
           ack == rcv + (IF fin THEN 1 ELSE 0)
           unread == peer.unread + (rcv - peer.rcv)
           got == peer.got \o (IF rcv > peer.rcv THEN SubSeq(m.data, old + 1, old + len) ELSE <<>>)
           finRcvd == peer.finRcvd \/ fin
           p == [peer EXCEPT !.unacked = unacked, !.rcv = ack, !.got = got,
                             !.unread = unread, !.finRcvd = finRcvd]
           r == Accepted(m)
<1>1. r \in {peer, p, [p EXCEPT !.st = "closed"]}
  BY DEF Accepted
<1>2. PeerWindow \in Int
  BY TcpAssumption DEF TcpAssumption, PeerTyped, PeerWindow
<1>3. rcv \in Int /\ unread \in Int /\ unacked \in Int
  <2>1. {peer.unacked, peer.next, peer.rcv, peer.unread} \subseteq Int
    BY DEF PeerTyped
  <2>2. m.seq \in Int /\ m.ack \in Int /\ Len(m.data) \in Nat
    BY DEF Sent
  <2>3. len \in Int
    BY <1>2, <2>1, <2>2 DEF Lesser
  <2> HIDE DEF len
  <2>4. rcv \in Int
    BY <2>1, <2>3
  <2>5. unacked \in Int
    BY <2>1, <2>2 DEF Lesser, Greater
  <2> QED BY <2>1, <2>4, <2>5
<1> HIDE DEF fin, rcv
<1>4. ack \in Int
  BY <1>3
<1> HIDE DEF r, unread, unacked, ack, got, finRcvd
<1>5. /\ DOMAIN r = PeerFields /\ r.port = peer.port /\ r.next = peer.next /\ r.fin = peer.fin
      /\ r.st \in {"closed", peer.st} /\ r.unacked \in {peer.unacked, unacked}
      /\ r.rcv \in {peer.rcv, ack} /\ r.unread \in {peer.unread, unread}
  BY <1>1 DEF PeerTyped, PeerFields
<1>6. PeerTyped(r)
  BY <1>3, <1>4, <1>5 DEF PeerTyped
<1> QED BY <1>5, <1>6 DEF r

LEMMA ClosedTyped ==
  ASSUME PeerTyped(peer)
  PROVE  LET p == [NoPeer EXCEPT !.port = peer.port]
         IN PeerTyped(p) /\ p.port = peer.port /\ p.st = "closed"
BY DEF PeerTyped, NoPeer, PeerFields

LEMMA ReceivesKeeps ==
  ASSUME Inv, UNCHANGED server, NEW m \in toPeer, PeerReceives(m)
  PROVE  Inv'
<1> DEFINE closed == [NoPeer EXCEPT !.port = peer.port]
           open == [peer EXCEPT !.st = "established", !.unacked = 1, !.rcv = m.seq + 1]
<1>1. PeerTyped(peer) /\ Sent(m)
  BY DEF Inv, Typed
<1>2. /\ UNCHANGED <<s, gone, server, toDevice>> /\ toPeer' \subseteq toPeer
      /\ \/ peer' \in {peer, closed, Accepted(m)}
         \/ peer.st = "synSent" /\ peer' = open
  BY DEF PeerReceives
<1>3. CASE peer' = peer
  BY <1>1, <1>2, <1>3, PeerAloneKeeps
<1>4. CASE peer' = closed
  <2>1. PeerTyped(peer') /\ peer'.port = peer.port /\ peer'.st = "closed"
    BY <1>1, <1>4, ClosedTyped
  <2> HIDE DEF closed
  <2> QED BY <1>2, <2>1, PeerAloneKeeps
<1>5. CASE peer' = Accepted(m)
  <2>1. /\ PeerTyped(peer') /\ peer'.port = peer.port /\ peer'.st \in {"closed", peer.st}
        /\ peer'.next = peer.next /\ peer'.fin = peer.fin
    BY <1>1, <1>5, AcceptedTyped
  <2> QED BY <1>2, <2>1, PeerAloneKeeps
<1>6. CASE peer.st = "synSent" /\ peer' = open
  <2>1. /\ PeerTyped(peer') /\ peer'.port = peer.port
        /\ peer'.next = peer.next /\ peer'.fin = peer.fin
    BY <1>1, <1>6 DEF PeerTyped, PeerFields, Sent
  <2> HIDE DEF open
  <2> QED BY <1>2, <1>6, <2>1, PeerAloneKeeps
<1> QED BY <1>2, <1>3, <1>4, <1>5, <1>6

\* Whatever the remote node does, the socket has counted no more than it sent.
LEMMA RemoteKeeps ==
  ASSUME Inv, UNCHANGED server, Remote
  PROVE  Inv'
<1>1. PeerTyped(peer) /\ \A m \in toPeer : Sent(m)
  BY DEF Inv, Typed
<1>2. CASE PeerOpen
  <2>1. /\ PeerTyped(peer') /\ peer'.port = peer.port + 1 /\ peer.port \in Int
        /\ UNCHANGED <<s, toDevice, toPeer, gone>> /\ ~gone
    BY <1>1, <1>2 DEF PeerOpen, PeerTyped, PeerFields, NoPeer
  <2>2. Typed'
    BY <2>1 DEF Inv, Typed
  <2>3. FinIsLast'
    BY <2>1 DEF Inv, FinIsLast, Segments
  <2>4. \A h \in toDevice : h.kind = "ack" => h.port < peer'.port
    BY <2>1 DEF Inv, Typed, Arriving, PeerIsAhead
  <2>5. PeerIsAhead'
    <3> SUFFICES ASSUME NEW h \in toDevice, h.kind = "ack"
                 PROVE  h.port <= peer'.port /\ h.port # peer'.port
      BY <2>1 DEF PeerIsAhead
    <3> QED BY <2>1, <2>4 DEF Inv, Typed, Arriving
  <2>6. CountedIsLast'
    <3>1. s.port \in Int
      BY DEF Inv, Typed, Good, AtRest, Connected, Socket
    <3>2. FinCounted(s) => s.port < peer'.port
      BY <2>1, <3>1 DEF Inv, CountedIsLast
    <3>3. FinCounted(s) => s.port <= peer'.port /\ peer'.port # s.port
      BY <2>1, <3>1, <3>2
    <3> QED BY <2>1, <3>3 DEF Inv, CountedIsLast, Segments
  <2> QED BY <2>2, <2>3, <2>5, <2>6 DEF Inv
<1>3. CASE PeerSyn
  <2> DEFINE h == Segment("syn", 0, 0, FALSE, 0, 0)
  <2>1. /\ UNCHANGED <<s, gone, server>> /\ toPeer' \subseteq toPeer /\ peer' = peer
        /\ toDevice' \in {toDevice, toDevice \cup {h}}
    BY <1>3 DEF PeerSyn, PeerSends
  <2>2. Arriving(h) /\ h.kind # "ack"
    BY <1>1, TcpAssumption DEF TcpAssumption, Segment, Arriving, PeerTyped
  <2> HIDE DEF h
  <2> QED BY <1>1, <2>1, <2>2, NoDataKeeps
<1>4. CASE PeerSegment
  BY <1>4, SegmentKeeps
<1>5. CASE PeerClose
  <2>1. /\ UNCHANGED <<s, toDevice, toPeer, gone>> /\ ~gone
        /\ peer.st = "established" /\ ~peer.fin
        /\ peer'.st = peer.st /\ peer'.port = peer.port /\ peer'.next = peer.next /\ peer'.fin
        /\ PeerTyped(peer') /\ peer.next \in Int
    BY <1>1, <1>5 DEF PeerClose, PeerTyped, PeerFields
  <2>2. Typed'
    BY <2>1 DEF Inv, Typed
  <2>3. FinIsLast'
    BY <2>1 DEF Inv, FinIsLast, Segments
  <2>4. \A h \in toDevice : End(h) \in Int
    BY DEF Inv, Typed, Arriving, End, SegmentLength
  <2>5. PeerIsAhead'
    <3> SUFFICES ASSUME NEW h \in toDevice, h.kind = "ack"
                 PROVE  /\ h.port <= peer.port
                        /\ h.port = peer.port => End(h) <= peer.next + 1 /\ ~h.fin
      BY <2>1 DEF PeerIsAhead, PeerEnd
    <3> QED BY <2>1, <2>4 DEF Inv, PeerIsAhead, PeerEnd
  <2>6. CountedIsLast'
    BY <2>1 DEF Inv, CountedIsLast, Segments
  <2> QED BY <2>2, <2>3, <2>5, <2>6 DEF Inv
<1>6. CASE PeerReads
  <2>1. /\ UNCHANGED <<s, gone, server, toDevice>> /\ toPeer' \subseteq toPeer
        /\ PeerTyped(peer') /\ peer'.port = peer.port /\ peer'.st = peer.st
        /\ peer'.next = peer.next /\ peer'.fin = peer.fin
    BY <1>1, <1>6 DEF PeerReads, PeerTyped, PeerFields
  <2> QED BY <2>1, PeerAloneKeeps
<1>7. CASE PeerAbort
  <2> DEFINE h == Segment("rst", peer.next, 0, FALSE, peer.rcv, 0)
  <2>1. /\ UNCHANGED <<s, gone, server>> /\ toPeer' \subseteq toPeer
        /\ toDevice' \in {toDevice, toDevice \cup {h}}
        /\ peer' = [NoPeer EXCEPT !.port = peer.port]
    BY <1>7 DEF PeerAbort, PeerSends
  <2>2. Arriving(h) /\ h.kind # "ack"
    BY <1>1, TcpAssumption DEF TcpAssumption, Segment, Arriving, PeerTyped
  <2> HIDE DEF h
  <2>3. PeerTyped(peer') /\ peer'.port = peer.port /\ peer'.st = "closed"
    BY <1>1, <2>1, ClosedTyped
  <2> QED BY <2>1, <2>2, <2>3, NoDataKeeps
<1>8. CASE PeerVanishes
  <2>1. UNCHANGED <<s, toDevice, server>> /\ gone' /\ toPeer' = {} /\ peer' = NoPeer
    BY <1>8 DEF PeerVanishes
  <2>2. Typed'
    BY <2>1, FS_EmptySet DEF Inv, Typed, PeerTyped, PeerFields, NoPeer
  <2>3. FinIsLast' /\ PeerIsAhead' /\ CountedIsLast'
    BY <2>1 DEF Inv, FinIsLast, PeerIsAhead, CountedIsLast, Segments
  <2> QED BY <2>2, <2>3 DEF Inv
<1>9. CASE \E m \in toPeer : PeerReceives(m) \/ PeerRefuses(m)
  <2>1. PICK m \in toPeer : PeerReceives(m) \/ PeerRefuses(m)
    BY <1>9
  <2>2. CASE PeerReceives(m)
    BY <2>2, ReceivesKeeps
  <2>3. CASE PeerRefuses(m)
    <3> DEFINE h == [port |-> m.port, kind |-> "rst", seq |-> m.ack, len |-> 0,
                     fin |-> FALSE, ack |-> 0, window |-> 0]
    <3>1. /\ UNCHANGED <<s, gone, server>> /\ toPeer' \subseteq toPeer /\ peer' = peer
          /\ toDevice' \in {toDevice, toDevice \cup {h}}
      BY <2>3 DEF PeerRefuses
    <3>2. Arriving(h) /\ h.kind # "ack"
      BY <1>1, TcpAssumption DEF TcpAssumption, Arriving, Sent
    <3> HIDE DEF h
    <3> QED BY <1>1, <3>1, <3>2, NoDataKeeps
  <2> QED BY <2>1, <2>2, <2>3
<1> QED BY <1>2, <1>3, <1>4, <1>5, <1>6, <1>7, <1>8, <1>9 DEF Remote

LEMMA StepKeeps == Inv /\ [Next]_allVars => Inv'
<1> SUFFICES ASSUME Inv, [Next]_allVars PROVE Inv'
  OBVIOUS
<1>1. CASE Pass
  BY <1>1, PassKeeps DEF Pass, TimerPass
<1>2. CASE Remote /\ UNCHANGED server
  BY <1>2, RemoteKeeps
<1>3. CASE UNCHANGED allVars
  <2>1. UNCHANGED <<s, toDevice, toPeer, peer, gone, server>>
    BY <1>3 DEF allVars, vars
  <2> QED BY <2>1 DEF Inv, Typed, FinIsLast, PeerIsAhead, PeerEnd, CountedIsLast, Segments
<1> QED BY <1>1, <1>2, <1>3 DEF Next

\* The inductive invariant of the socket, the network and the remote node holds
\* in every state: no order of segments, passes and timers leads out of it.
THEOREM Always == Spec => []Inv
<1>1. Init => Inv
  BY Initially
<1>2. Inv /\ [Next]_allVars => Inv'
  BY StepKeeps
<1> QED BY <1>1, <1>2, PTL DEF Spec

-----------------------------------------------------------------------------
(* What holds of the socket. *)

\* Whatever segments come, are lost or come twice and whichever timers are due:
\* each pointer of the two FIFOs stays in its order and neither FIFO holds more
\* than it can, the bytes behind a hole among it; the counters of the retries
\* and keep-alives stay within what TCP_MAX_RETRIES and its like allow.
THEOREM PointersStayInOrder == Spec => []TypeOK
<1>1. Inv => TypeOK
  <2> SUFFICES ASSUME Inv PROVE TypeOK
    OBVIOUS
  <2>1. Socket(s)
    BY DEF Inv, Typed, Good, AtRest, Connected
  <2> QED BY <2>1 DEF Socket, TxOrder, RxOrder, Counted, Queued, MostRetries, TypeOK
<1> QED BY <1>1, Always, PTL

\* MySEQ and RemoteSEQ agree with the pointers of the FIFOs in every connection,
\* though TCP.c changes the two in different places: no retransmission, filled
\* hole or FIN that comes twice makes the stack number a byte wrongly.
THEOREM NumbersAgree == Spec => []NumbersFollowPointers
<1>1. Inv => NumbersFollowPointers
  <2> SUFFICES ASSUME Inv, s.synSent, s.sm # "SYN_RECEIVED"
               PROVE  s.mySeq = s.iss + 1 + s.txUnacked /\ s.remoteSeq - 1 - s.rxHead \in {0, 1}
    BY DEF NumbersFollowPointers, SameConnection
  <2> QED BY DEF Inv, Typed, Good, AtRest, Connected
<1> QED BY <1>1, Always, PTL

-----------------------------------------------------------------------------
(* Numbers: the ring of a FIFO, and the numbers of a connection. *)

\* A product grows with its factor.
LEMMA ProductGrows ==
  ASSUME NEW m \in Nat, NEW p \in Int, NEW q \in Int, p < q
  PROVE  m * p + m <= m * q
<1>1. PICK d \in Nat : q = p + 1 + d
  <2>1. q - p - 1 \in Nat /\ q = p + 1 + (q - p - 1)
    OBVIOUS
  <2> QED BY <2>1
<1>2. m * q = m * p + m + m * d
  BY <1>1
<1>3. m * d >= 0 /\ m * d \in Int /\ m * p \in Int
  OBVIOUS
<1> QED BY <1>2, <1>3

\* What a number is made of.
LEMMA Divided ==
  ASSUME NEW m \in Nat \ {0}, NEW a \in Int
  PROVE  /\ a \div m \in Int /\ m * (a \div m) \in Int /\ a % m \in 0 .. m - 1
         /\ a = m * (a \div m) + (a % m)
<1>1. a = m * (a \div m) + (a % m) /\ a % m \in 0 .. m - 1 /\ a \div m \in Int
  OBVIOUS
<1> DEFINE i == a \div m
<1>2. m * i \in Int
  <2>1. i \in Int
    BY <1>1
  <2> HIDE DEF i
  <2> QED BY <2>1
<1> QED BY <1>1, <1>2

\* Two positions at one place of a ring are a whole ring apart.
LEMMA RingApart ==
  ASSUME NEW m \in Nat \ {0}, NEW p \in Int, NEW q \in Int, p % m = q % m, p < q
  PROVE  p + m <= q
<1> DEFINE i == p \div m
           j == q \div m
<1>1. i \in Int /\ j \in Int /\ p = m * i + (p % m) /\ q = m * j + (p % m) /\ p % m \in Int
      /\ m * i \in Int /\ m * j \in Int
  BY Divided
<1> HIDE DEF i, j
<1>2. i < j
  <2> SUFFICES ASSUME j <= i PROVE FALSE
    BY <1>1
  <2>1. m * j <= m * i
    <3>1. CASE j = i
      BY <1>1, <3>1
    <3>2. CASE j < i
      <4>1. m * j + m <= m * i
        BY <1>1, <3>2, ProductGrows
      <4> QED BY <1>1, <4>1
    <3> QED BY <1>1, <3>1, <3>2
  <2> DEFINE r == p % m
             x == m * i
             y == m * j
  <2>2. p = x + r /\ q = y + r /\ y <= x /\ x \in Int /\ y \in Int /\ r \in Int
    BY <1>1, <2>1
  <2> HIDE DEF r, x, y
  <2> QED BY <2>2
<1>3. m * i + m <= m * j
  BY <1>1, <1>2, ProductGrows
<1> DEFINE r == p % m
           x == m * i
           y == m * j
<1>4. p = x + r /\ q = y + r /\ x + m <= y /\ x \in Int /\ y \in Int /\ r \in Int
  BY <1>1, <1>3
<1> HIDE DEF r, x, y
<1> QED BY <1>4

\* The number that a connection began with.
Start(n) == Far * (n \div Far)

LEMMA FarTyped == Far \in Nat \ {0} /\ Far = Script + PeerRoom + 3 /\ Script \in Nat /\ PeerRoom \in Nat
  BY TcpAssumption DEF Far, TcpAssumption

LEMMA StartBelow ==
  ASSUME NEW n \in Int
  PROVE  Start(n) \in Int /\ Start(n) <= n /\ n < Start(n) + Far
<1>1. Far \in Nat \ {0}
  BY FarTyped
<1> DEFINE x == Far * (n \div Far)
<1>2. x \in Int /\ n % Far \in 0 .. Far - 1 /\ n = x + (n % Far)
  BY <1>1, Divided
<1>3. Start(n) = x
  BY DEF Start
<1> HIDE DEF x
<1> QED BY <1>1, <1>2, <1>3

\* Connections begin far from each other.
LEMMA StartApart ==
  ASSUME NEW a \in Int, NEW b \in Int, Start(a) # Start(b)
  PROVE  Start(a) + Far <= Start(b) \/ Start(b) + Far <= Start(a)
<1> DEFINE i == a \div Far
           j == b \div Far
<1>1. i \in Int /\ j \in Int /\ Far \in Nat \ {0}
  BY FarTyped, Divided
<1>2. Start(a) = Far * i /\ Start(b) = Far * j
  BY DEF Start
<1> HIDE DEF i, j
<1>3. i < j \/ j < i
  BY <1>1, <1>2
<1> QED BY <1>1, <1>2, <1>3, ProductGrows

LEMMA StartIs ==
  ASSUME NEW b \in Int, Start(b) = b, NEW n \in Int, b <= n, n < b + Far
  PROVE  Start(n) = b
<1>1. Start(n) \in Int /\ Start(n) <= n /\ n < Start(n) + Far /\ Far \in Int
  BY StartBelow, FarTyped
<1>2. Start(n) # b => Start(n) + Far <= b \/ b + Far <= Start(n)
  BY StartApart
<1> QED BY <1>1, <1>2

LEMMA StartOfProduct ==
  ASSUME NEW k \in Int
  PROVE  Far * k \in Int /\ Start(Far * k) = Far * k
<1>1. Far \in Nat \ {0}
  BY FarTyped
<1> DEFINE x == Far * k
<1>2. x \in Int
  BY <1>1
<1>3. Start(x) = Far * (x \div Far) /\ x \div Far \in Int
  BY <1>1, <1>2, Divided DEF Start
<1> DEFINE i == x \div Far
<1>4. Start(x) <= x /\ x < Start(x) + Far
  BY <1>2, StartBelow
<1>5. i \in Int /\ Start(x) = Far * i /\ Far * i \in Int
  BY <1>1, <1>3
<1> HIDE DEF i
<1>6. ~ (i < k)
  <2> SUFFICES ASSUME i < k PROVE FALSE
    OBVIOUS
  <2>1. Far * i + Far <= Far * k
    BY <1>1, <1>5, ProductGrows
  <2> HIDE DEF x
  <2>2. Far * k = x
    BY DEF x
  <2> QED BY <1>1, <1>2, <1>4, <1>5, <2>1, <2>2
<1>7. ~ (k < i)
  <2> SUFFICES ASSUME k < i PROVE FALSE
    OBVIOUS
  <2>1. Far * k + Far <= Far * i
    BY <1>1, <1>5, ProductGrows
  <2> HIDE DEF x
  <2>2. Far * k = x
    BY DEF x
  <2> QED BY <1>1, <1>2, <1>4, <1>5, <2>1, <2>2
<1>8. i = k
  BY <1>5, <1>6, <1>7
<1> QED BY <1>2, <1>5, <1>8

LEMMA StartTwice ==
  ASSUME NEW n \in Int
  PROVE  Start(Start(n)) = Start(n)
<1>1. n \div Far \in Int
  BY FarTyped, Divided
<1> QED BY <1>1, StartOfProduct DEF Start

\* A fresh number begins a connection that nothing under way is of.
LEMMA FreshStart ==
  ASSUME NEW t, IsFiniteSet(t.out), IsFiniteSet(toPeer), IsFiniteSet(toDevice)
  PROVE  /\ FreshSeq(t) \in Int /\ Start(FreshSeq(t)) = FreshSeq(t)
         /\ \A n \in Numbers(t) : n \in Int => Start(n) # FreshSeq(t)
<1>1. PICK k \in Nat : FreshSeq(t) = Far * k /\ \A n \in Numbers(t) : n \div Far # k
  BY FreshSeqIsNew
<1>2. Far * k \in Int /\ Start(Far * k) = Far * k
  BY StartOfProduct
<1>3. ASSUME NEW n \in Numbers(t), n \in Int PROVE Start(n) # FreshSeq(t)
  <2> DEFINE i == n \div Far
  <2>1. i \in Int /\ i # k /\ Start(n) = Far * i /\ Far \in Nat \ {0}
    BY <1>1, <1>3, FarTyped, Divided DEF Start
  <2> HIDE DEF i
  <2>2. i < k \/ k < i
    BY <2>1
  <2>3. i < k => Far * i + Far <= Far * k
    BY <2>1, ProductGrows
  <2>4. k < i => Far * k + Far <= Far * i
    BY <2>1, ProductGrows
  <2>5. Far * i \in Int
    BY <2>1
  <2> QED BY <1>1, <1>2, <2>1, <2>2, <2>3, <2>4, <2>5
<1> QED BY <1>1, <1>2, <1>3

\* What a FIFO holds at a position.
Place(fifo, ring, p) == fifo[p % ring]

\* Bytes of any kind.
Bytes == Int \X Int

LEMMA ByteTyped ==
  ASSUME NEW port \in Int, NEW place \in Int
  PROVE  Byte(port, place) \in Bytes
BY DEF Byte, Bytes

\* The positions of a FIFO from one up to another hold the bytes of the remote
\* node with this port, each at its place.
Holds(fifo, ring, from, to, port) ==
  \A p \in from .. to - 1 : fifo[p % ring] = Byte(port, p + 1)

\* Bytes in order, so many from a position on.
Carries(d, from, len, port) ==
  /\ d \in Seq(Bytes) /\ Len(d) = len
  /\ \A i \in 1 .. len : d[i] = Byte(port, from + i)

\* What was written into a FIFO is there.
LEMMA WrittenInside ==
  ASSUME NEW fifo, NEW ring \in Nat \ {0}, NEW at \in Int, NEW bytes, NEW port, NEW n \in Nat,
         n <= ring, Carries(bytes, at, n, port), NEW p \in Int, at <= p, p < at + n
  PROVE  Place(Written(fifo, ring, at, bytes), ring, p) = Byte(port, p + 1)
<1>0. p \in Int /\ Len(bytes) = n
  BY DEF Carries
<1>1. p % ring \in 0 .. ring - 1
  BY <1>0, Divided
<1> DEFINE Here(i, k) == (at + i - 1) % ring = k
           k == p % ring
           j == CHOOSE i \in 1 .. n : Here(i, k)
<1>2. p - at + 1 \in 1 .. n /\ at + (p - at + 1) - 1 = p /\ at + (p - at + 1) = p + 1
  OBVIOUS
<1>3. Written(fifo, ring, at, bytes)[k] = IF \E i \in 1 .. n : Here(i, k) THEN bytes[j] ELSE fifo[k]
  BY <1>0, <1>1 DEF Written
<1>4. \E i \in 1 .. n : Here(i, k)
  BY <1>2
<1>5. j \in 1 .. n /\ Here(j, k)
  <2> HIDE DEF Here, k
  <2> QED BY <1>4
<1> HIDE DEF j
<1>6. j = p - at + 1
  <2>1. at + j - 1 \in Int /\ (at + j - 1) % ring = p % ring /\ n <= ring
    BY <1>5
  <2>2. ~ (p < at + j - 1)
    <3> SUFFICES ASSUME p < at + j - 1 PROVE FALSE
      OBVIOUS
    <3>1. p + ring <= at + j - 1
      BY <2>1, RingApart
    <3> QED BY <1>2, <1>5, <3>1, <2>1
  <2>3. ~ (at + j - 1 < p)
    <3> SUFFICES ASSUME at + j - 1 < p PROVE FALSE
      OBVIOUS
    <3>1. at + j - 1 + ring <= p
      BY <2>1, RingApart
    <3> QED BY <1>2, <1>5, <3>1, <2>1
  <2> QED BY <1>5, <2>2, <2>3
<1>7. Written(fifo, ring, at, bytes)[k] = Byte(port, p + 1)
  <2>1. bytes[j] = Byte(port, at + j)
    BY <1>5 DEF Carries
  <2> QED BY <1>2, <1>3, <1>4, <1>6, <2>1
<1> QED BY <1>7 DEF Place

\* And nothing else has changed.
LEMMA WrittenOutside ==
  ASSUME NEW fifo, NEW ring \in Nat \ {0}, NEW at \in Int, NEW bytes, Len(bytes) \in Nat,
         NEW p \in Int, p < at \/ p >= at + Len(bytes),
         at + Len(bytes) - 1 < p + ring, p < at + ring
  PROVE  Place(Written(fifo, ring, at, bytes), ring, p) = Place(fifo, ring, p)
<1> DEFINE n == Len(bytes)
           Here(i, k) == (at + i - 1) % ring = k
           k == p % ring
<1>1. p % ring \in 0 .. ring - 1
  BY Divided
<1>2. Written(fifo, ring, at, bytes)[k]
        = IF \E i \in 1 .. n : Here(i, k) THEN bytes[CHOOSE i \in 1 .. n : Here(i, k)] ELSE fifo[k]
  BY <1>1 DEF Written
<1>3. ASSUME NEW i \in 1 .. n, Here(i, k) PROVE FALSE
  <2>1. at + i - 1 \in Int /\ (at + i - 1) % ring = p % ring
    BY <1>3
  <2>2. ~ (p < at + i - 1)
    <3> SUFFICES ASSUME p < at + i - 1 PROVE FALSE
      OBVIOUS
    <3>1. p + ring <= at + i - 1
      BY <2>1, RingApart
    <3> QED BY <3>1
  <2>3. ~ (at + i - 1 < p)
    <3> SUFFICES ASSUME at + i - 1 < p PROVE FALSE
      OBVIOUS
    <3>1. at + i - 1 + ring <= p
      BY <2>1, RingApart
    <3> QED BY <3>1
  <2> QED BY <2>2, <2>3
<1> HIDE DEF Here, k
<1>4. Written(fifo, ring, at, bytes)[k] = fifo[k]
  BY <1>2, <1>3
<1> QED BY <1>4 DEF k, Place

\* What is cleared of a FIFO leaves the rest.
LEMMA ClearedOutside ==
  ASSUME NEW fifo, NEW ring \in Nat \ {0}, NEW from \in Int, NEW to \in Int,
         NEW p \in Int, p < from \/ p >= to, to - 1 < p + ring, p < from + ring
  PROVE  Cleared(fifo, ring, from, to)[p % ring] = fifo[p % ring]
<1>1. p % ring \in 0 .. ring - 1
  BY Divided
<1> DEFINE Here(i, k) == i % ring = k
           k == p % ring
<1>2. Cleared(fifo, ring, from, to)[k]
        = IF \E i \in from .. to - 1 : Here(i, k) THEN Junk ELSE fifo[k]
  BY <1>1 DEF Cleared
<1>3. ASSUME NEW i \in from .. to - 1, Here(i, k) PROVE FALSE
  <2>1. i \in Int /\ i % ring = p % ring
    BY <1>3
  <2>2. ~ (p < i)
    <3> SUFFICES ASSUME p < i PROVE FALSE
      OBVIOUS
    <3>1. p + ring <= i
      BY <2>1, RingApart
    <3> QED BY <3>1
  <2>3. ~ (i < p)
    <3> SUFFICES ASSUME i < p PROVE FALSE
      OBVIOUS
    <3>1. i + ring <= p
      BY <2>1, RingApart
    <3> QED BY <3>1
  <2> QED BY <2>2, <2>3
<1> HIDE DEF Here, k
<1>4. Cleared(fifo, ring, from, to)[k] = fifo[k]
  BY <1>2, <1>3
<1> QED BY <1>4 DEF k

\* Such a FIFO yields them in order.
LEMMA SliceOfBytes ==
  ASSUME NEW fifo, NEW ring, NEW from \in Nat, NEW to \in Nat, from <= to, NEW port \in Int,
         Holds(fifo, ring, from, to, port),
         NEW d, d = Slice(fifo, ring, from, to), NEW len, len = to - from
  PROVE  Carries(d, from, len, port)
<1>1. len \in Nat
  OBVIOUS
<1>2. d = [i \in 1 .. len |-> fifo[(from + i - 1) % ring]]
  BY <1>1 DEF Slice
<1>3. ASSUME NEW i \in 1 .. len PROVE d[i] = Byte(port, from + i)
  <2>1. d[i] = fifo[(from + i - 1) % ring]
    BY <1>2
  <2>2. PICK p \in from .. to - 1 : p = from + i - 1
    BY <1>1
  <2>3. fifo[p % ring] = Byte(port, p + 1) /\ p + 1 = from + i
    BY <2>2 DEF Holds
  <2> QED BY <2>1, <2>2, <2>3
<1>4. ASSUME NEW i \in 1 .. len PROVE d[i] \in Bytes
  <2>1. from + i \in Int
    OBVIOUS
  <2>2. Byte(port, from + i) \in Bytes
    BY <2>1, ByteTyped
  <2> QED BY <1>3, <2>2
<1>5. d \in [1 .. len -> Bytes]
  BY <1>2, <1>4
<1>6. d \in Seq(Bytes) /\ Len(d) = len
  <2>1. d \in Seq(Bytes)
    BY <1>5, SeqDef
  <2>2. DOMAIN d = 1 .. len /\ DOMAIN d = 1 .. Len(d) /\ Len(d) \in Nat
    BY <1>5, <2>1, LenProperties
  <2> QED BY <2>1, <2>2
<1> QED BY <1>3, <1>6 DEF Carries

-----------------------------------------------------------------------------
(* The stream: what the segments under way carry, and where the two ends of  *)
(* it stand.                                                                 *)

\* What is under way to the remote node, or will be at the end of the step; a
\* RST carries nothing.
Under(t) == {m \in toPeer \cup t.out : "rst" \notin m.flags}

SegEnd(m) == m.seq + Len(m.data)

\* The bytes of a segment are those of its place.
Truthful(m) ==
  \A j \in 1 .. Len(m.data) : m.data[j] = Byte(m.port, m.seq - Start(m.seq) + j - 1)

\* A segment stays among the numbers of its connection.
Ranged(m) ==
  /\ m.data \in Seq(Bytes)
  /\ SegEnd(m) <= Start(m.seq) + Script + 1
  /\ "syn" \in m.flags => m.seq = Start(m.seq)

\* To the remote node that waits for it a segment is true or old, and none goes
\* beyond a FIN that has come; before the connection is there, none has bytes.
Known(m) ==
  /\ ~gone => m.port <= peer.port
  /\ peer.st = "synSent" /\ m.port = peer.port => m.data = <<>>
  /\ peer.st = "established" /\ m.port = peer.port /\ Start(m.seq) = Start(peer.rcv) =>
       /\ Truthful(m) \/ SegEnd(m) <= peer.rcv
       /\ peer.finRcvd => SegEnd(m) <= peer.rcv - 1

\* A segment of the socket's connection goes no further than the FIFO, and one
\* with a FIN just as far.
Behind(m, t) ==
  Start(m.seq) = t.iss =>
    /\ SegEnd(m) <= t.iss + 1 + t.txHead
    /\ "fin" \in m.flags => SegEnd(m) = t.iss + 1 + t.txHead
    /\ "syn" \in m.flags => t.sm \notin Idle

OnTheWay(t) == \A m \in Under(t) : Ranged(m) /\ Known(m) /\ Behind(m, t)

\* No segment goes beyond a FIN of its connection.
FinEnds(t) ==
  \A m, n \in Under(t) :
    Start(m.seq) = Start(n.seq) /\ "fin" \in m.flags => SegEnd(n) <= SegEnd(m)

\* SameConnection, for a socket in the middle of a step.
Joins(t) ==
  peer.st = "established" /\ t.port = peer.port /\ t.synSent /\ Start(peer.rcv) = t.iss

\* What the remote node has got lies between the ends of the FIFO.
Joined(t) ==
  Joins(t) => /\ t.txTail <= Len(peer.got) /\ Len(peer.got) <= t.txHead
              /\ peer.finRcvd => Len(peer.got) = t.txHead

\* A socket at rest has not begun what a remote node is in the middle of.
Apart(t) == t.sm \in Idle /\ peer.st = "established" => Start(peer.rcv) # t.iss

\* Nothing is echoed to a remote node that has not had the answer to its SYN.
Early(t) ==
  t.sm \notin Idle /\ peer.st = "synSent" /\ t.port = peer.port
    => t.sm # "ESTABLISHED" /\ t.txHead = 0

\* The newest connection of the remote node is the last one known.
Ports(t) ==
  ~gone => /\ t.port <= peer.port
           /\ \A i \in 1 .. Len(t.synQueue) : t.synQueue[i].port <= peer.port

\* The transmit FIFO holds what comes next in the stream, up to its head.
TxBytes(t) ==
  /\ t.txHead <= Script
  /\ Holds(t.txFifo, TxRing, t.txTail, t.txHead, t.port)

\* What is sent and not acknowledged is timed.
Timed(t) == ~t.timer => t.txTail = t.txUnacked

Flow(t) ==
  /\ Start(t.iss) = t.iss /\ OnTheWay(t) /\ FinEnds(t)
  /\ Joined(t) /\ Apart(t) /\ Early(t) /\ Ports(t) /\ TxBytes(t) /\ Timed(t)

\* The receive FIFO: what is in order, and what is kept behind the hole.
RxBytes(t) ==
  /\ t.rxHead <= Script
  /\ Holds(t.rxFifo, RxRing, t.rxTail, t.rxHead, t.port)
  /\ t.hole # -1 =>
       /\ t.rxHead + t.hole + t.future <= Script
       /\ Holds(t.rxFifo, RxRing, t.rxHead + t.hole, t.rxHead + t.hole + t.future, t.port)

\* The states in which the server may still write: no FIN has been asked for,
\* and all that was read is written.
Unfinished(t) == t.sm \in Idle \cup {"SYN_RECEIVED", "ESTABLISHED"}

Echoing(t) ==
  Unfinished(t) =>
    /\ ~t.txFin
    /\ \A m \in Under(t) : Start(m.seq) = t.iss => "fin" \notin m.flags
    /\ Joins(t) => ~peer.finRcvd
    /\ t.txHead = t.rxTail /\ RxBytes(t)
    /\ t.sm \in Idle => t.hole = -1

\* The remote node's end.
PeerStands ==
  /\ PeerTyped(peer) /\ peer.port >= 0 /\ peer.got \in Seq(Bytes) /\ peer.unread >= 0
  /\ gone => peer.st = "closed"
  /\ EchoInOrder
  /\ peer.st = "established" =>
       /\ peer.rcv = Start(peer.rcv) + 1 + Len(peer.got) + (IF peer.finRcvd THEN 1 ELSE 0)
       /\ Len(peer.got) <= Script /\ peer.next <= Script + 1
  /\ peer.st = "synSent" => peer.got = <<>> /\ ~peer.finRcvd /\ peer.next = 1

\* A segment that comes acknowledges no more than the remote node has got.
Heard(h) ==
  /\ ~gone => h.port <= peer.port
  /\ h.kind = "ack" =>
       /\ h.len > 0 => h.seq + h.len <= Script + 1
       /\ h.port = peer.port =>
            /\ peer.st # "synSent"
            /\ peer.st = "established" => Start(h.ack) = Start(peer.rcv) /\ h.ack <= peer.rcv

-----------------------------------------------------------------------------
(* SendTCP and the stream. *)

\* The segment m with len bytes is what SendTCP sends of t.
Transmits(r, t, flags, mode, m, len) ==
  /\ r.out = t.out \cup {m} /\ m.port = t.port
  /\ "rst" \in m.flags <=> "rst" \in flags
  /\ "syn" \in m.flags <=> "syn" \in flags
  /\ len \in Nat /\ len <= Unsent(t) /\ r.txUnacked = t.txUnacked + len
  /\ flags \cap {"syn", "rst"} # {} => len = 0
  /\ len > 0 \/ t.timer => r.timer
  /\ \/ /\ mode = "probe" /\ len = 0 /\ "fin" \notin m.flags /\ "syn" \notin m.flags
        /\ m.seq = t.mySeq - 1 /\ m.data = <<Junk>>
     \/ /\ m.seq = IF "syn" \in flags /\ t.synSent THEN t.mySeq - 1 ELSE t.mySeq
        /\ m.data = Slice(t.txFifo, TxRing, t.txUnacked, t.txUnacked + len)
        /\ "fin" \in m.flags => /\ "syn" \notin m.flags /\ "rst" \notin m.flags
                                /\ len = Unsent(t) /\ (t.txFin \/ "fin" \in flags)
  /\ r.txFin = (t.txFin \/ "fin" \in flags) /\ r.synSent = (t.synSent \/ "syn" \in flags)
  /\ r.txFifo = t.txFifo /\ r.rxFifo = t.rxFifo /\ Kept(r, t)

LEMMA SendTCPTransmits ==
  ASSUME NEW t, Socket(t), NEW flags, NEW mode
  PROVE  \E m, len : Transmits(SendTCP(t, flags, mode), t, flags, mode, m, len)
<1> DEFINE bare == flags \cap {"syn", "rst"} # {}
           sendable == Lesser(Unsent(t), t.window)
           len == IF bare THEN 0 ELSE Lesser(sendable, Mss)
           txFin == t.txFin \/ "fin" \in flags
           fin == ~bare /\ txFin /\ FinFits(t, len)
           counts == AsksForAnswer(flags, len, fin)
           probe == ~counts /\ mode = "probe"
           back == probe \/ ("syn" \in flags /\ t.synSent)
           data == IF probe THEN <<Junk>>
                   ELSE Slice(t.txFifo, TxRing, t.txUnacked, t.txUnacked + len)
           m == [port |-> t.port, flags |-> (flags \ {"fin"}) \cup (IF fin THEN {"fin"} ELSE {}),
                 seq |-> IF back THEN t.mySeq - 1 ELSE t.mySeq,
                 data |-> data, ack |-> t.remoteSeq]
           r == SendTCP(t, flags, mode)
<1>1. /\ r.out = t.out \cup {m} /\ r.txUnacked = t.txUnacked + len
      /\ r.timer = (t.timer \/ counts) /\ r.txFin = txFin
      /\ r.synSent = (t.synSent \/ "syn" \in flags)
      /\ r.txFifo = t.txFifo /\ r.rxFifo = t.rxFifo
  BY DEF SendTCP, Socket, SocketFields
<1>2. Kept(r, t)
  BY SendTCPMoves
<1>3. /\ len \in Nat /\ len <= Unsent(t)
      /\ fin => len = Unsent(t)
  BY TcpAssumption DEF Socket, TxOrder, Counted, Lesser, Unsent, TcpAssumption, FinFits
<1>4. /\ len > 0 => counts
      /\ fin => counts
      /\ "syn" \in flags => counts
  BY DEF AsksForAnswer
<1>5. /\ bare => len = 0
      /\ fin => ~bare /\ txFin
  OBVIOUS
<1> HIDE DEF len, fin, counts, txFin, r
<1>6. /\ m.port = t.port /\ m.seq = (IF back THEN t.mySeq - 1 ELSE t.mySeq) /\ m.data = data
      /\ "rst" \in m.flags <=> "rst" \in flags
      /\ "syn" \in m.flags <=> "syn" \in flags
      /\ "fin" \in m.flags <=> fin
  OBVIOUS
<1> HIDE DEF m
<1>7. CASE probe
  <2>1. len = 0 /\ "fin" \notin m.flags /\ "syn" \notin m.flags /\ mode = "probe"
    BY <1>3, <1>4, <1>6, <1>7
  <2>2. m.seq = t.mySeq - 1 /\ m.data = <<Junk>>
    BY <1>6, <1>7
  <2>3. Transmits(r, t, flags, mode, m, len)
    BY <1>1, <1>2, <1>3, <1>4, <1>5, <1>6, <2>1, <2>2 DEF Transmits, txFin
  <2> QED BY <2>3 DEF r
<1>8. CASE ~probe
  <2>1. /\ m.seq = IF "syn" \in flags /\ t.synSent THEN t.mySeq - 1 ELSE t.mySeq
        /\ m.data = Slice(t.txFifo, TxRing, t.txUnacked, t.txUnacked + len)
    BY <1>6, <1>8
  <2>2. "fin" \in m.flags => /\ "syn" \notin m.flags /\ "rst" \notin m.flags
                             /\ len = Unsent(t) /\ (t.txFin \/ "fin" \in flags)
    BY <1>3, <1>5, <1>6 DEF txFin
  <2>3. Transmits(r, t, flags, mode, m, len)
    BY <1>1, <1>2, <1>3, <1>4, <1>5, <1>6, <2>1, <2>2 DEF Transmits, txFin
  <2> QED BY <2>3 DEF r
<1> QED BY <1>7, <1>8

\* A segment of a connection is one of its numbers, goes no further than the
\* FIFO, and is true.
LEMMA NewSegment ==
  ASSUME NEW t, Connected(t), Flow(t), PeerStands,
         NEW r, NEW flags, NEW mode, NEW m, NEW len, Transmits(r, t, flags, mode, m, len),
         "rst" \notin flags, "syn" \in flags => t.txHead = 0,
         mode = "probe" => t.sm = "ESTABLISHED" /\ ~t.timer
  PROVE  /\ Ranged(m) /\ Known(m) /\ Start(m.seq) = t.iss
         /\ SegEnd(m) <= t.iss + 1 + t.txHead
         /\ "fin" \in m.flags => SegEnd(m) = t.iss + 1 + t.txHead
<1>1. /\ t.iss \in Int /\ t.mySeq = t.iss + 1 + t.txUnacked /\ t.port \in Int
      /\ t.txTail \in Nat /\ t.txUnacked \in Nat /\ t.txHead \in Nat
      /\ t.txTail <= t.txUnacked /\ t.txUnacked <= t.txHead
      /\ t.sm \notin Idle /\ t.synSent
  BY DEF Connected, Socket, TxOrder
<1>2. /\ Start(t.iss) = t.iss /\ t.txHead <= Script
      /\ Holds(t.txFifo, TxRing, t.txTail, t.txHead, t.port)
      /\ ~t.timer => t.txTail = t.txUnacked
  BY DEF Flow, TxBytes, Timed
<1>3. Far \in Nat /\ Far = Script + PeerRoom + 3 /\ Script \in Nat /\ PeerRoom \in Nat
  BY FarTyped
<1>4. /\ m.port = t.port /\ len \in Nat /\ len <= t.txHead - t.txUnacked
      /\ "syn" \in m.flags <=> "syn" \in flags
      /\ "syn" \in flags => len = 0
  BY DEF Transmits, Unsent
\* What the remote node that waits for this connection has got.
<1>5. ASSUME peer.st = "established", m.port = peer.port, t.iss = Start(peer.rcv)
      PROVE  /\ peer.rcv \in Int /\ Len(peer.got) \in Nat
             /\ peer.rcv = t.iss + 1 + Len(peer.got) + (IF peer.finRcvd THEN 1 ELSE 0)
             /\ t.txTail <= Len(peer.got)
             /\ peer.finRcvd => Len(peer.got) = t.txHead
  <2>1. Joins(t)
    BY <1>1, <1>4, <1>5 DEF Joins
  <2>2. t.txTail <= Len(peer.got) /\ (peer.finRcvd => Len(peer.got) = t.txHead)
    BY <2>1 DEF Flow, Joined
  <2>3. peer.rcv \in Int /\ peer.got \in Seq(Bytes)
    BY DEF PeerStands, PeerTyped
  <2>4. peer.rcv = Start(peer.rcv) + 1 + Len(peer.got) + (IF peer.finRcvd THEN 1 ELSE 0)
    BY <1>5 DEF PeerStands
  <2>5. Len(peer.got) \in Nat
    BY <2>3
  <2> QED BY <1>5, <2>2, <2>3, <2>4, <2>5
<1>6. ~gone => m.port <= peer.port
  BY <1>4 DEF Flow, Ports
<1>7. ASSUME peer.st = "synSent", m.port = peer.port
      PROVE  t.sm # "ESTABLISHED" /\ t.txHead = 0
  BY <1>1, <1>4, <1>7 DEF Flow, Early
<1>8. CASE mode = "probe" /\ len = 0 /\ "fin" \notin m.flags /\ "syn" \notin m.flags
           /\ m.seq = t.mySeq - 1 /\ m.data = <<Junk>>
  <2>1. Len(m.data) = 1 /\ m.data \in Seq(Bytes)
    BY <1>8 DEF Bytes, Junk
  <2>2. m.seq \in Int /\ m.seq = t.iss + t.txUnacked
    BY <1>1, <1>8
  <2>3. Start(m.seq) = t.iss
    BY <1>1, <1>2, <1>3, <2>2, StartIs
  <2>4. SegEnd(m) = t.iss + t.txUnacked + 1
    BY <2>1, <2>2 DEF SegEnd
  <2>5. Ranged(m)
    BY <1>1, <1>2, <1>3, <1>8, <2>1, <2>3, <2>4 DEF Ranged
  <2>6. Known(m)
    <3>1. ~ (peer.st = "synSent" /\ m.port = peer.port)
      BY <1>7, <1>8
    <3>2. ASSUME peer.st = "established", m.port = peer.port, Start(m.seq) = Start(peer.rcv)
          PROVE  SegEnd(m) <= peer.rcv /\ (peer.finRcvd => SegEnd(m) <= peer.rcv - 1)
      <4>1. t.txTail = t.txUnacked
        BY <1>2, <1>8
      <4> QED BY <1>1, <1>5, <2>3, <2>4, <3>2, <4>1
    <3> QED BY <1>6, <3>1, <3>2 DEF Known
  <2> QED BY <1>1, <1>8, <2>3, <2>4, <2>5, <2>6
<1>9. CASE /\ m.seq = IF "syn" \in flags /\ t.synSent THEN t.mySeq - 1 ELSE t.mySeq
           /\ m.data = Slice(t.txFifo, TxRing, t.txUnacked, t.txUnacked + len)
           /\ "fin" \in m.flags => /\ "syn" \notin m.flags /\ "rst" \notin m.flags
                                   /\ len = Unsent(t) /\ (t.txFin \/ "fin" \in flags)
  <2> DEFINE to == t.txUnacked + len
  <2>0. to \in Nat /\ t.txUnacked <= to /\ to <= t.txHead /\ to - t.txUnacked = len
    BY <1>1, <1>4
  <2>1. /\ m.data \in Seq(Bytes) /\ Len(m.data) = len
        /\ \A i \in 1 .. len : m.data[i] = Byte(t.port, t.txUnacked + i)
    <3>1. Holds(t.txFifo, TxRing, t.txUnacked, to, t.port)
      BY <1>1, <1>2, <2>0 DEF Holds
    <3>2. m.data = Slice(t.txFifo, TxRing, t.txUnacked, to)
      BY <1>9
    <3> HIDE DEF to
    <3>3. QED
      <4>1. t.txUnacked \in Nat /\ t.port \in Int
        BY <1>1
      <4>2. to \in Nat /\ t.txUnacked <= to /\ len = to - t.txUnacked
        BY <2>0
      <4>3. Carries(m.data, t.txUnacked, len, t.port)
        BY <3>1, <3>2, <4>1, <4>2, SliceOfBytes
      <4> QED BY <4>3 DEF Carries
  <2>2. CASE "syn" \in flags
    <3>1. /\ m.seq = t.iss /\ len = 0 /\ t.txHead = 0 /\ "fin" \notin m.flags
      <4>1. t.txUnacked = 0 /\ t.txHead = 0 /\ len = 0
        BY <1>1, <1>4, <2>2
      <4>2. m.seq = t.mySeq - 1
        BY <1>1, <1>9, <2>2
      <4>3. "fin" \notin m.flags
        BY <1>4, <1>9, <2>2
      <4>4. m.seq = t.iss
        BY <1>1, <4>1, <4>2
      <4> QED BY <4>1, <4>3, <4>4
    <3>2. Start(m.seq) = t.iss /\ SegEnd(m) = t.iss
      BY <1>1, <1>2, <2>1, <3>1 DEF SegEnd
    <3>3. Truthful(m) /\ m.data = <<>>
      <4>1. Len(m.data) = 0
        BY <2>1, <3>1
      <4> QED BY <2>1, <4>1 DEF Truthful
    <3>4. Ranged(m)
      BY <1>1, <1>3, <2>1, <3>1, <3>2 DEF Ranged
    <3>5. Known(m)
      <4>1. ASSUME peer.st = "established", m.port = peer.port, Start(m.seq) = Start(peer.rcv)
            PROVE  peer.finRcvd => SegEnd(m) <= peer.rcv - 1
        BY <1>1, <1>5, <3>2, <4>1
      <4> QED BY <1>6, <3>3, <4>1 DEF Known
    <3> QED BY <1>1, <3>1, <3>2, <3>4, <3>5
  <2>3. CASE "syn" \notin flags
    <3>1. m.seq = t.iss + 1 + t.txUnacked /\ m.seq \in Int /\ "syn" \notin m.flags
      BY <1>1, <1>4, <1>9, <2>3
    <3>2. Start(m.seq) = t.iss
      BY <1>1, <1>2, <1>3, <3>1, StartIs
    <3>3. SegEnd(m) = t.iss + 1 + t.txUnacked + len
      BY <2>1, <3>1 DEF SegEnd
    <3>4. Truthful(m)
      <4>1. ASSUME NEW j \in 1 .. Len(m.data)
            PROVE  m.data[j] = Byte(m.port, m.seq - Start(m.seq) + j - 1)
        <5>1. m.data[j] = Byte(t.port, t.txUnacked + j)
          BY <2>1
        <5>2. m.seq - Start(m.seq) + j - 1 = t.txUnacked + j
          BY SMTT(40), <1>1, <1>4, <2>1, <3>1, <3>2
        <5> QED BY <1>4, <5>1, <5>2
      <4> QED BY <4>1 DEF Truthful
    <3>5. Ranged(m)
      BY SMTT(40), <1>1, <1>2, <1>3, <1>4, <2>1, <3>1, <3>2, <3>3 DEF Ranged
    <3>6. "fin" \in m.flags => SegEnd(m) = t.iss + 1 + t.txHead
      <4>1. "fin" \in m.flags => len = t.txHead - t.txUnacked
        BY <1>9 DEF Unsent
      <4> QED BY <1>1, <1>4, <3>3, <4>1
    <3>7. Known(m)
      <4>1. ASSUME peer.st = "synSent", m.port = peer.port PROVE m.data = <<>>
        <5>1. len = 0
          BY <1>1, <1>4, <1>7, <4>1
        <5>2. Len(m.data) = 0
          BY <2>1, <5>1
        <5> QED BY <2>1, <5>2
      <4>2. ASSUME peer.st = "established", m.port = peer.port, Start(m.seq) = Start(peer.rcv)
            PROVE  peer.finRcvd => SegEnd(m) <= peer.rcv - 1
        BY SMTT(40), <1>1, <1>4, <1>5, <3>2, <3>3, <4>2
      <4> QED BY <1>6, <3>4, <4>1, <4>2 DEF Known
    <3> QED BY <1>1, <1>4, <3>2, <3>3, <3>5, <3>6, <3>7
  <2> QED BY <2>2, <2>3
<1> QED BY <1>8, <1>9 DEF Transmits

\* What the socket may send at its end of the stream.
Proper(m, t) ==
  /\ Ranged(m) /\ Known(m) /\ Start(m.seq) = t.iss
  /\ SegEnd(m) <= t.iss + 1 + t.txHead
  /\ "fin" \in m.flags => SegEnd(m) = t.iss + 1 + t.txHead
  /\ "syn" \in m.flags => t.sm \notin Idle

\* A proper segment, or a RST, fits in with those under way.
LEMMA OneMore ==
  ASSUME NEW t, NEW r, NEW m, OnTheWay(t), FinEnds(t), r.out = t.out \cup {m},
         r.iss = t.iss, r.txHead = t.txHead, t.sm \notin Idle => r.sm \notin Idle,
         "rst" \in m.flags \/ Proper(m, r)
  PROVE  OnTheWay(r) /\ FinEnds(r)
<1>1. CASE "rst" \in m.flags
  <2>1. Under(r) = Under(t)
    BY <1>1 DEF Under
  <2>2. \A n : Behind(n, t) => Behind(n, r)
    BY DEF Behind
  <2> QED BY <2>1, <2>2 DEF OnTheWay, FinEnds
<1>2. CASE Proper(m, r) /\ "rst" \notin m.flags
  <2>1. Under(r) = Under(t) \cup {m}
    BY <1>2 DEF Under
  <2>2. \A n : Behind(n, t) => Behind(n, r)
    BY DEF Behind
  <2>3. Ranged(m) /\ Known(m) /\ Behind(m, r)
    BY <1>2 DEF Proper, Behind
  <2>4. OnTheWay(r)
    BY <2>1, <2>2, <2>3 DEF OnTheWay
  <2>5. ASSUME NEW a \in Under(r), NEW b \in Under(r), Start(a.seq) = Start(b.seq), "fin" \in a.flags
        PROVE  SegEnd(b) <= SegEnd(a)
    <3>1. CASE a # m /\ b # m
      BY <2>1, <2>5, <3>1 DEF FinEnds
    <3>2. CASE a = m \/ b = m
      <4>1. Start(a.seq) = r.iss /\ Start(b.seq) = r.iss
        BY <1>2, <2>5, <3>2 DEF Proper
      <4>2. Behind(a, r) /\ Behind(b, r)
        BY <2>4, <2>5 DEF OnTheWay
      <4>3. SegEnd(a) = r.iss + 1 + r.txHead /\ SegEnd(b) <= r.iss + 1 + r.txHead
        BY <2>5, <4>1, <4>2 DEF Behind
      <4> QED BY <4>3
    <3> QED BY <3>1, <3>2
  <2> QED BY <2>4, <2>5 DEF FinEnds
<1> QED BY <1>1, <1>2

\* The rest of Flow is about other fields.
LEMMA FlowKept ==
  ASSUME NEW t, Flow(t), NEW r, OnTheWay(r), FinEnds(r), Timed(r),
         r.sm = t.sm, r.port = t.port, r.iss = t.iss, r.txTail = t.txTail, r.txHead = t.txHead,
         r.txFifo = t.txFifo, r.synQueue = t.synQueue, Joins(r) => Joins(t)
  PROVE  Flow(r)
<1>1. Joined(r)
  BY DEF Flow, Joined
<1>2. Apart(r) /\ Early(r) /\ Ports(r) /\ TxBytes(r)
  BY DEF Flow, Apart, Early, Ports, TxBytes
<1> QED BY <1>1, <1>2 DEF Flow

\* Echoing, after a segment without a FIN.
LEMMA EchoingKept ==
  ASSUME NEW t, Echoing(t), NEW r, NEW m, r.out = t.out \cup {m}, r.txFin => t.txFin,
         "rst" \in m.flags \/ (Unfinished(t) => "fin" \notin m.flags), r.rxFifo = t.rxFifo,
         Kept(r, t), Joins(r) => Joins(t)
  PROVE  Echoing(r)
<1> SUFFICES ASSUME Unfinished(r)
             PROVE  /\ ~r.txFin
                    /\ \A n \in Under(r) : Start(n.seq) = r.iss => "fin" \notin n.flags
                    /\ Joins(r) => ~peer.finRcvd
                    /\ r.txHead = r.rxTail /\ RxBytes(r)
                    /\ r.sm \in Idle => r.hole = -1
  BY DEF Echoing
<1>1. Unfinished(t)
  BY DEF Unfinished, Kept
<1>2. \A n \in Under(r) : n \in Under(t) \/ "fin" \notin n.flags
  BY <1>1 DEF Under
<1>3. \A n \in Under(r) : Start(n.seq) = r.iss => "fin" \notin n.flags
  BY <1>1, <1>2 DEF Echoing, Kept
<1>4. RxBytes(r)
  BY <1>1 DEF Echoing, RxBytes, Kept
<1> QED BY <1>1, <1>3, <1>4 DEF Echoing, Kept

\* SendTCP keeps the stream of a connection.
LEMMA SendTCPFlow ==
  ASSUME NEW t, Connected(t), Flow(t), PeerStands, NEW flags, NEW mode,
         "rst" \notin flags, "syn" \in flags => t.txHead = 0,
         mode = "probe" => t.sm = "ESTABLISHED" /\ ~t.timer
  PROVE  LET r == SendTCP(t, flags, mode)
         IN Flow(r) /\ ("fin" \notin flags /\ Echoing(t) => Echoing(r))
<1> DEFINE r == SendTCP(t, flags, mode)
<1>1. PICK m, len : Transmits(r, t, flags, mode, m, len)
  BY SendTCPTransmits DEF Connected
<1> HIDE DEF r
<1>2. /\ r.out = t.out \cup {m} /\ Kept(r, t) /\ r.txFifo = t.txFifo /\ r.rxFifo = t.rxFifo
      /\ r.txFin = (t.txFin \/ "fin" \in flags)
      /\ "fin" \in m.flags => t.txFin \/ "fin" \in flags
      /\ len \in Nat /\ r.txUnacked = t.txUnacked + len /\ (len > 0 \/ t.timer => r.timer)
  BY <1>1 DEF Transmits
<1>3. Proper(m, r)
  BY <1>1, <1>2, NewSegment DEF Proper, Connected, Kept
<1>4. OnTheWay(r) /\ FinEnds(r)
  BY <1>2, <1>3, OneMore DEF Flow, Kept
<1>5. Timed(r)
  <2>1. t.txUnacked \in Nat
    BY DEF Connected, Socket, TxOrder
  <2> QED BY <1>2, <2>1 DEF Flow, Timed, Kept
<1>6. Joins(r) => Joins(t)
  BY <1>2 DEF Joins, Connected, Kept
<1>7. Flow(r)
  BY <1>2, <1>4, <1>5, <1>6, FlowKept DEF Kept
<1>8. ASSUME "fin" \notin flags, Echoing(t) PROVE Echoing(r)
  <2>1. Unfinished(t) => "fin" \notin m.flags
    BY <1>2, <1>8 DEF Echoing
  <2> QED BY <1>2, <1>6, <1>8, <2>1, EchoingKept
<1> QED BY <1>7, <1>8 DEF r

\* A RST changes nothing of it, whatever MySEQ is.
LEMMA RstFlow ==
  ASSUME NEW t, Socket(t), Flow(t), NEW flags, NEW mode, "rst" \in flags,
         "syn" \notin flags, "fin" \notin flags, mode # "probe"
  PROVE  LET r == SendTCP(t, flags, mode)
         IN /\ Flow(r) /\ (Echoing(t) => Echoing(r)) /\ Socket(r)
            /\ Kept(r, t) /\ (r.synSent <=> t.synSent)
<1> DEFINE r == SendTCP(t, flags, mode)
<1>1. PICK m, len : Transmits(r, t, flags, mode, m, len)
  BY SendTCPTransmits
<1>0. Socket(r)
  BY SendTCPTyped
<1> HIDE DEF r
<1>2. /\ r.out = t.out \cup {m} /\ Kept(r, t) /\ r.txFifo = t.txFifo /\ r.rxFifo = t.rxFifo
      /\ (r.txFin <=> t.txFin) /\ "rst" \in m.flags /\ len = 0
      /\ r.txUnacked = t.txUnacked + len /\ (t.timer => r.timer) /\ (r.synSent <=> t.synSent)
  BY <1>1 DEF Transmits
<1>3. OnTheWay(r) /\ FinEnds(r)
  BY <1>2, OneMore DEF Flow, Kept
<1>4. Timed(r)
  <2>1. t.txUnacked \in Nat
    BY DEF Socket, TxOrder
  <2> QED BY <1>2, <2>1 DEF Flow, Timed, Kept
<1>5. Joins(r) => Joins(t)
  BY <1>2 DEF Joins, Kept
<1>6. Flow(r)
  BY <1>2, <1>3, <1>4, <1>5, FlowKept DEF Kept
<1>7. Echoing(t) => Echoing(r)
  BY <1>2, <1>5, EchoingKept
<1> QED BY <1>0, <1>2, <1>6, <1>7 DEF r

\* The stream of a socket at rest has not begun.
LEMMA RestHasNoStream ==
  ASSUME NEW t, AtRest(t), Flow(t), Echoing(t)
  PROVE  /\ t.iss \in Int /\ Start(t.iss) = t.iss /\ t.mySeq = t.iss /\ t.sm \in Idle /\ ~t.synSent
         /\ t.txTail = 0 /\ t.txUnacked = 0 /\ t.txHead = 0 /\ t.rxTail = 0 /\ t.rxHead = 0
         /\ t.hole = -1 /\ ~t.txFin
         /\ \A m \in Under(t) : Start(m.seq) = t.iss => "fin" \notin m.flags /\ "syn" \notin m.flags
         /\ peer.st = "established" => Start(peer.rcv) # t.iss
<1>1. Socket(t) /\ t.mySeq = t.iss /\ t.sm \in Idle /\ ~t.synSent /\ t.txHead = 0 /\ t.rxHead = 0
  BY DEF AtRest
<1>2. t.iss \in Int /\ t.txTail = 0 /\ t.txUnacked = 0 /\ t.rxTail = 0
  BY <1>1 DEF Socket, TxOrder, RxOrder
<1>3. t.hole = -1 /\ ~t.txFin /\ \A m \in Under(t) : Start(m.seq) = t.iss => "fin" \notin m.flags
  BY <1>1 DEF Echoing, Unfinished
<1>4. \A m \in Under(t) : Start(m.seq) = t.iss => "syn" \notin m.flags
  BY <1>1 DEF Flow, OnTheWay, Behind
<1> QED BY <1>1, <1>2, <1>3, <1>4 DEF Flow, Apart

\* An empty range of a FIFO.
LEMMA EmptyHolds ==
  ASSUME NEW fifo, NEW ring, NEW port
  PROVE  Holds(fifo, ring, 0, 0, port)
BY DEF Holds

\* A segment at the very start of a stream that no remote node has begun.
LEMMA FirstSegment ==
  ASSUME NEW t, AtRest(t), Flow(t), Echoing(t), NEW m, m.seq = t.iss, m.data = <<>>,
         ~gone => m.port <= peer.port
  PROVE  /\ Ranged(m) /\ Known(m) /\ Start(m.seq) = t.iss /\ SegEnd(m) = t.iss
<1>1. /\ t.iss \in Int /\ Start(t.iss) = t.iss
      /\ peer.st = "established" => Start(peer.rcv) # t.iss
  BY RestHasNoStream
<1>2. m.data \in Seq(Bytes) /\ Len(m.data) = 0
  OBVIOUS
<1>3. Start(m.seq) = t.iss /\ SegEnd(m) = t.iss
  BY <1>1, <1>2 DEF SegEnd
<1>4. Ranged(m)
  BY <1>1, <1>2, <1>3, FarTyped DEF Ranged
<1>5. Known(m)
  BY <1>1, <1>3 DEF Known
<1> QED BY <1>3, <1>4, <1>5

\* A socket at rest that sends an acknowledgment.
LEMMA RestFlow ==
  ASSUME NEW t, AtRest(t), Flow(t), Echoing(t), NEW mode, mode # "probe"
  PROVE  LET r == SendTCP(t, {"ack"}, mode) IN Flow(r) /\ Echoing(r)
<1> DEFINE r == SendTCP(t, {"ack"}, mode)
<1>1. PICK m, len : Transmits(r, t, {"ack"}, mode, m, len)
  BY SendTCPTransmits DEF AtRest
<1> HIDE DEF r
<1>2. /\ t.iss \in Int /\ t.mySeq = t.iss /\ t.sm \in Idle /\ ~t.synSent
      /\ t.txTail = 0 /\ t.txUnacked = 0 /\ t.txHead = 0 /\ ~t.txFin
  BY RestHasNoStream
<1>3. /\ r.out = t.out \cup {m} /\ Kept(r, t) /\ r.txFifo = t.txFifo /\ r.rxFifo = t.rxFifo
      /\ r.txFin => t.txFin
      /\ m.port = t.port /\ "fin" \notin m.flags /\ "syn" \notin m.flags
      /\ len = 0 /\ r.txUnacked = 0 /\ (r.synSent => t.synSent)
  <2>1. len \in Nat /\ len <= Unsent(t) /\ Unsent(t) = 0
    BY <1>1, <1>2 DEF Transmits, Unsent
  <2>2. len = 0
    BY <2>1
  <2>3. r.txUnacked = 0
    BY <1>1, <1>2, <2>2 DEF Transmits
  <2>4. "fin" \notin m.flags
    BY <1>1, <1>2 DEF Transmits
  <2>5. "syn" \notin m.flags /\ (r.synSent => t.synSent) /\ (r.txFin => t.txFin)
    BY <1>1 DEF Transmits
  <2> QED BY <1>1, <2>2, <2>3, <2>4, <2>5 DEF Transmits
<1>4. m.seq = t.iss /\ m.data = Slice(t.txFifo, TxRing, 0, 0)
  <2>1. t.txUnacked + len = 0
    BY <1>2, <1>3
  <2> QED BY <1>1, <1>2, <2>1 DEF Transmits
<1>5. m.data = <<>>
  <2>1. m.data = [i \in 1 .. 0 |-> t.txFifo[(0 + i - 1) % TxRing]]
    BY <1>4 DEF Slice
  <2> QED BY <2>1
<1>6. Ranged(m) /\ Known(m) /\ Start(m.seq) = t.iss /\ SegEnd(m) = t.iss
  BY <1>3, <1>4, <1>5, FirstSegment DEF Flow, Ports
<1>7. Proper(m, r)
  <2>1. t.iss <= t.iss + 1 + t.txHead
    BY <1>2
  <2> QED BY <1>3, <1>6, <2>1 DEF Proper, Kept
<1>8. OnTheWay(r) /\ FinEnds(r)
  BY <1>3, <1>7, OneMore DEF Flow, Kept
<1>9. Flow(r)
  <2>1. Timed(r)
    BY <1>2, <1>3 DEF Timed, Kept
  <2>2. Joins(r) => Joins(t)
    BY <1>3 DEF Joins, Kept
  <2> QED BY <1>3, <1>8, <2>1, <2>2, FlowKept DEF Kept
<1>10. Echoing(r)
  <2>1. Joins(r) => Joins(t)
    BY <1>3 DEF Joins, Kept
  <2> QED BY <1>3, <2>1, EchoingKept
<1> QED BY <1>9, <1>10 DEF r

\* The answer to a SYN begins a stream that is new to everyone.
LEMMA SynFlow ==
  ASSUME NEW t, AtRest(t), Flow(t), Echoing(t), NEW u, DOMAIN u = SocketFields, u.remoteSeq = 1,
         \A f \in SocketFields \ {"sm", "port", "remoteSeq", "synQueue"} : u[f] = t[f],
         u.sm \in States, u.port \in Int, u.synQueue \in Seq(Waiting), Len(u.synQueue) <= SynQueueSize,
         Ports(u), NEW mode, mode # "probe",
         NEW r, DOMAIN r = SocketFields, r.sm = "SYN_RECEIVED",
         \A f \in SocketFields \ {"sm"} : r[f] = SendTCP(u, {"syn", "ack"}, mode)[f]
  PROVE  Flow(r) /\ Echoing(r)
<1> DEFINE v == SendTCP(u, {"syn", "ack"}, mode)
<1>0. /\ t.iss \in Int /\ t.mySeq = t.iss /\ t.sm \in Idle /\ ~t.synSent /\ Start(t.iss) = t.iss
      /\ t.txTail = 0 /\ t.txUnacked = 0 /\ t.txHead = 0 /\ t.rxTail = 0 /\ t.rxHead = 0
      /\ t.hole = -1 /\ ~t.txFin
      /\ \A m \in Under(t) : Start(m.seq) = t.iss => "fin" \notin m.flags /\ "syn" \notin m.flags
      /\ peer.st = "established" => Start(peer.rcv) # t.iss
  BY RestHasNoStream
<1>1. /\ DOMAIN u = SocketFields
      /\ u.remoteSeq = 1 /\ u.iss = t.iss /\ u.mySeq = t.mySeq /\ u.window = t.window
      /\ u.txTail = t.txTail /\ u.txUnacked = t.txUnacked /\ u.txHead = t.txHead
      /\ u.rxTail = t.rxTail /\ u.rxHead = t.rxHead /\ u.hole = t.hole /\ u.future = t.future
      /\ u.noneAcked = t.noneAcked /\ u.retries = t.retries /\ u.keepalives = t.keepalives
      /\ u.synSent = t.synSent /\ u.out = t.out /\ u.txFin = t.txFin
      /\ u.txFifo = t.txFifo /\ u.rxFifo = t.rxFifo
  BY DEF SocketFields
<1>2. TxOrder(u) /\ RxOrder(u) /\ Counted(u) /\ Queued(u)
  BY <1>1 DEF AtRest, Socket, TxOrder, RxOrder, RxFree, Counted, Queued
<1>3. Socket(u)
  BY <1>1, <1>2 DEF AtRest, Socket
<1>4. PICK m, len : Transmits(v, u, {"syn", "ack"}, mode, m, len)
  BY <1>3, SendTCPTransmits
<1>5. /\ r.port = v.port /\ r.iss = v.iss /\ r.txTail = v.txTail /\ r.txUnacked = v.txUnacked
      /\ r.txHead = v.txHead /\ r.txFifo = v.txFifo /\ r.rxTail = v.rxTail /\ r.rxHead = v.rxHead
      /\ r.hole = v.hole /\ r.rxFifo = v.rxFifo /\ r.txFin = v.txFin /\ r.synQueue = v.synQueue
      /\ r.out = v.out
  BY DEF SocketFields
<1> HIDE DEF v
<1>6. /\ v.out = t.out \cup {m} /\ Kept(v, u) /\ (v.txFin => u.txFin)
      /\ m.port = u.port /\ "fin" \notin m.flags
      /\ len = 0 /\ v.txUnacked = 0 /\ m.seq = t.iss
  <2>1. len = 0
    BY <1>4 DEF Transmits
  <2>2. v.txUnacked = 0
    BY <1>0, <1>1, <1>4, <2>1 DEF Transmits
  <2>3. "syn" \in m.flags /\ (v.txFin => u.txFin)
    BY <1>4 DEF Transmits
  <2>4. m.seq = t.iss /\ "fin" \notin m.flags
    BY <1>0, <1>1, <1>4, <2>3 DEF Transmits
  <2> QED BY <1>1, <1>4, <2>1, <2>2, <2>3, <2>4 DEF Transmits
<1>7. m.data = <<>>
  <2>1. "syn" \in m.flags
    BY <1>4 DEF Transmits
  <2>2. u.txUnacked = 0 /\ u.txUnacked + len = 0
    BY <1>0, <1>1, <1>6
  <2>3. m.data = Slice(u.txFifo, TxRing, 0, 0)
    BY <1>4, <2>1, <2>2 DEF Transmits
  <2>4. m.data = [i \in 1 .. 0 |-> u.txFifo[(0 + i - 1) % TxRing]]
    BY <2>3 DEF Slice
  <2> QED BY <2>4
<1>8. /\ r.port = u.port /\ r.iss = t.iss /\ r.txTail = 0 /\ r.txUnacked = 0 /\ r.txHead = 0
      /\ r.rxTail = 0 /\ r.rxHead = 0 /\ r.hole = -1 /\ ~r.txFin /\ r.synQueue = u.synQueue
      /\ r.out = t.out \cup {m} /\ r.sm \notin Idle
  BY <1>0, <1>1, <1>5, <1>6 DEF Kept, Idle
<1> HIDE <1>1, <1>2, <1>3, <1>4, <1>5
<1>9. Ranged(m) /\ Known(m) /\ Start(m.seq) = t.iss /\ SegEnd(m) = t.iss
  BY <1>6, <1>7, FirstSegment DEF Ports
<1>10. OnTheWay(r) /\ FinEnds(r)
  <2>1. Proper(m, r)
    <3>1. t.iss <= t.iss + 1 + 0
      BY <1>0
    <3> QED BY <1>6, <1>8, <1>9, <3>1 DEF Proper
  <2> QED BY <1>0, <1>8, <2>1, OneMore DEF Flow
<1>11. ~Joins(r)
  BY <1>0, <1>8 DEF Joins
<1>12. Flow(r)
  <2>1. Apart(r) /\ Joined(r)
    BY <1>8, <1>11 DEF Apart, Joined
  <2>2. Early(r)
    BY <1>8 DEF Early
  <2>3. Ports(r)
    BY <1>8 DEF Ports
  <2>4. TxBytes(r) /\ Timed(r)
    BY <1>8, EmptyHolds, FarTyped DEF TxBytes, Timed
  <2> QED BY <1>0, <1>8, <1>10, <2>1, <2>2, <2>3, <2>4 DEF Flow
<1>13. Echoing(r)
  <2>1. RxBytes(r)
    BY <1>8, EmptyHolds, FarTyped DEF RxBytes
  <2>2. \A n \in Under(r) : Start(n.seq) = r.iss => "fin" \notin n.flags
    BY <1>0, <1>6, <1>8 DEF Under
  <2> QED BY <1>8, <1>11, <2>1, <2>2 DEF Echoing
<1> QED BY <1>12, <1>13

\* The socket at rest is bound to another port, or opened.
LEMMA PortFlow ==
  ASSUME NEW t, AtRest(t), Flow(t), Echoing(t), NEW r,
         \A f \in SocketFields \ {"sm", "bServer", "port", "keepalives", "done"} : r[f] = t[f],
         r.sm \in Idle,
         ~gone => r.port <= peer.port
  PROVE  Flow(r) /\ Echoing(r)
<1>1. /\ Start(t.iss) = t.iss /\ t.sm \in Idle /\ ~t.synSent
      /\ t.txTail = 0 /\ t.txUnacked = 0 /\ t.txHead = 0 /\ t.rxTail = 0 /\ t.rxHead = 0
      /\ t.hole = -1 /\ ~t.txFin
      /\ \A m \in Under(t) : Start(m.seq) = t.iss => "fin" \notin m.flags
      /\ peer.st = "established" => Start(peer.rcv) # t.iss
  BY RestHasNoStream
<1>2. /\ r.iss = t.iss /\ r.synSent = t.synSent /\ r.out = t.out
      /\ r.txTail = t.txTail /\ r.txUnacked = t.txUnacked /\ r.txHead = t.txHead
      /\ r.rxTail = t.rxTail /\ r.rxHead = t.rxHead /\ r.hole = t.hole /\ r.txFin = t.txFin
      /\ r.synQueue = t.synQueue
  BY DEF SocketFields
<1>3. Under(r) = Under(t)
  BY <1>2 DEF Under
<1>4. OnTheWay(r) /\ FinEnds(r)
  BY <1>1, <1>2, <1>3 DEF Flow, OnTheWay, FinEnds, Behind
<1>5. Flow(r)
  <2>1. Joined(r) /\ Apart(r) /\ Early(r)
    BY <1>1, <1>2 DEF Joined, Joins, Apart, Early
  <2>2. Ports(r)
    BY <1>2 DEF Flow, Ports
  <2>3. TxBytes(r) /\ Timed(r)
    BY <1>1, <1>2, EmptyHolds, FarTyped DEF TxBytes, Timed
  <2> QED BY <1>1, <1>2, <1>4, <2>1, <2>2, <2>3 DEF Flow
<1>6. Echoing(r)
  <2>1. RxBytes(r)
    BY <1>1, <1>2, EmptyHolds, FarTyped DEF RxBytes
  <2>2. ~Joins(r)
    BY <1>1, <1>2 DEF Joins
  <2> QED BY <1>1, <1>2, <1>3, <2>1, <2>2 DEF Echoing
<1> QED BY <1>5, <1>6

-----------------------------------------------------------------------------
(* CloseSocket and the stream. *)

\* What stays as it is while the main loop makes a pass.
Around ==
  /\ IsFiniteSet(toPeer) /\ IsFiniteSet(toDevice) /\ PeerStands
  /\ \A m \in toPeer : Sent(m)

\* A stream has begun, or the socket is at rest.
Begun(t) == t.synSent \/ (t.sm \in Idle /\ t.txHead = 0 /\ Echoing(t))

\* A closed socket is at the start of a stream that nobody knows.
LEMMA CloseSocketFlow ==
  ASSUME Around, NEW t, Socket(t), Flow(t), Begun(t)
  PROVE  Flow(CloseSocket(t)) /\ Echoing(CloseSocket(t)) /\ AtRest(CloseSocket(t))
         /\ CloseSocket(t).done
<1> DEFINE iss == IF t.synSent THEN FreshSeq(t) ELSE t.iss
           c == ClosedSocket(t.bServer, iss)
           r == CloseSocket(t)
<1>1. r = [c EXCEPT !.synQueue = t.synQueue, !.out = t.out, !.done = TRUE]
  BY DEF CloseSocket
<1>2. /\ IsFiniteSet(t.out) /\ \A m \in t.out : Sent(m)
      /\ peer.rcv \in Int /\ peer.port >= 0 /\ t.iss \in Int
  BY DEF Socket, Queued, Around, PeerStands, PeerTyped
<1>0. AtRest(r) /\ r.done
  BY CloseSocketAtRest DEF Around
<1>3. \A m \in Under(t) : m.seq \in Int
  BY <1>2 DEF Under, Around, Sent
<1>4. ASSUME t.synSent
      PROVE  /\ Start(iss) = iss /\ Start(peer.rcv) # iss
             /\ \A m \in Under(t) : Start(m.seq) # iss
  <2>1. iss = FreshSeq(t)
    BY <1>4
  <2>2. /\ Start(FreshSeq(t)) = FreshSeq(t)
        /\ \A n \in Numbers(t) : n \in Int => Start(n) # FreshSeq(t)
    BY <1>2, FreshStart DEF Around
  <2>3. peer.rcv \in Numbers(t)
    BY DEF Numbers
  <2>4. \A m \in Under(t) : m.seq \in Numbers(t)
    BY DEF Numbers, Under
  <2> HIDE DEF iss
  <2> QED BY <1>2, <1>3, <2>1, <2>2, <2>3, <2>4
<1>5. ASSUME ~t.synSent
      PROVE  /\ Start(iss) = iss /\ iss = t.iss /\ t.sm \in Idle /\ t.txHead = 0
             /\ peer.st = "established" => Start(peer.rcv) # iss
             /\ \A m \in Under(t) : Start(m.seq) = iss => "fin" \notin m.flags /\ "syn" \notin m.flags
  <2>1. iss = t.iss
    BY <1>5
  <2> HIDE DEF iss
  <2>2. t.sm \in Idle /\ t.txHead = 0 /\ Echoing(t)
    BY <1>5 DEF Begun
  <2>3. Start(iss) = iss /\ (peer.st = "established" => Start(peer.rcv) # iss)
    BY <2>1, <2>2 DEF Flow, Apart
  <2>4. \A m \in Under(t) : Start(m.seq) = iss => "fin" \notin m.flags
    BY <2>1, <2>2 DEF Echoing, Unfinished
  <2>5. \A m \in Under(t) : Start(m.seq) = iss => "syn" \notin m.flags
    BY <2>1, <2>2 DEF Flow, OnTheWay, Behind
  <2> QED BY <2>1, <2>2, <2>3, <2>4, <2>5
<1> HIDE DEF iss
<1>6. /\ c.sm \in Idle /\ c.port = 0 /\ c.iss = iss
      /\ c.txTail = 0 /\ c.txUnacked = 0 /\ c.txHead = 0
      /\ c.rxTail = 0 /\ c.rxHead = 0 /\ c.hole = -1
      /\ c.synSent = FALSE /\ c.txFin = FALSE /\ DOMAIN c = SocketFields
  BY DEF ClosedSocket, Idle, SocketFields
<1> HIDE DEF c, r
<1>7. /\ r.sm \in Idle /\ r.port = 0 /\ r.iss = iss
      /\ r.txTail = 0 /\ r.txUnacked = 0 /\ r.txHead = 0
      /\ r.rxTail = 0 /\ r.rxHead = 0 /\ r.hole = -1
      /\ ~r.synSent /\ ~r.txFin /\ r.out = t.out /\ r.synQueue = t.synQueue
  BY <1>1, <1>6 DEF SocketFields
<1>8. Under(r) = Under(t)
  BY <1>7 DEF Under
<1>9. \A m \in Under(r) : Behind(m, r)
  <2>1. CASE t.synSent
    BY <1>4, <1>7, <1>8, <2>1 DEF Behind
  <2>2. CASE ~t.synSent
    <3>1. \A m \in Under(t) : Behind(m, t)
      BY DEF Flow, OnTheWay
    <3> QED BY <1>5, <1>7, <1>8, <2>2, <3>1 DEF Behind
  <2> QED BY <2>1, <2>2
<1>10. OnTheWay(r) /\ FinEnds(r)
  BY <1>8, <1>9 DEF Flow, OnTheWay, FinEnds
<1>11. ~Joins(r)
  BY <1>7 DEF Joins
<1>12. Start(r.iss) = r.iss /\ Apart(r)
  BY <1>4, <1>5, <1>7 DEF Apart
<1>13. Flow(r)
  <2>1. Joined(r) /\ Early(r)
    BY <1>7, <1>11 DEF Joined, Early
  <2>2. Ports(r)
    BY <1>2, <1>7 DEF Flow, Ports
  <2>3. TxBytes(r) /\ Timed(r)
    BY <1>7, EmptyHolds, FarTyped DEF TxBytes, Timed
  <2> QED BY <1>10, <1>12, <2>1, <2>2, <2>3 DEF Flow
<1>14. Echoing(r)
  <2>1. RxBytes(r)
    BY <1>7, EmptyHolds, FarTyped DEF RxBytes
  <2>2. \A m \in Under(r) : Start(m.seq) = r.iss => "fin" \notin m.flags
    BY <1>4, <1>5, <1>7, <1>8
  <2> QED BY <1>7, <1>11, <2>1, <2>2 DEF Echoing
<1> QED BY <1>0, <1>13, <1>14 DEF r

\* The fields of a socket that the stream is about.
FlowFields ==
  {"sm", "port", "iss", "txTail", "txHead", "txFifo", "synQueue", "out", "synSent"}

EchoFields ==
  {"sm", "port", "iss", "txHead", "out", "synSent", "rxTail", "rxHead", "hole", "future", "rxFifo"}

StreamFields == FlowFields \cup EchoFields \cup {"txUnacked", "timer", "txFin"}

\* A change of any other is of no matter.
LEMMA SameFlow ==
  ASSUME NEW t, Flow(t), NEW r, \A f \in FlowFields : r[f] = t[f], Timed(r)
  PROVE  Flow(r)
<1>1. /\ r.sm = t.sm /\ r.port = t.port /\ r.iss = t.iss /\ r.txTail = t.txTail
      /\ r.txHead = t.txHead /\ r.txFifo = t.txFifo
      /\ r.synQueue = t.synQueue /\ r.out = t.out /\ r.synSent = t.synSent
  BY DEF FlowFields
<1>2. Under(r) = Under(t) /\ (Joins(r) => Joins(t))
  BY <1>1 DEF Under, Joins
<1>3. OnTheWay(r) /\ FinEnds(r)
  BY <1>1, <1>2 DEF Flow, OnTheWay, Behind, FinEnds
<1> QED BY <1>1, <1>2, <1>3, FlowKept

LEMMA SameEcho ==
  ASSUME NEW t, Echoing(t), NEW r, \A f \in EchoFields : r[f] = t[f], r.txFin => t.txFin
  PROVE  Echoing(r)
<1>1. /\ r.sm = t.sm /\ r.port = t.port /\ r.iss = t.iss
      /\ r.txHead = t.txHead /\ r.out = t.out /\ r.synSent = t.synSent
      /\ r.rxTail = t.rxTail /\ r.rxHead = t.rxHead /\ r.hole = t.hole
      /\ r.future = t.future /\ r.rxFifo = t.rxFifo
  BY DEF EchoFields
<1>2. Under(r) = Under(t) /\ (Joins(r) => Joins(t)) /\ (RxBytes(t) => RxBytes(r))
  BY <1>1 DEF Under, Joins, RxBytes
<1> QED BY <1>1, <1>2 DEF Echoing, Unfinished

LEMMA SameStream ==
  ASSUME NEW t, NEW r, \A f \in StreamFields : r[f] = t[f]
  PROVE  /\ Flow(t) => Flow(r)
         /\ Echoing(t) => Echoing(r)
<1>1. /\ \A f \in FlowFields : r[f] = t[f]
      /\ \A f \in EchoFields : r[f] = t[f]
      /\ r.txTail = t.txTail /\ r.txUnacked = t.txUnacked /\ r.timer = t.timer /\ r.txFin = t.txFin
  BY DEF StreamFields, FlowFields, EchoFields
<1>2. Timed(t) => Timed(r)
  BY <1>1 DEF Timed
<1> QED BY <1>1, <1>2, SameFlow, SameEcho DEF Flow

\* A RST that claims to be an answer.
LEMMA RefuseFlow ==
  ASSUME NEW t, Socket(t), Flow(t), NEW h, Arriving(h), NEW mode, mode # "probe"
  PROVE  LET r == Refuse(t, h, mode)
         IN /\ Flow(r) /\ (Echoing(t) => Echoing(r)) /\ Kept(r, t) /\ (r.synSent <=> t.synSent)
<1> DEFINE u == [t EXCEPT !.mySeq = h.ack]
           v == SendTCP(u, {"rst"}, mode)
           r == [v EXCEPT !.mySeq = t.mySeq]
<1>1. Refuse(t, h, mode) = r
  BY DEF Refuse
<1>2. Socket(u) /\ Kept(u, t) /\ u.synSent = t.synSent
  BY DEF Socket, SocketFields, TxOrder, RxOrder, RxFree, Counted, Queued, Kept, Arriving
<1>3. \A f \in StreamFields : u[f] = t[f]
  BY DEF StreamFields, FlowFields, EchoFields, Socket, SocketFields
<1>4. Flow(u) /\ (Echoing(t) => Echoing(u))
  BY <1>3, SameStream
<1> HIDE DEF u
<1>5. /\ Flow(v) /\ (Echoing(u) => Echoing(v)) /\ Socket(v) /\ Kept(v, u)
      /\ (v.synSent <=> u.synSent)
  BY <1>2, <1>4, RstFlow
<1> HIDE DEF v
<1>6. (\A f \in StreamFields : r[f] = v[f]) /\ Kept(r, v) /\ r.synSent = v.synSent
  BY <1>5 DEF StreamFields, FlowFields, EchoFields, Socket, SocketFields, Kept
<1> HIDE DEF r
<1>7. Flow(r) /\ (Echoing(v) => Echoing(r))
  BY <1>5, <1>6, SameStream
<1>8. Kept(r, t)
  BY <1>2, <1>5, <1>6 DEF Kept
<1> QED BY <1>1, <1>2, <1>4, <1>5, <1>6, <1>7, <1>8

\* A listening socket, bound to the sender of the segment.
LEMMA ListenSegmentFlow ==
  ASSUME Around, NEW t, AtRest(t), Flow(t), Echoing(t), NEW h, Arriving(h)
  PROVE  Flow(ListenSegment(t, h)) /\ Echoing(ListenSegment(t, h))
<1> DEFINE r == ListenSegment(t, h)
<1>1. Socket(t) /\ t.sm \in Idle /\ t.txHead = 0
  BY DEF AtRest
<1>2. CASE h.kind = "syn"
  <2> DEFINE u == [t EXCEPT !.remoteSeq = h.seq + 1]
  <2>1. r = [SendTCP(u, {"syn", "ack"}, "reset") EXCEPT !.sm = "SYN_RECEIVED"]
    BY <1>2 DEF ListenSegment
  <2>2. h.seq + 1 = 1
    BY <1>2 DEF Arriving
  <2>3. u.sm = t.sm /\ u.port = t.port /\ u.synQueue = t.synQueue
    BY <1>1 DEF Socket, SocketFields
  <2>4. /\ DOMAIN u = SocketFields /\ u.remoteSeq = 1
        /\ \A f \in SocketFields \ {"sm", "port", "remoteSeq", "synQueue"} : u[f] = t[f]
    BY <1>1, <2>2 DEF Socket, SocketFields
  <2>5. u.sm \in States /\ u.port \in Int /\ u.synQueue \in Seq(Waiting) /\ Len(u.synQueue) <= SynQueueSize
    BY <1>1, <2>3 DEF Socket, Queued
  <2>6. Socket(u)
    BY SMTT(40), <1>1, <2>2, <2>5 DEF Socket, SocketFields, TxOrder, RxOrder, RxFree, Counted, Queued
  <2>7. Ports(u)
    BY <2>3 DEF Flow, Ports
  <2> HIDE DEF u
  <2> DEFINE v == SendTCP(u, {"syn", "ack"}, "reset")
             w == [v EXCEPT !.sm = "SYN_RECEIVED"]
  <2>8. DOMAIN v = SocketFields
    BY <2>6, SendTCPMoves
  <2> HIDE DEF v
  <2>9. DOMAIN w = SocketFields /\ w.sm = "SYN_RECEIVED" /\ \A f \in SocketFields \ {"sm"} : w[f] = v[f]
    BY <2>8 DEF SocketFields
  <2> HIDE DEF w
  <2>10. Flow(w) /\ Echoing(w)
    BY <2>4, <2>5, <2>7, <2>9, SynFlow DEF v
  <2> QED BY <2>1, <2>10 DEF v, w
<1>3. CASE h.kind = "ack"
  <2> DEFINE v == Refuse(t, h, "none")
  <2>1. r = CloseSocket(v)
    BY <1>3 DEF ListenSegment
  <2>2. Socket(v)
    BY <1>1, RefuseTyped
  <2>3. Flow(v) /\ (Echoing(t) => Echoing(v)) /\ Kept(v, t)
    BY <1>1, RefuseFlow
  <2> HIDE DEF v
  <2>4. Begun(v)
    BY <1>1, <2>3 DEF Begun, Kept
  <2> QED BY <2>1, <2>2, <2>3, <2>4, CloseSocketFlow
<1>4. CASE h.kind # "syn" /\ h.kind # "ack"
  <2>1. r = CloseSocket(t)
    BY <1>4 DEF ListenSegment
  <2>2. Begun(t)
    BY <1>1 DEF Begun
  <2> QED BY <1>1, <2>1, <2>2, CloseSocketFlow
<1> QED BY <1>2, <1>3, <1>4

-----------------------------------------------------------------------------
(* The acknowledgment of a segment and the stream. *)

\* An acknowledgment of bytes that the remote node has got.
Honest(t, ack) == Joins(t) => ack - t.iss - 1 <= Len(peer.got)

LEMMA DropAckedFlow ==
  ASSUME NEW t, Connected(t), Flow(t), NEW ack \in Int, Acked(t, ack) > 0,
         ack <= t.mySeq + Unsent(t), Honest(t, ack)
  PROVE  LET r == DropAcked(t, ack) IN Flow(r) /\ (Echoing(t) => Echoing(r))
<1> DEFINE tail == t.txTail + Acked(t, ack)
           r == DropAcked(t, ack)
<1>1. DOMAIN t = SocketFields
  BY DEF Connected, Socket
<1>2. /\ r.txTail = tail /\ r.txFifo = Cleared(t.txFifo, TxRing, t.txTail, tail)
      /\ r.txUnacked = Greater(t.txUnacked, tail) /\ r.timer = t.timer
      /\ \A f \in FlowFields \ {"txTail", "txFifo"} : r[f] = t[f]
      /\ \A f \in EchoFields : r[f] = t[f]
      /\ r.txFin = t.txFin
  BY ZenonT(60), <1>1 DEF DropAcked, SocketFields, FlowFields, EchoFields
<1>3. /\ t.txTail \in Nat /\ t.txUnacked \in Nat /\ t.txHead \in Nat /\ t.iss \in Int
      /\ t.txTail <= t.txUnacked /\ t.txUnacked <= t.txHead /\ t.txHead <= t.txTail + TxRing - 1
      /\ t.mySeq = t.iss + 1 + t.txUnacked
  BY DEF Connected, Socket, TxOrder
<1>4. tail = ack - t.iss - 1 /\ tail > t.txTail /\ tail <= t.txHead /\ tail \in Int
  BY <1>3 DEF Acked, Unsent
<1> HIDE DEF r, tail
<1>5. Timed(r)
  <2>1. Timed(t)
    BY DEF Flow
  <2> QED BY <1>2, <1>3, <1>4, <2>1 DEF Timed, Greater
<1>6. /\ r.sm = t.sm /\ r.port = t.port /\ r.iss = t.iss /\ r.txHead = t.txHead
      /\ r.synQueue = t.synQueue /\ r.out = t.out /\ r.synSent = t.synSent
  BY <1>2 DEF FlowFields
<1>7. Under(r) = Under(t) /\ (Joins(r) <=> Joins(t))
  BY <1>6 DEF Under, Joins
<1>8. OnTheWay(r) /\ FinEnds(r) /\ Apart(r) /\ Early(r) /\ Ports(r)
  BY <1>6, <1>7 DEF Flow, OnTheWay, FinEnds, Behind, Apart, Early, Ports
<1>9. Joined(r)
  BY <1>2, <1>4, <1>6, <1>7 DEF Flow, Joined, Honest
<1>10. TxBytes(r)
  <2>1. TxRing \in Nat \ {0}
    BY TcpAssumption DEF TcpAssumption
  <2>2. ASSUME NEW p \in tail .. t.txHead - 1 PROVE r.txFifo[p % TxRing] = Byte(t.port, p + 1)
    <3>1. p \in Int /\ p >= tail /\ tail - 1 < p + TxRing /\ p < t.txTail + TxRing
          /\ p \in t.txTail .. t.txHead - 1
      BY <1>3, <1>4, <2>1
    <3>2. r.txFifo[p % TxRing] = t.txFifo[p % TxRing]
      <4>1. tail \in Int /\ t.txTail \in Int /\ (p < t.txTail \/ p >= tail)
        BY <1>3, <1>4, <3>1
      <4>2. Cleared(t.txFifo, TxRing, t.txTail, tail)[p % TxRing] = t.txFifo[p % TxRing]
        BY <2>1, <3>1, <4>1, ClearedOutside
      <4> QED BY <1>2, <4>2
    <3>3. t.txFifo[p % TxRing] = Byte(t.port, p + 1)
      BY <3>1 DEF Flow, TxBytes, Holds
    <3> QED BY <3>2, <3>3
  <2> QED BY <1>2, <1>6, <2>2 DEF Flow, TxBytes, Holds
<1>11. Flow(r)
  BY <1>5, <1>6, <1>8, <1>9, <1>10 DEF Flow
<1>12. Echoing(t) => Echoing(r)
  BY <1>2, SameEcho
<1> QED BY <1>11, <1>12 DEF r

LEMMA RollBackFlow ==
  ASSUME NEW t, Socket(t), Flow(t)
  PROVE  LET r == RollBack(t) IN Flow(r) /\ (Echoing(t) => Echoing(r))
<1> DEFINE r == RollBack(t)
<1>1. /\ \A f \in FlowFields : r[f] = t[f]
      /\ \A f \in EchoFields : r[f] = t[f]
      /\ r.txUnacked = r.txTail /\ r.txFin = t.txFin
  BY DEF RollBack, Socket, SocketFields, FlowFields, EchoFields
<1> HIDE DEF r
<1>2. Timed(r)
  BY <1>1 DEF Timed
<1> QED BY <1>1, <1>2, SameFlow, SameEcho DEF r

LEMMA NoneAckedFlow ==
  ASSUME NEW t, Socket(t), Flow(t)
  PROVE  LET r == NoneAcked(t) IN Flow(r) /\ (Echoing(t) => Echoing(r))
<1> DEFINE r == NoneAcked(t)
           b == RollBack(t)
           u == IF t.noneAcked = 2 THEN [b EXCEPT !.asapKeepTimer = TRUE] ELSE t
<1>1. CASE t.txTail = t.txUnacked
  BY <1>1 DEF NoneAcked
<1>2. CASE t.txTail # t.txUnacked
  <2>1. r = [u EXCEPT !.noneAcked = Lesser(u.noneAcked + 1, 2)]
    BY <1>2 DEF NoneAcked
  <2>2. DOMAIN b = SocketFields /\ Flow(b) /\ (Echoing(t) => Echoing(b))
    BY RollBackFlow DEF RollBack, Socket
  <2> HIDE DEF b
  <2>3. DOMAIN u = SocketFields /\ Flow(u) /\ (Echoing(t) => Echoing(u))
    <3>1. CASE t.noneAcked = 2
      <4>1. \A f \in StreamFields : u[f] = b[f]
        BY <2>2, <3>1 DEF StreamFields, FlowFields, EchoFields, SocketFields
      <4>2. DOMAIN u = SocketFields
        BY <2>2, <3>1
      <4> HIDE DEF u
      <4> QED BY <2>2, <4>1, <4>2, SameStream
    <3>2. CASE t.noneAcked # 2
      BY <3>2 DEF Socket
    <3> QED BY <3>1, <3>2
  <2> HIDE DEF u, r
  <2>4. \A f \in StreamFields : r[f] = u[f]
    BY <2>1, <2>3 DEF StreamFields, FlowFields, EchoFields, SocketFields
  <2> QED BY <2>3, <2>4, SameStream DEF r
<1> QED BY <1>1, <1>2

LEMMA StopTimerFlow ==
  ASSUME NEW t, Socket(t), Flow(t), NEW ack
  PROVE  LET r == StopTimer(t, ack) IN Flow(r) /\ (Echoing(t) => Echoing(r))
<1> DEFINE r == StopTimer(t, ack)
<1>1. /\ \A f \in FlowFields : r[f] = t[f]
      /\ \A f \in EchoFields : r[f] = t[f]
      /\ r.txTail = t.txTail /\ r.txUnacked = t.txUnacked
      /\ r.timer = t.timer \/ t.txTail = t.txHead
      /\ r.txFin => t.txFin
  BY ZenonT(60) DEF StopTimer, Socket, SocketFields, FlowFields, EchoFields
<1> HIDE DEF r
<1>2. Timed(r)
  <2>1. t.txTail = t.txHead => t.txTail = t.txUnacked
    BY DEF Socket, TxOrder
  <2> QED BY <1>1, <2>1 DEF Flow, Timed
<1> QED BY <1>1, <1>2, SameFlow, SameEcho DEF r

\* A connection changes its state, but not to ESTABLISHED.
LEMMA StateFlow ==
  ASSUME NEW t, Flow(t), t.sm \notin Idle, NEW r, r.sm \notin Idle \cup {"ESTABLISHED"},
         \A f \in (FlowFields \cup {"txUnacked"}) \ {"sm"} : r[f] = t[f], t.timer => r.timer
  PROVE  Flow(r)
<1>1. /\ r.port = t.port /\ r.iss = t.iss /\ r.txTail = t.txTail
      /\ r.txHead = t.txHead /\ r.txFifo = t.txFifo /\ r.txUnacked = t.txUnacked
      /\ r.synQueue = t.synQueue /\ r.out = t.out /\ r.synSent = t.synSent
  BY DEF FlowFields
<1>2. Under(r) = Under(t) /\ (Joins(r) <=> Joins(t))
  BY <1>1 DEF Under, Joins
<1>3. OnTheWay(r) /\ FinEnds(r)
  BY <1>1, <1>2 DEF Flow, OnTheWay, Behind, FinEnds
<1>4. Joined(r) /\ Apart(r) /\ Early(r) /\ Ports(r) /\ TxBytes(r) /\ Timed(r)
  BY <1>1, <1>2 DEF Flow, Joined, Apart, Early, Ports, TxBytes, Timed
<1> QED BY <1>1, <1>3, <1>4 DEF Flow

LEMMA AfterFinFlow ==
  ASSUME Around, NEW t, Connected(t), Flow(t), Echoing(t), NEW h, NEW ack \in Int
  PROVE  LET r == AfterFin(t, h, ack) IN Flow(r) /\ Echoing(r)
<1> DEFINE r == AfterFin(t, h, ack)
<1>1. DOMAIN t = SocketFields /\ Socket(t) /\ t.synSent /\ t.sm \notin Idle
  BY DEF Connected, Socket
<1>2. CASE t.sm = "FIN_WAIT_1" /\ t.mySeq = ack /\ t.finSent
  <2>1. r = [t EXCEPT !.sm = "FIN_WAIT_2", !.timer = TRUE]
    BY <1>2 DEF AfterFin
  <2>2. r.sm = "FIN_WAIT_2" /\ r.timer /\ \A f \in (FlowFields \cup {"txUnacked"}) \ {"sm"} : r[f] = t[f]
    BY <1>1, <2>1 DEF FlowFields, SocketFields
  <2> HIDE DEF r
  <2>3. Flow(r)
    BY <1>1, <2>2, StateFlow DEF Idle
  <2>4. Echoing(r)
    BY <2>2 DEF Echoing, Unfinished, Idle
  <2> QED BY <2>3, <2>4 DEF r
<1>3. CASE t.sm = "FIN_WAIT_2" /\ ~h.fin
  <2> DEFINE u == [t EXCEPT !.mySeq = ack]
             v == SendTCP(u, {"rst", "ack"}, "none")
  <2>1. r = CloseSocket(v)
    BY <1>3 DEF AfterFin
  <2>2. Socket(u) /\ u.synSent /\ \A f \in StreamFields : u[f] = t[f]
    BY <1>1 DEF Socket, SocketFields, TxOrder, RxOrder, RxFree, Counted, Queued,
                StreamFields, FlowFields, EchoFields
  <2> HIDE DEF u
  <2>3. Flow(u) /\ Echoing(u)
    BY <2>2, SameStream
  <2>4. Socket(v) /\ Flow(v) /\ v.synSent
    BY <2>2, <2>3, RstFlow
  <2> HIDE DEF v
  <2> QED BY <2>1, <2>4, CloseSocketFlow DEF Begun
<1>4. CASE t.sm = "CLOSING" /\ t.mySeq = ack
  BY <1>1, <1>4, CloseSocketFlow DEF AfterFin, Begun
<1>5. CASE t.sm = "CLOSING" /\ t.mySeq # ack
  <2>1. r = [t EXCEPT !.done = TRUE]
    BY <1>5 DEF AfterFin
  <2>2. \A f \in StreamFields : r[f] = t[f]
    BY <1>1, <2>1 DEF SocketFields, StreamFields, FlowFields, EchoFields
  <2> HIDE DEF r
  <2> QED BY <2>2, SameStream DEF r
<1>6. CASE /\ ~ (t.sm = "FIN_WAIT_1" /\ t.mySeq = ack /\ t.finSent)
           /\ ~ (t.sm = "FIN_WAIT_2" /\ ~h.fin) /\ t.sm # "CLOSING"
  BY <1>6 DEF AfterFin
<1> QED BY <1>2, <1>3, <1>4, <1>5, <1>6

LEMMA TakeWindowFlow ==
  ASSUME NEW t, Socket(t), Flow(t), NEW h, NEW ack
  PROVE  LET r == TakeWindow(t, h, ack) IN Flow(r) /\ (Echoing(t) => Echoing(r))
<1> DEFINE w == NewWindow(t, h, ack)
           r == TakeWindow(t, h, ack)
<1>1. r = [t EXCEPT !.window = w, !.asap = @ \/ (t.window = 0 /\ w # 0)]
  BY DEF TakeWindow
<1> HIDE DEF r, w
<1>2. \A f \in StreamFields : r[f] = t[f]
  BY <1>1 DEF Socket, SocketFields, StreamFields, FlowFields, EchoFields
<1> QED BY <1>2, SameStream DEF r

\* The remote node has got what it acknowledges, the FIN not counted.
LEMMA AcksAreHonest ==
  ASSUME PeerStands, NEW t, Connected(t), Flow(t), NEW h, Arriving(h), Heard(h),
         h.kind = "ack", h.port = t.port, Beyond(t, h) <= 1
  PROVE  Honest(t, AckOfData(t, h))
<1> SUFFICES ASSUME Joins(t) PROVE AckOfData(t, h) - t.iss - 1 <= Len(peer.got)
  BY DEF Honest
<1>1. /\ h.ack <= peer.rcv /\ Start(peer.rcv) = t.iss
      /\ peer.rcv = Start(peer.rcv) + 1 + Len(peer.got) + (IF peer.finRcvd THEN 1 ELSE 0)
  BY DEF Heard, PeerStands, Joins
<1>2. /\ h.ack \in Int /\ peer.rcv \in Int /\ Len(peer.got) \in Nat
      /\ t.iss \in Int /\ t.txUnacked \in Nat /\ t.txHead \in Nat
      /\ t.mySeq = t.iss + 1 + t.txUnacked
  <2>1. Len(peer.got) \in Nat
    BY LenProperties DEF PeerStands
  <2> QED BY <2>1 DEF Arriving, PeerStands, PeerTyped, Connected, Socket, TxOrder
<1>3. Beyond(t, h) = h.ack - (t.iss + 1 + t.txHead)
  BY <1>2 DEF Beyond, Unsent
<1>4. peer.finRcvd => Len(peer.got) = t.txHead
  BY DEF Flow, Joined
<1>5. CASE Beyond(t, h) = 1
  BY SMTT(40), <1>1, <1>2, <1>5 DEF AckOfData
<1>6. CASE Beyond(t, h) # 1
  <2>1. AckOfData(t, h) = h.ack /\ h.ack <= t.iss + 1 + t.txHead
    BY <1>2, <1>3, <1>6 DEF AckOfData
  <2> QED BY SMTT(40), <1>1, <1>2, <1>4, <2>1
<1> QED BY <1>5, <1>6

\* The acknowledgment of a segment of the connection.
LEMMA AckSegmentFlow ==
  ASSUME Around, NEW t, Connected(t), Flow(t), Echoing(t), NEW h, Arriving(h), Heard(h),
         h.kind = "ack", h.port = t.port
  PROVE  Flow(AckSegment(t, h)) /\ Echoing(AckSegment(t, h))
<1>1. Socket(t) /\ t.mySeq \in Int /\ Unsent(t) \in Int /\ h.ack \in Int /\ PeerStands
  BY DEF Connected, Socket, TxOrder, Unsent, Arriving, Around
<1>2. CASE Beyond(t, h) > 0 /\ (~t.finSent \/ Beyond(t, h) # 1)
  <2> DEFINE u == SendTCP(t, {"ack"}, "none")
             r == [u EXCEPT !.done = TRUE]
  <2>1. AckSegment(t, h) = r
    BY <1>2 DEF AckSegment
  <2>2. Flow(u) /\ Echoing(u)
    BY <1>1, SendTCPFlow
  <2>3. DOMAIN u = SocketFields
    BY <1>1, SendTCPMoves
  <2> HIDE DEF u
  <2>4. \A f \in StreamFields : r[f] = u[f]
    BY <2>3 DEF SocketFields, StreamFields, FlowFields, EchoFields
  <2> HIDE DEF r
  <2> QED BY <2>1, <2>2, <2>4, SameStream
<1>3. CASE ~ (Beyond(t, h) > 0 /\ (~t.finSent \/ Beyond(t, h) # 1))
  <2> DEFINE ack == AckOfData(t, h)
             a == IF Acked(t, ack) > 0 THEN DropAcked(t, ack) ELSE NoneAcked(t)
             b == StopTimer(a, ack)
             c == TakeWindow(b, h, ack)
  <2>1. AckSegment(t, h) = AfterFin(c, h, ack)
    BY <1>3 DEF AckSegment
  <2>2. ack \in Int /\ ack <= t.mySeq + Unsent(t) /\ Beyond(t, h) <= 1
    BY <1>1, <1>3 DEF AckOfData, Beyond
  <2>3. Honest(t, ack)
    BY <1>1, <2>2, AcksAreHonest
  <2> HIDE DEF ack
  <2>4. Connected(a)
    BY <2>2, DropAckedConnected, NoneAckedConnected
  <2>5. Flow(a) /\ Echoing(a)
    <3>1. Acked(t, ack) > 0 => Flow(DropAcked(t, ack)) /\ Echoing(DropAcked(t, ack))
      BY <2>2, <2>3, DropAckedFlow
    <3>2. Flow(NoneAcked(t)) /\ Echoing(NoneAcked(t))
      BY <1>1, NoneAckedFlow
    <3> QED BY <3>1, <3>2
  <2> HIDE DEF a
  <2>6. Connected(b)
    BY <2>4, StopTimerConnected
  <2>7. Flow(b) /\ Echoing(b)
    BY <2>4, <2>5, StopTimerFlow DEF Connected
  <2> HIDE DEF b
  <2>8. Connected(c)
    BY <2>2, <2>6, TakeWindowConnected
  <2>9. Flow(c) /\ Echoing(c)
    BY <2>6, <2>7, TakeWindowFlow DEF Connected
  <2> HIDE DEF c
  <2> QED BY <2>1, <2>2, <2>8, <2>9, AfterFinFlow
<1> QED BY <1>2, <1>3

-----------------------------------------------------------------------------
(* The bytes of a segment and the stream. *)

\* What the receiving side leaves of the stream.
RxOnly(r, t) == \A f \in FlowFields \cup {"txUnacked", "timer", "txFin"} : r[f] = t[f]

\* It is enough that the receive FIFO still holds what it should.
LEMMA RxOnlyFlow ==
  ASSUME NEW t, Flow(t), Echoing(t), t.sm \notin Idle, NEW r, RxOnly(r, t),
         Unfinished(t) => r.rxTail = t.rxTail /\ RxBytes(r)
  PROVE  Flow(r) /\ Echoing(r)
<1>1. /\ r.sm = t.sm /\ r.port = t.port /\ r.iss = t.iss /\ r.txTail = t.txTail
      /\ r.txHead = t.txHead /\ r.txUnacked = t.txUnacked /\ r.out = t.out
      /\ r.synSent = t.synSent /\ r.timer = t.timer /\ r.txFin = t.txFin
      /\ \A f \in FlowFields : r[f] = t[f]
  BY DEF RxOnly, FlowFields
<1>2. Flow(r)
  BY <1>1, SameFlow DEF Flow, Timed
<1>3. Under(r) = Under(t) /\ (Joins(r) => Joins(t)) /\ (Unfinished(r) => Unfinished(t))
  BY <1>1 DEF Under, Joins, Unfinished
<1>4. Echoing(r)
  BY <1>1, <1>3 DEF Echoing
<1> QED BY <1>2, <1>4

LEMMA HeldAt ==
  ASSUME NEW fifo, NEW ring, NEW from \in Int, NEW to \in Int, NEW port,
         Holds(fifo, ring, from, to, port), NEW p \in Int, from <= p, p < to
  PROVE  Place(fifo, ring, p) = Byte(port, p + 1)
<1>1. p \in from .. to - 1
  OBVIOUS
<1> QED BY <1>1 DEF Holds, Place

\* A range of a FIFO that holds what it should where nothing new is written.
HoldsBeside(fifo, ring, from, to, port, at, n) ==
  \A p \in from .. to - 1 : p \in at .. at + n - 1 \/ Place(fifo, ring, p) = Byte(port, p + 1)

\* Bytes that are written in their place make up what a FIFO should hold.
LEMMA WrittenHolds ==
  ASSUME NEW fifo, NEW ring \in Nat \ {0}, NEW at \in Int, NEW port, NEW n \in Nat, n <= ring,
         NEW bytes, Carries(bytes, at, n, port), NEW from \in Int, NEW to \in Int,
         at + n <= from + ring, to <= at + ring,
         HoldsBeside(fifo, ring, from, to, port, at, n)
  PROVE  Holds(Written(fifo, ring, at, bytes), ring, from, to, port)
<1> DEFINE w == Written(fifo, ring, at, bytes)
<1> SUFFICES ASSUME NEW p \in from .. to - 1 PROVE w[p % ring] = Byte(port, p + 1)
  BY DEF Holds
<1>0. at \in Int /\ ring \in Nat \ {0}
  OBVIOUS
<1>1. p \in Int /\ at + n - 1 < p + ring /\ p < at + ring /\ Len(bytes) = n
  BY DEF Carries
<1>2. CASE p \in at .. at + n - 1
  <2>1. Place(w, ring, p) = Byte(port, p + 1)
    BY <1>1, <1>2, WrittenInside
  <2> HIDE DEF w
  <2> QED BY <2>1 DEF Place
<1>3. CASE p \notin at .. at + n - 1
  <2>1. (p < at \/ p >= at + Len(bytes)) /\ Len(bytes) \in Nat /\ at + Len(bytes) - 1 < p + ring
    BY <1>1, <1>3
  <2>2. Place(w, ring, p) = Place(fifo, ring, p)
    BY <1>1, <2>1, WrittenOutside
  <2> HIDE DEF w
  <2> QED BY <1>3, <2>2 DEF Place, HoldsBeside
<1> QED BY <1>2, <1>3

\* A part of a segment carries the bytes of its place.
LEMMA PayloadCarries ==
  ASSUME NEW h, Arriving(h), NEW old \in Nat, NEW n \in Nat, old + n <= h.len,
         NEW at \in Int, at = h.seq + old - 1, NEW first \in Int, first = old + 1,
         NEW last \in Int, last = old + n, NEW bytes, bytes = SubSeq(Payload(h), first, last)
  PROVE  Carries(bytes, at, n, h.port)
<1> DEFINE all == Payload(h)
<1>1. h.len \in Nat /\ h.seq \in Int /\ h.port \in Int
  BY DEF Arriving
<1>2. all = [i \in 1 .. h.len |-> Byte(h.port, h.seq + i - 1)]
  BY DEF Payload
<1>3. \A i \in 1 .. h.len : Byte(h.port, h.seq + i - 1) \in Bytes
  <2> SUFFICES ASSUME NEW i \in 1 .. h.len PROVE Byte(h.port, h.seq + i - 1) \in Bytes
    OBVIOUS
  <2>1. h.seq + i - 1 \in Int
    BY <1>1
  <2> QED BY <1>1, <2>1, ByteTyped
<1>4. all \in [1 .. h.len -> Bytes]
  BY <1>2, <1>3
<1>5. all \in Seq(Bytes) /\ Len(all) = h.len
  <2>1. all \in Seq(Bytes)
    BY <1>1, <1>4, SeqDef
  <2>2. DOMAIN all = 1 .. h.len /\ DOMAIN all = 1 .. Len(all) /\ Len(all) \in Nat
    BY <1>4, <2>1, LenProperties
  <2> QED BY <1>1, <2>2, <2>1
<1> HIDE DEF all
<1>6. bytes = SubSeq(all, first, last)
  BY DEF all
<1>7. bytes \in Seq(Bytes) /\ Len(bytes) = n /\ \A j \in 1 .. n : bytes[j] = all[old + j]
  <2>1. CASE n = 0
    <3>0. last < first
      BY <2>1
    <3>2. SubSeq(all, first, last) = <<>>
      BY <3>0, SubSeqEmpty
    <3>3. bytes = <<>>
      BY <1>6, <3>2
    <3> QED BY <2>1, <3>3
  <2>2. CASE n # 0
    <3>1. /\ first \in 1 .. Len(all) /\ last \in 1 .. Len(all)
          /\ last - first + 1 = n
      BY <1>1, <1>5, <2>2
    <3>2. /\ bytes \in Seq(Bytes) /\ Len(bytes) = n
          /\ \A j \in 1 .. n : bytes[j] = all[first + j - 1]
      <4>1. \A i \in first .. last : i \in 1 .. Len(all)
        BY <1>5, <3>1
      <4>2. \A i \in first .. last : all[i] \in Bytes
        BY <1>5, <4>1, ElementOfSeq
      <4>3. /\ SubSeq(all, first, last) \in Seq(Bytes)
            /\ Len(SubSeq(all, first, last)) = IF first <= last THEN last - first + 1 ELSE 0
            /\ \A i \in 1 .. last - first + 1 : SubSeq(all, first, last)[i] = all[first + i - 1]
        BY <4>2, SubSeqProperties
      <4>4. first <= last
        BY <2>2
      <4> QED BY <1>6, <3>1, <4>3, <4>4
    <3>3. \A j \in 1 .. n : first + j - 1 = old + j
      OBVIOUS
    <3> QED BY <3>2, <3>3
  <2> QED BY <2>1, <2>2
<1>8. ASSUME NEW j \in 1 .. n PROVE bytes[j] = Byte(h.port, at + j)
  <2>1. PICK i \in 1 .. h.len : i = old + j
    BY <1>1
  <2>2. all[i] = Byte(h.port, h.seq + i - 1)
    BY <1>2
  <2>3. h.seq + i - 1 = at + j
    <3>1. i \in Int /\ j \in Int /\ h.seq \in Int /\ i = old + j /\ old \in Int /\ at = h.seq + old - 1
      BY <1>1, <2>1
    <3> QED BY ONLY <3>1
  <2> QED BY <1>7, <2>1, <2>2, <2>3
<1> QED BY <1>7, <1>8 DEF Carries

-----------------------------------------------------------------------------
(* What is stored of a segment. *)

\* A range of what is held and of what is new, n bytes from a position on.
Covered(t, at, n, from, to) ==
  \A p \in from .. to - 1 :
    \/ p \in at .. at + n - 1 \/ p \in t.rxTail .. t.rxHead - 1
    \/ t.hole # -1 /\ p \in t.rxHead + t.hole .. t.rxHead + t.hole + t.future - 1

\* After bytes of a segment were written in their place, any range of what
\* was held and what is new holds what it should.
LEMMA StoredHolds ==
  ASSUME NEW t, Socket(t), RxBytes(t), NEW at \in Int, NEW n \in Nat, NEW bytes,
         Carries(bytes, at, n, t.port), t.rxHead <= at, at + n <= t.rxTail + RxRing - 1,
         NEW from \in Int, NEW to \in Int, t.rxTail <= from, to <= t.rxTail + RxRing - 1,
         Covered(t, at, n, from, to)
  PROVE  Holds(Written(t.rxFifo, RxRing, at, bytes), RxRing, from, to, t.port)
<1>1. /\ t.rxTail \in Nat /\ t.rxHead \in Nat /\ t.rxTail <= t.rxHead
      /\ t.hole \in Int /\ t.future \in Int /\ RxRing \in Nat \ {0}
  BY TcpAssumption DEF Socket, RxOrder, TcpAssumption
<1>2. HoldsBeside(t.rxFifo, RxRing, from, to, t.port, at, n)
  <2> SUFFICES ASSUME NEW p \in from .. to - 1
               PROVE  p \in at .. at + n - 1 \/ Place(t.rxFifo, RxRing, p) = Byte(t.port, p + 1)
    BY DEF HoldsBeside
  <2>1. CASE p \in t.rxTail .. t.rxHead - 1
    BY <2>1 DEF RxBytes, Holds, Place
  <2>2. CASE t.hole # -1 /\ p \in t.rxHead + t.hole .. t.rxHead + t.hole + t.future - 1
    <3>1. Holds(t.rxFifo, RxRing, t.rxHead + t.hole, t.rxHead + t.hole + t.future, t.port)
      BY <2>2 DEF RxBytes
    <3>2. PICK a \in Int, b \in Int : /\ a = t.rxHead + t.hole /\ b = t.rxHead + t.hole + t.future
                                     /\ p \in Int /\ a <= p /\ p < b
      BY <1>1, <2>2
    <3>3. Holds(t.rxFifo, RxRing, a, b, t.port)
      BY <3>1, <3>2
    <3> QED BY <3>2, <3>3, HeldAt
  <2> QED BY <2>1, <2>2 DEF Covered
<1>3. n <= RxRing /\ at + n <= from + RxRing /\ to <= at + RxRing
  BY <1>1
<1> DEFINE old == t.rxFifo
           port == t.port
<1>4. Carries(bytes, at, n, port) /\ HoldsBeside(old, RxRing, from, to, port, at, n)
  BY <1>2
<1> HIDE DEF old, port
<1>5. Holds(Written(old, RxRing, at, bytes), RxRing, from, to, port)
  BY <1>1, <1>3, <1>4, WrittenHolds
<1> QED BY <1>5 DEF old, port

\* The next bytes in order, with what was kept behind the hole.
LEMMA FillHoleBytes ==
  ASSUME NEW t, Socket(t), RxBytes(t), NEW len \in Nat, len <= RxFree(t),
         t.rxHead + len <= Script,
         NEW bytes, Carries(bytes, t.rxHead, len, t.port),
         NEW u, DOMAIN u = SocketFields, u.rxFifo = Written(t.rxFifo, RxRing, t.rxHead, bytes),
         u.rxHead = t.rxHead + len, u.rxTail = t.rxTail, u.hole = t.hole, u.future = t.future,
         u.port = t.port
  PROVE  RxBytes(FillHole(u, len))
<1> DEFINE hole == u.hole - len
           more == u.future + hole
           r == FillHole(u, len)
           fifo == Written(t.rxFifo, RxRing, t.rxHead, bytes)
<1>1. /\ t.rxTail \in Nat /\ t.rxHead \in Nat /\ t.hole \in Int /\ t.future \in Int
      /\ RxRing \in Nat \ {0} /\ Script \in Int
      /\ t.rxTail <= t.rxHead /\ t.rxHead + len <= t.rxTail + RxRing - 1
      /\ t.hole # -1 => t.hole > 0 /\ t.future > 0
                        /\ t.rxHead + t.hole + t.future <= t.rxTail + RxRing - 1
      /\ t.rxHead + len <= Script
  BY TcpAssumption DEF Socket, RxOrder, RxFree, TcpAssumption
<1>2. t.hole # -1 => t.rxHead + t.hole + t.future <= Script
  BY DEF RxBytes
<1>8. ASSUME NEW from \in Int, NEW to \in Int, t.rxTail <= from, to <= t.rxTail + RxRing - 1,
             Covered(t, t.rxHead, len, from, to)
      PROVE  Holds(fifo, RxRing, from, to, t.port)
  <2>1. PICK at \in Int : at = t.rxHead
    BY <1>1
  <2>2. /\ Carries(bytes, at, len, t.port) /\ Covered(t, at, len, from, to)
        /\ t.rxHead <= at /\ at + len <= t.rxTail + RxRing - 1
    BY <1>1, <1>8, <2>1
  <2>3. Holds(Written(t.rxFifo, RxRing, at, bytes), RxRing, from, to, t.port)
    BY <1>8, <2>2, StoredHolds
  <2> QED BY <2>1, <2>3
<1>3. Holds(fifo, RxRing, t.rxTail, t.rxHead + len, t.port)
  <2>2. PICK to \in Int : to = t.rxHead + len
    BY <1>1
  <2>1. Covered(t, t.rxHead, len, t.rxTail, to)
    BY <1>1, <2>2 DEF Covered
  <2> HIDE DEF fifo
  <2>3. Holds(fifo, RxRing, t.rxTail, to, t.port)
    BY <1>1, <1>8, <2>1, <2>2
  <2> QED BY <2>2, <2>3
<1>4. CASE u.hole = -1
  <2>1. r = u
    BY <1>4 DEF FillHole
  <2> HIDE DEF fifo
  <2>2. RxBytes(u)
    BY <1>1, <1>3, <1>4 DEF RxBytes, fifo
  <2> QED BY <2>1, <2>2
<1>5. CASE u.hole # -1 /\ more < 0
  <2>1. r = [u EXCEPT !.hole = -1, !.future = 0]
    BY <1>5 DEF FillHole
  <2> HIDE DEF r, more, hole
  <2>2. /\ r.hole = -1 /\ r.rxTail = t.rxTail /\ r.port = t.port
        /\ r.rxHead = t.rxHead + len /\ r.rxFifo = fifo
    BY <2>1 DEF SocketFields
  <2> HIDE DEF fifo
  <2>3. RxBytes(r)
    BY <1>1, <1>3, <2>2 DEF RxBytes
  <2> QED BY <2>3 DEF r
<1>6. CASE u.hole # -1 /\ ~ (more < 0) /\ hole > 0
  <2>1. r = [u EXCEPT !.hole = hole]
    BY <1>6 DEF FillHole
  <2> HIDE DEF r
  <2>2. /\ r.hole = t.hole - len /\ r.future = t.future /\ r.rxTail = t.rxTail /\ r.port = t.port
        /\ r.rxHead = t.rxHead + len /\ r.rxFifo = fifo
    BY <2>1 DEF SocketFields
  <2> HIDE DEF fifo
  <2>3. PICK from \in Int, to \in Int :
          /\ from = t.rxHead + t.hole /\ to = t.rxHead + t.hole + t.future
          /\ from = r.rxHead + r.hole /\ to = r.rxHead + r.hole + r.future
    BY <1>1, <2>2
  <2>4. Holds(fifo, RxRing, from, to, t.port)
    <3>1. t.rxTail <= from /\ to <= t.rxTail + RxRing - 1 /\ t.hole # -1
      BY <1>1, <1>6, <2>3
    <3>2. Covered(t, t.rxHead, len, from, to)
      BY <1>1, <2>3, <3>1 DEF Covered
    <3> QED BY <1>1, <1>8, <2>3, <3>1, <3>2
  <2>5. r.rxHead + r.hole + r.future <= Script
    BY <1>1, <1>2, <1>6, <2>3
  <2>6. Holds(r.rxFifo, RxRing, r.rxTail, r.rxHead, r.port) /\ r.rxHead <= Script
    BY <1>1, <1>3, <2>2
  <2>7. Holds(r.rxFifo, RxRing, r.rxHead + r.hole, r.rxHead + r.hole + r.future, r.port)
    BY <2>2, <2>3, <2>4
  <2>8. RxBytes(r)
    BY <2>5, <2>6, <2>7 DEF RxBytes
  <2> QED BY <2>8 DEF r
<1>7. CASE u.hole # -1 /\ ~ (more < 0) /\ ~ (hole > 0)
  <2>1. r = [u EXCEPT !.hole = -1, !.future = 0, !.remoteSeq = @ + more, !.rxHead = @ + more]
    BY <1>7 DEF FillHole
  <2> HIDE DEF r
  <2>2. /\ r.hole = -1 /\ r.rxTail = t.rxTail /\ r.port = t.port
        /\ r.rxHead = t.rxHead + len + more /\ r.rxFifo = fifo
    BY <2>1 DEF SocketFields
  <2> HIDE DEF fifo
  <2>3. PICK to \in Int : to = t.rxHead + t.hole + t.future
    BY <1>1
  <2>4. r.rxHead = to /\ t.hole # -1 /\ t.hole <= len
    BY <1>1, <1>7, <2>2, <2>3
  <2>5. Holds(fifo, RxRing, t.rxTail, to, t.port)
    <3>1. to <= t.rxTail + RxRing - 1
      BY <1>1, <2>3, <2>4
    <3>2. Covered(t, t.rxHead, len, t.rxTail, to)
      BY <1>1, <2>3, <2>4 DEF Covered
    <3> QED BY <1>1, <1>8, <2>4, <3>1, <3>2
  <2>6. r.rxHead <= Script
    BY <1>1, <1>2, <2>3, <2>4
  <2>7. RxBytes(r)
    BY <2>2, <2>4, <2>5, <2>6 DEF RxBytes
  <2> QED BY <2>7 DEF r
<1> QED BY <1>4, <1>5, <1>6, <1>7

-----------------------------------------------------------------------------
\* What FillHole leaves alone.
LEMMA FillHoleKeeps ==
  ASSUME NEW u, DOMAIN u = SocketFields, NEW len
  PROVE  \A f \in SocketFields \ {"hole", "future", "remoteSeq", "rxHead"} : FillHole(u, len)[f] = u[f]
<1> DEFINE hole == u.hole - len
           more == u.future + hole
           a == [u EXCEPT !.hole = -1, !.future = 0]
           b == [u EXCEPT !.hole = hole]
           c == [u EXCEPT !.hole = -1, !.future = 0, !.remoteSeq = @ + more, !.rxHead = @ + more]
           Same(r) == \A f \in SocketFields \ {"hole", "future", "remoteSeq", "rxHead"} : r[f] = u[f]
<1>1. FillHole(u, len) \in {u, a, b, c}
  BY DEF FillHole
<1>2. Same(u)
  OBVIOUS
<1>3. Same(a)
  BY DEF SocketFields
<1>4. Same(b)
  BY DEF SocketFields
<1>5. Same(c)
  <2> HIDE DEF more
  <2> QED BY DEF SocketFields
<1> HIDE DEF a, b, c
<1>6. Same(FillHole(u, len))
  BY <1>1, <1>2, <1>3, <1>4, <1>5
<1> QED BY <1>6

LEMMA StoreNextFlow ==
  ASSUME NEW t, Connected(t), Flow(t), Echoing(t), NEW h, Fits(t, h), Heard(h), h.port = t.port,
         h.len > 0, Missing(t, h) <= 0, Unfinished(t) => ~FinCounted(t)
  PROVE  Flow(StoreNext(t, h)) /\ Echoing(StoreNext(t, h))
<1> DEFINE old == - Missing(t, h)
           len == Lesser(h.len - old, RxFree(t))
           bytes == SubSeq(Payload(h), old + 1, old + len)
           fifo == Written(t.rxFifo, RxRing, t.rxHead, bytes)
           u == [t EXCEPT !.rxFifo = Written(@, RxRing, t.rxHead, bytes),
                          !.remoteSeq = @ + len, !.rxHead = @ + len]
           r == FillHole(u, len)
<1>1. /\ RxFree(t) \in Int /\ h.seq \in Int /\ t.remoteSeq \in Int /\ h.len \in Nat
      /\ t.rxHead \in Nat /\ DOMAIN t = SocketFields /\ Script \in Nat /\ Arriving(h)
  BY TcpAssumption DEF Connected, Socket, RxOrder, RxFree, Fits, Arriving, TcpAssumption
<1>2. /\ len \in Nat /\ len <= RxFree(t) /\ old \in Nat /\ old + len <= h.len
      /\ old = t.remoteSeq - h.seq
  <2>1. SegmentLength(h) \in {h.len, h.len + 1}
    BY <1>1 DEF SegmentLength, Fits
  <2>2. Missing(t, h) \in Int /\ h.len + Missing(t, h) >= 0 /\ Missing(t, h) = h.seq - t.remoteSeq
    BY <1>1, <2>1 DEF Missing, Fits
  <2> QED BY <1>1, <2>2 DEF Lesser, Fits
<1>3. StoreNext(t, h) = r
  BY WordIsMissing DEF StoreNext
<1> HIDE DEF len, old
<1>4. \A f \in SocketFields \ {"rxFifo", "remoteSeq", "rxHead"} : u[f] = t[f]
  BY <1>1 DEF SocketFields
<1>5. /\ DOMAIN u = SocketFields /\ u.rxFifo = fifo /\ u.rxHead = t.rxHead + len
      /\ u.rxTail = t.rxTail /\ u.hole = t.hole /\ u.future = t.future /\ u.port = t.port
  <2> HIDE DEF bytes
  <2> QED BY <1>1 DEF SocketFields
<1> HIDE DEF u
<1>6. \A f \in SocketFields \ {"hole", "future", "remoteSeq", "rxHead"} : r[f] = u[f]
  BY <1>5, FillHoleKeeps
<1> HIDE DEF r, fifo
<1>7. RxOnly(r, t) /\ r.rxTail = t.rxTail
  BY <1>4, <1>6 DEF RxOnly, FlowFields, SocketFields
<1>8. ASSUME Unfinished(t) PROVE RxBytes(r)
  <2>1. t.remoteSeq = t.rxHead + 1
    BY <1>1, <1>8 DEF Connected, FinCounted
  <2>2. h.seq + h.len <= Script + 1
    BY DEF Heard, Fits
  <2>3. t.rxHead = h.seq + old - 1 /\ t.rxHead + len <= Script
    BY <1>1, <1>2, <2>1, <2>2
  <2>4. Carries(bytes, t.rxHead, len, h.port)
    <3>1. PICK at \in Int : at = t.rxHead
      BY <1>1
    <3>2. at = h.seq + old - 1
      BY <2>3, <3>1
    <3>3. PICK b : b = bytes
      OBVIOUS
    <3> DEFINE first == old + 1
               last == old + len
    <3>4. first \in Int /\ last \in Int /\ first = old + 1 /\ last = old + len
      BY <1>2
    <3>6. b = SubSeq(Payload(h), first, last)
      BY <3>3
    <3> HIDE DEF bytes, first, last
    <3>5. Carries(b, at, len, h.port)
      BY <1>1, <1>2, <3>2, <3>4, <3>6, PayloadCarries
    <3> QED BY <3>1, <3>3, <3>5
  <2>5. RxBytes(t)
    BY <1>8 DEF Echoing
  <2> HIDE DEF bytes
  <2>6. Socket(t) /\ Carries(bytes, t.rxHead, len, t.port)
    BY <2>4 DEF Connected
  <2>7. RxBytes(FillHole(u, len))
    BY <1>2, <1>5, <2>3, <2>5, <2>6, FillHoleBytes DEF fifo
  <2> QED BY <2>7 DEF r
<1>9. t.sm \notin Idle
  BY DEF Connected
<1>10. Flow(r) /\ Echoing(r)
  BY <1>7, <1>8, <1>9, RxOnlyFlow
<1> QED BY <1>3, <1>10

-----------------------------------------------------------------------------
LEMMA StoreFutureFlow ==
  ASSUME NEW t, Connected(t), Flow(t), Echoing(t), NEW h, Fits(t, h), Heard(h), h.port = t.port,
         h.len > 0, Missing(t, h) > 0, Unfinished(t) => ~FinCounted(t)
  PROVE  Flow(StoreFuture(t, h)) /\ Echoing(StoreFuture(t, h))
<1> DEFINE at == Missing(t, h)
           len == Lesser(h.len, RxFree(t) - at)
           end == at + len
           oldEnd == t.hole + t.future
           bytes == SubSeq(Payload(h), 1, len)
           fifo == Written(t.rxFifo, RxRing, t.rxHead + at, bytes)
           u == [t EXCEPT !.rxFifo = fifo]
           r == StoreFuture(t, h)
<1>1. /\ RxOrder(t) /\ RxFree(t) \in Int /\ at \in Int /\ at > 0 /\ at < RxFree(t)
      /\ h.len \in Nat /\ t.remoteSeq \in Int /\ h.seq \in Int /\ at = h.seq - t.remoteSeq
      /\ t.hole \in Int /\ t.future \in Int /\ DOMAIN t = SocketFields
      /\ t.rxTail \in Nat /\ t.rxHead \in Nat /\ RxRing \in Nat /\ Arriving(h) /\ Script \in Int
      /\ RxFree(t) = RxRing - 1 - (t.rxHead - t.rxTail)
  BY TcpAssumption DEF Connected, Socket, RxOrder, RxFree, Fits, Arriving, Missing, TcpAssumption
<1> HIDE DEF at
<1>2. len \in Nat /\ len > 0 /\ at + len <= RxFree(t) /\ len <= h.len
  BY <1>1 DEF Lesser
<1>3. r = IF t.hole = -1 THEN [u EXCEPT !.hole = at, !.future = len]
          ELSE IF at < t.hole
          THEN [u EXCEPT !.hole = at,
                         !.future = IF end > oldEnd \/ end < t.hole THEN len ELSE oldEnd - at]
          ELSE IF end > oldEnd /\ at <= oldEnd THEN [u EXCEPT !.future = end - t.hole]
          ELSE u
  BY WordIsMissing DEF StoreFuture, at
<1> HIDE DEF len, fifo, r
<1>4. /\ \A f \in SocketFields \ {"rxFifo", "hole", "future"} : r[f] = t[f]
      /\ r.rxFifo = fifo
  BY <1>1, <1>3 DEF SocketFields
<1>5. RxOnly(r, t) /\ r.rxTail = t.rxTail /\ r.rxHead = t.rxHead /\ r.port = t.port
  BY <1>4 DEF RxOnly, FlowFields, SocketFields
<1>6. ASSUME Unfinished(t) PROVE RxBytes(r)
  <2>1. t.remoteSeq = t.rxHead + 1
    BY <1>1, <1>6 DEF Connected, FinCounted
  <2>2. h.seq + h.len <= Script + 1
    BY DEF Heard, Fits
  <2>3. PICK a \in Int : a = t.rxHead + at
    BY <1>1
  <2>4. a = h.seq - 1 /\ a + len <= Script /\ t.rxHead <= a /\ a + len <= t.rxTail + RxRing - 1
    BY <1>1, <1>2, <2>1, <2>2, <2>3
  <2>5. Carries(bytes, a, len, t.port)
    <3>1. PICK b : b = bytes
      OBVIOUS
    <3>2. PICK o \in Nat : o = 0
      OBVIOUS
    <3>3. PICK first \in Int, last \in Int :
            first = 1 /\ last = len /\ b = SubSeq(Payload(h), first, last)
      BY <1>2, <3>1
    <3> HIDE DEF bytes
    <3>5. first = o + 1 /\ last = o + len /\ o + len <= h.len /\ a = h.seq + o - 1
      BY <1>1, <1>2, <2>4, <3>2, <3>3
    <3>4. Carries(b, a, len, h.port)
      BY <1>1, <1>2, <3>3, <3>5, PayloadCarries
    <3> QED BY <3>1, <3>4
  <2> HIDE DEF bytes
  <2>6. RxBytes(t) /\ Socket(t)
    BY <1>6 DEF Echoing, Connected
  <2>7. ASSUME NEW from \in Int, NEW to \in Int, t.rxTail <= from, to <= t.rxTail + RxRing - 1,
               Covered(t, a, len, from, to)
        PROVE  Holds(fifo, RxRing, from, to, t.port)
    <3>0. PICK b : b = bytes
      OBVIOUS
    <3>1. PICK n \in Nat : n = len
      BY <1>2
    <3>2. /\ Carries(b, a, n, t.port) /\ Covered(t, a, n, from, to)
          /\ t.rxHead <= a /\ a + n <= t.rxTail + RxRing - 1
      BY <1>2, <2>4, <2>5, <2>7, <3>0, <3>1
    <3>3. Holds(Written(t.rxFifo, RxRing, a, b), RxRing, from, to, t.port)
      BY <2>6, <2>7, <3>2, StoredHolds
    <3> QED BY <2>3, <3>0, <3>1, <3>3 DEF fifo
  <2>8. Holds(r.rxFifo, RxRing, r.rxTail, r.rxHead, r.port) /\ r.rxHead <= Script
    <3>1. Covered(t, a, len, t.rxTail, t.rxHead)
      BY DEF Covered
    <3>2. t.rxHead <= t.rxTail + RxRing - 1 /\ t.rxTail <= t.rxTail
      BY <1>1 DEF RxOrder
    <3>3. Holds(fifo, RxRing, t.rxTail, t.rxHead, t.port)
      BY <1>1, <2>7, <3>1, <3>2
    <3> QED BY <1>4, <1>5, <2>6, <3>3 DEF RxBytes
  <2>9. ASSUME NEW from \in Int, NEW to \in Int, from = t.rxHead + r.hole,
               to = t.rxHead + r.hole + r.future, t.rxTail <= from, to <= t.rxTail + RxRing - 1,
               to <= Script, Covered(t, a, len, from, to)
        PROVE  RxBytes(r)
    <3>1. Holds(fifo, RxRing, from, to, t.port)
      BY <2>7, <2>9
    <3>2. Holds(r.rxFifo, RxRing, r.rxHead + r.hole, r.rxHead + r.hole + r.future, r.port)
      BY <1>4, <1>5, <2>9, <3>1
    <3> QED BY <1>5, <2>8, <2>9, <3>2 DEF RxBytes
  <2>10. t.hole # -1 => /\ t.hole > 0 /\ t.future > 0 /\ oldEnd <= RxFree(t)
                        /\ t.rxHead + oldEnd <= Script
    BY <1>1, <2>6 DEF RxOrder, RxBytes
  <2>11. CASE t.hole = -1
    <3>1. r.hole = at /\ r.future = len
      BY <1>1, <1>3, <2>11 DEF SocketFields
    <3>2. PICK from \in Int, to \in Int : from = a /\ to = a + len
      BY <1>2
    <3>3. /\ from = t.rxHead + r.hole /\ to = t.rxHead + r.hole + r.future
          /\ t.rxTail <= from /\ to <= t.rxTail + RxRing - 1 /\ to <= Script
      BY <1>1, <1>2, <2>3, <2>4, <3>1, <3>2 DEF RxOrder
    <3>4. Covered(t, a, len, from, to)
      BY <1>2, <3>2 DEF Covered
    <3> QED BY <2>9, <3>3, <3>4
  <2>12. CASE t.hole # -1 /\ at < t.hole /\ (end > oldEnd \/ end < t.hole)
    <3>1. r.hole = at /\ r.future = len
      BY <1>1, <1>3, <2>12 DEF SocketFields
    <3>2. PICK from \in Int, to \in Int : from = a /\ to = a + len
      BY <1>2
    <3>3. /\ from = t.rxHead + r.hole /\ to = t.rxHead + r.hole + r.future
          /\ t.rxTail <= from /\ to <= t.rxTail + RxRing - 1 /\ to <= Script
      BY <1>1, <1>2, <2>3, <2>4, <3>1, <3>2 DEF RxOrder
    <3>4. Covered(t, a, len, from, to)
      BY <1>2, <3>2 DEF Covered
    <3> QED BY <2>9, <3>3, <3>4
  <2>13. CASE t.hole # -1 /\ at < t.hole /\ ~ (end > oldEnd \/ end < t.hole)
    <3>1. r.hole = at /\ r.future = oldEnd - at
      BY <1>1, <1>3, <2>13 DEF SocketFields
    <3>2. PICK to \in Int : to = t.rxHead + oldEnd
      BY <1>1
    <3>3. /\ a = t.rxHead + r.hole /\ to = t.rxHead + r.hole + r.future
          /\ t.rxTail <= a /\ to <= t.rxTail + RxRing - 1 /\ to <= Script
      BY <1>1, <1>2, <2>3, <2>4, <2>10, <2>13, <3>1, <3>2 DEF RxOrder
    <3>4. Covered(t, a, len, a, to)
      <4>1. ASSUME NEW p \in a .. to - 1, ~ (p < a + len)
            PROVE  p \in t.rxHead + t.hole .. t.rxHead + t.hole + t.future - 1
        BY <1>1, <1>2, <2>3, <2>13, <3>2, <4>1
      <4> QED BY <1>2, <2>13, <4>1 DEF Covered
    <3> QED BY <2>9, <3>3, <3>4
  <2>14. CASE t.hole # -1 /\ ~ (at < t.hole) /\ end > oldEnd /\ at <= oldEnd
    <3>1. r.hole = t.hole /\ r.future = end - t.hole
      BY <1>1, <1>3, <2>14 DEF SocketFields
    <3>2. PICK from \in Int, to \in Int : from = t.rxHead + t.hole /\ to = a + len
      BY <1>1, <1>2
    <3>3. /\ from = t.rxHead + r.hole /\ to = t.rxHead + r.hole + r.future
          /\ t.rxTail <= from /\ to <= t.rxTail + RxRing - 1 /\ to <= Script
      BY <1>1, <1>2, <2>3, <2>4, <2>10, <2>14, <3>1, <3>2 DEF RxOrder
    <3>4. Covered(t, a, len, from, to)
      <4>1. ASSUME NEW p \in from .. to - 1, ~ (p \in a .. a + len - 1)
            PROVE  p \in t.rxHead + t.hole .. t.rxHead + t.hole + t.future - 1
        BY <1>1, <1>2, <2>3, <2>14, <3>2, <4>1
      <4> QED BY <2>14, <4>1 DEF Covered
    <3> QED BY <2>9, <3>3, <3>4
  <2>15. CASE t.hole # -1 /\ ~ (at < t.hole) /\ ~ (end > oldEnd /\ at <= oldEnd)
    <3>1. r.hole = t.hole /\ r.future = t.future
      BY <1>1, <1>3, <2>15 DEF SocketFields
    <3>2. PICK from \in Int, to \in Int : from = t.rxHead + t.hole /\ to = t.rxHead + oldEnd
      BY <1>1
    <3>3. /\ from = t.rxHead + r.hole /\ to = t.rxHead + r.hole + r.future
          /\ t.rxTail <= from /\ to <= t.rxTail + RxRing - 1 /\ to <= Script
      BY <1>1, <2>10, <2>15, <3>1, <3>2 DEF RxOrder
    <3>4. Covered(t, a, len, from, to)
      BY <1>1, <2>10, <2>15, <3>2 DEF Covered
    <3> QED BY <2>9, <3>3, <3>4
  <2> QED BY <2>11, <2>12, <2>13, <2>14, <2>15
<1>7. t.sm \notin Idle
  BY DEF Connected
<1>8. Flow(r) /\ Echoing(r)
  BY <1>5, <1>6, <1>7, RxOnlyFlow
<1> QED BY <1>8 DEF r

LEMMA StoreDataFlow ==
  ASSUME NEW t, Connected(t), Flow(t), Echoing(t), NEW h, Fits(t, h), Heard(h), h.port = t.port,
         Unfinished(t) => ~FinCounted(t)
  PROVE  Flow(StoreData(t, h)) /\ Echoing(StoreData(t, h))
<1>0. h.len \in Nat /\ Missing(t, h) \in Int
  BY DEF Connected, Socket, Fits, Arriving, Missing
<1>1. CASE h.len = 0
  BY <1>1 DEF StoreData
<1>2. CASE h.len # 0 /\ Missing(t, h) <= 0
  <2>1. h.len > 0
    BY <1>0, <1>2
  <2> QED BY <1>2, <2>1, StoreNextFlow, WordIsMissing DEF StoreData
<1>3. CASE h.len # 0 /\ ~ (Missing(t, h) <= 0)
  <2>1. Missing(t, h) > 0 /\ h.len > 0
    BY <1>0, <1>3
  <2> QED BY <1>3, <2>1, StoreFutureFlow, WordIsMissing DEF StoreData
<1> QED BY <1>1, <1>2, <1>3

-----------------------------------------------------------------------------
\* In a state in which the server no longer reads or writes, nothing is echoed.
LEMMA FinishedEchoes ==
  ASSUME NEW t, ~Unfinished(t)
  PROVE  Echoing(t)
BY DEF Echoing

LEMMA AnswerDataFlow ==
  ASSUME Around, NEW t, Connected(t), Flow(t), Echoing(t), t.sm # "SYN_RECEIVED", NEW h
  PROVE  Flow(AnswerData(t, h)) /\ Echoing(AnswerData(t, h))
<1> DEFINE u == IF t.sm # "ESTABLISHED" THEN Discarded(t) ELSE t
           v == [u EXCEPT !.delayedAck = TRUE]
           w == SendTCP(u, {"ack"}, "reset")
<1>1. Connected(u) /\ Flow(u) /\ Echoing(u)
  <2>1. CASE t.sm # "ESTABLISHED"
    <3> DEFINE d == Discarded(t)
    <3>1. Connected(d)
      BY DiscardedReceived DEF Received
    <3>2. RxOnly(d, t)
      <4>1. DOMAIN t = SocketFields
        BY DEF Connected, Socket
      <4> QED BY <4>1 DEF RxOnly, FlowFields, SocketFields, Discarded
    <3> HIDE DEF d
    <3>3. t.sm \notin Idle /\ ~Unfinished(t)
      BY <2>1 DEF Connected, Unfinished
    <3>4. Flow(d) /\ Echoing(d)
      BY <3>2, <3>3, RxOnlyFlow
    <3> QED BY <2>1, <3>1, <3>4 DEF d
  <2>2. CASE t.sm = "ESTABLISHED"
    BY <2>2
  <2> QED BY <2>1, <2>2
<1> HIDE DEF u
<1>2. Flow(v) /\ Echoing(v)
  <2>1. DOMAIN u = SocketFields
    BY <1>1 DEF Connected, Socket
  <2>2. \A f \in StreamFields : v[f] = u[f]
    BY <2>1 DEF StreamFields, FlowFields, EchoFields, SocketFields
  <2> HIDE DEF v
  <2> QED BY <1>1, <2>2, SameStream
<1>3. Flow(w) /\ Echoing(w)
  BY <1>1, SendTCPFlow DEF Around
<1>4. AnswerData(t, h) \in {t, v, w}
  BY DEF AnswerData, u
<1> HIDE DEF v, w
<1> QED BY <1>2, <1>3, <1>4

LEMMA FinSegmentFlow ==
  ASSUME Around, NEW t, Connected(t), Flow(t), Echoing(t), ~FinCounted(t),
         t.sm \in {"ESTABLISHED", "FIN_WAIT_1", "FIN_WAIT_2"}, NEW h, Arriving(h), h.kind = "ack"
  PROVE  Flow(FinSegment(t, h)) /\ Echoing(FinSegment(t, h))
<1> DEFINE u == [t EXCEPT !.remoteSeq = @ + 1]
           ack == AckOfData(t, h)
           r == FinSegment(t, h)
           Acknowledge(v) == SendTCP(v, {"ack"}, "reset")
           Last(v) == CloseSocket(SendTCP(v, {"ack"}, "none"))
<1>1. CASE ~h.fin \/ t.remoteSeq + 1 # End(h)
  <2>1. r = t
    BY <1>1 DEF FinSegment, End
  <2> QED BY <2>1
<1>2. ASSUME h.fin, t.remoteSeq + 1 = End(h) PROVE Flow(r) /\ Echoing(r)
  <2>1. DOMAIN t = SocketFields /\ t.remoteSeq = 1 + t.rxHead /\ t.rxHead \in Int /\ t.remoteSeq \in Int
    <3>1. t.remoteSeq \in Int /\ t.rxHead \in Int /\ t.remoteSeq - 1 - t.rxHead \in {0, 1} /\ t.sm \notin Idle
      BY DEF Connected, Socket, RxOrder
    <3> QED BY <3>1 DEF Connected, Socket, FinCounted
  <2>2. ASSUME NEW sm \in States \ Idle
        PROVE  LET v == [u EXCEPT !.sm = sm]
               IN /\ Connected(v) /\ v.sm = sm
                  /\ \A f \in (FlowFields \cup {"txUnacked", "timer"}) \ {"sm"} : v[f] = t[f]
    <3> DEFINE v == [u EXCEPT !.sm = sm]
    <3>1. /\ DOMAIN v = SocketFields /\ v.sm = sm /\ v.remoteSeq = t.remoteSeq + 1
          /\ \A f \in SocketFields \ {"sm", "remoteSeq"} : v[f] = t[f]
      BY <2>1 DEF SocketFields
    <3> HIDE DEF v
    <3>2. /\ v.port = t.port /\ v.iss = t.iss
          /\ v.mySeq = t.mySeq /\ v.synSent = t.synSent
          /\ v.txTail = t.txTail /\ v.txUnacked = t.txUnacked /\ v.txHead = t.txHead
          /\ v.window = t.window /\ v.noneAcked = t.noneAcked /\ v.retries = t.retries
          /\ v.keepalives = t.keepalives /\ v.synQueue = t.synQueue /\ v.out = t.out
          /\ v.rxTail = t.rxTail /\ v.rxHead = t.rxHead /\ v.hole = t.hole
          /\ v.future = t.future
      BY <3>1 DEF SocketFields
    <3>3. TxOrder(v) /\ RxOrder(v) /\ Counted(v) /\ Queued(v)
      BY <3>2 DEF Connected, Socket, TxOrder, RxOrder, RxFree, Counted, Queued
    <3>4. v.remoteSeq - 1 - v.rxHead = 1 /\ v.remoteSeq \in Int
      BY <2>1, <3>1, <3>2
    <3>5. Socket(v)
      BY <3>1, <3>2, <3>3, <3>4 DEF Connected, Socket
    <3>6. Connected(v)
      BY <3>1, <3>2, <3>4, <3>5 DEF Connected
    <3>7. \A f \in (FlowFields \cup {"txUnacked", "timer"}) \ {"sm"} : v[f] = t[f]
      BY <3>1 DEF FlowFields, SocketFields
    <3> QED BY <3>1, <3>6, <3>7 DEF v
  <2>3. ASSUME NEW sm \in {"CLOSE_WAIT", "CLOSING"}, r = Acknowledge([u EXCEPT !.sm = sm])
        PROVE  Flow(r) /\ Echoing(r)
    <3> DEFINE v == [u EXCEPT !.sm = sm]
    <3>1. sm \in States \ Idle
      BY DEF States, Open, Leaving, Idle
    <3> HIDE DEF u
    <3>2. /\ Connected(v) /\ v.sm = sm
          /\ \A f \in (FlowFields \cup {"txUnacked", "timer"}) \ {"sm"} : v[f] = t[f]
      BY <2>2, <3>1
    <3> HIDE DEF v
    <3>3. v.sm \notin Idle \cup {"ESTABLISHED"} /\ t.sm \notin Idle /\ ~Unfinished(v)
      BY <3>2 DEF Idle, Unfinished
    <3>4. (\A f \in (FlowFields \cup {"txUnacked"}) \ {"sm"} : v[f] = t[f]) /\ v.timer = t.timer
      BY <3>2 DEF FlowFields
    <3>5. Flow(v) /\ Echoing(v)
      BY <3>3, <3>4, StateFlow, FinishedEchoes
    <3>6. Flow(Acknowledge(v)) /\ Echoing(Acknowledge(v))
      BY <3>2, <3>5, SendTCPFlow DEF Around
    <3> HIDE DEF Acknowledge, r
    <3> QED BY <2>3, <3>6 DEF v
  <2>4. CASE t.sm = "ESTABLISHED"
    <3>1. r = Acknowledge([u EXCEPT !.sm = "CLOSE_WAIT"])
      BY <1>2, <2>4 DEF FinSegment, End
    <3> HIDE DEF u, r, Acknowledge
    <3> QED BY <2>3, <3>1
  <2>5. CASE t.sm = "FIN_WAIT_1" /\ t.mySeq # ack
    <3>1. r = Acknowledge([u EXCEPT !.sm = "CLOSING"])
      BY <1>2, <2>5 DEF FinSegment, End
    <3> HIDE DEF u, r, Acknowledge
    <3> QED BY <2>3, <3>1
  <2>6. CASE t.sm = "FIN_WAIT_2" \/ (t.sm = "FIN_WAIT_1" /\ t.mySeq = ack)
    <3>1. r = Last(u)
      <4>1. CASE t.sm = "FIN_WAIT_2"
        BY <1>2, <4>1 DEF FinSegment, End
      <4>2. CASE t.sm = "FIN_WAIT_1" /\ t.mySeq = ack
        BY <1>2, <4>2 DEF FinSegment, End
      <4> QED BY <2>6, <4>1, <4>2
    <3>2. u = [u EXCEPT !.sm = t.sm] /\ t.sm \in States \ Idle
      BY <2>1 DEF SocketFields, Connected, Socket
    <3>3. \A f \in StreamFields : u[f] = t[f]
      BY <2>1 DEF StreamFields, FlowFields, EchoFields, SocketFields
    <3>4. Connected(u)
      <4> HIDE DEF u
      <4> QED BY <2>2, <3>2
    <3> HIDE DEF u
    <3>5. Flow(u) /\ Echoing(u)
      BY <3>3, SameStream
    <3> DEFINE w == SendTCP(u, {"ack"}, "none")
    <3>6. Flow(w) /\ Echoing(w)
      BY <3>4, <3>5, SendTCPFlow DEF Around
    <3>7. Connected(w)
      BY <3>4, SendTCPConnected
    <3> HIDE DEF w
    <3>8. Socket(w) /\ Begun(w)
      BY <3>7 DEF Connected, Begun
    <3>9. Flow(CloseSocket(w)) /\ Echoing(CloseSocket(w))
      BY <3>6, <3>8, CloseSocketFlow
    <3> QED BY <3>1, <3>9 DEF w
  <2> QED BY <2>4, <2>5, <2>6
<1> QED BY <1>1, <1>2

LEMMA DataSegmentFlow ==
  ASSUME Around, NEW t, Connected(t), Flow(t), Echoing(t), t.sm # "SYN_RECEIVED",
         NEW h, Arriving(h), Heard(h), h.port = t.port, h.kind = "ack",
         SegmentLength(h) > 0 => Fits(t, h), FinCounted(t) => End(h) <= t.remoteSeq
  PROVE  Flow(DataSegment(t, h)) /\ Echoing(DataSegment(t, h))
<1>1. CASE t.done \/ t.sm \in {"CLOSE_WAIT", "CLOSING", "LAST_ACK"}
  BY <1>1 DEF DataSegment
<1>2. CASE ~t.done /\ t.sm \notin {"CLOSE_WAIT", "CLOSING", "LAST_ACK"}
  <2> DEFINE a == StoreData(t, h)
             b == AnswerData(a, h)
             r == FinSegment(b, h)
  <2>1. DataSegment(t, h) = r
    BY <1>2 DEF DataSegment
  <2>2. t.sm \in {"ESTABLISHED", "FIN_WAIT_1", "FIN_WAIT_2"}
    BY <1>2 DEF Connected, Socket, States, Open, Leaving, Idle
  <2>3. CASE SegmentLength(h) > 0
    <3>1. Fits(t, h) /\ h.seq \in Int /\ SegmentLength(h) \in Int /\ t.remoteSeq \in Int
      BY <2>3 DEF Arriving, SegmentLength, Connected, Socket
    <3>2. ~FinCounted(t)
      BY <3>1 DEF Fits, Missing, End
    <3>3. Received(a, t) /\ Flow(a) /\ Echoing(a)
      BY <3>1, <3>2, StoreDataReceived, StoreDataFlow
    <3> HIDE DEF a
    <3>4. Connected(a) /\ a.sm = t.sm
      BY <3>3 DEF Received
    <3>5. Received(b, a) /\ Flow(b) /\ Echoing(b)
      BY <3>3, <3>4, AnswerDataReceived, AnswerDataFlow
    <3> HIDE DEF b
    <3>6. /\ Connected(b) /\ b.sm = t.sm
          /\ b.remoteSeq - b.rxHead = t.remoteSeq - t.rxHead
      BY <3>3, <3>5 DEF Received
    <3>7. ~FinCounted(b)
      <4>1. /\ b.remoteSeq \in Int /\ b.rxHead \in Int /\ t.remoteSeq \in Int /\ t.rxHead \in Int
        BY <3>6 DEF Connected, Socket, RxOrder
      <4>2. t.sm \notin Idle /\ t.remoteSeq # 2 + t.rxHead
        BY <3>2 DEF FinCounted, Connected
      <4>3. b.remoteSeq # 2 + b.rxHead
        BY <3>6, <4>1, <4>2
      <4> QED BY <4>3 DEF FinCounted
    <3>8. Flow(r) /\ Echoing(r)
      BY <2>2, <3>5, <3>6, <3>7, FinSegmentFlow
    <3> QED BY <2>1, <3>8
  <2>4. CASE ~ (SegmentLength(h) > 0)
    <3>1. SegmentLength(h) = 0 /\ h.len = 0 /\ ~h.fin
      BY <2>4 DEF SegmentLength, Arriving
    <3>2. r = t
      BY <3>1 DEF StoreData, AnswerData, FinSegment
    <3> QED BY <2>1, <3>2
  <2> QED BY <2>3, <2>4
<1> QED BY <1>1, <1>2

-----------------------------------------------------------------------------
(* HandleTCPSeg and the stream. *)

LEMMA AckAndDataFlow ==
  ASSUME Around, NEW t, Connected(t), StateSawFin(t), Alive(t),
         t.sm \notin {"SYN_RECEIVED", "LAST_ACK"}, Flow(t), Echoing(t),
         NEW h, Arriving(h), h.kind = "ack", t.port = h.port, Heard(h),
         SegmentLength(h) > 0 => Fits(t, h),
         FinCounted(t) => End(h) <= t.remoteSeq
  PROVE  Flow(DataSegment(AckSegment(t, h), h)) /\ Echoing(DataSegment(AckSegment(t, h), h))
<1> DEFINE a == AckSegment(t, h)
           r == DataSegment(a, h)
<1> SUFFICES Flow(r) /\ Echoing(r)
  OBVIOUS
<1>1. Answered(a, t) /\ Flow(a) /\ Echoing(a)
  BY AckSegmentAnswers, AckSegmentFlow DEF Around
<1> HIDE DEF a
<1>2. CASE AtRest(a) /\ a.done
  <2>1. r = a
    BY <1>2 DEF DataSegment
  <2> QED BY <1>1, <2>1
<1>3. CASE /\ Connected(a) /\ RxKept(a, t)
           /\ a.sm = t.sm \/ (t.sm = "FIN_WAIT_1" /\ a.sm = "FIN_WAIT_2")
           /\ a.sm \in {"FIN_WAIT_1", "CLOSING", "LAST_ACK"} /\ Waits(t) => Waits(a)
  <2>1. FinCounted(a) = FinCounted(t)
    BY <1>3 DEF FinCounted, Connected, RxKept
  <2>2. a.sm # "SYN_RECEIVED" /\ h.port = a.port
    BY <1>3 DEF RxKept
  <2>3. SegmentLength(h) > 0 => Fits(a, h)
    BY <1>3 DEF Fits, RxKept, Missing, RxFree
  <2>4. FinCounted(a) => End(h) <= a.remoteSeq
    BY <1>3, <2>1 DEF RxKept
  <2>5. Flow(r) /\ Echoing(r)
    BY <1>1, <1>3, <2>2, <2>3, <2>4, DataSegmentFlow
  <2> QED BY <2>5
<1> QED BY <1>1, <1>2, <1>3 DEF Answered

\* A segment of the connection is there only when the remote node has it too.
LEMMA OpenedFlow ==
  ASSUME NEW t, Connected(t), Flow(t), Echoing(t), NEW h, h.kind = "ack", t.port = h.port, Heard(h),
         NEW u, DOMAIN u = SocketFields, \A f \in SocketFields \ {"sm"} : u[f] = t[f],
         u.sm = IF t.sm = "SYN_RECEIVED" THEN "ESTABLISHED" ELSE t.sm
  PROVE  Flow(u) /\ Echoing(u)
<1>1. /\ u.port = t.port /\ u.iss = t.iss /\ u.txTail = t.txTail
      /\ u.txHead = t.txHead /\ u.txFifo = t.txFifo /\ u.txUnacked = t.txUnacked
      /\ u.synQueue = t.synQueue /\ u.out = t.out /\ u.synSent = t.synSent
      /\ u.timer = t.timer /\ u.txFin = t.txFin
      /\ u.rxTail = t.rxTail /\ u.rxHead = t.rxHead /\ u.hole = t.hole /\ u.future = t.future
      /\ u.rxFifo = t.rxFifo
  BY DEF SocketFields
<1>2. Under(u) = Under(t) /\ (Joins(u) <=> Joins(t)) /\ t.sm \notin Idle /\ u.sm \notin Idle
  BY <1>1 DEF Under, Joins, Connected, Idle
<1>3. OnTheWay(u) /\ FinEnds(u)
  BY <1>1, <1>2 DEF Flow, OnTheWay, Behind, FinEnds
<1>4. Joined(u) /\ Apart(u) /\ Ports(u) /\ TxBytes(u) /\ Timed(u)
  BY <1>1, <1>2 DEF Flow, Joined, Apart, Ports, TxBytes, Timed
<1>5. Early(u)
  BY <1>1, <1>2 DEF Early, Heard
<1>6. Flow(u)
  BY <1>1, <1>3, <1>4, <1>5 DEF Flow
<1>7. Unfinished(u) => Unfinished(t)
  BY DEF Unfinished
<1>8. RxBytes(t) => RxBytes(u)
  BY <1>1 DEF RxBytes
<1>9. Echoing(u)
  BY <1>1, <1>2, <1>7, <1>8 DEF Echoing
<1> QED BY <1>6, <1>9

LEMMA HandleTCPSegFlow ==
  ASSUME Around, NEW t0, Good(t0), t0.sm # "CLOSED", Flow(t0), Echoing(t0),
         NEW h, Arriving(h), t0.port = h.port, Heard(h),
         t0.sm # "LISTEN" => InTime(t0, h),
         FinCounted(t0) /\ h.kind = "ack" => End(h) <= t0.remoteSeq
  PROVE  Flow(HandleTCPSeg(t0, h)) /\ Echoing(HandleTCPSeg(t0, h))
<1> DEFINE t == [t0 EXCEPT !.keepalives = 0]
           r == HandleTCPSeg(t0, h)
<1>1. Good(t) /\ FinCounted(t) = FinCounted(t0) /\ t.remoteSeq = t0.remoteSeq /\ t.port = t0.port
      /\ t.sm = t0.sm /\ Flow(t) /\ Echoing(t)
  <2>1. DOMAIN t0 = SocketFields /\ Socket(t0)
    BY DEF Good, AtRest, Connected, Socket
  <2>2. /\ DOMAIN t = SocketFields /\ t.keepalives = 0 /\ t.synQueue = t0.synQueue
        /\ t.out = t0.out /\ t.port = t0.port
        /\ \A f \in SocketFields \ {"keepalives"} : t[f] = t0[f]
    BY <2>1 DEF SocketFields
  <2>3. Keepalives \in Nat
    BY TcpAssumption DEF TcpAssumption
  <2> HIDE DEF t
  <2>4. Queued(t) /\ t.port \in Int /\ t.keepalives \in 0 .. Keepalives
    BY <2>1, <2>2, <2>3 DEF Socket, Queued
  <2>5. \A f \in StreamFields : t[f] = t0[f]
    BY <2>2 DEF StreamFields, FlowFields, EchoFields, SocketFields
  <2>6. Flow(t) /\ Echoing(t)
    BY <2>5, SameStream
  <2> QED BY <2>2, <2>4, <2>6, SameSocket DEF Compared
<1> SUFFICES Flow(r) /\ Echoing(r)
  OBVIOUS
<1>2. CASE t.sm = "LISTEN"
  <2>1. r = ListenSegment(t, h)
    BY <1>2 DEF HandleTCPSeg
  <2>2. AtRest(t)
    BY <1>1, <1>2 DEF Good, Connected, Idle
  <2> HIDE DEF t
  <2> QED BY <1>1, <2>1, <2>2, ListenSegmentFlow
<1>3. ASSUME t.sm # "LISTEN" PROVE Flow(r) /\ Echoing(r)
  <2>1. /\ Connected(t) /\ StateSawFin(t) /\ Alive(t) /\ Socket(t)
        /\ DOMAIN t = SocketFields
    BY <1>1, <1>3 DEF Good, AtRest, Connected, Socket, Idle
  <2>2. CASE ~Acceptable(t, h)
    <3> DEFINE u == SendTCP(t, {"ack"}, "reset")
    <3>1. r \in {t, u}
      BY <1>3, <2>2 DEF HandleTCPSeg
    <3>2. Flow(u) /\ Echoing(u)
      <4> HIDE DEF t
      <4> QED BY <1>1, <2>1, SendTCPFlow DEF Around
    <3> HIDE DEF u, t
    <3> QED BY <1>1, <3>1, <3>2
  <2> DEFINE c == CloseSocket(t)
  <2>3. Flow(c) /\ Echoing(c)
    <3> HIDE DEF t
    <3>1. Begun(t)
      BY <2>1 DEF Connected, Begun
    <3> QED BY <1>1, <2>1, <3>1, CloseSocketFlow
  <2>4. CASE Acceptable(t, h) /\ h.kind \in {"rst", "syn"}
    <3>1. r = c
      BY <1>3, <2>4 DEF HandleTCPSeg
    <3> HIDE DEF c
    <3> QED BY <2>3, <3>1
  <2>5. CASE Acceptable(t, h) /\ h.kind = "ack" /\ t.sm = "SYN_RECEIVED" /\ h.ack # t.mySeq
    <3> DEFINE v == Refuse(t, h, "reset")
    <3>1. r = v
      BY <1>3, <2>5 DEF HandleTCPSeg
    <3> HIDE DEF t
    <3>2. Flow(v) /\ Echoing(v)
      BY <1>1, <2>1, RefuseFlow
    <3> HIDE DEF v
    <3> QED BY <3>1, <3>2
  <2>6. CASE Acceptable(t, h) /\ h.kind = "ack" /\ t.sm = "LAST_ACK"
    <3>1. r \in {t, c}
      BY <1>3, <2>6 DEF HandleTCPSeg
    <3> HIDE DEF t, c
    <3> QED BY <1>1, <2>3, <3>1
  <2>7. CASE /\ Acceptable(t, h) /\ h.kind = "ack" /\ t.sm # "LAST_ACK"
             /\ ~ (t.sm = "SYN_RECEIVED" /\ h.ack # t.mySeq)
    <3> DEFINE u == [t EXCEPT !.sm = IF @ = "SYN_RECEIVED" THEN "ESTABLISHED" ELSE @]
    <3>1. r = DataSegment(AckSegment(u, h), h)
      BY <1>3, <2>7 DEF HandleTCPSeg
    <3> HIDE DEF t
    <3>2. /\ DOMAIN u = SocketFields /\ u.port = t.port /\ u.remoteSeq = t.remoteSeq
          /\ u.rxTail = t.rxTail /\ u.rxHead = t.rxHead
          /\ u.sm = IF t.sm = "SYN_RECEIVED" THEN "ESTABLISHED" ELSE t.sm
          /\ \A f \in SocketFields \ {"sm"} : u[f] = t[f]
      BY <2>1 DEF SocketFields
    <3>3. Connected(u)
      BY <2>1 DEF Connected, Socket, SocketFields, TxOrder, RxOrder, RxFree, Counted, Queued,
                  States, Open, Idle
    <3>4. FinCounted(u) = FinCounted(t)
      BY <2>1, <3>2 DEF FinCounted, Idle
    <3>5. Waits(t) => Waits(u)
      BY <2>1 DEF Waits, SocketFields
    <3> HIDE DEF u
    <3>6. StateSawFin(u) /\ Alive(u)
      BY <2>1, <3>2, <3>4, <3>5 DEF StateSawFin, Alive
    <3>7. SegmentLength(h) > 0 => Fits(u, h)
      <4>1. Acceptable(u, h) /\ InTime(u, h) /\ u.port = h.port
        BY <1>1, <1>3, <2>7, <3>2
           DEF Acceptable, Ahead, MissingWord, RxFree, Missing, InTime
      <4> QED BY <2>7, <3>3, <4>1, InTimeFits
    <3>8. FinCounted(u) => End(h) <= u.remoteSeq
      BY <1>1, <2>7, <3>2, <3>4
    <3>9. Flow(u) /\ Echoing(u)
      BY <1>1, <2>1, <2>7, <3>2, OpenedFlow
    <3>10. u.sm \notin {"SYN_RECEIVED", "LAST_ACK"} /\ u.port = h.port
      BY <1>1, <2>7, <3>2
    <3>11. Flow(DataSegment(AckSegment(u, h), h)) /\ Echoing(DataSegment(AckSegment(u, h), h))
      BY <2>7, <3>3, <3>6, <3>7, <3>8, <3>9, <3>10, AckAndDataFlow
    <3> QED BY <3>1, <3>11
  <2> QED BY <2>2, <2>4, <2>5, <2>6, <2>7 DEF Arriving
<1> QED BY <1>2, <1>3

-----------------------------------------------------------------------------
(* TCPProcess and the stream. *)

\* The queue is of no matter but for its ports.
LEMMA QueueFlow ==
  ASSUME NEW t, Flow(t), Echoing(t), NEW r, Ports(r),
         \A f \in SocketFields \ {"synQueue"} : r[f] = t[f]
  PROVE  Flow(r) /\ Echoing(r)
<1>1. /\ r.sm = t.sm /\ r.port = t.port /\ r.iss = t.iss /\ r.txTail = t.txTail
      /\ r.txHead = t.txHead /\ r.txFifo = t.txFifo /\ r.txUnacked = t.txUnacked
      /\ r.out = t.out /\ r.synSent = t.synSent /\ r.timer = t.timer /\ r.txFin = t.txFin
      /\ \A f \in EchoFields : r[f] = t[f]
  BY DEF SocketFields, EchoFields
<1>2. Under(r) = Under(t) /\ (Joins(r) <=> Joins(t))
  BY <1>1 DEF Under, Joins
<1>3. OnTheWay(r) /\ FinEnds(r)
  BY <1>1, <1>2 DEF Flow, OnTheWay, Behind, FinEnds
<1>4. Joined(r) /\ Apart(r) /\ Early(r) /\ TxBytes(r) /\ Timed(r)
  BY <1>1, <1>2 DEF Flow, Joined, Apart, Early, TxBytes, Timed
<1>5. Flow(r)
  BY <1>1, <1>3, <1>4 DEF Flow
<1>6. Echoing(r)
  BY <1>1, SameEcho
<1> QED BY <1>5, <1>6

LEMMA QueueSynFlow ==
  ASSUME NEW t, Good(t), Flow(t), Echoing(t), NEW h, Heard(h)
  PROVE  Flow(QueueSyn(t, h)) /\ Echoing(QueueSyn(t, h))
<1> DEFINE r == QueueSyn(t, h)
           queue == Append(t.synQueue, [port |-> h.port, seq |-> h.seq])
<1>1. Socket(t) /\ DOMAIN t = SocketFields
  BY DEF Good, AtRest, Connected, Socket
<1>2. CASE r = t
  BY <1>2
<1>3. CASE r # t
  <2>1. r = [t EXCEPT !.synQueue = queue]
    BY <1>3 DEF QueueSyn
  <2>2. ~gone => \A i \in 1 .. Len(queue) : queue[i].port <= peer.port
    <3>1. t.synQueue \in Seq(Waiting)
      BY <1>1 DEF Socket, Queued
    <3>2. ~gone => h.port <= peer.port /\ \A i \in 1 .. Len(t.synQueue) : t.synQueue[i].port <= peer.port
      BY DEF Heard, Flow, Ports
    <3>3. Len(queue) = Len(t.synQueue) + 1 /\ queue[Len(queue)].port = h.port
      BY <3>1
    <3>4. \A i \in 1 .. Len(t.synQueue) : queue[i] = t.synQueue[i]
      BY <3>1
    <3>5. Len(t.synQueue) \in Nat
      BY <3>1
    <3> HIDE DEF queue
    <3> QED BY <3>2, <3>3, <3>4, <3>5
  <2> HIDE DEF r, queue
  <2>3. /\ DOMAIN r = SocketFields /\ r.synQueue = queue
        /\ \A f \in SocketFields \ {"synQueue"} : r[f] = t[f]
    BY <1>1, <2>1 DEF SocketFields
  <2>4. Ports(r)
    <3>1. r.port = t.port
      BY <2>3 DEF SocketFields
    <3> QED BY <2>2, <2>3, <3>1 DEF Flow, Ports
  <2>5. Flow(r) /\ Echoing(r)
    BY <2>3, <2>4, QueueFlow
  <2> QED BY <2>5 DEF r
<1> QED BY <1>2, <1>3

LEMMA TCPProcessFlow ==
  ASSUME Around, NEW t, Good(t), Flow(t), Echoing(t), NEW h, Arriving(h), Heard(h),
         InTime(t, h),
         FinCounted(t) /\ h.kind = "ack" /\ h.port = t.port => End(h) <= t.remoteSeq
  PROVE  Flow(TCPProcess(t, h)) /\ Echoing(TCPProcess(t, h))
<1>1. CASE ~Matches(t, h)
  BY <1>1, QueueSynFlow DEF TCPProcess
<1>2. CASE Matches(t, h)
  <2> DEFINE u == [t EXCEPT !.port = h.port]
             v == HandleTCPSeg(u, h)
             r == [v EXCEPT !.done = FALSE]
  <2>1. TCPProcess(t, h) = r
    BY <1>2 DEF TCPProcess
  <2>2. Socket(t) /\ DOMAIN t = SocketFields
    BY DEF Good, AtRest, Connected, Socket
  <2>3. /\ DOMAIN u = SocketFields /\ u.synQueue = t.synQueue /\ u.out = t.out
        /\ u.keepalives = t.keepalives /\ u.port = h.port /\ u.sm = t.sm
        /\ \A f \in SocketFields \ {"port"} : u[f] = t[f]
    BY <2>2 DEF SocketFields
  <2> HIDE DEF u
  <2>4. Queued(u) /\ u.port \in Int /\ u.keepalives \in 0 .. Keepalives
    BY <2>2, <2>3 DEF Socket, Queued, Counted, Arriving
  <2>5. /\ Good(u) /\ FinCounted(u) = FinCounted(t) /\ u.remoteSeq = t.remoteSeq
        /\ AtRest(t) => AtRest(u)
    BY <2>3, <2>4, SameSocket DEF Compared
  <2>6. u.sm # "CLOSED"
    BY <1>2, <2>3 DEF Matches
  <2>7. FinCounted(u) => t.port = h.port
    BY <1>2, <2>3, <2>5 DEF Matches, FinCounted, Idle
  <2>8. Flow(u) /\ Echoing(u)
    <3>1. CASE t.sm = "LISTEN"
      <4>1. AtRest(t)
        BY <3>1 DEF Good, Connected, Idle
      <4>2. /\ u.sm \in Idle
            /\ \A f \in SocketFields \ {"sm", "bServer", "port", "keepalives", "done"} : u[f] = t[f]
        BY <2>3, <3>1 DEF Idle
      <4>3. ~gone => u.port <= peer.port
        BY <2>3 DEF Heard
      <4> QED BY <4>1, <4>2, <4>3, PortFlow
    <3>2. CASE t.sm # "LISTEN"
      <4>1. u.port = t.port
        BY <1>2, <2>3, <3>2 DEF Matches
      <4>2. \A f \in StreamFields : u[f] = t[f]
        BY <2>3, <4>1 DEF StreamFields, FlowFields, EchoFields, SocketFields
      <4> QED BY <4>2, SameStream
    <3> QED BY <3>1, <3>2
  <2>13. u.sm # "LISTEN" => InTime(u, h)
    BY <1>2, <2>3, <2>5 DEF Matches, InTime
  <2>9. Flow(v) /\ Echoing(v)
    BY <2>3, <2>5, <2>6, <2>7, <2>8, <2>13, HandleTCPSegFlow
  <2>10. DOMAIN v = SocketFields
    <3>1. Outcome(v, u, h)
      BY <2>3, <2>5, <2>6, <2>7, <2>13, HandleTCPSegOutcome DEF Around
    <3> HIDE DEF v
    <3> QED BY <3>1 DEF Outcome, Good, AtRest, Connected, Socket
  <2> HIDE DEF v
  <2>11. \A f \in StreamFields : r[f] = v[f]
    BY <2>10 DEF StreamFields, FlowFields, EchoFields, SocketFields
  <2> HIDE DEF r
  <2>12. Flow(r) /\ Echoing(r)
    BY <2>9, <2>11, SameStream
  <2> QED BY <2>1, <2>12
<1> QED BY <1>1, <1>2

-----------------------------------------------------------------------------
(* TCPDisconnect and the stream. *)

\* Discarding what came is no matter for what is sent, and a socket at rest has
\* nothing to discard.
LEMMA DiscardedFlow ==
  ASSUME NEW t, Socket(t), Flow(t)
  PROVE  LET r == Discarded(t)
         IN /\ Flow(r) /\ (r.synSent <=> t.synSent)
            /\ AtRest(t) /\ Echoing(t) => Echoing(r) /\ r.txHead = 0
<1> DEFINE fifo == Cleared(t.rxFifo, RxRing, t.rxTail, t.rxHead)
           r == Discarded(t)
<1>1. r = [t EXCEPT !.rxTail = t.rxHead, !.rxFifo = fifo]
  BY DEF Discarded
<1> HIDE DEF r, fifo
<1>2. /\ r.rxTail = t.rxHead
      /\ \A f \in SocketFields \ {"rxTail", "rxFifo"} : r[f] = t[f]
  BY <1>1 DEF Socket, SocketFields
<1>3. /\ r.sm = t.sm /\ r.port = t.port /\ r.iss = t.iss /\ r.txTail = t.txTail
      /\ r.txHead = t.txHead /\ r.txFifo = t.txFifo /\ r.synQueue = t.synQueue /\ r.out = t.out
      /\ r.synSent = t.synSent /\ r.timer = t.timer /\ r.txUnacked = t.txUnacked
      /\ r.txFin = t.txFin /\ r.rxHead = t.rxHead /\ r.hole = t.hole /\ r.future = t.future
  BY <1>2 DEF SocketFields
<1>4. Flow(r)
  <2>1. Timed(r)
    BY <1>3 DEF Flow, Timed
  <2>2. \A f \in FlowFields : r[f] = t[f]
    BY <1>3 DEF FlowFields
  <2> QED BY <2>1, <2>2, SameFlow
<1>5. ASSUME AtRest(t), Echoing(t) PROVE Echoing(r) /\ r.txHead = 0
  <2>1. /\ t.txHead = 0 /\ t.rxHead = 0 /\ t.hole = -1 /\ ~t.txFin /\ t.sm \in Idle /\ ~t.synSent
        /\ \A m \in Under(t) : Start(m.seq) = t.iss => "fin" \notin m.flags
    BY <1>5, RestHasNoStream
  <2>2. Under(r) = Under(t)
    BY <1>3 DEF Under
  <2>3. ~Joins(r)
    BY <1>3, <2>1 DEF Joins
  <2>4. RxBytes(r)
    <3>1. Script \in Nat
      BY TcpAssumption DEF TcpAssumption
    <3>2. r.rxTail = 0 /\ r.rxHead = 0 /\ r.hole = -1
      BY <1>2, <1>3, <2>1
    <3> QED BY <3>1, <3>2, EmptyHolds DEF RxBytes
  <2> QED BY <1>2, <1>3, <2>1, <2>2, <2>3, <2>4 DEF Echoing
<1> QED BY <1>3, <1>4, <1>5 DEF r

\* Each of the segments of SendAllAndFin leaves the stream in order.
LEMMA SeriesFlow ==
  ASSUME PeerStands, NEW t, Connected(t), Flow(t), NEW n \in Nat, NEW f, Series(f, n, t),
         NEW i \in 0 .. n
  PROVE  Flow(f[i])
<1> DEFINE Bad == {j \in 0 .. n : ~ Flow(f[j])}
<1>1. \A j \in 0 .. n : f[j] = IF j = 0 THEN SendTCP(t, {"fin", "ack"}, "reset") ELSE SendMore(f[j - 1])
  BY DEF Series
<1>2. ASSUME NEW j \in 0 .. n, j # 0 => Flow(f[j - 1]) PROVE Flow(f[j])
  <2>1. CASE j = 0
    <3>1. f[j] = SendTCP(t, {"fin", "ack"}, "reset")
      BY <1>1, <2>1
    <3> QED BY <3>1, SendTCPFlow
  <2>2. CASE j # 0
    <3> DEFINE u == f[j - 1]
    <3>1. j - 1 \in 0 .. n
      BY <2>2
    <3>2. f[j] = SendMore(u) /\ Flow(u) /\ Connected(u)
      BY <1>1, <1>2, <2>2, <3>1, SeriesConnected
    <3> HIDE DEF u
    <3>3. Flow(SendTCP(u, {"fin", "ack"}, "reset"))
      BY <3>2, SendTCPFlow
    <3> QED BY <3>2, <3>3 DEF SendMore
  <2> QED BY <2>1, <2>2
<1>3. Bad = {}
  <2> SUFFICES ASSUME Bad # {} PROVE FALSE
    OBVIOUS
  <2>1. Bad \in SUBSET Nat
    OBVIOUS
  <2>2. PICK j \in Bad : \A k \in Bad : j <= k
    <3> HIDE DEF Bad
    <3> QED BY <2>1, LeastNumber
  <2>3. ASSUME j # 0 PROVE Flow(f[j - 1])
    <3>1. j - 1 \in 0 .. n /\ j - 1 \notin Bad
      BY <2>2, <2>3
    <3> QED BY <3>1
  <2> QED BY <1>2, <2>2, <2>3
<1> QED BY <1>3

LEMMA SendAllAndFinFlow ==
  ASSUME PeerStands, NEW t, Connected(t), Flow(t)
  PROVE  Flow(SendAllAndFin(t))
<1> DEFINE step == CHOOSE f : Series(f, TxRing, t)
<1>1. TxRing \in Nat
  BY TcpAssumption DEF TcpAssumption
<1>2. Series(step, TxRing, t)
  BY <1>1, SeriesExists
<1>3. SendAllAndFin(t) = step[TxRing]
  BY DEF SendAllAndFin, Series, SendMore
<1> HIDE DEF step
<1>4. TxRing \in 0 .. TxRing
  BY <1>1
<1> QED BY <1>1, <1>2, <1>3, <1>4, SeriesFlow

LEMMA TCPDisconnectFlow ==
  ASSUME Around, NEW t0, Good(t0), Flow(t0), Echoing(t0)
  PROVE  Flow(TCPDisconnect(t0)) /\ Echoing(TCPDisconnect(t0))
<1> DEFINE t == Discarded(t0)
           r == TCPDisconnect(t0)
<1>1. Socket(t0) /\ PeerStands
  BY DEF Good, AtRest, Connected, Around
<1>2. Socket(t) /\ t.sm = t0.sm
  BY <1>1, DiscardedTyped
<1>3. /\ Flow(t) /\ (t.synSent <=> t0.synSent)
      /\ AtRest(t0) => Echoing(t) /\ t.txHead = 0
  BY <1>1, DiscardedFlow
<1>4. CASE t.sm \in {"SYN_RECEIVED", "ESTABLISHED", "CLOSE_WAIT"}
  <2> DEFINE v == SendAllAndFin(t)
             sm == IF t.sm = "CLOSE_WAIT" THEN "LAST_ACK" ELSE "FIN_WAIT_1"
  <2>1. r = [v EXCEPT !.sm = sm]
    BY <1>4 DEF TCPDisconnect
  <2>2. Connected(t0)
    BY <1>2, <1>4 DEF Good, AtRest, Idle
  <2>3. Connected(t)
    BY <2>2, DiscardedReceived DEF Received
  <2> HIDE DEF t
  <2>4. Connected(v) /\ Flow(v)
    BY <1>1, <1>3, <2>3, SendAllAndFinConnected, SendAllAndFinFlow
  <2> HIDE DEF v
  <2>5. v.sm \notin Idle /\ DOMAIN v = SocketFields
    BY <2>4 DEF Connected, Socket
  <2>6. sm \in {"LAST_ACK", "FIN_WAIT_1"}
    OBVIOUS
  <2> HIDE DEF sm, r
  <2>7. /\ r.sm = sm /\ r.timer = v.timer
        /\ \A f \in (FlowFields \cup {"txUnacked"}) \ {"sm"} : r[f] = v[f]
    BY <2>1, <2>5 DEF SocketFields, FlowFields
  <2>8. Flow(r)
    BY <2>4, <2>5, <2>6, <2>7, StateFlow DEF Idle
  <2>9. Echoing(r)
    BY <2>6, <2>7, FinishedEchoes DEF Unfinished, Idle
  <2> QED BY <2>8, <2>9 DEF r
<1>5. CASE t.sm \notin {"SYN_RECEIVED", "ESTABLISHED", "CLOSE_WAIT"}
  <2> DEFINE v == SendTCP(t, {"rst", "ack"}, "none")
  <2>1. r = CloseSocket(v)
    BY <1>5 DEF TCPDisconnect
  <2> HIDE DEF t, r
  <2>2. /\ Socket(v) /\ Flow(v) /\ Kept(v, t) /\ (v.synSent <=> t.synSent)
        /\ Echoing(t) => Echoing(v)
    BY <1>2, <1>3, RstFlow
  <2> HIDE DEF v
  <2>3. Begun(v)
    <3>1. CASE AtRest(t0)
      <4>1. v.sm \in Idle /\ v.txHead = 0 /\ Echoing(v)
        BY <1>2, <1>3, <2>2, <3>1 DEF AtRest, Kept
      <4> QED BY <4>1 DEF Begun
    <3>2. CASE Connected(t0)
      BY <1>3, <2>2, <3>2 DEF Begun, Connected
    <3> QED BY <3>1, <3>2 DEF Good
  <2>4. Flow(CloseSocket(v)) /\ Echoing(CloseSocket(v))
    BY <2>2, <2>3, CloseSocketFlow
  <2> QED BY <2>1, <2>4 DEF r
<1> QED BY <1>4, <1>5

\* A FIN of its own accord, from a state that goes on.
LEMMA LeavingFirstFlow ==
  ASSUME PeerStands, NEW t, Connected(t), Flow(t), NEW mode, mode # "probe",
         NEW sm \in {"FIN_WAIT_1", "LAST_ACK"}
  PROVE  LET r == SendTCP([t EXCEPT !.sm = sm], {"fin", "ack"}, mode)
         IN Flow(r) /\ Echoing(r)
<1> DEFINE u == [t EXCEPT !.sm = sm]
           r == SendTCP(u, {"fin", "ack"}, mode)
<1>1. Connected(u) /\ u.sm = sm
  BY DEF Connected, Socket, SocketFields, TxOrder, RxOrder, RxFree, Counted, Queued,
         States, Leaving, Idle
<1>2. /\ u.timer = t.timer
      /\ \A f \in (FlowFields \cup {"txUnacked"}) \ {"sm"} : u[f] = t[f]
  BY DEF Connected, Socket, SocketFields, FlowFields
<1> HIDE DEF u
<1>3. Flow(u)
  BY <1>1, <1>2, StateFlow DEF Connected, Idle
<1>4. Flow(r) /\ Kept(r, u)
  BY <1>1, <1>3, SendTCPFlow, SendTCPMoves DEF Connected
<1> HIDE DEF r
<1>5. Echoing(r)
  BY <1>1, <1>4, FinishedEchoes DEF Kept, Unfinished, Idle
<1> QED BY <1>4, <1>5 DEF r, u

-----------------------------------------------------------------------------
(* TCPTick and the stream. *)

\* An acknowledgment of a socket of either kind.
LEMMA AcknowledgeFlow ==
  ASSUME PeerStands, NEW t, Good(t), Flow(t), Echoing(t), NEW mode, mode # "probe"
  PROVE  LET r == SendTCP(t, {"ack"}, mode) IN Flow(r) /\ Echoing(r)
<1>1. CASE AtRest(t)
  BY <1>1, RestFlow
<1>2. CASE Connected(t)
  BY <1>2, SendTCPFlow
<1> QED BY <1>1, <1>2 DEF Good

LEMMA TickSendFlow ==
  ASSUME PeerStands, NEW t, Good(t), Flow(t), Echoing(t), NEW due
  PROVE  Flow(TickSend(t, due)) /\ Echoing(TickSend(t, due))
<1> DEFINE mode == IF t.asapKeepTimer THEN "none" ELSE "reset"
           r == TickSend(t, due)
<1>0. Socket(t) /\ mode # "probe" /\ DOMAIN t = SocketFields
  BY DEF Good, AtRest, Connected, Socket
<1>1. CASE t.sm = "CLOSE_WAIT" /\ "closeWaitTime" \in due
  <2>1. r = SendTCP([t EXCEPT !.sm = "LAST_ACK"], {"fin", "ack"}, mode)
    BY <1>1 DEF TickSend
  <2>2. Connected(t)
    BY <1>1 DEF Good, AtRest, Idle
  <2> HIDE DEF mode
  <2> QED BY <1>0, <2>1, <2>2, LeavingFirstFlow
<1>2. CASE t.sm = "LISTEN" /\ t.synQueue # <<>>
  <2> DEFINE u == [t EXCEPT !.sm = "SYN_RECEIVED", !.port = Head(t.synQueue).port,
                            !.remoteSeq = Head(t.synQueue).seq + 1,
                            !.synQueue = Tail(@)]
             v == SendTCP(u, {"syn", "ack"}, mode)
  <2>1. r = v
    BY <1>2 DEF TickSend
  <2>2. /\ t.synQueue \in Seq(Waiting) /\ Len(t.synQueue) <= SynQueueSize /\ SynQueueSize \in Nat
    BY <1>0, TcpAssumption DEF Socket, Queued, TcpAssumption
  <2>3. /\ Head(t.synQueue) = t.synQueue[1] /\ t.synQueue[1] \in Waiting
        /\ Tail(t.synQueue) \in Seq(Waiting)
        /\ Len(t.synQueue) >= 1 /\ Len(Tail(t.synQueue)) = Len(t.synQueue) - 1
        /\ \A i \in 1 .. Len(Tail(t.synQueue)) : Tail(t.synQueue)[i] = t.synQueue[i + 1]
    BY <1>2, <2>2, HeadTailProperties
  <2>4. Head(t.synQueue).port \in Int /\ Head(t.synQueue).seq + 1 = 1
    BY <2>3 DEF Waiting
  <2>5. /\ u.sm = "SYN_RECEIVED" /\ u.port = Head(t.synQueue).port /\ u.synQueue = Tail(t.synQueue)
    BY <1>0 DEF SocketFields
  <2>6. /\ DOMAIN u = SocketFields /\ u.remoteSeq = 1
        /\ \A f \in SocketFields \ {"sm", "port", "remoteSeq", "synQueue"} : u[f] = t[f]
    BY <1>0, <2>4 DEF SocketFields
  <2> HIDE DEF mode
  <2>7. Socket(u)
    BY <1>0, <2>2, <2>3, <2>4, SMTT(30)
    DEF Socket, SocketFields, TxOrder, RxOrder, RxFree, Counted, Queued, States
  <2>8. AtRest(t)
    BY <1>2 DEF Good, Connected, Idle
  <2>9. u.sm \in States /\ u.port \in Int /\ u.synQueue \in Seq(Waiting)
        /\ Len(u.synQueue) <= SynQueueSize
    BY <2>2, <2>3, <2>4, <2>5 DEF States
  <2> HIDE DEF u
  <2>10. Ports(u)
    <3> SUFFICES ASSUME ~gone
                 PROVE  /\ u.port <= peer.port
                        /\ \A i \in 1 .. Len(u.synQueue) : u.synQueue[i].port <= peer.port
      BY DEF Ports
    <3>1. \A i \in 1 .. Len(t.synQueue) : t.synQueue[i].port <= peer.port
      BY DEF Flow, Ports
    <3>2. Len(t.synQueue) \in Nat
      BY <2>2
    <3>3. u.port <= peer.port
      BY <2>3, <2>5, <3>1, <3>2
    <3>4. ASSUME NEW i \in 1 .. Len(u.synQueue) PROVE u.synQueue[i].port <= peer.port
      <4>1. i + 1 \in 1 .. Len(t.synQueue) /\ u.synQueue[i] = t.synQueue[i + 1]
        BY <2>3, <2>5, <3>2, <3>4
      <4> QED BY <3>1, <4>1
    <3> QED BY <3>3, <3>4
  <2>11. DOMAIN v = SocketFields /\ v.sm = "SYN_RECEIVED"
    BY <2>5, <2>7, SendTCPMoves DEF Kept
  <2>12. \A f \in SocketFields \ {"sm"} : v[f] = SendTCP(u, {"syn", "ack"}, mode)[f]
    OBVIOUS
  <2> HIDE DEF v
  <2>13. Flow(v) /\ Echoing(v)
    BY <1>0, <2>6, <2>8, <2>9, <2>10, <2>11, <2>12, SynFlow
  <2> QED BY <2>1, <2>13
<1>3. CASE ~ (t.sm = "CLOSE_WAIT" /\ "closeWaitTime" \in due) /\ ~ (t.sm = "LISTEN" /\ t.synQueue # <<>>)
  <2>1. r \in {t, SendTCP(t, {"ack"}, mode)}
    BY <1>3 DEF TickSend
  <2> HIDE DEF mode, r
  <2>2. Flow(SendTCP(t, {"ack"}, mode)) /\ Echoing(SendTCP(t, {"ack"}, mode))
    BY <1>0, AcknowledgeFlow
  <2>3. Flow(r) /\ Echoing(r)
    BY <2>1, <2>2
  <2> QED BY <2>3 DEF r
<1> QED BY <1>1, <1>2, <1>3

\* A retransmission repeats what the stream has at its place.
LEMMA RepeatFlow ==
  ASSUME PeerStands, NEW t, Connected(t), Alive(t), Flow(t), Echoing(t), t.retries < MostRetries,
         NEW flags, "rst" \notin flags, "syn" \in flags => t.sm = "SYN_RECEIVED",
         "fin" \in flags => ~Unfinished(t)
  PROVE  Flow(Repeat(t, flags)) /\ Echoing(Repeat(t, flags))
<1> DEFINE x == [RollBack(t) EXCEPT !.retries = @ + 1,
                                    !.window = (@ + (t.txUnacked - t.txTail)) % Word]
           r == SendTCP(x, flags, "none")
<1>1. Repeat(t, flags) = r
  BY DEF Repeat
<1>2. /\ Connected(x) /\ TxOnly(x, t) /\ x.txHead = t.txHead
      /\ \A f \in SocketFields \ {"retries", "window"} : x[f] = RollBack(t)[f]
  BY RolledBack
<1>3. Flow(RollBack(t)) /\ Echoing(RollBack(t))
  BY RollBackFlow DEF Connected
<1> HIDE DEF x
<1>4. Flow(x) /\ Echoing(x)
  <2>1. \A f \in StreamFields : x[f] = RollBack(t)[f]
    BY <1>2 DEF StreamFields, FlowFields, EchoFields, SocketFields
  <2> QED BY <1>3, <2>1, SameStream
<1>5. "syn" \in flags => x.txHead = 0
  BY <1>2 DEF Alive
<1>6. Flow(r) /\ ("fin" \notin flags => Echoing(r)) /\ Kept(r, x)
  BY <1>2, <1>4, <1>5, SendTCPFlow, SendTCPMoves DEF Connected
<1> HIDE DEF r
<1>7. ASSUME "fin" \in flags PROVE Echoing(r)
  <2>1. ~Unfinished(r)
    BY <1>2, <1>6, <1>7 DEF TxOnly, Kept, Unfinished
  <2> QED BY <2>1, FinishedEchoes
<1> QED BY <1>1, <1>6, <1>7

LEMMA GiveUpFlow ==
  ASSUME Around, NEW t, Connected(t), Flow(t)
  PROVE  Flow(GiveUp(t)) /\ Echoing(GiveUp(t))
<1> DEFINE v == SendTCP(t, {"rst", "ack"}, "reset")
<1>1. /\ Flow(v) /\ Socket(v) /\ (v.synSent <=> t.synSent)
  BY RstFlow DEF Connected
<1> HIDE DEF v
<1>2. Begun(v)
  BY <1>1 DEF Begun, Connected
<1>3. Flow(CloseSocket(v)) /\ Echoing(CloseSocket(v))
  BY <1>1, <1>2, CloseSocketFlow
<1> QED BY <1>3 DEF GiveUp, v

LEMMA TickTimerFlow ==
  ASSUME Around, NEW t, Good(t), Flow(t), Echoing(t)
  PROVE  Flow(TickTimer(t)) /\ Echoing(TickTimer(t))
<1>1. Socket(t) /\ PeerStands
  BY DEF Good, AtRest, Connected, Around
<1>2. CASE t.sm \in Idle
  <2>1. TickTimer(t) = t
    BY <1>2 DEF TickTimer, Idle, Open
  <2> QED BY <2>1
<1>3. CASE t.sm \notin Idle
  <2>1. Connected(t) /\ StateSawFin(t) /\ Alive(t)
    BY <1>3 DEF Good, AtRest
  <2>2. /\ t.retries < MaxRetries => t.retries < MostRetries
        /\ t.retries < SynRetries => t.retries < MostRetries
    <3>1. {MaxRetries, SynRetries} \subseteq Nat /\ t.retries \in Int
      BY <1>1, TcpAssumption DEF TcpAssumption, Socket, Counted
    <3> QED BY <3>1 DEF MostRetries, Greater
  <2>3. Flow(GiveUp(t)) /\ Echoing(GiveUp(t))
    BY <2>1, GiveUpFlow
  <2>4. CASE t.sm = "SYN_RECEIVED"
    <3>1. t.retries < SynRetries
            => Flow(Repeat(t, {"syn", "ack"})) /\ Echoing(Repeat(t, {"syn", "ack"}))
      BY <1>1, <2>1, <2>2, <2>4, RepeatFlow
    <3>2. Flow(SendTCP(t, {"syn"}, "reset")) /\ Echoing(SendTCP(t, {"syn"}, "reset"))
      <4>1. t.txHead = 0
        BY <2>1, <2>4 DEF Alive
      <4> QED BY <1>1, <2>1, <4>1, SendTCPFlow
    <3>3. TickTimer(t) = IF t.retries < SynRetries THEN Repeat(t, {"syn", "ack"})
                         ELSE IF t.bServer THEN GiveUp(t) ELSE SendTCP(t, {"syn"}, "reset")
      BY <2>4 DEF TickTimer, Open
    <3> QED BY <2>3, <3>1, <3>2, <3>3
  <2>5. CASE t.sm \in Open
    <3>1. t.retries < MaxRetries => Flow(Repeat(t, {"ack"})) /\ Echoing(Repeat(t, {"ack"}))
      BY <1>1, <2>1, <2>2, RepeatFlow
    <3>2. LET r == SendTCP([t EXCEPT !.sm = "FIN_WAIT_1"], {"fin", "ack"}, "reset")
          IN Flow(r) /\ Echoing(r)
      BY <1>1, <2>1, LeavingFirstFlow
    <3>3. TickTimer(t) = IF t.retries < MaxRetries THEN Repeat(t, {"ack"})
                         ELSE SendTCP([t EXCEPT !.sm = "FIN_WAIT_1"], {"fin", "ack"}, "reset")
      BY <2>5 DEF TickTimer, Open
    <3> QED BY <3>1, <3>2, <3>3
  <2>6. CASE t.sm \in {"FIN_WAIT_1", "LAST_ACK"}
    <3>1. ~Unfinished(t)
      BY <2>6 DEF Unfinished, Idle
    <3>2. t.retries < MaxRetries
            => Flow(Repeat(t, {"fin", "ack"})) /\ Echoing(Repeat(t, {"fin", "ack"}))
      BY <1>1, <2>1, <2>2, <3>1, RepeatFlow
    <3>3. TickTimer(t) = IF t.retries < MaxRetries THEN Repeat(t, {"fin", "ack"}) ELSE GiveUp(t)
      BY <2>6 DEF TickTimer, Open
    <3> QED BY <2>3, <3>2, <3>3
  <2>7. CASE t.sm = "CLOSING"
    <3>1. t.retries < MaxRetries => Flow(Repeat(t, {"ack"})) /\ Echoing(Repeat(t, {"ack"}))
      BY <1>1, <2>1, <2>2, RepeatFlow
    <3>2. TickTimer(t) = IF t.retries < MaxRetries THEN Repeat(t, {"ack"}) ELSE GiveUp(t)
      BY <2>7 DEF TickTimer, Open
    <3> QED BY <2>3, <3>1, <3>2
  <2>8. CASE t.sm = "FIN_WAIT_2"
    <3>1. TickTimer(t) = GiveUp(t)
      BY <2>8 DEF TickTimer, Open
    <3> QED BY <2>3, <3>1
  <2> QED BY <1>1, <1>3, <2>4, <2>5, <2>6, <2>7, <2>8 DEF Socket, States, Idle, Leaving
<1> QED BY <1>2, <1>3

\* The probe goes out when everything that was sent is acknowledged.
LEMMA TickKeepaliveFlow ==
  ASSUME Around, NEW t, Good(t), Flow(t), Echoing(t), ~t.timer
  PROVE  Flow(TickKeepalive(t)) /\ Echoing(TickKeepalive(t))
<1>1. Flow(TCPDisconnect(TCPDisconnect(t))) /\ Echoing(TCPDisconnect(TCPDisconnect(t)))
  <2> DEFINE u == TCPDisconnect(t)
  <2>1. Flow(u) /\ Echoing(u) /\ Good(u)
    BY TCPDisconnectFlow, TCPDisconnectStayed DEF Around, Stayed
  <2> HIDE DEF u
  <2>2. Flow(TCPDisconnect(u)) /\ Echoing(TCPDisconnect(u))
    BY <2>1, TCPDisconnectFlow
  <2> QED BY <2>2 DEF u
<1>2. t.sm = "ESTABLISHED" => Flow(SendTCP(t, {"ack"}, "probe")) /\ Echoing(SendTCP(t, {"ack"}, "probe"))
  <2> SUFFICES ASSUME t.sm = "ESTABLISHED"
               PROVE  Flow(SendTCP(t, {"ack"}, "probe")) /\ Echoing(SendTCP(t, {"ack"}, "probe"))
    OBVIOUS
  <2>1. Connected(t) /\ PeerStands
    BY DEF Good, AtRest, Idle, Around
  <2> QED BY <2>1, SendTCPFlow
<1> QED BY <1>1, <1>2 DEF TickKeepalive

LEMMA TickSocketFlow ==
  ASSUME Around, NEW t, Good(t), Flow(t), Echoing(t), NEW due
  PROVE  Flow(TickSocket(t, due)) /\ Echoing(TickSocket(t, due))
<1> DEFINE u == TickSend(t, due)
<1>1. Flow(u) /\ Echoing(u) /\ Good(u)
  BY TickSendFlow, TickSendStayed DEF Around, Stayed
<1>2. \/ TickSocket(t, due) = u
      \/ TickSocket(t, due) = TickTimer(u)
      \/ ~u.timer /\ TickSocket(t, due) = TickKeepalive(u)
  BY DEF TickSocket
<1> HIDE DEF u
<1> QED BY <1>1, <1>2, TickTimerFlow, TickKeepaliveFlow

LEMMA TCPTickFlow ==
  ASSUME Around, NEW t, Good(t), Flow(t), Echoing(t), NEW due
  PROVE  Flow(TCPTick(t, due)) /\ Echoing(TCPTick(t, due))
<1> DEFINE u == TickSocket(t, due)
           queue == IF "synQueue" \in due /\ u.synQueue # <<>> THEN Tail(u.synQueue) ELSE u.synQueue
           v == [u EXCEPT !.synQueue = queue]
           r == [u EXCEPT !.done = FALSE, !.synQueue = queue]
<1>1. Flow(u) /\ Echoing(u) /\ Good(u)
  BY TickSocketFlow, TickSocketStayed DEF Around, Stayed
<1>2. TCPTick(t, due) = r
  BY DEF TCPTick
<1> HIDE DEF u
<1>3. u.synQueue \in Seq(Waiting) /\ DOMAIN u = SocketFields
  BY <1>1 DEF Good, AtRest, Connected, Socket, Queued
<1>4. ~gone => \A i \in 1 .. Len(queue) : queue[i].port <= peer.port
  <2> SUFFICES ASSUME ~gone, NEW i \in 1 .. Len(queue) PROVE queue[i].port <= peer.port
    OBVIOUS
  <2>1. \A j \in 1 .. Len(u.synQueue) : u.synQueue[j].port <= peer.port
    BY <1>1 DEF Flow, Ports
  <2>2. CASE queue = u.synQueue
    BY <2>1, <2>2
  <2>3. CASE queue # u.synQueue
    <3>1. queue = Tail(u.synQueue) /\ u.synQueue # <<>>
      BY <2>3
    <3> HIDE DEF queue
    <3>2. /\ Len(u.synQueue) \in Nat /\ Len(queue) = Len(u.synQueue) - 1
          /\ \A j \in 1 .. Len(queue) : queue[j] = u.synQueue[j + 1]
      BY <1>3, <3>1, HeadTailProperties
    <3>3. i + 1 \in 1 .. Len(u.synQueue) /\ queue[i] = u.synQueue[i + 1]
      BY <3>2
    <3> QED BY <2>1, <3>3
  <2> QED BY <2>2, <2>3
<1> HIDE DEF queue
<1>5. /\ v.synQueue = queue /\ DOMAIN v = SocketFields
      /\ \A f \in SocketFields \ {"synQueue"} : v[f] = u[f]
      /\ \A f \in SocketFields \ {"done"} : r[f] = v[f]
  BY <1>3 DEF SocketFields
<1> HIDE DEF v, r
<1>6. Ports(v)
  <2>1. v.port = u.port
    BY <1>5 DEF SocketFields
  <2> QED BY <1>1, <1>4, <1>5, <2>1 DEF Flow, Ports
<1>7. Flow(v) /\ Echoing(v)
  BY <1>1, <1>5, <1>6, QueueFlow
<1>8. \A f \in StreamFields : r[f] = v[f]
  BY <1>5 DEF StreamFields, FlowFields, EchoFields, SocketFields
<1> QED BY <1>2, <1>7, <1>8, SameStream

-----------------------------------------------------------------------------
(* The calls of the application and the stream. *)

LEMMA TCPOpenFlow ==
  ASSUME NEW t, Good(t), t.sm = "CLOSED", Flow(t), Echoing(t)
  PROVE  Flow(TCPOpen(t)) /\ Echoing(TCPOpen(t))
<1> DEFINE r == TCPOpen(t)
<1>1. AtRest(t)
  BY DEF Good, Connected, Idle
<1>2. /\ r.sm \in Idle /\ r.port = t.port
      /\ \A f \in SocketFields \ {"sm", "bServer", "port", "keepalives", "done"} : r[f] = t[f]
  BY <1>1 DEF TCPOpen, AtRest, Socket, SocketFields, Idle
<1> HIDE DEF r
<1>3. ~gone => r.port <= peer.port
  BY <1>2 DEF Flow, Ports
<1> QED BY <1>1, <1>2, <1>3, PortFlow DEF r

\* Between reading n bytes and writing them.
Owing(t, n) ==
  /\ t.sm = "ESTABLISHED" /\ ~t.txFin
  /\ \A m \in Under(t) : Start(m.seq) = t.iss => "fin" \notin m.flags
  /\ Joins(t) => ~peer.finRcvd
  /\ t.txHead + n = t.rxTail /\ RxBytes(t)

LEMMA OwingEchoes ==
  ASSUME NEW t, t.sm = "ESTABLISHED", t.txHead \in Int
  PROVE  Echoing(t) <=> Owing(t, 0)
<1>1. t.txHead + 0 = t.txHead
  OBVIOUS
<1> QED BY <1>1 DEF Echoing, Owing, Unfinished, Idle

\* A flush sends what is in the FIFO.
LEMMA FlushOwing ==
  ASSUME PeerStands, NEW t, Connected(t), Flow(t), NEW n, Owing(t, n)
  PROVE  LET r == TCPFlush(t)
         IN /\ Connected(r) /\ Flow(r) /\ Owing(r, n) /\ r.port = t.port
            /\ r.txHead = t.txHead /\ r.txTail = t.txTail
<1> DEFINE r == SendTCP(t, {"ack"}, "reset")
<1>1. PICK m, len : Transmits(r, t, {"ack"}, "reset", m, len)
  BY SendTCPTransmits DEF Connected
<1>2. Connected(r) /\ Flow(r)
  BY SendTCPConnected, SendTCPFlow
<1> HIDE DEF r
<1>3. /\ r.out = t.out \cup {m} /\ Kept(r, t) /\ r.rxFifo = t.rxFifo
      /\ (r.txFin <=> t.txFin) /\ ("fin" \in m.flags => t.txFin)
  BY <1>1 DEF Transmits
<1>4. Joins(r) => Joins(t)
  BY <1>3 DEF Joins, Connected, Kept
<1>5. Owing(r, n)
  <2>1. \A k \in Under(r) : k \in Under(t) \/ "fin" \notin k.flags
    BY <1>3 DEF Under, Owing
  <2>2. RxBytes(r)
    BY <1>3 DEF Owing, RxBytes, Kept
  <2> QED BY <1>3, <1>4, <2>1, <2>2 DEF Owing, Kept
<1>6. TCPFlush(t) \in {t, r}
  BY DEF TCPFlush, r
<1> QED BY <1>2, <1>3, <1>5, <1>6 DEF Kept

\* Reading leaves a debt of what was read.
LEMMA TCPGetArrayFlow ==
  ASSUME NEW t, Connected(t), t.sm = "ESTABLISHED", Flow(t), Echoing(t),
         NEW n \in Nat, n <= IsGetReady(t)
  PROVE  LET r == TCPGetArray(t, n)
         IN Flow(r) /\ Owing(r, n) /\ r.port = t.port
<1> DEFINE to == t.rxTail + n
           fifo == Cleared(t.rxFifo, RxRing, t.rxTail, to)
           u == [t EXCEPT !.rxTail = to, !.rxFifo = fifo]
           r == TCPGetArray(t, n)
<1>1. r \in {[u EXCEPT !.asapKeepTimer = TRUE], [u EXCEPT !.timer2 = TRUE]}
  BY DEF TCPGetArray
<1>2. /\ t.rxTail \in Nat /\ t.rxHead \in Nat /\ to \in Nat /\ to >= t.rxTail /\ to <= t.rxHead
      /\ t.rxHead <= t.rxTail + RxRing - 1 /\ RxRing \in Nat \ {0} /\ t.txHead \in Nat
      /\ to = t.rxTail + n
      /\ t.hole # -1 => /\ t.hole \in Nat /\ t.future \in Nat
                        /\ t.rxHead + t.hole + t.future <= t.rxTail + RxRing - 1
  BY TcpAssumption DEF TcpAssumption, Connected, Socket, RxOrder, TxOrder, RxFree, IsGetReady
<1> HIDE DEF to
<1>3. /\ r.rxTail = to /\ r.rxFifo = fifo
      /\ \A f \in SocketFields \ {"rxTail", "rxFifo", "asapKeepTimer", "timer2"} : r[f] = t[f]
  BY ZenonT(60), <1>1 DEF Connected, Socket, SocketFields
<1> HIDE DEF r, u
<1>4. /\ r.sm = t.sm /\ r.port = t.port /\ r.iss = t.iss /\ r.synSent = t.synSent /\ r.out = t.out
      /\ r.txTail = t.txTail /\ r.txUnacked = t.txUnacked /\ r.txHead = t.txHead
      /\ r.rxHead = t.rxHead /\ r.hole = t.hole /\ r.future = t.future
      /\ r.timer = t.timer /\ r.txFin = t.txFin
  BY <1>3 DEF SocketFields
<1>5. Flow(r)
  <2>1. Timed(r)
    BY <1>4 DEF Flow, Timed
  <2>2. \A f \in FlowFields : r[f] = t[f]
    BY <1>3 DEF FlowFields, SocketFields
  <2> QED BY <2>1, <2>2, SameFlow
<1>6. Owing(t, 0)
  BY <1>2, OwingEchoes
<1>7. RxBytes(r)
  <2>1. ASSUME NEW p \in Int, to <= p, p < t.rxTail + RxRing,
               t.rxFifo[p % RxRing] = Byte(t.port, p + 1)
        PROVE  fifo[p % RxRing] = Byte(t.port, p + 1)
    <3>1. /\ to - 1 < p + RxRing /\ p < t.rxTail + RxRing /\ (p < t.rxTail \/ p >= to)
          /\ t.rxTail \in Int /\ to \in Int /\ p \in Int /\ RxRing \in Nat \ {0}
      BY <1>2, <2>1
    <3> HIDE DEF fifo
    <3>2. Cleared(t.rxFifo, RxRing, t.rxTail, to)[p % RxRing] = t.rxFifo[p % RxRing]
      BY <3>1, ClearedOutside
    <3> QED BY <2>1, <3>2 DEF fifo
  <2> HIDE DEF fifo
  <2>2. Holds(fifo, RxRing, to, t.rxHead, t.port)
    <3>1. \A p \in to .. t.rxHead - 1 :
            p \in t.rxTail .. t.rxHead - 1 /\ p \in Int /\ to <= p /\ p < t.rxTail + RxRing
      BY <1>2
    <3> QED BY <1>6, <2>1, <3>1 DEF Owing, RxBytes, Holds
  <2>3. ASSUME t.hole # -1
        PROVE  Holds(fifo, RxRing, t.rxHead + t.hole, t.rxHead + t.hole + t.future, t.port)
    <3>1. PICK a \in Int : a = t.rxHead + t.hole
      BY <1>2, <2>3
    <3>2. PICK b \in Int : b = t.rxHead + t.hole + t.future
      BY <1>2, <2>3
    <3>3. Holds(t.rxFifo, RxRing, a, b, t.port)
      BY <1>6, <2>3, <3>1, <3>2 DEF Owing, RxBytes
    <3>4. \A p \in a .. b - 1 : p \in Int /\ to <= p /\ p < t.rxTail + RxRing
      BY <1>2, <2>3, <3>1, <3>2
    <3>5. Holds(fifo, RxRing, a, b, t.port)
      BY <2>1, <3>3, <3>4 DEF Holds
    <3> QED BY <3>1, <3>2, <3>5
  <2> QED BY <1>3, <1>4, <1>6, <2>2, <2>3 DEF Owing, RxBytes
<1>8. Owing(r, n)
  <2>1. r.txHead + n = r.rxTail
    BY <1>2, <1>3, <1>4, <1>6 DEF Owing
  <2>2. Under(r) = Under(t) /\ (Joins(r) => Joins(t))
    BY <1>4 DEF Under, Joins
  <2> QED BY <1>4, <1>6, <1>7, <2>1, <2>2 DEF Owing
<1> QED BY <1>4, <1>5, <1>8 DEF r

\* The bytes that are owed go behind the others.
LEMMA AddedFlow ==
  ASSUME Around, NEW t, Connected(t), Flow(t), NEW n \in Nat, Owing(t, n), n <= IsPutReady(t),
         NEW bytes, Carries(bytes, t.txHead, n, t.port)
  PROVE  LET r == [t EXCEPT !.txFifo = Written(@, TxRing, t.txHead, bytes),
                            !.txHead = @ + Len(bytes)]
         IN Connected(r) /\ Flow(r) /\ Owing(r, 0)
<1> DEFINE fifo == Written(t.txFifo, TxRing, t.txHead, bytes)
           head == t.txHead + n
           r == [t EXCEPT !.txFifo = fifo, !.txHead = head]
<1>1. Len(bytes) = n
  BY DEF Carries
<1>2. /\ t.txTail \in Nat /\ t.txHead \in Nat /\ t.txUnacked \in Nat /\ TxRing \in Nat \ {0}
      /\ t.txTail <= t.txUnacked /\ t.txUnacked <= t.txHead
      /\ head \in Nat /\ head = t.txHead + n /\ head <= t.txTail + TxRing - 1
      /\ t.sm = "ESTABLISHED" /\ DOMAIN t = SocketFields
  BY TcpAssumption DEF TcpAssumption, Owing, IsPutReady, Open, Connected, Socket, TxOrder
<1>3. [t EXCEPT !.txFifo = Written(@, TxRing, t.txHead, bytes), !.txHead = @ + Len(bytes)] = r
  BY <1>1
<1> HIDE DEF fifo, head
<1>4. /\ DOMAIN r = SocketFields /\ r.txFifo = fifo /\ r.txHead = head
      /\ \A f \in SocketFields \ {"txFifo", "txHead"} : r[f] = t[f]
  BY <1>2 DEF SocketFields
<1> HIDE DEF r
<1>5. /\ r.sm = t.sm /\ r.port = t.port /\ r.iss = t.iss /\ r.mySeq = t.mySeq
      /\ r.remoteSeq = t.remoteSeq /\ r.synSent = t.synSent
      /\ r.txTail = t.txTail /\ r.txUnacked = t.txUnacked
      /\ r.rxTail = t.rxTail /\ r.rxHead = t.rxHead /\ r.hole = t.hole /\ r.future = t.future
      /\ r.window = t.window /\ r.noneAcked = t.noneAcked /\ r.retries = t.retries
      /\ r.keepalives = t.keepalives /\ r.synQueue = t.synQueue /\ r.out = t.out
      /\ r.timer = t.timer /\ r.txFin = t.txFin /\ r.rxFifo = t.rxFifo
  BY <1>4 DEF SocketFields
<1>6. Connected(r)
  <2>1. TxOrder(r)
    BY <1>2, <1>4, <1>5 DEF TxOrder
  <2>2. RxOrder(r) /\ Counted(r) /\ Queued(r)
    BY <1>5 DEF Connected, Socket, RxOrder, RxFree, Counted, Queued
  <2> QED BY <1>4, <1>5, <2>1, <2>2 DEF Connected, Socket
<1>7. Under(r) = Under(t) /\ (Joins(r) <=> Joins(t))
  BY <1>5 DEF Under, Joins
<1>8. Owing(r, 0)
  <2>1. RxBytes(r)
    BY <1>5 DEF Owing, RxBytes
  <2>2. r.txHead + 0 = r.rxTail
    BY <1>2, <1>4, <1>5 DEF Owing
  <2> QED BY <1>5, <1>7, <2>1, <2>2 DEF Owing
<1>9. OnTheWay(r) /\ FinEnds(r)
  <2>1. FinEnds(r)
    BY <1>7 DEF Flow, FinEnds
  <2>2. ASSUME NEW m \in Under(r) PROVE Ranged(m) /\ Known(m) /\ Behind(m, r)
    <3>1. m \in Under(t) /\ Ranged(m) /\ Known(m) /\ Behind(m, t)
      BY <1>7, <2>2 DEF Flow, OnTheWay
    <3>2. ASSUME Start(m.seq) = t.iss
          PROVE  /\ SegEnd(m) <= t.iss + 1 + head /\ "fin" \notin m.flags
                 /\ "syn" \in m.flags => t.sm \notin Idle
      <4>1. SegEnd(m) <= t.iss + 1 + t.txHead
        BY <3>1, <3>2 DEF Behind
      <4>2. SegEnd(m) \in Int /\ t.iss \in Int
        <5>1. Sent(m)
          BY <3>1 DEF Under, Around, Connected, Socket, Queued
        <5>2. m.seq \in Int /\ Len(m.data) \in Nat
          BY <5>1 DEF Sent
        <5> QED BY <5>2 DEF SegEnd, Connected, Socket
      <4>3. "fin" \notin m.flags
        BY <3>1, <3>2 DEF Owing
      <4> QED BY <1>2, <4>1, <4>2, <4>3 DEF Idle
    <3> QED BY <1>4, <1>5, <3>1, <3>2 DEF Behind
  <2> QED BY <2>1, <2>2 DEF OnTheWay
<1>10. Joined(r)
  <2> SUFFICES ASSUME Joins(r)
               PROVE  /\ r.txTail <= Len(peer.got) /\ Len(peer.got) <= r.txHead
                      /\ peer.finRcvd => Len(peer.got) = r.txHead
    BY DEF Joined
  <2>1. t.txTail <= Len(peer.got) /\ Len(peer.got) <= t.txHead /\ ~peer.finRcvd
    BY <1>7 DEF Flow, Joined, Owing
  <2>2. Len(peer.got) \in Nat
    BY DEF Around, PeerStands
  <2> QED BY SMTT(40), <1>2, <1>4, <1>5, <2>1, <2>2
<1>11. Apart(r) /\ Early(r) /\ Ports(r) /\ Timed(r)
  <2>1. Apart(r)
    BY <1>2, <1>5 DEF Apart, Idle
  <2>2. Early(r)
    BY <1>2, <1>5 DEF Flow, Early, Idle
  <2>3. Ports(r) /\ Timed(r)
    BY <1>5 DEF Flow, Ports, Timed
  <2> QED BY <2>1, <2>2, <2>3
<1>12. TxBytes(r)
  <2>1. head <= Script
    <3>1. head = t.rxTail /\ t.rxHead <= Script
      BY <1>2 DEF Owing, RxBytes
    <3>2. t.rxTail <= t.rxHead /\ t.rxTail \in Nat /\ t.rxHead \in Nat
      BY DEF Connected, Socket, RxOrder
    <3> QED BY <3>1, <3>2, FarTyped
  <2>2. Holds(t.txFifo, TxRing, t.txTail, t.txHead, t.port)
    BY DEF Flow, TxBytes
  <2>3. HoldsBeside(t.txFifo, TxRing, t.txTail, head, t.port, t.txHead, n)
    <3> SUFFICES ASSUME NEW p \in t.txTail .. head - 1, p \notin t.txHead .. t.txHead + n - 1
                 PROVE  Place(t.txFifo, TxRing, p) = Byte(t.port, p + 1)
      BY DEF HoldsBeside
    <3>1. p \in Int /\ t.txTail <= p /\ p < t.txHead
      BY <1>2
    <3> QED BY <1>2, <2>2, <3>1, HeldAt
  <2>4. t.txHead + n <= t.txTail + TxRing /\ head <= t.txHead + TxRing /\ n <= TxRing
        /\ t.txHead \in Int /\ t.txTail \in Int /\ head \in Int
    BY <1>2
  <2>5. Holds(fifo, TxRing, t.txTail, head, t.port)
    <3> USE DEF fifo
    <3> QED BY <1>2, <2>3, <2>4, WrittenHolds
  <2> QED BY <1>4, <1>5, <2>1, <2>5 DEF TxBytes
<1>13. Flow(r)
  BY <1>5, <1>9, <1>10, <1>11, <1>12 DEF Flow
<1> QED BY <1>3, <1>6, <1>8, <1>13

-----------------------------------------------------------------------------
LEMMA SameOwing ==
  ASSUME NEW t, NEW n, Owing(t, n), NEW r, \A f \in StreamFields : r[f] = t[f]
  PROVE  Owing(r, n)
<1>1. /\ r.sm = t.sm /\ r.port = t.port /\ r.iss = t.iss /\ r.txFin = t.txFin
      /\ r.txHead = t.txHead /\ r.out = t.out /\ r.synSent = t.synSent
      /\ r.rxTail = t.rxTail /\ r.rxHead = t.rxHead /\ r.hole = t.hole
      /\ r.future = t.future /\ r.rxFifo = t.rxFifo
  BY DEF StreamFields, FlowFields, EchoFields
<1>2. Under(r) = Under(t) /\ (Joins(r) => Joins(t)) /\ (RxBytes(t) => RxBytes(r))
  BY <1>1 DEF Under, Joins, RxBytes
<1> QED BY <1>1, <1>2 DEF Owing

\* Writing what was read pays the debt.
LEMMA TCPPutArrayFlow ==
  ASSUME Around, NEW t, Good(t), Flow(t), NEW n \in Nat \ {0}, Owing(t, n), n <= IsPutReady(t),
         NEW bytes, Carries(bytes, t.txHead, n, t.port)
  PROVE  Flow(TCPPutArray(t, bytes)) /\ Echoing(TCPPutArray(t, bytes))
<1> DEFINE flushed == TCPFlush(t)
           halved == [flushed EXCEPT !.halfFull = TRUE]
           u == IF ~t.halfFull /\ IsPutReady(t) <= TxRing \div 2 THEN halved ELSE t
           v == [u EXCEPT !.txFifo = Written(@, TxRing, u.txHead, bytes), !.txHead = @ + Len(bytes)]
           w == [v EXCEPT !.timer2 = TRUE]
<1>1. /\ Connected(t) /\ PeerStands /\ t.sm = "ESTABLISHED" /\ Len(bytes) = n
  BY DEF Owing, Around, Good, AtRest, Idle, Carries
<1>2. IsPutReady(t) = TxRing - 1 - (t.txHead - t.txTail)
  BY <1>1 DEF IsPutReady, Open
<1>3. IsPutReady(t) # 0
  BY <1>1, <1>2, TcpAssumption DEF TcpAssumption, Connected, Socket, TxOrder
<1>4. TCPPutArray(t, bytes) \in {TCPFlush(v), w}
  BY <1>3 DEF TCPPutArray
<1>5. /\ Connected(flushed) /\ Flow(flushed) /\ Owing(flushed, n) /\ flushed.port = t.port
      /\ flushed.txHead = t.txHead /\ flushed.txTail = t.txTail
  BY <1>1, FlushOwing
<1>6. Good(flushed)
  BY TCPFlushStayed DEF Stayed
<1> HIDE DEF flushed
<1>7. /\ Good(halved) /\ halved.sm = "ESTABLISHED" /\ halved.txHead = t.txHead
      /\ halved.txTail = t.txTail
  BY <1>5, <1>6, HalfFullStayed DEF Stayed, Owing
<1>8. (\A f \in StreamFields : halved[f] = flushed[f]) /\ halved.port = t.port
  BY <1>5 DEF StreamFields, FlowFields, EchoFields, Connected, Socket, SocketFields
<1> HIDE DEF halved
<1>9. Flow(halved) /\ Owing(halved, n) /\ Connected(halved)
  BY <1>5, <1>7, <1>8, SameStream, SameOwing DEF Good, AtRest, Idle
<1>10. /\ Connected(u) /\ Flow(u) /\ Owing(u, n) /\ u.port = t.port
       /\ u.txHead = t.txHead /\ u.txTail = t.txTail /\ u.sm = "ESTABLISHED"
  BY <1>1, <1>5, <1>7, <1>8, <1>9
<1> HIDE DEF u
<1>11. n <= IsPutReady(u) /\ Carries(bytes, u.txHead, n, u.port) /\ n \in Nat
  BY <1>10, <1>1 DEF IsPutReady
<1>12. Connected(v) /\ Flow(v) /\ Owing(v, 0)
  BY <1>10, <1>11, AddedFlow
<1> HIDE DEF v
<1>13. LET r == TCPFlush(v) IN Connected(r) /\ Flow(r) /\ Owing(r, 0)
  BY <1>1, <1>12, FlushOwing
<1>14. Flow(w) /\ Owing(w, 0) /\ w.txHead = v.txHead
  <2>1. (\A f \in StreamFields : w[f] = v[f]) /\ w.txHead = v.txHead
    BY <1>12 DEF StreamFields, FlowFields, EchoFields, Connected, Socket, SocketFields
  <2> HIDE DEF w
  <2> QED BY <1>12, <2>1, SameStream, SameOwing
<1> HIDE DEF w
<1>15. ASSUME NEW r \in {TCPFlush(v), w} PROVE Flow(r) /\ Echoing(r)
  <2>1. Flow(r) /\ Owing(r, 0)
    BY <1>13, <1>14
  <2>2. r.sm = "ESTABLISHED" /\ r.txHead \in Int
    BY <1>12, <1>13, <1>14, <2>1 DEF Owing, Connected, Socket, TxOrder
  <2> QED BY <2>1, <2>2, OwingEchoes
<1> QED BY <1>4, <1>15

\* The server writes back what it reads.
LEMMA EchoFlow ==
  ASSUME Around, NEW t, Good(t), Flow(t), Echoing(t)
  PROVE  Flow(Echo(t)) /\ Echoing(Echo(t))
<1>1. ASSUME t.sm = "ESTABLISHED", Chunk(t) # <<>>
      PROVE  LET r == TCPPutArray(TCPGetArray(t, Len(Chunk(t))), Chunk(t))
             IN Flow(r) /\ Echoing(r)
  <2> DEFINE n == Lesser(IsGetReady(t), IsPutReady(t))
             to == t.rxTail + n
             chunk == Chunk(t)
             g == TCPGetArray(t, n)
  <2>1. Connected(t) /\ IsPutReady(t) = TxRing - 1 - (t.txHead - t.txTail) /\ TxRing \in Nat
    BY <1>1, TcpAssumption DEF TcpAssumption, Good, AtRest, Idle, IsPutReady, Open
  <2>2. /\ t.rxTail \in Nat /\ n \in Nat /\ n <= IsGetReady(t) /\ n <= IsPutReady(t)
        /\ to \in Nat /\ t.rxTail <= to /\ to <= t.rxHead /\ n = to - t.rxTail /\ t.port \in Int
        /\ t.rxHead \in Nat /\ t.txHead \in Int
    BY <2>1 DEF Lesser, IsGetReady, Connected, Socket, TxOrder, RxOrder
  <2>3. chunk = Slice(t.rxFifo, RxRing, t.rxTail, to)
    BY DEF Chunk
  <2> HIDE DEF n, to
  <2>4. t.txHead = t.rxTail /\ RxBytes(t)
    BY <1>1 DEF Echoing, Unfinished
  <2>5. Carries(chunk, t.rxTail, n, t.port)
    <3>1. Holds(t.rxFifo, RxRing, t.rxTail, to, t.port)
      <4>1. to - 1 <= t.rxHead - 1
        BY <2>2
      <4>2. t.rxTail .. to - 1 \subseteq t.rxTail .. t.rxHead - 1
        BY <2>2, <4>1
      <4> QED BY <2>4, <4>2 DEF RxBytes, Holds
    <3> HIDE DEF chunk
    <3> QED BY <2>2, <2>3, <3>1, SliceOfBytes
  <2>6. Len(chunk) = n /\ n # 0
    <3>1. Len(chunk) = n /\ chunk \in Seq(Bytes)
      BY <2>5 DEF Carries
    <3> QED BY <1>1, <3>1
  <2> HIDE DEF chunk
  <2>7. /\ Good(g) /\ g.txHead = t.txHead /\ g.txTail = t.txTail /\ g.sm = t.sm
    BY <1>1, <2>2, TCPGetArrayStayed DEF Stayed
  <2>8. Flow(g) /\ Owing(g, n) /\ g.port = t.port
    BY <1>1, <2>1, <2>2, TCPGetArrayFlow
  <2> HIDE DEF g
  <2>9. /\ n \in Nat \ {0} /\ n <= IsPutReady(g) /\ Carries(chunk, g.txHead, n, g.port)
    BY <2>2, <2>4, <2>5, <2>6, <2>7, <2>8 DEF IsPutReady
  <2>10. Flow(TCPPutArray(g, chunk)) /\ Echoing(TCPPutArray(g, chunk))
    BY <2>7, <2>8, <2>9, TCPPutArrayFlow
  <2> QED BY <2>6, <2>10 DEF g, chunk
<1> QED BY <1>1 DEF Echo

LEMMA TCPCloseFlow ==
  ASSUME Around, NEW t, Good(t), Flow(t), Echoing(t)
  PROVE  Flow(TCPClose(t)) /\ Echoing(TCPClose(t))
<1> DEFINE u == [t EXCEPT !.bServer = FALSE]
<1>1. Socket(t)
  BY DEF Good, AtRest, Connected
<1>2. DOMAIN u = SocketFields /\ \A f \in SocketFields \ {"bServer"} : u[f] = t[f]
  BY <1>1 DEF Socket, SocketFields
<1>3. TCPClose(t) = TCPDisconnect(u)
  BY DEF TCPClose
<1> HIDE DEF u
<1>4. u.sm = t.sm /\ u.out = t.out /\ u.keepalives = t.keepalives /\ u.port = t.port
      /\ u.synQueue = t.synQueue
  BY <1>2 DEF SocketFields
<1>5. Queued(u) /\ u.keepalives \in 0 .. Keepalives /\ u.port \in Int
  BY <1>1, <1>4 DEF Socket, Queued, Counted
<1>6. \A f \in Compared : u[f] = t[f]
  BY <1>2 DEF Compared
<1>7. Good(u)
  BY <1>2, <1>5, <1>6, SameSocket
<1>8. Flow(u) /\ Echoing(u)
  <2>1. \A f \in StreamFields : u[f] = t[f]
    BY <1>2 DEF StreamFields, FlowFields, EchoFields, SocketFields
  <2> QED BY <2>1, SameStream
<1> QED BY <1>3, <1>7, <1>8, TCPDisconnectFlow

LEMMA ServerFlow ==
  ASSUME Around, NEW t, Good(t), Flow(t), Echoing(t),
         server \in {"SM_HOME", "SM_LISTENING", "SM_CLOSING"}
  PROVE  Flow(GenericTCPServer(t)[1]) /\ Echoing(GenericTCPServer(t)[1])
<1>1. CASE server = "SM_HOME"
  <2>1. t.sm = "CLOSED" => Flow(TCPOpen(t)) /\ Echoing(TCPOpen(t))
    BY TCPOpenFlow
  <2>2. GenericTCPServer(t) = IF t.sm = "CLOSED" THEN <<TCPOpen(t), "SM_LISTENING">> ELSE <<t, server>>
    BY <1>1 DEF GenericTCPServer
  <2> QED BY <2>1, <2>2
<1>2. CASE server = "SM_LISTENING"
  <2>1. GenericTCPServer(t)[1] = Echo(t)
    BY <1>2 DEF GenericTCPServer
  <2> QED BY <2>1, EchoFlow
<1>3. CASE server = "SM_CLOSING"
  <2>1. GenericTCPServer(t)[1] = TCPClose(t)
    BY <1>3 DEF GenericTCPServer
  <2> QED BY <2>1, TCPCloseFlow
<1> QED BY <1>1, <1>2, <1>3

-----------------------------------------------------------------------------
(* The stream in the whole system. *)

StreamInv ==
  /\ Flow(s) /\ Echoing(s) /\ PeerStands
  /\ \A h \in toDevice : Heard(h)

LEMMA InvAround ==
  ASSUME Inv, StreamInv
  PROVE  Around /\ Good(s) /\ s.out = {} /\ PeerTyped(peer)
BY DEF Inv, Typed, StreamInv, Around

\* What is still under way is part of what was, and of the remote node's end
\* only what it has to send has changed.
LEMMA FewerFlow ==
  ASSUME NEW t, Flow(t), Echoing(t), gone' = gone, s'.out = {}, toPeer' \subseteq toPeer \cup t.out,
         \A f \in StreamFields \ {"out"} : s'[f] = t[f],
         peer'.st = peer.st, peer'.port = peer.port, peer'.rcv = peer.rcv, peer'.got = peer.got,
         peer'.finRcvd = peer.finRcvd
  PROVE  Flow(s)' /\ Echoing(s)'
<1>1. /\ s'.sm = t.sm /\ s'.port = t.port /\ s'.iss = t.iss /\ s'.txFin = t.txFin
      /\ s'.txTail = t.txTail /\ s'.txUnacked = t.txUnacked /\ s'.txHead = t.txHead
      /\ s'.txFifo = t.txFifo /\ s'.synQueue = t.synQueue /\ s'.synSent = t.synSent
      /\ s'.timer = t.timer /\ s'.rxTail = t.rxTail /\ s'.rxHead = t.rxHead /\ s'.hole = t.hole
      /\ s'.future = t.future /\ s'.rxFifo = t.rxFifo
  BY DEF StreamFields, FlowFields, EchoFields
<1>2. Under(s)' \subseteq Under(t)
  BY DEF Under
<1>3. \A m \in Under(s)' : Ranged(m) /\ Known(m)' /\ Behind(m, s')
  BY <1>1, <1>2 DEF Flow, OnTheWay, Known, Truthful, Behind
<1>4. OnTheWay(s)' /\ FinEnds(s)'
  <2>1. FinEnds(s)'
    BY <1>2 DEF Flow, FinEnds
  <2>2. OnTheWay(s)'
    BY <1>3 DEF OnTheWay, Ranged, Behind, SegEnd, Start, Far
  <2> QED BY <2>1, <2>2
<1>5. Joins(s)' <=> Joins(t)
  BY <1>1 DEF Joins
<1>6. Joined(s)' /\ Apart(s)' /\ Early(s)' /\ Ports(s)' /\ TxBytes(s)' /\ Timed(s)'
  <2>1. Joined(s)' /\ Apart(s)' /\ Early(s)'
    BY <1>1, <1>5 DEF Flow, Joined, Apart, Early
  <2>2. Ports(s)' /\ TxBytes(s)' /\ Timed(s)'
    BY <1>1 DEF Flow, Ports, TxBytes, Timed
  <2> QED BY <2>1, <2>2
<1>7. Flow(s)'
  BY <1>1, <1>4, <1>6 DEF Flow
<1>8. Echoing(s)'
  <2>1. RxBytes(t) => RxBytes(s)'
    BY <1>1 DEF RxBytes
  <2> QED BY <1>1, <1>2, <1>5, <2>1 DEF Echoing, Unfinished
<1> QED BY <1>7, <1>8

LEMMA PassKeepsStream ==
  ASSUME Inv, StreamInv, NEW due, PassWith(due)
  PROVE  StreamInv'
<1>1. /\ Around /\ Good(s) /\ Flow(s) /\ Echoing(s)
      /\ \A h \in toDevice : Arriving(h) /\ Heard(h)
      /\ server \in {"SM_HOME", "SM_LISTENING", "SM_CLOSING"}
      /\ IsFiniteSet(toPeer) /\ IsFiniteSet(toDevice)
  BY InvAround DEF Inv, Typed, StreamInv
<1> DEFINE ticked == TCPTick(s, due)
<1>2. PICK received \in {{}} \cup {{h} : h \in toDevice} :
        LET heard == {h \in received : InTime(ticked, h)}
            after == GenericTCPServer(IF heard = {} THEN ticked
                                      ELSE TCPProcess(ticked, CHOOSE h \in heard : TRUE))
        IN /\ Settle(after[1])
           /\ server' = after[2]
           /\ toDevice' = toDevice \ received
           /\ UNCHANGED <<peer, gone>>
  BY DEF PassWith, TakeReceived
<1>3. Stayed(ticked, s) /\ Flow(ticked) /\ Echoing(ticked)
  BY <1>1, TCPTickStayed, TCPTickFlow
<1> HIDE DEF ticked
<1> DEFINE heard == {h \in received : InTime(ticked, h)}
           t == IF heard = {} THEN ticked
                ELSE TCPProcess(ticked, CHOOSE h \in heard : TRUE)
           a == GenericTCPServer(t)[1]
<1>4. Good(t) /\ Flow(t) /\ Echoing(t)
  <2>1. CASE heard = {}
    BY <1>3, <2>1 DEF Stayed
  <2>2. CASE heard # {}
    <3>1. PICK h \in toDevice : heard = {h} /\ InTime(ticked, h)
      BY <2>2
    <3>2. t = TCPProcess(ticked, h)
      BY <3>1
    <3> HIDE DEF t
    <3>3. FinCounted(ticked) /\ h.kind = "ack" /\ h.port = ticked.port => End(h) <= ticked.remoteSeq
      BY <1>3 DEF Stayed, Inv, CountedIsLast, Segments
    <3>4. Good(ticked) /\ Arriving(h) /\ Heard(h)
      BY <1>1, <1>3 DEF Stayed
    <3>5. Outcome(t, ticked, h)
      BY <1>1, <3>1, <3>2, <3>3, <3>4, TCPProcessOutcome
    <3>6. Flow(t) /\ Echoing(t)
      BY <1>1, <1>3, <3>1, <3>2, <3>3, <3>4, TCPProcessFlow
    <3> QED BY <3>5, <3>6 DEF Outcome
  <2> QED BY <2>1, <2>2
<1>5. Settle(a) /\ toDevice' \subseteq toDevice /\ peer' = peer /\ gone' = gone
  BY <1>2
<1> HIDE DEF t
<1>6. Good(a) /\ Flow(a) /\ Echoing(a)
  BY <1>1, <1>4, ServerStayed, ServerFlow DEF Stayed
<1> HIDE DEF a
<1>7. /\ s'.out = {} /\ toPeer' \subseteq toPeer \cup a.out
      /\ \A f \in StreamFields \ {"out"} : s'[f] = a[f]
  <2>1. s' = [a EXCEPT !.out = {}, !.done = FALSE] /\ toPeer' \subseteq toPeer \cup a.out
    BY <1>5 DEF Settle
  <2>2. DOMAIN a = SocketFields
    BY <1>6 DEF Good, AtRest, Connected, Socket
  <2> QED BY ZenonT(60), <2>1, <2>2 DEF StreamFields, FlowFields, EchoFields, SocketFields
<1>8. Flow(s)' /\ Echoing(s)'
  BY <1>5, <1>6, <1>7, FewerFlow
<1>9. PeerStands'
  BY <1>5 DEF StreamInv, PeerStands, EchoInOrder
<1>10. \A h \in toDevice' : Heard(h)'
  BY <1>1, <1>5 DEF Heard
<1> QED BY <1>8, <1>9, <1>10 DEF StreamInv

-----------------------------------------------------------------------------
(* The remote node and the stream. *)

LEMMA PeerOpenStream ==
  ASSUME Inv, StreamInv, PeerOpen
  PROVE  StreamInv'
<1>1. /\ Flow(s) /\ Echoing(s) /\ PeerStands /\ PeerTyped(peer) /\ s.port \in Int
      /\ \A m \in toPeer : Sent(m)
      /\ \A h \in toDevice : Heard(h) /\ Arriving(h)
  BY DEF StreamInv, Inv, Typed, Good, AtRest, Connected, Socket
<1>2. /\ ~gone /\ UNCHANGED <<s, toDevice, toPeer, gone>> /\ peer.port \in Int /\ PeerTyped(peer')
      /\ peer'.st = "synSent" /\ peer'.port = peer.port + 1 /\ peer'.next = 1
      /\ peer'.got = <<>> /\ peer'.unread = 0 /\ peer'.finRcvd = FALSE
  BY <1>1 DEF PeerOpen, PeerTyped, PeerFields, NoPeer
<1>3. s.port <= peer.port
  BY <1>1, <1>2 DEF Flow, Ports
<1>4. Under(s)' = Under(s) /\ ~Joins(s)'
  BY <1>2 DEF Under, Joins
<1>5. \A m \in Under(s) : m.port \in Int /\ m.port <= peer.port
  <2>1. \A m \in Under(s) : m \in toPeer \/ m \in s.out
    BY DEF Under
  <2>2. s.out = {}
    BY DEF Inv, Typed
  <2>3. \A m \in Under(s) : Known(m)
    BY <1>1 DEF Flow, OnTheWay
  <2> QED BY <1>1, <1>2, <2>1, <2>2, <2>3 DEF Sent, Known
<1>6. OnTheWay(s)' /\ FinEnds(s)'
  <2>1. \A m \in Under(s) : Known(m)'
    <3> SUFFICES ASSUME NEW m \in Under(s) PROVE Known(m)'
      OBVIOUS
    <3>1. m.port <= peer'.port /\ m.port # peer'.port
      BY <1>2, <1>5
    <3> QED BY <1>2, <3>1 DEF Known
  <2>2. OnTheWay(s)'
    BY <1>1, <1>2, <1>4, <2>1 DEF Flow, OnTheWay, Behind
  <2>3. FinEnds(s)'
    BY <1>1, <1>4 DEF Flow, FinEnds
  <2> QED BY <2>2, <2>3
<1>7. Joined(s)' /\ Apart(s)' /\ Early(s)' /\ Ports(s)' /\ TxBytes(s)' /\ Timed(s)'
  <2>1. Joined(s)' /\ Apart(s)'
    BY <1>2, <1>4 DEF Joined, Apart
  <2>2. Early(s)'
    <3>1. s.port # peer'.port
      BY <1>1, <1>2, <1>3
    <3> QED BY <1>2, <3>1 DEF Early
  <2>3. Ports(s)'
    <3>1. s.port <= peer'.port
      BY <1>1, <1>2, <1>3
    <3>2. ASSUME NEW i \in 1 .. Len(s.synQueue) PROVE s.synQueue[i].port <= peer'.port
      <4>1. s.synQueue[i].port <= peer.port
        BY <1>1, <1>2 DEF Flow, Ports
      <4>2. s.synQueue[i] \in Waiting
        <5>1. s.synQueue \in Seq(Waiting)
          BY DEF Inv, Typed, Good, AtRest, Connected, Socket, Queued
        <5> QED BY <5>1
      <4>3. s.synQueue[i].port \in Int
        BY <4>2 DEF Waiting
      <4> QED BY <1>2, <4>1, <4>3
    <3> QED BY <1>2, <3>1, <3>2 DEF Ports
  <2>4. TxBytes(s)' /\ Timed(s)'
    BY <1>1, <1>2 DEF Flow, TxBytes, Timed
  <2> QED BY <2>1, <2>2, <2>3, <2>4
<1>8. Flow(s)'
  BY <1>1, <1>2, <1>6, <1>7 DEF Flow
<1>9. Echoing(s)'
  <2>1. RxBytes(s) => RxBytes(s)'
    BY <1>2 DEF RxBytes
  <2> QED BY <1>1, <1>2, <1>4, <2>1 DEF Echoing, Unfinished
<1>10. PeerStands'
  BY <1>1, <1>2 DEF PeerStands, EchoInOrder
<1>11. \A h \in toDevice' : Heard(h)'
  <2> SUFFICES ASSUME NEW h \in toDevice PROVE Heard(h)'
    BY <1>2
  <2>1. h.port <= peer.port /\ h.port \in Int
    BY <1>1, <1>2 DEF Heard, Arriving
  <2>2. h.port <= peer'.port /\ h.port # peer'.port
    BY <1>2, <2>1
  <2> QED BY <1>1, <1>2, <2>2 DEF Heard
<1> QED BY <1>8, <1>9, <1>10, <1>11 DEF StreamInv

\* The remote node's end is closed.
LEMMA PeerEndsStream ==
  ASSUME Inv, StreamInv, s' = s, toPeer' \subseteq toPeer,
         \/ gone' = gone /\ peer' = [NoPeer EXCEPT !.port = peer.port]
         \/ gone' /\ peer' = NoPeer,
         NEW h, h.kind = "rst", h.port = peer.port \/ h \in toDevice,
         toDevice' \in {toDevice, toDevice \cup {h}}
  PROVE  StreamInv'
<1>1. /\ Flow(s) /\ Echoing(s) /\ PeerStands /\ PeerTyped(peer) /\ s.out = {}
      /\ \A k \in toDevice : Heard(k)
  BY DEF StreamInv, Inv, Typed
<1>2. /\ peer'.st = "closed" /\ peer'.got = <<>> /\ peer'.unread = 0 /\ PeerTyped(peer')
      /\ peer'.port >= 0 /\ (gone' \/ (peer'.port = peer.port /\ gone' = gone))
      /\ peer.port \in Int
  BY <1>1 DEF PeerTyped, PeerFields, NoPeer, PeerStands
<1>3. Under(s)' \subseteq Under(s) /\ ~Joins(s)'
  BY <1>1, <1>2 DEF Under, Joins
<1>4. OnTheWay(s)' /\ FinEnds(s)'
  <2>1. \A m \in Under(s) : Known(m)'
    BY <1>1, <1>2 DEF Flow, OnTheWay, Known
  <2>2. OnTheWay(s)'
    BY <1>1, <1>3, <2>1 DEF Flow, OnTheWay, Behind
  <2>3. FinEnds(s)'
    BY <1>1, <1>3 DEF Flow, FinEnds
  <2> QED BY <2>2, <2>3
<1>5. Joined(s)' /\ Apart(s)' /\ Early(s)' /\ Ports(s)' /\ TxBytes(s)' /\ Timed(s)'
  <2>1. Joined(s)' /\ Apart(s)' /\ Early(s)'
    BY <1>2, <1>3 DEF Joined, Apart, Early
  <2>2. Ports(s)' /\ TxBytes(s)' /\ Timed(s)'
    BY <1>1, <1>2 DEF Flow, Ports, TxBytes, Timed
  <2> QED BY <2>1, <2>2
<1>6. Flow(s)'
  BY <1>1, <1>4, <1>5 DEF Flow
<1>7. Echoing(s)'
  <2>1. RxBytes(s) => RxBytes(s)'
    BY DEF RxBytes
  <2> QED BY <1>1, <1>3, <2>1 DEF Echoing, Unfinished
<1>8. PeerStands'
  BY <1>2 DEF PeerStands, EchoInOrder
<1>9. \A k \in toDevice' : Heard(k)'
  BY <1>1, <1>2 DEF Heard
<1> QED BY <1>6, <1>7, <1>8, <1>9 DEF StreamInv

\* What the remote node sends, reads or asks for is no matter for what it has got.
LEMMA PeerGoesOn ==
  ASSUME Inv, StreamInv, s' = s, gone' = gone, toPeer' \subseteq toPeer,
         peer'.st = peer.st, peer'.port = peer.port, peer'.rcv = peer.rcv, peer'.got = peer.got,
         peer'.finRcvd = peer.finRcvd, PeerTyped(peer'), peer'.unread >= 0,
         peer.st = "established" => peer'.next <= Script + 1,
         peer.st = "synSent" => peer'.next = 1,
         NEW h, Heard(h), toDevice' \in {toDevice, toDevice \cup {h}}
  PROVE  StreamInv'
<1>1. /\ Flow(s) /\ Echoing(s) /\ PeerStands /\ s.out = {}
      /\ \A k \in toDevice : Heard(k)
  BY DEF StreamInv, Inv, Typed
<1>2. Flow(s)' /\ Echoing(s)'
  BY <1>1, FewerFlow
<1>3. PeerStands'
  BY <1>1 DEF PeerStands, EchoInOrder
<1>4. \A k \in toDevice' : Heard(k)'
  BY <1>1 DEF Heard
<1> QED BY <1>2, <1>3, <1>4 DEF StreamInv

LEMMA PeerSegmentStream ==
  ASSUME Inv, StreamInv, PeerSegment
  PROVE  StreamInv'
<1>1. PICK len \in 0 .. Mss, seq \in peer.unacked .. peer.next :
        LET end == seq + len
            fin == peer.fin /\ end = peer.next
        IN /\ end <= (IF peer.fin THEN peer.next ELSE Script + 1)
           /\ len > 0 \/ fin \/ seq = peer.next
           /\ PeerSends(Segment("ack", IF len = 0 /\ ~fin /\ peer.fin THEN peer.next + 1 ELSE seq,
                                len, fin, peer.rcv, PeerWindow))
           /\ peer' = [peer EXCEPT !.next = Greater(@, end)]
  BY DEF PeerSegment
<1> DEFINE end == seq + len
           fin == peer.fin /\ end = peer.next
           from == IF len = 0 /\ ~fin /\ peer.fin THEN peer.next + 1 ELSE seq
           h == Segment("ack", from, len, fin, peer.rcv, PeerWindow)
<1>2. /\ ~gone /\ peer.st = "established" /\ PeerTyped(peer) /\ PeerStands
      /\ peer.next \in Int /\ peer.port \in Int /\ peer.unacked \in Int
      /\ len \in Nat /\ seq \in Int /\ seq <= peer.next /\ peer.next <= Script + 1 /\ Script \in Nat
      /\ peer.unread >= 0 /\ peer.rcv \in Int
  <2>1. PeerTyped(peer) /\ ~gone /\ peer.st = "established" /\ PeerStands
    BY DEF PeerSegment, Inv, Typed, StreamInv
  <2>2. Mss \in Nat /\ Script \in Nat
    BY TcpAssumption DEF TcpAssumption
  <2> QED BY <2>1, <2>2 DEF PeerTyped, PeerStands
<1>3. /\ toDevice' \in {toDevice, toDevice \cup {h}} /\ UNCHANGED <<s, toPeer, gone>>
      /\ end <= (IF peer.fin THEN peer.next ELSE Script + 1)
  BY <1>1 DEF PeerSends
<1>4. /\ h.port = peer.port /\ h.kind = "ack" /\ h.seq = from /\ h.len = len /\ h.ack = peer.rcv
  BY DEF Segment
<1>5. end \in Int /\ end <= Script + 1 /\ (len > 0 => from = seq)
  BY <1>2, <1>3
<1>6. Heard(h)
  <2>1. len > 0 => h.seq + h.len <= Script + 1
    BY <1>4, <1>5
  <2> HIDE DEF h
  <2> QED BY <1>2, <1>4, <2>1 DEF Heard
<1> HIDE DEF h, from, fin
<1>7. /\ peer'.st = peer.st /\ peer'.port = peer.port /\ peer'.rcv = peer.rcv
      /\ peer'.got = peer.got /\ peer'.finRcvd = peer.finRcvd /\ peer'.unread = peer.unread
      /\ peer'.unacked = peer.unacked /\ DOMAIN peer' = PeerFields
      /\ peer'.next = Greater(peer.next, end)
  BY <1>1, <1>2 DEF PeerTyped, PeerFields
<1>8. peer'.next \in Int /\ peer'.next <= Script + 1
  BY <1>2, <1>5, <1>7 DEF Greater
<1>9. PeerTyped(peer')
  BY <1>2, <1>7, <1>8 DEF PeerTyped
<1> QED BY <1>2, <1>3, <1>6, <1>7, <1>8, <1>9, PeerGoesOn

-----------------------------------------------------------------------------
(* What the remote node takes from a segment. *)

\* The answer to its SYN begins the connection.
LEMMA AnswerStream ==
  ASSUME Inv, StreamInv, s' = s, toDevice' = toDevice, gone' = gone, ~gone, toPeer' \subseteq toPeer,
         NEW m \in Under(s), m.port = peer.port, peer.st = "synSent", "syn" \in m.flags,
         peer' = [peer EXCEPT !.st = "established", !.unacked = 1, !.rcv = m.seq + 1]
  PROVE  StreamInv'
<1>1. /\ Flow(s) /\ Echoing(s) /\ PeerStands /\ PeerTyped(peer) /\ s.out = {}
      /\ \A k \in toDevice : Heard(k)
      /\ s.port \in Int /\ s.txTail \in Nat /\ s.txHead \in Nat /\ s.txTail <= s.txHead
      /\ m.seq \in Int
  <2>1. Flow(s) /\ Echoing(s) /\ PeerStands /\ PeerTyped(peer) /\ s.out = {}
        /\ \A k \in toDevice : Heard(k)
    BY DEF StreamInv, Inv, Typed
  <2>2. s.port \in Int /\ TxOrder(s)
    BY DEF Inv, Typed, Good, AtRest, Connected, Socket
  <2>3. m.seq \in Int
    BY <2>1 DEF Under, Inv, Typed, Sent
  <2> QED BY <2>1, <2>2, <2>3 DEF TxOrder
<1> DEFINE b == Start(m.seq)
<1>2. /\ m.seq = b /\ b \in Int /\ Start(b + 1) = b /\ Behind(m, s)
      /\ \A n \in Under(s) : Ranged(n) /\ Behind(n, s) /\ (n.port = peer.port => n.data = <<>>)
      /\ \A n \in Under(s) : n.port <= peer.port
  <2>1. \A n \in Under(s) : Ranged(n) /\ Behind(n, s) /\ Known(n)
    BY <1>1 DEF Flow, OnTheWay
  <2>2. m.seq = b /\ b \in Int
    BY <1>1, <2>1, StartBelow DEF Ranged
  <2>3. Start(b) = b
    BY <1>1, StartTwice
  <2>4. Start(b + 1) = b
    <3>1. b + 1 < b + Far /\ b <= b + 1 /\ b + 1 \in Int
      BY <2>2, FarTyped
    <3> HIDE DEF b
    <3>2. PICK k \in Int : k = b + 1
      BY <3>1
    <3> QED BY <2>2, <2>3, <3>1, <3>2, StartIs
  <2> QED BY <2>1, <2>2, <2>4 DEF Known
<1>3. /\ peer'.st = "established" /\ peer'.port = peer.port /\ peer'.next = peer.next
      /\ peer'.got = peer.got /\ peer'.unread = peer.unread /\ peer'.finRcvd = peer.finRcvd
      /\ peer'.rcv = b + 1 /\ PeerTyped(peer')
  BY <1>1, <1>2 DEF PeerTyped, PeerFields
<1>4. peer.got = <<>> /\ ~peer.finRcvd /\ peer.next = 1 /\ peer.unread >= 0 /\ peer.port >= 0
  BY <1>1 DEF PeerStands
<1>5. Start(peer'.rcv) = b
  BY <1>2, <1>3
<1>6. s.iss = b => s.sm \notin Idle
  BY <1>2 DEF Behind
<1> HIDE DEF b
<1>7. Under(s)' \subseteq Under(s)
  BY <1>1 DEF Under
<1>8. OnTheWay(s)' /\ FinEnds(s)'
  <2>1. ASSUME NEW n \in Under(s) PROVE Known(n)'
    <3>1. n.port = peer.port => Len(n.data) = 0
      BY <1>2
    <3>2. n.port = peer.port => Truthful(n)
      BY <3>1 DEF Truthful
    <3>3. n.port = peer.port => Truthful(n)'
      BY <3>2 DEF Truthful
    <3> QED BY <1>2, <1>3, <1>4, <3>3 DEF Known
  <2>2. OnTheWay(s)'
    BY <1>1, <1>2, <1>7, <2>1 DEF OnTheWay, Behind
  <2>3. FinEnds(s)'
    BY <1>1, <1>7 DEF Flow, FinEnds
  <2> QED BY <2>2, <2>3
<1>9. Joined(s)'
  <2> SUFFICES ASSUME Joins(s)'
               PROVE  s.txTail <= 0 /\ 0 <= s.txHead
    BY <1>3, <1>4 DEF Joined
  <2>1. s.port = peer.port /\ s.iss = b
    BY <1>3, <1>5 DEF Joins
  <2>2. s.txHead = 0
    BY <1>1, <1>6, <2>1 DEF Flow, Early
  <2> QED BY <1>1, <2>2
<1>10. Apart(s)' /\ Early(s)' /\ Ports(s)' /\ TxBytes(s)' /\ Timed(s)'
  <2>1. Apart(s)' /\ Early(s)'
    BY <1>3, <1>5, <1>6 DEF Apart, Early
  <2>2. Ports(s)' /\ TxBytes(s)' /\ Timed(s)'
    BY <1>1, <1>3 DEF Flow, Ports, TxBytes, Timed
  <2> QED BY <2>1, <2>2
<1>11. Flow(s)'
  BY <1>1, <1>8, <1>9, <1>10 DEF Flow
<1>12. Echoing(s)'
  <2>1. RxBytes(s) => RxBytes(s)'
    BY DEF RxBytes
  <2> QED BY <1>1, <1>3, <1>4, <1>7, <2>1 DEF Echoing, Unfinished
<1>13. PeerStands'
  <2>1. EchoInOrder'
    BY <1>3, <1>4 DEF EchoInOrder
  <2>2. Len(peer'.got) = 0 /\ Script \in Nat
    BY <1>3, <1>4, FarTyped
  <2>3. peer'.rcv = Start(peer'.rcv) + 1 + Len(peer'.got) + (IF peer'.finRcvd THEN 1 ELSE 0)
    <3>1. b \in Int /\ peer'.rcv = b + 1 /\ Start(peer'.rcv) = b /\ ~peer'.finRcvd
      BY <1>2, <1>3, <1>4, <1>5
    <3> QED BY <2>2, <3>1
  <2>4. /\ PeerTyped(peer') /\ peer'.port >= 0 /\ peer'.got \in Seq(Bytes) /\ peer'.unread >= 0
        /\ ~gone' /\ Len(peer'.got) <= Script /\ peer'.next <= Script + 1
    <3>1. PeerTyped(peer') /\ peer'.port >= 0 /\ peer'.unread >= 0 /\ ~gone'
      BY <1>3, <1>4
    <3>2. peer.got \in Seq(Bytes)
      BY <1>1 DEF PeerStands
    <3>3. peer'.got \in Seq(Bytes)
      BY <1>3, <3>2
    <3>4. Len(peer'.got) <= Script /\ peer'.next <= Script + 1
      BY <1>3, <1>4, <2>2
    <3> QED BY <3>1, <3>3, <3>4
  <2> QED BY <1>3, <2>1, <2>3, <2>4 DEF PeerStands
<1>14. \A k \in toDevice' : Heard(k)'
  BY <1>1, <1>3 DEF Heard
<1> QED BY <1>11, <1>12, <1>13, <1>14 DEF StreamInv

\* Bytes in order behind bytes in order.
LEMMA PieceBehind ==
  ASSUME NEW port \in Int, NEW got, NEW piece, NEW n \in Nat, NEW len \in Nat,
         Carries(got, 0, n, port), Carries(piece, n, len, port),
         NEW r, r = got \o piece, NEW k, k = n + len
  PROVE  Carries(r, 0, k, port)
<1>1. /\ got \in Seq(Bytes) /\ Len(got) = n /\ piece \in Seq(Bytes) /\ Len(piece) = len
      /\ \A i \in 1 .. n : got[i] = Byte(port, 0 + i)
      /\ \A j \in 1 .. len : piece[j] = Byte(port, n + j)
  BY DEF Carries
<1>2. /\ r \in Seq(Bytes) /\ Len(r) = n + len
      /\ \A i \in 1 .. n + len : r[i] = IF i <= n THEN got[i] ELSE piece[i - n]
  BY ZenonT(60), <1>1, ConcatProperties
<1>3. ASSUME NEW i \in 1 .. n + len PROVE r[i] = Byte(port, 0 + i)
  <2>1. CASE i <= n
    BY <1>1, <1>2, <2>1
  <2>2. CASE i > n
    <3>1. PICK j \in 1 .. len : i = n + j
      <4>1. i - n \in 1 .. len /\ i = n + (i - n)
        BY <2>2
      <4> QED BY <4>1
    <3>2. i - n = j /\ ~(i <= n) /\ 0 + i = n + j
      BY <2>2, <3>1
    <3>3. r[i] = piece[i - n]
      BY <1>2, <3>2
    <3>4. piece[j] = Byte(port, n + j)
      BY <1>1
    <3> QED BY <3>2, <3>3, <3>4
  <2>3. i <= n \/ i > n
    OBVIOUS
  <2> QED BY <2>1, <2>2, <2>3
<1> QED BY <1>2, <1>3 DEF Carries

\* A part of what is carried, from one place up to another, comes behind n bytes.
LiesAt(data, first, last, n, port) ==
  /\ data \in Seq(Bytes) /\ 1 <= first /\ first <= last /\ last <= Len(data)
  /\ \A j \in first .. last : data[j] = Byte(port, n + (j - first + 1))

LEMMA PieceOfData ==
  ASSUME NEW port \in Int, NEW n \in Nat, NEW data, NEW first \in Int, NEW last \in Int,
         LiesAt(data, first, last, n, port), NEW len \in Nat, len = last - first + 1,
         NEW piece, piece = SubSeq(data, first, last)
  PROVE  Carries(piece, n, len, port)
<1>1. \A i \in first .. last : data[i] \in Bytes
  BY DEF LiesAt
<1>2. /\ piece \in Seq(Bytes)
      /\ Len(piece) = IF first <= last THEN last - first + 1 ELSE 0
      /\ \A i \in 1 .. last - first + 1 : piece[i] = data[first + i - 1]
  BY <1>1, SubSeqProperties
<1>3. Len(piece) = len
  BY <1>2 DEF LiesAt
<1>4. ASSUME NEW j \in 1 .. len PROVE piece[j] = Byte(port, n + j)
  <2>1. PICK k \in first .. last : k = first + j - 1
    <3>1. first + j - 1 \in first .. last
      OBVIOUS
    <3> QED BY <3>1
  <2>2. n + (k - first + 1) = n + j
    BY <2>1
  <2>3. piece[j] = data[k]
    BY <1>2, <2>1
  <2>4. data[k] = Byte(port, n + (k - first + 1))
    BY DEF LiesAt
  <2> QED BY <2>2, <2>3, <2>4
<1> QED BY <1>2, <1>3, <1>4 DEF Carries

\* What the remote node has after it took a segment: more of the same stream,
\* no further than the segment goes, and the end if that is where it ends.
Takes(p, m, b) ==
  /\ p.st \in {"established", "closed"} /\ p.port = peer.port /\ p.next = peer.next /\ p.unread >= 0
  /\ p.got \in Seq(Bytes) /\ Len(peer.got) <= Len(p.got) /\ Len(p.got) <= Script
  /\ \A i \in 1 .. Len(p.got) : p.got[i] = Byte(peer.port, i)
  /\ Len(p.got) # Len(peer.got) => b + 1 + Len(p.got) <= SegEnd(m)
  /\ p.rcv = b + 1 + Len(p.got) + (IF p.finRcvd THEN 1 ELSE 0)
  /\ p.finRcvd => "fin" \in m.flags /\ SegEnd(m) = b + 1 + Len(p.got)

LEMMA AcceptedTakes ==
  ASSUME PeerStands, peer.st = "established", NEW m, Sent(m), Ranged(m), Known(m),
         m.port = peer.port, Accepted(m) # peer
  PROVE  /\ Start(m.seq) = Start(peer.rcv) /\ ~peer.finRcvd
         /\ Takes(Accepted(m), m, Start(peer.rcv))
<1> DEFINE old == peer.rcv - m.seq
           len == Lesser(Len(m.data) - old, PeerWindow)
           rcv == IF old >= 0 /\ len > 0 THEN peer.rcv + len ELSE peer.rcv
           fin == ~peer.finRcvd /\ "fin" \in m.flags /\ rcv = m.seq + Len(m.data)
           unacked == Lesser(Greater(peer.unacked, m.ack), peer.next)
           got == peer.got \o (IF rcv > peer.rcv THEN SubSeq(m.data, old + 1, old + len) ELSE <<>>)
           p == [peer EXCEPT !.unacked = unacked, !.rcv = rcv + (IF fin THEN 1 ELSE 0), !.got = got,
                             !.unread = peer.unread + (rcv - peer.rcv),
                             !.finRcvd = peer.finRcvd \/ fin]
           r == Accepted(m)
           b == Start(peer.rcv)
           end == m.seq + Len(m.data)
           n == Len(peer.got)
           size == Len(m.data)
<1>1. /\ peer.rcv \in Int /\ m.seq \in Int /\ Len(m.data) \in Nat /\ m.data \in Seq(Bytes)
      /\ peer.unread \in Int /\ peer.unread >= 0 /\ PeerWindow \in Int /\ PeerWindow <= PeerRoom
      /\ peer.got \in Seq(Bytes) /\ Len(peer.got) <= Script /\ peer.port \in Int /\ end \in Int
      /\ PeerTyped(peer)
      /\ peer.rcv = b + 1 + Len(peer.got) + (IF peer.finRcvd THEN 1 ELSE 0)
  <2>1. PeerTyped(peer) /\ PeerRoom \in Nat
    BY FarTyped DEF PeerStands
  <2>2. peer.rcv \in Int /\ peer.unread \in Int /\ peer.port \in Int /\ PeerWindow \in Int
    BY <2>1 DEF PeerTyped, PeerWindow
  <2>3. m.seq \in Int /\ Len(m.data) \in Nat /\ m.data \in Seq(Bytes)
    BY DEF Sent, Ranged
  <2>4. peer.unread >= 0 /\ peer.got \in Seq(Bytes) /\ Len(peer.got) <= Script
        /\ peer.rcv = b + 1 + Len(peer.got) + (IF peer.finRcvd THEN 1 ELSE 0)
    BY DEF PeerStands
  <2>5. PeerWindow <= PeerRoom
    BY <2>1, <2>2, <2>4 DEF PeerWindow
  <2> QED BY <2>1, <2>2, <2>3, <2>4, <2>5
<1>2. /\ r \in {p, [p EXCEPT !.st = "closed"]}
      /\ peer.rcv + PeerWindow >= m.seq /\ end >= peer.rcv
  <2>1. /\ ~(peer.rcv + PeerWindow < m.seq \/ m.seq + Len(m.data) < peer.rcv)
        /\ r \in {p, [p EXCEPT !.st = "closed"]}
    BY DEF Accepted
  <2> HIDE DEF r, p
  <2> QED BY <1>1, <2>1
<1>3. /\ r.port = peer.port /\ r.next = peer.next /\ r.st \in {"established", "closed"}
      /\ r.got = got /\ r.unread = peer.unread + (rcv - peer.rcv)
      /\ r.rcv = rcv + (IF fin THEN 1 ELSE 0) /\ (r.finRcvd <=> (peer.finRcvd \/ fin))
  <2> DEFINE u == peer.unread + (rcv - peer.rcv)
             c == rcv + (IF fin THEN 1 ELSE 0)
             f == peer.finRcvd \/ fin
  <2>1. r \in {p, [p EXCEPT !.st = "closed"]}
        /\ p = [peer EXCEPT !.unacked = unacked, !.rcv = c, !.got = got, !.unread = u, !.finRcvd = f]
    BY <1>2
  <2> HIDE DEF r, p, u, c, f, got, unacked
  <2>2. /\ r.port = peer.port /\ r.next = peer.next /\ r.st \in {"established", "closed"}
        /\ r.got = got /\ r.unread = u /\ r.rcv = c /\ r.finRcvd = f
    BY <1>1, <2>1 DEF PeerTyped, PeerFields
  <2> QED BY <2>2 DEF u, c, f
<1> HIDE DEF r, p, unacked
<1>4. b \in Int /\ Start(b) = b /\ n \in Nat /\ n <= Script
      /\ peer.rcv = b + 1 + n + (IF peer.finRcvd THEN 1 ELSE 0)
  <2>1. b \in Int /\ Start(b) = b
    BY <1>1, StartBelow, StartTwice
  <2>2. n \in Nat
    BY <1>1
  <2>3. n <= Script /\ peer.rcv = b + 1 + n + (IF peer.finRcvd THEN 1 ELSE 0)
    BY <1>1
  <2> QED BY <2>1, <2>2, <2>3
<1>5. Start(m.seq) = b
  <2> DEFINE a == Start(m.seq)
  <2>1. a \in Int /\ end <= a + Script + 1 /\ a <= m.seq
    BY <1>1, StartBelow DEF Ranged, SegEnd
  <2>2. a # b => a + Far <= b \/ b + Far <= a
    BY <1>1, StartApart
  <2>3. Far = Script + PeerRoom + 3 /\ Script \in Nat /\ PeerRoom \in Nat
    BY FarTyped
  <2> DEFINE rest == PeerWindow
             at == peer.rcv
             from == m.seq
  <2>4. at <= b + 2 + Script /\ at >= b + 1
    <3>1. at = b + 1 + n + (IF peer.finRcvd THEN 1 ELSE 0) /\ at \in Int
      BY <1>1, <1>4
    <3> HIDE DEF b, n, at
    <3> QED BY <1>4, <2>3, <3>1
  <2>5. /\ at \in Int /\ from \in Int /\ rest \in Int /\ rest <= PeerRoom /\ end \in Int
        /\ at + rest >= from /\ end >= at
    BY <1>1, <1>2
  <2>6. a = b
    <3>1. a <= from
      BY <2>1
    <3> HIDE DEF a, b, end, at, rest, from
    <3> QED BY <1>4, <2>1, <2>2, <2>3, <2>4, <2>5, <3>1
  <2> QED BY <2>6
<1>6. ~peer.finRcvd /\ (Truthful(m) \/ end <= peer.rcv)
  <2>1. /\ Truthful(m) \/ end <= peer.rcv
        /\ peer.finRcvd => end <= peer.rcv - 1
    BY <1>5 DEF Known, SegEnd
  <2> HIDE DEF end
  <2> QED BY <1>1, <1>2, <2>1
<1>7. /\ old \in Int /\ len \in Int /\ len <= PeerWindow /\ len <= Len(m.data) - old
      /\ rcv \in Int /\ peer.rcv <= rcv /\ rcv = (IF old >= 0 /\ len > 0 THEN peer.rcv + len ELSE peer.rcv)
      /\ end = peer.rcv + (Len(m.data) - old) /\ m.seq = peer.rcv - old
  <2>1. old \in Int /\ len \in Int /\ len <= PeerWindow /\ len <= Len(m.data) - old
    BY SMTT(40), <1>1 DEF Lesser
  <2>2. end = peer.rcv + (Len(m.data) - old) /\ m.seq = peer.rcv - old
    BY <1>1
  <2> HIDE DEF len, old, end
  <2>3. rcv \in Int /\ peer.rcv <= rcv
    BY <1>1, <2>1
  <2> QED BY <2>1, <2>2, <2>3
<1>8. peer.rcv = b + 1 + n
  <2> HIDE DEF b, n
  <2> QED BY <1>4, <1>6
<1>9. end <= b + Script + 1
  BY <1>5 DEF Ranged, SegEnd
<1>10. \/ rcv = peer.rcv /\ got = peer.got
       \/ /\ rcv = peer.rcv + len /\ len > 0 /\ old >= 0 /\ rcv <= end
          /\ got \in Seq(Bytes) /\ Len(got) = Len(peer.got) + len
          /\ \A i \in 1 .. Len(got) : got[i] = Byte(peer.port, i)
  <2>1. CASE old >= 0 /\ len > 0
    <3>1. rcv = peer.rcv + len /\ got = peer.got \o SubSeq(m.data, old + 1, old + len)
      <4>1. rcv = peer.rcv + len /\ rcv > peer.rcv
        BY SMTT(40), <1>1, <1>7, <2>1
      <4> HIDE DEF rcv
      <4> QED BY <4>1
    <3>2. old \in Nat /\ len \in Nat /\ old + len <= Len(m.data) /\ rcv <= end /\ end > peer.rcv
      <4> HIDE DEF old, len, end, rcv
      <4> QED BY SMTT(40), <1>1, <1>7, <2>1, <3>1
    <3>3. PICK first \in Int, last \in Int : first = old + 1 /\ last = old + len
      BY <3>2
    <3>4. 1 <= first /\ first <= last /\ last <= Len(m.data) /\ last - first + 1 = len
      <4> HIDE DEF old, len
      <4> QED BY SMTT(40), <1>7, <2>1, <3>2, <3>3
    <3>5. ASSUME NEW j \in first .. last
          PROVE  m.data[j] = Byte(peer.port, Len(peer.got) + (j - first + 1))
      <4>1. Truthful(m)
        <5> HIDE DEF end
        <5> QED BY SMTT(40), <1>1, <1>6, <1>7, <3>2
      <4>2. j \in 1 .. Len(m.data)
        BY <1>1, <3>4
      <4>3. m.data[j] = Byte(m.port, m.seq - b + j - 1)
        BY <1>5, <4>1, <4>2 DEF Truthful
      <4> DEFINE at == peer.rcv
                 from == m.seq
      <4>4. at = b + 1 + n /\ from = at - old /\ first = old + 1 /\ old \in Int /\ at \in Int /\ from \in Int
        BY <1>1, <1>7, <1>8, <3>3
      <4>5. from - b + j - 1 = n + (j - first + 1)
        <5> HIDE DEF b, old, n, at, from
        <5> QED BY <1>4, <4>4
      <4> QED BY <4>3, <4>5
    <3>6. Carries(peer.got, 0, n, peer.port)
      <4>1. \A i \in 1 .. Len(peer.got) : peer.got[i] = Byte(peer.port, i)
        BY DEF PeerStands, EchoInOrder
      <4>2. \A i \in 1 .. n : 0 + i = i
        BY SMTT(40), <1>4
      <4> QED BY <1>1, <4>1, <4>2 DEF Carries
    <3>7. got = peer.got \o SubSeq(m.data, first, last)
      BY <3>1, <3>3
    <3> HIDE DEF got
    <3>8. /\ got \in Seq(Bytes) /\ Len(got) = Len(peer.got) + (last - first + 1)
          /\ \A i \in 1 .. Len(got) : got[i] = Byte(peer.port, i)
      <4>1. peer.port \in Int /\ n \in Nat
        BY <1>1, <1>4
      <4>2. LiesAt(m.data, first, last, n, peer.port)
        BY <1>1, <3>4, <3>5 DEF LiesAt
      <4>3. PICK piece : piece = SubSeq(m.data, first, last)
        OBVIOUS
      <4>4. PICK k \in Nat : k = last - first + 1
        BY <3>4
      <4>5. PICK all \in Nat : all = n + k
        BY <4>1
      <4> HIDE DEF n, len, old
      <4>6. Carries(piece, n, k, peer.port)
        BY <4>1, <4>2, <4>3, <4>4, PieceOfData
      <4>7. got = peer.got \o piece
        BY <3>7, <4>3
      <4>8. Carries(got, 0, all, peer.port)
        BY <3>6, <4>1, <4>5, <4>6, <4>7, PieceBehind
      <4>9. \A i \in 1 .. all : 0 + i = i
        OBVIOUS
      <4> QED BY <4>4, <4>5, <4>8, <4>9 DEF Carries, n
    <3> HIDE DEF rcv, old, len
    <3> QED BY <2>1, <3>1, <3>2, <3>4, <3>8
  <2>2. CASE ~(old >= 0 /\ len > 0)
    <3>1. rcv = peer.rcv
      BY <2>2
    <3>2. ~(rcv > peer.rcv)
      BY <1>1, <3>1
    <3> HIDE DEF rcv
    <3>3. got = peer.got \o <<>>
      BY <3>2
    <3>4. peer.got \o <<>> = peer.got
      BY <1>1
    <3> QED BY <3>1, <3>3, <3>4
  <2> QED BY <2>1, <2>2
<1> HIDE DEF got
<1>11. /\ got \in Seq(Bytes) /\ Len(peer.got) <= Len(got) /\ Len(got) <= Script
       /\ \A i \in 1 .. Len(got) : got[i] = Byte(peer.port, i)
       /\ rcv = b + 1 + Len(got) /\ Len(got) \in Nat
       /\ Len(got) # Len(peer.got) => b + 1 + Len(got) <= end
  <2>1. CASE rcv = peer.rcv /\ got = peer.got
    <3>1. \A i \in 1 .. Len(peer.got) : peer.got[i] = Byte(peer.port, i)
      BY DEF PeerStands, EchoInOrder
    <3> HIDE DEF rcv, b
    <3> QED BY <1>1, <1>8, <2>1, <3>1
  <2>2. CASE ~(rcv = peer.rcv /\ got = peer.got)
    <3>1. /\ rcv = peer.rcv + len /\ len > 0 /\ rcv <= end
          /\ got \in Seq(Bytes) /\ Len(got) = Len(peer.got) + len
          /\ \A i \in 1 .. Len(got) : got[i] = Byte(peer.port, i)
      BY <1>10, <2>2
    <3>2. Script \in Nat
      BY FarTyped
    <3> HIDE DEF rcv, b, len, end
    <3> DEFINE at == peer.rcv
               g == Len(got)
    <3>3. at = b + 1 + n /\ rcv = at + len /\ g = n + len /\ at \in Int /\ len \in Int /\ end \in Int
      BY <1>1, <1>7, <1>8, <3>1
    <3>4. n <= g /\ g <= Script /\ rcv = b + 1 + g /\ g \in Nat
      <4>1. /\ b \in Int /\ n \in Nat /\ len > 0 /\ rcv <= end /\ end <= b + Script + 1
            /\ at = b + 1 + n /\ rcv = at + len /\ g = n + len
            /\ at \in Int /\ len \in Int /\ end \in Int
        BY <1>4, <1>9, <3>1, <3>3
      <4> HIDE DEF n, g, at
      <4> QED BY ONLY <3>2, <4>1
    <3> QED BY <3>1, <3>4
  <2> QED BY <2>1, <2>2
<1>12. r.unread >= 0
  <2> HIDE DEF rcv
  <2> QED BY SMTT(40), <1>1, <1>3, <1>7
<1>13. r.finRcvd => "fin" \in m.flags /\ end = b + 1 + Len(got)
  <2>1. fin => "fin" \in m.flags /\ rcv = end
    OBVIOUS
  <2> HIDE DEF fin, rcv, end
  <2> QED BY <1>3, <1>6, <1>11, <2>1
<1>14. r.rcv = b + 1 + Len(r.got) + (IF r.finRcvd THEN 1 ELSE 0)
  <2>1. r.finRcvd <=> fin
    BY <1>3, <1>6
  <2> HIDE DEF fin, rcv, b
  <2> QED BY <1>3, <1>11, <2>1
<1>15. Takes(r, m, b)
  <2>1. end = SegEnd(m)
    BY DEF SegEnd
  <2> HIDE DEF end, b, fin, rcv
  <2> QED BY <1>3, <1>11, <1>12, <1>13, <1>14, <2>1 DEF Takes
<1> QED BY <1>5, <1>6, <1>15 DEF r

LEMMA AcceptedStream ==
  ASSUME Inv, StreamInv, s' = s, toDevice' = toDevice, gone' = gone, toPeer' \subseteq toPeer,
         NEW m \in Under(s), m.port = peer.port, peer.st = "established",
         peer' = Accepted(m), peer' # peer
  PROVE  StreamInv'
<1>1. /\ Flow(s) /\ Echoing(s) /\ PeerStands /\ PeerTyped(peer) /\ s.out = {}
      /\ \A k \in toDevice : Heard(k) /\ Arriving(k)
      /\ Sent(m)
  <2>1. Flow(s) /\ Echoing(s) /\ PeerStands /\ PeerTyped(peer) /\ s.out = {}
        /\ \A k \in toDevice : Heard(k) /\ Arriving(k)
    BY DEF StreamInv, Inv, Typed
  <2>2. Sent(m)
    BY <2>1 DEF Under, Inv, Typed
  <2> QED BY <2>1, <2>2
<1>2. \A n \in Under(s) : Ranged(n) /\ Behind(n, s) /\ Known(n)
  BY <1>1 DEF Flow, OnTheWay
<1>3. Start(m.seq) = Start(peer.rcv) /\ ~peer.finRcvd /\ Takes(peer', m, Start(peer.rcv)) /\ PeerTyped(peer')
  BY <1>1, <1>2, AcceptedTakes, AcceptedTyped
<1> DEFINE b == Start(peer.rcv)
           n == Len(peer.got)
           k == Len(peer'.got)
           end == SegEnd(m)
<1>4. /\ b \in Int /\ Start(b) = b /\ n \in Nat /\ n <= Script /\ Script \in Nat
      /\ peer.rcv = b + 1 + n /\ end \in Int /\ peer.rcv \in Int
  <2>1. peer.rcv \in Int /\ peer.got \in Seq(Bytes) /\ n <= Script
        /\ peer.rcv = b + 1 + n + (IF peer.finRcvd THEN 1 ELSE 0)
    BY <1>1 DEF PeerTyped, PeerStands
  <2>2. b \in Int /\ Start(b) = b
    BY <2>1, StartBelow, StartTwice
  <2>3. n \in Nat /\ end \in Int /\ Script \in Nat
    BY SMTT(40), <1>1, <2>1, FarTyped DEF Sent, SegEnd
  <2>4. peer.rcv = b + 1 + n
    <3> HIDE DEF b, n
    <3> QED BY <1>3, <2>1, <2>2, <2>3
  <2> QED BY <2>1, <2>2, <2>3, <2>4
<1>5. /\ peer'.st \in {"established", "closed"} /\ peer'.port = peer.port /\ peer'.next = peer.next
      /\ peer'.unread >= 0 /\ peer'.got \in Seq(Bytes) /\ n <= k /\ k <= Script
      /\ \A i \in 1 .. k : peer'.got[i] = Byte(peer.port, i)
      /\ k # n => b + 1 + k <= end
      /\ peer'.rcv = b + 1 + k + (IF peer'.finRcvd THEN 1 ELSE 0)
      /\ peer'.finRcvd => "fin" \in m.flags /\ end = b + 1 + k
  BY <1>3 DEF Takes
<1>6. k \in Nat
  BY <1>5
<1> HIDE DEF b, n, k, end
<1>7. Start(peer'.rcv) = b /\ peer.rcv <= peer'.rcv /\ peer'.rcv \in Int
      /\ (peer'.finRcvd => peer'.rcv = end + 1)
  <2>1. PICK x \in Int : x = peer'.rcv
    BY <1>4, <1>5, <1>6
  <2>2. b <= x /\ x < b + Far
    BY <1>4, <1>5, <1>6, <2>1, FarTyped
  <2>3. Start(x) = b
    BY <1>4, <2>2, StartIs
  <2> QED BY <1>4, <1>5, <1>6, <2>1, <2>3
<1>8. Under(s)' \subseteq Under(s) /\ m \in Under(s)
  BY <1>1 DEF Under
<1>9. OnTheWay(s)' /\ FinEnds(s)'
  <2>1. ASSUME NEW u \in Under(s) PROVE Known(u)'
    <3> SUFFICES ASSUME u.port = peer.port, Start(u.seq) = b
                 PROVE  /\ Truthful(u) \/ SegEnd(u) <= peer'.rcv
                        /\ peer'.finRcvd => SegEnd(u) <= peer'.rcv - 1
      BY <1>2, <1>5, <1>7 DEF Known, Truthful
    <3>1. Truthful(u) \/ SegEnd(u) <= peer.rcv
      BY <1>2 DEF Known, b
    <3>2. u.seq \in Int /\ SegEnd(u) \in Int
      BY <1>1, <1>2 DEF Under, Inv, Typed, Sent, SegEnd
    <3>3. peer'.finRcvd => SegEnd(u) <= end
      BY <1>1, <1>3, <1>5 DEF Flow, FinEnds, b, end
    <3> QED BY <1>4, <1>7, <3>1, <3>2, <3>3
  <2>2. OnTheWay(s)'
    BY <1>1, <1>2, <1>8, <2>1 DEF OnTheWay, Behind
  <2>3. FinEnds(s)'
    BY <1>1, <1>8 DEF Flow, FinEnds
  <2> QED BY <2>2, <2>3
<1>10. Joins(s)' => Joins(s) /\ s.iss = b /\ end <= s.iss + 1 + s.txHead
                    /\ ("fin" \in m.flags => end = s.iss + 1 + s.txHead)
  <2> SUFFICES ASSUME Joins(s)'
               PROVE  Joins(s) /\ s.iss = b /\ end <= s.iss + 1 + s.txHead
                      /\ ("fin" \in m.flags => end = s.iss + 1 + s.txHead)
    OBVIOUS
  <2>1. s.port = peer.port /\ s.synSent /\ s.iss = b
    BY <1>5, <1>7 DEF Joins
  <2>2. Behind(m, s)
    BY <1>2
  <2> QED BY <1>3, <2>1, <2>2 DEF Joins, Behind, b, end
<1>11. Joined(s)'
  <2> SUFFICES ASSUME Joins(s)'
               PROVE  /\ s.txTail <= k /\ k <= s.txHead
                      /\ peer'.finRcvd => k = s.txHead
    BY DEF Joined, k
  <2>1. s.txTail \in Int /\ s.txHead \in Int
    BY DEF Inv, Typed, Good, AtRest, Connected, Socket, TxOrder
  <2>2. s.txTail <= n /\ n <= s.txHead
    BY <1>1, <1>10 DEF Flow, Joined, n
  <2>3. s.iss = b /\ end <= s.iss + 1 + s.txHead
        /\ ("fin" \in m.flags => end = s.iss + 1 + s.txHead)
    BY <1>10
  <2> QED BY SMTT(40), <1>4, <1>5, <1>6, <2>1, <2>2, <2>3
<1>12. Apart(s)' /\ Early(s)' /\ Ports(s)' /\ TxBytes(s)' /\ Timed(s)'
  <2>1. Apart(s)' /\ Early(s)'
    BY <1>1, <1>5, <1>7 DEF Flow, Apart, Early, b
  <2>2. Ports(s)' /\ TxBytes(s)' /\ Timed(s)'
    BY <1>1, <1>5 DEF Flow, Ports, TxBytes, Timed
  <2> QED BY <2>1, <2>2
<1>13. Flow(s)'
  BY <1>1, <1>9, <1>11, <1>12 DEF Flow
<1>14. Echoing(s)'
  <2>1. RxBytes(s) => RxBytes(s)'
    BY DEF RxBytes
  <2>2. Unfinished(s) => (Joins(s)' => ~peer'.finRcvd)
    BY <1>1, <1>3, <1>5, <1>10 DEF Echoing, b
  <2> QED BY <1>1, <1>8, <2>1, <2>2 DEF Echoing, Unfinished
<1>15. PeerStands'
  <2>1. EchoInOrder'
    BY <1>5 DEF EchoInOrder, k
  <2>2. peer'.st = "established" =>
          /\ peer'.rcv = Start(peer'.rcv) + 1 + Len(peer'.got) + (IF peer'.finRcvd THEN 1 ELSE 0)
          /\ Len(peer'.got) <= Script /\ peer'.next <= Script + 1
    BY <1>1, <1>5, <1>7 DEF PeerStands, k
  <2>3. PeerTyped(peer') /\ peer'.port >= 0 /\ peer'.got \in Seq(Bytes) /\ peer'.unread >= 0
        /\ (gone' => peer'.st = "closed") /\ peer'.st # "synSent"
    BY <1>1, <1>3, <1>5 DEF PeerStands
  <2> QED BY <2>1, <2>2, <2>3 DEF PeerStands
<1>16. \A h \in toDevice' : Heard(h)'
  <2> SUFFICES ASSUME NEW h \in toDevice PROVE Heard(h)'
    OBVIOUS
  <2>1. h.ack \in Int
    BY <1>1 DEF Arriving
  <2> QED BY <1>1, <1>4, <1>5, <1>7, <2>1 DEF Heard, b
<1> QED BY <1>13, <1>14, <1>15, <1>16 DEF StreamInv

LEMMA ReceivesStream ==
  ASSUME Inv, StreamInv, NEW m \in toPeer, PeerReceives(m)
  PROVE  StreamInv'
<1> DEFINE h == [port |-> peer.port, kind |-> "rst"]
<1>1. PeerTyped(peer) /\ PeerStands
  BY DEF Inv, Typed, StreamInv
<1>2. s' = s /\ toDevice' = toDevice /\ gone' = gone /\ ~gone /\ toPeer' \subseteq toPeer
  BY DEF PeerReceives
<1>3. Heard(h) /\ h.kind = "rst" /\ h.port = peer.port
  <2>1. h.kind = "rst" /\ h.port = peer.port
    OBVIOUS
  <2> HIDE DEF h
  <2>2. peer.port \in Int
    BY <1>1 DEF PeerTyped
  <2> QED BY <2>1, <2>2 DEF Heard
<1> HIDE DEF h
<1>4. CASE peer' = peer
  BY <1>1, <1>2, <1>3, <1>4, PeerGoesOn DEF PeerStands
<1>5. CASE peer' = [NoPeer EXCEPT !.port = peer.port]
  BY <1>2, <1>3, <1>5, PeerEndsStream
<1>6. CASE peer' # peer /\ peer' # [NoPeer EXCEPT !.port = peer.port]
  <2>1. /\ m.port = peer.port /\ peer.st # "closed" /\ "rst" \notin m.flags
        /\ \/ /\ peer.st = "synSent" /\ "syn" \in m.flags
              /\ peer' = [peer EXCEPT !.st = "established", !.unacked = 1, !.rcv = m.seq + 1]
           \/ peer.st # "synSent" /\ peer' = Accepted(m)
    BY <1>6 DEF PeerReceives
  <2>2. m \in Under(s)
    BY <2>1 DEF Under
  <2>3. peer.st \in {"synSent", "established"}
    BY <1>1, <2>1 DEF PeerTyped
  <2>4. CASE peer.st = "synSent"
    BY <1>2, <2>1, <2>2, <2>4, AnswerStream
  <2>5. CASE peer.st = "established"
    BY <1>2, <1>6, <2>1, <2>2, <2>5, AcceptedStream
  <2> QED BY <2>3, <2>4, <2>5
<1> QED BY <1>4, <1>5, <1>6

LEMMA RemoteKeepsStream ==
  ASSUME Inv, StreamInv, Remote
  PROVE  StreamInv'
<1>1. PeerTyped(peer) /\ PeerStands /\ peer.port \in Int
  BY DEF Inv, Typed, StreamInv, PeerTyped
<1>2. CASE PeerOpen
  BY <1>2, PeerOpenStream
<1>3. CASE PeerSyn
  <2> DEFINE h == Segment("syn", 0, 0, FALSE, 0, 0)
  <2>1. s' = s /\ gone' = gone /\ toPeer' \subseteq toPeer /\ peer' = peer
        /\ toDevice' \in {toDevice, toDevice \cup {h}}
    BY <1>3 DEF PeerSyn, PeerSends
  <2>2. h.kind = "syn" /\ h.port = peer.port
    BY DEF Segment
  <2> HIDE DEF h
  <2>3. Heard(h)
    BY <1>1, <2>2 DEF Heard
  <2> QED BY <1>1, <2>1, <2>3, PeerGoesOn DEF PeerStands
<1>4. CASE PeerSegment
  BY <1>4, PeerSegmentStream
<1>5. CASE PeerClose \/ PeerReads
  <2> DEFINE h == [port |-> peer.port, kind |-> "rst"]
  <2>1. h.kind = "rst" /\ h.port = peer.port
    OBVIOUS
  <2> HIDE DEF h
  <2>2. Heard(h)
    BY <1>1, <2>1 DEF Heard
  <2>3. s' = s /\ gone' = gone /\ toPeer' \subseteq toPeer /\ toDevice' = toDevice
        /\ peer' \in {[peer EXCEPT !.fin = TRUE], [peer EXCEPT !.unread = 0]}
    BY <1>5 DEF PeerClose, PeerReads
  <2>4. /\ peer'.st = peer.st /\ peer'.port = peer.port /\ peer'.rcv = peer.rcv
        /\ peer'.got = peer.got /\ peer'.finRcvd = peer.finRcvd /\ peer'.next = peer.next
        /\ peer'.unread \in {0, peer.unread} /\ PeerTyped(peer')
    BY <1>1, <2>3 DEF PeerTyped, PeerFields
  <2>5. peer'.unread >= 0
    BY <1>1, <2>4 DEF PeerStands
  <2>6. /\ peer.st = "established" => peer'.next <= Script + 1
        /\ peer.st = "synSent" => peer'.next = 1
    BY <1>1, <2>4 DEF PeerStands
  <2> QED BY <2>2, <2>3, <2>4, <2>5, <2>6, PeerGoesOn
<1>6. CASE PeerAbort
  <2> DEFINE h == Segment("rst", peer.next, 0, FALSE, peer.rcv, 0)
  <2>1. s' = s /\ gone' = gone /\ toPeer' \subseteq toPeer
        /\ peer' = [NoPeer EXCEPT !.port = peer.port]
        /\ toDevice' \in {toDevice, toDevice \cup {h}}
    BY <1>6 DEF PeerAbort, PeerSends
  <2>2. h.kind = "rst" /\ h.port = peer.port
    BY DEF Segment
  <2> HIDE DEF h
  <2> QED BY <2>1, <2>2, PeerEndsStream
<1>7. CASE PeerVanishes
  <2> DEFINE h == [port |-> peer.port, kind |-> "rst"]
  <2>1. h.kind = "rst" /\ h.port = peer.port
    OBVIOUS
  <2> HIDE DEF h
  <2>2. s' = s /\ gone' /\ toPeer' \subseteq toPeer /\ peer' = NoPeer /\ toDevice' = toDevice
    BY <1>7 DEF PeerVanishes
  <2> QED BY <2>1, <2>2, PeerEndsStream
<1>8. CASE \E m \in toPeer : PeerReceives(m) \/ PeerRefuses(m)
  <2>1. PICK m \in toPeer : PeerReceives(m) \/ PeerRefuses(m)
    BY <1>8
  <2>2. CASE PeerReceives(m)
    BY <2>2, ReceivesStream
  <2>3. CASE PeerRefuses(m)
    <3> DEFINE h == [port |-> m.port, kind |-> "rst", seq |-> m.ack, len |-> 0,
                     fin |-> FALSE, ack |-> 0, window |-> 0]
    <3>1. s' = s /\ gone' = gone /\ toPeer' \subseteq toPeer /\ peer' = peer
          /\ toDevice' \in {toDevice, toDevice \cup {h}} /\ "rst" \notin m.flags
      BY <2>3 DEF PeerRefuses
    <3>2. h.kind = "rst" /\ h.port = m.port
      OBVIOUS
    <3> HIDE DEF h
    <3>3. m \in Under(s)
      BY <3>1 DEF Under
    <3>4. Known(m)
      BY <3>3 DEF StreamInv, Flow, OnTheWay
    <3>5. Heard(h)
      BY <3>2, <3>4 DEF Heard, Known
    <3> QED BY <1>1, <3>1, <3>5, PeerGoesOn DEF PeerStands
  <2> QED BY <2>1, <2>2, <2>3
<1> QED BY <1>2, <1>3, <1>4, <1>5, <1>6, <1>7, <1>8 DEF Remote

LEMMA InitialStream == Init => StreamInv
<1> SUFFICES ASSUME Init PROVE StreamInv
  OBVIOUS
<1>1. s = ClosedSocket(FALSE, 0) /\ toDevice = {} /\ toPeer = {} /\ peer = NoPeer /\ gone = FALSE
  BY DEF Init
<1>2. /\ s.sm = "CLOSED" /\ s.port = 0 /\ s.iss = 0
      /\ s.txTail = 0 /\ s.txUnacked = 0 /\ s.txHead = 0
      /\ s.rxTail = 0 /\ s.rxHead = 0 /\ s.hole = -1
      /\ s.synQueue = <<>> /\ s.out = {} /\ s.txFin = FALSE
  BY <1>1 DEF ClosedSocket
<1>3. /\ peer.st = "closed" /\ peer.port = 0 /\ peer.got = <<>> /\ peer.unread = 0
  BY <1>1 DEF NoPeer
<1>4. Script \in Nat
  BY FarTyped
<1>5. Under(s) = {} /\ ~Joins(s)
  BY <1>1, <1>2, <1>3 DEF Under, Joins
<1>6. Start(s.iss) = s.iss
  <2>1. Far * 0 = 0
    BY FarTyped
  <2> QED BY <1>2, <2>1, StartOfProduct
<1>7. \A p \in 0 .. 0 - 1 : FALSE
  OBVIOUS
<1>8. Flow(s)
  <2>1. OnTheWay(s) /\ FinEnds(s) /\ Joined(s) /\ Apart(s) /\ Early(s)
    BY <1>3, <1>5 DEF OnTheWay, FinEnds, Joined, Apart, Early
  <2>2. Ports(s) /\ Timed(s)
    BY <1>2, <1>3 DEF Ports, Timed
  <2>3. TxBytes(s)
    BY <1>2, <1>4, <1>7 DEF TxBytes, Holds
  <2> QED BY <1>6, <2>1, <2>2, <2>3 DEF Flow
<1>9. Echoing(s)
  <2>1. RxBytes(s)
    BY <1>2, <1>4, <1>7 DEF RxBytes, Holds
  <2> QED BY <1>2, <1>5, <2>1 DEF Echoing
<1>10. PeerStands
  <2>1. PeerTyped(peer)
    BY <1>1 DEF NoPeer, PeerTyped, PeerFields
  <2>2. EchoInOrder
    BY <1>3 DEF EchoInOrder
  <2> QED BY <1>3, <2>1, <2>2 DEF PeerStands
<1> QED BY <1>1, <1>8, <1>9, <1>10 DEF StreamInv

LEMMA StreamStepKeeps == Inv /\ StreamInv /\ [Next]_allVars => StreamInv'
<1> SUFFICES ASSUME Inv, StreamInv, [Next]_allVars PROVE StreamInv'
  OBVIOUS
<1>1. CASE Pass
  BY <1>1, PassKeepsStream DEF Pass, TimerPass
<1>2. CASE Remote /\ UNCHANGED server
  BY <1>2, RemoteKeepsStream
<1>3. CASE UNCHANGED allVars
  <2>1. s' = s /\ toDevice' = toDevice /\ toPeer' = toPeer /\ peer' = peer /\ gone' = gone
    BY <1>3 DEF allVars, vars
  <2>2. Flow(s)' /\ Echoing(s)'
    <3>1. Flow(s) /\ Echoing(s) /\ s.out = {}
      BY DEF StreamInv, Inv, Typed
    <3> QED BY <2>1, <3>1, FewerFlow
  <2>3. PeerStands' /\ \A h \in toDevice' : Heard(h)'
    BY <2>1 DEF StreamInv, PeerStands, EchoInOrder, Heard
  <2> QED BY <2>2, <2>3 DEF StreamInv
<1> QED BY <1>1, <1>2, <1>3 DEF Next

\* The inductive invariant of the stream holds in every state: whatever is lost,
\* repeated or late, each segment carries the bytes of its place, what the remote
\* node has got lies between the ends of the transmit FIFO, and the receive FIFO
\* holds what the remote node has sent.
THEOREM StreamAlways == Spec => []StreamInv
<1>1. Init => StreamInv
  BY InitialStream
<1>2. Inv /\ StreamInv /\ [Next]_allVars => StreamInv'
  BY StreamStepKeeps
<1> QED BY <1>1, <1>2, Always, PTL DEF Spec

\* The remote node gets back what it has sent, byte for byte from the first on:
\* no retransmission, window, overtaking or wrap of the two rings of TCP.c makes
\* it see a byte twice, out of its place or of an earlier connection.  It rests
\* on InTime: the tests of HandleTCPSeg cut the distance of a segment to a WORD
\* (TCP.c:3756), and one that came later than half of it would be stored as new.
THEOREM EchoIsTheStream == Spec => []EchoInOrder
<1>1. StreamInv => EchoInOrder
  BY DEF StreamInv, PeerStands
<1> QED BY <1>1, StreamAlways, PTL

\* A socket of a connection, in any state, waits for a timer that runs or for a
\* segment it is about to send, unless nothing of it is under way and its bytes
\* or its FIN meet a closed window, or a FIN came twice in FIN_WAIT_2: a remote
\* node that is gone, with bytes under way to it or not, does not keep the only
\* socket.
THEOREM SocketIsNotLost == Spec => []NotForgotten
<1>1. Inv /\ StreamInv => NotForgotten
  <2> SUFFICES ASSUME Inv, StreamInv, s.sm \in States \ {"CLOSED", "LISTEN"}, ~Hung
               PROVE  Running(s) # {} \/ s.asap \/ s.asapKeepTimer
    BY DEF NotForgotten
  <2>1. Alive(s) /\ Timed(s)
    BY DEF Inv, StreamInv, Typed, Flow, Good, AtRest, Idle
  <2>2. s.timer \/ s.sm = "ESTABLISHED" => "eventTime" \in Running(s)
    BY DEF Running, Timers
  <2>3. s.sm = "CLOSE_WAIT" => "closeWaitTime" \in Running(s)
    BY DEF Running, Timers
  <2> QED
    BY <2>1, <2>2, <2>3 DEF Alive, Waits, Timed, Hung, ZeroWindow, States, Open, Leaving
<1> QED BY <1>1, Always, StreamAlways, PTL

LEMMA SameStart ==
  ASSUME Inv, StreamInv, SameConnection
  PROVE  Joins(s)
<1>1. Start(peer.rcv) = Start(s.iss)
  BY DEF SameConnection, Start
<1>2. Start(s.iss) = s.iss
  BY DEF StreamInv, Flow
<1> QED BY <1>1, <1>2 DEF SameConnection, Joins

\* A FIN of the server reaches the remote node behind the last byte that the
\* server has written, however often SendTCP had to keep it back for the window
\* or for the size of a segment.
THEOREM FinIsTheEnd == Spec => []FinMeansAll
<1>1. Inv /\ StreamInv => FinMeansAll
  BY SameStart DEF FinMeansAll, StreamInv, Flow, Joined
<1> QED BY <1>1, Always, StreamAlways, PTL

\* DropAcked takes no byte from the transmit FIFO that the remote node has not
\* got: no acknowledgment that is late, that comes twice, or that counts the FIN
\* makes the stack forget what it may have to send again.
THEOREM NothingIsDroppedEarly == Spec => []DroppedWasReceived
<1>1. Inv /\ StreamInv => DroppedWasReceived
  BY SameStart DEF DroppedWasReceived, StreamInv, Flow, Joined
<1> QED BY <1>1, Always, StreamAlways, PTL
=============================================================================
