-------------------------- MODULE UdpClientsProofs --------------------------
(***************************************************************************)
(* Proofs about UdpClients: for any number of sockets, ports, tries and    *)
(* stations, sockets keep their owners, frames go to the right station and *)
(* late answers reach nobody.                                              *)
(***************************************************************************)
EXTENDS UdpClients, FiniteSetTheorems, WellFoundedInduction, TLAPS

-----------------------------------------------------------------------------
(* The inductive invariant: the types; the owners of the sockets; which     *)
(* state of a client goes with which socket; and that a late answer is for  *)
(* a port that nobody has any more, since a port is never handed out twice. *)

States == {"CLOSED", "OPENED", "DNS_RESOLVE", "DNS_IS_RESOLVED", "SEND_ARP", "GET_ARP"}
Ips == Addresses \cup {None}
Macs == Local \cup {None}
Socket == [st : States, port : 0 .. DhcpPort, ip : Ips, mac : Macs]
Message == [to : 1 .. Ports, from : Ips, late : BOOLEAN]
Resolver ==
  [inUse : BOOLEAN, socket : 0 .. MaxSockets, arps : 0 .. ArpTries, fails : 0 .. Failures,
   mac : Macs, sm : {"START", "ARP_START", "ARP_RESOLVE", "OPEN_SOCKET", "QUERY",
                     "GET_RESULT", "FAIL", "DONE"}]

Typed ==
  /\ phase \in {"tasks", "receive", "apps"}
  /\ sockets \in [Sockets -> Socket] /\ nextPort \in 1 .. Ports + 1
  /\ rx \in [socket : 0 .. MaxSockets, ok : BOOLEAN, late : BOOLEAN]
  /\ cache \in [ip : Macs, mac : Macs]
  /\ servers[1] \in Ips /\ servers[2] \in Ips
  /\ dns \in Resolver
  /\ sntp \in [st : {"HOME", "IS_OPENED", "SEND", "RECV", "WAIT"}, socket : 0 .. MaxSockets]
  /\ dhcp \in 0 .. MaxSockets
  /\ net \in SUBSET Message

Owned ==
  /\ \A s \in Sockets :
       sockets[s].st # "CLOSED" <=> s = sntp.socket \/ s = dns.socket \/ s = dhcp
  /\ sntp.socket # 0 => sntp.socket # dns.socket /\ sntp.socket # dhcp
  /\ dns.socket # 0 => dns.socket # dhcp
  /\ sntp.st \in {"IS_OPENED", "SEND", "RECV"} <=> sntp.socket # 0

Structure ==
  /\ \A s \in Sockets : sockets[s].port = 0 <=> sockets[s].st = "CLOSED"
  /\ \A s \in Sockets : sockets[s].st \notin {"CLOSED", "OPENED"} => s = sntp.socket
  /\ dns.sm \in {"START", "ARP_START", "ARP_RESOLVE", "OPEN_SOCKET", "DONE"} => dns.socket = 0
  /\ dns.sm \in {"QUERY", "GET_RESULT"} => dns.socket # 0
  /\ ~dns.inUse => dns.sm = "DONE"
  /\ dns.sm = "ARP_START" => dns.arps < ArpTries

Fresh ==
  /\ \A s \in Sockets : s # dhcp => sockets[s].port < nextPort
  /\ dhcp # 0 => sockets[dhcp].port = DhcpPort
  /\ \A s, t \in Sockets : s # t /\ sockets[s].port # 0 => sockets[s].port # sockets[t].port
  /\ \A m \in net : m.to < nextPort
  /\ \A m \in net : m.late => \A s \in Sockets : sockets[s].port # m.to
  /\ ~rx.late

IInv == Typed /\ Owned /\ Structure /\ Fresh

\* A set of natural numbers that is not empty has a least member.
LEMMA LeastNumber ==
  ASSUME NEW S \in SUBSET Nat, S # {}
  PROVE  \E x \in S : \A y \in S : x <= y
<1> DEFINE R == OpToRel(<, Nat)
<1>1. IsWellFoundedOn(R, Nat)
  BY NatLessThanWellFounded, Zenon
<1>2. \A x, y \in Nat : y < x => <<y, x>> \in R
  BY Zenon DEF OpToRel
<1> HIDE DEF R
<1>3. PICK x \in S : \A y \in S : ~ (<<y, x>> \in R)
  BY <1>1, WFMin
<1>4. \A y \in S : ~ (y < x)
  BY <1>2, <1>3
<1> QED BY <1>4

\* And, when it is bounded, a greatest one.
LEMMA GreatestNumber ==
  ASSUME NEW n \in Nat, NEW S \in SUBSET (0 .. n), S # {}
  PROVE  \E x \in S : \A y \in S : y <= x
<1> DEFINE T == {k \in 0 .. n : n - k \in S}
<1>1. T \in SUBSET Nat /\ T # {}
  <2>1. PICK x \in S : TRUE
    OBVIOUS
  <2>2. n - x \in 0 .. n /\ n - (n - x) = x
    OBVIOUS
  <2>3. n - x \in T
    BY <2>2
  <2>4. T \in SUBSET Nat
    OBVIOUS
  <2> HIDE DEF T
  <2> QED BY <2>3, <2>4
<1>2. PICK k \in T : \A j \in T : k <= j
  <2> HIDE DEF T
  <2> QED BY <1>1, LeastNumber
<1>3. n - k \in S
  BY <1>2
<1>4. ASSUME NEW y \in S PROVE y <= n - k
  <2>1. n - y \in T
    OBVIOUS
  <2> QED BY <2>1, <1>2
<1> QED BY <1>3, <1>4

\* The socket that an open takes is a free one, and is refused only when none is.
LEMMA FirstFreeIsFree ==
  ASSUME Typed
  PROVE  /\ FirstFree \in 0 .. MaxSockets
         /\ FirstFree # 0 => FirstFree \in Sockets /\ sockets[FirstFree].port = 0
         /\ FirstFree = 0 => \A s \in Sockets : sockets[s].port # 0
<1> USE ClientsAssumption
<1>1. FreeSockets \in SUBSET Nat
  BY DEF FreeSockets, Sockets
<1>2. CASE FreeSockets = {}
  BY <1>2 DEF FirstFree, FreeSockets
<1>3. CASE FreeSockets # {}
  <2>1. \E s \in FreeSockets : \A t \in FreeSockets : s <= t
    BY <1>1, <1>3, LeastNumber
  <2>2. FirstFree \in FreeSockets
    BY <1>3, <2>1 DEF FirstFree
  <2> QED BY <2>2 DEF FreeSockets, Sockets
<1> QED BY <1>2, <1>3

\* While one of the three clients has no socket, there is a free one.
LEMMA OneIsFree ==
  ASSUME IInv, sntp.socket = 0
  PROVE  FirstFree # 0
<1> USE ClientsAssumption
<1>1. ASSUME NEW s \in {1, 2, 3}, s # dns.socket, s # dhcp PROVE FirstFree # 0
  <2>1. s \in Sockets /\ s # sntp.socket
    BY DEF Sockets
  <2>2. sockets[s].port = 0
    BY <1>1, <2>1 DEF IInv, Owned, Structure
  <2> QED BY <2>1, <2>2, FirstFreeIsFree DEF IInv
<1>2. \/ 1 # dns.socket /\ 1 # dhcp
      \/ 2 # dns.socket /\ 2 # dhcp
      \/ 3 # dns.socket /\ 3 # dhcp
  OBVIOUS
<1> QED BY <1>1, <1>2

\* A datagram goes to a socket that has its port.
LEMMA MatchingSocketHasPort ==
  ASSUME Typed, NEW m \in net
  PROVE  /\ FindMatchingSocket(m) \in 0 .. MaxSockets
         /\ FindMatchingSocket(m) # 0 =>
              /\ FindMatchingSocket(m) \in Sockets
              /\ sockets[FindMatchingSocket(m)].port = m.to
<1> USE ClientsAssumption
<1> DEFINE OnPort == {s \in Sockets : sockets[s].port = m.to}
           Exact == {s \in OnPort : sockets[s].ip = m.from}
<1>1. ASSUME NEW S \in SUBSET OnPort, S # {} PROVE Last(S) \in S
  <2>1. S \in SUBSET (0 .. MaxSockets)
    BY DEF Sockets
  <2>2. \E s \in S : \A t \in S : t <= s
    BY <1>1, <2>1, GreatestNumber
  <2> QED BY <2>2 DEF Last
<1>2. Exact # {} => Last(Exact) \in OnPort
  BY <1>1
<1>3. OnPort # {} => Last(OnPort) \in OnPort
  BY <1>1
<1>4. FindMatchingSocket(m) = IF OnPort = {} THEN 0
        ELSE IF Exact = {} THEN Last(OnPort) ELSE Last(Exact)
  BY DEF FindMatchingSocket
<1>5. FindMatchingSocket(m) = 0 \/ FindMatchingSocket(m) \in OnPort
  <2> HIDE DEF OnPort, Exact
  <2> QED BY <1>2, <1>3, <1>4
<1> QED BY <1>5 DEF Sockets

-----------------------------------------------------------------------------
(* Opening and closing a socket.                                            *)

\* Closing touches one socket, and only marks answers as late.
LEMMA Closing ==
  ASSUME IInv, NEW s \in 0 .. MaxSockets
  PROVE  /\ Without(s) \in [Sockets -> Socket]
         /\ LateFor(s) \in SUBSET Message
         /\ \A m \in LateFor(s) : m.to < nextPort
         /\ \A m \in LateFor(s) : m.late =>
              \A t \in Sockets : Without(s)[t].port # m.to
<1> USE ClientsAssumption DEF IInv, Typed
<1>1. Closed \in Socket
  BY DEF Closed, Socket, States, Ips, Macs, DhcpPort
<1>2. Without(s) \in [Sockets -> Socket]
  BY <1>1 DEF Without
<1>3. ASSUME NEW m \in LateFor(s)
      PROVE  /\ m \in Message /\ m.to < nextPort
             /\ m.late => \/ \A t \in Sockets : sockets[t].port # m.to
                          \/ s \in Sockets /\ m.to = sockets[s].port
  <2>1. CASE s = 0
    <3>1. m \in net
      BY <2>1 DEF LateFor
    <3> QED BY <3>1 DEF Fresh
  <2>2. CASE s # 0
    <3>1. PICK n \in net : m = [n EXCEPT !.late = @ \/ n.to = sockets[s].port]
      BY <2>2 DEF LateFor
    <3>2. n \in Message /\ (n.late \/ n.to = sockets[s].port) \in BOOLEAN
      BY DEF Message
    <3>3. /\ m.to = n.to /\ m \in Message
          /\ m.late => n.late \/ n.to = sockets[s].port
      BY <3>1, <3>2 DEF Message
    <3>4. s \in Sockets
      BY <2>2 DEF Sockets
    <3>5. n.late => \A t \in Sockets : sockets[t].port # n.to
      BY DEF Fresh
    <3>6. n.to < nextPort
      BY DEF Fresh
    <3> QED BY <3>3, <3>4, <3>5, <3>6
  <2> QED BY <2>1, <2>2
<1>4. ASSUME NEW m \in LateFor(s), m.late, NEW t \in Sockets
      PROVE  Without(s)[t].port # m.to
  <2>1. m.to # 0
    BY <1>3 DEF Message
  <2>2. CASE t = s
    BY <2>1, <2>2 DEF Without, Closed
  <2>3. CASE t # s
    <3>1. Without(s)[t] = sockets[t]
      BY <2>3 DEF Without
    <3> QED BY <1>3, <1>4, <2>1, <2>3, <3>1 DEF Fresh
  <2> QED BY <2>2, <2>3
<1>5. \A m \in LateFor(s) : m \in Message /\ m.to < nextPort
  BY <1>3
<1> QED BY <1>2, <1>4, <1>5

\* Opening fills one free socket.
LEMMA Opens ==
  ASSUME Typed, FirstFree # 0, NEW port \in 1 .. DhcpPort,
         NEW st \in States, NEW ip \in Ips, NEW mac \in Macs
  PROVE  /\ Opened(port, st, ip, mac) \in [Sockets -> Socket]
         /\ Opened(port, st, ip, mac)[FirstFree] = [st |-> st, port |-> port, ip |-> ip, mac |-> mac]
         /\ \A t \in Sockets : t # FirstFree => Opened(port, st, ip, mac)[t] = sockets[t]
<1>1. FirstFree \in Sockets
  BY FirstFreeIsFree
<1>2. [st |-> st, port |-> port, ip |-> ip, mac |-> mac] \in Socket
  BY ClientsAssumption DEF Socket, DhcpPort
<1> QED BY <1>1, <1>2 DEF Opened, Typed

-----------------------------------------------------------------------------
(* Every action keeps the invariant.                                        *)

LEMMA ARPProcessKeeps ==
  ASSUME IInv, NEW station \in Local, ARPProcess(station)
  PROVE  IInv'
<1> USE DEF IInv, ARPProcess
<1>1. Typed'
  BY DEF Typed, Macs
<1>2. Owned' /\ Structure'
  BY DEF Owned, Structure
<1>3. Fresh'
  BY DEF Fresh
<1> QED BY <1>1, <1>2, <1>3

LEMMA DHCPTaskKeeps ==
  ASSUME IInv, DHCPTask
  PROVE  IInv'
<1> USE ClientsAssumption DEF IInv
<1>1. UNCHANGED <<phase, nextPort, rx, cache, servers, dns, sntp>>
  BY DEF DHCPTask
<1>2. CASE dhcp = 0 /\ FirstFree = 0
  <2>1. UNCHANGED vars
    BY <1>2 DEF DHCPTask, UDPClose, Opened, vars
  <2> QED BY <2>1 DEF vars, Typed, Owned, Structure, Fresh
<1>3. CASE dhcp = 0 /\ FirstFree # 0
  <2>1. sockets' = Opened(DhcpPort, "OPENED", None, None) /\ dhcp' = FirstFree /\ net' = net
    BY <1>3 DEF DHCPTask
  <2>2. /\ sockets' \in [Sockets -> Socket]
        /\ sockets'[dhcp'] = [st |-> "OPENED", port |-> DhcpPort, ip |-> None, mac |-> None]
        /\ \A t \in Sockets : t # dhcp' => sockets'[t] = sockets[t]
    BY <1>3, <2>1, Opens DEF States, Ips, Macs, DhcpPort
  <2>3. dhcp' \in Sockets /\ sockets[dhcp'].port = 0
    BY <1>3, <2>1, FirstFreeIsFree
  <2>4. sockets[dhcp'].st = "CLOSED"
    BY <2>3 DEF Structure
  <2>5. Typed'
    BY <1>1, <2>1, <2>2, <2>3 DEF Typed, Sockets
  <2>6. Owned'
    BY <1>1, <1>3, <2>2, <2>3, <2>4 DEF Owned, Sockets
  <2>7. Structure'
    BY <1>1, <2>2, <2>3, <2>4 DEF Structure, DhcpPort
  <2>8. Fresh'
    <3>1. \A m \in net : m.to < DhcpPort
      BY DEF Fresh, Typed, Message, DhcpPort
    <3>2. \A s \in Sockets : sockets[s].port < DhcpPort /\ sockets[s].port < nextPort
      BY <1>3 DEF Fresh, Typed, DhcpPort, Socket, Sockets
    <3> QED BY <1>1, <1>3, <2>1, <2>2, <2>3, <3>1, <3>2 DEF Fresh, Sockets, Typed, Message, DhcpPort
  <2> QED BY <2>5, <2>6, <2>7, <2>8
<1>4. CASE dhcp # 0
  <2>1. sockets' = Without(dhcp) /\ net' = LateFor(dhcp) /\ dhcp' = 0
    BY <1>4 DEF DHCPTask, UDPClose
  <2>2. /\ sockets' \in [Sockets -> Socket] /\ net' \in SUBSET Message
        /\ \A m \in net' : m.to < nextPort
        /\ \A m \in net' : m.late => \A t \in Sockets : sockets'[t].port # m.to
    BY <2>1, Closing DEF Typed
  <2>3. \A t \in Sockets : sockets'[t] = IF t = dhcp THEN Closed ELSE sockets[t]
    BY <2>1 DEF Without
  <2>4. Typed'
    BY <1>1, <2>1, <2>2 DEF Typed
  <2>5. Owned'
    BY <1>1, <1>4, <2>1, <2>3 DEF Owned, Closed, Sockets
  <2>6. Structure'
    BY <1>1, <2>3 DEF Structure, Closed
  <2>7. Fresh'
    BY <1>1, <2>1, <2>2, <2>3 DEF Fresh, Closed, Typed
  <2> QED BY <2>4, <2>5, <2>6, <2>7
<1> QED BY <1>2, <1>3, <1>4

LEMMA ReceiveKeeps ==
  ASSUME IInv, Receive
  PROVE  IInv'
<1> USE ClientsAssumption DEF IInv
<1>1. UNCHANGED <<nextPort, cache, servers, dns, sntp, dhcp>>
  BY DEF Receive
<1>2. CASE phase' = "apps" /\ UNCHANGED <<rx, net, sockets>>
  BY <1>1, <1>2 DEF Typed, Owned, Structure, Fresh
<1>3. ASSUME NEW m \in net, net' = net \ {m}, FindMatchingSocket(m) = 0,
             UNCHANGED <<phase, rx, sockets>>
      PROVE  IInv'
  BY <1>1, <1>3 DEF Typed, Owned, Structure, Fresh
<1>4. ASSUME NEW m \in net, net' = net \ {m}, NEW s, s = FindMatchingSocket(m), s # 0,
             NEW ok \in BOOLEAN, rx' = [socket |-> s, ok |-> ok, late |-> m.late],
             sockets' = [sockets EXCEPT ![s].ip = m.from,
                     ![s].mac = IF sockets[s].ip = m.from THEN @ ELSE NextHop(m.from)],
             phase' = "apps"
      PROVE  IInv'
  <2>1. s \in Sockets /\ s \in 0 .. MaxSockets /\ sockets[s].port = m.to
    BY <1>4, MatchingSocketHasPort
  <2>2. ~m.late
    BY <2>1 DEF Fresh
  <2>3. m \in Message /\ NextHop(m.from) \in Macs
    BY DEF Typed, NextHop, Macs
  <2> DEFINE mac == IF sockets[s].ip = m.from THEN sockets[s].mac ELSE NextHop(m.from)
             rec == [sockets[s] EXCEPT !.ip = m.from, !.mac = mac]
  <2>10. sockets[s] \in Socket
    BY <2>1 DEF Typed
  <2>11. mac \in Macs
    BY <2>3, <2>10 DEF Socket
  <2>12. rec \in Socket /\ rec.st = sockets[s].st /\ rec.port = sockets[s].port
    <3> HIDE DEF mac
    <3> QED BY <2>3, <2>10, <2>11 DEF Socket, Message
  <2>13. sockets' = [sockets EXCEPT ![s] = rec]
    BY <1>4
  <2> HIDE DEF rec
  <2>4. sockets' \in [Sockets -> Socket]
    BY <2>1, <2>12, <2>13 DEF Typed
  <2>5. \A t \in Sockets : sockets'[t].st = sockets[t].st /\ sockets'[t].port = sockets[t].port
    BY <2>1, <2>12, <2>13 DEF Typed
  <2>6. rx' \in [socket : 0 .. MaxSockets, ok : BOOLEAN, late : BOOLEAN] /\ ~rx'.late
    BY <1>4, <2>1, <2>2, <2>3 DEF Message
  <2>7. Typed'
    BY <1>1, <1>4, <2>4, <2>6 DEF Typed
  <2>8. Owned' /\ Structure'
    BY <1>1, <2>5 DEF Owned, Structure
  <2>9. Fresh'
    BY <1>1, <1>4, <2>5, <2>6, SMTT(20) DEF Fresh, Typed, Sockets
  <2> QED BY <2>7, <2>8, <2>9
<1> QED BY <1>2, <1>3, <1>4 DEF Receive

\* A client's question adds an answer under way to the port of its socket.
LEMMA Asking ==
  ASSUME IInv, NEW s \in Sockets, s = sntp.socket \/ s = dns.socket
  PROVE  /\ Answer(sockets[s].ip, sockets[s].port) \in Message
         /\ sockets[s].port < nextPort
         /\ ~Answer(sockets[s].ip, sockets[s].port).late
         /\ Answer(sockets[s].ip, sockets[s].port).to = sockets[s].port
<1> USE ClientsAssumption DEF IInv
<1>1. s # dhcp /\ s # 0
  BY DEF Owned, Sockets
<1>2. sockets[s].port # 0
  BY DEF Owned, Structure
<1>3. sockets[s] \in Socket
  BY DEF Typed
<1>4. sockets[s].port < nextPort
  BY <1>1 DEF Fresh
<1>5. sockets[s].port \in 1 .. Ports
  BY <1>2, <1>3, <1>4 DEF Socket, Typed, DhcpPort
<1> QED BY <1>3, <1>4, <1>5 DEF Answer, Message, Socket

\* A client that closes its socket keeps what others rely on.
LEMMA SntpCloses ==
  ASSUME IInv, sntp.st \in {"IS_OPENED", "SEND", "RECV"}, UDPClose(sntp.socket),
         NEW st \in {"HOME", "WAIT"}, sntp' = [st |-> st, socket |-> 0],
         phase' = "tasks", UNCHANGED <<nextPort, rx, cache, servers, dns, dhcp>>
  PROVE  IInv'
<1> USE ClientsAssumption DEF IInv
<1>1. sockets' = Without(sntp.socket) /\ net' = LateFor(sntp.socket)
  BY DEF UDPClose
<1>2. sntp.socket # 0 /\ sntp.socket \in 0 .. MaxSockets
  BY DEF Owned, Typed
<1>3. /\ sockets' \in [Sockets -> Socket] /\ net' \in SUBSET Message
      /\ \A m \in net' : m.to < nextPort
      /\ \A m \in net' : m.late => \A t \in Sockets : sockets'[t].port # m.to
  BY <1>1, <1>2, Closing
<1>4. \A t \in Sockets : sockets'[t] = IF t = sntp.socket THEN Closed ELSE sockets[t]
  BY <1>1 DEF Without
<1>5. Typed'
  BY <1>3 DEF Typed
<1>6. Owned'
  BY <1>2, <1>4 DEF Owned, Closed, Sockets
<1>7. Structure'
  BY <1>2, <1>4 DEF Structure, Closed
<1>8. Fresh'
  BY <1>2, <1>3, <1>4 DEF Fresh, Closed, Owned, Typed, Sockets
<1> QED BY <1>5, <1>6, <1>7, <1>8

LEMMA HomeKeeps ==
  ASSUME IInv, Home, phase' = "tasks", UNCHANGED <<rx, cache, servers, dns, dhcp>>
  PROVE  IInv'
<1> USE ClientsAssumption DEF IInv
<1>1. sntp.socket = 0
  BY DEF Home, Owned
<1>2. FirstFree # 0
  BY <1>1, OneIsFree
<1>3. /\ nextPort <= Ports /\ nextPort' = nextPort + 1 /\ net' = net
      /\ sockets' = Opened(nextPort, "DNS_RESOLVE", None, None)
      /\ sntp' = [st |-> "IS_OPENED", socket |-> FirstFree]
  BY <1>1, <1>2 DEF Home, UDPOpenEx
<1>4. FirstFree \in Sockets /\ sockets[FirstFree].port = 0 /\ FirstFree # 0
  BY <1>2, FirstFreeIsFree
<1>5. sockets[FirstFree].st = "CLOSED"
  BY <1>4 DEF Structure
<1> DEFINE f == FirstFree
<1> HIDE DEF f
<1>6. /\ sockets' \in [Sockets -> Socket]
      /\ sockets'[f] = [st |-> "DNS_RESOLVE", port |-> nextPort, ip |-> None, mac |-> None]
      /\ \A t \in Sockets : t # f => sockets'[t] = sockets[t]
  BY <1>2, <1>3, Opens DEF f, Typed, States, Ips, Macs, DhcpPort
<1>7. f \in Sockets /\ f # 0 /\ sockets[f].st = "CLOSED" /\ sntp' = [st |-> "IS_OPENED", socket |-> f]
  BY <1>3, <1>4, <1>5 DEF f
<1>8. Typed'
  BY <1>3, <1>6, <1>7 DEF Typed, Sockets
<1>9. Owned'
  BY <1>1, <1>6, <1>7 DEF Owned, Sockets
<1>10. Structure'
  BY <1>1, <1>6, <1>7 DEF Structure, Typed, Owned, Sockets
<1>11. Fresh'
  <2>1. f # dhcp
    BY <1>7 DEF Owned
  <2>2. \A m \in net : m.to < nextPort
    BY DEF Fresh
  <2>3. \A s \in Sockets : sockets[s].port # nextPort
    BY <1>3 DEF Fresh, Typed, Socket, DhcpPort, Sockets
  <2>4. nextPort \in Int /\ \A m \in net : m.to \in Int
    BY DEF Typed, Message
  <2>5. \A s \in Sockets : sockets[s].port \in Int
    BY DEF Typed, Socket
  <2>6. \A s \in Sockets : s # dhcp' => sockets'[s].port < nextPort'
    BY <1>3, <1>6, <1>7, <2>4, <2>5 DEF Fresh
  <2>7. dhcp' # 0 => sockets'[dhcp'].port = DhcpPort
    BY <1>6, <2>1 DEF Fresh, Typed, Sockets
  <2>8. ASSUME NEW s \in Sockets, NEW t \in Sockets, s # t, sockets'[s].port # 0
        PROVE  sockets'[s].port # sockets'[t].port
    BY <1>6, <1>7, <2>3, <2>8 DEF Fresh
  <2>9. ASSUME NEW m \in net
        PROVE  /\ m.to < nextPort'
               /\ m.late => \A s \in Sockets : sockets'[s].port # m.to
    BY <1>3, <1>6, <1>7, <2>2, <2>4 DEF Fresh
  <2>10. ~rx'.late
    BY DEF Fresh
  <2> QED BY <1>3, <2>6, <2>7, <2>8, <2>9, <2>10 DEF Fresh
<1> QED BY <1>8, <1>9, <1>10, <1>11

LEMMA SNTPClientKeeps ==
  ASSUME IInv, SNTPClient
  PROVE  IInv'
<1> USE ClientsAssumption DEF IInv
<1>1. phase' = "tasks" /\ UNCHANGED <<rx, cache, servers, dns, dhcp>>
  BY DEF SNTPClient
<1>2. CASE Home
  BY <1>1, <1>2, HomeKeeps
<1>3. ASSUME Abandon, sntp.st \in {"IS_OPENED", "SEND", "RECV"} PROVE IInv'
  BY <1>1, <1>3, SntpCloses DEF Abandon
<1>4. ASSUME UNCHANGED <<sockets, nextPort, net>>, sntp'.socket = sntp.socket,
             sntp.st \in {"IS_OPENED", "SEND", "RECV"} <=> sntp'.st \in {"IS_OPENED", "SEND", "RECV"},
             sntp' \in [st : {"HOME", "IS_OPENED", "SEND", "RECV", "WAIT"}, socket : 0 .. MaxSockets]
      PROVE  IInv'
  BY <1>1, <1>4 DEF Typed, Owned, Structure, Fresh
<1>5. CASE AwaitOpened
  <2>1. ASSUME sntp' = [sntp EXCEPT
             !.st = IF sockets[sntp.socket].st = "OPENED" THEN "SEND" ELSE @]
        PROVE  /\ sntp'.socket = sntp.socket
               /\ sntp'.st \in {"IS_OPENED", "SEND"}
               /\ sntp' \in [st : {"HOME", "IS_OPENED", "SEND", "RECV", "WAIT"}, socket : 0 .. MaxSockets]
    BY <1>5, <2>1 DEF AwaitOpened, Typed
  <2> QED BY <1>3, <1>4, <1>5, <2>1 DEF AwaitOpened
<1>6. CASE Send
  <2>1. ASSUME net' = net \cup {Answer(sockets[sntp.socket].ip, sockets[sntp.socket].port)},
               sntp' = [sntp EXCEPT !.st = "RECV"], UNCHANGED <<sockets, nextPort>>
        PROVE  IInv'
    <3>1. sntp.socket \in Sockets /\ sntp.st = "SEND"
      BY <1>6 DEF Send, Owned, Typed, Sockets
    <3>2. /\ sntp'.socket = sntp.socket /\ sntp'.st = "RECV"
          /\ sntp' \in [st : {"HOME", "IS_OPENED", "SEND", "RECV", "WAIT"}, socket : 0 .. MaxSockets]
      BY <2>1 DEF Typed
    <3>3. Typed'
      BY <1>1, <2>1, <3>1, <3>2, Asking DEF Typed
    <3>4. Owned' /\ Structure'
      BY <1>1, <2>1, <3>1, <3>2 DEF Owned, Structure
    <3>5. Fresh'
      BY <1>1, <2>1, <3>1, Asking DEF Fresh
    <3> QED BY <3>3, <3>4, <3>5
  <2> QED BY <1>3, <1>6, <2>1 DEF Send
<1>7. CASE Recv
  <2>1. CASE Abandon
    BY <1>3, <1>7, <2>1 DEF Recv
  <2>2. CASE UNCHANGED <<sntp, sockets, nextPort, net>>
    BY <1>1, <2>2 DEF Typed, Owned, Structure, Fresh
  <2>3. CASE UDPClose(sntp.socket) /\ sntp' = [st |-> "WAIT", socket |-> 0] /\ UNCHANGED nextPort
    BY <1>1, <1>7, <2>3, SntpCloses DEF Recv
  <2> QED BY <1>7, <2>1, <2>2, <2>3 DEF Recv
<1>8. CASE Wait
  <2>1. CASE UNCHANGED sntp
    BY <1>1, <1>8, <2>1 DEF Wait, Typed, Owned, Structure, Fresh
  <2>2. CASE sntp' = [st |-> "HOME", socket |-> 0]
    <3>1. sntp.socket = 0 /\ sntp.st = "WAIT"
      BY <1>8 DEF Wait, Owned
    <3> QED BY <1>4, <1>8, <2>2, <3>1 DEF Wait
  <2> QED BY <1>8, <2>1, <2>2 DEF Wait
<1> QED BY <1>2, <1>5, <1>6, <1>7, <1>8 DEF SNTPClient

-----------------------------------------------------------------------------
(* UDPTask and the resolver.                                                *)

Frame == phase' = "receive" /\ rx' = NoData /\ UNCHANGED <<cache, sntp, dhcp>>

\* Only the state of the resolver moves.
LEMMA OnlyResolverMoves ==
  ASSUME IInv, Frame, UNCHANGED <<sockets, nextPort, net>>,
         servers'[1] \in Ips, servers'[2] \in Ips,
         dns' \in Resolver, dns'.socket = dns.socket,
         dns'.sm \in {"START", "ARP_START", "ARP_RESOLVE", "OPEN_SOCKET", "DONE"} => dns.socket = 0,
         dns'.sm \in {"QUERY", "GET_RESULT"} => dns.socket # 0,
         ~dns'.inUse => dns'.sm = "DONE",
         dns'.sm = "ARP_START" => dns'.arps < ArpTries
  PROVE  IInv'
<1> USE ClientsAssumption DEF IInv, Frame
<1>1. Typed'
  BY DEF Typed, NoData
<1>2. Owned' /\ Structure'
  BY DEF Owned, Structure
<1>3. Fresh'
  BY DEF Fresh, NoData
<1> QED BY <1>1, <1>2, <1>3

\* Only the state of the socket on its way moves.
LEMMA OnlyOpeningMoves ==
  ASSUME IInv, Frame, NEW s \in Opening, UNCHANGED <<nextPort, servers, net>>,
         dns' \in Resolver, dns'.socket = dns.socket,
         dns'.sm \in {"START", "ARP_START", "ARP_RESOLVE", "OPEN_SOCKET", "DONE"} => dns.socket = 0,
         dns'.sm \in {"QUERY", "GET_RESULT"} => dns.socket # 0,
         ~dns'.inUse => dns'.sm = "DONE",
         dns'.sm = "ARP_START" => dns'.arps < ArpTries,
         NEW st \in States \ {"CLOSED"}, NEW mac \in Macs,
         sockets' = [sockets EXCEPT ![s] = [sockets[s] EXCEPT !.st = st, !.mac = mac]]
  PROVE  IInv'
<1> USE ClientsAssumption DEF IInv, Frame
<1> DEFINE rec == [sockets[s] EXCEPT !.st = st, !.mac = mac]
<1>1. s \in Sockets /\ sockets[s].st # "CLOSED" /\ s = sntp.socket
  BY DEF Opening, Structure
<1>2. rec \in Socket /\ rec.st = st /\ rec.port = sockets[s].port
  BY <1>1, ZenonT(30) DEF Typed, Socket
<1> HIDE DEF rec
<1>3. /\ sockets' \in [Sockets -> Socket]
      /\ sockets'[s].st = st /\ sockets'[s].port = sockets[s].port
      /\ \A t \in Sockets : t # s => sockets'[t] = sockets[t]
  <2>1. sockets' = [sockets EXCEPT ![s] = rec]
    BY DEF rec
  <2> QED BY <1>1, <1>2, <2>1 DEF Typed
<1>4. Typed'
  BY <1>3 DEF Typed, NoData
<1>5. Owned'
  BY <1>1, <1>3 DEF Owned
<1>6. Structure'
  BY <1>1, <1>3 DEF Structure
<1>7. Fresh'
  <2>1. \A t \in Sockets : sockets'[t].port = sockets[t].port
    BY <1>3
  <2> QED BY <2>1 DEF Fresh, NoData, Typed, Sockets
<1> QED BY <1>4, <1>5, <1>6, <1>7

LEMMA BeginUsageKeeps ==
  ASSUME IInv, Frame, NEW s \in Opening, BeginUsage(s)
  PROVE  IInv'
<1> USE ClientsAssumption
<1>1. dns \in Resolver /\ sockets[s] \in Socket /\ s \in Sockets
  BY DEF IInv, Typed, Opening
<1>2. CASE dns.inUse
  BY <1>1, <1>2, OnlyResolverMoves DEF BeginUsage, IInv, Structure, Typed
<1>3. CASE ~dns.inUse
  <2>1. /\ dns' = [dns EXCEPT !.inUse = TRUE, !.sm = "START"]
        /\ sockets' = [sockets EXCEPT ![s].st = "DNS_IS_RESOLVED"]
        /\ UNCHANGED <<nextPort, servers, net>>
    BY <1>3 DEF BeginUsage
  <2>2. dns.socket = 0
    BY <1>3 DEF IInv, Structure
  <2>3. dns' \in Resolver /\ dns'.socket = dns.socket /\ dns'.sm = "START" /\ dns'.inUse
    BY <1>1, <2>1 DEF Resolver
  <2>4. PICK mac \in Macs : mac = sockets[s].mac
    BY <1>1 DEF Socket
  <2>5. PICK st \in States \ {"CLOSED"} : st = "DNS_IS_RESOLVED"
    BY DEF States
  <2>6. sockets' = [sockets EXCEPT ![s] = [sockets[s] EXCEPT !.st = st, !.mac = mac]]
    BY <1>1, <2>1, <2>4, <2>5 DEF IInv, Typed, Socket
  <2>7. /\ dns'.sm \in {"START", "ARP_START", "ARP_RESOLVE", "OPEN_SOCKET", "DONE"} => dns.socket = 0
        /\ dns'.sm \in {"QUERY", "GET_RESULT"} => dns.socket # 0
        /\ ~dns'.inUse => dns'.sm = "DONE"
        /\ dns'.sm = "ARP_START" => dns'.arps < ArpTries
    BY <2>2, <2>3
  <2>8. dns' \in Resolver /\ dns'.socket = dns.socket /\ UNCHANGED <<nextPort, servers, net>>
    BY <2>1, <2>3
  <2> QED BY ONLY IInv, Frame, <2>6, <2>7, <2>8, OnlyOpeningMoves
<1> QED BY <1>2, <1>3

LEMMA ArpStatesKeep ==
  ASSUME IInv, Frame, NEW s \in Opening, SendArp(s) \/ GetArp(s)
  PROVE  IInv'
<1> USE ClientsAssumption
<1>1. dns \in Resolver /\ sockets[s] \in Socket /\ s \in Sockets /\ cache.mac \in Macs
  BY DEF IInv, Typed, Opening
<1>2. UNCHANGED <<nextPort, servers, net, dns>>
  BY DEF SendArp, GetArp
<1>3. ASSUME NEW st \in {"GET_ARP", "SEND_ARP", "OPENED"}, NEW mac \in Macs,
             sockets' = [sockets EXCEPT ![s] = [sockets[s] EXCEPT !.st = st, !.mac = mac]]
      PROVE  IInv'
  <2>1. st \in States \ {"CLOSED"}
    BY DEF States
  <2> QED BY <1>1, <1>2, <1>3, <2>1, OnlyOpeningMoves DEF IInv, Structure
<1>4. sockets[s].mac \in Macs
  BY <1>1 DEF Socket
<1>5. ASSUME NEW st \in {"GET_ARP", "SEND_ARP"}, sockets' = [sockets EXCEPT ![s].st = st]
      PROVE  IInv'
  <2>1. sockets' = [sockets EXCEPT ![s] = [sockets[s] EXCEPT !.st = st, !.mac = sockets[s].mac]]
    BY <1>1, <1>5 DEF IInv, Typed, Socket
  <2> QED BY <1>3, <1>4, <2>1
<1>6. CASE SendArp(s)
  BY <1>5, <1>6 DEF SendArp
<1>7. CASE GetArp(s)
  <2>1. CASE sockets' = [sockets EXCEPT ![s].st = "OPENED", ![s].mac = cache.mac]
    <3>1. sockets' = [sockets EXCEPT ![s] = [sockets[s] EXCEPT !.st = "OPENED", !.mac = cache.mac]]
      BY <1>1, <2>1 DEF IInv, Typed, Socket
    <3> QED BY <1>1, <1>3, <3>1
  <2>2. CASE UNCHANGED sockets
    BY <1>1, <1>2, <2>2, OnlyResolverMoves DEF IInv, Structure, Typed
  <2> QED BY <1>5, <1>7, <2>1, <2>2 DEF GetArp
<1> QED BY <1>6, <1>7

LEMMA QuietResolverStepsKeep ==
  ASSUME IInv, Frame, AskNameServer \/ AwaitNameServer \/ AwaitResult
  PROVE  IInv'
<1> USE ClientsAssumption
<1>1. dns \in Resolver /\ ArpTries \in Nat \ {0}
  BY DEF IInv, Typed
<1>2. CASE AskNameServer
  <2>1. /\ dns' = [dns EXCEPT !.sm = "ARP_RESOLVE",
              !.arps = IF dns.sm = "START" THEN 1 ELSE @ + 1,
              !.fails = IF dns.sm = "START" THEN 0 ELSE @]
        /\ UNCHANGED <<sockets, nextPort, servers, net>>
        /\ dns.sm \in {"START", "ARP_START"}
    BY <1>2 DEF AskNameServer
  <2>2. dns.sm = "ARP_START" => dns.arps < ArpTries
    BY DEF IInv, Structure
  <2> DEFINE a == IF dns.sm = "START" THEN 1 ELSE dns.arps + 1
             b == IF dns.sm = "START" THEN 0 ELSE dns.fails
  <2>3. a \in 0 .. ArpTries /\ b \in 0 .. Failures
    BY <1>1, <2>1, <2>2 DEF Resolver
  <2>4. dns' = [dns EXCEPT !.sm = "ARP_RESOLVE", !.arps = a, !.fails = b]
    BY <2>1
  <2> HIDE DEF a, b
  <2>5. dns' \in Resolver /\ dns'.socket = dns.socket /\ dns'.sm = "ARP_RESOLVE" /\ dns'.inUse = dns.inUse
    BY <1>1, <2>3, <2>4 DEF Resolver
  <2>6. dns.inUse /\ dns.socket = 0
    BY <1>1, <2>1 DEF IInv, Structure, Resolver
  <2> QED BY <2>1, <2>5, <2>6, OnlyResolverMoves DEF IInv, Typed
<1>3. ASSUME NEW sm \in {"ARP_START", "FAIL"}, dns' = [dns EXCEPT !.sm = sm],
             UNCHANGED <<sockets, nextPort, servers, net>>,
             sm = "ARP_START" => dns.socket = 0 /\ dns.arps < ArpTries, dns.inUse
      PROVE  IInv'
  <2>1. /\ dns' \in Resolver /\ dns'.socket = dns.socket /\ dns'.sm = sm
        /\ dns'.inUse = dns.inUse /\ dns'.arps = dns.arps
    BY <1>1, <1>3 DEF Resolver
  <2> QED BY <1>3, <2>1, OnlyResolverMoves DEF IInv, Typed
<1>4. ASSUME UNCHANGED dns, UNCHANGED <<sockets, nextPort, servers, net>>
      PROVE  IInv'
  BY <1>1, <1>4, OnlyResolverMoves DEF IInv, Typed, Structure
<1>5. CASE AwaitNameServer
  <2>1. dns.sm = "ARP_RESOLVE" /\ dns.inUse /\ dns.socket = 0
    BY <1>1, <1>5 DEF AwaitNameServer, IInv, Structure, Resolver
  <2>2. CASE dns.arps >= ArpTries
    BY <1>1, <1>3, <1>4, <1>5, <2>1, <2>2 DEF AwaitNameServer
  <2>3. CASE ~(dns.arps >= ArpTries)
    <3>1. dns.arps < ArpTries
      BY <1>1, <2>3 DEF Resolver
    <3> QED BY <1>1, <1>3, <1>4, <1>5, <2>1, <2>3, <3>1 DEF AwaitNameServer
  <2> QED BY <2>2, <2>3
<1>6. CASE AwaitResult
  <2>1. dns.sm = "GET_RESULT" /\ dns.inUse
    BY <1>1, <1>6 DEF AwaitResult, IInv, Structure, Resolver
  <2> QED BY <1>3, <1>4, <1>6, <2>1 DEF AwaitResult
<1> QED BY <1>2, <1>5, <1>6

\* The resolver ends: its socket is closed, that of its user goes on.
LEMMA EndUsageKeeps ==
  ASSUME IInv, Frame, NEW s \in Opening, NEW valid \in BOOLEAN, EndUsage(s, valid),
         UNCHANGED nextPort, servers'[1] \in Ips, servers'[2] \in Ips
  PROVE  IInv'
<1> USE ClientsAssumption DEF IInv, Frame
<1>1. s \in Sockets /\ s = sntp.socket /\ s # dns.socket /\ s # 0 /\ dns.socket \in 0 .. MaxSockets
  BY DEF Opening, Structure, Owned, Typed, Resolver, Sockets
<1>2. /\ Without(dns.socket) \in [Sockets -> Socket] /\ LateFor(dns.socket) \in SUBSET Message
      /\ \A m \in LateFor(dns.socket) : m.to < nextPort
      /\ \A m \in LateFor(dns.socket) : m.late =>
           \A t \in Sockets : Without(dns.socket)[t].port # m.to
  BY <1>1, Closing
<1> DEFINE w == Without(dns.socket)
           rec == [w[s] EXCEPT !.st = IF valid THEN "SEND_ARP" ELSE "DNS_RESOLVE",
                               !.ip = IF valid THEN NtpServer ELSE w[s].ip]
<1>3. \A t \in Sockets : w[t] = IF t = dns.socket THEN Closed ELSE sockets[t]
  BY DEF Without
<1>4. /\ net' = LateFor(dns.socket) /\ dns' = DnsIdle
      /\ sockets' = [w EXCEPT ![s].st = IF valid THEN "SEND_ARP" ELSE "DNS_RESOLVE",
                              ![s].ip = IF valid THEN NtpServer ELSE @]
  BY DEF EndUsage
<1>5. w[s] \in Socket /\ w[s] = sockets[s] /\ w \in [Sockets -> Socket]
  BY <1>1, <1>2, <1>3
<1> HIDE DEF w
<1>6. sockets' = [w EXCEPT ![s] = rec]
  BY <1>1, <1>4, <1>5 DEF Socket
<1>7. rec \in Socket /\ rec.st \in {"SEND_ARP", "DNS_RESOLVE"} /\ rec.port = sockets[s].port
  BY <1>5 DEF Socket, States, Ips, Addresses
<1> HIDE DEF rec
<1>8. /\ sockets' \in [Sockets -> Socket]
      /\ sockets'[s].st \in {"SEND_ARP", "DNS_RESOLVE"} /\ sockets'[s].port = sockets[s].port
      /\ \A t \in Sockets : t # s => sockets'[t] = IF t = dns.socket THEN Closed ELSE sockets[t]
      /\ \A t \in Sockets : sockets'[t].port = w[t].port
  BY <1>1, <1>3, <1>5, <1>6, <1>7
<1>9. Typed'
  BY <1>2, <1>4, <1>8 DEF Typed, DnsIdle, Resolver, NoData, Macs
<1>10. Owned'
  BY <1>1, <1>4, <1>8 DEF Owned, DnsIdle, Closed, Opening, Sockets
<1>11. Structure'
  <2>1. dns'.socket = 0 /\ dns'.sm = "DONE" /\ ~dns'.inUse
    BY <1>4 DEF DnsIdle
  <2>2. sockets[s].port # 0
    BY <1>1 DEF Structure, Opening
  <2> QED BY <1>1, <1>8, <2>1, <2>2 DEF Structure, Closed
<1>12. Fresh'
  <2>1. \A m \in net' : m.late => \A t \in Sockets : sockets'[t].port # m.to
    BY <1>2, <1>4, <1>8 DEF w
  <2>2. \A t \in Sockets : sockets'[t].port = IF t = dns.socket THEN 0 ELSE sockets[t].port
    BY <1>1, <1>3, <1>8 DEF Closed
  <2>3. dhcp # 0 => dhcp \in Sockets /\ dhcp # dns.socket
    BY DEF Owned, Typed, Sockets
  <2>4. \A t \in Sockets : t # dhcp' => sockets'[t].port < nextPort'
    BY <2>2 DEF Fresh, Typed
  <2>5. dhcp' # 0 => sockets'[dhcp'].port = DhcpPort
    BY <2>2, <2>3 DEF Fresh
  <2>6. ASSUME NEW t \in Sockets, NEW u \in Sockets, t # u, sockets'[t].port # 0
        PROVE  sockets'[t].port # sockets'[u].port
    BY <2>2, <2>6 DEF Fresh
  <2>7. \A m \in net' : m.to < nextPort'
    BY <1>2, <1>4
  <2> QED BY <2>1, <2>4, <2>5, <2>6, <2>7 DEF Fresh, NoData
<1> QED BY <1>9, <1>10, <1>11, <1>12

\* With a socket of its own the resolver asks.
LEMMA OpenForQueryKeeps ==
  ASSUME IInv, Frame, OpenForQuery
  PROVE  IInv'
<1> USE ClientsAssumption DEF IInv, Frame
<1>1. /\ dns \in Resolver /\ dns.inUse /\ dns.socket = 0 /\ UNCHANGED servers
      /\ dns.sm \in {"ARP_RESOLVE", "OPEN_SOCKET"}
  BY DEF OpenForQuery, Structure, Typed, Resolver
<1> DEFINE mac == IF dns.sm = "ARP_RESOLVE" THEN cache.mac ELSE dns.mac
           f == FirstFree
<1>2. mac \in Macs /\ f \in 0 .. MaxSockets
  BY <1>1, FirstFreeIsFree DEF Typed, Resolver
<1>3. PICK free \in BOOLEAN :
        /\ UDPOpenEx("OPENED", servers[1], mac)
        /\ dns' = [dns EXCEPT !.mac = mac, !.socket = f,
             !.sm = IF f = 0 THEN "OPEN_SOCKET"
                    ELSE IF free THEN "GET_RESULT" ELSE "QUERY"]
        /\ net' = net \cup (IF f # 0 /\ free THEN {Answer(servers[1], nextPort)} ELSE {})
  BY DEF OpenForQuery
<1> HIDE DEF mac
<1>4. /\ dns' \in Resolver /\ dns'.socket = f /\ dns'.inUse
      /\ dns'.sm = IF f = 0 THEN "OPEN_SOCKET" ELSE IF free THEN "GET_RESULT" ELSE "QUERY"
  <2> HIDE DEF f
  <2> QED BY <1>1, <1>2, <1>3 DEF Resolver
<1>5. CASE f = 0
  <2>1. UNCHANGED <<sockets, nextPort, net>>
    BY <1>3, <1>5 DEF UDPOpenEx, Opened
  <2> HIDE DEF f
  <2> QED BY <1>1, <1>4, <1>5, <2>1, OnlyResolverMoves DEF Typed
<1>6. CASE f # 0
  <2>1. /\ nextPort <= Ports /\ nextPort' = nextPort + 1
        /\ sockets' = Opened(nextPort, "OPENED", servers[1], mac)
    BY <1>3, <1>6 DEF UDPOpenEx
  <2>2. f \in Sockets /\ sockets[f].port = 0
    BY <1>6, FirstFreeIsFree
  <2>3. sockets[f].st = "CLOSED"
    BY <2>2 DEF Structure
  <2>4. /\ sockets' \in [Sockets -> Socket]
        /\ sockets'[f] = [st |-> "OPENED", port |-> nextPort, ip |-> servers[1], mac |-> mac]
        /\ \A t \in Sockets : t # f => sockets'[t] = sockets[t]
    <3>1. nextPort \in 1 .. DhcpPort /\ "OPENED" \in States /\ servers[1] \in Ips
      BY <2>1 DEF States, Typed, DhcpPort
    <3> QED BY <1>2, <1>6, <2>1, <3>1, Opens
  <2> HIDE DEF f
  <2>5. Answer(servers[1], nextPort) \in Message
    BY <2>1 DEF Answer, Message, Typed
  <2>6. Typed'
    BY <1>1, <1>3, <1>4, <2>1, <2>4, <2>5 DEF Typed, NoData
  <2>7. Owned'
    BY <1>1, <1>4, <1>6, <2>2, <2>3, <2>4 DEF Owned, Sockets
  <2>8. Structure'
    BY <1>4, <1>6, <2>2, <2>3, <2>4 DEF Structure, Typed, Owned, Sockets
  <2>9. Fresh'
    <3>1. f # dhcp
      BY <2>2, <2>3 DEF Owned
    <3>2. nextPort \in Int /\ \A m \in net : m.to \in Int /\ m.to < nextPort
      BY DEF Fresh, Typed, Message
    <3>3. \A s \in Sockets : sockets[s].port # nextPort /\ sockets[s].port \in Int
      BY <2>1 DEF Fresh, Typed, Socket, DhcpPort, Sockets
    <3>4. \A s \in Sockets : s # dhcp' => sockets'[s].port < nextPort'
      BY <2>1, <2>2, <2>4, <3>2, <3>3 DEF Fresh
    <3>5. dhcp' # 0 => sockets'[dhcp'].port = DhcpPort
      BY <2>4, <3>1 DEF Fresh, Typed, Sockets
    <3>6. ASSUME NEW s \in Sockets, NEW t \in Sockets, s # t, sockets'[s].port # 0
          PROVE  sockets'[s].port # sockets'[t].port
      BY <2>2, <2>4, <3>3, <3>6 DEF Fresh
    <3>7. ASSUME NEW m \in net
          PROVE  /\ m.to < nextPort'
                 /\ m.late => \A s \in Sockets : sockets'[s].port # m.to
      BY <2>1, <2>2, <2>4, <3>2 DEF Fresh
    <3>8. LET m == Answer(servers[1], nextPort) IN m.to < nextPort' /\ ~m.late
      BY <2>1, <3>2 DEF Answer
    <3>9. \A m \in net' : m \in net \/ m = Answer(servers[1], nextPort)
      BY <1>3
    <3> QED BY <3>4, <3>5, <3>6, <3>7, <3>8, <3>9 DEF Fresh, NoData
  <2> QED BY <2>6, <2>7, <2>8, <2>9
<1> QED BY <1>5, <1>6

LEMMA QueryKeeps ==
  ASSUME IInv, Frame, Query
  PROVE  IInv'
<1> USE ClientsAssumption DEF IInv, Frame
<1>1. dns \in Resolver /\ dns.socket \in Sockets /\ dns.sm = "QUERY" /\ dns.inUse
  BY DEF Query, Structure, Typed, Resolver, Sockets
<1>2. UNCHANGED <<sockets, nextPort, servers>>
  BY DEF Query
<1>3. CASE UNCHANGED <<dns, net>>
  BY <1>1, <1>2, <1>3, OnlyResolverMoves DEF Typed, Structure
<1>4. ASSUME dns' = [dns EXCEPT !.sm = "GET_RESULT"],
             net' = net \cup {Answer(sockets[dns.socket].ip, sockets[dns.socket].port)}
      PROVE  IInv'
  <2>1. /\ dns' \in Resolver /\ dns'.socket = dns.socket /\ dns'.inUse
        /\ dns'.sm = "GET_RESULT"
    BY <1>1, <1>4 DEF Resolver
  <2>2. Typed'
    BY <1>1, <1>2, <1>4, <2>1, Asking DEF Typed, NoData
  <2>3. Owned' /\ Structure'
    BY <1>1, <1>2, <2>1 DEF Owned, Structure, Sockets
  <2>4. Fresh'
    BY <1>1, <1>2, <1>4, Asking DEF Fresh, NoData
  <2> QED BY <2>2, <2>3, <2>4
<1> QED BY <1>3, <1>4 DEF Query

\* Failed with a server, the resolver gives back its socket and goes to the other.
LEMMA NextServerKeeps ==
  ASSUME IInv, Frame, dns.sm = "FAIL", dns.fails < Failures,
         servers' = <<servers[2], servers[1]>>, UDPClose(dns.socket), UNCHANGED nextPort,
         dns' = [dns EXCEPT !.fails = @ + 1, !.arps = 0, !.socket = 0, !.sm = "ARP_START"]
  PROVE  IInv'
<1> USE ClientsAssumption DEF IInv, Frame
<1>1. dns \in Resolver /\ dns.inUse /\ dns.socket \in 0 .. MaxSockets
  BY DEF Structure, Typed, Resolver
<1>2. /\ dns' \in Resolver /\ dns'.socket = 0 /\ dns'.inUse
      /\ dns'.sm = "ARP_START" /\ dns'.arps = 0
  <2>1. dns.fails + 1 \in 0 .. Failures /\ 0 \in 0 .. ArpTries /\ 0 \in 0 .. MaxSockets
    BY <1>1 DEF Resolver
  <2> QED BY <1>1, <2>1 DEF Resolver
<1>3. sockets' = Without(dns.socket) /\ net' = LateFor(dns.socket)
  BY DEF UDPClose
<1>4. /\ sockets' \in [Sockets -> Socket] /\ net' \in SUBSET Message
      /\ \A m \in net' : m.to < nextPort
      /\ \A m \in net' : m.late => \A t \in Sockets : sockets'[t].port # m.to
  BY <1>1, <1>3, Closing
<1>5. \A t \in Sockets : sockets'[t] = IF t = dns.socket THEN Closed ELSE sockets[t]
  BY <1>3 DEF Without
<1>6. Typed'
  BY <1>2, <1>4 DEF Typed, NoData
<1>7. Owned'
  BY <1>1, <1>2, <1>5 DEF Owned, Closed, Sockets
<1>8. Structure'
  BY <1>2, <1>5 DEF Structure, Closed
<1>9. Fresh'
  <2>1. \A t \in Sockets : sockets'[t].port = IF t = dns.socket THEN 0 ELSE sockets[t].port
    BY <1>5 DEF Closed
  <2>2. dhcp # 0 => dhcp \in Sockets /\ dhcp # dns.socket
    BY DEF Owned, Typed, Sockets
  <2>3. \A t \in Sockets : t # dhcp' => sockets'[t].port < nextPort'
    BY <2>1 DEF Fresh, Typed
  <2>4. dhcp' # 0 => sockets'[dhcp'].port = DhcpPort
    BY <2>1, <2>2 DEF Fresh
  <2>5. ASSUME NEW t \in Sockets, NEW u \in Sockets, t # u, sockets'[t].port # 0
        PROVE  sockets'[t].port # sockets'[u].port
    BY <2>1, <2>5 DEF Fresh
  <2> QED BY <1>4, <2>3, <2>4, <2>5 DEF Fresh, NoData
<1> QED BY <1>6, <1>7, <1>8, <1>9

LEMMA FailKeeps ==
  ASSUME IInv, Frame, NEW s \in Opening, Fail(s)
  PROVE  IInv'
<1> USE ClientsAssumption
<1>1. /\ dns \in Resolver /\ dns.sm = "FAIL" /\ dns.inUse /\ UNCHANGED nextPort
      /\ dns.fails < Failures => ~(dns.fails >= Failures)
  BY DEF IInv, Typed, Structure, Fail, Resolver
<1>2. CASE EndUsage(s, FALSE) /\ UNCHANGED servers
  BY <1>1, <1>2, EndUsageKeeps DEF IInv, Typed
<1>3. CASE dns.fails < Failures /\ servers[2] = None
  <2>1. dns' = [dns EXCEPT !.fails = @ + 1] /\ UNCHANGED <<sockets, servers, net>>
    BY <1>1, <1>3 DEF Fail
  <2>2. /\ dns' \in Resolver /\ dns'.socket = dns.socket
        /\ dns'.sm = "FAIL" /\ dns'.inUse
    BY <1>1, <1>3, <2>1 DEF Resolver
  <2> QED BY <1>1, <2>1, <2>2, OnlyResolverMoves DEF IInv, Typed
<1>4. CASE dns.fails < Failures /\ servers[2] # None
  BY <1>1, <1>4, NextServerKeeps DEF Fail
<1> QED BY <1>1, <1>2, <1>3, <1>4 DEF Fail

LEMMA UDPTaskKeeps ==
  ASSUME IInv, UDPTask
  PROVE  IInv'
<1>1. Frame
  BY DEF UDPTask, Frame
<1>2. CASE UNCHANGED <<sockets, nextPort, servers, net, dns>>
  BY <1>1, <1>2, OnlyResolverMoves DEF IInv, Typed, Structure
<1>3. ASSUME NEW s \in Opening, BeginUsage(s) \/ SendArp(s) \/ GetArp(s)
      PROVE  IInv'
  BY <1>1, <1>3, BeginUsageKeeps, ArpStatesKeep
<1>4. ASSUME NEW s \in Opening, DNSIsResolved(s)
      PROVE  IInv'
  <2>1. CASE AskNameServer \/ AwaitNameServer \/ AwaitResult
    BY <1>1, <2>1, QuietResolverStepsKeep
  <2>2. CASE OpenForQuery
    BY <1>1, <2>2, OpenForQueryKeeps
  <2>3. CASE Query
    BY <1>1, <2>3, QueryKeeps
  <2>4. CASE TakeResult(s)
    BY <1>1, <2>4, EndUsageKeeps DEF TakeResult, IInv, Typed
  <2>5. CASE Fail(s)
    BY <1>1, <2>5, FailKeeps
  <2> QED BY <1>4, <2>1, <2>2, <2>3, <2>4, <2>5 DEF DNSIsResolved
<1> QED BY <1>2, <1>3, <1>4 DEF UDPTask

-----------------------------------------------------------------------------
(* The theorems.                                                            *)

LEMMA Inductive == SafeSpec => []IInv
<1>1. Init => IInv
  <2> SUFFICES ASSUME Init PROVE IInv
    OBVIOUS
  <2> USE ClientsAssumption DEF Init
  <2>1. Typed
    <3>1. sockets \in [Sockets -> Socket]
      BY DEF Closed, Socket, States, Ips, Macs, DhcpPort
    <3>2. dns \in Resolver
      BY DEF DnsIdle, Resolver, Macs
    <3>3. servers[1] \in Ips /\ servers[2] \in Ips
      BY DEF Ips, Addresses
    <3>4. cache \in [ip : Macs, mac : Macs]
      BY DEF Macs
    <3> QED BY <3>1, <3>2, <3>3, <3>4 DEF Typed, NoData
  <2>2. Owned /\ Structure
    BY DEF Owned, Structure, Closed, DnsIdle, Sockets
  <2>3. Fresh
    BY DEF Fresh, Closed, NoData
  <2> QED BY <2>1, <2>2, <2>3 DEF IInv
<1>2. IInv /\ [Next]_vars => IInv'
  <2> SUFFICES ASSUME IInv, [Next]_vars PROVE IInv'
    OBVIOUS
  <2>1. CASE UNCHANGED vars
    BY <2>1 DEF vars, IInv, Typed, Owned, Structure, Fresh
  <2> QED BY <2>1, ARPProcessKeeps, DHCPTaskKeeps, UDPTaskKeeps, ReceiveKeeps, SNTPClientKeeps
          DEF Next, Exhausted
<1> QED BY <1>1, <1>2, PTL DEF SafeSpec

\* Every variable keeps to its type.
THEOREM ClientsTyped == SafeSpec => []TypeOK
<1>1. IInv => TypeOK
  BY DEF IInv, Typed, TypeOK, Socket, States, Ips, Resolver
<1> QED BY <1>1, Inductive, PTL

\* A socket in use has exactly one owner who will close it, and none is closed
\* under its owner, for any number of sockets from three on.  The one socket
\* that may have none is the resolver's, after SNTPClient has closed the socket
\* whose question it was asking: no other timeout leaks one, in UDPTask,
\* DNSIsResolved, DHCPTask or SNTPClient.
THEOREM SocketsHaveOwners == SafeSpec => []SocketsOwned
<1>1. IInv => SocketsOwned
  <2> SUFFICES ASSUME IInv PROVE SocketsOwned
    OBVIOUS
  <2> USE ClientsAssumption DEF IInv, Owned, Typed, Resolver, Sockets
  <2> DEFINE r == IF Resolving THEN dns.socket ELSE 0
             held == <<sntp.socket, r, dhcp>>
             owned == {held[i] : i \in 1 .. 3} \ {0}
             used == {s \in Sockets : sockets[s].st # "CLOSED"}
  <2>1. owned = {sntp.socket, r, dhcp} \ {0}
    OBVIOUS
  <2>2. used = {sntp.socket, dns.socket, dhcp} \ {0}
    OBVIOUS
  <2>3. \A i, j \in 1 .. 3 : i # j /\ held[i] # 0 => held[i] # held[j]
    OBVIOUS
  <2>4. sntp.st \in {"IS_OPENED", "SEND", "RECV"} <=> sntp.socket # 0
    OBVIOUS
  <2>5. dns.socket # 0 => dns.inUse
    BY DEF Structure
  <2>6. owned \subseteq used
    BY <2>1, <2>2
  <2>7. used # owned => used \ owned = {dns.socket} /\ dns.inUse /\ ~Resolving
    <3>1. CASE Resolving
      BY <2>1, <2>2, <3>1
    <3>2. CASE ~Resolving
      <4>1. owned = {sntp.socket, dhcp} \ {0}
        BY <2>1, <3>2
      <4>2. (dns.socket # sntp.socket /\ dns.socket # dhcp) \/ dns.socket = 0
        OBVIOUS
      <4> QED BY <2>2, <2>5, <3>2, <4>1, <4>2
    <3> QED BY <3>1, <3>2
  <2> QED BY <2>3, <2>4, <2>6, <2>7 DEF SocketsOwned
<1> QED BY <1>1, Inductive, PTL

\* The resolver, the time client and the DHCP client never read an answer to
\* an earlier question: NextPort does not hand a port out twice.
THEOREM AnswersAreFresh == SafeSpec => []AnswerIsFresh
<1>1. IInv => AnswerIsFresh
  BY DEF IInv, Fresh, AnswerIsFresh
<1> QED BY <1>1, Inductive, PTL

\* The address that OpenForQuery keeps while no socket is free is the right one.
Hop ==
  /\ cache.mac = cache.ip
  /\ dns.sm = "OPEN_SOCKET" => servers[1] = None \/ dns.mac = NextHop(servers[1])
  /\ RightHop

\* What the cache gives for an address it holds is that station or the gateway.
LEMMA CachedHop ==
  ASSUME IInv, Hop, NEW ip, ip # None, ARPIsResolved(ip)
  PROVE  cache.mac = NextHop(ip)
<1>1. cache.ip \in Macs /\ cache.mac = cache.ip
  BY DEF IInv, Typed, Hop
<1> QED BY <1>1, ClientsAssumption DEF ARPIsResolved, NextHop, Macs

\* A frame to a station is sent to that station, or through the gateway when it
\* is in another subnet, whatever ARPProcess has put into the one cache entry.
THEOREM FramesTakeTheRightHop == SafeSpec => []RightHop
<1>1. Init => Hop
  BY DEF Init, Hop, RightHop, Closed, DnsIdle
<1>2. IInv /\ Hop /\ [Next]_vars => Hop'
  <2> SUFFICES ASSUME IInv, Hop, [Next]_vars PROVE Hop'
    OBVIOUS
  <2> USE ClientsAssumption
  <2>1. ASSUME UNCHANGED <<cache, servers, dns>>,
               \A s \in Sockets : sockets'[s].st = "OPENED" /\ sockets'[s].ip # None =>
                 sockets'[s].mac = NextHop(sockets'[s].ip)
        PROVE  Hop'
    BY <2>1 DEF Hop, RightHop
  <2>2. ASSUME NEW s \in 0 .. MaxSockets, NEW t \in Sockets
        PROVE  Without(s)[t] = IF t = s THEN Closed ELSE sockets[t]
    BY DEF Without
  <2>3. CASE UNCHANGED vars
    BY <2>3 DEF vars, Hop, RightHop
  <2>4. ASSUME NEW station \in Local, ARPProcess(station) PROVE Hop'
    BY <2>4 DEF ARPProcess, Hop, RightHop
  <2>5. CASE DHCPTask
    <3>1. CASE dhcp = 0 /\ FirstFree = 0
      BY <2>1, <2>5, <3>1 DEF DHCPTask, Opened, Hop, RightHop
    <3>2. CASE dhcp = 0 /\ FirstFree # 0
      <4>1. /\ sockets' = Opened(DhcpPort, "OPENED", None, None)
            /\ UNCHANGED <<cache, servers, dns>>
        BY <2>5, <3>2 DEF DHCPTask
      <4>2. /\ sockets'[FirstFree].ip = None
            /\ \A t \in Sockets : t # FirstFree => sockets'[t] = sockets[t]
        <5>1. DhcpPort \in 1 .. DhcpPort /\ "OPENED" \in States /\ None \in Ips /\ None \in Macs
          BY DEF States, Ips, Macs, DhcpPort
        <5>2. sockets'[FirstFree] = [st |-> "OPENED", port |-> DhcpPort, ip |-> None, mac |-> None]
          BY <3>2, <4>1, <5>1, Opens DEF IInv
        <5> QED BY <3>2, <4>1, <5>1, <5>2, Opens DEF IInv
      <4> QED BY <2>1, <4>1, <4>2 DEF Hop, RightHop
    <3>3. CASE dhcp # 0
      <4>1. sockets' = Without(dhcp) /\ UNCHANGED <<cache, servers, dns>>
        BY <2>5, <3>3 DEF DHCPTask, UDPClose
      <4> QED BY <2>1, <2>2, <4>1 DEF Hop, RightHop, Closed, IInv, Typed
    <3> QED BY <3>1, <3>2, <3>3
  <2>6. CASE Receive
    <3>1. UNCHANGED <<cache, servers, dns>>
      BY <2>6 DEF Receive
    <3>2. CASE UNCHANGED sockets
      BY <2>1, <3>1, <3>2 DEF Hop, RightHop
    <3>3. ASSUME NEW m \in net, NEW s, s = FindMatchingSocket(m), s # 0,
                 sockets' = [sockets EXCEPT ![s].ip = m.from,
                     ![s].mac = IF sockets[s].ip = m.from THEN @ ELSE NextHop(m.from)]
          PROVE  Hop'
      <4>1. s \in Sockets /\ sockets \in [Sockets -> Socket]
        BY <3>3, MatchingSocketHasPort DEF IInv, Typed
      <4>2. /\ sockets'[s].st = sockets[s].st /\ sockets'[s].ip = m.from
            /\ sockets'[s].mac = IF sockets[s].ip = m.from THEN sockets[s].mac ELSE NextHop(m.from)
            /\ \A t \in Sockets : t # s => sockets'[t] = sockets[t]
        BY <3>3, <4>1 DEF Socket
      <4> QED BY <2>1, <3>1, <4>1, <4>2 DEF Hop, RightHop
    <3> QED BY <2>6, <3>2, <3>3 DEF Receive
  <2>7. CASE SNTPClient
    <3>1. UNCHANGED <<cache, servers, dns>>
      BY <2>7 DEF SNTPClient
    <3>2. CASE UNCHANGED sockets
      BY <2>1, <3>1, <3>2 DEF Hop, RightHop
    <3>3. CASE UDPClose(sntp.socket)
      <4>1. sockets' = Without(sntp.socket)
        BY <3>3 DEF UDPClose
      <4> QED BY <2>1, <2>2, <3>1, <4>1 DEF Hop, RightHop, Closed, IInv, Typed
    <3>4. CASE UDPOpenEx("DNS_RESOLVE", None, None) /\ FirstFree # 0
      <4>1. nextPort <= Ports /\ sockets' = Opened(nextPort, "DNS_RESOLVE", None, None)
        BY <3>4 DEF UDPOpenEx
      <4>2. /\ sockets'[FirstFree].ip = None
            /\ \A t \in Sockets : t # FirstFree => sockets'[t] = sockets[t]
        <5>1. nextPort \in 1 .. DhcpPort /\ "DNS_RESOLVE" \in States /\ None \in Ips /\ None \in Macs
          BY <4>1 DEF States, Ips, Macs, DhcpPort, IInv, Typed
        <5>2. sockets'[FirstFree] = [st |-> "DNS_RESOLVE", port |-> nextPort, ip |-> None, mac |-> None]
          BY <3>4, <4>1, <5>1, Opens DEF IInv
        <5> QED BY <3>4, <4>1, <5>1, <5>2, Opens DEF IInv
      <4> QED BY <2>1, <3>1, <4>2 DEF Hop, RightHop
    <3>5. CASE UDPOpenEx("DNS_RESOLVE", None, None) /\ FirstFree = 0
      BY <3>2, <3>5 DEF UDPOpenEx, Opened
    <3> QED BY <2>7, <3>2, <3>3, <3>4, <3>5
            DEF SNTPClient, Home, AwaitOpened, Abandon, Send, Recv, Wait
  <2>8. CASE UDPTask
    <3>1. UNCHANGED cache
      BY <2>8 DEF UDPTask
    <3>2. ASSUME UNCHANGED sockets, dns'.sm # "OPEN_SOCKET" PROVE Hop'
      BY <3>1, <3>2 DEF Hop, RightHop
    <3>3. CASE UNCHANGED <<sockets, servers, dns>>
      BY <2>1, <3>1, <3>3 DEF Hop, RightHop
    <3>4. ASSUME NEW s \in Opening, BeginUsage(s) PROVE Hop'
      <4>1. CASE dns.inUse
        BY <3>3, <3>4, <4>1 DEF BeginUsage
      <4>2. CASE ~dns.inUse
        <5>1. /\ dns' = [dns EXCEPT !.inUse = TRUE, !.sm = "START"]
              /\ sockets' = [sockets EXCEPT ![s].st = "DNS_IS_RESOLVED"]
          BY <3>4, <4>2 DEF BeginUsage
        <5>2. dns'.sm = "START"
          BY <5>1 DEF IInv, Typed, Resolver
        <5>3. \A t \in Sockets : sockets'[t].st = "OPENED" => sockets'[t] = sockets[t]
          BY <5>1 DEF IInv, Typed, Socket, Opening
        <5> QED BY <3>1, <5>2, <5>3 DEF Hop, RightHop
      <4> QED BY <4>1, <4>2
    <3>5. ASSUME NEW s \in Opening, SendArp(s) \/ GetArp(s) PROVE Hop'
      <4>1. UNCHANGED <<servers, dns>> /\ s \in Sockets
        BY <3>5 DEF SendArp, GetArp, Opening
      <4>2. ASSUME NEW st \in {"GET_ARP", "SEND_ARP"}, sockets' = [sockets EXCEPT ![s].st = st]
            PROVE  Hop'
        <5>1. \A t \in Sockets : sockets'[t].st = "OPENED" => sockets'[t] = sockets[t]
          BY <4>1, <4>2 DEF IInv, Typed, Socket
        <5> QED BY <2>1, <3>1, <4>1, <5>1 DEF Hop, RightHop
      <4>3. ASSUME ARPIsResolved(sockets[s].ip),
                   sockets' = [sockets EXCEPT ![s].st = "OPENED", ![s].mac = cache.mac]
            PROVE  Hop'
        <5>1. /\ sockets'[s].ip = sockets[s].ip /\ sockets'[s].mac = cache.mac
              /\ \A t \in Sockets : t # s => sockets'[t] = sockets[t]
          BY <4>1, <4>3 DEF IInv, Typed, Socket
        <5>2. sockets[s].ip # None => cache.mac = NextHop(sockets[s].ip)
          BY <4>3, CachedHop
        <5> QED BY <2>1, <3>1, <4>1, <5>1, <5>2 DEF Hop, RightHop
      <4> QED BY <3>3, <3>5, <4>1, <4>2, <4>3 DEF SendArp, GetArp
    <3>6. CASE AskNameServer \/ AwaitNameServer \/ Query \/ AwaitResult
      <4>1. UNCHANGED sockets /\ (UNCHANGED dns \/ dns'.sm # "OPEN_SOCKET") /\ UNCHANGED servers
        BY <3>6 DEF AskNameServer, AwaitNameServer, Query, AwaitResult, IInv, Typed, Resolver
      <4> QED BY <3>2, <3>3, <4>1
    <3>7. CASE OpenForQuery
      <4> DEFINE mac == IF dns.sm = "ARP_RESOLVE" THEN cache.mac ELSE dns.mac
      <4>1. /\ UNCHANGED servers /\ UDPOpenEx("OPENED", servers[1], mac)
            /\ dns.sm \in {"ARP_RESOLVE", "OPEN_SOCKET"}
            /\ dns.sm = "ARP_RESOLVE" => ARPIsResolved(servers[1])
        BY <3>7 DEF OpenForQuery
      <4>2. dns'.mac = mac
        BY <3>7 DEF OpenForQuery, IInv, Typed, Resolver
      <4>3. servers[1] = None \/ mac = NextHop(servers[1])
        BY <4>1, CachedHop DEF Hop
      <4>4. mac \in Macs /\ servers[1] \in Ips
        BY DEF IInv, Typed, Resolver
      <4> HIDE DEF mac
      <4>5. CASE FirstFree = 0
        <5>1. UNCHANGED sockets
          BY <4>1, <4>5 DEF UDPOpenEx, Opened
        <5> QED BY <3>1, <4>1, <4>2, <4>3, <5>1 DEF Hop, RightHop
      <4>6. CASE FirstFree # 0
        <5>1. nextPort <= Ports /\ sockets' = Opened(nextPort, "OPENED", servers[1], mac)
          BY <4>1, <4>6 DEF UDPOpenEx
        <5>2. nextPort \in 1 .. DhcpPort /\ "OPENED" \in States
          BY <5>1 DEF States, DhcpPort, IInv, Typed
        <5>3. /\ sockets'[FirstFree].ip = servers[1] /\ sockets'[FirstFree].mac = mac
              /\ \A t \in Sockets : t # FirstFree => sockets'[t] = sockets[t]
          <6>1. sockets'[FirstFree] = [st |-> "OPENED", port |-> nextPort, ip |-> servers[1], mac |-> mac]
            BY <4>4, <4>6, <5>1, <5>2, Opens DEF IInv
          <6> QED BY <4>4, <4>6, <5>1, <5>2, <6>1, Opens DEF IInv
        <5> QED BY <3>1, <4>1, <4>2, <4>3, <5>3 DEF Hop, RightHop
      <4> QED BY <4>5, <4>6
    <3>8. ASSUME NEW s \in Opening, NEW valid \in BOOLEAN, EndUsage(s, valid) PROVE Hop'
      <4>1. dns' = DnsIdle /\ dns.socket \in 0 .. MaxSockets
        BY <3>8 DEF EndUsage, IInv, Typed, Resolver
      <4> DEFINE w == Without(dns.socket)
      <4>2. w \in [Sockets -> Socket] /\ s \in Sockets
        BY <4>1, Closing DEF Opening
      <4>3. sockets' = [w EXCEPT ![s].st = IF valid THEN "SEND_ARP" ELSE "DNS_RESOLVE",
                                 ![s].ip = IF valid THEN NtpServer ELSE @]
        BY <3>8 DEF EndUsage
      <4>4. \A t \in Sockets : w[t] = Closed \/ w[t] = sockets[t]
        BY <2>2, <4>1
      <4> HIDE DEF w
      <4>5. \A t \in Sockets : sockets'[t].st = "OPENED" => sockets'[t] = w[t]
        BY <4>2, <4>3 DEF Socket
      <4>6. \A t \in Sockets : sockets'[t].st = "OPENED" => sockets'[t] = sockets[t]
        BY <4>4, <4>5 DEF Closed
      <4> QED BY <3>1, <4>1, <4>6 DEF Hop, RightHop, DnsIdle
    <3>9. ASSUME NEW s \in Opening, Fail(s) PROVE Hop'
      <4>1. CASE EndUsage(s, FALSE)
        BY <3>8, <4>1
      <4>2. CASE dns' = [dns EXCEPT !.fails = @ + 1] /\ UNCHANGED sockets
        BY <3>2, <3>9, <4>2 DEF Fail, IInv, Typed, Resolver
      <4>3. CASE /\ UDPClose(dns.socket)
                 /\ dns' = [dns EXCEPT !.fails = @ + 1, !.arps = 0, !.socket = 0,
                                       !.sm = "ARP_START"]
        <5>1. sockets' = Without(dns.socket) /\ dns.socket \in 0 .. MaxSockets
          BY <4>3 DEF UDPClose, IInv, Typed, Resolver
        <5>2. dns'.sm = "ARP_START"
          BY <4>3 DEF IInv, Typed, Resolver
        <5> QED BY <2>2, <3>1, <5>1, <5>2 DEF Hop, RightHop, Closed
      <4> QED BY <3>9, <4>1, <4>2, <4>3 DEF Fail
    <3>10. ASSUME NEW s \in Opening, TakeResult(s) PROVE Hop'
      BY <3>8, <3>10 DEF TakeResult, IInv, Typed
    <3> QED BY <2>8, <3>3, <3>4, <3>5, <3>6, <3>7, <3>9, <3>10 DEF UDPTask, DNSIsResolved
  <2> QED BY <2>3, <2>4, <2>5, <2>6, <2>7, <2>8 DEF Next, Exhausted
<1>3. Hop => RightHop
  BY DEF Hop
<1> QED BY <1>1, <1>2, <1>3, Inductive, PTL DEF SafeSpec
=============================================================================
