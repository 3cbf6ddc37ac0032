----------------------------- MODULE UdpClients -----------------------------
(***************************************************************************)
(* The clients of the UDP sockets: the time client (src/code/net/SNTP.c),  *)
(* the name resolver (DNS.c) it reaches through the sockets (UDP.c), and   *)
(* the address cache with its one entry (ARP.c).  The DHCP client, whose   *)
(* module is Dhcp, only takes and gives back a socket here.                *)
(*                                                                         *)
(* The main loop goes through three phases for ever: "tasks", DHCPTask and *)
(* UDPTask; "receive", the frames that have arrived, up to the first       *)
(* datagram that some socket takes; "apps", SNTPClient.  A datagram stays  *)
(* readable until the next "receive".                                      *)
(*                                                                         *)
(* Only one host name is ever resolved, that of the time server, so at     *)
(* most one socket is on its way to being opened.  A timeout may strike    *)
(* whenever the code looks at the clock.  Transaction numbers are left     *)
(* out: every query has a new local port as well.  ARP questions leave no  *)
(* trace: any station may announce its address at any time.                *)
(***************************************************************************)
EXTENDS Integers, FiniteSets

CONSTANTS
  MaxSockets,    \* MAX_UDP_SOCKETS
  Ports,         \* bound: local ports handed out, of thousands before they recur
  ArpTries,      \* questions for a name server's address, 3
  Failures,      \* failed tries of the resolver before the last, 2
  Gateway, Local,       \* the gateway, and the addresses of the subnet
  NtpServer,            \* the address behind the time server's name
  NameServers           \* Primary- and SecondaryDNSServer

ASSUME ClientsAssumption ==
  /\ MaxSockets \in Nat /\ MaxSockets >= 3 /\ Ports \in Nat /\ Gateway \in Local
  /\ ArpTries \in Nat \ {0} /\ Failures \in Nat

Addresses == Local \cup {NtpServer} \cup {NameServers[1], NameServers[2]}
None == "none"
DhcpPort == Ports + 1            \* DHCP_CLIENT_PORT
Sockets == 1 .. MaxSockets       \* 0 is INVALID_UDP_SOCKET

VARIABLES
  phase,         \* where the main loop is
  sockets,       \* UDPSocketInfo
  nextPort,      \* NextPort of UDPOpenEx
  rx,            \* the datagram that can be read, and SocketWithRxData
  cache,         \* the entry of the ARP cache: whose address and which MAC
  servers,       \* AppConfig.PrimaryDNSServer and SecondaryDNSServer
  dns,           \* the resolver's state
  sntp,          \* the time client's state
  dhcp,          \* the DHCP client's socket
  net            \* answers under way; "late": the asking socket has been closed since

vars == <<phase, sockets, nextPort, rx, cache, servers, dns, sntp, dhcp, net>>
-----------------------------------------------------------------------------
(* UDP.c                                                                   *)

Closed == [st |-> "CLOSED", port |-> 0, ip |-> None, mac |-> None]
NoData == [socket |-> 0, ok |-> FALSE, late |-> FALSE]

FreeSockets == {s \in Sockets : sockets[s].port = 0}
FirstFree == IF FreeSockets = {} THEN 0
             ELSE CHOOSE s \in FreeSockets : \A t \in FreeSockets : s <= t

\* The first free socket, with a new local port.
Opened(port, st, ip, mac) ==
  IF FirstFree = 0 THEN sockets
  ELSE [sockets EXCEPT ![FirstFree] = [st |-> st, port |-> port, ip |-> ip, mac |-> mac]]
\* (A mutant: every socket gets the same port.)
UDPOpenExSamePort(st, ip, mac) ==
  sockets' = Opened(nextPort, st, ip, mac) /\ UNCHANGED nextPort
UDPOpenEx(st, ip, mac) ==
  /\ nextPort <= Ports
  /\ sockets' = Opened(nextPort, st, ip, mac)
  /\ nextPort' = IF FirstFree = 0 THEN nextPort ELSE nextPort + 1

Without(s) == [t \in Sockets |-> IF t = s THEN Closed ELSE sockets[t]]
LateFor(s) == IF s = 0 THEN net ELSE
  {[m EXCEPT !.late = @ \/ m.to = sockets[s].port] : m \in net}
UDPClose(s) ==
  /\ sockets' = Without(s)
  /\ net' = LateFor(s)

Answer(server, port) == [to |-> port, from |-> server, late |-> FALSE]
UDPIsGetReady(s) == s # 0 /\ rx.socket = s

\* FindMatchingSocket: the one whose peer has sent it, or else the last with
\* that port, whose peer it becomes.
Last(S) == CHOOSE s \in S : \A t \in S : t <= s
FindMatchingSocket(m) ==
  LET OnPort == {s \in Sockets : sockets[s].port = m.to}
      Exact == {s \in OnPort : sockets[s].ip = m.from}
  IN  IF OnPort = {} THEN 0 ELSE IF Exact = {} THEN Last(OnPort) ELSE Last(Exact)
-----------------------------------------------------------------------------
(* ARP.c.  A station's MAC address is written as its name.                 *)

NextHop(ip) == IF ip \in Local THEN ip ELSE Gateway
\* (A mutant: the entry is taken for anybody's.)
ARPIsResolvedByAny(ip) == cache.ip # None
ARPIsResolved(ip) == cache.ip = ip \/ (cache.ip = Gateway /\ ip \notin Local)

\* ARPProcess: any answer replaces the entry, also one nobody asked for.
ARPProcess(station) ==
  /\ phase = "receive" /\ station \in Local
  /\ cache' = [ip |-> station, mac |-> station]
  /\ UNCHANGED <<phase, sockets, nextPort, rx, servers, dns, sntp, dhcp, net>>
-----------------------------------------------------------------------------
(* DNS.c                                                                   *)

DnsIdle == [inUse |-> FALSE, sm |-> "DONE", socket |-> 0,
            arps |-> 0, fails |-> 0, mac |-> None]

\* DNSEndUsage, and what UDPTask does with its answer for socket s.  (What is
\* left of the attempt is set anew before the next one reads it.)
\* (A mutant: the resolver's socket stays open.)
EndUsageKeepsSocket(s, valid) ==
  /\ sockets' = [sockets EXCEPT
       ![s].st = IF valid THEN "SEND_ARP" ELSE "DNS_RESOLVE",
       ![s].ip = IF valid THEN NtpServer ELSE @]
  /\ dns' = DnsIdle /\ UNCHANGED net
EndUsage(s, valid) ==
  /\ sockets' = [Without(dns.socket) EXCEPT
       ![s].st = IF valid THEN "SEND_ARP" ELSE "DNS_RESOLVE",
       ![s].ip = IF valid THEN NtpServer ELSE @]
  /\ net' = LateFor(dns.socket)
  /\ dns' = DnsIdle

AskNameServer ==
  /\ dns.sm \in {"START", "ARP_START"}
  /\ dns' = [dns EXCEPT !.sm = "ARP_RESOLVE",
        !.arps = IF dns.sm = "START" THEN 1 ELSE @ + 1,
        !.fails = IF dns.sm = "START" THEN 0 ELSE @]
  /\ UNCHANGED <<sockets, nextPort, servers, net>>

AwaitNameServer ==
  /\ dns.sm = "ARP_RESOLVE" /\ ~ARPIsResolved(servers[1])
  /\ \/ UNCHANGED dns
     \/ dns' = [dns EXCEPT !.sm = IF dns.arps >= ArpTries THEN "FAIL" ELSE "ARP_START"]
  /\ UNCHANGED <<sockets, nextPort, servers, net>>

\* With the server's node at hand: open a socket; the query follows at once
\* when the transmit buffer is free.
OpenForQuery ==
  /\ dns.sm \in {"ARP_RESOLVE", "OPEN_SOCKET"}
  /\ dns.sm = "ARP_RESOLVE" => ARPIsResolved(servers[1])
  /\ LET mac == IF dns.sm = "ARP_RESOLVE" THEN cache.mac ELSE dns.mac IN
       /\ UDPOpenEx("OPENED", servers[1], mac)
       /\ \E free \in BOOLEAN :
            /\ dns' = [dns EXCEPT !.mac = mac, !.socket = FirstFree,
                 !.sm = IF FirstFree = 0 THEN "OPEN_SOCKET"
                        ELSE IF free THEN "GET_RESULT" ELSE "QUERY"]
            /\ net' = net \cup (IF FirstFree # 0 /\ free THEN {Answer(servers[1], nextPort)}
                              ELSE {})
  /\ UNCHANGED servers

Query ==
  /\ dns.sm = "QUERY"
  /\ \/ UNCHANGED <<dns, net>>
     \/ /\ dns' = [dns EXCEPT !.sm = "GET_RESULT"]
        /\ net' = net \cup {Answer(sockets[dns.socket].ip, sockets[dns.socket].port)}
  /\ UNCHANGED <<sockets, nextPort, servers>>

AwaitResult ==
  /\ dns.sm = "GET_RESULT" /\ ~UDPIsGetReady(dns.socket)
  /\ UNCHANGED dns \/ dns' = [dns EXCEPT !.sm = "FAIL"]
  /\ UNCHANGED <<sockets, nextPort, servers, net>>

TakeResult(s) ==
  /\ dns.sm = "GET_RESULT" /\ UDPIsGetReady(dns.socket)
  /\ EndUsage(s, rx.ok)
  /\ UNCHANGED <<nextPort, servers>>

\* The last failure ends the attempt; before that the servers change places.
Fail(s) ==
  /\ dns.sm = "FAIL"
  /\ \/ /\ dns.fails >= Failures
        /\ EndUsage(s, FALSE)
        /\ UNCHANGED servers
     \/ /\ dns.fails < Failures
        /\ IF servers[2] = None
           THEN /\ dns' = [dns EXCEPT !.fails = @ + 1]
                /\ UNCHANGED <<sockets, servers, net>>
           ELSE /\ servers' = <<servers[2], servers[1]>>
                /\ UDPClose(dns.socket)
                /\ dns' = [dns EXCEPT !.fails = @ + 1, !.arps = 0, !.socket = 0,
                                      !.sm = "ARP_START"]
  /\ UNCHANGED nextPort

DNSIsResolved(s) ==
  AskNameServer \/ AwaitNameServer \/ OpenForQuery \/ Query \/ AwaitResult
  \/ TakeResult(s) \/ Fail(s)
-----------------------------------------------------------------------------
(* UDPTask, with DHCPTask before it.                                       *)

Opening == {s \in Sockets : sockets[s].st \notin {"OPENED", "CLOSED"}}

BeginUsage(s) ==
  /\ sockets[s].st = "DNS_RESOLVE"
  /\ IF dns.inUse THEN UNCHANGED <<dns, sockets>>
     ELSE /\ dns' = [dns EXCEPT !.inUse = TRUE, !.sm = "START"]
          /\ sockets' = [sockets EXCEPT ![s].st = "DNS_IS_RESOLVED"]
  /\ UNCHANGED <<nextPort, servers, net>>

SendArp(s) ==
  /\ sockets[s].st = "SEND_ARP"
  /\ sockets' = [sockets EXCEPT ![s].st = "GET_ARP"]
  /\ UNCHANGED <<nextPort, servers, net, dns>>

GetArp(s) ==
  /\ sockets[s].st = "GET_ARP"
  /\ IF ARPIsResolved(sockets[s].ip)
     THEN sockets' = [sockets EXCEPT ![s].st = "OPENED", ![s].mac = cache.mac]
     ELSE UNCHANGED sockets \/ sockets' = [sockets EXCEPT ![s].st = "SEND_ARP"]
  /\ UNCHANGED <<nextPort, servers, net, dns>>

UDPTask ==
  /\ phase = "tasks" /\ phase' = "receive"
  /\ \/ /\ Opening = {}
        /\ UNCHANGED <<sockets, nextPort, servers, net, dns>>
     \/ \E s \in Opening :
          \/ BeginUsage(s) \/ SendArp(s) \/ GetArp(s)
          \/ sockets[s].st = "DNS_IS_RESOLVED" /\ DNSIsResolved(s)
  /\ rx' = NoData          \* UDPDiscard, when the receive loop begins
  /\ UNCHANGED <<cache, sntp, dhcp>>

DHCPTask ==
  /\ phase = "tasks"
  /\ \/ /\ dhcp = 0
        /\ sockets' = Opened(DhcpPort, "OPENED", None, None) /\ dhcp' = FirstFree
        /\ UNCHANGED net
     \/ /\ dhcp # 0
        /\ UDPClose(dhcp) /\ dhcp' = 0
  /\ UNCHANGED <<phase, nextPort, rx, cache, servers, dns, sntp>>

\* The receive loop ends with a datagram that some socket takes, or when
\* there is nothing more; a datagram for nobody is thrown away.  An answer is
\* good or bad ("ok"), which only the resolver looks at.
Receive ==
  /\ phase = "receive"
  /\ \/ phase' = "apps" /\ UNCHANGED <<rx, net, sockets>>
     \/ \E m \in net :
          /\ net' = net \ {m}
          /\ LET s == FindMatchingSocket(m) IN
             \/ /\ s = 0
                /\ UNCHANGED <<phase, rx, sockets>>
             \/ /\ s # 0
                /\ \E ok \in BOOLEAN : rx' = [socket |-> s, ok |-> ok, late |-> m.late]
                /\ sockets' = [sockets EXCEPT ![s].ip = m.from,
                     ![s].mac = IF sockets[s].ip = m.from THEN @ ELSE NextHop(m.from)]
                /\ phase' = "apps"
  /\ UNCHANGED <<nextPort, cache, servers, dns, sntp, dhcp>>
-----------------------------------------------------------------------------
(* SNTPClient                                                              *)

Home ==
  /\ sntp.st = "HOME"
  /\ IF sntp.socket = 0
     THEN /\ UDPOpenEx("DNS_RESOLVE", None, None)
          /\ sntp' = [st |-> "IS_OPENED", socket |-> FirstFree]
     ELSE /\ sntp' = [sntp EXCEPT !.st = "IS_OPENED"]
          /\ UNCHANGED <<sockets, nextPort>>
  /\ UNCHANGED net

\* Back to HOME without the socket.
Abandon ==
  /\ UDPClose(sntp.socket)
  /\ sntp' = [st |-> "HOME", socket |-> 0]
  /\ UNCHANGED nextPort

\* The clock may interrupt the wait, whatever the socket is waiting for.
AwaitOpened ==
  /\ sntp.st = "IS_OPENED"
  /\ \/ /\ sntp' = [sntp EXCEPT
             !.st = IF sockets[sntp.socket].st = "OPENED" THEN "SEND" ELSE @]
        /\ UNCHANGED <<sockets, nextPort, net>>
     \/ Abandon

\* The transmit buffer may be busy.
Send ==
  /\ sntp.st = "SEND"
  /\ \/ Abandon
     \/ /\ net' = net \cup {Answer(sockets[sntp.socket].ip, sockets[sntp.socket].port)}
        /\ sntp' = [sntp EXCEPT !.st = "RECV"]
        /\ UNCHANGED <<sockets, nextPort>>

Recv ==
  /\ sntp.st = "RECV"
  /\ \/ /\ ~UDPIsGetReady(sntp.socket)
        /\ \/ Abandon
           \/ UNCHANGED <<sntp, sockets, nextPort, net>>
     \/ /\ UDPIsGetReady(sntp.socket)
        /\ UDPClose(sntp.socket)
        /\ sntp' = [st |-> "WAIT", socket |-> 0]
        /\ UNCHANGED nextPort

Wait ==
  /\ sntp.st = "WAIT"
  /\ sntp' = [st |-> "HOME", socket |-> 0] \/ UNCHANGED sntp
  /\ UNCHANGED <<sockets, nextPort, net>>

SNTPClient ==
  /\ phase = "apps" /\ phase' = "tasks"
  /\ Home \/ AwaitOpened \/ Send \/ Recv \/ Wait
  /\ UNCHANGED <<rx, cache, servers, dns, dhcp>>
-----------------------------------------------------------------------------
Init ==
  /\ phase = "tasks" /\ rx = NoData
  /\ sockets = [s \in Sockets |-> Closed] /\ nextPort = 1
  /\ cache = [ip |-> None, mac |-> None]
  /\ servers = NameServers /\ dns = DnsIdle
  /\ sntp = [st |-> "HOME", socket |-> 0] /\ dhcp = 0
  /\ net = {}

\* The bound on ports is no deadlock.
Exhausted == nextPort > Ports /\ UNCHANGED vars

Next ==
  \/ Exhausted \/ DHCPTask \/ UDPTask \/ Receive \/ SNTPClient
  \/ \E station \in Local : ARPProcess(station)

SafeSpec == Init /\ [][Next]_vars
-----------------------------------------------------------------------------
\* Every variable keeps to its type.
TypeOK ==
  /\ phase \in {"tasks", "receive", "apps"}
  /\ \A s \in Sockets :
       /\ sockets[s].st \in {"CLOSED", "OPENED", "DNS_RESOLVE", "DNS_IS_RESOLVED",
                             "SEND_ARP", "GET_ARP"}
       /\ sockets[s].port \in 0 .. DhcpPort
       /\ sockets[s].ip \in Addresses \cup {None}
  /\ rx.socket \in 0 .. MaxSockets /\ nextPort \in 1 .. Ports + 1
  /\ dns.socket \in 0 .. MaxSockets /\ dns.arps \in 0 .. ArpTries /\ dns.fails \in 0 .. Failures
  /\ sntp.st \in {"HOME", "IS_OPENED", "SEND", "RECV", "WAIT"}

\* Some socket's question is being asked: it alone leads to DNSEndUsage.
Resolving == \E s \in Sockets : sockets[s].st = "DNS_IS_RESOLVED"

\* A socket in use has exactly one owner who will close it: the time client,
\* the DHCP client, or the resolver while it works on a question; and none is
\* closed under its owner.  One socket at most has no owner: the resolver's,
\* from when the time client closes the socket whose question is being asked
\* (SNTP.c:210), without the DNSEndUsage that DNS.c:164-168 asks for.  No other
\* timeout leaks a socket, so none is ever refused, and the time client, which
\* does not look, has its own.
SocketsOwned ==
  LET held == <<sntp.socket, IF Resolving THEN dns.socket ELSE 0, dhcp>>
      owned == {held[i] : i \in 1 .. 3} \ {0}
      used == {s \in Sockets : sockets[s].st # "CLOSED"}
  IN
    /\ owned \subseteq used
    /\ used # owned => used \ owned = {dns.socket} /\ dns.inUse /\ ~Resolving
    /\ \A i, j \in 1 .. 3 : i # j /\ held[i] # 0 => held[i] # held[j]
    /\ sntp.st \in {"IS_OPENED", "SEND", "RECV"} <=> sntp.socket # 0

\* A datagram to an address is sent to that station, or through the gateway
\* when it is in another subnet, whatever passed through the cache meanwhile.
RightHop ==
  \A s \in Sockets : sockets[s].st = "OPENED" /\ sockets[s].ip # None =>
    sockets[s].mac = NextHop(sockets[s].ip)

\* What a client reads is the answer to its last question, never a late one to
\* an earlier question, of its own or of the other client.
AnswerIsFresh == ~rx.late
=============================================================================
