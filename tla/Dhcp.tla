-------------------------------- MODULE Dhcp --------------------------------
(***************************************************************************)
(* The DHCP client and the link handling of StackTask:                     *)
(* src/code/net/DHCP.c and src/code/net/StackTsk.c, with DHCP enabled.     *)
(*                                                                         *)
(* One call of StackTask looks at the link, runs DHCPTask and sets the     *)
(* configuration mode: a pass, one step here.  At its end StackTask may    *)
(* fetch one datagram, which DHCPTask can read in the next pass only.      *)
(*                                                                         *)
(* A server grants this client one address, so servers stand for their     *)
(* addresses too.  A request reaches the servers at once or is lost; an    *)
(* answer travels for up to MaxDelay seconds, may be lost and overtaken.   *)
(* No number tells an answer to an old request from one to a new one: the  *)
(* client sends the same xid every time and does not look at it.  The      *)
(* transmitter is ready and the UDP module has a socket left; where not,   *)
(* DHCPTask tries again in the next pass.  Mask, gateway and DNS servers    *)
(* take the way of the address and are left out.                           *)
(***************************************************************************)
EXTENDS Integers, FiniteSets

CONSTANTS
  Servers,       \* DHCP servers on the network
  None,          \* nothing, no address
  Fallback,      \* the address DefaultIPAddr
  Lease,         \* seconds a server grants
  Slice,         \* the client keeps back one part in Slice: 32
  DefaultLease,  \* seconds the client assumes for a lease: 60
  Timeout,       \* DHCP_TIMEOUT in seconds: 2
  MaxDelay,      \* bound on the age of an answer, in seconds
  MaxNet         \* bound on the answers on their way

ASSUME DhcpAssumption ==
  /\ None \notin Servers \cup {Fallback} /\ Fallback \notin Servers
  /\ None \notin [type : {"offer", "ack", "nak"}, from : Servers, age : 0 .. MaxDelay]
  /\ Lease \in Nat \ {0} /\ Slice \in Nat \ {0} /\ DefaultLease \in Nat
  /\ Timeout \in Nat \ {0} /\ MaxDelay \in Nat /\ MaxNet \in Nat

VARIABLES
  link,          \* the Ethernet link is up
  lastLink,      \* bLastLinkState
  net,           \* answers on their way to the client
  rx,            \* the datagram fetched in the last pass, or None
  peer,          \* remoteNode of the open socket: a server, or None for all
  sm,            \* smState
  sock,          \* hDHCPSocket is open
  bound,         \* bIsBound
  offered,       \* bOfferReceived
  server,        \* dwServerID
  tempIp,        \* tempIPAddress
  leaseLeft,     \* dwLeaseTime
  elapsed,       \* seconds since dwTimer, up to Timeout
  appIp,         \* AppConfig.MyIPAddr
  configMode,    \* AppConfig.Flags.bInConfigMode
  holder,        \* history: while bound, the server of the last ACK accepted
  expires        \* history: while bound, seconds that server still honours it

io == <<link, net>>
udp == <<net, peer>>
client == <<sock, bound, offered, server, tempIp, leaseLeft, elapsed>>
appConfig == <<appIp, configMode>>
history == <<holder, expires>>
vars == <<io, lastLink, rx, peer, sm, client, appConfig, history>>

Message == [type : {"offer", "ack", "nak"}, from : Servers, age : 0 .. MaxDelay]

\* The states in which the client waits for an answer, and those in which a
\* renewal waits to be sent again.
RenewWait == {"getRenewAck1", "getRenewAck2", "getRenewAck3"}
Waits == {"getOffer", "getRequestAck"} \cup RenewWait
SendAgain == {"sendRenew2", "sendRenew3"}

-----------------------------------------------------------------------------
(* The network. *)

\* What the servers may answer, as sets of a type and a server.
Answer(t, s) == [type |-> t, from |-> s, age |-> 0]
Offers == SUBSET {Answer("offer", s) : s \in Servers}
Replies(s) == {{}, {Answer("ack", s)}, {Answer("nak", s)}}
\* A renewal names no server: those it reaches that did not grant the
\* address it asks for may refuse it.
Renewals(reached) ==
  {{Answer(f[s], s) : s \in {q \in reached : f[q] # "none"}} :
     f \in {g \in [reached -> {"ack", "nak", "none"}] :
              \A s \in reached : g[s] = "ack" => s = tempIp}}

Send(answers) ==
  \E A \in answers : Cardinality(net \cup A) <= MaxNet /\ net' = net \cup A

\* A link that comes and goes between two passes is not noticed: only a
\* change that lasts until the next pass is one.
LinkChange ==
  /\ link = lastLink
  /\ link' = ~link
  /\ UNCHANGED <<udp, lastLink, rx, sm, client, appConfig, history>>

\* StackTask fetches a datagram; without a socket for it, it is dropped.
\* FindMatchingSocket makes its sender the one the socket talks to.
Fetch(m) ==
  /\ rx = None /\ m \in net
  /\ net' = net \ {m}
  /\ rx' = IF sock THEN m ELSE None
  /\ peer' = IF sock THEN m.from ELSE peer
  /\ UNCHANGED <<link, lastLink, sm, client, appConfig, history>>

\* A pass now would change nothing but the time of day.
Idle ==
  /\ link = lastLink /\ rx = None
  /\ \/ sm = "bound" /\ elapsed = 0
     \/ sm \in Waits /\ elapsed < Timeout
     \/ sm = "sendDiscovery" /\ ~link

\* A second goes by.  The main loop makes many passes a second, so whatever
\* is due has been done; an answer as old as MaxDelay is lost.
Second ==
  /\ Idle
  /\ net' = {[m EXCEPT !.age = @ + 1] : m \in {n \in net : n.age < MaxDelay}}
  /\ rx' = None
  /\ elapsed' = IF elapsed < Timeout THEN elapsed + 1 ELSE elapsed
  /\ expires' = IF expires > 0 THEN expires - 1 ELSE 0
  /\ UNCHANGED <<link, lastLink, peer, sm, sock, bound, offered, server, tempIp,
                 leaseLeft, appConfig, holder>>

-----------------------------------------------------------------------------
(* _DHCPReceive, for the datagram rx. *)

\* Mutant: the whole of the lease is used.
KeptWhole(seconds) == seconds

\* dwLeaseTime -= dwLeaseTime>>5
Kept(seconds) == seconds - seconds \div Slice

\* The first offer since the discovery or the renewal was sent.
FirstOffer == rx.type = "offer" /\ ~offered

\* Mutant: the server of an answer is not compared.
AnsweredByAnyone(t) == rx.type = t

\* An ACK or a NAK counts if it comes from the server of the last offer.
Answered(t) == rx.type = t /\ rx.from = server

\* The options are read before the type decides anything: as long as no
\* offer was received they are taken from every message.
ReadOptions ==
  IF offered
  THEN UNCHANGED <<tempIp, leaseLeft>>
  ELSE /\ tempIp' = IF rx.type = "nak" THEN None ELSE rx.from
       /\ leaseLeft' = IF rx.type = "nak" THEN leaseLeft ELSE Kept(Lease)

RememberOffer ==
  IF FirstOffer
  THEN offered' = TRUE /\ server' = rx.from
  ELSE UNCHANGED <<offered, server>>

-----------------------------------------------------------------------------
(* A pass: StackTask with DHCPTask. *)

\* A pass that does not find the link lost; the datagram of the last pass is
\* gone when it ends.
Pass(state) ==
  /\ ~(lastLink /\ ~link)
  /\ lastLink' = link
  /\ rx' = None
  /\ sm' = state
  /\ UNCHANGED link

\* The history is what the server knows: it counts from when it sent.
Granted ==
  /\ holder' = rx.from
  /\ expires' = IF Lease > rx.age THEN Lease - rx.age ELSE 0

Released == holder' = None /\ expires' = 0

\* The link was lost: DHCPInit, and DHCPTask gets as far as a discovery it
\* does not send.
LinkLost ==
  /\ lastLink /\ ~link
  /\ lastLink' = FALSE
  /\ rx' = None
  /\ sm' = "sendDiscovery"
  /\ sock' = TRUE /\ peer' = None /\ bound' = FALSE /\ offered' = FALSE
  /\ leaseLeft' = DefaultLease
  /\ appIp' = Fallback /\ configMode' = TRUE
  /\ Released
  /\ UNCHANGED <<io, server, tempIp, elapsed>>

\* SM_DHCP_GET_SOCKET and SM_DHCP_SEND_DISCOVERY.
Discover ==
  /\ sm \in {"getSocket", "sendDiscovery"}
  /\ Pass(IF link THEN "getOffer" ELSE "sendDiscovery")
  /\ sock' = TRUE /\ bound' = FALSE /\ offered' = FALSE
  /\ peer' = IF link \/ ~sock THEN None ELSE peer
  /\ leaseLeft' = DefaultLease
  /\ IF link
     THEN elapsed' = 0 /\ Send(Offers)
     ELSE UNCHANGED <<elapsed, net>>
  /\ Released
  /\ UNCHANGED <<server, tempIp, appConfig>>

\* Mutant: no new discovery when nobody answers.
OfferTimeoutStays ==
  /\ sm = "getOffer" /\ rx = None /\ elapsed = Timeout
  /\ Pass("getOffer")
  /\ elapsed' = 0
  /\ UNCHANGED <<udp, sock, bound, offered, server, tempIp, leaseLeft,
                 appConfig, history>>

OfferTimeout ==
  /\ sm = "getOffer" /\ rx = None /\ elapsed = Timeout
  /\ Pass("sendDiscovery")
  /\ UNCHANGED <<udp, client, appConfig, history>>

\* SM_DHCP_GET_OFFER, and SM_DHCP_SEND_REQUEST behind it.
Offer ==
  /\ sm = "getOffer" /\ rx # None /\ FirstOffer
  /\ Pass("getRequestAck")
  /\ ReadOptions /\ RememberOffer
  /\ elapsed' = 0 /\ peer' = None
  /\ Send(Replies(rx.from))
  /\ UNCHANGED <<sock, bound, appConfig, history>>

\* A datagram that is not an offer is read, and not waited past.
NoOffer ==
  /\ sm = "getOffer" /\ rx # None /\ ~FirstOffer
  /\ Pass(sm)
  /\ ReadOptions
  /\ UNCHANGED <<udp, sock, bound, offered, server, elapsed, appConfig, history>>

AckTimeout ==
  /\ sm = "getRequestAck" /\ rx = None /\ elapsed = Timeout
  /\ Pass("sendDiscovery")
  /\ UNCHANGED <<udp, client, appConfig, history>>

\* Mutant: the socket is not given back.
AckKeepsSocket ==
  /\ sm = "getRequestAck" /\ rx # None /\ Answered("ack")
  /\ Pass("bound")
  /\ ReadOptions
  /\ bound' = TRUE
  /\ elapsed' = 0
  /\ appIp' = tempIp'
  /\ configMode' = FALSE
  /\ Granted
  /\ UNCHANGED <<udp, sock, offered, server>>

Ack ==
  /\ sm = "getRequestAck" /\ rx # None /\ Answered("ack")
  /\ Pass("bound")
  /\ ReadOptions
  /\ sock' = FALSE /\ peer' = None /\ bound' = TRUE
  /\ elapsed' = 0
  /\ appIp' = tempIp'
  /\ configMode' = FALSE
  /\ Granted
  /\ UNCHANGED <<net, offered, server>>

Nak ==
  /\ sm \in {"getRequestAck"} \cup RenewWait /\ rx # None /\ Answered("nak")
  /\ Pass("sendDiscovery")
  /\ ReadOptions
  /\ UNCHANGED <<udp, sock, bound, offered, server, elapsed, appConfig, history>>

\* Anything else while an ACK is awaited.
NoAnswer ==
  /\ sm \in {"getRequestAck"} \cup RenewWait /\ rx # None
  /\ ~Answered("ack") /\ ~Answered("nak")
  /\ Pass(sm)
  /\ ReadOptions /\ RememberOffer
  /\ UNCHANGED <<udp, sock, bound, elapsed, appConfig, history>>

\* SM_DHCP_BOUND: a second of the lease has gone by.
CountDown ==
  /\ sm = "bound" /\ elapsed > 0 /\ leaseLeft >= 2
  /\ Pass(sm)
  /\ elapsed' = elapsed - 1
  /\ leaseLeft' = leaseLeft - 1
  /\ UNCHANGED <<udp, sock, bound, offered, server, tempIp, appConfig, history>>

\* Mutant: the socket is not opened again.
SendRenewalClosed(state) ==
  /\ Pass(state)
  /\ offered' = FALSE
  /\ elapsed' = 0 /\ peer' = None
  /\ Send(Renewals(Servers))
  /\ UNCHANGED <<sock, bound, server, tempIp, leaseLeft, appConfig, history>>

\* SM_DHCP_SEND_RENEW, straight from SM_DHCP_BOUND the first time: the new
\* socket broadcasts.  Later tries go to the last sender, if there was one.
SendRenewal(state) ==
  /\ Pass(state)
  /\ sock' = TRUE /\ offered' = FALSE
  /\ elapsed' = 0
  /\ peer' = IF sock THEN peer ELSE None
  /\ Send(Renewals(IF peer' = None THEN Servers ELSE {peer'}))
  /\ UNCHANGED <<bound, server, tempIp, leaseLeft, appConfig, history>>

Renew ==
  \/ sm = "bound" /\ elapsed > 0 /\ leaseLeft < 2 /\ SendRenewal("getRenewAck1")
  \/ sm = "sendRenew2" /\ SendRenewal("getRenewAck2")
  \/ sm = "sendRenew3" /\ SendRenewal("getRenewAck3")

AfterTimeout(state) ==
  CASE state = "getRenewAck1" -> "sendRenew2"
    [] state = "getRenewAck2" -> "sendRenew3"
    [] state = "getRenewAck3" -> "sendDiscovery"

RenewTimeout ==
  /\ sm \in RenewWait /\ rx = None /\ elapsed = Timeout
  /\ Pass(AfterTimeout(sm))
  /\ UNCHANGED <<udp, client, appConfig, history>>

\* A renewal is granted: AppConfig stays as it is.
RenewAck ==
  /\ sm \in RenewWait /\ rx # None /\ Answered("ack")
  /\ Pass("bound")
  /\ ReadOptions
  /\ sock' = FALSE /\ peer' = None
  /\ elapsed' = 0
  /\ Granted
  /\ UNCHANGED <<net, bound, offered, server, appConfig>>

StackTask ==
  \/ LinkLost \/ Discover
  \/ OfferTimeout \/ Offer \/ NoOffer
  \/ AckTimeout \/ Ack \/ Nak \/ NoAnswer
  \/ CountDown \/ Renew \/ RenewTimeout \/ RenewAck

Deliver == \E m \in net : Fetch(m)

-----------------------------------------------------------------------------
\* StackInit, with the static address that came from the flash page.
Init ==
  /\ link \in BOOLEAN /\ lastLink = FALSE
  /\ net = {} /\ rx = None /\ peer = None
  /\ sm = "getSocket" /\ sock = FALSE /\ bound = FALSE /\ offered = FALSE
  /\ server = None /\ tempIp = None
  /\ leaseLeft = 0 /\ elapsed = 0
  /\ appIp = Fallback /\ configMode = TRUE
  /\ holder = None /\ expires = 0

Next == LinkChange \/ Deliver \/ Second \/ StackTask

Spec == Init /\ [][Next]_vars /\ WF_vars(StackTask) /\ WF_vars(Deliver) /\ WF_vars(Second)

-----------------------------------------------------------------------------
(* Properties. *)

Address == Servers \cup {None}
Seconds == 0 .. Lease + DefaultLease

TypeOK ==
  /\ link \in BOOLEAN /\ lastLink \in BOOLEAN
  /\ net \subseteq Message /\ rx \in Message \cup {None} /\ peer \in Address
  /\ sm \in {"getSocket", "sendDiscovery", "bound"} \cup Waits \cup SendAgain
  /\ sock \in BOOLEAN /\ bound \in BOOLEAN /\ offered \in BOOLEAN
  /\ server \in Address /\ tempIp \in Address
  /\ leaseLeft \in Seconds /\ elapsed \in 0 .. Timeout
  /\ appIp \in Servers \cup {Fallback}
  /\ configMode \in BOOLEAN
  /\ holder \in Address /\ expires \in 0 .. Lease

\* However answers, timeouts and losses of the link follow one another, the
\* client holds its socket exactly while it is asking: none is leaked from
\* the pool, and no answer is awaited on a socket that was closed.
SocketBalanced == sock <=> sm \notin {"getSocket", "bound"}

\* A client that calls itself bound uses the address that the server of the
\* last accepted ACK granted, however late answers of other servers come
\* in; without a lease since the link was lost it is in configuration mode.
AddressInUse ==
  /\ bound => appIp = holder /\ ~configMode
  /\ configMode <=> appIp = Fallback

\* The part of the lease the client keeps back covers the travel of the ACK
\* and three tries to renew, and the part it uses outlives old answers.
LeaseCoversRenewal ==
  /\ MaxDelay + 3 * Timeout < Lease - Kept(Lease)
  /\ MaxDelay < Kept(Lease)

\* With such a lease the client never calls itself bound past its end.
BoundHasLease == bound => expires > 0

\* A step at which the network does what it is there for: every request is
\* answered, by every server it concerns and with a yes, and every answer is
\* there before the client stops to wait for it.
Dependable ==
  /\ Second => \A m \in net : m.age + 1 < Timeout
  /\ sm' = "getOffer" /\ sm # sm' =>
       \A s \in Servers : Answer("offer", s) \in net'
  /\ sm' = "getRequestAck" /\ sm # sm' => Answer("ack", server') \in net'
  /\ sm' \in RenewWait /\ sm # sm' /\ tempIp \in Servers => Answer("ack", tempIp) \in net'
  /\ \A s \in Servers : Answer("nak", s) \notin net' \ net

\* With the link up for good and a network that can be relied upon from
\* some time on, whatever happened before it, the client gets an address and
\* keeps it.
Binds == <>[]link /\ <>[][Dependable]_vars => <>[]bound
=============================================================================
