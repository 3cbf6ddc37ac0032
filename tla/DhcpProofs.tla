----------------------------- MODULE DhcpProofs -----------------------------
(***************************************************************************)
(* Proofs about Dhcp, for any servers, any timeout and any lease that      *)
(* leaves the time to renew it.                                            *)
(***************************************************************************)
EXTENDS Dhcp, TLAPS

\* What DHCPTask counts down: the kept part of the lease.
K == Kept(Lease)

\* The states of a renewal that has been asked for and not decided.
Renewing == RenewWait \cup SendAgain

-----------------------------------------------------------------------------
(* Types. *)

\* The kept part of a lease is a part of it.
LEMMA KeptTyped == K \in 0 .. Lease
<1>1. Lease \in Nat /\ Slice \in Nat \ {0}
  BY DhcpAssumption DEF DhcpAssumption
<1>2. Lease \div Slice \in 0 .. Lease
  BY <1>1
<1> QED BY <1>1, <1>2 DEF K, Kept

\* Whatever the servers answer is a set of messages, and no offer unless one
\* was asked for.
LEMMA AnswersTyped ==
  ASSUME TypeOK
  PROVE  /\ \A A \in Offers : A \subseteq Message
         /\ \A s \in Servers : \A A \in Replies(s) : A \subseteq Message
         /\ \A R \in SUBSET Servers : \A A \in Renewals(R) :
              A \subseteq Message /\ \A m \in A : m.type # "offer"
<1>1. \A t \in {"offer", "ack", "nak"}, s \in Servers :
         Answer(t, s) \in Message /\ Answer(t, s).type = t
  BY DhcpAssumption DEF Answer, Message, DhcpAssumption
<1>2. \A A \in Offers : A \subseteq Message
  BY <1>1 DEF Offers
<1>3. \A s \in Servers : \A A \in Replies(s) : A \subseteq Message
  BY <1>1 DEF Replies
<1>4. ASSUME NEW R \in SUBSET Servers, NEW A \in Renewals(R), NEW m \in A
      PROVE  m \in Message /\ m.type # "offer"
  <2>1. PICK f \in [R -> {"ack", "nak", "none"}] :
           A = {Answer(f[s], s) : s \in {q \in R : f[q] # "none"}}
    BY <1>4 DEF Renewals
  <2>2. PICK s \in R : f[s] # "none" /\ m = Answer(f[s], s)
    BY <2>1, <1>4
  <2>3. f[s] \in {"ack", "nak"}
    BY <2>1, <2>2
  <2> QED BY <2>2, <2>3, <1>1
<1> QED BY <1>2, <1>3, <1>4

\* The options of a message leave an address and a lease of the right type.
LEMMA OptionsTyped ==
  ASSUME TypeOK, rx # None, ReadOptions
  PROVE  tempIp' \in Address /\ leaseLeft' \in Seconds
<1>1. rx \in Message /\ Lease \in Nat /\ DefaultLease \in Nat
  BY DhcpAssumption DEF TypeOK, DhcpAssumption
<1>2. rx.from \in Servers
  BY <1>1 DEF Message
<1>3. Kept(Lease) \in Seconds
  BY <1>1, KeptTyped DEF K, Seconds
<1> QED BY <1>2, <1>3 DEF ReadOptions, TypeOK, Address

\* An offer is waited for until one is accepted; a request stands for it,
\* with its address and the kept part of its lease.
Requested ==
  /\ sm = "getOffer" => ~offered
  /\ sm = "getRequestAck" =>
       offered /\ server \in Servers /\ tempIp = server /\ leaseLeft = K

\* Every step of link, network, time and client keeps the types: only what
\* an offer named becomes the address.
LEMMA TypeStep == TypeOK /\ Requested /\ [Next]_vars => TypeOK'
<1> SUFFICES ASSUME TypeOK, Requested, [Next]_vars
             PROVE  TypeOK'
  OBVIOUS
<1> USE DEF Address, RenewWait, Waits, SendAgain
<1>1. /\ Lease \in Nat \ {0} /\ DefaultLease \in Nat /\ Timeout \in Nat \ {0}
      /\ MaxDelay \in Nat
  BY DhcpAssumption DEF DhcpAssumption
<1>2. CASE LinkChange
  BY <1>2 DEF LinkChange, TypeOK, udp, client, appConfig, history
<1>3. ASSUME NEW m \in net, Fetch(m)
      PROVE  TypeOK'
  <2>1. m \in Message /\ m.from \in Servers
    BY DEF TypeOK, Message
  <2> QED BY <2>1, <1>3 DEF Fetch, TypeOK, client, appConfig, history
<1>4. CASE Second
  <2>1. net' \subseteq Message
    <3> SUFFICES ASSUME NEW m \in net, m.age < MaxDelay
                 PROVE  [m EXCEPT !.age = @ + 1] \in Message
      BY <1>4 DEF Second
    <3>1. m \in Message
      BY DEF TypeOK
    <3> QED BY <3>1, <1>1 DEF Message
  <2>2. elapsed' \in 0 .. Timeout /\ expires' \in 0 .. Lease
    BY <1>1, <1>4 DEF Second, TypeOK
  <2> QED BY <2>1, <2>2, <1>4 DEF Second, TypeOK, appConfig
<1>5. CASE LinkLost
  <2>1. leaseLeft' \in Seconds /\ expires' \in 0 .. Lease
    BY <1>5, <1>1 DEF LinkLost, Released, Seconds
  <2> QED BY <2>1, <1>5, Zenon DEF LinkLost, TypeOK, Released, io
<1>6. CASE Discover
  <2>1. net' \subseteq Message
    BY <1>6, AnswersTyped DEF Discover, Send, TypeOK
  <2>2. leaseLeft' \in Seconds /\ expires' \in 0 .. Lease /\ elapsed' \in 0 .. Timeout
    BY <1>6, <1>1 DEF Discover, TypeOK, Released, Seconds
  <2>3. sm' \in {"sendDiscovery", "getOffer"} /\ peer' \in Address
    BY <1>6 DEF Discover, Pass, TypeOK
  <2>4. holder' \in Address /\ lastLink' \in BOOLEAN /\ rx' \in Message \cup {None}
    BY <1>6, Zenon DEF Discover, Pass, Released, TypeOK
  <2> QED BY <2>1, <2>2, <2>3, <2>4, <1>6, Zenon DEF Discover, Pass, TypeOK, appConfig
<1>7. CASE OfferTimeout \/ AckTimeout
  BY <1>7 DEF OfferTimeout, AckTimeout, Pass, TypeOK, udp, client, appConfig, history
<1>8. CASE Offer
  <2>1. rx.from \in Servers
    BY <1>8 DEF Offer, TypeOK, Message
  <2>2. net' \subseteq Message
    BY <2>1, <1>8, AnswersTyped DEF Offer, Send, TypeOK
  <2>3. tempIp' \in Address /\ leaseLeft' \in Seconds
    BY <1>8, OptionsTyped DEF Offer
  <2> QED BY <2>1, <2>2, <2>3, <1>8, <1>1
         DEF Offer, Pass, RememberOffer, TypeOK, appConfig, history
<1>9. CASE NoOffer \/ Nak
  <2>1. tempIp' \in Address /\ leaseLeft' \in Seconds
    BY <1>9, OptionsTyped DEF NoOffer, Nak
  <2> QED BY <2>1, <1>9 DEF NoOffer, Nak, Pass, TypeOK, udp, appConfig, history
<1>10. CASE NoAnswer
  <2>1. rx.from \in Servers
    BY <1>10 DEF NoAnswer, TypeOK, Message
  <2>2. tempIp' \in Address /\ leaseLeft' \in Seconds
    BY <1>10, OptionsTyped DEF NoAnswer
  <2> QED BY <2>1, <2>2, <1>10
         DEF NoAnswer, Pass, RememberOffer, TypeOK, udp, appConfig, history
<1>11. CASE CountDown
  <2>1. elapsed' \in 0 .. Timeout /\ leaseLeft' \in Seconds
    BY <1>11, <1>1 DEF CountDown, TypeOK, Seconds
  <2> QED BY <2>1, <1>11 DEF CountDown, Pass, TypeOK, udp, appConfig, history
<1>12. ASSUME NEW state \in {"getRenewAck1", "getRenewAck2", "getRenewAck3"}, SendRenewal(state)
       PROVE  TypeOK'
  <2>1. peer' \in Address
    BY <1>12 DEF SendRenewal, TypeOK
  <2>2. net' \subseteq Message
    <3>1. (IF peer' = None THEN Servers ELSE {peer'}) \in SUBSET Servers
      BY <2>1
    <3> QED BY <3>1, <1>12, AnswersTyped DEF SendRenewal, Send, TypeOK
  <2>3. elapsed' \in 0 .. Timeout
    BY <1>12, <1>1 DEF SendRenewal
  <2> QED BY <2>1, <2>2, <2>3, <1>12, Zenon DEF SendRenewal, Pass, TypeOK, appConfig, history
<1>13. CASE RenewTimeout
  BY <1>13 DEF RenewTimeout, AfterTimeout, Pass, TypeOK, udp, client, appConfig, history
<1>14. CASE UNCHANGED vars
  BY <1>14 DEF vars, io, client, appConfig, history, TypeOK
<1>15. CASE Ack
  <2>1. rx.from \in Servers /\ rx.age \in 0 .. MaxDelay
    BY <1>15 DEF Ack, TypeOK, Message
  <2>2. tempIp' \in Servers /\ leaseLeft' \in Seconds
    BY <1>15 DEF Ack, Requested, ReadOptions, TypeOK
  <2>3. expires' \in 0 .. Lease
    BY <2>1, <1>15, <1>1 DEF Ack, Granted
  <2>4. elapsed' \in 0 .. Timeout
    BY <1>15, <1>1 DEF Ack
  <2> QED BY <2>1, <2>2, <2>3, <2>4, <1>15, Zenon DEF Ack, Pass, Granted, TypeOK
<1>16. CASE RenewAck
  <2>1. rx.from \in Servers /\ rx.age \in 0 .. MaxDelay
    BY <1>16 DEF RenewAck, TypeOK, Message
  <2>2. tempIp' \in Address /\ leaseLeft' \in Seconds
    BY <1>16, OptionsTyped DEF RenewAck
  <2>3. expires' \in 0 .. Lease
    BY <2>1, <1>16, <1>1 DEF RenewAck, Granted
  <2>4. elapsed' \in 0 .. Timeout
    BY <1>16, <1>1 DEF RenewAck
  <2> QED BY <2>1, <2>2, <2>3, <2>4, <1>16, Zenon
         DEF RenewAck, Pass, Granted, TypeOK, appConfig
<1> QED
  BY <1>2, <1>3, <1>4, <1>5, <1>6, <1>7, <1>8, <1>9, <1>10, <1>11, <1>12, <1>13, <1>14,
     <1>15, <1>16 DEF Next, Deliver, StackTask, Renew

\* A request is only ever made for the offer that was accepted.
LEMMA RequestedStep == TypeOK /\ Requested /\ [Next]_vars => Requested'
<1> SUFFICES ASSUME TypeOK, Requested, [Next]_vars
             PROVE  Requested'
  OBVIOUS
<1> USE DEF Requested, Pass
<1>1. CASE LinkChange \/ UNCHANGED vars
  BY <1>1 DEF LinkChange, vars, client
<1>2. ASSUME NEW m \in net, Fetch(m)
      PROVE  Requested'
  BY <1>2 DEF Fetch, client
<1>3. CASE Second \/ LinkLost \/ Discover
  BY <1>3 DEF Second, LinkLost, Discover
<1>4. CASE OfferTimeout \/ AckTimeout
  BY <1>4 DEF OfferTimeout, AckTimeout
<1>5. CASE Offer
  <2>1. ~offered /\ rx.from \in Servers
    BY <1>5 DEF Offer, FirstOffer, TypeOK, Message
  <2>2. rx.type = "offer"
    BY <1>5 DEF Offer, FirstOffer
  <2> QED BY <2>1, <2>2, <1>5 DEF Offer, FirstOffer, ReadOptions, RememberOffer, K
<1>6. CASE NoOffer \/ Nak \/ Ack \/ RenewAck
  BY <1>6 DEF NoOffer, Nak, Ack, RenewAck
<1>7. CASE NoAnswer
  BY <1>7 DEF NoAnswer, ReadOptions, RememberOffer, FirstOffer, RenewWait
<1>8. CASE CountDown \/ RenewTimeout
  BY <1>8 DEF CountDown, RenewTimeout, AfterTimeout, RenewWait
<1>9. CASE Renew
  BY <1>9 DEF Renew, SendRenewal
<1> QED
  BY <1>1, <1>2, <1>3, <1>4, <1>5, <1>6, <1>7, <1>8, <1>9 DEF Next, Deliver, StackTask

\* At power-up nothing was asked for.
LEMMA TypeInit == Init => TypeOK /\ Requested
<1> SUFFICES ASSUME Init PROVE TypeOK /\ Requested
  OBVIOUS
<1>1. leaseLeft \in Seconds /\ elapsed \in 0 .. Timeout /\ expires \in 0 .. Lease
  BY DhcpAssumption DEF Init, Seconds, DhcpAssumption
<1>2. TypeOK
  BY <1>1, Zenon DEF Init, TypeOK, Address
<1>3. Requested
  BY DEF Init, Requested
<1> QED BY <1>2, <1>3

\* Every variable keeps its type, for any servers, timeout and lease.
THEOREM DhcpTyped == Spec => [](TypeOK /\ Requested)
<1>1. TypeOK /\ Requested /\ [Next]_vars => (TypeOK /\ Requested)'
  BY TypeStep, RequestedStep
<1> QED BY <1>1, TypeInit, PTL DEF Spec

-----------------------------------------------------------------------------
(* The socket. *)

\* No step leaves the socket open without need, or closes it too early.
LEMMA SocketStep == SocketBalanced /\ [Next]_vars => SocketBalanced'
<1> SUFFICES ASSUME SocketBalanced, [Next]_vars
             PROVE  SocketBalanced'
  OBVIOUS
<1> USE DEF SocketBalanced, Pass
<1>1. CASE LinkChange \/ UNCHANGED vars
  BY <1>1 DEF LinkChange, vars, client
<1>2. ASSUME NEW m \in net, Fetch(m)
      PROVE  SocketBalanced'
  BY <1>2 DEF Fetch, client
<1>3. CASE Second \/ LinkLost \/ Discover
  BY <1>3 DEF Second, LinkLost, Discover
<1>4. CASE OfferTimeout \/ Offer \/ NoOffer \/ AckTimeout
  BY <1>4 DEF OfferTimeout, Offer, NoOffer, AckTimeout, client
<1>5. CASE Ack \/ RenewAck
  BY <1>5 DEF Ack, RenewAck
<1>6. CASE Nak \/ NoAnswer
  BY <1>6 DEF Nak, NoAnswer, RenewWait
<1>7. CASE CountDown \/ RenewTimeout
  BY <1>7 DEF CountDown, RenewTimeout, AfterTimeout, RenewWait, client
<1>8. CASE Renew
  BY <1>8 DEF Renew, SendRenewal
<1> QED
  BY <1>1, <1>2, <1>3, <1>4, <1>5, <1>6, <1>7, <1>8 DEF Next, Deliver, StackTask

\* The client holds its socket exactly while it is asking: whatever is lost,
\* late or refused, and whenever the link goes, no socket leaks.
THEOREM SocketKept == Spec => []SocketBalanced
<1>1. Init => SocketBalanced
  BY DEF Init, SocketBalanced
<1> QED BY <1>1, SocketStep, PTL DEF Spec

-----------------------------------------------------------------------------
(* The address and the lease. *)

\* Without a link the client does nothing but wait to discover.
Linked == bound \/ sm \notin {"getSocket", "sendDiscovery"} => lastLink

\* Where the client is bound, and where it is not.
Phase ==
  /\ sm \in {"getSocket", "getOffer", "getRequestAck"} => ~bound
  /\ sm \in {"bound"} \cup Renewing => bound

\* From the ACK to the end of the renewals the client talks to the holder.
SameServer ==
  /\ sm \in {"bound"} \cup Renewing => server = holder
  /\ sm \in Renewing => ~offered

\* An offer ages at least as fast as the lease is used up, so that none is
\* left when the client asks again.
NoOldOffer ==
  /\ sm = "bound" =>
       /\ rx = None
       /\ \A m \in net : m.type = "offer" => m.age >= K - leaseLeft + elapsed
  /\ sm \in Renewing =>
       /\ \A m \in net : m.type # "offer"
       /\ rx # None => rx.type # "offer"

\* What the server still grants when the client first asks for a renewal.
Margin == Lease - MaxDelay - K

\* The server's clock and the client's run down together.
ClocksAgree ==
  /\ sm = "bound" =>
       /\ leaseLeft \in 1 .. K /\ elapsed <= 1
       /\ expires >= Margin + leaseLeft - elapsed
  /\ sm = "getRenewAck1" => expires >= Margin - elapsed
  /\ sm = "sendRenew2" => expires >= Margin - Timeout
  /\ sm = "getRenewAck2" => expires >= Margin - Timeout - elapsed
  /\ sm = "sendRenew3" => expires >= Margin - 2 * Timeout
  /\ sm = "getRenewAck3" => expires >= Margin - 2 * Timeout - elapsed
  /\ sm = "sendDiscovery" /\ bound => expires >= Margin - 3 * Timeout

LeaseInv == Linked /\ Phase /\ SameServer /\ NoOldOffer /\ ClocksAgree /\ AddressInUse

IndInv == TypeOK /\ Requested /\ SocketBalanced /\ LeaseInv

\* Only a pass with the link up binds the client or takes it out of bound.
LEMMA PhaseStep == Linked /\ Phase /\ [Next]_vars => Linked' /\ Phase'
<1> SUFFICES ASSUME Linked, Phase, [Next]_vars
             PROVE  Linked' /\ Phase'
  OBVIOUS
<1> USE DEF Linked, Phase, Pass, Renewing, RenewWait, SendAgain
<1>1. CASE LinkChange \/ UNCHANGED vars
  BY <1>1 DEF LinkChange, vars, client
<1>2. ASSUME NEW m \in net, Fetch(m)
      PROVE  Linked' /\ Phase'
  BY <1>2 DEF Fetch, client
<1>3. CASE Second \/ LinkLost
  BY <1>3 DEF Second, LinkLost
<1>4. CASE Discover
  BY <1>4 DEF Discover
<1>5. CASE OfferTimeout \/ Offer \/ NoOffer \/ AckTimeout
  BY <1>5 DEF OfferTimeout, Offer, NoOffer, AckTimeout, client
<1>6. CASE Ack \/ RenewAck
  BY <1>6 DEF Ack, RenewAck
<1>7. CASE Nak \/ NoAnswer
  BY <1>7 DEF Nak, NoAnswer
<1>8. CASE CountDown \/ RenewTimeout
  BY <1>8 DEF CountDown, RenewTimeout, AfterTimeout, client
<1>9. CASE Renew
  BY <1>9 DEF Renew, SendRenewal
<1> QED
  BY <1>1, <1>2, <1>3, <1>4, <1>5, <1>6, <1>7, <1>8, <1>9 DEF Next, Deliver, StackTask

\* Only the server that granted the address is believed, and with no old
\* offer about no other one takes its place.
LEMMA ServerStep ==
  ASSUME IndInv, [Next]_vars
  PROVE  SameServer' /\ AddressInUse'
<1> USE DEF SameServer, AddressInUse, Pass, Renewing, RenewWait, SendAgain
<1>0. SameServer /\ AddressInUse /\ Phase /\ NoOldOffer /\ Requested
  BY DEF IndInv, LeaseInv
<1>1. CASE LinkChange \/ UNCHANGED vars
  BY <1>0, <1>1 DEF LinkChange, vars, client, appConfig, history
<1>2. ASSUME NEW m \in net, Fetch(m)
      PROVE  SameServer' /\ AddressInUse'
  BY <1>0, <1>2 DEF Fetch, client, appConfig, history
<1>3. CASE Second
  BY <1>0, <1>3 DEF Second, appConfig
<1>4. CASE LinkLost
  BY <1>0, <1>4 DEF LinkLost
<1>5. CASE Discover
  BY <1>0, <1>5 DEF Discover, appConfig
<1>6. CASE OfferTimeout \/ Offer \/ NoOffer \/ AckTimeout
  BY <1>0, <1>6 DEF OfferTimeout, Offer, NoOffer, AckTimeout, client, appConfig, history
<1>7. CASE Ack
  <2>1. appIp' = server /\ server \in Servers /\ holder' = server
    BY <1>0, <1>7 DEF Ack, Requested, ReadOptions, Granted, Answered
  <2>2. Fallback \notin Servers
    BY DhcpAssumption DEF DhcpAssumption
  <2> QED BY <2>1, <2>2, <1>7 DEF Ack
<1>8. CASE RenewAck
  <2>1. holder' = server /\ server = holder /\ bound
    BY <1>0, <1>8 DEF RenewAck, Granted, Answered, Phase
  <2> QED BY <2>1, <1>0, <1>8 DEF RenewAck, appConfig
<1>9. CASE Nak
  BY <1>0, <1>9 DEF Nak, appConfig, history
<1>10. CASE NoAnswer
  <2>1. sm \in Renewing => UNCHANGED <<offered, server>>
    BY <1>0, <1>10 DEF NoAnswer, RememberOffer, FirstOffer, NoOldOffer
  <2> QED BY <2>1, <1>0, <1>10 DEF NoAnswer, appConfig, history
<1>11. CASE CountDown \/ RenewTimeout
  BY <1>0, <1>11 DEF CountDown, RenewTimeout, AfterTimeout, client, appConfig, history
<1>12. CASE Renew
  BY <1>0, <1>12 DEF Renew, SendRenewal, appConfig, history
<1> QED
  BY <1>1, <1>2, <1>3, <1>4, <1>5, <1>6, <1>7, <1>8, <1>9, <1>10, <1>11, <1>12
     DEF Next, Deliver, StackTask

\* No step brings an old offer into a renewal: the kept part of the lease is
\* longer than an offer lives.
LEMMA OfferStep ==
  ASSUME IndInv, MaxDelay < K, [Next]_vars
  PROVE  NoOldOffer'
<1> USE DEF NoOldOffer, Pass, Renewing, RenewWait, SendAgain
<1>0. NoOldOffer /\ ClocksAgree /\ Requested /\ TypeOK /\ SocketBalanced
  BY DEF IndInv, LeaseInv
<1>a. /\ K \in Nat /\ leaseLeft \in Nat /\ elapsed \in Nat /\ MaxDelay \in Nat
      /\ Timeout \in Nat \ {0} /\ \A m \in net : m.age \in 0 .. MaxDelay
  <2>1. \A m \in net : m.age \in 0 .. MaxDelay
    BY <1>0 DEF TypeOK, Message
  <2> QED BY <2>1, <1>0, KeptTyped, DhcpAssumption DEF TypeOK, Seconds, DhcpAssumption
<1>1. CASE LinkChange \/ UNCHANGED vars
  BY <1>0, <1>1 DEF LinkChange, vars, client, io, udp
<1>2. ASSUME NEW m \in net, Fetch(m)
      PROVE  NoOldOffer'
  BY <1>0, <1>2 DEF Fetch, client, SocketBalanced
<1>3. CASE Second
  <2>1. \A n \in net' : \E m \in net : n.type = m.type /\ n.age = m.age + 1
    <3> SUFFICES ASSUME NEW m \in net
                 PROVE  LET n == [m EXCEPT !.age = @ + 1]
                        IN  n.type = m.type /\ n.age = m.age + 1
      BY <1>3 DEF Second
    <3>1. m \in Message
      BY <1>0 DEF TypeOK
    <3> QED BY <3>1 DEF Message
  <2>2. sm = "bound" => elapsed' = elapsed + 1
    BY <1>a, <1>3 DEF Second, Idle, Waits
  <2>3. ASSUME sm = "bound", NEW n \in net', n.type = "offer"
        PROVE  n.age >= K - leaseLeft + elapsed'
    <3>1. PICK m \in net : n.type = m.type /\ n.age = m.age + 1
      BY <2>1
    <3>2. m.age >= K - leaseLeft + elapsed
      BY <3>1, <2>3, <1>0
    <3> QED BY <3>1, <3>2, <2>2, <2>3, <1>a
  <2> QED BY <2>1, <2>3, <1>0, <1>3 DEF Second
<1>4. CASE LinkLost \/ Discover \/ OfferTimeout \/ Offer \/ NoOffer \/ AckTimeout \/ Nak
  BY <1>4 DEF LinkLost, Discover, OfferTimeout, Offer, NoOffer, AckTimeout, Nak
<1>5. CASE Ack
  <2>1. leaseLeft' = K /\ elapsed' = 0 /\ net' = net /\ rx' = None /\ sm' = "bound"
    BY <1>0, <1>5 DEF Ack, Requested, ReadOptions, udp
  <2> QED BY <2>1, <1>a
<1>6. CASE RenewAck
  BY <1>0, <1>6 DEF RenewAck
<1>7. CASE NoAnswer
  BY <1>0, <1>7 DEF NoAnswer, udp
<1>8. CASE CountDown
  <2>1. leaseLeft' = leaseLeft - 1 /\ elapsed' = elapsed - 1 /\ net' = net /\ rx' = None /\ sm' = "bound"
    BY <1>8 DEF CountDown, udp
  <2> QED BY <2>1, <1>0, <1>a, <1>8 DEF CountDown
<1>9. CASE RenewTimeout
  BY <1>0, <1>9 DEF RenewTimeout, AfterTimeout, udp
<1>10. CASE Renew
  <2>1. \A m \in net : m.type # "offer"
    <3>1. CASE sm = "bound"
      <4>1. leaseLeft < 2 /\ elapsed > 0
        BY <3>1, <1>10 DEF Renew
      <4>2. SUFFICES ASSUME NEW m \in net, m.type = "offer" PROVE FALSE
        OBVIOUS
      <4>3. m.age >= K - leaseLeft + elapsed /\ m.age <= MaxDelay
        BY <3>1, <4>2, <1>0, <1>a
      <4> QED BY <4>1, <4>3, <1>a
    <3> QED BY <3>1, <1>0, <1>10 DEF Renew
  <2>2. \A m \in net' : m.type # "offer"
    <3>1. PICK state : SendRenewal(state)
      BY <1>10 DEF Renew
    <3>2. (IF peer' = None THEN Servers ELSE {peer'}) \in SUBSET Servers
      BY <3>1, <1>0 DEF SendRenewal, TypeOK, Address
    <3> QED BY <3>1, <3>2, <2>1, <1>0, AnswersTyped DEF SendRenewal, Send
  <2>3. rx' = None /\ sm' \in RenewWait
    BY <1>10 DEF Renew, SendRenewal
  <2> QED BY <2>2, <2>3
<1> QED
  BY <1>1, <1>2, <1>3, <1>4, <1>5, <1>6, <1>7, <1>8, <1>9, <1>10 DEF Next, Deliver, StackTask

\* The client never gains on the server: a second counts down both clocks,
\* and an ACK sets the client's to what its server has left, less its travel.
LEMMA ClockStep ==
  ASSUME IndInv, MaxDelay < K, [Next]_vars
  PROVE  ClocksAgree'
<1> USE DEF Pass, RenewWait, SendAgain
<1>0. ClocksAgree /\ Requested /\ TypeOK /\ Linked /\ Phase /\ SameServer
  BY DEF IndInv, LeaseInv
<1>a. /\ K \in Nat \ {0} /\ Lease \in Nat /\ MaxDelay \in Nat /\ Timeout \in Nat \ {0}
      /\ leaseLeft \in Nat /\ elapsed \in 0 .. Timeout /\ expires \in Nat
      /\ Margin \in Int /\ Margin = Lease - MaxDelay - K
  BY <1>0, KeptTyped, DhcpAssumption DEF TypeOK, Seconds, DhcpAssumption, Margin
<1>1. CASE LinkChange \/ UNCHANGED vars
  BY <1>0, <1>1 DEF ClocksAgree, LinkChange, vars, client, history
<1>2. ASSUME NEW m \in net, Fetch(m)
      PROVE  ClocksAgree'
  BY <1>0, <1>2 DEF ClocksAgree, Fetch, client, history
<1>3. CASE Second
  <2>1. expires' \in Int /\ expires' >= expires - 1
    BY <1>3, <1>a DEF Second
  <2>2. sm' = sm /\ bound' = bound /\ leaseLeft' = leaseLeft
    BY <1>3 DEF Second
  <2>3. sm = "bound" => elapsed = 0 /\ elapsed' = 1
    BY <1>3, <1>a DEF Second, Idle, Waits
  <2>4. sm \in RenewWait => elapsed' = elapsed + 1
    BY <1>3, <1>a DEF Second, Idle, Waits
  <2>5. sm \notin SendAgain /\ ~(sm = "sendDiscovery" /\ bound)
    BY <1>0, <1>3 DEF Second, Idle, Waits, Linked
  <2> QED BY <2>1, <2>2, <2>3, <2>4, <2>5, <1>0, <1>a DEF ClocksAgree
<1>4. CASE LinkLost \/ Discover
  BY <1>4 DEF ClocksAgree, LinkLost, Discover
<1>5. CASE OfferTimeout \/ Offer \/ NoOffer \/ AckTimeout
  <2>1. ~bound /\ bound' = bound /\ sm' \in {"sendDiscovery", "getRequestAck", "getOffer"}
    BY <1>0, <1>5 DEF OfferTimeout, Offer, NoOffer, AckTimeout, Phase, client
  <2> QED BY <2>1 DEF ClocksAgree
<1>6. CASE Ack \/ RenewAck
  <2>1. sm' = "bound" /\ elapsed' = 0
    BY <1>6 DEF Ack, RenewAck
  <2>2. leaseLeft' = K
    <3>1. CASE Ack
      BY <3>1, <1>0 DEF Ack, Requested, ReadOptions
    <3>2. CASE RenewAck
      <4>1. ~offered /\ rx.type = "ack"
        BY <3>2, <1>0 DEF RenewAck, SameServer, Renewing, Answered
      <4> QED BY <3>2, <4>1 DEF RenewAck, ReadOptions, K
    <3> QED BY <1>6, <3>1, <3>2
  <2>3. expires' \in Int /\ expires' >= Lease - MaxDelay
    <3>1. rx.age \in 0 .. MaxDelay
      BY <1>0, <1>6 DEF Ack, RenewAck, TypeOK, Message
    <3>2. expires' = IF Lease > rx.age THEN Lease - rx.age ELSE 0
      BY <1>6 DEF Ack, RenewAck, Granted
    <3> QED BY <3>1, <3>2, <1>a
  <2> QED BY <2>1, <2>2, <2>3, <1>a DEF ClocksAgree
<1>7. CASE Nak
  <2>1. sm' = "sendDiscovery" /\ expires' = expires /\ bound' = bound
    BY <1>7 DEF Nak, history
  <2>2. sm = "getRequestAck" => ~bound
    BY <1>0 DEF Phase
  <2>3. sm \in {"getRequestAck"} \cup RenewWait
    BY <1>7 DEF Nak
  <2> QED BY <2>1, <2>2, <2>3, <1>0, <1>a DEF ClocksAgree
<1>8. CASE NoAnswer
  <2>1. sm' = sm /\ sm # "bound" /\ expires' = expires /\ elapsed' = elapsed /\ bound' = bound
    BY <1>8 DEF NoAnswer, history
  <2> QED BY <2>1, <1>0 DEF ClocksAgree
<1>9. CASE CountDown
  <2>1. /\ sm = "bound" /\ sm' = "bound" /\ expires' = expires
        /\ leaseLeft >= 2 /\ leaseLeft' = leaseLeft - 1
        /\ elapsed > 0 /\ elapsed' = elapsed - 1
    BY <1>9 DEF CountDown, history
  <2> QED BY <2>1, <1>0, <1>a DEF ClocksAgree
<1>10. CASE RenewTimeout
  <2>1. /\ sm \in RenewWait /\ sm' = AfterTimeout(sm)
        /\ elapsed = Timeout /\ expires' = expires
    BY <1>10 DEF RenewTimeout, history
  <2> QED BY <2>1, <1>0, <1>a DEF ClocksAgree, AfterTimeout
<1>11. CASE Renew
  <2>1. /\ elapsed' = 0 /\ expires' = expires
        /\ \/ sm = "bound" /\ elapsed > 0 /\ leaseLeft < 2 /\ sm' = "getRenewAck1"
           \/ sm = "sendRenew2" /\ sm' = "getRenewAck2"
           \/ sm = "sendRenew3" /\ sm' = "getRenewAck3"
    BY <1>11 DEF Renew, SendRenewal, history
  <2> QED BY <2>1, <1>0, <1>a DEF ClocksAgree
<1> QED
  BY <1>1, <1>2, <1>3, <1>4, <1>5, <1>6, <1>7, <1>8, <1>9, <1>10, <1>11
     DEF Next, Deliver, StackTask

\* At power-up the client is not bound, and in configuration mode.
LEMMA IndInit == Init => IndInv
<1> SUFFICES ASSUME Init PROVE IndInv
  OBVIOUS
<1>1. SocketBalanced
  BY DEF Init, SocketBalanced
<1>2. Linked /\ Phase /\ SameServer /\ NoOldOffer /\ ClocksAgree
  BY DEF Init, Linked, Phase, SameServer, NoOldOffer, ClocksAgree, Renewing, RenewWait, SendAgain
<1>3. AddressInUse
  BY DEF Init, AddressInUse
<1> QED BY <1>1, <1>2, <1>3, TypeInit DEF IndInv, LeaseInv

\* For a lease that outlives old offers the invariant is inductive.
THEOREM Inductive ==
  ASSUME MaxDelay < K
  PROVE  Spec => []IndInv
<1>1. IndInv /\ [Next]_vars => IndInv'
  <2> SUFFICES ASSUME IndInv, [Next]_vars PROVE IndInv'
    OBVIOUS
  <2>1. (TypeOK /\ Requested)'
    BY TypeStep, RequestedStep DEF IndInv
  <2>2. SocketBalanced'
    BY SocketStep DEF IndInv
  <2>3. Linked' /\ Phase'
    BY PhaseStep DEF IndInv, LeaseInv
  <2>4. SameServer' /\ AddressInUse'
    BY ServerStep
  <2>5. NoOldOffer' /\ ClocksAgree'
    BY OfferStep, ClockStep
  <2> QED BY <2>1, <2>2, <2>3, <2>4, <2>5 DEF IndInv, LeaseInv
<1> QED BY <1>1, IndInit, PTL DEF Spec

\* For any servers and delays, and any lease of which the client uses more
\* than the time an answer travels: a client that calls itself bound has the
\* address that the server of the last accepted ACK granted, whatever comes
\* late, is lost or refused; in configuration mode it has the fall-back.
THEOREM AddressHeld ==
  ASSUME MaxDelay < Kept(Lease)
  PROVE  Spec => []AddressInUse
<1>1. MaxDelay < K
  BY DEF K
<1>2. IndInv => AddressInUse
  BY DEF IndInv, LeaseInv
<1> QED BY <1>1, <1>2, Inductive, PTL

\* If the part of the lease that is kept back also covers the travel of the
\* ACK and three tries to renew, a client never calls itself bound when its
\* server has taken the lease for ended.
THEOREM LeaseHeld ==
  ASSUME LeaseCoversRenewal
  PROVE  Spec => []BoundHasLease
<1>1. MaxDelay < K /\ 3 * Timeout < Margin
  <2>1. K \in Nat /\ Lease \in Nat /\ MaxDelay \in Nat /\ Timeout \in Nat
    BY KeptTyped, DhcpAssumption DEF DhcpAssumption
  <2> QED BY <2>1 DEF LeaseCoversRenewal, K, Margin
<1>2. IndInv => BoundHasLease
  <2> SUFFICES ASSUME IndInv, bound PROVE expires > 0
    BY DEF BoundHasLease
  <2>1. /\ Margin \in Int /\ Timeout \in Nat /\ leaseLeft \in Nat
        /\ elapsed \in 0 .. Timeout /\ expires \in Nat
    BY KeptTyped, DhcpAssumption
       DEF IndInv, TypeOK, Seconds, DhcpAssumption, Margin
  <2>2. sm \in {"bound", "sendDiscovery"} \cup Renewing
    BY DEF IndInv, LeaseInv, TypeOK, Phase, Waits, Renewing
  <2>3. ClocksAgree
    BY DEF IndInv, LeaseInv
  <2> QED BY <1>1, <2>1, <2>2, <2>3 DEF ClocksAgree, Renewing, RenewWait, SendAgain
<1> QED BY <1>1, <1>2, Inductive, PTL
=============================================================================
