--------------------------- MODULE InterruptProofs ---------------------------
(***************************************************************************)
(* Theorems about the two components an interrupt handler shares with the  *)
(* main loop: the serial port of MinitelUart, for every ring size, FIFO    *)
(* depth and number of arrivals, and the system tick of Tick, for every    *)
(* width of the two counters.                                              *)
(***************************************************************************)
EXTENDS MinitelUart, Tick, TLAPS

-----------------------------------------------------------------------------
(* The serial port. *)

\* What uart_getc has handed out or is committed to handing out last.
LastClaimed == IF pc = "load" THEN rxBuf[rxTail].id ELSE lastOut

\* The hardware FIFO keeps the order of arrival.
FifoOrdered ==
  /\ \A j \in 1 .. Len(fifo) : fifo[j].id <= arrived
  /\ \A i, j \in 1 .. Len(fifo) : i < j => fifo[i].id < fifo[j].id

\* Unless uart_getc has lost the race, the unread slots are in the order of
\* arrival, after what was claimed and before the FIFO.
RingOrdered ==
  ~raced =>
    /\ lastOut <= arrived
    /\ LastClaimed <= arrived
    /\ pc = "load" => rxBuf[rxTail].id > lastOut
    /\ \A k \in 1 .. Used : /\ rxBuf[SlotAt(k)].id <= arrived
                            /\ rxBuf[SlotAt(k)].id > LastClaimed
    /\ \A i, k \in 1 .. Used : i < k => rxBuf[SlotAt(i)].id < rxBuf[SlotAt(k)].id
    /\ \A j \in 1 .. Len(fifo) :
         /\ fifo[j].id > LastClaimed
         /\ \A k \in 1 .. Used : fifo[j].id > rxBuf[SlotAt(k)].id

\* Before the first overflow the comparison in uart_getc stays true until
\* the advance: nobody but uart_getc takes characters out.
CheckStillTrue == ~flushed /\ pc = "advance" => rxHead # rxTail

IndInv ==
  /\ TypeOK
  /\ FifoOrdered
  /\ RingOrdered
  /\ CheckStillTrue
  /\ LosslessUntilFlush

-----------------------------------------------------------------------------
(* Arithmetic of the ring. *)

\* The unread slots are slots of the array.
LEMMA SlotInRing ==
  ASSUME TypeOK
  PROVE  /\ Used \in 0 .. RingSize - 1
         /\ rxHead = rxTail <=> Used = 0
         /\ \A k \in 1 .. Used : SlotAt(k) \in Index
         /\ Succ(rxHead) \in Index /\ Succ(rxTail) \in Index
  BY UartAssumption DEF TypeOK, Used, SlotAt, Index, Succ

\* A store fills the slot after the last unread one, which is none of them.
LEMMA StoreSlots ==
  ASSUME TypeOK, Succ(rxHead) # rxTail,
         rxHead' = Succ(rxHead), rxTail' = rxTail
  PROVE  /\ Used' = Used + 1
         /\ SlotAt(Used + 1) = Succ(rxHead)
         /\ \A k \in 1 .. Used : SlotAt(k) # Succ(rxHead)
         /\ \A k \in Nat : SlotAt(k)' = SlotAt(k)
  BY UartAssumption DEF TypeOK, Used, SlotAt, Index, Succ

\* An advance of the tail takes the first unread slot.
LEMMA AdvanceSlots ==
  ASSUME TypeOK, rxHead # rxTail,
         rxHead' = rxHead, rxTail' = Succ(rxTail)
  PROVE  /\ Used' = Used - 1
         /\ rxTail' = SlotAt(1)
         /\ \A k \in 1 .. Used - 1 : SlotAt(k)' = SlotAt(k + 1)
  BY UartAssumption DEF TypeOK, Used, SlotAt, Index, Succ

-----------------------------------------------------------------------------
(* Type correctness. *)

\* The initial state and every step keep the types: the indices never leave
\* the array, whatever the interleaving.
LEMMA TypeInit == Init => TypeOK
  BY UartAssumption DEF Init, TypeOK, Index, Char, Blank, Value

\* A step of the handler or of the event keeps the types.
LEMMA TypeStep == TypeOK /\ [Next]_vars => TypeOK'
<1> SUFFICES ASSUME TypeOK, [Next]_vars
             PROVE  TypeOK'
  OBVIOUS
<1> USE UartAssumption DEF TypeOK, ring, line, main, history
<1>1. ASSUME NEW v \in Value, Arrive(v)
      PROVE  TypeOK'
  <2>1. CASE UNCHANGED fifo
    <3>1. oerr' \in BOOLEAN
      BY <1>1, Zenon DEF Arrive
    <3>4. arrived' \in 0 .. MaxRx
      <4>1. arrived < MaxRx /\ arrived' = arrived + 1
        BY <1>1, Zenon DEF Arrive
      <4>2. QED
        BY <4>1
    <3>2. UNCHANGED <<rxHead, rxTail, rxBuf, fifo, isr, pc, data, echo, lastOut, flushed, raced>>
      BY <1>1, <2>1 DEF Arrive
    <3>3. QED
      BY <3>1, <3>2, <3>4
  <2>2. CASE /\ Len(fifo) < FifoDepth
             /\ fifo' = Append(fifo, [id |-> arrived + 1, val |-> v])
             /\ UNCHANGED oerr
    <3>1. [id |-> arrived + 1, val |-> v] \in Char
      BY <1>1 DEF Arrive, Char
    <3>2. fifo' \in Seq(Char) /\ Len(fifo') <= FifoDepth
      BY <2>2, <3>1
    <3>3. QED
      BY <1>1, <2>2, <3>2 DEF Arrive
  <2>3. QED
    BY <1>1, <2>1, <2>2 DEF Arrive
<1>2. CASE IsrEnter
  BY <1>2 DEF IsrEnter
<1>3. CASE IsrStore
  <2>1. Head(fifo) \in Char /\ Tail(fifo) \in Seq(Char) /\ Len(Tail(fifo)) <= FifoDepth
    BY <1>3 DEF IsrStore
  <2>2. Succ(rxHead) \in Index
    BY DEF Succ, Index
  <2>3. QED
    BY <1>3, <2>1, <2>2 DEF IsrStore
<1>4. CASE IsrOverflow
  <2>1. Tail(fifo) \in Seq(Char) /\ Len(Tail(fifo)) <= FifoDepth
    BY <1>4 DEF IsrOverflow
  <2>2. QED
    BY <1>4, <2>1 DEF IsrOverflow
<1>5. CASE IsrExit
  BY <1>5 DEF IsrExit
<1>6. CASE GetcEmpty
  BY <1>6 DEF GetcEmpty, NoData, Char, Value
<1>7. CASE GetcNonEmpty
  BY <1>7 DEF GetcNonEmpty
<1>8. CASE GetcAdvance
  <2>1. Succ(rxTail) \in Index
    BY DEF Succ, Index
  <2>2. QED
    BY <1>8, <2>1 DEF GetcAdvance
<1>9. CASE GetcLoad
  <2>1. rxBuf[rxTail] \in Char /\ rxBuf[rxTail].id \in 0 .. MaxRx
    BY DEF Char
  <2>2. QED
    BY <1>9, <2>1 DEF GetcLoad
<1>10. CASE EventSend
  BY <1>10 DEF EventSend
<1>11. CASE UNCHANGED vars
  BY <1>11 DEF vars
<1>12. QED
  BY <1>1, <1>2, <1>3, <1>4, <1>5, <1>6, <1>7, <1>8, <1>9, <1>10, <1>11
     DEF Next, Isr, Event

\* uart.c keeps its indices and buffer well typed in every reachable state.
THEOREM TypeCorrect == Spec => []TypeOK
<1>1. Init => TypeOK
  BY TypeInit
<1>2. TypeOK /\ [Next]_vars => TypeOK'
  BY TypeStep
<1>3. QED
  BY <1>1, <1>2, PTL DEF Spec

-----------------------------------------------------------------------------
(* The handler and the claimed slot. *)

\* The interrupt handler never writes the slot uart_getc has claimed, so the
\* load that follows the advance of the tail cannot be torn by it.
THEOREM ClaimedSlotSafe == Spec => ClaimedSlotStable
<1>1. ASSUME TypeOK, [Next]_vars, pc = "load"
      PROVE  rxBuf'[rxTail] = rxBuf[rxTail]
  <2>1. CASE IsrStore
    BY <1>1, <2>1 DEF IsrStore, TypeOK
  <2>2. CASE ~IsrStore
    <3>1. rxBuf' = rxBuf
      BY <1>1, <2>2 DEF Next, Isr, Event, Arrive, IsrEnter, IsrOverflow, IsrExit,
         GetcEmpty, GetcNonEmpty, GetcAdvance, GetcLoad, EventSend, vars, ring
    <3>2. QED
      BY <3>1
  <2>3. QED
    BY <2>1, <2>2
<1>2. TypeOK /\ [Next]_vars => [pc = "load" => rxBuf'[rxTail] = rxBuf[rxTail]]_vars
  BY <1>1
<1>3. QED
  BY <1>2, TypeCorrect, PTL DEF Spec, ClaimedSlotStable

-----------------------------------------------------------------------------
(* Order and completeness of what uart_getc delivers. *)

\* The places in the stream that the variables hold are natural numbers.
LEMMA IdsAreNumbers ==
  ASSUME TypeOK
  PROVE  /\ LastClaimed \in Nat /\ Taken \in Nat
         /\ lastOut \in Nat /\ arrived \in Nat
         /\ \A k \in 1 .. Used : rxBuf[SlotAt(k)].id \in Nat
         /\ \A j \in 1 .. Len(fifo) : fifo[j].id \in Nat
<1>1. \A c \in Char : c.id \in Nat
  BY UartAssumption DEF Char
<1>2. lastOut \in Nat /\ arrived \in Nat
  BY UartAssumption DEF TypeOK
<1>3. \A j \in 1 .. Len(fifo) : fifo[j] \in Char
  BY DEF TypeOK
<1>4. \A i \in Index : rxBuf[i] \in Char
  BY DEF TypeOK
<1>5. rxTail \in Index
  BY DEF TypeOK
<1>6. LastClaimed \in Nat
  BY <1>1, <1>2, <1>4, <1>5 DEF LastClaimed
<1>7. Taken \in Nat
  BY <1>2 DEF Taken
<1>8. \A k \in 1 .. Used : SlotAt(k) \in Index
  BY SlotInRing
<1>9. QED
  BY <1>1, <1>2, <1>3, <1>4, <1>6, <1>7, <1>8

\* An empty ring has nothing in the wrong order.
LEMMA OrderInit == Init => IndInv
<1> SUFFICES ASSUME Init PROVE IndInv
  OBVIOUS
<1>1. TypeOK
  BY TypeInit
<1>2. Used = 0 /\ Len(fifo) = 0 /\ arrived = 0 /\ lastOut = 0 /\ pc = "check" /\ Taken = 0
  BY DEF Init, Used, Taken
<1>3. QED
  BY <1>1, <1>2 DEF IndInv, FifoOrdered, RingOrdered, CheckStillTrue,
     LosslessUntilFlush, LastClaimed

\* Steps that touch neither the ring nor the FIFO nor the claimed slot.
LEMMA QuietStep ==
  ASSUME IndInv, TypeOK', UNCHANGED <<ring, line, history>>,
         pc = "load" <=> pc' = "load", CheckStillTrue'
  PROVE  IndInv'
<1>1. UNCHANGED <<rxHead, rxTail, rxBuf, fifo, oerr, arrived, lastOut, flushed, raced>>
  BY DEF ring, line, history
<1>2. Used' = Used /\ LastClaimed' = LastClaimed /\ Taken' = Taken
  BY <1>1 DEF Used, LastClaimed, Taken
<1>3. \A k \in Nat : SlotAt(k)' = SlotAt(k)
  BY <1>1 DEF SlotAt
<1>4. Used \in Nat /\ Len(fifo) \in Nat
  BY SlotInRing DEF IndInv, TypeOK
<1>5. FifoOrdered'
  BY <1>1 DEF FifoOrdered, IndInv
<1>6. RingOrdered'
  BY <1>1, <1>2, <1>3, <1>4 DEF RingOrdered, IndInv
<1>7. LosslessUntilFlush'
  BY <1>1, <1>2, <1>3, <1>4 DEF LosslessUntilFlush, IndInv
<1>8. QED
  BY <1>5, <1>6, <1>7 DEF IndInv

\* A new character goes behind everything that arrived before it.
LEMMA ArriveStep ==
  ASSUME IndInv, TypeOK', NEW v \in Value, Arrive(v)
  PROVE  IndInv'
<1>0. TypeOK
  BY DEF IndInv
<1>1. UNCHANGED <<rxHead, rxTail, rxBuf, pc, lastOut, flushed, raced>> /\ arrived' = arrived + 1
  BY DEF Arrive, ring, main, history
<1>2. Used' = Used /\ LastClaimed' = LastClaimed /\ Taken' = Taken
  BY <1>1 DEF Used, LastClaimed, Taken
<1>3. \A k \in Nat : SlotAt(k)' = SlotAt(k)
  BY <1>1 DEF SlotAt
<1>4. Used \in Nat /\ Len(fifo) \in Nat /\ arrived \in Nat /\ lastOut \in Nat
  BY SlotInRing DEF IndInv, TypeOK
<1>5. \A j \in 1 .. Len(fifo) : fifo[j].id \in Nat
  BY <1>0, IdsAreNumbers
<1>6. LastClaimed \in Nat /\ \A k \in 1 .. Used : rxBuf[SlotAt(k)].id \in Nat
  BY <1>0, IdsAreNumbers
<1>7. CheckStillTrue'
  BY <1>1 DEF CheckStillTrue, IndInv
<1>8. CASE fifo' = fifo /\ oerr'
  <2>1. FifoOrdered'
    BY <1>1, <1>4, <1>5, <1>8 DEF FifoOrdered, IndInv
  <2>2. RingOrdered'
    BY <1>1, <1>2, <1>3, <1>4, <1>6, <1>8 DEF RingOrdered, IndInv
  <2>3. LosslessUntilFlush'
    BY <1>8 DEF LosslessUntilFlush
  <2>4. QED
    BY <1>7, <2>1, <2>2, <2>3 DEF IndInv
<1>9. CASE fifo' = Append(fifo, [id |-> arrived + 1, val |-> v]) /\ UNCHANGED oerr
  <2>1. /\ Len(fifo') = Len(fifo) + 1
        /\ \A j \in 1 .. Len(fifo) : fifo'[j] = fifo[j]
        /\ fifo'[Len(fifo) + 1].id = arrived + 1
    BY <1>9 DEF IndInv, TypeOK
  <2>2. FifoOrdered'
    <3>1. /\ \A j \in 1 .. Len(fifo) : fifo[j].id <= arrived
          /\ \A i, j \in 1 .. Len(fifo) : i < j => fifo[i].id < fifo[j].id
      BY DEF IndInv, FifoOrdered
    <3>2. \A j \in 1 .. Len(fifo) + 1 : fifo'[j].id <= arrived + 1
      <4> TAKE j \in 1 .. Len(fifo) + 1
      <4>1. CASE j \in 1 .. Len(fifo)
        <5>1. fifo'[j].id <= arrived /\ fifo'[j].id \in Nat
          BY <1>5, <2>1, <3>1, <4>1
        <5>2. QED
          BY <1>4, <5>1
      <4>2. CASE j = Len(fifo) + 1
        BY <1>4, <2>1, <4>2
      <4>3. QED
        BY <1>4, <4>1, <4>2
    <3>3. \A i, j \in 1 .. Len(fifo) + 1 : i < j => fifo'[i].id < fifo'[j].id
      <4> SUFFICES ASSUME NEW i \in 1 .. Len(fifo) + 1, NEW j \in 1 .. Len(fifo) + 1, i < j
                   PROVE  fifo'[i].id < fifo'[j].id
        OBVIOUS
      <4>1. i \in 1 .. Len(fifo) /\ fifo'[i].id <= arrived /\ fifo'[i].id \in Nat
        BY <1>4, <1>5, <2>1, <3>1
      <4>2. CASE j \in 1 .. Len(fifo)
        BY <2>1, <3>1, <4>1, <4>2
      <4>3. CASE j = Len(fifo) + 1
        BY <1>4, <2>1, <4>1, <4>3
      <4>4. QED
        BY <1>4, <4>2, <4>3
    <3>4. QED
      BY <1>1, <2>1, <3>2, <3>3 DEF FifoOrdered
  <2>3. RingOrdered'
    <3> SUFFICES ASSUME ~raced PROVE RingOrdered'
      BY <1>1 DEF RingOrdered
    <3>1. /\ lastOut <= arrived /\ LastClaimed <= arrived
          /\ pc = "load" => rxBuf[rxTail].id > lastOut
          /\ \A k \in 1 .. Used : /\ rxBuf[SlotAt(k)].id <= arrived
                                  /\ rxBuf[SlotAt(k)].id > LastClaimed
          /\ \A i, k \in 1 .. Used : i < k => rxBuf[SlotAt(i)].id < rxBuf[SlotAt(k)].id
          /\ \A j \in 1 .. Len(fifo) :
               /\ fifo[j].id > LastClaimed
               /\ \A k \in 1 .. Used : fifo[j].id > rxBuf[SlotAt(k)].id
      BY DEF IndInv, RingOrdered
    <3>2. \A k \in 1 .. Used : SlotAt(k)' = SlotAt(k)
      BY <1>3, <1>4
    <3>3. \A k \in 1 .. Used : rxBuf[SlotAt(k)].id <= arrived + 1
      BY <1>4, <1>6, <3>1
    <3>4. \A j \in 1 .. Len(fifo) + 1 :
            /\ fifo'[j].id > LastClaimed
            /\ \A k \in 1 .. Used : fifo'[j].id > rxBuf[SlotAt(k)].id
      BY <1>4, <1>5, <1>6, <2>1, <3>1
    <3>5. lastOut <= arrived + 1 /\ LastClaimed <= arrived + 1
      BY <1>4, <1>6, <3>1
    <3>6. QED
      BY <1>1, <1>2, <2>1, <3>1, <3>2, <3>3, <3>4, <3>5 DEF RingOrdered
  <2>4. LosslessUntilFlush'
    <3> SUFFICES ASSUME ~flushed, ~oerr PROVE LosslessUntilFlush'
      BY <1>1, <1>9 DEF LosslessUntilFlush
    <3>1. /\ pc = "load" => rxBuf[rxTail].id = Taken
          /\ \A k \in 1 .. Used : rxBuf[SlotAt(k)].id = Taken + k
          /\ \A j \in 1 .. Len(fifo) : fifo[j].id = Taken + Used + j
          /\ arrived = Taken + Used + Len(fifo)
      BY DEF IndInv, LosslessUntilFlush
    <3>2. Taken \in Nat
      BY <1>0, IdsAreNumbers
    <3>3. \A k \in 1 .. Used : SlotAt(k)' = SlotAt(k)
      BY <1>3, <1>4
    <3>4. \A j \in 1 .. Len(fifo) + 1 : fifo'[j].id = Taken + Used + j
      <4> TAKE j \in 1 .. Len(fifo) + 1
      <4>1. CASE j \in 1 .. Len(fifo)
        BY <2>1, <3>1, <4>1
      <4>2. CASE j = Len(fifo) + 1
        BY <1>4, <2>1, <3>1, <3>2, <4>2
      <4>3. QED
        BY <1>4, <4>1, <4>2
    <3>5. arrived + 1 = Taken + Used + (Len(fifo) + 1)
      BY <1>4, <3>1, <3>2
    <3>6. QED
      BY <1>1, <1>2, <2>1, <3>1, <3>3, <3>4, <3>5 DEF LosslessUntilFlush
  <2>5. QED
    BY <1>7, <2>2, <2>3, <2>4 DEF IndInv
<1>10. QED
  BY <1>8, <1>9 DEF Arrive

\* The handler moves the FIFO's first character behind the unread slots.
LEMMA StoreStep ==
  ASSUME IndInv, TypeOK', IsrStore
  PROVE  IndInv'
<1>1. /\ UNCHANGED <<rxTail, pc, lastOut, flushed, raced, oerr, arrived>>
      /\ rxHead' = Succ(rxHead) /\ Succ(rxHead) # rxTail
      /\ rxBuf' = [rxBuf EXCEPT ![Succ(rxHead)] = Head(fifo)]
      /\ fifo # <<>> /\ fifo' = Tail(fifo)
  BY DEF IsrStore, main, history
<1>2. TypeOK
  BY DEF IndInv
<1>3. /\ Used' = Used + 1
      /\ SlotAt(Used + 1) = Succ(rxHead)
      /\ \A k \in 1 .. Used : SlotAt(k) # Succ(rxHead)
      /\ \A k \in Nat : SlotAt(k)' = SlotAt(k)
  BY <1>1, <1>2, StoreSlots
<1>4. Used \in Nat /\ \A k \in 1 .. Used : SlotAt(k) \in Index
  BY <1>2, SlotInRing
<1>5. /\ Len(fifo) \in Nat \ {0} /\ Len(fifo') = Len(fifo) - 1
      /\ Head(fifo) = fifo[1]
      /\ \A j \in 1 .. Len(fifo') : fifo'[j] = fifo[j + 1]
  BY <1>1, <1>2 DEF TypeOK
<1>6. /\ rxBuf'[rxTail] = rxBuf[rxTail]
      /\ \A k \in 1 .. Used : rxBuf'[SlotAt(k)] = rxBuf[SlotAt(k)]
      /\ rxBuf'[SlotAt(Used + 1)] = fifo[1]
  BY <1>1, <1>2, <1>3, <1>4, <1>5, SlotInRing DEF TypeOK
<1>7. LastClaimed' = LastClaimed /\ Taken' = Taken
  BY <1>1, <1>6 DEF LastClaimed, Taken
<1>8. /\ LastClaimed \in Nat /\ arrived \in Nat /\ lastOut \in Nat
      /\ \A k \in 1 .. Used : rxBuf[SlotAt(k)].id \in Nat
      /\ \A j \in 1 .. Len(fifo) : fifo[j].id \in Nat
  BY <1>2, IdsAreNumbers
<1>9. FifoOrdered'
  BY <1>1, <1>5, <1>8 DEF FifoOrdered, IndInv
<1>10. RingOrdered'
  <2> SUFFICES ASSUME ~raced PROVE RingOrdered'
    BY <1>1 DEF RingOrdered
  <2>1. /\ lastOut <= arrived /\ LastClaimed <= arrived
        /\ pc = "load" => rxBuf[rxTail].id > lastOut
    BY DEF IndInv, RingOrdered
  <2>2. \A k \in 1 .. Used + 1 : rxBuf'[SlotAt(k)].id <= arrived /\ rxBuf'[SlotAt(k)].id > LastClaimed
    <3>1. fifo[1].id <= arrived /\ fifo[1].id > LastClaimed
      BY <1>5 DEF IndInv, RingOrdered, FifoOrdered
    <3>2. \A k \in 1 .. Used : rxBuf[SlotAt(k)].id <= arrived /\ rxBuf[SlotAt(k)].id > LastClaimed
      BY DEF IndInv, RingOrdered
    <3>3. QED
      BY <1>4, <1>6, <3>1, <3>2
  <2>3. \A i, k \in 1 .. Used + 1 : i < k => rxBuf'[SlotAt(i)].id < rxBuf'[SlotAt(k)].id
    <3>1. \A k \in 1 .. Used : rxBuf[SlotAt(k)].id < fifo[1].id
      BY <1>5, <1>8 DEF IndInv, RingOrdered
    <3>2. \A i, k \in 1 .. Used : i < k => rxBuf[SlotAt(i)].id < rxBuf[SlotAt(k)].id
      BY DEF IndInv, RingOrdered
    <3>3. QED
      BY <1>4, <1>6, <3>1, <3>2
  <2>4. \A j \in 1 .. Len(fifo') :
          /\ fifo'[j].id > LastClaimed
          /\ \A k \in 1 .. Used + 1 : fifo'[j].id > rxBuf'[SlotAt(k)].id
    <3>1. \A j \in 2 .. Len(fifo) : fifo[j].id > fifo[1].id
      BY <1>5, <1>8 DEF IndInv, FifoOrdered
    <3>2. \A j \in 1 .. Len(fifo) :
            /\ fifo[j].id > LastClaimed
            /\ \A k \in 1 .. Used : fifo[j].id > rxBuf[SlotAt(k)].id
      BY DEF IndInv, RingOrdered
    <3>3. \A j \in 1 .. Len(fifo') : j + 1 \in 2 .. Len(fifo) /\ fifo'[j] = fifo[j + 1]
      BY <1>5
    <3>4. \A k \in 1 .. Used + 1 : k \in 1 .. Used \/ k = Used + 1
      BY <1>4
    <3>5. \A j \in 1 .. Len(fifo') : j + 1 \in 1 .. Len(fifo)
      BY <1>5
    <3>6. \A j \in 1 .. Len(fifo') : \A k \in 1 .. Used + 1 : fifo'[j].id > rxBuf'[SlotAt(k)].id
      <4> TAKE j \in 1 .. Len(fifo')
      <4> TAKE k \in 1 .. Used + 1
      <4>1. CASE k \in 1 .. Used
        BY <1>6, <3>2, <3>3, <3>5, <4>1
      <4>2. CASE k = Used + 1
        BY <1>6, <3>1, <3>3, <4>2
      <4>3. QED
        BY <3>4, <4>1, <4>2
    <3>7. QED
      BY <3>2, <3>3, <3>5, <3>6
  <2>5. \A k \in 1 .. Used + 1 : SlotAt(k)' = SlotAt(k)
    BY <1>3, <1>4
  <2>6. QED
    BY <1>1, <1>3, <1>6, <1>7, <2>1, <2>2, <2>3, <2>4, <2>5 DEF RingOrdered
<1>11. CheckStillTrue'
  BY <1>1, <1>2, <1>3, <1>4 DEF CheckStillTrue, TypeOK, Used, Index, Succ
<1>12. LosslessUntilFlush'
  <2> SUFFICES ASSUME ~flushed, ~oerr PROVE LosslessUntilFlush'
    BY <1>1 DEF LosslessUntilFlush
  <2>1. /\ pc = "load" => rxBuf[rxTail].id = Taken
        /\ \A k \in 1 .. Used : rxBuf[SlotAt(k)].id = Taken + k
        /\ \A j \in 1 .. Len(fifo) : fifo[j].id = Taken + Used + j
        /\ arrived = Taken + Used + Len(fifo)
    BY DEF IndInv, LosslessUntilFlush
  <2>2. Taken \in Nat
    BY <1>2, IdsAreNumbers
  <2>3. \A k \in 1 .. Used + 1 : rxBuf'[SlotAt(k)].id = Taken + k
    <3> TAKE k \in 1 .. Used + 1
    <3>1. CASE k \in 1 .. Used
      BY <1>6, <2>1, <3>1
    <3>2. CASE k = Used + 1
      <4>1. fifo[1].id = Taken + Used + 1
        BY <1>5, <2>1
      <4>2. QED
        BY <1>4, <1>6, <2>2, <3>2, <4>1
    <3>3. QED
      BY <1>4, <3>1, <3>2
  <2>4. \A j \in 1 .. Len(fifo') : fifo'[j].id = Taken + (Used + 1) + j
    BY <1>4, <1>5, <2>1, <2>2
  <2>5. \A k \in 1 .. Used + 1 : SlotAt(k)' = SlotAt(k)
    BY <1>3, <1>4
  <2>6. arrived = Taken + (Used + 1) + Len(fifo')
    BY <1>4, <1>5, <2>1, <2>2
  <2>7. QED
    BY <1>1, <1>3, <1>6, <1>7, <2>1, <2>3, <2>4, <2>5, <2>6 DEF LosslessUntilFlush
<1>13. QED
  BY <1>9, <1>10, <1>11, <1>12 DEF IndInv

\* An overflow empties the ring.
LEMMA OverflowStep ==
  ASSUME IndInv, TypeOK', IsrOverflow
  PROVE  IndInv'
<1>1. /\ UNCHANGED <<rxTail, rxBuf, pc, lastOut, raced, oerr, arrived>>
      /\ rxHead' = rxTail /\ flushed'
      /\ fifo # <<>> /\ fifo' = Tail(fifo)
  BY DEF IsrOverflow, main
<1>2. TypeOK
  BY DEF IndInv
<1>3. Used' = 0
  BY <1>1, <1>2 DEF Used, TypeOK, Index
<1>4. /\ Len(fifo) \in Nat \ {0} /\ Len(fifo') = Len(fifo) - 1
      /\ \A j \in 1 .. Len(fifo') : j + 1 \in 1 .. Len(fifo) /\ fifo'[j] = fifo[j + 1]
  BY <1>1, <1>2 DEF TypeOK
<1>5. LastClaimed' = LastClaimed
  BY <1>1 DEF LastClaimed
<1>6. FifoOrdered'
  BY <1>1, <1>4 DEF FifoOrdered, IndInv
<1>7. RingOrdered'
  <2> SUFFICES ASSUME ~raced PROVE RingOrdered'
    BY <1>1 DEF RingOrdered
  <2>1. /\ lastOut <= arrived /\ LastClaimed <= arrived
        /\ pc = "load" => rxBuf[rxTail].id > lastOut
        /\ \A j \in 1 .. Len(fifo) : fifo[j].id > LastClaimed
    BY DEF IndInv, RingOrdered
  <2>2. \A j \in 1 .. Len(fifo') : fifo'[j].id > LastClaimed
    BY <1>4, <2>1
  <2>3. 1 .. Used' = {}
    BY <1>3
  <2>4. QED
    BY <1>1, <1>5, <2>1, <2>2, <2>3 DEF RingOrdered
<1>8. CheckStillTrue' /\ LosslessUntilFlush'
  BY <1>1 DEF CheckStillTrue, LosslessUntilFlush
<1>9. QED
  BY <1>6, <1>7, <1>8 DEF IndInv

\* uart_getc claims the first unread slot; over an empty ring it has lost
\* the race, which takes an overflow.
LEMMA AdvanceStep ==
  ASSUME IndInv, TypeOK', GetcAdvance
  PROVE  IndInv'
<1>1. /\ UNCHANGED <<rxHead, rxBuf, fifo, oerr, arrived, lastOut, flushed>>
      /\ rxTail' = Succ(rxTail) /\ pc = "advance" /\ pc' = "load"
      /\ raced' = (raced \/ rxHead = rxTail)
  BY DEF GetcAdvance, line
<1>2. TypeOK
  BY DEF IndInv
<1>3. FifoOrdered'
  BY <1>1 DEF FifoOrdered, IndInv
<1>4. CheckStillTrue'
  BY <1>1 DEF CheckStillTrue
<1>5. CASE rxHead = rxTail
  <2>1. raced' /\ flushed'
    BY <1>1, <1>5 DEF IndInv, CheckStillTrue
  <2>2. QED
    BY <1>3, <1>4, <2>1 DEF IndInv, RingOrdered, LosslessUntilFlush
<1>6. CASE rxHead # rxTail
  <2>1. /\ Used' = Used - 1
        /\ rxTail' = SlotAt(1)
        /\ \A k \in 1 .. Used - 1 : SlotAt(k)' = SlotAt(k + 1)
    BY <1>1, <1>2, <1>6, AdvanceSlots
  <2>2. Used \in Nat \ {0}
    BY <1>2, <1>6, SlotInRing
  <2>3. /\ lastOut \in Nat /\ arrived \in Nat
        /\ \A k \in 1 .. Used : rxBuf[SlotAt(k)].id \in Nat
        /\ \A j \in 1 .. Len(fifo) : fifo[j].id \in Nat
    BY <1>2, IdsAreNumbers
  <2>4. LastClaimed = lastOut /\ LastClaimed' = rxBuf[SlotAt(1)].id
    BY <1>1, <2>1 DEF LastClaimed
  <2>5. Taken = lastOut /\ Taken' = lastOut + 1
    BY <1>1 DEF Taken
  <2>6. \A k \in 1 .. Used - 1 : k + 1 \in 1 .. Used /\ 1 < k + 1
    BY <2>2
  <2>7. 1 \in 1 .. Used
    BY <2>2
  <2>8. RingOrdered'
    <3> SUFFICES ASSUME ~raced PROVE RingOrdered'
      BY <1>1 DEF RingOrdered
    <3>1. /\ lastOut <= arrived
          /\ \A k \in 1 .. Used : /\ rxBuf[SlotAt(k)].id <= arrived
                                  /\ rxBuf[SlotAt(k)].id > lastOut
          /\ \A i, k \in 1 .. Used : i < k => rxBuf[SlotAt(i)].id < rxBuf[SlotAt(k)].id
          /\ \A j \in 1 .. Len(fifo) :
               \A k \in 1 .. Used : fifo[j].id > rxBuf[SlotAt(k)].id
      BY <2>4 DEF IndInv, RingOrdered
    <3>2. /\ rxBuf[SlotAt(1)].id <= arrived
          /\ rxBuf'[rxTail'].id > lastOut
      BY <1>1, <2>1, <2>7, <3>1
    <3>3. \A k \in 1 .. Used - 1 : /\ rxBuf[SlotAt(k + 1)].id <= arrived
                                  /\ rxBuf[SlotAt(k + 1)].id > rxBuf[SlotAt(1)].id
      <4> TAKE k \in 1 .. Used - 1
      <4>1. rxBuf[SlotAt(1)].id < rxBuf[SlotAt(k + 1)].id
        BY <2>6, <2>7, <3>1
      <4>2. QED
        BY <2>3, <2>6, <2>7, <3>1, <4>1
    <3>4. \A i, k \in 1 .. Used - 1 :
            i < k => rxBuf[SlotAt(i + 1)].id < rxBuf[SlotAt(k + 1)].id
      <4> TAKE i, k \in 1 .. Used - 1
      <4>1. i < k => i + 1 < k + 1
        BY <2>2
      <4>2. QED
        BY <2>6, <3>1, <4>1
    <3>5. \A j \in 1 .. Len(fifo) :
            /\ fifo[j].id > rxBuf[SlotAt(1)].id
            /\ \A k \in 1 .. Used - 1 : fifo[j].id > rxBuf[SlotAt(k + 1)].id
      BY <2>6, <2>7, <3>1
    <3>6. QED
      BY <1>1, <2>1, <2>4, <3>1, <3>2, <3>3, <3>4, <3>5 DEF RingOrdered
  <2>9. LosslessUntilFlush'
    <3> SUFFICES ASSUME ~flushed, ~oerr PROVE LosslessUntilFlush'
      BY <1>1 DEF LosslessUntilFlush
    <3>1. /\ \A k \in 1 .. Used : rxBuf[SlotAt(k)].id = lastOut + k
          /\ \A j \in 1 .. Len(fifo) : fifo[j].id = lastOut + Used + j
          /\ arrived = lastOut + Used + Len(fifo)
      BY <2>5 DEF IndInv, LosslessUntilFlush
    <3>2. rxBuf'[rxTail'].id = lastOut + 1
      BY <1>1, <2>1, <2>7, <3>1
    <3>3. \A k \in 1 .. Used - 1 : rxBuf[SlotAt(k + 1)].id = (lastOut + 1) + k
      <4> TAKE k \in 1 .. Used - 1
      <4>1. rxBuf[SlotAt(k + 1)].id = lastOut + (k + 1)
        BY <2>6, <3>1
      <4>2. QED
        BY <2>2, <2>3, <4>1
    <3>4. /\ \A j \in 1 .. Len(fifo) : fifo[j].id = (lastOut + 1) + (Used - 1) + j
          /\ arrived = (lastOut + 1) + (Used - 1) + Len(fifo)
      <4>1. lastOut + Used = (lastOut + 1) + (Used - 1)
        BY <2>2, <2>3
      <4>2. QED
        BY <3>1, <4>1
    <3>5. QED
      BY <1>1, <2>1, <2>5, <3>2, <3>3, <3>4 DEF LosslessUntilFlush
  <2>10. QED
    BY <1>3, <1>4, <2>8, <2>9 DEF IndInv
<1>7. QED
  BY <1>5, <1>6

\* The load delivers the claimed character.
LEMMA LoadStep ==
  ASSUME IndInv, TypeOK', GetcLoad
  PROVE  IndInv'
<1>1. /\ UNCHANGED <<rxHead, rxTail, rxBuf, fifo, oerr, arrived, flushed, raced>>
      /\ pc = "load" /\ pc' = "send" /\ lastOut' = rxBuf[rxTail].id
  BY DEF GetcLoad, line, ring
<1>2. TypeOK
  BY DEF IndInv
<1>3. Used' = Used /\ LastClaimed' = LastClaimed
  BY <1>1 DEF Used, LastClaimed
<1>4. \A k \in Nat : SlotAt(k)' = SlotAt(k)
  BY <1>1 DEF SlotAt
<1>5. Used \in Nat
  BY <1>2, SlotInRing
<1>6. \A k \in 1 .. Used : SlotAt(k)' = SlotAt(k)
  BY <1>4, <1>5
<1>7. FifoOrdered'
  BY <1>1 DEF FifoOrdered, IndInv
<1>8. RingOrdered'
  <2>1. lastOut' = LastClaimed
    BY <1>1 DEF LastClaimed
  <2>2. QED
    BY <1>1, <1>3, <1>6, <2>1 DEF RingOrdered, IndInv
<1>9. CheckStillTrue'
  BY <1>1 DEF CheckStillTrue
<1>10. LosslessUntilFlush'
  <2> SUFFICES ASSUME ~flushed, ~oerr PROVE LosslessUntilFlush'
    BY <1>1 DEF LosslessUntilFlush
  <2>1. Taken = lastOut + 1 /\ Taken' = rxBuf[rxTail].id
    BY <1>1 DEF Taken
  <2>2. rxBuf[rxTail].id = Taken
    BY <1>1 DEF IndInv, LosslessUntilFlush
  <2>3. QED
    BY <1>1, <1>3, <1>6, <2>1, <2>2 DEF IndInv, LosslessUntilFlush
<1>11. QED
  BY <1>7, <1>8, <1>9, <1>10 DEF IndInv

\* Every step keeps the inductive invariant.
LEMMA OrderStep == IndInv /\ [Next]_vars => IndInv'
<1> SUFFICES ASSUME IndInv, [Next]_vars
             PROVE  IndInv'
  OBVIOUS
<1>1. TypeOK'
  BY TypeStep DEF IndInv
<1>2. ASSUME NEW v \in Value, Arrive(v)
      PROVE  IndInv'
  BY <1>1, <1>2, ArriveStep
<1>3. CASE IsrStore
  BY <1>1, <1>3, StoreStep
<1>4. CASE IsrOverflow
  BY <1>1, <1>4, OverflowStep
<1>5. CASE GetcAdvance
  BY <1>1, <1>5, AdvanceStep
<1>6. CASE GetcLoad
  BY <1>1, <1>6, LoadStep
<1>7. CASE \/ IsrEnter \/ IsrExit \/ GetcEmpty \/ GetcNonEmpty \/ EventSend
           \/ UNCHANGED vars
  <2>1. UNCHANGED <<ring, line, history>>
    BY <1>7 DEF IsrEnter, IsrExit, GetcEmpty, GetcNonEmpty, EventSend, vars
  <2>2. pc = "load" <=> pc' = "load"
    BY <1>7 DEF IsrEnter, IsrExit, GetcEmpty, GetcNonEmpty, EventSend, vars, main
  <2>3. CheckStillTrue'
    <3>1. UNCHANGED <<rxHead, rxTail, flushed>>
      BY <2>1 DEF ring, history
    <3>2. pc' = "advance" => pc = "advance" \/ rxHead # rxTail
      BY <1>7 DEF IsrEnter, IsrExit, GetcEmpty, GetcNonEmpty, EventSend, vars, main
    <3>3. QED
      BY <3>1, <3>2 DEF IndInv, CheckStillTrue
  <2>4. QED
    BY <1>1, <2>1, <2>2, <2>3, QuietStep
<1>8. QED
  BY <1>2, <1>3, <1>4, <1>5, <1>6, <1>7 DEF Next, Isr, Event

\* Order and contents of the ring hold in every reachable state.
LEMMA OrderInvariant == Spec => []IndInv
<1>1. QED
  BY OrderInit, OrderStep, PTL DEF Spec

\* Until the first overflow nothing is lost, duplicated or reordered between
\* the line and the caller of uart_getc, wherever the interrupts fall.
THEOREM Lossless == Spec => []LosslessUntilFlush
<1>1. IndInv => LosslessUntilFlush
  BY DEF IndInv
<1>2. QED
  BY <1>1, OrderInvariant, PTL

\* Overflows lose characters but repeat and reorder none, unless one falls
\* between the comparison in uart_getc and the advance of the tail.
THEOREM NewDelivery == Spec => []DeliveryIsNew
<1>1. IndInv => DeliveryIsNew
  BY DEF IndInv, RingOrdered, DeliveryIsNew
<1>2. QED
  BY <1>1, OrderInvariant, PTL

-----------------------------------------------------------------------------
(* The system tick. *)

\* Quotient and remainder are unique.
LEMMA DivModUnique ==
  ASSUME NEW b \in Nat \ {0}, NEW q \in Nat, NEW r \in 0 .. b - 1,
         NEW n, n = b * q + r
  PROVE  n \div b = q /\ n % b = r
<1> DEFINE d == n \div b
           m == n % b
<1>1. n \in Nat
  OBVIOUS
<1>2. n = b * d + m /\ d \in Int /\ m \in 0 .. b - 1
  BY <1>1
<1> HIDE DEF d, m
<1>3. b * q + r = b * d + m
  BY <1>2
<1>4. d = q
  <2>1. ASSUME d > q PROVE FALSE
    <3>1. b * d >= b * (q + 1)
      BY <2>1, <1>2
    <3>2. b * (q + 1) = b * q + b
      BY <1>2
    <3> QED BY <3>1, <3>2, <1>2, <1>3
  <2>2. ASSUME d < q PROVE FALSE
    <3>1. b * q >= b * (d + 1)
      BY <2>2, <1>2
    <3>2. b * (d + 1) = b * d + b
      BY <1>2
    <3> QED BY <3>1, <3>2, <1>2, <1>3
  <2> QED BY <2>1, <2>2, <1>2
<1>5. m = r
  BY <1>3, <1>4, <1>2
<1> QED BY <1>4, <1>5 DEF d, m

\* So a count of q whole rounds and r ticks has them as its halves.
LEMMA DivModOfSum ==
  ASSUME NEW b \in Nat \ {0}, NEW q \in Nat, NEW r \in 0 .. b - 1
  PROVE  (b * q + r) \div b = q /\ (b * q + r) % b = r
BY DivModUnique

\* The next round of a counter modulo HighRange.
NextRound(h) == IF h = HighRange - 1 THEN 0 ELSE h + 1

\* One more tick: the low half goes on, or returns to zero and takes the
\* high half on.
LEMMA OneMoreTick ==
  ASSUME NEW n \in Nat
  PROVE  /\ LowOf(n) \in 0 .. LowRange - 1
         /\ HighOf(n) \in 0 .. HighRange - 1
         /\ LowOf(n) # LowRange - 1 =>
              LowOf(n + 1) = LowOf(n) + 1 /\ HighOf(n + 1) = HighOf(n)
         /\ LowOf(n) = LowRange - 1 =>
              LowOf(n + 1) = 0 /\ HighOf(n + 1) = NextRound(HighOf(n))
<1> DEFINE q == n \div LowRange
           r == n % LowRange
           Q == q \div HighRange
           h == q % HighRange
<1> USE TickAssumption DEF TickAssumption
<1>1. n = LowRange * q + r /\ q \in Nat /\ r \in 0 .. LowRange - 1
  OBVIOUS
<1>2. LowOf(n) = r /\ HighOf(n) = h
  BY DEF LowOf, HighOf
<1> HIDE DEF q, r
<1>3. q = HighRange * Q + h /\ Q \in Nat /\ h \in 0 .. HighRange - 1
  BY <1>1
<1> HIDE DEF Q, h
<1>4. ASSUME r # LowRange - 1
      PROVE  LowOf(n + 1) = r + 1 /\ HighOf(n + 1) = h
  <2>1. n + 1 = LowRange * q + (r + 1) /\ r + 1 \in 0 .. LowRange - 1
    BY <1>1, <1>4
  <2>2. (n + 1) \div LowRange = q /\ (n + 1) % LowRange = r + 1
    BY <2>1, <1>1, DivModOfSum
  <2> QED BY <2>2 DEF LowOf, HighOf, h
<1>5. ASSUME r = LowRange - 1
      PROVE  LowOf(n + 1) = 0 /\ HighOf(n + 1) = NextRound(h)
  <2>1. n + 1 = LowRange * (q + 1) + 0
    BY <1>1, <1>5
  <2>2. (n + 1) \div LowRange = q + 1 /\ (n + 1) % LowRange = 0
    <3>1. q + 1 \in Nat /\ 0 \in 0 .. LowRange - 1
      BY <1>1
    <3> QED BY <2>1, <3>1, DivModUnique, ZenonT(40)
  <2>3. (q + 1) % HighRange = NextRound(h)
    <3>1. CASE h = HighRange - 1
      <4>1. q + 1 = HighRange * (Q + 1) + 0 /\ Q + 1 \in Nat /\ 0 \in 0 .. HighRange - 1
        BY <1>3, <3>1
      <4>2. (q + 1) % HighRange = 0
        BY <4>1, DivModUnique
      <4> QED BY <3>1, <4>2 DEF NextRound
    <3>2. CASE h # HighRange - 1
      <4>1. q + 1 = HighRange * Q + (h + 1) /\ h + 1 \in 0 .. HighRange - 1
        BY <1>3, <3>2
      <4>2. (q + 1) % HighRange = h + 1
        BY <4>1, <1>3, DivModOfSum
      <4> QED BY <3>2, <4>2 DEF NextRound
    <3> QED BY <3>1, <3>2
  <2> QED BY <2>2, <2>3 DEF LowOf, HighOf
<1> QED BY <1>1, <1>2, <1>3, <1>4, <1>5

-----------------------------------------------------------------------------
(* The inductive invariant. *)

\* Handler and timer together have counted every tick: while the flag is up
\* the handler is exactly one round behind.
NoTickLost ==
  /\ tmr = LowOf(now)
  /\ (IF t1if THEN NextRound(high) ELSE high) = HighOf(now)

\* Between IEC0CLR and the return the handler cannot run.
ClosedInside == at \in {"low", "check"} => ~t1ie

\* Before the flag is looked at: with the flag down no round has ended since
\* the low half was read, so the high half is that of the same moment.
HalvesAgree ==
  /\ at = "check" => low = LowOf(lowAt)
  /\ at = "check" /\ ~t1if => high = HighOf(lowAt)

TickIndInv == TickTypeOK /\ NoTickLost /\ ClosedInside /\ HalvesAgree /\ ReadingExact

\* When TickInit has started the timer the count is exact.
LEMMA InitInd == TickInit => TickIndInv
<1> SUFFICES ASSUME TickInit PROVE TickIndInv
  OBVIOUS
<1> USE TickAssumption DEF TickAssumption, TickInit
<1>1. LowOf(0) = 0 /\ HighOf(0) = 0
  <2>1. 0 = LowRange * 0 + 0 /\ 0 = HighRange * 0 + 0
    OBVIOUS
  <2>2. 0 \div LowRange = 0 /\ 0 % LowRange = 0
    BY <2>1, DivModUnique
  <2>3. 0 % HighRange = 0
    BY <2>1, DivModUnique
  <2> QED BY <2>2, <2>3 DEF LowOf, HighOf
<1>2. TickTypeOK
  <2>1. reading \in Reading
    BY DEF Reading
  <2>2. t1if \in BOOLEAN /\ t1ie \in BOOLEAN
    BY Zenon
  <2>3. 0 \in 0 .. LowRange - 1 /\ 0 \in 0 .. HighRange - 1 /\ 0 \in 0 .. MaxNow
    OBVIOUS
  <2> QED BY <2>1, <2>2, <2>3, Zenon DEF TickTypeOK
<1>3. NoTickLost /\ ClosedInside /\ HalvesAgree /\ ReadingExact
  BY <1>1 DEF NoTickLost, ClosedInside, HalvesAgree, ReadingExact
<1> QED BY <1>2, <1>3 DEF TickIndInv

\* No tick, interrupt or step of GetTickCopy breaks the inductive invariant.
LEMMA StepInd == TickIndInv /\ [TickNext]_tickVars => TickIndInv'
<1> SUFFICES ASSUME TickIndInv, [TickNext]_tickVars PROVE TickIndInv'
  OBVIOUS
<1> USE TickAssumption DEF TickAssumption, TickIndInv
<1>1. CASE Count
  <2>1. now' \in Nat /\ now' = now + 1 /\ now \in Nat
    BY <1>1 DEF Count, TickTypeOK
  <2>2. TickTypeOK'
    <3>1. tmr' \in 0 .. LowRange - 1 /\ now' \in 0 .. MaxNow
      BY <1>1 DEF Count, TickTypeOK
    <3>2. t1if' \in BOOLEAN
      BY <1>1, Zenon DEF Count, TickTypeOK
    <3> QED BY <1>1, <3>1, <3>2, Zenon DEF Count, TickTypeOK, Reading
  <2>3. NoTickLost'
    <3>1. CASE tmr = LowRange - 1
      BY <3>1, <1>1, <2>1, OneMoreTick DEF Count, NoTickLost, TickTypeOK
    <3>2. CASE tmr # LowRange - 1
      BY <3>2, <1>1, <2>1, OneMoreTick DEF Count, NoTickLost, TickTypeOK
    <3> QED BY <3>1, <3>2
  <2>4. ClosedInside' /\ HalvesAgree' /\ ReadingExact'
    BY <1>1 DEF Count, ClosedInside, HalvesAgree, ReadingExact
  <2> QED BY <2>2, <2>3, <2>4
<1>2. CASE Interrupt
  <2>1. TickTypeOK'
    <3>1. high' \in 0 .. HighRange - 1
      BY <1>2 DEF Interrupt, TickTypeOK
    <3> QED BY <1>2, <3>1, Zenon DEF Interrupt, TickTypeOK, Reading
  <2>2. NoTickLost'
    BY <1>2 DEF Interrupt, NoTickLost, NextRound
  <2>3. ClosedInside' /\ HalvesAgree' /\ ReadingExact'
    BY <1>2 DEF Interrupt, ClosedInside, HalvesAgree, ReadingExact
  <2> QED BY <2>1, <2>2, <2>3
<1>3. CASE Call
  <2>1. TickTypeOK'
    BY <1>3 DEF Call, timer, TickTypeOK, Reading
  <2>2. NoTickLost' /\ ClosedInside' /\ HalvesAgree' /\ ReadingExact'
    BY <1>3 DEF Call, timer, NoTickLost, ClosedInside, HalvesAgree, ReadingExact
  <2> QED BY <2>1, <2>2
<1>4. CASE Open
  <2>1. TickTypeOK'
    BY <1>4 DEF Open, timer, TickTypeOK, Reading
  <2>2. NoTickLost' /\ ClosedInside' /\ HalvesAgree' /\ ReadingExact'
    BY <1>4 DEF Open, timer, NoTickLost, ClosedInside, HalvesAgree, ReadingExact
  <2> QED BY <2>1, <2>2
<1>5. CASE Close
  <2>1. TickTypeOK'
    BY <1>5 DEF Close, timer, TickTypeOK, Reading
  <2>2. NoTickLost' /\ ClosedInside' /\ HalvesAgree' /\ ReadingExact'
    BY <1>5 DEF Close, timer, NoTickLost, ClosedInside, HalvesAgree, ReadingExact
  <2> QED BY <2>1, <2>2
<1>6. CASE ReadLow
  <2>1. TickTypeOK'
    BY <1>6 DEF ReadLow, timer, TickTypeOK, Reading
  <2>2. NoTickLost' /\ ClosedInside' /\ ReadingExact'
    BY <1>6 DEF ReadLow, timer, NoTickLost, ClosedInside, ReadingExact
  <2>3. HalvesAgree'
    BY <1>6 DEF ReadLow, timer, NoTickLost, HalvesAgree
  <2> QED BY <2>1, <2>2, <2>3
<1>7. CASE Again
  <2>1. TickTypeOK'
    BY <1>7 DEF Again, timer, TickTypeOK, Reading
  <2>2. NoTickLost' /\ ClosedInside' /\ HalvesAgree' /\ ReadingExact'
    BY <1>7 DEF Again, timer, NoTickLost, ClosedInside, HalvesAgree, ReadingExact
  <2> QED BY <2>1, <2>2
<1>8. CASE Return
  <2>1. TickTypeOK'
    BY <1>8 DEF Return, timer, TickTypeOK, Reading
  <2>2. NoTickLost' /\ ClosedInside' /\ HalvesAgree'
    BY <1>8 DEF Return, timer, NoTickLost, ClosedInside, HalvesAgree
  <2>3. ReadingExact'
    BY <1>8 DEF Return, timer, HalvesAgree, ReadingExact
  <2> QED BY <2>1, <2>2, <2>3
<1>9. CASE UNCHANGED tickVars
  BY <1>9 DEF tickVars, timer, TickTypeOK, Reading, NoTickLost, ClosedInside, HalvesAgree, ReadingExact
<1> QED
  BY <1>1, <1>2, <1>3, <1>4, <1>5, <1>6, <1>7, <1>8, <1>9 DEF TickNext, GetTickCopy

\* The inductive invariant: timer and handler together hold the count, and
\* what GetTickCopy has read so far belongs to one moment of it.
THEOREM TickInductive == TickSpec => []TickIndInv
<1>1. TickInit => TickIndInv
  BY InitInd
<1>2. TickIndInv /\ [TickNext]_tickVars => TickIndInv'
  BY StepInd
<1> QED BY <1>1, <1>2, PTL DEF TickSpec

\* The halves of the count stay in their ranges, for every width.
THEOREM TickTyped == TickSpec => []TickTypeOK
<1>1. TickIndInv => TickTypeOK
  BY DEF TickIndInv
<1> QED BY <1>1, TickInductive, PTL

\* Whatever GetTickCopy returns was the count at one moment of the call.
THEOREM TickReadExact == TickSpec => []ReadingExact
<1>1. TickIndInv => ReadingExact
  BY DEF TickIndInv
<1> QED BY <1>1, TickInductive, PTL
=============================================================================
