---------------------------- MODULE MinitelUart ----------------------------
(***************************************************************************)
(* The Minitel serial port: src/code/uart/uart.c.                          *)
(*                                                                         *)
(* Two actors share a ring of RingSize characters.  The producer is the    *)
(* UART1 interrupt handler, which drains the receiver's hardware FIFO; it  *)
(* runs on top of the main loop, so the main loop takes no step while the  *)
(* handler is active (isr).  The consumer is the main loop, which calls    *)
(* MINITEL_RX_EVENT once per pass; the call is cut at each access to a     *)
(* variable the handler also touches, because the handler may run there.   *)
(*                                                                         *)
(* A character is a record: val is the part of its code the program tells  *)
(* apart and id its place in the stream of arrivals (0: the character did  *)
(* not arrive on the line).  id is history: no guard reads it.             *)
(***************************************************************************)
EXTENDS Integers, Sequences

CONSTANTS
  RingSize,    \* UART_RX_BUF_SIZE; 256 in the code
  FifoDepth,   \* characters the UART's own receive FIFO holds
  MaxRx        \* bound on the characters that arrive in a behaviour

ASSUME UartAssumption ==
  /\ RingSize \in Nat /\ RingSize >= 2
  /\ FifoDepth \in Nat /\ FifoDepth >= 1
  /\ MaxRx \in Nat

VARIABLES
  rxHead,      \* UART_RxHead: written by the handler only
  rxTail,      \* UART_RxTail: written by uart_getc only
  rxBuf,       \* UART_RxBuf
  fifo,        \* the hardware FIFO behind U1RXREG
  oerr,        \* U1STA.OERR: set by the hardware, cleared by nobody
  arrived,     \* number of characters the line has carried
  isr,         \* the CPU is inside IntUart1Handler
  pc,          \* where the main loop stands in MINITEL_RX_EVENT
  data,        \* the local of that name in MINITEL_RX_EVENT
  echo,        \* the last character given to putcUART2
  lastOut,     \* history: id of the last character uart_getc loaded
  flushed,     \* history: the handler has thrown the ring's content away
  raced        \* history: uart_getc has advanced over an empty ring

ring == <<rxHead, rxTail, rxBuf>>
line == <<fifo, oerr, arrived>>
main == <<pc, data, echo>>
history == <<lastOut, flushed, raced>>
vars == <<ring, line, isr, main, history>>

Index == 0 .. RingSize - 1

\* Character codes: NUL, 0xFF (what -1 becomes in a char) and the others.
Value == {"nul", "ff", "chr"}
Char == [id : 0 .. MaxRx, val : Value]

\* Static storage starts as zeros.
Blank == [id |-> 0, val |-> "nul"]

\* uart_getc's -1, as the char it is assigned to.
NoData == [id |-> 0, val |-> "ff"]

\* (i + 1) & UART_RX_BUF_MASK
Succ(i) == IF i = RingSize - 1 THEN 0 ELSE i + 1

-----------------------------------------------------------------------------
(* The line and the UART hardware. *)

\* A character reaches the receiver.  With the FIFO full the UART sets OERR
\* and drops it; while OERR is set the receiver takes nothing more.
Arrive(v) ==
  /\ arrived < MaxRx
  /\ arrived' = arrived + 1
  /\ \/ /\ ~oerr
        /\ Len(fifo) < FifoDepth
        /\ fifo' = Append(fifo, [id |-> arrived + 1, val |-> v])
        /\ UNCHANGED oerr
     \/ /\ oerr \/ Len(fifo) = FifoDepth
        /\ oerr' = TRUE
        /\ UNCHANGED fifo
  /\ UNCHANGED <<ring, isr, main, history>>

-----------------------------------------------------------------------------
(* IntUart1Handler. *)

\* The receive interrupt stays asserted while the FIFO holds a character.
IsrEnter ==
  /\ ~isr
  /\ fifo # <<>>
  /\ isr' = TRUE
  /\ UNCHANGED <<ring, line, main, history>>

\* Mutant: stored at the old head, as with a post-increment.
IsrStoreAtOldHead ==
  /\ isr
  /\ fifo # <<>>
  /\ Succ(rxHead) # rxTail
  /\ rxHead' = Succ(rxHead)
  /\ rxBuf' = [rxBuf EXCEPT ![rxHead] = Head(fifo)]
  /\ fifo' = Tail(fifo)
  /\ UNCHANGED <<rxTail, oerr, arrived, isr, main, history>>

\* Mutant: stored without the comparison with the tail.
IsrStoreUnchecked ==
  /\ isr
  /\ fifo # <<>>
  /\ rxHead' = Succ(rxHead)
  /\ rxBuf' = [rxBuf EXCEPT ![Succ(rxHead)] = Head(fifo)]
  /\ fifo' = Tail(fifo)
  /\ UNCHANGED <<rxTail, oerr, arrived, isr, main, history>>

\* One turn of the loop on URXDA with room in the ring.  "case 0" has no
\* break, so NUL is stored as any other character is.
IsrStore ==
  /\ isr
  /\ fifo # <<>>
  /\ Succ(rxHead) # rxTail
  /\ rxHead' = Succ(rxHead)
  /\ rxBuf' = [rxBuf EXCEPT ![Succ(rxHead)] = Head(fifo)]
  /\ fifo' = Tail(fifo)
  /\ UNCHANGED <<rxTail, oerr, arrived, isr, main, history>>

\* One turn of that loop with the ring full: the character is dropped and
\* everything unread goes with it.
IsrOverflow ==
  /\ isr
  /\ fifo # <<>>
  /\ Succ(rxHead) = rxTail
  /\ rxHead' = rxTail
  /\ fifo' = Tail(fifo)
  /\ flushed' = TRUE
  /\ UNCHANGED <<rxTail, rxBuf, oerr, arrived, isr, main, lastOut, raced>>

IsrExit ==
  /\ isr
  /\ fifo = <<>>
  /\ isr' = FALSE
  /\ UNCHANGED <<ring, line, main, history>>

Isr == IsrEnter \/ IsrStore \/ IsrOverflow \/ IsrExit

-----------------------------------------------------------------------------
(* The main loop: MINITEL_RX_EVENT and the uart_getc it calls. *)

\* uart_getc compares the indices: equal, and it returns -1.
GetcEmpty ==
  /\ ~isr
  /\ pc = "check"
  /\ rxHead = rxTail
  /\ data' = NoData
  /\ pc' = "send"
  /\ UNCHANGED <<ring, line, isr, echo, history>>

\* Different: it goes on, whatever the handler does to UART_RxHead meanwhile.
GetcNonEmpty ==
  /\ ~isr
  /\ pc = "check"
  /\ rxHead # rxTail
  /\ pc' = "advance"
  /\ UNCHANGED <<ring, line, isr, data, echo, history>>

\* Mutant: the tail moves by two.
GetcAdvanceTwice ==
  /\ ~isr
  /\ pc = "advance"
  /\ rxTail' = Succ(Succ(rxTail))
  /\ raced' = (raced \/ rxHead = rxTail)
  /\ pc' = "load"
  /\ UNCHANGED <<rxHead, rxBuf, line, isr, data, echo, lastOut, flushed>>

GetcAdvance ==
  /\ ~isr
  /\ pc = "advance"
  /\ rxTail' = Succ(rxTail)
  /\ raced' = (raced \/ rxHead = rxTail)
  /\ pc' = "load"
  /\ UNCHANGED <<rxHead, rxBuf, line, isr, data, echo, lastOut, flushed>>

GetcLoad ==
  /\ ~isr
  /\ pc = "load"
  /\ data' = rxBuf[rxTail]
  /\ lastOut' = rxBuf[rxTail].id
  /\ pc' = "send"
  /\ UNCHANGED <<ring, line, isr, echo, flushed, raced>>

\* if (data = uart_getc()) putcUART2(data): anything but NUL is sent.
EventSend ==
  /\ ~isr
  /\ pc = "send"
  /\ echo' = IF data.val # "nul" THEN data ELSE echo
  /\ pc' = "check"
  /\ UNCHANGED <<ring, line, isr, data, history>>

Event == GetcEmpty \/ GetcNonEmpty \/ GetcAdvance \/ GetcLoad \/ EventSend

-----------------------------------------------------------------------------
Init ==
  /\ rxHead = 0 /\ rxTail = 0
  /\ rxBuf = [i \in Index |-> Blank]
  /\ fifo = <<>> /\ oerr = FALSE /\ arrived = 0
  /\ isr = FALSE
  /\ pc = "check" /\ data = Blank /\ echo = Blank
  /\ lastOut = 0 /\ flushed = FALSE /\ raced = FALSE

Next ==
  \/ \E v \in Value : Arrive(v)
  \/ Isr
  \/ Event

\* The interrupt is taken when it is pending, and the main loop never ends.
Spec == Init /\ [][Next]_vars /\ WF_vars(Isr) /\ WF_vars(Event)

-----------------------------------------------------------------------------
(* Properties. *)

\* Every variable keeps its type; the indices stay inside the array.
TypeOK ==
  /\ rxHead \in Index /\ rxTail \in Index
  /\ rxBuf \in [Index -> Char]
  /\ fifo \in Seq(Char) /\ Len(fifo) <= FifoDepth
  /\ oerr \in BOOLEAN /\ arrived \in 0 .. MaxRx
  /\ isr \in BOOLEAN
  /\ pc \in {"check", "advance", "load", "send"}
  /\ data \in Char /\ echo \in Char
  /\ lastOut \in 0 .. MaxRx /\ flushed \in BOOLEAN /\ raced \in BOOLEAN

\* The unread slots: the Used slots after the tail.
Used == IF rxHead >= rxTail THEN rxHead - rxTail ELSE rxHead - rxTail + RingSize
SlotAt(k) == IF rxTail + k >= RingSize THEN rxTail + k - RingSize ELSE rxTail + k

\* Characters that have left the ring: between the advance of the tail and
\* the load, the one in the tail's slot has left and is not yet delivered.
Taken == IF pc = "load" THEN lastOut + 1 ELSE lastOut

\* Until the ring overflows for the first time (and the hardware FIFO has
\* not), nothing is lost, duplicated or reordered between the line and
\* uart_getc: what was delivered, the unread slots and the FIFO are, in this
\* order, the characters that arrived.
LosslessUntilFlush ==
  ~flushed /\ ~oerr =>
    /\ pc = "load" => rxBuf[rxTail].id = Taken
    /\ \A k \in 1 .. Used : rxBuf[SlotAt(k)].id = Taken + k
    /\ \A j \in 1 .. Len(fifo) : fifo[j].id = Taken + Used + j
    /\ arrived = Taken + Used + Len(fifo)

\* Overflow loses characters but neither repeats nor reorders any, as long
\* as it does not fall between uart_getc's comparison of the indices and its
\* advance of the tail: what is about to be delivered is newer than anything
\* delivered before.
DeliveryIsNew ==
  pc = "load" /\ ~raced => rxBuf[rxTail].id > lastOut

\* The handler never writes the slot uart_getc has claimed by advancing the
\* tail and has not read yet, not even after an overflow in the middle.
ClaimedSlotStable ==
  [][pc = "load" => rxBuf'[rxTail] = rxBuf[rxTail]]_vars

\* Once the line is quiet every stored character is taken out: the ring and
\* the FIFO end up empty and stay so, also after an overflow or a race left
\* the indices in disagreement with the content.
RingDrains == <>[](fifo = <<>> /\ rxHead = rxTail)
=============================================================================
