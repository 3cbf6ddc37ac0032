------------------------------ MODULE Enc28j60 ------------------------------
(***************************************************************************)
(* The receive side of src/code/net/ENC28J60.c: the circular buffer in the *)
(* Ethernet controller's RAM that the controller fills while the driver    *)
(* reads, and the calls of it in one pass after the other of StackTask.    *)
(*                                                                         *)
(* An address stands for one byte.  A frame lies in the buffer with its    *)
(* preamble first: the pointer to the next frame, the status and the       *)
(* Ethernet header.  The first byte stands for the pointer and the status, *)
(* which the controller writes when the rest of the frame is there.  What  *)
(* the controller does is external, read off how the driver uses it: it    *)
(* never writes at ERXRDPT, drops a frame that does not fit or is damaged, *)
(* and counts a frame and moves ERXWRPT, to an even address, at once.      *)
(***************************************************************************)
EXTENDS Integers, Sequences

CONSTANTS
  RXSTOP,        \* the last address of the buffer; RXSTART is 0
  Preamble,      \* sizeof(ENC_PREAMBLE)
  Sizes,         \* bytes of a frame, with the preamble
  ByteValues,    \* values of a byte: 256
  MaxPackets,    \* the greatest EPKTCNT: 255
  MaxFrames      \* bound on the frames that arrive

ASSUME EncAssumption ==
  /\ RXSTOP \in Nat /\ RXSTOP % 2 = 1
  /\ Preamble \in Nat \ {0} /\ Sizes \subseteq Nat /\ \A n \in Sizes : n > Preamble
  /\ {ByteValues, MaxPackets} \subseteq Nat \ {0} /\ MaxFrames \in Nat

VARIABLES
  ring,                    \* the buffer
  ERXWRPT, ERXRDPT, EPKTCNT, ERDPT,
  arriving,                \* the frame that the controller writes, and how far
  frames,                  \* how many there were
  accepted,                \* the frames that were counted
  handed,                  \* and those that MACGetHeader has handed over
  NextPacketLocation, CurrentPacketLocation, WasDiscarded,
  pc,                      \* where StackTask or an application is
  back,                    \* where it goes on after a call of the driver
  header,                  \* the bytes of the preamble read so far
  place,                   \* the byte of the frame ERDPT is meant to be at
  saved,                   \* ERDPT and place, while a checksum is calculated
  udp,                     \* a datagram waits: Flags.bWasDiscarded of UDP.c is clear
  size                     \* the locals of MACGetFreeRxSize

chip == <<ring, ERXWRPT, EPKTCNT, arriving, frames, accepted>>
driver == <<NextPacketLocation, CurrentPacketLocation, WasDiscarded, ERXRDPT, handed>>
task == <<pc, back, header, place, saved, udp, size, ERDPT>>
vars == <<chip, driver, task>>

RXSIZE == RXSTOP + 1
None == -1
Addresses == 0 .. RXSTOP
NoFrame == [frame |-> 0, size |-> 0, at |-> 0]
Idle == [count |-> 0, low |-> 0, high |-> 0, most |-> 0, value |-> 0]

\* A byte of a frame; the first one holds the pointer to the next frame and
\* the length.
FirstByte(frame, next, n) == [frame |-> frame, at |-> 0, next |-> next, size |-> n]
Byte(frame, at) == [FirstByte(frame, 0, 0) EXCEPT !.at = at]
Junk == Byte(0, 0)

\* The frame that was handed over last.
Current == handed[Len(handed)]
HasFrame == ~WasDiscarded

\* The bytes that the controller can write before it meets the limit.
Room == (ERXRDPT - ERXWRPT) % RXSIZE

Lesser(a, b) == IF a < b THEN a ELSE b

-----------------------------------------------------------------------------
(* The controller. *)

\* A frame takes an even number of bytes.
Padded(n) == n + (n % 2)

Arrive(n) ==
  /\ arriving = NoFrame /\ frames < MaxFrames
  /\ frames' = frames + 1
  /\ arriving' = [frame |-> frames + 1, size |-> n, at |-> 0]
  /\ UNCHANGED <<ring, ERXWRPT, EPKTCNT, accepted, driver, task>>

WriteAddress == (ERXWRPT + arriving.at) % RXSIZE

\* The next byte; at ERXRDPT the rest of the frame does not fit.
WriteByte ==
  /\ arriving # NoFrame /\ arriving.at < Padded(arriving.size)
  /\ IF WriteAddress = ERXRDPT THEN arriving' = NoFrame /\ UNCHANGED ring
     ELSE /\ ring' = [ring EXCEPT ![WriteAddress] = Byte(arriving.frame, arriving.at)]
          /\ arriving' = [arriving EXCEPT !.at = @ + 1]
  /\ UNCHANGED <<ERXWRPT, EPKTCNT, frames, accepted, driver, task>>

Accept ==
  /\ arriving # NoFrame /\ arriving.at = Padded(arriving.size) /\ EPKTCNT < MaxPackets
  /\ LET next == (ERXWRPT + Padded(arriving.size)) % RXSIZE
     IN /\ ring' = [ring EXCEPT ![ERXWRPT] = FirstByte(arriving.frame, next, arriving.size)]
        /\ ERXWRPT' = next
  /\ EPKTCNT' = EPKTCNT + 1
  /\ accepted' = Append(accepted, [frame |-> arriving.frame, size |-> arriving.size])
  /\ arriving' = NoFrame
  /\ UNCHANGED <<frames, driver, task>>

\* A wrong checksum, or too many frames.
Drop ==
  /\ arriving # NoFrame /\ arriving' = NoFrame
  /\ UNCHANGED <<ring, ERXWRPT, EPKTCNT, frames, accepted, driver, task>>

Controller == (\E n \in Sizes : Arrive(n)) \/ WriteByte \/ Accept \/ Drop

-----------------------------------------------------------------------------
(* MACDiscardRx: one write counts the frame off, a later one frees it. *)

\* Mutant: the pointer is not wrapped, and frees nothing at the end.
ReadLimitUnwrapped(next) == IF next = 0 THEN 0 ELSE next - 1

\* ERXRDPT must be odd, so it stays one byte behind.
ReadLimit(next) == IF next = 0 THEN RXSTOP ELSE next - 1

\* Mutant: a frame is counted off with every call.
MACDiscardRxAgain(then) == pc' = "pktdec" /\ back' = then

\* A call; nothing is discarded twice.
MACDiscardRx(then) ==
  IF WasDiscarded THEN pc' = then /\ UNCHANGED back
  ELSE pc' = "pktdec" /\ back' = then

CountOff ==
  /\ pc = "pktdec"
  /\ WasDiscarded' = TRUE /\ EPKTCNT' = EPKTCNT - 1
  /\ pc' = "erxrdpt" /\ place' = None
  /\ UNCHANGED <<ring, ERXWRPT, arriving, frames, accepted, NextPacketLocation,
                 CurrentPacketLocation, ERXRDPT, handed, back, header, saved, udp, size,
                 ERDPT>>

Free ==
  /\ pc = "erxrdpt"
  /\ ERXRDPT' = ReadLimit(NextPacketLocation)
  /\ pc' = back
  /\ UNCHANGED <<chip, NextPacketLocation, CurrentPacketLocation, WasDiscarded, handed,
                 back, header, place, saved, udp, size, ERDPT>>

-----------------------------------------------------------------------------
(* MACGetHeader *)

\* A pass of the loop of StackTask begins with UDPDiscard.
UDPDiscard ==
  /\ pc = "stack"
  /\ udp' = FALSE
  /\ IF udp THEN MACDiscardRx("getHeader") ELSE pc' = "getHeader" /\ UNCHANGED back
  /\ UNCHANGED <<chip, driver, header, place, saved, size, ERDPT>>

\* Mutant: a frame that nobody has discarded stays.
KeepsUndiscarded == pc' = "apps" /\ UNCHANGED back

\* A frame that its handler has not discarded is discarded instead.
LastWasLeft == MACDiscardRx("apps")

\* The count was read; without a frame, StackTask ends.
MACGetHeader ==
  /\ pc = "getHeader"
  /\ IF EPKTCNT = 0 THEN pc' = "apps" /\ UNCHANGED <<back, header, ERDPT, CurrentPacketLocation>>
     ELSE IF ~WasDiscarded THEN LastWasLeft /\ UNCHANGED <<header, ERDPT, CurrentPacketLocation>>
     ELSE /\ CurrentPacketLocation' = NextPacketLocation /\ ERDPT' = NextPacketLocation
          /\ header' = <<>> /\ pc' = "header" /\ UNCHANGED back
  /\ UNCHANGED <<chip, NextPacketLocation, WasDiscarded, ERXRDPT, handed, place, saved,
                 udp, size>>

\* ERDPT moves on by itself.
After(address) == (address + 1) % RXSIZE

\* Bytes that are no header fail the validation.
IsHeader(bytes) ==
  /\ bytes[1].frame # 0
  /\ \A i \in 1 .. Len(bytes) : bytes[i].frame = bytes[1].frame /\ bytes[i].at = i - 1

\* The preamble, byte by byte; a bad one resets the processor.
ReadHeader ==
  /\ pc = "header"
  /\ LET bytes == Append(header, ring[ERDPT])
     IN IF Len(bytes) < Preamble
        THEN header' = bytes /\ UNCHANGED <<pc, place, NextPacketLocation, WasDiscarded, handed>>
        ELSE IF ~IsHeader(bytes)
        THEN pc' = "reset" /\ UNCHANGED <<header, place, NextPacketLocation, WasDiscarded, handed>>
        ELSE /\ NextPacketLocation' = bytes[1].next
             /\ WasDiscarded' = FALSE
             /\ handed' = Append(handed, [frame |-> bytes[1].frame, size |-> bytes[1].size])
             /\ pc' = "handler" /\ place' = Preamble /\ header' = <<>>
  /\ ERDPT' = After(ERDPT)
  /\ UNCHANGED <<chip, CurrentPacketLocation, ERXRDPT, back, saved, udp, size>>

-----------------------------------------------------------------------------
(* What the handlers of a frame and the applications do with it. *)

\* A handler, or an application that a datagram waits for.
Reading == HasFrame /\ (pc = "handler" \/ (pc = "apps" /\ udp))

\* Mutant: the address is not wrapped.
InRxUnwrapped(offset) == Lesser(CurrentPacketLocation + offset, RXSTOP)

\* The address of a byte of the frame.
InRx(offset) ==
  LET address == CurrentPacketLocation + offset
  IN IF address > RXSTOP THEN address - RXSIZE ELSE address

\* MACSetReadPtrInRx
SetReadPtrInRx(at) == ERDPT' = InRx(at) /\ place' = at

Seek ==
  /\ Reading
  /\ \E at \in Preamble .. Current.size - 1 : SetReadPtrInRx(at)
  /\ UNCHANGED <<chip, driver, pc, back, header, saved, udp, size>>

\* MACGet
Get ==
  /\ Reading /\ place # None /\ place < Current.size
  /\ ERDPT' = After(ERDPT) /\ place' = place + 1
  /\ UNCHANGED <<chip, driver, pc, back, header, saved, udp, size>>

\* MACCalcRxChecksum moves ERDPT and puts it back.
ChecksumBegins ==
  /\ Reading /\ saved = <<>> /\ place # None
  /\ saved' = <<ERDPT, place>>
  /\ \E at \in Preamble .. Current.size - 1 : SetReadPtrInRx(at)
  /\ UNCHANGED <<chip, driver, pc, back, header, udp, size>>

ChecksumEnds ==
  /\ saved # <<>>
  /\ ERDPT' = saved[1] /\ place' = saved[2] /\ saved' = <<>>
  /\ UNCHANGED <<chip, driver, pc, back, header, udp, size>>

\* Also more often than once.
Discard ==
  /\ pc = "handler" \/ (pc = "apps" /\ udp)
  /\ saved = <<>>
  /\ MACDiscardRx(pc) /\ udp' = FALSE
  /\ UNCHANGED <<chip, driver, header, place, saved, size, ERDPT>>

\* The handler returns: a datagram for a socket ends StackTask.
HandlerEnds ==
  /\ pc = "handler" /\ saved = <<>>
  /\ \/ pc' = "stack" /\ UNCHANGED udp
     \/ HasFrame /\ pc' = "apps" /\ udp' = TRUE
  /\ place' = None
  /\ UNCHANGED <<chip, driver, back, header, saved, size, ERDPT>>

ApplicationsEnd ==
  /\ pc = "apps" /\ saved = <<>>
  /\ pc' = "stack" /\ place' = None
  /\ UNCHANGED <<chip, driver, back, header, saved, udp, size, ERDPT>>

-----------------------------------------------------------------------------
(* MACGetFreeRxSize, called by SendTCP, which then moves ERDPT away. *)

SendTCP ==
  /\ pc \in {"handler", "apps"} /\ saved = <<>>
  /\ pc' = "count" /\ back' = pc
  /\ size' = [Idle EXCEPT !.most = Room]
  /\ UNCHANGED <<chip, driver, header, place, saved, udp, ERDPT>>

FreeRxStep(from, to, locals) ==
  /\ pc = from /\ pc' = to /\ size' = locals
  /\ UNCHANGED <<chip, driver, back, header, place, saved, udp, ERDPT>>

ReadCount == FreeRxStep("count", "low", [size EXCEPT !.count = EPKTCNT])
ReadLow == FreeRxStep("low", "high", [size EXCEPT !.low = ERXWRPT % ByteValues])
ReadHigh == FreeRxStep("high", "again", [size EXCEPT !.high = ERXWRPT \div ByteValues])

FreeRxSize(write, read) ==
  CASE write > read -> RXSTOP - (write - read)
    [] write = read -> RXSIZE - 1
    [] write < read -> read - write - 1

\* Mutant: the bytes are not read again.
SameCountAlways == TRUE

SameCount == EPKTCNT = size.count

\* A frame has come: the bytes may not belong together.
ReadAgain == ~SameCount /\ FreeRxStep("again", "count", size)

Calculate ==
  /\ SameCount
  /\ FreeRxStep("again", "window",
       [size EXCEPT !.value = FreeRxSize(size.low + ByteValues * size.high, ERXRDPT)])

MovesAway ==
  /\ pc = "window"
  /\ pc' = back /\ size' = Idle /\ place' = None /\ ERDPT' = None
  /\ UNCHANGED <<chip, driver, back, header, saved, udp>>

-----------------------------------------------------------------------------
(* MACInit *)

Init ==
  /\ ring = [a \in Addresses |-> Junk]
  /\ ERXWRPT = 0 /\ ERXRDPT = RXSTOP /\ EPKTCNT = 0 /\ ERDPT = 0
  /\ arriving = NoFrame /\ frames = 0 /\ accepted = <<>> /\ handed = <<>>
  /\ NextPacketLocation = 0 /\ CurrentPacketLocation = 0 /\ WasDiscarded = TRUE
  /\ pc = "stack" /\ back = "stack" /\ header = <<>> /\ place = None /\ saved = <<>>
  /\ udp = FALSE /\ size = Idle

Program ==
  \/ UDPDiscard \/ MACGetHeader \/ ReadHeader \/ CountOff \/ Free
  \/ Seek \/ Get \/ ChecksumBegins \/ ChecksumEnds \/ Discard
  \/ HandlerEnds \/ ApplicationsEnd
  \/ SendTCP \/ ReadCount \/ ReadLow \/ ReadHigh \/ ReadAgain \/ Calculate \/ MovesAway

Next == Controller \/ Program

SafeSpec == Init /\ [][Next]_vars

\* The processor goes on, and handlers and applications are finite programs.
Spec ==
  /\ SafeSpec /\ WF_vars(Program)
  /\ SF_vars(ChecksumEnds) /\ SF_vars(HandlerEnds) /\ SF_vars(ApplicationsEnd)

-----------------------------------------------------------------------------
\* The frames come out of the buffer in the order they were counted in, each
\* once and whole, and what MACGetHeader reads is always the preamble of the
\* next one: the validation of it never has a reason to reset the processor.
FramesInOrder ==
  /\ pc # "reset"
  /\ Len(handed) <= Len(accepted)
  /\ \A i \in 1 .. Len(handed) : handed[i] = accepted[i]

\* What a handler or an application reads next is the byte of its own frame
\* that it means, while the controller goes on writing, and after a checksum
\* has moved the read pointer: up to the call that discards the frame.
ReadsOwnFrame ==
  Reading /\ place # None /\ place < Current.size =>
    ring[ERDPT].frame = Current.frame /\ ring[ERDPT].at = place

\* No byte stays protected after its frame: outside of MACDiscardRx the limit
\* is right before the oldest frame that is not discarded, and the count is
\* of these.
BufferFreed ==
  pc \notin {"erxrdpt", "reset"} =>
    /\ After(ERXRDPT) = IF WasDiscarded THEN NextPacketLocation ELSE CurrentPacketLocation
    /\ EPKTCNT = Len(accepted) - Len(handed) + (IF WasDiscarded THEN 0 ELSE 1)

\* The free space that SendTCP makes its window of was the free space at some
\* moment of the call, whatever came between the reads of its two bytes.
FreeSizeIsReal ==
  pc = "window" => Room - 1 <= size.value /\ size.value < size.most

\* Every frame that was counted comes to its handler, also when an earlier
\* one was left in the buffer by its own.
AllHanded ==
  \A n \in 1 .. MaxFrames :
    Len(accepted) >= n ~> Len(handed) >= n
=============================================================================
