---------------------------- MODULE Enc28j60Proofs ----------------------------
(***************************************************************************)
(* Proofs about Enc28j60: for every size of the buffer, every size and     *)
(* number of frames and every program that uses the driver, frames come    *)
(* out in order and whole, reads stay within their frame, bytes are freed  *)
(* and the free size is real, while the controller writes at any time.     *)
(***************************************************************************)
EXTENDS Enc28j60, TLAPS

-----------------------------------------------------------------------------
(* Remainders.                                                             *)

\* A number is its remainder and whole rounds.
LEMMA Remainder ==
  ASSUME NEW m \in Nat \ {0}, NEW a \in Int
  PROVE  a % m \in 0 .. m - 1 /\ \E q \in Int : a = q * m + (a % m)
<1>1. a = m * (a \div m) + (a % m) /\ a % m \in 0 .. m - 1 /\ a \div m \in Int
  OBVIOUS
<1>2. m * (a \div m) = (a \div m) * m
  BY <1>1
<1> QED BY <1>1, <1>2

\* And the remainder is unique.
LEMMA RemainderIs ==
  ASSUME NEW m \in Nat \ {0}, NEW q \in Int, NEW r \in 0 .. m - 1
  PROVE  (q * m + r) % m = r
OBVIOUS

\* For the provers, who do not multiply out by themselves.
LEMMA Distribute ==
  ASSUME NEW p \in Int, NEW q \in Int, NEW m \in Int
  PROVE  p * m \in Int /\ (p + q) * m = p * m + q * m /\ (q - p) * m = q * m - p * m
OBVIOUS

\* To wrap on the way changes nothing.
LEMMA Wrapped ==
  ASSUME NEW m \in Nat \ {0}, NEW a \in Int, NEW b \in Int
  PROVE  ((a % m) + b) % m = (a + b) % m
<1>1. PICK p \in Int : a = p * m + (a % m)
  BY Remainder
<1> DEFINE r == a % m
<1>2. r \in 0 .. m - 1
  BY Remainder
<1>0. a = p * m + r
  BY <1>1
<1> HIDE DEF r
<1>8. r + b \in Int
  BY <1>2
<1>3. PICK q \in Int : r + b = q * m + ((r + b) % m)
  BY <1>8, Remainder
<1> DEFINE t == (r + b) % m
<1>4. t \in 0 .. m - 1
  BY <1>8, Remainder
<1>5. r + b = q * m + t
  BY <1>3
<1> HIDE DEF t
<1>6. a + b = (p + q) * m + t
  <2> DEFINE x == p * m
             y == q * m
  <2>1. x \in Int /\ y \in Int /\ (p + q) * m = x + y
    BY Distribute
  <2>2. a = x + r /\ r + b = y + t
    BY <1>0, <1>5
  <2> HIDE DEF x, y
  <2> QED BY <2>1, <2>2, <1>2, <1>4
<1>7. (a + b) % m = t
  <2>1. p + q \in Int
    OBVIOUS
  <2>2. ((p + q) * m + t) % m = t
    BY <2>1, <1>4, RemainderIs
  <2> QED BY <2>2, <1>6
<1> QED BY <1>7 DEF t, r

\* Within one round every place has an address of its own.
LEMMA SameSlot ==
  ASSUME NEW m \in Nat \ {0}, NEW a \in Int, NEW b \in Int,
         a % m = b % m, a <= b, b - a < m
  PROVE  a = b
<1>1. PICK p \in Int : a = p * m + (a % m)
  BY Remainder
<1>2. PICK q \in Int : b = q * m + (b % m)
  BY Remainder
<1> DEFINE r == a % m
<1>3. r \in Int /\ a = p * m + r /\ b = q * m + r
  BY <1>1, <1>2, Remainder
<1> HIDE DEF r
<1>4. b - a = (q - p) * m
  <2> DEFINE x == p * m
             y == q * m
  <2>1. x \in Int /\ y \in Int /\ (q - p) * m = y - x
    BY Distribute
  <2>2. a = x + r /\ b = y + r
    BY <1>3
  <2> HIDE DEF x, y
  <2> QED BY <2>1, <2>2, <1>3
<1>5. ASSUME q - p >= 1 PROVE FALSE
  <2>1. (q - p) * m >= m
    BY <1>5
  <2> QED BY <2>1, <1>4
<1>6. ASSUME q - p <= -1 PROVE FALSE
  <2>1. (q - p) * m <= -m
    <3>1. (p - q) * m >= m
      BY <1>6
    <3>2. (q - p) * m = -((p - q) * m)
      OBVIOUS
    <3> QED BY <3>1, <3>2
  <2> QED BY <2>1, <1>4
<1>7. q = p
  BY <1>5, <1>6
<1> QED BY <1>3, <1>7

\* What one comparison and one subtraction do, as in the code.
LEMMA InRange ==
  ASSUME NEW m \in Nat \ {0}, NEW a \in Int
  PROVE  /\ a \in 0 .. m - 1 => a % m = a
         /\ a \in m .. 2 * m - 1 => a % m = a - m
         /\ a \in -m .. -1 => a % m = a + m
<1>1. ASSUME a \in 0 .. m - 1 PROVE a % m = a
  <2>1. a = 0 * m + a
    OBVIOUS
  <2> QED BY <1>1, <2>1, RemainderIs
<1>2. ASSUME a \in m .. 2 * m - 1 PROVE a % m = a - m
  <2>1. a = 1 * m + (a - m) /\ a - m \in 0 .. m - 1
    BY <1>2
  <2>2. (1 * m + (a - m)) % m = a - m
    BY <2>1, RemainderIs
  <2> QED BY <2>1, <2>2
<1>3. ASSUME a \in -m .. -1 PROVE a % m = a + m
  <2>1. a = (-1) * m + (a + m) /\ a + m \in 0 .. m - 1
    BY <1>3
  <2>2. ((-1) * m + (a + m)) % m = a + m
    BY <2>1, RemainderIs
  <2> QED BY <2>1, <2>2
<1> QED BY <1>1, <1>2, <1>3

-----------------------------------------------------------------------------
(* The inductive invariant.  It speaks of places on an endless line, not   *)
(* of addresses: "at" says where on it each frame begins, the ring is the  *)
(* line taken modulo RXSIZE, and all that the controller may not overwrite *)
(* lies within one round before the limit.                                 *)

Cell == [frame : Nat, at : Nat, next : Nat, size : Nat]
Frame == [frame : Nat \ {0}, size : Sizes]
SizeCall == {"count", "low", "high", "again", "window"}
Clients == {"handler", "apps"}

Typed ==
  /\ ring \in [Addresses -> Cell] /\ EPKTCNT \in Nat /\ frames \in Nat
  /\ accepted \in Seq(Frame) /\ handed \in Seq(Frame)
  /\ arriving = NoFrame \/ arriving \in [frame : Nat \ {0}, size : Sizes, at : Nat]
  /\ WasDiscarded \in BOOLEAN /\ udp \in BOOLEAN
  /\ pc \in {"stack", "getHeader", "header", "pktdec", "erxrdpt"} \cup Clients \cup SizeCall
  /\ pc \in {"pktdec", "erxrdpt"} => back \in {"getHeader"} \cup Clients
  /\ pc \in SizeCall => back \in Clients
  /\ header \in Seq(Cell)
  /\ size \in [count : Nat, low : Int, high : Int, most : Int, value : Int]

\* The frames whose bytes the limit has passed.
Freed == IF WasDiscarded /\ pc # "erxrdpt" THEN Len(handed) ELSE Len(handed) - 1

\* The frames counted so far begin where their predecessors end.
Layout(at) ==
  /\ at \in [Nat -> Nat]
  /\ \A i \in 1 .. Len(accepted) + 1 : at[i] % 2 = 0
  /\ \A i \in 1 .. Len(accepted) : at[i + 1] = at[i] + Padded(accepted[i].size)
  /\ \A i, j \in 1 .. Len(accepted) + 1 : i <= j => at[i] <= at[j]

\* The program knows of the frames in order, and one is left to be discarded.
InOrder ==
  /\ Len(handed) <= Len(accepted)
  /\ \A i \in 1 .. Len(handed) : handed[i] = accepted[i]
  /\ ~WasDiscarded \/ pc = "erxrdpt" => Len(handed) > 0
  /\ EPKTCNT = Len(accepted) - Len(handed) + (IF WasDiscarded THEN 0 ELSE 1)
  /\ pc = "header" => WasDiscarded /\ Len(handed) < Len(accepted)
  /\ pc = "pktdec" => ~WasDiscarded
  /\ pc = "erxrdpt" => WasDiscarded

\* The registers and the variables of the driver are places modulo RXSIZE.
Pointers(at) ==
  /\ ERXWRPT = at[Len(accepted) + 1] % RXSIZE
  /\ ERXRDPT = (at[Freed + 1] - 1) % RXSIZE
  /\ NextPacketLocation = at[Len(handed) + 1] % RXSIZE
  /\ ~WasDiscarded => CurrentPacketLocation = at[Len(handed)] % RXSIZE
  /\ pc = "header" => CurrentPacketLocation = at[Len(handed) + 1] % RXSIZE

\* Nothing is written a whole round behind what is not freed.
OneRound(at) ==
  /\ at[Len(accepted) + 1] + arriving.at < at[Freed + 1] + RXSIZE
  /\ arriving.at <= Padded(arriving.size)

\* What a byte of a counted frame is.
Content(at, i, n) ==
  IF n = 0 THEN FirstByte(accepted[i].frame, at[i + 1] % RXSIZE, accepted[i].size)
  ELSE Byte(accepted[i].frame, n)

Stored(at) ==
  /\ \A i \in Freed + 1 .. Len(accepted) : \A n \in 0 .. Padded(accepted[i].size) - 1 :
       ring[(at[i] + n) % RXSIZE] = Content(at, i, n)
  /\ \A n \in 0 .. arriving.at - 1 :
       ring[(at[Len(accepted) + 1] + n) % RXSIZE] = Byte(arriving.frame, n)

\* Where a byte of the frame that was handed over last lies.
Lies(at, n, address) ==
  /\ n \in 0 .. Current.size
  /\ address = (at[Len(handed)] + n) % RXSIZE

Reader(at) ==
  /\ pc = "header" =>
       /\ Len(header) < Preamble
       /\ ERDPT = (at[Len(handed) + 1] + Len(header)) % RXSIZE
       /\ \A n \in 1 .. Len(header) : header[n] = Content(at, Len(handed) + 1, n - 1)
  /\ ~WasDiscarded /\ place # None => Lies(at, place, ERDPT)
  /\ saved # <<>> =>
       /\ saved = <<saved[1], saved[2]>>
       /\ pc \in Clients /\ ~WasDiscarded /\ Lies(at, saved[2], saved[1])

\* The two bytes of the pointer were read while no frame was counted, unless
\* the count has changed since.
Sampled ==
  /\ pc \in SizeCall => Room <= size.most
  /\ pc \in {"low", "high", "again"} => size.count <= EPKTCNT
  /\ size.count = EPKTCNT =>
       /\ pc \in {"high", "again"} => size.low = ERXWRPT % ByteValues
       /\ pc = "again" => size.high = ERXWRPT \div ByteValues
  /\ pc = "window" => Room - 1 <= size.value /\ size.value < size.most

Placed(at) ==
  /\ Layout(at) /\ Pointers(at) /\ OneRound(at) /\ Stored(at) /\ Reader(at)

IInv == Typed /\ InOrder /\ Sampled /\ \E at \in [Nat -> Nat] : Placed(at)

-----------------------------------------------------------------------------
(* Facts about the constants and the places.                               *)

LEMMA RingFacts ==
  /\ RXSIZE \in Nat \ {0} /\ RXSIZE % 2 = 0 /\ RXSIZE >= 2
  /\ RXSTOP = RXSIZE - 1 /\ Addresses = 0 .. RXSIZE - 1
  /\ Preamble \in Nat \ {0} /\ ByteValues \in Nat \ {0}
BY EncAssumption DEF EncAssumption, RXSIZE, Addresses

LEMMA PaddedFacts ==
  ASSUME NEW n \in Sizes
  PROVE  /\ n \in Nat /\ n > Preamble /\ Preamble \in Nat \ {0}
         /\ Padded(n) \in Nat /\ n <= Padded(n) /\ Padded(n) % 2 = 0
BY EncAssumption DEF EncAssumption, Padded

\* The address of a place.
LEMMA AddressOf ==
  ASSUME NEW a \in Int
  PROVE  a % RXSIZE \in Addresses
BY RingFacts, Remainder

LEMMA Forward ==
  ASSUME NEW a \in Int, NEW b \in Int
  PROVE  ((a % RXSIZE) + b) % RXSIZE = (a + b) % RXSIZE
BY RingFacts, Wrapped

LEMMA Apart ==
  ASSUME NEW a \in Int, NEW b \in Int, a < b, b < a + RXSIZE
  PROVE  a % RXSIZE # b % RXSIZE
<1> SUFFICES ASSUME a % RXSIZE = b % RXSIZE PROVE FALSE
  OBVIOUS
<1>1. RXSIZE \in Nat \ {0}
  BY RingFacts
<1>2. a <= b /\ b - a < RXSIZE
  BY <1>1
<1>3. a = b
  BY <1>1, <1>2, SameSlot
<1> QED BY <1>3

\* The limit is one byte behind a place, as ReadLimit has it.
LEMMA LimitBehind ==
  ASSUME NEW a \in Int
  PROVE  /\ ReadLimit(a % RXSIZE) = (a - 1) % RXSIZE
         /\ After((a - 1) % RXSIZE) = a % RXSIZE
<1>1. RXSIZE \in Nat \ {0} /\ RXSTOP = RXSIZE - 1
  BY RingFacts
<1> DEFINE r == a % RXSIZE
<1>2. r \in 0 .. RXSIZE - 1
  BY <1>1, Remainder
<1>3. (r + (-1)) % RXSIZE = (a + (-1)) % RXSIZE
  BY Forward
<1>4. After((a - 1) % RXSIZE) = (a - 1 + 1) % RXSIZE
  <2>1. a - 1 \in Int
    OBVIOUS
  <2> QED BY <2>1, Forward DEF After
<1>5. ReadLimit(r) = (r + (-1)) % RXSIZE
  <2> HIDE DEF r
  <2>1. CASE r = 0
    <3>1. -1 \in Int /\ r + (-1) = -1 /\ -1 \in -RXSIZE .. -1
      BY <1>1, <2>1
    <3>2. (-1) % RXSIZE = -1 + RXSIZE
      BY <3>1, <1>1, InRange
    <3> QED BY <3>1, <3>2, <1>1, <2>1 DEF ReadLimit
  <2>2. CASE r # 0
    <3>1. r + (-1) \in Int /\ r + (-1) \in 0 .. RXSIZE - 1
      BY <1>1, <1>2, <2>2
    <3>2. (r + (-1)) % RXSIZE = r + (-1)
      BY <3>1, <1>1, InRange
    <3> QED BY <3>2, <2>2, <1>2 DEF ReadLimit
  <2> QED BY <2>1, <2>2
<1>6. a + (-1) = a - 1 /\ a - 1 + 1 = a
  OBVIOUS
<1> QED BY <1>3, <1>4, <1>5, <1>6

\* The space between two places less than a round apart, the first even and
\* the limit before the second.
LEMMA RoomBetween ==
  ASSUME NEW a \in Int, NEW b \in Int, a <= b, b < a + RXSIZE
  PROVE  (((a - 1) % RXSIZE) - (b % RXSIZE)) % RXSIZE = a - 1 + RXSIZE - b
<1>1. RXSIZE \in Nat \ {0}
  BY RingFacts
<1> DEFINE l == (a - 1) % RXSIZE
           w == b % RXSIZE
           d == a - 1 - b
<1>2. l \in 0 .. RXSIZE - 1 /\ w \in 0 .. RXSIZE - 1
  BY <1>1, Remainder
<1>3. PICK q \in Int : b = q * RXSIZE + w
  BY <1>1, Remainder
<1>4. (l + (-b)) % RXSIZE = (a - 1 + (-b)) % RXSIZE
  <2>1. a - 1 \in Int /\ -b \in Int
    OBVIOUS
  <2> QED BY <2>1, Forward
<1>5. a - 1 + (-b) = d /\ d \in Int /\ d \in -RXSIZE .. -1
  BY <1>1
<1>6. d % RXSIZE = d + RXSIZE
  BY <1>1, <1>5, InRange
<1>7. (l + (-b)) % RXSIZE = (l - w) % RXSIZE
  <2> DEFINE e == l - w
             f == (l + (-b)) % RXSIZE
  <2>1. l + (-b) \in Int
    BY <1>2
  <2>2. f \in 0 .. RXSIZE - 1
    BY <1>1, <2>1, Remainder
  <2>3. PICK p \in Int : l + (-b) = p * RXSIZE + f
    BY <1>1, <2>1, Remainder
  <2>4. e = (p + q) * RXSIZE + f
    <3> DEFINE x == p * RXSIZE
               y == q * RXSIZE
    <3>1. x \in Int /\ y \in Int /\ (p + q) * RXSIZE = x + y
      BY <1>1, Distribute
    <3>2. b = y + w /\ l + (-b) = x + f
      BY <1>3, <2>3
    <3> HIDE DEF x, y, l, w, f
    <3> QED BY <3>1, <3>2, <1>2, <2>2
  <2>5. p + q \in Int
    OBVIOUS
  <2>6. ((p + q) * RXSIZE + f) % RXSIZE = f
    BY <1>1, <2>2, <2>5, RemainderIs
  <2> HIDE DEF f
  <2> QED BY <2>4, <2>6 DEF f
<1> HIDE DEF l, w
<1> QED BY <1>4, <1>5, <1>6, <1>7, <1>1 DEF l, w

-----------------------------------------------------------------------------
(* The beginning.                                                          *)

LEMMA InitIInv == Init => IInv
<1> SUFFICES ASSUME Init PROVE IInv
  OBVIOUS
<1> DEFINE at == [i \in Nat |-> 0]
<1>1. 0 \in Nat /\ at \in [Nat -> Nat] /\ \A i \in Nat : at[i] = 0
  OBVIOUS
<1>2. accepted = <<>> /\ handed = <<>> /\ Len(accepted) = 0 /\ Len(handed) = 0
  BY DEF Init
<1>3. Freed = 0
  BY <1>2 DEF Init, Freed
<1>4. Typed
  <2>1. Junk \in Cell
    BY DEF Junk, Byte, FirstByte, Cell
  <2>2. Idle \in [count : Nat, low : Int, high : Int, most : Int, value : Int]
    BY DEF Idle
  <2>3. ring \in [Addresses -> Cell]
    BY <2>1 DEF Init
  <2>4. accepted \in Seq(Frame) /\ handed \in Seq(Frame) /\ header \in Seq(Cell)
    BY DEF Init
  <2>5. size \in [count : Nat, low : Int, high : Int, most : Int, value : Int]
    BY <2>2 DEF Init
  <2>6. arriving = NoFrame /\ EPKTCNT = 0 /\ frames = 0 /\ WasDiscarded = TRUE /\ udp = FALSE
    BY DEF Init
  <2>7. pc = "stack"
    BY DEF Init
  <2> QED BY <2>3, <2>4, <2>5, <2>6, <2>7 DEF Typed, Clients, SizeCall
<1>5. InOrder
  BY <1>2 DEF Init, InOrder
<1>6. Sampled
  BY DEF Init, Sampled, SizeCall
<1> HIDE DEF at
<1>7. Layout(at)
  BY <1>1, <1>2 DEF Layout
<1>8. Pointers(at)
  <2>1. 0 % RXSIZE = 0 /\ (0 - 1) % RXSIZE = RXSIZE - 1
    <3>1. 0 \in 0 .. RXSIZE - 1 /\ 0 - 1 \in -RXSIZE .. -1 /\ 0 - 1 \in Int
      BY RingFacts
    <3> QED BY <3>1, RingFacts, InRange
  <2> QED BY <1>1, <1>2, <1>3, <2>1, RingFacts DEF Init, Pointers
<1>9. OneRound(at)
  BY <1>1, <1>2, <1>3, RingFacts DEF Init, OneRound, NoFrame, Padded
<1>10. Stored(at)
  BY <1>2, <1>3 DEF Init, Stored, NoFrame
<1>11. Reader(at)
  BY DEF Init, Reader
<1>12. Placed(at)
  BY <1>7, <1>8, <1>9, <1>10, <1>11 DEF Placed
<1> QED BY <1>1, <1>4, <1>5, <1>6, <1>12 DEF IInv

-----------------------------------------------------------------------------
(* What the invariant says of one state.                                   *)

\* The frames that are not freed, and the next place, are in order.
LEMMA Places ==
  ASSUME Typed, InOrder, NEW at, Layout(at)
  PROVE  /\ Len(accepted) \in Nat /\ Len(handed) \in Nat
         /\ Freed \in 0 .. Len(handed) /\ Freed >= Len(handed) - 1
         /\ Freed + 1 \in 1 .. Len(accepted) + 1
         /\ \A i \in 1 .. Len(accepted) + 1 : at[i] \in Nat
         /\ at[Freed + 1] <= at[Len(handed) + 1]
         /\ at[Len(handed) + 1] <= at[Len(accepted) + 1]
<1>1. Len(accepted) \in Nat /\ Len(handed) \in Nat
  BY DEF Typed
<1>2. Freed \in 0 .. Len(handed) /\ Freed >= Len(handed) - 1 /\ Len(handed) <= Len(accepted)
  BY <1>1 DEF Freed, InOrder, Typed
<1>3. \A i \in 1 .. Len(accepted) + 1 : at[i] \in Nat
  BY <1>1 DEF Layout
<1>4. /\ Freed + 1 \in 1 .. Len(accepted) + 1 /\ Len(handed) + 1 \in 1 .. Len(accepted) + 1
      /\ Len(accepted) + 1 \in 1 .. Len(accepted) + 1
      /\ Freed + 1 <= Len(handed) + 1 /\ Len(handed) + 1 <= Len(accepted) + 1
  BY <1>1, <1>2
<1>5. at[Freed + 1] <= at[Len(handed) + 1] /\ at[Len(handed) + 1] <= at[Len(accepted) + 1]
  BY <1>4 DEF Layout
<1> QED BY <1>1, <1>2, <1>3, <1>4, <1>5

\* A frame in the buffer, of which the one handed over last is one.
LEMMA FrameFacts ==
  ASSUME Typed, InOrder, NEW at, Layout(at), NEW i \in 1 .. Len(accepted)
  PROVE  /\ accepted[i] \in Frame /\ accepted[i].frame \in Nat \ {0}
         /\ accepted[i].size \in Sizes /\ accepted[i].size \in Nat
         /\ accepted[i].size > Preamble /\ accepted[i].size <= Padded(accepted[i].size)
         /\ Padded(accepted[i].size) \in Nat
         /\ at[i] \in Nat /\ at[i + 1] \in Nat
         /\ at[i + 1] = at[i] + Padded(accepted[i].size)
         /\ at[i + 1] <= at[Len(accepted) + 1]
         /\ i > Freed => at[Freed + 1] <= at[i]
<1>1. accepted[i] \in Frame /\ Len(accepted) \in Nat
  BY DEF Typed
<1>2. accepted[i].size \in Sizes /\ accepted[i].frame \in Nat \ {0}
  BY <1>1 DEF Frame
<1>3. at[i + 1] = at[i] + Padded(accepted[i].size) /\ at[i] \in Nat /\ at[i + 1] \in Nat
  BY <1>1 DEF Layout
<1>4. at[i + 1] <= at[Len(accepted) + 1]
  <2>1. /\ i + 1 \in 1 .. Len(accepted) + 1 /\ Len(accepted) + 1 \in 1 .. Len(accepted) + 1
        /\ i + 1 <= Len(accepted) + 1
    BY <1>1
  <2> QED BY <2>1 DEF Layout
<1>5. ASSUME i > Freed PROVE at[Freed + 1] <= at[i]
  <2>1. Freed \in Nat
    BY Places
  <2>2. /\ Freed + 1 \in 1 .. Len(accepted) + 1 /\ i \in 1 .. Len(accepted) + 1
        /\ Freed + 1 <= i
    BY <1>1, <1>5, <2>1
  <2> QED BY <2>2 DEF Layout
<1> QED BY <1>1, <1>2, <1>3, <1>4, <1>5, PaddedFacts

LEMMA Handed ==
  ASSUME Typed, InOrder, ~WasDiscarded
  PROVE  /\ Len(handed) \in 1 .. Len(accepted)
         /\ Current = accepted[Len(handed)]
         /\ pc # "erxrdpt" /\ Freed = Len(handed) - 1
<1>1. Len(handed) \in Nat /\ Len(accepted) \in Nat
  BY DEF Typed
<1>2. Len(handed) \in 1 .. Len(accepted)
  BY <1>1 DEF InOrder
<1> QED BY <1>1, <1>2 DEF Current, InOrder, Freed

LEMMA ContentFacts ==
  ASSUME NEW at, NEW i, NEW n
  PROVE  /\ Content(at, i, n).frame = accepted[i].frame
         /\ Content(at, i, n).at = n
BY DEF Content, Byte, FirstByte

\* The room is what is left of one round; it is never used up, since frames
\* begin at even places only.
LEMMA RoomFacts ==
  ASSUME Typed, InOrder, NEW at, Layout(at), Pointers(at), OneRound(at)
  PROVE  /\ arriving.at \in Nat
         /\ Room = at[Freed + 1] - 1 + RXSIZE - at[Len(accepted) + 1]
         /\ Room > 0 /\ Room < RXSIZE /\ Room \in Nat
<1> DEFINE a == at[Freed + 1]
           b == at[Len(accepted) + 1]
<1>1. a \in Nat /\ b \in Nat /\ a <= b
  <2>1. Freed + 1 \in 1 .. Len(accepted) + 1 /\ Len(accepted) + 1 \in 1 .. Len(accepted) + 1
    BY Places DEF InOrder
  <2> QED BY <2>1, Places
<1>2. a % 2 = 0 /\ b % 2 = 0 /\ RXSIZE % 2 = 0 /\ RXSIZE \in Nat
  <2>1. Freed + 1 \in 1 .. Len(accepted) + 1 /\ Len(accepted) + 1 \in 1 .. Len(accepted) + 1
    BY Places DEF InOrder
  <2> QED BY <2>1, RingFacts DEF Layout
<1>3. arriving.at \in Nat
  BY DEF Typed, NoFrame
<1>4. b < a + RXSIZE
  <2>1. b + arriving.at < a + RXSIZE
    BY DEF OneRound
  <2> HIDE DEF a, b
  <2> QED BY <2>1, <1>1, <1>2, <1>3
<1>5. Room = (((a - 1) % RXSIZE) - (b % RXSIZE)) % RXSIZE
  BY DEF Room, Pointers
<1> HIDE DEF a, b
<1>6. Room = a - 1 + RXSIZE - b
  BY <1>1, <1>4, <1>5, RoomBetween
<1>7. b <= a + RXSIZE - 2
  BY <1>1, <1>2, <1>4
<1>8. Room > 0 /\ Room < RXSIZE /\ Room \in Nat
  BY <1>1, <1>2, <1>6, <1>7
<1> QED BY <1>3, <1>6, <1>8 DEF a, b

-----------------------------------------------------------------------------
(* The properties follow.                                                  *)

LEMMA OrderFollows == IInv => FramesInOrder
BY DEF IInv, Typed, InOrder, FramesInOrder, Clients, SizeCall

LEMMA ReadsFollow == IInv => ReadsOwnFrame
<1> SUFFICES ASSUME IInv, Reading, place # None, place < Current.size
             PROVE  ring[ERDPT].frame = Current.frame /\ ring[ERDPT].at = place
  BY DEF ReadsOwnFrame
<1>1. PICK at \in [Nat -> Nat] : Placed(at)
  BY DEF IInv
<1>2. Typed /\ InOrder /\ Layout(at) /\ Stored(at) /\ Reader(at) /\ ~WasDiscarded
  BY <1>1 DEF IInv, Placed, Reading, HasFrame
<1> DEFINE i == Len(handed)
<1>3. i \in 1 .. Len(accepted) /\ Current = accepted[i] /\ i \in Freed + 1 .. Len(accepted)
  <2>1. i \in 1 .. Len(accepted) /\ Current = accepted[i] /\ Freed = i - 1
    BY <1>2, Handed
  <2>2. Len(accepted) \in Nat
    BY <1>2 DEF Typed
  <2> HIDE DEF i
  <2> QED BY <2>1, <2>2
<1>4. place \in 0 .. Current.size /\ ERDPT = (at[i] + place) % RXSIZE
  BY <1>2 DEF Reader, Lies
<1> HIDE DEF i
<1>5. place \in 0 .. Padded(accepted[i].size) - 1
  <2>1. accepted[i].size \in Nat /\ Padded(accepted[i].size) \in Nat
        /\ accepted[i].size <= Padded(accepted[i].size)
    BY <1>2, <1>3, FrameFacts
  <2>2. Current.size = accepted[i].size
    BY <1>3
  <2> DEFINE m == accepted[i].size
             k == Padded(accepted[i].size)
  <2>3. m \in Nat /\ k \in Nat /\ m <= k /\ place \in 0 .. m /\ place < m
    BY <1>4, <2>1, <2>2
  <2> HIDE DEF m, k
  <2>4. place \in 0 .. k - 1
    BY <2>3
  <2> QED BY <2>4 DEF k
<1>6. ring[ERDPT] = Content(at, i, place)
  BY <1>2, <1>3, <1>4, <1>5 DEF Stored
<1> QED BY <1>3, <1>6, ContentFacts, SMTT(20)

LEMMA FreedFollows == IInv => BufferFreed
<1> SUFFICES ASSUME IInv, pc # "erxrdpt"
             PROVE  /\ After(ERXRDPT) = IF WasDiscarded THEN NextPacketLocation
                                        ELSE CurrentPacketLocation
                    /\ EPKTCNT = Len(accepted) - Len(handed) + (IF WasDiscarded THEN 0 ELSE 1)
  BY DEF BufferFreed
<1>1. PICK at \in [Nat -> Nat] : Placed(at)
  BY DEF IInv
<1>2. Typed /\ InOrder /\ Layout(at) /\ Pointers(at)
  BY <1>1 DEF IInv, Placed
<1>3. Freed + 1 \in 1 .. Len(accepted) + 1 /\ Len(handed) \in Nat
  BY <1>2, Places
<1>4. After(ERXRDPT) = at[Freed + 1] % RXSIZE
  <2> DEFINE a == at[Freed + 1]
  <2>1. a \in Int
    BY <1>2, <1>3, Places
  <2>2. ERXRDPT = (a - 1) % RXSIZE
    BY <1>2 DEF Pointers
  <2> HIDE DEF a
  <2>3. After(ERXRDPT) = a % RXSIZE
    BY <2>1, <2>2, LimitBehind
  <2> QED BY <2>3 DEF a
<1>5. Freed + 1 = IF WasDiscarded THEN Len(handed) + 1 ELSE Len(handed)
  BY <1>3 DEF Freed
<1> QED BY <1>2, <1>4, <1>5 DEF Pointers, InOrder

LEMMA SizeFollows == IInv => FreeSizeIsReal
BY DEF IInv, Sampled, FreeSizeIsReal

-----------------------------------------------------------------------------
(* The steps of the program that leave the buffer, the limit and the       *)
(* frames as they are.                                                     *)

LEMMA BufferKept ==
  ASSUME Typed, InOrder, NEW at, Layout(at), OneRound(at), Stored(at),
         UNCHANGED <<ring, arriving, accepted>>, Freed' = Freed
  PROVE  Layout(at)' /\ OneRound(at)' /\ Stored(at)'
<1>1. Layout(at)'
  BY DEF Layout
<1>2. OneRound(at)'
  BY DEF OneRound
<1>3. Stored(at)'
  BY DEF Stored, Content
<1> QED BY <1>1, <1>2, <1>3

LEMMA AsideKeeps ==
  ASSUME Typed, InOrder, NEW at, Placed(at), UNCHANGED <<chip, driver>>,
         pc # "erxrdpt", pc' # "erxrdpt", pc' # "header", pc' = "pktdec" => ~WasDiscarded
  PROVE  /\ InOrder' /\ Room' = Room /\ EPKTCNT' = EPKTCNT /\ ERXWRPT' = ERXWRPT
         /\ Layout(at)' /\ Pointers(at)' /\ OneRound(at)' /\ Stored(at)'
<1>1. /\ UNCHANGED <<ring, arriving, accepted, handed>>
      /\ UNCHANGED <<ERXWRPT, ERXRDPT, EPKTCNT, WasDiscarded>>
      /\ UNCHANGED <<NextPacketLocation, CurrentPacketLocation>>
  BY DEF chip, driver
<1>2. Freed' = Freed
  BY <1>1 DEF Freed
<1>3. Layout(at)' /\ OneRound(at)' /\ Stored(at)'
  BY <1>1, <1>2, BufferKept DEF Placed
<1>4. Pointers(at)'
  BY <1>1, <1>2 DEF Placed, Pointers
<1>5. InOrder'
  BY <1>1 DEF InOrder
<1>6. Room' = Room
  BY <1>1 DEF Room
<1> QED BY <1>1, <1>3, <1>4, <1>5, <1>6

\* A place in the frame is at the address that InRx computes.
LEMMA InRxIs ==
  ASSUME Typed, InOrder, NEW at, Placed(at), ~WasDiscarded,
         NEW n \in Preamble .. Current.size - 1
  PROVE  Lies(at, n, InRx(n)) /\ n \in Nat
<1> DEFINE a == at[Len(handed)]
           r == a % RXSIZE
           m == Current.size
<1>1. /\ Layout(at) /\ Pointers(at) /\ OneRound(at) /\ Len(handed) \in 1 .. Len(accepted)
      /\ Current = accepted[Len(handed)] /\ Freed + 1 = Len(handed) /\ Len(accepted) \in Nat
  <2>1. Len(accepted) \in Nat /\ Len(handed) \in Nat
    BY DEF Typed
  <2> QED BY <2>1, Handed DEF Placed
<1>2. /\ a \in Nat /\ m \in Nat /\ a + Padded(m) <= at[Len(accepted) + 1]
      /\ m <= Padded(m) /\ Padded(m) \in Nat
  BY <1>1, FrameFacts
<1>3. CurrentPacketLocation = r
  BY <1>1 DEF Pointers
<1>4. RXSIZE \in Nat \ {0} /\ RXSTOP = RXSIZE - 1 /\ Preamble \in Nat
  BY RingFacts
<1>9. n \in Nat /\ a \in Int
  BY <1>2, <1>4
<1>5. r \in 0 .. RXSIZE - 1
  <2> HIDE DEF a
  <2> QED BY <1>4, <1>9, Remainder
<1>6. n < RXSIZE /\ n \in 0 .. m
  <2>1. /\ at[Len(accepted) + 1] \in Nat /\ arriving.at \in Nat
        /\ at[Len(accepted) + 1] + arriving.at < a + RXSIZE
    BY <1>1, Places, RoomFacts DEF OneRound
  <2> DEFINE b == at[Len(accepted) + 1]
             k == Padded(m)
             z == arriving.at
  <2>2. /\ b \in Nat /\ z \in Nat /\ b + z < a + RXSIZE /\ k \in Nat /\ m <= k /\ a + k <= b
        /\ a \in Nat /\ m \in Nat
    BY <2>1, <1>2
  <2>3. n \in Preamble .. m - 1
    OBVIOUS
  <2> HIDE DEF a, b, k, m, z
  <2> QED BY <2>2, <2>3, <1>4
<1>7. (r + n) % RXSIZE = (a + n) % RXSIZE
  <2> HIDE DEF a
  <2> QED BY <1>9, Forward
<1>8. InRx(n) = (r + n) % RXSIZE
  <2>1. InRx(n) = IF r + n > RXSTOP THEN r + n - RXSIZE ELSE r + n
    <3> HIDE DEF r
    <3> QED BY <1>3, <1>4, <1>5, <1>9 DEF InRx
  <2> HIDE DEF a, r, m
  <2>2. CASE r + n > RXSTOP
    <3>1. r + n \in Int /\ r + n \in RXSIZE .. 2 * RXSIZE - 1
      BY <1>4, <1>5, <1>6, <1>9, <2>2
    <3>2. (r + n) % RXSIZE = r + n - RXSIZE
      <4> DEFINE x == r + n
      <4>1. x \in Int /\ x \in RXSIZE .. 2 * RXSIZE - 1
        BY <3>1
      <4> HIDE DEF x
      <4>2. x % RXSIZE = x - RXSIZE
        BY <4>1, <1>4, InRange
      <4> QED BY <4>2, <1>4, <1>5, <1>9 DEF x
    <3> QED BY <3>2, <2>1, <2>2
  <2>3. CASE ~(r + n > RXSTOP)
    <3>1. r + n \in Int /\ r + n \in 0 .. RXSIZE - 1
      BY <1>4, <1>5, <1>6, <1>9, <2>3
    <3> QED BY <3>1, <2>1, <2>3, <1>4, InRange
  <2> QED BY <2>2, <2>3
<1> QED BY <1>6, <1>7, <1>8, <1>9 DEF Lies

LEMMA LiesNext ==
  ASSUME Typed, InOrder, NEW at, Layout(at), ~WasDiscarded,
         NEW n, NEW address, Lies(at, n, address), n < Current.size
  PROVE  Lies(at, n + 1, After(address)) /\ n \in Nat
<1> DEFINE a == at[Len(handed)]
           m == Current.size
<1>1. Len(handed) \in 1 .. Len(accepted) /\ Current = accepted[Len(handed)]
  BY Handed
<1>2. a \in Nat /\ m \in Nat
  BY <1>1, FrameFacts
<1>3. n \in 0 .. m /\ address = (a + n) % RXSIZE /\ n < m
  BY DEF Lies
<1> HIDE DEF a, m
<1>4. n \in Nat /\ n + 1 \in 0 .. m /\ a + n \in Int /\ 1 \in Int /\ a + n + 1 = a + (n + 1)
  BY <1>2, <1>3
<1>5. (((a + n) % RXSIZE) + 1) % RXSIZE = (a + n + 1) % RXSIZE
  <2> DEFINE x == a + n
  <2>1. x \in Int
    BY <1>4
  <2> HIDE DEF x
  <2>2. ((x % RXSIZE) + 1) % RXSIZE = (x + 1) % RXSIZE
    BY <2>1, Forward
  <2> QED BY <2>2 DEF x
<1>6. After(address) = (a + (n + 1)) % RXSIZE
  BY <1>3, <1>4, <1>5 DEF After
<1> QED BY <1>4, <1>6 DEF Lies, a, m

\* Steps in which no pointer is being sampled say nothing of the samples.
LEMMA NoSample ==
  ASSUME pc' \notin SizeCall
  PROVE  Sampled'
BY DEF Sampled, SizeCall

LEMMA AsideTyped ==
  ASSUME Typed, UNCHANGED <<chip, driver>>,
         pc' \in {"stack", "getHeader", "header", "pktdec", "erxrdpt"} \cup Clients \cup SizeCall,
         pc' \in {"pktdec", "erxrdpt"} => back' \in {"getHeader"} \cup Clients,
         pc' \in SizeCall => back' \in Clients,
         header' \in Seq(Cell), udp' \in BOOLEAN,
         size' \in [count : Nat, low : Int, high : Int, most : Int, value : Int]
  PROVE  Typed'
BY DEF Typed, chip, driver

\* Such a step preserves the invariant when the reader and the samples agree.
LEMMA AsideIInv ==
  ASSUME IInv, UNCHANGED <<chip, driver>>,
         pc # "erxrdpt", pc' # "erxrdpt", pc' # "header", pc' = "pktdec" => ~WasDiscarded,
         Typed', Sampled',
         \A at \in [Nat -> Nat] : Placed(at) => Reader(at)'
  PROVE  IInv'
<1>1. PICK at \in [Nat -> Nat] : Placed(at)
  BY DEF IInv
<1>2. InOrder' /\ Layout(at)' /\ Pointers(at)' /\ OneRound(at)' /\ Stored(at)'
  BY <1>1, AsideKeeps DEF IInv
<1>3. Placed(at)'
  BY <1>1, <1>2 DEF Placed
<1> QED BY <1>1, <1>2, <1>3 DEF IInv

LEMMA SeekStep ==
  ASSUME IInv, Seek \/ ChecksumBegins
  PROVE  IInv'
<1>1. PICK n \in Preamble .. Current.size - 1 : ERDPT' = InRx(n) /\ place' = n
  BY DEF Seek, ChecksumBegins, SetReadPtrInRx
<1>2. /\ UNCHANGED <<chip, driver, pc, back, header, udp, size>> /\ ~WasDiscarded
      /\ pc \in Clients
      /\ saved' = saved \/ (place # None /\ saved' = <<ERDPT, place>>)
  BY DEF Seek, ChecksumBegins, Reading, HasFrame, Clients
<1>3. Typed'
  BY <1>2, AsideTyped DEF IInv, Typed
<1>4. Sampled'
  BY <1>2, NoSample DEF Clients, SizeCall
<1>5. ASSUME NEW at \in [Nat -> Nat], Placed(at) PROVE Reader(at)'
  <2>1. Lies(at, n, InRx(n)) /\ n \in Nat
    BY <1>2, <1>5, InRxIs DEF IInv
  <2>2. UNCHANGED <<handed, WasDiscarded>>
    BY <1>2 DEF driver
  <2>3. Lies(at, place, ERDPT)'
    BY <1>1, <2>1, <2>2 DEF Lies, Current
  <2>4. Reader(at)
    BY <1>5 DEF Placed
  <2>5. ASSUME saved' # <<>>
        PROVE  saved' = <<saved'[1], saved'[2]>> /\ Lies(at, saved[2], saved[1])'
    <3>1. CASE saved' = saved
      BY <3>1, <2>2, <2>4, <2>5 DEF Reader, Lies, Current
    <3>2. CASE place # None /\ saved' = <<ERDPT, place>>
      BY <3>2, <1>2, <2>2, <2>4 DEF Reader, Lies, Current
    <3> QED BY <1>2, <3>1, <3>2
  <2> QED BY <1>2, <2>2, <2>3, <2>5 DEF Reader, Clients
<1> QED BY <1>2, <1>3, <1>4, <1>5, AsideIInv DEF Clients

LEMMA GetStep ==
  ASSUME IInv, Get
  PROVE  IInv'
<1>1. /\ UNCHANGED <<chip, driver, pc, back, header, saved, udp, size>> /\ ~WasDiscarded
      /\ pc \in Clients /\ place # None /\ place < Current.size
      /\ ERDPT' = After(ERDPT) /\ place' = place + 1
  BY DEF Get, Reading, HasFrame, Clients
<1>2. Typed'
  BY <1>1, AsideTyped DEF IInv, Typed
<1>3. Sampled'
  BY <1>1, NoSample DEF Clients, SizeCall
<1>4. ASSUME NEW at \in [Nat -> Nat], Placed(at) PROVE Reader(at)'
  <2>1. Reader(at) /\ Layout(at) /\ UNCHANGED <<handed, WasDiscarded>>
    BY <1>1, <1>4 DEF Placed, driver
  <2>2. Lies(at, place + 1, After(ERDPT))
    BY <1>1, <2>1, LiesNext DEF IInv, Reader
  <2>3. Lies(at, place, ERDPT)'
    BY <1>1, <2>1, <2>2 DEF Lies, Current
  <2>4. saved # <<>> => Lies(at, saved[2], saved[1])'
    BY <1>1, <2>1 DEF Reader, Lies, Current
  <2> QED BY <1>1, <2>1, <2>3, <2>4 DEF Reader, Clients
<1> QED BY <1>1, <1>2, <1>3, <1>4, AsideIInv DEF Clients

LEMMA ChecksumEndsStep ==
  ASSUME IInv, ChecksumEnds
  PROVE  IInv'
<1>1. /\ UNCHANGED <<chip, driver, pc, back, header, udp, size>>
      /\ saved # <<>> /\ ERDPT' = saved[1] /\ place' = saved[2] /\ saved' = <<>>
  BY DEF ChecksumEnds
<1>2. pc \in Clients
  BY <1>1 DEF IInv, Placed, Reader
<1>3. Typed'
  BY <1>1, AsideTyped DEF IInv, Typed
<1>4. Sampled'
  BY <1>1, <1>2, NoSample DEF Clients, SizeCall
<1>5. ASSUME NEW at \in [Nat -> Nat], Placed(at) PROVE Reader(at)'
  <2>1. Reader(at) /\ UNCHANGED <<handed, WasDiscarded>>
    BY <1>1, <1>5 DEF Placed, driver
  <2>2. Lies(at, place, ERDPT)'
    BY <1>1, <2>1 DEF Reader, Lies, Current
  <2> QED BY <1>1, <1>2, <2>1, <2>2 DEF Reader, Clients
<1> QED BY <1>1, <1>2, <1>3, <1>4, <1>5, AsideIInv DEF Clients

\* The end of a handler or of the applications.
LEMMA EndStep ==
  ASSUME IInv, HandlerEnds \/ ApplicationsEnd
  PROVE  IInv'
<1>1. /\ UNCHANGED <<chip, driver, back, header, saved, size, ERDPT>>
      /\ saved = <<>> /\ place' = None /\ pc' \in {"stack", "apps"} /\ pc \in Clients
      /\ udp' = udp \/ udp' = TRUE
  BY DEF HandlerEnds, ApplicationsEnd, Clients
<1>2. Typed'
  BY <1>1, AsideTyped DEF IInv, Typed, Clients, SizeCall
<1>3. Sampled'
  BY <1>1, NoSample DEF SizeCall
<1>4. ASSUME NEW at \in [Nat -> Nat], Placed(at) PROVE Reader(at)'
  BY <1>1 DEF Reader
<1> QED BY <1>1, <1>2, <1>3, <1>4, AsideIInv DEF Clients

\* The calls of MACDiscardRx.
LEMMA DiscardStep ==
  ASSUME IInv, Discard \/ UDPDiscard
  PROVE  IInv'
<1>1. /\ UNCHANGED <<chip, driver, header, place, saved, size, ERDPT>>
      /\ pc = "stack" \/ (pc \in Clients /\ saved = <<>>)
      /\ udp' = FALSE
      /\ \/ pc' = "pktdec" /\ back' \in {"getHeader"} \cup Clients /\ ~WasDiscarded
         \/ pc' \in {"getHeader"} \cup Clients /\ UNCHANGED back
  BY DEF Discard, UDPDiscard, MACDiscardRx, Clients
<1>2. saved = <<>>
  BY <1>1 DEF IInv, Placed, Reader, Clients
<1>3. Typed'
  BY <1>1, AsideTyped DEF IInv, Typed, Clients, SizeCall
<1>4. Sampled'
  BY <1>1, NoSample DEF SizeCall, Clients
<1>5. ASSUME NEW at \in [Nat -> Nat], Placed(at) PROVE Reader(at)'
  <2>1. Reader(at) /\ UNCHANGED <<handed, WasDiscarded>>
    BY <1>1, <1>5 DEF Placed, driver
  <2> QED BY <1>1, <1>2, <2>1 DEF Reader, Lies, Current, Clients
<1> QED BY <1>1, <1>3, <1>4, <1>5, AsideIInv DEF Clients

-----------------------------------------------------------------------------
(* The size of the free space.                                             *)

\* From the two pointers the driver computes one less than the room.
LEMMA FreeRxSizeIs ==
  ASSUME Typed, InOrder, NEW at, Layout(at), Pointers(at), OneRound(at)
  PROVE  FreeRxSize(ERXWRPT, ERXRDPT) = Room - 1
<1> DEFINE w == ERXWRPT
           r == ERXRDPT
<1>1. w \in 0 .. RXSIZE - 1 /\ r \in 0 .. RXSIZE - 1
  <2>1. at[Len(accepted) + 1] \in Int /\ at[Freed + 1] - 1 \in Int
    BY Places
  <2> QED BY <2>1, AddressOf, RingFacts DEF Pointers
<1>2. Room = (r - w) % RXSIZE /\ Room > 0
  BY RoomFacts DEF Room
<1>3. RXSIZE \in Nat \ {0} /\ RXSTOP = RXSIZE - 1
  BY RingFacts
<1> HIDE DEF w, r
<1> DEFINE d == r - w
<1>4. d \in Int /\ d \in -RXSIZE .. RXSIZE - 1
  BY <1>1, <1>3
<1>5. CASE w > r
  <2>1. d \in -RXSIZE .. -1
    BY <1>1, <1>3, <1>5
  <2>2. d % RXSIZE = d + RXSIZE
    <3> HIDE DEF d
    <3> QED BY <1>3, <1>4, <2>1, InRange
  <2>3. FreeRxSize(w, r) = RXSTOP - (w - r)
    BY <1>1, <1>5 DEF FreeRxSize
  <2> QED BY <1>1, <1>2, <1>3, <2>2, <2>3 DEF w, r
<1>6. CASE w < r
  <2>1. d \in 0 .. RXSIZE - 1
    BY <1>1, <1>3, <1>6
  <2>2. d % RXSIZE = d
    <3> HIDE DEF d
    <3> QED BY <1>3, <1>4, <2>1, InRange
  <2>3. FreeRxSize(w, r) = r - w - 1
    BY <1>1, <1>6 DEF FreeRxSize
  <2> QED BY <1>1, <1>2, <1>3, <2>2, <2>3 DEF w, r
<1>7. CASE w = r
  <2>1. d = 0 /\ 0 \in 0 .. RXSIZE - 1
    BY <1>1, <1>3, <1>7
  <2>2. 0 % RXSIZE = 0
    BY <1>3, <2>1, InRange
  <2> QED BY <1>2, <2>1, <2>2
<1> QED BY <1>1, <1>5, <1>6, <1>7

\* In such a call nothing but the samples changes, so the reader stays.
LEMMA CallStep ==
  ASSUME IInv, UNCHANGED <<chip, driver, header, saved, udp>>,
         pc \in Clients \cup SizeCall, pc' \in Clients \cup SizeCall,
         place' = None \/ UNCHANGED <<place, ERDPT>>,
         pc' \in SizeCall => back' \in Clients,
         size' \in [count : Nat, low : Int, high : Int, most : Int, value : Int],
         pc \in SizeCall \/ saved = <<>>, Sampled'
  PROVE  IInv'
<1>1. saved = <<>>
  BY DEF IInv, Placed, Reader, Clients, SizeCall
<1>2. Typed'
  BY AsideTyped DEF IInv, Typed, Clients, SizeCall
<1>3. ASSUME NEW at \in [Nat -> Nat], Placed(at) PROVE Reader(at)'
  <2>1. Reader(at) /\ UNCHANGED <<handed, WasDiscarded>>
    BY <1>3 DEF Placed, driver
  <2> QED BY <1>1, <2>1 DEF Reader, Lies, Current, Clients, SizeCall
<1> QED BY <1>2, <1>3, AsideIInv DEF Clients, SizeCall

\* What the samples say in the middle of the call.
LEMMA Midway ==
  ASSUME IInv, pc \in SizeCall
  PROVE  /\ saved = <<>> /\ back \in Clients /\ EPKTCNT \in Nat /\ ERXWRPT \in Nat
         /\ ByteValues \in Nat \ {0}
         /\ ERXWRPT % ByteValues \in Int /\ ERXWRPT \div ByteValues \in Int
         /\ (ERXWRPT % ByteValues) + ByteValues * (ERXWRPT \div ByteValues) = ERXWRPT
         /\ Room \in Nat /\ FreeRxSize(ERXWRPT, ERXRDPT) = Room - 1
         /\ size \in [count : Nat, low : Int, high : Int, most : Int, value : Int]
<1>1. PICK at \in [Nat -> Nat] : Placed(at)
  BY DEF IInv
<1>2. Typed /\ InOrder /\ Layout(at) /\ Pointers(at) /\ OneRound(at) /\ Reader(at)
  BY <1>1 DEF IInv, Placed
<1>3. saved = <<>> /\ back \in Clients /\ EPKTCNT \in Nat
  BY <1>2 DEF Typed, Reader, SizeCall, Clients
<1>4. ERXWRPT \in Nat
  <2>1. at[Len(accepted) + 1] \in Int
    BY <1>2, Places
  <2>2. ERXWRPT \in Addresses
    BY <1>2, <2>1, AddressOf DEF Pointers
  <2> QED BY <2>2, RingFacts
<1>5. ByteValues \in Nat \ {0}
  BY RingFacts
<1>6. ERXWRPT = ByteValues * (ERXWRPT \div ByteValues) + (ERXWRPT % ByteValues)
      /\ ERXWRPT % ByteValues \in Int /\ ERXWRPT \div ByteValues \in Int
  BY <1>4, <1>5
<1>7. (ERXWRPT % ByteValues) + ByteValues * (ERXWRPT \div ByteValues) = ERXWRPT
  <2> DEFINE x == ByteValues * (ERXWRPT \div ByteValues)
             y == ERXWRPT % ByteValues
  <2>1. x \in Int /\ y \in Int /\ ERXWRPT = x + y
    BY <1>5, <1>6
  <2> HIDE DEF x, y
  <2>2. y + x = ERXWRPT
    BY <2>1
  <2> QED BY <2>2 DEF x, y
<1> QED BY <1>2, <1>3, <1>4, <1>5, <1>6, <1>7, RoomFacts, FreeRxSizeIs DEF Typed

LEMMA SendTCPStep ==
  ASSUME IInv, SendTCP
  PROVE  IInv'
<1>1. PICK at \in [Nat -> Nat] : Placed(at)
  BY DEF IInv
<1>2. Room \in Nat
  BY <1>1, RoomFacts DEF IInv, Placed
<1>3. /\ UNCHANGED <<chip, driver, header, place, saved, udp, ERDPT>>
      /\ pc \in Clients /\ saved = <<>> /\ pc' = "count" /\ back' \in Clients
      /\ size' = [Idle EXCEPT !.most = Room]
  BY DEF SendTCP, Clients
<1>4. size'.most = Room /\ size' \in [count : Nat, low : Int, high : Int, most : Int, value : Int]
  BY <1>2, <1>3 DEF Idle
<1>5. Room' = Room
  BY <1>3 DEF chip, driver, Room
<1>6. Sampled'
  BY <1>2, <1>3, <1>4, <1>5 DEF Sampled
<1> QED BY <1>3, <1>4, <1>6, CallStep DEF SizeCall

\* The reads of the count and of the two bytes.
LEMMA SampleStep ==
  ASSUME IInv, ReadCount \/ ReadLow \/ ReadHigh \/ ReadAgain
  PROVE  IInv'
<1>1. /\ UNCHANGED <<chip, driver, back, header, place, saved, udp, ERDPT>>
      /\ pc \in SizeCall /\ pc' \in SizeCall
  BY DEF ReadCount, ReadLow, ReadHigh, ReadAgain, FreeRxStep, SizeCall
<1>2. Sampled /\ Room' = Room /\ EPKTCNT' = EPKTCNT /\ ERXWRPT' = ERXWRPT
  BY <1>1 DEF IInv, chip, driver, Room
<1> USE DEF FreeRxStep
<1>3. CASE ReadCount
  <2>1. size' = [size EXCEPT !.count = EPKTCNT] /\ pc' = "low"
    BY <1>3 DEF ReadCount
  <2>2. size' \in [count : Nat, low : Int, high : Int, most : Int, value : Int]
        /\ size'.count = EPKTCNT /\ size'.most = size.most
    BY <1>1, <2>1, Midway
  <2>3. Sampled'
    BY <1>1, <1>2, <2>1, <2>2, Midway DEF Sampled
  <2> QED BY <1>1, <2>2, <2>3, Midway, CallStep
<1>4. CASE ReadLow
  <2>1. size' = [size EXCEPT !.low = ERXWRPT % ByteValues] /\ pc = "low" /\ pc' = "high"
    BY <1>4 DEF ReadLow
  <2>2. size' \in [count : Nat, low : Int, high : Int, most : Int, value : Int]
        /\ size'.count = size.count /\ size'.most = size.most
        /\ size'.low = ERXWRPT % ByteValues
    BY <1>1, <2>1, Midway
  <2>3. Sampled'
    BY <1>1, <1>2, <2>1, <2>2 DEF Sampled
  <2> QED BY <1>1, <2>2, <2>3, Midway, CallStep
<1>5. CASE ReadHigh
  <2>1. size' = [size EXCEPT !.high = ERXWRPT \div ByteValues] /\ pc = "high" /\ pc' = "again"
    BY <1>5 DEF ReadHigh
  <2>2. size' \in [count : Nat, low : Int, high : Int, most : Int, value : Int]
        /\ size'.count = size.count /\ size'.most = size.most
        /\ size'.low = size.low /\ size'.high = ERXWRPT \div ByteValues
    BY <1>1, <2>1, Midway
  <2>3. Sampled'
    BY <1>1, <1>2, <2>1, <2>2 DEF Sampled
  <2> QED BY <1>1, <2>2, <2>3, Midway, CallStep
<1>6. CASE ReadAgain
  <2>1. size' = size /\ pc' = "count"
    BY <1>6 DEF ReadAgain
  <2>2. Sampled'
    BY <1>1, <1>2, <2>1 DEF Sampled
  <2>3. size' \in [count : Nat, low : Int, high : Int, most : Int, value : Int]
    BY <1>1, <2>1, Midway
  <2> QED BY <1>1, <2>2, <2>3, Midway, CallStep
<1> QED BY <1>3, <1>4, <1>5, <1>6

LEMMA CalculateStep ==
  ASSUME IInv, Calculate
  PROVE  IInv'
<1>1. /\ UNCHANGED <<chip, driver, back, header, place, saved, udp, ERDPT>>
      /\ EPKTCNT = size.count /\ pc = "again" /\ pc' = "window"
      /\ size' = [size EXCEPT !.value =
                    FreeRxSize(size.low + ByteValues * size.high, ERXRDPT)]
  BY DEF Calculate, SameCount, FreeRxStep
<1>2. pc \in SizeCall /\ pc' \in SizeCall
  BY <1>1 DEF SizeCall
<1>3. /\ Sampled /\ Room' = Room /\ size.low = ERXWRPT % ByteValues
      /\ size.high = ERXWRPT \div ByteValues /\ Room <= size.most
  BY <1>1, <1>2 DEF IInv, Sampled, chip, driver, Room
<1>4. size.low + ByteValues * size.high = ERXWRPT
  BY <1>2, <1>3, Midway
<1>5. FreeRxSize(size.low + ByteValues * size.high, ERXRDPT) = Room - 1
  BY <1>2, <1>4, Midway
<1>6. /\ size' \in [count : Nat, low : Int, high : Int, most : Int, value : Int]
      /\ size'.value = Room - 1 /\ size'.most = size.most /\ Room \in Nat /\ size.most \in Int
  <2>1. size' = [size EXCEPT !.value = Room - 1]
    BY <1>1, <1>5
  <2>2. /\ Room \in Nat
        /\ size \in [count : Nat, low : Int, high : Int, most : Int, value : Int]
    BY <1>2, Midway
  <2>3. Room - 1 \in Int
    BY <2>2
  <2> DEFINE v == Room - 1
  <2> HIDE DEF v
  <2>4. v \in Int /\ size' = [size EXCEPT !.value = v]
    BY <2>1, <2>3 DEF v
  <2>5. /\ size' \in [count : Nat, low : Int, high : Int, most : Int, value : Int]
        /\ size'.value = v /\ size'.most = size.most /\ size.most \in Int
    BY <2>2, <2>4
  <2> QED BY <2>2, <2>5 DEF v
<1>7. Sampled'
  BY <1>1, <1>3, <1>6 DEF Sampled
<1>8. back' \in Clients
  BY <1>1, <1>2, Midway
<1> QED BY <1>1, <1>2, <1>6, <1>7, <1>8, CallStep

LEMMA MovesAwayStep ==
  ASSUME IInv, MovesAway
  PROVE  IInv'
<1>1. /\ UNCHANGED <<chip, driver, back, header, saved, udp>> /\ pc \in SizeCall
      /\ pc' = back /\ size' = Idle /\ place' = None
  BY DEF MovesAway, SizeCall
<1>2. pc' \in Clients
  BY <1>1, Midway
<1>3. Sampled'
  BY <1>2, NoSample DEF Clients, SizeCall
<1>4. size' \in [count : Nat, low : Int, high : Int, most : Int, value : Int]
  BY <1>1 DEF Idle
<1> QED BY <1>1, <1>2, <1>3, <1>4, CallStep DEF Clients, SizeCall


-----------------------------------------------------------------------------
(* MACGetHeader and MACDiscardRx.                                          *)

LEMMA MACGetHeaderStep ==
  ASSUME IInv, MACGetHeader
  PROVE  IInv'
<1>1. /\ UNCHANGED <<chip, NextPacketLocation, WasDiscarded, ERXRDPT, handed, place,
                     saved, udp, size>>
      /\ pc = "getHeader"
  BY DEF MACGetHeader
<1>2. saved = <<>>
  BY <1>1 DEF IInv, Placed, Reader, Clients
<1>3. ASSUME UNCHANGED <<header, ERDPT, CurrentPacketLocation>>,
             pc' = "apps" \/ (pc' = "pktdec" /\ back' = "apps" /\ ~WasDiscarded)
      PROVE  IInv'
  <2>1. UNCHANGED <<chip, driver>>
    BY <1>1, <1>3 DEF driver
  <2>2. Typed'
    BY <1>1, <1>3, <2>1, AsideTyped DEF IInv, Typed, Clients, SizeCall
  <2>3. Sampled'
    BY <1>3, NoSample DEF SizeCall
  <2>4. ASSUME NEW at \in [Nat -> Nat], Placed(at) PROVE Reader(at)'
    BY <1>1, <1>2, <1>3, <2>4 DEF Placed, Reader, Lies, Current
  <2> QED BY <1>1, <1>3, <2>1, <2>2, <2>3, <2>4, AsideIInv
<1>4. ASSUME WasDiscarded, EPKTCNT # 0, CurrentPacketLocation' = NextPacketLocation,
             ERDPT' = NextPacketLocation, header' = <<>>, pc' = "header", back' = back
      PROVE  IInv'
  <2>1. PICK at \in [Nat -> Nat] : Placed(at)
    BY DEF IInv
  <2>2. Typed /\ InOrder /\ Layout(at) /\ Pointers(at) /\ OneRound(at) /\ Stored(at)
    BY <2>1 DEF IInv, Placed
  <2>3. UNCHANGED <<ring, arriving, accepted, handed, ERXWRPT, EPKTCNT, frames>>
    BY <1>1 DEF chip
  <2>4. Freed' = Freed
    BY <1>1, <1>4, <2>3 DEF Freed
  <2>5. Layout(at)' /\ OneRound(at)' /\ Stored(at)'
    BY <2>2, <2>3, <2>4, BufferKept
  <2>6. Len(handed) < Len(accepted) /\ Len(handed) \in Nat
    <3>1. Len(handed) \in Nat /\ Len(accepted) \in Nat
      BY <2>2, Places
    <3>2. EPKTCNT = Len(accepted) - Len(handed) + 0 /\ Len(handed) <= Len(accepted)
      BY <1>4, <2>2 DEF InOrder
    <3> QED BY <1>4, <3>1, <3>2
  <2>7. Typed'
    BY <1>1, <1>4, <2>2, <2>3 DEF Typed, SizeCall, Clients
  <2>8. InOrder'
    BY <1>1, <1>4, <2>2, <2>3, <2>6 DEF InOrder
  <2>9. Pointers(at)'
    BY <1>1, <1>4, <2>2, <2>3, <2>4 DEF Pointers
  <2>10. Reader(at)'
    <3> DEFINE a == at[Len(handed) + 1]
    <3>1. a \in Nat /\ ERDPT' = a % RXSIZE
      BY <1>4, <2>2, <2>6 DEF Pointers
    <3> HIDE DEF a
    <3>2. ERDPT' = (a + 0) % RXSIZE
      BY <3>1
    <3>3. Len(header') = 0 /\ Preamble > 0
      BY <1>4, RingFacts
    <3> QED BY <1>1, <1>2, <1>4, <2>3, <3>2, <3>3 DEF Reader, a
  <2>11. Sampled'
    BY <1>4, NoSample DEF SizeCall
  <2> QED BY <2>5, <2>7, <2>8, <2>9, <2>10, <2>11 DEF IInv, Placed
<1>5. CASE EPKTCNT = 0
  BY <1>3, <1>5 DEF MACGetHeader
<1>6. CASE EPKTCNT # 0 /\ ~WasDiscarded
  BY <1>3, <1>6 DEF MACGetHeader, LastWasLeft, MACDiscardRx
<1>7. CASE EPKTCNT # 0 /\ WasDiscarded
  BY <1>4, <1>7 DEF MACGetHeader
<1> QED BY <1>5, <1>6, <1>7

\* The frame is counted off, and its bytes still protected.
LEMMA CountOffStep ==
  ASSUME IInv, CountOff
  PROVE  IInv'
<1>1. PICK at \in [Nat -> Nat] : Placed(at)
  BY DEF IInv
<1>2. /\ Typed /\ InOrder /\ Layout(at) /\ Pointers(at) /\ OneRound(at) /\ Stored(at)
      /\ Reader(at)
  BY <1>1 DEF IInv, Placed
<1>3. /\ UNCHANGED <<ring, ERXWRPT, arriving, frames, accepted, NextPacketLocation>>
      /\ UNCHANGED <<CurrentPacketLocation, ERXRDPT, handed, back, header, saved, udp>>
      /\ UNCHANGED <<size, ERDPT>>
      /\ pc = "pktdec" /\ pc' = "erxrdpt" /\ place' = None
      /\ WasDiscarded' = TRUE /\ EPKTCNT' = EPKTCNT - 1
  BY DEF CountOff
<1>4. ~WasDiscarded /\ saved = <<>>
  BY <1>2, <1>3 DEF InOrder, Reader, Clients
<1>5. Len(handed) \in Nat /\ Len(accepted) \in Nat /\ Len(handed) > 0
  BY <1>2, <1>4, Places DEF InOrder
<1>6. Freed' = Freed
  BY <1>3, <1>4 DEF Freed
<1>7. Layout(at)' /\ OneRound(at)' /\ Stored(at)'
  BY <1>2, <1>3, <1>6, BufferKept
<1>8. EPKTCNT' = Len(accepted) - Len(handed) /\ EPKTCNT' \in Nat
      /\ EPKTCNT' = (Len(accepted) - Len(handed) + IF WasDiscarded THEN 0 ELSE 1)'
  BY <1>2, <1>3, <1>4, <1>5 DEF InOrder
<1>9. Typed'
  BY <1>2, <1>3, <1>8 DEF Typed, SizeCall, Clients
<1>10. InOrder'
  <2>1. /\ Len(handed) <= Len(accepted)
        /\ \A i \in 1 .. Len(handed) : handed[i] = accepted[i]
    BY <1>2 DEF InOrder
  <2> QED BY <1>3, <1>5, <1>8, <2>1 DEF InOrder
<1>11. Pointers(at)'
  BY <1>2, <1>3, <1>6 DEF Pointers
<1>12. Reader(at)'
  BY <1>3, <1>4 DEF Reader
<1>13. Sampled'
  BY <1>3, NoSample DEF SizeCall
<1> QED BY <1>7, <1>9, <1>10, <1>11, <1>12, <1>13 DEF IInv, Placed

\* The limit moves to the next frame.
LEMMA FreeStep ==
  ASSUME IInv, Free
  PROVE  IInv'
<1>1. PICK at \in [Nat -> Nat] : Placed(at)
  BY DEF IInv
<1>2. /\ Typed /\ InOrder /\ Layout(at) /\ Pointers(at) /\ OneRound(at) /\ Stored(at)
      /\ Reader(at)
  BY <1>1 DEF IInv, Placed
<1>3. /\ UNCHANGED <<ring, ERXWRPT, EPKTCNT, arriving, frames, accepted>>
      /\ UNCHANGED <<NextPacketLocation, CurrentPacketLocation, WasDiscarded, handed>>
      /\ UNCHANGED <<back, header, place, saved, udp, size, ERDPT>>
      /\ pc = "erxrdpt" /\ pc' = back /\ ERXRDPT' = ReadLimit(NextPacketLocation)
  BY DEF Free, chip
<1>4. pc' \in {"getHeader"} \cup Clients /\ WasDiscarded /\ saved = <<>>
  BY <1>2, <1>3 DEF Typed, InOrder, Reader, Clients
<1>5. /\ Len(handed) \in Nat /\ Len(accepted) \in Nat /\ Len(handed) > 0
      /\ Len(handed) <= Len(accepted)
  BY <1>2, <1>3, Places DEF InOrder
<1>6. Freed = Len(handed) - 1 /\ Freed' = Len(handed)
  BY <1>3, <1>4 DEF Freed, Clients
<1>7. at[Freed + 1] <= at[Freed' + 1] /\ at[Freed + 1] \in Nat /\ at[Freed' + 1] \in Nat
  <2>1. /\ Freed + 1 \in 1 .. Len(accepted) + 1 /\ Freed' + 1 \in 1 .. Len(accepted) + 1
        /\ Freed + 1 <= Freed' + 1
    <3> DEFINE h == Len(handed)
               n == Len(accepted)
    <3>1. h \in Nat /\ n \in Nat /\ h > 0 /\ h <= n /\ Freed = h - 1 /\ Freed' = h
      BY <1>5, <1>6
    <3> HIDE DEF h, n
    <3>2. Freed + 1 \in 1 .. n + 1 /\ Freed' + 1 \in 1 .. n + 1 /\ Freed + 1 <= Freed' + 1
      BY <3>1
    <3> QED BY <3>2 DEF n
  <2> QED BY <1>2, <2>1, Places DEF Layout
<1>8. Layout(at)'
  BY <1>2, <1>3 DEF Layout
<1>9. OneRound(at)'
  <2>1. arriving.at \in Nat /\ at[Len(accepted) + 1] \in Nat /\ RXSIZE \in Nat
    BY <1>2, RoomFacts, Places, RingFacts
  <2> DEFINE a == at[Freed + 1]
             b == at[Freed' + 1]
             w == at[Len(accepted) + 1]
  <2>2. w + arriving.at < a + RXSIZE /\ a \in Nat /\ b \in Nat /\ w \in Nat /\ a <= b
    BY <1>2, <1>7, <2>1 DEF OneRound
  <2> HIDE DEF a, b, w
  <2>3. w + arriving.at < b + RXSIZE
    BY <2>1, <2>2, SMTT(20)
  <2>4. (at[Len(accepted) + 1] + arriving.at < at[Freed + 1] + RXSIZE)'
    BY <1>3, <2>3 DEF w, b
  <2> QED BY <1>2, <1>3, <2>4 DEF OneRound
<1>10. Stored(at)'
  <2>1. Freed' + 1 .. Len(accepted) \subseteq Freed + 1 .. Len(accepted)
    BY <1>5, <1>6
  <2> QED BY <1>2, <1>3, <2>1 DEF Stored, Content
<1>11. Pointers(at)'
  <2>1. ERXRDPT' = (at[Freed' + 1] - 1) % RXSIZE
    <3> DEFINE a == at[Freed' + 1]
    <3>1. a \in Int /\ NextPacketLocation = a % RXSIZE
      BY <1>2, <1>6, <1>7 DEF Pointers
    <3> HIDE DEF a
    <3> QED BY <1>3, <3>1, LimitBehind DEF a
  <2> QED BY <1>2, <1>3, <1>4, <2>1 DEF Pointers, Clients
<1>12. Typed'
  BY <1>2, <1>3, <1>4 DEF Typed, SizeCall, Clients
<1>13. InOrder'
  BY <1>2, <1>3, <1>4, <1>5 DEF InOrder, Clients
<1>14. Reader(at)'
  BY <1>3, <1>4 DEF Reader, Clients
<1>15. Sampled'
  BY <1>4, NoSample DEF SizeCall, Clients
<1> QED BY <1>8, <1>9, <1>10, <1>11, <1>12, <1>13, <1>14, <1>15 DEF IInv, Placed

-----------------------------------------------------------------------------
(* The preamble of the next frame.                                         *)

\* Before a byte of it is read, the reader is at that byte of the next frame.
LEMMA NextByte ==
  ASSUME Typed, InOrder, NEW at, Placed(at), pc = "header",
         NEW bytes, bytes = Append(header, ring[ERDPT])
  PROVE  LET i == Len(handed) + 1
         IN /\ i \in 1 .. Len(accepted) /\ Freed = Len(handed) /\ saved = <<>>
            /\ bytes \in Seq(Cell) /\ Len(bytes) \in 1 .. Preamble
            /\ \A n \in 1 .. Len(bytes) : bytes[n] = Content(at, i, n - 1)
            /\ After(ERDPT) = (at[i] + Len(bytes)) % RXSIZE
<1> DEFINE i == Len(handed) + 1
           a == at[i]
           l == Len(header)
<1>1. Layout(at) /\ Pointers(at) /\ OneRound(at) /\ Stored(at) /\ Reader(at)
  BY DEF Placed
<1>2. Len(handed) \in Nat /\ Len(accepted) \in Nat /\ Len(handed) < Len(accepted) /\ WasDiscarded
  BY <1>1, Places DEF InOrder
<1>3. i \in 1 .. Len(accepted) /\ Freed = Len(handed) /\ i \in Freed + 1 .. Len(accepted)
  BY <1>2 DEF Freed
<1>4. saved = <<>>
  BY <1>1 DEF Reader, Clients
<1>5. /\ header \in Seq(Cell) /\ l \in Nat /\ l < Preamble /\ Preamble \in Nat
      /\ ERDPT = (a + l) % RXSIZE
      /\ \A n \in 1 .. l : header[n] = Content(at, i, n - 1)
  <2>1. header \in Seq(Cell) /\ l \in Nat
    BY DEF Typed
  <2> QED BY <1>1, <2>1, RingFacts DEF Reader
<1>6. /\ a \in Nat /\ accepted[i].size \in Nat /\ Padded(accepted[i].size) \in Nat
      /\ accepted[i].size > Preamble /\ accepted[i].size <= Padded(accepted[i].size)
  BY <1>1, <1>3, FrameFacts
<1> HIDE DEF i, a, l
<1>7. a + l \in Int /\ a + l + 1 = a + (l + 1)
  BY <1>5, <1>6
<1>8. ring[ERDPT] \in Cell
  <2> DEFINE x == a + l
  <2>1. x \in Int /\ ERDPT = x % RXSIZE
    BY <1>5, <1>7
  <2> HIDE DEF x
  <2>2. ERDPT \in Addresses
    BY <2>1, AddressOf
  <2> QED BY <2>2 DEF Typed
<1>9. ring[ERDPT] = Content(at, i, l)
  <2>1. l \in 0 .. Padded(accepted[i].size) - 1
    <3> DEFINE m == accepted[i].size
               k == Padded(accepted[i].size)
    <3>1. m \in Nat /\ k \in Nat /\ m > Preamble /\ m <= k
      BY <1>6
    <3> HIDE DEF m, k
    <3>2. l \in 0 .. k - 1
      BY <3>1, <1>5
    <3> QED BY <3>2 DEF k
  <2> QED BY <1>1, <1>3, <1>5, <2>1 DEF Stored, a
<1>10. /\ bytes \in Seq(Cell) /\ Len(bytes) = l + 1
       /\ bytes[l + 1] = Content(at, i, l) /\ \A n \in 1 .. l : bytes[n] = header[n]
  BY <1>5, <1>8, <1>9 DEF l
<1>11. ASSUME NEW n \in 1 .. Len(bytes) PROVE bytes[n] = Content(at, i, n - 1)
  <2>1. CASE n = l + 1
    <3>1. n - 1 = l
      BY <2>1, <1>5
    <3> QED BY <2>1, <3>1, <1>10
  <2>2. CASE n # l + 1
    <3>1. n \in 1 .. l
      BY <2>2, <1>5, <1>10
    <3> QED BY <3>1, <1>5, <1>10
  <2> QED BY <2>1, <2>2
<1>12. After(ERDPT) = (a + (l + 1)) % RXSIZE
  <2> DEFINE x == a + l
  <2>1. x \in Int /\ ERDPT = x % RXSIZE /\ x + 1 = a + (l + 1)
    BY <1>5, <1>7
  <2> HIDE DEF x
  <2>2. ((x % RXSIZE) + 1) % RXSIZE = (x + 1) % RXSIZE
    BY <2>1, Forward
  <2> QED BY <2>1, <2>2 DEF After
<1> QED BY <1>3, <1>4, <1>5, <1>10, <1>11, <1>12 DEF i, a

\* So the validation never fails, and what is handed over is the next frame.
LEMMA ReadHeaderStep ==
  ASSUME IInv, ReadHeader
  PROVE  IInv'
<1>1. PICK at \in [Nat -> Nat] : Placed(at)
  BY DEF IInv
<1>2. /\ Typed /\ InOrder /\ Layout(at) /\ Pointers(at) /\ OneRound(at) /\ Stored(at)
      /\ Reader(at)
  BY <1>1 DEF IInv, Placed
<1> DEFINE bytes == Append(header, ring[ERDPT])
           i == Len(handed) + 1
<1>3. /\ UNCHANGED <<ring, ERXWRPT, EPKTCNT, arriving, frames, accepted>>
      /\ UNCHANGED <<CurrentPacketLocation, ERXRDPT, back, saved, udp, size>>
      /\ pc = "header" /\ ERDPT' = After(ERDPT)
      /\ IF Len(bytes) < Preamble
         THEN header' = bytes /\ UNCHANGED <<pc, place, NextPacketLocation, WasDiscarded, handed>>
         ELSE IF ~IsHeader(bytes)
         THEN pc' = "reset" /\ UNCHANGED <<header, place, NextPacketLocation, WasDiscarded, handed>>
         ELSE /\ NextPacketLocation' = bytes[1].next
              /\ WasDiscarded' = FALSE
              /\ handed' = Append(handed, [frame |-> bytes[1].frame, size |-> bytes[1].size])
              /\ pc' = "handler" /\ place' = Preamble /\ header' = <<>>
  BY DEF ReadHeader, chip
<1> HIDE DEF bytes
<1>4. /\ i \in 1 .. Len(accepted) /\ Freed = Len(handed) /\ saved = <<>>
      /\ bytes \in Seq(Cell) /\ Len(bytes) \in 1 .. Preamble
      /\ \A n \in 1 .. Len(bytes) : bytes[n] = Content(at, i, n - 1)
      /\ ERDPT' = (at[i] + Len(bytes)) % RXSIZE
  BY <1>1, <1>2, <1>3, NextByte DEF bytes
<1>5. /\ Len(handed) \in Nat /\ Len(accepted) \in Nat /\ Preamble \in Nat \ {0}
      /\ WasDiscarded /\ EPKTCNT = Len(accepted) - Len(handed)
  <2>1. Len(handed) \in Nat /\ Len(accepted) \in Nat /\ Preamble \in Nat \ {0}
    BY <1>2, Places, RingFacts
  <2>2. WasDiscarded /\ EPKTCNT = Len(accepted) - Len(handed) + 0
    BY <1>2, <1>3 DEF InOrder
  <2> QED BY <2>1, <2>2
<1> HIDE DEF i
<1>6. pc' \notin SizeCall => Sampled'
  BY NoSample
<1>7. CASE Len(bytes) < Preamble
  <2>1. header' = bytes /\ UNCHANGED <<pc, place, NextPacketLocation, WasDiscarded, handed>>
    BY <1>3, <1>7
  <2>2. Freed' = Freed
    BY <1>3, <2>1 DEF Freed
  <2>3. Layout(at)' /\ OneRound(at)' /\ Stored(at)'
    BY <1>2, <1>3, <2>1, <2>2, BufferKept
  <2>4. Typed'
    BY <1>2, <1>3, <1>4, <2>1 DEF Typed
  <2>5. InOrder'
    BY <1>2, <1>3, <2>1 DEF InOrder
  <2>6. Pointers(at)'
    BY <1>2, <1>3, <2>1, <2>2 DEF Pointers
  <2>7. Reader(at)'
    BY <1>3, <1>4, <1>5, <1>7, <2>1 DEF Reader, Content, i
  <2>8. Sampled'
    BY <1>3, <1>6, <2>1 DEF SizeCall
  <2> QED BY <2>3, <2>4, <2>5, <2>6, <2>7, <2>8 DEF IInv, Placed
<1>8. CASE ~(Len(bytes) < Preamble)
  <2>1. Len(bytes) = Preamble /\ 1 \in 1 .. Len(bytes)
    BY <1>4, <1>5, <1>8
  <2>2. /\ accepted[i] \in Frame /\ accepted[i].frame \in Nat \ {0}
        /\ accepted[i].size \in Nat /\ accepted[i].size > Preamble
    BY <1>2, <1>4, FrameFacts
  <2>3. bytes[1] = FirstByte(accepted[i].frame, at[i + 1] % RXSIZE, accepted[i].size)
    <3>1. bytes[1] = Content(at, i, 0)
      BY <1>4, <2>1
    <3> QED BY <3>1 DEF Content
  <2>4. /\ bytes[1].frame = accepted[i].frame /\ bytes[1].size = accepted[i].size
        /\ bytes[1].next = at[i + 1] % RXSIZE
    BY <2>3 DEF FirstByte
  <2>5. IsHeader(bytes)
    <3>1. ASSUME NEW n \in 1 .. Len(bytes)
          PROVE  bytes[n].frame = bytes[1].frame /\ bytes[n].at = n - 1
      <4>1. bytes[n] = Content(at, i, n - 1)
        BY <1>4
      <4>2. /\ Content(at, i, n - 1).frame = accepted[i].frame
            /\ Content(at, i, n - 1).at = n - 1
        <5> DEFINE k == n - 1
        <5> HIDE DEF k, i
        <5>1. Content(at, i, k).frame = accepted[i].frame /\ Content(at, i, k).at = k
          BY ContentFacts
        <5> QED BY <5>1 DEF k
      <4> QED BY <4>1, <4>2, <2>4
    <3> QED BY <3>1, <2>2, <2>4 DEF IsHeader
  <2>6. /\ NextPacketLocation' = at[i + 1] % RXSIZE /\ WasDiscarded' = FALSE
        /\ handed' = Append(handed, accepted[i])
        /\ pc' = "handler" /\ place' = Preamble /\ header' = <<>>
    <3>1. accepted[i] = [frame |-> accepted[i].frame, size |-> accepted[i].size]
      BY <2>2 DEF Frame
    <3> QED BY <1>3, <1>8, <2>4, <2>5, <3>1
  <2>7. /\ Len(handed') = i /\ handed'[i] = accepted[i] /\ handed' \in Seq(Frame)
        /\ \A j \in 1 .. Len(handed) : handed'[j] = handed[j]
    BY <1>2, <1>5, <2>2, <2>6 DEF Typed, i
  <2>8. Freed' = Freed
    BY <1>4, <1>5, <2>6, <2>7 DEF Freed, i
  <2>9. Layout(at)' /\ OneRound(at)' /\ Stored(at)'
    BY <1>2, <1>3, <2>8, BufferKept
  <2>10. Typed'
    <3>0. header' \in Seq(Cell)
      BY <2>6
    <3>1. pc' \in Clients /\ WasDiscarded' \in BOOLEAN
      BY <2>6 DEF Clients
    <3>2. pc' \notin {"pktdec", "erxrdpt"} /\ pc' \notin SizeCall
      BY <2>6 DEF SizeCall
    <3> QED BY <1>2, <1>3, <2>7, <3>0, <3>1, <3>2 DEF Typed
  <2>11. InOrder'
    <3>1. ASSUME NEW j \in 1 .. i PROVE handed'[j] = accepted[j]
      <4>1. j = i \/ j \in 1 .. Len(handed)
        <5> DEFINE h == Len(handed)
        <5>1. h \in Nat /\ i = h + 1
          BY <1>5 DEF i
        <5> HIDE DEF h
        <5> QED BY <5>1 DEF h
      <4> QED BY <1>2, <2>7, <4>1 DEF InOrder
    <3>2. EPKTCNT' = Len(accepted') - Len(handed') + 1
      BY <1>3, <1>5, <2>7 DEF i
    <3>3. Len(handed') <= Len(accepted') /\ Len(handed') > 0
      BY <1>3, <1>4, <1>5, <2>7 DEF i
    <3> QED BY <1>3, <2>6, <2>7, <3>1, <3>2, <3>3 DEF InOrder
  <2>12. Pointers(at)'
    <3>1. CurrentPacketLocation' = at[Len(handed')] % RXSIZE
      BY <1>2, <1>3, <2>7 DEF Pointers, i
    <3> QED BY <1>2, <1>3, <2>6, <2>7, <2>8, <3>1 DEF Pointers
  <2>13. Reader(at)'
    <3> DEFINE m == accepted[i].size
    <3>0. m \in Nat /\ m > Preamble
      BY <2>2
    <3> HIDE DEF m
    <3>1. Preamble \in 0 .. m
      BY <1>5, <3>0
    <3>2. ERDPT' = (at[i] + place') % RXSIZE
      BY <1>4, <2>1, <2>6
    <3>3. Current' = accepted[i]
      BY <2>7 DEF Current
    <3>4. Lies(at, place, ERDPT)'
      BY <2>6, <2>7, <3>1, <3>2, <3>3 DEF Lies, m
    <3> QED BY <1>3, <1>4, <2>6, <3>4 DEF Reader
  <2>14. Sampled'
    BY <1>6, <2>6 DEF SizeCall
  <2> QED BY <2>9, <2>10, <2>11, <2>12, <2>13, <2>14 DEF IInv, Placed
<1> QED BY <1>7, <1>8

-----------------------------------------------------------------------------
(* The controller.                                                         *)

\* The first byte that is protected, and the next to be written.
LEMMA Ends ==
  ASSUME Typed, InOrder, NEW at, Layout(at)
  PROVE  /\ at[Freed + 1] \in Nat /\ at[Len(accepted) + 1] \in Nat
         /\ at[Freed + 1] <= at[Len(accepted) + 1]
         /\ arriving.at \in Nat /\ RXSIZE \in Nat \ {0}
<1>1. /\ Freed + 1 \in 1 .. Len(accepted) + 1 /\ Len(accepted) + 1 \in 1 .. Len(accepted) + 1
      /\ Freed + 1 <= Len(accepted) + 1
  <2>1. Len(accepted) \in Nat /\ Freed + 1 \in 1 .. Len(accepted) + 1
    BY Places
  <2> QED BY <2>1
<1>2. arriving.at \in Nat
  BY DEF Typed, NoFrame
<1> QED BY <1>1, <1>2, Places, RingFacts DEF Layout

\* What it writes lies behind every frame that is not freed, and not a round
\* behind the first of them.
LEMMA Untouched ==
  ASSUME Typed, InOrder, NEW at, Layout(at), NEW x \in Int,
         at[Len(accepted) + 1] <= x, x < at[Freed + 1] + RXSIZE,
         NEW i \in Freed + 1 .. Len(accepted),
         NEW n \in 0 .. Padded(accepted[i].size) - 1
  PROVE  (at[i] + n) % RXSIZE # x % RXSIZE
<1> DEFINE a == at[Freed + 1]
           w == at[Len(accepted) + 1]
           y == at[i] + n
           p == at[i]
           k == Padded(accepted[i].size)
<1>1. i \in 1 .. Len(accepted) /\ i > Freed
  <2>1. Freed \in Nat /\ Len(accepted) \in Nat
    BY Places
  <2> QED BY <2>1
<1>2. /\ p \in Nat /\ k \in Nat /\ at[i + 1] = p + k /\ p + k <= w /\ a <= p
  BY <1>1, FrameFacts
<1>3. a \in Nat /\ w \in Nat /\ RXSIZE \in Nat
  BY Places, RingFacts
<1>4. y = p + n /\ n \in 0 .. k - 1 /\ w <= x /\ x < a + RXSIZE
  OBVIOUS
<1> HIDE DEF a, w, y, p, k
<1>5. y \in Int /\ y < x /\ x < y + RXSIZE
  BY <1>2, <1>3, <1>4
<1>6. y % RXSIZE # x % RXSIZE
  BY <1>5, Apart
<1> QED BY <1>6 DEF y

\* The next byte of a frame that has not met the limit has room.
LEMMA NotAtLimit ==
  ASSUME NEW a \in Int, NEW x \in Int, x < a + RXSIZE,
         x % RXSIZE # (a - 1) % RXSIZE
  PROVE  x + 1 < a + RXSIZE
<1>1. RXSIZE \in Nat \ {0}
  BY RingFacts
<1> SUFFICES ASSUME x = a - 1 + RXSIZE PROVE FALSE
  BY <1>1
<1> DEFINE b == a - 1
<1>2. b \in Int /\ x = RXSIZE + b
  BY <1>1
<1> HIDE DEF b
<1>3. RXSIZE \in RXSIZE .. 2 * RXSIZE - 1 /\ RXSIZE \in Int /\ RXSIZE - RXSIZE = 0
  BY <1>1
<1>4. RXSIZE % RXSIZE = 0
  BY <1>1, <1>3, InRange
<1>5. (0 + b) % RXSIZE = (RXSIZE + b) % RXSIZE
  BY <1>1, <1>2, <1>3, <1>4, Forward
<1>6. 0 + b = b
  BY <1>2
<1> QED BY <1>2, <1>5, <1>6 DEF b

\* A frame begins to arrive, or the rest of it is dropped.
LEMMA NothingArrived ==
  ASSUME IInv, UNCHANGED <<ring, ERXWRPT, EPKTCNT, accepted, driver, task>>,
         frames' \in Nat,
         arriving' = NoFrame \/ arriving' \in [frame : Nat \ {0}, size : Sizes, at : {0}]
  PROVE  IInv'
<1>1. PICK at \in [Nat -> Nat] : Placed(at)
  BY DEF IInv
<1>2. /\ Typed /\ InOrder /\ Layout(at) /\ Pointers(at) /\ OneRound(at) /\ Stored(at)
      /\ Reader(at) /\ Sampled
  BY <1>1 DEF IInv, Placed
<1>3. /\ UNCHANGED <<NextPacketLocation, CurrentPacketLocation, WasDiscarded>>
      /\ UNCHANGED <<ERXRDPT, handed, pc, back, header, place, saved, udp, size, ERDPT>>
      /\ UNCHANGED <<ring, ERXWRPT, EPKTCNT, accepted>>
  BY DEF driver, task
<1>4. Freed' = Freed
  BY <1>3 DEF Freed
<1>5. /\ arriving'.at = 0 /\ 0 <= Padded(arriving'.size)
      /\ arriving' = NoFrame \/ arriving' \in [frame : Nat \ {0}, size : Sizes, at : Nat]
  <2>1. CASE arriving' = NoFrame
    BY <2>1 DEF NoFrame, Padded
  <2>2. CASE arriving' \in [frame : Nat \ {0}, size : Sizes, at : {0}]
    <3>1. arriving'.size \in Sizes /\ arriving'.at = 0
      BY <2>2
    <3>2. Padded(arriving'.size) \in Nat
      BY <3>1, PaddedFacts
    <3>3. arriving' \in [frame : Nat \ {0}, size : Sizes, at : Nat]
      BY <2>2
    <3> QED BY <3>1, <3>2, <3>3
  <2> QED BY <2>1, <2>2
<1>6. OneRound(at)'
  <2> DEFINE a == at[Freed + 1]
             w == at[Len(accepted) + 1]
  <2>1. a \in Nat /\ w \in Nat /\ RXSIZE \in Nat /\ arriving.at \in Nat
    BY <1>2, Ends
  <2>2. w + arriving.at < a + RXSIZE
    BY <1>2 DEF OneRound
  <2> HIDE DEF a, w
  <2>3. w + 0 < a + RXSIZE
    BY <2>1, <2>2
  <2>4. (at[Len(accepted) + 1] + arriving.at < at[Freed + 1] + RXSIZE)'
    BY <1>3, <1>4, <1>5, <2>3 DEF w, a
  <2> QED BY <1>5, <2>4 DEF OneRound
<1>7. Stored(at)'
  <2>1. 0 .. arriving'.at - 1 = {}
    BY <1>5
  <2> QED BY <1>2, <1>3, <1>4, <2>1, ZenonT(30) DEF Stored, Content
<1>8. Layout(at)' /\ Pointers(at)' /\ Reader(at)'
  BY <1>2, <1>3, <1>4 DEF Layout, Pointers, Reader, Lies, Current, Content
<1>9. Typed'
  BY <1>2, <1>3, <1>5 DEF Typed
<1>10. InOrder'
  BY <1>2, <1>3 DEF InOrder
<1>11. Sampled'
  BY <1>2, <1>3 DEF Sampled, Room
<1> QED BY <1>6, <1>7, <1>8, <1>9, <1>10, <1>11 DEF IInv, Placed

LEMMA ArriveStep ==
  ASSUME IInv, (\E n \in Sizes : Arrive(n)) \/ Drop
  PROVE  IInv'
<1>1. frames \in Nat
  BY DEF IInv, Typed
<1>2. ASSUME NEW n \in Sizes, Arrive(n) PROVE IInv'
  <2>1. /\ UNCHANGED <<ring, ERXWRPT, EPKTCNT, accepted, driver, task>>
        /\ frames' = frames + 1
        /\ arriving' = [frame |-> frames + 1, size |-> n, at |-> 0]
    BY <1>2 DEF Arrive
  <2>2. frames + 1 \in Nat \ {0} /\ frames' \in Nat
    BY <1>1, <2>1
  <2>3. arriving' \in [frame : Nat \ {0}, size : Sizes, at : {0}]
    BY <2>1, <2>2
  <2> QED BY <2>1, <2>2, <2>3, NothingArrived
<1>3. ASSUME Drop PROVE IInv'
  BY <1>1, <1>3, NothingArrived DEF Drop
<1> QED BY <1>2, <1>3

LEMMA WriteByteStep ==
  ASSUME IInv, WriteByte
  PROVE  IInv'
<1>1. PICK at \in [Nat -> Nat] : Placed(at)
  BY DEF IInv
<1>2. /\ Typed /\ InOrder /\ Layout(at) /\ Pointers(at) /\ OneRound(at) /\ Stored(at)
      /\ Reader(at) /\ Sampled
  BY <1>1 DEF IInv, Placed
<1> DEFINE a == at[Freed + 1]
           w == at[Len(accepted) + 1]
           k == arriving.at
           x == w + k
<1>3. /\ UNCHANGED <<NextPacketLocation, CurrentPacketLocation, WasDiscarded>>
      /\ UNCHANGED <<ERXRDPT, handed, pc, back, header, place, saved, udp, size, ERDPT>>
      /\ UNCHANGED <<ERXWRPT, EPKTCNT, frames, accepted>>
      /\ arriving # NoFrame /\ k < Padded(arriving.size)
  BY DEF WriteByte, driver, task
<1>4. CASE WriteAddress = ERXRDPT
  BY <1>2, <1>4, NothingArrived DEF WriteByte, Typed
<1>5. CASE WriteAddress # ERXRDPT
  <2>1. /\ a \in Nat /\ w \in Nat /\ k \in Nat /\ RXSIZE \in Nat \ {0} /\ a <= w
        /\ x \in Int /\ w <= x /\ x < a + RXSIZE
    <3>1. a \in Nat /\ w \in Nat /\ k \in Nat /\ RXSIZE \in Nat \ {0} /\ a <= w
      BY <1>2, Ends
    <3>2. x < a + RXSIZE
      BY <1>2 DEF OneRound
    <3> HIDE DEF a, w, k
    <3> QED BY <3>1, <3>2
  <2>2. /\ ring' = [ring EXCEPT ![WriteAddress] = Byte(arriving.frame, k)]
        /\ arriving' = [arriving EXCEPT !.at = k + 1]
    BY <1>5 DEF WriteByte
  <2>3. arriving \in [frame : Nat \ {0}, size : Sizes, at : Nat]
    BY <1>2, <1>3 DEF Typed
  <2>4. /\ arriving' \in [frame : Nat \ {0}, size : Sizes, at : Nat]
        /\ arriving'.frame = arriving.frame /\ arriving'.size = arriving.size
        /\ arriving'.at = k + 1
    <3>1. k \in Nat
      BY <2>1
    <3> QED BY <2>2, <2>3, <3>1
  <2>5. WriteAddress = x % RXSIZE /\ x % RXSIZE \in Addresses
    <3>1. WriteAddress = ((w % RXSIZE) + k) % RXSIZE
      BY <1>2 DEF WriteAddress, Pointers
    <3> HIDE DEF w, k, x
    <3>2. w \in Int /\ k \in Int
      BY <2>1
    <3>3. x \in Int
      BY <2>1
    <3>4. WriteAddress = x % RXSIZE
      BY <3>1, <3>2, Forward DEF x
    <3> QED BY <3>3, <3>4, AddressOf
  <2>6. ring' = [ring EXCEPT ![x % RXSIZE] = Byte(arriving.frame, k)]
    BY <2>2, <2>5
  <2>7. ERXRDPT = (a - 1) % RXSIZE
    BY <1>2 DEF Pointers
  <2>8. Freed' = Freed
    BY <1>3 DEF Freed
  <2>9. OneRound(at)'
    <3>1. x + 1 < a + RXSIZE
      <4> HIDE DEF a, x
      <4>1. a \in Int /\ x \in Int /\ x < a + RXSIZE /\ x % RXSIZE # (a - 1) % RXSIZE
        BY <1>5, <2>1, <2>5, <2>7
      <4> QED BY <4>1, NotAtLimit
    <3>2. w + (k + 1) < a + RXSIZE /\ k + 1 <= Padded(arriving.size)
      <4>1. Padded(arriving.size) \in Nat /\ k < Padded(arriving.size)
        BY <1>3, <2>3, PaddedFacts
      <4> DEFINE m == Padded(arriving.size)
      <4>2. m \in Nat /\ k < m /\ x = w + k
        BY <4>1
      <4> HIDE DEF a, w, k, x, m
      <4>3. w + (k + 1) < a + RXSIZE /\ k + 1 <= m
        BY <2>1, <3>1, <4>2
      <4> QED BY <4>3 DEF m
    <3>3. (at[Len(accepted) + 1] + arriving.at < at[Freed + 1] + RXSIZE)'
      BY <1>3, <2>4, <2>8, <3>2
    <3> QED BY <2>4, <3>2, <3>3 DEF OneRound
  <2>10. ring \in [Addresses -> Cell]
    BY <1>2 DEF Typed
  <2> HIDE DEF a, w, k, x
  <2>11. ASSUME NEW i \in Freed + 1 .. Len(accepted),
                NEW n \in 0 .. Padded(accepted[i].size) - 1
         PROVE  ring'[(at[i] + n) % RXSIZE] = Content(at, i, n)
    <3>1. (at[i] + n) % RXSIZE # x % RXSIZE
      BY <1>2, <2>1, Untouched DEF a, w
    <3>2. (at[i] + n) % RXSIZE \in Addresses
      <4>1. i \in 1 .. Len(accepted) /\ Padded(accepted[i].size) \in Nat /\ at[i] \in Nat
        <5>1. Freed \in Nat /\ Len(accepted) \in Nat
          BY <1>2, Places
        <5>2. i \in 1 .. Len(accepted)
          BY <5>1
        <5> QED BY <1>2, <5>2, FrameFacts
      <4> DEFINE y == at[i] + n
      <4>2. y \in Int
        BY <4>1
      <4> HIDE DEF y
      <4>3. y % RXSIZE \in Addresses
        BY <4>2, AddressOf
      <4> QED BY <4>3 DEF y
    <3>3. ring[(at[i] + n) % RXSIZE] = Content(at, i, n)
      BY <1>2 DEF Stored
    <3> QED BY <2>6, <2>10, <3>1, <3>2, <3>3
  <2>12. ASSUME NEW n \in 0 .. k
         PROVE  ring'[(w + n) % RXSIZE] = Byte(arriving.frame, n)
    <3> DEFINE y == w + n
    <3>1. y \in Int /\ n \in Nat
      BY <2>1
    <3>2. CASE n = k
      BY <2>5, <2>6, <2>10, <3>2 DEF x
    <3>3. CASE n # k
      <4>1. y < x /\ x < y + RXSIZE /\ n \in 0 .. k - 1
        BY <2>1, <3>3 DEF x
      <4>2. ring[y % RXSIZE] = Byte(arriving.frame, n)
        BY <1>2, <4>1 DEF Stored, w, k
      <4> HIDE DEF y
      <4>3. y % RXSIZE # x % RXSIZE /\ y % RXSIZE \in Addresses
        BY <2>1, <3>1, <4>1, Apart, AddressOf
      <4>4. ring'[y % RXSIZE] = Byte(arriving.frame, n)
        BY <2>6, <2>10, <4>2, <4>3
      <4> QED BY <4>4 DEF y
    <3> QED BY <3>2, <3>3
  <2>13. Stored(at)'
    <3>1. 0 .. arriving'.at - 1 = 0 .. k
      BY <2>1, <2>4
    <3>2. ASSUME NEW i \in (Freed + 1 .. Len(accepted))',
                 NEW n \in 0 .. Padded(accepted'[i].size) - 1
          PROVE  ring'[(at[i] + n) % RXSIZE] = Content(at, i, n)'
      BY <1>3, <2>8, <2>11 DEF Content
    <3>3. ASSUME NEW n \in 0 .. arriving'.at - 1
          PROVE  ring'[(at[Len(accepted') + 1] + n) % RXSIZE] = Byte(arriving'.frame, n)
      BY <1>3, <2>4, <2>12, <3>1 DEF w
    <3> QED BY <3>2, <3>3 DEF Stored
  <2>14. Layout(at)' /\ Pointers(at)' /\ Reader(at)'
    BY <1>2, <1>3, <2>8 DEF Layout, Pointers, Reader, Lies, Current, Content
  <2>15. Typed'
    <3>1. Byte(arriving.frame, k) \in Cell
      <4>1. arriving.frame \in Nat /\ k \in Nat
        BY <2>1, <2>3
      <4> QED BY <4>1 DEF Byte, FirstByte, Cell
    <3>2. ring' \in [Addresses -> Cell]
      BY <2>5, <2>6, <2>10, <3>1
    <3> QED BY <1>2, <1>3, <2>4, <3>2 DEF Typed
  <2>16. InOrder'
    BY <1>2, <1>3 DEF InOrder
  <2>17. Sampled'
    BY <1>2, <1>3 DEF Sampled, Room
  <2> QED BY <2>9, <2>13, <2>14, <2>15, <2>16, <2>17 DEF IInv, Placed
<1> QED BY <1>4, <1>5

\* A frame is counted, and its place ends where the next one will begin.
LEMMA AcceptStep ==
  ASSUME IInv, Accept
  PROVE  IInv'
<1>1. PICK at \in [Nat -> Nat] : Placed(at)
  BY DEF IInv
<1>2. /\ Typed /\ InOrder /\ Layout(at) /\ Pointers(at) /\ OneRound(at) /\ Stored(at)
      /\ Reader(at) /\ Sampled
  BY <1>1 DEF IInv, Placed
<1> DEFINE l == Len(accepted)
           h == Len(handed)
           a == at[Freed + 1]
           w == at[l + 1]
           k == arriving.at
           v == w + k
           last == [frame |-> arriving.frame, size |-> arriving.size]
<1>3. /\ UNCHANGED <<NextPacketLocation, CurrentPacketLocation, WasDiscarded>>
      /\ UNCHANGED <<ERXRDPT, handed, pc, back, header, place, saved, udp, size, ERDPT, frames>>
      /\ arriving # NoFrame /\ k = Padded(arriving.size) /\ arriving' = NoFrame
      /\ EPKTCNT' = EPKTCNT + 1 /\ accepted' = Append(accepted, last)
      /\ ERXWRPT' = (ERXWRPT + k) % RXSIZE
      /\ ring' = [ring EXCEPT ![ERXWRPT] =
                    FirstByte(arriving.frame, (ERXWRPT + k) % RXSIZE, arriving.size)]
  BY DEF Accept, driver, task
<1>4. /\ arriving \in [frame : Nat \ {0}, size : Sizes, at : Nat]
      /\ arriving.size \in Sizes /\ arriving.size \in Nat /\ arriving.frame \in Nat \ {0}
      /\ k % 2 = 0 /\ last \in Frame
  <2>1. arriving \in [frame : Nat \ {0}, size : Sizes, at : Nat]
    BY <1>2, <1>3 DEF Typed
  <2> QED BY <1>3, <2>1, PaddedFacts DEF Frame
<1>5. /\ a \in Nat /\ w \in Nat /\ k \in Nat /\ RXSIZE \in Nat \ {0} /\ a <= w
      /\ v \in Nat /\ w <= v /\ v < a + RXSIZE
  <2>1. a \in Nat /\ w \in Nat /\ k \in Nat /\ RXSIZE \in Nat \ {0} /\ a <= w
    BY <1>2, Ends
  <2>2. v < a + RXSIZE
    BY <1>2 DEF OneRound
  <2> HIDE DEF a, w, k
  <2> QED BY <2>1, <2>2
<1>6. /\ l \in Nat /\ h \in 0 .. l /\ Freed \in 0 .. h /\ Freed >= h - 1
  BY <1>2, Places DEF InOrder
<1>7. /\ accepted' \in Seq(Frame) /\ Len(accepted') = l + 1 /\ accepted'[l + 1] = last
      /\ \A i \in 1 .. l : accepted'[i] = accepted[i]
  BY <1>2, <1>3, <1>4 DEF Typed
<1>8. Freed' = Freed
  BY <1>3 DEF Freed
<1>9. ERXWRPT = w % RXSIZE /\ ERXWRPT \in Addresses
  <2>1. ERXWRPT = w % RXSIZE
    BY <1>2 DEF Pointers
  <2> HIDE DEF w
  <2> QED BY <1>5, <2>1, AddressOf
<1>10. ERXWRPT' = v % RXSIZE
  <2> HIDE DEF w, k
  <2>1. w \in Int /\ k \in Int
    BY <1>5
  <2>2. ((w % RXSIZE) + k) % RXSIZE = (w + k) % RXSIZE
    BY <2>1, Forward
  <2> QED BY <1>3, <1>9, <2>2
<1>11. ring' = [ring EXCEPT ![w % RXSIZE] =
                  FirstByte(arriving.frame, v % RXSIZE, arriving.size)]
  BY <1>3, <1>9, <1>10
<1>12. last.frame = arriving.frame /\ last.size = arriving.size
  OBVIOUS
<1>13. /\ \A i \in 1 .. l + 1 : at[i] \in Nat /\ at[i] % 2 = 0 /\ at[i] <= w
       /\ \A i \in 1 .. l : at[i + 1] = at[i] + Padded(accepted[i].size)
       /\ \A i, j \in 1 .. l + 1 : i <= j => at[i] <= at[j]
  <2>1. l + 1 \in 1 .. l + 1 /\ \A i \in 1 .. l + 1 : i <= l + 1
    BY <1>6
  <2> QED BY <1>2, <1>6, <2>1, Places DEF Layout
<1>14. ring \in [Addresses -> Cell]
  BY <1>2 DEF Typed
<1> HIDE DEF a, w, k, v, l, h, last
<1>15. w % 2 = 0
  <2>1. l + 1 \in 1 .. l + 1
    BY <1>6
  <2> QED BY <1>13, <2>1 DEF w
<1>16. PICK to \in [Nat -> Nat] : to[l + 2] = v /\ \A i \in 1 .. l + 1 : to[i] = at[i]
  <2> DEFINE f == [at EXCEPT ![l + 2] = v]
  <2>1. l + 2 \in Nat /\ \A i \in 1 .. l + 1 : i \in Nat /\ i # l + 2
    BY <1>6
  <2>2. f \in [Nat -> Nat] /\ f[l + 2] = v /\ \A i \in 1 .. l + 1 : f[i] = at[i]
    BY <1>5, <2>1
  <2> QED BY <2>2
<1>17. /\ Freed + 1 \in 1 .. l + 1 /\ h + 1 \in 1 .. l + 1 /\ l + 1 \in 1 .. l + 1
       /\ to[Freed + 1] = a /\ to[l + 1] = w /\ to[h + 1] = at[h + 1]
       /\ h # 0 => to[h] = at[h]
  <2>1. /\ Freed + 1 \in 1 .. l + 1 /\ h + 1 \in 1 .. l + 1 /\ l + 1 \in 1 .. l + 1
        /\ h # 0 => h \in 1 .. l + 1
    BY <1>6
  <2> QED BY <1>16, <2>1 DEF a, w
<1>18. Layout(to)'
  <2>1. ASSUME NEW i \in 1 .. l + 2 PROVE to[i] \in Nat /\ to[i] % 2 = 0
    <3>1. CASE i = l + 2
      <4>1. v % 2 = 0
        <5>1. v = w + k /\ w % 2 = 0 /\ k % 2 = 0 /\ w \in Nat /\ k \in Nat
          BY <1>4, <1>5, <1>15 DEF v
        <5> QED BY <5>1
      <4> QED BY <1>5, <1>16, <3>1, <4>1
    <3>2. CASE i # l + 2
      <4>1. i \in 1 .. l + 1
        BY <1>6, <3>2
      <4> QED BY <1>13, <1>16, <4>1
    <3> QED BY <3>1, <3>2
  <2>2. ASSUME NEW i \in 1 .. l + 1 PROVE to[i + 1] = to[i] + Padded(accepted'[i].size)
    <3>1. CASE i = l + 1
      <4>1. to[i + 1] = v /\ to[i] = w
        <5>1. i + 1 = l + 2
          BY <1>6, <3>1
        <5> QED BY <1>16, <1>17, <3>1, <5>1
      <4>2. Padded(accepted'[i].size) = k
        BY <1>3, <1>7, <1>12, <3>1
      <4> QED BY <4>1, <4>2 DEF v
    <3>2. CASE i # l + 1
      <4>1. i \in 1 .. l /\ i + 1 \in 1 .. l + 1
        BY <1>6, <3>2
      <4> QED BY <1>7, <1>13, <1>16, <4>1
    <3> QED BY <3>1, <3>2
  <2>3. ASSUME NEW i \in 1 .. l + 2, NEW j \in 1 .. l + 2, i <= j PROVE to[i] <= to[j]
    <3>1. CASE j = l + 2 /\ i # l + 2
      <4>1. i \in 1 .. l + 1
        BY <1>6, <3>1
      <4>2. at[i] \in Nat /\ at[i] <= w /\ to[i] = at[i] /\ to[j] = v
        BY <1>13, <1>16, <3>1, <4>1
      <4> QED BY <1>5, <4>2
    <3>2. CASE j = l + 2 /\ i = l + 2
      BY <1>5, <1>16, <3>2
    <3>3. CASE j # l + 2
      <4>1. i \in 1 .. l + 1 /\ j \in 1 .. l + 1
        BY <1>6, <2>3, <3>3
      <4> QED BY <1>13, <1>16, <2>3, <4>1
    <3> QED BY <3>1, <3>2, <3>3
  <2>4. Len(accepted') + 1 = l + 2 /\ Len(accepted') = l + 1
    BY <1>6, <1>7
  <2> QED BY <1>16, <2>1, <2>2, <2>3, <2>4 DEF Layout
<1>19. Pointers(to)'
  <2>1. ERXWRPT' = to[Len(accepted') + 1] % RXSIZE
    <3>1. Len(accepted') + 1 = l + 2
      BY <1>6, <1>7
    <3> QED BY <1>10, <1>16, <3>1
  <2>2. ERXRDPT' = (to[Freed' + 1] - 1) % RXSIZE
    BY <1>2, <1>3, <1>8, <1>17 DEF Pointers, a
  <2>3. /\ NextPacketLocation = at[h + 1] % RXSIZE
        /\ ~WasDiscarded => CurrentPacketLocation = at[h] % RXSIZE
        /\ pc = "header" => CurrentPacketLocation = at[h + 1] % RXSIZE
    BY <1>2 DEF Pointers, h
  <2>4. ~WasDiscarded => h # 0
    BY <1>2, <1>6 DEF InOrder, h
  <2> QED BY <1>3, <1>17, <2>1, <2>2, <2>3, <2>4 DEF Pointers, h
<1>20. OneRound(to)'
  <2>1. Len(accepted') + 1 = l + 2
    BY <1>6, <1>7
  <2>2. arriving'.at = 0 /\ 0 <= Padded(arriving'.size)
    BY <1>3 DEF NoFrame, Padded
  <2>3. v + 0 < a + RXSIZE
    BY <1>5
  <2>4. (to[Len(accepted) + 1] + arriving.at < to[Freed + 1] + RXSIZE)'
    BY <1>8, <1>16, <1>17, <2>1, <2>2, <2>3
  <2> QED BY <2>2, <2>4 DEF OneRound
<1>21. ASSUME NEW i \in Freed + 1 .. l, NEW n
       PROVE  i \in 1 .. l /\ to[i] = at[i] /\ Content(to, i, n)' = Content(at, i, n)
  <2>1. i \in 1 .. l /\ i \in 1 .. l + 1 /\ i + 1 \in 1 .. l + 1
    BY <1>6
  <2>2. to[i] = at[i] /\ to[i + 1] = at[i + 1] /\ accepted'[i] = accepted[i]
    BY <1>7, <1>16, <2>1
  <2> QED BY <2>1, <2>2 DEF Content
<1>22. Stored(to)'
  <2>1. ASSUME NEW i \in Freed + 1 .. l, NEW n \in 0 .. Padded(accepted[i].size) - 1
        PROVE  ring'[(at[i] + n) % RXSIZE] = Content(at, i, n)
    <3>1. (at[i] + n) % RXSIZE # w % RXSIZE
      <4>1. w \in Int /\ w <= w /\ w < a + RXSIZE
        BY <1>5
      <4> QED BY <1>2, <4>1, Untouched DEF a, w, l
    <3>2. (at[i] + n) % RXSIZE \in Addresses
      <4>1. Padded(accepted[i].size) \in Nat /\ at[i] \in Nat
        BY <1>2, <1>21, FrameFacts DEF l
      <4> DEFINE y == at[i] + n
      <4>2. y \in Int
        BY <4>1
      <4> HIDE DEF y
      <4>3. y % RXSIZE \in Addresses
        BY <4>2, AddressOf
      <4> QED BY <4>3 DEF y
    <3>3. ring[(at[i] + n) % RXSIZE] = Content(at, i, n)
      BY <1>2 DEF Stored, l
    <3> QED BY <1>11, <1>14, <3>1, <3>2, <3>3
  <2>2. ASSUME NEW i, i = l + 1, NEW n \in 0 .. k - 1
        PROVE  ring'[(w + n) % RXSIZE] = Content(to, i, n)'
    <3>0. accepted'[i] = last /\ to[i + 1] = v
      <4>1. i + 1 = l + 2
        BY <1>6, <2>2
      <4> QED BY <1>7, <1>16, <2>2, <4>1
    <3> DEFINE y == w + n
    <3>1. y \in Int /\ n \in Nat
      BY <1>5
    <3>2. CASE n = 0
      <4>1. w + n = w
        BY <1>5, <3>2
      <4>2. ring'[w % RXSIZE] = FirstByte(arriving.frame, v % RXSIZE, arriving.size)
        BY <1>9, <1>11, <1>14
      <4>3. Content(to, i, n)' = FirstByte(last.frame, v % RXSIZE, last.size)
        BY <3>0, <3>2 DEF Content
      <4> QED BY <1>12, <4>1, <4>2, <4>3
    <3>3. CASE n # 0
      <4>1. w < y /\ y < w + RXSIZE /\ w \in Int
        BY <1>5, <3>1, <3>3 DEF v
      <4>2. ring[y % RXSIZE] = Byte(arriving.frame, n)
        BY <1>2 DEF Stored, w, k, l
      <4> HIDE DEF y
      <4>3. y % RXSIZE # w % RXSIZE /\ y % RXSIZE \in Addresses
        BY <3>1, <4>1, Apart, AddressOf
      <4>4. ring'[y % RXSIZE] = Byte(arriving.frame, n)
        BY <1>11, <1>14, <4>2, <4>3
      <4>5. Content(to, i, n)' = Byte(arriving.frame, n)
        BY <1>12, <3>0, <3>3 DEF Content
      <4> QED BY <4>4, <4>5 DEF y
    <3> QED BY <3>2, <3>3
  <2>3. ASSUME NEW i \in Freed + 1 .. l + 1, NEW n \in 0 .. Padded(accepted'[i].size) - 1
        PROVE  ring'[(to[i] + n) % RXSIZE] = Content(to, i, n)'
    <3>1. CASE i = l + 1
      <4>1. Padded(accepted'[i].size) = k
        BY <1>3, <1>7, <1>12, <3>1
      <4>2. n \in 0 .. k - 1 /\ to[i] = w
        BY <1>17, <3>1, <4>1
      <4> QED BY <2>2, <3>1, <4>2
    <3>2. CASE i # l + 1
      <4>1. i \in Freed + 1 .. l
        BY <1>6, <3>2
      <4>2. i \in 1 .. l /\ to[i] = at[i] /\ Content(to, i, n)' = Content(at, i, n)
        BY <4>1, <1>21
      <4>3. n \in 0 .. Padded(accepted[i].size) - 1
        BY <1>7, <4>2
      <4> QED BY <2>1, <4>1, <4>2, <4>3
    <3> QED BY <3>1, <3>2
  <2>4. arriving'.at = 0 /\ 0 .. arriving'.at - 1 = {}
    BY <1>3 DEF NoFrame
  <2> QED BY <1>7, <1>8, <2>3, <2>4 DEF Stored
<1>23. Reader(to)'
  <2>1. Reader(at) /\ (~WasDiscarded => h # 0)
    BY <1>2, <1>6 DEF InOrder, h
  <2>2. ASSUME pc = "header" PROVE h + 1 \in Freed + 1 .. l
    <3>1. h < l
      BY <1>2, <2>2 DEF InOrder, h, l
    <3> QED BY <1>6, <3>1
  <2>3. ASSUME NEW n, NEW x, ~WasDiscarded, Lies(at, n, x) PROVE Lies(to, n, x)'
    BY <1>3, <1>17, <2>1, <2>3 DEF Lies, Current, h
  <2>4. ASSUME pc = "header", NEW i, i = h + 1
        PROVE  /\ Len(header) < Preamble
               /\ ERDPT = (to[i] + Len(header)) % RXSIZE
               /\ \A n \in 1 .. Len(header) : header[n] = Content(to, i, n - 1)'
    <3>1. i \in Freed + 1 .. l
      BY <2>2, <2>4
    <3>2. /\ Len(header) < Preamble /\ ERDPT = (at[i] + Len(header)) % RXSIZE
          /\ \A n \in 1 .. Len(header) : header[n] = Content(at, i, n - 1)
      BY <2>1, <2>4 DEF Reader, h
    <3>3. \A n : Content(to, i, n)' = Content(at, i, n)
      BY <1>21, <3>1
    <3>4. to[i] = at[i]
      BY <1>21, <3>1
    <3> QED BY <3>2, <3>3, <3>4
  <2>5. saved # <<>> => ~WasDiscarded
    BY <2>1 DEF Reader
  <2>6. ~WasDiscarded /\ place # None => Lies(to, place, ERDPT)'
    BY <1>3, <2>1, <2>3 DEF Reader
  <2>7. saved # <<>> => Lies(to, saved[2], saved[1])'
    BY <1>3, <2>1, <2>3 DEF Reader
  <2> QED BY <1>3, <2>1, <2>4, <2>6, <2>7 DEF Reader, h
<1>24. Room = a - 1 + RXSIZE - w /\ Room' = a - 1 + RXSIZE - v
  <2>1. /\ a \in Int /\ w \in Int /\ v \in Int /\ a <= w /\ a <= v
        /\ w < a + RXSIZE /\ v < a + RXSIZE
    BY <1>5
  <2>2. ERXRDPT = (a - 1) % RXSIZE
    BY <1>2 DEF Pointers, a
  <2>3. (((a - 1) % RXSIZE) - (w % RXSIZE)) % RXSIZE = a - 1 + RXSIZE - w
    BY <2>1, RoomBetween
  <2>4. (((a - 1) % RXSIZE) - (v % RXSIZE)) % RXSIZE = a - 1 + RXSIZE - v
    BY <2>1, RoomBetween
  <2> QED BY <1>3, <1>9, <1>10, <2>2, <2>3, <2>4 DEF Room
<1>25. Room' <= Room /\ Room \in Int /\ Room' \in Int
  BY <1>5, <1>24
<1>26. EPKTCNT \in Nat /\ size.count \in Nat /\ size.most \in Int /\ size.value \in Int
  BY <1>2 DEF Typed
<1>27. Sampled'
  <2>0. pc' = pc /\ size' = size /\ EPKTCNT' = EPKTCNT + 1
    BY <1>3
  <2>1. ASSUME pc \in SizeCall PROVE Room' <= size.most
    <3>1. Room <= size.most
      BY <1>2, <2>1 DEF Sampled
    <3> QED BY <1>25, <1>26, <3>1
  <2>2. ASSUME pc \in {"low", "high", "again"}
        PROVE  size.count <= EPKTCNT + 1 /\ size.count # EPKTCNT + 1
    <3>1. size.count <= EPKTCNT
      BY <1>2, <2>2 DEF Sampled
    <3> QED BY <1>26, <3>1
  <2>3. ASSUME pc = "window" PROVE Room' - 1 <= size.value /\ size.value < size.most
    <3>1. Room - 1 <= size.value /\ size.value < size.most
      BY <1>2, <2>3 DEF Sampled
    <3> QED BY <1>25, <1>26, <3>1
  <2> QED BY <2>0, <2>1, <2>2, <2>3 DEF Sampled
<1>28. Typed'
  <2>1. FirstByte(arriving.frame, v % RXSIZE, arriving.size) \in Cell
    <3>1. v % RXSIZE \in Nat
      <4>1. v \in Int
        BY <1>5
      <4>2. v % RXSIZE \in Addresses
        BY <4>1, AddressOf
      <4> QED BY <4>2, RingFacts
    <3> QED BY <1>4, <3>1 DEF FirstByte, Cell
  <2>2. ring' \in [Addresses -> Cell]
    BY <1>9, <1>11, <1>14, <2>1
  <2>3. EPKTCNT' \in Nat
    BY <1>3, <1>26
  <2> QED BY <1>2, <1>3, <1>7, <2>2, <2>3 DEF Typed
<1>29. InOrder'
  <2> DEFINE one == IF WasDiscarded THEN 0 ELSE 1
  <2>0. one \in Int
    OBVIOUS
  <2> HIDE DEF one
  <2>1. /\ h <= l /\ EPKTCNT = l - h + one
        /\ \A i \in 1 .. h : handed[i] = accepted[i]
        /\ pc = "header" => WasDiscarded /\ h < l
    BY <1>2 DEF InOrder, h, l, one
  <2>2. ASSUME NEW i \in 1 .. h PROVE handed[i] = accepted'[i]
    <3>1. i \in 1 .. l
      BY <1>6
    <3> QED BY <1>7, <2>1, <3>1
  <2>3. EPKTCNT' = l + 1 - h + one
    <3>1. EPKTCNT' = EPKTCNT + 1
      BY <1>3
    <3> QED BY <1>6, <2>0, <2>1, <3>1
  <2>4. h <= l + 1 /\ (pc = "header" => WasDiscarded /\ h < l + 1)
    BY <1>6, <2>1
  <2>5. UNCHANGED <<handed, WasDiscarded, pc>>
    BY <1>3
  <2>6. (EPKTCNT = Len(accepted) - Len(handed) + (IF WasDiscarded THEN 0 ELSE 1))'
    <3>1. (IF WasDiscarded' THEN 0 ELSE 1) = one
      BY <2>5, Zenon DEF one
    <3>2. EPKTCNT' = Len(accepted') - Len(handed') + one
      BY <1>6, <1>7, <2>0, <2>3, <2>5 DEF h
    <3> QED BY <3>1, <3>2, Zenon
  <2>7. (/\ Len(handed) <= Len(accepted)
         /\ \A i \in 1 .. Len(handed) : handed[i] = accepted[i])'
    BY <1>7, <2>2, <2>4, <2>5 DEF h
  <2>8. (pc = "header" => WasDiscarded /\ Len(handed) < Len(accepted))'
    BY <1>7, <2>4, <2>5 DEF h
  <2> QED BY <1>2, <2>5, <2>6, <2>7, <2>8 DEF InOrder
<1> QED BY <1>16, <1>18, <1>19, <1>20, <1>22, <1>23, <1>27, <1>28, <1>29 DEF IInv, Placed

-----------------------------------------------------------------------------
(* The invariant is inductive, and the properties of the runs follow.      *)

LEMMA StutterStep ==
  ASSUME IInv, UNCHANGED vars
  PROVE  IInv'
<1>1. PICK at \in [Nat -> Nat] : Placed(at)
  BY DEF IInv
<1>2. UNCHANGED <<chip, driver, task>>
  BY DEF vars
<1>3. Typed' /\ InOrder' /\ Sampled'
  BY <1>2 DEF IInv, chip, driver, task, Typed, InOrder, Sampled, Room
<1>4. Freed' = Freed
  BY <1>2 DEF driver, task, Freed
<1>5. Layout(at)' /\ OneRound(at)' /\ Stored(at)'
  BY <1>1, <1>2, <1>4, BufferKept DEF IInv, Placed, chip
<1>6. Pointers(at)' /\ Reader(at)'
  BY <1>1, <1>2, <1>4 DEF Placed, Pointers, Reader, Lies, Current, Content, chip, driver, task
<1> QED BY <1>3, <1>5, <1>6 DEF IInv, Placed

LEMMA IInvStep == IInv /\ [Next]_vars => IInv'
<1> SUFFICES ASSUME IInv, [Next]_vars PROVE IInv'
  OBVIOUS
<1>1. CASE Controller
  BY <1>1, ArriveStep, WriteByteStep, AcceptStep DEF Controller
<1>2. CASE Program
  <2>1. CASE UDPDiscard \/ MACGetHeader \/ ReadHeader \/ CountOff \/ Free
    BY <2>1, DiscardStep, MACGetHeaderStep, ReadHeaderStep, CountOffStep, FreeStep
  <2>2. CASE Seek \/ Get \/ ChecksumBegins \/ ChecksumEnds \/ Discard
    BY <2>2, SeekStep, GetStep, ChecksumEndsStep, DiscardStep
  <2>3. CASE HandlerEnds \/ ApplicationsEnd \/ SendTCP \/ Calculate \/ MovesAway
    BY <2>3, EndStep, SendTCPStep, CalculateStep, MovesAwayStep
  <2>4. CASE ReadCount \/ ReadLow \/ ReadHigh \/ ReadAgain
    BY <2>4, SampleStep
  <2> QED BY <1>2, <2>1, <2>2, <2>3, <2>4 DEF Program
<1>3. CASE UNCHANGED vars
  BY <1>3, StutterStep
<1> QED BY <1>1, <1>2, <1>3 DEF Next

\* The places on the line exist in every reachable state.
LEMMA Always == SafeSpec => []IInv
BY InitIInv, IInvStep, PTL DEF SafeSpec

\* MACGetHeader always finds the preamble of the next frame where
\* NextPacketLocation says, whatever the controller writes meanwhile and
\* wherever the buffer wraps: it hands the frames over in the order they were
\* counted in, each once, and never resets the processor.
THEOREM FramesComeInOrder == SafeSpec => []FramesInOrder
<1>1. IInv => FramesInOrder
  BY OrderFollows
<1> QED BY <1>1, Always, PTL

\* As long as a frame is not discarded, MACGet and MACSetReadPtrInRx read the
\* bytes of this frame: the controller, which may fill the rest of the ring,
\* writes over none of them.
THEOREM ReadsStayInFrame == SafeSpec => []ReadsOwnFrame
<1>1. IInv => ReadsOwnFrame
  BY ReadsFollow
<1> QED BY <1>1, Always, PTL

\* MACDiscardRx gives back the bytes of the frame, all of them and no others,
\* and counts it off once, however often it is called.
THEOREM BytesAreFreed == SafeSpec => []BufferFreed
<1>1. IInv => BufferFreed
  BY FreedFollows
<1> QED BY <1>1, Always, PTL

\* What MACGetFreeRxSize computes from the count and from the two bytes of the
\* write pointer is the free space of a moment during the call, whatever is
\* counted between the reads: SendTCP offers no window that was not there.
THEOREM FreeSizeIsTrue == SafeSpec => []FreeSizeIsReal
<1>1. IInv => FreeSizeIsReal
  BY SizeFollows
<1> QED BY <1>1, Always, PTL
=============================================================================
