---------------------------- MODULE PostFormProofs ----------------------------
(***************************************************************************)
(* Theorems about PostForm, for bodies and trailers of any length, a FIFO  *)
(* and a buffer of any size and any timeout.  A field that does not fit    *)
(* into the buffer ends the model: of what the program does behind it no   *)
(* theorem says anything.                                                  *)
(***************************************************************************)
EXTENDS PostForm, SequenceTheorems, WellFoundedInduction, TLAPS

\* A set of natural numbers that is not empty has a least member.
LEMMA LeastNumber ==
  ASSUME NEW S \in SUBSET Nat, S # {}
  PROVE  \E x \in S : \A y \in S : x <= y
<1> DEFINE R == OpToRel(<, Nat)
<1>1. IsWellFoundedOn(R, Nat)
  BY NatLessThanWellFounded, Zenon
<1>2. \A x, y \in Nat : y < x => <<y, x>> \in R
  BY Zenon DEF OpToRel
<1> HIDE DEF R
<1>3. PICK x \in S : \A y \in S : ~ (<<y, x>> \in R)
  BY <1>1, WFMin
<1>4. \A y \in S : ~ (y < x)
  BY <1>2, <1>3
<1> QED BY <1>4

\* The least position of a separator, if there is one.
LEMMA MinIsLeast ==
  ASSUME NEW S \in SUBSET Nat, S # {}
  PROVE  Min(S) \in S /\ \A y \in S : Min(S) <= y
BY LeastNumber DEF Min

-----------------------------------------------------------------------------
(* FlattenSeq, whose recursive function is the only one with its values. *)

Flattens(f, s, n) ==
  f = [i \in 1 .. n |-> IF i = 1 THEN s[i] ELSE f[i - 1] \o s[i]]

LEMMA FlattensExists ==
  ASSUME NEW s, NEW n \in Nat
  PROVE  \E f : Flattens(f, s, n)
<1> DEFINE Bad == {m \in Nat : ~ \E f : Flattens(f, s, m)}
<1>1. SUFFICES ASSUME Bad # {} PROVE FALSE
  OBVIOUS
<1>2. PICK m \in Bad : \A k \in Bad : m <= k
  <2> HIDE DEF Bad
  <2>1. Bad \in SUBSET Nat
    BY DEF Bad
  <2> QED BY <1>1, <2>1, LeastNumber
<1>3. m \in Nat /\ ~ \E f : Flattens(f, s, m)
  BY <1>2
<1>4. m # 0
  <2>1. Flattens([i \in 1 .. 0 |-> <<>>], s, 0)
    BY DEF Flattens
  <2> QED BY <1>3, <2>1
<1>5. PICK f : Flattens(f, s, m - 1)
  <2>1. m - 1 \in Nat /\ m - 1 \notin Bad
    BY <1>2, <1>3, <1>4
  <2> QED BY <2>1
<1> HIDE DEF Bad
<1> DEFINE g == [i \in 1 .. m |-> IF i = m THEN (IF m = 1 THEN s[m] ELSE f[m - 1] \o s[m]) ELSE f[i]]
<1>6. \A i \in 1 .. m : g[i] = IF i = 1 THEN s[i] ELSE g[i - 1] \o s[i]
  <2> SUFFICES ASSUME NEW i \in 1 .. m
               PROVE  g[i] = IF i = 1 THEN s[i] ELSE g[i - 1] \o s[i]
    OBVIOUS
  <2>1. f = [j \in 1 .. m - 1 |-> IF j = 1 THEN s[j] ELSE f[j - 1] \o s[j]]
    BY <1>5 DEF Flattens
  <2>2. CASE i = m
    <3>1. m # 1 => g[m - 1] = f[m - 1]
      BY <1>3, <1>4
    <3> QED BY <1>3, <2>2, <3>1
  <2>3. CASE i # m
    <3>1. i \in 1 .. m - 1 /\ g[i] = f[i] /\ (i # 1 => g[i - 1] = f[i - 1])
      BY <1>3, <2>3
    <3> QED BY <2>1, <3>1
  <2> QED BY <2>2, <2>3
<1>7. g = [i \in 1 .. m |-> g[i]]
  OBVIOUS
<1> HIDE DEF g
<1>8. Flattens(g, s, m)
  BY <1>6, <1>7 DEF Flattens
<1> QED BY <1>3, <1>8

\* What it has for one sequence of fields it has for one that goes on longer.
LEMMA FlattensAgree ==
  ASSUME NEW s, NEW t, NEW n \in Nat, NEW k \in Nat, n <= k,
         \A i \in 1 .. n : s[i] = t[i],
         NEW f, Flattens(f, s, n), NEW g, Flattens(g, t, k)
  PROVE  \A i \in 1 .. n : f[i] = g[i]
<1> DEFINE Bad == {i \in 1 .. n : f[i] # g[i]}
<1>1. SUFFICES ASSUME Bad # {} PROVE FALSE
  OBVIOUS
<1>2. PICK m \in Bad : \A i \in Bad : m <= i
  <2> HIDE DEF Bad
  <2>1. Bad \in SUBSET Nat
    BY DEF Bad
  <2> QED BY <1>1, <2>1, LeastNumber
<1>3. m \in 1 .. n /\ m \in 1 .. k /\ f[m] # g[m]
  BY <1>2
<1>4. f[m] = IF m = 1 THEN s[m] ELSE f[m - 1] \o s[m]
  BY <1>3 DEF Flattens
<1>5. g[m] = IF m = 1 THEN t[m] ELSE g[m - 1] \o t[m]
  BY <1>3 DEF Flattens
<1>6. m # 1 => f[m - 1] = g[m - 1]
  <2> SUFFICES ASSUME m # 1 PROVE f[m - 1] = g[m - 1]
    OBVIOUS
  <2>1. m - 1 \in 1 .. n /\ ~ (m <= m - 1)
    BY <1>3
  <2> QED BY <1>2, <2>1
<1> QED BY <1>3, <1>4, <1>5, <1>6

\* FlattenSeq has the last value of that function.
LEMMA FlattenSeqValue ==
  ASSUME NEW s, Len(s) \in Nat \ {0}
  PROVE  \E f : Flattens(f, s, Len(s)) /\ FlattenSeq(s) = f[Len(s)]
<1> DEFINE f == CHOOSE f : f = [i \in 1 .. Len(s) |-> IF i = 1 THEN s[i] ELSE f[i - 1] \o s[i]]
<1>1. \E h : h = [i \in 1 .. Len(s) |-> IF i = 1 THEN s[i] ELSE h[i - 1] \o s[i]]
  BY FlattensExists DEF Flattens
<1>2. Flattens(f, s, Len(s))
  BY <1>1 DEF Flattens
<1>3. FlattenSeq(s) = f[Len(s)]
  BY DEF FlattenSeq
<1> QED BY <1>2, <1>3

LEMMA FlattenNothing == FlattenSeq(<<>>) = <<>>
BY DEF FlattenSeq

\* Fields of bytes flatten to bytes.
LEMMA FlattenTyped ==
  ASSUME NEW s \in Seq(Seq(Byte))
  PROVE  FlattenSeq(s) \in Seq(Byte)
<1>1. CASE Len(s) = 0
  BY <1>1, FlattenNothing, EmptySeq
<1>2. CASE Len(s) # 0
  <2> DEFINE n == Len(s)
  <2>1. n \in Nat \ {0} /\ \A i \in 1 .. n : s[i] \in Seq(Byte)
    BY <1>2
  <2>2. PICK f : Flattens(f, s, n) /\ FlattenSeq(s) = f[n]
    BY <2>1, FlattenSeqValue
  <2> HIDE DEF n
  <2>3. \A i \in 1 .. n : f[i] = IF i = 1 THEN s[i] ELSE f[i - 1] \o s[i]
    BY <2>2 DEF Flattens
  <2> DEFINE Bad == {i \in 1 .. n : f[i] \notin Seq(Byte)}
  <2>4. Bad = {}
    <3> SUFFICES ASSUME Bad # {} PROVE FALSE
      OBVIOUS
    <3>1. PICK m \in Bad : \A i \in Bad : m <= i
      <4>1. Bad \in SUBSET Nat
        BY <2>1
      <4> HIDE DEF Bad
      <4> QED BY <4>1, LeastNumber
    <3>2. m \in 1 .. n /\ f[m] \notin Seq(Byte)
      BY <3>1
    <3>3. m # 1 => m - 1 \in 1 .. n /\ m - 1 \notin Bad
      BY <3>1, <3>2, <2>1
    <3>4. m # 1 => f[m - 1] \in Seq(Byte)
      BY <3>3
    <3>5. f[m] = IF m = 1 THEN s[m] ELSE f[m - 1] \o s[m]
      BY <2>3, <3>2
    <3>6. s[m] \in Seq(Byte)
      BY <2>1, <3>2
    <3> HIDE DEF Bad
    <3>7. m # 1 => f[m - 1] \o s[m] \in Seq(Byte)
      BY <3>4, <3>6, ConcatProperties
    <3> QED BY <3>2, <3>5, <3>6, <3>7
  <2> QED BY <2>1, <2>2, <2>4
<1> QED BY <1>1, <1>2

LEMMA FlattenLonger ==
  ASSUME NEW s, NEW t, NEW n \in Nat \ {0}, NEW k \in Nat, k = n + 1,
         Len(s) = n, Len(t) = k, \A i \in 1 .. n : s[i] = t[i]
  PROVE  FlattenSeq(t) = FlattenSeq(s) \o t[k]
<1>1. PICK f : Flattens(f, s, n) /\ FlattenSeq(s) = f[n]
  BY FlattenSeqValue
<1>2. PICK g : Flattens(g, t, k) /\ FlattenSeq(t) = g[k]
  BY FlattenSeqValue
<1>3. \A i \in 1 .. n : f[i] = g[i]
  <2>1. n \in Nat /\ k \in Nat /\ n <= k
    OBVIOUS
  <2>2. \A i \in 1 .. n : s[i] = t[i]
    OBVIOUS
  <2> QED BY ONLY <1>1, <1>2, <2>1, <2>2, FlattensAgree
<1>4. g[k] = g[n] \o t[k]
  <2>1. k \in 1 .. k /\ k # 1 /\ k - 1 = n
    OBVIOUS
  <2>2. g = [i \in 1 .. k |-> IF i = 1 THEN t[i] ELSE g[i - 1] \o t[i]]
    BY <1>2 DEF Flattens
  <2>3. g[k] = IF k = 1 THEN t[k] ELSE g[k - 1] \o t[k]
    BY <2>1, <2>2, Zenon
  <2> QED BY <2>1, <2>3
<1>5. f[n] = g[n]
  BY <1>3
<1> QED BY <1>1, <1>2, <1>4, <1>5

\* One field more goes behind what the others flatten to.
LEMMA FlattenAppend ==
  ASSUME NEW s \in Seq(Seq(Byte)), NEW x \in Seq(Byte)
  PROVE  FlattenSeq(Append(s, x)) = FlattenSeq(s) \o x
<1>1. ASSUME NEW t, NEW n \in Nat, NEW k \in Nat, k = n + 1,
             Len(s) = n, Len(t) = k, t[k] = x, \A i \in 1 .. n : s[i] = t[i]
      PROVE  FlattenSeq(t) = FlattenSeq(s) \o x
  <2>1. CASE n = 0
    <3>1. s = <<>> /\ k = 1 /\ Len(t) \in Nat \ {0}
      BY <1>1, <2>1
    <3>2. PICK g : Flattens(g, t, k) /\ FlattenSeq(t) = g[k]
      BY <1>1, <3>1, FlattenSeqValue
    <3>3. g[1] = t[1]
      BY <3>1, <3>2 DEF Flattens
    <3> QED BY <1>1, <3>1, <3>2, <3>3, FlattenNothing
  <2>2. CASE n # 0
    <3>1. n \in Nat \ {0}
      BY <2>2
    <3>2. FlattenSeq(t) = FlattenSeq(s) \o t[k]
      BY <1>1, <3>1, FlattenLonger
    <3> QED BY <1>1, <3>2
  <2> QED BY <2>1, <2>2
<1>2. /\ Len(s) \in Nat /\ Len(s) + 1 \in Nat
      /\ Len(Append(s, x)) = Len(s) + 1 /\ Append(s, x)[Len(s) + 1] = x
      /\ \A i \in 1 .. Len(s) : s[i] = Append(s, x)[i]
  OBVIOUS
<1> QED BY <1>1, <1>2, Zenon

-----------------------------------------------------------------------------
(* The inductive invariant. *)

FieldsTyped == fields \in Seq(Seq(Byte))

\* While the form arrives, what has come and what is to come are the body and
\* the trailer, no field has been taken, and the handler has looked at no more
\* than there is.
Filling ==
  sm = "post" =>
    /\ fields = <<>> /\ byteCount = Len(body) /\ strange = 0
    /\ rx \o pending = body \o trailer
    /\ callbackPos <= Len(rx)

\* If nothing has come since the last pass, the time to the deadline and the
\* silence so far make up the timeout.
Waits == sm = "post" /\ Len(rx) = callbackPos => left + silence >= Timeout

\* While the handler runs, what it has taken and what is in the FIFO are the
\* body, and only a field that takes the rest of it lacks the "&".
Parsing ==
  sm = "parse" /\ strange = 0 =>
    /\ FlattenSeq(fields) \o rx = body
    /\ byteCount = Len(rx)
    /\ rx # <<>> => \A i \in 1 .. Len(fields) : Last(fields[i]) = "&"

IndInv == TypeOK /\ FieldsTyped /\ Filling /\ Waits /\ Parsing /\ FieldsAreTheBody

LEMMA Constants ==
  /\ RxSize \in Nat \ {0} /\ Timeout \in Nat \ {0} /\ Dword \in Nat \ {0}
  /\ \A b \in Bodies : b \in Seq(Byte) /\ Len(b) \in 0 .. Dword - 1
  /\ \A r \in Trailers : r \in Seq(Byte) /\ Len(r) \in Nat
BY PostAssumption

LEMMA InitIndInv == Init => IndInv
<1> SUFFICES ASSUME Init PROVE IndInv
  OBVIOUS
<1> USE DEF Init
<1>1. body \in Seq(Byte) /\ trailer \in Seq(Byte) /\ pending \in Seq(Byte)
      /\ Len(body) \in 0 .. Dword - 1
  BY Constants, ConcatProperties
<1>2. TypeOK
  BY <1>1, Constants, EmptySeq DEF TypeOK
<1>3. FieldsTyped
  BY DEF FieldsTyped
<1>4. Filling
  BY <1>1, ConcatEmptySeq DEF Filling
<1>5. Waits /\ Parsing
  BY DEF Waits, Parsing
<1>6. FieldsAreTheBody
  <2>1. Len(FlattenSeq(fields)) = 0 /\ Len(fields) = 0
    BY FlattenNothing
  <2>2. IsPrefix(FlattenSeq(fields), body)
    BY <1>1, <2>1, FlattenNothing DEF IsPrefix
  <2> QED BY <2>1, <2>2 DEF FieldsAreTheBody
<1> QED BY <1>2, <1>3, <1>4, <1>5, <1>6 DEF IndInv

\* Types of what the steps work on.
LEMMA Typed ==
  ASSUME IndInv
  PROVE  /\ body \in Seq(Byte) /\ trailer \in Seq(Byte)
         /\ rx \in Seq(Byte) /\ pending \in Seq(Byte) /\ fields \in Seq(Seq(Byte))
         /\ Len(rx) \in Nat /\ Len(body) \in 0 .. Dword - 1 /\ Len(trailer) \in Nat
         /\ Len(pending) \in Nat
         /\ FlattenSeq(fields) \in Seq(Byte)
BY Constants, FlattenTyped, LenProperties DEF IndInv, TypeOK, FieldsTyped

\* A step outside the loop over the fields that takes none of them leaves
\* FieldsAreTheBody alone if it does not answer.
LEMMA FieldsStay ==
  ASSUME IndInv, sm # "undefined", UNCHANGED <<fields, body>>, strange' = strange, sm' # "reply"
  PROVE  FieldsAreTheBody'
BY DEF IndInv, FieldsAreTheBody

LEMMA ArriveKeeps == IndInv /\ Arrive => IndInv'
<1> SUFFICES ASSUME IndInv, Arrive PROVE IndInv'
  OBVIOUS
<1> USE DEF Arrive, conn
<1>1. pending # <<>> /\ sm = "post" /\ Len(rx) < RxSize /\ rx' = Append(rx, Head(pending))
      /\ pending' = Tail(pending)
  OBVIOUS
<1>2. Head(pending) \in Byte /\ pending' \in Seq(Byte) /\ rx' \in Seq(Byte) /\ Len(rx') = Len(rx) + 1
  BY <1>1, Typed, HeadTailProperties, AppendProperties
<1>3. rx' \o pending' = rx \o pending
  <2>1. pending = <<Head(pending)>> \o Tail(pending)
    BY <1>1, Typed
  <2>2. rx' = rx \o <<Head(pending)>>
    BY <1>1, <1>2, Typed, AppendIsConcat
  <2>3. <<Head(pending)>> \in Seq(Byte)
    BY <1>2
  <2>4. rx \in Seq(Byte) /\ Tail(pending) \in Seq(Byte)
    BY <1>1, <1>2, Typed
  <2>5. (rx \o <<Head(pending)>>) \o Tail(pending) = rx \o (<<Head(pending)>> \o Tail(pending))
    BY ONLY <2>3, <2>4, ConcatAssociative
  <2> QED BY ONLY <1>1, <2>1, <2>2, <2>5
<1>4. TypeOK'
  BY <1>1, <1>2, Typed, Constants DEF IndInv, TypeOK
<1>5. FieldsTyped' /\ Parsing'
  BY <1>1 DEF IndInv, FieldsTyped, Parsing
<1>6. Filling' /\ Waits'
  <2>1. callbackPos <= Len(rx) /\ callbackPos \in Int
    BY <1>1, Constants DEF IndInv, Filling, TypeOK
  <2>2. Len(rx) \in Nat /\ UNCHANGED <<body, trailer, conn, fields, strange>>
    BY Typed
  <2> HIDE DEF Arrive
  <2>3. Filling
    BY DEF IndInv
  <2>4. Filling'
    <3>1. fields' = fields /\ byteCount' = byteCount /\ body' = body /\ strange' = strange
          /\ trailer' = trailer /\ callbackPos' = callbackPos
      BY <2>2
    <3>2. fields = <<>> /\ byteCount = Len(body) /\ strange = 0 /\ rx \o pending = body \o trailer
      BY <1>1, <2>3 DEF Filling
    <3>3. callbackPos' <= Len(rx')
      BY <1>2, <2>1, <2>2
    <3> QED BY ONLY <3>1, <3>2, <3>3, <1>3 DEF Filling
  <2>5. Waits'
    BY <1>1, <1>2, <2>1, <2>2 DEF Waits
  <2> QED BY <2>4, <2>5
<1>7. FieldsAreTheBody'
  BY <1>1, FieldsStay
<1> QED BY <1>4, <1>5, <1>6, <1>7 DEF IndInv

LEMMA TimePassesKeeps == IndInv /\ TimePasses => IndInv'
<1> SUFFICES ASSUME IndInv, TimePasses PROVE IndInv'
  OBVIOUS
<1> USE DEF TimePasses, net
<1>1. TypeOK'
  BY Constants DEF IndInv, TypeOK
<1>2. FieldsTyped' /\ Parsing' /\ Filling'
  BY DEF IndInv, FieldsTyped, Parsing, Filling
<1>3. Waits'
  BY Constants DEF IndInv, TypeOK, Waits
<1>4. FieldsAreTheBody'
  BY FieldsStay
<1> QED BY <1>1, <1>2, <1>3, <1>4 DEF IndInv

\* The steps that leave SM_HTTP_PROCESS_POST without a look at the fields.
LEMMA LeavingKeeps == IndInv /\ (Gone \/ Expire \/ GiveUp) => IndInv'
<1> SUFFICES ASSUME IndInv, Gone \/ Expire \/ GiveUp PROVE IndInv'
  OBVIOUS
<1>1. /\ sm = "post" /\ sm' \in {"idle", "disconnect", "reply"}
      /\ UNCHANGED <<net, rx, byteCount, callbackPos, left, fields, silence, strange>>
  BY DEF Gone, Expire, GiveUp
<1>2. TypeOK' /\ FieldsTyped' /\ Filling' /\ Waits' /\ Parsing'
  BY <1>1 DEF IndInv, TypeOK, FieldsTyped, Filling, Waits, Parsing, net
<1>3. fields = <<>>
  BY <1>1 DEF IndInv, Filling
<1>4. FieldsAreTheBody'
  BY <1>1, <1>3 DEF IndInv, FieldsAreTheBody, net
<1> QED BY <1>2, <1>4 DEF IndInv

\* The FIFO can hold what is still missing, or TooBig would have ended it:
\* the internal error is out of reach.
LEMMA NeedDataKeeps == IndInv /\ NeedData => IndInv'
<1> SUFFICES ASSUME IndInv, NeedData PROVE IndInv'
  OBVIOUS
<1> USE DEF NeedData, net
<1>1. sm' = "post"
  BY Typed DEF IndInv, TypeOK, TooBig, Incomplete
<1>2. TypeOK'
  BY <1>1, Typed, Constants DEF IndInv, TypeOK
<1>3. FieldsTyped' /\ Parsing' /\ Filling'
  BY <1>1, Typed, SMTT(20) DEF IndInv, FieldsTyped, Parsing, Filling
<1>4. Waits'
  BY Constants DEF IndInv, TypeOK, Waits
<1>5. FieldsAreTheBody'
  BY <1>1, FieldsStay
<1> QED BY <1>2, <1>3, <1>4, <1>5 DEF IndInv

LEMMA StartParsingKeeps == IndInv /\ StartParsing => IndInv'
<1> SUFFICES ASSUME IndInv, StartParsing PROVE IndInv'
  OBVIOUS
<1> USE DEF StartParsing, net
<1>1. /\ fields = <<>> /\ byteCount = Len(body) /\ rx \o pending = body \o trailer
      /\ Len(rx) >= Len(body)
  <2>1. Filling /\ sm = "post" /\ ~ (Len(rx) < byteCount)
    BY DEF IndInv, Incomplete
  <2>2. Len(rx) \in Nat /\ Len(body) \in Nat
    BY Typed
  <2> HIDE DEF StartParsing
  <2>3. /\ fields = <<>> /\ byteCount = Len(body) /\ rx \o pending = body \o trailer
    BY ONLY <2>1 DEF Filling
  <2> QED BY ONLY <2>1, <2>2, <2>3
<1>2. Len(rx) + Len(pending) = Len(body) + Len(trailer)
  <2>1. Len(rx \o pending) = Len(rx) + Len(pending) /\ Len(body \o trailer) = Len(body) + Len(trailer)
    BY Typed, ConcatProperties
  <2> QED BY <1>1, <2>1
<1>3. TypeOK'
  BY <1>1, <1>2, Typed, Constants, SMTT(30) DEF IndInv, TypeOK
<1>4. FieldsTyped' /\ Filling' /\ Waits'
  BY DEF IndInv, FieldsTyped, Filling, Waits
<1>5. Parsing'
  <2> SUFFICES ASSUME strange' = 0 PROVE rx = body
    BY <1>1, Typed, FlattenNothing, ConcatEmptySeq, SMTT(30) DEF Parsing
  <2>1. Len(rx) = Len(body)
    BY <1>1, <1>2, Typed
  <2>2. \A i \in 1 .. Len(rx) : rx[i] = body[i]
    <3> SUFFICES ASSUME NEW i \in 1 .. Len(rx) PROVE rx[i] = body[i]
      OBVIOUS
    <3>1. (rx \o pending)[i] = rx[i] /\ (body \o trailer)[i] = body[i]
      BY <2>1, Typed, ConcatProperties
    <3> QED BY <1>1, <3>1
  <2> QED BY <2>1, <2>2, Typed, SeqEqual
<1>6. FieldsAreTheBody'
  <2>1. IsPrefix(FlattenSeq(fields), body)
    BY <1>1, Typed, FlattenNothing DEF IsPrefix
  <2> QED BY <1>1, <2>1 DEF FieldsAreTheBody
<1> QED BY <1>3, <1>4, <1>5, <1>6 DEF IndInv

-----------------------------------------------------------------------------
(* The loop over the fields. *)

\* What a turn takes: a field up to the first "&", or all that is left.
LEMMA TakenBounds ==
  ASSUME rx \in Seq(Byte), byteCount \in Nat
  PROVE  /\ Taken \in 0 .. Len(rx)
         /\ Separators # {} => Taken >= 1 /\ rx[Taken] = "&"
         /\ \A i \in 1 .. Taken - 1 : rx[i] # "&"
         /\ Separators = {} => \A i \in 1 .. Len(rx) : rx[i] # "&"
<1>1. Separators \in SUBSET Nat /\ Separators \subseteq 1 .. Len(rx) /\ Len(rx) \in Nat
  BY DEF Separators
<1>2. CASE Separators # {}
  <2>1. Taken \in Separators /\ \A i \in Separators : Taken <= i
    BY <1>1, <1>2, MinIsLeast DEF Taken
  <2> QED BY <1>1, <1>2, <2>1 DEF Separators
<1>3. CASE Separators = {}
  <2>1. Taken \in {0, Len(rx)}
    BY <1>3 DEF Taken
  <2>2. \A i \in 1 .. Len(rx) : rx[i] # "&"
    BY <1>3 DEF Separators
  <2> QED BY <1>1, <1>3, <2>1, <2>2
<1> QED BY <1>2, <1>3

\* The field taken and what stays in the FIFO are what was in it.
LEMMA SplitAt ==
  ASSUME NEW q \in Seq(Byte), NEW k \in 0 .. Len(q)
  PROVE  /\ SubSeq(q, 1, k) \in Seq(Byte) /\ SubSeq(q, k + 1, Len(q)) \in Seq(Byte)
         /\ Len(SubSeq(q, 1, k)) = k /\ Len(SubSeq(q, k + 1, Len(q))) = Len(q) - k
         /\ \A i \in 1 .. k : SubSeq(q, 1, k)[i] = q[i]
         /\ SubSeq(q, 1, k) \o SubSeq(q, k + 1, Len(q)) = q
<1>1. Len(q) \in Nat /\ \A i \in 1 .. Len(q) : q[i] \in Byte
  OBVIOUS
<1>2. /\ SubSeq(q, 1, k) \in Seq(Byte)
      /\ Len(SubSeq(q, 1, k)) = k
      /\ \A i \in 1 .. k : SubSeq(q, 1, k)[i] = q[i]
  BY <1>1, SubSeqProperties
<1>3. /\ SubSeq(q, k + 1, Len(q)) \in Seq(Byte)
      /\ Len(SubSeq(q, k + 1, Len(q))) = Len(q) - k
  BY <1>1, SubSeqProperties
<1>4. SubSeq(q, 1, k) \o SubSeq(q, k + 1, Len(q)) = SubSeq(q, 1, Len(q))
  <2>1. 1 \in 1 .. Len(q) + 1 /\ k \in 1 - 1 .. Len(q) /\ Len(q) \in k .. Len(q)
    BY <1>1
  <2> QED BY <2>1, ConcatAdjacentSubSeq
<1> QED BY <1>2, <1>3, <1>4, SubSeqFull

\* A sequence is a prefix of what it begins.
LEMMA PrefixOfConcat ==
  ASSUME NEW p \in Seq(Byte), NEW q \in Seq(Byte)
  PROVE  IsPrefix(p, p \o q)
<1>1. Len(p) \in Nat /\ Len(q) \in Nat /\ Len(p \o q) = Len(p) + Len(q) /\ p \o q \in Seq(Byte)
      /\ \A i \in 1 .. Len(p) : (p \o q)[i] = p[i]
  BY ConcatProperties
<1>2. SubSeq(p, 1, Len(p)) \in Seq(Byte) /\ SubSeq(p \o q, 1, Len(p)) \in Seq(Byte)
  BY <1>1, SplitAt
<1>3. \A i \in 1 .. Len(p) : SubSeq(p, 1, Len(p))[i] = SubSeq(p \o q, 1, Len(p))[i]
  BY <1>1, SplitAt
<1>4. Len(SubSeq(p, 1, Len(p))) = Len(p) /\ Len(SubSeq(p \o q, 1, Len(p))) = Len(p)
  BY <1>1, SplitAt
<1>5. SubSeq(p, 1, Len(p)) = SubSeq(p \o q, 1, Len(p))
  BY <1>2, <1>3, <1>4, SeqEqual
<1> QED BY <1>1, <1>5 DEF IsPrefix

LEMMA AllTakenKeeps == IndInv /\ AllTaken => IndInv'
<1> SUFFICES ASSUME IndInv, AllTaken PROVE IndInv'
  OBVIOUS
<1> USE DEF AllTaken, net
<1>1. TypeOK' /\ FieldsTyped' /\ Filling' /\ Waits' /\ Parsing'
  BY DEF IndInv, TypeOK, FieldsTyped, Filling, Waits, Parsing
<1>2. strange = 0 => FlattenSeq(fields) = body
  <2> SUFFICES ASSUME strange = 0 PROVE FlattenSeq(fields) = body
    OBVIOUS
  <2>1. FlattenSeq(fields) \o rx = body /\ Len(rx) = 0
    BY DEF IndInv, Parsing
  <2>2. rx = <<>>
    BY <2>1, Typed
  <2> QED BY <2>1, <2>2, Typed, ConcatEmptySeq
<1>3. FieldsAreTheBody'
  BY <1>2 DEF IndInv, FieldsAreTheBody
<1> QED BY <1>1, <1>3 DEF IndInv

\* As long as what is subtracted is no more, the DWORD does not go round.
LEMMA MinusIs ==
  ASSUME NEW a \in 0 .. Dword - 1, NEW b \in 0 .. a
  PROVE  Minus(a, b) = a - b
<1>1. Dword \in Nat \ {0} /\ a - b \in 0 .. Dword - 1
  BY Constants
<1>2. ASSUME NEW d \in Nat \ {0}, NEW r \in 0 .. d - 1 PROVE (r + d) % d = r
  OBVIOUS
<1> QED BY <1>1, <1>2 DEF Minus

LEMMA MinusTyped ==
  ASSUME NEW a \in Int, NEW b \in Int
  PROVE  Minus(a, b) \in 0 .. Dword - 1
BY Constants DEF Minus

\* Behind an overrun nothing is known, and nothing is claimed.
LEMMA OverrunKeeps == IndInv /\ Overrun => IndInv'
<1> SUFFICES ASSUME IndInv, Overrun PROVE IndInv'
  OBVIOUS
<1>1. /\ sm' = "undefined"
      /\ UNCHANGED <<net, rx, byteCount, callbackPos, left, fields, silence, strange>>
  BY DEF Overrun
<1> QED BY <1>1 DEF IndInv, TypeOK, FieldsTyped, Filling, Waits, Parsing, FieldsAreTheBody, net

LEMMA TurnKeeps == IndInv /\ Turn => IndInv'
<1> SUFFICES ASSUME IndInv, Turn PROVE IndInv'
  OBVIOUS
<1> DEFINE field == SubSeq(rx, 1, Taken)
<1>1. /\ sm = "parse" /\ byteCount # 0
      /\ rx' = SubSeq(rx, Taken + 1, Len(rx))
      /\ byteCount' = Minus(byteCount, Taken)
      /\ fields' = IF Taken > 0 THEN Append(fields, field) ELSE fields
      /\ sm' = IF "!" \in Range(field) THEN "reply" ELSE "parse"
      /\ UNCHANGED <<net, callbackPos, left, silence, strange>>
  BY DEF Turn
<1>2. byteCount \in 0 .. Dword - 1 /\ Dword \in Nat
  BY Constants DEF IndInv, TypeOK
<1>3. /\ Taken \in 0 .. Len(rx)
      /\ Separators # {} => Taken >= 1 /\ rx[Taken] = "&"
      /\ \A i \in 1 .. Taken - 1 : rx[i] # "&"
      /\ Separators = {} => \A i \in 1 .. Len(rx) : rx[i] # "&"
  BY <1>2, Typed, TakenBounds
<1>4. /\ field \in Seq(Byte) /\ rx' \in Seq(Byte)
      /\ Len(field) = Taken /\ Len(rx') = Len(rx) - Taken
      /\ \A i \in 1 .. Taken : field[i] = rx[i]
      /\ field \o rx' = rx
  BY <1>1, <1>3, Typed, SplitAt
<1> HIDE DEF field
<1>5. fields' \in Seq(Seq(Byte))
  BY <1>1, <1>4, Typed, AppendProperties
<1>6. TypeOK'
  <2>1. byteCount' \in 0 .. Dword - 1
    BY <1>1, <1>2, <1>3, MinusTyped
  <2>2. sm' \in {"parse", "reply"} /\ Len(rx') <= RxSize
    BY <1>1, <1>3, <1>4, Typed, Constants DEF IndInv, TypeOK
  <2> QED BY <1>1, <1>4, <2>1, <2>2 DEF IndInv, TypeOK, net
<1>7. FieldsTyped' /\ Filling' /\ Waits'
  BY <1>1, <1>5 DEF FieldsTyped, Filling, Waits
<1>8. CASE strange # 0
  BY <1>1, <1>6, <1>7, <1>8 DEF IndInv, Parsing, FieldsAreTheBody
<1>9. CASE strange = 0
  <2>1. FlattenSeq(fields) \o rx = body /\ byteCount = Len(rx)
    BY <1>1, <1>9 DEF IndInv, Parsing
  <2>2. rx # <<>>
    BY <1>1, <2>1
  <2>3. \A i \in 1 .. Len(fields) : Last(fields[i]) = "&"
    BY <1>1, <1>9, <2>2 DEF IndInv, Parsing
  <2>4. Separators = {} => Taken = Len(rx)
    BY <2>1 DEF Taken
  <2>5. Taken >= 1 /\ Len(rx) \in Nat
    BY <1>1, <1>2, <1>3, <2>1, <2>4
  <2>6. fields' = Append(fields, field)
    BY <1>1, <1>3, <2>5
  <2>7. byteCount' = Len(rx')
    BY <1>1, <1>2, <1>3, <1>4, <2>1, MinusIs
  <2>8. FlattenSeq(fields') = FlattenSeq(fields) \o field /\ FlattenSeq(fields') \in Seq(Byte)
    <3>1. fields \in Seq(Seq(Byte)) /\ FlattenSeq(fields) \in Seq(Byte)
      BY Typed
    <3>2. FlattenSeq(Append(fields, field)) = FlattenSeq(fields) \o field
      BY ONLY <1>4, <3>1, FlattenAppend
    <3>3. FlattenSeq(fields) \o field \in Seq(Byte)
      BY ONLY <1>4, <3>1, ConcatProperties
    <3> QED BY ONLY <2>6, <3>2, <3>3
  <2>9. FlattenSeq(fields') \o rx' = body
    <3>1. (FlattenSeq(fields) \o field) \o rx' = FlattenSeq(fields) \o (field \o rx')
      <4>1. FlattenSeq(fields) \in Seq(Byte) /\ field \in Seq(Byte) /\ rx' \in Seq(Byte)
        BY <1>4, Typed
      <4>2. \A p, q, r \in Seq(Byte) : (p \o q) \o r = p \o (q \o r)
        BY ConcatAssociative, SMTT(30)
      <4> QED BY ONLY <4>1, <4>2, Zenon
    <3> QED BY <1>4, <2>1, <2>8, <3>1
  <2>10. /\ Len(fields) \in Nat /\ Len(fields') = Len(fields) + 1
         /\ \A i \in 1 .. Len(fields) : fields'[i] = fields[i]
         /\ fields'[Len(fields')] = field
    BY <1>4, <2>6, Typed, AppendProperties, SMTT(30)
  <2>11. Last(fields') = field /\ Last(field) = rx[Taken]
    BY <1>3, <1>4, <2>5, <2>10 DEF Last
  <2>12. body' = body /\ strange' = strange
    BY <1>1 DEF net
  <2>13. Parsing'
    <3> SUFFICES ASSUME rx' # <<>>, NEW i \in 1 .. Len(fields') PROVE Last(fields'[i]) = "&"
      BY <2>7, <2>9, <2>12 DEF Parsing
    <3>1. CASE i = Len(fields')
      <4>1. Taken # Len(rx)
        BY <1>4, <2>5
      <4>2. rx[Taken] = "&"
        BY <1>3, <2>4, <4>1
      <4> QED BY <2>10, <2>11, <3>1, <4>2
    <3>2. CASE i # Len(fields')
      <4>1. i \in 1 .. Len(fields)
        BY <2>10, <3>2
      <4> QED BY <2>3, <2>10, <4>1
    <3> QED BY <3>1, <3>2
  <2>14. FieldsAreTheBody'
    <3>1. IsPrefix(FlattenSeq(fields'), body')
      BY <1>4, <2>8, <2>9, <2>12, PrefixOfConcat
    <3>2. \A i \in 1 .. Len(fields') : \A j \in 1 .. Len(fields'[i]) - 1 : fields'[i][j] # "&"
      <4> SUFFICES ASSUME NEW i \in 1 .. Len(fields'), NEW j \in 1 .. Len(fields'[i]) - 1
                   PROVE  fields'[i][j] # "&"
        OBVIOUS
      <4>1. CASE i = Len(fields')
        <5>1. j \in 1 .. Taken - 1
          BY <1>4, <2>10, <4>1
        <5>2. j \in 1 .. Taken
          BY <1>3, <5>1
        <5>3. field[j] = rx[j] /\ rx[j] # "&"
          BY <1>3, <1>4, <5>1, <5>2
        <5> QED BY <2>10, <4>1, <5>3
      <4>2. CASE i # Len(fields')
        <5>1. i \in 1 .. Len(fields) /\ fields'[i] = fields[i]
          BY <2>10, <4>2
        <5>2. \A m \in 1 .. Len(fields) : \A n \in 1 .. Len(fields[m]) - 1 : fields[m][n] # "&"
          BY <1>1, <1>9 DEF IndInv, FieldsAreTheBody
        <5> QED BY <5>1, <5>2
      <4> QED BY <4>1, <4>2
    <3>3. \A i \in 1 .. Len(fields') - 1 : Last(fields'[i]) = "&"
      BY <2>3, <2>10
    <3>4. sm' = "reply" => "!" \in Range(Last(fields'))
      BY <1>1, <2>11
    <3> QED BY <3>1, <3>2, <3>3, <3>4 DEF FieldsAreTheBody
  <2> QED BY <1>6, <1>7, <2>13, <2>14 DEF IndInv
<1> QED BY <1>8, <1>9

-----------------------------------------------------------------------------
LEMMA NextKeeps == IndInv /\ [Next]_vars => IndInv'
<1> SUFFICES ASSUME IndInv, [Next]_vars PROVE IndInv'
  OBVIOUS
<1>1. CASE Arrive
  BY <1>1, ArriveKeeps
<1>2. CASE TimePasses
  BY <1>2, TimePassesKeeps
<1>3. CASE Gone \/ Expire \/ GiveUp
  BY <1>3, LeavingKeeps
<1>4. CASE NeedData
  BY <1>4, NeedDataKeeps
<1>5. CASE StartParsing
  BY <1>5, StartParsingKeeps
<1>6. CASE Turn
  BY <1>6, TurnKeeps
<1>7. CASE AllTaken
  BY <1>7, AllTakenKeeps
<1>8. CASE Overrun
  BY <1>8, OverrunKeeps
<1>9. CASE UNCHANGED vars
  BY <1>9 DEF IndInv, TypeOK, FieldsTyped, Filling, Waits, Parsing, FieldsAreTheBody, vars, net, conn
<1> QED BY <1>1, <1>2, <1>3, <1>4, <1>5, <1>6, <1>7, <1>8, <1>9 DEF Next, Pass, Handler

LEMMA Inductive == Spec => []IndInv
<1>1. Init => IndInv
  BY InitIndInv
<1>2. IndInv /\ [Next]_vars => IndInv'
  BY NextKeeps
<1> QED BY <1>1, <1>2, PTL DEF Spec

\* Every variable of a posted form keeps to its type, and the state "error",
\* in which SM_HTTP_PROCESS_POST would answer with an internal error, is never
\* entered: TooBig has turned down what the FIFO cannot hold.
THEOREM PostFormTyped == Spec => []TypeOK
<1>1. IndInv => TypeOK
  BY DEF IndInv
<1> QED BY <1>1, Inductive, PTL

\* The fields that HTTPPostConfig and HTTPPostPass take are the body, cut
\* behind each "&", as long as nothing but the form was in the FIFO when they
\* started and until a field is too long for curHTTP.data, where the code has
\* no bound; and all of the body, if they refused none.
THEOREM FieldsTaken == Spec => []FieldsAreTheBody
<1>1. IndInv => FieldsAreTheBody
  BY DEF IndInv
<1> QED BY <1>1, Inductive, PTL

\* SM_HTTP_PROCESS_POST gives up on a silent browser after HTTP_TIMEOUT and
\* not before.
THEOREM SilenceIsWaitedFor == Spec => DroppedOnlyWhenSilent
<1>1. IndInv /\ [Next]_vars => [sm' = "disconnect" => sm = "disconnect" \/ silence = Timeout]_vars
  <2> SUFFICES ASSUME IndInv, Next, sm' = "disconnect", sm # "disconnect"
               PROVE  silence = Timeout
    OBVIOUS
  <2>1. Expire
    BY DEF Next, Arrive, TimePasses, Gone, Pass, GiveUp, NeedData, StartParsing, Handler, Turn,
           Overrun, AllTaken, conn
  <2>2. left + silence >= Timeout /\ left = 0
    BY <2>1 DEF IndInv, Waits, Expire, Expired
  <2> QED BY <2>2, Constants DEF IndInv, TypeOK
<1> QED BY <1>1, Inductive, PTL DEF Spec, DroppedOnlyWhenSilent

=============================================================================
