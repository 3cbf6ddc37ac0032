------------------------------ MODULE PostForm ------------------------------
(***************************************************************************)
(* A posted form on one HTTP connection: the state SM_HTTP_PROCESS_POST of *)
(* src/code/net/HTTP2.c and the loop over the form's fields that           *)
(* HTTPPostConfig and HTTPPostPass share (src/code/CustomHTTPApp.c).       *)
(*                                                                         *)
(* The browser sends body, whose length it announced, and may send a       *)
(* trailer behind it (some browsers end a form with CRLF).  TCP moves the  *)
(* bytes into the receive FIFO in the main loop, so nothing arrives while  *)
(* a handler runs.  What the fields change is the module Settings.         *)
(***************************************************************************)
EXTENDS Integers, SequencesExt

CONSTANTS
  Bodies,      \* bodies a browser may send
  Trailers,    \* what it may send behind the body
  RxSize,      \* bytes the socket's receive FIFO holds
  DataLen,     \* HTTP_MAX_DATA_LEN, bytes of curHTTP.data: 100
  Timeout,     \* HTTP_TIMEOUT, in ticks
  Dword        \* range of a DWORD: 2^32

\* "&" separates fields, "!" marks a field that the handler refuses, "c" is
\* any other character.
Byte == {"&", "!", "c"}

ASSUME PostAssumption ==
  /\ Bodies \subseteq Seq(Byte) /\ Trailers \subseteq Seq(Byte)
  /\ {RxSize, DataLen, Timeout} \subseteq Nat \ {0} /\ Dword \in Nat
  /\ \A b \in Bodies : Len(b) < Dword
  /\ RxSize < Dword

VARIABLES
  body, trailer,  \* what the browser sends
  pending,        \* the bytes of it that have not arrived
  rx,             \* the receive FIFO
  byteCount,      \* curHTTP.byteCount
  callbackPos,    \* curHTTP.callbackPos; -1 is 0xffffffff
  left,           \* ticks until curHTTP.callbackID is reached
  sm,             \* the connection's state; "parse" is inside the handler,
                  \* "undefined" is behind an overrun of curHTTP.data
  fields,         \* the fields the handler has taken, in order
  silence,        \* history: ticks since a byte arrived, up to Timeout
  strange         \* history: bytes of the trailer in rx when parsing began

net == <<body, trailer, pending>>
conn == <<byteCount, callbackPos, left, sm>>
vars == <<net, rx, conn, fields, silence, strange>>

-----------------------------------------------------------------------------
\* The loop of StackTask puts what has arrived into the FIFO.
Arrive ==
  /\ pending # <<>> /\ Len(rx) < RxSize /\ sm = "post"
  /\ rx' = Append(rx, Head(pending))
  /\ pending' = Tail(pending)
  /\ silence' = 0
  /\ UNCHANGED <<body, trailer, conn, fields, strange>>

TimePasses ==
  /\ sm = "post" /\ (left > 0 \/ silence < Timeout)
  /\ left' = IF left > 0 THEN left - 1 ELSE 0
  /\ silence' = IF silence < Timeout THEN silence + 1 ELSE silence
  /\ UNCHANGED <<net, rx, byteCount, callbackPos, sm, fields, strange>>

\* TCPWasReset: the browser is gone.
Gone ==
  /\ sm = "post"
  /\ sm' = "idle"
  /\ UNCHANGED <<net, rx, byteCount, callbackPos, left, fields, silence, strange>>

-----------------------------------------------------------------------------
(* SM_HTTP_PROCESS_POST. *)

\* Mutant: the arrival of new data is not looked at.
ExpiredAnyway == left = 0

\* No new data since the last pass, and the deadline has gone by.
Expired == Len(rx) = callbackPos /\ left = 0

\* Mutant: the limit is one off.
TooBigByOne == byteCount > RxSize + 1

\* byteCount > TCPIsGetReady() + TCPGetRxFIFOFree()
TooBig == byteCount > Len(rx) + (RxSize - Len(rx))

Incomplete == Len(rx) < byteCount

Expire ==
  /\ sm = "post" /\ Expired
  /\ sm' = "disconnect"
  /\ UNCHANGED <<net, rx, byteCount, callbackPos, left, fields, silence, strange>>

\* The handler gives up on a form its FIFO can never hold.
GiveUp ==
  /\ sm = "post" /\ ~Expired /\ TooBig
  /\ sm' = "reply"
  /\ UNCHANGED <<net, rx, byteCount, callbackPos, left, fields, silence, strange>>

\* HTTP_IO_NEED_DATA: wait for more, unless no more can come.
NeedData ==
  /\ sm = "post" /\ ~Expired /\ ~TooBig /\ Incomplete
  /\ callbackPos' = Len(rx)
  /\ left' = Timeout
  /\ sm' = IF byteCount > Len(rx) /\ Len(rx) # RxSize THEN "post" ELSE "error"
  /\ UNCHANGED <<net, rx, byteCount, fields, silence, strange>>

StartParsing ==
  /\ sm = "post" /\ ~Expired /\ ~TooBig /\ ~Incomplete
  /\ sm' = "parse"
  /\ strange' = IF Len(trailer) > Len(pending) THEN Len(trailer) - Len(pending) ELSE 0
  /\ UNCHANGED <<net, rx, byteCount, callbackPos, left, fields, silence>>

Pass == Expire \/ GiveUp \/ NeedData \/ StartParsing

-----------------------------------------------------------------------------
(* The loop over the fields. *)

Separators == {i \in 1 .. Len(rx) : rx[i] = "&"}

\* Mutant: no case for the field that no "&" ends.
TakenSeparated == IF Separators # {} THEN Min(Separators) ELSE 0

\* Mutant: one byte too many.
TakenOneMore ==
  IF Separators # {} THEN Min({Min(Separators) + 1, Len(rx)})
  ELSE IF Len(rx) = byteCount THEN byteCount ELSE 0

\* How many bytes a turn takes: up to the first "&" in the FIFO, wherever the
\* body ends; without one all of the body, if the FIFO holds nothing else;
\* and else none, for 0xFFFF + 1 is 0 in a WORD.
Taken ==
  IF Separators # {} THEN Min(Separators)
  ELSE IF Len(rx) = byteCount THEN byteCount ELSE 0

Minus(a, b) == (a - b + Dword) % Dword

\* The field is copied to curHTTP.data and a 0 is put behind it.
Turn ==
  /\ sm = "parse" /\ byteCount # 0 /\ Taken < DataLen
  /\ LET field == SubSeq(rx, 1, Taken)
     IN /\ rx' = SubSeq(rx, Taken + 1, Len(rx))
        /\ byteCount' = Minus(byteCount, Taken)
        /\ fields' = IF Taken > 0 THEN Append(fields, field) ELSE fields
        /\ sm' = IF "!" \in Range(field) THEN "reply" ELSE "parse"
  /\ UNCHANGED <<net, callbackPos, left, silence, strange>>

\* The copy has no bound: a field that leaves no place for the 0 is written
\* over what lies behind curHTTP.data.  Nothing is known of the program then,
\* and the model ends.
Overrun ==
  /\ sm = "parse" /\ byteCount # 0 /\ Taken >= DataLen
  /\ sm' = "undefined"
  /\ UNCHANGED <<net, rx, byteCount, callbackPos, left, fields, silence, strange>>

AllTaken ==
  /\ sm = "parse" /\ byteCount = 0
  /\ sm' = "reply"
  /\ UNCHANGED <<net, rx, byteCount, callbackPos, left, fields, silence, strange>>

-----------------------------------------------------------------------------
Init ==
  /\ body \in Bodies /\ trailer \in Trailers /\ pending = body \o trailer
  /\ rx = <<>> /\ byteCount = Len(body)
  /\ callbackPos = -1 /\ left = Timeout
  /\ sm = "post" /\ fields = <<>> /\ silence = 0 /\ strange = 0

Handler == Turn \/ Overrun \/ AllTaken

Next == Arrive \/ TimePasses \/ Gone \/ Pass \/ Handler

\* Time goes on, the main loop serves the connection on every pass, and a
\* handler goes on until it returns.
Spec == Init /\ [][Next]_vars /\ WF_vars(TimePasses) /\ WF_vars(Pass) /\ WF_vars(Handler)

-----------------------------------------------------------------------------
(* Properties. *)

\* Every variable keeps to its type, and the internal error is never reached:
\* the check of a form's length has already turned down one that cannot fit.
TypeOK ==
  /\ body \in Bodies /\ trailer \in Trailers
  /\ rx \in Seq(Byte) /\ pending \in Seq(Byte) /\ Len(rx) <= RxSize
  /\ byteCount \in 0 .. Dword - 1
  /\ callbackPos \in -1 .. RxSize /\ left \in 0 .. Timeout
  /\ sm \in {"post", "parse", "reply", "disconnect", "idle", "undefined"}
  /\ silence \in 0 .. Timeout /\ strange \in 0 .. Len(trailer)

\* As long as nothing but the form is in the FIFO when the handler starts,
\* and until a field overruns curHTTP.data, the fields the handler takes, put
\* together, are the body from its start, cut right behind each "&"; when it
\* answers without having refused one, all of it.
FieldsAreTheBody ==
  strange = 0 /\ sm # "undefined" =>
    /\ IsPrefix(FlattenSeq(fields), body)
    /\ \A i \in 1 .. Len(fields) : \A j \in 1 .. Len(fields[i]) - 1 : fields[i][j] # "&"
    /\ \A i \in 1 .. Len(fields) - 1 : Last(fields[i]) = "&"
    /\ sm = "reply" /\ fields # <<>> /\ "!" \notin Range(Last(fields)) => FlattenSeq(fields) = body

\* A connection is dropped for its silence only if the browser has been
\* silent for the whole of HTTP_TIMEOUT.
DroppedOnlyWhenSilent ==
  [][sm' = "disconnect" => sm = "disconnect" \/ silence = Timeout]_vars

\* Some field does not fit into curHTTP.data with the 0 behind it.
TooLong(form) ==
  \E p \in 1 .. Len(form) - DataLen + 1 : \A i \in p .. p + DataLen - 2 : form[i] # "&"

\* A form that has arrived, and nothing behind it, is answered, if each of its
\* fields fits into curHTTP.data.
Answered ==
  pending = <<>> /\ trailer = <<>> /\ ~TooLong(body)
    ~> sm \notin {"post", "parse", "undefined"}
=============================================================================
