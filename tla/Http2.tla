------------------------------- MODULE Http2 -------------------------------
(***************************************************************************)
(* The web server, src/code/net/HTTP2.c, over the page file system,        *)
(* src/code/net/MPFS2.c.  One context of a connection, curHTTP, is in RAM; *)
(* the others are saved in the Ethernet chip's RAM.  HTTPServer visits the *)
(* connections in turn, and during a visit HTTPProcess takes one step per  *)
(* state it passes through, each an action below.  The network acts        *)
(* between visits only, in StackTask; the clock moves at any time.         *)
(*                                                                         *)
(* Bytes are abstracted to tokens: a request is a few pieces, a page a     *)
(* sequence of tokens in which "~", name, "~" calls for a variable.        *)
(* TCP is abstracted to what its interface shows; its module is Tcp.  The  *)
(* form behind a POST, and its deadline, are in PostForm and Settings.     *)
(***************************************************************************)
EXTENDS Integers, Sequences, FiniteSets

CONSTANTS
  Conns, NoConn,    \* MAX_HTTP_CONNECTIONS connections
  MaxHandles,       \* MAX_MPFS_HANDLES
  Content,          \* per page, the tokens of its file
  Index,            \* per page, its index file: offset, variable, offset...
  Protected,        \* pages (and other names) that HTTPNeedsAuth protects
  Forms,            \* pages whose POST reads a form
  Prints,           \* per variable, what its HTTPPrint_ function prints
  Verdict,          \* the variable that prints curHTTP.data[0]
  Requests,         \* per connection, requests its browsers send
  Browsers,         \* per connection, how many browsers come
  TxRoom,           \* tokens the transmit FIFO holds
  MinFree           \* HTTP_MIN_CALLBACK_FREE

Pages == DOMAIN Content
Sizes == {"fits", "flood", "name", "args", "headers", "cookie", "length"}

ASSUME HttpAssumption ==
  /\ NoConn \notin Conns /\ IsFiniteSet(Conns)
  /\ MaxHandles = 2 * Cardinality(Conns) + 1
  /\ Forms \subseteq Pages /\ DOMAIN Index = Pages
  /\ TxRoom \in Nat \ {0, 1} /\ MinFree \in Nat \ {0}

Huge == 1000                            \* 0xffffffff

IsTuple(s) == Len(s) \in Nat /\ s = [i \in 1 .. Len(s) |-> s[i]]

\* No variable is called for in a text behind one place and up to another.
Plain(text, from, to) == \A i \in from + 1 .. to : text[i] # "~"

\* The place behind the variable before the one at k in an index.
Behind(index, k) == IF k = 1 THEN 0 ELSE index[k - 2] + 3

\* The index that the tool makes of a page has the offset and the name of
\* each variable in turn, and leaves none out.
WellIndexed(text, index) ==
  /\ IsTuple(text) /\ Len(text) < Huge
  /\ IsTuple(index) /\ Len(index) % 2 = 0
  /\ index = <<>> => Plain(text, 0, Len(text))
  /\ \A k \in 1 .. Len(index) : k % 2 = 1 =>
       /\ index[k] \in Behind(index, k) .. Len(text) - 3
       /\ text[index[k] + 1] = "~" /\ text[index[k] + 3] = "~"
       /\ text[index[k] + 2] = index[k + 1] /\ index[k + 1] # "~"
       /\ index[k + 1] # Verdict => IsTuple(Prints[index[k + 1]])
       /\ Plain(text, Behind(index, k), index[k])
       /\ k + 1 = Len(index) => Plain(text, index[k] + 3, Len(text))

ASSUME PagesAssumption == \A page \in Pages : WellIndexed(Content[page], Index[page])

VARIABLES
  curHTTP, curHTTPID,   \* the context in RAM and whose it is
  saved,                \* the contexts in the Ethernet RAM
  sm,                   \* per connection, httpStubs[].sm
  mpfs,                 \* MPFSStubs: per handle the file and the place in it
  active,               \* the connection HTTPProcess is running for
  expired,              \* per connection, whether callbackID lies in the past
  sock,                 \* per connection, its socket
  client,               \* per connection, its browser
  toCome                \* per connection, browsers still to come

vars == <<curHTTP, curHTTPID, saved, sm, mpfs, active, expired, sock, client, toCome>>
memory == <<curHTTP, curHTTPID, saved, sm, mpfs, active>>

Lesser(a, b) == IF a < b THEN a ELSE b
None == "none"
-----------------------------------------------------------------------------
(* The page file system.  A handle is free when it has no file.            *)

Handles == 1 .. MaxHandles
Free == [file |-> None, of |-> None, pos |-> 0]

\* Both ways to open a file take the first free handle, and refuse when it is
\* the last one.
Available == {h \in Handles : mpfs[h] = Free}
FirstOf(free) == CHOOSE h \in free : \A k \in free : h <= k
MPFSHandle(free) == IF free \subseteq {MaxHandles} THEN 0 ELSE FirstOf(free)

\* Closing handle 0, MPFS_INVALID_HANDLE, does nothing.
MPFSClose(handles) ==
  mpfs' = [h \in Handles |-> IF h \in handles THEN Free ELSE mpfs[h]]

FileOf(h) ==
  IF mpfs[h].file = "index" THEN Index[mpfs[h].of] ELSE Content[mpfs[h].of]
Rest(h) == Len(FileOf(h)) - mpfs[h].pos
-----------------------------------------------------------------------------
(* Sockets, as far as the server sees them.  "half" is CLOSE_WAIT, "cut" a *)
(* connection that TCP closed by itself from there, "closing" one that the *)
(* server closed.                                                          *)

Listening == [st |-> "listen", reset |-> TRUE, rx |-> <<>>, tx |-> 0]

\* A second call, and one on a socket that has no peer, resets the connection.
TCPDisconnect(s) ==
  IF s.st \in {"open", "half"} THEN [s EXCEPT !.st = "closing", !.rx = <<>>]
  ELSE Listening

TCPIsPutReady(s) == IF s.st \in {"open", "half"} THEN TxRoom - s.tx ELSE 0

\* TCPPutArray takes as much as there is room for; the server never looks at
\* how much that was.
Accepted(s, out) == SubSeq(out, 1, Lesser(Len(out), TCPIsPutReady(s)))
TCPPut(c, s, out) ==
  /\ sock' = [sock EXCEPT ![c] = [s EXCEPT !.tx = @ + Len(Accepted(s, out))]]
  /\ client' = [client EXCEPT ![c].got = @ \o Accepted(s, out)]

\* Whether a whole line is there; a "flood" is a FIFO full without an end.
LineThere(s) == s.rx # <<>> /\ Head(s.rx).kind # "flood"
-----------------------------------------------------------------------------
(* HTTPServer.                                                             *)

FreshContext ==
  [file |-> 0, offsets |-> 0, status |-> "GET", isAuthorized |-> TRUE,
   nextCallback |-> 0, byteCount |-> 0, data |-> "unknown", callbackID |-> None]

\* The context of c, wherever it is.
Context(c) == IF c = curHTTPID THEN curHTTP ELSE saved[c]

\* (A mutant: the former context is not saved.)
HTTPLoadConnUnsaved(c) == curHTTPID' = c /\ UNCHANGED saved

HTTPLoadConn(c) ==
  /\ curHTTPID' = c
  /\ saved' = IF c = curHTTPID THEN saved ELSE [saved EXCEPT ![curHTTPID] = curHTTP]

\* The socket was reset since the last visit: what the former browser left
\* behind is put away.
PutAway(c) ==
  /\ active = NoConn /\ sock[c].reset
  /\ HTTPLoadConn(c)
  /\ curHTTP' = [Context(c) EXCEPT !.file = 0, !.offsets = 0]
  /\ MPFSClose({Context(c).file, Context(c).offsets})
  /\ sm' = [sm EXCEPT ![c] = "IDLE"]
  /\ sock' = [sock EXCEPT ![c].reset = FALSE]
  /\ active' = IF sock[c].rx # <<>> THEN c ELSE NoConn
  /\ UNCHANGED <<expired, client, toCome>>

Visit(c) ==
  /\ active = NoConn /\ ~sock[c].reset
  /\ sm[c] # "IDLE" \/ sock[c].rx # <<>>
  /\ HTTPLoadConn(c)
  /\ curHTTP' = Context(c)
  /\ active' = c
  /\ UNCHANGED <<sm, mpfs, expired, sock, client, toCome>>
-----------------------------------------------------------------------------
(* HTTPProcess.  "done" is isDone: the visit ends.                         *)

In(c, state) == active = c /\ sm[c] = state

Go(c, to, done) ==
  /\ sm' = [sm EXCEPT ![c] = to]
  /\ active' = IF done THEN NoConn ELSE c
  /\ UNCHANGED <<curHTTPID, saved, toCome>>

Refuse(c, status) ==
  /\ curHTTP' = [curHTTP EXCEPT !.status = status]
  /\ Go(c, "SERVE_HEADERS", FALSE)

Begin(c) ==
  /\ In(c, "IDLE")
  /\ curHTTP' = [curHTTP EXCEPT !.isAuthorized = TRUE, !.byteCount = 0]
  /\ expired' = [expired EXCEPT ![c] = FALSE]
  /\ Go(c, "PARSE_REQUEST", FALSE)
  /\ UNCHANGED <<mpfs, sock, client>>


\* No whole line yet: overflow, timeout, or come back.  (A cookie too long has
\* already asked for SERVE_HEADERS, and now gets it.)
Await(c) ==
  /\ In(c, "PARSE_REQUEST") \/ In(c, "PARSE_HEADERS")
  /\ ~LineThere(sock[c])
  /\ LET full == sock[c].rx # <<>> IN
       /\ curHTTP' = [curHTTP EXCEPT !.status = IF full THEN "OVERFLOW" ELSE @]
       /\ \/ /\ expired[c]
             /\ sock' = [sock EXCEPT ![c] = TCPDisconnect(sock[c])]
             /\ Go(c, "DISCONNECT", FALSE)
          \/ /\ ~expired[c]
             /\ IF full THEN Go(c, "SERVE_HEADERS", FALSE)
                ELSE IF sm[c] = "PARSE_HEADERS" /\ curHTTP.status = "OVERFLOW"
                THEN Go(c, "SERVE_HEADERS", TRUE)
                ELSE Go(c, sm[c], TRUE)
             /\ UNCHANGED sock
  /\ UNCHANGED <<mpfs, expired, client>>

\* The page's file and, when it has one, its index.
OpenPage(c, r) ==
  LET h == IF r.page \in Pages THEN MPFSHandle(Available) ELSE 0
      i == IF h # 0 /\ Index[r.page] # <<>> THEN MPFSHandle(Available \ {h}) ELSE 0
  IN /\ curHTTP' = [curHTTP EXCEPT
            !.file = h,
            !.offsets = IF h # 0 /\ Index[r.page] # <<>> THEN i ELSE @,
            !.isAuthorized = r.page \notin Protected,
            !.data = "unknown",
            !.status = IF r.size = "args" THEN "OVERFLOW" ELSE r.method]
     /\ mpfs' = [k \in Handles |->
            CASE k = h -> [file |-> "page", of |-> r.page, pos |-> 0]
              [] k = i -> [file |-> "index", of |-> r.page, pos |-> 0]
              [] OTHER -> mpfs[k]]

\* What is left of a refused request stays in the FIFO until SERVE_HEADERS.
ParseRequest(c) ==
  /\ In(c, "PARSE_REQUEST") /\ LineThere(sock[c])
  /\ expired' = [expired EXCEPT ![c] = FALSE]
  /\ LET r == Head(sock[c].rx).of IN
       \/ /\ r.method \notin {"GET", "POST"}
          /\ Refuse(c, "NOT_IMPLEMENTED")
          /\ UNCHANGED <<mpfs, sock>>
       \/ /\ r.method \in {"GET", "POST"} /\ r.size = "name"
          /\ Refuse(c, "OVERFLOW")
          /\ UNCHANGED <<mpfs, sock>>
       \/ /\ r.method \in {"GET", "POST"} /\ r.size # "name"
          /\ OpenPage(c, r)
          /\ IF r.size = "args"
             THEN Go(c, "SERVE_HEADERS", FALSE) /\ UNCHANGED sock
             ELSE /\ Go(c, "PARSE_HEADERS", FALSE)
                  /\ sock' = [sock EXCEPT ![c].rx = Tail(@)]
  /\ UNCHANGED client

\* Header by header; the empty line ends them.  A cookie or a length that is
\* too long changes the status and the headers are read on.
ParseHeaders(c) ==
  /\ In(c, "PARSE_HEADERS") /\ LineThere(sock[c])
  /\ expired' = [expired EXCEPT ![c] = FALSE]
  /\ sock' = [sock EXCEPT ![c].rx = Tail(@)]
  /\ LET header == Head(sock[c].rx) IN
       /\ curHTTP' = [curHTTP EXCEPT
            !.isAuthorized = @ \/ (header.kind = "auth" /\ header.of.creds),
            !.status = CASE header.kind = "cookie" -> "OVERFLOW"
                         [] header.kind = "length" /\ header.of.size = "length" -> "BAD_REQUEST"
                         [] OTHER -> @,
            !.byteCount = CASE header.kind = "length" /\ header.of.size = "length" -> 0
                            [] header.kind = "length" /\ header.of.size # "length" -> 1
                            [] OTHER -> @]
       /\ Go(c, IF header.kind = "blank" THEN "AUTHENTICATE" ELSE sm[c], FALSE)
  /\ UNCHANGED <<mpfs, client>>

\* With its HTTPExecuteGet, which never waits.
Authenticate(c) ==
  /\ In(c, "AUTHENTICATE")
  /\ \/ ~curHTTP.isAuthorized /\ Refuse(c, "UNAUTHORIZED")
     \/ /\ curHTTP.isAuthorized
        /\ Go(c, "PROCESS_POST", FALSE) /\ UNCHANGED curHTTP
  /\ UNCHANGED <<mpfs, expired, sock, client>>

\* HTTPExecutePost looks the page's name up.  Without a page the name is an
\* uninitialized array, which may hold that of an earlier form.
ReadsForm ==
  IF curHTTP.file = 0 THEN BOOLEAN ELSE {mpfs[curHTTP.file].of \in Forms}

\* The form is read when its body is there, else the visit ends.
ProcessPost(c) ==
  /\ In(c, "PROCESS_POST")
  /\ \/ /\ curHTTP.status # "POST" \/ FALSE \in ReadsForm
        /\ UNCHANGED <<curHTTP, sock>>
        /\ Go(c, "PROCESS_REQUEST", FALSE)
     \/ /\ curHTTP.status = "POST" /\ TRUE \in ReadsForm /\ sock[c].rx # <<>>
        /\ curHTTP' = [curHTTP EXCEPT !.data = Head(sock[c].rx).of.form, !.byteCount = 0]
        /\ sock' = [sock EXCEPT ![c].rx = Tail(@)]
        /\ Go(c, "PROCESS_REQUEST", FALSE)
     \/ /\ curHTTP.status = "POST" /\ TRUE \in ReadsForm /\ sock[c].rx = <<>>
        /\ UNCHANGED <<curHTTP, sock>>
        /\ Go(c, "PROCESS_POST", TRUE)
  /\ UNCHANGED <<mpfs, expired, client>>

\* The first number of the index is the offset of the first variable.
ProcessRequest(c) ==
  /\ In(c, "PROCESS_REQUEST")
  /\ \/ /\ curHTTP.file = 0
        /\ Refuse(c, "NOT_FOUND") /\ UNCHANGED mpfs
     \/ /\ curHTTP.file # 0
        /\ Go(c, "SERVE_HEADERS", FALSE)
        /\ LET index == curHTTP.offsets # 0 IN
             /\ curHTTP' = [curHTTP EXCEPT !.byteCount = 0,
                  !.nextCallback = IF index THEN FileOf(curHTTP.offsets)[1] ELSE Huge]
             /\ mpfs' = IF index THEN [mpfs EXCEPT ![curHTTP.offsets].pos = 1] ELSE mpfs
  /\ UNCHANGED <<expired, sock, client>>

\* The receive FIFO gives its room to the transmit FIFO, with what is in it.
ServeHeaders(c) ==
  /\ In(c, "SERVE_HEADERS")
  /\ LET page == curHTTP.status \in {"GET", "POST"}
         cache == IF curHTTP.status = "POST" \/ curHTTP.nextCallback # Huge
                  THEN "no-cache" ELSE "max-age"
     IN /\ TCPPut(c, [sock[c] EXCEPT !.rx = <<>>],
                  IF page THEN <<curHTTP.status, cache>> ELSE <<curHTTP.status>>)
        /\ IF page THEN Go(c, "SERVE_BODY", FALSE) ELSE Go(c, "DISCONNECT", TRUE)
  /\ UNCHANGED <<curHTTP, mpfs, expired>>
-----------------------------------------------------------------------------
(* HTTPSendFile: the file up to the next variable or as far as there is    *)
(* room, then over the variable's place to behind its second "~".          *)

Bytes == Lesser(TCPIsPutReady(sock[active]), curHTTP.nextCallback - curHTTP.byteCount)
EndOfFile == Bytes > Rest(curHTTP.file)
AtVariable == curHTTP.byteCount + Bytes = curHTTP.nextCallback

\* Places skipped: both "~" and what stands between them.
Skipped(h, pos) ==
  2 + (CHOOSE n \in 0 .. Len(FileOf(h)) :
         /\ FileOf(h)[pos + 2 + n] = "~"
         /\ \A k \in 0 .. n - 1 : FileOf(h)[pos + 2 + k] # "~")

\* The variable's name and the next offset; the index is closed at its end.
TakeVariable(h, pos) ==
  LET i == curHTTP.offsets
      last == Rest(i) = 1
  IN /\ mpfs' = [mpfs EXCEPT ![h].pos = pos + Skipped(h, pos),
                             ![i] = IF last THEN Free ELSE [mpfs[i] EXCEPT !.pos = @ + 2]]
     /\ curHTTP' = [curHTTP EXCEPT
            !.byteCount = @ + Bytes + Skipped(h, pos),
            !.callbackID = FileOf(i)[mpfs[i].pos + 1],
            !.nextCallback = IF last THEN Huge ELSE FileOf(i)[mpfs[i].pos + 2],
            !.offsets = IF last THEN 0 ELSE i]

ServeBody(c) ==
  /\ In(c, "SERVE_BODY")
  /\ LET h == curHTTP.file
         from == mpfs[h].pos
         out == SubSeq(FileOf(h), from + 1, Lesser(from + Bytes, Len(FileOf(h))))
         full == Bytes = TCPIsPutReady(sock[c])
     IN /\ TCPPut(c, sock[c], out)
        /\ \/ /\ EndOfFile
              /\ MPFSClose({h})
              /\ curHTTP' = [curHTTP EXCEPT !.file = 0]
              /\ Go(c, "DISCONNECT", TRUE)
           \/ /\ ~EndOfFile /\ AtVariable
              /\ TakeVariable(h, from + Bytes)
              /\ Go(c, "SEND_FROM_CALLBACK", full)
           \/ /\ ~EndOfFile /\ ~AtVariable
              /\ mpfs' = [mpfs EXCEPT ![h].pos = from + Bytes]
              /\ curHTTP' = [curHTTP EXCEPT !.byteCount = @ + Bytes]
              /\ Go(c, "SERVE_BODY", full)
  /\ UNCHANGED expired

Printed(variable, data) == IF variable = Verdict THEN <<data>> ELSE Prints[variable]

\* (A mutant: the callback is called whatever room there is.)
SendFromCallbackAnyway(c) ==
  /\ In(c, "SEND_FROM_CALLBACK")
  /\ TCPPut(c, sock[c], Printed(curHTTP.callbackID, curHTTP.data))
  /\ Go(c, "SERVE_BODY", FALSE)
  /\ UNCHANGED <<curHTTP, mpfs, expired>>

\* None of the HTTPPrint_ functions asks to be called again.
SendFromCallback(c) ==
  /\ In(c, "SEND_FROM_CALLBACK")
  /\ \/ /\ TCPIsPutReady(sock[c]) < MinFree
        /\ Go(c, sm[c], TRUE) /\ UNCHANGED <<sock, client>>
     \/ /\ TCPIsPutReady(sock[c]) >= MinFree
        /\ TCPPut(c, sock[c], Printed(curHTTP.callbackID, curHTTP.data))
        /\ Go(c, "SERVE_BODY", FALSE)
  /\ UNCHANGED <<curHTTP, mpfs, expired>>

\* (A mutant: the index stays open.)
DisconnectKeepsIndex(c) ==
  /\ In(c, "DISCONNECT")
  /\ MPFSClose({curHTTP.file})
  /\ curHTTP' = [curHTTP EXCEPT !.file = 0, !.offsets = 0]
  /\ sock' = [sock EXCEPT ![c] = TCPDisconnect(sock[c])]
  /\ Go(c, "IDLE", TRUE)
  /\ UNCHANGED <<expired, client>>

Disconnect(c) ==
  /\ In(c, "DISCONNECT")
  /\ MPFSClose({curHTTP.file, curHTTP.offsets})
  /\ curHTTP' = [curHTTP EXCEPT !.file = 0, !.offsets = 0]
  /\ sock' = [sock EXCEPT ![c] = TCPDisconnect(sock[c])]
  /\ Go(c, "IDLE", TRUE)
  /\ UNCHANGED <<expired, client>>

HTTPProcess(c) ==
  \/ Begin(c) \/ Await(c) \/ ParseRequest(c) \/ ParseHeaders(c) \/ Authenticate(c)
  \/ ProcessPost(c) \/ ProcessRequest(c) \/ ServeHeaders(c) \/ ServeBody(c)
  \/ SendFromCallback(c) \/ Disconnect(c)
-----------------------------------------------------------------------------
(* The browsers and the network.                                           *)

NoRequest == [method |-> None, page |-> None, creds |-> FALSE, size |-> None, form |-> None]
NoClient == [req |-> NoRequest, pending |-> <<>>, got |-> <<>>]

Piece(kind, r) == [kind |-> kind, of |-> r]
When(condition, piece) == IF condition THEN <<piece>> ELSE <<>>
Pieces(r) ==
  IF r.size = "flood" THEN <<Piece("flood", r)>>
  ELSE <<Piece("line", r)>>
         \o (When(r.creds, Piece("auth", r))
         \o (When(r.size = "cookie", Piece("cookie", r))
         \o (When(r.size = "length" \/ r.method = "POST", Piece("length", r))
         \o (IF r.size = "headers" THEN <<Piece("flood", r)>>
             ELSE <<Piece("blank", r)>> \o When(r.method = "POST", Piece("body", r))))))

\* The network acts between the server's visits.
Quiet == active = NoConn /\ UNCHANGED <<memory, expired>>

Connect(c) ==
  /\ Quiet /\ sock[c].st = "listen" /\ toCome[c] > 0
  /\ toCome' = [toCome EXCEPT ![c] = @ - 1]
  /\ \E r \in Requests[c] :
       client' = [client EXCEPT ![c] = [req |-> r, pending |-> Pieces(r), got |-> <<>>]]
  /\ sock' = [sock EXCEPT ![c].st = "open"]

\* Once the answer is under way the receive FIFO holds a single byte.
Arrive(c) ==
  /\ Quiet /\ sock[c].st = "open" /\ client[c].pending # <<>>
  /\ sm[c] \notin {"SERVE_HEADERS", "SERVE_BODY", "SEND_FROM_CALLBACK", "DISCONNECT"}
  /\ sock' = [sock EXCEPT ![c].rx = Append(@, Head(client[c].pending))]
  /\ client' = [client EXCEPT ![c].pending = Tail(@)]
  /\ UNCHANGED toCome

Read(c) ==
  /\ Quiet /\ sock[c].tx > 0
  /\ sock' = [sock EXCEPT ![c].tx = @ - 1]
  /\ UNCHANGED <<client, toCome>>

\* The browser's FIN behind its request.
HalfClose(c) ==
  /\ Quiet /\ sock[c].st = "open" /\ client[c].pending = <<>>
  /\ sock' = [sock EXCEPT ![c].st = "half"]
  /\ UNCHANGED <<client, toCome>>

\* TCPTick closes a connection that the browser has closed, if the server
\* does not do it in time.
CloseWaitTimer(c) ==
  /\ Quiet /\ sock[c].st = "half"
  /\ sock' = [sock EXCEPT ![c].st = "cut", ![c].rx = <<>>]
  /\ UNCHANGED <<client, toCome>>

\* The last acknowledgment, or the last retry.
Closed(c) ==
  /\ Quiet /\ sock[c].st \in {"closing", "cut"}
  /\ sock' = [sock EXCEPT ![c] = Listening]
  /\ client' = [client EXCEPT ![c] = NoClient]
  /\ UNCHANGED toCome

Reset(c) ==
  /\ Quiet /\ sock[c].st # "listen"
  /\ sock' = [sock EXCEPT ![c] = Listening]
  /\ client' = [client EXCEPT ![c] = NoClient]
  /\ UNCHANGED toCome

Network(c) ==
  \/ Connect(c) \/ Arrive(c) \/ Read(c) \/ HalfClose(c) \/ CloseWaitTimer(c)
  \/ Closed(c) \/ Reset(c)

\* HTTP_TIMEOUT passes.  (In PROCESS_POST every visit sets it anew.)
Deadline(c) ==
  /\ sm[c] \in {"PARSE_REQUEST", "PARSE_HEADERS"} /\ ~expired[c]
  /\ expired' = [expired EXCEPT ![c] = TRUE]
  /\ UNCHANGED <<memory, sock, client, toCome>>
-----------------------------------------------------------------------------
\* HTTPInit.  (The connections are alike: any of them may be the first.)
Init ==
  /\ curHTTP = FreshContext
  /\ curHTTPID \in Conns
  /\ saved = [c \in Conns |-> FreshContext]
  /\ sm = [c \in Conns |-> "IDLE"]
  /\ mpfs = [h \in Handles |-> Free]
  /\ active = NoConn
  /\ expired = [c \in Conns |-> FALSE]
  /\ sock = [c \in Conns |-> Listening]
  /\ client = [c \in Conns |-> NoClient]
  /\ toCome = Browsers

Next == \E c \in Conns :
  PutAway(c) \/ Visit(c) \/ HTTPProcess(c) \/ Network(c) \/ Deadline(c)

SafeSpec == Init /\ [][Next]_vars

\* The main loop visits every connection in turn and runs StackTask between the
\* rounds, so both get their turn whenever they keep having something to do:
\* hence SF, for a round makes the network wait and the other way about.  A
\* connection that either side closes, closes.  Time passes.  Nothing is asked
\* of a browser.
Fairness == \A c \in Conns :
  /\ SF_vars(PutAway(c) \/ Visit(c)) /\ WF_vars(HTTPProcess(c)) /\ WF_vars(Deadline(c))
  /\ SF_vars(Closed(c)) /\ SF_vars(CloseWaitTimer(c))

Spec == SafeSpec /\ Fairness
-----------------------------------------------------------------------------
(* What the server owes a browser, from its request alone.                 *)

\* A page from each place on, with every variable in its place.
From(page, data) ==
  LET text == Content[page]
      from[i \in 1 .. Len(text) + 3] ==
        IF i > Len(text) THEN <<>>
        ELSE IF text[i] = "~" THEN Printed(text[i + 1], data) \o from[i + 3]
        ELSE <<text[i]>> \o from[i + 1]
  IN from

\* Why a request may be refused, where more than one reason may be given.
Refusals(r) ==
  IF r.size = "flood" THEN {"OVERFLOW"}
  ELSE IF r.method \notin {"GET", "POST"} THEN {"NOT_IMPLEMENTED"}
  ELSE IF r.size \in {"name", "args", "headers"} THEN {"OVERFLOW"}
  ELSE (IF r.page \in Protected /\ ~r.creds THEN {"UNAUTHORIZED"}
        ELSE IF r.page \notin Pages THEN {"NOT_FOUND"}
        ELSE IF r.size = "length" THEN {"BAD_REQUEST"} ELSE {})
       \cup (IF r.size = "cookie" THEN {"OVERFLOW"} ELSE {})

\* What the form of a request has come to.
DataFor(r) == IF r.method = "POST" /\ r.page \in Forms THEN r.form ELSE "unknown"

Page(r) ==
  LET variable == r.method = "POST" \/ Index[r.page] # <<>>
  IN <<r.method, IF variable THEN "no-cache" ELSE "max-age">> \o From(r.page, DataFor(r))[1]

Answers(r) ==
  IF Refusals(r) = {} THEN {Page(r)} ELSE {<<status>> : status \in Refusals(r)}

\* Each variable of the page prints no more than the room that HTTPProcess waits
\* for.  (A longer one may be cut, whatever room there is later.)
Fits(page) ==
  page \in Pages => \A k \in 1 .. Len(Index[page]) :
    k % 2 = 0 => Len(Printed(Index[page][k], None)) <= MinFree

IsPrefix(s, t) == Len(s) <= Len(t) /\ s = SubSeq(t, 1, Len(s))
-----------------------------------------------------------------------------
\* A file handle in use belongs to exactly one connection's context, as its
\* page or as its index, wherever that context is kept and however its last
\* browser left; none is leaked and none is shared.
Held(c) == {Context(c).file, Context(c).offsets} \ {0}
OneOwnerEach ==
  /\ {h \in Handles : mpfs[h] # Free} = UNION {Held(c) : c \in Conns}
  /\ \A c \in Conns :
       /\ Context(c).file # 0 => Context(c).file # Context(c).offsets
       /\ \A d \in Conns \ {c} : Held(c) \cap Held(d) = {}

\* Whoever is about to open a page finds a handle for it and another for its
\* index, as TCPIP.h:282 promises of MAX_MPFS_HANDLES.
TwoLeft ==
  \A c \in Conns : In(c, "PARSE_REQUEST") =>
    LET h == MPFSHandle(Available) IN h # 0 /\ MPFSHandle(Available \ {h}) # 0

\* The handles: one owner each, and enough of them for every connection.
HandlesOwned == OneOwnerEach /\ TwoLeft

\* What a browser has been sent is the beginning of the answer to its own
\* request: nothing of an earlier browser on that socket, of another
\* connection's page or form, and no page missing because handles ran out.
RightAnswer ==
  \A c \in Conns : client[c].got # <<>> /\ Fits(client[c].req.page) =>
    \E a \in Answers(client[c].req) : IsPrefix(client[c].got, a)

\* When the server itself ends a connection with a FIN, the whole answer has
\* been handed to TCP; a connection it gives up is reset instead.
AnsweredInFull ==
  \A c \in Conns : sock[c].st = "closing" /\ active # c /\ Fits(client[c].req.page) =>
    client[c].got \in Answers(client[c].req)

\* Where a browser that stays connected makes the server wait: it keeps back
\* the body of its form, for which every visit sets the deadline anew
\* (HTTP2.c:777), or it does not take what it is sent, for which there is none.
Withholds(c) ==
  /\ sock[c].st = "open"
  /\ \/ sm[c] = "PROCESS_POST" /\ client[c].pending # <<>>
     \/ sm[c] \in {"SERVE_BODY", "SEND_FROM_CALLBACK"} /\ sock[c].tx > 0

=============================================================================
