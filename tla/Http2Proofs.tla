----------------------------- MODULE Http2Proofs -----------------------------
(***************************************************************************)
(* Proofs about Http2: for any number of connections, any pages and any    *)
(* requests, the file handles keep one owner each and never run out, and   *)
(* every browser is sent the answer to its own request, whole or reset.    *)
(***************************************************************************)
EXTENDS Http2, FiniteSetTheorems, SequenceTheorems, WellFoundedInduction, TLAPS

-----------------------------------------------------------------------------
(* The inductive invariant: the shape of the contexts and of the handles;  *)
(* that the context in RAM is the active connection's; one owner for each  *)
(* handle; and that a connection that has not come to its page's name      *)
(* holds none, which is why opening a page overwrites no handle.           *)

Fields == {"file", "offsets", "status", "isAuthorized", "nextCallback",
           "byteCount", "data", "callbackID"}
IsContext(x) ==
  /\ DOMAIN x = Fields /\ x = [k \in Fields |-> x[k]]
  /\ x.file \in 0 .. MaxHandles /\ x.offsets \in 0 .. MaxHandles

Places == {"file", "of", "pos"}
IsStub(x) ==
  /\ DOMAIN x = Places /\ x = [k \in Places |-> x[k]]
  /\ x = Free \/ x.file \in {"page", "index"}

States ==
  {"IDLE", "PARSE_REQUEST", "PARSE_HEADERS", "AUTHENTICATE", "PROCESS_POST",
   "PROCESS_REQUEST", "SERVE_HEADERS", "SERVE_BODY", "SEND_FROM_CALLBACK", "DISCONNECT"}
Early == {"IDLE", "PARSE_REQUEST"}

Typed ==
  /\ curHTTPID \in Conns /\ active \in Conns \cup {NoConn}
  /\ active # NoConn => curHTTPID = active
  /\ IsContext(curHTTP)
  /\ saved = [c \in Conns |-> saved[c]] /\ \A c \in Conns : IsContext(saved[c])
  /\ sm \in [Conns -> States]
  /\ mpfs = [h \in Handles |-> mpfs[h]] /\ \A h \in Handles : IsStub(mpfs[h])

EarlyHoldNothing ==
  \A c \in Conns : sm[c] \in Early => Context(c).file = 0 /\ Context(c).offsets = 0

IInv == Typed /\ OneOwnerEach /\ EarlyHoldNothing

Used == {h \in Handles : mpfs[h] # Free}

\* Two contexts with the same handles.
SameHandles(x, y) == IsContext(y) /\ y.file = x.file /\ y.offsets = x.offsets

\* Changing fields of a context other than the handles keeps the handles.
LEMMA ContextFields ==
  ASSUME NEW x, IsContext(x)
  PROVE  /\ \A v, w : SameHandles(x, [x EXCEPT !.isAuthorized = v, !.byteCount = w])
         /\ \A v : SameHandles(x, [x EXCEPT !.status = v])
         /\ \A u, v, w : SameHandles(x, [x EXCEPT !.isAuthorized = u, !.status = v, !.byteCount = w])
         /\ \A v, w : SameHandles(x, [x EXCEPT !.data = v, !.byteCount = w])
         /\ \A v, w : SameHandles(x, [x EXCEPT !.byteCount = v, !.nextCallback = w])
         /\ \A v : SameHandles(x, [x EXCEPT !.byteCount = v])
<1>1. ASSUME NEW v, NEW w PROVE SameHandles(x, [x EXCEPT !.isAuthorized = v, !.byteCount = w])
  BY DEF SameHandles, IsContext, Fields
<1>2. ASSUME NEW v PROVE SameHandles(x, [x EXCEPT !.status = v])
  BY DEF SameHandles, IsContext, Fields
<1>3. ASSUME NEW u, NEW v, NEW w PROVE SameHandles(x, [x EXCEPT !.isAuthorized = u, !.status = v, !.byteCount = w])
  BY DEF SameHandles, IsContext, Fields
<1>4. ASSUME NEW v, NEW w PROVE SameHandles(x, [x EXCEPT !.data = v, !.byteCount = w])
  BY DEF SameHandles, IsContext, Fields
<1>5. ASSUME NEW v, NEW w PROVE SameHandles(x, [x EXCEPT !.byteCount = v, !.nextCallback = w])
  BY DEF SameHandles, IsContext, Fields
<1>6. ASSUME NEW v PROVE SameHandles(x, [x EXCEPT !.byteCount = v])
  BY DEF SameHandles, IsContext, Fields
<1> QED BY <1>1, <1>2, <1>3, <1>4, <1>5, <1>6

\* A context with these handles.
Holds(y, f, i) == IsContext(y) /\ y.file = f /\ y.offsets = i

\* Putting handles into a context and taking them out.
LEMMA ContextHandles ==
  ASSUME NEW x, IsContext(x), NEW f \in 0 .. MaxHandles, NEW i \in 0 .. MaxHandles
  PROVE  /\ Holds([x EXCEPT !.file = f, !.offsets = i], f, i)
         /\ Holds([x EXCEPT !.file = f], f, x.offsets)
         /\ \A u, v, w :
              Holds([x EXCEPT !.file = f, !.offsets = i, !.isAuthorized = u, !.data = v, !.status = w], f, i)
         /\ \A u, v, w :
              Holds([x EXCEPT !.byteCount = u, !.callbackID = v, !.nextCallback = w, !.offsets = i], x.file, i)
<1>1. Holds([x EXCEPT !.file = f, !.offsets = i], f, i)
  BY DEF Holds, IsContext, Fields
<1>2. Holds([x EXCEPT !.file = f], f, x.offsets)
  BY DEF Holds, IsContext, Fields
<1>3. ASSUME NEW u, NEW v, NEW w
      PROVE  Holds([x EXCEPT !.file = f, !.offsets = i, !.isAuthorized = u, !.data = v, !.status = w], f, i)
  BY DEF Holds, IsContext, Fields
<1>4. ASSUME NEW u, NEW v, NEW w
      PROVE  Holds([x EXCEPT !.byteCount = u, !.callbackID = v, !.nextCallback = w, !.offsets = i], x.file, i)
  BY DEF Holds, IsContext, Fields
<1> QED BY <1>1, <1>2, <1>3, <1>4

LEMMA NoHandle == MaxHandles \in Nat /\ 0 \in 0 .. MaxHandles
BY HttpAssumption, FS_CardinalityType

\* Reading in a file changes its place and nothing else.
LEMMA StubRead ==
  ASSUME NEW x, IsStub(x), x # Free, NEW n
  PROVE  IsStub([x EXCEPT !.pos = n]) /\ [x EXCEPT !.pos = n] # Free
  BY DEF IsStub, Places, Free, None
-----------------------------------------------------------------------------
(* What a step may do with the handles.                                    *)

\* A step that leaves every context its handles and opens and closes none.
LEMMA Keeps ==
  ASSUME IInv, Typed', Used' = Used,
         \A d \in Conns : SameHandles(Context(d), Context(d)'),
         \A d \in Conns : sm'[d] \in Early => sm[d] \in Early
  PROVE  IInv'
<1>1. \A d \in Conns : Held(d)' = Held(d)
  BY DEF SameHandles, Held
<1>2. OneOwnerEach'
  <2>1. {Held(d)' : d \in Conns} = {Held(d) : d \in Conns}
    BY <1>1
  <2>2. Used' = UNION {Held(d)' : d \in Conns}
    BY <2>1 DEF IInv, OneOwnerEach, Used
  <2>3. \A d \in Conns : Context(d)'.file # 0 => Context(d)'.file # Context(d)'.offsets
    BY DEF IInv, OneOwnerEach, SameHandles
  <2>4. \A d \in Conns : \A e \in Conns \ {d} : Held(d)' \cap Held(e)' = {}
    BY <1>1 DEF IInv, OneOwnerEach
  <2> QED BY <2>2, <2>3, <2>4 DEF OneOwnerEach, Used
<1>3. EarlyHoldNothing'
  BY DEF IInv, EarlyHoldNothing, SameHandles
<1> QED BY <1>2, <1>3 DEF IInv

\* A step that changes the handles of one connection: it may take handles that
\* nobody uses, and those it puts away are free.
LEMMA Exchanges ==
  ASSUME IInv, Typed', NEW c \in Conns,
         \A d \in Conns \ {c} : Context(d)' = Context(d) /\ sm'[d] = sm[d],
         Used' = (Used \ Held(c)) \cup Held(c)',
         Held(c)' \cap Used \subseteq Held(c),
         Context(c)'.file # 0 => Context(c)'.file # Context(c)'.offsets,
         sm'[c] \in Early => Context(c)'.file = 0 /\ Context(c)'.offsets = 0
  PROVE  IInv'
<1>1. \A d \in Conns \ {c} : Held(d)' = Held(d)
  BY DEF Held
<1>2. Used = UNION {Held(d) : d \in Conns}
  BY DEF IInv, OneOwnerEach, Used
<1>3. \A d \in Conns \ {c} : Held(d) \cap Held(c) = {}
  BY DEF IInv, OneOwnerEach
<1>4. Used' = UNION {Held(d)' : d \in Conns}
  <2>1. ASSUME NEW h \in Used' PROVE \E d \in Conns : h \in Held(d)'
    BY <2>1, <1>1, <1>2
  <2>2. ASSUME NEW d \in Conns, NEW h \in Held(d)' PROVE h \in Used'
    <3>1. CASE d = c
      BY <2>2, <3>1
    <3>2. CASE d # c
      BY <2>2, <3>2, <1>1, <1>2, <1>3
    <3> QED BY <3>1, <3>2
  <2> QED BY <2>1, <2>2
<1>5. \A d \in Conns : \A e \in Conns \ {d} : Held(d)' \cap Held(e)' = {}
  <2>1. ASSUME NEW d \in Conns \ {c}, NEW h \in Held(d) PROVE h \notin Held(c)'
    BY <2>1, <1>2, <1>3
  <2>2. \A d \in Conns \ {c} : Held(d)' \cap Held(c)' = {}
    BY <2>1, <1>1
  <2>3. \A d \in Conns \ {c} : \A e \in Conns \ {c, d} : Held(d)' \cap Held(e)' = {}
    BY <1>1 DEF IInv, OneOwnerEach
  <2> QED BY <2>2, <2>3
<1>6. \A d \in Conns : Context(d)'.file # 0 => Context(d)'.file # Context(d)'.offsets
  BY DEF IInv, OneOwnerEach
<1>7. OneOwnerEach'
  BY <1>4, <1>5, <1>6 DEF OneOwnerEach, Used
<1>8. EarlyHoldNothing'
  BY DEF IInv, EarlyHoldNothing
<1> QED BY <1>7, <1>8 DEF IInv
-----------------------------------------------------------------------------
(* Steps of HTTPProcess, which runs for the connection whose context is in *)
(* RAM.                                                                    *)

LEMMA Inside ==
  ASSUME IInv, NEW c \in Conns, active = c
  PROVE  /\ curHTTPID = c /\ Context(c) = curHTTP /\ c # NoConn /\ IsContext(curHTTP)
         /\ \A d \in Conns \ {c} : Context(d) = saved[d]
BY HttpAssumption DEF IInv, Typed, Context

\* The handles' table is as it should be.
Stubs == mpfs = [h \in Handles |-> mpfs[h]] /\ \A h \in Handles : IsStub(mpfs[h])

LEMMA AfterGo ==
  ASSUME IInv, NEW c \in Conns, active = c, NEW to \in States, NEW done,
         Go(c, to, done), IsContext(curHTTP'), Stubs'
  PROVE  /\ Typed' /\ Context(c)' = curHTTP' /\ sm'[c] = to
         /\ \A d \in Conns \ {c} : Context(d)' = Context(d) /\ sm'[d] = sm[d]
<1>1. curHTTPID = c /\ c # NoConn
  BY Inside
<1>2. sm' \in [Conns -> States] /\ sm'[c] = to /\ \A d \in Conns \ {c} : sm'[d] = sm[d]
  BY DEF IInv, Typed, Go
<1>3. active' \in {NoConn, c} /\ curHTTPID' = c /\ saved' = saved
  BY <1>1 DEF Go
<1>4. Typed'
  BY <1>2, <1>3 DEF IInv, Typed, Stubs
<1>5. Context(c)' = curHTTP' /\ \A d \in Conns \ {c} : Context(d)' = Context(d)
  BY <1>1, <1>3 DEF Context
<1> QED BY <1>2, <1>4, <1>5

\* The step changes neither the context's handles nor which are free.
LEMMA Stays ==
  ASSUME IInv, NEW c \in Conns, active = c, NEW to \in States, NEW done,
         Go(c, to, done), SameHandles(curHTTP, curHTTP'), Stubs',
         \A h \in Handles : mpfs'[h] = Free <=> mpfs[h] = Free,
         to \in Early => sm[c] \in Early
  PROVE  IInv'
<1>1. /\ Typed' /\ Context(c)' = curHTTP' /\ sm'[c] = to
      /\ \A d \in Conns \ {c} : Context(d)' = Context(d) /\ sm'[d] = sm[d]
  BY AfterGo DEF SameHandles
<1>2. Used' = Used
  BY DEF Used
<1>3. ASSUME NEW d \in Conns PROVE SameHandles(Context(d), Context(d)')
  <2>1. CASE d = c
    BY <1>1, <2>1, Inside
  <2>2. CASE d # c
    <3>1. IsContext(Context(d))
      BY DEF Context, IInv, Typed
    <3> QED BY <1>1, <2>2, <3>1 DEF SameHandles
  <2> QED BY <2>1, <2>2
<1> QED BY <1>1, <1>2, <1>3, Keeps

\* The same where the handles are left alone.
LEMMA StaysWithFiles ==
  ASSUME IInv, NEW c \in Conns, active = c, NEW to \in States, NEW done,
         Go(c, to, done), SameHandles(curHTTP, curHTTP'), UNCHANGED mpfs,
         to \in Early => sm[c] \in Early
  PROVE  IInv'
<1>1. Stubs'
  BY DEF Stubs, IInv, Typed
<1> QED BY <1>1, Stays

\* The step changes the handles.
LEMMA Swaps ==
  ASSUME IInv, NEW c \in Conns, active = c, NEW to \in States \ Early, NEW done,
         Go(c, to, done), Stubs', IsContext(curHTTP'),
         Used' = (Used \ {curHTTP.file, curHTTP.offsets})
                   \cup ({curHTTP'.file, curHTTP'.offsets} \ {0}),
         ({curHTTP'.file, curHTTP'.offsets} \ {0}) \cap Used \subseteq {curHTTP.file, curHTTP.offsets},
         curHTTP'.file # 0 => curHTTP'.file # curHTTP'.offsets
  PROVE  IInv'
<1>1. /\ Typed' /\ Context(c)' = curHTTP' /\ sm'[c] = to
      /\ \A d \in Conns \ {c} : Context(d)' = Context(d) /\ sm'[d] = sm[d]
  BY AfterGo
<1>2. Held(c) = {curHTTP.file, curHTTP.offsets} \ {0}
  BY Inside DEF Held
<1>3. Held(c)' = {curHTTP'.file, curHTTP'.offsets} \ {0}
  BY <1>1 DEF Held
<1>4. 0 \notin Used
  BY DEF Used, Handles
<1>5. Used' = (Used \ Held(c)) \cup Held(c)' /\ Held(c)' \cap Used \subseteq Held(c)
  BY <1>2, <1>3, <1>4
<1> QED BY <1>1, <1>5, Exchanges
-----------------------------------------------------------------------------
(* There are handles enough.                                               *)

\* A set of natural numbers that is not empty has a least member.
LEMMA LeastNumber ==
  ASSUME NEW S \in SUBSET Nat, S # {}
  PROVE  \E x \in S : \A y \in S : x <= y
<1> DEFINE R == OpToRel(<, Nat)
<1>1. IsWellFoundedOn(R, Nat)
  BY NatLessThanWellFounded, Zenon
<1>2. \A x, y \in Nat : y < x => <<y, x>> \in R
  BY Zenon DEF OpToRel
<1> HIDE DEF R
<1>3. PICK x \in S : \A y \in S : ~ (<<y, x>> \in R)
  BY <1>1, WFMin
<1>4. \A y \in S : ~ (y < x)
  BY <1>2, <1>3
<1> QED BY <1>4

\* Of two free handles at least one is given out, and it is a free one.
LEMMA HandleGiven ==
  ASSUME NEW S \in SUBSET Handles, IsFiniteSet(S), Cardinality(S) >= 2
  PROVE  MPFSHandle(S) \in S
<1>1. ~ (S \subseteq {MaxHandles})
  <2>1. IsFiniteSet({MaxHandles}) /\ Cardinality({MaxHandles}) = 1
    BY FS_Singleton
  <2>2. ASSUME S \subseteq {MaxHandles} PROVE FALSE
    <3>1. Cardinality(S) <= 1
      BY <2>1, <2>2, FS_Subset
    <3>2. Cardinality(S) \in Nat
      BY FS_CardinalityType
    <3> QED BY <3>1, <3>2
  <2> QED BY <2>2
<1>2. S \in SUBSET Nat /\ S # {}
  BY <1>1 DEF Handles
<1>3. PICK h \in S : \A k \in S : h <= k
  BY <1>2, LeastNumber
<1>4. FirstOf(S) \in S
  BY <1>3 DEF FirstOf
<1> QED BY <1>1, <1>4 DEF MPFSHandle

\* A connection that holds none leaves at most two to each of the others, so
\* that three of the two for each connection and the one to spare are free.
LEMMA ThreeFree ==
  ASSUME IInv, NEW c \in Conns, Held(c) = {}
  PROVE  /\ IsFiniteSet(Available) /\ Available \in SUBSET Handles
         /\ Cardinality(Available) \in Nat /\ Cardinality(Available) >= 3
<1> DEFINE Which == {"file", "offsets"}
           Others == (Conns \ {c}) \X Which
           held == [x \in Others |-> Context(x[1])[x[2]]]
           Values == {held[x] : x \in Others}
           n == Cardinality(Conns)
<1>1. n \in Nat /\ MaxHandles = 2 * n + 1
  BY HttpAssumption, FS_CardinalityType
<1>2. IsFiniteSet(Others) /\ Cardinality(Others) = 2 * (n - 1)
  <2>1. IsFiniteSet(Conns \ {c}) /\ Cardinality(Conns \ {c}) = n - 1
    BY HttpAssumption, FS_RemoveElement
  <2>2. IsFiniteSet(Which) /\ Cardinality(Which) = 2
    <3>1. IsFiniteSet({"file"}) /\ Cardinality({"file"}) = 1
      BY FS_Singleton
    <3>2. Which = {"file"} \cup {"offsets"} /\ "offsets" \notin {"file"}
      OBVIOUS
    <3>3. /\ IsFiniteSet({"file"} \cup {"offsets"})
          /\ Cardinality({"file"} \cup {"offsets"}) = Cardinality({"file"}) + 1
      BY <3>1, <3>2, FS_AddElement
    <3> HIDE DEF Which
    <3> QED BY <3>1, <3>2, <3>3
  <2>3. IsFiniteSet(Others) /\ Cardinality(Others) = Cardinality(Conns \ {c}) * Cardinality(Which)
    BY <2>1, <2>2, FS_Product
  <2> HIDE DEF Others, Which
  <2> QED BY <1>1, <2>1, <2>2, <2>3
<1>3. IsFiniteSet(Values) /\ Cardinality(Values) <= 2 * (n - 1)
  <2>1. held \in Surjection(Others, Values)
    BY DEF Surjection
  <2> HIDE DEF Others, Values
  <2> QED BY <2>1, <1>2, FS_Surjection
<1>4. Used \subseteq Values
  <2>1. ASSUME NEW h \in Used PROVE h \in Values
    <3>1. PICK d \in Conns : h \in Held(d)
      BY DEF IInv, OneOwnerEach, Used
    <3>2. d # c
      BY <3>1
    <3>3. h = Context(d)["file"] \/ h = Context(d)["offsets"]
      BY <3>1 DEF Held
    <3>4. <<d, "file">> \in Others /\ <<d, "offsets">> \in Others
      BY <3>2
    <3>5. held[<<d, "file">>] = Context(d)["file"] /\ held[<<d, "offsets">>] = Context(d)["offsets"]
      BY <3>4
    <3> QED BY <3>3, <3>4, <3>5
  <2> QED BY <2>1
<1>5. IsFiniteSet(Used) /\ Cardinality(Used) <= 2 * (n - 1) /\ Cardinality(Used) \in Nat
  <2> HIDE DEF Values
  <2>1. IsFiniteSet(Used) /\ Cardinality(Used) <= Cardinality(Values)
    BY <1>3, <1>4, FS_Subset
  <2>2. Cardinality(Used) \in Nat /\ Cardinality(Values) \in Nat
    BY <2>1, <1>3, FS_CardinalityType
  <2> QED BY <1>1, <1>3, <2>1, <2>2
<1>6. IsFiniteSet(Handles) /\ Cardinality(Handles) = 2 * n + 1
  BY <1>1, FS_Interval DEF Handles
<1>7. Available = Handles \ Used /\ Handles \cap Used = Used
  BY DEF Available, Used
<1>8. IsFiniteSet(Available) /\ Cardinality(Available) = (2 * n + 1) - Cardinality(Used)
  BY <1>6, <1>7, FS_Difference
<1> QED BY <1>1, <1>5, <1>7, <1>8

\* The handle for the page and the one for its index.
LEMMA TwoHandles ==
  ASSUME IInv, NEW c \in Conns, Held(c) = {}
  PROVE  /\ MPFSHandle(Available) \in Available
         /\ MPFSHandle(Available \ {MPFSHandle(Available)})
              \in Available \ {MPFSHandle(Available)}
<1> DEFINE h == MPFSHandle(Available)
<1>1. /\ IsFiniteSet(Available) /\ Available \in SUBSET Handles
      /\ Cardinality(Available) \in Nat /\ Cardinality(Available) >= 3
  BY ThreeFree
<1>2. h \in Available
  BY <1>1, HandleGiven
<1>3. IsFiniteSet(Available \ {h}) /\ Cardinality(Available \ {h}) = Cardinality(Available) - 1
  BY <1>1, <1>2, FS_RemoveElement
<1> HIDE DEF h
<1>4. MPFSHandle(Available \ {h}) \in Available \ {h}
  BY <1>1, <1>3, HandleGiven
<1> QED BY <1>2, <1>4 DEF h
-----------------------------------------------------------------------------
(* The visits.                                                             *)

\* Changing over to a connection's context loses none.
LEMMA Loads ==
  ASSUME IInv, NEW c \in Conns, HTTPLoadConn(c), IsContext(curHTTP')
  PROVE  /\ curHTTPID' = c /\ Context(c)' = curHTTP'
         /\ saved' = [d \in Conns |-> saved'[d]] /\ \A d \in Conns : IsContext(saved'[d])
         /\ \A d \in Conns \ {c} : Context(d)' = Context(d)
BY DEF IInv, Typed, HTTPLoadConn, Context

LEMMA VisitStep ==
  ASSUME IInv, NEW c \in Conns, Visit(c)
  PROVE  IInv'
<1>1. IsContext(curHTTP') /\ curHTTP' = Context(c)
  BY DEF Visit, IInv, Typed, Context
<1>2. /\ curHTTPID' = c /\ Context(c)' = Context(c)
      /\ saved' = [d \in Conns |-> saved'[d]] /\ \A d \in Conns : IsContext(saved'[d])
      /\ \A d \in Conns \ {c} : Context(d)' = Context(d)
  BY <1>1, Loads DEF Visit
<1>3. Typed'
  <2>1. active' = c /\ sm' = sm /\ mpfs' = mpfs
    BY DEF Visit
  <2> QED BY <1>1, <1>2, <2>1 DEF IInv, Typed
<1>4. Used' = Used
  BY DEF Used, Visit
<1>5. ASSUME NEW d \in Conns PROVE SameHandles(Context(d), Context(d)')
  <2>1. IsContext(Context(d))
    BY DEF IInv, Typed, Context
  <2>2. Context(d)' = Context(d)
    BY <1>2
  <2> QED BY <2>1, <2>2 DEF SameHandles
<1>6. \A d \in Conns : sm'[d] \in Early => sm[d] \in Early
  BY DEF Visit
<1> QED BY <1>3, <1>4, <1>5, <1>6, Keeps

\* Closing handles frees them, and no others.
LEMMA Closes ==
  ASSUME IInv, NEW H, MPFSClose(H)
  PROVE  Stubs' /\ Used' = Used \ H
<1>1. IsStub(Free)
  BY DEF IsStub, Places, Free
<1> QED BY <1>1 DEF MPFSClose, Stubs, Used, IInv, Typed

LEMMA PutAwayStep ==
  ASSUME IInv, NEW c \in Conns, PutAway(c)
  PROVE  IInv'
<1>1. IsContext(Context(c)) /\ 0 \in 0 .. MaxHandles
  BY NoHandle DEF IInv, Typed, Context
<1>2. IsContext(curHTTP') /\ curHTTP'.file = 0 /\ curHTTP'.offsets = 0
  <2>1. Holds([Context(c) EXCEPT !.file = 0, !.offsets = 0], 0, 0)
    BY <1>1, ContextHandles
  <2>2. curHTTP' = [Context(c) EXCEPT !.file = 0, !.offsets = 0]
    BY DEF PutAway
  <2> QED BY <2>1, <2>2 DEF Holds
<1>3. /\ curHTTPID' = c /\ Context(c)' = curHTTP'
      /\ saved' = [d \in Conns |-> saved'[d]] /\ \A d \in Conns : IsContext(saved'[d])
      /\ \A d \in Conns \ {c} : Context(d)' = Context(d)
  BY <1>2, Loads DEF PutAway
<1>4. Stubs' /\ Used' = Used \ {Context(c).file, Context(c).offsets}
  BY Closes DEF PutAway
<1>5. sm' \in [Conns -> States] /\ \A d \in Conns \ {c} : sm'[d] = sm[d]
  BY DEF PutAway, IInv, Typed, States
<1>6. active' \in {c, NoConn}
  BY DEF PutAway
<1>7. Typed'
  BY <1>2, <1>3, <1>4, <1>5, <1>6 DEF Typed, Stubs
<1>8. Held(c)' = {} /\ 0 \notin Used
  BY <1>2, <1>3 DEF Held, Used, Handles
<1>9. Used' = (Used \ Held(c)) \cup Held(c)'
  BY <1>4, <1>8 DEF Held
<1> QED BY <1>2, <1>3, <1>5, <1>7, <1>8, <1>9, Exchanges
-----------------------------------------------------------------------------
(* HTTPProcess, state by state.                                            *)

LEMMA HeldAreUsed ==
  ASSUME IInv, NEW c \in Conns, active = c
  PROVE  /\ curHTTP.file # 0 => curHTTP.file \in Used
         /\ curHTTP.offsets # 0 => curHTTP.offsets \in Used
         /\ curHTTP.file # 0 => curHTTP.file # curHTTP.offsets
<1>1. Context(c) = curHTTP
  BY Inside
<1>2. {curHTTP.file, curHTTP.offsets} \ {0} \subseteq Used
  BY <1>1 DEF IInv, OneOwnerEach, Held, Used
<1>3. curHTTP.file # 0 => curHTTP.file # curHTTP.offsets
  BY <1>1 DEF IInv, OneOwnerEach
<1> QED BY <1>2, <1>3

\* Reading frees no handle.
LEMMA ReadKeeps ==
  ASSUME IInv, NEW h \in Handles, mpfs[h] # Free, NEW n,
         mpfs' = [mpfs EXCEPT ![h].pos = n]
  PROVE  Stubs' /\ \A k \in Handles : mpfs'[k] = Free <=> mpfs[k] = Free
<1>1. IsStub(mpfs[h]) /\ mpfs = [k \in Handles |-> mpfs[k]] /\ \A k \in Handles : IsStub(mpfs[k])
  BY DEF IInv, Typed
<1>2. IsStub([mpfs[h] EXCEPT !.pos = n]) /\ [mpfs[h] EXCEPT !.pos = n] # Free
  BY <1>1, StubRead
<1>3. /\ mpfs' = [k \in Handles |-> mpfs'[k]]
      /\ mpfs'[h] = [mpfs[h] EXCEPT !.pos = n]
      /\ \A k \in Handles \ {h} : mpfs'[k] = mpfs[k]
  BY <1>1
<1> QED BY <1>1, <1>2, <1>3 DEF Stubs

LEMMA BeginStep ==
  ASSUME IInv, NEW c \in Conns, Begin(c)
  PROVE  IInv'
<1>1. SameHandles(curHTTP, curHTTP')
  BY ContextFields DEF Begin, IInv, Typed
<1>2. Go(c, "PARSE_REQUEST", FALSE) /\ active = c /\ sm[c] \in Early /\ UNCHANGED mpfs
  BY DEF Begin, In, Early
<1> QED BY <1>1, <1>2, StaysWithFiles DEF States

LEMMA AwaitStep ==
  ASSUME IInv, NEW c \in Conns, Await(c)
  PROVE  IInv'
<1>1. SameHandles(curHTTP, curHTTP')
  BY ContextFields DEF Await, IInv, Typed
<1>2. active = c /\ UNCHANGED mpfs /\ sm[c] \in {"PARSE_REQUEST", "PARSE_HEADERS"}
  BY DEF Await, In
<1>3. \/ Go(c, "DISCONNECT", FALSE) \/ Go(c, "SERVE_HEADERS", FALSE)
      \/ Go(c, "SERVE_HEADERS", TRUE) \/ Go(c, sm[c], TRUE)
  BY DEF Await
<1> QED BY <1>1, <1>2, <1>3, StaysWithFiles DEF States, Early

\* With no handle of its own, the connection is given one or two free ones.
LEMMA OpenPageSwaps ==
  ASSUME IInv, NEW c \in Conns, active = c, Held(c) = {}, NEW r, OpenPage(c, r)
  PROVE  /\ Stubs' /\ IsContext(curHTTP')
         /\ Used' = Used \cup ({curHTTP'.file, curHTTP'.offsets} \ {0})
         /\ ({curHTTP'.file, curHTTP'.offsets} \ {0}) \cap Used = {}
         /\ curHTTP'.file # 0 => curHTTP'.file # curHTTP'.offsets
<1> DEFINE h == IF r.page \in Pages THEN MPFSHandle(Available) ELSE 0
           i == IF h # 0 /\ Index[r.page] # <<>> THEN MPFSHandle(Available \ {h}) ELSE 0
<1>1. h \in Available \cup {0} /\ i \in (Available \ {h}) \cup {0} /\ (h = 0 => i = 0)
  BY TwoHandles
<1>2. Available \subseteq Handles /\ Available = Handles \ Used /\ 0 \notin Handles
  BY DEF Available, Used, Handles
<1>3. curHTTP.file = 0 /\ curHTTP.offsets = 0 /\ IsContext(curHTTP)
  BY Inside DEF Held
<1>4. IsContext(curHTTP') /\ curHTTP'.file = h /\ curHTTP'.offsets = i
  <2>1. h \in 0 .. MaxHandles /\ i \in 0 .. MaxHandles
    BY <1>1, <1>2, NoHandle DEF Handles
  <2>2. curHTTP' = [curHTTP EXCEPT
            !.file = h,
            !.offsets = IF h # 0 /\ Index[r.page] # <<>> THEN i ELSE @,
            !.isAuthorized = r.page \notin Protected,
            !.data = "unknown",
            !.status = IF r.size = "args" THEN "OVERFLOW" ELSE r.method]
    BY DEF OpenPage
  <2> HIDE DEF h
  <2>3. (IF h # 0 /\ Index[r.page] # <<>> THEN i ELSE curHTTP.offsets) = i
    BY <1>3
  <2> HIDE DEF i
  <2>4. curHTTP' = [curHTTP EXCEPT
            !.file = h, !.offsets = i,
            !.isAuthorized = r.page \notin Protected,
            !.data = "unknown",
            !.status = IF r.size = "args" THEN "OVERFLOW" ELSE r.method]
    BY <2>2, <2>3
  <2>5. PICK u, v, w : curHTTP' = [curHTTP EXCEPT
            !.file = h, !.offsets = i, !.isAuthorized = u, !.data = v, !.status = w]
    BY <2>4
  <2>6. \A a, d, s : Holds([curHTTP EXCEPT
            !.file = h, !.offsets = i, !.isAuthorized = a, !.data = d, !.status = s], h, i)
    BY <1>3, <2>1, ContextHandles
  <2>7. Holds(curHTTP', h, i)
    BY <2>5, <2>6
  <2> QED BY <2>7 DEF Holds
<1>5. mpfs' = [k \in Handles |->
            CASE k = h -> [file |-> "page", of |-> r.page, pos |-> 0]
              [] k = i -> [file |-> "index", of |-> r.page, pos |-> 0]
              [] OTHER -> mpfs[k]]
  BY DEF OpenPage
<1> HIDE DEF h, i
<1>6. /\ IsStub([file |-> "page", of |-> r.page, pos |-> 0])
      /\ IsStub([file |-> "index", of |-> r.page, pos |-> 0])
      /\ [file |-> "page", of |-> r.page, pos |-> 0] # Free
      /\ [file |-> "index", of |-> r.page, pos |-> 0] # Free
  BY DEF IsStub, Places, Free, None
<1>7. Stubs'
  BY <1>5, <1>6 DEF Stubs, IInv, Typed
<1>8. Used' = Used \cup ({h, i} \ {0})
  BY <1>1, <1>2, <1>5, <1>6 DEF Used
<1> QED BY <1>1, <1>2, <1>4, <1>7, <1>8
LEMMA ParseRequestStep ==
  ASSUME IInv, NEW c \in Conns, ParseRequest(c)
  PROVE  IInv'
<1> DEFINE r == Head(sock[c].rx).of
<1>1. active = c /\ sm[c] = "PARSE_REQUEST"
  BY DEF ParseRequest, In
<1>2. CASE \E status : Refuse(c, status) /\ UNCHANGED mpfs
  <2>1. PICK status : Refuse(c, status) /\ UNCHANGED mpfs
    BY <1>2
  <2>2. SameHandles(curHTTP, curHTTP')
    BY <2>1, ContextFields DEF Refuse, IInv, Typed
  <2>3. Go(c, "SERVE_HEADERS", FALSE)
    BY <2>1 DEF Refuse
  <2> QED BY <1>1, <2>1, <2>2, <2>3, StaysWithFiles DEF States, Early
<1>3. CASE /\ OpenPage(c, r)
           /\ Go(c, "SERVE_HEADERS", FALSE) \/ Go(c, "PARSE_HEADERS", FALSE)
  <2>1. Held(c) = {}
    BY <1>1 DEF IInv, EarlyHoldNothing, Early, Held
  <2>2. curHTTP.file = 0 /\ curHTTP.offsets = 0 /\ 0 \notin Used
    BY <1>1, <2>1, Inside DEF Held, Used, Handles
  <2>3. /\ Stubs' /\ IsContext(curHTTP')
        /\ Used' = Used \cup ({curHTTP'.file, curHTTP'.offsets} \ {0})
        /\ ({curHTTP'.file, curHTTP'.offsets} \ {0}) \cap Used = {}
        /\ curHTTP'.file # 0 => curHTTP'.file # curHTTP'.offsets
    <3> HIDE DEF r
    <3> QED BY <1>1, <1>3, <2>1, OpenPageSwaps
  <2>4. Used' = (Used \ {curHTTP.file, curHTTP.offsets})
                  \cup ({curHTTP'.file, curHTTP'.offsets} \ {0})
    BY <2>2, <2>3
  <2>5. "SERVE_HEADERS" \in States \ Early /\ "PARSE_HEADERS" \in States \ Early
    BY DEF States, Early
  <2>6. CASE Go(c, "SERVE_HEADERS", FALSE)
    BY <1>1, <2>3, <2>4, <2>5, <2>6, Swaps
  <2>7. CASE Go(c, "PARSE_HEADERS", FALSE)
    BY <1>1, <2>3, <2>4, <2>5, <2>7, Swaps
  <2> QED BY <1>3, <2>6, <2>7
<1> QED BY <1>2, <1>3 DEF ParseRequest

LEMMA ParseHeadersStep ==
  ASSUME IInv, NEW c \in Conns, ParseHeaders(c)
  PROVE  IInv'
<1>1. active = c /\ sm[c] = "PARSE_HEADERS" /\ UNCHANGED mpfs
  BY DEF ParseHeaders, In
<1>2. \E u, v, w : curHTTP' = [curHTTP EXCEPT !.isAuthorized = u, !.status = v, !.byteCount = w]
  BY DEF ParseHeaders
<1>3. SameHandles(curHTTP, curHTTP')
  <2>1. PICK u, v, w :
          curHTTP' = [curHTTP EXCEPT !.isAuthorized = u, !.status = v, !.byteCount = w]
    BY <1>2
  <2> QED BY <2>1, ContextFields DEF IInv, Typed
<1>4. Go(c, "AUTHENTICATE", FALSE) \/ Go(c, "PARSE_HEADERS", FALSE)
  BY <1>1 DEF ParseHeaders
<1> QED BY <1>1, <1>3, <1>4, StaysWithFiles DEF States, Early

LEMMA AuthenticateStep ==
  ASSUME IInv, NEW c \in Conns, Authenticate(c)
  PROVE  IInv'
<1>1. active = c /\ UNCHANGED mpfs
  BY DEF Authenticate, In
<1>2. UNCHANGED curHTTP \/ \E v : curHTTP' = [curHTTP EXCEPT !.status = v]
  BY DEF Authenticate, Refuse
<1>3. SameHandles(curHTTP, curHTTP')
  <2>1. IsContext(curHTTP)
    BY DEF IInv, Typed
  <2>2. CASE UNCHANGED curHTTP
    BY <2>1, <2>2 DEF SameHandles
  <2>3. CASE \E v : curHTTP' = [curHTTP EXCEPT !.status = v]
    <3>1. PICK v : curHTTP' = [curHTTP EXCEPT !.status = v]
      BY <2>3
    <3> QED BY <2>1, <3>1, ContextFields
  <2> QED BY <1>2, <2>2, <2>3
<1>4. Go(c, "SERVE_HEADERS", FALSE) \/ Go(c, "PROCESS_POST", FALSE)
  BY DEF Authenticate, Refuse
<1> QED BY <1>1, <1>3, <1>4, StaysWithFiles DEF States, Early

LEMMA ProcessPostStep ==
  ASSUME IInv, NEW c \in Conns, ProcessPost(c)
  PROVE  IInv'
<1>1. active = c /\ UNCHANGED mpfs
  BY DEF ProcessPost, In
<1>2. UNCHANGED curHTTP \/ \E v, w : curHTTP' = [curHTTP EXCEPT !.data = v, !.byteCount = w]
  BY DEF ProcessPost
<1>3. SameHandles(curHTTP, curHTTP')
  <2>1. IsContext(curHTTP)
    BY DEF IInv, Typed
  <2>2. CASE UNCHANGED curHTTP
    BY <2>1, <2>2 DEF SameHandles
  <2>3. CASE \E v, w : curHTTP' = [curHTTP EXCEPT !.data = v, !.byteCount = w]
    <3>1. PICK v, w : curHTTP' = [curHTTP EXCEPT !.data = v, !.byteCount = w]
      BY <2>3
    <3> QED BY <2>1, <3>1, ContextFields
  <2> QED BY <1>2, <2>2, <2>3
<1>4. Go(c, "PROCESS_REQUEST", FALSE) \/ Go(c, "PROCESS_POST", TRUE)
  BY DEF ProcessPost
<1> QED BY <1>1, <1>3, <1>4, StaysWithFiles DEF States, Early

LEMMA ProcessRequestStep ==
  ASSUME IInv, NEW c \in Conns, ProcessRequest(c)
  PROVE  IInv'
<1>1. active = c /\ IsContext(curHTTP)
  BY DEF ProcessRequest, In, IInv, Typed
<1>2. CASE Refuse(c, "NOT_FOUND") /\ UNCHANGED mpfs
  <2>1. SameHandles(curHTTP, curHTTP') /\ Go(c, "SERVE_HEADERS", FALSE)
    BY <1>1, <1>2, ContextFields DEF Refuse
  <2> QED BY <1>1, <1>2, <2>1, StaysWithFiles DEF States, Early
<1>3. CASE /\ curHTTP.file # 0 /\ Go(c, "SERVE_HEADERS", FALSE)
           /\ \E n : curHTTP' = [curHTTP EXCEPT !.byteCount = 0, !.nextCallback = n]
           /\ mpfs' = IF curHTTP.offsets # 0 THEN [mpfs EXCEPT ![curHTTP.offsets].pos = 1]
                      ELSE mpfs
  <2>1. SameHandles(curHTTP, curHTTP')
    <3>1. PICK n : curHTTP' = [curHTTP EXCEPT !.byteCount = 0, !.nextCallback = n]
      BY <1>3
    <3> QED BY <1>1, <3>1, ContextFields
  <2>2. curHTTP.offsets # 0 => curHTTP.offsets \in Used
    BY <1>1, HeldAreUsed
  <2>3. Stubs' /\ \A h \in Handles : mpfs'[h] = Free <=> mpfs[h] = Free
    <3>1. CASE curHTTP.offsets = 0
      BY <1>3, <3>1 DEF Stubs, IInv, Typed
    <3>2. CASE curHTTP.offsets # 0
      <4>1. curHTTP.offsets \in Handles /\ mpfs[curHTTP.offsets] # Free
        BY <2>2, <3>2 DEF Used
      <4>2. mpfs' = [mpfs EXCEPT ![curHTTP.offsets].pos = 1]
        BY <1>3, <3>2
      <4> QED BY <4>1, <4>2, ReadKeeps
    <3> QED BY <3>1, <3>2
  <2> QED BY <1>1, <1>3, <2>1, <2>3, Stays DEF States, Early
<1> QED BY <1>2, <1>3 DEF ProcessRequest

LEMMA ServeHeadersStep ==
  ASSUME IInv, NEW c \in Conns, ServeHeaders(c)
  PROVE  IInv'
<1>1. active = c /\ UNCHANGED <<curHTTP, mpfs>>
  BY DEF ServeHeaders, In
<1>2. SameHandles(curHTTP, curHTTP')
  BY <1>1 DEF IInv, Typed, SameHandles
<1>3. Go(c, "SERVE_BODY", FALSE) \/ Go(c, "DISCONNECT", TRUE)
  BY DEF ServeHeaders
<1> QED BY <1>1, <1>2, <1>3, StaysWithFiles DEF States, Early

LEMMA SendFromCallbackStep ==
  ASSUME IInv, NEW c \in Conns, SendFromCallback(c)
  PROVE  IInv'
<1>1. active = c /\ sm[c] = "SEND_FROM_CALLBACK" /\ UNCHANGED <<curHTTP, mpfs>>
  BY DEF SendFromCallback, In
<1>2. SameHandles(curHTTP, curHTTP')
  BY <1>1 DEF IInv, Typed, SameHandles
<1>3. Go(c, "SEND_FROM_CALLBACK", TRUE) \/ Go(c, "SERVE_BODY", FALSE)
  BY <1>1 DEF SendFromCallback
<1> QED BY <1>1, <1>2, <1>3, StaysWithFiles DEF States, Early
\* The page read on, and its index read on or closed.
LEMMA HandleSteps ==
  ASSUME IInv, NEW h \in Used \cup {0}, NEW i \in Used \cup {0}, h # 0 => h # i,
         NEW p, NEW q, NEW x, x = Free \/ x = [mpfs[i] EXCEPT !.pos = q],
         mpfs' = [mpfs EXCEPT ![h].pos = p, ![i] = x]
  PROVE  /\ Stubs'
         /\ x = Free => Used' = Used \ {i}
         /\ x = [mpfs[i] EXCEPT !.pos = q] => Used' = Used
<1>1. mpfs = [k \in Handles |-> mpfs[k]] /\ (\A k \in Handles : IsStub(mpfs[k])) /\ 0 \notin Handles
  BY DEF IInv, Typed, Handles
<1>2. \A k \in Used : k \in Handles /\ IsStub(mpfs[k]) /\ mpfs[k] # Free
  BY <1>1 DEF Used
<1>3. IsStub(Free)
  BY DEF IsStub, Places, Free
<1>4. \A k \in Used : \A n : IsStub([mpfs[k] EXCEPT !.pos = n]) /\ [mpfs[k] EXCEPT !.pos = n] # Free
  BY <1>2, StubRead
<1>5. /\ mpfs' = [k \in Handles |-> mpfs'[k]]
      /\ h # 0 => mpfs'[h] = [mpfs[h] EXCEPT !.pos = p]
      /\ i # 0 => mpfs'[i] = x
      /\ \A k \in Handles \ {h, i} : mpfs'[k] = mpfs[k]
  BY <1>1, <1>2
<1>6. ASSUME NEW k \in Handles
      PROVE  /\ IsStub(mpfs'[k])
             /\ k # i => (mpfs'[k] = Free <=> mpfs[k] = Free)
             /\ k = i => mpfs[k] # Free /\ mpfs'[k] = x
  <2>1. CASE k = h
    <3>1. h # 0 /\ h \in Used /\ h # i
      BY <1>1, <2>1
    <3>2. mpfs'[h] = [mpfs[h] EXCEPT !.pos = p] /\ mpfs[h] # Free
      BY <1>2, <1>5, <3>1
    <3>3. IsStub(mpfs'[h]) /\ mpfs'[h] # Free
      BY ONLY <1>4, <3>1, <3>2
    <3> QED BY ONLY <2>1, <3>1, <3>2, <3>3
  <2>2. CASE k = i
    <3>1. i # 0 /\ i \in Used /\ mpfs'[i] = x /\ mpfs[i] # Free
      BY <1>1, <1>2, <1>5, <2>2
    <3>2. IsStub(x)
      BY <1>3, <1>4, <3>1
    <3> QED BY ONLY <2>2, <3>1, <3>2
  <2>3. CASE k \notin {h, i}
    BY <1>1, <1>5, <2>3
  <2> QED BY <2>1, <2>2, <2>3
<1>7. Stubs'
  BY <1>5, <1>6 DEF Stubs
<1>8. ASSUME x = Free PROVE Used' = Used \ {i}
  <2>1. \A k \in Handles : mpfs'[k] # Free <=> mpfs[k] # Free /\ k # i
    BY <1>6, <1>8
  <2> QED BY <2>1 DEF Used
<1>9. ASSUME x = [mpfs[i] EXCEPT !.pos = q] PROVE Used' = Used
  <2>1. i # 0 => x # Free
    BY <1>4, <1>9
  <2>2. \A k \in Handles : mpfs'[k] # Free <=> mpfs[k] # Free
    BY <1>1, <1>6, <2>1
  <2> QED BY <2>2 DEF Used
<1> QED BY <1>7, <1>8, <1>9

\* The page is closed at its end; at a variable its index is, when that was the
\* last one; else the page is only read on.
LEMMA ServeBodyStep ==
  ASSUME IInv, NEW c \in Conns, ServeBody(c)
  PROVE  IInv'
<1> DEFINE h == curHTTP.file
           i == curHTTP.offsets
           from == mpfs[h].pos
           full == Bytes = TCPIsPutReady(sock[c])
<1>1. active = c /\ IsContext(curHTTP) /\ 0 \notin Used /\ 0 \in 0 .. MaxHandles
  BY NoHandle DEF ServeBody, In, IInv, Typed, Used, Handles
<1>2. (h # 0 => h \in Used) /\ (i # 0 => i \in Used) /\ (h # 0 => h # i)
  BY <1>1, HeldAreUsed
<1>3. CASE MPFSClose({h}) /\ curHTTP' = [curHTTP EXCEPT !.file = 0] /\ Go(c, "DISCONNECT", TRUE)
  <2>1. IsContext(curHTTP') /\ curHTTP'.file = 0 /\ curHTTP'.offsets = i
    BY <1>1, <1>3 DEF IsContext, Fields
  <2>2. Stubs' /\ Used' = Used \ {h}
    BY <1>3, Closes
  <2>3. Used' = (Used \ {curHTTP.file, curHTTP.offsets})
                  \cup ({curHTTP'.file, curHTTP'.offsets} \ {0})
    BY <1>1, <1>2, <2>1, <2>2
  <2> QED BY <1>1, <1>3, <2>1, <2>2, <2>3, Swaps DEF States, Early
<1>4. CASE TakeVariable(h, from + Bytes) /\ Go(c, "SEND_FROM_CALLBACK", full)
  <2> DEFINE last == Rest(i) = 1
  <2>1. IsContext(curHTTP') /\ curHTTP'.file = h /\ curHTTP'.offsets = IF last THEN 0 ELSE i
    <3> DEFINE rest == IF last THEN 0 ELSE i
    <3>1. \E u, v, w : curHTTP' = [curHTTP EXCEPT !.byteCount = u, !.callbackID = v,
                        !.nextCallback = w, !.offsets = rest]
      BY <1>4 DEF TakeVariable
    <3>2. rest \in 0 .. MaxHandles /\ h \in 0 .. MaxHandles
      BY <1>1 DEF IsContext
    <3> HIDE DEF rest
    <3>3. PICK u, v, w : curHTTP' = [curHTTP EXCEPT !.byteCount = u, !.callbackID = v,
                           !.nextCallback = w, !.offsets = rest]
      BY <3>1
    <3>4. Holds(curHTTP', h, rest)
      BY <1>1, <3>2, <3>3, ContextHandles
    <3> QED BY <3>4 DEF Holds, rest
  <2>2. \E p, q : mpfs' = [mpfs EXCEPT ![h].pos = p,
                      ![i] = IF last THEN Free ELSE [mpfs[i] EXCEPT !.pos = q]]
    BY <1>4 DEF TakeVariable
  <2>3. Stubs' /\ (last => Used' = Used \ {i}) /\ (~last => Used' = Used)
    <3>1. PICK p, q : mpfs' = [mpfs EXCEPT ![h].pos = p,
                        ![i] = IF last THEN Free ELSE [mpfs[i] EXCEPT !.pos = q]]
      BY <2>2
    <3>2. h \in Used \cup {0} /\ i \in Used \cup {0} /\ (h # 0 => h # i)
      BY <1>2
    <3>3. CASE last
      <4>1. mpfs' = [mpfs EXCEPT ![h].pos = p, ![i] = Free]
        BY <3>1, <3>3
      <4> HIDE DEF h, i, last
      <4> QED BY <3>2, <3>3, <4>1, HandleSteps
    <3>4. CASE ~last
      <4>1. mpfs' = [mpfs EXCEPT ![h].pos = p, ![i] = [mpfs[i] EXCEPT !.pos = q]]
        BY <3>1, <3>4
      <4> HIDE DEF h, i, last
      <4> QED BY <3>2, <3>4, <4>1, HandleSteps
    <3> QED BY <3>3, <3>4
  <2> HIDE DEF last
  <2>4. Used' = (Used \ {curHTTP.file, curHTTP.offsets})
                  \cup ({curHTTP'.file, curHTTP'.offsets} \ {0})
    BY <1>1, <1>2, <2>1, <2>3
  <2>5. ({curHTTP'.file, curHTTP'.offsets} \ {0}) \cap Used \subseteq {curHTTP.file, curHTTP.offsets}
    BY <2>1
  <2>6. curHTTP'.file # 0 => curHTTP'.file # curHTTP'.offsets
    BY <1>2, <2>1
  <2>7. "SEND_FROM_CALLBACK" \in States \ Early
    BY DEF States, Early
  <2> HIDE DEF full, h, i
  <2> QED BY <1>1, <1>4, <2>1, <2>3, <2>4, <2>5, <2>6, <2>7, Swaps
<1>5. CASE /\ mpfs' = [mpfs EXCEPT ![h].pos = from + Bytes]
           /\ curHTTP' = [curHTTP EXCEPT !.byteCount = @ + Bytes]
           /\ Go(c, "SERVE_BODY", full)
  <2>1. SameHandles(curHTTP, curHTTP')
    BY <1>1, <1>5, ContextFields
  <2>2. Stubs' /\ \A k \in Handles : mpfs'[k] = Free <=> mpfs[k] = Free
    <3>1. CASE h = 0
      <4>1. 0 \notin Handles /\ mpfs = [k \in Handles |-> mpfs[k]]
        BY DEF IInv, Typed, Handles
      <4>2. \A n : [mpfs EXCEPT ![0].pos = n] = mpfs
        BY <4>1
      <4>3. mpfs' = mpfs
        BY <1>5, <3>1, <4>2
      <4> QED BY <4>3 DEF Stubs, IInv, Typed
    <3>2. CASE h # 0
      <4>1. h \in Handles /\ mpfs[h] # Free
        BY <1>2, <3>2 DEF Used
      <4> QED BY <1>5, <4>1, ReadKeeps
    <3> QED BY <3>1, <3>2
  <2>3. "SERVE_BODY" \in States /\ "SERVE_BODY" \notin Early
    BY DEF States, Early
  <2> HIDE DEF full
  <2> QED BY <1>1, <1>5, <2>1, <2>2, <2>3, Stays
<1> QED BY <1>3, <1>4, <1>5 DEF ServeBody

LEMMA DisconnectStep ==
  ASSUME IInv, NEW c \in Conns, Disconnect(c)
  PROVE  IInv'
<1>1. active = c /\ IsContext(curHTTP) /\ 0 \notin Used /\ 0 \in 0 .. MaxHandles
  BY NoHandle DEF Disconnect, In, IInv, Typed, Used, Handles
<1>2. Holds(curHTTP', 0, 0)
  BY <1>1, ContextHandles DEF Disconnect
<1>3. Stubs' /\ Used' = Used \ {curHTTP.file, curHTTP.offsets}
  BY Closes DEF Disconnect
<1>4. Go(c, "IDLE", TRUE) /\ "IDLE" \in States
  BY DEF Disconnect, States
<1>5. /\ Typed' /\ Context(c)' = curHTTP' /\ sm'[c] = "IDLE"
      /\ \A d \in Conns \ {c} : Context(d)' = Context(d) /\ sm'[d] = sm[d]
  BY <1>1, <1>2, <1>3, <1>4, AfterGo DEF Holds
<1>6. Held(c)' = {} /\ Context(c)'.file = 0 /\ Context(c)'.offsets = 0
  BY <1>2, <1>5 DEF Held, Holds
<1>7. Used' = (Used \ Held(c)) \cup Held(c)'
  BY <1>1, <1>3, <1>6, Inside DEF Held
<1> QED BY <1>5, <1>6, <1>7, Exchanges
-----------------------------------------------------------------------------
LEMMA InitOk ==
  ASSUME Init
  PROVE  IInv
<1>1. IsContext(FreshContext) /\ FreshContext.file = 0 /\ FreshContext.offsets = 0
  BY NoHandle DEF IsContext, Fields, FreshContext
<1>2. IsStub(Free)
  BY DEF IsStub, Places, Free
<1>3. Typed
  BY <1>1, <1>2 DEF Init, Typed, States
<1>4. \A c \in Conns : Context(c) = FreshContext
  BY DEF Init, Context
<1>5. Used = {} /\ \A c \in Conns : Held(c) = {}
  BY <1>1, <1>4 DEF Init, Used, Held
<1>6. OneOwnerEach
  BY <1>1, <1>4, <1>5 DEF OneOwnerEach, Used
<1>7. EarlyHoldNothing
  BY <1>1, <1>4 DEF EarlyHoldNothing
<1> QED BY <1>3, <1>6, <1>7 DEF IInv

\* The network and the clock do not touch the server's memory.
LEMMA MemoryKept ==
  ASSUME IInv, UNCHANGED memory
  PROVE  IInv'
<1>1. Typed' /\ Used' = Used /\ sm' = sm
  BY DEF IInv, Typed, memory, Used
<1>2. ASSUME NEW d \in Conns PROVE SameHandles(Context(d), Context(d)')
  <2>1. IsContext(Context(d)) /\ Context(d)' = Context(d)
    BY DEF IInv, Typed, memory, Context
  <2> QED BY <2>1 DEF SameHandles
<1> QED BY <1>1, <1>2, Keeps

LEMMA Step ==
  ASSUME IInv, [Next]_vars
  PROVE  IInv'
<1>1. CASE UNCHANGED vars
  BY <1>1, MemoryKept DEF vars, memory
<1>2. ASSUME NEW c \in Conns,
             PutAway(c) \/ Visit(c) \/ HTTPProcess(c) \/ Network(c) \/ Deadline(c)
      PROVE  IInv'
  <2>1. CASE PutAway(c)
    BY <2>1, PutAwayStep
  <2>2. CASE Visit(c)
    BY <2>2, VisitStep
  <2>3. CASE HTTPProcess(c)
    BY <2>3, BeginStep, AwaitStep, ParseRequestStep, ParseHeadersStep, AuthenticateStep,
       ProcessPostStep, ProcessRequestStep, ServeHeadersStep, ServeBodyStep,
       SendFromCallbackStep, DisconnectStep DEF HTTPProcess
  <2>4. CASE Network(c)
    <3>1. UNCHANGED memory
      BY <2>4 DEF Network, Connect, Arrive, Read, HalfClose, CloseWaitTimer, Closed, Reset, Quiet
    <3> QED BY <3>1, MemoryKept
  <2>5. CASE Deadline(c)
    <3>1. UNCHANGED memory
      BY <2>5 DEF Deadline
    <3> QED BY <3>1, MemoryKept
  <2> QED BY <1>2, <2>1, <2>2, <2>3, <2>4, <2>5
<1> QED BY <1>1, <1>2 DEF Next

\* The server's memory keeps its shape: the contexts in both RAMs, the states
\* and the handles, and the context in RAM is that of the connection at work.
THEOREM ServerTyped == SafeSpec => []Typed
<1>1. Init => IInv
  BY InitOk
<1>2. IInv /\ [Next]_vars => IInv'
  BY Step
<1>3. IInv => Typed
  BY DEF IInv
<1> QED BY <1>1, <1>2, <1>3, PTL DEF SafeSpec

\* However browsers come, stall, close and are reset, every handle in use is
\* one connection's, and whoever is about to open a page finds two.
THEOREM HandlesKept == SafeSpec => []HandlesOwned
<1>1. Init => IInv
  BY InitOk
<1>2. IInv /\ [Next]_vars => IInv'
  BY Step
<1>3. IInv => HandlesOwned
  <2> SUFFICES ASSUME IInv PROVE TwoLeft
    BY DEF IInv, HandlesOwned
  <2>1. ASSUME NEW c \in Conns, In(c, "PARSE_REQUEST")
        PROVE  /\ MPFSHandle(Available) # 0
               /\ MPFSHandle(Available \ {MPFSHandle(Available)}) # 0
    <3>1. Held(c) = {}
      BY <2>1 DEF IInv, EarlyHoldNothing, Early, In, Held
    <3>2. 0 \notin Available
      BY DEF Available, Handles
    <3> QED BY <3>1, <3>2, TwoHandles
  <2> QED BY <2>1 DEF TwoLeft
<1> QED BY <1>1, <1>2, <1>3, PTL DEF SafeSpec
-----------------------------------------------------------------------------
(* The second invariant: where each connection is in the request that its  *)
(* browser has sent and in the answer that it is owed.  It is stated of    *)
(* one connection, by values: its context, its socket, its browser, its    *)
(* state, and what its two handles stand for.                              *)

\* The pieces of a request, and the tokens that an answer is made of.
Kinds == {"line", "auth", "cookie", "length", "blank", "body", "flood"}
Bits(r) == {Piece(kind, r) : kind \in Kinds}
Words(s) == {s[i] : i \in 1 .. Len(s)}
Texts == UNION {Words(Content[page]) : page \in Pages}
Printable == UNION {Words(Prints[v]) : v \in UNION {Words(Index[page]) : page \in Pages}}
Tokens(r) ==
  {"no-cache", "max-age", r.method, DataFor(r)} \cup Refusals(r) \cup Texts \cup Printable

Body(r) == When(r.method = "POST", Piece("body", r))
AfterLength(r) ==
  IF r.size = "headers" THEN <<Piece("flood", r)>> ELSE <<Piece("blank", r)>> \o Body(r)
AfterCookie(r) == When(r.size = "length" \/ r.method = "POST", Piece("length", r)) \o AfterLength(r)
AfterAuth(r) == When(r.size = "cookie", Piece("cookie", r)) \o AfterCookie(r)
AfterLine(r) == When(r.creds, Piece("auth", r)) \o AfterAuth(r)

\* The status when all the headers of a request have been read.
Status(r) ==
  CASE r.size = "cookie" -> "OVERFLOW"
    [] r.size = "length" -> "BAD_REQUEST"
    [] OTHER -> r.method
Allowed(r) == r.page \notin Protected \/ r.creds

\* A request whose line is taken and whose page is opened.
Understood(r) == r.method \in {"GET", "POST"} /\ r.size \notin {"flood", "name", "args"}

\* What is left of the headers, and what those before have said.
HeadersLeft(r, left, x) ==
  \/ /\ left = AfterLine(r)
     /\ x.isAuthorized <=> r.page \notin Protected
     /\ x.status = r.method
  \/ /\ x.isAuthorized <=> Allowed(r)
     /\ \/ left = AfterAuth(r) /\ x.status = r.method
        \/ left = AfterCookie(r) /\ x.status = IF r.size = "cookie" THEN "OVERFLOW" ELSE r.method
        \/ left = AfterLength(r) /\ x.status = Status(r)

\* The page and its index, opened and not yet read.
Opened(r, x, page, index) ==
  /\ x.file = 0 <=> r.page \notin Pages
  /\ x.file # 0 => page = [file |-> "page", of |-> r.page, pos |-> 0]
  /\ x.offsets = 0 <=> (r.page \notin Pages \/ Index[r.page] = <<>>)
  /\ x.offsets # 0 => index = [file |-> "index", of |-> r.page, pos |-> 0]

\* A page that is being read: byteCount is the place in it, and nextCallback the
\* place of its next variable.
Placed(r, x, page, index) ==
  LET text == Content[r.page]
      offsets == Index[r.page]
  IN /\ r.page \in Pages /\ x.file # 0
     /\ page = [file |-> "page", of |-> r.page, pos |-> x.byteCount]
     /\ x.byteCount \in 0 .. Len(text)
     /\ \/ /\ x.offsets = 0 /\ x.nextCallback = Huge
           /\ Plain(text, x.byteCount, Len(text))
        \/ /\ x.offsets # 0
           /\ \E k \in 1 .. Len(offsets) :
                /\ k % 2 = 1
                /\ index = [file |-> "index", of |-> r.page, pos |-> k]
                /\ x.nextCallback = offsets[k] /\ x.byteCount <= offsets[k]
                /\ Plain(text, x.byteCount, offsets[k])

\* What the server has on the connection, whatever has become of it.
Working(r, x, st, page, index) ==
  CASE st \in {"PARSE_HEADERS", "AUTHENTICATE", "PROCESS_POST", "PROCESS_REQUEST"} ->
         Understood(r) /\ Opened(r, x, page, index)
    [] st = "SERVE_HEADERS" ->
         x.status \in {"GET", "POST"} =>
           /\ Placed(r, x, page, index) /\ x.byteCount = 0
           /\ x.nextCallback = Huge <=> Index[r.page] = <<>>
    [] st \in {"SERVE_BODY", "SEND_FROM_CALLBACK"} -> Placed(r, x, page, index)
    [] OTHER -> TRUE

\* An answer goes on with this.
GoesOn(r, got, rest) == Fits(r.page) => got \o rest = Page(r)

\* What was said and heard, on a connection that stands.
Heard(x, sk, cl, st) ==
  LET r == cl.req
      left == sk.rx \o cl.pending
      early == sk.tx = 0 /\ cl.got = <<>>
      page == x.status \in {"GET", "POST"}
  IN CASE st \in {"IDLE", "PARSE_REQUEST"} -> early /\ left = Pieces(r)
       [] st = "PARSE_HEADERS" -> early /\ x.data = "unknown" /\ HeadersLeft(r, left, x)
       [] st = "AUTHENTICATE" ->
            /\ early /\ x.data = "unknown" /\ left = Body(r) /\ r.size # "headers"
            /\ x.status = Status(r) /\ (x.isAuthorized <=> Allowed(r))
       [] st = "PROCESS_POST" ->
            /\ early /\ x.data = "unknown" /\ left = Body(r) /\ r.size # "headers"
            /\ x.status = Status(r) /\ Allowed(r)
       [] st = "PROCESS_REQUEST" ->
            /\ early /\ r.size # "headers" /\ x.status = Status(r) /\ Allowed(r)
            /\ page /\ x.file # 0 => x.data = DataFor(r)
       [] st = "SERVE_HEADERS" ->
            /\ early
            /\ IF page THEN Refusals(r) = {} /\ x.status = r.method /\ x.data = DataFor(r)
               ELSE x.status \in Refusals(r)
       [] st = "SERVE_BODY" ->
            /\ Refusals(r) = {} /\ x.data = DataFor(r)
            /\ GoesOn(r, cl.got, From(r.page, DataFor(r))[x.byteCount + 1])
       [] st = "SEND_FROM_CALLBACK" ->
            /\ Refusals(r) = {} /\ x.data = DataFor(r)
            /\ GoesOn(r, cl.got, Printed(x.callbackID, x.data) \o From(r.page, DataFor(r))[x.byteCount + 1])
            /\ \E k \in 1 .. Len(Index[r.page]) : k % 2 = 0 /\ x.callbackID = Index[r.page][k]
       [] OTHER -> Fits(r.page) => cl.got \in Answers(r)

\* What one connection's parts are made of.
Shaped(sk, cl) ==
  /\ sk = [st |-> sk.st, reset |-> sk.reset, rx |-> sk.rx, tx |-> sk.tx]
  /\ sk.st \in {"listen", "open", "half", "cut", "closing"} /\ sk.reset \in BOOLEAN
  /\ sk.rx \in Seq(Bits(cl.req)) /\ sk.tx \in 0 .. TxRoom
  /\ cl = [req |-> cl.req, pending |-> cl.pending, got |-> cl.got]
  /\ cl.pending \in Seq(Bits(cl.req)) /\ cl.got \in Seq(Tokens(cl.req))

\* What the browser has is the beginning of an answer.
Told(cl) ==
  cl.got # <<>> /\ Fits(cl.req.page) => \E a \in Answers(cl.req) : IsPrefix(cl.got, a)

Served(x, sk, cl, st, page, index, busy) ==
  /\ Shaped(sk, cl) /\ Told(cl)
  /\ sk.reset /\ busy => sk.st = "listen" /\ st = "DISCONNECT"
  /\ sk.st \in {"listen", "cut", "closing"} => sk.rx = <<>>
  /\ sk.st = "listen" =>
       /\ sk.tx = 0 /\ (sk.reset \/ st = "IDLE")
       /\ busy => sk.reset /\ st = "DISCONNECT"
  /\ sk.st = "closing" =>
       /\ ~sk.reset
       /\ IF busy THEN st = "DISCONNECT"
          ELSE st = "IDLE" /\ (Fits(cl.req.page) => cl.got \in Answers(cl.req))
  /\ sk.st \in {"open", "half"} =>
       IF sk.reset THEN sk.tx = 0 /\ cl.got = <<>> /\ sk.rx \o cl.pending = Pieces(cl.req)
       ELSE Heard(x, sk, cl, st)
  /\ sk.st \in {"open", "half", "cut"} /\ ~sk.reset => Working(cl.req, x, st, page, index)

\* What a handle stands for.
Stub(stubs, h) == IF h = 0 THEN Free ELSE stubs[h]

ServedAt(c) ==
  Served(Context(c), sock[c], client[c], sm[c],
         Stub(mpfs, Context(c).file), Stub(mpfs, Context(c).offsets), active = c)

AllServed ==
  /\ sock = [c \in Conns |-> sock[c]] /\ client = [c \in Conns |-> client[c]]
  /\ \A c \in Conns : ServedAt(c)
-----------------------------------------------------------------------------
(* A page, its variables and its index.                                    *)

LEMMA TupleSeq ==
  ASSUME NEW s, IsTuple(s)
  PROVE  s \in Seq(Words(s))
<1>1. \A i \in 1 .. Len(s) : s[i] \in Words(s)
  BY DEF Words
<1>2. s = [i \in 1 .. Len(s) |-> s[i]] /\ Len(s) \in Nat
  BY DEF IsTuple
<1>3. s \in [1 .. Len(s) -> Words(s)]
  BY <1>1, <1>2
<1> QED BY <1>2, <1>3, SeqDef

\* The beginning of a sequence is one.
LEMMA Beginning ==
  ASSUME NEW T, NEW s \in Seq(T), NEW t \in Seq(T)
  PROVE  IsPrefix(s, s \o t)
<1>1. /\ s \o t \in Seq(T) /\ Len(s) \in Nat /\ Len(t) \in Nat /\ Len(s \o t) = Len(s) + Len(t)
      /\ \A i \in 1 .. Len(s) + Len(t) : (s \o t)[i] = IF i <= Len(s) THEN s[i] ELSE t[i - Len(s)]
  BY ConcatProperties, LenProperties
<1>2. \A i \in 1 .. Len(s) : (s \o t)[i] \in T
  BY <1>1, ElementOfSeq
<1>3. /\ SubSeq(s \o t, 1, Len(s)) \in Seq(T)
      /\ Len(SubSeq(s \o t, 1, Len(s))) = Len(s)
      /\ \A i \in 1 .. Len(s) : SubSeq(s \o t, 1, Len(s))[i] = (s \o t)[i]
  <2> DEFINE u == s \o t
             n == Len(s)
  <2>1. n \in Int /\ 1 \in Int /\ \A i \in 1 .. n : u[i] \in T
    BY <1>1, <1>2
  <2> HIDE DEF u, n
  <2>2. /\ SubSeq(u, 1, n) \in Seq(T)
        /\ Len(SubSeq(u, 1, n)) = IF 1 <= n THEN n - 1 + 1 ELSE 0
        /\ \A i \in 1 .. n - 1 + 1 : SubSeq(u, 1, n)[i] = u[1 + i - 1]
    BY <2>1, SubSeqProperties
  <2>3. n \in Nat
    BY <1>1 DEF n
  <2>4. Len(SubSeq(u, 1, n)) = n /\ \A i \in 1 .. n : SubSeq(u, 1, n)[i] = u[i]
    BY <2>2, <2>3
  <2> QED BY <2>2, <2>4 DEF u, n
<1>4. \A i \in 1 .. Len(s) : SubSeq(s \o t, 1, Len(s))[i] = s[i]
  BY <1>1, <1>3
<1>5. SubSeq(s \o t, 1, Len(s)) = s
  BY <1>3, <1>4, SeqEqual
<1> QED BY <1>1, <1>5 DEF IsPrefix

\* One step of what is left of a page.
FromStep(page, data, from, i) ==
  IF i > Len(Content[page]) THEN <<>>
  ELSE IF Content[page][i] = "~" THEN Printed(Content[page][i + 1], data) \o from[i + 3]
  ELSE <<Content[page][i]>> \o from[i + 1]

\* The recursion goes on to later places only, so that there is such a function.
LEMMA FromExists ==
  ASSUME NEW page, NEW data, Len(Content[page]) \in Nat
  PROVE  \A i \in 1 .. Len(Content[page]) + 3 :
           From(page, data)[i] = FromStep(page, data, From(page, data), i)
<1> DEFINE text == Content[page]
           n == Len(text) + 3
           IsFrom(f, k) == f = [i \in k .. n |-> FromStep(page, data, f, i)]
           Bad == {m \in Nat : m <= n /\ ~ \E f : IsFrom(f, n + 1 - m)}
<1>1. n \in Nat
  OBVIOUS
<1>2. ASSUME NEW m \in Nat, m + 1 <= n, NEW f, IsFrom(f, n + 1 - m)
      PROVE  \E g : IsFrom(g, n + 1 - (m + 1))
  <2> DEFINE k == n - m
             g == [i \in k .. n |-> IF i = k THEN FromStep(page, data, f, k) ELSE f[i]]
  <2>1. k \in Nat /\ k >= 1 /\ k <= n /\ n + 1 - m = k + 1 /\ n + 1 - (m + 1) = k
    <3> HIDE DEF n, IsFrom, Bad, g
    <3> QED BY <1>1, <1>2 DEF k
  <2>2. \A i \in k + 1 .. n : g[i] = f[i]
    BY <2>1
  <2>3. ASSUME NEW i \in k .. n PROVE FromStep(page, data, g, i) = FromStep(page, data, f, i)
    <3>1. CASE i > Len(text)
      BY <3>1 DEF FromStep
    <3>2. CASE i <= Len(text)
      <4>1. i + 1 \in k + 1 .. n /\ i + 3 \in k + 1 .. n
        BY <1>1, <2>1, <3>2
      <4> HIDE DEF g
      <4>2. g[i + 1] = f[i + 1] /\ g[i + 3] = f[i + 3]
        BY <2>2, <4>1
      <4> QED BY <4>2 DEF FromStep
    <3> QED BY <1>1, <2>1, <3>1, <3>2
  <2>4. ASSUME NEW i \in k .. n PROVE g[i] = FromStep(page, data, g, i)
    <3>1. CASE i = k
      BY <2>3, <3>1
    <3>2. CASE i # k
      <4>1. i \in k + 1 .. n
        BY <2>1, <3>2
      <4>2. f[i] = FromStep(page, data, f, i)
        BY <1>2, <2>1, <4>1
      <4> QED BY <2>2, <2>3, <4>1, <4>2
    <3> QED BY <3>1, <3>2
  <2>5. g = [i \in k .. n |-> g[i]]
    OBVIOUS
  <2> HIDE DEF g
  <2>6. g = [i \in k .. n |-> FromStep(page, data, g, i)]
    BY <2>4, <2>5
  <2> QED BY <2>1, <2>6
<1>3. 0 \notin Bad
  <2> DEFINE f == [i \in n + 1 .. n |-> FromStep(page, data, <<>>, i)]
  <2>1. n + 1 .. n = {}
    BY <1>1
  <2>2. IsFrom(f, n + 1 - 0)
    BY <1>1, <2>1
  <2> QED BY <2>2
<1>4. Bad = {}
  <2> SUFFICES ASSUME Bad # {} PROVE FALSE
    OBVIOUS
  <2>1. PICK b \in Bad : \A m \in Bad : b <= m
    <3>1. Bad \in SUBSET Nat
      OBVIOUS
    <3> HIDE DEF Bad
    <3> QED BY <3>1, LeastNumber
  <2>2. b \in Nat /\ b # 0 /\ b <= n
    BY <1>3, <2>1
  <2>3. b - 1 \in Nat /\ b - 1 \notin Bad /\ b - 1 + 1 = b /\ b - 1 <= n
    <3>1. b - 1 \in Nat /\ b - 1 + 1 = b /\ b - 1 <= n /\ ~ (b <= b - 1)
      <4> HIDE DEF n, IsFrom, Bad
      <4> QED BY <1>1, <2>2
    <3> QED BY <2>1, <3>1
  <2>4. \E f : IsFrom(f, n + 1 - (b - 1))
    BY <2>3
  <2>5. \E g : IsFrom(g, n + 1 - b)
    <3> HIDE DEF IsFrom
    <3>1. PICK f : IsFrom(f, n + 1 - (b - 1))
      BY <2>4
    <3>2. \E g : IsFrom(g, n + 1 - (b - 1 + 1))
      BY <1>2, <2>2, <2>3, <3>1
    <3> QED BY <2>3, <3>2
  <2> QED BY <2>1, <2>5
<1>5. \E f : f = [i \in 1 .. n |-> FromStep(page, data, f, i)]
  <2>1. n \notin Bad /\ n <= n /\ n + 1 - n = 1
    BY <1>1, <1>4
  <2>2. \E f : IsFrom(f, n + 1 - n)
    BY <1>1, <2>1
  <2> QED BY <2>1, <2>2
<1>6. From(page, data) = CHOOSE f : f = [i \in 1 .. n |-> FromStep(page, data, f, i)]
  BY DEF From, FromStep
<1>7. From(page, data) = [i \in 1 .. n |-> FromStep(page, data, From(page, data), i)]
  BY <1>5, <1>6
<1> QED BY <1>7

\* The offsets are places in the page, each behind the variable before it.
LEMMA IndexPlaces ==
  ASSUME NEW text, NEW index, WellIndexed(text, index)
  PROVE  /\ Len(text) \in Nat /\ Len(text) < Huge
         /\ Len(index) \in Nat /\ Len(index) % 2 = 0
         /\ \A k \in 1 .. Len(index) : k % 2 = 1 =>
              /\ index[k] \in Nat /\ index[k] + 3 <= Len(text)
              /\ Behind(index, k) \in 0 .. index[k]
<1>1. /\ Len(text) \in Nat /\ Len(text) < Huge /\ Len(index) \in Nat /\ Len(index) % 2 = 0
      /\ \A k \in 1 .. Len(index) : k % 2 = 1 =>
           index[k] \in Behind(index, k) .. Len(text) - 3
  BY DEF WellIndexed, IsTuple
<1> DEFINE Odd == {k \in 1 .. Len(index) : k % 2 = 1}
           Ok(k) == index[k] \in Nat /\ index[k] + 3 <= Len(text) /\ Behind(index, k) \in 0 .. index[k]
           Bad == {k \in Odd : ~ Ok(k)}
<1>2. ASSUME NEW k \in Odd, k # 1 => Ok(k - 2) PROVE Ok(k)
  <2>1. index[k] \in Behind(index, k) .. Len(text) - 3
    BY <1>1
  <2>2. Behind(index, k) \in Nat
    BY <1>2 DEF Behind
  <2> QED BY <1>1, <2>1, <2>2
<1>3. Bad = {}
  <2> HIDE DEF Ok
  <2> SUFFICES ASSUME Bad # {} PROVE FALSE
    OBVIOUS
  <2>1. Bad \in SUBSET Nat
    BY <1>1
  <2>2. PICK k \in Bad : \A m \in Bad : k <= m
    <3> HIDE DEF Bad
    <3> QED BY <2>1, LeastNumber
  <2>3. k \in Nat /\ k \in Odd /\ ~ Ok(k)
    BY <2>1, <2>2
  <2>4. ASSUME k # 1 PROVE Ok(k - 2)
    <3>1. k - 2 \in Odd /\ ~ (k <= k - 2)
      <4> DEFINE n == Len(index)
      <4>1. n \in Nat /\ k \in 1 .. n /\ k % 2 = 1 /\ k # 1
        BY <1>1, <2>3, <2>4
      <4> HIDE DEF n
      <4>2. k - 2 \in 1 .. n /\ (k - 2) % 2 = 1 /\ ~ (k <= k - 2)
        BY ONLY <4>1
      <4> QED BY <4>2 DEF n
    <3> QED BY <2>2, <3>1
  <2> QED BY <1>2, <2>3, <2>4
<1> QED BY <1>1, <1>3

\* The page from a on is its text up to b and the page from there on.
Runs(page, data, a, b) ==
  From(page, data)[a + 1] = SubSeq(Content[page], a + 1, b) \o From(page, data)[b + 1]

\* A text without variables goes on as it is written.
LEMMA FromPlain ==
  ASSUME NEW page, NEW data, NEW T, IsTuple(Content[page]), Words(Content[page]) \subseteq T,
         NEW b \in 0 .. Len(Content[page]), NEW a \in 0 .. b, Plain(Content[page], a, b),
         From(page, data)[b + 1] \in Seq(T)
  PROVE  /\ From(page, data)[a + 1] \in Seq(T)
         /\ Runs(page, data, a, b)
<1> DEFINE text == Content[page]
           from == From(page, data)
           Ok(k) == from[k + 1] \in Seq(T) /\ from[k + 1] = SubSeq(text, k + 1, b) \o from[b + 1]
           Bad == {m \in 0 .. b - a : ~ Ok(b - m)}
<1>1. text \in Seq(T) /\ Len(text) \in Nat
  <2>1. text \in Seq(Words(text))
    BY TupleSeq
  <2> QED BY <2>1, SeqMonotonic, LenProperties
<1>2. \A i \in 1 .. Len(text) + 3 : from[i] = FromStep(page, data, from, i)
  BY <1>1, FromExists
<1>3. Plain(text, a, b) /\ from[b + 1] \in Seq(T) /\ b \in 0 .. Len(text)
  OBVIOUS
<1> HIDE DEF text, from
<1>4. Ok(b)
  <2>1. SubSeq(text, b + 1, b) = <<>>
    BY SubSeqEmpty
  <2> QED BY <1>3, <2>1, ConcatEmptySeq
<1>5. ASSUME NEW k \in a .. b - 1, Ok(k + 1) PROVE Ok(k)
  <2>1. k \in Nat /\ k + 1 \in 1 .. Len(text) /\ b \in k + 1 .. Len(text) /\ k + 1 \in a + 1 .. b
        /\ k + 1 \in 1 .. Len(text) + 3
    BY <1>1, <1>3
  <2>2. text[k + 1] # "~" /\ text[k + 1] \in T
    BY <1>1, <1>3, <2>1, ElementOfSeq DEF Plain
  <2>3. from[k + 1] = <<text[k + 1]>> \o from[k + 1 + 1]
    <3>1. from[k + 1] = FromStep(page, data, from, k + 1) /\ ~ (k + 1 > Len(text))
      BY <1>1, <1>2, <2>1
    <3> QED BY <2>2, <3>1 DEF FromStep, text
  <2>4. SubSeq(text, k + 1, b) = <<text[k + 1]>> \o SubSeq(text, k + 1 + 1, b)
    BY <1>1, <2>1, SubSeqRecursiveFirst
  <2>5. SubSeq(text, k + 1 + 1, b) \in Seq(T)
    <3>1. \A i \in k + 1 + 1 .. b : text[i] \in T
      <4> SUFFICES ASSUME NEW i \in k + 1 + 1 .. b PROVE text[i] \in T
        OBVIOUS
      <4>1. i \in 1 .. Len(text)
        BY <1>1, <2>1
      <4> QED BY <1>1, <4>1, ElementOfSeq
    <3>2. k + 1 + 1 \in Int /\ b \in Int
      BY <2>1
    <3> QED BY <3>1, <3>2, SubSeqProperties
  <2>6. <<text[k + 1]>> \in Seq(T)
    BY <2>2
  <2>7. /\ from[k + 1 + 1] = SubSeq(text, k + 1 + 1, b) \o from[b + 1]
        /\ from[k + 1 + 1] \in Seq(T)
    BY <1>5
  <2>8. from[k + 1] = SubSeq(text, k + 1, b) \o from[b + 1]
    <3>1. (<<text[k + 1]>> \o SubSeq(text, k + 1 + 1, b)) \o from[b + 1]
            = <<text[k + 1]>> \o (SubSeq(text, k + 1 + 1, b) \o from[b + 1])
      <4> DEFINE s == <<text[k + 1]>>
                 t == SubSeq(text, k + 1 + 1, b)
                 u == from[b + 1]
      <4>1. s \in Seq(T) /\ t \in Seq(T) /\ u \in Seq(T)
        BY <1>3, <2>5, <2>6
      <4> HIDE DEF s, t, u
      <4>2. (s \o t) \o u = s \o (t \o u)
        BY ONLY <4>1, ConcatAssociative, SMTT(20)
      <4> QED BY <4>2 DEF s, t, u
    <3> QED BY ONLY <2>3, <2>4, <2>7, <3>1
  <2>9. from[k + 1] \in Seq(T)
    BY <2>3, <2>6, <2>7, ConcatProperties
  <2> QED BY <2>8, <2>9
<1>6. Bad = {}
  <2> SUFFICES ASSUME Bad # {} PROVE FALSE
    OBVIOUS
  <2> HIDE DEF Ok
  <2>1. Bad \in SUBSET Nat
    OBVIOUS
  <2>2. PICK m \in Bad : \A n \in Bad : m <= n
    <3> HIDE DEF Bad
    <3> QED BY <2>1, LeastNumber
  <2>3. m \in 0 .. b - a /\ ~ Ok(b - m)
    BY <2>2
  <2>4. m # 0
    BY <1>4, <2>3
  <2>5. m - 1 \in 0 .. b - a /\ ~ (m <= m - 1) /\ b - (m - 1) = b - m + 1 /\ b - m \in a .. b - 1
    BY <2>3, <2>4
  <2>6. Ok(b - (m - 1))
    BY <2>2, <2>5
  <2>7. Ok(b - m + 1)
    BY <2>5, <2>6
  <2> QED BY <1>5, <2>3, <2>5, <2>7
<1>7. b - a \in 0 .. b - a /\ b - (b - a) = a
  BY <1>3
<1>8. Ok(b - (b - a))
  BY <1>6, <1>7
<1>9. Ok(a)
  BY <1>7, <1>8
<1> QED BY <1>9 DEF text, from, Runs

LEMMA FromEnd ==
  ASSUME NEW page, NEW data, NEW T, Len(Content[page]) \in Nat
  PROVE  From(page, data)[Len(Content[page]) + 1] = <<>>
<1> DEFINE n == Len(Content[page])
           from == From(page, data)
<1>1. n + 1 \in 1 .. n + 3 /\ n + 1 > n
  OBVIOUS
<1>2. from[n + 1] = FromStep(page, data, from, n + 1)
  BY <1>1, FromExists
<1> QED BY <1>1, <1>2 DEF FromStep

\* At the place of a variable stands what it prints.
LEMMA FromVariable ==
  ASSUME NEW page, NEW data, WellIndexed(Content[page], Index[page]),
         NEW k \in 1 .. Len(Index[page]), k % 2 = 1
  PROVE  From(page, data)[Index[page][k] + 1]
           = Printed(Index[page][k + 1], data) \o From(page, data)[Index[page][k] + 4]
<1> DEFINE text == Content[page]
           from == From(page, data)
           i == Index[page][k] + 1
<1>1. /\ Len(text) \in Nat /\ i \in 1 .. Len(text) /\ text[i] = "~"
      /\ text[i + 1] = Index[page][k + 1] /\ i + 3 = Index[page][k] + 4
  <2> HIDE DEF text
  <2>1. /\ Len(text) \in Nat /\ Index[page][k] \in Nat /\ Index[page][k] + 3 <= Len(text)
        /\ text[Index[page][k] + 1] = "~" /\ text[Index[page][k] + 2] = Index[page][k + 1]
    BY IndexPlaces DEF WellIndexed, IsTuple, text
  <2>2. \A p, n \in Nat : p + 3 <= n => /\ (p + 1) + 1 = p + 2 /\ (p + 1) + 3 = p + 4
                                        /\ p + 1 \in 1 .. n
    OBVIOUS
  <2>3. i + 1 = Index[page][k] + 2 /\ i \in 1 .. Len(text) /\ i + 3 = Index[page][k] + 4
    BY ONLY <2>1, <2>2 DEF i
  <2>4. text[i] = "~" /\ text[i + 1] = Index[page][k + 1]
    BY ONLY <2>1, <2>3 DEF i
  <2> QED BY ONLY <2>1, <2>3, <2>4
<1>2. \A j \in 1 .. Len(text) + 3 : from[j] = FromStep(page, data, from, j)
  BY <1>1, FromExists
<1> HIDE DEF i, from
<1>3. from[i] = FromStep(page, data, from, i) /\ ~ (i > Len(text))
  BY <1>1, <1>2
<1>4. FromStep(page, data, from, i) = Printed(text[i + 1], data) \o from[i + 3]
  BY <1>1, <1>3 DEF FromStep
<1> QED BY <1>1, <1>3, <1>4 DEF i, from

\* What a page's variable prints are tokens.
LEMMA PrintedTyped ==
  ASSUME NEW r, r.page \in Pages, WellIndexed(Content[r.page], Index[r.page]),
         NEW k \in 1 .. Len(Index[r.page]), k % 2 = 1
  PROVE  /\ k + 1 \in 1 .. Len(Index[r.page])
         /\ Printed(Index[r.page][k + 1], DataFor(r)) \in Seq(Tokens(r))
         /\ Fits(r.page) => Len(Printed(Index[r.page][k + 1], DataFor(r))) <= MinFree
<1> DEFINE index == Index[r.page]
           v == index[k + 1]
<1>1. Len(index) \in Nat /\ Len(index) % 2 = 0 /\ (v # Verdict => IsTuple(Prints[v]))
  BY DEF WellIndexed, IsTuple
<1>2. k + 1 \in 1 .. Len(index) /\ (k + 1) % 2 = 0
  <2> DEFINE n == Len(index)
  <2>1. n \in Nat /\ n % 2 = 0 /\ k \in 1 .. n
    BY <1>1
  <2> HIDE DEF n
  <2>2. k + 1 \in 1 .. n /\ (k + 1) % 2 = 0
    BY ONLY <2>1, k % 2 = 1
  <2> QED BY <2>2 DEF n
<1>3. CASE v = Verdict
  <2>1. Printed(v, DataFor(r)) = <<DataFor(r)>> /\ Printed(v, None) = <<None>>
    BY <1>3 DEF Printed
  <2>2. <<DataFor(r)>> \in Seq(Tokens(r)) /\ Len(<<DataFor(r)>>) = 1 /\ 1 <= MinFree
    BY HttpAssumption DEF Tokens
  <2> QED BY <1>2, <2>1, <2>2
<1>4. CASE v # Verdict
  <2>1. Printed(v, DataFor(r)) = Prints[v] /\ Printed(v, None) = Prints[v]
    BY <1>4 DEF Printed
  <2>2. Prints[v] \in Seq(Words(Prints[v]))
    BY <1>1, <1>4, TupleSeq
  <2>3. v \in Words(index)
    BY <1>2 DEF Words
  <2>4. Words(Prints[v]) \subseteq Printable
    BY <2>3 DEF Printable
  <2>5. Words(Prints[v]) \subseteq Tokens(r)
    BY <2>4 DEF Tokens
  <2>6. Prints[v] \in Seq(Tokens(r))
    BY <2>2, <2>5, SeqMonotonic
  <2>7. Fits(r.page) => Len(Printed(v, None)) <= MinFree
    BY <1>2 DEF Fits
  <2> QED BY <1>2, <2>1, <2>6, <2>7
<1> QED BY <1>3, <1>4

\* Behind each variable there is a rest of the page.
LEMMA BehindTyped ==
  ASSUME NEW r, r.page \in Pages, WellIndexed(Content[r.page], Index[r.page]),
         NEW k \in 1 .. Len(Index[r.page]), k % 2 = 1
  PROVE  From(r.page, DataFor(r))[Index[r.page][k] + 4] \in Seq(Tokens(r))
<1> DEFINE text == Content[r.page]
           index == Index[r.page]
           from == From(r.page, DataFor(r))
           T == Tokens(r)
           n == Len(index)
           Ok(j) == from[index[j] + 4] \in Seq(T)
           Bad == {m \in 0 .. n : n - m \in 1 .. n /\ (n - m) % 2 = 1 /\ ~ Ok(n - m)}
<1>1. /\ Len(text) \in Nat /\ n \in Nat /\ n % 2 = 0
      /\ \A j \in 1 .. n : j % 2 = 1 =>
           /\ index[j] \in Nat /\ index[j] + 3 <= Len(text) /\ Behind(index, j) \in 0 .. index[j]
  BY IndexPlaces
<1>2. IsTuple(text) /\ Words(text) \subseteq T
  BY DEF WellIndexed, Texts, Tokens
<1>3. ASSUME NEW j \in 1 .. n, j % 2 = 1, Ok(j) PROVE from[index[j] + 1] \in Seq(T)
  <2>1. Printed(index[j + 1], DataFor(r)) \in Seq(T)
    BY <1>3, PrintedTyped
  <2>2. from[index[j] + 1] = Printed(index[j + 1], DataFor(r)) \o from[index[j] + 4]
    BY <1>3, FromVariable
  <2> HIDE DEF text, index, from, T, n
  <2> QED BY <1>3, <2>1, <2>2, ConcatProperties
<1>4. ASSUME NEW j \in 1 .. n, j % 2 = 1, j + 1 # n => j + 2 \in 1 .. n /\ Ok(j + 2) PROVE Ok(j)
  <2>1. index[j] \in Nat /\ index[j] + 3 <= Len(text)
    BY <1>1, <1>4
  <2>2. CASE j + 1 = n
    <3>1. Plain(text, index[j] + 3, Len(text))
      BY <1>4, <2>2 DEF WellIndexed
    <3>2. from[Len(text) + 1] = <<>> /\ <<>> \in Seq(T)
      BY <1>1, FromEnd
    <3>3. index[j] + 3 \in 0 .. Len(text) /\ Len(text) \in 0 .. Len(text)
          /\ index[j] + 3 + 1 = index[j] + 4
      BY <1>1, <2>1
    <3>4. from[index[j] + 3 + 1] \in Seq(T)
      <4>1. from[Len(text) + 1] \in Seq(T)
        BY <3>2
      <4> QED BY <1>2, <3>1, <3>3, <4>1, FromPlain
    <3> QED BY <3>3, <3>4
  <2>3. CASE j + 1 # n
    <3>1. j + 2 \in 1 .. n /\ (j + 2) % 2 = 1 /\ j + 2 - 2 = j /\ j + 2 # 1
      <4>1. n \in Nat /\ n % 2 = 0 /\ j \in 1 .. n /\ j % 2 = 1 /\ j + 1 # n
        BY <1>1, <1>4, <2>3
      <4> HIDE DEF n
      <4> QED BY ONLY <4>1
    <3>2. /\ Plain(text, Behind(index, j + 2), index[j + 2])
          /\ Behind(index, j + 2) = index[j] + 3
      BY <3>1 DEF WellIndexed, Behind
    <3>3. /\ index[j + 2] \in 0 .. Len(text) /\ index[j] + 3 \in 0 .. index[j + 2]
          /\ index[j] + 3 + 1 = index[j] + 4
      <4>1. index[j + 2] \in Nat /\ index[j + 2] + 3 <= Len(text)
            /\ Behind(index, j + 2) \in 0 .. index[j + 2]
        BY <1>1, <3>1
      <4> HIDE DEF index, text
      <4> QED BY <1>1, <2>1, <3>2, <4>1
    <3>4. from[index[j + 2] + 1] \in Seq(T)
      BY <1>3, <1>4, <2>3, <3>1
    <3>5. from[index[j] + 3 + 1] \in Seq(T)
      <4> DEFINE a == index[j] + 3
                 b == index[j + 2]
      <4>1. /\ b \in 0 .. Len(text) /\ a \in 0 .. b /\ Plain(text, a, b)
            /\ from[b + 1] \in Seq(T)
        BY <3>2, <3>3, <3>4
      <4> HIDE DEF a, b
      <4>2. from[a + 1] \in Seq(T)
        BY <1>2, <4>1, FromPlain
      <4> QED BY <4>2 DEF a
    <3> QED BY <3>3, <3>5
  <2> QED BY <2>2, <2>3
<1>5. Bad = {}
  <2> SUFFICES ASSUME Bad # {} PROVE FALSE
    OBVIOUS
  <2> HIDE DEF Ok, n
  <2>1. Bad \in SUBSET Nat
    BY <1>1
  <2>2. PICK m \in Bad : \A l \in Bad : m <= l
    <3> HIDE DEF Bad
    <3> QED BY <2>1, LeastNumber
  <2>3. m \in 0 .. n /\ n - m \in 1 .. n /\ (n - m) % 2 = 1 /\ ~ Ok(n - m)
    BY <2>2
  <2>4. ASSUME n - m + 1 # n PROVE n - m + 2 \in 1 .. n /\ Ok(n - m + 2)
    <3>1. /\ m - 2 \in 0 .. n /\ n - (m - 2) \in 1 .. n /\ (n - (m - 2)) % 2 = 1
          /\ n - (m - 2) = n - m + 2 /\ ~ (m <= m - 2)
      BY <1>1, <2>3, <2>4
    <3>2. Ok(n - (m - 2))
      BY <2>2, <3>1
    <3> QED BY <3>1, <3>2
  <2> QED BY <1>4, <2>3, <2>4
<1>6. n - k \in 0 .. n /\ n - (n - k) = k /\ k \in 1 .. n
  BY <1>1
<1>7. Ok(n - (n - k))
  <2>1. n - k \notin Bad /\ n - (n - k) \in 1 .. n /\ (n - (n - k)) % 2 = 1
    BY <1>5, <1>6
  <2> HIDE DEF Ok, n
  <2> QED BY <1>6, <2>1
<1>8. Ok(k)
  BY <1>6, <1>7
<1> QED BY <1>8

\* How far a page goes on without a variable.
PlainEnd(r, x) == IF x.offsets = 0 THEN Len(Content[r.page]) ELSE x.nextCallback

\* A place in a page: the numbers.
LEMMA PlacedBounds ==
  ASSUME NEW r, NEW x, NEW page, NEW index, Placed(r, x, page, index)
  PROVE  /\ r.page \in Pages /\ WellIndexed(Content[r.page], Index[r.page])
         /\ Len(Content[r.page]) \in Nat /\ Len(Content[r.page]) < Huge
         /\ x.byteCount \in Nat /\ x.nextCallback \in Nat /\ x.byteCount <= x.nextCallback
         /\ PlainEnd(r, x) \in x.byteCount .. Len(Content[r.page])
         /\ Plain(Content[r.page], x.byteCount, PlainEnd(r, x))
         /\ x.offsets = 0 => x.nextCallback = Huge
         /\ x.offsets # 0 =>
              \E k \in 1 .. Len(Index[r.page]) :
                 /\ k % 2 = 1 /\ index = [file |-> "index", of |-> r.page, pos |-> k]
                 /\ x.nextCallback = Index[r.page][k]
                 /\ x.nextCallback + 3 <= Len(Content[r.page])
<1> DEFINE text == Content[r.page]
           offsets == Index[r.page]
<1>1. r.page \in Pages /\ WellIndexed(text, offsets)
  BY PagesAssumption DEF Placed
<1>2. /\ Len(text) \in Nat /\ Len(text) < Huge
      /\ \A k \in 1 .. Len(offsets) : k % 2 = 1 =>
           offsets[k] \in Nat /\ offsets[k] + 3 <= Len(text)
  BY <1>1, IndexPlaces
<1>3. x.byteCount \in 0 .. Len(text)
  BY DEF Placed
<1>4. CASE x.offsets = 0
  <2>1. x.nextCallback = Huge /\ Plain(text, x.byteCount, Len(text))
    BY <1>4 DEF Placed
  <2>2. PlainEnd(r, x) = Len(text)
    BY <1>4 DEF PlainEnd
  <2>3. Huge \in Nat
    BY DEF Huge
  <2> HIDE DEF text, offsets
  <2> QED BY <1>1, <1>2, <1>3, <1>4, <2>1, <2>2, <2>3 DEF text, offsets
<1>5. CASE x.offsets # 0
  <2>1. PICK k \in 1 .. Len(offsets) :
          /\ k % 2 = 1 /\ index = [file |-> "index", of |-> r.page, pos |-> k]
          /\ x.nextCallback = offsets[k] /\ x.byteCount <= offsets[k]
          /\ Plain(text, x.byteCount, offsets[k])
    BY <1>5 DEF Placed
  <2>2. PlainEnd(r, x) = offsets[k]
    BY <1>5, <2>1 DEF PlainEnd
  <2>3. offsets[k] \in Nat /\ offsets[k] + 3 <= Len(text)
    BY <1>2, <2>1
  <2> HIDE DEF text, offsets
  <2> QED BY <1>1, <1>2, <1>3, <1>5, <2>1, <2>2, <2>3 DEF text, offsets
<1> QED BY <1>4, <1>5

\* A page read on for as long as it is plain.
LEMMA ReadOn ==
  ASSUME NEW r, NEW x, NEW page, NEW index, Placed(r, x, page, index),
         NEW b \in x.byteCount .. PlainEnd(r, x)
  PROVE  LET from == From(r.page, DataFor(r))
             out == SubSeq(Content[r.page], x.byteCount + 1, b)
         IN /\ out \in Seq(Tokens(r)) /\ Len(out) = b - x.byteCount
            /\ from[b + 1] \in Seq(Tokens(r))
            /\ from[x.byteCount + 1] = out \o from[b + 1]
<1> DEFINE text == Content[r.page]
           from == From(r.page, DataFor(r))
           a == x.byteCount
           end == PlainEnd(r, x)
           T == Tokens(r)
           out == SubSeq(text, a + 1, b)
<1>1. /\ r.page \in Pages /\ WellIndexed(text, Index[r.page]) /\ Len(text) \in Nat
      /\ a \in Nat /\ end \in a .. Len(text) /\ Plain(text, a, end)
  BY PlacedBounds
<1>2. IsTuple(text) /\ Words(text) \subseteq T
  BY <1>1 DEF WellIndexed, Texts, Tokens
<1>3. from[end + 1] \in Seq(T)
  <2>1. CASE x.offsets = 0
    <3>1. end = Len(text)
      BY <2>1 DEF PlainEnd
    <3>2. from[Len(text) + 1] = <<>>
      BY <1>1, FromEnd
    <3>3. from[end + 1] = <<>>
      BY <3>1, <3>2
    <3> HIDE DEF end, from, T
    <3> QED BY <3>3, EmptySeq
  <2>2. CASE x.offsets # 0
    <3>1. PICK k \in 1 .. Len(Index[r.page]) :
            k % 2 = 1 /\ x.nextCallback = Index[r.page][k]
      BY <2>2, PlacedBounds
    <3>2. end = Index[r.page][k]
      BY <2>2, <3>1 DEF PlainEnd
    <3>3. /\ from[Index[r.page][k] + 1]
               = Printed(Index[r.page][k + 1], DataFor(r)) \o from[Index[r.page][k] + 4]
          /\ from[Index[r.page][k] + 4] \in Seq(T)
          /\ Printed(Index[r.page][k + 1], DataFor(r)) \in Seq(T)
      BY <1>1, <3>1, FromVariable, BehindTyped, PrintedTyped
    <3> HIDE DEF end, from, T
    <3>4. from[Index[r.page][k] + 1] \in Seq(T)
      BY <3>3, ConcatProperties
    <3> QED BY <3>2, <3>4
  <2> QED BY <2>1, <2>2
<1>4. b \in a .. end
  OBVIOUS
<1> HIDE DEF end, a
<1>5. Plain(text, a, b) /\ Plain(text, b, end) /\ b \in 0 .. Len(text) /\ a \in 0 .. b
      /\ b \in 0 .. end /\ end \in 0 .. Len(text)
  <2> HIDE DEF text
  <2> QED BY <1>1, <1>4 DEF Plain
<1>6. from[b + 1] \in Seq(T)
  <2>1. /\ IsTuple(text) /\ Words(text) \subseteq T /\ end \in 0 .. Len(text) /\ b \in 0 .. end
        /\ Plain(text, b, end) /\ from[end + 1] \in Seq(T)
    BY <1>2, <1>3, <1>5
  <2> HIDE DEF T
  <2> QED BY ONLY <2>1, FromPlain
<1>7. from[a + 1] = out \o from[b + 1]
  <2>1. /\ IsTuple(text) /\ Words(text) \subseteq T /\ b \in 0 .. Len(text) /\ a \in 0 .. b
        /\ Plain(text, a, b) /\ from[b + 1] \in Seq(T)
    BY <1>2, <1>5, <1>6
  <2> HIDE DEF T
  <2>2. Runs(r.page, DataFor(r), a, b)
    BY ONLY <2>1, FromPlain
  <2> QED BY <2>2 DEF Runs
<1>8. out \in Seq(T) /\ Len(out) = b - a
  <2>1. \A i \in a + 1 .. b : text[i] \in T
    <3>1. \A i \in 1 .. Len(text) : text[i] \in T
      BY <1>2 DEF Words
    <3> HIDE DEF text, T
    <3> QED BY <1>5, <3>1
  <2>2. a + 1 \in Int /\ b \in Int /\ a <= b
    BY <1>5
  <2> HIDE DEF text, T
  <2>3. /\ SubSeq(text, a + 1, b) \in Seq(T)
        /\ Len(SubSeq(text, a + 1, b)) = IF a + 1 <= b THEN b - (a + 1) + 1 ELSE 0
    BY <2>1, <2>2, SubSeqProperties
  <2> QED BY <1>5, <2>2, <2>3
<1> QED BY <1>6, <1>7, <1>8 DEF a
-----------------------------------------------------------------------------
(* A step of one connection and the others.                                *)

\* A connection at work, before the end of its request.
LEMMA AtWork ==
  ASSUME NEW x, NEW sk, NEW cl, NEW st, NEW page, NEW index,
         Served(x, sk, cl, st, page, index, TRUE), st # "DISCONNECT"
  PROVE  /\ Shaped(sk, cl) /\ Told(cl) /\ ~sk.reset /\ sk.st \in {"open", "half", "cut"}
         /\ sk.st = "cut" => sk.rx = <<>>
         /\ sk.st \in {"open", "half"} => Heard(x, sk, cl, st)
         /\ Working(cl.req, x, st, page, index)
<1>1. ~sk.reset /\ sk.st # "listen" /\ sk.st # "closing" /\ Shaped(sk, cl) /\ Told(cl)
  BY DEF Served
<1>2. sk.st \in {"open", "half", "cut"}
  BY <1>1 DEF Shaped
<1> QED BY <1>1, <1>2 DEF Served

\* And one that goes on with it.
LEMMA OnWork ==
  ASSUME NEW x, NEW sk, NEW cl, NEW st, NEW page, NEW index, NEW busy \in BOOLEAN,
         Shaped(sk, cl), Told(cl), ~sk.reset, sk.st \in {"open", "half", "cut"},
         sk.st = "cut" => sk.rx = <<>>,
         sk.st \in {"open", "half"} => Heard(x, sk, cl, st),
         Working(cl.req, x, st, page, index)
  PROVE  Served(x, sk, cl, st, page, index, busy)
BY DEF Served

\* The handles of the other connections are not touched.
LEMMA OthersServed ==
  ASSUME IInv, AllServed, NEW c \in Conns,
         \A d \in Conns \ {c} : /\ Context(d)' = Context(d) /\ sm'[d] = sm[d]
                                /\ sock'[d] = sock[d] /\ client'[d] = client[d],
         active \in {NoConn, c}, active' \in {NoConn, c},
         \A h \in Used \ Held(c) : mpfs'[h] = mpfs[h]
  PROVE  \A d \in Conns \ {c} : ServedAt(d)'
<1> SUFFICES ASSUME NEW d \in Conns \ {c} PROVE ServedAt(d)'
  OBVIOUS
<1>1. (active' = d) = (active = d)
  BY HttpAssumption
<1>2. Held(d) \subseteq Used \ Held(c)
  BY DEF IInv, OneOwnerEach, Used
<1>3. /\ Stub(mpfs', Context(d).file) = Stub(mpfs, Context(d).file)
      /\ Stub(mpfs', Context(d).offsets) = Stub(mpfs, Context(d).offsets)
  BY <1>2 DEF Stub, Held
<1>4. Served(Context(d), sock[d], client[d], sm[d],
             Stub(mpfs, Context(d).file), Stub(mpfs, Context(d).offsets), active = d)
  BY DEF AllServed, ServedAt
<1>5. Served(Context(d)', sock'[d], client'[d], sm'[d],
             Stub(mpfs', Context(d)'.file), Stub(mpfs', Context(d)'.offsets), active' = d)
  BY <1>1, <1>3, <1>4
<1> QED BY <1>5 DEF ServedAt

\* A step of HTTPProcess, judged by what it makes of its own connection.
LEMMA Goes ==
  ASSUME IInv, AllServed, NEW c \in Conns, active = c, NEW to, NEW done \in BOOLEAN,
         Go(c, to, done), NEW sk, NEW cl,
         sock' = [sock EXCEPT ![c] = sk], client' = [client EXCEPT ![c] = cl],
         \A h \in Used \ Held(c) : mpfs'[h] = mpfs[h],
         Served(curHTTP', sk, cl, to, Stub(mpfs', curHTTP'.file), Stub(mpfs', curHTTP'.offsets),
                ~done)
  PROVE  AllServed'
<1>1. curHTTPID = c /\ curHTTPID' = c /\ saved' = saved /\ c # NoConn
  BY Inside DEF Go
<1>2. /\ Context(c)' = curHTTP'
      /\ \A d \in Conns \ {c} : Context(d)' = Context(d)
  BY <1>1 DEF Context
<1>3. sm'[c] = to /\ \A d \in Conns \ {c} : sm'[d] = sm[d]
  BY DEF Go, IInv, Typed
<1>4. /\ sock' = [d \in Conns |-> sock'[d]] /\ client' = [d \in Conns |-> client'[d]]
      /\ sock'[c] = sk /\ client'[c] = cl
      /\ \A d \in Conns \ {c} : sock'[d] = sock[d] /\ client'[d] = client[d]
  BY DEF AllServed
<1>5. active' \in {NoConn, c} /\ (active' = c) = ~done
  BY <1>1 DEF Go
<1>6. \A d \in Conns \ {c} : ServedAt(d)'
  BY <1>2, <1>3, <1>4, <1>5, OthersServed
<1>7. ServedAt(c)'
  <2>1. Served(Context(c)', sock'[c], client'[c], sm'[c],
               Stub(mpfs', Context(c)'.file), Stub(mpfs', Context(c)'.offsets), active' = c)
    BY <1>2, <1>3, <1>4, <1>5
  <2> QED BY <2>1 DEF ServedAt
<1> QED BY <1>4, <1>6, <1>7 DEF AllServed

\* The connection at work, as it is before the step.
LEMMA Comes ==
  ASSUME IInv, AllServed, NEW c \in Conns, active = c
  PROVE  /\ Served(curHTTP, sock[c], client[c], sm[c],
                   Stub(mpfs, curHTTP.file), Stub(mpfs, curHTTP.offsets), TRUE)
         /\ IsContext(curHTTP)
         /\ sock' = sock => sock' = [sock EXCEPT ![c] = sock[c]]
         /\ client' = client => client' = [client EXCEPT ![c] = client[c]]
<1>1. Context(c) = curHTTP /\ IsContext(curHTTP)
  BY Inside
<1>2. ServedAt(c) /\ (active = c) = TRUE
  BY DEF AllServed
<1>3. Served(curHTTP, sock[c], client[c], sm[c],
             Stub(mpfs, curHTTP.file), Stub(mpfs, curHTTP.offsets), TRUE)
  BY <1>1, <1>2 DEF ServedAt
<1> QED BY <1>1, <1>3 DEF AllServed
-----------------------------------------------------------------------------
(* The request.                                                            *)

\* What is there and what is to come, with a piece in front; and without it.
Ahead(rx, pending, piece, rest) == rx \o pending = <<piece>> \o rest
Taken(rx, pending, piece, rest) == Head(rx) = piece /\ Tail(rx) \o pending = rest

\* The first piece that is there is the first one that is left.
LEMMA TakePiece ==
  ASSUME NEW B, NEW rx \in Seq(B), NEW pending \in Seq(B), rx # <<>>,
         NEW piece, NEW rest \in Seq(B), Ahead(rx, pending, piece, rest)
  PROVE  Tail(rx) \in Seq(B) /\ Taken(rx, pending, piece, rest)
<1>1. /\ Head(rx) \in B /\ Tail(rx) \in Seq(B) /\ Len(rx) \in Nat \ {0} /\ Len(pending) \in Nat
      /\ Len(Tail(rx)) = Len(rx) - 1
      /\ \A i \in 1 .. Len(Tail(rx)) : Tail(rx)[i] = rx[i + 1]
      /\ Head(rx) = rx[1]
  BY HeadTailProperties, LenProperties, EmptySeq
<1>2. /\ Len(rx \o pending) = Len(rx) + Len(pending)
      /\ \A i \in 1 .. Len(rx) + Len(pending) :
           (rx \o pending)[i] = IF i <= Len(rx) THEN rx[i] ELSE pending[i - Len(rx)]
  BY ConcatProperties
<1>3. /\ Tail(rx) \o pending \in Seq(B)
      /\ Len(Tail(rx) \o pending) = Len(rx) - 1 + Len(pending)
      /\ \A i \in 1 .. Len(rx) - 1 + Len(pending) :
           (Tail(rx) \o pending)[i]
             = IF i <= Len(rx) - 1 THEN Tail(rx)[i] ELSE pending[i - (Len(rx) - 1)]
  BY <1>1, ConcatProperties
<1>4. Taken(rx, pending, piece, rest)
  <2> DEFINE T == B \cup {piece}
             u == <<piece>> \o rest
  <2>1. <<piece>> \in Seq(T) /\ rest \in Seq(T) /\ Len(<<piece>>) = 1 /\ <<piece>>[1] = piece
        /\ Len(rest) \in Nat
    <3>1. rest \in Seq(T)
      BY SeqMonotonic
    <3> QED BY <3>1, LenProperties
  <2>2. Len(u) = 1 + Len(rest) /\ u[1] = piece
        /\ \A i \in 1 .. Len(rest) : u[i + 1] = rest[i]
    <3>1. /\ Len(u) = Len(<<piece>>) + Len(rest)
          /\ \A i \in 1 .. Len(<<piece>>) + Len(rest) :
               u[i] = IF i <= Len(<<piece>>) THEN <<piece>>[i] ELSE rest[i - Len(<<piece>>)]
      BY <2>1, ConcatProperties
    <3> HIDE DEF u
    <3>2. \A i \in 1 .. 1 + Len(rest) : u[i] = IF i <= 1 THEN piece ELSE rest[i - 1]
      BY <2>1, <3>1
    <3>3. \A i \in 1 .. Len(rest) : i + 1 \in 1 .. 1 + Len(rest) /\ ~ (i + 1 <= 1) /\ i + 1 - 1 = i
      BY <2>1
    <3> QED BY <2>1, <3>1, <3>2, <3>3
  <2> DEFINE v == rx \o pending
             w == Tail(rx) \o pending
  <2>3. u = v
    BY DEF Ahead
  <2> HIDE DEF u, v, w
  <2>4. v[1] = rx[1]
    BY <1>1, <1>2 DEF v
  <2>5. Len(w) = Len(rest)
    BY <1>1, <1>2, <1>3, <2>1, <2>2, <2>3 DEF v, w
  <2>6. ASSUME NEW i \in 1 .. Len(rest) PROVE w[i] = rest[i]
    <3>1. i + 1 \in 1 .. Len(rx) + Len(pending) /\ i \in 1 .. Len(rx) - 1 + Len(pending)
      BY <1>1, <1>2, <2>1, <2>2, <2>3 DEF v
    <3>2. v[i + 1] = IF i + 1 <= Len(rx) THEN rx[i + 1] ELSE pending[i + 1 - Len(rx)]
      BY <1>2, <3>1 DEF v
    <3>3. w[i] = IF i <= Len(rx) - 1 THEN Tail(rx)[i] ELSE pending[i - (Len(rx) - 1)]
      BY <1>3, <3>1 DEF w
    <3>4. CASE i + 1 <= Len(rx)
      BY <1>1, <2>2, <2>3, <3>2, <3>3, <3>4
    <3>5. CASE ~ (i + 1 <= Len(rx))
      <4>1. i + 1 - Len(rx) = i - (Len(rx) - 1) /\ ~ (i <= Len(rx) - 1)
        BY <1>1, <3>5
      <4> QED BY <2>2, <2>3, <3>2, <3>3, <3>5, <4>1
    <3> QED BY <3>4, <3>5
  <2>7. w = rest
    <3>1. w \in Seq(B)
      BY <1>3 DEF w
    <3> QED BY <2>5, <2>6, <3>1, SeqEqual
  <2> QED BY <1>1, <2>2, <2>3, <2>4, <2>7 DEF w, Taken
<1> QED BY <1>1, <1>4

\* The parts of a request are sequences of its pieces.
LEMMA PartsTyped ==
  ASSUME NEW r
  PROVE  /\ Body(r) \in Seq(Bits(r)) /\ AfterLength(r) \in Seq(Bits(r))
         /\ AfterCookie(r) \in Seq(Bits(r)) /\ AfterAuth(r) \in Seq(Bits(r))
         /\ AfterLine(r) \in Seq(Bits(r)) /\ Pieces(r) \in Seq(Bits(r))
         /\ Pieces(r) = IF r.size = "flood" THEN <<Piece("flood", r)>>
                        ELSE <<Piece("line", r)>> \o AfterLine(r)
<1> DEFINE B == Bits(r)
<1>1. \A kind \in Kinds : <<Piece(kind, r)>> \in Seq(B)
  BY DEF Bits
<1>2. \A kind \in Kinds : Piece(kind, r) \in B
  BY DEF Bits
<1> HIDE DEF B
<1>3. \A b, p : p \in B => When(b, p) \in Seq(B)
  BY DEF When
<1>4. Body(r) \in Seq(B)
  BY <1>2, <1>3 DEF Body, Kinds
<1>5. AfterLength(r) \in Seq(B)
  BY <1>1, <1>4, ConcatProperties DEF AfterLength, Kinds
<1>6. AfterCookie(r) \in Seq(B)
  BY <1>2, <1>3, <1>5, ConcatProperties DEF AfterCookie, Kinds
<1>7. AfterAuth(r) \in Seq(B)
  BY <1>2, <1>3, <1>6, ConcatProperties DEF AfterAuth, Kinds
<1>8. AfterLine(r) \in Seq(B)
  BY <1>2, <1>3, <1>7, ConcatProperties DEF AfterLine, Kinds
<1>9. Pieces(r) = IF r.size = "flood" THEN <<Piece("flood", r)>> ELSE <<Piece("line", r)>> \o AfterLine(r)
  BY DEF Pieces, AfterLine, AfterAuth, AfterCookie, AfterLength, Body
<1>10. Pieces(r) \in Seq(B)
  BY <1>1, <1>8, <1>9, ConcatProperties DEF Kinds
<1> QED BY <1>4, <1>5, <1>6, <1>7, <1>8, <1>9, <1>10 DEF B

\* Nothing in front of a sequence.
LEMMA WhenNot ==
  ASSUME NEW r, NEW s \in Seq(Bits(r)), NEW piece, NEW condition, ~ condition
  PROVE  When(condition, piece) \o s = s
<1>1. <<>> \o s = s
  BY ConcatEmptySeq
<1> QED BY <1>1 DEF When

\* What the first of the headers left may be, and what is left behind it.
Next5(r, left, x, kind, rest) ==
  /\ left = <<Piece(kind, r)>> \o rest /\ rest \in Seq(Bits(r))
  /\ \/ /\ kind = "auth" /\ r.creds /\ rest = AfterAuth(r) /\ x.status = r.method
     \/ /\ kind = "cookie" /\ r.size = "cookie" /\ rest = AfterCookie(r)
        /\ x.isAuthorized <=> Allowed(r)
     \/ /\ kind = "length" /\ rest = AfterLength(r) /\ (x.isAuthorized <=> Allowed(r))
        /\ x.status = IF r.size = "cookie" THEN "OVERFLOW" ELSE r.method
     \/ /\ kind = "flood" /\ r.size = "headers"
     \/ /\ kind = "blank" /\ r.size # "headers" /\ rest = Body(r)
        /\ (x.isAuthorized <=> Allowed(r)) /\ x.status = Status(r)

LEMMA FirstHeader ==
  ASSUME NEW r, NEW left, NEW x, HeadersLeft(r, left, x)
  PROVE  \E kind, rest : Next5(r, left, x, kind, rest)
<1> USE PartsTyped
<1>1. CASE left = AfterLength(r) /\ x.status = Status(r) /\ (x.isAuthorized <=> Allowed(r))
  <2>1. CASE r.size = "headers"
    <3>1. left = <<Piece("flood", r)>>
      BY <1>1, <2>1 DEF AfterLength
    <3>2. <<Piece("flood", r)>> \o <<>> = <<Piece("flood", r)>>
      <4> DEFINE s == <<Piece("flood", r)>>
      <4>1. s \in Seq({Piece("flood", r)})
        OBVIOUS
      <4> HIDE DEF s
      <4> QED BY <4>1, ConcatEmptySeq DEF s
    <3>3. <<>> \in Seq(Bits(r))
      OBVIOUS
    <3>4. Next5(r, left, x, "flood", <<>>)
      BY <2>1, <3>1, <3>2, <3>3 DEF Next5
    <3> QED BY <3>4
  <2>2. CASE r.size # "headers"
    <3>1. left = <<Piece("blank", r)>> \o Body(r)
      BY <1>1, <2>2 DEF AfterLength
    <3> QED BY <1>1, <2>2, <3>1 DEF Next5
  <2> QED BY <2>1, <2>2
<1>2. CASE /\ left = AfterCookie(r) /\ (x.isAuthorized <=> Allowed(r))
           /\ x.status = IF r.size = "cookie" THEN "OVERFLOW" ELSE r.method
  <2>1. CASE r.size = "length" \/ r.method = "POST"
    <3>1. left = <<Piece("length", r)>> \o AfterLength(r)
      BY <1>2, <2>1 DEF AfterCookie, When
    <3> QED BY <1>2, <3>1 DEF Next5
  <2>2. CASE ~ (r.size = "length" \/ r.method = "POST")
    <3>1. left = AfterLength(r)
      BY <1>2, <2>2, WhenNot DEF AfterCookie
    <3>2. x.status = Status(r)
      BY <1>2, <2>2 DEF Status
    <3> QED BY <1>1, <1>2, <3>1, <3>2
  <2> QED BY <2>1, <2>2
<1>3. CASE left = AfterAuth(r) /\ (x.isAuthorized <=> Allowed(r)) /\ x.status = r.method
  <2>1. CASE r.size = "cookie"
    <3>1. left = <<Piece("cookie", r)>> \o AfterCookie(r)
      BY <1>3, <2>1 DEF AfterAuth, When
    <3> QED BY <1>3, <2>1, <3>1 DEF Next5
  <2>2. CASE r.size # "cookie"
    <3>1. left = AfterCookie(r)
      BY <1>3, <2>2, WhenNot DEF AfterAuth
    <3> QED BY <1>2, <1>3, <2>2, <3>1
  <2> QED BY <2>1, <2>2
<1>4. CASE left = AfterLine(r) /\ (x.isAuthorized <=> r.page \notin Protected) /\ x.status = r.method
  <2>1. CASE r.creds
    <3>1. left = <<Piece("auth", r)>> \o AfterAuth(r)
      BY <1>4, <2>1 DEF AfterLine, When
    <3> QED BY <1>4, <2>1, <3>1 DEF Next5
  <2>2. CASE ~ r.creds
    <3>1. left = AfterAuth(r)
      BY <1>4, <2>2, WhenNot DEF AfterLine
    <3>2. x.isAuthorized <=> Allowed(r)
      BY <1>4, <2>2 DEF Allowed
    <3> QED BY <1>3, <1>4, <3>1, <3>2
  <2> QED BY <2>1, <2>2
<1> QED BY <1>1, <1>2, <1>3, <1>4 DEF HeadersLeft
-----------------------------------------------------------------------------
(* The steps of HTTPProcess.                                               *)

LEMMA Disconnected ==
  ASSUME NEW sk, NEW cl, Shaped(sk, cl)
  PROVE  /\ Shaped(TCPDisconnect(sk), cl) /\ TCPDisconnect(sk).rx = <<>>
         /\ IF sk.st \in {"open", "half"}
            THEN TCPDisconnect(sk).st = "closing" /\ TCPDisconnect(sk).reset = sk.reset
            ELSE TCPDisconnect(sk) = Listening
<1>1. 0 \in 0 .. TxRoom
  BY HttpAssumption
<1>2. CASE sk.st \in {"open", "half"}
  <2>1. TCPDisconnect(sk) = [st |-> "closing", reset |-> sk.reset, rx |-> <<>>, tx |-> sk.tx]
    BY <1>2 DEF TCPDisconnect, Shaped
  <2> QED BY <1>2, <2>1 DEF Shaped
<1>3. CASE sk.st \notin {"open", "half"}
  <2>1. TCPDisconnect(sk) = [st |-> "listen", reset |-> TRUE, rx |-> <<>>, tx |-> 0]
    BY <1>3 DEF TCPDisconnect, Listening
  <2> QED BY <1>1, <1>3, <2>1 DEF Shaped, Listening
<1> QED BY <1>2, <1>3

\* What the connection at work has is given.
LEMMA AtWorkOn ==
  ASSUME IInv, AllServed, NEW c \in Conns, active = c, sm[c] # "DISCONNECT"
  PROVE  /\ Shaped(sock[c], client[c]) /\ Told(client[c]) /\ ~sock[c].reset
         /\ sock[c].st \in {"open", "half", "cut"}
         /\ sock[c].st = "cut" => sock[c].rx = <<>>
         /\ sock[c].st \in {"open", "half"} => Heard(curHTTP, sock[c], client[c], sm[c])
         /\ Working(client[c].req, curHTTP, sm[c], Stub(mpfs, curHTTP.file), Stub(mpfs, curHTTP.offsets))
BY Comes, AtWork

LEMMA BeginServed ==
  ASSUME IInv, AllServed, NEW c \in Conns, Begin(c)
  PROVE  AllServed'
<1> DEFINE page == Stub(mpfs', curHTTP'.file)
           index == Stub(mpfs', curHTTP'.offsets)
<1>1. active = c /\ sm[c] = "IDLE"
  BY DEF Begin, In
<1>2. /\ Shaped(sock[c], client[c]) /\ Told(client[c]) /\ ~sock[c].reset
      /\ sock[c].st \in {"open", "half", "cut"}
      /\ sock[c].st = "cut" => sock[c].rx = <<>>
      /\ sock[c].st \in {"open", "half"} => Heard(curHTTP, sock[c], client[c], "IDLE")
  BY <1>1, AtWorkOn
<1>3. sock[c].st \in {"open", "half"} => Heard(curHTTP', sock[c], client[c], "PARSE_REQUEST")
  BY <1>2 DEF Heard
<1>4. Working(client[c].req, curHTTP', "PARSE_REQUEST", page, index)
  BY DEF Working
<1>5. Served(curHTTP', sock[c], client[c], "PARSE_REQUEST", page, index, TRUE)
  BY <1>2, <1>3, <1>4, OnWork
<1>6. sock' = [sock EXCEPT ![c] = sock[c]] /\ client' = [client EXCEPT ![c] = client[c]]
  BY <1>1, Comes DEF Begin
<1>7. Go(c, "PARSE_REQUEST", FALSE) /\ mpfs' = mpfs
  BY DEF Begin
<1> QED BY <1>1, <1>5, <1>6, <1>7, Goes

\* The request's line is what is read first.
LEMMA FirstPiece ==
  ASSUME NEW sk, NEW cl, Shaped(sk, cl), sk.rx # <<>>, sk.rx \o cl.pending = Pieces(cl.req)
  PROVE  IF cl.req.size = "flood" THEN Head(sk.rx) = Piece("flood", cl.req)
         ELSE /\ Head(sk.rx) = Piece("line", cl.req)
              /\ Tail(sk.rx) \o cl.pending = AfterLine(cl.req)
              /\ Tail(sk.rx) \in Seq(Bits(cl.req))
<1> DEFINE r == cl.req
           B == Bits(r)
<1>1. sk.rx \in Seq(B) /\ cl.pending \in Seq(B) /\ AfterLine(r) \in Seq(B) /\ <<>> \in Seq(B)
  <2>1. sk.rx \in Seq(B) /\ cl.pending \in Seq(B)
    BY DEF Shaped
  <2>2. AfterLine(r) \in Seq(B)
    BY PartsTyped
  <2> QED BY <2>1, <2>2
<1>2. Pieces(r) = IF r.size = "flood" THEN <<Piece("flood", r)>>
                  ELSE <<Piece("line", r)>> \o AfterLine(r)
  BY PartsTyped
<1>3. <<Piece("flood", r)>> \o <<>> = <<Piece("flood", r)>>
  <2> DEFINE s == <<Piece("flood", r)>>
  <2>1. s \in Seq({Piece("flood", r)})
    OBVIOUS
  <2> HIDE DEF s
  <2> QED BY <2>1, ConcatEmptySeq DEF s
<1>4. CASE r.size = "flood"
  <2>1. Ahead(sk.rx, cl.pending, Piece("flood", r), <<>>)
    BY <1>2, <1>3, <1>4 DEF Ahead
  <2> HIDE DEF B, r
  <2>2. Taken(sk.rx, cl.pending, Piece("flood", r), <<>>)
    BY <1>1, <2>1, TakePiece
  <2> QED BY <1>4, <2>2 DEF r, Taken
<1>5. CASE r.size # "flood"
  <2>1. Ahead(sk.rx, cl.pending, Piece("line", r), AfterLine(r))
    BY <1>2, <1>5 DEF Ahead
  <2> HIDE DEF B, r
  <2>2. Taken(sk.rx, cl.pending, Piece("line", r), AfterLine(r)) /\ Tail(sk.rx) \in Seq(B)
    BY <1>1, <2>1, TakePiece
  <2> QED BY <1>5, <2>2 DEF r, B, Taken
<1> QED BY <1>4, <1>5

\* And then the headers.
LEMMA NextHeader ==
  ASSUME NEW x, NEW sk, NEW cl, Shaped(sk, cl), sk.rx # <<>>,
         HeadersLeft(cl.req, sk.rx \o cl.pending, x)
  PROVE  \E kind, rest :
           /\ Next5(cl.req, sk.rx \o cl.pending, x, kind, rest)
           /\ Head(sk.rx) = Piece(kind, cl.req)
           /\ Tail(sk.rx) \o cl.pending = rest /\ Tail(sk.rx) \in Seq(Bits(cl.req))
<1>1. PICK kind, rest : Next5(cl.req, sk.rx \o cl.pending, x, kind, rest)
  BY FirstHeader
<1>2. rest \in Seq(Bits(cl.req)) /\ Ahead(sk.rx, cl.pending, Piece(kind, cl.req), rest)
  BY <1>1 DEF Next5, Ahead
<1>3. sk.rx \in Seq(Bits(cl.req)) /\ cl.pending \in Seq(Bits(cl.req))
  BY DEF Shaped
<1>4. Taken(sk.rx, cl.pending, Piece(kind, cl.req), rest) /\ Tail(sk.rx) \in Seq(Bits(cl.req))
  BY <1>2, <1>3, TakePiece
<1> QED BY <1>1, <1>4 DEF Taken

LEMMA NewRx ==
  ASSUME NEW sk, NEW cl, Shaped(sk, cl), NEW rx
  PROVE  [sk EXCEPT !.rx = rx] = [st |-> sk.st, reset |-> sk.reset, rx |-> rx, tx |-> sk.tx]
BY DEF Shaped

LEMMA AwaitServed ==
  ASSUME IInv, AllServed, NEW c \in Conns, Await(c)
  PROVE  AllServed'
<1> DEFINE sk == sock[c]
           cl == client[c]
           r == cl.req
           x == curHTTP
           full == sk.rx # <<>>
           page == Stub(mpfs', curHTTP'.file)
           index == Stub(mpfs', curHTTP'.offsets)
<1>1. /\ active = c /\ sm[c] \in {"PARSE_REQUEST", "PARSE_HEADERS"}
      /\ full => Head(sk.rx).kind = "flood"
  BY DEF Await, In, LineThere
<1>2. /\ Shaped(sk, cl) /\ Told(cl) /\ ~sk.reset
      /\ sk.st \in {"open", "half", "cut"}
      /\ sk.st = "cut" => sk.rx = <<>>
      /\ sk.st \in {"open", "half"} => Heard(x, sk, cl, sm[c])
      /\ Working(r, x, sm[c], Stub(mpfs, x.file), Stub(mpfs, x.offsets))
  BY <1>1, AtWorkOn
<1>3. /\ IsContext(x) /\ mpfs' = mpfs
      /\ curHTTP' = [x EXCEPT !.status = IF full THEN "OVERFLOW" ELSE @]
  BY <1>1, Comes DEF Await
<1>4. /\ curHTTP'.status = IF full THEN "OVERFLOW" ELSE x.status
      /\ curHTTP'.file = x.file /\ curHTTP'.offsets = x.offsets
      /\ curHTTP'.isAuthorized = x.isAuthorized /\ curHTTP'.data = x.data
  BY <1>3 DEF IsContext, Fields
<1>5. client' = [client EXCEPT ![c] = cl] /\ (sock' = sock => sock' = [sock EXCEPT ![c] = sk])
  BY <1>1, Comes DEF Await
\* The receive FIFO is full without a line's end.
<1>6. ASSUME full, sk.st \in {"open", "half"} PROVE Heard(curHTTP', sk, cl, "SERVE_HEADERS")
  <2>1. "OVERFLOW" \in Refusals(r)
    <3>1. CASE sm[c] = "PARSE_REQUEST"
      <4>1. sk.rx \o cl.pending = Pieces(r)
        BY <1>2, <1>6, <3>1 DEF Heard
      <4>2. r.size = "flood"
        <5>1. Head(sk.rx).kind # "line"
          BY <1>1, <1>6
        <5>2. r.size # "flood" => Head(sk.rx) = Piece("line", r)
          BY <1>2, <1>6, <4>1, FirstPiece
        <5>3. Piece("line", r).kind = "line"
          BY DEF Piece
        <5> QED BY <5>1, <5>2, <5>3
      <4> QED BY <4>2 DEF Refusals
    <3>2. CASE sm[c] = "PARSE_HEADERS"
      <4>1. HeadersLeft(r, sk.rx \o cl.pending, x) /\ Understood(r)
        BY <1>2, <1>6, <3>2 DEF Heard, Working
      <4>2. PICK kind, rest :
              Next5(r, sk.rx \o cl.pending, x, kind, rest) /\ Head(sk.rx) = Piece(kind, r)
        BY <1>2, <1>6, <4>1, NextHeader
      <4>3. kind = "flood"
        BY <1>1, <1>6, <4>2 DEF Piece
      <4>4. r.size = "headers"
        BY <4>2, <4>3 DEF Next5
      <4> QED BY <4>1, <4>4 DEF Refusals, Understood
    <3> QED BY <1>1, <3>1, <3>2
  <2>2. sk.tx = 0 /\ cl.got = <<>>
    BY <1>1, <1>2, <1>6 DEF Heard
  <2> QED BY <1>4, <1>6, <2>1, <2>2 DEF Heard
\* A cookie too long was there.
<1>7. ASSUME ~full, sm[c] = "PARSE_HEADERS", x.status = "OVERFLOW", sk.st \in {"open", "half"}
      PROVE  Heard(curHTTP', sk, cl, "SERVE_HEADERS")
  <2>1. HeadersLeft(r, sk.rx \o cl.pending, x) /\ Understood(r) /\ sk.tx = 0 /\ cl.got = <<>>
    BY <1>2, <1>7 DEF Heard, Working
  <2>2. r.size = "cookie"
    BY <1>7, <2>1 DEF HeadersLeft, Understood, Status
  <2>3. "OVERFLOW" \in Refusals(r)
    BY <2>1, <2>2 DEF Refusals, Understood
  <2> QED BY <1>4, <1>7, <2>1, <2>3 DEF Heard
<1>13. active = c /\ \A h \in Used \ Held(c) : mpfs'[h] = mpfs[h]
  BY <1>1, <1>3
<1>8. curHTTP'.status = "OVERFLOW" => Working(r, curHTTP', "SERVE_HEADERS", page, index)
  BY DEF Working
<1>9. CASE expired[c]
  <2>1. Go(c, "DISCONNECT", FALSE) /\ sock' = [sock EXCEPT ![c] = TCPDisconnect(sk)]
    BY <1>9 DEF Await
  <2>2. Served(curHTTP', TCPDisconnect(sk), cl, "DISCONNECT", page, index, TRUE)
    <3>1. /\ Shaped(TCPDisconnect(sk), cl) /\ TCPDisconnect(sk).rx = <<>>
          /\ \/ TCPDisconnect(sk).st = "closing" /\ ~TCPDisconnect(sk).reset
             \/ TCPDisconnect(sk) = Listening
      BY <1>2, Disconnected
    <3> DEFINE new == TCPDisconnect(sk)
    <3> HIDE DEF new, sk, cl, page, index
    <3> QED BY <1>2, <3>1 DEF Served, Listening, new
  <2> QED BY <1>1, <1>5, <1>13, <2>1, <2>2, Goes
<1>10. CASE ~expired[c] /\ full
  <2>1. Go(c, "SERVE_HEADERS", FALSE) /\ sock' = sock
    BY <1>10 DEF Await
  <2>2. Served(curHTTP', sk, cl, "SERVE_HEADERS", page, index, TRUE)
    <3> HIDE DEF sk, cl, r, page, index
    <3> QED BY <1>2, <1>4, <1>6, <1>8, <1>10, OnWork DEF r
  <2> QED BY <1>1, <1>5, <1>13, <2>1, <2>2, Goes
<1>11. CASE ~expired[c] /\ ~full /\ sm[c] = "PARSE_HEADERS" /\ x.status = "OVERFLOW"
  <2>1. Go(c, "SERVE_HEADERS", TRUE) /\ sock' = sock
    BY <1>11 DEF Await
  <2>2. Served(curHTTP', sk, cl, "SERVE_HEADERS", page, index, FALSE)
    <3> HIDE DEF sk, cl, r, page, index
    <3> QED BY <1>2, <1>4, <1>7, <1>8, <1>11, OnWork DEF r
  <2> QED BY <1>1, <1>5, <1>13, <2>1, <2>2, Goes
<1>12. CASE ~expired[c] /\ ~full /\ ~ (sm[c] = "PARSE_HEADERS" /\ x.status = "OVERFLOW")
  <2>1. Go(c, sm[c], TRUE) /\ sock' = sock
    BY <1>12 DEF Await
  <2>2. curHTTP' = x
    BY <1>3, <1>12 DEF IsContext
  <2>3. Served(curHTTP', sk, cl, sm[c], page, index, FALSE)
    <3>1. Working(r, curHTTP', sm[c], page, index)
      BY <1>2, <1>3, <2>2
    <3>2. sk.st \in {"open", "half"} => Heard(curHTTP', sk, cl, sm[c])
      BY <1>2, <2>2
    <3> HIDE DEF sk, cl, r, page, index
    <3> QED BY <1>2, <3>1, <3>2, OnWork DEF r
  <2> QED BY <1>1, <1>5, <1>13, <2>1, <2>3, Goes
<1> QED BY <1>9, <1>10, <1>11, <1>12

\* A page that exists is opened, with its index when it has one.
LEMMA OpenPageOpens ==
  ASSUME IInv, NEW c \in Conns, active = c, Held(c) = {}, NEW r, OpenPage(c, r)
  PROVE  /\ Opened(r, curHTTP', Stub(mpfs', curHTTP'.file), Stub(mpfs', curHTTP'.offsets))
         /\ curHTTP'.status = IF r.size = "args" THEN "OVERFLOW" ELSE r.method
         /\ curHTTP'.isAuthorized = (r.page \notin Protected)
         /\ curHTTP'.data = "unknown"
         /\ \A h \in Used : mpfs'[h] = mpfs[h]
<1> DEFINE h == IF r.page \in Pages THEN MPFSHandle(Available) ELSE 0
           i == IF h # 0 /\ Index[r.page] # <<>> THEN MPFSHandle(Available \ {h}) ELSE 0
<1>1. Available = Handles \ Used /\ 0 \notin Handles /\ Used \subseteq Handles
  BY DEF Available, Used, Handles
<1>2. /\ IF r.page \in Pages THEN h \in Handles \ Used ELSE h = 0
      /\ IF r.page \in Pages /\ Index[r.page] # <<>> THEN i \in Handles \ Used /\ i # h ELSE i = 0
  BY <1>1, TwoHandles
<1>3. curHTTP.file = 0 /\ curHTTP.offsets = 0 /\ IsContext(curHTTP)
  BY Inside DEF Held
<1>4. curHTTP' = [curHTTP EXCEPT
            !.file = h,
            !.offsets = IF h # 0 /\ Index[r.page] # <<>> THEN i ELSE @,
            !.isAuthorized = r.page \notin Protected,
            !.data = "unknown",
            !.status = IF r.size = "args" THEN "OVERFLOW" ELSE r.method]
  BY DEF OpenPage
<1>5. mpfs' = [k \in Handles |->
            CASE k = h -> [file |-> "page", of |-> r.page, pos |-> 0]
              [] k = i -> [file |-> "index", of |-> r.page, pos |-> 0]
              [] OTHER -> mpfs[k]]
  BY DEF OpenPage
<1> HIDE DEF h, i
<1>6. (IF h # 0 /\ Index[r.page] # <<>> THEN i ELSE 0) = i
  BY <1>1, <1>2
<1>7. /\ curHTTP'.file = h /\ curHTTP'.offsets = i
      /\ curHTTP'.status = IF r.size = "args" THEN "OVERFLOW" ELSE r.method
      /\ curHTTP'.isAuthorized = (r.page \notin Protected)
      /\ curHTTP'.data = "unknown"
  BY <1>3, <1>4, <1>6 DEF IsContext, Fields
<1>8. /\ h # 0 => Stub(mpfs', h) = [file |-> "page", of |-> r.page, pos |-> 0]
      /\ i # 0 => Stub(mpfs', i) = [file |-> "index", of |-> r.page, pos |-> 0]
      /\ \A k \in Used : mpfs'[k] = mpfs[k]
  BY <1>1, <1>2, <1>5 DEF Stub
<1>9. (h = 0 <=> r.page \notin Pages) /\ (i = 0 <=> (r.page \notin Pages \/ Index[r.page] = <<>>))
  BY <1>1, <1>2
<1>10. Opened(r, curHTTP', Stub(mpfs', h), Stub(mpfs', i))
  BY <1>7, <1>8, <1>9 DEF Opened
<1> QED BY <1>7, <1>8, <1>10

LEMMA ParseRequestServed ==
  ASSUME IInv, AllServed, NEW c \in Conns, ParseRequest(c)
  PROVE  AllServed'
<1> DEFINE sk == sock[c]
           cl == client[c]
           r == cl.req
           new == [sk EXCEPT !.rx = Tail(sk.rx)]
           page == Stub(mpfs', curHTTP'.file)
           index == Stub(mpfs', curHTTP'.offsets)
<1>1. active = c /\ sm[c] = "PARSE_REQUEST" /\ sk.rx # <<>> /\ Head(sk.rx).kind # "flood"
  BY DEF ParseRequest, In, LineThere
<1>2. /\ Shaped(sk, cl) /\ Told(cl) /\ ~sk.reset
      /\ sk.st \in {"open", "half", "cut"}
      /\ sk.st = "cut" => sk.rx = <<>>
      /\ sk.st \in {"open", "half"} => Heard(curHTTP, sk, cl, "PARSE_REQUEST")
  BY <1>1, AtWorkOn
<1>3. sk.st \in {"open", "half"} /\ sk.tx = 0 /\ cl.got = <<>> /\ sk.rx \o cl.pending = Pieces(r)
  BY <1>1, <1>2 DEF Heard
<1>4. /\ Head(sk.rx).of = r /\ r.size # "flood"
      /\ Tail(sk.rx) \o cl.pending = AfterLine(r) /\ Tail(sk.rx) \in Seq(Bits(r))
  <2>1. Piece("flood", r).kind = "flood" /\ Piece("line", r).of = r
    BY DEF Piece
  <2> QED BY <1>1, <1>2, <1>3, <2>1, FirstPiece
<1>5. client' = [client EXCEPT ![c] = cl] /\ (sock' = sock => sock' = [sock EXCEPT ![c] = sk])
  BY <1>1, Comes DEF ParseRequest
<1>6. IsContext(curHTTP) /\ Held(c) = {}
  BY <1>1, Inside DEF IInv, EarlyHoldNothing, Early, Held
\* Refused at once.
<1>7. ASSUME curHTTP'.status \in Refusals(r), curHTTP'.status \notin {"GET", "POST"}
      PROVE  Served(curHTTP', sk, cl, "SERVE_HEADERS", page, index, TRUE)
  <2>1. Heard(curHTTP', sk, cl, "SERVE_HEADERS")
    BY <1>3, <1>7 DEF Heard
  <2>2. Working(r, curHTTP', "SERVE_HEADERS", page, index)
    BY <1>7 DEF Working
  <2> HIDE DEF sk, cl, page, index
  <2> QED BY <1>2, <2>1, <2>2, OnWork
<1>8. CASE r.method \notin {"GET", "POST"} /\ Refuse(c, "NOT_IMPLEMENTED") /\ mpfs' = mpfs /\ sock' = sock
  <2>1. Go(c, "SERVE_HEADERS", FALSE) /\ curHTTP'.status = "NOT_IMPLEMENTED"
    BY <1>6, <1>8 DEF Refuse, IsContext, Fields
  <2>2. "NOT_IMPLEMENTED" \in Refusals(r)
    BY <1>4, <1>8 DEF Refusals
  <2>3. \A h \in Used \ Held(c) : mpfs'[h] = mpfs[h]
    BY <1>8
  <2> QED BY <1>1, <1>5, <1>7, <1>8, <2>1, <2>2, <2>3, Goes
<1>9. CASE r.method \in {"GET", "POST"} /\ r.size = "name" /\ Refuse(c, "OVERFLOW") /\ mpfs' = mpfs /\ sock' = sock
  <2>1. Go(c, "SERVE_HEADERS", FALSE) /\ curHTTP'.status = "OVERFLOW"
    BY <1>6, <1>9 DEF Refuse, IsContext, Fields
  <2>2. "OVERFLOW" \in Refusals(r)
    BY <1>9 DEF Refusals
  <2>3. \A h \in Used \ Held(c) : mpfs'[h] = mpfs[h]
    BY <1>9
  <2> QED BY <1>1, <1>5, <1>7, <1>9, <2>1, <2>2, <2>3, Goes
<1>10. ASSUME r.method \in {"GET", "POST"}, r.size # "name", OpenPage(c, r)
       PROVE  /\ Opened(r, curHTTP', page, index)
              /\ curHTTP'.status = IF r.size = "args" THEN "OVERFLOW" ELSE r.method
              /\ curHTTP'.isAuthorized = (r.page \notin Protected)
              /\ curHTTP'.data = "unknown"
              /\ \A h \in Used \ Held(c) : mpfs'[h] = mpfs[h]
  <2> HIDE DEF r
  <2>1. \A h \in Used : mpfs'[h] = mpfs[h]
    BY <1>1, <1>6, <1>10, OpenPageOpens
  <2> QED BY <1>1, <1>6, <1>10, <2>1, OpenPageOpens
<1>11. CASE /\ r.method \in {"GET", "POST"} /\ r.size = "args" /\ OpenPage(c, r)
            /\ Go(c, "SERVE_HEADERS", FALSE) /\ sock' = sock
  <2>1. "OVERFLOW" \in Refusals(r) /\ curHTTP'.status = "OVERFLOW"
    BY <1>10, <1>11 DEF Refusals
  <2>2. \A h \in Used \ Held(c) : mpfs'[h] = mpfs[h]
    BY <1>10, <1>11
  <2> QED BY <1>1, <1>5, <1>7, <1>11, <2>1, <2>2, Goes
<1>12. CASE /\ r.method \in {"GET", "POST"} /\ r.size \notin {"name", "args"} /\ OpenPage(c, r)
            /\ Go(c, "PARSE_HEADERS", FALSE) /\ sock' = [sock EXCEPT ![c].rx = Tail(@)]
  <2>1. Understood(r) /\ Opened(r, curHTTP', page, index)
    BY <1>4, <1>10, <1>12 DEF Understood
  <2>2. Working(r, curHTTP', "PARSE_HEADERS", page, index)
    BY <2>1 DEF Working
  <2>3. new = [st |-> sk.st, reset |-> sk.reset, rx |-> Tail(sk.rx), tx |-> sk.tx]
    BY <1>2, NewRx
  <2>4. Shaped(new, cl)
    BY <1>2, <1>4, <2>3 DEF Shaped
  <2>5. HeadersLeft(r, new.rx \o cl.pending, curHTTP')
    BY <1>4, <1>10, <1>12, <2>3 DEF HeadersLeft
  <2>6. Heard(curHTTP', new, cl, "PARSE_HEADERS")
    BY <1>3, <1>10, <1>12, <2>3, <2>5 DEF Heard
  <2>7. sock' = [sock EXCEPT ![c] = new]
    BY <1>12 DEF AllServed
  <2>8. ~new.reset /\ new.st \in {"open", "half"}
    BY <1>2, <1>3, <2>3
  <2>9. Served(curHTTP', new, cl, "PARSE_HEADERS", page, index, TRUE)
    <3> HIDE DEF new, cl, page, index
    <3> QED BY <1>2, <2>2, <2>4, <2>6, <2>8, OnWork
  <2>10. \A h \in Used \ Held(c) : mpfs'[h] = mpfs[h]
    BY <1>10, <1>12
  <2> HIDE DEF new
  <2> QED BY <1>1, <1>5, <1>12, <2>7, <2>9, <2>10, Goes
<1> QED BY <1>4, <1>8, <1>9, <1>11, <1>12 DEF ParseRequest

LEMMA ParseHeadersServed ==
  ASSUME IInv, AllServed, NEW c \in Conns, ParseHeaders(c)
  PROVE  AllServed'
<1> DEFINE sk == sock[c]
           cl == client[c]
           r == cl.req
           x == curHTTP
           new == [sk EXCEPT !.rx = Tail(sk.rx)]
           to == IF Head(sk.rx).kind = "blank" THEN "AUTHENTICATE" ELSE "PARSE_HEADERS"
           page == Stub(mpfs', curHTTP'.file)
           index == Stub(mpfs', curHTTP'.offsets)
<1>1. active = c /\ sm[c] = "PARSE_HEADERS" /\ sk.rx # <<>> /\ Head(sk.rx).kind # "flood"
  BY DEF ParseHeaders, In, LineThere
<1>2. /\ Shaped(sk, cl) /\ Told(cl) /\ ~sk.reset
      /\ sk.st \in {"open", "half", "cut"}
      /\ sk.st = "cut" => sk.rx = <<>>
      /\ sk.st \in {"open", "half"} => Heard(x, sk, cl, "PARSE_HEADERS")
      /\ Working(r, x, "PARSE_HEADERS", Stub(mpfs, x.file), Stub(mpfs, x.offsets))
  BY <1>1, AtWorkOn
<1>3. /\ sk.st \in {"open", "half"} /\ sk.tx = 0 /\ cl.got = <<>> /\ x.data = "unknown"
      /\ HeadersLeft(r, sk.rx \o cl.pending, x)
  BY <1>1, <1>2 DEF Heard
<1>4. PICK kind, rest :
        /\ Next5(r, sk.rx \o cl.pending, x, kind, rest)
        /\ Head(sk.rx) = Piece(kind, r)
        /\ Tail(sk.rx) \o cl.pending = rest /\ Tail(sk.rx) \in Seq(Bits(r))
  BY <1>1, <1>2, <1>3, NextHeader
<1>5. Head(sk.rx).kind = kind /\ Head(sk.rx).of = r /\ kind # "flood"
  BY <1>1, <1>4 DEF Piece
<1>6. /\ curHTTP'.file = x.file /\ curHTTP'.offsets = x.offsets /\ curHTTP'.data = x.data
      /\ curHTTP'.isAuthorized = (x.isAuthorized \/ (kind = "auth" /\ r.creds))
      /\ curHTTP'.status = CASE kind = "cookie" -> "OVERFLOW"
                             [] kind = "length" /\ r.size = "length" -> "BAD_REQUEST"
                             [] OTHER -> x.status
  <2>1. IsContext(x)
    BY <1>1, Comes
  <2>2. \E n : curHTTP' = [x EXCEPT
            !.isAuthorized = x.isAuthorized \/ (kind = "auth" /\ r.creds),
            !.status = CASE kind = "cookie" -> "OVERFLOW"
                         [] kind = "length" /\ r.size = "length" -> "BAD_REQUEST"
                         [] OTHER -> x.status,
            !.byteCount = n]
    <3> DEFINE header == Head(sk.rx)
    <3>1. curHTTP' = [x EXCEPT
            !.isAuthorized = x.isAuthorized \/ (header.kind = "auth" /\ header.of.creds),
            !.status = CASE header.kind = "cookie" -> "OVERFLOW"
                         [] header.kind = "length" /\ header.of.size = "length" -> "BAD_REQUEST"
                         [] OTHER -> x.status,
            !.byteCount = CASE header.kind = "length" /\ header.of.size = "length" -> 0
                            [] header.kind = "length" /\ header.of.size # "length" -> 1
                            [] OTHER -> x.byteCount]
      BY DEF ParseHeaders
    <3> HIDE DEF header, r
    <3>2. header.kind = kind /\ header.of = r
      BY <1>5 DEF header
    <3> QED BY <3>1, <3>2
  <2> QED BY <2>1, <2>2 DEF IsContext, Fields
<1>7. Understood(r) /\ Opened(r, curHTTP', page, index)
  BY <1>2, <1>6 DEF Working, Opened, ParseHeaders
<1>8. Working(r, curHTTP', to, page, index)
  BY <1>7 DEF Working
<1>9. new = [st |-> sk.st, reset |-> sk.reset, rx |-> Tail(sk.rx), tx |-> sk.tx]
  BY <1>2, NewRx
<1>10. Shaped(new, cl) /\ ~new.reset /\ new.st \in {"open", "half"}
  BY <1>2, <1>3, <1>4, <1>9 DEF Shaped
<1>11. Heard(curHTTP', new, cl, to)
  <2>1. new.tx = 0 /\ cl.got = <<>> /\ curHTTP'.data = "unknown" /\ new.rx \o cl.pending = rest
    BY <1>3, <1>4, <1>6, <1>9
  <2> HIDE DEF new, cl, x
  <2>2. CASE kind = "auth"
    <3>1. rest = AfterAuth(r) /\ curHTTP'.status = r.method /\ (curHTTP'.isAuthorized <=> Allowed(r))
      BY <1>4, <1>6, <2>2 DEF Next5, Allowed
    <3> QED BY <1>5, <2>1, <2>2, <3>1 DEF Heard, HeadersLeft, r
  <2>3. CASE kind = "cookie"
    <3>1. rest = AfterCookie(r) /\ r.size = "cookie" /\ curHTTP'.status = "OVERFLOW"
          /\ (curHTTP'.isAuthorized <=> Allowed(r))
      BY <1>4, <1>6, <2>3 DEF Next5
    <3> QED BY <1>5, <2>1, <2>3, <3>1 DEF Heard, HeadersLeft, r
  <2>4. CASE kind = "length"
    <3>1. rest = AfterLength(r) /\ (curHTTP'.isAuthorized <=> Allowed(r))
          /\ curHTTP'.status = Status(r)
      BY <1>4, <1>6, <2>4 DEF Next5, Status
    <3> QED BY <1>5, <2>1, <2>4, <3>1 DEF Heard, HeadersLeft, r
  <2>5. CASE kind = "blank"
    <3>1. rest = Body(r) /\ r.size # "headers" /\ (curHTTP'.isAuthorized <=> Allowed(r))
          /\ curHTTP'.status = Status(r)
      BY <1>4, <1>6, <2>5 DEF Next5
    <3> QED BY <1>5, <2>1, <2>5, <3>1 DEF Heard, r
  <2> QED BY <1>4, <1>5, <2>2, <2>3, <2>4, <2>5 DEF Next5
<1>12. Served(curHTTP', new, cl, to, page, index, TRUE)
  <2> HIDE DEF new, cl, page, index, to
  <2> QED BY <1>2, <1>8, <1>10, <1>11, OnWork DEF r
<1>13. client' = [client EXCEPT ![c] = cl] /\ sock' = [sock EXCEPT ![c] = new]
  BY <1>1, Comes DEF ParseHeaders
<1>14. Go(c, to, FALSE) /\ mpfs' = mpfs
  BY <1>1 DEF ParseHeaders
<1>15. \A h \in Used \ Held(c) : mpfs'[h] = mpfs[h]
  BY <1>14
<1> HIDE DEF new, to
<1> QED BY <1>1, <1>12, <1>13, <1>14, <1>15, Goes

LEMMA AuthenticateServed ==
  ASSUME IInv, AllServed, NEW c \in Conns, Authenticate(c)
  PROVE  AllServed'
<1> DEFINE sk == sock[c]
           cl == client[c]
           r == cl.req
           x == curHTTP
           page == Stub(mpfs', curHTTP'.file)
           index == Stub(mpfs', curHTTP'.offsets)
<1>1. active = c /\ sm[c] = "AUTHENTICATE"
  BY DEF Authenticate, In
<1>2. /\ Shaped(sk, cl) /\ Told(cl) /\ ~sk.reset
      /\ sk.st \in {"open", "half", "cut"}
      /\ sk.st = "cut" => sk.rx = <<>>
      /\ sk.st \in {"open", "half"} => Heard(x, sk, cl, "AUTHENTICATE")
      /\ Working(r, x, "AUTHENTICATE", Stub(mpfs, x.file), Stub(mpfs, x.offsets))
  BY <1>1, AtWorkOn
<1>3. /\ client' = [client EXCEPT ![c] = cl] /\ sock' = [sock EXCEPT ![c] = sk] /\ mpfs' = mpfs
      /\ IsContext(x)
  BY <1>1, Comes DEF Authenticate
<1>4. \A h \in Used \ Held(c) : mpfs'[h] = mpfs[h]
  BY <1>3
<1>5. CASE ~x.isAuthorized /\ Refuse(c, "UNAUTHORIZED")
  <2>1. Go(c, "SERVE_HEADERS", FALSE) /\ curHTTP'.status = "UNAUTHORIZED"
    BY <1>3, <1>5 DEF Refuse, IsContext, Fields
  <2>2. sk.st \in {"open", "half"} => Heard(curHTTP', sk, cl, "SERVE_HEADERS")
    <3>1. ASSUME sk.st \in {"open", "half"}
          PROVE  sk.tx = 0 /\ cl.got = <<>> /\ "UNAUTHORIZED" \in Refusals(r)
      BY <1>2, <1>5, <3>1 DEF Heard, Working, Understood, Allowed, Refusals
    <3> QED BY <2>1, <3>1 DEF Heard
  <2>3. Working(r, curHTTP', "SERVE_HEADERS", page, index)
    BY <2>1 DEF Working
  <2>4. Served(curHTTP', sk, cl, "SERVE_HEADERS", page, index, TRUE)
    <3> HIDE DEF sk, cl, page, index
    <3> QED BY <1>2, <2>2, <2>3, OnWork DEF r
  <2> QED BY <1>1, <1>3, <1>4, <2>1, <2>4, Goes
<1>6. CASE x.isAuthorized /\ Go(c, "PROCESS_POST", FALSE) /\ curHTTP' = x
  <2>1. sk.st \in {"open", "half"} => Heard(curHTTP', sk, cl, "PROCESS_POST")
    BY <1>2, <1>6 DEF Heard
  <2>2. Working(r, curHTTP', "PROCESS_POST", page, index)
    BY <1>2, <1>3, <1>6 DEF Working
  <2>3. Served(curHTTP', sk, cl, "PROCESS_POST", page, index, TRUE)
    <3> HIDE DEF sk, cl, page, index
    <3> QED BY <1>2, <2>1, <2>2, OnWork DEF r
  <2> QED BY <1>1, <1>3, <1>4, <1>6, <2>3, Goes
<1> QED BY <1>5, <1>6 DEF Authenticate

LEMMA ProcessPostServed ==
  ASSUME IInv, AllServed, NEW c \in Conns, ProcessPost(c)
  PROVE  AllServed'
<1> DEFINE sk == sock[c]
           cl == client[c]
           r == cl.req
           x == curHTTP
           page == Stub(mpfs', curHTTP'.file)
           index == Stub(mpfs', curHTTP'.offsets)
<1>1. active = c /\ sm[c] = "PROCESS_POST"
  BY DEF ProcessPost, In
<1>2. /\ Shaped(sk, cl) /\ Told(cl) /\ ~sk.reset
      /\ sk.st \in {"open", "half", "cut"}
      /\ sk.st = "cut" => sk.rx = <<>>
      /\ sk.st \in {"open", "half"} => Heard(x, sk, cl, "PROCESS_POST")
      /\ Working(r, x, "PROCESS_POST", Stub(mpfs, x.file), Stub(mpfs, x.offsets))
  BY <1>1, AtWorkOn
<1>3. client' = [client EXCEPT ![c] = cl] /\ (sock' = sock => sock' = [sock EXCEPT ![c] = sk])
  BY <1>1, Comes DEF ProcessPost
<1>4. IsContext(x) /\ mpfs' = mpfs /\ \A h \in Used \ Held(c) : mpfs'[h] = mpfs[h]
  BY <1>1, Comes DEF ProcessPost
<1>5. Understood(r) /\ Opened(r, x, Stub(mpfs, x.file), Stub(mpfs, x.offsets))
  BY <1>2 DEF Working
<1>6. x.file # 0 => r.page \in Pages /\ ReadsForm = {r.page \in Forms}
  <2>1. x.file # 0 => mpfs[x.file].of = r.page /\ r.page \in Pages
    BY <1>5 DEF Opened, Stub
  <2> QED BY <2>1 DEF ReadsForm
\* A status that is not an error is the method.
<1>7. Status(r) \in {"GET", "POST"} => Status(r) = r.method
  BY DEF Status
<1>8. CASE /\ x.status # "POST" \/ FALSE \in ReadsForm
           /\ Go(c, "PROCESS_REQUEST", FALSE) /\ curHTTP' = x /\ sock' = sock
  <2>1. ASSUME sk.st \in {"open", "half"} PROVE Heard(curHTTP', sk, cl, "PROCESS_REQUEST")
    <3>1. /\ sk.tx = 0 /\ cl.got = <<>> /\ x.data = "unknown" /\ r.size # "headers"
          /\ x.status = Status(r) /\ Allowed(r)
      BY <1>2, <2>1 DEF Heard
    <3>2. x.status \in {"GET", "POST"} /\ x.file # 0 => DataFor(r) = "unknown"
      BY <1>6, <1>7, <1>8, <3>1 DEF DataFor
    <3> QED BY <1>8, <3>1, <3>2 DEF Heard
  <2>2. Working(r, curHTTP', "PROCESS_REQUEST", page, index)
    BY <1>4, <1>5, <1>8 DEF Working
  <2>3. Served(curHTTP', sk, cl, "PROCESS_REQUEST", page, index, TRUE)
    <3> HIDE DEF sk, cl, page, index
    <3> QED BY <1>2, <2>1, <2>2, OnWork DEF r
  <2> QED BY <1>1, <1>3, <1>4, <1>8, <2>3, Goes
\* The body is there.
<1>9. CASE /\ x.status = "POST" /\ TRUE \in ReadsForm /\ sk.rx # <<>>
           /\ curHTTP' = [x EXCEPT !.data = Head(sk.rx).of.form, !.byteCount = 0]
           /\ sock' = [sock EXCEPT ![c].rx = Tail(@)] /\ Go(c, "PROCESS_REQUEST", FALSE)
  <2> DEFINE new == [sk EXCEPT !.rx = Tail(sk.rx)]
  <2>1. /\ sk.st \in {"open", "half"} /\ sk.tx = 0 /\ cl.got = <<>> /\ r.size # "headers"
        /\ x.status = Status(r) /\ Allowed(r) /\ sk.rx \o cl.pending = Body(r)
    BY <1>2, <1>9 DEF Heard
  <2>2. Head(sk.rx).of = r /\ Tail(sk.rx) \in Seq(Bits(r))
    <3>1. Body(r) = <<Piece("body", r)>> /\ Piece("body", r).of = r
      BY <1>7, <1>9, <2>1 DEF Body, When, Piece
    <3>2. <<Piece("body", r)>> \o <<>> = <<Piece("body", r)>>
      <4> DEFINE s == <<Piece("body", r)>>
      <4>1. s \in Seq({Piece("body", r)})
        OBVIOUS
      <4> HIDE DEF s
      <4> QED BY <4>1, ConcatEmptySeq DEF s
    <3>3. Ahead(sk.rx, cl.pending, Piece("body", r), <<>>)
      BY <2>1, <3>1, <3>2 DEF Ahead
    <3>4. sk.rx \in Seq(Bits(r)) /\ cl.pending \in Seq(Bits(r)) /\ <<>> \in Seq(Bits(r))
      BY <1>2 DEF Shaped
    <3>5. Taken(sk.rx, cl.pending, Piece("body", r), <<>>) /\ Tail(sk.rx) \in Seq(Bits(r))
      <4> HIDE DEF sk, cl, r
      <4> QED BY <1>9, <3>3, <3>4, TakePiece
    <3> QED BY <3>1, <3>5 DEF Taken
  <2>3. /\ curHTTP'.file = x.file /\ curHTTP'.offsets = x.offsets /\ curHTTP'.status = x.status
        /\ curHTTP'.data = r.form
    <3> HIDE DEF r
    <3> QED BY <1>4, <1>9, <2>2 DEF IsContext, Fields
  <2>4. new = [st |-> sk.st, reset |-> sk.reset, rx |-> Tail(sk.rx), tx |-> sk.tx]
    BY <1>2, NewRx
  <2>5. Shaped(new, cl) /\ ~new.reset /\ new.st \in {"open", "half"}
    BY <1>2, <2>1, <2>2, <2>4 DEF Shaped
  <2>6. Heard(curHTTP', new, cl, "PROCESS_REQUEST")
    <3>1. new.tx = 0 /\ cl.got = <<>>
      BY <2>1, <2>4
    <3>2. x.file # 0 => DataFor(r) = r.form
      BY <1>6, <1>7, <1>9, <2>1 DEF DataFor
    <3> HIDE DEF new, cl
    <3> QED BY <2>1, <2>3, <3>1, <3>2 DEF Heard, r
  <2>7. Working(r, curHTTP', "PROCESS_REQUEST", page, index)
    BY <1>4, <1>5, <2>3 DEF Working, Opened
  <2>8. Served(curHTTP', new, cl, "PROCESS_REQUEST", page, index, TRUE)
    <3> HIDE DEF new, cl, page, index
    <3> QED BY <1>2, <2>5, <2>6, <2>7, OnWork DEF r
  <2>9. sock' = [sock EXCEPT ![c] = new]
    BY <1>9 DEF AllServed
  <2>10. Go(c, "PROCESS_REQUEST", FALSE)
    BY <1>9
  <2> HIDE DEF new
  <2> QED BY <1>1, <1>3, <1>4, <2>8, <2>9, <2>10, Goes
<1>10. CASE Go(c, "PROCESS_POST", TRUE) /\ curHTTP' = x /\ sock' = sock
  <2>1. Working(r, curHTTP', "PROCESS_POST", page, index)
    BY <1>2, <1>4, <1>10
  <2>2. sk.st \in {"open", "half"} => Heard(curHTTP', sk, cl, "PROCESS_POST")
    BY <1>2, <1>10
  <2>3. Served(curHTTP', sk, cl, "PROCESS_POST", page, index, FALSE)
    <3> HIDE DEF sk, cl, page, index
    <3> QED BY <1>2, <2>1, <2>2, OnWork DEF r
  <2> QED BY <1>1, <1>3, <1>4, <1>10, <2>3, Goes
<1> QED BY <1>8, <1>9, <1>10 DEF ProcessPost

LEMMA ProcessRequestServed ==
  ASSUME IInv, AllServed, NEW c \in Conns, ProcessRequest(c)
  PROVE  AllServed'
<1> DEFINE sk == sock[c]
           cl == client[c]
           r == cl.req
           x == curHTTP
           page == Stub(mpfs', curHTTP'.file)
           index == Stub(mpfs', curHTTP'.offsets)
<1>1. active = c /\ sm[c] = "PROCESS_REQUEST"
  BY DEF ProcessRequest, In
<1>2. /\ Shaped(sk, cl) /\ Told(cl) /\ ~sk.reset
      /\ sk.st \in {"open", "half", "cut"}
      /\ sk.st = "cut" => sk.rx = <<>>
      /\ sk.st \in {"open", "half"} => Heard(x, sk, cl, "PROCESS_REQUEST")
      /\ Working(r, x, "PROCESS_REQUEST", Stub(mpfs, x.file), Stub(mpfs, x.offsets))
  BY <1>1, AtWorkOn
<1>3. /\ client' = [client EXCEPT ![c] = cl] /\ sock' = [sock EXCEPT ![c] = sk] /\ IsContext(x)
  BY <1>1, Comes DEF ProcessRequest
<1>4. Understood(r) /\ Opened(r, x, Stub(mpfs, x.file), Stub(mpfs, x.offsets))
  BY <1>2 DEF Working
<1>5. sk.st \in {"open", "half"} =>
        /\ sk.tx = 0 /\ cl.got = <<>> /\ r.size # "headers" /\ x.status = Status(r) /\ Allowed(r)
        /\ x.status \in {"GET", "POST"} /\ x.file # 0 => x.data = DataFor(r)
  BY <1>2 DEF Heard
<1>6. CASE x.file = 0 /\ Refuse(c, "NOT_FOUND") /\ mpfs' = mpfs
  <2>1. Go(c, "SERVE_HEADERS", FALSE) /\ curHTTP'.status = "NOT_FOUND"
    BY <1>3, <1>6 DEF Refuse, IsContext, Fields
  <2>2. sk.st \in {"open", "half"} => Heard(curHTTP', sk, cl, "SERVE_HEADERS")
    <3>1. ASSUME sk.st \in {"open", "half"} PROVE "NOT_FOUND" \in Refusals(r)
      BY <1>4, <1>5, <1>6, <3>1 DEF Opened, Understood, Allowed, Refusals
    <3> QED BY <1>5, <2>1, <3>1 DEF Heard
  <2>3. Working(r, curHTTP', "SERVE_HEADERS", page, index)
    BY <2>1 DEF Working
  <2>4. Served(curHTTP', sk, cl, "SERVE_HEADERS", page, index, TRUE)
    <3> HIDE DEF sk, cl, page, index
    <3> QED BY <1>2, <2>2, <2>3, OnWork DEF r
  <2>5. \A h \in Used \ Held(c) : mpfs'[h] = mpfs[h]
    BY <1>6
  <2> QED BY <1>1, <1>3, <2>1, <2>4, <2>5, Goes
<1>7. CASE /\ x.file # 0 /\ Go(c, "SERVE_HEADERS", FALSE)
           /\ curHTTP' = [x EXCEPT !.byteCount = 0,
                !.nextCallback = IF x.offsets # 0 THEN FileOf(x.offsets)[1] ELSE Huge]
           /\ mpfs' = IF x.offsets # 0 THEN [mpfs EXCEPT ![x.offsets].pos = 1] ELSE mpfs
  <2>1. r.page \in Pages /\ (x.offsets = 0 <=> Index[r.page] = <<>>)
    BY <1>4, <1>7 DEF Opened
  <2>2. /\ curHTTP'.file = x.file /\ curHTTP'.offsets = x.offsets /\ curHTTP'.status = x.status
        /\ curHTTP'.data = x.data /\ curHTTP'.byteCount = 0
        /\ curHTTP'.nextCallback = IF x.offsets # 0 THEN Index[r.page][1] ELSE Huge
    <3>1. x.offsets # 0 => FileOf(x.offsets) = Index[r.page]
      BY <1>4 DEF Opened, Stub, FileOf
    <3> HIDE DEF r
    <3> QED BY <1>3, <1>7, <3>1 DEF IsContext, Fields
  <2>3. /\ page = [file |-> "page", of |-> r.page, pos |-> 0]
        /\ x.offsets # 0 => index = [file |-> "index", of |-> r.page, pos |-> 1]
        /\ \A h \in Used \ Held(c) : mpfs'[h] = mpfs[h]
    <3>1. /\ mpfs[x.file] = [file |-> "page", of |-> r.page, pos |-> 0]
          /\ x.offsets # 0 => mpfs[x.offsets] = [file |-> "index", of |-> r.page, pos |-> 0]
      BY <1>4, <1>7 DEF Opened, Stub
    <3>2. x.file # x.offsets /\ (x.offsets # 0 => x.offsets \in Used /\ x.offsets \in Held(c))
          /\ Used \subseteq Handles /\ mpfs = [h \in Handles |-> mpfs[h]]
      BY <1>1, <1>7, HeldAreUsed, Inside DEF Held, IInv, Typed, Used
    <3> HIDE DEF r
    <3>3. CASE x.offsets = 0
      BY <1>7, <2>2, <3>1, <3>2, <3>3 DEF Stub
    <3>4. CASE x.offsets # 0
      <4>1. /\ mpfs'[x.offsets] = [mpfs[x.offsets] EXCEPT !.pos = 1]
            /\ \A h \in Handles \ {x.offsets} : mpfs'[h] = mpfs[h]
            /\ mpfs'[x.file] = mpfs[x.file]
        BY <1>7, <3>2, <3>4
      <4>2. mpfs'[x.offsets] = [file |-> "index", of |-> r.page, pos |-> 1]
        BY <3>1, <3>4, <4>1
      <4> QED BY <1>7, <2>2, <3>1, <3>2, <3>4, <4>1, <4>2 DEF Stub
    <3> QED BY <3>3, <3>4
  <2>4. /\ Placed(r, curHTTP', page, index)
        /\ curHTTP'.nextCallback = Huge <=> Index[r.page] = <<>>
    <3> DEFINE text == Content[r.page]
               offsets == Index[r.page]
    <3>1. /\ WellIndexed(text, offsets) /\ Len(text) \in Nat /\ Len(text) < Huge
          /\ Len(offsets) \in Nat
      BY <2>1, PagesAssumption, IndexPlaces
    <3>2. CASE x.offsets = 0
      <4>1. Plain(text, 0, Len(text))
        BY <2>1, <3>1, <3>2 DEF WellIndexed
      <4> HIDE DEF text, page, index, r
      <4> QED BY <1>7, <2>1, <2>2, <2>3, <3>1, <3>2, <4>1 DEF Placed, text
    <3>3. CASE x.offsets # 0
      <4>1. Len(offsets) # 0
        <5>1. IsTuple(offsets) /\ offsets # <<>>
          BY <2>1, <3>1, <3>3 DEF WellIndexed
        <5> HIDE DEF offsets
        <5> QED BY <5>1, TupleSeq, EmptySeq
      <4>2. 1 \in 1 .. Len(offsets) /\ 1 % 2 = 1 /\ Behind(offsets, 1) = 0
        <5> HIDE DEF offsets
        <5> QED BY <3>1, <4>1 DEF Behind
      <4>3. /\ offsets[1] \in Nat /\ offsets[1] + 3 <= Len(text) /\ Plain(text, 0, offsets[1])
        <5>1. offsets[1] \in Nat /\ offsets[1] + 3 <= Len(text)
          BY <3>1, <4>2, IndexPlaces
        <5>2. Plain(text, Behind(offsets, 1), offsets[1])
          BY <3>1, <4>2 DEF WellIndexed
        <5> QED BY <4>2, <5>1, <5>2
      <4> HIDE DEF text, offsets, page, index, r
      <4>4. curHTTP'.nextCallback = offsets[1] /\ offsets[1] # Huge
        BY <2>2, <3>1, <3>3, <4>3 DEF offsets, Huge
      <4> QED BY <1>7, <2>1, <2>2, <2>3, <3>1, <3>3, <4>2, <4>3, <4>4 DEF Placed, text, offsets
    <3> QED BY <3>2, <3>3
  <2>5. Working(r, curHTTP', "SERVE_HEADERS", page, index)
    <3> HIDE DEF page, index, r
    <3> QED BY <2>2, <2>4 DEF Working
  <2>6. ASSUME sk.st \in {"open", "half"} PROVE Heard(curHTTP', sk, cl, "SERVE_HEADERS")
    <3>1. CASE x.status \in {"GET", "POST"}
      <4>1. Refusals(r) = {} /\ x.status = r.method
        BY <1>4, <1>5, <2>1, <2>6, <3>1 DEF Refusals, Status, Understood, Allowed
      <4> QED BY <1>5, <1>7, <2>2, <2>6, <3>1, <4>1 DEF Heard
    <3>2. CASE x.status \notin {"GET", "POST"}
      <4>1. x.status \in Refusals(r)
        BY <1>4, <1>5, <2>1, <2>6, <3>2 DEF Refusals, Status, Understood, Allowed
      <4> QED BY <1>5, <2>2, <2>6, <3>2, <4>1 DEF Heard
    <3> QED BY <3>1, <3>2
  <2>7. Served(curHTTP', sk, cl, "SERVE_HEADERS", page, index, TRUE)
    <3> HIDE DEF sk, cl, page, index
    <3> QED BY <1>2, <2>5, <2>6, OnWork DEF r
  <2>8. Go(c, "SERVE_HEADERS", FALSE) /\ \A h \in Used \ Held(c) : mpfs'[h] = mpfs[h]
    BY <1>7, <2>3
  <2> QED BY <1>1, <1>3, <2>7, <2>8, Goes
<1> QED BY <1>6, <1>7 DEF ProcessRequest

\* A token or two of those an answer is made of.
LEMMA OneToken ==
  ASSUME NEW T, NEW a \in T
  PROVE  <<a>> \in Seq(T) /\ Len(<<a>>) = 1
OBVIOUS

LEMMA TwoTokens ==
  ASSUME NEW T, NEW a \in T, NEW b \in T
  PROVE  <<a, b>> \in Seq(T) /\ Len(<<a, b>>) = 2
OBVIOUS

\* A socket and a browser behind a TCPPut, and whether it took everything.
PutSock(s, out) == [s EXCEPT !.tx = @ + Len(Accepted(s, out))]
PutClient(s, cl, out) == [cl EXCEPT !.got = @ \o Accepted(s, out)]

LEMMA PutShaped ==
  ASSUME NEW sk, NEW cl, Shaped(sk, cl), NEW out \in Seq(Tokens(cl.req))
  PROVE  /\ Shaped(PutSock(sk, out), PutClient(sk, cl, out))
         /\ PutSock(sk, out).st = sk.st /\ PutSock(sk, out).reset = sk.reset
         /\ PutSock(sk, out).rx = sk.rx
         /\ PutClient(sk, cl, out).req = cl.req
         /\ sk.st \in {"open", "half"} /\ Len(out) <= TxRoom - sk.tx =>
              PutClient(sk, cl, out).got = cl.got \o out
         /\ sk.st \notin {"open", "half"} => PutClient(sk, cl, out).got = cl.got
<1> DEFINE T == Tokens(cl.req)
           room == TCPIsPutReady(sk)
           taken == Accepted(sk, out)
           n == Lesser(Len(out), room)
<1>1. sk.tx \in 0 .. TxRoom /\ TxRoom \in Nat /\ cl.got \in Seq(T) /\ out \in Seq(T)
  BY HttpAssumption DEF Shaped
<1>2. /\ room \in Nat /\ Len(out) \in Nat /\ n \in 0 .. Len(out) /\ n <= room
      /\ room = IF sk.st \in {"open", "half"} THEN TxRoom - sk.tx ELSE 0
  <2> HIDE DEF T
  <2>1. Len(out) \in Nat
    BY <1>1, LenProperties
  <2> QED BY <1>1, <2>1 DEF TCPIsPutReady, Lesser
<1>3. taken \in Seq(T) /\ Len(taken) = n /\ (n = 0 => taken = <<>>) /\ (n = Len(out) => taken = out)
  <2> HIDE DEF T, n
  <2>1. taken = SubSeq(out, 1, n)
    BY DEF Accepted, n
  <2>2. \A i \in 1 .. n : out[i] \in T
    BY <1>1, <1>2, ElementOfSeq
  <2>3. /\ SubSeq(out, 1, n) \in Seq(T) /\ Len(SubSeq(out, 1, n)) = IF 1 <= n THEN n - 1 + 1 ELSE 0
        /\ \A i \in 1 .. n - 1 + 1 : SubSeq(out, 1, n)[i] = out[1 + i - 1]
    BY <1>2, <2>2, SubSeqProperties
  <2>4. Len(SubSeq(out, 1, n)) = n /\ \A i \in 1 .. n : SubSeq(out, 1, n)[i] = out[i]
    BY <1>2, <2>3
  <2>5. n = 0 => SubSeq(out, 1, n) = <<>>
    BY <2>3, <2>4, EmptySeq
  <2>6. n = Len(out) => SubSeq(out, 1, n) = out
    BY <1>1, <2>3, <2>4, SeqEqual
  <2> QED BY <2>1, <2>3, <2>4, <2>5, <2>6
<1>4. sk.tx + Len(taken) \in 0 .. TxRoom
  <2> HIDE DEF taken, n, room
  <2> QED BY <1>1, <1>2, <1>3
<1>5. /\ PutSock(sk, out) = [st |-> sk.st, reset |-> sk.reset, rx |-> sk.rx, tx |-> sk.tx + Len(taken)]
      /\ PutClient(sk, cl, out) = [req |-> cl.req, pending |-> cl.pending, got |-> cl.got \o taken]
  <2> HIDE DEF taken
  <2>1. \A v : [sk EXCEPT !.tx = v] = [st |-> sk.st, reset |-> sk.reset, rx |-> sk.rx, tx |-> v]
    <3>1. sk = [st |-> sk.st, reset |-> sk.reset, rx |-> sk.rx, tx |-> sk.tx]
      BY DEF Shaped
    <3> QED BY ONLY <3>1
  <2>2. \A v : [cl EXCEPT !.got = v] = [req |-> cl.req, pending |-> cl.pending, got |-> v]
    <3>1. cl = [req |-> cl.req, pending |-> cl.pending, got |-> cl.got]
      BY DEF Shaped
    <3> QED BY ONLY <3>1
  <2> QED BY <2>1, <2>2 DEF PutSock, PutClient, taken
<1>6. cl.got \o taken \in Seq(T)
  <2> HIDE DEF T, taken
  <2> QED BY <1>1, <1>3, ConcatProperties
<1>7. Shaped(PutSock(sk, out), PutClient(sk, cl, out))
  <2> HIDE DEF taken
  <2> QED BY <1>4, <1>5, <1>6 DEF Shaped
<1>8. ASSUME sk.st \in {"open", "half"}, Len(out) <= TxRoom - sk.tx
      PROVE  PutClient(sk, cl, out).got = cl.got \o out
  <2>1. taken = out
    <3> HIDE DEF taken, T
    <3> QED BY <1>2, <1>3, <1>8 DEF Lesser
  <2> QED BY <1>5, <2>1
<1>9. ASSUME sk.st \notin {"open", "half"}
      PROVE  PutClient(sk, cl, out).got = cl.got
  <2>1. taken = <<>>
    <3> HIDE DEF taken, T
    <3> QED BY <1>2, <1>3, <1>9
  <2>2. cl.got \o <<>> = cl.got
    <3> HIDE DEF T
    <3> QED BY <1>1, ConcatEmptySeq
  <2> QED BY <1>5, <2>1, <2>2
<1> HIDE DEF taken
<1> QED BY <1>5, <1>7, <1>8, <1>9

\* A connection that is cut takes nothing.
LEMMA PutNothing ==
  ASSUME NEW sk, NEW cl, Shaped(sk, cl), sk.st \notin {"open", "half"}, NEW out, Len(out) \in Nat
  PROVE  PutSock(sk, out) = sk /\ PutClient(sk, cl, out) = cl
<1> DEFINE T == Tokens(cl.req)
<1>1. Accepted(sk, out) = <<>>
  <2>1. Lesser(Len(out), TCPIsPutReady(sk)) = 0
    BY DEF TCPIsPutReady, Lesser
  <2>2. SubSeq(out, 1, 0) = <<>>
    BY SubSeqEmpty
  <2> QED BY <2>1, <2>2 DEF Accepted
<1>2. sk.tx + Len(<<>>) = sk.tx /\ cl.got \o <<>> = cl.got
  <2>1. sk.tx \in 0 .. TxRoom /\ TxRoom \in Nat /\ cl.got \in Seq(T)
    BY HttpAssumption DEF Shaped
  <2> HIDE DEF T
  <2> QED BY <2>1, ConcatEmptySeq
<1>3. [sk EXCEPT !.tx = sk.tx] = sk /\ [cl EXCEPT !.got = cl.got] = cl
  <2>1. sk = [st |-> sk.st, reset |-> sk.reset, rx |-> sk.rx, tx |-> sk.tx]
    BY DEF Shaped
  <2>2. cl = [req |-> cl.req, pending |-> cl.pending, got |-> cl.got]
    BY DEF Shaped
  <2>3. [sk EXCEPT !.tx = sk.tx] = sk
    BY ONLY <2>1
  <2>4. [cl EXCEPT !.got = cl.got] = cl
    BY ONLY <2>2
  <2> QED BY <2>3, <2>4
<1>4. PutSock(sk, out) = [sk EXCEPT !.tx = sk.tx]
  BY <1>1, <1>2 DEF PutSock
<1>5. PutClient(sk, cl, out) = [cl EXCEPT !.got = cl.got]
  BY <1>1, <1>2 DEF PutClient
<1> QED BY <1>3, <1>4, <1>5

\* A browser that has been sent nothing more.
LEMMA ToldStill ==
  ASSUME NEW cl, NEW new, Told(cl), new.req = cl.req, new.got = cl.got
  PROVE  Told(new)
BY DEF Told

LEMMA TokensOf ==
  ASSUME NEW r, NEW s
  PROVE  /\ r.method \in Tokens(r) /\ "no-cache" \in Tokens(r) /\ "max-age" \in Tokens(r)
         /\ s \in Refusals(r) => s \in Tokens(r)
BY DEF Tokens

\* The rest of the page behind what is sent makes that its beginning.
LEMMA ToldSoFar ==
  ASSUME NEW cl, NEW rest \in Seq(Tokens(cl.req)), cl.got \in Seq(Tokens(cl.req)),
         Refusals(cl.req) = {}, GoesOn(cl.req, cl.got, rest)
  PROVE  Told(cl)
<1> DEFINE r == cl.req
           T == Tokens(r)
           got == cl.got
<1> SUFFICES ASSUME Fits(r.page) PROVE \E a \in Answers(r) : IsPrefix(got, a)
  BY DEF Told
<1>1. got \o rest = Page(r) /\ Page(r) \in Answers(r)
  BY DEF GoesOn, Answers
<1>2. IsPrefix(got, got \o rest)
  <2> HIDE DEF T, got
  <2> QED BY Beginning DEF got, T, r
<1> QED BY <1>1, <1>2

\* All of it sent.
LEMMA ToldAll ==
  ASSUME NEW cl, cl.got \in Seq(Tokens(cl.req)),
         Fits(cl.req.page) => cl.got \in Answers(cl.req)
  PROVE  Told(cl)
<1> DEFINE T == Tokens(cl.req)
           got == cl.got
<1>1. IsPrefix(got, got)
  <2>1. got \in Seq(T) /\ <<>> \in Seq(T)
    OBVIOUS
  <2> HIDE DEF T, got
  <2>2. IsPrefix(got, got \o <<>>) /\ got \o <<>> = got
    BY <2>1, Beginning, ConcatEmptySeq
  <2> QED BY <2>2
<1> QED BY <1>1 DEF Told

LEMMA ServeHeadersServed ==
  ASSUME IInv, AllServed, NEW c \in Conns, ServeHeaders(c)
  PROVE  AllServed'
<1> DEFINE sk == [sock[c] EXCEPT !.rx = <<>>]
           cl == client[c]
           r == cl.req
           x == curHTTP
           page == x.status \in {"GET", "POST"}
           cache == IF x.status = "POST" \/ x.nextCallback # Huge THEN "no-cache" ELSE "max-age"
           out == IF page THEN <<x.status, cache>> ELSE <<x.status>>
           newSk == PutSock(sk, out)
           newCl == PutClient(sk, cl, out)
           to == IF page THEN "SERVE_BODY" ELSE "DISCONNECT"
           file == Stub(mpfs', curHTTP'.file)
           index == Stub(mpfs', curHTTP'.offsets)
           T == Tokens(r)
<1>1. active = c /\ sm[c] = "SERVE_HEADERS"
  BY DEF ServeHeaders, In
<1>2. /\ Shaped(sock[c], cl) /\ Told(cl) /\ ~sock[c].reset
      /\ sock[c].st \in {"open", "half", "cut"}
      /\ sock[c].st \in {"open", "half"} => Heard(x, sock[c], cl, "SERVE_HEADERS")
      /\ Working(r, x, "SERVE_HEADERS", Stub(mpfs, x.file), Stub(mpfs, x.offsets))
  BY <1>1, AtWorkOn
<1>3. sk = [st |-> sock[c].st, reset |-> sock[c].reset, rx |-> <<>>, tx |-> sock[c].tx]
  BY <1>2, NewRx
<1>4. Shaped(sk, cl) /\ sk.st = sock[c].st /\ ~sk.reset /\ sk.tx = sock[c].tx /\ sk.rx = <<>>
  BY <1>2, <1>3 DEF Shaped
<1>5. sk.st \in {"open", "half"} =>
        /\ sk.tx = 0 /\ cl.got = <<>>
        /\ IF page THEN Refusals(r) = {} /\ x.status = r.method /\ x.data = DataFor(r)
           ELSE x.status \in Refusals(r)
  BY <1>2, <1>4 DEF Heard
<1>6. page => /\ Placed(r, x, Stub(mpfs, x.file), Stub(mpfs, x.offsets)) /\ x.byteCount = 0
              /\ x.nextCallback = Huge <=> Index[r.page] = <<>>
  BY <1>2 DEF Working
<1>7. curHTTP' = x /\ mpfs' = mpfs /\ file = Stub(mpfs, x.file) /\ index = Stub(mpfs, x.offsets)
  BY DEF ServeHeaders
<1>8. Working(r, curHTTP', to, file, index)
  BY <1>6, <1>7 DEF Working
<1>9. out \in Seq({x.status, cache}) /\ Len(out) \in 0 .. 2
  <2> HIDE DEF cache, page
  <2>1. <<x.status, cache>> \in Seq({x.status, cache}) /\ Len(<<x.status, cache>>) = 2
    BY TwoTokens
  <2>2. <<x.status>> \in Seq({x.status, cache}) /\ Len(<<x.status>>) = 1
    BY OneToken
  <2>3. CASE page
    <3>1. out = <<x.status, cache>>
      BY <2>3
    <3> HIDE DEF out
    <3> QED BY <2>1, <3>1
  <2>4. CASE ~page
    <3>1. out = <<x.status>>
      BY <2>4
    <3> HIDE DEF out
    <3> QED BY <2>2, <3>1
  <2> QED BY <2>3, <2>4
<1>10. /\ sock' = [sock EXCEPT ![c] = newSk] /\ client' = [client EXCEPT ![c] = newCl]
       /\ Go(c, to, ~page)
  BY <1>1 DEF ServeHeaders, TCPPut, AllServed, PutSock, PutClient
<1>11. \A h \in Used \ Held(c) : mpfs'[h] = mpfs[h]
  BY <1>7
\* Nothing is sent on a connection that is cut.
<1>12. CASE sk.st \notin {"open", "half"}
  <2>1. newSk = sk /\ newCl = cl
    <3> HIDE DEF sk, cl, out
    <3> QED BY <1>4, <1>9, <1>12, PutNothing
  <2>2. Served(curHTTP', newSk, newCl, to, file, index, page)
    <3>1. page \in BOOLEAN /\ sk.st \in {"open", "half", "cut"}
      BY <1>2, <1>4
    <3> HIDE DEF sk, cl, newSk, newCl, page, to, file, index
    <3> QED BY <1>2, <1>4, <1>8, <1>12, <2>1, <3>1, OnWork DEF r
  <2> HIDE DEF newSk, newCl
  <2>3. CASE page
    <3>1. Go(c, to, FALSE) /\ Served(curHTTP', newSk, newCl, to, file, index, TRUE)
      BY <1>10, <2>2, <2>3
    <3> HIDE DEF to
    <3> QED BY <1>1, <1>10, <1>11, <3>1, Goes
  <2>4. CASE ~page
    <3>1. Go(c, to, TRUE) /\ Served(curHTTP', newSk, newCl, to, file, index, FALSE)
      <4>1. page = FALSE
        BY <2>4
      <4> HIDE DEF page, to
      <4> QED BY <1>10, <2>2, <4>1
    <3> HIDE DEF to
    <3> QED BY <1>1, <1>10, <1>11, <3>1, Goes
  <2> QED BY <2>3, <2>4
\* Else there is room for the headers.
<1>13. CASE sk.st \in {"open", "half"}
  <2>1. out \in Seq(T)
    <3>1. x.status \in T /\ cache \in T
      BY <1>5, <1>13, TokensOf
    <3>2. {x.status, cache} \subseteq T
      BY <3>1
    <3> HIDE DEF out, cache, T
    <3> QED BY <1>9, <3>2, SeqMonotonic
  <2>2. Len(out) <= TxRoom - sk.tx
    <3>1. sk.tx = 0 /\ TxRoom \in Nat /\ TxRoom >= 2 /\ Len(out) \in 0 .. 2
      BY <1>5, <1>9, <1>13, HttpAssumption
    <3> DEFINE n == Len(out)
               t == sk.tx
    <3>2. t = 0 /\ TxRoom \in Nat /\ TxRoom >= 2 /\ n \in 0 .. 2
      BY <3>1
    <3> HIDE DEF n, t
    <3>3. n <= TxRoom - t
      BY <3>2
    <3> QED BY <3>3 DEF n, t
  <2>3. /\ Shaped(newSk, newCl) /\ newSk.st = sk.st /\ newSk.reset = sk.reset
        /\ newCl.req = r /\ newCl.got = cl.got \o out
    <3> HIDE DEF out, sk, cl
    <3> QED BY <1>4, <1>13, <2>1, <2>2, PutShaped DEF r, T
  <2>4. newCl.got = out
    <3>1. cl.got = <<>> /\ <<>> \o out = out
      <4> HIDE DEF out, T
      <4> QED BY <1>5, <1>13, <2>1, ConcatEmptySeq
    <3> HIDE DEF out
    <3> QED BY <2>3, <3>1
  <2>5. CASE page
    <3> DEFINE rest == From(r.page, DataFor(r))[x.byteCount + 1]
    <3>1. out = <<r.method, cache>> /\ Page(r) = <<r.method, cache>> \o rest
      <4>1. (r.method = "POST" \/ Index[r.page] # <<>>) <=> (x.status = "POST" \/ x.nextCallback # Huge)
        BY <1>5, <1>6, <1>13, <2>5
      <4>2. x.byteCount + 1 = 1
        BY <1>6, <2>5
      <4> QED BY <1>5, <1>13, <2>5, <4>1, <4>2 DEF Page
    <3>2. rest \in Seq(T)
      <4>1. Placed(r, x, Stub(mpfs, x.file), Stub(mpfs, x.offsets))
        BY <1>6, <2>5
      <4>2. x.byteCount \in x.byteCount .. PlainEnd(r, x)
        BY <4>1, PlacedBounds
      <4> HIDE DEF r, x
      <4> QED BY <4>1, <4>2, ReadOn DEF T
    <3> HIDE DEF rest
    <3>3. GoesOn(r, newCl.got, rest)
      BY <2>4, <3>1 DEF GoesOn
    <3>4. Told(newCl)
      <4>1. newCl.got \in Seq(T) /\ Refusals(r) = {}
        BY <1>5, <1>13, <2>1, <2>4, <2>5
      <4> HIDE DEF newCl
      <4> QED BY <2>3, <3>2, <3>3, <4>1, ToldSoFar
    <3>5. Heard(curHTTP', newSk, newCl, "SERVE_BODY")
      <4> HIDE DEF newSk, newCl, r
      <4> QED BY <1>5, <1>7, <1>13, <2>3, <2>5, <3>3 DEF Heard, rest
    <3>6. Served(curHTTP', newSk, newCl, "SERVE_BODY", file, index, TRUE)
      <4>1. Working(newCl.req, curHTTP', "SERVE_BODY", file, index)
        BY <1>8, <2>3, <2>5
      <4>2. newSk.st \in {"open", "half"} /\ ~newSk.reset
        BY <1>4, <1>13, <2>3
      <4> HIDE DEF newSk, newCl, file, index
      <4> QED BY <2>3, <3>4, <3>5, <4>1, <4>2, OnWork
    <3>7. Go(c, "SERVE_BODY", FALSE)
      BY <1>10, <2>5
    <3> HIDE DEF newSk, newCl
    <3> QED BY <1>1, <1>10, <1>11, <3>6, <3>7, Goes
  <2>6. CASE ~page
    <3>1. newCl.got \in Answers(r)
      BY <1>5, <1>13, <2>4, <2>6 DEF Answers
    <3>2. Told(newCl)
      <4>1. newCl.got \in Seq(T)
        BY <2>1, <2>4
      <4> HIDE DEF newCl
      <4> QED BY <2>3, <3>1, <4>1, ToldAll
    <3>3. Heard(curHTTP', newSk, newCl, "DISCONNECT")
      <4> HIDE DEF newSk, newCl
      <4> QED BY <2>3, <3>1 DEF Heard
    <3>4. Served(curHTTP', newSk, newCl, "DISCONNECT", file, index, FALSE)
      <4>1. Working(newCl.req, curHTTP', "DISCONNECT", file, index)
        BY DEF Working
      <4>2. newSk.st \in {"open", "half"} /\ ~newSk.reset
        BY <1>4, <1>13, <2>3
      <4> HIDE DEF newSk, newCl, file, index
      <4> QED BY <2>3, <3>2, <3>3, <4>1, <4>2, OnWork
    <3>5. Go(c, "DISCONNECT", TRUE)
      BY <1>10, <2>6
    <3> HIDE DEF newSk, newCl
    <3> QED BY <1>1, <1>10, <1>11, <3>4, <3>5, Goes
  <2> QED BY <2>5, <2>6
<1> QED BY <1>12, <1>13
-----------------------------------------------------------------------------
(* The body of the answer.                                                 *)

\* How much is read, and what that says of the place that is reached.
Reads(r, x, room, n) ==
  LET a == x.byteCount
      size == Len(Content[r.page])
      b == Lesser(a + n, size)
  IN /\ n \in Nat /\ n <= room /\ b \in a .. PlainEnd(r, x) /\ b - a <= n
     /\ a \in Nat /\ size \in Nat /\ b \in Nat
     /\ n > size - a => b = size
     /\ ~ (n > size - a) => b = a + n
     /\ ~ (n > size - a) /\ a + n = x.nextCallback => x.offsets # 0

LEMMA BytesBounds ==
  ASSUME NEW r, NEW x, NEW page, NEW index, Placed(r, x, page, index),
         NEW room \in Nat, NEW n, n = Lesser(room, x.nextCallback - x.byteCount)
  PROVE  Reads(r, x, room, n)
<1> DEFINE a == x.byteCount
           size == Len(Content[r.page])
           next == x.nextCallback
           end == PlainEnd(r, x)
<1>1. /\ size \in Nat /\ size < Huge /\ a \in Nat /\ next \in Nat /\ a <= next
      /\ end \in a .. size
      /\ x.offsets = 0 => next = Huge
      /\ x.offsets # 0 => next + 3 <= size
  BY PlacedBounds
<1>2. end = IF x.offsets = 0 THEN size ELSE next
  BY DEF PlainEnd
<1>3. n = Lesser(room, next - a) /\ Huge \in Nat
  BY DEF Huge
<1> HIDE DEF a, size, next, end
<1>4. /\ n \in Nat /\ n <= room /\ Lesser(a + n, size) \in a .. end /\ Lesser(a + n, size) - a <= n
      /\ a \in Nat /\ size \in Nat /\ Lesser(a + n, size) \in Nat
      /\ n > size - a => Lesser(a + n, size) = size
      /\ ~ (n > size - a) => Lesser(a + n, size) = a + n
      /\ ~ (n > size - a) /\ a + n = next => x.offsets # 0
  BY <1>1, <1>2, <1>3 DEF Lesser
<1> QED BY <1>4 DEF a, size, next, end, Reads

\* What a browser gets when the page is read on.
Sent(sk, cl, out, newSk, newCl, rest) ==
  /\ newSk = PutSock(sk, out) /\ newCl = PutClient(sk, cl, out)
  /\ Shaped(newSk, newCl) /\ newSk.st = sk.st /\ newSk.reset = sk.reset /\ newSk.rx = sk.rx
  /\ newCl.req = cl.req /\ Told(newCl)
  /\ sk.st \in {"open", "half"} => GoesOn(cl.req, newCl.got, rest)

LEMMA SentOn ==
  ASSUME NEW x, NEW sk, NEW cl, NEW page, NEW index, Shaped(sk, cl), Told(cl),
         Placed(cl.req, x, page, index), NEW b \in x.byteCount .. PlainEnd(cl.req, x),
         NEW out, out = SubSeq(Content[cl.req.page], x.byteCount + 1, b),
         sk.st \in {"open", "half"} =>
           /\ b - x.byteCount <= TxRoom - sk.tx /\ Refusals(cl.req) = {}
           /\ GoesOn(cl.req, cl.got, From(cl.req.page, DataFor(cl.req))[x.byteCount + 1])
  PROVE  Sent(sk, cl, out, PutSock(sk, out), PutClient(sk, cl, out),
              From(cl.req.page, DataFor(cl.req))[b + 1])
<1> DEFINE r == cl.req
           T == Tokens(r)
           before == From(r.page, DataFor(r))[x.byteCount + 1]
           rest == From(r.page, DataFor(r))[b + 1]
           newSk == PutSock(sk, out)
           newCl == PutClient(sk, cl, out)
<1>1. out \in Seq(T) /\ Len(out) = b - x.byteCount /\ rest \in Seq(T) /\ before = out \o rest
  <2>1. /\ Placed(cl.req, x, page, index) /\ b \in x.byteCount .. PlainEnd(cl.req, x)
        /\ out = SubSeq(Content[cl.req.page], x.byteCount + 1, b)
    OBVIOUS
  <2> QED BY ONLY <2>1, ReadOn, ZenonT(30) DEF r, T, before, rest
<1>2. /\ Shaped(newSk, newCl) /\ newSk.st = sk.st /\ newSk.reset = sk.reset
      /\ newSk.rx = sk.rx /\ newCl.req = r
      /\ sk.st \in {"open", "half"} => newCl.got = cl.got \o out
      /\ sk.st \notin {"open", "half"} => newCl.got = cl.got
  <2>1. out \in Seq(Tokens(cl.req))
    BY <1>1
  <2>2. sk.st \in {"open", "half"} => Len(out) <= TxRoom - sk.tx
    BY <1>1
  <2>3. Shaped(sk, cl)
    OBVIOUS
  <2> QED BY ONLY <2>1, <2>2, <2>3, PutShaped
<1>3. ASSUME sk.st \in {"open", "half"} PROVE GoesOn(r, newCl.got, rest) /\ Told(newCl)
  <2>1. GoesOn(r, newCl.got, rest)
    <3> DEFINE s == cl.got
    <3>1. s \in Seq(T) /\ out \in Seq(T) /\ rest \in Seq(T)
      BY <1>1 DEF Shaped
    <3>2. Fits(r.page) => s \o before = Page(r)
      BY <1>3 DEF GoesOn
    <3> HIDE DEF s, T, before, rest
    <3>3. (s \o out) \o rest = s \o (out \o rest)
      BY ONLY <3>1, ConcatAssociative, SMTT(20)
    <3>4. newCl.got = s \o out
      BY <1>2, <1>3 DEF s
    <3>5. Fits(r.page) => newCl.got \o rest = Page(r)
      BY <1>1, <3>2, <3>3, <3>4
    <3> QED BY <3>5 DEF GoesOn
  <2>2. Told(newCl)
    <3>1. newCl.got \in Seq(T) /\ Refusals(newCl.req) = {} /\ newCl.req = r
      BY <1>2, <1>3 DEF Shaped
    <3> HIDE DEF newCl, rest
    <3> QED BY <1>1, <2>1, <3>1, ToldSoFar
  <2> QED BY <2>1, <2>2
<1>4. ASSUME sk.st \notin {"open", "half"} PROVE Told(newCl)
  <2> HIDE DEF newCl
  <2> QED BY <1>2, <1>4, ToldStill
<1> HIDE DEF newSk, newCl, rest
<1> QED BY <1>2, <1>3, <1>4 DEF Sent, newSk, newCl, rest, r

\* A variable's place is skipped to behind the "~" that ends its name.
LEMMA SkipsThree ==
  ASSUME NEW page, WellIndexed(Content[page], Index[page]),
         NEW k \in 1 .. Len(Index[page]), k % 2 = 1,
         NEW h, FileOf(h) = Content[page]
  PROVE  Skipped(h, Index[page][k]) = 3
<1> DEFINE text == Content[page]
           b == Index[page][k]
           P(n) == text[b + 2 + n] = "~" /\ \A j \in 0 .. n - 1 : text[b + 2 + j] # "~"
<1>1. Len(text) \in Nat /\ b \in Nat /\ b + 3 <= Len(text) /\ text[b + 2] # "~" /\ text[b + 3] = "~"
  <2>1. Len(text) \in Nat /\ b \in Nat /\ b + 3 <= Len(text)
    BY IndexPlaces
  <2> QED BY <2>1 DEF WellIndexed
<1> HIDE DEF text, b
<1>2. P(1) /\ 1 \in 0 .. Len(text)
  <2>1. b + 2 + 1 = b + 3 /\ b + 2 + 0 = b + 2 /\ \A j \in 0 .. 1 - 1 : j = 0
    BY <1>1
  <2> QED BY <1>1, <2>1
<1>3. ASSUME NEW n \in 0 .. Len(text), P(n) PROVE n = 1
  <2>1. n # 0
    <3>1. b + 2 + 0 = b + 2
      BY <1>1
    <3> QED BY <1>1, <1>3, <3>1
  <2>2. ~ (n > 1)
    <3> SUFFICES ASSUME n > 1 PROVE FALSE
      OBVIOUS
    <3>1. 1 \in 0 .. n - 1 /\ b + 2 + 1 = b + 3
      BY <1>1
    <3>2. text[b + 2 + 1] # "~"
      BY <1>3, <3>1
    <3> QED BY <1>1, <3>1, <3>2
  <2> QED BY <1>1, <2>1, <2>2
<1> DEFINE found == CHOOSE n \in 0 .. Len(text) : P(n)
<1>4. found = 1
  BY <1>2, <1>3
<1>5. Skipped(h, b) = 2 + found
  BY DEF Skipped, text
<1> HIDE DEF found
<1>6. Skipped(h, b) = 3
  BY <1>4, <1>5
<1> QED BY <1>6 DEF b

\* The place behind a variable.
LEMMA PlacedBehind ==
  ASSUME NEW r, r.page \in Pages, WellIndexed(Content[r.page], Index[r.page]),
         NEW k \in 1 .. Len(Index[r.page]), k % 2 = 1,
         NEW x, NEW page, NEW index, x.file # 0,
         x.byteCount = Index[r.page][k] + 3,
         page = [file |-> "page", of |-> r.page, pos |-> x.byteCount],
         IF Len(Index[r.page]) - k = 1 THEN x.offsets = 0 /\ x.nextCallback = Huge
         ELSE /\ x.offsets # 0 /\ x.nextCallback = Index[r.page][k + 2]
              /\ index = [file |-> "index", of |-> r.page, pos |-> k + 2]
  PROVE  Placed(r, x, page, index)
<1> DEFINE text == Content[r.page]
           offsets == Index[r.page]
           n == Len(offsets)
           m == k + 2
<1>1. /\ Len(text) \in Nat /\ n \in Nat /\ n % 2 = 0
      /\ offsets[k] \in Nat /\ offsets[k] + 3 <= Len(text)
  BY IndexPlaces
<1>2. x.byteCount \in 0 .. Len(text)
  <2> HIDE DEF text, offsets
  <2> QED BY <1>1 DEF offsets
<1>3. CASE n - k = 1
  <2>1. k + 1 = n
    <3> HIDE DEF n
    <3> QED BY <1>1, <1>3
  <2>2. Plain(text, x.byteCount, Len(text))
    BY <2>1 DEF WellIndexed
  <2>3. x.offsets = 0 /\ x.nextCallback = Huge
    BY <1>3
  <2> HIDE DEF text
  <2> QED BY <1>2, <2>2, <2>3 DEF Placed, text
<1>4. CASE n - k # 1
  <2>1. m \in 1 .. n /\ m % 2 = 1 /\ m # 1 /\ m - 2 = k
    <3>1. n \in Nat /\ n % 2 = 0 /\ k \in 1 .. n /\ k % 2 = 1 /\ n - k # 1
      BY <1>1, <1>4
    <3> HIDE DEF n
    <3> QED BY ONLY <3>1 DEF m
  <2>2. x.offsets # 0 /\ x.nextCallback = offsets[m] /\ index = [file |-> "index", of |-> r.page, pos |-> m]
    BY <1>4
  <2> HIDE DEF m
  <2>3. Plain(text, Behind(offsets, m), offsets[m]) /\ Behind(offsets, m) = offsets[k] + 3
    BY <2>1 DEF WellIndexed, Behind
  <2>4. Behind(offsets, m) \in 0 .. offsets[m] /\ offsets[m] \in Nat
    BY <2>1, IndexPlaces
  <2>5. x.byteCount <= offsets[m] /\ Plain(text, x.byteCount, offsets[m])
    <3> HIDE DEF text
    <3> QED BY <2>3, <2>4
  <2> HIDE DEF text, offsets, n
  <2> QED BY <1>2, <2>1, <2>2, <2>5 DEF Placed, text, offsets, n
<1> QED BY <1>3, <1>4

LEMMA ServeBodyServed ==
  ASSUME IInv, AllServed, NEW c \in Conns, ServeBody(c)
  PROVE  AllServed'
<1> DEFINE sk == sock[c]
           cl == client[c]
           r == cl.req
           x == curHTTP
           h == x.file
           i == x.offsets
           a == x.byteCount
           n == Bytes
           text == Content[r.page]
           size == Len(text)
           room == TCPIsPutReady(sk)
           b == Lesser(a + n, size)
           out == SubSeq(text, a + 1, b)
           newSk == PutSock(sk, out)
           newCl == PutClient(sk, cl, out)
           rest == From(r.page, DataFor(r))[b + 1]
           live == sk.st \in {"open", "half"}
           full == n = room
           file == Stub(mpfs', curHTTP'.file)
           index == Stub(mpfs', curHTTP'.offsets)
<1>1. active = c /\ sm[c] = "SERVE_BODY"
  BY DEF ServeBody, In
<1>2. /\ Shaped(sk, cl) /\ Told(cl) /\ ~sk.reset
      /\ sk.st \in {"open", "half", "cut"}
      /\ sk.st = "cut" => sk.rx = <<>>
      /\ live => Heard(x, sk, cl, "SERVE_BODY")
      /\ Placed(r, x, Stub(mpfs, h), Stub(mpfs, i))
  BY <1>1, AtWorkOn DEF Working
<1>3. /\ live => /\ Refusals(r) = {} /\ x.data = DataFor(r)
                 /\ GoesOn(r, cl.got, From(r.page, DataFor(r))[a + 1])
      /\ IsContext(x)
  BY <1>1, <1>2, Comes DEF Heard
<1>4. /\ r.page \in Pages /\ h # 0 /\ mpfs[h] = [file |-> "page", of |-> r.page, pos |-> a]
      /\ FileOf(h) = text /\ mpfs[h].pos = a /\ Rest(h) = size - a
  BY <1>2 DEF Placed, Stub, FileOf, Rest
<1>5. /\ room \in Nat /\ n = Lesser(room, x.nextCallback - a)
      /\ room = IF live THEN TxRoom - sk.tx ELSE 0
  <2>1. sk.tx \in 0 .. TxRoom /\ TxRoom \in Nat
    BY <1>2, HttpAssumption DEF Shaped
  <2>2. room \in Nat
    <3> HIDE DEF sk
    <3> QED BY <2>1 DEF TCPIsPutReady
  <2>3. room = IF live THEN TxRoom - sk.tx ELSE 0
    BY DEF TCPIsPutReady
  <2> QED BY <1>1, <2>2, <2>3 DEF Bytes
<1>6. /\ n \in Nat /\ n <= room /\ b \in a .. PlainEnd(r, x) /\ b - a <= n
      /\ a \in Nat /\ size \in Nat /\ b \in Nat
      /\ n > size - a => b = size
      /\ ~ (n > size - a) => b = a + n
      /\ ~ (n > size - a) /\ a + n = x.nextCallback => i # 0
  <2>1. Placed(r, x, Stub(mpfs, h), Stub(mpfs, i)) /\ room \in Nat /\ n = Lesser(room, x.nextCallback - x.byteCount)
    BY <1>2, <1>5
  <2> HIDE DEF n, room, r, x
  <2>2. Reads(r, x, room, n)
    BY ONLY <2>1, BytesBounds
  <2> QED BY <2>2 DEF Reads
<1>7. /\ Shaped(newSk, newCl) /\ newSk.st = sk.st /\ newSk.reset = sk.reset /\ newSk.rx = sk.rx
      /\ newCl.req = r /\ Told(newCl)
      /\ live => GoesOn(r, newCl.got, rest)
  <2>1. live => b - a <= TxRoom - sk.tx
    <3> HIDE DEF n, room, b, a, sk, live
    <3> QED BY <1>5, <1>6, <1>2
  <2>2. Placed(cl.req, x, Stub(mpfs, h), Stub(mpfs, i)) /\ b \in x.byteCount .. PlainEnd(cl.req, x)
        /\ Shaped(sk, cl) /\ Told(cl) /\ out = SubSeq(Content[cl.req.page], x.byteCount + 1, b)
    BY <1>2, <1>6
  <2>3. sk.st \in {"open", "half"} =>
          /\ b - x.byteCount <= TxRoom - sk.tx /\ Refusals(cl.req) = {}
          /\ GoesOn(cl.req, cl.got, From(cl.req.page, DataFor(cl.req))[x.byteCount + 1])
    BY <1>3, <2>1
  <2> HIDE DEF b, out, sk, cl, x
  <2>4. Sent(sk, cl, out, PutSock(sk, out), PutClient(sk, cl, out),
             From(cl.req.page, DataFor(cl.req))[b + 1])
    BY ONLY <2>2, <2>3, SentOn
  <2>5. Sent(sk, cl, out, newSk, newCl, rest)
    BY <2>4
  <2> HIDE DEF newSk, newCl, rest
  <2> QED BY <2>5 DEF Sent
<1>8. sock' = [sock EXCEPT ![c] = newSk] /\ client' = [client EXCEPT ![c] = newCl]
  <2>1. TCPPut(c, sk, out)
    BY <1>4 DEF ServeBody
  <2> HIDE DEF out
  <2> QED BY <2>1 DEF TCPPut, AllServed, PutSock, PutClient
<1>9. /\ h \in Used /\ h \in Held(c) /\ h # i /\ (i # 0 => i \in Used /\ i \in Held(c))
      /\ Used \subseteq Handles /\ mpfs = [k \in Handles |-> mpfs[k]] /\ 0 \notin Handles
  BY <1>1, <1>4, HeldAreUsed, Inside DEF Held, IInv, Typed, Used, Handles
<1>10. newSk.st \in {"open", "half", "cut"} /\ ~newSk.reset /\ (newSk.st = "cut" => newSk.rx = <<>>)
  BY <1>2, <1>7
\* The end of the page: the answer is whole.
<1>11. CASE /\ n > size - a /\ MPFSClose({h}) /\ Go(c, "DISCONNECT", TRUE)
  <2>1. live => Heard(curHTTP', newSk, newCl, "DISCONNECT")
    <3>1. ASSUME live, Fits(r.page) PROVE newCl.got \in Answers(r)
      <4>1. rest = <<>>
        <5>1. b = size /\ size \in Nat
          BY <1>6, <1>11
        <5>2. From(r.page, DataFor(r))[size + 1] = <<>>
          <6> HIDE DEF r
          <6> QED BY <5>1, FromEnd
        <5> HIDE DEF b, size
        <5> QED BY <5>1, <5>2
      <4>2. newCl.got \o <<>> = newCl.got
        <5> DEFINE s == newCl.got
        <5>1. s \in Seq(Tokens(newCl.req))
          BY <1>7 DEF Shaped
        <5> HIDE DEF s
        <5>2. s \o <<>> = s
          BY <5>1, ConcatEmptySeq
        <5> QED BY <5>2 DEF s
      <4>3. newCl.got \o rest = Page(r)
        BY <1>7, <3>1 DEF GoesOn
      <4> HIDE DEF newCl, rest, r, live
      <4> QED BY <1>3, <3>1, <4>1, <4>2, <4>3 DEF Answers
    <3> HIDE DEF newCl, newSk
    <3> QED BY <1>7, <3>1 DEF Heard
  <2>2. Working(newCl.req, curHTTP', "DISCONNECT", file, index)
    BY DEF Working
  <2>3. Served(curHTTP', newSk, newCl, "DISCONNECT", file, index, FALSE)
    <3> HIDE DEF newCl, newSk, file, index
    <3> QED BY <1>7, <1>10, <2>1, <2>2, OnWork
  <2>4. \A k \in Used \ Held(c) : mpfs'[k] = mpfs[k]
    BY <1>9, <1>11 DEF MPFSClose
  <2>5. Go(c, "DISCONNECT", TRUE)
    BY <1>11
  <2> HIDE DEF newCl, newSk
  <2> QED BY <1>1, <1>8, <2>3, <2>4, <2>5, Goes
\* The page is read on.
<1>12. CASE /\ ~ (n > size - a) /\ a + n # x.nextCallback
            /\ mpfs' = [mpfs EXCEPT ![h].pos = a + n]
            /\ curHTTP' = [x EXCEPT !.byteCount = @ + n]
            /\ Go(c, "SERVE_BODY", full)
  <2>1. /\ curHTTP'.file = h /\ curHTTP'.offsets = i /\ curHTTP'.nextCallback = x.nextCallback
        /\ curHTTP'.data = x.data /\ curHTTP'.byteCount = b
    <3>1. a + n = b
      BY <1>6, <1>12
    <3>2. curHTTP' = [x EXCEPT !.byteCount = a + n]
      BY <1>12
    <3>3. curHTTP' = [x EXCEPT !.byteCount = b]
      BY <3>1, <3>2
    <3> HIDE DEF b
    <3> QED BY <1>3, <3>3 DEF IsContext, Fields
  <2>2. /\ file = [file |-> "page", of |-> r.page, pos |-> b]
        /\ i # 0 => index = Stub(mpfs, i)
        /\ \A k \in Used \ Held(c) : mpfs'[k] = mpfs[k]
    <3>1. a + n = b
      BY <1>6, <1>12
    <3>2. mpfs' = [mpfs EXCEPT ![h].pos = b]
      BY <1>12, <3>1
    <3> HIDE DEF b, r
    <3>3. mpfs'[h] = [mpfs[h] EXCEPT !.pos = b] /\ \A k \in Handles \ {h} : mpfs'[k] = mpfs[k]
      BY <1>9, <3>2
    <3>4. mpfs'[h] = [file |-> "page", of |-> r.page, pos |-> b]
      BY <1>4, <3>3
    <3>5. file = mpfs'[h] /\ (i # 0 => index = mpfs'[i])
      BY <1>4, <2>1 DEF Stub
    <3> QED BY <1>9, <3>3, <3>4, <3>5 DEF Stub
  <2>3. Placed(r, curHTTP', file, index)
    <3>1. /\ text \in {Content[r.page]} /\ b \in 0 .. size /\ b \in a .. PlainEnd(r, x)
          /\ x.offsets = 0 => PlainEnd(r, x) = size
          /\ x.offsets # 0 => PlainEnd(r, x) = x.nextCallback
      <4>1. PlainEnd(r, x) \in a .. size
        BY <1>2, PlacedBounds
      <4>2. /\ x.offsets = 0 => PlainEnd(r, x) = size
            /\ x.offsets # 0 => PlainEnd(r, x) = x.nextCallback
        BY DEF PlainEnd
      <4> HIDE DEF b, size, a, r, x
      <4> QED BY <1>6, <4>1, <4>2
    <3>2. CASE i = 0
      <4>1. x.nextCallback = Huge /\ Plain(text, a, size)
        BY <1>2, <3>2 DEF Placed
      <4>2. Plain(text, b, size)
        <5> HIDE DEF text, b, size
        <5> QED BY <1>6, <3>1, <4>1 DEF Plain
      <4> HIDE DEF b, file, index, r
      <4> QED BY <1>4, <2>1, <2>2, <3>1, <3>2, <4>1, <4>2 DEF Placed
    <3>3. CASE i # 0
      <4>1. PICK k \in 1 .. Len(Index[r.page]) :
              /\ k % 2 = 1
              /\ Stub(mpfs, i) = [file |-> "index", of |-> r.page, pos |-> k]
              /\ x.nextCallback = Index[r.page][k]
              /\ Plain(text, a, Index[r.page][k])
        BY <1>2, <3>3 DEF Placed
      <4>2. b <= Index[r.page][k] /\ Plain(text, b, Index[r.page][k])
        <5> DEFINE to == Index[r.page][k]
        <5>1. b \in a .. to /\ Plain(text, a, to)
          BY <3>1, <3>3, <4>1
        <5> HIDE DEF text, b, to
        <5>2. b <= to /\ Plain(text, b, to)
          BY <1>6, <5>1 DEF Plain
        <5> QED BY <5>2 DEF to
      <4> HIDE DEF b, file, index, r
      <4> QED BY <1>4, <2>1, <2>2, <3>1, <3>3, <4>1, <4>2 DEF Placed
    <3> QED BY <3>2, <3>3
  <2>4. Working(newCl.req, curHTTP', "SERVE_BODY", file, index)
    <3> HIDE DEF newCl, file, index
    <3> QED BY <1>7, <2>3 DEF Working
  <2>5. live => Heard(curHTTP', newSk, newCl, "SERVE_BODY")
    <3> HIDE DEF newCl, newSk, r, b, live
    <3> QED BY <1>3, <1>7, <2>1 DEF Heard
  <2>6. full \in BOOLEAN /\ Served(curHTTP', newSk, newCl, "SERVE_BODY", file, index, ~full)
    <3>1. full \in BOOLEAN /\ (~full) \in BOOLEAN
      <4> HIDE DEF n, room
      <4> QED OBVIOUS
    <3> HIDE DEF newCl, newSk, file, index, full
    <3> QED BY <1>7, <1>10, <2>4, <2>5, <3>1, OnWork
  <2>7. Go(c, "SERVE_BODY", full)
    BY <1>12
  <2> HIDE DEF newCl, newSk, full
  <2> QED BY <1>1, <1>8, <2>2, <2>6, <2>7, Goes
<1>13. CASE /\ ~ (n > size - a) /\ a + n = x.nextCallback
            /\ TakeVariable(h, a + n) /\ Go(c, "SEND_FROM_CALLBACK", full)
  <2> DEFINE offsets == Index[r.page]
  <2>1. PICK k \in 1 .. Len(offsets) :
          /\ k % 2 = 1
          /\ Stub(mpfs, i) = [file |-> "index", of |-> r.page, pos |-> k]
          /\ x.nextCallback = offsets[k]
    BY <1>2, <1>6, <1>13 DEF Placed
  <2> DEFINE last == Len(offsets) - k = 1
  <2>2. WellIndexed(text, offsets) /\ b = offsets[k] /\ a + n = b /\ i # 0 /\ b + 3 \in Nat
    <3>1. WellIndexed(text, offsets)
      BY <1>4, PagesAssumption
    <3>2. a + n = b /\ i # 0 /\ b \in Nat
      BY <1>6, <1>13
    <3>3. b = offsets[k]
      BY <1>13, <2>1, <3>2
    <3> HIDE DEF b
    <3>4. b + 3 \in Nat
      BY <3>2
    <3> QED BY <3>1, <3>2, <3>3, <3>4
  <2>3. /\ FileOf(i) = offsets /\ mpfs[i] = [file |-> "index", of |-> r.page, pos |-> k]
        /\ mpfs[i].pos = k /\ (Rest(i) = 1) = last
    <3>1. mpfs[i] = [file |-> "index", of |-> r.page, pos |-> k]
      BY ONLY <2>1, <2>2 DEF Stub
    <3>2. mpfs[i].file = "index" /\ mpfs[i].of = r.page /\ mpfs[i].pos = k
      BY ONLY <3>1
    <3>3. FileOf(i) = offsets
      BY ONLY <3>2 DEF FileOf, offsets
    <3> HIDE DEF offsets
    <3> QED BY ONLY <3>1, <3>2, <3>3 DEF Rest, last
  <2>4. Skipped(h, b) = 3
    <3>1. Skipped(h, offsets[k]) = 3
      <4> HIDE DEF r, h
      <4> QED BY <1>4, <2>1, <2>2, SkipsThree
    <3> HIDE DEF b, offsets
    <3> QED BY <2>2, <3>1
  <2>5. a + n + 3 = b + 3 /\ k + 1 \in Nat
    BY <2>1, <2>2
  <2>6. /\ mpfs' = [mpfs EXCEPT ![h].pos = b + 3,
                                ![i] = IF last THEN Free ELSE [mpfs[i] EXCEPT !.pos = @ + 2]]
        /\ curHTTP' = [x EXCEPT !.byteCount = b + 3, !.callbackID = offsets[k + 1],
              !.nextCallback = IF last THEN Huge ELSE offsets[k + 2],
              !.offsets = IF last THEN 0 ELSE i]
    <3>1. TakeVariable(h, b)
      BY <1>13, <2>2
    <3>2. x.byteCount + Bytes + 3 = b + 3
      BY <2>2
    <3> HIDE DEF b, n, offsets, last
    <3> QED BY <2>3, <2>4, <3>1, <3>2 DEF TakeVariable
  <2>7. /\ curHTTP'.file = h /\ curHTTP'.data = x.data /\ curHTTP'.byteCount = b + 3
        /\ curHTTP'.callbackID = offsets[k + 1]
        /\ curHTTP'.nextCallback = IF last THEN Huge ELSE offsets[k + 2]
        /\ curHTTP'.offsets = IF last THEN 0 ELSE i
    <3> HIDE DEF b, offsets, last
    <3> QED BY <1>3, <2>6 DEF IsContext, Fields
  <2>8. /\ file = [file |-> "page", of |-> r.page, pos |-> b + 3]
        /\ ~last => index = [file |-> "index", of |-> r.page, pos |-> k + 2]
        /\ \A m \in Used \ Held(c) : mpfs'[m] = mpfs[m]
    <3>1. h \in Handles /\ i \in Handles /\ h # i /\ mpfs = [m \in Handles |-> mpfs[m]]
      BY <1>9, <2>2
    <3> DEFINE new == IF last THEN Free ELSE [mpfs[i] EXCEPT !.pos = @ + 2]
    <3>2. mpfs' = [mpfs EXCEPT ![h].pos = b + 3, ![i] = new]
      <4> HIDE DEF b, last
      <4> QED BY <2>6
    <3>3. ~last => new = [file |-> "index", of |-> r.page, pos |-> k + 2]
      BY <2>3
    <3> HIDE DEF new, b, r, last
    <3>4. /\ mpfs'[h] = [mpfs[h] EXCEPT !.pos = b + 3] /\ mpfs'[i] = new
          /\ \A m \in Handles \ {h, i} : mpfs'[m] = mpfs[m]
      BY <3>1, <3>2
    <3>5. mpfs'[h] = [file |-> "page", of |-> r.page, pos |-> b + 3]
      BY <1>4, <3>4
    <3>6. file = mpfs'[h] /\ (~last => index = mpfs'[i])
      BY <1>4, <2>2, <2>7 DEF Stub
    <3> QED BY <1>9, <2>2, <3>3, <3>4, <3>5, <3>6
  <2>9. Placed(r, curHTTP', file, index)
    <3>1. /\ curHTTP'.file # 0 /\ curHTTP'.byteCount = offsets[k] + 3
          /\ file = [file |-> "page", of |-> r.page, pos |-> curHTTP'.byteCount]
      BY <1>4, <2>2, <2>7, <2>8
    <3>2. IF last THEN curHTTP'.offsets = 0 /\ curHTTP'.nextCallback = Huge
          ELSE /\ curHTTP'.offsets # 0 /\ curHTTP'.nextCallback = offsets[k + 2]
               /\ index = [file |-> "index", of |-> r.page, pos |-> k + 2]
      BY <2>2, <2>7, <2>8
    <3> DEFINE y == curHTTP'
    <3> HIDE DEF r, file, index, y
    <3> QED BY <1>4, <2>1, <2>2, <3>1, <3>2, PlacedBehind DEF y
  <2>10. Working(newCl.req, curHTTP', "SEND_FROM_CALLBACK", file, index)
    <3> HIDE DEF newCl, file, index
    <3> QED BY <1>7, <2>9 DEF Working
  <2>11. live => Heard(curHTTP', newSk, newCl, "SEND_FROM_CALLBACK")
    <3>1. rest = Printed(offsets[k + 1], DataFor(r)) \o From(r.page, DataFor(r))[b + 4]
      <4>1. From(r.page, DataFor(r))[offsets[k] + 1]
              = Printed(offsets[k + 1], DataFor(r)) \o From(r.page, DataFor(r))[offsets[k] + 4]
        <5> HIDE DEF r
        <5> QED BY <2>1, <2>2, FromVariable
      <4>2. b = offsets[k]
        BY <2>2
      <4> HIDE DEF b, offsets
      <4> QED BY <4>1, <4>2
    <3>2. b + 3 + 1 = b + 4
      <4>1. b \in Nat
        BY <1>6
      <4> HIDE DEF b
      <4> QED BY <4>1
    <3>3. live => GoesOn(r, newCl.got, Printed(curHTTP'.callbackID, curHTTP'.data)
                                         \o From(r.page, DataFor(r))[curHTTP'.byteCount + 1])
      <4> HIDE DEF b, rest, newCl, r, live, offsets
      <4> QED BY <1>3, <1>7, <2>7, <3>1, <3>2
    <3>4. \E m \in 1 .. Len(offsets) : m % 2 = 0 /\ curHTTP'.callbackID = offsets[m]
      <4>1. k + 1 \in 1 .. Len(offsets) /\ (k + 1) % 2 = 0
        <5> DEFINE len == Len(offsets)
        <5>1. len \in Nat /\ len % 2 = 0 /\ k \in 1 .. len /\ k % 2 = 1
          BY <2>1, <2>2, IndexPlaces
        <5> HIDE DEF len
        <5>2. k + 1 \in 1 .. len /\ (k + 1) % 2 = 0
          BY ONLY <5>1
        <5> QED BY <5>2 DEF len
      <4> QED BY <2>7, <4>1
    <3> HIDE DEF newCl, newSk, r, b, live
    <3> QED BY <1>3, <1>7, <2>7, <3>3, <3>4 DEF Heard
  <2>12. Served(curHTTP', newSk, newCl, "SEND_FROM_CALLBACK", file, index, ~full)
    <3>1. (~full) \in BOOLEAN
      <4> HIDE DEF n, room
      <4> QED OBVIOUS
    <3> HIDE DEF newCl, newSk, file, index, full
    <3> QED BY <1>7, <1>10, <2>10, <2>11, <3>1, OnWork
  <2>13. Go(c, "SEND_FROM_CALLBACK", full) /\ full \in BOOLEAN
    <3>1. full \in BOOLEAN
      <4> HIDE DEF n, room
      <4> QED OBVIOUS
    <3> QED BY <1>13, <3>1
  <2> HIDE DEF newCl, newSk, full
  <2> QED BY <1>1, <1>8, <2>8, <2>12, <2>13, Goes
<1>14. \/ /\ n > size - a /\ MPFSClose({h}) /\ Go(c, "DISCONNECT", TRUE)
       \/ /\ ~ (n > size - a) /\ a + n # x.nextCallback
          /\ mpfs' = [mpfs EXCEPT ![h].pos = a + n]
          /\ curHTTP' = [x EXCEPT !.byteCount = @ + n]
          /\ Go(c, "SERVE_BODY", full)
       \/ /\ ~ (n > size - a) /\ a + n = x.nextCallback
          /\ TakeVariable(h, a + n) /\ Go(c, "SEND_FROM_CALLBACK", full)
  BY <1>4 DEF ServeBody, EndOfFile, AtVariable
<1> QED BY <1>11, <1>12, <1>13, <1>14

\* An even place of an index is one behind an odd one.
LEMMA EvenPlace ==
  ASSUME NEW len \in Nat, NEW m \in 1 .. len, m % 2 = 0
  PROVE  m - 1 \in 1 .. len /\ (m - 1) % 2 = 1 /\ m - 1 + 1 = m
OBVIOUS

LEMMA SendFromCallbackServed ==
  ASSUME IInv, AllServed, NEW c \in Conns, SendFromCallback(c)
  PROVE  AllServed'
<1> DEFINE sk == sock[c]
           cl == client[c]
           r == cl.req
           x == curHTTP
           T == Tokens(r)
           out == Printed(x.callbackID, x.data)
           room == TCPIsPutReady(sk)
           newSk == PutSock(sk, out)
           newCl == PutClient(sk, cl, out)
           rest == From(r.page, DataFor(r))[x.byteCount + 1]
           live == sk.st \in {"open", "half"}
           file == Stub(mpfs', curHTTP'.file)
           index == Stub(mpfs', curHTTP'.offsets)
<1>1. active = c /\ sm[c] = "SEND_FROM_CALLBACK" /\ curHTTP' = x /\ mpfs' = mpfs
  BY DEF SendFromCallback, In
<1>2. /\ Shaped(sk, cl) /\ Told(cl) /\ ~sk.reset
      /\ sk.st \in {"open", "half", "cut"}
      /\ sk.st = "cut" => sk.rx = <<>>
      /\ live => Heard(x, sk, cl, "SEND_FROM_CALLBACK")
      /\ Placed(r, x, Stub(mpfs, x.file), Stub(mpfs, x.offsets))
  BY <1>1, AtWorkOn DEF Working
<1>3. live => /\ Refusals(r) = {} /\ x.data = DataFor(r)
              /\ GoesOn(r, cl.got, out \o rest)
              /\ \E m \in 1 .. Len(Index[r.page]) : m % 2 = 0 /\ x.callbackID = Index[r.page][m]
  BY <1>2 DEF Heard
<1>4. file = Stub(mpfs, x.file) /\ index = Stub(mpfs, x.offsets)
  BY <1>1
\* Not enough room yet.
<1>5. CASE room < MinFree
  <2>1. Go(c, "SEND_FROM_CALLBACK", TRUE) /\ sock' = sock /\ client' = client
    <3>1. MinFree \in Nat /\ room \in Nat
      <4>1. sk.tx \in 0 .. TxRoom /\ TxRoom \in Nat
        BY <1>2, HttpAssumption DEF Shaped
      <4> HIDE DEF sk
      <4> QED BY <4>1, HttpAssumption DEF TCPIsPutReady
    <3>2. ~ (room >= MinFree)
      <4> HIDE DEF room
      <4> QED BY <1>5, <3>1
    <3> QED BY <1>1, <3>2 DEF SendFromCallback
  <2>2. sock' = [sock EXCEPT ![c] = sk] /\ client' = [client EXCEPT ![c] = cl]
    BY <1>1, <2>1, Comes
  <2>3. Working(cl.req, curHTTP', "SEND_FROM_CALLBACK", file, index)
    BY <1>1, <1>2, <1>4 DEF Working
  <2>4. Served(curHTTP', sk, cl, "SEND_FROM_CALLBACK", file, index, FALSE)
    <3> HIDE DEF sk, cl, file, index
    <3> QED BY <1>1, <1>2, <2>3, OnWork DEF live
  <2>5. \A h \in Used \ Held(c) : mpfs'[h] = mpfs[h]
    BY <1>1
  <2> HIDE DEF sk, cl
  <2> QED BY <1>1, <2>1, <2>2, <2>4, <2>5, Goes
\* There is room for what the variable prints.
<1>6. CASE room >= MinFree
  <2>1. live /\ MinFree <= TxRoom - sk.tx /\ MinFree \in Nat /\ sk.tx \in 0 .. TxRoom /\ TxRoom \in Nat
    <3>1. MinFree \in Nat \ {0} /\ room = IF live THEN TxRoom - sk.tx ELSE 0
      BY HttpAssumption DEF TCPIsPutReady
    <3>2. sk.tx \in 0 .. TxRoom /\ TxRoom \in Nat
      BY <1>2, HttpAssumption DEF Shaped
    <3> HIDE DEF room, live, sk
    <3> QED BY <1>6, <3>1, <3>2
  <2>2. Go(c, "SERVE_BODY", FALSE) /\ TCPPut(c, sk, out)
    <3>1. ~ (room < MinFree)
      <4>1. room = TxRoom - sk.tx
        BY <2>1 DEF TCPIsPutReady
      <4> HIDE DEF room, sk
      <4> QED BY <1>6, <2>1, <4>1
    <3> QED BY <3>1 DEF SendFromCallback
  <2>3. PICK m \in 1 .. Len(Index[r.page]) : m % 2 = 0 /\ x.callbackID = Index[r.page][m]
    BY <1>3, <2>1
  <2>4. r.page \in Pages /\ WellIndexed(Content[r.page], Index[r.page])
    <3> HIDE DEF r, x
    <3> QED BY <1>2, PlacedBounds
  <2>5. out \in Seq(T) /\ (Fits(r.page) => Len(out) <= TxRoom - sk.tx)
    <3> DEFINE k == m - 1
               len == Len(Index[r.page])
    <3>1. k \in 1 .. len /\ k % 2 = 1 /\ k + 1 = m
      <4>1. len \in Nat
        <5> HIDE DEF r
        <5> QED BY <2>4, IndexPlaces
      <4>2. m \in 1 .. len /\ m % 2 = 0
        BY <2>3
      <4> HIDE DEF len
      <4> QED BY <4>1, <4>2, EvenPlace
    <3>2. /\ Printed(Index[r.page][k + 1], DataFor(r)) \in Seq(T)
          /\ Fits(r.page) => Len(Printed(Index[r.page][k + 1], DataFor(r))) <= MinFree
      <4> HIDE DEF k, r
      <4> QED BY <2>4, <3>1, PrintedTyped
    <3>3. Printed(Index[r.page][k + 1], DataFor(r)) = out
      <4> HIDE DEF k, r
      <4> QED BY <1>3, <2>1, <2>3, <3>1
    <3>4. out \in Seq(T) /\ (Fits(r.page) => Len(out) <= MinFree) /\ Len(out) \in Nat
      <4> HIDE DEF out, k, r
      <4>1. out \in Seq(T) /\ (Fits(r.page) => Len(out) <= MinFree)
        BY <3>2, <3>3
      <4> QED BY <4>1, LenProperties
    <3> DEFINE p == Len(out)
               t == sk.tx
    <3>5. /\ p \in Nat /\ t \in 0 .. TxRoom /\ TxRoom \in Nat /\ MinFree \in Nat
          /\ MinFree <= TxRoom - t /\ (Fits(r.page) => p <= MinFree)
      BY <2>1, <3>4
    <3> HIDE DEF p, t
    <3>6. Fits(r.page) => p <= TxRoom - t
      BY <3>5
    <3> QED BY <3>4, <3>6 DEF p, t
  <2>6. /\ Shaped(newSk, newCl) /\ newSk.st = sk.st /\ newSk.reset = sk.reset /\ newSk.rx = sk.rx
        /\ newCl.req = r
        /\ Fits(r.page) => newCl.got = cl.got \o out
    <3> HIDE DEF out, sk, cl, T
    <3> QED BY <1>2, <2>1, <2>5, PutShaped DEF T, r, live
  <2>7. rest \in Seq(T)
    <3>1. x.byteCount \in x.byteCount .. PlainEnd(r, x)
      <4> HIDE DEF r, x
      <4> QED BY <1>2, PlacedBounds
    <3> HIDE DEF r, x
    <3> QED BY <1>2, <3>1, ReadOn DEF T
  <2>8. GoesOn(r, newCl.got, rest)
    <3> DEFINE got == cl.got
    <3>1. got \in Seq(T) /\ out \in Seq(T) /\ rest \in Seq(T)
      BY <1>2, <2>5, <2>7 DEF Shaped
    <3>2. (got \o out) \o rest = got \o (out \o rest)
      <4> HIDE DEF got, out, rest, T
      <4> QED BY ONLY <3>1, ConcatAssociative, SMTT(20)
    <3>3. Fits(r.page) => newCl.got \o rest = Page(r)
      <4>1. Fits(r.page) => got \o (out \o rest) = Page(r)
        BY <1>3, <2>1 DEF GoesOn
      <4> HIDE DEF newCl, out, rest, r
      <4> QED BY <2>6, <3>2, <4>1
    <3> HIDE DEF newCl, rest, r
    <3> QED BY <3>3 DEF GoesOn
  <2>9. Told(newCl)
    <3>1. newCl.got \in Seq(Tokens(newCl.req)) /\ newCl.req = r
      BY <2>6 DEF Shaped
    <3>2. Refusals(r) = {}
      BY <1>3, <2>1
    <3> HIDE DEF newCl, rest, r
    <3> QED BY <2>7, <2>8, <3>1, <3>2, ToldSoFar DEF T
  <2>10. Heard(curHTTP', newSk, newCl, "SERVE_BODY")
    <3> HIDE DEF newCl, newSk, r, live
    <3> QED BY <1>1, <1>3, <2>1, <2>6, <2>8 DEF Heard
  <2>11. Served(curHTTP', newSk, newCl, "SERVE_BODY", file, index, TRUE)
    <3>1. Working(newCl.req, curHTTP', "SERVE_BODY", file, index)
      <4> HIDE DEF newCl, file, index
      <4> QED BY <1>1, <1>2, <1>4, <2>6 DEF Working
    <3>2. newSk.st \in {"open", "half"} /\ ~newSk.reset
      BY <1>2, <2>1, <2>6
    <3> HIDE DEF newSk, newCl, file, index
    <3> QED BY <2>6, <2>9, <2>10, <3>1, <3>2, OnWork
  <2>12. sock' = [sock EXCEPT ![c] = newSk] /\ client' = [client EXCEPT ![c] = newCl]
    <3> HIDE DEF out
    <3> QED BY <2>2 DEF TCPPut, AllServed, PutSock, PutClient
  <2>13. \A h \in Used \ Held(c) : mpfs'[h] = mpfs[h]
    BY <1>1
  <2> HIDE DEF newSk, newCl
  <2> QED BY <1>1, <2>2, <2>11, <2>12, <2>13, Goes
<1> QED BY <1>5, <1>6 DEF SendFromCallback

\* A connection whose answer is handed over, or that is given up.
LEMMA Ended ==
  ASSUME NEW x, NEW sk, NEW cl, NEW page, NEW index,
         Served(x, sk, cl, "DISCONNECT", page, index, TRUE), NEW y, NEW p, NEW q
  PROVE  Served(y, TCPDisconnect(sk), cl, "IDLE", p, q, FALSE)
<1> DEFINE new == TCPDisconnect(sk)
<1>1. Shaped(sk, cl) /\ Told(cl)
  BY DEF Served
<1>2. CASE sk.st \in {"open", "half"}
  <2>1. ~sk.reset /\ Heard(x, sk, cl, "DISCONNECT")
    BY <1>2 DEF Served
  <2>2. Fits(cl.req.page) => cl.got \in Answers(cl.req)
    BY <2>1 DEF Heard
  <2>3. Shaped(new, cl) /\ new.rx = <<>> /\ new.st = "closing" /\ ~new.reset
    BY <1>1, <1>2, <2>1, Disconnected
  <2> HIDE DEF new
  <2>4. Served(y, new, cl, "IDLE", p, q, FALSE)
    BY <1>1, <2>2, <2>3 DEF Served
  <2> QED BY <2>4 DEF new
<1>3. CASE sk.st \notin {"open", "half"}
  <2>1. Shaped(new, cl) /\ new = Listening
    BY <1>1, <1>3, Disconnected
  <2>2. new.st = "listen" /\ new.reset /\ new.rx = <<>> /\ new.tx = 0
    BY <2>1 DEF Listening
  <2> HIDE DEF new
  <2>3. Served(y, new, cl, "IDLE", p, q, FALSE)
    BY <1>1, <2>1, <2>2 DEF Served
  <2> QED BY <2>3 DEF new
<1> QED BY <1>2, <1>3

LEMMA DisconnectServed ==
  ASSUME IInv, AllServed, NEW c \in Conns, Disconnect(c)
  PROVE  AllServed'
<1> DEFINE new == TCPDisconnect(sock[c])
<1>1. active = c /\ sm[c] = "DISCONNECT" /\ Go(c, "IDLE", TRUE)
      /\ sock' = [sock EXCEPT ![c] = new] /\ client' = client
      /\ MPFSClose({curHTTP.file, curHTTP.offsets})
  BY DEF Disconnect, In
<1>2. client' = [client EXCEPT ![c] = client[c]]
  BY <1>1, Comes
<1>3. Served(curHTTP', new, client[c], "IDLE",
             Stub(mpfs', curHTTP'.file), Stub(mpfs', curHTTP'.offsets), FALSE)
  <2>1. Served(curHTTP, sock[c], client[c], "DISCONNECT",
               Stub(mpfs, curHTTP.file), Stub(mpfs, curHTTP.offsets), TRUE)
    BY <1>1, Comes
  <2> QED BY <2>1, Ended
<1>4. \A h \in Used \ Held(c) : mpfs'[h] = mpfs[h]
  <2>1. Context(c) = curHTTP /\ Used \subseteq Handles /\ 0 \notin Handles
    BY <1>1, Inside DEF Used, Handles
  <2> QED BY <1>1, <2>1 DEF MPFSClose, Held
<1> HIDE DEF new
<1> QED BY <1>1, <1>2, <1>3, <1>4, Goes
-----------------------------------------------------------------------------
(* HTTPServer's visits.                                                    *)

\* What a browser left behind is put away; the next one has not been heard.
LEMMA Cleared ==
  ASSUME NEW x, NEW sk, NEW cl, NEW st, NEW page, NEW index,
         Served(x, sk, cl, st, page, index, FALSE), sk.reset,
         NEW new, new = [sk EXCEPT !.reset = FALSE],
         NEW y, NEW p, NEW q, NEW busy, busy = (sk.rx # <<>>)
  PROVE  Served(y, new, cl, "IDLE", p, q, busy)
<1>1. /\ Shaped(sk, cl) /\ Told(cl)
      /\ sk.st \in {"listen", "cut", "closing"} => sk.rx = <<>>
      /\ sk.st = "listen" => sk.tx = 0
      /\ sk.st # "closing"
      /\ sk.st \in {"open", "half"} =>
           sk.tx = 0 /\ cl.got = <<>> /\ sk.rx \o cl.pending = Pieces(cl.req)
  BY DEF Served
<1>2. /\ Shaped(new, cl) /\ new.st = sk.st /\ ~new.reset /\ new.rx = sk.rx /\ new.tx = sk.tx
  <2>1. new = [st |-> sk.st, reset |-> FALSE, rx |-> sk.rx, tx |-> sk.tx]
    BY <1>1 DEF Shaped
  <2> QED BY <1>1, <2>1 DEF Shaped
<1>3. new.st \in {"open", "half"} => Heard(y, new, cl, "IDLE")
  BY <1>1, <1>2 DEF Heard
<1>4. Working(cl.req, y, "IDLE", p, q)
  BY DEF Working
<1>5. busy \in BOOLEAN /\ (busy => new.st \notin {"listen", "cut", "closing"})
  BY <1>1, <1>2
<1> QED BY <1>1, <1>2, <1>3, <1>4, <1>5 DEF Served

LEMMA PutAwayServed ==
  ASSUME IInv, AllServed, NEW c \in Conns, PutAway(c)
  PROVE  AllServed'
<1> DEFINE new == [sock[c] EXCEPT !.reset = FALSE]
           busy == sock[c].rx # <<>>
<1>1. /\ active = NoConn /\ sock[c].reset /\ HTTPLoadConn(c) /\ c # NoConn
      /\ sm' = [sm EXCEPT ![c] = "IDLE"] /\ sock' = [sock EXCEPT ![c] = new]
      /\ client' = client /\ MPFSClose({Context(c).file, Context(c).offsets})
      /\ active' = IF busy THEN c ELSE NoConn
  BY HttpAssumption DEF PutAway, AllServed
<1>2. \A d \in Conns \ {c} : Context(d)' = Context(d)
  <2>1. IsContext(Context(c)) /\ 0 \in 0 .. MaxHandles
    BY NoHandle DEF IInv, Typed, Context
  <2>2. Holds([Context(c) EXCEPT !.file = 0, !.offsets = 0], 0, 0)
    BY <2>1, ContextHandles
  <2>3. IsContext(curHTTP')
    BY <2>2 DEF PutAway, Holds
  <2> QED BY <1>1, <2>3, Loads
<1>3. /\ sock' = [d \in Conns |-> sock'[d]] /\ client' = [d \in Conns |-> client'[d]]
      /\ sock'[c] = new /\ sm'[c] = "IDLE"
      /\ \A d \in Conns \ {c} : sock'[d] = sock[d] /\ client'[d] = client[d] /\ sm'[d] = sm[d]
  BY <1>1 DEF AllServed, IInv, Typed
<1>4. \A h \in Used \ Held(c) : mpfs'[h] = mpfs[h]
  <2>1. Used \subseteq Handles /\ 0 \notin Handles
    BY DEF Used, Handles
  <2> QED BY <1>1, <2>1 DEF MPFSClose, Held
<1>5. \A d \in Conns \ {c} : ServedAt(d)'
  <2>1. active' \in {NoConn, c}
    BY <1>1
  <2> HIDE DEF new
  <2> QED BY <1>1, <1>2, <1>3, <1>4, <2>1, OthersServed
<1>6. ServedAt(c)'
  <2>1. Served(Context(c), sock[c], client[c], sm[c],
               Stub(mpfs, Context(c).file), Stub(mpfs, Context(c).offsets), FALSE)
    <3>1. (active = c) = FALSE
      BY <1>1
    <3> QED BY <3>1 DEF AllServed, ServedAt
  <2>2. Served(Context(c)', new, client[c], "IDLE",
               Stub(mpfs', Context(c)'.file), Stub(mpfs', Context(c)'.offsets), busy)
    <3>1. new = [sock[c] EXCEPT !.reset = FALSE] /\ busy = (sock[c].rx # <<>>) /\ sock[c].reset
      BY <1>1
    <3> DEFINE x == Context(c)
               y == Context(c)'
               sk == sock[c]
               page == Stub(mpfs, x.file)
               index == Stub(mpfs, x.offsets)
               p == Stub(mpfs', y.file)
               q == Stub(mpfs', y.offsets)
    <3>2. Served(x, sk, client[c], sm[c], page, index, FALSE) /\ sk.reset
          /\ new = [sk EXCEPT !.reset = FALSE] /\ busy = (sk.rx # <<>>)
      BY <2>1, <3>1
    <3> HIDE DEF new, busy, x, y, sk, page, index, p, q
    <3>3. Served(y, new, client[c], "IDLE", p, q, busy)
      BY ONLY <3>2, Cleared
    <3> QED BY <3>3 DEF y, p, q
  <2>3. (active' = c) = busy
    <3>1. busy \in BOOLEAN
      OBVIOUS
    <3> HIDE DEF busy
    <3> QED BY <1>1, <3>1
  <2> HIDE DEF new, busy
  <2>4. Served(Context(c)', sock'[c], client'[c], sm'[c],
               Stub(mpfs', Context(c)'.file), Stub(mpfs', Context(c)'.offsets), active' = c)
    BY <1>1, <1>3, <2>2, <2>3
  <2> QED BY <2>4 DEF ServedAt
<1> QED BY <1>3, <1>5, <1>6 DEF AllServed

\* A visit to a connection that has something to do.
LEMMA Visited ==
  ASSUME NEW x, NEW sk, NEW cl, NEW st, NEW page, NEW index,
         Served(x, sk, cl, st, page, index, FALSE), ~sk.reset, st # "IDLE" \/ sk.rx # <<>>
  PROVE  Served(x, sk, cl, st, page, index, TRUE)
<1>1. sk.st \notin {"listen", "closing"}
  BY DEF Served
<1> QED BY <1>1 DEF Served

LEMMA VisitServed ==
  ASSUME IInv, AllServed, NEW c \in Conns, Visit(c)
  PROVE  AllServed'
<1>1. /\ active = NoConn /\ ~sock[c].reset /\ HTTPLoadConn(c) /\ c # NoConn
      /\ sm[c] # "IDLE" \/ sock[c].rx # <<>>
      /\ sm' = sm /\ sock' = sock /\ client' = client /\ mpfs' = mpfs
      /\ active' = c /\ curHTTP' = Context(c)
  BY HttpAssumption DEF Visit
<1>2. Context(c)' = Context(c) /\ \A d \in Conns \ {c} : Context(d)' = Context(d)
  <2>1. IsContext(Context(c))
    BY DEF IInv, Typed, Context
  <2> QED BY <1>1, <2>1, Loads
<1>3. \A d \in Conns \ {c} : ServedAt(d)'
  <2>1. active' \in {NoConn, c}
    BY <1>1
  <2> QED BY <1>1, <1>2, <2>1, OthersServed
<1>4. ServedAt(c)'
  <2>1. Served(Context(c), sock[c], client[c], sm[c],
               Stub(mpfs, Context(c).file), Stub(mpfs, Context(c).offsets), FALSE)
    <3>1. (active = c) = FALSE
      BY <1>1
    <3> QED BY <3>1 DEF AllServed, ServedAt
  <2>2. Served(Context(c), sock[c], client[c], sm[c],
               Stub(mpfs, Context(c).file), Stub(mpfs, Context(c).offsets), TRUE)
    BY <1>1, <2>1, Visited
  <2>3. (active' = c) = TRUE
    BY <1>1
  <2>4. Served(Context(c)', sock'[c], client'[c], sm'[c],
               Stub(mpfs', Context(c)'.file), Stub(mpfs', Context(c)'.offsets), active' = c)
    BY <1>1, <1>2, <2>2, <2>3
  <2> QED BY <2>4 DEF ServedAt
<1> QED BY <1>1, <1>3, <1>4 DEF AllServed
-----------------------------------------------------------------------------
(* The browsers and the network.                                           *)

\* A step of the network, judged by what it makes of one connection.
LEMMA Moves ==
  ASSUME IInv, AllServed, NEW c \in Conns, active = NoConn, UNCHANGED memory, NEW sk, NEW cl,
         sock' = [sock EXCEPT ![c] = sk], client' = [client EXCEPT ![c] = cl],
         Served(Context(c), sk, cl, sm[c],
                Stub(mpfs, Context(c).file), Stub(mpfs, Context(c).offsets), FALSE)
  PROVE  AllServed'
<1>1. /\ active' = NoConn /\ sm' = sm /\ mpfs' = mpfs /\ c # NoConn
      /\ \A d \in Conns : Context(d)' = Context(d)
  BY HttpAssumption DEF memory, Context
<1>2. /\ sock' = [d \in Conns |-> sock'[d]] /\ client' = [d \in Conns |-> client'[d]]
      /\ sock'[c] = sk /\ client'[c] = cl
      /\ \A d \in Conns \ {c} : sock'[d] = sock[d] /\ client'[d] = client[d]
  BY DEF AllServed
<1>3. \A d \in Conns \ {c} : ServedAt(d)'
  BY <1>1, <1>2, OthersServed
<1>4. ServedAt(c)'
  <2>1. (active' = c) = FALSE
    BY <1>1
  <2>2. Served(Context(c)', sock'[c], client'[c], sm'[c],
               Stub(mpfs', Context(c)'.file), Stub(mpfs', Context(c)'.offsets), active' = c)
    BY <1>1, <1>2, <2>1
  <2> QED BY <2>2 DEF ServedAt
<1> QED BY <1>2, <1>3, <1>4 DEF AllServed

\* A connection that nobody is at work on.
LEMMA AtRest ==
  ASSUME AllServed, NEW c \in Conns, active = NoConn
  PROVE  /\ Served(Context(c), sock[c], client[c], sm[c],
                   Stub(mpfs, Context(c).file), Stub(mpfs, Context(c).offsets), FALSE)
         /\ sock = [d \in Conns |-> sock[d]] /\ client = [d \in Conns |-> client[d]]
<1>1. (active = c) = FALSE
  BY HttpAssumption
<1> QED BY <1>1 DEF AllServed, ServedAt

\* The beginning of a connection.
LEMMA Connects ==
  ASSUME NEW x, NEW sk, NEW cl, NEW st, NEW page, NEW index,
         Served(x, sk, cl, st, page, index, FALSE), sk.st = "listen", NEW r,
         NEW new, new = [sk EXCEPT !.st = "open"],
         NEW newCl, newCl = [req |-> r, pending |-> Pieces(r), got |-> <<>>]
  PROVE  Served(x, new, newCl, st, page, index, FALSE)
<1> DEFINE pieces == Pieces(r)
<1>1. Shaped(sk, cl) /\ sk.rx = <<>> /\ sk.tx = 0 /\ (sk.reset \/ st = "IDLE")
  BY DEF Served
<1>2. new = [st |-> "open", reset |-> sk.reset, rx |-> <<>>, tx |-> 0]
  BY <1>1 DEF Shaped
<1>3. newCl = [req |-> r, pending |-> pieces, got |-> <<>>]
  OBVIOUS
<1>4. pieces \in Seq(Bits(r)) /\ <<>> \o pieces = pieces
  <2>1. pieces \in Seq(Bits(r))
    BY PartsTyped
  <2> QED BY <2>1, ConcatEmptySeq
<1> HIDE DEF pieces
<1>5. newCl.req = r /\ newCl.pending = pieces /\ newCl.got = <<>>
  BY ONLY <1>3
<1>6. new.st = "open" /\ new.reset = sk.reset /\ new.rx = <<>> /\ new.tx = 0
  BY ONLY <1>2
<1>7. Shaped(new, newCl)
  <2>1. <<>> \in Seq(Bits(r)) /\ <<>> \in Seq(Tokens(r)) /\ sk.reset \in BOOLEAN /\ 0 \in 0 .. TxRoom
    BY <1>1, EmptySeq DEF Shaped
  <2> QED BY ONLY <1>2, <1>3, <1>4, <1>5, <1>6, <2>1 DEF Shaped
<1>8. Told(newCl)
  BY DEF Told
<1>9. new.rx \o newCl.pending = Pieces(newCl.req) /\ new.tx = 0 /\ newCl.got = <<>>
  <2>1. pieces = Pieces(newCl.req)
    BY ONLY <1>5 DEF pieces
  <2> QED BY ONLY <1>4, <1>5, <1>6, <2>1
<1>10. st = "IDLE" => Heard(x, new, newCl, st) /\ Working(newCl.req, x, st, page, index)
  BY <1>9 DEF Heard, Working
<1> QED BY <1>1, <1>6, <1>7, <1>8, <1>9, <1>10 DEF Served

\* A piece that comes leaves what is left the same.
LEMMA PieceComes ==
  ASSUME NEW B, NEW rx \in Seq(B), NEW pending \in Seq(B), pending # <<>>
  PROVE  /\ Append(rx, Head(pending)) \in Seq(B) /\ Tail(pending) \in Seq(B)
         /\ Append(rx, Head(pending)) \o Tail(pending) = rx \o pending
<1> DEFINE p == Head(pending)
           t == Tail(pending)
           a == Append(rx, p)
           u == a \o t
           v == rx \o pending
           n == Len(rx)
           m == Len(pending)
<1>1. /\ p \in B /\ t \in Seq(B) /\ Len(t) = m - 1 /\ p = pending[1]
      /\ \A i \in 1 .. Len(t) : t[i] = pending[i + 1]
      /\ n \in Nat /\ m \in Nat \ {0}
  BY HeadTailProperties, LenProperties, EmptySeq
<1> HIDE DEF p, t
<1>2. a \in Seq(B) /\ Len(a) = n + 1 /\ a[n + 1] = p /\ \A i \in 1 .. n : a[i] = rx[i]
  BY <1>1, AppendProperties
<1> HIDE DEF a
<1>3. /\ u \in Seq(B) /\ Len(u) = Len(a) + Len(t)
      /\ \A i \in 1 .. Len(a) + Len(t) : u[i] = IF i <= Len(a) THEN a[i] ELSE t[i - Len(a)]
  BY <1>1, <1>2, ConcatProperties
<1>4. /\ v \in Seq(B) /\ Len(v) = n + m
      /\ \A i \in 1 .. n + m : v[i] = IF i <= n THEN rx[i] ELSE pending[i - n]
  BY ConcatProperties
<1> HIDE DEF u, v, n, m
<1>5. Len(u) = Len(v)
  BY <1>1, <1>2, <1>3, <1>4
<1>6. ASSUME NEW i \in 1 .. Len(v) PROVE u[i] = v[i]
  <2>1. i \in 1 .. n + m /\ i \in 1 .. Len(a) + Len(t)
    BY <1>3, <1>4, <1>5
  <2>2. CASE i <= n
    <3>1. i \in 1 .. n /\ i <= Len(a)
      BY <1>1, <1>2, <2>1, <2>2
    <3> QED BY <1>2, <1>3, <1>4, <2>1, <2>2, <3>1
  <2>3. CASE i = n + 1
    <3>1. i <= Len(a) /\ ~ (i <= n) /\ i - n = 1
      BY <1>1, <1>2, <2>3
    <3> QED BY <1>1, <1>2, <1>3, <1>4, <2>1, <2>3, <3>1
  <2>4. CASE i > n + 1
    <3>1. ~ (i <= Len(a)) /\ ~ (i <= n) /\ i - Len(a) \in 1 .. Len(t) /\ i - Len(a) + 1 = i - n
      BY <1>1, <1>2, <2>1, <2>4
    <3> QED BY <1>1, <1>3, <1>4, <2>1, <3>1
  <2> QED BY <1>1, <2>1, <2>2, <2>3, <2>4
<1>7. u = v
  BY <1>3, <1>4, <1>5, <1>6, SeqEqual
<1> QED BY <1>1, <1>2, <1>7 DEF u, v, p, t, a

\* What is heard of is the same when a piece has come.
LEMMA Arrives ==
  ASSUME NEW x, NEW sk, NEW cl, NEW st, NEW page, NEW index,
         Served(x, sk, cl, st, page, index, FALSE), sk.st = "open", cl.pending # <<>>,
         NEW new, new = [sk EXCEPT !.rx = Append(@, Head(cl.pending))],
         NEW newCl, newCl = [cl EXCEPT !.pending = Tail(@)]
  PROVE  Served(x, new, newCl, st, page, index, FALSE)
<1> DEFINE rx == sk.rx
           pending == cl.pending
           B == Bits(cl.req)
<1>1. Shaped(sk, cl) /\ Told(cl) /\ rx \in Seq(B) /\ pending \in Seq(B) \ {<<>>}
  BY DEF Served, Shaped
<1>2. /\ new = [st |-> "open", reset |-> sk.reset, rx |-> Append(rx, Head(pending)), tx |-> sk.tx]
      /\ newCl = [req |-> cl.req, pending |-> Tail(pending), got |-> cl.got]
  BY <1>1 DEF Shaped
<1>3. /\ Append(rx, Head(pending)) \in Seq(B) /\ Tail(pending) \in Seq(B)
      /\ Append(rx, Head(pending)) \o Tail(pending) = rx \o pending
  <2> HIDE DEF rx, pending, B
  <2>1. rx \in Seq(B) /\ pending \in Seq(B) /\ pending # <<>>
    BY <1>1
  <2> QED BY ONLY <2>1, PieceComes
<1> DEFINE more == Append(rx, Head(pending))
           less == Tail(pending)
<1>4. /\ new = [st |-> "open", reset |-> sk.reset, rx |-> more, tx |-> sk.tx]
      /\ newCl = [req |-> cl.req, pending |-> less, got |-> cl.got]
      /\ more \in Seq(Bits(cl.req)) /\ less \in Seq(Bits(cl.req))
  BY <1>2, <1>3
<1> HIDE DEF rx, pending, more, less
<1>5. Shaped(new, newCl)
  <2>1. /\ sk.reset \in BOOLEAN /\ sk.tx \in 0 .. TxRoom /\ cl.got \in Seq(Tokens(cl.req))
    BY <1>1 DEF Shaped
  <2>2. /\ new.st = "open" /\ new.reset = sk.reset /\ new.rx = more /\ new.tx = sk.tx
        /\ newCl.req = cl.req /\ newCl.pending = less /\ newCl.got = cl.got
    BY ONLY <1>4
  <2> QED BY ONLY <1>4, <2>1, <2>2 DEF Shaped
<1>6. Told(newCl) /\ newCl.req = cl.req /\ newCl.got = cl.got
  <2>1. newCl.req = cl.req /\ newCl.got = cl.got
    BY <1>2
  <2> QED BY <1>1, <2>1, ToldStill
<1>7. /\ new.rx \o newCl.pending = sk.rx \o cl.pending
      /\ new.tx = sk.tx /\ new.st = "open" /\ new.reset = sk.reset
  BY <1>2, <1>3 DEF rx, pending
<1>8. Heard(x, sk, cl, st) => Heard(x, new, newCl, st)
  BY <1>6, <1>7 DEF Heard
<1> QED BY <1>5, <1>6, <1>7, <1>8 DEF Served

\* A browser reads what it has been sent.
LEMMA IsRead ==
  ASSUME NEW x, NEW sk, NEW cl, NEW st, NEW page, NEW index,
         Served(x, sk, cl, st, page, index, FALSE), sk.tx > 0,
         NEW new, new = [sk EXCEPT !.tx = @ - 1]
  PROVE  Served(x, new, cl, st, page, index, FALSE)
<1>1. Shaped(sk, cl) /\ Told(cl) /\ sk.tx # 0 /\ sk.tx - 1 \in 0 .. TxRoom
  <2>1. sk.tx \in 0 .. TxRoom /\ TxRoom \in Nat
    BY HttpAssumption DEF Served, Shaped
  <2>2. sk.tx # 0 /\ sk.tx - 1 \in 0 .. TxRoom
    BY <2>1
  <2> QED BY <2>2 DEF Served
<1>2. new = [st |-> sk.st, reset |-> sk.reset, rx |-> sk.rx, tx |-> sk.tx - 1]
  BY <1>1 DEF Shaped
<1>3. Shaped(new, cl)
  BY <1>1, <1>2 DEF Shaped
<1>4. new.st = sk.st /\ new.reset = sk.reset /\ new.rx = sk.rx
  BY <1>2
<1>5. sk.st # "listen" /\ (sk.reset => sk.st \notin {"open", "half"})
  BY <1>1 DEF Served
<1>6. Heard(x, sk, cl, st) => Heard(x, new, cl, st)
  BY <1>1, <1>4 DEF Heard
<1> QED BY <1>1, <1>3, <1>4, <1>5, <1>6 DEF Served

\* A browser closes its side.
LEMMA HalfCloses ==
  ASSUME NEW x, NEW sk, NEW cl, NEW st, NEW page, NEW index,
         Served(x, sk, cl, st, page, index, FALSE), sk.st = "open",
         NEW new, new = [sk EXCEPT !.st = "half"]
  PROVE  Served(x, new, cl, st, page, index, FALSE)
<1>1. Shaped(sk, cl) /\ Told(cl)
  BY DEF Served
<1>2. new = [st |-> "half", reset |-> sk.reset, rx |-> sk.rx, tx |-> sk.tx]
  BY <1>1 DEF Shaped
<1>3. Shaped(new, cl)
  BY <1>1, <1>2 DEF Shaped
<1>4. new.st = "half" /\ new.reset = sk.reset /\ new.rx = sk.rx /\ new.tx = sk.tx
  BY <1>2
<1>5. Heard(x, sk, cl, st) => Heard(x, new, cl, st)
  BY <1>4 DEF Heard
<1> QED BY <1>1, <1>3, <1>4, <1>5 DEF Served

\* TCP closes the other one.
LEMMA IsCut ==
  ASSUME NEW x, NEW sk, NEW cl, NEW st, NEW page, NEW index,
         Served(x, sk, cl, st, page, index, FALSE), sk.st = "half",
         NEW new, new = [sk EXCEPT !.st = "cut", !.rx = <<>>]
  PROVE  Served(x, new, cl, st, page, index, FALSE)
<1>1. Shaped(sk, cl) /\ Told(cl)
  BY DEF Served
<1>2. new = [st |-> "cut", reset |-> sk.reset, rx |-> <<>>, tx |-> sk.tx]
  BY <1>1 DEF Shaped
<1>3. Shaped(new, cl)
  <2>1. <<>> \in Seq(Bits(cl.req))
    BY EmptySeq
  <2> QED BY <1>1, <1>2, <2>1 DEF Shaped
<1>4. new.st = "cut" /\ new.reset = sk.reset /\ new.rx = <<>>
  BY <1>2
<1> QED BY <1>1, <1>3, <1>4 DEF Served

\* A connection that is over.
LEMMA IsOver ==
  ASSUME NEW x, NEW st, NEW page, NEW index
  PROVE  Served(x, Listening, NoClient, st, page, index, FALSE)
<1>1. Shaped(Listening, NoClient)
  <2>1. <<>> \in Seq(Bits(NoRequest)) /\ <<>> \in Seq(Tokens(NoRequest)) /\ 0 \in 0 .. TxRoom
    BY EmptySeq, HttpAssumption
  <2> QED BY <2>1 DEF Shaped, Listening, NoClient
<1>2. Told(NoClient)
  BY DEF Told, NoClient
<1>3. Listening.st = "listen" /\ Listening.reset /\ Listening.rx = <<>> /\ Listening.tx = 0
  BY DEF Listening
<1> QED BY <1>1, <1>2, <1>3 DEF Served

LEMMA NetworkServed ==
  ASSUME IInv, AllServed, NEW c \in Conns, Network(c)
  PROVE  AllServed'
<1> DEFINE x == Context(c)
           sk == sock[c]
           cl == client[c]
           st == sm[c]
           page == Stub(mpfs, x.file)
           index == Stub(mpfs, x.offsets)
<1>1. Quiet /\ active = NoConn /\ UNCHANGED memory
  BY DEF Network, Connect, Arrive, Read, HalfClose, CloseWaitTimer, Closed, Reset, Quiet
<1>2. /\ Served(x, sk, cl, st, page, index, FALSE)
      /\ sock = [d \in Conns |-> sock[d]] /\ client = [d \in Conns |-> client[d]]
  BY <1>1, AtRest
<1>3. client' = client => client' = [client EXCEPT ![c] = cl]
  BY <1>2
<1>4. ASSUME NEW new, NEW newCl, sock' = [sock EXCEPT ![c] = new],
             client' = [client EXCEPT ![c] = newCl], Served(x, new, newCl, st, page, index, FALSE)
      PROVE  AllServed'
  BY <1>1, <1>4, Moves
<1>5. CASE Connect(c)
  <2>1. PICK r : client' = [client EXCEPT ![c] = [req |-> r, pending |-> Pieces(r), got |-> <<>>]]
    BY <1>5 DEF Connect
  <2> DEFINE new == [sk EXCEPT !.st = "open"]
             newCl == [req |-> r, pending |-> Pieces(r), got |-> <<>>]
  <2>2. sock' = [sock EXCEPT ![c] = new] /\ sk.st = "listen"
    BY <1>2, <1>5 DEF Connect
  <2>3. new = [sk EXCEPT !.st = "open"] /\ newCl = [req |-> r, pending |-> Pieces(r), got |-> <<>>]
    OBVIOUS
  <2>4. client' = [client EXCEPT ![c] = newCl]
    BY <2>1
  <2> HIDE DEF new, newCl, x, sk, cl, st, page, index
  <2>5. Served(x, new, newCl, st, page, index, FALSE)
    BY <1>2, <2>2, <2>3, Connects
  <2> QED BY <1>4, <2>2, <2>4, <2>5
<1>6. CASE Arrive(c)
  <2> DEFINE new == [sk EXCEPT !.rx = Append(@, Head(cl.pending))]
             newCl == [cl EXCEPT !.pending = Tail(@)]
  <2>1. /\ sock' = [sock EXCEPT ![c] = new] /\ client' = [client EXCEPT ![c] = newCl]
        /\ sk.st = "open" /\ cl.pending # <<>>
    BY <1>2, <1>6 DEF Arrive
  <2>2. new = [sk EXCEPT !.rx = Append(@, Head(cl.pending))] /\ newCl = [cl EXCEPT !.pending = Tail(@)]
    OBVIOUS
  <2> HIDE DEF new, newCl, x, sk, cl, st, page, index
  <2>3. Served(x, new, newCl, st, page, index, FALSE)
    BY <1>2, <2>1, <2>2, Arrives
  <2> QED BY <1>4, <2>1, <2>3
<1>7. CASE Read(c)
  <2> DEFINE new == [sk EXCEPT !.tx = @ - 1]
  <2>1. sock' = [sock EXCEPT ![c] = new] /\ client' = [client EXCEPT ![c] = cl] /\ sk.tx > 0
    BY <1>2, <1>3, <1>7 DEF Read
  <2>2. new = [sk EXCEPT !.tx = @ - 1]
    OBVIOUS
  <2> HIDE DEF new, x, sk, cl, st, page, index
  <2>3. Served(x, new, cl, st, page, index, FALSE)
    BY <1>2, <2>1, <2>2, IsRead
  <2> QED BY <1>4, <2>1, <2>3
<1>8. CASE HalfClose(c)
  <2> DEFINE new == [sk EXCEPT !.st = "half"]
  <2>1. sock' = [sock EXCEPT ![c] = new] /\ client' = [client EXCEPT ![c] = cl] /\ sk.st = "open"
    BY <1>2, <1>3, <1>8 DEF HalfClose
  <2>2. new = [sk EXCEPT !.st = "half"]
    OBVIOUS
  <2> HIDE DEF new, x, sk, cl, st, page, index
  <2>3. Served(x, new, cl, st, page, index, FALSE)
    BY <1>2, <2>1, <2>2, HalfCloses
  <2> QED BY <1>4, <2>1, <2>3
<1>9. CASE CloseWaitTimer(c)
  <2> DEFINE new == [sk EXCEPT !.st = "cut", !.rx = <<>>]
  <2>1. sock' = [sock EXCEPT ![c] = new] /\ client' = [client EXCEPT ![c] = cl] /\ sk.st = "half"
    BY <1>2, <1>3, <1>9 DEF CloseWaitTimer
  <2>2. new = [sk EXCEPT !.st = "cut", !.rx = <<>>]
    OBVIOUS
  <2> HIDE DEF new, x, sk, cl, st, page, index
  <2>3. Served(x, new, cl, st, page, index, FALSE)
    BY <1>2, <2>1, <2>2, IsCut
  <2> QED BY <1>4, <2>1, <2>3
<1>10. CASE Closed(c) \/ Reset(c)
  <2>1. sock' = [sock EXCEPT ![c] = Listening] /\ client' = [client EXCEPT ![c] = NoClient]
    BY <1>10 DEF Closed, Reset
  <2>2. Served(x, Listening, NoClient, st, page, index, FALSE)
    BY IsOver
  <2> QED BY <1>4, <2>1, <2>2
<1> QED BY <1>5, <1>6, <1>7, <1>8, <1>9, <1>10 DEF Network
-----------------------------------------------------------------------------
(* The invariant of the specification.                                     *)

LEMMA InitServed ==
  ASSUME Init
  PROVE  AllServed
<1>1. sock = [c \in Conns |-> sock[c]] /\ client = [c \in Conns |-> client[c]]
  BY DEF Init
<1>2. ASSUME NEW c \in Conns PROVE ServedAt(c)
  <2>1. /\ sock[c] = Listening /\ client[c] = NoClient /\ (active = c) = FALSE
    BY HttpAssumption DEF Init
  <2>2. Served(Context(c), Listening, NoClient, sm[c],
               Stub(mpfs, Context(c).file), Stub(mpfs, Context(c).offsets), FALSE)
    BY IsOver
  <2> QED BY <2>1, <2>2 DEF ServedAt
<1> QED BY <1>1, <1>2 DEF AllServed

\* Nothing that it speaks of changes.
LEMMA ServedStill ==
  ASSUME AllServed, UNCHANGED <<memory, sock, client>>
  PROVE  AllServed'
<1>1. ASSUME NEW c \in Conns PROVE ServedAt(c)'
  <2>1. ServedAt(c)
    BY DEF AllServed
  <2> QED BY <2>1 DEF ServedAt, memory, Context
<1> QED BY <1>1 DEF AllServed

LEMMA ServedStep ==
  ASSUME IInv, AllServed, [Next]_vars
  PROVE  AllServed'
<1>1. CASE UNCHANGED vars
  BY <1>1, ServedStill DEF vars, memory
<1>2. ASSUME NEW c \in Conns, HTTPProcess(c) PROVE AllServed'
  BY <1>2, BeginServed, AwaitServed, ParseRequestServed, ParseHeadersServed, AuthenticateServed,
     ProcessPostServed, ProcessRequestServed, ServeHeadersServed, ServeBodyServed,
     SendFromCallbackServed, DisconnectServed DEF HTTPProcess
<1>3. ASSUME NEW c \in Conns, Deadline(c) PROVE AllServed'
  BY <1>3, ServedStill DEF Deadline
<1> QED BY <1>1, <1>2, <1>3, PutAwayServed, VisitServed, NetworkServed DEF Next

\* What a browser has been sent is the beginning of an answer to its own request.
LEMMA ServedRight == AllServed => RightAnswer
<1> SUFFICES ASSUME AllServed, NEW c \in Conns, client[c].got # <<>>, Fits(client[c].req.page)
             PROVE  \E a \in Answers(client[c].req) : IsPrefix(client[c].got, a)
  BY DEF RightAnswer
<1>1. Told(client[c])
  BY DEF AllServed, ServedAt, Served
<1> QED BY <1>1 DEF Told

\* A connection that the server has closed has the whole answer.
LEMMA ServedInFull == AllServed => AnsweredInFull
<1> SUFFICES ASSUME AllServed, NEW c \in Conns, sock[c].st = "closing", active # c,
                    Fits(client[c].req.page)
             PROVE  client[c].got \in Answers(client[c].req)
  BY DEF AnsweredInFull
<1>1. (active = c) = FALSE
  OBVIOUS
<1>2. Served(Context(c), sock[c], client[c], sm[c],
             Stub(mpfs, Context(c).file), Stub(mpfs, Context(c).offsets), FALSE)
  BY <1>1 DEF AllServed, ServedAt
<1> QED BY <1>2 DEF Served

LEMMA ServedAlways == SafeSpec => [](IInv /\ AllServed)
<1>1. Init => IInv /\ AllServed
  BY InitOk, InitServed
<1>2. IInv /\ AllServed /\ [Next]_vars => (IInv /\ AllServed)'
  BY Step, ServedStep
<1> QED BY <1>1, <1>2, PTL DEF SafeSpec

\* What a browser receives is the beginning of the answer to its own request,
\* whoever was on the socket before it and whatever the others are sent.
THEOREM AnswersAreRight == SafeSpec => []RightAnswer
<1>1. IInv /\ AllServed => RightAnswer
  BY ServedRight
<1> QED BY <1>1, ServedAlways, PTL

\* A connection that the server ends with a FIN has been given its whole answer.
THEOREM AnswersAreWhole == SafeSpec => []AnsweredInFull
<1>1. IInv /\ AllServed => AnsweredInFull
  BY ServedInFull
<1> QED BY <1>1, ServedAlways, PTL
=============================================================================
