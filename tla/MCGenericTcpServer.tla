------------------------- MODULE MCGenericTcpServer -------------------------
(***************************************************************************)
(* GenericTcpServer for TLC, and what the main loop does once the remote   *)
(* node has vanished.  TLC evaluates ENABLED of a pass too slowly, so the  *)
(* fairness is stated of two variables that record the passes: a turn for  *)
(* each, and the timer that was due in it.                                  *)
(***************************************************************************)
EXTENDS GenericTcpServer

VARIABLES
  turn,      \* changes with every pass
  ran        \* the timer that was due in the last pass

MCvars == <<allVars, turn, ran>>

MCInit == Init /\ turn = 0 /\ ran = "none"

Records(timer) ==
  IF gone THEN turn' = 1 - turn /\ ran' = timer ELSE UNCHANGED <<turn, ran>>

MCNext ==
  \/ PassWith({}) /\ Records("none")
  \/ \E timer \in Timers : TimerPass(timer) /\ Records(timer)
  \/ Remote /\ UNCHANGED <<server, turn, ran>>

\* The main loop goes on, and a timer that goes on running is due some time.
Fairness ==
  /\ WF_turn(gone /\ turn' = 1 - turn)
  /\ \A timer \in Timers : <>[]gone => ([]<>(timer \notin Running(s)) \/ []<>(ran = timer))

MCSafeSpec == MCInit /\ [][MCNext]_MCvars

MCSpec == MCSafeSpec /\ Fairness

\* Once the remote node has vanished, the socket listens again and again: the
\* retries, the keep-alives and the SYN queue all come to an end, except where
\* the socket hangs.
Released == <>[]gone => ([]<>(s.sm = "LISTEN") \/ <>[]Hung)
=============================================================================
