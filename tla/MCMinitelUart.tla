--------------------------- MODULE MCMinitelUart ---------------------------
(***************************************************************************)
(* Instance of MinitelUart for TLC.  A ring of four slots holds three      *)
(* unread characters; six arrivals fill it, overflow it and still leave    *)
(* characters to store behind a race.  Two characters in the hardware FIFO *)
(* let the handler's loop run more than once and the FIFO overflow too.    *)
(***************************************************************************)
EXTENDS MinitelUart

MCRingSize == 4
MCFifoDepth == 2
MCMaxRx == 6
=============================================================================
