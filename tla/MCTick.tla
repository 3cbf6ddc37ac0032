------------------------------- MODULE MCTick -------------------------------
(***************************************************************************)
(* Instance of Tick for TLC.  The timer comes round every three ticks and  *)
(* the handler's count every four rounds; fifteen ticks take both through  *)
(* zero, and let a call meet more than one round.                          *)
(***************************************************************************)
EXTENDS Tick

MCLowRange == 3
MCHighRange == 4
MCMaxNow == 15
=============================================================================
