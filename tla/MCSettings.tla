----------------------------- MODULE MCSettings -----------------------------
(***************************************************************************)
(* Instance of Settings for TLC.  Two connections let one handler run      *)
(* between the two halves of a restore on the other; the loss of power can *)
(* fall into any save, that of the defaults at start-up included, and what *)
(* it leaves behind is started from, edited and restored.  The theorems of *)
(* FlashProofs hold for any number of losses.                              *)
(***************************************************************************)
EXTENDS Settings

CONSTANTS c1, c2, p1, a1, l1, dflt, rom, zero, erased, garbage, absent, invalid, none

MCConns == {c1, c2}
MCPasswords == {dflt, p1}
MCAddresses == {a1}
MCLeases == {l1}
MCMaxToken == 1
MCMaxCuts == 1
=============================================================================
