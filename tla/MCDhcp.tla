------------------------------- MODULE MCDhcp -------------------------------
(***************************************************************************)
(* An instance of Dhcp for TLC, with two servers.  Answers may outlive the *)
(* timeout, so that one to an old request meets a new one, and the part of *)
(* the lease that is kept back covers three tries to renew.                *)
(***************************************************************************)
EXTENDS Dhcp

CONSTANTS s1, s2, none, fallback

MCServers == {s1, s2}
MCSlice == 2
MCLease == 20
MCDefaultLease == 3
MCTimeout == 2
MCMaxDelay == 3
MCMaxNet == 3
=============================================================================
