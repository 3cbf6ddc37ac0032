---------------------------- MODULE MCUdpClients ----------------------------
(* The first name server is in the subnet, the second behind the gateway.  *)
EXTENDS UdpClients

MCNameServers == <<"dns1", "dns2">>
=============================================================================
