---------------------------- MODULE MCUdpListener ----------------------------
(* A small instance of UdpListener: its configuration is all there is.     *)
EXTENDS UdpListener
=============================================================================
