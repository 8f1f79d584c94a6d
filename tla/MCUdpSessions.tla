--------------------------- MODULE MCUdpSessions ---------------------------
EXTENDS UdpSessions
=============================================================================
