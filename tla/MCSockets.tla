----------------------------- MODULE MCSockets -----------------------------
EXTENDS Sockets, TLC

MCKinds == {"udp", "tun", "mute"}
MCBackends == BOOLEAN
=============================================================================
