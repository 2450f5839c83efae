------------------------------ MODULE MCBusLeg ------------------------------
EXTENDS BusLeg, TLC

CONSTANTS p1, p2

MCPeer == {p1, p2}
MCStackSize == 1
MCMaxSend == 2
=============================================================================
