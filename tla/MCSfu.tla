-------------------------------- MODULE MCSfu --------------------------------
EXTENDS Sfu, TLC

CONSTANT a1

MCTask == {"whip", "whep"} \X {0, 1}
MCAddr == {a1}
MCUfrag == 1..MaxRequests
MCRoom == 1..2
=============================================================================
