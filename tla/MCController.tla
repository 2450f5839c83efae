---------------------------- MODULE MCController ----------------------------
EXTENDS Controller, TLC

MCOwnTasks == [w \in 1..MaxWorkers |-> IF w = 1 THEN {0, 1} ELSE {0}]
=============================================================================
