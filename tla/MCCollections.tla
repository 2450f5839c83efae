---------------------------- MODULE MCCollections ----------------------------
(***************************************************************************)
(* The three containers of the crate, each on its own: a behaviour uses    *)
(* one of them.                                                            *)
(***************************************************************************)
EXTENDS DynamicDeque, DynamicVec, Buffer, TLC

CONSTANTS v1, v2

MCValue == {v1, v2}

VARIABLE using

AllInit ==
  /\ using \in {"deque", "vec", "buffer"}
  /\ Init /\ VecInit /\ BufferInit
  /\ using # "buffer" => buffer = New(0, 0)

AllNext ==
  \/ using = "deque" /\ Next /\ UNCHANGED <<vecVars, bufferVars, using>>
  \/ using = "vec" /\ VecNext /\ UNCHANGED <<vars, bufferVars, using>>
  \/ using = "buffer" /\ BufferNext /\ UNCHANGED <<vars, vecVars, using>>

AllVars == <<vars, vecVars, bufferVars, using>>

AllSpec == AllInit /\ [][AllNext]_AllVars
=============================================================================
