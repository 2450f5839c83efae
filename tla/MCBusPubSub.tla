----------------------------- MODULE MCBusPubSub -----------------------------
EXTENDS BusPubSub, TLC

CONSTANTS w1, w2, o1, o2, c1

MCWorkerId == {w1, w2}
MCOwner == {o1, o2}
MCTasks == w1 :> {o1, o2} @@ w2 :> {}
MCChannel == {c1}
MCStackSize == 1
=============================================================================
