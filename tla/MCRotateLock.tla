---------------------------- MODULE MCRotateLock ----------------------------
(***************************************************************************)
(* rotate.lock for TLC: two threads with a worker each, one worker by hand.*)
(***************************************************************************)
EXTENDS RotateLock, TLC

CONSTANTS t1, t2, w1, w2, hand

MCThreads == {t1, t2}
MCWorkers == {w1, w2, hand}
MCChildOf == t1 :> w1 @@ t2 :> w2
=============================================================================
