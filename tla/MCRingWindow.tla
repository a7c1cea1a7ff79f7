---------------------------- MODULE MCRingWindow ----------------------------
(* A window of four slots (even, so that ties less == more happen), the   *)
(* threshold 2 and latencies 0 (unset), 1, 2 (at the threshold) and 3.    *)
EXTENDS RingWindow

MCCapacity == 4
MCThreshold == 2
MCSamples == {0, 1, 2, 3}
MCMaxOverTimes == 3
=============================================================================
