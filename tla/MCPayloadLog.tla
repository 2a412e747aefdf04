---------------------------- MODULE MCPayloadLog ----------------------------
(* Instantiates PayloadLog for TLC: two handler threads and a queue of two *)
(* slots, so that three calls per thread overflow it.                      *)
EXTENDS PayloadLog, TLC

CONSTANTS t1, t2

MCThreads == {t1, t2}
ThreadSymmetry == Permutations(MCThreads)
=============================================================================
