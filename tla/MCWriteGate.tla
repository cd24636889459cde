---------------------------- MODULE MCWriteGate ----------------------------
(***************************************************************************)
(* The write tier on a handful of concurrent calls.  Calls that run the    *)
(* same tool are interchangeable.                                          *)
(***************************************************************************)
EXTENDS WriteGate, TLC

CallSymmetry == Permutations(SequenceCalls) \cup Permutations(Calls \ SequenceCalls)
=============================================================================
