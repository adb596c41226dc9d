---------------------------- MODULE MCApplyBench ----------------------------
(***************************************************************************)
(* Small instances of ApplyBench: p1 runs most of the threads, p2 is a     *)
(* second copy of fpstune.                                                 *)
(***************************************************************************)
EXTENDS ApplyBench

CONSTANTS p1, p2,
          InP2          \* the threads of the second copy

MCHome == [t \in Threads |-> IF t \in InP2 THEN p2 ELSE p1]
=============================================================================
