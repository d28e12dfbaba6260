------------------------- MODULE MCSignalPartition -------------------------
(* Small instances of SignalPartition.  No definition tells two rows that  *)
(* decode apart.                                                           *)
EXTENDS SignalPartition, TLC

Symmetry == Permutations(Row \ Opaque)
=============================================================================
