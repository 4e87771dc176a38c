--------------------------- MODULE MCDiskStorage ---------------------------
(* Instances of DiskStorage for TLC: pages of 2 units and a buffer of 3,   *)
(* which is rounded up to 4, with every size from nothing to past two      *)
(* buffers.                                                                *)
EXTENDS DiskStorage, TLC

MCSizes == 0..9
FileSymmetry == Permutations(Files)
=============================================================================
