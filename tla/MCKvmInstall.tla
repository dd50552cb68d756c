---------------------------- MODULE MCKvmInstall ----------------------------
(* Small instances of KvmInstall; the bounds are in the .cfg files.  No     *)
(* instance differs from another.                                           *)
EXTENDS KvmInstall, TLC

Symmetry == Permutations(Instances)
=============================================================================
