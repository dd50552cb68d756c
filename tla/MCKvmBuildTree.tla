--------------------------- MODULE MCKvmBuildTree ---------------------------
(* Small instances of KvmBuildTree; the other bounds are in the .cfg files. *)
EXTENDS KvmBuildTree

\* The last kernel is compiled with the other toolchain.
MCToolchain == [k \in Kernel |-> IF k < MaxKernel THEN 1 ELSE 2]

\* A later patch contains the earlier ones.
MCReverses == {pq \in Patch \X Patch : pq[1] <= pq[2]}
=============================================================================
