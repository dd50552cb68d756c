--------------------------- MODULE MCCpuidReentry ---------------------------
(* Small instances of CpuidReentry; the bounds are in the .cfg files.       *)
EXTENDS CpuidReentry
=============================================================================
