--------------------------- MODULE MCVcpuPinning ---------------------------
(* A small host: four logical CPUs. *)
EXTENDS VcpuPinning

MCCpus == 0..3
=============================================================================
