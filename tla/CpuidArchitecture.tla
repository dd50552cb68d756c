-------------------------- MODULE CpuidArchitecture --------------------------
(***************************************************************************)
(* What a guest is promised of the CPUID instruction: wherever KVM answers *)
(* it, the answer is the one that the configured entries and the state of  *)
(* the virtual CPU at that moment determine.                               *)
(***************************************************************************)
EXTENDS CpuidModel

CONSTANT Probes   \* functions that KVM may answer as it answers subleaf 0

VARIABLES model, cpu, out

vars == <<model, cpu, out>>

NoAnswer == [function |-> 0, index |-> 0, value |-> <<>>]

\* The answers that KVM may give to function f, subleaf i.
Allowed(f, i) ==
  Promised(model, cpu, f, i)
    \cup (IF f \in Probes THEN Promised(model, cpu, f, 0) ELSE {})

Init ==
  /\ model \in Models
  /\ cpu \in CpuState
  /\ out = NoAnswer

Cpuid ==
  /\ \E f \in Functions, i \in Indexes : \E v \in Allowed(f, i) :
       out' = [function |-> f, index |-> i, value |-> v]
  /\ UNCHANGED <<model, cpu>>

Change ==
  /\ model' \in Models /\ cpu' \in CpuState
  /\ out' = NoAnswer

Next == Cpuid \/ Change

Spec == Init /\ [][Next]_vars
=============================================================================
