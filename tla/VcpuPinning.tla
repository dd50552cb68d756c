---------------------------- MODULE VcpuPinning ----------------------------
(***************************************************************************)
(* How 04 binds virtual to logical CPUs in the domain XML: it keeps a      *)
(* binding it considers valid, makes one otherwise, and writes the result  *)
(* over the <vcpupin> and <emulatorpin> elements it read.  The logical     *)
(* CPUs it may use are those of its own affinity mask, which may differ    *)
(* from run to run; the owner may edit the elements in between.            *)
(***************************************************************************)
EXTENDS Naturals, FiniteSets

CONSTANTS Vcpus,   \* number of virtual CPUs of the domain
          Cpus     \* logical CPUs of the host

ASSUME VcpusAssumption == Vcpus \in Nat \ {0}
ASSUME CpusAssumption == Cpus \subseteq Nat /\ IsFiniteSet(Cpus)

Vcpu == 0..(Vcpus - 1)
NoPin == {}        \* an element that is not there

VARIABLES
  pins,       \* <vcpupin>: for each virtual CPU, a set of Cpus
  emulator,   \* <emulatorpin>, a set of Cpus
  available   \* available_host_cpus(), a set of Cpus

vars == <<pins, emulator, available>>

Init ==
  /\ pins = [v \in Vcpu |-> NoPin]
  /\ emulator = NoPin
  /\ available = Cpus

-----------------------------------------------------------------------------

\* The n-th of S in ascending order, from 0.
Nth(S, n) == CHOOSE c \in S : Cardinality({d \in S : d < c}) = n

\* fit_vcpu_count: one CPU stays free for the emulator.
Fits == Vcpus < Cardinality(available)

\* parse_cpu_set accepts a set of available CPUs.
Parses(S) == S # {} /\ S \subseteq available

\* Every virtual CPU has one CPU of its own.
Bound ==
  /\ \A v \in Vcpu : Parses(pins[v]) /\ Cardinality(pins[v]) = 1
  /\ \A v, w \in Vcpu : pins[v] = pins[w] => v = w

\* configured_cpu_bindings: the CPUs for the virtual CPUs ...
Selected ==
  IF Bound THEN UNION {pins[v] : v \in Vcpu}
  ELSE {Nth(available, n) : n \in Vcpu}

\* Mutant: a binding of the emulator that overlaps is kept.
EmulatorAsItIs == IF Parses(emulator) THEN emulator ELSE available \ Selected

\* Mutant: the emulator always gets what is left.
EmulatorAlwaysNew == available \ Selected

\* ... and those for the emulator.
EmulatorCpus ==
  IF Parses(emulator) /\ emulator \cap Selected = {} THEN emulator
  ELSE available \ Selected

\* Mutant: logical CPUs are numbered from 1.
ApplyFromOne ==
  /\ Fits
  /\ EmulatorCpus # {}
  /\ pins' = [v \in Vcpu |-> {Nth(Selected, v) + 1}]
  /\ emulator' = EmulatorCpus
  /\ UNCHANGED available

\* set_vcpu_pinning numbers the selected CPUs in ascending order.
ApplyPinning ==
  /\ Fits
  /\ EmulatorCpus # {}
  /\ pins' = [v \in Vcpu |-> {Nth(Selected, v)}]
  /\ emulator' = EmulatorCpus
  /\ UNCHANGED available

-----------------------------------------------------------------------------

\* virsh vcpupin, virsh emulatorpin or virsh edit.
EditPin(v, S) == pins' = [pins EXCEPT ![v] = S] /\ UNCHANGED <<emulator, available>>

EditEmulator(S) == emulator' = S /\ UNCHANGED <<pins, available>>

\* 04 is started with another affinity mask, or CPUs go offline.
SetAffinity(S) == available' = S /\ UNCHANGED <<pins, emulator>>

Next ==
  \/ ApplyPinning
  \/ \E v \in Vcpu, S \in SUBSET Cpus : EditPin(v, S)
  \/ \E S \in SUBSET Cpus : EditEmulator(S)
  \/ \E S \in SUBSET Cpus \ {{}} : SetAffinity(S)

Spec == Init /\ [][Next]_vars

-----------------------------------------------------------------------------

(* What 04 writes is a binding: every virtual CPU has an available CPU of
   its own, and the emulator has available CPUs that no virtual CPU has.    *)
PinningIsExclusive ==
  [][ApplyPinning =>
       /\ Bound'
       /\ Parses(emulator')
       /\ emulator' \cap UNION {pins'[v] : v \in Vcpu} = {}]_vars

(* Applying again changes nothing: the CPUs chosen from what 04 wrote are
   the ones it chose when it wrote it.                                      *)
ApplyIsStable ==
  [][ApplyPinning => Selected' = Selected /\ EmulatorCpus' = EmulatorCpus]_vars

(* A valid binding keeps its CPUs, and an emulator that is bound apart from
   them keeps its own.                                                      *)
BoundCpusKept ==
  [][ApplyPinning /\ Bound =>
       /\ UNION {pins'[v] : v \in Vcpu} = UNION {pins[v] : v \in Vcpu}
       /\ Parses(emulator) /\ (\A v \in Vcpu : pins[v] \cap emulator = {})
            => emulator' = emulator]_vars
=============================================================================
