------------------------- MODULE VcpuPinning_proofs -------------------------
(***************************************************************************)
(* Proofs about VcpuPinning, for every number of virtual CPUs, every set   *)
(* of logical CPUs, every affinity mask and whatever the owner writes into *)
(* the elements.  The code sorts the CPUs it selected; that their numbers  *)
(* in that order are all there and all different is counting.              *)
(***************************************************************************)
EXTENDS VcpuPinning, FiniteSetTheorems, TLAPS

\* The CPUs of S that come before c in ascending order.
Before(S, c) == {d \in S : d < c}

\* A set of CPUs is finite, and so is what comes before one of them.
LEMMA BeforeFinite ==
  ASSUME NEW S \in SUBSET Nat, IsFiniteSet(S), NEW c
  PROVE  IsFiniteSet(Before(S, c)) /\ Cardinality(Before(S, c)) \in Nat
<1>1. Before(S, c) \in SUBSET S
  BY DEF Before
<1>2. QED
  BY <1>1, FS_Subset, FS_CardinalityType

\* A CPU of S has fewer CPUs before it than S has.
LEMMA RankInRange ==
  ASSUME NEW S \in SUBSET Nat, IsFiniteSet(S), NEW c \in S
  PROVE  Cardinality(Before(S, c)) \in 0..(Cardinality(S) - 1)
<1>1. Before(S, c) \in SUBSET (S \ {c})
  BY DEF Before
<1>2. IsFiniteSet(S \ {c}) /\ Cardinality(S \ {c}) = Cardinality(S) - 1
  BY FS_RemoveElement
<1>3. Cardinality(Before(S, c)) <= Cardinality(S) - 1
  BY <1>1, <1>2, FS_Subset
<1>4. QED
  BY <1>3, BeforeFinite, FS_CardinalityType

\* A larger CPU has more before it.
LEMMA RankIncreases ==
  ASSUME NEW S \in SUBSET Nat, IsFiniteSet(S), NEW c \in S, NEW d \in S, c < d
  PROVE  Cardinality(Before(S, c)) < Cardinality(Before(S, d))
<1>1. c \notin Before(S, c)
  BY DEF Before
<1>2. Cardinality(Before(S, c) \cup {c}) = Cardinality(Before(S, c)) + 1
  BY <1>1, BeforeFinite, FS_AddElement
<1>3. Before(S, c) \cup {c} \in SUBSET Before(S, d)
  <2>1. ASSUME NEW e \in Before(S, c) PROVE e \in Before(S, d)
    <3>1. e \in Nat /\ c \in Nat /\ d \in Nat /\ e < c
      BY DEF Before
    <3>2. e < d
      BY <3>1
    <3>3. QED
      BY <3>2 DEF Before
  <2>2. c \in Before(S, d)
    BY DEF Before
  <2>3. QED
    BY <2>1, <2>2
<1>4. Cardinality(Before(S, c) \cup {c}) <= Cardinality(Before(S, d))
  BY <1>3, BeforeFinite, FS_Subset
<1>5. QED
  BY <1>2, <1>4, BeforeFinite

\* As many ranks as CPUs, and no two CPUs with the same: every number below
\* the size of S is the rank of one of them, which Nth finds.
LEMMA NthRank ==
  ASSUME NEW S \in SUBSET Nat, IsFiniteSet(S), NEW n \in 0..(Cardinality(S) - 1)
  PROVE  Nth(S, n) \in S /\ Cardinality(Before(S, Nth(S, n))) = n
<1> DEFINE Ranks == 0..(Cardinality(S) - 1)
           r == [c \in S |-> Cardinality(Before(S, c))]
<1>1. Cardinality(S) \in Nat
  BY FS_CardinalityType
<1>2. IsFiniteSet(Ranks) /\ Cardinality(Ranks) = Cardinality(S)
  BY <1>1, FS_Interval
<1>3. r \in [S -> Ranks]
  BY RankInRange
<1>4. ASSUME NEW c \in S, NEW d \in S, r[c] = r[d]
      PROVE  c = d
  <2>1. ~(c < d) /\ ~(d < c)
    BY <1>4, RankIncreases, BeforeFinite
  <2>2. QED
    BY <2>1
<1>5. r \in Injection(S, Ranks)
  BY <1>3, <1>4 DEF Injection, IsInjective
<1>6. r \in Surjection(S, Ranks)
  BY <1>2, <1>5, FS_Injection
<1>7. \E c \in S : Cardinality(Before(S, c)) = n
  BY <1>6 DEF Surjection
<1>8. QED
  BY <1>7 DEF Nth, Before

\* ... and every CPU of S has its number.
LEMMA NthOnto ==
  ASSUME NEW S \in SUBSET Nat, IsFiniteSet(S), NEW c \in S
  PROVE  c = Nth(S, Cardinality(Before(S, c)))
<1> DEFINE n == Cardinality(Before(S, c))
           d == Nth(S, n)
<1>1. n \in 0..(Cardinality(S) - 1)
  BY RankInRange
<1>2. d \in S /\ Cardinality(Before(S, d)) = n
  BY <1>1, NthRank
<1> HIDE DEF d
<1>3. ~(c < d) /\ ~(d < c)
  BY <1>2, RankIncreases, BeforeFinite
<1>4. c = d
  BY <1>2, <1>3
<1>5. QED
  BY <1>4 DEF d

\* The numbers of the virtual CPUs are those below their number.
LEMMA VcpuCount == IsFiniteSet(Vcpu) /\ Cardinality(Vcpu) = Vcpus
BY VcpusAssumption, FS_Interval DEF Vcpu

\* The first CPUs of S, one for each virtual CPU: as many, and all of S when
\* S has no more.
LEMMA FirstOfAll ==
  ASSUME NEW S \in SUBSET Nat, IsFiniteSet(S), Vcpus <= Cardinality(S)
  PROVE  LET T == {Nth(S, n) : n \in Vcpu}
         IN /\ T \subseteq S /\ IsFiniteSet(T) /\ Cardinality(T) = Vcpus
            /\ Cardinality(S) = Vcpus => T = S
<1> DEFINE T == {Nth(S, n) : n \in Vcpu}
           f == [n \in Vcpu |-> Nth(S, n)]
<1>1. Cardinality(S) \in Nat
  BY FS_CardinalityType
<1>2. ASSUME NEW n \in Vcpu
      PROVE  Nth(S, n) \in S /\ Cardinality(Before(S, Nth(S, n))) = n
  BY <1>1, NthRank, VcpusAssumption DEF Vcpu
<1>3. f \in Bijection(Vcpu, T)
  <2>1. \A n, m \in Vcpu : f[n] = f[m] => n = m
    BY <1>2
  <2>2. QED
    BY <2>1 DEF Bijection, Injection, Surjection, IsInjective
<1>4. IsFiniteSet(T) /\ Cardinality(T) = Vcpus
  BY <1>3, VcpuCount, FS_Bijection DEF ExistsBijection
<1>5. T \subseteq S
  BY <1>2
<1>6. Cardinality(S) = Vcpus => T = S
  BY <1>4, <1>5, FS_Subset
<1>7. QED
  BY <1>4, <1>5, <1>6
-----------------------------------------------------------------------------

\* The affinity mask is of CPUs of the host.
Known == available \in SUBSET Cpus

\* The mask is a finite set of numbers.
LEMMA KnownFinite ==
  Known => available \in SUBSET Nat /\ IsFiniteSet(available)
BY CpusAssumption, FS_Subset DEF Known

\* A binding has as many CPUs as there are virtual CPUs.
LEMMA BoundCount ==
  ASSUME Known, Bound
  PROVE  LET T == UNION {pins[v] : v \in Vcpu}
         IN T \subseteq available /\ IsFiniteSet(T) /\ Cardinality(T) = Vcpus
<1> DEFINE T == UNION {pins[v] : v \in Vcpu}
           f == [v \in Vcpu |-> CHOOSE c : pins[v] = {c}]
<1>1. T \subseteq available
  BY DEF Bound, Parses
<1>2. ASSUME NEW v \in Vcpu
      PROVE  pins[v] = {f[v]}
  <2>1. pins[v] \in SUBSET available /\ Cardinality(pins[v]) = 1
    BY DEF Bound, Parses
  <2>2. IsFiniteSet(pins[v])
    BY <2>1, KnownFinite, FS_Subset
  <2>3. \E c : pins[v] = {c}
    BY <2>1, <2>2, FS_Singleton
  <2>4. QED
    BY <2>3
<1>3. \A v, w \in Vcpu : f[v] = f[w] => v = w
  BY <1>2 DEF Bound
<1>4. T = {f[v] : v \in Vcpu}
  <2> HIDE DEF f
  <2>1. \A v \in Vcpu : f[v] \in pins[v] /\ \A c \in pins[v] : c = f[v]
    BY <1>2
  <2>2. QED
    BY <2>1
<1> HIDE DEF T
<1>5. f \in Bijection(Vcpu, T)
  BY <1>3, <1>4 DEF Bijection, Injection, Surjection, IsInjective
<1>6. IsFiniteSet(T) /\ Cardinality(T) = Vcpus
  BY <1>5, VcpuCount, FS_Bijection DEF ExistsBijection
<1>7. QED
  BY <1>1, <1>6 DEF T

\* Whether they are kept or made, the selected CPUs are available and as many
\* as there are virtual CPUs.
LEMMA SelectedCount ==
  ASSUME Known, Fits
  PROVE  Selected \subseteq available /\ IsFiniteSet(Selected)
           /\ Cardinality(Selected) = Vcpus
<1>1. CASE Bound
  BY <1>1, BoundCount DEF Selected
<1>2. CASE ~Bound
  <2>1. Vcpus <= Cardinality(available)
    BY KnownFinite, FS_CardinalityType, VcpusAssumption DEF Fits
  <2>2. QED
    BY <1>2, <2>1, KnownFinite, FirstOfAll DEF Selected
<1>3. QED
  BY <1>1, <1>2

\* What 04 writes binds the virtual CPUs to the selected CPUs.
LEMMA AppliedBinding ==
  ASSUME Known, ApplyPinning
  PROVE  Bound' /\ UNION {pins'[v] : v \in Vcpu} = Selected
<1>1. /\ Selected \in SUBSET Nat /\ IsFiniteSet(Selected)
      /\ Cardinality(Selected) = Vcpus /\ Selected \subseteq available
  BY SelectedCount, KnownFinite DEF ApplyPinning
<1>2. \A v \in Vcpu : pins'[v] = {Nth(Selected, v)}
  BY DEF ApplyPinning
<1>3. ASSUME NEW v \in Vcpu
      PROVE  /\ Nth(Selected, v) \in Selected
             /\ Cardinality(Before(Selected, Nth(Selected, v))) = v
  BY <1>1, NthRank DEF Vcpu
<1>4. UNION {pins'[v] : v \in Vcpu} = {Nth(Selected, v) : v \in Vcpu}
  BY <1>2
<1>5. {Nth(Selected, v) : v \in Vcpu} = Selected
  <2> DEFINE S == Selected
  <2>1. S \in SUBSET Nat /\ IsFiniteSet(S) /\ Cardinality(S) = Vcpus
    BY <1>1
  <2> HIDE DEF S
  <2>2. Vcpus <= Cardinality(S)
    BY <2>1, VcpusAssumption
  <2>3. {Nth(S, v) : v \in Vcpu} = S
    BY <2>1, <2>2, FirstOfAll
  <2>4. QED
    BY <2>3 DEF S
<1>6. available' = available
  BY DEF ApplyPinning
<1>7. ASSUME NEW v \in Vcpu
      PROVE  pins'[v] # {} /\ pins'[v] \subseteq available' /\ Cardinality(pins'[v]) = 1
  <2>1. pins'[v] = {Nth(Selected, v)} /\ Nth(Selected, v) \in available
    BY <1>1, <1>2, <1>3
  <2>2. Cardinality(pins'[v]) = 1
    BY <2>1, FS_Singleton
  <2>3. QED
    BY <1>6, <2>1, <2>2
<1>8. \A v, w \in Vcpu : pins'[v] = pins'[w] => v = w
  BY <1>2, <1>3
<1>9. Bound'
  BY <1>7, <1>8 DEF Bound, Parses
<1>10. QED
  BY <1>4, <1>5, <1>9

\* The CPUs for the emulator are available and not selected.
LEMMA EmulatorApart ==
  ASSUME EmulatorCpus # {}
  PROVE  Parses(EmulatorCpus) /\ EmulatorCpus \cap Selected = {}
BY DEF EmulatorCpus, Parses

\* After the step both choices are the same again.
LEMMA ChosenAgain ==
  ASSUME Known, ApplyPinning
  PROVE  Selected' = Selected /\ EmulatorCpus' = EmulatorCpus
<1>1. Selected' = Selected
  BY AppliedBinding DEF Selected
<1>2. emulator' = EmulatorCpus /\ available' = available /\ EmulatorCpus # {}
  BY DEF ApplyPinning
<1>3. Parses(emulator)' /\ emulator' \cap Selected' = {}
  BY <1>1, <1>2, EmulatorApart DEF Parses
<1>4. EmulatorCpus' = emulator'
  BY <1>3 DEF EmulatorCpus
<1>5. QED
  BY <1>1, <1>2, <1>4

\* The mask stays one of CPUs of the host.
LEMMA KnownAlways == Spec => []Known
<1>1. Init => Known
  BY DEF Init, Known
<1>2. Known /\ [Next]_vars => Known'
  BY DEF Known, Next, ApplyPinning, EditPin, EditEmulator, SetAffinity, vars
<1>3. QED
  BY <1>1, <1>2, PTL DEF Spec

\* What 04 writes is a binding: every virtual CPU has an available CPU of its
\* own, and the emulator has available CPUs that no virtual CPU has.
THEOREM Exclusive == Spec => PinningIsExclusive
<1>1. Known /\ [Next]_vars =>
        [ApplyPinning =>
           /\ Bound'
           /\ Parses(emulator')
           /\ emulator' \cap UNION {pins'[v] : v \in Vcpu} = {}]_vars
  <2>1. SUFFICES ASSUME Known, ApplyPinning
                 PROVE  /\ Bound'
                        /\ Parses(emulator')
                        /\ emulator' \cap UNION {pins'[v] : v \in Vcpu} = {}
    OBVIOUS
  <2>2. emulator' = EmulatorCpus /\ EmulatorCpus # {}
    BY <2>1 DEF ApplyPinning
  <2>3. QED
    BY <2>1, <2>2, AppliedBinding, EmulatorApart
<1>2. QED
  BY <1>1, KnownAlways, PTL DEF Spec, PinningIsExclusive

\* Applying again changes nothing: from what 04 wrote it chooses the CPUs that
\* it chose when it wrote it.
THEOREM Stable == Spec => ApplyIsStable
<1>1. Known /\ [Next]_vars =>
        [ApplyPinning => Selected' = Selected /\ EmulatorCpus' = EmulatorCpus]_vars
  BY ChosenAgain
<1>2. QED
  BY <1>1, KnownAlways, PTL DEF Spec, ApplyIsStable

\* A valid binding keeps its CPUs, and an emulator that is bound apart from
\* them keeps its own.
THEOREM Kept == Spec => BoundCpusKept
<1>1. Known /\ [Next]_vars =>
        [ApplyPinning /\ Bound =>
           /\ UNION {pins'[v] : v \in Vcpu} = UNION {pins[v] : v \in Vcpu}
           /\ Parses(emulator) /\ (\A v \in Vcpu : pins[v] \cap emulator = {})
                => emulator' = emulator]_vars
  <2>1. SUFFICES ASSUME Known, ApplyPinning, Bound
                 PROVE  /\ UNION {pins'[v] : v \in Vcpu} = UNION {pins[v] : v \in Vcpu}
                        /\ Parses(emulator) /\ (\A v \in Vcpu : pins[v] \cap emulator = {})
                             => emulator' = emulator
    OBVIOUS
  <2>2. Selected = UNION {pins[v] : v \in Vcpu}
    BY <2>1 DEF Selected
  <2>3. UNION {pins'[v] : v \in Vcpu} = UNION {pins[v] : v \in Vcpu}
    BY <2>1, <2>2, AppliedBinding
  <2>4. ASSUME Parses(emulator), \A v \in Vcpu : pins[v] \cap emulator = {}
        PROVE  emulator' = emulator
    <3>1. emulator \cap Selected = {}
      BY <2>2, <2>4
    <3>2. QED
      BY <2>1, <2>4, <3>1 DEF ApplyPinning, EmulatorCpus
  <2>5. QED
    BY <2>3, <2>4
<1>2. QED
  BY <1>1, KnownAlways, PTL DEF Spec, BoundCpusKept
=============================================================================
