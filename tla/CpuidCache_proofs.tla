-------------------------- MODULE CpuidCache_proofs --------------------------
(***************************************************************************)
(* Proofs about CpuidCache, for every set of CPUID models, every table     *)
(* size, hash function and list of queries.                                *)
(***************************************************************************)
EXTENDS CpuidCache, TLAPS

\* The answer of now is promised.
LEMMA OwnAnswerPromised ==
  ASSUME NEW m, NEW s \in CpuState, NEW f, NEW i
  PROVE  Answer(m, s, f, i) \in Promised(m, s, f, i)
BY DEF Promised, Alike

\* What the host's scheduler and other virtual CPUs change leaves the promised
\* answers as they are.
LEMMA PromisedStable ==
  ASSUME NEW m \in Models, NEW s \in CpuState, NEW t \in CpuState, NEW f, NEW i,
         s.runtime = t.runtime, s.tsxHidden = t.tsxHidden
  PROVE  Promised(m, s, f, i) = Promised(m, t, f, i)
<1>1. CASE f \in Volatile
  <2>1. Alike(f, s) = Alike(f, t)
    BY <1>1 DEF Alike
  <2>2. QED
    BY <2>1 DEF Promised
<1>2. CASE f \notin Volatile
  <2>1. ~HostLeaf(m, f)
    BY <1>2 DEF HostLeaf, Volatile
  <2>2. Redirected(m, f, i) # InvtscLeaf
    BY <1>2, CpuidModelAssumption DEF Redirected, Volatile
  <2>3. Answer(m, s, f, i) = Answer(m, t, f, i)
    BY <2>1, <2>2 DEF Answer, Copy
  <2>4. QED
    BY <1>2, <2>3 DEF Promised, Alike
<1>3. QED
  BY <1>1, <1>2

\* The entries of f are all without a significant index.
Nonindexed(m, f) ==
  /\ \E k \in DOMAIN m.entries : m.entries[k].function = f
  /\ \A k \in DOMAIN m.entries : m.entries[k].function = f => ~m.entries[k].indexed

\* The entries that match a function without subleaves match for every index.
LEMMA NonindexedMatching ==
  ASSUME NEW m, NEW f, NEW i, Nonindexed(m, f)
  PROVE  Matching(m, f, i) = Matching(m, f, 0) /\ Has(m, f, i)
BY DEF Matching, Nonindexed, Has

\* Such a function answers every index alike.
LEMMA NonindexedAnswer ==
  ASSUME NEW m \in Models, NEW s, NEW f, NEW i, Nonindexed(m, f)
  PROVE  /\ Answer(m, s, f, i) = Answer(m, s, f, 0)
         /\ Promised(m, s, f, i) = Promised(m, s, f, 0)
<1>1. Has(m, f, i) /\ Has(m, f, 0) /\ Find(m, f, i) = Find(m, f, 0)
  BY NonindexedMatching DEF Find
<1>2. f # TsxLeaf
  BY CpuidModelAssumption DEF Nonindexed
<1>3. Redirected(m, f, i) = f /\ Redirected(m, f, 0) = f
  BY <1>1 DEF Redirected
<1>4. ASSUME NEW t
      PROVE  Answer(m, t, f, i) = Answer(m, t, f, 0)
  BY <1>1, <1>2, <1>3 DEF Answer, Copy
<1>5. QED
  BY <1>4 DEF Promised

\* The copy of leaf 0 is its answer, whatever the state and the index.
LEMMA LeafZeroAnswer ==
  ASSUME NEW m \in Models, NEW s, NEW t, NEW i, Has(m, 0, 0)
  PROVE  Copy(Find(m, 0, 0), 0, 0, t) = Answer(m, s, 0, i)
<1>1. Nonindexed(m, 0)
  BY CpuidModelAssumption DEF Nonindexed, Has, Matching
<1>2. Has(m, 0, i) /\ Find(m, 0, i) = Find(m, 0, 0)
  BY <1>1, NonindexedMatching DEF Find
<1>3. Redirected(m, 0, i) = 0 /\ ~HostLeaf(m, 0)
  BY <1>2, CpuidModelAssumption DEF Redirected, HostLeaf
<1>4. QED
  BY <1>2, <1>3, CpuidModelAssumption DEF Answer, Copy
-----------------------------------------------------------------------------
\* Types.

\* Probing stays within the table.
LEMMA ProbeInTable ==
  ASSUME NEW f \in Functions, NEW i \in Indexes, NEW n \in Nat
  PROVE  Probe(f, i, n) \in 0..(Size - 1)
<1> DEFINE h == Home[f, i]
<1>1. Size \in Nat \ {0}
  BY CpuidCacheAssumption
<1>2. <<f, i>> \in Functions \X Indexes
  OBVIOUS
<1>3. h \in 0..(Size - 1)
  BY <1>2, CpuidCacheAssumption
<1> HIDE DEF h
<1>4. h + n \in Nat
  BY <1>1, <1>3
<1>5. (h + n) % Size \in 0..(Size - 1)
  BY <1>1, <1>4
<1>6. QED
  BY <1>5 DEF Probe, h

\* An entry of the configured model has the parts of an entry.
LEMMA EntryTyped ==
  ASSUME TypeOK, NEW k \in DOMAIN model.entries
  PROVE  model.entries[k] \in Entry
<1>1. model \in Model
  BY CpuidModelAssumption DEF TypeOK
<1>2. model.entries \in Seq(Entry)
  BY <1>1 DEF Model
<1>3. QED
  BY <1>2

\* A query of the table has the parts of a query.
LEMMA QueryTyped ==
  ASSUME NEW k \in DOMAIN Queries
  PROVE  Queries[k] \in Query
<1>1. Queries \in Seq(Query)
  BY CpuidCacheAssumption
<1>2. QED
  BY <1>1

\* A turn of a building loop changes at most one slot, which it fills with
\* the answer to the key.
LEMMA InsertSlots ==
  ASSUME TypeOK, NEW f \in Functions, NEW i \in Indexes, NEW x \in BOOLEAN,
         Insert(f, i, x)
  PROVE  /\ slots' = [n \in 0..(Size - 1) |-> slots'[n]]
         /\ \A n \in 0..(Size - 1) :
              \/ slots'[n] = slots[n]
              \/ slots'[n] = [function |-> f, index |-> i, indexed |-> x,
                             valid |-> TRUE, value |-> KvmCpuid(f, i)]
<1>1. CASE InsertAt(f, i, x) = {}
  BY <1>1 DEF Insert, TypeOK
<1>2. CASE InsertAt(f, i, x) # {}
  <2>1. PICK n \in InsertAt(f, i, x) :
          slots' = [slots EXCEPT ![Probe(f, i, n)] =
                      [function |-> f, index |-> i, indexed |-> x,
                       valid |-> TRUE, value |-> KvmCpuid(f, i)]]
    BY <1>2 DEF Insert
  <2>2. Probe(f, i, n) \in 0..(Size - 1)
    BY ProbeInTable, CpuidCacheAssumption DEF InsertAt
  <2>3. QED
    BY <2>1, <2>2 DEF TypeOK
<1>3. QED
  BY <1>1, <1>2

\* ... and brings the runtime bits up to date or leaves them alone.
LEMMA InsertRuntime ==
  ASSUME NEW f, NEW i, NEW x, Insert(f, i, x)
  PROVE  \/ UNCHANGED <<applied, dirty, outdated>>
         \/ dirty /\ applied' = cpu.runtime /\ dirty' = FALSE /\ outdated' = TRUE
BY DEF Insert, UpdateIfDirty, UpdateRuntime

\* The key of an entry, and of a query.
LEMMA EntryInserted ==
  ASSUME TypeOK, InsertEntry
  PROVE  \/ UNCHANGED <<slots, applied, dirty, outdated>>
         \/ \E f \in Functions, i \in Indexes, x \in BOOLEAN :
              /\ Insert(f, i, x) /\ Cacheable(f)
              /\ \E k \in DOMAIN model.entries : /\ model.entries[k].function = f
                                                /\ model.entries[k].indexed = x
              /\ ~x => i = 0
<1> DEFINE e == model.entries[next]
           i == IF e.indexed THEN e.index ELSE 0
<1>1. next \in DOMAIN model.entries /\ e \in Entry
  BY EntryTyped DEF InsertEntry
<1>2. e.function \in Functions /\ i \in Indexes /\ e.indexed \in BOOLEAN
  BY <1>1, CpuidModelAssumption DEF Entry
<1>3. CASE Cacheable(e.function)
  <2>1. Insert(e.function, i, e.indexed)
    BY <1>3 DEF InsertEntry
  <2>2. QED
    BY <1>1, <1>2, <1>3, <2>1
<1>4. CASE ~Cacheable(e.function)
  BY <1>4 DEF InsertEntry
<1>5. QED
  BY <1>3, <1>4

\* What a turn of the loop over the queries does to the table.
LEMMA QueryInserted ==
  ASSUME InsertQuery
  PROVE  \E f \in Functions, i \in Indexes, x \in BOOLEAN :
           /\ Insert(f, i, x)
           /\ ~x => i = 0 /\ f \in ProbeFunctions
           /\ \E k \in DOMAIN Queries : /\ Queries[k].function = f
                                        /\ Queries[k].indexed = x
<1> DEFINE q == Queries[next - Entries]
<1>1. next - Entries \in DOMAIN Queries /\ Insert(q.function, q.index, q.indexed)
  BY DEF InsertQuery
<1>2. q.function \in Functions /\ q.index \in Indexes /\ q.indexed \in BOOLEAN
  BY <1>1, QueryTyped DEF Query
<1>3. ~q.indexed => q.index = 0 /\ q.function \in ProbeFunctions
  BY <1>1, CpuidCacheAssumption DEF ProbeFunctions
<1>4. QED
  BY <1>1, <1>2, <1>3

\* The variables of the C code that an exit or an ioctl runs.
LEMMA InCTypes ==
  ASSUME InC
  PROVE  armed' = FALSE /\ early' = FALSE /\ pc \in {"user", "loop", "guest"}
         /\ pc' \in {"user", "loop"}
BY DEF InC

\* The fields of the slots that have a type.
SlotsTyped(t) ==
  /\ t = [n \in 0..(Size - 1) |-> t[n]]
  /\ \A n \in 0..(Size - 1) :
       /\ t[n].function \in Functions /\ t[n].index \in Indexes
       /\ t[n].indexed \in BOOLEAN /\ t[n].valid \in BOOLEAN

\* A table of empty slots is typed.
LEMMA EmptyTable == SlotsTyped([n \in 0..(Size - 1) |-> EmptySlot])
<1>1. /\ EmptySlot.function \in Functions /\ EmptySlot.index \in Indexes
      /\ EmptySlot.indexed \in BOOLEAN /\ EmptySlot.valid \in BOOLEAN
  BY CpuidModelAssumption DEF EmptySlot
<1>2. QED
  BY <1>1 DEF SlotsTyped

\* The variables are typed at first.
LEMMA InitTyped == Init => TypeOK
<1> SUFFICES ASSUME Init PROVE TypeOK
  OBVIOUS
<1>1. SlotsTyped(slots)
  BY EmptyTable DEF Init
<1>2. cpu \in CpuState /\ model \in Models
  BY DEF Init
<1>3. {applied, dirty, outdated, entered, armed, early} \subseteq BOOLEAN
  BY DEF Init
<1>4. mru \in 0..Size /\ pc \in Pcs /\ next \in Nat \ {0}
  BY CpuidCacheAssumption DEF Init, Pcs
<1>5. QED
  BY <1>1, <1>2, <1>3, <1>4 DEF TypeOK, SlotsTyped

\* Every step keeps the variables in their ranges.
LEMMA NextTyped == TypeOK /\ [Next]_vars => TypeOK'
<1> SUFFICES ASSUME TypeOK, [Next]_vars PROVE TypeOK'
  OBVIOUS
<1>a. Size \in Nat \ {0} /\ 0 \in Functions /\ 0 \in Indexes
  BY CpuidModelAssumption, CpuidCacheAssumption
<1>b. ASSUME NEW f \in Functions, NEW i \in Indexes, NEW x \in BOOLEAN,
             Insert(f, i, x)
      PROVE  /\ SlotsTyped(slots')
             /\ applied' \in BOOLEAN /\ dirty' \in BOOLEAN /\ outdated' \in BOOLEAN
  <2>1. applied' \in BOOLEAN /\ dirty' \in BOOLEAN /\ outdated' \in BOOLEAN
    BY <1>b, InsertRuntime DEF TypeOK, CpuState
  <2>2. slots' = [n \in 0..(Size - 1) |-> slots'[n]]
    BY <1>b, InsertSlots
  <2>3. ASSUME NEW n \in 0..(Size - 1)
        PROVE  /\ slots'[n].function \in Functions /\ slots'[n].index \in Indexes
               /\ slots'[n].indexed \in BOOLEAN /\ slots'[n].valid \in BOOLEAN
    <3>1. CASE slots'[n] = slots[n]
      BY <3>1 DEF TypeOK
    <3>2. CASE slots'[n] = [function |-> f, index |-> i, indexed |-> x,
                            valid |-> TRUE, value |-> KvmCpuid(f, i)]
      BY <3>2
    <3>3. QED
      BY <1>b, <3>1, <3>2, InsertSlots
  <2>4. QED
    BY <2>1, <2>2, <2>3 DEF SlotsTyped
<1>c. ASSUME StartTable
      PROVE  /\ SlotsTyped(slots')
             /\ mru' \in 0..Size /\ next' \in Nat \ {0}
  <2>1. SlotsTyped(slots')
    BY <1>c, EmptyTable DEF StartTable
  <2>2. QED
    BY <1>a, <1>c, <2>1 DEF StartTable
<1>1. CASE SetCpuid
  BY <1>1, <1>c DEF SetCpuid, UpdateRuntime, SlotsTyped, TypeOK, CpuState, Pcs
<1>2. CASE SetCpuidAgain
  BY <1>2 DEF SetCpuidAgain, TypeOK, CpuState, table, thread
<1>3. CASE GetCpuid
  BY <1>3 DEF GetCpuid, UpdateIfDirty, UpdateRuntime, TypeOK, CpuState, table, thread
<1>4. CASE SetRegister
  BY <1>4, InCTypes DEF SetRegister, TypeOK, CpuState, table, Pcs
<1>5. CASE SetMsr
  <2>1. cpu' \in CpuState /\ dirty' \in BOOLEAN
    BY <1>5 DEF SetMsr, TypeOK, CpuState
  <2>2. QED
    BY <1>5, <2>1, InCTypes DEF SetMsr, TypeOK, table, Pcs
<1>6. CASE InsertEntry
  <2>1. /\ SlotsTyped(slots')
        /\ applied' \in BOOLEAN /\ dirty' \in BOOLEAN /\ outdated' \in BOOLEAN
    <3>1. CASE UNCHANGED <<slots, applied, dirty, outdated>>
      BY <3>1 DEF TypeOK, SlotsTyped
    <3>2. QED
      BY <1>6, <1>b, <3>1, EntryInserted
  <2>2. QED
    BY <1>6, <2>1 DEF InsertEntry, SlotsTyped, TypeOK
<1>7. CASE InsertQuery
  <2>1. /\ SlotsTyped(slots')
        /\ applied' \in BOOLEAN /\ dirty' \in BOOLEAN /\ outdated' \in BOOLEAN
    BY <1>7, <1>b, QueryInserted
  <2>2. QED
    BY <1>7, <2>1 DEF InsertQuery, SlotsTyped, TypeOK
<1>8. CASE FinishTable
  BY <1>8 DEF FinishTable, TypeOK, Pcs
<1>9. CASE KvmRun
  BY <1>9 DEF KvmRun, TypeOK, cpuidState, table, Pcs
<1>10. CASE KvmRunReturns
  BY <1>10 DEF KvmRunReturns, TypeOK, cpuidState, table, Pcs
<1>11. CASE VmxVcpuRun
  BY <1>11, <1>c DEF VmxVcpuRun, SlotsTyped, TypeOK, cpuidState, Pcs
<1>12. CASE VmExit
  BY <1>12, InCTypes DEF VmExit, TypeOK, cpuidState, table, Pcs
<1>13. ASSUME NEW u \in BOOLEAN, NEW p \in BOOLEAN, VmEnter(u, p)
       PROVE  TypeOK'
  <2>1. armed' \in BOOLEAN /\ early' \in BOOLEAN
    BY <1>13 DEF VmEnter
  <2>2. QED
    BY <1>13, <2>1 DEF VmEnter, TypeOK, cpuidState, table, Pcs
<1>14. ASSUME NEW f \in Functions, NEW i \in Indexes, CpuidInner(f, i)
       PROVE  TypeOK'
  <2>1. Hit(f, i) \subseteq 0..Size
    <3>0. 0..(Size - 1) \subseteq 0..Size /\ 0..(ProbeLimit - 1) \subseteq Nat
      BY <1>a, CpuidCacheAssumption
    <3>1. ASSUME NEW j \in Indexes, NEW n \in 0..(ProbeLimit - 1)
          PROVE  Probe(f, j, n) \in 0..Size
      BY <3>0, ProbeInTable
    <3>2. \A x \in BOOLEAN : Probed(f, i, x) \subseteq 0..Size
      <4>1. ASSUME NEW x \in BOOLEAN, NEW p \in Probed(f, i, x)
            PROVE  p \in 0..Size
        <5> DEFINE j == IF x THEN i ELSE 0
        <5>1. j \in Indexes
          BY <1>a
        <5>2. \E n \in 0..(ProbeLimit - 1) : p = Probe(f, j, n)
          BY <4>1 DEF Probed
        <5>3. QED
          BY <3>1, <5>1, <5>2
      <4>2. QED
        BY <4>1
    <3>3. ASSUME NEW j \in Indexes
          PROVE  Home[f, j] \in 0..Size
      <4>1. <<f, j>> \in Functions \X Indexes
        OBVIOUS
      <4>2. Home[<<f, j>>] \in 0..(Size - 1)
        BY <4>1, CpuidCacheAssumption
      <4>3. QED
        BY <3>0, <4>2
    <3>4. EarlyHit(f, i) \subseteq 0..Size
      BY <1>a, <3>3 DEF EarlyHit, TypeOK
    <3>5. QED
      BY <3>2, <3>4 DEF Hit, FullHit
  <2>2. mru' \in 0..Size
    BY <1>14, <2>1 DEF CpuidInner
  <2>3. QED
    BY <1>14, <2>2 DEF CpuidInner, TypeOK, cpuidState, thread
<1>15. ASSUME NEW f \in Functions, NEW i \in Indexes, CpuidFast(f, i)
       PROVE  TypeOK'
  BY <1>15, InCTypes DEF CpuidFast, TypeOK, cpuidState, table, Pcs
<1>16. ASSUME NEW f \in Functions, NEW i \in Indexes, CpuidSlow(f, i)
       PROVE  TypeOK'
  BY <1>16, InCTypes
     DEF CpuidSlow, UpdateIfDirty, UpdateRuntime, TypeOK, CpuState, table, Pcs
<1>17. CASE Migrate
  BY <1>17 DEF Migrate, TypeOK, CpuState, table, thread
<1>18. CASE PeerWritesControl
  BY <1>18 DEF PeerWritesControl, TypeOK, CpuState, table, thread
<1>19. CASE UNCHANGED vars
  BY <1>19 DEF vars, cpuidState, table, thread, TypeOK
<1>20. QED
  BY <1>1, <1>2, <1>3, <1>4, <1>5, <1>6, <1>7, <1>8, <1>9, <1>10, <1>11, <1>12,
     <1>13, <1>14, <1>15, <1>16, <1>17, <1>18, <1>19 DEF Next

\* Every variable keeps its type.
THEOREM TypeCorrect == Spec => []TypeOK
BY InitTyped, NextTyped, PTL DEF Spec
-----------------------------------------------------------------------------
\* The inductive invariant.

\* Without a pending update the entries hold the bits of the registers.
RuntimeApplied == ~dirty => applied = cpu.runtime

\* The inner loop runs only behind an entry that found the table current.
ArmedClean ==
  /\ armed => pc = "guest" /\ ~dirty /\ ~outdated
  /\ pc = "enter" => ~armed /\ ~outdated

\* A slot without index is a probe's, or of a function without subleaves.
KeysOfModel ==
  \A n \in 0..(Size - 1) :
    slots[n].valid /\ ~slots[n].indexed =>
      /\ slots[n].index = 0
      /\ \/ slots[n].function \in ProbeFunctions
         \/ Nonindexed(model, slots[n].function)

\* Outside the ioctl that replaces the model the copy of leaf 0 is its own.
LeafZeroCopied ==
  pc # "set" /\ cpuid0 # NoCpuid0 =>
    Has(model, 0, 0) /\ cpuid0 = Copy(Find(model, 0, 0), 0, 0, cpu)

Safe == RuntimeApplied /\ ArmedClean /\ TableIsCurrent /\ KeysOfModel
          /\ LeafZeroCopied

\* The empty table is current, and nothing is copied.
LEMMA InitSafe == Init => Safe
<1> SUFFICES ASSUME Init PROVE Safe
  OBVIOUS
<1>1. \A n \in 0..(Size - 1) : ~slots[n].valid
  BY DEF Init, EmptySlot
<1>2. cpu.runtime = FALSE
  BY DEF Init, CpuState
<1>3. RuntimeApplied
  BY <1>2 DEF Init, RuntimeApplied
<1>4. ArmedClean
  BY DEF Init, ArmedClean
<1>5. LeafZeroCopied
  BY DEF Init, LeafZeroCopied
<1>6. QED
  BY <1>1, <1>3, <1>4, <1>5 DEF Safe, TableIsCurrent, KeysOfModel

\* With the runtime bits applied or about to be, kvm_cpuid answers for the
\* state of now.
LEMMA KvmCpuidAnswer ==
  ASSUME TypeOK, RuntimeApplied, NEW f, NEW i
  PROVE  KvmCpuid(f, i) = Answer(model, cpu, f, i)
<1>1. cpu = [cpu EXCEPT !.runtime = IF dirty THEN cpu.runtime ELSE applied]
  BY DEF TypeOK, CpuState, RuntimeApplied
<1>2. QED
  BY <1>1 DEF KvmCpuid

\* What a building loop leaves of the runtime bits.
LEMMA BuildingRuntime ==
  ASSUME TypeOK, InsertEntry \/ InsertQuery
  PROVE  \/ UNCHANGED <<applied, dirty, outdated>>
         \/ dirty /\ applied' = cpu.runtime /\ dirty' = FALSE /\ outdated' = TRUE
BY EntryInserted, QueryInserted, InsertRuntime

\* No step lets the entries fall behind the registers without marking them.
LEMMA NextRuntimeApplied == TypeOK /\ RuntimeApplied /\ [Next]_vars => RuntimeApplied'
<1> SUFFICES ASSUME TypeOK, RuntimeApplied, [Next]_vars PROVE RuntimeApplied'
  OBVIOUS
<1> USE DEF RuntimeApplied
<1>1. CASE InsertEntry \/ InsertQuery
  BY <1>1, BuildingRuntime DEF InsertEntry, InsertQuery
<1>2. CASE Migrate \/ PeerWritesControl
  BY <1>2 DEF Migrate, PeerWritesControl, TypeOK, CpuState
<1>3. CASE SetRegister \/ SetMsr
  BY <1>3 DEF SetRegister, SetMsr, TypeOK, CpuState
<1>4. CASE SetCpuid \/ SetCpuidAgain \/ GetCpuid
  BY <1>4 DEF SetCpuid, SetCpuidAgain, GetCpuid, UpdateIfDirty, UpdateRuntime
<1>5. CASE FinishTable \/ KvmRun \/ KvmRunReturns \/ VmxVcpuRun \/ VmExit
  BY <1>5 DEF FinishTable, KvmRun, KvmRunReturns, VmxVcpuRun, VmExit, cpuidState
<1>6. ASSUME NEW u \in BOOLEAN, NEW p \in BOOLEAN, VmEnter(u, p)
      PROVE  RuntimeApplied'
  BY <1>6 DEF VmEnter, cpuidState
<1>7. ASSUME NEW f \in Functions, NEW i \in Indexes,
             CpuidInner(f, i) \/ CpuidFast(f, i) \/ CpuidSlow(f, i)
      PROVE  RuntimeApplied'
  BY <1>7 DEF CpuidInner, CpuidFast, CpuidSlow, UpdateIfDirty, UpdateRuntime, cpuidState
<1>8. CASE UNCHANGED vars
  BY <1>8 DEF vars, cpuidState
<1>9. QED
  BY <1>1, <1>2, <1>3, <1>4, <1>5, <1>6, <1>7, <1>8 DEF Next

\* The inner loop is armed only behind a check of the table, and no step
\* that outdates it leaves it armed.
LEMMA NextArmedClean == TypeOK /\ ArmedClean /\ [Next]_vars => ArmedClean'
<1> SUFFICES ASSUME TypeOK, ArmedClean, [Next]_vars PROVE ArmedClean'
  OBVIOUS
<1> USE DEF ArmedClean
<1>1. CASE InsertEntry \/ InsertQuery \/ FinishTable
  BY <1>1 DEF InsertEntry, InsertQuery, FinishTable, Building
<1>2. CASE Migrate \/ PeerWritesControl
  BY <1>2 DEF Migrate, PeerWritesControl, thread
<1>3. CASE SetRegister \/ SetMsr \/ VmExit
  BY <1>3, InCTypes DEF SetRegister, SetMsr, VmExit
<1>4. CASE SetCpuid \/ SetCpuidAgain \/ GetCpuid
  BY <1>4 DEF SetCpuid, SetCpuidAgain, GetCpuid, thread
<1>5. CASE KvmRun \/ KvmRunReturns \/ VmxVcpuRun
  BY <1>5 DEF KvmRun, KvmRunReturns, VmxVcpuRun, cpuidState
<1>6. ASSUME NEW u \in BOOLEAN, NEW p \in BOOLEAN, VmEnter(u, p)
      PROVE  ArmedClean'
  BY <1>6 DEF VmEnter, cpuidState
<1>7. ASSUME NEW f \in Functions, NEW i \in Indexes,
             CpuidInner(f, i) \/ CpuidFast(f, i) \/ CpuidSlow(f, i)
      PROVE  ArmedClean'
  <2>1. CASE CpuidInner(f, i)
    BY <2>1 DEF CpuidInner, thread, cpuidState
  <2>2. CASE CpuidFast(f, i) \/ CpuidSlow(f, i)
    <3>1. InC
      BY <2>2 DEF CpuidFast, CpuidSlow
    <3>2. QED
      BY <3>1, InCTypes
  <2>3. QED
    BY <1>7, <2>1, <2>2
<1>8. CASE UNCHANGED vars
  BY <1>8 DEF vars, thread, cpuidState
<1>9. QED
  BY <1>1, <1>2, <1>3, <1>4, <1>5, <1>6, <1>7, <1>8 DEF Next

\* The steps that leave the table and all that its answers depend on alone.
LEMMA TableKept ==
  ASSUME TypeOK, TableIsCurrent,
         UNCHANGED <<model, slots>>, cpu' \in CpuState,
         cpu'.runtime = cpu.runtime, cpu'.tsxHidden = cpu.tsxHidden,
         Building' \/ (~dirty' /\ ~outdated') => Building \/ (~dirty /\ ~outdated)
  PROVE  TableIsCurrent'
<1>1. SUFFICES ASSUME Building' \/ (~dirty' /\ ~outdated'),
                      NEW n \in 0..(Size - 1), slots'[n].valid
               PROVE  Current(slots[n])'
  BY DEF TableIsCurrent
<1>2. Current(slots[n])
  BY <1>1 DEF TableIsCurrent
<1>3. Promised(model, cpu', slots[n].function, slots[n].index)
        = Promised(model, cpu, slots[n].function, slots[n].index)
  BY PromisedStable DEF TypeOK
<1>4. QED
  BY <1>2, <1>3 DEF Current

\* A turn of a building loop adds an answer of now.
LEMMA TableExtended ==
  ASSUME TypeOK, RuntimeApplied, TableIsCurrent, Building,
         NEW f \in Functions, NEW i \in Indexes, NEW x \in BOOLEAN,
         Insert(f, i, x), UNCHANGED <<model, cpu>>
  PROVE  TableIsCurrent'
<1>1. SUFFICES ASSUME NEW n \in 0..(Size - 1), slots'[n].valid
               PROVE  Current(slots[n])'
  BY DEF TableIsCurrent
<1>2. CASE slots'[n] = slots[n]
  <2>1. Current(slots[n])
    BY <1>1, <1>2 DEF TableIsCurrent
  <2>2. QED
    BY <1>2, <2>1 DEF Current
<1>3. CASE slots'[n] = [function |-> f, index |-> i, indexed |-> x,
                       valid |-> TRUE, value |-> KvmCpuid(f, i)]
  <2>1. KvmCpuid(f, i) \in Promised(model, cpu, f, i)
    BY KvmCpuidAnswer, OwnAnswerPromised DEF TypeOK
  <2>2. QED
    BY <1>3, <2>1 DEF Current
<1>4. QED
  BY <1>2, <1>3, InsertSlots

\* Every step that changes what an answer depends on outdates the table or
\* leaves its answers promised.
LEMMA NextTableIsCurrent ==
  TypeOK /\ RuntimeApplied /\ TableIsCurrent /\ [Next]_vars => TableIsCurrent'
<1> SUFFICES ASSUME TypeOK, RuntimeApplied, TableIsCurrent, [Next]_vars
             PROVE  TableIsCurrent'
  OBVIOUS
<1>a. cpu \in CpuState
  BY DEF TypeOK
<1>b. ASSUME StartTable PROVE TableIsCurrent'
  <2>1. \A n \in 0..(Size - 1) : ~slots'[n].valid
    BY <1>b DEF StartTable, EmptySlot
  <2>2. QED
    BY <2>1 DEF TableIsCurrent
<1>c. ASSUME ~Building', dirty' \/ outdated' PROVE TableIsCurrent'
  BY <1>c DEF TableIsCurrent
<1>1. CASE InsertEntry
  <2>1. CASE UNCHANGED <<slots, applied, dirty, outdated>>
    BY <1>1, <1>a, <2>1, TableKept DEF InsertEntry, Building
  <2>2. QED
    BY <1>1, <2>1, TableExtended, EntryInserted DEF InsertEntry
<1>2. CASE InsertQuery
  BY <1>2, TableExtended, QueryInserted DEF InsertQuery
<1>3. CASE FinishTable
  BY <1>3, <1>a, TableKept DEF FinishTable
<1>4. CASE SetCpuid
  BY <1>4, <1>b DEF SetCpuid
<1>5. CASE SetCpuidAgain
  BY <1>5, <1>c DEF SetCpuidAgain, Building, thread
<1>6. CASE GetCpuid
  <2>1. ~Building'
    BY <1>6 DEF GetCpuid, Building, thread
  <2>2. CASE dirty
    BY <1>6, <1>c, <2>1, <2>2 DEF GetCpuid, UpdateIfDirty, UpdateRuntime
  <2>3. CASE ~dirty
    BY <1>6, <1>a, <2>1, <2>3, TableKept DEF GetCpuid, UpdateIfDirty, table
  <2>4. QED
    BY <2>2, <2>3
<1>7. CASE SetRegister \/ SetMsr
  <2>1. ~Building'
    BY <1>7, InCTypes DEF SetRegister, SetMsr, Building
  <2>2. dirty' \/ outdated'
    BY <1>7 DEF SetRegister, SetMsr
  <2>3. QED
    BY <1>c, <2>1, <2>2
<1>8. CASE KvmRun \/ KvmRunReturns
  BY <1>8, <1>a, TableKept DEF KvmRun, KvmRunReturns, cpuidState, table, Building
<1>9. CASE VmxVcpuRun
  <2>1. CASE StartTable
    BY <1>b, <2>1
  <2>2. CASE UNCHANGED slots /\ pc' = "enter"
    BY <1>9, <1>a, <2>2, TableKept DEF VmxVcpuRun, cpuidState, Building
  <2>3. QED
    BY <1>9, <2>1, <2>2 DEF VmxVcpuRun
<1>10. CASE VmExit
  <2>1. ~Building'
    BY <1>10, InCTypes DEF VmExit, Building
  <2>2. QED
    BY <1>10, <1>a, <2>1, TableKept DEF VmExit, cpuidState, table
<1>11. ASSUME NEW u \in BOOLEAN, NEW p \in BOOLEAN, VmEnter(u, p)
       PROVE  TableIsCurrent'
  BY <1>11, <1>a, TableKept DEF VmEnter, cpuidState, table, Building
<1>12. ASSUME NEW f \in Functions, NEW i \in Indexes, CpuidInner(f, i)
       PROVE  TableIsCurrent'
  BY <1>12, <1>a, TableKept DEF CpuidInner, cpuidState, thread, Building
<1>13. ASSUME NEW f \in Functions, NEW i \in Indexes, CpuidFast(f, i)
       PROVE  TableIsCurrent'
  <2>1. ~Building'
    BY <1>13, InCTypes DEF CpuidFast, Building
  <2>2. QED
    BY <1>13, <1>a, <2>1, TableKept DEF CpuidFast, cpuidState, table
<1>14. ASSUME NEW f \in Functions, NEW i \in Indexes, CpuidSlow(f, i)
       PROVE  TableIsCurrent'
  <2>1. ~Building'
    BY <1>14, InCTypes DEF CpuidSlow, Building
  <2>2. CASE dirty
    BY <1>14, <1>c, <2>1, <2>2 DEF CpuidSlow, UpdateIfDirty, UpdateRuntime
  <2>3. CASE ~dirty
    BY <1>14, <1>a, <2>1, <2>3, TableKept DEF CpuidSlow, UpdateIfDirty, table
  <2>4. QED
    BY <2>2, <2>3
<1>15. CASE Migrate \/ PeerWritesControl
  <2>1. cpu' \in CpuState /\ cpu'.runtime = cpu.runtime
          /\ cpu'.tsxHidden = cpu.tsxHidden
    BY <1>15, <1>a DEF Migrate, PeerWritesControl, CpuState
  <2>2. QED
    BY <1>15, <2>1, TableKept DEF Migrate, PeerWritesControl, table, thread, Building
<1>16. CASE UNCHANGED vars
  BY <1>16, <1>a, TableKept DEF vars, cpuidState, table, thread, Building
<1>17. QED
  BY <1>1, <1>2, <1>3, <1>4, <1>5, <1>6, <1>7, <1>8, <1>9, <1>10, <1>11, <1>12,
     <1>13, <1>14, <1>15, <1>16 DEF Next

\* A turn of a building loop adds a key of the model or of a query.
LEMMA KeysExtended ==
  ASSUME TypeOK, KeysOfModel, UNCHANGED model,
         NEW f \in Functions, NEW i \in Indexes, NEW x \in BOOLEAN,
         Insert(f, i, x),
         ~x => i = 0 /\ (f \in ProbeFunctions \/ Nonindexed(model, f))
  PROVE  KeysOfModel'
<1>1. SUFFICES ASSUME NEW n \in 0..(Size - 1), slots'[n].valid, ~slots'[n].indexed
               PROVE  /\ slots'[n].index = 0
                      /\ \/ slots'[n].function \in ProbeFunctions
                         \/ Nonindexed(model, slots'[n].function)
  BY DEF KeysOfModel, ProbeFunctions, Nonindexed
<1>2. CASE slots'[n] = slots[n]
  BY <1>1, <1>2 DEF KeysOfModel
<1>3. CASE slots'[n] = [function |-> f, index |-> i, indexed |-> x,
                       valid |-> TRUE, value |-> KvmCpuid(f, i)]
  BY <1>1, <1>3
<1>4. QED
  BY <1>2, <1>3, InsertSlots

\* No step brings another key into the table.
LEMMA NextKeysOfModel == TypeOK /\ KeysOfModel /\ [Next]_vars => KeysOfModel'
<1> SUFFICES ASSUME TypeOK, KeysOfModel, [Next]_vars PROVE KeysOfModel'
  OBVIOUS
<1>a. ASSUME UNCHANGED <<model, slots>> PROVE KeysOfModel'
  BY <1>a DEF KeysOfModel, Nonindexed, ProbeFunctions
<1>b. ASSUME StartTable PROVE KeysOfModel'
  <2>1. \A n \in 0..(Size - 1) : ~slots'[n].valid
    BY <1>b DEF StartTable, EmptySlot
  <2>2. QED
    BY <2>1 DEF KeysOfModel
<1>1. CASE InsertEntry
  <2>1. CASE UNCHANGED <<slots, applied, dirty, outdated>>
    BY <1>1, <1>a, <2>1 DEF InsertEntry
  <2>2. ASSUME NEW f \in Functions, NEW i \in Indexes, NEW x \in BOOLEAN,
               Insert(f, i, x), Cacheable(f), ~x => i = 0,
               NEW k \in DOMAIN model.entries,
               model.entries[k].function = f, model.entries[k].indexed = x
        PROVE  KeysOfModel'
    <3>1. ~x => Nonindexed(model, f)
      BY <2>2 DEF Nonindexed, Cacheable
    <3>2. QED
      BY <1>1, <2>2, <3>1, KeysExtended DEF InsertEntry
  <2>3. QED
    BY <1>1, <2>1, <2>2, EntryInserted
<1>2. CASE InsertQuery
  BY <1>2, KeysExtended, QueryInserted DEF InsertQuery
<1>3. CASE SetCpuid
  BY <1>3, <1>b DEF SetCpuid
<1>4. CASE VmxVcpuRun
  BY <1>4, <1>a, <1>b DEF VmxVcpuRun, cpuidState
<1>5. CASE FinishTable \/ KvmRun \/ KvmRunReturns \/ VmExit \/ UNCHANGED vars
  BY <1>5, <1>a DEF FinishTable, KvmRun, KvmRunReturns, VmExit, vars, cpuidState, table
<1>6. CASE SetCpuidAgain \/ GetCpuid \/ SetRegister \/ SetMsr \/ Migrate
             \/ PeerWritesControl
  BY <1>6, <1>a DEF SetCpuidAgain, GetCpuid, SetRegister, SetMsr, Migrate,
                    PeerWritesControl, table
<1>7. ASSUME NEW u \in BOOLEAN, NEW p \in BOOLEAN, VmEnter(u, p)
      PROVE  KeysOfModel'
  BY <1>7, <1>a DEF VmEnter, cpuidState, table
<1>8. ASSUME NEW f \in Functions, NEW i \in Indexes,
             CpuidInner(f, i) \/ CpuidFast(f, i) \/ CpuidSlow(f, i)
      PROVE  KeysOfModel'
  BY <1>8, <1>a DEF CpuidInner, CpuidFast, CpuidSlow, cpuidState, table
<1>9. QED
  BY <1>1, <1>2, <1>3, <1>4, <1>5, <1>6, <1>7, <1>8 DEF Next

\* The copy of leaf 0 is replaced with the model it is a copy of.
LEMMA NextLeafZeroCopied ==
  TypeOK /\ LeafZeroCopied /\ [Next]_vars => LeafZeroCopied'
<1> SUFFICES ASSUME TypeOK, LeafZeroCopied, [Next]_vars PROVE LeafZeroCopied'
  OBVIOUS
<1>z. ASSUME NEW s, NEW t, NEW k PROVE Copy(k, 0, 0, s) = Copy(k, 0, 0, t)
  BY CpuidModelAssumption DEF Copy
<1>a. ASSUME UNCHANGED <<model, cpuid0>>, pc' # "set" => pc # "set"
      PROVE  LeafZeroCopied'
  <2>1. SUFFICES ASSUME pc' # "set", cpuid0 # NoCpuid0
                 PROVE  Has(model, 0, 0) /\ cpuid0 = Copy(Find(model, 0, 0), 0, 0, cpu')
    BY <1>a DEF LeafZeroCopied, NoCpuid0
  <2>2. QED
    BY <1>a, <1>z, <2>1 DEF LeafZeroCopied
<1>1. CASE InsertEntry \/ InsertQuery
  BY <1>1, <1>a DEF InsertEntry, InsertQuery
<1>2. CASE FinishTable
  <2>1. CASE pc = "fill"
    BY <1>2, <1>a, <2>1 DEF FinishTable
  <2>2. CASE pc # "fill"
    BY <1>2, <2>2 DEF FinishTable, LeafZeroCopied
  <2>3. QED
    BY <2>1, <2>2
<1>3. CASE SetCpuid
  BY <1>3 DEF SetCpuid, LeafZeroCopied
<1>4. CASE VmxVcpuRun
  BY <1>4, <1>a DEF VmxVcpuRun, cpuidState
<1>5. CASE KvmRun \/ KvmRunReturns \/ UNCHANGED vars
  BY <1>5, <1>a DEF KvmRun, KvmRunReturns, vars, cpuidState, table, thread
<1>6. CASE SetRegister \/ SetMsr \/ VmExit
  BY <1>6, <1>a, InCTypes DEF SetRegister, SetMsr, VmExit, table, cpuidState
<1>7. CASE SetCpuidAgain \/ GetCpuid \/ Migrate \/ PeerWritesControl
  BY <1>7, <1>a DEF SetCpuidAgain, GetCpuid, Migrate, PeerWritesControl, table, thread
<1>8. ASSUME NEW u \in BOOLEAN, NEW p \in BOOLEAN, VmEnter(u, p)
      PROVE  LeafZeroCopied'
  BY <1>8, <1>a DEF VmEnter, cpuidState, table
<1>9. ASSUME NEW f \in Functions, NEW i \in Indexes,
             CpuidInner(f, i) \/ CpuidFast(f, i) \/ CpuidSlow(f, i)
      PROVE  LeafZeroCopied'
  <2>1. CASE CpuidInner(f, i)
    BY <1>a, <2>1 DEF CpuidInner, cpuidState, thread
  <2>2. CASE CpuidFast(f, i) \/ CpuidSlow(f, i)
    BY <1>a, <2>2, InCTypes DEF CpuidFast, CpuidSlow, cpuidState, table
  <2>3. QED
    BY <1>9, <2>1, <2>2
<1>10. QED
  BY <1>1, <1>2, <1>3, <1>4, <1>5, <1>6, <1>7, <1>8, <1>9 DEF Next

\* Every step keeps the invariant.
LEMMA NextSafe == TypeOK /\ Safe /\ [Next]_vars => Safe'
BY NextRuntimeApplied, NextArmedClean, NextTableIsCurrent, NextKeysOfModel,
   NextLeafZeroCopied DEF Safe

\* When the generations agree and no update is pending, and while a table is
\* built, every slot holds what kvm_cpuid would answer now or, of a leaf that
\* the host core or the VM-wide Hyper-V control decides, has answered before.
THEOREM CacheCurrent == Spec => []TableIsCurrent
<1>1. Init => TypeOK /\ Safe
  BY InitTyped, InitSafe
<1>2. TypeOK /\ Safe /\ [Next]_vars => (TypeOK /\ Safe)'
  BY NextTyped, NextSafe
<1>3. TypeOK /\ Safe => TableIsCurrent
  BY DEF Safe
<1>4. QED
  BY <1>1, <1>2, <1>3, PTL DEF Spec
-----------------------------------------------------------------------------
\* Probing.

\* A slot with an index is of an entry, or of a query, with one.
IndexedKeys ==
  \A n \in 0..(Size - 1) :
    slots[n].valid /\ slots[n].indexed =>
      \/ \E k \in DOMAIN model.entries :
           model.entries[k].function = slots[n].function /\ model.entries[k].indexed
      \/ \E k \in DOMAIN Queries :
           Queries[k].function = slots[n].function /\ Queries[k].indexed

\* Where probing a table for a key ends; what every valid slot of it promises.
EndsAt(t, f, i, x, n) ==
  /\ HasKey(t[Probe(f, i, n)], f, i, x)
  /\ \A l \in 0..(n - 1) : /\ t[Probe(f, i, l)].valid
                           /\ ~HasKey(t[Probe(f, i, l)], f, i, x)

Found(t, f, i, x) ==
  {Probe(f, i, n) : n \in {n \in 0..(ProbeLimit - 1) : EndsAt(t, f, i, x, n)}}

Subleaf(slot) == IF slot.indexed THEN slot.index ELSE 0

Reachable(t) ==
  \A n \in 0..(Size - 1) :
    t[n].valid => n \in Found(t, t[n].function, Subleaf(t[n]), t[n].indexed)

\* Probing for a key ends in one slot at most.
LEMMA FoundOnce ==
  ASSUME NEW t, NEW f, NEW i, NEW x, NEW n \in Found(t, f, i, x)
  PROVE  Found(t, f, i, x) = {n}
<1>1. SUFFICES ASSUME NEW m \in Found(t, f, i, x) PROVE m = n
  OBVIOUS
<1>2. PICK c \in 0..(ProbeLimit - 1) : n = Probe(f, i, c) /\ EndsAt(t, f, i, x, c)
  BY DEF Found
<1>3. PICK d \in 0..(ProbeLimit - 1) : m = Probe(f, i, d) /\ EndsAt(t, f, i, x, d)
  BY <1>1 DEF Found
<1>4. ~(c \in 0..(d - 1)) /\ ~(d \in 0..(c - 1))
  BY <1>2, <1>3 DEF EndsAt
<1>5. c = d
  BY <1>4, CpuidCacheAssumption
<1>6. QED
  BY <1>2, <1>3, <1>5

\* What the assembly finds, and what reachability is, in these terms.
LEMMA ProbedFound ==
  ASSUME NEW f, NEW i, NEW x
  PROVE  Probed(f, i, x) = Found(slots, f, IF x THEN i ELSE 0, x)
BY DEF Probed, Found, EndsAt, Keyed

\* ... for the slots of the table.
LEMMA ReachableMeans == SlotsReachable <=> Reachable(slots)
<1>1. ASSUME NEW n \in 0..(Size - 1)
      PROVE  LET p == Probed(slots[n].function, slots[n].index, slots[n].indexed)
             IN p = {n} <=> n \in Found(slots, slots[n].function,
                                        Subleaf(slots[n]), slots[n].indexed)
  <2> DEFINE p == Probed(slots[n].function, slots[n].index, slots[n].indexed)
             q == Found(slots, slots[n].function, Subleaf(slots[n]), slots[n].indexed)
  <2>1. p = q
    BY DEF Subleaf, Probed, Found, EndsAt, Keyed
  <2>2. n \in q => q = {n}
    BY FoundOnce
  <2>3. QED
    BY <2>1, <2>2
<1>2. QED
  BY <1>1 DEF SlotsReachable, Reachable

\* A key that was reachable stays reachable when a slot that was free is
\* filled, and so is the key that fills it.
LEMMA InsertReachable ==
  ASSUME TypeOK, Reachable(slots),
         NEW f \in Functions, NEW i \in Indexes, NEW x \in BOOLEAN,
         Insert(f, i, x), ~x => i = 0
  PROVE  Reachable(slots')
<1>1. CASE InsertAt(f, i, x) = {}
  BY <1>1 DEF Insert
<1>2. CASE InsertAt(f, i, x) # {}
  <2> DEFINE new == [function |-> f, index |-> i, indexed |-> x,
                     valid |-> TRUE, value |-> KvmCpuid(f, i)]
  <2>1. PICK c \in InsertAt(f, i, x) : slots' = [slots EXCEPT ![Probe(f, i, c)] = new]
    BY <1>2 DEF Insert
  <2> DEFINE at == Probe(f, i, c)
  <2>2. /\ c \in 0..(ProbeLimit - 1) /\ ~slots[at].valid
        /\ \A l \in 0..(c - 1) : /\ slots[Probe(f, i, l)].valid
                                 /\ ~HasKey(slots[Probe(f, i, l)], f, i, x)
    BY DEF InsertAt
  <2>3. at \in 0..(Size - 1)
    BY <2>2, ProbeInTable, CpuidCacheAssumption
  <2>4. HasKey(new, f, i, x) /\ Subleaf(new) = i
    BY DEF HasKey, Subleaf
  <2>5. /\ slots'[at] = new
        /\ \A n \in 0..(Size - 1) : n # at => slots'[n] = slots[n]
    BY <2>1, <2>3 DEF TypeOK
  <2>6. \A n \in 0..(Size - 1) : slots[n].valid => slots'[n] = slots[n]
    BY <2>2, <2>5
  <2> HIDE DEF new
  <2>7. ASSUME NEW g \in Functions, NEW j \in Indexes, NEW y,
               NEW d \in 0..(ProbeLimit - 1),
               \A l \in 0..(d - 1) : /\ slots[Probe(g, j, l)].valid
                                     /\ ~HasKey(slots[Probe(g, j, l)], g, j, y),
               HasKey(slots'[Probe(g, j, d)], g, j, y)
        PROVE  Probe(g, j, d) \in Found(slots', g, j, y)
    <3>1. ASSUME NEW l \in 0..(d - 1)
          PROVE  slots'[Probe(g, j, l)] = slots[Probe(g, j, l)]
      <4>1. l \in Nat
        BY CpuidCacheAssumption
      <4>2. Probe(g, j, l) \in 0..(Size - 1)
        BY <4>1, ProbeInTable
      <4>3. QED
        BY <2>6, <2>7, <4>2
    <3>2. EndsAt(slots', g, j, y, d)
      BY <2>7, <3>1 DEF EndsAt
    <3>3. QED
      BY <3>2 DEF Found
  <2>8. at \in Found(slots', f, i, x)
    BY <2>2, <2>4, <2>5, <2>7
  <2>9. ASSUME NEW n \in 0..(Size - 1), slots'[n].valid, n # at
        PROVE  n \in Found(slots', slots'[n].function, Subleaf(slots'[n]),
                           slots'[n].indexed)
    <3>1. slots'[n] = slots[n] /\ slots[n].valid
      BY <2>5, <2>9
    <3>2. PICK g, j, y : g = slots[n].function /\ j = Subleaf(slots[n]) /\ y = slots[n].indexed
      OBVIOUS
    <3>3. g \in Functions /\ j \in Indexes
      BY <3>2, CpuidModelAssumption DEF TypeOK, Subleaf
    <3>4. n \in Found(slots, g, j, y)
      BY <3>1, <3>2 DEF Reachable
    <3>5. PICK d \in 0..(ProbeLimit - 1) : n = Probe(g, j, d) /\ EndsAt(slots, g, j, y, d)
      BY <3>4 DEF Found
    <3>6. HasKey(slots'[Probe(g, j, d)], g, j, y)
      BY <3>1, <3>5 DEF EndsAt
    <3>7. n \in Found(slots', g, j, y)
      BY <2>7, <3>3, <3>5, <3>6 DEF EndsAt
    <3>8. QED
      BY <3>1, <3>2, <3>7
  <2>10. /\ new.function = f /\ new.indexed = x
    BY DEF new
  <2>11. QED
    BY <2>3, <2>4, <2>5, <2>8, <2>9, <2>10 DEF Reachable
<1>3. QED
  BY <1>1, <1>2

\* A filled slot has the index of its entry or query.
LEMMA IndexedExtended ==
  ASSUME TypeOK, IndexedKeys, UNCHANGED model,
         NEW f \in Functions, NEW i \in Indexes, NEW x \in BOOLEAN,
         Insert(f, i, x),
         \/ \E k \in DOMAIN model.entries :
              model.entries[k].function = f /\ model.entries[k].indexed = x
         \/ \E k \in DOMAIN Queries :
              Queries[k].function = f /\ Queries[k].indexed = x
  PROVE  IndexedKeys'
<1>1. SUFFICES ASSUME NEW n \in 0..(Size - 1), slots'[n].valid, slots'[n].indexed
               PROVE  \/ \E k \in DOMAIN model.entries :
                           /\ model.entries[k].function = slots'[n].function
                           /\ model.entries[k].indexed
                      \/ \E k \in DOMAIN Queries :
                           /\ Queries[k].function = slots'[n].function
                           /\ Queries[k].indexed
  BY DEF IndexedKeys
<1>2. CASE slots'[n] = slots[n]
  BY <1>1, <1>2 DEF IndexedKeys
<1>3. CASE slots'[n] = [function |-> f, index |-> i, indexed |-> x,
                       valid |-> TRUE, value |-> KvmCpuid(f, i)]
  <2>1. x /\ slots'[n].function = f
    BY <1>1, <1>3
  <2>2. QED
    BY <2>1
<1>4. QED
  BY <1>2, <1>3, InsertSlots

\* The inductive invariant of probing.
Placed == Reachable(slots) /\ IndexedKeys

\* Of an empty table.
LEMMA InitPlaced == Init => Placed
<1>1. Init => \A n \in 0..(Size - 1) : ~slots[n].valid
  BY DEF Init, EmptySlot
<1>2. QED
  BY <1>1 DEF Placed, Reachable, IndexedKeys

\* No step takes a slot away from where its key is looked for.
LEMMA NextPlaced == TypeOK /\ Placed /\ [Next]_vars => Placed'
<1> SUFFICES ASSUME TypeOK, Placed, [Next]_vars PROVE Placed'
  OBVIOUS
<1>a. ASSUME UNCHANGED <<model, slots>> PROVE Placed'
  BY <1>a DEF Placed, IndexedKeys
<1>b. ASSUME StartTable PROVE Placed'
  <2>1. \A n \in 0..(Size - 1) : ~slots'[n].valid
    BY <1>b DEF StartTable, EmptySlot
  <2>2. QED
    BY <2>1 DEF Placed, Reachable, IndexedKeys
<1>1. CASE InsertEntry
  <2>1. CASE UNCHANGED <<slots, applied, dirty, outdated>>
    BY <1>1, <1>a, <2>1 DEF InsertEntry
  <2>2. ASSUME NEW f \in Functions, NEW i \in Indexes, NEW x \in BOOLEAN,
               Insert(f, i, x), ~x => i = 0,
               \E k \in DOMAIN model.entries : /\ model.entries[k].function = f
                                              /\ model.entries[k].indexed = x
        PROVE  Placed'
    <3>1. UNCHANGED model
      BY <1>1 DEF InsertEntry
    <3>2. QED
      BY <2>2, <3>1, InsertReachable, IndexedExtended DEF Placed
  <2>3. QED
    BY <1>1, <2>1, <2>2, EntryInserted
<1>2. CASE InsertQuery
  BY <1>2, QueryInserted, InsertReachable, IndexedExtended DEF InsertQuery, Placed
<1>3. CASE SetCpuid
  BY <1>3, <1>b DEF SetCpuid
<1>4. CASE VmxVcpuRun
  BY <1>4, <1>a, <1>b DEF VmxVcpuRun, cpuidState
<1>5. CASE FinishTable \/ KvmRun \/ KvmRunReturns \/ VmExit \/ UNCHANGED vars
  BY <1>5, <1>a DEF FinishTable, KvmRun, KvmRunReturns, VmExit, vars, cpuidState, table
<1>6. CASE SetCpuidAgain \/ GetCpuid \/ SetRegister \/ SetMsr \/ Migrate
             \/ PeerWritesControl
  BY <1>6, <1>a DEF SetCpuidAgain, GetCpuid, SetRegister, SetMsr, Migrate,
                    PeerWritesControl, table
<1>7. ASSUME NEW u \in BOOLEAN, NEW p \in BOOLEAN, VmEnter(u, p)
      PROVE  Placed'
  BY <1>7, <1>a DEF VmEnter, cpuidState, table
<1>8. ASSUME NEW f \in Functions, NEW i \in Indexes,
             CpuidInner(f, i) \/ CpuidFast(f, i) \/ CpuidSlow(f, i)
      PROVE  Placed'
  BY <1>8, <1>a DEF CpuidInner, CpuidFast, CpuidSlow, cpuidState, table
<1>9. QED
  BY <1>1, <1>2, <1>3, <1>4, <1>5, <1>6, <1>7, <1>8 DEF Next

\* Collisions lose no slot and store no key twice, whatever the hash is and
\* however full the table: probing for a slot's key ends in that slot.
THEOREM NoSlotLost == Spec => []SlotsReachable
<1>1. Init => TypeOK /\ Placed
  BY InitTyped, InitPlaced
<1>2. TypeOK /\ Placed /\ [Next]_vars => (TypeOK /\ Placed)'
  BY NextTyped, NextPlaced
<1>3. Placed => SlotsReachable
  BY ReachableMeans DEF Placed
<1>4. QED
  BY <1>1, <1>2, <1>3, PTL DEF Spec

\* A query with an index is not of a function without subleaves.  (QEMU marks
\* 0xB and 0x1F, the queries with an index, as having subleaves.)
QueriesFit ==
  \A k \in DOMAIN Queries, m \in Models :
    Queries[k].indexed => ~Nonindexed(m, Queries[k].function)

\* No function has a slot with an index and, but for the probes, one without.
LEMMA OneKindOfKey ==
  ASSUME TypeOK, KeysOfModel, IndexedKeys, QueriesFit,
         NEW f \in Functions \ ProbeFunctions,
         NEW n \in 0..(Size - 1), slots[n].valid, slots[n].function = f,
         NEW p \in 0..(Size - 1), slots[p].valid, slots[p].function = f
  PROVE  slots[n].indexed = slots[p].indexed
<1>1. ASSUME NEW a \in 0..(Size - 1), slots[a].valid, slots[a].function = f,
             NEW b \in 0..(Size - 1), slots[b].valid, slots[b].function = f,
             slots[a].indexed, ~slots[b].indexed
      PROVE  FALSE
  <2>1. Nonindexed(model, f) /\ model \in Models
    BY <1>1 DEF KeysOfModel, TypeOK
  <2>2. \/ \E k \in DOMAIN model.entries :
             model.entries[k].function = f /\ model.entries[k].indexed
        \/ \E k \in DOMAIN Queries :
             Queries[k].function = f /\ Queries[k].indexed
    BY <1>1 DEF IndexedKeys
  <2>3. QED
    BY <2>1, <2>2 DEF Nonindexed, QueriesFit
<1>2. slots[n].indexed \in BOOLEAN /\ slots[p].indexed \in BOOLEAN
  BY DEF TypeOK
<1>3. QED
  BY <1>1, <1>2

\* A slot that has a key of the request is where full probing ends.
LEMMA KeyedIsFullHit ==
  ASSUME TypeOK, KeysOfModel, Placed, QueriesFit,
         NEW f \in Functions \ ProbeFunctions, NEW i \in Indexes,
         NEW n \in 0..(Size - 1), NEW x \in BOOLEAN, Keyed(n, f, i, x)
  PROVE  FullHit(f, i) = {n}
<1> DEFINE j == IF x THEN i ELSE 0
<1>1. /\ slots[n].valid /\ slots[n].function = f /\ slots[n].indexed = x
      /\ Subleaf(slots[n]) = j
  BY DEF Keyed, HasKey, Subleaf
<1>2. n \in Found(slots, f, j, x)
  BY <1>1 DEF Placed, Reachable
<1>3. Probed(f, i, x) = {n}
  BY <1>2, ProbedFound, FoundOnce
<1>4. ASSUME x PROVE Probed(f, i, FALSE) = {}
  <2>1. SUFFICES ASSUME NEW p \in Probed(f, i, FALSE) PROVE FALSE
    OBVIOUS
  <2>2. PICK d \in 0..(ProbeLimit - 1) : p = Probe(f, 0, d) /\ Keyed(p, f, i, FALSE)
    BY <2>1 DEF Probed
  <2>3. p \in 0..(Size - 1)
    BY <2>2, ProbeInTable, CpuidModelAssumption, CpuidCacheAssumption
  <2>4. slots[p].valid /\ slots[p].function = f /\ slots[p].indexed = FALSE
    BY <2>2 DEF Keyed, HasKey
  <2>5. QED
    BY <1>1, <1>4, <2>3, <2>4, OneKindOfKey DEF Placed
<1>5. CASE x
  BY <1>3, <1>4, <1>5 DEF FullHit
<1>6. CASE ~x
  BY <1>3, <1>6 DEF FullHit
<1>7. QED
  BY <1>5, <1>6

\* The early path takes a slot that has a key of the request.
LEMMA EarlyKeyed ==
  ASSUME TypeOK, NEW f \in Functions, NEW i \in Indexes, EarlyHit(f, i) # {}
  PROVE  \E n \in 0..(Size - 1), x \in BOOLEAN :
           Keyed(n, f, i, x) /\ EarlyHit(f, i) = {n}
<1> DEFINE last == {n \in {mru} \ {Size} : \E x \in BOOLEAN : Keyed(n, f, i, x)}
           home(x) == {n \in {Home[<<f, IF x THEN i ELSE 0>>]} : Keyed(n, f, i, x)}
<1>1. EarlyHit(f, i) = IF last # {} THEN last
                       ELSE IF home(FALSE) # {} THEN home(FALSE) ELSE home(TRUE)
  BY Zenon DEF EarlyHit
<1>2. \A n \in last : n \in 0..(Size - 1) /\ last = {n} /\ \E x \in BOOLEAN : Keyed(n, f, i, x)
  BY CpuidCacheAssumption DEF TypeOK
<1>3. \A x \in BOOLEAN : \A n \in home(x) :
        n \in 0..(Size - 1) /\ home(x) = {n} /\ Keyed(n, f, i, x)
  BY CpuidModelAssumption, CpuidCacheAssumption
<1>4. PICK S : /\ S # {} /\ S = EarlyHit(f, i)
              /\ \/ S = last
                 \/ \E x \in BOOLEAN : S = home(x)
  <2> HIDE DEF last, home
  <2>1. QED
    BY <1>1
<1>5. PICK n \in S : TRUE
  BY <1>4
<1>6. CASE S = last
  BY <1>2, <1>4, <1>5, <1>6
<1>7. ASSUME NEW x \in BOOLEAN, S = home(x)
      PROVE  n \in 0..(Size - 1) /\ EarlyHit(f, i) = {n} /\ Keyed(n, f, i, x)
  BY <1>3, <1>4, <1>5, <1>7
<1>8. QED
  BY <1>4, <1>6, <1>7

\* Where the early path finds a slot, full probing finds the same one.
THEOREM EarlySame == QueriesFit => (Spec => []EarlyAgrees)
<1> SUFFICES ASSUME QueriesFit PROVE Spec => []EarlyAgrees
  OBVIOUS
<1>1. Init => TypeOK /\ Safe /\ Placed
  BY InitTyped, InitSafe, InitPlaced
<1>2. TypeOK /\ Safe /\ Placed /\ [Next]_vars => (TypeOK /\ Safe /\ Placed)'
  BY NextTyped, NextSafe, NextPlaced
<1>3. TypeOK /\ Safe /\ Placed => EarlyAgrees
  <2>1. SUFFICES ASSUME TypeOK, Safe, Placed,
                        NEW f \in Functions \ ProbeFunctions, NEW i \in Indexes,
                        EarlyHit(f, i) # {}
                 PROVE  EarlyHit(f, i) = FullHit(f, i)
    BY DEF EarlyAgrees
  <2>2. PICK n \in 0..(Size - 1), x \in BOOLEAN :
          Keyed(n, f, i, x) /\ EarlyHit(f, i) = {n}
    BY <2>1, EarlyKeyed
  <2>3. FullHit(f, i) = {n}
    BY <2>1, <2>2, KeyedIsFullHit DEF Safe
  <2>4. QED
    BY <2>2, <2>3
<1>4. QED
  BY <1>1, <1>2, <1>3, PTL DEF Spec
-----------------------------------------------------------------------------
\* The refinement.

\* The abstract module means by its operators what this one does.
LEMMA SameArchitecture ==
  /\ Architecture!NoAnswer = NoAnswer
  /\ \A f, i : Architecture!Allowed(f, i) =
       Promised(model, cpu, f, i)
         \cup (IF f \in ProbeFunctions THEN Promised(model, cpu, f, 0) ELSE {})
<1>1. \A m, f, i : Architecture!Matching(m, f, i) = Matching(m, f, i)
  BY DEF Architecture!Matching, Matching
<1>2. \A m, f, i : /\ Architecture!Has(m, f, i) = Has(m, f, i)
                   /\ Architecture!Find(m, f, i) = Find(m, f, i)
  BY <1>1 DEF Architecture!Has, Has, Architecture!Find, Find
<1>3. \A m, f, i : /\ Architecture!HostLeaf(m, f) = HostLeaf(m, f)
                   /\ Architecture!Redirected(m, f, i) = Redirected(m, f, i)
  BY <1>2 DEF Architecture!HostLeaf, HostLeaf, Architecture!Redirected, Redirected
<1>4. \A k, f, i, s : /\ Architecture!Copy(k, f, i, s) = Copy(k, f, i, s)
                      /\ Architecture!Blank(k, f, i) = Blank(k, f, i)
  BY DEF Architecture!Copy, Copy, Architecture!Blank, Blank
<1>5. \A m, s, f, i : Architecture!Answer(m, s, f, i) = Answer(m, s, f, i)
  BY <1>2, <1>3, <1>4 DEF Architecture!Answer, Answer
<1>6. \A f, s : Architecture!Alike(f, s) = Alike(f, s)
  BY DEF Architecture!Alike, Alike, Architecture!Volatile, Volatile,
         Architecture!CpuState, CpuState
<1>7. \A m, s, f, i : Architecture!Promised(m, s, f, i) = Promised(m, s, f, i)
  BY <1>5, <1>6 DEF Architecture!Promised, Promised
<1>8. QED
  BY <1>7 DEF Architecture!Allowed, Architecture!NoAnswer, NoAnswer

\* Every lookup ends in a slot that holds one of the keys of the request.
LEMMA HitKeyed ==
  ASSUME TypeOK, NEW f \in Functions, NEW i \in Indexes, NEW n \in Hit(f, i)
  PROVE  n \in 0..(Size - 1) /\ \E x \in BOOLEAN : Keyed(n, f, i, x)
<1>a. 0 \in Indexes /\ Size \in Nat \ {0}
  BY CpuidModelAssumption, CpuidCacheAssumption
<1>1. ASSUME NEW x \in BOOLEAN, n \in Probed(f, i, x)
      PROVE  n \in 0..(Size - 1) /\ Keyed(n, f, i, x)
  <2> DEFINE j == IF x THEN i ELSE 0
  <2>1. j \in Indexes
    BY <1>a
  <2>2. PICK l \in 0..(ProbeLimit - 1) : n = Probe(f, j, l) /\ Keyed(n, f, i, x)
    BY <1>1 DEF Probed
  <2>3. l \in Nat
    OBVIOUS
  <2>4. QED
    BY <2>1, <2>2, <2>3, ProbeInTable
<1>2. CASE n \in EarlyHit(f, i)
  <2>1. ASSUME NEW j \in Indexes
        PROVE  Home[f, j] \in 0..(Size - 1)
    <3>1. <<f, j>> \in Functions \X Indexes
      OBVIOUS
    <3>2. QED
      BY <3>1, CpuidCacheAssumption
  <2>2. mru # Size => mru \in 0..(Size - 1)
    BY <1>a DEF TypeOK
  <2>3. \E x \in BOOLEAN : Keyed(n, f, i, x)
    BY <1>2 DEF EarlyHit
  <2>4. n \in {mru} \ {Size} \/ \E x \in BOOLEAN : n = Home[f, IF x THEN i ELSE 0]
    BY <1>2 DEF EarlyHit
  <2>5. n \in 0..(Size - 1)
    BY <1>a, <2>1, <2>2, <2>4
  <2>6. QED
    BY <2>3, <2>5
<1>3. QED
  BY <1>1, <1>2 DEF Hit, FullHit

\* Every step is a CPUID answered as promised, a change of the state, or a
\* stutter.
LEMMA StepImplemented ==
  TypeOK /\ Safe /\ TypeOK' /\ [Next]_vars => [Architecture!Next]_<<model, cpu, out>>
<1> SUFFICES ASSUME TypeOK, Safe, TypeOK', [Next]_vars
             PROVE  [Architecture!Next]_<<model, cpu, out>>
  OBVIOUS
<1>a. ASSUME out' = NoAnswer PROVE Architecture!Next
  <2>1. Architecture!CpuState = CpuState
    BY DEF Architecture!CpuState, CpuState
  <2>2. QED
    BY <1>a, <2>1, SameArchitecture DEF Architecture!Next, Architecture!Change, TypeOK
<1>b. ASSUME NEW f \in Functions, NEW i \in Indexes, NEW v, Reply(f, i, v),
             UNCHANGED <<model, cpu>>,
             \/ v \in Promised(model, cpu, f, i)
             \/ f \in ProbeFunctions /\ v \in Promised(model, cpu, f, 0)
      PROVE  Architecture!Next
  <2>1. v \in Architecture!Allowed(f, i)
    BY <1>b, SameArchitecture
  <2>2. QED
    BY <1>b, <2>1 DEF Architecture!Next, Architecture!Cpuid, Reply
<1>1. CASE InsertEntry \/ InsertQuery \/ FinishTable
  BY <1>1, <1>a DEF InsertEntry, InsertQuery, FinishTable
<1>2. CASE SetCpuid \/ SetCpuidAgain \/ GetCpuid \/ SetRegister \/ SetMsr
  BY <1>2, <1>a DEF SetCpuid, SetCpuidAgain, GetCpuid, SetRegister, SetMsr
<1>3. CASE KvmRun \/ KvmRunReturns \/ VmxVcpuRun \/ VmExit
  BY <1>3, <1>a DEF KvmRun, KvmRunReturns, VmxVcpuRun, VmExit
<1>4. CASE Migrate \/ PeerWritesControl
  BY <1>4, <1>a DEF Migrate, PeerWritesControl
<1>5. ASSUME NEW u \in BOOLEAN, NEW p \in BOOLEAN, VmEnter(u, p)
      PROVE  Architecture!Next
  BY <1>5, <1>a DEF VmEnter
<1>6. ASSUME NEW f \in Functions, NEW i \in Indexes, CpuidInner(f, i)
      PROVE  Architecture!Next
  <2>1. PICK n \in Hit(f, i) : Reply(f, i, slots[n].value)
    BY <1>6 DEF CpuidInner
  <2>2. PICK x \in BOOLEAN : n \in 0..(Size - 1) /\ Keyed(n, f, i, x)
    BY <2>1, HitKeyed
  <2>3. /\ slots[n].valid /\ slots[n].function = f
        /\ slots[n].index = (IF x THEN i ELSE 0) /\ slots[n].indexed = x
    BY <2>2 DEF Keyed, HasKey
  <2>4. ~dirty /\ ~outdated
    BY <1>6 DEF CpuidInner, Safe, ArmedClean
  <2>5. slots[n].value \in Promised(model, cpu, f, IF x THEN i ELSE 0)
    BY <2>2, <2>3, <2>4 DEF Safe, TableIsCurrent, Current
  <2>6. CASE x
    BY <1>6, <1>b, <2>1, <2>5, <2>6 DEF CpuidInner, cpuidState
  <2>7. CASE ~x
    <3>1. f \in ProbeFunctions \/ Nonindexed(model, f)
      BY <2>2, <2>3, <2>7 DEF Safe, KeysOfModel
    <3>2. Nonindexed(model, f) =>
            Promised(model, cpu, f, i) = Promised(model, cpu, f, 0)
      BY NonindexedAnswer DEF TypeOK
    <3>3. QED
      BY <1>6, <1>b, <2>1, <2>5, <2>7, <3>1, <3>2 DEF CpuidInner, cpuidState
  <2>8. QED
    BY <2>6, <2>7
<1>7. ASSUME NEW f \in Functions, NEW i \in Indexes
      PROVE  KvmCpuid(f, i) \in Promised(model, cpu, f, i)
  BY KvmCpuidAnswer, OwnAnswerPromised DEF Safe, TypeOK
<1>8. ASSUME NEW f \in Functions, NEW i \in Indexes, CpuidFast(f, i)
      PROVE  Architecture!Next
  <2>1. UNCHANGED <<model, cpu>>
    BY <1>8 DEF CpuidFast, cpuidState
  <2>2. CASE f = 0 /\ cpuid0 # NoCpuid0
    <3>1. Has(model, 0, 0) /\ cpuid0 = Copy(Find(model, 0, 0), 0, 0, cpu)
      BY <1>8, <2>2 DEF CpuidFast, Safe, LeafZeroCopied
    <3>2. cpuid0 = Answer(model, cpu, f, i)
      BY <2>2, <3>1, LeafZeroAnswer DEF TypeOK
    <3>3. cpuid0 \in Promised(model, cpu, f, i)
      BY <3>2, OwnAnswerPromised DEF TypeOK
    <3>4. QED
      BY <1>8, <1>b, <2>1, <2>2, <3>3 DEF CpuidFast
  <2>3. CASE ~(f = 0 /\ cpuid0 # NoCpuid0)
    BY <1>8, <1>7, <1>b, <2>1, <2>3 DEF CpuidFast
  <2>4. QED
    BY <2>2, <2>3
<1>9. ASSUME NEW f \in Functions, NEW i \in Indexes, CpuidSlow(f, i)
      PROVE  Architecture!Next
  BY <1>9, <1>7, <1>b DEF CpuidSlow
<1>10. CASE UNCHANGED vars
  BY <1>10 DEF vars, cpuidState
<1>11. QED
  BY <1>1, <1>2, <1>3, <1>4, <1>5, <1>6, <1>8, <1>9, <1>10 DEF Next

\* The virtual CPU gives a guest the CPUID answers that it is promised,
\* whichever of the table, the copy of leaf 0 and kvm_cpuid gives them.
THEOREM Refinement == Spec => AnswersAsPromised
<1>1. Init => TypeOK /\ Safe
  BY InitTyped, InitSafe
<1>2. TypeOK /\ Safe /\ [Next]_vars => (TypeOK /\ Safe)'
  BY NextTyped, NextSafe
<1>3. Init => Architecture!Init
  <2>1. Architecture!CpuState = CpuState
    BY DEF Architecture!CpuState, CpuState
  <2>2. QED
    BY <2>1, SameArchitecture DEF Init, Architecture!Init
<1>4. TypeOK /\ Safe /\ [Next]_vars => [Architecture!Next]_<<model, cpu, out>>
  BY NextTyped, StepImplemented
<1>5. QED
  BY <1>1, <1>2, <1>3, <1>4, PTL
     DEF Spec, AnswersAsPromised, Architecture!Spec, Architecture!vars
=============================================================================
