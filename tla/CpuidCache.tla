----------------------------- MODULE CpuidCache -----------------------------
(***************************************************************************)
(* The patched KVM answers CPUID from a hash table kept per virtual CPU,   *)
(* in the assembly of the VM exit, without coming back to C.  The table is *)
(* a copy of the answers of kvm_cpuid(); it is rebuilt on the way into the *)
(* guest when a generation counter moved.  This module is one virtual CPU: *)
(* its ioctls, its run loop and its guest, with what other virtual CPUs    *)
(* and the host's scheduler change beside it.                              *)
(***************************************************************************)
EXTENDS CpuidModel

CONSTANTS
  Queries,    \* vmx_cpuid_fast_cache_queries
  Size,       \* slots of the table
  ProbeLimit, \* VMX_CPUID_FAST_CACHE_PROBES
  Home        \* the hash of a function and an index

Query == [function : Functions, index : Indexes, indexed : BOOLEAN]

ASSUME CpuidCacheAssumption ==
  /\ Size \in Nat \ {0} /\ ProbeLimit \in 1..Size
  /\ Home \in [Functions \X Indexes -> 0..(Size - 1)]
  /\ Queries \in Seq(Query)
  /\ \A k \in DOMAIN Queries : ~Queries[k].indexed => Queries[k].index = 0

VARIABLES
  model,     \* the configured entries
  cpu,       \* the state that adjusts the answers
  applied,   \* the runtime bits stored in the entries
  dirty,     \* cpuid_dynamic_bits_dirty
  outdated,  \* cpuid_fast_cache_generation # cpuid_dynamic_generation
  slots,     \* cpuid_fast_cache
  mru,       \* cpuid_fast_mru, a slot number, or Size for NULL
  cpuid0,    \* cpuid0_cache
  entered,   \* last_vmentry_cpu # -1
  pc,        \* where the virtual CPU's thread is
  next,      \* the entry or query that the rebuilding loop is at
  armed,     \* VMX_RUN_CPUID_INNER_FASTPATH of this VM entry
  early,     \* VMX_RUN_CPUID_INNER_EARLY of this VM entry
  out        \* the answer this step gives to the guest

cpuidState == <<model, cpu, applied, dirty, outdated>>
table == <<slots, mru, cpuid0>>
thread == <<entered, pc, next, armed, early>>
vars == <<cpuidState, table, thread, out>>

EmptySlot == [function |-> 0, index |-> 0, indexed |-> FALSE, valid |-> FALSE,
              value |-> Blank("zero", 0, <<>>)]
NoCpuid0 == Blank("zero", 0, <<>>)
NoAnswer == [function |-> 0, index |-> 0, value |-> <<>>]

\* "set" and "fill": the two loops that build the table, in the ioctl and on
\* the way into the guest with interrupts off; "enter": behind the latter.
Pcs == {"user", "set", "loop", "fill", "enter", "guest"}

Init ==
  /\ model \in {m \in Models : m.entries = <<>>}
  /\ cpu \in {s \in CpuState : ~s.runtime /\ ~s.tsxHidden /\ ~s.invtsc}
  /\ applied = FALSE /\ dirty = FALSE /\ outdated = FALSE
  /\ slots = [n \in 0..(Size - 1) |-> EmptySlot] /\ mru = Size
  /\ cpuid0 = NoCpuid0
  /\ entered = FALSE /\ pc = "user" /\ next = 1
  /\ armed = FALSE /\ early = FALSE /\ out = NoAnswer

-----------------------------------------------------------------------------

\* kvm_update_cpuid_runtime
UpdateRuntime ==
  /\ applied' = cpu.runtime
  /\ dirty' = FALSE
  /\ outdated' = TRUE

UpdateIfDirty ==
  IF dirty THEN UpdateRuntime ELSE UNCHANGED <<applied, dirty, outdated>>

\* kvm_cpuid(f, i): the entries hold the runtime bits of the last update.
KvmCpuid(f, i) ==
  Answer(model, [cpu EXCEPT !.runtime = IF dirty THEN cpu.runtime ELSE applied],
         f, i)

Reply(f, i, v) == out' = [function |-> f, index |-> i, value |-> v]

-----------------------------------------------------------------------------
\* The table.

\* vmx_cpuid_fast_cacheable_function
Cacheable(f) ==
  LET of == {model.entries[k] : k \in {j \in DOMAIN model.entries :
                                         model.entries[j].function = f}}
  IN /\ \A e \in of : ~e.stateful
     /\ \A e, d \in of : e.indexed = d.indexed

Probe(f, i, n) == (Home[f, i] + n) % Size

HasKey(slot, f, i, indexed) ==
  /\ slot.valid /\ slot.function = f /\ slot.index = i
  /\ slot.indexed = indexed

\* Mutant: a key that is met on the way is no reason to stop.
InsertAtFirstFree(f, i, indexed) ==
  {n \in 0..(ProbeLimit - 1) :
     /\ ~slots[Probe(f, i, n)].valid
     /\ \A l \in 0..(n - 1) : slots[Probe(f, i, l)].valid}

\* The slot that an insertion of this key writes: the first free one of the
\* sequence, unless the key is met before it or the sequence ends.
InsertAt(f, i, indexed) ==
  {n \in 0..(ProbeLimit - 1) :
     /\ ~slots[Probe(f, i, n)].valid
     /\ \A l \in 0..(n - 1) : /\ slots[Probe(f, i, l)].valid
                              /\ ~HasKey(slots[Probe(f, i, l)], f, i, indexed)}

\* One turn of a building loop.
Insert(f, i, indexed) ==
  IF InsertAt(f, i, indexed) = {} THEN UNCHANGED <<slots, applied, dirty, outdated>>
  ELSE /\ \E n \in InsertAt(f, i, indexed) :
            slots' = [slots EXCEPT ![Probe(f, i, n)] =
                        [function |-> f, index |-> i, indexed |-> indexed,
                         valid |-> TRUE, value |-> KvmCpuid(f, i)]]
       /\ UpdateIfDirty

Building == pc \in {"set", "fill"}
Entries == Len(model.entries)

InsertEntry ==
  /\ Building /\ next \in DOMAIN model.entries
  /\ LET e == model.entries[next]
     IN IF Cacheable(e.function)
        THEN Insert(e.function, IF e.indexed THEN e.index ELSE 0, e.indexed)
        ELSE UNCHANGED <<slots, applied, dirty, outdated>>
  /\ next' = next + 1 /\ out' = NoAnswer
  /\ UNCHANGED <<model, cpu, mru, cpuid0, entered, pc, armed, early>>

\* vmx_cpuid_fast_cache_synthetic
InsertQuery ==
  /\ Building /\ next - Entries \in DOMAIN Queries
  /\ LET q == Queries[next - Entries]
     IN Insert(q.function, q.index, q.indexed)
  /\ next' = next + 1 /\ out' = NoAnswer
  /\ UNCHANGED <<model, cpu, mru, cpuid0, entered, pc, armed, early>>

\* The table is complete; only the ioctl copies leaf 0.
FinishTable ==
  /\ Building /\ next = Entries + Len(Queries) + 1
  /\ outdated' = FALSE
  /\ cpuid0' = IF pc = "fill" THEN cpuid0
               ELSE IF ~Has(model, 0, 0) THEN NoCpuid0
               ELSE Copy(Find(model, 0, 0), 0, 0, cpu)
  /\ pc' = IF pc = "fill" THEN "enter" ELSE "user"
  /\ out' = NoAnswer
  /\ UNCHANGED <<model, cpu, applied, dirty, slots, mru, entered, next,
                 armed, early>>

\* Mutant: the loop starts before the first entry.
StartTableBefore ==
  /\ slots' = [n \in 0..(Size - 1) |-> EmptySlot]
  /\ mru' = Size
  /\ next' = 0

StartTable ==
  /\ slots' = [n \in 0..(Size - 1) |-> EmptySlot]
  /\ mru' = Size
  /\ next' = 1

-----------------------------------------------------------------------------
\* Userspace: KVM_SET_CPUID2 and KVM_GET_CPUID2.

\* kvm_set_cpuid before the first entry: the table is built by the ioctl.
SetCpuid ==
  /\ pc = "user" /\ ~entered
  /\ model' \in Models
  /\ UpdateRuntime
  /\ StartTable /\ pc' = "set" /\ out' = NoAnswer
  /\ UNCHANGED <<cpu, cpuid0, entered, armed, early>>

\* ... and afterwards, when only what is set already is accepted; another
\* model has had its runtime bits updated by then, and is taken back.
SetCpuidAgain ==
  /\ pc = "user" /\ entered
  /\ applied' = IF dirty THEN cpu.runtime ELSE applied
  /\ dirty' = FALSE /\ outdated' = TRUE /\ out' = NoAnswer
  /\ UNCHANGED <<model, cpu, table, thread>>

\* kvm_vcpu_ioctl_get_cpuid2, or a kvm_set_cpuid that kvm_check_cpuid refuses.
GetCpuid ==
  /\ pc = "user"
  /\ UpdateIfDirty
  /\ out' = NoAnswer
  /\ UNCHANGED <<model, cpu, table, thread>>

\* An ioctl writes registers, the guest does and exits, or the run loop
\* resets the virtual CPU: in every case C code runs, and the flags of the
\* VM entry that ended are gone.
InC ==
  /\ pc \in {"user", "loop", "guest"}
  /\ pc' = IF pc = "user" THEN "user" ELSE "loop"
  /\ armed' = FALSE /\ early' = FALSE

\* CR4.OSXSAVE and PKE, XCR0, or the APIC base of KVM_SET_SREGS.
SetRegister ==
  /\ InC
  /\ cpu' = [cpu EXCEPT !.runtime = ~@]
  /\ dirty' = TRUE /\ out' = NoAnswer
  /\ UNCHANGED <<model, applied, outdated, table, entered, next>>

\* Mutant: writing an MSR does not outdate the table.
SetMsrUnnoticed ==
  /\ InC
  /\ \/ cpu' = [cpu EXCEPT !.runtime = ~@] /\ dirty' = TRUE
     \/ cpu' = [cpu EXCEPT !.tsxHidden = ~@] /\ UNCHANGED dirty
     \/ cpu' = [cpu EXCEPT !.invtsc = ~@] /\ UNCHANGED dirty
     \/ UNCHANGED <<cpu, dirty>>
  /\ out' = NoAnswer
  /\ UNCHANGED <<model, applied, outdated, table, entered, next>>

\* vmx_set_msr: MSR_IA32_XSS, APICBASE or MISC_ENABLE; TSX_CTRL; the Hyper-V
\* TSC control; or an MSR that CPUID does not depend on.
SetMsr ==
  /\ InC
  /\ \/ cpu' = [cpu EXCEPT !.runtime = ~@] /\ dirty' = TRUE
     \/ cpu' = [cpu EXCEPT !.tsxHidden = ~@] /\ UNCHANGED dirty
     \/ cpu' = [cpu EXCEPT !.invtsc = ~@] /\ UNCHANGED dirty
     \/ UNCHANGED <<cpu, dirty>>
  /\ outdated' = TRUE /\ out' = NoAnswer
  /\ UNCHANGED <<model, applied, table, entered, next>>

-----------------------------------------------------------------------------
\* The run loop.

KvmRun ==
  /\ pc = "user" /\ pc' = "loop" /\ out' = NoAnswer
  /\ UNCHANGED <<cpuidState, table, entered, next, armed, early>>

KvmRunReturns ==
  /\ pc = "loop" /\ pc' = "user" /\ out' = NoAnswer
  /\ UNCHANGED <<cpuidState, table, entered, next, armed, early>>

\* vmx_vcpu_run up to the table: interrupts are off from here on.
VmxVcpuRun ==
  /\ pc = "loop"
  /\ entered' = TRUE /\ out' = NoAnswer
  /\ \/ outdated /\ StartTable /\ pc' = "fill"
     \/ ~outdated /\ UNCHANGED <<slots, mru, next>> /\ pc' = "enter"
  /\ UNCHANGED <<cpuidState, cpuid0, armed, early>>

\* Mutant: a pending update does not block the inner loop.
VmEnterDirty(unblocked, preSpill) ==
  /\ pc = "enter" /\ pc' = "guest" /\ out' = NoAnswer
  /\ armed' = unblocked
  /\ early' = (unblocked /\ preSpill)
  /\ UNCHANGED <<cpuidState, table, entered, next>>

\* ... and from the blockers on.  unblocked: all of them but the dynamic
\* bits (module parameters, tracing, L1D flush, nesting, SMM, debugging,
\* CPUID faulting, instruction counters, an immediate exit).
VmEnter(unblocked, preSpill) ==
  /\ pc = "enter" /\ pc' = "guest" /\ out' = NoAnswer
  /\ armed' = (unblocked /\ ~dirty)
  /\ early' = (unblocked /\ ~dirty /\ preSpill)
  /\ UNCHANGED <<cpuidState, table, entered, next>>

\* An exit that is no CPUID and changes nothing CPUID depends on.
VmExit ==
  /\ pc = "guest" /\ InC /\ out' = NoAnswer
  /\ UNCHANGED <<cpuidState, table, entered, next>>

-----------------------------------------------------------------------------
\* The guest executes CPUID.

Keyed(n, f, i, indexed) ==
  HasKey(slots[n], f, IF indexed THEN i ELSE 0, indexed)

\* .Lcpuid_inner_probe: the slot where probing finds the key, or none.
Probed(f, i, indexed) ==
  LET j == IF indexed THEN i ELSE 0
  IN {Probe(f, j, n) : n \in
       {n \in 0..(ProbeLimit - 1) :
          /\ Keyed(Probe(f, j, n), f, i, indexed)
          /\ \A l \in 0..(n - 1) : /\ slots[Probe(f, j, l)].valid
                                   /\ ~Keyed(Probe(f, j, l), f, i, indexed)}}

FullHit(f, i) ==
  IF Probed(f, i, FALSE) # {} THEN Probed(f, i, FALSE) ELSE Probed(f, i, TRUE)

\* Mutant: the last hit is taken for every subleaf of its function.
EarlyHitAnyIndex(f, i) ==
  LET last == {n \in {mru} \ {Size} : slots[n].valid /\ slots[n].function = f}
      home(x) == {n \in {Home[f, IF x THEN i ELSE 0]} : Keyed(n, f, i, x)}
  IN IF last # {} THEN last
     ELSE IF home(FALSE) # {} THEN home(FALSE) ELSE home(TRUE)

\* The path before the registers are spilled: the slot of the last hit,
\* and the home slot of either key.
EarlyHit(f, i) ==
  LET last == {n \in {mru} \ {Size} : \E x \in BOOLEAN : Keyed(n, f, i, x)}
      home(x) == {n \in {Home[f, IF x THEN i ELSE 0]} : Keyed(n, f, i, x)}
  IN IF last # {} THEN last
     ELSE IF home(FALSE) # {} THEN home(FALSE) ELSE home(TRUE)

Hit(f, i) ==
  IF early /\ EarlyHit(f, i) # {} THEN EarlyHit(f, i) ELSE FullHit(f, i)

\* Answered in assembly; the guest goes on without coming back to C.
CpuidInner(f, i) ==
  /\ pc = "guest" /\ armed
  /\ \E n \in Hit(f, i) : Reply(f, i, slots[n].value) /\ mru' = n
  /\ UNCHANGED <<cpuidState, slots, cpuid0, thread>>

\* handle_fastpath_cpuid and vmx_emulate_cpuid_fast, interrupts off.
CpuidFast(f, i) ==
  /\ pc = "guest" /\ InC /\ ~dirty
  /\ Reply(f, i, IF f = 0 /\ cpuid0 # NoCpuid0 THEN cpuid0 ELSE KvmCpuid(f, i))
  /\ UNCHANGED <<cpuidState, table, entered, next>>

\* kvm_emulate_cpuid
CpuidSlow(f, i) ==
  /\ pc = "guest" /\ InC
  /\ UpdateIfDirty
  /\ Reply(f, i, KvmCpuid(f, i))
  /\ UNCHANGED <<model, cpu, table, entered, next>>

-----------------------------------------------------------------------------
\* Beside the virtual CPU.

\* The scheduler moves the thread, where it can be preempted.
Migrate ==
  /\ pc \in {"user", "set", "loop"}
  /\ \E c \in {"P", "E"} : cpu' = [cpu EXCEPT !.core = c]
  /\ out' = NoAnswer
  /\ UNCHANGED <<model, applied, dirty, outdated, table, thread>>

\* Another virtual CPU writes the Hyper-V control, which is the VM's.
PeerWritesControl ==
  /\ cpu' = [cpu EXCEPT !.invtsc = ~@] /\ out' = NoAnswer
  /\ UNCHANGED <<model, applied, dirty, outdated, table, thread>>

Next ==
  \/ SetCpuid \/ SetCpuidAgain \/ GetCpuid \/ SetRegister \/ SetMsr
  \/ InsertEntry \/ InsertQuery \/ FinishTable
  \/ KvmRun \/ KvmRunReturns \/ VmxVcpuRun \/ VmExit
  \/ \E unblocked, preSpill \in BOOLEAN : VmEnter(unblocked, preSpill)
  \/ \E f \in Functions, i \in Indexes :
       CpuidInner(f, i) \/ CpuidFast(f, i) \/ CpuidSlow(f, i)
  \/ Migrate \/ PeerWritesControl

Spec == Init /\ [][Next]_vars

-----------------------------------------------------------------------------

\* Every variable keeps its type.
TypeOK ==
  /\ model \in Models /\ cpu \in CpuState
  /\ {applied, dirty, outdated, entered, armed, early} \subseteq BOOLEAN
  /\ slots = [n \in 0..(Size - 1) |-> slots[n]]
  /\ \A n \in 0..(Size - 1) :
       /\ slots[n].function \in Functions /\ slots[n].index \in Indexes
       /\ slots[n].indexed \in BOOLEAN /\ slots[n].valid \in BOOLEAN
  /\ mru \in 0..Size
  /\ pc \in Pcs /\ next \in Nat \ {0}

Current(slot) ==
  slot.value \in Promised(model, cpu, slot.function, slot.index)

\* When the generations agree and no runtime update is pending, every slot
\* of the table, and at any time every slot of a table being built, holds
\* what kvm_cpuid would answer now for the slot's own function and index.  A
\* Volatile leaf is excepted: its slot may hold what kvm_cpuid answered before
\* the thread moved to another core or another virtual CPU wrote the Hyper-V
\* control, neither of which moves this virtual CPU's generation (NothingStale).
TableIsCurrent ==
  Building \/ (~dirty /\ ~outdated) =>
    \A n \in 0..(Size - 1) : slots[n].valid => Current(slots[n])

ProbeFunctions ==
  {Queries[k].function : k \in {j \in DOMAIN Queries : ~Queries[j].indexed}}

\* The path before the registers are spilled never answers other than the
\* full probing would: the slot it takes is the slot that probing finds.
EarlyAgrees ==
  pc = "guest" => \A f \in Functions \ ProbeFunctions, i \in Indexes :
                    EarlyHit(f, i) # {} => EarlyHit(f, i) = FullHit(f, i)

\* Collisions lose no slot: every valid slot is where probing for its key
\* ends, so no key is stored twice either.
SlotsReachable ==
  \A n \in 0..(Size - 1) : slots[n].valid =>
    Probed(slots[n].function, slots[n].index, slots[n].indexed) = {n}

\* The guest gets of CPUID what the architecture promises, whichever of
\* the table, the copy of leaf 0 and kvm_cpuid answers.
Architecture == INSTANCE CpuidArchitecture WITH Probes <- ProbeFunctions
AnswersAsPromised == Architecture!Spec

\* vmx_cpuid_fast_cache_queries caches redirected leaves under index 0,
\* get_out_of_range_cpuid_entry says that the index is observed: no answer
\* is that of another subleaf.
IndexObserved ==
  [][out' # out /\ out' # NoAnswer /\ out'.function \notin Volatile =>
       out'.value = Answer(model, cpu, out'.function, out'.index)]_vars

\* The cached values "are generated through KVM's own kvm_cpuid() path", so that
\* runtime adjustments are preserved: no answer is that of an earlier state of
\* the virtual machine or of another core, not to a Volatile leaf either.  This
\* does not hold (README.md, What the models show besides).
NothingStale ==
  [][out' # out /\ out' # NoAnswer /\ out'.function \notin ProbeFunctions =>
       out'.value = Answer(model, cpu, out'.function, out'.index)]_vars

\* kvm_find_cpuid_entry2 asserts that interrupts are on: what looks entries up
\* with it, as the update of the runtime bits does, is not done on the way into
\* the guest, where the table is rebuilt with interrupts off.  This does not hold.
UpdatesInterruptible == [][pc = "fill" => ~(dirty /\ ~dirty')]_vars
=============================================================================
