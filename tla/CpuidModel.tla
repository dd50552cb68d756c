----------------------------- MODULE CpuidModel -----------------------------
(***************************************************************************)
(* What KVM's kvm_cpuid() answers, as a function of the CPUID entries that *)
(* userspace configured and of the state of the virtual CPU that adjusts   *)
(* them.  A register value is abstracted to where it comes from: the entry *)
(* it was copied from and the adjustments made to it.  The guest's vendor  *)
(* is Intel: max-leaf redirection applies.                                 *)
(***************************************************************************)
EXTENDS Naturals, Sequences

CONSTANTS
  Functions,      \* CPUID functions (EAX) that occur
  Indexes,        \* subleaf numbers (ECX) that occur
  RuntimeLeaves,  \* leaves 1, 7 and 0xD, patched by kvm_update_cpuid_runtime
  TsxLeaf,        \* leaf 7: RTM and HLE hidden on MSR_IA32_TSX_CTRL
  InvtscLeaf,     \* leaf 0x80000007: invariant TSC hidden on a Hyper-V control
  HostLeaves,     \* leaves 6, 0x15, 0x16 and 0x1A, answered by the host core
  TopologyLeaves, \* leaves 0xB and 0x1F
  Models          \* what userspace may configure

Entry == [function : Functions, index : Indexes, indexed : BOOLEAN,
          stateful : BOOLEAN]

\* beyond: the functions above the limit of their class, or of no class;
\* basic: the functions up to the highest basic leaf, maxBasic.
Model == [entries : Seq(Entry), basic : SUBSET Functions,
          beyond : SUBSET Functions, maxBasic : Functions]

\* Leaf 0 and leaf 7 carry the flags the architecture gives them.
ASSUME CpuidModelAssumption ==
  /\ 0 \in Functions /\ {0, 1} \subseteq Indexes
  /\ Functions \subseteq Nat /\ Indexes \subseteq Nat
  /\ \A m \in Models :
       /\ m \in Model
       /\ \A k \in DOMAIN m.entries :
            /\ m.entries[k].function = 0 => ~m.entries[k].indexed
            /\ m.entries[k].function = TsxLeaf => m.entries[k].indexed
       /\ m.maxBasic # InvtscLeaf
  /\ 0 \notin RuntimeLeaves \cup HostLeaves \cup TopologyLeaves
  /\ 0 \notin {TsxLeaf, InvtscLeaf}

-----------------------------------------------------------------------------

\* The state besides the entries that an answer depends on.
CpuState == [runtime : BOOLEAN,    \* CR4, XCR0, XSS, APIC base, MISC_ENABLE
             tsxHidden : BOOLEAN,  \* MSR_IA32_TSX_CTRL
             invtsc : BOOLEAN,     \* kvm_hv_invtsc_suppressed, of the whole VM
             core : {"P", "E"}]    \* type of the logical CPU it runs on

Matching(m, f, i) ==
  {k \in DOMAIN m.entries :
     m.entries[k].function = f /\ (m.entries[k].indexed => m.entries[k].index = i)}

Has(m, f, i) == Matching(m, f, i) # {}

\* __kvm_find_cpuid_entry2: the first match, where there is one.
Find(m, f, i) ==
  CHOOSE k \in Matching(m, f, i) : \A j \in Matching(m, f, i) : k <= j

\* Leaves whose answer changes without the virtual CPU's own doing.
Volatile == HostLeaves \cup {InvtscLeaf}

\* ovo_cpuid_host_leaf
HostLeaf(m, f) == f \in HostLeaves \cap m.basic /\ Has(m, 0, 0)

\* get_out_of_range_cpuid_entry: the function that answers in place of f.
Redirected(m, f, i) ==
  IF ~Has(m, f, i) /\ f \in m.beyond /\ Has(m, 0, 0) THEN m.maxBasic ELSE f

\* An answer: a copy of an entry with its adjustments, or no entry's at all.
Copy(k, f, i, s) ==
  [source |-> "entry", leaf |-> k,
   runtime |-> f \in RuntimeLeaves /\ s.runtime,
   tsxHidden |-> f = TsxLeaf /\ i = 0 /\ s.tsxHidden,
   invtsc |-> f = InvtscLeaf /\ s.invtsc, other |-> <<>>]

Blank(from, k, detail) ==
  [source |-> from, leaf |-> k, runtime |-> FALSE, tsxHidden |-> FALSE,
   invtsc |-> FALSE, other |-> detail]

\* kvm_cpuid, once the runtime bits of the entries are up to date.  The leaves
\* that the host core answers have no subleaves.
Answer(m, s, f, i) ==
  LET g == Redirected(m, f, i)
  IN IF HostLeaf(m, f) THEN Blank("host", 0, <<s.core, f>>)
     ELSE IF Has(m, g, i) THEN Copy(Find(m, g, i), g, i, s)
     ELSE IF g \in TopologyLeaves /\ Has(m, g, 1)
     THEN Blank("topology", Find(m, g, 1), <<i>>)
     ELSE Blank("zero", 0, <<>>)

\* The answers that are right in state s: that of s, and for a volatile leaf
\* also those of before the host or another virtual CPU changed it.
Alike(f, s) ==
  IF f \in Volatile
  THEN {t \in CpuState : t.runtime = s.runtime /\ t.tsxHidden = s.tsxHidden}
  ELSE {s}

Promised(m, s, f, i) == {Answer(m, t, f, i) : t \in Alike(f, s)}
=============================================================================
