---------------------------- MODULE CpuidReentry ----------------------------
(***************************************************************************)
(* vmx/vmenter.S of the patched KVM: __vmx_vcpu_run, which answers CPUID   *)
(* between two VM entries without returning to the C code.                 *)
(*                                                                         *)
(* After a VM exit the guest's registers are in the hardware.  The early   *)
(* path tries to answer before they are spilled, with RBX and RDX, which   *)
(* CPUID overwrites, as scratch; the full path answers from vcpu->arch.regs *)
(* (`array`).  Both fall back to the next one, and then to C, when one of  *)
(* their VMCS accesses fails.  What the cache holds is CpuidCache's        *)
(* subject; here a lookup hits or misses.                                  *)
(*                                                                         *)
(* A register is "in" when it holds what the guest had in it at the exit,  *)
(* "out" when it holds what CPUID has to answer, and "junk" otherwise.     *)
(* RSI stands for every register that CPUID leaves alone.                  *)
(***************************************************************************)
EXTENDS Naturals

CONSTANT Period  \* bound: ticks from one deadline of the guest's timer to the next

ASSUME PeriodAssumption == Period \in Nat \ {0}

CpuidRegs == {"rax", "rbx", "rcx", "rdx"}
Regs == CpuidRegs \cup {"rsi"}
Holds(value) == [r \in Regs |-> value]
Answered == [r \in Regs |-> IF r \in CpuidRegs THEN "out" ELSE "in"]

Exits == {"cpuid",      \* with nothing else going on
          "cpuidEvent", \* during event delivery, in an interrupt shadow, or with TF
          "interrupt",  \* of the host
          "timer",      \* the VMX preemption timer
          "other",
          "failedEntry"}
Flags == {"INNER_FASTPATH", "INNER_EARLY", "EARLY_VALIDATED", "EARLY_REJECTED"}

VARIABLES
  pc,        \* where the code is
  exit,      \* the exit being handled
  flags,     \* the @flags word on the stack
  hw,        \* the registers in the hardware
  array,     \* vcpu->arch.regs
  rip,       \* 1 when GUEST_RIP has been moved past the instruction of the exit
  fault,     \* cpuid_fault_enabled: the guest's CPUID raises #GP
  launched,  \* loaded_vmcs->launched
  vmcs,      \* is the VMCS launched?
  left,      \* ticks until hv_deadline_tsc
  delta,     \* VMX_PREEMPTION_TIMER_VALUE
  counter,   \* the preemption timer
  irq        \* is an interrupt of the host pending?

regs == <<hw, array, rip>>
launch == <<launched, vmcs>>
timer == <<left, delta, counter>>
vars == <<pc, exit, flags, regs, fault, launch, timer, irq>>

Labels == {"run", "entry", "guest", "exit", "early", "earlyHit", "save", "saved", "lookup",
           "hit", "resume", "return", "failed"}

TypeOK ==
  /\ pc \in Labels /\ exit \in Exits /\ flags \subseteq Flags
  /\ hw \in [Regs -> {"in", "out", "junk"}] /\ array \in [Regs -> {"in", "out", "junk"}]
  /\ rip \in 0..1 /\ fault \in BOOLEAN
  /\ launched \in BOOLEAN /\ vmcs \in BOOLEAN
  /\ left \in 0..Period /\ delta \in 0..Period /\ counter \in 0..Period
  /\ irq \in BOOLEAN

Init ==
  /\ pc = "run" /\ exit = "other" /\ flags = {}
  /\ hw = Holds("junk") /\ array = Holds("in") /\ rip = 0
  /\ fault \in BOOLEAN
  /\ launched = FALSE /\ vmcs = FALSE
  /\ left = Period /\ delta = 0 /\ counter = 0
  /\ irq = FALSE

Step(from, to) == pc = from /\ pc' = to

-----------------------------------------------------------------------------
(* The C code: vmx_vcpu_run, and what handles the exit.                    *)

\* vmx_cpuid_inner_fastpath_blockers.  The others, like tracing and
\* debugging, only make the C code see exits.
Blockers == fault

\* The preemption timer is set for the time that is left; the switches of
\* the module decide which of the paths are used.
VmxVcpuRun ==
  /\ Step("run", "entry")
  /\ delta' = left
  /\ flags' \in IF Blockers THEN {{}}
                ELSE {{}, {"INNER_FASTPATH"}, {"INNER_FASTPATH", "INNER_EARLY"}}
  /\ UNCHANGED <<exit, regs, fault, launch, left, counter, irq>>

\* An exit is handled: CPUID by vmx_emulate_cpuid_fast or kvm_emulate_cpuid,
\* which answers and skips the instruction, or injects #GP when it faults.
\* After a failed entry user space is told, and does not run the vCPU again.
HandleExit ==
  /\ pc = "return"
  /\ pc' = IF exit = "failedEntry" THEN "failed" ELSE "run"
  /\ launched' = (launched \/ exit # "failedEntry")
  /\ array' = IF exit \in {"cpuid", "cpuidEvent"} /\ ~fault
              THEN [r \in Regs |-> IF r \in CpuidRegs THEN "in" ELSE array[r]]
              ELSE array
  /\ rip' = 0
  /\ left' = IF exit = "timer" /\ left = 0 THEN Period ELSE left
  /\ irq' = IF exit = "interrupt" THEN FALSE ELSE irq
  /\ UNCHANGED <<exit, flags, hw, fault, vmcs, delta, counter>>

\* The guest writes MSR_MISC_FEATURES_ENABLES, which exits to C.
SetFaulting ==
  /\ pc = "run" /\ exit = "other"
  /\ fault' = ~fault
  /\ UNCHANGED <<pc, exit, flags, regs, launch, timer, irq>>

-----------------------------------------------------------------------------
(* Entry, the guest, and exit.                                             *)

\* The registers are loaded; VMLAUNCH, or VMRESUME when the VMCS is launched.
\* The timer starts from its value in the VMCS at every entry.
Enters ==
  /\ counter' = delta
  /\ vmcs' = TRUE
  /\ UNCHANGED <<exit, flags, array, fault, launched, left, delta, irq>>

VmLaunchOrResume ==
  /\ Step("entry", "guest")
  /\ launched = vmcs
  /\ hw' = array
  /\ UNCHANGED rip
  /\ Enters

VmResume ==
  /\ Step("resume", "guest")
  /\ UNCHANGED <<hw, rip>>
  /\ Enters

\* The guest state is invalid: no instruction runs, the VMCS is not launched.
EntryFails ==
  /\ Step("entry", "exit")
  /\ hw' = array
  /\ exit' = "failedEntry"
  /\ UNCHANGED <<flags, array, rip, fault, launch, timer, irq>>

\* .Lvmfail: VM-Fail, or a fault of the instruction while the host is rebooting: 1 is
\* returned, the registers are not saved, and the vCPU does not run again.
VmFails ==
  /\ pc \in {"entry", "resume"}
  /\ pc' = "failed"
  /\ UNCHANGED <<exit, flags, regs, fault, launch, timer, irq>>

Tick ==
  /\ pc = "guest" /\ counter > 0 /\ ~irq
  /\ counter' = counter - 1
  /\ left' = IF left > 0 THEN left - 1 ELSE 0
  /\ UNCHANGED <<pc, exit, flags, regs, fault, launch, delta, irq>>

HostInterrupt ==
  /\ irq' = TRUE
  /\ UNCHANGED <<pc, exit, flags, regs, fault, launch, timer>>

\* The expired timer, then a pending interrupt, come before any instruction.
Possible(e) ==
  CASE counter = 0  -> e = "timer"
    [] irq          -> e = "interrupt"
    [] OTHER        -> e \in {"cpuid", "cpuidEvent", "other"}

\* The guest has changed every register since the array was written.
VmExit ==
  /\ Step("guest", "exit")
  /\ \E e \in Exits : Possible(e) /\ exit' = e
  /\ hw' = Holds("in") /\ array' = Holds("junk")
  /\ rip' = 0
  /\ UNCHANGED <<flags, fault, launch, timer, irq>>

-----------------------------------------------------------------------------
(* The early path.                                                         *)

\* Mutant: the exit reason is not looked at.
AnyExit == TRUE

\* The exit reason without further flags, no event being delivered, no
\* interrupt shadow, no TF.
PlainCpuid == exit = "cpuid"

SkipEarly ==
  /\ Step("exit", "save")
  /\ "INNER_EARLY" \notin flags
  /\ UNCHANGED <<exit, flags, regs, fault, launch, timer, irq>>

\* RBX and RDX are dead now; the two values on the stack are discarded.
EarlyValidate ==
  /\ Step("exit", "early")
  /\ "INNER_EARLY" \in flags /\ PlainCpuid
  /\ hw' = [hw EXCEPT !["rbx"] = "junk", !["rdx"] = "junk"]
  /\ UNCHANGED <<exit, flags, array, rip, fault, launch, timer, irq>>

\* .Lcpuid_inner_early_restore: RBX and RDX are popped.  A VMREAD may fail.
EarlyReject ==
  /\ Step("exit", "save")
  /\ "INNER_EARLY" \in flags
  /\ flags' = flags \cup {"EARLY_REJECTED"}
  /\ UNCHANGED <<exit, regs, fault, launch, timer, irq>>

\* The last entry used, or the home slot of the leaf, is the one.
EarlyHit ==
  /\ Step("early", "earlyHit")
  /\ UNCHANGED <<exit, flags, regs, fault, launch, timer, irq>>

EarlyMiss ==
  /\ Step("early", "save")
  /\ flags' = flags \cup {"EARLY_VALIDATED"}
  /\ UNCHANGED <<exit, regs, fault, launch, timer, irq>>

\* Mutant: the canonical array is left to the C code.
EarlyAnswerHwOnly ==
  /\ Step("earlyHit", "resume")
  /\ rip' = rip + 1
  /\ hw' = [r \in Regs |-> IF r \in CpuidRegs THEN "out" ELSE hw[r]]
  /\ launched' = TRUE
  /\ UNCHANGED <<exit, flags, array, fault, vmcs, timer, irq>>

\* GUEST_RIP is written, then the outputs go to the array and the hardware.
EarlyAnswer ==
  /\ Step("earlyHit", "resume")
  /\ rip' = rip + 1
  /\ hw' = [r \in Regs |-> IF r \in CpuidRegs THEN "out" ELSE hw[r]]
  /\ array' = [r \in Regs |-> IF r \in CpuidRegs THEN "out" ELSE array[r]]
  /\ launched' = TRUE
  /\ UNCHANGED <<exit, flags, fault, vmcs, timer, irq>>

\* Mutant: the saved RAX and RCX are discarded.
EarlyAnswerFailsDirty ==
  /\ Step("earlyHit", "save")
  /\ hw' = [hw EXCEPT !["rax"] = "junk", !["rcx"] = "junk"]
  /\ flags' = flags \cup {"EARLY_VALIDATED"}
  /\ UNCHANGED <<exit, array, rip, fault, launch, timer, irq>>

\* .Lcpuid_inner_early_hit_fail: one of the accesses fails; RAX and RCX, which
\* were used for them, are popped.
EarlyAnswerFails ==
  /\ Step("earlyHit", "save")
  /\ flags' = flags \cup {"EARLY_VALIDATED"}
  /\ UNCHANGED <<exit, regs, fault, launch, timer, irq>>

-----------------------------------------------------------------------------
(* The full path.                                                          *)

\* From here on the registers are scratch.
SaveRegs ==
  /\ Step("save", "saved")
  /\ array' = hw /\ hw' = Holds("junk")
  /\ UNCHANGED <<exit, flags, rip, fault, launch, timer, irq>>

Verdicts == {"EARLY_VALIDATED", "EARLY_REJECTED"}

RejectedSaved ==
  /\ Step("saved", "return")
  /\ "EARLY_REJECTED" \in flags
  /\ flags' = flags \ Verdicts
  /\ UNCHANGED <<exit, regs, fault, launch, timer, irq>>

ValidatedSaved ==
  /\ Step("saved", "lookup")
  /\ "EARLY_REJECTED" \notin flags /\ "EARLY_VALIDATED" \in flags
  /\ flags' = flags \ Verdicts
  /\ UNCHANGED <<exit, regs, fault, launch, timer, irq>>

Validate ==
  /\ Step("saved", "lookup")
  /\ flags \cap Verdicts = {} /\ "INNER_FASTPATH" \in flags /\ PlainCpuid
  /\ UNCHANGED <<exit, flags, regs, fault, launch, timer, irq>>

\* The path is off, the exit is another one, or a VMREAD fails.
NotValidated ==
  /\ Step("saved", "return")
  /\ flags \cap Verdicts = {}
  /\ UNCHANGED <<exit, flags, regs, fault, launch, timer, irq>>

Lookup ==
  /\ pc = "lookup" /\ pc' \in {"hit", "return"}
  /\ UNCHANGED <<exit, flags, regs, fault, launch, timer, irq>>

\* Mutant: only the outputs are loaded.
AnswerWithoutReload ==
  /\ Step("hit", "resume")
  /\ rip' = rip + 1
  /\ array' = [r \in Regs |-> IF r \in CpuidRegs THEN "out" ELSE array[r]]
  /\ hw' = [r \in Regs |-> IF r \in CpuidRegs THEN "out" ELSE hw[r]]
  /\ launched' = TRUE
  /\ UNCHANGED <<exit, flags, fault, vmcs, timer, irq>>

\* GUEST_RIP is written, the outputs go to the array, and all registers are
\* loaded from there.
Answer ==
  /\ Step("hit", "resume")
  /\ rip' = rip + 1
  /\ array' = [r \in Regs |-> IF r \in CpuidRegs THEN "out" ELSE array[r]]
  /\ hw' = array'
  /\ launched' = TRUE
  /\ UNCHANGED <<exit, flags, fault, vmcs, timer, irq>>

AnswerFails ==
  /\ Step("hit", "return")
  /\ UNCHANGED <<exit, flags, regs, fault, launch, timer, irq>>

-----------------------------------------------------------------------------

C == VmxVcpuRun \/ HandleExit
Asm ==
  \/ VmLaunchOrResume \/ VmResume
  \/ SkipEarly \/ EarlyValidate \/ EarlyReject \/ EarlyHit \/ EarlyMiss
  \/ EarlyAnswer \/ EarlyAnswerFails
  \/ SaveRegs \/ RejectedSaved \/ ValidatedSaved \/ Validate \/ NotValidated
  \/ Lookup \/ Answer \/ AnswerFails
Guest == Tick \/ VmExit

Next == C \/ SetFaulting \/ Asm \/ EntryFails \/ VmFails \/ Guest \/ HostInterrupt

\* The code runs, time passes in the guest, and the host's own timer ticks.
Fairness ==
  /\ WF_vars(C) /\ WF_vars(Asm) /\ WF_vars(Guest) /\ WF_vars(HostInterrupt)

Spec == Init /\ [][Next]_vars /\ Fairness

-----------------------------------------------------------------------------

(* When the guest is resumed without the C code, it was a plain CPUID that it
   did, its instruction pointer has been moved once, the four outputs are in
   their registers, and every other register is as the guest left it.       *)
ResumesExactly ==
  pc = "resume" =>
    /\ exit = "cpuid" /\ ~fault
    /\ rip = 1 /\ hw = Answered
    /\ launched /\ vmcs

(* When the C code gets an exit, it is as if there were no other code: the
   instruction pointer is at the instruction, and the array holds the guest's
   registers, RBX and RDX of a CPUID it is going to answer excepted.        *)
ReturnsUntouched ==
  pc = "return" =>
    /\ rip = 0
    /\ \A r \in Regs :
         array[r] # "in" => r \in {"rbx", "rdx"} /\ exit = "cpuid" /\ ~fault

(* "Keep the canonical array synchronized for VMRESUME failure handling": when
   VMRESUME fails after an answer, the array holds the four outputs.        *)
FailureSynchronized ==
  pc = "failed" /\ rip = 1 => \A r \in CpuidRegs : array[r] = "out"

(* The timer of a guest that does nothing but CPUID is served in the end: its
   preemption timer starts anew at every entry, but the host's next interrupt
   takes the vCPU out of the assembly code.                                 *)
TimerServed == left = 0 ~> left = Period \/ pc = "failed"
=============================================================================
