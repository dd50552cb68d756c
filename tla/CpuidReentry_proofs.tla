------------------------ MODULE CpuidReentry_proofs ------------------------
(***************************************************************************)
(* Proofs about CpuidReentry: what the assembly code resumes the guest     *)
(* with and hands to the C code.                                           *)
(***************************************************************************)
EXTENDS CpuidReentry, TLAPS

USE PeriodAssumption

\* All registers as the guest left them, or all but the two CPUID overwrites
\* that the early path uses first.
AllIn(f) == \A r \in Regs : f[r] = "in"
Scratched(f) == \A r \in Regs \ {"rbx", "rdx"} : f[r] = "in"

\* The switches are on only for a guest whose CPUID does not fault.
FastMeansNoFault == pc # "run" /\ flags # {} => ~fault

\* A verdict of the early path lasts until the registers are saved.
VerdictsShort ==
  pc \in {"entry", "guest", "exit", "early", "earlyHit", "lookup", "hit", "resume"}
    => flags \cap Verdicts = {}

\* Where the VMCS is launched whatever the C code knows.
Launched ==
  /\ pc = "guest" => vmcs
  /\ pc \in {"exit", "save", "saved"} /\ exit # "failedEntry" => vmcs
  /\ pc \in {"early", "earlyHit", "lookup", "hit"} => vmcs

\* The instruction pointer is at the instruction everywhere but at a
\* resumption.
NotAdvanced == pc \notin {"guest", "resume", "failed"} => rip = 0

\* What the registers and the array hold at each place of the code.
Contents ==
  /\ pc \in {"run", "entry"} => AllIn(array)
  /\ pc = "exit" => AllIn(hw)
  /\ pc \in {"early", "earlyHit"} =>
       exit = "cpuid" /\ "INNER_EARLY" \in flags /\ Scratched(hw)
  /\ pc \in {"lookup", "hit"} => exit = "cpuid" /\ ~fault /\ Scratched(array)

\* After a verdict: a validated CPUID may have lost RBX and RDX, a rejected
\* one
\* has not.
AfterVerdict(f) ==
  /\ "EARLY_VALIDATED" \in flags =>
       exit = "cpuid" /\ Scratched(f) /\ "EARLY_REJECTED" \notin flags
  /\ "EARLY_VALIDATED" \notin flags => AllIn(f)

Spilled ==
  /\ pc = "save" => AfterVerdict(hw)
  /\ pc = "saved" => AfterVerdict(array)

Inv ==
  /\ TypeOK
  /\ FastMeansNoFault
  /\ VerdictsShort
  /\ Launched
  /\ NotAdvanced
  /\ Contents
  /\ Spilled
  /\ ResumesExactly
  /\ ReturnsUntouched
  /\ pc = "resume" => \A r \in CpuidRegs : array[r] = "out"
  /\ FailureSynchronized

-----------------------------------------------------------------------------

\* Nothing has been entered at first.
LEMMA InitInv == Init => Inv
<1> SUFFICES ASSUME Init PROVE Inv
  OBVIOUS
<1>1. TypeOK
  <2>1. hw \in [Regs -> {"in", "out", "junk"}] /\ array \in [Regs -> {"in", "out", "junk"}]
    BY DEF Init, Holds
  <2>2. left \in 0..Period /\ delta \in 0..Period /\ counter \in 0..Period
    BY DEF Init
  <2>3. fault \in BOOLEAN /\ launched \in BOOLEAN /\ vmcs \in BOOLEAN /\ irq \in BOOLEAN
    BY DEF Init
  <2>4. pc \in Labels /\ exit \in Exits /\ flags \subseteq Flags /\ rip \in 0..1
    BY DEF Init, Labels, Exits
  <2> QED
    BY <2>1, <2>2, <2>3, <2>4 DEF TypeOK
<1>2. AllIn(array)
  BY DEF Init, AllIn, Holds
<1> QED
  BY <1>1, <1>2 DEF Init, Inv, FastMeansNoFault, VerdictsShort, Launched, NotAdvanced,
     Contents, Spilled, ResumesExactly, ReturnsUntouched, FailureSynchronized

\* Every step of the C code, the assembly code and the processor keeps the
\* contents of the registers and the array as Inv says.
LEMMA NextInv == Inv /\ [Next]_vars => Inv'
<1> SUFFICES ASSUME Inv, [Next]_vars PROVE Inv'
  OBVIOUS
<1> USE DEF Inv, TypeOK, FastMeansNoFault, VerdictsShort, Launched, NotAdvanced, Contents,
            AllIn, Scratched, AfterVerdict, Spilled, ResumesExactly, ReturnsUntouched,
            FailureSynchronized, Labels, Exits, Flags, Verdicts, Regs, CpuidRegs,
            regs, launch, timer, Step, Holds
<1>1. CASE VmxVcpuRun
  BY <1>1 DEF VmxVcpuRun, Blockers
<1>2. CASE HandleExit
  <2>1. launched' \in BOOLEAN
    <3>1. launched' = (launched \/ exit # "failedEntry")
      BY <1>2 DEF HandleExit
    <3> HIDE DEF Inv
    <3> QED
      BY <3>1, Zenon
  <2>2. array' \in [Regs -> {"in", "out", "junk"}] /\ AllIn(array')
    <3>1. CASE exit \in {"cpuid", "cpuidEvent"} /\ ~fault
      <4>1. array' = [r \in Regs |-> IF r \in CpuidRegs THEN "in" ELSE array[r]]
        BY <1>2, <3>1 DEF HandleExit
      <4> QED
        BY <1>2, <4>1 DEF HandleExit
    <3>2. CASE ~(exit \in {"cpuid", "cpuidEvent"} /\ ~fault)
      <4>1. array' = array
        BY <1>2, <3>2 DEF HandleExit
      <4> QED
        BY <1>2, <3>2, <4>1 DEF HandleExit
    <3> QED
      BY <3>1, <3>2
  <2>3. left' \in 0..Period /\ pc' \in Labels /\ rip' \in 0..1
    BY <1>2 DEF HandleExit
  <2>4. irq' \in BOOLEAN
    <3>1. CASE exit = "interrupt"
      BY <1>2, <3>1 DEF HandleExit
    <3>2. CASE exit # "interrupt"
      <4>1. irq' = irq
        BY <1>2, <3>2 DEF HandleExit
      <4> QED
        BY <4>1
    <3> QED
      BY <3>1, <3>2
  <2>5. /\ pc = "return" /\ pc' \in {"run", "failed"} /\ rip' = 0
        /\ UNCHANGED <<exit, flags, hw, fault, vmcs, delta, counter>>
    BY <1>2 DEF HandleExit
  <2>6. TypeOK'
    <3>1. fault' \in BOOLEAN /\ vmcs' \in BOOLEAN
      BY <2>5
    <3>2. exit' \in Exits /\ flags' \subseteq Flags /\ hw' \in [Regs -> {"in", "out", "junk"}]
      BY <2>5
    <3>3. delta' \in 0..Period /\ counter' \in 0..Period
      BY <2>5
    <3> HIDE DEF Inv, Labels, Exits, Flags, Regs, CpuidRegs
    <3> QED
      BY <2>1, <2>2, <2>3, <2>4, <3>1, <3>2, <3>3
  <2> QED
    BY <2>2, <2>5, <2>6
<1>3. CASE SetFaulting
  BY <1>3 DEF SetFaulting
<1>4. CASE VmLaunchOrResume
  BY <1>4 DEF VmLaunchOrResume, Enters
<1>5. CASE VmResume
  BY <1>5 DEF VmResume, Enters
<1>6. CASE EntryFails
  BY <1>6 DEF EntryFails
<1>7. CASE VmFails
  BY <1>7 DEF VmFails
<1>8. CASE Tick
  BY <1>8 DEF Tick
<1>9. CASE HostInterrupt
  BY <1>9 DEF HostInterrupt
<1>10. CASE VmExit
  BY <1>10 DEF VmExit, Possible
<1>11. CASE SkipEarly
  BY <1>11 DEF SkipEarly
<1>12. CASE EarlyValidate
  BY <1>12 DEF EarlyValidate, PlainCpuid
<1>13. CASE EarlyReject
  BY <1>13 DEF EarlyReject
<1>14. CASE EarlyHit
  BY <1>14 DEF EarlyHit
<1>15. CASE EarlyMiss
  BY <1>15 DEF EarlyMiss
<1>16. CASE EarlyAnswer
  BY <1>16 DEF EarlyAnswer, Answered
<1>17. CASE EarlyAnswerFails
  BY <1>17 DEF EarlyAnswerFails
<1>18. CASE SaveRegs
  BY <1>18 DEF SaveRegs
<1>19. CASE RejectedSaved
  BY <1>19 DEF RejectedSaved
<1>20. CASE ValidatedSaved
  BY <1>20 DEF ValidatedSaved
<1>21. CASE Validate
  BY <1>21 DEF Validate, PlainCpuid
<1>22. CASE NotValidated
  BY <1>22 DEF NotValidated
<1>23. CASE Lookup
  BY <1>23 DEF Lookup
<1>24. CASE Answer
  BY <1>24 DEF Answer, Answered
<1>25. CASE AnswerFails
  BY <1>25 DEF AnswerFails
<1>26. CASE UNCHANGED vars
  BY <1>26 DEF vars
<1> QED
  BY <1>1, <1>2, <1>3, <1>4, <1>5, <1>6, <1>7, <1>8, <1>9, <1>10, <1>11, <1>12, <1>13, <1>14, <1>15, <1>16, <1>17, <1>18, <1>19, <1>20, <1>21, <1>22, <1>23, <1>24, <1>25, <1>26
     DEF Next, C, Asm, Guest

-----------------------------------------------------------------------------

\* What the registers, the array and the flags hold at each place of the code.
THEOREM Invariant == Spec => []Inv
<1> QED
  BY InitInv, NextInv, PTL DEF Spec

(* Every variable of the path stays within its type; above all the guest's
   instruction pointer is moved at most once for an exit.                   *)
THEOREM TypeCorrect == Spec => []TypeOK
<1>1. Inv => TypeOK
  BY DEF Inv
<1> QED
  BY <1>1, Invariant, PTL

(* The guest is resumed without the C code only with the answer to its CPUID
   in place and everything else untouched.                                  *)
THEOREM ResumedExactly == Spec => []ResumesExactly
<1>1. Inv => ResumesExactly
  BY DEF Inv
<1> QED
  BY <1>1, Invariant, PTL

(* Whichever step of the two paths gives up, the C code finds the exit as if
   the paths did not exist.                                                 *)
THEOREM ReturnedUntouched == Spec => []ReturnsUntouched
<1>1. Inv => ReturnsUntouched
  BY DEF Inv
<1> QED
  BY <1>1, Invariant, PTL

(* A VMRESUME that fails after an answer leaves the outputs in the array. *)
THEOREM FailedSynchronized == Spec => []FailureSynchronized
<1>1. Inv => FailureSynchronized
  BY DEF Inv
<1> QED
  BY <1>1, Invariant, PTL
=============================================================================
