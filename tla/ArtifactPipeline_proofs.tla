---------------------- MODULE ArtifactPipeline_proofs ----------------------
(***************************************************************************)
(* Proofs about ArtifactPipeline for every bound on the runs of 01 and on  *)
(* the builds: the type invariant; that a build never claims an identity   *)
(* it was not made for; and, when stages do not overlap, that the runtime  *)
(* of the defined domain is genuine and that the pipeline implements       *)
(* IdentityLifecycle.                                                      *)
(***************************************************************************)
EXTENDS ArtifactPipeline, TLAPS

USE MaxGenAssumption, MaxBuildAssumption, OverlapAssumption

(* An absent file and an absent build-info.json are values of their types. *)
LEMMA AbsentIsTyped == NoFile \in File /\ NoInfo \in Info
  BY DEF NoFile, NoInfo, File, Info

(* Every action keeps each variable of the model in its range. *)
LEMMA TypeInductive == TypeOK /\ [Next]_vars => TypeOK'
<1> SUFFICES ASSUME TypeOK, [Next]_vars PROVE TypeOK'
  OBVIOUS
<1> USE DEF TypeOK, Goto, Exit, disk, counters, check, Stages, Builders
<1>0. "binary" \in Checked /\ NoInfo \in Info /\ NoFile \in File
  BY AbsentIsTyped DEF Checked, RuntimeFiles, BuildFiles
<1>1. CASE Generate
  <2>1. CASE BuildRecord
    <3>1. lastGen + 1 \in 0..MaxGen
      BY <2>1 DEF BuildRecord
    <3> QED
      BY <3>1, <2>1 DEF BuildRecord, Labels
  <2>2. CASE WriteSmbios
    BY <2>2 DEF WriteSmbios, Labels
  <2>3. CASE WriteIdentity
    BY <1>0, <2>3 DEF WriteIdentity, Labels
  <2> QED
    BY <1>1, <2>1, <2>2, <2>3 DEF Generate
<1>2. ASSUME NEW s \in Stages, LoadIdentity(s) PROVE TypeOK'
  BY <1>2 DEF LoadIdentity, Labels
<1>3. ASSUME NEW s \in Stages, Stop(s) PROVE TypeOK'
  BY <1>0, <1>3 DEF Stop, Labels
<1>4. ASSUME NEW b \in Builders, Builder(b) PROVE TypeOK'
  <2>1. CASE AcceptContract(b) \/ OutputEmpty(b)
    BY <2>1 DEF AcceptContract, OutputEmpty, Labels
  <2>2. CASE RemoveOld(b)
    <3>1. ASSUME NEW f \in BuildFiles PROVE [out EXCEPT ![f] = NoFile] \in [BuildFiles -> File]
      BY AbsentIsTyped
    <3>2. [info EXCEPT ![b] = NoInfo] \in [Builders -> Info]
      BY AbsentIsTyped
    <3>3. Outputs[b] \subseteq BuildFiles
      BY DEF Outputs, Products, BuildFiles
    <3> QED
      BY <3>1, <3>2, <3>3, <2>2 DEF RemoveOld
  <2>3. CASE BeginBuild(b)
    <3>1. [gen |-> 0, serial |-> serial + 1] \in File
      BY <2>3 DEF BeginBuild, File
    <3> QED
      BY <3>1, <2>3 DEF BeginBuild, OutputBy, Labels
  <2>5. CASE FinishBuild(b)
    <3>1. PICK f \in Products[b] : OutputBy(b, [gen |-> mem[b], serial |-> out[f].serial])
      BY <2>5 DEF FinishBuild
    <3>2. f \in BuildFiles
      BY DEF Products, BuildFiles
    <3>3. [gen |-> mem[b], serial |-> out[f].serial] \in File
      BY <3>2 DEF File
    <3> QED
      BY <3>1, <3>3, <2>5 DEF FinishBuild, OutputBy, Labels
  <2>4. CASE WriteInfo(b)
    <3>1. PICK f \in Products[b] :
            info' = [info EXCEPT ![b] = [id |-> mem[b], hash |-> json, sum |-> out[f]]]
      BY <2>4 DEF WriteInfo
    <3>2. f \in BuildFiles
      BY DEF Products, BuildFiles
    <3>3. [id |-> mem[b], hash |-> json, sum |-> out[f]] \in Info
      BY <3>2 DEF Info
    <3> QED
      BY <1>0, <3>1, <3>3, <2>4 DEF WriteInfo, Labels
  <2> QED
    BY <1>4, <2>1, <2>2, <2>3, <2>4, <2>5 DEF Builder
<1>5. CASE Apply
  <2>1. CASE AcceptArtifacts \/ HashIdentity \/ Define
    BY <1>0, <2>1 DEF AcceptArtifacts, HashIdentity, Define, Labels
  <2>2. ASSUME NEW b \in Builders, ReadInfo(b) PROVE TypeOK'
    BY <2>2 DEF ReadInfo, Labels, Checked, RuntimeFiles, BuildFiles
  <2>3. CASE HashProduct
    BY <1>0, <2>3 DEF HashProduct, ProductMatches, Labels, Checked, RuntimeFiles, BuildFiles
  <2>4. CASE CopyDataDirectory
    <3>1. torn' \in SUBSET RuntimeFiles
      BY <2>4 DEF CopyDataDirectory, Written, RuntimeFiles, BuildFiles
    <3>2. runtime' \in [Gens -> [RuntimeFiles -> File]]
      <4>1. "data" \in RuntimeFiles /\ out["data"] \in File
        BY DEF RuntimeFiles, BuildFiles
      <4>2. CASE runtime' = runtime
        BY <4>2
      <4>3. CASE runtime' = [runtime EXCEPT ![mem["apply"]]["data"] = out["data"]]
        BY <4>1, <4>3
      <4> QED
        BY <2>4, <4>2, <4>3 DEF CopyDataDirectory
    <3> QED
      BY <3>1, <3>2, <2>4 DEF CopyDataDirectory, Labels, RuntimeFiles, BuildFiles
  <2>5. ASSUME NEW f \in RuntimeFiles, CopyFile(f) PROVE TypeOK'
    <3>1. Source(f) \in File
      BY <2>5 DEF CopyFile, Source, File, Checked, RuntimeFiles, BuildFiles
    <3>2. AfterCopy[f] \in Labels
      BY DEF AfterCopy, Labels, RuntimeFiles, BuildFiles
    <3>3. torn' \in SUBSET RuntimeFiles
      BY <2>5 DEF CopyFile, Written
    <3> QED
      BY <3>1, <3>2, <3>3, <2>5 DEF CopyFile
  <2>6. ASSUME NEW f \in RuntimeFiles, CopyCutShort(f) PROVE TypeOK'
    <3>1. torn' \in SUBSET RuntimeFiles
      BY <2>6 DEF CopyCutShort, Written
    <3>2. runtime' \in [Gens -> [RuntimeFiles -> File]]
      BY <1>0, <2>6 DEF CopyCutShort
    <3>3. pc' \in [Stages -> Labels]
      BY <2>6 DEF CopyCutShort, Labels
    <3>4. mem' \in [Stages -> 0..MaxGen]
      BY <2>6 DEF CopyCutShort
    <3>5. digest' \in 0..MaxGen /\ seen' \in Info /\ at' \in Checked
      BY <1>0, <2>6 DEF CopyCutShort
    <3> QED
      BY <3>1, <3>2, <3>3, <3>4, <3>5, <2>6 DEF CopyCutShort
  <2>7. CASE CompareCopy
    <3>1. at # "smbios" => AfterCopy[at] \in Checked
      BY <2>7 DEF AfterCopy, Checked, RuntimeFiles, BuildFiles
    <3> QED
      BY <1>0, <3>1, <2>7 DEF CompareCopy, Labels
  <2> QED
    BY <1>5, <2>1, <2>2, <2>3, <2>4, <2>5, <2>6, <2>7 DEF Apply
<1>6. CASE UNCHANGED vars
  BY <1>6 DEF vars
<1> QED
  BY <1>1, <1>2, <1>3, <1>4, <1>5, <1>6 DEF Next

(* The type invariant. *)
THEOREM TypeCorrect == Spec => []TypeOK
<1>1. Init => TypeOK
  BY DEF Init, TypeOK, NoFile, NoInfo, File, Info, Labels, Checked, RuntimeFiles, BuildFiles
<1> QED
  BY <1>1, TypeInductive, PTL DEF Spec

-----------------------------------------------------------------------------
(* A build's claim about itself.  This needs no assumption on Overlap: the  *)
(* other stages write neither the output directory of a builder nor its     *)
(* memory.                                                                  *)

(* The output directories of 02 and 03 have no file in common. *)
LEMMA OutputsDisjoint ==
  ASSUME NEW a \in Builders, NEW b \in Builders, a # b
  PROVE  /\ Products[a] \subseteq Outputs[a]
         /\ Outputs[a] \cap Outputs[b] = {}
         /\ Outputs[a] \subseteq BuildFiles
  BY DEF Builders, Products, Outputs, BuildFiles

HonestInv == ProductsBuilt /\ BuildInfoHonest

(* A step keeps the products of a builder and its build-info.json in line.  *)
LEMMA HonestInductive == TypeOK /\ HonestInv /\ [Next]_vars => HonestInv'
<1> SUFFICES ASSUME TypeOK, HonestInv, [Next]_vars PROVE HonestInv'
  OBVIOUS
<1> USE DEF HonestInv, ProductsBuilt, BuildInfoHonest
<1>1. CASE Generate
  BY <1>1 DEF Generate, BuildRecord, WriteSmbios, WriteIdentity, Goto, Exit,
              disk, counters, TypeOK, Stages, Builders
<1>2. ASSUME NEW s \in Stages, LoadIdentity(s) PROVE HonestInv'
  BY <1>2 DEF LoadIdentity, MayStart, Goto, disk, TypeOK, Stages, Builders
<1>3. ASSUME NEW s \in Stages, Stop(s) PROVE HonestInv'
  BY <1>3 DEF Stop, Goto, Exit, disk, TypeOK, Stages, Builders
<1>4. ASSUME NEW b \in Builders, Builder(b) PROVE HonestInv'
  <2>1. CASE AcceptContract(b) \/ OutputEmpty(b)
    BY <2>1 DEF AcceptContract, OutputEmpty, Goto, disk, TypeOK, Stages, Builders
  <2>2. CASE RemoveOld(b)
    <3>1. ASSUME NEW a \in Builders, pc'[a] = "info", NEW f \in Products[a]
          PROVE  out'[f].gen = mem'[a]
      <4>1. a # b /\ pc[a] = "info" /\ mem'[a] = mem[a]
        BY <2>2, <3>1 DEF RemoveOld
      <4>2. out'[f] = out[f]
        BY <4>1, <2>2, OutputsDisjoint DEF RemoveOld, TypeOK
      <4> QED
        BY <4>1, <4>2
    <3>2. ASSUME NEW a \in Builders PROVE info'[a].id = info'[a].sum.gen
      BY <2>2 DEF RemoveOld, NoInfo, NoFile, TypeOK
    <3> QED
      BY <3>1, <3>2
  <2>3. CASE BeginBuild(b)
    <3>1. info' = info /\ mem' = mem
      BY <2>3 DEF BeginBuild
    <3>2. ASSUME NEW a \in Builders, pc'[a] = "info", NEW f \in Products[a]
          PROVE  out'[f].gen = mem'[a]
      <4>1. a # b /\ pc[a] = "info"
        BY <3>2, <2>3 DEF BeginBuild, Goto, TypeOK, Stages
      <4>2. f \notin Outputs[b] /\ f \in BuildFiles
        BY <4>1, OutputsDisjoint
      <4> QED
        BY <4>1, <4>2, <2>3, <3>1 DEF BeginBuild, OutputBy
    <3> QED
      BY <3>1, <3>2
  <2>5. CASE FinishBuild(b)
    <3>1. info' = info /\ mem' = mem
      BY <2>5 DEF FinishBuild
    <3>2. PICK g \in Products[b] : OutputBy(b, [gen |-> mem[b], serial |-> out[g].serial])
      BY <2>5 DEF FinishBuild
    <3>3. ASSUME NEW a \in Builders, pc'[a] = "info", NEW f \in Products[a]
          PROVE  out'[f].gen = mem'[a]
      <4>1. CASE a = b
        BY <4>1, <3>1, <3>2 DEF OutputBy, Products, Outputs, BuildFiles, Builders
      <4>2. CASE a # b
        <5>1. f \notin Outputs[b] /\ f \in BuildFiles
          BY <4>2, OutputsDisjoint
        <5>2. pc[a] = "info"
          BY <4>2, <3>3, <2>5 DEF FinishBuild, Goto, TypeOK, Stages
        <5> QED
          BY <5>1, <5>2, <3>1, <3>2 DEF OutputBy
      <4> QED
        BY <4>1, <4>2
    <3> QED
      BY <3>1, <3>3
  <2>4. CASE WriteInfo(b)
    <3>1. PICK f \in Products[b] :
            info' = [info EXCEPT ![b] = [id |-> mem[b], hash |-> json, sum |-> out[f]]]
      BY <2>4 DEF WriteInfo
    <3>2. out[f].gen = mem[b]
      BY <2>4 DEF WriteInfo
    <3>3. ASSUME NEW a \in Builders PROVE info'[a].id = info'[a].sum.gen
      BY <3>1, <3>2 DEF TypeOK
    <3>4. ASSUME NEW a \in Builders, pc'[a] = "info"
          PROVE  a # b /\ pc[a] = "info" /\ mem'[a] = mem[a] /\ out' = out
      BY <3>4, <2>4 DEF WriteInfo, Exit, Goto, TypeOK, Stages
    <3> QED
      BY <3>3, <3>4
  <2> QED
    BY <1>4, <2>1, <2>2, <2>3, <2>4, <2>5 DEF Builder
<1>5. CASE Apply
  <2>1. /\ info' = info /\ out' = out
        /\ \A b \in Builders : pc'[b] = pc[b] /\ mem'[b] = mem[b]
    BY <1>5 DEF Apply, AcceptArtifacts, HashIdentity, ReadInfo, HashProduct,
       ProductMatches, CopyDataDirectory, CopyFile, CopyCutShort, CompareCopy, Define, Goto, Exit, disk, TypeOK, Stages, Builders
  <2> QED
    BY <2>1
<1>6. CASE UNCHANGED vars
  BY <1>6 DEF vars
<1> QED
  BY <1>1, <1>2, <1>3, <1>4, <1>5, <1>6 DEF Next

(* 02 and 03 never publish a build-info.json that names an identity their    *)
(* products were not made for, however the stages are interleaved.           *)
THEOREM HonestBuilds == Spec => []BuildInfoHonest
<1>1. Init => HonestInv
  BY DEF Init, HonestInv, ProductsBuilt, BuildInfoHonest, NoInfo, NoFile, Stages, Builders
<1>2. HonestInv => BuildInfoHonest
  BY DEF HonestInv
<1> QED
  BY <1>1, <1>2, HonestInductive, TypeCorrect, PTL DEF Spec

(* What 04 parsed is of the identity it applies, and no other stage touches   *)
(* it: build-info.json may be gone or rewritten while the products are hashed. *)
LEMMA SeenInductive == TypeOK /\ HonestInv /\ SeenMatches /\ [Next]_vars => SeenMatches'
<1> SUFFICES ASSUME TypeOK, HonestInv, SeenMatches, [Next]_vars PROVE SeenMatches'
  OBVIOUS
<1> USE DEF SeenMatches, Goto, Exit, check, TypeOK, Stages, Builders
<1>1. CASE Generate
  BY <1>1 DEF Generate, BuildRecord, MayStart, WriteSmbios, WriteIdentity
<1>2. ASSUME NEW s \in Stages, LoadIdentity(s) \/ Stop(s) PROVE SeenMatches'
  BY <1>2 DEF LoadIdentity, MayStart, Stop
<1>3. ASSUME NEW b \in Builders, Builder(b) PROVE SeenMatches'
  BY <1>3 DEF Builder, AcceptContract, RemoveOld, OutputEmpty, BeginBuild, FinishBuild, WriteInfo
<1>4. CASE Apply
  <2>1. ASSUME NEW b \in Builders, ReadInfo(b) PROVE SeenMatches'
    BY <2>1 DEF ReadInfo, InfoMatches, HonestInv, BuildInfoHonest
  <2>2. CASE HashProduct
    BY <2>2 DEF HashProduct, ProductMatches
  <2>3. CASE AcceptArtifacts \/ HashIdentity \/ CopyDataDirectory
    BY <2>3 DEF AcceptArtifacts, HashIdentity, CopyDataDirectory
  <2>5. CASE CompareCopy
    BY <2>5 DEF CompareCopy
  <2>6. CASE Define
    BY <2>6 DEF Define
  <2>4. ASSUME NEW f \in RuntimeFiles, CopyFile(f) \/ CopyCutShort(f) PROVE SeenMatches'
    <3>1. f \notin {"hash", "compare"} /\ AfterCopy[f] # "hash"
      BY DEF AfterCopy, RuntimeFiles, BuildFiles
    <3>2. CASE CopyFile(f)
      BY <3>1, <3>2 DEF CopyFile
    <3>3. CASE CopyCutShort(f)
      BY <3>3 DEF CopyCutShort
    <3> QED
      BY <2>4, <3>2, <3>3
  <2> QED
    BY <1>4, <2>1, <2>2, <2>3, <2>4, <2>5, <2>6 DEF Apply
<1>5. CASE UNCHANGED vars
  BY <1>5 DEF vars
<1> QED
  BY <1>1, <1>2, <1>3, <1>4, <1>5 DEF Next

(* Before anything has run there is no build and nothing parsed.            *)
LEMMA InitHonest == Init => HonestInv /\ SeenMatches
  BY DEF Init, HonestInv, ProductsBuilt, BuildInfoHonest, SeenMatches, NoInfo, NoFile,
     Stages, Builders

(* Only a product whose hash is right takes 04 further in its checks.       *)
LEMMA OnlyHashAdvances ==
  ASSUME TypeOK, [Next]_vars,
         pc["apply"] = "hash", pc'["apply"] # "idle",
         <<pc["apply"], at>>' # <<pc["apply"], at>>
  PROVE  HashProduct
<1> USE DEF Goto, Exit, check, TypeOK, Stages, Builders
<1>1. CASE Generate
  BY <1>1 DEF Generate, BuildRecord, WriteSmbios, WriteIdentity
<1>2. ASSUME NEW s \in Stages, LoadIdentity(s) \/ Stop(s) PROVE FALSE
  BY <1>2 DEF LoadIdentity, MayStart, Stop
<1>3. ASSUME NEW a \in Builders, Builder(a) PROVE FALSE
  BY <1>3 DEF Builder, AcceptContract, RemoveOld, OutputEmpty, BeginBuild, FinishBuild, WriteInfo
<1>4. CASE Apply
  <2>1. ASSUME NEW a \in Builders PROVE ~ReadInfo(a)
    BY DEF ReadInfo
  <2>2. ~(AcceptArtifacts \/ HashIdentity \/ CopyDataDirectory \/ CompareCopy \/ Define)
    BY DEF AcceptArtifacts, HashIdentity, CopyDataDirectory, CompareCopy, Define
  <2>3. ASSUME NEW f \in RuntimeFiles PROVE ~CopyFile(f) /\ ~CopyCutShort(f)
    BY DEF CopyFile, CopyCutShort, RuntimeFiles, BuildFiles
  <2> QED
    BY <1>4, <2>1, <2>2, <2>3 DEF Apply
<1>5. CASE UNCHANGED vars
  BY <1>5 DEF vars
<1> QED
  BY <1>1, <1>2, <1>3, <1>4, <1>5 DEF Next

(* Whatever runs between 04's reads, the products it accepts were made for    *)
(* the identity it has in memory: build-info.json names an identity from the  *)
(* builder's memory, and the hashes tie what 04 parsed to the products it     *)
(* finds later, one after the other.                                         *)
THEOREM AcceptedGenuine == Spec => AcceptedBuildsGenuine
<1>1. TypeOK /\ SeenMatches /\ [Next]_vars =>
        [(/\ pc["apply"] = "hash"
          /\ pc'["apply"] # "idle"
          /\ <<pc["apply"], at>>' # <<pc["apply"], at>>)
         => out[at].gen = mem["apply"]]_vars
  <2>1. ASSUME TypeOK, SeenMatches, [Next]_vars,
               pc["apply"] = "hash", pc'["apply"] # "idle",
               <<pc["apply"], at>>' # <<pc["apply"], at>>
        PROVE  out[at].gen = mem["apply"]
    <3>1. out[at] = seen.sum
      BY <2>1, OnlyHashAdvances DEF HashProduct, ProductMatches
    <3> QED
      BY <2>1, <3>1 DEF SeenMatches
  <2> QED
    BY <2>1
<1> QED
  BY <1>1, InitHonest, SeenInductive, HonestInductive, TypeCorrect, PTL
     DEF Spec, AcceptedBuildsGenuine

-----------------------------------------------------------------------------
(* Stages that do not overlap.                                             *)

(* A stage that takes a step is the only one that runs. *)
LEMMA OthersIdle ==
  ASSUME OneRunning, NEW s \in Stages, pc[s] # "idle"
  PROVE  \A t \in Stages \ {s} : pc[t] = "idle"
  BY DEF OneRunning

(* No step lets a second stage run.                                         *)
LEMMA OneRunningInductive ==
  ASSUME ~Overlap, TypeOK, OneRunning, [Next]_vars
  PROVE  OneRunning'
<1> USE DEF OneRunning, Goto, Exit, check, Stages, Builders, TypeOK
<1>1. CASE Generate
  BY <1>1 DEF Generate, BuildRecord, WriteSmbios, WriteIdentity, MayStart
<1>2. ASSUME NEW s \in Stages, LoadIdentity(s) \/ Stop(s) PROVE OneRunning'
  BY <1>2 DEF LoadIdentity, MayStart, Stop
<1>3. ASSUME NEW b \in Builders, Builder(b) PROVE OneRunning'
  BY <1>3 DEF Builder, AcceptContract, RemoveOld, OutputEmpty, BeginBuild, FinishBuild, WriteInfo
<1>4. CASE Apply
  <2>1. pc["apply"] # "idle" /\ \A s \in Stages \ {"apply"} : pc'[s] = pc[s]
    BY <1>4 DEF Apply, AcceptArtifacts, HashIdentity, ReadInfo, HashProduct,
       ProductMatches, CopyDataDirectory, CopyFile, CopyCutShort, CompareCopy, Define, Checked, RuntimeFiles, BuildFiles
  <2> QED
    BY <2>1
<1>5. CASE UNCHANGED vars
  BY <1>5 DEF vars
<1> QED
  BY <1>1, <1>2, <1>3, <1>4, <1>5 DEF Next

(* Before 04 starts it has checked nothing.                                 *)
LEMMA IdleChecksNothing == pc'["apply"] = "idle" => ChecksStillHold'
  BY DEF ChecksStillHold, Hashed, Compared, PastContract, PastOvmf, RuntimeFiles, BuildFiles

(* What 04 has checked stays true: no other stage runs until it is done.   *)
LEMMA ChecksInductive ==
  ASSUME ~Overlap, TypeOK, SequentialInv, [Next]_vars
  PROVE  ChecksStillHold'
<1> USE DEF SequentialInv
<1>1. CASE Generate
  <2>1. pc'["apply"] = "idle"
    <3>1. CASE BuildRecord
      BY <3>1 DEF BuildRecord, MayStart, Goto, TypeOK, Stages
    <3>2. CASE WriteSmbios \/ WriteIdentity
      BY <3>2, OthersIdle DEF WriteSmbios, WriteIdentity, Goto, Exit, TypeOK, Stages
    <3> QED
      BY <1>1, <3>1, <3>2 DEF Generate
  <2> QED
    BY <2>1, IdleChecksNothing
<1>2. ASSUME NEW s \in Stages, LoadIdentity(s) PROVE ChecksStillHold'
  <2>1. CASE s = "apply"
    BY <1>2, <2>1 DEF LoadIdentity, Goto, disk, TypeOK, Stages,
       ChecksStillHold, Hashed, Compared, PastContract, PastOvmf, RuntimeFiles, BuildFiles
  <2>2. CASE s # "apply"
    <3>1. pc'["apply"] = "idle"
      BY <1>2, <2>2 DEF LoadIdentity, MayStart, Goto, TypeOK, Stages
    <3> QED
      BY <3>1, IdleChecksNothing
  <2> QED
    BY <2>1, <2>2
<1>3. ASSUME NEW s \in Stages, Stop(s) PROVE ChecksStillHold'
  <2>1. pc'["apply"] = "idle"
    BY <1>3, OthersIdle DEF Stop, Goto, Exit, TypeOK, Stages
  <2> QED
    BY <2>1, IdleChecksNothing
<1>4. ASSUME NEW b \in Builders, Builder(b) PROVE ChecksStillHold'
  <2>1. pc[b] # "idle" /\ pc'["apply"] = pc["apply"] /\ b # "apply"
    BY <1>4 DEF Builder, AcceptContract, RemoveOld, OutputEmpty, BeginBuild, FinishBuild, WriteInfo,
       Goto, Exit, TypeOK, Stages, Builders
  <2>2. pc'["apply"] = "idle"
    BY <2>1, OthersIdle DEF Stages
  <2> QED
    BY <2>2, IdleChecksNothing
<1>5. CASE Apply
  <2> USE DEF ChecksStillHold, PastContract, PastOvmf, RuntimeFiles, BuildFiles,
              Hashed, Compared, Checked, Goto, TypeOK, Stages
  <2>1. CASE AcceptArtifacts \/ HashIdentity
    BY <2>1 DEF AcceptArtifacts, HashIdentity, ContractHolds, disk
  <2>2. ASSUME NEW b \in Builders, ReadInfo(b) PROVE ChecksStillHold'
    BY <2>2 DEF ReadInfo, disk, Builders
  <2>3. CASE HashProduct
    <3>1. out[at].gen = json
      BY <2>3 DEF HashProduct, ProductMatches, SeenMatches
    <3> QED
      BY <2>3, <3>1 DEF HashProduct, ProductMatches, disk
  <2>4. CASE CopyDataDirectory
    BY <2>4 DEF CopyDataDirectory
  <2>5. ASSUME NEW f \in RuntimeFiles, CopyFile(f) PROVE ChecksStillHold'
    <3>1. pc'["apply"] \in {"code", "vars", "smbios", "compare"}
      BY <2>5 DEF CopyFile, AfterCopy
    <3>2. pc'["apply"] = "compare" => at' = "binary"
      BY <2>5 DEF CopyFile, check, SeenMatches
    <3>3. \A h \in Checked : ~Compared(h)'
      BY <3>1, <3>2 DEF Turn
    <3> QED
      BY <2>5, <3>1, <3>3 DEF CopyFile
  <2>6. ASSUME NEW f \in RuntimeFiles, CopyCutShort(f) PROVE ChecksStillHold'
    <3>1. pc'["apply"] = "idle"
      BY <2>6 DEF CopyCutShort, Exit
    <3> QED
      BY <3>1, IdleChecksNothing
  <2>7. CASE CompareCopy
    <3>1. runtime[json][at].gen = json
      BY <2>7 DEF CompareCopy, Source
    <3>2. \A h \in Checked : Compared(h)' => Compared(h) \/ h = at
      BY <2>7 DEF CompareCopy, AfterCopy, Turn
    <3> QED
      BY <2>7, <3>1, <3>2 DEF CompareCopy, disk
  <2>8. CASE Define
    BY <2>8 DEF Define, Exit
  <2> QED
    BY <1>5, <2>1, <2>2, <2>3, <2>4, <2>5, <2>6, <2>7, <2>8 DEF Apply
<1>6. CASE UNCHANGED vars
  BY <1>6 DEF vars, ChecksStillHold, Hashed, Compared
<1> QED
  BY <1>1, <1>2, <1>3, <1>4, <1>5, <1>6 DEF Next

(* What a copied file was made for: at each copy, the identity 04 applies.  *)
LEMMA CopiesAreGenuine ==
  ASSUME TypeOK, ChecksStillHold, NEW f \in RuntimeFiles, pc["apply"] = f
  PROVE  /\ mem["apply"] = json /\ json \in Gens
         /\ f # "data" => Source(f).gen = json
  BY DEF ChecksStillHold, Hashed, PastContract, PastOvmf, RuntimeFiles, BuildFiles,
         Checked, Source, TypeOK, Gens

(* The defined domain's runtime stays genuine. *)
LEMMA GenuineInductive ==
  ASSUME TypeOK, SequentialInv, [Next]_vars
  PROVE  DomainRuntimeGenuine'
<1> USE DEF SequentialInv, DomainRuntimeGenuine
<1>1. CASE Generate \/ UNCHANGED vars
  BY <1>1 DEF Generate, BuildRecord, WriteSmbios, WriteIdentity, disk, vars
<1>2. ASSUME NEW s \in Stages, LoadIdentity(s) \/ Stop(s) PROVE DomainRuntimeGenuine'
  BY <1>2 DEF LoadIdentity, Stop, disk
<1>3. ASSUME NEW b \in Builders, Builder(b) PROVE DomainRuntimeGenuine'
  BY <1>3 DEF Builder, AcceptContract, RemoveOld, OutputEmpty, BeginBuild, FinishBuild, WriteInfo, disk
<1>4. CASE Apply
  <2>1. CASE AcceptArtifacts \/ HashIdentity \/ HashProduct \/ CompareCopy
    BY <2>1 DEF AcceptArtifacts, HashIdentity, HashProduct, CompareCopy, disk
  <2>2. ASSUME NEW b \in Builders, ReadInfo(b) PROVE DomainRuntimeGenuine'
    BY <2>2 DEF ReadInfo, disk
  <2>3. CASE CopyDataDirectory
    <3>1. \A g \in Gens, f \in Checked : runtime'[g][f] = runtime[g][f]
      <4>1. CASE runtime' = runtime
        BY <4>1
      <4>2. CASE runtime' = [runtime EXCEPT ![mem["apply"]]["data"] = out["data"]]
        BY <4>2 DEF TypeOK, Checked
      <4> QED
        BY <2>3, <4>1, <4>2 DEF CopyDataDirectory
    <3>2. \A f \in Checked : f \in torn' <=> f \in torn
      BY <2>3 DEF CopyDataDirectory, Written, Checked
    <3> QED
      BY <2>3, <3>1, <3>2 DEF CopyDataDirectory, TypeOK, Gens
  <2>4. ASSUME NEW f \in RuntimeFiles, CopyFile(f) PROVE DomainRuntimeGenuine'
    <3>1. f \in Checked /\ json \in Gens /\ mem["apply"] = json /\ Source(f).gen = json
      BY <2>4, CopiesAreGenuine DEF CopyFile, Checked
    <3>2. runtime' = [runtime EXCEPT ![json][f] = Source(f)] /\ domain' = domain
      BY <2>4, <3>1 DEF CopyFile
    <3>3. torn' = IF json # domain THEN torn ELSE torn \ {f}
      BY <2>4, <3>1 DEF CopyFile, Written
    <3>4. ASSUME domain # 0, NEW h \in Checked
          PROVE  runtime'[domain][h].gen = IF h \in torn' THEN 0 ELSE domain
      <4>1. domain \in Gens /\ h \in RuntimeFiles
        BY <3>4 DEF TypeOK, Gens, Checked
      <4>2. CASE json = domain /\ h = f
        BY <4>1, <4>2, <3>1, <3>2, <3>3 DEF TypeOK
      <4>3. CASE ~(json = domain /\ h = f)
        <5>1. runtime'[domain][h] = runtime[domain][h] /\ (h \in torn' <=> h \in torn)
          BY <4>1, <4>3, <3>2, <3>3 DEF TypeOK
        <5> QED
          BY <5>1, <3>4
      <4> QED
        BY <4>2, <4>3
    <3> QED
      BY <3>2, <3>4
  <2>5. ASSUME NEW f \in RuntimeFiles, CopyCutShort(f) PROVE DomainRuntimeGenuine'
    <3>1. json \in Gens /\ mem["apply"] = json
      BY <2>5, CopiesAreGenuine DEF CopyCutShort
    <3>2. runtime' = [runtime EXCEPT ![json][f] = NoFile] /\ domain' = domain
      BY <2>5, <3>1 DEF CopyCutShort
    <3>3. torn' = IF json # domain THEN torn ELSE torn \cup {f}
      BY <2>5, <3>1 DEF CopyCutShort, Written
    <3>4. ASSUME domain # 0, NEW h \in Checked
          PROVE  runtime'[domain][h].gen = IF h \in torn' THEN 0 ELSE domain
      <4>1. domain \in Gens /\ h \in RuntimeFiles
        BY <3>4 DEF TypeOK, Gens, Checked
      <4>2. CASE json = domain /\ h = f
        BY <4>1, <4>2, <3>2, <3>3 DEF TypeOK, NoFile
      <4>3. CASE ~(json = domain /\ h = f)
        <5>1. runtime'[domain][h] = runtime[domain][h] /\ (h \in torn' <=> h \in torn)
          BY <4>1, <4>3, <3>2, <3>3 DEF TypeOK
        <5> QED
          BY <5>1, <3>4
      <4> QED
        BY <4>2, <4>3
    <3> QED
      BY <3>2, <3>4
  <2>6. CASE Define
    <3>1. \A f \in Checked : runtime[json][f].gen = json
      BY <2>6 DEF Define, ChecksStillHold, Compared
    <3> QED
      BY <2>6, <3>1 DEF Define, ChecksStillHold
  <2> QED
    BY <1>4, <2>1, <2>2, <2>3, <2>4, <2>5, <2>6 DEF Apply
<1> QED
  BY <1>1, <1>2, <1>3, <1>4 DEF Next

(* The inductive invariant is kept by every step that overlaps no other.    *)
LEMMA SequentialInductive ==
  ASSUME ~Overlap
  PROVE  TypeOK /\ SequentialInv /\ [Next]_vars => SequentialInv'
<1> SUFFICES ASSUME TypeOK, SequentialInv, [Next]_vars PROVE SequentialInv'
  OBVIOUS
<1>1. OneRunning'
  BY OneRunningInductive DEF SequentialInv
<1>2. ProductsBuilt' /\ BuildInfoHonest' /\ SeenMatches'
  BY HonestInductive, SeenInductive DEF SequentialInv, HonestInv
<1> QED
  BY <1>1, <1>2, ChecksInductive, GenuineInductive DEF SequentialInv

(* It holds before anything has run.                                        *)
LEMMA InitSequential == Init => SequentialInv
<1> SUFFICES ASSUME Init PROVE SequentialInv
  OBVIOUS
<1>1. OneRunning /\ DomainRuntimeGenuine
  BY DEF Init, OneRunning, DomainRuntimeGenuine
<1>2. ChecksStillHold
  BY DEF Init, ChecksStillHold, Hashed, Compared, PastContract, PastOvmf, RuntimeFiles,
     BuildFiles, Stages
<1> QED
  BY <1>1, <1>2, InitHonest DEF SequentialInv, HonestInv

(* When no two stages overlap, the inductive invariant holds for any number  *)
(* of identities and builds.                                                *)
THEOREM SequentialInvariant ==
  ASSUME ~Overlap
  PROVE  Spec => []SequentialInv
  BY InitSequential, SequentialInductive, TypeCorrect, PTL DEF Spec

(* When no two stages overlap, the hash-checked files the defined domain      *)
(* starts from were all made for the identity in its XML, whatever stage is   *)
(* killed at whatever step, but for those that a copy cut short left of none. *)
THEOREM GenuineRuntime ==
  ASSUME ~Overlap
  PROVE  Spec => []DomainRuntimeGenuine
<1>1. SequentialInv => DomainRuntimeGenuine
  BY DEF SequentialInv
<1> QED
  BY <1>1, SequentialInvariant, PTL

-----------------------------------------------------------------------------
(* The pipeline implements the abstract lifecycle.                         *)

(* An identity 01 is about to publish is later than the published one. *)
FreshInv ==
  /\ json <= lastGen
  /\ pc["generate"] \in {"tables", "record"} => mem["generate"] = lastGen /\ json < lastGen

(* The number of an identity is never used again.                            *)
LEMMA FreshInductive == TypeOK /\ FreshInv /\ [Next]_vars => FreshInv'
<1> SUFFICES ASSUME TypeOK, FreshInv, [Next]_vars PROVE FreshInv'
  OBVIOUS
<1> USE DEF FreshInv, TypeOK, Stages
<1>1. CASE Generate
  BY <1>1 DEF Generate, BuildRecord, WriteSmbios, WriteIdentity, MayStart, Goto, Exit,
              disk, counters
<1>2. ASSUME NEW s \in Stages, LoadIdentity(s) PROVE FreshInv'
  BY <1>2 DEF LoadIdentity, Goto, disk, counters, Builders
<1>3. ASSUME NEW s \in Stages, Stop(s) PROVE FreshInv'
  BY <1>3 DEF Stop, Goto, Exit, disk, counters
<1>4. ASSUME NEW b \in Builders, Builder(b) PROVE FreshInv'
  BY <1>4 DEF Builder, AcceptContract, RemoveOld, OutputEmpty, BeginBuild, FinishBuild, WriteInfo,
              Goto, Exit, disk, counters, Builders
<1>5. CASE Apply
  <2>1. /\ json' = json /\ lastGen' = lastGen
        /\ pc'["generate"] = pc["generate"] /\ mem'["generate"] = mem["generate"]
    BY <1>5 DEF Apply, AcceptArtifacts, HashIdentity, ReadInfo, HashProduct,
       ProductMatches, CopyDataDirectory, CopyFile, CopyCutShort, CompareCopy, Define, Goto, Exit, disk, counters
  <2> QED
    BY <2>1
<1>6. CASE UNCHANGED vars
  BY <1>6 DEF vars
<1> QED
  BY <1>1, <1>2, <1>3, <1>4, <1>5, <1>6 DEF Next

(* The identities in the parts of the machine, as the refinement maps them. *)
Machine == [p \in Checked |-> IF domain = 0 THEN 0 ELSE runtime[domain][p].gen]

(* A machine none of whose files is torn is of one identity.                *)
LEMMA WholeMachine ==
  ASSUME DomainRuntimeGenuine, torn = {}
  PROVE  Machine = [p \in Checked |-> domain]
  BY DEF DomainRuntimeGenuine, Machine

(* Writing one file of a runtime writes at most that part of the machine, and  *)
(* only when it is the machine's runtime.                                    *)
LEMMA PartWritten ==
  ASSUME TypeOK, NEW f \in RuntimeFiles, NEW x \in File, json \in Gens,
         runtime' = [runtime EXCEPT ![json][f] = x], domain' = domain
  PROVE  Machine' = IF domain = json /\ f \in Checked
                    THEN [Machine EXCEPT ![f] = x.gen] ELSE Machine
<1>1. ASSUME NEW p \in Checked
      PROVE  Machine'[p] = IF domain = json /\ p = f THEN x.gen ELSE Machine[p]
  <2>1. p \in RuntimeFiles /\ (domain = 0 \/ domain \in Gens) /\ 0 \notin Gens
    BY DEF Checked, TypeOK, Gens
  <2>2. CASE domain = 0
    BY <2>1, <2>2 DEF Machine
  <2>3. CASE domain \in Gens
    BY <2>1, <2>3 DEF Machine, TypeOK
  <2> QED
    BY <2>1, <2>2, <2>3
<1> QED
  BY <1>1 DEF Machine

(* What a step does to the published identity and to the defined machine.   *)
LEMMA StepShape ==
  ASSUME TypeOK, SequentialInv, SequentialInv', FreshInv, [Next]_vars
  PROVE  \/ json' > json /\ domain' = domain /\ Machine' = Machine
         \/ json' = json /\ domain' = domain /\ Machine' = Machine
         \/ json' = json /\ domain' = json /\ Machine' = [p \in Checked |-> json]
         \/ /\ json' = json /\ domain' = domain /\ domain = json /\ domain # 0
            /\ \E p \in Checked : \E i \in {0, domain} : Machine' = [Machine EXCEPT ![p] = i]
<1>1. CASE Generate
  BY <1>1 DEF Generate, BuildRecord, WriteSmbios, WriteIdentity, FreshInv, TypeOK, disk, Machine
<1>2. ASSUME NEW s \in Stages, LoadIdentity(s) \/ Stop(s)
      PROVE  json' = json /\ domain' = domain /\ Machine' = Machine
  BY <1>2 DEF LoadIdentity, Stop, disk, Machine
<1>3. ASSUME NEW b \in Builders, Builder(b)
      PROVE  json' = json /\ domain' = domain /\ Machine' = Machine
  BY <1>3 DEF Builder, AcceptContract, RemoveOld, OutputEmpty, BeginBuild, FinishBuild,
     WriteInfo, disk, Machine
<1>4. CASE Apply
  <2>1. CASE Define
    <3>1. json' = json /\ domain' = json /\ torn' = {}
      BY <2>1 DEF Define, SequentialInv, ChecksStillHold
    <3>2. Machine' = [p \in Checked |-> domain']
      BY <3>1, WholeMachine DEF SequentialInv, DomainRuntimeGenuine, Machine
    <3> QED
      BY <3>1, <3>2
  <2>2. ASSUME NEW b \in Builders,
               AcceptArtifacts \/ HashIdentity \/ ReadInfo(b) \/ HashProduct \/ CompareCopy
        PROVE  json' = json /\ domain' = domain /\ Machine' = Machine
    BY <2>2 DEF AcceptArtifacts, HashIdentity, ReadInfo, HashProduct, CompareCopy, disk, Machine
  <2>3. CASE CopyDataDirectory
    <3>1. "data" \in RuntimeFiles /\ "data" \notin Checked /\ out["data"] \in File
      BY DEF RuntimeFiles, BuildFiles, Checked, TypeOK
    <3>2. json \in Gens /\ mem["apply"] = json
      BY <2>3, <3>1, CopiesAreGenuine DEF CopyDataDirectory, SequentialInv
    <3>3. CASE runtime' = runtime
      BY <2>3, <3>3 DEF CopyDataDirectory, Machine
    <3>4. CASE runtime' = [runtime EXCEPT ![json]["data"] = out["data"]]
      BY <2>3, <3>1, <3>2, <3>4, PartWritten DEF CopyDataDirectory
    <3> QED
      BY <2>3, <3>2, <3>3, <3>4 DEF CopyDataDirectory
  <2>4. ASSUME NEW f \in RuntimeFiles, CopyFile(f)
        PROVE  /\ json' = json /\ domain' = domain
               /\ \/ Machine' = Machine
                  \/ /\ domain = json /\ domain # 0
                     /\ f \in Checked /\ Machine' = [Machine EXCEPT ![f] = domain]
    <3>1. f \in Checked /\ json \in Gens /\ mem["apply"] = json /\ Source(f).gen = json
      BY <2>4, CopiesAreGenuine DEF CopyFile, Checked, SequentialInv
    <3>2. Source(f) \in File
      BY <3>1 DEF Source, File, Checked, RuntimeFiles, BuildFiles, TypeOK
    <3>3. runtime' = [runtime EXCEPT ![json][f] = Source(f)] /\ json' = json /\ domain' = domain
      BY <2>4, <3>1 DEF CopyFile
    <3>4. Machine' = IF domain = json THEN [Machine EXCEPT ![f] = Source(f).gen] ELSE Machine
      BY <3>1, <3>2, <3>3, PartWritten
    <3>5. json # 0
      BY <3>1 DEF Gens
    <3> QED
      BY <3>1, <3>3, <3>4, <3>5
  <2>5. ASSUME NEW f \in RuntimeFiles, CopyCutShort(f)
        PROVE  /\ json' = json /\ domain' = domain
               /\ \/ Machine' = Machine
                  \/ /\ domain = json /\ domain # 0
                     /\ f \in Checked /\ Machine' = [Machine EXCEPT ![f] = 0]
    <3>1. json \in Gens /\ mem["apply"] = json
      BY <2>5, CopiesAreGenuine DEF CopyCutShort, SequentialInv
    <3>2. runtime' = [runtime EXCEPT ![json][f] = NoFile] /\ json' = json /\ domain' = domain
      BY <2>5, <3>1 DEF CopyCutShort
    <3>3. NoFile \in File /\ NoFile.gen = 0
      BY AbsentIsTyped DEF NoFile
    <3>4. Machine' = IF domain = json /\ f \in Checked
                     THEN [Machine EXCEPT ![f] = NoFile.gen] ELSE Machine
      BY <3>1, <3>2, <3>3, PartWritten
    <3>5. json # 0
      BY <3>1 DEF Gens
    <3> QED
      BY <3>2, <3>3, <3>4, <3>5
  <2> QED
    BY <1>4, <2>1, <2>2, <2>3, <2>4, <2>5 DEF Apply, Builders
<1>5. CASE UNCHANGED vars
  BY <1>5 DEF vars, Machine
<1> QED
  BY <1>1, <1>2, <1>3, <1>4, <1>5 DEF Next

(* A step of the pipeline is a step of the lifecycle or leaves it unchanged. *)
LEMMA StepImplements ==
  ASSUME TypeOK, SequentialInv, SequentialInv', FreshInv, [Next]_vars
  PROVE  [Lifecycle!Next]_Lifecycle!vars
<1>1. CASE json' > json /\ domain' = domain /\ Machine' = Machine
  BY <1>1 DEF Lifecycle!Next, Lifecycle!Publish, Machine
<1>2. CASE json' = json /\ domain' = domain /\ Machine' = Machine
  BY <1>2 DEF Lifecycle!vars, Machine
<1>3. CASE json' = json /\ domain' = json /\ Machine' = [p \in Checked |-> json]
  BY <1>3 DEF Lifecycle!Next, Lifecycle!Adopt, Machine
<1>4. ASSUME json' = json, domain' = domain, domain = json, domain # 0,
             NEW p \in Checked, NEW i \in {0, domain}, Machine' = [Machine EXCEPT ![p] = i]
      PROVE  Lifecycle!Next
  BY <1>4 DEF Lifecycle!Next, Lifecycle!Rewrite, Machine
<1> QED
  BY <1>1, <1>2, <1>3, <1>4, StepShape

(* When no two stages overlap, the stages implement IdentityLifecycle: the    *)
(* parts of the machine change identity together, to the published one.      *)
THEOREM PipelineImplementsLifecycle ==
  ASSUME ~Overlap
  PROVE  Spec => ImplementsLifecycle
<1>1. Init => Lifecycle!Init /\ FreshInv
  BY DEF Init, Lifecycle!Init, FreshInv, Stages
<1> QED
  BY <1>1, FreshInductive, StepImplements, SequentialInvariant, TypeCorrect, PTL
     DEF Spec, ImplementsLifecycle, Lifecycle!Spec
=============================================================================
