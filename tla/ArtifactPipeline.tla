-------------------------- MODULE ArtifactPipeline --------------------------
(***************************************************************************)
(* The four stages as processes that meet in the file system:              *)
(*                                                                         *)
(*   01 writes artifacts/smbios.bin and then identity-hardware.json;       *)
(*   02 and 03 read both, empty their output directory, build into it and  *)
(*      write build-info.json last;                                        *)
(*   04 reads the artifacts, checks both builds against them, copies the   *)
(*      files one by one to /opt/ovo-spoof/profiles/<profile_id> and       *)
(*      defines the domain that uses them.                                 *)
(*                                                                         *)
(* An identity is the number of the run of 01 that made it.  A file is     *)
(* what a hash can tell of it: the identity it was made for and the serial *)
(* number of the build that made it; one that is not completely written is *)
(* of no identity (0).  Every stage can end early, by an error or by a     *)
(* signal, between any two of its steps and in the middle of a copy.       *)
(***************************************************************************)
EXTENDS Naturals

CONSTANTS MaxGen,    \* bound: runs of 01
          MaxBuild,  \* bound: builds begun, of 02 and 03 together
          Overlap    \* may a stage start while another one is running?

ASSUME MaxGenAssumption == MaxGen \in Nat
ASSUME MaxBuildAssumption == MaxBuild \in Nat
ASSUME OverlapAssumption == Overlap \in BOOLEAN

Builders == {"qemu", "ovmf"}                     \* 02 and 03
Stages == {"generate", "apply"} \cup Builders
Gens == 1..MaxGen
File == [gen : 0..MaxGen, serial : 0..MaxBuild]
NoFile == [gen |-> 0, serial |-> 0]

\* The files build-info.json records a hash of, and the files beside them
\* that 04 deploys with a recursive copy ("data": the QEMU data directory).
Products == [b \in Builders |-> IF b = "qemu" THEN {"binary"} ELSE {"code", "vars"}]
Outputs == [b \in Builders |-> Products[b] \cup IF b = "qemu" THEN {"data"} ELSE {}]
BuildFiles == {"data", "binary", "code", "vars"}
RuntimeFiles == BuildFiles \cup {"smbios"}
Checked == RuntimeFiles \ {"data"}

\* deploy_runtime copies in this order and then compares what it copied.
AfterCopy == [data |-> "binary", binary |-> "code", code |-> "vars",
              vars |-> "smbios", smbios |-> "compare"]

\* The order in which the copies of the checked files are compared.
Turn == [binary |-> 1, code |-> 2, vars |-> 3, smbios |-> 4]

Info == [id : 0..MaxGen, hash : 0..MaxGen, sum : File]
NoInfo == [id |-> 0, hash |-> 0, sum |-> NoFile]

Labels == {"idle",
           "tables", "record",                                   \* 01
           "contract", "clean", "build", "link", "info",         \* 02, 03
           "digest", "qemu", "ovmf", "hash", "compare", "define"}   \* 04
          \cup RuntimeFiles

VARIABLES
  lastGen,   \* identities 01 has drawn so far
  json,      \* identity-hardware.json: the identity in it, 0 when absent
  smbios,    \* smbios.bin
  out,       \* build/qemu and build/ovmf: the file under each name
  info,      \* build/<builder>/build-info.json
  serial,    \* builds begun so far
  runtime,   \* /opt/ovo-spoof/profiles/<id>: the file under each name
  domain,    \* the identity of the XML libvirt has for the domain
  pc,        \* where each stage is
  mem,       \* the identity each stage read into memory
  digest,    \* 04's expected_hash: the identity file it hashed
  seen,      \* the build-info.json 04 has parsed
  at,        \* the file whose hash 04 computes or compares next
  torn       \* history: files of the defined domain's runtime that a copy cut
             \* short has left incomplete

disk == <<json, smbios, out, info, runtime, domain, torn>>
counters == <<lastGen, serial>>
check == <<digest, seen, at>>
vars == <<lastGen, json, smbios, out, info, serial, runtime, domain, pc, mem,
          digest, seen, at, torn>>

TypeOK ==
  /\ lastGen \in 0..MaxGen
  /\ json \in 0..MaxGen
  /\ smbios \in 0..MaxGen
  /\ out \in [BuildFiles -> File]
  /\ info \in [Builders -> Info]
  /\ serial \in 0..MaxBuild
  /\ runtime \in [Gens -> [RuntimeFiles -> File]]
  /\ domain \in 0..MaxGen
  /\ pc \in [Stages -> Labels]
  /\ mem \in [Stages -> 0..MaxGen]
  /\ digest \in 0..MaxGen
  /\ seen \in Info
  /\ at \in Checked
  /\ torn \in SUBSET RuntimeFiles

Init ==
  /\ lastGen = 0
  /\ json = 0
  /\ smbios = 0
  /\ out = [f \in BuildFiles |-> NoFile]
  /\ info = [b \in Builders |-> NoInfo]
  /\ serial = 0
  /\ runtime = [g \in Gens |-> [f \in RuntimeFiles |-> NoFile]]
  /\ domain = 0
  /\ pc = [s \in Stages |-> "idle"]
  /\ mem = [s \in Stages |-> 0]
  /\ digest = 0
  /\ seen = NoInfo
  /\ at = "binary"
  /\ torn = {}

MayStart(s) ==
  /\ pc[s] = "idle"
  /\ Overlap \/ \A t \in Stages : pc[t] = "idle"

Goto(s, label) == pc' = [pc EXCEPT ![s] = label]

\* The process ends; nothing it held in memory is left.
Exit(s) ==
  /\ Goto(s, "idle")
  /\ mem' = [mem EXCEPT ![s] = 0]
  /\ IF s = "apply" THEN digest' = 0 /\ seen' = NoInfo /\ at' = "binary"
                    ELSE UNCHANGED check

-----------------------------------------------------------------------------
(* 01: a new identity, published as two files that are each replaced       *)
(* atomically, the SMBIOS stream first.                                    *)

\* Mutant: the record is numbered after the run that follows.
BuildNextRecord ==
  /\ MayStart("generate")
  /\ lastGen < MaxGen
  /\ lastGen' = lastGen + 1
  /\ mem' = [mem EXCEPT !["generate"] = lastGen + 2]
  /\ Goto("generate", "tables")
  /\ UNCHANGED <<disk, serial, check>>

BuildRecord ==
  /\ MayStart("generate")
  /\ lastGen < MaxGen
  /\ lastGen' = lastGen + 1
  /\ mem' = [mem EXCEPT !["generate"] = lastGen + 1]
  /\ Goto("generate", "tables")
  /\ UNCHANGED <<disk, serial, check>>

WriteSmbios ==
  /\ pc["generate"] = "tables"
  /\ smbios' = mem["generate"]
  /\ Goto("generate", "record")
  /\ UNCHANGED <<json, out, info, runtime, domain, torn, counters, mem, check>>

WriteIdentity ==
  /\ pc["generate"] = "record"
  /\ json' = mem["generate"]
  /\ Exit("generate")
  /\ UNCHANGED <<smbios, out, info, runtime, domain, torn, counters>>

-----------------------------------------------------------------------------
(* 02 and 03 *)

\* Both files must exist; the identity file is read first.
LoadIdentity(s) ==
  /\ s \in Builders \cup {"apply"}
  /\ MayStart(s)
  /\ json # 0 /\ smbios # 0
  /\ mem' = [mem EXCEPT ![s] = json]
  /\ Goto(s, "contract")
  /\ UNCHANGED <<disk, counters, check>>

\* Mutant: the SMBIOS hash is computed and not compared.
ContractUnchecked(s) == TRUE

\* validate_artifact_contract: smbios.bin has the hash the identity records.
ContractHolds(s) == smbios = mem[s]

AcceptContract(b) ==
  /\ pc[b] = "contract"
  /\ ContractHolds(b)
  /\ Goto(b, "clean")
  /\ UNCHANGED <<disk, counters, mem, check>>

\* shutil.rmtree of the output directory: one file after the other, in the
\* order the directory happens to list them.
RemoveOld(b) ==
  /\ pc[b] = "clean"
  /\ \/ \E f \in Outputs[b] :
          /\ out[f] # NoFile
          /\ out' = [out EXCEPT ![f] = NoFile]
          /\ UNCHANGED info
     \/ /\ info[b] # NoInfo
        /\ info' = [info EXCEPT ![b] = NoInfo]
        /\ UNCHANGED out
  /\ UNCHANGED <<json, smbios, runtime, domain, torn, counters, pc, mem, check>>

OutputEmpty(b) ==
  /\ pc[b] = "clean"
  /\ info[b] = NoInfo /\ \A f \in Outputs[b] : out[f] = NoFile
  /\ Goto(b, "build")
  /\ UNCHANGED <<disk, counters, mem, check>>

OutputBy(b, file) ==
  out' = [f \in BuildFiles |-> IF f \in Outputs[b] THEN file ELSE out[f]]

\* The patched source is compiled and installed into the output directory:
\* its files appear, and are incomplete until all of it is done.
BeginBuild(b) ==
  /\ pc[b] = "build"
  /\ serial < MaxBuild
  /\ serial' = serial + 1
  /\ OutputBy(b, [gen |-> 0, serial |-> serial + 1])
  /\ Goto(b, "link")
  /\ UNCHANGED <<lastGen, json, smbios, info, runtime, domain, torn, mem, check>>

\* They are complete, and made for the identity in memory.
FinishBuild(b) ==
  /\ pc[b] = "link"
  /\ \E f \in Products[b] :
       OutputBy(b, [gen |-> mem[b], serial |-> out[f].serial])
  /\ Goto(b, "info")
  /\ UNCHANGED <<json, smbios, info, runtime, domain, torn, counters, mem, check>>

\* Mutant: profile_id, too, comes from the identity file as it is now.
WriteInfoRereadingId(b) ==
  /\ pc[b] = "info"
  /\ \E f \in Products[b] :
       info' = [info EXCEPT ![b] = [id |-> json, hash |-> json, sum |-> out[f]]]
  /\ Exit(b)
  /\ UNCHANGED <<json, smbios, out, runtime, domain, torn, counters>>

\* build-info.json: profile_id from memory, profile_sha256 from the identity
\* file as it is NOW, and the hashes of the products.  (An incomplete one is
\* no JSON document: 04 stops at it as it does when there is none.)
WriteInfo(b) ==
  /\ pc[b] = "info"
  /\ \E f \in Products[b] :
       info' = [info EXCEPT ![b] = [id |-> mem[b], hash |-> json, sum |-> out[f]]]
  /\ Exit(b)
  /\ UNCHANGED <<json, smbios, out, runtime, domain, torn, counters>>

-----------------------------------------------------------------------------
(* 04 *)

\* load_artifacts: the contract again, in the process that will deploy.
AcceptArtifacts ==
  /\ pc["apply"] = "contract"
  /\ ContractHolds("apply")
  /\ Goto("apply", "digest")
  /\ UNCHANGED <<disk, counters, mem, check>>

HashIdentity ==
  /\ pc["apply"] = "digest"
  /\ digest' = json
  /\ Goto("apply", "qemu")
  /\ UNCHANGED <<disk, counters, mem, seen, at>>

\* Mutant: any build-info.json will do.
InfoUnread(b) == info[b] # NoInfo

\* Mutant: the hash of the identity file stands for its profile_id.
InfoMatchesByHash(b) == info[b].hash = digest

\* validate_build_outputs: what must be true of the build-info.json of 02, 03.
InfoMatches(b) == info[b].id = mem["apply"] /\ info[b].hash = digest

\* The file is parsed once; the products are hashed after that.
ReadInfo(b) ==
  /\ pc["apply"] = b
  /\ InfoMatches(b)
  /\ seen' = info[b]
  /\ at' = IF b = "qemu" THEN "binary" ELSE "code"
  /\ Goto("apply", "hash")
  /\ UNCHANGED <<disk, counters, mem, digest>>

\* One product, as it is on disk now, has the hash the info recorded for it.
ProductMatches ==
  /\ pc["apply"] = "hash"
  /\ out[at] = seen.sum

HashProduct ==
  /\ ProductMatches
  /\ \/ /\ at = "binary"                       \* 02's only product: on to 03
        /\ Goto("apply", "ovmf")
        /\ UNCHANGED <<seen, at>>
     \/ /\ at = "code"
        /\ at' = "vars"
        /\ UNCHANGED <<pc, seen>>
     \/ /\ at = "vars"
        /\ at' = "binary"
        /\ seen' = NoInfo
        /\ Goto("apply", "data")
  /\ UNCHANGED <<disk, counters, mem, digest>>

\* What a file of the runtime is copied from, as it is on disk now.
Source(f) == IF f = "smbios" THEN [gen |-> smbios, serial |-> 0] ELSE out[f]

\* The history variable, when f of the runtime 04 works on is written.
Written(f, whole) ==
  torn' = IF mem["apply"] # domain THEN torn
          ELSE IF whole THEN torn \ {f} ELSE torn \cup {f}

\* `cp -a prefix/. runtime/qemu`: the prefix directory is there when anything
\* is in it, and files that are not in it stay as they are at the target.
CopyDataDirectory ==
  /\ pc["apply"] = "data"
  /\ out["data"] # NoFile \/ out["binary"] # NoFile
  /\ IF out["data"] = NoFile
     THEN UNCHANGED <<runtime, torn>>
     ELSE /\ runtime' = [runtime EXCEPT ![mem["apply"]]["data"] = out["data"]]
          /\ Written("data", TRUE)
  /\ Goto("apply", "binary")
  /\ UNCHANGED <<json, smbios, out, info, domain, counters, mem, check>>

\* `install source target`, which fails when the source is missing.
CopyFile(f) ==
  /\ f \in Checked
  /\ pc["apply"] = f
  /\ Source(f) # NoFile
  /\ runtime' = [runtime EXCEPT ![mem["apply"]][f] = Source(f)]
  /\ Written(f, TRUE)
  /\ Goto("apply", AfterCopy[f])
  /\ UNCHANGED <<json, smbios, out, info, domain, counters, mem, check>>

\* cp and install write into the runtime directory itself, which may be the
\* defined domain's.  A signal or a full disk in the middle of a copy ends the
\* run and leaves a file that is missing or incomplete.
CopyCutShort(f) ==
  /\ f \in RuntimeFiles
  /\ pc["apply"] = f
  /\ Source(f) # NoFile
  /\ runtime' = [runtime EXCEPT ![mem["apply"]][f] = NoFile]
  /\ Written(f, FALSE)
  /\ Exit("apply")
  /\ UNCHANGED <<json, smbios, out, info, domain, counters>>

\* The hash of a source, read again, against that of its target.
CompareCopy ==
  /\ pc["apply"] = "compare"
  /\ runtime[mem["apply"]][at] = Source(at)
  /\ \/ /\ at = "smbios"
        /\ at' = "binary"
        /\ Goto("apply", "define")
     \/ /\ at # "smbios"
        /\ at' = AfterCopy[at]
        /\ UNCHANGED pc
  /\ UNCHANGED <<disk, counters, mem, digest, seen>>

Define ==
  /\ pc["apply"] = "define"
  /\ domain' = mem["apply"]
  /\ torn' = {}
  /\ Exit("apply")
  /\ UNCHANGED <<json, smbios, out, info, runtime, counters>>

-----------------------------------------------------------------------------

\* A failed check, a failed command or a signal: the process is gone, what it
\* wrote stays.
Stop(s) ==
  /\ pc[s] # "idle"
  /\ Exit(s)
  /\ UNCHANGED <<disk, counters>>

Generate == BuildRecord \/ WriteSmbios \/ WriteIdentity

Builder(b) ==
  \/ AcceptContract(b) \/ RemoveOld(b) \/ OutputEmpty(b)
  \/ BeginBuild(b) \/ FinishBuild(b) \/ WriteInfo(b)

Apply ==
  \/ AcceptArtifacts \/ HashIdentity
  \/ \E b \in Builders : ReadInfo(b)
  \/ HashProduct
  \/ CopyDataDirectory
  \/ \E f \in RuntimeFiles : CopyFile(f) \/ CopyCutShort(f)
  \/ CompareCopy \/ Define

Next ==
  \/ Generate
  \/ \E s \in Stages : LoadIdentity(s) \/ Stop(s)
  \/ \E b \in Builders : Builder(b)
  \/ Apply

Spec == Init /\ [][Next]_vars

-----------------------------------------------------------------------------

(* 04 refuses to mix identities: every hash-checked file of the runtime the
   defined domain starts from was made for the identity in its XML, and only a
   copy that was cut short while the same identity was applied again leaves one
   that is of no identity.  The stages check this step by step, and each of them
   can die between any two steps and leave its files behind.                *)
DomainRuntimeGenuine ==
  domain # 0 => \A f \in Checked :
                  runtime[domain][f].gen = IF f \in torn THEN 0 ELSE domain

(* A build never claims an identity it was not built for: build-info.json
   names the identity its products have inside them, also when 01 replaced
   the identity file while the build was running.                           *)
BuildInfoHonest ==
  \A b \in Builders : info[b].id = info[b].sum.gen

-----------------------------------------------------------------------------
(* Why DomainRuntimeGenuine holds when stages do not overlap.              *)

\* Where 04 is once it has accepted the contract, the build of 02, that of 03.
PastOvmf == RuntimeFiles \cup {"compare", "define"}
PastContract == PastOvmf \cup {"digest", "qemu", "ovmf", "hash"}

OneRunning ==
  \A s, t \in Stages : pc[s] # "idle" /\ pc[t] # "idle" => s = t

\* A builder about to write build-info.json has built what it says.
ProductsBuilt ==
  \A b \in Builders : pc[b] = "info" => \A f \in Products[b] : out[f].gen = mem[b]

\* What 04 parsed is of the identity it applies, and honest; each of its two
\* loops begins with the first file.
SeenMatches ==
  /\ pc["apply"] = "hash" => seen.id = mem["apply"] /\ seen.sum.gen = seen.id
  /\ pc["apply"] \notin {"hash", "compare"} => at = "binary"

\* 04 has hashed f of the builds.
Hashed(f) ==
  \/ pc["apply"] \in PastOvmf
  \/ f = "binary" /\ pc["apply"] = "ovmf"
  \/ f = "binary" /\ pc["apply"] = "hash" /\ at # "binary"
  \/ f = "code" /\ pc["apply"] = "hash" /\ at = "vars"

\* 04 has compared its copy of f.
Compared(f) ==
  \/ pc["apply"] = "define"
  \/ pc["apply"] = "compare" /\ Turn[f] < Turn[at]

\* What 04 checked in one step still holds in the later ones.
ChecksStillHold ==
  /\ pc["apply"] # "idle" => mem["apply"] = json /\ json # 0
  /\ pc["apply"] \in PastContract => smbios = json
  /\ \A f \in Checked \ {"smbios"} : Hashed(f) => out[f].gen = json
  /\ \A f \in Checked : Compared(f) => runtime[json][f].gen = json

(* The inductive invariant: one stage runs, no build lies about its identity,
   04's checks stay true until it defines the domain, and the runtime of the
   defined domain is genuine.                                               *)
SequentialInv ==
  /\ OneRunning
  /\ ProductsBuilt
  /\ BuildInfoHonest
  /\ SeenMatches
  /\ ChecksStillHold
  /\ DomainRuntimeGenuine

-----------------------------------------------------------------------------

(* A product that 04 accepts was, when 04 hashed it, made for the identity 04
   has in memory, whatever the other stages removed, built or published between
   04's reads of the identity, of build-info.json and of the products.  The hash
   of the identity file alone does not give this: 02 and 03 hash that file at
   the END of a build.                                                      *)
AcceptedBuildsGenuine ==
  [][(/\ pc["apply"] = "hash"
       /\ pc'["apply"] # "idle"
       /\ <<pc["apply"], at>>' # <<pc["apply"], at>>)
      => out[at].gen = mem["apply"]]_vars

(* The stages implement the lifecycle of identities: a new identity reaches all
   parts of the machine at once, and it is the one that is published at that
   moment; only applying the same identity again works part by part.        *)
Lifecycle == INSTANCE IdentityLifecycle WITH
  Parts <- Checked,
  current <- json,
  adopted <- domain,
  machine <- [p \in Checked |-> IF domain = 0 THEN 0 ELSE runtime[domain][p].gen]
ImplementsLifecycle == Lifecycle!Spec
=============================================================================
