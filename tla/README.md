# A TLA+ model of spoof_v2

The repository gives a libvirt domain a hardware identity in four stages
(`01_generate_identity.py` to `04_apply_spoof.py`), and the host a pair of
patched KVM modules (`kvm.sh`, `kvm/patches`). The stages are scripts: they change
files, libvirt, systemd and nftables one command at a time, are killed or fail
between any two commands, and are run again over what is left. The KVM patch
answers CPUID from a table in the assembly code of the VM exit, without coming
back to C. This directory models both, checks them with TLC and proves part with
TLAPS.

## Inventory

| Component | State it keeps | Operations | What is hard |
|---|---|---|---|
| `01_generate_identity.py`, artifacts | `artifacts/smbios.bin`, `artifacts/identity-hardware.json` | draw an identity, write both files, each atomically | two files, one identity |
| `01`, what it reads of the domain | none: functions of the domain XML | `choose_layout`, `device_ranges`, `list_kept_guest_root_ports`, `assign_root_port_identities` | a pruned search, the PCI hole, greedy choice |
| `02_patch_qemu.py` | `build/qemu` | check the contract, empty the output, build, write `build-info.json` | minutes between reading and hashing the identity file; interrupted removal |
| `03_patch_ovmf.py` | `build/ovmf` | as 02 | as 02 |
| `04`, artifacts and deployment | `/opt/ovo-spoof/profiles/<id>` | check artifacts and builds, copy, compare, define | checks and uses are separate reads |
| `04`, libvirt and isolation | domain XML, networks, isolation rules, unit and table, `backups/` | dump, check the state, back up, remake the networks, switch the isolation, define, remove old networks | no transaction; owner, failures, reboots in between |
| `04`, CPU binding | `<vcpupin>`, `<emulatorpin>` | keep or make a binding | arbitrary earlier pinnings, changing affinity |
| `04`, XML transformation | none: a function of XML and profile | remove devices, normalise root ports, refuse what is not the profile's | 01 looks before, 04 after; libvirt adds controllers |
| `kvm.sh` install and restore | the module pair, `.new` files, initramfs, `/var/backups/ovo-kvm` | save, stage, move, rebuild; restore | a pair replaced one file at a time; ERR trap; lock per work directory |
| `kvm.sh` build | `builds/`, `stages/` | fetch, patch, configure, compile, stage; keep the tree | a marker for minutes of work; removal in directory order |
| KVM patch, CPUID table | per virtual CPU: table, last hit, copy of leaf 0, generations | build, rebuild at entry, look up early or fully | what makes an answer stale; hash collisions |
| KVM patch, re-entry | registers, `vcpu->arch.regs`, flags word | answer before or after the registers are spilled, resume, or hand over to C | scratch registers; any VMCS access may fail; timer |
| KVM patch, MSR overlay and PMU | MSR contract, counters | route RDMSR and WRMSR | not modelled |
| `kvm/tools`, `vm/`, `guest/`, `resources/` | none shared | diagnostics, older scripts, a batch file, templates | not modelled |

The stages interact through files: 01 writes what 02, 03 and 04 read, 02 and 03 write
what 04 reads, and 04 writes what libvirt, and the next run of 01, reads. No stage
locks anything. `kvm.sh` shares nothing with the four stages; its build makes what
its install installs. In KVM, ioctls and MSR writes change what CPUID depends on and
move a generation, the run loop rebuilds the table when the generation moved, and
the assembly code of the exit reads the table.

What makes each component correct:

- **pipeline**: the files a domain starts from, and its XML, are of one identity, and
  that is the one that was published when it was applied; a build never claims an
  identity it was not made for;
- **apply**: after success the machine works and is isolated, now and after reboots,
  whatever earlier runs left; no network a machine needs is taken away; nothing that
  is replaced is lost; nothing old stays;
- **domain and profile**: 04 accepts what 01 recorded, and its own result; every root
  port has a host port of its own, every byte of memory one DIMM;
- **pinning**: CPUs are never shared, valid bindings are kept, a second run changes
  nothing;
- **kvm.sh**: what is compiled is what the stage's name says; the two modules come from
  one build whenever no instance runs; after a crash there is always a backup that
  leads back;
- **CPUID**: the guest cannot tell which code answered it: the answer is that of
  `kvm_cpuid` in the state of now, and nothing but the answer changes.

## Modules

| Module | Models | Composes or uses |
|---|---|---|
| `IdentityLifecycle` | what the four stages promise, with no files: identities are published, and applying another one changes all parts of the machine at once, applying the same one again works part by part and may be cut short | |
| `ArtifactPipeline` | the four stages over their files | implements `IdentityLifecycle` |
| `ApplyTransaction` | one run of 04 after another against libvirt, systemd and nftables, with owner and host around them | takes an identity as the whole, checked set that `ArtifactPipeline` shows it to be |
| `MemoryLayout` | `choose_layout`, `q35_ranges`, `device_ranges`, and the best layout as a reference | |
| `RootPorts` | which root ports 01 lists and 04 keeps, and who gets which host port | |
| `DomainProfile` | 01, 04, libvirt and the owner in turns on one domain | `MemoryLayout`, `RootPorts` |
| `VcpuPinning` | CPU binding as a function of the XML and the affinity mask | |
| `KvmBuildTree` | `kvm.sh`: the build tree and the stage | |
| `KvmInstall` | `kvm.sh install` and `restore` | takes a stage as the matched pair `KvmBuildTree` makes |
| `CpuidModel` | what `kvm_cpuid` answers | |
| `CpuidArchitecture` | what the guest is promised of the CPUID instruction | `CpuidModel` |
| `CpuidCache` | one virtual CPU: ioctls, run loop, the table and its lookups | `CpuidModel`; implements `CpuidArchitecture` |
| `CpuidReentry` | `__vmx_vcpu_run`: registers, flags and the two paths back to the guest | takes a lookup as hit or miss, whose answer `CpuidCache` shows right |
| `*_proofs` | theorems about the module they are named after | |
| `MC*` | instances for TLC | |

### ArtifactPipeline

The state is the disk (`json`, `smbios`, `out`, `info`, `runtime`, `domain`) and, per
stage, where it is (`pc`) and the identity it has in memory (`mem`; for 04 also
`digest`, the `expected_hash` of `validate_build_outputs`, `seen`, the build-info.json
it parsed, and `at`, the file its loop has come to). An identity is the number
of the run of 01 that drew it. A file is what hashes can tell of it: its identity and
the number of the build that made it, since no two builds are bit-identical; a file
that is not completely written is of identity 0. Every
read of a file is a step of its own where the code reads it separately, so a value
read twice can differ: the profile is parsed once and hashed later
(`HashIdentity`, `WriteInfo`), build-info.json is parsed (`ReadInfo`) before the
products are hashed one after the other (`HashProduct`), and `smbios.bin` is read for
the contract and again for the copy. A builder that runs meanwhile can remove and
rewrite what 04 reads next; its files are there, and incomplete, from `BeginBuild` to
`FinishBuild`.

04 writes into the runtime directory of the profile, which is the defined domain's when
the same profile is applied again. A copy is complete (`CopyFile`) or is cut short by a
signal or a full disk (`CopyCutShort`), which ends the run and leaves a missing or
truncated file; the history variable `torn` holds the files of the defined domain for
which this is so.

`AcceptContract`, `AcceptArtifacts`, `ReadInfo`, `HashProduct` and `CompareCopy` are the
checks with their conditions; when a check fails the process ends, which is `Stop`. `Stop`
is also a failed command and a signal, and is enabled at every step of every stage.
`RemoveOld` takes the files of the output directory in any order, as
`shutil.rmtree` follows the directory's. Of the files 04 deploys, the model has the
QEMU data directory (copied by `cp -a`, covered by no hash), the QEMU binary, the two
OVMF files and `smbios.bin`. `battery.aml` is checked and copied like the binary and
left out; the three metadata files are read by nobody. A product's hash is one record
field for both OVMF files, which one build makes together.

### ApplyTransaction

One action per command of `04_apply_spoof.py`, in the order of `main`: `Step(a, b)`
is the program counter. A network is an identity and an adapter number, as the name
`lan-<token>-<n>` is. `listed` is what `net-list` answered, and the guards
`if name in active_networks` are intersections with it: destroying and undefining
act on what was listed, not on what is there. The unit file (`unit`), what systemd has
loaded of it (`loaded`), whether it is enabled and the table its script makes
(`table`) are separate, because each changes at another command. `TableOf(u)` is what
the unit's script does at start: it makes the table when script and rules exist.
`InstallCutShort` is one of the three `install` commands that ends between opening its
target and filling it: an identity that is applied again loses the file it had.
The domain XML is its profile and the number of the owner's last edit; `apply_profile`
replaces the first and keeps the second. `live` is the XML a running machine was started
with, and what `virsh dumpxml` prints of it: 04 reads it before it looks at the state.
Around 04, `Regenerate` is 01 to 03, the owner starts, stops and edits the machine at any
time, also while 04 runs, and `Reboot` starts what is marked for boot.

Four history variables: `settled`, 04 has reported success and no later run has begun
to change anything; `cut`, some run did not come to its end; `misread`, 04 saw the machine
off after it had read the XML of a machine with another profile than the defined one;
`intruded`, the machine was started in a run, between 04's look at its state and the
definition (`Unguarded`). `04 --dry-run` changes nothing and has no action.

### VcpuPinning

`pins[v]` is the cpuset of `<vcpupin vcpu='v'>`, empty when the element is missing; an
unparsable cpuset behaves as an unavailable one (`ValueError`, no binding). Duplicate
elements for one vCPU, which libvirt does not store, are left out. `Selected` and
`EmulatorCpus` are the two results of `configured_cpu_bindings`, `Nth` is the
enumeration of `sorted(...)` in `set_vcpu_pinning`.

### KvmInstall

A module is the number of its build, 0 when it is missing or half-written; a `mv` is a
rename and atomic, an `install` over an existing file is not (`TornCopy`). `image` is
the pair in the initramfs when KVM is loaded from there (`EarlyKvm`). The backup's
directory is named after the second: a run compiles and compresses modules before it
makes a backup, which takes longer than a second, so `MakeBackup` takes the number of
runs started as the second; overlapping runs may get the same. `InstallFails` is the ERR
trap: with `active` (`INSTALL_ACTIVE`) it goes on to `restore_backup`, which after
`set +e` goes on over errors (`CopyBackFails`, `ReindexFails` with `active`); a failed
checksum is `die`, an exit in both cases. SHA256SUMS comes into the backup as a copy of
two short lines, about 160 bytes that `install` writes at once: when that command fails
or is killed the file is complete, missing or empty (`torn`, `TearManifest`). An empty
one makes the directory a backup that `restore` lists and `restore_backup` refuses (its
`-s` test), and no handler is armed at that point. `Kill` runs no trap. The build of the modules
is part of `StartInstall`; `KvmBuildTree` has its steps.

### KvmBuildTree

A tree is what its parts were made from: the patch in the files it changes, the kernel
its configuration, symbols and `vmlinux` are of, and the toolchain its marker names. A
patch is the number of its content, which stands for its sum, too: trees and stages
are named by it. All kernels have one release, as rebuilt ones of the owner do, so they
share trees. `Start` reads the sum (`PATCH_SHA`) and the toolchain; `PatchApplied` and
`ApplyPatch` read the patch file again. Whether a tree holds the patch is found out by
reversing it: `Reverses` says which patches come off cleanly where which patch was
applied, itself and, for the runs, every earlier patch, as patches that only grow do; a
tree that holds more than the patch passes. `RemovePart` is `rm -rf`, in any order with the
directory last. `Extract` is fetching, unpacking and moving the source into place.
History variables name the runs the properties except: `changed` (patch or kernel
replaced during this run), `mixed` (the tree was prepared in such a run), `torn` (a
removal of the tree was cut short).

### CpuidModel, CpuidArchitecture and CpuidCache

A register value is where it comes from: the entry it was copied from, with the
adjustments of `kvm_cpuid` (runtime bits, TSX, invariant TSC), the host core, the
topology fallback, or zero. `cpu` is the state the adjustments depend on. The runtime
bits are stored in the entries when `kvm_update_cpuid_runtime` runs and not when a
register is written, hence `applied` and `dirty`; `outdated` says that the two
generations differ. `KvmCpuid` is `kvm_cpuid` over all that.

The table is built entry by entry (`InsertEntry`, `InsertQuery`, `FinishTable`), in
the ioctl that sets the model (`pc = "set"`, where the thread can be moved to another
core) and at VM entry (`"fill"`, with interrupts off). `VmxVcpuRun` decides whether it
is rebuilt, `VmEnter` whether the inner loop is armed. `Home` is the hash, `Probed`
the search, `EarlyHit` the short search before the registers are spilled. `CpuidInner`,
`CpuidFast` and `CpuidSlow` are the three places that answer. `SetRegister` are the
writes that mark the runtime bits alone, `SetMsr` those that move the generation, too.

`CpuidArchitecture` has no table: a CPUID answers what `kvm_cpuid` answers in the
present state. Two things are allowed beside it, and both are named: leaves that other
cores or other virtual CPUs change (`Volatile`) may be answered as of an earlier such
change, and the queries the code caches without an index (`Probes`) as subleaf 0.

### CpuidReentry

A register holds what the guest left in it, what CPUID is to answer, or junk; RSI stands
for all registers CPUID leaves alone. One action per stretch of `vmenter.S` between two
jumps that can go two ways; a failing VMCS access is a step of its own
(`EarlyReject`, `EarlyAnswerFails`, `NotValidated`, `AnswerFails`). `flags` is the word
on the stack, in which the early path leaves its verdict for the full one. `left`,
`delta` and `counter` are the guest's deadline, the value in the VMCS, and the running
preemption timer, which starts from the VMCS's value at every entry.

### MemoryLayout, RootPorts and DomainProfile

Sizes are in 4 GiB and addresses in 2 GiB, the units at which the code decides.
`StatesOf` is the search of `choose_layout`, one layout for each amount and number of
DIMMs: `OneMore` adds a DIMM to what is kept, `Proposals` are the layouts this makes of an
amount. `AllLayouts` with `Better` is what the search is to find. `DeviceRanges` lays DIMMs
and mapped ranges end to end; `Offset` is where one begins. The root ports of the host are
finitely many and each has a number, which is all `HostPortsAssumption` says of them; of
the owner's topologies `DomainsAssumption` says what libvirt guarantees, an index of its own
for every controller.

A domain is its root ports, its bridges, and the kind of the device on each bus.
`ListedPorts` is what 01 records, `Transformed` what 04 makes of the domain,
`Objections` every check of `apply_profile` the domain fails, `Verdict` the first of them
in the order of the code, `Defined` what libvirt stores. Kinds of devices are those the
code treats differently. `blocked` is what is in the way of any profile: the addresses for
the USB and the audio controller taken by a device that 04 leaves alone, and too few
CPUs for the virtual ones and the emulator; 01 looks at none of them. The memory stands
for all that 01 records of the XML and 04 compares with it, virtual CPUs, disks and
adapters, too. `DomainProfile` puts 01 and 04 in any order, each run to its end, with
the owner's edits and new affinity masks between them. Contradictions within an identity
file are left out: 01 writes none.

## Runs

| Run | Bounds | Shows |
|---|---|---|
| `pipeline_sequential` | 2 identities, 3 builds, one stage at a time | type, `DomainRuntimeGenuine`, refinement of `IdentityLifecycle` |
| `pipeline_overlap` | 2 identities, 3 builds, stages overlap, up to the first deployment (`FirstDeployment`) | `BuildInfoHonest`, `AcceptedBuildsGenuine` |
| `pipeline_mixed` | 2 identities, 2 builds, stages overlap | violation of `DomainRuntimeGenuine` |
| `apply_faults` | 2 identities, 1 edit, 2 adapters; failures, kills, reboots | type, `AppliedStaysOperational`, `RunningHasNetwork`, `GuestIsolated`, `UnitCanStart`, `DomainNetworksKept`, `OldNetworksRemoved` |
| `kvm_faults` | 3 installs, 2 instances of one work directory; commands of install and restore fail, kills, backups decay | type, `IdleMeansMatched`, `PairRecoverable`, `ReplacesOnlySaved`, `InstallReportsPair`, `FailedInstallUndone`, `RestoreReportsPair` |
| `kvm_build` | 3 runs, 2 kernels with different toolchains, 2 patches of which the second contains the first | `StageAsNamed`, `CompiledAsConfigured`, `StageComplete` |
| `pinning_edited` | 2 vCPUs, 4 CPUs, every pinning and mask | `PinningIsExclusive`, `ApplyIsStable`, `BoundCpusKept` |
| `cpuid_current` | 9 leaves, 2 subleaves, 3 models, 7 slots, probe limit 3 | type, `TableIsCurrent`, `EarlyAgrees`, `SlotsReachable`, refinement of `CpuidArchitecture` |
| `cpuid_reentry` | a deadline of 2 ticks | `ResumesExactly`, `ReturnsUntouched`, `FailureSynchronized`, `TimerServed` |
| `cpuid_subleaf` | as `cpuid_current` | violation of `IndexObserved` |
| `domain_profile` | 4 sets of controllers, every device on 3 buses, 2 memory sizes, 1 edit, CPUs and bus 0 free or taken | `RefusalExplained`, `ReapplyIsNoop`, `IdentitiesAssigned`, `LayoutIsBest`, `MemoryTablesExact` |
| `domain_refused` | the same, without an edit | violation of `RegenerateSuffices` |

Why the bounds are enough: a mixture needs two identities; a third build of the
sequential pipeline lets 02 build again after both have built for an identity, and one
of the overlapping pipeline lets a builder rewrite its products while 04 reads them; two
adapters make the loop of `ensure_managed_networks` go round, so that it can stop
between networks; three installs let a mixed pair be backed up and a third run start
from it; three builds prepare a tree, remove it half-way and use what is left; two
vCPUs on four CPUs have pinnings that overlap, that are reordered and that leave the
emulator one or two CPUs. Of the CPUID models one has its hypervisor leaves hidden and
a topology leaf as its highest, so that redirection meets subleaves, and one has a
duplicate, an ambiguous and a stateful leaf; with seven slots and three probes keys
collide, are met again and find no slot. The seven controllers of the domains have a
bridge in the middle or at the end, used or empty, and ports below and above the first
filler; 17 units of memory have no layout in two slots, 16 have several, which lie on
both sides of the PCI hole. Every run ends by itself at its bounds and a script may end
for good, so deadlock is not checked, except in `cpuid_current`, where a guest can
always go on.

`pipeline_overlap` explores nothing beyond a run of 04 that has ended after its first
copy (a CONSTRAINT): its two properties are about what comes before the copies.
`apply_faults` has a VIEW, `NothingUnused`: no step depends on the edit of an XML or on
`backup`, and none of its properties is about them, so that states that differ in these
only are visited once.

What the code gives is conditional. The condition is a constant of the module:

- `Overlap`: `pipeline_overlap` and `pipeline_mixed` run with overlapping stages, the
  sequential run without.
- `SameRoot`: the lock is a file in the work directory, what it protects is the host's.
  With two work directories (`FALSE`) TLC finds `InstallReportsPair` violated.

Or it is in the property:

- `torn`, in `DomainRuntimeGenuine`: a copy that is cut short while the same identity is
  applied again leaves the defined domain with a missing or truncated file. It is never
  a file of another identity.
- `cut`, in `GuestIsolated` and `OldNetworksRemoved`. A run that ends between the restart
  of the unit and `virsh define` leaves a machine that still starts, on bridges that
  are in no rule, because the rules list one profile's bridges and are switched first;
  the next successful run repairs that. Networks a cut run leaves are repaired by none
  (`OldNetworksGone`, below).
- `intruded`, in `RunningHasNetwork` and `GuestIsolated`: a machine that is started behind
  04's look at its state runs while its networks and rules are replaced
  (`AppliedShutOff`, below). Every other machine keeps both, also one that was started in an
  earlier run and still runs, and one that is started right after the definition.
- `misread`, in `OldNetworksRemoved`: of a machine that runs, `virsh dumpxml` prints the XML
  it was started with. Started in one run and shut down in the next, between the dump
  and the check of its state, it gives 04 a profile that is no longer the defined one.
- `harmed`, in `IdleMeansMatched` and `FailedInstallUndone`: nothing was killed and no
  command of a restore failed.
- `changed`, `mixed` and `torn` in `KvmBuildTree`, as above.

### What the violations show

- `pipeline_mixed`: 04 checks one `smbios.bin` and deploys the one that is there
  later. README line 194 says 04 refuses to mix profiles.
- `domain_refused`: 01 records the role of a root port before, 04 compares it after
  devices were removed. A removed device that was alone behind a kept port makes 04
  refuse, with a message that says to run 01 again, which changes nothing.
- `cpuid_subleaf`: the table answers leaves beyond the limits for every subleaf with
  the answer of subleaf 0, where the code it replaces observes the index.

### What the models show besides

These follow from the models, too, and are stated here instead of in runs of their own.
The first five are named properties that do not hold. TLC shows how when one takes the
place of the properties in `Apply_faults.cfg` (without its VIEW) or `Cpuid_current.cfg`:

- `AppliedShutOff`: the state of the machine is read once, minutes before the networks are
  destroyed; `04` line 2059 says that the machine must be off when the configuration is
  applied.
- `BackupCoversReplaced`: what is backed up and transformed is the XML of the start of the
  run. An edit made since is in neither (README line 99: the original XML is backed up).
- `OldNetworksGone`: networks to remove are known from the XML before the definition. A run
  that ends before the definition leaves the networks it has made, and one that ends
  between the definition and the removal those of the replaced profile; once another
  identity is applied no XML names them (README line 125 says that they are removed
  automatically).
- `NothingStale`: `kvm_cpuid` asks for the core's leaves and for the VM's Hyper-V control
  anew each time; the table is rebuilt only when this virtual CPU's generation moved
  (`kvm/README.md` lines 284 to 287 say that runtime adjustments are preserved).
- `UpdatesInterruptible`: a write of `MSR_IA32_XSS` leaves an update pending and the table
  outdated; rebuilding it on the way into the guest makes the update there, with
  interrupts off, where `kvm_find_cpuid_entry2` asserts that they are on.
- What an interrupted removal of 02's old output leaves can pass 04's checks without
  QEMU's data directory, which has no hash (`04` line 816; README line 98 says that 04
  checks the hashes of all products).
- After `set +e` the error handler of `kvm.sh` says `previous modules restored` (line
  703) whether its commands succeeded or not.
- Of a valid CPU binding the set of CPUs is kept, not their order (`04` line 314; README
  line 103 says that valid bindings are kept).
- A kernel that is rebuilt under its release with the same toolchain is compiled for
  with the configuration and symbol versions of the old one, as long as its tree is
  there (`kvm.sh` line 543); line 647 logs that the running kernel's are used.
- `04` removes an empty bridge so that libvirt does not add ports (lines 1348 to 1350).
  When the bridge is in the middle, removing it makes the gap that libvirt fills, and
  the next run of 04 refuses the added port.

The README of the repository gives 27 and 28 as the identity schema; the sources say
32 (`01` line 37, `02` line 25, `03` line 24). No model depends on it.

### Fairness

One module states liveness. In the others a stage or a run of 04 is a finite sequence of
commands, and may end at any of them.

In `CpuidReentry`, `WF_vars(C)` and `WF_vars(Asm)` say that code which runs goes on, and
`WF_vars(Guest)` that a processor in guest mode lets time pass or exits.
`WF_vars(HostInterrupt)` says that the host is interrupted again and again: its own
timer tick. `TimerServed` needs it: without, a guest that does nothing but CPUID is
resumed by the assembly code for ever, with a preemption timer that starts anew each
time. There is no fairness for failures.

## Proofs

All are for every value of the constants that the modules' named assumptions allow; TLC
evaluates these assumptions in every run.

`ArtifactPipeline_proofs`:

- `TypeCorrect`: `Spec => []TypeOK`;
- `HonestBuilds`: `Spec => []BuildInfoHonest`, with overlapping stages. The property is
  not inductive: between `FinishBuild` and `WriteInfo` a builder must still have in memory
  the identity its products were made for. `HonestInv` adds that (`ProductsBuilt`), and
  `OutputsDisjoint` that no other stage writes them;
- `SequentialInvariant` and `GenuineRuntime`: under `~Overlap`,
  `Spec => []DomainRuntimeGenuine`. The invariant `SequentialInv` says one stage runs,
  builds are honest, and each of 04's checks still holds in its later steps
  (`ChecksStillHold`: after the contract `smbios` is of the identity in memory, each
  product is once it is hashed, each file of the runtime once it is compared). `~Overlap` is used
  in one place, `OthersIdle`, and `pipeline_mixed` shows it is needed;
- `PipelineImplementsLifecycle`: under `~Overlap`, the pipeline implements
  `IdentityLifecycle`. The refinement maps a part of the machine to the identity of
  the deployed file; `WriteIdentity` is `Publish`, `Define` is `Adopt`, a copy or a torn
  copy into the defined domain's own runtime is `Rewrite`, all other steps stutter. It
  needs `WholeMachine` (all parts of the machine agree when 04 defines it), `PartWritten`
  (writing one file of a runtime changes at most that part) and `FreshInv` (an identity
  is never drawn twice, so `Publish` increases);
- `AcceptedGenuine`: `Spec => AcceptedBuildsGenuine`, with overlapping stages: each product
  04 accepts was, when it was hashed, of the identity 04 has in memory. It follows from
  `HonestInv` at the moment build-info.json is parsed and from `SeenMatches`, which
  carries that to the hashes.

`ApplyTransaction_proofs`, for any number of identities, adapters and edits and with every
failure, kill and reboot. The invariant `Inv` says what a run relies on at each command:
the networks of the adapters done are ready and the present one is half done
(`NetworksMade`), nothing runs that 04 did not see or start (`OnlyListedRun`), what runs
starts again after a reboot (`BootsAgain`), the files and the unit are there from their
steps on (`Isolation`), the profile that is replaced is the one that was read
unless it was misread (`DumpedProfile`), what is removed in the end belongs to it (`OnlyStaleListed`), a run
gives up the success of the last one before it changes a thing (`SettledIsStill`), and
while no run was cut short a profile that is defined has its success (`KnownSuccess`) and,
unless one was misread, every network's profile is known (`KnownNetworks`). `LiveKept` is
about the machine: unless it was started where 04 no longer looks, it runs with the
defined profile, has its networks, and 04 is not where it changes them.

All are for an owner who starts, stops and edits the machine at any time:

- `TypeCorrect`, `StaysOperational` (`AppliedStaysOperational`), `NothingOldLeft`
  (`OldNetworksRemoved`), `NetworksKept` (`DomainNetworksKept`) and `UnitStarts`
  (`UnitCanStart`);
- `RunningKeepsNetwork` (`RunningHasNetwork`) and `RunningIsolated` (`GuestIsolated`), both
  from `LiveKept`.

`KvmInstall_proofs`, for any number of installs and instances, whatever fails, is killed or
decays:

- `TypeCorrect`, without a condition;
- under `SameRoot`: `AlwaysRecoverable` (`PairRecoverable`), `MatchedWhenIdle`
  (`IdleMeansMatched`), `ReplacedIsRestorable` (`ReplacesOnlySaved`), and `InstallReported`,
  `RestoreReported` and `FailureUndone` of the three reports. The invariant: one instance
  runs (`Alone`), under a stamp of its own (`Stamped`); its backup is made before a module
  is replaced (`BackupMade`), and what it replaces or restores is done when it says so
  (`PairReplaced`, `PairRestored`); the sums of a listed backup are those of its files, or
  tell that it decayed or that they were never written (`SumsTell`). `PairRecoverable` needs `FirstBackupMatched`: while
  no backup has decayed, one is of a matched pair, or there is none and the pair in place
  is still the package's. `IdleMeansMatched` needs `UnharmedMatched`: without kills and
  failing restores every sound backup is of a matched pair, and so is the pair in place
  where no run has begun to replace it.

`VcpuPinning_proofs`, for any number of vCPUs and CPUs and every binding: `Exclusive`
(`PinningIsExclusive`), `Stable` (`ApplyIsStable`) and `Kept` (`BoundCpusKept`). The proof
is about the choice of CPUs in ascending order: ranks in a finite set are a bijection to
the numbers below its size, so the `v`-th chosen CPU exists and is nobody else's.

`CpuidCache_proofs`, for any set of models, hash, number of slots and probe limit:

- `TypeCorrect` and `CacheCurrent`: `Spec => []TableIsCurrent`, in which a `Volatile` leaf
  may have an earlier answer. The invariant `Safe` adds
  what a step needs to know: without a pending update the entries hold the bits of the
  registers (`RuntimeApplied`); the inner loop is armed only behind an entry that found
  the generations equal and nothing pending (`ArmedClean`); a key without an index is a
  probe's or belongs to a function without subleaves (`KeysOfModel`); the copy of leaf 0
  is the model's (`LeafZeroCopied`);
- `Refinement`: `Spec => AnswersAsPromised`, the implementation of `CpuidArchitecture`.
  Every answer, from whichever of the three places, is one that `Allowed` has; every
  other step changes the state or stutters. `HitKeyed` says that every lookup ends in a
  slot with a key of the request, `NonindexedAnswer` that a function without subleaves
  answers every index alike;
- `NoSlotLost`: `Spec => []SlotsReachable`. The invariant `Placed`: between the home of a
  key and its slot there is neither a free slot nor one with the key, and a key has an
  index only where its function has subleaves (`IndexedKeys`);
- `EarlySame`: under `QueriesFit`, `Spec => []EarlyAgrees`. `QueriesFit` says that the
  queries with an index are not of functions that the model lists without subleaves:
  they are 0xB and 0x1F, which QEMU marks as having them, and the instances of TLC
  satisfy it. Without it a leaf could have a slot with an index and one without; the two
  searches could then end in different slots, but not give different answers
  (`Refinement`, which does not need it).

`CpuidReentry_proofs`: `TypeCorrect`, `ResumedExactly`, `ReturnedUntouched` and
`FailedSynchronized` from one invariant (`Invariant`), which says at each place of the
code what the registers and the array hold (`Contents`, `Spilled`), that a verdict lasts
until the registers are saved (`VerdictsShort`), that the paths are never on for a guest
whose CPUID faults (`FastMeansNoFault`), and that the instruction pointer has not moved
(`NotAdvanced`).

`KvmBuildTree_proofs`: `TypeCorrect`, `StagedAsNamed`, `AsConfigured` and `Complete`. The
action properties are read off an invariant (`Invariant`) that follows a run: the sum
it took is that of the patch (`SummedIsThere`), from `ApplyPatch` or the look of
`ReuseTree` on the tree has it (`PatchIsSummed`) or, when the tree was prepared while
the patch file was replaced, one it reverses in (`MarkedHoldsPatch`); a tree being prepared has no marker
(`NoMarkerYet`), and over all trees, the marker fits the configuration and a marked tree
is complete (`MarkerFitsConfig`, `MarkedIsComplete`).

`DomainProfile_proofs`, for every topology, catalog of DIMMs, set of host ports and any
number of edits. It has three parts:

- `ExplainedRefusal` (`RefusalExplained`) and `ReapplyNoop` (`ReapplyIsNoop`) from
  `Invariant`: 04's transformation and libvirt's additions keep the domain well formed
  (`WellFormed`) and, until the owner's next edit, its memory and host devices
  (`SameMachine`), the roles of the ports that are used (`RolesStand`) and the list of ports
  (`KeptAreListed`, `ListedStay`, `ListedAreIndexes`), the ports libvirt adds are not used
  (`AddedUnused`), and what 04 defined has nothing 04 takes away, no gap between
  controllers (`Settled`) and nothing in its way (`Unobstructed`). `VerdictIs` says that
  the first objection is one, by the smallest number of `CheckOrder`;
- `AssignedInTurn` (`IdentitiesAssigned`). The ports take turns in a strict order
  (`TurnsOrdered`) and each turn takes the first free host port in another (`RanksOrdered`).
  `Good` says after `n` turns what the property says of the ports served; `TurnKeeps` is
  the step;
- `BestLayout` (`LayoutIsBest`) and `TablesExact` (`MemoryTablesExact`). `StateOk` says that
  after `n` DIMMs the search has the preferred one of all layouts of `n` DIMMs for every
  amount that they can make. It is kept by `OneMore` because a layout without its last DIMM
  is a layout (`WithoutLast`) and because the preferred one of two layouts stays the
  preferred one when both get a DIMM that is not larger than those of the other
  (`InsertKeepsOrder`): replacing what is kept for the smaller amount never helps. Without
  that, keeping one layout for an amount would lose layouts. The final choice counts two
  equal DIMMs before fewer DIMMs, which the search does not: `BestIsCandidate` shows that
  such a pair is the one candidate added by hand. For the tables, `PartsAre` says what
  `device_ranges` computes: the first DIMM has a part on both sides of the hole, every
  other one part behind it. `PartsTile` counts the addresses.

Induction over numbers is by least counterexample (`SmallestExists`), recursive functions
are shown to exist before they are unfolded (`SumsExist`, `StatesExist`, `TurnsExist`), and
cardinalities come from the library's facts about finite sets.

Every safety and action property of the passing runs is a theorem. Only model-checked is
the liveness property `TimerServed`: the prover has no rules for fairness (`ENABLED`).

## Not modelled

- The SMBIOS and ACPI strings, MAC addresses and LAN profiles of an identity: drawn at
  random or copied.
- The patches 02 and 03 make to QEMU and EDK2 sources: text replacements whose effect
  is a built program.
- The functions of `apply_profile` that write fixed values into one element, and XML
  the code does not read.
- File-system caches: a written file is on disk. Backups of the domain XML made in the
  same second.
- Of the KVM patch the MSR overlay and the hybrid PMU, and AMD's code. Vendor redirection
  is Intel's. Two virtual CPUs share only the Hyper-V control; each has its own table.
- The rest of `.work/msr-silicon`: three copies of upstream KVM, most of whose lines the
  program does not change. `applytest` and `new` are the same, byte for byte; `old` is the
  base the patch starts from. The models are translated from `new`
  and cover what the patch adds for CPUID and what of `cpuid.c`, `vmx.c`, `x86.c` and
  `vmenter.S` that code relies on. A model of KVM as such would be one of another
  program; this is why the share of the C lines that is mapped is small. The program's
  own code is Python and shell, and the larger part of the map is there.
- The diagnostic tools, the older scripts in `vm/`, the guest's batch file.

## Plan

Done: the modules above with their runs, and the proofs of all their safety and action
properties.

Next, in this order:

1. A refinement for `KvmInstall` and `ApplyTransaction`: what an installation or an
   application promises to its caller, as a specification of a few lines, which the
   properties now state one by one.
2. `MsrOverlay`: the contract of the MSR patch and its 256 entries.
