----------------------------- MODULE KvmInstall -----------------------------
(***************************************************************************)
(* kvm.sh: `install` and `restore` of the pair of modules a host's KVM is  *)
(* made of, kvm.ko.zst and kvm-intel.ko.zst or kvm-amd.ko.zst.             *)
(*                                                                         *)
(* The two modules share one ABI and replace each other one file at a      *)
(* time.  `install` saves the pair that is there, puts its own beside it,  *)
(* moves the files into place and rebuilds the initramfs; an ERR trap      *)
(* restores what was saved when one of these commands fails.  A signal     *)
(* reaches no trap.  A lock in the work directory keeps instances apart    *)
(* that use the same work directory.                                       *)
(*                                                                         *)
(* A module is the number of the build it comes from.                      *)
(***************************************************************************)
EXTENDS Naturals

CONSTANTS MaxRun,         \* bound: runs of `install`
          Instances,      \* processes that run kvm.sh
          SameRoot,       \* do they use the same --work-dir?
          Kills,          \* may an instance be killed?
          RestoreFaults,  \* may a command of restore_backup fail?
          Damage,         \* may a backup lose a file while nobody uses it?
          EarlyKvm        \* does the initramfs contain the modules?

ASSUME MaxRunAssumption == MaxRun \in Nat
ASSUME FlagsAssumption ==
  {SameRoot, Kills, RestoreFaults, Damage, EarlyKvm} \subseteq BOOLEAN

Module == {"kvm", "vendor"}
NoModule == 0                    \* no file, or half a file
Package == 1                     \* the module of the kernel package
Version == 0..(MaxRun + 1)
Pair == [Module -> Version]
Same(v) == [m \in Module |-> v]
Stamp == 1..MaxRun               \* the second a backup directory is named after

SavingLabels == {"backup", "save", "sums", "manifest"}
ReplacingLabels == {"stage", "move", "index", "last"}
RestoringLabels == {"verify", "copy", "reindex", "report"}
Labels == {"idle"} \cup SavingLabels \cup ReplacingLabels \cup RestoringLabels

VARIABLES
  runs,       \* runs of `install` so far
  installed,  \* the pair in the kernel's module directory
  temp,       \* .kvm.ko.zst.new and .kvm-<vendor>.ko.zst.new beside it
  image,      \* the pair in the initramfs
  files,      \* backups/<stamp>: the two module files
  listed,     \* backups with a SHA256SUMS
  torn,       \* ... that is empty
  manifest,   \* ... or the pair it has the sums of
  pc,         \* where each instance is
  at,         \* ... and at which of the two modules
  stage,      \* the build in its stage directory
  stamp,      \* $backup: the backup directory it writes or restores, 0 for none
  sums,       \* the sums it computed
  active,     \* INSTALL_ACTIVE
  harmed,     \* history: has a run been killed or a command of a restore failed?
  damaged     \* history: the backups that lost a file

backups == <<files, listed, torn, manifest>>
disk == <<installed, temp, image, backups>>
process == <<stage, stamp, sums, active>>
history == <<harmed, damaged>>
vars == <<runs, disk, pc, at, process, history>>

TypeOK ==
  /\ runs \in 0..MaxRun
  /\ installed \in Pair /\ temp \in Pair /\ image \in Pair
  /\ files \in [Stamp -> Pair] /\ manifest \in [Stamp -> Pair]
  /\ listed \subseteq Stamp /\ torn \subseteq listed
  /\ pc \in [Instances -> Labels]
  /\ at \in [Instances -> Module]
  /\ stage \in [Instances -> Version]
  /\ stamp \in [Instances -> Stamp \cup {0}]
  /\ sums \in [Instances -> Pair]
  /\ active \in [Instances -> BOOLEAN]
  /\ harmed \in BOOLEAN /\ damaged \subseteq Stamp

Init ==
  /\ runs = 0
  /\ installed = Same(Package) /\ temp = Same(NoModule)
  /\ image = IF EarlyKvm THEN Same(Package) ELSE Same(NoModule)
  /\ files = [s \in Stamp |-> Same(NoModule)]
  /\ manifest = [s \in Stamp |-> Same(NoModule)]
  /\ listed = {} /\ torn = {}
  /\ pc = [p \in Instances |-> "idle"]
  /\ at = [p \in Instances |-> "kvm"]
  /\ stage = [p \in Instances |-> NoModule]
  /\ stamp = [p \in Instances |-> 0]
  /\ sums = [p \in Instances |-> Same(NoModule)]
  /\ active = [p \in Instances |-> FALSE]
  /\ harmed = FALSE /\ damaged = {}

Step(p, from, to) == pc[p] = from /\ pc' = [pc EXCEPT ![p] = to]

\* The command at `label` for kvm.ko and then for the vendor's module.
ForEachModule(p, label, next) ==
  /\ pc[p] = label
  /\ pc' = IF at[p] = "kvm" THEN pc ELSE [pc EXCEPT ![p] = next]
  /\ at' = [at EXCEPT ![p] = IF @ = "kvm" THEN "vendor" ELSE "kvm"]

\* The process is gone, and its lock with it.
Exit(p) ==
  /\ pc' = [pc EXCEPT ![p] = "idle"]
  /\ at' = [at EXCEPT ![p] = "kvm"]
  /\ stage' = [stage EXCEPT ![p] = NoModule]
  /\ stamp' = [stamp EXCEPT ![p] = 0]
  /\ sums' = [sums EXCEPT ![p] = Same(NoModule)]
  /\ active' = [active EXCEPT ![p] = FALSE]

\* Mutant: the lock is taken and its failure ignored.
LockIgnored(p) == pc[p] = "idle"

\* acquire_lock: flock of a file in the work directory, not waiting.
LockFree(p) == SameRoot => \A q \in Instances : pc[q] = "idle"

-----------------------------------------------------------------------------
(* install: save the pair.                                                 *)

\* The lock, then a build of the modules into a stage directory (KvmBuildTree).
StartInstall(p) ==
  /\ runs < MaxRun
  /\ LockFree(p)
  /\ Step(p, "idle", "backup")
  /\ runs' = runs + 1
  /\ stage' = [stage EXCEPT ![p] = Package + runs + 1]
  /\ UNCHANGED <<disk, at, stamp, sums, active, history>>

\* Mutant: the directory is named after the second that follows.
MakeNextBackup(p) ==
  /\ Step(p, "backup", "save")
  /\ stamp' = [stamp EXCEPT ![p] = runs + 1]
  /\ UNCHANGED <<runs, disk, at, stage, sums, active, history>>

\* Mutant: one directory for all backups.
MakeOnlyBackup(p) ==
  /\ Step(p, "backup", "save")
  /\ stamp' = [stamp EXCEPT ![p] = 1]
  /\ UNCHANGED <<runs, disk, at, stage, sums, active, history>>

\* check_idle and the other checks pass.  The directory is named after the
\* second; building takes longer than one, so a later run has a later name,
\* and runs that overlap may have the same.
MakeBackup(p) ==
  /\ Step(p, "backup", "save")
  /\ stamp' = [stamp EXCEPT ![p] = runs]
  /\ UNCHANGED <<runs, disk, at, stage, sums, active, history>>

SaveModule(p) ==
  /\ ForEachModule(p, "save", "sums")
  /\ files' = [files EXCEPT ![stamp[p]][at[p]] = installed[at[p]]]
  /\ UNCHANGED <<runs, installed, temp, image, listed, torn, manifest, process, history>>

\* Mutant: the sums are those of the stage.
SumStage(p) ==
  /\ Step(p, "sums", "manifest")
  /\ sums' = [sums EXCEPT ![p] = Same(stage[p])]
  /\ UNCHANGED <<runs, disk, at, stage, stamp, active, history>>

\* The sums are those of the module directory, not of the copies.
SumModules(p) ==
  /\ Step(p, "sums", "manifest")
  /\ sums' = [sums EXCEPT ![p] = installed]
  /\ UNCHANGED <<runs, disk, at, stage, stamp, active, history>>

\* Mutant: INSTALL_ACTIVE stays 0.
WriteManifestOnly(p) ==
  /\ Step(p, "manifest", "stage")
  /\ listed' = listed \cup {stamp[p]} /\ torn' = torn \ {stamp[p]}
  /\ manifest' = [manifest EXCEPT ![stamp[p]] = sums[p]]
  /\ UNCHANGED <<runs, installed, temp, image, files, at, process, history>>

\* SHA256SUMS last; from here on an error restores this backup.
WriteManifest(p) ==
  /\ Step(p, "manifest", "stage")
  /\ listed' = listed \cup {stamp[p]} /\ torn' = torn \ {stamp[p]}
  /\ manifest' = [manifest EXCEPT ![stamp[p]] = sums[p]]
  /\ active' = [active EXCEPT ![p] = TRUE]
  /\ UNCHANGED <<runs, installed, temp, image, files, at, stage, stamp, sums, history>>

\* The sums are copied into place, as two short lines that are written at once:
\* a failing command or a kill leaves the new file empty, or none (InstallFails,
\* Kill).  No error handler is armed yet.
TearManifest(p) ==
  /\ pc[p] = "manifest"
  /\ listed' = listed \cup {stamp[p]} /\ torn' = torn \cup {stamp[p]}
  /\ Exit(p)
  /\ UNCHANGED <<runs, installed, temp, image, files, manifest, history>>

-----------------------------------------------------------------------------
(* install: replace the pair.                                              *)

StageModule(p) ==
  /\ ForEachModule(p, "stage", "move")
  /\ temp' = [temp EXCEPT ![at[p]] = stage[p]]
  /\ UNCHANGED <<runs, installed, image, backups, process, history>>

\* mv -f: a rename, which fails when another instance has moved the file.
MoveModule(p) ==
  /\ temp[at[p]] # NoModule
  /\ ForEachModule(p, "move", "index")
  /\ installed' = [installed EXCEPT ![at[p]] = temp[at[p]]]
  /\ temp' = [temp EXCEPT ![at[p]] = NoModule]
  /\ UNCHANGED <<runs, image, backups, process, history>>

\* depmod, and mkinitcpio when the initramfs contains KVM.
RebuildImage == image' = IF EarlyKvm THEN installed ELSE image

IndexModules(p) ==
  /\ Step(p, "index", "last")
  /\ RebuildImage
  /\ UNCHANGED <<runs, installed, temp, backups, at, process, history>>

\* .last, which nothing reads, is written; INSTALL_ACTIVE=0; "installation
\* complete".
InstallReports(p) ==
  /\ pc[p] = "last"
  /\ Exit(p)
  /\ UNCHANGED <<runs, disk, history>>

\* A command of `install` fails: install_error_handler.  A command is one of
\* those above, or a check before them; the owner can also decline.
InstallFails(p) ==
  /\ pc[p] \in SavingLabels \cup ReplacingLabels
  /\ IF active[p] THEN /\ pc' = [pc EXCEPT ![p] = "verify"]
                       /\ at' = [at EXCEPT ![p] = "kvm"]
                       /\ UNCHANGED process
                  ELSE Exit(p)
  /\ UNCHANGED <<runs, disk, history>>

-----------------------------------------------------------------------------
(* restore_backup: for `restore`, where an error ends the run, and for the *)
(* handler (INSTALL_ACTIVE is still 1), where after `set +e` none does.    *)

\* The sums are not empty, and sha256sum -c.
Verified(s) == s \in listed \ torn /\ files[s] = manifest[s]

\* `restore` offers a directory with a SHA256SUMS, empty or not.
StartRestore(p, s) ==
  /\ s \in listed
  /\ LockFree(p)
  /\ Step(p, "idle", "verify")
  /\ stamp' = [stamp EXCEPT ![p] = s]
  /\ UNCHANGED <<runs, disk, at, stage, sums, active, history>>

VerifyBackup(p) ==
  /\ Step(p, "verify", "copy")
  /\ Verified(stamp[p])
  /\ UNCHANGED <<runs, disk, at, process, history>>

\* die: an exit also in the handler.
RefuseBackup(p) ==
  /\ pc[p] = "verify"
  /\ ~Verified(stamp[p])
  /\ Exit(p)
  /\ UNCHANGED <<runs, disk, history>>

\* Mutant: only kvm.ko is copied back.
CopyBackKvmOnly(p) ==
  /\ ForEachModule(p, "copy", "reindex")
  /\ installed' = [installed EXCEPT !["kvm"] = files[stamp[p]]["kvm"]]
  /\ UNCHANGED <<runs, temp, image, backups, process, history>>

CopyBack(p) ==
  /\ ForEachModule(p, "copy", "reindex")
  /\ installed' = [installed EXCEPT ![at[p]] = files[stamp[p]][at[p]]]
  /\ UNCHANGED <<runs, temp, image, backups, process, history>>

\* `install` replaces the file in place: it may fail before or half-way.
TornCopy(p) ==
  \E v \in {installed[at[p]], NoModule} : installed' = [installed EXCEPT ![at[p]] = v]

\* Mutant: `restore`, too, goes on after an error.
CopyBackFailureIgnored(p) ==
  /\ RestoreFaults
  /\ TornCopy(p)
  /\ ForEachModule(p, "copy", "reindex")
  /\ harmed' = TRUE
  /\ UNCHANGED <<runs, temp, image, backups, process, damaged>>

CopyBackFails(p) ==
  /\ RestoreFaults
  /\ pc[p] = "copy"
  /\ TornCopy(p)
  /\ IF active[p] THEN ForEachModule(p, "copy", "reindex") /\ UNCHANGED process
                  ELSE Exit(p)
  /\ harmed' = TRUE
  /\ UNCHANGED <<runs, temp, image, backups, damaged>>

Reindex(p) ==
  /\ Step(p, "reindex", "report")
  /\ RebuildImage
  /\ UNCHANGED <<runs, installed, temp, backups, at, process, history>>

ReindexFails(p) ==
  /\ RestoreFaults
  /\ pc[p] = "reindex"
  /\ IF active[p] THEN Step(p, "reindex", "report") /\ UNCHANGED <<at, process>>
                  ELSE Exit(p)
  /\ harmed' = TRUE
  /\ UNCHANGED <<runs, disk, damaged>>

\* "previous modules restored"
HandlerReports(p) ==
  /\ pc[p] = "report" /\ active[p]
  /\ Exit(p)
  /\ UNCHANGED <<runs, disk, history>>

\* "restore complete"
RestoreReports(p) ==
  /\ pc[p] = "report" /\ ~active[p]
  /\ Exit(p)
  /\ UNCHANGED <<runs, disk, history>>

-----------------------------------------------------------------------------

\* A signal or a power failure: no trap runs.
Kill(p) ==
  /\ Kills
  /\ pc[p] # "idle"
  /\ IF pc[p] = "copy" THEN TornCopy(p) ELSE UNCHANGED installed
  /\ Exit(p)
  /\ harmed' = TRUE
  /\ UNCHANGED <<runs, temp, image, backups, damaged>>

\* What SHA256SUMS is there to find out.
DamageBackup(s, m) ==
  /\ Damage
  /\ \A p \in Instances : pc[p] = "idle"
  /\ damaged = {} /\ s \in listed /\ files[s][m] # NoModule
  /\ files' = [files EXCEPT ![s][m] = NoModule]
  /\ damaged' = damaged \cup {s}
  /\ UNCHANGED <<runs, installed, temp, image, listed, torn, manifest, pc, at, process, harmed>>

Install(p) ==
  \/ StartInstall(p) \/ MakeBackup(p) \/ SaveModule(p) \/ SumModules(p) \/ WriteManifest(p)
  \/ TearManifest(p) \/ StageModule(p) \/ MoveModule(p) \/ IndexModules(p) \/ InstallReports(p)
  \/ InstallFails(p)

Restore(p) ==
  \/ \E s \in Stamp : StartRestore(p, s)
  \/ VerifyBackup(p) \/ RefuseBackup(p)
  \/ CopyBack(p) \/ CopyBackFails(p) \/ Reindex(p) \/ ReindexFails(p)
  \/ HandlerReports(p) \/ RestoreReports(p)

Next ==
  \/ \E p \in Instances : Install(p) \/ Restore(p) \/ Kill(p)
  \/ \E s \in Stamp, m \in Module : DamageBackup(s, m)

Spec == Init /\ [][Next]_vars

-----------------------------------------------------------------------------

\* Both modules are there and come from the same build.
Matched(pair) == \E v \in Version \ {NoModule} : pair = Same(v)

\* The pair the next boot loads.
Booted == IF EarlyKvm THEN image ELSE installed

(* Failing commands never leave a mixed or damaged pair behind, not even with
   damaged backups: as long as nothing was killed and no restore failed,
   when no instance runs the installed modules, and those the next boot
   loads, are there and come from one build.                                *)
IdleMeansMatched ==
  ~harmed /\ (\A p \in Instances : pc[p] = "idle") => Matched(installed) /\ Matched(Booted)

(* Whatever is killed and whatever fails, also while restoring, and however
   often: while the installed pair, or the one the next boot loads, is mixed
   or incomplete, some backup that `restore` accepts holds a pair from one
   build, unless a backup itself was damaged.                               *)
PairRecoverable ==
  damaged = {} /\ ~(Matched(installed) /\ Matched(Booted)) =>
    \E s \in Stamp : Verified(s) /\ Matched(files[s])

(* A module is overwritten only when it is in the run's backup and `restore`
   would accept that backup: the sums that are taken from the module directory,
   after the copies, are those of the copies, and a directory whose sums were
   not written, or were written by another run, is never relied on.          *)
ReplacesOnlySaved ==
  [][\A p \in Instances :
       MoveModule(p) => /\ Verified(stamp[p])
                        /\ files[stamp[p]][at[p]] = installed[at[p]]]_vars

(* "installation complete" is said when both modules are the run's own, and
   the next boot loads them.                                                *)
InstallReportsPair ==
  [][\A p \in Instances :
       InstallReports(p) => installed = Same(stage[p]) /\ Booted = Same(stage[p])]_vars

(* "restore complete" is said when both modules are those of the backup.    *)
RestoreReportsPair ==
  [][\A p \in Instances :
       RestoreReports(p) => installed = files[stamp[p]] /\ Booted = files[stamp[p]]]_vars

(* "previous modules restored" is said when the previous modules are back,
   as long as nothing was killed and no restore failed.                     *)
FailedInstallUndone ==
  [][\A p \in Instances : HandlerReports(p) /\ ~harmed => installed = files[stamp[p]]]_vars
=============================================================================
