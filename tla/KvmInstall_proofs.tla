-------------------------- MODULE KvmInstall_proofs --------------------------
(***************************************************************************)
(* Proofs about KvmInstall for any number of runs and instances, whichever *)
(* of kills, failing restores and decaying backups there are.  Beyond the  *)
(* types they are for instances that share a work directory, and with it   *)
(* the lock: SameRoot.                                                     *)
(***************************************************************************)
EXTENDS KvmInstall, TLAPS

InstallLabels == SavingLabels \cup ReplacingLabels

\* A run has a backup directory from MakeBackup on, and the trap restores it
\* from the manifest to the end.
Stamped ==
  \A p \in Instances :
    /\ active[p] => pc[p] \notin {"idle"} \cup SavingLabels
    /\ pc[p] = "backup" => runs # 0
    /\ pc[p] \notin {"idle", "backup"} => stamp[p] # 0

\* The lock: one instance runs at a time.
Alone == \A p, q \in Instances : pc[p] # "idle" /\ pc[q] # "idle" => p = q

\* The loops over the modules end where they began, the trap is armed before
\* anything is replaced, and an installing run has modules to install.
InOrder(p) ==
  /\ at[p] = "vendor" => pc[p] \in {"save", "stage", "move", "copy"}
  /\ pc[p] \in ReplacingLabels => active[p]
  /\ pc[p] \in InstallLabels => stage[p] # NoModule

\* A backup being made has a directory of its own, and what it has got of the
\* installed pair so far.
BackupMade(p) ==
  /\ pc[p] \in SavingLabels => runs \notin listed /\ (pc[p] # "backup" => stamp[p] = runs)
  /\ pc[p] = "save" /\ at[p] = "vendor" => files[stamp[p]]["kvm"] = installed["kvm"]
  /\ pc[p] \in {"sums", "manifest"} => files[stamp[p]] = installed
  /\ pc[p] = "manifest" => sums[p] = installed
  /\ pc[p] = "stage" => files[stamp[p]] = installed
  /\ pc[p] = "move" /\ at[p] = "kvm" => files[stamp[p]] = installed
  /\ pc[p] = "move" => files[stamp[p]]["vendor"] = installed["vendor"]

\* The handler's backup is good all the time, a chosen one when it was checked.
BackupChosen(p) ==
  /\ pc[p] \in ReplacingLabels \cup RestoringLabels => stamp[p] \in listed
  /\ active[p] \/ pc[p] \in RestoringLabels \ {"verify"} => Verified(stamp[p])

\* How far the pair has been replaced ...
PairReplaced(p) ==
  /\ pc[p] = "stage" /\ at[p] = "vendor" => temp["kvm"] = stage[p]
  /\ pc[p] = "move" => temp["vendor"] = stage[p]
  /\ pc[p] = "move" /\ at[p] = "kvm" => temp["kvm"] = stage[p]
  /\ pc[p] = "move" /\ at[p] = "vendor" => installed["kvm"] = stage[p]
  /\ pc[p] \in {"index", "last"} => installed = Same(stage[p])
  /\ pc[p] = "last" => Booted = Same(stage[p])

\* ... and restored, where no failure has been passed over.
PairRestored(p) ==
  ~harmed \/ ~active[p] =>
    /\ pc[p] = "copy" /\ at[p] = "vendor" => installed["kvm"] = files[stamp[p]]["kvm"]
    /\ pc[p] \in {"reindex", "report"} => installed = files[stamp[p]]
    /\ pc[p] = "report" => Booted = files[stamp[p]]

\* Sums tell damaged backups from the others.
SumsTell ==
  /\ \A s \in listed : s <= runs
  /\ damaged \subseteq listed
  /\ \A s \in listed \ torn : files[s] = manifest[s] <=> s \notin damaged

\* The first backup is of the matched pair the package installed, and a later
\* one of a matched pair or of one that an earlier backup can replace.
SomeBackupMatched == \E s \in Stamp : Verified(s) /\ Matched(files[s])
FirstBackupMatched ==
  damaged = {} =>
    SomeBackupMatched \/ (listed \subseteq torn /\ Matched(installed) /\ Matched(Booted))

\* Where an instance has not begun to replace the installed pair.
PairUntouched(p) ==
  \/ pc[p] \in {"idle", "stage"} \cup SavingLabels
  \/ pc[p] = "verify" /\ ~active[p]

\* Without kills and failing restores all pairs are matched, on the disk
\* between runs and in the backups at any time.
UnharmedMatched ==
  ~harmed =>
    /\ \A s \in listed \ damaged : Matched(files[s])
    /\ (\A p \in Instances : PairUntouched(p)) => Matched(installed) /\ Matched(Booted)

ProcessInv(p) ==
  InOrder(p) /\ BackupMade(p) /\ BackupChosen(p) /\ PairReplaced(p) /\ PairRestored(p)

Inv == /\ TypeOK /\ Stamped /\ Alone
       /\ \A p \in Instances : ProcessInv(p)
       /\ SumsTell /\ FirstBackupMatched /\ UnharmedMatched

\* What remains of the invariant when no instance but p runs.
RunInv(p) ==
  /\ ProcessInv(p) /\ SumsTell /\ FirstBackupMatched
  /\ ~harmed => \A s \in listed \ damaged : Matched(files[s])
  /\ ~harmed /\ PairUntouched(p) => Matched(installed) /\ Matched(Booted)

-----------------------------------------------------------------------------

\* A pair is what its two modules are, and changing one gives a pair.
LEMMA Pairs ==
  /\ \A v \in Version : Same(v) \in Pair /\ \A m \in Module : Same(v)[m] = v
  /\ \A f, g \in Pair : f = g <=> f["kvm"] = g["kvm"] /\ f["vendor"] = g["vendor"]
  /\ \A f \in Pair, m \in Module, v \in Version :
       /\ [f EXCEPT ![m] = v] \in Pair
       /\ [f EXCEPT ![m] = v][m] = v
       /\ \A k \in Module \ {m} : [f EXCEPT ![m] = v][k] = f[k]
<1>1. \A v \in Version : Same(v) \in Pair /\ \A m \in Module : Same(v)[m] = v
  BY DEF Same, Pair
<1>2. ASSUME NEW f \in Pair, NEW g \in Pair, f["kvm"] = g["kvm"], f["vendor"] = g["vendor"]
      PROVE  f = g
  BY <1>2 DEF Pair, Module
<1>3. ASSUME NEW f \in Pair, NEW m \in Module, NEW v \in Version
      PROVE  /\ [f EXCEPT ![m] = v] \in Pair
             /\ [f EXCEPT ![m] = v][m] = v
             /\ \A k \in Module \ {m} : [f EXCEPT ![m] = v][k] = f[k]
  BY DEF Pair
<1> QED BY <1>1, <1>2, <1>3

\* No module, the package's, and what a run builds are versions.
LEMMA Versions ==
  /\ NoModule \in Version /\ Package \in Version
  /\ \A r \in 0..MaxRun : r < MaxRun => Package + r + 1 \in Version \ {NoModule}
  BY MaxRunAssumption DEF Version, NoModule, Package

(* The state before the first run. *)
LEMMA InitInv == Init => Inv
<1> SUFFICES ASSUME Init PROVE Inv
  OBVIOUS
<1>1. TypeOK
  <2>1. Same(Package) \in Pair /\ Same(NoModule) \in Pair
    BY Pairs, Versions
  <2>2. installed \in Pair /\ temp \in Pair /\ image \in Pair
    BY <2>1 DEF Init
  <2>3. files \in [Stamp -> Pair] /\ manifest \in [Stamp -> Pair] /\ sums \in [Instances -> Pair]
    BY <2>1 DEF Init
  <2>4. runs \in 0..MaxRun /\ stage \in [Instances -> Version]
    BY Versions, MaxRunAssumption DEF Init
  <2> QED BY <2>2, <2>3, <2>4 DEF Init, TypeOK, Labels, Module
<1>2. Stamped /\ Alone
  BY DEF Init, Stamped, Alone
<1>3. ASSUME NEW p \in Instances
      PROVE  ProcessInv(p)
  BY DEF Init, ProcessInv, InOrder, BackupMade, BackupChosen, PairReplaced, PairRestored, InstallLabels,
         SavingLabels, ReplacingLabels, RestoringLabels
<1>4. SumsTell
  BY DEF Init, SumsTell
<1>5. Matched(installed) /\ Matched(Booted)
  BY Versions DEF Init, Matched, Booted, Package, NoModule
<1> QED BY <1>1, <1>2, <1>3, <1>4, <1>5
        DEF Inv, FirstBackupMatched, UnharmedMatched, Init

(* Every step keeps the variables in their ranges, whoever shares a lock with
   whom.                                                                    *)
LEMMA NextType == TypeOK /\ Stamped /\ [Next]_vars => TypeOK' /\ Stamped'
<1> SUFFICES ASSUME TypeOK, Stamped, [Next]_vars PROVE TypeOK' /\ Stamped'
  OBVIOUS
<1> USE DEF TypeOK, Stamped, Step, ForEachModule, Labels, SavingLabels, ReplacingLabels,
            RestoringLabels, disk, backups, process, history
<1>m. "kvm" \in Module /\ "vendor" \in Module
  BY DEF Module
<1>v. \A f \in [Stamp -> Pair], s \in Stamp, m \in Module, v \in Version :
        [f EXCEPT ![s][m] = v] \in [Stamp -> Pair]
  BY Pairs
<1>e. \A p \in Instances : pc[p] \notin {"idle", "backup"} => stamp[p] \in Stamp
  OBVIOUS
<1>x. ASSUME NEW p \in Instances, Exit(p)
      PROVE  /\ pc' \in [Instances -> Labels] /\ at' \in [Instances -> Module]
             /\ stage' \in [Instances -> Version] /\ stamp' \in [Instances -> Stamp \cup {0}]
             /\ sums' \in [Instances -> Pair] /\ active' \in [Instances -> BOOLEAN]
             /\ pc'[p] = "idle" /\ active'[p] = FALSE
             /\ (\A q \in Instances \ {p} :
                   pc'[q] = pc[q] /\ stamp'[q] = stamp[q] /\ active'[q] = active[q])
  BY <1>x, <1>m, Pairs, Versions DEF Exit
<1>t. ASSUME NEW p \in Instances, TornCopy(p) PROVE installed' \in Pair
  BY <1>t, Pairs, Versions DEF TornCopy, Pair
<1>1. ASSUME NEW p \in Instances, Install(p) PROVE TypeOK' /\ Stamped'
  <2>1. CASE StartInstall(p)
    BY <2>1, Versions, MaxRunAssumption DEF StartInstall
  <2>2. CASE MakeBackup(p)
    BY <2>2 DEF MakeBackup, Stamp
  <2>3. CASE SaveModule(p)
    <3>1. stamp[p] \in Stamp /\ at[p] \in Module /\ installed[at[p]] \in Version
      BY <2>3, <1>e DEF SaveModule, Pair
    <3>2. files' \in [Stamp -> Pair]
      BY <2>3, <1>v, <3>1 DEF SaveModule
    <3> QED BY <2>3, <3>2, <1>m DEF SaveModule
  <2>4. CASE SumModules(p)
    BY <2>4 DEF SumModules
  <2>5. CASE WriteManifest(p)
    BY <2>5, <1>e DEF WriteManifest
  <2>11. CASE TearManifest(p)
    <3>1. stamp[p] \in Stamp
      BY <2>11, <1>e DEF TearManifest
    <3>2. Exit(p)
      BY <2>11 DEF TearManifest
    <3> QED BY <2>11, <3>1, <3>2, <1>x DEF TearManifest
  <2>6. CASE StageModule(p)
    <3>1. temp' \in Pair
      BY <2>6, Pairs DEF StageModule
    <3> QED BY <2>6, <3>1, <1>m DEF StageModule
  <2>7. CASE MoveModule(p)
    <3>1. installed' \in Pair /\ temp' \in Pair
      BY <2>7, Pairs, Versions DEF MoveModule, Pair
    <3> QED BY <2>7, <3>1, <1>m DEF MoveModule
  <2>8. CASE IndexModules(p)
    BY <2>8 DEF IndexModules, RebuildImage
  <2>9. CASE InstallReports(p)
    BY <2>9, <1>x DEF InstallReports
  <2>10. CASE InstallFails(p)
    <3>1. CASE active[p]
      BY <2>10, <3>1, <1>m DEF InstallFails
    <3>2. CASE ~active[p]
      BY <2>10, <3>2, <1>x DEF InstallFails
    <3> QED BY <3>1, <3>2
  <2> QED BY <1>1, <2>1, <2>2, <2>3, <2>4, <2>5, <2>6, <2>7, <2>8, <2>9, <2>10,
            <2>11 DEF Install
<1>2. ASSUME NEW p \in Instances, Restore(p) PROVE TypeOK' /\ Stamped'
  <2>1. ASSUME NEW s \in Stamp, StartRestore(p, s) PROVE TypeOK' /\ Stamped'
    BY <2>1 DEF StartRestore, Stamp
  <2>2. CASE VerifyBackup(p)
    BY <2>2 DEF VerifyBackup
  <2>3. CASE RefuseBackup(p) \/ HandlerReports(p) \/ RestoreReports(p)
    BY <2>3, <1>x DEF RefuseBackup, HandlerReports, RestoreReports
  <2>4. CASE CopyBack(p)
    <3>1. at[p] \in Module /\ files[stamp[p]][at[p]] \in Version
      BY <2>4, <1>e DEF CopyBack, Pair
    <3>2. [installed EXCEPT ![at[p]] = files[stamp[p]][at[p]]] \in Pair
      BY <3>1, Pairs
    <3>3. installed' \in Pair
      BY <2>4, <3>2 DEF CopyBack
    <3> QED BY <2>4, <3>3, <1>m DEF CopyBack
  <2>5. CASE CopyBackFails(p)
    <3>1. CASE active[p]
      BY <2>5, <3>1, <1>t, <1>m DEF CopyBackFails
    <3>2. CASE ~active[p]
      BY <2>5, <3>2, <1>t, <1>x DEF CopyBackFails
    <3> QED BY <3>1, <3>2
  <2>6. CASE Reindex(p)
    BY <2>6 DEF Reindex, RebuildImage
  <2>7. CASE ReindexFails(p)
    <3>1. CASE active[p]
      BY <2>7, <3>1 DEF ReindexFails
    <3>2. CASE ~active[p]
      BY <2>7, <3>2, <1>x DEF ReindexFails
    <3> QED BY <3>1, <3>2
  <2> QED BY <1>2, <2>1, <2>2, <2>3, <2>4, <2>5, <2>6, <2>7 DEF Restore
<1>3. ASSUME NEW p \in Instances, Kill(p) PROVE TypeOK' /\ Stamped'
  BY <1>3, <1>t, <1>x DEF Kill
<1>4. ASSUME NEW s \in Stamp, NEW m \in Module, DamageBackup(s, m) PROVE TypeOK' /\ Stamped'
  BY <1>4, <1>v, Versions DEF DamageBackup
<1>5. CASE UNCHANGED vars
  BY <1>5 DEF vars
<1> QED BY <1>1, <1>2, <1>3, <1>4, <1>5 DEF Next

-----------------------------------------------------------------------------

\* The lock: while one instance takes a step the others are idle and stay so.
LEMMA OthersIdle ==
  ASSUME SameRoot, TypeOK, Alone, NEW p \in Instances, Install(p) \/ Restore(p) \/ Kill(p)
  PROVE  \A q \in Instances \ {p} :
           /\ pc[q] = "idle" /\ pc'[q] = "idle"
           /\ at'[q] = at[q] /\ active'[q] = active[q]
<1> USE DEF TypeOK
<1>1. \A q \in Instances \ {p} : pc[q] = "idle"
  <2>1. CASE pc[p] # "idle"
    BY <2>1 DEF Alone
  <2>2. CASE pc[p] = "idle"
    <3>1. StartInstall(p) \/ \E s \in Stamp : StartRestore(p, s)
      BY <2>2 DEF Install, MakeBackup, SaveModule, SumModules, WriteManifest, TearManifest, StageModule,
                  MoveModule, IndexModules, InstallReports, InstallFails, Restore, VerifyBackup,
                  RefuseBackup, CopyBack, CopyBackFails, Reindex, ReindexFails, HandlerReports,
                  RestoreReports, Kill, Step, ForEachModule, SavingLabels, ReplacingLabels
    <3> QED BY <3>1 DEF StartInstall, StartRestore, LockFree
  <2> QED BY <2>1, <2>2
<1>2. \A q \in Instances \ {p} : pc'[q] = pc[q] /\ at'[q] = at[q] /\ active'[q] = active[q]
  <2> USE DEF Step, ForEachModule, Exit, disk, process
  <2>1. CASE Install(p)
    BY <2>1 DEF Install, StartInstall, MakeBackup, SaveModule, SumModules, WriteManifest,
                TearManifest, StageModule, MoveModule, IndexModules, InstallReports, InstallFails
  <2>2. CASE Restore(p)
    BY <2>2 DEF Restore, StartRestore, VerifyBackup, RefuseBackup, CopyBack, CopyBackFails,
                Reindex, ReindexFails, HandlerReports, RestoreReports
  <2>3. CASE Kill(p)
    BY <2>3 DEF Kill
  <2> QED BY <2>1, <2>2, <2>3
<1> QED BY <1>1, <1>2

\* The pairs are replaced only by who has a listed backup.
LEMMA BackupsKept ==
  ASSUME FirstBackupMatched, UNCHANGED <<backups, damaged>>,
         UNCHANGED <<installed, image>> \/ ~(listed \subseteq torn)
  PROVE  FirstBackupMatched'
  BY DEF FirstBackupMatched, SomeBackupMatched, Verified, Matched, Booted, backups

(* A step of `install` towards the manifest: the backup is complete, and tells
   by its sums that it is, before it is listed.                             *)
LEMMA NextSaving ==
  ASSUME TypeOK, TypeOK', Stamped, Stamped', NEW p \in Instances, RunInv(p),
         \/ StartInstall(p) \/ MakeBackup(p) \/ SaveModule(p) \/ SumModules(p) \/ WriteManifest(p)
         \/ TearManifest(p)
  PROVE  RunInv(p)'
<1> USE DEF RunInv, ProcessInv, InOrder, BackupMade, BackupChosen, PairReplaced, PairRestored,
            PairUntouched, InstallLabels, SavingLabels, ReplacingLabels, RestoringLabels, Stamped,
            Step, ForEachModule, disk, backups, process, history
<1>t. /\ pc \in [Instances -> Labels] /\ at \in [Instances -> Module]
      /\ stamp \in [Instances -> Stamp \cup {0}] /\ stage \in [Instances -> Version]
      /\ sums \in [Instances -> Pair] /\ active \in [Instances -> BOOLEAN]
      /\ files \in [Stamp -> Pair] /\ manifest \in [Stamp -> Pair] /\ installed \in Pair
      /\ listed \subseteq Stamp /\ runs \in 0..MaxRun
  BY DEF TypeOK
<1>1. CASE StartInstall(p)
  <2>1. SumsTell' /\ runs' \notin listed
    BY <1>1, <1>t, MaxRunAssumption DEF StartInstall, SumsTell, Stamp
  <2>2. FirstBackupMatched'
    BY <1>1, BackupsKept DEF StartInstall
  <2>3. stage'[p] # NoModule
    BY <1>1, <1>t, Versions DEF StartInstall
  <2> QED BY <1>1, <1>t, <2>1, <2>2, <2>3 DEF StartInstall, Matched, Booted
<1>2. CASE MakeBackup(p)
  <2>1. SumsTell' /\ FirstBackupMatched'
    BY <1>2, BackupsKept DEF MakeBackup, SumsTell
  <2> QED BY <1>2, <1>t, <2>1 DEF MakeBackup, Matched, Booted
<1>3. CASE SaveModule(p)
  <2>1. stamp[p] \in Stamp /\ at[p] \in Module /\ stamp[p] \notin listed
    BY <1>3, <1>t DEF SaveModule
  <2>2. \A s \in Stamp \ {stamp[p]} : files'[s] = files[s]
    BY <1>3, <1>t, <2>1 DEF SaveModule
  <2>3. /\ files'[stamp[p]] \in Pair
        /\ files'[stamp[p]][at[p]] = installed[at[p]]
        /\ at[p] = "vendor" => files'[stamp[p]]["kvm"] = files[stamp[p]]["kvm"]
    BY <1>3, <1>t, <2>1, Pairs DEF SaveModule, Pair, Module, TypeOK
  <2>4. at[p] = "vendor" => files'[stamp[p]] = installed
    <3>1. at[p] = "vendor" => files[stamp[p]]["kvm"] = installed["kvm"]
      BY <1>3 DEF SaveModule
    <3> QED BY <1>t, <2>3, <3>1, Pairs
  <2>5. SumsTell' /\ \A s \in listed : files'[s] = files[s]
    BY <1>3, <1>t, <2>1, <2>2 DEF SaveModule, SumsTell
  <2>6. FirstBackupMatched'
    BY <1>3, <2>5 DEF SaveModule, FirstBackupMatched, SomeBackupMatched, Verified, Matched, Booted
  <2>7. UNCHANGED <<installed, image, listed, damaged, harmed, stamp, active, stage>>
    BY <1>3 DEF SaveModule
  <2>8. /\ pc'[p] = IF at[p] = "kvm" THEN "save" ELSE "sums"
        /\ at'[p] = IF at[p] = "kvm" THEN "vendor" ELSE "kvm"
        /\ pc[p] = "save" /\ at[p] \in {"kvm", "vendor"}
    BY <1>3, <1>t DEF SaveModule, Module
  <2>9. ProcessInv(p)'
    BY <1>3, <1>t, <2>3, <2>4, <2>7, <2>8 DEF SaveModule
  <2> QED BY <2>5, <2>6, <2>7, <2>8, <2>9 DEF Matched, Booted
<1>4. CASE SumModules(p)
  <2>1. SumsTell' /\ FirstBackupMatched'
    BY <1>4, BackupsKept DEF SumModules, SumsTell
  <2> QED BY <1>4, <1>t, <2>1 DEF SumModules, Matched, Booted
<1>5. CASE WriteManifest(p)
  <2>1. stamp[p] \in Stamp /\ stamp[p] = runs /\ runs \notin listed
    BY <1>5, <1>t DEF WriteManifest
  <2>2. /\ listed' = listed \cup {stamp[p]} /\ manifest'[stamp[p]] = installed
        /\ torn' = torn \ {stamp[p]}
        /\ files' = files /\ files[stamp[p]] = installed
        /\ \A s \in listed : manifest'[s] = manifest[s]
        /\ UNCHANGED <<installed, image, damaged, harmed, stamp, stage, runs>>
        /\ pc'[p] = "stage" /\ at'[p] = "kvm" /\ active'[p] = TRUE
    BY <1>5, <1>t, <2>1 DEF WriteManifest, Module
  <2>3. SumsTell'
    BY <2>1, <2>2, <1>t DEF SumsTell
  <2>4. Verified(stamp[p])'
    BY <2>2 DEF Verified
  <2>5. FirstBackupMatched'
    BY <1>t, <2>1, <2>2, <2>4
       DEF FirstBackupMatched, SomeBackupMatched, Verified, Matched, Booted
  <2>6. pc[p] = "manifest"
    BY <1>5 DEF WriteManifest
  <2>7. ProcessInv(p)'
    BY <2>2, <2>4, <1>t, <2>6
  <2>8. ~harmed => Matched(installed) /\ Matched(Booted)
    BY <2>6
  <2> QED BY <2>1, <2>2, <2>3, <2>5, <2>7, <2>8 DEF Matched, Booted
<1>6. CASE TearManifest(p)
  <2>1. stamp[p] \in Stamp /\ stamp[p] = runs /\ runs \notin listed
    BY <1>6, <1>t DEF TearManifest
  <2>2. /\ listed' = listed \cup {stamp[p]} /\ torn' = torn \cup {stamp[p]}
        /\ UNCHANGED <<files, manifest, installed, image, damaged, harmed, runs>>
        /\ pc[p] = "manifest" /\ files[stamp[p]] = installed
        /\ pc'[p] = "idle" /\ at'[p] = "kvm" /\ active'[p] = FALSE
    BY <1>6, <1>t DEF TearManifest, Exit
  <2>3. SumsTell'
    BY <2>1, <2>2, <1>t DEF SumsTell
  <2>4. FirstBackupMatched'
    BY <1>t, <2>1, <2>2
       DEF FirstBackupMatched, SomeBackupMatched, Verified, Matched, Booted
  <2>5. ProcessInv(p)'
    BY <2>2
  <2> QED BY <2>1, <2>2, <2>3, <2>4, <2>5 DEF Matched, Booted
<1> QED BY <1>1, <1>2, <1>3, <1>4, <1>5, <1>6

(* A step of `install` after the manifest: the modules get into place one by
   one, and the listed backup waits for a failure.                          *)
LEMMA NextReplacing ==
  ASSUME TypeOK, TypeOK', Stamped, Stamped', NEW p \in Instances, RunInv(p),
         \/ StageModule(p) \/ MoveModule(p) \/ IndexModules(p) \/ InstallReports(p) \/ InstallFails(p)
  PROVE  RunInv(p)'
<1> USE DEF RunInv, ProcessInv, InOrder, BackupMade, BackupChosen, PairReplaced, PairRestored,
            PairUntouched, InstallLabels, SavingLabels, ReplacingLabels, RestoringLabels, Stamped,
            Step, ForEachModule, disk, backups, process, history
<1>t. /\ pc \in [Instances -> Labels] /\ at \in [Instances -> Module]
      /\ stamp \in [Instances -> Stamp \cup {0}] /\ stage \in [Instances -> Version]
      /\ active \in [Instances -> BOOLEAN] /\ sums \in [Instances -> Pair]
      /\ installed \in Pair /\ temp \in Pair /\ at[p] \in {"kvm", "vendor"}
      /\ installed' \in Pair
  BY DEF TypeOK, Module
<1>s. UNCHANGED <<runs, backups, damaged>> => SumsTell'
  BY DEF SumsTell
<1>1. CASE StageModule(p)
  <2>1. SumsTell' /\ FirstBackupMatched'
    BY <1>1, <1>s, BackupsKept DEF StageModule
  <2>2. /\ temp'[at[p]] = stage[p]
        /\ at[p] = "vendor" => temp'["kvm"] = stage[p]
    BY <1>1, <1>t, Pairs DEF StageModule, Module
  <2>3. /\ pc[p] = "stage" /\ pc'[p] = IF at[p] = "kvm" THEN "stage" ELSE "move"
        /\ at'[p] = IF at[p] = "kvm" THEN "vendor" ELSE "kvm"
        /\ UNCHANGED <<installed, image, backups, process, history>>
    BY <1>1, <1>t DEF StageModule
  <2>4. ProcessInv(p)'
    BY <1>t, <2>2, <2>3 DEF Verified
  <2> QED BY <2>1, <2>3, <2>4 DEF Matched, Booted
<1>2. CASE MoveModule(p)
  <2>1. SumsTell' /\ FirstBackupMatched'
    BY <1>2, <1>s, BackupsKept DEF MoveModule, Verified
  <2>2. /\ pc[p] = "move" /\ pc'[p] = IF at[p] = "kvm" THEN "move" ELSE "index"
        /\ at'[p] = IF at[p] = "kvm" THEN "vendor" ELSE "kvm"
        /\ UNCHANGED <<image, backups, process, history>>
    BY <1>2, <1>t DEF MoveModule
  <2>3. /\ installed'[at[p]] = temp[at[p]]
        /\ at[p] = "kvm" => temp'["vendor"] = temp["vendor"] /\ installed'["vendor"] = installed["vendor"]
        /\ at[p] = "vendor" => installed'["kvm"] = installed["kvm"]
    BY <1>2, <1>t DEF MoveModule, Pair, Module
  <2>4. at[p] = "vendor" => installed' = Same(stage[p])
    <3>1. at[p] = "vendor" => installed'["kvm"] = stage[p] /\ installed'["vendor"] = stage[p]
      BY <1>t, <2>2, <2>3
    <3> QED BY <3>1, <1>t, Pairs DEF Module
  <2>5. ProcessInv(p)'
    BY <1>t, <2>2, <2>3, <2>4 DEF Verified
  <2> QED BY <2>1, <2>2, <2>5
<1>3. CASE IndexModules(p)
  <2>1. SumsTell' /\ FirstBackupMatched'
    BY <1>3, <1>s, BackupsKept DEF IndexModules, Verified
  <2>2. /\ pc[p] = "index" /\ pc'[p] = "last" /\ Booted' = installed
        /\ UNCHANGED <<installed, at, temp, backups, process, history>>
    BY <1>3, <1>t DEF IndexModules, RebuildImage, Booted
  <2>3. ProcessInv(p)'
    BY <1>t, <2>2 DEF Verified
  <2> QED BY <2>1, <2>2, <2>3
<1>x. ASSUME Exit(p)
      PROVE  /\ pc'[p] = "idle" /\ at'[p] = "kvm" /\ active'[p] = FALSE
  BY <1>x, <1>t DEF Exit
<1>4. CASE InstallReports(p)
  <2>1. SumsTell' /\ FirstBackupMatched'
    BY <1>4, <1>s, BackupsKept DEF InstallReports
  <2>2. /\ pc[p] = "last" /\ pc'[p] = "idle" /\ at'[p] = "kvm" /\ active'[p] = FALSE
        /\ UNCHANGED <<disk, history>>
    BY <1>4, <1>x DEF InstallReports
  <2>3. ProcessInv(p)'
    BY <2>2
  <2>4. Matched(installed) /\ Matched(Booted)
    BY <1>t, <2>2 DEF Matched
  <2> QED BY <2>1, <2>2, <2>3, <2>4 DEF Matched, Booted
<1>5. CASE InstallFails(p)
  <2>1. SumsTell' /\ FirstBackupMatched' /\ UNCHANGED <<disk, history>>
    BY <1>5, <1>s, BackupsKept DEF InstallFails
  <2>2. CASE active[p]
    <3>1. /\ pc[p] \in ReplacingLabels /\ pc'[p] = "verify" /\ at'[p] = "kvm"
          /\ UNCHANGED process
      BY <1>5, <2>2, <1>t DEF InstallFails
    <3>2. ProcessInv(p)'
      BY <2>1, <2>2, <3>1 DEF Verified
    <3> QED BY <2>1, <2>2, <3>1, <3>2
  <2>3. CASE ~active[p]
    <3>1. pc[p] \in SavingLabels /\ pc'[p] = "idle" /\ at'[p] = "kvm" /\ active'[p] = FALSE
      BY <1>5, <1>x, <2>3 DEF InstallFails
    <3>2. ProcessInv(p)'
      BY <3>1
    <3> QED BY <2>1, <3>1, <3>2 DEF Matched, Booted
  <2> QED BY <2>2, <2>3
<1> QED BY <1>1, <1>2, <1>3, <1>4, <1>5

(* A step of `restore` or of the handler: what was checked is copied back, and
   an error that is passed over is remembered.                              *)
LEMMA NextRestoring ==
  ASSUME TypeOK, TypeOK', Stamped, Stamped', NEW p \in Instances, RunInv(p), Restore(p) \/ Kill(p)
  PROVE  RunInv(p)'
<1> USE DEF RunInv, ProcessInv, InOrder, BackupMade, BackupChosen, PairReplaced, PairRestored,
            PairUntouched, InstallLabels, SavingLabels, ReplacingLabels, RestoringLabels, Stamped,
            Step, ForEachModule, disk, backups, process, history
<1>t. /\ pc \in [Instances -> Labels] /\ at \in [Instances -> Module]
      /\ stamp \in [Instances -> Stamp \cup {0}] /\ active \in [Instances -> BOOLEAN]
      /\ files \in [Stamp -> Pair] /\ installed \in Pair /\ at[p] \in {"kvm", "vendor"}
      /\ installed' \in Pair /\ listed \subseteq Stamp
  BY DEF TypeOK, Module
<1>s. UNCHANGED <<runs, backups, damaged>> => SumsTell'
  BY DEF SumsTell
<1>x. ASSUME Exit(p)
      PROVE  /\ pc'[p] = "idle" /\ at'[p] = "kvm" /\ active'[p] = FALSE
  BY <1>x, <1>t DEF Exit
<1>v. Verified(stamp[p]) /\ ~harmed => Matched(files[stamp[p]])
  BY DEF Verified, SumsTell
<1>1. ASSUME NEW s \in Stamp, StartRestore(p, s) PROVE RunInv(p)'
  <2>1. SumsTell' /\ FirstBackupMatched'
    BY <1>1, <1>s, BackupsKept DEF StartRestore
  <2>2. /\ pc[p] = "idle" /\ pc'[p] = "verify" /\ stamp'[p] \in listed /\ active[p] = FALSE
        /\ UNCHANGED <<disk, at, active, history>>
    BY <1>1, <1>t DEF StartRestore
  <2>3. ProcessInv(p)'
    BY <2>2
  <2> QED BY <2>1, <2>2, <2>3 DEF Matched, Booted
<1>2. CASE VerifyBackup(p)
  <2>1. SumsTell' /\ FirstBackupMatched'
    BY <1>2, <1>s, BackupsKept DEF VerifyBackup
  <2>2. /\ pc[p] = "verify" /\ pc'[p] = "copy" /\ Verified(stamp[p])
        /\ UNCHANGED <<disk, at, process, history>>
    BY <1>2, <1>t DEF VerifyBackup
  <2>3. ProcessInv(p)'
    BY <2>2, <1>t DEF Verified
  <2> QED BY <2>1, <2>2, <2>3
<1>3. CASE RefuseBackup(p)
  <2>1. SumsTell' /\ FirstBackupMatched'
    BY <1>3, <1>s, BackupsKept DEF RefuseBackup
  <2>2. /\ pc[p] = "verify" /\ ~active[p]
        /\ pc'[p] = "idle" /\ at'[p] = "kvm" /\ active'[p] = FALSE
        /\ UNCHANGED <<disk, history>>
    BY <1>3, <1>x DEF RefuseBackup
  <2>3. ProcessInv(p)'
    BY <2>2
  <2> QED BY <2>1, <2>2, <2>3 DEF Matched, Booted
<1>4. CASE CopyBack(p)
  <2>1. SumsTell' /\ FirstBackupMatched'
    BY <1>4, <1>s, BackupsKept DEF CopyBack, Verified
  <2>2. /\ pc[p] = "copy" /\ pc'[p] = IF at[p] = "kvm" THEN "copy" ELSE "reindex"
        /\ at'[p] = IF at[p] = "kvm" THEN "vendor" ELSE "kvm"
        /\ UNCHANGED <<image, backups, process, history>>
        /\ stamp[p] \in Stamp
    BY <1>4, <1>t DEF CopyBack
  <2>3. /\ installed'[at[p]] = files[stamp[p]][at[p]]
        /\ at[p] = "vendor" => installed'["kvm"] = installed["kvm"]
    BY <1>4, <1>t DEF CopyBack, Pair, Module
  <2>4. at[p] = "vendor" /\ (~harmed \/ ~active[p]) => installed' = files[stamp[p]]
    <3>1. at[p] = "vendor" /\ (~harmed \/ ~active[p])
            => installed'["kvm"] = files[stamp[p]]["kvm"] /\ installed'["vendor"] = files[stamp[p]]["vendor"]
      BY <2>2, <2>3
    <3> QED BY <1>t, <2>2, <3>1, Pairs
  <2>5. ProcessInv(p)'
    BY <1>t, <2>2, <2>3, <2>4 DEF Verified
  <2> QED BY <2>1, <2>2, <2>5
<1>5. CASE CopyBackFails(p)
  <2>1. SumsTell' /\ FirstBackupMatched'
    BY <1>5, <1>s, BackupsKept DEF CopyBackFails, Verified
  <2>2. pc[p] = "copy" /\ harmed' = TRUE /\ UNCHANGED backups
    BY <1>5 DEF CopyBackFails
  <2>3. CASE active[p]
    <3>1. /\ pc'[p] = IF at[p] = "kvm" THEN "copy" ELSE "reindex"
          /\ at'[p] = IF at[p] = "kvm" THEN "vendor" ELSE "kvm"
          /\ UNCHANGED process
      BY <1>5, <1>t, <2>2, <2>3 DEF CopyBackFails
    <3>2. ProcessInv(p)'
      BY <1>t, <2>2, <2>3, <3>1 DEF Verified
    <3> QED BY <2>1, <2>2, <3>2
  <2>4. CASE ~active[p]
    <3>1. pc'[p] = "idle" /\ at'[p] = "kvm" /\ active'[p] = FALSE
      BY <1>5, <1>x, <2>4 DEF CopyBackFails
    <3>2. ProcessInv(p)'
      BY <3>1
    <3> QED BY <2>1, <2>2, <3>2
  <2> QED BY <2>3, <2>4
<1>6. CASE Reindex(p)
  <2>1. SumsTell' /\ FirstBackupMatched'
    BY <1>6, <1>s, BackupsKept DEF Reindex, Verified
  <2>2. /\ pc[p] = "reindex" /\ pc'[p] = "report" /\ Booted' = installed
        /\ UNCHANGED <<installed, at, backups, process, history>>
    BY <1>6, <1>t DEF Reindex, RebuildImage, Booted
  <2>3. ProcessInv(p)'
    BY <1>t, <2>2 DEF Verified
  <2> QED BY <2>1, <2>2, <2>3
<1>7. CASE ReindexFails(p)
  <2>1. SumsTell' /\ FirstBackupMatched'
    BY <1>7, <1>s, BackupsKept DEF ReindexFails
  <2>2. pc[p] = "reindex" /\ harmed' = TRUE /\ UNCHANGED backups
    BY <1>7 DEF ReindexFails
  <2>3. CASE active[p]
    <3>1. pc'[p] = "report" /\ UNCHANGED <<at, process>>
      BY <1>7, <1>t, <2>3 DEF ReindexFails
    <3>2. ProcessInv(p)'
      BY <1>t, <2>2, <2>3, <3>1 DEF Verified
    <3> QED BY <2>1, <2>2, <3>2
  <2>4. CASE ~active[p]
    <3>1. pc'[p] = "idle" /\ at'[p] = "kvm" /\ active'[p] = FALSE
      BY <1>7, <1>x, <2>4 DEF ReindexFails
    <3>2. ProcessInv(p)'
      BY <3>1
    <3> QED BY <2>1, <2>2, <3>2
  <2> QED BY <2>3, <2>4
<1>8. CASE HandlerReports(p) \/ RestoreReports(p)
  <2>1. SumsTell' /\ FirstBackupMatched'
    BY <1>8, <1>s, BackupsKept DEF HandlerReports, RestoreReports
  <2>2. /\ pc[p] = "report" /\ pc'[p] = "idle" /\ at'[p] = "kvm" /\ active'[p] = FALSE
        /\ UNCHANGED <<disk, history>>
    BY <1>8, <1>x DEF HandlerReports, RestoreReports
  <2>3. ProcessInv(p)'
    BY <2>2
  <2>4. ~harmed => Matched(installed) /\ Matched(Booted)
    BY <1>v, <2>2
  <2> QED BY <2>1, <2>2, <2>3, <2>4 DEF Matched, Booted
<1>9. CASE Kill(p)
  <2>1. pc'[p] = "idle" /\ at'[p] = "kvm" /\ active'[p] = FALSE /\ harmed' = TRUE
    BY <1>9, <1>x DEF Kill
  <2>2. SumsTell' /\ FirstBackupMatched'
    BY <1>9, <1>s, BackupsKept DEF Kill, Verified
  <2>3. ProcessInv(p)'
    BY <2>1
  <2> QED BY <2>1, <2>2, <2>3
<1> QED BY <1>1, <1>2, <1>3, <1>4, <1>5, <1>6, <1>7, <1>8, <1>9 DEF Restore

(* A backup that decays while nobody runs is told from the others. *)
LEMMA NextDamage ==
  ASSUME Inv, NEW d \in Stamp, NEW m \in Module, DamageBackup(d, m)
  PROVE  SumsTell' /\ FirstBackupMatched' /\ UnharmedMatched'
<1>1. /\ d \in listed /\ damaged' = {d} /\ files[d][m] # NoModule
      /\ files \in [Stamp -> Pair] /\ listed \subseteq Stamp
      /\ UNCHANGED <<runs, installed, image, listed, torn, manifest, pc, active, harmed>>
  BY DEF DamageBackup, Inv, TypeOK, process
<1>2. /\ files'[d] # files[d]
      /\ \A s \in Stamp \ {d} : files'[s] = files[s]
  <2>1. files'[d][m] = NoModule
    BY <1>1 DEF DamageBackup, Pair
  <2>2. \A s \in Stamp \ {d} : files'[s] = files[s]
    BY <1>1 DEF DamageBackup
  <2> QED BY <1>1, <2>1, <2>2
<1>3. damaged = {}
  BY DEF DamageBackup
<1>4. SumsTell'
  BY <1>1, <1>2, <1>3 DEF Inv, SumsTell
<1>5. FirstBackupMatched'
  BY <1>1 DEF FirstBackupMatched
<1>6. UnharmedMatched'
  BY <1>1, <1>2, <1>3 DEF Inv, UnharmedMatched, PairUntouched, Matched, Booted
<1> QED BY <1>4, <1>5, <1>6

(* Under the lock every step keeps the invariant. *)
LEMMA NextInv == SameRoot /\ Inv /\ [Next]_vars => Inv'
<1> SUFFICES ASSUME SameRoot, Inv, [Next]_vars PROVE Inv'
  OBVIOUS
<1>t. TypeOK /\ Stamped /\ TypeOK' /\ Stamped'
  BY NextType DEF Inv
<1>1. ASSUME NEW p \in Instances, Install(p) \/ Restore(p) \/ Kill(p) PROVE Inv'
  <2>1. \A q \in Instances \ {p} : /\ pc[q] = "idle" /\ pc'[q] = "idle"
                                   /\ at'[q] = at[q] /\ active'[q] = active[q]
    BY <1>1, <1>t, OthersIdle DEF Inv
  <2>2. RunInv(p)
    <3>1. \A q \in Instances \ {p} : PairUntouched(q)
      BY <2>1 DEF PairUntouched
    <3> QED BY <3>1 DEF Inv, RunInv, UnharmedMatched
  <2>3. RunInv(p)'
    BY <1>1, <1>t, <2>2, NextSaving, NextReplacing, NextRestoring DEF Install
  <2>4. ASSUME NEW q \in Instances \ {p} PROVE ProcessInv(q)'
    <3>1. at[q] # "vendor" /\ ~active[q]
      BY <2>1, <1>t DEF Inv, ProcessInv, InOrder, Stamped
    <3> QED BY <2>1, <3>1 DEF ProcessInv, InOrder, BackupMade, BackupChosen, PairReplaced,
                              PairRestored, InstallLabels, SavingLabels, ReplacingLabels,
                              RestoringLabels
  <2>5. Alone'
    BY <2>1 DEF Alone
  <2>6. UnharmedMatched'
    BY <2>3 DEF RunInv, UnharmedMatched
  <2> QED BY <1>t, <2>3, <2>4, <2>5, <2>6 DEF Inv, RunInv
<1>2. ASSUME NEW s \in Stamp, NEW m \in Module, DamageBackup(s, m) PROVE Inv'
  <2>1. \A p \in Instances : pc[p] = "idle" /\ pc'[p] = "idle" /\ at'[p] = at[p] /\ active'[p] = active[p]
    BY <1>2 DEF DamageBackup, process
  <2>2. ASSUME NEW p \in Instances PROVE ProcessInv(p)'
    <3>1. at[p] # "vendor" /\ ~active[p]
      BY <2>1, <1>t DEF Inv, ProcessInv, InOrder, Stamped
    <3> QED BY <2>1, <3>1 DEF ProcessInv, InOrder, BackupMade, BackupChosen, PairReplaced,
                              PairRestored, InstallLabels, SavingLabels, ReplacingLabels,
                              RestoringLabels
  <2>3. Alone'
    BY <2>1 DEF Alone
  <2> QED BY <1>t, <1>2, <2>2, <2>3, NextDamage DEF Inv
<1>3. CASE UNCHANGED vars
  BY <1>3, <1>t DEF vars, disk, backups, process, history, Inv, Alone, ProcessInv, InOrder, BackupMade,
       BackupChosen, PairReplaced, PairRestored, SumsTell, FirstBackupMatched, SomeBackupMatched,
       UnharmedMatched, PairUntouched, Verified, Matched, Booted
<1> QED BY <1>1, <1>2, <1>3 DEF Next

-----------------------------------------------------------------------------

(* The variables stay in their ranges, also without a common lock. *)
THEOREM TypeCorrect == Spec => []TypeOK
<1>1. Init => TypeOK /\ Stamped
  BY InitInv DEF Inv
<1> QED BY <1>1, NextType, PTL DEF Spec

(* What holds in every state of instances that share the lock. *)
THEOREM Invariant == SameRoot => (Spec => []Inv)
<1> SUFFICES ASSUME SameRoot PROVE Spec => []Inv
  OBVIOUS
<1>1. Inv /\ [Next]_vars => Inv'
  BY NextInv
<1> QED BY <1>1, InitInv, PTL DEF Spec

(* Whatever is killed and fails: a mixed or incomplete pair, on the disk or in
   the initramfs, can be replaced by a matched one from a backup that
   `restore` accepts.                                                       *)
THEOREM AlwaysRecoverable == SameRoot => (Spec => []PairRecoverable)
<1>1. Inv => PairRecoverable
  BY DEF Inv, FirstBackupMatched, SomeBackupMatched, PairRecoverable
<1> QED BY <1>1, Invariant, PTL

(* Without kills and failing restores the host is left with a matched pair,
   whichever command of `install` failed and whichever backup is refused.   *)
THEOREM MatchedWhenIdle == SameRoot => (Spec => []IdleMeansMatched)
<1>1. Inv => IdleMeansMatched
  BY DEF Inv, UnharmedMatched, PairUntouched, IdleMeansMatched
<1> QED BY <1>1, Invariant, PTL

(* What is overwritten can be restored: the backup was complete and its sums
   were those of the modules before the first of them is moved away.         *)
THEOREM ReplacedIsRestorable == SameRoot => (Spec => ReplacesOnlySaved)
<1>1. Inv => [\A p \in Instances :
                MoveModule(p) => /\ Verified(stamp[p])
                                 /\ files[stamp[p]][at[p]] = installed[at[p]]]_vars
  <2>1. ASSUME Inv, NEW p \in Instances, MoveModule(p)
        PROVE  Verified(stamp[p]) /\ files[stamp[p]][at[p]] = installed[at[p]]
    <3>1. pc[p] = "move" /\ at[p] \in {"kvm", "vendor"}
      BY <2>1 DEF Inv, TypeOK, Module, MoveModule, ForEachModule
    <3>2. Verified(stamp[p])
      BY <2>1, <3>1 DEF Inv, ProcessInv, InOrder, BackupChosen, ReplacingLabels
    <3>3. files[stamp[p]][at[p]] = installed[at[p]]
      BY <2>1, <3>1 DEF Inv, ProcessInv, BackupMade
    <3> QED BY <3>2, <3>3
  <2> QED BY <2>1
<1> QED BY <1>1, Invariant, PTL DEF ReplacesOnlySaved

(* A successful installation is one of the run's own two modules ... *)
THEOREM InstallReported == SameRoot => (Spec => InstallReportsPair)
<1>1. Inv => [\A p \in Instances :
                InstallReports(p) => installed = Same(stage[p]) /\ Booted = Same(stage[p])]_vars
  BY DEF Inv, ProcessInv, PairReplaced, InstallReports
<1> QED BY <1>1, Invariant, PTL DEF InstallReportsPair

(* ... a successful restoration is one of the backup's, *)
THEOREM RestoreReported == SameRoot => (Spec => RestoreReportsPair)
<1>1. Inv => [\A p \in Instances :
                RestoreReports(p) => installed = files[stamp[p]] /\ Booted = files[stamp[p]]]_vars
  BY DEF Inv, ProcessInv, PairRestored, RestoreReports
<1> QED BY <1>1, Invariant, PTL DEF RestoreReportsPair

(* ... and what the handler calls restored is, where nothing failed or was
   killed on the way.                                                       *)
THEOREM FailureUndone == SameRoot => (Spec => FailedInstallUndone)
<1>1. Inv => [\A p \in Instances :
                HandlerReports(p) /\ ~harmed => installed = files[stamp[p]]]_vars
  BY DEF Inv, ProcessInv, PairRestored, HandlerReports
<1> QED BY <1>1, Invariant, PTL DEF FailedInstallUndone
=============================================================================
