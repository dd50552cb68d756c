---------------------------- MODULE KvmBuildTree ----------------------------
(***************************************************************************)
(* kvm.sh: the build tree `install` compiles the modules in, and keeps.    *)
(*                                                                         *)
(* The tree's directory is named after the kernel release and the sha of   *)
(* the patch.  Preparing one takes minutes and may end anywhere; a marker, *)
(* written last, says that it is prepared.  A run uses a tree with a       *)
(* marker again, after a look at the patch and the symbols, and refuses    *)
(* one without.  `--rebuild` removes the tree first, in directory order.   *)
(*                                                                         *)
(* A patch and a kernel are the number of their content.  All kernels have *)
(* one release: the owner's own kernel keeps its name when it is rebuilt.  *)
(* A lock keeps other runs off the trees of a work directory.              *)
(***************************************************************************)
EXTENDS Naturals

CONSTANTS MaxRun,     \* bound: runs of `install`
          MaxKernel,  \* bound: kernels the owner builds
          MaxPatch,   \* contents the patch file may have
          Toolchain,  \* what each kernel is compiled with
          Reverses    \* <<p, q>>: p reverses cleanly where q was applied, and cannot be applied again

ASSUME BoundAssumption == MaxRun \in Nat /\ MaxKernel \in Nat \ {0} /\ MaxPatch \in Nat \ {0}

Kernel == 1..MaxKernel
Patch == 1..MaxPatch
Compilers == {1, 2}  \* gcc-binutils, clang-llvm

ASSUME ToolchainAssumption == Toolchain \in [Kernel -> Compilers]

\* A patch reverses where it was applied; also where one was that does more.
ASSUME ReversesAssumption ==
  Reverses \subseteq Patch \X Patch /\ \A p \in Patch : <<p, p>> \in Reverses

\* What is in a part of the tree: which patch, which kernel's file, ...
Missing == 0
Unpatched == MaxPatch + 1

Tree == [directory : 0..1,
         source    : 0..1,                  \* all the files named nowhere else
         patched   : 0..Unpatched,          \* the files the patch changes
         config    : Kernel \cup {Missing}, \* .config and localversion.*
         symvers   : Kernel \cup {Missing}, \* .ovo-kernel.Module.symvers
         vmlinux   : Kernel \cup {Missing},
         marker    : Compilers \cup {Missing}]  \* .ovo-prepared
Part == {"directory", "source", "patched", "config", "symvers", "vmlinux", "marker"}
NoTree == [part \in Part |-> Missing]

\* The modules: the parts of the tree they were made from, and their compiler.
Modules == [patched : 0..Unpatched, config : Kernel \cup {Missing},
            symvers : Kernel \cup {Missing}, vmlinux : Kernel \cup {Missing},
            compiler : Compilers \cup {0}]
NoModules ==
  [patched |-> Missing, config |-> Missing, symvers |-> Missing, vmlinux |-> Missing, compiler |-> 0]

Labels == {"idle", "remove", "tree", "config", "patch", "symvers", "vmlinux", "marker", "compile", "stage"}

VARIABLES
  runs,      \* runs so far
  kernel,    \* the installed kernel, and its header tree
  patch,     \* what is in PATCH_FILE
  tree,      \* builds/<release>-<sha>/<source>
  pc,        \* where the run is
  sha,       \* PATCH_SHA: of what was in PATCH_FILE
  compiler,  \* BUILD_TOOLCHAIN: of the kernel that was there
  built,     \* what the run compiled
  rebuild,   \* --rebuild
  changed,   \* history: was the patch or the kernel replaced during the run?
  torn,      \* history: the trees of which a removal was cut short
  mixed      \* history: the trees prepared in a run with such a change

host == <<kernel, patch>>
run == <<sha, compiler, built, rebuild>>
history == <<changed, torn, mixed>>
vars == <<runs, host, tree, pc, run, history>>

TypeOK ==
  /\ runs \in 0..MaxRun
  /\ kernel \in Kernel /\ patch \in Patch
  /\ tree \in [Patch -> Tree]
  /\ pc \in Labels
  /\ sha \in Patch /\ compiler \in Compilers /\ built \in Modules /\ rebuild \in BOOLEAN
  /\ changed \in BOOLEAN /\ torn \subseteq Patch /\ mixed \subseteq Patch

Init ==
  /\ runs = 0
  /\ kernel = 1 /\ patch = 1
  /\ tree = [p \in Patch |-> NoTree]
  /\ pc = "idle"
  /\ sha = 1 /\ compiler = 1 /\ built = NoModules /\ rebuild = FALSE
  /\ changed = FALSE /\ torn = {} /\ mixed = {}

Step(from, to) == pc = from /\ pc' = to

\* The process is gone; nothing is kept but the tree.
Exit ==
  /\ pc' = "idle"
  /\ sha' = 1 /\ compiler' = 1 /\ built' = NoModules /\ rebuild' = FALSE
  /\ changed' = FALSE

\* The tree of this run.
Here == tree[sha]
Write(part, content) == tree' = [tree EXCEPT ![sha][part] = content]

-----------------------------------------------------------------------------

\* The kernel is detected, the lock taken, the patch summed.
Start(r) ==
  /\ runs < MaxRun
  /\ Step("idle", IF r THEN "remove" ELSE "tree")
  /\ runs' = runs + 1
  /\ sha' = patch /\ compiler' = Toolchain[kernel] /\ rebuild' = r
  /\ UNCHANGED <<host, tree, built, history>>

\* A command fails, a check dies, a signal.
Stop ==
  /\ pc # "idle"
  /\ Exit
  /\ torn' = IF pc = "remove" THEN torn \cup {sha} ELSE torn
  /\ UNCHANGED <<runs, host, tree, mixed>>

Files == {part \in Part \ {"directory"} : Here[part] # Missing}

\* rm -rf: the files in any order, then the directory.
Removable == IF Files # {} THEN Files ELSE {part \in {"directory"} : Here[part] # Missing}

RemovePart ==
  /\ pc = "remove"
  /\ \E part \in Removable : Write(part, Missing)
  /\ UNCHANGED <<runs, host, pc, run, history>>

RemovalEnds ==
  /\ Step("remove", "tree")
  /\ Removable = {}
  /\ UNCHANGED <<runs, host, tree, run, history>>

\* Mutant: the marker does not name the toolchain.
MarkedByAny == Here["marker"] # Missing

\* build_format, build_toolchain and patch_sha256; the sha is also in the
\* directory's name.
Marked == Here["marker"] = compiler

\* Mutant: the sha in the marker is enough.
PatchPresent == Here["patched"] # Missing

\* build_tree_patch_is_applied: PATCH_FILE reverses cleanly, and does not apply.
\* A tree may hold more than the patch and pass.
PatchApplied == <<patch, Here["patched"]>> \in Reverses

Reusable == Marked /\ PatchApplied /\ Here["symvers"] # Missing

ReuseTree ==
  /\ Step("tree", "compile")
  /\ Reusable
  /\ UNCHANGED <<runs, host, tree, run, history>>

\* The three messages that end in "rerun with --rebuild".
RefuseTree ==
  /\ pc = "tree"
  /\ Here["directory"] # Missing /\ ~Reusable
  /\ Exit
  /\ UNCHANGED <<runs, host, tree, torn, mixed>>

\* Mutant: the marker is written first.
ExtractMarked ==
  /\ Step("tree", "config")
  /\ Here["directory"] = Missing
  /\ tree' = [tree EXCEPT ![sha] =
       [NoTree EXCEPT !["directory"] = 1, !["source"] = 1, !["patched"] = Unpatched,
                      !["marker"] = compiler]]
  /\ torn' = torn \ {sha} /\ mixed' = mixed \ {sha}
  /\ UNCHANGED <<runs, host, run, changed>>

\* Into a directory of its own, which is then renamed; with the source
\* prerequisites, whose files have sums of their own.
Extract ==
  /\ Step("tree", "config")
  /\ Here["directory"] = Missing
  /\ tree' = [tree EXCEPT ![sha] =
       [NoTree EXCEPT !["directory"] = 1, !["source"] = 1, !["patched"] = Unpatched]]
  /\ torn' = torn \ {sha} /\ mixed' = mixed \ {sha}
  /\ UNCHANGED <<runs, host, run, changed>>

CopyConfig ==
  /\ Step("config", "patch")
  /\ Write("config", kernel)
  /\ UNCHANGED <<runs, host, run, history>>

\* What PATCH_FILE holds now; it has to apply cleanly.
ApplyPatch ==
  /\ Step("patch", "symvers")
  /\ Write("patched", patch)
  /\ UNCHANGED <<runs, host, run, history>>

\* After make modules_prepare.
CopySymvers ==
  /\ Step("symvers", "vmlinux")
  /\ Write("symvers", kernel)
  /\ UNCHANGED <<runs, host, run, history>>

\* The release, which is compared next, is that of every kernel.
CopyVmlinux ==
  /\ Step("vmlinux", "marker")
  /\ Write("vmlinux", kernel)
  /\ UNCHANGED <<runs, host, run, history>>

WriteMarker ==
  /\ Step("marker", "compile")
  /\ Write("marker", compiler)
  /\ mixed' = IF changed THEN mixed \cup {sha} ELSE mixed
  /\ UNCHANGED <<runs, host, run, changed, torn>>

\* build_modules: make needs every source file and the configuration, and
\* goes without type information when vmlinux is not there.
BuildModules ==
  /\ Step("compile", "stage")
  /\ \A part \in {"source", "patched", "config", "symvers"} : Here[part] # Missing
  /\ built' = [patched |-> Here["patched"], config |-> Here["config"],
               symvers |-> Here["symvers"], vmlinux |-> Here["vmlinux"], compiler |-> compiler]
  /\ UNCHANGED <<runs, host, tree, sha, compiler, rebuild, history>>

\* make_stage: stages/<release>-<sha>-<time>, with patch_sha256 in METADATA.
MakeStage ==
  /\ pc = "stage"
  /\ Exit
  /\ UNCHANGED <<runs, host, tree, torn, mixed>>

\* The owner edits the patch file, at any time.
EditPatch ==
  /\ \E p \in Patch \ {patch} : patch' = p
  /\ changed' = (pc # "idle")
  /\ UNCHANGED <<runs, kernel, tree, pc, run, torn, mixed>>

\* The owner installs another build of the kernel, of the same release.
InstallKernel ==
  /\ \E k \in Kernel \ {kernel} : kernel' = k
  /\ changed' = (pc # "idle")
  /\ UNCHANGED <<runs, patch, tree, pc, run, torn, mixed>>

PrepareTree ==
  \/ RemovePart \/ RemovalEnds \/ ReuseTree \/ RefuseTree
  \/ Extract \/ CopyConfig \/ ApplyPatch \/ CopySymvers \/ CopyVmlinux
  \/ WriteMarker

Next ==
  \/ \E r \in BOOLEAN : Start(r)
  \/ PrepareTree \/ BuildModules \/ MakeStage \/ Stop
  \/ EditPatch \/ InstallKernel

Spec == Init /\ [][Next]_vars

-----------------------------------------------------------------------------

(* The modules in a stage contain the patch that the stage's directory and
   METADATA name, whatever was in the patch file during earlier runs, unless
   it changes while the run itself is under way.  They contain nothing else
   unless it changed while their tree was prepared, in this run or before: a
   look at such a tree only tells that the patch can be taken out of it.    *)
StageAsNamed ==
  [][MakeStage /\ ~changed => /\ <<sha, built.patched>> \in Reverses
                              /\ sha \notin mixed => built.patched = sha]_vars

(* Modules are compiled by the toolchain of the kernel whose configuration
   is in the tree, although the tree may be older than the kernel, unless
   patch or kernel changed while the tree was prepared.                     *)
CompiledAsConfigured ==
  [][MakeStage /\ ~changed /\ sha \notin mixed => built.compiler = Toolchain[built.config]]_vars

(* A stage is never made from a tree whose preparation was cut short, and
   from one whose removal was cut short only when `--rebuild` did it.       *)
StageComplete == [][MakeStage /\ sha \notin torn => built.vmlinux # Missing]_vars
=============================================================================
