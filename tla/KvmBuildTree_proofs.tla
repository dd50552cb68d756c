------------------------ MODULE KvmBuildTree_proofs ------------------------
(* Proofs about KvmBuildTree: for any number of runs, kernels and patch
   contents, a stage holds what its name, its kernel and its marker promise. *)
EXTENDS KvmBuildTree, TLAPS

\* Between Start and Exit, while nobody replaces the patch or the kernel.
SummedIsThere ==
  pc # "idle" /\ ~changed => sha = patch /\ compiler = Toolchain[kernel]

\* The files hold the patch from ApplyPatch on ...
Patching == {"symvers", "vmlinux", "marker"}

\* ... and the trees that are marked keep it, as far as they are not removed,
MarkedHoldsPatch ==
  \A p \in Patch \ mixed :
    tree[p].marker # Missing => tree[p].patched \in {p, Missing}

\* so that nothing else is compiled once ReuseTree has had a look, and where
\* the patch file was replaced in between, something that contains the patch.
PatchIsSummed ==
  /\ pc \in Patching /\ ~changed => tree[sha].patched = sha
  /\ pc = "compile" /\ ~changed => /\ <<sha, tree[sha].patched>> \in Reverses
                                   /\ sha \notin mixed => tree[sha].patched = sha
  /\ pc = "stage" /\ ~changed => /\ <<sha, built.patched>> \in Reverses
                                 /\ sha \notin mixed => built.patched = sha

Preparing == {"config", "patch", "symvers", "vmlinux", "marker"}

\* A marker appears last: a tree that is prepared has none.
NoMarkerYet == pc \in Preparing => tree[sha].marker = Missing

\* The configuration in the tree is that of the kernel of the run ...
ConfigIsHere ==
  pc \in Preparing \ {"config"} /\ ~changed => tree[sha].config = kernel

\* ... so that the marker names the compiler of the configuration,
MarkerFitsConfig ==
  \A p \in Patch \ mixed :
    tree[p].marker # Missing /\ tree[p].config # Missing => tree[p].marker = Toolchain[tree[p].config]

\* which a compiling run has compared.
CompilerIsMarked ==
  /\ pc = "compile" => tree[sha].marker = compiler
  /\ pc = "stage" /\ ~changed /\ sha \notin mixed => built.compiler = Toolchain[built.config]

\* A tree that a removal has not touched is complete once it is marked.
MarkedIsComplete ==
  /\ \A p \in Patch \ torn :
       tree[p].marker # Missing /\ ~(pc = "remove" /\ p = sha) => tree[p].vmlinux # Missing
  /\ pc = "marker" => tree[sha].vmlinux # Missing
  /\ pc = "stage" /\ sha \notin torn => built.vmlinux # Missing

Inv ==
  /\ TypeOK
  /\ SummedIsThere /\ MarkedHoldsPatch /\ PatchIsSummed
  /\ NoMarkerYet /\ ConfigIsHere /\ MarkerFitsConfig /\ CompilerIsMarked
  /\ MarkedIsComplete

-----------------------------------------------------------------------------

\* The parts of a tree can be written like the fields of a record.
LEMMA TreeType ==
  /\ NoTree \in Tree
  /\ \A t \in Tree :
       /\ \A part \in Part : [t EXCEPT ![part] = Missing] \in Tree
       /\ \A k \in Kernel : /\ [t EXCEPT !["config"] = k] \in Tree
                            /\ [t EXCEPT !["symvers"] = k] \in Tree
                            /\ [t EXCEPT !["vmlinux"] = k] \in Tree
       /\ \A p \in Patch : [t EXCEPT !["patched"] = p] \in Tree
       /\ \A c \in Compilers : [t EXCEPT !["marker"] = c] \in Tree
  BY BoundAssumption DEF Tree, NoTree, Part, Missing, Unpatched, Patch, Kernel, Compilers

(* Nothing is built and no tree is there at first. *)
LEMMA InitInv == Init => Inv
<1> SUFFICES ASSUME Init PROVE Inv
  OBVIOUS
<1>1. TypeOK
  <2>1. tree \in [Patch -> Tree]
    BY TreeType DEF Init
  <2>2. built \in Modules
    BY BoundAssumption DEF Init, Modules, NoModules, Missing, Unpatched, Compilers
  <2>3. 0 \in 0..MaxRun /\ 1 \in Kernel /\ 1 \in Patch /\ 1 \in Compilers
    BY BoundAssumption DEF Kernel, Patch, Compilers
  <2> QED BY <2>1, <2>2, <2>3 DEF Init, TypeOK, Labels
<1>2. SummedIsThere /\ PatchIsSummed /\ NoMarkerYet /\ ConfigIsHere /\ CompilerIsMarked
  BY DEF Init, SummedIsThere, PatchIsSummed, NoMarkerYet, ConfigIsHere, CompilerIsMarked, Preparing, Patching
<1>3. \A p \in Patch : tree[p].marker = Missing
  BY DEF Init, NoTree, Part
<1>4. MarkedHoldsPatch /\ MarkerFitsConfig /\ MarkedIsComplete
  BY <1>3 DEF Init, MarkedHoldsPatch, MarkerFitsConfig, MarkedIsComplete
<1> QED BY <1>1, <1>2, <1>4 DEF Inv

(* Every step keeps the variables in their ranges. *)
LEMMA NextType == TypeOK /\ [Next]_vars => TypeOK'
<1> SUFFICES ASSUME TypeOK, [Next]_vars PROVE TypeOK'
  OBVIOUS
<1> USE DEF TypeOK, Step, Here, Write, Labels, vars, host, run, history, Exit
<1>e. NoModules \in Modules /\ 1 \in Patch /\ 1 \in Compilers
  BY BoundAssumption DEF NoModules, Modules, Patch, Kernel, Compilers, Missing, Unpatched
<1>1. ASSUME NEW r \in BOOLEAN, Start(r) PROVE TypeOK'
  BY <1>1, BoundAssumption, ToolchainAssumption DEF Start
<1>2. CASE RemovePart
  <2>1. PICK part \in Removable : tree' = [tree EXCEPT ![sha][part] = Missing]
    BY <1>2 DEF RemovePart
  <2>2. part \in Part
    BY <2>1 DEF Removable, Files, Part
  <2>3. tree' \in [Patch -> Tree]
    BY <2>1, <2>2, TreeType
  <2> QED BY <1>2, <2>3 DEF RemovePart
<1>3. CASE RemovalEnds \/ ReuseTree
  BY <1>3 DEF RemovalEnds, ReuseTree
<1>4. CASE RefuseTree \/ MakeStage
  BY <1>4, <1>e DEF RefuseTree, MakeStage
<1>5. CASE Extract
  <2>1. [NoTree EXCEPT !["directory"] = 1, !["source"] = 1, !["patched"] = Unpatched] \in Tree
    BY BoundAssumption DEF NoTree, Part, Tree, Missing, Unpatched, Patch
  <2> QED BY <1>5, <2>1 DEF Extract
<1>6. CASE CopyConfig
  BY <1>6, TreeType DEF CopyConfig
<1>7. CASE ApplyPatch
  BY <1>7, TreeType DEF ApplyPatch
<1>8. CASE CopySymvers
  BY <1>8, TreeType DEF CopySymvers
<1>9. CASE CopyVmlinux
  BY <1>9, TreeType DEF CopyVmlinux
<1>10. CASE WriteMarker
  BY <1>10, TreeType DEF WriteMarker
<1>11. CASE BuildModules
  <2>1. tree[sha] \in Tree
    OBVIOUS
  <2>2. built' \in Modules
    BY <1>11, <2>1 DEF BuildModules, Modules, Tree
  <2> QED BY <1>11, <2>2 DEF BuildModules
<1>12. CASE Stop
  BY <1>12, <1>e DEF Stop
<1>13. CASE EditPatch \/ InstallKernel
  BY <1>13 DEF EditPatch, InstallKernel
<1>14. CASE UNCHANGED vars
  BY <1>14
<1> QED BY <1>1, <1>2, <1>3, <1>4, <1>5, <1>6, <1>7, <1>8, <1>9, <1>10, <1>11, <1>12, <1>13, <1>14
        DEF Next, PrepareTree

\* What writing one part of the run's tree leaves alone.
LEMMA Written ==
  ASSUME TypeOK, NEW part \in Part, NEW content, Write(part, content)
  PROVE  /\ tree'[sha][part] = content
         /\ \A q \in Part \ {part} : tree'[sha][q] = tree[sha][q]
         /\ \A p \in Patch \ {sha} : tree'[p] = tree[p]
<1>1. sha \in Patch /\ tree \in [Patch -> Tree]
  BY DEF TypeOK
<1>2. DOMAIN tree[sha] = Part
  BY <1>1 DEF Tree, Part
<1> QED BY <1>1, <1>2 DEF Write

(* Every step of a run, of the owner, and every end of a run keeps the tree,
   its marker and what was compiled from it together as Inv says.          *)
LEMMA NextInv == Inv /\ [Next]_vars => Inv'
<1> SUFFICES ASSUME Inv, [Next]_vars PROVE Inv'
  OBVIOUS
<1>t. TypeOK /\ TypeOK'
  BY NextType DEF Inv
<1>s. sha \in Patch /\ kernel \in Kernel /\ patch \in Patch /\ compiler \in Compilers
  BY <1>t DEF TypeOK
<1>n. /\ \A p \in Patch : p # Missing
      /\ \A k \in Kernel : k # Missing
      /\ \A c \in Compilers : c # Missing
  BY BoundAssumption DEF Patch, Kernel, Compilers, Missing
<1> DEFINE Rest == /\ SummedIsThere /\ MarkedHoldsPatch /\ PatchIsSummed
                   /\ NoMarkerYet /\ ConfigIsHere /\ MarkerFitsConfig /\ CompilerIsMarked
                   /\ MarkedIsComplete
<1> SUFFICES Rest'
  BY <1>t DEF Inv
<1> USE <1>s, <1>n
    DEF Inv, SummedIsThere, MarkedHoldsPatch, PatchIsSummed, Patching, NoMarkerYet, ConfigIsHere, MarkerFitsConfig,
        CompilerIsMarked, MarkedIsComplete, Preparing, Step, Here, host, run, history
<1>1. ASSUME NEW r \in BOOLEAN, Start(r) PROVE Rest'
  BY <1>1 DEF Start
<1>2. CASE RemovePart
  <2>1. PICK part \in Removable : Write(part, Missing)
    BY <1>2 DEF RemovePart
  <2>2. part \in Part
    BY <2>1 DEF Removable, Files, Part
  <2>3. \A q \in Part : tree'[sha][q] = Missing \/ tree'[sha][q] = tree[sha][q]
    BY <1>t, <2>1, <2>2, Written
  <2>4. \A p \in Patch \ {sha} : tree'[p] = tree[p]
    BY <1>t, <2>1, <2>2, Written
  <2> QED BY <1>2, <2>3, <2>4 DEF RemovePart, Part
<1>3. CASE RemovalEnds
  <2>1. tree[sha].marker = Missing
    BY <1>3 DEF RemovalEnds, Removable, Files, Part
  <2> QED BY <1>3, <2>1 DEF RemovalEnds
<1>4. CASE ReuseTree
  <2>1. <<patch, tree[sha].patched>> \in Reverses /\ tree[sha].marker = compiler
    BY <1>4 DEF ReuseTree, Reusable, Marked, PatchApplied
  <2>2. tree[sha].patched \in Patch
    BY <2>1, ReversesAssumption
  <2> QED BY <1>4, <2>1, <2>2 DEF ReuseTree
<1>5. CASE RefuseTree
  BY <1>5 DEF RefuseTree, Exit
<1>6. CASE Extract
  <2>1. /\ tree'[sha].marker = Missing
        /\ \A p \in Patch \ {sha} : tree'[p] = tree[p]
    BY <1>6, <1>t DEF Extract, NoTree, Part, TypeOK
  <2>2. mixed' = mixed \ {sha} /\ torn' = torn \ {sha}
    BY <1>6 DEF Extract
  <2>3. MarkedHoldsPatch' /\ MarkerFitsConfig'
    BY <2>1, <2>2
  <2>4. MarkedIsComplete'
    BY <1>6, <2>1, <2>2 DEF Extract
  <2> QED BY <1>6, <2>1, <2>3, <2>4 DEF Extract
<1>7. CASE CopyConfig
  <2>1. /\ tree'[sha].config = kernel /\ tree'[sha].marker = Missing
        /\ \A p \in Patch \ {sha} : tree'[p] = tree[p]
    BY <1>7, <1>t, Written DEF CopyConfig, Part
  <2> QED BY <1>7, <2>1 DEF CopyConfig
<1>8. CASE ApplyPatch
  <2>1. /\ tree'[sha].patched = patch
        /\ \A q \in Part \ {"patched"} : tree'[sha][q] = tree[sha][q]
        /\ \A p \in Patch \ {sha} : tree'[p] = tree[p]
    BY <1>8, <1>t, Written DEF ApplyPatch, Part
  <2> QED BY <1>8, <2>1 DEF ApplyPatch, Part
<1>9. CASE CopySymvers
  <2>1. /\ \A q \in Part \ {"symvers"} : tree'[sha][q] = tree[sha][q]
        /\ \A p \in Patch \ {sha} : tree'[p] = tree[p]
    BY <1>9, <1>t, Written DEF CopySymvers, Part
  <2> QED BY <1>9, <2>1 DEF CopySymvers, Part
<1>10. CASE CopyVmlinux
  <2>1. /\ tree'[sha].vmlinux = kernel
        /\ \A q \in Part \ {"vmlinux"} : tree'[sha][q] = tree[sha][q]
        /\ \A p \in Patch \ {sha} : tree'[p] = tree[p]
    BY <1>10, <1>t, Written DEF CopyVmlinux, Part
  <2> QED BY <1>10, <2>1 DEF CopyVmlinux, Part
<1>11. CASE WriteMarker
  <2>1. /\ tree'[sha].marker = compiler
        /\ \A q \in Part \ {"marker"} : tree'[sha][q] = tree[sha][q]
        /\ <<sha, sha>> \in Reverses
        /\ \A p \in Patch \ {sha} : tree'[p] = tree[p]
    BY <1>11, <1>t, Written, ReversesAssumption DEF WriteMarker, Part
  <2> QED BY <1>11, <2>1 DEF WriteMarker, Part
<1>12. CASE BuildModules
  BY <1>12 DEF BuildModules
<1>13. CASE MakeStage
  BY <1>13 DEF MakeStage, Exit
<1>14. CASE Stop
  BY <1>14 DEF Stop, Exit
<1>15. CASE EditPatch
  BY <1>15 DEF EditPatch
<1>16. CASE InstallKernel
  BY <1>16 DEF InstallKernel
<1>17. CASE UNCHANGED vars
  BY <1>17 DEF vars
<1> QED BY <1>1, <1>2, <1>3, <1>4, <1>5, <1>6, <1>7, <1>8, <1>9, <1>10, <1>11, <1>12, <1>13,
           <1>14, <1>15, <1>16, <1>17 DEF Next, PrepareTree

-----------------------------------------------------------------------------

(* The variables stay in their ranges. *)
THEOREM TypeCorrect == Spec => []TypeOK
<1>1. Init => TypeOK
  BY InitInv DEF Inv
<1> QED BY <1>1, NextType, PTL DEF Spec

(* What the tree, its marker and the run that uses it have to do with each
   other in every state.                                                    *)
THEOREM Invariant == Spec => []Inv
BY InitInv, NextInv, PTL DEF Spec

(* A stage contains the patch it names, and nothing else unless the patch
   file was replaced while its tree was prepared.                           *)
THEOREM StagedAsNamed == Spec => StageAsNamed
<1>1. Inv => [MakeStage /\ ~changed => /\ <<sha, built.patched>> \in Reverses
                                       /\ sha \notin mixed => built.patched = sha]_vars
  <2>1. ASSUME Inv, MakeStage, ~changed
        PROVE  /\ <<sha, built.patched>> \in Reverses
               /\ sha \notin mixed => built.patched = sha
    BY <2>1 DEF Inv, PatchIsSummed, MakeStage
  <2> QED BY <2>1
<1> QED BY <1>1, Invariant, PTL DEF StageAsNamed

(* Modules are compiled by the compiler of the configured kernel. *)
THEOREM AsConfigured == Spec => CompiledAsConfigured
<1>1. Inv => [MakeStage /\ ~changed /\ sha \notin mixed
                => built.compiler = Toolchain[built.config]]_vars
  BY DEF Inv, CompilerIsMarked, MakeStage
<1> QED BY <1>1, Invariant, PTL DEF CompiledAsConfigured

(* No stage comes from a tree that was half prepared. *)
THEOREM Complete == Spec => StageComplete
<1>1. Inv => [MakeStage /\ sha \notin torn => built.vmlinux # Missing]_vars
  BY DEF Inv, MarkedIsComplete, MakeStage
<1> QED BY <1>1, Invariant, PTL DEF StageComplete
=============================================================================
