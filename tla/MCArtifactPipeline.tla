------------------------ MODULE MCArtifactPipeline ------------------------
(* TLC instances of ArtifactPipeline. *)
EXTENDS ArtifactPipeline

\* Bound for the stages that overlap: nothing is explored beyond a run of 04
\* that has ended after its first copy.
FirstDeployment ==
  pc["apply"] = "idle" =>
    \A g \in Gens, f \in RuntimeFiles : runtime[g][f] = NoFile
=============================================================================
