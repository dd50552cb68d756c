\* Runs end anywhere; patch file and kernel are replaced at any time.
SPECIFICATION Spec
CONSTANTS
  MaxRun = 3
  MaxKernel = 2
  MaxPatch = 2
  Toolchain <- MCToolchain
  Reverses <- MCReverses
PROPERTIES
  StageAsNamed
  CompiledAsConfigured
  StageComplete
CHECK_DEADLOCK FALSE
