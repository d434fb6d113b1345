----------------------------- MODULE MCProcFile -----------------------------
(* Model-checking instance of ProcFile.  Process slots are not symmetric: *)
(* allocproc, fileopen and the fd search all take the lowest free index.  *)
EXTENDS ProcFile, TLC

=============================================================================
