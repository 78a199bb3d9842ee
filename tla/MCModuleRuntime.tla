--------------------------- MODULE MCModuleRuntime ---------------------------
(* Finite instances of ModuleRuntime for TLC.                              *)
EXTENDS ModuleRuntime, TLC

\* Processes, readers, modules and parts are interchangeable.
Symmetry == Permutations(Procs) \cup Permutations(Readers) \cup Permutations(Modules)
                \cup Permutations(Parts)

=============================================================================
