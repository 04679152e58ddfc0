------------------------------ MODULE MCBootFiles ------------------------------
(***************************************************************************)
(* BootFiles for TLC: invocations and process ids are interchangeable.     *)
(***************************************************************************)
EXTENDS BootFiles, TLC

Symmetry == Permutations(Procs) \cup Permutations(Pids)

=============================================================================
