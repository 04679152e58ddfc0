----------------------------- MODULE MCUnitBatch -----------------------------
(***************************************************************************)
(* UnitBatch for TLC: invocations and process ids are interchangeable; the *)
(* units are not, their names have an order.                               *)
(***************************************************************************)
EXTENDS UnitBatch, TLC

Symmetry == Permutations(Procs) \cup Permutations(Pids)

\* Every command line is about both units, or about any of them.
BothUnits == {<<1, 2>>}
AnyUnits  == {<<1>>, <<2>>, <<1, 2>>}

=============================================================================
