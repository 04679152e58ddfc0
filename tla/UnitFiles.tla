------------------------------ MODULE UnitFiles ------------------------------
(***************************************************************************)
(* What the unit files say and what is made of it: the order in which      *)
(* units are started (SortAfter), the listing of their dependencies        *)
(* (Dependencies), the reading of a file with its drop-ins (UnitFile), the *)
(* environment of a service (Environment) and the units of a command line  *)
(* (UnitDatabase).  These algorithms are run one at a time.                *)
(***************************************************************************)
EXTENDS SortAfter, Dependencies, UnitFile, Environment, UnitDatabase

\* Types.
TypesOK == SortTypeOK /\ TypeOK /\ FileTypeOK /\ EnvironmentTypeOK /\ DatabaseTypeOK

\* The sort, the listing, the reading of files, the expansion of values and the work
\* on the matched units come to their ends, whatever circles the unit files describe.
AllEnd == SortEnds /\ ListingEnds /\ LoadEnds /\ EnvironmentEnds /\ DatabaseEnds

=============================================================================
