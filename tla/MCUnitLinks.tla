----------------------------- MODULE MCUnitLinks -----------------------------
(***************************************************************************)
(* UnitLinks for TLC: two folders, a common target, one that is not        *)
(* common, and a requires directory.                                       *)
(***************************************************************************)
EXTENDS UnitLinks, TLC

CONSTANTS common, own, requires

Symmetry == Permutations(Procs)

Absent      == [kind |-> "none", wants |-> {}]
Masked      == [kind |-> "mask", wants |-> {}]
Wanting(ds) == [kind |-> "file", wants |-> ds]

TheFiles == {<<Absent, Wanting({common, own})>>, <<Wanting({common}), Wanting({own})>>,
             <<Masked, Wanting({common})>>}

\* Links of an earlier version of the unit file, and one that somebody else made.
NoLinks  == [l \in Places |-> "none"]
OldLinks == [NoLinks EXCEPT ![1, common] = "other", ![2, common] = "own", ![2, requires] = "own"]
TheLinks == {NoLinks, OldLinks}

\* The first preset file of a name counts, and the first name that has a rule.
PresetFiles(a, b, c, d) ==
    [x \in Folders \X (1..NPresets) |->
        CASE x = <<1, 1>> -> a [] x = <<2, 1>> -> b [] x = <<1, 2>> -> c [] OTHER -> d]

ThePresets == {PresetFiles("silent", "enable", "disable", "enable"),
               PresetFiles("absent", "enable", "disable", "absent")}

=============================================================================
