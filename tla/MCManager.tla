------------------------------- MODULE MCManager -------------------------------
(* Instances of Manager for TLC. *)
EXTENDS Manager, TLC

Symmetry == Permutations(Containers)

MinorFaults == Commands \ {"umount"}

SomeNamesake == {CHOOSE pair \in Containers \X Containers : pair[1] # pair[2]}

================================================================================
