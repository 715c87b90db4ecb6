------------------------------- MODULE MCAnalysis -------------------------------
(* CommandAnalysis for TLC: what homes, test directories and the model give. *)
EXTENDS CommandAnalysis

ContainerSymmetry == Permutations(Containers)

LineOf(text, n) == [text |-> text, no |-> n, cut |-> FALSE]

NoFiles == [s \in {"ash", "bash", "zsh"} |-> << >>]

Bash == <<LineOf("plain", 1), LineOf("visible", 2), LineOf("beyond", 3), LineOf("plain", 4)>>

(* A home as the shell leaves it, and one whose user has made a directory   *)
(* with his own name in it and keeps a history there.                       *)
MCHomes == {[own |-> Bash, sub |-> NoFiles],
            [own |-> << >>, sub |-> [NoFiles EXCEPT !["ash"] = <<LineOf("visible", 5)>>,
                                                    !["bash"] = Bash]]}

(* The test directory that generate_test_data.py writes.                    *)
MCTests == {[NoFiles EXCEPT !["ash"] = Bash]}

MCResponses ==
    {[form |-> "json", value |-> "verdict", risk |-> "benign"],
     [form |-> "embedded", value |-> "nolist", risk |-> "benign"],
     [form |-> "json", value |-> "notobject", risk |-> "benign"]}
================================================================================
