----------------------------- MODULE MCFeeling -----------------------------
(* Three drives with the weights' signs of config/drives.toml, and a model  *)
(* that names an emotion of its own.                                         *)
EXTENDS Feeling

MCDrives == {"connection", "coherence", "energy"}
MCSetpoint == [d \in MCDrives |-> 0]
MCEquilibrium == [d \in MCDrives |-> 1]
MCThreshold == [d \in MCDrives |-> 0]
MCWeight ==
    [k \in {"interaction", "success", "failure", "reflection", "shutdown_signal", "rest"} |->
        [d \in MCDrives |-> CASE d = "connection" /\ k = "interaction" -> -1
                              [] d = "coherence" /\ k = "reflection" -> -1
                              [] d = "energy" /\ k = "rest" -> -1
                              [] OTHER -> 0]]
MCOutcomes == {"failure"}
MCOpinions == {[congruence |-> -100, novelty |-> 80, agency |-> 50,
                certainty |-> 50,
                emotions |-> {"awe"}]}

=============================================================================
