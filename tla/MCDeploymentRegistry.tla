------------------------ MODULE MCDeploymentRegistry ------------------------
(* Two callers, one pack with an update.                                    *)
EXTENDS DeploymentRegistry

MCProcess == {"p1", "p2"}
MCKey == {"wiki"}
MCManifest == {"wiki1", "wiki2"}
MCKeyOf == [m \in MCManifest |-> "wiki"]
MCLineage == [m \in MCManifest |-> IF m = "wiki2" THEN {"wiki1"} ELSE {}]
=============================================================================
