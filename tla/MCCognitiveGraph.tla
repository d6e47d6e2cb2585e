-------------------------- MODULE MCCognitiveGraph --------------------------
(* A software change in the shape of the coding qualification: a file       *)
(* obligation and a build that depends on it under a required verifier, to  *)
(* which callers may add two obligations that wait for each other.          *)
EXTENDS CognitiveGraph

O(mandatory, deps, status) ==
  [goal |-> "goal", mandatory |-> mandatory, depends_on |-> deps,
   status |-> status, satisfied_by |-> {}]

Coding ==
  [goals |-> [x \in {"goal"} |-> "OPEN"],
   obligations |-> [o \in {"file", "build"} |->
      IF o = "file" THEN O(TRUE, {}, "OPEN") ELSE O(TRUE, {"file"}, "OPEN")],
   invariants |-> [i \in {"verifier"} |-> "ACTIVE"],
   hypotheses |-> [h \in {} |-> TRUE],
   evidence |-> {},
   unresolved |-> FALSE,
   frontier |-> [f \in {} |-> "OPEN"],
   progress |-> NewProgress,
   ever |-> {}]

MCCoding == {Coding}
MCNew ==
  { [id |-> "ping", value |-> O(TRUE, {"pong"}, "OPEN")],
    [id |-> "pong", value |-> O(FALSE, {"ping", "file"}, "OPEN")] }
MCObligationId == {"file", "build", "ping", "pong"}
MCSupport == {{}}
MCStatus == {"OPEN", "SATISFIED", "FAILED"}
=============================================================================
