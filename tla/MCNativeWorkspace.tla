------------------------- MODULE MCNativeWorkspace -------------------------
(* Instances of NativeWorkspace for TLC: two candidate slots, three         *)
(* entities, two scores, one evidence bit.                                  *)
EXTENDS NativeWorkspace

C(e, s, m) == [entity_id |-> e, score_q15 |-> s, evidence_mask |-> m]

(* Batches that fill, overflow, repeat an id, meet the workspace again and  *)
(* fail in the middle.                                                      *)
MCBatches ==
  { <<>>,
    <<C(1, 0, {"x"}), C(2, 1, {"x"})>>,
    <<C(3, 1, {"x"})>>,
    <<C(3, 1, {}), C(1, 1, {})>>,
    <<C(2, 0, {}), C(3, 0, {"x"}), C(2, 1, {})>>,
    <<C(1, 1, {"x"}), C(0, 0, {}), C(2, 1, {"x"})>> }

MCBits == {"x"}
============================================================================
