----------------------------- MODULE MCEdgePack -----------------------------
(* Five surfaces over six grams, two of them for one entity, one without an *)
(* entity; two entities have occurrences.                                   *)
EXTENDS EdgePack, TLC
CONSTANT absent

S(grams, entity) == [grams |-> grams, entity |-> entity]
MCSurfaces == << S({1, 2}, 3), S({2, 3}, absent), S({2, 3, 4}, 1), S({3}, 3), S({4, 1}, 5) >>
MCOccurrences == 1 :> 2 @@ 3 :> 1 @@ 7 :> 3

A(grams) == [grams |-> grams, points |-> 5]
MCAsked ==
  {A({2, 3}), A({3}), A({4, 9}), A({2, 3, 4}), A({9}), [grams |-> {1}, points |-> 6]}
=============================================================================
