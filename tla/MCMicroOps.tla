---------------------------- MODULE MCMicroOps ----------------------------
(***************************************************************************)
(* A small instance of MicroOps: three claims about two subjects and seven *)
(* tasks, chosen so that every menu, every reason for a failed             *)
(* verification and every refusal occurs.                                  *)
(***************************************************************************)
EXTENDS TLC, MicroOps

CONSTANTS c1, c2, c3, s1, s2, s3, r1, r2, f1, f2, f3, v1, e1, e2, u1, u2

MCClaim(subject, relation, family, number, quantity) ==
  [subject |-> subject, relation |-> relation, family |-> family, event |-> NoValue,
   entities |-> {e1}, mentions |-> {e1}, sources |-> {u1}, keeps |-> FrameFilters,
   entity_ok |-> TRUE, relation_ok |-> TRUE, copied |-> TRUE, fits |-> TRUE,
   number |-> number, quantity |-> quantity]

MCCase(shape, claims) ==
  [shape |-> shape, target |-> 2, filters |-> {}, refusals |-> {"ABSTAIN"},
   intact |-> TRUE, claims |-> claims]

Good == MCClaim(s1, r1, f1, 5, 5)

(* One asked relation, claims that fail each per-claim check.               *)
Direct ==
  [MCCase("direct", c1 :> [Good EXCEPT !.fits = FALSE, !.keeps = {"FILTER_RELATION"}]
                 @@ c2 :> [Good EXCEPT !.relation_ok = FALSE, !.keeps = {"FILTER_SUBJECT"},
                                       !.mentions = {e1, e2}, !.event = v1]
                 @@ c3 :> [Good EXCEPT !.sources = {u2}])
   EXCEPT !.filters = {"FILTER_SUBJECT", "FILTER_RELATION"}]
Damaged == [MCCase("direct", c1 :> Good) EXCEPT !.intact = FALSE]
Refusing == [MCCase("direct", <<>>) EXCEPT !.refusals = Refusals]

List == MCCase("list", c1 :> Good @@ c2 :> MCClaim(s2, r1, f2, 7, 7)
                    @@ c3 :> MCClaim(s3, r2, f1, 7, 7))

(* Numbers and quantities agree, but for c3: the first number of its text   *)
(* is not its quantity, and it shares the family of c2.                     *)
Compare == MCCase("comparison", c1 :> Good @@ c2 :> MCClaim(s2, r1, f2, 7, 7)
                             @@ c3 :> MCClaim(s3, r1, f2, 9, 3))
Incomparable == MCCase("comparison", c1 :> Good @@ c2 :> MCClaim(s2, r1, f2, 7, NoValue)
                                  @@ c3 :> MCClaim(s3, r2, f3, 7, 7))
Textual == MCCase("comparison", c1 :> Good @@ c2 :> MCClaim(s2, r1, f2, NoValue, NoValue))

MCCases == {Direct, Damaged, Refusing, List, Compare, Incomparable, Textual}
=============================================================================
