------------------------ MODULE CognitiveGraphProofs ------------------------
(***************************************************************************)
(* Proofs about CognitiveGraph for every set of obligations, every initial *)
(* graph and every bound: type correctness, that obligations waiting for   *)
(* each other are never satisfied, that the progress counters cover the    *)
(* graph, when recovery is offered and what the windows of recent actions  *)
(* say.  The invariant is a conjunction over the three graphs the caller   *)
(* holds, because a rollback makes an older one current again.             *)
(***************************************************************************)
EXTENDS CognitiveGraph, FiniteSetTheorems, TLAPS

(* What is true of each graph: its satisfied obligations are among those    *)
(* ever satisfied, and a deadlocked set contains none of the latter.  The   *)
(* history field is what makes this inductive: an obligation that was       *)
(* satisfied and reopened must still count when another one is added.       *)
EverSound(g) ==
  /\ SatisfiedIn(g) \subseteq g.ever
  /\ g.ever \subseteq DOMAIN g.obligations
  /\ \A S \in SUBSET DOMAIN g.obligations : Deadlocked(g, S) => S \cap g.ever = {}

GraphInv(g) == IsGraph(g) /\ WindowsBounded(g) /\ EverSound(g)

Inv ==
  /\ GraphInv(graph) /\ GraphInv(before) /\ GraphInv(kept)
  /\ operations \in 0 .. MaxOperations
  /\ trail \in Seq(BOOLEAN)

(* EverSound reads only the obligations and the history field.              *)
LEMMA EverFrame ==
  ASSUME NEW g, NEW h, EverSound(g), h.obligations = g.obligations, h.ever = g.ever
  PROVE  EverSound(h)
  BY DEF EverSound, SatisfiedIn, Deadlocked

(* Adding an item under a fresh id keeps a collection a map.                *)
LEMMA ExtendMap ==
  ASSUME NEW f, NEW D, NEW R, IsMap(f, D, R), NEW x \in D, NEW v \in R
  PROVE  IsMap(Extend(f, x, v), D, R)
  BY DEF IsMap, Extend

(* Replacing an item keeps a collection a map.                              *)
LEMMA UpdateMap ==
  ASSUME NEW f, NEW D, NEW R, IsMap(f, D, R), NEW x \in DOMAIN f, NEW v \in R
  PROVE  IsMap([f EXCEPT ![x] = v], D, R)
  BY DEF IsMap

(* Replacing the obligations of a graph leaves a graph.                     *)
LEMMA ReplaceObligations ==
  ASSUME NEW g, IsGraph(g), NEW v, IsMap(v, ObligationId, Obligation)
  PROVE  LET h == [g EXCEPT !.obligations = v]
         IN /\ IsGraph(h) /\ h.obligations = v
            /\ h.ever = g.ever
            /\ h.progress = g.progress
<1> DEFINE h == [g EXCEPT !.obligations = v]
<1>1. /\ h.obligations = v
      /\ h.goals = g.goals
      /\ h.invariants = g.invariants
      /\ h.hypotheses = g.hypotheses
      /\ h.evidence = g.evidence
      /\ h.frontier = g.frontier
      /\ h.progress = g.progress
      /\ h.ever = g.ever
      /\ h.unresolved = g.unresolved
      /\ h = [goals |-> h.goals, obligations |-> h.obligations, invariants |-> h.invariants,
              hypotheses |-> h.hypotheses, evidence |-> h.evidence,
              unresolved |-> h.unresolved, frontier |-> h.frontier,
              progress |-> h.progress, ever |-> h.ever]
  BY DEF IsGraph
<1> HIDE DEF h
<1>2. IsGraph(h)
  BY <1>1 DEF IsGraph
<1>3. QED BY <1>1, <1>2, Zenon DEF h

(* Replacing the history field of a graph leaves a graph.                   *)
LEMMA ReplaceEver ==
  ASSUME NEW g, IsGraph(g), NEW v, v \in SUBSET ObligationId
  PROVE  LET h == [g EXCEPT !.ever = v]
         IN /\ IsGraph(h) /\ h.ever = v
            /\ h.obligations = g.obligations
            /\ h.progress = g.progress
<1> DEFINE h == [g EXCEPT !.ever = v]
<1>1. /\ h.ever = v
      /\ h.goals = g.goals
      /\ h.obligations = g.obligations
      /\ h.invariants = g.invariants
      /\ h.hypotheses = g.hypotheses
      /\ h.evidence = g.evidence
      /\ h.frontier = g.frontier
      /\ h.progress = g.progress
      /\ h.unresolved = g.unresolved
      /\ h = [goals |-> h.goals, obligations |-> h.obligations, invariants |-> h.invariants,
              hypotheses |-> h.hypotheses, evidence |-> h.evidence,
              unresolved |-> h.unresolved, frontier |-> h.frontier,
              progress |-> h.progress, ever |-> h.ever]
  BY DEF IsGraph
<1> HIDE DEF h
<1>2. IsGraph(h)
  BY <1>1 DEF IsGraph
<1>3. QED BY <1>1, <1>2, Zenon DEF h

(* Replacing the goals of a graph leaves a graph.                           *)
LEMMA ReplaceGoals ==
  ASSUME NEW g, IsGraph(g), NEW v, IsMap(v, GoalId, GoalStatus)
  PROVE  LET h == [g EXCEPT !.goals = v]
         IN /\ IsGraph(h) /\ h.goals = v
            /\ h.obligations = g.obligations
            /\ h.ever = g.ever
            /\ h.progress = g.progress
<1> DEFINE h == [g EXCEPT !.goals = v]
<1>1. /\ h.goals = v
      /\ h.obligations = g.obligations
      /\ h.invariants = g.invariants
      /\ h.hypotheses = g.hypotheses
      /\ h.evidence = g.evidence
      /\ h.frontier = g.frontier
      /\ h.progress = g.progress
      /\ h.ever = g.ever
      /\ h.unresolved = g.unresolved
      /\ h = [goals |-> h.goals, obligations |-> h.obligations, invariants |-> h.invariants,
              hypotheses |-> h.hypotheses, evidence |-> h.evidence,
              unresolved |-> h.unresolved, frontier |-> h.frontier,
              progress |-> h.progress, ever |-> h.ever]
  BY DEF IsGraph
<1> HIDE DEF h
<1>2. IsGraph(h)
  BY <1>1 DEF IsGraph
<1>3. QED BY <1>1, <1>2, Zenon DEF h

(* Replacing the invariants of a graph leaves a graph.                      *)
LEMMA ReplaceInvariants ==
  ASSUME NEW g, IsGraph(g), NEW v, IsMap(v, InvariantId, {"ACTIVE", "VIOLATED"})
  PROVE  LET h == [g EXCEPT !.invariants = v]
         IN /\ IsGraph(h) /\ h.invariants = v
            /\ h.obligations = g.obligations
            /\ h.ever = g.ever
            /\ h.progress = g.progress
<1> DEFINE h == [g EXCEPT !.invariants = v]
<1>1. /\ h.invariants = v
      /\ h.goals = g.goals
      /\ h.obligations = g.obligations
      /\ h.hypotheses = g.hypotheses
      /\ h.evidence = g.evidence
      /\ h.frontier = g.frontier
      /\ h.progress = g.progress
      /\ h.ever = g.ever
      /\ h.unresolved = g.unresolved
      /\ h = [goals |-> h.goals, obligations |-> h.obligations, invariants |-> h.invariants,
              hypotheses |-> h.hypotheses, evidence |-> h.evidence,
              unresolved |-> h.unresolved, frontier |-> h.frontier,
              progress |-> h.progress, ever |-> h.ever]
  BY DEF IsGraph
<1> HIDE DEF h
<1>2. IsGraph(h)
  BY <1>1 DEF IsGraph
<1>3. QED BY <1>1, <1>2, Zenon DEF h

(* Replacing the hypotheses of a graph leaves a graph.                      *)
LEMMA ReplaceHypotheses ==
  ASSUME NEW g, IsGraph(g), NEW v, IsMap(v, HypothesisId, BOOLEAN)
  PROVE  LET h == [g EXCEPT !.hypotheses = v]
         IN /\ IsGraph(h) /\ h.hypotheses = v
            /\ h.obligations = g.obligations
            /\ h.ever = g.ever
            /\ h.progress = g.progress
<1> DEFINE h == [g EXCEPT !.hypotheses = v]
<1>1. /\ h.hypotheses = v
      /\ h.goals = g.goals
      /\ h.obligations = g.obligations
      /\ h.invariants = g.invariants
      /\ h.evidence = g.evidence
      /\ h.frontier = g.frontier
      /\ h.progress = g.progress
      /\ h.ever = g.ever
      /\ h.unresolved = g.unresolved
      /\ h = [goals |-> h.goals, obligations |-> h.obligations, invariants |-> h.invariants,
              hypotheses |-> h.hypotheses, evidence |-> h.evidence,
              unresolved |-> h.unresolved, frontier |-> h.frontier,
              progress |-> h.progress, ever |-> h.ever]
  BY DEF IsGraph
<1> HIDE DEF h
<1>2. IsGraph(h)
  BY <1>1 DEF IsGraph
<1>3. QED BY <1>1, <1>2, Zenon DEF h

(* Replacing the evidence of a graph leaves a graph.                        *)
LEMMA ReplaceEvidence ==
  ASSUME NEW g, IsGraph(g), NEW v, v \in SUBSET EvidenceId
  PROVE  LET h == [g EXCEPT !.evidence = v]
         IN /\ IsGraph(h) /\ h.evidence = v
            /\ h.obligations = g.obligations
            /\ h.ever = g.ever
            /\ h.progress = g.progress
<1> DEFINE h == [g EXCEPT !.evidence = v]
<1>1. /\ h.evidence = v
      /\ h.goals = g.goals
      /\ h.obligations = g.obligations
      /\ h.invariants = g.invariants
      /\ h.hypotheses = g.hypotheses
      /\ h.frontier = g.frontier
      /\ h.progress = g.progress
      /\ h.ever = g.ever
      /\ h.unresolved = g.unresolved
      /\ h = [goals |-> h.goals, obligations |-> h.obligations, invariants |-> h.invariants,
              hypotheses |-> h.hypotheses, evidence |-> h.evidence,
              unresolved |-> h.unresolved, frontier |-> h.frontier,
              progress |-> h.progress, ever |-> h.ever]
  BY DEF IsGraph
<1> HIDE DEF h
<1>2. IsGraph(h)
  BY <1>1 DEF IsGraph
<1>3. QED BY <1>1, <1>2, Zenon DEF h

(* Replacing the frontier of a graph leaves a graph.                        *)
LEMMA ReplaceFrontier ==
  ASSUME NEW g, IsGraph(g), NEW v, IsMap(v, FrontierId, FrontierStatus)
  PROVE  LET h == [g EXCEPT !.frontier = v]
         IN /\ IsGraph(h) /\ h.frontier = v
            /\ h.obligations = g.obligations
            /\ h.ever = g.ever
            /\ h.progress = g.progress
<1> DEFINE h == [g EXCEPT !.frontier = v]
<1>1. /\ h.frontier = v
      /\ h.goals = g.goals
      /\ h.obligations = g.obligations
      /\ h.invariants = g.invariants
      /\ h.hypotheses = g.hypotheses
      /\ h.evidence = g.evidence
      /\ h.progress = g.progress
      /\ h.ever = g.ever
      /\ h.unresolved = g.unresolved
      /\ h = [goals |-> h.goals, obligations |-> h.obligations, invariants |-> h.invariants,
              hypotheses |-> h.hypotheses, evidence |-> h.evidence,
              unresolved |-> h.unresolved, frontier |-> h.frontier,
              progress |-> h.progress, ever |-> h.ever]
  BY DEF IsGraph
<1> HIDE DEF h
<1>2. IsGraph(h)
  BY <1>1 DEF IsGraph
<1>3. QED BY <1>1, <1>2, Zenon DEF h

(* Replacing the progress of a graph leaves a graph.                        *)
LEMMA ReplaceProgress ==
  ASSUME NEW g, IsGraph(g), NEW v, v \in ProgressState
  PROVE  LET h == [g EXCEPT !.progress = v]
         IN /\ IsGraph(h) /\ h.progress = v
            /\ h.obligations = g.obligations
            /\ h.ever = g.ever
            /\ h.evidence = g.evidence
<1> DEFINE h == [g EXCEPT !.progress = v]
<1>1. /\ h.progress = v
      /\ h.goals = g.goals
      /\ h.obligations = g.obligations
      /\ h.invariants = g.invariants
      /\ h.hypotheses = g.hypotheses
      /\ h.evidence = g.evidence
      /\ h.frontier = g.frontier
      /\ h.ever = g.ever
      /\ h.unresolved = g.unresolved
      /\ h = [goals |-> h.goals, obligations |-> h.obligations, invariants |-> h.invariants,
              hypotheses |-> h.hypotheses, evidence |-> h.evidence,
              unresolved |-> h.unresolved, frontier |-> h.frontier,
              progress |-> h.progress, ever |-> h.ever]
  BY DEF IsGraph
<1> HIDE DEF h
<1>2. IsGraph(h)
  BY <1>1 DEF IsGraph
<1>3. QED BY <1>1, <1>2, Zenon DEF h

(* It leaves the other collections alone.                                   *)
LEMMA ProgressFrame ==
  ASSUME NEW g, IsGraph(g), NEW v
  PROVE  /\ [g EXCEPT !.progress = v].hypotheses = g.hypotheses
         /\ [g EXCEPT !.progress = v].frontier = g.frontier
  BY DEF IsGraph

(* The deltas of record_progress are natural numbers that close the gap     *)
(* between the old and the new count.                                       *)
LEMMA GainedCovers ==
  ASSUME NEW old \in Nat, NEW new \in Nat
  PROVE  Gained(old, new) \in Nat /\ new <= old + Gained(old, new)
<1>1. CASE new >= old
  <2>1. new - old \in {0, new - old} /\ \A x \in {0, new - old} : x <= new - old
    BY <1>1
  <2>2. Gained(old, new) \in {0, new - old} /\ \A x \in {0, new - old} : x <= Gained(old, new)
    BY <2>1 DEF Gained, MaxOf
  <2>3. QED BY <1>1, <2>2
<1>2. CASE new < old
  <2>1. 0 \in {0, new - old} /\ \A x \in {0, new - old} : x <= 0
    BY <1>2
  <2>2. Gained(old, new) \in {0, new - old} /\ \A x \in {0, new - old} : x <= Gained(old, new)
    BY <2>1 DEF Gained, MaxOf
  <2>3. QED BY <1>2, <2>2
<1>3. QED BY <1>1, <1>2

(* The bounded suffix of a sequence is a sequence within the bound.         *)
LEMMA LastNType ==
  ASSUME NEW T, NEW s \in Seq(T), NEW n \in Nat \ {0}
  PROVE  LastN(s, n) \in Seq(T) /\ Len(LastN(s, n)) <= n
<1>1. CASE Len(s) <= n
  BY <1>1 DEF LastN
<1>2. CASE Len(s) > n
  <2>1. /\ Len(s) - n + 1 \in 1 .. Len(s)
        /\ LastN(s, n) = SubSeq(s, Len(s) - n + 1, Len(s))
    BY <1>2 DEF LastN
  <2>2. QED BY <2>1
<1>3. QED BY <1>1, <1>2

(* The collections of a graph are finite, so their sizes are numbers.       *)
LEMMA GraphCounts ==
  ASSUME NEW g, IsGraph(g)
  PROVE  /\ Cardinality(SatisfiedIn(g)) \in Nat
         /\ Cardinality(g.evidence) \in Nat
         /\ Cardinality(DOMAIN g.hypotheses) \in Nat
         /\ Cardinality(DOMAIN g.frontier) \in Nat
<1>1. /\ SatisfiedIn(g) \subseteq ObligationId
      /\ g.evidence \subseteq EvidenceId
      /\ DOMAIN g.hypotheses \subseteq HypothesisId
      /\ DOMAIN g.frontier \subseteq FrontierId
  BY DEF IsGraph, IsMap, SatisfiedIn
<1>2. /\ IsFiniteSet(ObligationId) /\ IsFiniteSet(EvidenceId)
      /\ IsFiniteSet(HypothesisId) /\ IsFiniteSet(FrontierId)
  BY GraphAssumption
<1>3. /\ IsFiniteSet(SatisfiedIn(g)) /\ IsFiniteSet(g.evidence)
      /\ IsFiniteSet(DOMAIN g.hypotheses) /\ IsFiniteSet(DOMAIN g.frontier)
  BY <1>1, <1>2, FS_Subset
<1>4. QED BY <1>3, FS_CardinalityType

----------------------------------------------------------------------------
(* Initial graphs                                                           *)

(* A validated initial graph satisfies the invariant: its only satisfied    *)
(* obligations have no dependency, so none of them is in a deadlocked set.  *)
LEMMA InitialGraphInv ==
  ASSUME NEW g \in InitialGraphs
  PROVE  GraphInv(g)
<1>1. /\ IsGraph(g) /\ g.progress = NewProgress /\ g.ever = SatisfiedIn(g)
      /\ \A o \in SatisfiedIn(g) : g.obligations[o].depends_on = {}
  BY GraphAssumption
<1>2. WindowsBounded(g)
  BY <1>1, GraphAssumption DEF WindowsBounded, NewProgress
<1>3. EverSound(g)
  BY <1>1 DEF EverSound, SatisfiedIn, Deadlocked
<1>4. QED BY <1>1, <1>2, <1>3 DEF GraphInv

(* Init establishes the invariant.                                          *)
LEMMA InitInv == Init => Inv
  BY InitialGraphInv, GraphAssumption DEF Init, Inv

----------------------------------------------------------------------------
(* Operations                                                               *)

(* An operation that returns a good graph preserves the invariant.          *)
LEMMA ReturnInv ==
  ASSUME Inv, NEW g, GraphInv(g), Return(g)
  PROVE  Inv'
<1>1. graph' = g /\ before' = before /\ kept' = kept /\ trail' = trail
  BY DEF Return
<1>2. operations' \in 0 .. MaxOperations
  BY GraphAssumption DEF Return, Inv
<1>3. GraphInv(graph') /\ GraphInv(before') /\ GraphInv(kept')
  BY <1>1 DEF Inv
<1>4. QED BY <1>1, <1>2, <1>3 DEF Inv, GraphInv, IsGraph, IsMap, WindowsBounded,
                            EverSound, SatisfiedIn, Deadlocked

(* An obligation is satisfied only after its dependencies; so a deadlocked  *)
(* set, which keeps its dependencies, still has no member ever satisfied.   *)
LEMMA TransitionInv ==
  ASSUME Inv, NEW o \in ObligationId, NEW status \in StatusInputs, NEW s \in SupportSets,
         transition_obligation(o, status, s)
  PROVE  Inv'
<1> DEFINE reopened == graph.obligations[o].status = "SATISFIED" /\ status = "OPEN"
           item == [graph.obligations[o] EXCEPT !.status = status,
                      !.satisfied_by = IF reopened THEN {} ELSE s]
           obs == [graph.obligations EXCEPT ![o] = item]
           ever == IF status = "SATISFIED" THEN graph.ever \cup {o} ELSE graph.ever
           m == [graph EXCEPT !.obligations = obs]
           g == [m EXCEPT !.ever = ever]
<1>1. /\ IsGraph(graph) /\ WindowsBounded(graph) /\ EverSound(graph)
      /\ o \in DOMAIN graph.obligations
      /\ status = "SATISFIED" => DependenciesMet(graph, o)
  BY DEF Inv, GraphInv, transition_obligation
<1>2. Return(g)
  BY Zenon DEF transition_obligation
<1>4. graph.obligations[o] \in Obligation
  BY <1>1 DEF IsGraph, IsMap
<1>5. item \in Obligation /\ item.status = status
      /\ item.depends_on = graph.obligations[o].depends_on
  <2>1. status \in Status /\ s \in SUBSET EvidenceId
    BY GraphAssumption
  <2>2. QED BY <1>4, <2>1 DEF Obligation
<1> HIDE DEF item
<1>6. IsMap(obs, ObligationId, Obligation) /\ ever \in SUBSET ObligationId
  BY <1>1, <1>5, UpdateMap DEF IsGraph
<1> HIDE DEF obs, ever
<1>0. IsGraph(m) /\ m.obligations = obs /\ m.progress = graph.progress
  BY <1>1, <1>6, ReplaceObligations, Zenon
<1> HIDE DEF m
<1>3. /\ IsGraph(g) /\ g.obligations = obs /\ g.ever = ever
      /\ g.progress = graph.progress
  <2>1. /\ IsGraph(g) /\ g.obligations = m.obligations /\ g.ever = ever
        /\ g.progress = m.progress
    BY <1>0, <1>6, ReplaceEver, Zenon
  <2>2. QED BY <1>0, <2>1, Zenon
<1> HIDE DEF g
<1>7. WindowsBounded(g)
  BY <1>1, <1>3 DEF WindowsBounded
<1>8. EverSound(g)
  <2>0. /\ g.ever = IF status = "SATISFIED" THEN graph.ever \cup {o} ELSE graph.ever
        /\ DOMAIN g.obligations = DOMAIN graph.obligations
        /\ \A x \in DOMAIN graph.obligations :
             g.obligations[x] = IF x = o THEN item ELSE graph.obligations[x]
    BY <1>3, <1>1 DEF IsGraph, IsMap, obs, ever
  <2>1. SatisfiedIn(g) \subseteq g.ever
    BY <1>1, <1>5, <2>0 DEF EverSound, SatisfiedIn
  <2>2. g.ever \subseteq DOMAIN g.obligations
    BY <1>1, <2>0 DEF EverSound
  <2>3. ASSUME NEW S \in SUBSET DOMAIN g.obligations, Deadlocked(g, S)
        PROVE  S \cap g.ever = {}
    <3>1. Deadlocked(graph, S) /\ S \cap graph.ever = {}
      BY <1>1, <1>5, <2>0, <2>3 DEF Deadlocked, EverSound
    <3>2. CASE status = "SATISFIED" /\ o \in S
      <4>1. PICK d \in graph.obligations[o].depends_on :
                   d \in S \/ d \notin DOMAIN graph.obligations
        BY <3>1, <3>2 DEF Deadlocked
      <4>2. d \in graph.ever /\ d \in DOMAIN graph.obligations
        BY <1>1, <3>2 DEF DependenciesMet, EverSound
      <4>3. QED BY <3>1, <4>1, <4>2
    <3>3. CASE ~(status = "SATISFIED" /\ o \in S)
      BY <2>0, <3>1, <3>3
    <3>4. QED BY <3>2, <3>3
  <2>4. QED BY <2>1, <2>2, <2>3 DEF EverSound
<1>9. QED BY <1>2, <1>3, <1>7, <1>8, ReturnInv DEF GraphInv

(* A new obligation is open.  A set deadlocked after it is added was        *)
(* deadlocked without it before: waiting for the newcomer was waiting for   *)
(* an obligation nobody had defined.                                        *)
LEMMA AddObligationInv ==
  ASSUME Inv, NEW n \in NewObligations, add_obligation(n)
  PROVE  Inv'
<1> DEFINE obs == Extend(graph.obligations, n.id, n.value)
           g == [graph EXCEPT !.obligations = obs]
<1>1. /\ IsGraph(graph) /\ WindowsBounded(graph) /\ EverSound(graph)
      /\ n.id \notin DOMAIN graph.obligations
      /\ Return(g)
  BY Zenon DEF Inv, GraphInv, add_obligation
<1>2. n.id \in ObligationId /\ n.value \in Obligation /\ n.value.status = "OPEN"
  BY GraphAssumption
<1>4. IsMap(obs, ObligationId, Obligation)
  BY <1>1, <1>2, ExtendMap DEF IsGraph
<1>3. /\ IsGraph(g) /\ g.obligations = obs /\ g.ever = graph.ever
      /\ g.progress = graph.progress
  BY <1>1, <1>4, ReplaceObligations
<1> HIDE DEF g
<1>5. WindowsBounded(g)
  BY <1>1, <1>3 DEF WindowsBounded
<1>6. EverSound(g)
  <2>1. /\ DOMAIN g.obligations = DOMAIN graph.obligations \cup {n.id}
        /\ g.obligations[n.id] = n.value
        /\ \A x \in DOMAIN graph.obligations : g.obligations[x] = graph.obligations[x]
    BY <1>1, <1>3 DEF Extend
  <2>2. SatisfiedIn(g) \subseteq g.ever /\ g.ever \subseteq DOMAIN g.obligations
    BY <1>1, <1>2, <1>3, <2>1 DEF EverSound, SatisfiedIn
  <2>3. ASSUME NEW S \in SUBSET DOMAIN g.obligations, Deadlocked(g, S)
        PROVE  S \cap g.ever = {}
    <3>1. S \ {n.id} \in SUBSET DOMAIN graph.obligations
      BY <2>1
    <3>2. Deadlocked(graph, S \ {n.id})
      BY <1>1, <2>1, <2>3 DEF Deadlocked
    <3>3. (S \ {n.id}) \cap graph.ever = {}
      BY <1>1, <3>1, <3>2 DEF EverSound
    <3>4. n.id \notin graph.ever
      BY <1>1 DEF EverSound
    <3>5. QED BY <1>3, <3>3, <3>4
  <2>4. QED BY <2>2, <2>3 DEF EverSound
<1>7. QED BY <1>1, <1>3, <1>5, <1>6, ReturnInv DEF GraphInv

(* Recording an invariant check preserves the invariant.                    *)
LEMMA VerifyInvariantInv ==
  ASSUME Inv, NEW i \in InvariantId, NEW passed \in BOOLEAN, verify_invariant(i, passed)
  PROVE  Inv'
<1> DEFINE v == [graph.invariants EXCEPT ![i] = IF passed THEN "ACTIVE" ELSE "VIOLATED"]
           g == [graph EXCEPT !.invariants = v]
<1>1. IsGraph(graph) /\ WindowsBounded(graph) /\ EverSound(graph)
  BY DEF Inv, GraphInv
<1>2. Return(g) /\ i \in DOMAIN graph.invariants
  BY Zenon DEF verify_invariant
<1>3. IsMap(v, InvariantId, {"ACTIVE", "VIOLATED"})
  BY <1>1, <1>2, UpdateMap DEF IsGraph
<1> HIDE DEF v
<1>4. /\ IsGraph(g) /\ g.obligations = graph.obligations /\ g.ever = graph.ever
      /\ g.progress = graph.progress
  BY <1>1, <1>3, ReplaceInvariants, Zenon
<1> HIDE DEF g
<1>5. WindowsBounded(g) /\ EverSound(g)
  BY <1>1, <1>4, EverFrame DEF WindowsBounded
<1>6. QED BY <1>2, <1>4, <1>5, ReturnInv DEF GraphInv

(* Adding evidence preserves the invariant.                                 *)
LEMMA AddEvidenceInv ==
  ASSUME Inv, NEW e \in EvidenceId, add_evidence(e)
  PROVE  Inv'
<1> DEFINE v == graph.evidence \cup {e}
           g == [graph EXCEPT !.evidence = v]
<1>1. IsGraph(graph) /\ WindowsBounded(graph) /\ EverSound(graph)
  BY DEF Inv, GraphInv
<1>2. Return(g)
  BY Zenon DEF add_evidence
<1>3. v \in SUBSET EvidenceId
  BY <1>1 DEF IsGraph
<1> HIDE DEF v
<1>4. /\ IsGraph(g) /\ g.obligations = graph.obligations /\ g.ever = graph.ever
      /\ g.progress = graph.progress
  BY <1>1, <1>3, ReplaceEvidence, Zenon
<1> HIDE DEF g
<1>5. WindowsBounded(g) /\ EverSound(g)
  BY <1>1, <1>4, EverFrame DEF WindowsBounded
<1>6. QED BY <1>2, <1>4, <1>5, ReturnInv DEF GraphInv

(* Adding a hypothesis preserves the invariant.                             *)
LEMMA AddHypothesisInv ==
  ASSUME Inv, NEW x \in HypothesisId, NEW active \in BOOLEAN,
         add_hypothesis(x, active)
  PROVE  Inv'
<1> DEFINE v == Extend(graph.hypotheses, x, active)
           g == [graph EXCEPT !.hypotheses = v]
<1>1. IsGraph(graph) /\ WindowsBounded(graph) /\ EverSound(graph)
  BY DEF Inv, GraphInv
<1>2. Return(g)
  BY Zenon DEF add_hypothesis
<1>3. IsMap(v, HypothesisId, BOOLEAN)
  BY <1>1, ExtendMap DEF IsGraph
<1> HIDE DEF v
<1>4. /\ IsGraph(g) /\ g.obligations = graph.obligations /\ g.ever = graph.ever
      /\ g.progress = graph.progress
  BY <1>1, <1>3, ReplaceHypotheses, Zenon
<1> HIDE DEF g
<1>5. WindowsBounded(g) /\ EverSound(g)
  BY <1>1, <1>4, EverFrame DEF WindowsBounded
<1>6. QED BY <1>2, <1>4, <1>5, ReturnInv DEF GraphInv

(* Changing the status of a frontier item preserves the invariant.          *)
LEMMA UpdateFrontierInv ==
  ASSUME Inv, NEW f \in FrontierId, NEW status \in FrontierInputs,
         update_frontier(f, status)
  PROVE  Inv'
<1> DEFINE v == [graph.frontier EXCEPT ![f] = status]
           g == [graph EXCEPT !.frontier = v]
<1>1. IsGraph(graph) /\ WindowsBounded(graph) /\ EverSound(graph)
  BY DEF Inv, GraphInv
<1>2. Return(g) /\ f \in DOMAIN graph.frontier
  BY Zenon DEF update_frontier
<1>3. IsMap(v, FrontierId, FrontierStatus)
  <2>1. status \in FrontierStatus
    BY GraphAssumption
  <2>2. QED BY <1>1, <1>2, <2>1, UpdateMap DEF IsGraph
<1> HIDE DEF v
<1>4. /\ IsGraph(g) /\ g.obligations = graph.obligations /\ g.ever = graph.ever
      /\ g.progress = graph.progress
  BY <1>1, <1>3, ReplaceFrontier, Zenon
<1> HIDE DEF g
<1>5. WindowsBounded(g) /\ EverSound(g)
  BY <1>1, <1>4, EverFrame DEF WindowsBounded
<1>6. QED BY <1>2, <1>4, <1>5, ReturnInv DEF GraphInv

(* Adding a frontier item preserves the invariant.                          *)
LEMMA ExpandFrontierInv ==
  ASSUME Inv, NEW f \in FrontierId, NEW status \in FrontierInputs,
         expand_frontier(f, status)
  PROVE  Inv'
<1> DEFINE v == Extend(graph.frontier, f, status)
           g == [graph EXCEPT !.frontier = v]
<1>1. IsGraph(graph) /\ WindowsBounded(graph) /\ EverSound(graph)
  BY DEF Inv, GraphInv
<1>2. Return(g)
  BY Zenon DEF expand_frontier
<1>3. IsMap(v, FrontierId, FrontierStatus)
  <2>1. status \in FrontierStatus
    BY GraphAssumption
  <2>2. QED BY <1>1, <2>1, ExtendMap DEF IsGraph
<1> HIDE DEF v
<1>4. /\ IsGraph(g) /\ g.obligations = graph.obligations /\ g.ever = graph.ever
      /\ g.progress = graph.progress
  BY <1>1, <1>3, ReplaceFrontier, Zenon
<1> HIDE DEF g
<1>5. WindowsBounded(g) /\ EverSound(g)
  BY <1>1, <1>4, EverFrame DEF WindowsBounded
<1>6. QED BY <1>2, <1>4, <1>5, ReturnInv DEF GraphInv

(* Marking a goal satisfied preserves the invariant.                        *)
LEMMA MarkGoalInv ==
  ASSUME Inv, NEW x \in GoalId, mark_goal_satisfied(x)
  PROVE  Inv'
<1> DEFINE v == [graph.goals EXCEPT ![x] = "SATISFIED"]
           g == [graph EXCEPT !.goals = v]
<1>1. IsGraph(graph) /\ WindowsBounded(graph) /\ EverSound(graph)
  BY DEF Inv, GraphInv
<1>2. Return(g) /\ x \in DOMAIN graph.goals
  BY Zenon DEF mark_goal_satisfied
<1>3. IsMap(v, GoalId, GoalStatus)
  <2>1. "SATISFIED" \in GoalStatus
    BY DEF GoalStatus
  <2>2. QED BY <1>1, <1>2, <2>1, UpdateMap DEF IsGraph
<1> HIDE DEF v
<1>4. /\ IsGraph(g) /\ g.obligations = graph.obligations /\ g.ever = graph.ever
      /\ g.progress = graph.progress
  BY <1>1, <1>3, ReplaceGoals, Zenon
<1> HIDE DEF g
<1>5. WindowsBounded(g) /\ EverSound(g)
  BY <1>1, <1>4, EverFrame DEF WindowsBounded
<1>6. QED BY <1>2, <1>4, <1>5, ReturnInv DEF GraphInv

----------------------------------------------------------------------------
(* record_progress                                                          *)

(* A record of counters, names and windows is a ProgressState.              *)
LEMMA ProgressRecord ==
  ASSUME NEW n1 \in Nat, NEW n2 \in Nat, NEW n3 \in Nat, NEW n4 \in Nat, NEW n5 \in Nat,
         NEW n6 \in Nat, NEW n7 \in Nat, NEW n8 \in Nat, NEW n9 \in Nat,
         NEW action \in ActionNames \cup {None}, NEW error \in ErrorNames \cup {None},
         NEW verdict \in VerifierState,
         NEW actions \in Seq(ActionNames), NEW errors \in Seq(ErrorNames)
  PROVE  [step_count |-> n1, obligations_completed |-> n2, evidence_added |-> n3,
          hypotheses_added |-> n4, frontier_expansions |-> n5, rollback_count |-> n6,
          stagnant_steps |-> n7, repeated_error_count |-> n8, repeated_action_count |-> n9,
          last_action |-> action, last_error_signature |-> error,
          verifier_state |-> verdict, recent_actions |-> actions,
          recent_error_signatures |-> errors] \in ProgressState
  BY DEF ProgressState

(* The updated counters are natural numbers, the windows keep their length. *)
LEMMA UpdatedProgressType ==
  ASSUME NEW b, GraphInv(b), NEW a, GraphInv(a), NEW action \in ActionNames,
         NEW error \in ErrorNames \cup {None}, NEW verifier \in VerifierState \cup {None},
         NEW rollback \in BOOLEAN
  PROVE  LET p == UpdatedProgress(b, a, action, error, verifier, rollback)
         IN /\ p \in ProgressState
            /\ Len(p.recent_actions) <= Window
            /\ Len(p.recent_error_signatures) <= Window
<1> DEFINE p == UpdatedProgress(b, a, action, error, verifier, rollback)
           q == b.progress
<1>1. /\ q \in ProgressState
      /\ Len(q.recent_error_signatures) <= Window
      /\ Window \in Nat \ {0}
  BY GraphAssumption DEF GraphInv, IsGraph, WindowsBounded
<1>2. /\ ObligationDelta(b, a) \in Nat /\ EvidenceDelta(b, a) \in Nat
      /\ HypothesisDelta(b, a) \in Nat /\ FrontierDelta(b, a) \in Nat
  BY GraphCounts, GainedCovers
     DEF GraphInv, ObligationDelta, EvidenceDelta, HypothesisDelta, FrontierDelta
<1>3. Stagnant(q, MaterialProgress(b, a)) \in Nat
  BY <1>1 DEF Stagnant, ProgressState
<1>4. /\ Recent(q.recent_actions, action) \in Seq(ActionNames)
      /\ Len(Recent(q.recent_actions, action)) <= Window
  <2>1. Append(q.recent_actions, action) \in Seq(ActionNames)
    BY <1>1 DEF ProgressState
  <2>2. QED BY <1>1, <2>1, LastNType DEF Recent
<1>5. error # None =>
        /\ Recent(q.recent_error_signatures, error) \in Seq(ErrorNames)
        /\ Len(Recent(q.recent_error_signatures, error)) <= Window
  <2>1. error # None => Append(q.recent_error_signatures, error) \in Seq(ErrorNames)
    BY <1>1 DEF ProgressState
  <2>2. QED BY <1>1, <2>1, LastNType DEF Recent
<1>6. /\ p.recent_actions = Recent(q.recent_actions, action)
      /\ p.recent_error_signatures =
           IF error = None THEN q.recent_error_signatures
                           ELSE Recent(q.recent_error_signatures, error)
  BY DEF UpdatedProgress, PriorOf
<1>7. p \in ProgressState
  <2>1. /\ q.step_count \in Nat /\ q.obligations_completed \in Nat
        /\ q.evidence_added \in Nat /\ q.hypotheses_added \in Nat
        /\ q.frontier_expansions \in Nat /\ q.rollback_count \in Nat
        /\ q.repeated_error_count \in Nat /\ q.repeated_action_count \in Nat
        /\ q.verifier_state \in VerifierState
        /\ q.recent_error_signatures \in Seq(ErrorNames)
    BY <1>1 DEF ProgressState
  <2>2. (IF verifier = None THEN q.verifier_state ELSE verifier) \in VerifierState
    BY <2>1
  <2>3. (IF error = None THEN q.recent_error_signatures
                         ELSE Recent(q.recent_error_signatures, error)) \in Seq(ErrorNames)
    BY <1>5, <2>1
  <2>4. \A c \in BOOLEAN : (IF c THEN 1 ELSE 0) \in Nat
    OBVIOUS
  <2> DEFINE again == IF q.last_action = action THEN 1 ELSE 0
             failed == IF error # None /\ q.last_error_signature = error THEN 1 ELSE 0
             back == IF rollback THEN 1 ELSE 0
             verdict == IF verifier = None THEN q.verifier_state ELSE verifier
             errors == IF error = None THEN q.recent_error_signatures
                                       ELSE Recent(q.recent_error_signatures, error)
  <2>5. p = [step_count |-> q.step_count + 1,
             obligations_completed |-> q.obligations_completed + ObligationDelta(b, a),
             evidence_added |-> q.evidence_added + EvidenceDelta(b, a),
             hypotheses_added |-> q.hypotheses_added + HypothesisDelta(b, a),
             frontier_expansions |-> q.frontier_expansions + FrontierDelta(b, a),
             rollback_count |-> q.rollback_count + back,
             stagnant_steps |-> Stagnant(q, MaterialProgress(b, a)),
             repeated_error_count |-> q.repeated_error_count + failed,
             repeated_action_count |-> q.repeated_action_count + again,
             last_action |-> action, last_error_signature |-> error,
             verifier_state |-> verdict,
             recent_actions |-> Recent(q.recent_actions, action),
             recent_error_signatures |-> errors]
    BY Zenon DEF UpdatedProgress, PriorOf
  <2>6. /\ again \in Nat /\ failed \in Nat /\ back \in Nat
        /\ verdict \in VerifierState /\ errors \in Seq(ErrorNames)
    BY <2>2, <2>3, <2>4
  <2>7. /\ q.step_count + 1 \in Nat
        /\ q.obligations_completed + ObligationDelta(b, a) \in Nat
        /\ q.evidence_added + EvidenceDelta(b, a) \in Nat
        /\ q.hypotheses_added + HypothesisDelta(b, a) \in Nat
        /\ q.frontier_expansions + FrontierDelta(b, a) \in Nat
        /\ q.rollback_count + back \in Nat
        /\ q.repeated_error_count + failed \in Nat
        /\ q.repeated_action_count + again \in Nat
    <3>1. \A m, n \in Nat : m + n \in Nat /\ 1 \in Nat
      OBVIOUS
    <3> HIDE DEF p, q, again, failed, back, verdict, errors
    <3>2. QED BY <1>2, <2>1, <2>6, <3>1, Zenon
  <2>8. action \in ActionNames \cup {None}
    OBVIOUS
  <2> HIDE DEF p, q, again, failed, back, verdict, errors
  <2>9. QED BY <1>3, <1>4, <2>5, <2>6, <2>7, <2>8, ProgressRecord, Zenon
<1>8. QED BY <1>1, <1>4, <1>5, <1>6, <1>7

(* Recording a graph of the task preserves the invariant.                   *)
LEMMA RecordInv ==
  ASSUME Inv, NEW a, GraphInv(a), NEW action \in ActionNames,
         NEW error \in ErrorNames \cup {None}, NEW verifier \in VerifierState \cup {None},
         NEW rollback \in BOOLEAN, record_progress(a, action, error, verifier, rollback),
         kept' \in {kept, graph'}
  PROVE  Inv'
<1> DEFINE p == UpdatedProgress(before, a, action, error, verifier, rollback)
           g == [a EXCEPT !.progress = p]
<1>1. /\ graph' = g /\ before' = g /\ operations' = 0
      /\ trail' = LastN(Append(trail, MaterialProgress(before, a)), StagnationLimit)
  BY Zenon DEF record_progress
<1>2. GraphInv(before) /\ GraphInv(kept) /\ trail \in Seq(BOOLEAN)
  BY DEF Inv
<1>3. /\ p \in ProgressState
      /\ Len(p.recent_actions) <= Window
      /\ Len(p.recent_error_signatures) <= Window
  BY <1>2, UpdatedProgressType, Zenon
<1> HIDE DEF p
<1>4. IsGraph(a) /\ EverSound(a)
  BY DEF GraphInv
<1>5. /\ IsGraph(g) /\ g.progress = p
      /\ g.obligations = a.obligations /\ g.ever = a.ever
  BY <1>3, <1>4, ReplaceProgress, Zenon
<1> HIDE DEF g
<1>6. GraphInv(g)
  BY <1>3, <1>4, <1>5, EverFrame DEF GraphInv, WindowsBounded
<1>7. trail' \in Seq(BOOLEAN)
  <2>1. MaterialProgress(before, a) \in BOOLEAN
    BY DEF MaterialProgress
  <2>2. Append(trail, MaterialProgress(before, a)) \in Seq(BOOLEAN)
    BY <1>2, <2>1
  <2>3. QED BY <1>1, <2>2, LastNType, GraphAssumption
<1>8. GraphInv(graph') /\ GraphInv(before') /\ GraphInv(kept')
  BY <1>1, <1>2, <1>6
<1>9. operations' \in 0 .. MaxOperations
  BY <1>1, GraphAssumption
<1>10. QED BY <1>7, <1>8, <1>9 DEF Inv, GraphInv, IsGraph, IsMap, WindowsBounded,
                            EverSound, SatisfiedIn, Deadlocked

----------------------------------------------------------------------------
(* The theorems                                                             *)

(* Every step preserves the invariant.                                      *)
LEMMA NextInv == Inv /\ [Next]_vars => Inv'
<1> SUFFICES ASSUME Inv, [Next]_vars PROVE Inv'
  OBVIOUS
<1>1. CASE Operate
  BY <1>1, TransitionInv, AddObligationInv, VerifyInvariantInv, AddEvidenceInv,
     AddHypothesisInv, UpdateFrontierInv, ExpandFrontierInv, MarkGoalInv, Zenon DEF Operate
<1>2. CASE RecordStep
  <2>1. PICK action \in ActionNames, error \in ErrorNames \cup {None},
             verifier \in VerifierInputs :
          /\ record_progress(graph, action, error, verifier, FALSE)
          /\ kept' \in {kept, graph'}
    BY <1>2, Zenon DEF RecordStep
  <2>2. verifier \in VerifierState \cup {None} /\ FALSE \in BOOLEAN /\ GraphInv(graph)
    BY GraphAssumption DEF Inv
  <2>3. QED BY <2>1, <2>2, RecordInv, Zenon
<1>3. CASE Rollback
  <2>1. PICK action \in ActionNames : record_progress(kept, action, None, None, TRUE)
    BY <1>3, Zenon DEF Rollback
  <2>2. kept' \in {kept, graph'}
    BY <1>3, Zenon DEF Rollback
  <2>3. /\ None \in VerifierState \cup {None} /\ None \in ErrorNames \cup {None}
        /\ TRUE \in BOOLEAN /\ GraphInv(kept)
    BY DEF Inv
  <2>4. QED BY <2>1, <2>2, <2>3, RecordInv, Zenon
<1>4. CASE UNCHANGED vars
  BY <1>4 DEF vars, Inv, GraphInv, IsGraph, IsMap, WindowsBounded,
              EverSound, SatisfiedIn, Deadlocked
<1>5. QED BY <1>1, <1>2, <1>3, <1>4 DEF Next

(* The inductive invariant holds of every reachable state.                  *)
THEOREM GraphInvariant == Spec => []Inv
<1>1. QED BY InitInv, NextInv, PTL DEF Spec

(* Graphs stay well typed and their progress windows bounded, whatever the  *)
(* callers of the operations pass in (cognitive/models.py).                 *)
THEOREM TypeCorrect == Spec => []TypeOK
<1>1. Inv => TypeOK
  BY DEF Inv, GraphInv, TypeOK
<1>2. QED BY <1>1, GraphInvariant, PTL

(* Obligations that wait for each other or for an undefined one are never   *)
(* satisfied and keep the halt gate shut, for every graph, in every order   *)
(* of additions, reopenings and rollbacks (transition_obligation,           *)
(* add_obligation, can_halt_success).                                       *)
THEOREM DeadlockBlocksHalt == Spec => []DeadlockedNeverSatisfied
<1>1. Inv => DeadlockedNeverSatisfied
  BY DEF Inv, GraphInv, EverSound, DeadlockedNeverSatisfied, Mandatory,
         can_halt_success, MandatorySatisfied
<1>2. QED BY <1>1, GraphInvariant, PTL

(* What a graph holds and what was counted, as numbers.                     *)
LEMMA CountsAreNumbers ==
  ASSUME NEW g, IsGraph(g), NEW k \in 1 .. 4
  PROVE  Holdings(g)[k] \in Nat /\ Counted(g.progress)[k] \in Nat
<1>1. /\ g.progress.obligations_completed \in Nat /\ g.progress.evidence_added \in Nat
      /\ g.progress.hypotheses_added \in Nat /\ g.progress.frontier_expansions \in Nat
  BY DEF IsGraph, ProgressState
<1>2. Counted(g.progress)[k] \in Nat
  BY <1>1 DEF Counted
<1>3. Holdings(g)[k] \in Nat
  BY GraphCounts DEF Holdings
<1>4. QED BY <1>2, <1>3

Deltas(b, a) ==
  <<ObligationDelta(b, a), EvidenceDelta(b, a), HypothesisDelta(b, a), FrontierDelta(b, a)>>

(* A delta is never negative, and closes the gap to what is held now.       *)
LEMMA DeltasClose ==
  ASSUME NEW b, IsGraph(b), NEW a, IsGraph(a), NEW k \in 1 .. 4
  PROVE  Deltas(b, a)[k] \in Nat /\ Holdings(a)[k] <= Holdings(b)[k] + Deltas(b, a)[k]
<1>1. Holdings(b)[k] \in Nat /\ Holdings(a)[k] \in Nat
  BY CountsAreNumbers
<1>2. Deltas(b, a)[k] = Gained(Holdings(b)[k], Holdings(a)[k])
  BY DEF Deltas, Holdings, ObligationDelta, EvidenceDelta, HypothesisDelta, FrontierDelta
<1>3. QED BY <1>1, <1>2, GainedCovers

(* One record adds to the counters what the recorded graph has more than    *)
(* the one before and takes nothing away for what it has less, so they go   *)
(* on covering every graph they covered and cover the recorded one.         *)
LEMMA RecordCovers ==
  ASSUME Inv, NEW a, GraphInv(a),
         NEW action \in ActionNames, NEW error \in ErrorNames \cup {None},
         NEW verifier \in VerifierState \cup {None}, NEW rollback \in BOOLEAN,
         record_progress(a, action, error, verifier, rollback),
         kept' \in {kept, graph'}
  PROVE  /\ before'.progress.step_count = before.progress.step_count + 1
         /\ \A k \in 1 .. 4 : Counted(before.progress)[k] <= Counted(before'.progress)[k]
         /\ \A g \in InitialGraphs :
              Covers(before.progress, g, before) /\ Covers(before.progress, g, kept) =>
                Covers(before'.progress, g, before') /\ Covers(before'.progress, g, kept')
<1> DEFINE p == UpdatedProgress(before, a, action, error, verifier, rollback)
           q == before.progress
           h == [a EXCEPT !.progress = p]
<1>1. before' = h /\ graph' = h
  BY Zenon DEF record_progress
<1>2. GraphInv(before) /\ IsGraph(before) /\ IsGraph(a) /\ IsGraph(kept)
  BY DEF Inv, GraphInv
<1>3. /\ p.step_count = q.step_count + 1
      /\ p.obligations_completed = q.obligations_completed + ObligationDelta(before, a)
      /\ p.evidence_added = q.evidence_added + EvidenceDelta(before, a)
      /\ p.hypotheses_added = q.hypotheses_added + HypothesisDelta(before, a)
      /\ p.frontier_expansions = q.frontier_expansions + FrontierDelta(before, a)
  BY DEF UpdatedProgress, PriorOf
<1>4. p \in ProgressState
  BY <1>2, UpdatedProgressType, Zenon
<1> HIDE DEF p
<1>5. /\ h.progress = p /\ h.obligations = a.obligations /\ h.evidence = a.evidence
  BY <1>2, <1>4, ReplaceProgress, Zenon
<1>5a. h.hypotheses = a.hypotheses /\ h.frontier = a.frontier
  BY <1>2, ProgressFrame, Zenon
<1> HIDE DEF h
<1>6. Holdings(h) = Holdings(a)
  BY <1>5, <1>5a DEF SatisfiedIn, Holdings
<1>7. \A k \in 1 .. 4 : /\ Deltas(before, a)[k] \in Nat /\ Counted(q)[k] \in Nat
                        /\ Counted(p)[k] = Counted(q)[k] + Deltas(before, a)[k]
  <2> SUFFICES ASSUME NEW k \in 1 .. 4
               PROVE  /\ Deltas(before, a)[k] \in Nat /\ Counted(q)[k] \in Nat
                      /\ Counted(p)[k] = Counted(q)[k] + Deltas(before, a)[k]
    OBVIOUS
  <2>1. k = 1 \/ k = 2 \/ k = 3 \/ k = 4
    OBVIOUS
  <2>2. Counted(p)[k] = Counted(q)[k] + Deltas(before, a)[k]
    BY <1>3, <2>1 DEF Counted, Deltas
  <2>3. QED BY <1>2, <2>2, DeltasClose, CountsAreNumbers
<1>8. \A k \in 1 .. 4 : Counted(q)[k] <= Counted(p)[k]
  BY <1>7
<1>9. ASSUME NEW g \in InitialGraphs, Covers(q, g, before), Covers(q, g, kept)
      PROVE  Covers(p, g, before') /\ Covers(p, g, kept')
  <2>1. IsGraph(g)
    BY GraphAssumption
  <2>2. ASSUME NEW k \in 1 .. 4
        PROVE  /\ Holdings(h)[k] <= Holdings(g)[k] + Counted(p)[k]
               /\ Holdings(kept)[k] <= Holdings(g)[k] + Counted(p)[k]
    <3> DEFINE d == Deltas(before, a)[k]
    <3>1. /\ Holdings(a)[k] <= Holdings(before)[k] + d
          /\ Holdings(a)[k] \in Nat /\ Holdings(before)[k] \in Nat
          /\ Holdings(kept)[k] \in Nat /\ Holdings(g)[k] \in Nat
      BY <1>2, <2>1, DeltasClose, CountsAreNumbers
    <3>2. /\ Holdings(before)[k] <= Holdings(g)[k] + Counted(q)[k]
          /\ Holdings(kept)[k] <= Holdings(g)[k] + Counted(q)[k]
      BY <1>9 DEF Covers
    <3>3. d \in Nat /\ Counted(q)[k] \in Nat /\ Counted(p)[k] = Counted(q)[k] + d
      BY <1>7
    <3> HIDE DEF d
    <3>4. QED BY <1>6, <3>1, <3>2, <3>3
  <2>3. Covers(p, g, h) /\ Covers(p, g, kept)
    BY <2>2 DEF Covers
  <2>4. QED BY <1>1, <2>3
<1>10. QED BY <1>1, <1>3, <1>5, <1>8, <1>9

(* Either nothing is recorded or one graph of the task is.                  *)
LEMMA RecordedOrNot ==
  ASSUME Inv, [Next]_vars
  PROVE  \/ before' = before /\ kept' = kept
         \/ \E a \in {graph, kept}, action \in ActionNames, error \in ErrorNames \cup {None},
               verifier \in VerifierState \cup {None}, rollback \in BOOLEAN :
              /\ GraphInv(a) /\ record_progress(a, action, error, verifier, rollback)
              /\ kept' \in {kept, graph'}
<1>1. CASE RecordStep
  <2>1. PICK action \in ActionNames, error \in ErrorNames \cup {None},
             verifier \in VerifierInputs :
          /\ record_progress(graph, action, error, verifier, FALSE)
          /\ kept' \in {kept, graph'}
    BY <1>1, Zenon DEF RecordStep
  <2>2. verifier \in VerifierState \cup {None} /\ FALSE \in BOOLEAN /\ GraphInv(graph)
    BY GraphAssumption DEF Inv
  <2>3. QED BY <2>1, <2>2, Zenon
<1>2. CASE Rollback
  <2>1. PICK action \in ActionNames : record_progress(kept, action, None, None, TRUE)
    BY <1>2, Zenon DEF Rollback
  <2>2. kept' \in {kept, graph'}
    BY <1>2, Zenon DEF Rollback
  <2>3. /\ None \in VerifierState \cup {None} /\ None \in ErrorNames \cup {None}
        /\ TRUE \in BOOLEAN /\ GraphInv(kept)
    BY DEF Inv
  <2>4. QED BY <2>1, <2>2, <2>3, Zenon
<1>3. CASE Operate
  <2>1. before' = before /\ kept' = kept
    BY <1>3, Zenon DEF Operate, Return, transition_obligation, add_obligation,
       verify_invariant, add_evidence, add_hypothesis, update_frontier,
       expand_frontier, mark_goal_satisfied
  <2>2. QED BY <2>1
<1>4. CASE UNCHANGED vars
  BY <1>4 DEF vars
<1>5. QED BY <1>1, <1>2, <1>3, <1>4 DEF Next

(* The progress counters never under-report what any recorded graph the     *)
(* caller may return to holds, whatever was reopened or rolled back         *)
(* (record_progress).                                                       *)
THEOREM ProgressCovered == Spec => []ProgressCoversGraph
<1>1. Init => ProgressCoversGraph
  <2> SUFFICES ASSUME Init PROVE ProgressCoversGraph
    OBVIOUS
  <2>1. before \in InitialGraphs /\ kept = before
    BY DEF Init
  <2>2. IsGraph(before)
    BY <2>1, GraphAssumption
  <2>3. \A k \in 1 .. 4 : Holdings(before)[k] \in Nat /\ Counted(before.progress)[k] \in Nat
    BY <2>2, CountsAreNumbers
  <2>4. Covers(before.progress, before, before)
    BY <2>3 DEF Covers
  <2>5. QED BY <2>1, <2>4 DEF ProgressCoversGraph
<1>2. Inv /\ ProgressCoversGraph /\ [Next]_vars => ProgressCoversGraph'
  <2> SUFFICES ASSUME Inv, ProgressCoversGraph, [Next]_vars PROVE ProgressCoversGraph'
    OBVIOUS
  <2>1. PICK g \in InitialGraphs :
          Covers(before.progress, g, before) /\ Covers(before.progress, g, kept)
    BY DEF ProgressCoversGraph
  <2>2. Covers(before'.progress, g, before') /\ Covers(before'.progress, g, kept')
    BY <2>1, RecordedOrNot, RecordCovers, Zenon
  <2>3. QED BY <2>2 DEF ProgressCoversGraph
<1>3. QED BY <1>1, <1>2, GraphInvariant, PTL DEF Spec

(* No counter ever falls, and each record is one more step, also when a     *)
(* rollback makes a graph current whose own counters are behind             *)
(* (record_progress takes the progress of the graph before).                *)
THEOREM CountersHoldOnRollback == Spec => CountersNeverFall
<1> DEFINE Kept ==
      before' # before =>
        /\ before'.progress.step_count = before.progress.step_count + 1
        /\ \A k \in 1 .. 4 : Counted(before.progress)[k] <= Counted(before'.progress)[k]
<1>1. ASSUME Inv, [Next]_vars PROVE Kept
  BY <1>1, RecordedOrNot, RecordCovers, Zenon
<1>2. Inv /\ [Next]_vars => [Kept]_vars
  BY <1>1
<1> HIDE DEF Kept
<1>3. Spec => [][Kept]_vars
  BY <1>2, GraphInvariant, PTL DEF Spec
<1>4. QED BY <1>3 DEF CountersNeverFall, Kept

----------------------------------------------------------------------------
(* Stagnation                                                               *)

(* The suffix of a sequence keeps the distance of its elements to the end.  *)
LEMMA LastNSuffix ==
  ASSUME NEW T, NEW s \in Seq(T), NEW n \in Nat \ {0}
  PROVE  LET w == LastN(s, n)
             d == Len(s) - Len(w)
         IN /\ w \in Seq(T) /\ Len(w) \in Nat /\ Len(s) \in Nat /\ d \in Nat
            /\ Len(w) = IF Len(s) <= n THEN Len(s) ELSE n
            /\ \A i \in 1 .. Len(w) : i + d \in 1 .. Len(s) /\ w[i] = s[i + d]
<1>1. CASE Len(s) <= n
  BY <1>1 DEF LastN
<1>2. CASE Len(s) > n
  <2>1. /\ LastN(s, n) = SubSeq(s, Len(s) - n + 1, Len(s))
        /\ Len(s) - n + 1 \in 1 .. Len(s)
    BY <1>2 DEF LastN
  <2>2. /\ LastN(s, n) \in Seq(T) /\ Len(LastN(s, n)) = n
        /\ \A i \in 1 .. n : LastN(s, n)[i] = s[i + (Len(s) - n)]
    BY <2>1, <1>2
  <2>3. QED BY <1>2, <2>2
<1>3. QED BY <1>1, <1>2

(* The count of stagnant steps is the distance of the end of the trail from *)
(* its last material record, or covers the whole of a full trail.           *)
StagnationInv(k, w) ==
  /\ Len(w) <= StagnationLimit
  /\ \A i \in 1 .. Len(w) : i > Len(w) - k => ~w[i]
  /\ k < Len(w) => w[Len(w) - k]
  /\ Len(w) < StagnationLimit => k <= Len(w)

(* One more record keeps them so.                                           *)
LEMMA StagnationStep ==
  ASSUME NEW k \in Nat, NEW w \in Seq(BOOLEAN), StagnationInv(k, w), NEW m \in BOOLEAN
  PROVE  StagnationInv(IF m THEN 0 ELSE k + 1, LastN(Append(w, m), StagnationLimit))
<1> DEFINE a == Append(w, m)
           v == LastN(a, StagnationLimit)
           n == Len(w)
           d == Len(a) - Len(v)
           j == IF m THEN 0 ELSE k + 1
<1>1. /\ StagnationLimit \in Nat \ {0} /\ n \in Nat
      /\ a \in Seq(BOOLEAN) /\ Len(a) = n + 1 /\ a[n + 1] = m
      /\ \A i \in 1 .. n : a[i] = w[i]
  BY GraphAssumption
<1> HIDE DEF a
<1>2. /\ Len(v) \in Nat /\ d \in Nat
      /\ Len(v) = IF Len(a) <= StagnationLimit THEN Len(a) ELSE StagnationLimit
      /\ \A i \in 1 .. Len(v) : i + d \in 1 .. Len(a) /\ v[i] = a[i + d]
  BY <1>1, LastNSuffix, Zenon
<1> HIDE DEF v
<1>3. /\ n <= StagnationLimit /\ Len(v) = n + 1 - d /\ Len(v) \in 1 .. Len(v)
      /\ Len(v) < StagnationLimit => d = 0 /\ n < StagnationLimit
      /\ Len(v) + d = n + 1
  BY <1>1, <1>2 DEF StagnationInv
<1>4. ASSUME NEW i \in 1 .. Len(v), i > Len(v) - j PROVE ~v[i]
  <2>1. ~m /\ j = k + 1
    <3>1. CASE m
      BY <1>2, <1>4, <3>1
    <3>2. QED BY <3>1
  <2>a. i + d \in 1 .. Len(a) /\ v[i] = a[i + d]
    BY <1>2
  <2>b. i + d > n - k
    <3>1. i \in Int /\ i > Len(v) - (k + 1) /\ Len(v) = (n + 1) - d
      BY <1>1, <1>2, <1>3, <1>4, <2>1
    <3>2. \A x, y, z \in Int : x > (y + 1 - z) - (k + 1) => x + z > y - k
      OBVIOUS
    <3>3. n \in Int /\ d \in Int
      BY <1>1, <1>2
    <3> HIDE DEF n, d
    <3>4. QED BY <3>1, <3>2, <3>3, SMT
  <2>2. i + d \in 1 .. n + 1 /\ v[i] = a[i + d] /\ i + d > n - k
    BY <1>1, <2>a, <2>b
  <2>3. CASE i + d = n + 1
    BY <1>1, <2>1, <2>2, <2>3
  <2>4. CASE i + d # n + 1
    <3>1. i + d \in 1 .. n
      BY <1>1, <2>2, <2>4
    <3>2. QED BY <1>1, <2>2, <3>1 DEF StagnationInv
  <2>5. QED BY <2>3, <2>4
<1>5. ASSUME j < Len(v) PROVE v[Len(v) - j]
  <2>1. CASE m
    <3>1. v[Len(v)] = a[Len(v) + d]
      BY <1>2, <1>3, Zenon
    <3>2. j = 0 /\ Len(v) - 0 = Len(v)
      BY <1>2, <2>1
    <3> HIDE DEF n, d, j
    <3>3. QED BY <1>1, <1>3, <2>1, <3>1, <3>2
  <2>2. CASE ~m
    <3>a. j = k + 1
      BY <2>2
    <3>b. \A x, y, z \in Nat : x + z = y + 1 /\ k + 1 < x =>
            /\ x - (k + 1) \in 1 .. x /\ (x - (k + 1)) + z = y - k
            /\ y - k \in 1 .. y /\ k < y
      OBVIOUS
    <3>c. Len(v) \in Nat /\ d \in Nat /\ n \in Nat /\ Len(v) + d = n + 1 /\ k + 1 < Len(v)
      BY <1>1, <1>2, <1>3, <1>5, <3>a, Zenon
    <3>d. /\ Len(v) - (k + 1) \in 1 .. Len(v) /\ (Len(v) - (k + 1)) + d = n - k
          /\ n - k \in 1 .. n /\ k < n
      BY <3>b, <3>c, Zenon
    <3>1. Len(v) - j \in 1 .. Len(v) /\ (Len(v) - j) + d = n - k /\ n - k \in 1 .. n /\ k < n
      BY <3>a, <3>d, Zenon
    <3>2. v[Len(v) - j] = a[n - k] /\ a[n - k] = w[n - k]
      BY <1>1, <1>2, <3>1
    <3>3. QED BY <3>1, <3>2 DEF StagnationInv
  <2>3. QED BY <2>1, <2>2
<1>6. Len(v) <= StagnationLimit /\ (Len(v) < StagnationLimit => j <= Len(v))
  BY <1>1, <1>2, <1>3 DEF StagnationInv
<1> HIDE DEF j
<1>7. QED BY <1>4, <1>5, <1>6 DEF StagnationInv, v, a, j

----------------------------------------------------------------------------
(* Repeats                                                                  *)

RepeatPlaces(s) == {i \in 1 .. Len(s) - 1 : s[i] = s[i + 1]}

(* The repeats of a sequence are a number of its places.                    *)
LEMMA RepeatsFinite ==
  ASSUME NEW T, NEW s \in Seq(T)
  PROVE  IsFiniteSet(RepeatPlaces(s)) /\ RepeatsIn(s) \in Nat
         /\ RepeatsIn(s) = Cardinality(RepeatPlaces(s))
<1>1. RepeatPlaces(s) \subseteq 1 .. Len(s) /\ IsFiniteSet(1 .. Len(s))
  BY FS_Interval DEF RepeatPlaces
<1>2. IsFiniteSet(RepeatPlaces(s))
  BY <1>1, FS_Subset
<1>3. QED BY <1>2, FS_CardinalityType DEF RepeatsIn, RepeatPlaces

(* One more element repeats the last one or does not.                       *)
LEMMA RepeatsAppended ==
  ASSUME NEW T, NEW s \in Seq(T), NEW x \in T
  PROVE  RepeatsIn(Append(s, x)) =
           RepeatsIn(s) + (IF Len(s) > 0 /\ s[Len(s)] = x THEN 1 ELSE 0)
<1> DEFINE a == Append(s, x)
           n == Len(s)
<1>1. /\ n \in Nat /\ a \in Seq(T) /\ Len(a) = n + 1 /\ a[n + 1] = x
      /\ \A i \in 1 .. n : a[i] = s[i]
  OBVIOUS
<1> HIDE DEF a
<1>2. RepeatPlaces(a) = RepeatPlaces(s) \cup (IF n > 0 /\ s[n] = x THEN {n} ELSE {})
  <2>1. \A i \in 1 .. n - 1 : (a[i] = a[i + 1]) = (s[i] = s[i + 1])
    BY <1>1
  <2>2. n > 0 => (a[n] = a[n + 1]) = (s[n] = x)
    BY <1>1
  <2>3. \A i : i \in RepeatPlaces(a) <=>
                \/ i \in 1 .. n - 1 /\ a[i] = a[i + 1]
                \/ n > 0 /\ i = n /\ a[n] = a[n + 1]
    BY <1>1 DEF RepeatPlaces
  <2>4. QED BY <2>1, <2>2, <2>3 DEF RepeatPlaces
<1>3. n \notin RepeatPlaces(s)
  BY <1>1 DEF RepeatPlaces
<1>4. /\ IsFiniteSet(RepeatPlaces(s)) /\ RepeatsIn(s) \in Nat
      /\ RepeatsIn(s) = Cardinality(RepeatPlaces(s))
      /\ RepeatsIn(a) = Cardinality(RepeatPlaces(a))
  BY <1>1, RepeatsFinite
<1>5. CASE n > 0 /\ s[n] = x
  <2>1. RepeatPlaces(a) = RepeatPlaces(s) \cup {n}
    BY <1>2, <1>5
  <2>2. RepeatsIn(a) = RepeatsIn(s) + 1
    BY <1>3, <1>4, <2>1, FS_AddElement
  <2>3. RepeatsIn(a) =
          RepeatsIn(s) + (IF n > 0 /\ s[n] = x THEN 1 ELSE 0)
    BY <1>5, <2>2, Zenon
  <2>4. QED BY <2>3 DEF a
<1>6. CASE ~(n > 0 /\ s[n] = x)
  <2>1. RepeatPlaces(a) = RepeatPlaces(s)
    BY <1>2, <1>6
  <2>2. RepeatsIn(a) = RepeatsIn(s) + 0
    BY <1>4, <2>1
  <2>3. (IF n > 0 /\ s[n] = x THEN 1 ELSE 0) = 0
    BY <1>6
  <2>4. RepeatsIn(a) =
          RepeatsIn(s) + (IF n > 0 /\ s[n] = x THEN 1 ELSE 0)
    BY <2>2, <2>3, Zenon
  <2>5. QED BY <2>4 DEF a
<1>7. QED BY <1>5, <1>6

(* A suffix has no more repeats.                                            *)
LEMMA RepeatsOfSuffix ==
  ASSUME NEW T, NEW s \in Seq(T), NEW n \in Nat \ {0}
  PROVE  RepeatsIn(LastN(s, n)) <= RepeatsIn(s)
<1> DEFINE w == LastN(s, n)
           d == Len(s) - Len(w)
           f == [i \in RepeatPlaces(w) |-> i + d]
<1>1. /\ w \in Seq(T) /\ Len(w) \in Nat /\ d \in Nat /\ Len(s) \in Nat
      /\ \A i \in 1 .. Len(w) : i + d \in 1 .. Len(s) /\ w[i] = s[i + d]
  BY LastNSuffix, Zenon
<1> HIDE DEF w
<1>2. ASSUME NEW i \in RepeatPlaces(w) PROVE i + d \in RepeatPlaces(s)
  <2>1. i \in 1 .. Len(w) - 1 /\ i \in 1 .. Len(w) /\ i + 1 \in 1 .. Len(w) /\ w[i] = w[i + 1]
    BY <1>1, <1>2 DEF RepeatPlaces
  <2>2. /\ w[i] = s[i + d] /\ w[i + 1] = s[(i + 1) + d]
        /\ i + d \in 1 .. Len(s) /\ (i + 1) + d \in 1 .. Len(s)
    BY <1>1, <2>1
  <2>3. (i + 1) + d = (i + d) + 1 /\ i + d \in 1 .. Len(s) - 1
    BY <1>1, <2>1, <2>2
  <2>4. QED BY <2>1, <2>2, <2>3 DEF RepeatPlaces
<1>3. f \in Injection(RepeatPlaces(w), RepeatPlaces(s))
  <2>1. f \in [RepeatPlaces(w) -> RepeatPlaces(s)]
    BY <1>2
  <2>2. \A i, j \in RepeatPlaces(w) : f[i] = f[j] => i = j
    BY <1>1 DEF RepeatPlaces
  <2> HIDE DEF f
  <2>3. QED BY <2>1, <2>2 DEF Injection, IsInjective
<1>4. /\ IsFiniteSet(RepeatPlaces(s))
      /\ RepeatsIn(s) = Cardinality(RepeatPlaces(s)) /\ RepeatsIn(w) = Cardinality(RepeatPlaces(w))
  BY <1>1, RepeatsFinite
<1>5. QED BY <1>3, <1>4, FS_Injection DEF w

(* What the progress of a graph says of its windows; a window never holds   *)
(* more actions than there were steps.                                      *)
WindowsInv(p) ==
  /\ (p.last_action = None) = (Len(p.recent_actions) = 0)
  /\ Len(p.recent_actions) > 0 => p.recent_actions[Len(p.recent_actions)] = p.last_action
  /\ p.last_error_signature # None =>
       p.recent_error_signatures[Len(p.recent_error_signatures)] = p.last_error_signature
  /\ Len(p.recent_actions) <= p.step_count
  /\ RepeatsIn(p.recent_actions) <= p.repeated_action_count
  /\ p.step_count = Len(p.recent_actions) =>
       RepeatsIn(p.recent_actions) = p.repeated_action_count

AccountingInv ==
  /\ graph.progress = before.progress
  /\ StagnationInv(before.progress.stagnant_steps, trail)
  /\ WindowsInv(before.progress)

(* The last element of a bounded window is the one just recorded.           *)
LEMMA RecentEnds ==
  ASSUME NEW T, NEW s \in Seq(T), NEW x \in T
  PROVE  /\ Len(Recent(s, x)) \in Nat /\ Len(Recent(s, x)) > 0
         /\ Recent(s, x)[Len(Recent(s, x))] = x
         /\ Len(Recent(s, x)) <= Len(s) + 1
         /\ Len(Recent(s, x)) = Len(s) + 1 => Recent(s, x) = Append(s, x)
<1> DEFINE a == Append(s, x)
           w == LastN(a, Window)
<1>1. /\ Window \in Nat \ {0} /\ Len(s) \in Nat
      /\ a \in Seq(T) /\ Len(a) = Len(s) + 1 /\ a[Len(a)] = x
  BY GraphAssumption
<1>2. Recent(s, x) = w /\ (Len(a) <= Window => w = a)
  BY DEF Recent, LastN
<1> HIDE DEF a
<1>3. /\ Len(w) \in Nat
      /\ Len(w) = IF Len(a) <= Window THEN Len(a) ELSE Window
      /\ \A i \in 1 .. Len(w) : w[i] = a[i + (Len(a) - Len(w))]
  BY <1>1, LastNSuffix, Zenon
<1> HIDE DEF w
<1>4. Len(w) \in 1 .. Len(w) /\ Len(w) + (Len(a) - Len(w)) = Len(a)
  BY <1>1, <1>3
<1>5. w[Len(w)] = x
  BY <1>1, <1>3, <1>4
<1>6. QED BY <1>1, <1>2, <1>3, <1>4, <1>5 DEF a

(* A record keeps the windows and the repeats right.                        *)
LEMMA WindowsStep ==
  ASSUME NEW b, GraphInv(b), WindowsInv(b.progress), NEW a,
         NEW action \in ActionNames, NEW error \in ErrorNames \cup {None},
         NEW verifier \in VerifierState \cup {None}, NEW rollback \in BOOLEAN
  PROVE  WindowsInv(UpdatedProgress(b, a, action, error, verifier, rollback))
<1> DEFINE p == UpdatedProgress(b, a, action, error, verifier, rollback)
           q == b.progress
           s == q.recent_actions
           w == Recent(s, action)
           e == q.recent_error_signatures
<1>1. /\ q \in ProgressState /\ s \in Seq(ActionNames) /\ e \in Seq(ErrorNames)
      /\ q.step_count \in Nat /\ q.repeated_action_count \in Nat
  BY DEF GraphInv, IsGraph, ProgressState
<1>2. /\ p.last_action = action /\ p.last_error_signature = error
      /\ p.recent_actions = w
      /\ error # None => p.recent_error_signatures = Recent(e, error)
      /\ p.step_count = q.step_count + 1
      /\ p.repeated_action_count =
           q.repeated_action_count + (IF q.last_action = action THEN 1 ELSE 0)
  BY DEF UpdatedProgress, PriorOf
<1>3. /\ Len(w) \in Nat /\ Len(w) > 0 /\ w[Len(w)] = action /\ Len(w) <= Len(s) + 1
      /\ Len(w) = Len(s) + 1 => w = Append(s, action)
  <2>1. \A r \in Seq(ActionNames) :
          LET v == Recent(r, action)
          IN  /\ Len(v) \in Nat /\ Len(v) > 0 /\ v[Len(v)] = action /\ Len(v) <= Len(r) + 1
              /\ Len(v) = Len(r) + 1 => v = Append(r, action)
    BY RecentEnds
  <2>2. QED BY <1>1, <2>1, Zenon
<1>4. error # None => Recent(e, error)[Len(Recent(e, error))] = error
  <2>1. \A r \in Seq(ErrorNames) : \A x \in ErrorNames : Recent(r, x)[Len(Recent(r, x))] = x
    BY RecentEnds
  <2>2. QED BY <1>1, <2>1, Zenon
<1>5. action # None
  BY GraphAssumption
<1>6. /\ RepeatsIn(Append(s, action)) =
           RepeatsIn(s) + (IF q.last_action = action THEN 1 ELSE 0)
      /\ RepeatsIn(s) \in Nat
  <2>1. (Len(s) > 0 /\ s[Len(s)] = action) = (q.last_action = action)
    <3>1. CASE Len(s) > 0
      BY <3>1 DEF WindowsInv
    <3>2. CASE ~(Len(s) > 0)
      <4>1. Len(s) = 0
        BY <1>1, <3>2
      <4>2. q.last_action = None
        BY <4>1 DEF WindowsInv
      <4>3. QED BY <1>5, <3>2, <4>2
    <3>3. QED BY <3>1, <3>2
  <2>2. RepeatsIn(Append(s, action)) =
          RepeatsIn(s) + (IF Len(s) > 0 /\ s[Len(s)] = action THEN 1 ELSE 0)
    BY <1>1, RepeatsAppended
  <2>3. QED BY <1>1, <2>1, <2>2, RepeatsFinite
<1>7. RepeatsIn(w) <= RepeatsIn(Append(s, action)) /\ RepeatsIn(w) \in Nat
  <2>1. Append(s, action) \in Seq(ActionNames) /\ Window \in Nat \ {0}
    BY <1>1, GraphAssumption
  <2>2. w = LastN(Append(s, action), Window)
    BY DEF Recent
  <2>3. w \in Seq(ActionNames)
    BY <2>1, <2>2, LastNType
  <2>4. QED BY <2>1, <2>2, <2>3, RepeatsOfSuffix, RepeatsFinite
<1> HIDE DEF p, w
<1>8. /\ Len(s) <= q.step_count /\ Len(s) \in Nat
      /\ RepeatsIn(s) <= q.repeated_action_count
      /\ q.step_count = Len(s) => RepeatsIn(s) = q.repeated_action_count
  BY <1>1 DEF WindowsInv
<1>9. /\ Len(p.recent_actions) <= p.step_count
      /\ RepeatsIn(p.recent_actions) <= p.repeated_action_count
  BY <1>1, <1>2, <1>3, <1>6, <1>7, <1>8
<1>10. ASSUME p.step_count = Len(p.recent_actions)
       PROVE  RepeatsIn(p.recent_actions) = p.repeated_action_count
  <2>1. Len(w) = Len(s) + 1 /\ q.step_count = Len(s)
    BY <1>1, <1>2, <1>3, <1>8, <1>10
  <2>2. QED BY <1>2, <1>3, <1>6, <1>8, <2>1
<1>11. QED BY <1>2, <1>3, <1>4, <1>5, <1>9, <1>10 DEF WindowsInv, p

(* Recording and operating keep the accounting right; a rollback records an *)
(* older graph, but against the progress of the last record, so its old     *)
(* progress is not read.                                                    *)
LEMMA RecordAccounting ==
  ASSUME Inv, AccountingInv, NEW a, GraphInv(a),
         NEW action \in ActionNames, NEW error \in ErrorNames \cup {None},
         NEW verifier \in VerifierState \cup {None}, NEW rollback \in BOOLEAN,
         record_progress(a, action, error, verifier, rollback)
  PROVE  AccountingInv'
<1> DEFINE m == MaterialProgress(before, a)
           p == UpdatedProgress(before, a, action, error, verifier, rollback)
           h == [a EXCEPT !.progress = p]
<1>1. graph' = h /\ before' = h /\ trail' = LastN(Append(trail, m), StagnationLimit)
  BY Zenon DEF record_progress
<1>2. /\ GraphInv(before) /\ IsGraph(a) /\ trail \in Seq(BOOLEAN)
      /\ before.progress.stagnant_steps \in Nat
  BY DEF Inv, GraphInv, IsGraph, ProgressState
<1>3. p \in ProgressState
  BY <1>2, UpdatedProgressType, Zenon
<1>4. p.stagnant_steps = IF m THEN 0 ELSE before.progress.stagnant_steps + 1
  BY DEF UpdatedProgress, PriorOf, Stagnant
<1>5. WindowsInv(p)
  BY <1>2, WindowsStep, Zenon DEF AccountingInv
<1>6. m \in BOOLEAN
  BY DEF MaterialProgress
<1> HIDE DEF m, p
<1>7. h.progress = p
  BY <1>2, <1>3, ReplaceProgress, Zenon
<1> HIDE DEF h
<1>8. StagnationInv(IF m THEN 0 ELSE before.progress.stagnant_steps + 1,
                    LastN(Append(trail, m), StagnationLimit))
  BY <1>2, <1>6, StagnationStep, Zenon DEF AccountingInv
<1>9. /\ graph'.progress = p /\ before'.progress = p
  BY <1>1, <1>7
<1>10. StagnationInv(p.stagnant_steps, trail')
  BY <1>1, <1>4, <1>8, Zenon
<1>11. QED BY <1>5, <1>9, <1>10 DEF AccountingInv, StagnationInv, WindowsInv, RepeatsIn

(* No operation touches the progress of a graph.                            *)
LEMMA OperateKeepsProgress ==
  ASSUME Inv, Operate
  PROVE  graph'.progress = graph.progress /\ UNCHANGED <<before, trail>>
<1>1. IsGraph(graph)
  BY DEF Inv, GraphInv
<1>2. UNCHANGED <<before, trail>>
  BY Zenon DEF Operate, Return, transition_obligation, add_obligation,
     verify_invariant, add_evidence, add_hypothesis, update_frontier,
     expand_frontier, mark_goal_satisfied
<1>3. graph'.progress = graph.progress
  <2>0. DOMAIN graph = {"goals", "obligations", "invariants", "hypotheses", "evidence",
                         "unresolved", "frontier", "progress", "ever"}
    BY <1>1 DEF IsGraph
  <2>1. ASSUME NEW o \in ObligationId, NEW status \in StatusInputs, NEW s \in SupportSets,
               transition_obligation(o, status, s)
        PROVE  graph'.progress = graph.progress
    BY <2>0, <2>1 DEF transition_obligation, Return
  <2>2. ASSUME NEW n \in NewObligations, add_obligation(n)
        PROVE  graph'.progress = graph.progress
    BY <2>0, <2>2 DEF add_obligation, Return
  <2>3. ASSUME NEW i \in InvariantId, NEW passed \in BOOLEAN, verify_invariant(i, passed)
        PROVE  graph'.progress = graph.progress
    BY <2>0, <2>3 DEF verify_invariant, Return
  <2>4. ASSUME NEW e \in EvidenceId, add_evidence(e)
        PROVE  graph'.progress = graph.progress
    BY <2>0, <2>4 DEF add_evidence, Return
  <2>5. ASSUME NEW h \in HypothesisId, NEW active \in BOOLEAN, add_hypothesis(h, active)
        PROVE  graph'.progress = graph.progress
    BY <2>0, <2>5 DEF add_hypothesis, Return
  <2>6. ASSUME NEW f \in FrontierId, NEW status \in FrontierInputs,
               update_frontier(f, status) \/ expand_frontier(f, status)
        PROVE  graph'.progress = graph.progress
    BY <2>0, <2>6 DEF update_frontier, expand_frontier, Return
  <2>7. ASSUME NEW x \in GoalId, mark_goal_satisfied(x)
        PROVE  graph'.progress = graph.progress
    BY <2>0, <2>7 DEF mark_goal_satisfied, Return
  <2>8. QED BY <2>1, <2>2, <2>3, <2>4, <2>5, <2>6, <2>7, Zenon DEF Operate
<1>4. QED BY <1>2, <1>3

(* The accounts are right in every reachable state.                         *)
LEMMA AccountingInvariant == Spec => []AccountingInv
<1>1. Init => AccountingInv
  <2> SUFFICES ASSUME Init PROVE AccountingInv
    OBVIOUS
  <2>1. graph = before /\ before.progress = NewProgress /\ trail = <<>>
    BY GraphAssumption DEF Init
  <2>2. StagnationInv(NewProgress.stagnant_steps, <<>>)
    BY GraphAssumption DEF StagnationInv, NewProgress
  <2>3. WindowsInv(NewProgress)
    <3>1. RepeatsIn(<<>>) = 0
      <4>1. RepeatPlaces(<<>>) = {}
        BY DEF RepeatPlaces
      <4>2. <<>> \in Seq({})
        OBVIOUS
      <4>3. QED BY <4>1, <4>2, RepeatsFinite, FS_EmptySet
    <3>2. QED BY <3>1 DEF WindowsInv, NewProgress
  <2>4. QED BY <2>1, <2>2, <2>3 DEF AccountingInv
<1>2. Inv /\ AccountingInv /\ [Next]_vars => AccountingInv'
  <2> SUFFICES ASSUME Inv, AccountingInv, [Next]_vars PROVE AccountingInv'
    OBVIOUS
  <2>1. CASE RecordStep
    <3>1. PICK action \in ActionNames, error \in ErrorNames \cup {None},
               verifier \in VerifierInputs :
            record_progress(graph, action, error, verifier, FALSE)
      BY <2>1, Zenon DEF RecordStep
    <3>2. verifier \in VerifierState \cup {None} /\ FALSE \in BOOLEAN /\ GraphInv(graph)
      BY GraphAssumption DEF Inv
    <3>3. QED BY <3>1, <3>2, RecordAccounting, Zenon
  <2>2. CASE Rollback
    <3>1. PICK action \in ActionNames : record_progress(kept, action, None, None, TRUE)
      BY <2>2, Zenon DEF Rollback
    <3>2. /\ None \in VerifierState \cup {None} /\ None \in ErrorNames \cup {None}
          /\ TRUE \in BOOLEAN /\ GraphInv(kept)
      BY DEF Inv
    <3>3. QED BY <3>1, <3>2, RecordAccounting, Zenon
  <2>3. CASE Operate
    <3>1. graph'.progress = graph.progress /\ UNCHANGED <<before, trail>>
      BY <2>3, OperateKeepsProgress
    <3>2. QED BY <3>1 DEF AccountingInv, StagnationInv, WindowsInv, RepeatsIn
  <2>4. CASE UNCHANGED vars
    BY <2>4 DEF vars, AccountingInv, StagnationInv, WindowsInv, RepeatsIn
  <2>5. QED BY <2>1, <2>2, <2>3, <2>4 DEF Next
<1>3. QED BY <1>1, <1>2, GraphInvariant, PTL DEF Spec

(* Recovery is offered after exactly StagnationLimit records in a row       *)
(* without material progress (record_progress, recovery_actions).           *)
THEOREM RecoveryExactlyAfterStagnation == Spec => []RecoveryAfterStagnation
<1>1. Inv /\ AccountingInv => RecoveryAfterStagnation
  <2> SUFFICES ASSUME Inv, AccountingInv PROVE RecoveryAfterStagnation
    OBVIOUS
  <2> DEFINE k == before.progress.stagnant_steps
  <2>1. /\ k \in Nat /\ trail \in Seq(BOOLEAN) /\ Len(trail) \in Nat
        /\ StagnationLimit \in Nat \ {0} /\ StagnationInv(k, trail)
    <3>1. k \in Nat
      BY DEF Inv, GraphInv, IsGraph, ProgressState
    <3>2. trail \in Seq(BOOLEAN) /\ Len(trail) \in Nat /\ StagnationInv(k, trail)
      BY DEF Inv, AccountingInv
    <3>3. StagnationLimit \in Nat \ {0}
      BY GraphAssumption
    <3>4. QED BY <3>1, <3>2, <3>3, Zenon
  <2>2. (recovery_actions(before) # {}) = ~(k < StagnationLimit)
    <3>1. CASE k < StagnationLimit
      BY <3>1 DEF recovery_actions
    <3>2. CASE ~(k < StagnationLimit)
      <4>1. "ABSTAIN_BLOCKED" \in recovery_actions(before)
        BY <3>2 DEF recovery_actions
      <4>2. QED BY <3>2, <4>1
    <3>3. QED BY <3>1, <3>2
  <2> HIDE DEF k
  <2>3. ASSUME ~(k < StagnationLimit)
        PROVE  Len(trail) = StagnationLimit /\ \A i \in 1 .. Len(trail) : ~trail[i]
    BY <2>1, <2>3 DEF StagnationInv
  <2>4. ASSUME k < StagnationLimit, Len(trail) = StagnationLimit
        PROVE  \E i \in 1 .. Len(trail) : trail[i]
    <3>1. Len(trail) - k \in 1 .. Len(trail) /\ trail[Len(trail) - k]
      BY <2>1, <2>4 DEF StagnationInv
    <3>2. QED BY <3>1
  <2>5. QED BY <2>2, <2>3, <2>4 DEF RecoveryAfterStagnation
<1>2. QED BY <1>1, GraphInvariant, AccountingInvariant, PTL

(* The window of recent actions ends with the last action and the counter   *)
(* of repeated actions agrees with it, or exceeds it once the window has    *)
(* dropped some (record_progress).                                          *)
THEOREM RepeatsAlwaysMatchWindow == Spec => []RepeatsMatchWindow
<1>1. AccountingInv => RepeatsMatchWindow
  BY DEF AccountingInv, WindowsInv, RepeatsMatchWindow
<1>2. QED BY <1>1, AccountingInvariant, PTL

=============================================================================
