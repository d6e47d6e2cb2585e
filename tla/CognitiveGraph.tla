--------------------------- MODULE CognitiveGraph ---------------------------
(***************************************************************************)
(* The cognitive obligation graph (COG): the goals, obligations,           *)
(* invariants, hypotheses, evidence and frontier of one task, the          *)
(* transitions on it and its progress accounting (cognitive/graph.py,      *)
(* cognitive/models.py).                                                   *)
(*                                                                         *)
(* Graphs are immutable values: every operation returns a new graph, and a *)
(* caller holds several of them.  The model has one caller that holds the  *)
(* current graph, the graph it had at its last record_progress (`before')  *)
(* and one older recorded graph a rollback may return to.  An operation    *)
(* that raises leaves all of them alone, so it is a disabled action.       *)
(* pydantic's model_copy does not run the validators, so an operation      *)
(* checks only what its own code checks.                                   *)
(*                                                                         *)
(* Collections are functions from ids (every operation addresses them by   *)
(* id and refuses a second item with one); texts are left out.             *)
(***************************************************************************)
EXTENDS Integers, Sequences, FiniteSets

CONSTANTS
  ObligationId,    \* obligation ids, those never defined included
  GoalId, EvidenceId, HypothesisId, FrontierId, InvariantId,
  VerifierRequired,\* the invariants of kind VERIFIER_REQUIRED
  InitialGraphs,   \* validated graphs a task may start from
  NewObligations,  \* obligations a caller may add
  SupportSets,     \* the satisfied_by arguments callers pass
  StatusInputs,    \* obligation statuses callers ask for
  FrontierInputs,  \* frontier statuses callers ask for
  VerifierInputs,  \* the verifier_state arguments callers pass, None included
  ActionNames, ErrorNames,
  None,            \* Python's None
  Window,          \* recent_actions / recent_error_signatures window (8)
  StagnationLimit, \* empty steps before recovery is offered (3)
  MaxOperations,   \* model bound: graph operations between two records
  MaxSteps         \* model bound: records

Status == {"OPEN", "SATISFIED", "FAILED", "BLOCKED", "SUPERSEDED"}
Obligation == [goal : GoalId, mandatory : BOOLEAN, depends_on : SUBSET ObligationId,
               status : Status, satisfied_by : SUBSET EvidenceId]
GoalStatus == {"OPEN", "SATISFIED", "FAILED", "CANCELLED"}
FrontierStatus == {"OPEN", "SUSPENDED", "PRUNED", "COMPLETE"}
VerifierState == {"NOT_RUN", "PENDING", "ACCEPTED", "REJECTED"}

IsMap(f, D, R) == DOMAIN f \subseteq D /\ f \in [DOMAIN f -> R]

ProgressState ==
  [step_count : Nat, obligations_completed : Nat, evidence_added : Nat,
   hypotheses_added : Nat, frontier_expansions : Nat, rollback_count : Nat,
   stagnant_steps : Nat, repeated_error_count : Nat, repeated_action_count : Nat,
   last_action : ActionNames \cup {None}, last_error_signature : ErrorNames \cup {None},
   verifier_state : VerifierState,
   recent_actions : Seq(ActionNames), recent_error_signatures : Seq(ErrorNames)]

(* `ever' is a history field: the obligations satisfied at some point on    *)
(* the way to this graph.                                                   *)
IsGraph(g) ==
  /\ g = [goals |-> g.goals, obligations |-> g.obligations, invariants |-> g.invariants,
          hypotheses |-> g.hypotheses, evidence |-> g.evidence,
          unresolved |-> g.unresolved, frontier |-> g.frontier,
          progress |-> g.progress, ever |-> g.ever]
  /\ IsMap(g.goals, GoalId, GoalStatus)
  /\ IsMap(g.obligations, ObligationId, Obligation)
  /\ IsMap(g.invariants, InvariantId, {"ACTIVE", "VIOLATED"})
  /\ IsMap(g.hypotheses, HypothesisId, BOOLEAN)
  /\ g.evidence \in SUBSET EvidenceId
  /\ g.unresolved \in BOOLEAN
  /\ IsMap(g.frontier, FrontierId, FrontierStatus)
  /\ g.progress \in ProgressState
  /\ g.ever \in SUBSET ObligationId

NewProgress ==
  [step_count |-> 0, obligations_completed |-> 0, evidence_added |-> 0,
   hypotheses_added |-> 0, frontier_expansions |-> 0, rollback_count |-> 0,
   stagnant_steps |-> 0, repeated_error_count |-> 0, repeated_action_count |-> 0,
   last_action |-> None, last_error_signature |-> None,
   verifier_state |-> "NOT_RUN", recent_actions |-> <<>>,
   recent_error_signatures |-> <<>>]

(* validate_graph: what construction of a graph checks.                     *)
ValidGraph(g) ==
  \A o \in DOMAIN g.obligations :
    /\ g.obligations[o].goal \in DOMAIN g.goals
    /\ g.obligations[o].depends_on \subseteq DOMAIN g.obligations

SatisfiedIn(g) == {o \in DOMAIN g.obligations : g.obligations[o].status = "SATISFIED"}

ASSUME GraphAssumption ==
  /\ IsFiniteSet(ObligationId) /\ IsFiniteSet(EvidenceId)
  /\ IsFiniteSet(HypothesisId) /\ IsFiniteSet(FrontierId)
  /\ \A g \in InitialGraphs :
       /\ IsGraph(g) /\ ValidGraph(g) /\ g.progress = NewProgress
       /\ g.ever = SatisfiedIn(g)
       \* an interpreter marks satisfied only obligations without dependencies
       /\ \A o \in SatisfiedIn(g) : g.obligations[o].depends_on = {}
  /\ NewObligations \subseteq [id : ObligationId, value : Obligation]
  /\ \A n \in NewObligations : n.value.status = "OPEN"
  /\ SupportSets \subseteq SUBSET EvidenceId
  /\ StatusInputs \subseteq Status
  /\ FrontierInputs \subseteq FrontierStatus
  /\ VerifierRequired \subseteq InvariantId
  /\ VerifierInputs \subseteq VerifierState \cup {None}
  /\ None \notin VerifierState
  /\ None \notin ActionNames \cup ErrorNames
  /\ Window \in Nat \ {0}
  /\ StagnationLimit \in Nat \ {0}
  /\ MaxOperations \in Nat /\ MaxSteps \in Nat

VARIABLES
  graph,        \* the current graph
  before,       \* the graph at the last record_progress
  kept,         \* a recorded graph the caller may roll back to
  operations,   \* operations since the last record (model bound)
  trail         \* history: whether each of the last records was material

vars == <<graph, before, kept, operations, trail>>

LastN(s, n) == IF Len(s) <= n THEN s ELSE SubSeq(s, Len(s) - n + 1, Len(s))
MaxOf(S) == CHOOSE m \in S : \A x \in S : x <= m
Extend(f, x, v) == [y \in DOMAIN f \cup {x} |-> IF y = x THEN v ELSE f[y]]

----------------------------------------------------------------------------
(* The halt gate and the controller's view                                  *)

Mandatory(g) == {o \in DOMAIN g.obligations : g.obligations[o].mandatory}

MandatorySatisfied(g) == Mandatory(g) \subseteq SatisfiedIn(g)

can_halt_success(g) ==
  /\ DOMAIN g.goals # {}
  /\ \A x \in DOMAIN g.goals : g.goals[x] \in {"OPEN", "SATISFIED"}
  /\ MandatorySatisfied(g)
  /\ \A i \in DOMAIN g.invariants : g.invariants[i] # "VIOLATED"
  /\ DOMAIN g.invariants \cap VerifierRequired # {} => g.progress.verifier_state = "ACCEPTED"

compact_view(g) ==
  LET mandatory == Mandatory(g)
      with(st) == {o \in DOMAIN g.obligations : g.obligations[o].status \in st}
      satisfied == Cardinality(mandatory \cap with({"SATISFIED"}))
      active == Cardinality({h \in DOMAIN g.hypotheses : g.hypotheses[h]})
  IN [open_goals |-> Cardinality({x \in DOMAIN g.goals : g.goals[x] = "OPEN"}),
      mandatory_open |-> Cardinality(mandatory \cap with({"OPEN"})),
      mandatory_satisfied |-> satisfied,
      blocked_or_failed |-> Cardinality(with({"BLOCKED", "FAILED"})),
      invariant_violations |->
        Cardinality({i \in DOMAIN g.invariants : g.invariants[i] = "VIOLATED"}),
      active_hypotheses |-> active,
      competing_hypotheses |-> active > 1,
      evidence_count |-> Cardinality(g.evidence),
      open_frontier |-> Cardinality({f \in DOMAIN g.frontier : g.frontier[f] = "OPEN"}),
      completion_permille |->
        IF mandatory = {} THEN 1000 ELSE (1000 * satisfied) \div Cardinality(mandatory),
      halt_success_legal |-> can_halt_success(g)]

(* recovery_actions, as a set: the code's order is fixed.                   *)
recovery_actions(g) ==
  IF g.progress.stagnant_steps < StagnationLimit THEN {}
  ELSE {a \in {"REASSESS_HYPOTHESIS", "TRY_ALTERNATIVE", "EXPAND_FRONTIER", "ROLLBACK",
               "ASK_CLARIFICATION", "ABSTAIN_BLOCKED"} :
          /\ a \in {"REASSESS_HYPOTHESIS", "TRY_ALTERNATIVE"} =>
               compact_view(g).competing_hypotheses
          /\ a = "EXPAND_FRONTIER" => compact_view(g).open_frontier > 0
          /\ a = "ROLLBACK" => g.progress.rollback_count = 0
          /\ a = "ASK_CLARIFICATION" => g.unresolved}

----------------------------------------------------------------------------
(* Operations on the current graph                                          *)

Init ==
  /\ graph \in InitialGraphs
  /\ before = graph
  /\ kept = graph
  /\ operations = 0
  /\ trail = <<>>

Return(g) ==
  /\ operations < MaxOperations
  /\ graph' = g
  /\ operations' = operations + 1
  /\ UNCHANGED <<before, kept, trail>>

DependenciesKnownMet(g, o) ==                    \* mutant: one met is enough
  g.obligations[o].depends_on = {} \/ g.obligations[o].depends_on \cap SatisfiedIn(g) # {}
(* Every dependency is in the graph (KeyError otherwise) and SATISFIED.     *)
DependenciesMet(g, o) == g.obligations[o].depends_on \subseteq SatisfiedIn(g)

transition_obligation(o, status, satisfied_by) ==
  /\ o \in DOMAIN graph.obligations
  /\ status = "SATISFIED" => DependenciesMet(graph, o)
  /\ LET reopened == graph.obligations[o].status = "SATISFIED" /\ status = "OPEN"
     IN Return([graph EXCEPT
          !.obligations[o] = [@ EXCEPT !.status = status,
                                       !.satisfied_by = IF reopened THEN {} ELSE satisfied_by],
          !.ever = IF status = "SATISFIED" THEN @ \cup {o} ELSE @])

add_obligation(n) ==
  /\ n.id \notin DOMAIN graph.obligations
  /\ Return([graph EXCEPT !.obligations = Extend(@, n.id, n.value)])

verify_invariant(i, passed) ==
  /\ i \in DOMAIN graph.invariants
  /\ Return([graph EXCEPT !.invariants[i] = IF passed THEN "ACTIVE" ELSE "VIOLATED"])

add_evidence(e) ==
  /\ e \notin graph.evidence
  /\ Return([graph EXCEPT !.evidence = @ \cup {e}])

add_hypothesis(h, active) ==
  /\ h \notin DOMAIN graph.hypotheses
  /\ Return([graph EXCEPT !.hypotheses = Extend(@, h, active)])

update_frontier(f, status) ==
  /\ f \in DOMAIN graph.frontier
  /\ Return([graph EXCEPT !.frontier[f] = status])

expand_frontier(f, status) ==
  /\ f \notin DOMAIN graph.frontier
  /\ Return([graph EXCEPT !.frontier = Extend(@, f, status)])

mark_goal_satisfied(x) ==
  /\ can_halt_success(graph)
  /\ x \in DOMAIN graph.goals
  /\ Return([graph EXCEPT !.goals[x] = "SATISFIED"])

----------------------------------------------------------------------------
(* record_progress                                                          *)

GainedNet(old, new) == new - old                         \* mutant: unclamped
Gained(old, new) == MaxOf({0, new - old})

ObligationDelta(b, a) == Gained(Cardinality(SatisfiedIn(b)), Cardinality(SatisfiedIn(a)))
EvidenceDelta(b, a) == Gained(Cardinality(b.evidence), Cardinality(a.evidence))
HypothesisDelta(b, a) ==
  Gained(Cardinality(DOMAIN b.hypotheses), Cardinality(DOMAIN a.hypotheses))
FrontierDelta(b, a) == Gained(Cardinality(DOMAIN b.frontier), Cardinality(DOMAIN a.frontier))

MaterialProgress(b, a) ==
  ObligationDelta(b, a) + EvidenceDelta(b, a) + HypothesisDelta(b, a) + FrontierDelta(b, a) > 0

StagnantNeverReset(p, material) ==               \* mutant: count kept
  IF material THEN p.stagnant_steps ELSE p.stagnant_steps + 1
Stagnant(p, material) == IF material THEN 0 ELSE p.stagnant_steps + 1

Recent(s, x) == LastN(Append(s, x), Window)

PriorOfAfter(b, a) == a.progress                 \* mutant: of the graph recorded
PriorOf(b, a) == b.progress

UpdatedProgress(b, a, action, error, verifier, rollback) ==
  LET prior == PriorOf(b, a)
      count(c) == IF c THEN 1 ELSE 0
  IN [step_count |-> prior.step_count + 1,
      obligations_completed |-> prior.obligations_completed + ObligationDelta(b, a),
      evidence_added |-> prior.evidence_added + EvidenceDelta(b, a),
      hypotheses_added |-> prior.hypotheses_added + HypothesisDelta(b, a),
      frontier_expansions |-> prior.frontier_expansions + FrontierDelta(b, a),
      rollback_count |-> prior.rollback_count + count(rollback),
      stagnant_steps |-> Stagnant(prior, MaterialProgress(b, a)),
      repeated_error_count |-> prior.repeated_error_count
        + count(error # None /\ prior.last_error_signature = error),
      repeated_action_count |-> prior.repeated_action_count
        + count(prior.last_action = action),
      last_action |-> action,
      last_error_signature |-> error,
      verifier_state |-> IF verifier = None THEN prior.verifier_state ELSE verifier,
      recent_actions |-> Recent(prior.recent_actions, action),
      recent_error_signatures |->
        IF error = None THEN prior.recent_error_signatures
                        ELSE Recent(prior.recent_error_signatures, error)]

record_progress(a, action, error, verifier, rollback) ==
  LET recorded == [a EXCEPT !.progress =
                     UpdatedProgress(before, a, action, error, verifier, rollback)]
  IN /\ before.progress.step_count < MaxSteps
     /\ graph' = recorded
     /\ before' = recorded
     /\ operations' = 0
     /\ trail' = LastN(Append(trail, MaterialProgress(before, a)), StagnationLimit)

(* A step of the task is accounted for; the caller may keep the graph.      *)
RecordStep ==
  \E action \in ActionNames, error \in ErrorNames \cup {None},
     verifier \in VerifierInputs :
    /\ record_progress(graph, action, error, verifier, FALSE)
    /\ kept' \in {kept, graph'}

(* The recovery action ROLLBACK: the kept graph, recorded as a rollback.    *)
Rollback ==
  /\ "ROLLBACK" \in recovery_actions(graph)
  /\ \E action \in ActionNames : record_progress(kept, action, None, None, TRUE)
  /\ UNCHANGED kept

Operate ==
  \/ \E o \in ObligationId, status \in StatusInputs, s \in SupportSets :
       transition_obligation(o, status, s)
  \/ \E n \in NewObligations : add_obligation(n)
  \/ \E i \in InvariantId, passed \in BOOLEAN : verify_invariant(i, passed)
  \/ \E e \in EvidenceId : add_evidence(e)
  \/ \E h \in HypothesisId, active \in BOOLEAN : add_hypothesis(h, active)
  \/ \E f \in FrontierId, status \in FrontierInputs :
       update_frontier(f, status) \/ expand_frontier(f, status)
  \/ \E x \in GoalId : mark_goal_satisfied(x)

Next == Operate \/ RecordStep \/ Rollback

Spec == Init /\ [][Next]_vars

----------------------------------------------------------------------------
(* Properties                                                               *)

(* Graphs hold items of the declared kinds, progress windows are within     *)
(* their declared length, and a recorded graph is a graph of this task.     *)
WindowsBounded(g) ==
  /\ Len(g.progress.recent_actions) <= Window
  /\ Len(g.progress.recent_error_signatures) <= Window
TypeOK ==
  /\ IsGraph(graph) /\ IsGraph(before) /\ IsGraph(kept)
  /\ WindowsBounded(graph) /\ WindowsBounded(before) /\ WindowsBounded(kept)
  /\ operations \in 0 .. MaxOperations
  /\ trail \in Seq(BOOLEAN)

(* Obligations that wait for each other, or for one nobody has defined, can *)
(* never be satisfied, in whatever order they are added, satisfied,         *)
(* reopened or rolled back; so the halt gate stays shut while one of them   *)
(* is mandatory.                                                            *)
Deadlocked(g, S) ==
  \A o \in S : \E d \in g.obligations[o].depends_on : d \in S \/ d \notin DOMAIN g.obligations
DeadlockedNeverSatisfied ==
  \A S \in SUBSET DOMAIN graph.obligations : Deadlocked(graph, S) =>
    /\ S \cap SatisfiedIn(graph) = {}
    /\ S \cap Mandatory(graph) # {} => ~can_halt_success(graph)

(* The counters of record_progress never under-report: whatever graph was   *)
(* recorded and could be returned to, what it holds is covered by what the  *)
(* task started with plus what has been counted since, though obligations   *)
(* were reopened and a rollback took back what had been counted.            *)
Counted(p) ==
  <<p.obligations_completed, p.evidence_added, p.hypotheses_added, p.frontier_expansions>>
Holdings(g) ==
  <<Cardinality(SatisfiedIn(g)), Cardinality(g.evidence),
    Cardinality(DOMAIN g.hypotheses), Cardinality(DOMAIN g.frontier)>>
Covers(p, g, h) == \A k \in 1 .. 4 : Holdings(h)[k] <= Holdings(g)[k] + Counted(p)[k]
ProgressCoversGraph ==
  \E g \in InitialGraphs : Covers(before.progress, g, before) /\ Covers(before.progress, g, kept)

(* A rollback returns to an older graph, whose own counters are behind: it  *)
(* gives back what the graph held, never what the task has been charged     *)
(* for, so no counter falls and each record is one more step.               *)
CountersNeverFall ==
  [][before' # before =>
       /\ before'.progress.step_count = before.progress.step_count + 1
       /\ \A k \in 1 .. 4 : Counted(before.progress)[k] <= Counted(before'.progress)[k]]_vars

(* Recovery is offered exactly after StagnationLimit records in a row       *)
(* without material progress.                                               *)
RecoveryAfterStagnation ==
  (recovery_actions(before) # {}) =
    (Len(trail) = StagnationLimit /\ \A i \in 1 .. Len(trail) : ~trail[i])

(* The window of recent actions ends with the last action, and the repeated *)
(* action counter is the number of adjacent repeats for as long as the      *)
(* window has dropped nothing, and at least that afterwards.                *)
RepeatsIn(s) == Cardinality({i \in 1 .. Len(s) - 1 : s[i] = s[i + 1]})
RepeatsMatchWindow ==
  LET p == graph.progress
      n == Len(p.recent_actions)
  IN /\ (p.last_action = None) = (n = 0)
     /\ n > 0 => p.recent_actions[n] = p.last_action
     /\ p.last_error_signature # None =>
          p.recent_error_signatures[Len(p.recent_error_signatures)] = p.last_error_signature
     /\ RepeatsIn(p.recent_actions) <= p.repeated_action_count
     /\ p.step_count = n => RepeatsIn(p.recent_actions) = p.repeated_action_count

(* "without weakening graph referential closure" (graph.py:113): a graph    *)
(* that operations return still refers only to goals and obligations it     *)
(* has.                                                                     *)
ReferentialClosure == ValidGraph(graph)

============================================================================
