------------------------------ MODULE MicroOps ------------------------------
(***************************************************************************)
(* The micro-operation machine of the structured controller                *)
(* (controller/micro_ops.py) with the exact verifier it calls              *)
(* (controller/verification.py, make_answer_plan and realize_plan of       *)
(* controller/answering.py).  A policy repeatedly picks one action of the  *)
(* menu legal_actions offers and execute_action applies it; both the       *)
(* served policies and the offline search only ever pick from that menu,   *)
(* so the choice is nondeterministic here.                                 *)
(*                                                                         *)
(* A claim is what the code reads off it: who and what it is about, the    *)
(* source family of its spans, the frame filters that keep it and the      *)
(* outcome of the per-claim text comparisons.  The order of active claims  *)
(* only decides which arguments the argument cap cuts from the menu; since *)
(* the choice from the menu is arbitrary, a set covers every cut.          *)
(* NORMALIZE_QUANTITY and BUILD_VERIFICATION_PLAN need a selected claim    *)
(* and a plan, and the menu offers neither then: they never run.           *)
(***************************************************************************)
EXTENDS Integers, Sequences, FiniteSets

CONSTANTS
  Claim,           \* claim ids
  Subject, Relation, Family, Event, Entity, Source,
  NoValue,         \* Python's None
  Cases,           \* the frames and claims a task may start from
  MaxMicroSteps    \* max_controller_steps (12)

Notes == {"ENUMERATE_VALUES", "ENUMERATE_RELATIONS", "SELECT_SOURCE", "SELECT_ENTITY",
          "ORDER_TEMPORAL"}
FrameFilters == {"FILTER_SUBJECT", "FILTER_RELATION", "FILTER_ANSWER_SHAPE",
                 "FILTER_VALUE_KIND", "FILTER_TIME_SCOPE", "FILTER_ATTRIBUTION"}
PickFilters == {"FILTER_SOURCE", "JOIN_BY_ENTITY", "JOIN_BY_EVENT"}
Refusals == {"CLARIFY", "ABSTAIN", "INCORRECT_PREMISE", "CONFLICTING_EVIDENCE",
             "OUT_OF_CORPUS"}
Op == Notes \cup FrameFilters \cup PickFilters \cup Refusals \cup
  {"ENUMERATE_CLAIMS", "ENUMERATE_ENTITIES", "SELECT_CLAIM", "REJECT_CLAIM",
   "BIND_LIST_SLOT", "PAIR_COMPARISON_VALUES", "COMPARE_VALUES", "COUNT_VALUES",
   "BUILD_DIRECT_PLAN", "BUILD_LIST_PLAN", "BUILD_COMPARISON_PLAN", "VERIFY_PLAN",
   "ANSWER"}

ClaimType ==
  [subject : Subject, relation : Relation, family : Family,
   event : Event \cup {NoValue},         \* occurred_at
   entities : SUBSET Entity,          \* subject and object
   mentions : SUBSET Entity,          \* those, the location and the speaker
   sources : SUBSET Source,
   keeps : SUBSET FrameFilters,       \* frame filters that keep the claim
   entity_ok : BOOLEAN,               \* about a linked entity, or none is linked
   relation_ok : BOOLEAN,             \* of a requested relation, or none is requested
   copied : BOOLEAN,                  \* its value occurs in one of its spans
   fits : BOOLEAN,                    \* date, quantity, quotation, negation checks
   number : Int \cup {NoValue},          \* first number of the value
   quantity : Int \cup {NoValue}]        \* the number with a unit others share

(* A task: the answer shape of the frame (every shape but list and          *)
(* comparison is "direct"), the list length asked for, the filters and      *)
(* refusals whose precondition the frame meets, whether every span is there *)
(* with the right hash, and the claims.                                     *)
CaseType(claims) ==
  [shape : {"direct", "list", "comparison"}, target : 2 .. 6,
   filters : SUBSET FrameFilters, refusals : SUBSET Refusals, intact : BOOLEAN,
   claims : claims]

ASSUME CaseAssumption ==
  /\ \A k \in Cases :
       /\ k \in CaseType([DOMAIN k.claims -> ClaimType])
       /\ DOMAIN k.claims \subseteq Claim /\ "ABSTAIN" \in k.refusals
  /\ MaxMicroSteps \in 1 .. 64
  /\ NoValue \notin Int \cup Op

VARIABLES
  case,     \* frame, claims and source spans of the MicroState
  state,    \* its other fields
  raised    \* execute_action raised ValueError

machineVars == <<case, state, raised>>

Terminal == Refusals \cup {"ANSWER"}

state_from_workspace ==
  [active |-> {}, selected |-> <<>>, rejected |-> {}, bound |-> <<>>,
   derived |-> "none", plan |-> <<>>, verified |-> FALSE, terminal |-> NoValue,
   answer |-> <<>>, counts |-> [op \in Op |-> 0], total_actions |-> 0]

MachineInit == case \in Cases /\ state = state_from_workspace /\ raised = FALSE

Elements(s) == {s[i] : i \in 1 .. Len(s)}
AllClaims == DOMAIN case.claims
Data(c) == case.claims[c]
Composed == case.shape \in {"list", "comparison"}

----------------------------------------------------------------------------
(* The exact verifier                                                       *)

EligibleAnyRelation(c) ==                        \* mutant: relation not asked
  Data(c).entity_ok /\ Data(c).copied
(* _claim_can_pass_static_verifier                                          *)
Eligible(c) == Data(c).entity_ok /\ Data(c).relation_ok /\ Data(c).copied

(* The shape checks of verify_realization are for shapes that are direct.   *)
ShapeFits(c) == Composed \/ Data(c).fits
ClaimVerifies(c) ==
  /\ Data(c).entity_ok /\ Data(c).relation_ok /\ Data(c).copied
  /\ ShapeFits(c)

LineagesDiffer(p) ==
  \A i, j \in 1 .. Len(p) : Data(p[i]).family = Data(p[j]).family => i = j

Direction(m, n) == IF m < n THEN "<" ELSE IF m > n THEN ">" ELSE "="

(* compare_quantities: NoValue when a number or a common unit is missing.   *)
ComparisonVerifies(c, d, operator) ==
  /\ Data(c).quantity # NoValue /\ Data(d).quantity # NoValue
  /\ operator = Direction(Data(c).quantity, Data(d).quantity)

VerifiesUndirected(p, operator) ==               \* mutant: direction not redone
  /\ case.intact
  /\ \A c \in Elements(p) : ClaimVerifies(c)
  /\ LineagesDiffer(p)
  /\ case.shape = "comparison" => operator \in {"<", "=", ">"}
(* make_answer_plan raises on a comparison without an operator, which       *)
(* VERIFY_PLAN turns into a failed verification.                            *)
Verifies(p, operator) ==
  /\ case.intact
  /\ \A c \in Elements(p) : ClaimVerifies(c)
  /\ LineagesDiffer(p)
  /\ case.shape = "comparison" =>
       Len(p) = 2 /\ operator \in {"<", "=", ">"} /\ ComparisonVerifies(p[1], p[2], operator)

----------------------------------------------------------------------------
(* legal_operation_specs and legal_actions                                  *)

RepeatLimit(op) ==
  CASE op = "SELECT_CLAIM" -> 8
    [] op \in {"REJECT_CLAIM", "BIND_LIST_SLOT"} -> 16
    [] op = "SELECT_SOURCE" -> 8
    [] op = "SELECT_ENTITY" -> 4
    [] OTHER -> 1

EntitiesListed == state.counts["ENUMERATE_ENTITIES"] > 0

Precondition(op) ==
  /\ op \in {"ENUMERATE_CLAIMS", "ENUMERATE_ENTITIES", "ENUMERATE_RELATIONS",
             "SELECT_SOURCE"} => AllClaims # {}
  /\ op \in {"ENUMERATE_VALUES", "SELECT_CLAIM", "REJECT_CLAIM", "ORDER_TEMPORAL",
             "COUNT_VALUES"} \cup FrameFilters \cup PickFilters => state.active # {}
  /\ op \in FrameFilters => op \in case.filters
  /\ op \in {"SELECT_ENTITY", "JOIN_BY_ENTITY"} => EntitiesListed
  /\ op \in {"BIND_LIST_SLOT", "PAIR_COMPARISON_VALUES", "BUILD_DIRECT_PLAN"} =>
       state.selected # <<>>
  /\ op \in {"COMPARE_VALUES", "BUILD_LIST_PLAN", "BUILD_COMPARISON_PLAN"} =>
       state.bound # <<>>
  /\ op = "BUILD_COMPARISON_PLAN" => state.derived # "none"
  /\ op = "VERIFY_PLAN" => state.plan # <<>>
  /\ op = "ANSWER" => state.verified
  /\ op \in Refusals => op \in case.refusals

LegalSpec(op) ==
  /\ state.terminal = NoValue
  /\ state.counts[op] < RepeatLimit(op)
  /\ Precondition(op)

AllBoundLate == Len(state.bound) > Len(state.selected)   \* mutant
AllBound == Len(state.bound) >= Len(state.selected)

(* What legal_actions keeps once a claim is selected.                       *)
NextForComparison ==
  IF Len(state.selected) < 2 THEN "SELECT_CLAIM"
  ELSE IF state.bound = <<>> THEN "PAIR_COMPARISON_VALUES"
  ELSE IF state.derived = "none" THEN "COMPARE_VALUES"
  ELSE "BUILD_COMPARISON_PLAN"
NextForList ==
  IF Len(state.selected) < case.target THEN "SELECT_CLAIM"
  ELSE IF AllBound THEN "BUILD_LIST_PLAN" ELSE "BIND_LIST_SLOT"
CommittedLoosely(op) ==                          \* mutant: direct not narrowed
  CASE case.shape = "comparison" -> op = NextForComparison
    [] case.shape = "list" -> op = NextForList
    [] OTHER -> TRUE
Committed(op) ==
  CASE case.shape = "comparison" -> op = NextForComparison
    [] case.shape = "list" -> op = NextForList
    [] OTHER -> op = "BUILD_DIRECT_PLAN"

OnMenu(op) ==
  /\ LegalSpec(op)
  /\ state.verified => op = "ANSWER"
  /\ ~state.verified /\ state.plan # <<>> => op = "VERIFY_PLAN"
  /\ state.plan = <<>> /\ state.selected # <<>> => Committed(op)

(* The claim arguments of SELECT_CLAIM: partners of what is selected.       *)
Selectable(c) ==
  /\ c \in state.active /\ c \notin Elements(state.selected) /\ Eligible(c)
  /\ Composed => \A d \in Elements(state.selected) : Data(d).subject # Data(c).subject
  /\ case.shape = "comparison" /\ state.selected # <<>> =>
       Data(c).relation = Data(state.selected[1]).relation
  /\ case.shape = "list" =>
       \A d \in Elements(state.selected) : Data(d).family # Data(c).family

----------------------------------------------------------------------------
(* execute_action                                                           *)

Take(op) ==
  /\ ~raised
  /\ OnMenu(op)
  /\ state.total_actions < MaxMicroSteps
  /\ UNCHANGED case

ApplyCount(op) == [state EXCEPT !.counts[op] = @ + 1, !.total_actions = @ + 1]
Becomes(s) == state' = s /\ UNCHANGED raised

(* Operations whose results only the policy's features read.                *)
Note(op) == Take(op) /\ Becomes(ApplyCount(op))

EnumerateClaims ==
  /\ Take("ENUMERATE_CLAIMS")
  /\ Becomes([ApplyCount("ENUMERATE_CLAIMS") EXCEPT !.active = AllClaims])

FilterByFrame(op) ==
  /\ Take(op)
  /\ Becomes([ApplyCount(op) EXCEPT !.active = {c \in @ : op \in Data(c).keeps}])

FilterSource(s) ==
  /\ Take("FILTER_SOURCE")
  /\ \E c \in state.active : s \in Data(c).sources
  /\ Becomes([ApplyCount("FILTER_SOURCE") EXCEPT !.active = {c \in @ : s \in Data(c).sources}])

JoinByEntity(e) ==
  /\ Take("JOIN_BY_ENTITY")
  /\ \E c \in AllClaims : e \in Data(c).mentions
  /\ Becomes([ApplyCount("JOIN_BY_ENTITY") EXCEPT !.active = {c \in @ : e \in Data(c).entities}])

JoinByEvent(v) ==
  /\ Take("JOIN_BY_EVENT")
  /\ \E c \in state.active : Data(c).event = v
  /\ Becomes([ApplyCount("JOIN_BY_EVENT") EXCEPT !.active = {c \in @ : Data(c).event = v}])

SelectClaim(c) ==
  /\ Take("SELECT_CLAIM")
  /\ Selectable(c)
  /\ Becomes([ApplyCount("SELECT_CLAIM") EXCEPT !.selected = Append(@, c)])

RejectClaim(c) ==
  /\ Take("REJECT_CLAIM")
  /\ c \in state.active
  /\ Becomes([ApplyCount("REJECT_CLAIM") EXCEPT !.rejected = @ \cup {c}, !.active = @ \ {c}])

BindListSlot(c) ==
  /\ Take("BIND_LIST_SLOT")
  /\ c \in Elements(state.selected) /\ c \notin Elements(state.bound)
  /\ Becomes([ApplyCount("BIND_LIST_SLOT") EXCEPT !.bound = Append(@, c)])

PairComparisonValues ==
  /\ Take("PAIR_COMPARISON_VALUES")
  /\ Becomes([ApplyCount("PAIR_COMPARISON_VALUES") EXCEPT
                !.bound = SubSeq(state.selected, 1, 2)])

Left == Data(state.bound[1]).number
Right == Data(state.bound[2]).number

CompareValues ==
  /\ Take("COMPARE_VALUES")
  /\ Left # NoValue /\ Right # NoValue
  /\ Becomes([ApplyCount("COMPARE_VALUES") EXCEPT !.derived = Direction(Left, Right)])

(* ValueError "comparison values are not numeric" leaves the episode.       *)
CompareRaises ==
  /\ Take("COMPARE_VALUES")
  /\ Left = NoValue \/ Right = NoValue
  /\ raised' = TRUE
  /\ UNCHANGED state

CountValues ==
  /\ Take("COUNT_VALUES")
  /\ Becomes([ApplyCount("COUNT_VALUES") EXCEPT !.derived = "count"])

BuildPlan(op, claims) ==
  /\ Take(op)
  /\ Becomes([ApplyCount(op) EXCEPT !.plan = claims])
BuildDirectPlan == BuildPlan("BUILD_DIRECT_PLAN", SubSeq(state.selected, 1, 1))
BuildListPlan == BuildPlan("BUILD_LIST_PLAN", state.bound)
BuildComparisonPlan == BuildPlan("BUILD_COMPARISON_PLAN", state.bound)

VerifyPlan ==
  /\ Take("VERIFY_PLAN")
  /\ Becomes([ApplyCount("VERIFY_PLAN") EXCEPT
                !.verified = Verifies(state.plan, state.derived)])

Answer ==
  /\ Take("ANSWER")
  /\ Becomes([ApplyCount("ANSWER") EXCEPT !.terminal = "ANSWER", !.answer = state.plan])

Refuse(op) ==
  /\ Take(op)
  /\ Becomes([ApplyCount(op) EXCEPT !.terminal = op])

Execute ==
  \/ \E op \in Notes \cup {"ENUMERATE_ENTITIES"} : Note(op)
  \/ EnumerateClaims
  \/ \E op \in FrameFilters : FilterByFrame(op)
  \/ \E s \in Source : FilterSource(s)
  \/ \E e \in Entity : JoinByEntity(e)
  \/ \E v \in Event : JoinByEvent(v)
  \/ \E c \in AllClaims : SelectClaim(c) \/ RejectClaim(c) \/ BindListSlot(c)
  \/ PairComparisonValues \/ CompareValues \/ CompareRaises \/ CountValues
  \/ BuildDirectPlan \/ BuildListPlan \/ BuildComparisonPlan
  \/ VerifyPlan \/ Answer
  \/ \E op \in Refusals : Refuse(op)

(* An operation is offered once per argument, and without one not at all.   *)
(* (FILTER_SOURCE, SELECT_ENTITY and the joins may run out of arguments too, *)
(* but are only on the menu next to ABSTAIN.)                               *)
MenuEmpty ==
  \A op \in Op : OnMenu(op) =>
    \/ op = "SELECT_CLAIM" /\ \A c \in AllClaims : ~Selectable(c)
    \/ op = "BIND_LIST_SLOT" /\ Elements(state.selected) \subseteq Elements(state.bound)

(* The loop of the caller ends: a terminal, an exception, an empty menu or  *)
(* the step limit.                                                          *)
Stop ==
  /\ raised \/ MenuEmpty \/ state.total_actions = MaxMicroSteps
  /\ UNCHANGED machineVars

MachineNext == Execute \/ Stop

MachineSpec == MachineInit /\ [][MachineNext]_machineVars

----------------------------------------------------------------------------
(* Properties                                                               *)

(* What is answered is what was planned, and it is supported: every claim   *)
(* is about the linked entity and the asked relation and is copied from its *)
(* source, no source family is counted twice, and a comparison has the      *)
(* direction of the quantities themselves, whatever order and whatever      *)
(* derived value the policy's actions left behind (execute_action,          *)
(* verify_realization).                                                     *)
AnswerSupported ==
  state.terminal = "ANSWER" =>
    /\ state.answer = state.plan /\ state.answer # <<>> /\ case.intact
    /\ \A c \in Elements(state.answer) :
         /\ Data(c).entity_ok /\ Data(c).relation_ok /\ Data(c).copied
         /\ ~Composed => Data(c).fits
    /\ Cardinality({Data(c).family : c \in Elements(state.answer)}) = Len(state.answer)
    /\ case.shape = "comparison" =>
         LET m == Data(state.answer[1]).quantity
             n == Data(state.answer[2]).quantity
         IN /\ m # NoValue /\ n # NoValue
            /\ state.derived = (IF m < n THEN "<" ELSE IF m > n THEN ">" ELSE "=")

Refuted == state.counts["VERIFY_PLAN"] = 1 /\ ~state.verified

(* The menu promises not to offer what the verifier is bound to refuse: a   *)
(* plan that fails verification fails for a reason the menu does not look   *)
(* at (damaged spans, a date or unit check, two comparison claims of one    *)
(* source family, quantities without a common unit, a direction the numbers *)
(* in the text do not have, a count in place of a comparison), never for    *)
(* its entity, relation or copied text, and a list never fails at all on    *)
(* intact spans (_claim_can_pass_static_verifier, legal_actions).           *)
RejectionExplained ==
  Refuted =>
    \/ ~case.intact
    \/ ~Composed /\ ~Data(state.plan[1]).fits
    \/ /\ case.shape = "comparison"
       /\ LET c == state.plan[1]
              d == state.plan[2]
          IN \/ Data(c).family = Data(d).family
             \/ state.derived = "count"
             \/ Data(c).quantity = NoValue \/ Data(d).quantity = NoValue
             \/ Direction(Data(c).number, Data(d).number)
                  # Direction(Data(c).quantity, Data(d).quantity)

(* Once a claim is selected the ground under it is frozen: what is planned  *)
(* was selected, what is selected is still active, no claim is taken twice, *)
(* and no more of them than the answer's shape has room for (legal_actions  *)
(* narrows the menu, so no filter, join or rejection can run between        *)
(* selection and plan).  And what the policy rejected never comes back: not *)
(* into the active set, which ENUMERATE_CLAIMS refills but once, and so not *)
(* into the selection.                                                      *)
PlanWithinSelection ==
  /\ Elements(state.plan) \subseteq Elements(state.selected)
  /\ Elements(state.bound) \subseteq Elements(state.selected)
  /\ Elements(state.selected) \subseteq state.active
  /\ Cardinality(Elements(state.selected)) = Len(state.selected)
  /\ Len(state.selected) <= CASE case.shape = "list" -> case.target
                               [] case.shape = "comparison" -> 2
                               [] OTHER -> 1
  /\ state.rejected \cap state.active = {}

(* An episode runs out of legal actions without a terminal in two cases     *)
(* only: the one verification failed (VERIFY_PLAN may run once, and a plan  *)
(* leaves nothing else on the menu), or a selection of a list or comparison *)
(* has no partner left.  Before a claim is selected ABSTAIN is always there. *)
StuckOnlyAfterCommitment ==
  MenuEmpty /\ state.terminal = NoValue /\ ~raised =>
    \/ Refuted
    \/ /\ Composed /\ state.plan = <<>> /\ state.selected # <<>>
       /\ Len(state.selected) < (IF case.shape = "list" THEN case.target ELSE 2)
=============================================================================
