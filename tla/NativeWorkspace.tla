--------------------------- MODULE NativeWorkspace ---------------------------
(***************************************************************************)
(* The bounded working set of the portable runtime: one ac_workspace_v1    *)
(* and the three calls that drive it, ac_union_candidates_v1,              *)
(* ac_legal_action_mask_v1 and ac_execute_action_v1                        *)
(* (native/aethercore_runtime/src/aethercore_runtime.cpp).                 *)
(*                                                                         *)
(* A host thread owns the workspace, so calls do not overlap; the loop of  *)
(* ac_union_candidates_v1 is one step per source element, because it can   *)
(* return early in the middle of a batch, and no other call is enabled     *)
(* until it has returned.  The candidate array is modelled as a function   *)
(* from entity ids: the code compares entities by id only, every search    *)
(* is by id, and candidate_before is a strict total order on distinct ids, *)
(* so the position in the array is never observed.  An evidence mask is    *)
(* the set of its bits.                                                    *)
(***************************************************************************)
EXTENDS Integers, Sequences, FiniteSets

CONSTANTS
  MaxEntity,      \* largest entity id (2^64 - 1 in the ABI); id 0 is invalid
  MinScore,       \* smallest score_q15 (int32)
  MaxScore,       \* largest score_q15
  EvidenceBits,   \* the bits of an evidence mask
  MaxCandidates,  \* AC_MAX_CANDIDATES (32)
  MaxSelected,    \* AC_MAX_SELECTED (8)
  MaxSteps,       \* the step cap of the legal mask (64)
  Batches,        \* the incoming arrays a host may pass
  MaxUnions,      \* model bound: union calls per workspace
  MaxInvalid      \* model bound: rejected actions counted

Score == MinScore .. MaxScore
Entity == 1 .. MaxEntity
Payload == [score_q15 : Score, evidence_mask : SUBSET EvidenceBits]
Incoming == [entity_id : 0 .. MaxEntity, score_q15 : Score,
             evidence_mask : SUBSET EvidenceBits]

ASSUME BoundsAssumption ==
  /\ MaxEntity \in Nat
  /\ MinScore \in Int
  /\ MaxScore \in Int
  /\ MaxCandidates \in Nat \ {0}
  /\ MaxSelected \in Nat
  /\ MaxSteps \in Nat
  /\ MaxUnions \in Nat
  /\ MaxInvalid \in Nat

ASSUME BatchesAssumption == Batches \subseteq Seq(Incoming)

Action == {"SEARCH_KNOWLEDGE", "SELECT_EVIDENCE", "BUILD_PLAN", "VERIFY_PLAN",
           "ANSWER", "ASK_CLARIFICATION", "ABSTAIN"}
Disposition == {"NONE", "ANSWER", "CLARIFICATION", "ABSTAIN"}
EndingActions == {"ANSWER", "ASK_CLARIFICATION", "ABSTAIN"}

VARIABLES
  candidates,           \* entity id -> payload, at most MaxCandidates of them
  selected,             \* selected_entity_ids[0 .. selected_count)
  plan_ready,           \* AC_WORKSPACE_PLAN_READY
  verified,             \* AC_WORKSPACE_VERIFIED
  disposition,          \* terminal_disposition
  last_action,
  step_count,
  invalid_action_count,
  call,                 \* the union call in progress, or idle
  unions                \* union calls made so far (model bound)

vars == <<candidates, selected, plan_ready, verified, disposition, last_action,
          step_count, invalid_action_count, call, unions>>

(* AC_WORKSPACE_TERMINAL is set exactly where terminal_disposition is.      *)
terminal == disposition # "NONE"

Idle == [state |-> "idle"]
CallOf(b, source, entry) ==
  [state |-> "union", batch |-> b, source |-> source, entry |-> entry]
InUnion == call.state = "union"

count == Cardinality(DOMAIN candidates)

HasRoom == count < MaxCandidates

(* Strict order of the sort, of max_element and of the eviction test:       *)
(* higher score first, then lower id.                                       *)
candidate_before(lid, l, rid, r) ==
  \/ l.score_q15 > r.score_q15
  \/ l.score_q15 = r.score_q15 /\ lid < rid

MaxOf(S) == CHOOSE m \in S : \A s \in S : s <= m

(* The batch entries with the id of entry i: their best score and the union *)
(* of their masks, the value the code folds into `aggregate'.               *)
SameId(b, i) == {j \in 1 .. Len(b) : b[j].entity_id = b[i].entity_id}
Aggregate(b, i) ==
  [score_q15 |-> MaxOf({b[j].score_q15 : j \in SameId(b, i)}),
   evidence_mask |-> UNION {b[j].evidence_mask : j \in SameId(b, i)}]
AlreadyAggregated(b, i) == \E j \in SameId(b, i) : j < i

Merge(old, new) ==
  [score_q15 |-> MaxOf({old.score_q15, new.score_q15}),
   evidence_mask |-> old.evidence_mask \cup new.evidence_mask]

BestAsWorst(c) ==                                \* mutant: min_element
  CHOOSE e \in DOMAIN c :
    \A f \in DOMAIN c : f = e \/ candidate_before(e, c[e], f, c[f])
(* std::max_element under candidate_before: the entity every other precedes *)
Worst(c) ==
  CHOOSE e \in DOMAIN c :
    \A f \in DOMAIN c : f = e \/ candidate_before(f, c[f], e, c[e])

Put(c, e, p) == [x \in DOMAIN c \cup {e} |-> IF x = e THEN p ELSE c[x]]
Drop(c, e) == [x \in DOMAIN c \ {e} |-> c[x]]

Workspace0 ==
  /\ candidates = [x \in {} |-> x]
  /\ selected = <<>>
  /\ plan_ready = FALSE
  /\ verified = FALSE
  /\ disposition = "NONE"
  /\ last_action = "SEARCH_KNOWLEDGE"    \* memset to 0
  /\ step_count = 0
  /\ invalid_action_count = 0

Init == Workspace0 /\ call = Idle /\ unions = 0

----------------------------------------------------------------------------
(* ac_union_candidates_v1                                                   *)

unchangedByUnion == <<selected, plan_ready, verified, disposition, last_action,
                      step_count, invalid_action_count>>

UnionCall ==
  /\ call = Idle
  /\ unions < MaxUnions
  /\ \E b \in Batches : call' = CallOf(b, 1, candidates)
  /\ unions' = unions + 1
  /\ UNCHANGED <<candidates, unchangedByUnion>>

AtSource == InUnion /\ call.source <= Len(call.batch)
Source == call.batch[call.source]
Advance == call' = CallOf(call.batch, call.source + 1, call.entry)

(* A zero id ends the call with AC_INVALID_ARGUMENT: what earlier entries   *)
(* of the batch did to the workspace stays.                                 *)
UnionReject ==
  /\ AtSource
  /\ Source.entity_id = 0
  /\ call' = Idle
  /\ UNCHANGED <<candidates, unchangedByUnion, unions>>

UnionSkip ==
  /\ AtSource
  /\ Source.entity_id # 0
  /\ AlreadyAggregated(call.batch, call.source)
  /\ Advance
  /\ UNCHANGED <<candidates, unchangedByUnion, unions>>

UnionMerge ==
  /\ AtSource
  /\ Source.entity_id # 0
  /\ ~AlreadyAggregated(call.batch, call.source)
  /\ Source.entity_id \in DOMAIN candidates
  /\ candidates' = [candidates EXCEPT ![Source.entity_id] =
                      Merge(@, Aggregate(call.batch, call.source))]
  /\ Advance
  /\ UNCHANGED <<unchangedByUnion, unions>>

UnionInsert ==
  /\ AtSource
  /\ Source.entity_id # 0
  /\ ~AlreadyAggregated(call.batch, call.source)
  /\ Source.entity_id \notin DOMAIN candidates
  /\ HasRoom
  /\ candidates' = Put(candidates, Source.entity_id,
                       Aggregate(call.batch, call.source))
  /\ Advance
  /\ UNCHANGED <<unchangedByUnion, unions>>

(* Full workspace: the newcomer replaces the worst candidate or is dropped. *)
UnionEvict ==
  /\ AtSource
  /\ Source.entity_id # 0
  /\ ~AlreadyAggregated(call.batch, call.source)
  /\ Source.entity_id \notin DOMAIN candidates
  /\ ~HasRoom
  /\ LET new == Aggregate(call.batch, call.source)
         w == Worst(candidates)
     IN candidates' =
          IF candidate_before(Source.entity_id, new, w, candidates[w])
          THEN Put(Drop(candidates, w), Source.entity_id, new)
          ELSE candidates
  /\ Advance
  /\ UNCHANGED <<unchangedByUnion, unions>>

(* End of the batch: the final sort only reorders the array.                *)
UnionReturn ==
  /\ InUnion
  /\ call.source > Len(call.batch)
  /\ call' = Idle
  /\ UNCHANGED <<candidates, unchangedByUnion, unions>>

UnionStep ==
  \/ UnionReject \/ UnionSkip \/ UnionMerge \/ UnionInsert \/ UnionEvict
  \/ UnionReturn

----------------------------------------------------------------------------
(* ac_legal_action_mask_v1 and ac_execute_action_v1                         *)

Running == ~terminal /\ step_count < MaxSteps
AnswerOnPlan == plan_ready                       \* mutant: VERIFIED not asked
AnswerLegal == verified
LegalActions ==
  {a \in Action :
     /\ Running
     /\ a = "SELECT_EVIDENCE" => count > 0 /\ Len(selected) < MaxSelected
     /\ a = "BUILD_PLAN" => Len(selected) > 0
     /\ a = "VERIFY_PLAN" => plan_ready
     /\ a = "ANSWER" => AnswerLegal
     /\ a = "ASK_CLARIFICATION" => count > 1 /\ Len(selected) = 0}

TakenUncounted(a) ==                             \* mutant: step not counted
  /\ last_action' = a
  /\ UNCHANGED <<step_count, candidates, invalid_action_count, call, unions>>
Taken(a) ==
  /\ last_action' = a
  /\ step_count' = step_count + 1
  /\ UNCHANGED <<candidates, invalid_action_count, call, unions>>

Rejected ==
  /\ invalid_action_count < MaxInvalid
  /\ invalid_action_count' = invalid_action_count + 1
  /\ UNCHANGED <<candidates, selected, plan_ready, verified, disposition,
                 last_action, step_count, call, unions>>

IllegalAction ==
  /\ call = Idle
  /\ \E a \in Action : a \notin LegalActions
  /\ Rejected

(* SEARCH_KNOWLEDGE only counts a step; its results arrive by a union call. *)
Search ==
  /\ call = Idle
  /\ "SEARCH_KNOWLEDGE" \in LegalActions
  /\ Taken("SEARCH_KNOWLEDGE")
  /\ UNCHANGED <<selected, plan_ready, verified, disposition>>

IsSelected(e) == \E i \in 1 .. Len(selected) : selected[i] = e
Backed(e) == e \in DOMAIN candidates /\ candidates[e].evidence_mask # {}
SelectableAgain(e) == Backed(e)                  \* mutant: no duplicate test
Selectable(e) == Backed(e) /\ ~IsSelected(e)

Select(e) ==
  /\ call = Idle
  /\ "SELECT_EVIDENCE" \in LegalActions
  /\ Selectable(e)
  /\ selected' = Append(selected, e)
  /\ Taken("SELECT_EVIDENCE")
  /\ UNCHANGED <<plan_ready, verified, disposition>>

SelectRefused(e) ==
  /\ call = Idle
  /\ "SELECT_EVIDENCE" \in LegalActions
  /\ ~Selectable(e)
  /\ Rejected

BuildPlan ==
  /\ call = Idle
  /\ "BUILD_PLAN" \in LegalActions
  /\ plan_ready' = TRUE
  /\ verified' = FALSE
  /\ Taken("BUILD_PLAN")
  /\ UNCHANGED <<selected, disposition>>

Supported ==
  /\ Len(selected) > 0
  /\ \A i \in 1 .. Len(selected) : Backed(selected[i])

VerifyPlan ==
  /\ call = Idle
  /\ "VERIFY_PLAN" \in LegalActions
  /\ Supported
  /\ verified' = TRUE
  /\ Taken("VERIFY_PLAN")
  /\ UNCHANGED <<selected, plan_ready, disposition>>

(* A failed verification leaves an earlier VERIFIED flag in place.          *)
VerifyRefused ==
  /\ call = Idle
  /\ "VERIFY_PLAN" \in LegalActions
  /\ ~Supported
  /\ Rejected

Ending(a) == CASE a = "ANSWER" -> "ANSWER"
               [] a = "ASK_CLARIFICATION" -> "CLARIFICATION"
               [] a = "ABSTAIN" -> "ABSTAIN"

Finish(a) ==
  /\ call = Idle
  /\ a \in LegalActions
  /\ disposition' = Ending(a)
  /\ Taken(a)
  /\ UNCHANGED <<selected, plan_ready, verified>>

Execute ==
  \/ Search
  \/ \E e \in Entity : Select(e)
  \/ BuildPlan
  \/ VerifyPlan
  \/ \E a \in EndingActions : Finish(a)

Refuse ==
  \/ IllegalAction
  \/ \E e \in Entity : SelectRefused(e)
  \/ VerifyRefused

(* The controller has nothing more to do: ac_policy_select_v1 answers       *)
(* AC_NO_LEGAL_ACTION and the episode rests.                                *)
Rest == call = Idle /\ LegalActions = {} /\ UNCHANGED vars

Next == UnionCall \/ UnionStep \/ Execute \/ Refuse \/ Rest

Spec == Init /\ [][Next]_vars

(* The host finishes the union call it is in, and while some action is      *)
(* legal the policy picks one (ac_policy_select_v1 never fails then).       *)
FairSpec == Spec /\ WF_vars(UnionStep) /\ WF_vars(Execute)

----------------------------------------------------------------------------
(* The reference: union by id, then one global cap                          *)
(* (edge_runtime/reference.py, Workspace.union_candidates).                 *)

BatchIds(b) == {b[i].entity_id : i \in 1 .. Len(b)}
RefUnion(c, b) ==
  [e \in DOMAIN c \cup BatchIds(b) |->
     LET scores == {b[i].score_q15 : i \in {j \in 1 .. Len(b) : b[j].entity_id = e}}
         masks == {b[i].evidence_mask : i \in {j \in 1 .. Len(b) : b[j].entity_id = e}}
     IN IF e \in DOMAIN c
        THEN [score_q15 |-> MaxOf(scores \cup {c[e].score_q15}),
              evidence_mask |-> c[e].evidence_mask \cup UNION masks]
        ELSE [score_q15 |-> MaxOf(scores), evidence_mask |-> UNION masks]]
RefCap(c) ==
  LET ahead(e) == {f \in DOMAIN c : candidate_before(f, c[f], e, c[e])}
  IN [e \in {x \in DOMAIN c : Cardinality(ahead(x)) < MaxCandidates} |-> c[e]]
ReferenceUnion(c, b) == RefCap(RefUnion(c, b))

----------------------------------------------------------------------------
(* Properties                                                               *)

(* The types of the ABI: every id, score and mask is in range and the call  *)
(* cursor stays inside its batch (ac_workspace_v1, valid_workspace).        *)
CandidateMap == UNION {[D -> Payload] : D \in SUBSET Entity}
CallType ==
  \/ call = Idle
  \/ /\ call = CallOf(call.batch, call.source, call.entry)
     /\ call.batch \in Batches
     /\ call.source \in 1 .. Len(call.batch) + 1
     /\ call.entry \in CandidateMap
TypeOK ==
  /\ candidates \in CandidateMap
  /\ selected \in Seq(Entity)
  /\ plan_ready \in BOOLEAN
  /\ verified \in BOOLEAN
  /\ disposition \in Disposition
  /\ last_action \in Action
  /\ step_count \in Nat
  /\ invalid_action_count \in 0 .. MaxInvalid
  /\ CallType
  /\ unions \in 0 .. MaxUnions

(* The fixed arrays never overflow: insertion with eviction, selection and  *)
(* the step counter stay within AC_MAX_CANDIDATES, AC_MAX_SELECTED and the  *)
(* step cap whatever the host passes in, and the selections are not filled  *)
(* with one entity that was evicted and offered again between two           *)
(* SELECT_EVIDENCE actions.                                                 *)
Bounded ==
  /\ count <= MaxCandidates
  /\ Len(selected) <= MaxSelected
  /\ step_count <= MaxSteps
SelectedDistinct ==
  \A i, j \in 1 .. Len(selected) : selected[i] = selected[j] => i = j
WithinCapacity == Bounded /\ SelectedDistinct

(* An ANSWER disposition is only reached with a plan that was built and     *)
(* verified after its last rebuild over at least one selected entity        *)
(* (ac_execute_action_v1: ANSWER is legal only under the VERIFIED flag).    *)
AnswerNeedsVerification ==
  /\ verified => plan_ready
  /\ plan_ready => Len(selected) > 0
  /\ disposition = "ANSWER" => verified

(* When nothing the workspace holds can be both evicted and offered again   *)
(* by the same batch, the streaming eviction is at every entry the capped   *)
(* union of what it has gone through: a batch that is refused in the middle *)
(* leaves no more and no less, and a whole one the reference's union.       *)
Seen(b, s) == {b[i].entity_id : i \in 1 .. s - 1}
Processed(c, b, s) ==
  [e \in DOMAIN c \cup Seen(b, s) |-> IF e \in Seen(b, s) THEN RefUnion(c, b)[e] ELSE c[e]]
Separate(c, b) ==
  DOMAIN c \cap BatchIds(b) = {} \/ Cardinality(DOMAIN c \cup BatchIds(b)) <= MaxCandidates
StreamingMatchesReference ==
  LET b == call.batch
  IN InUnion /\ Separate(call.entry, b) =>
       /\ candidates = RefCap(Processed(call.entry, b, call.source))
       /\ call.source > Len(b) => candidates = ReferenceUnion(call.entry, b)

(* Once a disposition is recorded, nothing a later call does touches it, or *)
(* the selection, plan and verification it was given over.  An action is    *)
(* refused, which counts it and changes nothing else; a union, which asks   *)
(* for no disposition, may still change the candidates and nothing else.    *)
TerminalIsFinal ==
  [][terminal =>
       /\ UNCHANGED <<disposition, selected, plan_ready, verified, last_action, step_count>>
       /\ \/ candidates' = candidates
          \/ InUnion /\ invalid_action_count' = invalid_action_count
       /\ invalid_action_count' \in {invalid_action_count, invalid_action_count + 1}]_vars

(* An episode in which candidates were offered reaches a state without      *)
(* legal actions: a disposition, or the step cap.                           *)
EpisodeEnds == unions > 0 ~> LegalActions = {}

(* "Monotone canonical-ID union followed by one deterministic global K=32   *)
(* cap" (aethercore_runtime.h:281), for every batch: the result of          *)
(* ac_union_candidates_v1 is the union of workspace and batch, capped once. *)
UnionMatchesReference ==
  (InUnion /\ call.source > Len(call.batch)) =>
    candidates = ReferenceUnion(call.entry, call.batch)

(* "unsupported answers are structurally impossible to emit" (README.md:6): *)
(* when ANSWER is recorded every selected entity is a candidate with        *)
(* evidence, the condition VERIFY_PLAN checks.                              *)
AnswerSupported ==
  [][disposition # "ANSWER" /\ disposition' = "ANSWER" => Supported]_vars

============================================================================
