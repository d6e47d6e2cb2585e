----------------------------- MODULE NativeProofs -----------------------------
(***************************************************************************)
(* The native runtime: the candidate workspace of a session and its        *)
(* progress accounting.                                                    *)
(***************************************************************************)
EXTENDS NativeWorkspace, NativeProgress, FiniteSetTheorems, SequenceTheorems,
        Inductions

----------------------------------------------------------------------------
(* Workspace.                                                               *)
(* Theorems about NativeWorkspace for every capacity, id range, score       *)
(* range and set of incoming batches.                                       *)

(* A nonempty set of integers that is bounded above has a largest element. *)
LEMMA LargestExists ==
  ASSUME NEW S \in SUBSET Int, S # {}, NEW hi \in Int, \A s \in S : s <= hi
  PROVE  /\ MaxOf(S) \in S
         /\ \A s \in S : s <= MaxOf(S)
<1> DEFINE T == {n \in Nat : hi - n \in S}
<1>1. T \subseteq Nat /\ T # {}
  <2>1. PICK s \in S : TRUE
    OBVIOUS
  <2>2. hi - s \in Nat /\ hi - (hi - s) = s
    BY <2>1
  <2> QED
    BY <2>1, <2>2
<1>2. \E x \in T : \A y \in T : x <= y
  <2> HIDE DEF T
  <2> QED
    BY <1>1, LeastNumber
<1>3. PICK x \in T : \A y \in T : x <= y
  BY <1>2
<1>4. \A y \in T : ~(y < x)
  BY <1>3
<1>5. \A s \in S : s <= hi - x
  <2> SUFFICES ASSUME NEW s \in S PROVE s <= hi - x
    OBVIOUS
  <2>1. hi - s \in Nat /\ hi - (hi - s) = s
    OBVIOUS
  <2>2. hi - s \in T
    BY <2>1
  <2>3. ~(hi - s < x)
    BY <1>4, <2>2
  <2>4. x \in Nat /\ s \in Int
    OBVIOUS
  <2> HIDE DEF T
  <2> QED
    BY <2>3, <2>4
<1>6. \E m \in S : \A s \in S : s <= m
  BY <1>3, <1>5
<1> QED
  BY <1>6 DEF MaxOf

(* A nonempty set of integers that is bounded below has a smallest one.     *)
LEMMA SmallestExists ==
  ASSUME NEW S \in SUBSET Int, S # {}, NEW lo \in Int, \A s \in S : lo <= s
  PROVE  \E m \in S : \A s \in S : m <= s
<1> DEFINE T == {n \in Nat : lo + n \in S}
<1>1. T \subseteq Nat /\ T # {}
  <2>1. PICK s \in S : TRUE
    OBVIOUS
  <2>2. s - lo \in Nat /\ lo + (s - lo) = s
    BY <2>1
  <2> QED
    BY <2>1, <2>2
<1>2. \E x \in T : \A y \in T : x <= y
  <2> HIDE DEF T
  <2> QED
    BY <1>1, LeastNumber
<1>3. PICK x \in T : \A y \in T : x <= y
  BY <1>2
<1>4. \A y \in T : ~(y < x)
  BY <1>3
<1>5. \A s \in S : lo + x <= s
  <2> SUFFICES ASSUME NEW s \in S PROVE lo + x <= s
    OBVIOUS
  <2>1. s - lo \in Nat /\ lo + (s - lo) = s
    OBVIOUS
  <2>2. s - lo \in T
    BY <2>1
  <2>3. ~(s - lo < x)
    BY <1>4, <2>2
  <2>4. x \in Nat /\ s \in Int
    OBVIOUS
  <2> HIDE DEF T
  <2> QED
    BY <2>3, <2>4
<1> QED
  BY <1>3, <1>5

(* What ac_union_candidates_v1 folds over the equal ids of a batch is again *)
(* a score in range and a mask.                                             *)
LEMMA AggregateType ==
  ASSUME NEW b \in Batches, NEW i \in 1 .. Len(b)
  PROVE  Aggregate(b, i) \in Payload
<1> USE BoundsAssumption, BatchesAssumption
<1>1. b \in Seq(Incoming)
  OBVIOUS
<1>2. \A j \in 1 .. Len(b) : b[j] \in Incoming
  BY <1>1
<1>3. i \in SameId(b, i) /\ SameId(b, i) \subseteq 1 .. Len(b)
  BY DEF SameId
<1> DEFINE S == {b[j].score_q15 : j \in SameId(b, i)}
<1>4. S # {} /\ S \in SUBSET Score
  BY <1>2, <1>3 DEF Incoming
<1>5. MaxOf(S) \in S
  <2>1. S \in SUBSET Int /\ \A s \in S : s <= MaxScore
    BY <1>4 DEF Score
  <2> HIDE DEF S
  <2> QED BY <1>4, <2>1, LargestExists
<1>6. UNION {b[j].evidence_mask : j \in SameId(b, i)} \in SUBSET EvidenceBits
  BY <1>2, <1>3 DEF Incoming
<1> QED
  BY <1>4, <1>5, <1>6 DEF Aggregate, Payload

(* Merging two payloads gives a payload.                                    *)
LEMMA MergeType ==
  ASSUME NEW p \in Payload, NEW q \in Payload
  PROVE  Merge(p, q) \in Payload
<1> USE BoundsAssumption
<1> DEFINE S == {p.score_q15, q.score_q15}
<1>1. S # {} /\ S \in SUBSET Score
  BY DEF Payload
<1>2. MaxOf(S) \in S
  <2>1. S \in SUBSET Int /\ \A s \in S : s <= MaxScore
    BY <1>1 DEF Score
  <2> HIDE DEF S
  <2> QED BY <1>1, <2>1, LargestExists
<1> QED
  BY <1>1, <1>2 DEF Merge, Payload

(* A nonempty workspace has a worst candidate, the one max_element returns. *)
LEMMA WorstExists ==
  ASSUME NEW c \in CandidateMap, DOMAIN c # {}
  PROVE  /\ Worst(c) \in DOMAIN c
         /\ \A f \in DOMAIN c :
              f = Worst(c) \/ candidate_before(f, c[f], Worst(c), c[Worst(c)])
<1> USE BoundsAssumption
<1>1. DOMAIN c \subseteq Entity /\ \A e \in DOMAIN c : c[e] \in Payload
  BY DEF CandidateMap
<1> DEFINE S == {c[e].score_q15 : e \in DOMAIN c}
<1>2. S \in SUBSET Int /\ S # {} /\ \A s \in S : MinScore <= s
  BY <1>1 DEF Payload, Score
<1>3. PICK low \in S : \A s \in S : low <= s
  <2> HIDE DEF S
  <2> QED BY <1>2, SmallestExists
<1> DEFINE L == {e \in DOMAIN c : c[e].score_q15 = low}
<1>4. L \in SUBSET Int /\ L # {} /\ \A e \in L : e <= MaxEntity
  BY <1>1, <1>3 DEF Entity
<1>5. PICK w \in L : \A e \in L : e <= w
  <2>1. MaxEntity \in Int
    OBVIOUS
  <2> HIDE DEF L
  <2> QED BY <1>4, <2>1, LargestExists
<1>6. w \in DOMAIN c /\ \A f \in DOMAIN c : f = w \/ candidate_before(f, c[f], w, c[w])
  <2>1. w \in DOMAIN c /\ c[w].score_q15 = low
    BY <1>5
  <2> SUFFICES ASSUME NEW f \in DOMAIN c, f # w
               PROVE  candidate_before(f, c[f], w, c[w])
    BY <2>1
  <2>2. c[f].score_q15 \in Int /\ low <= c[f].score_q15 /\ low \in Int
    BY <1>1, <1>2, <1>3 DEF Payload, Score
  <2>3. CASE c[f].score_q15 = low
    <3>1. f \in L
      BY <2>3
    <3>2. f <= w /\ f \in Int /\ w \in Int
      BY <1>4, <1>5, <3>1
    <3> QED
      BY <2>1, <2>3, <3>2 DEF candidate_before
  <2>4. CASE c[f].score_q15 # low
    BY <2>1, <2>2, <2>4 DEF candidate_before
  <2> QED
    BY <2>3, <2>4
<1> QED
  BY <1>6 DEF Worst

----------------------------------------------------------------------------
(* Arrays and counters: the shape of one call and of one executed action.  *)

(* There are finitely many entity ids. *)
LEMMA EntityFinite == IsFiniteSet(Entity)
<1>1. 1 \in Int /\ MaxEntity \in Int
  BY BoundsAssumption
<1> QED
  BY <1>1, FS_Interval DEF Entity

(* Inserting into a workspace with room, or replacing its worst candidate,  *)
(* keeps the array typed and within AC_MAX_CANDIDATES.                      *)
LEMMA InsertKeepsCapacity ==
  ASSUME NEW c \in CandidateMap, NEW e \in Entity, NEW p \in Payload,
         e \notin DOMAIN c, Cardinality(DOMAIN c) < MaxCandidates
  PROVE  /\ Put(c, e, p) \in CandidateMap
         /\ Cardinality(DOMAIN Put(c, e, p)) <= MaxCandidates
<1> USE BoundsAssumption
<1>1. DOMAIN c \in SUBSET Entity /\ c \in [DOMAIN c -> Payload]
  BY DEF CandidateMap
<1>2. IsFiniteSet(DOMAIN c)
  BY <1>1, EntityFinite, FS_Subset
<1>3. DOMAIN Put(c, e, p) = DOMAIN c \cup {e}
  BY DEF Put
<1>4. Put(c, e, p) \in [DOMAIN c \cup {e} -> Payload]
  BY <1>1 DEF Put
<1>5. Put(c, e, p) \in CandidateMap
  BY <1>1, <1>4 DEF CandidateMap
<1>6. Cardinality(DOMAIN c) \in Nat
  BY <1>2, FS_CardinalityType
<1>7. Cardinality(DOMAIN c \cup {e}) = Cardinality(DOMAIN c) + 1
  BY <1>2, FS_AddElement
<1> QED
  BY <1>3, <1>5, <1>6, <1>7

(* The same for an eviction: one candidate leaves, one enters.              *)
LEMMA EvictKeepsCapacity ==
  ASSUME NEW c \in CandidateMap, NEW e \in Entity, NEW p \in Payload,
         e \notin DOMAIN c, NEW w \in DOMAIN c,
         Cardinality(DOMAIN c) <= MaxCandidates
  PROVE  /\ Put(Drop(c, w), e, p) \in CandidateMap
         /\ Cardinality(DOMAIN Put(Drop(c, w), e, p)) <= MaxCandidates
<1> USE BoundsAssumption
<1>1. DOMAIN c \in SUBSET Entity /\ c \in [DOMAIN c -> Payload]
  BY DEF CandidateMap
<1>2. IsFiniteSet(DOMAIN c)
  BY <1>1, EntityFinite, FS_Subset
<1>3. Drop(c, w) \in CandidateMap /\ DOMAIN Drop(c, w) = DOMAIN c \ {w}
  <2>1. Drop(c, w) \in [DOMAIN c \ {w} -> Payload]
    BY <1>1 DEF Drop
  <2>2. DOMAIN c \ {w} \in SUBSET Entity
    BY <1>1
  <2> QED
    BY <2>1, <2>2 DEF CandidateMap
<1>4. Cardinality(DOMAIN c) \in Nat
  BY <1>2, FS_CardinalityType
<1>5. Cardinality(DOMAIN c \ {w}) = Cardinality(DOMAIN c) - 1
  BY <1>2, FS_RemoveElement
<1>6. Cardinality(DOMAIN Drop(c, w)) < MaxCandidates
  BY <1>3, <1>4, <1>5
<1>7. e \notin DOMAIN Drop(c, w)
  BY <1>3
<1> QED
  BY <1>3, <1>6, <1>7, InsertKeepsCapacity

(* The inductive invariant: the types, the capacities and the flag order    *)
(* need each other (a full array has a worst candidate only if it is typed; *)
(* the selected array is typed only while SELECT takes ids of candidates).  *)
Inv == TypeOK /\ Bounded /\ AnswerNeedsVerification /\ SelectedDistinct

(* A freshly initialised workspace (ac_workspace_init_v1) satisfies it.     *)
LEMMA InitInv == Init => Inv
<1> SUFFICES ASSUME Init PROVE Inv
  OBVIOUS
<1> USE BoundsAssumption DEF Init, Workspace0
<1>1. candidates \in CandidateMap /\ DOMAIN candidates = {}
  BY DEF CandidateMap
<1>2. count = 0
  BY <1>1, FS_EmptySet DEF count
<1>3. TypeOK
  <2>1. selected \in Seq(Entity)
    BY EmptySeq
  <2>2. disposition \in Disposition /\ last_action \in Action
    BY DEF Disposition, Action
  <2>3. step_count \in Nat /\ invalid_action_count \in 0 .. MaxInvalid
        /\ unions \in 0 .. MaxUnions
    OBVIOUS
  <2> QED
    BY <1>1, <2>1, <2>2, <2>3 DEF TypeOK, CallType
<1>4. Bounded
  BY <1>2 DEF Bounded
<1>5. AnswerNeedsVerification /\ SelectedDistinct
  BY DEF AnswerNeedsVerification, SelectedDistinct
<1> QED
  BY <1>3, <1>4, <1>5 DEF Inv

(* What the invariant says while a batch entry is being processed.          *)
LEMMA SourceType ==
  ASSUME TypeOK, AtSource
  PROVE  /\ call.batch \in Batches
         /\ call.source \in 1 .. Len(call.batch)
         /\ call.entry \in CandidateMap
         /\ Source \in Incoming
         /\ Source.entity_id # 0 => Source.entity_id \in Entity
         /\ Aggregate(call.batch, call.source) \in Payload
<1> USE BoundsAssumption, BatchesAssumption
<1>1. call # Idle
  BY DEF AtSource, InUnion, Idle
<1>2. /\ call.batch \in Batches
      /\ call.source \in 1 .. Len(call.batch) + 1
      /\ call.entry \in CandidateMap
  BY <1>1 DEF TypeOK, CallType
<1>3. call.batch \in Seq(Incoming) /\ Len(call.batch) \in Nat
  BY <1>2
<1>4. call.source \in 1 .. Len(call.batch)
  BY <1>2, <1>3 DEF AtSource
<1>5. Source \in Incoming
  BY <1>3, <1>4 DEF Source
<1>6. Source.entity_id # 0 => Source.entity_id \in Entity
  BY <1>5 DEF Incoming, Entity
<1>7. Aggregate(call.batch, call.source) \in Payload
  BY <1>2, <1>4, AggregateType
<1> QED
  BY <1>2, <1>4, <1>5, <1>6, <1>7

(* A loop iteration that moves to the next entry keeps the call typed.      *)
LEMMA AdvanceType ==
  ASSUME TypeOK, AtSource, Advance
  PROVE  CallType'
<1> DEFINE s == call.source + 1
<1>1. /\ call'.batch = call.batch
      /\ call'.source = s
      /\ call'.entry = call.entry
      /\ call' = CallOf(call.batch, s, call.entry)
  BY DEF Advance, CallOf
<1>2. call.source \in 1 .. Len(call.batch) /\ Len(call.batch) \in Nat
      /\ call.batch \in Batches /\ call.entry \in CandidateMap
  BY SourceType, BatchesAssumption
<1>3. s \in 1 .. Len(call.batch) + 1
  BY <1>2
<1> QED
  BY <1>1, <1>2, <1>3 DEF CallType

(* Everything the union steps leave alone keeps its part of the invariant.  *)
LEMMA UnionFrame ==
  ASSUME Inv, UNCHANGED unchangedByUnion, candidates' \in CandidateMap,
         Cardinality(DOMAIN candidates') <= MaxCandidates, CallType',
         unions' \in 0 .. MaxUnions
  PROVE  Inv'
<1> USE DEF Inv, unchangedByUnion
<1>1. TypeOK'
  BY DEF TypeOK
<1>2. Bounded'
  BY DEF Bounded, count
<1>3. AnswerNeedsVerification'
  BY DEF AnswerNeedsVerification
<1>4. SelectedDistinct'
  BY DEF SelectedDistinct
<1> QED
  BY <1>1, <1>2, <1>3, <1>4

(* A step of ac_union_candidates_v1 keeps the invariant: merging, inserting *)
(* and evicting stay within the array, also when the call is cut short.     *)
LEMMA UnionInv == ASSUME Inv, UnionCall \/ UnionStep PROVE Inv'
<1> USE BoundsAssumption
<1>0. TypeOK /\ candidates \in CandidateMap /\ unions \in 0 .. MaxUnions
      /\ Cardinality(DOMAIN candidates) <= MaxCandidates /\ CallType
  BY DEF Inv, TypeOK, Bounded, count
<1>1. CASE UnionCall
  <2>1. PICK b \in Batches : call' = CallOf(b, 1, candidates)
    BY <1>1 DEF UnionCall
  <2>2. call'.batch = b /\ call'.source = 1 /\ call'.entry = candidates
    BY <2>1 DEF CallOf
  <2>3. Len(b) \in Nat
    BY BatchesAssumption
  <2>4. 1 \in 1 .. Len(b) + 1
    BY <2>3
  <2>5. CallType'
    BY <1>0, <2>1, <2>2, <2>4 DEF CallType
  <2>6. unions' \in 0 .. MaxUnions
    BY <1>0, <1>1 DEF UnionCall
  <2> QED
    BY <1>0, <1>1, <2>5, <2>6, UnionFrame DEF UnionCall
<1>2. CASE UnionReject \/ UnionReturn
  <2>1. CallType'
    BY <1>2 DEF UnionReject, UnionReturn, CallType
  <2> QED
    BY <1>0, <1>2, <2>1, UnionFrame DEF UnionReject, UnionReturn
<1>3. CASE UnionSkip
  <2>1. CallType'
    BY <1>0, <1>3, AdvanceType DEF UnionSkip
  <2> QED
    BY <1>0, <1>3, <2>1, UnionFrame DEF UnionSkip
<1>4. CASE UnionMerge
  <2>1. CallType'
    BY <1>0, <1>4, AdvanceType DEF UnionMerge
  <2> DEFINE id == Source.entity_id
             agg == Aggregate(call.batch, call.source)
  <2>2. id \in DOMAIN candidates /\ agg \in Payload
    BY <1>0, <1>4, SourceType DEF UnionMerge
  <2>3. candidates[id] \in Payload /\ DOMAIN candidates \in SUBSET Entity
        /\ candidates \in [DOMAIN candidates -> Payload]
    BY <1>0, <2>2 DEF CandidateMap
  <2>4. Merge(candidates[id], agg) \in Payload
    BY <2>2, <2>3, MergeType
  <2>5. candidates' = [candidates EXCEPT ![id] = Merge(candidates[id], agg)]
    BY <1>4 DEF UnionMerge
  <2>6. candidates' \in [DOMAIN candidates -> Payload]
    BY <2>3, <2>4, <2>5
  <2>7. candidates' \in CandidateMap /\ DOMAIN candidates' = DOMAIN candidates
    BY <2>3, <2>6 DEF CandidateMap
  <2> QED
    BY <1>0, <1>4, <2>1, <2>7, UnionFrame DEF UnionMerge
<1>5. CASE UnionInsert
  <2>1. CallType'
    BY <1>0, <1>5, AdvanceType DEF UnionInsert
  <2>2. /\ Source.entity_id \in Entity
        /\ Aggregate(call.batch, call.source) \in Payload
    BY <1>0, <1>5, SourceType DEF UnionInsert
  <2>3. candidates' \in CandidateMap /\ Cardinality(DOMAIN candidates') <= MaxCandidates
    BY <1>0, <1>5, <2>2, InsertKeepsCapacity DEF UnionInsert, HasRoom, count
  <2> QED
    BY <1>0, <1>5, <2>1, <2>3, UnionFrame DEF UnionInsert
<1>6. CASE UnionEvict
  <2>1. CallType'
    BY <1>0, <1>6, AdvanceType DEF UnionEvict
  <2>2. /\ Source.entity_id \in Entity
        /\ Aggregate(call.batch, call.source) \in Payload
    BY <1>0, <1>6, SourceType DEF UnionEvict
  <2>3. DOMAIN candidates # {}
    BY <1>6, FS_EmptySet DEF UnionEvict, HasRoom, count
  <2>4. Worst(candidates) \in DOMAIN candidates
    BY <1>0, <2>3, WorstExists
  <2>5. candidates' \in CandidateMap /\ Cardinality(DOMAIN candidates') <= MaxCandidates
    BY <1>0, <1>6, <2>2, <2>4, EvictKeepsCapacity DEF UnionEvict
  <2> QED
    BY <1>0, <1>6, <2>1, <2>5, UnionFrame DEF UnionEvict
<1> QED
  BY <1>1, <1>2, <1>3, <1>4, <1>5, <1>6 DEF UnionStep

(* An executed action keeps the invariant: the flag order BUILD, VERIFY,    *)
(* ANSWER, the selected array and the step cap.                             *)
LEMMA ExecuteInv == ASSUME Inv, Execute PROVE Inv'
<1> USE BoundsAssumption DEF Inv
<1>0. /\ TypeOK /\ Bounded /\ step_count \in Nat /\ selected \in Seq(Entity)
      /\ Len(selected) \in Nat
  BY DEF TypeOK
<1>1. ASSUME NEW a \in Action, a \in LegalActions, Taken(a),
             selected' \in Seq(Entity), Len(selected') <= MaxSelected,
             plan_ready' \in BOOLEAN, verified' \in BOOLEAN,
             disposition' \in Disposition
      PROVE  TypeOK' /\ Bounded'
  <2>1. step_count < MaxSteps
    BY <1>1 DEF LegalActions, Running
  <2>2. TypeOK'
    BY <1>0, <1>1 DEF TypeOK, Taken, CallType, CandidateMap
  <2> QED
    BY <1>0, <1>1, <2>1, <2>2 DEF Bounded, Taken, count
<1>2. CASE Search
  <2>1. TypeOK' /\ Bounded'
    BY <1>0, <1>1, <1>2 DEF Search, TypeOK, Bounded, Action
  <2>2. AnswerNeedsVerification' /\ SelectedDistinct'
    BY <1>2 DEF Search, Taken, AnswerNeedsVerification, SelectedDistinct
  <2> QED
    BY <2>1, <2>2
<1>3. CASE \E e \in Entity : Select(e)
  <2>1. PICK e \in Entity : Select(e)
    BY <1>3
  <2>2. /\ selected' = Append(selected, e)
        /\ Len(selected) < MaxSelected
        /\ ~IsSelected(e)
    BY <2>1 DEF Select, Selectable, LegalActions
  <2>3. selected' \in Seq(Entity) /\ Len(selected') = Len(selected) + 1
    BY <1>0, <2>2
  <2>4. TypeOK' /\ Bounded'
    BY <1>0, <1>1, <2>1, <2>2, <2>3 DEF Select, TypeOK, Action
  <2>5. AnswerNeedsVerification'
    BY <1>0, <2>1, <2>3 DEF Select, Taken, AnswerNeedsVerification
  <2>6. SelectedDistinct'
    <3>1. \A i \in 1 .. Len(selected) : selected'[i] = selected[i] /\ selected[i] # e
      BY <1>0, <2>2 DEF IsSelected
    <3>2. selected'[Len(selected) + 1] = e
      BY <1>0, <2>2
    <3> QED
      BY <1>0, <2>3, <3>1, <3>2 DEF SelectedDistinct
  <2> QED
    BY <2>4, <2>5, <2>6
<1>4. CASE BuildPlan
  <2>1. Len(selected) > 0
    BY <1>4 DEF BuildPlan, LegalActions
  <2>2. TypeOK' /\ Bounded'
    BY <1>0, <1>1, <1>4 DEF BuildPlan, TypeOK, Bounded, Action
  <2>3. AnswerNeedsVerification'
    <3>1. disposition # "ANSWER"
      BY <1>4 DEF BuildPlan, LegalActions, Running, terminal
    <3> QED
      BY <1>4, <2>1, <3>1 DEF BuildPlan, Taken, AnswerNeedsVerification
  <2>4. SelectedDistinct'
    BY <1>4 DEF BuildPlan, SelectedDistinct
  <2> QED
    BY <2>2, <2>3, <2>4
<1>5. CASE VerifyPlan
  <2>1. TypeOK' /\ Bounded'
    BY <1>0, <1>1, <1>5 DEF VerifyPlan, TypeOK, Bounded, Action
  <2>2. AnswerNeedsVerification'
    BY <1>5 DEF VerifyPlan, LegalActions, AnswerNeedsVerification
  <2>3. SelectedDistinct'
    BY <1>5 DEF VerifyPlan, SelectedDistinct
  <2> QED
    BY <2>1, <2>2, <2>3
<1>6. CASE \E a \in EndingActions : Finish(a)
  <2>1. PICK a \in EndingActions : Finish(a)
    BY <1>6
  <2>2. a \in Action /\ Ending(a) \in Disposition /\ (Ending(a) = "ANSWER" => a = "ANSWER")
    BY DEF EndingActions, Action, Ending, Disposition
  <2>3. TypeOK' /\ Bounded'
    BY <1>0, <1>1, <2>1, <2>2 DEF Finish, TypeOK, Bounded
  <2>4. AnswerNeedsVerification'
    BY <2>1, <2>2 DEF Finish, LegalActions, AnswerLegal, AnswerNeedsVerification
  <2>5. SelectedDistinct'
    BY <2>1 DEF Finish, SelectedDistinct
  <2> QED
    BY <2>3, <2>4, <2>5
<1> QED
  BY <1>2, <1>3, <1>4, <1>5, <1>6 DEF Execute

(* A refused action only counts itself.                                     *)
LEMMA RefuseInv == ASSUME Inv, Refuse PROVE Inv'
<1>1. Rejected
  BY DEF Refuse, IllegalAction, SelectRefused, VerifyRefused
<1>2. TypeOK'
  BY <1>1, BoundsAssumption DEF Inv, Rejected, TypeOK, CallType, CandidateMap
<1>3. Bounded' /\ AnswerNeedsVerification' /\ SelectedDistinct'
  BY <1>1 DEF Inv, Rejected, Bounded, count, AnswerNeedsVerification, SelectedDistinct
<1> QED
  BY <1>2, <1>3 DEF Inv

(* A step that changes nothing keeps the invariant.                         *)
LEMMA StutterInv == ASSUME Inv, UNCHANGED vars PROVE Inv'
<1>1. TypeOK'
  BY DEF Inv, vars, TypeOK, CallType, CandidateMap
<1>2. Bounded' /\ AnswerNeedsVerification' /\ SelectedDistinct'
  BY DEF Inv, vars, Bounded, count, AnswerNeedsVerification, SelectedDistinct
<1> QED
  BY <1>1, <1>2 DEF Inv

(* Every reachable workspace satisfies the inductive invariant.             *)
THEOREM WorkspaceInvariant == Spec => []Inv
<1>1. Inv /\ [Next]_vars => Inv'
  BY UnionInv, ExecuteInv, RefuseInv, StutterInv DEF Next, Rest
<1> QED
  BY <1>1, InitInv, PTL DEF Spec

(* valid_workspace holds after every call sequence: ids, scores and masks   *)
(* stay typed.                                                              *)
THEOREM TypeCorrect == Spec => []TypeOK
  BY WorkspaceInvariant, PTL DEF Inv

(* No sequence of unions, selections and actions overflows a fixed array or *)
(* selects an entity twice.                                                 *)
THEOREM CapacityRespected == Spec => []WithinCapacity
<1>1. Inv => WithinCapacity
  BY DEF Inv, WithinCapacity
<1> QED
  BY <1>1, WorkspaceInvariant, PTL

(* ANSWER implies a built and verified plan over a nonempty selection.      *)
THEOREM AnswerVerified == Spec => []AnswerNeedsVerification
  BY WorkspaceInvariant, PTL DEF Inv

(* A recorded disposition is final: no action is legal any more, a refused  *)
(* one is only counted, and a union only reaches the candidates.            *)
THEOREM TerminalFinal == Spec => TerminalIsFinal
<1> DEFINE Kept == UNCHANGED <<disposition, selected, plan_ready, verified, last_action,
                               step_count>>
           Refused == /\ candidates' = candidates
                      /\ invalid_action_count' = invalid_action_count + 1
           United == InUnion /\ invalid_action_count' = invalid_action_count
           Still == UNCHANGED <<candidates, invalid_action_count>>
<1>1. ASSUME [Next]_vars, terminal
      PROVE  Kept /\ (Refused \/ United \/ Still)
  <2>1. LegalActions = {}
    BY <1>1 DEF LegalActions, Running
  <2>2. ~Execute
    BY <2>1 DEF Execute, Search, Select, BuildPlan, VerifyPlan, Finish
  <2>3. CASE UnionCall
    BY <2>3 DEF UnionCall, unchangedByUnion
  <2>4. CASE UnionStep
    BY <2>4 DEF UnionStep, UnionReject, UnionSkip, UnionMerge, UnionInsert, UnionEvict,
                UnionReturn, AtSource, unchangedByUnion
  <2>5. CASE Refuse
    BY <2>5 DEF Refuse, IllegalAction, SelectRefused, VerifyRefused, Rejected
  <2>6. CASE UNCHANGED vars
    BY <2>6 DEF vars
  <2>7. QED BY <1>1, <2>2, <2>3, <2>4, <2>5, <2>6 DEF Next, Rest
<1>2. [Next]_vars =>
        [terminal =>
           /\ Kept
           /\ \/ candidates' = candidates
              \/ InUnion /\ invalid_action_count' = invalid_action_count
           /\ invalid_action_count' \in {invalid_action_count, invalid_action_count + 1}]_vars
  BY <1>1
<1>3. QED BY <1>2, PTL DEF Spec, TerminalIsFinal

----------------------------------------------------------------------------
(* Streaming and the reference.                                             *)
(* The first of a set in an order, as many as there is room for, and how    *)
(* they change when one is added.  An order is the set of its pairs.        *)

StrictOrder(B, X) ==
  /\ \A x \in X : <<x, x>> \notin B
  /\ \A x, y, z \in X : <<x, y>> \in B /\ <<y, z>> \in B => <<x, z>> \in B
  /\ \A x, y \in X : x = y \/ <<x, y>> \in B \/ <<y, x>> \in B
AheadOf(D, B, x) == {f \in D : <<f, x>> \in B}
Top(D, B, M) == {x \in D : Cardinality(AheadOf(D, B, x)) < M}

(* What is ahead of one member is finite and leaves the member out.         *)
LEMMA AheadFinite ==
  ASSUME NEW D, IsFiniteSet(D), NEW B, NEW x
  PROVE  /\ IsFiniteSet(AheadOf(D, B, x)) /\ Cardinality(AheadOf(D, B, x)) \in Nat
         /\ AheadOf(D, B, x) \subseteq D
<1>1. AheadOf(D, B, x) \subseteq D
  BY DEF AheadOf
<1>2. QED BY <1>1, FS_Subset, FS_CardinalityType

(* A set with room for all is its own top.                                  *)
LEMMA TopOfFew ==
  ASSUME NEW D, IsFiniteSet(D), NEW B, StrictOrder(B, D), NEW M \in Nat, Cardinality(D) <= M
  PROVE  Top(D, B, M) = D
<1>1. SUFFICES ASSUME NEW x \in D PROVE Cardinality(AheadOf(D, B, x)) < M
  BY DEF Top
<1>2. AheadOf(D, B, x) \subseteq D /\ AheadOf(D, B, x) # D
  BY DEF AheadOf, StrictOrder
<1>3. /\ Cardinality(AheadOf(D, B, x)) <= Cardinality(D)
      /\ Cardinality(AheadOf(D, B, x)) # Cardinality(D)
  BY <1>2, FS_Subset
<1>4. Cardinality(AheadOf(D, B, x)) \in Nat /\ Cardinality(D) \in Nat
  BY AheadFinite, FS_CardinalityType
<1>5. QED BY <1>3, <1>4

(* One that is ahead of another has fewer ahead of it.                      *)
LEMMA AheadFewer ==
  ASSUME NEW D, IsFiniteSet(D), NEW B, StrictOrder(B, D), NEW x \in D, NEW y \in AheadOf(D, B, x)
  PROVE  Cardinality(AheadOf(D, B, y)) < Cardinality(AheadOf(D, B, x))
<1>1. y \in D /\ <<y, x>> \in B
  BY DEF AheadOf
<1>2. AheadOf(D, B, y) \subseteq AheadOf(D, B, x)
  <2>1. SUFFICES ASSUME NEW z \in D, <<z, y>> \in B PROVE <<z, x>> \in B
    BY DEF AheadOf
  <2>2. QED BY <1>1, <2>1 DEF StrictOrder
<1>3. y \notin AheadOf(D, B, y)
  BY <1>1 DEF AheadOf, StrictOrder
<1>4. IsFiniteSet(AheadOf(D, B, x))
  BY AheadFinite
<1>5. /\ Cardinality(AheadOf(D, B, y)) <= Cardinality(AheadOf(D, B, x))
      /\ Cardinality(AheadOf(D, B, y)) # Cardinality(AheadOf(D, B, x))
  BY <1>2, <1>3, <1>4, FS_Subset
<1>6. Cardinality(AheadOf(D, B, y)) \in Nat /\ Cardinality(AheadOf(D, B, x)) \in Nat
  BY AheadFinite
<1>7. QED BY <1>5, <1>6

(* A top with room to spare has left nothing out: the first one left out    *)
(* would have only members of the top ahead of it.                          *)
LEMMA TopWithRoom ==
  ASSUME NEW D, IsFiniteSet(D), NEW B, StrictOrder(B, D), NEW M \in Nat,
         Cardinality(Top(D, B, M)) < M
  PROVE  Top(D, B, M) = D
<1> DEFINE C(x) == Cardinality(AheadOf(D, B, x))
           Out == D \ Top(D, B, M)
           S == {C(x) : x \in Out}
<1>1. \A x \in D : C(x) \in Nat
  BY AheadFinite
<1>2. Top(D, B, M) \subseteq D /\ IsFiniteSet(Top(D, B, M))
  <2>1. Top(D, B, M) \subseteq D
    BY DEF Top
  <2>2. QED BY <2>1, FS_Subset
<1>3. SUFFICES ASSUME Out # {} PROVE FALSE
  BY <1>2
<1>4. PICK m \in S : \A k \in S : m <= k
  <2>1. S \in SUBSET Nat /\ S # {}
    BY <1>1, <1>3
  <2> HIDE DEF S
  <2>2. QED BY <2>1, LeastNumber
<1>5. PICK x \in Out : C(x) = m
  BY <1>4
<1>6. \A y \in Out : C(x) <= C(y)
  BY <1>4, <1>5
<1>7. AheadOf(D, B, x) \subseteq Top(D, B, M)
  <2>1. SUFFICES ASSUME NEW y \in AheadOf(D, B, x), y \in Out PROVE FALSE
    BY DEF AheadOf
  <2>2. C(y) < C(x)
    BY <1>5, <2>1, AheadFewer
  <2>3. C(x) <= C(y) /\ C(x) \in Nat /\ C(y) \in Nat
    BY <1>1, <1>5, <1>6, <2>1
  <2> HIDE DEF C
  <2>4. QED BY <2>2, <2>3
<1>8. C(x) <= Cardinality(Top(D, B, M)) /\ Cardinality(Top(D, B, M)) \in Nat
  BY <1>2, <1>7, FS_Subset, FS_CardinalityType
<1>9. C(x) \in Nat
  BY <1>1, <1>5
<1>10. C(x) < M
  <2> HIDE DEF C
  <2>1. QED BY <1>8, <1>9
<1>11. QED BY <1>5, <1>10 DEF Top

(* The last one of a full top has the others ahead of it and nothing else.  *)
LEMMA LastOfTop ==
  ASSUME NEW D, IsFiniteSet(D), NEW B, StrictOrder(B, D), NEW M \in Nat \ {0},
         Cardinality(Top(D, B, M)) = M, NEW w \in Top(D, B, M),
         \A f \in Top(D, B, M) : f = w \/ <<f, w>> \in B
  PROVE  AheadOf(D, B, w) = Top(D, B, M) \ {w} /\ Cardinality(AheadOf(D, B, w)) = M - 1
<1> DEFINE R == Top(D, B, M)
           A == AheadOf(D, B, w)
<1>1. R \subseteq D /\ IsFiniteSet(R)
  <2>1. R \subseteq D
    BY DEF Top
  <2>2. QED BY <2>1, FS_Subset
<1>2. R \ {w} \subseteq A
  BY <1>1 DEF AheadOf
<1>3. Cardinality(R \ {w}) = M - 1
  BY <1>1, FS_RemoveElement
<1>4. Cardinality(A) < M
  BY DEF Top
<1>5. IsFiniteSet(A) /\ Cardinality(A) \in Nat
  BY AheadFinite
<1>6. Cardinality(R \ {w}) <= Cardinality(A)
      /\ (Cardinality(R \ {w}) = Cardinality(A) => R \ {w} = A)
  BY <1>2, <1>5, FS_Subset
<1> HIDE DEF A, R
<1>7. Cardinality(A) = M - 1
  BY <1>3, <1>4, <1>5, <1>6
<1>8. QED BY <1>3, <1>6, <1>7 DEF A, R

(* One more in a set: those it is ahead of have one more ahead of them.     *)
LEMMA AheadAdded ==
  ASSUME NEW D, NEW B, NEW e, e \notin D, StrictOrder(B, D \cup {e})
  PROVE  /\ StrictOrder(B, D)
         /\ AheadOf(D \cup {e}, B, e) = AheadOf(D, B, e)
         /\ \A x \in D : AheadOf(D \cup {e}, B, x) =
                           IF <<e, x>> \in B THEN AheadOf(D, B, x) \cup {e} ELSE AheadOf(D, B, x)
<1>1. StrictOrder(B, D)
  BY DEF StrictOrder
<1>2. AheadOf(D \cup {e}, B, e) = AheadOf(D, B, e)
  BY DEF AheadOf, StrictOrder
<1>3. \A x \in D : AheadOf(D \cup {e}, B, x) =
                     IF <<e, x>> \in B THEN AheadOf(D, B, x) \cup {e} ELSE AheadOf(D, B, x)
  BY DEF AheadOf
<1>4. QED BY <1>1, <1>2, <1>3

(* Who was left out stays out.                                              *)
LEMMA OutStaysOut ==
  ASSUME NEW D, IsFiniteSet(D), NEW B, NEW e, e \notin D, NEW M \in Nat,
         StrictOrder(B, D \cup {e}), NEW x \in D, x \notin Top(D, B, M)
  PROVE  x \notin Top(D \cup {e}, B, M)
<1>1. ~(Cardinality(AheadOf(D, B, x)) < M)
  BY DEF Top
<1>2. IsFiniteSet(D \cup {e})
  BY FS_AddElement
<1>3. AheadOf(D, B, x) \subseteq AheadOf(D \cup {e}, B, x)
  BY DEF AheadOf
<1>4. /\ Cardinality(AheadOf(D, B, x)) \in Nat
      /\ IsFiniteSet(AheadOf(D \cup {e}, B, x)) /\ Cardinality(AheadOf(D \cup {e}, B, x)) \in Nat
  BY <1>2, AheadFinite
<1>5. Cardinality(AheadOf(D, B, x)) <= Cardinality(AheadOf(D \cup {e}, B, x))
  BY <1>3, <1>4, FS_Subset
<1>6. ~(Cardinality(AheadOf(D \cup {e}, B, x)) < M)
  BY <1>1, <1>4, <1>5
<1>7. QED BY <1>6 DEF Top

(* A newcomer ahead of the last one of a full top takes its place.          *)
LEMMA TopReplaced ==
  ASSUME NEW D, IsFiniteSet(D), NEW B, NEW e, e \notin D, NEW M \in Nat \ {0},
         StrictOrder(B, D \cup {e}), Cardinality(Top(D, B, M)) = M, NEW w \in Top(D, B, M),
         \A f \in Top(D, B, M) : f = w \/ <<f, w>> \in B,
         <<e, w>> \in B
  PROVE  Top(D \cup {e}, B, M) = (Top(D, B, M) \ {w}) \cup {e}
<1> DEFINE X == D \cup {e}
           R == Top(D, B, M)
<1>1. StrictOrder(B, D) /\ IsFiniteSet(X)
  BY AheadAdded, FS_AddElement
<1>2. AheadOf(D, B, w) = R \ {w} /\ Cardinality(AheadOf(D, B, w)) = M - 1 /\ w \in D
  BY <1>1, LastOfTop DEF Top
<1>3. e \in Top(X, B, M)
  <2>1. AheadOf(X, B, e) = AheadOf(D, B, e)
    BY AheadAdded
  <2>2. AheadOf(D, B, e) \subseteq AheadOf(D, B, w)
    BY <1>2 DEF AheadOf, StrictOrder
  <2>3. Cardinality(AheadOf(D, B, e)) <= Cardinality(AheadOf(D, B, w))
    BY <2>2, AheadFinite, FS_Subset
  <2>4. Cardinality(AheadOf(D, B, e)) \in Nat
    BY AheadFinite
  <2>5. Cardinality(AheadOf(X, B, e)) < M
    BY <1>2, <2>1, <2>3, <2>4
  <2>6. QED BY <2>5 DEF Top
<1>4. ASSUME NEW x \in R \ {w} PROVE x \in Top(X, B, M)
  <2>1. x \in D /\ x \in AheadOf(D, B, w)
    BY <1>2, <1>4 DEF Top
  <2>2. Cardinality(AheadOf(D, B, x)) < Cardinality(AheadOf(D, B, w))
    BY <1>1, <1>2, <2>1, AheadFewer
  <2>3. IsFiniteSet(AheadOf(D, B, x)) /\ Cardinality(AheadOf(D, B, x)) \in Nat
    BY AheadFinite
  <2>4. e \notin AheadOf(D, B, x)
    BY AheadFinite
  <2>5. Cardinality(AheadOf(D, B, x) \cup {e}) = Cardinality(AheadOf(D, B, x)) + 1
    BY <2>3, <2>4, FS_AddElement
  <2>6. Cardinality(AheadOf(D, B, x)) < M /\ Cardinality(AheadOf(D, B, x) \cup {e}) < M
    BY <1>2, <2>2, <2>3, <2>5
  <2>7. Cardinality(AheadOf(X, B, x)) < M
    BY <2>1, <2>6, AheadAdded
  <2>8. QED BY <2>1, <2>7 DEF Top
<1>5. w \notin Top(X, B, M)
  <2>1. AheadOf(X, B, w) = AheadOf(D, B, w) \cup {e}
    BY <1>2, AheadAdded
  <2>2. e \notin AheadOf(D, B, w) /\ IsFiniteSet(AheadOf(D, B, w))
    BY AheadFinite
  <2>3. Cardinality(AheadOf(D, B, w) \cup {e}) = (M - 1) + 1
    BY <1>2, <2>2, FS_AddElement
  <2>4. ~(Cardinality(AheadOf(X, B, w)) < M)
    BY <2>1, <2>3
  <2>5. QED BY <2>4 DEF Top
<1>6. \A x \in D : x \notin R => x \notin Top(X, B, M)
  BY OutStaysOut
<1>7. R \subseteq D /\ Top(X, B, M) \subseteq X
  BY DEF Top
<1> HIDE DEF R
<1>8. QED BY <1>3, <1>4, <1>5, <1>6, <1>7 DEF R

(* A newcomer behind the last one of a full top is left out.                *)
LEMMA TopUnchanged ==
  ASSUME NEW D, IsFiniteSet(D), NEW B, NEW e, e \notin D, NEW M \in Nat \ {0},
         StrictOrder(B, D \cup {e}), Cardinality(Top(D, B, M)) = M, NEW w \in Top(D, B, M),
         \A f \in Top(D, B, M) : f = w \/ <<f, w>> \in B,
         <<e, w>> \notin B
  PROVE  Top(D \cup {e}, B, M) = Top(D, B, M)
<1> DEFINE X == D \cup {e}
           R == Top(D, B, M)
<1>1. StrictOrder(B, D) /\ IsFiniteSet(X)
  BY AheadAdded, FS_AddElement
<1>2. w \in D /\ R \subseteq D /\ IsFiniteSet(R)
  <2>1. R \subseteq D
    BY DEF Top
  <2>2. QED BY <2>1, FS_Subset
<1>3. <<w, e>> \in B
  BY <1>2 DEF StrictOrder
<1>4. e \notin Top(X, B, M)
  <2>1. R \subseteq AheadOf(X, B, e)
    <3>1. SUFFICES ASSUME NEW f \in R PROVE <<f, e>> \in B
      BY <1>2 DEF AheadOf
    <3>2. CASE f = w
      BY <1>3, <3>2
    <3>3. CASE f # w
      <4>1. <<f, w>> \in B /\ f \in X /\ w \in X /\ e \in X
        BY <1>2, <3>3
      <4>2. QED BY <1>3, <4>1 DEF StrictOrder
    <3>4. QED BY <3>2, <3>3
  <2>2. IsFiniteSet(AheadOf(X, B, e)) /\ Cardinality(AheadOf(X, B, e)) \in Nat
    BY <1>1, AheadFinite
  <2>3. M <= Cardinality(AheadOf(X, B, e))
    BY <2>1, <2>2, FS_Subset
  <2>4. ~(Cardinality(AheadOf(X, B, e)) < M)
    BY <2>2, <2>3
  <2>5. QED BY <2>4 DEF Top
<1>5. \A y \in D : AheadOf(X, B, y) =
                     IF <<e, y>> \in B THEN AheadOf(D, B, y) \cup {e} ELSE AheadOf(D, B, y)
  BY AheadAdded
<1>6. ASSUME NEW x \in R PROVE x \in Top(X, B, M)
  <2>1. x \in D /\ Cardinality(AheadOf(D, B, x)) < M
    BY <1>6 DEF Top
  <2>2. <<e, x>> \notin B
    <3>1. SUFFICES ASSUME <<e, x>> \in B, x # w PROVE FALSE
      OBVIOUS
    <3>2. <<x, w>> \in B /\ x \in X /\ w \in X /\ e \in X
      BY <1>2, <1>6, <3>1
    <3>3. QED BY <3>1, <3>2 DEF StrictOrder
  <2>3. AheadOf(X, B, x) = AheadOf(D, B, x)
    <3>1. AheadOf(X, B, x) =
            IF <<e, x>> \in B THEN AheadOf(D, B, x) \cup {e} ELSE AheadOf(D, B, x)
      BY <1>5, <2>1
    <3>2. QED BY <2>2, <3>1
  <2>4. QED BY <2>1, <2>3 DEF Top
<1>7. \A x \in D : x \notin R => x \notin Top(X, B, M)
  BY OutStaysOut
<1>8. Top(X, B, M) \subseteq X
  BY DEF Top
<1> HIDE DEF R
<1>9. QED BY <1>2, <1>4, <1>6, <1>7, <1>8 DEF R

(* Candidates in their order: the pairs of which one precedes the other.    *)
Pairs(c) ==
  {q \in (DOMAIN c) \X (DOMAIN c) : candidate_before(q[1], c[q[1]], q[2], c[q[2]])}

(* Scores and, where they tie, ids put distinct candidates in one order.    *)
LEMMA RankOrder ==
  ASSUME NEW c \in CandidateMap
  PROVE  /\ \A f, e \in DOMAIN c :
              <<f, e>> \in Pairs(c) <=> candidate_before(f, c[f], e, c[e])
         /\ StrictOrder(Pairs(c), DOMAIN c)
         /\ IsFiniteSet(DOMAIN c) /\ Cardinality(DOMAIN c) \in Nat
<1>1. DOMAIN c \in SUBSET Entity /\ \A e \in DOMAIN c : c[e] \in Payload
  BY DEF CandidateMap
<1>2. \A e \in DOMAIN c : e \in Int /\ c[e].score_q15 \in Int
  BY <1>1, BoundsAssumption DEF Entity, Payload, Score
<1>3. \A f, e \in DOMAIN c : <<f, e>> \in Pairs(c) <=> candidate_before(f, c[f], e, c[e])
  BY DEF Pairs
<1>4. \A x \in DOMAIN c : <<x, x>> \notin Pairs(c)
  BY <1>2, <1>3 DEF candidate_before
<1>5. \A x, y, z \in DOMAIN c :
        <<x, y>> \in Pairs(c) /\ <<y, z>> \in Pairs(c) => <<x, z>> \in Pairs(c)
  <2>1. SUFFICES ASSUME NEW x \in DOMAIN c, NEW y \in DOMAIN c, NEW z \in DOMAIN c,
                        candidate_before(x, c[x], y, c[y]), candidate_before(y, c[y], z, c[z])
                 PROVE  candidate_before(x, c[x], z, c[z])
    BY <1>3, Zenon
  <2>2. \A i, j, k \in Int : (i < j /\ j < k => i < k) /\ (i > j /\ j > k => i > k)
    OBVIOUS
  <2>3. QED BY <1>2, <2>1, <2>2 DEF candidate_before
<1>6. \A x, y \in DOMAIN c : x = y \/ <<x, y>> \in Pairs(c) \/ <<y, x>> \in Pairs(c)
  <2>1. SUFFICES ASSUME NEW x \in DOMAIN c, NEW y \in DOMAIN c, x # y
                 PROVE  candidate_before(x, c[x], y, c[y]) \/ candidate_before(y, c[y], x, c[x])
    BY <1>3, Zenon
  <2>2. \A i, j \in Int : i < j \/ i = j \/ i > j
    OBVIOUS
  <2>3. \A i, j \in Int : i < j <=> j > i
    OBVIOUS
  <2>4. QED BY <1>2, <2>1, <2>2, <2>3 DEF candidate_before
<1>7. IsFiniteSet(DOMAIN c) /\ Cardinality(DOMAIN c) \in Nat
  BY <1>1, EntityFinite, FS_Subset, FS_CardinalityType
<1>8. QED BY <1>3, <1>4, <1>5, <1>6, <1>7 DEF StrictOrder

(* The cap keeps the top.                                                   *)
LEMMA CapIsTop ==
  ASSUME NEW c \in CandidateMap
  PROVE  RefCap(c) = [e \in Top(DOMAIN c, Pairs(c), MaxCandidates) |-> c[e]]
<1>1. \A f, e \in DOMAIN c : <<f, e>> \in Pairs(c) <=> candidate_before(f, c[f], e, c[e])
  BY RankOrder, Zenon
<1>2. \A x \in DOMAIN c :
        AheadOf(DOMAIN c, Pairs(c), x) = {f \in DOMAIN c : candidate_before(f, c[f], x, c[x])}
  BY <1>1 DEF AheadOf
<1>3. Top(DOMAIN c, Pairs(c), MaxCandidates) =
        {x \in DOMAIN c :
           Cardinality({f \in DOMAIN c : candidate_before(f, c[f], x, c[x])}) < MaxCandidates}
  BY <1>2 DEF Top
<1>4. QED BY <1>3 DEF RefCap

(* Within the capacity there is nothing to cap.                             *)
LEMMA CapOfFew ==
  ASSUME NEW c \in CandidateMap, Cardinality(DOMAIN c) <= MaxCandidates
  PROVE  RefCap(c) = c
<1>1. Top(DOMAIN c, Pairs(c), MaxCandidates) = DOMAIN c
  BY RankOrder, TopOfFew, BoundsAssumption
<1>2. c = [e \in DOMAIN c |-> c[e]]
  BY DEF CandidateMap
<1>3. QED BY <1>1, <1>2, CapIsTop

(* One more candidate changes the capped map as a step of the loop does.    *)
LEMMA CapAdded ==
  ASSUME NEW c \in CandidateMap, NEW e \in Entity, e \notin DOMAIN c, NEW p \in Payload,
         Cardinality(DOMAIN RefCap(c)) <= MaxCandidates
  PROVE  LET r == RefCap(c)
             w == Worst(r)
         IN  RefCap(Put(c, e, p)) =
               IF Cardinality(DOMAIN r) < MaxCandidates THEN Put(r, e, p)
               ELSE IF candidate_before(e, p, w, r[w]) THEN Put(Drop(r, w), e, p) ELSE r
<1> DEFINE D == DOMAIN c
           X == D \cup {e}
           M == MaxCandidates
           d == Put(c, e, p)
           B == Pairs(d)
           r == RefCap(c)
           R == Top(D, B, M)
           w == Worst(r)
<1>1. c \in [D -> Payload] /\ D \in SUBSET Entity /\ M \in Nat \ {0}
  BY BoundsAssumption DEF CandidateMap
<1>2. /\ d \in CandidateMap /\ DOMAIN d = X
      /\ d[e] = p /\ \A x \in D : d[x] = c[x]
  <2>1. d \in [X -> Payload]
    BY <1>1 DEF Put
  <2>2. X \in SUBSET Entity
    BY <1>1
  <2>3. d \in CandidateMap
    BY <2>1, <2>2 DEF CandidateMap
  <2>4. DOMAIN d = X /\ d[e] = p /\ \A x \in D : d[x] = c[x]
    BY DEF Put
  <2>5. QED BY <2>3, <2>4
<1> HIDE DEF d
<1>3. /\ \A f, g \in X : <<f, g>> \in B <=> candidate_before(f, d[f], g, d[g])
      /\ StrictOrder(B, X)
  BY <1>2, RankOrder
<1>4. IsFiniteSet(D) /\ \A f, g \in D : <<f, g>> \in Pairs(c) <=> candidate_before(f, c[f], g, c[g])
  BY RankOrder
<1> HIDE DEF B
<1>5. ASSUME NEW f \in D, NEW g \in D
      PROVE  <<f, g>> \in Pairs(c) <=> <<f, g>> \in B
  <2>1. f \in X /\ g \in X /\ d[f] = c[f] /\ d[g] = c[g]
    BY <1>2
  <2>2. <<f, g>> \in B <=> candidate_before(f, d[f], g, d[g])
    BY <1>3, <2>1
  <2>3. QED BY <1>4, <2>1, <2>2
<1>6. Top(D, Pairs(c), M) = R
  <2>1. \A x \in D : AheadOf(D, Pairs(c), x) = AheadOf(D, B, x)
    BY <1>5 DEF AheadOf
  <2>2. QED BY <2>1 DEF Top
<1>7. r = [x \in R |-> c[x]] /\ DOMAIN r = R /\ R \subseteq D
  BY <1>6, CapIsTop DEF Top
<1>8. RefCap(d) = [x \in Top(X, B, M) |-> d[x]]
  BY <1>2, CapIsTop DEF B
<1>9. \A x \in R : r[x] = d[x]
  BY <1>2, <1>7
<1>10. StrictOrder(B, D) /\ Cardinality(R) \in Nat /\ Cardinality(R) <= M
  <2>1. StrictOrder(B, D)
    BY <1>3, AheadAdded
  <2>2. Cardinality(R) \in Nat
    BY <1>4, <1>7, FS_Subset, FS_CardinalityType
  <2>3. QED BY <1>7, <2>1, <2>2
<1> HIDE DEF r, R, M
<1>11. CASE Cardinality(R) < M
  <2>1. R = D
    BY <1>1, <1>4, <1>10, <1>11, TopWithRoom DEF R
  <2>2. Top(X, B, M) = X
    <3>1. IsFiniteSet(X) /\ Cardinality(X) = Cardinality(D) + 1
      BY <1>4, FS_AddElement
    <3>2. Cardinality(X) <= M
      BY <1>1, <1>10, <1>11, <2>1, <3>1
    <3>3. QED BY <1>1, <1>3, <3>1, <3>2, TopOfFew
  <2>3. Put(r, e, p) = [x \in X |-> IF x = e THEN p ELSE r[x]]
    BY <1>7, <2>1 DEF Put
  <2>4. \A x \in X : d[x] = IF x = e THEN p ELSE r[x]
    BY <1>2, <1>9, <2>1
  <2>5. RefCap(d) = Put(r, e, p)
    BY <1>8, <2>2, <2>3, <2>4
  <2>6. QED BY <1>7, <1>11, <2>5 DEF d, r, M
<1>12. CASE ~(Cardinality(R) < M)
  <2>1. Cardinality(R) = M
    BY <1>1, <1>10, <1>12
  <2>2. r \in CandidateMap /\ DOMAIN r # {}
    <3>1. R # {}
      BY <1>1, <2>1, FS_EmptySet
    <3>2. r \in [R -> Payload] /\ R \in SUBSET Entity
      BY <1>1, <1>7
    <3>3. QED BY <1>7, <3>1, <3>2 DEF CandidateMap
  <2>3. w \in R /\ \A f \in R : f = w \/ candidate_before(f, r[f], w, r[w])
    BY <1>7, <2>2, WorstExists
  <2> HIDE DEF w
  <2>4. \A f \in R : f = w \/ <<f, w>> \in B
    BY <1>3, <1>7, <1>9, <2>3
  <2>5. <<e, w>> \in B <=> candidate_before(e, p, w, r[w])
    BY <1>2, <1>3, <1>7, <1>9, <2>3
  <2>6. CASE candidate_before(e, p, w, r[w])
    <3>1. Top(X, B, M) = (R \ {w}) \cup {e}
      BY <1>1, <1>3, <1>4, <2>1, <2>3, <2>4, <2>5, <2>6, TopReplaced DEF R
    <3>2. Put(Drop(r, w), e, p) = [x \in (R \ {w}) \cup {e} |-> IF x = e THEN p ELSE r[x]]
      BY <1>7 DEF Put, Drop
    <3>3. \A x \in (R \ {w}) \cup {e} : d[x] = IF x = e THEN p ELSE r[x]
      BY <1>2, <1>7, <1>9
    <3>4. RefCap(d) = Put(Drop(r, w), e, p)
      BY <1>8, <3>1, <3>2, <3>3
    <3>5. QED BY <1>7, <1>12, <2>6, <3>4 DEF d, r, M, w
  <2>7. CASE ~candidate_before(e, p, w, r[w])
    <3>1. Top(X, B, M) = R
      BY <1>1, <1>3, <1>4, <2>1, <2>3, <2>4, <2>5, <2>7, TopUnchanged DEF R
    <3>2. RefCap(d) = r
      BY <1>7, <1>8, <1>9, <3>1
    <3>3. QED BY <1>7, <1>12, <2>7, <3>2 DEF d, r, M, w
  <2>8. QED BY <2>6, <2>7
<1>13. QED BY <1>11, <1>12

(* What the loop has made of a batch before its entry s, which nothing of   *)
(* id zero precedes.                                                        *)
StreamOk(c, b, s, cand) ==
  /\ \A i \in 1 .. s - 1 : b[i].entity_id # 0
  /\ Separate(c, b) => cand = RefCap(Processed(c, b, s))

(* The best of a set and one more score is the better of its best and that. *)
LEMMA BestOfMore ==
  ASSUME NEW S \in SUBSET Score, S # {}, NEW x \in Score
  PROVE  MaxOf(S \cup {x}) = MaxOf({x, MaxOf(S)})
<1> DEFINE m == MaxOf(S)
           T == S \cup {x}
           P == {x, m}
<1>1. Score \in SUBSET Int /\ MaxScore \in Int /\ \A s \in Score : s <= MaxScore
  BY BoundsAssumption DEF Score
<1>2. m \in S /\ \A s \in S : s <= m
  BY <1>1, LargestExists
<1> HIDE DEF m
<1>3. T \in SUBSET Int /\ T # {} /\ \A s \in T : s <= MaxScore
  BY <1>1
<1>4. P \in SUBSET Int /\ P # {} /\ \A s \in P : s <= MaxScore
  BY <1>1, <1>2
<1>5. /\ x \in T /\ m \in T /\ x \in P /\ m \in P
      /\ \A s \in T : s \in S \/ s = x
      /\ \A s \in P : s \in T
  BY <1>2
<1> HIDE DEF T, P
<1>6. MaxOf(T) \in T /\ \A s \in T : s <= MaxOf(T)
  BY <1>1, <1>3, LargestExists
<1>7. MaxOf(P) \in P /\ \A s \in P : s <= MaxOf(P)
  BY <1>1, <1>4, LargestExists
<1>8. MaxOf(P) <= MaxOf(T)
  BY <1>5, <1>6, <1>7
<1>9. MaxOf(T) <= MaxOf(P)
  <2>1. CASE MaxOf(T) = x
    BY <1>5, <1>7, <2>1
  <2>2. CASE MaxOf(T) \in S
    <3>1. MaxOf(T) <= m /\ m <= MaxOf(P)
      BY <1>2, <1>5, <1>7, <2>2
    <3>2. \A i, j, k \in Int : i <= j /\ j <= k => i <= k
      OBVIOUS
    <3>3. MaxOf(T) \in Int /\ m \in Int /\ MaxOf(P) \in Int
      BY <1>3, <1>4, <1>5, <1>6, <1>7
    <3>4. QED BY <3>1, <3>2, <3>3
  <2>3. QED BY <1>5, <1>6, <2>1, <2>2
<1>10. MaxOf(T) \in Int /\ MaxOf(P) \in Int
  BY <1>3, <1>4, <1>6, <1>7
<1>11. \A i, j \in Int : i <= j /\ j <= i => i = j
  OBVIOUS
<1>12. MaxOf(T) = MaxOf(P)
  BY <1>8, <1>9, <1>10, <1>11
<1>13. QED BY <1>12 DEF T, P, m

(* The reference gives an id of the batch what the loop gives it.           *)
LEMMA UnionValue ==
  ASSUME NEW c \in CandidateMap, NEW b \in Batches, NEW i \in 1 .. Len(b)
  PROVE  LET e == b[i].entity_id
         IN  /\ e \in BatchIds(b)
             /\ RefUnion(c, b)[e] = IF e \in DOMAIN c THEN Merge(c[e], Aggregate(b, i))
                                    ELSE Aggregate(b, i)
             /\ RefUnion(c, b)[e] \in Payload
<1> DEFINE e == b[i].entity_id
           same == {j \in 1 .. Len(b) : b[j].entity_id = e}
           scores == {b[j].score_q15 : j \in same}
           masks == {b[j].evidence_mask : j \in same}
           agg == Aggregate(b, i)
<1>1. b \in Seq(Incoming) /\ \A j \in 1 .. Len(b) : b[j] \in Incoming
  <2>1. b \in Seq(Incoming)
    BY BatchesAssumption
  <2>2. QED BY <2>1
<1>2. e \in BatchIds(b) /\ same = SameId(b, i) /\ i \in same
  BY DEF BatchIds, SameId
<1>3. agg = [score_q15 |-> MaxOf(scores), evidence_mask |-> UNION masks]
  BY <1>2 DEF Aggregate
<1>4. agg \in Payload
  BY AggregateType
<1>5. scores \in SUBSET Score /\ scores # {}
  BY <1>1, <1>2 DEF Incoming
<1>6. RefUnion(c, b)[e] =
        IF e \in DOMAIN c
        THEN [score_q15 |-> MaxOf(scores \cup {c[e].score_q15}),
              evidence_mask |-> c[e].evidence_mask \cup UNION masks]
        ELSE [score_q15 |-> MaxOf(scores), evidence_mask |-> UNION masks]
  BY <1>2 DEF RefUnion
<1> HIDE DEF scores, masks, same, agg, e
<1>7. CASE e \in DOMAIN c
  <2>1. c[e] \in Payload /\ c[e].score_q15 \in Score
    BY <1>7 DEF CandidateMap, Payload
  <2>2. MaxOf(scores \cup {c[e].score_q15}) = MaxOf({c[e].score_q15, MaxOf(scores)})
    BY <1>5, <2>1, BestOfMore
  <2>3. Merge(c[e], agg) = [score_q15 |-> MaxOf({c[e].score_q15, MaxOf(scores)}),
                            evidence_mask |-> c[e].evidence_mask \cup UNION masks]
    BY <1>3 DEF Merge
  <2>4. RefUnion(c, b)[e] = Merge(c[e], agg)
    BY <1>6, <1>7, <2>2, <2>3
  <2>5. Merge(c[e], agg) \in Payload
    BY <1>4, <2>1, MergeType
  <2>6. QED BY <1>2, <1>7, <2>4, <2>5 DEF e, agg
<1>8. CASE e \notin DOMAIN c
  <2>1. RefUnion(c, b)[e] = agg
    BY <1>3, <1>6, <1>8
  <2>2. QED BY <1>2, <1>4, <1>8, <2>1 DEF e, agg
<1>9. QED BY <1>7, <1>8

(* Ids seen are ids of the batch; the loop skips an entry whose id it saw.  *)
LEMMA SeenIds ==
  ASSUME NEW b \in Batches, NEW s \in 1 .. Len(b) + 1
  PROVE  /\ Seen(b, 1) = {} /\ Seen(b, s) \subseteq BatchIds(b)
         /\ Seen(b, Len(b) + 1) = BatchIds(b)
         /\ s <= Len(b) => /\ Seen(b, s + 1) = Seen(b, s) \cup {b[s].entity_id}
                           /\ AlreadyAggregated(b, s) <=> b[s].entity_id \in Seen(b, s)
<1>1. Len(b) \in Nat
  BY BatchesAssumption
<1>2. Seen(b, 1) = {} /\ Seen(b, s) \subseteq BatchIds(b) /\ Seen(b, Len(b) + 1) = BatchIds(b)
  BY <1>1 DEF Seen, BatchIds
<1>3. ASSUME s <= Len(b)
      PROVE  /\ Seen(b, s + 1) = Seen(b, s) \cup {b[s].entity_id}
             /\ AlreadyAggregated(b, s) <=> b[s].entity_id \in Seen(b, s)
  <2>1. 1 .. (s + 1) - 1 = (1 .. s - 1) \cup {s} /\ 1 .. s - 1 \subseteq 1 .. Len(b)
        /\ \A j \in 1 .. Len(b) : j < s <=> j \in 1 .. s - 1
    BY <1>1, <1>3
  <2>2. Seen(b, s + 1) = Seen(b, s) \cup {b[s].entity_id}
    BY <2>1 DEF Seen
  <2>3. AlreadyAggregated(b, s) <=> b[s].entity_id \in Seen(b, s)
    BY <2>1 DEF Seen, AlreadyAggregated, SameId
  <2>4. QED BY <2>2, <2>3
<1>4. QED BY <1>2, <1>3

(* As long as no id was zero, what is processed is a map of candidates.     *)
LEMMA ProcessedType ==
  ASSUME NEW c \in CandidateMap, NEW b \in Batches, NEW s \in 1 .. Len(b) + 1,
         \A i \in 1 .. s - 1 : b[i].entity_id # 0
  PROVE  /\ Processed(c, b, s) \in CandidateMap
         /\ DOMAIN Processed(c, b, s) = DOMAIN c \cup Seen(b, s)
         /\ \A e \in Seen(b, s) : Processed(c, b, s)[e] = RefUnion(c, b)[e]
         /\ \A e \in DOMAIN c : e \notin Seen(b, s) => Processed(c, b, s)[e] = c[e]
<1> DEFINE P == Processed(c, b, s)
           X == DOMAIN c \cup Seen(b, s)
<1>1. b \in Seq(Incoming) /\ Len(b) \in Nat /\ \A j \in 1 .. Len(b) : b[j] \in Incoming
  <2>1. b \in Seq(Incoming)
    BY BatchesAssumption
  <2>2. QED BY <2>1
<1>2. DOMAIN c \in SUBSET Entity /\ \A e \in DOMAIN c : c[e] \in Payload
  BY DEF CandidateMap
<1>3. ASSUME NEW e \in Seen(b, s)
      PROVE  e \in Entity /\ RefUnion(c, b)[e] \in Payload
  <2>1. PICK i \in 1 .. s - 1 : b[i].entity_id = e
    BY DEF Seen
  <2>2. i \in 1 .. Len(b)
    BY <1>1
  <2>3. RefUnion(c, b)[e] \in Payload
    BY <2>1, <2>2, UnionValue
  <2>4. e \in 0 .. MaxEntity /\ e # 0
    BY <1>1, <2>1, <2>2 DEF Incoming
  <2>5. QED BY <2>3, <2>4, BoundsAssumption DEF Entity
<1>4. P = [e \in X |-> IF e \in Seen(b, s) THEN RefUnion(c, b)[e] ELSE c[e]]
  BY DEF Processed
<1> HIDE DEF P
<1>5. P \in [X -> Payload] /\ DOMAIN P = X
  BY <1>2, <1>3, <1>4
<1>6. X \in SUBSET Entity
  BY <1>2, <1>3
<1>7. P \in CandidateMap
  BY <1>5, <1>6 DEF CandidateMap
<1>8. QED BY <1>4, <1>5, <1>7 DEF P

(* Before the first entry that is what the workspace held, after the last   *)
(* one the reference's union.                                               *)
LEMMA ProcessedEnds ==
  ASSUME NEW c \in CandidateMap, NEW b \in Batches
  PROVE  /\ Processed(c, b, 1) = c
         /\ Processed(c, b, Len(b) + 1) = RefUnion(c, b)
<1>1. Len(b) \in Nat
  BY BatchesAssumption
<1>2. Seen(b, 1) = {} /\ Seen(b, Len(b) + 1) = BatchIds(b)
  <2>1. 1 \in 1 .. Len(b) + 1
    BY <1>1
  <2>2. QED BY <2>1, SeenIds
<1>3. c = [e \in DOMAIN c |-> c[e]] /\ \A e \in DOMAIN c : c[e] \in Payload
  BY DEF CandidateMap
<1>4. Processed(c, b, 1) = c
  BY <1>2, <1>3 DEF Processed
<1>5. ASSUME NEW e \in DOMAIN c, e \notin BatchIds(b)
      PROVE  RefUnion(c, b)[e] = c[e]
  <2> DEFINE same == {j \in 1 .. Len(b) : b[j].entity_id = e}
             scores == {b[j].score_q15 : j \in same}
             masks == {b[j].evidence_mask : j \in same}
  <2>1. same = {}
    BY <1>5 DEF BatchIds
  <2>2. scores = {} /\ masks = {}
    BY <2>1
  <2>3. RefUnion(c, b)[e] = [score_q15 |-> MaxOf(scores \cup {c[e].score_q15}),
                             evidence_mask |-> c[e].evidence_mask \cup UNION masks]
    BY DEF RefUnion
  <2> HIDE DEF scores, masks
  <2>4. scores \cup {c[e].score_q15} = {c[e].score_q15}
        /\ c[e].evidence_mask \cup UNION masks = c[e].evidence_mask
    BY <2>2
  <2>5. c[e].score_q15 \in Int
        /\ c[e] = [score_q15 |-> c[e].score_q15, evidence_mask |-> c[e].evidence_mask]
    BY <1>3, BoundsAssumption DEF Payload, Score
  <2>6. MaxOf({c[e].score_q15}) = c[e].score_q15
    <3>1. \A x \in Int : MaxOf({x}) = x
      <4>1. TAKE x \in Int
      <4>2. x \in {x} /\ \A y \in {x} : y <= x
        OBVIOUS
      <4>3. QED BY <4>2 DEF MaxOf
    <3>2. QED BY <2>5, <3>1
  <2>7. QED BY <2>3, <2>4, <2>5, <2>6
<1>6. RefUnion(c, b) = [e \in DOMAIN c \cup BatchIds(b) |-> RefUnion(c, b)[e]]
  BY DEF RefUnion
<1>7. \A e \in DOMAIN c \cup BatchIds(b) :
        (IF e \in BatchIds(b) THEN RefUnion(c, b)[e] ELSE c[e]) = RefUnion(c, b)[e]
  BY <1>5
<1>8. Processed(c, b, Len(b) + 1) = RefUnion(c, b)
  BY <1>2, <1>6, <1>7 DEF Processed
<1>9. QED BY <1>4, <1>8

(* What one entry changes.                                                  *)
LEMMA ProcessedStep ==
  ASSUME NEW c \in CandidateMap, NEW b \in Batches, NEW s \in 1 .. Len(b),
         \A i \in 1 .. s - 1 : b[i].entity_id # 0
  PROVE  LET e == b[s].entity_id
             agg == Aggregate(b, s)
             old == Processed(c, b, s)
             new == Processed(c, b, s + 1)
         IN  /\ e \in Seen(b, s) => new = old
             /\ e \notin Seen(b, s) /\ e \in DOMAIN c =>
                  new = [old EXCEPT ![e] = Merge(c[e], agg)] /\ old[e] = c[e]
             /\ e \notin Seen(b, s) /\ e \notin DOMAIN c =>
                  new = Put(old, e, agg) /\ e \notin DOMAIN old
<1> DEFINE e == b[s].entity_id
           agg == Aggregate(b, s)
           U == RefUnion(c, b)
           old == Processed(c, b, s)
           new == Processed(c, b, s + 1)
<1>1. s \in 1 .. Len(b) + 1 /\ s <= Len(b)
  BY BatchesAssumption
<1>2. Seen(b, s + 1) = Seen(b, s) \cup {e}
  BY <1>1, SeenIds
<1>3. U[e] = IF e \in DOMAIN c THEN Merge(c[e], agg) ELSE agg
  BY UnionValue
<1>4. old = [x \in DOMAIN c \cup Seen(b, s) |-> IF x \in Seen(b, s) THEN U[x] ELSE c[x]]
  BY DEF Processed
<1>5. new = [x \in DOMAIN c \cup (Seen(b, s) \cup {e}) |->
               IF x \in Seen(b, s) \cup {e} THEN U[x] ELSE c[x]]
  BY <1>2 DEF Processed
<1> HIDE DEF U, old, new, e, agg
<1>6. CASE e \in Seen(b, s)
  <2>1. new = old
    BY <1>4, <1>5, <1>6
  <2>2. QED BY <1>6, <2>1 DEF e, old, new
<1>7. CASE e \notin Seen(b, s) /\ e \in DOMAIN c
  <2>1. old[e] = c[e] /\ DOMAIN old = DOMAIN c \cup (Seen(b, s) \cup {e})
    BY <1>4, <1>7
  <2>2. \A x \in DOMAIN old : x # e => (IF x \in Seen(b, s) \cup {e} THEN U[x] ELSE c[x]) = old[x]
    BY <1>4
  <2>3. new = [old EXCEPT ![e] = Merge(c[e], agg)]
    BY <1>3, <1>5, <1>7, <2>1, <2>2
  <2>4. QED BY <1>7, <2>1, <2>3 DEF e, old, new, agg
<1>8. CASE e \notin Seen(b, s) /\ e \notin DOMAIN c
  <2>1. DOMAIN old = DOMAIN c \cup Seen(b, s) /\ e \notin DOMAIN old
    BY <1>4, <1>8
  <2>2. \A x \in DOMAIN old \cup {e} :
          (IF x \in Seen(b, s) \cup {e} THEN U[x] ELSE c[x]) = IF x = e THEN agg ELSE old[x]
    BY <1>3, <1>4, <1>8, <2>1
  <2>3. DOMAIN c \cup (Seen(b, s) \cup {e}) = DOMAIN old \cup {e}
    BY <2>1
  <2>4. new = [x \in DOMAIN old \cup {e} |-> IF x = e THEN agg ELSE old[x]]
    BY <1>5, <2>2, <2>3
  <2>5. new = Put(old, e, agg)
    BY <2>4 DEF Put
  <2>6. QED BY <1>8, <2>1, <2>5 DEF e, old, new, agg
<1>9. QED BY <1>6, <1>7, <1>8

(* With room for all that is known and offered, nothing is capped.          *)
LEMMA RoomForAll ==
  ASSUME NEW c \in CandidateMap, NEW b \in Batches, NEW s \in 1 .. Len(b) + 1,
         \A i \in 1 .. s - 1 : b[i].entity_id # 0,
         Cardinality(DOMAIN c \cup BatchIds(b)) <= MaxCandidates
  PROVE  /\ RefCap(Processed(c, b, s)) = Processed(c, b, s)
         /\ Cardinality(DOMAIN Processed(c, b, s)) <= MaxCandidates
<1> DEFINE P == Processed(c, b, s)
           A == DOMAIN c \cup BatchIds(b)
<1>1. P \in CandidateMap /\ DOMAIN P \subseteq A
  <2>1. P \in CandidateMap /\ DOMAIN P = DOMAIN c \cup Seen(b, s)
    BY ProcessedType
  <2>2. Seen(b, s) \subseteq BatchIds(b)
    BY SeenIds
  <2>3. QED BY <2>1, <2>2
<1>2. IsFiniteSet(A)
  <2>1. b \in Seq(Incoming)
    BY BatchesAssumption
  <2>2. \A j \in 1 .. Len(b) : b[j].entity_id \in 0 .. MaxEntity
    <3>1. \A j \in 1 .. Len(b) : b[j] \in Incoming
      BY <2>1
    <3>2. \A r \in Incoming : r.entity_id \in 0 .. MaxEntity
      BY DEF Incoming
    <3>3. QED BY <3>1, <3>2
  <2>3. BatchIds(b) \subseteq 0 .. MaxEntity
    BY <2>2 DEF BatchIds
  <2>4. DOMAIN c \subseteq 0 .. MaxEntity
    BY DEF CandidateMap, Entity
  <2>5. IsFiniteSet(0 .. MaxEntity)
    BY BoundsAssumption, FS_Interval
  <2>6. A \subseteq 0 .. MaxEntity
    BY <2>3, <2>4
  <2>7. QED BY <2>5, <2>6, FS_Subset
<1> HIDE DEF P, A
<1>3. Cardinality(DOMAIN P) <= Cardinality(A) /\ Cardinality(DOMAIN P) \in Nat
      /\ Cardinality(A) \in Nat
  BY <1>1, <1>2, FS_Subset, FS_CardinalityType
<1>4. Cardinality(DOMAIN P) <= MaxCandidates
  <2>1. Cardinality(A) <= MaxCandidates
    BY DEF A
  <2>2. QED BY <1>3, <2>1, BoundsAssumption
<1>5. RefCap(P) = P
  BY <1>1, <1>4, CapOfFew
<1>6. QED BY <1>4, <1>5 DEF P

(* One entry of the loop, from what it made of the candidates.              *)
Streamed(b, s, cand, next) ==
  LET e == b[s].entity_id
      agg == Aggregate(b, s)
      w == Worst(cand)
  IN  IF AlreadyAggregated(b, s) THEN next = cand
      ELSE IF e \in DOMAIN cand THEN next = [cand EXCEPT ![e] = Merge(@, agg)]
      ELSE IF Cardinality(DOMAIN cand) < MaxCandidates THEN next = Put(cand, e, agg)
      ELSE next = IF candidate_before(e, agg, w, cand[w]) THEN Put(Drop(cand, w), e, agg)
                  ELSE cand

(* It makes of the next entry what the capped union would.                  *)
LEMMA StreamedOk ==
  ASSUME NEW c \in CandidateMap, NEW b \in Batches, NEW s \in 1 .. Len(b), NEW cand, NEW next,
         StreamOk(c, b, s, cand), Cardinality(DOMAIN cand) <= MaxCandidates,
         b[s].entity_id # 0, Streamed(b, s, cand, next)
  PROVE  StreamOk(c, b, s + 1, next)
<1> DEFINE e == b[s].entity_id
           agg == Aggregate(b, s)
           old == Processed(c, b, s)
           new == Processed(c, b, s + 1)
<1>1. Len(b) \in Nat /\ s \in 1 .. Len(b) + 1 /\ s + 1 \in 1 .. Len(b) + 1 /\ s <= Len(b)
      /\ (s + 1) - 1 = s /\ 1 .. s = (1 .. s - 1) \cup {s}
  BY BatchesAssumption
<1>2. \A i \in 1 .. s - 1 : b[i].entity_id # 0
  BY DEF StreamOk
<1>3. \A i \in 1 .. (s + 1) - 1 : b[i].entity_id # 0
  BY <1>1, <1>2
<1>4. SUFFICES ASSUME Separate(c, b) PROVE next = RefCap(new)
  BY <1>3 DEF StreamOk
<1>5. cand = RefCap(old)
  BY <1>4 DEF StreamOk
<1>6. /\ e \in Seen(b, s) => new = old
      /\ e \notin Seen(b, s) /\ e \in DOMAIN c =>
           new = [old EXCEPT ![e] = Merge(c[e], agg)] /\ old[e] = c[e]
      /\ e \notin Seen(b, s) /\ e \notin DOMAIN c => new = Put(old, e, agg) /\ e \notin DOMAIN old
  BY <1>2, ProcessedStep
<1>7. AlreadyAggregated(b, s) <=> e \in Seen(b, s)
  BY <1>1, SeenIds
<1>8. old \in CandidateMap /\ DOMAIN old = DOMAIN c \cup Seen(b, s)
  <2>1. s \in 1 .. Len(b) + 1
    BY <1>1
  <2> HIDE DEF e, agg, old, new
  <2>2. Processed(c, b, s) \in CandidateMap /\ DOMAIN Processed(c, b, s) = DOMAIN c \cup Seen(b, s)
    BY <1>2, <2>1, ProcessedType
  <2>3. QED BY <2>2 DEF old
<1>9. /\ e \in BatchIds(b) /\ e \in Entity /\ agg \in Payload
  <2>1. e \in BatchIds(b)
    BY DEF BatchIds
  <2>2. b[s] \in Incoming
    BY BatchesAssumption
  <2>3. e \in 0 .. MaxEntity /\ e # 0
    BY <2>2 DEF Incoming
  <2>4. e \in Entity
    BY <2>3, BoundsAssumption DEF Entity
  <2>5. QED BY <2>1, <2>4, AggregateType
<1>10. Cardinality(DOMAIN c \cup BatchIds(b)) <= MaxCandidates =>
         /\ cand = old /\ RefCap(new) = new /\ Cardinality(DOMAIN new) <= MaxCandidates
  BY <1>1, <1>2, <1>3, <1>5, RoomForAll
<1>11. DOMAIN cand \subseteq DOMAIN old
  BY <1>5 DEF RefCap
<1> HIDE DEF old, new, e, agg
<1>12. /\ AlreadyAggregated(b, s) => next = cand
       /\ ~AlreadyAggregated(b, s) /\ e \in DOMAIN cand => next = [cand EXCEPT ![e] = Merge(cand[e], agg)]
       /\ ~AlreadyAggregated(b, s) /\ e \notin DOMAIN cand =>
            next = IF Cardinality(DOMAIN cand) < MaxCandidates THEN Put(cand, e, agg)
                   ELSE IF candidate_before(e, agg, Worst(cand), cand[Worst(cand)])
                        THEN Put(Drop(cand, Worst(cand)), e, agg)
                        ELSE cand
  BY DEF Streamed, e, agg
<1>13. CASE e \in Seen(b, s)
  BY <1>5, <1>6, <1>7, <1>12, <1>13
<1>14. CASE e \notin Seen(b, s) /\ e \in DOMAIN c
  <2>1. Cardinality(DOMAIN c \cup BatchIds(b)) <= MaxCandidates
    BY <1>4, <1>9, <1>14 DEF Separate
  <2>2. cand = old /\ RefCap(new) = new
    BY <1>10, <2>1
  <2>3. e \in DOMAIN cand
    BY <1>8, <1>14, <2>2
  <2>4. next = [old EXCEPT ![e] = Merge(old[e], agg)]
    BY <1>7, <1>12, <1>14, <2>2, <2>3
  <2>5. QED BY <1>6, <1>14, <2>2, <2>4
<1>15. CASE e \notin Seen(b, s) /\ e \notin DOMAIN c
  <2>1. new = Put(old, e, agg) /\ e \notin DOMAIN old
    BY <1>6, <1>15
  <2>2. e \notin DOMAIN cand
    BY <1>11, <2>1
  <2>3. Cardinality(DOMAIN RefCap(old)) <= MaxCandidates
    BY <1>5
  <2>4. RefCap(Put(old, e, agg)) =
          IF Cardinality(DOMAIN cand) < MaxCandidates THEN Put(cand, e, agg)
          ELSE IF candidate_before(e, agg, Worst(cand), cand[Worst(cand)])
               THEN Put(Drop(cand, Worst(cand)), e, agg)
               ELSE cand
    BY <1>5, <1>8, <1>9, <2>1, <2>3, CapAdded
  <2>5. QED BY <1>7, <1>12, <1>15, <2>1, <2>2, <2>4
<1>16. QED BY <1>13, <1>14, <1>15

(* At the end of a batch the loop has made what the reference makes.        *)
LEMMA StreamedAll ==
  ASSUME NEW c \in CandidateMap, NEW b \in Batches, NEW cand,
         StreamOk(c, b, Len(b) + 1, cand), Separate(c, b)
  PROVE  cand = ReferenceUnion(c, b)
<1>1. cand = RefCap(Processed(c, b, Len(b) + 1))
  BY DEF StreamOk
<1>2. Processed(c, b, Len(b) + 1) = RefUnion(c, b)
  BY ProcessedEnds
<1>3. QED BY <1>1, <1>2 DEF ReferenceUnion

(* Between two entries the candidates are the capped union of what was seen.*)
StreamInv ==
  Inv /\ (InUnion => StreamOk(call.entry, call.batch, call.source, candidates))

(* A new call starts with what the workspace holds.                         *)
LEMMA CallStarts ==
  ASSUME NEW c \in CandidateMap, NEW b \in Batches, Cardinality(DOMAIN c) <= MaxCandidates
  PROVE  StreamOk(c, b, 1, c)
<1>1. RefCap(c) = c
  BY CapOfFew
<1>2. Processed(c, b, 1) = c
  BY ProcessedEnds
<1>3. QED BY <1>1, <1>2 DEF StreamOk

(* Every step of the loop streams one entry.                                *)
LEMMA LoopStreams ==
  ASSUME Inv, UnionSkip \/ UnionMerge \/ UnionInsert \/ UnionEvict
  PROVE  /\ AtSource /\ Advance /\ Source.entity_id # 0
         /\ Streamed(call.batch, call.source, candidates, candidates')
<1>1. AtSource /\ Advance /\ Source.entity_id # 0
  BY DEF UnionSkip, UnionMerge, UnionInsert, UnionEvict
<1>2. CASE UnionSkip
  BY <1>2 DEF UnionSkip, Streamed
<1>3. CASE UnionMerge
  BY <1>3 DEF UnionMerge, Streamed, Source
<1>4. CASE UnionInsert
  BY <1>4 DEF UnionInsert, Streamed, Source, HasRoom, count
<1>5. CASE UnionEvict
  BY <1>5 DEF UnionEvict, Streamed, Source, HasRoom, count
<1>6. QED BY <1>1, <1>2, <1>3, <1>4, <1>5

(* Every step keeps what the loop has made.                                 *)
LEMMA StreamKept ==
  ASSUME StreamInv, Inv', [Next]_vars
  PROVE  StreamInv'
<1>1. Inv /\ (InUnion => StreamOk(call.entry, call.batch, call.source, candidates))
  BY DEF StreamInv
<1>2. candidates \in CandidateMap /\ Cardinality(DOMAIN candidates) <= MaxCandidates /\ CallType
  BY <1>1 DEF Inv, TypeOK, Bounded, count
<1>3. CASE UnionCall
  <2>1. PICK b \in Batches : call' = CallOf(b, 1, candidates)
    BY <1>3 DEF UnionCall
  <2>2. call'.batch = b /\ call'.source = 1 /\ call'.entry = candidates
        /\ candidates' = candidates
    BY <1>3, <2>1 DEF UnionCall, CallOf
  <2>3. StreamOk(candidates, b, 1, candidates)
    BY <1>2, CallStarts
  <2>4. QED BY <2>2, <2>3 DEF StreamInv
<1>4. CASE UnionSkip \/ UnionMerge \/ UnionInsert \/ UnionEvict
  <2>1. /\ AtSource /\ Advance /\ Source.entity_id # 0
        /\ Streamed(call.batch, call.source, candidates, candidates')
    BY <1>1, <1>4, LoopStreams
  <2>2. /\ call'.batch = call.batch /\ call'.source = call.source + 1
        /\ call'.entry = call.entry
    BY <2>1 DEF Advance, CallOf
  <2>3. /\ call.batch \in Batches /\ call.source \in 1 .. Len(call.batch)
        /\ call.entry \in CandidateMap /\ call.batch[call.source].entity_id # 0
    BY <1>1, <2>1, SourceType DEF Inv, Source
  <2>4. StreamOk(call.entry, call.batch, call.source, candidates)
    BY <1>1, <2>1 DEF AtSource
  <2>5. StreamOk(call.entry, call.batch, call.source + 1, candidates')
    BY <1>2, <2>1, <2>3, <2>4, StreamedOk
  <2>6. QED BY <2>2, <2>5 DEF StreamInv
<1>5. CASE UnionReject \/ UnionReturn
  <2>1. ~InUnion'
    BY <1>5 DEF UnionReject, UnionReturn, InUnion, Idle
  <2>2. QED BY <2>1 DEF StreamInv
<1>6. CASE UNCHANGED <<candidates, call>>
  BY <1>1, <1>6 DEF StreamInv, InUnion
<1>7. ASSUME Execute \/ Refuse \/ Rest \/ UNCHANGED vars
      PROVE  UNCHANGED <<candidates, call>>
  BY <1>7 DEF Execute, Refuse, Rest, vars, Search, Select, BuildPlan, VerifyPlan, Finish, Taken,
              IllegalAction, SelectRefused, VerifyRefused, Rejected
<1>8. QED BY <1>3, <1>4, <1>5, <1>6, <1>7 DEF Next, UnionStep

(* When nothing the workspace holds can be both evicted and offered again   *)
(* by one batch, ac_union_candidates_v1 holds at every entry the capped      *)
(* union of what it has gone through, also where it refuses the batch, and  *)
(* at the end what the reference's union followed by one cap leaves, for    *)
(* every capacity, order of the batch and repetition in it.                 *)
THEOREM StreamingIsReference == Spec => []StreamingMatchesReference
<1>1. Init => StreamInv
  <2>1. Init => ~InUnion
    BY DEF Init, Idle, InUnion
  <2>2. QED BY <2>1, InitInv DEF StreamInv
<1>2. StreamInv /\ Inv' /\ [Next]_vars => StreamInv'
  BY StreamKept
<1>3. StreamInv => StreamingMatchesReference
  <2>1. SUFFICES ASSUME StreamInv, InUnion, Separate(call.entry, call.batch)
                 PROVE  /\ candidates = RefCap(Processed(call.entry, call.batch, call.source))
                        /\ call.source > Len(call.batch) =>
                             candidates = ReferenceUnion(call.entry, call.batch)
    BY DEF StreamingMatchesReference
  <2>2. StreamOk(call.entry, call.batch, call.source, candidates)
    BY <2>1 DEF StreamInv
  <2>3. candidates = RefCap(Processed(call.entry, call.batch, call.source))
    BY <2>1, <2>2 DEF StreamOk
  <2>4. ASSUME call.source > Len(call.batch)
        PROVE  candidates = ReferenceUnion(call.entry, call.batch)
    <3>1. call # Idle
      BY <2>1 DEF InUnion, Idle
    <3>2. /\ call.batch \in Batches /\ call.entry \in CandidateMap
          /\ call.source \in 1 .. Len(call.batch) + 1
      BY <2>1, <3>1 DEF StreamInv, Inv, TypeOK, CallType
    <3>3. Len(call.batch) \in Nat
      BY <3>2, BatchesAssumption
    <3>4. call.source = Len(call.batch) + 1
      BY <2>4, <3>2, <3>3
    <3>5. QED BY <2>1, <2>2, <3>2, <3>4, StreamedAll
  <2>5. QED BY <2>3, <2>4
<1>4. QED
  BY <1>1, <1>2, <1>3, WorkspaceInvariant, PTL DEF Spec

----------------------------------------------------------------------------
(* Progress.                                                                *)
(* Proofs about NativeProgress, for every width of the counters and every   *)
(* set of records.                                                          *)

Latest == Len(history)

(* What C knows of the past while its call counter is in range: the last    *)
(* record, and in the cycle counter how far back the records repeat it.     *)
Remembered ==
  Latest <= Max32 =>
    /\ native.calls = Latest
    /\ native.cycles \in U16
    /\ native.cycles <= Latest /\ (Latest > 0 => native.cycles < Latest)
    /\ native.stagnated \in BOOLEAN /\ (native.stagnated <=> native.cycles >= StagnationLimit)
    /\ Latest > 0 => /\ native.last_action = history[Latest].action
                   /\ native.error = history[Latest].error
                   /\ native.open = history[Latest].open
                   /\ native.completed = history[Latest].completed
    /\ \A k \in 1 .. Latest :
          Latest - k <= Max16 => (StuckFrom(k) <=> Latest - k <= native.cycles)

(* The two implementations, and the counters of the unbounded one.          *)
Agreed ==
  /\ reference.calls = Latest
  /\ reference.repeated \in U16
  /\ AgreesWithinRange

ProgressInv == history \in Seq(Records) /\ Remembered /\ Agreed

----------------------------------------------------------------------------
(* A counter within its range does not wrap.                                *)
LEMMA WrapInRange == ASSUME NEW m \in Nat, NEW n \in 0 .. m PROVE Wrap(n, m) = n
BY DEF Wrap

(* A saturating counter passes a number in range when it would without end. *)
LEMMA SaturateStep ==
  ASSUME NEW a \in Nat, NEW c \in U16, a + 1 <= Max16
  PROVE  a + 1 <= Saturate(c + 1) <=> a <= c
BY ProgressAssumption DEF Saturate, U16

(* A record goes on being stuck from k exactly if it was stuck from k and   *)
(* repeats the last record without progress.                                *)
LEMMA StuckStep ==
  ASSUME history \in Seq(Records), NEW r \in Records, history' = Append(history, r),
         Latest > 0, NEW p, p.calls # 0,
         p.last_action = history[Latest].action, p.error = history[Latest].error,
         p.open = history[Latest].open, p.completed = history[Latest].completed,
         NEW k \in 1 .. Latest
  PROVE  StuckFrom(k)' <=> (StuckFrom(k) /\ IsRepeat(p, r) /\ ~MadeProgress(p, r))
<1>1. /\ Latest \in Nat /\ Latest' = Latest + 1
      /\ history'[Latest + 1] = r
      /\ \A i \in 1 .. Latest : history'[i] = history[i]
  BY DEF Latest
<1>2. /\ r \in RecordType
      /\ \A i \in 1 .. Latest : history[i] \in RecordType
  BY ProgressAssumption DEF Latest
<1> DEFINE Follows(h, i) ==
      /\ h[i].action = h[k].action
      /\ h[i].error = h[k].error /\ h[i].error # 0
      /\ h[i].completed <= h[i - 1].completed
      /\ h[i].open >= h[i - 1].open
      /\ \A c \in Counter : h[i].added[c] = 0
<1>3. StuckFrom(k) <=> \A i \in k + 1 .. Latest : Follows(history, i)
  BY DEF StuckFrom, Latest
<1>4. StuckFrom(k)' <=> \A i \in k + 1 .. Latest + 1 : Follows(history', i)
  BY <1>1 DEF StuckFrom, Latest
<1>5. \A i \in k + 1 .. Latest : Follows(history', i) <=> Follows(history, i)
  <2> SUFFICES ASSUME NEW i \in k + 1 .. Latest
               PROVE  Follows(history', i) <=> Follows(history, i)
    OBVIOUS
  <2>1. i \in 1 .. Latest /\ i - 1 \in 1 .. Latest
    BY <1>1
  <2>2. history'[i] = history[i] /\ history'[i - 1] = history[i - 1] /\ history'[k] = history[k]
    BY <1>1, <2>1
  <2> QED BY <2>2
<1>6. StuckFrom(k)' <=> (StuckFrom(k) /\ Follows(history', Latest + 1))
  <2> HIDE DEF Follows
  <2>1. \A i : i \in k + 1 .. Latest + 1 <=> (i \in k + 1 .. Latest \/ i = Latest + 1)
    BY <1>1
  <2> QED BY <1>3, <1>4, <1>5, <2>1
<1>7. StuckFrom(k) =>
        history[Latest].action = history[k].action /\ history[Latest].error = history[k].error
  <2>1. CASE k = Latest
    BY <2>1
  <2>2. CASE k # Latest
    <3>1. Latest \in k + 1 .. Latest
      BY <2>2, <1>1
    <3> QED BY <3>1, <1>3
  <2> QED BY <2>1, <2>2
<1>8. Follows(history', Latest + 1) <=>
        /\ r.action = history[k].action
        /\ r.error = history[k].error /\ r.error # 0
        /\ r.completed <= history[Latest].completed
        /\ r.open >= history[Latest].open
        /\ \A c \in Counter : r.added[c] = 0
  <2>1. Latest \in 1 .. Latest /\ (Latest + 1) - 1 = Latest
    BY <1>1
  <2>2. history'[k] = history[k] /\ history'[(Latest + 1) - 1] = history[Latest]
    BY <1>1, <2>1
  <2> QED BY <1>1, <2>2
<1>9. MadeProgress(p, r) <=>
        ~(/\ r.completed <= history[Latest].completed
          /\ r.open >= history[Latest].open
          /\ \A c \in Counter : r.added[c] = 0)
  <2>1. r \in RecordType /\ history[Latest] \in RecordType
    BY <1>1, <1>2
  <2>2. \A t \in RecordType : t.completed \in U16 /\ t.open \in U16
    BY DEF RecordType
  <2>3. U16 \subseteq Int
    BY ProgressAssumption DEF U16
  <2>4. /\ r.completed \in Int /\ r.open \in Int
        /\ history[Latest].completed \in Int /\ history[Latest].open \in Int
    BY <2>1, <2>2, <2>3
  <2> QED BY <2>4 DEF MadeProgress
<1>10. IsRepeat(p, r) <=>
         /\ r.action = history[Latest].action
         /\ r.error = history[Latest].error /\ r.error # 0
  BY DEF IsRepeat
<1> HIDE DEF Follows
<1> QED BY <1>6, <1>7, <1>8, <1>9, <1>10

----------------------------------------------------------------------------
(* Both structures start equal.                                             *)
LEMMA InvInit == ProgressInit => ProgressInv
<1> SUFFICES ASSUME ProgressInit PROVE ProgressInv
  OBVIOUS
<1>1. /\ native = Zero /\ reference = Zero /\ history = <<>> /\ Len(history) = 0
  BY DEF ProgressInit
<1>2. history \in Seq(Records)
  BY <1>1
<1>3. Remembered
  <2>1. /\ native.calls = 0 /\ native.cycles = 0 /\ native.stagnated = FALSE
        /\ Latest = 0 /\ 1 .. Latest = {} /\ 0 \in U16
    BY <1>1, ProgressAssumption DEF Zero, Latest, U16
  <2>2. ~(native.cycles >= StagnationLimit)
    BY <2>1, ProgressAssumption
  <2>3. native.stagnated \in BOOLEAN /\ (native.stagnated <=> native.cycles >= StagnationLimit)
    BY <2>1, <2>2
  <2> QED BY <2>1, <2>3 DEF Remembered
<1>4. Agreed
  BY <1>1, ProgressAssumption DEF Agreed, AgreesWithinRange, Latest, Zero, U16
<1> QED BY <1>2, <1>3, <1>4 DEF ProgressInv

(* A record is appended to the history.                                     *)
LEMMA HistoryGrows ==
  ASSUME ProgressInv, NEW r \in Records, Record(r)
  PROVE  /\ history' \in Seq(Records) /\ history' = Append(history, r)
         /\ Latest \in Nat /\ Latest' = Latest + 1
         /\ history'[Latest + 1] = r
BY DEF ProgressInv, Record, Latest

(* A record keeps what C remembers of the history right.                    *)
LEMMA RememberedStep ==
  ASSUME ProgressInv, NEW r \in Records, Record(r)
  PROVE  Remembered'
<1>1. /\ history \in Seq(Records) /\ history' = Append(history, r)
      /\ Latest \in Nat /\ Latest' = Latest + 1
      /\ history'[Latest + 1] = r
  BY HistoryGrows DEF ProgressInv
<1> SUFFICES ASSUME Latest + 1 <= Max32 PROVE Remembered'
  BY <1>1 DEF Remembered
<1> DEFINE stuck == IsRepeat(native, r) /\ ~MadeProgress(native, r)
<1>2. /\ native.calls = Latest
      /\ native.cycles \in U16
      /\ native.cycles <= Latest /\ (Latest > 0 => native.cycles < Latest)
      /\ native.stagnated \in BOOLEAN /\ (native.stagnated <=> native.cycles >= StagnationLimit)
      /\ Latest > 0 => /\ native.last_action = history[Latest].action
                     /\ native.error = history[Latest].error
                     /\ native.open = history[Latest].open
                     /\ native.completed = history[Latest].completed
      /\ \A k \in 1 .. Latest :
            Latest - k <= Max16 => (StuckFrom(k) <=> Latest - k <= native.cycles)
  BY <1>1, ProgressAssumption DEF ProgressInv, Remembered
<1>3. /\ native'.calls = Wrap(Latest + 1, Max32)
      /\ native'.cycles = IF stuck THEN Saturate(native.cycles + 1) ELSE 0
      /\ native'.stagnated =
           (stuck /\ (native.stagnated \/ native'.cycles >= StagnationLimit))
      /\ native'.last_action = r.action /\ native'.error = r.error
      /\ native'.open = r.open /\ native'.completed = r.completed
  BY <1>2 DEF Record, NativeRecord, Recorded, CyclesReached
<1>4. native'.calls = Latest'
  BY <1>1, <1>3, WrapInRange, ProgressAssumption
<1>5. stuck => Latest > 0
  BY <1>1, <1>2 DEF IsRepeat
<1>6. /\ native'.cycles \in U16
      /\ native'.cycles < Latest'
  BY <1>1, <1>2, <1>3, <1>5, ProgressAssumption DEF Saturate, U16
<1>7. native'.stagnated \in BOOLEAN /\ (native'.stagnated <=> native'.cycles >= StagnationLimit)
  <2>1. CASE stuck
    <3>1. native'.cycles = Saturate(native.cycles + 1)
      BY <1>3, <2>1
    <3>2. native.cycles >= StagnationLimit => native'.cycles >= StagnationLimit
      BY <3>1, <1>2, ProgressAssumption DEF Saturate, U16
    <3>3. native'.stagnated = (native.stagnated \/ native'.cycles >= StagnationLimit)
      BY <1>3, <2>1
    <3> QED BY <1>2, <3>2, <3>3
  <2>2. CASE ~stuck
    <3>1. ~native'.cycles >= StagnationLimit
      BY <1>3, <2>2, ProgressAssumption
    <3> QED BY <1>3, <2>2, <3>1
  <2> QED BY <2>1, <2>2
<1>8. ASSUME NEW k \in 1 .. Latest', Latest' - k <= Max16
      PROVE  StuckFrom(k)' <=> Latest' - k <= native'.cycles
  <2>1. CASE k = Latest'
    <3>1. StuckFrom(k)'
      BY <2>1, <1>1 DEF StuckFrom, Latest
    <3> QED BY <3>1, <2>1, <1>1, <1>6 DEF U16
  <2>2. CASE k # Latest'
    <3>1. k \in 1 .. Latest /\ Latest > 0 /\ native.calls # 0
      BY <2>2, <1>1, <1>2
    <3>2. StuckFrom(k)' <=> (StuckFrom(k) /\ stuck)
      BY <1>1, <1>2, <3>1, StuckStep
    <3>3. StuckFrom(k) <=> Latest - k <= native.cycles
      BY <1>1, <1>2, <1>8, <3>1, ProgressAssumption
    <3>4. CASE stuck
      <4>1. native'.cycles = Saturate(native.cycles + 1)
        BY <1>3, <3>4
      <4>2. Latest' - k <= native'.cycles <=> Latest - k <= native.cycles
        <5>1. /\ Latest - k \in Nat /\ Latest' - k = (Latest - k) + 1
              /\ (Latest - k) + 1 <= Max16
          BY <1>1, <1>8, <3>1
        <5>2. (Latest - k) + 1 <= Saturate(native.cycles + 1) <=> Latest - k <= native.cycles
          BY <5>1, <1>2, SaturateStep
        <5> QED BY <4>1, <5>1, <5>2
      <4> QED BY <3>2, <3>3, <3>4, <4>2
    <3>5. CASE ~stuck
      <4>1. native'.cycles = 0
        BY <1>3, <3>5
      <4>2. ~(Latest' - k <= native'.cycles)
        BY <4>1, <1>1, <3>1
      <4> QED BY <3>2, <3>5, <4>2
    <3> QED BY <3>4, <3>5
  <2> QED BY <2>1, <2>2
<1>9. native'.cycles <= Latest'
  BY <1>1, <1>6 DEF U16
<1> QED BY <1>1, <1>3, <1>4, <1>6, <1>7, <1>8, <1>9 DEF Remembered

(* A record keeps both structures equal while the counters are in range.    *)
LEMMA AgreedStep ==
  ASSUME ProgressInv, NEW r \in Records, Record(r)
  PROVE  Agreed'
<1>1. /\ Latest \in Nat /\ Latest' = Latest + 1
      /\ reference.calls = Latest /\ reference.repeated \in U16 /\ AgreesWithinRange
  BY HistoryGrows DEF ProgressInv, Agreed
<1>2. /\ native' = NativeRecord(native, r)
      /\ reference' = ReferenceRecord(reference, r)
  BY DEF Record
<1>3. /\ reference'.calls = reference.calls + 1
      /\ reference'.repeated = IF IsRepeat(reference, r)
                               THEN Saturate(reference.repeated + 1)
                               ELSE reference.repeated
  BY <1>2 DEF ReferenceRecord, Recorded
<1>4. reference'.calls = Latest' /\ reference'.repeated \in U16
  BY <1>1, <1>3, ProgressAssumption DEF Saturate, U16
<1>5. ASSUME Latest' <= Max32, reference'.repeated < Max16
      PROVE  native' = reference'
  <2>1. reference.repeated < Max16
    BY <1>1, <1>3, <1>5, ProgressAssumption DEF Saturate, U16
  <2>2. native = reference
    BY <1>1, <1>5, <2>1, ProgressAssumption DEF AgreesWithinRange, Latest
  <2>3. Wrap(native.calls + 1, Max32) = reference.calls + 1
    BY <1>1, <1>5, <2>2, WrapInRange, ProgressAssumption
  <2>4. Wrap(native.repeated + 1, Max16) = Saturate(reference.repeated + 1)
    <3>1. reference.repeated + 1 \in 0 .. Max16
      BY <1>1, <2>1, ProgressAssumption DEF U16
    <3>2. Wrap(reference.repeated + 1, Max16) = reference.repeated + 1
      BY <3>1, WrapInRange, ProgressAssumption
    <3>3. Saturate(reference.repeated + 1) = reference.repeated + 1
      BY <3>1, ProgressAssumption DEF Saturate
    <3> QED BY <2>2, <3>2, <3>3
  <2> QED BY <1>2, <2>2, <2>3, <2>4 DEF NativeRecord, ReferenceRecord
<1>6. AgreesWithinRange'
  BY <1>5 DEF AgreesWithinRange, Latest
<1> QED BY <1>4, <1>6 DEF Agreed

(* Every record keeps the invariant.                                        *)
LEMMA InvNext == ProgressInv /\ [ProgressNext]_progressVars => ProgressInv'
<1> SUFFICES ASSUME ProgressInv, [ProgressNext]_progressVars PROVE ProgressInv'
  OBVIOUS
<1>1. ASSUME NEW r \in Records, Record(r) PROVE ProgressInv'
  BY <1>1, HistoryGrows, RememberedStep, AgreedStep DEF ProgressInv
<1>2. CASE UNCHANGED progressVars
  BY <1>2 DEF progressVars, ProgressInv, Remembered, Agreed, AgreesWithinRange,
              StuckFrom, Latest
<1> QED BY <1>1, <1>2 DEF ProgressNext

(* Whatever is recorded, the structures keep what the last records were     *)
(* (ac_progress_record_v1, Progress.record).                                *)
THEOREM ProgressInvariant == ProgressSpec => []ProgressInv
BY InvInit, InvNext, PTL DEF ProgressSpec

(* AC_PROGRESS_STAGNATED is set exactly when the last StagnationLimit + 1   *)
(* records repeat one failing action without progress, for every width of   *)
(* the counters and every limit within it (aethercore_runtime.cpp).         *)
THEOREM StagnationExact == ProgressSpec => []StagnatedIffStuck
<1>1. ProgressInv => StagnatedIffStuck
  <2> SUFFICES ASSUME ProgressInv, Latest <= Max32
               PROVE  native.stagnated =
                        (Latest > StagnationLimit /\ StuckFrom(Latest - StagnationLimit))
    BY DEF StagnatedIffStuck, Latest
  <2>1. /\ Latest \in Nat /\ native.cycles \in U16
        /\ native.cycles <= Latest /\ (Latest > 0 => native.cycles < Latest)
        /\ native.stagnated \in BOOLEAN /\ (native.stagnated <=> native.cycles >= StagnationLimit)
        /\ \A k \in 1 .. Latest :
              Latest - k <= Max16 => (StuckFrom(k) <=> Latest - k <= native.cycles)
    BY DEF ProgressInv, Remembered, Latest
  <2>2. CASE Latest > StagnationLimit
    <3>1. /\ Latest - StagnationLimit \in 1 .. Latest
          /\ Latest - (Latest - StagnationLimit) = StagnationLimit
          /\ StagnationLimit <= Max16
      BY <2>1, <2>2, ProgressAssumption
    <3>2. StuckFrom(Latest - StagnationLimit) <=> StagnationLimit <= native.cycles
      BY <2>1, <3>1
    <3>3. StagnationLimit <= native.cycles <=> native.cycles >= StagnationLimit
      BY <2>1, ProgressAssumption DEF U16
    <3> QED BY <2>1, <2>2, <3>2, <3>3
  <2>3. CASE ~(Latest > StagnationLimit)
    <3>1. ~(native.cycles >= StagnationLimit)
      BY <2>1, <2>3, ProgressAssumption DEF U16
    <3> QED BY <2>1, <2>3, <3>1
  <2> QED BY <2>2, <2>3
<1> QED BY <1>1, ProgressInvariant, PTL

(* The C structure equals the Python reference, bit for bit, until the call *)
(* counter or the repeated-action counter leaves its range                  *)
(* (native_v14.py:1 says it does).                                          *)
THEOREM AgreementWithinRange == ProgressSpec => []AgreesWithinRange
<1>1. ProgressInv => AgreesWithinRange
  BY DEF ProgressInv, Agreed
<1> QED BY <1>1, ProgressInvariant, PTL

===============================================================================
