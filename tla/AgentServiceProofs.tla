------------------------- MODULE AgentServiceProofs -------------------------
(***************************************************************************)
(* Proofs about AgentService for every set of texts, every interleaving of *)
(* every number of requests and crashes, and every window length: the      *)
(* session file stays loadable, its turn numbers go up one by one, its     *)
(* evidence and its referents agree with its answers and bindings; an      *)
(* answer is filed under its own turn or that of a request in flight       *)
(* together with it; and what a request that ran alone did is not lost.    *)
(*                                                                         *)
(* Each invariant says the same of the stored session and of every copy a  *)
(* thread holds, because a later save of a stale copy makes it the stored  *)
(* one.                                                                    *)
(***************************************************************************)
EXTENDS AgentService, Inductions

----------------------------------------------------------------------------
(* Sessions                                                                 *)

Utterance == [number : Nat, role : {"user", "assistant"}, request : Request]

(* Numbers never go down over any distance: what makes the largest number   *)
(* of a window its last one, without an induction over the window.          *)
Ascending(us) == \A i, j \in 1 .. Len(us) : i <= j => us[i].number <= us[j].number
StepByStep(us) ==
  \A i \in 1 .. Len(us) - 1 :
    us[i + 1].number = us[i].number + (IF us[i + 1].role = "user" THEN 1 ELSE 0)
WindowInv(us) ==
  us \in Seq(Utterance) /\ Len(us) <= UtteranceCap /\ Ascending(us) /\ StepByStep(us)

PlanRetained(s) ==
  /\ s.previous_answer_plan # None => s.previous_answer_plan \in Elements(s.evidence_handles)
  /\ Elements(s.evidence_handles) \subseteq Records
PendingInv(s) ==
  IF s.pending = None THEN s.unresolved = {}
  ELSE /\ s.pending.choices = s.unresolved
       /\ \E d, e \in s.unresolved : d # e
ReferentInv(s) ==
  /\ (s.resolved = <<>>) = (s.bindings = <<>>)
  /\ s.resolved # <<>> => s.resolved[Len(s.resolved)] = s.bindings[Len(s.bindings)]

SessionInv(s) ==
  /\ s \in SessionType
  /\ WindowInv(s.recent_utterances)
  /\ Len(s.evidence_handles) <= EvidenceCap
  /\ Len(s.resolved) <= ResolvedCap
  /\ Len(s.bindings) <= ResolvedCap
  /\ PlanRetained(s)
  /\ PendingInv(s)
  /\ ReferentInv(s)

OutcomeType ==
  [state : SessionType, kind : {"NONE", "RESET", "CANCEL", "ASK", "CONTINUE"},
   entity : Entity \cup {None}, relation : Relation \cup {None}]
LocalType ==
  [text : Text \cup {None}, relation : Relation \cup {None},
   state : SessionType, outcome : OutcomeType]

(* What a thread holds at each of its control points.                       *)
ThreadInv(r) ==
  /\ SessionInv(local[r].state)
  /\ pc[r] \notin {"idle", "done"} => local[r].text \in Text
  /\ pc[r] \in {"accept_load", "accept_save"} => local[r].text.kind # "blank"
  /\ pc[r] \in {"answer_load", "answer_save"} => Handle(r) \in Records
  /\ pc[r] = "answer_save" => local[r].state.recent_utterances # <<>>

Labels == {"idle", "load_before", "accept_load", "accept_save", "decide", "answer_load",
           "answer_save", "reload", "done"}
TypeInv ==
  /\ pc \in [Request -> Labels]
  /\ local \in [Request -> LocalType]
  /\ response \in [Request -> Disposition \cup {None}]
  /\ beside \in [Request -> SUBSET Request]

IInv ==
  /\ TypeInv
  /\ SessionInv(disk)
  /\ \A r \in Request : ThreadInv(r)

----------------------------------------------------------------------------
(* Windows                                                                  *)

(* The suffix of a sequence: within the bound, with the same last element,  *)
(* its elements at a fixed distance from where they were.                   *)
LEMMA LastNSuffix ==
  ASSUME NEW T, NEW s \in Seq(T), NEW n \in Nat \ {0}
  PROVE  /\ LastN(s, n) \in Seq(T)
         /\ Len(LastN(s, n)) <= n /\ Len(LastN(s, n)) <= Len(s)
         /\ Len(LastN(s, n)) < Len(s) => Len(LastN(s, n)) = n
         /\ s # <<>> => /\ LastN(s, n) # <<>>
                        /\ LastN(s, n)[Len(LastN(s, n))] = s[Len(s)]
         /\ \A i \in 1 .. Len(LastN(s, n)) :
              /\ i + (Len(s) - Len(LastN(s, n))) \in 1 .. Len(s)
              /\ LastN(s, n)[i] = s[i + (Len(s) - Len(LastN(s, n)))]
<1>1. CASE Len(s) <= n
  BY <1>1 DEF LastN
<1>2. CASE Len(s) > n
  <2>1. /\ LastN(s, n) = SubSeq(s, Len(s) - n + 1, Len(s))
        /\ Len(s) - n + 1 \in 1 .. Len(s)
    BY <1>2 DEF LastN
  <2>2. /\ LastN(s, n) \in Seq(T) /\ Len(LastN(s, n)) = n
        /\ \A i \in 1 .. n : LastN(s, n)[i] = s[i + (Len(s) - n)]
    BY <2>1, <1>2
  <2>3. QED BY <1>2, <2>2
<1>3. QED BY <1>1, <1>2

(* What a sequence is after one more element.                               *)
LEMMA Appended ==
  ASSUME NEW T, NEW s \in Seq(T), NEW e \in T
  PROVE  /\ Append(s, e) \in Seq(T) /\ Len(Append(s, e)) = Len(s) + 1 /\ Append(s, e) # <<>>
         /\ Len(s) \in Nat /\ Append(s, e)[Len(s) + 1] = e
         /\ \A i \in 1 .. Len(s) : s[i] \in T /\ Append(s, e)[i] = s[i]
         /\ (s = <<>>) = (Len(s) = 0)
  OBVIOUS

EndsWith(w, e, T, n, others) ==
  /\ w \in Seq(T) /\ Len(w) <= n
  /\ w # <<>> /\ w[Len(w)] = e
  /\ \A i \in 1 .. Len(w) : w[i] \in others \cup {e}

(* One more element and then the suffix: it ends with that element, and the *)
(* rest of it was there.                                                    *)
LEMMA AppendedSuffix ==
  ASSUME NEW T, NEW s \in Seq(T), NEW e \in T, NEW n \in Nat \ {0}
  PROVE  EndsWith(LastN(Append(s, e), n), e, T, n, Elements(s))
<1> DEFINE a == Append(s, e)
           w == LastN(a, n)
<1>1. /\ a \in Seq(T) /\ a # <<>> /\ a[Len(a)] = e
      /\ \A i \in 1 .. Len(a) : a[i] \in Elements(s) \cup {e}
  BY Appended DEF Elements
<1> HIDE DEF a
<1>2. /\ w \in Seq(T) /\ Len(w) <= n /\ w # <<>> /\ w[Len(w)] = a[Len(a)]
      /\ \A i \in 1 .. Len(w) : /\ i + (Len(a) - Len(w)) \in 1 .. Len(a)
                               /\ w[i] = a[i + (Len(a) - Len(w))]
  BY <1>1, LastNSuffix, Zenon
<1> HIDE DEF w
<1>3. QED BY <1>1, <1>2 DEF a, w, EndsWith

(* A window that was given one more turn and cut: it ends with that turn,   *)
(* and what it dropped, it dropped because it is full.                      *)
Extended(us, vs, role, r) ==
  /\ vs \in Seq(Utterance) /\ vs # <<>>
  /\ vs[Len(vs)].role = role /\ vs[Len(vs)].request = r
  /\ \E k \in Nat :
       /\ Len(vs) = Len(us) + 1 - k
       /\ \A i \in 1 .. Len(vs) - 1 : i + k \in 1 .. Len(us) /\ vs[i] = us[i + k]
       /\ k > 0 => Len(vs) = UtteranceCap

(* A turn that carries on the numbering, appended and cut to the window,    *)
(* leaves a good window that ends with it.                                  *)
LEMMA AppendTurn ==
  ASSUME NEW us, WindowInv(us), NEW u \in Utterance,
         us # <<>> => u.number = us[Len(us)].number + (IF u.role = "user" THEN 1 ELSE 0)
  PROVE  LET vs == LastN(Append(us, u), UtteranceCap)
         IN WindowInv(vs) /\ Extended(us, vs, u.role, u.request)
<1> DEFINE a == Append(us, u)
           vs == LastN(a, UtteranceCap)
           k == Len(a) - Len(vs)
<1>1. /\ a \in Seq(Utterance) /\ Len(a) = Len(us) + 1 /\ a # <<>> /\ a[Len(a)] = u
      /\ Len(us) \in Nat
      /\ \A i \in 1 .. Len(us) : a[i] = us[i]
      /\ \A i \in 1 .. Len(us) : us[i] \in Utterance
      /\ (us = <<>>) = (Len(us) = 0)
  <2>1. us \in Seq(Utterance)
    BY DEF WindowInv
  <2>2. QED BY <2>1, Appended
<1>2. Ascending(a) /\ StepByStep(a)
  <2>1. \A i \in 1 .. Len(us) : us[i].number \in Nat
    BY <1>1 DEF Utterance
  <2>2. ASSUME NEW i \in 1 .. Len(a), NEW j \in 1 .. Len(a), i <= j
        PROVE  a[i].number <= a[j].number
    <3>1. CASE j <= Len(us)
      BY <1>1, <2>2, <3>1 DEF WindowInv, Ascending
    <3>2. CASE j = Len(us) + 1 /\ i <= Len(us)
      <4>1. us[i].number <= us[Len(us)].number
        BY <1>1, <3>2 DEF WindowInv, Ascending
      <4>2. us # <<>> /\ us[Len(us)].number \in Nat /\ us[i].number \in Nat
        BY <1>1, <2>1, <3>2
      <4>3. u.number >= us[Len(us)].number
        BY <4>2
      <4>4. QED BY <1>1, <3>2, <4>1, <4>2, <4>3 DEF Utterance
    <3>3. CASE i = Len(us) + 1 /\ j = Len(us) + 1
      BY <1>1, <3>3 DEF Utterance
    <3>4. QED BY <1>1, <2>2, <3>1, <3>2, <3>3
  <2>3. ASSUME NEW i \in 1 .. Len(a) - 1
        PROVE  a[i + 1].number = a[i].number + (IF a[i + 1].role = "user" THEN 1 ELSE 0)
    <3>1. CASE i < Len(us)
      BY <1>1, <3>1 DEF WindowInv, StepByStep
    <3>2. CASE i = Len(us)
      BY <1>1, <3>2
    <3>3. QED BY <1>1, <3>1, <3>2
  <2>4. QED BY <2>2, <2>3 DEF Ascending, StepByStep
<1>3. UtteranceCap \in Nat \ {0}
  BY ServiceAssumption
<1> HIDE DEF a
<1>4. /\ vs \in Seq(Utterance) /\ Len(vs) <= UtteranceCap
      /\ vs # <<>> /\ vs[Len(vs)] = u
      /\ k \in Nat /\ Len(vs) \in Nat /\ Len(a) \in Nat /\ Len(vs) = Len(a) - k
      /\ \A i \in 1 .. Len(vs) : i + k \in 1 .. Len(a) /\ vs[i] = a[i + k]
  <2>1. /\ vs \in Seq(Utterance) /\ Len(vs) <= UtteranceCap /\ Len(vs) <= Len(a)
        /\ vs # <<>> /\ vs[Len(vs)] = a[Len(a)]
        /\ \A i \in 1 .. Len(vs) : i + (Len(a) - Len(vs)) \in 1 .. Len(a)
                                 /\ vs[i] = a[i + (Len(a) - Len(vs))]
    BY <1>1, <1>3, LastNSuffix, Zenon
  <2>2. Len(vs) \in Nat /\ Len(a) \in Nat
    BY <1>1, <2>1
  <2>3. QED BY <1>1, <2>1, <2>2
<1>5. Len(vs) < Len(a) => Len(vs) = UtteranceCap
  BY <1>1, <1>3, LastNSuffix, Zenon
<1> HIDE DEF vs, k
<1>6. Ascending(vs) /\ StepByStep(vs)
  <2>1. Ascending(vs)
    BY <1>2, <1>4 DEF Ascending
  <2>2. ASSUME NEW i \in 1 .. Len(vs) - 1
        PROVE  vs[i + 1].number = vs[i].number + (IF vs[i + 1].role = "user" THEN 1 ELSE 0)
    <3>1. vs[i] = a[i + k] /\ vs[i + 1] = a[(i + k) + 1] /\ i + k \in 1 .. Len(a) - 1
      BY <1>4
    <3>2. QED BY <1>2, <3>1 DEF StepByStep
  <2>3. QED BY <2>1, <2>2 DEF StepByStep
<1>7. Extended(us, vs, u.role, u.request)
  <2>1. k > 0 => Len(vs) = UtteranceCap
    BY <1>5, <1>4
  <2>2. ASSUME NEW i \in 1 .. Len(vs) - 1
        PROVE  i + k \in 1 .. Len(us) /\ vs[i] = us[i + k]
    <3>1. i \in 1 .. Len(vs) /\ i + k \in 1 .. Len(us)
      BY <1>1, <1>4
    <3>2. QED BY <1>1, <1>4, <3>1
  <2>3. Len(vs) = Len(us) + 1 - k
    BY <1>1, <1>4
  <2>4. QED BY <1>4, <2>1, <2>2, <2>3 DEF Extended
<1>8. QED BY <1>4, <1>6, <1>7 DEF WindowInv, vs, a

(* The next turn number is one more than the last number of the window.     *)
LEMMA TurnNumberNext ==
  ASSUME NEW us, WindowInv(us)
  PROVE  /\ TurnNumber(us) \in Nat
         /\ us # <<>> => TurnNumber(us) = us[Len(us)].number + 1
<1> DEFINE numbers == {0} \cup {us[i].number : i \in 1 .. Len(us)}
<1>1. us \in Seq(Utterance) /\ \A i \in 1 .. Len(us) : us[i].number \in Nat
  <2>1. us \in Seq(Utterance)
    BY DEF WindowInv
  <2>2. \A i \in 1 .. Len(us) : us[i] \in Utterance
    BY <2>1
  <2>3. QED BY <2>1, <2>2 DEF Utterance
<1>2. CASE us = <<>>
  <2>1. numbers = {0}
    BY <1>2
  <2>2. MaxOf(numbers) = 0
    BY <2>1 DEF MaxOf
  <2>3. QED BY <1>2, <2>2 DEF TurnNumber
<1>3. CASE us # <<>>
  <2> DEFINE n == us[Len(us)].number
  <2>1. Len(us) \in 1 .. Len(us) /\ n \in Nat
    BY <1>1, <1>3
  <2>2. n \in numbers /\ \A x \in numbers : x <= n /\ x \in Nat
    BY <1>1, <2>1 DEF WindowInv, Ascending
  <2>3. MaxOf(numbers) \in numbers /\ \A x \in numbers : x <= MaxOf(numbers)
    BY <2>2 DEF MaxOf
  <2>4. MaxOf(numbers) = n
    <3>1. MaxOf(numbers) <= n /\ n <= MaxOf(numbers) /\ MaxOf(numbers) \in Nat
      BY <2>2, <2>3, Zenon
    <3>2. QED BY <2>1, <3>1
  <2>5. QED BY <1>3, <2>1, <2>4 DEF TurnNumber
<1>4. QED BY <1>2, <1>3

(* A user turn keeps the window good, and the window ends with it.          *)
LEMMA UserTurn ==
  ASSUME NEW us, WindowInv(us), NEW r \in Request
  PROVE  LET vs == AppendUtterance(us, r)
         IN WindowInv(vs) /\ Extended(us, vs, "user", r)
<1> DEFINE u == [number |-> TurnNumber(us), role |-> "user", request |-> r]
<1>1. /\ u \in Utterance /\ u.role = "user" /\ u.request = r
      /\ us # <<>> => u.number = us[Len(us)].number + 1
  BY TurnNumberNext DEF Utterance
<1>2. AppendUtterance(us, r) = LastN(Append(us, u), UtteranceCap)
  BY DEF AppendUtterance
<1> HIDE DEF u
<1>3. QED BY <1>1, <1>2, AppendTurn

----------------------------------------------------------------------------
(* Outcomes of accept                                                       *)

(* A turn that leaves entities, bindings, evidence and plan alone.          *)
LEMMA TurnTaken ==
  ASSUME NEW s, SessionInv(s), NEW r \in Request,
         NEW h \in SessionType, PendingInv(h),
         h.resolved = s.resolved, h.bindings = s.bindings,
         h.previous_answer_plan = s.previous_answer_plan,
         h.evidence_handles = s.evidence_handles,
         h.recent_utterances = AppendUtterance(s.recent_utterances, r)
  PROVE  SessionInv(h)
<1>1. WindowInv(h.recent_utterances)
  BY UserTurn DEF SessionInv
<1>2. PlanRetained(h) /\ ReferentInv(h)
  BY DEF SessionInv, PlanRetained, ReferentInv
<1>3. QED BY <1>1, <1>2 DEF SessionInv

(* What the save after accept relies on, and what it does to the stored     *)
(* turns and to an earlier cancel.                                          *)
GoodOutcome(s, r, out) ==
  /\ SessionInv(out.state)
  /\ out \in OutcomeType /\ out.kind # "NONE"
  /\ out.kind = "RESET" => out.state = FreshSession
  /\ out.kind # "RESET" =>
       /\ out.state.recent_utterances = AppendUtterance(s.recent_utterances, r)
       /\ s.cancelled => out.state.cancelled
  /\ out.kind = "CANCEL" => out.state.cancelled
  /\ out.kind = "ASK" => out.state.pending # None

(* The fields of an outcome.                                                *)
LEMMA OutcomeFields ==
  ASSUME NEW h \in SessionType, NEW k \in {"NONE", "RESET", "CANCEL", "ASK", "CONTINUE"},
         NEW e \in Entity \cup {None}, NEW rel \in Relation \cup {None}
  PROVE  LET out == Outcome(h, k, e, rel)
         IN out \in OutcomeType /\ out.state = h /\ out.kind = k
  BY DEF Outcome, OutcomeType

(* The typed window of a good session after a user turn.                    *)
LEMMA TurnType ==
  ASSUME NEW s, SessionInv(s), NEW r \in Request
  PROVE  /\ s \in SessionType
         /\ AppendUtterance(s.recent_utterances, r) \in Seq(Utterance)
  BY UserTurn DEF SessionInv, WindowInv

(* A session nobody has used is good.                                       *)
LEMMA FreshInv == SessionInv(FreshSession) /\ FreshSession \in SessionType
                  /\ FreshSession.recent_utterances = <<>>
<1>1. FreshSession \in SessionType
  BY DEF FreshSession, SessionType
<1>2. WindowInv(FreshSession.recent_utterances)
  BY ServiceAssumption DEF FreshSession, WindowInv, Ascending, StepByStep
<1>3. PlanRetained(FreshSession) /\ PendingInv(FreshSession) /\ ReferentInv(FreshSession)
  BY DEF FreshSession, PlanRetained, PendingInv, ReferentInv, Elements
<1>4. QED BY <1>1, <1>2, <1>3, ServiceAssumption DEF SessionInv, FreshSession

(* A cancelled session has no question and no hypotheses.                   *)
LEMMA CancelInv ==
  ASSUME NEW s, SessionInv(s), NEW r \in Request
  PROVE  GoodOutcome(s, r, AcceptCancel(s, r))
<1> DEFINE us == AppendUtterance(s.recent_utterances, r)
           h == [s EXCEPT !.current_query = FALSE, !.pending = None, !.unresolved = {},
                          !.recent_utterances = us, !.cancelled = TRUE]
<1>1. s \in SessionType /\ us \in Seq(Utterance)
  BY TurnType
<1>2. /\ h \in SessionType
      /\ h.pending = None /\ h.unresolved = {}
      /\ h.resolved = s.resolved /\ h.bindings = s.bindings
      /\ h.previous_answer_plan = s.previous_answer_plan
      /\ h.evidence_handles = s.evidence_handles
      /\ h.recent_utterances = us /\ h.cancelled
  BY <1>1 DEF SessionType, Utterance
<1>3. AcceptCancel(s, r) = Outcome(h, "CANCEL", None, None)
  BY DEF AcceptCancel
<1> HIDE DEF h
<1>4. SessionInv(h)
  BY <1>2, TurnTaken DEF PendingInv
<1>5. QED BY <1>2, <1>3, <1>4, OutcomeFields DEF GoodOutcome

(* A repeated question is the one that was pending.                         *)
LEMMA RepeatInv ==
  ASSUME NEW s, SessionInv(s), NEW r \in Request, s.pending # None
  PROVE  GoodOutcome(s, r, AcceptRepeat(s, r))
<1> DEFINE us == AppendUtterance(s.recent_utterances, r)
           h == [s EXCEPT !.current_query = TRUE, !.recent_utterances = us]
<1>1. s \in SessionType /\ us \in Seq(Utterance) /\ PendingInv(s)
  BY TurnType DEF SessionInv
<1>2. /\ h \in SessionType
      /\ h.pending = s.pending /\ h.unresolved = s.unresolved
      /\ h.resolved = s.resolved /\ h.bindings = s.bindings
      /\ h.previous_answer_plan = s.previous_answer_plan
      /\ h.evidence_handles = s.evidence_handles
      /\ h.recent_utterances = us /\ h.cancelled = s.cancelled
  BY <1>1 DEF SessionType, Utterance
<1>3. AcceptRepeat(s, r) = Outcome(h, "ASK", None, None)
  BY DEF AcceptRepeat
<1> HIDE DEF h
<1>4. PendingInv(h)
  BY <1>1, <1>2 DEF PendingInv
<1>5. SessionInv(h)
  BY <1>2, <1>4, TurnTaken
<1>6. QED BY <1>2, <1>3, <1>5, OutcomeFields DEF GoodOutcome

(* What a text may be.                                                      *)
LEMMA TextFields ==
  ASSUME NEW t \in Text
  PROVE  /\ t \in TextType
         /\ t.candidates \in SUBSET Entity
         /\ t.relation \in Relation \cup {None}
         /\ t.best \in Entity \cup {None}
         /\ (t.best = None) = (t.candidates = {})
         /\ t.best # None => t.best \in t.candidates
         /\ t.ambiguous => \E e \in t.candidates : e # t.best
<1>1. t \in TextType
  BY ServiceAssumption
<1>2. /\ (t.best = None) = (t.candidates = {})
      /\ t.best # None => t.best \in t.candidates
      /\ t.ambiguous => \E e \in t.candidates : e # t.best
  BY ServiceAssumption
<1>3. QED BY <1>1, <1>2 DEF TextType

(* An ambiguous text asks about all its candidates, two at least.           *)
LEMMA AmbiguousInv ==
  ASSUME NEW s, SessionInv(s), NEW r \in Request, NEW t \in Text,
         NEW rel \in Relation \cup {None}, t.candidates # {}, t.ambiguous
  PROVE  GoodOutcome(s, r, AcceptAmbiguous(s, r, t, rel))
<1> DEFINE us == AppendUtterance(s.recent_utterances, r)
           p == [choices |-> t.candidates, relation |-> t.relation]
           h == [s EXCEPT !.current_query = TRUE, !.unresolved = t.candidates,
                          !.pending = p, !.recent_utterances = us]
           known == IF rel # None THEN rel ELSE s.previous_relation
<1>1. s \in SessionType /\ us \in Seq(Utterance)
  BY TurnType
<1>2. /\ t.candidates \in SUBSET Entity
      /\ t.relation \in Relation \cup {None}
      /\ \E d, e \in t.candidates : d # e
  BY TextFields
<1>3. /\ h \in SessionType
      /\ h.pending = p /\ h.unresolved = t.candidates
      /\ h.resolved = s.resolved /\ h.bindings = s.bindings
      /\ h.previous_answer_plan = s.previous_answer_plan
      /\ h.evidence_handles = s.evidence_handles
      /\ h.recent_utterances = us /\ h.cancelled = s.cancelled
  BY <1>1, <1>2 DEF SessionType, Utterance
<1>4. AcceptAmbiguous(s, r, t, rel) = Outcome(h, "ASK", None, known)
  BY DEF AcceptAmbiguous
<1> HIDE DEF h
<1>5. known \in Relation \cup {None}
  BY <1>1 DEF SessionType
<1>6. p # None
  <2>1. p \in [choices : SUBSET Entity, relation : Relation \cup {None}]
    BY <1>2
  <2>2. QED BY <2>1, ServiceAssumption
<1>7. PendingInv(h)
  BY <1>2, <1>3, <1>6 DEF PendingInv
<1>8. SessionInv(h)
  BY <1>3, <1>7, TurnTaken
<1>9. QED BY <1>3, <1>4, <1>5, <1>6, <1>8, OutcomeFields DEF GoodOutcome

(* Leaving an entity out of a window leaves a window of entities: by        *)
(* induction over the recursion that goes through it.                       *)
LEMMA WithoutType ==
  ASSUME NEW T, NEW s \in Seq(T), NEW e
  PROVE  Without(s, e) \in Seq(T)
<1> DEFINE X == Seq(T)
           N == Len(s)
           D(v, n) == IF s[n] = e THEN v ELSE Append(v, s[n])
           F == [p \in X \X (1 .. N) |-> D(p[1], p[2])]
           c == <<>>
           Def(g) == g = [n \in 0 .. N |-> IF n = 0 THEN <<>> ELSE D(g[n - 1], n)]
           rest == CHOOSE g : Def(g)
<1>1. N \in Nat /\ \A n \in 1 .. N : s[n] \in T
  OBVIOUS
<1>2. c \in X /\ \A v \in X, n \in 1 .. N : D(v, n) \in X
  BY <1>1
<1>3. Without(s, e) = rest[N]
  BY DEF Without
<1> HIDE DEF D, X, N
<1>4. F \in [X \X (1 .. N) -> X] /\ \A v \in X, n \in 1 .. N : F[<<v, n>>] = D(v, n)
  BY <1>2
<1> HIDE DEF F
<1> HIDE DEF c
<1>5. PICK f \in [0 .. N -> X] : Iterates(f, c, N, F)
  <2>1. c \in X /\ N \in Nat /\ F \in [X \X (1 .. N) -> X]
    BY <1>1, <1>2, <1>4
  <2>2. QED BY <2>1, Recursion
<1>6. \A i \in 1 .. N : f[i - 1] \in X
  BY <1>1
<1>7. Def(f)
  <2>1. \A n \in 0 .. N : n # 0 => n \in 1 .. N
    BY <1>1
  <2>2. \A n \in 0 .. N : f[n] = IF n = 0 THEN <<>> ELSE D(f[n - 1], n)
    BY <1>4, <1>5, <1>6, <2>1 DEF c, Iterates
  <2>3. QED BY <1>5, <2>2
<1>8. Def(rest)
  BY <1>7
<1> HIDE DEF rest
<1>9. rest[0] = <<>> /\ \A i \in 1 .. N : rest[i] = D(rest[i - 1], i)
  BY <1>1, <1>8
<1> DEFINE S == {n \in Nat : n <= N => rest[n] \in X}
<1>10. 0 \in S
  BY <1>2, <1>9 DEF c
<1>11. ASSUME NEW n \in Nat, n \in S
       PROVE  n + 1 \in S
  <2>1. SUFFICES ASSUME n + 1 <= N
                 PROVE  rest[n + 1] \in X
    OBVIOUS
  <2>2. n + 1 \in 1 .. N /\ rest[n] \in X /\ (n + 1) - 1 = n
    BY <1>1, <1>11, <2>1
  <2>3. rest[n + 1] = D(rest[n], n + 1)
    BY <1>9, <2>2
  <2>4. QED BY <1>2, <2>2, <2>3
<1> HIDE DEF S
<1>12. N \in S
  BY <1>1, <1>10, <1>11, SetInduction
<1>13. QED BY <1>1, <1>3, <1>12 DEF S, X

(* Naming an entity makes it the last one resolved and the last one bound.  *)
LEMMA BoundInv ==
  ASSUME NEW s, SessionInv(s), NEW e \in Entity
  PROVE  LET b == BindResolved(s, e)
         IN /\ SessionInv(b) /\ b \in SessionType
            /\ b.recent_utterances = s.recent_utterances /\ b.cancelled = s.cancelled
<1> DEFINE others == Without(s.resolved, e)
           seen == LastN(Append(others, e), ResolvedCap)
           bound == LastN(Append(s.bindings, e), ResolvedCap)
           b == [s EXCEPT !.resolved = seen, !.bindings = bound]
<1>1. s \in SessionType /\ s.resolved \in Seq(Entity) /\ s.bindings \in Seq(Entity)
  BY DEF SessionInv, SessionType
<1>2. others \in Seq(Entity)
  BY <1>1, WithoutType
<1>3. ResolvedCap \in Nat \ {0}
  BY ServiceAssumption
<1> HIDE DEF others
<1>4. /\ seen \in Seq(Entity) /\ Len(seen) <= ResolvedCap
      /\ seen # <<>> /\ seen[Len(seen)] = e
  BY <1>2, <1>3, AppendedSuffix DEF EndsWith
<1>5. /\ bound \in Seq(Entity) /\ Len(bound) <= ResolvedCap
      /\ bound # <<>> /\ bound[Len(bound)] = e
  <2>1. EndsWith(bound, e, Entity, ResolvedCap, Elements(s.bindings))
    BY <1>1, <1>3, AppendedSuffix
  <2>2. QED BY <2>1 DEF EndsWith
<1>6. BindResolved(s, e) = b
  BY DEF BindResolved, others
<1> HIDE DEF seen, bound
<1>7. /\ b \in SessionType
      /\ b.resolved = seen /\ b.bindings = bound
      /\ b.pending = s.pending /\ b.unresolved = s.unresolved
      /\ b.previous_answer_plan = s.previous_answer_plan
      /\ b.evidence_handles = s.evidence_handles
      /\ b.recent_utterances = s.recent_utterances /\ b.cancelled = s.cancelled
  BY <1>1, <1>4, <1>5 DEF SessionType
<1> HIDE DEF b
<1>8. PlanRetained(b) /\ PendingInv(b) /\ ReferentInv(b)
  BY <1>4, <1>5, <1>7 DEF SessionInv, PlanRetained, PendingInv, ReferentInv
<1>9. QED BY <1>4, <1>5, <1>6, <1>7, <1>8 DEF SessionInv

(* A text that is understood closes the question that was pending.          *)
LEMMA ContinueInv ==
  ASSUME NEW s, SessionInv(s), NEW r \in Request, NEW t \in Text,
         NEW rel \in Relation \cup {None}, NEW selected \in Entity \cup {None}
  PROVE  GoodOutcome(s, r, AcceptContinue(s, r, t, rel, selected))
<1> DEFINE bound == IF selected # None THEN BindResolved(s, selected) ELSE s
           referred == IF "referent" \in t.style /\ s.resolved # <<>>
                       THEN s.resolved[Len(s.resolved)] ELSE None
           relation == EffectiveRelation(s, t, rel)
           entity == IF selected # None THEN selected ELSE referred
           us == AppendUtterance(s.recent_utterances, r)
           h == [bound EXCEPT !.current_query = TRUE, !.previous_relation = relation,
                              !.unresolved = {}, !.pending = None,
                              !.recent_utterances = us]
<1>1. s \in SessionType /\ us \in Seq(Utterance)
  BY TurnType
<1>2. /\ SessionInv(bound) /\ bound \in SessionType
      /\ bound.recent_utterances = s.recent_utterances /\ bound.cancelled = s.cancelled
  BY <1>1, BoundInv
<1>3. entity \in Entity \cup {None}
  <2>1. s.resolved \in Seq(Entity)
    BY <1>1 DEF SessionType
  <2>2. s.resolved # <<>> => s.resolved[Len(s.resolved)] \in Entity
    BY <2>1
  <2>3. QED BY <2>2
<1>4. relation \in Relation \cup {None}
  BY <1>1 DEF EffectiveRelation, SessionType
<1>5. AcceptContinue(s, r, t, rel, selected) = Outcome(h, "CONTINUE", entity, relation)
  BY DEF AcceptContinue, TurnRecorded
<1> HIDE DEF bound, entity, relation
<1>6. /\ h \in SessionType
      /\ h.pending = None /\ h.unresolved = {}
      /\ h.resolved = bound.resolved /\ h.bindings = bound.bindings
      /\ h.previous_answer_plan = bound.previous_answer_plan
      /\ h.evidence_handles = bound.evidence_handles
      /\ h.recent_utterances = AppendUtterance(bound.recent_utterances, r)
      /\ h.cancelled = bound.cancelled
  BY <1>1, <1>2, <1>4 DEF SessionType, Utterance
<1> HIDE DEF h
<1>7. SessionInv(h)
  BY <1>2, <1>6, TurnTaken DEF PendingInv
<1>8. h.recent_utterances = AppendUtterance(s.recent_utterances, r) /\ h.cancelled = s.cancelled
  BY <1>2, <1>6
<1>9. s.cancelled => h.cancelled
  BY <1>8, Zenon
<1> DEFINE out == Outcome(h, "CONTINUE", entity, relation)
<1>10. out \in OutcomeType /\ out.state = h /\ out.kind = "CONTINUE"
  BY <1>3, <1>4, <1>6, OutcomeFields
<1> HIDE DEF out
<1>11. s.cancelled => out.state.cancelled
  BY <1>9, <1>10, Zenon
<1>12. GoodOutcome(s, r, out)
  BY <1>7, <1>8, <1>10, <1>11 DEF GoodOutcome
<1>13. QED BY <1>5, <1>12 DEF out

(* accept, whatever the session it loaded and the text.                     *)
LEMMA AcceptInv ==
  ASSUME NEW s, SessionInv(s), NEW r \in Request, NEW t \in Text, t.kind # "blank",
         NEW rel \in Relation \cup {None}
  PROVE  GoodOutcome(s, r, Accept(s, r, t, rel))
<1>1. t.kind \in {"reset", "cancel", "ask"} /\ t.ambiguous \in BOOLEAN
  BY TextFields DEF TextType
<1>2. CASE t.kind = "reset"
  <2>1. Accept(s, r, t, rel) = Outcome(FreshSession, "RESET", None, None)
    BY <1>2 DEF Accept, ResetSession
  <2>2. QED BY <1>2, <2>1, FreshInv, OutcomeFields DEF GoodOutcome
<1>3. CASE t.kind = "cancel"
  <2>1. Accept(s, r, t, rel) = AcceptCancel(s, r)
    BY <1>3 DEF Accept
  <2>2. QED BY <2>1, CancelInv
<1>4. CASE t.kind = "ask" /\ t.candidates # {} /\ t.ambiguous
  <2>1. Accept(s, r, t, rel) = AcceptAmbiguous(s, r, t, rel)
    BY <1>4 DEF Accept
  <2>2. QED BY <1>4, <2>1, AmbiguousInv
<1>5. CASE t.kind = "ask" /\ t.candidates # {} /\ ~t.ambiguous
  <2>1. Accept(s, r, t, rel) = AcceptContinue(s, r, t, rel, t.best)
    BY <1>5 DEF Accept
  <2>2. t.best \in Entity \cup {None}
    BY TextFields
  <2>3. QED BY <2>1, <2>2, ContinueInv
<1>6. CASE t.kind = "ask" /\ t.candidates = {} /\ s.pending = None
  <2>1. Accept(s, r, t, rel) = AcceptContinue(s, r, t, rel, None)
    BY <1>6 DEF Accept
  <2>2. QED BY <2>1, ContinueInv
<1>7. CASE t.kind = "ask" /\ t.candidates = {} /\ s.pending # None
  <2>1. Accept(s, r, t, rel) = IF NamesChoice(s, t)
                               THEN AcceptContinue(s, r, t, rel, t.choice)
                               ELSE AcceptRepeat(s, r)
    BY <1>7 DEF Accept
  <2>2. t.choice \in Entity \cup {None}
    BY TextFields DEF TextType
  <2>3. QED BY <1>7, <2>1, <2>2, ContinueInv, RepeatInv
<1>8. QED BY <1>1, <1>2, <1>3, <1>4, <1>5, <1>6, <1>7

(* Only a reset resets.                                                     *)
LEMMA ResetOutcome ==
  ASSUME NEW s, NEW r \in Request, NEW t \in Text, t.kind # "blank", NEW rel
  PROVE  t.kind = "reset" <=> Accept(s, r, t, rel).kind = "RESET"
<1>1. t.kind \in {"reset", "cancel", "ask"} /\ t.ambiguous \in BOOLEAN
  BY TextFields DEF TextType
<1>2. \A h, e, v : /\ Outcome(h, "RESET", e, v).kind = "RESET"
                   /\ Outcome(h, "CANCEL", e, v).kind # "RESET"
                   /\ Outcome(h, "ASK", e, v).kind # "RESET"
                   /\ Outcome(h, "CONTINUE", e, v).kind # "RESET"
  BY DEF Outcome
<1>3. /\ AcceptCancel(s, r).kind # "RESET" /\ AcceptRepeat(s, r).kind # "RESET"
      /\ AcceptAmbiguous(s, r, t, rel).kind # "RESET"
      /\ \A e : AcceptContinue(s, r, t, rel, e).kind # "RESET"
  BY <1>2, Zenon DEF AcceptCancel, AcceptRepeat, AcceptAmbiguous, AcceptContinue
<1> DEFINE out == Accept(s, r, t, rel)
<1>4. CASE t.kind = "reset"
  BY <1>2, <1>4 DEF Accept
<1>5. CASE t.kind = "cancel"
  <2>1. out = AcceptCancel(s, r)
    BY <1>5 DEF Accept
  <2>2. QED BY <1>3, <1>5, <2>1
<1>6. CASE t.kind = "ask" /\ t.candidates # {} /\ t.ambiguous
  <2>1. out = AcceptAmbiguous(s, r, t, rel)
    BY <1>6 DEF Accept
  <2>2. QED BY <1>3, <1>6, <2>1
<1>7. CASE t.kind = "ask" /\ t.candidates # {} /\ ~t.ambiguous
  <2>1. out = AcceptContinue(s, r, t, rel, t.best)
    BY <1>7 DEF Accept
  <2>2. QED BY <1>3, <1>7, <2>1
<1>8. CASE t.kind = "ask" /\ t.candidates = {} /\ s.pending = None
  <2>1. out = AcceptContinue(s, r, t, rel, None)
    BY <1>8 DEF Accept
  <2>2. QED BY <1>3, <1>8, <2>1
<1>9. CASE t.kind = "ask" /\ t.candidates = {} /\ s.pending # None
  <2>1. out = IF NamesChoice(s, t) THEN AcceptContinue(s, r, t, rel, t.choice)
                                   ELSE AcceptRepeat(s, r)
    BY <1>9 DEF Accept
  <2>2. QED BY <1>3, <1>9, <2>1
<1>10. QED BY <1>1, <1>4, <1>5, <1>6, <1>7, <1>8, <1>9

(* An answer files its evidence and an assistant turn.                      *)
LEMMA RecordAnswerInv ==
  ASSUME NEW s, SessionInv(s), s.recent_utterances # <<>>, NEW r \in Request, NEW h \in Records
  PROVE  LET a == RecordAnswer(s, r, h)
         IN /\ SessionInv(a)
            /\ Extended(s.recent_utterances, a.recent_utterances, "assistant", r)
            /\ a.cancelled = s.cancelled
<1> DEFINE us == s.recent_utterances
           u == [number |-> us[Len(us)].number, role |-> "assistant", request |-> r]
           vs == LastN(Append(us, u), UtteranceCap)
           kept == LastN(AddHandle(s.evidence_handles, h), EvidenceCap)
           a == [s EXCEPT !.previous_answer_plan = h, !.evidence_handles = kept,
                          !.recent_utterances = vs]
<1>1. s \in SessionType /\ WindowInv(us) /\ s.evidence_handles \in Seq(Handles)
  BY DEF SessionInv, SessionType
<1>2. u \in Utterance /\ u.role = "assistant" /\ u.request = r /\ u.number = us[Len(us)].number
  <2>1. us \in Seq(Utterance)
    BY <1>1 DEF WindowInv
  <2>2. us[Len(us)] \in Utterance
    BY <2>1
  <2>3. QED BY <2>2 DEF Utterance
<1>3. RecordAnswer(s, r, h) = a
  BY DEF RecordAnswer
<1> HIDE DEF u
<1>4. WindowInv(vs) /\ Extended(us, vs, "assistant", r)
  <2>1. u.number = us[Len(us)].number + (IF u.role = "user" THEN 1 ELSE 0)
    BY <1>1, <1>2 DEF Utterance
  <2>2. QED BY <1>1, <1>2, <2>1, AppendTurn
<1>5. /\ kept \in Seq(Handles) /\ Len(kept) <= EvidenceCap
      /\ h \in Elements(kept) /\ Elements(kept) \subseteq Records
  <2> DEFINE all == AddHandle(s.evidence_handles, h)
  <2>0. EvidenceCap \in Nat \ {0} /\ h \in Handles
    BY ServiceAssumption DEF Handles
  <2>1. /\ Elements(s.evidence_handles) \subseteq Records
        /\ Len(s.evidence_handles) <= EvidenceCap
    BY DEF SessionInv, PlanRetained
  <2>2. CASE h \in Elements(s.evidence_handles)
    BY <1>1, <2>0, <2>1, <2>2 DEF AddHandle, LastN
  <2>3. CASE h \notin Elements(s.evidence_handles)
    <3>1. all = Append(s.evidence_handles, h)
      BY <2>3 DEF AddHandle
    <3>2. /\ kept \in Seq(Handles) /\ Len(kept) <= EvidenceCap
          /\ kept # <<>> /\ kept[Len(kept)] = h
          /\ \A i \in 1 .. Len(kept) : kept[i] \in Elements(s.evidence_handles) \cup {h}
      <4>1. EndsWith(kept, h, Handles, EvidenceCap, Elements(s.evidence_handles))
        BY <1>1, <2>0, <3>1, AppendedSuffix
      <4>2. QED BY <4>1 DEF EndsWith
    <3>3. Len(kept) \in 1 .. Len(kept)
      BY <3>2
    <3>4. QED BY <2>1, <3>2, <3>3 DEF Elements
  <2>4. QED BY <2>2, <2>3
<1> HIDE DEF vs, kept
<1>6. /\ a \in SessionType
      /\ a.previous_answer_plan = h /\ a.evidence_handles = kept
      /\ a.recent_utterances = vs /\ a.cancelled = s.cancelled
      /\ a.resolved = s.resolved /\ a.bindings = s.bindings
      /\ a.pending = s.pending /\ a.unresolved = s.unresolved
  <2>1. vs \in Seq(Utterance) /\ h \in Handles
    BY <1>4, ServiceAssumption DEF WindowInv, Handles
  <2>2. QED BY <1>1, <1>5, <2>1 DEF SessionType, Utterance
<1> HIDE DEF a
<1>7. PlanRetained(a) /\ PendingInv(a) /\ ReferentInv(a)
  BY <1>5, <1>6 DEF SessionInv, PlanRetained, PendingInv, ReferentInv
<1>8. QED BY <1>3, <1>4, <1>5, <1>6, <1>7 DEF SessionInv

----------------------------------------------------------------------------
(* Steps                                                                    *)

(* The frame of a thread that does not run.                                 *)
LEMMA NoLocalsInv == NoLocals \in LocalType /\ NoLocals.state = FreshSession
  BY FreshInv DEF NoLocals, LocalType, NoOutcome, OutcomeType, Outcome

(* The service starts with an unused session and no thread.                 *)
LEMMA InitInv == Init => IInv
<1> SUFFICES ASSUME Init PROVE IInv
  OBVIOUS
<1>1. TypeInv
  <2>1. "idle" \in Labels /\ NoLocals \in LocalType
    BY NoLocalsInv DEF Labels
  <2>2. QED BY <2>1 DEF Init, TypeInv
<1>2. SessionInv(disk)
  BY FreshInv DEF Init
<1>3. ASSUME NEW r \in Request PROVE ThreadInv(r)
  <2>1. pc[r] = "idle" /\ local[r].state = FreshSession
    BY NoLocalsInv DEF Init
  <2>2. QED BY <2>1, FreshInv DEF ThreadInv
<1>4. QED BY <1>1, <1>2, <1>3 DEF IInv

(* The threads other than r do not move.                                    *)
OthersStay(r) ==
  \A q \in Request \ {r} :
    pc'[q] = pc[q] /\ local'[q] = local[q] /\ response'[q] = response[q]

(* A step of a thread in flight: what it does to its own frame and to the   *)
(* stored session is all there is to check.                                 *)
LEMMA StepInv ==
  ASSUME IInv, NEW r \in Request, OthersStay(r), TypeInv', SessionInv(disk)', ThreadInv(r)'
  PROVE  IInv'
<1>1. ASSUME NEW q \in Request PROVE ThreadInv(q)'
  <2>1. CASE q # r
    BY <2>1 DEF IInv, ThreadInv, Handle, OthersStay
  <2>2. QED BY <2>1
<1>2. QED BY <1>1 DEF IInv

(* A handler that ends leaves one thread less in flight and the session     *)
(* alone.                                                                   *)
LEMMA RespondInv ==
  ASSUME IInv, NEW r \in Request, pc[r] \notin {"idle", "done"}, NEW d \in Disposition,
         Respond(r, d), SessionInv(disk)', beside' = beside
  PROVE  IInv'
<1>1. /\ pc' = [pc EXCEPT ![r] = "done"]
      /\ local' = [local EXCEPT ![r] = NoLocals]
      /\ response' = [response EXCEPT ![r] = d]
  BY DEF Respond, Goto
<1>2. TypeInv' /\ OthersStay(r)
  BY <1>1, NoLocalsInv DEF IInv, TypeInv, Labels, OthersStay
<1>3. pc'[r] = "done" /\ local'[r] = NoLocals /\ response'[r] = d
  BY <1>1 DEF IInv, TypeInv
<1>4. ThreadInv(r)'
  <2>1. local'[r].state = FreshSession
    BY <1>3, NoLocalsInv
  <2>2. QED BY <1>3, <2>1, FreshInv DEF ThreadInv
<1>5. QED BY <1>2, <1>4, StepInv

(* A thread that goes on with other locals.                                 *)
LEMMA GoInv ==
  ASSUME IInv, NEW r \in Request, pc[r] \notin {"idle", "done"}, NEW label \in Labels,
         NEW l \in LocalType, Goto(r, label), local' = [local EXCEPT ![r] = l],
         UNCHANGED <<response, beside>>
  PROVE  /\ TypeInv' /\ OthersStay(r)
         /\ pc'[r] = label /\ local'[r] = l /\ response'[r] = response[r]
         /\ ThreadInv(r) /\ local[r] \in LocalType
<1>1. pc' = [pc EXCEPT ![r] = label]
  BY DEF Goto
<1>2. pc \in [Request -> Labels] /\ local \in [Request -> LocalType]
  BY DEF IInv, TypeInv
<1>3. TypeInv'
  BY <1>1, <1>2 DEF IInv, TypeInv
<1>4. OthersStay(r)
  BY <1>1, <1>2 DEF OthersStay
<1>5. pc'[r] = label /\ local'[r] = l /\ response'[r] = response[r]
  BY <1>1, <1>2
<1>6. QED BY <1>2, <1>3, <1>4, <1>5 DEF IInv

(* A handler that ends without a save.                                      *)
LEMMA EndInv ==
  ASSUME IInv, NEW r \in Request, pc[r] \notin {"idle", "done"}, NEW d \in Disposition,
         Respond(r, d), UNCHANGED <<disk, beside>>
  PROVE  IInv'
<1>1. SessionInv(disk)'
  BY DEF IInv
<1>2. QED BY <1>1, RespondInv

(* A blank message is refused and nothing is stored.                        *)
LEMMA RejectBlankInv == ASSUME IInv, NEW r \in Request, RejectBlank(r) PROVE IInv'
<1>1. "ERROR" \in Disposition /\ pc[r] \notin {"idle", "done"} /\ Respond(r, "ERROR")
  BY DEF RejectBlank, Disposition
<1>2. UNCHANGED <<disk, beside>>
  BY DEF RejectBlank
<1>3. QED BY <1>1, <1>2, EndInv

(* A request takes the relation it asks for from its text or the session.   *)
LEMMA LoadBeforeInv == ASSUME IInv, NEW r \in Request, LoadBefore(r) PROVE IInv'
<1> DEFINE own == local[r].text.relation
           rel == IF own = None /\ disk.pending # None THEN disk.pending.relation ELSE own
           l == [local[r] EXCEPT !.relation = rel]
<1>1. local[r] \in LocalType /\ local[r].text \in Text /\ SessionInv(disk) /\ ThreadInv(r)
  BY DEF IInv, TypeInv, ThreadInv, LoadBefore
<1>2. rel \in Relation \cup {None}
  <2>1. own \in Relation \cup {None}
    BY <1>1, TextFields
  <2>2. disk.pending # None => disk.pending.relation \in Relation \cup {None}
    BY <1>1 DEF SessionInv, SessionType
  <2>3. QED BY <2>1, <2>2
<1>3. /\ Goto(r, "accept_load") /\ local' = [local EXCEPT ![r] = l]
      /\ UNCHANGED <<disk, response, beside>> /\ pc[r] = "load_before"
      /\ local[r].text.kind # "blank"
  BY DEF LoadBefore
<1> HIDE DEF own, rel
<1>4. /\ l \in LocalType /\ l.text = local[r].text /\ l.state = local[r].state
      /\ "accept_load" \in Labels
  BY <1>1, <1>2 DEF LocalType, Labels
<1> HIDE DEF l
<1>5. /\ TypeInv' /\ OthersStay(r)
      /\ pc'[r] = "accept_load" /\ local'[r] = l /\ response'[r] = response[r]
  BY <1>3, <1>4, GoInv
<1>6. ThreadInv(r)'
  BY <1>1, <1>3, <1>4, <1>5 DEF ThreadInv
<1>7. QED BY <1>1, <1>3, <1>5, <1>6, StepInv

(* A request reads the session it will accept its message into.             *)
LEMMA AcceptLoadInv == ASSUME IInv, NEW r \in Request, AcceptLoad(r) PROVE IInv'
<1> DEFINE l == [local[r] EXCEPT !.state = disk]
<1>1. local[r] \in LocalType /\ SessionInv(disk) /\ ThreadInv(r)
  BY DEF IInv, TypeInv
<1>2. Goto(r, "accept_save") /\ local' = [local EXCEPT ![r] = l]
  BY DEF AcceptLoad
<1>3. /\ l \in LocalType /\ l.text = local[r].text /\ l.state = disk
      /\ "accept_save" \in Labels
  BY <1>1 DEF LocalType, Labels, SessionInv
<1> HIDE DEF l
<1>4. /\ TypeInv' /\ OthersStay(r)
      /\ pc'[r] = "accept_save" /\ local'[r] = l /\ response'[r] = response[r]
  <2>1. pc[r] \notin {"idle", "done"} /\ UNCHANGED <<response, beside>>
    BY Zenon DEF AcceptLoad
  <2>2. QED BY <1>2, <1>3, <2>1, GoInv, Zenon
<1>5. ThreadInv(r)'
  BY <1>1, <1>3, <1>4 DEF ThreadInv, AcceptLoad
<1>6. QED BY <1>1, <1>4, <1>5, StepInv DEF AcceptLoad

(* The save of accept: whatever was stored meanwhile, what it stores came   *)
(* from a good session.                                                     *)
LEMMA AcceptSaveInv == ASSUME IInv, NEW r \in Request, AcceptSave(r) PROVE IInv'
<1> DEFINE s == local[r].state
           out == Accept(s, r, local[r].text, local[r].relation)
           l == [local[r] EXCEPT !.outcome = out, !.state = FreshSession]
<1>1. /\ local[r] \in LocalType /\ local[r].text \in Text /\ local[r].text.kind # "blank"
      /\ SessionInv(s)
  BY DEF IInv, TypeInv, ThreadInv, AcceptSave
<1>2. GoodOutcome(s, r, out)
  <2>1. local[r].relation \in Relation \cup {None}
    BY <1>1 DEF LocalType
  <2>2. QED BY <1>1, <2>1, AcceptInv
<1>3. /\ Goto(r, "decide") /\ local' = [local EXCEPT ![r] = l]
      /\ disk' = out.state
  BY DEF AcceptSave
<1> HIDE DEF out
<1>4. /\ l \in LocalType /\ l.text = local[r].text /\ l.state = FreshSession
      /\ l.outcome = out /\ "decide" \in Labels
  <2>1. out \in OutcomeType
    BY <1>2 DEF GoodOutcome
  <2>2. FreshSession \in SessionType
    BY FreshInv DEF SessionInv
  <2> HIDE DEF out
  <2>3. l \in LocalType
    BY <1>1, <2>1, <2>2 DEF LocalType
  <2>4. l.text = local[r].text /\ l.state = FreshSession /\ l.outcome = out
    BY <1>1 DEF LocalType
  <2>5. "decide" \in Labels
    BY DEF Labels
  <2>6. QED BY <2>3, <2>4, <2>5, Zenon
<1> HIDE DEF l
<1>5. /\ TypeInv' /\ OthersStay(r)
      /\ pc'[r] = "decide" /\ local'[r] = l /\ response'[r] = response[r]
  <2>1. pc[r] \notin {"idle", "done"} /\ UNCHANGED <<response, beside>>
    BY Zenon DEF AcceptSave
  <2>2. QED BY <1>3, <1>4, <2>1, GoInv, Zenon
<1>6. ThreadInv(r)'
  BY <1>1, <1>4, <1>5, FreshInv DEF ThreadInv
<1>7. SessionInv(disk)'
  BY <1>2, <1>3 DEF GoodOutcome
<1>8. QED BY <1>5, <1>6, <1>7, StepInv DEF AcceptSave

(* A thread that only moves on.                                             *)
LEMMA ContinueStep ==
  ASSUME IInv, NEW r \in Request, pc[r] = "decide", NEW label \in {"reload", "answer_load"},
         Continue(r, label), UNCHANGED <<disk, beside>>,
         label = "answer_load" => Answerable(r)
  PROVE  IInv'
<1>1. local[r] \in LocalType /\ SessionInv(disk) /\ ThreadInv(r) /\ label \in Labels
  BY DEF IInv, TypeInv, Labels
<1>2. local' = [local EXCEPT ![r] = local[r]]
  BY DEF Continue, IInv, TypeInv
<1>3. /\ TypeInv' /\ OthersStay(r)
      /\ pc'[r] = label /\ local'[r] = local[r] /\ response'[r] = response[r]
  BY <1>1, <1>2, GoInv DEF Continue
<1>4. ThreadInv(r)'
  BY <1>1, <1>3 DEF ThreadInv, Handle, Answerable
<1>5. QED BY <1>1, <1>3, <1>4, StepInv

(* What follows accept: an answer now, the terminal's second load, or the   *)
(* evidence of a verified plan.                                             *)
LEMMA DecideInv ==
  ASSUME IInv, NEW r \in Request,
         AnswerControl(r) \/ AskClarification(r) \/ AbstainUnresolved(r)
         \/ ControllerGivesUp(r) \/ ObligationsOpen(r) \/ ControllerVerifies(r)
  PROVE  IInv'
<1>1. pc[r] = "decide" /\ UNCHANGED <<disk, beside>>
  BY DEF AnswerControl, AskClarification, AbstainUnresolved, ControllerGivesUp,
         ObligationsOpen, ControllerVerifies, Decided
<1>2. ASSUME NEW d \in {"RESET", "CANCELLED", "CLARIFY", "ABSTAIN", "ERROR"}, Respond(r, d)
      PROVE  IInv'
  <2>1. d \in Disposition
    BY DEF Disposition
  <2>2. QED BY <1>1, <1>2, <2>1, EndInv
<1>3. CASE AnswerControl(r)
  BY <1>2, <1>3 DEF AnswerControl
<1>4. CASE AskClarification(r)
  BY <1>1, <1>2, <1>4, ContinueStep DEF AskClarification
<1>5. CASE AbstainUnresolved(r) \/ ControllerGivesUp(r) \/ ObligationsOpen(r)
  BY <1>2, <1>5 DEF AbstainUnresolved, ControllerGivesUp, ObligationsOpen
<1>6. CASE ControllerVerifies(r)
  BY <1>1, <1>6, ContinueStep DEF ControllerVerifies
<1>7. QED BY <1>3, <1>4, <1>5, <1>6

(* An answer reads the session it will record itself in, or is refused.     *)
LEMMA AnswerLoadInv == ASSUME IInv, NEW r \in Request, AnswerLoad(r) PROVE IInv'
<1>1. UNCHANGED <<disk, beside>> /\ pc[r] = "answer_load"
  BY DEF AnswerLoad
<1>2. CASE disk.recent_utterances = <<>> \/ Handle(r) \in HugeAnswers
  <2>1. "ERROR" \in Disposition /\ Respond(r, "ERROR")
    BY <1>2 DEF AnswerLoad, Disposition
  <2>2. QED BY <1>1, <2>1, EndInv
<1>3. CASE ~(disk.recent_utterances = <<>> \/ Handle(r) \in HugeAnswers)
  <2> DEFINE l == [local[r] EXCEPT !.state = disk]
  <2>1. local[r] \in LocalType /\ SessionInv(disk) /\ ThreadInv(r)
    BY DEF IInv, TypeInv
  <2>2. Goto(r, "answer_save") /\ local' = [local EXCEPT ![r] = l] /\ response' = response
    BY <1>3 DEF AnswerLoad
  <2>3. /\ l \in LocalType /\ l.text = local[r].text /\ l.state = disk
        /\ l.outcome = local[r].outcome /\ "answer_save" \in Labels
    BY <2>1 DEF LocalType, Labels, SessionInv
  <2> HIDE DEF l
  <2>4. /\ TypeInv' /\ OthersStay(r)
        /\ pc'[r] = "answer_save" /\ local'[r] = l /\ response'[r] = response[r]
      BY <1>1, <2>2, <2>3, GoInv
  <2>5. ThreadInv(r)'
    BY <1>1, <1>3, <2>1, <2>3, <2>4 DEF ThreadInv, Handle
  <2>6. QED BY <1>1, <2>1, <2>4, <2>5, StepInv
<1>4. QED BY <1>2, <1>3

(* The save of record_answer.                                               *)
LEMMA AnswerSaveInv == ASSUME IInv, NEW r \in Request, AnswerSave(r) PROVE IInv'
<1> DEFINE s == local[r].state
           a == RecordAnswer(s, r, Handle(r))
<1>1. /\ SessionInv(s) /\ s.recent_utterances # <<>> /\ Handle(r) \in Records
  BY DEF IInv, ThreadInv, AnswerSave
<1>2. SessionInv(a)
  BY <1>1, RecordAnswerInv
<1>3. disk' = a /\ beside' = beside /\ pc[r] = "answer_save"
  BY DEF AnswerSave
<1>4. PICK d \in {"ERROR", "ANSWER"} : Respond(r, d)
  BY DEF AnswerSave
<1>5. d \in Disposition
  BY DEF Disposition
<1> HIDE DEF a
<1>6. QED BY <1>2, <1>3, <1>4, <1>5, RespondInv

(* A clarification reads its choices again or reports them lost.            *)
LEMMA ReloadInv == ASSUME IInv, NEW r \in Request, Reload(r) PROVE IInv'
<1>1. pc[r] = "reload" /\ UNCHANGED <<disk, beside>>
  BY DEF Reload
<1>2. PICK d \in {"CHOICES_LOST", "CLARIFY"} : Respond(r, d)
  BY DEF Reload
<1>3. d \in Disposition
  BY <1>2 DEF Disposition
<1>4. QED BY <1>1, <1>2, <1>3, EndInv

(* A request that arrives holds its text and nothing of the session.        *)
LEMMA ArriveInv ==
  ASSUME IInv, NEW r \in Request, NEW t \in Text, Arrive(r, t)
  PROVE  IInv'
<1> DEFINE l == [local[r] EXCEPT !.text = t]
<1>1. /\ pc \in [Request -> Labels] /\ local \in [Request -> LocalType] /\ SessionInv(disk)
      /\ \A q \in Request : ThreadInv(q)
  BY DEF IInv, TypeInv
<1>2. /\ pc' = [pc EXCEPT ![r] = "load_before"] /\ local' = [local EXCEPT ![r] = l]
      /\ UNCHANGED <<disk, response>>
      /\ beside' = [q \in Request |-> IF q = r THEN InFlight
                                      ELSE IF q \in InFlight THEN beside[q] \cup {r}
                                      ELSE beside[q]]
  BY DEF Arrive, Goto
<1>3. l \in LocalType /\ l.text = t /\ l.state = local[r].state /\ "load_before" \in Labels
  BY <1>1 DEF LocalType, Labels
<1> HIDE DEF l
<1>4. TypeInv'
  <2>1. beside' \in [Request -> SUBSET Request]
    BY <1>2 DEF IInv, TypeInv, InFlight
  <2>2. QED BY <1>1, <1>2, <1>3, <2>1 DEF IInv, TypeInv
<1>5. /\ pc'[r] = "load_before" /\ local'[r] = l
      /\ \A q \in Request \ {r} : pc'[q] = pc[q] /\ local'[q] = local[q]
  BY <1>1, <1>2
<1>6. ASSUME NEW q \in Request PROVE ThreadInv(q)'
  BY <1>1, <1>3, <1>5 DEF ThreadInv, Handle
<1>7. SessionInv(disk)'
  BY <1>1, <1>2
<1>8. QED BY <1>4, <1>6, <1>7 DEF IInv

(* A death leaves the store as it was at its last write.                    *)
LEMMA CrashInv == ASSUME IInv, Crash PROVE IInv'
<1>1. /\ UNCHANGED <<disk, beside>>
      /\ response' = [r \in Request |-> IF r \in InFlight THEN "LOST" ELSE response[r]]
      /\ pc' = [r \in Request |-> IF r \in InFlight THEN "done" ELSE pc[r]]
      /\ local' = [r \in Request |-> IF r \in InFlight THEN NoLocals ELSE local[r]]
  BY DEF Crash
<1>2. /\ pc \in [Request -> Labels] /\ local \in [Request -> LocalType]
      /\ response \in [Request -> Disposition \cup {None}] /\ beside \in [Request -> SUBSET Request]
      /\ SessionInv(disk) /\ \A q \in Request : ThreadInv(q)
  BY DEF IInv, TypeInv
<1>3. TypeInv'
  <2>1. "LOST" \in Disposition /\ "done" \in Labels /\ NoLocals \in LocalType
    BY NoLocalsInv DEF Disposition, Labels
  <2>2. QED BY <1>1, <1>2, <2>1 DEF TypeInv
<1>4. \A q \in Request : pc'[q] \in {"idle", "done"}
  BY <1>1 DEF InFlight
<1>5. ASSUME NEW q \in Request PROVE ThreadInv(q)'
  <2>1. local'[q] = NoLocals \/ local'[q] = local[q]
    BY <1>1
  <2>2. SessionInv(local'[q].state)
    BY <1>2, <2>1, NoLocalsInv, FreshInv DEF ThreadInv
  <2>3. QED BY <1>4, <2>2 DEF ThreadInv
<1>6. QED BY <1>1, <1>2, <1>3, <1>5 DEF IInv

(* Every step of the service keeps the invariant.                           *)
LEMMA NextInv == IInv /\ [Next]_vars => IInv'
<1> SUFFICES ASSUME IInv, [Next]_vars PROVE IInv'
  OBVIOUS
<1>1. ASSUME NEW r \in Request, NEW t \in Text, Arrive(r, t) PROVE IInv'
  BY <1>1, ArriveInv
<1>2. ASSUME NEW r \in Request, Serve(r) PROVE IInv'
  BY <1>2, RejectBlankInv, LoadBeforeInv, AcceptLoadInv, AcceptSaveInv, DecideInv,
     AnswerLoadInv, AnswerSaveInv, ReloadInv DEF Serve
<1>3. CASE Crash
  BY <1>3, CrashInv
<1>4. CASE UNCHANGED vars
  BY <1>4 DEF vars, IInv, TypeInv, ThreadInv, Handle
<1>5. QED BY <1>1, <1>2, <1>3, <1>4 DEF Next, AllServed

(* The service never leaves its invariant.                                  *)
LEMMA ServiceInvariant == Spec => []IInv
<1>1. QED BY InitInv, NextInv, PTL DEF Spec

----------------------------------------------------------------------------
(* Theorems                                                                 *)

(* The session file always passes the validator that load runs, whatever    *)
(* the requests and however their loads and saves interleave: no legal      *)
(* sequence of calls makes a session unreadable.                            *)
THEOREM AlwaysReloadable == Spec => []Reloadable
<1>1. IInv => Reloadable
  BY DEF IInv, SessionInv, WindowInv, Reloadable
<1>2. QED BY <1>1, ServiceInvariant, PTL

(* Turn numbers go up by one at a user turn and stay at an assistant turn,  *)
(* in every window that _append_utterance and record_answer leave.          *)
THEOREM TurnsAlwaysConsecutive == Spec => []TurnsConsecutive
<1>1. IInv => TurnsConsecutive
  BY DEF IInv, SessionInv, WindowInv, StepByStep, TurnsConsecutive
<1>2. QED BY <1>1, ServiceInvariant, PTL

(* The evidence of the last answer is never cut off the retained handles.   *)
THEOREM PlanEvidenceAlwaysRetained == Spec => []PlanEvidenceRetained
<1>1. IInv => PlanEvidenceRetained
  BY DEF IInv, SessionInv, PlanRetained, PlanEvidenceRetained
<1>2. QED BY <1>1, ServiceInvariant, PTL

(* The stored question and the stored hypotheses never disagree.            *)
THEOREM PendingAlwaysUnresolved == Spec => []PendingIsUnresolved
<1>1. IInv => PendingIsUnresolved
  BY DEF IInv, SessionInv, PendingInv, PendingIsUnresolved
<1>2. QED BY <1>1, ServiceInvariant, PTL

(* A pronoun always resolves to the entity of the latest binding.           *)
THEOREM ReferentAlwaysLastBinding == Spec => []ReferentIsLastBinding
<1>1. IInv => ReferentIsLastBinding
  BY DEF IInv, SessionInv, ReferentInv, ReferentIsLastBinding
<1>2. QED BY <1>1, ServiceInvariant, PTL

----------------------------------------------------------------------------
(* What overlapping requests may do to each other                           *)

Attributed(us, B) ==
  \A i \in 2 .. Len(us) : us[i].role = "assistant" =>
    \/ us[i - 1].role = "user" /\ us[i - 1].request = us[i].request
    \/ us[i - 1].request \in B[us[i].request]
(* A window that ends with r's own turn or one of its companions N.         *)
EndsNear(us, r, N) ==
  us # <<>> => \/ us[Len(us)].role = "user" /\ us[Len(us)].request = r
               \/ us[Len(us)].request \in N

Wiped(q, W) == \E r \in W : r > q
Retains(us, q, role, W) ==
  \/ \E i \in 1 .. Len(us) : us[i].request = q /\ us[i].role = role /\ Newer(us, i, q)
  \/ Newer(us, 1, q) /\ (Len(us) = UtteranceCap \/ Wiped(q, W))
(* What a session s holds of a request q that was answered d, when those in *)
(* W have reset it or may have.                                             *)
Kept(s, q, d, W) ==
  /\ d \in {"CANCELLED", "CLARIFY", "ABSTAIN", "ANSWER"} =>
       Retains(s.recent_utterances, q, "user", W)
  /\ d = "ANSWER" => Retains(s.recent_utterances, q, "assistant", W)
  /\ d = "CANCELLED" => s.cancelled \/ Wiped(q, W)
  /\ d = "RESET" => Newer(s.recent_utterances, 1, q + 1)

Saving == {"accept_save", "answer_save"}

Companions == \A q, r \in InFlight : q # r => q \in beside[r]
Numbered == \A q, r \in Request : q < r /\ pc[q] = "idle" => pc[r] = "idle"

(* A thread between the save of its turn and that of its answer finds its   *)
(* turn last, unless a companion's save has replaced it.                    *)
TurnInv(r) ==
  /\ (pc[r] = "decide" /\ local[r].outcome.kind = "CONTINUE") \/ pc[r] = "answer_load" =>
       EndsNear(disk.recent_utterances, r, beside[r])
  /\ pc[r] = "answer_save" => EndsNear(local[r].state.recent_utterances, r, beside[r])
  /\ (pc[r] = "decide" /\ local[r].outcome.kind = "ASK") \/ pc[r] = "reload" =>
       disk.pending # None \/ beside[r] # {}
  /\ response[r] = "CHOICES_LOST" => beside[r] # {}

(* A reset goes straight to its answer, and nothing answers twice.          *)
AnswerInv(r) ==
  /\ pc[r] = "idle" => beside[r] = {}
  /\ pc[r] # "done" => response[r] = None
  /\ pc[r] = "decide" => (local[r].text.kind = "reset" <=> local[r].outcome.kind = "RESET")
  /\ pc[r] \in {"answer_load", "answer_save", "reload"} => local[r].text.kind # "reset"

(* What a request with no companions has stored so far.                     *)
AloneRunning(q) ==
  /\ pc[q] = "decide" /\ local[q].outcome.kind = "RESET" => disk.recent_utterances = <<>>
  /\ pc[q] = "decide" /\ local[q].outcome.kind = "CANCEL" => disk.cancelled
  /\ (pc[q] = "decide" /\ local[q].outcome.kind # "RESET") \/ pc[q] \in {"answer_load", "reload"} =>
       Retains(disk.recent_utterances, q, "user", Resetters)
  /\ pc[q] = "answer_save" =>
       Retains(local[q].state.recent_utterances, q, "user", Resetters)

(* Once it is done, those in flight came later and every copy holds it.     *)
AloneDone(q) ==
  pc[q] = "done" =>
    /\ \A r \in InFlight : r > q
    /\ Kept(disk, q, response[q], Resetters)
    /\ \A r \in Request : pc[r] \in Saving => Kept(local[r].state, q, response[q], Resetters)

HistoryInv ==
  /\ Companions /\ Numbered
  /\ Attributed(disk.recent_utterances, beside)
  /\ \A r \in Request : Attributed(local[r].state.recent_utterances, beside)
  /\ \A r \in Request : TurnInv(r)
  /\ \A r \in Request : AnswerInv(r)
  /\ \A q \in Request : beside[q] = {} => AloneRunning(q) /\ AloneDone(q)

(* A turn added to a window leaves its answers attributed.                  *)
LEMMA AttributedExtended ==
  ASSUME NEW us, WindowInv(us), NEW vs, NEW role \in {"user", "assistant"}, NEW r \in Request,
         Extended(us, vs, role, r), NEW B, Attributed(us, B),
         role = "assistant" => EndsNear(us, r, B[r])
  PROVE  Attributed(vs, B)
<1>1. us \in Seq(Utterance) /\ vs \in Seq(Utterance) /\ vs # <<>>
      /\ vs[Len(vs)].role = role /\ vs[Len(vs)].request = r
  BY DEF WindowInv, Extended
<1>2. PICK k \in Nat :
        /\ Len(vs) = Len(us) + 1 - k
        /\ \A i \in 1 .. Len(vs) - 1 : i + k \in 1 .. Len(us) /\ vs[i] = us[i + k]
  BY DEF Extended
<1>3. Len(us) \in Nat /\ Len(vs) \in Nat /\ Len(vs) >= 1 /\ (us = <<>>) = (Len(us) = 0)
  BY <1>1
<1>4. ASSUME NEW i \in 2 .. Len(vs), vs[i].role = "assistant"
      PROVE  \/ vs[i - 1].role = "user" /\ vs[i - 1].request = vs[i].request
             \/ vs[i - 1].request \in B[vs[i].request]
  <2>1. i - 1 \in 1 .. Len(vs) - 1 /\ vs[i - 1] = us[(i - 1) + k]
        /\ (i - 1) + k \in 1 .. Len(us)
    BY <1>2, <1>3
  <2>2. CASE i < Len(vs)
    <3>1. i + k \in 2 .. Len(us) /\ vs[i] = us[i + k] /\ (i - 1) + k = (i + k) - 1
      BY <1>2, <1>3, <2>1, <2>2
    <3>2. QED BY <1>4, <2>1, <3>1 DEF Attributed
  <2>3. CASE i = Len(vs)
    <3>1. (i - 1) + k = Len(us) /\ us # <<>>
      BY <1>2, <1>3, <2>1, <2>3
    <3>2. EndsNear(us, r, B[r])
      BY <1>1, <1>4, <2>3
    <3>3. QED BY <1>1, <2>1, <2>3, <3>1, <3>2 DEF EndsNear
  <2>4. QED BY <1>3, <2>2, <2>3
<1>5. QED BY <1>4 DEF Attributed

(* A turn added by r to a window leaves in it what is not newer than r.     *)
LEMMA RetainsExtended ==
  ASSUME NEW us, WindowInv(us), NEW vs, WindowInv(vs), NEW role, NEW r \in Request,
         Extended(us, vs, role, r)
  PROVE  /\ \A q \in Nat : q <= r /\ Newer(us, 1, q) => Newer(vs, 1, q)
         /\ \A q \in Request : \A o, W : q <= r /\ Retains(us, q, o, W) => Retains(vs, q, o, W)
         /\ \A W : Retains(vs, r, role, W)
<1>1. /\ us \in Seq(Utterance) /\ vs \in Seq(Utterance) /\ vs # <<>>
      /\ vs[Len(vs)].role = role /\ vs[Len(vs)].request = r
      /\ Len(vs) <= UtteranceCap
  BY DEF WindowInv, Extended
<1>2. PICK k \in Nat :
        /\ Len(vs) = Len(us) + 1 - k
        /\ \A i \in 1 .. Len(vs) - 1 : i + k \in 1 .. Len(us) /\ vs[i] = us[i + k]
        /\ k > 0 => Len(vs) = UtteranceCap
  BY DEF Extended
<1>3. /\ Len(us) \in Nat /\ Len(vs) \in Nat /\ Len(vs) >= 1
      /\ UtteranceCap \in Nat /\ Request \subseteq Nat
      /\ \A i \in 1 .. Len(us) : us[i].request \in Request
  <2>1. \A i \in 1 .. Len(us) : us[i] \in Utterance
    BY <1>1
  <2>2. Request \subseteq Nat
    BY ServiceAssumption DEF Request
  <2>3. QED BY <1>1, <2>1, <2>2, ServiceAssumption DEF Utterance
<1>4. ASSUME NEW q \in Nat, q <= r, NEW i \in Nat, NEW j \in 1 .. Len(vs), i <= j + k,
             Newer(us, i, q)
      PROVE  Newer(vs, j, q)
  <2>1. ASSUME NEW m \in j .. Len(vs) PROVE vs[m].request >= q
    <3>1. CASE m = Len(vs)
      BY <1>1, <1>4, <3>1
    <3>2. CASE m < Len(vs)
      <4>1. m \in 1 .. Len(vs) - 1 /\ m + k \in i .. Len(us) /\ vs[m] = us[m + k]
        BY <1>2, <1>3, <1>4, <2>1, <3>2
      <4>2. QED BY <1>4, <4>1 DEF Newer
    <3>3. QED BY <1>3, <2>1, <3>1, <3>2
  <2>2. QED BY <2>1 DEF Newer
<1>5. ASSUME NEW q \in Nat, q <= r, Newer(us, 1, q) PROVE Newer(vs, 1, q)
  <2>1. 1 \in 1 .. Len(vs) /\ 1 <= 1 + k
    BY <1>3
  <2>2. QED BY <1>4, <1>5, <2>1
<1>6. ASSUME NEW q \in Request, NEW o, NEW W, q <= r, Retains(us, q, o, W)
      PROVE  Retains(vs, q, o, W)
  <2>0. q \in Nat
    BY <1>3
  <2>1. CASE Newer(us, 1, q) /\ (Len(us) = UtteranceCap \/ Wiped(q, W))
    <3>1. Newer(vs, 1, q)
      BY <1>5, <1>6, <2>0, <2>1
    <3>2. Len(us) = UtteranceCap => Len(vs) = UtteranceCap
      BY <1>1, <1>2, <1>3
    <3>3. QED BY <2>1, <3>1, <3>2 DEF Retains
  <2>2. ASSUME NEW i \in 1 .. Len(us), us[i].request = q, us[i].role = o, Newer(us, i, q)
        PROVE  Retains(vs, q, o, W)
    <3>1. CASE i > k
      <4>1. i - k \in 1 .. Len(vs) - 1 /\ (i - k) + k = i
        BY <1>2, <1>3, <3>1
      <4>2. vs[i - k] = us[i] /\ i - k \in 1 .. Len(vs)
        BY <1>2, <1>3, <4>1
      <4>3. Newer(vs, i - k, q)
        BY <1>4, <1>6, <2>0, <2>2, <4>1, <4>2
      <4>4. QED BY <2>2, <4>2, <4>3 DEF Retains
    <3>2. CASE i <= k
      <4>1. 1 \in 1 .. Len(vs) /\ i <= 1 + k /\ k > 0
        BY <1>3, <3>2
      <4>2. Newer(vs, 1, q)
        BY <1>4, <1>6, <2>0, <2>2, <4>1
      <4>3. QED BY <1>2, <4>1, <4>2 DEF Retains
    <3>3. QED BY <3>1, <3>2
  <2>3. QED BY <1>6, <2>1, <2>2 DEF Retains
<1>7. ASSUME NEW W PROVE Retains(vs, r, role, W)
  <2>1. Len(vs) \in 1 .. Len(vs) /\ Newer(vs, Len(vs), r)
    BY <1>1, <1>3 DEF Newer
  <2>2. QED BY <1>1, <2>1 DEF Retains
<1>8. QED BY <1>5, <1>6, <1>7

(* More resets only allow more.                                             *)
LEMMA KeptMore ==
  ASSUME NEW s, NEW q, NEW d, NEW W, NEW V, W \subseteq V
  PROVE  /\ \A us, o : Retains(us, q, o, W) => Retains(us, q, o, V)
         /\ Kept(s, q, d, W) => Kept(s, q, d, V)
<1>1. Wiped(q, W) => Wiped(q, V)
  BY DEF Wiped
<1>2. \A us, o : Retains(us, q, o, W) => Retains(us, q, o, V)
  BY <1>1, Zenon DEF Retains
<1>3. QED BY <1>1, <1>2, Zenon DEF Kept

(* A session without turns, once it was reset.                              *)
LEMMA FreshKept ==
  ASSUME NEW q \in Request, NEW d, NEW W, Wiped(q, W)
  PROVE  Kept(FreshSession, q, d, W)
<1>1. FreshSession.recent_utterances = <<>>
  BY FreshInv
<1>2. \A n : Newer(<<>>, 1, n)
  BY DEF Newer
<1>3. \A o : Retains(<<>>, q, o, W)
  BY <1>2, Zenon DEF Retains
<1>4. QED BY <1>1, <1>2, <1>3, Zenon DEF Kept

(* The next turn, of a request that came later, in a session that keeps.    *)
LEMMA KeptExtended ==
  ASSUME NEW s, SessionInv(s), NEW h, SessionInv(h), NEW r \in Request, NEW role,
         Extended(s.recent_utterances, h.recent_utterances, role, r),
         s.cancelled => h.cancelled,
         NEW q \in Request, q < r, NEW d, NEW W, Kept(s, q, d, W)
  PROVE  Kept(h, q, d, W)
<1> DEFINE us == s.recent_utterances
           vs == h.recent_utterances
<1>1. WindowInv(us) /\ WindowInv(vs)
  BY DEF SessionInv
<1>2. q \in Nat /\ q + 1 \in Nat /\ q <= r /\ q + 1 <= r
  BY ServiceAssumption DEF Request
<1>3. /\ Newer(us, 1, q + 1) => Newer(vs, 1, q + 1)
      /\ \A o : Retains(us, q, o, W) => Retains(vs, q, o, W)
  BY <1>1, <1>2, RetainsExtended
<1>4. QED BY <1>3, Zenon DEF Kept

(* What accept stores of earlier requests, and of its own.                  *)
LEMMA KeptAccept ==
  ASSUME NEW s, SessionInv(s), NEW r \in Request, NEW out, GoodOutcome(s, r, out)
  PROVE  /\ \A q \in Request : \A d, W :
              q < r /\ (out.kind = "RESET" => r \in W) /\ Kept(s, q, d, W) =>
                Kept(out.state, q, d, W)
         /\ \A W : out.kind # "RESET" => Retains(out.state.recent_utterances, r, "user", W)
         /\ \A B : Attributed(s.recent_utterances, B) => Attributed(out.state.recent_utterances, B)
         /\ \/ out.state.recent_utterances = <<>>
            \/ /\ out.state.recent_utterances[Len(out.state.recent_utterances)].role = "user"
               /\ out.state.recent_utterances[Len(out.state.recent_utterances)].request = r
<1> DEFINE us == s.recent_utterances
           h == out.state
           vs == h.recent_utterances
<1>0. WindowInv(us) /\ SessionInv(h) /\ WindowInv(vs) /\ Request \subseteq Nat
  BY ServiceAssumption DEF GoodOutcome, SessionInv, Request
<1>1. CASE out.kind = "RESET"
  <2>1. h = FreshSession /\ vs = <<>>
    BY <1>1, FreshInv DEF GoodOutcome
  <2>2. \A B : Attributed(<<>>, B)
    BY DEF Attributed
  <2>3. ASSUME NEW q \in Request, NEW d, NEW W, q < r, r \in W
        PROVE  Kept(h, q, d, W)
    <3>1. Wiped(q, W)
      BY <1>0, <2>3 DEF Wiped
    <3>2. QED BY <2>1, <3>1, FreshKept
  <2>4. QED BY <1>1, <2>1, <2>2, <2>3
<1>2. CASE out.kind # "RESET"
  <2>1. Extended(us, vs, "user", r)
    BY <1>0, <1>2, UserTurn DEF GoodOutcome
  <2>2. s.cancelled => h.cancelled
    BY <1>2, Zenon DEF GoodOutcome
  <2>3. \A q \in Request : \A d, W : q < r /\ Kept(s, q, d, W) => Kept(h, q, d, W)
    BY <1>0, <2>1, <2>2, KeptExtended
  <2>4. \A W : Retains(vs, r, "user", W)
    BY <1>0, <2>1, RetainsExtended
  <2>5. \A B : Attributed(us, B) => Attributed(vs, B)
    BY <1>0, <2>1, AttributedExtended
  <2>6. vs[Len(vs)].role = "user" /\ vs[Len(vs)].request = r
    BY <2>1 DEF Extended
  <2>7. QED BY <2>3, <2>4, <2>5, <2>6
<1>3. QED BY <1>1, <1>2

(* A reset that was or may have been made stays one.                        *)
LEMMA ResettersGrow ==
  ASSUME HistoryInv, NEW r \in Request, pc[r] \notin {"idle", "done"}, OthersStay(r),
         pc'[r] # "idle",
         local[r].text.kind = "reset" =>
           response'[r] = "RESET" \/ (pc'[r] # "done" /\ local'[r].text.kind = "reset")
  PROVE  Resetters \subseteq Resetters'
<1>1. ASSUME NEW p \in Request, p \in Resetters PROVE p \in Resetters'
  <2>1. CASE p # r
    BY <1>1, <2>1 DEF Resetters, InFlight, OthersStay
  <2>2. CASE p = r
    <3>1. response[r] = None /\ None \notin {"RESET", "LOST"}
      BY ServiceAssumption DEF HistoryInv, AnswerInv, Disposition
    <3>2. local[r].text.kind = "reset"
      BY <1>1, <2>2, <3>1 DEF Resetters
    <3>3. QED BY <2>2, <3>2 DEF Resetters, InFlight
  <2>3. QED BY <2>1, <2>2
<1>2. QED BY <1>1 DEF Resetters

(* The threads that move leave the others' frames, and what they store is   *)
(* their own turn or nothing: the history follows from what r knows.        *)
LEMMA HistoryStep ==
  ASSUME IInv, HistoryInv, NEW r \in Request, pc[r] \notin {"idle", "done"}, OthersStay(r),
         beside' = beside, pc'[r] # "idle",
         \/ disk' = disk
         \/ disk'.recent_utterances = <<>>
         \/ disk'.recent_utterances[Len(disk'.recent_utterances)].request = r,
         Attributed(disk'.recent_utterances, beside),
         Attributed(local'[r].state.recent_utterances, beside),
         TurnInv(r)', AnswerInv(r)',
         local[r].text.kind = "reset" =>
           response'[r] = "RESET" \/ (pc'[r] # "done" /\ local'[r].text.kind = "reset"),
         \A q \in Request : \A d, W :
           q < r /\ Resetters \subseteq W /\ Kept(disk, q, d, W)
             /\ (pc[r] \in Saving => Kept(local[r].state, q, d, W)) =>
               /\ Kept(disk', q, d, W)
               /\ pc'[r] \in Saving => Kept(local'[r].state, q, d, W),
         beside[r] = {} =>
           AloneRunning(r)' /\ (pc'[r] = "done" => Kept(disk', r, response'[r], Resetters'))
  PROVE  HistoryInv'
<1>1. r \in InFlight /\ InFlight' \subseteq InFlight
  BY DEF InFlight, OthersStay
<1>2. Companions' /\ Numbered'
  <2>1. Companions'
    BY <1>1 DEF HistoryInv, Companions
  <2>2. \A q \in Request : pc'[q] = "idle" <=> pc[q] = "idle"
    BY DEF OthersStay
  <2>3. QED BY <2>1, <2>2 DEF HistoryInv, Numbered
<1>3. /\ Attributed(disk.recent_utterances, beside)'
      /\ \A q \in Request : Attributed(local[q].state.recent_utterances, beside)'
  BY DEF HistoryInv, OthersStay
<1>4. ASSUME NEW q \in Request PROVE TurnInv(q)' /\ AnswerInv(q)'
  <2>1. CASE q = r
    BY <2>1
  <2>2. CASE q # r
    <3>1. pc'[q] = pc[q] /\ local'[q] = local[q] /\ response'[q] = response[q]
      BY <2>2 DEF OthersStay
    <3>2. TurnInv(q) /\ AnswerInv(q)
      BY DEF HistoryInv
    <3>3. AnswerInv(q)'
      BY <3>1, <3>2 DEF AnswerInv
    <3>4. pc[q] \in {"decide", "answer_load", "reload"} => r \in beside[q]
      BY <1>1, <2>2 DEF HistoryInv, Companions, InFlight
    <3>5. /\ pc[q] \in {"decide", "answer_load"} =>
               disk' = disk \/ EndsNear(disk'.recent_utterances, q, beside[q])
          /\ pc[q] \in {"decide", "reload"} => beside[q] # {}
      BY <3>4 DEF EndsNear
    <3>6. TurnInv(q)'
      BY <3>1, <3>2, <3>5 DEF TurnInv
    <3>7. QED BY <3>3, <3>6
  <2>3. QED BY <2>1, <2>2
<1>5. Resetters \subseteq Resetters'
  BY ResettersGrow
<1>6. ASSUME NEW q \in Request, beside[q] = {} PROVE AloneRunning(q)' /\ AloneDone(q)'
  <2>0. AloneDone(q)
    BY <1>6 DEF HistoryInv
  <2>1. CASE q = r
    <3>1. \A p \in InFlight' : p = r
      BY <1>1, <1>6, <2>1 DEF HistoryInv, Companions
    <3>2. pc'[r] = "done" => InFlight' = {}
      BY <3>1 DEF InFlight
    <3>3. pc'[r] = "done" => \A p \in Request : pc'[p] \notin Saving
      BY <3>2 DEF InFlight, Saving
    <3>4. QED BY <1>6, <2>1, <3>2, <3>3 DEF AloneDone
  <2>2. CASE q # r
    <3>1. pc[q] \in {"idle", "done"} /\ pc'[q] = pc[q] /\ response'[q] = response[q]
      BY <1>1, <1>6, <2>2 DEF HistoryInv, Companions, InFlight, OthersStay
    <3>2. AloneRunning(q)'
      BY <3>1 DEF AloneRunning
    <3>3. SUFFICES ASSUME pc[q] = "done" PROVE AloneDone(q)'
      BY <3>1, <3>2 DEF AloneDone
    <3>4. q < r /\ \A p \in InFlight' : p > q
      <4>1. Request \subseteq Nat
        BY ServiceAssumption DEF Request
      <4>2. QED BY <1>1, <2>0, <3>3, <4>1 DEF AloneDone
    <3> DEFINE d == response[q]
               W == Resetters'
    <3>5. /\ Kept(disk, q, d, W)
          /\ \A p \in Request : pc[p] \in Saving => Kept(local[p].state, q, d, W)
      BY <1>5, <2>0, <3>3, KeptMore DEF AloneDone
    <3>6. /\ Kept(disk', q, d, W)
          /\ pc'[r] \in Saving => Kept(local'[r].state, q, d, W)
      BY <1>5, <3>4, <3>5
    <3>7. ASSUME NEW p \in Request, pc'[p] \in Saving PROVE Kept(local'[p].state, q, d, W)
      <4>1. CASE p # r
        BY <3>5, <3>7, <4>1 DEF OthersStay
      <4>2. QED BY <3>6, <3>7, <4>1
    <3>8. QED BY <3>1, <3>4, <3>6, <3>7 DEF AloneDone
  <2>3. QED BY <2>1, <2>2
<1>7. QED BY <1>2, <1>3, <1>4, <1>6 DEF HistoryInv

(* What a handler that ends leaves of its frame.                            *)
LEMMA RespondFrame ==
  ASSUME IInv, NEW r \in Request, NEW d, Respond(r, d)
  PROVE  /\ OthersStay(r)
         /\ pc'[r] = "done" /\ local'[r].state = FreshSession /\ response'[r] = d
<1>1. /\ pc' = [pc EXCEPT ![r] = "done"]
      /\ local' = [local EXCEPT ![r] = NoLocals]
      /\ response' = [response EXCEPT ![r] = d]
  BY DEF Respond, Goto
<1>2. OthersStay(r)
  BY <1>1 DEF IInv, TypeInv, OthersStay
<1>3. pc'[r] = "done" /\ local'[r] = NoLocals /\ response'[r] = d
  BY <1>1 DEF IInv, TypeInv
<1>4. QED BY <1>2, <1>3, NoLocalsInv

(* A handler that ends with what the stored session says.                   *)
LEMMA EndHistory ==
  ASSUME IInv, HistoryInv, NEW r \in Request, pc[r] \notin {"idle", "done"}, NEW d,
         Respond(r, d), UNCHANGED <<disk, beside>>,
         d = "CHOICES_LOST" => beside[r] # {},
         local[r].text.kind = "reset" => d = "RESET",
         beside[r] = {} =>
           /\ d \in {"CANCELLED", "CLARIFY", "ABSTAIN"} =>
                Retains(disk.recent_utterances, r, "user", Resetters)
           /\ d # "ANSWER"
           /\ d = "CANCELLED" => disk.cancelled
           /\ d = "RESET" => disk.recent_utterances = <<>>
  PROVE  HistoryInv'
<1>1. /\ OthersStay(r)
      /\ pc'[r] = "done" /\ local'[r].state = FreshSession /\ response'[r] = d
  BY RespondFrame
<1>2. Attributed(disk'.recent_utterances, beside)
  BY DEF HistoryInv
<1>3. Attributed(local'[r].state.recent_utterances, beside)
  <2>1. Attributed(<<>>, beside)
    BY DEF Attributed
  <2>2. QED BY <1>1, <2>1, FreshInv
<1>4. TurnInv(r)' /\ AnswerInv(r)' /\ AloneRunning(r)'
  BY <1>1 DEF TurnInv, AnswerInv, AloneRunning
<1>5. Resetters \subseteq Resetters'
  BY <1>1, ResettersGrow
<1>6. ASSUME beside[r] = {} PROVE Kept(disk', r, d, Resetters')
  <2>1. d \in {"CANCELLED", "CLARIFY", "ABSTAIN"} =>
          Retains(disk.recent_utterances, r, "user", Resetters')
    BY <1>5, <1>6, KeptMore
  <2>2. d = "RESET" => Newer(disk.recent_utterances, 1, r + 1)
    BY <1>6 DEF Newer
  <2>3. disk' = disk
    OBVIOUS
  <2>4. d = "CANCELLED" => disk.cancelled
    BY <1>6, Zenon
  <2>5. d # "ANSWER"
    BY <1>6
  <2>6. QED BY <2>1, <2>2, <2>3, <2>4, <2>5, Zenon DEF Kept
<1>7. \A q \in Request : \A e, W :
        q < r /\ Resetters \subseteq W /\ Kept(disk, q, e, W)
          /\ (pc[r] \in Saving => Kept(local[r].state, q, e, W)) =>
            /\ Kept(disk', q, e, W)
            /\ pc'[r] \in Saving => Kept(local'[r].state, q, e, W)
  BY <1>1 DEF Saving
<1>8. pc'[r] # "idle" /\ (local[r].text.kind = "reset" => response'[r] = "RESET")
  BY <1>1
<1>9. beside[r] = {} =>
        AloneRunning(r)' /\ (pc'[r] = "done" => Kept(disk', r, response'[r], Resetters'))
  BY <1>1, <1>4, <1>6
<1>10. QED BY <1>1, <1>2, <1>3, <1>4, <1>7, <1>8, <1>9, HistoryStep

(* A thread that moves on without a save, with its frame or a copy of the   *)
(* stored session in it.                                                    *)
LEMMA GoHistory ==
  ASSUME IInv, HistoryInv, NEW r \in Request, pc[r] \notin {"idle", "done"},
         NEW label \in Labels \ {"idle", "done"},
         NEW l \in LocalType, Goto(r, label), local' = [local EXCEPT ![r] = l],
         UNCHANGED <<disk, response, beside>>,
         l.text = local[r].text,
         l.state = disk \/ (l.state = local[r].state /\ label \notin Saving),
         TurnInv(r)', AnswerInv(r)',
         beside[r] = {} /\ Resetters \subseteq Resetters' => AloneRunning(r)'
  PROVE  HistoryInv'
<1>1. /\ OthersStay(r)
      /\ pc'[r] = label /\ local'[r] = l /\ response'[r] = response[r]
  BY GoInv
<1>2. Attributed(disk'.recent_utterances, beside)
  BY DEF HistoryInv
<1>3. Attributed(local'[r].state.recent_utterances, beside)
  BY <1>1, <1>2 DEF HistoryInv
<1>4. \A q \in Request : \A d, W :
        q < r /\ Resetters \subseteq W /\ Kept(disk, q, d, W)
          /\ (pc[r] \in Saving => Kept(local[r].state, q, d, W)) =>
            /\ Kept(disk', q, d, W)
            /\ pc'[r] \in Saving => Kept(local'[r].state, q, d, W)
  BY <1>1
<1>5. /\ pc'[r] # "idle" /\ pc'[r] # "done"
      /\ local[r].text.kind = "reset" => pc'[r] # "done" /\ local'[r].text.kind = "reset"
  BY <1>1
<1>6. Resetters \subseteq Resetters'
  BY <1>1, <1>5, ResettersGrow
<1>7. QED BY <1>1, <1>2, <1>3, <1>4, <1>5, <1>6, HistoryStep

(* A blank message stores nothing and answers nothing.                      *)
LEMMA RejectBlankHistory ==
  ASSUME IInv, HistoryInv, NEW r \in Request, RejectBlank(r) PROVE HistoryInv'
<1>1. /\ pc[r] \notin {"idle", "done"} /\ local[r].text.kind = "blank"
      /\ Respond(r, "ERROR") /\ UNCHANGED <<disk, beside>>
  BY DEF RejectBlank
<1>2. QED BY <1>1, EndHistory

(* The first load only tells the relation.                                  *)
LEMMA LoadBeforeHistory ==
  ASSUME IInv, HistoryInv, NEW r \in Request, LoadBefore(r) PROVE HistoryInv'
<1> DEFINE own == local[r].text.relation
           rel == IF own = None /\ disk.pending # None THEN disk.pending.relation ELSE own
           l == [local[r] EXCEPT !.relation = rel]
<1>1. local[r] \in LocalType /\ local[r].text \in Text /\ SessionInv(disk)
  BY DEF IInv, TypeInv, ThreadInv, LoadBefore
<1>2. rel \in Relation \cup {None}
  <2>1. own \in Relation \cup {None}
    BY <1>1, TextFields
  <2>2. disk.pending # None => disk.pending.relation \in Relation \cup {None}
    BY <1>1 DEF SessionInv, SessionType
  <2>3. QED BY <2>1, <2>2
<1>3. /\ Goto(r, "accept_load") /\ local' = [local EXCEPT ![r] = l]
      /\ UNCHANGED <<disk, response, beside>> /\ pc[r] = "load_before"
  BY DEF LoadBefore
<1> HIDE DEF rel
<1>4. l \in LocalType /\ l.text = local[r].text /\ l.state = local[r].state
  BY <1>1, <1>2 DEF LocalType
<1> HIDE DEF l
<1>5. "accept_load" \in Labels \ {"idle", "done"} /\ "accept_load" \notin Saving
  BY DEF Labels, Saving
<1>6. pc'[r] = "accept_load" /\ response'[r] = response[r]
  BY <1>3 DEF Goto, IInv, TypeInv
<1>7. TurnInv(r)' /\ AnswerInv(r)' /\ AloneRunning(r)'
  BY <1>3, <1>6 DEF HistoryInv, TurnInv, AnswerInv, AloneRunning
<1>8. QED BY <1>3, <1>4, <1>5, <1>7, GoHistory

(* The copy a thread loads is as good as the stored session.                *)
LEMMA AcceptLoadHistory ==
  ASSUME IInv, HistoryInv, NEW r \in Request, AcceptLoad(r) PROVE HistoryInv'
<1> DEFINE l == [local[r] EXCEPT !.state = disk]
<1>1. local[r] \in LocalType /\ SessionInv(disk)
  BY DEF IInv, TypeInv
<1>2. /\ Goto(r, "accept_save") /\ local' = [local EXCEPT ![r] = l]
      /\ UNCHANGED <<disk, response, beside>> /\ pc[r] = "accept_load"
  BY DEF AcceptLoad
<1>3. l \in LocalType /\ l.text = local[r].text /\ l.state = disk
  BY <1>1 DEF LocalType, SessionInv
<1> HIDE DEF l
<1>4. "accept_save" \in Labels \ {"idle", "done"}
  BY DEF Labels
<1>5. pc'[r] = "accept_save" /\ response'[r] = response[r]
  BY <1>2 DEF Goto, IInv, TypeInv
<1>6. TurnInv(r)' /\ AnswerInv(r)' /\ AloneRunning(r)'
  BY <1>2, <1>5 DEF HistoryInv, TurnInv, AnswerInv, AloneRunning
<1>7. QED BY <1>2, <1>3, <1>4, <1>6, GoHistory

(* The save of accept replaces whatever was stored meanwhile, with its own  *)
(* turn added to what it loaded.                                            *)
LEMMA AcceptSaveHistory ==
  ASSUME IInv, HistoryInv, NEW r \in Request, AcceptSave(r) PROVE HistoryInv'
<1> DEFINE s == local[r].state
           out == Accept(s, r, local[r].text, local[r].relation)
           l == [local[r] EXCEPT !.outcome = out, !.state = FreshSession]
<1>1. /\ local[r] \in LocalType /\ local[r].text \in Text /\ local[r].text.kind # "blank"
      /\ SessionInv(s) /\ local[r].relation \in Relation \cup {None}
      /\ pc[r] = "accept_save"
  BY DEF IInv, TypeInv, ThreadInv, AcceptSave, LocalType
<1>2. GoodOutcome(s, r, out)
  BY <1>1, AcceptInv
<1>3. local[r].text.kind = "reset" <=> out.kind = "RESET"
  BY <1>1, ResetOutcome
<1>4. /\ Goto(r, "decide") /\ local' = [local EXCEPT ![r] = l]
      /\ disk' = out.state /\ UNCHANGED <<response, beside>>
  BY DEF AcceptSave
<1> HIDE DEF out
<1>5. l \in LocalType /\ l.text = local[r].text /\ l.state = FreshSession /\ l.outcome = out
  <2>1. out \in OutcomeType
    BY <1>2 DEF GoodOutcome
  <2>2. FreshSession \in SessionType
    BY FreshInv
  <2>3. l \in LocalType
    BY <1>1, <2>1, <2>2 DEF LocalType
  <2>4. QED BY <1>1, <2>3 DEF LocalType
<1> HIDE DEF l
<1>6. /\ OthersStay(r)
      /\ pc'[r] = "decide" /\ local'[r] = l /\ response'[r] = response[r]
  <2>1. "decide" \in Labels
    BY DEF Labels
  <2>2. QED BY <1>1, <1>4, <1>5, <2>1, GoInv
<1>7. /\ \A q \in Request : \A d, W :
           q < r /\ (out.kind = "RESET" => r \in W) /\ Kept(s, q, d, W) =>
             Kept(disk', q, d, W)
      /\ \A W : out.kind # "RESET" => Retains(disk'.recent_utterances, r, "user", W)
      /\ Attributed(disk'.recent_utterances, beside)
      /\ \/ disk'.recent_utterances = <<>>
         \/ /\ disk'.recent_utterances[Len(disk'.recent_utterances)].role = "user"
            /\ disk'.recent_utterances[Len(disk'.recent_utterances)].request = r
  <2>1. Attributed(s.recent_utterances, beside)
    BY DEF HistoryInv
  <2>2. QED BY <1>1, <1>2, <1>4, <2>1, KeptAccept
<1>8. Attributed(local'[r].state.recent_utterances, beside)
  <2>1. Attributed(<<>>, beside)
    BY DEF Attributed
  <2>2. QED BY <1>5, <1>6, <2>1, FreshInv
<1>9. local'[r].outcome = out /\ local'[r].text = local[r].text
  BY <1>5, <1>6
<1>10. TurnInv(r)'
  <2>1. EndsNear(disk'.recent_utterances, r, beside[r])
    BY <1>7 DEF EndsNear
  <2>2. out.kind = "ASK" => disk'.pending # None
    BY <1>2, <1>4 DEF GoodOutcome
  <2>3. response[r] = "CHOICES_LOST" => beside[r] # {}
    BY DEF HistoryInv, TurnInv
  <2>4. QED BY <1>4, <1>6, <1>9, <2>1, <2>2, <2>3 DEF TurnInv
<1>11. AnswerInv(r)'
  BY <1>1, <1>3, <1>6, <1>9 DEF HistoryInv, AnswerInv
<1>12. AloneRunning(r)'
  <2>1. out.kind = "RESET" => disk'.recent_utterances = <<>>
    BY <1>2, <1>4, FreshInv DEF GoodOutcome
  <2>2. out.kind = "CANCEL" => disk'.cancelled
    BY <1>2, <1>4, Zenon DEF GoodOutcome
  <2>3. out.kind # "RESET" => Retains(disk'.recent_utterances, r, "user", Resetters')
    BY <1>7
  <2>4. QED BY <1>6, <1>9, <2>1, <2>2, <2>3, Zenon DEF AloneRunning
<1>13. ASSUME NEW q \in Request, NEW d, NEW W, q < r, Resetters \subseteq W,
              pc[r] \in Saving => Kept(s, q, d, W)
       PROVE  Kept(disk', q, d, W)
  <2>1. out.kind = "RESET" => r \in Resetters
    BY <1>1, <1>3 DEF Resetters, InFlight
  <2>2. QED BY <1>1, <1>7, <1>13, <2>1 DEF Saving
<1>14. /\ pc'[r] # "idle" /\ pc'[r] # "done" /\ pc'[r] \notin Saving
       /\ local[r].text.kind = "reset" => local'[r].text.kind = "reset"
  BY <1>6, <1>9 DEF Saving
<1>15. pc[r] \notin {"idle", "done"} /\ beside' = beside
  BY <1>1, <1>4
<1>16. QED BY <1>6, <1>7, <1>8, <1>10, <1>11, <1>12, <1>13, <1>14, <1>15, HistoryStep

(* A thread that moves on with its frame as it is.                          *)
LEMMA ContinueHistory ==
  ASSUME IInv, HistoryInv, NEW r \in Request, pc[r] = "decide",
         NEW label \in {"reload", "answer_load"}, Continue(r, label),
         UNCHANGED <<disk, beside>>,
         label = "reload" => local[r].outcome.kind = "ASK",
         label = "answer_load" => local[r].outcome.kind = "CONTINUE"
  PROVE  HistoryInv'
<1>1. /\ Goto(r, label) /\ local' = [local EXCEPT ![r] = local[r]] /\ local[r] \in LocalType
      /\ UNCHANGED response /\ local' = local
  BY DEF Continue, IInv, TypeInv
<1>2. label \in Labels \ {"idle", "done"} /\ label \notin Saving
  BY DEF Labels, Saving
<1>3. pc'[r] = label
  BY <1>1 DEF Goto, IInv, TypeInv
<1>4. TurnInv(r)' /\ AnswerInv(r)'
  BY <1>1, <1>3 DEF HistoryInv, TurnInv, AnswerInv
<1>5. ASSUME beside[r] = {}, Resetters \subseteq Resetters' PROVE AloneRunning(r)'
  <2>1. Retains(disk.recent_utterances, r, "user", Resetters)
    BY <1>5 DEF HistoryInv, AloneRunning
  <2>2. Retains(disk'.recent_utterances, r, "user", Resetters')
    BY <1>5, <2>1, KeptMore
  <2>3. QED BY <1>3, <2>2 DEF AloneRunning
<1>6. QED BY <1>1, <1>2, <1>4, <1>5, GoHistory

(* What follows accept tells no more than what it stored.                   *)
LEMMA DecideHistory ==
  ASSUME IInv, HistoryInv, NEW r \in Request,
         AnswerControl(r) \/ AskClarification(r) \/ AbstainUnresolved(r)
         \/ ControllerGivesUp(r) \/ ObligationsOpen(r) \/ ControllerVerifies(r)
  PROVE  HistoryInv'
<1>1. pc[r] = "decide" /\ UNCHANGED <<disk, beside>>
  BY DEF AnswerControl, AskClarification, AbstainUnresolved, ControllerGivesUp,
         ObligationsOpen, ControllerVerifies, Decided
<1>2. local[r].text.kind = "reset" <=> local[r].outcome.kind = "RESET"
  BY <1>1 DEF HistoryInv, AnswerInv
<1>3. ASSUME beside[r] = {}
      PROVE  /\ local[r].outcome.kind = "RESET" => disk.recent_utterances = <<>>
             /\ local[r].outcome.kind = "CANCEL" => disk.cancelled
             /\ local[r].outcome.kind # "RESET" =>
                  Retains(disk.recent_utterances, r, "user", Resetters)
  <2>1. AloneRunning(r)
    BY <1>3 DEF HistoryInv
  <2>2. QED BY <1>1, <2>1, Zenon DEF AloneRunning
<1>4. ASSUME NEW d \in {"RESET", "CANCELLED", "CLARIFY", "ABSTAIN", "ERROR"}, Respond(r, d),
             d = "RESET" <=> local[r].outcome.kind = "RESET",
             d = "CANCELLED" => local[r].outcome.kind = "CANCEL"
      PROVE  HistoryInv'
  <2>1. beside[r] = {} => (d = "CANCELLED" => disk.cancelled)
    BY <1>3, <1>4, Zenon
  <2>2. beside[r] = {} =>
          /\ d \in {"CANCELLED", "CLARIFY", "ABSTAIN"} =>
               Retains(disk.recent_utterances, r, "user", Resetters)
          /\ d # "ANSWER"
          /\ d = "RESET" => disk.recent_utterances = <<>>
    BY <1>3, <1>4
  <2>3. pc[r] \notin {"idle", "done"} /\ d # "CHOICES_LOST"
        /\ (local[r].text.kind = "reset" => d = "RESET")
    BY <1>1, <1>2, <1>4
  <2>4. QED BY <1>1, <1>4, <2>1, <2>2, <2>3, EndHistory
<1>5. CASE AnswerControl(r)
  BY <1>4, <1>5 DEF AnswerControl
<1>6. CASE AskClarification(r)
  BY <1>1, <1>4, <1>6, ContinueHistory DEF AskClarification
<1>7. CASE AbstainUnresolved(r) \/ ControllerGivesUp(r) \/ ObligationsOpen(r)
  BY <1>4, <1>7 DEF AbstainUnresolved, ControllerGivesUp, ObligationsOpen, Answerable
<1>8. CASE ControllerVerifies(r)
  BY <1>1, <1>8, ContinueHistory DEF ControllerVerifies, Answerable
<1>9. QED BY <1>5, <1>6, <1>7, <1>8

(* record_answer loads a session that ends near its own turn, or fails.     *)
LEMMA AnswerLoadHistory ==
  ASSUME IInv, HistoryInv, NEW r \in Request, AnswerLoad(r) PROVE HistoryInv'
<1>1. /\ UNCHANGED <<disk, beside>> /\ pc[r] = "answer_load"
      /\ local[r].text.kind # "reset"
  BY DEF AnswerLoad, HistoryInv, AnswerInv
<1>2. CASE disk.recent_utterances = <<>> \/ Handle(r) \in HugeAnswers
  <2>1. Respond(r, "ERROR")
    BY <1>2 DEF AnswerLoad
  <2>2. QED BY <1>1, <2>1, EndHistory
<1>3. CASE ~(disk.recent_utterances = <<>> \/ Handle(r) \in HugeAnswers)
  <2> DEFINE l == [local[r] EXCEPT !.state = disk]
  <2>1. local[r] \in LocalType /\ SessionInv(disk)
    BY DEF IInv, TypeInv
  <2>2. Goto(r, "answer_save") /\ local' = [local EXCEPT ![r] = l] /\ UNCHANGED response
    BY <1>3 DEF AnswerLoad
  <2>3. l \in LocalType /\ l.text = local[r].text /\ l.state = disk
    BY <2>1 DEF LocalType, SessionInv
  <2> HIDE DEF l
  <2>4. "answer_save" \in Labels \ {"idle", "done"}
    BY DEF Labels
  <2>5. pc'[r] = "answer_save" /\ local'[r] = l /\ response'[r] = response[r]
    BY <2>2 DEF Goto, IInv, TypeInv
  <2>6. TurnInv(r)' /\ AnswerInv(r)'
    BY <1>1, <2>3, <2>5 DEF HistoryInv, TurnInv, AnswerInv
  <2>7. ASSUME beside[r] = {}, Resetters \subseteq Resetters' PROVE AloneRunning(r)'
    <3>1. Retains(disk.recent_utterances, r, "user", Resetters)
      BY <1>1, <2>7 DEF HistoryInv, AloneRunning
    <3>2. Retains(local'[r].state.recent_utterances, r, "user", Resetters')
      BY <2>3, <2>5, <2>7, <3>1, KeptMore
    <3>3. QED BY <2>5, <3>2 DEF AloneRunning
  <2>8. QED BY <1>1, <2>2, <2>3, <2>4, <2>6, <2>7, GoHistory
<1>4. QED BY <1>2, <1>3

(* The save of record_answer: the answer follows what its thread loaded.    *)
LEMMA AnswerSaveHistory ==
  ASSUME IInv, HistoryInv, NEW r \in Request, AnswerSave(r) PROVE HistoryInv'
<1> DEFINE s == local[r].state
           a == RecordAnswer(s, r, Handle(r))
<1>1. /\ SessionInv(s) /\ s.recent_utterances # <<>> /\ Handle(r) \in Records
      /\ pc[r] = "answer_save" /\ local[r].text.kind # "reset"
  BY DEF IInv, ThreadInv, AnswerSave, HistoryInv, AnswerInv
<1>2. /\ SessionInv(a)
      /\ Extended(s.recent_utterances, a.recent_utterances, "assistant", r)
      /\ a.cancelled = s.cancelled
  BY <1>1, RecordAnswerInv
<1>3. disk' = a /\ beside' = beside
  BY DEF AnswerSave
<1>4. PICK d \in {"ERROR", "ANSWER"} : Respond(r, d)
  BY DEF AnswerSave
<1> HIDE DEF a
<1>5. /\ OthersStay(r)
      /\ pc'[r] = "done" /\ local'[r].state = FreshSession /\ response'[r] = d
  BY <1>4, RespondFrame
<1>6. WindowInv(s.recent_utterances) /\ WindowInv(a.recent_utterances)
  BY <1>1, <1>2 DEF SessionInv
<1>7. Attributed(a.recent_utterances, beside)
  <2>1. Attributed(s.recent_utterances, beside)
    BY DEF HistoryInv
  <2>2. EndsNear(s.recent_utterances, r, beside[r])
    BY <1>1 DEF HistoryInv, TurnInv
  <2>3. QED BY <1>2, <1>6, <2>1, <2>2, AttributedExtended
<1>8. Attributed(local'[r].state.recent_utterances, beside)
  <2>1. Attributed(<<>>, beside)
    BY DEF Attributed
  <2>2. QED BY <1>5, <2>1, FreshInv
<1>9. TurnInv(r)' /\ AnswerInv(r)' /\ AloneRunning(r)'
  BY <1>5 DEF TurnInv, AnswerInv, AloneRunning
<1>10. Resetters \subseteq Resetters'
  BY <1>1, <1>5, ResettersGrow
<1>11. ASSUME beside[r] = {} PROVE Kept(a, r, d, Resetters')
  <2>1. Retains(s.recent_utterances, r, "user", Resetters)
    BY <1>1, <1>11 DEF HistoryInv, AloneRunning
  <2>2. r <= r
    BY ServiceAssumption DEF Request
  <2>3. /\ Retains(a.recent_utterances, r, "user", Resetters')
        /\ Retains(a.recent_utterances, r, "assistant", Resetters')
    BY <1>2, <1>6, <1>10, <2>1, <2>2, RetainsExtended, KeptMore
  <2>4. QED BY <2>3 DEF Kept
<1>12. ASSUME NEW q \in Request, NEW e, NEW W, q < r,
              pc[r] \in Saving => Kept(s, q, e, W)
       PROVE  Kept(disk', q, e, W)
  <2>1. s.cancelled => a.cancelled
    BY <1>2, Zenon
  <2>2. Kept(s, q, e, W)
    BY <1>1, <1>12 DEF Saving
  <2>3. QED BY <1>1, <1>2, <1>3, <1>12, <2>1, <2>2, KeptExtended
<1>13. pc[r] \notin {"idle", "done"} /\ pc'[r] # "idle" /\ pc'[r] \notin Saving
  BY <1>1, <1>5 DEF Saving
<1>14. disk'.recent_utterances[Len(disk'.recent_utterances)].request = r
  BY <1>2, <1>3 DEF Extended
<1>15. /\ Attributed(disk'.recent_utterances, beside)
       /\ beside[r] = {} => Kept(disk', r, response'[r], Resetters')
  BY <1>3, <1>5, <1>7, <1>11
<1>16. QED BY <1>1, <1>3, <1>5, <1>8, <1>9, <1>12, <1>13, <1>14, <1>15, HistoryStep

(* The choices a clarification reads again were only lost to a companion.   *)
LEMMA ReloadHistory ==
  ASSUME IInv, HistoryInv, NEW r \in Request, Reload(r) PROVE HistoryInv'
<1>1. /\ pc[r] = "reload" /\ UNCHANGED <<disk, beside>>
      /\ local[r].text.kind # "reset"
  BY DEF Reload, HistoryInv, AnswerInv
<1>2. PICK d \in {"CHOICES_LOST", "CLARIFY"} :
        Respond(r, d) /\ (disk.pending # None => d = "CLARIFY")
  BY DEF Reload
<1>3. disk.pending # None \/ beside[r] # {}
  BY <1>1 DEF HistoryInv, TurnInv
<1>4. beside[r] = {} => Retains(disk.recent_utterances, r, "user", Resetters)
  BY <1>1 DEF HistoryInv, AloneRunning
<1>5. QED BY <1>1, <1>2, <1>3, <1>4, EndHistory

(* A request that arrives becomes the companion of those in flight.         *)
LEMMA ArriveHistory ==
  ASSUME IInv, HistoryInv, NEW r \in Request, NEW t \in Text, Arrive(r, t)
  PROVE  HistoryInv'
<1> DEFINE l == [local[r] EXCEPT !.text = t]
<1>1. /\ pc \in [Request -> Labels] /\ local \in [Request -> LocalType]
      /\ beside \in [Request -> SUBSET Request]
  BY DEF IInv, TypeInv
<1>2. /\ pc' = [pc EXCEPT ![r] = "load_before"] /\ local' = [local EXCEPT ![r] = l]
      /\ UNCHANGED <<disk, response>> /\ pc[r] = "idle"
      /\ \A q \in Request : q < r => pc[q] # "idle"
      /\ beside' = [q \in Request |-> IF q = r THEN InFlight
                                      ELSE IF q \in InFlight THEN beside[q] \cup {r}
                                      ELSE beside[q]]
  BY DEF Arrive, Goto
<1>3. l.state = local[r].state /\ l.text = t
  BY <1>1 DEF LocalType
<1> HIDE DEF l
<1>4. /\ pc'[r] = "load_before" /\ local'[r] = l /\ beside'[r] = InFlight
      /\ \A q \in Request \ {r} : pc'[q] = pc[q] /\ local'[q] = local[q]
      /\ \A q \in Request \ {r} :
           beside'[q] = IF q \in InFlight THEN beside[q] \cup {r} ELSE beside[q]
      /\ r \notin InFlight /\ InFlight' = InFlight \cup {r}
  <2>1. /\ pc'[r] = "load_before" /\ local'[r] = l /\ beside'[r] = InFlight
        /\ \A q \in Request \ {r} : pc'[q] = pc[q] /\ local'[q] = local[q]
        /\ \A q \in Request \ {r} :
             beside'[q] = IF q \in InFlight THEN beside[q] \cup {r} ELSE beside[q]
    BY <1>1, <1>2
  <2>2. r \notin InFlight /\ InFlight' = InFlight \cup {r}
    BY <1>2, <2>1 DEF InFlight
  <2>3. QED BY <2>1, <2>2
<1>5. /\ \A q \in Request : beside[q] \subseteq beside'[q] /\ response'[q] = response[q]
      /\ response[r] = None
  BY <1>2, <1>4 DEF HistoryInv, AnswerInv
<1>6. Request \subseteq Nat /\ None \notin Disposition
  BY ServiceAssumption DEF Request
<1>7. Companions'
  <2>1. ASSUME NEW q \in InFlight', NEW p \in InFlight', q # p
        PROVE  q \in beside'[p]
    <3>1. q \in Request /\ p \in Request
      BY <2>1 DEF InFlight
    <3>2. CASE p = r
      BY <1>4, <2>1, <3>2
    <3>3. CASE p # r /\ q = r
      BY <1>4, <2>1, <3>1, <3>3
    <3>4. CASE p # r /\ q # r
      <4>1. q \in beside[p]
        BY <1>4, <2>1, <3>4 DEF HistoryInv, Companions
      <4>2. QED BY <1>5, <3>1, <4>1
    <3>5. QED BY <3>2, <3>3, <3>4
  <2>2. QED BY <2>1 DEF Companions
<1>8. Numbered'
  <2>1. ASSUME NEW q \in Request, NEW p \in Request, q < p, pc'[q] = "idle"
        PROVE  pc'[p] = "idle"
    <3>1. q # r /\ pc[q] = "idle" /\ pc[p] = "idle"
      BY <1>4, <2>1 DEF HistoryInv, Numbered
    <3>2. p # r
      BY <1>2, <2>1, <3>1
    <3>3. QED BY <1>4, <3>1, <3>2
  <2>2. QED BY <2>1 DEF Numbered
<1>9. /\ Attributed(disk.recent_utterances, beside')
      /\ \A q \in Request : Attributed(local[q].state.recent_utterances, beside')
  <2>1. ASSUME NEW us, Attributed(us, beside), WindowInv(us)
        PROVE  Attributed(us, beside')
    <3>1. us \in Seq(Utterance)
      BY <2>1 DEF WindowInv
    <3>2. \A i \in 1 .. Len(us) : us[i].request \in Request
      <4>1. \A i \in 1 .. Len(us) : us[i] \in Utterance
        BY <3>1
      <4>2. QED BY <4>1 DEF Utterance
    <3>3. Len(us) \in Nat
      BY <3>1
    <3>4. QED BY <1>5, <2>1, <3>2, <3>3 DEF Attributed
  <2>2. /\ WindowInv(disk.recent_utterances)
        /\ \A q \in Request : WindowInv(local[q].state.recent_utterances)
    BY DEF IInv, ThreadInv, SessionInv
  <2>3. QED BY <2>1, <2>2 DEF HistoryInv
<1>10. /\ Attributed(disk.recent_utterances, beside)'
       /\ \A q \in Request : Attributed(local[q].state.recent_utterances, beside)'
  <2>1. \A q \in Request : local'[q].state = local[q].state
    BY <1>3, <1>4
  <2>2. QED BY <1>2, <1>9, <2>1
<1>11. ASSUME NEW q \in Request PROVE TurnInv(q)' /\ AnswerInv(q)'
  <2>1. TurnInv(q) /\ AnswerInv(q)
    BY DEF HistoryInv
  <2>2. CASE q = r
    <3>1. response'[r] = None /\ pc'[r] = "load_before" /\ "CHOICES_LOST" \in Disposition
      BY <1>4, <1>5 DEF Disposition
    <3>2. QED BY <1>6, <2>2, <3>1 DEF TurnInv, AnswerInv
  <2>3. CASE q # r
    <3>1. /\ pc'[q] = pc[q] /\ local'[q] = local[q] /\ response'[q] = response[q] /\ disk' = disk
          /\ beside[q] \subseteq beside'[q]
          /\ pc[q] = "idle" => beside'[q] = beside[q]
      BY <1>2, <1>4, <1>5, <2>3 DEF InFlight
    <3>2. \A us : EndsNear(us, q, beside[q]) => EndsNear(us, q, beside'[q])
      BY <3>1 DEF EndsNear
    <3>3. beside[q] # {} => beside'[q] # {}
      BY <3>1
    <3>4. TurnInv(q)'
      BY <2>1, <3>1, <3>2, <3>3 DEF TurnInv
    <3>5. QED BY <2>1, <3>1, <3>4 DEF AnswerInv
  <2>4. QED BY <2>2, <2>3
<1>12. Resetters \subseteq Resetters'
  <2>1. ASSUME NEW p \in Request, p \in Resetters PROVE p \in Resetters'
    <3>1. p # r \/ response[p] \in {"RESET", "LOST"}
      BY <1>4, <2>1 DEF Resetters
    <3>2. CASE response[p] \in {"RESET", "LOST"}
      BY <1>5, <3>2 DEF Resetters
    <3>3. CASE p # r /\ p \in InFlight /\ local[p].text.kind = "reset"
      BY <1>4, <3>3 DEF Resetters
    <3>4. QED BY <2>1, <3>1, <3>2, <3>3 DEF Resetters
  <2>2. QED BY <2>1 DEF Resetters
<1>13. ASSUME NEW q \in Request, beside'[q] = {} PROVE AloneRunning(q)' /\ AloneDone(q)'
  <2>1. CASE q = r
    BY <1>4, <2>1 DEF AloneRunning, AloneDone
  <2>2. CASE q # r
    <3>1. beside[q] = {} /\ q \notin InFlight /\ pc'[q] = pc[q] /\ response'[q] = response[q]
      BY <1>4, <1>5, <1>13, <2>2
    <3>2. pc[q] \in {"idle", "done"}
      BY <3>1 DEF InFlight
    <3>3. AloneRunning(q)'
      BY <3>1, <3>2 DEF AloneRunning
    <3>4. SUFFICES ASSUME pc[q] = "done" PROVE AloneDone(q)'
      BY <3>1, <3>2, <3>3 DEF AloneDone
    <3>5. AloneDone(q)
      BY <3>1 DEF HistoryInv
    <3>6. r > q
      <4>1. ~(r < q)
        BY <1>2, <3>4 DEF HistoryInv, Numbered
      <4>2. QED BY <1>6, <2>2, <4>1
    <3>7. \A p \in InFlight' : p > q
      BY <1>4, <3>4, <3>5, <3>6 DEF AloneDone
    <3>8. Kept(disk', q, response'[q], Resetters')
      BY <1>2, <1>12, <3>1, <3>4, <3>5, KeptMore DEF AloneDone
    <3>9. ASSUME NEW p \in Request, pc'[p] \in Saving
          PROVE  Kept(local'[p].state, q, response'[q], Resetters')
      <4>1. p # r
        BY <1>4, <3>9 DEF Saving
      <4>2. Kept(local[p].state, q, response[q], Resetters)
        BY <1>4, <3>4, <3>5, <3>9, <4>1 DEF AloneDone
      <4>3. QED BY <1>4, <1>12, <3>1, <4>1, <4>2, KeptMore
    <3>10. QED BY <3>7, <3>8, <3>9 DEF AloneDone
  <2>3. QED BY <2>1, <2>2
<1>14. QED BY <1>7, <1>8, <1>10, <1>11, <1>13 DEF HistoryInv

(* A death ends every thread and leaves the store as it was.                *)
LEMMA CrashHistory == ASSUME IInv, HistoryInv, Crash PROVE HistoryInv'
<1>1. /\ UNCHANGED <<disk, beside>>
      /\ response' = [r \in Request |-> IF r \in InFlight THEN "LOST" ELSE response[r]]
      /\ pc' = [r \in Request |-> IF r \in InFlight THEN "done" ELSE pc[r]]
      /\ local' = [r \in Request |-> IF r \in InFlight THEN NoLocals ELSE local[r]]
  BY DEF Crash
<1>2. InFlight' = {} /\ \A q \in Request : pc'[q] \in {"idle", "done"}
  BY <1>1 DEF InFlight
<1>3. Companions' /\ Numbered'
  <2>1. \A q \in Request : pc'[q] = "idle" <=> pc[q] = "idle"
    BY <1>1 DEF InFlight
  <2>2. QED BY <1>2, <2>1 DEF HistoryInv, Companions, Numbered
<1>4. Attributed(<<>>, beside) /\ NoLocals.state.recent_utterances = <<>>
  BY NoLocalsInv, FreshInv DEF Attributed
<1>5. /\ Attributed(disk.recent_utterances, beside)'
      /\ \A q \in Request : Attributed(local[q].state.recent_utterances, beside)'
  <2>1. \A q \in Request : local'[q] = NoLocals \/ local'[q] = local[q]
    BY <1>1
  <2>2. QED BY <1>1, <1>4, <2>1 DEF HistoryInv
<1>6. ASSUME NEW q \in Request PROVE TurnInv(q)' /\ AnswerInv(q)'
  <2>1. TurnInv(q) /\ AnswerInv(q)
    BY DEF HistoryInv
  <2>2. response'[q] = "CHOICES_LOST" => beside'[q] # {}
    BY <1>1, <2>1 DEF TurnInv
  <2>3. pc'[q] = "idle" => pc[q] = "idle" /\ response'[q] = response[q] /\ beside'[q] = beside[q]
    BY <1>1 DEF InFlight
  <2>4. QED BY <1>2, <2>1, <2>2, <2>3 DEF TurnInv, AnswerInv
<1>7. Resetters \subseteq Resetters'
  <2>1. \A p \in Request : p \in Resetters => response'[p] \in {"RESET", "LOST"}
    BY <1>1 DEF Resetters
  <2>2. QED BY <2>1 DEF Resetters
<1>8. ASSUME NEW q \in Request, beside'[q] = {} PROVE AloneRunning(q)' /\ AloneDone(q)'
  <2>1. AloneRunning(q)'
    BY <1>2 DEF AloneRunning
  <2>2. \A p \in Request : pc'[p] \notin Saving
    BY <1>2 DEF Saving
  <2>3. CASE q \in InFlight
    <3>1. response'[q] = "LOST"
      BY <1>1, <2>3
    <3>2. Kept(disk', q, response'[q], Resetters')
      BY <3>1 DEF Kept
    <3>3. QED BY <1>2, <2>1, <2>2, <3>2 DEF AloneDone
  <2>4. CASE q \notin InFlight
    <3>1. pc'[q] = pc[q] /\ response'[q] = response[q] /\ AloneDone(q) /\ disk' = disk
      BY <1>1, <1>8, <2>4 DEF HistoryInv
    <3>2. pc[q] = "done" => Kept(disk', q, response'[q], Resetters')
      BY <1>7, <3>1, KeptMore DEF AloneDone
    <3>3. QED BY <1>2, <2>1, <2>2, <3>1, <3>2 DEF AloneDone
  <2>5. QED BY <2>3, <2>4
<1>9. QED BY <1>3, <1>5, <1>6, <1>8 DEF HistoryInv

(* Nothing has happened yet.                                                *)
LEMMA InitHistory == Init => HistoryInv
<1> SUFFICES ASSUME Init PROVE HistoryInv
  OBVIOUS
<1>1. /\ \A r \in Request : /\ pc[r] = "idle" /\ response[r] = None /\ beside[r] = {}
                           /\ local[r] = NoLocals
      /\ disk = FreshSession /\ InFlight = {}
  BY DEF Init, InFlight
<1>2. Attributed(<<>>, beside)
  BY DEF Attributed
<1>3. Companions /\ Numbered
  BY <1>1 DEF Companions, Numbered
<1>4. None # "CHOICES_LOST"
  BY ServiceAssumption DEF Disposition
<1>5. \A r \in Request : TurnInv(r) /\ AnswerInv(r) /\ AloneRunning(r) /\ AloneDone(r)
  BY <1>1, <1>4 DEF TurnInv, AnswerInv, AloneRunning, AloneDone
<1>6. /\ Attributed(disk.recent_utterances, beside)
      /\ \A r \in Request : Attributed(local[r].state.recent_utterances, beside)
  BY <1>1, <1>2, FreshInv, NoLocalsInv
<1>7. QED BY <1>3, <1>5, <1>6 DEF HistoryInv

(* Every step of the service keeps the history, given that the sessions are *)
(* good.                                                                    *)
LEMMA NextHistory == IInv /\ HistoryInv /\ [Next]_vars => HistoryInv'
<1> SUFFICES ASSUME IInv, HistoryInv, [Next]_vars PROVE HistoryInv'
  OBVIOUS
<1>1. ASSUME NEW r \in Request, NEW t \in Text, Arrive(r, t) PROVE HistoryInv'
  BY <1>1, ArriveHistory
<1>2. ASSUME NEW r \in Request, Serve(r) PROVE HistoryInv'
  BY <1>2, RejectBlankHistory, LoadBeforeHistory, AcceptLoadHistory, AcceptSaveHistory,
     DecideHistory, AnswerLoadHistory, AnswerSaveHistory, ReloadHistory DEF Serve
<1>3. CASE Crash
  BY <1>3, CrashHistory
<1>4. CASE UNCHANGED vars
  <2>1. /\ disk' = disk /\ pc' = pc /\ local' = local /\ response' = response
        /\ beside' = beside
    BY <1>4 DEF vars
  <2>2. InFlight' = InFlight /\ Resetters' = Resetters
    BY <2>1 DEF InFlight, Resetters
  <2>3. Companions' /\ Numbered'
    BY <2>1, <2>2 DEF HistoryInv, Companions, Numbered
  <2>4. \A r \in Request : TurnInv(r)' /\ AnswerInv(r)'
    BY <2>1 DEF HistoryInv, TurnInv, AnswerInv
  <2>5. ASSUME NEW q \in Request, beside'[q] = {} PROVE AloneRunning(q)' /\ AloneDone(q)'
    <3>1. AloneRunning(q) /\ AloneDone(q)
      BY <2>1, <2>5 DEF HistoryInv
    <3>2. AloneRunning(q)'
      BY <2>1, <2>2, <3>1, Zenon DEF AloneRunning
    <3>3. AloneDone(q)'
      BY <2>1, <2>2, <3>1, Zenon DEF AloneDone
    <3>4. QED BY <3>2, <3>3
  <2>6. /\ Attributed(disk.recent_utterances, beside)'
        /\ \A r \in Request : Attributed(local[r].state.recent_utterances, beside)'
    BY <2>1 DEF HistoryInv
  <2>7. QED BY <2>3, <2>4, <2>5, <2>6 DEF HistoryInv
<1>5. QED BY <1>1, <1>2, <1>3, <1>4 DEF Next, AllServed

(* Sessions stay good and the history holds of them.                        *)
LEMMA HistoryInvariant == Spec => [](IInv /\ HistoryInv)
<1>1. Init => IInv /\ HistoryInv
  BY InitInv, InitHistory
<1>2. IInv /\ HistoryInv /\ [Next]_vars => (IInv /\ HistoryInv)'
  BY NextInv, NextHistory
<1>3. QED BY <1>1, <1>2, PTL DEF Spec

(* An answer is filed after its own turn or that of a request that was in   *)
(* flight together with the one it answers.                                 *)
THEOREM AnswersAlwaysAttributed == Spec => []AnswersAttributed
<1>1. IInv /\ HistoryInv => AnswersAttributed
  BY DEF HistoryInv, Attributed, AnswersAttributed
<1>2. QED BY <1>1, HistoryInvariant, PTL

(* What a request that ran alone was answered is not lost: no save, stale   *)
(* or not, takes back its turns, its cancel or its reset.                   *)
THEOREM AloneAlwaysKept == Spec => []AloneIsKept
<1>1. IInv /\ HistoryInv => AloneIsKept
  <2> SUFFICES ASSUME IInv, HistoryInv PROVE AloneIsKept
    OBVIOUS
  <2>1. \A us, q, o : Retains(us, q, o, Resetters) <=> Holds(us, q, o)
    BY Zenon DEF Retains, Holds, ResetAfter, Wiped
  <2>2. ASSUME NEW q \in Request, beside[q] = {}
        PROVE  Kept(disk, q, response[q], Resetters)
    <3>1. CASE pc[q] = "done"
      BY <2>2, <3>1 DEF HistoryInv, AloneDone
    <3>2. CASE pc[q] # "done"
      <4>1. response[q] = None
        BY <3>2 DEF HistoryInv, AnswerInv
      <4>2. None \notin {"CANCELLED", "CLARIFY", "ABSTAIN", "ANSWER", "RESET"}
        BY ServiceAssumption DEF Disposition
      <4>3. QED BY <4>1, <4>2 DEF Kept
    <3>3. QED BY <3>1, <3>2
  <2>3. QED BY <2>1, <2>2, Zenon DEF Kept, AloneIsKept, ResetAfter, Wiped
<1>2. QED BY <1>1, HistoryInvariant, PTL

(* The error the terminal adapter treats as impossible ("clarification      *)
(* response lost its structured choices") needs a companion: a request that *)
(* was alone in flight still finds the question it asked.                   *)
THEOREM ChoicesLostOnlyBeside ==
  Spec => []\A r \in Request : response[r] = "CHOICES_LOST" => beside[r] # {}
<1>1. IInv /\ HistoryInv => \A r \in Request : response[r] = "CHOICES_LOST" => beside[r] # {}
  BY DEF HistoryInv, TurnInv
<1>2. QED BY <1>1, HistoryInvariant, PTL

=============================================================================
