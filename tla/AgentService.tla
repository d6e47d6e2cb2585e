---------------------------- MODULE AgentService ----------------------------
(***************************************************************************)
(* The conversational service: threads that serve queries on one session   *)
(* (agent/vertical.py, agent/conversation.py, agent/server.py) over the    *)
(* session store (agent/session.py).                                       *)
(*                                                                         *)
(* The HTTP handlers are synchronous functions, so requests run in worker  *)
(* threads; the store locks each load and each save, never a load together *)
(* with the save that follows it.  A request is therefore a sequence of    *)
(* atomic store accesses with local computation between them:              *)
(*   load (query) - load, save (accept) - load, save (record_answer)       *)
(* and, for the terminal adapter, one more load after a clarification.     *)
(* A save replaces the session file with os.replace, so a crash of the     *)
(* process keeps the last saved state and loses the threads.               *)
(*                                                                         *)
(* A text is abstracted to what the code reads off it: its kind, the       *)
(* entities its address lookup proposes, the relation its words name, its  *)
(* discourse style and the clarification choice it spells.                 *)
(***************************************************************************)
EXTENDS Integers, Sequences, FiniteSets

CONSTANTS
  MaxRequests,     \* model bound: requests made, numbered as they arrive
  Terminal,        \* those that arrive through tactility_handler
  Entity,          \* canonical entities
  Relation,        \* relation families
  Records,         \* grounded records: a set of <<entity, relation>>
  LongAnswers,     \* records whose answer overflows the terminal text delta
  HugeAnswers,     \* records whose answer overflows an Utterance as well
  Text,            \* the texts users may send (see TextType)
  None,            \* Python's None
  MaxInFlight,     \* worker threads
  MaxCrashes,      \* model bound: process crashes
  UtteranceCap,    \* recent_utterances window (12)
  EvidenceCap,     \* evidence_handles window (32)
  ResolvedCap      \* previously_resolved_entities / bindings window (16)

Request == 1 .. MaxRequests

(* What a handler answers or raises; LOST is the answer of one that died.   *)
Disposition == {"RESET", "CANCELLED", "CLARIFY", "ABSTAIN", "ANSWER", "ERROR",
                "CHOICES_LOST", "LOST"}

TextType ==
  [kind : {"reset", "cancel", "ask", "blank"},
   candidates : SUBSET Entity,        \* _address, best first: `best'
   best : Entity \cup {None},
   ambiguous : BOOLEAN,               \* _ambiguity of the candidates
   relation : Relation \cup {None},   \* _relation of the text
   style : SUBSET {"correction", "what_about", "referent"},
   choice : Entity \cup {None},       \* the clarification choice it names
   constrained : BOOLEAN]             \* temporal/location/attribution words

ASSUME ServiceAssumption ==
  /\ MaxRequests \in Nat
  /\ Terminal \subseteq Request
  /\ Records \subseteq Entity \X Relation
  /\ HugeAnswers \subseteq LongAnswers /\ LongAnswers \subseteq Records
  /\ None \notin Entity \cup Relation \cup Disposition
  /\ None \notin [choices : SUBSET Entity, relation : Relation \cup {None}]
  /\ Text \subseteq TextType
  /\ \A t \in Text : /\ (t.best = None) = (t.candidates = {})
                     /\ t.best # None => t.best \in t.candidates
                     /\ t.ambiguous => \E e \in t.candidates : e # t.best
  /\ MaxInFlight \in Nat \ {0}
  /\ MaxCrashes \in Nat
  /\ UtteranceCap \in Nat \ {0}
  /\ EvidenceCap \in Nat \ {0}
  /\ ResolvedCap \in Nat \ {0}

VARIABLES
  disk,        \* the stored SessionState
  pc,          \* request -> its control point
  local,       \* request -> the thread's local variables
  response,    \* request -> disposition returned, or None
  crashes,     \* crashes so far
  beside       \* history: request -> those in flight together with it

vars == <<disk, pc, local, response, crashes, beside>>

(* SessionState(session_id): what load returns when nothing was saved.      *)
FreshSession ==
  [current_query |-> FALSE,
   unresolved |-> {},
   pending |-> None,
   resolved |-> <<>>,
   bindings |-> <<>>,
   previous_relation |-> None,
   previous_answer_plan |-> None,
   evidence_handles |-> <<>>,
   recent_utterances |-> <<>>,
   cancelled |-> FALSE]

LastN(s, n) == IF Len(s) <= n THEN s ELSE SubSeq(s, Len(s) - n + 1, Len(s))
FirstN(s, n) == IF Len(s) <= n THEN s ELSE SubSeq(s, 1, n)
Elements(s) == {s[i] : i \in 1 .. Len(s)}
MaxOf(S) == CHOOSE m \in S : \A x \in S : x <= m

----------------------------------------------------------------------------
(* ConversationEngine                                                       *)

(* _append_utterance: the number after the largest one in the window.       *)
TurnNumberByLength(us) == 1 + Len(us)            \* mutant
TurnNumber(us) == 1 + MaxOf({0} \cup {us[i].number : i \in 1 .. Len(us)})
AppendUtteranceUnbounded(us, r) ==               \* mutant: window not cut
  Append(us, [number |-> TurnNumber(us), role |-> "user", request |-> r])
AppendUtterance(us, r) ==
  LastN(Append(us, [number |-> TurnNumber(us), role |-> "user", request |-> r]),
        UtteranceCap)

Outcome(state, kind, entity, relation) ==
  [state |-> state, kind |-> kind, entity |-> entity, relation |-> relation]

AcceptCancel(s, r) ==
  Outcome([s EXCEPT !.current_query = FALSE, !.pending = None, !.unresolved = {},
                    !.recent_utterances = AppendUtterance(@, r), !.cancelled = TRUE],
          "CANCEL", None, None)

(* A reply that names none of the pending choices repeats the question.     *)
AcceptRepeat(s, r) ==
  Outcome([s EXCEPT !.current_query = TRUE,
                    !.recent_utterances = AppendUtterance(@, r)],
          "ASK", None, None)

AcceptAmbiguousKeepPending(s, r, t, rel) ==      \* mutant: old question kept
  Outcome([s EXCEPT !.current_query = TRUE, !.unresolved = t.candidates,
                    !.pending = IF @ = None
                                THEN [choices |-> t.candidates, relation |-> t.relation]
                                ELSE @,
                    !.recent_utterances = AppendUtterance(@, r)],
          "ASK", None, IF rel # None THEN rel ELSE s.previous_relation)
AcceptAmbiguous(s, r, t, rel) ==
  Outcome([s EXCEPT !.current_query = TRUE, !.unresolved = t.candidates,
                    !.pending = [choices |-> t.candidates, relation |-> t.relation],
                    !.recent_utterances = AppendUtterance(@, r)],
          "ASK", None, IF rel # None THEN rel ELSE s.previous_relation)

(* FOLLOW_UP: no other intent applies and a query is current.               *)
IsFollowUp(s, t) == s.pending = None /\ t.style = {} /\ s.current_query

EffectiveRelation(s, t, rel) ==
  IF rel = None /\ (t.style \cap {"what_about", "referent"} # {} \/ IsFollowUp(s, t))
  THEN s.previous_relation
  ELSE rel

(* The items of a window other than e, in their order.                      *)
Without(s, e) ==
  LET rest[n \in 0 .. Len(s)] ==
        IF n = 0 THEN <<>> ELSE IF s[n] = e THEN rest[n - 1] ELSE Append(rest[n - 1], s[n])
  IN  rest[Len(s)]

(* _resolved: the entity moves to the end of the resolved window.           *)
BindResolved(s, e) ==
  [s EXCEPT !.resolved = LastN(Append(Without(@, e), e), ResolvedCap),
            !.bindings = LastN(Append(@, e), ResolvedCap)]

TurnRecordedUnlessChoice(s, r) ==                \* mutant: a choice is no turn
  IF s.pending # None THEN s.recent_utterances ELSE AppendUtterance(s.recent_utterances, r)
(* accept records the user turn whatever the outcome.                       *)
TurnRecorded(s, r) == AppendUtterance(s.recent_utterances, r)

(* The selected entity, or the last resolved one when a pronoun asks for it.*)
AcceptContinue(s, r, t, rel, selected) ==
  LET bound == IF selected # None THEN BindResolved(s, selected) ELSE s
      referred == IF "referent" \in t.style /\ s.resolved # <<>>
                  THEN s.resolved[Len(s.resolved)] ELSE None
      relation == EffectiveRelation(s, t, rel)
  IN Outcome([bound EXCEPT !.current_query = TRUE,
                           !.previous_relation = relation,
                           !.unresolved = {},
                           !.pending = None,
                           !.recent_utterances = TurnRecorded(s, r)],
             "CONTINUE", IF selected # None THEN selected ELSE referred, relation)

NamesChoice(s, t) == s.pending # None /\ t.choice # None /\ t.choice \in s.pending.choices

ResetForgotten(s) == s                           \* mutant: a new state, not saved
ResetSession(s) == FreshSession

(* ConversationEngine.accept on the state it loaded.                        *)
Accept(s, r, t, rel) ==
  CASE t.kind = "reset" -> Outcome(ResetSession(s), "RESET", None, None)
    [] t.kind = "cancel" -> AcceptCancel(s, r)
    [] t.kind = "ask" /\ t.candidates # {} /\ t.ambiguous -> AcceptAmbiguous(s, r, t, rel)
    [] t.kind = "ask" /\ t.candidates # {} /\ ~t.ambiguous ->
         AcceptContinue(s, r, t, rel, t.best)
    [] t.kind = "ask" /\ t.candidates = {} /\ s.pending = None ->
         AcceptContinue(s, r, t, rel, None)
    [] t.kind = "ask" /\ t.candidates = {} /\ s.pending # None ->
         IF NamesChoice(s, t) THEN AcceptContinue(s, r, t, rel, t.choice)
                              ELSE AcceptRepeat(s, r)

(* record_answer: a dict update keeps the place of a known handle.          *)
AddHandle(handles, h) == IF h \in Elements(handles) THEN handles ELSE Append(handles, h)
RecordAnswerKeepOldest(s, r, h) ==               \* mutant: [:32] for [-32:]
  LET us == s.recent_utterances
  IN [s EXCEPT !.previous_answer_plan = h,
               !.evidence_handles = FirstN(AddHandle(@, h), EvidenceCap),
               !.recent_utterances =
                 LastN(Append(@, [number |-> us[Len(us)].number, role |-> "assistant",
                                  request |-> r]), UtteranceCap)]
RecordAnswer(s, r, h) ==
  LET us == s.recent_utterances
  IN [s EXCEPT !.previous_answer_plan = h,
               !.evidence_handles = LastN(AddHandle(@, h), EvidenceCap),
               !.recent_utterances =
                 LastN(Append(@, [number |-> us[Len(us)].number, role |-> "assistant",
                                  request |-> r]), UtteranceCap)]

----------------------------------------------------------------------------
(* AetherCoreVerticalSlice.query, one action per store access               *)

NoOutcome == Outcome(FreshSession, "NONE", None, None)
NoLocals == [text |-> None, relation |-> None, state |-> FreshSession,
             outcome |-> NoOutcome]

InFlight == {r \in Request : pc[r] \notin {"idle", "done"}}

Init ==
  /\ disk = FreshSession
  /\ pc = [r \in Request |-> "idle"]
  /\ local = [r \in Request |-> NoLocals]
  /\ response = [r \in Request |-> None]
  /\ crashes = 0
  /\ beside = [r \in Request |-> {}]

Goto(r, label) == pc' = [pc EXCEPT ![r] = label]
(* The handler returns or raises: its frame is gone.                        *)
Respond(r, disposition) ==
  /\ Goto(r, "done")
  /\ response' = [response EXCEPT ![r] = disposition]
  /\ local' = [local EXCEPT ![r] = NoLocals]
Continue(r, label) ==
  /\ Goto(r, label)
  /\ UNCHANGED <<response, local>>

(* A request arrives and a worker thread takes it.                          *)
Arrive(r, t) ==
  /\ pc[r] = "idle"
  /\ \A q \in Request : q < r => pc[q] # "idle"
  /\ Cardinality(InFlight) < MaxInFlight
  /\ Goto(r, "load_before")
  /\ local' = [local EXCEPT ![r].text = t]
  /\ beside' = [q \in Request |-> IF q = r THEN InFlight
                                  ELSE IF q \in InFlight THEN beside[q] \cup {r}
                                  ELSE beside[q]]
  /\ UNCHANGED <<disk, response, crashes>>

(* A text of white space: the interpreter raises ValueError.                *)
RejectBlank(r) ==
  /\ pc[r] = "load_before"
  /\ local[r].text.kind = "blank"
  /\ Respond(r, "ERROR")
  /\ UNCHANGED <<disk, crashes, beside>>

(* query: the relation of the text, or of the query a pending clarification *)
(* was about.                                                               *)
LoadBefore(r) ==
  /\ pc[r] = "load_before"
  /\ local[r].text.kind # "blank"
  /\ LET own == local[r].text.relation
     IN local' = [local EXCEPT ![r].relation =
          IF own = None /\ disk.pending # None THEN disk.pending.relation ELSE own]
  /\ Goto(r, "accept_load")
  /\ UNCHANGED <<disk, response, crashes, beside>>

AcceptLoad(r) ==
  /\ pc[r] = "accept_load"
  /\ local' = [local EXCEPT ![r].state = disk]
  /\ Goto(r, "accept_save")
  /\ UNCHANGED <<disk, response, crashes, beside>>

AcceptSave(r) ==
  /\ pc[r] = "accept_save"
  /\ LET out == Accept(local[r].state, r, local[r].text, local[r].relation)
     IN /\ disk' = out.state
        /\ local' = [local EXCEPT ![r].outcome = out, ![r].state = FreshSession]
  /\ Goto(r, "decide")
  /\ UNCHANGED <<response, crashes, beside>>

Handle(r) == <<local[r].outcome.entity, local[r].outcome.relation>>
Addressed(r) == local[r].outcome.entity # None /\ local[r].outcome.relation # None

Decided(r) == pc[r] = "decide" /\ UNCHANGED <<disk, crashes, beside>>

AnswerControl(r) ==
  /\ Decided(r)
  /\ \/ local[r].outcome.kind = "RESET" /\ Respond(r, "RESET")
     \/ local[r].outcome.kind = "CANCEL" /\ Respond(r, "CANCELLED")

(* The HTTP handler returns the clarification it has; the terminal adapter  *)
(* reads the choices back from the store.                                   *)
AskClarification(r) ==
  /\ Decided(r)
  /\ local[r].outcome.kind = "ASK"
  /\ \/ r \notin Terminal /\ Respond(r, "CLARIFY")
     \/ r \in Terminal /\ Continue(r, "reload")

AbstainUnresolved(r) ==
  /\ Decided(r)
  /\ local[r].outcome.kind = "CONTINUE"
  /\ ~Addressed(r) \/ Handle(r) \notin Records
  /\ Respond(r, "ABSTAIN")

Answerable(r) ==
  local[r].outcome.kind = "CONTINUE" /\ Addressed(r) /\ Handle(r) \in Records

(* The controller loop ends without a verifier-accepted plan, the realizer  *)
(* refuses the plan, or an exact operation raises ValueError (HTTP 422).    *)
ControllerGivesUp(r) ==
  /\ Decided(r)
  /\ Answerable(r)
  /\ \E d \in {"ABSTAIN", "ERROR"} : Respond(r, d)

(* A verified plan, but constraint obligations that nothing satisfies keep  *)
(* can_halt_success false.                                                  *)
ObligationsOpen(r) ==
  /\ Decided(r)
  /\ Answerable(r)
  /\ local[r].text.constrained
  /\ Respond(r, "ABSTAIN")

ControllerVerifies(r) ==
  /\ Decided(r)
  /\ Answerable(r)
  /\ ~local[r].text.constrained
  /\ Continue(r, "answer_load")

(* record_answer raises when the session has no user turn (it was reset     *)
(* meanwhile) or the answer does not fit an utterance.                      *)
AnswerLoad(r) ==
  /\ pc[r] = "answer_load"
  /\ IF disk.recent_utterances = <<>> \/ Handle(r) \in HugeAnswers
     THEN Respond(r, "ERROR")
     ELSE /\ local' = [local EXCEPT ![r].state = disk]
          /\ Goto(r, "answer_save")
          /\ UNCHANGED response
  /\ UNCHANGED <<disk, crashes, beside>>

AnswerSave(r) ==
  /\ pc[r] = "answer_save"
  /\ disk' = RecordAnswer(local[r].state, r, Handle(r))
  /\ Respond(r, IF r \in Terminal /\ Handle(r) \in LongAnswers THEN "ERROR" ELSE "ANSWER")
  /\ UNCHANGED <<crashes, beside>>

(* tactility_handler after CLARIFY: RuntimeError when the choices are gone. *)
ReloadWaits(r) ==                                \* mutant: waits for choices
  /\ pc[r] = "reload"
  /\ disk.pending # None
  /\ Respond(r, "CLARIFY")
  /\ UNCHANGED <<disk, crashes, beside>>
Reload(r) ==
  /\ pc[r] = "reload"
  /\ Respond(r, IF disk.pending = None THEN "CHOICES_LOST" ELSE "CLARIFY")
  /\ UNCHANGED <<disk, crashes, beside>>

Serve(r) ==
  \/ RejectBlank(r) \/ LoadBefore(r) \/ AcceptLoad(r) \/ AcceptSave(r)
  \/ AnswerControl(r) \/ AskClarification(r) \/ AbstainUnresolved(r) \/ ControllerGivesUp(r)
  \/ ObligationsOpen(r) \/ ControllerVerifies(r) \/ AnswerLoad(r)
  \/ AnswerSave(r) \/ Reload(r)

(* The process dies: threads and their answers are lost, the file stays.    *)
Crash ==
  /\ crashes < MaxCrashes
  /\ InFlight # {}
  /\ crashes' = crashes + 1
  /\ response' = [r \in Request |-> IF r \in InFlight THEN "LOST" ELSE response[r]]
  /\ pc' = [r \in Request |-> IF r \in InFlight THEN "done" ELSE pc[r]]
  /\ local' = [r \in Request |-> IF r \in InFlight THEN NoLocals ELSE local[r]]
  /\ UNCHANGED <<disk, beside>>

AllServed == (\A r \in Request : pc[r] = "done") /\ UNCHANGED vars

Next ==
  \/ \E r \in Request : (\E t \in Text : Arrive(r, t)) \/ Serve(r)
  \/ Crash
  \/ AllServed

Spec == Init /\ [][Next]_vars

(* A worker thread keeps running until its handler returns.                 *)
ServiceFairness == \A r \in Request : WF_vars(Serve(r))

FairSpec == Spec /\ ServiceFairness

----------------------------------------------------------------------------
(* Properties                                                               *)

Handles == Entity \X Relation
SessionType ==
  [current_query : BOOLEAN,
   unresolved : SUBSET Entity,
   pending : [choices : SUBSET Entity, relation : Relation \cup {None}] \cup {None},
   resolved : Seq(Entity),
   bindings : Seq(Entity),
   previous_relation : Relation \cup {None},
   previous_answer_plan : Handles \cup {None},
   evidence_handles : Seq(Handles),
   recent_utterances : Seq([number : Nat, role : {"user", "assistant"}, request : Request]),
   cancelled : BOOLEAN]

(* Whatever the interleaving, the stored state passes the validator that    *)
(* load runs (SessionState, its types and enforce_bounds): model_copy does  *)
(* not validate, so a wrong value or an over-long window would make the     *)
(* session file unreadable for good.                                        *)
Reloadable ==
  /\ disk \in SessionType
  /\ Len(disk.recent_utterances) <= UtteranceCap
  /\ Len(disk.evidence_handles) <= EvidenceCap
  /\ Len(disk.resolved) <= ResolvedCap
  /\ Len(disk.bindings) <= ResolvedCap

(* Turn numbers in the window go up by one at a user turn and stay at an    *)
(* assistant turn, also after the window dropped older turns and when       *)
(* concurrent requests overwrite each other's saves.                        *)
TurnsConsecutive ==
  LET us == disk.recent_utterances
  IN \A i \in 1 .. Len(us) - 1 :
       us[i + 1].number = us[i].number + (IF us[i + 1].role = "user" THEN 1 ELSE 0)

(* The evidence of the last recorded answer is among the retained handles,  *)
(* and only grounded records are ever retained.                             *)
PlanEvidenceRetained ==
  /\ disk.previous_answer_plan # None =>
       disk.previous_answer_plan \in Elements(disk.evidence_handles)
  /\ Elements(disk.evidence_handles) \subseteq Records

(* A pending clarification offers exactly the hypotheses that are           *)
(* unresolved, at least two of them; without one nothing is unresolved.     *)
PendingIsUnresolved ==
  IF disk.pending = None THEN disk.unresolved = {}
  ELSE /\ disk.pending.choices = disk.unresolved
       /\ \E d, e \in disk.unresolved : d # e

(* A pronoun resolves to the entity of the latest discourse binding.        *)
ReferentIsLastBinding ==
  /\ (disk.resolved = <<>>) = (disk.bindings = <<>>)
  /\ disk.resolved # <<>> =>
       disk.resolved[Len(disk.resolved)] = disk.bindings[Len(disk.bindings)]

(* record_answer files an answer under whatever turn is last when it loads: *)
(* its own, or that of a request which was in flight together with the one  *)
(* it answers; never that of a request served before or after it.           *)
AnswersAttributed ==
  LET us == disk.recent_utterances
  IN \A i \in 2 .. Len(us) : us[i].role = "assistant" =>
       \/ us[i - 1].role = "user" /\ us[i - 1].request = us[i].request
       \/ us[i - 1].request \in beside[us[i].request]

(* A save that replaces another's can only take back what was stored by     *)
(* requests in flight together.  What a request that ran alone was answered *)
(* stays, however the requests after it interleave, overwrite one another   *)
(* or die: its turns, until the window has dropped them or a later reset,   *)
(* with nothing older behind them; its cancel, until a later reset; and     *)
(* after its reset nothing older comes back.                                *)
Resetters ==
  {r \in Request : \/ response[r] \in {"RESET", "LOST"}
                   \/ r \in InFlight /\ local[r].text.kind = "reset"}
ResetAfter(q) == \E r \in Resetters : r > q
Newer(us, i, q) == \A j \in i .. Len(us) : us[j].request >= q
Holds(us, q, role) ==
  \/ \E i \in 1 .. Len(us) : us[i].request = q /\ us[i].role = role /\ Newer(us, i, q)
  \/ Newer(us, 1, q) /\ (Len(us) = UtteranceCap \/ ResetAfter(q))
AloneIsKept ==
  LET us == disk.recent_utterances
  IN \A q \in Request : beside[q] = {} =>
       /\ response[q] \in {"CANCELLED", "CLARIFY", "ABSTAIN", "ANSWER"} => Holds(us, q, "user")
       /\ response[q] = "ANSWER" => Holds(us, q, "assistant")
       /\ response[q] = "CANCELLED" => disk.cancelled \/ ResetAfter(q)
       /\ response[q] = "RESET" => Newer(us, 1, q + 1)

(* Every handler that runs returns: no interleaving leaves a request waiting *)
(* for another one, so the service drains over and over.                    *)
ServiceDrains == []<>(InFlight = {})

(* "clarification response lost its structured choices" (server.py:91) is   *)
(* an error the adapter treats as impossible: after CLARIFY the stored      *)
(* session still holds a pending clarification.                             *)
ClarificationKeepsChoices == \A r \in Request : response[r] # "CHOICES_LOST"

============================================================================
