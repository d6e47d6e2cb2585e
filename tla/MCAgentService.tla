--------------------------- MODULE MCAgentService ---------------------------
(* Texts for TLC: a direct question, an ambiguous one, the choice that      *)
(* answers it, a follow-up, a pronoun, a constrained question, cancel,      *)
(* reset and a blank text.                                                  *)
EXTENDS AgentService

Ask(cands, best, amb, rel, style, choice, constrained) ==
  [kind |-> "ask", candidates |-> cands, best |-> best, ambiguous |-> amb,
   relation |-> rel, style |-> style, choice |-> choice, constrained |-> constrained]
Command(k) == [Ask({}, None, FALSE, None, {}, None, FALSE) EXCEPT !.kind = k]

MCEntity == {"e1", "e2", "e3"}
MCRelation == {"born"}
MCRecords == {<<"e1", "born">>, <<"e2", "born">>}
MCLong == {<<"e2", "born">>}
MCHuge == {}
MCText ==
  { Ask({"e1"}, "e1", FALSE, "born", {}, None, FALSE),
    Ask({"e1", "e2"}, "e1", TRUE, "born", {}, None, FALSE),
    Ask({"e2", "e3"}, "e2", TRUE, None, {}, None, FALSE),
    Ask({}, None, FALSE, None, {}, "e2", FALSE),
    Ask({"e2"}, "e2", FALSE, None, {"what_about"}, None, FALSE),
    Ask({}, None, FALSE, "born", {"referent"}, None, TRUE),
    Command("blank"),
    Command("cancel"),
    Command("reset") }
MCTerminal == {2}
=============================================================================
