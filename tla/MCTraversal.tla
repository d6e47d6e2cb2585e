---------------------------- MODULE MCTraversal ----------------------------
(***************************************************************************)
(* Six chunks of four documents, the last of which has none; links in a    *)
(* chain, back to where they came from, or all from the first document.    *)
(***************************************************************************)
EXTENDS Traversal

Smaller(a, b) == IF a < b THEN a ELSE b

Web(pairs) == {[from |-> p[1], title |-> "t", to |-> p[2]] : p \in pairs}
Webs ==
  { Web({<<1, 2>>, <<2, 3>>}),
    Web({<<1, 2>>, <<2, 1>>, <<2, 3>>, <<3, 1>>}),
    Web({<<1, 1>>, <<1, 2>>, <<1, 3>>, <<1, 4>>}) \cup {[from |-> 1, title |-> "u", to |-> 3]},
    Web({<<1, 4>>, <<2, 4>>, <<2, 3>>}) }

Budget(s, a, c, b) == [max_steps |-> s, max_articles |-> a, max_chunks |-> c, max_bytes |-> b]
Budgets ==
  { Budget(9, 6, 9, 20), Budget(9, 3, 9, 20), Budget(9, 8, 9, 20), Budget(4, 8, 9, 20),
    Budget(9, 8, 3, 20), Budget(9, 8, 9, 6), Budget(1, 1, 2, 4) }

MCQuestions ==
  { [chunks |-> 1 .. 6, doc |-> <<1, 1, 2, 2, 3, 3>>, size |-> <<2, 1, 3, 1, 2, 1>>,
     hits |-> SubSeq(hits, 1, Smaller(Len(hits), budget.max_chunks)),
     mentions |-> mentions, supports |-> supports, entities |-> entities, links |-> web,
     max_steps |-> budget.max_steps, max_articles |-> budget.max_articles,
     max_chunks |-> budget.max_chunks, max_bytes |-> budget.max_bytes] :
      hits \in {<<>>, <<2>>, <<2, 4, 1>>}, web \in Webs, budget \in Budgets,
      mentions \in {{}, {4}, {6}}, supports \in {{}, {2}}, entities \in BOOLEAN }
=============================================================================
