------------------------------ MODULE MCSearch ------------------------------
(***************************************************************************)
(* Graphs of six states: 1 leads to 2 and 3, those to subsets of 4 and 5,  *)
(* and 4 to 6.  States 5 and 6 may be terminal; keys may be shared between *)
(* siblings or across depths.                                              *)
(***************************************************************************)
EXTENDS Search

Six == 1 .. 6
Verdicts ==   \* terminal, verified and correct for 5 and for 6
  { <<"none", FALSE, FALSE>>, <<"ABSTAIN", FALSE, FALSE>>, <<"ANSWER", FALSE, TRUE>>,
    <<"ANSWER", TRUE, TRUE>>, <<"ANSWER", TRUE, FALSE>> }
Aliases == {{}, {2, 3}, {3, 4}, {4, 5}, {5, 6}}

Problem(c2, c3, alias, v5, v6, reversed, config) ==
  [initial |-> 1, states |-> Six,
   children |-> <<IF reversed THEN <<3, 2>> ELSE <<2, 3>>, c2, c3, <<6>>, <<>>, <<>>>>,
   key |-> [s \in Six |-> IF s \in alias THEN 0 ELSE s],
   answer |-> [s \in Six |-> 0],
   priority |-> [s \in Six |-> IF reversed THEN 6 - s ELSE s],
   order |-> [s \in Six |-> s],
   terminal |-> <<"none", "none", "none", "none", v5[1], v6[1]>>,
   verified |-> <<FALSE, FALSE, FALSE, FALSE, v5[2], v6[2]>>,
   correct |-> <<FALSE, FALSE, FALSE, FALSE, v5[3], v6[3]>>,
   possible |-> config.possible, gold |-> config.gold, kind |-> config.kind,
   max_depth |-> config.depth, max_expansions |-> config.expansions,
   beam_width |-> config.width, max_terminal_candidates |-> config.terminals]

Config(kind, depth, expanded, width, terms, gold) ==
  [kind |-> kind, depth |-> depth, expansions |-> expanded, width |-> width,
   terminals |-> terms, gold |-> gold, possible |-> TRUE]

Configs ==
  { Config("best_first", d, e, 1, t, g) :
      d \in {1, 3}, e \in {2, 9}, t \in {1, 9}, g \in BOOLEAN }
  \cup { Config("beam", d, e, w, t, g) :
      d \in {1, 3}, e \in {2, 9}, w \in 1 .. 2, t \in {1, 9}, g \in BOOLEAN }
  \cup { [Config("beam", 1, 1, 1, 1, FALSE) EXCEPT !.possible = FALSE] }

MCProblems ==
  { Problem(c2, c3, alias, v5, v6, reversed, config) :
      c2 \in {<<5, 4>>}, c3 \in {<<>>, <<4, 5>>}, alias \in Aliases,
      v5 \in Verdicts, v6 \in {<<"none", FALSE, FALSE>>, <<"ANSWER", TRUE, TRUE>>}, reversed \in BOOLEAN, config \in Configs }
=============================================================================
