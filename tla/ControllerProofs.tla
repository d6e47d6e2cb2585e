--------------------------- MODULE ControllerProofs ---------------------------
(***************************************************************************)
(* The structured controller: the searches over abstract states, the       *)
(* machine that works an episode one operation at a time, and the fuzzy    *)
(* address index, whose lookups the union of all channels puts together.   *)
(***************************************************************************)
EXTENDS Search, MicroOps, FuzzyAddress, FiniteSetTheorems, SequenceTheorems, Inductions

----------------------------------------------------------------------------
(* Search.                                                                  *)
(* For every graph and every configuration: what an exhausted result        *)
(* means, and that a verified answer once reached is selected.              *)

Node == [state : problem.states, depth : Nat, serial : Nat]

SearchTypes ==
  /\ problem \in Problems
  /\ open \subseteq Node /\ candidates \subseteq Node /\ visited \subseteq Node
  /\ terminals \in Seq(Node)
  /\ serial \in Nat

(* A key is covered when a node with it was visited or still waits.         *)
CoveredKey(k) ==
  k \in VisitedKeys \/ \E n \in open \cup candidates : Key(n) = k
Followed(n) ==
  \/ IsTerminal(n)
  \/ BestFirst /\ n.depth >= problem.max_depth
  \/ \A i \in 1 .. Len(problem.children[n.state]) :
        CoveredKey(problem.key[problem.children[n.state][i]])

Frontier ==
  /\ phase # "searching" => candidates = {}
  /\ BestFirst \/ ~problem.possible => candidates = {}
  /\ phase = "returned" /\ exhausted => open = {}
  /\ ~cut /\ problem.possible =>
       /\ CoveredKey(problem.key[problem.initial])
       /\ \A n \in visited : Followed(n)

(* A verified answer among the visited is among the terminals.              *)
AnswersRecorded ==
  /\ \A n \in visited : Answers(n) =>
       \E i \in 1 .. Len(terminals) : Answers(terminals[i])
  /\ BestFirst => Len(terminals) <= problem.max_terminal_candidates

SearchInv == SearchTypes /\ Frontier

(* The nodes made of the children of a state are nodes.                     *)
LEMMA NodesOfChildren ==
  ASSUME SearchTypes, NEW n \in Node
  PROVE  /\ ChildrenOf(n) \subseteq Node
         /\ \A i \in 1 .. Len(problem.children[n.state]) :
              \E m \in ChildrenOf(n) :
                 Key(m) = problem.key[problem.children[n.state][i]]
<1> DEFINE row == problem.children[n.state]
<1>1. row \in Seq(problem.states)
  BY SearchAssumption DEF SearchTypes, IsProblem, Node
<1>2. ASSUME NEW i \in 1 .. Len(row)
      PROVE  /\ NodeOf(row[i], n.depth + 1, serial + i) \in Node
             /\ NodeOf(row[i], n.depth + 1, serial + i) \in ChildrenOf(n)
             /\ Key(NodeOf(row[i], n.depth + 1, serial + i)) = problem.key[row[i]]
  <2>1. row[i] \in problem.states
    BY <1>1
  <2>2. n.depth + 1 \in Nat /\ serial + i \in Nat
    BY <1>1 DEF SearchTypes, Node
  <2>3. QED
    BY <2>1, <2>2 DEF NodeOf, Node, ChildrenOf, Key
<1>3. ChildrenOf(n) \subseteq Node
  BY <1>2 DEF ChildrenOf
<1>4. QED
  BY <1>2, <1>3

(* A search starts with typed fields.                                       *)
LEMMA TypesInitially == SearchInit => SearchTypes
BY SearchAssumption
   DEF SearchInit, SearchStart, SearchTypes, NodeOf, Node, IsProblem

(* Every step of a search keeps the fields typed.                           *)
LEMMA TypesKept == SearchTypes /\ [SearchNext]_searchVars => SearchTypes'
<1> SUFFICES ASSUME SearchTypes, [SearchNext]_searchVars PROVE SearchTypes'
  OBVIOUS
<1> USE DEF SearchTypes
<1>1. ASSUME NEW n \in open, DropVisited(n) PROVE SearchTypes'
  BY <1>1 DEF DropVisited, Node
<1>2. ASSUME NEW n \in open, VisitTerminal(n) PROVE SearchTypes'
  <2>1. Node' = Node
    BY <1>2 DEF VisitTerminal, Node
  <2>2. terminals' = terminals \/ terminals' = Append(terminals, n)
    BY <1>2 DEF VisitTerminal
  <2>3. terminals' \in Seq(Node)
    <3> HIDE DEF Node
    <3> QED BY <2>2
  <2>4. /\ problem' = problem /\ open' \subseteq open /\ candidates' = candidates
        /\ visited' = visited \cup {n} /\ serial' = serial
    BY <1>2 DEF VisitTerminal
  <2>5. QED
    BY <2>1, <2>3, <2>4
<1>3. ASSUME NEW n \in open, VisitDeepest(n) PROVE SearchTypes'
  BY <1>3 DEF VisitDeepest, Node
<1>4. ASSUME NEW n \in open, Expand(n) PROVE SearchTypes'
  <2>1. ChildrenOf(n) \subseteq Node
    BY NodesOfChildren
  <2>2. n \in Node /\ Len(problem.children[n.state]) \in Nat
    BY SearchAssumption DEF IsProblem, Node
  <2>3. problem' = problem /\ terminals' = terminals /\ visited' = visited \cup {n}
    BY <1>4 DEF Expand
  <2>4. open' \subseteq Node /\ candidates' \subseteq Node /\ serial' \in Nat
    BY <1>4, <2>1, <2>2 DEF Expand, Grow
  <2>5. QED
    BY <2>2, <2>3, <2>4 DEF Node
<1>5. ASSUME NEW n \in open, LeaveLevel(n) PROVE SearchTypes'
  BY <1>5 DEF LeaveLevel, Node
<1>6. CASE EndLevel
  BY <1>6 DEF EndLevel, Best, Node
<1>7. CASE EndLoop
  BY <1>7 DEF EndLoop, Node
<1>8. CASE ReturnResult
  BY <1>8 DEF ReturnResult, Node
<1>9. CASE UNCHANGED searchVars
  BY <1>9 DEF searchVars, Node
<1>10. QED
  BY <1>1, <1>2, <1>3, <1>4, <1>5, <1>6, <1>7, <1>8, <1>9
     DEF SearchNext, AfterReturn

(* Coverage survives a step that keeps the visited nodes and, of each       *)
(* waiting node, the node or its key.                                       *)
LEMMA CoverageKept ==
  ASSUME problem' = problem, visited \subseteq visited',
         \A n \in open \cup candidates :
            n \in open' \cup candidates' \/ \E m \in visited' : Key(m) = Key(n)
  PROVE  /\ \A k : CoveredKey(k) => CoveredKey(k)'
         /\ \A n : Followed(n) => Followed(n)'
<1>1. ASSUME NEW k, CoveredKey(k) PROVE CoveredKey(k)'
  BY <1>1 DEF CoveredKey, VisitedKeys, Key
<1>2. QED
  BY <1>1 DEF Followed, IsTerminal, BestFirst

(* A search starts with the key of its start node open.                     *)
LEMMA FrontierInitially == SearchInit => Frontier
BY DEF SearchInit, SearchStart, Frontier, CoveredKey, Key, NodeOf

(* Every step keeps each key that follows from an expanded node covered.    *)
LEMMA FrontierKept ==
  SearchTypes /\ Frontier /\ [SearchNext]_searchVars => Frontier'
<1> SUFFICES ASSUME SearchTypes, Frontier, [SearchNext]_searchVars PROVE Frontier'
  OBVIOUS
<1>1. ASSUME NEW n \in open, DropVisited(n) PROVE Frontier'
  <2>1. /\ \A k : CoveredKey(k) => CoveredKey(k)'
        /\ \A m : Followed(m) => Followed(m)'
    BY <1>1, CoverageKept DEF DropVisited, VisitedKeys
  <2>2. QED
    BY <1>1, <2>1 DEF DropVisited, Popped, Looping, Frontier, BestFirst
<1>2. ASSUME NEW n \in open, VisitTerminal(n) PROVE Frontier'
  <2>1. /\ \A k : CoveredKey(k) => CoveredKey(k)'
        /\ \A m : Followed(m) => Followed(m)'
    BY <1>2, CoverageKept DEF VisitTerminal
  <2>2. Followed(n)'
    BY <1>2 DEF VisitTerminal, Followed, IsTerminal
  <2>3. QED
    BY <1>2, <2>1, <2>2 DEF VisitTerminal, Popped, Looping, Frontier, BestFirst
<1>3. ASSUME NEW n \in open, VisitDeepest(n) PROVE Frontier'
  <2>1. /\ \A k : CoveredKey(k) => CoveredKey(k)'
        /\ \A m : Followed(m) => Followed(m)'
    BY <1>3, CoverageKept DEF VisitDeepest
  <2>2. Followed(n)'
    BY <1>3 DEF VisitDeepest, Followed, BestFirst
  <2>3. QED
    BY <1>3, <2>1, <2>2 DEF VisitDeepest, Popped, Looping, Frontier, BestFirst
<1>4. ASSUME NEW n \in open, Expand(n) PROVE Frontier'
  <2>1. /\ \A k : CoveredKey(k) => CoveredKey(k)'
        /\ \A m : Followed(m) => Followed(m)'
    BY <1>4, CoverageKept DEF Expand, Grow
  <2>2. ChildrenOf(n) \subseteq open' \cup candidates' /\ problem' = problem
    BY <1>4 DEF Expand, Grow
  <2>3. \A i \in 1 .. Len(problem.children[n.state]) :
           \E m \in ChildrenOf(n) :
              Key(m) = problem.key[problem.children[n.state][i]]
    BY NodesOfChildren DEF SearchTypes
  <2>4. Followed(n)'
    BY <2>2, <2>3 DEF Followed, CoveredKey, Key
  <2>5. /\ phase = "searching" /\ phase' = "searching" /\ cut' = cut
        /\ visited' = visited \cup {n} /\ (BestFirst => candidates' = candidates)
        /\ problem.possible
    BY <1>4 DEF Expand, Grow, Popped, Looping
  <2>6. QED
    BY <2>1, <2>2, <2>4, <2>5 DEF Frontier, BestFirst
<1>5. ASSUME NEW n \in open, LeaveLevel(n) PROVE Frontier'
  BY <1>5 DEF LeaveLevel, Frontier, Beam, BestFirst, Popped, Looping
<1>6. CASE EndLevel
  <2>1. /\ problem' = problem /\ visited' = visited /\ candidates' = {} /\ open = {}
        /\ phase = "searching" /\ phase' \in {"ended", "searching"}
        /\ (~cut' => ~cut /\ open' = candidates)
    BY <1>6 DEF EndLevel
  <2>2. ~cut' => /\ \A k : CoveredKey(k) => CoveredKey(k)'
                 /\ \A m : Followed(m) => Followed(m)'
    BY <2>1, CoverageKept
  <2>3. QED
    BY <2>1, <2>2 DEF Frontier, BestFirst
<1>7. CASE EndLoop
  <2>1. /\ problem' = problem /\ visited' = visited /\ candidates' = candidates
        /\ phase' = "ended" /\ cut' = cut
        /\ (problem.possible => BestFirst /\ open' = open)
    BY <1>7 DEF EndLoop
  <2>2. problem.possible => /\ \A k : CoveredKey(k) => CoveredKey(k)'
                            /\ \A m : Followed(m) => Followed(m)'
    BY <2>1, CoverageKept
  <2>3. QED
    BY <2>1, <2>2 DEF Frontier, BestFirst
<1>8. CASE ReturnResult
  <2>1. /\ problem' = problem /\ visited' = visited /\ candidates' = candidates
        /\ open' = open /\ phase = "ended" /\ cut' = cut /\ exhausted' = (open = {})
    BY <1>8 DEF ReturnResult
  <2>2. /\ \A k : CoveredKey(k) => CoveredKey(k)'
        /\ \A m : Followed(m) => Followed(m)'
    BY <2>1, CoverageKept
  <2>3. QED
    BY <2>1, <2>2 DEF Frontier, BestFirst
<1>9. CASE UNCHANGED searchVars
  BY <1>9 DEF searchVars, Frontier, CoveredKey, Followed, VisitedKeys, Key, IsTerminal,
              BestFirst
<1>10. QED
  BY <1>1, <1>2, <1>3, <1>4, <1>5, <1>6, <1>7, <1>8, <1>9
     DEF SearchNext, AfterReturn

(* The inductive invariant of the searches: the types, and that what was    *)
(* visited leads only to keys that were visited or wait in the heap, the    *)
(* beam's level or its candidates.                                          *)
THEOREM SearchInvariant == SearchSpec => []SearchInv
<1>1. SearchInit => SearchInv
  BY TypesInitially, FrontierInitially DEF SearchInv
<1>2. SearchInv /\ [SearchNext]_searchVars => SearchInv'
  BY TypesKept, FrontierKept DEF SearchInv
<1>3. QED
  BY <1>1, <1>2, PTL DEF SearchSpec

(* An exhausted search that dropped no nodes followed every visited state   *)
(* to keys it visited too: nothing within its depth is left to look at.     *)
THEOREM ExhaustedSearchIsClosed == SearchSpec => []ExhaustedMeansClosed
<1>1. SearchInv => ExhaustedMeansClosed
  <2> SUFFICES ASSUME SearchInv, phase = "returned", exhausted, ~cut, problem.possible
               PROVE  /\ problem.key[problem.initial] \in VisitedKeys
                      /\ \A n \in visited : Closed(n)
    BY DEF ExhaustedMeansClosed
  <2>1. open = {} /\ candidates = {}
    BY DEF SearchInv, Frontier
  <2>2. \A k : CoveredKey(k) => k \in VisitedKeys
    BY <2>1 DEF CoveredKey
  <2>3. \A n \in visited : Followed(n)
    BY DEF SearchInv, Frontier
  <2>4. QED
    BY <2>2, <2>3 DEF SearchInv, Frontier, Followed, Closed
<1>2. QED
  BY <1>1, SearchInvariant, PTL

(* A search starts without an answer.                                       *)
LEMMA AnswersRecordedInitially == SearchInit => AnswersRecorded
BY SearchAssumption DEF SearchInit, SearchStart, AnswersRecorded, IsProblem

(* A step that records nothing and visits no answer.                        *)
LEMMA NoAnswerStep ==
  ASSUME AnswersRecorded, problem' = problem, terminals' = terminals,
         \A n \in visited' : n \in visited \/ ~IsTerminal(n)
  PROVE  AnswersRecorded'
<1>1. \A n \in visited' : Answers(n)' => n \in visited /\ Answers(n)
  BY DEF Answers, IsTerminal
<1>2. \A i \in 1 .. Len(terminals) : Answers(terminals[i]) => Answers(terminals[i])'
  BY DEF Answers
<1>3. QED
  BY <1>1, <1>2 DEF AnswersRecorded, BestFirst

(* Every step records the verified answers it reaches.                      *)
LEMMA AnswersRecordedKept ==
  SearchTypes /\ AnswersRecorded /\ [SearchNext]_searchVars => AnswersRecorded'
<1> SUFFICES ASSUME SearchTypes, AnswersRecorded, [SearchNext]_searchVars
             PROVE  AnswersRecorded'
  OBVIOUS
<1>1. ASSUME NEW n \in open, VisitTerminal(n) PROVE AnswersRecorded'
  <2>1. problem' = problem /\ visited' = visited \cup {n}
    BY <1>1 DEF VisitTerminal
  <2>2. \A m : Answers(m)' <=> Answers(m)
    BY <2>1 DEF Answers
  <2>3. terminals \in Seq(Node) /\ n \in Node
    BY DEF SearchTypes
  <2>4. CASE terminals' = Append(terminals, n)
    <3>1. /\ Len(terminals') = Len(terminals) + 1
          /\ terminals'[Len(terminals) + 1] = n
          /\ \A i \in 1 .. Len(terminals) : terminals'[i] = terminals[i]
      BY <2>3, <2>4
    <3>2. Len(terminals) \in Nat
      BY <2>3
    <3>3. BestFirst => Len(terminals') <= problem.max_terminal_candidates
      BY <1>1, <3>1, <3>2, SearchAssumption
         DEF VisitTerminal, Popped, Looping, SearchTypes, IsProblem
    <3>4. \A m \in visited' : Answers(m) =>
            \E i \in 1 .. Len(terminals') : Answers(terminals'[i])
      BY <2>1, <3>1, <3>2 DEF AnswersRecorded
    <3>5. QED
      BY <2>1, <2>2, <3>3, <3>4 DEF AnswersRecorded, BestFirst
  <2>5. CASE /\ terminals' = terminals
             /\ \E i \in 1 .. Len(terminals) : SameTerminal(terminals[i], n)
    <3>1. Answers(n) => \E i \in 1 .. Len(terminals) : Answers(terminals[i])
      BY <2>5 DEF SameTerminal, Answers
    <3>2. \A m \in visited' : Answers(m) =>
            \E i \in 1 .. Len(terminals') : Answers(terminals'[i])
      BY <2>1, <2>5, <3>1 DEF AnswersRecorded
    <3>3. QED
      BY <2>1, <2>2, <2>5, <3>2 DEF AnswersRecorded, BestFirst
  <2>6. QED
    BY <1>1, <2>4, <2>5 DEF VisitTerminal
<1>2. ASSUME NEW n \in open,
             DropVisited(n) \/ VisitDeepest(n) \/ Expand(n) \/ LeaveLevel(n)
      PROVE  AnswersRecorded'
  <2>1. /\ problem' = problem /\ terminals' = terminals
        /\ \A m \in visited' : m \in visited \/ ~IsTerminal(m)
    BY <1>2 DEF DropVisited, VisitDeepest, Expand, LeaveLevel
  <2>2. QED
    BY <2>1, NoAnswerStep
<1>3. CASE EndLevel \/ EndLoop \/ ReturnResult \/ UNCHANGED searchVars
  <2>1. problem' = problem /\ terminals' = terminals /\ visited' = visited
    BY <1>3 DEF EndLevel, EndLoop, ReturnResult, searchVars
  <2>2. QED
    BY <2>1, NoAnswerStep
<1>4. QED
  BY <1>1, <1>2, <1>3 DEF SearchNext, AfterReturn

(* What a result selects is among the terminals; it finds one when an answer *)
(* was recorded and none is cut off.                                        *)
SelectionRight ==
  phase = "returned" =>
     /\ selected # NoNode => Answers(selected)
     /\ (\E i \in 1 .. Len(terminals) : Answers(terminals[i]))
          /\ Len(terminals) <= problem.max_terminal_candidates => selected # NoNode

(* Every step keeps the selection the best of the recorded answers.         *)
LEMMA TerminalSelectionKept ==
  SearchTypes /\ SelectionRight /\ [SearchNext]_searchVars => SelectionRight'
<1> SUFFICES ASSUME SearchTypes, SelectionRight, [SearchNext]_searchVars,
                    phase' = "returned"
             PROVE  SelectionRight'
  BY DEF SelectionRight
<1> DEFINE eligible == {n \in {Returned[i] : i \in 1 .. Len(Returned)} : Answers(n)}
<1>1. CASE ReturnResult
  <2>1. problem' = problem /\ terminals' = terminals
    BY <1>1 DEF ReturnResult
  <2>2. \A m : Answers(m)' <=> Answers(m)
    BY <2>1 DEF Answers
  <2>3. \/ eligible = {} /\ selected' = NoNode
        \/ \E n \in eligible : selected' = n
    BY <1>1 DEF ReturnResult
  <2>4. selected' # NoNode => Answers(selected')
    BY <2>3
  <2>5. ASSUME NEW i \in 1 .. Len(terminals), Answers(terminals[i]),
               Len(terminals) <= problem.max_terminal_candidates
        PROVE  selected' # NoNode
    <3>1. terminals \in Seq(Node)
      BY DEF SearchTypes
    <3>2. Returned = SubSeq(terminals, 1, Len(terminals))
      BY <2>5 DEF Returned
    <3>3. Len(Returned) = Len(terminals) /\ \A k \in 1 .. Len(terminals) :
                                               Returned[k] = terminals[k]
      BY <3>1, <3>2
    <3>4. eligible # {}
      BY <2>5, <3>3
    <3>5. \A n \in eligible : n \in Node
      <4>1. Len(Returned) <= Len(terminals)
        BY <3>3, <3>1
      <4>2. QED
        BY <3>1, <3>3
    <3>6. NoNode \notin Node
      BY SearchAssumption DEF SearchTypes, Node
    <3>7. QED
      BY <2>3, <3>4, <3>5, <3>6
  <2>6. QED
    BY <2>1, <2>2, <2>4, <2>5 DEF SelectionRight
<1>2. CASE UNCHANGED searchVars
  BY <1>2 DEF SelectionRight, searchVars, Answers
<1>3. QED
  BY <1>1, <1>2 DEF SearchNext, AfterReturn, DropVisited, VisitTerminal, VisitDeepest,
     Expand, LeaveLevel, EndLevel, EndLoop, Popped, Looping

(* A verified answer a search reached is selected, unless the beam's list   *)
(* of terminals is cut in front of it.                                      *)
THEOREM ReachedAnswerIsSelected == SearchSpec => []ReachedAnswerSelected
<1>1. SearchInit => AnswersRecorded /\ SelectionRight
  BY AnswersRecordedInitially DEF SelectionRight, SearchInit, SearchStart
<1>2. SearchInv /\ AnswersRecorded /\ SelectionRight /\ [SearchNext]_searchVars
        => AnswersRecorded' /\ SelectionRight'
  BY AnswersRecordedKept, TerminalSelectionKept DEF SearchInv
<1>3. SearchInv /\ AnswersRecorded /\ SelectionRight => ReachedAnswerSelected
  <2> SUFFICES ASSUME SearchInv, AnswersRecorded, SelectionRight, phase = "returned",
                      NEW n \in visited, Answers(n), selected = NoNode
               PROVE  Beam /\ Len(terminals) > problem.max_terminal_candidates
    BY DEF ReachedAnswerSelected, SelectionRight
  <2>1. ~(Len(terminals) <= problem.max_terminal_candidates)
    BY DEF AnswersRecorded, SelectionRight
  <2>2. IsProblem(problem)
    BY SearchAssumption DEF SearchInv, SearchTypes
  <2>3. Len(terminals) \in Nat
    BY DEF SearchInv, SearchTypes
  <2>4. QED
    BY <2>1, <2>2, <2>3 DEF AnswersRecorded, BestFirst, Beam, IsProblem
<1>4. QED
  BY <1>1, <1>2, <1>3, SearchInvariant, PTL DEF SearchSpec

----------------------------------------------------------------------------
(* Micro-operations.                                                        *)
(* For every task and every choice from the menu: what is planned was       *)
(* selected and verified, what is answered is supported, what is refused    *)
(* is refused for a reason the menu does not look at, and an episode only   *)
(* gets stuck after it committed to a selection.                            *)

Directions == {"<", "=", ">"}
StateType ==
  [active : SUBSET AllClaims, selected : Seq(AllClaims), rejected : SUBSET AllClaims,
   bound : Seq(AllClaims), derived : Directions \cup {"none", "count"},
   plan : Seq(AllClaims), verified : BOOLEAN, terminal : Terminal \cup {NoValue},
   answer : Seq(AllClaims), counts : [Op -> Nat], total_actions : Nat]
MachineTypes == case \in Cases /\ state \in StateType /\ raised \in BOOLEAN

OneToOne(p) == \A i, j \in 1 .. Len(p) : p[i] = p[j] => i = j

(* How many claims the shape of the answer has room for.                    *)
Room == CASE case.shape = "list" -> case.target
          [] case.shape = "comparison" -> 2
          [] OTHER -> 1

SelectionInv(s) ==
  /\ OneToOne(s.selected) /\ Len(s.selected) <= Room
  /\ \A c \in Elements(s.selected) : c \in s.active /\ Eligible(c)
  /\ case.shape = "list" => LineagesDiffer(s.selected)
  /\ s.rejected \cap s.active = {}
  /\ s.counts["ENUMERATE_CLAIMS"] = 0 => s.active = {} /\ s.rejected = {}

(* What is bound was selected; a comparison binds all it selected at once.  *)
BoundInv(s) ==
  /\ OneToOne(s.bound) /\ Elements(s.bound) \subseteq Elements(s.selected)
  /\ case.shape = "direct" => s.bound = <<>>
  /\ case.shape = "comparison" /\ s.bound # <<>> => s.bound = s.selected /\ Len(s.bound) = 2
  /\ s.counts["BIND_LIST_SLOT"] <= Len(s.bound)
  /\ s.counts["PAIR_COMPARISON_VALUES"] > 0 => s.bound # <<>>

(* The derived direction is that of the numbers bound.                      *)
DerivedInv(s) ==
  /\ s.derived \in Directions =>
       /\ case.shape = "comparison" /\ s.bound # <<>>
       /\ s.derived = Direction(Data(s.bound[1]).number, Data(s.bound[2]).number)
  /\ s.counts["COMPARE_VALUES"] > 0 => s.derived # "none"

PlanInv(s) ==
  /\ s.plan # <<>> =>
       IF Composed THEN s.plan = s.bound ELSE s.plan = SubSeq(s.selected, 1, 1)
  /\ s.plan # <<>> /\ case.shape = "comparison" => s.derived # "none"
  /\ s.plan # <<>> => s.selected # <<>>
  /\ s.plan = <<>> => \A op \in {"BUILD_DIRECT_PLAN", "BUILD_LIST_PLAN", "BUILD_COMPARISON_PLAN"} :
                        s.counts[op] = 0

(* The verifier ran at most once, on the plan and direction there are now.  *)
VerdictInv(s) ==
  /\ s.counts["VERIFY_PLAN"] <= 1
  /\ s.counts["VERIFY_PLAN"] = 1 =>
       s.plan # <<>> /\ s.verified = Verifies(s.plan, s.derived)
  /\ s.counts["VERIFY_PLAN"] = 0 => ~s.verified
  /\ s.terminal = "ANSWER" => s.verified /\ s.answer = s.plan
  /\ s.terminal = NoValue => \A op \in Terminal : s.counts[op] = 0

MachineInv ==
  /\ MachineTypes
  /\ SelectionInv(state) /\ BoundInv(state) /\ DerivedInv(state)
  /\ PlanInv(state) /\ VerdictInv(state)

----------------------------------------------------------------------------
(* Tasks, states and the menu                                               *)

(* What a task holds.                                                       *)
LEMMA TaskFields ==
  ASSUME MachineTypes
  PROVE  /\ case.shape \in {"direct", "list", "comparison"} /\ case.target \in 2 .. 6
         /\ "ABSTAIN" \in case.refusals
         /\ \A c \in AllClaims : Data(c) \in ClaimType
         /\ Room \in 1 .. 6
<1>1. case \in CaseType([DOMAIN case.claims -> ClaimType]) /\ "ABSTAIN" \in case.refusals
  BY CaseAssumption DEF MachineTypes
<1>2. /\ case.shape \in {"direct", "list", "comparison"} /\ case.target \in 2 .. 6
      /\ case.claims \in [DOMAIN case.claims -> ClaimType]
  BY <1>1 DEF CaseType
<1>3. QED BY <1>1, <1>2 DEF AllClaims, Data, Room

(* Counting an operation changes its count and the total only.              *)
LEMMA CountedFields ==
  ASSUME MachineTypes, NEW op \in Op
  PROVE  LET a == ApplyCount(op)
         IN /\ a \in StateType
            /\ a.active = state.active /\ a.selected = state.selected
            /\ a.rejected = state.rejected /\ a.bound = state.bound
            /\ a.derived = state.derived /\ a.plan = state.plan
            /\ a.verified = state.verified /\ a.terminal = state.terminal
            /\ a.answer = state.answer
            /\ a.counts[op] = state.counts[op] + 1
            /\ \A o \in Op \ {op} : a.counts[o] = state.counts[o]
<1>1. state \in StateType
  BY DEF MachineTypes
<1>2. state.counts \in [Op -> Nat]
  BY <1>1 DEF StateType
<1> DEFINE n == [state.counts EXCEPT ![op] = state.counts[op] + 1]
           a == [state EXCEPT !.counts = n, !.total_actions = @ + 1]
<1>3. /\ n \in [Op -> Nat] /\ n[op] = state.counts[op] + 1
      /\ \A o \in Op \ {op} : n[o] = state.counts[o]
  BY <1>2
<1>4. ApplyCount(op) = a
  BY DEF ApplyCount
<1> HIDE DEF n
<1>5. /\ a \in StateType /\ a.counts = n
      /\ a.active = state.active /\ a.selected = state.selected
      /\ a.rejected = state.rejected /\ a.bound = state.bound
      /\ a.derived = state.derived /\ a.plan = state.plan
      /\ a.verified = state.verified /\ a.terminal = state.terminal
      /\ a.answer = state.answer
  <2>1. a \in StateType
    <3>1. state.total_actions + 1 \in Nat
      BY <1>1 DEF StateType
    <3>2. QED BY <1>1, <1>3, <3>1 DEF StateType
  <2>2. a.verified = state.verified
    BY <1>1, Zenon DEF StateType
  <2>3. QED BY <1>1, <2>1, <2>2 DEF StateType
<1>6. QED BY <1>3, <1>4, <1>5

Committing == {"SELECT_CLAIM", "BIND_LIST_SLOT", "PAIR_COMPARISON_VALUES", "COMPARE_VALUES",
               "BUILD_DIRECT_PLAN", "BUILD_LIST_PLAN", "BUILD_COMPARISON_PLAN"}
Free == Op \ (Committing \cup {"VERIFY_PLAN", "ANSWER"})

(* What the menu says of the state an operation runs in: a verified plan is *)
(* only answered, another plan is only verified, and with a selection only  *)
(* the next step to its plan runs.                                          *)
LEMMA OnMenuOnly ==
  ASSUME MachineInv, NEW op \in Op, OnMenu(op)
  PROVE  /\ state.terminal = NoValue /\ state.counts[op] < RepeatLimit(op) /\ Precondition(op)
         /\ op # "ANSWER" => ~state.verified
         /\ op \notin {"ANSWER", "VERIFY_PLAN"} =>
              state.plan = <<>> /\ (state.selected # <<>> => Committed(op))
         /\ op \in Free => state.selected = <<>> /\ state.bound = <<>>
<1>1. /\ state.terminal = NoValue /\ state.counts[op] < RepeatLimit(op) /\ Precondition(op)
      /\ op # "ANSWER" => ~state.verified
      /\ op \notin {"ANSWER", "VERIFY_PLAN"} =>
           state.plan = <<>> /\ (state.selected # <<>> => Committed(op))
  BY DEF OnMenu, LegalSpec
<1>2. Committed(op) => op \in Committing
  BY TaskFields DEF MachineInv, Committed, Committing, NextForComparison, NextForList
<1>3. ASSUME state.selected = <<>> PROVE state.bound = <<>>
  <2>1. Elements(state.bound) \subseteq Elements(state.selected) /\ state.bound \in Seq(AllClaims)
    BY DEF MachineInv, BoundInv, MachineTypes, StateType
  <2>2. Elements(state.selected) = {}
    BY <1>3 DEF Elements
  <2>3. \A i \in 1 .. Len(state.bound) : FALSE
    BY <2>1, <2>2 DEF Elements
  <2>4. QED BY <2>1, <2>3
<1>4. QED BY <1>1, <1>2, <1>3 DEF Free

(* The invariant of the next state, said with the task of this one.         *)
LEMMA Becoming ==
  ASSUME UNCHANGED case, state' \in StateType, raised' \in BOOLEAN, MachineTypes,
         SelectionInv(state'), BoundInv(state'), DerivedInv(state'), PlanInv(state'),
         VerdictInv(state')
  PROVE  MachineInv'
<1>1. MachineTypes'
  BY DEF MachineTypes, StateType, AllClaims
<1>2. SelectionInv(state)' /\ BoundInv(state)'
  BY DEF SelectionInv, BoundInv, OneToOne, Room, Elements, Eligible, Data, LineagesDiffer
<1>3. DerivedInv(state)' /\ PlanInv(state)'
  BY DEF DerivedInv, PlanInv, Direction, Data, Composed
<1>4. VerdictInv(state)'
  BY DEF VerdictInv, Verifies, Elements, ClaimVerifies, ShapeFits, Composed, Data,
         LineagesDiffer, ComparisonVerifies, Direction
<1>5. QED BY <1>1, <1>2, <1>3, <1>4 DEF MachineInv

----------------------------------------------------------------------------
(* Steps                                                                    *)

(* An episode starts in the invariant.                                      *)
LEMMA MachineStart == MachineInit => MachineInv
<1> SUFFICES ASSUME MachineInit PROVE MachineInv
  OBVIOUS
<1>1. MachineTypes
  <2>1. <<>> \in Seq(AllClaims) /\ {} \in SUBSET AllClaims /\ [op \in Op |-> 0] \in [Op -> Nat]
    OBVIOUS
  <2>2. state_from_workspace \in StateType
    BY <2>1 DEF state_from_workspace, StateType
  <2>3. QED BY <2>2 DEF MachineInit, MachineTypes
<1>2. /\ state.active = {} /\ state.selected = <<>> /\ state.rejected = {} /\ state.bound = <<>>
      /\ state.derived = "none" /\ state.plan = <<>> /\ state.verified = FALSE
      /\ state.terminal = NoValue /\ \A op \in Op : state.counts[op] = 0
  BY DEF MachineInit, state_from_workspace
<1>3. Elements(<<>>) = {} /\ OneToOne(<<>>) /\ LineagesDiffer(<<>>)
  BY DEF Elements, OneToOne, LineagesDiffer
<1>4. {"ENUMERATE_CLAIMS", "BIND_LIST_SLOT", "PAIR_COMPARISON_VALUES", "COMPARE_VALUES",
       "BUILD_DIRECT_PLAN", "BUILD_LIST_PLAN", "BUILD_COMPARISON_PLAN", "VERIFY_PLAN"} \subseteq Op
      /\ Terminal \subseteq Op
  BY DEF Op, Terminal
<1>5. SelectionInv(state)
  BY <1>1, <1>2, <1>3, TaskFields DEF SelectionInv
<1>6. BoundInv(state) /\ DerivedInv(state) /\ PlanInv(state)
  BY <1>2, <1>3, <1>4 DEF BoundInv, DerivedInv, Directions, PlanInv
<1>7. VerdictInv(state)
  <2>1. state.terminal # "ANSWER"
    BY <1>2, CaseAssumption DEF Op
  <2>2. QED BY <1>2, <1>4, <2>1 DEF VerdictInv
<1>8. QED BY <1>1, <1>5, <1>6, <1>7 DEF MachineInv

(* An operation that runs before anything is selected.                      *)
LEMMA FreeStep ==
  ASSUME MachineInv, NEW op \in Free, OnMenu(op), UNCHANGED <<case, raised>>,
         NEW s \in StateType, state' = s,
         s.selected = state.selected, s.bound = state.bound, s.plan = state.plan,
         s.verified = state.verified, s.answer = state.answer,
         s.counts = ApplyCount(op).counts,
         s.derived \in {state.derived, "count"},
         IF op \in Refusals THEN s.terminal = op ELSE s.terminal = state.terminal,
         s.rejected \cap s.active = {},
         s.counts["ENUMERATE_CLAIMS"] = 0 => s.active = {} /\ s.rejected = {}
  PROVE  MachineInv'
<1>1. /\ MachineTypes /\ op \in Op
      /\ s.selected = <<>> /\ s.bound = <<>> /\ s.plan = <<>> /\ ~s.verified
      /\ state.terminal = NoValue
  BY OnMenuOnly DEF MachineInv, Free
<1>2. s.counts[op] = state.counts[op] + 1 /\ \A o \in Op \ {op} : s.counts[o] = state.counts[o]
  BY <1>1, CountedFields
<1>3. Elements(<<>>) = {} /\ OneToOne(<<>>) /\ LineagesDiffer(<<>>) /\ Len(<<>>) = 0
  BY DEF Elements, OneToOne, LineagesDiffer
<1>4. {"BIND_LIST_SLOT", "PAIR_COMPARISON_VALUES", "COMPARE_VALUES",
       "BUILD_DIRECT_PLAN", "BUILD_LIST_PLAN", "BUILD_COMPARISON_PLAN", "VERIFY_PLAN", "ANSWER"}
        \subseteq Op \ {op}
      /\ Terminal \subseteq Op
  BY DEF Op, Terminal, Free, Committing
<1>5. SelectionInv(s)
  BY <1>1, <1>3, TaskFields DEF SelectionInv
<1>6. BoundInv(s)
  BY <1>1, <1>2, <1>3, <1>4 DEF BoundInv, MachineInv
<1>7. DerivedInv(s)
  <2>1. s.derived \notin Directions
    BY <1>1 DEF MachineInv, DerivedInv, Directions
  <2>2. s.counts["COMPARE_VALUES"] > 0 => s.derived # "none"
    BY <1>2, <1>4 DEF MachineInv, DerivedInv
  <2>3. QED BY <2>1, <2>2 DEF DerivedInv
<1>8. PlanInv(s)
  BY <1>1, <1>2, <1>4 DEF MachineInv, PlanInv
<1>9. VerdictInv(s)
  <2>1. s.counts["VERIFY_PLAN"] = state.counts["VERIFY_PLAN"] /\ state.counts["VERIFY_PLAN"] # 1
    BY <1>1, <1>2, <1>4 DEF MachineInv, VerdictInv
  <2>2. s.terminal = NoValue => \A o \in Terminal : s.counts[o] = 0
    <3>1. ASSUME s.terminal = NoValue PROVE op \notin Terminal
      BY <3>1, <1>4, CaseAssumption DEF Terminal, Free, Op
    <3>2. QED BY <1>1, <1>2, <1>4, <3>1 DEF MachineInv, VerdictInv
  <2>3. s.terminal # "ANSWER"
    BY <1>1, <1>4, CaseAssumption DEF Refusals, Op
  <2>4. QED BY <1>1, <2>1, <2>2, <2>3 DEF MachineInv, VerdictInv
<1>10. QED BY <1>1, <1>5, <1>6, <1>7, <1>8, <1>9, Becoming DEF MachineTypes

(* What runs before anything is selected and leaves some of the claims.     *)
LEMMA NarrowStep ==
  ASSUME MachineInv, NEW op \in Free \ (Refusals \cup {"ENUMERATE_CLAIMS"}), Take(op),
         NEW X, X \subseteq state.active, Becomes([ApplyCount(op) EXCEPT !.active = X])
  PROVE  MachineInv'
<1> DEFINE a == ApplyCount(op)
           s == [a EXCEPT !.active = X]
<1>1. MachineTypes /\ op \in Op /\ op \in Free /\ op \notin Refusals /\ OnMenu(op)
      /\ UNCHANGED <<case, raised>> /\ state' = s
  BY DEF MachineInv, Free, Take, Becomes
<1>2. /\ a \in StateType /\ a.selected = state.selected
      /\ a.rejected = state.rejected /\ a.bound = state.bound
      /\ a.derived = state.derived /\ a.plan = state.plan
      /\ a.verified = state.verified /\ a.terminal = state.terminal
      /\ a.answer = state.answer
      /\ a.counts["ENUMERATE_CLAIMS"] = state.counts["ENUMERATE_CLAIMS"]
  <2>1. "ENUMERATE_CLAIMS" \in Op \ {op}
    BY DEF Op
  <2>2. QED BY <1>1, <2>1, CountedFields
<1>3. state.active \subseteq AllClaims
  BY <1>1 DEF MachineTypes, StateType
<1> HIDE DEF a
<1>4. /\ s \in StateType /\ s.active = X /\ s.selected = a.selected /\ s.rejected = a.rejected
      /\ s.bound = a.bound /\ s.derived = a.derived /\ s.plan = a.plan
      /\ s.terminal = a.terminal /\ s.answer = a.answer /\ s.counts = a.counts
  BY <1>2, <1>3 DEF StateType
<1>5. s.verified = a.verified
  BY <1>2, Zenon DEF StateType
<1>6. /\ s.rejected \cap s.active = {}
      /\ s.counts["ENUMERATE_CLAIMS"] = 0 => s.active = {} /\ s.rejected = {}
  BY <1>2, <1>4 DEF MachineInv, SelectionInv
<1> HIDE DEF s
<1>7. QED BY <1>1, <1>2, <1>4, <1>5, <1>6, FreeStep DEF a

(* Operations that only note something change no claim.                     *)
LEMMA NoteStep ==
  ASSUME MachineInv, NEW op \in Notes \cup {"ENUMERATE_ENTITIES"}, Note(op)
  PROVE  MachineInv'
<1> DEFINE a == ApplyCount(op)
<1>1. MachineTypes /\ op \in Op /\ op \in Free /\ op \notin Refusals /\ OnMenu(op)
      /\ UNCHANGED <<case, raised>> /\ state' = a /\ "ENUMERATE_CLAIMS" \in Op \ {op}
  BY DEF MachineInv, Free, Take, Becomes, Note, Op, Notes, Committing, Refusals
<1>2. /\ a \in StateType /\ a.selected = state.selected /\ a.active = state.active
      /\ a.rejected = state.rejected /\ a.bound = state.bound
      /\ a.derived = state.derived /\ a.plan = state.plan
      /\ a.verified = state.verified /\ a.terminal = state.terminal
      /\ a.answer = state.answer
      /\ a.counts["ENUMERATE_CLAIMS"] = state.counts["ENUMERATE_CLAIMS"]
  BY <1>1, CountedFields
<1> HIDE DEF a
<1>3. /\ a.rejected \cap a.active = {}
      /\ a.counts["ENUMERATE_CLAIMS"] = 0 => a.active = {} /\ a.rejected = {}
  BY <1>2 DEF MachineInv, SelectionInv
<1>4. QED BY <1>1, <1>2, <1>3, FreeStep DEF a

(* ENUMERATE_CLAIMS runs once, before anything was rejected.                *)
LEMMA EnumerateStep == ASSUME MachineInv, EnumerateClaims PROVE MachineInv'
<1> DEFINE op == "ENUMERATE_CLAIMS"
           a == ApplyCount(op)
           s == [a EXCEPT !.active = AllClaims]
<1>1. MachineTypes /\ op \in Op /\ op \in Free /\ op \notin Refusals /\ OnMenu(op)
      /\ UNCHANGED <<case, raised>> /\ state' = s
  BY DEF MachineInv, Free, Take, Becomes, EnumerateClaims, Op, Committing, Refusals
<1>2. /\ a \in StateType /\ a.selected = state.selected
      /\ a.rejected = state.rejected /\ a.bound = state.bound
      /\ a.derived = state.derived /\ a.plan = state.plan
      /\ a.verified = state.verified /\ a.terminal = state.terminal
      /\ a.answer = state.answer /\ a.counts[op] = state.counts[op] + 1
      /\ state.counts[op] \in Nat
  BY <1>1, CountedFields DEF MachineTypes, StateType
<1> HIDE DEF a
<1>3. /\ s \in StateType /\ s.active = AllClaims /\ s.selected = a.selected
      /\ s.rejected = a.rejected
      /\ s.bound = a.bound /\ s.derived = a.derived /\ s.plan = a.plan
      /\ s.terminal = a.terminal /\ s.answer = a.answer /\ s.counts = a.counts
  BY <1>2 DEF StateType
<1>4. s.verified = a.verified
  BY <1>2, Zenon DEF StateType
<1>5. state.rejected = {}
  <2>1. state.counts[op] < 1
    BY <1>1, OnMenuOnly DEF RepeatLimit
  <2>2. QED BY <1>2, <2>1 DEF MachineInv, SelectionInv
<1> HIDE DEF s
<1>6. QED BY <1>1, <1>2, <1>3, <1>4, <1>5, FreeStep DEF a

(* What is rejected leaves the active claims.                               *)
LEMMA RejectStep == ASSUME MachineInv, NEW c \in AllClaims, RejectClaim(c) PROVE MachineInv'
<1> DEFINE op == "REJECT_CLAIM"
           a == ApplyCount(op)
           s == [a EXCEPT !.rejected = @ \cup {c}, !.active = @ \ {c}]
<1>1. MachineTypes /\ op \in Op /\ op \in Free /\ op \notin Refusals /\ OnMenu(op)
      /\ UNCHANGED <<case, raised>> /\ state' = s /\ "ENUMERATE_CLAIMS" \in Op \ {op}
      /\ c \in state.active
  BY DEF MachineInv, Free, Take, Becomes, RejectClaim, Op, Committing, Refusals
<1>2. /\ a \in StateType /\ a.selected = state.selected /\ a.active = state.active
      /\ a.rejected = state.rejected /\ a.bound = state.bound
      /\ a.derived = state.derived /\ a.plan = state.plan
      /\ a.verified = state.verified /\ a.terminal = state.terminal
      /\ a.answer = state.answer
      /\ a.counts["ENUMERATE_CLAIMS"] = state.counts["ENUMERATE_CLAIMS"]
  BY <1>1, CountedFields
<1> HIDE DEF a
<1>3. /\ s \in StateType /\ s.active = state.active \ {c} /\ s.selected = a.selected
      /\ s.rejected = state.rejected \cup {c}
      /\ s.bound = a.bound /\ s.derived = a.derived /\ s.plan = a.plan
      /\ s.terminal = a.terminal /\ s.answer = a.answer /\ s.counts = a.counts
  BY <1>2 DEF StateType
<1>4. s.verified = a.verified
  BY <1>2, Zenon DEF StateType
<1>5. /\ s.rejected \cap s.active = {}
      /\ s.counts["ENUMERATE_CLAIMS"] # 0
  BY <1>1, <1>2, <1>3 DEF MachineInv, SelectionInv
<1> HIDE DEF s
<1>6. QED BY <1>1, <1>2, <1>3, <1>4, <1>5, FreeStep DEF a

(* Counting derives a number and changes no claim.                          *)
LEMMA CountStep == ASSUME MachineInv, CountValues PROVE MachineInv'
<1> DEFINE op == "COUNT_VALUES"
           a == ApplyCount(op)
           s == [a EXCEPT !.derived = "count"]
<1>1. MachineTypes /\ op \in Op /\ op \in Free /\ op \notin Refusals /\ OnMenu(op)
      /\ UNCHANGED <<case, raised>> /\ state' = s /\ "ENUMERATE_CLAIMS" \in Op \ {op}
  BY DEF MachineInv, Free, Take, Becomes, CountValues, Op, Committing, Refusals
<1>2. /\ a \in StateType /\ a.selected = state.selected /\ a.active = state.active
      /\ a.rejected = state.rejected /\ a.bound = state.bound
      /\ a.plan = state.plan
      /\ a.verified = state.verified /\ a.terminal = state.terminal
      /\ a.answer = state.answer
      /\ a.counts["ENUMERATE_CLAIMS"] = state.counts["ENUMERATE_CLAIMS"]
  BY <1>1, CountedFields
<1> HIDE DEF a
<1>3. /\ s \in StateType /\ s.active = a.active /\ s.selected = a.selected
      /\ s.rejected = a.rejected
      /\ s.bound = a.bound /\ s.derived = "count" /\ s.plan = a.plan
      /\ s.terminal = a.terminal /\ s.answer = a.answer /\ s.counts = a.counts
  BY <1>2 DEF StateType
<1>4. s.verified = a.verified
  BY <1>2, Zenon DEF StateType
<1>5. /\ s.rejected \cap s.active = {}
      /\ s.counts["ENUMERATE_CLAIMS"] = 0 => s.active = {} /\ s.rejected = {}
  BY <1>2, <1>3 DEF MachineInv, SelectionInv
<1> HIDE DEF s
<1>6. QED BY <1>1, <1>2, <1>3, <1>4, <1>5, FreeStep DEF a

(* A refusal ends the episode and changes no claim.                         *)
LEMMA RefuseStep == ASSUME MachineInv, NEW op \in Refusals, Refuse(op) PROVE MachineInv'
<1> DEFINE a == ApplyCount(op)
           s == [a EXCEPT !.terminal = op]
<1>1. MachineTypes /\ op \in Op /\ op \in Free /\ OnMenu(op) /\ op \in Terminal
      /\ UNCHANGED <<case, raised>> /\ state' = s /\ "ENUMERATE_CLAIMS" \in Op \ {op}
  BY DEF MachineInv, Free, Take, Becomes, Refuse, Op, Committing, Refusals, Terminal
<1>2. /\ a \in StateType /\ a.selected = state.selected /\ a.active = state.active
      /\ a.rejected = state.rejected /\ a.bound = state.bound
      /\ a.derived = state.derived /\ a.plan = state.plan
      /\ a.verified = state.verified
      /\ a.answer = state.answer
      /\ a.counts["ENUMERATE_CLAIMS"] = state.counts["ENUMERATE_CLAIMS"]
  BY <1>1, CountedFields
<1> HIDE DEF a
<1>3. /\ s \in StateType /\ s.active = a.active /\ s.selected = a.selected
      /\ s.rejected = a.rejected
      /\ s.bound = a.bound /\ s.derived = a.derived /\ s.plan = a.plan
      /\ s.terminal = op /\ s.answer = a.answer /\ s.counts = a.counts
  BY <1>1, <1>2 DEF StateType
<1>4. s.verified = a.verified
  BY <1>2, Zenon DEF StateType
<1>5. /\ s.rejected \cap s.active = {}
      /\ s.counts["ENUMERATE_CLAIMS"] = 0 => s.active = {} /\ s.rejected = {}
  BY <1>2, <1>3 DEF MachineInv, SelectionInv
<1> HIDE DEF s
<1>6. QED BY <1>1, <1>2, <1>3, <1>4, <1>5, FreeStep DEF a

----------------------------------------------------------------------------
(* Steps towards an answer                                                  *)

(* A sequence and one more element.                                         *)
LEMMA OneMore ==
  ASSUME NEW T, NEW p \in Seq(T), NEW c \in T
  PROVE  /\ Append(p, c) \in Seq(T) /\ Append(p, c) # <<>>
         /\ Len(Append(p, c)) = Len(p) + 1 /\ Len(p) \in Nat
         /\ \A i \in 1 .. Len(p) : Append(p, c)[i] = p[i]
         /\ Append(p, c)[Len(p) + 1] = c
         /\ Elements(Append(p, c)) = Elements(p) \cup {c}
         /\ OneToOne(p) /\ c \notin Elements(p) => OneToOne(Append(p, c))
<1> DEFINE q == Append(p, c)
<1>1. /\ q \in Seq(T) /\ q # <<>> /\ Len(q) = Len(p) + 1 /\ Len(p) \in Nat
      /\ \A i \in 1 .. Len(p) : q[i] = p[i]
      /\ q[Len(p) + 1] = c
  OBVIOUS
<1> HIDE DEF q
<1>2. \A i \in 1 .. Len(q) : i \in 1 .. Len(p) \/ i = Len(p) + 1
  BY <1>1
<1>3. Elements(q) = Elements(p) \cup {c}
  <2>1. ASSUME NEW x \in Elements(q) PROVE x \in Elements(p) \cup {c}
    BY <1>1, <1>2, <2>1 DEF Elements
  <2>2. ASSUME NEW x \in Elements(p) \cup {c} PROVE x \in Elements(q)
    <3>1. \A i \in 1 .. Len(p) : i \in 1 .. Len(q)
      BY <1>1
    <3>2. Len(p) + 1 \in 1 .. Len(q)
      BY <1>1
    <3>3. QED BY <1>1, <3>1, <3>2, <2>2 DEF Elements
  <2>3. QED BY <2>1, <2>2
<1>4. ASSUME OneToOne(p), c \notin Elements(p) PROVE OneToOne(q)
  <2>1. \A i \in 1 .. Len(p) : q[i] # c
    BY <1>1, <1>4 DEF Elements
  <2>2. QED BY <1>1, <1>2, <1>4, <2>1 DEF OneToOne
<1>5. QED BY <1>1, <1>3, <1>4 DEF q

(* Building a plan: nothing was verified yet.                               *)
LEMMA VerdictKept ==
  ASSUME MachineInv, NEW op \in Committing, OnMenu(op), NEW s,
         s.verified = state.verified, s.terminal = state.terminal,
         s.counts = ApplyCount(op).counts
  PROVE  VerdictInv(s)
<1>1. MachineTypes /\ op \in Op /\ op \notin Terminal \cup {"VERIFY_PLAN"}
      /\ Terminal \cup {"VERIFY_PLAN"} \subseteq Op
  BY DEF MachineInv, Committing, Op, Terminal, Refusals
<1>2. state.plan = <<>> /\ ~state.verified /\ state.terminal = NoValue
  BY <1>1, OnMenuOnly DEF Terminal
<1>3. \A o \in Terminal \cup {"VERIFY_PLAN"} : s.counts[o] = state.counts[o]
  BY <1>1, CountedFields
<1>4. VerdictInv(state)
  BY DEF MachineInv
<1>5. s.terminal # "ANSWER"
  BY <1>2, CaseAssumption DEF Op
<1>6. QED BY <1>2, <1>3, <1>4, <1>5 DEF VerdictInv

(* A claim that joins the selection is a partner of what is there.          *)
LEMMA SelectStep == ASSUME MachineInv, NEW c \in AllClaims, SelectClaim(c) PROVE MachineInv'
<1> DEFINE op == "SELECT_CLAIM"
           a == ApplyCount(op)
           s == [a EXCEPT !.selected = Append(@, c)]
<1>1. MachineTypes /\ op \in Op /\ op \in Committing /\ OnMenu(op)
      /\ UNCHANGED <<case, raised>> /\ state' = s /\ Selectable(c)
  BY DEF MachineInv, Take, Becomes, SelectClaim, Op, Committing
<1>2. /\ a \in StateType /\ a.selected = state.selected /\ a.active = state.active
      /\ a.rejected = state.rejected /\ a.bound = state.bound
      /\ a.derived = state.derived /\ a.plan = state.plan
      /\ a.verified = state.verified /\ a.terminal = state.terminal
      /\ \A o \in Op \ {op} : a.counts[o] = state.counts[o]
  BY <1>1, CountedFields
<1> HIDE DEF a
<1>3. /\ s \in StateType /\ s.active = a.active /\ s.selected = Append(state.selected, c)
      /\ s.rejected = a.rejected
      /\ s.bound = a.bound /\ s.derived = a.derived /\ s.plan = a.plan
      /\ s.terminal = a.terminal /\ s.counts = a.counts
  <2>1. Append(state.selected, c) \in Seq(AllClaims)
    BY <1>2 DEF StateType
  <2>2. QED BY <1>2, <2>1 DEF StateType
<1>4. s.verified = a.verified
  BY <1>2, Zenon DEF StateType
<1> HIDE DEF s
<1>5. /\ state.plan = <<>> /\ ~state.verified
      /\ state.selected # <<>> => Committed(op)
  BY <1>1, OnMenuOnly
<1>6. state.selected \in Seq(AllClaims)
  BY <1>1 DEF MachineTypes, StateType
<1>7. /\ s.selected # <<>> /\ Len(s.selected) = Len(state.selected) + 1
      /\ Elements(s.selected) = Elements(state.selected) \cup {c}
      /\ OneToOne(state.selected) /\ c \notin Elements(state.selected) => OneToOne(s.selected)
      /\ \A i \in 1 .. Len(state.selected) : s.selected[i] = state.selected[i]
      /\ s.selected[Len(state.selected) + 1] = c
      /\ Len(state.selected) \in Nat
  BY <1>3, <1>6, OneMore
<1>8. Len(s.selected) <= Room
  BY <1>1, <1>5, <1>7, <1>6, TaskFields
     DEF Committed, NextForComparison, NextForList, Room
<1>9. SelectionInv(s)
  <2>1. case.shape = "list" => LineagesDiffer(s.selected)
    <3>1. SUFFICES ASSUME case.shape = "list" PROVE LineagesDiffer(s.selected)
      OBVIOUS
    <3>2. LineagesDiffer(state.selected)
          /\ \A d \in Elements(state.selected) : Data(d).family # Data(c).family
      BY <1>1, <3>1 DEF MachineInv, SelectionInv, Selectable
    <3>3. \A i \in 1 .. Len(state.selected) : Data(s.selected[i]).family # Data(c).family
      BY <1>7, <3>2 DEF Elements
    <3>4. \A i \in 1 .. Len(s.selected) :
            i \in 1 .. Len(state.selected) \/ i = Len(state.selected) + 1
      BY <1>7
    <3>5. ASSUME NEW i \in 1 .. Len(s.selected), NEW j \in 1 .. Len(s.selected),
                 Data(s.selected[i]).family = Data(s.selected[j]).family
          PROVE  i = j
      <4>1. CASE i \in 1 .. Len(state.selected) /\ j \in 1 .. Len(state.selected)
        BY <1>7, <3>2, <3>5, <4>1 DEF LineagesDiffer
      <4>2. QED BY <1>7, <3>3, <3>4, <3>5, <4>1
    <3>6. QED BY <3>5 DEF LineagesDiffer
  <2>2. \A d \in Elements(s.selected) : d \in s.active /\ Eligible(d)
    BY <1>1, <1>2, <1>3, <1>7 DEF MachineInv, SelectionInv, Selectable
  <2>3. OneToOne(s.selected)
    BY <1>1, <1>7 DEF MachineInv, SelectionInv, Selectable
  <2>4. s.counts["ENUMERATE_CLAIMS"] = state.counts["ENUMERATE_CLAIMS"]
    BY <1>2, <1>3 DEF Op
  <2>5. s.active = state.active /\ s.rejected = state.rejected
    BY <1>2, <1>3
  <2>6. SelectionInv(state)
    BY <1>1 DEF MachineInv
  <2>7. QED BY <1>8, <2>1, <2>2, <2>3, <2>4, <2>5, <2>6, Zenon DEF SelectionInv
<1>10. BoundInv(s)
  <2>1. ASSUME case.shape = "comparison" PROVE state.bound = <<>>
    <3>1. Room = 2
      BY <2>1 DEF Room
    <3>2. state.bound # <<>> => Len(state.selected) = 2
      BY <2>1 DEF MachineInv, BoundInv
    <3>3. Len(state.selected) + 1 <= 2 /\ Len(state.selected) \in Nat
      BY <1>7, <1>8, <3>1
    <3>4. \A n \in Nat : n + 1 <= 2 => n # 2
      OBVIOUS
    <3>5. QED BY <3>2, <3>3, <3>4, Zenon
  <2>2. /\ s.counts["BIND_LIST_SLOT"] = state.counts["BIND_LIST_SLOT"]
        /\ s.counts["PAIR_COMPARISON_VALUES"] = state.counts["PAIR_COMPARISON_VALUES"]
    BY <1>2, <1>3 DEF Op
  <2>3. QED BY <1>2, <1>3, <1>7, <2>1, <2>2 DEF MachineInv, BoundInv
<1>11. DerivedInv(s)
  <2>1. s.counts["COMPARE_VALUES"] = state.counts["COMPARE_VALUES"]
    BY <1>2, <1>3 DEF Op
  <2>2. QED BY <1>2, <1>3, <2>1 DEF MachineInv, DerivedInv
<1>12. PlanInv(s)
  <2>1. \A o \in {"BUILD_DIRECT_PLAN", "BUILD_LIST_PLAN", "BUILD_COMPARISON_PLAN"} :
          s.counts[o] = state.counts[o]
    BY <1>2, <1>3 DEF Op
  <2>2. QED BY <1>2, <1>3, <1>5, <2>1 DEF MachineInv, PlanInv
<1>13. VerdictInv(s)
  BY <1>1, <1>2, <1>3, <1>4, VerdictKept DEF a
<1>14. QED BY <1>1, <1>3, <1>9, <1>10, <1>11, <1>12, <1>13, Becoming DEF MachineTypes

(* The selection of a step that does not touch it.                          *)
LEMMA SelectionKept ==
  ASSUME MachineInv, NEW s, s.selected = state.selected, s.active = state.active,
         s.rejected = state.rejected,
         s.counts["ENUMERATE_CLAIMS"] = state.counts["ENUMERATE_CLAIMS"]
  PROVE  SelectionInv(s)
BY DEF MachineInv, SelectionInv

(* A list binds what it selected, each claim once.                          *)
LEMMA BindStep == ASSUME MachineInv, NEW c \in AllClaims, BindListSlot(c) PROVE MachineInv'
<1> DEFINE op == "BIND_LIST_SLOT"
           a == ApplyCount(op)
           s == [a EXCEPT !.bound = Append(@, c)]
<1>1. /\ MachineTypes /\ op \in Op /\ op \in Committing /\ OnMenu(op)
      /\ UNCHANGED <<case, raised>> /\ state' = s
      /\ c \in Elements(state.selected) /\ c \notin Elements(state.bound)
  BY DEF MachineInv, Take, Becomes, BindListSlot, Op, Committing
<1>2. /\ a \in StateType /\ a.selected = state.selected /\ a.active = state.active
      /\ a.rejected = state.rejected /\ a.bound = state.bound
      /\ a.derived = state.derived /\ a.plan = state.plan
      /\ a.verified = state.verified /\ a.terminal = state.terminal
      /\ a.counts[op] = state.counts[op] + 1
      /\ \A o \in Op \ {op} : a.counts[o] = state.counts[o]
  BY <1>1, CountedFields
<1> HIDE DEF a
<1>3. state.bound \in Seq(AllClaims) /\ state.counts[op] \in Nat
  BY <1>1 DEF MachineTypes, StateType
<1>4. /\ s \in StateType /\ s.active = a.active /\ s.selected = a.selected
      /\ s.rejected = a.rejected
      /\ s.bound = Append(state.bound, c) /\ s.derived = a.derived /\ s.plan = a.plan
      /\ s.terminal = a.terminal /\ s.counts = a.counts
  <2>1. Append(state.bound, c) \in Seq(AllClaims)
    BY <1>3
  <2>2. QED BY <1>2, <2>1 DEF StateType
<1>5. s.verified = a.verified
  BY <1>2, Zenon DEF StateType
<1> HIDE DEF s
<1>6. state.plan = <<>> /\ state.selected # <<>> /\ case.shape = "list"
  <2>1. state.plan = <<>> /\ Committed(op) /\ state.selected # <<>>
    BY <1>1, OnMenuOnly DEF Precondition
  <2>2. QED BY <1>1, <2>1, TaskFields DEF Committed, NextForComparison
<1>7. /\ s.bound # <<>> /\ Len(s.bound) = Len(state.bound) + 1 /\ Len(state.bound) \in Nat
      /\ Elements(s.bound) = Elements(state.bound) \cup {c}
      /\ OneToOne(state.bound) => OneToOne(s.bound)
  BY <1>1, <1>3, <1>4, OneMore
<1>8. {"ENUMERATE_CLAIMS", "PAIR_COMPARISON_VALUES", "COMPARE_VALUES", "BUILD_DIRECT_PLAN",
       "BUILD_LIST_PLAN", "BUILD_COMPARISON_PLAN"} \subseteq Op \ {op}
  BY DEF Op
<1>9. SelectionInv(s)
  BY <1>2, <1>4, <1>8, SelectionKept
<1>10. BoundInv(s)
  <2>1. s.counts[op] <= Len(s.bound)
    BY <1>2, <1>3, <1>4, <1>7 DEF MachineInv, BoundInv
  <2>2. QED BY <1>1, <1>2, <1>4, <1>6, <1>7, <2>1 DEF MachineInv, BoundInv
<1>11. DerivedInv(s)
  BY <1>2, <1>4, <1>6, <1>8 DEF MachineInv, DerivedInv
<1>12. PlanInv(s)
  BY <1>2, <1>4, <1>6, <1>8 DEF MachineInv, PlanInv
<1>13. VerdictInv(s)
  BY <1>1, <1>2, <1>4, <1>5, VerdictKept DEF a
<1>14. QED BY <1>1, <1>4, <1>9, <1>10, <1>11, <1>12, <1>13, Becoming DEF MachineTypes

(* A comparison pairs the two claims it selected.                           *)
LEMMA PairStep == ASSUME MachineInv, PairComparisonValues PROVE MachineInv'
<1> DEFINE op == "PAIR_COMPARISON_VALUES"
           a == ApplyCount(op)
           s == [a EXCEPT !.bound = SubSeq(state.selected, 1, 2)]
<1>1. /\ MachineTypes /\ op \in Op /\ op \in Committing /\ OnMenu(op)
      /\ UNCHANGED <<case, raised>> /\ state' = s
  BY DEF MachineInv, Take, Becomes, PairComparisonValues, Op, Committing
<1>2. /\ a \in StateType /\ a.selected = state.selected /\ a.active = state.active
      /\ a.rejected = state.rejected
      /\ a.derived = state.derived /\ a.plan = state.plan
      /\ a.verified = state.verified /\ a.terminal = state.terminal
      /\ \A o \in Op \ {op} : a.counts[o] = state.counts[o]
  BY <1>1, CountedFields
<1> HIDE DEF a
<1>3. state.selected \in Seq(AllClaims)
  BY <1>1 DEF MachineTypes, StateType
<1>4. /\ state.plan = <<>> /\ case.shape = "comparison" /\ state.bound = <<>>
      /\ ~(Len(state.selected) < 2)
  <2>1. state.plan = <<>> /\ Committed(op) /\ state.selected # <<>>
    BY <1>1, OnMenuOnly DEF Precondition
  <2>2. case.shape = "comparison" /\ op = NextForComparison
    BY <1>1, <2>1, TaskFields DEF Committed, NextForList
  <2>3. QED BY <2>1, <2>2 DEF NextForComparison
<1>5. Len(state.selected) = 2 /\ SubSeq(state.selected, 1, 2) = state.selected
  <2>1. Len(state.selected) <= 2
    BY <1>4 DEF MachineInv, SelectionInv, Room
  <2>2. Len(state.selected) = 2
    <3>1. Len(state.selected) \in Nat /\ ~(Len(state.selected) < 2)
      BY <1>3, <1>4
    <3>2. \A n \in Nat : n <= 2 /\ ~(n < 2) => n = 2
      OBVIOUS
    <3>3. QED BY <2>1, <3>1, <3>2, Zenon
  <2>3. QED BY <1>3, <2>2
<1>6. /\ s \in StateType /\ s.active = a.active /\ s.selected = state.selected
      /\ s.rejected = a.rejected
      /\ s.bound = state.selected /\ s.derived = a.derived /\ s.plan = a.plan
      /\ s.terminal = a.terminal /\ s.counts = a.counts
  BY <1>2, <1>3, <1>5 DEF StateType
<1>7. s.verified = a.verified
  BY <1>2, Zenon DEF StateType
<1> HIDE DEF s
<1>8. {"ENUMERATE_CLAIMS", "BIND_LIST_SLOT", "COMPARE_VALUES", "BUILD_DIRECT_PLAN",
       "BUILD_LIST_PLAN", "BUILD_COMPARISON_PLAN"} \subseteq Op \ {op}
  BY DEF Op
<1>9. SelectionInv(s)
  BY <1>2, <1>6, <1>8, SelectionKept
<1>10. BoundInv(s)
  <2>1. s.counts["BIND_LIST_SLOT"] <= Len(s.bound)
    <3>1. /\ state.counts["BIND_LIST_SLOT"] <= 0 /\ state.counts["BIND_LIST_SLOT"] \in Nat
      BY <1>1, <1>4, <1>8 DEF MachineInv, BoundInv, MachineTypes, StateType
    <3>2. QED BY <1>2, <1>5, <1>6, <1>8, <3>1
  <2>2. OneToOne(s.bound)
    BY <1>6 DEF MachineInv, SelectionInv
  <2>3. s.bound # <<>> /\ Len(s.bound) = 2
    <3>1. Len(<<>>) # 2
      OBVIOUS
    <3>2. QED BY <1>5, <1>6, <3>1, Zenon
  <2>4. QED BY <1>4, <1>6, <2>1, <2>2, <2>3 DEF BoundInv
<1>11. DerivedInv(s)
  BY <1>2, <1>4, <1>6, <1>8 DEF MachineInv, DerivedInv
<1>12. PlanInv(s)
  BY <1>2, <1>4, <1>6, <1>8 DEF MachineInv, PlanInv
<1>13. VerdictInv(s)
  BY <1>1, <1>2, <1>6, <1>7, VerdictKept DEF a
<1>14. QED BY <1>1, <1>6, <1>9, <1>10, <1>11, <1>12, <1>13, Becoming DEF MachineTypes

(* The derived direction is read off the two claims bound.                  *)
LEMMA CompareStep == ASSUME MachineInv, CompareValues PROVE MachineInv'
<1> DEFINE op == "COMPARE_VALUES"
           a == ApplyCount(op)
           d == Direction(Left, Right)
           s == [a EXCEPT !.derived = d]
<1>1. /\ MachineTypes /\ op \in Op /\ op \in Committing /\ OnMenu(op)
      /\ UNCHANGED <<case, raised>> /\ state' = s
  BY DEF MachineInv, Take, Becomes, CompareValues, Op, Committing
<1>2. /\ a \in StateType /\ a.selected = state.selected /\ a.active = state.active
      /\ a.rejected = state.rejected /\ a.bound = state.bound
      /\ a.plan = state.plan
      /\ a.verified = state.verified /\ a.terminal = state.terminal
      /\ \A o \in Op \ {op} : a.counts[o] = state.counts[o]
  BY <1>1, CountedFields
<1>3. d \in Directions /\ d = Direction(Data(state.bound[1]).number, Data(state.bound[2]).number)
  BY DEF Direction, Directions, Left, Right
<1> HIDE DEF a, d
<1>4. state.plan = <<>> /\ case.shape = "comparison" /\ state.bound # <<>>
  <2>1. state.plan = <<>> /\ state.bound # <<>> /\ (state.selected # <<>> => Committed(op))
    BY <1>1, OnMenuOnly DEF Precondition
  <2>2. state.selected # <<>>
    <3>1. Elements(state.bound) \subseteq Elements(state.selected) /\ state.bound \in Seq(AllClaims)
      BY DEF MachineInv, BoundInv, MachineTypes, StateType
    <3>2. 1 \in 1 .. Len(state.bound)
      BY <2>1, <3>1
    <3>3. Elements(state.selected) # {}
      BY <3>1, <3>2 DEF Elements
    <3>4. QED BY <3>3 DEF Elements
  <2>3. QED BY <1>1, <2>1, <2>2, TaskFields DEF Committed, NextForList
<1>5. /\ s \in StateType /\ s.active = a.active /\ s.selected = a.selected
      /\ s.rejected = a.rejected
      /\ s.bound = a.bound /\ s.derived = d /\ s.plan = a.plan
      /\ s.terminal = a.terminal /\ s.counts = a.counts
  BY <1>2, <1>3 DEF StateType
<1>6. s.verified = a.verified
  BY <1>2, Zenon DEF StateType
<1> HIDE DEF s
<1>7. {"ENUMERATE_CLAIMS", "BIND_LIST_SLOT", "PAIR_COMPARISON_VALUES", "BUILD_DIRECT_PLAN",
       "BUILD_LIST_PLAN", "BUILD_COMPARISON_PLAN"} \subseteq Op \ {op}
  BY DEF Op
<1>8. SelectionInv(s)
  BY <1>2, <1>5, <1>7, SelectionKept
<1>9. BoundInv(s)
  BY <1>2, <1>5, <1>7 DEF MachineInv, BoundInv
<1>10. DerivedInv(s)
  BY <1>2, <1>3, <1>4, <1>5 DEF DerivedInv, Directions
<1>11. PlanInv(s)
  BY <1>2, <1>4, <1>5, <1>7 DEF MachineInv, PlanInv
<1>12. VerdictInv(s)
  BY <1>1, <1>2, <1>5, <1>6, VerdictKept DEF a
<1>13. QED BY <1>1, <1>5, <1>8, <1>9, <1>10, <1>11, <1>12, Becoming DEF MachineTypes

(* The three ways to build a plan: from what is bound, or from the one      *)
(* claim selected.                                                          *)
LEMMA BuildStep ==
  ASSUME MachineInv, BuildDirectPlan \/ BuildListPlan \/ BuildComparisonPlan
  PROVE  MachineInv'
<1>1. PICK op \in {"BUILD_DIRECT_PLAN", "BUILD_LIST_PLAN", "BUILD_COMPARISON_PLAN"} :
        BuildPlan(op, IF op = "BUILD_DIRECT_PLAN" THEN SubSeq(state.selected, 1, 1)
                                                  ELSE state.bound)
  BY DEF BuildDirectPlan, BuildListPlan, BuildComparisonPlan
<1> DEFINE p == IF op = "BUILD_DIRECT_PLAN" THEN SubSeq(state.selected, 1, 1) ELSE state.bound
           a == ApplyCount(op)
           s == [a EXCEPT !.plan = p]
<1>2. /\ MachineTypes /\ op \in Op /\ op \in Committing /\ OnMenu(op)
      /\ UNCHANGED <<case, raised>> /\ state' = s
  BY <1>1 DEF MachineInv, Take, Becomes, BuildPlan, Op, Committing
<1>3. /\ a \in StateType /\ a.selected = state.selected /\ a.active = state.active
      /\ a.rejected = state.rejected /\ a.bound = state.bound /\ a.derived = state.derived
      /\ a.verified = state.verified /\ a.terminal = state.terminal
      /\ \A o \in Op \ {op} : a.counts[o] = state.counts[o]
  BY <1>2, CountedFields
<1> HIDE DEF a
<1>4. state.selected \in Seq(AllClaims) /\ state.bound \in Seq(AllClaims)
  BY <1>2 DEF MachineTypes, StateType
<1>5. /\ op # "BUILD_DIRECT_PLAN" => state.bound # <<>>
      /\ op = "BUILD_COMPARISON_PLAN" => state.derived # "none"
      /\ state.selected # <<>> => Committed(op)
      /\ op = "BUILD_DIRECT_PLAN" => state.selected # <<>>
  BY <1>2, OnMenuOnly DEF Precondition
<1>6. state.selected # <<>>
  <2>1. CASE state.bound # <<>>
    <3>1. Elements(state.bound) \subseteq Elements(state.selected)
      BY DEF MachineInv, BoundInv
    <3>2. 1 \in 1 .. Len(state.bound)
      BY <1>4, <2>1
    <3>3. Elements(state.selected) # {}
      BY <3>1, <3>2 DEF Elements
    <3>4. QED BY <3>3 DEF Elements
  <2>2. QED BY <1>5, <2>1
<1>7. /\ op = "BUILD_DIRECT_PLAN" => case.shape = "direct"
      /\ op = "BUILD_LIST_PLAN" => case.shape = "list"
      /\ op = "BUILD_COMPARISON_PLAN" => case.shape = "comparison"
  BY <1>2, <1>5, <1>6, TaskFields DEF Committed, NextForList, NextForComparison
<1>8. p \in Seq(AllClaims) /\ p # <<>>
  BY <1>4, <1>5, <1>6
<1>9. p = IF Composed THEN state.bound ELSE SubSeq(state.selected, 1, 1)
  BY <1>7 DEF Composed
<1> HIDE DEF p
<1>10. /\ s \in StateType /\ s.active = a.active /\ s.selected = a.selected
       /\ s.rejected = a.rejected
       /\ s.bound = a.bound /\ s.derived = a.derived /\ s.plan = p
       /\ s.terminal = a.terminal /\ s.counts = a.counts
  BY <1>3, <1>8 DEF StateType
<1>11. s.verified = a.verified
  BY <1>3, Zenon DEF StateType
<1> HIDE DEF s
<1>12. {"ENUMERATE_CLAIMS", "BIND_LIST_SLOT", "PAIR_COMPARISON_VALUES", "COMPARE_VALUES"}
         \subseteq Op \ {op}
  BY DEF Op
<1>13. SelectionInv(s)
  BY <1>3, <1>10, <1>12, SelectionKept
<1>14. BoundInv(s) /\ DerivedInv(s)
  BY <1>3, <1>10, <1>12 DEF MachineInv, BoundInv, DerivedInv
<1>15. PlanInv(s)
  BY <1>3, <1>5, <1>6, <1>7, <1>8, <1>9, <1>10 DEF PlanInv
<1>16. VerdictInv(s)
  BY <1>2, <1>3, <1>10, <1>11, VerdictKept DEF a
<1>17. QED BY <1>2, <1>10, <1>13, <1>14, <1>15, <1>16, Becoming DEF MachineTypes

(* Verification accepts exactly what its checks accept.                     *)
LEMMA VerifyStep == ASSUME MachineInv, VerifyPlan PROVE MachineInv'
<1> DEFINE op == "VERIFY_PLAN"
           a == ApplyCount(op)
           v == Verifies(state.plan, state.derived)
           s == [a EXCEPT !.verified = v]
<1>1. /\ MachineTypes /\ op \in Op /\ OnMenu(op)
      /\ UNCHANGED <<case, raised>> /\ state' = s
  BY DEF MachineInv, Take, Becomes, VerifyPlan, Op
<1>2. /\ a \in StateType /\ a.selected = state.selected /\ a.active = state.active
      /\ a.rejected = state.rejected /\ a.bound = state.bound /\ a.derived = state.derived
      /\ a.plan = state.plan /\ a.terminal = state.terminal
      /\ a.counts[op] = state.counts[op] + 1
      /\ \A o \in Op \ {op} : a.counts[o] = state.counts[o]
  BY <1>1, CountedFields
<1>3. v \in BOOLEAN
  BY DEF Verifies
<1> HIDE DEF a, v
<1>4. /\ s \in StateType /\ s.active = a.active /\ s.selected = a.selected
      /\ s.rejected = a.rejected
      /\ s.bound = a.bound /\ s.derived = a.derived /\ s.plan = a.plan
      /\ s.terminal = a.terminal /\ s.counts = a.counts
  BY <1>2, <1>3 DEF StateType
<1>5. s.verified = v
  BY <1>2, Zenon DEF StateType
<1> HIDE DEF s
<1>6. /\ state.plan # <<>> /\ state.terminal = NoValue
      /\ state.counts[op] < 1 /\ state.counts[op] \in Nat
  BY <1>1, OnMenuOnly DEF Precondition, RepeatLimit, MachineTypes, StateType
<1>7. {"ENUMERATE_CLAIMS", "BIND_LIST_SLOT", "PAIR_COMPARISON_VALUES", "COMPARE_VALUES",
       "BUILD_DIRECT_PLAN", "BUILD_LIST_PLAN", "BUILD_COMPARISON_PLAN"}
         \cup Terminal \subseteq Op \ {op}
  BY DEF Op, Terminal, Refusals
<1>8. SelectionInv(s)
  BY <1>2, <1>4, <1>7, SelectionKept
<1>9. BoundInv(s) /\ DerivedInv(s) /\ PlanInv(s)
  BY <1>2, <1>4, <1>7 DEF MachineInv, BoundInv, DerivedInv, PlanInv
<1>10. VerdictInv(s)
  <2>1. s.counts[op] = 1
    BY <1>2, <1>4, <1>6
  <2>2. s.terminal # "ANSWER"
    BY <1>2, <1>4, <1>6, CaseAssumption DEF Op
  <2>3. \A o \in Terminal : s.counts[o] = 0
    BY <1>2, <1>4, <1>6, <1>7 DEF MachineInv, VerdictInv
  <2>4. s.plan # <<>> /\ s.verified = Verifies(s.plan, s.derived)
    BY <1>2, <1>4, <1>5, <1>6 DEF v
  <2>5. QED BY <2>1, <2>2, <2>3, <2>4 DEF VerdictInv
<1>11. QED BY <1>1, <1>4, <1>8, <1>9, <1>10, Becoming DEF MachineTypes

(* Answering repeats the plan.                                              *)
LEMMA AnswerStep == ASSUME MachineInv, Answer PROVE MachineInv'
<1> DEFINE op == "ANSWER"
           a == ApplyCount(op)
           s == [a EXCEPT !.terminal = "ANSWER", !.answer = state.plan]
<1>1. /\ MachineTypes /\ op \in Op /\ op \in Terminal /\ OnMenu(op)
      /\ UNCHANGED <<case, raised>> /\ state' = s
  BY CountedFields DEF MachineInv, Take, Becomes, Answer, Op, Terminal, ApplyCount
<1>2. /\ a \in StateType /\ a.selected = state.selected /\ a.active = state.active
      /\ a.rejected = state.rejected /\ a.bound = state.bound /\ a.derived = state.derived
      /\ a.plan = state.plan /\ a.verified = state.verified
      /\ \A o \in Op \ {op} : a.counts[o] = state.counts[o]
  BY <1>1, CountedFields
<1> HIDE DEF a
<1>3. state.plan \in Seq(AllClaims)
  BY <1>1 DEF MachineTypes, StateType
<1>4. /\ s \in StateType /\ s.active = a.active /\ s.selected = a.selected
      /\ s.rejected = a.rejected
      /\ s.bound = a.bound /\ s.derived = a.derived /\ s.plan = a.plan
      /\ s.terminal = "ANSWER" /\ s.answer = state.plan /\ s.counts = a.counts
  BY <1>1, <1>2, <1>3 DEF StateType
<1>5. s.verified = a.verified
  BY <1>2, Zenon DEF StateType
<1> HIDE DEF s
<1>6. state.verified
  BY <1>1, OnMenuOnly DEF Precondition
<1>7. {"ENUMERATE_CLAIMS", "BIND_LIST_SLOT", "PAIR_COMPARISON_VALUES", "COMPARE_VALUES",
       "BUILD_DIRECT_PLAN", "BUILD_LIST_PLAN", "BUILD_COMPARISON_PLAN", "VERIFY_PLAN"}
         \subseteq Op \ {op}
  BY DEF Op
<1>8. SelectionInv(s)
  BY <1>2, <1>4, <1>7, SelectionKept
<1>9. BoundInv(s) /\ DerivedInv(s) /\ PlanInv(s)
  BY <1>2, <1>4, <1>7 DEF MachineInv, BoundInv, DerivedInv, PlanInv
<1>10. VerdictInv(s)
  <2>1. s.terminal # NoValue
    BY <1>4, CaseAssumption DEF Op
  <2>2. VerdictInv(state)
    BY DEF MachineInv
  <2>3. s.counts["VERIFY_PLAN"] = state.counts["VERIFY_PLAN"]
    BY <1>2, <1>4, <1>7
  <2>4. s.plan = state.plan /\ s.derived = state.derived /\ s.verified = state.verified
        /\ s.answer = state.plan
    BY <1>2, <1>4, <1>5
  <2>5. QED BY <1>6, <2>1, <2>2, <2>3, <2>4 DEF VerdictInv
<1>11. QED BY <1>1, <1>4, <1>8, <1>9, <1>10, Becoming DEF MachineTypes

(* Whatever the policy picks, the invariant holds after it.                 *)
LEMMA MachineStep == MachineInv /\ [MachineNext]_machineVars => MachineInv'
<1> SUFFICES ASSUME MachineInv, [MachineNext]_machineVars PROVE MachineInv'
  OBVIOUS
<1>1. CASE UNCHANGED machineVars
  <2>1. UNCHANGED <<case, raised>> /\ state' = state
    BY <1>1 DEF machineVars
  <2>2. QED BY <2>1, Becoming DEF MachineInv, MachineTypes
<1>2. CASE \E op \in Notes \cup {"ENUMERATE_ENTITIES"} : Note(op)
  BY <1>2, NoteStep
<1>3. CASE EnumerateClaims
  BY <1>3, EnumerateStep
<1>4. CASE \E op \in FrameFilters : FilterByFrame(op)
  <2>1. FrameFilters \subseteq Free \ (Refusals \cup {"ENUMERATE_CLAIMS"})
    BY DEF FrameFilters, Free, Op, Committing, Refusals
  <2>2. PICK op \in FrameFilters : FilterByFrame(op)
    BY <1>4
  <2> DEFINE X == {c \in state.active : op \in Data(c).keeps}
  <2>3. /\ Take(op) /\ X \subseteq state.active
        /\ Becomes([ApplyCount(op) EXCEPT !.active =
               {c \in ApplyCount(op).active : op \in Data(c).keeps}])
    BY <2>2 DEF FilterByFrame
  <2>4. ApplyCount(op).active = state.active
    BY <2>1, CountedFields DEF MachineInv, Free
  <2>5. QED BY <2>1, <2>3, <2>4, NarrowStep
<1>5. CASE \E s \in Source : FilterSource(s)
  <2>1. "FILTER_SOURCE" \in Free \ (Refusals \cup {"ENUMERATE_CLAIMS"})
    BY DEF Free, Op, PickFilters, Committing, Refusals
  <2>2. PICK s \in Source : FilterSource(s)
    BY <1>5
  <2> DEFINE X == {c \in state.active : s \in Data(c).sources}
  <2>3. ApplyCount("FILTER_SOURCE").active = state.active
    BY <2>1, CountedFields DEF MachineInv, Free
  <2>4. /\ Take("FILTER_SOURCE") /\ X \subseteq state.active
        /\ Becomes([ApplyCount("FILTER_SOURCE") EXCEPT !.active = X])
    BY <2>2, <2>3 DEF FilterSource
  <2>5. QED BY <2>1, <2>4, NarrowStep
<1>6. CASE \E e \in Entity : JoinByEntity(e)
  <2>1. "JOIN_BY_ENTITY" \in Free \ (Refusals \cup {"ENUMERATE_CLAIMS"})
    BY DEF Free, Op, PickFilters, Committing, Refusals
  <2>2. PICK e \in Entity : JoinByEntity(e)
    BY <1>6
  <2> DEFINE X == {c \in state.active : e \in Data(c).entities}
  <2>3. ApplyCount("JOIN_BY_ENTITY").active = state.active
    BY <2>1, CountedFields DEF MachineInv, Free
  <2>4. /\ Take("JOIN_BY_ENTITY") /\ X \subseteq state.active
        /\ Becomes([ApplyCount("JOIN_BY_ENTITY") EXCEPT !.active = X])
    BY <2>2, <2>3 DEF JoinByEntity
  <2>5. QED BY <2>1, <2>4, NarrowStep
<1>7. CASE \E v \in Event : JoinByEvent(v)
  <2>1. "JOIN_BY_EVENT" \in Free \ (Refusals \cup {"ENUMERATE_CLAIMS"})
    BY DEF Free, Op, PickFilters, Committing, Refusals
  <2>2. PICK v \in Event : JoinByEvent(v)
    BY <1>7
  <2> DEFINE X == {c \in state.active : Data(c).event = v}
  <2>3. ApplyCount("JOIN_BY_EVENT").active = state.active
    BY <2>1, CountedFields DEF MachineInv, Free
  <2>4. /\ Take("JOIN_BY_EVENT") /\ X \subseteq state.active
        /\ Becomes([ApplyCount("JOIN_BY_EVENT") EXCEPT !.active = X])
    BY <2>2, <2>3 DEF JoinByEvent
  <2>5. QED BY <2>1, <2>4, NarrowStep
<1>8. CASE \E c \in AllClaims : SelectClaim(c) \/ RejectClaim(c) \/ BindListSlot(c)
  BY <1>8, SelectStep, RejectStep, BindStep
<1>9. CASE CompareRaises
  <2>1. UNCHANGED <<case, state>> /\ raised' = TRUE
    BY <1>9 DEF CompareRaises, Take
  <2>2. QED BY <2>1, Becoming DEF MachineInv, MachineTypes
<1>10. CASE PairComparisonValues \/ CompareValues \/ CountValues
  BY <1>10, PairStep, CompareStep, CountStep
<1>11. CASE BuildDirectPlan \/ BuildListPlan \/ BuildComparisonPlan
  BY <1>11, BuildStep
<1>12. CASE VerifyPlan \/ Answer
  BY <1>12, VerifyStep, AnswerStep
<1>13. CASE \E op \in Refusals : Refuse(op)
  BY <1>13, RefuseStep
<1>14. QED
  BY <1>1, <1>2, <1>3, <1>4, <1>5, <1>6, <1>7, <1>8, <1>9, <1>10, <1>11, <1>12, <1>13
     DEF MachineNext, Execute, Stop

(* The inductive invariant holds of every state of an episode.              *)
LEMMA MachineInvariant == MachineSpec => []MachineInv
<1>1. QED BY MachineStart, MachineStep, PTL DEF MachineSpec

----------------------------------------------------------------------------
(* Theorems                                                                 *)

(* Values that are different at different places number as many as the      *)
(* places.                                                                  *)
LEMMA Distinct ==
  ASSUME NEW n \in Nat, NEW T, NEW f \in [1 .. n -> T],
         \A i, j \in 1 .. n : f[i] = f[j] => i = j, \A x \in T : \E i \in 1 .. n : f[i] = x
  PROVE  IsFiniteSet(T) /\ Cardinality(T) = n
<1>1. IsFiniteSet(1 .. n) /\ Cardinality(1 .. n) = n
  BY FS_Interval
<1>2. f \in Surjection(1 .. n, T)
  BY Zenon DEF Surjection
<1>3. f \in Injection(1 .. n, T)
  BY DEF Injection, IsInjective
<1>4. QED BY <1>1, <1>2, <1>3, FS_Surjection

(* A sequence without repetitions is as long as its set of elements.        *)
LEMMA ElementsCounted ==
  ASSUME NEW T, NEW p \in Seq(T), OneToOne(p)
  PROVE  IsFiniteSet(Elements(p)) /\ Cardinality(Elements(p)) = Len(p)
<1> DEFINE f == [i \in 1 .. Len(p) |-> p[i]]
<1>1. Len(p) \in Nat /\ f \in [1 .. Len(p) -> Elements(p)]
  BY DEF Elements
<1>2. \A i, j \in 1 .. Len(p) : f[i] = f[j] => i = j
  BY DEF OneToOne
<1>3. \A x \in Elements(p) : \E i \in 1 .. Len(p) : f[i] = x
  BY DEF Elements
<1> HIDE DEF f
<1>4. QED BY <1>1, <1>2, <1>3, Distinct

(* A plan of the invariant: nothing twice, all of it selected, and as long  *)
(* as its shape says.                                                       *)
LEMMA PlanFacts ==
  ASSUME MachineInv, state.plan # <<>>
  PROVE  /\ state.plan \in Seq(AllClaims) /\ Len(state.plan) \in Nat \ {0}
         /\ Elements(state.plan) \subseteq Elements(state.selected)
         /\ ~Composed => Len(state.plan) = 1
         /\ case.shape = "comparison" => Len(state.plan) = 2 /\ state.plan = state.bound
         /\ case.shape = "list" => LineagesDiffer(state.plan)
<1>1. /\ state.plan \in Seq(AllClaims) /\ state.selected \in Seq(AllClaims)
      /\ state.bound \in Seq(AllClaims)
  BY DEF MachineInv, MachineTypes, StateType
<1>2. PlanInv(state) /\ BoundInv(state) /\ SelectionInv(state)
  BY DEF MachineInv
<1>3. Len(state.plan) \in Nat \ {0}
  BY <1>1
<1>4. CASE ~Composed
  <2>1. state.plan = SubSeq(state.selected, 1, 1) /\ state.selected # <<>>
    BY <1>2, <1>4 DEF PlanInv
  <2>2. Len(state.plan) = 1 /\ state.plan[1] = state.selected[1] /\ 1 \in 1 .. Len(state.selected)
    BY <1>1, <2>1
  <2>3. Elements(state.plan) \subseteq Elements(state.selected)
    BY <2>2 DEF Elements
  <2>4. QED BY <1>1, <1>3, <1>4, <2>2, <2>3 DEF Composed
<1>5. CASE Composed
  <2>1. state.plan = state.bound
    BY <1>2, <1>5 DEF PlanInv
  <2>2. ASSUME case.shape = "list" PROVE LineagesDiffer(state.plan)
    <3>1. ASSUME NEW i \in 1 .. Len(state.bound), NEW j \in 1 .. Len(state.bound),
                 Data(state.bound[i]).family = Data(state.bound[j]).family
          PROVE  i = j
      <4>1. state.bound[i] \in Elements(state.selected) /\
                state.bound[j] \in Elements(state.selected)
        BY <1>2 DEF BoundInv, Elements
      <4>2. PICK k \in 1 .. Len(state.selected), m \in 1 .. Len(state.selected) :
              state.bound[i] = state.selected[k] /\ state.bound[j] = state.selected[m]
        BY <4>1 DEF Elements
      <4>3. k = m
        BY <1>2, <2>2, <3>1, <4>2 DEF SelectionInv, LineagesDiffer
      <4>4. QED BY <1>2, <4>2, <4>3 DEF BoundInv, OneToOne
    <3>2. QED BY <2>1, <3>1 DEF LineagesDiffer
  <2>3. QED BY <1>1, <1>2, <1>3, <1>5, <2>1, <2>2 DEF BoundInv
<1>6. QED BY <1>4, <1>5

(* What an episode answers is what it planned, and the exact verifier's     *)
(* reasons hold of it, whatever order the policy's actions came in: no      *)
(* unlinked entity, no relation that was not asked, no text that is not in  *)
(* its source, no source family counted twice, no wrong direction.          *)
THEOREM AnswersAreSupported == MachineSpec => []AnswerSupported
<1>1. ASSUME MachineInv PROVE AnswerSupported
  <2>1. SUFFICES ASSUME state.terminal = "ANSWER" PROVE AnswerSupported
    BY DEF AnswerSupported
  <2>2. /\ state.verified /\ state.answer = state.plan /\ state.plan # <<>>
        /\ Verifies(state.plan, state.derived)
    <3>1. state.verified /\ state.answer = state.plan
      BY <1>1, <2>1 DEF MachineInv, VerdictInv
    <3>2. "VERIFY_PLAN" \in Op
      BY DEF Op
    <3>3. state.counts["VERIFY_PLAN"] \in Nat /\ state.counts["VERIFY_PLAN"] <= 1
          /\ state.counts["VERIFY_PLAN"] # 0
      BY <1>1, <3>1, <3>2 DEF MachineInv, VerdictInv, MachineTypes, StateType
    <3>4. state.counts["VERIFY_PLAN"] = 1
      BY <3>3
    <3>5. QED BY <1>1, <3>1, <3>4 DEF MachineInv, VerdictInv
  <2>3. /\ case.intact /\ LineagesDiffer(state.plan)
        /\ \A c \in Elements(state.plan) :
             /\ Data(c).entity_ok /\ Data(c).relation_ok /\ Data(c).copied
             /\ ~Composed => Data(c).fits
        /\ case.shape = "comparison" =>
             ComparisonVerifies(state.plan[1], state.plan[2], state.derived)
    BY <2>2 DEF Verifies, ClaimVerifies, ShapeFits
  <2>4. Cardinality({Data(c).family : c \in Elements(state.plan)}) = Len(state.plan)
    <3> DEFINE p == state.plan
               T == {Data(c).family : c \in Elements(p)}
               f == [i \in 1 .. Len(p) |-> Data(p[i]).family]
    <3>1. Len(p) \in Nat
      BY <1>1, <2>2, PlanFacts
    <3>2. f \in [1 .. Len(p) -> T]
      BY DEF Elements
    <3>3. \A i, j \in 1 .. Len(p) : f[i] = f[j] => i = j
      BY <2>3 DEF LineagesDiffer
    <3>4. \A x \in T : \E i \in 1 .. Len(p) : f[i] = x
      BY DEF Elements
    <3> HIDE DEF f, T
    <3>5. Cardinality(T) = Len(p)
      BY <3>1, <3>2, <3>3, <3>4, Distinct
    <3>6. QED BY <3>5 DEF T
  <2>5. QED BY <2>2, <2>3, <2>4 DEF AnswerSupported, ComparisonVerifies, Direction
<1>2. QED BY <1>1, MachineInvariant, PTL

(* A failed verification always has a reason the menu does not look at: the *)
(* menu never offered what the verifier is bound to refuse.                 *)
THEOREM RejectionsAreExplained == MachineSpec => []RejectionExplained
<1>1. ASSUME MachineInv PROVE RejectionExplained
  <2>1. SUFFICES ASSUME Refuted, case.intact,
                        ~Composed => Data(state.plan[1]).fits
                 PROVE  /\ case.shape = "comparison"
                        /\ LET c == state.plan[1]
                               d == state.plan[2]
                           IN \/ Data(c).family = Data(d).family
                              \/ state.derived = "count"
                              \/ Data(c).quantity = NoValue \/ Data(d).quantity = NoValue
                              \/ Direction(Data(c).number, Data(d).number)
                                   # Direction(Data(c).quantity, Data(d).quantity)
    BY DEF RejectionExplained
  <2>2. state.plan # <<>> /\ ~Verifies(state.plan, state.derived)
    BY <1>1, <2>1 DEF Refuted, MachineInv, VerdictInv
  <2>3. /\ state.plan \in Seq(AllClaims) /\ Len(state.plan) \in Nat \ {0}
        /\ Elements(state.plan) \subseteq Elements(state.selected)
        /\ ~Composed => Len(state.plan) = 1
        /\ case.shape = "comparison" => Len(state.plan) = 2 /\ state.plan = state.bound
        /\ case.shape = "list" => LineagesDiffer(state.plan)
    BY <1>1, <2>2, PlanFacts
  <2>4. \A c \in Elements(state.plan) : ClaimVerifies(c)
    <3>1. \A c \in Elements(state.plan) : Eligible(c)
      BY <1>1, <2>3 DEF MachineInv, SelectionInv
    <3>2. ~Composed => \A c \in Elements(state.plan) : c = state.plan[1]
      BY <2>3 DEF Elements
    <3>3. QED BY <2>1, <3>1, <3>2 DEF Eligible, ClaimVerifies, ShapeFits
  <2>5. case.shape = "comparison"
    <3>1. CASE case.shape = "list"
      BY <2>1, <2>2, <2>3, <2>4, <3>1 DEF Verifies
    <3>2. CASE case.shape = "direct"
      <4>1. LineagesDiffer(state.plan)
        BY <2>3, <3>2 DEF LineagesDiffer, Composed
      <4>2. QED BY <2>1, <2>2, <2>4, <3>2, <4>1 DEF Verifies
    <3>3. QED BY <1>1, <3>1, <3>2, TaskFields DEF MachineInv
  <2> DEFINE c == state.plan[1]
             d == state.plan[2]
  <2>6. ASSUME Data(c).family # Data(d).family PROVE LineagesDiffer(state.plan)
    BY <2>3, <2>5, <2>6 DEF LineagesDiffer
  <2>7. /\ state.derived \in Directions \cup {"count"}
        /\ state.derived \in Directions =>
             state.derived = Direction(Data(c).number, Data(d).number)
    <3>1. state.derived \in Directions \cup {"none", "count"} /\ state.derived # "none"
      BY <1>1, <2>2, <2>5 DEF MachineInv, MachineTypes, StateType, PlanInv
    <3>2. QED BY <1>1, <2>3, <2>5, <3>1 DEF MachineInv, DerivedInv
  <2>8. Data(c).quantity # NoValue /\ Data(d).quantity # NoValue
        /\ state.derived \in Directions
        /\ state.derived = Direction(Data(c).quantity, Data(d).quantity)
        => ComparisonVerifies(c, d, state.derived)
    BY DEF ComparisonVerifies
  <2>9. QED BY <2>1, <2>2, <2>3, <2>4, <2>5, <2>6, <2>7, <2>8 DEF Verifies, Directions
<1>2. QED BY <1>1, MachineInvariant, PTL

(* The ground under a selection stays: nothing planned that was not         *)
(* selected, nothing selected that is not active, nothing twice, no more    *)
(* than the shape holds, and nothing rejected comes back.                   *)
THEOREM PlansStayWithinSelection == MachineSpec => []PlanWithinSelection
<1>1. ASSUME MachineInv PROVE PlanWithinSelection
  <2>1. state.selected \in Seq(AllClaims) /\ SelectionInv(state) /\ BoundInv(state)
    BY <1>1 DEF MachineInv, MachineTypes, StateType
  <2>2. Cardinality(Elements(state.selected)) = Len(state.selected)
    BY <2>1, ElementsCounted DEF SelectionInv
  <2>3. Elements(state.plan) \subseteq Elements(state.selected)
    <3>1. CASE state.plan = <<>>
      BY <3>1 DEF Elements
    <3>2. QED BY <1>1, <3>1, PlanFacts
  <2>4. QED BY <2>1, <2>2, <2>3 DEF PlanWithinSelection, SelectionInv, BoundInv, Room
<1>2. QED BY <1>1, MachineInvariant, PTL

(* An episode that runs out of legal actions was refuted, or has selected   *)
(* claims that want a partner.                                              *)
THEOREM StuckOnlyAfterCommitting == MachineSpec => []StuckOnlyAfterCommitment
<1>1. ASSUME MachineInv PROVE StuckOnlyAfterCommitment
  <2>1. SUFFICES ASSUME MenuEmpty, state.terminal = NoValue, ~Refuted
                 PROVE  /\ Composed /\ state.plan = <<>> /\ state.selected # <<>>
                        /\ Len(state.selected) < (IF case.shape = "list" THEN case.target ELSE 2)
    BY DEF StuckOnlyAfterCommitment
  <2>2. /\ MachineTypes /\ VerdictInv(state) /\ SelectionInv(state) /\ BoundInv(state)
        /\ PlanInv(state) /\ DerivedInv(state)
        /\ state.selected \in Seq(AllClaims) /\ state.bound \in Seq(AllClaims)
        /\ \A op \in Op : state.counts[op] \in Nat
    BY <1>1 DEF MachineInv, MachineTypes, StateType
  <2>3. \A op \in Op \ {"SELECT_CLAIM", "BIND_LIST_SLOT"} : ~OnMenu(op)
    BY <2>1 DEF MenuEmpty
  <2>4. state.plan = <<>>
    <3>1. SUFFICES ASSUME state.plan # <<>> PROVE FALSE
      OBVIOUS
    <3>2. CASE state.verified
      <4>1. "ANSWER" \in Op /\ state.counts["ANSWER"] = 0
        BY <2>1, <2>2 DEF Op, VerdictInv, Terminal
      <4>2. OnMenu("ANSWER")
        BY <2>1, <3>1, <3>2, <4>1
           DEF OnMenu, LegalSpec, RepeatLimit, Precondition, FrameFilters, PickFilters, Refusals
      <4>3. QED BY <2>3, <4>1, <4>2
    <3>3. CASE ~state.verified
      <4>1. "VERIFY_PLAN" \in Op /\ state.counts["VERIFY_PLAN"] < 1
        <5>1. "VERIFY_PLAN" \in Op
          BY DEF Op
        <5>2. state.counts["VERIFY_PLAN"] \in Nat /\ state.counts["VERIFY_PLAN"] <= 1
              /\ state.counts["VERIFY_PLAN"] # 1
          BY <2>1, <2>2, <3>3, <5>1 DEF VerdictInv, Refuted
        <5>3. QED BY <5>1, <5>2
      <4>2. OnMenu("VERIFY_PLAN")
        BY <2>1, <3>1, <3>3, <4>1
           DEF OnMenu, LegalSpec, RepeatLimit, Precondition, FrameFilters, PickFilters, Refusals
      <4>3. QED BY <2>3, <4>1, <4>2
    <3>4. QED BY <3>2, <3>3
  <2>5. ~state.verified
    <3>1. "VERIFY_PLAN" \in Op /\ state.counts["VERIFY_PLAN"] # 1
      BY <2>2, <2>4 DEF VerdictInv, Op
    <3>2. state.counts["VERIFY_PLAN"] \in Nat /\ state.counts["VERIFY_PLAN"] <= 1
      BY <2>2, <3>1 DEF VerdictInv
    <3>3. state.counts["VERIFY_PLAN"] = 0
      BY <3>1, <3>2
    <3>4. QED BY <2>2, <3>3 DEF VerdictInv
  <2>6. state.selected # <<>>
    <3>1. SUFFICES ASSUME state.selected = <<>> PROVE FALSE
      OBVIOUS
    <3>2. "ABSTAIN" \in Op /\ "ABSTAIN" \in Refusals /\ "ABSTAIN" \in case.refusals
          /\ state.counts["ABSTAIN"] = 0
      BY <2>1, <2>2, TaskFields DEF Op, Refusals, VerdictInv, Terminal
    <3>3. OnMenu("ABSTAIN")
      BY <2>1, <2>4, <2>5, <3>1, <3>2
         DEF OnMenu, LegalSpec, RepeatLimit, Precondition, FrameFilters, PickFilters
    <3>4. QED BY <2>3, <3>2, <3>3
  (* Whatever is the next step to a plan is on the menu the first time.     *)
  <2>7. ASSUME NEW op \in {"BUILD_DIRECT_PLAN", "BUILD_LIST_PLAN", "BUILD_COMPARISON_PLAN",
                           "PAIR_COMPARISON_VALUES", "COMPARE_VALUES"},
               Committed(op), state.counts[op] = 0, Precondition(op)
        PROVE  FALSE
    <3>1. op \in Op \ {"SELECT_CLAIM", "BIND_LIST_SLOT", "ANSWER", "VERIFY_PLAN"}
          /\ RepeatLimit(op) = 1
      BY DEF Op, RepeatLimit
    <3>2. OnMenu(op)
      BY <2>1, <2>4, <2>5, <2>6, <2>7, <3>1 DEF OnMenu, LegalSpec
    <3>3. QED BY <2>3, <3>1, <3>2
  <2>8. \A op \in {"BUILD_DIRECT_PLAN", "BUILD_LIST_PLAN", "BUILD_COMPARISON_PLAN"} :
          state.counts[op] = 0
    BY <2>2, <2>4 DEF PlanInv
  <2>9. case.shape # "direct"
    <3>1. ASSUME case.shape = "direct" PROVE FALSE
      <4>1. Committed("BUILD_DIRECT_PLAN")
        BY <3>1 DEF Committed
      <4>2. Precondition("BUILD_DIRECT_PLAN")
        BY <2>6 DEF Precondition, FrameFilters, PickFilters, Refusals
      <4>3. QED BY <2>7, <2>8, <4>1, <4>2
    <3>2. QED BY <3>1
  <2>10. CASE case.shape = "list"
    <3>1. SUFFICES ASSUME ~(Len(state.selected) < case.target) PROVE FALSE
      BY <2>4, <2>6, <2>10 DEF Composed
    <3>2. CASE AllBound
      <4>1. Committed("BUILD_LIST_PLAN")
        BY <2>10, <3>1, <3>2 DEF Committed, NextForList
      <4>2. state.bound # <<>>
        <5>1. Len(state.bound) >= Len(state.selected) /\ Len(state.selected) \in Nat \ {0}
              /\ Len(state.bound) \in Nat
          BY <2>2, <2>6, <3>2 DEF AllBound
        <5>2. Len(state.bound) # 0
          BY <5>1
        <5>3. QED BY <5>2
      <4>3. Precondition("BUILD_LIST_PLAN")
        BY <4>2 DEF Precondition, FrameFilters, PickFilters, Refusals
      <4>4. QED BY <2>7, <2>8, <4>1, <4>3
    <3>3. CASE ~AllBound
      <4>1. Committed("BIND_LIST_SLOT") /\ "BIND_LIST_SLOT" \in Op
        BY <2>10, <3>1, <3>3 DEF Committed, NextForList, Op
      <4>2. /\ Len(state.bound) \in Nat /\ Len(state.selected) \in Nat
            /\ Len(state.bound) < Len(state.selected) /\ Len(state.selected) <= 6
            /\ state.counts["BIND_LIST_SLOT"] \in Nat
            /\ state.counts["BIND_LIST_SLOT"] <= Len(state.bound)
        <5>1. Len(state.selected) <= Room /\ Room \in 1 .. 6
          BY <2>2, TaskFields DEF SelectionInv
        <5>2. /\ Len(state.bound) \in Nat /\ Len(state.selected) \in Nat
              /\ ~(Len(state.bound) >= Len(state.selected))
          BY <2>2, <3>3 DEF AllBound
        <5>3. QED BY <2>2, <4>1, <5>1, <5>2 DEF BoundInv
      <4>3. state.counts["BIND_LIST_SLOT"] < 16
        BY <4>2
      <4>4. OnMenu("BIND_LIST_SLOT")
        BY <2>1, <2>4, <2>5, <2>6, <4>1, <4>3
           DEF OnMenu, LegalSpec, RepeatLimit, Precondition, FrameFilters, PickFilters, Refusals
      <4>5. Elements(state.selected) \subseteq Elements(state.bound)
        BY <2>1, <4>1, <4>4 DEF MenuEmpty
      <4>6. /\ IsFiniteSet(Elements(state.bound))
            /\ Cardinality(Elements(state.bound)) = Len(state.bound)
            /\ Cardinality(Elements(state.selected)) = Len(state.selected)
        BY <2>2, ElementsCounted DEF SelectionInv, BoundInv
      <4>7. Len(state.selected) <= Len(state.bound)
        BY <4>5, <4>6, FS_Subset
      <4>8. QED BY <4>2, <4>7
    <3>4. QED BY <3>2, <3>3
  <2>11. CASE case.shape = "comparison"
    <3>1. SUFFICES ASSUME ~(Len(state.selected) < 2) PROVE FALSE
      BY <2>4, <2>6, <2>11 DEF Composed
    <3>2. CASE state.bound = <<>>
      <4>1. Committed("PAIR_COMPARISON_VALUES") /\ "PAIR_COMPARISON_VALUES" \in Op
        BY <2>11, <3>1, <3>2 DEF Committed, NextForComparison, Op
      <4>2. state.counts["PAIR_COMPARISON_VALUES"] = 0
        <5>1. state.counts["PAIR_COMPARISON_VALUES"] \in Nat
              /\ ~(state.counts["PAIR_COMPARISON_VALUES"] > 0)
          BY <2>2, <3>2, <4>1 DEF BoundInv
        <5>2. QED BY <5>1
      <4>3. Precondition("PAIR_COMPARISON_VALUES")
        BY <2>6 DEF Precondition, FrameFilters, PickFilters, Refusals
      <4>4. QED BY <2>7, <4>1, <4>2, <4>3
    <3>3. CASE state.bound # <<>> /\ state.derived = "none"
      <4>1. Committed("COMPARE_VALUES") /\ "COMPARE_VALUES" \in Op
        BY <2>11, <3>1, <3>3 DEF Committed, NextForComparison, Op
      <4>2. state.counts["COMPARE_VALUES"] = 0
        <5>1. state.counts["COMPARE_VALUES"] \in Nat /\ ~(state.counts["COMPARE_VALUES"] > 0)
          BY <2>2, <3>3, <4>1 DEF DerivedInv
        <5>2. QED BY <5>1
      <4>3. Precondition("COMPARE_VALUES")
        BY <3>3 DEF Precondition, FrameFilters, PickFilters, Refusals
      <4>4. QED BY <2>7, <4>1, <4>2, <4>3
    <3>4. CASE state.bound # <<>> /\ state.derived # "none"
      <4>1. Committed("BUILD_COMPARISON_PLAN")
        BY <2>11, <3>1, <3>4 DEF Committed, NextForComparison
      <4>2. Precondition("BUILD_COMPARISON_PLAN")
        BY <3>4 DEF Precondition, FrameFilters, PickFilters, Refusals
      <4>3. QED BY <2>7, <2>8, <4>1, <4>2
    <3>5. QED BY <3>2, <3>3, <3>4
  <2>12. QED BY <2>2, <2>9, <2>10, <2>11, TaskFields
<1>2. QED BY <1>1, MachineInvariant, PTL

----------------------------------------------------------------------------
(* Fractions.                                                               *)

Fractions == Int \X (Nat \ {0})

(* A positive factor keeps an order.                                        *)
LEMMA Scaled ==
  ASSUME NEW x \in Int, NEW y \in Int, NEW d \in Nat \ {0}
  PROVE  /\ x * d > y * d => x > y
         /\ x > y => x * d > y * d
         /\ x * d = y * d => x = y
OBVIOUS

(* Fractions are compared by the products across, and that is an order.     *)
LEMMA Across ==
  ASSUME NEW a \in Int, NEW b \in Int, NEW c \in Int,
         NEW x \in Nat \ {0}, NEW y \in Nat \ {0}, NEW z \in Nat \ {0}
  PROVE  /\ a * y > b * x /\ b * z > c * y => a * z > c * x
         /\ a * y = b * x /\ b * z > c * y => a * z > c * x
         /\ a * y > b * x /\ b * z = c * y => a * z > c * x
         /\ a * y = b * x /\ b * z = c * y => a * z = c * x
<1>1. /\ (a * y) * z = (a * z) * y /\ (b * x) * z = (b * z) * x
      /\ (c * y) * x = (c * x) * y
  OBVIOUS
<1> DEFINE p == a * y
           q == b * x
           r == b * z
           s == c * y
           u == a * z
           v == c * x
<1>2. p \in Int /\ q \in Int /\ r \in Int /\ s \in Int /\ u \in Int /\ v \in Int
  OBVIOUS
<1>3. p * z = u * y /\ q * z = r * x /\ s * x = v * y
  BY <1>1
<1> HIDE DEF p, q, r, s, u, v
<1>4. /\ p > q => p * z > q * z
      /\ r > s => r * x > s * x
      /\ u * y > v * y => u > v
      /\ u * y = v * y => u = v
  BY <1>2, Scaled
<1>5. /\ p * z \in Int /\ q * z \in Int /\ r * x \in Int /\ s * x \in Int
      /\ u * y \in Int /\ v * y \in Int
  BY <1>2
<1>6. /\ p > q /\ r > s => u > v
      /\ p = q /\ r > s => u > v
      /\ p > q /\ r = s => u > v
      /\ p = q /\ r = s => u = v
  BY <1>3, <1>4, <1>5
<1>7. QED BY <1>6 DEF p, q, r, s, u, v

(* Comparing fractions is transitive, also across equal ones.               *)
LEMMA FractionOrder ==
  ASSUME NEW a \in Fractions, NEW b \in Fractions, NEW c \in Fractions
  PROVE  /\ Above(a, b) /\ Above(b, c) => Above(a, c)
         /\ Equal(a, b) /\ Above(b, c) => Above(a, c)
         /\ Above(a, b) /\ Equal(b, c) => Above(a, c)
         /\ Equal(a, b) /\ Equal(b, c) => Equal(a, c)
<1>1. /\ a[1] \in Int /\ b[1] \in Int /\ c[1] \in Int
      /\ a[2] \in Nat \ {0} /\ b[2] \in Nat \ {0} /\ c[2] \in Nat \ {0}
  BY DEF Fractions
<1> DEFINE x == a[1]
           y == b[1]
           z == c[1]
           d == a[2]
           e == b[2]
           f == c[2]
<1>2. /\ x \in Int /\ y \in Int /\ z \in Int
      /\ d \in Nat \ {0} /\ e \in Nat \ {0} /\ f \in Nat \ {0}
  BY <1>1
<1>3. /\ Above(a, b) <=> x * e > y * d
      /\ Above(b, c) <=> y * f > z * e
      /\ Above(a, c) <=> x * f > z * d
      /\ Equal(a, b) <=> x * e = y * d
      /\ Equal(b, c) <=> y * f = z * e
      /\ Equal(a, c) <=> x * f = z * d
  BY DEF Above, Equal
<1> HIDE DEF x, y, z, d, e, f
<1>4. /\ x * e > y * d /\ y * f > z * e => x * f > z * d
      /\ x * e = y * d /\ y * f > z * e => x * f > z * d
      /\ x * e > y * d /\ y * f = z * e => x * f > z * d
      /\ x * e = y * d /\ y * f = z * e => x * f = z * d
  BY <1>2, Across
<1>5. QED BY <1>3, <1>4, Zenon

(* Of two fractions one is above the other or they are equal, never both.   *)
LEMMA FractionsCompare ==
  ASSUME NEW a \in Fractions, NEW b \in Fractions
  PROVE  /\ Above(a, b) \/ Equal(a, b) \/ Above(b, a)
         /\ ~(Above(a, b) /\ Above(b, a))
         /\ ~(Above(a, b) /\ Equal(a, b))
         /\ ~(Above(b, a) /\ Equal(a, b))
         /\ Equal(a, a) /\ (Equal(a, b) <=> Equal(b, a)) /\ ~Above(a, a)
<1> DEFINE p == a[1] * b[2]
           q == b[1] * a[2]
<1>1. p \in Int /\ q \in Int /\ a[1] * a[2] \in Int
  BY DEF Fractions
<1>2. /\ Above(a, b) <=> p > q
      /\ Equal(a, b) <=> p = q
      /\ Above(b, a) <=> q > p
      /\ Equal(b, a) <=> q = p
  BY DEF Above, Equal
<1>3. Equal(a, a) /\ ~Above(a, a)
  BY <1>1 DEF Above, Equal
<1> HIDE DEF p, q
<1>4. QED BY <1>1, <1>2, <1>3

----------------------------------------------------------------------------
(* The order of texts.                                                      *)

(* a comes before b by what they have at i.                                 *)
DiffersAt(a, b, i) ==
  /\ i \in 1 .. Len(b) /\ i <= Len(a) + 1
  /\ \A k \in 1 .. i - 1 : a[k] = b[k]
  /\ i <= Len(a) => a[i] < b[i]

(* A text comes before another at the first place where they differ.        *)
LEMMA BeforeIs ==
  ASSUME NEW a \in Seq(Int), NEW b \in Seq(Int)
  PROVE  Before(a, b) <=> \E i \in 1 .. Len(b) : DiffersAt(a, b, i)
<1>1. Len(a) \in Nat /\ Len(b) \in Nat
  OBVIOUS
<1>2. \A i \in 1 .. Len(a) : i <= Len(b) + 1 =>
        (SubSeq(a, 1, i - 1) = SubSeq(b, 1, i - 1) <=> \A k \in 1 .. i - 1 : a[k] = b[k])
  <2>1. SUFFICES ASSUME NEW i \in 1 .. Len(a), i <= Len(b) + 1
                 PROVE  SubSeq(a, 1, i - 1) = SubSeq(b, 1, i - 1) <=>
                     \A k \in 1 .. i - 1 : a[k] = b[k]
    OBVIOUS
  <2>2. /\ SubSeq(a, 1, i - 1) = [k \in 1 .. i - 1 |-> a[k]]
        /\ SubSeq(b, 1, i - 1) = [k \in 1 .. i - 1 |-> b[k]]
    BY <1>1, <2>1
  <2>3. QED BY <2>2
<1>3. IsStrictPrefix(a, b) <=> Len(a) < Len(b) /\ \A k \in 1 .. Len(a) : a[k] = b[k]
  <2>1. Len(a) <= Len(b) => SubSeq(b, 1, Len(a)) = [k \in 1 .. Len(a) |-> b[k]]
    BY <1>1
  <2>2. SubSeq(a, 1, Len(a)) = [k \in 1 .. Len(a) |-> a[k]]
    BY <1>1
  <2>3. Len(a) <= Len(b) =>
            (SubSeq(a, 1, Len(a)) = SubSeq(b, 1, Len(a)) <=> \A k \in 1 .. Len(a) : a[k] = b[k])
    BY <2>1, <2>2
  <2>4. Len(a) = Len(b) /\ (\A k \in 1 .. Len(a) : a[k] = b[k]) => a = b
    OBVIOUS
  <2>5. Len(a) < Len(b) => a # b
    BY <1>1
  <2>6. QED BY <1>1, <2>3, <2>4, <2>5 DEF IsStrictPrefix, IsPrefix
<1>4. ASSUME Before(a, b) PROVE \E i \in 1 .. Len(b) : DiffersAt(a, b, i)
  <2>1. CASE IsStrictPrefix(a, b)
    <3>1. DiffersAt(a, b, Len(a) + 1) /\ Len(a) + 1 \in 1 .. Len(b)
      BY <1>1, <1>3, <2>1 DEF DiffersAt
    <3>2. QED BY <3>1
  <2>2. CASE ~IsStrictPrefix(a, b)
    <3>1. PICK i \in 1 .. Len(a) : /\ i <= Len(b) /\ a[i] < b[i]
                                   /\ SubSeq(a, 1, i - 1) = SubSeq(b, 1, i - 1)
      BY <1>4, <2>2 DEF Before
    <3>2. i <= Len(b) + 1 /\ i \in 1 .. Len(b) /\ i <= Len(a) + 1
      BY <1>1, <3>1
    <3>3. \A k \in 1 .. i - 1 : a[k] = b[k]
      BY <1>2, <3>1, <3>2
    <3>4. QED BY <3>1, <3>2, <3>3 DEF DiffersAt
  <2>3. QED BY <2>1, <2>2
<1>5. ASSUME NEW i \in 1 .. Len(b), DiffersAt(a, b, i) PROVE Before(a, b)
  <2>1. CASE i <= Len(a)
    <3>1. i \in 1 .. Len(a) /\ i <= Len(b) /\ i <= Len(b) + 1
      BY <1>1, <2>1
    <3>2. a[i] < b[i] /\ SubSeq(a, 1, i - 1) = SubSeq(b, 1, i - 1)
      BY <1>2, <1>5, <2>1, <3>1 DEF DiffersAt
    <3>3. QED BY <3>1, <3>2 DEF Before
  <2>2. CASE ~(i <= Len(a))
    <3>1. i = Len(a) + 1 /\ i - 1 = Len(a) /\ Len(a) < Len(b)
      BY <1>1, <1>5, <2>2 DEF DiffersAt
    <3>2. IsStrictPrefix(a, b)
      BY <1>3, <1>5, <3>1 DEF DiffersAt
    <3>3. QED BY <3>2 DEF Before
  <2>3. QED BY <2>1, <2>2
<1>6. QED BY <1>4, <1>5

(* No text comes before itself, and the order of texts is transitive.       *)
LEMMA BeforeOrder ==
  ASSUME NEW a \in Seq(Int), NEW b \in Seq(Int), NEW c \in Seq(Int)
  PROVE  /\ ~Before(a, a)
         /\ Before(a, b) /\ Before(b, c) => Before(a, c)
<1>1. Len(a) \in Nat /\ Len(b) \in Nat /\ Len(c) \in Nat
  OBVIOUS
<1>2. \A k \in 1 .. Len(a) : a[k] \in Int
  OBVIOUS
<1>3. \A k \in 1 .. Len(b) : b[k] \in Int
  OBVIOUS
<1>4. \A k \in 1 .. Len(c) : c[k] \in Int
  OBVIOUS
<1>5. ~Before(a, a)
  <2>1. SUFFICES ASSUME NEW i \in 1 .. Len(a), DiffersAt(a, a, i) PROVE FALSE
    BY BeforeIs
  <2>2. i <= Len(a) /\ a[i] \in Int
    BY <1>1, <1>2
  <2>3. QED BY <2>1, <2>2 DEF DiffersAt
<1>6. ASSUME NEW i \in 1 .. Len(b), DiffersAt(a, b, i), NEW j \in 1 .. Len(c), DiffersAt(b, c, j)
      PROVE  \E k \in 1 .. Len(c) : DiffersAt(a, c, k)
  <2>1. CASE i <= j
    <3>1. i \in 1 .. Len(c) /\ i <= Len(a) + 1 /\ i <= Len(b)
      BY <1>1, <1>6, <2>1 DEF DiffersAt
    <3>2. ASSUME NEW k \in 1 .. i - 1 PROVE a[k] = c[k]
      <4>1. k \in 1 .. j - 1
        BY <1>1, <2>1
      <4>2. QED BY <1>6, <4>1 DEF DiffersAt
    <3>3. ASSUME i <= Len(a) PROVE a[i] < c[i]
      <4>1. a[i] < b[i] /\ a[i] \in Int /\ b[i] \in Int /\ c[i] \in Int
        <5>1. i \in 1 .. Len(a)
          BY <3>3
        <5>2. QED BY <1>2, <1>3, <1>4, <1>6, <3>1, <3>3, <5>1 DEF DiffersAt
      <4>2. CASE i = j
        <5>1. b[i] < c[i]
          BY <1>6, <3>1, <4>2 DEF DiffersAt
        <5>2. QED BY <4>1, <5>1
      <4>3. CASE i # j
        <5>1. i \in 1 .. j - 1
          BY <2>1, <4>3
        <5>2. b[i] = c[i]
          BY <1>6, <5>1 DEF DiffersAt
        <5>3. QED BY <4>1, <5>2
      <4>4. QED BY <4>2, <4>3
    <3>4. QED BY <3>1, <3>2, <3>3 DEF DiffersAt
  <2>2. CASE j < i
    <3>a. i \in Nat \ {0} /\ j \in Nat \ {0} /\ i <= Len(b) /\ i <= Len(a) + 1
      BY <1>1, <1>6 DEF DiffersAt
    <3>1. j \in 1 .. i - 1 /\ j <= Len(a) /\ j <= Len(b) /\ j <= Len(a) + 1 /\ j \in 1 .. Len(a)
      BY <1>1, <2>2, <3>a
    <3>2. a[j] = b[j] /\ b[j] < c[j]
      BY <1>6, <3>1 DEF DiffersAt
    <3>3. ASSUME NEW k \in 1 .. j - 1 PROVE a[k] = c[k]
      <4>1. k \in 1 .. i - 1
        BY <2>2
      <4>2. QED BY <1>6, <4>1 DEF DiffersAt
    <3>4. QED BY <3>1, <3>2, <3>3 DEF DiffersAt
  <2>3. QED BY <2>1, <2>2
<1>7. Before(a, b) /\ Before(b, c) => Before(a, c)
  <2>1. SUFFICES ASSUME Before(a, b), Before(b, c) PROVE Before(a, c)
    OBVIOUS
  <2>2. PICK i \in 1 .. Len(b) : DiffersAt(a, b, i)
    BY <2>1, BeforeIs
  <2>3. PICK j \in 1 .. Len(c) : DiffersAt(b, c, j)
    BY <2>1, BeforeIs
  <2>4. \E k \in 1 .. Len(c) : DiffersAt(a, c, k)
    BY <1>6, <2>2, <2>3
  <2>5. QED BY <2>4, BeforeIs
<1>8. QED BY <1>5, <1>7

(* Of two texts that differ one comes before the other.                     *)
LEMMA BeforeTotal ==
  ASSUME NEW a \in Seq(Int), NEW b \in Seq(Int)
  PROVE  a = b \/ Before(a, b) \/ Before(b, a)
<1>1. SUFFICES ASSUME a # b
               PROVE  (\E i \in 1 .. Len(b) : DiffersAt(a, b, i))
                      \/ \E i \in 1 .. Len(a) : DiffersAt(b, a, i)
  BY BeforeIs
<1>2. Len(a) \in Nat /\ Len(b) \in Nat
  OBVIOUS
<1> DEFINE D == {i \in Nat \ {0} : i <= Len(a) /\ i <= Len(b) => a[i] # b[i]}
<1>3. Len(a) + 1 \in D
  BY <1>2
<1>4. PICK i \in D : \A k \in D : i <= k
  <2>1. D \in SUBSET Nat /\ D # {}
    BY <1>3
  <2> HIDE DEF D
  <2>2. QED BY <2>1, LeastNumber
<1>5. \A k \in 1 .. i - 1 : k <= Len(a) /\ k <= Len(b) /\ a[k] = b[k]
  <2>1. SUFFICES ASSUME NEW k \in 1 .. i - 1 PROVE k \notin D
    OBVIOUS
  <2>2. k \in Nat /\ i \in Nat /\ ~(i <= k)
    OBVIOUS
  <2> HIDE DEF D
  <2>3. QED BY <1>4, <2>2
<1>6. i \in Nat \ {0} /\ i <= Len(a) + 1 /\ i <= Len(b) + 1
  <2>1. Len(b) + 1 \in D
    BY <1>2
  <2>2. i \in Nat \ {0}
    OBVIOUS
  <2> HIDE DEF D
  <2>3. QED BY <1>3, <1>4, <2>1, <2>2
<1>7. i <= Len(a) /\ i <= Len(b) => a[i] # b[i]
  OBVIOUS
<1> HIDE DEF D
<1>8. CASE i <= Len(a) /\ i <= Len(b)
  <2>1. a[i] \in Int /\ b[i] \in Int /\ a[i] # b[i] /\ i \in 1 .. Len(a) /\ i \in 1 .. Len(b)
    BY <1>2, <1>6, <1>7, <1>8
  <2>2. a[i] < b[i] \/ b[i] < a[i]
    BY <2>1
  <2>3. QED BY <1>5, <1>6, <2>1, <2>2 DEF DiffersAt
<1>9. CASE ~(i <= Len(a)) /\ i <= Len(b)
  <2>1. i \in 1 .. Len(b)
    BY <1>2, <1>6, <1>9
  <2>2. QED BY <1>5, <1>6, <1>9, <2>1 DEF DiffersAt
<1>10. CASE i <= Len(a) /\ ~(i <= Len(b))
  <2>1. i \in 1 .. Len(a)
    BY <1>2, <1>6, <1>10
  <2>2. QED BY <1>5, <1>6, <1>10, <2>1 DEF DiffersAt
<1>11. CASE ~(i <= Len(a)) /\ ~(i <= Len(b))
  <2>1. Len(a) = Len(b) /\ i - 1 = Len(a)
    BY <1>2, <1>6, <1>11
  <2>2. \A k \in 1 .. Len(a) : a[k] = b[k]
    BY <1>5, <2>1
  <2>3. a = b
    BY <2>1, <2>2
  <2>4. QED BY <1>1, <2>3
<1>12. QED BY <1>8, <1>9, <1>10, <1>11

----------------------------------------------------------------------------
(* Lists in the orders of the code.                                         *)

(* Sorting finitely many texts lists each of them once.                     *)
LEMMA SortedLists ==
  ASSUME NEW S \in SUBSET Seq(Int), IsFiniteSet(S)
  PROVE  Enumerates(Sorted(S), S)
<1> DEFINE R == {p \in S \X S : Before(p[1], p[2])}
<1>1. \A x, y \in S : <<x, y>> \in R <=> Before(x, y)
  OBVIOUS
<1>2. \A x \in S : Preceding(R, S, x) = {y \in S : Before(y, x)}
  BY <1>1 DEF Preceding
<1> HIDE DEF R
<1>3. Rows(R, S)
  <2>1. \A x \in S : <<x, x>> \notin R
    BY <1>1, BeforeOrder
  <2>2. \A x, y, z \in S : <<x, y>> \in R /\ <<y, z>> \in R => <<x, z>> \in R
    BY <1>1, BeforeOrder
  <2>3. \A x, y \in S : x = y \/ <<x, y>> \in R \/ <<y, x>> \in R
    BY <1>1, BeforeTotal
  <2>4. QED BY <2>1, <2>2, <2>3 DEF Rows
<1>4. Sorted(S) = ByPlace(S, R)
  BY <1>2 DEF Sorted, InOrder, ByPlace
<1>5. QED BY <1>3, <1>4, PlacesList

(* What is scored: by score, and a surface at a time.                       *)
IsScored(x) == x.score \in Fractions /\ x.surface \in Seq(Int)

(* Scored surfaces are in an order; those that it does not tell apart       *)
(* agree.                                                                   *)
LEMMA ScoredOrder ==
  ASSUME NEW x, NEW y, NEW z, IsScored(x), IsScored(y), IsScored(z)
  PROVE  /\ ~ScoredAhead(x, x)
         /\ ScoredAhead(x, y) => ~ScoredAhead(y, x)
         /\ ScoredAhead(x, y) /\ ScoredAhead(y, z) => ScoredAhead(x, z)
         /\ ~ScoredAhead(x, y) /\ ~ScoredAhead(y, x)
              => Equal(x.score, y.score) /\ x.surface = y.surface
<1>1. /\ x.score \in Fractions /\ y.score \in Fractions /\ z.score \in Fractions
      /\ x.surface \in Seq(Int) /\ y.surface \in Seq(Int) /\ z.surface \in Seq(Int)
  BY DEF IsScored
<1>2. ~ScoredAhead(x, x)
  BY <1>1, FractionsCompare, BeforeOrder DEF ScoredAhead
<1>3. ScoredAhead(x, y) /\ ScoredAhead(y, z) => ScoredAhead(x, z)
  <2>1. /\ Above(x.score, y.score) /\ Above(y.score, z.score) => Above(x.score, z.score)
        /\ Equal(x.score, y.score) /\ Above(y.score, z.score) => Above(x.score, z.score)
        /\ Above(x.score, y.score) /\ Equal(y.score, z.score) => Above(x.score, z.score)
        /\ Equal(x.score, y.score) /\ Equal(y.score, z.score) => Equal(x.score, z.score)
    BY <1>1, FractionOrder
  <2>2. Before(x.surface, y.surface) /\ Before(y.surface, z.surface) => Before(x.surface, z.surface)
    BY <1>1, BeforeOrder
  <2>3. QED BY <2>1, <2>2, Zenon DEF ScoredAhead
<1>4. ScoredAhead(x, y) => ~ScoredAhead(y, x)
  <2>1. /\ ~(Above(x.score, y.score) /\ Above(y.score, x.score))
        /\ ~(Above(x.score, y.score) /\ Equal(x.score, y.score))
        /\ ~(Above(y.score, x.score) /\ Equal(x.score, y.score))
        /\ Equal(x.score, y.score) <=> Equal(y.score, x.score)
    BY <1>1, FractionsCompare
  <2>2. ~(Before(x.surface, y.surface) /\ Before(y.surface, x.surface))
    BY <1>1, BeforeOrder
  <2>3. QED BY <2>1, <2>2, Zenon DEF ScoredAhead
<1>5. ~ScoredAhead(x, y) /\ ~ScoredAhead(y, x) => Equal(x.score, y.score) /\ x.surface = y.surface
  <2>1. /\ Above(x.score, y.score) \/ Equal(x.score, y.score) \/ Above(y.score, x.score)
        /\ Equal(x.score, y.score) <=> Equal(y.score, x.score)
    BY <1>1, FractionsCompare
  <2>2. x.surface = y.surface \/ Before(x.surface, y.surface) \/ Before(y.surface, x.surface)
    BY <1>1, BeforeTotal
  <2>3. QED BY <2>1, <2>2, Zenon DEF ScoredAhead
<1>6. QED BY <1>2, <1>3, <1>4, <1>5

(* A list cut short holds the first of its members.                         *)
LEMMA CutFacts ==
  ASSUME NEW T, NEW q \in Seq(T), NEW n \in Nat
  PROVE  /\ CutTo(q, n) \in Seq(T)
         /\ Len(CutTo(q, n)) = IF n <= Len(q) THEN n ELSE Len(q)
         /\ \A i \in 1 .. Len(CutTo(q, n)) : i \in 1 .. Len(q) /\ CutTo(q, n)[i] = q[i]
<1>1. Len(q) \in Nat
  OBVIOUS
<1>2. Min({n, Len(q)}) = IF n <= Len(q) THEN n ELSE Len(q)
  <2> DEFINE S == {n, Len(q)}
  <2>1. (IF n <= Len(q) THEN n ELSE Len(q)) \in S /\
            \A y \in S : (IF n <= Len(q) THEN n ELSE Len(q)) <= y
    BY <1>1
  <2>2. Min(S) \in S /\ \A y \in S : Min(S) <= y
    BY <2>1 DEF Min
  <2>3. QED BY <1>1, <2>1, <2>2
<1> DEFINE m == IF n <= Len(q) THEN n ELSE Len(q)
<1>3. m \in 0 .. Len(q)
  BY <1>1
<1>4. CutTo(q, n) = SubSeq(q, 1, m)
  BY <1>2 DEF CutTo
<1> HIDE DEF m
<1>5. /\ SubSeq(q, 1, m) \in Seq(T) /\ Len(SubSeq(q, 1, m)) = m
      /\ \A i \in 1 .. m : SubSeq(q, 1, m)[i] = q[i] /\ i \in 1 .. Len(q)
  BY <1>1, <1>3
<1>6. QED BY <1>4, <1>5 DEF m

(* The best of finitely many scored surfaces are some of them.              *)
LEMMA BestOfFacts ==
  ASSUME NEW S, IsFiniteSet(S), request.caps.each \in Nat,
         \A x \in S : IsScored(x),
         \A x, y \in S : x.surface = y.surface => x = y
  PROVE  BestOf(S) \in Seq(S)
<1> DEFINE R == {p \in S \X S : ScoredAhead(p[1], p[2])}
<1>1. \A x, y \in S : <<x, y>> \in R <=> ScoredAhead(x, y)
  OBVIOUS
<1>2. \A x \in S : Preceding(R, S, x) = {y \in S : ScoredAhead(y, x)}
  BY <1>1 DEF Preceding
<1> HIDE DEF R
<1>3. Rows(R, S)
  <2>1. \A x \in S : <<x, x>> \notin R
    BY <1>1, ScoredOrder
  <2>2. \A x, y, z \in S : <<x, y>> \in R /\ <<y, z>> \in R => <<x, z>> \in R
    BY <1>1, ScoredOrder
  <2>3. \A x, y \in S : x = y \/ <<x, y>> \in R \/ <<y, x>> \in R
    BY <1>1, ScoredOrder
  <2>4. QED BY <2>1, <2>2, <2>3 DEF Rows
<1>4. InOrder(S, ScoredAhead) = ByPlace(S, R)
  BY <1>2 DEF InOrder, ByPlace
<1>5. InOrder(S, ScoredAhead) \in Seq(S)
  BY <1>3, <1>4, PlacesList DEF Enumerates
<1>6. BestOf(S) = CutTo(InOrder(S, ScoredAhead), request.caps.each)
  BY DEF BestOf
<1>7. QED BY <1>5, <1>6, CutFacts

----------------------------------------------------------------------------
(* Evidence.                                                                *)

IsEvidence(v) == v.count \in Nat \ {0} /\ IsFiniteSet(v.occurrenceIds)

(* What several rows count together: no more than the largest count or the  *)
(* ids there are.                                                           *)
LEMMA TotalFacts ==
  ASSUME NEW rows, IsFiniteSet(rows), rows # {}, \A r \in rows : IsEvidence(r)
  PROVE  /\ IsEvidence(Total(rows))
         /\ Total(rows).occurrenceIds = UNION {r.occurrenceIds : r \in rows}
         /\ \A B \in Nat : /\ \A r \in rows : r.count <= B
                           /\ Cardinality(UNION {r.occurrenceIds : r \in rows}) <= B
                           => Total(rows).count <= B
<1> DEFINE ids == UNION {r.occurrenceIds : r \in rows}
           counts == {r.count : r \in rows}
           Each == \A r \in rows : r.occurrenceIds # {} /\ Cardinality(r.occurrenceIds) = r.count
<1>1. Total(rows).occurrenceIds = ids /\
          Total(rows).count = IF Each THEN Cardinality(ids) ELSE Max(counts)
  BY DEF Total
<1>2. IsFiniteSet(ids)
  <2> DEFINE f == [r \in rows |-> r.occurrenceIds]
  <2>1. IsFiniteSet({f[r] : r \in DOMAIN f})
    <3>1. DOMAIN f = rows /\ f = [r \in DOMAIN f |-> f[r]]
      OBVIOUS
    <3> HIDE DEF f
    <3>2. QED BY <3>1, FiniteRange
  <2>2. {f[r] : r \in DOMAIN f} = {r.occurrenceIds : r \in rows}
    OBVIOUS
  <2>3. \A X \in {r.occurrenceIds : r \in rows} : IsFiniteSet(X)
    BY DEF IsEvidence
  <2>4. QED BY <2>1, <2>2, <2>3, FS_UNION
<1>3. Cardinality(ids) \in Nat
  BY <1>2, FS_CardinalityType
<1>4. counts \in SUBSET (Nat \ {0}) /\ counts # {} /\ IsFiniteSet(counts)
  <2> DEFINE f == [r \in rows |-> r.count]
  <2>1. IsFiniteSet({f[r] : r \in DOMAIN f})
    <3>1. DOMAIN f = rows /\ f = [r \in DOMAIN f |-> f[r]]
      OBVIOUS
    <3> HIDE DEF f
    <3>2. QED BY <3>1, FiniteRange
  <2>2. {f[r] : r \in DOMAIN f} = counts
    OBVIOUS
  <2>3. QED BY <2>1, <2>2 DEF IsEvidence
<1>5. Max(counts) \in counts
  <2>1. counts \in SUBSET Int
    BY <1>4
  <2> HIDE DEF counts
  <2>2. QED BY <1>4, <2>1, MaxFacts
<1>6. ASSUME Each PROVE Cardinality(ids) # 0
  <2>1. PICK r \in rows : TRUE
    OBVIOUS
  <2>2. ids # {}
    BY <1>6, <2>1
  <2> HIDE DEF ids
  <2>3. QED BY <1>2, <2>2, FS_EmptySet
<1>7. ASSUME NEW B \in Nat, \A r \in rows : r.count <= B, Cardinality(ids) <= B
      PROVE  Total(rows).count <= B
  <2>1. Max(counts) <= B
    BY <1>5, <1>7
  <2>2. QED BY <1>1, <1>7, <2>1
<1>8. IsEvidence(Total(rows))
  <2>1. Max(counts) \in Nat \ {0}
    BY <1>4, <1>5
  <2> HIDE DEF counts, ids, Each
  <2>2. QED BY <1>1, <1>2, <1>3, <1>6, <2>1 DEF IsEvidence
<1>9. QED BY <1>1, <1>7, <1>8

----------------------------------------------------------------------------
(* Proposals.                                                               *)

(* Of finitely many that are scored, one has nobody ahead.                  *)
LEMMA BestExists ==
  ASSUME NEW S, IsFiniteSet(S), S # {}, \A x \in S : IsScored(x)
  PROVE  \E m \in S : \A n \in S : ~ScoredAhead(n, m)
<1> DEFINE R == {p \in S \X S : ScoredAhead(p[1], p[2])}
<1>1. \A x, y \in S : <<x, y>> \in R <=> ScoredAhead(x, y)
  OBVIOUS
<1> HIDE DEF R
<1>2. \A x \in S : <<x, x>> \notin R
  BY <1>1, ScoredOrder
<1>3. \A x, y, z \in S : <<x, y>> \in R /\ <<y, z>> \in R => <<x, z>> \in R
  BY <1>1, ScoredOrder
<1>4. \E x \in S : \A y \in S : <<y, x>> \notin R
  BY <1>2, <1>3, FirstExists
<1>5. QED BY <1>1, <1>4

(* Who has nobody ahead has the best score.                                 *)
LEMMA BestScore ==
  ASSUME NEW S, IsFiniteSet(S), S # {}, \A x \in S : IsScored(x), NEW best,
         best = CHOOSE m \in S : \A n \in S : ~ScoredAhead(n, m)
  PROVE  best \in S /\ \A n \in S : ~Above(n.score, best.score)
<1>1. best \in S /\ \A n \in S : ~ScoredAhead(n, best)
  BY BestExists
<1>2. QED BY <1>1 DEF ScoredAhead

(* What the tables of an index hold.                                        *)
IsCompiled(ix) ==
  /\ IsFiniteSet(DOMAIN ix.surfaces) /\ DOMAIN ix.surfaces \subseteq Seq(Int)
  /\ \A s \in DOMAIN ix.surfaces :
       /\ DOMAIN ix.surfaces[s] \subseteq DOMAIN TitleRank \cup {0}
       /\ \A e \in DOMAIN ix.surfaces[s] : IsEvidence(ix.surfaces[s][e])

IsMention(m) == m.surface \in DOMAIN index.surfaces /\ m.score \in Fractions
AreMentions(M) == IsFiniteSet(M) /\ \A m \in M : IsMention(m)

MineOf(M, e) == {m \in M : e \in ReachedBy(m.surface)}
RowsOfMentions(M, e) == {index.surfaces[m.surface][e] : m \in M}

(* p is what mentions of an entity propose.                                 *)
IsProposal(p, c, M, e) ==
  /\ p.entity = e /\ p.channel = c /\ IsScored(p) /\ IsEvidence(p.evidence)
  /\ \E m \in M : m.score = p.score
  /\ \A m \in M : ~Above(m.score, p.score)
  /\ p.evidence.occurrenceIds = UNION {r.occurrenceIds : r \in RowsOfMentions(M, e)}
  /\ \A B \in Nat : /\ \A r \in RowsOfMentions(M, e) : r.count <= B
                    /\ Cardinality(UNION {r.occurrenceIds : r \in RowsOfMentions(M, e)}) <= B
                    => p.evidence.count <= B

(* The rows of mentions that reach an entity are evidence.                  *)
LEMMA RowsFacts ==
  ASSUME IsCompiled(index), NEW M, AreMentions(M), NEW e, \A m \in M : e \in ReachedBy(m.surface)
  PROVE  /\ IsFiniteSet(RowsOfMentions(M, e))
         /\ \A r \in RowsOfMentions(M, e) : IsEvidence(r)
         /\ M # {} => RowsOfMentions(M, e) # {}
<1> DEFINE f == [m \in M |-> index.surfaces[m.surface][e]]
<1>1. IsFiniteSet({f[m] : m \in DOMAIN f})
  <2>1. DOMAIN f = M /\ f = [m \in DOMAIN f |-> f[m]]
    OBVIOUS
  <2> HIDE DEF f
  <2>2. QED BY <2>1, FiniteRange DEF AreMentions
<1>2. {f[m] : m \in DOMAIN f} = RowsOfMentions(M, e)
  BY DEF RowsOfMentions
<1>3. \A m \in M : IsEvidence(index.surfaces[m.surface][e])
  BY DEF AreMentions, IsMention, IsCompiled, ReachedBy
<1>4. QED BY <1>1, <1>2, <1>3 DEF RowsOfMentions

(* What a channel proposes for an entity comes of the mentions that reach   *)
(* it: the best score of them, and no more evidence than their rows hold.   *)
LEMMA ProposalFacts ==
  ASSUME IsCompiled(index), NEW M, AreMentions(M), NEW e, MineOf(M, e) # {}, NEW c
  PROVE  IsProposal(Proposal(c, M, e), c, MineOf(M, e), e)
<1> DEFINE mine == MineOf(M, e)
           best == CHOOSE m \in mine : \A n \in mine : ~ScoredAhead(n, m)
           p == Proposal(c, M, e)
<1>1. p = [entity |-> e, channel |-> c, surface |-> best.surface, score |-> best.score,
           evidence |-> Total(RowsOfMentions(mine, e))]
  BY DEF Proposal, MineOf, RowsOfMentions
<1>2. AreMentions(mine) /\ \A m \in mine : e \in ReachedBy(m.surface)
  <2>1. mine \in SUBSET M
    BY DEF MineOf
  <2>2. QED BY <2>1, FS_Subset DEF AreMentions, MineOf
<1>3. \A m \in mine : IsScored(m)
  BY <1>2 DEF AreMentions, IsMention, IsScored, IsCompiled
<1> HIDE DEF p
<1>4. best \in mine /\ \A n \in mine : ~Above(n.score, best.score)
  <2> HIDE DEF mine
  <2>1. IsFiniteSet(mine) /\ mine # {}
    BY <1>2 DEF AreMentions, mine
  <2>2. QED BY <1>3, <2>1, BestScore
<1> DEFINE rows == RowsOfMentions(mine, e)
<1>5. IsFiniteSet(rows) /\ (\A r \in rows : IsEvidence(r)) /\ rows # {}
  BY <1>2, RowsFacts
<1> HIDE DEF rows, mine, best
<1>6. /\ IsEvidence(Total(rows))
      /\ Total(rows).occurrenceIds = UNION {r.occurrenceIds : r \in rows}
      /\ \A B \in Nat : /\ \A r \in rows : r.count <= B
                        /\ Cardinality(UNION {r.occurrenceIds : r \in rows}) <= B
                        => Total(rows).count <= B
  BY <1>5, TotalFacts
<1>7. p.evidence = Total(rows) /\ p.entity = e /\ p.channel = c /\ p.score = best.score /\
          p.surface = best.surface
  BY <1>1 DEF rows
<1>8. IsScored(p)
  BY <1>3, <1>4, <1>7 DEF IsScored
<1>9. IsProposal(p, c, mine, e)
  BY <1>4, <1>6, <1>7, <1>8 DEF IsProposal, rows
<1>10. QED BY <1>9 DEF p, mine

----------------------------------------------------------------------------
(* The union.                                                               *)

EntitiesOf(M) == UNION {ReachedBy(m.surface) : m \in M}

(* A result proposes each entity that one of its mentions reaches.          *)
IsResult(r) ==
  /\ r.channel \in Channels /\ AreMentions(r.mentions)
  /\ Proposed(r) = {Proposal(r.channel, r.mentions, e) : e \in EntitiesOf(r.mentions)}
AreResults == IsFiniteSet(results) /\ \A r \in results : IsResult(r)

AllProposed == UNION {Proposed(r) : r \in results}
Holding(e) == {r \in results : MineOf(r.mentions, e) # {}}
MentionsOf(e) == UNION {MineOf(r.mentions, e) : r \in results}
RecordsOf(e) == RowsOfMentions(MentionsOf(e), e)
IdsOf(e) == UNION {r.occurrenceIds : r \in RecordsOf(e)}
MostOf(e) == Max({r.count : r \in RecordsOf(e)} \cup {Cardinality(IdsOf(e))})
Reached == {e \in DOMAIN TitleRank : MentionsOf(e) # {}}
ProposalOf(r, e) == Proposal(r.channel, r.mentions, e)

(* The proposals of an entity are those of the channels that reach it.      *)
LEMMA ProposalsOfEntity ==
  ASSUME AreResults, NEW e
  PROVE  {p \in AllProposed : p.entity = e} = {ProposalOf(r, e) : r \in Holding(e)}
<1>1. \A r \in results : Proposed(r) = {ProposalOf(r, d) : d \in EntitiesOf(r.mentions)}
  BY DEF AreResults, IsResult, ProposalOf
<1>2. \A r, d : ProposalOf(r, d).entity = d
  BY DEF ProposalOf, Proposal
<1>3. \A r \in results : e \in EntitiesOf(r.mentions) <=> r \in Holding(e)
  BY DEF EntitiesOf, Holding, MineOf
<1>4. \A p : p \in AllProposed <=>
          \E r \in results : \E d \in EntitiesOf(r.mentions) : p = ProposalOf(r, d)
  BY <1>1 DEF AllProposed
<1>5. \A p : p \in AllProposed /\ p.entity = e <=>
          \E r \in results : e \in EntitiesOf(r.mentions) /\ p = ProposalOf(r, e)
  BY <1>2, <1>4
<1>6. \A p : p \in AllProposed /\ p.entity = e <=> \E r \in Holding(e) : p = ProposalOf(r, e)
  BY <1>3, <1>5 DEF Holding
<1>7. QED BY <1>6

(* The entities proposed are those that some mention reaches.               *)
LEMMA EntitiesProposed ==
  ASSUME IsCompiled(index), AreResults
  PROVE  /\ {p.entity : p \in AllProposed} = Reached
         /\ \A e : e \in Reached <=> Holding(e) # {}
<1>1. \A r \in results : Proposed(r) = {ProposalOf(r, d) : d \in EntitiesOf(r.mentions)}
  BY DEF AreResults, IsResult, ProposalOf
<1>2. \A r, d : ProposalOf(r, d).entity = d
  BY DEF ProposalOf, Proposal
<1>3. \A e : e \in {p.entity : p \in AllProposed} <=>
          \E r \in results : e \in EntitiesOf(r.mentions)
  <2>1. \A p : p \in AllProposed <=>
            \E r \in results : \E d \in EntitiesOf(r.mentions) : p = ProposalOf(r, d)
    BY <1>1 DEF AllProposed
  <2>2. ASSUME NEW r \in results, NEW e \in EntitiesOf(r.mentions)
        PROVE  e \in {p.entity : p \in AllProposed}
    <3>1. ProposalOf(r, e) \in AllProposed /\ ProposalOf(r, e).entity = e
      BY <1>2, <2>1
    <3>2. QED BY <3>1
  <2>3. ASSUME NEW p \in AllProposed PROVE \E r \in results : p.entity \in EntitiesOf(r.mentions)
    BY <1>2, <2>1
  <2>4. QED BY <2>2, <2>3
<1>4. \A e : \A r \in results : e \in EntitiesOf(r.mentions) <=> MineOf(r.mentions, e) # {}
  BY DEF EntitiesOf, MineOf
<1>5. \A r \in results : EntitiesOf(r.mentions) \subseteq DOMAIN TitleRank
  BY DEF EntitiesOf, AreResults, IsResult, AreMentions, IsMention, IsCompiled, ReachedBy
<1>6. \A e : MentionsOf(e) # {} <=> \E r \in results : MineOf(r.mentions, e) # {}
  BY DEF MentionsOf
<1>7. \A e : e \in Reached <=> \E r \in results : e \in EntitiesOf(r.mentions)
  BY <1>4, <1>5, <1>6 DEF Reached
<1>8. QED BY <1>3, <1>4, <1>7 DEF Holding

(* u is what an entity's mentions unite to.                                 *)
IsUnited(u, e) ==
  /\ u.entity = e /\ u.score \in Fractions
  /\ u.channels = {r.channel : r \in Holding(e)} /\ IsFiniteSet(u.channels)
  /\ \E m \in MentionsOf(e) : Equal(m.score, u.score)
  /\ \A m \in MentionsOf(e) : ~Above(m.score, u.score)
  /\ u.evidence.occurrenceIds \subseteq IdsOf(e)
  /\ u.evidence.count \in 1 .. MostOf(e)

(* The mentions of an entity, and their rows, are finitely many.            *)
LEMMA RecordsFacts ==
  ASSUME IsCompiled(index), AreResults, NEW e \in Reached
  PROVE  /\ AreMentions(MentionsOf(e)) /\ \A m \in MentionsOf(e) : e \in ReachedBy(m.surface)
         /\ \A r \in RecordsOf(e) : IsEvidence(r)
         /\ IsFiniteSet(IdsOf(e)) /\ MostOf(e) \in Nat
         /\ \A r \in RecordsOf(e) : r.count <= MostOf(e)
         /\ Cardinality(IdsOf(e)) <= MostOf(e)
<1>1. AreMentions(MentionsOf(e)) /\ \A m \in MentionsOf(e) : e \in ReachedBy(m.surface)
  <2> DEFINE f == [r \in results |-> MineOf(r.mentions, e)]
  <2>1. IsFiniteSet({f[r] : r \in DOMAIN f})
    <3>1. DOMAIN f = results /\ f = [r \in DOMAIN f |-> f[r]]
      OBVIOUS
    <3> HIDE DEF f
    <3>2. QED BY <3>1, FiniteRange DEF AreResults
  <2>2. {f[r] : r \in DOMAIN f} = {MineOf(r.mentions, e) : r \in results}
    OBVIOUS
  <2>3. ASSUME NEW r \in results PROVE IsFiniteSet(MineOf(r.mentions, e))
    <3>1. IsFiniteSet(r.mentions) /\ MineOf(r.mentions, e) \in SUBSET r.mentions
      BY DEF AreResults, IsResult, AreMentions, MineOf
    <3>2. QED BY <3>1, FS_Subset
  <2>4. \A X \in {MineOf(r.mentions, e) : r \in results} : IsFiniteSet(X)
    BY <2>3
  <2>5. IsFiniteSet(MentionsOf(e))
    BY <2>1, <2>2, <2>4, FS_UNION DEF MentionsOf
  <2>6. \A m \in MentionsOf(e) : IsMention(m) /\ e \in ReachedBy(m.surface)
    BY DEF MentionsOf, MineOf, AreResults, IsResult, AreMentions
  <2>7. QED BY <2>5, <2>6 DEF AreMentions
<1>2. IsFiniteSet(RecordsOf(e)) /\ (\A r \in RecordsOf(e) : IsEvidence(r)) /\ RecordsOf(e) # {}
  <2>1. MentionsOf(e) # {}
    BY DEF Reached
  <2>2. QED BY <1>1, <2>1, RowsFacts DEF RecordsOf
<1>3. IsFiniteSet(IdsOf(e))
  <2>1. IsEvidence(Total(RecordsOf(e))) /\ Total(RecordsOf(e)).occurrenceIds = IdsOf(e)
    BY <1>2, TotalFacts DEF IdsOf
  <2>2. QED BY <2>1 DEF IsEvidence
<1> DEFINE N == {r.count : r \in RecordsOf(e)} \cup {Cardinality(IdsOf(e))}
<1>4. IsFiniteSet(N) /\ N \in SUBSET Nat
  <2> DEFINE f == [r \in RecordsOf(e) |-> r.count]
  <2>1. IsFiniteSet({f[r] : r \in DOMAIN f})
    <3>1. DOMAIN f = RecordsOf(e) /\ f = [r \in DOMAIN f |-> f[r]]
      OBVIOUS
    <3> HIDE DEF f
    <3>2. QED BY <1>2, <3>1, FiniteRange
  <2>2. {f[r] : r \in DOMAIN f} = {r.count : r \in RecordsOf(e)}
    OBVIOUS
  <2>3. Cardinality(IdsOf(e)) \in Nat
    BY <1>3, FS_CardinalityType
  <2>4. QED BY <1>2, <2>1, <2>2, <2>3, FS_AddElement DEF IsEvidence
<1>5. Max(N) \in N /\ \A y \in N : y <= Max(N)
  <2>1. N \in SUBSET Int /\ N # {}
    BY <1>4
  <2> HIDE DEF N
  <2>2. QED BY <1>4, <2>1, MaxFacts
<1>6. MostOf(e) = Max(N)
  BY DEF MostOf
<1>7. MostOf(e) \in Nat
  BY <1>4, <1>5, <1>6
<1>8. QED BY <1>1, <1>2, <1>3, <1>5, <1>6, <1>7

(* The proposals of an entity, against all its mentions.                    *)
LEMMA ProposalsFit ==
  ASSUME IsCompiled(index), AreResults, NEW e \in Reached, NEW r \in Holding(e)
  PROVE  /\ IsProposal(ProposalOf(r, e), r.channel, MineOf(r.mentions, e), e)
         /\ MineOf(r.mentions, e) \subseteq MentionsOf(e)
         /\ ProposalOf(r, e).evidence.occurrenceIds \subseteq IdsOf(e)
         /\ ProposalOf(r, e).evidence.count <= MostOf(e)
<1> DEFINE M == MineOf(r.mentions, e)
           p == ProposalOf(r, e)
<1>1. r \in results /\ M # {} /\ AreMentions(r.mentions)
  BY DEF Holding, AreResults, IsResult
<1>2. IsProposal(p, r.channel, M, e)
  BY <1>1, ProposalFacts DEF ProposalOf
<1>3. M \subseteq MentionsOf(e)
  BY <1>1 DEF MentionsOf
<1>4. RowsOfMentions(M, e) \subseteq RecordsOf(e)
  BY <1>3 DEF RecordsOf, RowsOfMentions
<1>5. UNION {w.occurrenceIds : w \in RowsOfMentions(M, e)} \in SUBSET IdsOf(e)
  BY <1>4 DEF IdsOf
<1> HIDE DEF p, M
<1>6. p.evidence.occurrenceIds \subseteq IdsOf(e)
  BY <1>2, <1>5 DEF IsProposal
<1>7. Cardinality(UNION {w.occurrenceIds : w \in RowsOfMentions(M, e)}) <= MostOf(e)
  <2> DEFINE U == UNION {w.occurrenceIds : w \in RowsOfMentions(M, e)}
  <2>1. U \in SUBSET IdsOf(e)
    BY <1>5
  <2> HIDE DEF U
  <2>2. IsFiniteSet(U) /\ Cardinality(U) <= Cardinality(IdsOf(e))
    BY <2>1, RecordsFacts, FS_Subset
  <2>3. Cardinality(U) \in Nat /\ Cardinality(IdsOf(e)) \in Nat /\ MostOf(e) \in Nat /\
            Cardinality(IdsOf(e)) <= MostOf(e)
    BY <2>2, RecordsFacts, FS_CardinalityType
  <2>4. Cardinality(U) <= MostOf(e)
    BY <2>2, <2>3
  <2>5. QED BY <2>4 DEF U
<1>8. \A w \in RowsOfMentions(M, e) : w.count <= MostOf(e)
  BY <1>4, RecordsFacts
<1>9. p.evidence.count <= MostOf(e)
  <2>1. MostOf(e) \in Nat
    BY RecordsFacts
  <2>2. QED BY <1>2, <1>7, <1>8, <2>1 DEF IsProposal
<1>10. QED BY <1>2, <1>3, <1>6, <1>9 DEF p, M

(* What an entity's proposals unite to fits its mentions.                   *)
LEMMA UnitedFacts ==
  ASSUME IsCompiled(index), AreResults, NEW e \in Reached
  PROVE  IsUnited(UnitedOf(AllProposed, e), e)
<1> DEFINE mine == {p \in AllProposed : p.entity = e}
           best == CHOOSE p \in mine : \A q \in mine : ~ScoredAhead(q, p)
           first == {p \in mine : \A q \in mine :
                       q.surface = p.surface => ChannelRank[p.channel] <= ChannelRank[q.channel]}
           u == UnitedOf(AllProposed, e)
<1>1. u = [entity |-> e, score |-> best.score, channels |-> {p.channel : p \in mine},
           surfaces |-> {p.surface : p \in mine},
           evidence |-> Total({p.evidence : p \in first})]
  BY DEF UnitedOf
<1> HIDE DEF u
<1>2. mine = {ProposalOf(r, e) : r \in Holding(e)}
  BY ProposalsOfEntity
<1>3. Holding(e) # {} /\ IsFiniteSet(Holding(e)) /\ Holding(e) \subseteq results
  <2>1. Holding(e) \in SUBSET results
    BY DEF Holding
  <2>2. QED BY <2>1, EntitiesProposed, FS_Subset DEF AreResults
<1>4. IsFiniteSet(mine) /\ mine # {}
  <2> DEFINE f == [r \in Holding(e) |-> ProposalOf(r, e)]
  <2>1. IsFiniteSet({f[r] : r \in DOMAIN f})
    <3>1. DOMAIN f = Holding(e) /\ f = [r \in DOMAIN f |-> f[r]]
      OBVIOUS
    <3> HIDE DEF f
    <3>2. QED BY <1>3, <3>1, FiniteRange
  <2>2. {f[r] : r \in DOMAIN f} = {ProposalOf(r, e) : r \in Holding(e)}
    OBVIOUS
  <2> HIDE DEF f, mine
  <2>3. QED BY <1>2, <1>3, <2>1, <2>2
<1>5. \A r \in Holding(e) :
        /\ IsProposal(ProposalOf(r, e), r.channel, MineOf(r.mentions, e), e)
        /\ MineOf(r.mentions, e) \subseteq MentionsOf(e)
        /\ ProposalOf(r, e).evidence.occurrenceIds \subseteq IdsOf(e)
        /\ ProposalOf(r, e).evidence.count <= MostOf(e)
  BY ProposalsFit
<1>6. ASSUME NEW p \in mine
      PROVE  /\ IsScored(p) /\ IsEvidence(p.evidence) /\ p.channel \in Channels
             /\ p.evidence.occurrenceIds \subseteq IdsOf(e) /\ p.evidence.count <= MostOf(e)
             /\ \E m \in MentionsOf(e) : m.score = p.score
  <2>1. PICK r \in Holding(e) : p = ProposalOf(r, e)
    BY <1>2
  <2>2. p.channel = r.channel /\ r.channel \in Channels
    BY <1>3, <1>5, <2>1 DEF IsProposal, AreResults, IsResult
  <2>3. QED BY <1>5, <2>1, <2>2 DEF IsProposal
<1> HIDE DEF mine
<1>7. best \in mine /\ \A q \in mine : ~Above(q.score, best.score)
  <2>1. \A p \in mine : IsScored(p)
    BY <1>6
  <2>2. QED BY <1>4, <2>1, BestScore
<1> HIDE DEF best
<1>8. u.entity = e /\ u.score = best.score /\ u.score \in Fractions
  BY <1>1, <1>6, <1>7 DEF IsScored
<1>9. u.channels = {r.channel : r \in Holding(e)}
  <2>1. \A r \in Holding(e) : ProposalOf(r, e).channel = r.channel
    BY <1>5 DEF IsProposal
  <2>2. {p.channel : p \in mine} = {r.channel : r \in Holding(e)}
    BY <1>2, <2>1
  <2>3. QED BY <1>1, <2>2
<1>10. IsFiniteSet(u.channels)
  <2>1. u.channels \in SUBSET Channels
    BY <1>3, <1>9 DEF AreResults, IsResult
  <2>2. IsFiniteSet(Channels)
    <3>1. Channels = {"char", "edit", "exact"} \cup {"simhash"} /\
              {"char", "edit", "exact"} = {"char", "edit"} \cup {"exact"}
          /\ {"char", "edit"} = {"char"} \cup {"edit"}
      BY DEF Channels
    <3>2. IsFiniteSet({"char"})
      BY FS_Singleton
    <3>3. QED BY <3>1, <3>2, FS_AddElement
  <2>3. QED BY <2>1, <2>2, FS_Subset
<1>11. \E m \in MentionsOf(e) : Equal(m.score, u.score)
  <2>1. PICK m \in MentionsOf(e) : m.score = best.score
    BY <1>6, <1>7
  <2>2. Equal(m.score, u.score)
    BY <1>8, <2>1, FractionsCompare
  <2>3. QED BY <2>2
<1>12. ASSUME NEW m \in MentionsOf(e) PROVE ~Above(m.score, u.score)
  <2>1. PICK r \in results : m \in MineOf(r.mentions, e)
    BY DEF MentionsOf
  <2>2. r \in Holding(e)
    BY <2>1 DEF Holding
  <2> DEFINE p == ProposalOf(r, e)
  <2>3. ~Above(m.score, p.score) /\ p \in mine
    BY <1>2, <1>5, <2>1, <2>2 DEF IsProposal
  <2>4. ~Above(p.score, u.score)
    BY <1>7, <1>8, <2>3
  <2>5. m.score \in Fractions /\ p.score \in Fractions
    <3>1. m.score \in Fractions
      BY RecordsFacts DEF AreMentions, IsMention
    <3> HIDE DEF p
    <3>2. QED BY <1>6, <2>3, <3>1 DEF IsScored
  <2> HIDE DEF p
  <2>6. QED BY <1>8, <2>3, <2>4, <2>5, FractionOrder, FractionsCompare
<1>13. first # {} /\ first \subseteq mine
  <2> DEFINE ranks == {ChannelRank[p.channel] : p \in mine}
  <2>1. \A c \in Channels : ChannelRank[c] \in Nat
    BY DEF Channels, ChannelRank
  <2>2. ranks \in SUBSET Nat /\ ranks # {}
    BY <1>4, <1>6, <2>1
  <2>3. PICK k \in ranks : \A j \in ranks : k <= j
    BY <2>2, LeastNumber
  <2>4. PICK p \in mine : k = ChannelRank[p.channel]
    OBVIOUS
  <2>5. \A q \in mine : ChannelRank[p.channel] <= ChannelRank[q.channel]
    BY <2>3, <2>4
  <2>6. p \in first
    BY <2>5
  <2>7. QED BY <2>6
<1> DEFINE rows == {p.evidence : p \in first}
<1> HIDE DEF first
<1>14. IsFiniteSet(rows) /\ rows # {} /\ \A v \in rows : IsEvidence(v)
  <2> DEFINE f == [p \in first |-> p.evidence]
  <2>1. IsFiniteSet(first)
    <3>1. first \in SUBSET mine
      BY <1>13
    <3>2. QED BY <1>4, <3>1, FS_Subset
  <2>2. IsFiniteSet({f[p] : p \in DOMAIN f})
    <3>1. DOMAIN f = first /\ f = [p \in DOMAIN f |-> f[p]]
      OBVIOUS
    <3> HIDE DEF f
    <3>2. QED BY <2>1, <3>1, FiniteRange
  <2>3. {f[p] : p \in DOMAIN f} = rows
    OBVIOUS
  <2>4. QED BY <1>6, <1>13, <2>2, <2>3
<1>15. UNION {v.occurrenceIds : v \in rows} \in SUBSET IdsOf(e)
  BY <1>6, <1>13
<1>16. \A v \in rows : v.count <= MostOf(e)
  BY <1>6, <1>13
<1> HIDE DEF rows
<1>17. u.evidence = Total(rows)
  BY <1>1 DEF rows
<1>18. /\ IsEvidence(Total(rows))
       /\ Total(rows).occurrenceIds = UNION {v.occurrenceIds : v \in rows}
       /\ \A B \in Nat : /\ \A v \in rows : v.count <= B
                         /\ Cardinality(UNION {v.occurrenceIds : v \in rows}) <= B
                         => Total(rows).count <= B
  BY <1>14, TotalFacts
<1>19. Cardinality(UNION {v.occurrenceIds : v \in rows}) <= MostOf(e)
  <2> DEFINE U == UNION {v.occurrenceIds : v \in rows}
  <2>1. U \in SUBSET IdsOf(e)
    BY <1>15
  <2> HIDE DEF U
  <2>2. IsFiniteSet(U) /\ Cardinality(U) <= Cardinality(IdsOf(e))
    BY <2>1, RecordsFacts, FS_Subset
  <2>3. Cardinality(U) \in Nat /\ Cardinality(IdsOf(e)) \in Nat /\ MostOf(e) \in Nat /\
            Cardinality(IdsOf(e)) <= MostOf(e)
    BY <2>2, RecordsFacts, FS_CardinalityType
  <2>4. Cardinality(U) <= MostOf(e)
    BY <2>2, <2>3
  <2>5. QED BY <2>4 DEF U
<1>20. u.evidence.occurrenceIds \subseteq IdsOf(e) /\ u.evidence.count \in 1 .. MostOf(e)
  <2>1. MostOf(e) \in Nat
    BY RecordsFacts
  <2>2. Total(rows).count <= MostOf(e) /\ Total(rows).count \in Nat \ {0}
    BY <1>16, <1>18, <1>19, <2>1 DEF IsEvidence
  <2>3. Total(rows).count \in 1 .. MostOf(e)
    BY <2>1, <2>2
  <2>4. QED BY <1>15, <1>17, <1>18, <2>3
<1>21. IsUnited(u, e)
  BY <1>8, <1>9, <1>10, <1>11, <1>12, <1>20 DEF IsUnited
<1>22. QED BY <1>21 DEF u

IsListed(u) ==
  u.entity \in DOMAIN TitleRank /\ u.score \in Fractions /\ IsFiniteSet(u.channels)

(* The order of the union: by channels, by score, by title.                 *)
LEMMA UnitedOrder ==
  ASSUME NEW u, NEW v, NEW w, IsListed(u), IsListed(v), IsListed(w)
  PROVE  /\ ~UnitedAhead(u, u)
         /\ UnitedAhead(u, v) /\ UnitedAhead(v, w) => UnitedAhead(u, w)
         /\ u.entity = v.entity \/ UnitedAhead(u, v) \/ UnitedAhead(v, u)
         /\ UnitedAhead(u, v) => Cardinality(u.channels) >= Cardinality(v.channels)
<1> DEFINE l == Cardinality(u.channels)
           m == Cardinality(v.channels)
           n == Cardinality(w.channels)
           x == TitleRank[u.entity]
           y == TitleRank[v.entity]
           z == TitleRank[w.entity]
           a == u.score
           b == v.score
           c == w.score
<1>1. l \in Nat /\ m \in Nat /\ n \in Nat
  BY FS_CardinalityType DEF IsListed
<1>2. /\ x \in Nat /\ y \in Nat /\ z \in Nat
      /\ x = y => u.entity = v.entity
  <2>1. IsInjective(TitleRank) /\ Range(TitleRank) \subseteq Nat
    BY FuzzyAssumption
  <2>2. \A e \in DOMAIN TitleRank : TitleRank[e] \in Nat
    BY <2>1 DEF Range
  <2>3. QED BY <2>1, <2>2 DEF IsListed, IsInjective
<1>3. a \in Fractions /\ b \in Fractions /\ c \in Fractions
  BY DEF IsListed
<1>4. /\ UnitedAhead(u, u) <=> l > l \/ (l = l /\ Above(a, a)) \/ (l = l /\ Equal(a, a) /\ x < x)
      /\ UnitedAhead(u, v) <=> l > m \/ (l = m /\ Above(a, b)) \/ (l = m /\ Equal(a, b) /\ x < y)
      /\ UnitedAhead(v, u) <=> m > l \/ (m = l /\ Above(b, a)) \/ (m = l /\ Equal(b, a) /\ y < x)
      /\ UnitedAhead(v, w) <=> m > n \/ (m = n /\ Above(b, c)) \/ (m = n /\ Equal(b, c) /\ y < z)
      /\ UnitedAhead(u, w) <=> l > n \/ (l = n /\ Above(a, c)) \/ (l = n /\ Equal(a, c) /\ x < z)
  BY DEF UnitedAhead
<1> HIDE DEF l, m, n, x, y, z, a, b, c
<1>5. /\ Above(a, b) /\ Above(b, c) => Above(a, c)
      /\ Equal(a, b) /\ Above(b, c) => Above(a, c)
      /\ Above(a, b) /\ Equal(b, c) => Above(a, c)
      /\ Equal(a, b) /\ Equal(b, c) => Equal(a, c)
  BY <1>3, FractionOrder
<1>6. /\ Above(a, b) \/ Equal(a, b) \/ Above(b, a)
      /\ Equal(a, b) <=> Equal(b, a)
      /\ ~Above(a, a)
  BY <1>3, FractionsCompare
<1>7. ~UnitedAhead(u, u)
  BY <1>1, <1>2, <1>4, <1>6
<1>8. UnitedAhead(u, v) => l >= m
  BY <1>1, <1>4
<1>9. UnitedAhead(u, v) /\ UnitedAhead(v, w) => UnitedAhead(u, w)
  <2>1. /\ l > m /\ m > n => l > n
        /\ l > m /\ m = n => l > n
        /\ l = m /\ m > n => l > n
        /\ x < y /\ y < z => x < z
    BY <1>1, <1>2
  <2>2. QED BY <1>4, <1>5, <2>1, Zenon
<1>10. u.entity = v.entity \/ UnitedAhead(u, v) \/ UnitedAhead(v, u)
  <2>1. (l > m \/ l = m \/ m > l) /\ (x < y \/ x = y \/ y < x)
    BY <1>1, <1>2
  <2>2. QED BY <1>2, <1>4, <1>6, <2>1
<1>11. QED BY <1>7, <1>8, <1>9, <1>10 DEF l, m

IsFaithful(v) ==
  LET all == v.retained \o v.pruned
  IN  /\ IsInjective([i \in 1 .. Len(all) |-> all[i].entity])
      /\ {u.entity : u \in Range(all)} = Reached
      /\ \A u \in Range(all) : IsUnited(u, u.entity)
      /\ Len(v.retained) = Min({request.caps.union, Len(all)})
      /\ \A u \in Range(v.retained), w \in Range(v.pruned) :
           Cardinality(u.channels) >= Cardinality(w.channels)

(* That of a union is what the property of the runs says.                   *)
LEMMA FaithfulIs ==
  ASSUME united # NoUnion, IsFaithful(united)
  PROVE  UnionFaithful
<1>1. \A e : MentionsOf(e) = UNION {{m \in r.mentions : e \in ReachedBy(m.surface)} : r \in results}
  BY DEF MentionsOf, MineOf
<1>2. \A e : RecordsOf(e) = {index.surfaces[m.surface][e] : m \in MentionsOf(e)}
  BY DEF RecordsOf, RowsOfMentions
<1>3. \A e : Holding(e) = {r \in results : {m \in r.mentions : e \in ReachedBy(m.surface)} # {}}
  BY DEF Holding, MineOf
<1>4. QED BY <1>1, <1>2, <1>3 DEF UnionFaithful, IsFaithful, IsUnited, IdsOf, MostOf, Reached

UnionOf ==
  LET order == InOrder({UnitedOf(AllProposed, e) : e \in {p.entity : p \in AllProposed}},
      UnitedAhead)
  IN  [retained |-> CutTo(order, request.caps.union),
       pruned |-> SubSeq(order, request.caps.union + 1, Len(order))]

(* Two lists, one behind the other.                                         *)
IsConcat(w, u, v, T) ==
  /\ \A i \in 1 .. Len(u) : w[i] = u[i]
  /\ \A i \in 1 .. Len(v) : w[Len(u) + i] = v[i]
  /\ w \in Seq(T) /\ Len(w) = Len(u) + Len(v)

(* Places of two lists, one behind the other.                               *)
LEMMA ConcatIs ==
  ASSUME NEW T, NEW u \in Seq(T), NEW v \in Seq(T)
  PROVE  IsConcat(u \o v, u, v, T)
BY DEF IsConcat

(* Cutting a list leaves the rest of it.                                    *)
IsCut(c, r, q, n) ==
  /\ c \o r = q
  /\ \A i \in 1 .. Len(r) : n + i \in 1 .. Len(q) /\ r[i] = q[n + i]
  /\ Len(r) \in Nat
  /\ \A i \in 1 .. Len(c) : i <= n /\ i \in 1 .. Len(q) /\ c[i] = q[i]

(* A list is what is cut off it and the rest.                               *)
LEMMA CutAndRest ==
  ASSUME NEW T, NEW q \in Seq(T), NEW n \in Nat
  PROVE  IsCut(CutTo(q, n), SubSeq(q, n + 1, Len(q)), q, n)
<1> DEFINE c == CutTo(q, n)
           r == SubSeq(q, n + 1, Len(q))
           k == IF n <= Len(q) THEN n ELSE Len(q)
<1>1. Len(q) \in Nat
  OBVIOUS
<1>2. c \in Seq(T) /\ Len(c) = k /\ \A i \in 1 .. Len(c) : i \in 1 .. Len(q) /\ c[i] = q[i]
  BY CutFacts
<1> HIDE DEF c
<1>3. r \in Seq(T) /\ Len(r) = Len(q) - k /\ \A i \in 1 .. Len(r) : n + i \in 1 .. Len(q) /\
          r[i] = q[n + i]
  <2>1. CASE n <= Len(q)
    <3>1. n + 1 \in 1 .. Len(q) + 1
      BY <1>1, <2>1
    <3>2. /\ SubSeq(q, n + 1, Len(q)) \in Seq(T)
          /\ Len(SubSeq(q, n + 1, Len(q))) = Len(q) - n
          /\ \A i \in 1 .. Len(q) - n : n + i \in 1 .. Len(q) /\
                 SubSeq(q, n + 1, Len(q))[i] = q[n + i]
      BY <1>1, <3>1
    <3>3. QED BY <2>1, <3>2
  <2>2. CASE ~(n <= Len(q))
    <3>1. r = <<>>
      BY <1>1, <2>2
    <3>2. QED BY <1>1, <2>2, <3>1
  <2>3. QED BY <2>1, <2>2
<1> HIDE DEF r
<1>4. k \in Nat /\ k <= n /\ k <= Len(q) /\ (Len(r) # 0 => k = n)
  BY <1>1, <1>3
<1> HIDE DEF k
<1>5. c \o r = q
  <2>0. /\ \A i \in 1 .. k : (c \o r)[i] = c[i]
        /\ \A i \in 1 .. Len(r) : (c \o r)[k + i] = r[i]
        /\ c \o r \in Seq(T) /\ Len(c \o r) = k + Len(r)
    <3>1. c \in Seq(T) /\ r \in Seq(T) /\ Len(c) = k
      BY <1>2, <1>3
    <3>2. /\ \A i \in 1 .. Len(c) : (c \o r)[i] = c[i]
          /\ \A i \in 1 .. Len(r) : (c \o r)[Len(c) + i] = r[i]
          /\ c \o r \in Seq(T) /\ Len(c \o r) = Len(c) + Len(r)
      BY <3>1, ConcatIs DEF IsConcat
    <3>3. QED BY <3>1, <3>2, Zenon
  <2>1. c \o r \in Seq(T) /\ Len(c \o r) = Len(q)
    BY <1>1, <1>3, <1>4, <2>0
  <2>2. ASSUME NEW i \in 1 .. Len(q) PROVE (c \o r)[i] = q[i]
    <3>1. CASE i <= k
      <4>1. i \in 1 .. k /\ i \in 1 .. Len(c)
        BY <1>2, <1>4, <3>1
      <4>2. QED BY <1>2, <2>0, <4>1
    <3>2. CASE ~(i <= k)
      <4>1. i - k \in 1 .. Len(r) /\ k + (i - k) = i
        BY <1>1, <1>3, <1>4, <3>2
      <4>2. k = n
        <5>1. Len(r) # 0
          BY <1>1, <1>3, <1>4, <4>1
        <5>2. QED BY <1>4, <5>1
      <4> DEFINE j == i - k
      <4>3. j \in 1 .. Len(r) /\ k + j = i /\ n + j = i
        BY <4>1, <4>2
      <4> HIDE DEF j
      <4>4. (c \o r)[k + j] = r[j] /\ r[j] = q[n + j]
        BY <1>3, <2>0, <4>3
      <4>5. QED BY <4>3, <4>4
    <3>3. QED BY <3>1, <3>2
  <2> DEFINE w == c \o r
  <2>3. w \in Seq(T) /\ Len(w) = Len(q) /\ \A i \in 1 .. Len(q) : w[i] = q[i]
    BY <2>1, <2>2
  <2> HIDE DEF w
  <2>4. w = [i \in 1 .. Len(q) |-> w[i]] /\ q = [i \in 1 .. Len(q) |-> q[i]]
    BY <2>3
  <2>5. w = q
    BY <2>3, <2>4
  <2>6. QED BY <2>5 DEF w
<1>6. Len(r) \in Nat
  BY <1>3
<1>7. \A i \in 1 .. Len(c) : i <= n /\ i \in 1 .. Len(q) /\ c[i] = q[i]
  BY <1>2, <1>4
<1>8. QED BY <1>3, <1>5, <1>6, <1>7 DEF c, r, IsCut

(* What the code unites fits what was found.                                *)
LEMMA UnionOfFaithful ==
  ASSUME IsCompiled(index), AreResults, request.caps.union \in Nat
  PROVE  IsFaithful(UnionOf)
<1> DEFINE S == {UnitedOf(AllProposed, e) : e \in Reached}
           R == {p \in S \X S : UnitedAhead(p[1], p[2])}
           order == InOrder(S, UnitedAhead)
           cap == request.caps.union
           rest == SubSeq(order, cap + 1, Len(order))
<1>1. UnionOf = [retained |-> CutTo(order, cap), pruned |-> rest]
  BY EntitiesProposed DEF UnionOf
<1>2. \A e \in Reached : IsUnited(UnitedOf(AllProposed, e), e)
  BY UnitedFacts
<1>3. IsFiniteSet(S)
  <2> DEFINE f == [e \in Reached |-> UnitedOf(AllProposed, e)]
  <2>1. IsFiniteSet(Reached)
    <3>1. Reached \in SUBSET DOMAIN TitleRank
      BY DEF Reached
    <3>2. QED BY <3>1, FS_Subset, FuzzyAssumption
  <2>2. IsFiniteSet({f[e] : e \in DOMAIN f})
    <3>1. DOMAIN f = Reached /\ f = [e \in DOMAIN f |-> f[e]]
      OBVIOUS
    <3> HIDE DEF f
    <3>2. QED BY <2>1, <3>1, FiniteRange
  <2>3. {f[e] : e \in DOMAIN f} = S
    OBVIOUS
  <2>4. QED BY <2>2, <2>3
<1>4. /\ \A u \in S : IsUnited(u, u.entity) /\ u.entity \in Reached /\ IsListed(u)
      /\ \A u, v \in S : u.entity = v.entity => u = v
      /\ {u.entity : u \in S} = Reached
  <2>1. \A e \in Reached : UnitedOf(AllProposed, e).entity = e
    BY <1>2 DEF IsUnited
  <2>2. ASSUME NEW u \in S PROVE IsUnited(u, u.entity) /\ u.entity \in Reached /\ IsListed(u)
    <3>1. PICK e \in Reached : u = UnitedOf(AllProposed, e)
      OBVIOUS
    <3>2. IsUnited(u, e) /\ u.entity = e /\ e \in DOMAIN TitleRank
      BY <1>2, <2>1, <3>1 DEF Reached
    <3>3. QED BY <3>2 DEF IsUnited, IsListed
  <2>3. \A u, v \in S : u.entity = v.entity => u = v
    BY <2>1
  <2>4. {u.entity : u \in S} = Reached
    BY <2>1
  <2>5. QED BY <2>2, <2>3, <2>4
<1> HIDE DEF S
<1>5. \A u, v \in S : <<u, v>> \in R <=> UnitedAhead(u, v)
  OBVIOUS
<1>6. \A u \in S : Preceding(R, S, u) = {v \in S : UnitedAhead(v, u)}
  BY <1>5 DEF Preceding
<1> HIDE DEF R
<1>7. Rows(R, S)
  <2>1. \A u \in S : <<u, u>> \notin R
    BY <1>4, <1>5, UnitedOrder
  <2>2. \A u, v, w \in S : <<u, v>> \in R /\ <<v, w>> \in R => <<u, w>> \in R
    BY <1>4, <1>5, UnitedOrder
  <2>3. \A u, v \in S : u = v \/ <<u, v>> \in R \/ <<v, u>> \in R
    BY <1>4, <1>5, UnitedOrder
  <2>4. QED BY <2>1, <2>2, <2>3 DEF Rows
<1>8. order = ByPlace(S, R)
  BY <1>6 DEF InOrder, ByPlace
<1> HIDE DEF order
<1>9. Enumerates(order, S) /\ \A i, j \in 1 .. Cardinality(S) : i < j =>
          <<order[i], order[j]>> \in R
  BY <1>3, <1>7, <1>8, PlacesList
<1>10. order \in Seq(S) /\ Len(order) = Cardinality(S) /\ Len(order) \in Nat
  BY <1>9 DEF Enumerates
<1> HIDE DEF cap
<1>a. cap \in Nat
  BY DEF cap
<1>b. rest = SubSeq(order, cap + 1, Len(order))
  OBVIOUS
<1> HIDE DEF rest
<1>11. /\ CutTo(order, cap) \o rest = order /\ Len(rest) \in Nat
       /\ \A i \in 1 .. Len(rest) : cap + i \in 1 .. Len(order) /\ rest[i] = order[cap + i]
       /\ \A i \in 1 .. Len(CutTo(order, cap)) : i <= cap /\ i \in 1 .. Len(order) /\
              CutTo(order, cap)[i] = order[i]
  <2>1. order \in Seq(S)
    BY <1>10
  <2>2. IsCut(CutTo(order, cap), SubSeq(order, cap + 1, Len(order)), order, cap)
    BY <2>1, <1>a, CutAndRest
  <2>3. QED BY <1>b, <2>2 DEF IsCut
<1> DEFINE top == CutTo(order, cap)
<1>12. Range(order) = S
  <2>1. DOMAIN order = 1 .. Len(order)
    BY <1>10
  <2>2. QED BY <1>9, <1>10, <2>1 DEF Enumerates, Range
<1>13. IsInjective([i \in 1 .. Len(order) |-> order[i].entity])
  <2>1. ASSUME NEW i \in 1 .. Len(order), NEW j \in 1 .. Len(order), order[i].entity =
            order[j].entity
        PROVE  i = j
    <3>1. order[i] \in S /\ order[j] \in S
      BY <1>9, <1>10 DEF Enumerates
    <3>2. order[i] = order[j]
      BY <1>4, <2>1, <3>1
    <3>3. QED BY <1>9, <1>10, <3>2 DEF Enumerates
  <2>2. QED BY <2>1 DEF IsInjective
<1>14. Len(top) = Min({cap, Len(order)})
  <2>1. Len(top) = (IF cap <= Len(order) THEN cap ELSE Len(order))
    BY <1>10, <1>a, CutFacts
  <2> DEFINE Q == {cap, Len(order)}
             m == IF cap <= Len(order) THEN cap ELSE Len(order)
  <2>2. m \in Q /\ \A y \in Q : m <= y
    BY <1>10, <1>a
  <2>3. Min(Q) \in Q /\ \A y \in Q : Min(Q) <= y
    BY <2>2 DEF Min
  <2>4. Min(Q) = m
    BY <1>10, <1>a, <2>2, <2>3
  <2>5. QED BY <2>1, <2>4
<1>15. ASSUME NEW u \in Range(top), NEW w \in Range(rest)
       PROVE  Cardinality(u.channels) >= Cardinality(w.channels)
  <2>1. top \in Seq(S) /\ DOMAIN top = 1 .. Len(top)
    BY <1>10, <1>a, CutFacts
  <2>2. PICK i \in 1 .. Len(top) : u = top[i]
    BY <2>1 DEF Range
  <2>3. PICK j \in 1 .. Len(rest) : w = rest[j]
    <3>1. DOMAIN rest = 1 .. Len(rest)
      BY <1>10, <1>a, <1>b
    <3>2. QED BY <3>1 DEF Range
  <2>4. i \in 1 .. Len(order) /\ cap + j \in 1 .. Len(order) /\ i < cap + j
    <3>1. i <= cap /\ i \in 1 .. Len(order) /\ cap + j \in 1 .. Len(order)
      BY <1>11
    <3>2. QED BY <3>1, <1>a
  <2>5. u = order[i] /\ w = order[cap + j] /\ u \in S /\ w \in S
    <3>1. u = order[i] /\ w = order[cap + j]
      BY <1>11, <2>2, <2>3
    <3>2. QED BY <1>9, <1>10, <2>4, <3>1 DEF Enumerates
  <2>6. UnitedAhead(u, w)
    BY <1>5, <1>9, <1>10, <2>4, <2>5
  <2>7. QED BY <1>4, <2>5, <2>6, UnitedOrder
<1> HIDE DEF top
<1>16. UnionOf.retained = top /\ UnionOf.pruned = rest /\ top \o rest = order
  BY <1>1, <1>11 DEF top
<1>17. QED BY <1>4, <1>12, <1>13, <1>14, <1>15, <1>16 DEF IsFaithful, cap

----------------------------------------------------------------------------
(* Lookup.                                                                  *)

(* Two that nobody can tell apart come where the other does.                *)
LEMMA ScoredTies ==
  ASSUME NEW x, NEW y, NEW z, IsScored(x), IsScored(y), IsScored(z)
  PROVE  /\ ScoredAhead(x, y) /\ ~ScoredAhead(z, y) /\ ~ScoredAhead(y, z) => ScoredAhead(x, z)
         /\ ~ScoredAhead(x, y) /\ ~ScoredAhead(y, x) /\ ScoredAhead(y, z) => ScoredAhead(x, z)
         /\ ~ScoredAhead(x, y) /\ ~ScoredAhead(y, x) /\ ~ScoredAhead(y, z) /\ ~ScoredAhead(z, y)
              => ~ScoredAhead(x, z) /\ ~ScoredAhead(z, x)
<1>1. /\ x.score \in Fractions /\ y.score \in Fractions /\ z.score \in Fractions
      /\ x.surface \in Seq(Int) /\ y.surface \in Seq(Int) /\ z.surface \in Seq(Int)
  BY DEF IsScored
<1>2. /\ ~ScoredAhead(x, y) /\ ~ScoredAhead(y, x) =>
             Equal(x.score, y.score) /\ x.surface = y.surface
      /\ ~ScoredAhead(y, z) /\ ~ScoredAhead(z, y) =>
             Equal(y.score, z.score) /\ y.surface = z.surface
  BY ScoredOrder
<1>3. /\ Equal(x.score, y.score) /\ Above(y.score, z.score) => Above(x.score, z.score)
      /\ Above(x.score, y.score) /\ Equal(y.score, z.score) => Above(x.score, z.score)
      /\ Equal(x.score, y.score) /\ Equal(y.score, z.score) => Equal(x.score, z.score)
  BY <1>1, FractionOrder
<1>4. /\ (ScoredAhead(x, y) <=>
             (Above(x.score, y.score) \/ (Equal(x.score, y.score) /\ Before(x.surface, y.surface))))
      /\ (ScoredAhead(y, z) <=>
             (Above(y.score, z.score) \/ (Equal(y.score, z.score) /\ Before(y.surface, z.surface))))
      /\ (ScoredAhead(x, z) <=>
             (Above(x.score, z.score) \/ (Equal(x.score, z.score) /\ Before(x.surface, z.surface))))
  BY Zenon DEF ScoredAhead
<1>5. /\ Equal(x.score, z.score) /\ x.surface = z.surface =>
             ~ScoredAhead(x, z) /\ ~ScoredAhead(z, x)
  <2>1. /\ ~(Above(x.score, z.score) /\ Equal(x.score, z.score))
        /\ ~(Above(z.score, x.score) /\ Equal(x.score, z.score))
    BY <1>1, FractionsCompare
  <2>2. ~Before(x.surface, x.surface)
    BY <1>1, BeforeOrder
  <2>3. QED BY <2>1, <2>2 DEF ScoredAhead
<1>6. ScoredAhead(x, y) /\ ~ScoredAhead(z, y) /\ ~ScoredAhead(y, z) => ScoredAhead(x, z)
  BY <1>2, <1>3, <1>4
<1>7. ~ScoredAhead(x, y) /\ ~ScoredAhead(y, x) /\ ScoredAhead(y, z) => ScoredAhead(x, z)
  BY <1>2, <1>3, <1>4
<1>8. ~ScoredAhead(x, y) /\ ~ScoredAhead(y, x) /\ ~ScoredAhead(y, z) /\ ~ScoredAhead(z, y)
        => ~ScoredAhead(x, z) /\ ~ScoredAhead(z, x)
  BY <1>2, <1>3, <1>5
<1>9. QED BY <1>6, <1>7, <1>8

(* The order of proposals: as they are scored, then by entity.              *)
LEMMA ProposalOrder ==
  ASSUME NEW p, NEW q, NEW r, IsScored(p), IsScored(q), IsScored(r),
         p.entity \in Nat, q.entity \in Nat, r.entity \in Nat
  PROVE  /\ ~ProposalAhead(p, p)
         /\ ProposalAhead(p, q) /\ ProposalAhead(q, r) => ProposalAhead(p, r)
         /\ p.entity = q.entity \/ ProposalAhead(p, q) \/ ProposalAhead(q, p)
<1> DEFINE d == p.entity
           e == q.entity
           f == r.entity
<1>1. d \in Nat /\ e \in Nat /\ f \in Nat
  OBVIOUS
<1>2. /\ (ProposalAhead(p, p) <=> (ScoredAhead(p, p) \/ (~ScoredAhead(p, p) /\ d < d)))
      /\ (ProposalAhead(p, q) <=> (ScoredAhead(p, q) \/ (~ScoredAhead(q, p) /\ d < e)))
      /\ (ProposalAhead(q, p) <=> (ScoredAhead(q, p) \/ (~ScoredAhead(p, q) /\ e < d)))
      /\ (ProposalAhead(q, r) <=> (ScoredAhead(q, r) \/ (~ScoredAhead(r, q) /\ e < f)))
      /\ (ProposalAhead(p, r) <=> (ScoredAhead(p, r) \/ (~ScoredAhead(r, p) /\ d < f)))
  BY Zenon DEF ProposalAhead
<1> HIDE DEF d, e, f
<1>3. /\ ~ScoredAhead(p, p)
      /\ ScoredAhead(p, q) => ~ScoredAhead(q, p)
      /\ ScoredAhead(p, r) => ~ScoredAhead(r, p)
      /\ ScoredAhead(r, p) => ~ScoredAhead(p, r)
      /\ ScoredAhead(q, r) => ~ScoredAhead(r, q)
      /\ ScoredAhead(p, q) /\ ScoredAhead(q, r) => ScoredAhead(p, r)
  BY ScoredOrder
<1>4. /\ ScoredAhead(p, q) /\ ~ScoredAhead(r, q) /\ ~ScoredAhead(q, r) => ScoredAhead(p, r)
      /\ ~ScoredAhead(p, q) /\ ~ScoredAhead(q, p) /\ ScoredAhead(q, r) => ScoredAhead(p, r)
      /\ ~ScoredAhead(p, q) /\ ~ScoredAhead(q, p) /\ ~ScoredAhead(q, r) /\ ~ScoredAhead(r, q)
           => ~ScoredAhead(p, r) /\ ~ScoredAhead(r, p)
  BY ScoredTies
<1>5. ~ProposalAhead(p, p)
  BY <1>1, <1>2, <1>3
<1>6. d = e \/ ProposalAhead(p, q) \/ ProposalAhead(q, p)
  <2>1. d = e \/ d < e \/ e < d
    BY <1>1
  <2>2. QED BY <1>2, <1>3, <2>1, Zenon
<1>7. ProposalAhead(p, q) /\ ProposalAhead(q, r) => ProposalAhead(p, r)
  <2>1. d < e /\ e < f => d < f
    BY <1>1
  <2>2. QED BY <1>2, <1>3, <1>4, <2>1, Zenon
<1>8. QED BY <1>5, <1>6, <1>7 DEF d, e

Mention == [from : Nat, to : Nat, surface : DOMAIN index.surfaces, score : Fractions]

(* Whatever a channel finds, its result proposes all that is reached.       *)
LEMMA ResultFacts ==
  ASSUME IsCompiled(index), NEW c \in Channels, Matches(c).found \in Seq(Mention)
  PROVE  IsResult(Result(c))
<1> DEFINE found == Matches(c).found
           M == Deduplicated(Range(found))
           S == {Proposal(c, M, e) : e \in EntitiesOf(M)}
           R == {p \in S \X S : ProposalAhead(p[1], p[2])}
           order == InOrder(S, ProposalAhead)
<1>1. /\ Result(c).channel = c /\ Result(c).mentions = M /\ Result(c).proposals = order
  BY DEF Result, ResultOf, EntitiesOf
<1>2. IsFiniteSet(Range(found)) /\ \A m \in Range(found) : m \in Mention
  <2> DEFINE f == found
  <2> HIDE DEF f
  <2>1. f \in Seq(Mention)
    BY DEF f
  <2>2. DOMAIN f = 1 .. Len(f) /\ Len(f) \in Nat /\ f = [i \in DOMAIN f |-> f[i]]
    BY <2>1
  <2>3. IsFiniteSet(DOMAIN f)
    BY <2>2, FirstNumbers
  <2>4. IsFiniteSet({f[i] : i \in DOMAIN f})
    BY <2>2, <2>3, FiniteRange
  <2>5. \A i \in DOMAIN f : f[i] \in Mention
    BY <2>1, <2>2
  <2>6. QED BY <2>4, <2>5 DEF f, Range
<1>3. AreMentions(M)
  <2>1. M \in SUBSET Range(found)
    BY DEF Deduplicated
  <2>2. IsFiniteSet(M)
    BY <1>2, <2>1, FS_Subset
  <2>3. \A m \in M : IsMention(m)
    BY <1>2, <2>1 DEF Mention, IsMention
  <2>4. QED BY <2>2, <2>3 DEF AreMentions
<1> HIDE DEF M
<1>4. \A e \in EntitiesOf(M) : e \in DOMAIN TitleRank /\ e \in Nat /\ MineOf(M, e) # {}
  <2>1. \A e \in EntitiesOf(M) : e \in DOMAIN TitleRank /\ MineOf(M, e) # {}
    BY <1>3 DEF EntitiesOf, MineOf, AreMentions, IsMention, IsCompiled, ReachedBy
  <2>2. DOMAIN TitleRank \subseteq Nat
    BY FuzzyAssumption
  <2>3. QED BY <2>1, <2>2
<1>5. \A e \in EntitiesOf(M) : IsScored(Proposal(c, M, e)) /\ Proposal(c, M, e).entity = e
  BY <1>3, <1>4, ProposalFacts DEF IsProposal
<1>6. IsFiniteSet(S)
  <2> DEFINE f == [e \in EntitiesOf(M) |-> Proposal(c, M, e)]
  <2>1. IsFiniteSet(EntitiesOf(M))
    <3>1. EntitiesOf(M) \in SUBSET DOMAIN TitleRank
      BY <1>4
    <3>2. QED BY <3>1, FS_Subset, FuzzyAssumption
  <2>2. IsFiniteSet({f[e] : e \in DOMAIN f})
    <3>1. DOMAIN f = EntitiesOf(M) /\ f = [e \in DOMAIN f |-> f[e]]
      OBVIOUS
    <3> HIDE DEF f
    <3>2. QED BY <2>1, <3>1, FiniteRange
  <2>3. {f[e] : e \in DOMAIN f} = S
    OBVIOUS
  <2>4. QED BY <2>2, <2>3
<1>7. /\ \A p \in S : IsScored(p) /\ p.entity \in Nat
      /\ \A p, q \in S : p.entity = q.entity => p = q
  BY <1>4, <1>5

<1>8. \A p, q \in S : <<p, q>> \in R <=> ProposalAhead(p, q)
  OBVIOUS
<1> HIDE DEF S
<1>9. \A p \in S : Preceding(R, S, p) = {q \in S : ProposalAhead(q, p)}
  BY <1>8 DEF Preceding
<1> HIDE DEF R
<1>10. Rows(R, S)
  <2>1. \A p \in S : <<p, p>> \notin R
    BY <1>7, <1>8, ProposalOrder
  <2>2. \A p, q, r \in S : <<p, q>> \in R /\ <<q, r>> \in R => <<p, r>> \in R
    BY <1>7, <1>8, ProposalOrder
  <2>3. \A p, q \in S : p = q \/ <<p, q>> \in R \/ <<q, p>> \in R
    BY <1>7, <1>8, ProposalOrder
  <2>4. QED BY <2>1, <2>2, <2>3 DEF Rows
<1>11. order = ByPlace(S, R)
  <2> DEFINE Placed(f) == [i \in 1 .. Cardinality(S) |-> CHOOSE p \in S : f[p] = i]
             f == [p \in S |-> 1 + Cardinality({q \in S : ProposalAhead(q, p)})]
             g == [p \in S |-> 1 + Cardinality(Preceding(R, S, p))]
  <2>1. f = g
    BY <1>9
  <2>2. order = Placed(f) /\ ByPlace(S, R) = Placed(g)
    BY Zenon DEF InOrder, ByPlace
  <2> HIDE DEF Placed, f, g
  <2>3. QED BY <2>1, <2>2
<1> HIDE DEF order
<1>12. Enumerates(order, S)
  BY <1>6, <1>10, <1>11, PlacesList
<1>13. Range(order) = S
  <2>1. DOMAIN order = 1 .. Cardinality(S)
    BY <1>12 DEF Enumerates
  <2>2. QED BY <1>12, <2>1 DEF Enumerates, Range
<1>14. QED BY <1>1, <1>3, <1>13 DEF IsResult, Proposed, S

----------------------------------------------------------------------------
(* Texts.                                                                   *)

(* The token of a word is a text, and a word more makes one.                *)
LEMMA TokenFacts ==
  ASSUME NEW w \in Written
  PROVE  TokenOf[w] \in Seq(Int)
<1>1. TokenOf[w] \in Seq(Nat \ 0 .. 2)
  BY FuzzyAssumption
<1>2. Nat \ 0 .. 2 \subseteq Int
  OBVIOUS
<1> DEFINE t == TokenOf[w]
<1> HIDE DEF t
<1>3. t \in Seq(Nat \ 0 .. 2) => t \in Seq(Int)
  BY <1>2
<1>4. QED BY <1>1, <1>3 DEF t

(* A text with a word more is a text.                                       *)
LEMMA WithWordText ==
  ASSUME NEW text \in Seq(Int), NEW w \in Written
  PROVE  WithWord(text, w) \in Seq(Int)
<1>1. TokenOf[w] \in Seq(Int)
  BY TokenFacts
<1> DEFINE u == IF text = <<>> THEN <<>> ELSE <<Space>>
           t == TokenOf[w]
<1>2. u \in Seq(Int)
  <2>1. <<>> \in Seq(Int) /\ <<0>> \in Seq(Int)
    OBVIOUS
  <2>2. QED BY <2>1 DEF Space
<1>3. WithWord(text, w) = text \o u \o t
  BY DEF WithWord
<1> HIDE DEF u, t
<1>4. text \o u \in Seq(Int)
  BY <1>2
<1>5. QED BY <1>1, <1>3, <1>4 DEF t

IsText(f, words) ==
  f = [S \in SUBSET DOMAIN words |->
         IF S = {} THEN <<>> ELSE WithWord(f[S \ {Max(S)}], words[Max(S)])]

(* The fold that makes a text of words, as a function of sets of places.    *)
LEMMA IsTextFold ==
  ASSUME NEW words
  PROVE  TextOf(words) = (CHOOSE f : IsText(f, words))[DOMAIN words]
BY DEF TextOf, FoldLeft, MapThenFoldSet, IsText

(* Words make a text.                                                       *)
LEMMA TextFacts ==
  ASSUME NEW words \in Seq(Written)
  PROVE  TextOf(words) \in Seq(Int)
<1> DEFINE n == Len(words)
           X == Seq(Int)
           c == <<>>
           F == [p \in X \X (1 .. n) |-> WithWord(p[1], words[p[2]])]
           g == CHOOSE f : IsText(f, words)
<1>1. n \in Nat /\ DOMAIN words = 1 .. n /\ \A i \in 1 .. n : words[i] \in Written
  OBVIOUS
<1>2. c \in X
  OBVIOUS
<1>3. \A x \in X : \A i \in 1 .. n : WithWord(x, words[i]) \in X
  BY <1>1, WithWordText
<1> HIDE DEF X, n, c
<1>4. F \in [X \X (1 .. n) -> X] /\
          \A x \in X : \A i \in 1 .. n : F[<<x, i>>] = WithWord(x, words[i])
  BY <1>3
<1> HIDE DEF F
<1>5. PICK f \in [SUBSET (1 .. n) -> X] : Unfolds(f, c, n, F)
  BY <1>1, <1>2, <1>4, FoldMade
<1>6. IsText(f, words)
  <2>1. \A S \in SUBSET (1 .. n) : S # {} =>
          F[<<f[S \ {Max(S)}], Max(S)>>] = WithWord(f[S \ {Max(S)}], words[Max(S)])
    BY <1>1, <1>4, HighestPlace
  <2>2. f = [S \in SUBSET (1 .. n) |->
               IF S = {} THEN c ELSE WithWord(f[S \ {Max(S)}], words[Max(S)])]
    BY <1>5, <2>1 DEF Unfolds
  <2>3. QED BY <1>1, <2>2 DEF IsText, c
<1>7. IsText(g, words)
  BY <1>6
<1> HIDE DEF g
<1>8. g = [S \in SUBSET (1 .. n) |->
             IF S = {} THEN c ELSE WithWord(g[S \ {Max(S)}], words[Max(S)])]
  BY <1>1, <1>7 DEF IsText, c
<1>9. \A S \in SUBSET (1 .. n) : S # {} /\ g[S \ {Max(S)}] \in X =>
        g[S] = F[<<g[S \ {Max(S)}], Max(S)>>]
  <2>1. SUFFICES ASSUME NEW S \in SUBSET (1 .. n), S # {}, g[S \ {Max(S)}] \in X
                 PROVE  g[S] = F[<<g[S \ {Max(S)}], Max(S)>>]
    OBVIOUS
  <2>2. Max(S) \in 1 .. n
    BY <1>1, <2>1, HighestPlace
  <2>3. g[S] = WithWord(g[S \ {Max(S)}], words[Max(S)])
    BY <1>8, <2>1
  <2>4. QED BY <1>4, <2>1, <2>2, <2>3
<1>10. g[{}] = c
  BY <1>8
<1>11. g[1 .. n] \in X
  <2>1. n \in Nat /\ F \in [X \X (1 .. n) -> X]
    BY <1>1, <1>4
  <2>2. QED BY <1>2, <1>9, <1>10, <2>1, FoldFollows
<1>12. QED BY <1>1, <1>11, IsTextFold DEF g, X

(* The grams of a text.                                                     *)
LEMMA GramsFacts ==
  ASSUME NEW text \in Seq(Int)
  PROVE  IsFiniteSet(Grams(text)) /\ Grams(text) # {} /\ Cardinality(Grams(text)) \in Nat \ {0}
<1> DEFINE marked == <<StartMark>> \o text \o <<EndMark>>
           n == Len(marked) - NgramSize + 1
           f == [i \in 1 .. n |-> SubSeq(marked, i, i + NgramSize - 1)]
<1>1. marked \in Seq(Int) /\ Len(marked) \in Nat
  <2>1. <<2>> \in Seq(Int) /\ <<1>> \in Seq(Int)
    OBVIOUS
  <2>2. <<2>> \o text \in Seq(Int)
    BY <2>1
  <2>3. <<2>> \o text \o <<1>> \in Seq(Int)
    BY <2>1, <2>2
  <2>4. marked = <<2>> \o text \o <<1>>
    BY DEF StartMark, EndMark
  <2> HIDE DEF marked
  <2>5. marked \in Seq(Int)
    BY <2>3, <2>4
  <2>6. QED BY <2>5
<1>2. NgramSize \in 2 .. 4
  BY FuzzyAssumption
<1>3. Grams(text) = IF Len(marked) <= NgramSize THEN {marked}
                    ELSE {SubSeq(marked, i, i + NgramSize - 1) : i \in 1 .. n}
  BY DEF Grams
<1>4. DOMAIN f = 1 .. n /\ f = [i \in DOMAIN f |-> f[i]]
  OBVIOUS
<1>5. {SubSeq(marked, i, i + NgramSize - 1) : i \in 1 .. n} = {f[i] : i \in DOMAIN f}
  OBVIOUS
<1> HIDE DEF f, marked
<1>6. CASE Len(marked) <= NgramSize
  <2>1. IsFiniteSet({marked}) /\ {marked} # {}
    BY FS_Singleton
  <2>2. IsFiniteSet(Grams(text)) /\ Grams(text) # {}
    BY <1>3, <1>6, <2>1
  <2>3. QED BY <2>2, FS_CardinalityType, FS_EmptySet
<1>7. CASE ~(Len(marked) <= NgramSize)
  <2>1. n \in Nat /\ 1 \in 1 .. n
    BY <1>1, <1>2, <1>7
  <2> HIDE DEF n
  <2>2. IsFiniteSet({f[i] : i \in DOMAIN f})
    BY <1>4, <2>1, FirstNumbers, FiniteRange
  <2>3. {f[i] : i \in DOMAIN f} # {}
    BY <1>4, <2>1
  <2>4. IsFiniteSet(Grams(text)) /\ Grams(text) # {}
    BY <1>3, <1>5, <1>7, <2>2, <2>3
  <2>5. QED BY <2>4, FS_CardinalityType, FS_EmptySet
<1>8. QED BY <1>6, <1>7

(* A text has at least one token, and finitely many.                        *)
LEMMA TokensFacts ==
  ASSUME NEW text \in Seq(Int)
  PROVE  /\ TokenCount(text) \in Nat \ {0}
         /\ IsFiniteSet(TokensOf(text)) /\ TokensOf(text) \subseteq Seq(Int)
<1> DEFINE n == Len(text)
<1>1. n \in Nat /\ IsFiniteSet(1 .. n)
  BY FirstNumbers
<1>2. TokenCount(text) \in Nat \ {0}
  <2> DEFINE S == {i \in 1 .. n : text[i] = Space}
  <2>1. S \in SUBSET (1 .. n)
    OBVIOUS
  <2> HIDE DEF S
  <2>2. Cardinality(S) \in Nat
    BY <1>1, <2>1, FS_Subset, FS_CardinalityType
  <2>3. QED BY <2>2 DEF TokenCount, S
<1>3. IsFiniteSet(TokensOf(text)) /\ TokensOf(text) \subseteq Seq(Int)
  <2> DEFINE runs == {p \in (1 .. n) \X (1 .. n) :
                        /\ \A k \in p[1] .. p[2] : text[k] # Space
                        /\ p[1] = 1 \/ text[p[1] - 1] = Space
                        /\ p[2] = n \/ text[p[2] + 1] = Space}
             f == [r \in runs |-> SubSeq(text, r[1], r[2])]
  <2>1. runs \in SUBSET ((1 .. n) \X (1 .. n))
    OBVIOUS
  <2>2. TokensOf(text) = {SubSeq(text, r[1], r[2]) : r \in runs} \ {<<>>}
    BY DEF TokensOf
  <2> HIDE DEF runs
  <2>3. IsFiniteSet(runs)
    BY <1>1, <2>1, FS_Product, FS_Subset
  <2>4. DOMAIN f = runs /\ f = [r \in DOMAIN f |-> f[r]]
        /\ {SubSeq(text, r[1], r[2]) : r \in runs} = {f[r] : r \in DOMAIN f}
    OBVIOUS
  <2>5. \A r \in runs : f[r] \in Seq(Int)
    <3>1. \A a, b \in 1 .. n : SubSeq(text, a, b) \in Seq(Int)
      OBVIOUS
    <3>2. QED BY <2>1, <3>1
  <2> HIDE DEF f
  <2>6. IsFiniteSet({f[r] : r \in DOMAIN f})
    BY <2>3, <2>4, FiniteRange
  <2>7. TokensOf(text) \in SUBSET {f[r] : r \in DOMAIN f}
    BY <2>2, <2>4
  <2>8. QED BY <2>4, <2>5, <2>6, <2>7, FS_Subset
<1>4. QED BY <1>2, <1>3

(* What is read of posting lists: how much, and what was in it.             *)
Readings(T) == [read : Nat, hits : Seq(T)]

(* A posting list more is read.                                             *)
LEMMA ReadOnFacts ==
  ASSUME NEW T, NEW sofar \in Readings(T), NEW list \in Seq(T), request.caps.postings \in Nat
  PROVE  ReadOn(sofar, list) \in Readings(T)
<1> DEFINE cap == request.caps.postings
           taken == CutTo(list, cap - sofar.read)
<1>1. sofar.read \in Nat /\ sofar.hits \in Seq(T)
  BY DEF Readings
<1>2. CASE sofar.read >= cap
  BY <1>2 DEF ReadOn
<1>3. CASE ~(sofar.read >= cap)
  <2>1. cap - sofar.read \in Nat
    BY <1>1, <1>3
  <2>2. taken \in Seq(T)
    BY <2>1, CutFacts
  <2> HIDE DEF taken
  <2>3. sofar.hits \o taken \in Seq(T) /\ Len(taken) \in Nat
    BY <1>1, <2>2
  <2>4. ReadOn(sofar, list) = [read |-> sofar.read + Len(taken), hits |-> sofar.hits \o taken]
    BY <1>3 DEF ReadOn, taken
  <2>5. QED BY <1>1, <2>3, <2>4 DEF Readings
<1>4. QED BY <1>2, <1>3

IsReading(f, read, lists) ==
  f = [S \in SUBSET DOMAIN lists |->
         IF S = {} THEN [read |-> read, hits |-> <<>>]
         ELSE ReadOn(f[S \ {Max(S)}], lists[Max(S)])]

(* The fold that reads posting lists, as a function of sets of places.      *)
LEMMA IsReadingFold ==
  ASSUME NEW read, NEW lists
  PROVE  ReadLists(lists, read) = (CHOOSE f : IsReading(f, read, lists))[DOMAIN lists]
BY DEF ReadLists, FoldLeft, MapThenFoldSet, IsReading

(* What posting lists of a kind hold is all that is read of them.           *)
LEMMA ReadListsFacts ==
  ASSUME NEW T, NEW lists \in Seq(Seq(T)), NEW read \in Nat, request.caps.postings \in Nat
  PROVE  ReadLists(lists, read) \in Readings(T)
<1> DEFINE n == Len(lists)
           X == Readings(T)
           c == [read |-> read, hits |-> <<>>]
           F == [p \in X \X (1 .. n) |-> ReadOn(p[1], lists[p[2]])]
           g == CHOOSE f : IsReading(f, read, lists)
<1>1. n \in Nat /\ DOMAIN lists = 1 .. n /\ \A i \in 1 .. n : lists[i] \in Seq(T)
  OBVIOUS
<1>2. c \in X
  BY DEF Readings
<1>3. \A x \in X : \A i \in 1 .. n : ReadOn(x, lists[i]) \in X
  BY <1>1, ReadOnFacts
<1> HIDE DEF X, n, c
<1>4. F \in [X \X (1 .. n) -> X] /\ \A x \in X : \A i \in 1 .. n : F[<<x, i>>] = ReadOn(x, lists[i])
  BY <1>3
<1> HIDE DEF F
<1>5. PICK f \in [SUBSET (1 .. n) -> X] : Unfolds(f, c, n, F)
  BY <1>1, <1>2, <1>4, FoldMade
<1>6. IsReading(f, read, lists)
  <2>1. \A S \in SUBSET (1 .. n) : S # {} =>
          F[<<f[S \ {Max(S)}], Max(S)>>] = ReadOn(f[S \ {Max(S)}], lists[Max(S)])
    BY <1>1, <1>4, HighestPlace
  <2>2. f = [S \in SUBSET (1 .. n) |->
               IF S = {} THEN c ELSE ReadOn(f[S \ {Max(S)}], lists[Max(S)])]
    BY <1>5, <2>1 DEF Unfolds
  <2>3. QED BY <1>1, <2>2 DEF IsReading, c
<1>7. IsReading(g, read, lists)
  BY <1>6
<1> HIDE DEF g
<1>8. g = [S \in SUBSET (1 .. n) |->
             IF S = {} THEN c ELSE ReadOn(g[S \ {Max(S)}], lists[Max(S)])]
  BY <1>1, <1>7 DEF IsReading, c
<1>9. \A S \in SUBSET (1 .. n) : S # {} /\ g[S \ {Max(S)}] \in X =>
        g[S] = F[<<g[S \ {Max(S)}], Max(S)>>]
  BY <1>1, <1>4, <1>8, HighestPlace
<1>10. g[{}] = c
  BY <1>8
<1>11. g[1 .. n] \in X
  <2>1. n \in Nat /\ F \in [X \X (1 .. n) -> X]
    BY <1>1, <1>4
  <2>2. QED BY <1>2, <1>9, <1>10, <2>1, FoldFollows
<1>12. QED BY <1>1, <1>11, IsReadingFold DEF g, X

----------------------------------------------------------------------------
(* Distances.                                                               *)

(* A row of the table, above a text of n characters.                        *)
RowOf(n) == {r \in Seq(Int) : Len(r) = n + 1}

(* A cell more of a row.                                                    *)
LEMMA CellFacts ==
  ASSUME NEW left, NEW right \in Seq(Int), NEW rows \in RowOf(Len(right)) \X RowOf(Len(right)),
         NEW i \in Nat, NEW row \in Seq(Int) \ {<<>>}, NEW j \in 1 .. Len(right)
  PROVE  /\ NextCell(left, right, rows, i, row, j) \in Seq(Int) \ {<<>>}
         /\ Len(NextCell(left, right, rows, i, row, j)) = Len(row) + 1
<1> DEFINE n == Len(right)
           p == rows[2]
           b == rows[1]
           x == p[j + 1] + 1
           y == Last(row) + 1
           z == p[j] + (IF left[i] = right[j] THEN 0 ELSE 1)
           C == i > 1 /\ j > 1 /\ left[i] = right[j - 1] /\ left[i - 1] = right[j]
           D == IF C THEN {b[j - 1] + 1} ELSE {}
           S == {x, y, z} \cup D
<1>1. n \in Nat /\ p \in Seq(Int) /\ Len(p) = n + 1 /\ b \in Seq(Int) /\ Len(b) = n + 1
  BY DEF RowOf
<1>2. NextCell(left, right, rows, i, row, j) = Append(row, Min(S))
  BY DEF NextCell
<1>3. x \in Int /\ z \in Int
  <2>1. j \in 1 .. Len(p) /\ j + 1 \in 1 .. Len(p)
    BY <1>1
  <2> HIDE DEF p
  <2>2. \A k \in 1 .. Len(p) : p[k] \in Int
    BY <1>1
  <2>3. p[j] \in Int /\ p[j + 1] \in Int
    BY <2>1, <2>2
  <2> DEFINE u == p[j]
             v == p[j + 1]
             w == IF left[i] = right[j] THEN 0 ELSE 1
  <2>4. u \in Int /\ v \in Int /\ w \in Int
    BY <2>3
  <2> HIDE DEF u, v, w
  <2>5. v + 1 \in Int /\ u + w \in Int
    BY <2>4
  <2>6. QED BY <2>5 DEF u, v, w
<1>4. y \in Int
  <2>1. Len(row) \in 1 .. Len(row)
    OBVIOUS
  <2>2. Last(row) \in Int
    BY <2>1 DEF Last
  <2>3. QED BY <2>2
<1>5. D \in SUBSET Int /\ IsFiniteSet(D)
  <2>1. CASE C
    <3>0. j > 1
      BY <2>1
    <3>1. j - 1 \in 1 .. Len(b)
      <4> HIDE DEF b, C
      <4>1. QED BY <1>1, <3>0
    <3> HIDE DEF b
    <3>2. b[j - 1] \in Int
      BY <1>1, <3>1
    <3>3. D = {b[j - 1] + 1} /\ b[j - 1] + 1 \in Int
      BY <2>1, <3>2
    <3> HIDE DEF D
    <3>4. QED BY <3>3, FS_Singleton
  <2>2. CASE ~C
    BY <2>2, FS_EmptySet
  <2> HIDE DEF C
  <2>3. QED BY <2>1, <2>2
<1> HIDE DEF D, x, y, z
<1>6. S \in SUBSET Int /\ S # {} /\ IsFiniteSet(S)
  <2>1. S = (({x} \cup {y}) \cup {z}) \cup D
    OBVIOUS
  <2>2. IsFiniteSet({x} \cup {y})
    BY FS_Singleton, FS_Union
  <2>3. IsFiniteSet(({x} \cup {y}) \cup {z})
    BY <2>2, FS_Singleton, FS_Union
  <2>4. IsFiniteSet((({x} \cup {y}) \cup {z}) \cup D)
    BY <1>5, <2>3, FS_Union
  <2>5. S \in SUBSET Int /\ S # {}
    BY <1>3, <1>4, <1>5
  <2>6. QED BY <2>1, <2>4, <2>5
<1> HIDE DEF S
<1>7. Min(S) \in Int
  BY <1>6, LeastOf
<1> DEFINE v == Min(S)
<1> HIDE DEF v
<1>8. Append(row, v) \in Seq(Int) \ {<<>>} /\ Len(Append(row, v)) = Len(row) + 1
  <2>1. v \in Int /\ row \in Seq(Int)
    BY <1>7 DEF v
  <2>2. Append(row, v) \in Seq(Int) /\ Len(Append(row, v)) = Len(row) + 1 /\ Len(row) \in Nat
    BY <2>1
  <2> DEFINE w == Append(row, v)
  <2>3. w \in Seq(Int) /\ Len(w) = Len(row) + 1
    BY <2>2
  <2>4. w # <<>>
    <3> HIDE DEF w
    <3>1. Len(w) # 0
      BY <2>2, <2>3
    <3>2. QED BY <2>3, <3>1
  <2>5. QED BY <2>3, <2>4
<1>9. QED BY <1>2, <1>8 DEF v

IsRow(f, left, right, rows, i) ==
  f = [S \in SUBSET DOMAIN Numbers(Len(right)) |->
         IF S = {} THEN <<i>>
         ELSE NextCell(left, right, rows, i, f[S \ {Max(S)}], Numbers(Len(right))[Max(S)])]

(* The fold that makes a row of the table, as a function of sets of places. *)
LEMMA IsRowFold ==
  ASSUME NEW left, NEW right, NEW rows, NEW i
  PROVE  NextRow(left, right, rows, i)
           = <<rows[2], (CHOOSE f : IsRow(f, left, right, rows, i))[DOMAIN Numbers(Len(right))]>>
BY DEF NextRow, FoldLeft, MapThenFoldSet, IsRow

(* A row more of the table.                                                 *)
LEMMA NextRowFacts ==
  ASSUME NEW left, NEW right \in Seq(Int), NEW rows \in RowOf(Len(right)) \X RowOf(Len(right)),
         NEW i \in Nat
  PROVE  NextRow(left, right, rows, i) \in RowOf(Len(right)) \X RowOf(Len(right))
<1> DEFINE n == Len(right)
           X == Seq(Int) \ {<<>>}
           c == <<i>>
           F == [p \in X \X (1 .. n) |-> NextCell(left, right, rows, i, p[1], Numbers(n)[p[2]])]
           g == CHOOSE f : IsRow(f, left, right, rows, i)
<1>1. n \in Nat /\ DOMAIN Numbers(n) = 1 .. n /\ \A j \in 1 .. n : Numbers(n)[j] = j
  BY DEF Numbers
<1>2. c \in X
  <2>1. i \in Int /\ i \in Nat
    OBVIOUS
  <2>2. <<i>> \in Seq(Int) /\ Len(<<i>>) = 1
    BY <2>1
  <2>3. QED BY <2>2
<1>3. \A x \in X : \A j \in 1 .. n : /\ NextCell(left, right, rows, i, x, Numbers(n)[j]) \in X
                                     /\ Len(NextCell(left, right, rows, i, x, Numbers(n)[j])) =
                                            Len(x) + 1
  BY <1>1, CellFacts
<1> HIDE DEF X, n, c
<1>4. F \in [X \X (1 .. n) -> X] /\
          \A x \in X : \A j \in 1 .. n : F[<<x, j>>] =
              NextCell(left, right, rows, i, x, Numbers(n)[j])
  BY <1>3
<1> HIDE DEF F
<1>5. PICK f \in [SUBSET (1 .. n) -> X] : Unfolds(f, c, n, F)
  BY <1>1, <1>2, <1>4, FoldMade
<1>6. IsRow(f, left, right, rows, i)
  <2>1. \A S \in SUBSET (1 .. n) : S # {} =>
          F[<<f[S \ {Max(S)}], Max(S)>>] =
              NextCell(left, right, rows, i, f[S \ {Max(S)}], Numbers(n)[Max(S)])
    BY <1>1, <1>4, HighestPlace
  <2>2. f = [S \in SUBSET (1 .. n) |->
               IF S = {} THEN
                   c ELSE NextCell(left, right, rows, i, f[S \ {Max(S)}], Numbers(n)[Max(S)])]
    BY <1>5, <2>1 DEF Unfolds
  <2>3. QED BY <1>1, <2>2 DEF IsRow, c, n
<1>7. IsRow(g, left, right, rows, i)
  BY <1>6
<1> HIDE DEF g
<1>8. g = [S \in SUBSET (1 .. n) |->
             IF S = {} THEN
                 c ELSE NextCell(left, right, rows, i, g[S \ {Max(S)}], Numbers(n)[Max(S)])]
  BY <1>1, <1>7 DEF IsRow, c, n
<1>9. \A S \in SUBSET (1 .. n) : S # {} /\ g[S \ {Max(S)}] \in X =>
        g[S] = F[<<g[S \ {Max(S)}], Max(S)>>]
  <2>1. SUFFICES ASSUME NEW S \in SUBSET (1 .. n), S # {}, g[S \ {Max(S)}] \in X
                 PROVE  g[S] = F[<<g[S \ {Max(S)}], Max(S)>>]
    OBVIOUS
  <2>2. Max(S) \in 1 .. n
    BY <1>1, <2>1, HighestPlace
  <2>3. g[S] = NextCell(left, right, rows, i, g[S \ {Max(S)}], Numbers(n)[Max(S)])
    BY <1>8, <2>1
  <2>4. QED BY <1>4, <2>1, <2>2, <2>3
<1>10. g[{}] = c
  BY <1>8
<1>11. g[1 .. n] \in RowOf(n)
  <2> DEFINE Z == [m \in 0 .. n |-> {x \in X : Len(x) = m + 1}]
  <2>1. Z \in [0 .. n -> SUBSET X] /\ c \in Z[0]
    <3>1. Len(c) = 1 /\ 0 \in 0 .. n
      BY <1>1 DEF c
    <3>2. QED BY <1>2, <3>1
  <2>2. \A j \in 1 .. n : \A x \in Z[j - 1] : F[<<x, j>>] \in Z[j]
    <3>1. ASSUME NEW j \in 1 .. n, NEW x \in Z[j - 1] PROVE F[<<x, j>>] \in Z[j]
      <4>1. j - 1 \in 0 .. n /\ j \in 0 .. n /\ (j - 1) + 1 = j
        BY <1>1
      <4>2. x \in X /\ Len(x) = j
        BY <4>1
      <4>3. F[<<x, j>>] \in X /\ Len(F[<<x, j>>]) = j + 1
        BY <1>3, <1>4, <4>2
      <4>4. QED BY <4>1, <4>3
    <3>2. QED BY <3>1
  <2> HIDE DEF Z
  <2>3. g[1 .. n] \in Z[n]
    BY <1>1, <1>2, <1>4, <1>9, <1>10, <2>1, <2>2, FoldReaches
  <2>4. QED BY <1>1, <2>3 DEF Z, X, RowOf
<1>12. rows[2] \in RowOf(n)
  BY DEF n
<1>13. NextRow(left, right, rows, i) = <<rows[2], g[1 .. n]>>
  BY <1>1, IsRowFold DEF g, n
<1>14. QED BY <1>11, <1>12, <1>13 DEF n

Zeroth(right) == <<0>> \o Numbers(Len(right))
IsTable(f, left, right) ==
  f = [S \in SUBSET DOMAIN Numbers(Len(left)) |->
         IF S = {} THEN <<Zeroth(right), Zeroth(right)>>
         ELSE NextRow(left, right, f[S \ {Max(S)}], Numbers(Len(left))[Max(S)])]

(* The fold over all rows, as a function of sets of places.                 *)
LEMMA IsTableFold ==
  ASSUME NEW left, NEW right
  PROVE  LastRow(left, right)
           = (CHOOSE f : IsTable(f, left, right))[DOMAIN Numbers(Len(left))][2]
BY DEF LastRow, FoldLeft, MapThenFoldSet, IsTable, Zeroth

(* The last row has a number above every place of the text.                 *)
LEMMA LastRowFacts ==
  ASSUME NEW left \in Seq(Int), NEW right \in Seq(Int)
  PROVE  LastRow(left, right) \in RowOf(Len(right))
<1> DEFINE n == Len(left)
           X == RowOf(Len(right)) \X RowOf(Len(right))
           c == <<Zeroth(right), Zeroth(right)>>
           F == [p \in X \X (1 .. n) |-> NextRow(left, right, p[1], Numbers(n)[p[2]])]
           g == CHOOSE f : IsTable(f, left, right)
<1>1. n \in Nat /\ DOMAIN Numbers(n) = 1 .. n /\ \A i \in 1 .. n : Numbers(n)[i] = i
  BY DEF Numbers
<1>2. c \in X
  <2> DEFINE m == Len(right)
  <2>1. m \in Nat
    OBVIOUS
  <2> HIDE DEF m
  <2>2. Numbers(m) \in Seq(Int) /\ Len(Numbers(m)) = m
    BY <2>1 DEF Numbers
  <2>3. <<0>> \in Seq(Int) /\ Len(<<0>>) = 1
    OBVIOUS
  <2>4. <<0>> \o Numbers(m) \in Seq(Int) /\ Len(<<0>> \o Numbers(m)) = 1 + m
    BY <2>2, <2>3, ConcatFacts
  <2>5. <<0>> \o Numbers(m) \in RowOf(m)
    BY <2>1, <2>4 DEF RowOf
  <2>6. QED BY <2>5 DEF m, Zeroth
<1>3. \A x \in X : \A i \in 1 .. n : NextRow(left, right, x, Numbers(n)[i]) \in X
  <2>1. \A i \in 1 .. n : i \in Nat
    OBVIOUS
  <2> HIDE DEF n
  <2>2. QED BY <1>1, <2>1, NextRowFacts
<1> HIDE DEF X, n, c
<1>4. F \in [X \X (1 .. n) -> X] /\
          \A x \in X : \A i \in 1 .. n : F[<<x, i>>] = NextRow(left, right, x, Numbers(n)[i])
  BY <1>3
<1> HIDE DEF F
<1>5. PICK f \in [SUBSET (1 .. n) -> X] : Unfolds(f, c, n, F)
  BY <1>1, <1>2, <1>4, FoldMade
<1>6. IsTable(f, left, right)
  <2>1. \A S \in SUBSET (1 .. n) : S # {} =>
          F[<<f[S \ {Max(S)}], Max(S)>>] = NextRow(left, right, f[S \ {Max(S)}], Numbers(n)[Max(S)])
    BY <1>1, <1>4, HighestPlace
  <2>2. f = [S \in SUBSET (1 .. n) |->
               IF S = {} THEN c ELSE NextRow(left, right, f[S \ {Max(S)}], Numbers(n)[Max(S)])]
    BY <1>5, <2>1 DEF Unfolds
  <2>3. QED BY <1>1, <2>2 DEF IsTable, c, n
<1>7. IsTable(g, left, right)
  BY <1>6
<1> HIDE DEF g
<1>8. g = [S \in SUBSET (1 .. n) |->
             IF S = {} THEN c ELSE NextRow(left, right, g[S \ {Max(S)}], Numbers(n)[Max(S)])]
  BY <1>1, <1>7 DEF IsTable, c, n
<1>9. \A S \in SUBSET (1 .. n) : S # {} /\ g[S \ {Max(S)}] \in X =>
        g[S] = F[<<g[S \ {Max(S)}], Max(S)>>]
  <2>1. SUFFICES ASSUME NEW S \in SUBSET (1 .. n), S # {}, g[S \ {Max(S)}] \in X
                 PROVE  g[S] = F[<<g[S \ {Max(S)}], Max(S)>>]
    OBVIOUS
  <2>2. Max(S) \in 1 .. n
    BY <1>1, <2>1, HighestPlace
  <2>3. g[S] = NextRow(left, right, g[S \ {Max(S)}], Numbers(n)[Max(S)])
    BY <1>8, <2>1
  <2>4. QED BY <1>4, <2>1, <2>2, <2>3
<1>10. g[{}] = c
  BY <1>8
<1>11. g[1 .. n] \in X
  <2>1. n \in Nat /\ F \in [X \X (1 .. n) -> X]
    BY <1>1, <1>4
  <2>2. QED BY <1>2, <1>9, <1>10, <2>1, FoldFollows
<1>12. LastRow(left, right) = g[1 .. n][2]
  BY <1>1, IsTableFold DEF g, n
<1>13. QED BY <1>11, <1>12 DEF X

(* The distance of texts.                                                   *)
LEMMA DistanceFacts ==
  ASSUME NEW left \in Seq(Int), NEW right \in Seq(Int)
  PROVE  Distance(left, right) \in Int
<1> DEFINE d == LastRow(left, right)[Len(right) + 1]
           row == LastRow(left, right)
<1>1. row \in Seq(Int) /\ Len(row) = Len(right) + 1
  BY LastRowFacts DEF RowOf
<1> HIDE DEF row
<1>2. Len(right) + 1 \in 1 .. Len(row)
  BY <1>1
<1>3. row[Len(right) + 1] \in Int
  BY <1>1, <1>2
<1>4. d \in Int /\ -1 \in Int
  BY <1>3 DEF row
<1> HIDE DEF d
<1>5. Distance(left, right) = -1 \/ Distance(left, right) = d
  BY DEF Distance, TooFar, d
<1>6. QED BY <1>4, <1>5

----------------------------------------------------------------------------
(* What the channels find.                                                  *)

(* What the tables of an index hold besides.                                *)
HasTables(ix) ==
  /\ IsCompiled(ix)
  /\ \A g \in DOMAIN ix.ngrams : ix.ngrams[g] \in Seq(DOMAIN ix.surfaces)
  /\ \A s \in DOMAIN ix.surfaces : Cardinality(ix.grams[s]) \in Nat \ {0} /\
         IsFiniteSet(ix.simhash[s])
  /\ ix.tokens \subseteq Seq(Int)
  /\ \A v \in DOMAIN ix.deletes : ix.deletes[v] \in Seq(ix.tokens)
  /\ \A t \in ix.tokens : ix.tokenSurfaces[t] \in Seq(DOMAIN ix.surfaces)
  /\ \A k \in DOMAIN ix.lsh : ix.lsh[k] \in Seq(DOMAIN ix.surfaces)

IsAsked == request.words \in Seq(Written) /\ request.caps \in Settings

(* The caps of a query are numbers.                                         *)
LEMMA CapsFacts ==
  ASSUME IsAsked
  PROVE  /\ request.caps.mentions \in Nat /\ request.caps.addresses \in Nat
         /\ request.caps.spans \in Nat /\ request.caps.postings \in Nat
         /\ request.caps.each \in Nat /\ request.caps.union \in Nat
<1> DEFINE s == request.caps
<1>1. s \in Settings
  BY DEF IsAsked
<1> HIDE DEF s
<1>2. {s.mentions, s.addresses, s.spans, s.postings, s.each, s.union} \subseteq Nat \ {0}
  BY <1>1, FuzzyAssumption
<1>3. QED BY <1>2 DEF s

(* The posting lists of keys.                                               *)
LEMMA ListsFacts ==
  ASSUME NEW T, NEW table, \A k \in DOMAIN table : table[k] \in Seq(T),
         NEW keys, Len(keys) \in Nat
  PROVE  Lists(table, keys) \in Seq(Seq(T))
<1> DEFINE f == Lists(table, keys)
           n == Len(keys)
<1>1. DOMAIN f = 1 .. n /\ f = [i \in DOMAIN f |-> f[i]]
  BY DEF Lists
<1>2. \A i \in 1 .. n : f[i] = Value(table, keys[i], <<>>)
  BY DEF Lists
<1>3. \A k : Value(table, k, <<>>) \in Seq(T)
  <2>1. <<>> \in Seq(T)
    OBVIOUS
  <2>2. QED BY <2>1 DEF Value
<1> HIDE DEF f, n
<1>4. n \in Nat /\ \A i \in 1 .. n : f[i] \in Seq(T)
  BY <1>2, <1>3 DEF n
<1>5. f \in Seq(Seq(T))
  BY <1>1, <1>4, PlaceByPlace
<1>6. QED BY <1>5 DEF f

(* As many keys as members.                                                 *)
LEMMA SortedLength ==
  ASSUME NEW S, IsFiniteSet(S)
  PROVE  Len(Sorted(S)) \in Nat
<1> DEFINE f == Sorted(S)
           n == Cardinality(S)
           T == {f[i] : i \in 1 .. n}
           place == [x \in S |-> 1 + Cardinality({y \in S : Before(y, x)})]
<1>1. DOMAIN f = 1 .. n /\ f = [i \in DOMAIN f |-> f[i]]
  <2>1. f = [i \in 1 .. n |-> CHOOSE x \in S : place[x] = i]
    BY DEF Sorted, InOrder
  <2> HIDE DEF f, n, place
  <2>2. QED BY <2>1
<1>2. n \in Nat
  BY FS_CardinalityType
<1> HIDE DEF f, n
<1>3. \A i \in 1 .. n : f[i] \in T
  OBVIOUS
<1> HIDE DEF T
<1>4. Len(f) = n
  BY <1>1, <1>2, <1>3, PlaceByPlace
<1>5. QED BY <1>2, <1>4 DEF f

(* A run of words of the query, or a word.                                  *)
Span == [from : Nat, to : Nat, text : Seq(Int)]

(* The order of spans of one query: by width and place.                     *)
LEMMA SpanOrder ==
  ASSUME NEW a \in Span, NEW b \in Span, NEW c \in Span
  PROVE  /\ ~SpanAhead(a, a)
         /\ SpanAhead(a, b) /\ SpanAhead(b, c) => SpanAhead(a, c)
         /\ (a.from = b.from /\ a.to = b.to) \/ SpanAhead(a, b) \/ SpanAhead(b, a)
<1> DEFINE f == a.from
           g == b.from
           h == c.from
           x == a.to
           y == b.to
           z == c.to
<1>1. f \in Nat /\ g \in Nat /\ h \in Nat /\ x \in Nat /\ y \in Nat /\ z \in Nat
  BY DEF Span
<1>2. /\ SpanAhead(a, a) <=> (x - f > x - f \/ (x - f = x - f /\ f < f))
      /\ SpanAhead(a, b) <=> (x - f > y - g \/ (x - f = y - g /\ f < g))
      /\ SpanAhead(b, a) <=> (y - g > x - f \/ (y - g = x - f /\ g < f))
      /\ SpanAhead(b, c) <=> (y - g > z - h \/ (y - g = z - h /\ g < h))
      /\ SpanAhead(a, c) <=> (x - f > z - h \/ (x - f = z - h /\ f < h))
  BY Zenon DEF SpanAhead
<1> HIDE DEF f, g, h, x, y, z
<1>3. ~SpanAhead(a, a)
  BY <1>1, <1>2
<1>4. SpanAhead(a, b) /\ SpanAhead(b, c) => SpanAhead(a, c)
  BY <1>1, <1>2
<1>5. (f = g /\ x = y) \/ SpanAhead(a, b) \/ SpanAhead(b, a)
  BY <1>1, <1>2
<1>6. QED BY <1>3, <1>4, <1>5 DEF f, g, x, y

(* The runs of words of a query are spans.                                  *)
LEMMA SpansFacts ==
  ASSUME IsAsked
  PROVE  Spans(request.words) \in Seq(Span)
<1> DEFINE words == request.words
           n == Len(words)
           runs == {r \in (1 .. n) \X (1 .. n) :
                      r[1] <= r[2] /\ r[2] - r[1] + 1 <= Min({index.widest + 1, 8})}
           T(i, j) == TextOf(SubSeq(words, i, j))
           f == [r \in runs |-> [from |-> r[1], to |-> r[2], text |-> T(r[1], r[2])]]
           spans == {[from |-> r[1], to |-> r[2], text |-> T(r[1], r[2])] : r \in runs}
           S == {s \in spans : Len(s.text) >= 3}
           R == {p \in S \X S : SpanAhead(p[1], p[2])}
<1>1. Spans(words) = CutTo(InOrder(S, SpanAhead), request.caps.spans)
  BY Zenon DEF Spans
<1>2. words \in Seq(Written) /\ n \in Nat
  BY DEF IsAsked
<1>3. \A i, j \in 1 .. n : T(i, j) \in Seq(Int)
  <2> HIDE DEF words
  <2>1. \A i, j \in 1 .. n : SubSeq(words, i, j) \in Seq(Written)
    BY <1>2
  <2>2. QED BY <2>1, TextFacts
<1>4. runs \in SUBSET ((1 .. n) \X (1 .. n))
  OBVIOUS
<1> HIDE DEF runs, T, n, words
<1>5. IsFiniteSet(runs)
  BY <1>2, <1>4, FirstNumbers, FS_Product, FS_Subset
<1>6. IsFiniteSet(spans)
  <2>1. DOMAIN f = runs /\ f = [r \in DOMAIN f |-> f[r]] /\ spans = {f[r] : r \in DOMAIN f}
    OBVIOUS
  <2> HIDE DEF f, spans
  <2>2. QED BY <1>5, <2>1, FiniteRange
<1>7. \A s \in spans : s \in Span /\ s.text = T(s.from, s.to)
  <2>1. ASSUME NEW r \in runs
        PROVE  [from |-> r[1], to |-> r[2], text |-> T(r[1], r[2])] \in Span
    <3>1. r[1] \in 1 .. n /\ r[2] \in 1 .. n
      BY <1>4
    <3>2. T(r[1], r[2]) \in Seq(Int)
      BY <1>3, <3>1
    <3>3. r[1] \in Nat /\ r[2] \in Nat
      BY <1>2, <3>1
    <3>4. QED BY <3>2, <3>3 DEF Span
  <2>2. QED BY <2>1
<1> HIDE DEF spans
<1>8. IsFiniteSet(S)
  BY <1>6, FS_Subset
<1>9. \A s \in S : s \in Span /\ s.text = T(s.from, s.to)
  BY <1>7
<1> HIDE DEF S
<1>10. \A a, b \in S : a.from = b.from /\ a.to = b.to => a = b
  <2>1. \A a, b \in Span : a.from = b.from /\ a.to = b.to /\ a.text = b.text => a = b
    BY DEF Span
  <2>2. QED BY <1>9, <2>1
<1>11. \A a, b \in S : <<a, b>> \in R <=> SpanAhead(a, b)
  OBVIOUS
<1>12. \A a \in S : Preceding(R, S, a) = {b \in S : SpanAhead(b, a)}
  BY <1>11 DEF Preceding
<1> HIDE DEF R
<1>13. Rows(R, S)
  <2>1. \A a \in S : <<a, a>> \notin R
    BY <1>9, <1>11, SpanOrder
  <2>2. \A a, b, c \in S : <<a, b>> \in R /\ <<b, c>> \in R => <<a, c>> \in R
    BY <1>9, <1>11, SpanOrder
  <2>3. \A a, b \in S : a = b \/ <<a, b>> \in R \/ <<b, a>> \in R
    BY <1>9, <1>10, <1>11, SpanOrder
  <2>4. QED BY <2>1, <2>2, <2>3 DEF Rows
<1>14. InOrder(S, SpanAhead) = ByPlace(S, R)
  BY <1>12 DEF InOrder, ByPlace
<1> DEFINE order == InOrder(S, SpanAhead)
<1>15. order \in Seq(S)
  BY <1>8, <1>13, <1>14, PlacesList DEF Enumerates
<1> HIDE DEF order
<1>16. order \in Seq(Span)
  <2>1. S \subseteq Span
    BY <1>9
  <2>2. QED BY <1>15, <2>1
<1>17. QED BY <1>1, <1>16, CapsFacts, CutFacts DEF order, words

(* And so are its words.                                                    *)
LEMMA PlacesFacts ==
  ASSUME IsAsked
  PROVE  Places(request.words) \in Seq(Span)
<1> DEFINE words == request.words
           n == Len(words)
           f == Places(words)
<1>1. words \in Seq(Written) /\ n \in Nat
  BY DEF IsAsked
<1>2. DOMAIN f = 1 .. n /\ f = [i \in DOMAIN f |-> f[i]]
      /\ \A i \in 1 .. n : f[i] = [from |-> i, to |-> i, text |-> TokenOf[words[i]]]
  BY DEF Places
<1> HIDE DEF f
<1>3. \A i \in 1 .. n : f[i] \in Span
  <2>1. ASSUME NEW i \in 1 .. n PROVE f[i] \in Span
    <3>1. words[i] \in Written /\ i \in Nat
      BY <1>1
    <3>2. TokenOf[words[i]] \in Seq(Int)
      BY <3>1, TokenFacts
    <3> DEFINE t == TokenOf[words[i]]
    <3> HIDE DEF t
    <3>3. [from |-> i, to |-> i, text |-> t] \in Span
      BY <3>1, <3>2 DEF Span, t
    <3>4. QED BY <1>2, <3>3 DEF t
  <2>2. QED BY <2>1
<1> HIDE DEF n, words
<1>4. f \in Seq(Span)
  BY <1>1, <1>2, <1>3, PlaceByPlace
<1>5. QED BY <1>4 DEF f, words

(* Mentions of what was scored.                                             *)
Scored == [score : Fractions, surface : DOMAIN index.surfaces]

(* Scored surfaces, found at a span, are mentions.                          *)
LEMMA MentionsAtFacts ==
  ASSUME NEW span \in Span, NEW scored \in Seq(Scored)
  PROVE  MentionsAt(span, scored) \in Seq(Mention)
<1> DEFINE n == Len(scored)
           f == MentionsAt(span, scored)
<1>1. n \in Nat /\ \A i \in 1 .. n : scored[i] \in Scored
  OBVIOUS
<1>2. DOMAIN f = 1 .. n /\ f = [i \in DOMAIN f |-> f[i]]
      /\ \A i \in 1 .. n : f[i] = [from |-> span.from, to |-> span.to,
                                   surface |-> scored[i].surface, score |-> scored[i].score]
  BY DEF MentionsAt
<1> HIDE DEF f
<1>3. \A i \in 1 .. n : f[i] \in Mention
  BY <1>1, <1>2 DEF Scored, Span, Mention
<1> HIDE DEF n
<1>4. f \in Seq(Mention)
  BY <1>1, <1>2, <1>3, PlaceByPlace
<1>5. QED BY <1>4 DEF f

(* What a channel finds of an item, and how much it has read.               *)
Findings == [read : Nat, found : Seq(Mention)]

(* The exact channel finds mentions.                                        *)
LEMMA ExactFacts ==
  ASSUME HasTables(index), IsAsked, NEW span \in Span, NEW read \in Nat
  PROVE  ExactMatches(span, read) \in Findings
<1>1. CASE span.text \notin DOMAIN index.surfaces
  <2>1. <<>> \in Seq(Mention)
    OBVIOUS
  <2>2. QED BY <1>1, <2>1 DEF ExactMatches, Findings
<1>2. CASE span.text \in DOMAIN index.surfaces
  <2> DEFINE x == [surface |-> span.text, score |-> <<1, 1>>]
  <2>1. x \in Scored
    BY <1>2 DEF Scored, Fractions
  <2> HIDE DEF x
  <2>2. <<x>> \in Seq(Scored)
    BY <2>1
  <2>3. MentionsAt(span, <<x>>) \in Seq(Mention)
    BY <2>2, MentionsAtFacts
  <2>4. QED BY <1>2, <2>3 DEF ExactMatches, Findings, x
<1>3. QED BY <1>1, <1>2

(* The score of common grams is a fraction.                                 *)
LEMMA CharScoreFacts ==
  ASSUME NEW overlap \in Nat, NEW a \in Nat \ {0}, NEW b \in Nat \ {0}
  PROVE  CharScore(overlap, a, b) \in Fractions
<1> DEFINE low == Min({a, b})
           least == Max({1, low})
<1>1. low \in Nat \ {0}
  <2>1. {a, b} = {a} \cup {b}
    OBVIOUS
  <2>2. IsFiniteSet({a} \cup {b})
    BY FS_Singleton, FS_Union
  <2>3. {a, b} # {} /\ {a, b} \in SUBSET Int
    OBVIOUS
  <2>4. low \in {a, b}
    BY <2>1, <2>2, <2>3, LeastOf
  <2>5. QED BY <2>4
<1> HIDE DEF low
<1>2. least \in Nat \ {0}
  <2>1. {1, low} = {1} \cup {low}
    OBVIOUS
  <2>2. IsFiniteSet({1} \cup {low})
    BY FS_Singleton, FS_Union
  <2>3. {1, low} # {} /\ {1, low} \in SUBSET Int
    BY <1>1
  <2>4. least \in {1, low}
    BY <2>1, <2>2, <2>3, MaxFacts
  <2>5. QED BY <1>1, <2>4
<1>3. CharScore(overlap, a, b) = <<overlap * (14 * least + 3 * (a + b)), 10 * (a + b) * least>>
  BY DEF CharScore, low
<1> HIDE DEF least
<1> DEFINE s == 14 * least + 3 * (a + b)
           t == 10 * (a + b)
<1>4. s \in Nat /\ t \in Nat \ {0}
  BY <1>2
<1>5. CharScore(overlap, a, b) = <<overlap * s, t * least>>
  BY <1>3
<1> HIDE DEF s, t
<1>6. overlap * s \in Int
  BY <1>4
<1>7. t * least \in Nat \ {0}
  BY <1>2, <1>4, PositiveProduct
<1>8. QED BY <1>5, <1>6, <1>7 DEF Fractions

(* The best of what was scored, as mentions.                                *)
LEMMA BestMentions ==
  ASSUME HasTables(index), IsAsked, NEW span \in Span, NEW S, IsFiniteSet(S), S \subseteq Scored,
         \A x, y \in S : x.surface = y.surface => x = y
  PROVE  MentionsAt(span, BestOf(S)) \in Seq(Mention)
<1>1. \A x \in S : IsScored(x)
  BY DEF Scored, IsScored, HasTables, IsCompiled
<1>2. request.caps.each \in Nat
  BY CapsFacts
<1>3. BestOf(S) \in Seq(S)
  BY <1>1, <1>2, BestOfFacts
<1> DEFINE q == BestOf(S)
<1> HIDE DEF q
<1>4. q \in Seq(Scored)
  BY <1>3 DEF q
<1>5. QED BY <1>4, MentionsAtFacts DEF q

(* The channel of common grams finds mentions.                              *)
LEMMA CharFacts ==
  ASSUME HasTables(index), IsAsked, NEW span \in Span, NEW read \in Nat
  PROVE  CharMatches(span, read) \in Findings
<1> DEFINE grams == Grams(span.text)
           seen == ReadLists(Lists(index.ngrams, Sorted(grams)), read)
           Overlap(s) == Cardinality({i \in 1 .. Len(seen.hits) : seen.hits[i] = s})
           Score(s) == CharScore(Overlap(s), Cardinality(grams), Cardinality(index.grams[s]))
           hit == Range(seen.hits)
           scored == {[score |-> Score(s), surface |-> s] : s \in hit}
           f == [s \in hit |-> [score |-> Score(s), surface |-> s]]
           S == {x \in scored : ~Above(request.caps.threshold, x.score)}
<1>1. CharMatches(span, read) = [read |-> seen.read, found |-> MentionsAt(span, BestOf(S))]
  BY Zenon DEF CharMatches
<1>2. span.text \in Seq(Int)
  BY DEF Span
<1>3. IsFiniteSet(grams) /\ Cardinality(grams) \in Nat \ {0}
  BY <1>2, GramsFacts
<1> HIDE DEF grams
<1>4. seen \in Readings(DOMAIN index.surfaces)
  <2>1. Len(Sorted(grams)) \in Nat
    BY <1>3, SortedLength
  <2>2. \A g \in DOMAIN index.ngrams : index.ngrams[g] \in Seq(DOMAIN index.surfaces)
    BY DEF HasTables
  <2>3. Lists(index.ngrams, Sorted(grams)) \in Seq(Seq(DOMAIN index.surfaces))
    BY <2>1, <2>2, ListsFacts
  <2>4. QED BY <2>3, CapsFacts, ReadListsFacts
<1> HIDE DEF seen
<1>5. seen.read \in Nat /\ seen.hits \in Seq(DOMAIN index.surfaces)
  BY <1>4 DEF Readings
<1>6. IsFiniteSet(hit) /\ hit \subseteq DOMAIN index.surfaces /\ Len(seen.hits) \in Nat
  BY <1>5, RangeFinite
<1>7. \A s \in hit : Score(s) \in Fractions
  <2>1. ASSUME NEW s \in hit PROVE Score(s) \in Fractions
    <3> DEFINE P == {i \in 1 .. Len(seen.hits) : seen.hits[i] = s}
    <3>1. P \in SUBSET (1 .. Len(seen.hits))
      OBVIOUS
    <3>2. IsFiniteSet(P)
      BY <1>6, <3>1, FirstNumbers, FS_Subset
    <3>3. Overlap(s) \in Nat
      BY <3>2, FS_CardinalityType
    <3>4. Cardinality(index.grams[s]) \in Nat \ {0}
      BY <1>6 DEF HasTables
    <3> HIDE DEF P, Overlap
    <3>5. QED BY <1>3, <3>3, <3>4, CharScoreFacts
  <2>2. QED BY <2>1
<1> HIDE DEF hit, Score
<1>8. IsFiniteSet(scored)
  <2>1. DOMAIN f = hit /\ f = [s \in DOMAIN f |-> f[s]] /\ scored = {f[s] : s \in DOMAIN f}
    OBVIOUS
  <2> HIDE DEF f, scored
  <2>2. QED BY <1>6, <2>1, FiniteRange
<1>9. /\ \A x \in scored : x \in Scored
      /\ \A x, y \in scored : x.surface = y.surface => x = y
  BY <1>6, <1>7 DEF Scored
<1> HIDE DEF scored
<1>10. IsFiniteSet(S) /\ S \subseteq Scored /\ \A x, y \in S : x.surface = y.surface => x = y
  BY <1>8, <1>9, FS_Subset
<1> HIDE DEF S
<1>11. MentionsAt(span, BestOf(S)) \in Seq(Mention)
  BY <1>10, BestMentions
<1>12. QED BY <1>1, <1>5, <1>11 DEF Findings

(* A fingerprint has finitely many bits.                                    *)
LEMMA FingerprintFacts ==
  ASSUME NEW text
  PROVE  IsFiniteSet(Fingerprint(text)) /\ Fingerprint(text) \subseteq Int
<1>1. Bands * BandBits \in Nat
  BY FuzzyAssumption
<1> DEFINE n == Bands * BandBits - 1
<1>2. 0 \in Int /\ n \in Int
  BY <1>1
<1>3. Fingerprint(text) \in SUBSET (0 .. n)
  BY DEF Fingerprint
<1> HIDE DEF n
<1>4. IsFiniteSet(0 .. n)
  BY <1>2, FS_Interval
<1>5. 0 .. n \subseteq Int
  BY <1>2
<1>6. QED BY <1>3, <1>4, <1>5, FS_Subset

(* The score of a distance between fingerprints is a fraction.              *)
LEMMA SimhashScoreFacts ==
  ASSUME NEW A, NEW B, IsFiniteSet(A), IsFiniteSet(B)
  PROVE  SimhashScore(Hamming(A, B)) \in Fractions
<1> DEFINE n == Bands * BandBits
           d == Hamming(A, B)
<1>1. n \in Nat \ {0}
  BY FuzzyAssumption, PositiveProduct
<1>2. d \in Nat
  <2>1. IsFiniteSet(A \ B) /\ IsFiniteSet(B \ A)
    BY FS_Difference
  <2>2. IsFiniteSet((A \ B) \cup (B \ A))
    BY <2>1, FS_Union
  <2>3. QED BY <2>2, FS_CardinalityType DEF Hamming, SymDiff
<1>3. SimhashScore(d) = <<n - d, n>>
  BY DEF SimhashScore
<1> HIDE DEF n, d
<1>4. n - d \in Int
  BY <1>1, <1>2
<1>5. QED BY <1>1, <1>3, <1>4 DEF Fractions, d

(* There are finitely many buckets to probe.                                *)
LEMMA ProbesLength ==
  ASSUME NEW print \in SUBSET Int
  PROVE  Len(Probes(print)) \in Nat
<1> DEFINE T == Int \X SUBSET Int
           bucket(k) == print \cap Band(k - 1)
           near(k) == [b \in 1 .. BandBits |-> <<k - 1,
               SymDiff(bucket(k), {(k - 1) * BandBits + b - 1})>>]
           q == [k \in 1 .. Bands |-> << <<k - 1, bucket(k)>> >> \o near(k)]
<1>1. Probes(print) = FlattenSeq(q)
  BY Zenon DEF Probes
<1>2. Bands \in Nat /\ BandBits \in Nat
  BY FuzzyAssumption
<1>3. \A k \in 1 .. Bands : << <<k - 1, bucket(k)>> >> \in Seq(T)
  <2>1. ASSUME NEW k \in 1 .. Bands PROVE << <<k - 1, bucket(k)>> >> \in Seq(T)
    <3> DEFINE x == <<k - 1, bucket(k)>>
    <3>1. k - 1 \in Int
      BY <1>2
    <3>2. x \in T
      BY <3>1
    <3> HIDE DEF x, T
    <3>3. <<x>> \in Seq(T)
      BY <3>2
    <3>4. QED BY <3>3 DEF x
  <2>2. QED BY <2>1
<1>4. \A k \in 1 .. Bands : near(k) \in Seq(T)
  <2>1. ASSUME NEW k \in 1 .. Bands PROVE near(k) \in Seq(T)
    <3> DEFINE g == near(k)
    <3>1. DOMAIN g = 1 .. BandBits /\ g = [b \in DOMAIN g |-> g[b]]
          /\ \A b \in 1 .. BandBits :
               g[b] = <<k - 1, SymDiff(bucket(k), {(k - 1) * BandBits + b - 1})>>
      OBVIOUS
    <3>2. \A b \in 1 .. BandBits : g[b] \in T
      <4>1. ASSUME NEW b \in 1 .. BandBits PROVE g[b] \in T
        <5> DEFINE j == k - 1
                   z == j * BandBits + b - 1
        <5>1. j \in Int
          BY <1>2
        <5>2. j * BandBits \in Int
          <6> HIDE DEF j
          <6>1. QED BY <1>2, <5>1
        <5>3. z \in Int
          <6> DEFINE y == j * BandBits
          <6> HIDE DEF y
          <6>1. y + b - 1 \in Int
            BY <1>2, <5>2 DEF y
          <6>2. QED BY <6>1 DEF y
        <5>4. g[b] = <<j, SymDiff(bucket(k), {z})>>
          BY <3>1
        <5> HIDE DEF j, z, g
        <5> DEFINE w == SymDiff(bucket(k), {z})
        <5>5. w \in SUBSET Int
          BY <5>3 DEF SymDiff
        <5>6. g[b] = <<j, w>>
          BY <5>4
        <5> HIDE DEF w
        <5>7. <<j, w>> \in T
          BY <5>1, <5>5
        <5> HIDE DEF T
        <5>8. QED BY <5>6, <5>7
      <4>2. QED BY <4>1
    <3> HIDE DEF g, T
    <3>3. g \in Seq(T)
      BY <1>2, <3>1, <3>2, PlaceByPlace
    <3>4. QED BY <3>3 DEF g
  <2>2. QED BY <2>1
<1> HIDE DEF T, near
<1>5. \A k \in 1 .. Bands : q[k] \in Seq(T)
  BY <1>3, <1>4, ConcatFacts
<1>6. DOMAIN q = 1 .. Bands /\ q = [k \in DOMAIN q |-> q[k]]
  OBVIOUS
<1> HIDE DEF q
<1>7. q \in Seq(Seq(T))
  BY <1>2, <1>5, <1>6, PlaceByPlace
<1>8. FlattenSeq(q) \in Seq(T)
  BY <1>7, FlattenFacts DEF Flattened
<1>9. QED BY <1>1, <1>8

(* The channel of fingerprints finds mentions.                              *)
LEMMA SimhashFacts ==
  ASSUME HasTables(index), IsAsked, NEW span \in Span, NEW read \in Nat
  PROVE  SimhashMatches(span, read) \in Findings
<1> DEFINE print == Fingerprint(span.text)
           seen == ReadLists(Lists(index.lsh, Probes(print)), read)
           near == {s \in Range(seen.hits) :
                      Hamming(print, index.simhash[s]) <= request.caps.hamming}
           Score(s) == SimhashScore(Hamming(print, index.simhash[s]))
           S == {[score |-> Score(s), surface |-> s] : s \in near}
           f == [s \in near |-> [score |-> Score(s), surface |-> s]]
<1>1. SimhashMatches(span, read) = [read |-> seen.read, found |-> MentionsAt(span, BestOf(S))]
  BY Zenon DEF SimhashMatches
<1>2. IsFiniteSet(print) /\ print \in SUBSET Int
  BY FingerprintFacts
<1> HIDE DEF print
<1>3. seen \in Readings(DOMAIN index.surfaces)
  <2>1. Len(Probes(print)) \in Nat
    BY <1>2, ProbesLength
  <2>2. \A k \in DOMAIN index.lsh : index.lsh[k] \in Seq(DOMAIN index.surfaces)
    BY DEF HasTables
  <2>3. Lists(index.lsh, Probes(print)) \in Seq(Seq(DOMAIN index.surfaces))
    BY <2>1, <2>2, ListsFacts
  <2>4. QED BY <2>3, CapsFacts, ReadListsFacts
<1> HIDE DEF seen
<1>4. seen.read \in Nat /\ seen.hits \in Seq(DOMAIN index.surfaces)
  BY <1>3 DEF Readings
<1>5. IsFiniteSet(near) /\ near \subseteq DOMAIN index.surfaces
  <2>1. IsFiniteSet(Range(seen.hits)) /\ Range(seen.hits) \subseteq DOMAIN index.surfaces
    BY <1>4, RangeFinite
  <2>2. near \in SUBSET Range(seen.hits)
    OBVIOUS
  <2> HIDE DEF near
  <2>3. QED BY <2>1, <2>2, FS_Subset
<1> HIDE DEF near
<1>6. \A s \in near : Score(s) \in Fractions
  BY <1>2, <1>5, SimhashScoreFacts DEF HasTables
<1> HIDE DEF Score
<1>7. IsFiniteSet(S)
  <2>1. DOMAIN f = near /\ f = [s \in DOMAIN f |-> f[s]] /\ S = {f[s] : s \in DOMAIN f}
    OBVIOUS
  <2> HIDE DEF f, S
  <2>2. QED BY <1>5, <2>1, FiniteRange
<1>8. S \subseteq Scored /\ \A x, y \in S : x.surface = y.surface => x = y
  BY <1>5, <1>6 DEF Scored
<1> HIDE DEF S
<1>9. MentionsAt(span, BestOf(S)) \in Seq(Mention)
  BY <1>7, <1>8, BestMentions
<1>10. QED BY <1>1, <1>4, <1>9 DEF Findings

(* Deletions.                                                               *)
Variants == {V \in SUBSET Seq(Int) : IsFiniteSet(V)}

(* Deleting a character more leaves finitely many texts.                    *)
LEMMA DeletedFacts ==
  ASSUME NEW texts \in Variants
  PROVE  texts \cup DeletedOnce(texts) \in Variants
<1> DEFINE Of(t) == {RemoveAt(t, i) : i \in 1 .. Len(t)}
           all == {Of(t) : t \in texts}
           h == [t \in texts |-> Of(t)]
<1>1. IsFiniteSet(texts) /\ texts \subseteq Seq(Int)
  BY DEF Variants
<1>2. \A t \in texts : IsFiniteSet(Of(t)) /\ Of(t) \subseteq Seq(Int)
  <2>1. ASSUME NEW t \in texts PROVE IsFiniteSet(Of(t)) /\ Of(t) \subseteq Seq(Int)
    <3> DEFINE f == [i \in 1 .. Len(t) |-> RemoveAt(t, i)]
    <3>1. t \in Seq(Int) /\ Len(t) \in Nat
      BY <1>1
    <3>2. \A i \in 1 .. Len(t) : RemoveAt(t, i) \in Seq(Int)
      <4>1. ASSUME NEW i \in 1 .. Len(t) PROVE RemoveAt(t, i) \in Seq(Int)
        <5>1. SubSeq(t, 1, i - 1) \in Seq(Int) /\ SubSeq(t, i + 1, Len(t)) \in Seq(Int)
          BY <3>1
        <5>2. SubSeq(t, 1, i - 1) \o SubSeq(t, i + 1, Len(t)) \in Seq(Int)
          BY <5>1
        <5>3. QED BY <5>2 DEF RemoveAt
      <4>2. QED BY <4>1
    <3>3. DOMAIN f = 1 .. Len(t) /\ f = [i \in DOMAIN f |-> f[i]] /\ Of(t) = {f[i] : i \in DOMAIN f}
      OBVIOUS
    <3> HIDE DEF f
    <3>4. IsFiniteSet(Of(t))
      BY <3>1, <3>3, FirstNumbers, FiniteRange
    <3>5. QED BY <3>2, <3>4
  <2>2. QED BY <2>1
<1> HIDE DEF Of
<1>3. IsFiniteSet(all)
  <2>1. DOMAIN h = texts /\ h = [t \in DOMAIN h |-> h[t]] /\ all = {h[t] : t \in DOMAIN h}
    OBVIOUS
  <2> HIDE DEF h, all
  <2>2. QED BY <1>1, <2>1, FiniteRange
<1>4. \A V \in all : IsFiniteSet(V) /\ V \subseteq Seq(Int)
  BY <1>2
<1> DEFINE D == DeletedOnce(texts)
           U == UNION all
<1>5. D = U \ {<<>>}
  BY DEF DeletedOnce, Of
<1> HIDE DEF all, D
<1>6. IsFiniteSet(U)
  BY <1>3, <1>4, FS_UNION
<1>11. U \subseteq Seq(Int)
  BY <1>4
<1>7. IsFiniteSet(D) /\ D \subseteq Seq(Int)
  <2> HIDE DEF U
  <2>1. IsFiniteSet(U \ {<<>>})
    BY <1>6, FS_Difference
  <2>2. QED BY <1>5, <1>11, <2>1
<1> HIDE DEF D
<1>8. IsFiniteSet(texts \cup D) /\ texts \cup D \subseteq Seq(Int)
  BY <1>1, <1>7, FS_Union
<1>9. QED BY <1>8 DEF Variants, D

IsDeleting(f, term) ==
  f = [S \in SUBSET DOMAIN Numbers(EditDistance) |->
         IF S = {} THEN {term}
         ELSE WithDeleted(f[S \ {Max(S)}], Numbers(EditDistance)[Max(S)])]

(* The fold that deletes characters, as a function of sets of places.       *)
LEMMA IsDeletingFold ==
  ASSUME NEW term
  PROVE  Deletions(term) = (CHOOSE f : IsDeleting(f, term))[DOMAIN Numbers(EditDistance)]
BY DEF Deletions, FoldLeft, MapThenFoldSet, IsDeleting

(* A text has finitely many deletions.                                      *)
LEMMA DeletionsFacts ==
  ASSUME NEW term \in Seq(Int)
  PROVE  Deletions(term) \in Variants
<1> DEFINE n == EditDistance
           X == Variants
           c == {term}
           F == [p \in X \X (1 .. n) |-> WithDeleted(p[1], Numbers(n)[p[2]])]
           g == CHOOSE f : IsDeleting(f, term)
<1>1. n \in Nat /\ DOMAIN Numbers(n) = 1 .. n
  BY FuzzyAssumption DEF Numbers
<1>2. c \in X
  BY FS_Singleton DEF Variants
<1>3. \A x \in X : \A i \in 1 .. n : WithDeleted(x, Numbers(n)[i]) \in X
  BY DeletedFacts DEF WithDeleted
<1> HIDE DEF X, n, c
<1>4. F \in [X \X (1 .. n) -> X] /\
          \A x \in X : \A i \in 1 .. n : F[<<x, i>>] = WithDeleted(x, Numbers(n)[i])
  BY <1>3
<1> HIDE DEF F
<1>5. PICK f \in [SUBSET (1 .. n) -> X] : Unfolds(f, c, n, F)
  BY <1>1, <1>2, <1>4, FoldMade
<1>6. IsDeleting(f, term)
  <2>1. \A S \in SUBSET (1 .. n) : S # {} =>
          F[<<f[S \ {Max(S)}], Max(S)>>] = WithDeleted(f[S \ {Max(S)}], Numbers(n)[Max(S)])
    BY <1>1, <1>4, HighestPlace
  <2>2. f = [S \in SUBSET (1 .. n) |->
               IF S = {} THEN c ELSE WithDeleted(f[S \ {Max(S)}], Numbers(n)[Max(S)])]
    BY <1>5, <2>1 DEF Unfolds
  <2>3. QED BY <1>1, <2>2 DEF IsDeleting, c, n
<1>7. IsDeleting(g, term)
  BY <1>6
<1> HIDE DEF g
<1>8. g = [S \in SUBSET (1 .. n) |->
             IF S = {} THEN c ELSE WithDeleted(g[S \ {Max(S)}], Numbers(n)[Max(S)])]
  BY <1>1, <1>7 DEF IsDeleting, c, n
<1>9. \A S \in SUBSET (1 .. n) : S # {} /\ g[S \ {Max(S)}] \in X =>
        g[S] = F[<<g[S \ {Max(S)}], Max(S)>>]
  <2>1. SUFFICES ASSUME NEW S \in SUBSET (1 .. n), S # {}, g[S \ {Max(S)}] \in X
                 PROVE  g[S] = F[<<g[S \ {Max(S)}], Max(S)>>]
    OBVIOUS
  <2>2. Max(S) \in 1 .. n
    BY <1>1, <2>1, HighestPlace
  <2>3. g[S] = WithDeleted(g[S \ {Max(S)}], Numbers(n)[Max(S)])
    BY <1>8, <2>1
  <2>4. QED BY <1>4, <2>1, <2>2, <2>3
<1>10. g[{}] = c
  BY <1>8
<1>11. g[1 .. n] \in X
  <2>1. n \in Nat /\ F \in [X \X (1 .. n) -> X]
    BY <1>1, <1>4
  <2>2. QED BY <1>2, <1>9, <1>10, <2>1, FoldFollows
<1>12. QED BY <1>1, <1>11, IsDeletingFold DEF g, X, n

(* Tokens near a word: by distance, a token at a time.                      *)
Near == [distance : Int, token : index.tokens]

(* Tokens near a word are in an order.                                      *)
LEMMA NearOrder ==
  ASSUME HasTables(index), NEW a \in Near, NEW b \in Near, NEW c \in Near
  PROVE  /\ ~NearAhead(a, a)
         /\ NearAhead(a, b) /\ NearAhead(b, c) => NearAhead(a, c)
         /\ a = b \/ NearAhead(a, b) \/ NearAhead(b, a)
<1> DEFINE d == a.distance
           e == b.distance
           f == c.distance
           s == a.token
           t == b.token
           u == c.token
<1>1. /\ d \in Int /\ e \in Int /\ f \in Int
      /\ s \in Seq(Int) /\ t \in Seq(Int) /\ u \in Seq(Int)
      /\ d = e /\ s = t => a = b
  BY DEF Near, HasTables
<1>2. /\ NearAhead(a, a) <=> (d < d \/ (d = d /\ Before(s, s)))
      /\ NearAhead(a, b) <=> (d < e \/ (d = e /\ Before(s, t)))
      /\ NearAhead(b, a) <=> (e < d \/ (e = d /\ Before(t, s)))
      /\ NearAhead(b, c) <=> (e < f \/ (e = f /\ Before(t, u)))
      /\ NearAhead(a, c) <=> (d < f \/ (d = f /\ Before(s, u)))
  BY Zenon DEF NearAhead
<1> HIDE DEF d, e, f, s, t, u
<1>3. /\ ~Before(s, s)
      /\ Before(s, t) /\ Before(t, u) => Before(s, u)
      /\ s = t \/ Before(s, t) \/ Before(t, s)
  BY <1>1, BeforeOrder, BeforeTotal
<1>4. /\ ~(d < d) /\ (d < e /\ e < f => d < f) /\ (d < e /\ e = f => d < f)
      /\ (d = e /\ e < f => d < f) /\ (d = e \/ d < e \/ e < d)
  BY <1>1
<1>5. ~NearAhead(a, a)
  BY <1>2, <1>3, <1>4
<1>6. NearAhead(a, b) /\ NearAhead(b, c) => NearAhead(a, c)
  BY <1>2, <1>3, <1>4, Zenon
<1>7. a = b \/ NearAhead(a, b) \/ NearAhead(b, a)
  BY <1>1, <1>2, <1>3, <1>4, Zenon
<1>8. QED BY <1>5, <1>6, <1>7

(* Those that are kept are tokens of the index.                             *)
LEMMA NearFacts ==
  ASSUME HasTables(index), IsAsked, NEW token \in Seq(Int),
         NEW offered \in SUBSET index.tokens, IsFiniteSet(offered)
  PROVE  NearAmong(token, offered) \in Seq(Near)
<1> DEFINE C == {t \in offered : Distance(token, t) > 0}
           f == [t \in C |-> [distance |-> Distance(token, t), token |-> t]]
           S == {[distance |-> Distance(token, t), token |-> t] : t \in C}
           R == {p \in S \X S : NearAhead(p[1], p[2])}
           order == InOrder(S, NearAhead)
<1>1. NearAmong(token, offered) = CutTo(order, request.caps.each)
  BY Zenon DEF NearAmong
<1>2. IsFiniteSet(C) /\ \A t \in C : t \in index.tokens /\ t \in Seq(Int)
  <2>1. C \in SUBSET offered
    OBVIOUS
  <2> HIDE DEF C
  <2>2. QED BY <2>1, FS_Subset DEF HasTables
<1> HIDE DEF C
<1>3. IsFiniteSet(S)
  <2>1. DOMAIN f = C /\ f = [t \in DOMAIN f |-> f[t]] /\ S = {f[t] : t \in DOMAIN f}
    OBVIOUS
  <2> HIDE DEF f, S
  <2>2. QED BY <1>2, <2>1, FiniteRange
<1>4. S \subseteq Near
  <2>1. \A t \in C : Distance(token, t) \in Int
    BY <1>2, DistanceFacts
  <2>2. QED BY <1>2, <2>1 DEF Near
<1> HIDE DEF S
<1>5. \A a, b \in S : <<a, b>> \in R <=> NearAhead(a, b)
  OBVIOUS
<1>6. \A a \in S : Preceding(R, S, a) = {b \in S : NearAhead(b, a)}
  BY <1>5 DEF Preceding
<1> HIDE DEF R
<1>7. Rows(R, S)
  <2>1. \A a \in S : <<a, a>> \notin R
    BY <1>4, <1>5, NearOrder
  <2>2. \A a, b, c \in S : <<a, b>> \in R /\ <<b, c>> \in R => <<a, c>> \in R
    BY <1>4, <1>5, NearOrder
  <2>3. \A a, b \in S : a = b \/ <<a, b>> \in R \/ <<b, a>> \in R
    BY <1>4, <1>5, NearOrder
  <2>4. QED BY <2>1, <2>2, <2>3 DEF Rows
<1>8. order = ByPlace(S, R)
  <2> DEFINE Placed(h) == [i \in 1 .. Cardinality(S) |-> CHOOSE a \in S : h[a] = i]
             v == [a \in S |-> 1 + Cardinality({b \in S : NearAhead(b, a)})]
             w == [a \in S |-> 1 + Cardinality(Preceding(R, S, a))]
  <2>1. v = w
    BY <1>6
  <2>2. order = Placed(v) /\ ByPlace(S, R) = Placed(w)
    BY Zenon DEF InOrder, ByPlace
  <2> HIDE DEF Placed, v, w
  <2>3. QED BY <2>1, <2>2
<1> HIDE DEF order
<1>9. order \in Seq(S)
  BY <1>3, <1>7, <1>8, PlacesList DEF Enumerates
<1>10. order \in Seq(Near)
  BY <1>4, <1>9
<1>11. request.caps.each \in Nat
  BY CapsFacts
<1>12. QED BY <1>1, <1>10, <1>11, CutFacts

(* The score of a correction is a fraction.                                 *)
LEMMA EditScoreFacts ==
  ASSUME NEW distance \in Int, NEW surface \in Seq(Int)
  PROVE  EditScore(distance, surface) \in Fractions
<1> DEFINE e == EditDistance + 1
           n == TokenCount(surface)
           x == 13 * (e - distance)
           y == 20 * e
<1>1. e \in Nat \ {0}
  BY FuzzyAssumption
<1>2. n \in Nat \ {0}
  BY TokensFacts
<1>3. EditScore(distance, surface) = <<x * n + 7 * e, y * n>>
  BY DEF EditScore
<1> HIDE DEF e, n
<1>4. x \in Int /\ y \in Nat \ {0}
  BY <1>1
<1> HIDE DEF x, y
<1>5. x * n \in Int
  BY <1>2, <1>4
<1> DEFINE z == x * n
<1> HIDE DEF z
<1>6. z + 7 * e \in Int
  BY <1>1, <1>5 DEF z
<1>7. y * n \in Nat \ {0}
  BY <1>2, <1>4, PositiveProduct
<1>8. QED BY <1>3, <1>6, <1>7 DEF Fractions, z

(* The surfaces of tokens near a word are mentions at its place.            *)
LEMMA CorrectionsFacts ==
  ASSUME HasTables(index), IsAsked, NEW place \in Span, NEW near \in Seq(Near)
  PROVE  Corrections(place, near) \in Seq(Mention)
<1> DEFINE n == Len(near)
           S(i) == CutTo(index.tokenSurfaces[near[i].token], request.caps.each)
           Row(i) == [k \in 1 .. Len(S(i)) |->
                        [surface |-> S(i)[k], score |-> EditScore(near[i].distance, S(i)[k])]]
           q == [i \in 1 .. n |-> MentionsAt(place, Row(i))]
<1>1. Corrections(place, near) = FlattenSeq(q)
  BY Zenon DEF Corrections
<1>2. n \in Nat /\ \A i \in 1 .. n : near[i] \in Near
  OBVIOUS
<1>3. \A i \in 1 .. n : S(i) \in Seq(DOMAIN index.surfaces) /\ near[i].distance \in Int
  <2>1. \A i \in 1 .. n : /\ index.tokenSurfaces[near[i].token] \in Seq(DOMAIN index.surfaces)
                          /\ near[i].distance \in Int
    BY <1>2 DEF Near, HasTables
  <2>2. QED BY <2>1, CapsFacts, CutFacts
<1> HIDE DEF S
<1>4. \A i \in 1 .. n : Row(i) \in Seq(Scored)
  <2>1. ASSUME NEW i \in 1 .. n PROVE Row(i) \in Seq(Scored)
    <3> DEFINE f == Row(i)
               m == Len(S(i))
    <3>1. m \in Nat /\ \A k \in 1 .. m : S(i)[k] \in DOMAIN index.surfaces
      BY <1>3
    <3>2. DOMAIN f = 1 .. m /\ f = [k \in DOMAIN f |-> f[k]]
          /\ \A k \in 1 .. m : f[k] =
                 [surface |-> S(i)[k], score |-> EditScore(near[i].distance, S(i)[k])]
      OBVIOUS
    <3> HIDE DEF f, m
    <3>3. \A k \in 1 .. m : EditScore(near[i].distance, S(i)[k]) \in Fractions
      BY <1>3, <3>1, EditScoreFacts DEF HasTables, IsCompiled
    <3>4. \A k \in 1 .. m : f[k] \in Scored
      BY <3>1, <3>2, <3>3 DEF Scored
    <3>5. f \in Seq(Scored)
      BY <3>1, <3>2, <3>4, PlaceByPlace
    <3>6. QED BY <3>5 DEF f
  <2>2. QED BY <2>1
<1> HIDE DEF Row
<1>5. \A i \in 1 .. n : q[i] \in Seq(Mention)
  BY <1>4, MentionsAtFacts
<1>6. DOMAIN q = 1 .. n /\ q = [i \in DOMAIN q |-> q[i]]
  OBVIOUS
<1> HIDE DEF q, n
<1>7. q \in Seq(Seq(Mention))
  BY <1>2, <1>5, <1>6, PlaceByPlace
<1>8. FlattenSeq(q) \in Seq(Mention)
  BY <1>7, FlattenFacts DEF Flattened
<1>9. QED BY <1>1, <1>8

(* The channel of corrections finds mentions.                               *)
LEMMA EditFacts ==
  ASSUME HasTables(index), IsAsked, NEW place \in Span, NEW read \in Nat
  PROVE  EditMatches(place, read) \in Findings
<1> DEFINE seen == ReadLists(Lists(index.deletes, Sorted(Deletions(place.text))), read)
           near == NearAmong(place.text, Range(seen.hits))
<1>1. place.text \in Seq(Int)
  BY DEF Span
<1>2. seen \in Readings(index.tokens)
  <2>1. IsFiniteSet(Deletions(place.text))
    BY <1>1, DeletionsFacts DEF Variants
  <2>2. Len(Sorted(Deletions(place.text))) \in Nat
    BY <2>1, SortedLength
  <2>3. \A v \in DOMAIN index.deletes : index.deletes[v] \in Seq(index.tokens)
    BY DEF HasTables
  <2>4. Lists(index.deletes, Sorted(Deletions(place.text))) \in Seq(Seq(index.tokens))
    BY <2>2, <2>3, ListsFacts
  <2>5. QED BY <2>4, CapsFacts, ReadListsFacts
<1>3. EditMatches(place, read) = IF ~Misspelt(place.text) THEN [read |-> read, found |-> <<>>]
                                 ELSE [read |-> seen.read, found |-> Corrections(place, near)]
  BY DEF EditMatches
<1> HIDE DEF seen
<1>4. seen.read \in Nat /\ seen.hits \in Seq(index.tokens)
  BY <1>2 DEF Readings
<1>5. IsFiniteSet(Range(seen.hits)) /\ Range(seen.hits) \in SUBSET index.tokens
  BY <1>4, RangeFinite
<1>6. near \in Seq(Near)
  BY <1>1, <1>5, NearFacts
<1> HIDE DEF near
<1>7. Corrections(place, near) \in Seq(Mention)
  BY <1>6, CorrectionsFacts
<1>8. <<>> \in Seq(Mention)
  OBVIOUS
<1>9. QED BY <1>3, <1>4, <1>7, <1>8 DEF Findings

(* Every channel finds mentions.                                            *)
LEMMA MatchesAtFacts ==
  ASSUME HasTables(index), IsAsked, NEW ch \in Channels, NEW item \in Span, NEW read \in Nat
  PROVE  MatchesAt(ch, item, read) \in Findings
<1>1. CASE ch = "exact"
  BY <1>1, ExactFacts DEF MatchesAt
<1>2. CASE ch = "char"
  BY <1>2, CharFacts DEF MatchesAt
<1>3. CASE ch = "edit"
  BY <1>3, EditFacts DEF MatchesAt
<1>4. CASE ch = "simhash"
  BY <1>4, SimhashFacts DEF MatchesAt
<1>5. QED BY <1>1, <1>2, <1>3, <1>4 DEF Channels

(* A span more adds mentions to those found.                                *)
LEMMA ScanOnFacts ==
  ASSUME HasTables(index), IsAsked, NEW ch \in Channels, NEW sofar \in Findings, NEW item \in Span
  PROVE  ScanOn(ch, sofar, item) \in Findings
<1> DEFINE seen == MatchesAt(ch, item, sofar.read)
<1>1. sofar.read \in Nat /\ sofar.found \in Seq(Mention)
  BY DEF Findings
<1>2. seen \in Findings
  BY <1>1, MatchesAtFacts
<1> HIDE DEF seen
<1>3. seen.read \in Nat /\ seen.found \in Seq(Mention)
  BY <1>2 DEF Findings
<1>4. sofar.found \o seen.found \in Seq(Mention)
  BY <1>1, <1>3
<1>5. ScanOn(ch, sofar, item) = IF sofar.read >= request.caps.postings THEN sofar
        ELSE [read |-> seen.read, found |-> sofar.found \o seen.found]
  BY DEF ScanOn, seen
<1>6. QED BY <1>3, <1>4, <1>5 DEF Findings

IsScan(f, ch, items) ==
  f = [S \in SUBSET DOMAIN items |->
         IF S = {} THEN [read |-> 0, found |-> <<>>]
         ELSE ScanOn(ch, f[S \ {Max(S)}], items[Max(S)])]

(* The fold over all spans, as a function of sets of places.                *)
LEMMA IsScanFold ==
  ASSUME NEW ch, NEW items
  PROVE  Scan(ch, items) = (CHOOSE f : IsScan(f, ch, items))[DOMAIN items]
BY DEF Scan, FoldLeft, MapThenFoldSet, IsScan

(* A channel finds mentions in all spans together.                          *)
LEMMA ScanFacts ==
  ASSUME HasTables(index), IsAsked, NEW ch \in Channels, NEW items \in Seq(Span)
  PROVE  Scan(ch, items) \in Findings
<1> DEFINE n == Len(items)
           X == Findings
           c == [read |-> 0, found |-> <<>>]
           F == [p \in X \X (1 .. n) |-> ScanOn(ch, p[1], items[p[2]])]
           g == CHOOSE f : IsScan(f, ch, items)
<1>1. n \in Nat /\ DOMAIN items = 1 .. n /\ \A i \in 1 .. n : items[i] \in Span
  OBVIOUS
<1>2. c \in X
  BY DEF Findings
<1>3. \A x \in X : \A i \in 1 .. n : ScanOn(ch, x, items[i]) \in X
  BY <1>1, ScanOnFacts
<1> HIDE DEF X, n, c
<1>4. F \in [X \X (1 .. n) -> X] /\
          \A x \in X : \A i \in 1 .. n : F[<<x, i>>] = ScanOn(ch, x, items[i])
  BY <1>3
<1> HIDE DEF F
<1>5. PICK f \in [SUBSET (1 .. n) -> X] : Unfolds(f, c, n, F)
  BY <1>1, <1>2, <1>4, FoldMade
<1>6. IsScan(f, ch, items)
  <2>1. \A S \in SUBSET (1 .. n) : S # {} =>
          F[<<f[S \ {Max(S)}], Max(S)>>] = ScanOn(ch, f[S \ {Max(S)}], items[Max(S)])
    BY <1>1, <1>4, HighestPlace
  <2>2. f = [S \in SUBSET (1 .. n) |->
               IF S = {} THEN c ELSE ScanOn(ch, f[S \ {Max(S)}], items[Max(S)])]
    BY <1>5, <2>1 DEF Unfolds
  <2>3. QED BY <1>1, <2>2 DEF IsScan, c
<1>7. IsScan(g, ch, items)
  BY <1>6
<1> HIDE DEF g
<1>8. g = [S \in SUBSET (1 .. n) |->
             IF S = {} THEN c ELSE ScanOn(ch, g[S \ {Max(S)}], items[Max(S)])]
  BY <1>1, <1>7 DEF IsScan, c
<1>9. \A S \in SUBSET (1 .. n) : S # {} /\ g[S \ {Max(S)}] \in X =>
        g[S] = F[<<g[S \ {Max(S)}], Max(S)>>]
  <2>1. SUFFICES ASSUME NEW S \in SUBSET (1 .. n), S # {}, g[S \ {Max(S)}] \in X
                 PROVE  g[S] = F[<<g[S \ {Max(S)}], Max(S)>>]
    OBVIOUS
  <2>2. Max(S) \in 1 .. n
    BY <1>1, <2>1, HighestPlace
  <2>3. g[S] = ScanOn(ch, g[S \ {Max(S)}], items[Max(S)])
    BY <1>8, <2>1
  <2>4. QED BY <1>4, <2>1, <2>2, <2>3
<1>10. g[{}] = c
  BY <1>8
<1>11. g[1 .. n] \in X
  <2>1. n \in Nat /\ F \in [X \X (1 .. n) -> X]
    BY <1>1, <1>4
  <2>2. QED BY <1>2, <1>9, <1>10, <2>1, FoldFollows
<1>12. QED BY <1>1, <1>11, IsScanFold DEF g, X

(* Whatever the channel and the query, all that is found are mentions.      *)
LEMMA MatchesFacts ==
  ASSUME HasTables(index), IsAsked, NEW ch \in Channels
  PROVE  Matches(ch).found \in Seq(Mention)
<1> DEFINE items == IF ch = "edit" THEN Places(request.words) ELSE Spans(request.words)
<1>1. items \in Seq(Span)
  BY PlacesFacts, SpansFacts
<1>2. Matches(ch) = Scan(ch, items)
  BY DEF Matches
<1> HIDE DEF items
<1>3. Matches(ch) \in Findings
  BY <1>1, <1>2, ScanFacts
<1>4. QED BY <1>3 DEF Findings

----------------------------------------------------------------------------
(* The index of a catalog.                                                  *)

(* Functions whose arguments and values are of a kind: they grow by With.   *)
PartialOn(K, V) == UNION {[E -> V] : E \in SUBSET K}

(* A function of a kind with an argument more is of that kind.              *)
LEMMA WithFacts ==
  ASSUME NEW K, NEW V, NEW f \in PartialOn(K, V), NEW x \in K, NEW y \in V
  PROVE  With(f, x, y) \in PartialOn(K, V)
<1>1. PICK E \in SUBSET K : f \in [E -> V]
  BY DEF PartialOn
<1> DEFINE g == With(f, x, y)
           G == DOMAIN f \cup {x}
<1>2. g = [z \in G |-> IF z = x THEN y ELSE f[z]]
  BY DEF With
<1> HIDE DEF g
<1>3. G \in SUBSET K
  BY <1>1
<1>4. \A z \in G : (IF z = x THEN y ELSE f[z]) \in V
  BY <1>1
<1>5. g \in [G -> V]
  BY <1>2, <1>4
<1>6. QED BY <1>3, <1>5 DEF PartialOn, g

(* Its values are of the kind, or the default is taken.                     *)
LEMMA ValueFacts ==
  ASSUME NEW K, NEW V, NEW f \in PartialOn(K, V), NEW x, NEW default
  PROVE  Value(f, x, default) \in V \/ Value(f, x, default) = default
BY DEF PartialOn, Value

(* What is known of a surface and entity, with ids among some.              *)
Evidences(I, D) ==
  {v \in [count : Nat \ {0}, documents : Nat, occurrenceIds : SUBSET I, documentIds : SUBSET D] :
     IsFiniteSet(v.occurrenceIds) /\ IsFiniteSet(v.documentIds)}
Entries(I, D) == PartialOn(DOMAIN TitleRank \cup {0}, Evidences(I, D))
Tables(I, D) == {f \in PartialOn(Seq(Int), Entries(I, D)) : IsFiniteSet(DOMAIN f)}

(* At first there are no surfaces and no entities of one.                   *)
LEMMA NoTable ==
  ASSUME NEW I, NEW D
  PROVE  <<>> \in Tables(I, D) /\ <<>> \in Entries(I, D)
<1>1. \A V : <<>> \in [{} -> V] /\ DOMAIN <<>> = {}
  OBVIOUS
<1>2. \A K, V : <<>> \in PartialOn(K, V)
  BY <1>1 DEF PartialOn
<1>3. QED BY <1>1, <1>2, FS_EmptySet DEF Tables, Entries

(* What is known is evidence: it counts at least one occurrence.            *)
LEMMA EvidenceFacts ==
  ASSUME NEW I, NEW D, NEW count \in Nat \ {0}, NEW documents \in Nat,
         NEW ids \in SUBSET I, IsFiniteSet(ids),
         NEW documentIds \in SUBSET D, IsFiniteSet(documentIds)
  PROVE  Evidence(count, documents, ids, documentIds) \in Evidences(I, D)
<1> DEFINE a == IF ids = {} THEN count ELSE Cardinality(ids)
           b == IF documentIds = {} THEN documents ELSE Cardinality(documentIds)
<1>1. a \in Nat \ {0}
  BY FS_CardinalityType, FS_EmptySet
<1>2. b \in Nat
  BY FS_CardinalityType
<1>3. Evidence(count, documents, ids, documentIds)
        = [count |-> a, documents |-> b, occurrenceIds |-> ids, documentIds |-> documentIds]
  BY DEF Evidence
<1> HIDE DEF a, b
<1>4. QED BY <1>1, <1>2, <1>3 DEF Evidences

(* A record more.                                                           *)
LEMMA MergeFacts ==
  ASSUME NEW I, NEW D, NEW surfaces \in Tables(I, D), NEW r, IsRecord(r),
         r.occurrenceIds \subseteq I, r.documentIds \subseteq D
  PROVE  MergeRecord(surfaces, r) \in Tables(I, D)
<1> DEFINE text == TextOf(r.surface)
           here == Value(surfaces, text, <<>>)
           none == [occurrenceIds |-> {}, documentIds |-> {}]
           before == Value(here, r.entity, none)
           ids == r.occurrenceIds \cup before.occurrenceIds
           documentIds == r.documentIds \cup before.documentIds
           new == Evidence(r.count, r.documents, ids, documentIds)
           row == With(here, r.entity, new)
<1>1. MergeRecord(surfaces, r) = With(surfaces, text, row)
  BY DEF MergeRecord
<1>2. text \in Seq(Int)
  BY TextFacts DEF IsRecord
<1>3. r.entity \in DOMAIN TitleRank \cup {0}
  BY DEF IsRecord
<1>4. r.count \in Nat \ {0} /\ r.documents \in Nat
  BY DEF IsRecord
<1>5. IsFiniteSet(r.occurrenceIds) /\ IsFiniteSet(r.documentIds)
  BY DEF IsRecord, IdsFit
<1>6. surfaces \in PartialOn(Seq(Int), Entries(I, D)) /\ IsFiniteSet(DOMAIN surfaces)
  BY DEF Tables
<1>7. here \in Entries(I, D)
  BY <1>6, ValueFacts, NoTable
<1> HIDE DEF here
<1>8. before \in Evidences(I, D) \/ before = none
  BY <1>7, ValueFacts DEF Entries
<1> HIDE DEF before
<1>9. /\ before.occurrenceIds \in SUBSET I /\ IsFiniteSet(before.occurrenceIds)
      /\ before.documentIds \in SUBSET D /\ IsFiniteSet(before.documentIds)
  BY <1>8, FS_EmptySet DEF Evidences
<1>10. ids \in SUBSET I /\ IsFiniteSet(ids) /\ documentIds \in SUBSET D /\ IsFiniteSet(documentIds)
  BY <1>5, <1>9, FS_Union
<1> HIDE DEF ids, documentIds
<1>11. new \in Evidences(I, D)
  BY <1>4, <1>10, EvidenceFacts
<1> HIDE DEF new
<1>12. row \in Entries(I, D)
  BY <1>3, <1>7, <1>11, WithFacts DEF Entries
<1> HIDE DEF row, text
<1> DEFINE w == With(surfaces, text, row)
<1>13. w \in PartialOn(Seq(Int), Entries(I, D)) /\ DOMAIN w = DOMAIN surfaces \cup {text}
  <2> DEFINE K == Seq(Int)
             V == Entries(I, D)
  <2>1. surfaces \in PartialOn(K, V) /\ text \in K /\ row \in V
    BY <1>2, <1>6, <1>12
  <2> HIDE DEF K, V
  <2>2. w \in PartialOn(K, V)
    BY <2>1, WithFacts
  <2>3. DOMAIN w = DOMAIN surfaces \cup {text}
    BY DEF With
  <2>4. QED BY <2>2, <2>3 DEF K, V
<1>14. IsFiniteSet(DOMAIN w)
  BY <1>6, <1>13, FS_AddElement
<1>15. QED BY <1>1, <1>13, <1>14 DEF Tables

IsMerge(f, rows) ==
  f = [S \in SUBSET DOMAIN rows |->
         IF S = {} THEN <<>> ELSE MergeRecord(f[S \ {Max(S)}], rows[Max(S)])]

(* The fold that merges records, as a function of sets of places.           *)
LEMMA IsMergeFold ==
  ASSUME NEW rows
  PROVE  FoldLeft(MergeRecord, <<>>, rows) = (CHOOSE f : IsMerge(f, rows))[DOMAIN rows]
BY DEF FoldLeft, MapThenFoldSet, IsMerge

(* All records together make a table of surfaces.                           *)
LEMMA MergedFacts ==
  ASSUME NEW I, NEW D, NEW rows, rows \in Seq(Range(rows)),
         \A r \in Range(rows) : IsRecord(r) /\ r.occurrenceIds \subseteq I /\
             r.documentIds \subseteq D
  PROVE  FoldLeft(MergeRecord, <<>>, rows) \in Tables(I, D)
<1> DEFINE n == Len(rows)
           X == Tables(I, D)
           c == <<>>
           F == [p \in X \X (1 .. n) |-> MergeRecord(p[1], rows[p[2]])]
           g == CHOOSE f : IsMerge(f, rows)
<1>1. n \in Nat /\ DOMAIN rows = 1 .. n /\ \A i \in 1 .. n : rows[i] \in Range(rows)
  BY DEF Range
<1>2. c \in X
  BY NoTable
<1>3. \A x \in X : \A i \in 1 .. n : MergeRecord(x, rows[i]) \in X
  BY <1>1, MergeFacts
<1> HIDE DEF X, n, c
<1>4. F \in [X \X (1 .. n) -> X] /\
          \A x \in X : \A i \in 1 .. n : F[<<x, i>>] = MergeRecord(x, rows[i])
  BY <1>3
<1> HIDE DEF F
<1>5. PICK f \in [SUBSET (1 .. n) -> X] : Unfolds(f, c, n, F)
  BY <1>1, <1>2, <1>4, FoldMade
<1>6. IsMerge(f, rows)
  <2>1. \A S \in SUBSET (1 .. n) : S # {} =>
          F[<<f[S \ {Max(S)}], Max(S)>>] = MergeRecord(f[S \ {Max(S)}], rows[Max(S)])
    BY <1>1, <1>4, HighestPlace
  <2>2. f = [S \in SUBSET (1 .. n) |->
               IF S = {} THEN c ELSE MergeRecord(f[S \ {Max(S)}], rows[Max(S)])]
    BY <1>5, <2>1 DEF Unfolds
  <2>3. QED BY <1>1, <2>2 DEF IsMerge, c
<1>7. IsMerge(g, rows)
  BY <1>6
<1> HIDE DEF g
<1>8. g = [S \in SUBSET (1 .. n) |->
             IF S = {} THEN c ELSE MergeRecord(g[S \ {Max(S)}], rows[Max(S)])]
  BY <1>1, <1>7 DEF IsMerge, c
<1>9. \A S \in SUBSET (1 .. n) : S # {} /\ g[S \ {Max(S)}] \in X =>
        g[S] = F[<<g[S \ {Max(S)}], Max(S)>>]
  <2>1. SUFFICES ASSUME NEW S \in SUBSET (1 .. n), S # {}, g[S \ {Max(S)}] \in X
                 PROVE  g[S] = F[<<g[S \ {Max(S)}], Max(S)>>]
    OBVIOUS
  <2>2. Max(S) \in 1 .. n
    BY <1>1, <2>1, HighestPlace
  <2>3. g[S] = MergeRecord(g[S \ {Max(S)}], rows[Max(S)])
    BY <1>8, <2>1
  <2>4. QED BY <1>4, <2>1, <2>2, <2>3
<1>10. g[{}] = c
  BY <1>8
<1>11. g[1 .. n] \in X
  <2>1. n \in Nat /\ F \in [X \X (1 .. n) -> X]
    BY <1>1, <1>4
  <2>2. QED BY <1>2, <1>9, <1>10, <2>1, FoldFollows
<1>12. QED BY <1>1, <1>11, IsMergeFold DEF g, X

(* Some of finitely many texts, sorted, are a list of those texts.          *)
LEMMA SortedPart ==
  ASSUME NEW T \in SUBSET Seq(Int), IsFiniteSet(T), NEW S \in SUBSET T
  PROVE  Sorted(S) \in Seq(T)
<1>1. IsFiniteSet(S)
  BY FS_Subset
<1>2. Sorted(S) \in Seq(S)
  BY <1>1, SortedLists DEF Enumerates
<1> DEFINE q == Sorted(S)
<1> HIDE DEF q
<1>3. q \in Seq(S) => q \in Seq(T)
  OBVIOUS
<1>4. QED BY <1>2, <1>3 DEF q

(* Every catalog compiles to an index whose tables hold together.           *)
LEMMA CompiledFacts ==
  ASSUME NEW rows \in Catalogs
  PROVE  HasTables(CompiledFuzzy(rows)) /\ CompiledFuzzy(rows) # NoIndex
<1> DEFINE surfaces == FoldLeft(MergeRecord, <<>>, rows)
           B == DOMAIN surfaces
           tokens == UNION {TokensOf(s) : s \in B}
           gramsOf == [s \in B |-> Grams(s)]
           simhash == [s \in B |-> Fingerprint(s)]
           variants == [t \in tokens |-> Deletions(t)]
           ngrams == [g \in UNION Range(gramsOf) |-> Sorted({s \in B : g \in gramsOf[s]})]
           deletes == [v \in UNION Range(variants) |-> Sorted({t \in tokens : v \in variants[t]})]
           tokenSurfaces == [t \in tokens |-> Sorted({s \in B : t \in TokensOf(s)})]
           lsh == [k \in {<<p[1], simhash[p[2]] \cap Band(p[1])>> : p \in (0 .. Bands - 1) \X B} |->
                     Sorted({s \in B : simhash[s] \cap Band(k[1]) = k[2]})]
           widest == Max({TokenCount(s) : s \in B} \cup {1})
           ix == CompiledFuzzy(rows)
           I == UNION {r.occurrenceIds : r \in Range(rows)}
           D == UNION {r.documentIds : r \in Range(rows)}
<1>1. ix = [built |-> TRUE, surfaces |-> surfaces, grams |-> gramsOf, simhash |-> simhash,
            tokens |-> tokens, ngrams |-> ngrams, deletes |-> deletes,
            tokenSurfaces |-> tokenSurfaces, lsh |-> lsh, widest |-> widest]
  BY Zenon DEF CompiledFuzzy
<1> HIDE DEF ix, widest
<1>2. surfaces \in Tables(I, D)
  <2>1. rows \in Seq(Range(rows)) /\ \A r \in Range(rows) : IsRecord(r)
    BY FuzzyAssumption
  <2>2. \A r \in Range(rows) : r.occurrenceIds \subseteq I /\ r.documentIds \subseteq D
    OBVIOUS
  <2> HIDE DEF I, D
  <2>3. QED BY <2>1, <2>2, MergedFacts
<1> HIDE DEF surfaces, I, D
<1>3. IsFiniteSet(B) /\ B \in SUBSET Seq(Int) /\ \A s \in B : surfaces[s] \in Entries(I, D)
  BY <1>2 DEF Tables, PartialOn
<1>4. IsCompiled(ix)
  <2>1. ASSUME NEW s \in B
        PROVE  /\ DOMAIN surfaces[s] \subseteq DOMAIN TitleRank \cup {0}
               /\ \A e \in DOMAIN surfaces[s] : IsEvidence(surfaces[s][e])
    <3>1. PICK E \in SUBSET (DOMAIN TitleRank \cup {0}) : surfaces[s] \in [E -> Evidences(I, D)]
      BY <1>3 DEF Entries, PartialOn
    <3>2. \A v \in Evidences(I, D) : IsEvidence(v)
      BY DEF Evidences, IsEvidence
    <3>3. QED BY <3>1, <3>2
  <2>2. ix.surfaces = surfaces
    BY <1>1
  <2>3. QED BY <1>3, <2>1, <2>2 DEF IsCompiled
<1> HIDE DEF B
<1>5. tokens \in SUBSET Seq(Int) /\ IsFiniteSet(tokens)
  <2> DEFINE f == [s \in B |-> TokensOf(s)]
             all == {TokensOf(s) : s \in B}
  <2>1. \A s \in B : TokensOf(s) \subseteq Seq(Int) /\ IsFiniteSet(TokensOf(s))
    BY <1>3, TokensFacts
  <2>2. DOMAIN f = B /\ f = [s \in DOMAIN f |-> f[s]] /\ all = {f[s] : s \in DOMAIN f}
    OBVIOUS
  <2>3. \A T \in all : T \subseteq Seq(Int) /\ IsFiniteSet(T)
    BY <2>1
  <2> HIDE DEF f, all
  <2>4. IsFiniteSet(all)
    BY <1>3, <2>2, FiniteRange
  <2>5. IsFiniteSet(UNION all) /\ UNION all \subseteq Seq(Int)
    <3>1. UNION all \subseteq Seq(Int)
      BY <2>3
    <3>2. QED BY <2>3, <2>4, <3>1, FS_UNION
  <2>6. QED BY <2>5 DEF all
<1>6. \A s \in B : Cardinality(gramsOf[s]) \in Nat \ {0} /\ IsFiniteSet(simhash[s])
  BY <1>3, GramsFacts, FingerprintFacts
<1>7. \A g \in DOMAIN ngrams : ngrams[g] \in Seq(B)
  <2> DEFINE S(g) == {s \in B : g \in gramsOf[s]}
  <2>1. \A g : S(g) \in SUBSET B
    OBVIOUS
  <2>2. \A g \in DOMAIN ngrams : ngrams[g] = Sorted(S(g))
    OBVIOUS
  <2> HIDE DEF S, ngrams
  <2>3. QED BY <1>3, <2>1, <2>2, SortedPart
<1>8. \A v \in DOMAIN deletes : deletes[v] \in Seq(tokens)
  <2> DEFINE S(v) == {t \in tokens : v \in variants[t]}
  <2>1. \A v : S(v) \in SUBSET tokens
    OBVIOUS
  <2>2. \A v \in DOMAIN deletes : deletes[v] = Sorted(S(v))
    OBVIOUS
  <2> HIDE DEF S, deletes, tokens
  <2>3. QED BY <1>5, <2>1, <2>2, SortedPart
<1>9. \A t \in tokens : tokenSurfaces[t] \in Seq(B)
  <2> DEFINE S(t) == {s \in B : t \in TokensOf(s)}
  <2>1. \A t : S(t) \in SUBSET B
    OBVIOUS
  <2>2. \A t \in tokens : tokenSurfaces[t] = Sorted(S(t))
    OBVIOUS
  <2> HIDE DEF S, tokenSurfaces, tokens
  <2>3. QED BY <1>3, <2>1, <2>2, SortedPart
<1>10. \A k \in DOMAIN lsh : lsh[k] \in Seq(B)
  <2> DEFINE S(k) == {s \in B : simhash[s] \cap Band(k[1]) = k[2]}
  <2>1. \A k : S(k) \in SUBSET B
    OBVIOUS
  <2>2. \A k \in DOMAIN lsh : lsh[k] = Sorted(S(k))
    OBVIOUS
  <2> HIDE DEF S, lsh
  <2>3. QED BY <1>3, <2>1, <2>2, SortedPart
<1> HIDE DEF tokens, gramsOf, simhash, variants, ngrams, deletes, tokenSurfaces, lsh
<1>11. /\ ix.surfaces = surfaces /\ ix.grams = gramsOf /\ ix.simhash = simhash /\ ix.tokens = tokens
       /\ ix.ngrams = ngrams /\ ix.deletes = deletes /\ ix.tokenSurfaces = tokenSurfaces
       /\ ix.lsh = lsh /\ ix.built = TRUE
  BY <1>1
<1>12. HasTables(ix)
  BY <1>4, <1>5, <1>6, <1>7, <1>8, <1>9, <1>10, <1>11 DEF HasTables, B
<1>13. ix # NoIndex
  <2>1. NoIndex.built = FALSE
    BY DEF NoIndex
  <2>2. QED BY <1>11, <2>1
<1>14. QED BY <1>12, <1>13 DEF ix

----------------------------------------------------------------------------
(* Steps.                                                                   *)

(* An index is compiled before it is asked; whatever is found of a query    *)
(* proposes all that it reaches, and is united faithfully.                  *)
FuzzyInv ==
  /\ index = NoIndex \/ HasTables(index)
  /\ IsAsked \/ request = NoQuery
  /\ results # {} => index # NoIndex /\ IsAsked
  /\ AreResults
  /\ united # NoUnion => results # {} /\ IsFaithful(united)

(* What depends on the index stays while it does.                           *)
LEMMA ResultsStay ==
  ASSUME UNCHANGED index, NEW r, IsResult(r)
  PROVE  IsResult(r)'
<1>1. \A s : ReachedBy(s)' = ReachedBy(s)
  BY DEF ReachedBy
<1>2. \A M : AreMentions(M)' <=> AreMentions(M)
  BY DEF AreMentions, IsMention
<1>3. \A M : EntitiesOf(M)' = EntitiesOf(M)
  BY <1>1 DEF EntitiesOf
<1>4. \A c, M, e : Proposal(c, M, e)' = Proposal(c, M, e)
  <2>1. ASSUME NEW c, NEW M, NEW e PROVE Proposal(c, M, e)' = Proposal(c, M, e)
    BY <1>1 DEF Proposal
  <2>2. QED BY <2>1
<1>5. {Proposal(r.channel, r.mentions, e) : e \in EntitiesOf(r.mentions)}'
        = {Proposal(r.channel, r.mentions, e) : e \in EntitiesOf(r.mentions)}
  BY <1>3, <1>4
<1>6. QED BY <1>2, <1>5 DEF IsResult

(* And what depends on the answers stays while they do.                     *)
LEMMA FaithfulStays ==
  ASSUME UNCHANGED <<index, request, results>>, NEW v, IsFaithful(v)
  PROVE  IsFaithful(v)'
<1>1. \A s : ReachedBy(s)' = ReachedBy(s)
  BY DEF ReachedBy
<1>2. \A M, e : MineOf(M, e)' = MineOf(M, e)
  BY <1>1 DEF MineOf
<1>3. \A M, e : RowsOfMentions(M, e)' = RowsOfMentions(M, e)
  BY DEF RowsOfMentions
<1>4. \A e : MentionsOf(e)' = MentionsOf(e)
  BY <1>2 DEF MentionsOf
<1>5. \A e : Holding(e)' = Holding(e)
  BY <1>2 DEF Holding
<1>6. \A e : RecordsOf(e)' = RecordsOf(e)
  BY <1>3, <1>4 DEF RecordsOf
<1>7. \A e : IdsOf(e)' = IdsOf(e)
  BY <1>6 DEF IdsOf
<1>8. \A e : MostOf(e)' = MostOf(e)
  BY <1>6, <1>7 DEF MostOf
<1>9. Reached' = Reached
  BY <1>4 DEF Reached
<1>10. \A u, e : IsUnited(u, e)' <=> IsUnited(u, e)
  BY <1>4, <1>5, <1>7, <1>8 DEF IsUnited
<1>11. QED BY <1>9, <1>10 DEF IsFaithful

(* It holds at first.                                                       *)
LEMMA FuzzyInvStart == FuzzyInit => FuzzyInv
<1>1. IsFiniteSet({})
  BY FS_EmptySet
<1>2. QED BY <1>1 DEF FuzzyInit, FuzzyInv, AreResults

(* Every step keeps it: a lookup adds a result that proposes all it         *)
(* reaches, and the union of such results is faithful to them.              *)
LEMMA FuzzyInvStep == FuzzyInv /\ [FuzzyNext]_fuzzyVars => FuzzyInv'
<1>1. SUFFICES ASSUME FuzzyInv, [FuzzyNext]_fuzzyVars
               PROVE  FuzzyInv'
  OBVIOUS
<1>2. IsFiniteSet({}) /\ results' = {} => AreResults'
  BY DEF AreResults
<1>3. IsFiniteSet({})
  BY FS_EmptySet
<1>4. CASE BuildIndex
  <2>1. PICK rows \in Catalogs : index' = CompiledFuzzy(rows)
    BY <1>4 DEF BuildIndex
  <2>2. index = NoIndex /\ request' = request /\ results' = results /\ united' = united
    BY <1>4 DEF BuildIndex
  <2>3. results = {} /\ united = NoUnion
    BY <1>1, <2>2 DEF FuzzyInv
  <2>4. HasTables(CompiledFuzzy(rows))
    BY CompiledFacts
  <2>5. HasTables(index)'
    BY <2>1, <2>4 DEF HasTables, IsCompiled
  <2>6. (IsAsked \/ request = NoQuery)'
    BY <1>1, <2>2 DEF FuzzyInv, IsAsked, NoQuery
  <2>7. QED BY <1>2, <1>3, <2>2, <2>3, <2>5, <2>6 DEF FuzzyInv, NoUnion
<1>5. CASE AskQuery
  <2>1. results = {} /\ index # NoIndex /\ index' = index /\ results' = results /\ united' = united
    BY <1>5 DEF AskQuery
  <2>2. united = NoUnion
    BY <1>1, <2>1 DEF FuzzyInv
  <2>3. PICK words \in FuzzyQueries, caps \in Settings : request' = [words |-> words, caps |-> caps]
    BY <1>5 DEF AskQuery
  <2>4. IsAsked'
    BY <2>3, FuzzyAssumption DEF IsAsked
  <2>5. (index = NoIndex \/ HasTables(index))'
    BY <1>1, <2>1 DEF FuzzyInv, HasTables, IsCompiled, NoIndex
  <2>6. QED BY <1>2, <1>3, <2>1, <2>2, <2>4, <2>5 DEF FuzzyInv, NoUnion
<1>6. CASE LookupChannel
  <2>1. index # NoIndex /\ request.words # <<>> /\ united = NoUnion /\
            UNCHANGED <<index, request, united>>
    BY <1>6 DEF LookupChannel
  <2>2. IsAsked /\ HasTables(index)
    BY <1>1, <2>1 DEF FuzzyInv, NoQuery
  <2>3. PICK c \in Channels : results' = results \cup {Result(c)}
    BY <1>6 DEF LookupChannel
  <2>4. IsResult(Result(c))
    BY <2>2, MatchesFacts, ResultFacts DEF HasTables
  <2>5. AreResults'
    <3> DEFINE new == Result(c)
    <3>1. IsResult(new)
      BY <2>4
    <3>2. results' = results \cup {new}
      BY <2>3
    <3> HIDE DEF new
    <3>3. IsFiniteSet(results')
      BY <1>1, <3>2, FS_AddElement DEF FuzzyInv, AreResults
    <3>4. \A r \in results' : IsResult(r)
      BY <1>1, <3>1, <3>2 DEF FuzzyInv, AreResults
    <3>5. \A r \in results' : IsResult(r)'
      BY <2>1, <3>4, ResultsStay
    <3>6. QED BY <3>3, <3>5 DEF AreResults
  <2>6. HasTables(index)'
    BY <2>1, <2>2 DEF HasTables, IsCompiled
  <2>7. IsAsked' /\ (index # NoIndex)' /\ (united = NoUnion)'
    BY <2>1, <2>2 DEF IsAsked, NoIndex, NoUnion
  <2>8. QED BY <2>5, <2>6, <2>7 DEF FuzzyInv
<1>7. CASE UnionResults
  <2>1. results # {} /\ united = NoUnion /\ UNCHANGED <<index, request, results>>
    BY <1>7 DEF UnionResults
  <2>2. united' = UnionOf
    BY <1>7, Zenon DEF UnionResults, UnionOf, AllProposed
  <2>3. IsAsked /\ HasTables(index) /\ AreResults
    BY <1>1, <2>1 DEF FuzzyInv
  <2>4. IsFaithful(UnionOf)
    BY <2>3, CapsFacts, UnionOfFaithful DEF HasTables
  <2>5. IsFaithful(united)'
    <3> DEFINE v == UnionOf
    <3>1. IsFaithful(v) /\ united' = v
      BY <2>2, <2>4
    <3> HIDE DEF v
    <3>2. QED BY <2>1, <3>1, FaithfulStays
  <2>6. AreResults'
    <3>1. \A r \in results : IsResult(r)'
      BY <2>1, <2>3, ResultsStay DEF AreResults
    <3>2. QED BY <2>1, <2>3, <3>1 DEF AreResults
  <2>7. HasTables(index)'
    BY <2>1, <2>3 DEF HasTables, IsCompiled
  <2>8. IsAsked' /\ (index # NoIndex)' /\ (results # {})'
    BY <1>1, <2>1, <2>3 DEF FuzzyInv, IsAsked, NoIndex
  <2>9. QED BY <2>5, <2>6, <2>7, <2>8 DEF FuzzyInv
<1>8. CASE AskAgain
  <2>1. request' = NoQuery /\ results' = {} /\ united' = NoUnion /\ index' = index
    BY <1>8 DEF AskAgain
  <2>2. (index = NoIndex \/ HasTables(index))'
    BY <1>1, <2>1 DEF FuzzyInv, HasTables, IsCompiled, NoIndex
  <2>3. QED BY <1>2, <1>3, <2>1, <2>2 DEF FuzzyInv, NoQuery, NoUnion
<1>9. CASE UNCHANGED fuzzyVars
  <2>1. UNCHANGED <<index, request, results>> /\ united' = united /\ index' = index
    BY <1>9 DEF fuzzyVars
  <2>2. (index = NoIndex \/ HasTables(index))'
    BY <1>1, <2>1 DEF FuzzyInv, HasTables, IsCompiled, NoIndex
  <2>3. (IsAsked \/ request = NoQuery)'
    BY <1>1, <2>1 DEF FuzzyInv, IsAsked, NoQuery
  <2>4. AreResults'
    <3>1. \A r \in results : IsResult(r)'
      BY <1>1, <2>1, ResultsStay DEF FuzzyInv, AreResults
    <3>2. QED BY <1>1, <2>1, <3>1 DEF FuzzyInv, AreResults
  <2>5. (united # NoUnion => results # {} /\ IsFaithful(united))'
    <3>1. CASE united = NoUnion
      BY <2>1, <3>1 DEF NoUnion
    <3>2. CASE united # NoUnion
      <4>1. IsFaithful(united) /\ results # {}
        BY <1>1, <3>2 DEF FuzzyInv
      <4>2. ASSUME NEW v, v = united PROVE IsFaithful(v)'
        BY <2>1, <4>1, <4>2, FaithfulStays
      <4>3. QED BY <2>1, <4>1, <4>2
    <3>3. QED BY <3>1, <3>2
  <2>6. (results # {} => index # NoIndex /\ IsAsked)'
    BY <1>1, <2>1 DEF FuzzyInv, IsAsked, NoIndex
  <2>7. QED BY <2>2, <2>3, <2>4, <2>5, <2>6 DEF FuzzyInv
<1>10. QED BY <1>1, <1>4, <1>5, <1>6, <1>7, <1>8, <1>9 DEF FuzzyNext

(* The union of what the channels propose holds every address that one of   *)
(* them reaches, and keeps none in favour of one that fewer reach.          *)
THEOREM UnionIsFaithful == FuzzySpec => []UnionFaithful
<1>1. FuzzyInv => UnionFaithful
  BY FaithfulIs DEF FuzzyInv, UnionFaithful
<1>2. QED BY <1>1, FuzzyInvStart, FuzzyInvStep, PTL DEF FuzzySpec
==============================================================================
