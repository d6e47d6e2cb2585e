-------------------------------- MODULE Search --------------------------------
(***************************************************************************)
(* The bounded searches over micro-operations (controller/search.py):      *)
(* best-first, which pops a heap, and beam, which expands one level of     *)
(* nodes at a time and keeps the best few of the next.                     *)
(*                                                                         *)
(* The states searched are an abstract graph: what the searches read of a  *)
(* MicroState is its legal successors, the key that identifies it, its     *)
(* priority and, when it is terminal, its verdict.  A key leaves out the   *)
(* operation counts, so two states may share one.  A beam level is sorted  *)
(* before it is expanded, so both searches take their nodes in order of    *)
(* priority and serial number.                                             *)
(***************************************************************************)
EXTENDS Integers, Sequences, FiniteSets

CONSTANTS
  Problems,   \* searches: a graph and a configuration (see ProblemType)
  NoNode      \* nothing selected

(* A graph: initial state, legal successors in the order of legal_actions   *)
(* (actions that raise are not among them), key, priority, rank among       *)
(* answers, terminal kind ("none" when there is none), and what the         *)
(* terminal holds.  A configuration: SearchConfig and the gold switch.      *)
IsProblem(p) ==
  /\ p.initial \in p.states
  /\ p.children \in [p.states -> Seq(p.states)]
  /\ DOMAIN p.key = p.states /\ DOMAIN p.answer = p.states
  /\ p.priority \in [p.states -> Int] /\ p.order \in [p.states -> Int]
  /\ p.terminal \in [p.states -> {"none", "ANSWER", "ABSTAIN"}]
  /\ p.verified \in [p.states -> BOOLEAN] /\ p.correct \in [p.states -> BOOLEAN]
  /\ p.possible \in BOOLEAN /\ p.gold \in BOOLEAN
  /\ p.kind \in {"best_first", "beam"}
  /\ p.max_depth \in Nat /\ p.max_expansions \in Nat
  /\ p.beam_width \in Nat \ {0} /\ p.max_terminal_candidates \in Nat

ASSUME SearchAssumption ==
  \A p \in Problems :
     IsProblem(p) /\ NoNode \notin [state : p.states, depth : Nat, serial : Nat]

VARIABLES
  problem,     \* the search: never changes
  open,        \* the heap, or what is left of the beam's level
  candidates,  \* beam: the children found on this level
  level,       \* beam: the level's depth
  visited,     \* the nodes that were first with their key
  terminals,   \* terminal nodes recorded
  expansions,
  serial,      \* nodes made so far
  stopping,    \* an answer that ends the search was reached
  phase,       \* "searching", "ended", "returned"
  cut,         \* history: beam: nodes were dropped unexplored
  selected,    \* SearchResult: selected_trajectory
  exhausted    \* SearchResult: exhausted

searchVars == <<problem, open, candidates, level, visited, terminals, expansions,
                serial, stopping, phase, cut, selected, exhausted>>

NodeOf(state, depth, number) ==
  [state |-> state, depth |-> depth, serial |-> number]

BestFirst == problem.kind = "best_first"
Beam == problem.kind = "beam"

Key(n) == problem.key[n.state]
VisitedKeys == {Key(n) : n \in visited}
IsTerminal(n) == problem.terminal[n.state] # "none"
Answers(n) == problem.terminal[n.state] = "ANSWER" /\ problem.verified[n.state]

(* Node order: priority, then serial number.                                *)
Precedes(m, n) ==
  \/ problem.priority[m.state] < problem.priority[n.state]
  \/ problem.priority[m.state] = problem.priority[n.state] /\ m.serial <= n.serial
First(nodes) == CHOOSE n \in nodes : \A m \in nodes : Precedes(n, m)
Best(nodes, width) ==
  {n \in nodes : Cardinality({m \in nodes : Precedes(m, n)}) <= width}

ChildrenOf(n) ==
  {NodeOf(problem.children[n.state][i], n.depth + 1, serial + i) :
     i \in 1 .. Len(problem.children[n.state])}

SearchStart ==
  /\ open = {NodeOf(problem.initial, 0, 0)}
  /\ candidates = {} /\ level = 0 /\ visited = {} /\ terminals = <<>>
  /\ expansions = 0 /\ serial = 0 /\ stopping = FALSE /\ cut = FALSE
  /\ phase = "searching" /\ selected = NoNode /\ exhausted = FALSE

SearchInit == problem \in Problems /\ SearchStart

(* Best-first loops while its guard holds; a beam level goes through all    *)
(* its nodes, whatever it reaches on the way.                               *)
Looping ==
  /\ phase = "searching" /\ problem.possible /\ open # {}
  /\ BestFirst => /\ ~stopping
                  /\ expansions < problem.max_expansions
                  /\ Len(terminals) < problem.max_terminal_candidates

Popped(n) == Looping /\ n = First(open)

(* A node whose key was visited is dropped.                                 *)
DropVisited(n) ==
  /\ Popped(n) /\ Key(n) \in VisitedKeys
  /\ open' = open \ {n}
  /\ UNCHANGED <<problem, candidates, level, visited, terminals, expansions, serial,
                 stopping, phase, cut, selected, exhausted>>

(* A terminal node is recorded unless one with the same verdict and answer  *)
(* was, and may end the search.                                             *)
SameAnswer(m, n) ==                              \* mutant: verdict left out
  /\ problem.terminal[m.state] = problem.terminal[n.state]
  /\ problem.answer[m.state] = problem.answer[n.state]
SameTerminal(m, n) ==
  /\ problem.terminal[m.state] = problem.terminal[n.state]
  /\ problem.answer[m.state] = problem.answer[n.state]
  /\ problem.verified[m.state] = problem.verified[n.state]
Ends(n) ==
  /\ problem.verified[n.state]
  /\ problem.gold => problem.correct[n.state]
  /\ BestFirst \/ ~problem.gold => problem.terminal[n.state] = "ANSWER"

VisitTerminal(n) ==
  /\ Popped(n) /\ Key(n) \notin VisitedKeys /\ IsTerminal(n)
  /\ open' = open \ {n} /\ visited' = visited \cup {n}
  /\ terminals' = IF \E i \in 1 .. Len(terminals) : SameTerminal(terminals[i], n)
                  THEN terminals ELSE Append(terminals, n)
  /\ stopping' = (stopping \/ Ends(n))
  /\ UNCHANGED <<problem, candidates, level, expansions, serial, phase, cut,
                 selected, exhausted>>

(* Best-first keeps the key of a node at the depth limit and goes on.       *)
VisitDeepest(n) ==
  /\ BestFirst /\ Popped(n) /\ Key(n) \notin VisitedKeys /\ ~IsTerminal(n)
  /\ n.depth >= problem.max_depth
  /\ open' = open \ {n} /\ visited' = visited \cup {n}
  /\ UNCHANGED <<problem, candidates, level, terminals, expansions, serial, stopping,
                 phase, cut, selected, exhausted>>

(* The children go to the heap, or to the candidates for the next level.    *)
Grow(n) ==
  /\ expansions' = expansions + 1
  /\ serial' = serial + Len(problem.children[n.state])
  /\ IF BestFirst
     THEN open' = (open \ {n}) \cup ChildrenOf(n) /\ UNCHANGED candidates
     ELSE open' = open \ {n} /\ candidates' = candidates \cup ChildrenOf(n)
ExpandMarksChildren(n) ==                        \* mutant: marked when pushed
  /\ Popped(n) /\ Key(n) \notin VisitedKeys /\ ~IsTerminal(n)
  /\ BestFirst => n.depth < problem.max_depth
  /\ Beam => expansions < problem.max_expansions
  /\ visited' = visited \cup {n} \cup ChildrenOf(n) /\ Grow(n)
  /\ UNCHANGED <<problem, level, terminals, stopping, phase, cut, selected, exhausted>>
Expand(n) ==
  /\ Popped(n) /\ Key(n) \notin VisitedKeys /\ ~IsTerminal(n)
  /\ BestFirst => n.depth < problem.max_depth
  /\ Beam => expansions < problem.max_expansions
  /\ visited' = visited \cup {n} /\ Grow(n)
  /\ UNCHANGED <<problem, level, terminals, stopping, phase, cut, selected, exhausted>>

(* The beam's budget ends inside a level: the node's key is marked, and it  *)
(* and the rest of the level are left.                                      *)
LeaveLevel(n) ==
  /\ Beam /\ Popped(n) /\ Key(n) \notin VisitedKeys /\ ~IsTerminal(n)
  /\ expansions >= problem.max_expansions
  /\ open' = {} /\ visited' = visited \cup {n} /\ cut' = TRUE
  /\ UNCHANGED <<problem, candidates, level, terminals, expansions, serial, stopping,
                 phase, selected, exhausted>>

(* The end of a beam level.  What is left of `frontier' decides whether the *)
(* search counts as exhausted.                                              *)
EndLevel ==
  /\ Beam /\ phase = "searching" /\ problem.possible /\ open = {}
  /\ LET ends == stopping \/ expansions >= problem.max_expansions \/ candidates = {}
         kept == IF stopping THEN {}
                 ELSE IF ends THEN candidates
                 ELSE Best(candidates, problem.beam_width)
     IN  /\ open' = kept
         /\ cut' = (cut \/ kept # candidates)
         /\ phase' = IF \/ ends \/ level = problem.max_depth
                        \/ Len(terminals) >= problem.max_terminal_candidates
                     THEN "ended" ELSE phase
  /\ candidates' = {} /\ level' = level + 1
  /\ UNCHANGED <<problem, visited, terminals, expansions, serial, stopping, selected,
                 exhausted>>

(* The best-first loop ends, or the static check refuses the search.        *)
EndLoop ==
  /\ phase = "searching" /\ phase' = "ended"
  /\ IF problem.possible THEN BestFirst /\ ~Looping /\ UNCHANGED open ELSE open' = {}
  /\ UNCHANGED <<problem, candidates, level, visited, terminals, expansions, serial,
                 stopping, cut, selected, exhausted>>

(* _freeze_selection over the candidates returned, and the result.          *)
Returned ==
  SubSeq(terminals, 1,
         IF Len(terminals) <= problem.max_terminal_candidates THEN Len(terminals)
         ELSE problem.max_terminal_candidates)
ReturnResult ==
  /\ phase = "ended" /\ phase' = "returned"
  /\ LET eligible == {n \in {Returned[i] : i \in 1 .. Len(Returned)} : Answers(n)}
     IN  \/ eligible = {} /\ selected' = NoNode
         \/ \E n \in eligible :
               /\ \A m \in eligible : problem.order[n.state] <= problem.order[m.state]
               /\ selected' = n
  /\ exhausted' = (open = {})
  /\ UNCHANGED <<problem, open, candidates, level, visited, terminals, expansions, serial,
                 stopping, cut>>

(* The caller has its result.                                               *)
AfterReturn == phase = "returned" /\ UNCHANGED searchVars

SearchNext ==
  \/ \E n \in open : \/ DropVisited(n) \/ VisitTerminal(n) \/ VisitDeepest(n)
                     \/ Expand(n) \/ LeaveLevel(n)
  \/ EndLevel \/ EndLoop \/ ReturnResult \/ AfterReturn

SearchSpec == SearchInit /\ [][SearchNext]_searchVars

----------------------------------------------------------------------------
(* A result that says "exhausted" has nothing left to look at: unless the   *)
(* beam dropped nodes, every key a visited state leads to was visited, but  *)
(* below best-first's depth limit.  reachability.py:164 takes such a result *)
(* to mean that the answer was misranked and not that the search was cut.   *)
(* A second state with a visited key, reached with other operation counts,  *)
(* is not looked at (search.py:210): the closure is one of keys.            *)
Closed(n) ==
  \/ IsTerminal(n)
  \/ BestFirst /\ n.depth >= problem.max_depth
  \/ \A i \in 1 .. Len(problem.children[n.state]) :
        problem.key[problem.children[n.state][i]] \in VisitedKeys
ExhaustedMeansClosed ==
  phase = "returned" /\ exhausted /\ ~cut /\ problem.possible =>
     /\ problem.key[problem.initial] \in VisitedKeys
     /\ \A n \in visited : Closed(n)

(* A verified answer the search reached is not lost: something is selected, *)
(* and verified, unless the beam recorded more terminals than it returns    *)
(* and cut the list in front of it.                                         *)
ReachedAnswerSelected ==
  phase = "returned" =>
     /\ selected # NoNode => Answers(selected)
     /\ (\E n \in visited : Answers(n)) =>
           \/ selected # NoNode
           \/ Beam /\ Len(terminals) > problem.max_terminal_candidates
=============================================================================
