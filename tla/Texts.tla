------------------------------- MODULE Texts --------------------------------
(***************************************************************************)
(* What the address indexes share: texts as sequences of characters, which *)
(* are numbers in their order, and functions that grow as a dict does.     *)
(***************************************************************************)
EXTENDS Integers, Sequences, FiniteSets, SequencesExt

(* The order of byte strings, which is also that of their characters.       *)
Before(a, b) ==
  \/ IsStrictPrefix(a, b)
  \/ \E i \in 1 .. Len(a) : /\ i <= Len(b) /\ a[i] < b[i]
                            /\ SubSeq(a, 1, i - 1) = SubSeq(b, 1, i - 1)

(* The members of a set in a total order: each after those ahead of it.     *)
InOrder(S, Ahead(_, _)) ==
  LET place == [x \in S |-> 1 + Cardinality({y \in S : Ahead(y, x)})]
  IN  [i \in 1 .. Cardinality(S) |-> CHOOSE x \in S : place[x] = i]
Sorted(texts) == InOrder(texts, Before)

Value(f, x, default) == IF x \in DOMAIN f THEN f[x] ELSE default
With(f, x, y) == [z \in DOMAIN f \cup {x} |-> IF z = x THEN y ELSE f[z]]
=============================================================================
