--------------------------- MODULE MCAddressIndex ---------------------------
(***************************************************************************)
(* Evidence for AddressIndex.  Bytes are 1 and 2 and one varint digit has  *)
(* two values, so the third string already takes two bytes.  One input has *)
(* surfaces that begin others, that branch and that two spellings share,   *)
(* an entity met on two channels, a tie and unresolved rows; the second    *)
(* has one long surface and only unresolved evidence; the third contradicts*)
(* itself on a title, and the fourth is empty.                             *)
(***************************************************************************)
EXTENDS AddressIndex

MCSpelling == {"a", "A", "ab", "abb", "abbb", "aba", "b", "blank"}
MCNormal ==
  ("a" :> <<1>>) @@ ("A" :> <<1>>) @@ ("ab" :> <<1, 2>>) @@ ("abb" :> <<1, 2, 2>>)
  @@ ("abbb" :> <<1, 2, 2, 2>>) @@ ("aba" :> <<1, 2, 1>>) @@ ("b" :> <<2>>)
  @@ ("blank" :> <<>>)

Linked(surface, entity, support, documents, channel, provenance) ==
  [surface |-> surface, entity |-> entity, title |-> entity, key |-> 0,
   support |-> support, documents |-> documents, channel |-> channel,
   provenance |-> provenance]
Unlinked(surface, key, support, provenance) ==
  [surface |-> surface, entity |-> 0, title |-> 0, key |-> key,
   support |-> support, documents |-> {1}, channel |-> "anchor",
   provenance |-> provenance]

p1 == <<1>>
p2 == <<1, 2>>
p3 == <<1, 2, 2>>
p4 == <<2>>

Rich == <<
  Linked("a", 3, 1, {1}, "title", {p3}),
  Linked("abb", 2, 1, {1}, "anchor", {p1, p4}),
  Linked("A", 1, 2, {2, 3}, "alias", {p1}),
  Unlinked("aba", 1, 2, {p2, p4}),
  Linked("a", 3, 1, {1}, "anchor", {p2, p3}),
  Unlinked("a", 2, 1, {p4}),
  Linked("abb", 1, 3, {1, 2}, "redirect", {p3}),
  Linked("aba", 2, 1, {4}, "title", {p4}) >>
Bare == << Unlinked("abbb", 1, 1, {p1}), Unlinked("abbb", 2, 2, {p1, p2}) >>
Contradictory == << Linked("b", 1, 1, {1}, "title", {p1}),
           [Linked("a", 1, 1, {1}, "title", {p1}) EXCEPT !.title = 2] >>

MCInputs == {Rich, Bare, Contradictory, <<>>}
=============================================================================
