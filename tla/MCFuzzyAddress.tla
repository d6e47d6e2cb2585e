--------------------------- MODULE MCFuzzyAddress ---------------------------
(***************************************************************************)
(* Evidence for FuzzyAddress.  One catalog has the same surfaces for two   *)
(* entities, surfaces of one set of grams, a surface of two tokens, a      *)
(* record met twice and one without a target; the second has records       *)
(* without ids and entities that only a misspelling reaches; the third     *)
(* repeats a record without ids and is refused.  The words asked for are   *)
(* known, off by one or two deletions, by two substitutions, by a swap, or *)
(* too short to be corrected.                                              *)
(***************************************************************************)
EXTENDS FuzzyAddress

MCWritten == {"abab", "ababa", "bcca", "bcd", "ddcc", "bcac", "addd", "abba", "dcab"}
MCTokenOf ==
  ("abab" :> <<3, 4, 3, 4>>) @@ ("ababa" :> <<3, 4, 3, 4, 3>>)
  @@ ("bcca" :> <<4, 5, 5, 3>>) @@ ("bcd" :> <<4, 5, 6>>)
  @@ ("ddcc" :> <<6, 6, 5, 5>>) @@ ("bcac" :> <<4, 5, 3, 5>>)
  @@ ("addd" :> <<3, 6, 6, 6>>) @@ ("abba" :> <<3, 4, 4, 3>>)
  @@ ("dcab" :> <<6, 5, 3, 4>>)

Evident(surface, entity, occurrences, documents) ==
  [surface |-> surface, entity |-> entity, count |-> Cardinality(occurrences),
   documents |-> Cardinality(documents), occurrenceIds |-> occurrences,
   documentIds |-> documents]
WithoutIds(surface, entity, count, documents) ==
  [surface |-> surface, entity |-> entity, count |-> count, documents |-> documents,
   occurrenceIds |-> {}, documentIds |-> {}]

WithShared == <<
  Evident(<<"abab">>, 1, {1, 2}, {1}), Evident(<<"ababa">>, 1, {2, 3}, {1, 2}),
  Evident(<<"abab">>, 2, {4}, {3}), Evident(<<"bcca">>, 3, {5}, {1}),
  Evident(<<"bcca">>, 3, {5, 6}, {2}), WithoutIds(<<"bcca">>, 0, 2, 1),
  Evident(<<"abab", "bcd">>, 2, {7, 8}, {2, 3}), WithoutIds(<<"abab", "ddcc">>, 4, 3, 2) >>
Sparse == << WithoutIds(<<"ddcc">>, 4, 1, 1), WithoutIds(<<"addd">>, 1, 2, 2),
             WithoutIds(<<"bcca", "bcd">>, 4, 2, 1), Evident(<<"abba">>, 3, {1}, {1}) >>
Repeating == << WithoutIds(<<"bcd">>, 1, 1, 1), WithoutIds(<<"bcd">>, 1, 1, 1) >>
MCCatalogs == {WithShared, Sparse, Repeating}

MCFuzzyQueries ==
  { <<"abab", "bcd">>, <<"bcac", "abba">>, <<"dcab">>, <<"ababa", "bcca", "bcd">>,
    <<"addd", "bcd", "ddcc">> }

Generous == [mentions |-> 20, addresses |-> 8, spans |-> 8, postings |-> 200, each |-> 8,
             union |-> 8, threshold |-> <<52, 100>>, hamming |-> 2]
MCSettings ==
  { Generous,
    [Generous EXCEPT !.hamming = 5, !.threshold = <<0, 1>>],
    [Generous EXCEPT !.each = 2, !.addresses = 1, !.union = 2, !.hamming = 3],
    [Generous EXCEPT !.postings = 7, !.spans = 2, !.mentions = 1, !.union = 1] }

(* A hash with little to it: six bits of a gram's characters.              *)
MCHashBits(gram) ==
  {b \in 0 .. 5 :
     ((gram[1] * (b + 2) + gram[2] * gram[2] * (b + 1) + Len(gram)
       + (IF Len(gram) > 2 THEN gram[3] * (7 - b) ELSE 0)) \div 3) % 2 = 0}
MCTitleRank == [e \in 1 .. 4 |-> CASE e = 1 -> 2 [] e = 2 -> 4 [] e = 3 -> 1 [] e = 4 -> 3]
=============================================================================
