--------------------------- MODULE MCCorpusStore ---------------------------
(***************************************************************************)
(* Dumps of four pages: an article, a redirect to it, a page that may      *)
(* redirect to the redirect, to itself or to nothing there, and one that   *)
(* may add a hop, or whose title differs from the article's only in case.  *)
(***************************************************************************)
EXTENDS CorpusStore

WikiPage(d, t, r, links, anchors) ==
  [doc |-> d, title |-> t, redirect |-> r, chunks |-> <<10 * d, 10 * d + 1>>,
   links |-> links, anchors |-> anchors]

Wiki(first, target, again) ==
  LET article == WikiPage(1, "moon", NoTitle, {"luna", "sun"}, {<<"satellite", "luna">>})
      stub == WikiPage(2, "luna", "moon", {"moon"}, {})
      other == WikiPage(3, "lune", target, {"luna"}, {<<"month", "sun">>})
      last == WikiPage(4, again[1], again[2], {"lune"}, {})
  IN  IF first = "article" THEN <<article, stub, other, last>> ELSE <<stub, other, last, article>>

MCDumps ==
  { Wiki(first, target, again) : first \in {"article", "stub"},
      target \in {NoTitle, "luna", "lune", "moon", "gone"}, 
      again \in {<<"moon", "moon">>, <<"sun", "lune">>, <<"sun", NoTitle>>} }
=============================================================================
