----------------------------- MODULE Traversal -----------------------------
(***************************************************************************)
(* TraversalRuntime.query (traversal/runtime.py): a lexical search, then   *)
(* rounds that follow links from the documents read so far while a facet   *)
(* of the question is unresolved, all within a budget, and a verdict.      *)
(*                                                                         *)
(* A corpus is what CorpusStore answers with: the chunks the search finds, *)
(* best first and without repetition, the document and the size of each    *)
(* chunk, and the links that lead somewhere, by title.  Chunks are numbers *)
(* in the order of document and block.  Of a text the model keeps whether  *)
(* it mentions an entity of the question and whether it supports a claim.  *)
(***************************************************************************)
EXTENDS Integers, Sequences, FiniteSets, Functions

CONSTANT Questions    \* a corpus, a question and a budget each (see IsQuestion)

IsQuestion(q) ==
  /\ IsFiniteSet(q.chunks) /\ q.chunks \subseteq Nat
  /\ q.hits \in Seq(q.chunks) /\ IsInjective(q.hits) /\ Len(q.hits) <= q.max_chunks
  /\ DOMAIN q.doc = q.chunks /\ q.size \in [q.chunks -> Nat]
  /\ q.mentions \subseteq q.chunks /\ q.supports \subseteq q.chunks
  /\ q.entities \in BOOLEAN
  /\ IsFiniteSet(q.links)
  /\ {q.max_steps, q.max_articles, q.max_chunks, q.max_bytes} \subseteq Nat \ {0}

ASSUME TraversalAssumption == \A q \in Questions : IsQuestion(q)

VARIABLES
  question,     \* never changes
  doing,        \* "searching", "fetching", "following", "looking", "verifying", "done"
  rows,         \* rows the current fetch has not consumed
  read,         \* output_ids of all fetches, in order
  bytes_read,
  unresolved,   \* facets without evidence
  steps,        \* operations traced
  disposition,
  breaks        \* history: the budgets that ended a fetch before its last row

traversalVars ==
  <<question, doing, rows, read, bytes_read, unresolved, steps, disposition, breaks>>

evidence == Range(read)
visitedDocs == {question.doc[c] : c \in evidence}

TraversalStart ==
  /\ doing = "searching"
  /\ rows = <<>> /\ read = <<>> /\ bytes_read = 0 /\ steps = 0
  /\ unresolved = {"source_support"}
       \cup (IF question.entities THEN {"entity_resolution"} ELSE {})
  /\ disposition = "none" /\ breaks = {}
TraversalInit == question \in Questions /\ TraversalStart

----------------------------------------------------------------------------
(* SEARCH_TITLE_ALIAS, whose rows are only traced, and SEARCH_LEXICAL.      *)
SearchLexical ==
  /\ doing = "searching"
  /\ rows' = question.hits
  /\ steps' = 2 /\ doing' = "fetching"
  /\ UNCHANGED <<question, read, bytes_read, unresolved, disposition, breaks>>

(* The budgets that end consume before the next row.                        *)
ExceededLate ==      \* mutant: the byte budget is looked at after the row
  {b \in {"chunks", "articles", "bytes"} :
     /\ rows # <<>>
     /\ CASE b = "chunks" -> Cardinality(evidence) >= question.max_chunks
          [] b = "articles" -> Cardinality(visitedDocs) >= question.max_articles
          [] b = "bytes" -> bytes_read > question.max_bytes}
Exceeded ==
  {b \in {"chunks", "articles", "bytes"} :
     /\ rows # <<>>
     /\ CASE b = "chunks" -> Cardinality(evidence) >= question.max_chunks
          [] b = "articles" -> Cardinality(visitedDocs) >= question.max_articles
          [] b = "bytes" -> bytes_read + question.size[Head(rows)] > question.max_bytes}

Consuming == doing \in {"fetching", "following"}

ConsumeRow ==
  /\ Consuming /\ rows # <<>> /\ Exceeded = {}
  /\ read' = Append(read, Head(rows))
  /\ bytes_read' = bytes_read + question.size[Head(rows)]
  /\ rows' = Tail(rows)
  /\ UNCHANGED <<question, doing, unresolved, steps, disposition, breaks>>

(* The facets some evidence resolves.                                       *)
Resolved ==
  (IF evidence # {} THEN {"source_support"} ELSE {})
    \cup (IF question.entities /\ evidence \cap question.mentions # {}
          THEN {"entity_resolution"} ELSE {})

EndConsume ==
  /\ Consuming
  /\ rows = <<>> \/ Exceeded # {}
  /\ breaks' = breaks \cup Exceeded
  /\ rows' = <<>>
  /\ unresolved' = unresolved \ Resolved
  /\ steps' = steps + 1 /\ doing' = "looking"
  /\ UNCHANGED <<question, read, bytes_read, disposition>>

(* The condition of the loop.                                               *)
GoesOn ==
  /\ unresolved # {}
  /\ steps < question.max_steps
  /\ Cardinality(visitedDocs) < question.max_articles

(* linked_documents: the documents most linked to from those visited, at    *)
(* most as many as may still be visited; ties fall either way.  Visited     *)
(* documents count against the limit and are dropped afterwards.            *)
TargetsOfHits ==        \* mutant: links are followed from the first documents only
  {l.to : l \in {k \in question.links : \E c \in Range(question.hits) : k.from = question.doc[c]}}
Targets == {l.to : l \in {k \in question.links : k.from \in visitedDocs}}
Votes(d) == Cardinality({l \in question.links : l.from \in visitedDocs /\ l.to = d})
MostLinked(limit) ==
  {top \in SUBSET Targets :
     /\ Cardinality(top) <= limit
     /\ Cardinality(top) = limit \/ top = Targets
     /\ \A d \in top, e \in Targets \ top : Votes(d) >= Votes(e)}

(* chunks_for_documents: the first chunks of the documents, in order.       *)
FirstChunks(docs, limit) ==
  LET all == {c \in question.chunks : question.doc[c] \in docs}
      found == IF Cardinality(all) < limit THEN Cardinality(all) ELSE limit
  IN  {s \in [1 .. found -> all] :
         /\ \A i, j \in 1 .. found : i < j => s[i] < s[j]
         /\ \A i \in 1 .. found, c \in all \ Range(s) : s[i] < c}

Room == question.max_articles - Cardinality(visitedDocs)
FollowLinks ==
  /\ doing = "looking" /\ GoesOn
  /\ \E top \in MostLinked(Room) :
       LET fresh == top \ visitedDocs
       IN  IF fresh = {} THEN doing' = "verifying" /\ UNCHANGED rows
           ELSE /\ doing' = "following"
                /\ rows' \in FirstChunks(fresh, question.max_chunks - Cardinality(evidence))
  /\ UNCHANGED <<question, read, bytes_read, unresolved, steps, disposition, breaks>>

StopFollowing ==
  /\ doing = "looking" /\ ~ GoesOn
  /\ doing' = "verifying"
  /\ UNCHANGED <<question, rows, read, bytes_read, unresolved, steps, disposition, breaks>>

(* VERIFY_SOURCE_SUPPORT and the verdict: verified evidence has claims.     *)
Verify ==
  /\ doing = "verifying"
  /\ disposition' = IF unresolved = {} /\ evidence \cap question.supports # {}
                    THEN "ANSWER" ELSE "ABSTAIN"
  /\ steps' = steps + 1 /\ doing' = "done"
  /\ UNCHANGED <<question, rows, read, bytes_read, unresolved, breaks>>

(* The result has been returned.                                            *)
QueryReturned == doing = "done" /\ UNCHANGED traversalVars

TraversalNext ==
  \/ SearchLexical \/ ConsumeRow \/ EndConsume \/ FollowLinks \/ StopFollowing \/ Verify
  \/ QueryReturned

TraversalSpec == TraversalInit /\ [][TraversalNext]_traversalVars
----------------------------------------------------------------------------
Larger(a, b) == IF a > b THEN a ELSE b

(* A query stays within its budget at every moment: bytes, chunks and       *)
(* articles as they are read, where no chunk is read or counted twice, and  *)
(* traced operations, of which the first three and the last are always made.*)
WithinBudget ==
  /\ bytes_read <= question.max_bytes
  /\ Cardinality(evidence) <= question.max_chunks
  /\ Cardinality(visitedDocs) <= question.max_articles
  /\ IsInjective(read)
  /\ steps <= Larger(3, question.max_steps) + 1

(* The documents within reach of the search's hits.                         *)
HitDocs == {question.doc[question.hits[i]] : i \in DOMAIN question.hits}
Reach ==
  LET within[n \in 0 .. Cardinality(question.links)] ==
        IF n = 0 THEN HitDocs
        ELSE within[n - 1] \cup {l.to : l \in {k \in question.links : k.from \in within[n - 1]}}
  IN  within[Cardinality(question.links)]

(* Documents already visited that take every place before a linked one:     *)
(* they count against the limit of linked_documents and are dropped after.  *)
LinkedAsOften(d) == {e \in Targets \cap visitedDocs : Votes(e) >= Votes(d)}
Crowded == \E d \in Targets \ visitedDocs : Cardinality(LinkedAsOften(d)) >= Room

(* A facet left unresolved is a real gap when no budget was touched: then   *)
(* every hit has been read, and every chunk of every other document within  *)
(* reach.  The one way a query gives up early, with articles to spare and a *)
(* linked document unread, is that as many visited documents as there are   *)
(* places left are linked to at least as often.                             *)
GapIsReal ==
  /\ doing = "done" /\ unresolved # {}
  /\ breaks = {} /\ Cardinality(evidence) < question.max_chunks
  /\ steps <= question.max_steps
  => \/ Crowded
     \/ \A c \in question.chunks :
          c \in Range(question.hits) \/ question.doc[c] \in Reach \ HitDocs => c \in evidence
=============================================================================
