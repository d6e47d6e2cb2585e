------------------------------ MODULE EdgePack ------------------------------
(***************************************************************************)
(* Address queries of the ESP32-P4 firmware over a knowledge pack:         *)
(* idx_query_address and the readers under it (pack_io.cpp), page request  *)
(* by page request through the pager, on the regions the host builds       *)
(* (scripts/droid/v14_p4_pack_build.py), next to the answer the host       *)
(* exports for the same query (scripts/droid/v14_p4_trace_export.py).      *)
(*                                                                         *)
(* A word is a tuple: one posting id, the entity of one surface directory  *)
(* entry, one evidence directory entry (entity, count, offset) or one      *)
(* occurrence of a blob.  Grams are numbers in the order of their bytes; a *)
(* query surface is the set of its grams.                                  *)
(***************************************************************************)
EXTENDS Pager, SequencesExt, FiniteSetsExt

CONSTANTS
  Surfaces,     \* the pack's surfaces in byte order: grams and entity
  Occurrences,  \* occurrences in the evidence, per entity that has any
  NoEntity,     \* 0xFFFFFFFF
  Asked,        \* query surfaces: grams and number of code points
  MaxPoints,    \* code points a padded surface may have (259)
  MaxMerged,    \* posting ids one query may gather (8 MiB)
  TopK,         \* surfaces kept by overlap (64)
  HeadWords,    \* words of a blob the probe reads
  MaxQueries,   \* model bound
  MaxFailures   \* model bound: failed reads

----------------------------------------------------------------------------
(* The pack, as the host builds it                                          *)

(* The numbers of S, each behind as many as are smaller.                    *)
Ascending(S) ==
  [k \in 1 .. Cardinality(S) |-> CHOOSE x \in S : Cardinality({y \in S : y < x}) = k - 1]
Pages(words) == (Len(words) + PageWords - 1) \div PageWords
Pad(words) == words \o [i \in 1 .. Pages(words) * PageWords - Len(words) |-> Garbage]

(* build_address_index: the ids of a gram's surfaces, gram after gram, then *)
(* on a new page the entity of every surface.                               *)
Gram == UNION {Surfaces[i].grams : i \in DOMAIN Surfaces}
Postings == [g \in Gram |-> Ascending({i \in DOMAIN Surfaces : g \in Surfaces[i].grams})]
Length == [g \in Gram |-> Len(Postings[g])]
Offset == [g \in Gram |-> SumFunctionOnSet(Length, {h \in Gram : h < g})]
PostingIds == FlattenSeq([k \in 1 .. Cardinality(Gram) |-> Postings[Ascending(Gram)[k]]])
PostingWords == [k \in DOMAIN PostingIds |-> <<PostingIds[k]>>]
EntityWords == [i \in DOMAIN Surfaces |-> <<Surfaces[i].entity>>]
SurfacePage == Pages(PostingWords)

(* build_evidence: the directory in entity order, then the occurrences.     *)
Located == Ascending(DOMAIN Occurrences)
Directory ==
  [i \in DOMAIN Located |->
     <<Located[i], Occurrences[Located[i]],
       SumFunctionOnSet(Occurrences, {e \in DOMAIN Occurrences : e < Located[i]})>>]
BlobWords ==
  FlattenSeq([i \in DOMAIN Located |->
                [k \in 1 .. Occurrences[Located[i]] |-> <<Located[i], k>>]])
BlobPage == Pages(Directory)

Region == [index |-> Pad(PostingWords) \o Pad(EntityWords),
           evidence |-> Pad(Directory) \o Pad(BlobWords)]
FirstPage == <<"index", 0>>
PackPage == UNION {{<<r, n>> : n \in 0 .. Pages(Region[r]) - 1} : r \in DOMAIN Region}
PackContent ==
  [p \in PackPage |-> [i \in 1 .. PageWords |-> Region[p[1]][p[2] * PageWords + i]]]

PackClass == {"postings", "surface", "evidence"}

(* What the host exports for a query: the candidates, the distinct entities *)
(* of the best TopK by overlap and id, and their occurrences.               *)
Overlap(grams, i) == Cardinality(grams \cap Surfaces[i].grams)
HostCandidates(grams) == {i \in DOMAIN Surfaces : Overlap(grams, i) > 0}
HostTop(grams) ==
  LET ahead(i, j) == \/ Overlap(grams, i) > Overlap(grams, j)
                     \/ (Overlap(grams, i) = Overlap(grams, j) /\ i < j)
  IN {i \in HostCandidates(grams) :
        Cardinality({j \in HostCandidates(grams) : ahead(j, i)}) < TopK}
HostEntities(grams) == {Surfaces[i].entity : i \in HostTop(grams)} \ {NoEntity}
HostAnswer(grams) ==
  [candidates |-> HostCandidates(grams), entities |-> HostEntities(grams),
   occurrences |-> SumFunctionOnSet(Occurrences, HostEntities(grams) \cap DOMAIN Occurrences)]

----------------------------------------------------------------------------
(* The device is given this pack.                                           *)
ASSUME EdgePackAssumption ==
  /\ Len(Surfaces) \in Nat /\ DOMAIN Surfaces = 1 .. Len(Surfaces)
  /\ \A i \in DOMAIN Surfaces :
       /\ Surfaces[i].grams \subseteq Nat /\ IsFiniteSet(Surfaces[i].grams)
       /\ Surfaces[i].entity # NoEntity => Surfaces[i].entity \in Nat
  /\ DOMAIN Occurrences \subseteq Nat /\ IsFiniteSet(DOMAIN Occurrences)
  /\ DOMAIN Occurrences # {} /\ Occurrences \in [DOMAIN Occurrences -> Nat \ {0}]
  /\ TopK \in Nat \ {0} /\ MaxPoints \in Nat /\ MaxMerged \in Nat
  /\ Page = PackPage /\ PageZero = FirstPage /\ Content = PackContent
  /\ Class = PackClass

VARIABLES
  reads,                            \* random_reads and sequential_reads of its statistics
  query,                            \* the query under way
  asked,                            \* queries made (model bound)
  failures                          \* history: failed reads in all, of evidence pages

packVars == <<slots, tick, stats, given, torn, reads, query, asked, failures>>

NoAnswer == [candidates |-> {}, entities |-> {}, occurrences |-> 0]
Idle ==
  [stage |-> "idle", grams |-> {}, todo |-> <<>>, ids |-> <<>>,
   random |-> 0, sequential |-> 0, low |-> 0, high |-> 0, answer |-> NoAnswer]

PackInit ==
  /\ pager_create
  /\ reads = [random |-> 0, sequential |-> 0]
  /\ query = Idle
  /\ asked = 0
  /\ failures = [all |-> 0, evidence |-> 0]

----------------------------------------------------------------------------
(* The steps between page requests                                          *)

(* The pages of a posting list, and the words of a page that belong to it.  *)
FirstOf(g) == Offset[g] \div PageWords
LastOf(g) == (Offset[g] + Length[g] - 1) \div PageWords
Request(g, n) ==
  [page |-> n, first |-> n = FirstOf(g),
   from |-> Max({Offset[g] - n * PageWords, 0}) + 1,
   to |-> Min({Offset[g] + Length[g] - n * PageWords, PageWords})]

(* Those of the grams that are in the pack, shortest list first.            *)
Shorter(g, h) == Length[g] < Length[h] \/ (Length[g] = Length[h] /\ g < h)
PostingRequests(grams) ==
  LET here == grams \cap Gram
      order == [k \in 1 .. Cardinality(here) |->
                  CHOOSE g \in here : Cardinality({h \in here : Shorter(h, g)}) = k - 1]
  IN FlattenSeq([k \in DOMAIN order |->
       [i \in 1 .. LastOf(order[k]) - FirstOf(order[k]) + 1 |->
          Request(order[k], FirstOf(order[k]) + i - 1)]])

AheadByOverlap(a, b) == a.overlap >= b.overlap   \* mutant: ties to the later id
(* The streaming top list: a surface moves those it is ahead of down, from  *)
(* the last one upwards, and the last of too many falls out.                *)
Ahead(a, b) == a.overlap > b.overlap \/ (a.overlap = b.overlap /\ a.id < b.id)
Placed(top, x) ==
  LET above == Max({0} \cup {k \in DOMAIN top : ~Ahead(x, top[k])})
  IN SubSeq(InsertAt(top, above + 1, x), 1, Min({Len(top) + 1, TopK}))
RunLengths(ids) ==
  LET order == Ascending(ToSet(ids))
  IN [k \in DOMAIN order |->
        [id |-> order[k],
         overlap |-> Cardinality({i \in DOMAIN ids : ids[i] = order[k]})]]
TopSurfaces(ids) ==
  LET top == FoldLeft(Placed, <<>>, RunLengths(ids))
  IN [k \in DOMAIN top |-> top[k].id]

(* What follows when the pages of a stage are all read.                     *)
AfterEvidence(q) ==
  IF q.todo # <<>> THEN [q EXCEPT !.low = 0, !.high = Len(Directory) - 1]
                   ELSE [q EXCEPT !.stage = "done"]
AfterSurfaces(q) ==
  IF q.todo # <<>> THEN q
  ELSE AfterEvidence([q EXCEPT !.stage = "evidence", !.todo = Ascending(q.answer.entities)])
AfterPostings(q) ==
  IF q.todo # <<>> THEN q
  ELSE AfterSurfaces([q EXCEPT !.stage = "surface", !.todo = TopSurfaces(q.ids),
                               !.answer.candidates = ToSet(q.ids)])

StartQuery ==
  /\ query.stage \in {"idle", "done", "probed"}
  /\ asked < MaxQueries
  /\ \E a \in Asked :
       query' = IF a.points > MaxPoints THEN [Idle EXCEPT !.stage = "failed"]
                ELSE AfterPostings([Idle EXCEPT !.stage = "postings", !.grams = a.grams,
                                                !.todo = PostingRequests(a.grams)])
  /\ asked' = asked + 1
  /\ UNCHANGED <<slots, tick, stats, given, torn, reads, failures>>

----------------------------------------------------------------------------
(* Page requests                                                            *)

Failed(p, class) ==
  /\ failures.all < MaxFailures
  /\ \E n \in 0 .. PageWords - 1 : FailedRead(p, class, n)
  /\ failures' = [all |-> failures.all + 1,
                  evidence |-> failures.evidence + (IF class = "evidence" THEN 1 ELSE 0)]

Received(p, class) == pager_page(p, class) /\ UNCHANGED failures

(* A query that is handed other words than the page's goes on with data the *)
(* model does not follow: it is astray.                                     *)
Astray(from, to) ==
  SubSeq(given'.bytes, from, to) # SubSeq(Content[given'.page], from, to)

MissCounted(q, first) ==
  LET missed == stats'.misses > stats.misses
  IN [q EXCEPT !.random = IF missed /\ first THEN @ + 1 ELSE @,
               !.sequential = IF missed /\ ~first THEN @ + 1 ELSE @]
(* The query's misses enter the statistics when its union ends.             *)
ReadsCounted(q) ==
  reads' = IF query'.stage = "postings" THEN reads
           ELSE [random |-> reads.random + q.random,
                 sequential |-> reads.sequential + q.sequential]

Ids(words) == [k \in DOMAIN words |-> words[k][1]]

(* idx_query_union: one page of a posting list.                             *)
PostingPage ==
  LET r == Head(query.todo)
      p == <<"index", r.page>>
      q == MissCounted(query, r.first)
  IN /\ query.stage = "postings"
     /\ \/ /\ Received(p, "postings")
           /\ query' =
                IF Astray(r.from, r.to) THEN [q EXCEPT !.stage = "astray"]
                ELSE IF Len(q.ids) + r.to - r.from + 1 > MaxMerged
                THEN [q EXCEPT !.stage = "failed"]
                ELSE AfterPostings([q EXCEPT !.todo = Tail(@),
                                             !.ids = @ \o Ids(SubSeq(given'.bytes, r.from, r.to))])
        \/ /\ Failed(p, "postings")
           /\ query' = [q EXCEPT !.stage = "failed"]
     /\ ReadsCounted(q)
     /\ UNCHANGED asked

(* idx_surface_entity, and the entity it names joins the distinct ones.     *)
SurfaceEntry ==
  LET word == Head(query.todo) - 1
      p == <<"index", SurfacePage + (word \div PageWords)>>
      at == (word % PageWords) + 1
  IN /\ query.stage = "surface"
     /\ \/ /\ Received(p, "surface")
           /\ query' = IF Astray(at, at) THEN [query EXCEPT !.stage = "astray"]
                       ELSE AfterSurfaces([query EXCEPT !.todo = Tail(@),
                              !.answer.entities = (@ \cup {given'.bytes[at][1]}) \ {NoEntity}])
        \/ /\ Failed(p, "surface")
           /\ query' = [query EXCEPT !.stage = "failed"]
     /\ UNCHANGED <<reads, asked>>

(* evd_find: one probe of the binary search for the first entity of todo.   *)
Middle == (query.low + query.high) \div 2
Probed == <<"evidence", Middle \div PageWords>>
Entry ==
  LET word == given'.bytes[(Middle % PageWords) + 1]
  IN [entity |-> word[1], count |-> word[2], off |-> word[3]]
Narrowed(e) ==
  IF Entry.entity < e THEN [query EXCEPT !.low = Middle + 1]
                      ELSE [query EXCEPT !.high = Middle - 1]
Exhausted(q) == q.low > q.high

(* evd_occurrences: an entity that is not found, and one whose directory    *)
(* page cannot be read, contribute nothing.                                 *)
CountedFor(q, n) ==
  AfterEvidence([q EXCEPT !.todo = Tail(@), !.answer.occurrences = @ + n])
EvidenceEntry ==
  LET at == (Middle % PageWords) + 1
      e == Head(query.todo)
  IN /\ query.stage = "evidence"
     /\ \/ /\ Received(Probed, "evidence")
           /\ query' =
                IF Astray(at, at) THEN [query EXCEPT !.stage = "astray"]
                ELSE IF Entry.entity = e THEN CountedFor(query, Entry.count)
                ELSE IF Exhausted(Narrowed(e)) THEN CountedFor(query, 0)
                ELSE Narrowed(e)
        \/ /\ Failed(Probed, "evidence")
           /\ query' = CountedFor(query, 0)
     /\ UNCHANGED <<reads, asked>>

(* evd_blob_head for the smallest entity of an answer: the search again,    *)
(* then the pages of the head of its occurrences.  Its result is ignored.   *)
StartProbe ==
  /\ query.stage = "done"
  /\ query.answer.entities # {}
  /\ query' = [query EXCEPT !.stage = "probe", !.todo = <<Min(query.answer.entities)>>,
                            !.low = 0, !.high = Len(Directory) - 1]
  /\ UNCHANGED <<slots, tick, stats, given, torn, reads, asked, failures>>

HeadPages(entry) ==
  LET from == entry.off \div PageWords
      to == (entry.off + Min({entry.count, HeadWords}) - 1) \div PageWords
  IN [i \in 1 .. to - from + 1 |-> <<"evidence", BlobPage + from + (i - 1)>>]
ProbeEntry ==
  LET at == (Middle % PageWords) + 1
      e == Head(query.todo)
  IN /\ query.stage = "probe"
     /\ \/ /\ Received(Probed, "evidence")
           /\ query' =
                IF Astray(at, at) THEN [query EXCEPT !.stage = "astray"]
                ELSE IF Entry.entity = e
                THEN [query EXCEPT !.stage = "head", !.todo = HeadPages(Entry)]
                ELSE IF Exhausted(Narrowed(e)) THEN [query EXCEPT !.stage = "probed"]
                ELSE Narrowed(e)
        \/ /\ Failed(Probed, "evidence")
           /\ query' = [query EXCEPT !.stage = "probed"]
     /\ UNCHANGED <<reads, asked>>

HeadPage ==
  /\ query.stage = "head"
  /\ \/ /\ Received(Head(query.todo), "evidence")
        /\ query' = IF Len(query.todo) = 1 THEN [query EXCEPT !.stage = "probed"]
                                           ELSE [query EXCEPT !.todo = Tail(@)]
     \/ /\ Failed(Head(query.todo), "evidence")
        /\ query' = [query EXCEPT !.stage = "probed"]
  /\ UNCHANGED <<reads, asked>>

(* The runner has made its queries, or gave up on one.                      *)
RunnerReturned ==
  /\ \/ query.stage \in {"failed", "astray"}
     \/ query.stage \in {"idle", "done", "probed"} /\ asked = MaxQueries
  /\ UNCHANGED packVars

PackNext ==
  \/ StartQuery \/ PostingPage \/ SurfaceEntry \/ EvidenceEntry
  \/ StartProbe \/ ProbeEntry \/ HeadPage
  \/ RunnerReturned

PackSpec == PackInit /\ [][PackNext]_packVars

----------------------------------------------------------------------------
(* Properties                                                               *)

(* An answer is the host's answer, whatever was evicted on the way, and no  *)
(* query is handed words of another page, unless a read of an evidence page *)
(* has failed: those are the failures that do not end the run.              *)
DeviationNeedsEvidenceFailure ==
  (\/ query.stage = "astray"
   \/ /\ query.stage \in {"done", "probe", "head", "probed"}
      /\ query.answer # HostAnswer(query.grams))
  => failures.evidence > 0

=============================================================================
