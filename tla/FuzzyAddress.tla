---------------------------- MODULE FuzzyAddress ----------------------------
(***************************************************************************)
(* The fuzzy address index (controller/fuzzy_address.py): surfaces under   *)
(* n-grams, deletions and fingerprint bands; four channels that look a     *)
(* query up in them under caps on the work; and the union of what several  *)
(* channels propose under one cap on addresses.                            *)
(*                                                                         *)
(* A written word is a name, TokenOf what normalization makes of it, one   *)
(* token.  Entities are numbers in the order of their ids.  Scores are     *)
(* exact fractions <<n, d>>, where the code has floats.  Hashes of         *)
(* deletions do not collide.  Titles agree with the registry.              *)
(***************************************************************************)
EXTENDS Texts, Integers, FiniteSets, FiniteSetsExt, Functions

CONSTANTS
  Written,       \* words as written
  TokenOf,       \* word -> token, a text
  Catalogs,      \* sequences of AddressSurfaceRecords
  FuzzyQueries,  \* sequences of words
  Settings,      \* the caps and thresholds of a lookup and of the union
  TitleRank,     \* entity -> place of its title in their order
  NgramSize,
  EditDistance,
  Bands,         \* 4
  BandBits,      \* 16
  HashBits(_)    \* gram -> the bits set in its hash

(* A record: surface (words), entity (0 if None), count of occurrences and  *)
(* of documents, and the ids of either where they are known.                *)
IdsFit(ids, count) == IsFiniteSet(ids) /\ (ids = {} \/ Cardinality(ids) = count)
IsRecord(r) ==
  /\ r.surface \in Seq(Written) /\ r.surface # <<>>
  /\ r.entity = 0 \/ r.entity \in DOMAIN TitleRank
  /\ r.count \in Nat /\ r.documents \in 1 .. r.count
  /\ IdsFit(r.occurrenceIds, r.count) /\ IdsFit(r.documentIds, r.documents)

ASSUME FuzzyAssumption ==
  /\ \A rows \in Catalogs : rows \in Seq(Range(rows)) /\ \A r \in Range(rows) : IsRecord(r)
  /\ FuzzyQueries \subseteq Seq(Written)
  /\ \A w \in Written : TokenOf[w] \in Seq(Nat \ 0 .. 2) \ {<<>>}
  /\ IsFiniteSet(DOMAIN TitleRank) /\ DOMAIN TitleRank \subseteq Nat \ {0}
  /\ IsInjective(TitleRank) /\ Range(TitleRank) \subseteq Nat
  /\ NgramSize \in 2 .. 4 /\ EditDistance \in 1 .. 2
  /\ Bands \in Nat \ {0} /\ BandBits \in Nat \ {0}
  /\ \A s \in Settings : {s.mentions, s.addresses, s.spans, s.postings, s.each,
                          s.union} \subseteq Nat \ {0}

VARIABLES
  index,         \* FuzzyAddressIndex, or NoIndex
  request,       \* the query and its settings
  results,       \* FuzzyLookupResults; their order makes no difference
  united         \* UnionAddressResult, or NoUnion

fuzzyVars == <<index, request, results, united>>

NoIndex == [built |-> FALSE]
NoUnion == [none |-> TRUE]
NoQuery == [words |-> <<>>, caps |-> CHOOSE s \in Settings : TRUE]

Channels == {"char", "edit", "exact", "simhash"}
ChannelRank == [c \in Channels |->        \* the order of the enumeration's values
  CASE c = "char" -> 1 [] c = "edit" -> 2 [] c = "exact" -> 3 [] c = "simhash" -> 4]

----------------------------------------------------------------------------
(* Texts: tokens joined by spaces; grams of a text between two marks.       *)
Space == 0
EndMark == 1
StartMark == 2

WithWord(text, w) == text \o (IF text = <<>> THEN <<>> ELSE <<Space>>) \o TokenOf[w]
TextOf(words) == FoldLeft(WithWord, <<>>, words)
TokenCount(text) == 1 + Cardinality({i \in 1 .. Len(text) : text[i] = Space})
TokensOf(text) ==
  {SubSeq(text, r[1], r[2]) : r \in
     {p \in (1 .. Len(text)) \X (1 .. Len(text)) :
        /\ \A k \in p[1] .. p[2] : text[k] # Space
        /\ p[1] = 1 \/ text[p[1] - 1] = Space
        /\ p[2] = Len(text) \/ text[p[2] + 1] = Space}} \ {<<>>}

Grams(text) ==
  LET marked == <<StartMark>> \o text \o <<EndMark>>
  IN  IF Len(marked) <= NgramSize THEN {marked}
      ELSE {SubSeq(marked, i, i + NgramSize - 1) :
              i \in 1 .. Len(marked) - NgramSize + 1}

Numbers(n) == [i \in 1 .. n |-> i]

(* All texts with up to EditDistance characters deleted.                    *)
DeletedOnce(texts) ==
  (UNION {{RemoveAt(t, i) : i \in 1 .. Len(t)} : t \in texts}) \ {<<>>}
DeletionsOnce(term) == {term} \cup DeletedOnce({term})  \* mutant: one level
WithDeleted(texts, k) == texts \cup DeletedOnce(texts)
Deletions(term) == FoldLeft(WithDeleted, {term}, Numbers(EditDistance))

(* levenshtein_leq: optimal string alignment, row by row, TooFar (None)     *)
(* above the limit; rows are the last two.  No row falls below the least of *)
(* the row before, so the early return of the code changes nothing.         *)
TooFar == -1
NextCell(left, right, rows, i, row, j) ==
  Append(row, Min({rows[2][j + 1] + 1, Last(row) + 1,
                   rows[2][j] + (IF left[i] = right[j] THEN 0 ELSE 1)}
                  \cup IF i > 1 /\ j > 1 /\ left[i] = right[j - 1] /\ left[i - 1] = right[j]
                       THEN {rows[1][j - 1] + 1} ELSE {}))
NextRow(left, right, rows, i) ==
  LET Cell(row, j) == NextCell(left, right, rows, i, row, j)
  IN  <<rows[2], FoldLeft(Cell, <<i>>, Numbers(Len(right)))>>
LastRow(left, right) ==
  LET Row(rows, i) == NextRow(left, right, rows, i)
      first == <<0>> \o Numbers(Len(right))
  IN  FoldLeft(Row, <<first, first>>, Numbers(Len(left)))[2]
Distance(left, right) ==
  LET d == LastRow(left, right)[Len(right) + 1]
  IN  IF Len(left) - Len(right) \notin -EditDistance .. EditDistance \/ d > EditDistance
      THEN TooFar ELSE d

(* _simhash: the bits that at least half of the grams' hashes set.          *)
Fingerprint(text) ==
  LET grams == Grams(text)
  IN  {b \in 0 .. Bands * BandBits - 1 :
         2 * Cardinality({g \in grams : b \in HashBits(g)}) >= Cardinality(grams)}
Band(k) == k * BandBits .. (k + 1) * BandBits - 1
Hamming(a, b) == Cardinality(SymDiff(a, b))

----------------------------------------------------------------------------
(* FuzzyAddressIndex: records of one surface and entity become one, which   *)
(* takes ids on both.                                                       *)
WithIds(r) == r.occurrenceIds # {} /\ r.documentIds # {}
SameKey(r, s) == TextOf(r.surface) = TextOf(s.surface) /\ r.entity = s.entity
Refused(rows) ==
  \E i, j \in 1 .. Len(rows) :
     i < j /\ SameKey(rows[i], rows[j]) /\ ~(WithIds(rows[i]) /\ WithIds(rows[j]))

Evidence(count, documents, occurrenceIds, documentIds) ==
  [count |-> IF occurrenceIds = {} THEN count ELSE Cardinality(occurrenceIds),
   documents |-> IF documentIds = {} THEN documents ELSE Cardinality(documentIds),
   occurrenceIds |-> occurrenceIds, documentIds |-> documentIds]

MergeRecord(surfaces, r) ==
  LET text == TextOf(r.surface)
      here == Value(surfaces, text, <<>>)
      before == Value(here, r.entity, [occurrenceIds |-> {}, documentIds |-> {}])
  IN  With(surfaces, text, With(here, r.entity,
        Evidence(r.count, r.documents, r.occurrenceIds \cup before.occurrenceIds,
                 r.documentIds \cup before.documentIds)))

CompiledFuzzy(rows) ==
  LET surfaces == FoldLeft(MergeRecord, <<>>, rows)
      tokens == UNION {TokensOf(s) : s \in DOMAIN surfaces}
      gramsOf == [s \in DOMAIN surfaces |-> Grams(s)]
      simhash == [s \in DOMAIN surfaces |-> Fingerprint(s)]
      variants == [t \in tokens |-> Deletions(t)]
      Where(Holds(_)) == Sorted({s \in DOMAIN surfaces : Holds(s)})
  IN  [built |-> TRUE, surfaces |-> surfaces, grams |-> gramsOf, simhash |-> simhash,
       tokens |-> tokens,
       ngrams |-> [g \in UNION Range(gramsOf) |-> Where(LAMBDA s : g \in gramsOf[s])],
       deletes |-> [v \in UNION Range(variants) |-> Sorted({t \in tokens : v \in variants[t]})],
       tokenSurfaces |-> [t \in tokens |-> Where(LAMBDA s : t \in TokensOf(s))],
       lsh |-> [k \in {<<p[1], simhash[p[2]] \cap Band(p[1])>> :
                         p \in (0 .. Bands - 1) \X DOMAIN surfaces} |->
                  Where(LAMBDA s : simhash[s] \cap Band(k[1]) = k[2])],
       widest |-> Max({TokenCount(s) : s \in DOMAIN surfaces} \cup {1})]

FuzzyInit ==
  /\ index = NoIndex /\ request = NoQuery /\ results = {} /\ united = NoUnion

BuildIndex ==
  /\ index = NoIndex
  /\ \E rows \in Catalogs : ~Refused(rows) /\ index' = CompiledFuzzy(rows)
  /\ UNCHANGED <<request, results, united>>

(* _spans: every run of words of the query, the widest and first before.    *)
SpanAhead(a, b) ==
  LET Width(s) == s.to - s.from
  IN  \/ Width(a) > Width(b)
      \/ Width(a) = Width(b) /\ a.from < b.from

CutTo(seq, n) == SubSeq(seq, 1, Min({n, Len(seq)}))

Spans(words) ==
  LET runs == {r \in (1 .. Len(words)) \X (1 .. Len(words)) :
                 r[1] <= r[2] /\ r[2] - r[1] + 1 <= Min({index.widest + 1, 8})}
      spans == {[from |-> r[1], to |-> r[2], text |-> TextOf(SubSeq(words, r[1], r[2]))]
                  : r \in runs}
  IN  CutTo(InOrder({s \in spans : Len(s.text) >= 3}, SpanAhead), request.caps.spans)

----------------------------------------------------------------------------
(* Posting lists, read one after the other until the cap on postings that a *)
(* whole lookup may read.                                                   *)
ReadOn(sofar, list) ==
  LET cap == request.caps.postings
      taken == CutTo(list, cap - sofar.read)
  IN  IF sofar.read >= cap THEN sofar
      ELSE [read |-> sofar.read + Len(taken), hits |-> sofar.hits \o taken]
ReadLists(lists, read) == FoldLeft(ReadOn, [read |-> read, hits |-> <<>>], lists)
Lists(table, keys) == [i \in 1 .. Len(keys) |-> Value(table, keys[i], <<>>)]

Above(a, b) == a[1] * b[2] > b[1] * a[2]
Equal(a, b) == a[1] * b[2] = b[1] * a[2]
ScoredAhead(a, b) ==
  \/ Above(a.score, b.score)
  \/ Equal(a.score, b.score) /\ Before(a.surface, b.surface)
BestOf(scored) == CutTo(InOrder(scored, ScoredAhead), request.caps.each)
MentionsAt(span, scored) ==
  [i \in 1 .. Len(scored) |->
     [from |-> span.from, to |-> span.to, surface |-> scored[i].surface,
      score |-> scored[i].score]]

ExactMatches(span, read) ==
  [read |-> read,
   found |-> IF span.text \notin DOMAIN index.surfaces THEN <<>>
             ELSE MentionsAt(span, << [surface |-> span.text, score |-> <<1, 1>>] >>)]

(* 0.7 of the Dice coefficient and 0.3 of the containment.                  *)
CharScore(overlap, a, b) ==
  LET least == Max({1, Min({a, b})})
  IN  <<overlap * (14 * least + 3 * (a + b)), 10 * (a + b) * least>>

CharMatches(span, read) ==
  LET grams == Grams(span.text)
      seen == ReadLists(Lists(index.ngrams, Sorted(grams)), read)
      Overlap(s) == Cardinality({i \in 1 .. Len(seen.hits) : seen.hits[i] = s})
      scored == {[score |-> CharScore(Overlap(s), Cardinality(grams),
                                      Cardinality(index.grams[s])),
                  surface |-> s] : s \in Range(seen.hits)}
  IN  [read |-> seen.read,
       found |-> MentionsAt(span, BestOf(
                   {x \in scored : ~Above(request.caps.threshold, x.score)}))]

(* A word that no surface holds is replaced by tokens near it.              *)
Misspelt(token) == Len(token) >= 4 /\ token \notin index.tokens
NearAhead(a, b) ==
  \/ a.distance < b.distance
  \/ a.distance = b.distance /\ Before(a.token, b.token)
NearAmong(token, candidates) ==
  CutTo(InOrder({[distance |-> Distance(token, t), token |-> t] :
                        t \in {c \in candidates : Distance(token, c) > 0}}, NearAhead),
        request.caps.each)
EditScore(distance, surface) ==
  LET e == EditDistance + 1
      n == TokenCount(surface)
  IN  <<13 * (e - distance) * n + 7 * e, 20 * e * n>>
Corrections(place, near) ==
  FlattenSeq([i \in 1 .. Len(near) |->
    LET surfaces == CutTo(index.tokenSurfaces[near[i].token], request.caps.each)
    IN  MentionsAt(place, [k \in 1 .. Len(surfaces) |->
          [surface |-> surfaces[k],
           score |-> EditScore(near[i].distance, surfaces[k])]])])

Places(words) ==
  [i \in 1 .. Len(words) |-> [from |-> i, to |-> i, text |-> TokenOf[words[i]]]]
EditMatches(place, read) ==
  LET seen == ReadLists(Lists(index.deletes, Sorted(Deletions(place.text))), read)
  IN  IF ~Misspelt(place.text) THEN [read |-> read, found |-> <<>>]
      ELSE [read |-> seen.read,
            found |-> Corrections(place, NearAmong(place.text, Range(seen.hits)))]

(* The bucket of each band and those that differ from it in one bit.        *)
Probes(print) ==
  FlattenSeq([k \in 1 .. Bands |->
    LET bucket == print \cap Band(k - 1)
    IN  << <<k - 1, bucket>> >> \o
          [b \in 1 .. BandBits |->
             <<k - 1, SymDiff(bucket, {(k - 1) * BandBits + b - 1})>>]])
SimhashScore(distance) == <<Bands * BandBits - distance, Bands * BandBits>>

SimhashMatches(span, read) ==
  LET print == Fingerprint(span.text)
      seen == ReadLists(Lists(index.lsh, Probes(print)), read)
      near == {s \in Range(seen.hits) :
                 Hamming(print, index.simhash[s]) <= request.caps.hamming}
  IN  [read |-> seen.read,
       found |-> MentionsAt(span, BestOf(
          {[score |-> SimhashScore(Hamming(print, index.simhash[s])), surface |-> s]
             : s \in near}))]

(* Span by span, or word by word, until the cap is met.                     *)
MatchesAt(channel, item, read) ==
  CASE channel = "exact" -> ExactMatches(item, read)
    [] channel = "char" -> CharMatches(item, read)
    [] channel = "edit" -> EditMatches(item, read)
    [] channel = "simhash" -> SimhashMatches(item, read)
ScanOn(channel, sofar, item) ==
  LET seen == MatchesAt(channel, item, sofar.read)
  IN  IF sofar.read >= request.caps.postings THEN sofar
      ELSE [read |-> seen.read, found |-> sofar.found \o seen.found]
Scan(channel, items) ==
  LET Continue(sofar, item) == ScanOn(channel, sofar, item)
  IN  FoldLeft(Continue, [read |-> 0, found |-> <<>>], items)

Matches(channel) ==
  Scan(channel, IF channel = "edit" THEN Places(request.words) ELSE Spans(request.words))

----------------------------------------------------------------------------
(* lookup: a mention once, at its best score; then a proposal per entity    *)
(* of any of them, before the caps on what is shown.                        *)
SameMention(m, n) == m.from = n.from /\ m.to = n.to /\ m.surface = n.surface
Deduplicated(found) ==
  {m \in found : \A n \in found : SameMention(m, n) => ~Above(n.score, m.score)}

MentionAhead(m, n) ==
  \/ Above(m.score, n.score)
  \/ /\ Equal(m.score, n.score)
     /\ \/ m.from < n.from
        \/ m.from = n.from /\ m.to < n.to
        \/ m.from = n.from /\ m.to = n.to /\ Before(m.surface, n.surface)

(* Occurrences and documents are counted by their ids if every row has      *)
(* them, else at least the largest count is certain.                        *)
Total(rows) ==
  LET ids == UNION {r.occurrenceIds : r \in rows}
      documentIds == UNION {r.documentIds : r \in rows}
      AllIn(Ids(_), Count(_)) ==
        \A r \in rows : Ids(r) # {} /\ Cardinality(Ids(r)) = Count(r)
  IN  [count |-> IF AllIn(LAMBDA r : r.occurrenceIds, LAMBDA r : r.count)
                 THEN Cardinality(ids) ELSE Max({r.count : r \in rows}),
       documents |-> IF AllIn(LAMBDA r : r.documentIds, LAMBDA r : r.documents)
                     THEN Cardinality(documentIds) ELSE Max({r.documents : r \in rows}),
       occurrenceIds |-> ids, documentIds |-> documentIds]

ReachedBy(surface) == DOMAIN index.surfaces[surface] \ {0}

Proposal(channel, mentions, e) ==
  LET mine == {m \in mentions : e \in ReachedBy(m.surface)}
      best == CHOOSE m \in mine : \A n \in mine : ~ScoredAhead(n, m)
  IN  [entity |-> e, channel |-> channel, surface |-> best.surface, score |-> best.score,
       evidence |-> Total({index.surfaces[m.surface][e] : m \in mine})]

ProposalAhead(p, q) ==
  \/ ScoredAhead(p, q)
  \/ ~ScoredAhead(q, p) /\ p.entity < q.entity

ResultOf(channel, matched) ==
  LET mentions == Deduplicated(Range(matched.found))
      proposals == InOrder({Proposal(channel, mentions, e) :
                                   e \in UNION {ReachedBy(m.surface) : m \in mentions}},
                                ProposalAhead)
  IN  [channel |-> channel, read |-> matched.read, mentions |-> mentions,
       shown |-> CutTo(InOrder(mentions, MentionAhead), request.caps.mentions),
       proposals |-> proposals, retained |-> CutTo(proposals, request.caps.addresses)]
Result(channel) == ResultOf(channel, Matches(channel))

AskQuery ==
  /\ index # NoIndex /\ results = {}
  /\ \E words \in FuzzyQueries, caps \in Settings :
        request' = [words |-> words, caps |-> caps]
  /\ UNCHANGED <<index, results, united>>

LookupChannel ==
  /\ index # NoIndex /\ request.words # <<>> /\ united = NoUnion
  /\ \E c \in Channels \ {r.channel : r \in results} :
        results' = results \cup {Result(c)}
  /\ UNCHANGED <<index, request, united>>

----------------------------------------------------------------------------
(* union_address_results                                                    *)
ProposedShown(result) == Range(result.retained)  \* mutant: after the local cap
Proposed(result) == Range(result.proposals)

UnitedAhead(u, v) ==
  LET n == Cardinality(u.channels)
      m == Cardinality(v.channels)
  IN  \/ n > m
      \/ n = m /\ Above(u.score, v.score)
      \/ n = m /\ Equal(u.score, v.score) /\ TitleRank[u.entity] < TitleRank[v.entity]

(* A surface's evidence counts once, as the first channel gives it.         *)
UnitedOf(all, e) ==
  LET mine == {p \in all : p.entity = e}
      best == CHOOSE p \in mine : \A q \in mine : ~ScoredAhead(q, p)
      first == {p \in mine : \A q \in mine :
                  q.surface = p.surface
                    => ChannelRank[p.channel] <= ChannelRank[q.channel]}
  IN  [entity |-> e, score |-> best.score, channels |-> {p.channel : p \in mine},
       surfaces |-> {p.surface : p \in mine},
       evidence |-> Total({p.evidence : p \in first})]

UnionResults ==
  /\ results # {} /\ united = NoUnion
  /\ LET all == UNION {Proposed(r) : r \in results}
         order == InOrder({UnitedOf(all, e) : e \in {p.entity : p \in all}}, UnitedAhead)
     IN  united' = [retained |-> CutTo(order, request.caps.union),
                    pruned |-> SubSeq(order, request.caps.union + 1, Len(order))]
  /\ UNCHANGED <<index, request, results>>

AskAgain ==
  /\ united # NoUnion
  /\ request' = NoQuery /\ results' = {} /\ united' = NoUnion
  /\ UNCHANGED index

FuzzyNext == BuildIndex \/ AskQuery \/ LookupChannel \/ UnionResults \/ AskAgain

FuzzySpec == FuzzyInit /\ [][FuzzyNext]_fuzzyVars

----------------------------------------------------------------------------
(* What a channel should find, from the texts alone: no posting list.       *)
IndexedSurfaces == DOMAIN index.surfaces
CharNear(span) ==
  {s \in {[score |-> CharScore(Cardinality(Grams(span.text) \cap Grams(t)),
                               Cardinality(Grams(span.text)), Cardinality(Grams(t))),
           surface |-> t] : t \in IndexedSurfaces} :
     s.score[1] > 0 /\ ~Above(request.caps.threshold, s.score)}
SimhashNear(span, distance) ==
  LET print == Fingerprint(span.text)
  IN  {[score |-> SimhashScore(Hamming(print, index.simhash[t])), surface |-> t] :
         t \in {s \in IndexedSurfaces : Hamming(print, index.simhash[s]) <= distance}}
EditNear(place) ==
  {[score |-> EditScore(Distance(place.text, r[1]), r[2]), surface |-> r[2]] :
     r \in {p \in index.tokens \X IndexedSurfaces :
                     p[1] \in TokensOf(p[2]) /\ Distance(place.text, p[1]) > 0}}

NearHits(channel) ==
  LET SpanSet == Range(Spans(request.words))
      PlaceSet == {p \in Range(Places(request.words)) : Misspelt(p.text)}
      At(items, Near(_)) ==
        UNION {{[from |-> i.from, to |-> i.to, surface |-> n.surface, score |-> n.score]
                  : n \in Near(i)} : i \in items}
  IN  CASE channel = "exact" -> At(SpanSet, LAMBDA s :
             {[score |-> <<1, 1>>, surface |-> t] : t \in {s.text} \cap IndexedSurfaces})
        [] channel = "char" -> At(SpanSet, CharNear)
        [] channel = "edit" -> At(PlaceSet, EditNear)
        [] channel = "simhash" ->
             At(SpanSet, LAMBDA s : SimhashNear(s, request.caps.hamming))

(* The best of a place by score, as many as the caller asks for of each.    *)
BestHits(channel) ==
  LET PlaceSet == {p \in Range(Places(request.words)) : Misspelt(p.text)}
      Best(Near(_)) ==
        UNION {Range(MentionsAt(s, BestOf(Near(s)))) : s \in Range(Spans(request.words))}
  IN  CASE channel = "exact" -> NearHits("exact")
        [] channel = "char" -> Best(CharNear)
        [] channel = "edit" -> UNION {Range(Corrections(p, NearAmong(p.text, index.tokens)))
                                        : p \in PlaceSet}
        [] channel = "simhash" ->
             Best(LAMBDA s : SimhashNear(s, Min({request.caps.hamming, 2 * Bands - 1})))

(* Whatever a channel finds in its posting lists is near the words it       *)
(* stands for, at a score no better than theirs; and unless the cap on      *)
(* postings ended the reading, nothing that belongs in the answer is        *)
(* missing: no corrected word within the edit distance (deletions common to *)
(* both are enough), no surface in order of score, no fingerprint within    *)
(* one bit less than two a band.  Code: fuzzy_address.py _char_matches,     *)
(* _edit_matches, _simhash_matches and the postings of __init__.            *)
LookupFaithful ==
  \A result \in results :
    LET c == result.channel
        PostingsLeft == result.read < request.caps.postings
    IN  /\ \A m \in result.mentions :
             \E n \in NearHits(c) : SameMention(m, n) /\ ~Above(m.score, n.score)
        /\ c # "simhash" /\ PostingsLeft => result.mentions = Deduplicated(BestHits(c))
        /\ c = "simhash" /\ PostingsLeft => BestHits(c) \subseteq result.mentions

(* The union holds every address that a mention of any channel reaches,     *)
(* also those that the caps on mentions and addresses keep from being       *)
(* shown, once each, with exactly the channels that reach it, their best    *)
(* score and no more occurrences than its records account for; and the one  *)
(* cap that applies cuts no address in favour of one that fewer channels    *)
(* reach.  Code: fuzzy_address.py lookup and union_address_results.         *)
UnionFaithful ==
  united # NoUnion =>
    LET all == united.retained \o united.pruned
        Reach(r, e) == {m \in r.mentions : e \in ReachedBy(m.surface)}
        Mentions(e) == UNION {Reach(r, e) : r \in results}
        Records(e) == {index.surfaces[m.surface][e] : m \in Mentions(e)}
        OccurrencesOf(e) == UNION {r.occurrenceIds : r \in Records(e)}
    IN  /\ IsInjective([i \in 1 .. Len(all) |-> all[i].entity])
        /\ {u.entity : u \in Range(all)} = {e \in DOMAIN TitleRank : Mentions(e) # {}}
        /\ \A u \in Range(all) :
             /\ u.channels = {r.channel : r \in {r \in results : Reach(r, u.entity) # {}}}
             /\ \E m \in Mentions(u.entity) : Equal(m.score, u.score)
             /\ \A m \in Mentions(u.entity) : ~Above(m.score, u.score)
             /\ u.evidence.occurrenceIds \subseteq OccurrencesOf(u.entity)
             /\ u.evidence.count \in 1 .. Max({r.count : r \in Records(u.entity)}
                    \cup {Cardinality(OccurrencesOf(u.entity))})
        /\ Len(united.retained) = Min({request.caps.union, Len(all)})
        /\ \A u \in Range(united.retained), v \in Range(united.pruned) :
             Cardinality(u.channels) >= Cardinality(v.channels)
=============================================================================
