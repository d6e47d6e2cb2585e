---------------------------- MODULE AddressIndex ----------------------------
(***************************************************************************)
(* The exact-address index (addressing/exact.py): the compiler that        *)
(* aggregates evidence rows, builds a radix dictionary of the surfaces and *)
(* lays out sections, and the reader that verifies the file and looks      *)
(* surfaces up in them.                                                    *)
(*                                                                         *)
(* A text is a sequence of bytes, numbers here; an entity, an unresolved   *)
(* key and a title are numbers, in the order of their texts.  Probability  *)
(* masses are the integer supports they are ratios of.  A file's hash is   *)
(* the identity of what it holds.  Offsets count entries, or bytes in      *)
(* labels and references.                                                  *)
(***************************************************************************)
EXTENDS Texts, Integers, Sequences, FiniteSets, SequencesExt, FiniteSetsExt, Functions

CONSTANTS
  Spelling,     \* surfaces as written
  Normal,       \* spelling -> normalize_surface of it, a text
  Inputs,       \* the evidence of a compilation: sequences of rows
  Caps,         \* values of max_postings; 0 is None
  VarintBase,   \* 128
  MaxBuilds     \* model bound: compilations begun

(* A row: surface, entity (0 if unresolved) with title, or key, support,    *)
(* documents, channel, provenance (a set of texts); AddressEvidence checks  *)
(* the rest.                                                                *)
IsRow(row) ==
  /\ row.surface \in Spelling /\ Normal[row.surface] # <<>>
  /\ row.support \in Nat \ {0}
  /\ row.documents # {} /\ Cardinality(row.documents) <= row.support
  /\ row.provenance # {}
  /\ (row.entity = 0) # (row.key = 0) /\ (row.entity = 0) = (row.title = 0)

ASSUME AddressAssumption ==
  /\ \A rows \in Inputs : \A i \in 1 .. Len(rows) : IsRow(rows[i])
  /\ Caps \subseteq Nat /\ VarintBase \in Nat \ {0, 1} /\ MaxBuilds \in Nat

VARIABLES
  compiler,     \* the compilation: where it is, its rows and accumulators
  files,        \* the index file and its manifest
  reader,       \* the ExactAddressIndex
  lookup,       \* the lookup it makes, or made last
  builds        \* compilations begun

addressVars == <<compiler, files, reader, lookup, builds>>

Missing == [missing |-> TRUE]
Part == [missing |-> FALSE]      \* a file that was cut short

Less(a, b) == a < b
ByNumber(numbers) == SetToSortSeq(numbers, Less)

----------------------------------------------------------------------------
(* _aggregate, row by row.                                                  *)
NewPosting == [support |-> 0, documents |-> {}, channels |-> <<>>, provenance |-> {}]
NewGroup == [postings |-> <<>>, unresolved |-> <<>>, provenance |-> {}]

AddTo(group, row) ==
  IF row.entity = 0
  THEN [group EXCEPT
          !.unresolved = With(@, row.key, Value(@, row.key, 0) + row.support),
          !.provenance = @ \cup row.provenance]
  ELSE LET p == Value(group.postings, row.entity, NewPosting)
       IN  [group EXCEPT !.postings = With(@, row.entity,
             [support |-> p.support + row.support,
              documents |-> p.documents \cup row.documents,
              channels |-> With(p.channels, row.channel,
                             Value(p.channels, row.channel, 0) + row.support),
              provenance |-> p.provenance \cup row.provenance])]

(* The dictionary: a trie over the surfaces' bytes in which every chain of  *)
(* nodes that end no surface and have one child is one arc; its nodes in    *)
(* breadth-first order, each known by the text that leads to it.            *)
Stems(surfaces) == UNION {{SubSeq(s, 1, k) : k \in 0 .. Len(s)} : s \in surfaces}

Nexts(texts, p) == {q \in texts : Len(q) = Len(p) + 1 /\ IsPrefix(p, q)}

AlongThrough(surfaces) ==                        \* mutant: runs over ends
  LET texts == Stems(surfaces)
      Chain[p \in texts] ==
        IF Cardinality(Nexts(texts, p)) = 1
        THEN Chain[CHOOSE q \in Nexts(texts, p) : TRUE] ELSE p
  IN  Chain
Along(surfaces) ==
  LET texts == Stems(surfaces)
      Chain[p \in texts] ==
        IF p \notin surfaces /\ Cardinality(Nexts(texts, p)) = 1
        THEN Chain[CHOOSE q \in Nexts(texts, p) : TRUE] ELSE p
  IN  Chain

Children(surfaces, p) ==
  LET texts == Stems(surfaces)
  IN  Sorted({Along(surfaces)[q] : q \in Nexts(texts, p)})

Nodes(surfaces) ==
  LET All[k \in Nat] ==          \* the queue once k nodes were looked at
        IF k = 0 THEN << <<>> >>
        ELSE All[k - 1] \o Children(surfaces, All[k - 1][k])
      Looked[k \in Nat] == IF k = Len(All[k]) THEN All[k] ELSE Looked[k + 1]
  IN  Looked[0]

IndexOf(seq, x) == (CHOOSE i \in 1 .. Len(seq) : seq[i] = x) - 1
NO_GROUP == -1

(* _build_trie                                                              *)
AddNode(surfaces, nodes) ==
  LET Add(t, p) ==
        LET next == Children(surfaces, p)
            AddArc(u, q) ==
              LET label == SubSeq(q, Len(p) + 1, Len(q))
              IN  [u EXCEPT
                     !.arcs = Append(@, [label |-> Len(u.labels), length |-> Len(label),
                                         target |-> IndexOf(nodes, q)]),
                     !.labels = @ \o label]
        IN  FoldLeft(AddArc,
              [t EXCEPT !.states = Append(@,
                 [first |-> Len(t.arcs), count |-> Len(next),
                  group |-> IF p \in surfaces THEN IndexOf(Sorted(surfaces), p)
                            ELSE NO_GROUP])],
              next)
  IN  FoldLeft(Add, [states |-> <<>>, arcs |-> <<>>, labels |-> <<>>], nodes)
Dictionary(surfaces) == AddNode(surfaces, Nodes(surfaces))

(* Variable-length integers, low digits first, all but the last marked.     *)
Varint(value) ==
  LET Digits[v \in Nat] ==
        IF v < VarintBase THEN <<v>>
        ELSE <<(v % VarintBase) + VarintBase>> \o Digits[v \div VarintBase]
  IN  Digits[value]
DecodeVarint(bytes, offset) ==
  LET At[i \in Nat] ==
        LET byte == bytes[i + 1] IN
        IF byte < VarintBase THEN [value |-> byte, next |-> i + 1]
        ELSE [value |-> byte - VarintBase + VarintBase * At[i + 1].value,
              next |-> At[i + 1].next]
  IN  At[offset]

(* Provenance texts, each without what it shares with the one before it.    *)
Common(a, b) == Len(LongestCommonPrefix({a, b}))
FrontCoded(texts) ==
  [i \in 1 .. Len(texts) |->
     LET common == IF i = 1 THEN 0 ELSE Common(texts[i - 1], texts[i])
     IN  [common |-> common,
          suffix |-> SubSeq(texts[i], common + 1, Len(texts[i]))]]
FrontDecoded(entries) ==
  LET Text[i \in 1 .. Len(entries)] ==
        (IF i = 1 THEN <<>> ELSE SubSeq(Text[i - 1], 1, entries[i].common))
          \o entries[i].suffix
  IN  [i \in 1 .. Len(entries) |-> Text[i]]

(* Postings of a surface: most support first, then by entity.               *)
Ordered(group) ==
  LET More(d, e) == \/ group.postings[d].support > group.postings[e].support
                    \/ group.postings[d].support = group.postings[e].support /\ d < e
  IN  SetToSortSeq(DOMAIN group.postings, More)

SupportOf(f) == FoldFunction(+, 0, f)
Supports(group) == [e \in DOMAIN group.postings |-> group.postings[e].support]

References(provenance, strings) ==
  LET numbers == {IndexOf(strings, text) : text \in provenance}
  IN  FoldLeft(LAMBDA bytes, n : bytes \o Varint(n), <<>>, ByNumber(numbers))

(* compile_exact_address_index: sections of what was aggregated.            *)
Compiled(grouped) ==
  LET surfaces == DOMAIN grouped
      strings == Sorted(UNION {grouped[s].provenance \cup
                   UNION {grouped[s].postings[e].provenance : e \in DOMAIN grouped[s].postings}
                   : s \in surfaces})
      entities == ByNumber(UNION {DOMAIN grouped[s].postings : s \in surfaces})
      AddGroup(t, s) ==
        LET group == grouped[s]
            AddPosting(u, e) ==
              LET p == group.postings[e] IN
              [u EXCEPT
                 !.postings = Append(@,
                   [entity |-> IndexOf(entities, e), support |-> p.support,
                    documents |-> Cardinality(p.documents), channels |-> p.channels,
                    start |-> Len(u.refs), count |-> Cardinality(p.provenance)]),
                 !.refs = @ \o References(p.provenance, strings)]
            posted == FoldLeft(AddPosting, t, Ordered(group))
            resolved == SupportOf(Supports(group))
            unresolved == SupportOf(group.unresolved)
        IN  [posted EXCEPT
               !.groups = Append(@,
                 [offset |-> Len(t.postings), count |-> Cardinality(DOMAIN group.postings),
                  total |-> resolved + unresolved, unresolved |-> unresolved,
                  ambiguity |-> Cardinality(DOMAIN group.postings) +
                                Cardinality(DOMAIN group.unresolved),
                  start |-> Len(posted.refs), references |-> Cardinality(group.provenance)]),
               !.refs = @ \o References(group.provenance, strings)]
      tables == FoldLeft(AddGroup, [postings |-> <<>>, refs |-> <<>>, groups |-> <<>>],
                         Sorted(surfaces))
  IN  [dictionary |-> Dictionary(surfaces), entities |-> entities,
       strings |-> FrontCoded(strings), postings |-> tables.postings,
       refs |-> tables.refs, groups |-> tables.groups]

----------------------------------------------------------------------------
AtRest == [at |-> "rest", rows |-> <<>>, row |-> 0, grouped |-> <<>>, titles |-> <<>>]
NoReader == [at |-> "closed", index |-> Missing, named |-> FALSE]
NoLookup == [at |-> "none", spelling |-> CHOOSE s \in Spelling : TRUE, cap |-> 0,
             state |-> 0, position |-> 0, answer |-> Missing]

AddressInit ==
  /\ compiler = AtRest
  /\ files = [index |-> Missing, manifest |-> Missing]
  /\ reader = NoReader /\ lookup = NoLookup
  /\ builds = 0

CompilerAt(place) == compiler.at = place
CompilerGoes(place) == compiler' = [compiler EXCEPT !.at = place]

StartCompile ==
  /\ CompilerAt("rest") /\ builds < MaxBuilds /\ lookup.at # "walking"
  /\ \E rows \in Inputs :
        compiler' = [AtRest EXCEPT !.at = "aggregating", !.rows = rows]
  /\ builds' = builds + 1
  /\ UNCHANGED <<files, reader, lookup>>

MoreRows == compiler.row < Len(compiler.rows)
Row == compiler.rows[compiler.row + 1]
Retitled ==
  Row.entity \in DOMAIN compiler.titles /\ compiler.titles[Row.entity] # Row.title

TakeRow ==
  /\ CompilerAt("aggregating") /\ MoreRows /\ ~Retitled
  /\ LET s == Normal[Row.surface]
     IN  compiler' = [compiler EXCEPT
           !.row = @ + 1,
           !.grouped = With(@, s, AddTo(Value(@, s, NewGroup), Row)),
           !.titles = IF Row.entity = 0 THEN @ ELSE With(@, Row.entity, Row.title)]
  /\ UNCHANGED <<files, reader, lookup, builds>>

(* Conflicting titles, or no row at all: AddressIndexError.                 *)
RefuseEvidence ==
  /\ CompilerAt("aggregating")
  /\ IF MoreRows THEN Retitled ELSE compiler.row = 0
  /\ compiler' = AtRest
  /\ UNCHANGED <<files, reader, lookup, builds>>

(* The index file is emptied and written, then the manifest; each write may *)
(* be cut short by the death of the process.                                *)
OpenIndexFile ==
  /\ CompilerAt("aggregating") /\ ~MoreRows /\ compiler.row > 0
  /\ CompilerGoes("writing")
  /\ files' = [files EXCEPT !.index = Part]
  /\ UNCHANGED <<reader, lookup, builds>>

Artifact == [of |-> compiler.rows, sections |-> Compiled(compiler.grouped)]

WriteIndexFile ==
  /\ CompilerAt("writing") /\ CompilerGoes("written")
  /\ files' = [files EXCEPT !.index = Artifact]
  /\ UNCHANGED <<reader, lookup, builds>>

OpenManifest ==
  /\ CompilerAt("written") /\ CompilerGoes("describing")
  /\ files' = [files EXCEPT !.manifest = Part]
  /\ UNCHANGED <<reader, lookup, builds>>

WriteManifest ==
  /\ CompilerAt("describing") /\ compiler' = AtRest
  /\ files' = [files EXCEPT !.manifest = Artifact]
  /\ UNCHANGED <<reader, lookup, builds>>

CompilerDies ==
  /\ ~CompilerAt("rest") /\ compiler' = AtRest
  /\ UNCHANGED <<files, reader, lookup, builds>>

(* ExactAddressIndex: the file is read and its checksums are compared; then *)
(* the manifest is, if the caller names one.                                *)
LoadIndex ==
  /\ reader.at = "closed" /\ files.index \notin {Missing, Part}
  /\ \E named \in BOOLEAN :
        reader' = [at |-> "loaded", index |-> files.index, named |-> named]
  /\ UNCHANGED <<compiler, files, lookup, builds>>

ManifestAgrees == reader.named => files.manifest = reader.index

OpenReader ==
  /\ reader.at = "loaded" /\ ManifestAgrees
  /\ reader' = [reader EXCEPT !.at = "open"]
  /\ UNCHANGED <<compiler, files, lookup, builds>>

OpenReaderRaises ==
  /\ reader.at = "loaded" /\ ~ManifestAgrees
  /\ reader' = NoReader
  /\ UNCHANGED <<compiler, files, lookup, builds>>

----------------------------------------------------------------------------
(* lookup: one arc at a time.  It only reads what the reader holds, so it   *)
(* is not interleaved with a compilation.                                   *)
Sections == reader.index.sections
Wanted == Normal[lookup.spelling]

Ask ==
  /\ reader.at = "open" /\ lookup.at # "walking" /\ CompilerAt("rest")
  /\ \E s \in Spelling, cap \in Caps :
        lookup' = [NoLookup EXCEPT
          !.at = IF Normal[s] = <<>> THEN "unknown" ELSE "walking",
          !.spelling = s, !.cap = cap]
  /\ UNCHANGED <<compiler, files, reader, builds>>

(* The first arc of a state whose label does not begin before the byte.     *)
LowerBound(state, wanted) ==
  LET Begins(i) == Sections.dictionary.labels[
                     Sections.dictionary.arcs[state.first + i + 1].label + 1]
      Within[low \in Nat, high \in Nat] ==
        LET middle == (low + high) \div 2 IN
        IF low >= high THEN low
        ELSE IF Begins(middle) < wanted THEN Within[middle + 1, high]
        ELSE Within[low, middle]
  IN  Within[0, state.count]

(* _transition: the arc to follow from here, or none.                       *)
Transition ==
  LET d == Sections.dictionary
      state == d.states[lookup.state + 1]
      low == LowerBound(state, Wanted[lookup.position + 1])
  IN  IF low >= state.count THEN {}
      ELSE LET arc == d.arcs[state.first + low + 1]
               label == SubSeq(d.labels, arc.label + 1, arc.label + arc.length)
               rest == SubSeq(Wanted, lookup.position + 1,
                              Min({lookup.position + arc.length, Len(Wanted)}))
           IN  IF rest = label THEN {arc} ELSE {}

Walking == lookup.at = "walking" /\ lookup.position < Len(Wanted)

FollowArc ==
  /\ Walking
  /\ \E arc \in Transition :
        lookup' = [lookup EXCEPT !.state = arc.target, !.position = @ + arc.length]
  /\ UNCHANGED <<compiler, files, reader, builds>>

LeaveDictionary ==
  /\ Walking /\ Transition = {}
  /\ lookup' = [lookup EXCEPT !.at = "unknown"]
  /\ UNCHANGED <<compiler, files, reader, builds>>

(* _provenance_slice and _posting.                                          *)
Slice(start, count) ==
  LET texts == FrontDecoded(Sections.strings)
      Read[n \in Nat] ==           \* n references on from start
        IF n = 0 THEN [next |-> start, seen |-> {}]
        ELSE LET before == Read[n - 1]
                 one == DecodeVarint(Sections.refs, before.next)
             IN  [next |-> one.next, seen |-> before.seen \cup {texts[one.value + 1]}]
  IN  Read[count].seen

PostingAt(k) ==
  LET p == Sections.postings[k + 1]
  IN  [entity |-> Sections.entities[p.entity + 1], support |-> p.support,
       documents |-> p.documents, channels |-> p.channels,
       provenance |-> Slice(p.start, p.count)]

Group == Sections.groups[Sections.dictionary.states[lookup.state + 1].group + 1]

SupportIn(postings) == FoldLeft(LAMBDA sum, p : sum + p.support, 0, postings)

AllPostings ==
  [i \in 1 .. Group.count |-> PostingAt(Group.offset + i - 1)]

Distribution ==
  LET limit == IF lookup.cap = 0 THEN Group.count ELSE Min({lookup.cap, Group.count})
      returned == SubSeq(AllPostings, 1, limit)
  IN  [postings |-> returned,
       omitted |-> Group.count - limit,
       omittedSupport |-> SupportIn(AllPostings) - SupportIn(returned),
       unresolved |-> Group.unresolved,
       unresolvedProvenance |-> Slice(Group.start, Group.references),
       total |-> Group.total, ambiguity |-> Group.ambiguity]

(* _posting and lookup raise unless every posting's documents and channels  *)
(* fit its support and the mass is whole.                                   *)
Consistent ==
  /\ \A i \in 1 .. Group.count :
        LET p == AllPostings[i]
        IN  p.documents <= p.support /\ SupportOf(p.channels) = p.support
  /\ SupportIn(AllPostings) + Group.unresolved = Group.total

AtEnd == lookup.at = "walking" /\ lookup.position >= Len(Wanted)
EndsSurface == Sections.dictionary.states[lookup.state + 1].group # NO_GROUP

EndInside ==
  /\ AtEnd /\ ~EndsSurface
  /\ lookup' = [lookup EXCEPT !.at = "unknown"]
  /\ UNCHANGED <<compiler, files, reader, builds>>

AnswerLookup ==
  /\ AtEnd /\ EndsSurface
  /\ lookup' = [lookup EXCEPT
       !.at = IF Consistent THEN "answered" ELSE "raised",
       !.answer = Distribution]
  /\ UNCHANGED <<compiler, files, reader, builds>>

(* Nobody can compile again within the bound and there is no file to open.  *)
AddressRests ==
  /\ CompilerAt("rest") /\ builds = MaxBuilds
  /\ reader.at = "closed" /\ files.index \in {Missing, Part}
  /\ UNCHANGED addressVars

AddressNext ==
  \/ StartCompile \/ TakeRow \/ RefuseEvidence
  \/ OpenIndexFile \/ WriteIndexFile \/ OpenManifest \/ WriteManifest \/ CompilerDies
  \/ LoadIndex \/ OpenReader \/ OpenReaderRaises
  \/ Ask \/ FollowArc \/ LeaveDictionary \/ EndInside \/ AnswerLookup
  \/ AddressRests

AddressSpec == AddressInit /\ [][AddressNext]_addressVars

----------------------------------------------------------------------------
(* What a lookup returns is what the evidence says, whatever the dictionary,*)
(* the posting order, the cap and the two string encodings do in between:   *)
(* a surface is unknown exactly when no row has its normal form; otherwise  *)
(* every posting has the support, documents, channels and provenance its    *)
(* rows add up to, the strongest come first and ties by entity, a cap leaves*)
(* out only weaker ones and says how many and how much support that is, and *)
(* the unresolved rows are all in the total (lookup's docstring: truncation *)
(* cannot masquerade as resolution).  No lookup in an index the reader      *)
(* opened raises, also when the compiler died over the file before.         *)
Held == reader.index.of
About(entities) ==
  {i \in 1 .. Len(Held) : Normal[Held[i].surface] = Wanted /\ Held[i].entity \in entities}
Known == {Held[i].entity : i \in 1 .. Len(Held)}
SupportAmong(is) == MapThenSumSet(LAMBDA i : Held[i].support, is)
ProvenanceOf(is) == UNION {Held[i].provenance : i \in is}

PostingExact(p) ==
  LET mine == About({p.entity})
  IN  /\ p.entity # 0 /\ mine # {}
      /\ p.support = SupportAmong(mine)
      /\ p.documents = Cardinality(UNION {Held[i].documents : i \in mine})
      /\ DOMAIN p.channels = {Held[i].channel : i \in mine}
      /\ \A c \in DOMAIN p.channels :
            p.channels[c] = SupportAmong({i \in mine : Held[i].channel = c})
      /\ p.provenance = ProvenanceOf(mine)

AnswerExact(d) ==
  LET candidates == {Held[i].entity : i \in About(Known \ {0})}
      returned == {d.postings[k].entity : k \in 1 .. Len(d.postings)}
      left == candidates \ returned
      Ahead(e, f) == LET a == SupportAmong(About({e}))
                         b == SupportAmong(About({f}))
                     IN  a > b \/ (a = b /\ e < f)
  IN  /\ \A k \in 1 .. Len(d.postings) : PostingExact(d.postings[k])
      /\ \A k \in 1 .. Len(d.postings) - 1 :
            Ahead(d.postings[k].entity, d.postings[k + 1].entity)
      /\ \A e \in returned, f \in left : Ahead(e, f)
      /\ Cardinality(returned) =
           IF lookup.cap = 0 THEN Cardinality(candidates)
           ELSE Min({lookup.cap, Cardinality(candidates)})
      /\ d.omitted = Cardinality(left)
      /\ d.omittedSupport = SupportAmong(About(left))
      /\ d.unresolved = SupportAmong(About({0}))
      /\ d.unresolvedProvenance = ProvenanceOf(About({0}))
      /\ d.total = SupportAmong(About(Known))
      /\ d.ambiguity = Cardinality(candidates) +
                         Cardinality({Held[i].key : i \in About({0})})

LookupExact ==
  /\ lookup.at # "raised"
  /\ lookup.at = "unknown" => About(Known) = {}
  /\ lookup.at = "answered" => About(Known) # {} /\ AnswerExact(lookup.answer)
=============================================================================
