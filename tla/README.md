# AetherSparse: TLA+ models, checks and proofs

AetherSparse answers questions from a compiled evidence corpus. It never generates an
answer: a bounded controller selects evidence, builds a plan from exact copied spans, an
exact verifier admits or refuses it, and everything else ends in one of a few named
refusals. This directory models the parts of the repository that carry that promise: the
state machines, their bounds, and what happens to them when calls overlap, repeat or fail.

Paths below are relative to the repository root. `PROJECT.json` maps every definition to
the lines it models.

## 1. Inventory

### Components and their state

| Component | Code | State | Operations |
|---|---|---|---|
| native candidate workspace | `native/aethercore_runtime`, `edge_runtime/reference.py` | 32 candidates (id, score, evidence mask), 8 selections, flags, step and error counters | init, union, legal mask, policy select, execute |
| native progress accounting | same, `edge_runtime/native_v14.py` | two previous obligation counts, last action and error, 16-bit counters, totals | record |
| native policy, 5C digest, images, specialists | same | none (pure functions over buffers) | score, digest, check, snapshot |
| micro-operation machine and verifier | `controller/micro_ops.py`, `verification.py`, `answering.py`, `evidence.py` | active, selected, rejected, bound claims, derived values, plan, verification, terminal, operation counts | 34 micro-operations, menu, verify |
| controller search | `controller/search.py` | frontier heap, visited keys, terminals, budgets | best-first search, beam search |
| replay, pipeline | `controller/replay.py`, `pipeline.py` | none | replay, dispose |
| conversational agent service | `agent/vertical.py`, `conversation.py`, `session.py`, `server.py` | one JSON session per id: utterances, clarification, bindings, evidence handles, plan | HTTP query, terminal query, clarify, cancel, reset, answer |
| agent tools, knowledge, protocol | `agent/tools.py`, ... | authorizations, pack registry | authorize, execute, install, render |
| cognitive obligation graph | `cognitive/graph.py`, `models.py` | goals, obligations, invariants, hypotheses, evidence, frontier, progress | transition, add, verify, record progress, recover |
| cognitive interpreter, qualification | `cognitive/interpreter.py`, `qualification.py` | none (builds and drives graphs) | interpret, qualify |
| five-C constraints | `five_c.py` | constraint sets, digests | check |
| gate-0 review | `gate0/review.py`, `review_service.py` | a hash-chained journal file, one lock | status, claims, append |
| real corpus | `real_corpus/acquisition.py`, `builder.py`, two scripts | archive, `.part`, `.building`, pack, manifest | acquire, verify, build, activate, describe |
| traversal | `traversal/corpus.py`, `runtime.py` | an SQLite store; the evidence of one query | ingest, fold redirects, search, follow links |
| edge pack and firmware | `scripts/droid/v14_p4_*.py`, `firmware/p4_qualification` | region files; an LRU page cache over them | build pack, read page, address query, evidence probe |
| pack registries | `edge_runtime/packs.py`, `agent/knowledge.py` | a JSON file that names the active packs | install, verify, activate, deactivate; add, update, remove |
| exact-address index | `addressing/exact.py` | an index file and its manifest; a memory-mapped reader | compile, open, lookup |
| fuzzy-address index | `controller/fuzzy_address.py`, `selection/spelling.py` | posting lists of grams, deletions and fingerprint bands | compile, lookup on a channel, union of channels |
| parallel ingestion | `scripts/droid/v09_parallel_ingest.py` | shard databases, one merged store | scan a range, merge |
| substrate, selection, cells, specialists, autonomy, the rest of addressing | `substrate/`, `selection/`, ... | compiled indexes, bounded work lists | build, look up, rank |
| observer | `observer/` | sampled stores | capture, sample |
| v0 slice and CLI | `compiler.py`, `runtime.py`, `service.py`, ... | a compiled snapshot | compile, ask |

### How they interact

`server.py` receives a query on a worker thread and calls `AetherCoreVerticalSlice.query`
(`vertical.py`). That interprets the text into an obligation graph (`cognitive`), lets the
conversation engine load and save the session (`conversation.py` over `session.py`),
addresses the text (two channels of the fuzzy index and their union), runs at most twelve micro-operations (`micro_ops.py`), which call the
exact verifier, satisfies the graph's obligations, and records the answer in the session.
The native runtime is the embedded counterpart of the controller: a host offers candidate
batches, asks for legal actions and executes one at a time; its Python references
(`reference.py`, `native_v14.py`) are the specification the native build is tested against.
The components share no memory except the session store, which two overlapping requests of
one session use at the same time, and the review journal, a file that concurrent review
requests append to and read.  Offline, the corpus scripts produce files that the traversal
store ingests; the pack builder produces the regions that the firmware reads through its
page cache, and the trace exporter the answers it must give.

### What is hard here

* *Interleaving and atomicity*: a request makes up to five separate store accesses
  (load; load, save; load, save), locked one at a time; another request may come between
  any two of them.  Journal readers take no lock.
* *Crash*: the session store replaces its file atomically, so a crash keeps the last save
  and loses the threads; a review entry may be cut anywhere before its fsync; acquisition,
  build and ingestion may die between any two steps and be run again; so may a worker of
  the parallel ingestion, an index compiler, or a command on the pack registry.
* *Two users of one file*: neither pack registry locks its file; one of them gives its
  temporary file one fixed name.
* *Partial failure*: a write raises and the stream is flushed outside the lock; a download
  ends early; a flash read fails after it has overwritten part of a cache slot.
* *Caps on work*: the fuzzy lookup reads posting lists until one budget is spent and cuts
  its results four more times.
* *Bounds*: windows are cut by hand, because `model_copy` skips the validators that a later
  `load` runs; native arrays, counters, budgets, beam widths and step caps are fixed.
* *Ordering*: candidates are evicted while a batch streams; cache slots by usage ticks;
  terminals are cut in order of discovery.
* *Stale state*: the `VERIFIED` flag, the clarification reloaded from the store, a graph a
  caller kept for a rollback, a cache slot whose read failed.
* *Protocol sequences*: the micro-operation menu narrows as claims are selected; the
  verification may be run once.
* *Circular waits*: obligations may depend on each other.

`PROJECT.json` lists each hazard at its line, with the properties that cover it.

## 2. Modules

| Module | Models | Theorems in |
|---|---|---|
| `NativeWorkspace` | workspace calls and the Python reference of the union | `NativeProofs` |
| `NativeProgress` | C progress record side by side with its Python reference | `NativeProofs` |
| `LruCache` | the cache of the host's `PagedPostingIndex`: the abstract specification | - |
| `Pager` | the firmware's page cache, which implements `LruCache` | `PackProofs` |
| `EdgePack` | the pack as built on the host; address query and evidence probe over `Pager` | `PackProofs` |
| `MicroOps` | menu, micro-operations, exact verifier | `ControllerProofs` |
| `Search` | best-first and beam search over an abstract state graph | `ControllerProofs` |
| `AgentService` | threads, session store, conversation engine, crash | `AgentServiceProofs` |
| `CognitiveGraph` | every operation of `graph.py` and a caller with rollback | `CognitiveGraphProofs` |
| `ReviewJournal` | concurrent appends and reads of the review journal, death, failed writes | `ReviewJournalProofs` |
| `Corpus` | acquisition and build of the corpus pack, deaths and power cuts | `CorpusProofs` |
| `CorpusStore` | ingestion of a dump into the traversal store, deaths and repeated runs | `CorpusProofs` |
| `ShardedIngest` | the parallel ingestion: ranges, workers, shards and merge, next to the serial result | `CorpusProofs` |
| `Traversal` | one bounded query over that store | `CorpusProofs` |
| `ActiveSet` | what a registry of active packs promises: the abstract specification | - |
| `PackRegistry` | `edge_runtime/packs.py`: users, files, deaths and power cuts, which implements `ActiveSet` | `PackProofs` |
| `DeploymentRegistry` | `agent/knowledge.py`: two commands and one temporary file | - |
| `Texts` | texts in byte order, sets put in order, growing functions | - |
| `AddressIndex` | the exact-address index: compiler, files, reader, lookup | - |
| `FuzzyAddress` | the fuzzy-address index: compilation, four channels, lookup, union | `ControllerProofs` |
| `Inductions` | induction and recursion over numbers, with sets and functions for operators; finite sets in order, folds, flattened sequences | itself |

`MC*` modules give the constants of each for TLC; the `.cfg` files are the runs.  Two runs
put state machines that share no variable side by side: in `MCRecords` the workspace, the
progress record and the review journal, in `MCSingles` the ten that wait for nobody.  A variable fixed in the
initial state says which of them moves, so a run explores the sum of their states, not the
product, and no interaction is implied.  What does interact is composed in one next-state
relation: `EdgePack` drives `Pager`, whose requests it waits for; requests, store and crash
in `AgentService`; workers, file and death in `ReviewJournal`; scripts, server and disk in
`Corpus`.

**NativeWorkspace.** The candidate array is a function from entity ids: the code finds
candidates by id only and its order is a strict total order on ids, so array positions are
never observed. `UnionCall` starts a union, `UnionStep` is one iteration of its loop
(`UnionSkip`, `UnionMerge`, `UnionInsert`, `UnionEvict`, `UnionReject`, `UnionReturn`), as
a batch can be refused halfway with its first half merged. `LegalActions` is the mask,
`Execute` the actions of `ac_execute_action_v1` (`Select`, `BuildPlan`, `VerifyPlan`,
`Search`, `Finish`), `Refuse` its error returns. The policy's choice is any legal action.
`ReferenceUnion` is `Workspace.union_candidates` of the Python reference, the abstract
specification of what a whole union returns.

**NativeProgress.** `NativeRecord` is the C function with its counter widths (`% 2^w` for
the one plain increment, saturation elsewhere), `ReferenceRecord` the Python one with
unbounded integers; `Record` feeds both the same record.

**MicroOps.** `LegalSpec` is `legal_operation_specs`, `OnMenu` the narrowing of
`legal_actions`, `Selectable` the arguments of SELECT_CLAIM. `Take` is the entry check and
bookkeeping common to `execute_action`'s branches; each branch is an action. `Verifies` is
`verify_realization` on the plan that `make_answer_plan` and `realize_plan` build. A claim
is abstracted to what these compare: subject, relation, source family of its spans, the
outcome of the per-claim text checks, the first number in its text (what COMPARE_VALUES
reads) and its quantity in a common unit (what the verifier reads). The policy is
nondeterministic: learned policies, heuristics and the search all choose from this menu.

**AgentService.** One action per store access of a request (`LoadBefore`, `AcceptLoad`,
`AcceptSave`, `AnswerLoad`, `AnswerSave`, `Reload`) with the local decisions between them
(`RejectBlank`, `AnswerControl`, `AskClarification`, `AbstainUnresolved`,
`ControllerGivesUp`, `ObligationsOpen`, `ControllerVerifies`). `Accept` is
`ConversationEngine.accept` on the loaded state, case by case. The text is abstracted to
what the code reads off it (kind, address candidates, relation, style). `Crash` ends all
threads and keeps the file. `beside` is a history variable: which requests were in flight
together; no guard reads it. It lets the properties say what overlapping may cost: a save
can replace what a request beside it stored (the store has no transaction, so it does), never
what a request that ran alone was answered.

**CognitiveGraph.** Collections are functions from ids. Each operation of `graph.py` is an
action that applies it to the current graph; an operation that raises is disabled, as
graphs are immutable and the caller keeps the old one. The caller holds the current graph,
the graph of its last `record_progress` and one older graph that `Rollback` returns to.

**LruCache, Pager.** `LruCache` is the ordered dictionary of `edge_runtime/layout.py`: a
sequence of resident pages, least recent first.  Its `FailedMiss` is what the firmware adds:
a miss whose read fails is counted and leaves recency as it was, the page it was to replace
included (what happens to that page's bytes is `Pager`'s business).  `Pager` is `pager_page`: slots
with a valid flag, page, region, usage tick and bytes, a linear search for a hit, for an
unused slot, and for the oldest tick.  A failed read overwrites any part of the victim's
bytes (`Overwritten`) and changes nothing else (`FailedRead`).  `ImplementsReference` is the
refinement: the resident pages in the order of their ticks are the dictionary.  Bytes are
checked separately (`PagerConsistent`), as the reference has none to go bad.

**EdgePack.** The data half is the builder (`PostingWords`, `EntityWords`, `Directory`,
`BlobWords`: which words land on which page) and the exporter (`HostTop`, `HostAnswer`).  Lists
in an order are stated by rank, the element with k - 1 others before it.  The machine
half is the trace loop of the firmware: a query unions postings page by page, sorts the ids,
counts runs, keeps the best surfaces by insertion, maps them to entities, and probes the
evidence directory by binary search; every page goes through `Pager` and may fail.

**Search.** The state graph, its priorities, terminals and keys are a constant (`Problems`);
the nodes, heap order, visited set, budgets, levels and the final selection are the code's.
Keys identify states that differ only in operation counts.

**ReviewJournal.** `Lock`, `Build`, `Write`, `Sync`, `CloseWrites`, `CloseEnds` are the
steps of one append; the file is a sequence of pieces of lines, so that an entry may be on
disk in part; what was not yet synced may be cut by `Kill`.  Reads are the lock-free parses
of the status and claims handlers (`ReadsOf`).  A reason may hold a character that
`splitlines` breaks at (`Separated`).

**Corpus.** `FetchStart` to `FetchCheck` are `acquire_dump` with its retries and ranges
against a server that may ignore the range, refuse, break off, end early or send wrong
bytes; `BuildStart` to `ActivatePack` are `build_pack`, `DescribePack` the script that
writes the manifest.  A file is its length, whether its bytes are right and how much is on
the medium: nothing here calls fsync, so `PowerCut` may keep any prefix.

**CorpusStore, Traversal.** `IngestPage` is one iteration of `ingest_mediawiki`'s loop with
its commit, `SkipPage` its `continue`; `IngestEnd` the folding of redirects, the anchors and
the `UPDATE` of links, which commits last.  SQLite's `LIMIT 1` without an order is any row.
`Traversal` has one action per row consumed and per round of `query`; ties of `ORDER BY n`
fall either way.

**ShardedIngest.** A command splits the dump into ranges (`Bounds`), each worker fills a
shard database page by page (`ReadPage`, `CommitShard`), the merge copies the shards in order
(`MergeShard`) and does the steps the serial ingestion does at its end (`Merge`,
`FinishMerge`).  A build may die anywhere and leave files that the next one meets.  The
result is compared with the operators of `CorpusStore`, the serial ingestion.

**ActiveSet, PackRegistry, DeploymentRegistry.** `ActiveSet` says what a reader of a
registry may rely on: the file always names one whole set that one command made, at most one
pack per namespace, and what a command returned is not undone by a power cut.  In
`PackRegistry` the steps of a command are those of `activate` and `deactivate` with their
`mkstemp`, `fsync`, `os.replace` and directory `fsync`; a power cut chooses among what the
medium may hold.  `DeploymentRegistry` is the second registry, where two commands share one
temporary file: a file is a number, a name refers to one, so a process may go on writing to
a file that was meanwhile given the index's name.

**AddressIndex.** `TakeRow` is one row of `_aggregate`; `Compiled` the compiler (compressed
trie, front-coded strings, varints, posting and provenance sections), `WriteIndexFile` and
`WriteManifest` its two files; the reader checks the manifest when it opens (`LoadIndex`,
`ManifestAgrees`) and a lookup walks the dictionary one arc at a time (`FollowArc`).

**FuzzyAddress.** `CompiledFuzzy` merges the records and builds the posting lists.  A channel
is `ExactMatches`, `CharMatches`, `EditMatches` or `SimhashMatches`, each reading its lists
under the cap that runs across spans (`ReadLists`, `Scan`); `ResultOf` is the rest of `lookup`
(mentions once at their best score, one proposal per entity, caps on what is shown),
`UnionResults` is `union_address_results`.  Scores are exact fractions, hashes of gram bits
are a constant, and a lookup is one action, as the index never changes once built.

## 3. Runs

Every property of a passing run has a mutant of the code in `PROJECT.json` that breaks it.

| Run | Shows | Bounds |
|---|---|---|
| `records`, workspace | capacities hold and no entity is selected twice, ANSWER is only recorded over a verified plan with a selection, every episode ends, and the streamed union is at every entry of a batch, also where it is refused, the reference's of what it has gone through, whenever no known candidate can be evicted and come back within one batch | 3 ids for 2 slots, 2 scores, 1 evidence bit, 5 steps, 3 unions, batches that fill, overflow, repeat ids and fail midway |
| `native_union` (violation) | without that condition it does not equal the reference | same |
| `native_answer` (violation) | verification does not cover what a later union evicts | same |
| `records`, the others | progress: STAGNATED iff the same failing record was seen the limit times running; C and Python agree while no counter leaves its range.  Review journal: every readable entry verifies (`JournalReadable`), a returned append is in every journal that verifies (`NoSilentLoss`), reads only grow (`ReadsGrow`), every request ends (`ReviewsDrain`) | 16-bit counters end at 4, the 32-bit one at 5; limit 3; 6 records.  3 reviews, 2 workers, 1 death, 1 failed write, one reason with a line separator |
| `native_progress_bits` (violation) | beyond the range C and Python do not agree | same |
| `edge_torn` (violation) | a slot over which a read failed is served as the page it held before | same pack |
| `registry_overlap` (violation) | the first of two overlapping commands publishes the file the second has just emptied | 2 commands on 1 pack with 1 update |
| `shard_keys` (violation) | semantic keys of a merged store are not the serial ones | as `ShardedIngest` below |
| `singles` | ten machines, see below | see below |
| `agent_service` | stored state always readable and self-consistent; an answer is filed under its own turn or one of an overlapping request (`AnswersAttributed`); no save takes back what a request that ran alone was answered (`AloneIsKept`); every request returns | 3 requests, 2 threads, 1 crash, 9 texts, windows of 2, 1 and 2 |
| `agent_clarify` (violation) | the terminal adapter can lose the choices it clarifies with | same |
| `cognitive_progress` | the counters cover every graph one may return to (`ProgressCoversGraph`) and never fall (`CountersNeverFall`); recovery exactly at the stagnation limit (`RecoveryAfterStagnation`); circular and dangling obligations never close, also when reopened and rolled back (`DeadlockedNeverSatisfied`) | 4 obligation ids, 1 item of each other kind, 1 operation between 2 records, 5 records, limit 2: an item is added, counted, and rolled back after two empty records |
| `cognitive_closure` (violation) | `add_obligation` accepts a dangling dependency | 4 obligation ids, 3 operations between 2 records |

The run `singles` checks:

| Machine | Shows | Bounds |
|---|---|---|
| `MicroOps` | supported answers, explained refusals, selections and plans among active claims, stuck episodes only after commitment | 7 tasks of up to 3 claims, 8 steps: the longest list episode (enumerate, 2 selections, 2 slots, plan, verify, answer) |
| `Search` | `ExhaustedMeansClosed`, `ReachedAnswerSelected` | graphs of 6 states with shared keys, both orders of siblings, depths 1 and 3, 2 or 9 expansions, beams of width 1 and 2, 1 or 9 terminals |
| `Corpus` | `ActivatedIsComplete`, `FailureExplained` | files of 3 blocks, a pack of 2 steps, 1 retry, 3 mishaps (server, death, power) |
| `CorpusStore` | `IngestComplete` | dumps of 4 pages with redirects, redirect chains and loops, anchors, equal titles; a commit every 2 pages; 2 deaths; redirects followed through 2 documents |
| `Traversal` | `WithinBudget`, `GapIsReal` | 6 chunks in 4 documents with links, 7 budgets, each of them binding somewhere |
| `EdgePack`, `Pager` | `ImplementsReference` (the page cache refines the host's), `PagerConsistent`, and `DeviationNeedsEvidenceFailure`: a device answer differs from the host's only after a failed read of an evidence page | 5 surfaces on 2-word pages, caches of 0 to 3 slots, 3 queries, 2 failing reads |
| `ShardedIngest` | `MergedAsSerial`: pages, documents, chunks, anchors, redirects and links of the merged store are those of the serial one | 2 dumps of `CorpusStore`, 1 to 3 workers, limits that take part or all of a dump, 1 death |
| `PackRegistry` | `ImplementsActiveSet` | 2 users, 3 packs (1 damaged) in 2 namespaces, 3 commands, deaths and power cuts anywhere |
| `AddressIndex` | `LookupExact`: a lookup returns what the evidence rows add up to | 4 inputs, caps 0 to 2, varints with 2 values a digit, 2 builds |
| `FuzzyAddress` | `LookupFaithful`: nothing is found that is not near, and nothing near is missed unless the cap on postings ended the reading; `UnionFaithful`: the union loses no address to a cap on display and cuts by agreement first | 3 catalogs (1 refused) of up to 8 records, 5 queries of up to 3 words, 4 settings that spend each cap or none; trigrams, edit distance 2, 2 bands of 3 bits, any set of channels |

*Why the bounds are enough.* Each bound is small enough to be exceeded within the run: more
ids than slots, more turns than the window, more records than the counter range, more empty
steps than the stagnation limit, more requests than threads, more pages than cache slots,
more rows than budget, more pages than one commit covers. Behaviour at the real values
(32 candidates, 64 steps, windows of 12, 16 and 32, 4 KiB pages, commits of 500) differs only
in how long it takes to get there; where a theorem exists, it holds for every value.
`MicroOps` fixes list length two
and three claims: every rule of the menu compares a candidate with the selected claims
pairwise. Its eight steps leave no slack for a list episode with extra enumerations, which
do not change what the later steps read, but do leave slack for direct and comparison
episodes, where COUNT_VALUES matters.  Three reviews by two workers are enough for a fork of
the chain to be followed by a reader and by a further append.

*Fairness.* `AgentService` assumes weak fairness of each request's own steps: a started
handler runs on an operating-system thread and never waits for another request except for
the lock of one load or save. `JournalFairness` is the same for the worker threads of the
review service, which wait for one lock that every path releases. Nothing is assumed about
arrivals, crashes or failing writes.
`NativeWorkspace` assumes that the host finishes the union loop it is in (a C loop) and
keeps executing while an action is legal (the loop around `ac_policy_select_v1`); which
action it picks is arbitrary. The other models have safety properties only.

`CHECK_DEADLOCK FALSE` appears where callers simply stop: the runs `cognitive_progress`,
`cognitive_closure`, `native_progress_bits`, `registry_overlap` and `records`.  Elsewhere an end is a stuttering action of its own, so that a machine that stops anywhere else is a deadlock TLC reports.

*Assumed.* One run of each corpus script at a time, the same dump when an ingestion is
repeated, titles whose case folding SQLite's `lower` shares, hashes that do not collide, a
registry's directory that exists before its first command, documents of a dump that differ.
Where two aliases of a link name different documents, the serial store may take either.
Floats of the fuzzy scores are taken as the fractions they approximate, so scores that are
equal as fractions tie; a written word is one token after normalization.

## 4. Proofs

All theorems hold for every value of the constants that satisfies the module's named
assumptions, and are checked by TLAPS.  Proofs of components that meet in the code share a
module.  The last part of this section says what is only model-checked.

**Inductions.** The library's induction theorems take an operator as a parameter, which the
provers cannot instantiate.  `LeastNumber` and `SetInduction` say the same of a set of
numbers; `Recursion` says that a function exists with a given first value in which each
value follows from the one before, when the step is given as a function.  What the
proofs below say about recursive functions and about the shortest or first of something
rests on these three.  From them follow the facts about data that several proofs share: a
finite set listed in an order (`RankedLists`, and `PlacesList` for a list made of places in
it), the first of finitely many (`FirstExists`), sequences of sequences put together
(`FlattenFacts`), and folds.  The community modules fold over a set of places, the highest
last; `FoldMade` says that the function they choose exists, `FoldFollows` that a fold whose
steps stay within a set ends in it, `FoldReaches` the same of a set for each step.

**NativeProofs.** `WorkspaceInvariant` proves
`Inv == TypeOK /\ Bounded /\ AnswerNeedsVerification /\ SelectedDistinct`. None of the
parts is inductive alone: insertion keeps the capacity only because the domain is a finite
set of ids (`EntityFinite`, `InsertKeepsCapacity`), eviction needs that a lowest-ranked
candidate exists (`WorstExists`, from `LargestExists` and `SmallestExists`), and ANSWER's
support needs the flags that PLAN and VERIFY set. One lemma per group of actions
(`UnionInv`, `ExecuteInv`, `RefuseInv`) proves the step; `TypeCorrect`,
`CapacityRespected`, `AnswerVerified` follow, and `TerminalFinal`, an
action property, from the same case split: after a disposition no action is legal, so an
`Execute` is impossible, a refused action is only counted, and a union, which tests no
disposition, still changes candidates but nothing the disposition was given over.

`StreamingIsReference`: the union that evicts while it streams holds at every entry what the
reference would make of the entries before it, which makes the whole union first and caps it
once; so a batch refused at an id of zero leaves neither more nor less.  The argument is about the first
`M` of a set in a strict order, `Top(D, B, M)`, the order given as its set of pairs.  When
one more arrives, it stays out if it is behind the last of a full top, and takes that one's
place otherwise (`TopUnchanged`, `TopReplaced`), and who was left out stays out
(`OutStaysOut`); so capping after each entry is the same as capping at the end.
`candidate_before` is such an order on the ids of one map (`RankOrder`), and `RefCap` keeps
its top.  The invariant of the loop, `StreamOk`, is that the candidates are the capped union
of what the batch has offered so far (`Processed`), the property itself.  The condition of the property
(`Separate`) enters where an offered id was already known: only then could the order of a
known candidate change after others were compared with it, and then nothing is capped
(`RoomForAll`).

`StagnatedIffStuck` speaks of the past records, of which the progress code
keeps only the last.  The invariant `ProgressInv` relates the two: the cycle counter says
how far back the records repeat without progress (`Remembered`), and every counter of the C
structure equals the Python one as long as no counter left its range (`Agreed`).
`StagnationExact` and `AgreementWithinRange` follow for every width and limit.

**CognitiveGraphProofs.** The invariant speaks of all three graphs the caller holds, as a
rollback makes an older one current. `DeadlockedNeverSatisfied` is not inductive over
statuses alone: a satisfied dependency may later be reopened or fail, and what depends on it
stays satisfied. The graph therefore carries the history `ever`, the obligations that were
satisfied at some time, and `Inv` states that each of them had all its dependencies in
`ever` already; hence no obligation on a cycle, or behind an undefined id, ever enters it.
`ever` is a history variable: no guard reads it. `GraphInvariant` proves `Inv` with a lemma
per operation; `DeadlockBlocksHalt` and `ProgressCovered` follow. The latter speaks of the
last recorded graph and of the one a rollback returns to: after a rollback the graph holds
less than was counted, and what is added again is counted again, so the counters bound the
holdings only from above. It needs that each delta is at least the real growth
(`GainedCovers`) although it is clamped at zero, and that a record keeps what covered the
graph put aside (`RecordCovers`).  `CountersHoldOnRollback`: a rollback makes an older graph
current, whose own counters are behind, but the record takes those of the last record
(`PriorOf`).

`RecoveryExactlyAfterStagnation` and `RepeatsAlwaysMatchWindow` compare counters with
windows that have been cut.  `StagnationInv` says where in the window of past records the
last record with progress is, and that the counter and the window agree also when it has
slid out of the window; `WindowsInv` that the repeats visible in a window of
actions are at most the counted ones, and all of them while nothing was cut.  Counting in a
suffix is done by an injection from its places to those of the whole sequence.

**AgentServiceProofs.** The invariant `IInv` has two parts.  `SessionInv` is what every
session satisfies, on disk or in a thread: its windows are within their caps, turn numbers
ascend by at most one (`WindowInv`), the plan's evidence is among the handles kept
(`PlanRetained`), a pending question has the unresolved entities as its choices
(`PendingInv`), and the last resolved entity is the last binding (`ReferentInv`).
`AcceptInv` and `RecordAnswerInv` prove that each case of the conversation engine and the
recording of an answer preserve it; what they need of a cut window is proved once
(`LastNSuffix`, `AppendTurn`).  `ThreadInv` says what a request holds at each of its control
points.  `AlwaysReloadable`, `TurnsAlwaysConsecutive`, `PlanEvidenceAlwaysRetained`,
`PendingAlwaysUnresolved` and `ReferentAlwaysLastBinding` follow from it for every
interleaving and crash.  A second invariant, `HistoryInv`, relates the stored session and
every copy a thread holds to the history `beside`: each copy contains what every request that
ran alone and was answered is owed, because such a request had returned before the thread that
holds the copy arrived, so the copy was loaded after it.  A save of any copy therefore keeps
it, which is `AloneAlwaysKept`.  The same invariant says that the window a thread is about to
answer into ends with its own turn or with one of a request beside it
(`AnswersAlwaysAttributed`), and that only another request beside it can have cleared the
choices a clarification stored (`ChoicesLostOnlyBeside`, the counterpart of the run
`agent_clarify`: overlapping is the only way to lose the choices).

**ControllerProofs.** Of the micro-operations, `MachineInv` has a part per register.
`SelectionInv`: the selected claims are active, eligible, distinct and no more than there is
room for, and nothing rejected is active.  `BoundInv`: what is bound was selected, all of it
at once in a comparison.  `DerivedInv`: a derived direction is that of the numbers bound.
`PlanInv`: a plan is the bound claims, or the first selected one.  `VerdictInv`: the verifier
ran at most once, on the plan and direction there are now, and an answer is that plan.
Each is preserved because the menu keeps out, once a register is filled, the operations that
would change what it was filled from.  `AnswersAreSupported` and `PlansStayWithinSelection`
follow at once; `RejectionsAreExplained` by going through what the verifier compares and
showing that the menu had compared it already; `StuckOnlyAfterCommitting` by naming, for every
other state, an operation that is on the menu.

Of the searches: an exhausted result is closed under successors only if, all along, each
key that follows from an expanded node is visited or still on the heap, in the frontier or in
the level being built, unless a node was dropped; that is the core of `SearchInvariant`,
next to the counters and the fact that recorded terminals were visited.
`ExhaustedSearchIsClosed` and `ReachedAnswerIsSelected` follow for every graph, priority and
configuration.

Of the fuzzy addresses: `UnionIsFaithful` holds although every lookup is cut four times and the
proposals of a channel are made for what it found, not for what exists.  `FuzzyInv` says that
the index asked is one that a catalog compiles to, with evidence of at least one occurrence
for each surface and entity (`CompiledFacts`, `MergedFacts`); that each result proposes exactly
the entities its mentions reach, each at the best score of those and with the evidence of
their records (`IsResult`); and that a union is faithful to the results.  A lookup keeps it
because whatever a channel finds, by grams, deletions, distances or fingerprints, are mentions
of indexed surfaces at fractions (`MatchesFacts`), finitely many, so that a best one exists and
the sorted lists hold all of them (`ScoredOrder`, `ProposalOrder`, `BeforeTotal`).  The union
keeps it because proposals of one entity are one per channel that reaches it, the first that
has a surface counts its evidence (`UnitedFacts`), and its order is by agreement, score and
title, in which no two entities tie (`UnitedOrder`, `UnionOfFaithful`).
`FuzzyAssumption` is what the records' validation checks, and that caps are positive.

**ReviewJournalProofs.** The properties speak of lines, entries and chains that the readers
parse out of a file of pieces, so most of the module says how a file is read:
what is read of a file that grew (`GrownInto`) begins with what was read before, and an
entry whose first half is on an ended line is an entry of every journal that verifies.
`ThreadOk` has a part per kind of thread: the lock has one holder, no two threads
write the same entry (`ByOne`), a writer between two of its steps has written exactly so
much at the end of the file (`WriterOk`), and what a reader saw came from a file that has
since grown into this one (`ReaderOk`).  `AckedOk` says where the entries acknowledged so
far are: their first halves are in ended lines that are on disk, in the order in which they
were acknowledged.  `CleanOk` says that a file nothing has damaged consists of whole,
chained lines; after a death or a failed write nothing can be said of the contents of a line.
`LossNeverSilent` and `ReadsAlwaysGrow` hold under damage too, `JournalAlwaysReadable`
says when there is none, for every number of workers, requests and deaths.

**CorpusProofs.** `ActivatedIsComplete` needs what a clean `.part` may hold while a request
is running, and `FailureExplained` that each failed attempt was paid for by a mishap of the
server and that a pack without a manifest was left by an interruption; `CorpusInvariant`
states these per place in the script.

The budget of a traversal holds at every row only because the rows still to consume are
without repetition and disjoint from what was read (`RowsFresh`) and because a round that
follows links starts with a step to spare (`StepsFit`); `QueryWithinBudget` follows from
`TraversalInvariant` for every corpus, question and budget.

`GapAlwaysReal` rests on two facts.  `ReachClosed`: the documents reached in as many rounds as
there are links are closed under links, since a round that adds a document follows a link
that no round before it could follow.  `GapInv`: what a query has opened lies within reach, and
the chunks of an opened document are read or among the rows, unless the chunk limit cut the
fetch.  A query that stops looking while every budget has room has found all targets of links
visited, so what it visited is closed and contains the reach (`NothingLeft`).  The exception
is in the code: `linked_documents` counts documents already visited against its limit, and as
many of them as there are places left may stand before one that is unread (`Crowded`).
`NothingLeft` shows that nothing else can hide one: if an unread target of a link is missing
from the documents looked up, the places went to visited ones linked to at least as often.

`MergedAlwaysAsSerial` compares two folds: the parallel build's over the pages of each range,
the serial one over all.  `RowsOf` is that fold, which the provers can only reason about after
`RowsStep` (one page more) is shown from its definition and `AppendInduction` gives them
induction over sequences; `RowsJoined` then says that the tables of two parts joined are those
of the whole.  The ranges fit together (`Edges`, `Parts`: they begin at 0, end at the limit
and never run backwards, whatever the rounding).  `ShardInv` says that each worker has collected
what its range gives up to its next page, that a shard of a worker that is done is what the
worker collected, and that the output holds what the serial ingestion makes of the shards merged
so far.  At the end the serial steps read the same tables and the same lists, so they have
the same outcomes; `At`, the serial ingestion with its tables and lists as parameters,
is what lets that be said (`MergeIsAt`, `SerialIsAt`).

`IngestAlwaysComplete` needs to say where a run is when others may have died before it.
`StoreInv`: the store holds the tables of the first n pages, and a run that reads is at
most one page past them, so a page that is present is one of these and a page that is not is
the next (`PresentIs`); or an earlier run has finished, and then everything is present, this
run collects nothing, and its last steps change no alias and no link that is settled
(`Again`, `NothingToFold`).  The other half is about redirects: `Way` follows titles in the
dump, `Resolve` follows documents in the store through what the run remembers.
`WayExists` and `HopExists` unfold both recursions, `PageNamed` says that a title picks the same
page in both, and `ResolveLeads` that the hops are the documents of the way when the run has
read all of it; the stub's own alias is gone because nothing can resolve to a document that
redirects (`StubUnnamed`).  `StoreAssumption` states what this takes of a dump: pages have
different document ids, and chunks different ids, as hashes over what they are made of give
them; an anchor differs from the title it stands for, which the code checks.  Without it the
property fails for a reason outside the code: two pages of one id are one row.

**PackProofs.** `RegistryInvariant` says of the registry's file, and of all that a
power cut may leave in its place, that it is whole and synced with one pack per namespace,
and of each command under way that what it is about to publish is what it made of the state
it read.  `RegistryImplementsActiveSet` shows with it that every step is a step of
`ActiveSet` or none: the replacement is the abstract command, the directory's sync what makes
it final, and a death or a power cut falls back to one of the states still possible.

Of the page cache: that no page has two slots and no two slots share a tick is preserved only
if every tick in use is at most the clock, the victim is found (`Lowest` of a finite set is
in it), and the slots outside the victim are untouched; `PagerInvariant` carries these with
the field types, and `PagerIsConsistent` follows for every cache size, page content and
pattern of failing reads.  `PagerImplementsReference` is the refinement: the slots in
the order of their ticks are the host's dictionary.  The order is found by a `CHOOSE`, so the
proof shows that there is such an order and only one (`OrderUnique`), carries its existence
in the invariant, and says of a hit, a miss and a failed read which order follows
(`MovedOrdered`, `AddedOrdered`); that these are the dictionary's `move_to_end`,
`popitem` and insertion is then about sequences alone.

`AnswersAreTheHosts` is about the address query over that cache, end to end: whatever the
pack, the cache and the failing reads of other pages, an answer is the one the host exports.
The invariant `AnswerInv` says so of a query under way, unless a read of an evidence page has
failed or the query has.  Every slot in use holds the bytes of its page (`ExactSlots`): a
failed read of another page may tear a slot, but ends the query, and the run with it.  And the
query is on its way (`QueryOk`), which differs by stage:

* *Postings* (`PostingsOk`): each id has been gathered as often as it occurs at the places of
  the query's lists that no request is left for.  The lists are cut at page borders, so the
  proof shows that offsets leave no gap (`OffsetNext`, `PostingIdsFacts`), that each place of a
  list is on the words of exactly one request (`SpotsOfList`, `RequestsApart`) and that the page
  the builder laid out has the list's ids there (`IndexWords`, `WordOnPage`).  When none is
  left, an id has been gathered once per gram it shares with the query (`OverlapCounts`).
* *Surfaces* (`SurfacesOk`): the entities of the surfaces still to look up, joined with those
  found, are the host's.  That the surfaces are the host's top ones is `TopIsHost`: after any
  number of insertions the list is in strict order, and whoever is not in it is behind
  everyone in a full one (`Best`), so who is in it has fewer than `TopK` others ahead.
* *Evidence* (`EvidenceOk`, `SearchOk`): what has been counted and what the entities left
  contribute add up to the host's total, and the entity searched for is between the bounds
  of the binary search if it is in the directory at all, which is in strict order.

Folds, sums and flattened sequences are recursive functions, of which the provers see nothing
by themselves; `SumOf`, `FlattenFacts` and `TopIsFold` give their unfoldings, from
`Inductions`.  `EdgePackAssumption` is what the host gives: finitely many surfaces and entities
with evidence, each entity with at least one occurrence, page contents as built.

**Only model-checked.** Liveness (`EpisodeEnds`, `ServiceDrains`, `ReviewsDrain`), because
the prover has no fairness reasoning here.  `LookupExact` and `LookupFaithful`, which compare
a walk over encoded tables, or the postings of hashes and deletions, with what the input adds
up to: that needs what the encodings compute for every text, an induction over data.  The
type invariants of `NativeWorkspace` and `CognitiveGraph`, `TerminalIsFinal`,
`ReferentIsLastBinding` and `RepeatsMatchWindow` are proved and not run.

## 5. What disagreed with its documentation

* `ac_union_candidates_v1` evicts while it streams, so a workspace candidate that is evicted
  and offered again in one batch loses its score and evidence. The header promises a union
  followed by one cap (`native_union`).
* A plan verified before a later selection or union keeps ANSWER legal although a selected
  entity may have left the workspace (`native_answer`).
* `tactility_handler` re-reads the clarification from the store after `query` returned; an
  overlapping request may have cleared it (`agent_clarify`).
* `add_obligation` does not keep the referential closure its docstring names
  (`cognitive_closure`).
* `repeated_action_count` wraps in C and saturates in the reference it is said to match bit
  for bit (`native_progress_bits`).
* `pager_page` reads into the victim slot before it gives up the slot's old page; when the
  read fails, the slot serves the old page's number over mixed bytes (`edge_torn`).

* Two commands on the deployment registry write one temporary file, so the index may be
  replaced by a file another command has just emptied (`registry_overlap`).
* The parallel ingestion hashes its semantic keys with BLAKE2b, the serial one it says it
  reproduces bit for bit with BLAKE2s (`shard_keys`).

Met while modelling, without a run of their own:

* *Review journal.* `ensure_ascii=False` lets U+2028 and U+0085 through, and `splitlines`
  breaks lines there; a line cut by a death is glued to the next append.  Either makes
  `entries` raise from then on; the properties say that nothing is lost silently.
* *Search.* The beam's `exhausted` is set when the last frontier empties, also after
  candidates were dropped at its width; `ExhaustedMeansClosed` excludes dropped nodes.
* *Corpus.* A `.part` of full size with wrong bytes is never discarded, so every later run
  fails on it.  Nothing is fsynced before `os.replace`.  A pack whose script died before
  the manifest refuses to be rebuilt.  Nothing keeps two runs of a script apart.
* *Ingestion.* Redirects and anchors of pages that an earlier, dead run had committed are
  never folded, and `corpus_meta` counts the last run only.  `lower()` in the `UPDATE` of
  links is ASCII-only, while aliases are casefolded.
* *Traversal.* `linked_documents` spends its limit on documents already visited, so a query
  may give up with budget left: TLC finds it with three documents and a budget of three when
  `Crowded` is dropped from `GapIsReal`.  Linked documents without
  chunks keep the loop turning until `max_steps`.  `"rank" in row` tests the values of an
  `sqlite3.Row`, so the rank is always 0.  `BUDGET_EXHAUSTED` is only reported when the
  bytes read meet the budget exactly, and up to `max(3, max_steps) + 1` operations are made.
* *Pack registries.* Neither locks its file: of two overlapping commands the later one puts
  back what the earlier one changed, and a generation number may repeat.  The deployment
  registry syncs nothing.
* *Parallel ingestion.* `--limit 0` means one page to the serial ingestion and none to the
  parallel one.
* *Fuzzy union.* A channel's proposal carries the evidence of all surfaces it found, under
  the name of its best one.  The union keeps one proposal per such name, that of the
  alphabetically first channel, so its count may fall below that of one of its own channels;
  and a count that is only a lower bound is labelled complete when it happens to equal the
  number of known ids.

## 6. Not modelled

The models cover the state machines; most of the code is something else, which is why the
share of mapped lines stays small (about one line in twelve):

* Numerical parts: the int8 policy, rankers, quantization, evaluation and training.
* Text parts: parsing, framing, linking, realization. `AgentService`, `MicroOps`, `Search`
  and `Traversal` take their outcomes as inputs.
* Batch work without states to speak of: substrate, evidence extraction, selection, images,
  about 150 one-off scripts and their reports.
* Of the modelled components: `pager_reset` and `pager_stats_reset` (never called), SD
  mounting and pack verification; `materialize_human_gold`; page parsing, chunking and the
  SQLite schema of the pack; `fold_redirects=False` and the `limit` of an ingestion;
  `record_task_state`.
* Two of the 34 micro-operations, NORMALIZE_QUANTITY and BUILD_VERIFICATION_PLAN, need a
  selected claim or a plan, and the menu offers neither then.
* Of the address indexes: the extraction of the evidence, the bundle around several indexes
  and the vector search; the serialized form of the fuzzy index, the costs it reports and
  the learned fusion of channels (`address_fusion.py`).
* Not yet: the tool plane and five-C checks, the observer's store, specialist gating.

## 7. Plan

1. Proofs of what is only model-checked: `LookupExact` and the two properties of the fuzzy
   index, by inductions over the encoded tables.
2. `ToolPlane`: authorizations bound to a constraint set (`five_c.py`, `agent/tools.py`);
   overlap of authorization, change and use.
3. `ObserverStore`: the sampler marks a route before the event is written.
