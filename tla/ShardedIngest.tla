--------------------------- MODULE ShardedIngest ---------------------------
(***************************************************************************)
(* The parallel ingestion of a dump (scripts/droid/v09_parallel_ingest.py):*)
(* worker processes read disjoint ranges of its pages and write a shard    *)
(* each; the command merges the shards in order and finishes with the     *)
(* serial steps of CorpusStore, whose pages and rows these are.            *)
(*                                                                         *)
(* A semantic key is the hash of a chunk's words; as the id of a chunk     *)
(* determines its words, the key is the name of the hash and the id.       *)
(***************************************************************************)
EXTENDS CorpusStore, SequencesExt

CONSTANTS
  WorkerCounts,  \* values of --workers
  Limits,        \* values of --limit; without one it is the number of pages
  MaxCrashes     \* model bound

ASSUME ShardAssumption ==
  WorkerCounts \subseteq Nat \ {0} /\ Limits \subseteq Nat \ {0} /\ MaxCrashes \in Nat

VARIABLES
  ingest,    \* the running command: where it is, its limit, the shards it merged
  worker,    \* its workers, by their index
  shards,    \* the shard files, by the index of their worker
  merged,    \* the output file
  crashes    \* commands that died

shardVars == <<ingest, worker, shards, merged, crashes>>

NoFile == "none"
CutShort == "cut short"

Command(place) == [at |-> place, limit |-> 0, taken |-> 0]
NothingRead == [rows |-> EmptyStore, redirects |-> {}, anchors |-> {}, articles |-> 0]
EmptyOutput == [rows |-> EmptyStore, semantic |-> <<>>, articles |-> 0]

ShardInit ==
  /\ ingest = Command("idle") /\ worker = <<>>
  /\ shards = <<>> /\ merged = NoFile
  /\ crashes = 0

----------------------------------------------------------------------------
(* main: the ranges of n workers, pages counted from 0.                     *)
EqualBounds(limit, n) ==                         \* mutant: the rest is lost
  [i \in 0 .. n - 1 |-> [from |-> i * (limit \div n), to |-> (i + 1) * (limit \div n)]]
Bounds(limit, n) ==
  [i \in 0 .. n - 1 |-> [from |-> (i * limit) \div n, to |-> ((i + 1) * limit) \div n]]

StartWorkers ==
  /\ ingest.at = "idle"
  /\ \E limit \in Limits \cup {Len(dump)}, asked \in WorkerCounts :
       LET bounds == Bounds(limit, Max({1, Min({asked, limit})}))
       IN  /\ ingest' = [Command("working") EXCEPT !.limit = limit]
           /\ worker' = [i \in DOMAIN bounds |->
                [at |-> "reading", next |-> bounds[i].from, to |-> bounds[i].to,
                 found |-> NothingRead]]
  /\ UNCHANGED <<shards, merged, crashes>>

(* process_range: page after page into memory, then one transaction on a    *)
(* file it first removes.                                                   *)
MorePages(w) == w.next < w.to /\ w.next < Len(dump)

ReadPage(i) ==
  /\ worker[i].at = "reading" /\ MorePages(worker[i])
  /\ LET page == dump[worker[i].next + 1]
     IN  worker' = [worker EXCEPT ![i].next = @ + 1, ![i].found =
           [rows |-> AddPage(@.rows, page),
            redirects |-> IF page.redirect = NoTitle THEN @.redirects
                          ELSE @.redirects \cup {page},
            anchors |-> @.anchors \cup page.anchors,
            articles |-> @.articles + 1]]
  /\ UNCHANGED <<ingest, shards, merged, crashes>>

FileSet(files, i, content) ==
  [j \in DOMAIN files \cup {i} |-> IF j = i THEN content ELSE files[j]]

OpenShard(i) ==
  /\ worker[i].at = "reading" /\ ~MorePages(worker[i])
  /\ worker' = [worker EXCEPT ![i].at = "writing"]
  /\ shards' = FileSet(shards, i, CutShort)
  /\ UNCHANGED <<ingest, merged, crashes>>

CommitShard(i) ==
  /\ worker[i].at = "writing"
  /\ worker' = [worker EXCEPT ![i].at = "done"]
  /\ shards' = FileSet(shards, i, worker[i].found)
  /\ UNCHANGED <<ingest, merged, crashes>>

(* merge_shards: an empty output, the tables of one shard after the other.  *)
StartMerge ==
  /\ ingest.at = "working" /\ \A i \in DOMAIN worker : worker[i].at = "done"
  /\ ingest' = [ingest EXCEPT !.at = "merging"]
  /\ merged' = EmptyOutput
  /\ UNCHANGED <<worker, shards, crashes>>

SemanticKeys(hash, chunks) == [c \in chunks |-> <<hash, c>>]

MergeShard ==
  /\ ingest.at = "merging" /\ ingest.taken < Cardinality(DOMAIN worker)
  /\ LET shard == shards[ingest.taken]
         rows == merged.rows
     IN  merged' =
           [rows |-> [documents |-> rows.documents \o shard.rows.documents,
                      chunks |-> rows.chunks \cup shard.rows.chunks,
                      fts |-> rows.fts \o shard.rows.fts,
                      aliases |-> rows.aliases \cup shard.rows.aliases,
                      links |-> rows.links \cup shard.rows.links],
            semantic |-> SemanticKeys("blake2b", rows.chunks \cup shard.rows.chunks),
            articles |-> merged.articles + worker[ingest.taken].found.articles]
  /\ ingest' = [ingest EXCEPT !.taken = @ + 1]
  /\ UNCHANGED <<worker, shards, crashes>>

(* The serial steps over the merged tables, with the redirects and anchors  *)
(* of all the shards.                                                       *)
AllOf(lists) == UNION {lists[i] : i \in DOMAIN worker}
Merge == INSTANCE CorpusStore WITH
  store <- merged.rows,
  intake <- [redirects |-> AllOf([i \in DOMAIN worker |-> shards[i].redirects]),
             anchors |-> AllOf([i \in DOMAIN worker |-> shards[i].anchors])]

FinishMerge ==
  /\ ingest.at = "merging" /\ ingest.taken = Cardinality(DOMAIN worker)
  /\ LET aliases == Merge!FoldedAliases \cup Merge!AnchorAliases
     IN  \E names \in Merge!Naming(aliases) :
           merged' = [merged EXCEPT !.rows.aliases = aliases,
                        !.rows.links = {[l EXCEPT !.to = names[l.title]] : l \in @}]
  /\ ingest' = [ingest EXCEPT !.at = "returned"]
  /\ UNCHANGED <<worker, shards, crashes>>

(* The command or one of its workers dies, which breaks the pool.  The      *)
(* output is written without a journal.                                     *)
BuildDies ==
  /\ ingest.at \in {"working", "merging"} /\ crashes < MaxCrashes
  /\ crashes' = crashes + 1
  /\ ingest' = Command("idle") /\ worker' = <<>>
  /\ merged' = IF ingest.at = "merging" THEN CutShort ELSE merged
  /\ UNCHANGED shards

ShardsRest == ingest.at = "returned" /\ UNCHANGED shardVars

ShardNext ==
  \/ StartWorkers
  \/ \E i \in DOMAIN worker :
       ingest.at = "working" /\ (ReadPage(i) \/ OpenShard(i) \/ CommitShard(i))
  \/ StartMerge \/ MergeShard \/ FinishMerge \/ BuildDies \/ ShardsRest

ShardSpec ==
  /\ dump \in Dumps /\ StoreStart /\ ShardInit
  /\ [][ShardNext /\ UNCHANGED storeVars]_<<shardVars, storeVars>>

----------------------------------------------------------------------------
(* What the serial ingestion of the same pages holds and has collected      *)
(* before its last step.                                                    *)
SerialPages == SubSeq(dump, 1, Min({ingest.limit, Len(dump)}))
SerialRows == FoldLeft(AddPage, EmptyStore, SerialPages)
Serial == INSTANCE CorpusStore WITH
  store <- SerialRows,
  intake <- [redirects |-> {p \in Range(SerialPages) : p.redirect # NoTitle},
             anchors |-> UNION {p.anchors : p \in Range(SerialPages)}]

(* However many workers there are, wherever their ranges end, whatever      *)
(* order they finish in and whatever commands died before left behind, a    *)
(* build that returned holds the rows of the serial ingestion in its order, *)
(* with its aliases and a choice of link targets it might have made         *)
(* (v09_parallel_ingest.py:4, "bit-identity with the serial"), semantic     *)
(* keys apart.                                                              *)
MergedAsSerial ==
  ingest.at = "returned" =>
    LET aliases == Serial!FoldedAliases \cup Serial!AnchorAliases
    IN  /\ merged.articles = Len(SerialPages)
        /\ \E names \in Serial!Naming(aliases) :
             merged.rows = [SerialRows EXCEPT !.aliases = aliases,
                              !.links = {[l EXCEPT !.to = names[l.title]] : l \in @}]

(* The semantic keys are the serial ones too (v09_parallel_ingest.py:4 and  *)
(* :14, "row content AND insertion order match serial").                    *)
SemanticKeysAsSerial ==
  ingest.at = "returned" =>
    merged.semantic = SemanticKeys("blake2s", SerialRows.chunks)
=============================================================================
