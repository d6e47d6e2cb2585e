----------------------------- MODULE MCSingles ------------------------------
(***************************************************************************)
(* Ten state machines that share no state and wait for nobody: the         *)
(* micro-operations, the searches over their graphs, the acquisition of    *)
(* the corpus, the ingestion of a dump in one process and in several, the  *)
(* traversal of what it stored, the pack reader of the firmware, the       *)
(* registry of active packs, the index of addresses and the fuzzy one.     *)
(* The first state says which one moves while the others keep an initial   *)
(* state, so the run explores the sum of their states and not the product. *)
(***************************************************************************)
EXTENDS MCMicroOps, MCSearch, Corpus, MCCorpusStore,
        MCShardedIngest, MCTraversal, MCEdgePack, MCPackRegistry, MCAddressIndex,
        MCFuzzyAddress

VARIABLE working
singlesVars ==
  <<machineVars, searchVars, corpusVars, storeVars, shardVars,
    traversalVars, packVars, registryVars, addressVars, fuzzyVars, working>>

(* Whoever does not work keeps one of its initial states.                   *)
ASSUME Problems # {} /\ Cases # {} /\ Dumps # {} /\ Questions # {}
AnyProblem == CHOOSE p \in Problems : TRUE
AnyCase == CHOOSE c \in Cases : TRUE
AnyDump == CHOOSE d \in Dumps : TRUE
AnyQuestion == CHOOSE q \in Questions : TRUE

SinglesInit ==
  /\ working \in {"machine", "search", "corpus", "store", "shards",
                 "traversal", "pack", "registry", "addresses", "fuzzy"}
  /\ IF working = "machine" THEN case \in Cases ELSE case = AnyCase
  /\ IF working = "search" THEN problem \in Problems ELSE problem = AnyProblem
  /\ IF working = "store" THEN dump \in Dumps
     ELSE IF working = "shards" THEN dump \in MCShardDumps ELSE dump = AnyDump
  /\ IF working = "traversal" THEN question \in Questions ELSE question = AnyQuestion
  /\ MachineInit /\ SearchStart /\ CorpusInit /\ StoreStart /\ ShardInit
  /\ TraversalStart /\ PackInit /\ RegistryInit /\ AddressInit
  /\ FuzzyInit
  /\ working # "pack" => slots = <<>>

(* The others rest while one moves.                                         *)
OthersRest ==
  /\ working # "machine" => UNCHANGED machineVars
  /\ working # "search" => UNCHANGED searchVars
  /\ working # "corpus" => UNCHANGED corpusVars
  /\ working # "store" => UNCHANGED storeVars
  /\ working # "shards" => UNCHANGED shardVars
  /\ working # "traversal" => UNCHANGED traversalVars
  /\ working # "pack" => UNCHANGED packVars
  /\ working # "registry" => UNCHANGED registryVars
  /\ working # "addresses" => UNCHANGED addressVars
  /\ working # "fuzzy" => UNCHANGED fuzzyVars

SinglesNext ==
  /\ UNCHANGED working /\ OthersRest
  /\ \/ working = "machine" /\ MachineNext
     \/ working = "search" /\ SearchNext
     \/ working = "corpus" /\ CorpusNext
     \/ working = "store" /\ StoreNext
     \/ working = "shards" /\ ShardNext
     \/ working = "traversal" /\ TraversalNext
     \/ working = "pack" /\ PackNext
     \/ working = "registry" /\ RegistryNext
     \/ working = "addresses" /\ AddressNext
     \/ working = "fuzzy" /\ FuzzyNext

SinglesSpec == SinglesInit /\ [][SinglesNext]_singlesVars
=============================================================================
