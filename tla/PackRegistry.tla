---------------------------- MODULE PackRegistry ----------------------------
(***************************************************************************)
(* PackRegistry of edge_runtime/packs.py: the file active-packs.json and   *)
(* the steps of activate and deactivate.  Nothing keeps two users of one   *)
(* root apart; a command may raise or its process may die at any step, and *)
(* the power may be cut.                                                   *)
(*                                                                         *)
(* A file is its text and whether fsync was called on it.  The name        *)
(* active-packs.json refers to one file; until the directory is synced, a  *)
(* power cut may leave the name at an earlier one, and a file that was not *)
(* synced may come back torn.  The temporary has a random name (mkstemp)   *)
(* and nobody else opens it.  The root directory exists.                   *)
(***************************************************************************)
EXTENDS Integers, FiniteSets

CONSTANTS
  User,          \* processes or threads that use one root
  Pack,          \* pack directories, each with its manifest
  Namespace,
  NamespaceOf,   \* pack -> source_namespace
  NoPack,
  Sound,         \* packs that validate_pack_directory accepts
  MaxCommands    \* model bound: commands begun

ASSUME RegistryAssumption ==
  /\ NamespaceOf \in [Pack -> Namespace]
  /\ NoPack \notin Pack
  /\ Sound \subseteq Pack
  /\ MaxCommands \in Nat

VARIABLES
  registry,      \* the file that active-packs.json names
  survivors,     \* the files it may name after a power cut
  command,       \* user -> its command
  begun          \* commands begun

registryVars == <<registry, survivors, command, begun>>

State == [generation : Nat, packs : SUBSET Pack]
Torn == [torn |-> TRUE]
NoState == [generation |-> 0, packs |-> {}]

File(text, synced) == [text |-> text, synced |-> synced]
AfterCut(file) == IF file.synced THEN {file} ELSE {file, File(Torn, TRUE)}

Resting == [at |-> "resting", does |-> "activate", pack |-> NoPack,
            seen |-> NoState, new |-> NoState, synced |-> FALSE]

Reached(u, place) == command[u].at = place
Proceeds(u, place) == command' = [command EXCEPT ![u].at = place]

(* No file reads as generation 0 with no packs.                             *)
RegistryInit ==
  /\ registry = File(NoState, TRUE) /\ survivors = {registry}
  /\ command = [u \in User |-> Resting]
  /\ begun = 0

----------------------------------------------------------------------------
CallCommand(u) ==
  /\ Reached(u, "resting") /\ begun < MaxCommands
  /\ \E p \in Pack, does \in {"activate", "deactivate"} :
        command' = [command EXCEPT ![u] =
          [Resting EXCEPT !.at = "called", !.does = does, !.pack = p]]
  /\ begun' = begun + 1
  /\ UNCHANGED <<registry, survivors>>

(* The state that a command computes from the one it read: activate drops   *)
(* the entries of the pack's namespace, deactivate the entry of the pack.   *)
Activated(seen, p) ==
  {q \in seen.packs : NamespaceOf[q] # NamespaceOf[p]} \cup {p}

Replacement(seen, does, p) ==
  [generation |-> seen.generation + 1,
   packs |-> IF does = "activate" THEN Activated(seen, p) ELSE seen.packs \ {p}]

(* validate_pack_directory, read, and the computation of the new state.     *)
MayProceed(does, p) ==
  /\ registry.text # Torn
  /\ IF does = "activate" THEN p \in Sound ELSE p \in registry.text.packs

ReadRegistry(u) ==
  /\ Reached(u, "called") /\ MayProceed(command[u].does, command[u].pack)
  /\ LET seen == registry.text
         new == Replacement(seen, command[u].does, command[u].pack)
     IN  command' = [command EXCEPT ![u].at = "read", ![u].seen = seen,
                                    ![u].new = new]
  /\ UNCHANGED <<registry, survivors, begun>>

RefuseCommand(u) ==
  /\ Reached(u, "called") /\ ~MayProceed(command[u].does, command[u].pack)
  /\ command' = [command EXCEPT ![u] = Resting]
  /\ UNCHANGED <<registry, survivors, begun>>

(* mkstemp, write, flush; fsync of the temporary; os.replace; fsync of the  *)
(* directory, which settles whatever the name refers to by then.            *)
WriteTemporary(u) ==
  /\ Reached(u, "read") /\ Proceeds(u, "written")
  /\ UNCHANGED <<registry, survivors, begun>>

SyncNothing(u) ==                                \* mutant: no fsync
  /\ Reached(u, "written") /\ Proceeds(u, "synced")
  /\ UNCHANGED <<registry, survivors, begun>>
SyncTemporary(u) ==
  /\ Reached(u, "written")
  /\ command' = [command EXCEPT ![u].at = "synced", ![u].synced = TRUE]
  /\ UNCHANGED <<registry, survivors, begun>>

ReplaceState(u) ==
  /\ Reached(u, "synced") /\ Proceeds(u, "replaced")
  /\ registry' = File(command[u].new, command[u].synced)
  /\ survivors' = survivors \cup AfterCut(registry')
  /\ UNCHANGED begun

SyncDirectory(u) ==
  /\ Reached(u, "replaced") /\ Proceeds(u, "settled")
  /\ survivors' = AfterCut(registry)
  /\ UNCHANGED <<registry, begun>>

ReturnState(u) ==
  /\ Reached(u, "settled")
  /\ command' = [command EXCEPT ![u] = Resting]
  /\ UNCHANGED <<registry, survivors, begun>>

(* Any call may raise, or the process die: the finally clause, or nobody,   *)
(* removes the temporary; what was replaced stays replaced.                 *)
CommandDies(u) ==
  /\ ~Reached(u, "resting")
  /\ command' = [command EXCEPT ![u] = Resting]
  /\ UNCHANGED <<registry, survivors, begun>>

CutPower ==
  /\ registry' \in survivors /\ survivors' = {registry'}
  /\ command' = [u \in User |-> Resting]
  /\ UNCHANGED begun

RegistryRests ==
  /\ begun = MaxCommands /\ \A u \in User : Reached(u, "resting")
  /\ UNCHANGED registryVars

RegistryNext ==
  \/ \E u \in User :
        \/ CallCommand(u) \/ ReadRegistry(u) \/ RefuseCommand(u)
        \/ WriteTemporary(u) \/ SyncTemporary(u) \/ ReplaceState(u)
        \/ SyncDirectory(u) \/ ReturnState(u) \/ CommandDies(u)
  \/ CutPower \/ RegistryRests

RegistrySpec == RegistryInit /\ [][RegistryNext]_registryVars

----------------------------------------------------------------------------
(* The refinement mapping: the list of packs as a function of namespaces.   *)
PackOf(packs, n) ==
  IF \E p \in packs : NamespaceOf[p] = n
  THEN CHOOSE p \in packs : NamespaceOf[p] = n ELSE NoPack

Viewed(text) ==
  IF text = Torn THEN Torn
  ELSE [generation |-> text.generation,
        packs |-> [n \in Namespace |-> PackOf(text.packs, n)]]

StageOf(place) ==
  CASE place \in {"read", "written", "synced"} -> "looked"
    [] place = "replaced" -> "changed"
    [] place = "settled" -> "settled"
    [] OTHER -> "idle"

NoTask == [stage |-> "idle", does |-> "activate", pack |-> NoPack,
           saw |-> Viewed(NoState)]
Task(c) ==
  IF StageOf(c.at) = "idle" THEN NoTask
  ELSE [stage |-> StageOf(c.at), does |-> c.does, pack |-> c.pack,
        saw |-> Viewed(c.seen)]

Promised == INSTANCE ActiveSet WITH
  active <- Viewed(registry.text),
  kept <- {Viewed(file.text) : file \in survivors},
  task <- [u \in User |-> Task(command[u])]

(* "A small atomic activation record" (packs.py:4): whoever reads the       *)
(* registry, at any time and after any death or power cut, reads a whole    *)
(* set with one pack per namespace that some command made from one it read, *)
(* and a command that returned is not undone by a power cut.                *)
ImplementsActiveSet == Promised!Spec
=============================================================================
