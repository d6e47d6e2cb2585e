------------------------------ MODULE PackProofs ------------------------------
(***************************************************************************)
(* Packs: which of them are active, the cache their pages are read through *)
(* on the device, and the address queries answered from these pages.       *)
(***************************************************************************)
EXTENDS PackRegistry, EdgePack, FiniteSetTheorems, SequenceTheorems, Inductions

----------------------------------------------------------------------------
(* Registry.                                                                *)
(* The registry of active packs implements ActiveSet, for every set of      *)
(* users, packs and namespaces.                                             *)

OnePerNamespace(packs) ==
  \A p, q \in packs : NamespaceOf[p] = NamespaceOf[q] => p = q
Whole == {s \in State : OnePerNamespace(s.packs)}
SyncedFile == {File(s, TRUE) : s \in Whole}

Place == {"resting", "called", "read", "written", "synced", "replaced", "settled"}
CommandType ==
  [at : Place, does : {"activate", "deactivate"}, pack : Pack \cup {NoPack},
   seen : Whole, new : Whole, synced : BOOLEAN]

(* What a command will publish is what it makes of what it read, in a file  *)
(* that is synced before it is given the name.                              *)
Prepared(c) ==
  /\ c.at # "resting" => c.pack \in Pack
  /\ c.at \in {"read", "written", "synced"} =>
       /\ c.new = Replacement(c.seen, c.does, c.pack)
       /\ c.does = "deactivate" => c.pack \in c.seen.packs
  /\ c.at = "synced" => c.synced

RegistryInv ==
  /\ registry \in SyncedFile /\ survivors \subseteq SyncedFile
  /\ command \in [User -> CommandType]
  /\ \A u \in User : Prepared(command[u])

----------------------------------------------------------------------------
(* A torn file is none of the states a registry may hold.                   *)
LEMMA TornIsNoState == Torn \notin State
  BY DEF Torn, State

(* The registry without packs is whole.                                     *)
LEMMA EmptyWhole == NoState \in Whole
  BY DEF Whole, State, NoState, OnePerNamespace

(* A command at rest has nothing to publish.                                *)
LEMMA RestingTyped == Resting \in CommandType /\ Prepared(Resting)
  BY EmptyWhole DEF CommandType, Resting, Place, Prepared

(* What a command makes of a whole state is whole.                          *)
LEMMA ReplacementWhole ==
  ASSUME NEW s \in Whole, NEW p \in Pack, NEW does \in {"activate", "deactivate"}
  PROVE  Replacement(s, does, p) \in Whole
<1>1. s.generation + 1 \in Nat /\ s.packs \subseteq Pack
  BY DEF Whole, State
<1>2. Activated(s, p) \subseteq Pack /\ OnePerNamespace(Activated(s, p))
  BY <1>1 DEF Activated, OnePerNamespace, Whole
<1>3. s.packs \ {p} \subseteq Pack /\ OnePerNamespace(s.packs \ {p})
  BY <1>1 DEF OnePerNamespace, Whole
<1> QED
  BY <1>1, <1>2, <1>3 DEF Replacement, Whole, State

(* PackOf finds the one pack of a namespace.                                *)
LEMMA PackOfOne ==
  ASSUME NEW packs, OnePerNamespace(packs), NEW p \in packs
  PROVE  PackOf(packs, NamespaceOf[p]) = p
  BY DEF PackOf, OnePerNamespace

(* A namespace none of the packs is in has no pack.                         *)
LEMMA PackOfNone ==
  ASSUME NEW packs, NEW n, \A p \in packs : NamespaceOf[p] # n
  PROVE  PackOf(packs, n) = NoPack
  BY DEF PackOf

(* The pack of a namespace depends on the packs of that namespace only.     *)
LEMMA PackOfOthers ==
  ASSUME NEW packs, NEW more, NEW n,
         OnePerNamespace(packs), OnePerNamespace(more),
         \A p : NamespaceOf[p] = n => (p \in packs <=> p \in more)
  PROVE  PackOf(packs, n) = PackOf(more, n)
<1>1. CASE \E p \in packs : NamespaceOf[p] = n
  <2>1. PICK p \in packs : NamespaceOf[p] = n
    BY <1>1
  <2>2. p \in more
    BY <2>1
  <2> QED
    BY <2>1, <2>2, PackOfOne
<1>2. CASE \A p \in packs : NamespaceOf[p] # n
  BY <1>2, PackOfNone
<1> QED
  BY <1>1, <1>2

(* Replacing a state is changing the set that it is viewed as.              *)
LEMMA ViewOfReplacement ==
  ASSUME NEW s \in Whole, NEW p \in Pack, NEW does \in {"activate", "deactivate"},
         does = "deactivate" => p \in s.packs
  PROVE  Viewed(Replacement(s, does, p)) = Promised!Changed(Viewed(s), does, p)
<1> DEFINE new == Replacement(s, does, p)
           m == NamespaceOf[p]
<1>1. new \in Whole /\ s # Torn /\ new # Torn
  BY ReplacementWhole, TornIsNoState DEF Whole
<1>2. OnePerNamespace(s.packs) /\ OnePerNamespace(new.packs)
  BY <1>1 DEF Whole
<1>3. new.generation = s.generation + 1
  BY DEF Replacement
<1>4. ASSUME NEW n \in Namespace, n # m
      PROVE  PackOf(new.packs, n) = PackOf(s.packs, n)
  <2>1. \A q : NamespaceOf[q] = n => (q \in new.packs <=> q \in s.packs)
    BY <1>4 DEF Replacement, Activated
  <2> QED
    BY <2>1, <1>2, PackOfOthers
<1>5. PackOf(new.packs, m) = IF does = "activate" THEN p ELSE NoPack
  <2>1. CASE does = "activate"
    <3>1. p \in new.packs
      BY <2>1 DEF Replacement, Activated
    <3> QED
      BY <3>1, <2>1, <1>2, PackOfOne
  <2>2. CASE does = "deactivate"
    <3>1. new.packs = s.packs \ {p} /\ p \in s.packs
      BY <2>2 DEF Replacement
    <3>2. \A q \in new.packs : NamespaceOf[q] # m
      BY <3>1, <1>2 DEF OnePerNamespace
    <3> QED
      BY <3>2, <2>2, PackOfNone
  <2> QED
    BY <2>1, <2>2
<1>6. m \in Namespace
  BY RegistryAssumption
<1> DEFINE before == [n \in Namespace |-> PackOf(s.packs, n)]
           after == [n \in Namespace |-> PackOf(new.packs, n)]
<1>7. after = [before EXCEPT ![m] = IF does = "activate" THEN p ELSE NoPack]
  <2> HIDE DEF new, m
  <2> QED
    BY <1>4, <1>5, <1>6
<1>8. /\ Viewed(s) = [generation |-> s.generation, packs |-> before]
      /\ Viewed(new) = [generation |-> new.generation, packs |-> after]
  BY <1>1 DEF Viewed
<1> HIDE DEF new, before, after
<1>9. Viewed(new) = Promised!Changed(Viewed(s), does, p)
  BY <1>3, <1>7, <1>8 DEF Promised!Changed
<1> QED
  BY <1>9 DEF new

----------------------------------------------------------------------------
(* What a power cut leaves of a synced file is that file.                   *)
LEMMA SyncedAfterCut ==
  ASSUME NEW f \in SyncedFile
  PROVE  AfterCut(f) = {f} /\ f.text \in Whole
  BY DEF SyncedFile, File, AfterCut

(* The registry starts in the invariant.                                    *)
LEMMA InvInit == RegistryInit => RegistryInv
<1> SUFFICES ASSUME RegistryInit PROVE RegistryInv
  OBVIOUS
<1>1. registry \in SyncedFile /\ survivors \subseteq SyncedFile
  BY EmptyWhole DEF RegistryInit, SyncedFile
<1> QED
  BY <1>1, RestingTyped DEF RegistryInit, RegistryInv

(* A user's command is replaced by one that is typed and prepared.          *)
LEMMA CommandStep ==
  ASSUME RegistryInv, NEW u \in User, NEW c \in CommandType, Prepared(c),
         command' = [command EXCEPT ![u] = c]
  PROVE  command' \in [User -> CommandType] /\ \A v \in User : Prepared(command[v])'
  BY DEF RegistryInv, Prepared

(* Every step of a command, a death and a power cut keep the invariant.     *)
LEMMA InvNext == RegistryInv /\ [RegistryNext]_registryVars => RegistryInv'
<1> SUFFICES ASSUME RegistryInv, [RegistryNext]_registryVars PROVE RegistryInv'
  OBVIOUS
<1> DEFINE Commands == /\ command' \in [User -> CommandType]
                       /\ \A v \in User : Prepared(command[v])'
           Files == registry' \in SyncedFile /\ survivors' \subseteq SyncedFile
<1>1. SUFFICES Commands /\ Files
  BY DEF RegistryInv
<1>2. ASSUME NEW u \in User, command' = [command EXCEPT ![u] = Resting]
      PROVE  Commands
  BY <1>2, CommandStep, RestingTyped
<1>3. UNCHANGED <<registry, survivors>> => Files
  BY DEF RegistryInv
<1>4. ASSUME NEW u \in User, CallCommand(u) PROVE Commands /\ Files
  <2>1. PICK p \in Pack, does \in {"activate", "deactivate"} :
          command' = [command EXCEPT ![u] =
            [Resting EXCEPT !.at = "called", !.does = does, !.pack = p]]
    BY <1>4 DEF CallCommand
  <2> DEFINE c == [Resting EXCEPT !.at = "called", !.does = does, !.pack = p]
  <2>2. c \in CommandType /\ Prepared(c)
    BY EmptyWhole DEF CommandType, Resting, Place, Prepared
  <2> QED
    BY <2>1, <2>2, <1>3, <1>4, CommandStep DEF CallCommand
<1>5. ASSUME NEW u \in User, ReadRegistry(u) PROVE Commands /\ Files
  <2> DEFINE seen == registry.text
             new == Replacement(seen, command[u].does, command[u].pack)
             c == [command[u] EXCEPT !.at = "read", !.seen = seen, !.new = new]
  <2>1. command[u] \in CommandType /\ Prepared(command[u]) /\ command[u].at = "called"
    BY <1>5 DEF RegistryInv, ReadRegistry, Reached
  <2>2. seen \in Whole
    BY SyncedAfterCut DEF RegistryInv
  <2>3. /\ command[u].pack \in Pack /\ command[u].does \in {"activate", "deactivate"}
        /\ command[u].does = "deactivate" => command[u].pack \in seen.packs
    BY <1>5, <2>1 DEF ReadRegistry, MayProceed, Prepared, CommandType
  <2>4. new \in Whole
    BY <2>2, <2>3, ReplacementWhole
  <2>5. c \in CommandType
    BY <2>1, <2>2, <2>4 DEF CommandType, Place
  <2>6. /\ c.at = "read" /\ c.seen = seen /\ c.new = new
        /\ c.does = command[u].does /\ c.pack = command[u].pack
    BY <2>1 DEF CommandType
  <2>7. Prepared(c)
    BY <2>3, <2>6 DEF Prepared
  <2>8. command' = [command EXCEPT ![u] = c]
    BY <1>5 DEF ReadRegistry, RegistryInv
  <2> QED
    BY <2>5, <2>7, <2>8, <1>3, <1>5, CommandStep DEF ReadRegistry
<1>6. ASSUME NEW u \in User,
             RefuseCommand(u) \/ ReturnState(u) \/ CommandDies(u)
      PROVE  Commands /\ Files
  BY <1>2, <1>3, <1>6 DEF RefuseCommand, ReturnState, CommandDies
<1>7. ASSUME NEW u \in User, WriteTemporary(u) PROVE Commands /\ Files
  <2> DEFINE c == [command[u] EXCEPT !.at = "written"]
  <2>1. command[u] \in CommandType /\ Prepared(command[u]) /\ command[u].at = "read"
    BY <1>7 DEF RegistryInv, WriteTemporary, Reached
  <2>2. c \in CommandType /\ Prepared(c)
    BY <2>1 DEF CommandType, Place, Prepared
  <2>3. command' = [command EXCEPT ![u] = c]
    BY <1>7 DEF WriteTemporary, Proceeds, RegistryInv
  <2> QED
    BY <2>2, <2>3, <1>3, <1>7, CommandStep DEF WriteTemporary
<1>8. ASSUME NEW u \in User, SyncTemporary(u) PROVE Commands /\ Files
  <2> DEFINE c == [command[u] EXCEPT !.at = "synced", !.synced = TRUE]
  <2>1. command[u] \in CommandType /\ Prepared(command[u]) /\ command[u].at = "written"
    BY <1>8 DEF RegistryInv, SyncTemporary, Reached
  <2>2. c \in CommandType /\ Prepared(c)
    BY <2>1 DEF CommandType, Place, Prepared
  <2>3. command' = [command EXCEPT ![u] = c]
    BY <1>8 DEF SyncTemporary, RegistryInv
  <2> QED
    BY <2>2, <2>3, <1>3, <1>8, CommandStep DEF SyncTemporary
<1>9. ASSUME NEW u \in User, ReplaceState(u) PROVE Commands /\ Files
  <2> DEFINE c == [command[u] EXCEPT !.at = "replaced"]
  <2>1. command[u] \in CommandType /\ Prepared(command[u]) /\ command[u].at = "synced"
    BY <1>9 DEF RegistryInv, ReplaceState, Reached
  <2>2. c \in CommandType /\ Prepared(c)
    BY <2>1 DEF CommandType, Place, Prepared
  <2>3. command' = [command EXCEPT ![u] = c]
    BY <1>9 DEF ReplaceState, Proceeds, RegistryInv
  <2>4. command[u].new \in Whole /\ command[u].synced = TRUE
    BY <2>1 DEF Prepared, CommandType
  <2>5. registry' \in SyncedFile
    BY <1>9, <2>4 DEF ReplaceState, SyncedFile
  <2>6. survivors' = survivors \cup {registry'}
    BY <1>9, <2>5, SyncedAfterCut DEF ReplaceState
  <2> QED
    BY <2>2, <2>3, <2>5, <2>6, CommandStep DEF RegistryInv
<1>10. ASSUME NEW u \in User, SyncDirectory(u) PROVE Commands /\ Files
  <2> DEFINE c == [command[u] EXCEPT !.at = "settled"]
  <2>1. command[u] \in CommandType /\ Prepared(command[u]) /\ command[u].at = "replaced"
    BY <1>10 DEF RegistryInv, SyncDirectory, Reached
  <2>2. c \in CommandType /\ Prepared(c)
    BY <2>1 DEF CommandType, Place, Prepared
  <2>3. command' = [command EXCEPT ![u] = c]
    BY <1>10 DEF SyncDirectory, Proceeds, RegistryInv
  <2>4. registry \in SyncedFile /\ registry' = registry /\ survivors' = {registry}
    BY <1>10, SyncedAfterCut DEF SyncDirectory, RegistryInv
  <2> QED
    BY <2>2, <2>3, <2>4, CommandStep
<1>11. CASE CutPower
  BY <1>11, RestingTyped DEF CutPower, RegistryInv
<1>12. CASE UNCHANGED registryVars
  BY <1>12 DEF registryVars, RegistryInv, Prepared
<1> QED
  BY <1>4, <1>5, <1>6, <1>7, <1>8, <1>9, <1>10, <1>11, <1>12
  DEF RegistryNext, RegistryRests

(* The file is always a whole state with one pack per namespace, and so is  *)
(* everything a power cut may leave in its place.                           *)
THEOREM RegistryInvariant == RegistrySpec => []RegistryInv
<1>1. RegistryInit => RegistryInv
  BY InvInit
<1>2. RegistryInv /\ [RegistryNext]_registryVars => RegistryInv'
  BY InvNext
<1> QED
  BY <1>1, <1>2, PTL DEF RegistrySpec

----------------------------------------------------------------------------
(* Refinement: what the initial state and each step map to.                 *)
Tasks == [u \in User |-> Task(command[u])]
Kept == {Viewed(file.text) : file \in survivors}

(* The empty registry is the empty active set.                              *)
LEMMA ViewOfEmpty == Viewed(NoState) = Promised!Empty
<1>1. \A n \in Namespace : PackOf({}, n) = NoPack
  BY PackOfNone
<1>2. NoState # Torn
  BY EmptyWhole, TornIsNoState DEF Whole
<1> QED
  BY <1>1, <1>2 DEF Viewed, NoState, Promised!Empty

(* A command at rest is the abstract task at rest.                          *)
LEMMA IdleTask == NoTask = Promised!NoTask
  BY ViewOfEmpty DEF NoTask, Promised!NoTask

(* Initial registries map to initial active sets.                           *)
LEMMA RefinesInit == RegistryInit => Promised!Init
<1> SUFFICES ASSUME RegistryInit PROVE Promised!Init
  OBVIOUS
<1>1. registry.text = NoState /\ Kept = {Viewed(NoState)}
  BY DEF RegistryInit, File, Kept
<1>2. Tasks = [u \in User |-> Promised!NoTask]
  BY IdleTask DEF RegistryInit, Tasks, Task, StageOf, Resting
<1> QED
  BY <1>1, <1>2, ViewOfEmpty DEF Promised!Init, Tasks, Kept

(* A step of one user's command changes that user's task and no other.      *)
LEMMA TaskStep ==
  ASSUME RegistryInv, NEW u \in User, NEW c, command' = [command EXCEPT ![u] = c]
  PROVE  /\ Tasks' = [Tasks EXCEPT ![u] = Task(c)]
         /\ Tasks[u] = Task(command[u]) /\ Tasks'[u] = Task(c)
         /\ Task(c) = Task(command[u]) => Tasks' = Tasks
  BY DEF Tasks, RegistryInv

(* Every step of the registry is a step of the active set or a stutter.     *)
LEMMA RefinesNext ==
  RegistryInv /\ RegistryInv' /\ [RegistryNext]_registryVars
    => [Promised!Next]_(Promised!vars)
<1> SUFFICES ASSUME RegistryInv, RegistryInv', [RegistryNext]_registryVars
             PROVE  [Promised!Next]_(Promised!vars)
  OBVIOUS
<1> DEFINE Still == registry' = registry /\ survivors' = survivors
<1>1. ASSUME Still, Tasks' = Tasks PROVE UNCHANGED Promised!vars
  BY <1>1 DEF Promised!vars, Tasks
<1>2. ASSUME NEW u \in User, CallCommand(u) PROVE UNCHANGED Promised!vars
  <2>1. PICK p \in Pack, does \in {"activate", "deactivate"} :
          command' = [command EXCEPT ![u] =
            [Resting EXCEPT !.at = "called", !.does = does, !.pack = p]]
    BY <1>2 DEF CallCommand
  <2> DEFINE c == [Resting EXCEPT !.at = "called", !.does = does, !.pack = p]
  <2>2. c.at = "called" /\ command[u].at = "resting"
    BY <1>2 DEF CallCommand, Reached, Resting
  <2>3. Task(c) = NoTask /\ Task(command[u]) = NoTask
    BY <2>2 DEF Task, StageOf
  <2>4. command' = [command EXCEPT ![u] = c] /\ Still
    BY <1>2, <2>1 DEF CallCommand
  <2> HIDE DEF c
  <2>5. Tasks' = Tasks
    BY <2>3, <2>4, TaskStep
  <2> QED
    BY <2>4, <2>5, <1>1
<1>3. ASSUME NEW u \in User, RefuseCommand(u) PROVE UNCHANGED Promised!vars
  <2>1. Task(Resting) = NoTask /\ Task(command[u]) = NoTask
    BY <1>3 DEF RefuseCommand, Reached, Task, StageOf, Resting
  <2> QED
    BY <2>1, <1>1, <1>3, TaskStep DEF RefuseCommand
<1>4. ASSUME NEW u \in User, ReadRegistry(u) PROVE Promised!Look(u)
  <2> DEFINE seen == registry.text
             p == command[u].pack
             does == command[u].does
             c == [command[u] EXCEPT !.at = "read", !.seen = seen,
                                     !.new = Replacement(seen, does, p)]
  <2>1. command[u] \in CommandType /\ Prepared(command[u]) /\ command[u].at = "called"
    BY <1>4 DEF RegistryInv, ReadRegistry, Reached
  <2>2. /\ p \in Pack /\ does \in {"activate", "deactivate"}
        /\ does = "deactivate" => p \in seen.packs
    BY <1>4, <2>1 DEF ReadRegistry, MayProceed, Prepared, CommandType
  <2>3. seen \in Whole /\ seen # Torn /\ OnePerNamespace(seen.packs)
    BY SyncedAfterCut, TornIsNoState DEF RegistryInv, Whole
  <2>4. does = "deactivate" => Viewed(seen).packs[NamespaceOf[p]] = p
    BY <2>2, <2>3, PackOfOne, RegistryAssumption DEF Viewed
  <2>5. command' = [command EXCEPT ![u] = c]
    BY <1>4 DEF ReadRegistry, RegistryInv
  <2>6. /\ c.at = "read" /\ c.does = does /\ c.pack = p /\ c.seen = seen
    BY <2>1 DEF CommandType
  <2>7. Task(c) = [stage |-> "looked", does |-> does, pack |-> p, saw |-> Viewed(seen)]
    BY <2>6 DEF Task, StageOf
  <2>8. Task(command[u]).stage = "idle"
    BY <2>1 DEF Task, StageOf, NoTask
  <2>9. Still
    BY <1>4 DEF ReadRegistry
  <2>10. /\ Tasks[u].stage = "idle"
         /\ Tasks' = [Tasks EXCEPT ![u] =
              [stage |-> "looked", does |-> does, pack |-> p, saw |-> Viewed(seen)]]
    BY <2>5, <2>7, <2>8, TaskStep
  <2> QED
    BY <2>2, <2>4, <2>9, <2>10 DEF Promised!Look, Tasks
<1>5. ASSUME NEW u \in User, WriteTemporary(u) \/ SyncTemporary(u)
      PROVE  UNCHANGED Promised!vars
  <2>1. command[u] \in CommandType /\ command[u].at \in {"read", "written"}
    BY <1>5 DEF RegistryInv, WriteTemporary, SyncTemporary, Reached
  <2>2. PICK c : /\ command' = [command EXCEPT ![u] = c]
                 /\ c.at \in {"written", "synced"}
                 /\ c.does = command[u].does /\ c.pack = command[u].pack
                 /\ c.seen = command[u].seen
    <3>1. CASE WriteTemporary(u)
      <4> DEFINE d == [command[u] EXCEPT !.at = "written"]
      <4>1. command' = [command EXCEPT ![u] = d]
        BY <3>1 DEF WriteTemporary, Proceeds, RegistryInv
      <4>2. /\ d.at = "written" /\ d.does = command[u].does
            /\ d.pack = command[u].pack /\ d.seen = command[u].seen
        BY <2>1 DEF CommandType
      <4> QED
        BY <4>1, <4>2
    <3>2. CASE SyncTemporary(u)
      <4> DEFINE d == [command[u] EXCEPT !.at = "synced", !.synced = TRUE]
      <4>1. command' = [command EXCEPT ![u] = d]
        BY <3>2 DEF SyncTemporary, RegistryInv
      <4>2. /\ d.at = "synced" /\ d.does = command[u].does
            /\ d.pack = command[u].pack /\ d.seen = command[u].seen
        BY <2>1 DEF CommandType
      <4> QED
        BY <4>1, <4>2
    <3> QED
      BY <1>5, <3>1, <3>2
  <2>3. Task(c) = Task(command[u])
    BY <2>1, <2>2 DEF Task, StageOf
  <2>4. Still
    BY <1>5 DEF WriteTemporary, SyncTemporary
  <2> QED
    BY <2>2, <2>3, <2>4, <1>1, TaskStep
<1>6. ASSUME NEW u \in User, ReplaceState(u) PROVE Promised!Change(u)
  <2> DEFINE c == [command[u] EXCEPT !.at = "replaced"]
  <2>1. command[u] \in CommandType /\ Prepared(command[u]) /\ command[u].at = "synced"
    BY <1>6 DEF RegistryInv, ReplaceState, Reached
  <2>2. command' = [command EXCEPT ![u] = c]
    BY <1>6 DEF ReplaceState, Proceeds, RegistryInv
  <2>3. /\ c.at = "replaced" /\ c.does = command[u].does
        /\ c.pack = command[u].pack /\ c.seen = command[u].seen
    BY <2>1 DEF CommandType
  <2>4. Task(command[u]) = [stage |-> "looked", does |-> command[u].does,
          pack |-> command[u].pack, saw |-> Viewed(command[u].seen)]
    BY <2>1 DEF Task, StageOf
  <2>5. Task(c) = [Task(command[u]) EXCEPT !.stage = "changed"]
    BY <2>3, <2>4 DEF Task, StageOf
  <2>6. Viewed(command[u].new) =
          Promised!Changed(Viewed(command[u].seen), command[u].does, command[u].pack)
    BY <2>1, ViewOfReplacement DEF Prepared, CommandType
  <2>7. registry' = File(command[u].new, TRUE) /\ registry' \in SyncedFile
    BY <1>6, <2>1 DEF ReplaceState, Prepared, CommandType, RegistryInv
  <2>8. registry'.text = command[u].new /\ survivors' = survivors \cup {registry'}
    BY <1>6, <2>7, SyncedAfterCut DEF ReplaceState, File
  <2>9. Kept' = Kept \cup {Viewed(registry.text)'}
    BY <2>8 DEF Kept
  <2>10. /\ Tasks[u] = Task(command[u])
         /\ Tasks' = [Tasks EXCEPT ![u] = Task(c)]
    BY <2>2, TaskStep
  <2>11. Tasks' = [Tasks EXCEPT ![u].stage = "changed"]
    BY <2>5, <2>10
  <2>12. /\ Tasks[u].stage = "looked"
         /\ Viewed(registry.text)' =
              Promised!Changed(Tasks[u].saw, Tasks[u].does, Tasks[u].pack)
    BY <2>4, <2>6, <2>8, <2>10
  <2> QED
    BY <2>9, <2>11, <2>12 DEF Promised!Change, Tasks, Kept
<1>7. ASSUME NEW u \in User, SyncDirectory(u) PROVE Promised!Settle(u)
  <2> DEFINE c == [command[u] EXCEPT !.at = "settled"]
  <2>1. command[u] \in CommandType /\ command[u].at = "replaced"
    BY <1>7 DEF RegistryInv, SyncDirectory, Reached
  <2>2. command' = [command EXCEPT ![u] = c]
    BY <1>7 DEF SyncDirectory, Proceeds, RegistryInv
  <2>3. /\ c.at = "settled" /\ c.does = command[u].does
        /\ c.pack = command[u].pack /\ c.seen = command[u].seen
    BY <2>1 DEF CommandType
  <2>4. /\ Task(command[u]).stage = "changed"
        /\ Task(c) = [Task(command[u]) EXCEPT !.stage = "settled"]
    BY <2>1, <2>3 DEF Task, StageOf
  <2>5. Tasks[u].stage = "changed" /\ Tasks' = [Tasks EXCEPT ![u].stage = "settled"]
    BY <2>2, <2>4, TaskStep
  <2>6. registry' = registry /\ survivors' = {registry}
    BY <1>7, SyncedAfterCut DEF SyncDirectory, RegistryInv
  <2>7. Kept' = {Viewed(registry.text)}
    BY <2>6 DEF Kept
  <2> QED
    BY <2>5, <2>6, <2>7 DEF Promised!Settle, Tasks, Kept
<1>8. ASSUME NEW u \in User, ReturnState(u) \/ CommandDies(u)
      PROVE  Promised!Return(u) \/ Promised!Fail(u) \/ UNCHANGED Promised!vars
  <2>1. command' = [command EXCEPT ![u] = Resting] /\ Still
    BY <1>8 DEF ReturnState, CommandDies
  <2>2. Task(Resting) = NoTask
    BY DEF Task, StageOf, Resting
  <2>3. Tasks' = [Tasks EXCEPT ![u] = Promised!NoTask] /\ Tasks[u] = Task(command[u])
    BY <2>1, <2>2, IdleTask, TaskStep
  <2>4. Promised!Ends(u)
    BY <2>1, <2>3 DEF Promised!Ends, Tasks
  <2>5. \/ Task(command[u]) = NoTask
        \/ Task(command[u]).stage \in {"looked", "changed", "settled"}
    BY DEF Task, StageOf
  <2>6. CASE Task(command[u]) = NoTask
    BY <2>1, <2>2, <2>6, <1>1, TaskStep
  <2>7. CASE Task(command[u]).stage \in {"looked", "changed", "settled"}
    BY <2>3, <2>4, <2>7 DEF Promised!Return, Promised!Fail, Tasks
  <2> QED
    BY <2>5, <2>6, <2>7
<1>9. ASSUME CutPower PROVE Promised!PowerCut
  <2>1. registry' \in survivors /\ survivors' = {registry'}
    BY <1>9 DEF CutPower
  <2>2. Viewed(registry.text)' \in Kept /\ Kept' = {Viewed(registry.text)'}
    BY <2>1 DEF Kept
  <2>3. Tasks' = [u \in User |-> Promised!NoTask]
    BY <1>9, IdleTask DEF CutPower, Tasks, Task, StageOf, Resting
  <2> QED
    BY <2>2, <2>3 DEF Promised!PowerCut, Tasks, Kept
<1>10. ASSUME UNCHANGED registryVars PROVE UNCHANGED Promised!vars
  BY <1>1, <1>10 DEF registryVars, Tasks
<1> QED
  BY <1>2, <1>3, <1>4, <1>5, <1>6, <1>7, <1>8, <1>9, <1>10
  DEF RegistryNext, RegistryRests, Promised!Next

(* The steps of activate and deactivate, interleaved with one another, with *)
(* deaths and with power cuts, implement the active set for every set of    *)
(* users, packs and namespaces.                                             *)
THEOREM RegistryImplementsActiveSet == RegistrySpec => ImplementsActiveSet
<1>1. RegistryInit => Promised!Init
  BY RefinesInit
<1>2. RegistryInv /\ RegistryInv' /\ [RegistryNext]_registryVars
        => [Promised!Next]_(Promised!vars)
  BY RefinesNext
<1> QED
  BY <1>1, <1>2, RegistryInvariant, PTL
  DEF RegistrySpec, ImplementsActiveSet, Promised!Spec

----------------------------------------------------------------------------
(* Page cache.                                                              *)
(* Theorems about Pager for every number of slots, every pack and every     *)
(* sequence of requests and failed reads.                                   *)

(* The lowest member of a set is a member.                                  *)
LEMMA LowestIn ==
  ASSUME NEW S \in SUBSET Nat, S # {}
  PROVE  Lowest(S) \in S
BY LeastNumber DEF Lowest

(* When there are slots there is one to read into.                          *)
LEMMA VictimIsSlot ==
  ASSUME PagerTypeOK, DOMAIN slots # {}
  PROVE  Victim \in DOMAIN slots
<1>1. DOMAIN slots \subseteq Nat
  BY DEF PagerTypeOK
<1>2. CASE Unused # {}
  <2>1. Unused \in SUBSET Nat /\ Unused \subseteq DOMAIN slots
    BY <1>1 DEF Unused
  <2> QED
    BY <1>2, <2>1, LowestIn DEF Victim
<1>3. CASE Unused = {}
  <2> DEFINE T == {slots[s].tick : s \in DOMAIN slots}
  <2>1. T \in SUBSET Nat /\ T # {}
    BY DEF PagerTypeOK
  <2>2. PICK n \in T : \A m \in T : n <= m
    BY <2>1, LeastNumber
  <2>3. PICK s \in DOMAIN slots : slots[s].tick = n
    BY <2>2
  <2>4. s \in OldestOf(DOMAIN slots)
    BY <2>2, <2>3 DEF OldestOf
  <2>5. OldestOf(DOMAIN slots) \in SUBSET Nat /\ OldestOf(DOMAIN slots) \subseteq DOMAIN slots
    BY <1>1 DEF OldestOf
  <2> QED
    BY <1>3, <2>4, <2>5, LowestIn DEF Victim
<1> QED
  BY <1>2, <1>3

PagerInv == PagerTypeOK /\ PagerConsistent

(* A new cache satisfies the invariant.                                     *)
LEMMA InitInv == pager_create => PagerInv
<1> SUFFICES ASSUME pager_create PROVE PagerInv
  OBVIOUS
<1>1. PICK n \in Capacities : slots = [s \in 1 .. n |-> EmptySlot]
  BY DEF pager_create
<1>2. n \in Nat /\ PageZero \in Page
  BY <1>1, PagerAssumption
<1>3. \A s \in DOMAIN slots : slots[s] = EmptySlot
  BY <1>1
<1>4. slots = [s \in DOMAIN slots |->
       [valid |-> slots[s].valid, page |-> slots[s].page,
        tick |-> slots[s].tick, bytes |-> slots[s].bytes]]
  BY <1>1 DEF EmptySlot
<1>5. PagerTypeOK
  BY <1>1, <1>2, <1>3, <1>4 DEF pager_create, PagerTypeOK, EmptySlot
<1>6. PagerConsistent
  BY <1>3 DEF PagerConsistent, EmptySlot
<1> QED
  BY <1>5, <1>6 DEF PagerInv

(* A slot that is written keeps the shape of the array.                     *)
LEMMA WrittenTyped ==
  ASSUME PagerTypeOK, NEW v \in DOMAIN slots,
         NEW valid \in BOOLEAN, NEW page \in Page, NEW at \in Nat, NEW bytes,
         slots' = [slots EXCEPT ![v] = [valid |-> valid, page |-> page,
                                        tick |-> at, bytes |-> bytes]],
         tick' \in Nat, torn' \subseteq DOMAIN slots
  PROVE  /\ PagerTypeOK'
         /\ DOMAIN slots' = DOMAIN slots
         /\ slots'[v] = [valid |-> valid, page |-> page, tick |-> at, bytes |-> bytes]
         /\ \A s \in DOMAIN slots \ {v} : slots'[s] = slots[s]
<1>1. DOMAIN slots' = DOMAIN slots
  OBVIOUS
<1>2. slots'[v] = [valid |-> valid, page |-> page, tick |-> at, bytes |-> bytes]
  OBVIOUS
<1>3. \A s \in DOMAIN slots \ {v} : slots'[s] = slots[s]
  OBVIOUS
<1>4. \A s \in DOMAIN slots : slots[s] =
        [valid |-> slots[s].valid, page |-> slots[s].page,
         tick |-> slots[s].tick, bytes |-> slots[s].bytes]
  BY DEF PagerTypeOK
<1>5. \A s \in DOMAIN slots : slots'[s] =
        [valid |-> slots'[s].valid, page |-> slots'[s].page,
         tick |-> slots'[s].tick, bytes |-> slots'[s].bytes]
  BY <1>2, <1>3, <1>4
<1>6. slots' = [s \in DOMAIN slots' |-> slots'[s]]
  BY <1>1
<1>7. slots' = [s \in DOMAIN slots' |->
        [valid |-> slots'[s].valid, page |-> slots'[s].page,
         tick |-> slots'[s].tick, bytes |-> slots'[s].bytes]]
  BY <1>1, <1>5, <1>6
<1>8. \A s \in DOMAIN slots' :
        slots'[s].valid \in BOOLEAN /\ slots'[s].page \in Page /\ slots'[s].tick \in Nat
  BY <1>1, <1>2, <1>3 DEF PagerTypeOK
<1>9. PagerTypeOK'
  BY <1>1, <1>7, <1>8 DEF PagerTypeOK
<1> QED
  BY <1>1, <1>2, <1>3, <1>9

(* A hit keeps the invariant.                                               *)
LEMMA HitKeeps ==
  ASSUME PagerInv, NEW p \in Page, NEW class \in Class, Hit(p, class)
  PROVE  PagerInv'
<1> USE DEF PagerInv
<1>1. PICK s \in Holding(p) :
        /\ tick' = tick + 1
        /\ slots' = [slots EXCEPT ![s] = [valid |-> TRUE, page |-> p, tick |-> tick + 1,
                                          bytes |-> slots[s].bytes]]
        /\ torn' = torn
  BY DEF Hit, InUse
<1>2. s \in DOMAIN slots /\ slots[s].valid /\ slots[s].page = p
  BY DEF Holding
<1>3. tick \in Nat /\ tick' \in Nat /\ tick + 1 \in Nat /\ torn' \subseteq DOMAIN slots
  BY <1>1 DEF PagerTypeOK
<1>4. /\ PagerTypeOK'
      /\ DOMAIN slots' = DOMAIN slots
      /\ slots'[s] = [valid |-> TRUE, page |-> p, tick |-> tick + 1, bytes |-> slots[s].bytes]
      /\ \A t \in DOMAIN slots \ {s} : slots'[t] = slots[t]
  BY <1>1, <1>2, <1>3, WrittenTyped
<1>5. \A t \in DOMAIN slots : slots[t].valid => slots[t].tick \in 1 .. tick
  BY DEF PagerConsistent
<1>6. \A t \in DOMAIN slots \ {s} : slots[t].valid => slots[t].page # p
  BY <1>2 DEF PagerConsistent
<1>7. PagerConsistent'
  BY <1>1, <1>2, <1>3, <1>4, <1>5, <1>6 DEF PagerConsistent
<1> QED
  BY <1>4, <1>7

(* A miss that reads its page keeps the invariant.                          *)
LEMMA FillKeeps ==
  ASSUME PagerInv, NEW p \in Page, NEW class \in Class, Fill(p, class)
  PROVE  PagerInv'
<1> USE DEF PagerInv
<1>1. CASE DOMAIN slots = {}
  BY <1>1 DEF Fill, PagerTypeOK, PagerConsistent
<1>2. CASE DOMAIN slots # {}
  <2> DEFINE v == Victim
  <2>1. v \in DOMAIN slots
    BY <1>2, VictimIsSlot
  <2>2. /\ tick' = tick + 1
        /\ slots' = [slots EXCEPT ![v] = [valid |-> TRUE, page |-> p, tick |-> tick + 1,
                                          bytes |-> Content[p]]]
        /\ torn' = torn \ {v}
        /\ Holding(p) = {}
    BY <1>2 DEF Fill, Loaded, InUse
  <2>3. \A s \in DOMAIN slots : slots[s].valid => slots[s].page # p
    BY <2>2 DEF Holding
  <2> HIDE DEF v
  <2>4. tick \in Nat /\ tick' \in Nat /\ tick + 1 \in Nat /\ torn' \subseteq DOMAIN slots
    BY <2>2 DEF PagerTypeOK
  <2>5. /\ PagerTypeOK'
        /\ DOMAIN slots' = DOMAIN slots
        /\ slots'[v] = [valid |-> TRUE, page |-> p, tick |-> tick + 1, bytes |-> Content[p]]
        /\ \A t \in DOMAIN slots \ {v} : slots'[t] = slots[t]
    BY <2>1, <2>2, <2>4, WrittenTyped
  <2>6. PagerConsistent'
    <3>1. ASSUME NEW s \in DOMAIN slots, slots[s].valid
          PROVE  /\ slots[s].tick \in 1 .. tick /\ slots[s].tick # tick + 1
                 /\ slots[s].tick \in 1 .. tick + 1
      <4>1. slots[s].tick \in 1 .. tick
        BY <3>1 DEF PagerConsistent
      <4>2. QED BY <2>4, <4>1
    <3>2. ASSUME NEW s \in DOMAIN slots', NEW t \in DOMAIN slots',
                 slots'[s].valid, slots'[t].valid, s # t
          PROVE  slots'[s].page # slots'[t].page /\ slots'[s].tick # slots'[t].tick
      <4>1. CASE s = v
        BY <2>3, <2>5, <3>1, <3>2, <4>1
      <4>2. CASE t = v
        BY <2>3, <2>5, <3>1, <3>2, <4>2
      <4>3. CASE s # v /\ t # v
        BY <2>5, <3>2, <4>3 DEF PagerConsistent
      <4>4. QED BY <4>1, <4>2, <4>3
    <3>3. ASSUME NEW s \in DOMAIN slots', slots'[s].valid
          PROVE  /\ slots'[s].tick \in 1 .. tick'
                 /\ s \notin torn' => slots'[s].bytes = Content[slots'[s].page]
      <4>1. CASE s = v
        BY <2>2, <2>4, <2>5, <4>1
      <4>2. CASE s # v
        BY <2>2, <2>5, <3>1, <3>3, <4>2 DEF PagerConsistent
      <4>3. QED BY <4>1, <4>2
    <3>4. QED BY <3>2, <3>3 DEF PagerConsistent
  <2> QED
    BY <2>5, <2>6
<1> QED
  BY <1>1, <1>2

(* A miss whose read fails keeps the invariant.                             *)
LEMMA FailedReadKeeps ==
  ASSUME PagerInv, NEW p \in Page, NEW class \in Class,
         NEW n \in 0 .. PageWords - 1, FailedRead(p, class, n)
  PROVE  PagerInv'
<1> USE DEF PagerInv
<1>1. CASE DOMAIN slots = {}
  BY <1>1 DEF FailedRead, PagerTypeOK, PagerConsistent
<1>2. CASE DOMAIN slots # {}
  <2> DEFINE v == Victim
             half == [i \in 1 .. PageWords |-> IF i <= n THEN Content[p][i]
                                                         ELSE slots[v].bytes[i]]
  <2>1. v \in DOMAIN slots
    BY <1>2, VictimIsSlot
  <2>2. /\ slots' = [slots EXCEPT ![v] = [valid |-> slots[v].valid, page |-> slots[v].page,
                                          tick |-> slots[v].tick, bytes |-> half]]
        /\ tick' = tick
        /\ torn' = torn \cup {v}
    BY <1>2 DEF FailedRead, Overwritten
  <2> HIDE DEF v, half
  <2>3. /\ slots[v].valid \in BOOLEAN /\ slots[v].page \in Page /\ slots[v].tick \in Nat
        /\ tick \in Nat /\ tick' \in Nat /\ torn' \subseteq DOMAIN slots
    BY <2>1, <2>2 DEF PagerTypeOK
  <2>4. /\ PagerTypeOK'
        /\ DOMAIN slots' = DOMAIN slots
        /\ slots'[v] = [valid |-> slots[v].valid, page |-> slots[v].page,
                        tick |-> slots[v].tick, bytes |-> half]
        /\ \A t \in DOMAIN slots \ {v} : slots'[t] = slots[t]
    BY <2>1, <2>2, <2>3, WrittenTyped
  <2>5. PagerConsistent'
    BY <2>1, <2>2, <2>3, <2>4 DEF PagerConsistent
  <2> QED
    BY <2>4, <2>5
<1> QED
  BY <1>1, <1>2

(* The slots of a pager keep their shape, hold different pages at different *)
(* ticks and, but for slots whose last read failed, the bytes of their      *)
(* pages, under every request and every failed read (pager_page).           *)
THEOREM PagerInvariant == PagerSpec => []PagerInv
<1>1. PagerInv /\ [PagerNext]_pagerVars => PagerInv'
  <2> SUFFICES ASSUME PagerInv, [PagerNext]_pagerVars PROVE PagerInv'
    OBVIOUS
  <2>1. CASE UNCHANGED pagerVars
    BY <2>1 DEF pagerVars, PagerInv, PagerTypeOK, PagerConsistent
  <2>2. ASSUME NEW p \in Page, NEW class \in Class, Hit(p, class) PROVE PagerInv'
    BY <2>2, HitKeeps
  <2>3. ASSUME NEW p \in Page, NEW class \in Class, Fill(p, class) PROVE PagerInv'
    BY <2>3, FillKeeps
  <2>4. ASSUME NEW p \in Page, NEW class \in Class, NEW n \in 0 .. PageWords - 1,
               FailedRead(p, class, n)
        PROVE PagerInv'
    BY <2>4, FailedReadKeeps
  <2> QED
    BY <2>1, <2>2, <2>3, <2>4 DEF PagerNext, pager_page
<1> QED
  BY InitInv, <1>1, PTL DEF PagerSpec

(* No two slots answer for one page, and bytes are only wrong after a       *)
(* failed read.                                                             *)
THEOREM PagerIsConsistent == PagerSpec => []PagerConsistent
BY PagerInvariant, PTL DEF PagerInv

----------------------------------------------------------------------------
(* The page cache implements the ordered dictionary.                        *)
(* The mapping sorts the slots in use by their ticks.  The invariant says   *)
(* that an order by ticks exists; each step says which order follows, and   *)
(* there is only one.                                                       *)

SlotsInUse(c) == {s \in DOMAIN c : c[s].valid}
Ordered(f, n, c) ==
  /\ n \in Nat /\ f \in [1 .. n -> SlotsInUse(c)]
  /\ \A i, j \in 1 .. n : i < j => c[f[i]].tick < c[f[j]].tick
  /\ \A s \in SlotsInUse(c) : \E i \in 1 .. n : f[i] = s
Ticking(c) == \A s \in DOMAIN c : c[s].tick \in Nat

StatsTyped == stats \in [hits : Nat, misses : Nat, pages : [Class -> Nat], missed : [Class -> Nat]]
ReferenceInv == PagerInv /\ StatsTyped /\ \E n \in Nat : \E f : Ordered(f, n, slots)

(* Slots in order are different, and no other order has as many.            *)
LEMMA OrderedDiffer ==
  ASSUME NEW c, Ticking(c), NEW n, NEW f, Ordered(f, n, c)
  PROVE  /\ n \in Nat
         /\ \A i \in 1 .. n : f[i] \in DOMAIN c /\ c[f[i]].tick \in Nat /\ c[f[i]].valid
         /\ \A i, j \in 1 .. n : f[i] = f[j] => i = j
         /\ IsFiniteSet(SlotsInUse(c)) /\ Cardinality(SlotsInUse(c)) = n
<1>1. /\ n \in Nat /\ f \in [1 .. n -> SlotsInUse(c)]
      /\ \A i, j \in 1 .. n : i < j => c[f[i]].tick < c[f[j]].tick
      /\ \A s \in SlotsInUse(c) : \E i \in 1 .. n : f[i] = s
  BY DEF Ordered
<1>2. \A i \in 1 .. n : f[i] \in DOMAIN c /\ c[f[i]].tick \in Nat /\ c[f[i]].valid
  BY <1>1 DEF SlotsInUse, Ticking
<1>3. \A i, j \in 1 .. n : f[i] = f[j] => i = j
  <2>1. SUFFICES ASSUME NEW i \in 1 .. n, NEW j \in 1 .. n, f[i] = f[j], i # j
                 PROVE  FALSE
    OBVIOUS
  <2>2. \A a, b \in Nat : a < b => a # b
    OBVIOUS
  <2>3. i < j \/ j < i
    BY <1>1, <2>1
  <2>4. QED BY <1>1, <1>2, <2>1, <2>2, <2>3
<1>4. f \in Bijection(1 .. n, SlotsInUse(c))
  BY <1>1, <1>3, Zenon DEF Bijection, Injection, IsInjective, Surjection
<1>5. IsFiniteSet(1 .. n) /\ Cardinality(1 .. n) = n
  BY <1>1, FS_Interval
<1>6. IsFiniteSet(SlotsInUse(c)) /\ Cardinality(SlotsInUse(c)) = n
  <2>1. ExistsBijection(1 .. n, SlotsInUse(c))
    BY <1>4 DEF ExistsBijection
  <2>2. QED BY <1>5, <2>1, FS_Bijection
<1>7. QED BY <1>1, <1>2, <1>3, <1>6

(* Two orders of the same slots agree: the first difference would put a     *)
(* slot both before and after another.                                      *)
LEMMA OrderUnique ==
  ASSUME NEW c, Ticking(c), NEW n, NEW f, NEW g, Ordered(f, n, c), Ordered(g, n, c)
  PROVE  f = g
<1> DEFINE D == {i \in 1 .. n : f[i] # g[i]}
<1>1. /\ n \in Nat /\ f \in [1 .. n -> SlotsInUse(c)] /\ g \in [1 .. n -> SlotsInUse(c)]
      /\ \A i, j \in 1 .. n : i < j => c[f[i]].tick < c[f[j]].tick
      /\ \A i, j \in 1 .. n : i < j => c[g[i]].tick < c[g[j]].tick
      /\ \A s \in SlotsInUse(c) : \E i \in 1 .. n : f[i] = s
      /\ \A s \in SlotsInUse(c) : \E i \in 1 .. n : g[i] = s
  BY DEF Ordered
<1>2. SUFFICES ASSUME D # {} PROVE FALSE
  BY <1>1
<1>3. PICK m \in D : \A k \in D : m <= k
  <2>1. D \in SUBSET Nat
    BY <1>1
  <2>2. QED BY <1>2, <2>1, LeastNumber
<1>4. m \in 1 .. n /\ f[m] # g[m] /\ \A k \in 1 .. n : k < m => f[k] = g[k]
  BY <1>1, <1>3
<1> HIDE DEF D
<1>5. /\ \A i, j \in 1 .. n : f[i] = f[j] => i = j
      /\ \A i, j \in 1 .. n : g[i] = g[j] => i = j
      /\ \A i \in 1 .. n : c[f[i]].tick \in Nat
      /\ \A i \in 1 .. n : c[g[i]].tick \in Nat
  BY OrderedDiffer
<1>6. PICK j \in 1 .. n : f[j] = g[m]
  BY <1>1, <1>4
<1>7. PICK k \in 1 .. n : g[k] = f[m]
  BY <1>1, <1>4
<1>8. m < j
  <2>1. j # m
    BY <1>4, <1>6
  <2>2. ~(j < m)
    BY <1>4, <1>5, <1>6
  <2>3. QED BY <1>4, <1>6, <2>1, <2>2
<1>9. m < k
  <2>1. k # m
    BY <1>4, <1>7
  <2>2. ~(k < m)
    BY <1>4, <1>5, <1>7
  <2>3. QED BY <1>4, <1>7, <2>1, <2>2
<1>10. c[f[m]].tick < c[g[m]].tick
  BY <1>1, <1>4, <1>6, <1>8
<1>11. c[g[m]].tick < c[f[m]].tick
  BY <1>1, <1>4, <1>7, <1>9
<1>12. QED
  <2>1. \A a, b \in Nat : a < b => ~(b < a)
    OBVIOUS
  <2>2. QED BY <1>4, <1>5, <1>10, <1>11, <2>1

(* The pages of the slots in use, the least recent first.                   *)
PagesInOrder(c) ==
  LET order == CHOOSE f \in [1 .. Cardinality(SlotsInUse(c)) -> SlotsInUse(c)] :
                 \A i, j \in DOMAIN f : i < j => c[f[i]].tick < c[f[j]].tick
  IN [i \in 1 .. Cardinality(SlotsInUse(c)) |-> c[order[i]].page]

(* The mapping, as a function of the slots before a step.                   *)
LEMMA RecencyNow == Recency = PagesInOrder(slots)
BY DEF Recency, PagesInOrder, InUseSlots, SlotsInUse

(* The same, after the step.                                                *)
LEMMA RecencyNext == Recency' = PagesInOrder(slots')
BY DEF Recency, PagesInOrder, InUseSlots, SlotsInUse

(* They are those of any order by ticks.                                    *)
LEMMA PagesOf ==
  ASSUME NEW c, Ticking(c), NEW n, NEW f, Ordered(f, n, c)
  PROVE  PagesInOrder(c) = [i \in 1 .. n |-> c[f[i]].page]
<1> DEFINE U == SlotsInUse(c)
           N == Cardinality(U)
           Rising(g) == \A i, j \in DOMAIN g : i < j => c[g[i]].tick < c[g[j]].tick
           order == CHOOSE g \in [1 .. N -> U] : Rising(g)
<1>1. n \in Nat /\ N = n /\ IsFiniteSet(U)
  BY OrderedDiffer
<1>2. f \in [1 .. N -> U] /\ Rising(f)
  BY <1>1 DEF Ordered
<1>3. order \in [1 .. N -> U] /\ Rising(order)
  BY <1>2
<1>4. PagesInOrder(c) = [i \in 1 .. N |-> c[order[i]].page]
  BY DEF PagesInOrder
<1> HIDE DEF order
<1>5. DOMAIN order = 1 .. n /\ \A i, j \in 1 .. n : i < j => c[order[i]].tick < c[order[j]].tick
  BY <1>1, <1>3
<1>6. \A s \in U : \E i \in 1 .. n : order[i] = s
  <2>1. \A i, j \in 1 .. n : order[i] = order[j] => i = j
    <3>1. SUFFICES ASSUME NEW i \in 1 .. n, NEW j \in 1 .. n, order[i] = order[j], i # j
                   PROVE  FALSE
      OBVIOUS
    <3>2. \A a, b \in Nat : a < b => a # b
      OBVIOUS
    <3>3. i < j \/ j < i
      BY <1>1, <3>1
    <3>4. c[order[i]].tick \in Nat /\ c[order[j]].tick \in Nat
      BY <1>1, <1>3 DEF SlotsInUse, Ticking
    <3>5. QED BY <1>5, <3>1, <3>2, <3>3, <3>4
  <2>2. order \in Injection(1 .. n, U)
    BY <1>1, <1>3, <2>1, Zenon DEF Injection, IsInjective
  <2>3. Cardinality(1 .. n) = n
    BY <1>1, FS_Interval
  <2>4. order \in Surjection(1 .. n, U)
    <3>1. Cardinality(1 .. n) = Cardinality(U)
      BY <1>1, <2>3
    <3> HIDE DEF U, N
    <3>2. QED BY <1>1, <2>2, <3>1, FS_Injection
  <2>5. QED BY <2>4 DEF Surjection
<1>7. Ordered(order, n, c)
  BY <1>1, <1>3, <1>5, <1>6 DEF Ordered
<1>8. order = f
  BY <1>7, OrderUnique
<1>9. QED BY <1>1, <1>4, <1>8

(* The slot of a page that is asked for moves to the end.                   *)
Moved(f, n, k) == [i \in 1 .. n |-> IF i < k THEN f[i] ELSE IF i < n THEN f[i + 1] ELSE f[k]]
Renewed(c, d, v) ==
  /\ v \in DOMAIN c /\ DOMAIN d = DOMAIN c
  /\ \A s \in DOMAIN c \ {v} : d[s] = c[s]
  /\ d[v].valid /\ d[v].tick \in Nat
  /\ \A s \in DOMAIN c : c[s].valid => c[s].tick < d[v].tick

LEMMA MovedOrdered ==
  ASSUME NEW c, Ticking(c), NEW n, NEW f, Ordered(f, n, c), NEW k \in 1 .. n,
         NEW d, Renewed(c, d, f[k])
  PROVE  Ordered(Moved(f, n, k), n, d)
<1> DEFINE g == Moved(f, n, k)
<1>1. /\ n \in Nat /\ f \in [1 .. n -> SlotsInUse(c)]
      /\ \A i, j \in 1 .. n : i < j => c[f[i]].tick < c[f[j]].tick
      /\ \A s \in SlotsInUse(c) : \E i \in 1 .. n : f[i] = s
  BY DEF Ordered
<1>2. /\ \A i \in 1 .. n : f[i] \in DOMAIN c /\ c[f[i]].tick \in Nat /\ c[f[i]].valid
      /\ \A i, j \in 1 .. n : f[i] = f[j] => i = j
  BY OrderedDiffer
<1>3. SlotsInUse(d) = SlotsInUse(c)
  BY <1>2 DEF Renewed, SlotsInUse
<1>4. \A i \in 1 .. n : g[i] = IF i < k THEN f[i] ELSE IF i < n THEN f[i + 1] ELSE f[k]
  BY DEF Moved
<1>5. g \in [1 .. n -> SlotsInUse(d)]
  <2>1. \A i \in 1 .. n : g[i] \in SlotsInUse(c)
    <3>1. \A i \in 1 .. n : i < n => i + 1 \in 1 .. n
      BY <1>1
    <3>2. QED BY <1>1, <1>4, <3>1
  <2>2. g = [i \in 1 .. n |-> g[i]]
    BY DEF Moved
  <2> HIDE DEF g
  <2>3. QED BY <1>3, <2>1, <2>2
<1>6. \A i \in 1 .. n : i # k => d[f[i]] = c[f[i]]
  BY <1>2 DEF Renewed
<1>7. \A i \in 1 .. n - 1 : \E j \in 1 .. n :
        /\ g[i] = f[j] /\ j # k
        /\ j = IF i < k THEN i ELSE i + 1
  <2>1. TAKE i \in 1 .. n - 1
  <2>2. i \in 1 .. n /\ i + 1 \in 1 .. n /\ i < n
    BY <1>1
  <2>3. CASE i < k
    BY <1>4, <2>2, <2>3
  <2>4. CASE ~(i < k)
    BY <1>4, <2>2, <2>4
  <2>5. QED BY <2>3, <2>4
<1>8. g[n] = f[k]
  <2>1. n \in 1 .. n /\ ~(n < k) /\ ~(n < n)
    BY <1>1
  <2>2. QED BY <1>4, <2>1
<1> HIDE DEF g
<1>9. \A i, j \in 1 .. n : i < j => d[g[i]].tick < d[g[j]].tick
  <2>1. SUFFICES ASSUME NEW i \in 1 .. n, NEW j \in 1 .. n, i < j
                 PROVE  d[g[i]].tick < d[g[j]].tick
    OBVIOUS
  <2>2. i \in 1 .. n - 1
    BY <1>1, <2>1
  <2>3. PICK a \in 1 .. n : g[i] = f[a] /\ a # k /\ a = IF i < k THEN i ELSE i + 1
    BY <1>7, <2>2
  <2>4. CASE j = n
    <3>1. d[g[i]].tick = c[f[a]].tick /\ c[f[a]].valid /\ f[a] \in DOMAIN c
      BY <1>2, <1>6, <2>3
    <3>2. QED BY <1>8, <2>4, <3>1 DEF Renewed
  <2>5. CASE j # n
    <3>1. j \in 1 .. n - 1
      BY <1>1, <2>5
    <3>2. PICK b \in 1 .. n : g[j] = f[b] /\ b # k /\ b = IF j < k THEN j ELSE j + 1
      BY <1>7, <3>1
    <3>3. a < b
      BY <2>1, <2>3, <3>2
    <3>4. d[g[i]].tick = c[f[a]].tick /\ d[g[j]].tick = c[f[b]].tick
      BY <1>6, <2>3, <3>2
    <3>5. QED BY <1>1, <2>3, <3>2, <3>3, <3>4
  <2>6. QED BY <2>4, <2>5
<1>10. \A s \in SlotsInUse(d) : \E i \in 1 .. n : g[i] = s
  <2>1. TAKE s \in SlotsInUse(d)
  <2>2. PICK j \in 1 .. n : f[j] = s
    BY <1>1, <1>3
  <2>3. CASE j = k
    BY <1>1, <1>8, <2>2, <2>3
  <2>4. CASE j < k
    BY <1>4, <2>2, <2>4
  <2>5. CASE k < j
    <3>1. j - 1 \in 1 .. n /\ ~(j - 1 < k) /\ j - 1 < n /\ (j - 1) + 1 = j
      BY <1>1, <2>5
    <3>2. g[j - 1] = f[j]
      BY <1>4, <3>1
    <3>3. QED BY <2>2, <3>1, <3>2
  <2>6. QED BY <1>1, <2>3, <2>4, <2>5
<1>11. QED BY <1>1, <1>5, <1>9, <1>10 DEF Ordered, g

(* A slot that was not in use comes last.                                   *)
Added(f, n, v) == [i \in 1 .. n + 1 |-> IF i <= n THEN f[i] ELSE v]
LEMMA AddedOrdered ==
  ASSUME NEW c, Ticking(c), NEW n, NEW f, Ordered(f, n, c), NEW v, ~c[v].valid,
         NEW d, Renewed(c, d, v)
  PROVE  Ordered(Added(f, n, v), n + 1, d)
<1> DEFINE g == [i \in 1 .. n + 1 |-> IF i <= n THEN f[i] ELSE v]
<1>1. /\ n \in Nat /\ f \in [1 .. n -> SlotsInUse(c)]
      /\ \A i, j \in 1 .. n : i < j => c[f[i]].tick < c[f[j]].tick
      /\ \A s \in SlotsInUse(c) : \E i \in 1 .. n : f[i] = s
  BY DEF Ordered
<1>2. \A i \in 1 .. n : f[i] \in DOMAIN c /\ c[f[i]].tick \in Nat /\ c[f[i]].valid
  BY OrderedDiffer
<1>3. SlotsInUse(d) = SlotsInUse(c) \cup {v} /\ v \notin SlotsInUse(c)
  BY DEF Renewed, SlotsInUse
<1>4. /\ \A i \in 1 .. n : g[i] = f[i] /\ i \in 1 .. n + 1
      /\ g[n + 1] = v /\ n + 1 \in 1 .. n + 1
      /\ \A i \in 1 .. n + 1 : i \in 1 .. n \/ i = n + 1
  BY <1>1
<1>5. g \in [1 .. n + 1 -> SlotsInUse(d)]
  <2>1. \A i \in 1 .. n + 1 : g[i] \in SlotsInUse(d)
    BY <1>1, <1>3, <1>4
  <2>2. QED BY <2>1
<1> HIDE DEF g
<1>6. \A i \in 1 .. n : d[f[i]] = c[f[i]]
  BY <1>1, <1>2, <1>3 DEF Renewed
<1>7. \A i, j \in 1 .. n + 1 : i < j => d[g[i]].tick < d[g[j]].tick
  <2>1. SUFFICES ASSUME NEW i \in 1 .. n + 1, NEW j \in 1 .. n + 1, i < j
                 PROVE  d[g[i]].tick < d[g[j]].tick
    OBVIOUS
  <2>2. i \in 1 .. n
    BY <1>1, <2>1
  <2>3. d[g[i]].tick = c[f[i]].tick /\ c[f[i]].valid /\ f[i] \in DOMAIN c
    BY <1>2, <1>4, <1>6, <2>2
  <2>4. CASE j = n + 1
    BY <1>4, <2>3, <2>4 DEF Renewed
  <2>5. CASE j \in 1 .. n
    BY <1>1, <1>4, <1>6, <2>1, <2>2, <2>5
  <2>6. QED BY <1>4, <2>4, <2>5
<1>8. \A s \in SlotsInUse(d) : \E i \in 1 .. n + 1 : g[i] = s
  BY <1>1, <1>3, <1>4
<1>9. n + 1 \in Nat
  BY <1>1
<1>10. QED BY <1>5, <1>7, <1>8, <1>9 DEF Ordered, Added, g

(* A list of pages with one moved to the end.                               *)
LEMMA MovedToEnd ==
  ASSUME NEW T, NEW n \in Nat, NEW r \in [1 .. n -> T], NEW k \in 1 .. n, NEW p \in T
  PROVE  Append(LruReference!RemoveAt(r, k), p) =
           [i \in 1 .. n |-> IF i < k THEN r[i] ELSE IF i < n THEN r[i + 1] ELSE p]
<1> DEFINE a == SubSeq(r, 1, k - 1)
           b == SubSeq(r, k + 1, n)
           x == a \o b
           y == [i \in 1 .. n |-> IF i < k THEN r[i] ELSE IF i < n THEN r[i + 1] ELSE p]
<1>1. r \in Seq(T) /\ Len(r) = n
  OBVIOUS
<1>2. /\ a \in Seq(T) /\ Len(a) = k - 1 /\ \A i \in 1 .. k - 1 : a[i] = r[i]
      /\ b \in Seq(T) /\ Len(b) = n - k /\ \A i \in 1 .. n - k : b[i] = r[k + i]
  BY <1>1
<1>3. LruReference!RemoveAt(r, k) = x
  BY <1>1 DEF LruReference!RemoveAt
<1> HIDE DEF a, b
<1>4. /\ x \in Seq(T) /\ Len(x) = Len(a) + Len(b)
      /\ \A i \in 1 .. Len(a) + Len(b) : x[i] = IF i <= Len(a) THEN a[i] ELSE b[i - Len(a)]
  BY <1>2, ConcatProperties
<1>5. /\ x \in Seq(T) /\ Len(x) = n - 1
      /\ \A i \in 1 .. n - 1 : x[i] = IF i <= k - 1 THEN a[i] ELSE b[i - (k - 1)]
  <2>1. Len(a) + Len(b) = n - 1
    BY <1>2
  <2>2. QED BY <1>2, <1>4, <2>1
<1>6. \A i \in 1 .. n - 1 : x[i] = IF i < k THEN r[i] ELSE r[i + 1]
  <2>1. TAKE i \in 1 .. n - 1
  <2>2. CASE i < k
    <3>1. i \in 1 .. k - 1 /\ i <= k - 1
      BY <2>2
    <3>2. x[i] = a[i]
      BY <1>5, <3>1
    <3>3. QED BY <1>2, <2>2, <3>1, <3>2
  <2>3. CASE ~(i < k)
    <3>1. i - (k - 1) \in 1 .. n - k /\ ~(i <= k - 1) /\ k + (i - (k - 1)) = i + 1
      BY <2>3
    <3>2. x[i] = b[i - (k - 1)]
      BY <1>5, <3>1
    <3>3. QED BY <1>2, <2>3, <3>1, <3>2
  <2>4. QED BY <2>2, <2>3
<1> HIDE DEF x
<1>7. /\ Append(x, p) = [i \in 1 .. Len(x) + 1 |-> IF i <= Len(x) THEN x[i] ELSE p]
      /\ Len(x) + 1 = n
  <2>1. Append(x, p) \in Seq(T) /\ Len(Append(x, p)) = Len(x) + 1
    BY <1>5
  <2>2. \A i \in 1 .. Len(x) + 1 : Append(x, p)[i] = IF i <= Len(x) THEN x[i] ELSE p
    BY <1>5
  <2>3. \A z \in Seq(T) : z = [i \in 1 .. Len(z) |-> z[i]]
    OBVIOUS
  <2>4. Append(x, p) = [i \in 1 .. Len(x) + 1 |-> Append(x, p)[i]]
    BY <2>1, <2>3, Zenon
  <2>5. Len(x) + 1 = n
    BY <1>5
  <2>6. QED BY <2>2, <2>4, <2>5
<1>8. \A i \in 1 .. n : (IF i <= Len(x) THEN x[i] ELSE p) = y[i]
  <2>1. TAKE i \in 1 .. n
  <2>2. CASE i = n
    BY <1>5, <2>2
  <2>3. CASE i # n
    <3>1. i \in 1 .. n - 1 /\ i < n /\ i <= n - 1
      BY <2>3
    <3>2. QED BY <1>5, <1>6, <3>1
  <2>4. QED BY <2>2, <2>3
<1>9. Append(x, p) = y
  BY <1>7, <1>8
<1>10. QED BY <1>3, <1>9

(* What the order of the slots says of the pages.                           *)
LEMMA OrderNow ==
  ASSUME PagerInv, NEW n, NEW f, Ordered(f, n, slots)
  PROVE  /\ Ticking(slots) /\ n \in Nat
         /\ Recency = [i \in 1 .. n |-> slots[f[i]].page]
         /\ Recency \in [1 .. n -> Page] /\ Len(Recency) = n
         /\ \A i \in 1 .. n : f[i] \in DOMAIN slots /\ Recency[i] = slots[f[i]].page
         /\ IsFiniteSet(SlotsInUse(slots)) /\ Cardinality(SlotsInUse(slots)) = n
         /\ IsFiniteSet(DOMAIN slots) /\ Cardinality(DOMAIN slots) \in Nat
<1>1. Ticking(slots)
  BY DEF PagerInv, PagerTypeOK, Ticking
<1>2. Recency = [i \in 1 .. n |-> slots[f[i]].page]
  BY <1>1, PagesOf, RecencyNow
<1>3. /\ n \in Nat /\ \A i \in 1 .. n : f[i] \in DOMAIN slots
      /\ IsFiniteSet(SlotsInUse(slots)) /\ Cardinality(SlotsInUse(slots)) = n
  BY <1>1, OrderedDiffer
<1>4. \A i \in 1 .. n : slots[f[i]].page \in Page
  BY <1>3 DEF PagerInv, PagerTypeOK
<1>5. IsFiniteSet(DOMAIN slots) /\ Cardinality(DOMAIN slots) \in Nat
  <2>1. PICK m \in Nat : DOMAIN slots = 1 .. m
    BY DEF PagerInv, PagerTypeOK
  <2>2. QED BY <2>1, FS_Interval, FS_CardinalityType
<1>6. Recency \in [1 .. n -> Page] /\ Len(Recency) = n
  BY <1>2, <1>3, <1>4
<1>7. QED BY <1>1, <1>2, <1>3, <1>5, <1>6

(* What an order of the slots after a step says of the pages then.          *)
LEMMA OrderNext ==
  ASSUME PagerInv', NEW n, NEW f, Ordered(f, n, slots')
  PROVE  Recency' = [i \in 1 .. n |-> slots'[f[i]].page]
<1>1. Ticking(slots')
  BY DEF PagerInv, PagerTypeOK, Ticking
<1>2. QED BY <1>1, PagesOf, RecencyNext

(* Counting a request.                                                      *)
LEMMA CountedOnce ==
  ASSUME StatsTyped, NEW class \in Class, NEW missed \in BOOLEAN, stats' = Counted(class, missed)
  PROVE  /\ StatsTyped'
         /\ stats'.hits = (IF missed THEN stats.hits ELSE stats.hits + 1)
         /\ stats'.misses = (IF missed THEN stats.misses + 1 ELSE stats.misses)
<1>1. /\ stats = [hits |-> stats.hits, misses |-> stats.misses,
                  pages |-> stats.pages, missed |-> stats.missed]
      /\ stats.hits \in Nat /\ stats.misses \in Nat
      /\ stats.pages \in [Class -> Nat] /\ stats.missed \in [Class -> Nat]
  BY DEF StatsTyped
<1> DEFINE pages == [stats.pages EXCEPT ![class] = @ + 1]
           failed == [stats.missed EXCEPT ![class] = IF missed THEN @ + 1 ELSE @]
           hits == IF missed THEN stats.hits ELSE stats.hits + 1
           misses == IF missed THEN stats.misses + 1 ELSE stats.misses
<1>2. pages \in [Class -> Nat] /\ failed \in [Class -> Nat] /\ hits \in Nat /\ misses \in Nat
  BY <1>1
<1>3. stats' = [hits |-> hits, misses |-> misses, pages |-> pages, missed |-> failed]
  BY <1>1 DEF Counted
<1> HIDE DEF pages, failed, hits, misses
<1>4. stats'.hits = hits /\ stats'.misses = misses /\ StatsTyped'
  BY <1>2, <1>3 DEF StatsTyped
<1>5. QED BY <1>4 DEF hits, misses

(* A slot that is written anew is used later than every other.              *)
LEMMA WrittenLast ==
  ASSUME PagerInv, NEW v \in DOMAIN slots, NEW p, NEW bytes,
         slots' = [slots EXCEPT ![v] = InUse(p, tick + 1, bytes)]
  PROVE  Renewed(slots, slots', v) /\ slots'[v].page = p
<1>1. tick \in Nat /\ \A s \in DOMAIN slots : slots[s].tick \in Nat
  BY DEF PagerInv, PagerTypeOK
<1>2. \A s \in DOMAIN slots : slots[s].valid => slots[s].tick \in 1 .. tick
  BY DEF PagerInv, PagerConsistent
<1>3. /\ DOMAIN slots' = DOMAIN slots
      /\ \A s \in DOMAIN slots \ {v} : slots'[s] = slots[s]
      /\ slots'[v].valid /\ slots'[v].tick = tick + 1 /\ slots'[v].page = p
  BY DEF InUse
<1>4. tick + 1 \in Nat /\ \A t \in 1 .. tick : t < tick + 1
  BY <1>1
<1>5. \A s \in DOMAIN slots : slots[s].valid => slots[s].tick < tick + 1
  BY <1>2, <1>4
<1>6. QED BY <1>3, <1>4, <1>5 DEF Renewed

ReferenceKept == StatsTyped' /\ \E n \in Nat : \E f : Ordered(f, n, slots')

(* A hit moves its page to the end.                                         *)
LEMMA HitRefines ==
  ASSUME ReferenceInv, PagerInv', NEW p \in Page, NEW class \in Class, Hit(p, class)
  PROVE  ReferenceKept /\ LruReference!Hit(p)
<1>1. PICK s \in Holding(p) :
        /\ slots' = [slots EXCEPT ![s] = InUse(p, tick + 1, slots[s].bytes)]
        /\ given' = [found |-> TRUE, page |-> p, bytes |-> slots[s].bytes]
        /\ stats' = Counted(class, FALSE)
  BY DEF Hit
<1>2. s \in DOMAIN slots /\ s \in SlotsInUse(slots) /\ slots[s].page = p
  BY DEF Holding, SlotsInUse
<1>3. PICK n \in Nat : \E f : Ordered(f, n, slots)
  BY DEF ReferenceInv
<1>4. PICK f : Ordered(f, n, slots)
  BY <1>3
<1>5. PagerInv /\ StatsTyped
  BY DEF ReferenceInv
<1>6. /\ Ticking(slots) /\ Recency \in [1 .. n -> Page] /\ Len(Recency) = n
      /\ \A i \in 1 .. n : f[i] \in DOMAIN slots /\ Recency[i] = slots[f[i]].page
  BY <1>4, <1>5, OrderNow
<1>7. PICK k \in 1 .. n : f[k] = s
  BY <1>2, <1>4 DEF Ordered
<1>8. Renewed(slots, slots', f[k]) /\ slots'[s].page = p
  BY <1>1, <1>2, <1>5, <1>7, WrittenLast
<1> DEFINE g == Moved(f, n, k)
<1>9. Ordered(g, n, slots')
  BY <1>4, <1>6, <1>8, MovedOrdered
<1>10. Recency' = [i \in 1 .. n |-> slots'[g[i]].page]
  BY <1>9, OrderNext
<1>11. \A i \in 1 .. n :
         slots'[g[i]].page = IF i < k THEN Recency[i] ELSE IF i < n THEN Recency[i + 1] ELSE p
  <2>1. TAKE i \in 1 .. n
  <2>2. g[i] = IF i < k THEN f[i] ELSE IF i < n THEN f[i + 1] ELSE f[k]
    BY DEF Moved
  <2>3. \A j \in 1 .. n : j # k => slots'[f[j]].page = Recency[j]
    <3>1. TAKE j \in 1 .. n
    <3>2. HAVE j # k
    <3>3. f[j] # f[k] /\ f[j] \in DOMAIN slots
      BY <1>4, <1>6, <3>2, OrderedDiffer
    <3>4. slots'[f[j]] = slots[f[j]]
      BY <1>8, <3>3 DEF Renewed
    <3>5. QED BY <1>6, <3>4
  <2> HIDE DEF g
  <2>4. CASE i < k
    <3>1. i # k
      BY <1>3, <2>4
    <3>2. QED BY <2>2, <2>3, <2>4, <3>1
  <2>5. CASE ~(i < k) /\ i < n
    <3>1. i + 1 \in 1 .. n /\ i + 1 # k
      BY <1>3, <2>5
    <3>2. QED BY <2>2, <2>3, <2>5, <3>1
  <2>6. CASE ~(i < k) /\ ~(i < n)
    BY <1>7, <1>8, <2>2, <2>6
  <2>7. QED BY <2>4, <2>5, <2>6
<1> HIDE DEF g
<1>12. Recency' = Append(LruReference!RemoveAt(Recency, k), p)
  <2>1. Append(LruReference!RemoveAt(Recency, k), p) =
          [i \in 1 .. n |-> IF i < k THEN Recency[i] ELSE IF i < n THEN Recency[i + 1] ELSE p]
    <3>1. n \in Nat /\ Recency \in [1 .. n -> Page] /\ k \in 1 .. n /\ p \in Page
      BY <1>3, <1>6
    <3>2. QED BY <3>1, MovedToEnd
  <2>2. QED BY <1>10, <1>11, <2>1
<1>13. /\ StatsTyped' /\ stats'.hits = stats.hits + 1 /\ stats'.misses = stats.misses
  BY <1>1, <1>5, CountedOnce
<1>14. k \in 1 .. Len(Recency) /\ Recency[k] = p
  BY <1>2, <1>6, <1>7
<1>15. given'.page = p /\ DOMAIN slots' = DOMAIN slots
  BY <1>1
<1>16. LruReference!Hit(p)
  BY <1>12, <1>13, <1>14, <1>15 DEF LruReference!Hit
<1>17. QED BY <1>3, <1>9, <1>13, <1>16 DEF ReferenceKept

(* A page in no slot is in no place of the dictionary.                      *)
LEMMA NotResident ==
  ASSUME PagerInv, NEW n, NEW f, Ordered(f, n, slots), NEW p, Holding(p) = {}
  PROVE  p \notin LruReference!Resident
<1>1. /\ Len(Recency) = n
      /\ \A i \in 1 .. n : f[i] \in DOMAIN slots /\ Recency[i] = slots[f[i]].page
  BY OrderNow
<1>2. \A i \in 1 .. n : slots[f[i]].valid
  <2>1. Ticking(slots)
    BY OrderNow
  <2>2. QED BY <2>1, OrderedDiffer
<1>3. \A i \in 1 .. n : Recency[i] # p
  BY <1>1, <1>2 DEF Holding
<1>4. QED BY <1>1, <1>3 DEF LruReference!Resident

(* A read that fails is a miss that leaves the dictionary as it was.        *)
LEMMA FailedReadRefines ==
  ASSUME ReferenceInv, PagerInv', NEW p \in Page, NEW class \in Class,
         NEW m \in 0 .. PageWords - 1, FailedRead(p, class, m)
  PROVE  ReferenceKept /\ LruReference!FailedMiss(p)
<1>1. PICK n \in Nat : \E f : Ordered(f, n, slots)
  BY DEF ReferenceInv
<1>2. PICK f : Ordered(f, n, slots)
  BY <1>1
<1>3. PagerInv /\ StatsTyped
  BY DEF ReferenceInv
<1>4. /\ Recency = [i \in 1 .. n |-> slots[f[i]].page]
      /\ \A i \in 1 .. n : f[i] \in DOMAIN slots
  BY <1>2, <1>3, OrderNow
<1>5. /\ DOMAIN slots' = DOMAIN slots
      /\ \A s \in DOMAIN slots : /\ slots'[s].valid = slots[s].valid
                                 /\ slots'[s].page = slots[s].page
                                 /\ slots'[s].tick = slots[s].tick
  <2>1. CASE DOMAIN slots = {}
    BY <2>1 DEF FailedRead
  <2>2. CASE DOMAIN slots # {}
    <3> DEFINE v == Victim
    <3>1. v \in DOMAIN slots /\ slots' = [slots EXCEPT ![v] = Overwritten(slots[v], p, m)]
      BY <1>3, <2>2, VictimIsSlot DEF FailedRead, PagerInv
    <3> HIDE DEF v
    <3>2. /\ Overwritten(slots[v], p, m).valid = slots[v].valid
          /\ Overwritten(slots[v], p, m).page = slots[v].page
          /\ Overwritten(slots[v], p, m).tick = slots[v].tick
      BY DEF Overwritten
    <3>3. QED BY <3>1, <3>2
  <2>3. QED BY <2>1, <2>2
<1>6. SlotsInUse(slots') = SlotsInUse(slots)
  BY <1>5 DEF SlotsInUse
<1>7. Ordered(f, n, slots')
  BY <1>2, <1>4, <1>5, <1>6 DEF Ordered
<1>8. Recency' = Recency
  <2>1. Recency' = [i \in 1 .. n |-> slots'[f[i]].page]
    BY <1>7, OrderNext
  <2>2. QED BY <1>4, <1>5, <2>1
<1>9. Holding(p) = {} /\ given' = NoPage(p) /\ stats' = Counted(class, TRUE)
  BY DEF FailedRead
<1>10. p \notin LruReference!Resident
  BY <1>2, <1>3, <1>9, NotResident
<1>11. StatsTyped' /\ stats'.hits = stats.hits /\ stats'.misses = stats.misses + 1
  BY <1>3, <1>9, CountedOnce
<1>12. given'.page = p
  BY <1>9 DEF NoPage
<1>13. LruReference!FailedMiss(p)
  BY <1>5, <1>8, <1>10, <1>11, <1>12 DEF LruReference!FailedMiss
<1>14. QED BY <1>1, <1>7, <1>11, <1>13 DEF ReferenceKept

(* The slot a page is read into: one that was never in use, else the first  *)
(* one of the order.                                                        *)
LEMMA VictimInOrder ==
  ASSUME PagerInv, NEW n, NEW f, Ordered(f, n, slots), DOMAIN slots # {}
  PROVE  IF Unused # {} THEN Victim \in Unused /\ n < Cardinality(DOMAIN slots)
         ELSE n = Cardinality(DOMAIN slots) /\ 1 \in 1 .. n /\ Victim = f[1]
<1>1. /\ Ticking(slots) /\ n \in Nat
      /\ IsFiniteSet(SlotsInUse(slots)) /\ Cardinality(SlotsInUse(slots)) = n
      /\ IsFiniteSet(DOMAIN slots) /\ Cardinality(DOMAIN slots) \in Nat
  BY OrderNow
<1>2. /\ f \in [1 .. n -> SlotsInUse(slots)]
      /\ \A i, j \in 1 .. n : i < j => slots[f[i]].tick < slots[f[j]].tick
      /\ \A s \in SlotsInUse(slots) : \E i \in 1 .. n : f[i] = s
  BY DEF Ordered
<1>3. DOMAIN slots \in SUBSET Nat
  BY DEF PagerInv, PagerTypeOK
<1>4. CASE Unused # {}
  <2>1. Victim \in Unused
    <3>1. Unused \in SUBSET Nat
      BY <1>3 DEF Unused
    <3>2. QED BY <1>4, <3>1, LowestIn DEF Victim
  <2>2. SlotsInUse(slots) \subseteq DOMAIN slots /\ SlotsInUse(slots) # DOMAIN slots
    BY <1>4 DEF SlotsInUse, Unused
  <2>3. Cardinality(SlotsInUse(slots)) < Cardinality(DOMAIN slots)
    <3>1. /\ Cardinality(SlotsInUse(slots)) <= Cardinality(DOMAIN slots)
          /\ Cardinality(SlotsInUse(slots)) # Cardinality(DOMAIN slots)
      BY <1>1, <2>2, FS_Subset
    <3>2. \A a, b \in Nat : a <= b /\ a # b => a < b
      OBVIOUS
    <3>3. QED BY <1>1, <3>1, <3>2
  <2>4. QED BY <1>1, <1>4, <2>1, <2>3
<1>5. CASE Unused = {}
  <2>1. SlotsInUse(slots) = DOMAIN slots
    BY <1>5 DEF SlotsInUse, Unused
  <2>2. PICK s \in DOMAIN slots : TRUE
    OBVIOUS
  <2>3. PICK i \in 1 .. n : f[i] = s
    BY <1>2, <2>1
  <2>4. 1 \in 1 .. n
    BY <1>1, <2>3
  <2>5. \A t \in DOMAIN slots : t # f[1] => slots[f[1]].tick < slots[t].tick
    <3>1. TAKE t \in DOMAIN slots
    <3>2. HAVE t # f[1]
    <3>3. PICK j \in 1 .. n : f[j] = t
      BY <1>2, <2>1
    <3>4. 1 < j
      BY <1>1, <3>2, <3>3
    <3>5. QED BY <1>2, <2>4, <3>3, <3>4
  <2>6. f[1] \in DOMAIN slots
    BY <1>2, <2>1, <2>4
  <2>7. \A a, b \in Nat : a < b => a <= b /\ ~(b <= a)
    OBVIOUS
  <2>8. \A t \in DOMAIN slots : slots[t].tick \in Nat
    BY <1>1 DEF Ticking
  <2>9. OldestOf(DOMAIN slots) = {f[1]}
    <3>1. \A t \in DOMAIN slots : slots[f[1]].tick <= slots[t].tick
      <4>1. TAKE t \in DOMAIN slots
      <4>2. CASE t = f[1]
        <5>1. \A m \in Nat : m <= m
          OBVIOUS
        <5>2. QED BY <2>6, <2>8, <4>2, <5>1
      <4>3. CASE t # f[1]
        BY <2>5, <2>6, <2>7, <2>8, <4>3
      <4>4. QED BY <4>2, <4>3
    <3>2. \A t \in DOMAIN slots : t # f[1] => ~(slots[t].tick <= slots[f[1]].tick)
      BY <2>5, <2>6, <2>7, <2>8
    <3>3. QED BY <2>6, <3>1, <3>2 DEF OldestOf
  <2>10. Victim = f[1]
    <3>1. {f[1]} \in SUBSET Nat /\ {f[1]} # {}
      BY <1>3, <2>6
    <3>2. Lowest({f[1]}) \in {f[1]}
      BY <3>1, LowestIn
    <3>3. QED BY <1>5, <2>9, <3>2 DEF Victim
  <2>11. QED BY <1>1, <1>5, <2>1, <2>4, <2>10
<1>6. QED BY <1>4, <1>5

(* A miss puts its page last and drops the first when there are too many.   *)
LEMMA FillRefines ==
  ASSUME ReferenceInv, PagerInv', NEW p \in Page, NEW class \in Class, Fill(p, class)
  PROVE  ReferenceKept /\ LruReference!Miss(p)
<1> DEFINE capacity == Cardinality(DOMAIN slots)
           all == Append(Recency, p)
<1>1. PICK n \in Nat : \E f : Ordered(f, n, slots)
  BY DEF ReferenceInv
<1>2. PICK f : Ordered(f, n, slots)
  BY <1>1
<1>3. PagerInv /\ StatsTyped
  BY DEF ReferenceInv
<1>4. /\ Ticking(slots) /\ Recency \in [1 .. n -> Page] /\ Len(Recency) = n
      /\ \A i \in 1 .. n : f[i] \in DOMAIN slots /\ Recency[i] = slots[f[i]].page
      /\ IsFiniteSet(DOMAIN slots) /\ capacity \in Nat
  BY <1>2, <1>3, OrderNow
<1>5. Holding(p) = {} /\ given' = [found |-> TRUE, page |-> p, bytes |-> Content[p]]
      /\ stats' = Counted(class, TRUE)
  BY DEF Fill
<1>6. p \notin LruReference!Resident
  BY <1>2, <1>3, <1>5, NotResident
<1>7. StatsTyped' /\ stats'.hits = stats.hits /\ stats'.misses = stats.misses + 1
  BY <1>3, <1>5, CountedOnce
<1>8. given'.page = p
  BY <1>5
<1>9. SUFFICES /\ \E k \in Nat : \E g : Ordered(g, k, slots')
               /\ DOMAIN slots' = DOMAIN slots
               /\ Recency' = IF capacity = 0 THEN Recency
                             ELSE IF Len(all) > capacity THEN Tail(all) ELSE all
  BY <1>6, <1>7, <1>8 DEF ReferenceKept, LruReference!Miss
<1>10. /\ all = [i \in 1 .. n + 1 |-> IF i <= n THEN Recency[i] ELSE p]
       /\ Len(all) = n + 1
  <2>1. Recency \in Seq(Page)
    BY <1>4
  <2>2. /\ all \in Seq(Page) /\ Len(all) = n + 1
        /\ \A i \in 1 .. n + 1 : all[i] = IF i <= n THEN Recency[i] ELSE p
    BY <1>4, <2>1
  <2>3. \A z \in Seq(Page) : z = [i \in 1 .. Len(z) |-> z[i]]
    OBVIOUS
  <2>4. all = [i \in 1 .. n + 1 |-> all[i]]
    BY <2>2, <2>3, Zenon
  <2>5. QED BY <2>2, <2>4
<1>11. CASE DOMAIN slots = {}
  <2>1. slots' = slots /\ capacity = 0
    BY <1>11, FS_EmptySet DEF Fill
  <2>2. Recency' = Recency
    BY <2>1, RecencyNow, RecencyNext
  <2>3. QED BY <1>2, <2>1, <2>2
<1>12. CASE DOMAIN slots # {}
  <2> DEFINE v == Victim
  <2>1. v \in DOMAIN slots /\ slots' = [slots EXCEPT ![v] = InUse(p, tick + 1, Content[p])]
    BY <1>3, <1>12, VictimIsSlot DEF Fill, Loaded, PagerInv
  <2>2. IF Unused # {} THEN v \in Unused /\ n < capacity
        ELSE n = capacity /\ 1 \in 1 .. n /\ v = f[1]
    BY <1>2, <1>3, <1>12, VictimInOrder
  <2> HIDE DEF v
  <2>3. Renewed(slots, slots', v) /\ slots'[v].page = p
    BY <1>3, <2>1, WrittenLast
  <2>4. \A i \in 1 .. n : f[i] # v => slots'[f[i]].page = Recency[i]
    BY <1>4, <2>3 DEF Renewed
  <2>5. DOMAIN slots' = DOMAIN slots
    BY <2>3 DEF Renewed
  <2>6. CASE Unused # {}
    <3> DEFINE g == Added(f, n, v)
    <3>1. v \in Unused /\ ~slots[v].valid
      BY <2>2, <2>6 DEF Unused
    <3>2. Ordered(g, n + 1, slots')
      BY <1>2, <1>4, <2>3, <3>1, AddedOrdered
    <3>3. Recency' = [i \in 1 .. n + 1 |-> slots'[g[i]].page]
      BY <3>2, OrderNext
    <3>4. \A i \in 1 .. n : f[i] # v
      <4>1. \A i \in 1 .. n : slots[f[i]].valid
        BY <1>2, <1>4, OrderedDiffer
      <4>2. QED BY <3>1, <4>1
    <3>5. \A i \in 1 .. n + 1 : slots'[g[i]].page = IF i <= n THEN Recency[i] ELSE p
      BY <1>1, <2>3, <2>4, <3>4 DEF Added
    <3> HIDE DEF g
    <3>6. Recency' = all
      BY <1>10, <3>3, <3>5
    <3>7. capacity # 0 /\ ~(Len(all) > capacity) /\ n + 1 \in Nat
      BY <1>1, <1>4, <1>10, <2>2, <2>6
    <3>8. QED BY <2>5, <3>2, <3>6, <3>7
  <2>7. CASE Unused = {}
    <3> DEFINE g == Moved(f, n, 1)
    <3>1. n = capacity /\ 1 \in 1 .. n /\ v = f[1]
      BY <2>2, <2>7
    <3>2. Ordered(g, n, slots')
      BY <1>2, <1>4, <2>3, <3>1, MovedOrdered
    <3>3. Recency' = [i \in 1 .. n |-> slots'[g[i]].page]
      BY <3>2, OrderNext
    <3>4. \A i \in 1 .. n : i # 1 => f[i] # v
      BY <1>2, <1>4, <3>1, OrderedDiffer
    <3>5. \A i \in 1 .. n : slots'[g[i]].page = IF i < n THEN Recency[i + 1] ELSE p
      <4>1. TAKE i \in 1 .. n
      <4>2. g[i] = IF i < n THEN f[i + 1] ELSE v
        BY <3>1 DEF Moved
      <4> HIDE DEF g
      <4>3. CASE i < n
        <5>1. i + 1 \in 1 .. n /\ i + 1 # 1
          BY <1>1, <4>3
        <5>2. QED BY <2>4, <3>4, <4>2, <4>3, <5>1
      <4>4. CASE ~(i < n)
        BY <2>3, <4>2, <4>4
      <4>5. QED BY <4>3, <4>4
    <3> HIDE DEF g
    <3>6. Tail(all) = [i \in 1 .. n |-> IF i < n THEN Recency[i + 1] ELSE p]
      <4>1. Tail(all) = [i \in 1 .. n |-> all[i + 1]]
        BY <1>1, <1>10
      <4>2. \A i \in 1 .. n : all[i + 1] = IF i < n THEN Recency[i + 1] ELSE p
        BY <1>1, <1>10
      <4>3. QED BY <4>1, <4>2
    <3>7. Recency' = Tail(all)
      BY <3>3, <3>5, <3>6
    <3>8. capacity # 0 /\ Len(all) > capacity
      BY <1>1, <1>10, <3>1
    <3>9. QED BY <1>1, <2>5, <3>2, <3>7, <3>8
  <2>8. QED BY <2>6, <2>7
<1>13. QED BY <1>11, <1>12

(* An empty cache is an empty dictionary.                                   *)
LEMMA CreateRefines == pager_create => ReferenceInv /\ LruReference!Init
<1> SUFFICES ASSUME pager_create PROVE ReferenceInv /\ LruReference!Init
  OBVIOUS
<1>1. PagerInv
  BY InitInv
<1>2. StatsTyped
  BY DEF pager_create, StatsTyped, NoneCounted
<1>3. SlotsInUse(slots) = {}
  BY DEF pager_create, EmptySlot, SlotsInUse
<1>4. Ordered(<<>>, 0, slots)
  BY <1>3 DEF Ordered
<1>5. Recency = <<>> /\ Cardinality(DOMAIN slots) \in Nat
  <2>1. /\ Recency = [i \in 1 .. 0 |-> slots[<<>>[i]].page]
        /\ Cardinality(DOMAIN slots) \in Nat
    BY <1>1, <1>4, OrderNow
  <2>2. QED BY <2>1
<1>6. stats.hits = 0 /\ stats.misses = 0 /\ given.page = PageZero /\ PageZero \in Page
  BY PagerAssumption DEF pager_create, NoPage
<1>7. LruReference!Init
  BY <1>5, <1>6 DEF LruReference!Init
<1>8. ReferenceInv
  BY <1>1, <1>2, <1>4 DEF ReferenceInv
<1>9. QED BY <1>7, <1>8

(* Every step is a step of the dictionary or none.                          *)
LEMMA StepRefines ==
  ASSUME ReferenceInv, PagerInv', [PagerNext]_pagerVars
  PROVE  ReferenceInv' /\ [LruReference!Next]_(LruReference!vars)
<1>1. CASE UNCHANGED pagerVars
  <2>1. slots' = slots /\ stats' = stats /\ given' = given
    BY <1>1 DEF pagerVars
  <2>2. Recency' = Recency
    BY <2>1, RecencyNow, RecencyNext
  <2>3. UNCHANGED LruReference!vars
    BY <2>1, <2>2 DEF LruReference!vars
  <2>4. ReferenceInv'
    BY <2>1 DEF ReferenceInv, StatsTyped
  <2>5. QED BY <2>3, <2>4
<1>2. ASSUME NEW p \in Page, NEW class \in Class, Hit(p, class)
      PROVE  ReferenceKept /\ LruReference!Next
  BY <1>2, HitRefines DEF LruReference!Next
<1>3. ASSUME NEW p \in Page, NEW class \in Class, Fill(p, class)
      PROVE  ReferenceKept /\ LruReference!Next
  BY <1>3, FillRefines DEF LruReference!Next
<1>4. ASSUME NEW p \in Page, NEW class \in Class, NEW n \in 0 .. PageWords - 1,
             FailedRead(p, class, n)
      PROVE  ReferenceKept /\ LruReference!Next
  BY <1>4, FailedReadRefines DEF LruReference!Next
<1>5. CASE PagerNext
  <2>1. ReferenceKept /\ LruReference!Next
    BY <1>2, <1>3, <1>4, <1>5 DEF PagerNext, pager_page
  <2>2. QED BY <2>1 DEF ReferenceKept, ReferenceInv
<1>6. QED BY <1>1, <1>5

(* The firmware's page cache implements the ordered dictionary with which   *)
(* the host counts page reads, for every number of slots, every pack and    *)
(* every pattern of requests and failing reads (pager_page): it evicts the  *)
(* same pages and counts the same hits and misses.                          *)
THEOREM PagerImplementsReference == PagerSpec => ImplementsReference
<1>1. ReferenceInv /\ PagerInv' /\ [PagerNext]_pagerVars
        => ReferenceInv' /\ [LruReference!Next]_(LruReference!vars)
  BY StepRefines
<1>2. QED
  BY CreateRefines, <1>1, PagerInvariant, PTL
  DEF PagerSpec, ImplementsReference, LruReference!Spec

----------------------------------------------------------------------------
(* Pages of a number of words.                                              *)

(* Quotient and remainder.                                                  *)
LEMMA DivMod ==
  ASSUME NEW x \in Nat, NEW d \in Nat \ {0}
  PROVE  /\ x \div d \in Nat /\ x % d \in 0 .. d - 1
         /\ x = (x \div d) * d + (x % d)
OBVIOUS

(* The order of multiples.                                                  *)
LEMMA Multiples ==
  ASSUME NEW m \in Int, NEW n \in Int, NEW d \in Nat \ {0}
  PROVE  /\ m * d \in Int /\ n * d \in Int /\ (n + 1) * d = n * d + d
         /\ m <= n => m * d <= n * d
         /\ m < n => m * d + d <= n * d
OBVIOUS

(* The quotient is the only number whose multiple is that near.             *)
LEMMA DivUnique ==
  ASSUME NEW x \in Nat, NEW d \in Nat \ {0}, NEW n \in Nat, NEW r \in 0 .. d - 1, x = n * d + r
  PROVE  x \div d = n /\ x % d = r
<1> DEFINE q == x \div d
           s == x % d
<1>1. q \in Nat /\ s \in 0 .. d - 1 /\ x = q * d + s
  BY DivMod
<1> HIDE DEF q, s
<1>2. ~(q < n)
  <2>1. SUFFICES ASSUME q < n PROVE FALSE
    OBVIOUS
  <2>2. q * d + d <= n * d /\ q * d \in Int /\ n * d \in Int
    BY <1>1, <2>1, Multiples
  <2>3. QED BY <1>1, <2>2
<1>3. ~(n < q)
  <2>1. SUFFICES ASSUME n < q PROVE FALSE
    OBVIOUS
  <2>2. n * d + d <= q * d /\ q * d \in Int /\ n * d \in Int
    BY <1>1, <2>1, Multiples
  <2>3. QED BY <1>1, <2>2
<1>4. q = n
  BY <1>1, <1>2, <1>3
<1>5. n * d \in Int
  OBVIOUS
<1>6. s = r
  BY <1>1, <1>4, <1>5
<1>7. QED BY <1>4, <1>6 DEF q, s

----------------------------------------------------------------------------
(* Sums over finite sets.                                                   *)

(* h adds up f over each subset of S, an element at a time.                 *)
Chosen(s) == CHOOSE x \in s : TRUE
IsSum(h, f, S) ==
  h = [s \in SUBSET S |-> IF s = {} THEN 0 ELSE f[Chosen(s)] + h[s \ {Chosen(s)}]]

(* An element of a set is chosen from it.                                   *)
LEMMA ChosenIn == \A s : s # {} => Chosen(s) \in s
BY DEF Chosen

(* The sum of the community module is the last value of such a function.    *)
LEMMA SumIs ==
  ASSUME NEW f, NEW S
  PROVE  SumFunctionOnSet(f, S) = (CHOOSE h : IsSum(h, f, S))[S]
BY DEF SumFunctionOnSet, FoldFunctionOnSet, MapThenFoldSet, IsSum, Chosen

(* What such a function gives for a subset.                                 *)
LEMMA SumAt ==
  ASSUME NEW f, NEW S, NEW h, IsSum(h, f, S), NEW s, s \subseteq S
  PROVE  /\ s = {} => h[s] = 0
         /\ s # {} => /\ Chosen(s) \in s
                      /\ h[s] = f[Chosen(s)] + h[s \ {Chosen(s)}]
<1> DEFINE c == Chosen(s)
           V == [u \in SUBSET S |->
                   IF u = {} THEN 0
                   ELSE f[Chosen(u)] + h[u \ {Chosen(u)}]]
<1>1. h = V
  BY DEF IsSum
<1>2. V[s] = IF s = {} THEN 0 ELSE f[c] + h[s \ {c}]
  OBVIOUS
<1>3. h[s] = IF s = {} THEN 0 ELSE f[c] + h[s \ {c}]
  BY <1>1, <1>2
<1>4. s # {} => c \in s
  BY ChosenIn
<1>5. QED BY <1>3, <1>4

(* Two of them agree on the finite sets they share.                         *)
LEMMA SumUnique ==
  ASSUME NEW f, NEW S, NEW T, NEW h, NEW k, IsSum(h, f, S), IsSum(k, f, T),
         NEW u, u \subseteq S, u \subseteq T, IsFiniteSet(u)
  PROVE  h[u] = k[u]
<1> DEFINE P == {n \in Nat :
                  \A s \in SUBSET u : IsFiniteSet(s) /\ Cardinality(s) = n => h[s] = k[s]}
<1>0. ASSUME NEW g, NEW R, IsSum(g, f, R), NEW s, s \subseteq R
      PROVE  /\ s = {} => g[s] = 0
             /\ s # {} => g[s] = f[Chosen(s)] + g[s \ {Chosen(s)}]
  BY <1>0, SumAt
<1>1. ASSUME NEW s \in SUBSET u
      PROVE  /\ s = {} => h[s] = 0 /\ k[s] = 0
             /\ s # {} => \E x \in s : h[s] = f[x] + h[s \ {x}] /\ k[s] = f[x] + k[s \ {x}]
  <2>1. s \subseteq S /\ s \subseteq T
    OBVIOUS
  <2>2. s = {} => h[s] = 0 /\ k[s] = 0
    BY <1>0, <2>1
  <2>3. s # {} => Chosen(s) \in s
    BY ChosenIn
  <2>4. ASSUME s # {} PROVE h[s] = f[Chosen(s)] + h[s \ {Chosen(s)}]
    BY <1>0, <2>1, <2>4
  <2>5. ASSUME s # {} PROVE k[s] = f[Chosen(s)] + k[s \ {Chosen(s)}]
    BY <1>0, <2>1, <2>5
  <2>6. QED BY <2>2, <2>3, <2>4, <2>5
<1>2. 0 \in P
  BY <1>1, FS_EmptySet
<1>3. ASSUME NEW n \in Nat, n \in P PROVE n + 1 \in P
  <2>1. SUFFICES ASSUME NEW s \in SUBSET u, IsFiniteSet(s), Cardinality(s) = n + 1
                 PROVE  h[s] = k[s]
    OBVIOUS
  <2>2. s # {}
    BY <2>1, FS_EmptySet
  <2>3. PICK x \in s : h[s] = f[x] + h[s \ {x}] /\ k[s] = f[x] + k[s \ {x}]
    BY <1>1, <2>2
  <2>4. IsFiniteSet(s \ {x}) /\ Cardinality(s \ {x}) = n
    <3>1. IsFiniteSet(s \ {x}) /\ Cardinality(s \ {x}) = Cardinality(s) - 1
      BY <2>1, FS_RemoveElement
    <3>2. QED BY <2>1, <3>1
  <2>5. h[s \ {x}] = k[s \ {x}]
    BY <1>3, <2>4
  <2>6. QED BY <2>3, <2>5
<1> HIDE DEF P
<1>4. Cardinality(u) \in P
  BY <1>2, <1>3, SetInduction, FS_CardinalityType
<1>5. QED BY <1>4 DEF P

(* There is one for every finite set.                                       *)
LEMMA SumExists ==
  ASSUME NEW f, NEW S, IsFiniteSet(S)
  PROVE  \E h : IsSum(h, f, S)
<1> DEFINE P == {n \in Nat : \A s : IsFiniteSet(s) /\ Cardinality(s) \in 0 .. n
                                    => \E h : IsSum(h, f, s)}
           H(s) == CHOOSE h : IsSum(h, f, s)
<1>1. 0 \in P
  <2>1. SUFFICES \E h : IsSum(h, f, {})
    BY FS_EmptySet
  <2>2. IsSum([s \in {{}} |-> 0], f, {})
    <3>1. SUBSET {} = {{}}
      OBVIOUS
    <3>2. [s \in SUBSET {} |->
             IF s = {} THEN 0
             ELSE f[Chosen(s)]
                  + [z \in {{}} |-> 0][s \ {Chosen(s)}]] = [s \in {{}} |-> 0]
      BY <3>1
    <3>3. QED BY <3>2 DEF IsSum
  <2>3. QED BY <2>2
<1>2. ASSUME NEW n \in Nat, n \in P PROVE n + 1 \in P
  <2>1. SUFFICES ASSUME NEW u, IsFiniteSet(u), Cardinality(u) \in 0 .. n + 1
                 PROVE  \E h : IsSum(h, f, u)
    OBVIOUS
  <2>2. CASE Cardinality(u) \in 0 .. n
    BY <1>2, <2>1, <2>2
  <2>3. CASE Cardinality(u) = n + 1
    <3>1. u # {} /\ Chosen(u) \in u
      BY <2>1, <2>3, FS_EmptySet, ChosenIn
    <3>2. ASSUME NEW s \in SUBSET u, s # u
          PROVE  IsFiniteSet(s) /\ IsSum(H(s), f, s)
      <4>1. IsFiniteSet(s) /\ Cardinality(s) <= Cardinality(u) /\ Cardinality(s) # Cardinality(u)
        BY <2>1, <3>2, FS_Subset
      <4>2. Cardinality(s) \in 0 .. n
        BY <2>3, <4>1, FS_CardinalityType
      <4>3. \E h : IsSum(h, f, s)
        BY <1>2, <4>1, <4>2
      <4>4. QED BY <4>1, <4>3
    <3> DEFINE g == [s \in SUBSET u |-> IF s = u THEN f[Chosen(u)] + H(u \ {Chosen(u)})[u \ {Chosen(u)}]
                                        ELSE H(s)[s]]
    <3>3. ASSUME NEW s \in SUBSET u
          PROVE  g[s] = IF s = {} THEN 0 ELSE f[Chosen(s)] + g[s \ {Chosen(s)}]
      <4>1. CASE s = u
        <5>1. u \ {Chosen(u)} \in SUBSET u /\ u \ {Chosen(u)} # u
          BY <3>1
        <5>2. g[u \ {Chosen(u)}] = H(u \ {Chosen(u)})[u \ {Chosen(u)}]
          BY <5>1
        <5>3. g[u] = f[Chosen(u)] + H(u \ {Chosen(u)})[u \ {Chosen(u)}]
          OBVIOUS
        <5> HIDE DEF g, H
        <5>4. QED BY <3>1, <4>1, <5>2, <5>3
      <4>2. CASE s # u
        <5>1. g[s] = H(s)[s]
          BY <4>2
        <5>2. IsSum(H(s), f, s)
          BY <3>2, <4>2
        <5>3. s = {} => H(s)[s] = 0
          BY <5>2, SumAt
        <5>4. ASSUME s # {} PROVE H(s)[s] = f[Chosen(s)] + H(s)[s \ {Chosen(s)}]
          BY <5>2, <5>4, SumAt
        <5>5. ASSUME s # {} PROVE H(s)[s \ {Chosen(s)}] = g[s \ {Chosen(s)}]
          <6>1. Chosen(s) \in s
            BY <5>5, ChosenIn
          <6> DEFINE r == s \ {Chosen(s)}
          <6>2. r \in SUBSET u /\ r # u /\ r \subseteq s
            BY <6>1
          <6>3. g[r] = H(r)[r]
            BY <6>2
          <6>4. IsSum(H(r), f, r) /\ IsFiniteSet(r)
            BY <3>2, <6>2
          <6> HIDE DEF g, H, r
          <6>5. H(s)[r] = H(r)[r]
            BY <5>2, <6>2, <6>4, SumUnique
          <6>6. QED BY <6>3, <6>5 DEF r
        <5> HIDE DEF g, H
        <5>6. QED BY <5>1, <5>3, <5>4, <5>5
      <4>3. QED BY <4>1, <4>2
    <3>4. g = [s \in SUBSET u |-> g[s]]
      OBVIOUS
    <3> HIDE DEF g
    <3>5. g = [s \in SUBSET u |-> IF s = {} THEN 0 ELSE f[Chosen(s)] + g[s \ {Chosen(s)}]]
      BY <3>3, <3>4
    <3>6. QED BY <3>5 DEF IsSum
  <2>4. QED BY <2>1, <2>2, <2>3
<1> HIDE DEF P
<1>3. Cardinality(S) \in P
  <2>1. Cardinality(S) \in Nat
    BY FS_CardinalityType
  <2>2. Nat \subseteq P
    BY <1>1, <1>2, SetInduction
  <2>3. QED BY <2>1, <2>2
<1>4. QED
  <2>1. Cardinality(S) \in 0 .. Cardinality(S)
    BY FS_CardinalityType
  <2>2. QED BY <1>3, <2>1 DEF P

(* A sum starts with one of the elements.                                   *)
LEMMA SumStart ==
  ASSUME NEW f, NEW S, IsFiniteSet(S)
  PROVE  /\ S = {} => SumFunctionOnSet(f, S) = 0
         /\ S # {} => \E x \in S :
              SumFunctionOnSet(f, S) = f[x] + SumFunctionOnSet(f, S \ {x})
<1> DEFINE H(s) == CHOOSE h : IsSum(h, f, s)
<1>1. \A s : SumFunctionOnSet(f, s) = H(s)[s]
  BY SumIs
<1>2. ASSUME NEW s, IsFiniteSet(s) PROVE IsSum(H(s), f, s)
  BY <1>2, SumExists
<1> HIDE DEF H
<1>3. CASE S = {}
  BY <1>1, <1>2, <1>3, SumAt
<1>4. CASE S # {}
  <2> DEFINE c == Chosen(S)
  <2>1. c \in S /\ S \ {c} \subseteq S /\ IsFiniteSet(S \ {c})
    BY <1>4, FS_RemoveElement, ChosenIn
  <2>2. H(S)[S] = f[c] + H(S)[S \ {c}]
    BY <1>2, <1>4, SumAt
  <2> HIDE DEF c
  <2>3. H(S)[S \ {c}] = H(S \ {c})[S \ {c}]
    BY <1>2, <2>1, SumUnique
  <2>4. QED BY <1>1, <1>4, <2>1, <2>2, <2>3
<1>5. QED BY <1>3, <1>4

(* Sums of numbers are numbers, and any element can be added last.          *)
LEMMA SumOf ==
  ASSUME NEW f, NEW S, IsFiniteSet(S), \A x \in S : f[x] \in Nat
  PROVE  /\ SumFunctionOnSet(f, S) \in Nat
         /\ \A x \in S : SumFunctionOnSet(f, S) = f[x] + SumFunctionOnSet(f, S \ {x})
<1> DEFINE Sum(s) == SumFunctionOnSet(f, s)
           Fits(s) == Sum(s) \in Nat /\ \A x \in s : Sum(s) = f[x] + Sum(s \ {x})
           P == {n \in Nat : \A s \in SUBSET S : Cardinality(s) \in 0 .. n => Fits(s)}
<1> HIDE DEF Sum
<1>1. \A s \in SUBSET S : IsFiniteSet(s) /\ Cardinality(s) \in Nat
  BY FS_Subset, FS_CardinalityType
<1>2. Fits({})
  BY SumStart, FS_EmptySet DEF Sum
<1>3. 0 \in P
  BY <1>1, <1>2, FS_EmptySet
<1>4. ASSUME NEW n \in Nat, n \in P PROVE n + 1 \in P
  <2>1. SUFFICES ASSUME NEW s \in SUBSET S, Cardinality(s) \in 0 .. n + 1, s # {} PROVE Fits(s)
    BY <1>2
  <2>2. ASSUME NEW r \in SUBSET s, r # s PROVE Fits(r)
    <3>1. Cardinality(r) <= Cardinality(s) /\ Cardinality(r) # Cardinality(s)
      BY <1>1, <2>2, FS_Subset
    <3>2. Cardinality(r) \in 0 .. n /\ r \in SUBSET S
      BY <1>1, <2>1, <3>1
    <3>3. QED BY <1>4, <3>2
  <2>3. PICK c \in s : Sum(s) = f[c] + Sum(s \ {c})
    BY <1>1, <2>1, SumStart DEF Sum
  <2>4. f[c] \in Nat /\ Sum(s \ {c}) \in Nat
    BY <2>2
  <2>5. ASSUME NEW x \in s PROVE Sum(s) = f[x] + Sum(s \ {x})
    <3>1. CASE x = c
      BY <2>3, <3>1
    <3>2. CASE x # c
      <4>1. Sum(s \ {c}) = f[x] + Sum((s \ {c}) \ {x})
        <5>1. s \ {c} \in SUBSET s /\ s \ {c} # s /\ x \in s \ {c}
          BY <3>2
        <5>2. QED BY <2>2, <5>1
      <4>2. Sum(s \ {x}) = f[c] + Sum((s \ {x}) \ {c})
        <5>1. s \ {x} \in SUBSET s /\ s \ {x} # s /\ c \in s \ {x}
          BY <3>2
        <5>2. QED BY <2>2, <5>1
      <4>3. (s \ {c}) \ {x} = (s \ {x}) \ {c}
        OBVIOUS
      <4>4. f[x] \in Nat /\ Sum((s \ {c}) \ {x}) \in Nat
        <5>1. (s \ {c}) \ {x} \in SUBSET s /\ (s \ {c}) \ {x} # s
          OBVIOUS
        <5>2. QED BY <2>2, <5>1
      <4>5. QED BY <2>3, <2>4, <4>1, <4>2, <4>3, <4>4
    <3>3. QED BY <3>1, <3>2
  <2>6. QED BY <2>3, <2>4, <2>5
<1> HIDE DEF P
<1>5. Cardinality(S) \in P /\ Cardinality(S) \in 0 .. Cardinality(S)
  BY <1>3, <1>4, SetInduction, FS_CardinalityType
<1>6. QED BY <1>5 DEF P, Sum

----------------------------------------------------------------------------
(* Sorting by rank.                                                         *)

(* Ascending sorts.                                                         *)
LEMMA AscendingSorts ==
  ASSUME NEW S \in SUBSET Nat, IsFiniteSet(S)
  PROVE  /\ Enumerates(Ascending(S), S)
         /\ \A i, j \in 1 .. Cardinality(S) : i < j => Ascending(S)[i] < Ascending(S)[j]
<1> DEFINE R == {p \in S \X S : p[1] < p[2]}
           s == Ascending(S)
<1>1. \A x, y \in S : <<x, y>> \in R <=> x < y
  OBVIOUS
<1>2. \A x \in S : Preceding(R, S, x) = {y \in S : y < x}
  BY <1>1 DEF Preceding
<1> HIDE DEF R
<1>3. Rows(R, S)
  <2>1. \A x \in S : <<x, x>> \notin R
    BY <1>1
  <2>2. \A x, y, z \in S : <<x, y>> \in R /\ <<y, z>> \in R => <<x, z>> \in R
    BY <1>1
  <2>3. \A x, y \in S : x = y \/ <<x, y>> \in R \/ <<y, x>> \in R
    <3>1. \A x, y \in S : x = y \/ x < y \/ y < x
      OBVIOUS
    <3>2. QED BY <1>1, <3>1, Zenon
  <2>4. QED BY <2>1, <2>2, <2>3 DEF Rows
<1>4. s = [k \in 1 .. Cardinality(S) |-> CHOOSE x \in S : Cardinality({y \in S : y < x}) = k - 1]
  BY DEF Ascending
<1>5. DOMAIN s = 1 .. Cardinality(S) /\ s = [k \in DOMAIN s |-> s[k]]
  BY <1>4
<1>6. ASSUME NEW k \in 1 .. Cardinality(S)
      PROVE  s[k] \in S /\ Cardinality(Preceding(R, S, s[k])) = k - 1
  <2>1. s[k] = CHOOSE x \in S : Cardinality({y \in S : y < x}) = k - 1
    BY <1>4
  <2>2. \E x \in S : Cardinality(Preceding(R, S, x)) = k - 1
    BY <1>3, RankFacts
  <2>3. \E x \in S : Cardinality({y \in S : y < x}) = k - 1
    BY <1>2, <2>2
  <2>4. s[k] \in S /\ Cardinality({y \in S : y < s[k]}) = k - 1
    BY <2>1, <2>3
  <2>5. QED BY <1>2, <2>4
<1> HIDE DEF s
<1>7. /\ Enumerates(s, S)
      /\ \A i, j \in 1 .. Cardinality(S) : i < j => <<s[i], s[j]>> \in R
  BY <1>3, <1>5, <1>6, RankedLists
<1>8. \A i, j \in 1 .. Cardinality(S) : i < j => s[i] < s[j]
  <2>1. \A i \in 1 .. Cardinality(S) : s[i] \in S
    BY <1>6
  <2>2. QED BY <1>1, <1>7, <2>1
<1>9. QED BY <1>7, <1>8 DEF s

----------------------------------------------------------------------------
(* Sequences put one after the other.                                       *)

(* The starts grow, and every place is one of one of the sequences.         *)
LEMMA StartsGrow ==
  ASSUME NEW n \in Nat, NEW len \in [1 .. n -> Nat], NEW start \in [1 .. n + 1 -> Nat],
         start[1] = 0, \A k \in 1 .. n : start[k + 1] = start[k] + len[k]
  PROVE  /\ \A i, j \in 1 .. n : i < j => start[i] + len[i] <= start[j]
         /\ \A i \in 1 .. n : start[i] + len[i] <= start[n + 1]
         /\ \A p \in 1 .. start[n + 1] :
              \E k \in 1 .. n : start[k] < p /\ p <= start[k] + len[k]
<1> DEFINE P == {m \in Nat : \A i \in 1 .. n : i < m + 1 /\ m + 1 <= n + 1
                                                  => start[i] + len[i] <= start[m + 1]}
           Q == {m \in Nat : m <= n => \A p \in 1 .. start[m + 1] :
                               \E k \in 1 .. n : start[k] < p /\ p <= start[k] + len[k]}
<1>1. 0 \in P
  OBVIOUS
<1>2. ASSUME NEW m \in Nat, m \in P PROVE m + 1 \in P
  <2>1. SUFFICES ASSUME NEW i \in 1 .. n, i < m + 1 + 1, m + 1 + 1 <= n + 1
                 PROVE  start[i] + len[i] <= start[m + 1 + 1]
    OBVIOUS
  <2>2. m + 1 \in 1 .. n /\ m + 1 \in 1 .. n + 1 /\ m + 1 + 1 \in 1 .. n + 1
    BY <2>1
  <2>3. start[m + 1 + 1] = start[m + 1] + len[m + 1] /\ len[m + 1] \in Nat
        /\ start[m + 1] \in Nat
    BY <2>2
  <2>4. CASE i = m + 1
    <3>1. start[i] = start[m + 1] /\ len[i] = len[m + 1]
      BY <2>4
    <3>2. \A c, d \in Nat : c + d <= c + d
      OBVIOUS
    <3>3. QED BY <2>3, <3>1, <3>2
  <2>5. CASE i # m + 1
    <3>1. i < m + 1 /\ m + 1 <= n + 1
      BY <2>1, <2>2, <2>5
    <3>2. start[i] + len[i] <= start[m + 1]
      BY <1>2, <3>1
    <3>3. start[i] + len[i] \in Nat
      BY <2>1
    <3> DEFINE a == start[i] + len[i]
               b == start[m + 1]
               c == start[m + 1 + 1]
               d == len[m + 1]
    <3>4. a \in Nat /\ b \in Nat /\ d \in Nat /\ a <= b /\ c = b + d
      BY <2>3, <3>2, <3>3
    <3> HIDE DEF a, b, c, d
    <3>5. a <= c
      BY <3>4
    <3>6. QED BY <3>5 DEF a, c
  <2>6. QED BY <2>4, <2>5
<1>3. \A m \in Nat : m \in P
  <2> HIDE DEF P
  <2>1. QED BY <1>1, <1>2, SetInduction
<1>4. ASSUME NEW i \in 1 .. n, NEW j \in 1 .. n + 1, i < j
      PROVE  start[i] + len[i] <= start[j]
  <2>1. j - 1 \in Nat /\ j - 1 + 1 = j /\ j <= n + 1
    OBVIOUS
  <2>2. i < j - 1 + 1 /\ j - 1 + 1 <= n + 1
    BY <1>4, <2>1
  <2>3. start[i] + len[i] <= start[j - 1 + 1]
    BY <1>3, <2>1, <2>2
  <2>4. QED BY <2>1, <2>3
<1>5. 0 \in Q
  OBVIOUS
<1>6. ASSUME NEW m \in Nat, m \in Q PROVE m + 1 \in Q
  <2>1. SUFFICES ASSUME m + 1 <= n, NEW p \in 1 .. start[m + 1 + 1]
                 PROVE  \E k \in 1 .. n : start[k] < p /\ p <= start[k] + len[k]
    OBVIOUS
  <2>2. m + 1 \in 1 .. n /\ m + 1 \in 1 .. n + 1
    BY <2>1
  <2>3. start[m + 1 + 1] = start[m + 1] + len[m + 1] /\ start[m + 1] \in Nat
    BY <2>2
  <2>4. CASE p <= start[m + 1]
    <3>1. p \in 1 .. start[m + 1] /\ m <= n
      BY <2>1, <2>3, <2>4
    <3>2. QED BY <1>6, <3>1
  <2>5. CASE ~(p <= start[m + 1])
    <3> DEFINE a == start[m + 1]
               b == start[m + 1 + 1]
               c == len[m + 1]
    <3>1. a \in Nat /\ b = a + c /\ p \in 1 .. b /\ ~(p <= a)
      BY <2>1, <2>3, <2>5
    <3> HIDE DEF a, b, c
    <3>2. a < p /\ p <= a + c
      <4>1. a \in Nat /\ b = a + c /\ p \in Int /\ p <= b /\ ~(p <= a)
        BY <3>1
      <4>2. QED BY <4>1
    <3>3. QED BY <2>2, <3>2 DEF a, c
  <2>6. QED BY <2>4, <2>5
<1>7. n \in Q
  <2> HIDE DEF Q
  <2>1. QED BY <1>5, <1>6, SetInduction
<1>8. \A p \in 1 .. start[n + 1] : \E k \in 1 .. n : start[k] < p /\ p <= start[k] + len[k]
  BY <1>7
<1>9. \A i \in 1 .. n : n + 1 \in 1 .. n + 1 /\ i < n + 1 /\ \A j \in 1 .. n : j \in 1 .. n + 1
  OBVIOUS
<1> HIDE DEF P, Q
<1>10. QED BY <1>4, <1>8, <1>9

----------------------------------------------------------------------------
(* The posting lists in the pack.                                           *)

Having(g) == {i \in DOMAIN Surfaces : g \in Surfaces[i].grams}

(* There are finitely many grams, and each has surfaces.                    *)
LEMMA GramFacts ==
  /\ Len(Surfaces) \in Nat /\ IsFiniteSet(DOMAIN Surfaces) /\ DOMAIN Surfaces \in SUBSET Nat
  /\ Gram \in SUBSET Nat /\ IsFiniteSet(Gram)
  /\ \A g \in Gram : Having(g) \in SUBSET Nat /\ IsFiniteSet(Having(g)) /\ Having(g) # {}
<1>1. Len(Surfaces) \in Nat /\ DOMAIN Surfaces = 1 .. Len(Surfaces)
  BY EdgePackAssumption
<1>2. IsFiniteSet(1 .. Len(Surfaces))
  BY <1>1, FirstNumbers
<1>3. Gram \in SUBSET Nat
  BY EdgePackAssumption DEF Gram
<1> DEFINE G == {Surfaces[i].grams : i \in DOMAIN Surfaces}
           f == [i \in DOMAIN Surfaces |-> Surfaces[i].grams]
<1>4. f \in Surjection(DOMAIN Surfaces, G)
  BY DEF Surjection
<1>5. IsFiniteSet(G)
  <2> HIDE DEF f, G
  <2>1. QED BY <1>1, <1>2, <1>4, FS_Surjection
<1>6. \A g \in G : IsFiniteSet(g)
  BY EdgePackAssumption
<1>7. IsFiniteSet(UNION G)
  BY <1>5, <1>6, FS_UNION
<1>8. ASSUME NEW g \in Gram
      PROVE  Having(g) \in SUBSET Nat /\ IsFiniteSet(Having(g)) /\ Having(g) # {}
  <2>1. Having(g) \in SUBSET DOMAIN Surfaces
    BY DEF Having
  <2>2. Having(g) # {}
    BY DEF Having, Gram
  <2>3. IsFiniteSet(Having(g))
    BY <1>1, <1>2, <2>1, FS_Subset
  <2>4. QED BY <1>1, <2>1, <2>2, <2>3
<1>9. QED BY <1>1, <1>2, <1>3, <1>7, <1>8 DEF Gram

(* A gram's list is that of its surfaces.                                   *)
LEMMA PostingsFacts ==
  ASSUME NEW g \in Gram
  PROVE  /\ Enumerates(Postings[g], Having(g)) /\ Postings[g] \in Seq(DOMAIN Surfaces)
         /\ Length[g] = Len(Postings[g]) /\ Length[g] = Cardinality(Having(g))
         /\ Length[g] \in Nat /\ Length[g] > 0
<1>1. Having(g) \in SUBSET Nat /\ IsFiniteSet(Having(g)) /\ Having(g) # {}
  BY GramFacts
<1>2. Postings[g] = Ascending(Having(g)) /\ Length[g] = Len(Postings[g])
  BY DEF Postings, Having, Length
<1>3. Enumerates(Postings[g], Having(g))
  BY <1>1, <1>2, AscendingSorts
<1>4. Len(Postings[g]) = Cardinality(Having(g)) /\ Postings[g] \in Seq(Having(g))
  BY <1>3 DEF Enumerates
<1>5. Having(g) \subseteq DOMAIN Surfaces
  BY DEF Having
<1>6. Cardinality(Having(g)) \in Nat /\ Cardinality(Having(g)) # 0
  BY <1>1, FS_CardinalityType, FS_EmptySet
<1>7. Postings[g] \in Seq(DOMAIN Surfaces)
  BY <1>4, <1>5
<1>8. QED BY <1>2, <1>3, <1>4, <1>6, <1>7

(* Offsets are numbers: the lengths of the lists before.                    *)
LEMMA OffsetType ==
  ASSUME NEW g \in Gram
  PROVE  Offset[g] \in Nat /\ Offset[g] = SumFunctionOnSet(Length, {h \in Gram : h < g})
<1> DEFINE S == {h \in Gram : h < g}
<1>1. S \in SUBSET Gram /\ IsFiniteSet(S)
  BY GramFacts, FS_Subset
<1>2. \A x \in S : Length[x] \in Nat
  BY <1>1, PostingsFacts
<1>3. Offset[g] = SumFunctionOnSet(Length, S)
  BY DEF Offset
<1> HIDE DEF S
<1>4. SumFunctionOnSet(Length, S) \in Nat
  BY <1>1, <1>2, SumOf
<1>5. QED BY <1>3, <1>4 DEF S

(* A list begins where those of the smaller grams end.                      *)
LEMMA OffsetNext ==
  ASSUME NEW k \in 1 .. Cardinality(Gram)
  PROVE  /\ k = 1 => Offset[Ascending(Gram)[k]] = 0
         /\ k # 1 => Offset[Ascending(Gram)[k]]
                       = Offset[Ascending(Gram)[k - 1]] + Length[Ascending(Gram)[k - 1]]
<1> DEFINE a == Ascending(Gram)
           n == Cardinality(Gram)
           Below(g) == {h \in Gram : h < g}
<1>1. /\ n \in Nat /\ Gram \in SUBSET Nat /\ IsFiniteSet(Gram)
      /\ \A i \in 1 .. n : a[i] \in Gram
      /\ \A i, j \in 1 .. n : i < j => a[i] < a[j]
      /\ \A x \in Gram : \E i \in 1 .. n : a[i] = x
  BY GramFacts, AscendingSorts, FS_CardinalityType DEF Enumerates
<1> HIDE DEF a, n
<1>2. \A g \in Gram : Offset[g] = SumFunctionOnSet(Length, Below(g))
  BY OffsetType
<1>3. k \in 1 .. n /\ k \in Nat
  BY DEF n
<1>4. ASSUME k = 1 PROVE Offset[a[k]] = 0
  <2>1. ASSUME NEW h \in Gram, h < a[k] PROVE FALSE
    <3>1. PICK i \in 1 .. n : a[i] = h
      BY <1>1
    <3>2. i = k \/ k < i
      BY <1>4, <3>1, <1>1
    <3>3. a[k] \in Nat /\ h \in Nat
      BY <1>1, <1>3
    <3>4. QED BY <1>1, <1>3, <2>1, <3>1, <3>2, <3>3
  <2>2. Below(a[k]) = {}
    BY <2>1
  <2>3. SumFunctionOnSet(Length, {}) = 0
    BY SumStart, FS_EmptySet
  <2>4. a[k] \in Gram
    BY <1>1, <1>3
  <2> HIDE DEF Below
  <2>5. QED BY <1>2, <2>2, <2>3, <2>4
<1>5. ASSUME k # 1 PROVE Offset[a[k]] = Offset[a[k - 1]] + Length[a[k - 1]]
  <2>1. k - 1 \in 1 .. n /\ k - 1 < k
    BY <1>1, <1>3, <1>5
  <2> DEFINE g == a[k]
             b == a[k - 1]
  <2>2. g \in Gram /\ b \in Gram /\ b < g /\ g \in Nat /\ b \in Nat
    BY <1>1, <1>3, <2>1
  <2>3. ASSUME NEW h \in Gram, h < g PROVE h < b \/ h = b
    <3>1. PICK i \in 1 .. n : a[i] = h
      BY <1>1
    <3>2. k < i \/ i = k \/ i = k - 1 \/ i < k - 1
      BY <1>3
    <3>3. h \in Nat
      BY <1>1
    <3>4. ~(k < i) /\ i # k
      BY <1>1, <1>3, <2>2, <2>3, <3>1, <3>3
    <3>5. QED BY <1>1, <2>1, <3>1, <3>2, <3>4
  <2> HIDE DEF g, b
  <2>4. ASSUME NEW h \in Gram, h < b PROVE h < g
    BY <1>1, <2>2, <2>4
  <2>5. Below(b) = Below(g) \ {b} /\ b \in Below(g)
    <3>1. b \notin Below(b) /\ b \in Below(g)
      BY <2>2
    <3>2. QED BY <2>3, <2>4, <3>1
  <2>6. Below(g) \in SUBSET Gram /\ IsFiniteSet(Below(g))
    BY <1>1, FS_Subset
  <2>7. \A x \in Below(g) : Length[x] \in Nat
    BY <2>6, PostingsFacts
  <2>8. Length[b] \in Nat
    BY <2>2, PostingsFacts
  <2>9. SumFunctionOnSet(Length, Below(b)) \in Nat
    BY <1>2, <2>2, OffsetType
  <2> HIDE DEF Below
  <2>10. SumFunctionOnSet(Length, Below(g)) = Length[b] + SumFunctionOnSet(Length, Below(g) \ {b})
    BY <2>5, <2>6, <2>7, SumOf
  <2>11. Offset[g] = Length[b] + Offset[b]
    BY <1>2, <2>2, <2>5, <2>10
  <2>12. QED BY <1>2, <2>2, <2>8, <2>9, <2>11 DEF g, b
<1>6. QED BY <1>4, <1>5 DEF a

(* The ids of a gram stand behind its offset, and the lists do not overlap. *)
LEMMA PostingIdsFacts ==
  /\ PostingIds \in Seq(DOMAIN Surfaces)
  /\ \A g \in Gram : Offset[g] + Length[g] <= Len(PostingIds)
  /\ \A g \in Gram : \A k \in 1 .. Length[g] : PostingIds[Offset[g] + k] = Postings[g][k]
  /\ \A g, h \in Gram : g < h => Offset[g] + Length[g] <= Offset[h]
<1> DEFINE a == Ascending(Gram)
           n == Cardinality(Gram)
           q == [k \in 1 .. n |-> Postings[a[k]]]
           T == DOMAIN Surfaces
           len == [k \in 1 .. n |-> Length[a[k]]]
<1>1. /\ n \in Nat /\ Gram \in SUBSET Nat
      /\ \A i \in 1 .. n : a[i] \in Gram
      /\ \A i, j \in 1 .. n : i < j => a[i] < a[j]
      /\ \A x \in Gram : \E i \in 1 .. n : a[i] = x
  <2>1. Gram \in SUBSET Nat /\ IsFiniteSet(Gram)
    BY GramFacts
  <2>2. Enumerates(a, Gram) /\ \A i, j \in 1 .. n : i < j => a[i] < a[j]
    BY <2>1, AscendingSorts
  <2>3. n \in Nat
    BY <2>1, FS_CardinalityType
  <2> HIDE DEF a
  <2>4. QED BY <2>1, <2>2, <2>3 DEF Enumerates
<1>2. PostingIds = FlattenSeq(q)
  BY DEF PostingIds
<1>3. ASSUME NEW k \in 1 .. n
      PROVE  /\ k = 1 => Offset[a[k]] = 0
             /\ k # 1 => Offset[a[k]] = Offset[a[k - 1]] + Length[a[k - 1]]
             /\ Offset[a[k]] \in Nat
  <2>1. a[k] \in Gram
    BY <1>1
  <2>2. Offset[a[k]] \in Nat
    BY <2>1, OffsetType
  <2>3. QED BY <2>2, OffsetNext
<1>4. \A g \in Gram : Postings[g] \in Seq(T) /\ Length[g] = Len(Postings[g]) /\ Length[g] \in Nat
  BY PostingsFacts
<1> HIDE DEF a, n, T
<1>5. q \in Seq(Seq(T)) /\ Len(q) = n /\ \A k \in 1 .. n : q[k] = Postings[a[k]]
  <2>1. q \in [1 .. n -> Seq(T)]
    BY <1>1, <1>4
  <2> HIDE DEF q
  <2>2. q \in Seq(Seq(T)) /\ Len(q) = n
    BY <1>1, <2>1
  <2>3. QED BY <2>2 DEF q
<1>6. len \in [1 .. n -> Nat] /\ \A k \in 1 .. n : len[k] = Length[a[k]]
  BY <1>1, <1>4
<1> HIDE DEF q, len
<1>7. PICK start : Flattened(PostingIds, q, start, T)
  BY <1>2, <1>5, FlattenFacts
<1>8. /\ PostingIds \in Seq(T) /\ start \in [1 .. n + 1 -> Nat] /\ start[1] = 0
      /\ \A k \in 1 .. n : start[k + 1] = start[k] + Len(q[k])
      /\ Len(PostingIds) = start[n + 1]
      /\ \A k \in 1 .. n : \A t \in 1 .. Len(q[k]) : PostingIds[start[k] + t] = q[k][t]
  <2>1. /\ PostingIds \in Seq(T) /\ start \in [1 .. Len(q) + 1 -> Nat] /\ start[1] = 0
        /\ \A k \in 1 .. Len(q) : start[k + 1] = start[k] + Len(q[k])
        /\ Len(PostingIds) = start[Len(q) + 1]
        /\ \A k \in 1 .. Len(q) : \A t \in 1 .. Len(q[k]) : PostingIds[start[k] + t] = q[k][t]
    BY <1>7, Zenon DEF Flattened
  <2>2. Len(q) = n
    BY <1>5
  <2>3. QED BY <2>1, <2>2, Zenon
<1>9. \A k \in 1 .. n : Len(q[k]) = len[k] /\ len[k] = Length[a[k]] /\ Length[a[k]] \in Nat
  <2>1. ASSUME NEW k \in 1 .. n
        PROVE  Len(q[k]) = len[k] /\ len[k] = Length[a[k]] /\ Length[a[k]] \in Nat
    <3>1. a[k] \in Gram
      BY <1>1
    <3>2. Length[a[k]] = Len(Postings[a[k]]) /\ Length[a[k]] \in Nat
      BY <1>4, <3>1
    <3>3. q[k] = Postings[a[k]] /\ len[k] = Length[a[k]]
      BY <1>5, <1>6
    <3>4. QED BY <3>2, <3>3, Zenon
  <2>2. QED BY <2>1
<1>10. \A k \in 1 .. n : start[k + 1] = start[k] + len[k]
  BY <1>8, <1>9
<1>11. /\ \A i, j \in 1 .. n : i < j => start[i] + len[i] <= start[j]
       /\ \A i \in 1 .. n : start[i] + len[i] <= start[n + 1]
  BY <1>1, <1>6, <1>8, <1>10, StartsGrow
<1>12. ASSUME NEW k \in 1 .. n PROVE start[k] = Offset[a[k]]
  <2> DEFINE P == {m \in Nat : m + 1 <= n => start[m + 1] = Offset[a[m + 1]]}
  <2>1. 0 \in P
    <3>1. SUFFICES ASSUME 0 + 1 <= n PROVE start[0 + 1] = Offset[a[0 + 1]]
      OBVIOUS
    <3>2. 0 + 1 = 1 /\ 1 \in 1 .. n
      BY <1>1, <3>1
    <3>3. QED BY <1>3, <1>8, <3>2
  <2>2. ASSUME NEW m \in Nat, m \in P PROVE m + 1 \in P
    <3>1. SUFFICES ASSUME m + 1 + 1 <= n PROVE start[m + 1 + 1] = Offset[a[m + 1 + 1]]
      OBVIOUS
    <3>2. /\ m + 1 \in 1 .. n /\ m + 1 + 1 \in 1 .. n /\ m + 1 + 1 - 1 = m + 1 /\ m + 1 + 1 # 1
          /\ m + 1 <= n
      BY <1>1, <3>1
    <3>3. start[m + 1] = Offset[a[m + 1]]
      BY <2>2, <3>2
    <3>4. start[m + 1 + 1] = start[m + 1] + len[m + 1] /\ len[m + 1] = Length[a[m + 1]]
      BY <1>9, <1>10, <3>2
    <3>5. Offset[a[m + 1 + 1]] = Offset[a[m + 1]] + Length[a[m + 1]]
      BY <1>3, <3>2
    <3>6. QED BY <3>3, <3>4, <3>5
  <2>3. Nat \subseteq P
    <3> HIDE DEF P
    <3>1. QED BY <2>1, <2>2, SetInduction
  <2>4. k - 1 \in Nat /\ k - 1 + 1 = k /\ k <= n
    BY <1>1
  <2>5. k - 1 + 1 <= n => start[k - 1 + 1] = Offset[a[k - 1 + 1]]
    BY <2>3, <2>4
  <2>6. QED BY <2>4, <2>5
<1>13. ASSUME NEW g \in Gram
       PROVE  \E i \in 1 .. n : a[i] = g /\ start[i] = Offset[g] /\ len[i] = Length[g]
  <2>1. PICK i \in 1 .. n : a[i] = g
    BY <1>1
  <2>2. QED BY <1>9, <1>12, <2>1
<1>14. ASSUME NEW g \in Gram PROVE Offset[g] + Length[g] <= Len(PostingIds)
  BY <1>8, <1>11, <1>13
<1>15. ASSUME NEW g \in Gram, NEW k \in 1 .. Length[g]
       PROVE  PostingIds[Offset[g] + k] = Postings[g][k]
  <2>1. PICK i \in 1 .. n : a[i] = g /\ start[i] = Offset[g] /\ len[i] = Length[g]
    BY <1>13
  <2>2. q[i] = Postings[g] /\ k \in 1 .. Len(q[i])
    BY <1>5, <1>9, <2>1
  <2>3. QED BY <1>8, <2>1, <2>2
<1>16. ASSUME NEW g \in Gram, NEW h \in Gram, g < h
       PROVE  Offset[g] + Length[g] <= Offset[h]
  <2>1. PICK i \in 1 .. n : a[i] = g /\ start[i] = Offset[g] /\ len[i] = Length[g]
    BY <1>13
  <2>2. PICK j \in 1 .. n : a[j] = h /\ start[j] = Offset[h]
    BY <1>13
  <2>3. g \in Nat /\ h \in Nat
    BY <1>1
  <2>4. i = j \/ j < i \/ i < j
    OBVIOUS
  <2>5. i < j
    BY <1>1, <1>16, <2>1, <2>2, <2>3, <2>4
  <2>6. QED BY <1>11, <2>1, <2>2, <2>5
<1>17. QED BY <1>8, <1>14, <1>15, <1>16 DEF T

----------------------------------------------------------------------------
(* The words of the pack.                                                   *)

(* As many pages as hold the words.                                         *)
LEMMA PagesHold ==
  ASSUME NEW words, Len(words) \in Nat
  PROVE  /\ Pages(words) \in Nat /\ Pages(words) * PageWords \in Nat
         /\ Len(words) <= Pages(words) * PageWords
<1> DEFINE x == Len(words) + PageWords - 1
<1>1. PageWords \in Nat \ {0}
  BY PagerAssumption
<1>2. x \in Nat
  BY <1>1
<1>3. Pages(words) = x \div PageWords
  BY DEF Pages
<1> HIDE DEF x
<1>4. /\ x \div PageWords \in Nat /\ x % PageWords \in 0 .. PageWords - 1
      /\ x = (x \div PageWords) * PageWords + (x % PageWords)
  BY <1>1, <1>2, DivMod
<1>5. (x \div PageWords) * PageWords \in Nat
  <2> DEFINE q == x \div PageWords
  <2>1. q \in Nat
    BY <1>4
  <2> HIDE DEF q
  <2>2. q * PageWords \in Nat
    BY <1>1, <2>1
  <2>3. QED BY <2>2 DEF q
<1>6. Len(words) <= (x \div PageWords) * PageWords
  <2> DEFINE m == (x \div PageWords) * PageWords
             r == x % PageWords
  <2>1. m \in Nat /\ r \in 0 .. PageWords - 1 /\ x = m + r
    BY <1>4, <1>5
  <2> HIDE DEF m, r
  <2>2. Len(words) <= m
    BY <1>1, <2>1 DEF x
  <2>3. QED BY <2>2 DEF m
<1>7. QED BY <1>3, <1>4, <1>5, <1>6

(* Padding adds words behind.                                               *)
LEMMA PadFacts ==
  ASSUME NEW T, NEW words \in Seq(T)
  PROVE  /\ Pad(words) \in Seq(T \cup {Garbage}) /\ Len(Pad(words)) = Pages(words) * PageWords
         /\ \A i \in 1 .. Len(words) : i \in 1 .. Len(Pad(words)) /\ Pad(words)[i] = words[i]
<1> DEFINE m == Pages(words) * PageWords
           U == T \cup {Garbage}
           rest == [i \in 1 .. m - Len(words) |-> Garbage]
<1>1. Len(words) \in Nat
  OBVIOUS
<1>2. m \in Nat /\ Len(words) <= m
  BY <1>1, PagesHold
<1>3. Pad(words) = words \o rest
  BY DEF Pad
<1> HIDE DEF m
<1>4. rest \in Seq(U) /\ Len(rest) = m - Len(words)
  <2>1. m - Len(words) \in Nat
    BY <1>1, <1>2
  <2>2. Garbage \in U
    OBVIOUS
  <2> HIDE DEF U
  <2>3. QED BY <2>1, <2>2
<1>5. words \in Seq(U)
  OBVIOUS
<1> HIDE DEF U, rest
<1>6. /\ words \o rest \in Seq(U) /\ Len(words \o rest) = Len(words) + Len(rest)
      /\ \A i \in 1 .. Len(words) :
           (words \o rest)[i] = words[i] /\ i \in 1 .. Len(words) + Len(rest)
  BY <1>4, <1>5, ConcatFacts
<1>7. Len(words) + Len(rest) = m
  BY <1>1, <1>2, <1>4
<1>8. QED BY <1>3, <1>6, <1>7 DEF m, U

(* The index region: the posting ids, then the entities of the surfaces.    *)
LEMMA IndexWords ==
  /\ Len(Region["index"]) \in Nat /\ SurfacePage \in Nat
  /\ \A x \in 1 .. Len(PostingIds) :
       x \in 1 .. Len(Region["index"]) /\ Region["index"][x] = <<PostingIds[x]>>
  /\ \A i \in DOMAIN Surfaces :
       /\ SurfacePage * PageWords + i \in 1 .. Len(Region["index"])
       /\ Region["index"][SurfacePage * PageWords + i] = <<Surfaces[i].entity>>
<1> DEFINE E == {Surfaces[i].entity : i \in DOMAIN Surfaces}
           T == {<<i>> : i \in DOMAIN Surfaces} \cup {<<e>> : e \in E}
           U == T \cup {Garbage}
           a == Pad(PostingWords)
           b == Pad(EntityWords)
<1>1. Region["index"] = a \o b
  BY DEF Region
<1>2. PostingWords \in Seq(T) /\ Len(PostingWords) = Len(PostingIds)
      /\ \A x \in 1 .. Len(PostingIds) : PostingWords[x] = <<PostingIds[x]>>
  <2>1. PostingIds \in Seq(DOMAIN Surfaces)
    BY PostingIdsFacts
  <2>2. /\ Len(PostingIds) \in Nat /\ DOMAIN PostingIds = 1 .. Len(PostingIds)
        /\ \A x \in 1 .. Len(PostingIds) : PostingIds[x] \in DOMAIN Surfaces
    BY <2>1
  <2>3. PostingWords = [x \in 1 .. Len(PostingIds) |-> <<PostingIds[x]>>]
    BY <2>2 DEF PostingWords
  <2>4. \A x \in 1 .. Len(PostingIds) : <<PostingIds[x]>> \in T
    BY <2>2
  <2> HIDE DEF T
  <2>5. QED BY <2>2, <2>3, <2>4
<1>3. Len(Surfaces) \in Nat /\ DOMAIN Surfaces = 1 .. Len(Surfaces)
  BY EdgePackAssumption
<1>4. EntityWords \in Seq(T) /\ Len(EntityWords) = Len(Surfaces)
      /\ \A i \in DOMAIN Surfaces : EntityWords[i] = <<Surfaces[i].entity>>
  <2>1. EntityWords = [i \in 1 .. Len(Surfaces) |-> <<Surfaces[i].entity>>]
    BY <1>3 DEF EntityWords
  <2>2. \A i \in 1 .. Len(Surfaces) : <<Surfaces[i].entity>> \in T
    BY <1>3
  <2> HIDE DEF T
  <2>3. QED BY <1>3, <2>1, <2>2
<1> HIDE DEF T
<1>5. /\ a \in Seq(U) /\ Len(a) = Pages(PostingWords) * PageWords
      /\ \A i \in 1 .. Len(PostingWords) : i \in 1 .. Len(a) /\ a[i] = PostingWords[i]
  BY <1>2, PadFacts
<1>6. /\ b \in Seq(U)
      /\ \A i \in 1 .. Len(EntityWords) : i \in 1 .. Len(b) /\ b[i] = EntityWords[i]
  BY <1>4, PadFacts
<1>7. SurfacePage \in Nat
  <2>1. Len(PostingWords) \in Nat
    BY <1>2
  <2>2. QED BY <2>1, PagesHold DEF SurfacePage
<1>8. Len(a) = SurfacePage * PageWords
  BY <1>5 DEF SurfacePage
<1> HIDE DEF U, a, b
<1>9. /\ a \o b \in Seq(U) /\ Len(a \o b) = Len(a) + Len(b)
      /\ Len(a) \in Nat /\ Len(b) \in Nat
      /\ \A i \in 1 .. Len(a) : (a \o b)[i] = a[i] /\ i \in 1 .. Len(a) + Len(b)
      /\ \A i \in 1 .. Len(b) : (a \o b)[Len(a) + i] = b[i] /\ Len(a) + i \in 1 .. Len(a) + Len(b)
  BY <1>5, <1>6, ConcatFacts
<1>10. Len(a \o b) \in Nat
  BY <1>9
<1>11. ASSUME NEW x \in 1 .. Len(PostingIds)
       PROVE  x \in 1 .. Len(a \o b) /\ (a \o b)[x] = <<PostingIds[x]>>
  BY <1>2, <1>5, <1>9, Zenon
<1>12. ASSUME NEW i \in DOMAIN Surfaces
       PROVE  /\ SurfacePage * PageWords + i \in 1 .. Len(a \o b)
              /\ (a \o b)[SurfacePage * PageWords + i] = <<Surfaces[i].entity>>
  <2>1. i \in 1 .. Len(EntityWords)
    BY <1>3, <1>4
  <2>2. QED BY <1>4, <1>6, <1>8, <1>9, <2>1, Zenon
<1>13. QED BY <1>1, <1>7, <1>10, <1>11, <1>12

(* The evidence region: the directory in the order of the entities.         *)
LEMMA EvidenceWords ==
  /\ Len(Region["evidence"]) \in Nat /\ Len(Directory) \in Nat \ {0}
  /\ Enumerates(Located, DOMAIN Occurrences) /\ Len(Directory) = Cardinality(DOMAIN Occurrences)
  /\ \A i, j \in 1 .. Len(Directory) : i < j => Located[i] < Located[j]
  /\ \A j \in 1 .. Len(Directory) :
       /\ j \in 1 .. Len(Region["evidence"])
       /\ Region["evidence"][j][1] = Located[j]
       /\ Region["evidence"][j][2] = Occurrences[Located[j]]
<1> DEFINE D == DOMAIN Occurrences
           n == Cardinality(D)
           T == {Directory[i] : i \in 1 .. n}
           a == Pad(Directory)
           b == Pad(BlobWords)
<1>1. /\ D \in SUBSET Nat /\ IsFiniteSet(D) /\ D # {}
      /\ \A e \in D : Occurrences[e] \in Nat \ {0}
  BY EdgePackAssumption
<1>2. n \in Nat /\ n # 0
  BY <1>1, FS_CardinalityType, FS_EmptySet
<1>3. Enumerates(Located, D) /\ \A i, j \in 1 .. n : i < j => Located[i] < Located[j]
  BY <1>1, AscendingSorts DEF Located
<1>4. /\ Len(Located) = n /\ DOMAIN Located = 1 .. n
      /\ \A i \in 1 .. n : Located[i] \in D
  BY <1>2, <1>3 DEF Enumerates
<1>5. Directory \in Seq(T) /\ Len(Directory) = n
      /\ \A j \in 1 .. n : Directory[j][1] = Located[j]
                           /\ Directory[j][2] = Occurrences[Located[j]]
  <2>1. DOMAIN Directory = 1 .. n /\ Directory = [i \in 1 .. n |-> Directory[i]]
    BY <1>4 DEF Directory
  <2>2. \A i \in 1 .. n : Directory[i] \in T
    OBVIOUS
  <2>3. \A j \in 1 .. n : Directory[j][1] = Located[j] /\ Directory[j][2] = Occurrences[Located[j]]
    BY <1>4 DEF Directory
  <2> HIDE DEF T, n
  <2>4. Directory \in Seq(T) /\ Len(Directory) = n
    BY <1>2, <2>1, <2>2
  <2>5. QED BY <2>3, <2>4
<1>6. \E W : BlobWords \in Seq(W)
  <2> DEFINE q == [i \in DOMAIN Located |->
                     [k \in 1 .. Occurrences[Located[i]] |-> <<Located[i], k>>]]
             W == Nat \X Nat
  <2>1. q \in [1 .. n -> Seq(W)]
    <3>1. ASSUME NEW i \in 1 .. n
          PROVE  [k \in 1 .. Occurrences[Located[i]] |-> <<Located[i], k>>] \in Seq(W)
      <4>1. Occurrences[Located[i]] \in Nat /\ Located[i] \in Nat
        BY <1>1, <1>4
      <4>2. QED BY <4>1
    <3>2. QED BY <1>4, <3>1
  <2> HIDE DEF q, W, n
  <2>2. q \in Seq(Seq(W))
    BY <1>2, <2>1
  <2>3. PICK start : Flattened(FlattenSeq(q), q, start, W)
    BY <2>2, FlattenFacts
  <2>4. BlobWords = FlattenSeq(q)
    BY DEF BlobWords, q
  <2>5. QED BY <2>3, <2>4 DEF Flattened
<1>7. PICK W : BlobWords \in Seq(W)
  BY <1>6
<1> DEFINE U == T \cup {Garbage} \cup W
<1> HIDE DEF T, n, D
<1>8. /\ a \in Seq(T \cup {Garbage})
      /\ \A i \in 1 .. Len(Directory) : i \in 1 .. Len(a) /\ a[i] = Directory[i]
  BY <1>5, PadFacts
<1>9. b \in Seq(W \cup {Garbage})
  BY <1>7, PadFacts
<1>10. Region["evidence"] = a \o b
  BY DEF Region
<1> HIDE DEF a, b
<1>11. a \in Seq(U) /\ b \in Seq(U)
  BY <1>8, <1>9
<1> HIDE DEF U
<1>12. /\ Len(a \o b) = Len(a) + Len(b) /\ Len(a) \in Nat /\ Len(b) \in Nat
       /\ \A i \in 1 .. Len(a) : (a \o b)[i] = a[i] /\ i \in 1 .. Len(a) + Len(b)
  BY <1>11, ConcatFacts
<1>13. Len(a \o b) \in Nat
  BY <1>12
<1>14. ASSUME NEW j \in 1 .. Len(Directory)
       PROVE  j \in 1 .. Len(a \o b) /\ (a \o b)[j] = Directory[j]
  BY <1>8, <1>12, Zenon
<1>15. QED
  <2>1. \A j \in 1 .. Len(Directory) :
          /\ j \in 1 .. Len(Region["evidence"])
          /\ Region["evidence"][j][1] = Located[j]
          /\ Region["evidence"][j][2] = Occurrences[Located[j]]
    BY <1>5, <1>10, <1>14
  <2>2. Len(Region["evidence"]) \in Nat /\ Len(Directory) \in Nat \ {0}
    BY <1>2, <1>5, <1>10, <1>13
  <2>3. QED BY <1>3, <1>5, <2>1, <2>2 DEF D, n

(* A word of a region stands on its page.                                   *)
LEMMA WordOnPage ==
  ASSUME NEW r \in {"index", "evidence"}, NEW n \in Nat, NEW w \in 1 .. PageWords,
         n * PageWords + w <= Len(Region[r])
  PROVE  Content[<<r, n>>][w] = Region[r][n * PageWords + w]
<1> DEFINE p == <<r, n>>
           L == Len(Region[r])
           P == Pages(Region[r])
<1>1. PageWords \in Nat \ {0}
  BY PagerAssumption
<1>2. L \in Nat
  BY IndexWords, EvidenceWords
<1>3. P \in Nat /\ P * PageWords \in Nat /\ L <= P * PageWords
  BY <1>2, PagesHold
<1>4. n \in 0 .. P - 1
  <2>1. n * PageWords + w <= L
    OBVIOUS
  <2> HIDE DEF P, L
  <2>2. n * PageWords < P * PageWords /\ n * PageWords \in Int
    BY <1>1, <1>2, <1>3, <2>1
  <2>3. ~(P <= n)
    <3>1. P <= n => P * PageWords <= n * PageWords
      BY <1>1, <1>3, Multiples
    <3>2. QED BY <1>3, <2>2, <3>1
  <2>4. QED BY <1>3, <2>3
<1>5. DOMAIN Region = {"index", "evidence"}
  BY DEF Region
<1>6. p \in PackPage
  BY <1>4, <1>5 DEF PackPage
<1>7. PackContent[p] = [i \in 1 .. PageWords |-> Region[p[1]][p[2] * PageWords + i]]
  BY <1>6 DEF PackContent
<1>8. p[1] = r /\ p[2] = n
  OBVIOUS
<1>9. PackContent[p][w] = Region[p[1]][p[2] * PageWords + w]
  BY <1>7
<1>10. Content = PackContent
  BY EdgePackAssumption
<1>11. QED BY <1>8, <1>9, <1>10

----------------------------------------------------------------------------
(* The requests for the pages of a posting list.                            *)

(* The greater and the smaller of two numbers.                              *)
LEMMA OfTwo ==
  ASSUME NEW a \in Int, NEW b \in Int
  PROVE  /\ Max({a, b}) = IF a >= b THEN a ELSE b
         /\ Min({a, b}) = IF a <= b THEN a ELSE b
<1> DEFINE S == {a, b}
<1>1. (\E x \in S : \A y \in S : x >= y) /\ (\E x \in S : \A y \in S : x <= y)
  OBVIOUS
<1>2. Max(S) \in S /\ (\A y \in S : Max(S) >= y) /\ Min(S) \in S /\ (\A y \in S : Min(S) <= y)
  BY <1>1 DEF Max, Min
<1> DEFINE u == Max(S)
           v == Min(S)
<1>3. (u = a \/ u = b) /\ u >= a /\ u >= b /\ (v = a \/ v = b) /\ v <= a /\ v <= b
  BY <1>2
<1> HIDE DEF u, v
<1>4. u = IF a >= b THEN a ELSE b
  BY <1>3
<1>5. v = IF a <= b THEN a ELSE b
  BY <1>3
<1>6. QED BY <1>4, <1>5 DEF u, v

(* The places of the index region a request takes words from.               *)
Spots(r) == r.page * PageWords + r.from .. r.page * PageWords + r.to
ListSpots(g) == Offset[g] + 1 .. Offset[g] + Length[g]
InRequest(r) ==
  /\ r = [page |-> r.page, first |-> r.first, from |-> r.from, to |-> r.to]
  /\ r.page \in Nat /\ r.from \in 1 .. PageWords /\ r.to \in r.from .. PageWords
  /\ r.page * PageWords \in Nat
  /\ r.page * PageWords + r.to <= Len(PostingIds)

(* A request for a page of a list takes the words of the list on that page. *)
LEMMA RequestFacts ==
  ASSUME NEW g \in Gram, NEW n \in FirstOf(g) .. LastOf(g)
  PROVE  /\ InRequest(Request(g, n)) /\ FirstOf(g) \in Nat /\ LastOf(g) \in Nat
         /\ FirstOf(g) <= LastOf(g)
         /\ Request(g, n).page = n
         /\ \A x \in Nat : x \in Spots(Request(g, n))
              <=> x \in ListSpots(g) /\ n * PageWords < x /\ x <= n * PageWords + PageWords
<1> DEFINE d == PageWords
           o == Offset[g]
           l == Length[g]
           e == o + l - 1
           L == Len(PostingIds)
<1>1. d \in Nat \ {0} /\ o \in Nat /\ l \in Nat /\ l > 0 /\ L \in Nat /\ o + l <= L
  <2>1. PostingIds \in Seq(DOMAIN Surfaces) /\ Offset[g] + Length[g] <= Len(PostingIds)
    BY PostingIdsFacts
  <2>2. Len(PostingIds) \in Nat
    BY <2>1
  <2>3. Offset[g] \in Nat /\ Length[g] \in Nat /\ Length[g] > 0
    BY OffsetType, PostingsFacts
  <2>4. QED BY PagerAssumption, <2>1, <2>2, <2>3
<1> DEFINE m == n * d
           F == o \div d
           E == e \div d
<1>2. FirstOf(g) = F /\ LastOf(g) = E
  BY DEF FirstOf, LastOf
<1>3. Request(g, n) = [page |-> n, first |-> n = F, from |-> Max({o - m, 0}) + 1,
                       to |-> Min({o + l - m, d})]
  BY <1>2 DEF Request
<1> HIDE DEF o, l, d, L
<1>4. e \in Nat
  BY <1>1
<1> HIDE DEF e
<1>5. /\ F \in Nat /\ o % d \in 0 .. d - 1 /\ o = F * d + (o % d)
      /\ E \in Nat /\ e % d \in 0 .. d - 1 /\ e = E * d + (e % d)
  BY <1>1, <1>4, DivMod
<1> DEFINE s == o % d
           t == e % d
<1> HIDE DEF F, E
<1>6. n \in Nat /\ F <= n /\ n <= E
  BY <1>2, <1>5
<1>7. m \in Int /\ F * d \in Int /\ E * d \in Int /\ F * d <= m /\ m <= E * d
      /\ (0 <= n => 0 * d <= n * d)
  BY <1>1, <1>5, <1>6, Multiples
<1> DEFINE a == F * d
           b == E * d
<1>8. s \in 0 .. d - 1 /\ t \in 0 .. d - 1 /\ o = a + s /\ e = b + t
      /\ a \in Int /\ b \in Int /\ a <= m /\ m <= b /\ m \in Int
  BY <1>5, <1>7
<1>9. m \in Nat
  <2>1. 0 * d = 0 /\ 0 <= n
    BY <1>1, <1>6
  <2>2. QED BY <1>7, <2>1
<1> HIDE DEF s, t, a, b, m
<1> DEFINE from == Max({o - m, 0}) + 1
           to == Min({o + l - m, d})
<1>10. /\ from = (IF o - m >= 0 THEN o - m ELSE 0) + 1
       /\ to = IF o + l - m <= d THEN o + l - m ELSE d
  <2>1. o - m \in Int /\ 0 \in Int /\ o + l - m \in Int /\ d \in Int
    BY <1>1, <1>8
  <2>2. QED BY <2>1, OfTwo
<1> HIDE DEF from, to
<1>11. e = o + l - 1
  BY DEF e
<1>12. o < m + d /\ m < o + l
  BY <1>1, <1>4, <1>8, <1>9, <1>11
<1>13. from \in 1 .. d /\ to \in from .. d /\ m + to <= L
  BY <1>1, <1>9, <1>10, <1>12
<1> DEFINE r == Request(g, n)
<1>14. r = [page |-> n, first |-> n = F, from |-> from, to |-> to]
  BY <1>3 DEF from, to
<1>15. r.page = n /\ r.from = from /\ r.to = to
       /\ r = [page |-> r.page, first |-> r.first, from |-> r.from, to |-> r.to]
  BY <1>14
<1> HIDE DEF r
<1>16. r.page * PageWords = m
  BY <1>15 DEF m, d
<1>17. InRequest(r)
  BY <1>6, <1>9, <1>13, <1>15, <1>16 DEF InRequest, d, L
<1>18. FirstOf(g) \in Nat /\ LastOf(g) \in Nat /\ FirstOf(g) <= LastOf(g)
  BY <1>2, <1>5, <1>6
<1>19. ASSUME NEW x \in Nat
       PROVE  x \in Spots(r) <=> x \in ListSpots(g) /\ m < x /\ x <= m + d
  <2>1. Spots(r) = m + from .. m + to
    BY <1>15, <1>16 DEF Spots
  <2>2. ListSpots(g) = o + 1 .. o + l
    BY DEF ListSpots, o, l
  <2>3. x \in m + from .. m + to <=> x \in o + 1 .. o + l /\ m < x /\ x <= m + d
    BY <1>1, <1>9, <1>10, <1>13
  <2>4. QED BY <2>1, <2>2, <2>3
<1>20. QED BY <1>15, <1>17, <1>18, <1>19 DEF r, m, d

(* Every place of a list is on one of its pages.                            *)
LEMMA SpotOnPage ==
  ASSUME NEW g \in Gram, NEW x \in ListSpots(g)
  PROVE  \E n \in FirstOf(g) .. LastOf(g) : x \in Spots(Request(g, n))
<1> DEFINE d == PageWords
           o == Offset[g]
           l == Length[g]
           e == o + l - 1
           y == x - 1
<1>1. d \in Nat \ {0} /\ o \in Nat /\ l \in Nat /\ l > 0
  BY PagerAssumption, OffsetType, PostingsFacts
<1> DEFINE F == o \div d
           E == e \div d
           n == y \div d
<1>2. FirstOf(g) = F /\ LastOf(g) = E
  BY DEF FirstOf, LastOf
<1>3. x \in o + 1 .. o + l
  BY DEF ListSpots
<1> HIDE DEF o, l, d
<1>4. y \in Nat /\ e \in Nat /\ o <= y /\ y <= e /\ x \in Nat
  BY <1>1, <1>3
<1> HIDE DEF e, y
<1>5. /\ F \in Nat /\ o % d \in 0 .. d - 1 /\ o = F * d + (o % d)
      /\ E \in Nat /\ e % d \in 0 .. d - 1 /\ e = E * d + (e % d)
      /\ n \in Nat /\ y % d \in 0 .. d - 1 /\ y = n * d + (y % d)
  BY <1>1, <1>4, DivMod
<1> DEFINE s == o % d
           t == e % d
           u == y % d
<1> HIDE DEF F, E, n
<1>6. /\ F * d \in Int /\ E * d \in Int /\ n * d \in Int
      /\ n < F => n * d + d <= F * d
      /\ E < n => E * d + d <= n * d
  BY <1>1, <1>5, Multiples
<1> DEFINE a == F * d
           b == E * d
           m == n * d
<1>7. /\ s \in 0 .. d - 1 /\ t \in 0 .. d - 1 /\ u \in 0 .. d - 1
      /\ o = a + s /\ e = b + t /\ y = m + u
      /\ a \in Int /\ b \in Int /\ m \in Int
      /\ n < F => m + d <= a
      /\ E < n => b + d <= m
  BY <1>5, <1>6
<1> HIDE DEF s, t, u, a, b, m
<1>8. F <= n /\ n <= E
  <2>1. ~(n < F)
    BY <1>1, <1>4, <1>7
  <2>2. ~(E < n)
    BY <1>1, <1>4, <1>7
  <2>3. QED BY <1>5, <2>1, <2>2
<1>9. y = x - 1
  BY DEF y
<1>10. m < x /\ x <= m + d
  BY <1>1, <1>4, <1>7, <1>9
<1>11. n \in FirstOf(g) .. LastOf(g)
  BY <1>2, <1>5, <1>8
<1>12. x \in Spots(Request(g, n)) <=> x \in ListSpots(g) /\ n * d < x /\ x <= n * d + d
  BY <1>4, <1>11, RequestFacts DEF d
<1>13. QED BY <1>10, <1>11, <1>12 DEF m

(* A request takes words of its list only.                                  *)
LEMMA SpotsOfList ==
  ASSUME NEW g \in Gram, NEW n \in FirstOf(g) .. LastOf(g), NEW x \in Spots(Request(g, n))
  PROVE  /\ x \in ListSpots(g) /\ x \in Nat /\ n \in Nat
         /\ n * PageWords < x /\ x <= n * PageWords + PageWords
<1> DEFINE r == Request(g, n)
<1>1. InRequest(r) /\ FirstOf(g) \in Nat /\ LastOf(g) \in Nat
  BY RequestFacts
<1>2. x \in r.page * PageWords + r.from .. r.page * PageWords + r.to
  BY DEF Spots
<1>3. /\ r.page * PageWords \in Nat /\ PageWords \in Nat /\ r.from \in 1 .. PageWords
      /\ r.to \in r.from .. PageWords
  BY <1>1, PagerAssumption DEF InRequest
<1>4. x \in Nat
  <2> HIDE DEF r
  <2>1. QED BY <1>2, <1>3
<1>5. x \in ListSpots(g) /\ n * PageWords < x /\ x <= n * PageWords + PageWords
  BY <1>4, RequestFacts
<1>6. QED BY <1>1, <1>4, <1>5

(* Two lists share no place.                                                *)
LEMMA ListsApart ==
  ASSUME NEW g \in Gram, NEW h \in Gram, NEW x \in Nat, x \in ListSpots(g), x \in ListSpots(h)
  PROVE  g = h
<1> SUFFICES ASSUME g # h PROVE FALSE
  OBVIOUS
<1>1. ASSUME NEW k \in Gram, NEW j \in Gram, k < j, x \in ListSpots(k), x \in ListSpots(j)
      PROVE  FALSE
  <2>1. /\ Offset[k] \in Nat /\ Length[k] \in Nat /\ Offset[j] \in Nat /\ Length[j] \in Nat
        /\ Offset[k] + Length[k] <= Offset[j]
    BY <1>1, OffsetType, PostingsFacts, PostingIdsFacts
  <2>2. QED BY <1>1, <2>1 DEF ListSpots
<1>2. g \in Nat /\ h \in Nat
  BY GramFacts
<1>3. g < h \/ h < g
  BY <1>2
<1>4. QED BY <1>1, <1>3

(* Requests of two lists, and for two pages of a list, take other words.    *)
LEMMA RequestsApart ==
  ASSUME NEW g \in Gram, NEW n \in FirstOf(g) .. LastOf(g),
         NEW h \in Gram, NEW m \in FirstOf(h) .. LastOf(h), g # h \/ n # m
  PROVE  Spots(Request(g, n)) \cap Spots(Request(h, m)) = {}
<1> SUFFICES ASSUME NEW x \in Spots(Request(g, n)) \cap Spots(Request(h, m)) PROVE FALSE
  OBVIOUS
<1>1. /\ n \in Nat /\ m \in Nat /\ x \in Nat /\ x \in ListSpots(g) /\ x \in ListSpots(h)
      /\ n * PageWords < x /\ x <= n * PageWords + PageWords
      /\ m * PageWords < x /\ x <= m * PageWords + PageWords
  BY SpotsOfList
<1>2. CASE g # h
  BY <1>1, <1>2, ListsApart
<1>3. CASE n # m
  <2>1. PageWords \in Nat \ {0}
    BY PagerAssumption
  <2>2. /\ n * PageWords \in Int /\ m * PageWords \in Int
        /\ n < m => n * PageWords + PageWords <= m * PageWords
        /\ m < n => m * PageWords + PageWords <= n * PageWords
    BY <1>1, <2>1, Multiples
  <2>3. n < m \/ m < n
    BY <1>1, <1>3
  <2>4. QED BY <1>1, <2>1, <2>2, <2>3
<1>4. QED BY <1>2, <1>3

(* All places of the lists of some grams, and those of requests to come.    *)
AllSpots(grams) == UNION {ListSpots(g) : g \in grams \cap Gram}
Left(todo) == UNION {Spots(todo[i]) : i \in 1 .. Len(todo)}
PagesRow(g) ==
  [i \in 1 .. LastOf(g) - FirstOf(g) + 1 |-> Request(g, FirstOf(g) + i - 1)]
Requests(g) == {Request(g, n) : n \in FirstOf(g) .. LastOf(g)}
AllRequests == UNION {Requests(g) : g \in Gram}
Apart(todo) ==
  \A i, j \in 1 .. Len(todo) : i # j => Spots(todo[i]) \cap Spots(todo[j]) = {}

(* The grams of a query that are in the pack are put in a row.              *)
RowOf(here) ==
  [k \in 1 .. Cardinality(here) |->
     CHOOSE g \in here : Cardinality({h \in here : Shorter(h, g)}) = k - 1]
LEMMA ShorterSorts ==
  ASSUME NEW here \in SUBSET Gram
  PROVE  Enumerates(RowOf(here), here)
<1> DEFINE R == {p \in here \X here : Shorter(p[1], p[2])}
           s == RowOf(here)
<1>1. \A x, y \in here : <<x, y>> \in R <=> Shorter(x, y)
  OBVIOUS
<1>2. \A x \in here : Preceding(R, here, x) = {y \in here : Shorter(y, x)}
  BY <1>1 DEF Preceding
<1> HIDE DEF R
<1>3. \A x \in here : x \in Nat /\ Length[x] \in Nat
  BY GramFacts, PostingsFacts
<1>4. Rows(R, here)
  <2>1. \A x \in here : <<x, x>> \notin R
    BY <1>1, <1>3 DEF Shorter
  <2>2. \A x, y, z \in here : <<x, y>> \in R /\ <<y, z>> \in R => <<x, z>> \in R
    BY <1>1, <1>3 DEF Shorter
  <2>3. \A x, y \in here : x = y \/ <<x, y>> \in R \/ <<y, x>> \in R
    <3>1. \A x, y \in here : x = y \/ Shorter(x, y) \/ Shorter(y, x)
      <4>1. SUFFICES ASSUME NEW x \in here, NEW y \in here
                     PROVE  x = y \/ Shorter(x, y) \/ Shorter(y, x)
        OBVIOUS
      <4>2. x \in Nat /\ y \in Nat /\ Length[x] \in Nat /\ Length[y] \in Nat
        BY <1>3
      <4>3. QED BY <4>2 DEF Shorter
    <3>2. QED BY <1>1, <3>1, Zenon
  <2>4. QED BY <2>1, <2>2, <2>3 DEF Rows
<1>5. IsFiniteSet(here)
  BY GramFacts, FS_Subset
<1>6. DOMAIN s = 1 .. Cardinality(here) /\ s = [k \in DOMAIN s |-> s[k]]
  <2> DEFINE n == Cardinality(here)
             F(k) == CHOOSE g \in here : Cardinality({h \in here : Shorter(h, g)}) = k - 1
  <2>1. s = [k \in 1 .. n |-> F(k)]
    BY DEF RowOf
  <2> HIDE DEF n, F, s
  <2>2. DOMAIN s = 1 .. n /\ s = [k \in DOMAIN s |-> s[k]]
    BY <2>1
  <2>3. QED BY <2>2 DEF n
<1>7. ASSUME NEW k \in 1 .. Cardinality(here)
      PROVE  s[k] \in here /\ Cardinality(Preceding(R, here, s[k])) = k - 1
  <2>1. s[k] = CHOOSE g \in here : Cardinality({h \in here : Shorter(h, g)}) = k - 1
    BY DEF RowOf
  <2> HIDE DEF s
  <2>2. \E x \in here : Cardinality(Preceding(R, here, x)) = k - 1
    BY <1>4, <1>5, RankFacts
  <2>3. \E x \in here : Cardinality({h \in here : Shorter(h, x)}) = k - 1
    BY <1>2, <2>2
  <2>4. s[k] \in here /\ Cardinality({h \in here : Shorter(h, s[k])}) = k - 1
    BY <2>1, <2>3
  <2>5. Preceding(R, here, s[k]) = {h \in here : Shorter(h, s[k])}
    BY <1>2, <2>4
  <2>6. QED BY <2>4, <2>5
<1> HIDE DEF s
<1>8. /\ Enumerates(s, here)
      /\ \A i, j \in 1 .. Cardinality(here) : i < j => <<s[i], s[j]>> \in R
  BY <1>4, <1>5, <1>6, <1>7, RankedLists
<1>9. QED BY <1>8 DEF s

(* The requests of a query take each place of its lists once.               *)
LEMMA PostingRequestsFacts ==
  ASSUME NEW grams
  PROVE  /\ PostingRequests(grams) \in Seq(AllRequests) /\ Apart(PostingRequests(grams))
         /\ Left(PostingRequests(grams)) = AllSpots(grams)
<1> DEFINE here == grams \cap Gram
           n == Cardinality(here)
           a == RowOf(here)
           q == [k \in DOMAIN a |-> PagesRow(a[k])]
           todo == PostingRequests(grams)
<1>1. todo = FlattenSeq(q)
  BY DEF PostingRequests, PagesRow, RowOf
<1>2. Enumerates(a, here)
  BY ShorterSorts
<1>3. n \in Nat
  BY GramFacts, FS_Subset, FS_CardinalityType
<1>4. DOMAIN a = 1 .. n
  BY DEF RowOf
<1> HIDE DEF a, n, todo
<1>5. /\ \A k \in 1 .. n : a[k] \in here /\ a[k] \in Gram
      /\ \A i, j \in 1 .. n : i # j => a[i] # a[j]
      /\ \A x \in here : \E i \in 1 .. n : a[i] = x
  BY <1>2 DEF Enumerates, n
<1>6. ASSUME NEW g \in Gram
      PROVE  /\ PagesRow(g) \in Seq(AllRequests) /\ Len(PagesRow(g)) = LastOf(g) - FirstOf(g) + 1
             /\ \A t \in 1 .. Len(PagesRow(g)) :
                  /\ FirstOf(g) + t - 1 \in FirstOf(g) .. LastOf(g)
                  /\ PagesRow(g)[t] = Request(g, FirstOf(g) + t - 1)
             /\ \A m \in FirstOf(g) .. LastOf(g) :
                  \E t \in 1 .. Len(PagesRow(g)) : PagesRow(g)[t] = Request(g, m)
             /\ FirstOf(g) \in Nat
  <2>1. FirstOf(g) \in Nat /\ LastOf(g) \in Nat /\ FirstOf(g) <= LastOf(g)
    <3>1. PICK m \in FirstOf(g) .. LastOf(g) : TRUE
      <4>1. Offset[g] \in Nat /\ Length[g] \in Nat /\ Length[g] > 0
        BY OffsetType, PostingsFacts
      <4>2. Offset[g] + 1 \in ListSpots(g)
        BY <4>1 DEF ListSpots
      <4>3. QED BY <4>2, SpotOnPage
    <3>2. QED BY <3>1, RequestFacts
  <2> DEFINE f == FirstOf(g)
             l == LastOf(g)
             row == PagesRow(g)
  <2>2. row = [i \in 1 .. l - f + 1 |-> Request(g, f + i - 1)]
    BY DEF PagesRow
  <2>3. \A m \in f .. l : Request(g, m) \in AllRequests
    BY DEF AllRequests, Requests
  <2> HIDE DEF f, l, row
  <2>4. f \in Nat /\ l \in Nat /\ f <= l
    BY <2>1 DEF f, l
  <2>5. l - f + 1 \in Nat /\ \A t \in 1 .. l - f + 1 : f + t - 1 \in f .. l
    BY <2>4
  <2>6. row \in [1 .. l - f + 1 -> AllRequests]
    BY <2>2, <2>3, <2>5
  <2>7. row \in Seq(AllRequests) /\ Len(row) = l - f + 1
    <3> DEFINE c == l - f + 1
    <3>1. c \in Nat /\ row \in [1 .. c -> AllRequests]
      BY <2>5, <2>6
    <3> HIDE DEF c
    <3>2. row \in Seq(AllRequests) /\ Len(row) = c
      BY <3>1
    <3>3. QED BY <3>2 DEF c
  <2>8. \A t \in 1 .. Len(row) : f + t - 1 \in f .. l /\ row[t] = Request(g, f + t - 1)
    BY <2>2, <2>5, <2>7
  <2>9. ASSUME NEW m \in f .. l PROVE \E t \in 1 .. Len(row) : row[t] = Request(g, m)
    <3>1. m - f + 1 \in 1 .. Len(row) /\ f + (m - f + 1) - 1 = m
      BY <2>4, <2>7
    <3>2. row[m - f + 1] = Request(g, f + (m - f + 1) - 1)
      BY <2>8, <3>1
    <3>3. QED BY <3>1, <3>2
  <2>10. QED BY <2>1, <2>7, <2>8, <2>9 DEF f, l, row
<1>7. q \in Seq(Seq(AllRequests)) /\ Len(q) = n /\ \A k \in 1 .. n : q[k] = PagesRow(a[k])
  <2>1. q \in [1 .. n -> Seq(AllRequests)]
    BY <1>4, <1>5, <1>6
  <2>2. \A k \in 1 .. n : q[k] = PagesRow(a[k])
    BY <1>4
  <2> HIDE DEF q
  <2>3. q \in Seq(Seq(AllRequests)) /\ Len(q) = n
    BY <1>3, <2>1
  <2>4. QED BY <2>2, <2>3
<1> HIDE DEF q
<1>8. PICK start : Flattened(todo, q, start, AllRequests)
  BY <1>1, <1>7, FlattenFacts
<1> DEFINE len == [k \in 1 .. n |-> Len(PagesRow(a[k]))]
<1>9. /\ len \in [1 .. n -> Nat]
      /\ \A k \in 1 .. n : len[k] = Len(PagesRow(a[k])) /\ len[k] = Len(q[k])
  <2>1. \A k \in 1 .. n : Len(PagesRow(a[k])) \in Nat
    <3>1. ASSUME NEW k \in 1 .. n PROVE Len(PagesRow(a[k])) \in Nat
      <4>1. PagesRow(a[k]) \in Seq(AllRequests)
        BY <1>5, <1>6
      <4>2. QED BY <4>1
    <3>2. QED BY <3>1
  <2>2. QED BY <1>7, <2>1
<1> HIDE DEF len
<1>10. /\ todo \in Seq(AllRequests) /\ start \in [1 .. n + 1 -> Nat] /\ start[1] = 0
       /\ \A k \in 1 .. n : start[k + 1] = start[k] + len[k]
       /\ Len(todo) = start[n + 1]
       /\ \A k \in 1 .. n : \A t \in 1 .. len[k] : todo[start[k] + t] = PagesRow(a[k])[t]
  <2>1. /\ todo \in Seq(AllRequests) /\ start \in [1 .. Len(q) + 1 -> Nat] /\ start[1] = 0
        /\ \A k \in 1 .. Len(q) : start[k + 1] = start[k] + Len(q[k])
        /\ Len(todo) = start[Len(q) + 1]
        /\ \A k \in 1 .. Len(q) : \A t \in 1 .. Len(q[k]) : todo[start[k] + t] = q[k][t]
    BY <1>8, Zenon DEF Flattened
  <2>2. Len(q) = n
    BY <1>7
  <2>3. /\ todo \in Seq(AllRequests) /\ start \in [1 .. n + 1 -> Nat] /\ start[1] = 0
        /\ \A k \in 1 .. n : start[k + 1] = start[k] + Len(q[k])
        /\ Len(todo) = start[n + 1]
        /\ \A k \in 1 .. n : \A t \in 1 .. Len(q[k]) : todo[start[k] + t] = q[k][t]
    BY <2>1, <2>2, Zenon
  <2>4. \A k \in 1 .. n : len[k] = Len(q[k]) /\ q[k] = PagesRow(a[k])
    BY <1>7, <1>9
  <2>5. \A k \in 1 .. n : start[k + 1] = start[k] + len[k]
    BY <2>3, <2>4
  <2>6. ASSUME NEW k \in 1 .. n, NEW t \in 1 .. len[k]
        PROVE  todo[start[k] + t] = PagesRow(a[k])[t]
    <3>1. t \in 1 .. Len(q[k]) /\ q[k] = PagesRow(a[k])
      BY <2>4
    <3>2. QED BY <2>3, <3>1, Zenon
  <2>7. QED BY <2>3, <2>5, <2>6
<1>11. /\ \A i \in 1 .. n : start[i] + len[i] <= start[n + 1]
       /\ \A p \in 1 .. start[n + 1] :
            \E k \in 1 .. n : start[k] < p /\ p <= start[k] + len[k]
  BY <1>3, <1>9, <1>10, StartsGrow
<1> DEFINE At(x, k, t) == /\ x = start[k] + t
                          /\ FirstOf(a[k]) + t - 1 \in FirstOf(a[k]) .. LastOf(a[k])
                          /\ todo[x] = Request(a[k], FirstOf(a[k]) + t - 1)
                          /\ FirstOf(a[k]) \in Nat
<1>12. ASSUME NEW x \in 1 .. Len(todo)
       PROVE  \E k \in 1 .. n : \E t \in 1 .. len[k] : At(x, k, t)
  <2>1. PICK k \in 1 .. n : start[k] < x /\ x <= start[k] + len[k]
    BY <1>10, <1>11
  <2>2. start[k] \in Nat /\ len[k] \in Nat /\ x \in Nat
    BY <1>3, <1>9, <1>10
  <2>3. PICK t \in 1 .. len[k] : x = start[k] + t
    <3>1. x - start[k] \in 1 .. len[k] /\ x = start[k] + (x - start[k])
      BY <2>1, <2>2
    <3>2. QED BY <3>1
  <2>4. todo[x] = PagesRow(a[k])[t]
    BY <1>10, <2>3
  <2>5. a[k] \in Gram /\ t \in 1 .. Len(PagesRow(a[k]))
    BY <1>5, <1>9
  <2>6. /\ FirstOf(a[k]) + t - 1 \in FirstOf(a[k]) .. LastOf(a[k])
        /\ PagesRow(a[k])[t] = Request(a[k], FirstOf(a[k]) + t - 1)
        /\ FirstOf(a[k]) \in Nat
    BY <1>6, <2>5
  <2>7. QED BY <2>3, <2>4, <2>6
<1>13. ASSUME NEW i \in 1 .. Len(todo), NEW j \in 1 .. Len(todo), i # j
       PROVE  Spots(todo[i]) \cap Spots(todo[j]) = {}
  <2>1. PICK k \in 1 .. n : \E t \in 1 .. len[k] : At(i, k, t)
    BY <1>12
  <2>b. PICK t \in 1 .. len[k] : At(i, k, t)
    BY <2>1
  <2>2. PICK m \in 1 .. n : \E u \in 1 .. len[m] : At(j, m, u)
    BY <1>12
  <2>d. PICK u \in 1 .. len[m] : At(j, m, u)
    BY <2>2
  <2>3. a[k] \in Gram /\ a[m] \in Gram
    BY <1>5
  <2>4. a[k] # a[m] \/ FirstOf(a[k]) + t - 1 # FirstOf(a[m]) + u - 1
    <3>1. CASE k = m
      <4>1. start[k] \in Nat /\ len[k] \in Nat
        BY <1>3, <1>9, <1>10
      <4>2. t # u /\ t \in Nat /\ u \in Nat
        BY <1>13, <2>b, <2>d, <3>1, <4>1
      <4> DEFINE b == FirstOf(a[k])
      <4>3. b \in Nat
        BY <2>b
      <4>4. FirstOf(a[m]) = b
        BY <3>1
      <4> HIDE DEF b
      <4>5. b + t - 1 # b + u - 1
        BY <4>2, <4>3
      <4>6. QED BY <4>4, <4>5 DEF b
    <3>2. CASE k # m
      BY <1>5, <3>2
    <3>3. QED BY <3>1, <3>2
  <2>5. Spots(Request(a[k], FirstOf(a[k]) + t - 1))
          \cap Spots(Request(a[m], FirstOf(a[m]) + u - 1)) = {}
    BY <2>b, <2>d, <2>3, <2>4, RequestsApart
  <2>6. QED BY <2>b, <2>d, <2>5, Zenon
<1>14. ASSUME NEW x, x \in Left(todo) PROVE x \in AllSpots(grams)
  <2>1. PICK i \in 1 .. Len(todo) : x \in Spots(todo[i])
    BY <1>14 DEF Left
  <2>2. PICK k \in 1 .. n : \E t \in 1 .. len[k] : At(i, k, t)
    BY <1>12
  <2>b. PICK t \in 1 .. len[k] : At(i, k, t)
    BY <2>2
  <2>3. a[k] \in Gram /\ a[k] \in here
    BY <1>5
  <2>4. x \in Spots(Request(a[k], FirstOf(a[k]) + t - 1))
    BY <2>1, <2>b, Zenon
  <2>5. x \in ListSpots(a[k])
    BY <2>b, <2>3, <2>4, SpotsOfList
  <2>6. QED BY <2>3, <2>5 DEF AllSpots
<1>15. ASSUME NEW x, x \in AllSpots(grams) PROVE x \in Left(todo)
  <2>1. PICK g \in here : x \in ListSpots(g)
    BY <1>15 DEF AllSpots
  <2>2. PICK m \in FirstOf(g) .. LastOf(g) : x \in Spots(Request(g, m))
    BY <2>1, SpotOnPage
  <2>3. PICK k \in 1 .. n : a[k] = g
    BY <1>5
  <2>4. PICK t \in 1 .. Len(PagesRow(g)) : PagesRow(g)[t] = Request(g, m)
    BY <1>6, <2>2
  <2>5. t \in 1 .. len[k] /\ todo[start[k] + t] = Request(g, m)
    <3>1. len[k] = Len(PagesRow(g))
      BY <1>9, <2>3
    <3>2. t \in 1 .. len[k]
      BY <2>4, <3>1
    <3>3. todo[start[k] + t] = PagesRow(a[k])[t]
      BY <1>10, <3>2
    <3>4. QED BY <2>3, <2>4, <3>2, <3>3
  <2>6. start[k] + t \in 1 .. Len(todo)
    <3>1. start[k] \in Nat /\ len[k] \in Nat /\ start[n + 1] \in Nat
      BY <1>3, <1>9, <1>10
    <3>2. start[k] + len[k] <= Len(todo) /\ Len(todo) \in Nat
      BY <1>10, <1>11, <3>1
    <3>3. t \in 1 .. len[k]
      BY <2>5
    <3> DEFINE u == start[k]
               v == len[k]
    <3>4. u \in Nat /\ v \in Nat /\ t \in 1 .. v /\ u + v <= Len(todo) /\ Len(todo) \in Nat
      BY <3>1, <3>2, <3>3
    <3> HIDE DEF u, v
    <3>5. u + t \in 1 .. Len(todo)
      BY <3>4
    <3>6. QED BY <3>5 DEF u
  <2>7. x \in Spots(todo[start[k] + t])
    BY <2>2, <2>5, Zenon
  <2>8. QED BY <2>6, <2>7 DEF Left
<1>16. Apart(todo)
  BY <1>13 DEF Apart
<1>17. Left(todo) = AllSpots(grams)
  BY <1>14, <1>15
<1>18. QED BY <1>10, <1>16, <1>17 DEF todo

----------------------------------------------------------------------------
(* Counting ids.                                                            *)

Count(s, i) == Cardinality({k \in 1 .. Len(s) : s[k] = i})

(* Moving numbers up.                                                       *)
LEMMA Shifted ==
  ASSUME NEW m \in Nat, NEW A \in SUBSET Nat, IsFiniteSet(A)
  PROVE  IsFiniteSet({m + k : k \in A}) /\ Cardinality({m + k : k \in A}) = Cardinality(A)
<1> DEFINE B == {m + k : k \in A}
           f == [k \in A |-> m + k]
<1>1. f \in Surjection(A, B)
  <2>1. f \in [A -> B]
    OBVIOUS
  <2>2. \A y \in B : \E x \in A : f[x] = y
    OBVIOUS
  <2>3. QED BY <2>1, <2>2 DEF Surjection
<1>2. f \in Injection(A, B)
  <2>1. f \in [A -> B]
    OBVIOUS
  <2>2. \A x, y \in A : f[x] = f[y] => x = y
    <3>1. \A x \in A : x \in Nat /\ f[x] = m + x
      OBVIOUS
    <3> HIDE DEF f
    <3>2. QED BY <3>1
  <2> HIDE DEF f, B
  <2>3. QED BY <2>1, <2>2 DEF Injection, IsInjective
<1> HIDE DEF f, B
<1>3. IsFiniteSet(B) /\ Cardinality(B) = Cardinality(A)
  BY <1>1, <1>2, FS_Surjection
<1>4. QED BY <1>3 DEF B

(* Who appears how often in two sequences together.                         *)
LEMMA CountConcat ==
  ASSUME NEW T, NEW u \in Seq(T), NEW v \in Seq(T), NEW i
  PROVE  /\ Count(u \o v, i) = Count(u, i) + Count(v, i)
         /\ Count(u, i) \in Nat /\ Count(v, i) \in Nat
<1> DEFINE m == Len(u)
           n == Len(v)
           w == u \o v
           A == {k \in 1 .. m : u[k] = i}
           B == {k \in 1 .. n : v[k] = i}
           C == {m + k : k \in B}
           W == {k \in 1 .. Len(w) : w[k] = i}
<1>1. /\ Len(w) = m + n /\ m \in Nat /\ n \in Nat
      /\ \A k \in 1 .. m : w[k] = u[k] /\ k \in 1 .. m + n
      /\ \A k \in 1 .. n : w[m + k] = v[k] /\ m + k \in 1 .. m + n
  BY ConcatFacts
<1> HIDE DEF m, n, w
<1>2. IsFiniteSet(A) /\ IsFiniteSet(B) /\ A \in SUBSET Nat /\ B \in SUBSET Nat
  <2>1. IsFiniteSet(1 .. m) /\ IsFiniteSet(1 .. n)
    BY <1>1, FirstNumbers
  <2>2. A \subseteq 1 .. m /\ B \subseteq 1 .. n
    OBVIOUS
  <2>3. \A k \in 1 .. m : k \in Nat
    OBVIOUS
  <2>4. \A k \in 1 .. n : k \in Nat
    OBVIOUS
  <2> HIDE DEF A, B
  <2>5. QED BY <2>1, <2>2, <2>3, <2>4, FS_Subset
<1>3. W = A \cup C
  <2>1. ASSUME NEW x \in W PROVE x \in A \/ x \in C
    <3>1. x \in 1 .. m + n /\ w[x] = i
      BY <1>1
    <3>2. CASE x <= m
      <4>1. x \in 1 .. m
        BY <1>1, <3>1, <3>2
      <4>2. QED BY <1>1, <3>1, <4>1
    <3>3. CASE ~(x <= m)
      <4>1. x - m \in 1 .. n /\ m + (x - m) = x
        BY <1>1, <3>1, <3>3
      <4>2. v[x - m] = i
        BY <1>1, <3>1, <4>1
      <4>3. x - m \in B
        BY <4>1, <4>2
      <4> HIDE DEF B
      <4>4. QED BY <4>1, <4>3
    <3>4. QED BY <3>2, <3>3
  <2>2. ASSUME NEW x \in A PROVE x \in W
    BY <1>1
  <2>3. ASSUME NEW x \in C PROVE x \in W
    <3>1. PICK k \in B : x = m + k
      OBVIOUS
    <3>2. QED BY <1>1, <3>1
  <2> HIDE DEF A, C, W
  <2>4. QED BY <2>1, <2>2, <2>3
<1>4. A \cap C = {}
  <2>1. SUFFICES ASSUME NEW x \in A, x \in C PROVE FALSE
    OBVIOUS
  <2>2. PICK k \in B : x = m + k
    BY <2>1
  <2>3. k \in 1 .. n /\ x \in 1 .. m
    BY <2>1
  <2>4. QED BY <1>1, <2>2, <2>3
<1> HIDE DEF B
<1>5. IsFiniteSet(C) /\ Cardinality(C) = Cardinality(B)
  BY <1>1, <1>2, Shifted
<1> HIDE DEF A, C, W
<1>6. Cardinality(A \cup C) = Cardinality(A) + Cardinality(C) - Cardinality(A \cap C)
  BY <1>2, <1>5, FS_Union
<1>7. Cardinality(A) \in Nat /\ Cardinality(B) \in Nat /\ Cardinality({}) = 0
  BY <1>2, FS_CardinalityType, FS_EmptySet
<1>8. Cardinality(W) = Cardinality(A) + Cardinality(B)
  <2>1. Cardinality(A \cap C) = 0
    BY <1>4, <1>7
  <2>2. Cardinality(W) = Cardinality(A) + Cardinality(C) - Cardinality(A \cap C)
    BY <1>3, <1>6
  <2>3. QED BY <1>5, <1>7, <2>1, <2>2
<1>9. Count(w, i) = Cardinality(W) /\ Count(u, i) = Cardinality(A) /\ Count(v, i) = Cardinality(B)
  BY DEF Count, W, A, B, m, n
<1>10. QED BY <1>7, <1>8, <1>9 DEF w

PieceOf(v, P, m, n) == Len(v) = n /\ \A k \in 1 .. n : v[k] = P[m + k]
PlacesOf(P, m, n, i) == {x \in m + 1 .. m + n : P[x] = i}

(* Who appears how often in a piece of the ids.                             *)
LEMMA CountPiece ==
  ASSUME NEW P, NEW m \in Nat, NEW n \in Nat, NEW v, PieceOf(v, P, m, n), NEW i
  PROVE  Count(v, i) = Cardinality(PlacesOf(P, m, n, i))
<1> DEFINE B == {k \in 1 .. n : v[k] = i}
           C == {x \in m + 1 .. m + n : P[x] = i}
<1>0. Len(v) = n /\ \A k \in 1 .. n : v[k] = P[m + k]
  BY DEF PieceOf
<1>1. C = {m + k : k \in B}
  <2>1. ASSUME NEW x \in C PROVE x \in {m + k : k \in B}
    <3>1. x - m \in 1 .. n /\ m + (x - m) = x
      OBVIOUS
    <3>2. v[x - m] = i
      BY <1>0, <3>1
    <3>3. x - m \in B
      BY <3>1, <3>2
    <3> HIDE DEF B
    <3>4. QED BY <3>1, <3>3
  <2>2. ASSUME NEW k \in B PROVE m + k \in C
    <3>1. k \in 1 .. n /\ m + k \in m + 1 .. m + n
      OBVIOUS
    <3>2. QED BY <1>0, <3>1
  <2> HIDE DEF B, C
  <2>3. QED BY <2>1, <2>2
<1>2. IsFiniteSet(B) /\ B \in SUBSET Nat
  <2>1. IsFiniteSet(1 .. n)
    BY FirstNumbers
  <2>2. B \subseteq 1 .. n
    OBVIOUS
  <2>3. \A k \in 1 .. n : k \in Nat
    OBVIOUS
  <2> HIDE DEF B
  <2>4. QED BY <2>1, <2>2, <2>3, FS_Subset
<1>3. Count(v, i) = Cardinality(B)
  BY <1>0 DEF Count
<1> HIDE DEF B, C
<1>4. Cardinality({m + k : k \in B}) = Cardinality(B)
  BY <1>2, Shifted
<1>5. QED BY <1>1, <1>3, <1>4 DEF C, PlacesOf

(* The places of a list hold the ids of its surfaces, each once.            *)
LEMMA ListIds ==
  ASSUME NEW g \in Gram
  PROVE  /\ \A x \in ListSpots(g) :
              x \in 1 .. Len(PostingIds) /\ x \in Nat /\ PostingIds[x] \in Having(g)
         /\ \A x, y \in ListSpots(g) : PostingIds[x] = PostingIds[y] => x = y
         /\ \A i \in Having(g) : \E x \in ListSpots(g) : PostingIds[x] = i
<1> DEFINE o == Offset[g]
           l == Length[g]
           P == Postings[g]
           L == Len(PostingIds)
           ids == PostingIds
           S == ListSpots(g)
<1>1. o \in Nat /\ l \in Nat /\ l = Cardinality(Having(g)) /\ Enumerates(P, Having(g))
  BY OffsetType, PostingsFacts
<1>2. ids \in Seq(DOMAIN Surfaces) /\ o + l <= L /\ \A k \in 1 .. l : ids[o + k] = P[k]
  BY PostingIdsFacts
<1>3. L \in Nat
  BY <1>2
<1>4. /\ \A k \in 1 .. l : P[k] \in Having(g)
      /\ \A j, k \in 1 .. l : j # k => P[j] # P[k]
      /\ \A i \in Having(g) : \E k \in 1 .. l : P[k] = i
  BY <1>1 DEF Enumerates
<1>5. S = o + 1 .. o + l
  BY DEF ListSpots
<1> HIDE DEF o, l, P, L, ids, S
<1>6. ASSUME NEW x \in S
      PROVE  \E k \in 1 .. l : x = o + k /\ ids[x] = P[k] /\ x \in 1 .. L /\ x \in Nat
  <2>0. x \in o + 1 .. o + l
    BY <1>5
  <2>1. x - o \in 1 .. l /\ x = o + (x - o) /\ x \in 1 .. L /\ x \in Nat
    BY <1>1, <1>2, <1>3, <2>0
  <2> DEFINE k == x - o
  <2>2. k \in 1 .. l /\ x = o + k /\ x \in 1 .. L /\ x \in Nat
    BY <2>1
  <2> HIDE DEF k
  <2>3. QED BY <1>2, <2>2
<1>7. \A x \in S : x \in 1 .. L /\ x \in Nat /\ ids[x] \in Having(g)
  BY <1>4, <1>6
<1>8. ASSUME NEW x \in S, NEW y \in S, ids[x] = ids[y] PROVE x = y
  <2>1. PICK j \in 1 .. l : x = o + j /\ ids[x] = P[j]
    BY <1>6
  <2>2. PICK k \in 1 .. l : y = o + k /\ ids[y] = P[k]
    BY <1>6
  <2>3. j = k
    BY <1>4, <1>8, <2>1, <2>2
  <2>4. QED BY <2>1, <2>2, <2>3
<1>9. ASSUME NEW i \in Having(g) PROVE \E x \in S : ids[x] = i
  <2>1. PICK k \in 1 .. l : P[k] = i
    BY <1>4
  <2>2. o + k \in S
    BY <1>1, <1>5
  <2>3. QED BY <1>2, <2>1, <2>2
<1>10. QED BY <1>7, <1>8, <1>9 DEF L, ids, S

(* A surface appears in the lists of some grams as often as it has any.     *)
LEMMA OverlapCounts ==
  ASSUME NEW grams, NEW i \in DOMAIN Surfaces
  PROVE  /\ Cardinality({x \in AllSpots(grams) : PostingIds[x] = i}) = Overlap(grams, i)
         /\ Overlap(grams, i) \in Nat
<1> DEFINE H == grams \cap Surfaces[i].grams
           X == {x \in AllSpots(grams) : PostingIds[x] = i}
           f == [g \in H |-> CHOOSE x \in ListSpots(g) : PostingIds[x] = i]
<1>1. H \in SUBSET Gram /\ \A g \in H : i \in Having(g)
  BY DEF Gram, Having
<1>2. IsFiniteSet(H)
  BY EdgePackAssumption, FS_Subset
<1>3. \A g \in H : f[g] \in ListSpots(g) /\ PostingIds[f[g]] = i
  BY <1>1, ListIds
<1>4. \A g \in H : g \in grams \cap Gram
  BY <1>1
<1>5. f \in [H -> X]
  <2>1. \A g \in H : f[g] \in X
    BY <1>3, <1>4 DEF AllSpots
  <2> HIDE DEF X, H
  <2>2. QED BY <2>1
<1>6. \A g, h \in H : f[g] = f[h] => g = h
  <2>1. ASSUME NEW g \in H, NEW h \in H, f[g] = f[h] PROVE g = h
    <3>1. f[g] \in ListSpots(g) /\ f[g] \in ListSpots(h) /\ g \in Gram /\ h \in Gram
      BY <1>1, <1>3, <2>1
    <3>2. f[g] \in Nat
      BY <3>1, ListIds
    <3> HIDE DEF f
    <3>3. QED BY <3>1, <3>2, ListsApart
  <2>2. QED BY <2>1
<1>7. \A x \in X : \E g \in H : f[g] = x
  <2>1. ASSUME NEW x \in X PROVE \E g \in H : f[g] = x
    <3>1. PICK g \in grams \cap Gram : x \in ListSpots(g)
      BY DEF AllSpots
    <3>2. PostingIds[x] = i
      OBVIOUS
    <3>3. i \in Having(g)
      BY <3>1, <3>2, ListIds
    <3>4. g \in H
      BY <3>1, <3>3 DEF Having
    <3>5. f[g] = x
      BY <1>3, <3>1, <3>2, <3>4, ListIds
    <3>6. QED BY <3>4, <3>5
  <2>2. QED BY <2>1
<1> HIDE DEF f, X, H
<1>8. f \in Bijection(H, X)
  <2>1. f \in Injection(H, X)
    BY <1>5, <1>6 DEF Injection, IsInjective
  <2>2. f \in Surjection(H, X)
    BY <1>5, <1>7 DEF Surjection
  <2>3. QED BY <2>1, <2>2 DEF Bijection
<1>9. Cardinality(X) = Cardinality(H)
  BY <1>2, <1>8, FS_Bijection DEF ExistsBijection
<1>10. Cardinality(H) \in Nat
  BY <1>2, FS_CardinalityType
<1>11. QED BY <1>9, <1>10 DEF X, H, Overlap

----------------------------------------------------------------------------
(* The best of the surfaces.                                                *)

Row == [id : DOMAIN Surfaces, overlap : Nat]
Falling(top) == \A j, k \in 1 .. Len(top) : j < k => Ahead(top[j], top[k])

(* Of two surfaces one is ahead.                                            *)
LEMMA AheadFacts ==
  /\ \A a \in Row : ~Ahead(a, a)
  /\ \A a, b \in Row : Ahead(a, b) => ~Ahead(b, a)
  /\ \A a, b \in Row : a.id # b.id => Ahead(a, b) \/ Ahead(b, a)
  /\ \A a, b, c \in Row : Ahead(a, b) /\ Ahead(b, c) => Ahead(a, c)
<1>1. \A a \in Row : a.overlap \in Nat /\ a.id \in Nat
  BY EdgePackAssumption DEF Row
<1> HIDE DEF Row
<1>2. \A a \in Row : ~Ahead(a, a)
  BY <1>1 DEF Ahead
<1>3. \A a, b \in Row : Ahead(a, b) => ~Ahead(b, a)
  BY <1>1 DEF Ahead
<1>4. ASSUME NEW a \in Row, NEW b \in Row, a.id # b.id PROVE Ahead(a, b) \/ Ahead(b, a)
  <2> DEFINE i == a.id
             j == b.id
             m == a.overlap
             n == b.overlap
  <2>1. i \in Nat /\ j \in Nat /\ m \in Nat /\ n \in Nat /\ i # j
    BY <1>1, <1>4
  <2> HIDE DEF i, j, m, n
  <2>2. \/ m > n \/ (m = n /\ i < j)
        \/ n > m \/ (n = m /\ j < i)
    BY <2>1
  <2>3. QED BY <2>2 DEF Ahead, i, j, m, n
<1>5. ASSUME NEW a \in Row, NEW b \in Row, NEW c \in Row, Ahead(a, b), Ahead(b, c)
      PROVE  Ahead(a, c)
  <2>1. /\ a.id \in Nat /\ b.id \in Nat /\ c.id \in Nat
        /\ a.overlap \in Nat /\ b.overlap \in Nat /\ c.overlap \in Nat
    BY <1>1
  <2>2. QED BY <1>5, <2>1 DEF Ahead
<1>6. QED BY <1>2, <1>3, <1>4, <1>5

(* What InsertAt does.                                                      *)
LEMMA Inserted ==
  ASSUME NEW T, NEW s \in Seq(T), NEW x \in T, NEW a \in 0 .. Len(s)
  PROVE  /\ InsertAt(s, a + 1, x) \in Seq(T) /\ Len(InsertAt(s, a + 1, x)) = Len(s) + 1
         /\ \A k \in 1 .. Len(s) + 1 :
              InsertAt(s, a + 1, x)[k]
                = IF k <= a THEN s[k] ELSE IF k = a + 1 THEN x ELSE s[k - 1]
<1> DEFINE n == Len(s)
           u == SubSeq(s, 1, a)
           v == SubSeq(s, a + 1, n)
           e == <<x>>
<1>1. n \in Nat /\ a \in Nat /\ a <= n
  OBVIOUS
<1>2. u \in Seq(T) /\ Len(u) = a /\ \A k \in 1 .. a : u[k] = s[k]
  OBVIOUS
<1>3. v \in Seq(T) /\ Len(v) = n - a /\ \A k \in 1 .. n - a : v[k] = s[a + k]
  OBVIOUS
<1>4. e \in Seq(T) /\ Len(e) = 1 /\ e[1] = x
  OBVIOUS
<1>5. InsertAt(s, a + 1, x) = u \o e \o v
  <2>1. InsertAt(s, a + 1, x) = SubSeq(s, 1, (a + 1) - 1) \o <<x>> \o SubSeq(s, a + 1, Len(s))
    BY Zenon DEF InsertAt
  <2>2. (a + 1) - 1 = a
    BY <1>1
  <2>3. QED BY <2>1, <2>2, Zenon
<1>0. ASSUME NEW f \in Seq(T), NEW g \in Seq(T)
      PROVE  /\ f \o g \in Seq(T) /\ Len(f \o g) = Len(f) + Len(g)
             /\ \A k \in 1 .. Len(f) : (f \o g)[k] = f[k]
             /\ \A k \in 1 .. Len(g) : (f \o g)[Len(f) + k] = g[k]
  <2>1. /\ f \o g \in Seq(T) /\ Len(f \o g) = Len(f) + Len(g)
        /\ Len(f) \in Nat /\ Len(g) \in Nat
        /\ \A i \in 1 .. Len(f) : (f \o g)[i] = f[i] /\ i \in 1 .. Len(f) + Len(g)
        /\ \A i \in 1 .. Len(g) :
              (f \o g)[Len(f) + i] = g[i] /\ Len(f) + i \in 1 .. Len(f) + Len(g)
    BY ConcatFacts
  <2>2. QED BY <2>1
<1> HIDE DEF u, v, e, n
<1> DEFINE w == u \o e
<1>6. /\ w \in Seq(T) /\ Len(w) = a + 1
      /\ \A k \in 1 .. a : w[k] = s[k]
      /\ w[a + 1] = x
  <2>1. /\ w \in Seq(T) /\ Len(w) = Len(u) + Len(e)
        /\ \A k \in 1 .. Len(u) : w[k] = u[k]
        /\ \A k \in 1 .. Len(e) : w[Len(u) + k] = e[k]
    BY <1>0, <1>2, <1>4
  <2> HIDE DEF w
  <2>2. 1 \in 1 .. Len(e)
    BY <1>4
  <2>3. w[a + 1] = x
    BY <1>2, <1>4, <2>1, <2>2
  <2>4. QED BY <1>2, <1>4, <2>1, <2>3
<1> HIDE DEF w
<1> DEFINE z == w \o v
<1>7. /\ z \in Seq(T) /\ Len(z) = Len(w) + Len(v)
      /\ \A k \in 1 .. Len(w) : z[k] = w[k]
      /\ \A k \in 1 .. Len(v) : z[Len(w) + k] = v[k]
  BY <1>0, <1>3, <1>6
<1>8. InsertAt(s, a + 1, x) = z
  BY <1>5 DEF w
<1> HIDE DEF z
<1>9. Len(z) = n + 1
  BY <1>1, <1>3, <1>6, <1>7
<1>10. ASSUME NEW k \in 1 .. n + 1
       PROVE  z[k] = IF k <= a THEN s[k] ELSE IF k = a + 1 THEN x ELSE s[k - 1]
  <2>1. CASE k <= a
    <3>1. k \in 1 .. a /\ k \in 1 .. Len(w)
      BY <1>1, <1>6, <2>1
    <3>2. QED BY <1>6, <1>7, <2>1, <3>1
  <2>2. CASE k = a + 1
    <3>1. k \in 1 .. Len(w) /\ ~(k <= a)
      BY <1>1, <1>6, <2>2
    <3>2. QED BY <1>6, <1>7, <2>2, <3>1
  <2>3. CASE k > a + 1
    <3> DEFINE t == k - (a + 1)
    <3>1. t \in 1 .. n - a /\ a + 1 + t = k /\ a + t = k - 1
      BY <1>1, <2>3
    <3>2. ~(k <= a) /\ k # a + 1
      BY <1>1, <2>3
    <3> HIDE DEF t
    <3>3. z[a + 1 + t] = v[t] /\ v[t] = s[a + t]
      BY <1>3, <1>6, <1>7, <3>1
    <3>4. z[k] = s[k - 1]
      BY <3>1, <3>3
    <3>5. QED BY <3>2, <3>4
  <2>4. QED BY <1>1, <2>1, <2>2, <2>3
<1>11. QED BY <1>7, <1>8, <1>9, <1>10 DEF n

(* A surface is placed behind those that are ahead of it.                   *)
LEMMA PlacedFacts ==
  ASSUME NEW top \in Seq(Row), NEW x \in Row, Len(top) <= TopK, Falling(top),
         \A k \in 1 .. Len(top) : top[k].id # x.id
  PROVE  \E a \in 0 .. Len(top) :
           /\ \A k \in 1 .. Len(top) : k <= a => Ahead(top[k], x)
           /\ \A k \in 1 .. Len(top) : a < k => Ahead(x, top[k])
           /\ Placed(top, x) \in Seq(Row)
           /\ Len(Placed(top, x)) = IF Len(top) + 1 <= TopK THEN Len(top) + 1 ELSE TopK
           /\ \A k \in 1 .. Len(Placed(top, x)) :
                Placed(top, x)[k]
                  = IF k <= a THEN top[k] ELSE IF k = a + 1 THEN x ELSE top[k - 1]
<1> DEFINE n == Len(top)
           B == {k \in DOMAIN top : ~Ahead(x, top[k])}
           a == Max({0} \cup B)
           w == InsertAt(top, a + 1, x)
           m == Min({Len(top) + 1, TopK})
<1>1. n \in Nat /\ DOMAIN top = 1 .. n /\ \A k \in 1 .. n : top[k] \in Row
  OBVIOUS
<1>2. Placed(top, x) = SubSeq(w, 1, m)
  BY DEF Placed
<1>3. TopK \in Nat \ {0}
  BY EdgePackAssumption
<1>4. m = IF n + 1 <= TopK THEN n + 1 ELSE TopK
  <2> DEFINE c == n + 1
  <2>1. c \in Int /\ TopK \in Int
    BY <1>1, <1>3
  <2> HIDE DEF c
  <2>2. Min({c, TopK}) = IF c <= TopK THEN c ELSE TopK
    BY <2>1, OfTwo
  <2>3. QED BY <2>2 DEF c
<1>5. a \in {0} \cup B /\ \A k \in B : k <= a
  <2>1. {0} \cup B \subseteq 0 .. n /\ 0 \in {0} \cup B
    BY <1>1
  <2>2. \E y \in {0} \cup B : \A z \in {0} \cup B : y >= z
    <3> DEFINE C == {0} \cup B
               D == {y \in Nat : \A z \in C : y >= z}
    <3> HIDE DEF C
    <3>1. D \in SUBSET Nat /\ n \in D
      BY <1>1, <2>1 DEF C
    <3>2. PICK y \in D : \A z \in D : y <= z
      BY <3>1, LeastNumber
    <3>3. y \in Nat /\ \A z \in C : y >= z
      BY <3>2
    <3>4. y \in C
      <4>1. SUFFICES ASSUME y \notin C PROVE FALSE
        OBVIOUS
      <4>2. 0 \in C /\ \A z \in C : z \in Nat /\ z # y
        BY <1>1, <2>1, <4>1 DEF C
      <4>3. y > 0
        BY <3>3, <4>2
      <4>4. y - 1 \in Nat /\ \A z \in C : y - 1 >= z
        BY <3>3, <4>2, <4>3
      <4>5. y - 1 \in D
        BY <4>4
      <4>6. y <= y - 1
        BY <3>2, <4>5
      <4>7. QED BY <3>3, <4>6
    <3>5. QED BY <3>3, <3>4 DEF C
  <2> HIDE DEF B
  <2>3. a \in {0} \cup B /\ \A z \in {0} \cup B : a >= z
    BY <2>2 DEF Max
  <2>4. \A z \in {0} \cup B : z \in Int
    BY <1>1, <2>1
  <2> HIDE DEF a
  <2>5. \A k \in B : k <= a
    BY <2>3, <2>4
  <2>6. QED BY <2>3, <2>5
<1> HIDE DEF a
<1>6. a \in 0 .. n
  BY <1>1, <1>5
<1>7. ASSUME NEW k \in 1 .. n, a < k PROVE Ahead(x, top[k])
  <2>1. k \notin B
    <3> HIDE DEF B
    <3>1. k \in B => k <= a
      BY <1>5
    <3>2. QED BY <1>6, <1>7, <3>1
  <2>2. QED BY <1>1, <2>1
<1>8. ASSUME NEW k \in 1 .. n, k <= a PROVE Ahead(top[k], x)
  <2>1. a \in B
    <3>1. a # 0
      BY <1>6, <1>8
    <3>2. QED BY <1>5, <3>1
  <2>2. a \in 1 .. n /\ ~Ahead(x, top[a])
    BY <1>1, <2>1
  <2>3. top[a] \in Row /\ top[a].id # x.id /\ top[k] \in Row
    BY <1>1, <2>2
  <2>4. Ahead(top[a], x)
    BY <2>2, <2>3, AheadFacts
  <2>5. CASE k = a
    BY <2>4, <2>5
  <2>6. CASE k # a
    <3>1. k < a
      BY <1>6, <1>8, <2>6
    <3>2. Ahead(top[k], top[a])
      BY <2>2, <3>1 DEF Falling
    <3>3. QED BY <2>3, <2>4, <3>2, AheadFacts
  <2>7. QED BY <2>5, <2>6
<1>9. /\ w \in Seq(Row) /\ Len(w) = n + 1
      /\ \A k \in 1 .. n + 1 :
           w[k] = IF k <= a THEN top[k] ELSE IF k = a + 1 THEN x ELSE top[k - 1]
  <2>1. /\ w \in Seq(Row) /\ Len(w) = Len(top) + 1
        /\ \A k \in 1 .. Len(top) + 1 :
             w[k] = IF k <= a THEN top[k] ELSE IF k = a + 1 THEN x ELSE top[k - 1]
    BY <1>6, Inserted
  <2>2. QED BY <2>1
<1> HIDE DEF w, m
<1>10. m \in Nat /\ m <= n + 1
  BY <1>1, <1>3, <1>4
<1>11. /\ SubSeq(w, 1, m) \in Seq(Row) /\ Len(SubSeq(w, 1, m)) = m
       /\ \A k \in 1 .. m : SubSeq(w, 1, m)[k] = w[k]
  BY <1>9, <1>10
<1>12. \A k \in 1 .. m : k \in 1 .. n + 1
  BY <1>1, <1>10
<1> DEFINE p == Placed(top, x)
<1>13. /\ p \in Seq(Row) /\ Len(p) = m
       /\ \A k \in 1 .. Len(p) :
            p[k] = IF k <= a THEN top[k] ELSE IF k = a + 1 THEN x ELSE top[k - 1]
  BY <1>2, <1>9, <1>11, <1>12
<1> HIDE DEF p
<1>14. QED BY <1>4, <1>6, <1>7, <1>8, <1>13 DEF p, n

(* top is the best of the first m rows.                                     *)
Best(top, rows, m) ==
  /\ top \in Seq(Row) /\ Len(top) <= TopK /\ Falling(top)
  /\ \A j \in 1 .. Len(top) : \E k \in 1 .. m : top[j] = rows[k]
  /\ \A k \in 1 .. m :
       \/ \E j \in 1 .. Len(top) : top[j] = rows[k]
       \/ Len(top) = TopK /\ \A j \in 1 .. Len(top) : Ahead(top[j], rows[k])

(* Placing the next row makes it the best of one row more.                  *)
LEMMA BestStep ==
  ASSUME NEW rows, NEW m \in Nat, \A k \in 1 .. m + 1 : rows[k] \in Row,
         \A j, k \in 1 .. m + 1 : j # k => rows[j].id # rows[k].id,
         NEW top, Best(top, rows, m)
  PROVE  Best(Placed(top, rows[m + 1]), rows, m + 1)
<1> DEFINE n == Len(top)
           x == rows[m + 1]
           p == Placed(top, x)
           l == Len(p)
<1>1. /\ top \in Seq(Row) /\ n <= TopK /\ Falling(top)
      /\ \A j \in 1 .. n : \E k \in 1 .. m : top[j] = rows[k]
      /\ \A k \in 1 .. m :
           \/ \E j \in 1 .. n : top[j] = rows[k]
           \/ n = TopK /\ \A j \in 1 .. n : Ahead(top[j], rows[k])
  BY DEF Best
<1>2. n \in Nat /\ x \in Row /\ TopK \in Nat /\ \A j \in 1 .. n : top[j] \in Row
  BY <1>1, EdgePackAssumption
<1>3. \A k \in 1 .. m : k \in 1 .. m + 1 /\ rows[k] \in Row /\ rows[k].id # x.id
  OBVIOUS
<1>4. \A k \in 1 .. Len(top) : top[k].id # x.id
  BY <1>1, <1>3
<1>5. PICK a \in 0 .. n :
        /\ \A k \in 1 .. n : k <= a => Ahead(top[k], x)
        /\ \A k \in 1 .. n : a < k => Ahead(x, top[k])
        /\ p \in Seq(Row)
        /\ l = IF n + 1 <= TopK THEN n + 1 ELSE TopK
        /\ \A k \in 1 .. l :
             p[k] = IF k <= a THEN top[k] ELSE IF k = a + 1 THEN x ELSE top[k - 1]
  BY <1>1, <1>2, <1>4, PlacedFacts
<1>6. /\ \A j, k \in 1 .. n : j < k => Ahead(top[j], top[k])
      /\ \A r, s, t \in Row : Ahead(r, s) /\ Ahead(s, t) => Ahead(r, t)
  BY <1>1, AheadFacts DEF Falling
<1>x. x = rows[m + 1] /\ m + 1 \in 1 .. m + 1
  OBVIOUS
<1> HIDE DEF n, x, p, l
<1>7. l \in Nat /\ l <= TopK /\ (l = n + 1 \/ (l = n /\ n = TopK))
  BY <1>1, <1>2, <1>5
<1>8. ASSUME NEW j \in 1 .. l
      PROVE  \/ j <= a /\ j \in 1 .. n /\ p[j] = top[j]
             \/ j = a + 1 /\ p[j] = x
             \/ j > a + 1 /\ j - 1 \in 1 .. n /\ a < j - 1 /\ p[j] = top[j - 1]
  <2>1. p[j] = IF j <= a THEN top[j] ELSE IF j = a + 1 THEN x ELSE top[j - 1]
    BY <1>5
  <2>2. j \in Nat /\ j <= n + 1 /\ j > 0 /\ a \in Nat /\ a <= n
    BY <1>2, <1>7
  <2>3. CASE j <= a
    BY <1>2, <2>1, <2>2, <2>3
  <2>4. CASE j = a + 1
    BY <2>1, <2>2, <2>4
  <2>5. CASE j > a + 1
    <3>1. ~(j <= a) /\ j # a + 1 /\ j - 1 \in 1 .. n /\ a < j - 1
      BY <1>2, <2>2, <2>5
    <3>2. QED BY <2>1, <2>5, <3>1
  <2>6. QED BY <2>2, <2>3, <2>4, <2>5
<1>9. ASSUME NEW i \in 1 .. l, NEW j \in 1 .. l, i < j PROVE Ahead(p[i], p[j])
  <2>1. i \in Nat /\ j \in Nat /\ a \in Nat
    BY <1>7
  <2>2. CASE i <= a /\ i \in 1 .. n /\ p[i] = top[i]
    <3>1. CASE j <= a /\ j \in 1 .. n /\ p[j] = top[j]
      BY <1>6, <1>9, <2>2, <3>1
    <3>2. CASE j = a + 1 /\ p[j] = x
      BY <1>5, <2>2, <3>2
    <3>3. CASE j > a + 1 /\ j - 1 \in 1 .. n /\ a < j - 1 /\ p[j] = top[j - 1]
      <4>1. i < j - 1
        BY <2>1, <2>2, <3>3
      <4>2. QED BY <1>6, <2>2, <3>3, <4>1
    <3>4. QED BY <1>8, <3>1, <3>2, <3>3
  <2>3. CASE i = a + 1 /\ p[i] = x
    <3>1. ~(j <= a) /\ j # a + 1
      BY <1>9, <2>1, <2>3
    <3>2. j - 1 \in 1 .. n /\ a < j - 1 /\ p[j] = top[j - 1]
      BY <1>8, <3>1
    <3>3. QED BY <1>5, <2>3, <3>2
  <2>4. CASE i > a + 1 /\ i - 1 \in 1 .. n /\ a < i - 1 /\ p[i] = top[i - 1]
    <3>1. ~(j <= a) /\ j # a + 1 /\ i - 1 < j - 1
      BY <1>9, <2>1, <2>4
    <3>2. j - 1 \in 1 .. n /\ p[j] = top[j - 1]
      BY <1>8, <3>1
    <3>3. QED BY <1>6, <2>4, <3>1, <3>2
  <2>5. QED BY <1>8, <2>2, <2>3, <2>4
<1>10. ASSUME NEW j \in 1 .. l PROVE \E k \in 1 .. m + 1 : p[j] = rows[k]
  <2>1. \A i \in 1 .. n : \E k \in 1 .. m + 1 : top[i] = rows[k]
    BY <1>1, <1>3
  <2>2. QED BY <1>8, <1>x, <2>1
<1>11. ASSUME NEW k \in 1 .. m + 1
       PROVE  \/ \E j \in 1 .. l : p[j] = rows[k]
              \/ l = TopK /\ \A j \in 1 .. l : Ahead(p[j], rows[k])
  <2>1. CASE k = m + 1
    <3>1. rows[k] = x
      BY <1>x, <2>1
    <3>2. CASE a + 1 <= l
      <4>1. a + 1 \in 1 .. l /\ a \in Nat
        BY <1>7, <3>2
      <4>2. ~(a + 1 <= a)
        BY <4>1
      <4>3. p[a + 1] = x
        BY <1>5, <4>1, <4>2
      <4>4. QED BY <3>1, <4>1, <4>3
    <3>3. CASE ~(a + 1 <= l)
      <4>1. l = n /\ n = TopK /\ a = n
        BY <1>2, <1>7, <3>3
      <4>2. ASSUME NEW j \in 1 .. l PROVE Ahead(p[j], x)
        <5>1. j <= a /\ j \in 1 .. n
          BY <1>2, <4>1
        <5>2. p[j] = top[j]
          BY <1>5, <5>1
        <5>3. QED BY <1>5, <5>1, <5>2
      <4>3. QED BY <3>1, <4>1, <4>2
    <3>4. QED BY <3>2, <3>3
  <2>2. CASE k # m + 1
    <3>1. k \in 1 .. m /\ rows[k] \in Row
      BY <1>3, <2>2
    <3>2. CASE \E j \in 1 .. n : top[j] = rows[k]
      <4>1. PICK j \in 1 .. n : top[j] = rows[k]
        BY <3>2
      <4>2. CASE j <= a
        <5>1. j \in 1 .. l
          BY <1>2, <1>7
        <5>2. p[j] = top[j]
          BY <1>5, <4>2, <5>1
        <5>3. QED BY <4>1, <5>1, <5>2
      <4>3. CASE a < j /\ j + 1 <= l
        <5>1. j + 1 \in 1 .. l /\ ~(j + 1 <= a) /\ j + 1 # a + 1 /\ (j + 1) - 1 = j
          BY <1>2, <1>7, <4>3
        <5>2. p[j + 1] = top[j]
          BY <1>5, <5>1
        <5>3. QED BY <4>1, <5>1, <5>2
      <4>4. CASE a < j /\ ~(j + 1 <= l)
        <5>1. l = n /\ n = TopK /\ j = n
          BY <1>2, <1>7, <4>4
        <5>2. ASSUME NEW i \in 1 .. l PROVE Ahead(p[i], rows[k])
          <6>1. CASE i <= a /\ i \in 1 .. n /\ p[i] = top[i]
            <7>1. i < j
              BY <4>4, <6>1, <1>2
            <7>2. QED BY <1>6, <4>1, <6>1, <7>1
          <6>2. CASE i = a + 1 /\ p[i] = x
            BY <1>5, <4>1, <4>4, <6>2
          <6>3. CASE i > a + 1 /\ i - 1 \in 1 .. n /\ a < i - 1 /\ p[i] = top[i - 1]
            <7>1. i - 1 < j
              BY <1>2, <5>1
            <7>2. QED BY <1>6, <4>1, <6>3, <7>1
          <6>4. QED BY <1>8, <6>1, <6>2, <6>3
        <5>3. QED BY <5>1, <5>2
      <4>5. QED BY <1>2, <1>7, <4>2, <4>3, <4>4
    <3>3. CASE n = TopK /\ \A j \in 1 .. n : Ahead(top[j], rows[k])
      <4>1. l = TopK /\ l = n
        BY <1>2, <1>7, <3>3
      <4>2. ASSUME NEW i \in 1 .. l PROVE Ahead(p[i], rows[k])
        <5>1. CASE i <= a /\ i \in 1 .. n /\ p[i] = top[i]
          BY <3>3, <5>1
        <5>2. CASE i = a + 1 /\ p[i] = x
          <6>1. a + 1 \in 1 .. n /\ a < a + 1
            BY <1>2, <4>1, <5>2
          <6>2. Ahead(x, top[a + 1]) /\ Ahead(top[a + 1], rows[k]) /\ top[a + 1] \in Row
            BY <1>2, <1>5, <3>3, <6>1
          <6>3. QED BY <1>2, <1>6, <3>1, <5>2, <6>2
        <5>3. CASE i > a + 1 /\ i - 1 \in 1 .. n /\ a < i - 1 /\ p[i] = top[i - 1]
          BY <3>3, <5>3
        <5>4. QED BY <1>8, <5>1, <5>2, <5>3
      <4>3. QED BY <4>1, <4>2
    <3>4. QED BY <1>1, <3>1, <3>2, <3>3
  <2>3. QED BY <2>1, <2>2
<1>12. Falling(p)
  BY <1>9 DEF Falling, l
<1>13. Best(p, rows, m + 1)
  BY <1>5, <1>7, <1>10, <1>11, <1>12 DEF Best, l
<1>14. QED BY <1>13 DEF p, x

(* The list is a fold, and the fold goes through the places of the rows,    *)
(* the highest first: it is a function of sets of places.                   *)
TopOf(rows) == FoldLeft(Placed, <<>>, rows)
IsTop(f, s, X) ==
  f = [S \in SUBSET X |-> IF S = {} THEN <<>> ELSE Placed(f[S \ {Max(S)}], s[Max(S)])]

(* The fold, spelled out.                                                   *)
LEMMA TopIsFold ==
  ASSUME NEW s
  PROVE  TopOf(s) = (CHOOSE f : IsTop(f, s, DOMAIN s))[DOMAIN s]
BY DEF TopOf, FoldLeft, MapThenFoldSet, IsTop

(* There is a fold.                                                         *)
LEMMA TopExists ==
  ASSUME NEW s, NEW n \in Nat
  PROVE  \E f : IsTop(f, s, 1 .. n)
<1> DEFINE D(f, S) == IF S = {} THEN <<>> ELSE Placed(f[S \ {Max(S)}], s[Max(S)])
           T == {m \in Nat : \E f : IsTop(f, s, 1 .. m)}
<1>1. 0 \in T
  <2>1. SUBSET (1 .. 0) = {{}}
    OBVIOUS
  <2>2. [S \in SUBSET (1 .. 0) |-> <<>>]
          = [S \in SUBSET (1 .. 0) |-> D([Z \in SUBSET (1 .. 0) |-> <<>>], S)]
    BY <2>1
  <2>3. IsTop([S \in SUBSET (1 .. 0) |-> <<>>], s, 1 .. 0)
    BY <2>2 DEF IsTop
  <2>4. QED BY <2>3
<1>2. ASSUME NEW m \in Nat, m \in T PROVE m + 1 \in T
  <2>1. PICK f : IsTop(f, s, 1 .. m)
    BY <1>2
  <2> DEFINE g == [S \in SUBSET (1 .. m + 1) |->
                     IF m + 1 \in S THEN Placed(f[S \ {m + 1}], s[m + 1]) ELSE f[S]]
  <2>2. f = [S \in SUBSET (1 .. m) |-> D(f, S)]
    BY <2>1 DEF IsTop
  <2>3. \A S \in SUBSET (1 .. m + 1) : m + 1 \notin S => S \in SUBSET (1 .. m)
    <3>1. 1 .. m + 1 = (1 .. m) \cup {m + 1}
      OBVIOUS
    <3>2. QED BY <3>1
  <2>4. m + 1 \notin 1 .. m /\ 1 .. m \subseteq 1 .. m + 1
    OBVIOUS
  <2>5. ASSUME NEW S \in SUBSET (1 .. m + 1) PROVE g[S] = D(g, S)
    <3>1. CASE m + 1 \in S
      <4>1. Max(S) = m + 1
        BY <3>1, HighestOfFirst
      <4>2. S \ {m + 1} \in SUBSET (1 .. m + 1) /\ m + 1 \notin S \ {m + 1}
        OBVIOUS
      <4>3. g[S \ {m + 1}] = f[S \ {m + 1}]
        BY <4>2
      <4>4. g[S] = Placed(f[S \ {m + 1}], s[m + 1])
        BY <3>1
      <4>5. S # {}
        BY <3>1
      <4> HIDE DEF g
      <4>6. QED BY <4>1, <4>3, <4>4, <4>5
    <3>2. CASE m + 1 \notin S
      <4>1. S \in SUBSET (1 .. m) /\ g[S] = f[S]
        BY <2>3, <3>2
      <4>2. f[S] = D(f, S)
        BY <2>2, <4>1
      <4>3. CASE S = {}
        BY <4>1, <4>2, <4>3
      <4>4. CASE S # {}
        <5>1. Max(S) \in S
          BY <4>1, <4>4, HighestOfFirst
        <5>2. S \ {Max(S)} \in SUBSET (1 .. m + 1) /\ m + 1 \notin S \ {Max(S)}
          BY <3>2
        <5>3. g[S \ {Max(S)}] = f[S \ {Max(S)}]
          BY <5>2
        <5> HIDE DEF g
        <5>4. QED BY <4>1, <4>2, <4>4, <5>3
      <4>5. QED BY <4>3, <4>4
    <3>3. QED BY <3>1, <3>2
  <2>6. g = [S \in SUBSET (1 .. m + 1) |-> g[S]]
    OBVIOUS
  <2> HIDE DEF g
  <2>7. IsTop(g, s, 1 .. m + 1)
    BY <2>5, <2>6 DEF IsTop
  <2>8. QED BY <2>7
<1> HIDE DEF T
<1>3. n \in T
  BY <1>1, <1>2, SetInduction
<1>4. QED BY <1>3 DEF T

(* The list of the rows is the best of them.                                *)
LEMMA TopIsBest ==
  ASSUME NEW rows \in Seq(Row),
         \A j, k \in 1 .. Len(rows) : j # k => rows[j].id # rows[k].id
  PROVE  Best(TopOf(rows), rows, Len(rows))
<1> DEFINE n == Len(rows)
           F == CHOOSE f : IsTop(f, rows, DOMAIN rows)
           P == {m \in Nat : m <= n => Best(F[1 .. m], rows, m)}
<1>1. n \in Nat /\ DOMAIN rows = 1 .. n /\ \A k \in 1 .. n : rows[k] \in Row
  OBVIOUS
<1>2. IsTop(F, rows, 1 .. n)
  <2>1. \E f : IsTop(f, rows, DOMAIN rows)
    BY <1>1, TopExists
  <2>2. IsTop(F, rows, DOMAIN rows)
    BY <2>1
  <2> HIDE DEF F, n
  <2>3. QED BY <1>1, <2>2
<1>3. TopOf(rows) = F[1 .. n]
  BY <1>1, TopIsFold
<1> HIDE DEF F
<1>4. F = [S \in SUBSET (1 .. n) |-> IF S = {} THEN <<>> ELSE Placed(F[S \ {Max(S)}], rows[Max(S)])]
  BY <1>2 DEF IsTop
<1> HIDE DEF n
<1>5. 0 \in P
  <2>1. 1 .. 0 = {} /\ {} \in SUBSET (1 .. n)
    OBVIOUS
  <2>2. F[{}] = <<>>
    BY <1>4, <2>1
  <2>3. Best(<<>>, rows, 0)
    <3>1. <<>> \in Seq(Row) /\ Len(<<>>) = 0 /\ TopK \in Nat
      BY EdgePackAssumption
    <3>2. QED BY <2>1, <3>1 DEF Best, Falling
  <2>4. Best(F[1 .. 0], rows, 0)
    BY <2>1, <2>2, <2>3
  <2>5. QED BY <2>4
<1>6. ASSUME NEW m \in Nat, m \in P PROVE m + 1 \in P
  <2>1. SUFFICES ASSUME m + 1 <= n PROVE Best(F[1 .. m + 1], rows, m + 1)
    OBVIOUS
  <2>2. Best(F[1 .. m], rows, m)
    BY <1>1, <1>6, <2>1
  <2>3. Max(1 .. m + 1) = m + 1
    BY HighestOfFirst
  <2>4. 1 .. m + 1 # {} /\ (1 .. m + 1) \ {m + 1} = 1 .. m /\ 1 .. m + 1 \in SUBSET (1 .. n)
    <3>1. m + 1 \in 1 .. m + 1 /\ (1 .. m + 1) \ {m + 1} = 1 .. m
      OBVIOUS
    <3>2. 1 .. m + 1 \in SUBSET (1 .. n)
      BY <1>1, <2>1
    <3>3. QED BY <3>1, <3>2
  <2>5. F[1 .. m + 1] = Placed(F[(1 .. m + 1) \ {Max(1 .. m + 1)}], rows[Max(1 .. m + 1)])
    BY <1>4, <2>4
  <2>6. F[1 .. m + 1] = Placed(F[1 .. m], rows[m + 1])
    BY <2>3, <2>4, <2>5
  <2>7. /\ \A k \in 1 .. m + 1 : rows[k] \in Row
        /\ \A j, k \in 1 .. m + 1 : j # k => rows[j].id # rows[k].id
    <3>1. \A k \in 1 .. m + 1 : k \in 1 .. n
      BY <2>4
    <3>2. QED BY <1>1, <3>1 DEF n
  <2>8. Best(Placed(F[1 .. m], rows[m + 1]), rows, m + 1)
    BY <2>2, <2>7, BestStep
  <2>9. QED BY <2>6, <2>8
<1>7. n \in P
  <2> HIDE DEF P
  <2>1. QED BY <1>1, <1>5, <1>6, SetInduction
<1>8. Best(F[1 .. n], rows, n)
  BY <1>1, <1>7
<1>9. QED BY <1>3, <1>8 DEF n

(* What appears how often in ids is a candidate with its overlap.           *)
LEMMA CandidatesAppear ==
  ASSUME NEW grams, NEW ids \in Seq(DOMAIN Surfaces),
         \A i \in DOMAIN Surfaces : Count(ids, i) = Overlap(grams, i)
  PROVE  ToSet(ids) = HostCandidates(grams) /\ HostCandidates(grams) \in SUBSET DOMAIN Surfaces
<1>1. /\ DOMAIN ids = 1 .. Len(ids) /\ Len(ids) \in Nat
      /\ \A k \in 1 .. Len(ids) : ids[k] \in DOMAIN Surfaces
  OBVIOUS
<1>2. ASSUME NEW i \in DOMAIN Surfaces
      PROVE  i \in ToSet(ids) <=> Overlap(grams, i) > 0
  <2> DEFINE A == {k \in 1 .. Len(ids) : ids[k] = i}
  <2>1. IsFiniteSet(A)
    <3>1. IsFiniteSet(1 .. Len(ids))
      BY <1>1, FirstNumbers
    <3>2. A \subseteq 1 .. Len(ids)
      OBVIOUS
    <3> HIDE DEF A
    <3>3. QED BY <3>1, <3>2, FS_Subset
  <2>2. Overlap(grams, i) = Cardinality(A)
    BY DEF Count
  <2>3. i \in ToSet(ids) <=> A # {}
    BY <1>1 DEF ToSet
  <2> HIDE DEF A
  <2>4. Cardinality(A) \in Nat /\ (Cardinality(A) = 0 <=> A = {})
    BY <2>1, FS_CardinalityType, FS_EmptySet
  <2>5. QED BY <2>2, <2>3, <2>4
<1>3. ToSet(ids) \subseteq DOMAIN Surfaces
  BY <1>1 DEF ToSet
<1>4. \A i \in DOMAIN Surfaces : i \in ToSet(ids) <=> i \in HostCandidates(grams)
  BY <1>2 DEF HostCandidates
<1>5. HostCandidates(grams) \subseteq DOMAIN Surfaces
  BY DEF HostCandidates
<1>6. QED BY <1>3, <1>4, <1>5

(* The rows of the ids: each candidate once, with its overlap.              *)
RowFor(grams, i) == [id |-> i, overlap |-> Overlap(grams, i)]
LEMMA RowsOfIds ==
  ASSUME NEW grams, NEW ids \in Seq(DOMAIN Surfaces),
         \A i \in DOMAIN Surfaces : Count(ids, i) = Overlap(grams, i)
  PROVE  /\ RunLengths(ids) \in Seq(Row)
         /\ \A j, k \in 1 .. Len(RunLengths(ids)) :
              j # k => RunLengths(ids)[j].id # RunLengths(ids)[k].id
         /\ \A k \in 1 .. Len(RunLengths(ids)) :
              \E i \in HostCandidates(grams) : RunLengths(ids)[k] = RowFor(grams, i)
         /\ \A i \in HostCandidates(grams) :
              \E k \in 1 .. Len(RunLengths(ids)) : RunLengths(ids)[k] = RowFor(grams, i)
<1> DEFINE C == ToSet(ids)
           n == Cardinality(C)
           a == Ascending(C)
           r == RunLengths(ids)
<1>1. C = HostCandidates(grams) /\ C \in SUBSET DOMAIN Surfaces
  BY CandidatesAppear
<1>2. C \in SUBSET Nat /\ IsFiniteSet(C)
  BY <1>1, GramFacts, FS_Subset
<1>3. n \in Nat
  BY <1>2, FS_CardinalityType
<1>4. Enumerates(a, C)
  BY <1>2, AscendingSorts
<1>5. /\ DOMAIN a = 1 .. n
      /\ \A k \in 1 .. n : a[k] \in C
      /\ \A j, k \in 1 .. n : j # k => a[j] # a[k]
      /\ \A x \in C : \E k \in 1 .. n : a[k] = x
  BY <1>4 DEF Enumerates
<1>6. r = [k \in DOMAIN a |->
             [id |-> a[k], overlap |-> Cardinality({i \in DOMAIN ids : ids[i] = a[k]})]]
  BY DEF RunLengths
<1>7. ASSUME NEW k \in 1 .. n
      PROVE  [id |-> a[k], overlap |-> Cardinality({i \in DOMAIN ids : ids[i] = a[k]})]
               = RowFor(grams, a[k])
  <2> DEFINE x == a[k]
  <2>1. x \in DOMAIN Surfaces
    BY <1>1, <1>5
  <2>2. Count(ids, x) = Overlap(grams, x)
    BY <2>1
  <2>3. DOMAIN ids = 1 .. Len(ids)
    OBVIOUS
  <2> HIDE DEF x
  <2>4. Cardinality({i \in DOMAIN ids : ids[i] = x}) = Overlap(grams, x)
    BY <2>2, <2>3 DEF Count
  <2>5. QED BY <2>4 DEF x, RowFor
<1> HIDE DEF a, n, C, r
<1>8. r = [k \in 1 .. n |-> RowFor(grams, a[k])]
  BY <1>5, <1>6, <1>7
<1>9. \A i \in C : RowFor(grams, i) \in Row /\ RowFor(grams, i).id = i
  BY <1>1, OverlapCounts DEF RowFor, Row
<1>10. r \in Seq(Row) /\ Len(r) = n
  <2>1. r \in [1 .. n -> Row]
    BY <1>5, <1>8, <1>9
  <2>2. QED BY <1>3, <1>8, <2>1
<1>11. \A k \in 1 .. n : r[k] = RowFor(grams, a[k]) /\ r[k].id = a[k]
  BY <1>5, <1>8, <1>9
<1>12. \A j, k \in 1 .. Len(r) : j # k => r[j].id # r[k].id
  BY <1>5, <1>10, <1>11
<1>13. \A k \in 1 .. Len(r) : \E i \in HostCandidates(grams) : r[k] = RowFor(grams, i)
  BY <1>1, <1>5, <1>10, <1>11
<1>14. \A i \in HostCandidates(grams) : \E k \in 1 .. Len(r) : r[k] = RowFor(grams, i)
  BY <1>1, <1>5, <1>10, <1>11
<1>15. QED BY <1>10, <1>12, <1>13, <1>14 DEF r

(* The surfaces kept are the host's.                                        *)
LEMMA TopIsHost ==
  ASSUME NEW grams, NEW ids \in Seq(DOMAIN Surfaces),
         \A i \in DOMAIN Surfaces : Count(ids, i) = Overlap(grams, i)
  PROVE  /\ TopSurfaces(ids) \in Seq(DOMAIN Surfaces)
         /\ {TopSurfaces(ids)[k] : k \in 1 .. Len(TopSurfaces(ids))} = HostTop(grams)
<1> DEFINE C == HostCandidates(grams)
           r == RunLengths(ids)
           n == Len(r)
           R(i) == RowFor(grams, i)
           top == TopOf(r)
           m == Len(top)
           B(i) == {j \in C : Ahead(R(j), R(i))}
<1>1. /\ r \in Seq(Row)
      /\ \A j, k \in 1 .. n : j # k => r[j].id # r[k].id
      /\ \A k \in 1 .. n : \E i \in C : r[k] = R(i)
      /\ \A i \in C : \E k \in 1 .. n : r[k] = R(i)
  BY RowsOfIds
<1>2. Best(top, r, n)
  BY <1>1, TopIsBest
<1>3. /\ C \in SUBSET DOMAIN Surfaces
      /\ \A i \in DOMAIN Surfaces : R(i) \in Row /\ R(i).id = i /\ R(i).overlap = Overlap(grams, i)
  BY CandidatesAppear, OverlapCounts DEF RowFor, Row
<1>4. IsFiniteSet(C)
  BY <1>3, GramFacts, FS_Subset
<1>5. HostTop(grams) = {i \in C : Cardinality(B(i)) < TopK}
  BY <1>3 DEF HostTop, Ahead
<1> HIDE DEF C, r, n, R, top
<1>6. /\ top \in Seq(Row) /\ m <= TopK /\ Falling(top)
      /\ \A j \in 1 .. m : \E i \in C : top[j] = R(i)
      /\ \A i \in C :
           \/ \E j \in 1 .. m : top[j] = R(i)
           \/ m = TopK /\ \A j \in 1 .. m : Ahead(top[j], R(i))
  <2>1. /\ top \in Seq(Row) /\ m <= TopK /\ Falling(top)
        /\ \A j \in 1 .. m : \E k \in 1 .. n : top[j] = r[k]
        /\ \A k \in 1 .. n :
             \/ \E j \in 1 .. m : top[j] = r[k]
             \/ m = TopK /\ \A j \in 1 .. m : Ahead(top[j], r[k])
    BY <1>2 DEF Best
  <2> HIDE DEF m
  <2>2. ASSUME NEW i \in C
        PROVE  \/ \E j \in 1 .. m : top[j] = R(i)
               \/ m = TopK /\ \A j \in 1 .. m : Ahead(top[j], R(i))
    <3>1. PICK k \in 1 .. n : r[k] = R(i)
      BY <1>1
    <3>2. \/ \E j \in 1 .. m : top[j] = r[k]
          \/ m = TopK /\ \A j \in 1 .. m : Ahead(top[j], r[k])
      BY <2>1
    <3>3. QED BY <3>1, <3>2
  <2>3. ASSUME NEW j \in 1 .. m PROVE \E i \in C : top[j] = R(i)
    <3>1. PICK k \in 1 .. n : top[j] = r[k]
      BY <2>1
    <3>2. PICK i \in C : r[k] = R(i)
      BY <1>1
    <3>3. QED BY <3>1, <3>2
  <2>4. QED BY <2>1, <2>2, <2>3
<1>7. m \in Nat /\ DOMAIN top = 1 .. m /\ TopK \in Nat
  BY <1>6, EdgePackAssumption
<1> HIDE DEF m
<1>8. \A j, k \in 1 .. m : j < k => Ahead(top[j], top[k])
  BY <1>6 DEF Falling, m
<1>9. ASSUME NEW j \in 1 .. m
      PROVE  top[j] \in Row /\ top[j].id \in C /\ top[j] = R(top[j].id)
  BY <1>3, <1>6
<1>10. ASSUME NEW i \in C
       PROVE  /\ IsFiniteSet(B(i))
              /\ Cardinality(B(i)) < TopK <=> \E k \in 1 .. m : top[k] = R(i)
  <2>0. R(i) \in Row /\ B(i) \subseteq C
    BY <1>3
  <2>1. IsFiniteSet(B(i)) /\ Cardinality(B(i)) \in Nat
    <3> HIDE DEF B
    <3>1. IsFiniteSet(B(i))
      BY <1>4, <2>0, FS_Subset
    <3>2. QED BY <3>1, FS_CardinalityType
  <2>2. ASSUME NEW k \in 1 .. m, top[k] = R(i) PROVE Cardinality(B(i)) < TopK
    <3> DEFINE I == 1 .. k - 1
               J == {top[q].id : q \in I}
               f == [q \in I |-> top[q].id]
    <3>1. k \in Nat /\ k <= TopK /\ k - 1 \in Nat
      BY <1>6, <1>7
    <3>2. ASSUME NEW j \in B(i) PROVE \E q \in I : top[q] = R(j)
      <4>1. j \in C /\ Ahead(R(j), R(i)) /\ R(j) \in Row
        BY <1>3
      <4>2. ~Ahead(R(i), R(j)) /\ ~Ahead(R(i), R(i))
        BY <2>0, <4>1, AheadFacts
      <4>3. PICK q \in 1 .. m : top[q] = R(j)
        BY <1>6, <2>2, <4>1, <4>2
      <4>4. q # k /\ ~(k < q)
        BY <1>8, <2>2, <4>1, <4>2, <4>3
      <4>5. q \in I
        BY <1>7, <4>4
      <4>6. QED BY <4>3, <4>5
    <3>3. B(i) \subseteq J
      <4>1. ASSUME NEW j \in B(i) PROVE j \in J
        <5>1. PICK q \in I : top[q] = R(j)
          BY <3>2
        <5>2. R(j).id = j
          BY <1>3
        <5>3. QED BY <5>1, <5>2
      <4> HIDE DEF B, J
      <4>2. QED BY <4>1
    <3>4. f \in Surjection(I, J)
      BY DEF Surjection
    <3>5. IsFiniteSet(I) /\ Cardinality(I) = k - 1
      <4> DEFINE l == k - 1
      <4>1. l \in Nat
        BY <3>1
      <4> HIDE DEF l
      <4>2. IsFiniteSet(1 .. l) /\ Cardinality(1 .. l) = l
        BY <4>1, FirstNumbers
      <4>3. QED BY <4>2 DEF l
    <3> HIDE DEF f, I, J, B
    <3>6. IsFiniteSet(J) /\ Cardinality(J) <= Cardinality(I)
      BY <3>4, <3>5, FS_Surjection
    <3>7. Cardinality(B(i)) <= Cardinality(J) /\ Cardinality(J) \in Nat
      BY <3>3, <3>6, FS_Subset, FS_CardinalityType
    <3>8. QED BY <1>7, <2>1, <3>1, <3>5, <3>6, <3>7
  <2>3. ASSUME ~\E k \in 1 .. m : top[k] = R(i) PROVE ~(Cardinality(B(i)) < TopK)
    <3> DEFINE I == 1 .. m
               f == [q \in I |-> top[q].id]
    <3>1. m = TopK /\ \A j \in 1 .. m : Ahead(top[j], R(i))
      BY <1>6, <2>3
    <3>2. \A q \in I : top[q].id \in B(i)
      BY <1>9, <3>1
    <3>3. ASSUME NEW p \in I, NEW q \in I, f[p] = f[q] PROVE p = q
      <4>1. top[p].id = top[q].id
        BY <3>3
      <4>2. top[p] = top[q] /\ top[p] \in Row
        BY <1>9, <4>1
      <4>3. ~(p < q) /\ ~(q < p)
        BY <1>8, <4>2, AheadFacts
      <4>4. QED BY <1>7, <4>3
    <3>4. f \in [I -> B(i)]
      BY <3>2
    <3>5. IsFiniteSet(I) /\ Cardinality(I) = m
      BY <1>7, FirstNumbers
    <3> HIDE DEF f, I, B
    <3>6. f \in Injection(I, B(i))
      BY <3>3, <3>4 DEF Injection, IsInjective
    <3>7. Cardinality(I) <= Cardinality(B(i))
      BY <2>1, <3>6, FS_Injection
    <3>8. QED BY <1>7, <2>1, <3>1, <3>5, <3>7
  <2>4. QED BY <2>1, <2>2, <2>3
<1> HIDE DEF B
<1> DEFINE t == TopSurfaces(ids)
<1>11. t = [k \in DOMAIN top |-> top[k].id]
  BY DEF TopSurfaces, top, r, TopOf
<1> HIDE DEF t
<1>12. t \in Seq(DOMAIN Surfaces) /\ Len(t) = m /\ \A k \in 1 .. m : t[k] = top[k].id
  <2>1. t \in [1 .. m -> DOMAIN Surfaces]
    BY <1>3, <1>7, <1>9, <1>11
  <2>2. QED BY <1>7, <1>11, <2>1
<1>13. ASSUME NEW i \in HostTop(grams) PROVE \E k \in 1 .. m : t[k] = i
  <2>1. i \in C /\ Cardinality(B(i)) < TopK
    BY <1>5
  <2>2. PICK k \in 1 .. m : top[k] = R(i)
    BY <1>10, <2>1
  <2>3. QED BY <1>3, <1>12, <2>1, <2>2
<1>14. ASSUME NEW k \in 1 .. m PROVE t[k] \in HostTop(grams)
  <2>1. t[k] \in C /\ top[k] = R(t[k])
    BY <1>9, <1>12
  <2>2. Cardinality(B(t[k])) < TopK
    BY <1>10, <2>1
  <2>3. QED BY <1>5, <2>1, <2>2
<1>15. {t[k] : k \in 1 .. Len(t)} = HostTop(grams)
  BY <1>12, <1>13, <1>14
<1>16. QED BY <1>12, <1>15 DEF t

----------------------------------------------------------------------------
(* A query on the way to the host's answer.                                 *)

Elems(s) == {s[k] : k \in 1 .. Len(s)}
Distinct(s) == \A j, k \in 1 .. Len(s) : j # k => s[j] # s[k]
Total(S) == SumFunctionOnSet(Occurrences, S \cap DOMAIN Occurrences)

QueryFields ==
  {"stage", "grams", "todo", "ids", "random", "sequential", "low", "high", "answer"}
AnswerFields == {"candidates", "entities", "occurrences"}
QueryShape(q) ==
  /\ DOMAIN q = QueryFields /\ DOMAIN q.answer = AnswerFields
  /\ q.answer = [f \in DOMAIN q.answer |-> q.answer[f]]

(* The ids gathered are those of the places no request is left for.         *)
PostingsOk(q) ==
  /\ q.todo \in Seq(AllRequests) /\ Apart(q.todo) /\ Left(q.todo) \subseteq AllSpots(q.grams)
  /\ q.ids \in Seq(DOMAIN Surfaces) /\ q.answer = NoAnswer
  /\ \A i \in DOMAIN Surfaces :
       Count(q.ids, i)
         = Cardinality({x \in AllSpots(q.grams) \ Left(q.todo) : PostingIds[x] = i})

(* The entities are those of the surfaces that are not left.                *)
SurfacesOk(q) ==
  /\ q.todo \in Seq(DOMAIN Surfaces)
  /\ q.answer.candidates = HostCandidates(q.grams) /\ q.answer.occurrences = 0
  /\ q.answer.entities \subseteq HostEntities(q.grams)
  /\ HostEntities(q.grams)
       = (q.answer.entities \cup {Surfaces[i].entity : i \in Elems(q.todo)}) \ {NoEntity}

(* The occurrences are those of the entities that are not left.             *)
EvidenceOk(q) ==
  /\ q.todo \in Seq(HostEntities(q.grams)) /\ Distinct(q.todo)
  /\ q.answer.candidates = HostCandidates(q.grams)
  /\ q.answer.entities = HostEntities(q.grams)
  /\ q.answer.occurrences \in Nat
  /\ q.answer.occurrences + Total(Elems(q.todo)) = Total(HostEntities(q.grams))

(* The first entity that is left is between the bounds, if it is anywhere.  *)
SearchOk(q) ==
  /\ q.low \in Nat /\ q.high \in Nat /\ q.low <= q.high /\ q.high < Len(Directory)
  /\ \A j \in 0 .. Len(Directory) - 1 :
       Located[j + 1] = Head(q.todo) => q.low <= j /\ j <= q.high

QueryOk(q) ==
  /\ QueryShape(q)
  /\ q.stage \in {"idle", "postings", "surface", "evidence", "done", "probe", "head", "probed"}
  /\ q.stage = "postings" => q.todo # <<>> /\ PostingsOk(q)
  /\ q.stage = "surface" => q.todo # <<>> /\ SurfacesOk(q)
  /\ q.stage = "evidence" => q.todo # <<>> /\ EvidenceOk(q) /\ SearchOk(q)
  /\ q.stage \in {"done", "probe", "head", "probed"} => q.answer = HostAnswer(q.grams)

(* Sums of occurrences are numbers, and elements are added one by one.      *)
LEMMA TotalFacts ==
  /\ \A S : Total(S) \in Nat
  /\ Total({}) = 0
  /\ \A S : \A e \in S \cap DOMAIN Occurrences : Total(S) = Occurrences[e] + Total(S \ {e})
  /\ \A S : \A e : e \notin DOMAIN Occurrences => Total(S) = Total(S \ {e})
<1>1. IsFiniteSet(DOMAIN Occurrences) /\ \A e \in DOMAIN Occurrences : Occurrences[e] \in Nat
  BY EdgePackAssumption
<1>2. ASSUME NEW S
      PROVE  /\ IsFiniteSet(S \cap DOMAIN Occurrences)
             /\ SumFunctionOnSet(Occurrences, S \cap DOMAIN Occurrences) \in Nat
             /\ \A e \in S \cap DOMAIN Occurrences :
                  SumFunctionOnSet(Occurrences, S \cap DOMAIN Occurrences)
                    = Occurrences[e]
                      + SumFunctionOnSet(Occurrences, (S \cap DOMAIN Occurrences) \ {e})
  <2> DEFINE D == S \cap DOMAIN Occurrences
  <2>1. IsFiniteSet(D) /\ \A e \in D : Occurrences[e] \in Nat
    BY <1>1, FS_Subset
  <2> HIDE DEF D
  <2>2. /\ SumFunctionOnSet(Occurrences, D) \in Nat
        /\ \A e \in D : SumFunctionOnSet(Occurrences, D)
                          = Occurrences[e] + SumFunctionOnSet(Occurrences, D \ {e})
    BY <2>1, SumOf
  <2>3. QED BY <2>1, <2>2 DEF D
<1>3. \A S : Total(S) \in Nat
  BY <1>2 DEF Total
<1>4. Total({}) = 0
  <2>1. {} \cap DOMAIN Occurrences = {} /\ IsFiniteSet({})
    BY FS_EmptySet
  <2>2. SumFunctionOnSet(Occurrences, {}) = 0
    BY <2>1, SumStart
  <2>3. QED BY <2>1, <2>2 DEF Total
<1>5. ASSUME NEW S, NEW e \in S \cap DOMAIN Occurrences
      PROVE  Total(S) = Occurrences[e] + Total(S \ {e})
  <2>1. (S \cap DOMAIN Occurrences) \ {e} = (S \ {e}) \cap DOMAIN Occurrences
    OBVIOUS
  <2>2. SumFunctionOnSet(Occurrences, S \cap DOMAIN Occurrences)
          = Occurrences[e] + SumFunctionOnSet(Occurrences, (S \cap DOMAIN Occurrences) \ {e})
    BY <1>2
  <2>3. SumFunctionOnSet(Occurrences, S \cap DOMAIN Occurrences)
          = Occurrences[e] + SumFunctionOnSet(Occurrences, (S \ {e}) \cap DOMAIN Occurrences)
    BY <2>1, <2>2, Zenon
  <2>4. QED BY <2>3 DEF Total
<1>6. ASSUME NEW S, NEW e, e \notin DOMAIN Occurrences PROVE Total(S) = Total(S \ {e})
  <2>1. S \cap DOMAIN Occurrences = (S \ {e}) \cap DOMAIN Occurrences
    BY <1>6
  <2>2. QED BY <2>1, Zenon DEF Total
<1>7. QED BY <1>3, <1>4, <1>5, <1>6

(* The entities of an answer are finitely many numbers.                     *)
LEMMA HostEntitiesFacts ==
  ASSUME NEW grams
  PROVE  /\ HostEntities(grams) \in SUBSET Nat /\ IsFiniteSet(HostEntities(grams))
         /\ HostTop(grams) \subseteq DOMAIN Surfaces
<1> DEFINE H == HostTop(grams)
           E == {Surfaces[i].entity : i \in H}
           f == [i \in H |-> Surfaces[i].entity]
<1>1. H \subseteq DOMAIN Surfaces
  BY DEF HostTop, HostCandidates
<1>2. IsFiniteSet(H)
  BY <1>1, GramFacts, FS_Subset
<1>3. f \in Surjection(H, E)
  BY DEF Surjection
<1>4. HostEntities(grams) = E \ {NoEntity}
  BY DEF HostEntities
<1>5. HostEntities(grams) \in SUBSET Nat
  BY <1>1, EdgePackAssumption DEF HostEntities
<1> HIDE DEF f, H, E
<1>6. IsFiniteSet(E)
  BY <1>2, <1>3, FS_Surjection
<1>7. IsFiniteSet(HostEntities(grams))
  BY <1>4, <1>6, FS_Subset
<1>8. QED BY <1>1, <1>5, <1>7 DEF H

(* What follows the evidence.                                               *)
LEMMA AfterEvidenceOk ==
  ASSUME NEW q, QueryShape(q), q.stage = "evidence", EvidenceOk(q)
  PROVE  QueryOk(AfterEvidence(q))
<1>1. Len(Directory) \in Nat \ {0}
  BY EvidenceWords
<1>2. CASE q.todo # <<>>
  <2> DEFINE d == Len(Directory)
             p == [q EXCEPT !.low = 0, !.high = d - 1]
  <2>1. AfterEvidence(q) = p
    BY <1>2 DEF AfterEvidence
  <2>2. d \in Nat \ {0}
    BY <1>1
  <2>3. /\ QueryShape(p) /\ p.stage = "evidence" /\ p.todo = q.todo /\ p.grams = q.grams
        /\ p.answer = q.answer /\ p.low = 0 /\ p.high = d - 1
    <3> HIDE DEF d
    <3>1. QED BY DEF QueryShape, QueryFields
  <2> HIDE DEF p
  <2>4. EvidenceOk(p)
    BY <2>3 DEF EvidenceOk
  <2>5. SearchOk(p)
    BY <2>2, <2>3 DEF SearchOk
  <2>6. QED BY <1>2, <2>1, <2>3, <2>4, <2>5 DEF QueryOk
<1>3. CASE q.todo = <<>>
  <2> DEFINE p == [q EXCEPT !.stage = "done"]
  <2>1. AfterEvidence(q) = p
    BY <1>3 DEF AfterEvidence
  <2>2. QueryShape(p) /\ p.stage = "done" /\ p.grams = q.grams /\ p.answer = q.answer
    BY DEF QueryShape, QueryFields
  <2>3. Elems(q.todo) = {}
    BY <1>3 DEF Elems
  <2>4. q.answer.occurrences = Total(HostEntities(q.grams))
    BY <2>3, TotalFacts DEF EvidenceOk
  <2>5. q.answer = HostAnswer(q.grams)
    BY <2>4 DEF EvidenceOk, QueryShape, AnswerFields, HostAnswer, Total
  <2> HIDE DEF p
  <2>6. QED BY <2>1, <2>2, <2>5 DEF QueryOk
<1>4. QED BY <1>2, <1>3

(* What follows the surfaces.                                               *)
LEMMA AfterSurfacesOk ==
  ASSUME NEW q, QueryShape(q), q.stage = "surface", SurfacesOk(q)
  PROVE  QueryOk(AfterSurfaces(q))
<1>1. CASE q.todo # <<>>
  <2>1. AfterSurfaces(q) = q
    BY <1>1 DEF AfterSurfaces
  <2>2. QED BY <1>1, <2>1 DEF QueryOk
<1>2. CASE q.todo = <<>>
  <2> DEFINE E == q.answer.entities
             s == Ascending(E)
             p == [q EXCEPT !.stage = "evidence", !.todo = s]
  <2>1. AfterSurfaces(q) = AfterEvidence(p)
    BY <1>2 DEF AfterSurfaces
  <2>2. Elems(q.todo) = {}
    BY <1>2 DEF Elems
  <2>3. E = HostEntities(q.grams)
    BY <2>2 DEF SurfacesOk
  <2>4. Enumerates(s, E)
    BY <2>3, HostEntitiesFacts, AscendingSorts
  <2> HIDE DEF s
  <2>5. s \in Seq(E) /\ Distinct(s) /\ Elems(s) = E
    <3>1. s \in Seq(E) /\ Distinct(s)
      BY <2>4 DEF Enumerates, Distinct
    <3>2. \A x \in E : x \in Elems(s)
      BY <2>4 DEF Enumerates, Elems
    <3>3. \A x \in Elems(s) : x \in E
      BY <2>4 DEF Enumerates, Elems
    <3>4. QED BY <3>1, <3>2, <3>3
  <2>6. /\ QueryShape(p) /\ p.stage = "evidence" /\ p.todo = s /\ p.grams = q.grams
        /\ p.answer = q.answer
    BY DEF QueryShape, QueryFields
  <2> HIDE DEF p
  <2>7. EvidenceOk(p)
    <3>1. Total(E) \in Nat /\ q.answer.occurrences = 0
      BY TotalFacts DEF SurfacesOk
    <3>2. q.answer.candidates = HostCandidates(q.grams)
      BY DEF SurfacesOk
    <3>3. q.answer.occurrences + Total(E) = Total(E)
      BY <3>1
    <3>4. QED BY <2>3, <2>5, <2>6, <3>1, <3>2, <3>3 DEF EvidenceOk
  <2>8. QED BY <2>1, <2>6, <2>7, AfterEvidenceOk
<1>3. QED BY <1>1, <1>2

(* What follows the posting lists.                                          *)
LEMMA AfterPostingsOk ==
  ASSUME NEW q, QueryShape(q), q.stage = "postings", PostingsOk(q)
  PROVE  QueryOk(AfterPostings(q))
<1>1. CASE q.todo # <<>>
  <2>1. AfterPostings(q) = q
    BY <1>1 DEF AfterPostings
  <2>2. QED BY <1>1, <2>1 DEF QueryOk
<1>2. CASE q.todo = <<>>
  <2> DEFINE s == TopSurfaces(q.ids)
             C == ToSet(q.ids)
             p == [q EXCEPT !.stage = "surface", !.todo = s, !.answer.candidates = C]
  <2>1. AfterPostings(q) = AfterSurfaces(p)
    BY <1>2 DEF AfterPostings
  <2>2. Left(q.todo) = {}
    BY <1>2 DEF Left
  <2>3. q.ids \in Seq(DOMAIN Surfaces) /\ q.answer = NoAnswer
    BY DEF PostingsOk
  <2>4. \A i \in DOMAIN Surfaces : Count(q.ids, i) = Overlap(q.grams, i)
    <3>1. AllSpots(q.grams) \ Left(q.todo) = AllSpots(q.grams)
      BY <2>2
    <3>2. \A i \in DOMAIN Surfaces :
            Count(q.ids, i) = Cardinality({x \in AllSpots(q.grams) : PostingIds[x] = i})
      BY <3>1, Zenon DEF PostingsOk
    <3>3. QED BY <3>2, OverlapCounts
  <2>5. C = HostCandidates(q.grams)
    BY <2>3, <2>4, CandidatesAppear
  <2>6. s \in Seq(DOMAIN Surfaces) /\ {s[k] : k \in 1 .. Len(s)} = HostTop(q.grams)
    BY <2>3, <2>4, TopIsHost
  <2> HIDE DEF s, C
  <2>7. /\ QueryShape(p) /\ p.stage = "surface" /\ p.todo = s /\ p.grams = q.grams
        /\ p.answer.candidates = C /\ p.answer.entities = {} /\ p.answer.occurrences = 0
    BY <2>3 DEF QueryShape, QueryFields, AnswerFields, NoAnswer
  <2> HIDE DEF p
  <2>8. Elems(s) = HostTop(q.grams)
    BY <2>6 DEF Elems
  <2>9. HostEntities(q.grams) = ({} \cup {Surfaces[i].entity : i \in Elems(s)}) \ {NoEntity}
    BY <2>8 DEF HostEntities
  <2>10. SurfacesOk(p)
    BY <2>5, <2>6, <2>7, <2>9 DEF SurfacesOk
  <2>11. QED BY <2>1, <2>7, <2>10, AfterSurfacesOk
<1>3. QED BY <1>1, <1>2

(* First and others of a sequence.                                          *)
LEMMA HeadAndTail ==
  ASSUME NEW T, NEW s \in Seq(T), s # <<>>
  PROVE  /\ Head(s) \in T /\ Tail(s) \in Seq(T) /\ Head(s) = s[1]
         /\ Len(s) \in Nat /\ Len(s) > 0 /\ Len(Tail(s)) = Len(s) - 1
         /\ \A i \in 1 .. Len(Tail(s)) : Tail(s)[i] = s[i + 1] /\ i + 1 \in 2 .. Len(s)
         /\ \A i \in 2 .. Len(s) : i - 1 \in 1 .. Len(Tail(s)) /\ Tail(s)[i - 1] = s[i]
<1>1. Len(s) \in Nat /\ Len(s) > 0 /\ Head(s) = s[1]
  OBVIOUS
<1>2. /\ Head(s) \in T /\ Tail(s) \in Seq(T) /\ Len(Tail(s)) = Len(s) - 1
      /\ \A i \in 1 .. Len(Tail(s)) : Tail(s)[i] = s[i + 1]
  BY HeadTailProperties
<1> DEFINE t == Tail(s)
           n == Len(s)
           m == Len(t)
<1>3. n \in Nat /\ n > 0 /\ m = n - 1 /\ \A i \in 1 .. m : t[i] = s[i + 1]
  BY <1>1, <1>2
<1> HIDE DEF t, n, m
<1>4. \A i \in 1 .. m : i + 1 \in 2 .. n
  BY <1>3
<1>5. ASSUME NEW i \in 2 .. n PROVE i - 1 \in 1 .. m /\ t[i - 1] = s[i]
  <2>1. i - 1 \in 1 .. m /\ (i - 1) + 1 = i
    BY <1>3
  <2>2. t[i - 1] = s[(i - 1) + 1]
    BY <1>3, <2>1
  <2>3. QED BY <2>1, <2>2
<1>6. QED BY <1>1, <1>2, <1>3, <1>4, <1>5 DEF t, n, m

(* The elements of a sequence are its first and those of the others.        *)
LEMMA ElemsOfTail ==
  ASSUME NEW T, NEW s \in Seq(T), s # <<>>
  PROVE  /\ Elems(s) = {Head(s)} \cup Elems(Tail(s)) /\ Head(s) \in T /\ Tail(s) \in Seq(T)
         /\ Distinct(s) => Distinct(Tail(s)) /\ Elems(Tail(s)) = Elems(s) \ {Head(s)}
<1> DEFINE t == Tail(s)
           h == Head(s)
           n == Len(s)
           m == Len(t)
<1>1. /\ h \in T /\ t \in Seq(T) /\ h = s[1] /\ n \in Nat /\ n > 0 /\ m = n - 1
      /\ \A i \in 1 .. m : t[i] = s[i + 1] /\ i + 1 \in 2 .. n
      /\ \A i \in 2 .. n : i - 1 \in 1 .. m /\ t[i - 1] = s[i]
  BY HeadAndTail
<1>2. Elems(s) = {s[i] : i \in 1 .. n} /\ Elems(t) = {t[i] : i \in 1 .. m}
      /\ (Distinct(s) <=> \A j, k \in 1 .. n : j # k => s[j] # s[k])
      /\ (Distinct(t) <=> \A j, k \in 1 .. m : j # k => t[j] # t[k])
  BY DEF Elems, Distinct
<1> HIDE DEF t, h, n, m
<1>3. \A i \in 1 .. n : i = 1 \/ i \in 2 .. n
  BY <1>1
<1>4. 1 \in 1 .. n /\ \A i \in 2 .. n : i \in 1 .. n /\ i # 1
  BY <1>1
<1>5. ASSUME NEW x \in Elems(s) PROVE x = h \/ x \in Elems(t)
  <2>1. PICK i \in 1 .. n : x = s[i]
    BY <1>2
  <2>2. CASE i = 1
    BY <1>1, <2>1, <2>2
  <2>3. CASE i \in 2 .. n
    <3>1. t[i - 1] = x /\ i - 1 \in 1 .. m
      BY <1>1, <2>1, <2>3
    <3>2. QED BY <1>2, <3>1
  <2>4. QED BY <1>3, <2>2, <2>3
<1>6. h \in Elems(s)
  BY <1>1, <1>2, <1>4
<1>7. ASSUME NEW x \in Elems(t) PROVE x \in Elems(s) /\ \E i \in 2 .. n : x = s[i]
  <2>1. PICK i \in 1 .. m : x = t[i]
    BY <1>2
  <2>2. i + 1 \in 2 .. n /\ x = s[i + 1]
    BY <1>1, <2>1
  <2>3. QED BY <1>2, <1>4, <2>2
<1>8. ASSUME Distinct(s) PROVE Distinct(t) /\ h \notin Elems(t)
  <2>1. h \notin Elems(t)
    <3>1. SUFFICES ASSUME h \in Elems(t) PROVE FALSE
      OBVIOUS
    <3>2. PICK i \in 2 .. n : h = s[i]
      BY <1>7, <3>1
    <3>3. i \in 1 .. n /\ i # 1 /\ 1 \in 1 .. n /\ s[i] = s[1]
      BY <1>1, <1>4, <3>2
    <3>4. \A j, k \in 1 .. n : j # k => s[j] # s[k]
      BY <1>2, <1>8
    <3>5. QED BY <3>3, <3>4
  <2>2. ASSUME NEW j \in 1 .. m, NEW k \in 1 .. m, j # k PROVE t[j] # t[k]
    <3>1. t[j] = s[j + 1] /\ t[k] = s[k + 1] /\ j + 1 \in 2 .. n /\ k + 1 \in 2 .. n
      BY <1>1
    <3>2. j + 1 # k + 1
      BY <2>2
    <3>3. QED BY <1>2, <1>4, <1>8, <3>1, <3>2
  <2>3. QED BY <1>2, <2>1, <2>2
<1>9. Elems(s) = {h} \cup Elems(t)
  BY <1>5, <1>6, <1>7
<1>10. Distinct(s) => Distinct(t) /\ Elems(t) = Elems(s) \ {h}
  BY <1>8, <1>9
<1>11. QED BY <1>1, <1>9, <1>10 DEF t, h

(* A slot in use holds the bytes of its page.                               *)
ExactSlots(s) == \A i \in DOMAIN s : s[i].valid => s[i].bytes = Content[s[i].page]

(* Then a page received is the page asked for.                              *)
LEMMA ReceivedExact ==
  ASSUME NEW p, NEW class, ExactSlots(slots), Received(p, class)
  PROVE  /\ ExactSlots(slots') /\ given'.page = p /\ given'.bytes = Content[p]
         /\ failures' = failures
<1>1. failures' = failures /\ pager_page(p, class)
  BY DEF Received
<1>2. CASE Hit(p, class)
  <2>1. PICK s \in Holding(p) :
          /\ slots' = [slots EXCEPT ![s] = InUse(p, tick + 1, slots[s].bytes)]
          /\ given' = [found |-> TRUE, page |-> p, bytes |-> slots[s].bytes]
    BY <1>2 DEF Hit
  <2>2. s \in DOMAIN slots /\ slots[s].valid /\ slots[s].page = p
    BY DEF Holding
  <2>3. slots[s].bytes = Content[p]
    BY <2>2 DEF ExactSlots
  <2>4. given'.page = p /\ given'.bytes = Content[p]
    BY <2>1, <2>3
  <2> DEFINE u == InUse(p, tick + 1, slots[s].bytes)
  <2>5. u.page = p /\ u.bytes = Content[p]
    BY <2>3 DEF InUse
  <2> HIDE DEF u
  <2>6. slots' = [slots EXCEPT ![s] = u]
    BY <2>1 DEF u
  <2>7. ExactSlots(slots')
    BY <2>5, <2>6 DEF ExactSlots
  <2>8. QED BY <1>1, <2>4, <2>7
<1>3. CASE Fill(p, class)
  <2>1. given' = [found |-> TRUE, page |-> p, bytes |-> Content[p]]
    BY <1>3 DEF Fill
  <2>2. given'.page = p /\ given'.bytes = Content[p]
    BY <2>1
  <2>3. CASE DOMAIN slots = {}
    <3>1. slots' = slots
      BY <1>3, <2>3 DEF Fill
    <3>2. QED BY <1>1, <2>2, <3>1
  <2>4. CASE DOMAIN slots # {}
    <3> DEFINE u == Loaded(p)
               v == Victim
    <3>1. slots' = [slots EXCEPT ![v] = u]
      BY <1>3, <2>4 DEF Fill
    <3>2. u.page = p /\ u.bytes = Content[p]
      BY DEF Loaded, InUse
    <3> HIDE DEF u, v
    <3>3. ExactSlots(slots')
      BY <3>1, <3>2 DEF ExactSlots
    <3>4. QED BY <1>1, <2>2, <3>3
  <2>5. QED BY <2>3, <2>4
<1>4. QED BY <1>1, <1>2, <1>3 DEF pager_page

Gathered(v, r) ==
  /\ v \in Seq(DOMAIN Surfaces)
  /\ \A i : Count(v, i) = Cardinality({x \in Spots(r) : PostingIds[x] = i})

(* The ids a request takes are those of its places.                         *)
LEMMA RequestedIds ==
  ASSUME NEW r \in AllRequests
  PROVE  Gathered(Ids(SubSeq(Content[<<"index", r.page>>], r.from, r.to)), r)
<1> DEFINE b == Content[<<"index", r.page>>]
           u == SubSeq(b, r.from, r.to)
           v == Ids(u)
           m == r.page * PageWords
           lo == m + r.from - 1
           n == r.to - r.from + 1
<1>1. InRequest(r)
  BY RequestFacts DEF AllRequests, Requests
<1>2. /\ r.page \in Nat /\ r.from \in Nat /\ r.from > 0 /\ r.to \in Nat /\ r.from <= r.to
      /\ r.to <= PageWords /\ m \in Nat /\ m + r.to <= Len(PostingIds)
      /\ PageWords \in Nat
  BY <1>1, PagerAssumption DEF InRequest
<1>3. PostingIds \in Seq(DOMAIN Surfaces) /\ Len(PostingIds) \in Nat
  <2>1. PostingIds \in Seq(DOMAIN Surfaces)
    BY PostingIdsFacts
  <2>2. QED BY <2>1
<1>4. Len(Region["index"]) \in Nat
      /\ \A x \in 1 .. Len(PostingIds) :
           x \in 1 .. Len(Region["index"]) /\ Region["index"][x] = <<PostingIds[x]>>
  BY IndexWords
<1>5. ASSUME NEW w \in r.from .. r.to
      PROVE  b[w] = <<PostingIds[m + w]>> /\ PostingIds[m + w] \in DOMAIN Surfaces
  <2>1. w \in 1 .. PageWords /\ m + w \in 1 .. Len(PostingIds)
    <3> DEFINE f == r.from
               t == r.to
               l == Len(PostingIds)
    <3>1. f \in Nat /\ f > 0 /\ t \in Nat /\ t <= PageWords /\ m \in Nat /\ m + t <= l
          /\ l \in Nat /\ PageWords \in Nat /\ w \in f .. t
      BY <1>2, <1>3
    <3> HIDE DEF m, f, t, l
    <3>2. w \in Nat /\ w > 0 /\ w <= t
      BY <3>1
    <3>3. w \in 1 .. PageWords /\ m + w \in 1 .. l
      BY <3>1, <3>2
    <3>4. QED BY <3>3 DEF l
  <2> DEFINE x == m + w
  <2>2. x \in 1 .. Len(PostingIds)
    BY <2>1
  <2>3. r.page * PageWords + w = x
    OBVIOUS
  <2> HIDE DEF x, m
  <2>4. x \in 1 .. Len(Region["index"]) /\ Region["index"][x] = <<PostingIds[x]>>
    BY <1>4, <2>2
  <2>5. r.page * PageWords + w <= Len(Region["index"])
    BY <1>4, <2>3, <2>4
  <2>6. b[w] = Region["index"][r.page * PageWords + w]
    BY <1>2, <2>1, <2>5, WordOnPage
  <2>7. PostingIds[x] \in DOMAIN Surfaces
    BY <1>3, <2>2
  <2>8. QED BY <2>3, <2>4, <2>6, <2>7 DEF x, m
<1> DEFINE f == r.from
           t == r.to
           ids == PostingIds
<1>6. f \in Int /\ t \in Int /\ f <= t /\ n = t - f + 1 /\ lo = m + f - 1 /\ m \in Nat /\ f > 0
      /\ u = SubSeq(b, f, t)
      /\ \A w \in f .. t : b[w] = <<ids[m + w]>> /\ ids[m + w] \in DOMAIN Surfaces
  <2>1. f \in Int /\ t \in Int /\ f <= t /\ m \in Nat /\ f > 0
    BY <1>2
  <2>2. n = t - f + 1 /\ lo = m + f - 1 /\ u = SubSeq(b, f, t)
    OBVIOUS
  <2>3. \A w \in f .. t : b[w] = <<ids[m + w]>> /\ ids[m + w] \in DOMAIN Surfaces
    BY <1>5
  <2> HIDE DEF f, t, ids, m, b, n, lo, u
  <2>4. QED BY <2>1, <2>2, <2>3
<1> HIDE DEF f, t, ids, m, b, n, lo
<1> DEFINE T == {b[w] : w \in f .. t}
<1>7. /\ u \in Seq(T) /\ Len(u) = IF f <= t THEN t - f + 1 ELSE 0
      /\ \A k \in 1 .. t - f + 1 : u[k] = b[f + k - 1]
  <2>1. \A w \in f .. t : b[w] \in T
    OBVIOUS
  <2> HIDE DEF T
  <2>2. /\ SubSeq(b, f, t) \in Seq(T)
        /\ Len(SubSeq(b, f, t)) = IF f <= t THEN t - f + 1 ELSE 0
        /\ \A k \in 1 .. t - f + 1 : SubSeq(b, f, t)[k] = b[f + k - 1]
    BY <1>6, <2>1, SubSeqProperties
  <2>3. u = SubSeq(b, f, t)
    BY <1>6
  <2> HIDE DEF u
  <2>4. QED BY <2>2, <2>3, Zenon
<1>8. n \in Nat /\ Len(u) = n /\ DOMAIN u = 1 .. n
  BY <1>6, <1>7
<1>9. ASSUME NEW k \in 1 .. n
      PROVE  u[k] = <<ids[lo + k]>> /\ ids[lo + k] \in DOMAIN Surfaces
  <2>1. f + k - 1 \in f .. t /\ m + (f + k - 1) = lo + k /\ k \in 1 .. t - f + 1
    BY <1>6
  <2> DEFINE w == f + k - 1
  <2>2. w \in f .. t /\ m + w = lo + k /\ u[k] = b[w]
    BY <1>7, <2>1
  <2> HIDE DEF w
  <2>3. b[w] = <<ids[m + w]>> /\ ids[m + w] \in DOMAIN Surfaces
    BY <1>6, <2>2
  <2>4. QED BY <2>2, <2>3
<1>10. v = [k \in 1 .. n |-> u[k][1]]
  BY <1>8 DEF Ids
<1> HIDE DEF u, v
<1>11. \A k \in 1 .. n : u[k][1] = ids[lo + k]
  BY <1>9
<1>12. v = [k \in 1 .. n |-> ids[lo + k]]
  BY <1>10, <1>11
<1>13. v \in Seq(DOMAIN Surfaces) /\ Len(v) = n /\ \A k \in 1 .. n : v[k] = ids[lo + k]
  <2>1. v \in [1 .. n -> DOMAIN Surfaces]
    BY <1>9, <1>12
  <2>2. QED BY <1>8, <1>12, <2>1
<1>14. lo \in Nat /\ lo + 1 = m + f /\ lo + n = m + t
  BY <1>6
<1>15. Spots(r) = lo + 1 .. lo + n
  BY <1>14 DEF Spots, m, f, t
<1>16. ASSUME NEW i PROVE Count(v, i) = Cardinality({x \in Spots(r) : PostingIds[x] = i})
  <2>1. Count(v, i) = Cardinality(PlacesOf(ids, lo, n, i))
    <3>1. ids \in Seq(DOMAIN Surfaces)
      BY <1>3 DEF ids
    <3>2. lo \in Nat /\ n \in Nat /\ v \in Seq(DOMAIN Surfaces) /\ Len(v) = n
          /\ \A k \in 1 .. n : v[k] = ids[lo + k]
      BY <1>8, <1>13, <1>14
    <3>3. PieceOf(v, ids, lo, n)
      BY <3>2 DEF PieceOf
    <3>4. QED BY <3>2, <3>3, CountPiece
  <2>2. QED BY <1>15, <2>1 DEF ids, PlacesOf
<1>17. Gathered(v, r)
  BY <1>13, <1>16 DEF Gathered
<1>18. QED BY <1>6, <1>17 DEF v, u, b, f, t

(* A page of a posting list leaves the places of the other requests.        *)
LEMMA PostingPageOk ==
  ASSUME NEW q, PostingsOk(q), q.todo # <<>>, NEW v,
         Gathered(v, Head(q.todo)), NEW p, p.todo = Tail(q.todo), p.ids = q.ids \o v,
         p.grams = q.grams, p.answer = q.answer
  PROVE  PostingsOk(p)
<1>0. v \in Seq(DOMAIN Surfaces)
      /\ \A i : Count(v, i) = Cardinality({x \in Spots(Head(q.todo)) : PostingIds[x] = i})
  BY DEF Gathered
<1> DEFINE s == q.todo
           t == Tail(s)
           h == Head(s)
           n == Len(s)
           l == Len(t)
           A == AllSpots(q.grams)
<1>1. /\ s \in Seq(AllRequests) /\ Apart(s) /\ Left(s) \subseteq A
      /\ q.ids \in Seq(DOMAIN Surfaces) /\ q.answer = NoAnswer
      /\ \A i \in DOMAIN Surfaces :
           Count(q.ids, i) = Cardinality({x \in A \ Left(s) : PostingIds[x] = i})
  BY DEF PostingsOk
<1> HIDE DEF A, s
<1>2. /\ h \in AllRequests /\ t \in Seq(AllRequests) /\ h = s[1] /\ n \in Nat /\ n > 0
      /\ \A i \in 1 .. l : t[i] = s[i + 1] /\ i + 1 \in 2 .. n
      /\ \A i \in 2 .. n : i - 1 \in 1 .. l /\ t[i - 1] = s[i]
  <2>1. s # <<>>
    BY DEF s
  <2>2. /\ Head(s) \in AllRequests /\ Tail(s) \in Seq(AllRequests) /\ Head(s) = s[1]
        /\ Len(s) \in Nat /\ Len(s) > 0 /\ Len(Tail(s)) = Len(s) - 1
        /\ \A i \in 1 .. Len(Tail(s)) : Tail(s)[i] = s[i + 1] /\ i + 1 \in 2 .. Len(s)
        /\ \A i \in 2 .. Len(s) : i - 1 \in 1 .. Len(Tail(s)) /\ Tail(s)[i - 1] = s[i]
    BY <1>1, <2>1, HeadAndTail
  <2>3. QED BY <2>2
<1>3. \A i, j \in 1 .. n : i # j => Spots(s[i]) \cap Spots(s[j]) = {}
  BY <1>1 DEF Apart
<1>4. Left(s) = UNION {Spots(s[i]) : i \in 1 .. n} /\ Left(t) = UNION {Spots(t[i]) : i \in 1 .. l}
  BY DEF Left
<1>5. t = p.todo
  BY DEF s
<1> HIDE DEF t, h, n, l
<1>6. 1 \in 1 .. n /\ \A i \in 2 .. n : i \in 1 .. n /\ i # 1
  BY <1>2
<1>7. ASSUME NEW x PROVE x \in Left(s) <=> x \in Spots(h) \/ x \in Left(t)
  <2>1. ASSUME x \in Left(s) PROVE x \in Spots(h) \/ x \in Left(t)
    <3>1. PICK i \in 1 .. n : x \in Spots(s[i])
      BY <1>4, <2>1
    <3>2. CASE i = 1
      BY <1>2, <3>1, <3>2
    <3>3. CASE i # 1
      <4>1. i \in 2 .. n
        BY <1>2, <3>3
      <4>2. i - 1 \in 1 .. l /\ x \in Spots(t[i - 1])
        BY <1>2, <3>1, <4>1
      <4>3. QED BY <1>4, <4>2
    <3>4. QED BY <3>2, <3>3
  <2>2. ASSUME x \in Spots(h) PROVE x \in Left(s)
    BY <1>2, <1>4, <1>6, <2>2
  <2>3. ASSUME x \in Left(t) PROVE x \in Left(s)
    <3>1. PICK i \in 1 .. l : x \in Spots(t[i])
      BY <1>4, <2>3
    <3>2. i + 1 \in 1 .. n /\ x \in Spots(s[i + 1])
      BY <1>2, <1>6, <3>1
    <3>3. QED BY <1>4, <3>2
  <2>4. QED BY <2>1, <2>2, <2>3
<1>8. ASSUME NEW x, x \in Spots(h), x \in Left(t) PROVE FALSE
  <2>1. PICK i \in 1 .. l : x \in Spots(t[i])
    BY <1>4, <1>8
  <2>2. i + 1 \in 1 .. n /\ i + 1 # 1 /\ x \in Spots(s[i + 1])
    BY <1>2, <1>6, <2>1
  <2>3. x \in Spots(s[1])
    BY <1>2, <1>8
  <2>4. QED BY <1>3, <1>6, <2>2, <2>3
<1>9. Apart(t)
  <2>1. ASSUME NEW i \in 1 .. l, NEW j \in 1 .. l, i # j PROVE Spots(t[i]) \cap Spots(t[j]) = {}
    <3>1. i + 1 \in 1 .. n /\ j + 1 \in 1 .. n /\ t[i] = s[i + 1] /\ t[j] = s[j + 1]
      BY <1>2, <1>6
    <3>2. i + 1 # j + 1
      BY <2>1
    <3>3. QED BY <1>3, <3>1, <3>2
  <2>2. QED BY <2>1 DEF Apart, l
<1>10. Left(t) \subseteq A
  BY <1>1, <1>7
<1>11. A \subseteq 1 .. Len(PostingIds) /\ IsFiniteSet(A)
  <2>1. A \subseteq 1 .. Len(PostingIds)
    BY ListIds DEF A, AllSpots
  <2>2. Len(PostingIds) \in Nat
    <3>1. PostingIds \in Seq(DOMAIN Surfaces)
      BY PostingIdsFacts
    <3>2. QED BY <3>1
  <2>3. IsFiniteSet(1 .. Len(PostingIds))
    BY <2>2, FirstNumbers
  <2>4. QED BY <2>1, <2>3, FS_Subset
<1>12. ASSUME NEW i \in DOMAIN Surfaces
       PROVE  Count(q.ids \o v, i) = Cardinality({x \in A \ Left(t) : PostingIds[x] = i})
  <2> DEFINE X == {x \in A \ Left(s) : PostingIds[x] = i}
             Y == {x \in Spots(h) : PostingIds[x] = i}
             Z == {x \in A \ Left(t) : PostingIds[x] = i}
  <2>1. Z = X \cup Y /\ X \cap Y = {} /\ X \subseteq A /\ Y \subseteq A
    <3>1. \A x : x \in Spots(h) => x \in A
      BY <1>1, <1>7
    <3>2. \A x : x \in Z <=> x \in X \/ x \in Y
      BY <1>7, <1>8, <3>1
    <3>3. \A x : ~(x \in X /\ x \in Y)
      BY <1>7
    <3>4. \A x : (x \in X => x \in A) /\ (x \in Y => x \in A)
      BY <3>1
    <3> HIDE DEF X, Y, Z
    <3>5. QED BY <3>2, <3>3, <3>4
  <2>2. Count(q.ids, i) = Cardinality(X)
    BY <1>1
  <2>3. Count(v, i) = Cardinality(Y)
    BY <1>0 DEF h, s
  <2> HIDE DEF X, Y, Z
  <2>4. IsFiniteSet(X) /\ IsFiniteSet(Y)
    BY <1>11, <2>1, FS_Subset
  <2>5. Cardinality(X \cup Y) = Cardinality(X) + Cardinality(Y) - Cardinality(X \cap Y)
    BY <2>4, FS_Union
  <2>6. Cardinality(X \cap Y) = 0 /\ Cardinality(X) \in Nat /\ Cardinality(Y) \in Nat
    BY <2>1, <2>4, FS_CardinalityType, FS_EmptySet
  <2>7. Cardinality(Z) = Cardinality(X) + Cardinality(Y)
    BY <2>1, <2>5, <2>6
  <2>8. Count(q.ids \o v, i) = Count(q.ids, i) + Count(v, i)
    BY <1>0, <1>1, CountConcat
  <2>9. QED BY <2>2, <2>3, <2>7, <2>8 DEF Z
<1>13. q.ids \o v \in Seq(DOMAIN Surfaces)
  BY <1>0, <1>1
<1>14. QED
  <2>1. p.todo \in Seq(AllRequests) /\ Apart(p.todo) /\ Left(p.todo) \subseteq AllSpots(p.grams)
    BY <1>2, <1>5, <1>9, <1>10 DEF A
  <2>2. p.ids \in Seq(DOMAIN Surfaces) /\ p.answer = NoAnswer
    BY <1>1, <1>13
  <2>3. \A i \in DOMAIN Surfaces :
          Count(p.ids, i)
            = Cardinality({x \in AllSpots(p.grams) \ Left(p.todo) : PostingIds[x] = i})
    BY <1>5, <1>12 DEF A
  <2>4. QED BY <2>1, <2>2, <2>3 DEF PostingsOk

----------------------------------------------------------------------------
(* The steps of a query.                                                    *)

(* A probe is within the bounds of the search.                              *)
LEMMA MiddleBetween ==
  ASSUME SearchOk(query)
  PROVE  /\ Middle \in Nat /\ query.low <= Middle /\ Middle <= query.high
         /\ Middle < Len(Directory)
<1> DEFINE l == query.low
           h == query.high
           d == Len(Directory)
<1>1. l \in Nat /\ h \in Nat /\ l <= h /\ h < d /\ d \in Nat
  BY EvidenceWords DEF SearchOk
<1>2. Middle = (l + h) \div 2
  BY DEF Middle
<1> HIDE DEF l, h, d
<1>3. (l + h) \div 2 \in Nat /\ l <= (l + h) \div 2 /\ (l + h) \div 2 <= h
  BY <1>1
<1>4. Middle \in Nat /\ l <= Middle /\ Middle <= h /\ Middle < d
  BY <1>1, <1>2, <1>3
<1>5. QED BY <1>4 DEF l, h, d

(* A number of words is that of a page and that of a word on the page.      *)
LEMMA WordAt ==
  ASSUME NEW x \in Nat, NEW base \in Nat
  PROVE  /\ base + (x \div PageWords) \in Nat /\ (x % PageWords) + 1 \in 1 .. PageWords
         /\ (base + (x \div PageWords)) * PageWords + ((x % PageWords) + 1)
              = base * PageWords + (x + 1)
<1> DEFINE d == PageWords
           n == x \div d
           w == x % d
<1>1. d \in Nat \ {0}
  BY PagerAssumption
<1>2. n \in Nat /\ w \in 0 .. d - 1 /\ x = n * d + w
  BY <1>1, DivMod
<1> HIDE DEF d, n, w
<1>3. n * d \in Int /\ base * d \in Int /\ (base + n) * d = base * d + n * d
  BY <1>1, <1>2
<1> DEFINE a == n * d
           b == base * d
           c == (base + n) * d
<1>4. c + (w + 1) = b + (x + 1)
  <2>1. a \in Int /\ b \in Int /\ c = b + a /\ x = a + w /\ w \in Int
    BY <1>1, <1>2, <1>3
  <2> HIDE DEF a, b, c
  <2>2. QED BY <2>1
<1>5. base + n \in Nat /\ w + 1 \in 1 .. d
  BY <1>1, <1>2
<1>6. QED BY <1>4, <1>5 DEF a, b, c, d, n, w

(* A probe reads an entity of the directory and its count.                  *)
LEMMA EvidenceWord ==
  ASSUME SearchOk(query), given'.bytes = Content[Probed]
  PROVE  /\ Middle + 1 \in 1 .. Len(Directory)
         /\ Entry.entity = Located[Middle + 1]
         /\ Entry.count = Occurrences[Located[Middle + 1]]
<1> DEFINE m == Middle
           n == m \div PageWords
           w == (m % PageWords) + 1
           d == Len(Directory)
           L == Len(Region["evidence"])
<1>1. m \in Nat /\ m < d /\ d \in Nat /\ L \in Nat
  BY MiddleBetween, EvidenceWords
<1>2. Probed = <<"evidence", n>> /\ Entry.entity = given'.bytes[w][1]
      /\ Entry.count = given'.bytes[w][2]
  BY DEF Probed, Entry
<1>3. n \in Nat /\ w \in 1 .. PageWords /\ n * PageWords + w = m + 1
  <2>1. /\ 0 + (m \div PageWords) \in Nat /\ (m % PageWords) + 1 \in 1 .. PageWords
        /\ (0 + (m \div PageWords)) * PageWords + ((m % PageWords) + 1)
             = 0 * PageWords + (m + 1)
    <3> HIDE DEF m
    <3>1. QED BY <1>1, WordAt
  <2>2. PageWords \in Nat
    BY PagerAssumption
  <2>3. n \in Int
    BY <1>1, PagerAssumption, DivMod
  <2> HIDE DEF m
  <2>4. 0 + (m \div PageWords) = n /\ 0 * PageWords + (m + 1) = m + 1
    BY <1>1, <2>2, <2>3
  <2>5. QED BY <2>1, <2>4
<1> HIDE DEF m, n, w, d
<1>4. m + 1 \in 1 .. d
  BY <1>1
<1>5. /\ m + 1 \in 1 .. L /\ Region["evidence"][m + 1][1] = Located[m + 1]
      /\ Region["evidence"][m + 1][2] = Occurrences[Located[m + 1]]
  BY <1>4, EvidenceWords DEF d
<1>6. n * PageWords + w <= L
  BY <1>1, <1>3, <1>5
<1>7. Content[<<"evidence", n>>][w] = Region["evidence"][n * PageWords + w]
  BY <1>3, <1>6, WordOnPage
<1>8. given'.bytes[w] = Region["evidence"][m + 1]
  BY <1>2, <1>3, <1>7
<1>9. QED BY <1>2, <1>4, <1>5, <1>8 DEF m, d

(* What an entity contributes.                                              *)
LEMMA CountedOk ==
  ASSUME NEW q, QueryShape(q), q.stage = "evidence", EvidenceOk(q), q.todo # <<>>, NEW n,
         Head(q.todo) \in DOMAIN Occurrences => n = Occurrences[Head(q.todo)],
         Head(q.todo) \notin DOMAIN Occurrences => n = 0
  PROVE  QueryOk(CountedFor(q, n))
<1> DEFINE H == HostEntities(q.grams)
           s == q.todo
           e == Head(s)
           t == Tail(s)
           o == q.answer.occurrences
           p == [q EXCEPT !.todo = Tail(@), !.answer.occurrences = @ + n]
<1>1. CountedFor(q, n) = AfterEvidence(p)
  BY DEF CountedFor
<1>2. /\ s \in Seq(H) /\ Distinct(s) /\ s # <<>> /\ o \in Nat
      /\ q.answer.candidates = HostCandidates(q.grams) /\ q.answer.entities = H
      /\ o + Total(Elems(s)) = Total(H)
  BY DEF EvidenceOk
<1>3. /\ QueryShape(p) /\ p.stage = "evidence" /\ p.todo = t /\ p.grams = q.grams
      /\ p.answer.occurrences = o + n /\ p.answer.candidates = q.answer.candidates
      /\ p.answer.entities = q.answer.entities
  BY DEF QueryShape, QueryFields, AnswerFields
<1> HIDE DEF p
<1>4. t \in Seq(H) /\ Distinct(t) /\ Elems(t) = Elems(s) \ {e} /\ e \in Elems(s)
  <2> HIDE DEF s, H
  <2>1. /\ Elems(s) = {Head(s)} \cup Elems(Tail(s)) /\ Head(s) \in H /\ Tail(s) \in Seq(H)
        /\ Distinct(s) => Distinct(Tail(s)) /\ Elems(Tail(s)) = Elems(s) \ {Head(s)}
    BY <1>2, ElemsOfTail
  <2>2. QED BY <1>2, <2>1
<1> HIDE DEF H, s, e, t, o
<1>5. Total(Elems(s)) \in Nat /\ Total(Elems(t)) \in Nat
  BY TotalFacts
<1>6. n \in Nat /\ Total(Elems(s)) = n + Total(Elems(t))
  <2>1. CASE e \in DOMAIN Occurrences
    <3>1. n = Occurrences[e] /\ Occurrences[e] \in Nat
      BY <2>1, EdgePackAssumption DEF e, s
    <3>2. e \in Elems(s) \cap DOMAIN Occurrences
      BY <1>4, <2>1
    <3>3. Total(Elems(s)) = Occurrences[e] + Total(Elems(s) \ {e})
      BY <3>2, TotalFacts
    <3>4. QED BY <1>4, <3>1, <3>3
  <2>2. CASE e \notin DOMAIN Occurrences
    <3>1. n = 0
      BY <2>2 DEF e, s
    <3>2. Total(Elems(s)) = Total(Elems(s) \ {e})
      BY <2>2, TotalFacts
    <3>3. QED BY <1>4, <1>5, <3>1, <3>2
  <2>3. QED BY <2>1, <2>2
<1>7. (o + n) \in Nat /\ (o + n) + Total(Elems(t)) = Total(H)
  <2> DEFINE a == Total(Elems(s))
             b == Total(Elems(t))
             c == Total(H)
  <2>1. o \in Nat /\ a \in Nat /\ b \in Nat /\ n \in Nat /\ a = n + b /\ o + a = c
    BY <1>2, <1>5, <1>6
  <2> HIDE DEF a, b, c
  <2>2. (o + n) \in Nat /\ (o + n) + b = c
    BY <2>1
  <2>3. QED BY <2>2 DEF b, c
<1>8. EvidenceOk(p)
  BY <1>2, <1>3, <1>4, <1>7 DEF EvidenceOk, H
<1>9. QED BY <1>1, <1>3, <1>8, AfterEvidenceOk

(* A probe of another entity leaves the place of the one searched for.      *)
LEMMA NarrowedHolds ==
  ASSUME SearchOk(query), EvidenceOk(query), query.todo # <<>>,
         Entry.entity = Located[Middle + 1], Entry.entity # Head(query.todo)
  PROVE  LET q == Narrowed(Head(query.todo))
         IN  /\ Entry.entity < Head(query.todo) => q = [query EXCEPT !.low = Middle + 1]
             /\ ~(Entry.entity < Head(query.todo)) => q = [query EXCEPT !.high = Middle - 1]
             /\ \A j \in 0 .. Len(Directory) - 1 : Located[j + 1] = Head(query.todo) =>
                  IF Entry.entity < Head(query.todo) THEN Middle + 1 <= j /\ j <= query.high
                  ELSE query.low <= j /\ j <= Middle - 1
<1> DEFINE e == Head(query.todo)
           x == Entry.entity
           m == Middle
           l == query.low
           h == query.high
           d == Len(Directory)
<1>1. /\ m \in Nat /\ l \in Nat /\ h \in Nat /\ d \in Nat /\ m < d /\ l <= m /\ m <= h
      /\ \A j \in 0 .. d - 1 : Located[j + 1] = e => l <= j /\ j <= h
  BY MiddleBetween, EvidenceWords DEF SearchOk
<1>2. e \in Nat
  <2>1. query.todo \in Seq(HostEntities(query.grams)) /\ query.todo # <<>>
    BY DEF EvidenceOk
  <2>2. Head(query.todo) \in HostEntities(query.grams)
    BY <2>1
  <2>3. QED BY <2>2, HostEntitiesFacts
<1>3. /\ \A j \in 1 .. d : Located[j] \in Nat
      /\ \A i, j \in 1 .. d : i < j => Located[i] < Located[j]
  <2>1. \A j \in 1 .. d : Located[j] \in DOMAIN Occurrences
    BY EvidenceWords DEF Enumerates
  <2>2. \A i, j \in 1 .. d : i < j => Located[i] < Located[j]
    BY EvidenceWords
  <2>3. QED BY <2>1, <2>2, EdgePackAssumption
<1>4. x = Located[m + 1] /\ x # e
  OBVIOUS
<1>5. /\ x < e => Narrowed(e) = [query EXCEPT !.low = m + 1]
      /\ ~(x < e) => Narrowed(e) = [query EXCEPT !.high = m - 1]
  BY DEF Narrowed
<1> HIDE DEF e, x, m, l, h, d
<1>6. ASSUME NEW j \in 0 .. d - 1, Located[j + 1] = e
      PROVE  IF x < e THEN m + 1 <= j /\ j <= h ELSE l <= j /\ j <= m - 1
  <2>1. l <= j /\ j <= h /\ j + 1 \in 1 .. d /\ m + 1 \in 1 .. d /\ x \in Nat
    BY <1>1, <1>3, <1>4, <1>6
  <2>2. j # m
    BY <1>4, <1>6
  <2>3. CASE x < e
    <3>1. ~(j < m)
      <4>1. SUFFICES ASSUME j < m PROVE FALSE
        OBVIOUS
      <4>2. j + 1 < m + 1
        BY <1>1, <4>1
      <4>3. Located[j + 1] < Located[m + 1]
        BY <1>3, <2>1, <4>2
      <4>4. e < x
        BY <1>4, <1>6, <4>3
      <4>5. QED BY <1>2, <2>1, <2>3, <4>4
    <3>2. m + 1 <= j
      BY <1>1, <2>2, <3>1
    <3>3. QED BY <2>1, <2>3, <3>2
  <2>4. CASE ~(x < e)
    <3>1. ~(m < j)
      <4>1. SUFFICES ASSUME m < j PROVE FALSE
        OBVIOUS
      <4>2. m + 1 < j + 1
        BY <1>1, <4>1
      <4>3. Located[m + 1] < Located[j + 1]
        BY <1>3, <2>1, <4>2
      <4>4. QED BY <1>4, <1>6, <2>4, <4>3
    <3>2. j <= m - 1
      BY <1>1, <2>2, <3>1
    <3>3. QED BY <2>1, <2>4, <3>2
  <2>5. QED BY <2>3, <2>4
<1>7. QED BY <1>5, <1>6 DEF e, x, m, l, h, d

(* The evidence probe.                                                      *)
LEMMA EvidenceEntryOk ==
  ASSUME QueryOk(query), query.stage = "evidence", given'.bytes = Content[Probed],
         NEW e, e = Head(query.todo), NEW q,
         q = IF Entry.entity = e THEN CountedFor(query, Entry.count)
             ELSE IF Exhausted(Narrowed(e)) THEN CountedFor(query, 0)
             ELSE Narrowed(e)
  PROVE  QueryOk(q)
<1> DEFINE x == Entry.entity
           m == Middle
           d == Len(Directory)
           p == Narrowed(e)
<1>1. QueryShape(query) /\ EvidenceOk(query) /\ SearchOk(query) /\ query.todo # <<>>
  BY DEF QueryOk
<1>2. /\ m + 1 \in 1 .. d /\ x = Located[m + 1] /\ Entry.count = Occurrences[Located[m + 1]]
  BY <1>1, EvidenceWord
<1>3. /\ m \in Nat /\ query.low <= m /\ m <= query.high /\ m < d
      /\ query.low \in Nat /\ query.high \in Nat /\ query.high < d /\ d \in Nat
  BY <1>1, MiddleBetween, EvidenceWords DEF SearchOk
<1>4. Enumerates(Located, DOMAIN Occurrences) /\ d = Cardinality(DOMAIN Occurrences)
  BY EvidenceWords
<1>5. CASE x = e
  <2>1. e \in DOMAIN Occurrences /\ Entry.count = Occurrences[e]
    <3>1. \A k \in 1 .. d : Located[k] \in DOMAIN Occurrences
      BY <1>4 DEF Enumerates
    <3> HIDE DEF x, m, d
    <3>2. QED BY <1>2, <1>5, <3>1
  <2>2. QueryOk(CountedFor(query, Entry.count))
    BY <1>1, <2>1, CountedOk
  <2>3. q = CountedFor(query, Entry.count)
    BY <1>5
  <2>4. QED BY <2>2, <2>3
<1>6. CASE x # e
  <2>1. /\ x < e => p = [query EXCEPT !.low = m + 1]
        /\ ~(x < e) => p = [query EXCEPT !.high = m - 1]
        /\ \A j \in 0 .. d - 1 : Located[j + 1] = e =>
             IF x < e THEN m + 1 <= j /\ j <= query.high ELSE query.low <= j /\ j <= m - 1
    BY <1>1, <1>2, <1>6, NarrowedHolds
  <2>2. /\ QueryShape(p) /\ p.stage = "evidence" /\ p.todo = query.todo
        /\ p.grams = query.grams /\ p.answer = query.answer
        /\ x < e => p.low = m + 1 /\ p.high = query.high
        /\ ~(x < e) => p.low = query.low /\ p.high = m - 1
    <3> HIDE DEF m, x, p
    <3>1. CASE x < e
      BY <1>1, <2>1, <3>1 DEF QueryShape, QueryFields
    <3>2. CASE ~(x < e)
      BY <1>1, <2>1, <3>2 DEF QueryShape, QueryFields
    <3>3. QED BY <3>1, <3>2
  <2>3. Exhausted(p) <=> p.low > p.high
    BY DEF Exhausted
  <2>4. q = IF Exhausted(p) THEN CountedFor(query, 0) ELSE p
    BY <1>6
  <2> HIDE DEF p, m, x, d
  <2>5. \A j \in 0 .. d - 1 : Located[j + 1] = e => p.low <= j /\ j <= p.high
    <3>1. CASE x < e
      BY <2>1, <2>2, <3>1
    <3>2. CASE ~(x < e)
      BY <2>1, <2>2, <3>2
    <3>3. QED BY <3>1, <3>2
  <2>6. p.low \in Nat /\ p.high \in Int /\ p.high < d
    <3> DEFINE l == query.low
               h == query.high
    <3>1. m \in Nat /\ m < d /\ l \in Nat /\ h \in Nat /\ h < d /\ d \in Nat
      BY <1>3
    <3> HIDE DEF l, h
    <3>2. m + 1 \in Nat /\ m - 1 \in Int /\ m - 1 < d
      BY <3>1
    <3>3. QED BY <2>2, <3>1, <3>2 DEF l, h
  <2>7. CASE Exhausted(p)
    <3>1. e \notin DOMAIN Occurrences
      <4>1. SUFFICES ASSUME e \in DOMAIN Occurrences PROVE FALSE
        OBVIOUS
      <4>2. PICK k \in 1 .. d : Located[k] = e
        BY <1>4, <4>1 DEF Enumerates
      <4>3. k - 1 \in 0 .. d - 1 /\ (k - 1) + 1 = k
        BY <1>3
      <4>4. p.low <= k - 1 /\ k - 1 <= p.high
        BY <2>5, <4>2, <4>3
      <4> DEFINE a == p.low
                 b == p.high
      <4>5. a \in Int /\ b \in Int /\ a <= k - 1 /\ k - 1 <= b /\ a > b /\ k \in Int
        BY <2>3, <2>6, <2>7, <4>4
      <4> HIDE DEF a, b
      <4>6. QED BY <4>5
    <3>2. QueryOk(CountedFor(query, 0))
      BY <1>1, <3>1, CountedOk
    <3>3. QED BY <2>4, <2>7, <3>2
  <2>8. CASE ~Exhausted(p)
    <3>1. p.low <= p.high /\ p.high \in Nat
      <4> DEFINE a == p.low
                 b == p.high
      <4>1. a \in Nat /\ b \in Int /\ ~(a > b)
        BY <2>3, <2>6, <2>8
      <4> HIDE DEF a, b
      <4>2. a <= b /\ b \in Nat
        BY <4>1
      <4>3. QED BY <4>2 DEF a, b
    <3>2. SearchOk(p)
      BY <2>2, <2>5, <2>6, <3>1 DEF SearchOk, d
    <3>3. EvidenceOk(p)
      BY <1>1, <2>2 DEF EvidenceOk
    <3>4. QueryOk(p)
      BY <1>1, <2>2, <3>2, <3>3 DEF QueryOk
    <3>5. QED BY <2>4, <2>8, <3>4
  <2>9. QED BY <2>7, <2>8
<1>7. QED BY <1>5, <1>6

(* An entry of the surface directory names the entity of its surface.       *)
LEMMA SurfaceWord ==
  ASSUME NEW i \in DOMAIN Surfaces
  PROVE  Content[<<"index", SurfacePage + ((i - 1) \div PageWords)>>][((i - 1) % PageWords) + 1]
           = <<Surfaces[i].entity>>
<1> DEFINE x == i - 1
           n == SurfacePage + (x \div PageWords)
           w == (x % PageWords) + 1
           L == Len(Region["index"])
           b == SurfacePage
<1>1. x \in Nat /\ x + 1 = i /\ b \in Nat /\ L \in Nat
  BY EdgePackAssumption, IndexWords
<1> HIDE DEF x, L, b
<1>2. /\ n \in Nat /\ w \in 1 .. PageWords
      /\ (b + (x \div PageWords)) * PageWords + ((x % PageWords) + 1)
           = b * PageWords + (x + 1)
  BY <1>1, WordAt DEF b
<1>3. n * PageWords + w = SurfacePage * PageWords + i
  BY <1>1, <1>2 DEF b
<1> HIDE DEF n, w
<1>4. /\ SurfacePage * PageWords + i \in 1 .. L
      /\ Region["index"][SurfacePage * PageWords + i] = <<Surfaces[i].entity>>
  BY IndexWords DEF L
<1>5. n * PageWords + w <= L
  BY <1>1, <1>3, <1>4
<1>6. Content[<<"index", n>>][w] = Region["index"][n * PageWords + w]
  BY <1>2, <1>5, WordOnPage DEF L
<1>7. Content[<<"index", n>>][w] = <<Surfaces[i].entity>>
  BY <1>3, <1>4, <1>6
<1>8. QED BY <1>7 DEF n, w, x

Named(q, x) ==
  AfterSurfaces([q EXCEPT !.todo = Tail(@), !.answer.entities = (@ \cup {x}) \ {NoEntity}])

(* The surface entry.                                                       *)
LEMMA SurfaceEntryOk ==
  ASSUME QueryOk(query), query.stage = "surface",
         NEW x, x = Surfaces[Head(query.todo)].entity
  PROVE  QueryOk(Named(query, x))
<1> DEFINE q == Named(query, x)
           s == query.todo
           i == Head(s)
           t == Tail(s)
           E == query.answer.entities
           H == HostEntities(query.grams)
           p == [query EXCEPT !.todo = Tail(@), !.answer.entities = (@ \cup {x}) \ {NoEntity}]
<1>1. QueryShape(query) /\ SurfacesOk(query) /\ query.todo # <<>>
  BY DEF QueryOk
<1>2. /\ s \in Seq(DOMAIN Surfaces) /\ s # <<>> /\ E \subseteq H
      /\ query.answer.candidates = HostCandidates(query.grams) /\ query.answer.occurrences = 0
      /\ H = (E \cup {Surfaces[k].entity : k \in Elems(s)}) \ {NoEntity}
  BY <1>1 DEF SurfacesOk
<1>3. /\ QueryShape(p) /\ p.stage = "surface" /\ p.todo = t /\ p.grams = query.grams
      /\ p.answer.entities = (E \cup {x}) \ {NoEntity}
      /\ p.answer.candidates = query.answer.candidates
      /\ p.answer.occurrences = query.answer.occurrences
  BY <1>1 DEF QueryShape, QueryFields, AnswerFields
<1>4. q = AfterSurfaces(p)
  BY DEF Named
<1> HIDE DEF p
<1>5. Elems(s) = {i} \cup Elems(t) /\ i \in DOMAIN Surfaces /\ t \in Seq(DOMAIN Surfaces)
  <2> HIDE DEF s
  <2>1. QED BY <1>2, ElemsOfTail
<1>6. x = Surfaces[i].entity
  OBVIOUS
<1> HIDE DEF s, i, t, E, H
<1>7. \A y : y \in H <=>
                 /\ y # NoEntity
                 /\ (y \in E \/ y = x \/ \E k \in Elems(t) : y = Surfaces[k].entity)
  BY <1>2, <1>5, <1>6
<1> DEFINE F == (E \cup {x}) \ {NoEntity}
           R == {Surfaces[k].entity : k \in Elems(t)}
<1>8. F \subseteq H /\ H = (F \cup R) \ {NoEntity}
  <2>1. \A y : y \in F => y \in H
    BY <1>7
  <2>2. \A y : y \in H <=> y \in (F \cup R) \ {NoEntity}
    BY <1>7
  <2> HIDE DEF F, R
  <2>3. QED BY <2>1, <2>2
<1>9. SurfacesOk(p)
  BY <1>2, <1>3, <1>5, <1>8 DEF SurfacesOk, H
<1>10. QED BY <1>3, <1>4, <1>9, AfterSurfacesOk

----------------------------------------------------------------------------
(* Without a failed read of evidence, the slots hold their pages and the    *)
(* query is on its way.                                                     *)
OnTheWay == ExactSlots(slots) /\ QueryOk(query)
Unfailed == query.stage = "failed" \/ OnTheWay
AnswerInv ==
  /\ failures.all \in Nat /\ failures.evidence \in Nat
  /\ failures.evidence > 0 \/ Unfailed

(* Nothing differs from the page that was handed out.                       *)
LEMMA NotAstray ==
  ASSUME given'.bytes = Content[given'.page], NEW from, NEW to
  PROVE  ~Astray(from, to)
BY DEF Astray

(* The counts of misses leave the rest of a query.                          *)
LEMMA MissesOnly ==
  ASSUME NEW q, QueryShape(q), NEW first
  PROVE  LET p == MissCounted(q, first)
         IN  /\ QueryShape(p) /\ p.stage = q.stage /\ p.grams = q.grams /\ p.todo = q.todo
             /\ p.ids = q.ids /\ p.answer = q.answer
BY DEF MissCounted, QueryShape, QueryFields

(* The start of a query.                                                    *)
LEMMA StartQueryOk ==
  ASSUME OnTheWay, StartQuery
  PROVE  Unfailed'
<1>1. slots' = slots
  BY DEF StartQuery
<1>2. PICK a \in Asked :
        query' = IF a.points > MaxPoints THEN [Idle EXCEPT !.stage = "failed"]
                 ELSE AfterPostings([Idle EXCEPT !.stage = "postings", !.grams = a.grams,
                                                 !.todo = PostingRequests(a.grams)])
  BY Zenon DEF StartQuery
<1>3. CASE a.points > MaxPoints
  <2>1. query'.stage = "failed"
    BY <1>2, <1>3 DEF Idle
  <2>2. QED BY <2>1 DEF Unfailed
<1>4. CASE ~(a.points > MaxPoints)
  <2> DEFINE g == a.grams
             r == PostingRequests(g)
             q == [Idle EXCEPT !.stage = "postings", !.grams = g, !.todo = r]
  <2>1. query' = AfterPostings(q)
    BY <1>2, <1>4
  <2>2. r \in Seq(AllRequests) /\ Apart(r) /\ Left(r) = AllSpots(g)
    BY PostingRequestsFacts
  <2> HIDE DEF g, r
  <2>3. /\ QueryShape(q) /\ q.stage = "postings" /\ q.grams = g /\ q.todo = r
        /\ q.ids = <<>> /\ q.answer = NoAnswer
    BY DEF Idle, QueryShape, QueryFields, AnswerFields, NoAnswer
  <2> HIDE DEF q
  <2>4. ASSUME NEW i
        PROVE  Count(q.ids, i)
                 = Cardinality({x \in AllSpots(q.grams) \ Left(q.todo) : PostingIds[x] = i})
    <3>1. {x \in AllSpots(q.grams) \ Left(q.todo) : PostingIds[x] = i} = {}
      BY <2>2, <2>3
    <3>2. {k \in 1 .. Len(q.ids) : q.ids[k] = i} = {}
      BY <2>3
    <3>3. QED BY <3>1, <3>2 DEF Count
  <2>5. PostingsOk(q)
    BY <2>2, <2>3, <2>4 DEF PostingsOk
  <2>6. QueryOk(query')
    BY <2>1, <2>3, <2>5, AfterPostingsOk
  <2>7. ExactSlots(slots')
    BY <1>1 DEF OnTheWay
  <2>8. QED BY <2>6, <2>7 DEF Unfailed, OnTheWay
<1>5. QED BY <1>3, <1>4

Taken(q, r) ==
  IF Astray(r.from, r.to) THEN [q EXCEPT !.stage = "astray"]
  ELSE IF Len(q.ids) + r.to - r.from + 1 > MaxMerged THEN [q EXCEPT !.stage = "failed"]
  ELSE AfterPostings([q EXCEPT !.todo = Tail(@),
                               !.ids = @ \o Ids(SubSeq(given'.bytes, r.from, r.to))])

(* A page of a posting list, received.                                      *)
LEMMA PostingPageReceived ==
  ASSUME OnTheWay, query.stage = "postings",
         Received(<<"index", Head(query.todo).page>>, "postings"),
         query' = Taken(MissCounted(query, Head(query.todo).first), Head(query.todo))
  PROVE  Unfailed'
<1> DEFINE r == Head(query.todo)
           q == MissCounted(query, r.first)
           c == <<"index", r.page>>
           v == Ids(SubSeq(given'.bytes, r.from, r.to))
           p == [q EXCEPT !.todo = Tail(@), !.ids = @ \o v]
<1>1. QueryShape(query) /\ PostingsOk(query) /\ query.todo # <<>> /\ ExactSlots(slots)
  BY DEF OnTheWay, QueryOk
<1>2. /\ QueryShape(q) /\ q.stage = "postings" /\ q.grams = query.grams /\ q.todo = query.todo
      /\ q.ids = query.ids /\ q.answer = query.answer
  BY <1>1, MissesOnly
<1>0. query' = Taken(q, r) /\ r = Head(query.todo) /\ Received(c, "postings")
  OBVIOUS
<1> HIDE DEF q, r
<1>3. ExactSlots(slots') /\ given'.page = c /\ given'.bytes = Content[c]
  <2> HIDE DEF c
  <2>1. QED BY <1>0, <1>1, ReceivedExact
<1>4. given'.bytes = Content[given'.page]
  BY <1>3
<1>5. ~Astray(r.from, r.to)
  BY <1>4, NotAstray
<1>6. CASE Len(q.ids) + r.to - r.from + 1 > MaxMerged
  <2>1. query' = [q EXCEPT !.stage = "failed"]
    BY <1>0, <1>5, <1>6 DEF Taken
  <2>2. query'.stage = "failed"
    BY <1>2, <2>1 DEF QueryShape, QueryFields
  <2>3. QED BY <2>2 DEF Unfailed
<1>7. CASE ~(Len(q.ids) + r.to - r.from + 1 > MaxMerged)
  <2>1. query' = AfterPostings(p)
    BY <1>0, <1>5, <1>7 DEF Taken
  <2>2. /\ QueryShape(p) /\ p.stage = "postings" /\ p.grams = q.grams /\ p.todo = Tail(q.todo)
        /\ p.ids = q.ids \o v /\ p.answer = q.answer
    <3> DEFINE t == Tail(q.todo)
               n == q.ids \o v
    <3>1. p = [q EXCEPT !.todo = t, !.ids = n]
      OBVIOUS
    <3> HIDE DEF v, p, t, n
    <3>2. /\ QueryShape(p) /\ p.stage = q.stage /\ p.grams = q.grams /\ p.todo = t
          /\ p.ids = n /\ p.answer = q.answer
      BY <1>2, <3>1 DEF QueryShape, QueryFields
    <3>3. QED BY <1>2, <3>2 DEF t, n
  <2>3. r \in AllRequests
    <3>1. query.todo \in Seq(AllRequests) /\ query.todo # <<>>
      BY <1>1 DEF PostingsOk
    <3>2. QED BY <1>0, <3>1
  <2>4. Gathered(v, r)
    <3>1. Gathered(Ids(SubSeq(Content[c], r.from, r.to)), r)
      BY <2>3, RequestedIds
    <3>2. QED BY <1>3, <3>1
  <2> HIDE DEF v, p
  <2>5. PostingsOk(q)
    BY <1>1, <1>2 DEF PostingsOk
  <2>6. PostingsOk(p)
    <3>1. q.todo # <<>> /\ Gathered(v, Head(q.todo))
      BY <1>0, <1>1, <1>2, <2>4
    <3>2. p.todo = Tail(q.todo) /\ p.ids = q.ids \o v /\ p.grams = q.grams /\ p.answer = q.answer
      BY <2>2
    <3>3. QED BY <2>5, <3>1, <3>2, PostingPageOk
  <2>7. QueryOk(query')
    BY <2>1, <2>2, <2>6, AfterPostingsOk
  <2>8. QED BY <1>3, <2>7 DEF Unfailed, OnTheWay
<1>8. QED BY <1>6, <1>7

(* A failed read of another page ends the query, one of an evidence page is *)
(* remembered.                                                              *)
LEMMA FailedCounts ==
  ASSUME NEW p, NEW class, Failed(p, class), failures.all \in Nat, failures.evidence \in Nat
  PROVE  /\ failures'.all \in Nat /\ failures'.evidence \in Nat
         /\ class = "evidence" => failures'.evidence > 0
         /\ failures.evidence > 0 => failures'.evidence > 0
<1> DEFINE n == IF class = "evidence" THEN 1 ELSE 0
<1>1. failures' = [all |-> failures.all + 1, evidence |-> failures.evidence + n]
  BY DEF Failed
<1>2. failures'.all = failures.all + 1 /\ failures'.evidence = failures.evidence + n
  BY <1>1
<1> DEFINE a == failures.all
           b == failures.evidence
<1>3. n \in {0, 1} /\ (class = "evidence" => n = 1)
  OBVIOUS
<1>4. failures'.all = a + 1 /\ failures'.evidence = b + n /\ a \in Nat /\ b \in Nat
  BY <1>2
<1> HIDE DEF n, a, b
<1>5. a + 1 \in Nat /\ b + n \in Nat /\ (n = 1 => b + n > 0) /\ (b > 0 => b + n > 0)
  BY <1>3, <1>4
<1>6. QED BY <1>3, <1>4, <1>5 DEF b

(* The failures stay what they were, or one more is counted.                *)
LEMMA FailuresStep ==
  ASSUME failures.all \in Nat, failures.evidence \in Nat, [PackNext]_packVars
  PROVE  /\ failures'.all \in Nat /\ failures'.evidence \in Nat
         /\ failures.evidence > 0 => failures'.evidence > 0
<1>1. failures' = failures \/ \E p, class : Failed(p, class)
  <2>1. CASE StartQuery \/ StartProbe \/ RunnerReturned \/ UNCHANGED packVars
    <3>1. StartQuery => failures' = failures
      BY Zenon DEF StartQuery
    <3>2. StartProbe => failures' = failures
      BY Zenon DEF StartProbe
    <3>3. RunnerReturned \/ UNCHANGED packVars => failures' = failures
      BY Zenon DEF RunnerReturned, packVars
    <3>4. QED BY <2>1, <3>1, <3>2, <3>3
  <2>2. CASE PostingPage
    <3>1. \E p, class : Received(p, class) \/ Failed(p, class)
      BY <2>2, Zenon DEF PostingPage
    <3>2. QED BY <3>1 DEF Received
  <2>3. CASE SurfaceEntry
    <3>1. \E p, class : Received(p, class) \/ Failed(p, class)
      BY <2>3, Zenon DEF SurfaceEntry
    <3>2. QED BY <3>1 DEF Received
  <2>4. CASE EvidenceEntry
    <3>1. \E p, class : Received(p, class) \/ Failed(p, class)
      BY <2>4, Zenon DEF EvidenceEntry
    <3>2. QED BY <3>1 DEF Received
  <2>5. CASE ProbeEntry
    <3>1. \E p, class : Received(p, class) \/ Failed(p, class)
      BY <2>5, Zenon DEF ProbeEntry
    <3>2. QED BY <3>1 DEF Received
  <2>6. CASE HeadPage
    <3>1. \E p, class : Received(p, class) \/ Failed(p, class)
      BY <2>6, Zenon DEF HeadPage
    <3>2. QED BY <3>1 DEF Received
  <2>7. QED BY <2>1, <2>2, <2>3, <2>4, <2>5, <2>6 DEF PackNext
<1>2. CASE failures' = failures
  BY <1>2
<1>3. ASSUME NEW p, NEW class, Failed(p, class)
      PROVE  /\ failures'.all \in Nat /\ failures'.evidence \in Nat
             /\ failures.evidence > 0 => failures'.evidence > 0
  BY <1>3, FailedCounts
<1>4. QED BY <1>1, <1>2, <1>3

(* The pages of a posting list.                                             *)
LEMMA PostingPageStep ==
  ASSUME OnTheWay, PostingPage
  PROVE  Unfailed'
<1> DEFINE r == Head(query.todo)
           p == <<"index", r.page>>
           q == MissCounted(query, r.first)
<1>1. query.stage = "postings"
  BY DEF PostingPage
<1>2. CASE /\ Received(p, "postings")
           /\ query' = Taken(q, r)
  BY <1>1, <1>2, PostingPageReceived
<1>3. CASE Failed(p, "postings") /\ query' = [q EXCEPT !.stage = "failed"]
  <2>1. QueryShape(query)
    BY DEF OnTheWay, QueryOk
  <2>2. QueryShape(q)
    BY <2>1, MissesOnly
  <2> HIDE DEF q, r, p
  <2>3. query'.stage = "failed"
    BY <1>3, <2>2 DEF QueryShape, QueryFields
  <2>4. QED BY <2>3 DEF Unfailed
<1>4. \/ Received(p, "postings") /\ query' = Taken(q, r)
      \/ Failed(p, "postings") /\ query' = [q EXCEPT !.stage = "failed"]
  BY Zenon DEF PostingPage, Taken
<1>5. QED BY <1>2, <1>3, <1>4

(* The entries of the surface directory.                                    *)
LEMMA SurfaceStep ==
  ASSUME OnTheWay, SurfaceEntry
  PROVE  Unfailed'
<1> DEFINE i == Head(query.todo)
           p == <<"index", SurfacePage + ((i - 1) \div PageWords)>>
           at == ((i - 1) % PageWords) + 1
           q == AfterSurfaces([query EXCEPT !.todo = Tail(@),
                                 !.answer.entities = (@ \cup {given'.bytes[at][1]}) \ {NoEntity}])
<1>1. /\ query.stage = "surface"
      /\ \/ /\ Received(p, "surface")
            /\ query' = IF Astray(at, at) THEN [query EXCEPT !.stage = "astray"] ELSE q
         \/ Failed(p, "surface") /\ query' = [query EXCEPT !.stage = "failed"]
  BY DEF SurfaceEntry
<1>2. /\ QueryOk(query) /\ QueryShape(query) /\ SurfacesOk(query) /\ query.todo # <<>>
      /\ ExactSlots(slots)
  BY <1>1 DEF OnTheWay, QueryOk
<1>3. i \in DOMAIN Surfaces
  <2>1. query.todo \in Seq(DOMAIN Surfaces) /\ query.todo # <<>>
    BY <1>2 DEF SurfacesOk
  <2>2. QED BY <2>1
<1>4. Content[p][at] = <<Surfaces[i].entity>>
  <2> HIDE DEF i
  <2>1. QED BY <1>3, SurfaceWord
<1>5. CASE Received(p, "surface") /\ query' = IF Astray(at, at)
                                              THEN [query EXCEPT !.stage = "astray"] ELSE q
  <2> HIDE DEF p, at, q, i
  <2>1. ExactSlots(slots') /\ given'.page = p /\ given'.bytes = Content[p]
    BY <1>2, <1>5, ReceivedExact
  <2>2. given'.bytes = Content[given'.page]
    BY <2>1
  <2>3. query' = q
    BY <1>5, <2>2, NotAstray
  <2> DEFINE x == given'.bytes[at][1]
  <2>4. x = Surfaces[i].entity
    BY <1>4, <2>1
  <2>5. q = Named(query, x)
    BY DEF q, Named
  <2> HIDE DEF x
  <2>6. QueryOk(q)
    BY <1>1, <1>2, <2>4, <2>5, SurfaceEntryOk DEF i
  <2>7. QED BY <2>1, <2>3, <2>6 DEF Unfailed, OnTheWay
<1>6. CASE Failed(p, "surface") /\ query' = [query EXCEPT !.stage = "failed"]
  <2>1. query'.stage = "failed"
    BY <1>2, <1>6 DEF QueryShape, QueryFields
  <2>2. QED BY <2>1 DEF Unfailed
<1>7. QED BY <1>1, <1>5, <1>6

(* The probes of the evidence directory.                                    *)
LEMMA EvidenceStep ==
  ASSUME OnTheWay, EvidenceEntry, failures.all \in Nat, failures.evidence \in Nat
  PROVE  failures'.evidence > 0 \/ Unfailed'
<1> DEFINE at == (Middle % PageWords) + 1
           e == Head(query.todo)
           q == IF Entry.entity = e THEN CountedFor(query, Entry.count)
                ELSE IF Exhausted(Narrowed(e)) THEN CountedFor(query, 0)
                ELSE Narrowed(e)
<1>1. /\ query.stage = "evidence"
      /\ \/ /\ Received(Probed, "evidence")
            /\ query' = IF Astray(at, at) THEN [query EXCEPT !.stage = "astray"] ELSE q
         \/ Failed(Probed, "evidence")
  BY DEF EvidenceEntry
<1>2. QueryOk(query) /\ ExactSlots(slots)
  BY DEF OnTheWay
<1>3. CASE Received(Probed, "evidence")
           /\ query' = IF Astray(at, at) THEN [query EXCEPT !.stage = "astray"] ELSE q
  <2> HIDE DEF at
  <2>1. ExactSlots(slots') /\ given'.page = Probed /\ given'.bytes = Content[Probed]
    BY <1>2, <1>3, ReceivedExact
  <2>2. given'.bytes = Content[given'.page]
    BY <2>1
  <2>3. query' = q
    <3> HIDE DEF q
    <3>1. QED BY <1>3, <2>2, NotAstray
  <2>4. QueryOk(q)
    BY <1>1, <1>2, <2>1, EvidenceEntryOk
  <2> HIDE DEF q
  <2>5. QED BY <2>1, <2>3, <2>4 DEF Unfailed, OnTheWay
<1>4. CASE Failed(Probed, "evidence")
  BY <1>4, FailedCounts
<1>5. QED BY <1>1, <1>3, <1>4

(* The probe of a head leaves the answer.                                   *)
LEMMA ProbeStep ==
  ASSUME OnTheWay, StartProbe \/ ProbeEntry \/ HeadPage,
         failures.all \in Nat, failures.evidence \in Nat
  PROVE  failures'.evidence > 0 \/ Unfailed'
<1> DEFINE Answered(s) == s \in {"done", "probe", "head", "probed"}
<1>1. /\ QueryOk(query) /\ QueryShape(query) /\ ExactSlots(slots)
      /\ (Answered(query.stage) => query.answer = HostAnswer(query.grams))
  BY DEF OnTheWay, QueryOk
<1>2. ASSUME ExactSlots(slots'), QueryShape(query'), Answered(query'.stage), Answered(query.stage),
             query'.answer = query.answer, query'.grams = query.grams
      PROVE  Unfailed'
  <2>1. QueryOk(query')
    BY <1>1, <1>2 DEF QueryOk
  <2>2. QED BY <1>2, <2>1 DEF Unfailed, OnTheWay
<1>3. CASE StartProbe
  <2> DEFINE t == <<Min(query.answer.entities)>>
             d == Len(Directory) - 1
  <2>1. /\ slots' = slots /\ query.stage = "done"
        /\ query' = [query EXCEPT !.stage = "probe", !.todo = t, !.low = 0, !.high = d]
    BY <1>3 DEF StartProbe
  <2> HIDE DEF t, d
  <2>2. /\ QueryShape(query') /\ query'.stage = "probe" /\ query'.answer = query.answer
        /\ query'.grams = query.grams
    BY <1>1, <2>1 DEF QueryShape, QueryFields
  <2>3. QED BY <1>1, <1>2, <2>1, <2>2
<1>4. CASE ProbeEntry
  <2> DEFINE at == (Middle % PageWords) + 1
             e == Head(query.todo)
             t == HeadPages(Entry)
             q == IF Entry.entity = e THEN [query EXCEPT !.stage = "head", !.todo = t]
                  ELSE IF Exhausted(Narrowed(e)) THEN [query EXCEPT !.stage = "probed"]
                  ELSE Narrowed(e)
  <2>1. /\ query.stage = "probe"
        /\ \/ /\ Received(Probed, "evidence")
              /\ query' = IF Astray(at, at) THEN [query EXCEPT !.stage = "astray"] ELSE q
           \/ Failed(Probed, "evidence")
    BY <1>4 DEF ProbeEntry
  <2>2. CASE Failed(Probed, "evidence")
    BY <2>2, FailedCounts
  <2>3. CASE Received(Probed, "evidence")
             /\ query' = IF Astray(at, at) THEN [query EXCEPT !.stage = "astray"] ELSE q
    <3> HIDE DEF at, t, q
    <3>1. ExactSlots(slots') /\ given'.page = Probed /\ given'.bytes = Content[Probed]
      BY <1>1, <2>3, ReceivedExact
    <3>2. given'.bytes = Content[given'.page]
      BY <3>1
    <3>3. query' = q
      BY <2>3, <3>2, NotAstray
    <3>4. ASSUME NEW p, p \in {[query EXCEPT !.stage = "head", !.todo = t],
                               [query EXCEPT !.stage = "probed"],
                               [query EXCEPT !.low = Middle + 1],
                               [query EXCEPT !.high = Middle - 1]}
          PROVE  /\ QueryShape(p) /\ Answered(p.stage) /\ p.answer = query.answer
                 /\ p.grams = query.grams
      BY <1>1, <2>1, <3>4 DEF QueryShape, QueryFields
    <3>5. /\ QueryShape(q) /\ Answered(q.stage) /\ q.answer = query.answer
          /\ q.grams = query.grams
      BY <3>4 DEF q, Narrowed
    <3>6. QED BY <1>1, <1>2, <2>1, <3>1, <3>3, <3>5
  <2>4. QED BY <2>1, <2>2, <2>3
<1>5. CASE HeadPage
  <2> DEFINE p == Head(query.todo)
  <2>1. /\ query.stage = "head"
        /\ \/ /\ Received(p, "evidence")
              /\ query' = IF Len(query.todo) = 1 THEN [query EXCEPT !.stage = "probed"]
                                                 ELSE [query EXCEPT !.todo = Tail(@)]
           \/ Failed(p, "evidence")
    BY <1>5 DEF HeadPage
  <2> HIDE DEF p
  <2>2. CASE Failed(p, "evidence")
    BY <2>2, FailedCounts
  <2>3. CASE /\ Received(p, "evidence")
             /\ query' = IF Len(query.todo) = 1 THEN [query EXCEPT !.stage = "probed"]
                                                ELSE [query EXCEPT !.todo = Tail(@)]
    <3>1. ExactSlots(slots')
      BY <1>1, <2>3, ReceivedExact
    <3>2. /\ QueryShape(query') /\ Answered(query'.stage) /\ query'.answer = query.answer
          /\ query'.grams = query.grams
      BY <1>1, <2>1, <2>3 DEF QueryShape, QueryFields
    <3>3. QED BY <1>2, <2>1, <3>1, <3>2
  <2>4. QED BY <2>1, <2>2, <2>3
<1>6. QED BY <1>3, <1>4, <1>5

(* A step from a query on its way.                                          *)
LEMMA OnTheWayStep ==
  ASSUME OnTheWay, [PackNext]_packVars, failures.all \in Nat, failures.evidence \in Nat
  PROVE  failures'.evidence > 0 \/ Unfailed'
<1>1. CASE StartQuery
  BY <1>1, StartQueryOk
<1>2. CASE PostingPage
  BY <1>2, PostingPageStep
<1>3. CASE SurfaceEntry
  BY <1>3, SurfaceStep
<1>4. CASE EvidenceEntry
  BY <1>4, EvidenceStep
<1>5. CASE StartProbe \/ ProbeEntry \/ HeadPage
  BY <1>5, ProbeStep
<1>6. CASE RunnerReturned \/ UNCHANGED packVars
  BY <1>6 DEF RunnerReturned, packVars, Unfailed, OnTheWay
<1>7. QED BY <1>1, <1>2, <1>3, <1>4, <1>5, <1>6 DEF PackNext

(* A failed query stays so.                                                 *)
LEMMA FailedStays ==
  ASSUME query.stage = "failed", [PackNext]_packVars
  PROVE  query' = query
BY DEF PackNext, packVars, StartQuery, PostingPage, SurfaceEntry, EvidenceEntry, StartProbe,
       ProbeEntry, HeadPage, RunnerReturned

(* The invariant of the answers.                                            *)
LEMMA AnswerInvHolds == PackSpec => []AnswerInv
<1>1. PackInit => AnswerInv
  <2> SUFFICES ASSUME PackInit PROVE AnswerInv
    OBVIOUS
  <2>1. failures.all = 0 /\ failures.evidence = 0 /\ query = Idle
    BY DEF PackInit
  <2>2. QueryOk(query)
    BY <2>1 DEF QueryOk, QueryShape, QueryFields, AnswerFields, Idle, NoAnswer
  <2>3. ExactSlots(slots)
    BY DEF PackInit, pager_create, ExactSlots, EmptySlot
  <2>4. QED BY <2>1, <2>2, <2>3 DEF AnswerInv, Unfailed, OnTheWay
<1>2. AnswerInv /\ [PackNext]_packVars => AnswerInv'
  <2> SUFFICES ASSUME AnswerInv, [PackNext]_packVars PROVE AnswerInv'
    OBVIOUS
  <2>1. /\ failures.all \in Nat /\ failures.evidence \in Nat
        /\ failures.evidence > 0 \/ Unfailed
    BY DEF AnswerInv
  <2>2. /\ failures'.all \in Nat /\ failures'.evidence \in Nat
        /\ failures.evidence > 0 => failures'.evidence > 0
    BY <2>1, FailuresStep
  <2>3. failures'.evidence > 0 \/ Unfailed'
    <3>1. CASE failures.evidence > 0
      BY <2>2, <3>1
    <3>2. CASE query.stage = "failed"
      <4>1. query' = query
        BY <3>2, FailedStays
      <4>2. QED BY <3>2, <4>1 DEF Unfailed
    <3>3. CASE OnTheWay
      BY <2>1, <3>3, OnTheWayStep
    <3>4. QED BY <2>1, <3>1, <3>2, <3>3 DEF Unfailed
  <2>4. QED BY <2>2, <2>3 DEF AnswerInv
<1>3. QED BY <1>1, <1>2, PTL DEF PackSpec

(* Whatever the cache size, the pages evicted on the way and the failures   *)
(* of other reads, an answer of idx_query_address is the one the host       *)
(* exports for the query - its candidates, its distinct entities and their  *)
(* occurrences - and no query is handed words of another page, unless the   *)
(* read of an evidence page has failed.                                     *)
THEOREM AnswersAreTheHosts == PackSpec => []DeviationNeedsEvidenceFailure
<1>1. AnswerInv => DeviationNeedsEvidenceFailure
  <2> SUFFICES ASSUME AnswerInv, ~(failures.evidence > 0)
               PROVE  DeviationNeedsEvidenceFailure
    BY DEF DeviationNeedsEvidenceFailure
  <2>1. query.stage = "failed" \/ QueryOk(query)
    BY DEF AnswerInv, Unfailed, OnTheWay
  <2>2. QED BY <2>1 DEF DeviationNeedsEvidenceFailure, QueryOk
<1>2. QED BY <1>1, AnswerInvHolds, PTL

=============================================================================
