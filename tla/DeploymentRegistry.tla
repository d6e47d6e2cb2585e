------------------------- MODULE DeploymentRegistry -------------------------
(***************************************************************************)
(* DeploymentPackRegistry of agent/knowledge.py: the other registry of     *)
(* active packs.  Its temporary file has one fixed name, so two commands   *)
(* that overlap write one file: open(..., "w") empties the file the name   *)
(* refers to, os.replace gives it to active-packs.json while another       *)
(* command may still hold it open.                                         *)
(*                                                                         *)
(* A file is known by a number, as by an inode; a name refers to a file or *)
(* to none (0).  Processes do not die here and the power is not cut.       *)
(***************************************************************************)
EXTENDS Integers, FiniteSets

CONSTANTS
  Process,       \* overlapping callers
  Key,           \* pack_id
  Manifest,      \* manifests that validate accepts
  KeyOf,         \* manifest -> pack_id
  Lineage,       \* manifest -> the manifests its update_lineage names
  NoPack,
  MaxWrites      \* model bound: commands begun

VARIABLES
  contents,      \* file -> what it holds
  index,         \* the file active-packs.json names
  temporary,     \* the file active-packs.json.tmp names
  step,          \* process -> its command
  writes         \* commands begun

deploymentVars == <<contents, index, temporary, step, writes>>

(* Files: enough for the two names and every process's open file.           *)
Inode == 1 .. Cardinality(Process) + 3

Partial == [partial |-> TRUE]
NothingActive == [k \in Key |-> NoPack]
Ready == [at |-> "ready", new |-> NothingActive, open |-> 0]

DeploymentInit ==
  /\ contents = [i \in Inode |-> Partial]
  /\ index = 0 /\ temporary = 0
  /\ step = [p \in Process |-> Ready]
  /\ writes = 0

Active == IF index = 0 THEN NothingActive ELSE contents[index]

(* add refuses an active pack_id, update one that is not active or whose    *)
(* active manifest its lineage does not name, remove one that is not active.*)
Added(m) ==
  IF Active[KeyOf[m]] = NoPack THEN {[Active EXCEPT ![KeyOf[m]] = m]} ELSE {}
Updated(m) ==
  IF Active[KeyOf[m]] \in Lineage[m] THEN {[Active EXCEPT ![KeyOf[m]] = m]} ELSE {}
Removed(m) ==
  IF Active[KeyOf[m]] # NoPack THEN {[Active EXCEPT ![KeyOf[m]] = NoPack]} ELSE {}

(* validate and _active; an index that does not parse raises.               *)
Compute(p) ==
  /\ step[p].at = "ready" /\ writes < MaxWrites
  /\ Active # Partial
  /\ \E m \in Manifest : \E new \in Added(m) \cup Updated(m) \cup Removed(m) :
        step' = [step EXCEPT ![p].at = "computed", ![p].new = new]
  /\ writes' = writes + 1
  /\ UNCHANGED <<contents, index, temporary>>

(* _commit: write_text opens, which creates the file or empties it, and     *)
(* writes; os.replace moves the name.                                       *)
Used == {index, temporary} \cup {step[q].open : q \in Process}

OpenTemporary(p) ==
  /\ step[p].at = "computed"
  /\ \E i \in IF temporary = 0 THEN Inode \ Used ELSE {temporary} :
        /\ temporary' = i
        /\ contents' = [contents EXCEPT ![i] = Partial]
        /\ step' = [step EXCEPT ![p].at = "opened", ![p].open = i]
  /\ UNCHANGED <<index, writes>>

WriteText(p) ==
  /\ step[p].at = "opened"
  /\ contents' = [contents EXCEPT ![step[p].open] = step[p].new]
  /\ step' = [step EXCEPT ![p].at = "closed", ![p].open = 0]
  /\ UNCHANGED <<index, temporary, writes>>

ReplaceIndex(p) ==
  /\ step[p].at = "closed" /\ temporary # 0
  /\ index' = temporary /\ temporary' = 0
  /\ step' = [step EXCEPT ![p] = Ready]
  /\ UNCHANGED <<contents, writes>>

(* The temporary is gone: os.replace raises FileNotFoundError.              *)
ReplaceRaises(p) ==
  /\ step[p].at = "closed" /\ temporary = 0
  /\ step' = [step EXCEPT ![p] = Ready]
  /\ UNCHANGED <<contents, index, temporary, writes>>

DeploymentNext ==
  \E p \in Process :
     \/ Compute(p) \/ OpenTemporary(p) \/ WriteText(p)
     \/ ReplaceIndex(p) \/ ReplaceRaises(p)

DeploymentSpec == DeploymentInit /\ [][DeploymentNext]_deploymentVars

----------------------------------------------------------------------------
(* "Atomically activates mounted immutable packs" (knowledge.py:143): the   *)
(* index is never seen with a registry written in part.                     *)
ActivatesAtomically == index # 0 => contents[index] # Partial
=============================================================================
