----------------------------- MODULE ActiveSet ------------------------------
(***************************************************************************)
(* What an "atomic active-set registry" (edge_runtime/packs.py) promises.  *)
(* There is one active set at any time, with at most one pack per          *)
(* namespace.  A command takes one look at it and changes it at one        *)
(* instant to what it makes of what it saw.  Once a command has returned,  *)
(* a power cut no longer undoes its change.  Commands are not isolated:    *)
(* of two that overlap, the later one may put back what the earlier one    *)
(* removed or replaced.                                                    *)
(***************************************************************************)
EXTENDS Integers

CONSTANTS
  User,         \* callers that may overlap
  Pack,
  Namespace,
  NamespaceOf,  \* pack -> its source_namespace
  NoPack

VARIABLES
  active,       \* [generation, packs : namespace -> pack or NoPack]
  kept,         \* what a power cut may leave of it
  task          \* user -> its command: what it is to do, what it saw, how far

vars == <<active, kept, task>>

Empty == [generation |-> 0, packs |-> [n \in Namespace |-> NoPack]]
NoTask == [stage |-> "idle", does |-> "activate", pack |-> NoPack, saw |-> Empty]

Init ==
  /\ active = Empty /\ kept = {Empty}
  /\ task = [u \in User |-> NoTask]

(* A pack takes the place of its namespace's pack, or leaves it free.       *)
Changed(set, does, p) ==
  [generation |-> set.generation + 1,
   packs |-> [set.packs EXCEPT ![NamespaceOf[p]] =
                IF does = "activate" THEN p ELSE NoPack]]

Look(u) ==
  /\ task[u].stage = "idle"
  /\ \E p \in Pack, does \in {"activate", "deactivate"} :
        /\ does = "deactivate" => active.packs[NamespaceOf[p]] = p
        /\ task' = [task EXCEPT ![u] =
             [stage |-> "looked", does |-> does, pack |-> p, saw |-> active]]
  /\ UNCHANGED <<active, kept>>

Change(u) ==
  /\ task[u].stage = "looked"
  /\ active' = Changed(task[u].saw, task[u].does, task[u].pack)
  /\ kept' = kept \cup {active'}
  /\ task' = [task EXCEPT ![u].stage = "changed"]

Settle(u) ==
  /\ task[u].stage = "changed"
  /\ kept' = {active}
  /\ task' = [task EXCEPT ![u].stage = "settled"]
  /\ UNCHANGED active

Ends(u) == task' = [task EXCEPT ![u] = NoTask] /\ UNCHANGED <<active, kept>>

(* Only a settled command returns; a command may fail at any time, with its *)
(* change made or not.                                                      *)
Return(u) == task[u].stage = "settled" /\ Ends(u)
Fail(u) == task[u].stage \in {"looked", "changed"} /\ Ends(u)

PowerCut ==
  /\ active' \in kept /\ kept' = {active'}
  /\ task' = [u \in User |-> NoTask]

Next ==
  \/ \E u \in User : Look(u) \/ Change(u) \/ Settle(u) \/ Return(u) \/ Fail(u)
  \/ PowerCut

Spec == Init /\ [][Next]_vars
=============================================================================
