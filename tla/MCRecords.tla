----------------------------- MODULE MCRecords ------------------------------
(***************************************************************************)
(* Three machines that share no state: the candidate workspace and the     *)
(* progress record of the portable runtime, and the review journal.  As in *)
(* MCSingles, the first state says which one moves.  The liveness          *)
(* properties are checked here, beside small machines, because TLC checks  *)
(* them on the graph of the whole run.                                     *)
(***************************************************************************)
EXTENDS MCNativeWorkspace, MCNativeProgress, ReviewJournal

VARIABLE recording
recordsVars == <<vars, progressVars, journalVars, recording>>

MCSeparated == {2}

RecordsInit ==
  /\ recording \in {"workspace", "progress", "reviews"}
  /\ Init /\ ProgressInit /\ JournalInit

RecordsNext ==
  /\ UNCHANGED recording
  /\ \/ /\ recording = "workspace" /\ Next
        /\ UNCHANGED <<progressVars, journalVars>>
     \/ /\ recording = "progress" /\ ProgressNext
        /\ UNCHANGED <<vars, journalVars>>
     \/ /\ recording = "reviews" /\ JournalNext
        /\ UNCHANGED <<vars, progressVars>>

(* The workspace's fairness, while it is the machine that moves; a review   *)
(* step is only enabled once a request has come.                            *)
RecordsSpec ==
  /\ RecordsInit /\ [][RecordsNext]_recordsVars
  /\ WF_vars(recording = "workspace" /\ UnionStep)
  /\ WF_vars(recording = "workspace" /\ Execute)
  /\ JournalFairness
=============================================================================
