-------------------------- MODULE MCNativeProgress --------------------------
(* Records for TLC: a failing action repeated, another error, another       *)
(* action, a success, progress on obligations and on the totals.            *)
EXTENDS NativeProgress

None == [c \in Counter |-> 0]
R(action, error, open, completed, added) ==
  [action |-> action, error |-> error, open |-> open, completed |-> completed,
   verifier |-> completed, added |-> added]

MCRecords ==
  { R(1, 1, 1, 0, None),
    R(1, 2, 1, 0, None),
    R(2, 1, 1, 0, None),
    R(1, 0, 1, 0, None),
    R(1, 1, 0, 1, None),
    R(1, 1, 1, 0, [None EXCEPT !["evidence"] = 2]) }
=============================================================================
