--------------------------- MODULE NativeProgress ---------------------------
(***************************************************************************)
(* Progress accounting of the portable runtime: ac_progress_record_v1      *)
(* (native/aethercore_runtime/src/aethercore_runtime.cpp) next to          *)
(* Progress.record of the Python reference the native build is compared    *)
(* with (edge_runtime/native_v14.py).  Both receive the same records; the  *)
(* C structure has 16-bit counters and a 32-bit call counter in            *)
(* reserved[0], the Python fields are unbounded integers.                  *)
(***************************************************************************)
EXTENDS Integers, Sequences

CONSTANTS
  Max16,           \* largest uint16_t (65535)
  Max32,           \* largest uint32_t, the width of reserved[0]
  StagnationLimit, \* cycles before AC_PROGRESS_STAGNATED is set (3)
  Records,         \* the records callers make (see RecordType)
  MaxRecords       \* model bound: records made

Counter == {"evidence", "hypothesis", "frontier", "rollback"}
U16 == 0 .. Max16

(* Actions and error signatures are numbers; signature 0 means no error.    *)
RecordType ==
  [action : Nat, error : Nat, open : U16, completed : U16,
   verifier : U16, added : [Counter -> U16]]

ASSUME ProgressAssumption ==
  /\ Max16 \in Nat /\ Max32 \in Nat \ {0}
  /\ StagnationLimit \in 1 .. Max16
  /\ Records \subseteq RecordType
  /\ MaxRecords \in Nat

VARIABLES
  native,     \* ac_progress_v1
  reference,  \* the Python Progress object
  history     \* the records made so far

progressVars == <<native, reference, history>>

Zero ==
  [open |-> 0, completed |-> 0, added |-> [c \in Counter |-> 0],
   repeated |-> 0, verifier |-> 0, error |-> 0, cycles |-> 0,
   stagnated |-> FALSE, last_action |-> 0, calls |-> 0]

ProgressInit == native = Zero /\ reference = Zero /\ history = <<>>

----------------------------------------------------------------------------
Wrap(n, max) == n % (max + 1)
Saturate(n) == IF n > Max16 THEN Max16 ELSE n

IsRepeat(p, r) ==
  /\ p.calls # 0
  /\ p.last_action = r.action
  /\ r.error # 0
  /\ p.error = r.error

MadeProgress(p, r) ==
  \/ r.completed > p.completed
  \/ r.open < p.open
  \/ \E c \in Counter : r.added[c] # 0

Sum(old, add) == Saturate(old + add)

CyclesPastLimit(n) == n > StagnationLimit        \* mutant: off by one
CyclesReached(n) == n >= StagnationLimit

(* What both implementations do; they differ in how the repeated counter    *)
(* and the call counter grow.                                               *)
Recorded(p, r, repeated, calls) ==
  LET stuck == IsRepeat(p, r) /\ ~MadeProgress(p, r)
      cycles == IF stuck THEN Saturate(p.cycles + 1) ELSE 0
  IN [open |-> r.open, completed |-> r.completed,
      added |-> [c \in Counter |-> Sum(p.added[c], r.added[c])],
      repeated |-> IF IsRepeat(p, r) THEN repeated ELSE p.repeated,
      verifier |-> r.verifier, error |-> r.error,
      cycles |-> cycles,
      stagnated |-> stuck /\ (p.stagnated \/ CyclesReached(cycles)),
      last_action |-> r.action,
      calls |-> calls]

(* ++repeated_action_count and ++reserved[0] wrap.                          *)
NativeRecordUncounted(p, r) ==                   \* mutant: reserved[0] kept
  Recorded(p, r, Wrap(p.repeated + 1, Max16), p.calls)
NativeRecord(p, r) ==
  Recorded(p, r, Wrap(p.repeated + 1, Max16), Wrap(p.calls + 1, Max32))
(* min(0xFFFF, ...) on the repeated counter, an unbounded call counter.     *)
ReferenceRecord(p, r) ==
  Recorded(p, r, Saturate(p.repeated + 1), p.calls + 1)

Record(r) ==
  /\ Len(history) < MaxRecords
  /\ native' = NativeRecord(native, r)
  /\ reference' = ReferenceRecord(reference, r)
  /\ history' = Append(history, r)

ProgressNext == \E r \in Records : Record(r)

ProgressSpec == ProgressInit /\ [][ProgressNext]_progressVars

----------------------------------------------------------------------------
(* Properties                                                               *)

(* Until the call counter wraps, AC_PROGRESS_STAGNATED is set exactly when  *)
(* the last records repeat one failing action and none of them made         *)
(* progress: StagnationLimit + 1 records with one action and one error, no  *)
(* obligation closed and nothing new after the first.                       *)
StuckFrom(k) ==
  \A i \in k + 1 .. Len(history) :
    /\ history[i].action = history[k].action
    /\ history[i].error = history[k].error /\ history[i].error # 0
    /\ history[i].completed <= history[i - 1].completed
    /\ history[i].open >= history[i - 1].open
    /\ \A c \in Counter : history[i].added[c] = 0
StagnatedIffStuck ==
  Len(history) <= Max32 =>
    native.stagnated =
      (Len(history) > StagnationLimit /\ StuckFrom(Len(history) - StagnationLimit))

(* The native structure equals the reference until a counter that only the  *)
(* reference bounds, or only C bounds, leaves its range.                    *)
AgreesWithinRange ==
  (Len(history) <= Max32 /\ reference.repeated < Max16) => native = reference

(* "Bit-exact Python reference for the additive V14 cognitive native ABI"   *)
(* (native_v14.py:1): as long as the call counter is in range, the packed   *)
(* counters of both implementations are equal.                              *)
BitExact == Len(history) <= Max32 => native = reference

============================================================================
