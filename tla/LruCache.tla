------------------------------ MODULE LruCache ------------------------------
(***************************************************************************)
(* What a page cache promises: the ordered dictionary with which the host  *)
(* reference counts page reads (PagedPostingIndex.query in                 *)
(* edge_runtime/layout.py).  A page that is asked for becomes the most     *)
(* recent one; when there are too many the least recent one leaves.        *)
(***************************************************************************)
EXTENDS Integers, SequencesExt

CONSTANTS
  Page      \* pages that may be asked for

VARIABLES
  capacity, \* cache_pages
  recency,  \* _cache: resident pages, the most recent last
  request,  \* page, the last one asked for
  hits, misses

vars == <<capacity, recency, request, hits, misses>>

Init ==
  /\ capacity \in Nat
  /\ request \in Page
  /\ recency = <<>> /\ hits = 0 /\ misses = 0

Resident == {recency[i] : i \in 1 .. Len(recency)}

(* move_to_end                                                              *)
Hit(p) ==
  /\ \E i \in 1 .. Len(recency) :
       /\ recency[i] = p
       /\ recency' = Append(RemoveAt(recency, i), p)
  /\ request' = p
  /\ hits' = hits + 1
  /\ UNCHANGED <<capacity, misses>>

Miss(p) ==
  /\ p \notin Resident
  /\ request' = p
  /\ recency' = LET all == Append(recency, p)
                IN IF capacity = 0 THEN recency
                   ELSE IF Len(all) > capacity THEN Tail(all) ELSE all
  /\ misses' = misses + 1
  /\ UNCHANGED <<capacity, hits>>

(* The reference has no media; on the device a read may fail, and then it   *)
(* is a miss that leaves the cache as it was.                               *)
FailedMiss(p) ==
  /\ p \notin Resident
  /\ request' = p
  /\ misses' = misses + 1
  /\ UNCHANGED <<capacity, recency, hits>>

Next == \E p \in Page : Hit(p) \/ Miss(p) \/ FailedMiss(p)

Spec == Init /\ [][Next]_vars
=============================================================================
