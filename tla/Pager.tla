-------------------------------- MODULE Pager --------------------------------
(***************************************************************************)
(* The page cache of the ESP32-P4 firmware (pager_page and the pager life  *)
(* cycle in p4_qualification/main/pack_io.cpp): an array of slots with     *)
(* usage ticks, filled by reads that may fail half way.                    *)
(***************************************************************************)
EXTENDS Integers, Sequences, FiniteSets

CONSTANTS
  Page,       \* (region, page number) pairs
  PageZero,   \* page 0 of region 0, what calloc leaves in a slot
  Content,    \* what the media holds: for each page its words
  Garbage,    \* the word of memory that was never written
  PageWords,  \* words of a page (4096 bytes)
  Class,      \* request classes: postings, surface, evidence, other
  Capacities  \* the sizes, in pages, pagers are created with

ASSUME PagerAssumption ==
  /\ PageWords \in Nat \ {0}
  /\ Capacities \subseteq Nat
  /\ PageZero \in Page
  /\ \A p \in Page : DOMAIN Content[p] = 1 .. PageWords

VARIABLES
  slots,    \* slot_valid, slot_page with slot_region, slot_tick and store, per slot
  tick,
  stats,    \* PagerStats: hits and misses, and requests and misses by class
  given,    \* the last request: its page and, when it was found, the bytes handed out
  torn      \* history: slots into which the last read failed

pagerVars == <<slots, tick, stats, given, torn>>

NoPage(p) == [found |-> FALSE, page |-> p]
NoneCounted == [c \in Class |-> 0]
EmptySlot ==
  [valid |-> FALSE, page |-> PageZero, tick |-> 0, bytes |-> [i \in 1 .. PageWords |-> Garbage]]

(* pager_create: calloc clears the flags, malloc leaves the store as it is. *)
pager_create ==
  /\ \E capacity \in Capacities : slots = [s \in 1 .. capacity |-> EmptySlot]
  /\ tick = 0
  /\ stats = [hits |-> 0, misses |-> 0, pages |-> NoneCounted, missed |-> NoneCounted]
  /\ given = NoPage(PageZero)
  /\ torn = {}

Holding(p) == {s \in DOMAIN slots : slots[s].valid /\ slots[s].page = p}
Unused == {s \in DOMAIN slots : ~slots[s].valid}
OldestOf(S) == {s \in S : \A t \in S : slots[s].tick <= slots[t].tick}
Lowest(S) == CHOOSE s \in S : \A t \in S : s <= t

(* The first unused slot, else the slot used longest ago.                   *)
Victim == Lowest(IF Unused # {} THEN Unused ELSE OldestOf(DOMAIN slots))

Counted(class, missed) ==
  [stats EXCEPT !.pages[class] = @ + 1,
                !.missed[class] = IF missed THEN @ + 1 ELSE @,
                !.hits = IF missed THEN @ ELSE @ + 1,
                !.misses = IF missed THEN @ + 1 ELSE @]

InUse(p, at, bytes) == [valid |-> TRUE, page |-> p, tick |-> at, bytes |-> bytes]

(* A cached page is handed out of its slot and becomes the most recent one. *)
HitUntouched(p, class) ==                        \* mutant: first in, first out
  \E s \in Holding(p) :
    /\ s = Lowest(Holding(p))
    /\ given' = [found |-> TRUE, page |-> p, bytes |-> slots[s].bytes]
    /\ stats' = Counted(class, FALSE)
    /\ UNCHANGED <<slots, tick, torn>>
Hit(p, class) ==
  \E s \in Holding(p) :
    /\ s = Lowest(Holding(p))
    /\ tick' = tick + 1
    /\ slots' = [slots EXCEPT ![s] = InUse(p, tick + 1, slots[s].bytes)]
    /\ given' = [found |-> TRUE, page |-> p, bytes |-> slots[s].bytes]
    /\ stats' = Counted(class, FALSE)
    /\ UNCHANGED torn

LoadedLate(p) == InUse(p, tick, Content[p])      \* mutant: tick++ for ++tick
Loaded(p) == InUse(p, tick + 1, Content[p])

(* A miss reads into the victim; without slots, into one shared page that   *)
(* the caller has copied from before the next request.                      *)
Fill(p, class) ==
  /\ Holding(p) = {}
  /\ IF DOMAIN slots = {}
     THEN UNCHANGED <<slots, tick, torn>>
     ELSE /\ tick' = tick + 1
          /\ slots' = [slots EXCEPT ![Victim] = Loaded(p)]
          /\ torn' = torn \ {Victim}
  /\ given' = [found |-> TRUE, page |-> p, bytes |-> Content[p]]
  /\ stats' = Counted(class, TRUE)

(* region_read gives up after n words: the victim's bytes are overwritten   *)
(* that far, its page, flag and tick are as before, and the caller gets     *)
(* no page.                                                                 *)
Overwritten(slot, p, n) ==
  [valid |-> slot.valid, page |-> slot.page, tick |-> slot.tick,
   bytes |-> [i \in 1 .. PageWords |-> IF i <= n THEN Content[p][i] ELSE slot.bytes[i]]]
FailedRead(p, class, n) ==
  /\ Holding(p) = {}
  /\ IF DOMAIN slots = {}
     THEN UNCHANGED <<slots, torn>>
     ELSE /\ slots' = [slots EXCEPT ![Victim] = Overwritten(slots[Victim], p, n)]
          /\ torn' = torn \cup {Victim}
  /\ given' = NoPage(p)
  /\ stats' = Counted(class, TRUE)
  /\ UNCHANGED tick

(* pager_page                                                               *)
pager_page(p, class) == Hit(p, class) \/ Fill(p, class)

PagerNext ==
  \E p \in Page, class \in Class :
    \/ pager_page(p, class)
    \/ \E n \in 0 .. PageWords - 1 : FailedRead(p, class, n)

PagerSpec == pager_create /\ [][PagerNext]_pagerVars

----------------------------------------------------------------------------
(* Every slot has its four fields.                                          *)
PagerTypeOK ==
  /\ \E n \in Nat : DOMAIN slots = 1 .. n
  /\ slots = [s \in DOMAIN slots |->
       [valid |-> slots[s].valid, page |-> slots[s].page,
        tick |-> slots[s].tick, bytes |-> slots[s].bytes]]
  /\ \A s \in DOMAIN slots :
       slots[s].valid \in BOOLEAN /\ slots[s].page \in Page /\ slots[s].tick \in Nat
  /\ tick \in Nat
  /\ torn \subseteq DOMAIN slots

(* Slots in use hold different pages at different ticks, none later than    *)
(* now, so a page is found in one slot and eviction has one candidate; and  *)
(* the bytes of a slot are those of its page unless the last read into it   *)
(* failed.                                                                  *)
PagerConsistent ==
  /\ \A s, t \in DOMAIN slots :
       slots[s].valid /\ slots[t].valid /\ s # t =>
         slots[s].page # slots[t].page /\ slots[s].tick # slots[t].tick
  /\ \A s \in DOMAIN slots : slots[s].valid =>
       /\ slots[s].tick \in 1 .. tick
       /\ s \notin torn => slots[s].bytes = Content[slots[s].page]

(* "Read one 4 KiB page (page_no * 4096 relative to the region file)"       *)
(* (pack_io.h:68): the bytes handed out for a page are that page's.         *)
GivenPageIsExact == given.found => given.bytes = Content[given.page]

(* "a PSRAM-backed LRU page cache with reference-compatible accounting"     *)
(* (pack_io.h:4-5): for every cache size the slots in the order of their    *)
(* ticks, and the counted hits and misses, are those of the ordered         *)
(* dictionary of the host reference; a failed read counts as a miss.        *)
InUseSlots == {s \in DOMAIN slots : slots[s].valid}
Recency ==
  LET order == CHOOSE f \in [1 .. Cardinality(InUseSlots) -> InUseSlots] :
                 \A i, j \in DOMAIN f : i < j => slots[f[i]].tick < slots[f[j]].tick
  IN [i \in 1 .. Cardinality(InUseSlots) |-> slots[order[i]].page]
LruReference ==
  INSTANCE LruCache WITH capacity <- Cardinality(DOMAIN slots),
    recency <- Recency, request <- given.page, hits <- stats.hits, misses <- stats.misses
ImplementsReference == LruReference!Spec

=============================================================================
