------------------------------- MODULE Corpus -------------------------------
(***************************************************************************)
(* The acquisition of the official dump (real_corpus/acquisition.py) and   *)
(* the build of a pack from it (real_corpus/builder.py), as the two        *)
(* scripts of the reproduction recipe run them: one run of each at a time, *)
(* any number of times.                                                    *)
(*                                                                         *)
(* A file is Absent or a sequence of blocks.  The official archive is the  *)
(* blocks 1 .. Blocks in order, which is what its hashes stand for; 0 is a *)
(* block of wrong bytes.  A mishap is something the scripts do not decide: *)
(* the server fails, ignores the range, sends too little or wrong bytes, a *)
(* process dies, the disk garbles a page, the power is cut.  Nothing is    *)
(* ever synced, so a power cut may shorten or garble any of the files.     *)
(***************************************************************************)
EXTENDS Integers, Sequences

CONSTANTS
  Absent,      \* no such file
  Blocks,      \* size of the official archive
  Needed,      \* blocks of it that hold the first article_limit pages
  Retries,     \* retries of one acquisition
  MaxMishaps   \* model bound

ASSUME CorpusAssumption ==
  /\ Blocks \in Nat \ {0} /\ Needed \in 1 .. Blocks
  /\ Retries \in Nat /\ MaxMishaps \in Nat
  /\ Absent \notin Seq(0 .. Blocks)

VARIABLES
  archive,    \* the dump under its own name
  part,       \* the dump's .part
  fetch,      \* the acquisition (see Fetch)
  pack,       \* the pack under its own name
  building,   \* the pack's .building
  manifest,   \* the pack the manifest describes
  making,     \* where the build is
  mishaps,    \* mishaps so far
  spoiled,    \* history: wrong bytes came in or the power was cut
  powerCut    \* history: the power was cut

dumpVars == <<archive, part, fetch>>
buildVars == <<pack, building, manifest, making>>
corpusVars == <<dumpVars, buildVars, mishaps, spoiled, powerCut>>

Upto(n) == [i \in 1 .. n |-> i]
Size(file) == IF file = Absent THEN 0 ELSE Len(file)

(* _verify: byte count and hashes.                                          *)
VerifiedBySize(file) == Len(file) = Blocks       \* mutant: hashes left out
Verified(file) == file = Upto(Blocks)

(* Where the acquisition is, its attempt, the server's faults in this run   *)
(* and how many blocks of the archive this answer has sent or skipped.      *)
Fetch(place, attempt, faults) ==
  [at |-> place, attempt |-> attempt, faults |-> faults, sent |-> 0]

CorpusInit ==
  /\ archive = Absent /\ part = Absent
  /\ pack = Absent /\ building = Absent /\ manifest = Absent
  /\ fetch = Fetch("idle", 0, 0)
  /\ making = "idle"
  /\ mishaps = 0 /\ spoiled = FALSE /\ powerCut = FALSE

Fetching(place) == fetch.at = place
FetchGoes(place) == fetch' = [fetch EXCEPT !.at = place]
Mishap == mishaps < MaxMishaps /\ mishaps' = mishaps + 1
NoMishap == UNCHANGED <<mishaps, spoiled, powerCut>>

(* os.replace of the .part by the archive's name, and the result.           *)
InstallPart ==
  archive' = part /\ part' = Absent /\ FetchGoes("returned")

----------------------------------------------------------------------------
(* acquire_dump: an archive that is there is verified, and so is a .part of *)
(* the full size; a longer one is refused.                                  *)
FetchEntered == fetch.at \in {"idle", "returned", "failed"}
FetchStart ==
  /\ FetchEntered
  /\ \/ /\ archive # Absent
        /\ fetch' = Fetch(IF Verified(archive) THEN "returned" ELSE "failed", 0, 0)
        /\ UNCHANGED <<archive, part>>
     \/ /\ archive = Absent /\ Size(part) >= Blocks
        /\ IF Size(part) = Blocks /\ Verified(part)
           THEN /\ archive' = part /\ part' = Absent
                /\ fetch' = Fetch("returned", 0, 0)
           ELSE /\ fetch' = Fetch("failed", 0, 0)
                /\ UNCHANGED <<archive, part>>
     \/ /\ archive = Absent /\ Size(part) < Blocks
        /\ fetch' = Fetch("asking", 0, 0)
        /\ UNCHANGED <<archive, part>>
  /\ NoMishap /\ UNCHANGED buildVars

(* The except clause: the next attempt, or the error is raised.             *)
Retried(faults) ==
  /\ fetch' = IF fetch.attempt >= Retries
              THEN Fetch("failed", fetch.attempt, faults)
              ELSE Fetch("asking", fetch.attempt + 1, faults)
  /\ UNCHANGED <<archive, part>>

(* The server does not answer, or answers 200 to a Range request.           *)
FetchRefused ==
  /\ Fetching("asking") /\ Size(part) < Blocks
  /\ Mishap /\ Retried(fetch.faults + 1)
  /\ UNCHANGED <<spoiled, powerCut, buildVars>>

(* A range that begins at or past the end is answered 416.                  *)
FetchPastEnd ==
  /\ Fetching("asking") /\ Size(part) >= Blocks
  /\ Retried(fetch.faults)
  /\ NoMishap /\ UNCHANGED buildVars

(* The answer comes; the .part is opened for appending, or anew.            *)
OpenAnew(file) == <<>>                           \* mutant: always "wb"
OpenPart(file) == IF Size(file) > 0 THEN file ELSE <<>>
FetchAnswered ==
  /\ Fetching("asking") /\ Size(part) < Blocks
  /\ part' = OpenPart(part)
  /\ fetch' = [fetch EXCEPT !.at = "receiving", !.sent = Size(part)]
  /\ NoMishap /\ UNCHANGED <<archive, buildVars>>

(* The body from the offset asked for, block by block, some of them wrong   *)
(* or beyond the end.                                                       *)
Receiving(file) ==
  /\ Fetching("receiving") /\ part' = file
  /\ fetch' = [fetch EXCEPT !.sent = @ + 1]
FetchBlock ==
  /\ fetch.sent < Blocks /\ Receiving(Append(part, fetch.sent + 1))
  /\ NoMishap /\ UNCHANGED <<archive, buildVars>>

FetchWrongBlock ==
  /\ fetch.sent <= Blocks /\ Receiving(Append(part, 0))
  /\ Mishap /\ spoiled' = TRUE
  /\ UNCHANGED <<archive, powerCut, buildVars>>

FetchBodyEnds ==
  /\ Fetching("receiving") /\ fetch.sent >= Blocks
  /\ FetchGoes("checking")
  /\ NoMishap /\ UNCHANGED <<archive, part, buildVars>>

(* The body ends early, as if complete, or the connection breaks.           *)
FetchBodyShort ==
  /\ Fetching("receiving") /\ fetch.sent < Blocks
  /\ Mishap
  /\ \/ /\ fetch' = [fetch EXCEPT !.at = "checking", !.faults = @ + 1]
        /\ UNCHANGED <<archive, part>>
     \/ Retried(fetch.faults + 1)
  /\ UNCHANGED <<spoiled, powerCut, buildVars>>

(* A .part that verifies is installed; a mismatch is an error like others.  *)
FetchCheck ==
  /\ Fetching("checking")
  /\ IF Verified(part) THEN InstallPart ELSE Retried(fetch.faults)
  /\ NoMishap /\ UNCHANGED buildVars

----------------------------------------------------------------------------
(* build_pack refuses a pack that is there, and starts its .building anew.  *)
BuildStart ==
  /\ making \in {"idle", "done", "failed", "refused"}
  /\ IF pack # Absent
     THEN making' = "refused" /\ UNCHANGED building
     ELSE making' = "inserting" /\ building' = <<>>
  /\ NoMishap /\ UNCHANGED <<dumpVars, pack, manifest>>

(* Pages are inserted while the dump is decompressed, which raises at a     *)
(* wrong block; a dump without enough pages is refused.                     *)
InsertPages ==
  /\ making = "inserting" /\ Len(building) < Needed
  /\ LET next == Len(building) + 1
         fits == archive # Absent /\ next <= Size(archive) /\ archive[next] = next
     IN  IF fits THEN building' = Append(building, next) /\ UNCHANGED making
                 ELSE making' = "failed" /\ UNCHANGED building
  /\ NoMishap /\ UNCHANGED <<dumpVars, pack, manifest>>

(* The disk garbles a page of the database.                                 *)
PageGarbled ==
  /\ making = "inserting" /\ Mishap
  /\ \E i \in 1 .. Len(building) : building' = [building EXCEPT ![i] = 0]
  /\ UNCHANGED <<dumpVars, pack, manifest, making, spoiled, powerCut>>

(* The integrity checks, then the replacement by the pack's name.           *)
CheckPack ==
  /\ making = "inserting" /\ Len(building) = Needed
  /\ making' = IF building = Upto(Needed) THEN "checked" ELSE "failed"
  /\ NoMishap /\ UNCHANGED <<dumpVars, pack, building, manifest>>

ActivatePack ==
  /\ making = "checked"
  /\ pack' = building /\ building' = Absent /\ making' = "activated"
  /\ NoMishap /\ UNCHANGED <<dumpVars, manifest>>

(* The pack is hashed and the script writes the manifest.                   *)
DescribePack ==
  /\ making = "activated"
  /\ manifest' = pack /\ making' = "done"
  /\ NoMishap /\ UNCHANGED <<dumpVars, pack, building>>

----------------------------------------------------------------------------
(* A script dies; what it wrote stays.                                      *)
Died ==
  /\ Mishap
  /\ \/ ~FetchEntered /\ FetchGoes("idle") /\ UNCHANGED making
     \/ /\ making \in {"inserting", "checked", "activated"}
        /\ making' = "idle" /\ UNCHANGED fetch
  /\ UNCHANGED <<archive, part, pack, building, manifest, spoiled, powerCut>>

(* What may be left of a file: a part of it, or a block gone wrong.         *)
Remains(file) ==
  IF file = Absent THEN {Absent}
  ELSE {SubSeq(file, 1, n) : n \in 0 .. Len(file)}
       \cup {[file EXCEPT ![n] = 0] : n \in 1 .. Len(file)}

PowerCut ==
  /\ Mishap /\ spoiled' = TRUE /\ powerCut' = TRUE
  /\ archive' \in Remains(archive) /\ part' \in Remains(part)
  /\ pack' \in Remains(pack) /\ building' \in Remains(building)
  /\ FetchGoes("idle") /\ making' = "idle"
  /\ UNCHANGED manifest

FetchNext ==
  \/ FetchStart \/ FetchRefused \/ FetchPastEnd \/ FetchAnswered
  \/ FetchBlock \/ FetchWrongBlock \/ FetchBodyEnds \/ FetchBodyShort \/ FetchCheck
BuildNext ==
  BuildStart \/ InsertPages \/ PageGarbled \/ CheckPack \/ ActivatePack \/ DescribePack

CorpusNext == FetchNext \/ BuildNext \/ Died \/ PowerCut
CorpusSpec == CorpusInit /\ [][CorpusNext]_corpusVars

----------------------------------------------------------------------------
(* What carries a final name is whole: whatever the server sends and        *)
(* whenever a script dies, an archive under its own name is the official    *)
(* one and a pack under its own name holds exactly its pages; the manifest  *)
(* describes that pack.  A power cut can break this, since nothing is       *)
(* synced before os.replace (acquisition.py:134, 159; builder.py:442), but  *)
(* even then an acquisition only returns over the official archive.         *)
ActivatedIsComplete ==
  /\ Fetching("returned") => Verified(archive)
  /\ ~powerCut =>
       /\ archive \in {Absent, Upto(Blocks)}
       /\ pack \in {Absent, Upto(Needed)}
       /\ manifest \in {Absent, pack}

(* A run fails for a reason.  An acquisition: more server failures in it    *)
(* than it has retries, or wrong bytes or a power cut in this or an earlier *)
(* run -- a .part with wrong bytes is never discarded, and every later run  *)
(* fails on it.  A build is refused over a pack whose manifest is missing   *)
(* only if an earlier run was interrupted between the two.                  *)
FailureExplained ==
  /\ Fetching("failed") => spoiled \/ fetch.faults > Retries
  /\ making = "refused" => pack # Absent /\ (manifest # Absent \/ mishaps > 0)
=============================================================================
