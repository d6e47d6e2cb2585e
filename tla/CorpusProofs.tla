---------------------------- MODULE CorpusProofs -----------------------------
(***************************************************************************)
(* The corpus, from its archive to a query over it.                        *)
(***************************************************************************)
EXTENDS Corpus, Traversal, ShardedIngest, FiniteSetTheorems, SequenceTheorems, Inductions

----------------------------------------------------------------------------
(* Acquisition and build.                                                   *)
(* What Corpus.tla promises, for every archive size, number of retries and  *)
(* number of mishaps.                                                       *)
(*                                                                          *)
(* The acquisition's invariant says what its .part can be: as long as no    *)
(* wrong bytes came in and the power held, the first blocks of the          *)
(* official archive, exactly as many as the server has sent or skipped      *)
(* while a body is received, and an attempt is only spent on a failure of   *)
(* the server.  The build's invariant says that a .building that passed     *)
(* the checks has all its pages, and that a pack without a manifest is      *)
(* being described or was left by an interrupted run.                       *)

FetchIsRecord ==
  fetch = [at |-> fetch.at, attempt |-> fetch.attempt,
           faults |-> fetch.faults, sent |-> fetch.sent]
FetchTypeOK ==
  /\ FetchIsRecord
  /\ fetch.attempt \in 0 .. Retries /\ fetch.faults \in Nat
  /\ mishaps \in Nat
  /\ spoiled \in BOOLEAN /\ powerCut \in BOOLEAN
  /\ powerCut => spoiled

ArchiveWhole ==
  /\ Fetching("returned") => Verified(archive)
  /\ ~powerCut => archive \in {Absent, Upto(Blocks)}

(* What resuming relies on.                                                 *)
PartClean ==
  ~spoiled =>
    /\ part = Absent \/ \E n \in 0 .. Blocks : part = Upto(n)
    /\ Fetching("asking") => part # Upto(Blocks)
    /\ Fetching("receiving") => fetch.sent \in 0 .. Blocks /\ part = Upto(fetch.sent)

FaultsPaid ==
  ~spoiled =>
    /\ Fetching("asking") \/ Fetching("receiving") => fetch.faults >= fetch.attempt
    /\ Fetching("checking") => Verified(part) \/ fetch.faults > fetch.attempt
    /\ Fetching("failed") => fetch.faults > Retries

PackWhole ==
  /\ ~powerCut => pack \in {Absent, Upto(Needed)} /\ manifest \in {Absent, pack}
  /\ making \in {"inserting", "checked"} => pack = Absent
  /\ making = "checked" => building = Upto(Needed)
  /\ making = "activated" => pack # Absent

ManifestMissing ==
  /\ pack # Absent /\ manifest = Absent => making = "activated" \/ mishaps > 0
  /\ making = "refused" => pack # Absent

CorpusInv ==
  /\ FetchTypeOK /\ ArchiveWhole /\ PartClean /\ FaultsPaid
  /\ PackWhole /\ ManifestMissing

----------------------------------------------------------------------------
(* The first n blocks: a sequence of that length, and no missing file.      *)
LEMMA UptoIsFile ==
  ASSUME NEW n \in 0 .. Blocks
  PROVE  /\ Upto(n) \in Seq(0 .. Blocks) /\ Len(Upto(n)) = n
         /\ Upto(n) # Absent /\ Size(Upto(n)) = n
<1>1. Upto(n) \in [1 .. n -> 0 .. Blocks] /\ n \in Nat
  BY CorpusAssumption DEF Upto
<1>2. Upto(n) \in Seq(0 .. Blocks) /\ Len(Upto(n)) = n
  <2>1. Upto(n) \in Seq(0 .. Blocks)
    BY <1>1, SeqDef
  <2>2. Len(Upto(n)) = n
    BY <1>1, <2>1 DEF Upto
  <2> QED BY <2>1, <2>2
<1>3. Upto(n) # Absent
  BY <1>2, CorpusAssumption
<1> QED
  BY <1>2, <1>3 DEF Size

(* One more block in order.                                                 *)
LEMMA UptoNext ==
  ASSUME NEW n \in Nat, n < Blocks
  PROVE  Append(Upto(n), n + 1) = Upto(n + 1)
<1>0. n \in 0 .. Blocks /\ n + 1 \in 0 .. Blocks
  BY CorpusAssumption
<1>1. Upto(n) \in Seq(0 .. Blocks) /\ Len(Upto(n)) = n
  BY <1>0, UptoIsFile
<1>2. Append(Upto(n), n + 1) \in Seq(0 .. Blocks)
  BY <1>0, <1>1
<1>3. /\ Len(Append(Upto(n), n + 1)) = n + 1
      /\ \A i \in 1 .. n + 1 : Append(Upto(n), n + 1)[i] = IF i <= n THEN Upto(n)[i] ELSE n + 1
  BY <1>0, <1>1
<1>4. \A i \in 1 .. n + 1 : Append(Upto(n), n + 1)[i] = i
  BY <1>0, <1>3 DEF Upto
<1>5. Append(Upto(n), n + 1) = [i \in 1 .. n + 1 |-> Append(Upto(n), n + 1)[i]]
  BY <1>0, <1>2, <1>3
<1> QED
  BY <1>4, <1>5 DEF Upto

(* A clean .part is as long as the blocks it holds.                         *)
LEMMA CleanSize ==
  ASSUME part = Absent \/ \E n \in 0 .. Blocks : part = Upto(n)
  PROVE  /\ Size(part) \in 0 .. Blocks
         /\ Size(part) < Blocks <=> part # Upto(Blocks)
         /\ OpenPart(part) = Upto(Size(part))
<1>0. Blocks \in Nat \ {0} /\ 0 \in 0 .. Blocks /\ Blocks \in 0 .. Blocks
  BY CorpusAssumption
<1>1. CASE part = Absent
  <2>1. Size(part) = 0
    BY <1>1 DEF Size
  <2>2. part # Upto(Blocks)
    BY <1>0, <1>1, UptoIsFile
  <2>3. Upto(0) = <<>>
    BY DEF Upto
  <2> QED
    BY <1>0, <2>1, <2>2, <2>3 DEF OpenPart
<1>2. ASSUME NEW n \in 0 .. Blocks, part = Upto(n)
      PROVE  /\ Size(part) \in 0 .. Blocks
             /\ Size(part) < Blocks <=> part # Upto(Blocks)
             /\ OpenPart(part) = Upto(Size(part))
  <2>1. Size(part) = n /\ Size(Upto(Blocks)) = Blocks
    BY <1>0, <1>2, UptoIsFile
  <2>2. part # Upto(Blocks) => n < Blocks
    BY <1>0, <1>2
  <2>3. n < Blocks => part # Upto(Blocks)
    BY <1>0, <2>1
  <2>4. Upto(0) = <<>>
    BY DEF Upto
  <2>5. OpenPart(part) = Upto(n)
    BY <1>0, <1>2, <2>1, <2>4 DEF OpenPart
  <2> QED
    BY <1>0, <2>1, <2>2, <2>3, <2>5
<1> QED
  BY <1>1, <1>2

----------------------------------------------------------------------------
(* The initial state.                                                       *)
LEMMA CorpusInitInv == CorpusInit => CorpusInv
<1> SUFFICES ASSUME CorpusInit PROVE CorpusInv
  OBVIOUS
<1> USE DEF CorpusInit, Fetch, Fetching
<1>1. FetchTypeOK
  <2>1. fetch = [at |-> "idle", attempt |-> 0, faults |-> 0, sent |-> 0]
    OBVIOUS
  <2>2. FetchIsRecord
    BY <2>1 DEF FetchIsRecord
  <2>3. fetch.attempt = 0 /\ fetch.faults = 0
    BY <2>1
  <2>4. spoiled \in BOOLEAN /\ powerCut \in BOOLEAN /\ (powerCut => spoiled)
    BY Zenon
  <2>5. /\ fetch.attempt \in 0 .. Retries /\ fetch.faults \in Nat
        /\ mishaps \in Nat
    BY <2>3, CorpusAssumption
  <2> QED
    BY <2>2, <2>4, <2>5 DEF FetchTypeOK
<1>2. ArchiveWhole /\ PartClean /\ FaultsPaid
  BY DEF ArchiveWhole, PartClean, FaultsPaid
<1>3. PackWhole /\ ManifestMissing
  BY DEF PackWhole, ManifestMissing
<1> QED
  BY <1>1, <1>2, <1>3 DEF CorpusInv

(* A step of the acquisition keeps what is said of it, and does not touch   *)
(* the pack; mishaps only grow.                                             *)
FetchInv == FetchTypeOK /\ ArchiveWhole /\ PartClean /\ FaultsPaid

(* The acquisition does not touch the pack.                                 *)
LEMMA FetchKeepsPack ==
  ASSUME CorpusInv, FetchNext
  PROVE  PackWhole' /\ ManifestMissing'
<1>1. UNCHANGED buildVars /\ powerCut' = powerCut
  BY DEF FetchNext, FetchStart, FetchRefused, FetchPastEnd, FetchAnswered, FetchBlock,
         FetchWrongBlock, FetchBodyEnds, FetchBodyShort, FetchCheck, NoMishap
<1>2. mishaps \in Nat /\ (mishaps' = mishaps \/ mishaps' = mishaps + 1)
  BY DEF CorpusInv, FetchTypeOK, FetchNext, FetchStart, FetchRefused, FetchPastEnd,
         FetchAnswered, FetchBlock, FetchWrongBlock, FetchBodyEnds, FetchBodyShort,
         FetchCheck, NoMishap, Mishap
<1>3. mishaps > 0 => mishaps' > 0
  BY <1>2
<1> QED
  BY <1>1, <1>3 DEF CorpusInv, PackWhole, ManifestMissing, buildVars

(* Starting an acquisition keeps its invariant.                             *)
LEMMA FetchStartKeeps ==
  ASSUME CorpusInv, FetchStart
  PROVE  FetchInv'
<1> USE DEF CorpusInv, FetchStart, Fetch, Fetching, NoMishap
<1>0. /\ fetch' = Fetch(fetch'.at, 0, 0)
      /\ fetch'.at \in {"returned", "failed", "asking"}
  OBVIOUS
<1>1. FetchTypeOK'
  BY <1>0, CorpusAssumption DEF FetchTypeOK, FetchIsRecord
<1>2. ArchiveWhole'
  BY DEF ArchiveWhole, Verified
<1>3. ASSUME ~spoiled
      PROVE  /\ Size(part) \in 0 .. Blocks
             /\ Size(part) < Blocks <=> part # Upto(Blocks)
  BY <1>3, CleanSize DEF PartClean
<1>4. ~spoiled => fetch'.at # "failed"
  BY <1>3, CorpusAssumption DEF FetchTypeOK, ArchiveWhole, Verified
<1>5. PartClean'
  BY <1>0, <1>3 DEF PartClean
<1>6. FaultsPaid'
  BY <1>0, <1>4 DEF FaultsPaid, FetchTypeOK
<1> QED
  BY <1>1, <1>2, <1>5, <1>6 DEF FetchInv

(* The next attempt, or the end of the run.                                 *)
LEMMA RetriedKeeps ==
  ASSUME CorpusInv, NEW faults \in Nat, Retried(faults),
         UNCHANGED <<spoiled, powerCut>>, mishaps' \in Nat,
         ~spoiled => faults > fetch.attempt /\ part # Upto(Blocks)
  PROVE  FetchInv'
<1> USE DEF CorpusInv, Retried, Fetch, Fetching
<1>1. FetchTypeOK'
  BY CorpusAssumption DEF FetchTypeOK, FetchIsRecord
<1>2. ArchiveWhole'
  BY DEF ArchiveWhole
<1>3. PartClean'
  BY DEF PartClean
<1>4. FaultsPaid'
  BY CorpusAssumption DEF FaultsPaid, FetchTypeOK
<1> QED
  BY <1>1, <1>2, <1>3, <1>4 DEF FetchInv

(* Every step of the acquisition keeps its invariant.                       *)
LEMMA FetchKeeps ==
  ASSUME CorpusInv, FetchNext
  PROVE  FetchInv'
<1> USE DEF CorpusInv, Fetching
<1>0. /\ Blocks \in Nat \ {0} /\ Retries \in Nat
      /\ fetch.attempt \in Nat /\ fetch.faults \in Nat /\ mishaps \in Nat
      /\ fetch.faults + 1 \in Nat /\ mishaps + 1 \in Nat
  BY CorpusAssumption DEF FetchTypeOK
<1>1. CASE FetchStart
  BY <1>1, FetchStartKeeps
<1>2. CASE FetchRefused
  <2>1. ~spoiled => part # Upto(Blocks) /\ fetch.faults + 1 > fetch.attempt
    BY <1>0, <1>2 DEF FetchRefused, PartClean, FaultsPaid
  <2> QED
    BY <1>0, <1>2, <2>1, RetriedKeeps DEF FetchRefused, Mishap
<1>3. CASE FetchPastEnd
  <2>1. spoiled
    BY <1>3, CleanSize, <1>0 DEF FetchPastEnd, PartClean
  <2> QED
    BY <1>0, <1>3, <2>1, RetriedKeeps DEF FetchPastEnd, NoMishap
<1>4. CASE FetchAnswered
  <2> USE <1>4 DEF FetchAnswered, NoMishap
  <2>1. ~spoiled => Size(part) \in 0 .. Blocks /\ part' = Upto(Size(part))
    BY CleanSize DEF PartClean
  <2>2. /\ fetch' = [at |-> "receiving", attempt |-> fetch.attempt,
                     faults |-> fetch.faults, sent |-> Size(part)]
        /\ UNCHANGED <<archive, mishaps, spoiled, powerCut>>
    BY DEF FetchTypeOK, FetchIsRecord
  <2>3. PartClean'
    BY <2>1, <2>2 DEF PartClean
  <2>4. ArchiveWhole' /\ FaultsPaid'
    BY <2>2 DEF ArchiveWhole, FaultsPaid
  <2>5. FetchTypeOK'
    <3>1. /\ fetch'.at = "receiving" /\ fetch'.attempt = fetch.attempt
          /\ fetch'.faults = fetch.faults /\ fetch'.sent = Size(part)
      BY <2>2
    <3>2. FetchIsRecord'
      BY <2>2, <3>1 DEF FetchIsRecord
    <3> QED
      BY <2>2, <3>1, <3>2 DEF FetchTypeOK
  <2> QED
    BY <2>3, <2>4, <2>5 DEF FetchInv
<1>5. CASE FetchBlock
  <2> USE <1>5 DEF FetchBlock, Receiving, NoMishap
  <2>1. ~spoiled => /\ fetch.sent + 1 \in 0 .. Blocks
                    /\ part' = Upto(fetch.sent + 1)
    BY <1>0, UptoNext DEF PartClean
  <2>2. /\ fetch' = [at |-> "receiving", attempt |-> fetch.attempt,
                     faults |-> fetch.faults, sent |-> fetch.sent + 1]
        /\ UNCHANGED <<archive, mishaps, spoiled, powerCut>>
    BY DEF FetchTypeOK, FetchIsRecord
  <2>3. PartClean'
    BY <2>1, <2>2 DEF PartClean
  <2>4. FetchTypeOK' /\ ArchiveWhole' /\ FaultsPaid'
    BY <2>2 DEF FetchTypeOK, FetchIsRecord, ArchiveWhole, FaultsPaid
  <2> QED
    BY <2>3, <2>4 DEF FetchInv
<1>6. CASE FetchWrongBlock
  <2> USE <1>6 DEF FetchWrongBlock, Receiving, Mishap
  <2>1. /\ fetch' = [at |-> "receiving", attempt |-> fetch.attempt,
                     faults |-> fetch.faults, sent |-> fetch.sent + 1]
        /\ mishaps' \in Nat /\ spoiled' = TRUE /\ UNCHANGED <<archive, powerCut>>
    BY <1>0 DEF FetchTypeOK, FetchIsRecord
  <2>2. FetchTypeOK' /\ ArchiveWhole'
    BY <2>1 DEF FetchTypeOK, FetchIsRecord, ArchiveWhole
  <2>3. PartClean' /\ FaultsPaid'
    BY <2>1 DEF PartClean, FaultsPaid
  <2> QED
    BY <2>2, <2>3 DEF FetchInv
<1>7. CASE FetchBodyEnds
  <2> USE <1>7 DEF FetchBodyEnds, FetchGoes, NoMishap
  <2>1. ~spoiled => part = Upto(Blocks)
    BY <1>0 DEF PartClean
  <2>2. /\ fetch' = [at |-> "checking", attempt |-> fetch.attempt,
                     faults |-> fetch.faults, sent |-> fetch.sent]
        /\ UNCHANGED <<archive, part, mishaps, spoiled, powerCut>>
    BY DEF FetchTypeOK, FetchIsRecord
  <2>3. FetchTypeOK' /\ ArchiveWhole' /\ PartClean'
    BY <2>2 DEF FetchTypeOK, FetchIsRecord, ArchiveWhole, PartClean
  <2>4. FaultsPaid'
    BY <2>1, <2>2 DEF FaultsPaid, Verified
  <2> QED
    BY <2>3, <2>4 DEF FetchInv
<1>8. CASE FetchBodyShort
  <2> USE <1>8 DEF FetchBodyShort, Mishap
  <2>1. ~spoiled => part # Upto(Blocks) /\ fetch.faults + 1 > fetch.attempt
    <3>1. ASSUME ~spoiled PROVE part # Upto(Blocks)
      <4>1. fetch.sent \in 0 .. Blocks /\ part = Upto(fetch.sent) /\ fetch.sent < Blocks
        BY <3>1 DEF PartClean
      <4>2. Len(part) = fetch.sent /\ Len(Upto(Blocks)) = Blocks
        BY <1>0, <4>1, UptoIsFile
      <4> QED
        BY <1>0, <4>1, <4>2
    <3> QED
      BY <1>0, <3>1 DEF FaultsPaid
  <2>2. CASE Retried(fetch.faults + 1)
    BY <1>0, <2>1, <2>2, RetriedKeeps
  <2>3. CASE /\ fetch' = [fetch EXCEPT !.at = "checking", !.faults = @ + 1]
             /\ UNCHANGED <<archive, part>>
    <3>1. /\ fetch' = [at |-> "checking", attempt |-> fetch.attempt,
                       faults |-> fetch.faults + 1, sent |-> fetch.sent]
          /\ mishaps' \in Nat /\ UNCHANGED <<archive, part, spoiled, powerCut>>
      BY <1>0, <2>3 DEF FetchTypeOK, FetchIsRecord
    <3>2. FetchTypeOK' /\ ArchiveWhole' /\ PartClean'
      BY <1>0, <3>1 DEF FetchTypeOK, FetchIsRecord, ArchiveWhole, PartClean
    <3>3. FaultsPaid'
      BY <2>1, <3>1 DEF FaultsPaid
    <3> QED
      BY <3>2, <3>3 DEF FetchInv
  <2> QED
    BY <2>2, <2>3
<1>9. CASE FetchCheck
  <2> USE <1>9 DEF FetchCheck, NoMishap
  <2>1. CASE Verified(part)
    <3> USE <2>1 DEF InstallPart, FetchGoes
    <3>1. /\ fetch' = [at |-> "returned", attempt |-> fetch.attempt,
                       faults |-> fetch.faults, sent |-> fetch.sent]
          /\ archive' = Upto(Blocks) /\ part' = Absent
          /\ UNCHANGED <<mishaps, spoiled, powerCut>>
      BY DEF FetchTypeOK, FetchIsRecord, Verified
    <3>2. FetchTypeOK' /\ PartClean' /\ FaultsPaid'
      BY <3>1 DEF FetchTypeOK, FetchIsRecord, PartClean, FaultsPaid
    <3>3. ArchiveWhole'
      BY <3>1 DEF ArchiveWhole, Verified
    <3> QED
      BY <3>2, <3>3 DEF FetchInv
  <2>2. CASE ~Verified(part)
    <3>1. ~spoiled => fetch.faults > fetch.attempt /\ part # Upto(Blocks)
      BY <2>2 DEF FaultsPaid, Verified
    <3> QED
      BY <1>0, <2>2, <3>1, RetriedKeeps
  <2> QED
    BY <2>1, <2>2
<1> QED
  BY <1>1, <1>2, <1>3, <1>4, <1>5, <1>6, <1>7, <1>8, <1>9 DEF FetchNext

(* A step of the build, which does not touch the dump.                      *)
LEMMA BuildKeeps ==
  ASSUME CorpusInv, BuildNext
  PROVE  CorpusInv'
<1> USE DEF CorpusInv, NoMishap
<1>1. /\ UNCHANGED dumpVars /\ UNCHANGED <<spoiled, powerCut>>
      /\ mishaps' \in Nat /\ (mishaps > 0 => mishaps' > 0)
  BY DEF BuildNext, BuildStart, InsertPages, PageGarbled, CheckPack, ActivatePack,
         DescribePack, Mishap, FetchTypeOK
<1>2. FetchTypeOK' /\ ArchiveWhole' /\ PartClean' /\ FaultsPaid'
  BY <1>1 DEF dumpVars, FetchTypeOK, FetchIsRecord, ArchiveWhole, PartClean, FaultsPaid, Fetching
<1>3. Upto(Needed) # Absent
  BY CorpusAssumption, UptoIsFile
<1>4. PackWhole' /\ ManifestMissing'
  <2> USE <1>1 DEF PackWhole, ManifestMissing
  <2>1. CASE BuildStart
    BY <2>1 DEF BuildStart
  <2>2. CASE InsertPages
    BY <2>2 DEF InsertPages
  <2>3. CASE PageGarbled
    BY <2>3 DEF PageGarbled
  <2>4. CASE CheckPack
    BY <2>4 DEF CheckPack
  <2>5. CASE ActivatePack
    BY <1>3, <2>5 DEF ActivatePack
  <2>6. CASE DescribePack
    BY <2>6 DEF DescribePack
  <2> QED
    BY <2>1, <2>2, <2>3, <2>4, <2>5, <2>6 DEF BuildNext
<1> QED
  BY <1>2, <1>4

(* The death of a script and the power cut.                                 *)
LEMMA DiedKeeps ==
  ASSUME CorpusInv, Died \/ PowerCut
  PROVE  CorpusInv'
<1> USE DEF CorpusInv, Mishap, FetchGoes
<1>0. mishaps' \in Nat /\ mishaps' > 0
  BY DEF Died, PowerCut, FetchTypeOK
<1>1. CASE Died
  <2> USE <1>0, <1>1 DEF Died, Fetching
  <2>1. /\ fetch' = fetch \/ fetch' = [fetch EXCEPT !.at = "idle"]
        /\ UNCHANGED <<archive, part, pack, building, manifest, spoiled, powerCut>>
        /\ making' = making \/ making' = "idle"
    OBVIOUS
  <2>2. FetchTypeOK' /\ ArchiveWhole' /\ PartClean' /\ FaultsPaid'
    BY <2>1 DEF FetchTypeOK, FetchIsRecord, ArchiveWhole, PartClean, FaultsPaid
  <2>3. PackWhole' /\ ManifestMissing'
    BY <2>1 DEF PackWhole, ManifestMissing
  <2> QED
    BY <2>2, <2>3
<1>2. CASE PowerCut
  <2> USE <1>0, <1>2 DEF PowerCut, Fetching
  <2>1. /\ fetch' = [at |-> "idle", attempt |-> fetch.attempt,
                     faults |-> fetch.faults, sent |-> fetch.sent]
        /\ spoiled' = TRUE /\ powerCut' = TRUE /\ making' = "idle"
    BY DEF FetchTypeOK, FetchIsRecord
  <2>2. FetchTypeOK' /\ ArchiveWhole' /\ PartClean' /\ FaultsPaid'
    BY <2>1 DEF FetchTypeOK, FetchIsRecord, ArchiveWhole, PartClean, FaultsPaid
  <2>3. PackWhole' /\ ManifestMissing'
    BY <2>1 DEF PackWhole, ManifestMissing
  <2> QED
    BY <2>2, <2>3
<1> QED
  BY <1>1, <1>2

----------------------------------------------------------------------------
(* The inductive invariant holds, however many mishaps there are.           *)
THEOREM CorpusInvariant == CorpusSpec => []CorpusInv
<1>1. CorpusInv /\ [CorpusNext]_corpusVars => CorpusInv'
  <2> SUFFICES ASSUME CorpusInv, [CorpusNext]_corpusVars PROVE CorpusInv'
    OBVIOUS
  <2>1. CASE FetchNext
    BY <2>1, FetchKeeps, FetchKeepsPack DEF FetchInv, CorpusInv
  <2>2. CASE BuildNext
    BY <2>2, BuildKeeps
  <2>3. CASE Died \/ PowerCut
    BY <2>3, DiedKeeps
  <2>4. CASE UNCHANGED corpusVars
    BY <2>4 DEF corpusVars, dumpVars, buildVars, CorpusInv, FetchTypeOK, FetchIsRecord,
                ArchiveWhole, PartClean, FaultsPaid, PackWhole, ManifestMissing, Fetching
  <2> QED
    BY <2>1, <2>2, <2>3, <2>4 DEF CorpusNext
<1> QED
  BY <1>1, CorpusInitInv, PTL DEF CorpusSpec

(* What carries a final name is whole (os.replace comes after _verify and   *)
(* _integrity on every path), unless the power was cut.                     *)
THEOREM ActivatedComplete == CorpusSpec => []ActivatedIsComplete
<1>1. CorpusInv => ActivatedIsComplete
  BY DEF CorpusInv, ArchiveWhole, PackWhole, ActivatedIsComplete
<1> QED
  BY <1>1, CorpusInvariant, PTL

(* A run fails for a reason: resuming and retrying never spoil the .part by *)
(* themselves, and a manifest is missing only after an interruption.        *)
THEOREM FailuresExplained == CorpusSpec => []FailureExplained
<1>1. CorpusInv => FailureExplained
  BY DEF CorpusInv, FaultsPaid, ManifestMissing, FailureExplained
<1> QED
  BY <1>1, CorpusInvariant, PTL

----------------------------------------------------------------------------
(* Queries.                                                                 *)
(* That a query stays within its budget, for every question.  The bounds    *)
(* are not inductive alone: a chunk is counted once only because what is    *)
(* still to be read has no chunk twice and none that was read, and a round  *)
(* that follows links starts with a step to spare.                          *)

(* Steps made when a place is reached.                                      *)
StepsFit ==
  /\ doing = "searching" => steps = 0
  /\ doing = "fetching" => steps = 2
  /\ doing = "following" => steps < question.max_steps
  /\ doing \in {"looking", "verifying"} => steps <= Larger(3, question.max_steps)
  /\ doing = "done" => steps <= Larger(3, question.max_steps) + 1

TraversalTypeOK ==
  /\ question \in Questions
  /\ doing \in {"searching", "fetching", "following", "looking", "verifying", "done"}
  /\ rows \in Seq(question.chunks) /\ read \in Seq(question.chunks)
  /\ bytes_read \in Nat /\ steps \in Nat

SearchStarts == doing = "searching" => read = <<>>

RowsFresh ==
  /\ IsInjective(rows)
  /\ Range(rows) \cap Range(read) = {}

Inv == TraversalTypeOK /\ RowsFresh /\ StepsFit /\ SearchStarts /\ WithinBudget

----------------------------------------------------------------------------
(* Moving the head of one sequence to the end of another one.               *)
LEMMA RangeAppend ==
  ASSUME NEW S, NEW s \in Seq(S), NEW x \in S
  PROVE  /\ Append(s, x) \in Seq(S)
         /\ Range(Append(s, x)) = Range(s) \cup {x}
         /\ IsInjective(s) /\ x \notin Range(s) => IsInjective(Append(s, x))
<1>1. Append(s, x) \in Seq(S)
  OBVIOUS
<1>2. /\ DOMAIN s = 1 .. Len(s) /\ Len(s) \in Nat
      /\ DOMAIN Append(s, x) = 1 .. Len(s) + 1
      /\ \A i \in 1 .. Len(s) : Append(s, x)[i] = s[i]
      /\ Append(s, x)[Len(s) + 1] = x
  OBVIOUS
<1>3. Range(Append(s, x)) = Range(s) \cup {x}
  <2>1. ASSUME NEW y \in Range(Append(s, x)) PROVE y \in Range(s) \cup {x}
    <3>1. PICK i \in 1 .. Len(s) + 1 : y = Append(s, x)[i]
      BY <1>2 DEF Range
    <3>2. i \in 1 .. Len(s) \/ i = Len(s) + 1
      BY <1>2
    <3> QED BY <3>1, <3>2, <1>2 DEF Range
  <2>2. ASSUME NEW y \in Range(s) PROVE y \in Range(Append(s, x))
    <3>1. PICK i \in 1 .. Len(s) : y = s[i]
      BY <1>2 DEF Range
    <3>2. i \in 1 .. Len(s) + 1
      BY <1>2
    <3> QED BY <3>1, <3>2, <1>2 DEF Range
  <2>3. Len(s) + 1 \in 1 .. Len(s) + 1
    BY <1>2
  <2>4. x \in Range(Append(s, x))
    BY <2>3, <1>2 DEF Range
  <2> QED BY <2>1, <2>2, <2>4
<1>4. ASSUME IsInjective(s), x \notin Range(s) PROVE IsInjective(Append(s, x))
  <2> SUFFICES ASSUME NEW i \in 1 .. Len(s) + 1, NEW j \in 1 .. Len(s) + 1,
                      Append(s, x)[i] = Append(s, x)[j]
               PROVE  i = j
    BY <1>2 DEF IsInjective
  <2>1. CASE i \in 1 .. Len(s) /\ j \in 1 .. Len(s)
    BY <2>1, <1>2, <1>4 DEF IsInjective
  <2>2. CASE i \in 1 .. Len(s) /\ j = Len(s) + 1
    BY <2>2, <1>2, <1>4 DEF Range
  <2>3. CASE i = Len(s) + 1 /\ j \in 1 .. Len(s)
    BY <2>3, <1>2, <1>4 DEF Range
  <2>4. CASE i = Len(s) + 1 /\ j = Len(s) + 1
    BY <2>4
  <2> QED BY <2>1, <2>2, <2>3, <2>4, <1>2
<1> QED BY <1>1, <1>3, <1>4

(* The tail of a sequence without repetitions has all of it but its head.   *)
LEMMA RangeTail ==
  ASSUME NEW S, NEW s \in Seq(S), s # <<>>, IsInjective(s)
  PROVE  /\ Head(s) \in S /\ Head(s) \in Range(s)
         /\ Tail(s) \in Seq(S)
         /\ Range(Tail(s)) \subseteq Range(s) \ {Head(s)}
         /\ IsInjective(Tail(s))
<1>1. /\ DOMAIN s = 1 .. Len(s) /\ Len(s) \in Nat \ {0}
      /\ Tail(s) \in Seq(S) /\ DOMAIN Tail(s) = 1 .. Len(s) - 1
      /\ \A i \in 1 .. Len(s) - 1 : Tail(s)[i] = s[i + 1]
      /\ Head(s) = s[1] /\ s[1] \in S
  OBVIOUS
<1>2. \A i \in 1 .. Len(s) - 1 : i + 1 \in 1 .. Len(s) /\ i + 1 # 1
  BY <1>1
<1>3. Head(s) \in Range(s)
  BY <1>1 DEF Range
<1>4. Range(Tail(s)) \subseteq Range(s) \ {Head(s)}
  BY <1>1, <1>2 DEF Range, IsInjective
<1>5. IsInjective(Tail(s))
  <2> SUFFICES ASSUME NEW i \in 1 .. Len(s) - 1, NEW j \in 1 .. Len(s) - 1,
                      Tail(s)[i] = Tail(s)[j]
               PROVE  i = j
    BY <1>1 DEF IsInjective
  <2>1. s[i + 1] = s[j + 1]
    BY <1>1
  <2>2. i + 1 = j + 1
    BY <2>1, <1>1, <1>2 DEF IsInjective
  <2> QED BY <2>2, <1>1
<1> QED BY <1>1, <1>3, <1>4, <1>5

(* One more element adds at most one to a count.                            *)
LEMMA OneMore ==
  ASSUME NEW r, IsFiniteSet(r), NEW c
  PROVE  /\ Cardinality(r) \in Nat
         /\ Cardinality(r \cup {c}) \in Nat
         /\ Cardinality(r \cup {c}) <= Cardinality(r) + 1
<1>1. /\ IsFiniteSet(r \cup {c})
      /\ Cardinality(r \cup {c}) = IF c \in r THEN Cardinality(r) ELSE Cardinality(r) + 1
  BY FS_AddElement
<1>2. Cardinality(r) \in Nat /\ Cardinality(r \cup {c}) \in Nat
  BY <1>1, FS_CardinalityType
<1> QED BY <1>1, <1>2

(* The documents visited are no more than the chunks read, hence finite.    *)
LEMMA VisitedFinite ==
  ASSUME IsFiniteSet(question.chunks), read \in Seq(question.chunks)
  PROVE  IsFiniteSet(evidence) /\ IsFiniteSet(visitedDocs)
<1>1. evidence \subseteq question.chunks
  BY DEF evidence, Range
<1>2. IsFiniteSet(evidence)
  BY <1>1, FS_Subset
<1>3. [c \in evidence |-> question.doc[c]] \in Surjection(evidence, visitedDocs)
  BY DEF Surjection, visitedDocs
<1> QED BY <1>2, <1>3, FS_Surjection

(* The chunks of documents that were not visited have not been read.        *)
LEMMA ChunksFresh ==
  ASSUME IsFiniteSet(question.chunks), question.chunks \subseteq Nat, read \in Seq(question.chunks),
         question.max_chunks \in Nat, Cardinality(evidence) <= question.max_chunks,
         NEW docs, docs \cap visitedDocs = {},
         NEW found, found \in FirstChunks(docs, question.max_chunks - Cardinality(evidence))
  PROVE  found \in Seq(question.chunks) /\ IsInjective(found) /\ Range(found) \cap Range(read) = {}
<1> DEFINE all == {c \in question.chunks : question.doc[c] \in docs}
           limit == question.max_chunks - Cardinality(evidence)
           n == IF Cardinality(all) < limit THEN Cardinality(all) ELSE limit
<1>1. IsFiniteSet(all) /\ Cardinality(all) \in Nat
  BY FS_Subset, FS_CardinalityType
<1>2. IsFiniteSet(evidence) /\ Cardinality(evidence) \in Nat
  <2>1. evidence \subseteq question.chunks
    BY DEF evidence, Range
  <2> QED BY <2>1, FS_Subset, FS_CardinalityType
<1>3. n \in Nat
  BY <1>1, <1>2
<1>4. /\ found \in [1 .. n -> all]
      /\ \A i, j \in 1 .. n : i < j => found[i] < found[j]
  BY DEF FirstChunks
<1>5. found \in Seq(question.chunks)
  <2>1. found \in [1 .. n -> question.chunks]
    BY <1>4
  <2> HIDE DEF n
  <2> QED BY <2>1, <1>3
<1>6. IsInjective(found)
  <2> SUFFICES ASSUME NEW i \in 1 .. n, NEW j \in 1 .. n, found[i] = found[j], i # j
               PROVE  FALSE
    BY <1>4 DEF IsInjective
  <2>1. found[i] \in question.chunks /\ found[j] \in question.chunks
    BY <1>4
  <2>2. i < j \/ j < i
    BY <1>3
  <2>3. found[i] \in Nat
    BY <2>1
  <2> QED BY <1>4, <2>2, <2>3
<1>7. Range(found) \cap Range(read) = {}
  <2> SUFFICES ASSUME NEW c \in Range(found), c \in Range(read) PROVE FALSE
    OBVIOUS
  <2>1. question.doc[c] \in docs
    BY <1>4 DEF Range
  <2>2. question.doc[c] \in visitedDocs
    BY DEF visitedDocs, evidence
  <2> QED BY <2>1, <2>2
<1> QED BY <1>5, <1>6, <1>7

----------------------------------------------------------------------------
(* A query starts in the invariant.                                         *)
LEMMA TraversalInitInv == TraversalInit => Inv
<1> SUFFICES ASSUME TraversalInit PROVE Inv
  OBVIOUS
<1> USE DEF TraversalInit, TraversalStart
<1>1. question \in Questions /\ IsQuestion(question)
  BY TraversalAssumption
<1>2. {question.max_steps, question.max_articles, question.max_chunks,
       question.max_bytes} \subseteq Nat \ {0}
  BY <1>1 DEF IsQuestion
<1>3. Range(read) = {} /\ IsInjective(read) /\ IsInjective(rows) /\ Range(rows) = {}
  BY DEF Range, IsInjective
<1>4. evidence = {} /\ visitedDocs = {}
  BY <1>3 DEF evidence, visitedDocs
<1>5. Cardinality({}) = 0
  BY FS_EmptySet
<1> QED BY <1>1, <1>2, <1>3, <1>4, <1>5
       DEF Inv, TraversalTypeOK, RowsFresh, StepsFit, SearchStarts, WithinBudget, Larger

(* Every step of a query keeps the invariant.                               *)
LEMMA TraversalStepInv == Inv /\ [TraversalNext]_traversalVars => Inv'
<1> SUFFICES ASSUME Inv, [TraversalNext]_traversalVars PROVE Inv'
  OBVIOUS
<1>1. IsQuestion(question) /\ question \in Questions
  BY TraversalAssumption DEF Inv, TraversalTypeOK
<1>2. /\ question.max_steps \in Nat /\ question.max_articles \in Nat
      /\ question.max_chunks \in Nat /\ question.max_bytes \in Nat
      /\ IsFiniteSet(question.chunks) /\ question.chunks \subseteq Nat
      /\ question.size \in [question.chunks -> Nat]
  BY <1>1 DEF IsQuestion
<1>3. CASE SearchLexical
  <2>1. IsInjective(rows') /\ rows' \in Seq(question.chunks) /\ UNCHANGED <<question, read>>
    BY <1>3, <1>1 DEF SearchLexical, IsQuestion
  <2>2. Range(read) = {}
    BY <1>3 DEF SearchLexical, Inv, SearchStarts, Range
  <2> QED BY <1>3, <1>2, <2>1, <2>2
         DEF SearchLexical, Inv, TraversalTypeOK, RowsFresh, StepsFit, SearchStarts, WithinBudget,
             evidence, visitedDocs, Larger
<1>4. CASE ConsumeRow
  <2> DEFINE c == Head(rows)
  <2>1. /\ rows # <<>> /\ rows \in Seq(question.chunks) /\ IsInjective(rows)
        /\ read \in Seq(question.chunks) /\ IsInjective(read)
        /\ Range(rows) \cap Range(read) = {}
        /\ doing \in {"fetching", "following"}
    BY <1>4 DEF ConsumeRow, Consuming, Inv, TraversalTypeOK, RowsFresh, WithinBudget
  <2>2. /\ c \in question.chunks /\ c \in Range(rows)
        /\ Tail(rows) \in Seq(question.chunks)
        /\ Range(Tail(rows)) \subseteq Range(rows) \ {c}
        /\ IsInjective(Tail(rows))
    BY <2>1, RangeTail
  <2>3. /\ Append(read, c) \in Seq(question.chunks)
        /\ Range(Append(read, c)) = Range(read) \cup {c}
        /\ IsInjective(Append(read, c))
    BY <2>1, <2>2, RangeAppend
  <2>4. /\ question' = question /\ doing' = doing /\ steps' = steps
        /\ rows' = Tail(rows) /\ read' = Append(read, c)
        /\ bytes_read' = bytes_read + question.size[c]
    BY <1>4 DEF ConsumeRow
  <2>5. /\ Cardinality(evidence) \in Nat /\ Cardinality(visitedDocs) \in Nat
        /\ Cardinality(evidence') \in Nat /\ Cardinality(visitedDocs') \in Nat
        /\ Cardinality(evidence') <= Cardinality(evidence) + 1
        /\ Cardinality(visitedDocs') <= Cardinality(visitedDocs) + 1
    <3>1. evidence' = evidence \cup {c}
      BY <2>3, <2>4 DEF evidence
    <3>2. visitedDocs' = visitedDocs \cup {question.doc[c]}
      BY <2>4, <3>1 DEF visitedDocs
    <3>3. IsFiniteSet(evidence) /\ IsFiniteSet(visitedDocs)
      BY <2>1, <1>2, VisitedFinite
    <3> HIDE DEF c
    <3> QED BY <3>1, <3>2, <3>3, OneMore
  <2>6. /\ Cardinality(evidence) < question.max_chunks
        /\ Cardinality(visitedDocs) < question.max_articles
        /\ bytes_read + question.size[c] <= question.max_bytes
    <3> DEFINE fits(b) ==
          CASE b = "chunks" -> Cardinality(evidence) >= question.max_chunks
            [] b = "articles" -> Cardinality(visitedDocs) >= question.max_articles
            [] b = "bytes" -> bytes_read + question.size[c] > question.max_bytes
    <3>1. ~ fits("chunks") /\ ~ fits("articles") /\ ~ fits("bytes")
      BY <1>4 DEF ConsumeRow, Exceeded
    <3>2. /\ ~ (Cardinality(evidence) >= question.max_chunks)
          /\ ~ (Cardinality(visitedDocs) >= question.max_articles)
          /\ ~ (bytes_read + question.size[c] > question.max_bytes)
      BY <3>1
    <3>3. bytes_read \in Nat /\ question.size[c] \in Nat
      BY <2>2, <1>2 DEF Inv, TraversalTypeOK
    <3> HIDE DEF c
    <3> QED BY <2>5, <3>2, <3>3, <1>2
  <2>7. WithinBudget'
    <3> HIDE DEF c
    <3>1. (bytes_read <= question.max_bytes)' /\ IsInjective(read')
      BY <2>3, <2>4, <2>6
    <3>2. /\ (Cardinality(evidence) <= question.max_chunks)'
          /\ (Cardinality(visitedDocs) <= question.max_articles)'
      BY <2>4, <2>6, <2>5, <1>2
    <3>3. (steps <= Larger(3, question.max_steps) + 1)'
      BY <2>4 DEF Inv, WithinBudget
    <3> QED BY <3>1, <3>2, <3>3 DEF WithinBudget
  <2>8. TraversalTypeOK'
    <3>1. question.size[c] \in Nat
      BY <2>2, <1>2
    <3> HIDE DEF c
    <3> QED BY <2>2, <2>3, <2>4, <3>1 DEF Inv, TraversalTypeOK
  <2>9. RowsFresh'
    <3> HIDE DEF c
    <3> QED BY <2>1, <2>2, <2>3, <2>4 DEF RowsFresh
  <2>10. StepsFit' /\ SearchStarts'
    BY <2>1, <2>4 DEF Inv, StepsFit, SearchStarts
  <2> QED BY <2>7, <2>8, <2>9, <2>10 DEF Inv
<1>5. CASE EndConsume
  <2>1. Range(<<>>) = {} /\ IsInjective(<<>>) /\ <<>> \in Seq(question.chunks)
    BY DEF Range, IsInjective
  <2>2. /\ UNCHANGED <<question, read, bytes_read>> /\ rows' = <<>>
        /\ steps' = steps + 1 /\ doing' = "looking" /\ doing \in {"fetching", "following"}
    BY <1>5 DEF EndConsume, Consuming
  <2>3. steps + 1 <= Larger(3, question.max_steps)
    BY <2>2, <1>2 DEF Inv, TraversalTypeOK, StepsFit, Larger
  <2> QED BY <2>1, <2>2, <2>3, <1>2
         DEF Inv, TraversalTypeOK, RowsFresh, StepsFit, SearchStarts, WithinBudget,
             evidence, visitedDocs, Larger
<1>6. CASE FollowLinks
  <2> DEFINE limit == question.max_chunks - Cardinality(evidence)
  <2>1. /\ UNCHANGED <<question, read, bytes_read, steps>> /\ doing = "looking"
        /\ steps < question.max_steps
    BY <1>6 DEF FollowLinks, GoesOn
  <2>2. \/ doing' = "verifying" /\ rows' = rows
        \/ /\ doing' = "following"
           /\ \E docs : docs \cap visitedDocs = {} /\ rows' \in FirstChunks(docs, limit)
    <3>1. PICK top \in MostLinked(Room) :
            IF top \ visitedDocs = {} THEN doing' = "verifying" /\ UNCHANGED rows
            ELSE doing' = "following" /\ rows' \in FirstChunks(top \ visitedDocs, limit)
      BY <1>6 DEF FollowLinks
    <3>2. (top \ visitedDocs) \cap visitedDocs = {}
      OBVIOUS
    <3> QED BY <3>1, <3>2
  <2>3. rows' \in Seq(question.chunks) /\ IsInjective(rows') /\ Range(rows') \cap Range(read) = {}
    <3>1. CASE rows' = rows
      BY <3>1 DEF Inv, TraversalTypeOK, RowsFresh
    <3>2. ASSUME NEW docs, docs \cap visitedDocs = {}, rows' \in FirstChunks(docs, limit)
          PROVE  rows' \in Seq(question.chunks) /\ IsInjective(rows')
                   /\ Range(rows') \cap Range(read) = {}
      BY <3>2, ChunksFresh, <1>2 DEF Inv, TraversalTypeOK, WithinBudget
    <3> QED BY <2>2, <3>1, <3>2
  <2>4. StepsFit' /\ SearchStarts'
    BY <2>1, <2>2, <1>2 DEF Inv, TraversalTypeOK, StepsFit, SearchStarts, Larger
  <2>5. WithinBudget'
    BY <2>1 DEF Inv, WithinBudget, evidence, visitedDocs
  <2>6. TraversalTypeOK' /\ RowsFresh'
    BY <2>1, <2>2, <2>3 DEF Inv, TraversalTypeOK, RowsFresh
  <2> QED BY <2>4, <2>5, <2>6 DEF Inv
<1>7. CASE StopFollowing
  BY <1>7, <1>2
     DEF StopFollowing, Inv, TraversalTypeOK, RowsFresh, StepsFit, SearchStarts, WithinBudget,
         evidence, visitedDocs
<1>8. CASE Verify
  BY <1>8, <1>2
     DEF Verify, Inv, TraversalTypeOK, RowsFresh, StepsFit, SearchStarts, WithinBudget,
         evidence, visitedDocs, Larger
<1>9. CASE QueryReturned \/ UNCHANGED traversalVars
  BY <1>9
     DEF QueryReturned, traversalVars, Inv, TraversalTypeOK, RowsFresh, StepsFit, SearchStarts,
         WithinBudget, evidence, visitedDocs
<1> QED BY <1>3, <1>4, <1>5, <1>6, <1>7, <1>8, <1>9 DEF TraversalNext

(* The inductive invariant holds of every state of a query.                 *)
THEOREM TraversalInvariant == TraversalSpec => []Inv
BY TraversalInitInv, TraversalStepInv, PTL DEF TraversalSpec

(* No query reads more chunks, articles or bytes than its budget allows, or *)
(* a chunk twice, and none traces more operations than max_steps and one.   *)
THEOREM QueryWithinBudget == TraversalSpec => []WithinBudget
BY TraversalInvariant, PTL DEF Inv

----------------------------------------------------------------------------
(* Gaps.                                                                    *)
(* What follows is about one question q, the rows to consume and the rows   *)
(* read.                                                                    *)

HitDocsOf(q) == {q.doc[q.hits[i]] : i \in DOMAIN q.hits}
LinkedFrom(q, v) == {l.to : l \in {k \in q.links : k.from \in v}}
Closed(q, v) == \A l \in q.links : l.from \in v => l.to \in v
IsReach(q, w) ==
  w = [n \in 0 .. Cardinality(q.links) |->
         IF n = 0 THEN HitDocsOf(q) ELSE w[n - 1] \cup LinkedFrom(q, w[n - 1])]
ReachOf(q) == (CHOOSE w : IsReach(q, w))[Cardinality(q.links)]

(* The model's reach, now and after a step.                                 *)
LEMMA ReachNow == Reach = ReachOf(question) /\ HitDocs = HitDocsOf(question)
BY DEF Reach, ReachOf, IsReach, HitDocs, HitDocsOf, LinkedFrom

(* As many rounds as there are links are enough: a round that adds a        *)
(* document follows a link that no round before it followed.  So what was   *)
(* reached then is the least set with the hits that no link leaves.         *)
LEMMA ReachClosed ==
  ASSUME NEW q, IsFiniteSet(q.links)
  PROVE  /\ Closed(q, ReachOf(q))
         /\ HitDocsOf(q) \subseteq ReachOf(q)
         /\ ReachOf(q) \subseteq HitDocsOf(q) \cup {l.to : l \in q.links}
         /\ \A v : HitDocsOf(q) \subseteq v /\ Closed(q, v) => ReachOf(q) \subseteq v
<1> DEFINE L == q.links
           H == HitDocsOf(q)
           N == Cardinality(L)
           D(v) == v \cup LinkedFrom(q, v)
           X == SUBSET (H \cup {l.to : l \in L})
           F == [p \in X \X (1 .. N) |-> D(p[1])]
           w == CHOOSE g : IsReach(q, g)
           U(v) == {k \in L : k.from \in v}
<1>1. N \in Nat
  BY FS_CardinalityType
<1>2. ReachOf(q) = w[N]
  BY DEF ReachOf
<1>3. H \in X /\ \A v \in X : D(v) \in X
  BY DEF LinkedFrom
<1>4. \A v : Closed(q, v) => D(v) = v
  BY DEF LinkedFrom, Closed
<1>5. \A v : \A l \in L : l.from \in v => l.to \in D(v)
  BY DEF LinkedFrom
<1>6. \A v, z : v \subseteq z /\ Closed(q, z) => D(v) \subseteq z
  BY DEF LinkedFrom, Closed
<1>7. \A v : v \subseteq D(v)
  OBVIOUS
<1>8. \A g : IsReach(q, g) <=>
               g = [n \in 0 .. N |-> IF n = 0 THEN H ELSE D(g[n - 1])]
  BY DEF IsReach
<1> HIDE DEF D, X, N, H, L
<1>9. F \in [X \X (1 .. N) -> X] /\ \A v \in X, n \in 1 .. N : F[<<v, n>>] = D(v)
  BY <1>3
<1> HIDE DEF F
<1>10. PICK f \in [0 .. N -> X] : Iterates(f, H, N, F)
  <2>1. H \in X /\ N \in Nat /\ F \in [X \X (1 .. N) -> X]
    BY <1>1, <1>3, <1>9
  <2>2. QED BY <2>1, Recursion
<1>11. IsReach(q, f)
  <2>1. \A n \in 0 .. N : n # 0 => n \in 1 .. N /\ n - 1 \in 0 .. N
    BY <1>1
  <2>2. \A i \in 1 .. N : i - 1 \in 0 .. N
    BY <1>1
  <2>3. \A i \in 1 .. N : f[i - 1] \in X
    BY <2>2
  <2>4. \A n \in 0 .. N : f[n] = IF n = 0 THEN H ELSE D(f[n - 1])
    BY <1>9, <1>10, <2>1, <2>3 DEF Iterates
  <2>5. QED BY <1>8, <1>10, <2>4
<1>12. IsReach(q, w)
  BY <1>11
<1> HIDE DEF w
<1>13. w[0] = H /\ \A n \in Nat : n + 1 <= N => w[n + 1] = D(w[n])
  <2>1. w = [n \in 0 .. N |-> IF n = 0 THEN H ELSE D(w[n - 1])]
    BY <1>8, <1>12
  <2>2. 0 \in 0 .. N
    BY <1>1
  <2>3. ASSUME NEW n \in Nat, n + 1 <= N PROVE w[n + 1] = D(w[n])
    <3>1. n + 1 \in 0 .. N /\ n + 1 # 0 /\ (n + 1) - 1 = n
      BY <1>1, <2>3
    <3>2. w[n + 1] = IF n + 1 = 0 THEN H ELSE D(w[(n + 1) - 1])
      BY <2>1, <3>1
    <3>3. QED BY <3>1, <3>2
  <2>4. w[0] = H
    BY <2>1, <2>2
  <2>5. QED BY <2>3, <2>4
<1>14. \A n \in Nat : n <= N => w[n] \in X /\ H \subseteq w[n]
  <2> DEFINE S == {n \in Nat : n <= N => w[n] \in X /\ H \subseteq w[n]}
  <2>1. 0 \in S
    BY <1>3, <1>13
  <2>2. ASSUME NEW n \in Nat, n \in S PROVE n + 1 \in S
    <3>1. SUFFICES ASSUME n + 1 <= N PROVE w[n + 1] \in X /\ H \subseteq w[n + 1]
      OBVIOUS
    <3>2. w[n] \in X /\ H \subseteq w[n]
      BY <1>1, <2>2, <3>1
    <3>3. w[n + 1] = D(w[n])
      BY <1>13, <3>1
    <3>4. QED BY <1>3, <1>7, <3>2, <3>3
  <2> HIDE DEF S
  <2>3. Nat \subseteq S
    BY <2>1, <2>2, SetInduction
  <2>4. QED BY <2>3 DEF S
<1>15. ASSUME NEW v, H \subseteq v, Closed(q, v)
       PROVE  \A n \in Nat : n <= N => w[n] \subseteq v
  <2> DEFINE S == {n \in Nat : n <= N => w[n] \subseteq v}
  <2>1. 0 \in S
    BY <1>13, <1>15
  <2>2. ASSUME NEW n \in Nat, n \in S PROVE n + 1 \in S
    <3>1. SUFFICES ASSUME n + 1 <= N PROVE w[n + 1] \subseteq v
      OBVIOUS
    <3>2. w[n] \subseteq v
      BY <1>1, <2>2, <3>1
    <3>3. w[n + 1] = D(w[n])
      BY <1>13, <3>1
    <3>4. QED BY <1>6, <1>15, <3>2, <3>3
  <2> HIDE DEF S
  <2>3. Nat \subseteq S
    BY <2>1, <2>2, SetInduction
  <2>4. QED BY <2>3 DEF S
<1>16. \A v : IsFiniteSet(U(v)) /\ Cardinality(U(v)) \in Nat /\ Cardinality(U(v)) <= N
  <2>1. SUFFICES ASSUME NEW v
                 PROVE  IsFiniteSet(U(v)) /\ Cardinality(U(v)) \in Nat /\ Cardinality(U(v)) <= N
    OBVIOUS
  <2>2. U(v) \subseteq L /\ IsFiniteSet(L)
    BY DEF L
  <2> HIDE DEF U
  <2>3. QED BY <2>2, FS_Subset, FS_CardinalityType DEF N
<1>17. \A n \in Nat : n <= N => Closed(q, w[n]) \/ Cardinality(U(w[n])) >= n + 1
  <2> DEFINE S == {n \in Nat : n <= N => Closed(q, w[n]) \/ Cardinality(U(w[n])) >= n + 1}
  <2>1. 0 \in S
    <3>1. SUFFICES ASSUME ~ Closed(q, w[0]) PROVE Cardinality(U(w[0])) >= 1
      OBVIOUS
    <3>2. U(w[0]) # {}
      BY <3>1 DEF Closed, L
    <3> HIDE DEF U
    <3>3. Cardinality(U(w[0])) # 0
      BY <1>16, <3>2, FS_EmptySet
    <3>4. QED BY <1>16, <3>3
  <2>2. ASSUME NEW n \in Nat, n \in S PROVE n + 1 \in S
    <3>1. SUFFICES ASSUME n + 1 <= N, ~ Closed(q, w[n + 1])
                   PROVE  Cardinality(U(w[n + 1])) >= (n + 1) + 1
      OBVIOUS
    <3>2. w[n + 1] = D(w[n])
      BY <1>13, <3>1
    <3>3. ~ Closed(q, w[n])
      BY <1>4, <3>1, <3>2
    <3>4. Cardinality(U(w[n])) >= n + 1
      BY <1>1, <2>2, <3>1, <3>3
    <3>5. PICK l \in L : l.from \in w[n + 1] /\ l.to \notin w[n + 1]
      BY <3>1 DEF Closed, L
    <3>6. l \notin U(w[n])
      BY <1>5, <3>2, <3>5
    <3>7. U(w[n]) \cup {l} \subseteq U(w[n + 1])
      BY <1>7, <3>2, <3>5
    <3> HIDE DEF U
    <3>8. Cardinality(U(w[n]) \cup {l}) = Cardinality(U(w[n])) + 1
      BY <1>16, <3>6, FS_AddElement
    <3>9. Cardinality(U(w[n]) \cup {l}) <= Cardinality(U(w[n + 1]))
      BY <1>16, <3>7, FS_Subset
    <3>10. QED BY <1>16, <3>4, <3>8, <3>9
  <2> HIDE DEF S
  <2>3. Nat \subseteq S
    BY <2>1, <2>2, SetInduction
  <2>4. QED BY <2>3 DEF S
<1>18. Closed(q, w[N])
  <2>1. Closed(q, w[N]) \/ Cardinality(U(w[N])) >= N + 1
    BY <1>1, <1>17
  <2>2. Cardinality(U(w[N])) \in Nat /\ Cardinality(U(w[N])) <= N
    BY <1>16
  <2> HIDE DEF U
  <2>3. QED BY <1>1, <2>1, <2>2
<1>19. w[N] \in X /\ H \subseteq w[N]
  BY <1>1, <1>14
<1>20. \A v : H \subseteq v /\ Closed(q, v) => w[N] \subseteq v
  BY <1>1, <1>15
<1>21. QED BY <1>2, <1>18, <1>19, <1>20 DEF X, H, L

DocsOf(q, s) == {q.doc[c] : c \in Range(s)}

(* The documents of which chunks are read or about to be.                   *)
Opened(q, r, s) == DocsOf(q, r) \cup DocsOf(q, s)

(* Of those, the ones links led to are read as a whole, unless the limit on *)
(* chunks cut a fetch; then the rows that are left use it up.               *)
AllFetched(q, r, s) ==
  \A c \in q.chunks : q.doc[c] \in Opened(q, r, s) \ HitDocsOf(q) => c \in Range(r) \cup Range(s)
CutOff(q, r, s) == Cardinality(Range(r)) + Len(s) >= q.max_chunks

(* A query that gave up with steps left has followed every link, or found   *)
(* every place taken by documents it had visited.                           *)
NothingMissed == Closed(question, visitedDocs) \/ Crowded
Followed ==
  /\ doing = "verifying" /\ unresolved # {} /\ steps < question.max_steps => NothingMissed
  /\ doing = "done" /\ unresolved # {} /\ steps - 1 < question.max_steps => NothingMissed

GapInv ==
  /\ doing \notin {"fetching", "following"} => rows = <<>>
  /\ Opened(question, read, rows) \subseteq ReachOf(question)
  /\ breaks = {} /\ doing # "searching" => Range(question.hits) \subseteq Range(read) \cup Range(rows)
  /\ breaks = {} => AllFetched(question, read, rows) \/ CutOff(question, read, rows)
  /\ Followed

(* The head of a sequence and the rest of it.                               *)
LEMMA HeadAndTail ==
  ASSUME NEW S, NEW s \in Seq(S), s # <<>>
  PROVE  Range(s) = {Head(s)} \cup Range(Tail(s)) /\ Len(s) = Len(Tail(s)) + 1
         /\ Len(Tail(s)) \in Nat
<1>1. /\ DOMAIN s = 1 .. Len(s) /\ Len(s) \in Nat \ {0}
      /\ Len(Tail(s)) = Len(s) - 1 /\ DOMAIN Tail(s) = 1 .. Len(s) - 1
      /\ \A i \in 1 .. Len(s) - 1 : Tail(s)[i] = s[i + 1]
      /\ Head(s) = s[1]
  OBVIOUS
<1>2. \A i \in 1 .. Len(s) : i = 1 \/ (i - 1 \in 1 .. Len(s) - 1 /\ (i - 1) + 1 = i)
  BY <1>1
<1>3. ASSUME NEW y \in Range(s) PROVE y \in {Head(s)} \cup Range(Tail(s))
  <2>1. PICK i \in 1 .. Len(s) : y = s[i]
    BY <1>1 DEF Range
  <2>2. CASE i = 1
    BY <1>1, <2>1, <2>2
  <2>3. CASE i - 1 \in 1 .. Len(s) - 1 /\ (i - 1) + 1 = i
    <3>1. y = Tail(s)[i - 1]
      BY <1>1, <2>1, <2>3
    <3>2. QED BY <1>1, <2>3, <3>1 DEF Range
  <2>4. QED BY <1>2, <2>2, <2>3
<1>4. ASSUME NEW y \in Range(Tail(s)) PROVE y \in Range(s)
  <2>1. PICK i \in 1 .. Len(s) - 1 : y = Tail(s)[i]
    BY <1>1 DEF Range
  <2>2. i + 1 \in 1 .. Len(s) /\ y = s[i + 1]
    BY <1>1, <2>1
  <2>3. QED BY <1>1, <2>2 DEF Range
<1>5. Head(s) \in Range(s)
  BY <1>1 DEF Range
<1>6. QED BY <1>1, <1>3, <1>4, <1>5

(* What a row moves from the rows to what is read stays opened and fetched. *)
LEMMA RowMoved ==
  ASSUME NEW q, NEW r \in Seq(q.chunks), NEW s \in Seq(q.chunks), s # <<>>,
         IsFiniteSet(q.chunks), Range(s) \cap Range(r) = {}
  PROVE  /\ Range(Append(r, Head(s))) \cup Range(Tail(s)) = Range(r) \cup Range(s)
         /\ Opened(q, Append(r, Head(s)), Tail(s)) = Opened(q, r, s)
         /\ AllFetched(q, r, s) => AllFetched(q, Append(r, Head(s)), Tail(s))
         /\ CutOff(q, r, s) => CutOff(q, Append(r, Head(s)), Tail(s))
<1> DEFINE c == Head(s)
           t == Tail(s)
           a == Append(r, c)
<1>1. Range(s) = {c} \cup Range(t) /\ Len(s) = Len(t) + 1 /\ Len(t) \in Nat
  BY HeadAndTail
<1>2. c \in q.chunks
  OBVIOUS
<1>3. Range(a) = Range(r) \cup {c}
  BY <1>2, RangeAppend
<1> HIDE DEF a, t, c
<1>4. Range(a) \cup Range(t) = Range(r) \cup Range(s)
  BY <1>1, <1>3
<1>5. Opened(q, a, t) = Opened(q, r, s)
  <2>1. \A u, v : Opened(q, u, v) = {q.doc[k] : k \in Range(u) \cup Range(v)}
    BY DEF Opened, DocsOf
  <2>2. QED BY <1>4, <2>1
<1>6. AllFetched(q, r, s) => AllFetched(q, a, t)
  BY <1>4, <1>5 DEF AllFetched
<1>7. CutOff(q, r, s) => CutOff(q, a, t)
  <2>1. Range(r) \subseteq q.chunks
    BY DEF Range
  <2>2. IsFiniteSet(Range(r)) /\ Cardinality(Range(r)) \in Nat
    BY <2>1, FS_Subset, FS_CardinalityType
  <2>3. c \notin Range(r)
    BY <1>1
  <2>4. Cardinality(Range(a)) = Cardinality(Range(r)) + 1
    BY <1>3, <2>2, <2>3, FS_AddElement
  <2>5. Cardinality(Range(a)) + Len(t) = Cardinality(Range(r)) + Len(s)
    BY <1>1, <2>2, <2>4
  <2>6. QED BY <2>5 DEF CutOff
<1>8. QED BY <1>4, <1>5, <1>6, <1>7 DEF a, t, c

(* The first chunks of some documents are all of them, or as many as asked. *)
LEMMA FirstOrAll ==
  ASSUME IsFiniteSet(question.chunks), question.chunks \subseteq Nat,
         NEW docs, NEW limit \in Nat, NEW found, found \in FirstChunks(docs, limit)
  PROVE  /\ DocsOf(question, found) \subseteq docs
         /\ \/ \A c \in question.chunks : question.doc[c] \in docs => c \in Range(found)
            \/ found \in Seq(question.chunks) /\ Len(found) = limit
<1> DEFINE all == {c \in question.chunks : question.doc[c] \in docs}
           n == IF Cardinality(all) < limit THEN Cardinality(all) ELSE limit
<1>1. IsFiniteSet(all) /\ Cardinality(all) \in Nat
  BY FS_Subset, FS_CardinalityType
<1>2. /\ found \in [1 .. n -> all]
      /\ \A i, j \in 1 .. n : i < j => found[i] < found[j]
  BY DEF FirstChunks
<1>3. \A c \in all : c \in question.chunks /\ c \in Nat /\ question.doc[c] \in docs
  OBVIOUS
<1>4. \A c \in question.chunks : question.doc[c] \in docs => c \in all
  OBVIOUS
<1>5. n \in Nat /\ (n = limit \/ n = Cardinality(all))
  BY <1>1
<1> HIDE DEF n, all
<1>6. DocsOf(question, found) \subseteq docs
  BY <1>2, <1>3 DEF DocsOf, Range
<1>7. CASE n = limit
  <2>1. found \in Seq(question.chunks) /\ Len(found) = n
    <3>1. found \in [1 .. n -> question.chunks]
      BY <1>2, <1>3
    <3>2. QED BY <1>5, <3>1
  <2>2. QED BY <1>6, <1>7, <2>1
<1>8. CASE n = Cardinality(all)
  <2>1. \A i, j \in 1 .. n : found[i] = found[j] => i = j
    <3>1. SUFFICES ASSUME NEW i \in 1 .. n, NEW j \in 1 .. n, found[i] = found[j], i # j
                   PROVE  FALSE
      OBVIOUS
    <3>2. i < j \/ j < i
      <4>1. \A m \in Nat : \A x, y \in 1 .. m : x # y => x < y \/ y < x
        OBVIOUS
      <4>2. n \in Nat /\ i \in 1 .. n /\ j \in 1 .. n /\ i # j
        BY <1>5, <3>1
      <4>3. QED BY <4>1, <4>2, Zenon
    <3>3. found[i] \in Nat
      BY <1>2, <1>3
    <3>4. QED BY <1>2, <3>1, <3>2, <3>3
  <2>2. found \in Injection(1 .. n, all)
    BY <1>2, <2>1 DEF Injection, IsInjective
  <2>3. Cardinality(1 .. n) = n
    BY <1>5, FS_Interval
  <2>4. found \in Surjection(1 .. n, all)
    BY <1>1, <1>8, <2>2, <2>3, FS_Injection
  <2>5. \A c \in all : c \in Range(found)
    BY <2>4 DEF Surjection, Range
  <2>6. QED BY <1>4, <1>6, <2>5
<1>9. QED BY <1>5, <1>7, <1>8

(* What is known of every question and place, in the terms used here.       *)
LEMMA QueryFacts ==
  ASSUME Inv, GapInv
  PROVE  /\ IsQuestion(question) /\ question \in Questions
         /\ IsFiniteSet(question.chunks) /\ question.chunks \subseteq Nat
         /\ IsFiniteSet(question.links)
         /\ question.max_steps \in Nat /\ question.max_chunks \in Nat
         /\ question.max_articles \in Nat \ {0}
         /\ read \in Seq(question.chunks) /\ rows \in Seq(question.chunks) /\ steps \in Nat
         /\ Cardinality(Range(read)) \in Nat
         /\ Cardinality(Range(read)) <= question.max_chunks
<1>1. IsQuestion(question) /\ question \in Questions
  BY TraversalAssumption DEF Inv, TraversalTypeOK
<1>2. /\ IsFiniteSet(question.chunks) /\ question.chunks \subseteq Nat
      /\ IsFiniteSet(question.links)
      /\ question.max_steps \in Nat /\ question.max_chunks \in Nat
      /\ question.max_articles \in Nat \ {0}
  BY <1>1 DEF IsQuestion
<1>3. /\ read \in Seq(question.chunks) /\ rows \in Seq(question.chunks) /\ steps \in Nat
      /\ Cardinality(Range(read)) <= question.max_chunks
  BY DEF Inv, TraversalTypeOK, WithinBudget, evidence
<1>4. Cardinality(Range(read)) \in Nat
  <2>1. Range(read) \subseteq question.chunks
    BY <1>3 DEF Range
  <2>2. QED BY <1>2, <2>1, FS_Subset, FS_CardinalityType
<1>5. QED BY <1>1, <1>2, <1>3, <1>4

(* What has been reached is finite, and what was visited is part of it.     *)
LEMMA ReachFinite ==
  ASSUME Inv, GapInv
  PROVE  /\ Closed(question, ReachOf(question))
         /\ IsFiniteSet(ReachOf(question)) /\ Cardinality(ReachOf(question)) \in Nat
         /\ visitedDocs \subseteq ReachOf(question)
         /\ Cardinality(visitedDocs) \in Nat
         /\ Cardinality(visitedDocs) <= Cardinality(ReachOf(question))
<1> DEFINE Q == ReachOf(question)
           H == HitDocsOf(question)
           T == {l.to : l \in question.links}
<1>1. IsFiniteSet(question.links) /\ IsQuestion(question)
  BY QueryFacts
<1>2. Closed(question, Q) /\ Q \subseteq H \cup T
  BY <1>1, ReachClosed
<1>3. IsFiniteSet(T)
  <2>1. [l \in question.links |-> l.to] \in Surjection(question.links, T)
    BY DEF Surjection
  <2>2. QED BY <1>1, <2>1, FS_Surjection
<1>4. IsFiniteSet(H)
  <2>1. Len(question.hits) \in Nat /\ DOMAIN question.hits = 1 .. Len(question.hits)
    BY <1>1 DEF IsQuestion
  <2>2. IsFiniteSet(DOMAIN question.hits)
    BY <2>1, FS_Interval
  <2>3. [i \in DOMAIN question.hits |-> question.doc[question.hits[i]]]
          \in Surjection(DOMAIN question.hits, H)
    BY DEF Surjection, HitDocsOf
  <2>4. QED BY <2>2, <2>3, FS_Surjection
<1>5. visitedDocs \subseteq Q
  BY DEF GapInv, Opened, DocsOf, visitedDocs, evidence
<1> HIDE DEF Q, H, T
<1>6. IsFiniteSet(H \cup T)
  BY <1>3, <1>4, FS_Union
<1>7. IsFiniteSet(Q)
  BY <1>2, <1>6, FS_Subset
<1>8. IsFiniteSet(visitedDocs) /\ Cardinality(visitedDocs) <= Cardinality(Q)
  BY <1>5, <1>7, FS_Subset
<1>9. QED BY <1>2, <1>5, <1>7, <1>8, FS_CardinalityType DEF Q

(* What is settled depends on the question and the chunks read alone.       *)
LEMMA SameMissed == ASSUME UNCHANGED <<question, read>> PROVE NothingMissed' = NothingMissed
<1>1. visitedDocs' = visitedDocs
  BY DEF visitedDocs, evidence
<1>2. Targets' = Targets /\ Room' = Room
  BY <1>1 DEF Targets, Room
<1>3. \A d : Votes(d)' = Votes(d)
  BY <1>1 DEF Votes
<1>4. \A d : LinkedAsOften(d)' = LinkedAsOften(d)
  BY <1>1, <1>2, <1>3 DEF LinkedAsOften
<1>5. Crowded' = Crowded
  BY <1>1, <1>2, <1>4 DEF Crowded
<1>6. QED BY <1>1, <1>5 DEF NothingMissed

(* A linked document that is not visited is crowded out by as many visited  *)
(* ones, linked to as often, as there are places.                           *)
LEMMA CrowdedOut ==
  ASSUME Inv, GapInv, NEW d \in Targets \ visitedDocs,
         NEW top \in SUBSET LinkedAsOften(d), Room <= Cardinality(top)
  PROVE  Crowded
<1>1. IsFiniteSet(visitedDocs)
  BY ReachFinite, FS_Subset
<1>2. LinkedAsOften(d) \subseteq visitedDocs
  BY DEF LinkedAsOften
<1>3. IsFiniteSet(LinkedAsOften(d))
  BY <1>1, <1>2, FS_Subset
<1>4. /\ Cardinality(top) <= Cardinality(LinkedAsOften(d))
      /\ Cardinality(top) \in Nat /\ Cardinality(LinkedAsOften(d)) \in Nat
  BY <1>3, FS_Subset, FS_CardinalityType
<1>5. Room \in Int
  BY QueryFacts, ReachFinite DEF Room
<1>6. QED BY <1>4, <1>5 DEF Crowded

(* The most linked documents, when all of them are known: what was left out *)
(* for want of places is known or was crowded out.                          *)
LEMMA NothingLeft ==
  ASSUME Inv, GapInv, NEW top \in MostLinked(Room), top \subseteq visitedDocs
  PROVE  NothingMissed
<1>1. /\ top \subseteq Targets /\ (Cardinality(top) = Room \/ top = Targets)
      /\ \A e \in top, d \in Targets \ top : Votes(e) >= Votes(d)
  BY DEF MostLinked
<1>2. CASE Targets \subseteq visitedDocs
  BY <1>2 DEF Targets, Closed, NothingMissed
<1>3. CASE ~ (Targets \subseteq visitedDocs)
  <2>1. PICK d \in Targets \ visitedDocs : TRUE
    BY <1>3
  <2>2. Cardinality(top) = Room
    BY <1>1, <1>3
  <2>3. top \in SUBSET LinkedAsOften(d)
    BY <1>1, <2>1 DEF LinkedAsOften
  <2>4. Room <= Cardinality(top)
    <3>1. Room \in Int
      BY QueryFacts, ReachFinite DEF Room
    <3>2. QED BY <2>2, <3>1
  <2>5. QED BY <2>1, <2>3, <2>4, CrowdedOut DEF NothingMissed
<1>4. QED BY <1>2, <1>3

(* With no article left to read, whatever is linked and new is crowded out. *)
LEMMA NoArticleLeft ==
  ASSUME Inv, GapInv, Cardinality(visitedDocs) >= question.max_articles
  PROVE  NothingMissed
<1>1. CASE Targets \subseteq visitedDocs
  BY <1>1 DEF Targets, Closed, NothingMissed
<1>2. CASE ~ (Targets \subseteq visitedDocs)
  <2>1. PICK d \in Targets \ visitedDocs : TRUE
    BY <1>2
  <2>2. Room <= 0 /\ Cardinality({}) = 0
    BY QueryFacts, ReachFinite, FS_EmptySet DEF Room
  <2>3. {} \in SUBSET LinkedAsOften(d) /\ Room <= Cardinality({})
    BY <2>2
  <2>4. QED BY <2>1, <2>3, CrowdedOut DEF NothingMissed
<1>3. QED BY <1>1, <1>2

(* A query starts with nothing opened.                                      *)
LEMMA GapInit == TraversalInit => GapInv
<1> SUFFICES ASSUME TraversalInit PROVE GapInv
  OBVIOUS
<1>1. doing = "searching" /\ rows = <<>> /\ read = <<>>
  BY DEF TraversalInit, TraversalStart
<1>2. Range(rows) = {} /\ Range(read) = {}
  BY <1>1 DEF Range
<1>3. Opened(question, read, rows) = {}
  BY <1>2 DEF Opened, DocsOf
<1>4. QED BY <1>1, <1>3 DEF GapInv, AllFetched, Followed

(* The search opens the documents of its hits.                              *)
LEMMA GapSearch == ASSUME Inv, GapInv, SearchLexical PROVE GapInv'
<1>1. /\ doing' = "fetching" /\ question' = question /\ read' = read /\ rows' = question.hits
      /\ doing = "searching" /\ read = <<>>
  BY DEF SearchLexical, Inv, SearchStarts
<1>2. Range(read) = {}
  BY <1>1 DEF Range
<1>3. IsQuestion(question) /\ IsFiniteSet(question.links)
  BY QueryFacts
<1>4. Opened(question, read, question.hits) = HitDocsOf(question)
  <2>1. DocsOf(question, read) = {}
    BY <1>2 DEF DocsOf
  <2>2. DocsOf(question, question.hits) = HitDocsOf(question)
    BY DEF DocsOf, HitDocsOf, Range
  <2>3. QED BY <2>1, <2>2 DEF Opened
<1>5. HitDocsOf(question) \subseteq ReachOf(question)
  BY <1>3, ReachClosed
<1>6. AllFetched(question, read, question.hits)
  BY <1>4 DEF AllFetched
<1>7. Followed'
  BY <1>1 DEF Followed
<1>8. QED BY <1>1, <1>4, <1>5, <1>6, <1>7 DEF GapInv

(* A row that is read was opened before.                                    *)
LEMMA GapConsume == ASSUME Inv, GapInv, ConsumeRow PROVE GapInv'
<1>1. /\ doing' = doing /\ question' = question /\ breaks' = breaks
      /\ rows # <<>> /\ rows' = Tail(rows) /\ read' = Append(read, Head(rows))
      /\ doing \in {"fetching", "following"}
  BY DEF ConsumeRow, Consuming
<1>2. /\ IsFiniteSet(question.chunks)
      /\ read \in Seq(question.chunks) /\ rows \in Seq(question.chunks)
  BY QueryFacts
<1>3. Range(rows) \cap Range(read) = {}
  BY DEF Inv, RowsFresh
<1>4. /\ Range(read') \cup Range(rows') = Range(read) \cup Range(rows)
      /\ Opened(question, read', rows') = Opened(question, read, rows)
      /\ AllFetched(question, read, rows) => AllFetched(question, read', rows')
      /\ CutOff(question, read, rows) => CutOff(question, read', rows')
  BY <1>1, <1>2, <1>3, RowMoved
<1>5. Followed'
  BY <1>1 DEF Followed
<1>6. /\ Opened(question, read, rows) \subseteq ReachOf(question)
      /\ breaks = {} /\ doing # "searching" =>
           Range(question.hits) \subseteq Range(read) \cup Range(rows)
      /\ breaks = {} => AllFetched(question, read, rows) \/ CutOff(question, read, rows)
  BY DEF GapInv
<1>7. /\ Opened(question, read', rows') \subseteq ReachOf(question)
      /\ breaks = {} => Range(question.hits) \subseteq Range(read') \cup Range(rows')
      /\ breaks = {} => AllFetched(question, read', rows') \/ CutOff(question, read', rows')
  BY <1>1, <1>4, <1>6
<1>8. QED BY <1>1, <1>5, <1>7 DEF GapInv

(* Rows are only given up for a budget.                                     *)
LEMMA GapEnd == ASSUME Inv, GapInv, EndConsume PROVE GapInv'
<1>1. /\ doing' = "looking" /\ question' = question /\ breaks' = breaks \cup Exceeded
      /\ rows' = <<>> /\ read' = read /\ (rows = <<>> \/ Exceeded # {})
      /\ doing # "searching"
  BY DEF EndConsume, Consuming
<1>2. Range(<<>>) = {}
  BY DEF Range
<1>3. Opened(question, read, <<>>) \subseteq Opened(question, read, rows)
  BY <1>2 DEF Opened, DocsOf
<1>4. breaks' = {} => breaks = {} /\ rows = <<>>
  BY <1>1
<1>5. Followed'
  BY <1>1 DEF Followed
<1>6. /\ Opened(question, read, rows) \subseteq ReachOf(question)
      /\ breaks = {} /\ doing # "searching" =>
           Range(question.hits) \subseteq Range(read) \cup Range(rows)
      /\ breaks = {} => AllFetched(question, read, rows) \/ CutOff(question, read, rows)
  BY DEF GapInv
<1>7. /\ Opened(question, read', rows') \subseteq ReachOf(question)
      /\ breaks' = {} => Range(question.hits) \subseteq Range(read') \cup Range(rows')
      /\ breaks' = {} => AllFetched(question, read', rows') \/ CutOff(question, read', rows')
  BY <1>1, <1>3, <1>4, <1>6
<1>8. QED BY <1>1, <1>5, <1>7 DEF GapInv

(* A round of links opens documents within reach and fetches all of them,   *)
(* or finds that there is none.                                             *)
LEMMA GapFollow == ASSUME Inv, GapInv, FollowLinks PROVE GapInv'
<1> DEFINE limit == question.max_chunks - Cardinality(evidence)
<1>1. /\ UNCHANGED <<question, read, unresolved, steps, breaks>> /\ doing = "looking"
      /\ rows = <<>>
  BY DEF FollowLinks, GapInv
<1>2. PICK top \in MostLinked(Room) :
        IF top \ visitedDocs = {} THEN doing' = "verifying" /\ UNCHANGED rows
        ELSE doing' = "following" /\ rows' \in FirstChunks(top \ visitedDocs, limit)
  BY DEF FollowLinks
<1>3. /\ Opened(question, read, rows) \subseteq ReachOf(question)
      /\ breaks = {} => Range(question.hits) \subseteq Range(read) \cup Range(rows)
      /\ breaks = {} => AllFetched(question, read, rows) \/ CutOff(question, read, rows)
  BY <1>1 DEF GapInv
<1>4. CASE top \ visitedDocs = {}
  <2>1. doing' = "verifying" /\ rows' = rows
    BY <1>2, <1>4
  <2>2. NothingMissed
    BY <1>4, NothingLeft
  <2>3. NothingMissed'
    BY <1>1, <2>2, SameMissed
  <2>4. Followed'
    BY <2>1, <2>3 DEF Followed
  <2>5. QED BY <1>1, <1>3, <2>1, <2>4 DEF GapInv
<1>5. CASE top \ visitedDocs # {}
  <2> DEFINE fresh == top \ visitedDocs
  <2>1. doing' = "following" /\ rows' \in FirstChunks(fresh, limit)
    BY <1>2, <1>5
  <2>2. /\ IsFiniteSet(question.chunks) /\ question.chunks \subseteq Nat
        /\ question.max_chunks \in Nat /\ Cardinality(Range(read)) \in Nat
        /\ Cardinality(Range(read)) <= question.max_chunks /\ read \in Seq(question.chunks)
    BY QueryFacts
  <2>3. limit = question.max_chunks - Cardinality(Range(read)) /\ limit \in Nat
    BY <2>2 DEF evidence
  <2> HIDE DEF limit, fresh
  <2>4. /\ DocsOf(question, rows') \subseteq fresh
        /\ \/ \A c \in question.chunks : question.doc[c] \in fresh => c \in Range(rows')
           \/ Len(rows') = limit
    BY <2>1, <2>2, <2>3, FirstOrAll
  <2>5. fresh \subseteq ReachOf(question)
    <3>1. Closed(question, ReachOf(question)) /\ visitedDocs \subseteq ReachOf(question)
      BY ReachFinite
    <3>2. top \subseteq Targets
      BY DEF MostLinked
    <3>3. Targets \subseteq ReachOf(question)
      BY <3>1 DEF Targets, Closed
    <3>4. QED BY <3>2, <3>3 DEF fresh
  <2>6. Range(rows) = {} /\ DocsOf(question, rows) = {} /\ Len(rows) = 0
    BY <1>1 DEF Range, DocsOf
  <2>7. Opened(question, read, rows') \subseteq ReachOf(question)
    BY <1>3, <2>4, <2>5 DEF Opened
  <2>8. breaks = {} => AllFetched(question, read, rows') \/ CutOff(question, read, rows')
    <3>1. SUFFICES ASSUME breaks = {}, ~ CutOff(question, read, rows')
                   PROVE  AllFetched(question, read, rows')
      OBVIOUS
    <3>2. Len(rows') # limit
      BY <2>2, <2>3, <3>1 DEF CutOff
    <3>3. ~ CutOff(question, read, rows)
      <4>1. rows' \in Seq(question.chunks) /\ Len(rows') \in Nat
        <5>1. fresh \cap visitedDocs = {}
          BY DEF fresh
        <5>2. rows' \in Seq(question.chunks)
          BY <2>1, <2>2, <5>1, ChunksFresh DEF limit, evidence
        <5>3. QED BY <5>2
      <4>2. QED BY <2>2, <2>6, <3>1, <4>1 DEF CutOff
    <3>4. AllFetched(question, read, rows)
      BY <1>3, <3>1, <3>3
    <3>5. \A c \in question.chunks : question.doc[c] \in fresh => c \in Range(rows')
      BY <2>4, <3>2
    <3>6. Opened(question, read, rows') \subseteq Opened(question, read, rows) \cup fresh
      BY <2>4 DEF Opened
    <3>7. QED BY <2>6, <3>4, <3>5, <3>6 DEF AllFetched
  <2>9. Followed'
    BY <2>1 DEF Followed
  <2>10. breaks = {} => Range(question.hits) \subseteq Range(read) \cup Range(rows')
    BY <1>3, <2>6
  <2>11. QED BY <1>1, <2>1, <2>7, <2>8, <2>9, <2>10 DEF GapInv
<1>6. QED BY <1>4, <1>5

(* A query stops looking when it is done, or when steps or articles are.    *)
LEMMA GapStop == ASSUME Inv, GapInv, StopFollowing PROVE GapInv'
<1>1. /\ UNCHANGED <<question, rows, read, unresolved, steps, breaks>> /\ doing = "looking"
      /\ doing' = "verifying" /\ ~ GoesOn
  BY DEF StopFollowing
<1>2. /\ question.max_steps \in Nat /\ question.max_articles \in Nat \ {0} /\ steps \in Nat
  BY QueryFacts
<1>3. Cardinality(visitedDocs) \in Nat
  BY ReachFinite
<1>4. unresolved # {} /\ steps < question.max_steps => NothingMissed'
  <2>1. unresolved # {} /\ steps < question.max_steps =>
          Cardinality(visitedDocs) >= question.max_articles
    BY <1>1, <1>2, <1>3 DEF GoesOn
  <2>2. QED BY <1>1, <2>1, NoArticleLeft, SameMissed
<1>5. Followed'
  BY <1>1, <1>4 DEF Followed
<1>6. QED BY <1>1, <1>5 DEF GapInv

(* The verdict is one more step.                                            *)
LEMMA GapVerify == ASSUME Inv, GapInv, Verify PROVE GapInv'
<1>1. /\ UNCHANGED <<question, rows, read, unresolved, breaks>> /\ doing = "verifying"
      /\ doing' = "done" /\ steps' = steps + 1
  BY DEF Verify
<1>2. steps \in Nat /\ steps' - 1 = steps
  <2>1. steps \in Nat
    BY QueryFacts
  <2>2. QED BY <1>1, <2>1
<1>3. NothingMissed' = NothingMissed
  BY <1>1, SameMissed
<1>4. Followed'
  <2>1. unresolved # {} /\ steps < question.max_steps => NothingMissed
    BY <1>1 DEF GapInv, Followed
  <2>2. unresolved' # {} /\ steps' - 1 < question'.max_steps => NothingMissed'
    BY <1>1, <1>2, <1>3, <2>1
  <2>3. QED BY <1>1, <2>2 DEF Followed
<1>5. QED BY <1>1, <1>4 DEF GapInv

(* Every step of a query keeps what is known of its gaps.                   *)
LEMMA GapStep == Inv /\ GapInv /\ [TraversalNext]_traversalVars => GapInv'
<1> SUFFICES ASSUME Inv, GapInv, [TraversalNext]_traversalVars PROVE GapInv'
  OBVIOUS
<1>1. CASE QueryReturned \/ UNCHANGED traversalVars
  <2>1. UNCHANGED traversalVars
    BY <1>1 DEF QueryReturned
  <2>2. UNCHANGED <<question, doing, rows, read, unresolved, steps, breaks>>
    BY <2>1 DEF traversalVars
  <2>3. NothingMissed' = NothingMissed
    BY <2>2, SameMissed
  <2>4. Followed'
    BY <2>2, <2>3 DEF GapInv, Followed
  <2>5. QED BY <2>2, <2>4 DEF GapInv
<1>2. QED
  BY <1>1, GapSearch, GapConsume, GapEnd, GapFollow, GapStop, GapVerify DEF TraversalNext

(* A query that leaves a facet unresolved and touched no budget has read    *)
(* all its hits and all chunks of every other document that links lead to   *)
(* from them, or visited documents took every place of a linked one, for    *)
(* every corpus, question and budget (TraversalRuntime.query).              *)
THEOREM GapAlwaysReal == TraversalSpec => []GapIsReal
<1>1. Inv /\ GapInv => GapIsReal
  <2>1. SUFFICES ASSUME Inv, GapInv, doing = "done", unresolved # {}, breaks = {},
                        Cardinality(evidence) < question.max_chunks,
                        steps <= question.max_steps, ~ Crowded,
                        NEW c \in question.chunks,
                        c \in Range(question.hits) \/ question.doc[c] \in Reach \ HitDocs
                 PROVE  c \in evidence
    BY DEF GapIsReal
  <2>2. Reach = ReachOf(question) /\ HitDocs = HitDocsOf(question)
    BY ReachNow
  <2>3. /\ rows = <<>> /\ Opened(question, read, rows) \subseteq ReachOf(question)
        /\ Range(question.hits) \subseteq Range(read) \cup Range(rows)
        /\ AllFetched(question, read, rows) \/ CutOff(question, read, rows)
        /\ steps - 1 < question.max_steps => NothingMissed
    BY <2>1 DEF GapInv, Followed
  <2>4. Range(rows) = {} /\ Len(rows) = 0
    BY <2>3 DEF Range
  <2>5. /\ steps \in Nat /\ question.max_steps \in Nat /\ question.max_chunks \in Nat
        /\ Cardinality(Range(read)) \in Nat /\ IsFiniteSet(question.links)
    BY <2>1, QueryFacts
  <2>6. Closed(question, visitedDocs)
    BY <2>1, <2>3, <2>5 DEF NothingMissed
  <2>7. AllFetched(question, read, rows)
    BY <2>1, <2>3, <2>4, <2>5 DEF CutOff, evidence
  <2>8. HitDocsOf(question) \subseteq visitedDocs
    <3>1. \A i \in DOMAIN question.hits : question.hits[i] \in Range(question.hits)
      BY DEF Range
    <3>2. QED BY <2>3, <2>4, <3>1 DEF HitDocsOf, visitedDocs, evidence
  <2>9. ReachOf(question) \subseteq visitedDocs
    BY <2>5, <2>6, <2>8, ReachClosed
  <2>10. visitedDocs \subseteq Opened(question, read, rows)
    BY DEF Opened, DocsOf, visitedDocs, evidence
  <2>11. CASE c \in Range(question.hits)
    BY <2>3, <2>4, <2>11 DEF evidence
  <2>12. CASE question.doc[c] \in Reach \ HitDocs
    BY <2>2, <2>4, <2>7, <2>9, <2>10, <2>12 DEF AllFetched, evidence
  <2>13. QED BY <2>1, <2>11, <2>12
<1>2. QED
  BY <1>1, GapInit, GapStep, TraversalInvariant, PTL DEF TraversalSpec

----------------------------------------------------------------------------
(* Shards.                                                                  *)
(* A worker's tables are those the serial ingestion makes of its pages, a   *)
(* shard's merge appends them, so the output holds at every moment what the *)
(* serial ingestion makes of the pages of the shards merged so far; when    *)
(* these are all, the last steps read the same tables and lists.            *)
(*                                                                          *)
(* What the serial ingestion makes of pages is a fold.  A fold goes through *)
(* the places of a sequence, the highest first, so it is a function of sets *)
(* of places; that there is one is an induction over the highest.           *)

RowsOf(pages) == FoldLeft(AddPage, EmptyStore, pages)
IsFold(f, s, X) ==
  f = [S \in SUBSET X |-> IF S = {} THEN EmptyStore ELSE AddPage(f[S \ {Max(S)}], s[Max(S)])]

(* The fold, spelled out.                                                   *)
LEMMA RowsAreFold ==
  ASSUME NEW s
  PROVE  RowsOf(s) = (CHOOSE f : IsFold(f, s, DOMAIN s))[DOMAIN s]
BY DEF RowsOf, FoldLeft, MapThenFoldSet, IsFold

(* There is a fold.                                                         *)
LEMMA FoldExists ==
  ASSUME NEW s, NEW n \in Nat
  PROVE  \E f : IsFold(f, s, 1 .. n)
<1> DEFINE D(f, S) == IF S = {} THEN EmptyStore ELSE AddPage(f[S \ {Max(S)}], s[Max(S)])
           T == {m \in Nat : \E f : IsFold(f, s, 1 .. m)}
<1>1. 0 \in T
  <2>1. SUBSET (1 .. 0) = {{}}
    OBVIOUS
  <2>2. [S \in SUBSET (1 .. 0) |-> EmptyStore]
          = [S \in SUBSET (1 .. 0) |-> D([Z \in SUBSET (1 .. 0) |-> EmptyStore], S)]
    BY <2>1
  <2>3. IsFold([S \in SUBSET (1 .. 0) |-> EmptyStore], s, 1 .. 0)
    BY <2>2 DEF IsFold
  <2>4. QED BY <2>3
<1>2. ASSUME NEW m \in Nat, m \in T PROVE m + 1 \in T
  <2>1. PICK f : IsFold(f, s, 1 .. m)
    BY <1>2
  <2> DEFINE g == [S \in SUBSET (1 .. m + 1) |->
                     IF m + 1 \in S THEN AddPage(f[S \ {m + 1}], s[m + 1]) ELSE f[S]]
  <2>2. f = [S \in SUBSET (1 .. m) |-> D(f, S)]
    BY <2>1 DEF IsFold
  <2>3. \A S \in SUBSET (1 .. m + 1) : m + 1 \notin S => S \in SUBSET (1 .. m)
    <3>1. 1 .. m + 1 = (1 .. m) \cup {m + 1}
      OBVIOUS
    <3>2. QED BY <3>1
  <2>4. m + 1 \notin 1 .. m /\ 1 .. m \subseteq 1 .. m + 1
    OBVIOUS
  <2>5. ASSUME NEW S \in SUBSET (1 .. m + 1) PROVE g[S] = D(g, S)
    <3>1. CASE m + 1 \in S
      <4>1. Max(S) = m + 1
        BY <3>1, HighestOfFirst
      <4>2. S \ {m + 1} \in SUBSET (1 .. m + 1) /\ m + 1 \notin S \ {m + 1}
        OBVIOUS
      <4>3. g[S \ {m + 1}] = f[S \ {m + 1}]
        BY <4>2
      <4>4. g[S] = AddPage(f[S \ {m + 1}], s[m + 1])
        BY <3>1
      <4>5. S # {}
        BY <3>1
      <4> HIDE DEF g
      <4>6. QED BY <4>1, <4>3, <4>4, <4>5
    <3>2. CASE m + 1 \notin S
      <4>1. S \in SUBSET (1 .. m) /\ g[S] = f[S]
        BY <2>3, <3>2
      <4>2. f[S] = D(f, S)
        BY <2>2, <4>1
      <4>3. CASE S = {}
        BY <4>1, <4>2, <4>3
      <4>4. CASE S # {}
        <5>1. Max(S) \in S
          BY <4>1, <4>4, HighestOfFirst
        <5>2. S \ {Max(S)} \in SUBSET (1 .. m + 1) /\ m + 1 \notin S \ {Max(S)}
          BY <3>2
        <5>3. g[S \ {Max(S)}] = f[S \ {Max(S)}]
          BY <5>2
        <5> HIDE DEF g
        <5>4. QED BY <4>1, <4>2, <4>4, <5>3
      <4>5. QED BY <4>3, <4>4
    <3>3. QED BY <3>1, <3>2
  <2>6. g = [S \in SUBSET (1 .. m + 1) |-> g[S]]
    OBVIOUS
  <2> HIDE DEF g
  <2>7. IsFold(g, s, 1 .. m + 1)
    BY <2>5, <2>6 DEF IsFold
  <2>8. QED BY <2>7
<1> HIDE DEF T
<1>3. n \in T
  BY <1>1, <1>2, SetInduction
<1>4. QED BY <1>3 DEF T

(* Folding no page, and one page more.                                      *)
LEMMA RowsStep ==
  /\ RowsOf(<<>>) = EmptyStore
  /\ \A T : \A s \in Seq(T) : \A x \in T : RowsOf(Append(s, x)) = AddPage(RowsOf(s), x)
<1> DEFINE Is(f, s) == IsFold(f, s, DOMAIN s)
           F(s) == CHOOSE f : Is(f, s)
<1>1. ASSUME NEW T, NEW s \in Seq(T)
      PROVE  /\ F(s)[1 .. 0] = EmptyStore
             /\ \A k \in Nat : k + 1 <= Len(s) =>
                  F(s)[1 .. k + 1] = AddPage(F(s)[1 .. k], s[k + 1])
  <2>1. DOMAIN s = 1 .. Len(s) /\ Len(s) \in Nat
    OBVIOUS
  <2>2. \E f : Is(f, s)
    BY <2>1, FoldExists
  <2>3. Is(F(s), s)
    BY <2>2
  <2> DEFINE f == F(s)
  <2> HIDE DEF f
  <2>4. f = [S \in SUBSET (1 .. Len(s)) |->
               IF S = {} THEN EmptyStore ELSE AddPage(f[S \ {Max(S)}], s[Max(S)])]
    BY <2>1, <2>3 DEF f, IsFold
  <2>5. f[1 .. 0] = EmptyStore
    <3>1. 1 .. 0 = {} /\ {} \in SUBSET (1 .. Len(s))
      OBVIOUS
    <3>2. f[{}] = EmptyStore
      BY <2>4, <3>1
    <3>3. QED BY <3>1, <3>2
  <2>6. ASSUME NEW k \in Nat, k + 1 <= Len(s)
        PROVE  f[1 .. k + 1] = AddPage(f[1 .. k], s[k + 1])
    <3>1. Max(1 .. k + 1) = k + 1
      BY HighestOfFirst
    <3>2. 1 .. k + 1 # {} /\ (1 .. k + 1) \ {k + 1} = 1 .. k
      OBVIOUS
    <3>3. 1 .. k + 1 \in SUBSET (1 .. Len(s))
      BY <2>1, <2>6
    <3>4. f[1 .. k + 1] = AddPage(f[(1 .. k + 1) \ {Max(1 .. k + 1)}], s[Max(1 .. k + 1)])
      BY <2>4, <3>2, <3>3
    <3>5. QED BY <3>1, <3>2, <3>4
  <2>7. QED BY <2>5, <2>6 DEF f
<1>2. \A T : \A s \in Seq(T) : RowsOf(s) = F(s)[1 .. Len(s)]
  <2>1. ASSUME NEW T, NEW s \in Seq(T) PROVE RowsOf(s) = F(s)[1 .. Len(s)]
    <3>1. DOMAIN s = 1 .. Len(s)
      OBVIOUS
    <3>2. QED BY <3>1, RowsAreFold
  <2>2. QED BY <2>1
<1> HIDE DEF F
<1>3. RowsOf(<<>>) = EmptyStore
  <2>1. <<>> \in Seq({}) /\ Len(<<>>) = 0
    OBVIOUS
  <2>2. RowsOf(<<>>) = F(<<>>)[1 .. 0]
    BY <1>2, <2>1
  <2>3. QED BY <1>1, <2>1, <2>2
<1>4. ASSUME NEW T, NEW s \in Seq(T), NEW x \in T
      PROVE  RowsOf(Append(s, x)) = AddPage(RowsOf(s), x)
  <2> DEFINE a == Append(s, x)
             n == Len(s)
             S == {k \in Nat : k <= n => F(a)[1 .. k] = F(s)[1 .. k]}
  <2>1. /\ a \in Seq(T) /\ n \in Nat /\ Len(a) = n + 1 /\ a[n + 1] = x
        /\ \A k \in 1 .. n : a[k] = s[k]
    OBVIOUS
  <2> HIDE DEF a, n
  <2>2. 0 \in S
    BY <1>1, <2>1
  <2>3. ASSUME NEW k \in Nat, k \in S PROVE k + 1 \in S
    <3>1. SUFFICES ASSUME k + 1 <= n PROVE F(a)[1 .. k + 1] = F(s)[1 .. k + 1]
      OBVIOUS
    <3>2. F(a)[1 .. k] = F(s)[1 .. k]
      BY <2>1, <2>3, <3>1
    <3>3. k + 1 <= Len(a) /\ k + 1 \in 1 .. n
      BY <2>1, <3>1
    <3>4. F(a)[1 .. k + 1] = AddPage(F(a)[1 .. k], a[k + 1])
      BY <1>1, <2>1, <3>3
    <3>5. F(s)[1 .. k + 1] = AddPage(F(s)[1 .. k], s[k + 1])
      BY <1>1, <3>1 DEF n
    <3>6. QED BY <2>1, <3>2, <3>3, <3>4, <3>5
  <2> HIDE DEF S
  <2>4. n \in S
    BY <2>1, <2>2, <2>3, SetInduction
  <2>5. F(a)[1 .. n] = F(s)[1 .. n]
    BY <2>1, <2>4 DEF S
  <2>6. F(a)[1 .. n + 1] = AddPage(F(a)[1 .. n], x)
    BY <1>1, <2>1
  <2>7. RowsOf(a) = F(a)[1 .. n + 1] /\ RowsOf(s) = F(s)[1 .. n]
    BY <1>2, <2>1 DEF n
  <2>8. QED BY <2>5, <2>6, <2>7 DEF a
<1>5. QED BY <1>3, <1>4

(* Induction over sequences: a property is the set of sequences that have   *)
(* it.                                                                      *)
LEMMA AppendInduction ==
  ASSUME NEW P, NEW G, <<>> \in G,
         \A s \in Seq(P) : \A x \in P : s \in G => Append(s, x) \in G
  PROVE  Seq(P) \subseteq G
<1> DEFINE S == {n \in Nat : \A s \in Seq(P) : Len(s) = n => s \in G}
<1>1. 0 \in S
  <2>1. \A s \in Seq(P) : Len(s) = 0 => s = <<>>
    BY EmptySeq
  <2>2. QED BY <2>1
<1>2. ASSUME NEW n \in Nat, n \in S PROVE n + 1 \in S
  <2>1. SUFFICES ASSUME NEW s \in Seq(P), Len(s) = n + 1 PROVE s \in G
    OBVIOUS
  <2>2. s # <<>>
    BY <2>1
  <2>3. PICK r \in Seq(P) : \E x \in P : s = Append(r, x)
    BY <2>2, SequenceEmptyOrAppend
  <2>4. PICK x \in P : s = Append(r, x)
    BY <2>3
  <2>5. Len(r) = n
    BY <2>1, <2>4
  <2>6. r \in G
    BY <1>2, <2>5
  <2>7. QED BY <2>4, <2>6
<1> HIDE DEF S
<1>3. Nat \subseteq S
  BY <1>1, <1>2, SetInduction
<1>4. ASSUME NEW s \in Seq(P) PROVE s \in G
  <2>1. Len(s) \in Nat
    OBVIOUS
  <2>2. Len(s) \in S
    BY <1>3, <2>1
  <2>3. QED BY <2>2 DEF S
<1>5. QED BY <1>4

(* The rows of two parts of a dump, table by table.                         *)
Joined(a, b) ==
  [documents |-> a.documents \o b.documents,
   chunks |-> a.chunks \cup b.chunks,
   fts |-> a.fts \o b.fts,
   aliases |-> a.aliases \cup b.aliases,
   links |-> a.links \cup b.links]

TextOf(P) == UNION {Range(p.chunks) : p \in P}
RowsOk(r, P) ==
  /\ r = [documents |-> r.documents, chunks |-> r.chunks, fts |-> r.fts,
          aliases |-> r.aliases, links |-> r.links]
  /\ r.documents \in Seq(P) /\ r.fts \in Seq(TextOf(P))

(* The tables that are lists are lists.                                     *)
LEMMA RowsTyped ==
  ASSUME NEW P, \A p \in P : p.chunks \in Seq(Range(p.chunks))
  PROVE  \A s \in Seq(P) : RowsOk(RowsOf(s), P)
<1> DEFINE G == {s \in Seq(P) : RowsOk(RowsOf(s), P)}
<1>1. <<>> \in G
  <2>1. <<>> \in Seq(P) /\ <<>> \in Seq(TextOf(P))
    OBVIOUS
  <2>2. EmptyStore.documents = <<>> /\ EmptyStore.fts = <<>>
    BY DEF EmptyStore
  <2>3. RowsOk(EmptyStore, P)
    BY <2>1, <2>2 DEF RowsOk, EmptyStore
  <2>4. QED BY <2>1, <2>3, RowsStep
<1>2. ASSUME NEW s \in Seq(P), NEW x \in P, s \in G PROVE Append(s, x) \in G
  <2>1. RowsOf(Append(s, x)) = AddPage(RowsOf(s), x)
    BY RowsStep
  <2>2. x.chunks \in Seq(TextOf(P))
    <3>1. Range(x.chunks) \subseteq TextOf(P)
      BY DEF TextOf
    <3>2. QED BY <3>1, SeqMonotonic
  <2> DEFINE r == RowsOf(s)
             a == AddPage(r, x)
  <2>5. r.documents \in Seq(P) /\ r.fts \in Seq(TextOf(P))
    BY <1>2 DEF RowsOk
  <2> HIDE DEF r
  <2>6. a.documents \in Seq(P) /\ a.fts \in Seq(TextOf(P))
    BY <2>2, <2>5 DEF AddPage
  <2>7. a = [documents |-> a.documents, chunks |-> a.chunks, fts |-> a.fts,
             aliases |-> a.aliases, links |-> a.links]
    BY DEF AddPage
  <2>3. RowsOk(AddPage(RowsOf(s), x), P)
    BY <2>6, <2>7 DEF RowsOk, r
  <2>4. QED BY <2>1, <2>3
<1> HIDE DEF G
<1>3. Seq(P) \subseteq G
  BY <1>1, <1>2, AppendInduction
<1>4. QED BY <1>3 DEF G

(* A part and one more.                                                     *)
LEMMA ConcatAppend ==
  ASSUME NEW P, NEW s \in Seq(P), NEW t \in Seq(P), NEW x \in P
  PROVE  s \o Append(t, x) = Append(s \o t, x) /\ s \o t \in Seq(P)
<1>1. s \o t \in Seq(P) /\ <<x>> \in Seq(P)
  OBVIOUS
<1>2. Append(t, x) = t \o <<x>> /\ Append(s \o t, x) = (s \o t) \o <<x>>
  BY <1>1, AppendIsConcat
<1>3. QED BY <1>1, <1>2, ConcatAssociative

(* The rows of a whole are the rows of its parts.                           *)
LEMMA RowsJoined ==
  ASSUME NEW P, \A p \in P : p.chunks \in Seq(Range(p.chunks)), NEW s \in Seq(P)
  PROVE  \A t \in Seq(P) : RowsOf(s \o t) = Joined(RowsOf(s), RowsOf(t))
<1> DEFINE G == {t \in Seq(P) : RowsOf(s \o t) = Joined(RowsOf(s), RowsOf(t))}
<1>1. <<>> \in G
  <2>1. s \o <<>> = s
    OBVIOUS
  <2>2. RowsOk(RowsOf(s), P)
    BY RowsTyped
  <2>3. RowsOf(<<>>) = EmptyStore
    BY RowsStep
  <2> DEFINE r == RowsOf(s)
  <2>6. r.documents \o <<>> = r.documents /\ r.fts \o <<>> = r.fts
    BY <2>2 DEF RowsOk
  <2>7. r = [documents |-> r.documents, chunks |-> r.chunks, fts |-> r.fts,
             aliases |-> r.aliases, links |-> r.links]
    BY <2>2 DEF RowsOk
  <2> HIDE DEF r
  <2>8. Joined(r, EmptyStore) = r
    BY <2>6, <2>7 DEF Joined, EmptyStore
  <2>4. Joined(RowsOf(s), EmptyStore) = RowsOf(s)
    BY <2>8 DEF r
  <2>5. QED BY <2>1, <2>3, <2>4
<1>2. ASSUME NEW t \in Seq(P), NEW x \in P, t \in G PROVE Append(t, x) \in G
  <2> DEFINE a == RowsOf(s)
             b == RowsOf(t)
             U == TextOf(P)
  <2>1. RowsOk(a, P) /\ RowsOk(b, P)
    BY RowsTyped
  <2>2. s \o Append(t, x) = Append(s \o t, x) /\ s \o t \in Seq(P)
    BY ConcatAppend
  <2>3. RowsOf(Append(s \o t, x)) = AddPage(RowsOf(s \o t), x)
    BY <2>2, RowsStep
  <2>4. RowsOf(Append(t, x)) = AddPage(b, x)
    BY RowsStep
  <2>5. RowsOf(s \o t) = Joined(a, b)
    BY <1>2
  <2>6. x.chunks \in Seq(U)
    <3>1. Range(x.chunks) \subseteq U
      BY DEF TextOf
    <3>2. QED BY <3>1, SeqMonotonic
  <2>7. /\ a.documents \in Seq(P) /\ b.documents \in Seq(P)
        /\ a.fts \in Seq(U) /\ b.fts \in Seq(U)
    BY <2>1 DEF RowsOk
  <2> HIDE DEF a, b, U
  <2>8. a.documents \o Append(b.documents, x) = Append(a.documents \o b.documents, x)
    <3>1. ASSUME NEW f \in Seq(P), NEW g \in Seq(P)
          PROVE  f \o Append(g, x) = Append(f \o g, x)
      BY ConcatAppend
    <3>2. QED BY <2>7, <3>1, Zenon
  <2>9. (a.fts \o b.fts) \o x.chunks = a.fts \o (b.fts \o x.chunks)
    <3>1. \A f, g, h \in Seq(U) : (f \o g) \o h = f \o (g \o h)
      BY ConcatAssociative
    <3>2. QED BY <2>6, <2>7, <3>1, Zenon
  <2>10. AddPage(Joined(a, b), x) = Joined(a, AddPage(b, x))
    <3> DEFINE c == AddPage(Joined(a, b), x)
               d == Joined(a, AddPage(b, x))
    <3>1. c.documents = d.documents /\ c.fts = d.fts
      BY <2>8, <2>9 DEF AddPage, Joined
    <3>2. c.chunks = d.chunks /\ c.aliases = d.aliases /\ c.links = d.links
      <4>1. \A X, Y, Z : (X \cup Y) \cup Z = X \cup (Y \cup Z)
        OBVIOUS
      <4>2. QED BY <4>1, Zenon DEF AddPage, Joined
    <3>3. /\ c = [documents |-> c.documents, chunks |-> c.chunks, fts |-> c.fts,
                 aliases |-> c.aliases, links |-> c.links]
          /\ d = [documents |-> d.documents, chunks |-> d.chunks, fts |-> d.fts,
                 aliases |-> d.aliases, links |-> d.links]
      BY DEF AddPage, Joined
    <3> HIDE DEF c, d
    <3>4. c = d
      BY <3>1, <3>2, <3>3
    <3>5. QED BY <3>4 DEF c, d
  <2>11. RowsOf(s \o Append(t, x)) = Joined(a, RowsOf(Append(t, x)))
    BY <2>2, <2>3, <2>4, <2>5, <2>10
  <2>12. Append(t, x) \in Seq(P)
    OBVIOUS
  <2>13. QED BY <2>11, <2>12 DEF a
<1> HIDE DEF G
<1>3. Seq(P) \subseteq G
  BY <1>1, <1>2, AppendInduction
<1>4. QED BY <1>3 DEF G

(* The places where the ranges of the workers begin and end.                *)
Edge(limit, n, i) == (i * limit) \div n

(* The ranges begin at 0, end at the limit and do not run backwards.        *)
LEMMA Edges ==
  ASSUME NEW limit \in Nat, NEW n \in Nat \ {0}
  PROVE  /\ Edge(limit, n, 0) = 0 /\ Edge(limit, n, n) = limit
         /\ \A i \in Nat : Edge(limit, n, i) \in Nat /\ Edge(limit, n, i) <= Edge(limit, n, i + 1)
<1>1. \A x, y \in Nat : x <= y => x \div n <= y \div n /\ x \div n \in Nat
  OBVIOUS
<1>2. \A i \in Nat : i * limit \in Nat /\ (i + 1) * limit \in Nat /\ i * limit <= (i + 1) * limit
  OBVIOUS
<1>3. \A i \in Nat : Edge(limit, n, i) \in Nat /\ Edge(limit, n, i) <= Edge(limit, n, i + 1)
  BY <1>1, <1>2, Zenon DEF Edge
<1>4. (0 * limit) \div n = 0
  OBVIOUS
<1>5. (n * limit) \div n = limit
  OBVIOUS
<1>6. QED BY <1>3, <1>4, <1>5 DEF Edge

(* The pages of a dump from one place to another, as far as there are any.  *)
Cut(d, k) == IF k <= Len(d) THEN k ELSE Len(d)
Part(d, a, b) == SubSeq(d, Cut(d, a) + 1, Cut(d, b))

(* A part is made of pages, grows page by page and reaches what lies in it. *)
LEMMA Parts ==
  ASSUME NEW P, NEW d \in Seq(P), NEW a \in Nat, NEW b \in Nat, a <= b
  PROVE  /\ Part(d, a, b) \in Seq(P) /\ Part(d, a, a) = <<>>
         /\ Len(Part(d, 0, b)) = Cut(d, b) /\ Part(d, 0, b) = SubSeq(d, 1, Cut(d, b))
         /\ Part(d, 0, a) \o Part(d, a, b) = Part(d, 0, b)
         /\ b < Len(d) => Part(d, a, b + 1) = Append(Part(d, a, b), d[b + 1]) /\ d[b + 1] \in P
<1> DEFINE n == Len(d)
           x == Cut(d, a)
           y == Cut(d, b)
<1>1. n \in Nat /\ \A i \in 1 .. n : d[i] \in P
  OBVIOUS
<1> HIDE DEF n
<1>2. x \in 0 .. n /\ y \in x .. n /\ Cut(d, 0) = 0
  BY <1>1 DEF Cut, n
<1> HIDE DEF x, y
<1>3. x + 1 \in 1 .. n + 1 /\ y \in (x + 1) - 1 .. n /\ x \in 0 .. n
  BY <1>1, <1>2
<1>4. \A i \in x + 1 .. y : d[i] \in P
  BY <1>1, <1>2
<1>5. Part(d, a, b) \in Seq(P)
  BY <1>3, <1>4, SubSeqProperties DEF Part, x, y
<1>6. Part(d, a, a) = <<>>
  <2>1. x + 1 \in Int /\ x \in Int /\ x < x + 1
    BY <1>1, <1>3
  <2>2. SubSeq(d, x + 1, x) = <<>>
    BY <2>1, SubSeqEmpty
  <2>3. QED BY <2>2 DEF Part, x
<1>7. Part(d, 0, b) = SubSeq(d, 1, y) /\ Part(d, 0, a) = SubSeq(d, 1, x)
  <2>1. Cut(d, 0) + 1 = 1
    BY <1>2
  <2>2. QED BY <2>1 DEF Part, x, y
<1>8. Len(SubSeq(d, 1, y)) = y
  <2>1. \A i \in 1 .. y : d[i] \in P
    BY <1>1, <1>2
  <2>2. 1 \in Int /\ y \in Int /\ y \in Nat
    BY <1>1, <1>2
  <2>3. Len(SubSeq(d, 1, y)) = IF 1 <= y THEN y - 1 + 1 ELSE 0
    BY <2>1, <2>2, SubSeqProperties
  <2>4. QED BY <2>2, <2>3
<1>9. SubSeq(d, 1, x) \o SubSeq(d, x + 1, y) = SubSeq(d, 1, y)
  <2>1. 1 \in 1 .. Len(d) + 1 /\ x \in 1 - 1 .. Len(d) /\ y \in x .. Len(d)
    BY <1>1, <1>2 DEF n
  <2>2. QED BY <2>1, ConcatAdjacentSubSeq
<1>10. ASSUME b < n
       PROVE  Part(d, a, b + 1) = Append(Part(d, a, b), d[b + 1]) /\ d[b + 1] \in P
  <2>1. x = a /\ y = b /\ Cut(d, b + 1) = b + 1
    BY <1>1, <1>10 DEF Cut, x, y, n
  <2>2. a + 1 \in 1 .. Len(d) /\ b + 1 \in a + 1 .. Len(d) /\ b + 1 \in 1 .. n
    BY <1>1, <1>10 DEF n
  <2>3. SubSeq(d, a + 1, b + 1) = SubSeq(d, a + 1, (b + 1) - 1) \o <<d[b + 1]>>
    BY <2>2, SubSeqRecursiveSecond
  <2>4. (b + 1) - 1 = b /\ d[b + 1] \in P
    BY <1>1, <2>2
  <2>5. Part(d, a, b) = SubSeq(d, a + 1, b) /\ Part(d, a, b + 1) = SubSeq(d, a + 1, b + 1)
    BY <2>1 DEF Part, x, y
  <2>6. Append(Part(d, a, b), d[b + 1]) = Part(d, a, b) \o <<d[b + 1]>>
    BY <1>5, <2>4, AppendIsConcat
  <2>7. QED BY <2>3, <2>4, <2>5, <2>6
<1>12. QED BY <1>5, <1>6, <1>7, <1>8, <1>9, <1>10 DEF Part, x, y, n

(* What precedes a part and the part.                                       *)
LEMMA PartsJoin ==
  ASSUME NEW P, NEW d \in Seq(P), NEW a \in Nat, NEW b \in Nat, a <= b
  PROVE  Part(d, 0, a) \o Part(d, a, b) = Part(d, 0, b)
BY Parts

(* Beyond the last page there is none.                                      *)
LEMMA PartPast ==
  ASSUME NEW P, NEW d \in Seq(P), NEW a, NEW b \in Nat, NEW c \in Nat, b >= Len(d), c >= b
  PROVE  Part(d, a, c) = Part(d, a, b)
<1>1. Len(d) \in Nat
  OBVIOUS
<1>2. Cut(d, c) = Cut(d, b)
  BY <1>1 DEF Cut
<1>3. QED BY <1>2 DEF Part

(* What a worker has made of the pages it read.                             *)
Redirecting(pages) == {p \in Range(pages) : p.redirect # NoTitle}
AnchorsOf(pages) == UNION {p.anchors : p \in Range(pages)}
Collected(pages) ==
  [rows |-> RowsOf(pages), redirects |-> Redirecting(pages),
   anchors |-> AnchorsOf(pages), articles |-> Len(pages)]
WithPage(found, page) ==
  [rows |-> AddPage(found.rows, page),
   redirects |-> IF page.redirect = NoTitle THEN found.redirects
                 ELSE found.redirects \cup {page},
   anchors |-> found.anchors \cup page.anchors,
   articles |-> found.articles + 1]

(* No page, nothing collected.                                              *)
LEMMA CollectedNothing == Collected(<<>>) = NothingRead
<1>1. Range(<<>>) = {}
  BY DEF Range
<1>2. AnchorsOf(<<>>) = {} /\ Redirecting(<<>>) = {}
  BY <1>1 DEF AnchorsOf, Redirecting
<1>3. QED BY <1>2, RowsStep DEF Collected, NothingRead

(* The lists and the number of two parts.                                   *)
LEMMA CollectedParts ==
  ASSUME NEW P, NEW s \in Seq(P), NEW t \in Seq(P)
  PROVE  /\ Redirecting(s \o t) = Redirecting(s) \cup Redirecting(t)
         /\ AnchorsOf(s \o t) = AnchorsOf(s) \cup AnchorsOf(t)
         /\ Len(s \o t) = Len(s) + Len(t)
<1>1. Range(s \o t) = Range(s) \cup Range(t)
  BY RangeConcatenation
<1>2. Redirecting(s \o t) = Redirecting(s) \cup Redirecting(t)
  BY <1>1 DEF Redirecting
<1>3. AnchorsOf(s \o t) = AnchorsOf(s) \cup AnchorsOf(t)
  BY <1>1 DEF AnchorsOf
<1>4. QED BY <1>2, <1>3

(* One page more.                                                           *)
LEMMA CollectedPage ==
  ASSUME NEW P, NEW s \in Seq(P), NEW x \in P
  PROVE  Collected(Append(s, x)) = WithPage(Collected(s), x)
<1>1. Append(s, x) = s \o <<x>> /\ <<x>> \in Seq(P)
  BY AppendIsConcat
<1>2. Range(<<x>>) = {x}
  BY DEF Range
<1>3. Redirecting(<<x>>) = IF x.redirect = NoTitle THEN {} ELSE {x}
  BY <1>2 DEF Redirecting
<1>4. AnchorsOf(<<x>>) = x.anchors
  BY <1>2 DEF AnchorsOf
<1>6. /\ Redirecting(Append(s, x)) = IF x.redirect = NoTitle THEN Redirecting(s)
                                      ELSE Redirecting(s) \cup {x}
      /\ AnchorsOf(Append(s, x)) = AnchorsOf(s) \cup x.anchors
      /\ Len(Append(s, x)) = Len(s) + 1
  <2>1. /\ Redirecting(s \o <<x>>) = Redirecting(s) \cup Redirecting(<<x>>)
        /\ AnchorsOf(s \o <<x>>) = AnchorsOf(s) \cup AnchorsOf(<<x>>)
    <3>1. \A u \in Seq(P) : /\ Redirecting(s \o u) = Redirecting(s) \cup Redirecting(u)
                            /\ AnchorsOf(s \o u) = AnchorsOf(s) \cup AnchorsOf(u)
      BY CollectedParts
    <3>2. QED BY <1>1, <3>1, Zenon
  <2>2. Len(Append(s, x)) = Len(s) + 1
    OBVIOUS
  <2>3. Redirecting(s) \cup {} = Redirecting(s)
    OBVIOUS
  <2>4. QED BY <1>1, <1>3, <1>4, <2>1, <2>2, <2>3, Zenon
<1>7. RowsOf(Append(s, x)) = AddPage(RowsOf(s), x)
  BY RowsStep
<1>8. Collected(Append(s, x)) = WithPage(Collected(s), x)
  BY <1>6, <1>7, Zenon DEF Collected, WithPage
<1>9. QED BY <1>8

(* A worker has collected its pages up to the next, has no page left when   *)
(* it writes, and has left them in its file when it is done.                *)
WorkerOk(d, limit, n, i, w, files) ==
  /\ DOMAIN w = {"at", "next", "to", "found"}
  /\ w.next \in Nat /\ Edge(limit, n, i) <= w.next /\ w.next <= w.to
  /\ w.to = Edge(limit, n, i + 1)
  /\ w.found = Collected(Part(d, Edge(limit, n, i), w.next))
  /\ w.at # "reading" => ~ (w.next < w.to /\ w.next < Len(d))
  /\ w.at = "done" => i \in DOMAIN files /\ files[i] = w.found

WorkersOk(d, limit, n, ws, files) ==
  /\ DOMAIN ws = 0 .. n - 1 /\ ws = [i \in 0 .. n - 1 |-> ws[i]]
  /\ \A i \in 0 .. n - 1 : WorkerOk(d, limit, n, i, ws[i], files)

(* A worker starts with nothing read.                                       *)
LEMMA WorkerStarts ==
  ASSUME NEW P, NEW d \in Seq(P), NEW limit \in Nat, NEW n \in Nat \ {0}, NEW i \in Nat,
         NEW files, NEW w,
         w = [at |-> "reading", next |-> Edge(limit, n, i), to |-> Edge(limit, n, i + 1),
              found |-> NothingRead]
  PROVE  WorkerOk(d, limit, n, i, w, files)
<1>1. Edge(limit, n, i) \in Nat /\ Edge(limit, n, i) <= Edge(limit, n, i + 1)
  BY Edges
<1>2. Part(d, Edge(limit, n, i), Edge(limit, n, i)) = <<>>
  BY <1>1, Parts
<1>3. Collected(<<>>) = NothingRead
  BY <1>2, RowsStep, CollectedNothing
<1>4. /\ w.at = "reading" /\ w.next = Edge(limit, n, i) /\ w.to = Edge(limit, n, i + 1)
      /\ w.found = NothingRead
  OBVIOUS
<1>5. QED BY <1>1, <1>2, <1>3, <1>4 DEF WorkerOk

(* A worker reads its next page.                                            *)
LEMMA WorkerReads ==
  ASSUME NEW P, NEW d \in Seq(P), NEW limit \in Nat, NEW n \in Nat \ {0}, NEW i \in Nat,
         NEW files, NEW w, WorkerOk(d, limit, n, i, w, files),
         w.at = "reading", w.next < w.to, w.next < Len(d),
         NEW v,
         v = [w EXCEPT !.next = w.next + 1, !.found = WithPage(w.found, d[w.next + 1])]
  PROVE  WorkerOk(d, limit, n, i, v, files)
<1>1. /\ Edge(limit, n, i) \in Nat /\ Edge(limit, n, i + 1) \in Nat
  <2>1. \A j \in Nat : Edge(limit, n, j) \in Nat
    BY Edges
  <2>2. i + 1 \in Nat
    OBVIOUS
  <2>3. QED BY <2>1, <2>2, Zenon
<1> DEFINE a == Edge(limit, n, i)
           b == w.next
<1>2. /\ b \in Nat /\ a <= b /\ b < w.to /\ w.to = Edge(limit, n, i + 1)
      /\ w.found = Collected(Part(d, a, b))
  BY DEF WorkerOk
<1> HIDE DEF a, b
<1>3. /\ Part(d, a, b + 1) = Append(Part(d, a, b), d[b + 1]) /\ d[b + 1] \in P
      /\ Part(d, a, b) \in Seq(P)
  <2>1. \A x, y \in Nat : x <= y =>
           /\ Part(d, x, y) \in Seq(P)
           /\ y < Len(d) => Part(d, x, y + 1) = Append(Part(d, x, y), d[y + 1]) /\ d[y + 1] \in P
    BY Parts
  <2>2. a \in Nat /\ b \in Nat /\ a <= b /\ b < Len(d)
    BY <1>1, <1>2 DEF a, b
  <2>3. QED BY <2>1, <2>2, Zenon
<1>4. Collected(Part(d, a, b + 1)) = WithPage(Collected(Part(d, a, b)), d[b + 1])
  <2>1. \A s \in Seq(P) : \A x \in P : Collected(Append(s, x)) = WithPage(Collected(s), x)
    BY CollectedPage
  <2>2. QED BY <1>3, <2>1
<1>5. /\ v.at = "reading" /\ v.next = b + 1 /\ v.to = w.to
      /\ v.found = WithPage(w.found, d[b + 1])
  <2>1. DOMAIN w = {"at", "next", "to", "found"}
    BY DEF WorkerOk
  <2>2. QED BY <2>1 DEF b
<1>6. b + 1 \in Nat /\ a <= b + 1 /\ b + 1 <= w.to
  <2>1. w.to \in Nat /\ a \in Nat
    BY <1>1, <1>2 DEF a
  <2>2. \A x, y, z \in Nat : x <= y /\ y < z => y + 1 \in Nat /\ x <= y + 1 /\ y + 1 <= z
    OBVIOUS
  <2>3. QED BY <1>2, <2>1, <2>2, Zenon
<1>7. DOMAIN v = {"at", "next", "to", "found"}
  BY DEF WorkerOk
<1>8. QED BY <1>1, <1>2, <1>4, <1>5, <1>6, <1>7 DEF WorkerOk, a

(* When a worker is done its file holds its whole range.                    *)
LEMMA WorkerDone ==
  ASSUME NEW P, NEW d \in Seq(P), NEW limit \in Nat, NEW n \in Nat \ {0}, NEW i \in Nat,
         NEW files, NEW w, WorkerOk(d, limit, n, i, w, files), w.at = "done"
  PROVE  /\ files[i] = w.found
         /\ w.found = Collected(Part(d, Edge(limit, n, i), Edge(limit, n, i + 1)))
<1> DEFINE a == Edge(limit, n, i)
           b == w.next
           c == Edge(limit, n, i + 1)
<1>1. a \in Nat /\ c \in Nat
  BY Edges
<1>2. /\ b \in Nat /\ a <= b /\ b <= c /\ w.found = Collected(Part(d, a, b))
      /\ ~ (b < c /\ b < Len(d)) /\ files[i] = w.found
  BY DEF WorkerOk
<1> HIDE DEF a, b, c
<1>3. Part(d, a, c) = Part(d, a, b)
  <2>1. CASE b = c
    BY <2>1
  <2>2. CASE b # c
    <3>1. b >= Len(d) /\ c >= b
      BY <1>1, <1>2, <2>2
    <3>3. QED BY <1>1, <1>2, <3>1, PartPast
  <2>3. QED BY <2>1, <2>2
<1>4. QED BY <1>2, <1>3 DEF a, b, c

(* The output holds the pages of the shards merged so far, and these        *)
(* shards' lists are what those pages give.                                 *)
MergedOk(d, limit, n, k, files, m) ==
  LET pages == Part(d, 0, Edge(limit, n, k))
  IN  /\ DOMAIN m = {"rows", "semantic", "articles"}
      /\ m.rows = RowsOf(pages) /\ m.articles = Len(pages)
      /\ UNION {files[i].redirects : i \in 0 .. k - 1} = Redirecting(pages)
      /\ UNION {files[i].anchors : i \in 0 .. k - 1} = AnchorsOf(pages)

(* No shard is merged yet.                                                  *)
LEMMA MergeBegins ==
  ASSUME NEW P, NEW d \in Seq(P), NEW limit \in Nat, NEW n \in Nat \ {0}, NEW files
  PROVE  MergedOk(d, limit, n, 0, files, EmptyOutput)
<1>1. Edge(limit, n, 0) = 0
  BY Edges, Zenon
<1>2. Part(d, 0, Edge(limit, n, 0)) = <<>>
  <2>1. \A x \in Nat : x <= x => Part(d, x, x) = <<>>
    BY Parts
  <2>2. 0 \in Nat /\ 0 <= 0
    OBVIOUS
  <2>3. QED BY <1>1, <2>1, <2>2, Zenon
<1>3. Collected(<<>>) = NothingRead
  BY CollectedNothing
<1>4. /\ RowsOf(<<>>) = EmptyStore /\ Redirecting(<<>>) = {}
      /\ AnchorsOf(<<>>) = {} /\ Len(<<>>) = 0
  BY <1>3 DEF Collected, NothingRead
<1>5. 0 .. 0 - 1 = {}
  OBVIOUS
<1>6. /\ UNION {files[i].redirects : i \in 0 .. 0 - 1} = {}
      /\ UNION {files[i].anchors : i \in 0 .. 0 - 1} = {}
  BY <1>5
<1>7. QED BY <1>2, <1>4, <1>6 DEF MergedOk, EmptyOutput

(* A union and one more.                                                    *)
LEMMA UnionAdd == \A X, y : UNION (X \cup {y}) = (UNION X) \cup y
OBVIOUS

(* One shard more.                                                          *)
LEMMA MergeGoesOn ==
  ASSUME NEW P, \A p \in P : p.chunks \in Seq(Range(p.chunks)),
         NEW d \in Seq(P), NEW limit \in Nat, NEW n \in Nat \ {0}, NEW k \in Nat,
         NEW files, NEW m, MergedOk(d, limit, n, k, files, m), NEW keys,
         files[k] = Collected(Part(d, Edge(limit, n, k), Edge(limit, n, k + 1))),
         NEW v,
         v = [rows |-> Joined(m.rows, files[k].rows), semantic |-> keys,
              articles |-> m.articles + files[k].articles]
  PROVE  MergedOk(d, limit, n, k + 1, files, v)
<1> DEFINE a == Edge(limit, n, k)
           b == Edge(limit, n, k + 1)
           s == Part(d, 0, a)
           t == Part(d, a, b)
<1>1. a \in Nat /\ b \in Nat /\ a <= b
  <2>1. \A i \in Nat : Edge(limit, n, i) \in Nat /\ Edge(limit, n, i) <= Edge(limit, n, i + 1)
    BY Edges
  <2>2. k + 1 \in Nat
    OBVIOUS
  <2>3. QED BY <2>1, <2>2, Zenon
<1> HIDE DEF a, b
<1>2. s \in Seq(P) /\ t \in Seq(P) /\ s \o t = Part(d, 0, b)
  <2>1. \A x, y \in Nat : x <= y => Part(d, x, y) \in Seq(P)
    BY Parts
  <2>2. 0 <= a /\ 0 \in Nat
    BY <1>1
  <2>3. Part(d, 0, a) \o Part(d, a, b) = Part(d, 0, b)
    BY <1>1, PartsJoin
  <2>4. QED BY <1>1, <2>1, <2>2, <2>3, Zenon
<1>3. /\ m.rows = RowsOf(s) /\ m.articles = Len(s)
      /\ UNION {files[i].redirects : i \in 0 .. k - 1} = Redirecting(s)
      /\ UNION {files[i].anchors : i \in 0 .. k - 1} = AnchorsOf(s)
  BY DEF MergedOk, a
<1>4. files[k] = Collected(t)
  BY DEF a, b
<1> HIDE DEF s, t
<1>5. /\ files[k].rows = RowsOf(t) /\ files[k].articles = Len(t)
      /\ files[k].redirects = Redirecting(t) /\ files[k].anchors = AnchorsOf(t)
  BY <1>4 DEF Collected
<1>6. v.rows = RowsOf(s \o t)
  <2>1. \A x \in Seq(P) : \A y \in Seq(P) : RowsOf(x \o y) = Joined(RowsOf(x), RowsOf(y))
    BY RowsJoined
  <2>2. QED BY <1>2, <1>3, <1>5, <2>1
<1>7. /\ Redirecting(s \o t) = Redirecting(s) \cup Redirecting(t)
      /\ AnchorsOf(s \o t) = AnchorsOf(s) \cup AnchorsOf(t)
      /\ Len(s \o t) = Len(s) + Len(t)
  <2>1. \A x \in Seq(P) : \A y \in Seq(P) :
          /\ Redirecting(x \o y) = Redirecting(x) \cup Redirecting(y)
          /\ AnchorsOf(x \o y) = AnchorsOf(x) \cup AnchorsOf(y)
          /\ Len(x \o y) = Len(x) + Len(y)
    BY CollectedParts
  <2>2. QED BY <1>2, <2>1, Zenon
<1>8. v.articles = Len(s \o t)
  BY <1>3, <1>5, <1>7
<1>9. UNION {files[i].redirects : i \in 0 .. (k + 1) - 1} = Redirecting(s \o t)
  <2>1. 0 .. (k + 1) - 1 = (0 .. k - 1) \cup {k}
    OBVIOUS
  <2>2. UNION {files[i].redirects : i \in 0 .. (k + 1) - 1}
          = (UNION {files[i].redirects : i \in 0 .. k - 1}) \cup files[k].redirects
    <3> DEFINE g(i) == files[i].redirects
    <3>1. \A A : UNION {g(i) : i \in A \cup {k}} = (UNION {g(i) : i \in A}) \cup g(k)
      <4> HIDE DEF g
      <4>1. SUFFICES ASSUME NEW A
                     PROVE  UNION {g(i) : i \in A \cup {k}} = (UNION {g(i) : i \in A}) \cup g(k)
        OBVIOUS
      <4>2. {g(i) : i \in A \cup {k}} = {g(i) : i \in A} \cup {g(k)}
        OBVIOUS
      <4>3. QED BY <4>2, UnionAdd
    <3>2. QED BY <2>1, <3>1
  <2>3. QED BY <1>3, <1>5, <1>7, <2>2
<1>10. UNION {files[i].anchors : i \in 0 .. (k + 1) - 1} = AnchorsOf(s \o t)
  <2>1. 0 .. (k + 1) - 1 = (0 .. k - 1) \cup {k}
    OBVIOUS
  <2>2. UNION {files[i].anchors : i \in 0 .. (k + 1) - 1}
          = (UNION {files[i].anchors : i \in 0 .. k - 1}) \cup files[k].anchors
    <3> DEFINE g(i) == files[i].anchors
    <3>1. \A A : UNION {g(i) : i \in A \cup {k}} = (UNION {g(i) : i \in A}) \cup g(k)
      <4> HIDE DEF g
      <4>1. SUFFICES ASSUME NEW A
                     PROVE  UNION {g(i) : i \in A \cup {k}} = (UNION {g(i) : i \in A}) \cup g(k)
        OBVIOUS
      <4>2. {g(i) : i \in A \cup {k}} = {g(i) : i \in A} \cup {g(k)}
        OBVIOUS
      <4>3. QED BY <4>2, UnionAdd
    <3>2. QED BY <2>1, <3>1
  <2>3. QED BY <1>3, <1>5, <1>7, <2>2
<1>11. DOMAIN v = {"rows", "semantic", "articles"}
  OBVIOUS
<1>12. QED BY <1>2, <1>6, <1>8, <1>9, <1>10, <1>11 DEF MergedOk, b

(* The serial steps, of any rows and any lists.                             *)
At(s, k) == INSTANCE CorpusStore WITH store <- s, intake <- k

Lists == [redirects |-> AllOf([i \in DOMAIN worker |-> shards[i].redirects]),
          anchors |-> AllOf([i \in DOMAIN worker |-> shards[i].anchors])]
ListsOf(pages) == [redirects |-> Redirecting(pages), anchors |-> AnchorsOf(pages)]

(* The rows with their aliases and targets, if they were chosen so.         *)
Finished(tables, lists, m) ==
  LET aliases == At(tables, lists)!FoldedAliases \cup At(tables, lists)!AnchorAliases
  IN  \E names \in At(tables, lists)!Naming(aliases) :
        m = [tables EXCEPT !.aliases = aliases,
               !.links = {[l EXCEPT !.to = names[l.title]] : l \in @}]

(* The serial steps of the merge are those of its tables and lists.         *)
LEMMA MergeIsAt ==
  /\ Merge!FoldedAliases = At(merged.rows, Lists)!FoldedAliases
  /\ Merge!AnchorAliases = At(merged.rows, Lists)!AnchorAliases
  /\ \A a : Merge!Naming(a) = At(merged.rows, Lists)!Naming(a)
<1>1. Merge!FoldedAliases = At(merged.rows, Lists)!FoldedAliases
  BY ZenonT(90) DEF Merge!FoldedAliases, Merge!Targeted, Merge!Resolve, Merge!Hop, Merge!Follow,
         Merge!TitleDocument, At!FoldedAliases, At!Targeted, At!Resolve, At!Hop, At!Follow,
         At!TitleDocument, Lists
<1>2. Merge!AnchorAliases = At(merged.rows, Lists)!AnchorAliases
  BY ZenonT(90) DEF Merge!AnchorAliases, Merge!ResolvedTitle, Merge!Resolve, Merge!Hop,
         Merge!Follow, Merge!TitleDocument, At!AnchorAliases, At!ResolvedTitle, At!Resolve, At!Hop,
         At!Follow, At!TitleDocument, Lists
<1>3. \A a : Merge!Naming(a) = At(merged.rows, Lists)!Naming(a)
  BY DEF Merge!Naming, Merge!LinkTitles, Merge!Documents, Merge!Range,
         At!Naming, At!LinkTitles, At!Documents, At!Range, Lists
<1>4. QED BY <1>1, <1>2, <1>3

(* So are those of the serial ingestion.                                    *)
LEMMA SerialIsAt ==
  /\ Serial!FoldedAliases = At(SerialRows, ListsOf(SerialPages))!FoldedAliases
  /\ Serial!AnchorAliases = At(SerialRows, ListsOf(SerialPages))!AnchorAliases
  /\ \A a : Serial!Naming(a) = At(SerialRows, ListsOf(SerialPages))!Naming(a)
<1>1. Serial!FoldedAliases = At(SerialRows, ListsOf(SerialPages))!FoldedAliases
  BY ZenonT(90) DEF Serial!FoldedAliases, Serial!Targeted, Serial!Resolve, Serial!Hop,
         Serial!Follow, Serial!TitleDocument, At!FoldedAliases, At!Targeted, At!Resolve, At!Hop, At!Follow,
         At!TitleDocument, ListsOf, Redirecting, AnchorsOf
<1>2. Serial!AnchorAliases = At(SerialRows, ListsOf(SerialPages))!AnchorAliases
  BY ZenonT(90) DEF Serial!AnchorAliases, Serial!ResolvedTitle, Serial!Resolve, Serial!Hop,
         Serial!Follow, Serial!TitleDocument, At!AnchorAliases, At!ResolvedTitle, At!Resolve,
         At!Hop, At!Follow, At!TitleDocument, ListsOf, Redirecting, AnchorsOf
<1>3. \A a : Serial!Naming(a) = At(SerialRows, ListsOf(SerialPages))!Naming(a)
  BY DEF Serial!Naming, Serial!LinkTitles, Serial!Documents, Serial!Range,
         At!Naming, At!LinkTitles, At!Documents, At!Range
<1>4. QED BY <1>1, <1>2, <1>3

(* The invariant of the parallel ingestion.                                 *)
BuildOk(d, c, ws, files, m, n) ==
  /\ n \in Nat \ {0} /\ c.limit \in Nat
  /\ WorkersOk(d, c.limit, n, ws, files)
  /\ c.at = "working" => c.taken = 0
  /\ c.at = "merging" =>
       /\ c.taken \in 0 .. n /\ \A i \in 0 .. n - 1 : ws[i].at = "done"
       /\ MergedOk(d, c.limit, n, c.taken, files, m)
PagesOf(d, c) == SubSeq(d, 1, Cut(d, c.limit))
BuiltOk(d, c, m) ==
  LET pages == PagesOf(d, c)
  IN  m.articles = Len(pages) /\ Finished(RowsOf(pages), ListsOf(pages), m.rows)

ShardInv ==
  /\ dump \in Dumps
  /\ DOMAIN ingest = {"at", "limit", "taken"}
  /\ ingest.at \in {"working", "merging"} =>
       \E n : BuildOk(dump, ingest, worker, shards, merged, n)
  /\ ingest.at = "returned" => ingest.limit \in Nat /\ BuiltOk(dump, ingest, merged)

(* Nothing runs yet.                                                        *)
LEMMA ShardInitInv == dump \in Dumps /\ ShardInit => ShardInv
BY DEF ShardInit, ShardInv, Command

(* A dump and its pages.                                                    *)
LEMMA DumpPages ==
  ASSUME NEW d \in Dumps
  PROVE  d \in Seq(Range(d)) /\ \A p \in Range(d) : p.chunks \in Seq(Range(p.chunks))
BY StoreAssumption

(* There is always a worker, even for a limit of no page.                   *)
LEMMA SomeWorkers ==
  ASSUME NEW limit \in Nat, NEW asked \in Nat
  PROVE  Max({1, Min({asked, limit})}) \in Nat \ {0}
<1> DEFINE S == {asked, limit}
           m == Min(S)
           T == {1, m}
<1>1. \E x \in S : \A y \in S : x <= y
  BY DEF S
<1>2. m \in Nat
  BY <1>1 DEF Min, m
<1> HIDE DEF m
<1>3. \E x \in T : \A y \in T : x >= y
  BY <1>2
<1>4. Max(T) \in T /\ \A y \in T : Max(T) >= y
  BY <1>3 DEF Max
<1>5. Max(T) >= 1 /\ Max(T) \in Nat
  BY <1>2, <1>4
<1>6. QED BY <1>5 DEF m

(* One worker's step leaves the others and their files alone.               *)
LEMMA OneWorker ==
  ASSUME NEW d, NEW limit, NEW n \in Nat \ {0}, NEW ws, NEW files,
         WorkersOk(d, limit, n, ws, files),
         NEW i \in 0 .. n - 1, NEW v, NEW gs, WorkerOk(d, limit, n, i, v, gs),
         \A j \in 0 .. n - 1 : j # i /\ j \in DOMAIN files => j \in DOMAIN gs /\ gs[j] = files[j],
         NEW wt, wt = [ws EXCEPT ![i] = v]
  PROVE  WorkersOk(d, limit, n, wt, gs)
<1>1. DOMAIN ws = 0 .. n - 1 /\ \A j \in 0 .. n - 1 : WorkerOk(d, limit, n, j, ws[j], files)
  BY DEF WorkersOk
<1>2. DOMAIN wt = 0 .. n - 1 /\ wt[i] = v /\ \A j \in 0 .. n - 1 : j # i => wt[j] = ws[j]
  BY <1>1
<1>3. wt = [j \in 0 .. n - 1 |-> wt[j]]
  BY <1>1
<1>4. ASSUME NEW j \in 0 .. n - 1, j # i PROVE WorkerOk(d, limit, n, j, ws[j], gs)
  <2>1. WorkerOk(d, limit, n, j, ws[j], files)
    BY <1>1
  <2>2. j \in DOMAIN files => j \in DOMAIN gs /\ gs[j] = files[j]
    BY <1>4
  <2>3. QED BY <2>1, <2>2, Zenon DEF WorkerOk
<1>5. QED BY <1>2, <1>3, <1>4, Zenon DEF WorkersOk

(* Every worker is given its range.                                         *)
LEMMA StartWorkersKeeps ==
  ASSUME ShardInv, StartWorkers, UNCHANGED dump
  PROVE  ShardInv'
<1>1. PICK limit \in Limits \cup {Len(dump)} : \E asked \in WorkerCounts :
        LET bounds == Bounds(limit, Max({1, Min({asked, limit})}))
        IN  /\ ingest' = [Command("working") EXCEPT !.limit = limit]
            /\ worker' = [i \in DOMAIN bounds |->
                 [at |-> "reading", next |-> bounds[i].from, to |-> bounds[i].to,
                  found |-> NothingRead]]
  BY DEF StartWorkers
<1>2. PICK asked \in WorkerCounts :
        LET bounds == Bounds(limit, Max({1, Min({asked, limit})}))
        IN  /\ ingest' = [Command("working") EXCEPT !.limit = limit]
            /\ worker' = [i \in DOMAIN bounds |->
                 [at |-> "reading", next |-> bounds[i].from, to |-> bounds[i].to,
                  found |-> NothingRead]]
  BY <1>1
<1>3. dump \in Dumps /\ shards' = shards /\ dump' = dump
  BY DEF ShardInv, StartWorkers
<1> DEFINE P == Range(dump)
           n == Max({1, Min({asked, limit})})
           b == Bounds(limit, n)
<1>4. dump \in Seq(P)
  BY <1>3, DumpPages
<1> HIDE DEF P
<1>5. limit \in Nat /\ asked \in Nat
  BY <1>4, ShardAssumption
<1>6. n \in Nat \ {0}
  BY <1>5, SomeWorkers
<1>7. /\ ingest' = [Command("working") EXCEPT !.limit = limit]
      /\ worker' = [i \in DOMAIN b |->
           [at |-> "reading", next |-> b[i].from, to |-> b[i].to, found |-> NothingRead]]
  BY <1>2
<1> HIDE DEF n
<1>8. ingest' = [at |-> "working", limit |-> limit, taken |-> 0]
  BY <1>7 DEF Command
<1>9. /\ DOMAIN b = 0 .. n - 1
      /\ \A i \in 0 .. n - 1 : b[i].from = Edge(limit, n, i) /\ b[i].to = Edge(limit, n, i + 1)
  BY DEF Bounds, Edge
<1> HIDE DEF b
<1>10. WorkersOk(dump, limit, n, worker', shards)
  <2>1. DOMAIN worker' = 0 .. n - 1 /\ worker' = [i \in 0 .. n - 1 |-> worker'[i]]
    BY <1>7, <1>9
  <2>2. ASSUME NEW i \in 0 .. n - 1 PROVE WorkerOk(dump, limit, n, i, worker'[i], shards)
    <3>1. worker'[i] = [at |-> "reading", next |-> Edge(limit, n, i),
                        to |-> Edge(limit, n, i + 1), found |-> NothingRead]
      BY <1>7, <1>9
    <3>2. i \in Nat
      BY <1>6
    <3>3. QED BY <1>4, <1>5, <1>6, <3>1, <3>2, WorkerStarts
  <2>3. QED BY <2>1, <2>2, Zenon DEF WorkersOk
<1>11. BuildOk(dump, ingest', worker', shards, merged', n)
  BY <1>5, <1>6, <1>8, <1>10 DEF BuildOk
<1>12. QED BY <1>3, <1>8, <1>11 DEF ShardInv

(* A worker reads.                                                          *)
LEMMA ReadPageKeeps ==
  ASSUME ShardInv, NEW i \in DOMAIN worker, ingest.at = "working", ReadPage(i), UNCHANGED dump
  PROVE  ShardInv'
<1>1. PICK n : BuildOk(dump, ingest, worker, shards, merged, n)
  BY DEF ShardInv
<1> DEFINE P == Range(dump)
           w == worker[i]
           page == dump[w.next + 1]
           v == [w EXCEPT !.next = w.next + 1, !.found = WithPage(w.found, page)]
<1>2. /\ n \in Nat \ {0} /\ ingest.limit \in Nat
      /\ WorkersOk(dump, ingest.limit, n, worker, shards)
  BY <1>1 DEF BuildOk
<1>3. DOMAIN worker = 0 .. n - 1 /\ WorkerOk(dump, ingest.limit, n, i, w, shards)
  BY <1>2 DEF WorkersOk
<1>4. w.at = "reading" /\ w.next < w.to /\ w.next < Len(dump)
  BY DEF ReadPage, MorePages
<1>6. worker' = [worker EXCEPT ![i] = v]
  <2>1. worker' = [worker EXCEPT ![i].next = @ + 1, ![i].found =
           [rows |-> AddPage(@.rows, page),
            redirects |-> IF page.redirect = NoTitle THEN @.redirects
                          ELSE @.redirects \cup {page},
            anchors |-> @.anchors \cup page.anchors,
            articles |-> @.articles + 1]]
    BY DEF ReadPage
  <2>2. QED BY <2>1 DEF WithPage
<1>7. dump \in Seq(P) /\ dump \in Dumps
  BY DumpPages DEF ShardInv
<1> HIDE DEF P, w
<1>8. WorkerOk(dump, ingest.limit, n, i, v, shards)
  <2>1. i \in Nat
    BY <1>2, <1>3
  <2>2. v = [w EXCEPT !.next = w.next + 1, !.found = WithPage(w.found, dump[w.next + 1])]
    OBVIOUS
  <2> HIDE DEF v
  <2>3. QED BY <1>2, <1>3, <1>4, <1>7, <2>1, <2>2, WorkerReads, Zenon
<1> HIDE DEF v
<1>9. WorkersOk(dump, ingest.limit, n, worker', shards)
  BY <1>2, <1>3, <1>6, <1>8, OneWorker
<1>10. /\ dump' = dump /\ ingest' = ingest /\ shards' = shards /\ merged' = merged
  BY DEF ReadPage
<1>11. BuildOk(dump, ingest, worker', shards, merged, n)
  BY <1>1, <1>2, <1>9 DEF BuildOk
<1>12. QED BY <1>7, <1>10, <1>11 DEF ShardInv

(* The file that was written, and the others.                               *)
LEMMA FileWritten ==
  ASSUME NEW files, NEW i, NEW c
  PROVE  i \in DOMAIN FileSet(files, i, c) /\ FileSet(files, i, c)[i] = c
BY DEF FileSet

(* The others are as they were.                                             *)
LEMMA FileKept ==
  ASSUME NEW files, NEW i, NEW c, NEW j \in DOMAIN files, j # i
  PROVE  j \in DOMAIN FileSet(files, i, c) /\ FileSet(files, i, c)[j] = files[j]
BY DEF FileSet

(* A worker writes its file: the file is cut short, then whole.             *)
LEMMA WorkerWrites ==
  ASSUME NEW d, NEW limit, NEW n, NEW i, NEW files, NEW w, WorkerOk(d, limit, n, i, w, files),
         ~ (w.next < w.to /\ w.next < Len(d)),
         NEW gs, NEW place, place = "writing" \/ (i \in DOMAIN gs /\ gs[i] = w.found),
         NEW v, v = [w EXCEPT !.at = place]
  PROVE  WorkerOk(d, limit, n, i, v, gs)
<1>1. DOMAIN w = {"at", "next", "to", "found"}
  BY DEF WorkerOk
<1>2. /\ DOMAIN v = {"at", "next", "to", "found"}
      /\ v.at = place /\ v.next = w.next /\ v.to = w.to /\ v.found = w.found
  BY <1>1
<1>3. /\ w.next \in Nat /\ Edge(limit, n, i) <= w.next /\ w.next <= w.to
      /\ w.to = Edge(limit, n, i + 1)
      /\ w.found = Collected(Part(d, Edge(limit, n, i), w.next))
  BY DEF WorkerOk
<1>4. v.at = "done" => i \in DOMAIN gs /\ gs[i] = v.found
  BY <1>2
<1>5. QED BY <1>2, <1>3, <1>4, Zenon DEF WorkerOk

(* A worker opens its shard or commits it.                                  *)
LEMMA WriteKeeps ==
  ASSUME ShardInv, NEW i \in DOMAIN worker, ingest.at = "working",
         OpenShard(i) \/ CommitShard(i), UNCHANGED dump
  PROVE  ShardInv'
<1>1. PICK n : BuildOk(dump, ingest, worker, shards, merged, n)
  BY DEF ShardInv
<1> DEFINE w == worker[i]
<1>2. /\ n \in Nat \ {0} /\ ingest.limit \in Nat
      /\ WorkersOk(dump, ingest.limit, n, worker, shards)
  BY <1>1 DEF BuildOk
<1>3. DOMAIN worker = 0 .. n - 1 /\ WorkerOk(dump, ingest.limit, n, i, w, shards)
  BY <1>2 DEF WorkersOk
<1>4. PICK place : \E content :
        /\ worker' = [worker EXCEPT ![i].at = place] /\ shards' = FileSet(shards, i, content)
        /\ place = "writing" \/ content = w.found
  BY DEF OpenShard, CommitShard
<1>5. PICK content :
        /\ worker' = [worker EXCEPT ![i].at = place] /\ shards' = FileSet(shards, i, content)
        /\ place = "writing" \/ content = w.found
  BY <1>4
<1>6. ~ (w.next < w.to /\ w.next < Len(dump))
  <2>1. CASE OpenShard(i)
    BY <2>1 DEF OpenShard, MorePages
  <2>2. CASE CommitShard(i)
    BY <1>3, <2>2 DEF CommitShard, WorkerOk
  <2>3. QED BY <2>1, <2>2
<1> DEFINE v == [w EXCEPT !.at = place]
<1>7. worker' = [worker EXCEPT ![i] = v]
  BY <1>5
<1>8. place = "writing" \/ (i \in DOMAIN shards' /\ shards'[i] = w.found)
  <2>1. i \in DOMAIN FileSet(shards, i, content) /\ FileSet(shards, i, content)[i] = content
    BY FileWritten, Zenon
  <2> HIDE DEF w
  <2>2. shards' = FileSet(shards, i, content) /\ (place = "writing" \/ content = w.found)
    BY <1>5
  <2>3. i \in DOMAIN shards' /\ shards'[i] = content
    BY <2>1, <2>2
  <2>4. QED BY <2>2, <2>3
<1>9. WorkerOk(dump, ingest.limit, n, i, v, shards')
  <2> HIDE DEF w
  <2>1. v = [w EXCEPT !.at = place]
    OBVIOUS
  <2> HIDE DEF v
  <2>2. QED BY <1>3, <1>6, <1>8, <2>1, WorkerWrites, Zenon
<1> HIDE DEF v, w
<1>10. \A j \in 0 .. n - 1 : j # i /\ j \in DOMAIN shards =>
         j \in DOMAIN shards' /\ shards'[j] = shards[j]
  <2>1. \A j \in DOMAIN shards : j # i =>
          j \in DOMAIN FileSet(shards, i, content) /\ FileSet(shards, i, content)[j] = shards[j]
    BY FileKept, Zenon
  <2>2. QED BY <1>5, <2>1, Zenon
<1>11. WorkersOk(dump, ingest.limit, n, worker', shards')
  <2>1. i \in 0 .. n - 1
    BY <1>3
  <2>2. QED BY <1>2, <1>7, <1>9, <1>10, <2>1, OneWorker, Zenon
<1>12. /\ dump' = dump /\ ingest' = ingest /\ merged' = merged
  BY DEF OpenShard, CommitShard
<1>13. BuildOk(dump, ingest, worker', shards', merged, n)
  BY <1>1, <1>2, <1>11 DEF BuildOk
<1>14. QED BY <1>12, <1>13 DEF ShardInv

(* The number of workers.                                                   *)
LEMMA CountUpTo ==
  ASSUME NEW n \in Nat PROVE Cardinality(0 .. n - 1) = n
<1>1. Cardinality(0 .. n - 1) = IF 0 > n - 1 THEN 0 ELSE n - 1 - 0 + 1
  BY FS_Interval
<1>2. QED BY <1>1

(* The merge begins when all workers are done.                              *)
LEMMA StartMergeKeeps ==
  ASSUME ShardInv, StartMerge, UNCHANGED dump
  PROVE  ShardInv'
<1>1. PICK n : BuildOk(dump, ingest, worker, shards, merged, n)
  BY DEF ShardInv, StartMerge
<1>2. /\ n \in Nat \ {0} /\ ingest.limit \in Nat
      /\ WorkersOk(dump, ingest.limit, n, worker, shards)
  BY <1>1 DEF BuildOk
<1>3. DOMAIN worker = 0 .. n - 1
  BY <1>2 DEF WorkersOk
<1>4. \A i \in 0 .. n - 1 : worker[i].at = "done"
  BY <1>3 DEF StartMerge
<1>5. dump \in Dumps /\ dump' = dump
  BY DEF ShardInv
<1>6. MergedOk(dump, ingest.limit, n, 0, shards, EmptyOutput)
  BY <1>2, <1>5, DumpPages, MergeBegins
<1>7. ingest'.at = "merging" /\ ingest'.limit = ingest.limit /\ ingest'.taken = 0
  <2>1. ingest' = [ingest EXCEPT !.at = "merging"] /\ DOMAIN ingest = {"at", "limit", "taken"}
    BY DEF StartMerge, ShardInv
  <2>2. ingest.taken = 0
    BY <1>1 DEF BuildOk, StartMerge
  <2>3. QED BY <2>1, <2>2
<1>8. DOMAIN ingest' = {"at", "limit", "taken"}
  BY DEF StartMerge, ShardInv
<1>9. worker' = worker /\ shards' = shards /\ merged' = EmptyOutput
  BY DEF StartMerge
<1>10. 0 \in 0 .. n
  BY <1>2
<1>11. BuildOk(dump, ingest', worker, shards, EmptyOutput, n)
  BY <1>2, <1>4, <1>6, <1>7, <1>10, Zenon DEF BuildOk
<1>12. ingest'.at # "returned"
  BY <1>7
<1>13. QED BY <1>5, <1>8, <1>9, <1>11, <1>12 DEF ShardInv

(* One shard more is merged.                                                *)
LEMMA MergeShardKeeps ==
  ASSUME ShardInv, MergeShard, UNCHANGED dump
  PROVE  ShardInv'
<1> DEFINE k == ingest.taken
           limit == ingest.limit
           P == Range(dump)
<1>1. PICK n : BuildOk(dump, ingest, worker, shards, merged, n)
  BY DEF ShardInv, MergeShard
<1>2. /\ n \in Nat \ {0} /\ limit \in Nat
      /\ WorkersOk(dump, limit, n, worker, shards)
      /\ k \in 0 .. n /\ \A i \in 0 .. n - 1 : worker[i].at = "done"
      /\ MergedOk(dump, limit, n, k, shards, merged)
  BY <1>1 DEF BuildOk, MergeShard
<1>3. /\ DOMAIN worker = 0 .. n - 1
      /\ \A i \in 0 .. n - 1 : WorkerOk(dump, limit, n, i, worker[i], shards)
  BY <1>2 DEF WorkersOk
<1>4. Cardinality(0 .. n - 1) = n
  BY <1>2, CountUpTo
<1>5. k \in Nat /\ k < n /\ k \in 0 .. n - 1 /\ k + 1 \in 0 .. n
  BY <1>2, <1>3, <1>4 DEF MergeShard
<1>6. dump \in Dumps /\ dump' = dump
  BY DEF ShardInv
<1>7. dump \in Seq(P) /\ \A p \in P : p.chunks \in Seq(Range(p.chunks))
  BY <1>6, DumpPages
<1>8. /\ shards[k] = worker[k].found
      /\ worker[k].found = Collected(Part(dump, Edge(limit, n, k), Edge(limit, n, k + 1)))
  <2>1. \A i \in Nat : \A w :
          WorkerOk(dump, limit, n, i, w, shards) /\ w.at = "done" =>
            /\ shards[i] = w.found
            /\ w.found = Collected(Part(dump, Edge(limit, n, i), Edge(limit, n, i + 1)))
    <3> HIDE DEF limit, P
    <3>1. SUFFICES ASSUME NEW i \in Nat, NEW w,
                          WorkerOk(dump, limit, n, i, w, shards), w.at = "done"
                   PROVE  /\ shards[i] = w.found
                          /\ w.found = Collected(Part(dump, Edge(limit, n, i),
                                                         Edge(limit, n, i + 1)))
      BY Zenon
    <3>2. QED BY <1>2, <1>7, <3>1, WorkerDone
  <2>2. QED BY <1>2, <1>3, <1>5, <2>1, Zenon
<1> HIDE DEF P, limit, k
<1> DEFINE keys == SemanticKeys("blake2b", merged.rows.chunks \cup shards[k].rows.chunks)
<1>9. merged' =
        [rows |-> Joined(merged.rows, shards[k].rows), semantic |-> keys,
         articles |-> merged.articles + shards[k].articles]
  <2>1. worker[k].found.articles = shards[k].articles
    BY <1>8
  <2>2. QED BY <2>1, Zenon DEF MergeShard, Joined, k
<1> HIDE DEF keys
<1>10. MergedOk(dump, limit, n, k + 1, shards, merged')
  <2>1. \A m : \A v : MergedOk(dump, limit, n, k, shards, m) /\
          v = [rows |-> Joined(m.rows, shards[k].rows), semantic |-> keys,
               articles |-> m.articles + shards[k].articles]
          => MergedOk(dump, limit, n, k + 1, shards, v)
    BY <1>2, <1>5, <1>7, <1>8, MergeGoesOn
  <2>2. QED BY <1>2, <1>9, <2>1, Zenon
<1>11. /\ ingest'.at = "merging" /\ ingest'.limit = limit /\ ingest'.taken = k + 1
       /\ DOMAIN ingest' = {"at", "limit", "taken"}
  <2>1. ingest' = [ingest EXCEPT !.taken = k + 1] /\ DOMAIN ingest = {"at", "limit", "taken"}
    BY DEF MergeShard, ShardInv, k
  <2>2. ingest.at = "merging" /\ ingest.limit = limit
    BY DEF MergeShard, limit
  <2>3. QED BY <2>1, <2>2
<1>12. worker' = worker /\ shards' = shards
  BY DEF MergeShard
<1>13. BuildOk(dump, ingest', worker, shards, merged', n)
  BY <1>2, <1>5, <1>10, <1>11, Zenon DEF BuildOk
<1>14. QED BY <1>6, <1>11, <1>12, <1>13 DEF ShardInv

(* The serial steps read the tables and lists of the serial ingestion.      *)
LEMMA ListsOfAll ==
  ASSUME NEW d, NEW limit, NEW n, DOMAIN worker = 0 .. n - 1,
         MergedOk(d, limit, n, n, shards, merged)
  PROVE  Lists = ListsOf(Part(d, 0, Edge(limit, n, n)))
<1> DEFINE pages == Part(d, 0, Edge(limit, n, n))
<1>1. /\ UNION {shards[i].redirects : i \in 0 .. n - 1} = Redirecting(pages)
      /\ UNION {shards[i].anchors : i \in 0 .. n - 1} = AnchorsOf(pages)
  BY DEF MergedOk
<1> HIDE DEF pages
<1>2. /\ AllOf([i \in DOMAIN worker |-> shards[i].redirects])
           = UNION {shards[i].redirects : i \in 0 .. n - 1}
      /\ AllOf([i \in DOMAIN worker |-> shards[i].anchors])
           = UNION {shards[i].anchors : i \in 0 .. n - 1}
  <2> DEFINE f == [i \in DOMAIN worker |-> shards[i].redirects]
             g == [i \in DOMAIN worker |-> shards[i].anchors]
  <2>1. {f[i] : i \in DOMAIN worker} = {shards[i].redirects : i \in 0 .. n - 1}
    OBVIOUS
  <2>2. {g[i] : i \in DOMAIN worker} = {shards[i].anchors : i \in 0 .. n - 1}
    OBVIOUS
  <2> HIDE DEF f, g
  <2>3. /\ AllOf(f) = UNION {shards[i].redirects : i \in 0 .. n - 1}
        /\ AllOf(g) = UNION {shards[i].anchors : i \in 0 .. n - 1}
    BY <2>1, <2>2, Zenon DEF AllOf
  <2>4. QED BY <2>3 DEF f, g
<1>3. QED BY <1>1, <1>2, Zenon DEF Lists, ListsOf, pages

(* The serial steps are those of the serial ingestion.                      *)
LEMMA FinishMergeKeeps ==
  ASSUME ShardInv, FinishMerge, UNCHANGED dump
  PROVE  ShardInv'
<1> DEFINE limit == ingest.limit
           pages == PagesOf(dump, ingest)
           P == Range(dump)
<1>1. PICK n : BuildOk(dump, ingest, worker, shards, merged, n)
  BY DEF ShardInv, FinishMerge
<1>2. /\ n \in Nat \ {0} /\ limit \in Nat
      /\ WorkersOk(dump, limit, n, worker, shards)
      /\ MergedOk(dump, limit, n, ingest.taken, shards, merged)
  BY <1>1 DEF BuildOk, FinishMerge
<1>3. DOMAIN worker = 0 .. n - 1
  BY <1>2 DEF WorkersOk
<1>4. ingest.taken = n
  BY <1>2, <1>3, CountUpTo DEF FinishMerge
<1>5. dump \in Dumps /\ dump' = dump /\ dump \in Seq(P)
  BY DumpPages DEF ShardInv
<1>6. MergedOk(dump, limit, n, n, shards, merged)
  BY <1>2, <1>4
<1> HIDE DEF P, limit
<1>7. Part(dump, 0, Edge(limit, n, n)) = pages
  <2>1. Edge(limit, n, n) = limit
    BY <1>2, Edges
  <2>2. \A b \in Nat : 0 <= b => Part(dump, 0, b) = SubSeq(dump, 1, Cut(dump, b))
    BY <1>5, Parts
  <2>3. 0 <= limit
    BY <1>2
  <2>4. QED BY <1>2, <2>1, <2>2, <2>3, Zenon DEF PagesOf, limit
<1> HIDE DEF pages
<1>8. Lists = ListsOf(pages)
  BY <1>3, <1>6, <1>7, ListsOfAll
<1>9. /\ merged.rows = RowsOf(pages) /\ merged.articles = Len(pages)
      /\ DOMAIN merged = {"rows", "semantic", "articles"}
  BY <1>6, <1>7 DEF MergedOk
<1> DEFINE aliases == Merge!FoldedAliases \cup Merge!AnchorAliases
<1>10. PICK names \in Merge!Naming(aliases) :
         merged' = [merged EXCEPT !.rows.aliases = aliases,
                      !.rows.links = {[l EXCEPT !.to = names[l.title]] : l \in @}]
  BY Zenon DEF FinishMerge
<1>11. /\ aliases = At(RowsOf(pages), ListsOf(pages))!FoldedAliases
                      \cup At(RowsOf(pages), ListsOf(pages))!AnchorAliases
       /\ names \in At(RowsOf(pages), ListsOf(pages))!Naming(aliases)
  BY <1>8, <1>9, MergeIsAt
<1> HIDE DEF aliases
<1>12. /\ merged'.rows = [merged.rows EXCEPT !.aliases = aliases,
                            !.links = {[l EXCEPT !.to = names[l.title]] : l \in @}]
       /\ merged'.articles = merged.articles
  BY <1>9, <1>10
<1>13. PICK built : built = merged'
  OBVIOUS
<1>14. PICK command : command = ingest'
  OBVIOUS
<1>15. Finished(RowsOf(pages), ListsOf(pages), built.rows)
  BY <1>9, <1>11, <1>12, <1>13, Zenon DEF Finished
<1>16. /\ command.at = "returned" /\ command.limit = limit
       /\ DOMAIN command = {"at", "limit", "taken"}
  BY <1>14 DEF FinishMerge, ShardInv, limit
<1>17. PagesOf(dump, command) = pages
  BY <1>16 DEF PagesOf, pages, limit
<1>18. BuiltOk(dump, command, built)
  BY <1>9, <1>12, <1>13, <1>15, <1>17 DEF BuiltOk
<1>19. QED BY <1>2, <1>5, <1>13, <1>14, <1>16, <1>18 DEF ShardInv

(* After a death only the shards are left, and they are written anew.       *)
LEMMA BuildDiesKeeps ==
  ASSUME ShardInv, BuildDies, UNCHANGED dump
  PROVE  ShardInv'
BY DEF ShardInv, BuildDies, Command

(* Every step keeps the invariant.                                          *)
LEMMA ShardStepInv ==
  ShardInv /\ [ShardNext /\ UNCHANGED storeVars]_<<shardVars, storeVars>> => ShardInv'
<1> SUFFICES ASSUME ShardInv, [ShardNext /\ UNCHANGED storeVars]_<<shardVars, storeVars>>
             PROVE  ShardInv'
  OBVIOUS
<1>1. UNCHANGED dump
  BY DEF storeVars
<1>2. CASE StartWorkers
  BY <1>1, <1>2, StartWorkersKeeps
<1>3. CASE \E i \in DOMAIN worker :
             ingest.at = "working" /\ (ReadPage(i) \/ OpenShard(i) \/ CommitShard(i))
  <2>1. PICK i \in DOMAIN worker :
          ingest.at = "working" /\ (ReadPage(i) \/ OpenShard(i) \/ CommitShard(i))
    BY <1>3
  <2>2. CASE ReadPage(i)
    BY <1>1, <2>1, <2>2, ReadPageKeeps
  <2>3. CASE OpenShard(i) \/ CommitShard(i)
    BY <1>1, <2>1, <2>3, WriteKeeps
  <2>4. QED BY <2>1, <2>2, <2>3
<1>4. CASE StartMerge
  BY <1>1, <1>4, StartMergeKeeps
<1>5. CASE MergeShard
  BY <1>1, <1>5, MergeShardKeeps
<1>6. CASE FinishMerge
  BY <1>1, <1>6, FinishMergeKeeps
<1>7. CASE BuildDies
  BY <1>1, <1>7, BuildDiesKeeps
<1>8. CASE UNCHANGED <<shardVars, storeVars>>
  BY <1>8 DEF shardVars, storeVars, ShardInv
<1>9. ShardsRest => UNCHANGED <<shardVars, storeVars>>
  BY DEF ShardsRest, storeVars, shardVars
<1>10. QED BY <1>2, <1>3, <1>4, <1>5, <1>6, <1>7, <1>8 DEF ShardNext, ShardsRest

(* The merged result is the serial one.                                     *)
LEMMA BuiltIsSerial == ShardInv => MergedAsSerial
<1> SUFFICES ASSUME ShardInv, ingest.at = "returned" PROVE MergedAsSerial
  BY Zenon DEF MergedAsSerial
<1> DEFINE pages == PagesOf(dump, ingest)
<1>1. dump \in Seq(Range(dump)) /\ ingest.limit \in Nat /\ BuiltOk(dump, ingest, merged)
  BY DumpPages DEF ShardInv
<1>2. Min({ingest.limit, Len(dump)}) = Cut(dump, ingest.limit)
  BY <1>1 DEF Min, Cut
<1>3. SerialPages = pages /\ SerialRows = RowsOf(pages)
  BY <1>2, Zenon DEF SerialPages, SerialRows, PagesOf, RowsOf
<1>4. merged.articles = Len(pages) /\ Finished(RowsOf(pages), ListsOf(pages), merged.rows)
  BY <1>1 DEF BuiltOk
<1> HIDE DEF pages
<1>5. Finished(SerialRows, ListsOf(SerialPages), merged.rows)
  BY <1>3, <1>4
<1> DEFINE aliases == Serial!FoldedAliases \cup Serial!AnchorAliases
           At1 == At(SerialRows, ListsOf(SerialPages))!FoldedAliases
           At2 == At(SerialRows, ListsOf(SerialPages))!AnchorAliases
<1>6. aliases = At1 \cup At2
  BY SerialIsAt, Zenon
<1> HIDE DEF aliases
<1>7. PICK names \in At(SerialRows, ListsOf(SerialPages))!Naming(aliases) :
        merged.rows = [SerialRows EXCEPT !.aliases = aliases,
                         !.links = {[l EXCEPT !.to = names[l.title]] : l \in @}]
  BY <1>5, <1>6, Zenon DEF Finished
<1>8. names \in Serial!Naming(aliases)
  BY <1>7, SerialIsAt, Zenon
<1>9. merged.articles = Len(SerialPages)
  BY <1>3, <1>4
<1>10. QED BY <1>7, <1>8, <1>9, Zenon DEF MergedAsSerial, aliases

(* However many workers there are, wherever their ranges end and whatever   *)
(* order they finish in, and whatever dead commands left behind, a build    *)
(* that returned holds the rows of the serial ingestion in its order, with  *)
(* its aliases and link targets it might have chosen.                       *)
THEOREM MergedAlwaysAsSerial == ShardSpec => []MergedAsSerial
<1>1. dump \in Dumps /\ StoreStart /\ ShardInit => ShardInv
  BY ShardInitInv
<1>2. ShardInv /\ [ShardNext /\ UNCHANGED storeVars]_<<shardVars, storeVars>> => ShardInv'
  BY ShardStepInv
<1>3. ShardInv => MergedAsSerial
  BY BuiltIsSerial
<1>4. QED BY <1>1, <1>2, <1>3, PTL DEF ShardSpec

----------------------------------------------------------------------------
(* Ingestion.                                                               *)
(* The store of a run holds the tables of the first pages of the dump, and  *)
(* the run is at most one page past them: what an earlier run committed is  *)
(* skipped, what follows is read.  At the end of the dump it holds all      *)
(* pages.  A redirect's way is the same in the dump and, hop by hop, in the *)
(* store, as far as the run has read it; and what one run has settled the   *)
(* next ones leave as it is, since they collect nothing.                    *)

(* What the rows of some pages are, table by table.                         *)
ChunksOf(pages) == UNION {Range(p.chunks) : p \in Range(pages)}
LinksOfPage(p) == {[from |-> p.doc, title |-> t, to |-> NoDocument] : t \in p.links}
Tables(pages) ==
  LET r == RowsOf(pages)
  IN  /\ r.documents = pages /\ r.chunks = ChunksOf(pages)
      /\ Range(r.fts) = r.chunks
      /\ r.aliases = {<<p.title, p.doc>> : p \in Range(pages)}
      /\ r.links = UNION {LinksOfPage(p) : p \in Range(pages)}

(* One page more, in a table.                                               *)
LEMMA RangeOfAppend ==
  ASSUME NEW P, NEW s \in Seq(P), NEW x \in P
  PROVE  Range(Append(s, x)) = Range(s) \cup {x}
<1>1. Append(s, x) = s \o <<x>> /\ <<x>> \in Seq(P)
  BY AppendIsConcat
<1>2. Range(<<x>>) = {x}
  BY DEF Range
<1>3. \A t \in Seq(P) : Range(s \o t) = Range(s) \cup Range(t)
  BY RangeConcatenation
<1>4. QED BY <1>1, <1>2, <1>3, Zenon

(* The tables hold exactly what the pages give.                             *)
LEMMA RowsHold ==
  ASSUME NEW P, \A p \in P : p.chunks \in Seq(Range(p.chunks))
  PROVE  \A s \in Seq(P) : Tables(s)
<1> DEFINE G == {s \in Seq(P) : Tables(s)}
<1>1. <<>> \in G
  <2>1. Range(<<>>) = {} /\ <<>> \in Seq(P)
    BY DEF Range
  <2>2. /\ EmptyStore.documents = <<>> /\ EmptyStore.fts = <<>>
        /\ EmptyStore.chunks = {} /\ EmptyStore.aliases = {} /\ EmptyStore.links = {}
    BY DEF EmptyStore
  <2>3. Tables(<<>>)
    BY <2>1, <2>2, RowsStep DEF Tables, ChunksOf
  <2>4. QED BY <2>1, <2>3
<1>2. ASSUME NEW s \in Seq(P), NEW x \in P, s \in G PROVE Append(s, x) \in G
  <2> DEFINE a == Append(s, x)
             r == RowsOf(s)
             v == RowsOf(a)
  <2>1. v = AddPage(r, x)
    BY RowsStep
  <2>2. Range(a) = Range(s) \cup {x} /\ a \in Seq(P)
    BY RangeOfAppend
  <2>3. RowsOk(r, P)
    BY RowsTyped
  <2>4. Tables(s)
    BY <1>2
  <2> HIDE DEF G
  <2>5. /\ r.documents = s /\ r.chunks = ChunksOf(s) /\ Range(r.fts) = r.chunks
        /\ r.aliases = {<<p.title, p.doc>> : p \in Range(s)}
        /\ r.links = UNION {LinksOfPage(p) : p \in Range(s)}
    BY <2>4 DEF Tables
  <2>6. r.fts \in Seq(TextOf(P)) /\ x.chunks \in Seq(TextOf(P))
    <3>1. Range(x.chunks) \subseteq TextOf(P)
      BY DEF TextOf
    <3>2. QED BY <2>3, <3>1, SeqMonotonic DEF RowsOk
  <2> HIDE DEF r
  <2>7. /\ v.documents = Append(r.documents, x) /\ v.chunks = r.chunks \cup Range(x.chunks)
        /\ v.fts = r.fts \o x.chunks /\ v.aliases = r.aliases \cup {<<x.title, x.doc>>}
        /\ v.links = r.links \cup LinksOfPage(x)
    <3> HIDE DEF v, a
    <3>1. v = AddPage(r, x)
      BY <2>1
    <3>2. QED BY <3>1, Zenon DEF AddPage, LinksOfPage
  <2> HIDE DEF v
  <2>8. v.documents = a
    BY <2>5, <2>7
  <2> HIDE DEF a
  <2>9. v.chunks = ChunksOf(a)
    <3>1. {Range(p.chunks) : p \in Range(s) \cup {x}}
            = {Range(p.chunks) : p \in Range(s)} \cup {Range(x.chunks)}
      OBVIOUS
    <3>2. QED BY <2>2, <2>5, <2>7, <3>1, UnionAdd DEF ChunksOf
  <2>10. Range(v.fts) = v.chunks
    <3>1. \A f, g \in Seq(TextOf(P)) : Range(f \o g) = Range(f) \cup Range(g)
      BY RangeConcatenation
    <3>2. QED BY <2>5, <2>6, <2>7, <3>1
  <2>11. v.aliases = {<<p.title, p.doc>> : p \in Range(a)}
    BY <2>2, <2>5, <2>7
  <2>12. v.links = UNION {LinksOfPage(p) : p \in Range(a)}
    <3>1. {LinksOfPage(p) : p \in Range(s) \cup {x}}
            = {LinksOfPage(p) : p \in Range(s)} \cup {LinksOfPage(x)}
      OBVIOUS
    <3>2. QED BY <2>2, <2>5, <2>7, <3>1, UnionAdd
  <2>13. Tables(a)
    BY <2>8, <2>9, <2>10, <2>11, <2>12 DEF Tables, v
  <2>14. QED BY <2>2, <2>13 DEF G, a
<1> HIDE DEF G
<1>3. Seq(P) \subseteq G
  BY <1>1, <1>2, AppendInduction
<1>4. QED BY <1>3 DEF G

(* No chunk is indexed twice.                                               *)
OwnChunks(P) ==
  \A p, q \in P :
    /\ p.chunks \in Seq(Range(p.chunks)) /\ IsInjective(p.chunks)
    /\ p # q => Range(p.chunks) \cap Range(q.chunks) = {}

(* Two lists without repetitions that share nothing make another.           *)
LEMMA InjectiveConcat ==
  ASSUME NEW T, NEW f \in Seq(T), NEW g \in Seq(T), IsInjective(f), IsInjective(g),
         Range(f) \cap Range(g) = {}
  PROVE  IsInjective(f \o g)
<1> DEFINE m == Len(f)
           n == Len(g)
           h == f \o g
<1>1. /\ m \in Nat /\ n \in Nat /\ DOMAIN f = 1 .. m /\ DOMAIN g = 1 .. n /\ h \in Seq(T)
      /\ DOMAIN h = 1 .. m + n
  OBVIOUS
<1>2. \A i \in 1 .. m + n : h[i] = IF i <= m THEN f[i] ELSE g[i - m]
  BY ConcatProperties
<1> HIDE DEF m, n, h
<1>3. \A i \in 1 .. m + n : (i <= m => i \in 1 .. m) /\ (~ (i <= m) => i - m \in 1 .. n)
  BY <1>1
<1>4. \A i \in 1 .. m, j \in 1 .. n : f[i] # g[j]
  <2>1. \A i \in 1 .. m : f[i] \in Range(f)
    BY <1>1 DEF Range
  <2>2. \A j \in 1 .. n : g[j] \in Range(g)
    BY <1>1 DEF Range
  <2>3. QED BY <2>1, <2>2
<1>5. ASSUME NEW i \in 1 .. m + n, NEW j \in 1 .. m + n, h[i] = h[j] PROVE i = j
  <2>1. CASE i <= m /\ j <= m
    BY <1>1, <1>2, <1>3, <1>5, <2>1 DEF IsInjective
  <2>2. CASE ~ (i <= m) /\ ~ (j <= m)
    <3>1. g[i - m] = g[j - m] /\ i - m \in 1 .. n /\ j - m \in 1 .. n
      BY <1>2, <1>3, <1>5, <2>2
    <3>2. i - m = j - m
      BY <1>1, <3>1 DEF IsInjective
    <3>3. QED BY <1>1, <3>2
  <2>3. CASE i <= m /\ ~ (j <= m)
    BY <1>2, <1>3, <1>4, <1>5, <2>3
  <2>4. CASE ~ (i <= m) /\ j <= m
    BY <1>2, <1>3, <1>4, <1>5, <2>4
  <2>5. QED BY <2>1, <2>2, <2>3, <2>4
<1>6. QED BY <1>1, <1>5 DEF IsInjective, h

(* Different pages share no chunk, so the index of a dump lists each once.  *)
LEMMA IndexedOnce ==
  ASSUME NEW P, OwnChunks(P)
  PROVE  \A s \in Seq(P) : IsInjective(s) => IsInjective(RowsOf(s).fts)
<1> DEFINE G == {s \in Seq(P) : IsInjective(s) => IsInjective(RowsOf(s).fts)}
<1>1. <<>> \in G
  <2>1. RowsOf(<<>>).fts = <<>> /\ <<>> \in Seq(P)
    BY RowsStep DEF EmptyStore
  <2>2. QED BY <2>1 DEF IsInjective
<1>2. ASSUME NEW s \in Seq(P), NEW x \in P, s \in G PROVE Append(s, x) \in G
  <2> DEFINE a == Append(s, x)
             f == RowsOf(s).fts
  <2>1. SUFFICES ASSUME IsInjective(a) PROVE IsInjective(RowsOf(a).fts)
    OBVIOUS
  <2>2. /\ \A i \in 1 .. Len(s) : a[i] = s[i] /\ i \in DOMAIN a
        /\ DOMAIN s = 1 .. Len(s) /\ Len(s) + 1 \in DOMAIN a /\ a[Len(s) + 1] = x
        /\ Len(s) \in Nat
    OBVIOUS
  <2>3. IsInjective(s)
    BY <2>1, <2>2 DEF IsInjective
  <2>4. x \notin Range(s)
    <3>1. \A i \in 1 .. Len(s) : i # Len(s) + 1
      BY <2>2
    <3> HIDE DEF a
    <3>2. QED BY <2>1, <2>2, <3>1 DEF IsInjective, Range
  <2>5. \A p \in P : p.chunks \in Seq(Range(p.chunks))
    BY DEF OwnChunks
  <2>6. Tables(s) /\ RowsOk(RowsOf(s), P)
    BY <2>5, RowsHold, RowsTyped
  <2>7. Range(f) = ChunksOf(s) /\ f \in Seq(TextOf(P)) /\ x.chunks \in Seq(TextOf(P))
    <3>1. Range(x.chunks) \subseteq TextOf(P)
      BY DEF TextOf
    <3>2. x.chunks \in Seq(TextOf(P))
      BY <2>5, <3>1, SeqMonotonic
    <3>3. QED BY <2>6, <3>2 DEF Tables, RowsOk
  <2>8. Range(s) \subseteq P
    BY RangeOfSeq
  <2>9. Range(f) \cap Range(x.chunks) = {}
    <3>1. \A p \in Range(s) : Range(p.chunks) \cap Range(x.chunks) = {}
      BY <2>4, <2>8 DEF OwnChunks
    <3>2. QED BY <2>7, <3>1 DEF ChunksOf
  <2>10. RowsOf(a).fts = f \o x.chunks
    <3>1. RowsOf(a) = AddPage(RowsOf(s), x)
      BY RowsStep
    <3>2. AddPage(RowsOf(s), x).fts = RowsOf(s).fts \o x.chunks
      BY DEF AddPage
    <3>3. QED BY <3>1, <3>2, Zenon
  <2>11. IsInjective(f) /\ IsInjective(x.chunks)
    BY <1>2, <2>3 DEF OwnChunks
  <2> HIDE DEF f, a
  <2>12. QED BY <2>7, <2>9, <2>10, <2>11, InjectiveConcat
<1> HIDE DEF G
<1>3. Seq(P) \subseteq G
  BY <1>1, <1>2, AppendInduction
<1>4. QED BY <1>3 DEF G

(* A title leads to the same page in the store as in the dump.              *)
LEMMA FirstAndLast ==
  ASSUME NEW n \in Nat, NEW S \in SUBSET (1 .. n), S # {}
  PROVE  /\ \E m \in S : {i \in S : \A j \in S : j <= i} = {m}
                         /\ (CHOOSE i \in S : \A j \in S : j <= i) = m
         /\ \E m \in S : {i \in S : \A j \in S : i <= j} = {m}
                         /\ (CHOOSE i \in S : \A j \in S : i <= j) = m
<1>1. \A m \in Nat : \A z \in 1 .. m : z \in Nat /\ m - z \in Nat
  OBVIOUS
<1>2. \A z \in S : z \in Nat /\ n - z \in Nat
  BY <1>1, Zenon
<1>3. PICK m \in S : \A j \in S : m <= j
  <2>1. S \in SUBSET Nat
    BY <1>2
  <2>2. QED BY <2>1, LeastNumber
<1>4. PICK m2 \in S : \A j \in S : j <= m2
  <2> DEFINE R == {n - x : x \in S}
  <2>1. R \in SUBSET Nat /\ R # {}
    BY <1>2, Zenon
  <2>2. PICK k \in R : \A j \in R : k <= j
    BY <2>1, LeastNumber
  <2>3. PICK x \in S : k = n - x
    BY <2>2
  <2>4. ASSUME NEW j \in S PROVE j <= x
    <3>1. n - x <= n - j
      BY <2>2, <2>3
    <3>2. x \in Nat /\ j \in Nat
      BY <1>2, Zenon
    <3>3. QED BY <3>1, <3>2
  <2>5. QED BY <2>4
<1>5. \A i, j \in S : i <= j /\ j <= i => i = j
  <2>1. \A x, y \in Nat : x <= y /\ y <= x => x = y
    OBVIOUS
  <2>2. QED BY <1>2, <2>1, Zenon
<1>6. {i \in S : \A j \in S : j <= i} = {m2} /\ (CHOOSE i \in S : \A j \in S : j <= i) = m2
  <2>1. \A i \in S : (\A j \in S : j <= i) <=> i = m2
    BY <1>4, <1>5, Zenon
  <2>2. QED BY <2>1
<1>7. {i \in S : \A j \in S : i <= j} = {m} /\ (CHOOSE i \in S : \A j \in S : i <= j) = m
  <2>1. \A i \in S : (\A j \in S : i <= j) <=> i = m
    BY <1>3, <1>5, Zenon
  <2>2. QED BY <2>1
<1>8. QED BY <1>6, <1>7

Leads(title, i) ==
  /\ Named(title) = {dump[i]} /\ dump[i].title = title /\ TitleDocument(title) = dump[i].doc

(* Of the documents with a title the store picks the one Named names.       *)
LEMMA TitleNamed ==
  ASSUME NEW P, dump \in Seq(P), store.documents = dump, NEW title
  PROVE  \/ Named(title) = {} /\ TitleDocument(title) = NoDocument
         \/ \E i \in DOMAIN dump : Leads(title, i)
<1> DEFINE rows1 == {i \in DOMAIN dump : dump[i].title = title}
           real == {i \in rows1 : dump[i].redirect = NoTitle}
           last == CHOOSE i \in real : \A j \in real : j <= i
           first == CHOOSE i \in rows1 : \A j \in rows1 : i <= j
<1>1. /\ Len(dump) \in Nat /\ rows1 \in SUBSET (1 .. Len(dump))
      /\ real \in SUBSET (1 .. Len(dump)) /\ DOMAIN dump = 1 .. Len(dump)
  OBVIOUS
<1>2. Named(title) = IF real # {}
                     THEN {dump[i] : i \in {i \in real : \A j \in real : j <= i}}
                     ELSE {dump[i] : i \in {i \in rows1 : \A j \in rows1 : i <= j}}
  BY Zenon DEF Named
<1> DEFINE Read(d) ==
             LET places == {i \in DOMAIN d : d[i].title = title}
                 reals == {i \in places : d[i].redirect = NoTitle}
             IN  IF places = {} THEN NoDocument
                 ELSE d[IF reals # {} THEN CHOOSE i \in reals : \A j \in reals : j <= i
                        ELSE CHOOSE i \in places : \A j \in places : i <= j].doc
<1>3. TitleDocument(title) = IF rows1 = {} THEN NoDocument
                             ELSE dump[IF real # {} THEN last ELSE first].doc
  <2>1. TitleDocument(title) = Read(store.documents)
    BY Zenon DEF TitleDocument
  <2>2. Read(dump) = IF rows1 = {} THEN NoDocument
                     ELSE dump[IF real # {} THEN last ELSE first].doc
    BY Zenon
  <2> HIDE DEF Read
  <2>3. QED BY <2>1, <2>2
<1>4. /\ \A i \in rows1 : i \in DOMAIN dump /\ dump[i].title = title
      /\ real \subseteq rows1
  OBVIOUS
<1> HIDE DEF rows1, real, last, first, Read
<1>5. CASE rows1 = {}
  <2>1. real = {}
    BY <1>4, <1>5
  <2>2. QED BY <1>2, <1>3, <1>5, <2>1
<1>6. CASE rows1 # {} /\ real = {}
  <2>1. PICK m \in rows1 : {i \in rows1 : \A j \in rows1 : i <= j} = {m} /\ first = m
    BY <1>1, <1>6, FirstAndLast DEF first
  <2>2. Leads(title, m)
    BY <1>2, <1>3, <1>4, <1>6, <2>1 DEF Leads
  <2>3. QED BY <1>4, <2>1, <2>2
<1>7. CASE rows1 # {} /\ real # {}
  <2>1. PICK m \in real : {i \in real : \A j \in real : j <= i} = {m} /\ last = m
    BY <1>1, <1>7, FirstAndLast DEF last
  <2>2. Leads(title, m)
    BY <1>2, <1>3, <1>4, <1>7, <2>1 DEF Leads
  <2>3. QED BY <1>4, <2>1, <2>2
<1>8. QED BY <1>5, <1>6, <1>7

(* What the ways and the hops of a run that has the whole dump are.         *)
DumpOk ==
  /\ dump \in Seq(Range(dump)) /\ NoDocument \notin Documents(dump)
  /\ \A p, q \in Range(dump) : p.doc = q.doc => p = q
  /\ \A p \in Range(dump) : p.title # NoTitle
IsWay(page, f) ==
  f = [n \in 0 .. MaxHops |->
         IF n = 0 THEN {page} ELSE UNION {Named(p.redirect) : p \in f[n - 1]}]
IsHop(title, h) ==
  h = [n \in 1 .. MaxHops |->
         IF n = 1 THEN TitleDocument(title)
         ELSE IF h[n - 1] = NoDocument \/ Follow(h[n - 1]) = NoTitle THEN NoDocument
         ELSE TitleDocument(Follow(h[n - 1]))]

(* So a title nobody has leads nowhere, and any other to its page.          *)
LEMMA PageNamed ==
  ASSUME dump \in Seq(Range(dump)), store.documents = dump, NEW title
  PROVE  \/ Named(title) = {} /\ TitleDocument(title) = NoDocument
         \/ \E p \in Range(dump) :
              Named(title) = {p} /\ p.title = title /\ TitleDocument(title) = p.doc
<1>1. ASSUME NEW i \in DOMAIN dump, Leads(title, i)
      PROVE  \E p \in Range(dump) :
               Named(title) = {p} /\ p.title = title /\ TitleDocument(title) = p.doc
  <2>1. dump[i] \in Range(dump)
    BY DEF Range
  <2>2. QED BY <1>1, <2>1, Zenon DEF Leads
<1>2. QED BY <1>1, TitleNamed

(* The way from a page is given by a recursion, and there is one.           *)
LEMMA WayExists ==
  ASSUME DumpOk, store.documents = dump, NEW page \in Range(dump)
  PROVE  \E f : IsWay(page, f) /\ Way(page) = UNION {f[n] : n \in 0 .. MaxHops}
<1> DEFINE N == MaxHops
           D(v) == UNION {Named(p.redirect) : p \in v}
           X == SUBSET Range(dump)
           F == [p \in X \X (1 .. N) |-> D(p[1])]
           H == {page}
<1>1. N \in Nat
  BY StoreAssumption
<1>2. \A t : Named(t) \subseteq Range(dump)
  BY PageNamed DEF DumpOk
<1>3. H \in X /\ \A v \in X : D(v) \in X
  BY <1>2
<1>4. \A g : IsWay(page, g) <=> g = [n \in 0 .. N |-> IF n = 0 THEN H ELSE D(g[n - 1])]
  BY DEF IsWay
<1>5. Way(page) = UNION {(CHOOSE g : IsWay(page, g))[n] : n \in 0 .. N}
  BY DEF Way, IsWay
<1> HIDE DEF D, X, N, H
<1>6. F \in [X \X (1 .. N) -> X] /\ \A v \in X, n \in 1 .. N : F[<<v, n>>] = D(v)
  BY <1>3
<1> HIDE DEF F
<1>7. PICK f \in [0 .. N -> X] : Iterates(f, H, N, F)
  <2>1. H \in X /\ N \in Nat /\ F \in [X \X (1 .. N) -> X]
    BY <1>1, <1>3, <1>6
  <2>2. QED BY <2>1, Recursion
<1>8. IsWay(page, f)
  <2>1. \A n \in 0 .. N : n # 0 => n \in 1 .. N /\ n - 1 \in 0 .. N
    BY <1>1
  <2>2. f[0] = H /\ \A n \in 1 .. N : f[n] = F[<<f[n - 1], n>>]
    BY <1>7 DEF Iterates
  <2>3. \A n \in 0 .. N : f[n] = IF n = 0 THEN H ELSE D(f[n - 1])
    BY <1>6, <1>7, <2>1, <2>2
  <2>4. f = [n \in 0 .. N |-> f[n]]
    BY <1>7
  <2>5. f = [n \in 0 .. N |-> IF n = 0 THEN H ELSE D(f[n - 1])]
    BY <2>3, <2>4
  <2>6. QED BY <1>4, <2>5
<1>9. IsWay(page, CHOOSE g : IsWay(page, g))
  BY <1>8
<1>10. QED BY <1>5, <1>9 DEF N

(* So are the hops of a resolution.                                         *)
LEMMA HopExists ==
  ASSUME DumpOk, store.documents = dump, NEW title
  PROVE  IsHop(title, Hop(title))
<1> DEFINE N == MaxHops - 1
           X == {TitleDocument(t) : t \in {title} \cup {Follow(e) : e \in Documents(dump)}}
                  \cup {NoDocument}
           E(e) == IF e = NoDocument \/ Follow(e) = NoTitle THEN NoDocument
                   ELSE TitleDocument(Follow(e))
           F == [p \in X \X (1 .. N) |-> E(p[1])]
           c == TitleDocument(title)
<1>1. N \in Nat /\ MaxHops = N + 1
  BY StoreAssumption
<1>2. \A t : TitleDocument(t) \in Documents(dump) \cup {NoDocument}
  BY PageNamed DEF DumpOk, Documents
<1>3. c \in X /\ \A e \in X : E(e) \in X
  BY <1>2
<1>4. \A g : IsHop(title, g) <=>
               g = [n \in 1 .. MaxHops |-> IF n = 1 THEN c ELSE E(g[n - 1])]
  BY DEF IsHop
<1>5. Hop(title) = CHOOSE g : IsHop(title, g)
  BY DEF Hop, IsHop
<1> HIDE DEF E, X, N, c
<1>6. F \in [X \X (1 .. N) -> X] /\ \A e \in X, n \in 1 .. N : F[<<e, n>>] = E(e)
  BY <1>3
<1> HIDE DEF F
<1>7. PICK f \in [0 .. N -> X] : Iterates(f, c, N, F)
  <2>1. c \in X /\ N \in Nat /\ F \in [X \X (1 .. N) -> X]
    BY <1>1, <1>3, <1>6
  <2>2. QED BY <2>1, Recursion
<1> DEFINE g == [n \in 1 .. MaxHops |-> f[n - 1]]
<1>8. IsHop(title, g)
  <2>1. \A n \in 1 .. MaxHops :
          /\ n - 1 \in 0 .. N
          /\ n # 1 => n - 1 \in 1 .. N /\ n - 1 \in 1 .. MaxHops /\ (n - 1) - 1 \in 0 .. N
    BY <1>1
  <2>2. f[0] = c /\ \A n \in 1 .. N : f[n] = F[<<f[n - 1], n>>]
    BY <1>7 DEF Iterates
  <2>3. \A n \in 1 .. N : n - 1 \in 0 .. N
    BY <1>1
  <2>4. \A n \in 1 .. N : f[n] = E(f[n - 1])
    BY <1>6, <1>7, <2>2, <2>3
  <2>5. \A n \in 1 .. MaxHops : f[n - 1] = IF n = 1 THEN c ELSE E(g[n - 1])
    <3>1. \A n \in 1 .. MaxHops : n # 1 => g[n - 1] = f[(n - 1) - 1]
      BY <2>1
    <3> HIDE DEF g
    <3>2. QED BY <2>1, <2>2, <2>4, <3>1
  <2>6. g = [n \in 1 .. MaxHops |-> IF n = 1 THEN c ELSE E(g[n - 1])]
    BY <2>5
  <2>7. QED BY <1>4, <2>6
<1>9. IsHop(title, CHOOSE h : IsHop(title, h))
  BY <1>8
<1>10. QED BY <1>5, <1>9

(* What a run follows is what the dump says, of the redirects it has read.  *)
LEMMA FollowIs ==
  ASSUME DumpOk, intake.redirects \subseteq Range(dump), NEW p \in Range(dump)
  PROVE  Follow(p.doc) = IF p \in intake.redirects THEN p.redirect ELSE NoTitle
<1> DEFINE page == {q \in intake.redirects : q.doc = p.doc}
<1>1. Follow(p.doc) = IF page = {} THEN NoTitle ELSE (CHOOSE q \in page : TRUE).redirect
  BY DEF Follow
<1>2. page = IF p \in intake.redirects THEN {p} ELSE {}
  BY DEF DumpOk
<1>3. (CHOOSE q \in {p} : TRUE) = p
  OBVIOUS
<1> HIDE DEF page
<1>4. QED BY <1>1, <1>2, <1>3

(* The documents a resolution ends at.                                      *)
Ending(hop, n) ==
  /\ hop[n] # NoDocument /\ Follow(hop[n]) = NoTitle
  /\ \A m \in 1 .. n - 1 : hop[m] # hop[n]

(* A resolution that can end at one hop only ends there; if it leads        *)
(* anywhere, it ends at some hop.                                           *)
LEMMA ResolveIs ==
  ASSUME NEW title, NEW h, h = Hop(title), DOMAIN h = 1 .. MaxHops
  PROVE  /\ \A n \in 1 .. MaxHops :
              Ending(h, n) /\ (\A m \in 1 .. MaxHops : Ending(h, m) => m = n) => Resolve(title) = h[n]
         /\ Resolve(title) # NoDocument =>
              \E n \in 1 .. MaxHops : Ending(h, n) /\ Resolve(title) = h[n]
<1> DEFINE ends == {n \in 1 .. MaxHops : Ending(h, n)}
<1> DEFINE all == {n \in DOMAIN Hop(title) : Ending(Hop(title), n)}
<1>1. Resolve(title) = IF all = {} THEN NoDocument ELSE Hop(title)[CHOOSE n \in all : TRUE]
  BY Zenon DEF Resolve, Ending
<1>2. all = ends
  BY DEF Ending
<1> HIDE DEF all
<1>3. Resolve(title) = IF ends = {} THEN NoDocument ELSE h[CHOOSE n \in ends : TRUE]
  BY <1>1, <1>2
<1>4. QED BY <1>3

(* A title resolves to the article its redirects lead to, if the run has    *)
(* read them all.                                                           *)
KnownRedirects ==
  intake.redirects \subseteq {p \in Range(dump) : p.redirect # NoTitle}

(* A way goes from page to page, at most one at a time, and stops for good  *)
(* at an article or where no page has the title.                            *)
LEMMA WayOf ==
  ASSUME DumpOk, store.documents = dump, NEW page \in Range(dump), NEW f, IsWay(page, f)
  PROVE  /\ f[0] = {page}
         /\ \A n \in 1 .. MaxHops : f[n] = UNION {Named(q.redirect) : q \in f[n - 1]}
         /\ \A n \in 0 .. MaxHops : f[n] = {} \/ \E q \in Range(dump) : f[n] = {q}
         /\ \A n, m \in 0 .. MaxHops : n <= m /\ f[n] = {} => f[m] = {}
         /\ \A q : \A n, m \in 0 .. MaxHops :
              n < m /\ f[n] = {q} /\ q.redirect = NoTitle => f[m] = {}
<1>1. MaxHops \in Nat
  BY StoreAssumption
<1>2. f = [n \in 0 .. MaxHops |->
             IF n = 0 THEN {page} ELSE UNION {Named(p.redirect) : p \in f[n - 1]}]
  BY Zenon DEF IsWay
<1>3. \A n \in 1 .. MaxHops : n \in 0 .. MaxHops /\ n - 1 \in 0 .. MaxHops /\ n # 0
  BY <1>1
<1>4. f[0] = {page}
  <2>1. 0 \in 0 .. MaxHops
    BY <1>1
  <2>2. QED BY <1>2, <2>1
<1>5. \A n \in 1 .. MaxHops : f[n] = UNION {Named(q.redirect) : q \in f[n - 1]}
  BY <1>2, <1>3, Zenon
<1>6. Nat \subseteq {n \in Nat : n <= MaxHops => f[n] = {} \/ \E q \in Range(dump) : f[n] = {q}}
  <2> DEFINE G == {n \in Nat : n <= MaxHops => f[n] = {} \/ \E q \in Range(dump) : f[n] = {q}}
  <2>1. 0 \in G
    BY <1>4
  <2>2. ASSUME NEW n \in Nat, n \in G PROVE n + 1 \in G
    <3>1. SUFFICES ASSUME n + 1 <= MaxHops
                   PROVE  f[n + 1] = {} \/ \E q \in Range(dump) : f[n + 1] = {q}
      OBVIOUS
    <3>2. n + 1 \in 1 .. MaxHops /\ (n + 1) - 1 = n /\ n <= MaxHops
      BY <1>1, <3>1
    <3>3. f[n + 1] = UNION {Named(q.redirect) : q \in f[n]}
      BY <1>5, <3>2
    <3>4. CASE f[n] = {}
      BY <3>3, <3>4
    <3>5. ASSUME NEW q \in Range(dump), f[n] = {q}
          PROVE  f[n + 1] = {} \/ \E z \in Range(dump) : f[n + 1] = {z}
      <4>1. f[n + 1] = Named(q.redirect)
        BY <3>3, <3>5
      <4>2. Named(q.redirect) = {} \/ \E z \in Range(dump) : Named(q.redirect) = {z}
        BY PageNamed DEF DumpOk
      <4>3. QED BY <4>1, <4>2
    <3>6. QED BY <2>2, <3>2, <3>4, <3>5
  <2> HIDE DEF G
  <2>3. Nat \subseteq G
    BY <2>1, <2>2, SetInduction
  <2>4. QED BY <2>3 DEF G
<1>7. Nat \subseteq {k \in Nat : \A n \in 0 .. MaxHops :
                       n + k <= MaxHops /\ f[n] = {} => f[n + k] = {}}
  <2> DEFINE G == {k \in Nat : \A n \in 0 .. MaxHops :
                     n + k <= MaxHops /\ f[n] = {} => f[n + k] = {}}
  <2>1. 0 \in G
    <3>1. \A n \in 0 .. MaxHops : n + 0 = n
      BY <1>1
    <3>2. QED BY <3>1
  <2>2. ASSUME NEW k \in Nat, k \in G PROVE k + 1 \in G
    <3>1. SUFFICES ASSUME NEW n \in 0 .. MaxHops, n + (k + 1) <= MaxHops, f[n] = {}
                   PROVE  f[n + (k + 1)] = {}
      OBVIOUS
    <3>2. n + (k + 1) \in 1 .. MaxHops /\ (n + (k + 1)) - 1 = n + k /\ n + k <= MaxHops
      BY <1>1, <3>1
    <3>3. f[n + k] = {}
      BY <2>2, <3>1, <3>2
    <3>4. f[n + (k + 1)] = UNION {Named(q.redirect) : q \in f[n + k]}
      BY <1>5, <3>2
    <3>5. QED BY <3>3, <3>4
  <2> HIDE DEF G
  <2>3. Nat \subseteq G
    BY <2>1, <2>2, SetInduction
  <2>4. QED BY <2>3 DEF G
<1>8. \A n, m \in 0 .. MaxHops : n <= m /\ f[n] = {} => f[m] = {}
  <2>1. \A n, m \in 0 .. MaxHops : n <= m =>
          m - n \in Nat /\ n + (m - n) = m /\ n + (m - n) <= MaxHops
    BY <1>1
  <2>2. \A k \in Nat : \A n \in 0 .. MaxHops :
          n + k <= MaxHops /\ f[n] = {} => f[n + k] = {}
    BY <1>7
  <2>3. ASSUME NEW n \in 0 .. MaxHops, NEW m \in 0 .. MaxHops, n <= m, f[n] = {}
        PROVE  f[m] = {}
    <3>1. m - n \in Nat /\ n + (m - n) = m /\ n + (m - n) <= MaxHops
      BY <2>1, <2>3
    <3>2. n + (m - n) <= MaxHops /\ f[n] = {} => f[n + (m - n)] = {}
      BY <2>2, <3>1, Zenon
    <3>3. QED BY <2>3, <3>1, <3>2
  <2>4. QED BY <2>3
<1>9. ASSUME NEW n \in 0 .. MaxHops, NEW m \in 0 .. MaxHops, NEW q,
             n < m, f[n] = {q}, q.redirect = NoTitle
      PROVE  f[m] = {}
  <2>1. n + 1 \in 1 .. MaxHops /\ n + 1 \in 0 .. MaxHops /\ n + 1 <= m /\ (n + 1) - 1 = n
    BY <1>1, <1>9
  <2>2. f[n + 1] = UNION {Named(z.redirect) : z \in f[n]}
    BY <1>5, <2>1
  <2>3. Named(NoTitle) = {}
    BY PageNamed DEF DumpOk
  <2>4. f[n + 1] = {}
    BY <1>9, <2>2, <2>3
  <2>5. QED BY <1>8, <2>1, <2>4
<1>10. \A n \in 0 .. MaxHops : f[n] = {} \/ \E q \in Range(dump) : f[n] = {q}
  <2>1. \A n \in 0 .. MaxHops : n \in Nat /\ n <= MaxHops
    BY <1>1
  <2>2. QED BY <1>6, <2>1
<1>11. QED BY <1>4, <1>5, <1>8, <1>9, <1>10

(* The hops are the documents of the way: one that the run has read up to   *)
(* its article resolves to that article.                                    *)
LEMMA ResolveLeads ==
  ASSUME DumpOk, store.documents = dump, KnownRedirects, NEW p \in intake.redirects,
         NEW end \in Way(p), end.redirect = NoTitle, Way(p) \ {end} \subseteq intake.redirects
  PROVE  Resolve(p.redirect) = end.doc
<1> DEFINE h == Hop(p.redirect)
<1>1. MaxHops \in Nat \ {0}
  BY StoreAssumption
<1>2. p \in Range(dump) /\ p.redirect # NoTitle /\ intake.redirects \subseteq Range(dump)
  BY DEF KnownRedirects
<1>3. PICK f : IsWay(p, f) /\ Way(p) = UNION {f[n] : n \in 0 .. MaxHops}
  BY <1>2, WayExists
<1>4. /\ f[0] = {p}
      /\ \A n \in 1 .. MaxHops : f[n] = UNION {Named(q.redirect) : q \in f[n - 1]}
      /\ \A n \in 0 .. MaxHops : f[n] = {} \/ \E q \in Range(dump) : f[n] = {q}
  BY <1>2, <1>3, WayOf
<1>5. \A n, m \in 0 .. MaxHops : n <= m /\ f[n] = {} => f[m] = {}
  BY <1>2, <1>3, WayOf
<1>6. \A q : \A n, m \in 0 .. MaxHops :
        n < m /\ f[n] = {q} /\ q.redirect = NoTitle => f[m] = {}
  BY <1>2, <1>3, WayOf
<1>7. PICK N \in 0 .. MaxHops : end \in f[N]
  BY <1>3
<1>8. end \in Range(dump) /\ f[N] = {end} /\ N \in 1 .. MaxHops
  <2>1. N # 0
    BY <1>2, <1>4, <1>7
  <2>2. end \in Range(dump) /\ f[N] = {end}
    BY <1>4, <1>7
  <2>3. QED BY <1>1, <2>1, <2>2
<1>9. end \notin intake.redirects
  BY DEF KnownRedirects
<1>10. \A n \in 0 .. N - 1 : \E q \in intake.redirects : f[n] = {q}
  <2>1. ASSUME NEW n \in 0 .. N - 1 PROVE \E q \in intake.redirects : f[n] = {q}
    <3>1. n \in 0 .. MaxHops /\ n <= N /\ n < N
      BY <1>1, <1>8
    <3>2. f[n] # {}
      BY <1>5, <1>8, <3>1
    <3>3. PICK q \in Range(dump) : f[n] = {q}
      BY <1>4, <3>1, <3>2
    <3>4. q # end
      BY <1>6, <1>8, <3>1, <3>3
    <3>5. q \in Way(p)
      BY <1>3, <3>1, <3>3
    <3>6. QED BY <3>3, <3>4, <3>5
  <2>2. QED BY <2>1
<1>11. IsHop(p.redirect, h)
  BY HopExists
<1> HIDE DEF h
<1>12. DOMAIN h = 1 .. MaxHops /\ h[1] = TitleDocument(p.redirect)
  <2>1. 1 \in 1 .. MaxHops
    BY <1>1
  <2>2. QED BY <1>11, <2>1, Zenon DEF IsHop
<1>13. \A n \in 1 .. MaxHops : n + 1 \in 1 .. MaxHops =>
         h[n + 1] = IF h[n] = NoDocument \/ Follow(h[n]) = NoTitle THEN NoDocument
                    ELSE TitleDocument(Follow(h[n]))
  <2>1. \A n \in 1 .. MaxHops : n + 1 # 1 /\ (n + 1) - 1 = n
    BY <1>1
  <2>2. \A n \in 1 .. MaxHops : n # 1 =>
          h[n] = IF h[n - 1] = NoDocument \/ Follow(h[n - 1]) = NoTitle THEN NoDocument
                 ELSE TitleDocument(Follow(h[n - 1]))
    BY <1>11, Zenon DEF IsHop
  <2>3. ASSUME NEW n \in 1 .. MaxHops, n + 1 \in 1 .. MaxHops
        PROVE  h[n + 1] = IF h[n] = NoDocument \/ Follow(h[n]) = NoTitle THEN NoDocument
                          ELSE TitleDocument(Follow(h[n]))
    <3>1. n + 1 # 1 /\ (n + 1) - 1 = n
      BY <2>1
    <3>2. h[n + 1] = IF h[(n + 1) - 1] = NoDocument \/ Follow(h[(n + 1) - 1]) = NoTitle
                     THEN NoDocument ELSE TitleDocument(Follow(h[(n + 1) - 1]))
      BY <2>2, <2>3, <3>1, Zenon
    <3>3. QED BY <3>1, <3>2
  <2>4. QED BY <2>3
<1>14. \A t, q : Named(t) = {q} => TitleDocument(t) = q.doc
  BY PageNamed DEF DumpOk
<1>15. \A q \in Range(dump) : q.doc # NoDocument
  BY DEF DumpOk, Documents
<1>16. Nat \subseteq {n \in Nat : n + 1 <= N => \A q : f[n + 1] = {q} => h[n + 1] = q.doc}
  <2> DEFINE G == {n \in Nat : n + 1 <= N => \A q : f[n + 1] = {q} => h[n + 1] = q.doc}
  <2>1. 0 \in G
    <3>1. 0 + 1 = 1 /\ 1 \in 1 .. MaxHops /\ 1 - 1 = 0
      BY <1>1
    <3>2. f[1] = UNION {Named(q.redirect) : q \in f[0]}
      BY <1>4, <3>1
    <3>3. f[1] = Named(p.redirect)
      BY <1>4, <3>2
    <3>4. \A q : f[1] = {q} => h[1] = q.doc
      BY <1>12, <1>14, <3>3
    <3>5. QED BY <3>1, <3>4
  <2>2. ASSUME NEW n \in Nat, n \in G PROVE n + 1 \in G
    <3>1. SUFFICES ASSUME (n + 1) + 1 <= N, NEW q, f[(n + 1) + 1] = {q}
                   PROVE  h[(n + 1) + 1] = q.doc
      OBVIOUS
    <3>2. /\ n + 1 \in 0 .. N - 1 /\ n + 1 \in 1 .. MaxHops /\ (n + 1) + 1 \in 1 .. MaxHops
          /\ ((n + 1) + 1) - 1 = n + 1 /\ n + 1 <= N
      BY <1>1, <1>8, <3>1
    <3>3. PICK z \in intake.redirects : f[n + 1] = {z}
      BY <1>10, <3>2
    <3>4. h[n + 1] = z.doc
      BY <2>2, <3>2, <3>3
    <3>5. z \in Range(dump) /\ z.redirect # NoTitle
      BY DEF KnownRedirects
    <3>6. z.doc # NoDocument /\ Follow(z.doc) = z.redirect
      BY <1>2, <1>15, <3>5, FollowIs
    <3>7. h[(n + 1) + 1] = TitleDocument(z.redirect)
      BY <1>13, <3>2, <3>4, <3>5, <3>6
    <3>8. f[(n + 1) + 1] = UNION {Named(y.redirect) : y \in f[n + 1]}
      BY <1>4, <3>2
    <3>9. f[(n + 1) + 1] = Named(z.redirect)
      BY <3>3, <3>8
    <3>10. QED BY <1>14, <3>1, <3>7, <3>9
  <2> HIDE DEF G
  <2>3. Nat \subseteq G
    BY <2>1, <2>2, SetInduction
  <2>4. QED BY <2>3 DEF G
<1>17. \A n \in 1 .. N : \A q : f[n] = {q} => h[n] = q.doc
  <2>1. \A n \in 1 .. N : n - 1 \in Nat /\ (n - 1) + 1 = n /\ (n - 1) + 1 <= N
    BY <1>8
  <2>2. \A k \in Nat : k + 1 <= N => \A q : f[k + 1] = {q} => h[k + 1] = q.doc
    BY <1>16
  <2>3. ASSUME NEW n \in 1 .. N, NEW q, f[n] = {q} PROVE h[n] = q.doc
    <3>1. n - 1 \in Nat /\ (n - 1) + 1 = n /\ (n - 1) + 1 <= N
      BY <2>1
    <3>2. (n - 1) + 1 <= N => \A y : f[(n - 1) + 1] = {y} => h[(n - 1) + 1] = y.doc
      BY <2>2, <3>1, Zenon
    <3>3. QED BY <2>3, <3>1, <3>2
  <2>4. QED BY <2>3
<1>18. h[N] = end.doc /\ end.doc # NoDocument /\ Follow(end.doc) = NoTitle
  <2>1. N \in 1 .. N
    BY <1>8
  <2>2. h[N] = end.doc
    BY <1>8, <1>17, <2>1
  <2>3. Follow(end.doc) = NoTitle
    BY <1>2, <1>8, <1>9, FollowIs
  <2>4. QED BY <1>8, <1>15, <2>2, <2>3
<1>19. \A n \in 1 .. N - 1 : Follow(h[n]) # NoTitle /\ h[n] # end.doc
  <2>1. ASSUME NEW n \in 1 .. N - 1 PROVE Follow(h[n]) # NoTitle /\ h[n] # end.doc
    <3>1. n \in 0 .. N - 1 /\ n \in 1 .. N
      BY <1>8
    <3>2. PICK z \in intake.redirects : f[n] = {z}
      BY <1>10, <3>1
    <3>3. h[n] = z.doc
      BY <1>17, <3>1, <3>2
    <3>4. z \in Range(dump) /\ z.redirect # NoTitle
      BY DEF KnownRedirects
    <3>5. Follow(z.doc) = z.redirect
      BY <1>2, <3>4, FollowIs
    <3>6. z.doc # end.doc
      BY <1>8, <1>9, <3>4 DEF DumpOk
    <3>7. QED BY <3>3, <3>4, <3>5, <3>6
  <2>2. QED BY <2>1
<1>20. \A n \in 1 .. MaxHops : n > N => h[n] = NoDocument
  <2> DEFINE G == {k \in Nat : N + (k + 1) <= MaxHops => h[N + (k + 1)] = NoDocument}
  <2>1. 0 \in G
    <3>1. N + (0 + 1) = N + 1 /\ (N + 1 <= MaxHops => N + 1 \in 1 .. MaxHops)
      BY <1>1, <1>8
    <3>2. N + 1 \in 1 .. MaxHops => h[N + 1] = NoDocument
      BY <1>8, <1>13, <1>18
    <3>3. QED BY <3>1, <3>2
  <2>2. ASSUME NEW k \in Nat, k \in G PROVE k + 1 \in G
    <3>1. SUFFICES ASSUME N + ((k + 1) + 1) <= MaxHops PROVE h[N + ((k + 1) + 1)] = NoDocument
      OBVIOUS
    <3>2. /\ N + (k + 1) \in 1 .. MaxHops /\ (N + (k + 1)) + 1 \in 1 .. MaxHops
          /\ N + ((k + 1) + 1) = (N + (k + 1)) + 1 /\ N + (k + 1) <= MaxHops
      BY <1>1, <1>8, <3>1
    <3>3. h[N + (k + 1)] = NoDocument
      BY <2>2, <3>2
    <3>4. h[(N + (k + 1)) + 1] = NoDocument
      BY <1>13, <3>2, <3>3
    <3>5. QED BY <3>2, <3>4
  <2> HIDE DEF G
  <2>3. Nat \subseteq G
    BY <2>1, <2>2, SetInduction
  <2>4. ASSUME NEW n \in 1 .. MaxHops, n > N PROVE h[n] = NoDocument
    <3>1. (n - N) - 1 \in Nat /\ N + (((n - N) - 1) + 1) = n /\ n <= MaxHops
      BY <1>1, <1>8, <2>4
    <3>2. \A k \in Nat : N + (k + 1) <= MaxHops => h[N + (k + 1)] = NoDocument
      BY <2>3 DEF G
    <3>3. N + (((n - N) - 1) + 1) <= MaxHops => h[N + (((n - N) - 1) + 1)] = NoDocument
      BY <3>1, <3>2, Zenon
    <3>4. QED BY <3>1, <3>3
  <2>5. QED BY <2>4
<1>21. Ending(h, N)
  <2>1. \A m \in 1 .. N - 1 : h[m] # h[N]
    BY <1>18, <1>19
  <2>2. QED BY <1>18, <2>1 DEF Ending
<1>22. \A m \in 1 .. MaxHops : Ending(h, m) => m = N
  <2>1. \A m \in 1 .. MaxHops : m = N \/ m > N \/ m \in 1 .. N - 1
    BY <1>8
  <2>2. QED BY <1>19, <1>20, <2>1 DEF Ending
<1>23. \A n \in 1 .. MaxHops :
         Ending(h, n) /\ (\A m \in 1 .. MaxHops : Ending(h, m) => m = n)
           => Resolve(p.redirect) = h[n]
  BY <1>12, ResolveIs DEF h
<1>24. QED BY <1>8, <1>18, <1>21, <1>22, <1>23

(* A resolution stops at a document that redirects nowhere.                 *)
LEMMA ResolveEnds ==
  ASSUME DumpOk, store.documents = dump, NEW title, Resolve(title) # NoDocument
  PROVE  Follow(Resolve(title)) = NoTitle
<1>1. IsHop(title, Hop(title))
  BY HopExists
<1>2. DOMAIN Hop(title) = 1 .. MaxHops
  BY <1>1, Zenon DEF IsHop
<1>3. PICK n \in 1 .. MaxHops : Ending(Hop(title), n) /\ Resolve(title) = Hop(title)[n]
  BY <1>2, ResolveIs
<1>4. QED BY <1>3 DEF Ending

(* The aliases after the end of a run that has the whole dump: pairs of a   *)
(* title and a document, and a redirect whose way the run has read names    *)
(* its article and no longer its stub.                                      *)
PairsOf(aliases) ==
  \A a \in aliases : a = <<a[1], a[2]>> /\ a[2] # NoDocument
KnownAnchors ==
  intake.anchors \subseteq UNION {p.anchors : p \in Range(dump)}
PlainAliases == store.aliases = {<<p.title, p.doc>> : p \in Range(dump)}

(* Every alias names a document.                                            *)
LEMMA AliasesPaired ==
  ASSUME PairsOf(store.aliases)
  PROVE  PairsOf(FoldedAliases \cup AnchorAliases)
<1>1. \A p \in Targeted : Resolve(p.redirect) # NoDocument
  BY DEF Targeted
<1>2. PairsOf(FoldedAliases)
  BY <1>1 DEF FoldedAliases, PairsOf
<1>3. PairsOf(AnchorAliases)
  BY DEF AnchorAliases, PairsOf
<1>4. QED BY <1>2, <1>3 DEF PairsOf

(* A redirect whose way the run has read names the article it leads to.     *)
LEMMA FoldedLeads ==
  ASSUME DumpOk, store.documents = dump, KnownRedirects, NEW p \in intake.redirects,
         NEW end \in Way(p), end.redirect = NoTitle, Way(p) \ {end} \subseteq intake.redirects
  PROVE  p \in Targeted /\ <<p.title, end.doc>> \in FoldedAliases
<1>1. Resolve(p.redirect) = end.doc
  BY ResolveLeads
<1>2. p \in Range(dump) /\ p.redirect # NoTitle
  BY DEF KnownRedirects
<1>3. end \in Range(dump)
  <2>1. PICK f : IsWay(p, f) /\ Way(p) = UNION {f[n] : n \in 0 .. MaxHops}
    BY <1>2, WayExists
  <2>2. \A n \in 0 .. MaxHops : f[n] = {} \/ \E q \in Range(dump) : f[n] = {q}
    BY <1>2, <2>1, WayOf
  <2>3. QED BY <2>1, <2>2
<1>4. end.doc # NoDocument /\ end.doc # p.doc
  BY <1>2, <1>3 DEF DumpOk, Documents
<1>5. p \in Targeted
  BY <1>1, <1>4 DEF Targeted
<1>6. <<p.title, end.doc>> \in FoldedAliases
  BY <1>1, <1>5 DEF FoldedAliases
<1>7. QED BY <1>5, <1>6

(* A redirect that leads somewhere names its stub no more: no redirect      *)
(* resolves to the stub, and no anchor stands for its own text.             *)
LEMMA StubUnnamed ==
  ASSUME DumpOk, store.documents = dump, KnownRedirects, KnownAnchors,
         \A q \in Range(dump) : \A a \in q.anchors : a[1] # a[2],
         NEW p \in Targeted
  PROVE  <<p.title, p.doc>> \notin FoldedAliases \cup AnchorAliases
<1>1. p \in intake.redirects /\ p \in Range(dump) /\ p.redirect # NoTitle
  BY DEF Targeted, KnownRedirects
<1>2. Follow(p.doc) # NoTitle
  BY <1>1, FollowIs DEF KnownRedirects
<1>3. \A t : Resolve(t) # p.doc
  <2>1. p.doc # NoDocument
    BY <1>1 DEF DumpOk, Documents
  <2>2. QED BY <1>2, <2>1, ResolveEnds
<1>4. <<p.title, p.doc>> \notin FoldedAliases
  <2>1. <<p.title, p.doc>> \notin {<<q.title, Resolve(q.redirect)>> : q \in Targeted}
    BY <1>3
  <2>2. QED BY <2>1 DEF FoldedAliases
<1>5. ASSUME NEW a \in intake.anchors, ResolvedTitle(a[2]) # NoDocument,
             <<p.title, p.doc>> = <<a[1], ResolvedTitle(a[2])>>
      PROVE  FALSE
  <2>1. p.title = a[1] /\ ResolvedTitle(a[2]) = p.doc
    BY <1>5
  <2>2. TitleDocument(a[2]) = p.doc
    BY <1>3, <2>1 DEF ResolvedTitle
  <2>3. PICK q \in Range(dump) : q.title = a[2] /\ TitleDocument(a[2]) = q.doc
    <3>1. p.doc # NoDocument
      BY <1>1 DEF DumpOk, Documents
    <3>2. QED BY <2>2, <3>1, PageNamed DEF DumpOk
  <2>4. q = p
    BY <1>1, <2>2, <2>3 DEF DumpOk
  <2>5. a[1] # a[2]
    BY DEF KnownAnchors
  <2>6. QED BY <2>1, <2>3, <2>4, <2>5
<1>6. QED BY <1>4, <1>5 DEF AnchorAliases

(* What the last update makes of the links.                                 *)
LinkOk(l, aliases) ==
  IF l.to = NoDocument THEN \A a \in aliases : a[1] # l.title ELSE <<l.title, l.to>> \in aliases
Updated(links, names) ==
  {IF l.to # NoDocument THEN l ELSE [l EXCEPT !.to = names[l.title]] : l \in links}

(* After the update every link that had no target leads to a document its   *)
(* title names, if there is one; no link is lost.                           *)
LEMMA LinksUpdated ==
  ASSUME NEW aliases, PairsOf(aliases), NEW names \in Naming(aliases),
         \A l \in store.links : /\ DOMAIN l = {"from", "title", "to"}
                                /\ l.to = NoDocument \/ <<l.title, l.to>> \in aliases
  PROVE  /\ \A l \in Updated(store.links, names) : LinkOk(l, aliases)
         /\ \A l \in Updated(store.links, names) : DOMAIN l = {"from", "title", "to"}
         /\ \A l \in store.links : \E k \in Updated(store.links, names) :
              k.from = l.from /\ k.title = l.title
<1> DEFINE New(l) == [l EXCEPT !.to = names[l.title]]
           Put(l) == IF l.to # NoDocument THEN l ELSE New(l)
           named(t) == {a[2] : a \in {b \in aliases : b[1] = t}}
<1>1. \A t \in LinkTitles : IF named(t) = {} THEN names[t] = NoDocument ELSE names[t] \in named(t)
  BY DEF Naming
<1>2. \A l \in store.links : /\ DOMAIN New(l) = {"from", "title", "to"}
                             /\ New(l).from = l.from /\ New(l).title = l.title
                             /\ New(l).to = names[l.title]
  OBVIOUS
<1>3. ASSUME NEW l \in store.links PROVE LinkOk(New(l), aliases)
  <2> DEFINE t == l.title
  <2>1. t \in LinkTitles
    BY DEF LinkTitles
  <2>2. New(l).title = t /\ New(l).to = names[t]
    BY <1>2
  <2> HIDE DEF New, t
  <2>3. CASE named(t) = {}
    <3>1. names[t] = NoDocument
      BY <1>1, <2>1, <2>3
    <3>2. \A a \in aliases : a[1] # t
      BY <2>3
    <3>3. QED BY <2>2, <3>1, <3>2 DEF LinkOk
  <2>4. CASE named(t) # {}
    <3>1. PICK a \in aliases : a[1] = t /\ names[t] = a[2]
      BY <1>1, <2>1, <2>4
    <3>2. a = <<t, names[t]>> /\ names[t] # NoDocument
      BY <3>1 DEF PairsOf
    <3>3. QED BY <2>2, <3>2 DEF LinkOk
  <2>5. QED BY <2>3, <2>4
<1>4. ASSUME NEW l \in store.links, l.to # NoDocument PROVE LinkOk(l, aliases)
  BY <1>4 DEF LinkOk
<1> HIDE DEF New
<1>5. \A l \in store.links : /\ LinkOk(Put(l), aliases) /\ DOMAIN Put(l) = {"from", "title", "to"}
                             /\ Put(l).from = l.from /\ Put(l).title = l.title
  BY <1>2, <1>3, <1>4
<1>6. Updated(store.links, names) = {Put(l) : l \in store.links}
  BY DEF Updated, New
<1> HIDE DEF Put
<1>7. QED BY <1>5, <1>6

(* The invariant of the serial ingestion.                                   *)
NamedIn(d, title) ==
  LET places == {i \in DOMAIN d : d[i].title = title}
      real == {i \in places : d[i].redirect = NoTitle}
  IN  IF real # {} THEN {d[i] : i \in {i \in real : \A j \in real : j <= i}}
      ELSE {d[i] : i \in {i \in places : \A j \in places : i <= j}}
WayIn(d, page) ==
  LET way[n \in 0 .. MaxHops] ==
        IF n = 0 THEN {page} ELSE UNION {NamedIn(d, p.redirect) : p \in way[n - 1]}
  IN  UNION {way[n] : n \in 0 .. MaxHops}

FoldedOk(d, f, aliases) ==
  \A p \in f : \A end \in WayIn(d, p) :
    end.redirect = NoTitle /\ WayIn(d, p) \ {end} \subseteq f =>
      <<p.title, end.doc>> \in aliases /\ <<p.title, p.doc>> \notin aliases
LinkFields(links) == \A l \in links : DOMAIN l = {"from", "title", "to"}
LinksOk(links, aliases) == \A l \in links : LinkOk(l, aliases)
HasLinks(d, links) ==
  \A p \in Range(d) : \A t \in p.links : \E l \in links : l.from = p.doc /\ l.title = t
TextOk(d, s) ==
  /\ DOMAIN s = {"documents", "chunks", "fts", "aliases", "links"}
  /\ s.documents = d /\ s.chunks = ChunksOf(d)
  /\ IsInjective(s.fts) /\ Range(s.fts) = s.chunks
  /\ LinkFields(s.links) /\ HasLinks(d, s.links) /\ PairsOf(s.aliases)
Settled(d, s, f) ==
  TextOk(d, s) /\ LinksOk(s.links, s.aliases) /\ FoldedOk(d, f, s.aliases)
ReadUpTo(d, s, f, n) == f = {} /\ n \in 0 .. Len(d) /\ s = RowsOf(Part(d, 0, n))
Fresh(d, s, f, k) ==
  \E n \in 0 .. Len(d) :
    /\ ReadUpTo(d, s, f, n) /\ k.next \in 1 .. n + 1
    /\ k.redirects \subseteq Redirecting(d) /\ k.anchors \subseteq AnchorsOf(d)
Again(d, s, f, k) ==
  Settled(d, s, f) /\ k.next \in Nat \ {0} /\ k.redirects = {} /\ k.anchors = {}

StoreOk(d, s, c, k, f) ==
  /\ DOMAIN k = {"at", "next", "articles", "redirects", "anchors"}
  /\ Settled(d, c, f) \/ \E n \in 0 .. Len(d) : ReadUpTo(d, c, f, n)
  /\ k.at = "reading" => Fresh(d, s, f, k) \/ (Again(d, s, f, k) /\ s = c)
  /\ k.at = "returned" => Settled(d, s, f) /\ s = c
StoreInv == dump \in Dumps /\ StoreOk(dump, store, committed, intake, folded)

(* A dump as the ingestion needs it.                                        *)
LEMMA DumpFacts ==
  ASSUME NEW d \in Dumps
  PROVE  /\ d \in Seq(Range(d)) /\ NoDocument \notin Documents(d) /\ OwnChunks(Range(d))
         /\ \A p, q \in Range(d) : p.doc = q.doc => p = q
         /\ IsInjective(d)
         /\ \A i, j \in DOMAIN d : d[i].doc = d[j].doc => i = j
         /\ \A p \in Range(d) : p.title # NoTitle /\ \A a \in p.anchors : a[1] # a[2]
<1>1. /\ d \in Seq(Range(d)) /\ NoDocument \notin Documents(d)
      /\ \A i, j \in DOMAIN d : d[i].doc = d[j].doc => i = j
      /\ \A p \in Range(d) : p.title # NoTitle /\ \A a \in p.anchors : a[1] # a[2]
  BY StoreAssumption
<1>2. OwnChunks(Range(d))
  BY StoreAssumption DEF OwnChunks
<1>3. \A p, q \in Range(d) : p.doc = q.doc => p = q
  BY <1>1 DEF Range
<1>4. IsInjective(d)
  BY <1>1 DEF IsInjective
<1>5. QED BY <1>1, <1>2, <1>3, <1>4

(* Nothing but the dump decides a way.                                      *)
LEMMA WayIsIn == \A page : Way(page) = WayIn(dump, page)
BY DEF Way, Named, WayIn, NamedIn

(* A finished run has what was promised.                                    *)
LEMMA SettledComplete == StoreInv => IngestComplete
<1> SUFFICES ASSUME StoreInv, intake.at = "returned"
             PROVE  /\ store.documents = dump
                    /\ IsInjective(store.fts) /\ Range(store.fts) = store.chunks
                    /\ store.chunks = UNION {Range(p.chunks) : p \in Range(dump)}
                    /\ \A p \in Range(dump) : \A t \in p.links :
                         \E l \in store.links :
                           /\ l.from = p.doc /\ l.title = t
                           /\ IF l.to = NoDocument THEN \A a \in store.aliases : a[1] # t
                              ELSE <<t, l.to>> \in store.aliases
                    /\ \A p \in folded : \A end \in Way(p) :
                         end.redirect = NoTitle /\ Way(p) \ {end} \subseteq folded =>
                           /\ <<p.title, end.doc>> \in store.aliases
                           /\ <<p.title, p.doc>> \notin store.aliases
  BY DEF IngestComplete
<1>1. Settled(dump, store, folded)
  BY DEF StoreInv, StoreOk
<1>2. /\ store.documents = dump
      /\ IsInjective(store.fts) /\ Range(store.fts) = store.chunks
      /\ store.chunks = UNION {Range(p.chunks) : p \in Range(dump)}
  BY <1>1 DEF Settled, TextOk, ChunksOf
<1>3. \A p \in Range(dump) : \A t \in p.links :
        \E l \in store.links :
          /\ l.from = p.doc /\ l.title = t
          /\ IF l.to = NoDocument THEN \A a \in store.aliases : a[1] # t
             ELSE <<t, l.to>> \in store.aliases
  <2>1. HasLinks(dump, store.links) /\ LinksOk(store.links, store.aliases)
    BY <1>1 DEF Settled, TextOk
  <2>2. QED BY <2>1 DEF HasLinks, LinksOk, LinkOk
<1>4. ASSUME NEW p \in folded, NEW end \in Way(p),
             end.redirect = NoTitle, Way(p) \ {end} \subseteq folded
      PROVE  <<p.title, end.doc>> \in store.aliases /\ <<p.title, p.doc>> \notin store.aliases
  <2>1. FoldedOk(dump, folded, store.aliases)
    BY <1>1 DEF Settled
  <2>2. Way(p) = WayIn(dump, p)
    BY WayIsIn
  <2>3. QED BY <1>4, <2>1, <2>2 DEF FoldedOk
<1>5. QED BY <1>2, <1>3, <1>4

(* The pages read so far are the documents in the store, and no more.       *)
LEMMA FreshRows ==
  ASSUME NEW d \in Dumps, NEW n \in 0 .. Len(d)
  PROVE  LET s == RowsOf(Part(d, 0, n))
         IN  /\ Tables(Part(d, 0, n))
             /\ Part(d, 0, n) = SubSeq(d, 1, n)
             /\ Documents(s.documents) = {d[i].doc : i \in 1 .. n}
             /\ DOMAIN s = {"documents", "chunks", "fts", "aliases", "links"}
<1> DEFINE P == Range(d)
           a == Part(d, 0, n)
<1>1. d \in Seq(P) /\ (\A p \in P : p.chunks \in Seq(Range(p.chunks))) /\ Len(d) \in Nat
      /\ n \in Nat /\ n <= Len(d)
  BY DumpPages
<1>2. a \in Seq(P) /\ a = SubSeq(d, 1, n)
  <2>1. Cut(d, n) = n /\ 0 <= n
    BY <1>1 DEF Cut
  <2> HIDE DEF P
  <2> HIDE DEF a
  <2>2. d \in Seq(P)
    BY <1>1
  <2>3. \A x, y \in Nat : x <= y => Part(d, x, y) \in Seq(P)
    BY <2>2, Parts
  <2>4. \A y \in Nat : 0 <= y => Part(d, 0, y) = SubSeq(d, 1, Cut(d, y))
    BY <2>2, Parts
  <2>5. 0 \in Nat
    OBVIOUS
  <2>6. QED BY <1>1, <2>1, <2>3, <2>4, <2>5 DEF a
<1>3. Tables(a) /\ RowsOk(RowsOf(a), P)
  BY <1>1, <1>2, RowsHold, RowsTyped
<1>4. DOMAIN RowsOf(a) = {"documents", "chunks", "fts", "aliases", "links"}
  BY <1>3 DEF RowsOk
<1>5. RowsOf(a).documents = a
  BY <1>3 DEF Tables
<1>6. Range(a) = {d[i] : i \in 1 .. n}
  <2>1. /\ DOMAIN SubSeq(d, 1, n) = 1 .. n
        /\ \A i \in 1 .. n : SubSeq(d, 1, n)[i] = d[i]
    BY <1>1
  <2> HIDE DEF a
  <2>2. QED BY <1>2, <2>1 DEF Range
<1>7. Documents(RowsOf(a).documents) = {d[i].doc : i \in 1 .. n}
  BY <1>5, <1>6 DEF Documents
<1>8. QED BY <1>2, <1>3, <1>4, <1>7

(* The tables of no page, of one page more and of all pages.                *)
LEMMA ReadRows ==
  ASSUME NEW d \in Dumps
  PROVE  /\ RowsOf(Part(d, 0, 0)) = EmptyStore
         /\ \A n \in Nat : n < Len(d) =>
              RowsOf(Part(d, 0, n + 1)) = AddPage(RowsOf(Part(d, 0, n)), d[n + 1])
         /\ Part(d, 0, Len(d)) = d
<1> DEFINE P == Range(d)
<1>1. d \in Seq(P)
  BY DumpFacts
<1> HIDE DEF P
<1>2. 0 \in Nat /\ 0 <= 0 /\ Len(d) \in Nat
  BY <1>1
<1>3. \A x \in Nat : x <= x => Part(d, x, x) = <<>>
  BY <1>1, Parts
<1>4. RowsOf(Part(d, 0, 0)) = EmptyStore
  <2>1. Part(d, 0, 0) = <<>>
    BY <1>2, <1>3
  <2>2. QED BY <2>1, RowsStep
<1>5. ASSUME NEW n \in Nat, n < Len(d)
      PROVE  RowsOf(Part(d, 0, n + 1)) = AddPage(RowsOf(Part(d, 0, n)), d[n + 1])
  <2>1. \A x, y \in Nat : x <= y => Part(d, x, y) \in Seq(P)
    BY <1>1, Parts
  <2>2. \A x, y \in Nat : x <= y /\ y < Len(d) =>
          Part(d, x, y + 1) = Append(Part(d, x, y), d[y + 1]) /\ d[y + 1] \in P
    BY <1>1, Parts
  <2>3. 0 \in Nat /\ 0 <= n
    OBVIOUS
  <2>4. /\ Part(d, 0, n) \in Seq(P) /\ d[n + 1] \in P
        /\ Part(d, 0, n + 1) = Append(Part(d, 0, n), d[n + 1])
    BY <1>5, <2>1, <2>2, <2>3
  <2>5. \A s \in Seq(P) : \A x \in P : RowsOf(Append(s, x)) = AddPage(RowsOf(s), x)
    BY RowsStep
  <2>6. RowsOf(Append(Part(d, 0, n), d[n + 1])) = AddPage(RowsOf(Part(d, 0, n)), d[n + 1])
    BY <2>4, <2>5, Zenon
  <2>7. QED BY <2>4, <2>6, Zenon
<1>6. Part(d, 0, Len(d)) = d
  <2>1. Len(d) \in 0 .. Len(d)
    BY <1>2
  <2>2. Part(d, 0, Len(d)) = SubSeq(d, 1, Len(d))
    BY <2>1, FreshRows
  <2>3. SubSeq(d, 1, Len(d)) = d
    BY <1>1
  <2>4. QED BY <2>2, <2>3
<1>7. QED BY <1>4, <1>5, <1>6

(* A new run finds what was committed.                                      *)
LEMMA RunEnters ==
  ASSUME NEW d \in Dumps, NEW c, NEW f,
         Settled(d, c, f) \/ \E n \in 0 .. Len(d) : ReadUpTo(d, c, f, n)
  PROVE  Fresh(d, c, f, Intake("reading")) \/ Again(d, c, f, Intake("reading"))
<1> DEFINE k == Intake("reading")
<1>1. k.next = 1 /\ k.redirects = {} /\ k.anchors = {}
  BY DEF Intake
<1> HIDE DEF k
<1>2. CASE Settled(d, c, f)
  BY <1>1, <1>2 DEF Again, k
<1>3. ASSUME NEW n \in 0 .. Len(d), ReadUpTo(d, c, f, n) PROVE Fresh(d, c, f, k)
  <2>1. 1 \in 1 .. n + 1
    OBVIOUS
  <2>2. QED BY <1>1, <1>3, <2>1 DEF Fresh
<1>4. QED BY <1>2, <1>3 DEF k

(* The initial state.                                                       *)
LEMMA StoreInitInv == StoreInit => StoreInv
<1> SUFFICES ASSUME StoreInit PROVE StoreInv
  OBVIOUS
<1>1. /\ dump \in Dumps /\ committed = EmptyStore /\ intake = Intake("idle") /\ folded = {}
  BY DEF StoreInit, StoreStart
<1>2. Len(dump) \in Nat
  <2>1. dump \in Seq(Range(dump))
    BY <1>1, DumpFacts
  <2>2. QED BY <2>1
<1>3. 0 \in 0 .. Len(dump) /\ ReadUpTo(dump, committed, folded, 0)
  BY <1>1, <1>2, ReadRows DEF ReadUpTo
<1>4. DOMAIN intake = {"at", "next", "articles", "redirects", "anchors"} /\ intake.at = "idle"
  BY <1>1 DEF Intake
<1>5. QED BY <1>1, <1>3, <1>4 DEF StoreInv, StoreOk

(* A run begins.                                                            *)
LEMMA IngestStartKeeps == ASSUME StoreInv, IngestStart PROVE StoreInv'
<1>1. /\ dump \in Dumps
      /\ Settled(dump, committed, folded)
           \/ \E n \in 0 .. Len(dump) : ReadUpTo(dump, committed, folded, n)
  BY DEF StoreInv, StoreOk
<1>2. /\ store' = committed /\ intake' = Intake("reading")
      /\ dump' = dump /\ committed' = committed /\ folded' = folded
  BY DEF IngestStart
<1>3. Fresh(dump, committed, folded, Intake("reading"))
        \/ Again(dump, committed, folded, Intake("reading"))
  BY <1>1, RunEnters
<1>4. /\ DOMAIN Intake("reading") = {"at", "next", "articles", "redirects", "anchors"}
      /\ Intake("reading").at = "reading"
  BY DEF Intake
<1>5. StoreOk(dump, committed, committed, Intake("reading"), folded)
  BY <1>1, <1>3, <1>4 DEF StoreOk
<1>6. QED BY <1>1, <1>2, <1>5 DEF StoreInv

(* A run dies.                                                              *)
LEMMA IngestDiesKeeps == ASSUME StoreInv, IngestDies PROVE StoreInv'
<1>1. /\ dump \in Dumps
      /\ Settled(dump, committed, folded)
           \/ \E n \in 0 .. Len(dump) : ReadUpTo(dump, committed, folded, n)
  BY DEF StoreInv, StoreOk
<1>2. /\ store' = committed /\ intake' = Intake("idle")
      /\ dump' = dump /\ committed' = committed /\ folded' = folded
  BY DEF IngestDies
<1>3. /\ DOMAIN Intake("idle") = {"at", "next", "articles", "redirects", "anchors"}
      /\ Intake("idle").at = "idle"
  BY DEF Intake
<1>4. StoreOk(dump, committed, committed, Intake("idle"), folded)
  BY <1>1, <1>3 DEF StoreOk
<1>5. QED BY <1>1, <1>2, <1>4 DEF StoreInv

(* A page is present exactly if this run or an earlier one has read it.     *)
LEMMA PresentIs ==
  ASSUME StoreInv, HasPage
  PROVE  /\ \A n : ReadUpTo(dump, store, folded, n) /\ intake.next \in 1 .. n + 1 =>
                     (Present(NextPage) <=> intake.next <= n)
         /\ Again(dump, store, folded, intake) => Present(NextPage)
<1>1. /\ dump \in Dumps /\ intake.at = "reading" /\ intake.next <= Len(dump)
  BY DEF StoreInv, StoreOk, HasPage
<1>2. \A i, j \in DOMAIN dump : dump[i].doc = dump[j].doc => i = j
  BY <1>1, DumpFacts
<1>3. Len(dump) \in Nat /\ DOMAIN dump = 1 .. Len(dump)
  <2>1. dump \in Seq(Range(dump))
    BY <1>1, DumpFacts
  <2>2. QED BY <2>1
<1>4. ASSUME NEW n, ReadUpTo(dump, store, folded, n), intake.next \in 1 .. n + 1
      PROVE  Present(NextPage) <=> intake.next <= n
  <2>1. n \in 0 .. Len(dump) /\ store = RowsOf(Part(dump, 0, n))
    BY <1>4 DEF ReadUpTo
  <2>2. Documents(store.documents) = {dump[i].doc : i \in 1 .. n}
    BY <1>1, <2>1, FreshRows
  <2>3. /\ intake.next \in DOMAIN dump /\ \A i \in 1 .. n : i \in DOMAIN dump /\ i <= n
        /\ intake.next <= n => intake.next \in 1 .. n
    BY <1>1, <1>3, <1>4, <2>1
  <2>4. QED BY <1>2, <2>2, <2>3 DEF Present, NextPage
<1>5. ASSUME Again(dump, store, folded, intake) PROVE Present(NextPage)
  <2>1. store.documents = dump
    BY <1>5 DEF Again, Settled, TextOk
  <2>2. intake.next \in 1 .. Len(dump)
    <3>1. intake.next \in Nat \ {0}
      BY <1>5 DEF Again
    <3>2. QED BY <1>1, <1>3, <3>1
  <2>3. dump[intake.next] \in Range(dump)
    BY <1>3, <2>2 DEF Range
  <2>4. QED BY <2>1, <2>3 DEF Present, NextPage, Documents
<1>6. QED BY <1>4, <1>5

(* A page that is present was read before this run met it: all pages up to  *)
(* it are in the store.                                                     *)
LEMMA SkipKeeps == ASSUME StoreInv, SkipPage PROVE StoreInv'
<1> DEFINE k == [intake EXCEPT !.next = @ + 1]
<1>1. /\ dump \in Dumps /\ DOMAIN intake = {"at", "next", "articles", "redirects", "anchors"}
      /\ Settled(dump, committed, folded)
           \/ \E n \in 0 .. Len(dump) : ReadUpTo(dump, committed, folded, n)
      /\ intake.at = "reading"
      /\ Fresh(dump, store, folded, intake)
           \/ (Again(dump, store, folded, intake) /\ store = committed)
      /\ HasPage /\ Present(NextPage)
  BY DEF StoreInv, StoreOk, SkipPage, HasPage
<1>2. /\ intake' = k /\ store' = store /\ dump' = dump /\ committed' = committed
      /\ folded' = folded
  BY DEF SkipPage
<1>3. /\ DOMAIN k = {"at", "next", "articles", "redirects", "anchors"} /\ k.at = "reading"
      /\ k.next = intake.next + 1 /\ k.redirects = intake.redirects
      /\ k.anchors = intake.anchors
  BY <1>1
<1> HIDE DEF k
<1>4. ASSUME Fresh(dump, store, folded, intake) PROVE Fresh(dump, store, folded, k)
  <2>1. PICK n \in 0 .. Len(dump) :
          /\ ReadUpTo(dump, store, folded, n) /\ intake.next \in 1 .. n + 1
          /\ intake.redirects \subseteq Redirecting(dump) /\ intake.anchors \subseteq AnchorsOf(dump)
    BY <1>4 DEF Fresh
  <2>2. intake.next <= n
    BY <1>1, <2>1, PresentIs
  <2>3. k.next \in 1 .. n + 1
    BY <1>3, <2>1, <2>2
  <2>4. QED BY <1>3, <2>1, <2>3 DEF Fresh
<1>5. ASSUME Again(dump, store, folded, intake) PROVE Again(dump, store, folded, k)
  <2>1. intake.next + 1 \in Nat \ {0}
    BY <1>5 DEF Again
  <2>2. QED BY <1>3, <1>5, <2>1 DEF Again
<1>6. StoreOk(dump, store, committed, k, folded)
  BY <1>1, <1>3, <1>4, <1>5 DEF StoreOk
<1>7. QED BY <1>1, <1>2, <1>6 DEF StoreInv

(* A page that is not present is the next one after those in the store.     *)
LEMMA IngestKeeps == ASSUME StoreInv, IngestPage PROVE StoreInv'
<1> DEFINE p == NextPage
           k == [intake EXCEPT !.next = @ + 1, !.articles = @ + 1,
                   !.redirects = IF p.redirect = NoTitle THEN @ ELSE @ \cup {p},
                   !.anchors = @ \cup p.anchors]
           s == AddPage(store, p)
<1>1. /\ dump \in Dumps /\ DOMAIN intake = {"at", "next", "articles", "redirects", "anchors"}
      /\ Settled(dump, committed, folded)
           \/ \E n \in 0 .. Len(dump) : ReadUpTo(dump, committed, folded, n)
      /\ intake.at = "reading" /\ intake.next <= Len(dump)
      /\ Fresh(dump, store, folded, intake) \/ Again(dump, store, folded, intake)
      /\ HasPage /\ ~ Present(NextPage)
  BY DEF StoreInv, StoreOk, IngestPage, HasPage
<1>2. /\ intake' = k /\ store' = s /\ dump' = dump /\ committed' \in {s, committed}
      /\ folded' = folded
  BY Zenon DEF IngestPage
<1>3. /\ DOMAIN k = {"at", "next", "articles", "redirects", "anchors"} /\ k.at = "reading"
      /\ k.next = intake.next + 1
      /\ k.redirects = IF p.redirect = NoTitle THEN intake.redirects
                       ELSE intake.redirects \cup {p}
      /\ k.anchors = intake.anchors \cup p.anchors
  BY <1>1
<1> HIDE DEF k
<1>4. PICK n \in 0 .. Len(dump) :
        /\ ReadUpTo(dump, store, folded, n) /\ intake.next \in 1 .. n + 1
        /\ intake.redirects \subseteq Redirecting(dump) /\ intake.anchors \subseteq AnchorsOf(dump)
  <2>1. ~ Again(dump, store, folded, intake)
    BY <1>1, PresentIs
  <2>2. QED BY <1>1, <2>1 DEF Fresh
<1>5. ~ (intake.next <= n)
  BY <1>1, <1>4, PresentIs
<1>6. DOMAIN dump = 1 .. Len(dump) /\ Len(dump) \in Nat
  <2>1. dump \in Seq(Range(dump))
    BY <1>1, DumpFacts
  <2>2. QED BY <2>1
<1>7. /\ n \in Nat /\ n < Len(dump) /\ intake.next = n + 1 /\ n + 1 \in 0 .. Len(dump)
      /\ n + 1 \in DOMAIN dump /\ k.next \in 1 .. (n + 1) + 1
  BY <1>1, <1>3, <1>4, <1>5, <1>6
<1>8. p = dump[n + 1] /\ p \in Range(dump)
  BY <1>7 DEF NextPage, Range
<1>9. ReadUpTo(dump, s, folded, n + 1)
  <2>1. store = RowsOf(Part(dump, 0, n)) /\ folded = {}
    BY <1>4 DEF ReadUpTo
  <2>2. RowsOf(Part(dump, 0, n + 1)) = AddPage(RowsOf(Part(dump, 0, n)), dump[n + 1])
    BY <1>1, <1>7, ReadRows
  <2>3. s = RowsOf(Part(dump, 0, n + 1))
    <3> HIDE DEF p
    <3>1. QED BY <1>8, <2>1, <2>2
  <2> HIDE DEF s
  <2>4. QED BY <1>7, <2>1, <2>3 DEF ReadUpTo
<1> HIDE DEF s, p
<1>10. Fresh(dump, s, folded, k)
  <2>1. k.redirects \subseteq Redirecting(dump)
    BY <1>3, <1>4, <1>8 DEF Redirecting
  <2>2. k.anchors \subseteq AnchorsOf(dump)
    BY <1>3, <1>4, <1>8 DEF AnchorsOf
  <2>3. QED BY <1>7, <1>9, <2>1, <2>2 DEF Fresh
<1>11. \A c \in {s, committed} : StoreOk(dump, s, c, k, folded)
  BY <1>1, <1>3, <1>7, <1>9, <1>10 DEF StoreOk
<1>12. QED BY <1>1, <1>2, <1>11 DEF StoreInv

(* The tables of a whole dump, before the last steps.                       *)
LEMMA WholeRows ==
  ASSUME NEW d \in Dumps, NEW s, s = RowsOf(d)
  PROVE  /\ TextOk(d, s) /\ \A l \in s.links : l.to = NoDocument
<1> DEFINE P == Range(d)
<1>1. /\ d \in Seq(P) /\ NoDocument \notin Documents(d) /\ OwnChunks(P) /\ IsInjective(d)
      /\ \A p \in P : p.chunks \in Seq(Range(p.chunks))
  BY DumpFacts, DumpPages
<1>2. Tables(d) /\ RowsOk(s, P) /\ IsInjective(s.fts)
  BY <1>1, RowsHold, RowsTyped, IndexedOnce
<1>3. /\ s.documents = d /\ s.chunks = ChunksOf(d) /\ Range(s.fts) = s.chunks
      /\ s.aliases = {<<p.title, p.doc>> : p \in P}
      /\ s.links = UNION {LinksOfPage(p) : p \in P}
  BY <1>2 DEF Tables
<1>4. DOMAIN s = {"documents", "chunks", "fts", "aliases", "links"}
  BY <1>2 DEF RowsOk
<1>5. PairsOf(s.aliases)
  BY <1>1, <1>3 DEF PairsOf, Documents
<1>6. \A p \in P : \A l \in LinksOfPage(p) : DOMAIN l = {"from", "title", "to"} /\ l.to = NoDocument
  BY DEF LinksOfPage
<1>7. ASSUME NEW p \in P, NEW t \in p.links
      PROVE  \E l \in LinksOfPage(p) : l.from = p.doc /\ l.title = t
  <2> DEFINE l == [from |-> p.doc, title |-> t, to |-> NoDocument]
  <2>1. l \in LinksOfPage(p)
    BY DEF LinksOfPage
  <2>2. l.from = p.doc /\ l.title = t
    OBVIOUS
  <2> HIDE DEF l
  <2>3. QED BY <2>1, <2>2
<1>8. LinkFields(s.links) /\ HasLinks(d, s.links) /\ \A l \in s.links : l.to = NoDocument
  BY <1>3, <1>6, <1>7 DEF LinkFields, HasLinks
<1>9. QED BY <1>2, <1>3, <1>4, <1>5, <1>8 DEF TextOk

(* What a run that has read the dump to its end holds.                      *)
AtEnd ==
  \/ Fresh(dump, store, folded, intake) /\ store = RowsOf(dump) /\ folded = {}
  \/ Again(dump, store, folded, intake)

(* It holds the rows of the dump, and knows only redirects and anchors of   *)
(* it.                                                                      *)
LEMMA RunAtEnd ==
  ASSUME StoreInv, IngestEnd
  PROVE  /\ dump \in Dumps /\ DumpOk /\ TextOk(dump, store) /\ AtEnd
         /\ KnownRedirects /\ KnownAnchors
<1>1. /\ dump \in Dumps /\ intake.at = "reading" /\ intake.next > Len(dump)
      /\ Fresh(dump, store, folded, intake) \/ Again(dump, store, folded, intake)
  BY DEF StoreInv, StoreOk, IngestEnd
<1>2. DumpOk /\ Len(dump) \in Nat
  <2>1. dump \in Seq(Range(dump))
    BY <1>1, DumpFacts
  <2>2. DumpOk
    BY <1>1, DumpFacts DEF DumpOk
  <2>3. QED BY <2>1, <2>2
<1>3. CASE Fresh(dump, store, folded, intake)
  <2>1. PICK n \in 0 .. Len(dump) :
          /\ ReadUpTo(dump, store, folded, n) /\ intake.next \in 1 .. n + 1
          /\ intake.redirects \subseteq Redirecting(dump) /\ intake.anchors \subseteq AnchorsOf(dump)
    BY <1>3 DEF Fresh
  <2>2. n = Len(dump)
    BY <1>1, <1>2, <2>1
  <2>3. store = RowsOf(dump) /\ folded = {}
    BY <1>1, <2>1, <2>2, ReadRows DEF ReadUpTo
  <2>4. TextOk(dump, store)
    BY <1>1, <2>3, WholeRows
  <2>5. KnownRedirects /\ KnownAnchors
    BY <2>1 DEF KnownRedirects, KnownAnchors, Redirecting, AnchorsOf
  <2>6. QED BY <1>1, <1>2, <1>3, <2>3, <2>4, <2>5 DEF AtEnd
<1>4. CASE Again(dump, store, folded, intake)
  <2>1. Settled(dump, store, folded) /\ intake.redirects = {} /\ intake.anchors = {}
    BY <1>4 DEF Again
  <2>2. TextOk(dump, store)
    BY <2>1 DEF Settled
  <2>3. KnownRedirects /\ KnownAnchors
    BY <2>1 DEF KnownRedirects, KnownAnchors
  <2>4. QED BY <1>1, <1>2, <1>4, <2>2, <2>3 DEF AtEnd
<1>5. QED BY <1>1, <1>3, <1>4

(* Without redirects and anchors nothing is folded.                         *)
LEMMA NothingToFold ==
  ASSUME intake.redirects = {}, intake.anchors = {}
  PROVE  FoldedAliases \cup AnchorAliases = store.aliases
<1>1. Targeted = {}
  BY DEF Targeted
<1>2. FoldedAliases = store.aliases
  BY <1>1 DEF FoldedAliases
<1>3. AnchorAliases = {}
  BY DEF AnchorAliases
<1>4. QED BY <1>2, <1>3

(* The last steps settle the links and the redirects the run has read.      *)
LEMMA EndSettles ==
  ASSUME StoreInv, IngestEnd
  PROVE  /\ \A l \in store.links :
              l.to = NoDocument \/ <<l.title, l.to>> \in FoldedAliases \cup AnchorAliases
         /\ FoldedOk(dump, folded \cup intake.redirects, FoldedAliases \cup AnchorAliases)
<1> DEFINE aliases == FoldedAliases \cup AnchorAliases
<1>1. /\ dump \in Dumps /\ DumpOk /\ TextOk(dump, store) /\ AtEnd
      /\ KnownRedirects /\ KnownAnchors
  BY RunAtEnd
<1>2. CASE store = RowsOf(dump) /\ folded = {}
  <2>1. \A l \in store.links : l.to = NoDocument
    BY <1>1, <1>2, WholeRows
  <2>2. \A q \in Range(dump) : \A a \in q.anchors : a[1] # a[2]
    BY <1>1, DumpFacts
  <2>3. store.documents = dump
    BY <1>1 DEF TextOk
  <2>4. ASSUME NEW p \in intake.redirects, NEW end \in WayIn(dump, p), end.redirect = NoTitle,
               WayIn(dump, p) \ {end} \subseteq intake.redirects
        PROVE  <<p.title, end.doc>> \in aliases /\ <<p.title, p.doc>> \notin aliases
    <3>1. WayIn(dump, p) = Way(p)
      BY WayIsIn
    <3>2. p \in Targeted /\ <<p.title, end.doc>> \in FoldedAliases
      BY <1>1, <2>3, <2>4, <3>1, FoldedLeads
    <3>3. <<p.title, p.doc>> \notin aliases
      BY <1>1, <2>2, <2>3, <3>2, StubUnnamed
    <3>4. QED BY <3>2, <3>3
  <2>5. FoldedOk(dump, folded \cup intake.redirects, aliases)
    <3>1. folded \cup intake.redirects = intake.redirects
      BY <1>2
    <3> HIDE DEF aliases
    <3>2. QED BY <2>4, <3>1 DEF FoldedOk
  <2>6. QED BY <2>1, <2>5
<1>3. CASE Again(dump, store, folded, intake)
  <2>1. Settled(dump, store, folded) /\ intake.redirects = {} /\ intake.anchors = {}
    BY <1>3 DEF Again
  <2>2. aliases = store.aliases /\ folded \cup intake.redirects = folded
    BY <2>1, NothingToFold
  <2>3. \A l \in store.links : l.to = NoDocument \/ <<l.title, l.to>> \in store.aliases
    <3>1. LinksOk(store.links, store.aliases)
      BY <2>1 DEF Settled
    <3>2. QED BY <3>1, Zenon DEF LinksOk, LinkOk
  <2>4. FoldedOk(dump, folded, store.aliases)
    BY <2>1 DEF Settled
  <2> HIDE DEF aliases
  <2>5. FoldedOk(dump, folded \cup intake.redirects, aliases)
    BY <2>2, <2>4
  <2>6. QED BY <2>2, <2>3, <2>5 DEF aliases
<1>4. QED BY <1>1, <1>2, <1>3 DEF AtEnd

(* The end of a run.                                                        *)
LEMMA EndKeeps == ASSUME StoreInv, IngestEnd PROVE StoreInv'
<1> DEFINE aliases == FoldedAliases \cup AnchorAliases
           f == folded \cup intake.redirects
           k == Intake("returned")
<1>1. PICK names \in Naming(aliases) :
        store' = [store EXCEPT !.aliases = aliases,
                     !.links = {IF l.to # NoDocument THEN l
                                ELSE [l EXCEPT !.to = names[l.title]] : l \in @}]
  BY Zenon DEF IngestEnd
<1>2. /\ committed' = store' /\ folded' = f /\ intake' = k /\ dump' = dump
  BY DEF IngestEnd
<1>3. dump \in Dumps /\ TextOk(dump, store)
  BY RunAtEnd
<1>4. /\ \A l \in store.links : l.to = NoDocument \/ <<l.title, l.to>> \in aliases
      /\ FoldedOk(dump, f, aliases)
  BY EndSettles
<1>5. PairsOf(aliases)
  BY <1>3, AliasesPaired DEF TextOk
<1> DEFINE links == Updated(store.links, names)
           s == [store EXCEPT !.aliases = aliases, !.links = links]
<1> HIDE DEF aliases
<1>6. store' = s
  BY <1>1, Zenon DEF Updated
<1>7. \A l \in store.links : /\ DOMAIN l = {"from", "title", "to"}
                             /\ l.to = NoDocument \/ <<l.title, l.to>> \in aliases
  <2>1. LinkFields(store.links)
    BY <1>3 DEF TextOk
  <2>2. QED BY <1>4, <2>1, Zenon DEF LinkFields
<1>8. LinksOk(links, aliases)
  BY <1>1, <1>5, <1>7, LinksUpdated DEF LinksOk
<1>9. LinkFields(links)
  BY <1>1, <1>5, <1>7, LinksUpdated DEF LinkFields
<1>10. HasLinks(dump, links)
  <2>1. \A l \in store.links : \E z \in links : z.from = l.from /\ z.title = l.title
    BY <1>1, <1>5, <1>7, LinksUpdated
  <2>2. HasLinks(dump, store.links)
    BY <1>3 DEF TextOk
  <2> HIDE DEF links
  <2>3. QED BY <2>1, <2>2 DEF HasLinks
<1> HIDE DEF links
<1>11. /\ DOMAIN store = {"documents", "chunks", "fts", "aliases", "links"}
       /\ store.documents = dump /\ store.chunks = ChunksOf(dump)
       /\ IsInjective(store.fts) /\ Range(store.fts) = store.chunks
  BY <1>3 DEF TextOk
<1>12. /\ DOMAIN s = {"documents", "chunks", "fts", "aliases", "links"}
       /\ s.documents = store.documents /\ s.chunks = store.chunks /\ s.fts = store.fts
       /\ s.aliases = aliases /\ s.links = links
  BY <1>11
<1> HIDE DEF s, f
<1>13. Settled(dump, s, f)
  <2>1. TextOk(dump, s)
    BY <1>5, <1>9, <1>10, <1>11, <1>12 DEF TextOk
  <2>2. QED BY <1>4, <1>8, <1>12, <2>1 DEF Settled
<1>14. DOMAIN k = {"at", "next", "articles", "redirects", "anchors"} /\ k.at = "returned"
  BY DEF Intake
<1> HIDE DEF k
<1>15. StoreOk(dump, s, s, k, f)
  BY <1>13, <1>14 DEF StoreOk
<1>16. QED BY <1>2, <1>3, <1>6, <1>15 DEF StoreInv

(* Every step.                                                              *)
LEMMA StoreStepInv == StoreInv /\ [StoreNext]_storeVars => StoreInv'
<1> SUFFICES ASSUME StoreInv, [StoreNext]_storeVars PROVE StoreInv'
  OBVIOUS
<1>1. CASE IngestStart
  BY <1>1, IngestStartKeeps
<1>2. CASE SkipPage
  BY <1>2, SkipKeeps
<1>3. CASE IngestPage
  BY <1>3, IngestKeeps
<1>4. CASE IngestEnd
  BY <1>4, EndKeeps
<1>5. CASE IngestDies
  BY <1>5, IngestDiesKeeps
<1>6. CASE UNCHANGED storeVars
  BY <1>6 DEF storeVars, StoreInv
<1>7. QED BY <1>1, <1>2, <1>3, <1>4, <1>5, <1>6 DEF StoreNext

(* However often a run dies, wherever the last commit was, and however      *)
(* often the command is given again, an ingestion that returned holds every *)
(* page, indexes every chunk once, resolves every link that can be          *)
(* resolved, and has folded every redirect whose way the returning run had  *)
(* read.                                                                    *)
THEOREM IngestAlwaysComplete == StoreSpec => []IngestComplete
<1>1. StoreSpec => []StoreInv
  BY StoreInitInv, StoreStepInv, PTL DEF StoreSpec
<1>2. QED BY <1>1, SettledComplete, PTL

=============================================================================
