---------------------------- MODULE CorpusStore ----------------------------
(***************************************************************************)
(* Ingestion of a MediaWiki dump into the SQLite store that traversal      *)
(* reads (traversal/corpus.py).  One run of the command inserts page after *)
(* page, committing now and then, and at the end folds redirects and       *)
(* resolves links from what it collected in memory.  A run may die, and    *)
(* the command may be given again; a page is skipped when its document is  *)
(* already there, and then nothing is collected from it.                   *)
(*                                                                         *)
(* Of a page the model keeps its document id, its casefolded title, the    *)
(* title it redirects to, its chunk ids, the titles it links to and its    *)
(* anchors (a text and the title it stands for).                           *)
(***************************************************************************)
EXTENDS Integers, Sequences, FiniteSets, Functions

CONSTANTS
  Dumps,        \* dumps: sequences of pages (see DumpType)
  NoTitle,      \* no redirect
  NoDocument,   \* an unresolved link, a title nobody has
  CommitEvery,  \* pages between commits: 500
  MaxHops,      \* documents a redirect is followed through: 4
  MaxDeaths     \* model bound

Documents(pages) == {p.doc : p \in Range(pages)}

(* A document id is the page's, a chunk's is the hash of its document, its  *)
(* place and its text, and an anchor is only kept if it differs from the    *)
(* title it stands for (corpus.py:218, :269 and :316).                      *)
ASSUME StoreAssumption ==
  /\ CommitEvery \in Nat \ {0} /\ MaxHops \in Nat \ {0} /\ MaxDeaths \in Nat
  /\ \A d \in Dumps :
       /\ d \in Seq(Range(d)) /\ NoDocument \notin Documents(d)
       /\ \A i, j \in DOMAIN d : d[i].doc = d[j].doc => i = j
       /\ \A p, q \in Range(d) :
            /\ p.chunks \in Seq(Range(p.chunks)) /\ IsInjective(p.chunks)
            /\ p # q => Range(p.chunks) \cap Range(q.chunks) = {}
       /\ \A p \in Range(d) : p.title # NoTitle /\ \A a \in p.anchors : a[1] # a[2]

VARIABLES
  dump,       \* the dump: never changes
  store,      \* what the connection of the running command sees
  committed,  \* what a new connection would see
  intake,     \* the command: where it is, its next page, its counters and lists
  deaths,     \* runs that died
  folded      \* history: the pages a finished run folded

storeVars == <<dump, store, committed, intake, deaths, folded>>

EmptyStore ==
  [documents |-> <<>>, chunks |-> {}, fts |-> <<>>, aliases |-> {}, links |-> {}]

Intake(place) ==
  [at |-> place, next |-> 1, articles |-> 0, redirects |-> {}, anchors |-> {}]

StoreStart ==
  /\ store = EmptyStore /\ committed = EmptyStore
  /\ intake = Intake("idle")
  /\ deaths = 0 /\ folded = {}
StoreInit == dump \in Dumps /\ StoreStart

----------------------------------------------------------------------------
(* What one page adds.  Links keep the target NULL until the end.           *)
AddPage(s, p) ==
  [documents |-> Append(s.documents, p),
   chunks |-> s.chunks \cup Range(p.chunks),
   fts |-> s.fts \o p.chunks,
   aliases |-> s.aliases \cup {<<p.title, p.doc>>},
   links |-> s.links \cup {[from |-> p.doc, title |-> t, to |-> NoDocument] : t \in p.links}]

(* A new connection on the store, for the first time or again.              *)
IngestStart ==
  /\ intake.at \in {"idle", "returned"}
  /\ store' = committed
  /\ intake' = Intake("reading")
  /\ UNCHANGED <<dump, committed, deaths, folded>>

PresentNever(p) == FALSE      \* mutant: every page is inserted again
Present(p) == p.doc \in Documents(store.documents)
NextPage == dump[intake.next]
HasPage == intake.at = "reading" /\ intake.next <= Len(dump)

SkipPage ==
  /\ HasPage /\ Present(NextPage)
  /\ intake' = [intake EXCEPT !.next = @ + 1]
  /\ UNCHANGED <<dump, store, committed, deaths, folded>>

IngestPage ==
  /\ HasPage /\ ~ Present(NextPage)
  /\ store' = AddPage(store, NextPage)
  /\ intake' = [intake EXCEPT !.next = @ + 1, !.articles = @ + 1,
                  !.redirects = IF NextPage.redirect = NoTitle THEN @ ELSE @ \cup {NextPage},
                  !.anchors = @ \cup NextPage.anchors]
  /\ committed' = IF (intake.articles + 1) % CommitEvery = 0 THEN store' ELSE committed
  /\ UNCHANGED <<dump, deaths, folded>>

(* title_to_doc: the last document with the title that is no redirect, or   *)
(* else the first.                                                          *)
TitleDocument(title) ==
  LET rows == {i \in DOMAIN store.documents : store.documents[i].title = title}
      real == {i \in rows : store.documents[i].redirect = NoTitle}
  IN  IF rows = {} THEN NoDocument
      ELSE store.documents[IF real # {} THEN CHOOSE i \in real : \A j \in real : j <= i
                           ELSE CHOOSE i \in rows : \A j \in rows : i <= j].doc

(* The title this run knows a document to redirect to.                      *)
Follow(doc) ==
  LET page == {p \in intake.redirects : p.doc = doc}
  IN  IF page = {} THEN NoTitle ELSE (CHOOSE p \in page : TRUE).redirect

(* resolve: the documents met, one per hop, and the one it stops at.        *)
Hop(title) ==
  LET hop[n \in 1 .. MaxHops] ==
        IF n = 1 THEN TitleDocument(title)
        ELSE IF hop[n - 1] = NoDocument \/ Follow(hop[n - 1]) = NoTitle THEN NoDocument
        ELSE TitleDocument(Follow(hop[n - 1]))
  IN  hop

Resolve(title) ==
  LET hop == Hop(title)
      ends == {n \in DOMAIN hop : /\ hop[n] # NoDocument /\ Follow(hop[n]) = NoTitle
                                  /\ \A m \in 1 .. n - 1 : hop[m] # hop[n]}
  IN  IF ends = {} THEN NoDocument ELSE hop[CHOOSE n \in ends : TRUE]

(* _fold_redirects: the source title of a redirect names the document it    *)
(* leads to instead of its stub.                                            *)
Targeted == {p \in intake.redirects : Resolve(p.redirect) \notin {NoDocument, p.doc}}
FoldedAliases ==
  (store.aliases \ {<<p.title, p.doc>> : p \in Targeted})
    \cup {<<p.title, Resolve(p.redirect)>> : p \in Targeted}

(* resolved_titles, and the anchors that lead somewhere.                    *)
ResolvedTitle(title) ==
  IF Resolve(title) # NoDocument THEN Resolve(title) ELSE TitleDocument(title)
AnchorAliases ==
  {<<a[1], ResolvedTitle(a[2])>> : a \in {b \in intake.anchors : ResolvedTitle(b[2]) # NoDocument}}

(* The UPDATE of links: a title leads to some document whose alias it is.   *)
LinkTitles == {l.title : l \in store.links}
Naming(aliases) ==
  LET named(t) == {a[2] : a \in {b \in aliases : b[1] = t}}
  IN  {names \in [LinkTitles -> Documents(store.documents) \cup {NoDocument}] :
         \A t \in LinkTitles :
           IF named(t) = {} THEN names[t] = NoDocument ELSE names[t] \in named(t)}

IngestEnd ==
  /\ intake.at = "reading" /\ intake.next > Len(dump)
  /\ LET aliases == FoldedAliases \cup AnchorAliases
     IN  \E names \in Naming(aliases) :
           store' = [store EXCEPT !.aliases = aliases,
                       !.links = {IF l.to # NoDocument THEN l
                                  ELSE [l EXCEPT !.to = names[l.title]] : l \in @}]
  /\ committed' = store'
  /\ folded' = folded \cup intake.redirects
  /\ intake' = Intake("returned")
  /\ UNCHANGED <<dump, deaths>>

(* The process dies, or reading the dump raises: SQLite rolls back to the   *)
(* last commit, and what the run had collected is gone.                     *)
IngestDies ==
  /\ intake.at = "reading" /\ deaths < MaxDeaths
  /\ deaths' = deaths + 1
  /\ store' = committed
  /\ intake' = Intake("idle")
  /\ UNCHANGED <<dump, committed, folded>>

StoreNext ==
  IngestStart \/ SkipPage \/ IngestPage \/ IngestEnd \/ IngestDies

StoreSpec == StoreInit /\ [][StoreNext]_storeVars

----------------------------------------------------------------------------
(* The article at the end of a page's redirects, read off the whole dump,   *)
(* and the redirects on the way.                                            *)
Named(title) ==
  LET rows == {i \in DOMAIN dump : dump[i].title = title}
      real == {i \in rows : dump[i].redirect = NoTitle}
  IN  IF real # {} THEN {dump[i] : i \in {i \in real : \A j \in real : j <= i}}
      ELSE {dump[i] : i \in {i \in rows : \A j \in rows : i <= j}}
Way(page) ==
  LET way[n \in 0 .. MaxHops] ==
        IF n = 0 THEN {page} ELSE UNION {Named(p.redirect) : p \in way[n - 1]}
  IN  UNION {way[n] : n \in 0 .. MaxHops}

(* When an ingestion has returned, however many runs died before, every     *)
(* page has its document, every chunk is indexed exactly once, and every    *)
(* link whose title names a document leads to one; and the title of a       *)
(* redirect, if it and all redirects after it were read by the run that     *)
(* returned, no longer names its stub but the article it leads to.  What an *)
(* earlier run had committed before it died is never folded.                *)
IngestComplete ==
  intake.at = "returned" =>
    /\ store.documents = dump
    /\ IsInjective(store.fts) /\ Range(store.fts) = store.chunks
    /\ store.chunks = UNION {Range(p.chunks) : p \in Range(dump)}
    /\ \A p \in Range(dump) : \A t \in p.links :
         \E l \in store.links :
           /\ l.from = p.doc /\ l.title = t
           /\ IF l.to = NoDocument THEN \A a \in store.aliases : a[1] # t
              ELSE <<t, l.to>> \in store.aliases
    /\ \A p \in folded : \A end \in Way(p) :
         end.redirect = NoTitle /\ Way(p) \ {end} \subseteq folded =>
           /\ <<p.title, end.doc>> \in store.aliases
           /\ <<p.title, p.doc>> \notin store.aliases
=============================================================================
