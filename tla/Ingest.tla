------------------------------- MODULE Ingest --------------------------------
(***************************************************************************)
(* The way of a page into the index: crawl_and_index in the crawler's      *)
(* workers and the /crawl handler, the ingest buffer they share with the   *)
(* flush ticker, the requests to the indexer, and the indexer itself.      *)
(*                                                                         *)
(* A flusher is a worker or the ticker: it takes the whole buffer and      *)
(* posts it.  Which URL a worker crawls is the subject of Crawler.         *)
(***************************************************************************)
EXTENDS CrawlPage, Indexer

CONSTANTS
  Workers,
  Ticker,
  Pages,      \* the pages a fetch may return
  Caps,       \* values of AppState.content_cap
  Threshold,  \* 20: INGEST_FLUSH_THRESHOLD
  MaxCrawls   \* bound: pages fetched

ASSUME IngestAssumption == Ticker \notin Workers /\ Threshold \in Nat \ {0} /\ MaxCrawls \in Nat
ASSUME PagesAssumption ==
  \A p \in Pages : /\ {"url", "title", "len", "offers", "dates"} \subseteq DOMAIN p
                   /\ p.url \in Urls /\ DOMAIN p.dates = 1..Len(p.dates)
\* The documents of the old index went the same way.  Ids name documents: theirs are
\* not given again.
ASSUME OldDatesAssumption ==
  \A d \in OldDocs : /\ d.id \notin 0..MaxCrawls
                    /\ {"date", "price"} \subseteq DOMAIN d /\ "dates" \in DOMAIN d.page
                    /\ DOMAIN d.page.dates = 1..Len(d.page.dates)
                    /\ d.date = PublicationDate(d.page.dates)

Flushers == Workers \cup {Ticker}

VARIABLES
  pc,       \* what a flusher does: "idle", "embedding", "flushing", "posting"
  doc,      \* per worker, the document it builds
  buffer,   \* AppState.ingest_buffer
  batch,    \* per flusher, what it took from the buffer
  request,  \* the document of the /crawl handler, or none
  crawls    \* history: pages fetched, the id of the last document

crawlerVars == <<pc, doc, buffer, batch, request, crawls>>
vars == <<crawlerVars, indexerVars, kills>>

NoDoc == [id |-> 0]

Init ==
  /\ IndexerInit
  /\ kills = 0
  /\ pc = [f \in Flushers |-> "idle"]
  /\ doc = [w \in Workers |-> NoDoc]
  /\ buffer = <<>>
  /\ batch = [f \in Flushers |-> <<>>]
  /\ request = NoDoc
  /\ crawls = 0

-------------------------------------------------------------------------------
Document(id, page) ==
  [id |-> id, page |-> page, emb |-> FALSE, price |-> PriceAndCurrency(page.offers),
   quality |-> ContentQuality(page), date |-> PublicationDate(page.dates)]

\* The page is fetched and cut.  One that is not worth the index ends here.
Fetch(w, p, cap) ==
  LET page == Extract(p, 500, cap) IN
  /\ pc[w] = "idle"
  /\ IF IsIndexworthy(page)
     THEN /\ crawls < MaxCrawls
          /\ crawls' = crawls + 1
          /\ doc' = [doc EXCEPT ![w] = Document(crawls + 1, page)]
          /\ pc' = [pc EXCEPT ![w] = "embedding"]
     ELSE UNCHANGED <<crawls, doc, pc>>
  /\ UNCHANGED <<buffer, batch, request, indexerVars, kills>>

\* The embedding service has answered or failed; the document goes into the
\* buffer, whose mutex is released before the flush takes it again.
Push(w, emb) ==
  /\ pc[w] = "embedding"
  /\ buffer' = Append(buffer, [doc[w] EXCEPT !.emb = emb])
  /\ doc' = [doc EXCEPT ![w] = NoDoc]
  /\ pc' = [pc EXCEPT ![w] = IF Len(buffer) + 1 >= Threshold THEN "flushing" ELSE "idle"]
  /\ UNCHANGED <<batch, request, crawls, indexerVars, kills>>

Tick ==
  /\ pc[Ticker] = "idle"
  /\ buffer # <<>>
  /\ pc' = [pc EXCEPT ![Ticker] = "flushing"]
  /\ UNCHANGED <<doc, buffer, batch, request, crawls, indexerVars, kills>>

\* Mutant: the buffer is read and cleared only when the indexer has answered.
TakeKeeping(f) ==
  /\ pc[f] = "flushing"
  /\ batch' = [batch EXCEPT ![f] = buffer]
  /\ pc' = [pc EXCEPT ![f] = IF buffer = <<>> THEN "idle" ELSE "posting"]
  /\ UNCHANGED <<doc, buffer, request, crawls, indexerVars, kills>>

\* Another flusher may have been first.
Take(f) ==
  /\ pc[f] = "flushing"
  /\ batch' = [batch EXCEPT ![f] = buffer]
  /\ buffer' = <<>>
  /\ pc' = [pc EXCEPT ![f] = IF buffer = <<>> THEN "idle" ELSE "posting"]
  /\ UNCHANGED <<doc, request, crawls, indexerVars, kills>>

\* Mutant: the buffer is cleared again when the answer is there.
FlushedClearing(f) ==
  /\ pc' = [pc EXCEPT ![f] = "idle"]
  /\ batch' = [batch EXCEPT ![f] = <<>>]
  /\ buffer' = <<>>
  /\ UNCHANGED <<doc, request, crawls>>

Flushed(f) ==
  /\ pc' = [pc EXCEPT ![f] = "idle"]
  /\ batch' = [batch EXCEPT ![f] = <<>>]
  /\ UNCHANGED <<doc, buffer, request, crawls>>

\* Whether or not the answer reaches the crawler, the batch is done with.
Post(f) ==
  /\ pc[f] = "posting"
  /\ Ingest(batch[f])
  /\ Flushed(f)

\* The request fails before the indexer has it, or is answered with an error status,
\* which the crawler does not look at; the batch is dropped.
PostFails(f) ==
  /\ pc[f] = "posting"
  /\ Flushed(f)
  /\ UNCHANGED <<indexerVars, kills>>

-------------------------------------------------------------------------------
\* What remains of a page that could not be fetched.
Blank(p) == [p EXCEPT !.title = 0, !.len = 0, !.offers = <<>>, !.dates = <<>>]

\* What the handler of /crawl keeps of one: neither price nor date.
Brief(p) == [Extract(p, 200, 5000) EXCEPT !.offers = <<>>, !.dates = <<>>]

\* /crawl: at once, without the gate; a fetch that fails leaves an empty text,
\* which is posted like any other.
Request(p, fetched, emb) ==
  /\ request = NoDoc
  /\ crawls < MaxCrawls
  /\ crawls' = crawls + 1
  /\ request' = [Document(crawls + 1, IF fetched THEN Brief(p) ELSE Blank(p)) EXCEPT !.emb = emb]
  /\ UNCHANGED <<pc, doc, buffer, batch, indexerVars, kills>>

RequestPosted ==
  /\ request # NoDoc
  /\ request' = NoDoc
  /\ Ingest(<<request>>) \/ UNCHANGED <<indexerVars, kills>>
  /\ UNCHANGED <<pc, doc, buffer, batch, crawls>>

\* The crawler is killed: nothing of this is on disk.
KillCrawler ==
  /\ kills < MaxKills
  /\ kills' = kills + 1
  /\ pc' = [f \in Flushers |-> "idle"]
  /\ doc' = [w \in Workers |-> NoDoc]
  /\ buffer' = <<>>
  /\ batch' = [f \in Flushers |-> <<>>]
  /\ request' = NoDoc
  /\ UNCHANGED <<crawls, indexerVars>>

Flush(f) == Take(f) \/ Post(f) \/ PostFails(f)

Next ==
  \/ \E w \in Workers :
       \/ \E p \in Pages, cap \in Caps : Fetch(w, p, cap)
       \/ \E emb \in BOOLEAN : Push(w, emb)
  \/ Tick
  \/ \E f \in Flushers : Flush(f)
  \/ \E p \in Pages, fetched, emb \in BOOLEAN : Request(p, fetched, emb)
  \/ RequestPosted
  \/ KillCrawler
  \/ IndexerNext /\ UNCHANGED crawlerVars

Spec == Init /\ [][Next]_vars

\* The ticker and a flush that has begun go on; so does the indexer.
FairSpec ==
  /\ Spec
  /\ WF_vars(Tick)
  /\ \A f \in Flushers : WF_vars(Flush(f))
  /\ IndexerFairness

-------------------------------------------------------------------------------
(* Properties.                                                             *)

\* What a document may keep of a page, and the documents of the index: those that
\* were made, those of the first start, and these without their dropped columns.
PagesKept ==
  {Extract(p, 500, cap) : p \in Pages, cap \in Caps} \cup {Brief(p) : p \in Pages} \cup {Blank(p) : p \in Pages}
Documents ==
  {[Document(id, page) EXCEPT !.emb = emb] :
     id \in 1..MaxCrawls, page \in PagesKept, emb \in BOOLEAN}
Indexed == Documents \cup OldDocs \cup {TextOnly(d) : d \in OldDocs}

TypeOK ==
  /\ pc \in [Flushers -> {"idle", "embedding", "flushing", "posting"}]
  /\ doc \in [Workers -> Documents \cup {NoDoc}]
  /\ buffer \in Seq(Documents) /\ batch \in [Flushers -> Seq(Documents)]
  /\ request \in Documents \cup {NoDoc}
  /\ crawls \in 0..MaxCrawls /\ kills \in 0..MaxKills
  /\ phase \in {"down", "migrating", "up"} /\ schema \in {"current", "embedding", "other"}
  /\ live \cup committed \cup visible \cup rows \subseteq Indexed
  /\ store \in [Urls -> {NoPage} \cup {d.page : d \in Documents}]
  /\ pending \in Nat /\ committer \in Nat
  /\ \A f \in Flushers : batch[f] # <<>> <=> pc[f] = "posting"
  /\ \A w \in Workers : doc[w] # NoDoc <=> pc[w] = "embedding"

\* What the crawler has in hand, what the indexer has taken, and what a step sends
\* from the one to the other.
Held == (ToSet(buffer) \cup (UNION {ToSet(batch[f]) : f \in Flushers})
           \cup {doc[w] : w \in Workers} \cup {request}) \ {NoDoc}
Taken == live \cup rows
Sent ==
  (UNION {ToSet(batch[f]) : f \in {f \in Flushers : pc[f] = "posting" /\ pc'[f] = "idle"}})
    \cup (IF request' = NoDoc THEN {request} \ {NoDoc} ELSE {})

\* The ways a step may lose a document: one of its URL is sent and takes its place; it
\* is in a request of which the indexer takes nothing; a process is killed before it is
\* committed; an index that cannot be opened or migrated is created anew.
Accounted(d) ==
  \/ d.id \in Ids(Held' \cup Taken')
  \/ d \in live \cup Sent /\ \E e \in Sent \cap live' : e.page.url = d.page.url
  \/ d \in Sent /\ pending' = pending
  \/ kills' # kills /\ d \notin live \cap committed
  \/ d \in Taken /\ phase # "up" /\ committed' = {}

\* However many workers and flushers compete for the buffer while answers are
\* outstanding, no step loses a document in another way.
NoSilentLoss == [][\A d \in Held \cup Taken : Accounted(d)]_vars

\* No document is posted twice: what one flusher took no other has.
TakenOnce ==
  /\ \A f, g \in Flushers : f # g => Ids(ToSet(batch[f])) \cap Ids(ToSet(batch[g])) = {}
  /\ \A f \in Flushers : Ids(ToSet(batch[f])) \cap Ids(ToSet(buffer)) = {}

\* The index has one document of a URL, in the writer as in every commit a start
\* or a search may see.
OnePerUrl ==
  \A docs \in {live, committed, visible, rows} : \A d, e \in docs : d.page.url = e.page.url => d = e

\* Until a process is killed, the embedding kept for a URL is that of the document
\* the writer has for it, and there is none if that came without.
EmbeddingFollows ==
  kills = 0 => \A d \in live \ OldDocs : store[d.page.url] = IF d.emb THEN d.page ELSE NoPage

\* What the writer has and the last commit has not is counted, or about to be
\* committed: the committer cannot fall asleep over it.
NothingStranded == phase = "up" /\ live # committed => pending > 0 \/ committer > 0

\* A document in the writer becomes searchable, unless a newer one of its URL
\* replaces it or a kill takes it away; commits that fail only delay it.
BecomesSearchable ==
  \A id \in 1..MaxCrawls :
    id \in Ids(live) ~> id \in Ids(visible) \/ id \notin Ids(live)

\* A query with a vector never answers fewer documents than without it, and what the
\* words have found is not answered only when it was outranked: by as many documents
\* of its domain as an answer may have, or by as many as it may have at all.
WordsOnlyOutranked ==
  \A fresh \in BOOLEAN :
    LET plain == [parses |-> TRUE, vector |-> FALSE, fresh |-> fresh]
        query == [plain EXCEPT !.vector = TRUE]
        answer == Search(query, visible, store)
        docs == {answer[i].doc : i \in DOMAIN answer}
        score == [d \in FusedDocs(query, visible, store) |-> Score(query, visible, store, d)]
        before(d) == {e \in docs : score[e] >= score[d]}
    IN /\ Len(answer) >= Len(Search(plain, visible, store))
       /\ \A d \in ToSet(BM25Ranked(TRUE, visible)) \ docs :
            \/ Cardinality({e \in before(d) : e.page.domain = d.page.domain}) = PerDomain
            \/ Cardinality(before(d)) = MaxResults

\* Of two documents the one published earlier has not the later date, although the
\* dates are counted with months of 30 days and years of 365.
Earlier(a, b) ==
  \/ a.year < b.year
  \/ a.year = b.year /\ a.month < b.month
  \/ a.year = b.year /\ a.month = b.month /\ a.day < b.day
DatesKeepOrder ==
  \A d, e \in live :
    LET dated(x) == Valid(x.page.dates) # {}
        first(x) == x.page.dates[Min(Valid(x.page.dates))]
    IN dated(d) /\ dated(e) /\ Earlier(first(d), first(e)) => d.date <= e.date

===============================================================================
