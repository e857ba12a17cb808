----------------------------- MODULE IndexSearch -----------------------------
(***************************************************************************)
(* The answer of the indexer's /search: the best documents by BM25, the    *)
(* floor below which a score is no match, the gate in front of the         *)
(* similarities, the reciprocal rank fusion of both and the final order.   *)
(*                                                                         *)
(* Data: a document is [id, page, ...]; its page carries what the one text *)
(* under study makes of it: page.lex its BM25 score, page.sim the          *)
(* similarity of its embedding, page.inTitle, page.overlap the share of    *)
(* the query's distinctive terms it has, page.authority and page.age in    *)
(* days; all but the age in hundredths.  store gives for each URL the page *)
(* whose embedding is kept.  A query is [parses, vector, fresh].           *)
(***************************************************************************)
EXTENDS Integers, Sequences, FiniteSets, SequencesExt, FiniteSetsExt

CONSTANTS
  NoPage,
  TopLimit,      \* 50: documents taken by BM25
  MinEmbedded,   \* 5: MIN_EMBEDDED_FOR_SEMANTIC
  PerDomain,     \* 3: MAX_PER_DOMAIN
  MaxResults     \* 10: results of an answer

LOCAL Least(a, b) == IF a < b THEN a ELSE b
LOCAL First(s, n) == SubSeq(s, 1, Least(n, Len(s)))

\* A text that does not parse asks for all documents; each of them scores 1.
Bm25(parses, d) == IF parses THEN d.page.lex ELSE 100

TopDocs(parses, docs) ==
  First(SetToSortSeq({d \in docs : Bm25(parses, d) > 0},
                     LAMBDA a, b : \/ Bm25(parses, a) > Bm25(parses, b)
                                   \/ Bm25(parses, a) = Bm25(parses, b) /\ a.id < b.id),
        TopLimit)

\* Below 0.5 the best document is no match at all, and the floor admits nothing.
Bm25Floor(parses, top) ==
  LET best == Max({Bm25(parses, d) : d \in top}) IN
  IF best < 50 THEN best + 1 ELSE Max({(best * 5) \div 100, 50})

BM25Ranked(parses, docs) ==
  LET top == TopDocs(parses, docs) IN
  SelectSeq(top, LAMBDA d : Bm25(parses, d) >= Bm25Floor(parses, ToSet(top)))

Embedded(store, docs) == {d \in docs : store[d.page.url] # NoPage}
Similarity(store, d) == store[d.page.url].sim

\* Similarities count when the best of them is strong and the embeddings are many.
SemanticRanked(q, docs, store) ==
  LET emb == Embedded(store, ToSet(TopDocs(q.parses, docs))) IN
  IF \/ ~q.vector
     \/ Cardinality(emb) < MinEmbedded
     \/ \A d \in emb : Similarity(store, d) < 80
  THEN <<>>
  ELSE SetToSortSeq({d \in emb : Similarity(store, d) >= 75},
                    LAMBDA a, b : \/ Similarity(store, a) > Similarity(store, b)
                                  \/ Similarity(store, a) = Similarity(store, b) /\ a.id < b.id)

-------------------------------------------------------------------------------
\* Mutant: with similarities at hand, a document without one is left out.
FusedDocsSemanticOnly(q, docs, store) ==
  LET sem == ToSet(SemanticRanked(q, docs, store)) IN
  IF sem # {} THEN sem ELSE ToSet(BM25Ranked(q.parses, docs))

FusedDocs(q, docs, store) ==
  ToSet(BM25Ranked(q.parses, docs)) \cup ToSet(SemanticRanked(q, docs, store))

\* 1 / (60 + rank), in hundred thousandths.
Reciprocal(ranking, d) ==
  SumSet({100000 \div (60 + i) : i \in {j \in DOMAIN ranking : ranking[j] = d}})

\* Boosted by freshness, authority and a hit in the title.
Score(q, docs, store, d) ==
  LET rrf   == Reciprocal(BM25Ranked(q.parses, docs), d) + Reciprocal(SemanticRanked(q, docs, store), d)
      fresh == IF q.fresh THEN 100 + (50 * 7) \div (7 + d.page.age) ELSE 100
      auth  == 1000 + 3 * d.page.authority
  IN ((((rrf * fresh) \div 100) * auth) \div 1000) * (IF d.page.inTitle THEN 2 ELSE 1)

\* The signal for the gateway: full from half of the best score on, damped by the
\* share of the distinctive terms the page has.
Quality(q, docs, d) ==
  LET best     == Max({Bm25(q.parses, e) : e \in ToSet(TopDocs(q.parses, docs))})
      strength == 50 + (50 * Bm25(q.parses, d)) \div best
  IN (strength * (30 + (70 * d.page.overlap) \div 100)) \div 100

Diverse(sorted) ==
  FoldLeft(LAMBDA kept, d :
             IF Cardinality({i \in DOMAIN kept : kept[i].page.domain = d.page.domain}) < PerDomain
             THEN Append(kept, d) ELSE kept,
           <<>>, sorted)

\* Equal scores keep the order of a hash map, here that of the ids.
Search(q, docs, store) ==
  LET score  == [d \in FusedDocs(q, docs, store) |-> Score(q, docs, store, d)]
      before(a, b) == score[a] > score[b] \/ (score[a] = score[b] /\ a.id < b.id)
      sorted == SetToSortSeq(DOMAIN score, before)
      best   == First(Diverse(sorted), MaxResults)
  IN [i \in DOMAIN best |-> [doc |-> best[i], quality |-> Quality(q, docs, best[i])]]
===============================================================================
