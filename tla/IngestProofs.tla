----------------------------- MODULE IngestProofs ------------------------------
(***************************************************************************)
(* Proofs about the way of a page into the index, for any workers, pages,  *)
(* caps, threshold and number of kills: what happens to a document, what   *)
(* the index holds of a URL, and what the committer is owed.               *)
(***************************************************************************)
EXTENDS Ingest, SequenceTheorems, WellFoundedInduction, TLAPS

-------------------------------------------------------------------------------
(* Sequences.                                                              *)

\* What appending does to the elements of a sequence.
LEMMA AppendedElements ==
  ASSUME NEW S, NEW s \in Seq(S), NEW x \in S
  PROVE  Append(s, x) \in Seq(S) /\ ToSet(Append(s, x)) = ToSet(s) \cup {x}
<1>1. /\ Append(s, x) \in Seq(S) /\ Len(Append(s, x)) = Len(s) + 1
      /\ \A i \in 1..Len(s) : Append(s, x)[i] = s[i]
      /\ Append(s, x)[Len(s) + 1] = x
  OBVIOUS
<1>2. /\ Len(s) \in Nat /\ DOMAIN s = 1..Len(s) /\ DOMAIN Append(s, x) = 1..(Len(s) + 1)
  BY <1>1
<1>3. ToSet(Append(s, x)) \subseteq ToSet(s) \cup {x}
  <2> SUFFICES ASSUME NEW i \in 1..(Len(s) + 1)
               PROVE  Append(s, x)[i] \in ToSet(s) \cup {x}
    BY <1>2 DEF ToSet
  <2>1. i \in 1..Len(s) \/ i = Len(s) + 1
    BY <1>2
  <2> QED
    BY <1>1, <1>2, <2>1 DEF ToSet
<1>4. ToSet(s) \cup {x} \subseteq ToSet(Append(s, x))
  <2>1. \A i \in 1..Len(s) : i \in 1..(Len(s) + 1)
    BY <1>2
  <2>2. Len(s) + 1 \in 1..(Len(s) + 1)
    BY <1>2
  <2> QED
    BY <1>1, <1>2, <2>1, <2>2 DEF ToSet
<1> QED
  BY <1>1, <1>3, <1>4

\* The elements of a sequence are of its set; the empty one has none.
LEMMA Elements ==
  /\ \A S : \A s \in Seq(S) : ToSet(s) \subseteq S /\ (s # <<>> => Len(s) \in Nat \ {0})
  /\ ToSet(<<>>) = {}
  /\ \A x : ToSet(<<x>>) = {x}
BY EmptySeq DEF ToSet

\* The order of the naturals, as a set of pairs: in this form the provers can use
\* that it is well-founded.
LessPairs == {ss \in Nat \X Nat : ss[1] < ss[2]}

\* There is no endless descent below a natural number.
LEMMA LessPairsWellFounded == IsWellFoundedOn(LessPairs, Nat)
BY Zenon, NatLessThanWellFounded DEF OpToRel, LessPairs

\* A set of naturals that has a member has a least one.
LEMMA LeastMember ==
  ASSUME NEW S \in SUBSET Nat, S # {}
  PROVE  Min(S) \in S /\ \A y \in S : Min(S) <= y
<1>1. PICK x \in S : \A y \in S : ~ (<<y, x>> \in LessPairs)
  BY LessPairsWellFounded, WFMin
<1>2. \A y \in S : x <= y
  <2> SUFFICES ASSUME NEW y \in S, ~ (x <= y)
               PROVE  <<y, x>> \in LessPairs
    BY <1>1
  <2>1. <<y, x>> \in Nat \X Nat /\ <<y, x>>[1] < <<y, x>>[2]
    OBVIOUS
  <2> QED
    BY <2>1 DEF LessPairs
<1> QED
  BY <1>2 DEF Min

-------------------------------------------------------------------------------
(* The documents.                                                          *)

\* Cutting a page, and dropping its offers and dates, leaves it its URL.
LEMMA PageFacts ==
  ASSUME NEW page \in PagesKept
  PROVE  /\ page.url \in Urls
         /\ DOMAIN page.dates = 1..Len(page.dates)
<1>1. ASSUME NEW p \in Pages, NEW n, NEW cap
      PROVE  Extract(p, n, cap).url \in Urls /\ DOMAIN Extract(p, n, cap).dates = 1..Len(Extract(p, n, cap).dates)
  BY PagesAssumption DEF Extract
<1>2. ASSUME NEW p \in Pages
      PROVE  /\ Blank(p).url \in Urls /\ Blank(p).dates = <<>>
             /\ Brief(p).url \in Urls /\ Brief(p).dates = <<>>
  BY PagesAssumption DEF Blank, Brief, Extract
<1>3. DOMAIN <<>> = 1..Len(<<>>)
  OBVIOUS
<1>4. \/ \E p \in Pages, cap \in Caps : page = Extract(p, 500, cap)
      \/ \E p \in Pages : page \in {Brief(p), Blank(p)}
  BY DEF PagesKept
<1>5. (\E p \in Pages, cap \in Caps : page = Extract(p, 500, cap))
        \/ (page.url \in Urls /\ page.dates = <<>>)
  BY <1>4, <1>2
<1> QED
  BY <1>5, <1>1, <1>3

\* What a document that was made is, with and without its embedding.
LEMMA DocumentFacts ==
  ASSUME NEW d \in Documents
  PROVE  /\ d.id \in 1..MaxCrawls /\ d.page.url \in Urls /\ d # NoDoc
         /\ DOMAIN d.page.dates = 1..Len(d.page.dates)
         /\ d.date = PublicationDate(d.page.dates)
         /\ \A e \in BOOLEAN : /\ [d EXCEPT !.emb = e] \in Documents
                               /\ [d EXCEPT !.emb = e].id = d.id
<1>1. PICK id \in 1..MaxCrawls, page \in PagesKept, emb \in BOOLEAN :
         d = [Document(id, page) EXCEPT !.emb = emb]
  BY DEF Documents
<1>2. /\ d.id = id /\ d.page = page /\ d.date = PublicationDate(page.dates)
      /\ \A e \in BOOLEAN : [d EXCEPT !.emb = e] = [Document(id, page) EXCEPT !.emb = e]
  BY <1>1 DEF Document
<1>3. d # NoDoc
  BY <1>2, IngestAssumption DEF NoDoc
<1>4. \A e \in BOOLEAN : [d EXCEPT !.emb = e] \in Documents
  BY <1>2 DEF Documents
<1>5. \A e \in BOOLEAN : [d EXCEPT !.emb = e].id = d.id
  BY <1>1 DEF Document
<1> QED
  BY <1>2, <1>3, <1>4, <1>5, PageFacts

\* A document as it is made is one of them.
LEMMA DocumentMade ==
  ASSUME NEW id \in 1..MaxCrawls, NEW page \in PagesKept
  PROVE  Document(id, page) \in Documents
<1>1. ASSUME NEW d, d = Document(id, page)
      PROVE  d = [d EXCEPT !.emb = FALSE]
  <2>1. d = [x \in DOMAIN d |-> d[x]] /\ d.emb = FALSE
    BY <1>1 DEF Document
  <2> QED
    BY <2>1
<1>2. Document(id, page) = [Document(id, page) EXCEPT !.emb = FALSE]
  BY <1>1
<1>3. \E i \in 1..MaxCrawls, p \in PagesKept, e \in BOOLEAN :
        Document(id, page) = [Document(i, p) EXCEPT !.emb = e]
  BY <1>2
<1> QED
  BY <1>3 DEF Documents

\* What a migration leaves of an old document.
LEMMA TextOnlyFacts ==
  ASSUME NEW d \in OldDocs
  PROVE  /\ TextOnly(d).id = d.id /\ TextOnly(d).page = d.page /\ ~TextOnly(d).emb
         /\ TextOnly(d).date = d.date
BY OldDocsAssumption, OldDatesAssumption DEF TextOnly

\* What holds of every document of the index.
LEMMA IndexedFacts ==
  ASSUME NEW d \in Indexed
  PROVE  /\ d.page.url \in Urls
         /\ DOMAIN d.page.dates = 1..Len(d.page.dates)
         /\ d.date = PublicationDate(d.page.dates)
BY DocumentFacts, TextOnlyFacts, OldDocsAssumption, OldDatesAssumption DEF Indexed
-------------------------------------------------------------------------------
(* The inductive invariant.                                                *)

\* What the phases mean: an indexer that is down has in the writer what is on the
\* disk; a migration has everything in memory, none of it with an embedding; and a
\* directory of the old schema has only old documents.
Opened ==
  /\ phase = "down" => live = committed /\ rows = {}
  /\ phase = "migrating" => live = {} /\ committed = {} /\ store = NoStore
  /\ phase = "up" => rows = {}
  /\ phase # "down" => schema = "current"
  /\ schema = "embedding" => committed \subseteq OldDocs
  /\ \A d \in rows : ~d.emb

\* Ids are given once: a document a worker builds is in no buffer and no batch, and
\* no other worker builds it.
Numbered ==
  /\ \A d \in ToSet(buffer) : d.id <= crawls
  /\ \A f \in Flushers : \A d \in ToSet(batch[f]) : d.id <= crawls
  /\ \A w \in Workers : doc[w].id <= crawls
  /\ \A w \in Workers : doc[w] # NoDoc =>
       /\ doc[w].id \notin Ids(ToSet(buffer))
       /\ \A f \in Flushers : doc[w].id \notin Ids(ToSet(batch[f]))
       /\ \A v \in Workers : v # w => doc[v].id # doc[w].id

IndexInv == Opened /\ OnePerUrl /\ EmbeddingFollows /\ NothingStranded
IInv == TypeOK /\ IndexInv /\ Numbered /\ TakenOnce

-------------------------------------------------------------------------------
(* The initial states.                                                     *)

LEMMA InitIInv == Init => IInv
<1> SUFFICES ASSUME Init
             PROVE  IInv
  OBVIOUS
<1> USE DEF Init, IndexerInit
<1>1. TypeOK
  <2>1. <<>> \in Seq(Documents)
    OBVIOUS
  <2>2. batch \in [Flushers -> Seq(Documents)] /\ \A f \in Flushers : batch[f] = <<>>
    BY <2>1
  <2>3. doc \in [Workers -> Documents \cup {NoDoc}] /\ \A w \in Workers : doc[w] = NoDoc
    OBVIOUS
  <2>4. store \in [Urls -> {NoPage} \cup {d.page : d \in Documents}]
    BY DEF NoStore
  <2>5. live \cup committed \cup visible \cup rows \subseteq Indexed
    BY DEF Indexed
  <2>6. \A f \in Flushers : pc[f] = "idle"
    OBVIOUS
  <2>7. \A w \in Workers : pc[w] = "idle"
    BY DEF Flushers
  <2> QED
    BY <2>1, <2>2, <2>3, <2>4, <2>5, <2>6, <2>7, IngestAssumption, KillsAssumption DEF TypeOK
<1>2. IndexInv
  BY OldDocsAssumption DEF IndexInv, Opened, OnePerUrl, EmbeddingFollows, NothingStranded
<1>3. Ids(ToSet(<<>>)) = {}
  BY Elements DEF Ids
<1>4. Numbered /\ TakenOnce
  BY <1>3, Elements DEF Numbered, TakenOnce, NoDoc
<1> QED
  BY <1>1, <1>2, <1>4 DEF IInv

-------------------------------------------------------------------------------
(* The indexer: every step of the system is one of it, a batch that it     *)
(* takes, or nothing to it.                                                *)

LEMMA IndexerView ==
  ASSUME TypeOK, [Next]_vars
  PROVE  \/ \E b \in Seq(Documents) : b # <<>> /\ Ingest(b)
         \/ IndexerNext
         \/ /\ UNCHANGED indexerVars
            /\ kills' \in 0..MaxKills /\ kills <= kills'
<1> DEFINE Quiet == /\ UNCHANGED indexerVars
                    /\ kills' \in 0..MaxKills /\ kills <= kills'
<1>0. kills \in 0..MaxKills /\ MaxKills \in Nat
  BY KillsAssumption DEF TypeOK
<1>1. ASSUME UNCHANGED <<indexerVars, kills>>
      PROVE  Quiet
  BY <1>0, <1>1
<1>2. ASSUME NEW w \in Workers, NEW p \in Pages, NEW cap \in Caps, Fetch(w, p, cap)
      PROVE  Quiet
  BY <1>1, <1>2 DEF Fetch
<1>3. ASSUME NEW w \in Workers, NEW emb \in BOOLEAN, Push(w, emb)
      PROVE  Quiet
  BY <1>1, <1>3 DEF Push
<1>4. CASE Tick
  BY <1>1, <1>4 DEF Tick
<1>5. ASSUME NEW f \in Flushers, Flush(f)
      PROVE  Quiet \/ \E b \in Seq(Documents) : b # <<>> /\ Ingest(b)
  <2>1. CASE Take(f)
    BY <1>1, <2>1 DEF Take
  <2>2. CASE Post(f)
    <3>1. batch[f] \in Seq(Documents) /\ batch[f] # <<>>
      BY <2>2 DEF TypeOK, Post
    <3> QED
      BY <2>2, <3>1 DEF Post
  <2>3. CASE PostFails(f)
    BY <1>0, <2>3 DEF PostFails
  <2> QED
    BY <1>5, <2>1, <2>2, <2>3 DEF Flush
<1>6. ASSUME NEW p \in Pages, NEW fetched \in BOOLEAN, NEW emb \in BOOLEAN, Request(p, fetched, emb)
      PROVE  Quiet
  BY <1>1, <1>6 DEF Request
<1>7. ASSUME RequestPosted
      PROVE  Quiet \/ \E b \in Seq(Documents) : b # <<>> /\ Ingest(b)
  <2>1. CASE Ingest(<<request>>)
    <3>1. request \in Documents
      BY <1>7 DEF RequestPosted, TypeOK
    <3>2. <<request>> \in Seq(Documents) /\ <<request>> # <<>>
      BY <3>1
    <3> QED
      BY <2>1, <3>2
  <2>2. CASE ~Ingest(<<request>>)
    BY <1>0, <1>7, <2>2 DEF RequestPosted
  <2> QED
    BY <2>1, <2>2
<1>8. CASE KillCrawler
  BY <1>0, <1>8 DEF KillCrawler
<1>9. CASE UNCHANGED vars
  BY <1>1, <1>9 DEF vars
<1> QED
  BY <1>2, <1>3, <1>4, <1>5, <1>6, <1>7, <1>8, <1>9 DEF Next
-------------------------------------------------------------------------------
(* A batch in the index.                                                   *)

\* Of a batch the last documents of its URLs are taken, one of each URL.
LEMMA BatchFacts ==
  ASSUME NEW b \in Seq(Documents)
  PROVE  /\ Latest(b) \subseteq ToSet(b) /\ ToSet(b) \subseteq Documents
         /\ \A d, e \in Latest(b) : d.page.url = e.page.url => d = e
<1>1. DOMAIN b \subseteq Nat /\ \A i \in DOMAIN b : b[i] \in Documents
  BY LenProperties
<1>2. Latest(b) \subseteq ToSet(b) /\ ToSet(b) \subseteq Documents
  BY <1>1 DEF Latest, ToSet
<1>3. ASSUME NEW i \in DOMAIN b, NEW j \in DOMAIN b, b[i].page.url = b[j].page.url,
             \A k \in DOMAIN b : k > i => b[k].page.url # b[i].page.url,
             \A k \in DOMAIN b : k > j => b[k].page.url # b[j].page.url
      PROVE  i = j
  BY <1>1, <1>3
<1>4. \A d, e \in Latest(b) : d.page.url = e.page.url => d = e
  BY <1>3 DEF Latest
<1> QED
  BY <1>2, <1>4

\* Every URL of a batch has its last document.
LEMMA LatestOfUrl ==
  ASSUME NEW b \in Seq(Documents), NEW d \in ToSet(b)
  PROVE  \E e \in Latest(b) : e.page.url = d.page.url
<1>1. DOMAIN b = 1..Len(b) /\ Len(b) \in Nat
  BY LenProperties
<1> DEFINE after == {n \in Nat : \E i \in DOMAIN b : b[i].page.url = d.page.url /\ n = Len(b) - i}
<1>2. after \subseteq Nat /\ after # {}
  <2>1. PICK i \in DOMAIN b : d = b[i]
    BY DEF ToSet
  <2>2. Len(b) - i \in after
    BY <1>1, <2>1
  <2> QED
    BY <2>2
<1>3. Min(after) \in after /\ \A n \in after : Min(after) <= n
  BY <1>2, LeastMember
<1>4. PICK i \in DOMAIN b : b[i].page.url = d.page.url /\ Min(after) = Len(b) - i
  BY <1>3
<1>5. ASSUME NEW j \in DOMAIN b, j > i, b[j].page.url = d.page.url
      PROVE  FALSE
  <2>1. Len(b) - j \in after
    BY <1>1, <1>5
  <2> QED
    BY <1>1, <1>3, <1>4, <1>5, <2>1
<1> QED
  BY <1>4, <1>5 DEF Latest

\* The index after a batch: every URL it had or the batch has is in it, one
\* document each, and what is of neither is not.
LEMMA UpsertedFacts ==
  ASSUME NEW docs \in SUBSET Indexed, NEW b \in Seq(Documents),
         \A d, e \in docs : d.page.url = e.page.url => d = e
  PROVE  /\ Upserted(docs, b) \subseteq docs \cup Latest(b)
         /\ Upserted(docs, b) \in SUBSET Indexed
         /\ \A d, e \in Upserted(docs, b) : d.page.url = e.page.url => d = e
         /\ \A d \in docs \cup ToSet(b) : \E e \in Upserted(docs, b) : e.page.url = d.page.url
<1>1. /\ Latest(b) \subseteq ToSet(b) /\ ToSet(b) \subseteq Documents
      /\ \A d, e \in Latest(b) : d.page.url = e.page.url => d = e
  BY BatchFacts
<1>2. /\ Upserted(docs, b) \subseteq docs \cup Latest(b)
      /\ Upserted(docs, b) \in SUBSET Indexed
      /\ \A d, e \in Upserted(docs, b) : d.page.url = e.page.url => d = e
  BY <1>1 DEF Upserted, Indexed
<1>3. \A d \in docs \cup ToSet(b) : \E e \in Upserted(docs, b) : e.page.url = d.page.url
  BY LatestOfUrl DEF Upserted
<1> QED
  BY <1>2, <1>3

\* The embeddings after a batch: those of its last documents, the others as before.
LEMMA EmbeddedFacts ==
  ASSUME TypeOK, NEW b \in Seq(Documents)
  PROVE  /\ EmbeddedAfter(b) \in [Urls -> {NoPage} \cup {d.page : d \in Documents}]
         /\ \A d \in Latest(b) : EmbeddedAfter(b)[d.page.url] = IF d.emb THEN d.page ELSE NoPage
         /\ \A u \in Urls : (\A d \in ToSet(b) : d.page.url # u) => EmbeddedAfter(b)[u] = store[u]
<1> DEFINE of(u) == CHOOSE d \in Latest(b) : d.page.url = u
<1>1. /\ Latest(b) \subseteq ToSet(b) /\ ToSet(b) \subseteq Documents
      /\ \A d, e \in Latest(b) : d.page.url = e.page.url => d = e
  BY BatchFacts
<1>2. \A d \in Latest(b) : of(d.page.url) = d /\ d.page.url \in Urls
  BY <1>1, DocumentFacts
<1>3. \A u \in Urls : (\E d \in Latest(b) : d.page.url = u) => of(u) \in Documents
  BY <1>1
<1>4. EmbeddedAfter(b) =
        [u \in Urls |-> IF \E d \in Latest(b) : d.page.url = u
                        THEN IF of(u).emb THEN of(u).page ELSE NoPage
                        ELSE store[u]]
  BY DEF EmbeddedAfter
<1> HIDE DEF of
<1>5. EmbeddedAfter(b) \in [Urls -> {NoPage} \cup {d.page : d \in Documents}]
  BY <1>3, <1>4 DEF TypeOK
<1>6. \A d \in Latest(b) : EmbeddedAfter(b)[d.page.url] = IF d.emb THEN d.page ELSE NoPage
  BY <1>2, <1>4
<1>7. \A u \in Urls : (\A d \in ToSet(b) : d.page.url # u) => EmbeddedAfter(b)[u] = store[u]
  BY <1>1, <1>4
<1> QED
  BY <1>5, <1>6, <1>7
-------------------------------------------------------------------------------
(* The indexer's part of the invariant.                                    *)

IndexTypeOK ==
  /\ kills \in 0..MaxKills
  /\ phase \in {"down", "migrating", "up"} /\ schema \in {"current", "embedding", "other"}
  /\ live \cup committed \cup visible \cup rows \subseteq Indexed
  /\ store \in [Urls -> {NoPage} \cup {d.page : d \in Documents}]
  /\ pending \in Nat /\ committer \in Nat

\* A batch is taken.
LEMMA IngestStep ==
  ASSUME TypeOK, IndexInv, NEW b \in Seq(Documents), b # <<>>, Ingest(b)
  PROVE  IndexTypeOK' /\ IndexInv'
<1> USE DEF Ingest
<1>1. /\ live' \subseteq live \cup Latest(b) /\ live' \in SUBSET Indexed
      /\ \A d, e \in live' : d.page.url = e.page.url => d = e
  <2>1. live \in SUBSET Indexed /\ \A d, e \in live : d.page.url = e.page.url => d = e
    BY DEF TypeOK, IndexInv, OnePerUrl
  <2>2. /\ Upserted(live, b) \subseteq live \cup Latest(b)
        /\ Upserted(live, b) \in SUBSET Indexed
        /\ \A d, e \in Upserted(live, b) : d.page.url = e.page.url => d = e
    BY <2>1, UpsertedFacts
  <2> QED
    BY <2>2
<1>2. Len(b) \in Nat \ {0}
  BY Elements
<1>3. IndexTypeOK'
  BY <1>1, <1>2, EmbeddedFacts DEF TypeOK, IndexTypeOK
<1>4. Opened'
  BY DEF IndexInv, Opened
<1>6. OnePerUrl'
  BY <1>1 DEF IndexInv, OnePerUrl
<1>7. EmbeddingFollows'
  <2> SUFFICES ASSUME kills = 0, NEW d \in live' \ OldDocs
               PROVE  store'[d.page.url] = IF d.emb THEN d.page ELSE NoPage
    BY DEF EmbeddingFollows
  <2>1. CASE d \in Latest(b)
    BY <2>1, EmbeddedFacts
  <2>2. CASE d \notin Latest(b)
    <3>1. d \in live /\ \A e \in ToSet(b) : e.page.url # d.page.url
      BY <2>2 DEF Upserted
    <3>2. d.page.url \in Urls
      BY <3>1, IndexedFacts DEF TypeOK
    <3> QED
      BY <3>1, <3>2, EmbeddedFacts DEF IndexInv, EmbeddingFollows
  <2> QED
    BY <2>1, <2>2
<1>8. NothingStranded'
  BY <1>2 DEF TypeOK, NothingStranded
<1> QED
  BY <1>3, <1>4, <1>6, <1>7, <1>8 DEF IndexInv

\* A step of the indexer itself.
LEMMA IndexerStep ==
  ASSUME TypeOK, IndexInv, IndexerNext
  PROVE  IndexTypeOK' /\ IndexInv'
<1> USE DEF IndexInv
<1>0. kills \in Nat /\ MaxKills \in Nat
  BY KillsAssumption DEF TypeOK
<1>1. CASE Swap
  <2>1. IndexTypeOK' /\ NothingStranded'
    BY <1>1 DEF Swap, TypeOK, IndexTypeOK, NothingStranded
  <2> QED
    BY <1>1, <2>1 DEF Swap, Opened, OnePerUrl, EmbeddingFollows
<1>2. CASE Commit
  <2>1. IndexTypeOK' /\ NothingStranded'
    BY <1>2 DEF Commit, TypeOK, IndexTypeOK, NothingStranded
  <2> QED
    BY <1>2, <2>1 DEF Commit, Opened, OnePerUrl, EmbeddingFollows
<1>3. CASE CommitFails
  <2>1. IndexTypeOK' /\ NothingStranded'
    BY <1>3 DEF CommitFails, TypeOK, IndexTypeOK, NothingStranded
  <2> QED
    BY <1>3, <2>1 DEF CommitFails, Opened, OnePerUrl, EmbeddingFollows
<1>4. CASE Reload
  <2>1. IndexTypeOK' /\ NothingStranded'
    BY <1>4 DEF Reload, TypeOK, IndexTypeOK, NothingStranded
  <2> QED
    BY <1>4, <2>1 DEF Reload, Opened, OnePerUrl, EmbeddingFollows
<1>5. CASE Open
  <2>1. IndexTypeOK' /\ NothingStranded'
    BY <1>5 DEF Open, TypeOK, IndexTypeOK, NothingStranded, Opened
  <2> QED
    BY <1>5, <2>1 DEF Open, Opened, OnePerUrl, EmbeddingFollows
<1>6. CASE MigrationBegins
  <2>1. committed \subseteq OldDocs
    BY <1>6 DEF MigrationBegins, Opened
  <2>2. \A d \in committed : /\ TextOnly(d) \in Indexed /\ TextOnly(d).page = d.page
                             /\ ~TextOnly(d).emb
    BY <2>1, TextOnlyFacts DEF Indexed
  <2>3. IndexTypeOK'
    BY <1>6, <2>2 DEF MigrationBegins, TypeOK, IndexTypeOK, NoStore
  <2>4. Opened'
    BY <1>6, <2>2 DEF MigrationBegins, Opened
  <2>5. OnePerUrl'
    BY <1>6, <2>2 DEF MigrationBegins, OnePerUrl
  <2> QED
    BY <1>6, <2>3, <2>4, <2>5 DEF MigrationBegins, EmbeddingFollows, NothingStranded
<1>7. CASE MigrationEnds
  <2>1. IndexTypeOK' /\ Opened'
    BY <1>7 DEF MigrationEnds, TypeOK, IndexTypeOK, Opened
  <2>2. EmbeddingFollows'
    <3>1. ASSUME NEW d \in rows
          PROVE  store[d.page.url] = NoPage /\ ~d.emb
      <4>1. d.page.url \in Urls
        BY IndexedFacts DEF TypeOK
      <4> QED
        BY <1>7, <4>1 DEF MigrationEnds, Opened, NoStore
    <3> QED
      BY <1>7, <3>1 DEF MigrationEnds, EmbeddingFollows
  <2> QED
    BY <1>7, <2>1, <2>2 DEF MigrationEnds, OnePerUrl, NothingStranded
<1>8. CASE Recreate
  <2>1. IndexTypeOK'
    BY <1>8 DEF Recreate, TypeOK, IndexTypeOK, NoStore
  <2> QED
    BY <1>8, <2>1 DEF Recreate, Opened, OnePerUrl, EmbeddingFollows, NothingStranded
<1>9. CASE KillIndexer
  <2>1. IndexTypeOK' /\ EmbeddingFollows'
    BY <1>0, <1>9 DEF KillIndexer, TypeOK, IndexTypeOK, EmbeddingFollows
  <2>2. Opened'
    BY <1>9 DEF KillIndexer, Opened
  <2> QED
    BY <1>9, <2>1, <2>2 DEF KillIndexer, OnePerUrl, NothingStranded
<1> QED
  BY <1>1, <1>2, <1>3, <1>4, <1>5, <1>6, <1>7, <1>8, <1>9 DEF IndexerNext

LEMMA IndexStep ==
  ASSUME TypeOK, IndexInv, [Next]_vars
  PROVE  IndexTypeOK' /\ IndexInv'
<1>1. CASE \E b \in Seq(Documents) : b # <<>> /\ Ingest(b)
  BY <1>1, IngestStep
<1>2. CASE IndexerNext
  BY <1>2, IndexerStep
<1>3. CASE /\ UNCHANGED indexerVars
           /\ kills' \in 0..MaxKills /\ kills <= kills'
  <2>1. kills \in 0..MaxKills /\ (kills' = 0 => kills = 0)
    BY <1>3, KillsAssumption DEF TypeOK
  <2> QED
    BY <1>3, <2>1 DEF indexerVars, TypeOK, IndexTypeOK, IndexInv, Opened, OnePerUrl, EmbeddingFollows,
                      NothingStranded
<1> QED
  BY <1>1, <1>2, <1>3, IndexerView

-------------------------------------------------------------------------------
(* The crawler's part of the invariant.                                    *)

CrawlerTypeOK ==
  /\ pc \in [Flushers -> {"idle", "embedding", "flushing", "posting"}]
  /\ doc \in [Workers -> Documents \cup {NoDoc}]
  /\ buffer \in Seq(Documents) /\ batch \in [Flushers -> Seq(Documents)]
  /\ request \in Documents \cup {NoDoc}
  /\ crawls \in 0..MaxCrawls
  /\ \A f \in Flushers : batch[f] # <<>> <=> pc[f] = "posting"
  /\ \A w \in Workers : doc[w] # NoDoc <=> pc[w] = "embedding"

Crawled == CrawlerTypeOK /\ Numbered /\ TakenOnce

\* The ids the crawler holds are numbers.
LEMMA IdsAreNumbers ==
  ASSUME CrawlerTypeOK
  PROVE  /\ \A e \in ToSet(buffer) : e.id \in Nat
         /\ \A f \in Flushers : \A e \in ToSet(batch[f]) : e.id \in Nat
         /\ \A v \in Workers : doc[v].id \in Nat
<1>1. /\ \A e \in ToSet(buffer) : e \in Documents
      /\ \A f \in Flushers : \A e \in ToSet(batch[f]) : e \in Documents
      /\ \A v \in Workers : doc[v] \in Documents \cup {NoDoc}
  BY Elements DEF CrawlerTypeOK
<1> QED
  BY <1>1, DocumentFacts DEF NoDoc

LEMMA FetchStep ==
  ASSUME Crawled, NEW w \in Workers, NEW p \in Pages, NEW cap \in Caps, Fetch(w, p, cap)
  PROVE  Crawled'
<1> DEFINE d == Document(crawls + 1, Extract(p, 500, cap))
<1>1. CASE UNCHANGED <<crawls, doc, pc>>
  BY <1>1 DEF Fetch, Crawled, CrawlerTypeOK, Numbered, TakenOnce
<1>2. CASE ~UNCHANGED <<crawls, doc, pc>>
  <2>1. /\ crawls < MaxCrawls /\ crawls' = crawls + 1 /\ crawls \in Nat
        /\ doc' = [doc EXCEPT ![w] = d] /\ pc' = [pc EXCEPT ![w] = "embedding"]
        /\ pc[w] = "idle"
        /\ UNCHANGED <<buffer, batch, request>>
    BY <1>2 DEF Fetch, Crawled, CrawlerTypeOK
  <2>2. crawls + 1 \in 1..MaxCrawls /\ Extract(p, 500, cap) \in PagesKept
    BY <2>1, IngestAssumption DEF PagesKept
  <2>3. d \in Documents /\ d # NoDoc
    BY <2>2, DocumentMade, DocumentFacts
  <2>4. d.id = crawls + 1
    BY DEF Document
  <2> HIDE DEF d
  <2>5. CrawlerTypeOK'
    BY <2>1, <2>2, <2>3 DEF Crawled, CrawlerTypeOK, Flushers
  <2>6. /\ \A e \in ToSet(buffer) : e.id \in Nat /\ e.id <= crawls
        /\ \A f \in Flushers : \A e \in ToSet(batch[f]) : e.id \in Nat /\ e.id <= crawls
        /\ \A v \in Workers : doc[v].id \in Nat /\ doc[v].id <= crawls
    BY IdsAreNumbers DEF Crawled, Numbered
  <2>7. Numbered'
    BY <2>1, <2>3, <2>4, <2>6 DEF Crawled, CrawlerTypeOK, Numbered, Ids
  <2> QED
    BY <2>1, <2>5, <2>7 DEF Crawled, TakenOnce
<1> QED
  BY <1>1, <1>2

LEMMA PushStep ==
  ASSUME Crawled, NEW w \in Workers, NEW emb \in BOOLEAN, Push(w, emb)
  PROVE  Crawled'
<1> DEFINE d == [doc[w] EXCEPT !.emb = emb]
<1>1. /\ buffer' = Append(buffer, d) /\ doc' = [doc EXCEPT ![w] = NoDoc]
      /\ pc' = [pc EXCEPT ![w] = IF Len(buffer) + 1 >= Threshold THEN "flushing" ELSE "idle"]
      /\ pc[w] = "embedding" /\ UNCHANGED <<batch, request, crawls>>
  BY DEF Push
<1>2. doc[w] \in Documents /\ doc[w] # NoDoc
  BY <1>1 DEF Crawled, CrawlerTypeOK
<1>3. d \in Documents /\ d.id = doc[w].id
  BY <1>2, DocumentFacts
<1> HIDE DEF d
<1>4. buffer' \in Seq(Documents) /\ ToSet(buffer') = ToSet(buffer) \cup {d}
  BY <1>1, <1>3, AppendedElements DEF Crawled, CrawlerTypeOK
<1>5. CrawlerTypeOK'
  BY <1>1, <1>4 DEF Crawled, CrawlerTypeOK, Flushers
<1>6. Ids(ToSet(buffer')) = Ids(ToSet(buffer)) \cup {doc[w].id}
  BY <1>3, <1>4 DEF Ids
<1>7. Numbered'
  <2>1. \A v \in Workers : doc'[v] = IF v = w THEN NoDoc ELSE doc[v]
    BY <1>1 DEF Crawled, CrawlerTypeOK
  <2>2. NoDoc.id <= crawls
    BY DEF Crawled, CrawlerTypeOK, NoDoc
  <2>3. \A e \in ToSet(buffer') : e.id <= crawls
    BY <1>2, <1>3, <1>4 DEF Crawled, Numbered
  <2>4. \A v \in Workers : doc'[v] # NoDoc => doc'[v].id \notin Ids(ToSet(buffer'))
    BY <1>2, <1>6, <2>1 DEF Crawled, Numbered
  <2>5. \A v \in Workers : doc[v] # NoDoc => doc[v].id # NoDoc.id
    BY DocumentFacts DEF Crawled, CrawlerTypeOK, NoDoc
  <2>6. UNCHANGED <<batch, crawls>>
    BY <1>1
  <2> QED
    BY <2>1, <2>2, <2>3, <2>4, <2>5, <2>6 DEF Crawled, Numbered
<1>8. TakenOnce'
  BY <1>1, <1>2, <1>6 DEF Crawled, Numbered, TakenOnce
<1> QED
  BY <1>5, <1>7, <1>8 DEF Crawled

LEMMA FlushStep ==
  ASSUME Crawled, NEW f \in Flushers, Flush(f)
  PROVE  Crawled'
<1> USE DEF Crawled
<1>1. CASE Take(f)
  <2>1. batch[f] = <<>>
    BY <1>1 DEF Take, CrawlerTypeOK
  <2>2. /\ CrawlerTypeOK'
        /\ ToSet(batch'[f]) = ToSet(buffer) /\ ToSet(buffer') = {}
        /\ \A g \in Flushers \ {f} : batch'[g] = batch[g]
    BY <1>1, Elements DEF Take, CrawlerTypeOK, Flushers
  <2>3. Numbered'
    BY <1>1, <2>2 DEF Take, CrawlerTypeOK, Numbered, Ids
  <2>4. TakenOnce'
    BY <2>2 DEF TakenOnce, Ids
  <2> QED
    BY <2>2, <2>3, <2>4
<1>2. CASE pc[f] = "posting" /\ Flushed(f)
  <2>1. /\ CrawlerTypeOK'
        /\ ToSet(batch'[f]) = {} /\ \A g \in Flushers \ {f} : batch'[g] = batch[g]
    <3>1. <<>> \in Seq(Documents)
      OBVIOUS
    <3>2. \A g \in Flushers : batch'[g] = IF g = f THEN <<>> ELSE batch[g]
      BY <1>2 DEF Flushed, CrawlerTypeOK
    <3>3. batch' \in [Flushers -> Seq(Documents)]
      BY <1>2, <3>1 DEF Flushed, CrawlerTypeOK
    <3>4. \A g \in Flushers : pc'[g] = IF g = f THEN "idle" ELSE pc[g]
      BY <1>2 DEF Flushed, CrawlerTypeOK
    <3>5. pc[f] = "posting"
      BY <1>2
    <3>6. CrawlerTypeOK'
      BY <1>2, <3>2, <3>3, <3>4, <3>5 DEF Flushed, CrawlerTypeOK, Flushers
    <3> QED
      BY <3>2, <3>6, Elements
  <2>2. /\ UNCHANGED <<doc, buffer, crawls>>
        /\ \A g \in Flushers : ToSet(batch'[g]) \subseteq ToSet(batch[g])
    BY <1>2, <2>1 DEF Flushed
  <2>3. \A g \in Flushers : Ids(ToSet(batch'[g])) \subseteq Ids(ToSet(batch[g]))
    BY <2>2 DEF Ids
  <2>4. Numbered'
    BY <2>2, <2>3 DEF Numbered
  <2>5. TakenOnce'
    BY <2>2, <2>3 DEF TakenOnce
  <2> QED
    BY <2>1, <2>4, <2>5
<1> QED
  BY <1>1, <1>2 DEF Flush, Post, PostFails

LEMMA CrawlerStep ==
  ASSUME Crawled, [Next]_vars
  PROVE  Crawled'
<1>1. ASSUME UNCHANGED crawlerVars
      PROVE  Crawled'
  BY <1>1 DEF crawlerVars, Crawled, CrawlerTypeOK, Numbered, TakenOnce
<1>2. CASE Tick
  <2>1. Ticker \notin Workers /\ Ticker \in Flushers /\ Workers \subseteq Flushers
    BY IngestAssumption DEF Flushers
  <2>2. CrawlerTypeOK'
    BY <1>2, <2>1 DEF Tick, Crawled, CrawlerTypeOK
  <2> QED
    BY <1>2, <2>2 DEF Tick, Crawled, Numbered, TakenOnce
<1>3. ASSUME NEW p \in Pages, NEW fetched \in BOOLEAN, NEW emb \in BOOLEAN, Request(p, fetched, emb)
      PROVE  Crawled'
  <2> DEFINE page == IF fetched THEN Brief(p) ELSE Blank(p)
             d == Document(crawls + 1, page)
  <2>1. crawls \in Nat /\ crawls + 1 \in 1..MaxCrawls /\ page \in PagesKept
    BY <1>3, IngestAssumption DEF Request, Crawled, CrawlerTypeOK, PagesKept
  <2>2. d \in Documents
    BY <2>1, DocumentMade
  <2>3. [d EXCEPT !.emb = emb] \in Documents
    BY <2>2, DocumentFacts
  <2>4. request' = [d EXCEPT !.emb = emb]
    BY <1>3 DEF Request
  <2> HIDE DEF d
  <2>5. request' \in Documents
    BY <2>3, <2>4
  <2>6. UNCHANGED <<pc, doc, buffer, batch>> /\ crawls' = crawls + 1
    BY <1>3 DEF Request
  <2>7. CrawlerTypeOK'
    BY <2>1, <2>5, <2>6 DEF Crawled, CrawlerTypeOK
  <2> QED
    BY <2>1, <2>6, <2>7, IdsAreNumbers DEF Crawled, Numbered, TakenOnce
<1>4. CASE RequestPosted
  BY <1>4 DEF RequestPosted, Crawled, CrawlerTypeOK, Numbered, TakenOnce
<1>5. CASE KillCrawler
  <2>1. <<>> \in Seq(Documents)
    OBVIOUS
  <2>2. CrawlerTypeOK'
    BY <1>5, <2>1 DEF KillCrawler, Crawled, CrawlerTypeOK, Flushers
  <2>3. /\ ToSet(buffer') = {} /\ \A f \in Flushers : ToSet(batch'[f]) = {}
        /\ \A w \in Workers : doc'[w] = NoDoc
    BY <1>5, Elements DEF KillCrawler
  <2>4. Numbered' /\ TakenOnce'
    BY <1>5, <2>3 DEF KillCrawler, Crawled, CrawlerTypeOK, Numbered, TakenOnce, Ids, NoDoc
  <2> QED
    BY <2>2, <2>4 DEF Crawled
<1>6. CASE UNCHANGED vars
  BY <1>1, <1>6 DEF vars
<1> QED
  BY <1>1, <1>2, <1>3, <1>4, <1>5, <1>6, FetchStep, PushStep, FlushStep DEF Next
-------------------------------------------------------------------------------
(* Where the documents are.                                                *)

\* Of a batch that is sent and taken, and of what the indexer had, each document is
\* in the index or has made way for one of the batch.
LEMMA SentStep ==
  ASSUME TypeOK, NEW b \in Seq(Documents), Ingest(b), ToSet(b) \subseteq Sent,
         NEW d \in Taken \cup ToSet(b)
  PROVE  Accounted(d)
<1>1. live' = Upserted(live, b) /\ rows' = rows
  BY DEF Ingest
<1>2. CASE d \in rows
  BY <1>1, <1>2 DEF Accounted, Taken, Ids
<1>3. CASE d \in live /\ \A e \in ToSet(b) : e.page.url # d.page.url
  <2>1. d \in live'
    BY <1>1, <1>3 DEF Upserted
  <2> QED
    BY <2>1 DEF Accounted, Taken, Ids
<1>4. CASE d \in live \cup ToSet(b) /\ \E e \in ToSet(b) : e.page.url = d.page.url
  <2>1. PICK e \in Latest(b) : e.page.url = d.page.url
    BY <1>4, LatestOfUrl
  <2>2. e \in live' /\ e \in Sent
    BY <1>1, BatchFacts DEF Upserted
  <2> QED
    BY <1>4, <2>1, <2>2 DEF Accounted
<1> QED
  BY <1>2, <1>3, <1>4 DEF Taken

\* A step of the indexer itself keeps what it has taken, but for a kill and for an
\* index created anew.
LEMMA TakenStep ==
  ASSUME TypeOK, IndexInv, IndexerNext, NEW d \in Taken
  PROVE  Accounted(d)
<1>1. CASE UNCHANGED <<live, rows>>
  BY <1>1 DEF Accounted, Taken, Ids
<1>2. CASE MigrationBegins
  <2>1. d \in committed /\ committed \subseteq OldDocs
    BY <1>2 DEF MigrationBegins, IndexInv, Opened, Taken
  <2>2. TextOnly(d) \in rows' /\ TextOnly(d).id = d.id
    BY <1>2, <2>1, TextOnlyFacts DEF MigrationBegins
  <2> QED
    BY <2>2 DEF Accounted, Taken, Ids
<1>3. CASE MigrationEnds
  <2>1. d \in live'
    BY <1>3 DEF MigrationEnds, IndexInv, Opened, Taken
  <2> QED
    BY <2>1 DEF Accounted, Taken, Ids
<1>4. CASE Recreate
  BY <1>4 DEF Recreate, Accounted
<1>5. CASE KillIndexer
  <2>1. kills' # kills /\ live' = committed
    BY <1>5 DEF KillIndexer, TypeOK
  <2> QED
    BY <2>1 DEF Accounted, Taken, Ids
<1> QED
  BY <1>1, <1>2, <1>3, <1>4, <1>5 DEF IndexerNext, Swap, Commit, CommitFails, Reload, Open

\* What the crawler holds it keeps, until it is sent or the crawler is killed.
LEMMA HeldStep ==
  ASSUME TypeOK, [Next]_vars, NEW d \in Held \ Sent, kills' = kills
  PROVE  d.id \in Ids(Held')
<1>a. /\ d # NoDoc
      /\ \/ d \in ToSet(buffer)
         \/ \E f \in Flushers : d \in ToSet(batch[f])
         \/ \E w \in Workers : d = doc[w]
         \/ d = request
  <2> DEFINE batches == UNION {ToSet(batch[f]) : f \in Flushers}
  <2>1. d \in batches => \E f \in Flushers : d \in ToSet(batch[f])
    OBVIOUS
  <2>2. d \in (ToSet(buffer) \cup batches \cup {doc[w] : w \in Workers} \cup {request}) \ {NoDoc}
    BY DEF Held
  <2> HIDE DEF batches
  <2> QED
    BY <2>1, <2>2
<1>b. \A x : /\ x # NoDoc
             /\ \/ x \in ToSet(buffer')
                \/ \E f \in Flushers : x \in ToSet(batch'[f])
                \/ \E w \in Workers : x = doc'[w]
                \/ x = request'
            => x \in Held'
  BY DEF Held
<1>c. \A x : x \in Held' => x.id \in Ids(Held')
  BY DEF Ids
<1>0. d \notin Sent
  OBVIOUS
<1>1. CASE UNCHANGED crawlerVars
  BY <1>0, <1>a, <1>b, <1>c, <1>1 DEF crawlerVars
<1>2. ASSUME NEW w \in Workers, NEW p \in Pages, NEW cap \in Caps, Fetch(w, p, cap)
      PROVE  d \in Held'
  <2>1. doc[w] = NoDoc \/ UNCHANGED doc
    BY <1>2 DEF Fetch, TypeOK
  <2>2. UNCHANGED <<buffer, batch, request>> /\ \A v \in Workers \ {w} : doc'[v] = doc[v]
    BY <1>2 DEF Fetch, TypeOK
  <2> QED
    BY <1>0, <1>a, <1>b, <1>c, <2>1, <2>2
<1>3. ASSUME NEW w \in Workers, NEW emb \in BOOLEAN, Push(w, emb)
      PROVE  d.id \in Ids(Held')
  <2> DEFINE e == [doc[w] EXCEPT !.emb = emb]
  <2>1. /\ buffer' = Append(buffer, e) /\ doc' = [doc EXCEPT ![w] = NoDoc]
        /\ pc[w] = "embedding" /\ UNCHANGED <<batch, request>>
    BY <1>3 DEF Push
  <2>2. doc[w] \in Documents
    BY <2>1 DEF TypeOK
  <2>3. e \in Documents /\ e.id = doc[w].id /\ e # NoDoc
    BY <2>2, DocumentFacts
  <2> HIDE DEF e
  <2>4. ToSet(buffer') = ToSet(buffer) \cup {e} /\ \A v \in Workers \ {w} : doc'[v] = doc[v]
    BY <2>1, <2>3, AppendedElements DEF TypeOK
  <2>5. CASE d = doc[w]
    BY <1>0, <1>a, <1>b, <1>c, <2>3, <2>4, <2>5
  <2>6. CASE d # doc[w]
    BY <1>0, <1>a, <1>b, <1>c, <2>1, <2>4, <2>6
  <2> QED
    BY <2>5, <2>6
<1>4. CASE Tick
  BY <1>0, <1>a, <1>b, <1>c, <1>4 DEF Tick
<1>5. ASSUME NEW f \in Flushers, Flush(f)
      PROVE  d \in Held'
  <2>0. UNCHANGED <<doc, request>>
    BY <1>5 DEF Flush, Take, Post, PostFails, Flushed
  <2>1. CASE Take(f)
    <3>1. batch[f] = <<>> /\ batch'[f] = buffer /\ \A g \in Flushers \ {f} : batch'[g] = batch[g]
      BY <2>1 DEF Take, TypeOK
    <3> QED
      BY <1>0, <1>a, <1>b, <1>c, <2>0, <3>1, Elements
  <2>2. CASE Post(f) \/ PostFails(f)
    <3>1. pc[f] = "posting" /\ pc'[f] = "idle" /\ UNCHANGED buffer
      BY <2>2 DEF Post, PostFails, Flushed, TypeOK
    <3>2. \A g \in Flushers \ {f} : batch'[g] = batch[g]
      BY <2>2 DEF Post, PostFails, Flushed, TypeOK
    <3>3. d \notin ToSet(batch[f])
      BY <3>1 DEF Sent
    <3> QED
      BY <1>0, <1>a, <1>b, <1>c, <2>0, <3>1, <3>2, <3>3
  <2> QED
    BY <1>5, <2>1, <2>2 DEF Flush
<1>6. ASSUME NEW p \in Pages, NEW fetched \in BOOLEAN, NEW emb \in BOOLEAN, Request(p, fetched, emb)
      PROVE  d \in Held'
  BY <1>0, <1>a, <1>b, <1>c, <1>6 DEF Request
<1>7. CASE RequestPosted
  <2>1. d # request
    <3>1. request' = NoDoc /\ request # NoDoc
      BY <1>7 DEF RequestPosted
    <3>2. request \in Sent
      BY <3>1 DEF Sent
    <3> QED
      BY <1>0, <3>2
  <2> QED
    BY <1>0, <1>a, <1>b, <1>c, <1>7, <2>1 DEF RequestPosted
<1>8. ~KillCrawler
  BY DEF KillCrawler, TypeOK
<1>9. CASE UNCHANGED vars
  BY <1>1, <1>9 DEF vars
<1> QED
  BY <1>0, <1>a, <1>b, <1>c, <1>1, <1>2, <1>3, <1>4, <1>5, <1>6, <1>7, <1>8, <1>9 DEF Next

\* No step loses a document but in the ways of Accounted.
LEMMA NothingLost ==
  ASSUME TypeOK, IndexInv, [Next]_vars, NEW d \in Held \cup Taken
  PROVE  Accounted(d)
<1>1. ASSUME NEW b \in Seq(Documents), Ingest(b), ToSet(b) \subseteq Sent,
             Sent \subseteq ToSet(b), kills' = kills
      PROVE  Accounted(d)
  <2>1. CASE d \in Taken \cup ToSet(b)
    BY <1>1, <2>1, SentStep
  <2>2. CASE d \in Held \ Sent
    <3>1. d.id \in Ids(Held')
      BY <1>1, <2>2, HeldStep
    <3> QED
      BY <3>1 DEF Accounted, Ids
  <2> QED
    BY <1>1, <2>1, <2>2
<1>2. ASSUME UNCHANGED indexerVars, kills' = kills
      PROVE  Accounted(d)
  <2>1. CASE d \in Taken
    BY <1>2, <2>1 DEF indexerVars, Accounted, Taken, Ids
  <2>2. CASE d \in Sent
    BY <1>2, <2>2 DEF indexerVars, Accounted
  <2>3. CASE d \in Held \ Sent
    <3>1. d.id \in Ids(Held')
      BY <1>2, <2>3, HeldStep
    <3> QED
      BY <3>1 DEF Accounted, Ids
  <2> QED
    BY <2>1, <2>2, <2>3
<1>3. CASE IndexerNext /\ UNCHANGED crawlerVars
  <2>1. CASE d \in Taken
    BY <1>3, <2>1, TakenStep
  <2>2. CASE d \in Held
    BY <1>3, <2>2 DEF crawlerVars, Accounted, Held, Ids
  <2> QED
    BY <2>1, <2>2
<1>4. CASE KillCrawler
  <2>1. kills' # kills /\ UNCHANGED indexerVars
    BY <1>4 DEF KillCrawler, TypeOK
  <2>2. CASE d \in Taken
    BY <2>1, <2>2 DEF indexerVars, Accounted, Taken, Ids
  <2>3. CASE d \notin Taken
    BY <2>1, <2>3 DEF Accounted, Taken
  <2> QED
    BY <2>2, <2>3
<1>5. ASSUME NEW f \in Flushers, Flush(f)
      PROVE  Accounted(d)
  <2>1. CASE Post(f)
    <3>1. /\ pc[f] = "posting" /\ pc' = [pc EXCEPT ![f] = "idle"] /\ UNCHANGED request
          /\ Ingest(batch[f]) /\ batch[f] \in Seq(Documents)
      BY <2>1 DEF Post, Flushed, TypeOK
    <3>2. \A g \in Flushers : pc[g] = "posting" /\ pc'[g] = "idle" <=> g = f
      BY <3>1 DEF TypeOK
    <3>3. Sent = ToSet(batch[f])
      BY <3>1, <3>2 DEF Sent
    <3> QED
      BY <1>1, <3>1, <3>3 DEF Ingest
  <2>2. CASE Take(f) \/ PostFails(f)
    BY <1>2, <2>2 DEF Take, PostFails
  <2> QED
    BY <1>5, <2>1, <2>2 DEF Flush
<1>6. CASE RequestPosted
  <2>1. CASE Ingest(<<request>>)
    <3>1. /\ request \in Documents /\ request # NoDoc /\ request' = NoDoc /\ UNCHANGED pc
      BY <1>6 DEF RequestPosted, TypeOK
    <3>2. Sent = {request}
      BY <3>1 DEF Sent
    <3>3. <<request>> \in Seq(Documents)
      BY <3>1
    <3>4. ToSet(<<request>>) = Sent /\ kills' = kills
      BY <2>1, <3>2, Elements DEF Ingest
    <3> QED
      BY <1>1, <2>1, <3>3, <3>4
  <2>2. CASE UNCHANGED <<indexerVars, kills>>
    BY <1>2, <2>2
  <2> QED
    BY <1>6, <2>1, <2>2 DEF RequestPosted
<1>7. ASSUME NEW w \in Workers, \/ \E p \in Pages, cap \in Caps : Fetch(w, p, cap)
                                \/ \E emb \in BOOLEAN : Push(w, emb)
      PROVE  Accounted(d)
  BY <1>2, <1>7 DEF Fetch, Push
<1>8. CASE Tick \/ (\E p \in Pages, fetched, emb \in BOOLEAN : Request(p, fetched, emb)) \/ UNCHANGED vars
  BY <1>2, <1>8 DEF Tick, Request, vars
<1> QED
  BY <1>3, <1>4, <1>5, <1>6, <1>7, <1>8 DEF Next

-------------------------------------------------------------------------------
(* The invariant holds.                                                    *)

LEMMA StepIInv == IInv /\ [Next]_vars => IInv'
<1> SUFFICES ASSUME IInv, [Next]_vars
             PROVE  IInv'
  OBVIOUS
<1>1. IndexTypeOK' /\ IndexInv'
  BY IndexStep DEF IInv
<1>2. Crawled'
  <2>1. Crawled
    BY DEF IInv, TypeOK, Crawled, CrawlerTypeOK
  <2> QED
    BY <2>1, CrawlerStep
<1>3. TypeOK'
  BY <1>1, <1>2 DEF TypeOK, IndexTypeOK, Crawled, CrawlerTypeOK
<1> QED
  BY <1>1, <1>2, <1>3 DEF IInv, Crawled

LEMMA Inductive == Spec => []IInv
<1>1. Init => IInv
  BY InitIInv
<1>2. IInv /\ [Next]_vars => IInv'
  BY StepIInv
<1> QED
  BY <1>1, <1>2, PTL DEF Spec
-------------------------------------------------------------------------------
(* The theorems.                                                           *)

\* Types, and what a flusher is doing agrees with what it has in hand.
THEOREM TypeCorrect == Spec => []TypeOK
BY Inductive, PTL DEF IInv

\* However many workers and flushers compete while answers are outstanding, no step
\* loses a document but by a newcomer of its URL, a request the indexer takes nothing
\* of, a kill before its commit or an index created anew (the buffer, the flush and
\* the writer of the indexer).
THEOREM NothingVanishes == Spec => NoSilentLoss
<1>1. IInv /\ [Next]_vars => \A d \in Held \cup Taken : Accounted(d)
  BY NothingLost DEF IInv
<1> QED
  BY <1>1, Inductive, PTL DEF Spec, NoSilentLoss

\* What one flusher has taken from the buffer neither another flusher nor the buffer
\* has (flush_ingest_buffer).
THEOREM TakenByOne == Spec => []TakenOnce
BY Inductive, PTL DEF IInv

\* Upserts, commits, migrations and restarts keep one document per URL, in the
\* writer, on the disk and for the reader (handle_ingest_batch).
THEOREM UrlsUnique == Spec => []OnePerUrl
<1>1. IInv => OnePerUrl
  BY DEF IInv, IndexInv
<1> QED
  BY <1>1, Inductive, PTL

\* Until a process is killed, the store of embeddings agrees with the writer.
THEOREM EmbeddingsAgree == Spec => []EmbeddingFollows
<1>1. IInv => EmbeddingFollows
  BY DEF IInv, IndexInv
<1> QED
  BY <1>1, Inductive, PTL

\* The committer never sleeps over documents that are not on the disk, whatever
\* commits have failed (writer_pending).
THEOREM CommitsOwed == Spec => []NothingStranded
<1>1. IInv => NothingStranded
  BY DEF IInv, IndexInv
<1> QED
  BY <1>1, Inductive, PTL

\* While the indexer is up the writer has a document of every URL it had one of: an
\* upsert deletes only what it replaces.
THEOREM UrlsStay ==
  Spec => [][phase = "up" /\ phase' = "up" =>
               \A d \in live : \E e \in live' : e.page.url = d.page.url]_vars
<1>1. ASSUME IInv, [Next]_vars, phase = "up", phase' = "up"
      PROVE  \A d \in live : \E e \in live' : e.page.url = d.page.url
  <2>1. CASE \E b \in Seq(Documents) : b # <<>> /\ Ingest(b)
    <3>1. PICK b \in Seq(Documents) : Ingest(b)
      BY <2>1
    <3>2. live \in SUBSET Indexed /\ \A d, e \in live : d.page.url = e.page.url => d = e
      BY <1>1 DEF IInv, TypeOK, IndexInv, OnePerUrl
    <3>3. live' = Upserted(live, b)
      BY <3>1 DEF Ingest
    <3>4. \A d \in live \cup ToSet(b) : \E e \in Upserted(live, b) : e.page.url = d.page.url
      BY <3>2, UpsertedFacts
    <3> QED
      BY <3>3, <3>4
  <2>2. CASE IndexerNext
    <3>1. UNCHANGED live
      BY <1>1, <2>2 DEF IndexerNext, Swap, Commit, CommitFails, Reload, Open, MigrationBegins,
                        MigrationEnds, Recreate, KillIndexer
    <3> QED
      BY <3>1
  <2>3. CASE UNCHANGED indexerVars
    BY <2>3 DEF indexerVars
  <2>4. TypeOK
    BY <1>1 DEF IInv
  <2> QED
    BY <1>1, <2>1, <2>2, <2>3, <2>4, IndexerView
<1> QED
  BY <1>1, Inductive, PTL DEF Spec

\* The day count with months of 30 days and years of 365 never inverts the order of
\* two valid dates.
LEMMA DayStampOrder ==
  ASSUME NEW a, NEW b, ValidDate(a), ValidDate(b), Earlier(a, b)
  PROVE  DayStamp(a) <= DayStamp(b)
<1>1. /\ a.year \in Int /\ a.month \in 1..12 /\ a.day \in 1..31
      /\ b.year \in Int /\ b.month \in 1..12 /\ b.day \in 1..31
  BY DEF ValidDate
<1>2. PICK y \in Int, m \in 1..12, d \in 1..31 : y = a.year /\ m = a.month /\ d = a.day
  BY <1>1
<1>3. PICK z \in Int, n \in 1..12, e \in 1..31 : z = b.year /\ n = b.month /\ e = b.day
  BY <1>1
<1>4. y < z \/ (y = z /\ m < n) \/ (y = z /\ m = n /\ d < e)
  BY <1>2, <1>3, Zenon DEF Earlier
<1>5. (y - 1970) * 365 + (m - 1) * 30 + d <= (z - 1970) * 365 + (n - 1) * 30 + e
  BY ONLY <1>4
<1>6. /\ DayStamp(a) = (y - 1970) * 365 + (m - 1) * 30 + d
      /\ DayStamp(b) = (z - 1970) * 365 + (n - 1) * 30 + e
  BY <1>2, <1>3 DEF DayStamp
<1> QED
  BY ONLY <1>5, <1>6

\* Whatever dates pages carry, and wherever among invalid ones, of two documents in
\* the index the one published earlier has not the later date
\* (extract_publication_date).
THEOREM DatesOrdered == Spec => []DatesKeepOrder
<1>1. ASSUME TypeOK
      PROVE  DatesKeepOrder
  <2> DEFINE first(x) == x.page.dates[Min(Valid(x.page.dates))]
  <2>1. ASSUME NEW d \in live, Valid(d.page.dates) # {}
        PROVE  ValidDate(first(d)) /\ d.date = DayStamp(first(d))
    <3>1. d.date = PublicationDate(d.page.dates) /\ DOMAIN d.page.dates = 1..Len(d.page.dates)
      BY <1>1, IndexedFacts DEF TypeOK
    <3>2. Valid(d.page.dates) \in SUBSET Nat
      BY <3>1 DEF Valid
    <3>3. Min(Valid(d.page.dates)) \in Valid(d.page.dates)
      BY <2>1, <3>2, LeastMember
    <3> QED
      BY <2>1, <3>1, <3>3 DEF PublicationDate, Valid
  <2> HIDE DEF first
  <2>2. ASSUME NEW d \in live, NEW e \in live, Valid(d.page.dates) # {}, Valid(e.page.dates) # {},
               Earlier(first(d), first(e))
        PROVE  d.date <= e.date
    BY <2>1, <2>2, DayStampOrder
  <2> QED
    BY <2>2 DEF DatesKeepOrder, first
<1> QED
  BY <1>1, TypeCorrect, PTL
===============================================================================
