------------------------------- MODULE Indexer -------------------------------
(***************************************************************************)
(* The indexer: the Tantivy writer behind its mutex, the committer that    *)
(* commits every two seconds what pending counts, the reader that follows  *)
(* a commit, the store of embeddings beside the index, and the opening of  *)
(* what a start finds on the disk, with the migration that drops a column. *)
(*                                                                         *)
(* Data: a document is [id, page, emb, price]; emb says whether it came    *)
(* with an embedding.  The documents the writer has taken are live, those  *)
(* of its last commit are committed.  The crawler always asks to replace.  *)
(***************************************************************************)
EXTENDS IndexSearch

CONSTANTS
  Urls,
  OldDocs,    \* the documents of the index directory a first start finds
  MaxKills    \* bound: kills of a process

ASSUME OldDocsAssumption ==
  /\ \A d \in OldDocs : {"id", "page", "emb"} \subseteq DOMAIN d /\ d.page.url \in Urls
  /\ \A d, e \in OldDocs : d.page.url = e.page.url => d = e
ASSUME KillsAssumption == MaxKills \in Nat

VARIABLES
  phase,      \* "down", "migrating" or "up"
  schema,     \* of the directory: "current", "embedding" (migratable), "other"
  live,       \* documents the writer would commit
  committed,  \* documents of the last commit, on disk
  visible,    \* documents the reader searches
  store,      \* embedding_store: per URL, the page whose embedding it has
  rows,       \* documents a migration holds in memory
  pending,    \* writer_pending
  committer,  \* what the committer took from pending, 0 while it sleeps
  kills       \* history: kills of a process

indexerVars == <<phase, schema, live, committed, visible, store, rows, pending, committer>>

Ids(docs) == {d.id : d \in docs}
NoStore == [u \in Urls |-> NoPage]

IndexerInit ==
  /\ phase = "down"
  /\ schema \in {"current", "embedding", "other"}
  /\ live = OldDocs /\ committed = OldDocs /\ visible = {}
  /\ store = NoStore
  /\ rows = {}
  /\ pending = 0 /\ committer = 0

-------------------------------------------------------------------------------
(* Ingest, with the writer's mutex held from the first change to the last. *)

\* The loop of handle_ingest_batch deletes and inserts per document: of a URL that
\* is more than once in the batch the last document stays.
Latest(batch) ==
  {batch[i] : i \in {i \in DOMAIN batch :
     \A j \in DOMAIN batch : j > i => batch[j].page.url # batch[i].page.url}}

\* Mutant: the old document is not deleted.
UpsertedAdding(docs, batch) == docs \cup ToSet(batch)

Upserted(docs, batch) ==
  {d \in docs : \A e \in ToSet(batch) : e.page.url # d.page.url} \cup Latest(batch)

\* Mutant: the embedding is removed after the new one was inserted.
EmbeddedRemovingLast(batch) ==
  [u \in Urls |-> IF \E d \in ToSet(batch) : d.page.url = u THEN NoPage ELSE store[u]]

\* The store of embeddings after a batch.
EmbeddedAfter(batch) ==
  [u \in Urls |->
     IF \E d \in Latest(batch) : d.page.url = u
     THEN LET d == CHOOSE d \in Latest(batch) : d.page.url = u IN
          IF d.emb THEN d.page ELSE NoPage
     ELSE store[u]]

\* handle_ingest, and handle_ingest_batch with replace_existing.
Ingest(batch) ==
  /\ phase = "up"
  /\ live' = Upserted(live, batch)
  /\ store' = EmbeddedAfter(batch)
  /\ pending' = pending + Len(batch)
  /\ UNCHANGED <<phase, schema, committed, visible, rows, committer, kills>>

-------------------------------------------------------------------------------
(* The committer; pending is taken before the mutex is.                    *)

Swap ==
  /\ phase = "up" /\ committer = 0 /\ pending > 0
  /\ committer' = pending
  /\ pending' = 0
  /\ UNCHANGED <<phase, schema, live, committed, visible, store, rows, kills>>

Commit ==
  /\ phase = "up" /\ committer > 0
  /\ committed' = live
  /\ committer' = 0
  /\ UNCHANGED <<phase, schema, live, visible, store, rows, pending, kills>>

\* Mutant: a failed commit is not counted again.
CommitFailsForgetting ==
  /\ phase = "up" /\ committer > 0
  /\ committer' = 0
  /\ UNCHANGED <<phase, schema, live, committed, visible, store, rows, pending, kills>>

CommitFails ==
  /\ phase = "up" /\ committer > 0
  /\ pending' = pending + committer
  /\ committer' = 0
  /\ UNCHANGED <<phase, schema, live, committed, visible, store, rows, kills>>

\* The reader reloads a moment after a commit.
Reload ==
  /\ phase = "up" /\ visible # committed
  /\ visible' = committed
  /\ UNCHANGED <<phase, schema, live, committed, store, rows, pending, committer, kills>>

-------------------------------------------------------------------------------
(* The start: open_or_create_index_robust.                                 *)

Open ==
  /\ phase = "down" /\ schema = "current"
  /\ phase' = "up"
  /\ visible' = committed
  /\ UNCHANGED <<schema, live, committed, store, rows, pending, committer, kills>>

\* The columns the migration copies are the URL, the texts, the timestamp and the
\* authority: neither the price nor the embedding.
TextOnly(d) == [d EXCEPT !.price = {}, !.emb = FALSE]

\* The documents are read; then the directory is removed, and with it the
\* embeddings below it, and an empty index of the new schema is created.
MigrationBegins ==
  /\ phase = "down" /\ schema = "embedding"
  /\ phase' = "migrating"
  /\ rows' = {TextOnly(d) : d \in committed}
  /\ live' = {} /\ committed' = {} /\ store' = NoStore
  /\ schema' = "current"
  /\ UNCHANGED <<visible, pending, committer, kills>>

MigrationEnds ==
  /\ phase = "migrating"
  /\ phase' = "up"
  /\ live' = rows /\ committed' = rows /\ visible' = rows
  /\ rows' = {}
  /\ UNCHANGED <<schema, store, pending, committer, kills>>

\* A schema that cannot be migrated, an index that cannot be opened, or a rebuild
\* that fails: the directory is removed and an empty index takes its place.
Recreate ==
  /\ phase = "migrating" \/ (phase = "down" /\ schema # "current")
  /\ phase' = "up"
  /\ schema' = "current"
  /\ live' = {} /\ committed' = {} /\ visible' = {} /\ store' = NoStore
  /\ rows' = {}
  /\ UNCHANGED <<pending, committer, kills>>

\* The process is killed; the embeddings are on disk as soon as they are stored.
KillIndexer ==
  /\ kills < MaxKills /\ phase # "down"
  /\ kills' = kills + 1
  /\ phase' = "down"
  /\ live' = committed /\ visible' = {}
  /\ rows' = {}
  /\ pending' = 0 /\ committer' = 0
  /\ UNCHANGED <<schema, committed, store>>

IndexerNext ==
  \/ Swap \/ Commit \/ CommitFails \/ Reload
  \/ Open \/ MigrationBegins \/ MigrationEnds \/ Recreate
  \/ KillIndexer

\* The committer's loop and the reader run on their own; a commit that is tried
\* every two seconds does not fail for ever; an indexer that is down is started.
IndexerFairness ==
  /\ WF_<<indexerVars, kills>>(Swap)
  /\ SF_<<indexerVars, kills>>(Commit)
  /\ WF_<<indexerVars, kills>>(Reload)
  /\ WF_<<indexerVars, kills>>(Open \/ MigrationBegins \/ MigrationEnds \/ Recreate)
===============================================================================
