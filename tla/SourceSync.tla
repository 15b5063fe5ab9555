----------------------------- MODULE SourceSync -----------------------------
(***************************************************************************)
(* Conditional synchronisation of the event feed (sync.py) into the SQLite *)
(* event catalog (storage.py).  Several processes (the web application,    *)
(* the scheduled worker, the command line) synchronise one or more         *)
(* databases; every one of them shares a single on-disk HTTP cache, which  *)
(* holds the validators and the text of the last download.                 *)
(***************************************************************************)
EXTENDS FiniteSets, Naturals

CONSTANTS
  Runner,       \* the processes that may synchronise (one slot each)
  Database,     \* the SQLite files
  DbOf,         \* the database each runner opens
  Development,  \* databases served by an application that may be cleared
  Crashable,    \* runners that may be killed between two steps
  Event,        \* event identifiers
  Payload,      \* what a stored row says about its event
  Version,      \* the documents the feed may serve, named by their hash
  Tagged,       \* the versions that the server sends with a validator
  Malformed,    \* the versions that are not a readable table
  Body,         \* the rows of each version
  FirstRow,     \* the row of each version that is written first
  None          \* an absent row, validator, hash or document

Row == Payload \cup {None}
NoRows == [e \in Event |-> None]
Tag == Version \cup {None}
Snapshot == [etag : Tag, hash : Tag]

\* A database (or a cache) without a snapshot: a stored one always has a hash.
NoSnapshot == [etag |-> None, hash |-> None]

ASSUME ConstantsAssumption ==
  /\ DbOf \in [Runner -> Database]
  /\ Development \subseteq Database
  /\ Crashable \subseteq Runner
  /\ Tagged \subseteq Version
  /\ Malformed \subseteq Version
  /\ Body \in [Version -> [Event -> Row]]
  /\ FirstRow \in [Version -> Event]
  /\ None \notin Version
  /\ None \notin Payload

\* A version with rows really has its first row.
ASSUME FirstRowAssumption ==
  \A v \in Version : Body[v] # NoRows => Body[v][FirstRow[v]] # None

VARIABLES
  feed,        \* the version the source currently serves
  catalog,     \* per database: the stored row of every event
  snapshot,    \* per database: the stored source snapshot
  metaCache,   \* shared cache: validator and hash of the last download
  bodyCache,   \* shared cache: the document of the last download
  pc,          \* per runner: the next step of sync_source
  request,     \* per runner: request_snapshot
  tag,         \* per runner: the validator to be stored
  body,        \* per runner: the document to be applied
  downloaded,  \* per runner: whether the document came with the response
  seen         \* per runner: the first row as read before the transaction

local == <<request, tag, body, downloaded, seen>>
shared == <<catalog, snapshot, metaCache, bodyCache>>
vars == <<feed, shared, pc, local>>

Stage == {"idle", "lookup", "request", "notModified", "touch", "parse",
          "write", "cacheSnapshot", "cacheBody"}

TypeOK ==
  /\ feed \in Version
  /\ catalog \in [Database -> [Event -> Row]]
  /\ snapshot \in [Database -> Snapshot]
  /\ metaCache \in Snapshot
  /\ bodyCache \in Tag
  /\ pc \in [Runner -> Stage]
  /\ request \in [Runner -> Snapshot]
  /\ tag \in [Runner -> Tag]
  /\ body \in [Runner -> Tag]
  /\ downloaded \in [Runner -> BOOLEAN]
  /\ seen \in [Runner -> Row]
  /\ \A r \in Runner :
       pc[r] \in {"parse", "write", "cacheSnapshot", "cacheBody"}
         => body[r] \in Version

Init ==
  /\ feed \in Version
  /\ catalog = [d \in Database |-> NoRows]
  /\ snapshot = [d \in Database |-> NoSnapshot]
  /\ metaCache = NoSnapshot
  /\ bodyCache = None
  /\ pc = [r \in Runner |-> "idle"]
  /\ request = [r \in Runner |-> NoSnapshot]
  /\ tag = [r \in Runner |-> None]
  /\ body = [r \in Runner |-> None]
  /\ downloaded = [r \in Runner |-> FALSE]
  /\ seen = [r \in Runner |-> None]

-----------------------------------------------------------------------------
\* Control of one runner.  A local that the code no longer reads is reset,
\* which tells the checker that its old value does not matter.

Goto(r, from, to) == pc[r] = from /\ pc' = [pc EXCEPT ![r] = to]

\* sync_source returns or raises: its local variables are gone.
Leave(r) ==
  /\ pc' = [pc EXCEPT ![r] = "idle"]
  /\ request' = [request EXCEPT ![r] = NoSnapshot]
  /\ tag' = [tag EXCEPT ![r] = None]
  /\ body' = [body EXCEPT ![r] = None]
  /\ downloaded' = [downloaded EXCEPT ![r] = FALSE]
  /\ seen' = [seen EXCEPT ![r] = None]

-----------------------------------------------------------------------------
\* The request.

ReadSnapshot(r) ==
  /\ Goto(r, "idle", "lookup")
  /\ request' = [request EXCEPT ![r] = snapshot[DbOf[r]]]
  /\ UNCHANGED <<feed, shared, tag, body, downloaded, seen>>

ReadCachedSnapshot(r) ==
  /\ Goto(r, "lookup", "request")
  /\ request' = [request EXCEPT ![r] = IF @ = NoSnapshot THEN metaCache ELSE @]
  /\ UNCHANGED <<feed, shared, tag, body, downloaded, seen>>

\* The next, if the validator already known is preferred.
StaleTag(v, asked) == IF asked # None THEN asked ELSE v

\* The validator that the server sends, or else the one that was asked with.
StoredTag(v, asked) == IF v \in Tagged THEN v ELSE asked

\* The tag the source answers 304 to.
Matches(asked) == feed \in Tagged /\ asked = feed

RequestFails(r) ==
  /\ pc[r] = "request"
  /\ Leave(r)
  /\ UNCHANGED <<feed, shared>>

NotModified(r) ==
  /\ Goto(r, "request", "notModified")
  /\ Matches(request[r].etag)
  /\ tag' = [tag EXCEPT ![r] = StoredTag(feed, request[r].etag)]
  /\ UNCHANGED <<feed, shared, request, body, downloaded, seen>>

Download(r) ==
  /\ Goto(r, "request", "parse")
  /\ ~ Matches(request[r].etag)
  /\ tag' = [tag EXCEPT ![r] = StoredTag(feed, request[r].etag)]
  /\ body' = [body EXCEPT ![r] = feed]
  /\ downloaded' = [downloaded EXCEPT ![r] = TRUE]
  /\ request' = [request EXCEPT ![r] = NoSnapshot]
  /\ UNCHANGED <<feed, shared, seen>>

-----------------------------------------------------------------------------
\* 304: the cached document is applied again; without one only the snapshot
\* is refreshed.

ReadCachedBody(r) ==
  /\ \/ /\ bodyCache = None
        /\ Goto(r, "notModified", "touch")
        /\ UNCHANGED <<body, request>>
     \/ /\ bodyCache # None
        /\ Goto(r, "notModified", "parse")
        /\ body' = [body EXCEPT ![r] = bodyCache]
        /\ request' = [request EXCEPT ![r] = NoSnapshot]
  /\ UNCHANGED <<feed, shared, tag, downloaded, seen>>

TouchSnapshot(r) ==
  /\ pc[r] = "touch"
  /\ snapshot' = [snapshot EXCEPT
                    ![DbOf[r]] = [etag |-> tag[r], hash |-> request[r].hash]]
  /\ Leave(r)
  /\ UNCHANGED <<feed, catalog, metaCache, bodyCache>>

\* The write of the snapshot alone fails.
TouchFails(r) ==
  /\ pc[r] = "touch"
  /\ Leave(r)
  /\ UNCHANGED <<feed, shared>>

-----------------------------------------------------------------------------
\* The document is parsed and stored in one transaction.

ParseFails(r) ==
  /\ pc[r] = "parse"
  /\ body[r] \in Malformed
  /\ Leave(r)
  /\ UNCHANGED <<feed, shared>>

\* The lookup of the first event precedes the BEGIN that its INSERT or UPDATE
\* issues, so its answer may be old when the transaction holds the write lock.
ReadFirstRow(r) ==
  /\ Goto(r, "parse", "write")
  /\ body[r] \notin Malformed
  /\ seen' = [seen EXCEPT ![r] = catalog[DbOf[r]][FirstRow[body[r]]]]
  /\ UNCHANGED <<feed, shared, request, tag, body, downloaded>>

\* The first row after its write: an UPDATE matches no row that is gone, and
\* leaves the stored payload alone when the lookup saw no difference.
FirstRowAfter(stored, old, new) ==
  IF old # None /\ (stored = None \/ old = new) THEN stored ELSE new

\* Reconciled without the protection against an empty version.
WipingReconciled(rows, v, old) ==
  [Body[v] EXCEPT ![FirstRow[v]] = FirstRowAfter(rows[FirstRow[v]], old, @)]

\* Reconciled without the deletion of the rows that v does not have.
KeepingReconciled(rows, v, old) ==
  [e \in Event |-> IF Body[v][e] = None THEN rows[e]
                   ELSE IF e = FirstRow[v]
                          THEN FirstRowAfter(rows[e], old, Body[v][e])
                          ELSE Body[v][e]]

\* The catalog after the transaction: upsert of every row of v and deletion
\* of every other; a version without rows deletes nothing.
Reconciled(rows, v, old) ==
  IF Body[v] = NoRows THEN rows
  ELSE [Body[v] EXCEPT ![FirstRow[v]] =
          FirstRowAfter(rows[FirstRow[v]], old, @)]

\* The INSERT of a row that another transaction inserted meanwhile.
InsertConflict(rows, v, old) ==
  Body[v] # NoRows /\ old = None /\ rows[FirstRow[v]] # None

Commit(r) ==
  LET d == DbOf[r] IN
  /\ Goto(r, "write", "cacheSnapshot")
  /\ ~ InsertConflict(catalog[d], body[r], seen[r])
  /\ catalog' = [catalog EXCEPT ![d] = Reconciled(@, body[r], seen[r])]
  /\ snapshot' = [snapshot EXCEPT ![d] = [etag |-> tag[r], hash |-> body[r]]]
  /\ downloaded' = [downloaded EXCEPT ![r] = FALSE]
  /\ seen' = [seen EXCEPT ![r] = None]
  /\ UNCHANGED <<feed, metaCache, bodyCache, request, tag, body>>

\* A rollback that does not cover the snapshot.
PartialRollback(r) ==
  /\ pc[r] = "write"
  /\ snapshot' = [snapshot EXCEPT ![DbOf[r]] =
                    [etag |-> tag[r], hash |-> body[r]]]
  /\ Leave(r)
  /\ UNCHANGED <<feed, catalog, metaCache, bodyCache>>

\* A lock that stays busy, an insert conflict or a full disk: all is undone.
Rollback(r) ==
  /\ pc[r] = "write"
  /\ Leave(r)
  /\ UNCHANGED <<feed, shared>>

-----------------------------------------------------------------------------
\* After the commit: two separate writes to the shared cache.

SaveCachedSnapshot(r) ==
  /\ Goto(r, "cacheSnapshot", "cacheBody")
  /\ metaCache' = [etag |-> tag[r], hash |-> body[r]]
  /\ UNCHANGED <<feed, catalog, snapshot, bodyCache, local>>

\* The document is written only the first time.
SaveFirstCachedBody(r) ==
  /\ pc[r] = "cacheBody"
  /\ bodyCache' = IF bodyCache = None THEN body[r] ELSE bodyCache
  /\ Leave(r)
  /\ UNCHANGED <<feed, catalog, snapshot, metaCache>>

SaveCachedBody(r) ==
  /\ pc[r] = "cacheBody"
  /\ bodyCache' = body[r]
  /\ Leave(r)
  /\ UNCHANGED <<feed, catalog, snapshot, metaCache>>

-----------------------------------------------------------------------------
\* The environment and the operator.

Publish(v) ==
  /\ v # feed
  /\ feed' = v
  /\ UNCHANGED <<shared, pc, local>>

Crash(r) ==
  /\ r \in Crashable
  /\ pc[r] # "idle"
  /\ Leave(r)
  /\ UNCHANGED <<feed, shared>>

\* The settings page of a development application; it takes no sync lock.
ClearDatabase(d) ==
  /\ d \in Development
  /\ catalog' = [catalog EXCEPT ![d] = NoRows]
  /\ snapshot' = [snapshot EXCEPT ![d] = NoSnapshot]
  /\ UNCHANGED <<feed, metaCache, bodyCache, pc, local>>

\* `sync --clear-cache' empties the shared cache before its own sync.
ClearSyncCache(r) ==
  /\ pc[r] = "idle"
  /\ metaCache' = NoSnapshot
  /\ bodyCache' = None
  /\ UNCHANGED <<feed, catalog, snapshot, pc, local>>

Answered(r) == NotModified(r) \/ Download(r)

SyncStep(r) ==
  \/ ReadSnapshot(r) \/ ReadCachedSnapshot(r)
  \/ RequestFails(r) \/ NotModified(r) \/ Download(r)
  \/ ReadCachedBody(r) \/ TouchSnapshot(r) \/ TouchFails(r)
  \/ ParseFails(r) \/ ReadFirstRow(r) \/ Commit(r) \/ Rollback(r)
  \/ SaveCachedSnapshot(r) \/ SaveCachedBody(r)

Next ==
  \/ \E r \in Runner : SyncStep(r) \/ Crash(r) \/ ClearSyncCache(r)
  \/ \E v \in Version : Publish(v)
  \/ \E d \in Database : ClearDatabase(d)

\* A timer starts every runner again and again and a started sync goes on;
\* the network and the disk may fail, but not every time.
Fairness ==
  \A r \in Runner :
    /\ WF_vars(SyncStep(r))
    /\ SF_vars(Answered(r))
    /\ SF_vars(Commit(r))

Spec == Init /\ [][Next]_vars
FairSpec == Spec /\ Fairness

-----------------------------------------------------------------------------
\* What the synchronisation promises.

\* One runner synchronises d, and no one clears d.
Exclusive(d) ==
  /\ d \notin Development
  /\ \A r, s \in Runner : DbOf[r] = d /\ DbOf[s] = d => r = s

\* Whatever crashes, overlaps or is cleared: the stored rows of a database
\* are those of one version of the feed, never a mixture of two, except that
\* the first row may be torn.  It is the row whose lookup escapes the
\* transaction of _sync_payload_from_text (see ReadFirstRow).
TornOnlyInFirstRow ==
  \A d \in Database : catalog[d] # NoRows =>
    \E v \in Version : \A e \in Event \ {FirstRow[v]} : catalog[d][e] = Body[v][e]

\* Events and snapshot of a database with a single runner are committed
\* together: the content hash that is stored names the rows that are stored,
\* through crashes, failed writes, cache clears and the syncs of other
\* databases that share the cache.
CatalogMatchesHash ==
  \A d \in Database :
    LET h == snapshot[d].hash IN
    Exclusive(d) /\ catalog[d] # NoRows =>
      h # None /\ (Body[h] # NoRows => catalog[d] = Body[h])

\* What the only runner of a database remembers of it is still true.
InFlight(r) ==
  LET d == DbOf[r] IN
  Exclusive(d) =>
    /\ pc[r] = "lookup" => request[r] = snapshot[d]
    /\ pc[r] \in {"request", "notModified", "touch"} =>
         snapshot[d] = NoSnapshot \/ request[r] = snapshot[d]
    /\ pc[r] = "write" => seen[r] = catalog[d][FirstRow[body[r]]]

\* The inductive form of CatalogMatchesHash.
SyncInv == TypeOK /\ CatalogMatchesHash /\ \A r \in Runner : InFlight(r)

\* The validator of the next conditional request is that of the stored rows:
\* "changed since E2?" is only asked by a database that holds the rows of E2.
ValidatorDescribesCatalog ==
  \A d \in Database :
    LET t == snapshot[d].etag IN
    t # None => Body[t] = NoRows \/ catalog[d] = Body[t]

\* A 304 answer to the database's own validator changes no event.
MatchingEtagChangesNothing ==
  [][\A r \in Runner :
       /\ pc[r] = "write" /\ pc'[r] = "cacheSnapshot"
       /\ ~ downloaded[r]
       /\ snapshot[DbOf[r]] # NoSnapshot
       => catalog'[DbOf[r]] = catalog[DbOf[r]]]_vars

\* Both hold only where one process alone uses the cache and every version is
\* sent with a validator ...
SoleRunner ==
  /\ Tagged = Version
  /\ \A r, s \in Runner : r = s

\* ... and where a sync that has committed finishes its writes to the cache,
\* and no database is cleared during a sync.
UndisturbedStep ==
  /\ \A r \in Runner : pc[r] = "cacheSnapshot" => pc'[r] # "idle"
  /\ \A r \in Runner :
       pc[r] = "cacheBody" /\ pc'[r] = "idle" => bodyCache' = body[r]
  /\ (\E d \in Database : ClearDatabase(d)) => \A r \in Runner : pc[r] = "idle"
Undisturbed == [][UndisturbedStep]_vars

\* A validator is stored with the hash of its own document, and cached beside
\* that document.
ValidatorsNameDocuments ==
  /\ \A d \in Database : snapshot[d].etag = snapshot[d].hash
  /\ metaCache.etag = metaCache.hash

\* What the sole runner relies on at each step: the database and the cache
\* agree until it commits, and again once it has written the cache.
CacheAgrees(r) ==
  LET d == DbOf[r]
      known == IF snapshot[d] = NoSnapshot THEN metaCache ELSE snapshot[d]
  IN
  /\ pc[r] \notin {"cacheSnapshot", "cacheBody"} =>
       /\ metaCache.hash = bodyCache
       /\ snapshot[d] # NoSnapshot => bodyCache \in {None, snapshot[d].hash}
  /\ pc[r] = "lookup" => request[r] = snapshot[d]
  /\ pc[r] \in {"request", "notModified", "touch"} => request[r] = known
  /\ pc[r] \in {"notModified", "touch"} => tag[r] = known.etag /\ tag[r] # None
  /\ pc[r] = "touch" => bodyCache = None
  /\ pc[r] \in {"parse", "write"} => tag[r] = body[r]
  /\ pc[r] \in {"parse", "write"} /\ ~ downloaded[r] => body[r] = bodyCache
  /\ pc[r] = "write" => seen[r] = catalog[d][FirstRow[body[r]]]
  /\ pc[r] \in {"cacheSnapshot", "cacheBody"} =>
       tag[r] = body[r] /\ snapshot[d] = [etag |-> body[r], hash |-> body[r]]
  /\ pc[r] = "cacheBody" => metaCache = snapshot[d]

\* The inductive form of ValidatorDescribesCatalog.
CacheInv ==
  /\ TypeOK
  /\ ValidatorsNameDocuments
  /\ ValidatorDescribesCatalog
  /\ \A r \in Runner : CacheAgrees(r)

\* When the feed settles on a readable version with rows, every catalog
\* becomes that version and stays so.
Convergence ==
  \A v \in Version \ Malformed : Body[v] # NoRows =>
    (<>[](feed = v) => <>[](\A d \in Database : catalog[d] = Body[v]))

\* The catalog that the rest of the application reads, see PublishedCatalog:
\* for a database with one runner every change is the replacement of the whole
\* catalog by one version with rows; it is never partial and never a wipe.
ExclusiveDatabase == {d \in Database : Exclusive(d)}
Published == INSTANCE PublishedCatalog WITH
               Database <- ExclusiveDatabase,
               catalog <- [d \in ExclusiveDatabase |-> catalog[d]]
PublishedSpec == Published!Spec
=============================================================================
