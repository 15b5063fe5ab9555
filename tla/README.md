# Berlin Events Explorer: TLA+ models and proofs

Berlin Events Explorer collects a public feed of events into SQLite, completes it with
venues (Nominatim) and artists (MusicBrainz), lets editors review what the providers
suggest, and serves the result as a web application. Three kinds of processes work on the
same files at once: the web application, a worker that a timer starts, and the command
line. Hardly anything is locked between them. These modules model what the processes do to
the shared state, TLC checks small instances, and TLAPS proves the central invariants for
all instances.

Paths below are relative to `src/berlin_events_explorer/` unless they say otherwise.

## The system

| Component | State | Operations | Hard behaviour |
| --- | --- | --- | --- |
| Feed synchronisation (`sync.py`, `storage.py`) | event rows, source snapshot (validator, hash), shared HTTP cache (validator, document) | `sync_source`, `clear_sync_cache`, `clear_application_data` | processes overlap; crash between commit and cache writes; two databases share one cache |
| Artist catalog and review (`artists.py`, `artist_ingestion.py`, `webapp.py`) | artist rows, candidates, cached answers | `bootstrap_artist_catalog`, `enrich_artists`, `discover_artist`, `approve_artist` | whole records written back long after they were read; passes with an old map of the catalog; unique identity; batches that must go on after failures |
| MusicBrainz pacing (`artist_enrichment.py`) | `pacer.sqlite` | `_RequestPacer.reserve`, retries | slots across processes, killed sleepers, retries |
| Venue catalog and review (`venues.py`, `venue_ingestion.py`, `webapp.py`) | venue rows, candidates, links from events | `bootstrap_venue_catalog`, `ingest_new_event_venues`, `discover_venue`, `approve_venue` | a single lookup per venue, renames, overlapping passes |
| Artist links (`artist_homepage_ingestion.py`) | metadata rows | `enrich_artist_homepages` | three transactions per artist |
| Accounts (`auth.py`, `webapp.py`, `storage.py`) | users, tokens, sessions | invitations, resets, roles, deactivation | tokens read long before they are marked; administrators acting on each other |
| Worker and sync control (`worker.py`, `webapp.py`) | `worker_runs`, sync lock, progress stream | `run_worker`, `perform_sync`, `_perform_sync_stream` | crash during a run, failure paths of the stream |
| Event details, performers (`event_details*.py`, `event_research_augmentation.py`, `performer_title_augmentation.py`) | one detail row per event; performers in the event row | bounded augmentation passes | overwritten by the next sync; passes that start with the same events again |
| Listing of events (`webapp.py`, `query_events`) | settings of the site and of accounts | tabs, search, pages, the page of a day | two queries per page, one request per page, anything in the URL |
| Theme, command line, migrations | none of their own | rendering, argument parsing | - |

The components call each other in one pipeline (`sync_source_and_ingest_venues`): feed, then
performers, then venues, then artists; the worker adds artist lookups and homepages. Editors
and administrators act through the web application at any time in between.

### What makes each component correct

* Feed synchronisation: the hash, the validator and the rows of a database describe one
  version of the feed; an answer "not modified" changes no event; a failed or killed sync
  leaves a whole version; the catalog follows the feed in the end.
* Artist review: an identity belongs to one verified artist; no stale copy of a batch or an
  editor makes a decided artist new; every reachable artist is decided in the end.
* Pacing: in any interval of time all processes send at most one request per least interval,
  late ones come closer by their delay only; no slot is skipped.
* Venues: an identifier is not given away twice; a pass changes only what it created; a queued
  venue has suggestions; events end up at a venue of their name.
* Accounts: an invitation creates one account at most; a used link is refused; the last
  administrator can only go when two requests overlap.
* Artist links: a verified artist gets all its links once, through crashes.
* Worker and sync control: at most one sync per process; the row of a run tells how it ended
  if that could be written; every progress stream ends with an outcome.
* Event details and performers: an overlay goes with its event; one fetch per page; what stale
  writes damage is healed by a later sync.
* Listing: the page exists whatever was asked for; who follows the links sees every event;
  no event that goes on or is to come is in none of the lists.

## Modules

| Module | Models | Status |
| --- | --- | --- |
| `SourceSync.tla` | `sync_source`, its transaction and the shared cache | done |
| `PublishedCatalog.tla` | the abstract catalog that pages may assume | done |
| `SourceSyncProofs.tla` | theorems about `SourceSync` | done |
| `ArtistReview.tla` | artist records, batches, editors | done |
| `ArtistReviewProofs.tla` | theorems about `ArtistReview` | done |
| `VenueCatalog.tla` | venues, catalogue passes, lookups, editors | done |
| `VenueCatalogProofs.tla` | theorems about `VenueCatalog` | done |
| `RequestPacer.tla` | pacing across processes | done |
| `RequestPacerProofs.tla` | theorems about `RequestPacer` | done |
| `Accounts.tla`, `AccountsProofs.tla` | links by mail, accounts, sessions, administrators | done |
| `SyncControl.tla` | the sync lock, the scheduled loop, the progress stream | done |
| `RunnerSlot.tla` | the abstract runner that `SourceSync` assumes of a process | done |
| `WorkerRuns.tla`, `WorkerRunsProofs.tla` | runs of the worker, links of artists | done |
| `EventOverlays.tla`, `EventOverlaysProofs.tla` | performers, tags and details between syncs | done |
| `EventListing.tla` | the pages of one visitor | done |
| `WebProofs.tla` | theorems about `SyncControl` and `EventListing`, the two parts of the web application | done |
| `MC*.tla` | finite values of the constants | done |

### SourceSync

`catalog` and `snapshot` are the tables `events` and `source_snapshots` of each database,
`metaCache` and `bodyCache` the two entries of the shared disk cache, `feed` the version the
source serves. Per process, `pc` is the step of `sync_source` and `request`, `tag`, `body`,
`downloaded`, `seen` are its locals; a local that is not read again is reset. Each action is
one access to shared state: reading the snapshot, reading the cached one, the request (200,
304 or a failure), the cached document, the transaction, and the two writes to the cache
after it. Three points are easy to overlook in the code:

* The transaction begins with the first INSERT or UPDATE, not with the first SELECT
  (pysqlite), so the lookup of the first event (`ReadFirstRow`) may be old when the write
  lock is granted. `FirstRowAfter` and `InsertConflict` are the consequences.
* The validator comes from the shared cache when the database has none.
* A version without rows deletes nothing.

A version stands for its content hash. `etag` and `last_modified` are folded into one
validator; versions outside `Tagged` come without one. Failures
of the disk are those before the commit; the writes to the cache after it (`sync.py:230`) may
raise as well, which leaves the same state as a kill at that point and is excluded with it from
`SyncExclusive`. Left out: eviction by the disk cache, and performers that another process adds
to event rows between two syncs.

### ArtistReview

`record` is the row of an artist reduced to status, identity and whether it was checked;
`candidates` the stored suggestions; `cache` the shared answers. An actor is a process that
runs passes over the events (`Ingesting`) or batches (`Worker`; most do both, one after the
other), or an editor's session (`Editor`); `copy` is the list of records it read and still
holds, `found` the answer of its last lookup. The point of the module is `copy`. A pass reads
the whole catalog once (`StartPass`), and an artist that it does not find there is new to it:
`NewArtist` writes a fresh record, also over one that another pass has recorded and a batch or
an editor has decided since, as `upsert_artist` does; `Reclassify` writes what it read with
another status. `NoMatch`, `Queue`, `Requeue` and `SaveEdit` write a record back as it was
read. `Exact` folds the normalised name and the score threshold into one set. The command
line's `--refresh` is `Refreshing`. An artist is a normalized name: two names whose slugs
differ only by the number that `_unique_artist_id` appends are taken to get the same
identifiers in every pass. Placeholders may be there unresolved at first, from before their
pattern was known. A row that another pass has inserted between the SELECT and the INSERT of
`upsert_artist` ends the pass (`Abandon`). Left out: renaming an artist, after which its old
name is a new artist; the links from events, provenance rows, `clear_application_data`; the
status `rejected` is never assigned by the code.

### VenueCatalog

`label` is the venue name of each event row, `link` the table `event_venues`, `venue` and
`candidates` the rows of a venue and its suggestions. A pass (`ingest_new_event_venues`, or
`bootstrap_venue_catalog` alone for the processes in `Bootstrap`) reads four lists one after
the other, `earlier` (`existing_ids`), `byName` (`venues_by_normalized_name`), `todo` (the
events) and `linked` (`event_venue_ids`), and then writes venues and links from them; after
that it reads the venues again and works through those that are new, holding `copy` of each.
An editor's request holds a copy of one venue.

* A name is a label, its normalized form; an identifier is a pair of the slug of a label and
  the number that makes it unused. Labels may share a slug ("Club A", "Club-A").
* Of venues with one normalized name `byName` keeps one, whichever comes last by display
  name; the model leaves open which.
* `upsert_venue` replaces the row of the same identifier, whatever it holds.
* The order of events and of new venues is left open; the code's is by date and by name.
* `select_venue_candidate` is one action. The code reads the venue on a second connection
  before its transaction writes anything; a commit in this gap, which no call to a provider
  widens, is left out.
* A failed lookup in an editor's request, a unique constraint, a foreign key of a deleted
  event and a kill are all `Abandon`, which leaves what was committed.

Left out: provenance rows and descriptive fields, a limit above one for `venues discover`,
and `clear_application_data`. The status `rejected` is never assigned by the code.

### RequestPacer

`next` is the single row of `provider_pacing`; the absent row equals one in the past. A request
is `Ask` (the clock is read), `Reserve` (one immediate transaction and the start of the sleep,
which is measured from the old clock), `Send`, and then `Done`, or `Refused` and `Retry` with a
reservation of its own. `Abandon` is a kill or a lock that stays busy. The variables under
"History" only serve the properties. Time is integer seconds of one clock that does not step
back. `RateBound` is about the times at which requests are sent: for every interval, however
late it begins, and for every delay `late`, it bounds the requests that were sent in the
interval and no later than `late` after their slot (oversleeping, or a sleep that is longer
because the lock had to be waited for). With `late` = 0 this is one request per least interval;
a burst of late requests is allowed as far as the delay of the latest explains it, and no
further. `NoSlotSkipped` bounds slots and not the time that a client waits.
`clear_musicbrainz_cache`, which deletes the file, has no caller and is left out; so is
Nominatim's pacing, a field of one object of one process (`venue_enrichment.py:138`).

### Accounts

`account` is the table of users, `row` the table `auth_tokens` by rowid, `session` the
signed cookie of each browser. A request passes the guard with the account as it is at that
moment (`Authorize`, `actor`) and acts later; an invitation or a reset first deletes the older
links (`DeleteLinks`) and then writes the new one (`IssueLink`); a submission reads its link
(`Submit`), writes the account (`Join` or the new password) and marks the link (`MarkUsed`)
in three transactions. SQLite gives the highest rowid out again after its row was deleted, so
the rowid that is marked may belong to another link by then. `joined` and `done` are
history. Left out: passwords as such, display names and mail.

### SyncControl and RunnerSlot

`thread` is the thread of each sync, `locked` the `_SYNC_LOCK`, `loop` the scheduled loop,
`queue`, `stream` and `told` the progress queue, the generator and what the page was sent. The
process may be stopped (the server closes its streams first, and the interpreter waits for the
pool thread but not for daemon threads) or killed, and starts again. A page may go away at any
step; its thread goes on. What the generator does after its thread has ended, the last queries
and their rendering (`webapp.py:3724-3786`), does not fail in the model. `RunnerSlot` is the
link to `SourceSync`, where one runner stands for one process: whatever asks for a sync, at
most one is under way.

### WorkerRuns

A pass is `StartRun`, two phases that end or raise (their contents are `SourceSync`,
`VenueCatalog` and `ArtistReview`), and the batch of links: `List`, per artist a lookup (cached
or not) and for each of three fields a SELECT (`Find`) and an INSERT or UPDATE (`Write`), as
`save_artist_metadata` has it; two processes that find no row for the same link both insert,
and the unique constraint ends the later pass (`SaveRaises`). `enrich-homepages` runs the batch
alone. How a run ended is written last (`Recorded`), and the database may refuse that too; a
worker that is killed in its run, or could not write how it ended, leaves the row `running` and
is in `unrecorded`, a history variable. `run` is the row of the latest run of each worker. Left
out: manual values, reviews of single links.

### EventOverlays

`row` is an event reduced to its rendition, whether performers were extracted for it, and its
tags (its identifier is a hash of its title, so the renditions of an event have titles that
differ in case and spacing only and name the same performers); `overlay` the two tables of
details. A pass reads copies of its events (`StartTitles`, `ReadCreated`) or only their
identifiers (`StartOverlays`), asks a provider for each, and writes the whole copy back
(`WritePerformers`, `WriteRules`) or one overlay (`SaveOverlay`), over whatever a sync did
meanwhile. The page of an event without details starts a thread (`Visit`, `Fetch`,
`FetchStep`); its status is in the memory of the web application. A sync is atomic here, which
`SourceSync` proves of an exclusively used database (`PublishedCatalog`), and always has the
document that it writes, if only confirmed by a 304. Without a cached one a 304 writes nothing,
and with an old one it writes an old version (`sync.py:87-112`); `StaleWritesHeal` therefore
speaks of the conditions of `SyncExclusive`. `OverlaysHaveEvents` is the cascade of the foreign
keys, which also removes a verified link when its event is gone from the feed for one sync,
although `docs/event_details.md:10` says that a normal sync cannot erase one.

### EventListing

`request` is what the browser waits for, `view` what it shows. `Count` is the first query of
`query_events`, which decides on the page, `Show` the second, which reads it; a commit or
midnight may fall between them (`torn`). `Follow` are the links below the table, which carry
the page size; `walk` is history, the rows seen since the first page. Titles do not change and
instants are days. `Listed` gives each event the place after all that are `Before` it, as ORDER
BY does; no two have one place, as the identifier decides last. "Upcoming" leaves out what
started before today and still goes on (the docstring of `_upcoming_events` says so);
`StillReachable` says where that is found. Left out: the lists of venues and artists, the
calendar, HTML.

## What the runs show

| Run | Instance | Question |
| --- | --- | --- |
| `SyncExclusive` | 1 runner, 1 database, 4 versions (one empty, one unreadable), failures of network and disk, no kill | Does the validator sent describe the stored rows? Does a 304 leave the events alone? Does an empty feed wipe nothing? Does the catalog converge? |
| `SyncShared` | a development database with two runners and clears, a production database with one runner that may be killed, one cache, 2 versions, one without validator | Is only the first row ever torn? Do hash and rows of the production database stay together, and is each change a whole version (`PublishedSpec`)? |
| `ArtistOverlap` | 2 artists (one a placeholder), 2 identities, passes of the timer and of the web application, a batch and an editor | Does an identity belong to one verified artist? Is a pass that another one overtook the only way to become new again? |
| `ArtistBatch` | 2 artists, passes and batches of the timer and of a refreshing command line, one artist unreachable | Do approvals stand but for an overtaken pass? Is every reachable artist decided? |
| `VenueReview` | 2 events, 3 labels (one a placeholder), one place suggested for two venues; a pass, an editor who renames nothing, `venues accept` | Has a queued venue suggestions? Does a pass leave the venues alone that it did not create? |
| `VenueSettle` | 2 events, 2 labels with one slug, passes of the timer and of `venues bootstrap` | Do links heal after passes overlapped? |
| `PacerShared` | 3 clients, intervals 2 and 3, delays 1 and 3, 3 reservations, 5 seconds | Is the rate kept in every interval, with late wake-ups? Is no slot skipped? |
| `AccountLinks` | 2 addresses, 2 browsers, 2 roles, 2 links | Is an invitation good for one account? Is a used link refused? Who can take away the last administrator? |
| `SyncControl` | 2 pages, the scheduled loop, kills, stops, failures of each kind | Does the page learn how its sync ended? Does every stream end and the schedule go on? |
| `WorkerLinks` | 2 artists, one of them unknown to MusicBrainz, a worker and `enrich-homepages --refresh`, 2 answers, 1 kill, records that cannot be written | Does a run's row tell the truth? Do the three links agree, and do they arrive? |
| `EventOverlays` | 2 events, one of which changes and disappears; the command line (titles, rules, Ticketmaster) and a synchronising process, kills, 2 visits | Does no overlay outlive its event? Is there one fetch per page, and is it answered? Are stale writes healed? |
| `EventListing` | 3 events, one of two days, one with or without date; 3 days, 3 addresses out of and in bounds, sizes 1 and 2 | Does the page exist, with a true footer? Does paging miss nothing? |

### Behaviour the runs must exclude

The models have these behaviours, and a property that forbade them would be violated. The
instances above leave them out or the properties are stated around them:

* A process killed between the commit and the write of the document to the cache leaves an
  old document under a new validator; the next 304 applies it (`sync.py:239`). With
  `Crashable` = {worker} `SyncExclusive` violates `MatchingEtagChangesNothing`.
* A fresh database whose request falls between the two cache writes of another one gets a 304
  without a document and stores a snapshot without events (`sync.py:93`).
* A version that is sent without a validator is stored with the validator of the request
  (`sync.py:91`, `sync.py:180`); when the feed returns to the version which that one names, the
  304 keeps the newer rows. All versions of `SyncExclusive` have a validator.
* Two artists whose best suggestion is one identity: the unique constraint ends every
  batch at the second one (`artist_ingestion.py:77`), although `README.md:102-103` calls each
  batch resumable on the next run. `ArtistBatch` gives each its own identity.
* Two passes over the events that overlap (the timer, a button and `artists bootstrap` are not
  kept apart): the later writer replaces a record that was checked, queued or verified meanwhile
  by a new one (`artists.py:67`, `storage.py:1272`), and the artist is looked up again. The model
  does this; `NeverAskedAgain` and `ApprovalStands` name it as the only way (`Renewed`,
  and `Classified` for a record read before it was approved), and
  `DecidedForGood` holds when one process ingests.
* A stale copy of a batch or an editor may erase an approval or an edit made meanwhile: the
  artist is queued or unresolved-but-checked again, not new (`artist_ingestion.py:82`,
  `webapp.py:2412`); the same for the new venues of a pass and for a venue whose suggestions
  are refreshed (`venue_ingestion.py:120`, `webapp.py:2282`). Without an editor,
  `ApprovalStands` excludes it for artists; with one, it happens, and no document says which of
  the two should win.
* A renamed venue is created again under its old name, by the old identifier when another
  venue has taken the new name (`venues.py:49`, `venues.py:78`). Editors rename nothing in
  `VenueReview` (`Typed` is empty), and `PassKeepsEarlierVenues` assumes it.
* Every sync, also after a 304, writes each event as the source has it (`storage.py:985`), and
  takes performers away that were extracted since, while `docs/provider_integrations.md:87`
  promises that enriched events are skipped later. The model has it (`AsInSource`).
* Two administrators who demote each other at once leave none
  (`LastAdminLostOnlyByOverlap` names this as the only way), although
  `docs/superpowers/plans/2026-08-01-user-accounts.md:82` expects the ban on acting on one's own
  account to remove the "last admin" class of failures: for overlapping requests it does not.
* A failure of an unexpected kind is raised inside the progress stream, whose page is left with
  the state "syncing" (`webapp.py:3720`, named in `PageKnows`).

### Bounds and why they are enough

Two runners per database, or two databases per cache, produce every pair of overlapping
steps; a third adds no new kind of write. Two versions with rows that differ in an added, a
dropped and a changed event, plus one without rows and one unreadable, are all the cases the
parser and the transaction distinguish. Two artists let a batch hold the copy of one through
the lookup of the other, and the limit (2) is one more than the artists that cannot be looked
up; two identities are needed for a conflict. Two passes are what one needs to overtake another; the
third writer in `ArtistOverlap` is the editor. Two labels with one
slug are what makes two passes overwrite each other's venue; a third label only repeats it.
In `VenueReview` a third label, the placeholder, makes an event change between a venue and
none, and one place for two venues makes the unique constraint bite. Three clients and
three reservations let two sleepers queue behind a third, one of them killed, or a retry
join the end of the queue, and five seconds hold two least intervals and a client that oversleeps
by one. In `AccountLinks` two links are enough for a rowid that is given
out twice, and two browsers for every overlap of two requests. A queue of one progress update
(`MaxQueue`) still lets an update, a failure and the end wait together. One kill in
`WorkerLinks` ends a pass between any two steps, and a limit equal to the number of artists
keeps the hopeless one from filling the batch. In `EventOverlays` one event has a single
rendition and nobody visits its page, so that the interesting one can change, disappear and be
fetched for two visits at once. Three events on pages of one or two make up to three pages, and
on the third day the window of one day has an end. Symmetry is used only in `SyncShared`,
`PacerShared` and `AccountLinks`, which have no liveness property. The theorems do not
depend on any bound.

### Fairness

`SourceSync`: a timer starts each runner again (`deploy/*.timer`) and a started sync goes on
(WF); the request and the commit may fail any number of times but not for ever (SF), as both
depend on a network and a lock that recover. `ArtistReview`: only for the timer; its pass ends
and its started batch goes on (WF), a batch follows a pass unless the sync before it fails for
ever (SF on starting it), a lookup that happens again and again at an artist outside
`Unreachable` succeeds some time, and a batch is not killed at the same artist for ever (SF). A
batch from the command line and an editor get no fairness: they may never come. `VenueCatalog`:
a pass of the timer or of the web application goes on (WF) and is not stopped at the same step
of its catalogue for ever (SF on reading the lists and on each event, since a kill or a busy
database ends a pass that starts again later); the lookups need no such assumption, as links
are written before them. `venues bootstrap` and editors get no fairness. `EventsSettle` assumes
that passes stop overlapping some time: as long as two overlap again and again each may undo
the other. `EveryArtistDecided` needs fewer unreachable artists than the limit of a batch: a
failed lookup leaves no trace, so as many of them as the limit, first by name, would fill every
batch. `RequestPacer` has no fairness; how far ahead a slot may lie is stated as a safety
property. `SyncControl`: threads and generators go on and a sync ends (its requests have
timeouts, the lock of SQLite too), the clock reaches each interval and systemd starts the
process again (all WF); no page has to ask, and nothing has to fail. `WorkerRuns`: only the
worker of the timer; its own steps go on (WF), and a phase, the lookup of an identity that
MusicBrainz knows and the write of a field succeed some time when tried again and again (SF);
one that MusicBrainz does not know may fill a batch, hence fewer of them than the limit.
`EventOverlays`: passes, threads and the start of a fetch go on (WF), and the process in
`Scheduled` gets to synchronise again and again between its other work (SF). `Accounts` and
`EventListing` have no fairness: nobody has to ask for anything.

## What is proved

TLAPS checks, for every value of the constants that satisfies the assumptions of the module:

* `SourceSyncProofs`: `TypeCorrect`; `TornRowIsTheOnlyDamage` (inductive by itself: every
  transaction rewrites all rows but the first); `HashNamesTheStoredRows` and
  `SyncImplementsPublishedCatalog`, both from `SyncInv`. `CatalogMatchesHash` alone is not
  inductive: the runner in flight must still know the truth about its database (`InFlight`):
  the snapshot it read is the stored one, and the row it looked up is the stored row. This
  holds only for a database with one runner, hence `Exclusive`. `ValidatorOfTheStoredRows` and
  `MatchingEtagIsIdle` follow from `CacheInv`: at each step of its sync the runner knows how
  the cached document, the cached validator and the stored rows are related (`CacheAgrees`); after
  the commit, for instance, the document still to be cached is the one that the stored validator
  names. They assume that one process alone uses the cache and every version has a validator
  (`SoleRunner`), and behaviours without a kill between the commit and the cache and without a
  clear during a sync (`Undisturbed`). Without any one of these the relation breaks (see above).
  `UnattendedIsUndisturbed` shows that all behaviours of `SyncExclusive` are undisturbed.
* `ArtistReviewProofs`: `ReviewTypeCorrect`; `IdentityBelongsToOneVerifiedArtist` from
  `ReviewInv`, which adds what copies may contain (`CopiesConsistent`): a copy with an
  identity is verified, a batch only holds unresolved copies, and an editor about to requeue
  does not hold a verified one; `DecidedArtistsStayDecided`, but for a pass that another one
  overtook; `DecidedForGoodWithOnePass`, without that exception when one process ingests, from
  `PassesKnow`: what the only pass has not found is still not recorded; and, without editors and
  with stable answers, `UnattendedApprovalsStand` from `ApprovalRepeats`: a verified artist is
  the one that any batch would approve again.
* `VenueCatalogProofs`: `CatalogTypeCorrect`; `CandidatesHaveSuggestions` from `QueueInv`,
  which adds what copies know (`SuggestionsKnown`): whoever holds or is about to write the
  status `candidate` has seen suggestions, and suggestions are only replaced by others; and
  `PassKeepsEarlierVenues`, for a pass without overlap or renames, from `AloneInv`: names
  are unique, so the map of the pass has every stored venue, a created one gets an identifier
  that none has, and copies are of venues that are stored under the name the copy has. That
  names are unique is needed: after a rename it fails (see above).
* `RequestPacerProofs`: `PacerTypeCorrect`; `RateNeverExceeded` from `PacerInv`: any two slots
  are a least interval apart and before `next`, each is for one request, and none is sent
  before its slot. The requests of an interval that are at most `late` after their slots have
  slots in an interval longer by `late`, so that dividing their slots by the least interval is
  an injection into as many numbers as the bound allows (`SlotsInTime`).
  `NoSlotIsSkipped` from `WaitInv`: the slots to come that nobody has used form a chain up to
  the next slot, of which no link is longer than the slots in between allow (`Chain`). The
  slots before a sleeper's belong to sleepers (`Ahead`) or were lost (`LostAhead`), and counting
  them gives `NoSlotSkipped`. By itself the bound is not inductive: a reservation only sees the
  end of the queue.
* `AccountsProofs`: `AccountsTypeCorrect`; `InvitationsOnce` and `SpentRefused` from `LinkInv`,
  which adds that a secret names one row and one rowid while a submission holds it, that the
  address of a link that let someone in has an account, and that nothing is known of a
  secret before it is issued; `SpentByOwner` from the same; `LastAdminOverlap`, from the type
  alone, since a request never acts on its own account; and `LinksPerRequest`, by counting
  links and requests that are about to issue one.
* `WebProofs`, of `SyncControl`: `ControlTypeCorrect`; `PagesKnow` from `StreamInv`, which adds
  what the queue and the generator know of the outcome at each stage (`PageInv`); and
  `ImplementsRunner`: the threads refine `RunnerSlot`, from `LockInv`.
* `WebProofs`, of `EventListing`, which shares neither a name nor a variable with
  `SyncControl`: `ListingTypeCorrect`, `PagesExist`, `WalksSeeAll` and
  `NothingBetweenTheLists`, all from `ListingInv`. `WalkSeesAll` speaks of pages that are
  shown, so that it is not inductive: `NextOK` says what was seen when the next page has been
  asked for, also before and after the count, and `RequestOK` that the count is that of the
  table unless something has changed. Two lemmas carry the rest: `Places`, that the places of
  the events of a list are 1 to their number (an injection of a finite set into one of the same
  size), and `PartsFit`, that the rows of two adjacent pages are the rows of both.
  `ListIsComplete` says that a list has everything that its view selects, in its order and
  once, so that `WalksSeeAll` is about all of it. `WholeListSeen` joins the two: at the last
  page the visitor has seen every event that the view selects, and none twice
  (`PagesReachTheEnd`: the number of pages is rounded up).
* `WorkerRunsProofs`: `WorkerTypeCorrect`; `LinksOfOneAnswer`, from the order in which the rows of
  an artist are stored (`InOrder`) and what a pass that has an artist alone has stored
  (`SaveInv`); and `RunsTellWhatHappened` from `BatchInv`: each artist of a batch is waiting, being
  stored, complete, or counted as an error; a row is `running` without its worker only if that is
  in `unrecorded`.
* `EventOverlaysProofs`: `OverlaysTypeCorrect`; `NoOrphanOverlays`; and `NoSecondFetch` from
  `FetchTracked`: a thread at work has the status `fetching`.

Assumptions are the named `ASSUME`s of the modules, which TLC evaluates in the runs.

The type invariants of `SourceSync`, `Accounts`, `SyncControl`, `WorkerRuns` and
`EventOverlays` are proved and not checked again in the runs.

Only model-checked: liveness (`Convergence`, `EveryArtistDecided`, `EventsSettle`, `StreamEnds`,
`ScheduleGoesOn`, `LinksArrive`, `FetchAnswered`, `StaleWritesHeal`), which is out of the prover's
reach. Every safety property of the runs is a theorem.

## Not modelled

* Theme, HTML, the calendar, the lists of venues and artists: functions of what is stored.
* The command line's parsing, migrations (one process at start-up, Alembic's own bookkeeping),
  deployment files (read for what they say about timers and restarts).
* What providers answer: parsing of feeds and of results, scores, prompts. A lookup returns
  one of a few answers, a match or none, or fails.
* Settings other than the number of rows, validation of records, logs, mail.
* Provenance rows and manual values of venues and artists, which no decision reads except the
  page of an artist; names and renames of artists; links from events to artists.
* Pacing of Nominatim, one object per process with nothing shared.
* An artist that is verified without an identity, when a batch writes its old copy between
  `select_artist_candidate` and the read in `_save_edited_artist`, is a trace of `ArtistReview`
  that no run singles out.
* A fetch started by a page may replace a newer overlay of Ticketmaster by one with source
  links (`storage.py:1057`); the model has it, and no document says which should win.

Left for later work: the composition of `EventOverlays` with two runners that tear a row.

Assumption on the wall clock: `time.time()` set back would make all clients of the pacer wait
until the old time is reached again; the model assumes it is not.
