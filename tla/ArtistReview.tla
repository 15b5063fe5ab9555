---------------------------- MODULE ArtistReview ----------------------------
(***************************************************************************)
(* The canonical artist records and the three parties that write them:     *)
(* passes over the events after each sync, which record the artists that   *)
(* are new (artists.py); batches of the background worker or the command   *)
(* line, which ask MusicBrainz and approve a unique exact match            *)
(* (artist_ingestion.py); and editors, who refresh suggestions and approve *)
(* in the web application (webapp.py).  Nothing locks a record: each party *)
(* reads it, works for a while (a lookup waits for its turn at the         *)
(* provider) and then writes the whole record it once read, changed in a   *)
(* few fields.                                                             *)
(***************************************************************************)
EXTENDS FiniteSets, Naturals

CONSTANTS
  Artist,       \* artist identifiers
  Placeholder,  \* those whose label classify_artist_label rejects
  Mbid,         \* MusicBrainz identities
  Rank,         \* the position of each artist in the order by name
  Answers,      \* per artist: the candidate sets MusicBrainz may answer
  Exact,        \* per artist: candidates with its name and a full score
  Unreachable,  \* artists whose lookups may fail every time
  Limit,        \* artists per batch
  Worker,       \* processes that run enrich_artists
  Timed,        \* those that a timer starts
  Refreshing,   \* those that run it with refresh, past the cache
  Editor,       \* browser sessions of editors
  Ingesting,    \* processes that run bootstrap_artist_catalog
  None          \* no identity, no cached answer

Actor == Worker \cup Editor \cup Ingesting

ASSUME ConstantsAssumption ==
  /\ Placeholder \subseteq Artist
  /\ Rank \in [Artist -> Nat]
  /\ \A a, b \in Artist : Rank[a] = Rank[b] => a = b
  /\ Answers \in [Artist -> SUBSET SUBSET Mbid]
  /\ Exact \in [Artist -> SUBSET Mbid]
  /\ Unreachable \subseteq Artist
  /\ Limit \in Nat \ {0}
  /\ Timed \subseteq Worker
  /\ Refreshing \subseteq Worker
  /\ (Worker \cup Ingesting) \cap Editor = {}
  /\ None \notin Mbid

Status == {"absent", "unresolved", "candidate", "verified", "not_an_artist"}
Record == [status : Status, mbid : Mbid \cup {None}, checked : BOOLEAN]

\* An artist that no event has named yet, or that an actor has not read.
NoRecord == [status |-> "absent", mbid |-> None, checked |-> FALSE]

VARIABLES
  record,      \* per artist: its row
  candidates,  \* per artist: the stored reviewable candidates
  cache,       \* per artist: the cached MusicBrainz answer
  pc,          \* per actor: the next step of its pass, batch or request
  copy,        \* per actor and artist: the record as the actor read it
  found        \* per actor: the answer of its last lookup

vars == <<record, candidates, cache, pc, copy, found>>

Stage == {"idle", "pass", "lookup", "found", "decide", "requeue", "reread", "save"}

NoRecords == [a \in Artist |-> NoRecord]

TypeOK ==
  /\ record \in [Artist -> Record]
  /\ candidates \in [Artist -> SUBSET Mbid]
  /\ cache \in [Artist -> (SUBSET Mbid) \cup {None}]
  /\ pc \in [Actor -> Stage]
  /\ copy \in [Actor -> [Artist -> Record]]
  /\ found \in [Actor -> SUBSET Mbid]

\* What a pass writes for an artist that it did not find.
Fresh(a) ==
  [status |-> IF a \in Placeholder THEN "not_an_artist" ELSE "unresolved",
   mbid |-> None, checked |-> FALSE]

\* Placeholders that were recorded before their pattern was known.
Unresolved == [NoRecord EXCEPT !.status = "unresolved"]
Recorded(old) == [a \in Artist |-> IF a \in old THEN Unresolved ELSE NoRecord]

Init ==
  /\ \E old \in SUBSET Placeholder : record = Recorded(old)
  /\ candidates = [a \in Artist |-> {}]
  /\ cache = [a \in Artist |-> None]
  /\ pc = [p \in Actor |-> "idle"]
  /\ copy = [p \in Actor |-> NoRecords]
  /\ found = [p \in Actor |-> {}]

-----------------------------------------------------------------------------
\* What an actor is working on.

Pending(p) == {a \in Artist : copy[p][a].status # "absent"}
Current(p, a) == a \in Pending(p) /\ \A b \in Pending(p) : Rank[a] <= Rank[b]

Goto(p, from, to) == pc[p] = from /\ pc' = [pc EXCEPT ![p] = to]

\* The loop goes on with the next artist of the batch, or ends.
Finish(p, a) ==
  /\ copy' = [copy EXCEPT ![p][a] = NoRecord]
  /\ found' = [found EXCEPT ![p] = {}]
  /\ pc' = [pc EXCEPT ![p] = IF Pending(p) = {a} THEN "idle" ELSE "lookup"]

\* The request or the run ends, wherever it is.
Leave(p) ==
  /\ copy' = [copy EXCEPT ![p] = NoRecords]
  /\ found' = [found EXCEPT ![p] = {}]
  /\ pc' = [pc EXCEPT ![p] = "idle"]

\* The column musicbrainz_id is unique: a write that repeats one fails.
Free(m, a) == \A b \in Artist \ {a} : m = None \/ record[b].mbid # m

\* The same with a candidate that has no time of retrieval.
VerifiedNever(m) == [status |-> "verified", mbid |-> m, checked |-> None]
Verified(m) == [status |-> "verified", mbid |-> m, checked |-> TRUE]

-----------------------------------------------------------------------------
\* bootstrap_artist_catalog: the pass reads the whole catalog once and then
\* goes through the events with what it read.

StartPass(p) ==
  /\ Goto(p, "idle", "pass")
  /\ copy' = [copy EXCEPT ![p] = record]
  /\ UNCHANGED <<record, candidates, cache, found>>

\* The pass did not find the artist when it read the catalog.
Unread(p, a) == pc[p] = "pass" /\ copy[p][a].status = "absent"

\* An event names it: upsert_artist writes a new record, also over the one
\* that another pass has written meanwhile.
NewArtist(p, a) ==
  /\ Unread(p, a)
  /\ record' = [record EXCEPT ![a] = Fresh(a)]
  /\ copy' = [copy EXCEPT ![p][a] = Fresh(a)]
  /\ UNCHANGED <<candidates, cache, pc, found>>

\* An unresolved record of a label that is a placeholder by now.
Unclassified(p, a) ==
  pc[p] = "pass" /\ copy[p][a].status = "unresolved" /\ a \in Placeholder

Reclassify(p, a) ==
  /\ Unclassified(p, a)
  /\ LET r == [copy[p][a] EXCEPT !.status = "not_an_artist"] IN
       /\ record' = [record EXCEPT ![a] = r]
       /\ copy' = [copy EXCEPT ![p][a] = r]
  /\ UNCHANGED <<candidates, cache, pc, found>>

EndPass(p) ==
  /\ pc[p] = "pass"
  /\ Leave(p)
  /\ UNCHANGED <<record, candidates, cache>>

-----------------------------------------------------------------------------
\* One lookup at the provider, by either party.

\* The response, from the cache unless the caller refreshes.
Lookup(p, a) ==
  /\ Goto(p, "lookup", "found")
  /\ Current(p, a)
  /\ \E answer \in Answers[a] :
       /\ cache[a] # None /\ p \notin Refreshing => answer = cache[a]
       /\ found' = [found EXCEPT ![p] = answer]
       /\ cache' = [cache EXCEPT ![a] = answer]
  /\ UNCHANGED <<record, candidates, copy>>

-----------------------------------------------------------------------------
\* enrich_artists: a batch.

Undecided(r) == r.status = "unresolved" /\ ~ r.checked

Eligible(w, a) ==
  /\ record[a].status = "unresolved"
  /\ w \in Refreshing \/ ~ record[a].checked

Batch(w) ==
  {a \in Artist : Eligible(w, a) /\
     Cardinality({b \in Artist : Eligible(w, b) /\ Rank[b] < Rank[a]}) < Limit}

StartBatch(w) ==
  /\ Goto(w, "idle", "lookup")
  /\ Batch(w) # {}
  /\ copy' = [copy EXCEPT ![w] =
                [a \in Artist |-> IF a \in Batch(w) THEN record[a] ELSE NoRecord]]
  /\ UNCHANGED <<record, candidates, cache, found>>

\* The same with an exception that ends the batch.
LookupRaises(w, a) ==
  /\ pc[w] = "lookup"
  /\ Current(w, a)
  /\ cache[a] = None \/ w \in Refreshing
  /\ Leave(w)
  /\ UNCHANGED <<record, candidates, cache>>

\* ArtistDiscoveryError: the batch goes on, the record stays as it is.
LookupFails(w, a) ==
  /\ pc[w] = "lookup"
  /\ Current(w, a)
  /\ cache[a] = None \/ w \in Refreshing
  /\ Finish(w, a)
  /\ UNCHANGED <<record, candidates, cache>>

NoMatch(w, a) ==
  /\ pc[w] = "found"
  /\ Current(w, a)
  /\ found[w] = {}
  /\ record' = [record EXCEPT ![a] = [copy[w][a] EXCEPT !.checked = TRUE]]
  /\ Finish(w, a)
  /\ UNCHANGED <<candidates, cache>>

RecordCandidates(w, a) ==
  /\ Goto(w, "found", "decide")
  /\ Current(w, a)
  /\ found[w] # {}
  /\ candidates' = [candidates EXCEPT ![a] = found[w]]
  /\ UNCHANGED <<record, cache, copy, found>>

\* The same for records that are still unresolved.
ApprovalOfUnresolved(w, a, m) ==
  found[w] \cap Exact[a] = {m} /\ record[a].status = "unresolved"

\* auto_approval_candidate: the only exact match among the answers.
AutoApproval(w, a, m) == found[w] \cap Exact[a] = {m}

Select(w, a) ==
  /\ pc[w] = "decide"
  /\ Current(w, a)
  /\ \E m \in candidates[a] :
       /\ AutoApproval(w, a, m)
       /\ Free(m, a)
       /\ record' = [record EXCEPT ![a] = Verified(m)]
  /\ Finish(w, a)
  /\ UNCHANGED <<candidates, cache>>

\* The candidate row is gone or its identity is taken by another artist: the
\* exception leaves enrich_artists and ends the batch.
SelectRaises(w, a) ==
  /\ pc[w] = "decide"
  /\ Current(w, a)
  /\ \E m \in Mbid : AutoApproval(w, a, m) /\ ~ (m \in candidates[a] /\ Free(m, a))
  /\ Leave(w)
  /\ UNCHANGED <<record, candidates, cache>>

\* The same with the current record instead of the copy.
QueueCurrent(w, a) ==
  /\ pc[w] = "decide"
  /\ Current(w, a)
  /\ \A m \in Mbid : ~ AutoApproval(w, a, m)
  /\ record' = [record EXCEPT ![a].status = "candidate"]
  /\ Finish(w, a)
  /\ UNCHANGED <<candidates, cache>>

\* The same without the change of status.
QueueUnchanged(w, a) ==
  /\ pc[w] = "decide"
  /\ Current(w, a)
  /\ \A m \in Mbid : ~ AutoApproval(w, a, m)
  /\ record' = [record EXCEPT ![a] = copy[w][a]]
  /\ Finish(w, a)
  /\ UNCHANGED <<candidates, cache>>

Queue(w, a) ==
  /\ pc[w] = "decide"
  /\ Current(w, a)
  /\ \A m \in Mbid : ~ AutoApproval(w, a, m)
  /\ record' = [record EXCEPT ![a] = [copy[w][a] EXCEPT !.status = "candidate"]]
  /\ Finish(w, a)
  /\ UNCHANGED <<candidates, cache>>

-----------------------------------------------------------------------------
\* Editors: `Find or refresh suggestions'.

Discover(e, a) ==
  /\ Goto(e, "idle", "lookup")
  /\ record[a].status # "absent"
  /\ copy' = [copy EXCEPT ![e][a] = record[a]]
  /\ UNCHANGED <<record, candidates, cache, found>>

\* No suggestion replaces nothing; a verified artist is not queued again.
RefreshSuggestions(e, a) ==
  /\ pc[e] = "found"
  /\ Current(e, a)
  /\ candidates' = [candidates EXCEPT ![a] = IF found[e] = {} THEN @ ELSE found[e]]
  /\ IF found[e] # {} /\ copy[e][a].status # "verified"
       THEN /\ pc' = [pc EXCEPT ![e] = "requeue"]
            /\ UNCHANGED <<copy, found>>
       ELSE Leave(e)
  /\ UNCHANGED <<record, cache>>

Requeue(e, a) ==
  /\ pc[e] = "requeue"
  /\ Current(e, a)
  /\ record' = [record EXCEPT ![a] = [copy[e][a] EXCEPT !.status = "candidate"]]
  /\ Leave(e)
  /\ UNCHANGED <<candidates, cache>>

-----------------------------------------------------------------------------
\* Editors: `Approve', the selected candidate first and then the edited
\* fields, in two transactions and with a read in between.

ApproveCandidate(e, a, m) ==
  /\ Goto(e, "idle", "reread")
  /\ record[a].status # "absent"
  /\ m \in candidates[a]
  /\ Free(m, a)
  /\ record' = [record EXCEPT ![a] = Verified(m)]
  /\ copy' = [copy EXCEPT ![e][a] = Verified(m)]
  /\ UNCHANGED <<candidates, cache, found>>

\* Without a selected candidate only a verified artist may be edited.
EditVerified(e, a) ==
  /\ Goto(e, "idle", "reread")
  /\ record[a].status = "verified"
  /\ copy' = [copy EXCEPT ![e][a] = record[a]]
  /\ UNCHANGED <<record, candidates, cache, found>>

Reread(e, a) ==
  /\ Goto(e, "reread", "save")
  /\ Current(e, a)
  /\ copy' = [copy EXCEPT ![e][a] = record[a]]
  /\ UNCHANGED <<record, candidates, cache, found>>

SaveEdit(e, a) ==
  /\ pc[e] = "save"
  /\ Current(e, a)
  /\ Free(copy[e][a].mbid, a)
  /\ record' = [record EXCEPT ![a] = [copy[e][a] EXCEPT !.status = "verified"]]
  /\ Leave(e)
  /\ UNCHANGED <<candidates, cache>>

-----------------------------------------------------------------------------
\* A crash, a locked database, a row that another pass inserted first, a
\* failed lookup or an invalid form: what was written before stays, also the
\* approval before a rejected edit.
Abandon(p) ==
  /\ pc[p] # "idle"
  /\ Leave(p)
  /\ UNCHANGED <<record, candidates, cache>>

BatchStep(w, a) ==
  \/ Lookup(w, a) \/ LookupFails(w, a) \/ NoMatch(w, a) \/ RecordCandidates(w, a)
  \/ Select(w, a) \/ SelectRaises(w, a) \/ Queue(w, a)

EditorStep(e, a) ==
  \/ Discover(e, a) \/ Lookup(e, a) \/ RefreshSuggestions(e, a) \/ Requeue(e, a)
  \/ EditVerified(e, a) \/ Reread(e, a) \/ SaveEdit(e, a)
  \/ \E m \in Mbid : ApproveCandidate(e, a, m)

PassStep(p, a) == NewArtist(p, a) \/ Reclassify(p, a)

Next ==
  \/ \E p \in Ingesting :
       StartPass(p) \/ EndPass(p) \/ \E a \in Artist : PassStep(p, a)
  \/ \E w \in Worker : StartBatch(w) \/ \E a \in Artist : BatchStep(w, a)
  \/ \E e \in Editor, a \in Artist : EditorStep(e, a)
  \/ \E p \in Actor : Abandon(p)

\* The timer starts runs again and again: a pass ends and a batch follows,
\* unless the sync before it fails for ever, and a started batch goes on; it
\* is not killed for ever, and a reachable artist is not refused for ever.
\* A batch from the command line may never come, or never end.
Fairness ==
  \A w \in Timed :
    /\ WF_vars(EndPass(w))
    /\ SF_vars(StartBatch(w))
    /\ WF_vars(\E a \in Artist : BatchStep(w, a))
    /\ \A a \in Artist :
         /\ SF_vars(Lookup(w, a) \/ LookupFails(w, a))
         /\ SF_vars(RecordCandidates(w, a))
         /\ SF_vars(NoMatch(w, a) \/ Select(w, a) \/ Queue(w, a))
    /\ \A a \in Artist \ Unreachable : SF_vars(Lookup(w, a))

Spec == Init /\ [][Next]_vars
FairSpec == Spec /\ Fairness

-----------------------------------------------------------------------------
\* What the review promises.

\* A MusicBrainz identity belongs to at most one artist, and an artist has
\* one only while it is verified: however copies overlap, no write of
\* enrich_artists, discover_artist or approve_artist leaves a queued or
\* unresolved artist with an identity.
IdentityOfVerified ==
  \A a \in Artist : record[a].mbid # None =>
    /\ record[a].status = "verified"
    /\ Free(record[a].mbid, a)

\* What actors hold: a copy is a record that some write may put back.
CopiesConsistent ==
  /\ \A p \in Actor, a \in Artist :
       copy[p][a].mbid # None => copy[p][a].status = "verified"
  /\ \A w \in Worker, a \in Artist :
       pc[w] # "pass" => copy[w][a].status \in {"absent", "unresolved"}
  /\ \A e \in Editor, a \in Artist :
       pc[e] = "requeue" /\ Current(e, a) => copy[e][a].status # "verified"

\* The inductive form of IdentityOfVerified.
ReviewInv == TypeOK /\ IdentityOfVerified /\ CopiesConsistent

Decided(r) == r.status # "absent" /\ ~ Undecided(r)

\* This step is a pass that writes as new an artist it had not found.
Renewed(a) ==
  \E p \in Ingesting : Unread(p, a) /\ copy'[p][a].status # "absent"

\* "Skips normal batches": once an artist is checked, queued, verified or
\* classified, no stale write of a batch or of an editor makes it new again,
\* so that no normal batch asks the provider for it a second time.  What can
\* is a pass that read the catalog before another pass recorded the artist
\* and comes to its name after it was decided.
NeverAskedAgain ==
  [][\A a \in Artist : Decided(record[a]) => ~ Undecided(record'[a]) \/ Renewed(a)]_record

\* Only one process ingests events: no other pass is there to be overtaken.
OneIngests == \A p, q \in Ingesting : p = q

\* Then no write at all makes a decided artist new again.
DecidedForGood ==
  [][\A a \in Artist : Decided(record[a]) => ~ Undecided(record'[a])]_record

\* The inductive form of the last property: what an actor has read is still
\* there, and what the only pass has not found is not.
PassesKnow ==
  /\ \A p \in Actor, a \in Artist :
       copy[p][a].status # "absent" => record[a].status # "absent"
  /\ \A p \in Ingesting, a \in Artist : Unread(p, a) => record[a].status = "absent"

\* No editor is at work and MusicBrainz answers the same to every lookup.
Unattended ==
  /\ Editor = {}
  /\ \A a \in Artist : \E answer \in SUBSET Mbid : Answers[a] = {answer}

\* The inductive form of the next property: a verified artist is the one that
\* any batch would approve again.
ApprovalRepeats ==
  /\ \A w \in Worker, a \in Artist :
       pc[w] \in {"found", "decide"} /\ Current(w, a) => found[w] \in Answers[a]
  /\ \A a \in Artist : record[a].status = "verified" =>
       \E m \in Mbid : /\ record[a] = Verified(m)
                       /\ \E answer \in Answers[a] : answer \cap Exact[a] = {m}

\* This step is a pass that classifies an artist it had found unresolved.
Classified(a) ==
  \E p \in Ingesting : Unclassified(p, a) /\ copy'[p][a].status = "not_an_artist"

\* Unattended batches that overlap (the timer's and one from the command
\* line) do not undo each other's approvals, although each writes old copies:
\* only a pass with an old map of the catalog can.
ApprovalStands ==
  [][\A a \in Artist : record[a].status = "verified" =>
       record'[a] = record[a] \/ Renewed(a) \/ Classified(a)]_record

\* Each batch is resumable on the next run: through failed lookups and killed
\* batches every reachable artist is decided in the end.
EveryArtistDecided ==
  \A a \in Artist \ Unreachable : Undecided(record[a]) ~> ~ Undecided(record[a])
=============================================================================
