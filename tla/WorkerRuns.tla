----------------------------- MODULE WorkerRuns -----------------------------
(***************************************************************************)
(* The passes of the background worker (worker.py) and the links of the    *)
(* verified artists that its last phase looks up                           *)
(* (artist_homepage_ingestion.py).  The command line runs that phase alone *)
(* as well, and nothing in the program keeps passes apart.  The sync and   *)
(* the artist phase are SourceSync, VenueCatalog and ArtistReview; here    *)
(* they end well or raise, and artists are verified at any time.           *)
(***************************************************************************)
EXTENDS FiniteSets, Integers

CONSTANTS
  Artist,      \* artist identifiers
  Rank,        \* the position of each artist in the order by name
  Mbid,        \* MusicBrainz identities
  IdsOf,       \* per artist: the identities it may be verified under
  Unknown,     \* identities that MusicBrainz has no answer for
  Payload,     \* the relations that MusicBrainz may report
  Worker,      \* processes that run the whole worker
  Timed,       \* those that a timer starts
  LinkPass,    \* processes that run `enrich-homepages' only
  Refreshing,  \* those that ignore cached answers
  Limit,       \* artists per pass
  MaxKills,    \* bound: how many processes are killed
  None         \* no identity, no answer, no link

Process == Worker \cup LinkPass

ASSUME ConstantsAssumption ==
  /\ Rank \in [Artist -> Nat]
  /\ \A a, b \in Artist : Rank[a] = Rank[b] => a = b
  /\ IdsOf \in [Artist -> SUBSET Mbid]
  /\ Timed \subseteq Worker
  /\ Worker \cap LinkPass = {}
  /\ Limit \in Nat \ {0}
  /\ MaxKills \in Nat
  /\ None \notin Mbid \cup Payload

\* 1: official_homepage, 2: spotify, 3: youtube_music.
Field == 1..3

VARIABLES
  identity,   \* per artist: its identity once it is verified
  link,       \* per artist, field and identity: the stored row
  cache,      \* per identity: the cached answer
  pc,         \* per process: the next step of its pass
  listed,     \* per process: the artists of its batch, with their identities
              \* (with errors kept after a run that succeeded)
  todo,       \* per process: those it has not looked up
  errors,     \* per process: those whose lookup failed
  saving,     \* per process: the answer it stores, and how far it is
  run,        \* per worker: the row of its latest run
  raced,      \* history: artists that two passes had at once
  unrecorded, \* history: workers that were killed in their latest run, or
              \* could not record how it ended
  kills

vars == <<identity, link, cache, pc, listed, todo, errors, saving, run, raced,
          unrecorded, kills>>

Entry == [artist : Artist, id : Mbid]
Saving == [artist : Artist, id : Mbid, payload : Payload, field : Field,
           found : BOOLEAN]
Stage == {"idle", "sync", "artists", "list", "lookup", "request", "find",
          "write"}
Phase == {"sync", "artists"}
Run == [status : {"running", "succeeded", "failed"}, phases : 0..3]
NoRun == [status |-> "none", phases |-> 0]

\* The process stores the links of an artist.
Storing(w) == pc[w] \in {"find", "write"}

TypeOK ==
  /\ identity \in [Artist -> Mbid \cup {None}]
  /\ link \in [Artist -> [Field -> [Mbid -> Payload \cup {None}]]]
  /\ cache \in [Mbid -> Payload \cup {None}]
  /\ pc \in [Process -> Stage]
  /\ \A w \in LinkPass : pc[w] \notin Phase
  /\ listed \in [Process -> SUBSET Entry]
  /\ todo \in [Process -> SUBSET Entry]
  /\ errors \in [Process -> SUBSET Artist]
  /\ saving \in [Process -> Saving \cup {None}]
  /\ \A w \in Process : Storing(w) => saving[w] \in Saving
  /\ run \in [Worker -> Run \cup {NoRun}]
  /\ raced \subseteq Artist
  /\ unrecorded \subseteq Worker
  /\ kills \in 0..MaxKills

Init ==
  /\ identity = [a \in Artist |-> None]
  /\ link = [a \in Artist |-> [f \in Field |-> [m \in Mbid |-> None]]]
  /\ cache = [m \in Mbid |-> None]
  /\ pc = [w \in Process |-> "idle"]
  /\ listed = [w \in Process |-> {}]
  /\ todo = [w \in Process |-> {}]
  /\ errors = [w \in Process |-> {}]
  /\ saving = [w \in Process |-> None]
  /\ run = [w \in Worker |-> NoRun]
  /\ raced = {}
  /\ unrecorded = {}
  /\ kills = 0

GoTo(w, from, to) == pc[w] = from /\ pc' = [pc EXCEPT ![w] = to]

artistVars == <<identity, link, cache, raced>>
batchVars == <<listed, todo, errors, saving>>

-----------------------------------------------------------------------------
\* Artists.

\* Rows count as a check whatever their identity and their value.
Checked(a, f) == \E m \in Mbid : link[a][f][m] # None
Complete(a) == \A f \in Field : Checked(a, f)

\* A query that looks at the first field only.
MissingHomepage == {a \in Artist : identity[a] # None /\ ~ Checked(a, 1)}
Missing == {a \in Artist : identity[a] # None /\ ~ Complete(a)}

\* Approval by the artist phase, the command line or an editor; an artist may
\* be approved again as somebody else.
Verify(a, m) ==
  /\ m \in IdsOf[a]
  /\ identity' = [identity EXCEPT ![a] = m]
  /\ UNCHANGED <<link, cache, raced, pc, batchVars, run, unrecorded, kills>>

-----------------------------------------------------------------------------
\* run_worker.

StartRun(w) ==
  /\ w \in Worker
  /\ GoTo(w, "idle", "sync")
  /\ run' = [run EXCEPT ![w] = [status |-> "running", phases |-> 0]]
  /\ listed' = [listed EXCEPT ![w] = {}]
  /\ errors' = [errors EXCEPT ![w] = {}]
  /\ unrecorded' = unrecorded \ {w}
  /\ UNCHANGED <<artistVars, todo, saving, kills>>

StartLinkPass(w) ==
  /\ w \in LinkPass
  /\ GoTo(w, "idle", "list")
  /\ UNCHANGED <<artistVars, batchVars, run, unrecorded, kills>>

PhaseEnds(w) ==
  /\ GoTo(w, "sync", "artists") \/ GoTo(w, "artists", "list")
  /\ UNCHANGED <<artistVars, batchVars, run, unrecorded, kills>>

\* What a process had in memory is gone.
Leave(w) ==
  /\ pc' = [pc EXCEPT ![w] = "idle"]
  /\ listed' = [listed EXCEPT ![w] = {}]
  /\ todo' = [todo EXCEPT ![w] = {}]
  /\ errors' = [errors EXCEPT ![w] = {}]
  /\ saving' = [saving EXCEPT ![w] = None]

\* The pass is over; a worker records how, a link pass has no row.  The record
\* is a write like the others: when the database refuses it, the row stays as it
\* is, and the exception goes on to the caller.
Recorded(w, status, phases) ==
  \/ /\ run' = [v \in Worker |->
            IF v = w THEN [status |-> status, phases |-> phases] ELSE run[v]]
     /\ UNCHANGED unrecorded
  \/ /\ unrecorded' = unrecorded \cup ({w} \cap Worker)
     /\ UNCHANGED run

\* The exception goes on to the caller.
PhaseRaises(w) ==
  /\ pc[w] \in Phase
  /\ Leave(w)
  /\ Recorded(w, "failed", IF pc[w] = "sync" THEN 0 ELSE 1)
  /\ UNCHANGED <<artistVars, kills>>

-----------------------------------------------------------------------------
\* enrich_artist_homepages.

\* The first missing artists by name.
Batch ==
  {a \in Missing : Cardinality({b \in Missing : Rank[b] < Rank[a]}) < Limit}

List(w) ==
  /\ GoTo(w, "list", "lookup")
  /\ listed' = [listed EXCEPT ![w] =
       {[artist |-> a, id |-> identity[a]] : a \in Batch}]
  /\ todo' = [todo EXCEPT ![w] = listed'[w]]
  /\ UNCHANGED <<artistVars, errors, saving, run, unrecorded, kills>>

First(w, e) ==
  e \in todo[w] /\ \A o \in todo[w] : Rank[e.artist] <= Rank[o.artist]
Rest(w, e) == [todo EXCEPT ![w] = @ \ {e}]

\* The pass has an answer for an artist and begins to store it.
Answered(w, e, p) ==
  /\ pc' = [pc EXCEPT ![w] = "find"]
  /\ todo' = Rest(w, e)
  /\ saving' = [saving EXCEPT ![w] = [artist |-> e.artist, id |-> e.id,
                                      payload |-> p, field |-> 1,
                                      found |-> FALSE]]
  /\ raced' =
       IF \/ \E v \in Process : Storing(v) /\ saving[v].artist = e.artist
          \/ Complete(e.artist)
         THEN raced \cup {e.artist}
         ELSE raced
  /\ UNCHANGED <<identity, link, listed, errors, run, unrecorded, kills>>

CacheHit(w, e) ==
  /\ pc[w] = "lookup"
  /\ First(w, e)
  /\ w \notin Refreshing
  /\ cache[e.id] # None
  /\ Answered(w, e, cache[e.id])
  /\ UNCHANGED cache

CacheMiss(w, e) ==
  /\ GoTo(w, "lookup", "request")
  /\ First(w, e)
  /\ w \in Refreshing \/ cache[e.id] = None
  /\ UNCHANGED <<artistVars, batchVars, run, unrecorded, kills>>

Response(w, e, p) ==
  /\ pc[w] = "request"
  /\ First(w, e)
  /\ e.id \notin Unknown
  /\ cache' = [cache EXCEPT ![e.id] = p]
  /\ Answered(w, e, p)

\* A failed lookup that ends the pass.
LookupRaises(w, e) ==
  /\ pc[w] = "request"
  /\ First(w, e)
  /\ Leave(w)
  /\ Recorded(w, "failed", 2)
  /\ UNCHANGED <<artistVars, kills>>

\* After three attempts, or at once; the batch goes on.
LookupFails(w, e) ==
  /\ GoTo(w, "request", "lookup")
  /\ First(w, e)
  /\ todo' = Rest(w, e)
  /\ errors' = [errors EXCEPT ![w] = @ \cup {e.artist}]
  /\ UNCHANGED <<artistVars, listed, saving, run, unrecorded, kills>>

\* save_artist_metadata: the SELECT runs before pysqlite begins a transaction.
Stored(s) == link[s.artist][s.field][s.id]

Find(w) ==
  /\ GoTo(w, "find", "write")
  /\ saving' = [saving EXCEPT ![w].found = Stored(saving[w]) # None]
  /\ UNCHANGED <<artistVars, listed, todo, errors, run, unrecorded, kills>>

LastField(s) == s.field = 3

\* The row is inserted or updated, and the next field follows.
Wrote(w, s, payload) ==
  /\ link' = [link EXCEPT ![s.artist][s.field][s.id] = payload]
  /\ IF LastField(s)
       THEN /\ pc' = [pc EXCEPT ![w] = "lookup"]
            /\ saving' = [saving EXCEPT ![w] = None]
       ELSE /\ pc' = [pc EXCEPT ![w] = "find"]
            /\ saving' = [saving EXCEPT ![w].field = @ + 1]
  /\ UNCHANGED <<identity, cache, raced, listed, todo, errors, run, unrecorded,
                 kills>>

\* A row that is there already is kept.
WriteMissing(w) ==
  /\ pc[w] = "write"
  /\ LET s == saving[w]
     IN  /\ s.found \/ Stored(s) = None
         /\ Wrote(w, s, IF s.found THEN Stored(s) ELSE s.payload)

Write(w) ==
  /\ pc[w] = "write"
  /\ LET s == saving[w]
     IN  /\ s.found \/ Stored(s) = None
         /\ Wrote(w, s, s.payload)

\* A failed save that ends the links of the artist only.
SaveSkips(w) ==
  /\ GoTo(w, "write", "lookup")
  /\ saving' = [saving EXCEPT ![w] = None]
  /\ UNCHANGED <<artistVars, listed, todo, errors, run, unrecorded, kills>>

\* The database is busy, or another pass has inserted the row.
SaveRaises(w) ==
  /\ pc[w] = "write"
  /\ Leave(w)
  /\ Recorded(w, "failed", 2)
  /\ UNCHANGED <<artistVars, kills>>

\* The row has what the result counts.
PassEnds(w) ==
  /\ pc[w] = "lookup"
  /\ todo[w] = {}
  /\ IF w \in Worker
       THEN GoTo(w, "lookup", "idle") /\ UNCHANGED batchVars
       ELSE Leave(w)
  /\ Recorded(w, "succeeded", 3)
  /\ UNCHANGED <<artistVars, kills>>

\* The row of a killed worker stays as it is.
Kill(w) ==
  /\ pc[w] # "idle"
  /\ kills < MaxKills
  /\ kills' = kills + 1
  /\ unrecorded' = unrecorded \cup ({w} \cap Worker)
  /\ Leave(w)
  /\ UNCHANGED <<artistVars, run>>

Answer(w) ==
  \E e \in todo[w] :
    CacheHit(w, e) \/ \E p \in Payload : Response(w, e, p)
Lookup(w) ==
  \E e \in todo[w] :
    CacheHit(w, e) \/ CacheMiss(w, e) \/ LookupFails(w, e)

Save(w) == Write(w) \/ SaveRaises(w)

WriteField(w, f) == Write(w) /\ saving[w].field = f

Step(w) ==
  \/ StartRun(w) \/ StartLinkPass(w) \/ PhaseEnds(w) \/ PhaseRaises(w)
  \/ List(w) \/ Lookup(w) \/ Answer(w) \/ Find(w) \/ Save(w)
  \/ PassEnds(w) \/ Kill(w)

Next ==
  \/ \E a \in Artist, m \in Mbid : Verify(a, m)
  \/ \E w \in Process : Step(w)

Spec == Init /\ [][Next]_vars

\* A timer starts its worker again and again, steps within the process come
\* to an end, and what may fail from outside (a phase before, the lookup of a
\* known identity, the write of a field to a busy database) does not fail for
\* ever.
Fairness ==
  \A w \in Timed :
    /\ WF_vars(StartRun(w)) /\ WF_vars(List(w)) /\ WF_vars(Lookup(w))
    /\ WF_vars(Find(w)) /\ WF_vars(Save(w)) /\ WF_vars(PassEnds(w))
    /\ \A f \in Phase : SF_vars(pc[w] = f /\ PhaseEnds(w))
    /\ SF_vars(Answer(w))
    /\ \A f \in Field : SF_vars(WriteField(w, f))

FairSpec == Spec /\ Fairness

-----------------------------------------------------------------------------
\* What the passes promise.

\* The row of a run tells how it went, although other passes and editors work
\* at once: it succeeded only if all three phases ended and every artist of
\* its batch has all links or is counted as an error, it failed only before
\* that, and it is left running only by a worker that was killed in this run or
\* could not write how it ended.
Told(w) ==
  /\ pc[w] # "idle" => run[w].status = "running" /\ w \notin unrecorded
  /\ run[w].status = "running" => pc[w] # "idle" \/ w \in unrecorded
  /\ run[w].status = "failed" => run[w].phases < 3
  /\ run[w].status = "succeeded" =>
       /\ run[w].phases = 3
       /\ \A e \in listed[w] : Complete(e.artist) \/ e.artist \in errors[w]
RunsTold == \A w \in Worker : Told(w)

\* The three links of an artist are three transactions, in which a pass can be
\* killed or fail; unless two passes had the artist at once, the links under an
\* identity that has all of them come from one answer.
LinksAgree ==
  \A a \in Artist \ raced, m \in Mbid :
    link[a][3][m] # None => \A f \in Field : link[a][f][m] = link[a][3][m]

\* The inductive forms of the two.  A process accounts for its batch; rows of an
\* artist are stored in the order of the fields; and a process that has an
\* artist alone has stored its own answer so far and is the first to complete
\* it.
Accounted(w, e) ==
  \/ e \in todo[w]
  \/ Storing(w) /\ saving[w].artist = e.artist
  \/ Complete(e.artist)
  \/ e.artist \in errors[w]

InBatch(w) == pc[w] \in {"lookup", "request", "find", "write"}
BatchInv ==
  \A w \in Process : InBatch(w) => \A e \in listed[w] : Accounted(w, e)

InOrder ==
  \A a \in Artist, m \in Mbid :
    /\ link[a][2][m] # None => link[a][1][m] # None
    /\ link[a][3][m] # None => link[a][2][m] # None

Behind(s) == \A f \in Field : f < s.field => link[s.artist][f][s.id] # None
Own(s) ==
  /\ \A f \in Field : f < s.field => link[s.artist][f][s.id] = s.payload
  /\ link[s.artist][3][s.id] = None

SaveInv ==
  \A w \in Process : Storing(w) =>
    /\ Behind(saving[w])
    /\ saving[w].artist \notin raced =>
         /\ Own(saving[w])
         /\ \A v \in Process \ {w} :
              ~ (Storing(v) /\ saving[v].artist = saving[w].artist)

\* An artist that is verified under identities that MusicBrainz knows gets all
\* its links in the end, though passes are killed, lookups fail and saves
\* collide, as long as the artists it knows nothing of do not fill a batch.
Hopeless == {a \in Artist : IdsOf[a] \cap Unknown # {}}
LinksArrive ==
  Timed # {} /\ Cardinality(Hopeless) < Limit =>
    \A a \in Artist \ Hopeless : identity[a] # None ~> Complete(a)
=============================================================================
