---------------------------- MODULE VenueCatalog ----------------------------
(***************************************************************************)
(* Canonical venues: the passes that catalogue the venue names of events   *)
(* and look each new venue up once (venues.py, venue_ingestion.py), and    *)
(* the editors who refresh suggestions, approve and rename (webapp.py).    *)
(* A pass follows each synchronisation; those of the web application and   *)
(* of the worker may overlap.  A pass decides which venues exist, and      *)
(* which of them are new, from lists that it read before.                  *)
(***************************************************************************)
EXTENDS FiniteSets, Naturals

CONSTANTS
  Event,        \* events of the feed
  Names,        \* per event: what the feed may say: a name, None without the event
  Label,        \* normalized venue names
  Placeholder,  \* those that name no venue ("tba")
  Slug,         \* the route slug of each label; labels may share one
  Place,        \* OSM identities
  Answers,      \* per label: the candidate sets Nominatim may answer
  Exact,        \* per label: the candidates above the approval threshold
  Typed,        \* the names that an editor may give a venue
  Pass,         \* the processes that catalogue venues
  Bootstrap,    \* those that only do that (`venues bootstrap')
  Editor,       \* browser sessions of editors
  None          \* no event, name, venue or identity

Actor == Pass \cup Editor

ASSUME ConstantsAssumption ==
  /\ Names \in [Event -> SUBSET (Label \cup {None})]
  /\ Placeholder \subseteq Label
  /\ DOMAIN Slug = Label
  /\ Answers \in [Label -> SUBSET SUBSET Place]
  /\ Exact \in [Label -> SUBSET Place]
  /\ Typed \subseteq Label
  /\ Bootstrap \subseteq Pass
  /\ Pass \cap Editor = {}
  /\ None \notin Place
  /\ None \notin Label

\* A venue identifier: a slug and the suffix that makes it unused.  At most
\* one venue per label is counted as used, see UnusedId.
Id == {Slug[l] : l \in Label} \X (1 .. Cardinality(Label))
ASSUME IdAssumption == None \notin Id

Status == {"absent", "unresolved", "candidate", "verified", "not_a_venue"}
Venue == [status : Status, name : Label \cup {None}, place : Place \cup {None}]

NoVenue == [status |-> "absent", name |-> None, place |-> None]

VARIABLES
  label,       \* per event: the venue name in the catalog of events
  link,        \* per event: the venue it is linked to
  venue,       \* per identifier: its row
  candidates,  \* per identifier: the stored suggestions
  pc,          \* per actor: the next step of its pass or request
  earlier,     \* per pass: existing_ids
  byName,      \* per pass: venues_by_normalized_name
  todo,        \* per pass: the names of the events still to be linked
  linked,      \* per pass: event_venue_ids
  copy,        \* per actor: the venues it holds as it read them
  at,          \* per actor: the venue it is working on
  found        \* per actor: the answer of its last lookup

tables == <<label, link, venue, candidates>>
lists == <<earlier, byName, todo, linked>>
work == <<copy, at, found>>
vars == <<tables, pc, lists, work>>

Stage == {"idle", "venues", "events", "links", "catalog", "lookup", "found",
          "decide", "requeue", "select", "save"}

NoNames == [l \in Label |-> None]
NoEvents == [e \in Event |-> None]
NoCopies == [v \in Id |-> NoVenue]

TypeOK ==
  /\ label \in [Event -> Label \cup {None}]
  /\ link \in [Event -> Id \cup {None}]
  /\ venue \in [Id -> Venue]
  /\ candidates \in [Id -> SUBSET Place]
  /\ pc \in [Actor -> Stage]
  /\ earlier \in [Pass -> SUBSET Id]
  /\ byName \in [Pass -> [Label -> Id \cup {None}]]
  /\ todo \in [Pass -> [Event -> Label \cup {None}]]
  /\ linked \in [Pass -> [Event -> Id \cup {None}]]
  /\ copy \in [Actor -> [Id -> Venue]]
  /\ at \in [Actor -> Id \cup {None}]
  /\ found \in [Actor -> SUBSET Place]

Init ==
  /\ label = NoEvents
  /\ link = NoEvents
  /\ venue = NoCopies
  /\ candidates = [v \in Id |-> {}]
  /\ pc = [p \in Actor |-> "idle"]
  /\ earlier = [p \in Pass |-> {}]
  /\ byName = [p \in Pass |-> NoNames]
  /\ todo = [p \in Pass |-> NoEvents]
  /\ linked = [p \in Pass |-> NoEvents]
  /\ copy = [p \in Actor |-> NoCopies]
  /\ at = [p \in Actor |-> None]
  /\ found = [p \in Actor |-> {}]

Goto(p, from, to) == pc[p] = from /\ pc' = [pc EXCEPT ![p] = to]

\* The venues in the table, and those with a name.
Stored == {v \in Id : venue[v].status # "absent"}
Named(l) == {v \in Stored : venue[v].name = l}

\* The unique constraint on the OSM identity.
Free(m, v) == \A u \in Id \ {v} : m = None \/ venue[u].place # m

-----------------------------------------------------------------------------
\* Synchronisation gives an event another venue name, adds it, or deletes it
\* together with its link.
SyncEvent(e, l) ==
  /\ l # label[e]
  /\ label' = [label EXCEPT ![e] = l]
  /\ link' = [link EXCEPT ![e] = IF l = None THEN None ELSE @]
  /\ UNCHANGED <<venue, candidates, pc, lists, work>>

-----------------------------------------------------------------------------
\* ingest_new_event_venues and bootstrap_venue_catalog: the lists of a pass.

StartPass(p) ==
  /\ Goto(p, "idle", "venues")
  /\ earlier' = [earlier EXCEPT ![p] = IF p \in Bootstrap THEN @ ELSE Stored]
  /\ UNCHANGED <<tables, byName, todo, linked, work>>

\* Of several venues with one normalized name the map keeps one.
ReadVenues(p) ==
  /\ Goto(p, "venues", "events")
  /\ \E names \in [Label -> Id \cup {None}] :
       /\ \A l \in Label : IF Named(l) = {} THEN names[l] = None
                                            ELSE names[l] \in Named(l)
       /\ byName' = [byName EXCEPT ![p] = names]
  /\ UNCHANGED <<tables, earlier, todo, linked, work>>

ReadEvents(p) ==
  /\ Goto(p, "events", "links")
  /\ todo' = [todo EXCEPT ![p] = label]
  /\ UNCHANGED <<tables, earlier, byName, linked, work>>

\* A link to a placeholder does not count.
ReadLinks(p) ==
  /\ Goto(p, "links", "catalog")
  /\ linked' = [linked EXCEPT ![p] = [e \in Event |->
       IF todo[p][e] # None /\ link[e] # None
            /\ venue[link[e]].status # "not_a_venue"
         THEN link[e] ELSE None]]
  /\ UNCHANGED <<tables, earlier, byName, todo, work>>

-----------------------------------------------------------------------------
\* bootstrap_venue_catalog: the loop over the events.

\* _unique_venue_id: the first suffix that no venue of the map has.
UnusedId(p, l, v) ==
  LET used == {byName[p][n] : n \in Label} IN
  /\ v[1] = Slug[l]
  /\ v \notin used
  /\ \A k \in 1 .. v[2] - 1 : <<v[1], k>> \in used

NewVenue(l) ==
  [status |-> IF l \in Placeholder THEN "not_a_venue" ELSE "unresolved",
   name |-> l, place |-> None]

\* The name has no venue in the map: upsert_venue inserts, or replaces.
CreateVenue(p, e, v) ==
  LET l == todo[p][e] IN
  /\ pc[p] = "catalog"
  /\ l # None
  /\ byName[p][l] = None
  /\ UnusedId(p, l, v)
  /\ venue' = [venue EXCEPT ![v] = NewVenue(l)]
  /\ byName' = [byName EXCEPT ![p][l] = v]
  /\ UNCHANGED <<label, link, candidates, pc, earlier, todo, linked, work>>

\* The loop is done with an event.
Linked(p, e) ==
  /\ todo' = [todo EXCEPT ![p][e] = None]
  /\ linked' = [linked EXCEPT ![p][e] = None]

\* The next, without a look at the link that the event has.
LinkUnlinked(p, e) ==
  LET v == byName[p][todo[p][e]] IN
  /\ pc[p] = "catalog"
  /\ todo[p][e] # None
  /\ v # None
  /\ label[e] # None
  /\ link' = [link EXCEPT ![e] = IF linked[p][e] = None THEN v ELSE @]
  /\ Linked(p, e)
  /\ UNCHANGED <<label, venue, candidates, pc, earlier, byName, work>>

\* A link that the pass has read already is not written again.  The foreign
\* key of an event that was deleted meanwhile fails, see Abandon.
LinkEvent(p, e) ==
  LET v == byName[p][todo[p][e]] IN
  /\ pc[p] = "catalog"
  /\ todo[p][e] # None
  /\ v # None
  /\ linked[p][e] = v \/ label[e] # None
  /\ link' = [link EXCEPT ![e] = IF linked[p][e] = v THEN @ ELSE v]
  /\ Linked(p, e)
  /\ UNCHANGED <<label, venue, candidates, pc, earlier, byName, work>>

\* The next, without the comparison with existing_ids.
AnyVenues(p) ==
  {v \in Stored : p \notin Bootstrap /\ venue[v].status # "not_a_venue"}

NewVenues(p) ==
  {v \in Stored \ earlier[p] :
     p \notin Bootstrap /\ venue[v].status # "not_a_venue"}

\* The pass reads the venues again; those not seen at its start are new.
ListNew(p) ==
  LET new == NewVenues(p) IN
  /\ pc[p] = "catalog"
  /\ todo[p] = NoEvents
  /\ pc' = [pc EXCEPT ![p] = IF new = {} THEN "idle" ELSE "lookup"]
  /\ copy' = [copy EXCEPT ![p] =
                [v \in Id |-> IF v \in new THEN venue[v] ELSE NoVenue]]
  /\ byName' = [byName EXCEPT ![p] = NoNames]
  /\ UNCHANGED <<tables, earlier, todo, linked, at, found>>

-----------------------------------------------------------------------------
\* One lookup at Nominatim, by either party.

Pending(p) == {v \in Id : copy[p][v].status # "absent"}

Lookup(p, v) ==
  /\ Goto(p, "lookup", "found")
  /\ v \in Pending(p)
  /\ at' = [at EXCEPT ![p] = v]
  /\ \E answer \in Answers[copy[p][v].name] : found' = [found EXCEPT ![p] = answer]
  /\ UNCHANGED <<tables, lists, copy>>

\* The loop of a pass goes on with the next new venue, or ends.
Finish(p, v) ==
  /\ copy' = [copy EXCEPT ![p][v] = NoVenue]
  /\ at' = [at EXCEPT ![p] = None]
  /\ found' = [found EXCEPT ![p] = {}]
  /\ pc' = [pc EXCEPT ![p] = IF Pending(p) = {v} THEN "idle" ELSE "lookup"]

\* A request ends, wherever it is.
Leave(p) ==
  /\ copy' = [copy EXCEPT ![p] = NoCopies]
  /\ at' = [at EXCEPT ![p] = None]
  /\ found' = [found EXCEPT ![p] = {}]
  /\ pc' = [pc EXCEPT ![p] = "idle"]

-----------------------------------------------------------------------------
\* ingest_new_event_venues: the decision about a new venue.

\* VenueDiscoveryError: the venue stays unresolved.
LookupFails(p, v) ==
  /\ pc[p] = "lookup"
  /\ v \in Pending(p)
  /\ Finish(p, v)
  /\ UNCHANGED <<tables, lists>>

\* The same with a status of its own for the venue.
NoMatchStored(p, v) ==
  /\ pc[p] = "found" /\ at[p] = v /\ found[p] = {}
  /\ venue' = [venue EXCEPT ![v] = [copy[p][v] EXCEPT !.status = "no_match"]]
  /\ Finish(p, v)
  /\ UNCHANGED <<label, link, candidates, lists>>

NoMatch(p, v) ==
  /\ pc[p] = "found" /\ at[p] = v /\ found[p] = {}
  /\ Finish(p, v)
  /\ UNCHANGED <<tables, lists>>

RecordCandidates(p, v) ==
  /\ Goto(p, "found", "decide")
  /\ at[p] = v /\ found[p] # {}
  /\ candidates' = [candidates EXCEPT ![v] = found[p]]
  /\ UNCHANGED <<label, link, venue, lists, work>>

\* auto_approval_candidate: the only candidate above the threshold.
AutoApproval(p, v, m) == found[p] \cap Exact[copy[p][v].name] = {m}

\* select_venue_candidate: the identity goes into the current row, or there
\* is no such suggestion or venue, or the place is taken.
CanSelect(v, m) == v \in Stored /\ m \in candidates[v] /\ Free(m, v)
Selected(v, m) == [venue[v] EXCEPT !.place = m, !.status = "verified"]

Select(p, v) ==
  /\ pc[p] = "decide" /\ at[p] = v
  /\ \E m \in Place :
       /\ AutoApproval(p, v, m)
       /\ CanSelect(v, m)
       /\ venue' = [venue EXCEPT ![v] = Selected(v, m)]
  /\ Finish(p, v)
  /\ UNCHANGED <<label, link, candidates, lists>>

\* Its exception ends the pass: the venues that follow are never looked up.
SelectRaises(p, v) ==
  /\ pc[p] = "decide" /\ at[p] = v
  /\ \E m \in Place : AutoApproval(p, v, m) /\ ~ CanSelect(v, m)
  /\ Leave(p)
  /\ UNCHANGED <<tables, lists>>

Queue(p, v) ==
  /\ pc[p] = "decide" /\ at[p] = v
  /\ \A m \in Place : ~ AutoApproval(p, v, m)
  /\ Free(copy[p][v].place, v)
  /\ venue' = [venue EXCEPT ![v] = [copy[p][v] EXCEPT !.status = "candidate"]]
  /\ Finish(p, v)
  /\ UNCHANGED <<label, link, candidates, lists>>

-----------------------------------------------------------------------------
\* Editors: `Find or refresh suggestions', also `venues discover'.

Discover(e, v) ==
  /\ Goto(e, "idle", "lookup")
  /\ v \in Stored
  /\ copy' = [copy EXCEPT ![e][v] = venue[v]]
  /\ UNCHANGED <<tables, lists, at, found>>

\* The next, if an empty answer replaced the suggestions too.
RefreshAlways(e, v) ==
  /\ pc[e] = "found" /\ at[e] = v
  /\ candidates' = [candidates EXCEPT ![v] = found[e]]
  /\ IF found[e] # {} /\ copy[e][v].status # "verified"
       THEN pc' = [pc EXCEPT ![e] = "requeue"] /\ UNCHANGED work
       ELSE Leave(e)
  /\ UNCHANGED <<label, link, venue, lists>>

\* No suggestion replaces nothing; a verified venue is not queued again.
RefreshSuggestions(e, v) ==
  /\ pc[e] = "found" /\ at[e] = v
  /\ candidates' = [candidates EXCEPT ![v] = IF found[e] = {} THEN @ ELSE found[e]]
  /\ IF found[e] # {} /\ copy[e][v].status # "verified"
       THEN pc' = [pc EXCEPT ![e] = "requeue"] /\ UNCHANGED work
       ELSE Leave(e)
  /\ UNCHANGED <<label, link, venue, lists>>

Requeue(e, v) ==
  /\ pc[e] = "requeue" /\ at[e] = v
  /\ Free(copy[e][v].place, v)
  /\ venue' = [venue EXCEPT ![v] = [copy[e][v] EXCEPT !.status = "candidate"]]
  /\ Leave(e)
  /\ UNCHANGED <<label, link, candidates, lists>>

-----------------------------------------------------------------------------
\* Editors: `Approve'.  The form is checked against what is stored, then the
\* candidate is selected and the edited fields are written, in transactions
\* of their own.

\* The row to be written: the form may change the name.
Edited(v, l, m) == [status |-> "verified", name |-> l, place |-> m]

CheckForm(e, v, l, m) ==
  /\ v \in Stored
  /\ l \in Typed \cup {venue[v].name}
  /\ copy' = [copy EXCEPT ![e][v] = Edited(v, l, m)]
  /\ at' = [at EXCEPT ![e] = v]

ApproveCandidate(e, v, l, m) ==
  /\ Goto(e, "idle", "select")
  /\ m \in candidates[v]
  /\ Free(m, v)
  /\ CheckForm(e, v, l, m)
  /\ UNCHANGED <<tables, lists, found>>

\* Without a candidate the location stays the one that was read.
ApproveAsEdited(e, v, l) ==
  /\ Goto(e, "idle", "save")
  /\ CheckForm(e, v, l, venue[v].place)
  /\ UNCHANGED <<tables, lists, found>>

SelectApproved(e, v) ==
  LET m == copy[e][v].place IN
  /\ Goto(e, "select", "save")
  /\ at[e] = v
  /\ CanSelect(v, m)
  /\ venue' = [venue EXCEPT ![v] = Selected(v, m)]
  /\ UNCHANGED <<label, link, candidates, lists, work>>

SaveApproved(e, v) ==
  /\ pc[e] = "save" /\ at[e] = v
  /\ Free(copy[e][v].place, v)
  /\ venue' = [venue EXCEPT ![v] = copy[e][v]]
  /\ Leave(e)
  /\ UNCHANGED <<label, link, candidates, lists>>

\* `venues accept' on the command line.
Accept(v, m) ==
  /\ CanSelect(v, m)
  /\ venue' = [venue EXCEPT ![v] = Selected(v, m)]
  /\ UNCHANGED <<label, link, candidates, pc, lists, work>>

-----------------------------------------------------------------------------
\* A crash, a busy database, a foreign key or a unique constraint ends a pass
\* or a request; what was written before stays.
Abandon(p) ==
  /\ pc[p] # "idle"
  /\ Leave(p)
  /\ byName' = [q \in Pass |-> IF q = p THEN NoNames ELSE byName[q]]
  /\ todo' = [q \in Pass |-> IF q = p THEN NoEvents ELSE todo[q]]
  /\ linked' = [q \in Pass |-> IF q = p THEN NoEvents ELSE linked[q]]
  /\ UNCHANGED <<tables, earlier>>

Catalogue(p, e) == LinkEvent(p, e) \/ \E v \in Id : CreateVenue(p, e, v)

Review(p, v) ==
  \/ Lookup(p, v) \/ LookupFails(p, v) \/ NoMatch(p, v)
  \/ RecordCandidates(p, v) \/ Select(p, v) \/ SelectRaises(p, v) \/ Queue(p, v)

PassStep(p) ==
  \/ StartPass(p) \/ ReadVenues(p) \/ ReadEvents(p) \/ ReadLinks(p) \/ ListNew(p)
  \/ \E e \in Event : Catalogue(p, e)
  \/ \E v \in Id : Review(p, v)

EditorStep(e, v) ==
  \/ Discover(e, v) \/ Lookup(e, v) \/ RefreshSuggestions(e, v) \/ Requeue(e, v)
  \/ SelectApproved(e, v) \/ SaveApproved(e, v)
  \/ \E l \in Label : \/ ApproveAsEdited(e, v, l)
                      \/ \E m \in Place : ApproveCandidate(e, v, l, m)

Next ==
  \/ \E e \in Event : \E l \in Names[e] : SyncEvent(e, l)
  \/ \E p \in Pass : PassStep(p)
  \/ \E e \in Editor, v \in Id : EditorStep(e, v)
  \/ \E v \in Id, m \in Place : Accept(v, m)
  \/ \E p \in Actor : Abandon(p)

\* The timers of the worker and of the web application start passes again
\* and again, a started one goes on, and none is stopped at the same step of
\* its catalogue for ever.  Editors may never come.
Fairness ==
  \A p \in Pass \ Bootstrap :
    /\ WF_vars(PassStep(p))
    /\ SF_vars(ReadVenues(p)) /\ SF_vars(ReadEvents(p)) /\ SF_vars(ReadLinks(p))
    /\ \A e \in Event : SF_vars(Catalogue(p, e))

Spec == Init /\ [][Next]_vars
FairSpec == Spec /\ Fairness

-----------------------------------------------------------------------------
\* What the catalogue promises.

\* A venue in the approval queue as a candidate has suggestions to choose
\* from, through failed and empty lookups, overlapping passes and refreshes.
QueuedHasSuggestions ==
  \A v \in Id : venue[v].status = "candidate" => candidates[v] # {}

\* One process at most is in the middle of a pass.
NoOverlap ==
  \A p, q \in Pass : pc[p] # "idle" /\ pc[q] # "idle" => p = q

\* Whatever overlapping passes did to venues that share a slug, later passes
\* heal it: when they no longer overlap, an event whose venue name stays is
\* linked to a venue of that name in the end and for good.  (Without renames.)
EventsSettle ==
  \A e \in Event, l \in Label :
    <>[](label[e] = l /\ NoOverlap) => <>[](link[e] \in Named(l))

Working == {"found", "decide", "requeue", "select", "save"}

\* What actors hold: named copies, of which they work on one.
CopiesNamed ==
  /\ \A v \in Stored : venue[v].name \in Label
  /\ \A p \in Actor, v \in Id :
       /\ v \in Pending(p) => copy[p][v].name \in Label
       /\ at[p] = v => v \in Pending(p) /\ pc[p] \in Working

\* Suggestions are there before anything is queued, and copies know it.
SuggestionsKnown ==
  \A p \in Actor, v \in Id :
    /\ copy[p][v].status = "candidate" => candidates[v] # {}
    /\ pc[p] \in {"decide", "requeue"} /\ at[p] = v => candidates[v] # {}

\* The inductive form of QueuedHasSuggestions.
QueueInv == TypeOK /\ CopiesNamed /\ QueuedHasSuggestions /\ SuggestionsKnown

\* One process catalogues venues, and no editor changes a name.
Exclusive == Typed = {} /\ \A p, q \in Pass : p = q

Moves(p) == <<pc[p], byName[p], todo[p]>>' # <<pc[p], byName[p], todo[p]>>

\* "Enrich only records first seen in this pass": a pass, however long its
\* lookups take and whatever editors do meanwhile, changes no venue that was
\* stored when it began.
EarlierVenuesKept ==
  [][Exclusive => \A p \in Pass : Moves(p) =>
       \A v \in earlier[p] : venue'[v] = venue[v]]_vars

\* The inductive form of EarlierVenuesKept: names are unique and never change,
\* the map of the pass has every stored venue, and the pass holds new ones.
NamesUnique ==
  \A u, v \in Stored : venue[u].name = venue[v].name => u = v

CopiesKeepNames ==
  \A p \in Actor, v \in Id : v \in Pending(p) =>
    v \in Stored /\ copy[p][v].name = venue[v].name

MapComplete(p) ==
  pc[p] \in {"events", "links", "catalog"} =>
    \A v \in Stored : byName[p][venue[v].name] = v

HoldsNewVenues(p) ==
  /\ earlier[p] \subseteq Stored
  /\ Pending(p) \cap earlier[p] = {}
  /\ pc[p] \in {"idle", "venues", "events", "links", "catalog"} => Pending(p) = {}
=============================================================================
