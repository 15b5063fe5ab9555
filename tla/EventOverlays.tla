---------------------------- MODULE EventOverlays ----------------------------
(***************************************************************************)
(* What is added to the events of the feed: performers extracted from      *)
(* titles (performer_title_augmentation.py), tags of local rules           *)
(* (augment.py), and the overlays with links, from the source, from        *)
(* Ticketmaster and from web research (event_details_augmentation.py,      *)
(* event_research_augmentation.py), which a page of the web application    *)
(* fetches as well when it has none (webapp.py).  Nothing keeps these      *)
(* apart from each other and from the syncs, which write an event as the   *)
(* source has it.  A sync itself is atomic here (PublishedCatalog), and    *)
(* always has the document that it writes, of which a 304 is a             *)
(* confirmation only (sync.py:87-112; the conditions of SyncExclusive).    *)
(***************************************************************************)
EXTENDS FiniteSets, Integers

\* The providers of overlays.
Provider == {"links", "ticketmaster", "research"}

CONSTANTS
  Event,       \* event identifiers
  Rank,        \* the position of each event in the order by date
  Version,     \* renditions of an event by the source
  RenditionsOf, \* per event: those that the feed may have, None if it is gone
  Process,     \* processes that run passes
  Scheduled,   \* those whose syncs go on for ever
  Commands,    \* per process: the commands that it runs
  Limit,       \* events per pass
  MaxVisits,   \* bound, per event: requests at work for its page
  None         \* no rendition, no overlay

ASSUME ConstantsAssumption ==
  /\ Rank \in [Event -> Nat]
  /\ \A a, b \in Event : Rank[a] = Rank[b] => a = b
  /\ None \notin Version
  /\ RenditionsOf \in [Event -> SUBSET (Version \cup {None})]
  /\ Scheduled \subseteq Process
  /\ Commands \in
       [Process -> SUBSET ({"sync", "titles", "rules"} \cup Provider)]
  /\ Limit \in Nat \ {0}
  /\ MaxVisits \in [Event -> Nat]

\* The providers of details share one row per event.
Table == {"details", "research"}
TableOf(k) == IF k = "research" THEN "research" ELSE "details"
NoOverlay == "none"

\* performers: extracted from the title, which differs in case and spacing only
\* between the renditions of an event, as the identifier is a hash of it.
Row == [ver : Version, performers : BOOLEAN, tags : BOOLEAN]
NoRow == [ver |-> None, performers |-> FALSE, tags |-> FALSE]
AsInSource(v) == [ver |-> v, performers |-> FALSE, tags |-> FALSE]

VARIABLES
  source,   \* per event: its rendition in the feed
  row,      \* per event: its row
  overlay,  \* per table and event: its overlay
  pc,       \* per process: the pass that it runs
  todo,     \* per process: the events it still has to handle
  copy,     \* per process and event: the row as the process read it
  visits,   \* per event: requests for its page that found nothing
  status,   \* per event: the status of its fetch, in the memory of the web
  thread    \* per event: where the thread of its fetch is

vars == <<source, row, overlay, pc, todo, copy, visits, status, thread>>
passVars == <<pc, todo, copy>>
webVars == <<visits, status, thread>>

Pass == {"created", "titles", "rules"} \cup Provider
ThreadStage == {"none", "read", "save", "check", "failed", "died"}

TypeOK ==
  /\ source \in [Event -> Version \cup {None}]
  /\ row \in [Event -> Row \cup {NoRow}]
  /\ overlay \in [Table -> [Event -> Provider \cup {NoOverlay}]]
  /\ pc \in [Process -> Pass \cup {"idle"}]
  /\ todo \in [Process -> SUBSET Event]
  /\ copy \in [Process -> [Event -> Row \cup {NoRow}]]
  /\ \A p \in Process : pc[p] \in {"titles", "rules"} =>
       \A e \in todo[p] : copy[p][e] \in Row
  /\ visits \in [Event -> Nat]
  /\ \A e \in Event : visits[e] <= MaxVisits[e]
  /\ status \in [Event -> {"idle", "fetching", "ready", "failed"}]
  /\ thread \in [Event -> ThreadStage]

Init ==
  /\ source \in [Event -> Version \cup {None}]
  /\ \A e \in Event : source[e] \in RenditionsOf[e]
  /\ row = [e \in Event |-> NoRow]
  /\ overlay = [t \in Table |-> [e \in Event |-> NoOverlay]]
  /\ pc = [p \in Process |-> "idle"]
  /\ todo = [p \in Process |-> {}]
  /\ copy = [p \in Process |-> [e \in Event |-> NoRow]]
  /\ visits = [e \in Event |-> 0]
  /\ status = [e \in Event |-> "idle"]
  /\ thread = [e \in Event |-> "none"]

Stored == {e \in Event : row[e] # NoRow}
\* An idle process is given one of its commands.
Runs(p, command) == pc[p] = "idle" /\ command \in Commands[p]

Enter(p, pass, events) ==
  /\ pc' = [pc EXCEPT ![p] = pass]
  /\ todo' = [todo EXCEPT ![p] = events]

\* The first events of a set by date.
FirstOf(S) == {e \in S : Cardinality({o \in S : Rank[o] < Rank[e]}) < Limit}
Turn(p, e) == e \in todo[p] /\ \A o \in todo[p] : Rank[e] <= Rank[o]

\* An event is done; its copy is gone, and after the last one the pass is over.
Done(p, e) ==
  /\ todo' = [todo EXCEPT ![p] = @ \ {e}]
  /\ copy' = [copy EXCEPT ![p][e] = NoRow]
  /\ pc' = [pc EXCEPT ![p] = IF todo[p] = {e} THEN "idle" ELSE @]
Forget(p) ==
  /\ Enter(p, "idle", {})
  /\ copy' = [copy EXCEPT ![p] = [e \in Event |-> NoRow]]
ReadCopies(p, events) ==
  copy' = [copy EXCEPT ![p] =
             [e \in Event |-> IF e \in events THEN row[e] ELSE NoRow]]

-----------------------------------------------------------------------------
\* The feed and its syncs.

Edit(e, v) ==
  /\ v \in RenditionsOf[e]
  /\ source' = [source EXCEPT ![e] = v]
  /\ UNCHANGED <<row, overlay, passVars, webVars>>

\* A sync that leaves events with extracted performers alone.
WrittenUnlessExtracted(e) ==
  IF source[e] = None THEN NoRow
  ELSE IF row[e].performers THEN row[e] ELSE AsInSource(source[e])

Written(e) == IF source[e] = None THEN NoRow ELSE AsInSource(source[e])

\* Overlays go with their event.
WithoutCascade(t, e) == overlay[t][e]
Cascaded(t, e) == IF source[e] = None THEN NoOverlay ELSE overlay[t][e]

\* Every event is written as it is in the source, and what is not in it is
\* deleted; if an extractor is configured, new events are handled next.
Sync(p) ==
  /\ Runs(p, "sync")
  /\ \E e \in Event : source[e] # None
  /\ row' = [e \in Event |-> Written(e)]
  /\ overlay' = [t \in Table |-> [e \in Event |-> Cascaded(t, e)]]
  /\ LET created == {e \in Event : row[e] = NoRow /\ source[e] # None}
     IN  \/ UNCHANGED <<pc, todo>>
         \/ created # {} /\ Enter(p, "created", created)
  /\ UNCHANGED <<source, copy, webVars>>

-----------------------------------------------------------------------------
\* Performers from titles.

\* ingest_new_event_performers reads the new events that are still there.
ReadCreated(p) ==
  /\ pc[p] = "created"
  /\ LET there == todo[p] \cap Stored
     IN  /\ Enter(p, IF there = {} THEN "idle" ELSE "titles", there)
         /\ ReadCopies(p, there)
  /\ UNCHANGED <<source, row, overlay, webVars>>

\* augment-performers reads those that have no extraction.
StartTitles(p) ==
  /\ Runs(p, "titles")
  /\ LET first == FirstOf({e \in Stored : ~ row[e].performers})
     IN  /\ first # {}
         /\ Enter(p, "titles", first)
         /\ ReadCopies(p, first)
  /\ UNCHANGED <<source, row, overlay, webVars>>

\* The model fails, or finds no list of performers; the event is not marked.
NoPerformers(p, e) ==
  /\ pc[p] = "titles"
  /\ Turn(p, e)
  /\ Done(p, e)
  /\ UNCHANGED <<source, row, overlay, webVars>>

\* The event is written as it was read, with the performers; an event that has
\* been deleted meanwhile is inserted again.
WritePerformers(p, e) ==
  /\ pc[p] = "titles"
  /\ Turn(p, e)
  /\ row' = [row EXCEPT ![e] = [copy[p][e] EXCEPT !.performers = TRUE]]
  /\ Done(p, e)
  /\ UNCHANGED <<source, overlay, webVars>>

-----------------------------------------------------------------------------
\* augment: all events are read, then those that change are written in one
\* transaction.

StartRules(p) ==
  /\ Runs(p, "rules")
  /\ Stored # {}
  /\ Enter(p, "rules", {e \in Stored : ~ row[e].tags})
  /\ ReadCopies(p, {e \in Stored : ~ row[e].tags})
  /\ UNCHANGED <<source, row, overlay, webVars>>

WriteRules(p) ==
  /\ pc[p] = "rules"
  /\ row' = [e \in Event |->
       IF e \in todo[p] THEN [copy[p][e] EXCEPT !.tags = TRUE] ELSE row[e]]
  /\ Forget(p)
  /\ UNCHANGED <<source, overlay, webVars>>

-----------------------------------------------------------------------------
\* Overlays.

\* Events without an overlay of this provider, and those whose last check is
\* older than seven days: any of them may be.
Needing(k, old) == {e \in Stored : overlay[TableOf(k)][e] # k \/ e \in old}

StartOverlays(p, k) ==
  /\ Runs(p, k)
  /\ \E old \in SUBSET Stored :
       /\ Needing(k, old) # {}
       /\ Enter(p, k, FirstOf(Needing(k, old)))
  /\ UNCHANGED <<source, row, overlay, copy, webVars>>

\* No match, or the provider fails; the event is not marked.
Unmatched(p, e) ==
  /\ pc[p] \in Provider \ {"links"}
  /\ Turn(p, e)
  /\ Done(p, e)
  /\ UNCHANGED <<source, row, overlay, webVars>>

Overlaid(k, e) == overlay' = [overlay EXCEPT ![TableOf(k)][e] = k]

SaveOverlay(p, e) ==
  /\ pc[p] \in Provider
  /\ Turn(p, e)
  /\ row[e] # NoRow
  /\ Overlaid(pc[p], e)
  /\ Done(p, e)
  /\ UNCHANGED <<source, row, webVars>>

\* The event has been deleted: its foreign key raises, and the pass is over.
SaveRaises(p, e) ==
  /\ pc[p] \in Provider
  /\ Turn(p, e)
  /\ row[e] = NoRow
  /\ Forget(p)
  /\ UNCHANGED <<source, row, overlay, webVars>>

Kill(p) ==
  /\ pc[p] # "idle"
  /\ Forget(p)
  /\ UNCHANGED <<source, row, overlay, webVars>>

-----------------------------------------------------------------------------
\* The page of an event, whose fetch runs in a thread of the web process.

Bare(e) == overlay["details"][e] = NoOverlay
Told(e) == IF Bare(e) THEN status[e] ELSE "ready"

\* event_detail reads the status and then asks for a fetch.
Visit(e) ==
  /\ row[e] # NoRow
  /\ Told(e) = "idle"
  /\ visits[e] < MaxVisits[e]
  /\ visits' = [visits EXCEPT ![e] = @ + 1]
  /\ UNCHANGED <<source, row, overlay, passVars, status, thread>>

\* A fetch for every request.
FetchAnyway(e) ==
  /\ visits[e] > 0
  /\ visits' = [visits EXCEPT ![e] = @ - 1]
  /\ status' = [status EXCEPT ![e] = "fetching"]
  /\ thread' = [thread EXCEPT ![e] = "read"]
  /\ UNCHANGED <<source, row, overlay, passVars>>

\* start_event_augmentation, under a lock.
Fetch(e) ==
  /\ visits[e] > 0
  /\ visits' = [visits EXCEPT ![e] = @ - 1]
  /\ IF status[e] = "fetching"
       THEN UNCHANGED <<status, thread>>
       ELSE /\ status' = [status EXCEPT ![e] = "fetching"]
            /\ thread' = [thread EXCEPT ![e] = "read"]
  /\ UNCHANGED <<source, row, overlay, passVars>>

GoTo(e, from, to) == thread[e] = from /\ thread' = [thread EXCEPT ![e] = to]

FetchReads(e) ==
  /\ GoTo(e, "read", IF row[e] = NoRow THEN "check" ELSE "save")
  /\ UNCHANGED <<source, row, overlay, passVars, visits, status>>

\* A save that raises ends the thread, and nobody is told.
FetchSavesOrDies(e) ==
  /\ GoTo(e, "save", IF row[e] = NoRow THEN "none" ELSE "check")
  /\ IF row[e] = NoRow THEN UNCHANGED overlay ELSE Overlaid("links", e)
  /\ UNCHANGED <<source, row, passVars, visits, status>>

FetchSaves(e) ==
  /\ GoTo(e, "save", IF row[e] = NoRow THEN "failed" ELSE "check")
  /\ IF row[e] = NoRow THEN UNCHANGED overlay ELSE Overlaid("links", e)
  /\ UNCHANGED <<source, row, passVars, visits, status>>

\* Reading or saving raises, on a locked database for one.
FetchRaises(e) ==
  /\ GoTo(e, "read", "failed") \/ GoTo(e, "save", "failed")
  /\ UNCHANGED <<source, row, overlay, passVars, visits, status>>

FetchEnds(e) ==
  /\ \/ GoTo(e, "check", "none")
     \/ GoTo(e, "failed", "none")
  /\ status' = [status EXCEPT ![e] =
       IF thread[e] = "check" /\ ~ Bare(e) THEN "ready" ELSE "failed"]
  /\ UNCHANGED <<source, row, overlay, passVars, visits>>

\* The last look at the details is outside of the `try'.
FetchDies(e) ==
  /\ GoTo(e, "check", "died")
  /\ UNCHANGED <<source, row, overlay, passVars, visits, status>>

Restart ==
  /\ visits' = [e \in Event |-> 0]
  /\ status' = [e \in Event |-> "idle"]
  /\ thread' = [e \in Event |-> "none"]
  /\ UNCHANGED <<source, row, overlay, passVars>>

-----------------------------------------------------------------------------
Handle(p) ==
  \/ ReadCreated(p) \/ WriteRules(p)
  \/ \E e \in todo[p] :
       \/ NoPerformers(p, e) \/ WritePerformers(p, e)
       \/ Unmatched(p, e) \/ SaveOverlay(p, e) \/ SaveRaises(p, e)

FetchStep(e) ==
  \/ FetchReads(e) \/ FetchSaves(e) \/ FetchRaises(e)
  \/ FetchEnds(e) \/ FetchDies(e)

Next ==
  \/ \E e \in Event, v \in Version \cup {None} : Edit(e, v)
  \/ \E p \in Process :
       \/ Sync(p) \/ StartTitles(p) \/ StartRules(p)
       \/ \E k \in Provider : StartOverlays(p, k)
       \/ Handle(p) \/ Kill(p)
  \/ \E e \in Event : Visit(e) \/ Fetch(e) \/ FetchStep(e)
  \/ Restart

Spec == Init /\ [][Next]_vars

\* Passes and threads come to their end, and some process synchronises again
\* and again; nobody has to start a pass or to visit a page.
Fairness ==
  /\ \A p \in Process : WF_vars(Handle(p))
  /\ \A p \in Scheduled : SF_vars(Sync(p))
  /\ \A e \in Event : WF_vars(Fetch(e)) /\ WF_vars(FetchStep(e))

FairSpec == Spec /\ Fairness

-----------------------------------------------------------------------------
\* What the additions promise.

\* Overlays belong to stored events, although events are deleted while a pass
\* or a page looks something up for them.
OverlaysHaveEvents ==
  \A t \in Table, e \in Event : overlay[t][e] # NoOverlay => row[e] # NoRow

\* However many requests find an event without details, one fetch at a time
\* runs for it.
OneFetch ==
  [][\A e \in Event :
       thread[e] \in {"save", "check", "failed"} => thread'[e] # "read"]_vars

\* A page that waits for a fetch is told the result, unless the thread has
\* died on its last look at the details.
FetchAnswered ==
  \A e \in Event : Told(e) = "fetching" ~>
    Told(e) # "fetching" \/ thread[e] = "died"

\* Passes write events as they were when they read them, and may even bring a
\* deleted event back; once the feed settles, the syncs undo all of that (as
\* long as each of them has a document to write, see above).
VersionIn(f) == \A e \in Event : row[e].ver = f[e]
StaleWritesHeal ==
  \A f \in [Event -> Version \cup {None}] :
    (\E e \in Event : f[e] # None) =>
      (<>[](source = f) => <>[]VersionIn(f))
=============================================================================
