------------------------ MODULE VenueCatalogProofs -------------------------
(***************************************************************************)
(* What holds of VenueCatalog for every number of events, names, passes    *)
(* and editors, and for every answer of Nominatim.                         *)
(***************************************************************************)
EXTENDS VenueCatalog, TLAPS

LEMMA NoVenueType == NoVenue \in Venue
  BY DEF NoVenue, Venue, Status

LEMMA NewVenueType ==
  ASSUME NEW l \in Label PROVE NewVenue(l) \in Venue
  BY DEF NewVenue, Venue, Status

LEMMA EditedType ==
  ASSUME NEW v, NEW l \in Label \cup {None}, NEW m \in Place \cup {None}
  PROVE  Edited(v, l, m) \in Venue
  BY DEF Edited, Venue, Status

LEMMA PassesAreActors == Pass \subseteq Actor /\ Editor \subseteq Actor
  BY DEF Actor

-----------------------------------------------------------------------------
\* Type correctness, with the names that stored venues and copies have.

TypeInv == TypeOK /\ CopiesNamed

LEMMA InitType == Init => TypeInv
<1>. SUFFICES ASSUME Init PROVE TypeInv
  OBVIOUS
<1>1. TypeOK
  BY NoVenueType DEF Init, TypeOK, NoCopies, NoEvents, NoNames, Stage
<1>2. Stored = {} /\ \A p \in Actor : Pending(p) = {}
  BY DEF Init, Stored, Pending, NoCopies, NoVenue
<1>3. \A p \in Actor, v \in Id : at[p] # v
  BY IdAssumption DEF Init
<1>. QED
  BY <1>1, <1>2, <1>3 DEF TypeInv, CopiesNamed

\* A row is replaced by a named one of the right type.
LEMMA WriteType ==
  ASSUME TypeInv, NEW v \in Id, NEW r \in Venue, r.name \in Label,
         venue' = [venue EXCEPT ![v] = r]
  PROVE  venue' \in [Id -> Venue] /\ \A u \in Stored' : venue'[u].name \in Label
  BY DEF TypeInv, TypeOK, CopiesNamed, Stored

\* An actor forgets a copy, or all of them.
LEMMA FinishType ==
  ASSUME TypeInv, NEW p \in Actor, NEW v \in Id, Finish(p, v)
  PROVE  /\ pc' \in [Actor -> Stage]
         /\ copy' \in [Actor -> [Id -> Venue]]
         /\ at' \in [Actor -> Id \cup {None}]
         /\ found' \in [Actor -> SUBSET Place]
         /\ \A q \in Actor, u \in Id :
              /\ u \in Pending(q)' => copy'[q][u].name \in Label
              /\ at'[q] = u => u \in Pending(q)' /\ pc'[q] \in Working
<1>1. pc' \in [Actor -> Stage]
  BY DEF TypeInv, TypeOK, Finish, Stage
<1>2. copy' \in [Actor -> [Id -> Venue]]
  BY NoVenueType DEF TypeInv, TypeOK, Finish
<1>3. at' \in [Actor -> Id \cup {None}] /\ found' \in [Actor -> SUBSET Place]
  BY DEF TypeInv, TypeOK, Finish
<1>4. ASSUME NEW q \in Actor, NEW u \in Id
      PROVE  /\ u \in Pending(q)' => copy'[q][u].name \in Label
             /\ at'[q] = u => u \in Pending(q)' /\ pc'[q] \in Working
  <2>1. CASE q = p
    <3>1. \A w \in Id : copy'[p][w] = IF w = v THEN NoVenue ELSE copy[p][w]
      BY DEF TypeInv, TypeOK, Finish
    <3>2. at'[p] # u
      BY IdAssumption DEF TypeInv, TypeOK, Finish
    <3>. QED
      BY <2>1, <3>1, <3>2 DEF TypeInv, CopiesNamed, Pending, NoVenue
  <2>2. CASE q # p
    <3>1. copy'[q] = copy[q] /\ at'[q] = at[q] /\ pc'[q] = pc[q]
      BY <2>2 DEF TypeInv, TypeOK, Finish
    <3>. QED
      BY <3>1 DEF TypeInv, CopiesNamed, Pending
  <2>. QED
    BY <2>1, <2>2
<1>. QED
  BY <1>1, <1>2, <1>3, <1>4

LEMMA LeaveType ==
  ASSUME TypeInv, NEW p \in Actor, Leave(p)
  PROVE  /\ pc' \in [Actor -> Stage]
         /\ copy' \in [Actor -> [Id -> Venue]]
         /\ at' \in [Actor -> Id \cup {None}]
         /\ found' \in [Actor -> SUBSET Place]
         /\ \A q \in Actor, u \in Id :
              /\ u \in Pending(q)' => copy'[q][u].name \in Label
              /\ at'[q] = u => u \in Pending(q)' /\ pc'[q] \in Working
<1>1. pc' \in [Actor -> Stage]
  BY DEF TypeInv, TypeOK, Leave, Stage
<1>2. copy' \in [Actor -> [Id -> Venue]]
  BY NoVenueType DEF TypeInv, TypeOK, Leave, NoCopies
<1>3. at' \in [Actor -> Id \cup {None}] /\ found' \in [Actor -> SUBSET Place]
  BY DEF TypeInv, TypeOK, Leave
<1>4. ASSUME NEW q \in Actor, NEW u \in Id
      PROVE  /\ u \in Pending(q)' => copy'[q][u].name \in Label
             /\ at'[q] = u => u \in Pending(q)' /\ pc'[q] \in Working
  <2>1. CASE q = p
    BY <2>1, IdAssumption DEF TypeInv, TypeOK, Leave, Pending, NoCopies, NoVenue
  <2>2. CASE q # p
    <3>1. copy'[q] = copy[q] /\ at'[q] = at[q] /\ pc'[q] = pc[q]
      BY <2>2 DEF TypeInv, TypeOK, Leave
    <3>. QED
      BY <3>1 DEF TypeInv, CopiesNamed, Pending
  <2>. QED
    BY <2>1, <2>2
<1>. QED
  BY <1>1, <1>2, <1>3, <1>4

LEMMA LookupType ==
  ASSUME TypeInv, NEW p \in Actor, NEW v \in Id, Lookup(p, v)
  PROVE  TypeInv'
<1>0. copy[p][v].name \in Label
  BY DEF Lookup, TypeInv, CopiesNamed
<1>1. PICK answer \in Answers[copy[p][v].name] : found' = [found EXCEPT ![p] = answer]
  BY DEF Lookup
<1>2. answer \in SUBSET Place
  BY <1>0, ConstantsAssumption
<1>3. TypeOK'
  BY <1>1, <1>2 DEF Lookup, Goto, TypeInv, TypeOK, tables, lists, Stage
<1>4. /\ venue' = venue /\ copy' = copy
      /\ \A q \in Actor \ {p} : at'[q] = at[q] /\ pc'[q] = pc[q]
      /\ at'[p] = v /\ pc'[p] \in Working /\ v \in Pending(p)
  BY DEF Lookup, Goto, TypeInv, TypeOK, tables, Working
<1>5. CopiesNamed'
  BY <1>4 DEF TypeInv, CopiesNamed, Pending, Stored
<1>. QED
  BY <1>3, <1>5 DEF TypeInv

-----------------------------------------------------------------------------
\* The steps of the catalogue.

LEMMA SyncEventType ==
  ASSUME TypeInv, NEW e \in Event, NEW l \in Names[e], SyncEvent(e, l)
  PROVE  TypeInv'
<1>1. l \in Label \cup {None}
  BY ConstantsAssumption
<1>2. TypeOK'
  BY <1>1 DEF SyncEvent, TypeInv, TypeOK, lists, work
<1>. QED
  BY <1>2 DEF SyncEvent, TypeInv, CopiesNamed, Pending, Stored, lists, work

LEMMA CatalogueType ==
  ASSUME TypeInv, NEW p \in Pass, NEW e \in Event, Catalogue(p, e)
  PROVE  TypeInv'
<1>p. p \in Actor /\ todo[p][e] \in Label \cup {None}
  BY PassesAreActors DEF TypeInv, TypeOK
<1>1. CASE LinkEvent(p, e)
  <2>1. todo[p][e] \in Label /\ byName[p][todo[p][e]] \in Id \cup {None}
    BY <1>1, <1>p DEF LinkEvent, TypeInv, TypeOK
  <2>2. link' \in [Event -> Id \cup {None}]
    BY <1>1, <2>1 DEF LinkEvent, TypeInv, TypeOK
  <2>3. todo' \in [Pass -> [Event -> Label \cup {None}]]
        /\ linked' \in [Pass -> [Event -> Id \cup {None}]]
    BY <1>1 DEF LinkEvent, Linked, TypeInv, TypeOK
  <2>. QED
    BY <1>1, <2>2, <2>3
       DEF LinkEvent, TypeInv, TypeOK, CopiesNamed, Pending, Stored, work
<1>2. ASSUME NEW v \in Id, CreateVenue(p, e, v) PROVE TypeInv'
  <2>1. todo[p][e] \in Label
    BY <1>2, <1>p DEF CreateVenue
  <2>2. NewVenue(todo[p][e]) \in Venue /\ NewVenue(todo[p][e]).name \in Label
    BY <2>1, NewVenueType DEF NewVenue
  <2>3. venue' \in [Id -> Venue] /\ \A u \in Stored' : venue'[u].name \in Label
    BY <1>2, <2>2, WriteType DEF CreateVenue
  <2>4. byName' \in [Pass -> [Label -> Id \cup {None}]]
    BY <1>2, <2>1 DEF CreateVenue, TypeInv, TypeOK
  <2>. QED
    BY <1>2, <2>3, <2>4
       DEF CreateVenue, TypeInv, TypeOK, CopiesNamed, Pending, work
<1>. QED
  BY <1>1, <1>2 DEF Catalogue

LEMMA ListsType ==
  ASSUME TypeInv, NEW p \in Pass,
         \/ StartPass(p) \/ ReadVenues(p) \/ ReadEvents(p) \/ ReadLinks(p)
  PROVE  TypeInv'
<1>p. p \in Actor
  BY PassesAreActors
<1>1. copy' = copy /\ at' = at /\ found' = found /\ UNCHANGED tables
  BY DEF StartPass, ReadVenues, ReadEvents, ReadLinks, work
<1>0. pc[p] \notin Working /\ \A q \in Actor \ {p} : pc'[q] = pc[q]
  BY <1>p
     DEF StartPass, ReadVenues, ReadEvents, ReadLinks, Goto, TypeInv, TypeOK, Working
<1>2. CopiesNamed'
  <2>1. \A v \in Id : at[p] # v
    BY <1>0, <1>p DEF TypeInv, CopiesNamed
  <2>. QED
    BY <1>0, <1>1, <2>1 DEF TypeInv, CopiesNamed, Pending, Stored, tables
<1>3. pc' \in [Actor -> Stage]
  BY <1>p DEF StartPass, ReadVenues, ReadEvents, ReadLinks, Goto, TypeInv, TypeOK, Stage
<1>4. earlier' \in [Pass -> SUBSET Id]
  BY DEF StartPass, ReadVenues, ReadEvents, ReadLinks, TypeInv, TypeOK, Stored
<1>5. byName' \in [Pass -> [Label -> Id \cup {None}]]
  <2>1. CASE ReadVenues(p)
    <3>1. PICK names \in [Label -> Id \cup {None}] : byName' = [byName EXCEPT ![p] = names]
      BY <2>1 DEF ReadVenues
    <3>. QED
      BY <3>1 DEF TypeInv, TypeOK
  <2>2. CASE ~ ReadVenues(p)
    BY <2>2 DEF StartPass, ReadEvents, ReadLinks, TypeInv, TypeOK
  <2>. QED
    BY <2>1, <2>2
<1>6. todo' \in [Pass -> [Event -> Label \cup {None}]]
  BY DEF StartPass, ReadVenues, ReadEvents, ReadLinks, TypeInv, TypeOK
<1>7. linked' \in [Pass -> [Event -> Id \cup {None}]]
  <2>1. CASE ReadLinks(p)
    <3>1. \A e \in Event : link[e] \in Id \cup {None}
      BY DEF TypeInv, TypeOK
    <3>. QED
      BY <2>1, <3>1 DEF ReadLinks, TypeInv, TypeOK
  <2>2. CASE ~ ReadLinks(p)
    BY <2>2 DEF StartPass, ReadVenues, ReadEvents, TypeInv, TypeOK
  <2>. QED
    BY <2>1, <2>2
<1>. QED
  BY <1>1, <1>2, <1>3, <1>4, <1>5, <1>6, <1>7 DEF TypeInv, TypeOK, tables

LEMMA ListNewType ==
  ASSUME TypeInv, NEW p \in Pass, ListNew(p)
  PROVE  TypeInv'
<1>p. p \in Actor
  BY PassesAreActors
<1>1. NewVenues(p) \subseteq Stored
  BY DEF NewVenues
<1>2. copy' \in [Actor -> [Id -> Venue]]
  BY <1>p, NoVenueType DEF ListNew, TypeInv, TypeOK
<1>3. byName' \in [Pass -> [Label -> Id \cup {None}]]
  BY DEF ListNew, TypeInv, TypeOK, NoNames
<1>4. pc' \in [Actor -> Stage]
  BY <1>p DEF ListNew, TypeInv, TypeOK, Stage
<1>5. ASSUME NEW q \in Actor, NEW u \in Id
      PROVE  /\ u \in Pending(q)' => copy'[q][u].name \in Label
             /\ at'[q] = u => u \in Pending(q)' /\ pc'[q] \in Working
  <2>1. CASE q = p
    <3>1. at'[p] # u
      BY <1>p DEF ListNew, TypeInv, CopiesNamed, Working
    <3>2. copy'[p][u] = IF u \in NewVenues(p) THEN venue[u] ELSE NoVenue
      BY <1>p DEF ListNew, TypeInv, TypeOK
    <3>. QED
      BY <2>1, <3>1, <3>2, <1>1 DEF TypeInv, CopiesNamed, Pending, NoVenue
  <2>2. CASE q # p
    <3>1. copy'[q] = copy[q] /\ at'[q] = at[q] /\ pc'[q] = pc[q]
      BY <2>2, <1>p DEF ListNew, TypeInv, TypeOK
    <3>. QED
      BY <3>1 DEF TypeInv, CopiesNamed, Pending
  <2>. QED
    BY <2>1, <2>2
<1>. QED
  BY <1>1, <1>2, <1>3, <1>4, <1>5
     DEF ListNew, TypeInv, TypeOK, CopiesNamed, Stored, tables

-----------------------------------------------------------------------------
\* The decisions of a pass and the requests of editors.

\* A step of the review that writes a row, or none, and then ends a round or
\* the whole pass or request.
LEMMA RoundType ==
  ASSUME TypeInv, NEW p \in Actor, NEW v \in Id, Finish(p, v) \/ Leave(p),
         venue' \in [Id -> Venue], \A u \in Stored' : venue'[u].name \in Label,
         candidates' \in [Id -> SUBSET Place],
         UNCHANGED <<label, link, lists>>
  PROVE  TypeInv'
<1>1. /\ pc' \in [Actor -> Stage]
      /\ copy' \in [Actor -> [Id -> Venue]]
      /\ at' \in [Actor -> Id \cup {None}]
      /\ found' \in [Actor -> SUBSET Place]
      /\ \A q \in Actor, u \in Id :
           /\ u \in Pending(q)' => copy'[q][u].name \in Label
           /\ at'[q] = u => u \in Pending(q)' /\ pc'[q] \in Working
  BY FinishType, LeaveType
<1>2. TypeOK'
  BY <1>1 DEF TypeInv, TypeOK, lists
<1>3. CopiesNamed'
  BY <1>1 DEF CopiesNamed
<1>. QED
  BY <1>2, <1>3 DEF TypeInv

\* The row after select_venue_candidate.
LEMMA SelectedType ==
  ASSUME TypeInv, NEW v \in Id, NEW m, CanSelect(v, m)
  PROVE  /\ Selected(v, m) \in Venue
         /\ Selected(v, m).name = venue[v].name
         /\ Selected(v, m).status = "verified"
         /\ venue[v].name \in Label
<1>1. m \in Place /\ v \in Stored /\ venue[v] \in Venue
  BY DEF CanSelect, TypeInv, TypeOK
<1>2. venue[v].name \in Label
  BY <1>1 DEF TypeInv, CopiesNamed
<1>. QED
  BY <1>1, <1>2 DEF Selected, Venue, Status

\* A copy that is queued.
LEMMA QueuedType ==
  ASSUME TypeInv, NEW p \in Actor, NEW v \in Id, at[p] = v
  PROVE  /\ [copy[p][v] EXCEPT !.status = "candidate"] \in Venue
         /\ [copy[p][v] EXCEPT !.status = "candidate"].name = copy[p][v].name
         /\ [copy[p][v] EXCEPT !.status = "candidate"].status = "candidate"
         /\ copy[p][v].name \in Label
         /\ copy[p][v].status # "absent"
<1>1. v \in Pending(p) /\ copy[p][v] \in Venue
  BY DEF TypeInv, TypeOK, CopiesNamed
<1>2. copy[p][v].name \in Label /\ copy[p][v].status # "absent"
  BY <1>1 DEF TypeInv, CopiesNamed, Pending
<1>. QED
  BY <1>1, <1>2 DEF Venue, Status

LEMMA ReviewType ==
  ASSUME TypeInv, NEW p \in Pass, NEW v \in Id, Review(p, v)
  PROVE  TypeInv'
<1>p. p \in Actor
  BY PassesAreActors
<1>s. venue' = venue =>
        venue' \in [Id -> Venue] /\ \A u \in Stored' : venue'[u].name \in Label
  BY DEF TypeInv, TypeOK, CopiesNamed, Stored
<1>1. CASE Lookup(p, v)
  BY <1>1, <1>p, LookupType
<1>2. CASE LookupFails(p, v) \/ NoMatch(p, v) \/ SelectRaises(p, v)
  <2>1. Finish(p, v) \/ Leave(p)
    BY <1>2 DEF LookupFails, NoMatch, SelectRaises
  <2>2. UNCHANGED tables /\ UNCHANGED lists
    BY <1>2 DEF LookupFails, NoMatch, SelectRaises
  <2>3. candidates' \in [Id -> SUBSET Place]
    BY <2>2 DEF tables, TypeInv, TypeOK
  <2>. QED
    BY <2>1, <2>2, <2>3, <1>p, <1>s, RoundType DEF tables
<1>3. CASE RecordCandidates(p, v)
  <2>1. TypeOK'
    BY <1>3, <1>p DEF RecordCandidates, Goto, TypeInv, TypeOK, lists, work, Stage
  <2>2. \A q \in Actor : pc'[q] = pc[q] \/ pc'[q] \in Working
    BY <1>3, <1>p DEF RecordCandidates, Goto, TypeInv, TypeOK, Working
  <2>. QED
    BY <1>3, <2>1, <2>2
       DEF RecordCandidates, TypeInv, CopiesNamed, Pending, Stored, work
<1>4. CASE Select(p, v)
  <2>1. PICK m \in Place : CanSelect(v, m) /\ venue' = [venue EXCEPT ![v] = Selected(v, m)]
    BY <1>4 DEF Select
  <2>2. venue' \in [Id -> Venue] /\ \A u \in Stored' : venue'[u].name \in Label
    BY <2>1, SelectedType, WriteType
  <2>. QED
    BY <1>4, <1>p, <2>2, RoundType DEF Select, TypeInv, TypeOK
<1>5. CASE Queue(p, v)
  <2>1. venue' \in [Id -> Venue] /\ \A u \in Stored' : venue'[u].name \in Label
    BY <1>5, <1>p, QueuedType, WriteType DEF Queue
  <2>. QED
    BY <1>5, <1>p, <2>1, RoundType DEF Queue, TypeInv, TypeOK
<1>. QED
  BY <1>1, <1>2, <1>3, <1>4, <1>5 DEF Review

\* An editor takes a copy, to look it up or to approve it.
LEMMA CopyType ==
  ASSUME TypeInv, NEW e \in Editor, NEW v \in Id, NEW r \in Venue,
         r.name \in Label, r.status # "absent",
         copy' = [copy EXCEPT ![e][v] = r],
         \/ at' = at /\ pc[e] \notin Working
         \/ at' = [at EXCEPT ![e] = v] /\ pc'[e] \in Working,
         NEW from \in Stage, NEW to \in Stage, Goto(e, from, to),
         UNCHANGED <<tables, lists, found>>
  PROVE  TypeInv'
<1>e. e \in Actor
  BY PassesAreActors
<1>1. TypeOK'
  BY <1>e DEF Goto, TypeInv, TypeOK, tables, lists
<1>2. \A q \in Actor, u \in Id :
        copy'[q][u] = IF q = e /\ u = v THEN r ELSE copy[q][u]
  BY <1>e DEF TypeInv, TypeOK
<1>3. \A q \in Actor \ {e} : at'[q] = at[q] /\ pc'[q] = pc[q]
  BY <1>e DEF Goto, TypeInv, TypeOK
<1>4. \A u \in Id : at'[e] = u => u = v /\ pc'[e] \in Working
  BY <1>e DEF TypeInv, TypeOK, CopiesNamed
<1>5. venue' = venue
  BY DEF tables
<1>. QED
  BY <1>1, <1>2, <1>3, <1>4, <1>5, <1>e DEF TypeInv, CopiesNamed, Pending, Stored

LEMMA EditorStepType ==
  ASSUME TypeInv, NEW e \in Editor, NEW v \in Id, EditorStep(e, v)
  PROVE  TypeInv'
<1>e. e \in Actor
  BY PassesAreActors
<1>1. CASE Discover(e, v)
  <2>1. venue[v] \in Venue /\ venue[v].name \in Label /\ venue[v].status # "absent"
    BY <1>1 DEF Discover, TypeInv, TypeOK, CopiesNamed, Stored
  <2>2. pc[e] \notin Working /\ "idle" \in Stage /\ "lookup" \in Stage
    BY <1>1 DEF Discover, Goto, Working, Stage
  <2>. QED
    BY <1>1, <2>1, <2>2, CopyType DEF Discover
<1>2. CASE Lookup(e, v)
  BY <1>2, <1>e, LookupType
<1>3. CASE RefreshSuggestions(e, v)
  <2>1. candidates' \in [Id -> SUBSET Place]
    BY <1>3, <1>e DEF RefreshSuggestions, TypeInv, TypeOK
  <2>2. venue' \in [Id -> Venue] /\ \A u \in Stored' : venue'[u].name \in Label
    BY <1>3 DEF RefreshSuggestions, TypeInv, TypeOK, CopiesNamed, Stored
  <2>3. CASE Leave(e)
    BY <1>3, <1>e, <2>1, <2>2, <2>3, RoundType DEF RefreshSuggestions
  <2>4. CASE pc' = [pc EXCEPT ![e] = "requeue"] /\ UNCHANGED work
    <3>1. TypeOK'
      BY <1>3, <2>1, <2>2, <2>4 DEF RefreshSuggestions, TypeInv, TypeOK, lists, work, Stage
    <3>2. \A q \in Actor : pc'[q] = pc[q] \/ pc'[q] \in Working
      BY <2>4, <1>e DEF TypeInv, TypeOK, Working
    <3>. QED
      BY <2>2, <2>4, <3>1, <3>2 DEF TypeInv, CopiesNamed, Pending, work
  <2>. QED
    BY <1>3, <2>3, <2>4 DEF RefreshSuggestions
<1>4. CASE Requeue(e, v)
  <2>1. venue' \in [Id -> Venue] /\ \A u \in Stored' : venue'[u].name \in Label
    BY <1>4, <1>e, QueuedType, WriteType DEF Requeue
  <2>. QED
    BY <1>4, <1>e, <2>1, RoundType DEF Requeue, TypeInv, TypeOK
<1>5. CASE SelectApproved(e, v)
  <2>1. venue' \in [Id -> Venue] /\ \A u \in Stored' : venue'[u].name \in Label
    BY <1>5, SelectedType, WriteType DEF SelectApproved
  <2>2. TypeOK'
    BY <1>5, <2>1 DEF SelectApproved, Goto, TypeInv, TypeOK, lists, work, Stage
  <2>3. \A q \in Actor : pc'[q] = pc[q] \/ pc'[q] \in Working
    BY <1>5, <1>e DEF SelectApproved, Goto, TypeInv, TypeOK, Working
  <2>. QED
    BY <1>5, <2>1, <2>2, <2>3 DEF SelectApproved, TypeInv, CopiesNamed, Pending, work
<1>6. CASE SaveApproved(e, v)
  <2>1. v \in Pending(e) /\ copy[e][v] \in Venue /\ copy[e][v].name \in Label
    BY <1>6, <1>e DEF SaveApproved, TypeInv, TypeOK, CopiesNamed
  <2>2. venue' \in [Id -> Venue] /\ \A u \in Stored' : venue'[u].name \in Label
    BY <1>6, <2>1, WriteType DEF SaveApproved
  <2>. QED
    BY <1>6, <1>e, <2>2, RoundType DEF SaveApproved, TypeInv, TypeOK
<1>7. ASSUME NEW l \in Label, ApproveAsEdited(e, v, l) PROVE TypeInv'
  <2>1. venue[v].place \in Place \cup {None}
    BY DEF TypeInv, TypeOK, Venue
  <2>2. Edited(v, l, venue[v].place) \in Venue
    BY <2>1, EditedType
  <2>3. pc'[e] \in Working /\ "idle" \in Stage /\ "save" \in Stage
    BY <1>7, <1>e DEF ApproveAsEdited, Goto, Working, Stage, TypeInv, TypeOK
  <2>. QED
    BY <1>7, <2>2, <2>3, CopyType DEF ApproveAsEdited, CheckForm, Edited
<1>8. ASSUME NEW l \in Label, NEW m \in Place, ApproveCandidate(e, v, l, m)
      PROVE  TypeInv'
  <2>1. Edited(v, l, m) \in Venue
    BY EditedType
  <2>2. pc'[e] \in Working /\ "idle" \in Stage /\ "select" \in Stage
    BY <1>8, <1>e DEF ApproveCandidate, Goto, Working, Stage, TypeInv, TypeOK
  <2>. QED
    BY <1>8, <2>1, <2>2, CopyType DEF ApproveCandidate, CheckForm, Edited
<1>. QED
  BY <1>1, <1>2, <1>3, <1>4, <1>5, <1>6, <1>7, <1>8 DEF EditorStep

LEMMA AcceptType ==
  ASSUME TypeInv, NEW v \in Id, NEW m \in Place, Accept(v, m)
  PROVE  TypeInv'
<1>1. venue' \in [Id -> Venue] /\ \A u \in Stored' : venue'[u].name \in Label
  BY SelectedType, WriteType DEF Accept
<1>. QED
  BY <1>1 DEF Accept, TypeInv, TypeOK, CopiesNamed, Pending, lists, work

LEMMA AbandonType ==
  ASSUME TypeInv, NEW p \in Actor, Abandon(p)
  PROVE  TypeInv'
<1>1. /\ byName' \in [Pass -> [Label -> Id \cup {None}]]
      /\ todo' \in [Pass -> [Event -> Label \cup {None}]]
      /\ linked' \in [Pass -> [Event -> Id \cup {None}]]
  BY DEF Abandon, TypeInv, TypeOK, NoNames, NoEvents
<1>2. TypeOK' /\ CopiesNamed'
  BY <1>1, LeaveType DEF Abandon, TypeInv, TypeOK, CopiesNamed, Stored, tables
<1>. QED
  BY <1>2 DEF TypeInv

LEMMA NextType == TypeInv /\ [Next]_vars => TypeInv'
<1>. SUFFICES ASSUME TypeInv, [Next]_vars PROVE TypeInv'
  OBVIOUS
<1>1. CASE UNCHANGED vars
  BY <1>1
     DEF vars, tables, lists, work, TypeInv, TypeOK, CopiesNamed, Pending, Stored
<1>2. ASSUME NEW p \in Pass, PassStep(p) PROVE TypeInv'
  BY <1>2, ListsType, ListNewType, CatalogueType, ReviewType DEF PassStep
<1>. QED
  BY <1>1, <1>2, SyncEventType, EditorStepType, AcceptType, AbandonType DEF Next

LEMMA TypeAlways == Spec => []TypeInv
  BY InitType, NextType, PTL DEF Spec

\* Every reachable state of any instance is well typed.
THEOREM CatalogTypeCorrect == Spec => []TypeOK
<1>1. TypeInv => TypeOK
  BY DEF TypeInv
<1>. QED
  BY <1>1, TypeAlways, PTL

-----------------------------------------------------------------------------
\* The approval queue.

SuggestionsInv == QueuedHasSuggestions /\ SuggestionsKnown

\* No step takes the last suggestion away, so what was known of them stays.
LEMMA KnownStays ==
  ASSUME SuggestionsInv,
         \A v \in Id : candidates[v] # {} => candidates'[v] # {},
         \A v \in Id : venue'[v].status = "candidate" =>
           venue[v].status = "candidate" \/ candidates'[v] # {},
         \A p \in Actor, v \in Id : copy'[p][v].status = "candidate" =>
           copy[p][v].status = "candidate" \/ candidates'[v] # {},
         \A p \in Actor, v \in Id : pc'[p] \in {"decide", "requeue"} /\ at'[p] = v =>
           \/ pc[p] \in {"decide", "requeue"} /\ at[p] = v
           \/ candidates'[v] # {}
  PROVE  SuggestionsInv'
  BY DEF SuggestionsInv, QueuedHasSuggestions, SuggestionsKnown

\* The end of a round or of a request adds nothing to what is known.
LEMMA EndAddsNothing ==
  ASSUME TypeInv, NEW p \in Actor, NEW v \in Id, Finish(p, v) \/ Leave(p)
  PROVE  /\ \A q \in Actor, u \in Id :
              copy'[q][u].status = "candidate" => copy[q][u].status = "candidate"
         /\ \A q \in Actor : pc'[q] \in {"decide", "requeue"} =>
              pc'[q] = pc[q] /\ at'[q] = at[q]
<1>1. \A q \in Actor, u \in Id : copy'[q][u] = copy[q][u] \/ copy'[q][u] = NoVenue
  <2>1. CASE Finish(p, v)
    BY <2>1 DEF Finish, TypeInv, TypeOK
  <2>2. CASE Leave(p)
    BY <2>2 DEF Leave, NoCopies, TypeInv, TypeOK
  <2>. QED
    BY <2>1, <2>2
<1>2. \A q \in Actor \ {p} : pc'[q] = pc[q] /\ at'[q] = at[q]
  BY DEF Finish, Leave, TypeInv, TypeOK
<1>3. pc'[p] \in {"idle", "lookup"}
  BY DEF Finish, Leave, TypeInv, TypeOK
<1>. QED
  BY <1>1, <1>2, <1>3 DEF NoVenue

LEMMA InitSuggestions == Init => SuggestionsInv
  BY DEF Init, SuggestionsInv, QueuedHasSuggestions, SuggestionsKnown, NoCopies, NoVenue

LEMMA CatalogueSuggestions ==
  ASSUME TypeInv, SuggestionsInv, NEW p \in Pass, NEW e \in Event, Catalogue(p, e)
  PROVE  SuggestionsInv'
<1>1. CASE LinkEvent(p, e)
  BY <1>1, KnownStays DEF LinkEvent, work
<1>2. ASSUME NEW v \in Id, CreateVenue(p, e, v) PROVE SuggestionsInv'
  <2>1. \A u \in Id : venue'[u].status = "candidate" => venue[u].status = "candidate"
    BY <1>2 DEF CreateVenue, NewVenue, TypeInv, TypeOK
  <2>. QED
    BY <1>2, <2>1, KnownStays DEF CreateVenue, work
<1>. QED
  BY <1>1, <1>2 DEF Catalogue

LEMMA ListsSuggestions ==
  ASSUME TypeInv, SuggestionsInv, NEW p \in Pass,
         \/ StartPass(p) \/ ReadVenues(p) \/ ReadEvents(p) \/ ReadLinks(p) \/ ListNew(p)
  PROVE  SuggestionsInv'
<1>p. p \in Actor
  BY PassesAreActors
<1>1. UNCHANGED tables /\ at' = at
  BY DEF StartPass, ReadVenues, ReadEvents, ReadLinks, ListNew, work
<1>2. \A q \in Actor : pc'[q] \in {"decide", "requeue"} => pc'[q] = pc[q]
  BY <1>p DEF StartPass, ReadVenues, ReadEvents, ReadLinks, ListNew, Goto, TypeInv, TypeOK
<1>3. \A q \in Actor, u \in Id : copy'[q][u].status = "candidate" =>
        copy[q][u].status = "candidate" \/ venue[u].status = "candidate"
  <2>1. CASE ListNew(p)
    BY <1>p, <2>1 DEF ListNew, TypeInv, TypeOK, NoVenue
  <2>2. CASE copy' = copy
    BY <2>2
  <2>. QED
    BY <2>1, <2>2 DEF StartPass, ReadVenues, ReadEvents, ReadLinks, work
<1>4. \A u \in Id : venue[u].status = "candidate" => candidates'[u] # {}
  BY <1>1 DEF tables, SuggestionsInv, QueuedHasSuggestions
<1>. QED
  BY <1>1, <1>2, <1>3, <1>4, KnownStays DEF tables

LEMMA LookupSuggestions ==
  ASSUME TypeInv, SuggestionsInv, NEW p \in Actor, NEW v \in Id, Lookup(p, v)
  PROVE  SuggestionsInv'
<1>1. \A q \in Actor : pc'[q] \in {"decide", "requeue"} => pc'[q] = pc[q] /\ at'[q] = at[q]
  BY DEF Lookup, Goto, TypeInv, TypeOK
<1>. QED
  BY <1>1, KnownStays DEF Lookup, tables

LEMMA ReviewSuggestions ==
  ASSUME TypeInv, SuggestionsInv, NEW p \in Pass, NEW v \in Id, Review(p, v)
  PROVE  SuggestionsInv'
<1>p. p \in Actor
  BY PassesAreActors
<1>1. CASE Lookup(p, v)
  BY <1>1, <1>p, LookupSuggestions
<1>2. CASE LookupFails(p, v) \/ NoMatch(p, v) \/ SelectRaises(p, v)
  <2>1. (Finish(p, v) \/ Leave(p)) /\ UNCHANGED tables
    BY <1>2 DEF LookupFails, NoMatch, SelectRaises
  <2>. QED
    BY <2>1, <1>p, EndAddsNothing, KnownStays DEF tables
<1>3. CASE RecordCandidates(p, v)
  <2>1. \A u \in Id : candidates'[u] = IF u = v THEN found[p] ELSE candidates[u]
    BY <1>3 DEF RecordCandidates, TypeInv, TypeOK
  <2>2. found[p] # {} /\ at[p] = v
    BY <1>3 DEF RecordCandidates
  <2>3. \A q \in Actor \ {p} : pc'[q] = pc[q]
    BY <1>3, <1>p DEF RecordCandidates, Goto, TypeInv, TypeOK
  <2>. QED
    BY <1>3, <2>1, <2>2, <2>3, KnownStays DEF RecordCandidates, work
<1>4. CASE Select(p, v)
  <2>1. PICK m \in Place : CanSelect(v, m) /\ venue' = [venue EXCEPT ![v] = Selected(v, m)]
    BY <1>4 DEF Select
  <2>2. \A u \in Id : venue'[u].status = "candidate" => venue[u].status = "candidate"
    BY <2>1, SelectedType DEF TypeInv, TypeOK
  <2>. QED
    BY <1>4, <2>2, <1>p, EndAddsNothing, KnownStays DEF Select
<1>5. CASE Queue(p, v)
  <2>1. candidates[v] # {}
    BY <1>5, <1>p DEF Queue, SuggestionsInv, SuggestionsKnown
  <2>2. \A u \in Id \ {v} : venue'[u] = venue[u]
    BY <1>5 DEF Queue, TypeInv, TypeOK
  <2>. QED
    BY <1>5, <2>1, <2>2, <1>p, EndAddsNothing, KnownStays DEF Queue
<1>. QED
  BY <1>1, <1>2, <1>3, <1>4, <1>5 DEF Review

LEMMA EditorSuggestions ==
  ASSUME TypeInv, SuggestionsInv, NEW e \in Editor, NEW v \in Id, EditorStep(e, v)
  PROVE  SuggestionsInv'
<1>e. e \in Actor
  BY PassesAreActors
<1>1. CASE Discover(e, v)
  <2>1. \A q \in Actor, u \in Id :
          copy'[q][u] = copy[q][u] \/ (u = v /\ copy'[q][u] = venue[v])
    BY <1>1, <1>e DEF Discover, TypeInv, TypeOK
  <2>2. \A q \in Actor : pc'[q] \in {"decide", "requeue"} => pc'[q] = pc[q]
    BY <1>1, <1>e DEF Discover, Goto, TypeInv, TypeOK
  <2>3. venue[v].status = "candidate" => candidates[v] # {}
    BY DEF SuggestionsInv, QueuedHasSuggestions
  <2>. QED
    BY <1>1, <2>1, <2>2, <2>3, KnownStays DEF Discover, tables
<1>2. CASE Lookup(e, v)
  BY <1>2, <1>e, LookupSuggestions
<1>3. CASE RefreshSuggestions(e, v)
  <2>1. \A u \in Id : candidates'[u] =
          IF u = v /\ found[e] # {} THEN found[e] ELSE candidates[u]
    BY <1>3 DEF RefreshSuggestions, TypeInv, TypeOK
  <2>2. venue' = venue
    BY <1>3 DEF RefreshSuggestions
  <2>3. CASE Leave(e)
    BY <2>1, <2>2, <2>3, <1>e, EndAddsNothing, KnownStays
  <2>4. CASE found[e] # {} /\ pc' = [pc EXCEPT ![e] = "requeue"] /\ UNCHANGED work
    <3>1. at[e] = v /\ at' = at /\ copy' = copy /\ \A q \in Actor \ {e} : pc'[q] = pc[q]
      BY <1>3, <2>4, <1>e DEF RefreshSuggestions, TypeInv, TypeOK, work
    <3>. QED
      BY <2>1, <2>2, <2>4, <3>1, KnownStays
  <2>. QED
    BY <1>3, <2>3, <2>4 DEF RefreshSuggestions
<1>4. CASE Requeue(e, v)
  <2>1. candidates[v] # {}
    BY <1>4, <1>e DEF Requeue, SuggestionsInv, SuggestionsKnown
  <2>2. \A u \in Id \ {v} : venue'[u] = venue[u]
    BY <1>4 DEF Requeue, TypeInv, TypeOK
  <2>. QED
    BY <1>4, <2>1, <2>2, <1>e, EndAddsNothing, KnownStays DEF Requeue
<1>5. CASE SelectApproved(e, v)
  <2>1. \A u \in Id : venue'[u].status = "candidate" => venue[u].status = "candidate"
    BY <1>5, SelectedType DEF SelectApproved, TypeInv, TypeOK
  <2>2. \A q \in Actor : pc'[q] \in {"decide", "requeue"} => pc'[q] = pc[q]
    BY <1>5, <1>e DEF SelectApproved, Goto, TypeInv, TypeOK
  <2>. QED
    BY <1>5, <2>1, <2>2, KnownStays DEF SelectApproved, work
<1>6. CASE SaveApproved(e, v)
  <2>1. copy[e][v].status = "candidate" => candidates[v] # {}
    BY <1>e DEF SuggestionsInv, SuggestionsKnown
  <2>2. \A u \in Id : venue'[u] = IF u = v THEN copy[e][v] ELSE venue[u]
    BY <1>6 DEF SaveApproved, TypeInv, TypeOK
  <2>. QED
    BY <1>6, <2>1, <2>2, <1>e, EndAddsNothing, KnownStays DEF SaveApproved
<1>7. ASSUME NEW l \in Label, NEW m \in Place \cup {None}, CheckForm(e, v, l, m),
             UNCHANGED tables,
             \E to \in {"select", "save"} : Goto(e, "idle", to)
      PROVE  SuggestionsInv'
  <2>1. \A q \in Actor, u \in Id :
          copy'[q][u].status = "candidate" => copy[q][u].status = "candidate"
    BY <1>7, <1>e DEF CheckForm, Edited, TypeInv, TypeOK
  <2>2. \A q \in Actor : pc'[q] \in {"decide", "requeue"} => pc'[q] = pc[q] /\ at'[q] = at[q]
    BY <1>7, <1>e DEF CheckForm, Goto, TypeInv, TypeOK
  <2>. QED
    BY <1>7, <2>1, <2>2, KnownStays DEF tables
<1>8. venue[v].place \in Place \cup {None}
  BY DEF TypeInv, TypeOK, Venue
<1>. QED
  BY <1>1, <1>2, <1>3, <1>4, <1>5, <1>6, <1>7, <1>8
     DEF EditorStep, ApproveAsEdited, ApproveCandidate

LEMMA NextSuggestions ==
  TypeInv /\ SuggestionsInv /\ [Next]_vars => SuggestionsInv'
<1>. SUFFICES ASSUME TypeInv, SuggestionsInv, [Next]_vars PROVE SuggestionsInv'
  OBVIOUS
<1>1. CASE UNCHANGED vars
  BY <1>1, KnownStays DEF vars, tables, work
<1>2. ASSUME NEW p \in Pass, PassStep(p) PROVE SuggestionsInv'
  BY <1>2, ListsSuggestions, CatalogueSuggestions, ReviewSuggestions DEF PassStep
<1>3. ASSUME NEW e \in Event, NEW l \in Names[e], SyncEvent(e, l) PROVE SuggestionsInv'
  BY <1>3, KnownStays DEF SyncEvent, work
<1>4. ASSUME NEW v \in Id, NEW m \in Place, Accept(v, m) PROVE SuggestionsInv'
  <2>1. \A u \in Id : venue'[u].status = "candidate" => venue[u].status = "candidate"
    BY <1>4, SelectedType DEF Accept, TypeInv, TypeOK
  <2>. QED
    BY <1>4, <2>1, KnownStays DEF Accept, work
<1>5. ASSUME NEW p \in Actor, Abandon(p) PROVE SuggestionsInv'
  <2>1. \A v \in Id : SuggestionsInv'
    BY <1>5, EndAddsNothing, KnownStays DEF Abandon, tables
  <2>2. CASE Id = {}
    BY <2>2 DEF SuggestionsInv, QueuedHasSuggestions, SuggestionsKnown
  <2>. QED
    BY <2>1, <2>2
<1>. QED
  BY <1>1, <1>2, <1>3, <1>4, <1>5, EditorSuggestions DEF Next

LEMMA SuggestionsAlways == Spec => [](TypeInv /\ SuggestionsInv)
  BY InitType, NextType, InitSuggestions, NextSuggestions, PTL DEF Spec

\* However passes, lookups, refreshes and approvals overlap, a venue that
\* waits for approval as a candidate has suggestions to choose from.
THEOREM CandidatesHaveSuggestions == Spec => []QueuedHasSuggestions
<1>1. TypeInv /\ SuggestionsInv => QueuedHasSuggestions
  BY DEF SuggestionsInv
<1>. QED
  BY <1>1, SuggestionsAlways, PTL

-----------------------------------------------------------------------------
\* A pass that runs alone, without renames.

AloneInv ==
  /\ NamesUnique
  /\ CopiesKeepNames
  /\ \A p \in Pass : MapComplete(p) /\ HoldsNewVenues(p)

\* No venue is stored, removed or renamed.
SameNames ==
  Stored' = Stored /\ \A v \in Stored : venue'[v].name = venue[v].name

LEMMA WriteKeepsNames ==
  ASSUME TypeInv, NEW v \in Stored, NEW r, r.status # "absent",
         r.name = venue[v].name, venue' = [venue EXCEPT ![v] = r]
  PROVE  SameNames
<1>1. \A u \in Id : venue'[u] = IF u = v THEN r ELSE venue[u]
  BY DEF TypeInv, TypeOK
<1>. QED
  BY <1>1 DEF SameNames, Stored

LEMMA SameVenuesSameNames ==
  ASSUME venue' = venue PROVE SameNames
  BY DEF SameNames, Stored

\* A copy that is new is a copy of what is stored.
LEMMA CopiesStay ==
  ASSUME CopiesKeepNames, SameNames,
         \A q \in Actor, u \in Id :
           \/ copy'[q][u] = copy[q][u]
           \/ copy'[q][u] = NoVenue
           \/ u \in Stored /\ copy'[q][u].name = venue[u].name
  PROVE  NamesUnique => NamesUnique' /\ CopiesKeepNames'
<1>1. CopiesKeepNames'
  BY DEF CopiesKeepNames, SameNames, Pending, NoVenue
<1>. QED
  BY <1>1 DEF NamesUnique, SameNames

\* What an actor keeps of its copies at the end of a round.
LEMMA EndForgets ==
  ASSUME TypeInv, NEW p \in Actor, NEW v \in Id, Finish(p, v) \/ Leave(p)
  PROVE  /\ \A q \in Actor, u \in Id : copy'[q][u] = copy[q][u] \/ copy'[q][u] = NoVenue
         /\ \A q \in Actor \ {p} : pc'[q] = pc[q] /\ copy'[q] = copy[q]
         /\ pc'[p] \in {"idle", "lookup"}
         /\ Pending(p)' \subseteq Pending(p)
         /\ pc'[p] = "idle" => Pending(p)' = {}
<1>1. CASE Finish(p, v)
  <2>1. \A u \in Id : copy'[p][u] = IF u = v THEN NoVenue ELSE copy[p][u]
    BY <1>1 DEF Finish, TypeInv, TypeOK
  <2>2. Pending(p)' = Pending(p) \ {v}
    BY <2>1 DEF Pending, NoVenue
  <2>3. pc'[p] = IF Pending(p) = {v} THEN "idle" ELSE "lookup"
    BY <1>1 DEF Finish, TypeInv, TypeOK
  <2>4. \A q \in Actor \ {p} : pc'[q] = pc[q] /\ copy'[q] = copy[q]
    BY <1>1 DEF Finish, TypeInv, TypeOK
  <2>. QED
    BY <2>1, <2>2, <2>3, <2>4
<1>2. CASE Leave(p)
  BY <1>2 DEF Leave, NoCopies, NoVenue, Pending, TypeInv, TypeOK
<1>. QED
  BY <1>1, <1>2

\* Nothing of the passes changes.
LEMMA PassesStay ==
  ASSUME TypeInv, AloneInv, SameNames, earlier' = earlier,
         \A p \in Pass : pc'[p] = pc[p] /\ byName'[p] = byName[p] /\ copy'[p] = copy[p]
  PROVE  \A p \in Pass : MapComplete(p)' /\ HoldsNewVenues(p)'
  BY DEF AloneInv, SameNames, MapComplete, HoldsNewVenues, Pending

\* The only pass ends a round or all its work.
LEMMA RoundAlone ==
  ASSUME TypeInv, AloneInv, Exclusive, NEW p \in Pass, NEW v \in Id,
         Finish(p, v) \/ Leave(p), SameNames, earlier' = earlier
  PROVE  AloneInv'
<1>p. p \in Actor /\ \A q \in Pass : q = p
  BY PassesAreActors DEF Exclusive
<1>1. NamesUnique' /\ CopiesKeepNames'
  BY <1>p, EndForgets, CopiesStay DEF AloneInv
<1>2. MapComplete(p)'
  BY <1>p, EndForgets DEF MapComplete
<1>3. HoldsNewVenues(p)'
  BY <1>p, EndForgets DEF AloneInv, HoldsNewVenues, SameNames
<1>. QED
  BY <1>1, <1>2, <1>3, <1>p DEF AloneInv

\* What the map does not have is not stored.
LEMMA CreatedIsNew ==
  ASSUME TypeInv, AloneInv, NEW p \in Pass, NEW e \in Event, NEW v \in Id,
         CreateVenue(p, e, v)
  PROVE  v \notin Stored /\ \A u \in Stored : venue[u].name # todo[p][e]
<1>1. \A u \in Stored : venue[u].name \in Label /\ byName[p][venue[u].name] = u
  BY DEF CreateVenue, TypeInv, CopiesNamed, AloneInv, MapComplete
<1>2. v \notin Stored
  BY <1>1 DEF CreateVenue, UnusedId
<1>3. ASSUME NEW u \in Stored, venue[u].name = todo[p][e] PROVE FALSE
  BY <1>1, <1>3, IdAssumption DEF CreateVenue, Stored
<1>. QED
  BY <1>2, <1>3

LEMMA CatalogueAlone ==
  ASSUME TypeInv, AloneInv, Exclusive, NEW p \in Pass, NEW e \in Event, Catalogue(p, e)
  PROVE  AloneInv'
<1>p. \A q \in Pass : q = p
  BY DEF Exclusive
<1>1. CASE LinkEvent(p, e)
  <2>1. /\ venue' = venue /\ pc' = pc /\ earlier' = earlier /\ byName' = byName
        /\ copy' = copy
    BY <1>1 DEF LinkEvent, work
  <2>2. NamesUnique' /\ CopiesKeepNames'
    BY <2>1, SameVenuesSameNames, CopiesStay DEF AloneInv
  <2>. QED
    BY <2>1, <2>2, SameVenuesSameNames, PassesStay DEF AloneInv
<1>2. ASSUME NEW v \in Id, CreateVenue(p, e, v) PROVE AloneInv'
  <2>0. v \notin Stored /\ \A u \in Stored : venue[u].name # todo[p][e]
    BY <1>2, CreatedIsNew
  <2>1. todo[p][e] \in Label
    BY <1>2 DEF CreateVenue, TypeInv, TypeOK
  <2>2. \A u \in Id : venue'[u] = IF u = v THEN NewVenue(todo[p][e]) ELSE venue[u]
    BY <1>2 DEF CreateVenue, TypeInv, TypeOK
  <2>3. NewVenue(todo[p][e]).status # "absent" /\ NewVenue(todo[p][e]).name = todo[p][e]
    BY DEF NewVenue
  <2>4. /\ Stored' = Stored \cup {v}
        /\ venue'[v].name = todo[p][e]
        /\ \A u \in Stored : venue'[u].name = venue[u].name
    BY <2>0, <2>2, <2>3 DEF Stored
  <2>5. NamesUnique'
    BY <2>0, <2>4 DEF AloneInv, NamesUnique
  <2>6. CopiesKeepNames'
    BY <1>2, <2>4 DEF CreateVenue, work, AloneInv, CopiesKeepNames, Pending
  <2>7. \A l \in Label : byName'[p][l] = IF l = todo[p][e] THEN v ELSE byName[p][l]
    BY <1>2, <2>1 DEF CreateVenue, TypeInv, TypeOK
  <2>8. MapComplete(p)'
    <3>1. \A u \in Stored : byName[p][venue[u].name] = u /\ venue[u].name \in Label
      BY <1>2 DEF CreateVenue, AloneInv, MapComplete, TypeInv, CopiesNamed
    <3>. QED
      BY <2>0, <2>1, <2>4, <2>7, <3>1 DEF MapComplete
  <2>9. HoldsNewVenues(p)'
    BY <1>2, <2>4 DEF CreateVenue, work, AloneInv, HoldsNewVenues, Pending
  <2>. QED
    BY <2>5, <2>6, <2>8, <2>9, <1>p DEF AloneInv
<1>. QED
  BY <1>1, <1>2 DEF Catalogue

LEMMA ListsAlone ==
  ASSUME TypeInv, AloneInv, Exclusive, NEW p \in Pass,
         \/ StartPass(p) \/ ReadVenues(p) \/ ReadEvents(p) \/ ReadLinks(p)
  PROVE  AloneInv'
<1>p. p \in Actor /\ \A q \in Pass : q = p
  BY PassesAreActors DEF Exclusive
<1>1. venue' = venue /\ copy' = copy
  BY DEF StartPass, ReadVenues, ReadEvents, ReadLinks, work, tables
<1>2. NamesUnique' /\ CopiesKeepNames'
  BY <1>1, SameVenuesSameNames, CopiesStay DEF AloneInv
<1>3. Stored' = Stored /\ Pending(p)' = Pending(p) /\ Pending(p) = {}
  BY <1>1 DEF Stored, Pending, StartPass, ReadVenues, ReadEvents, ReadLinks, Goto,
              AloneInv, HoldsNewVenues
<1>4. HoldsNewVenues(p)'
  <2>1. earlier'[p] = earlier[p] \/ earlier'[p] = Stored
    BY DEF StartPass, ReadVenues, ReadEvents, ReadLinks, TypeInv, TypeOK
  <2>. QED
    BY <1>3, <2>1 DEF AloneInv, HoldsNewVenues
<1>5. MapComplete(p)'
  <2>1. CASE StartPass(p)
    BY <2>1, <1>p DEF StartPass, Goto, TypeInv, TypeOK, MapComplete
  <2>2. CASE ReadVenues(p)
    <3>1. PICK names \in [Label -> Id \cup {None}] :
            /\ \A l \in Label : IF Named(l) = {} THEN names[l] = None
                                                ELSE names[l] \in Named(l)
            /\ byName' = [byName EXCEPT ![p] = names]
      BY <2>2 DEF ReadVenues
    <3>2. byName'[p] = names
      BY <3>1 DEF TypeInv, TypeOK
    <3>3. ASSUME NEW v \in Stored PROVE names[venue[v].name] = v
      <4>1. venue[v].name \in Label /\ v \in Named(venue[v].name)
        BY DEF TypeInv, CopiesNamed, Named
      <4>2. names[venue[v].name] \in Named(venue[v].name)
        BY <3>1, <4>1
      <4>. QED
        BY <4>2 DEF Named, AloneInv, NamesUnique
    <3>. QED
      BY <1>1, <1>3, <3>2, <3>3 DEF MapComplete
  <2>3. CASE ReadEvents(p) \/ ReadLinks(p)
    BY <2>3, <1>1, <1>3 DEF ReadEvents, ReadLinks, Goto, AloneInv, MapComplete
  <2>. QED
    BY <2>1, <2>2, <2>3
<1>. QED
  BY <1>2, <1>4, <1>5, <1>p DEF AloneInv

LEMMA ListNewAlone ==
  ASSUME TypeInv, AloneInv, Exclusive, NEW p \in Pass, ListNew(p)
  PROVE  AloneInv'
<1>p. p \in Actor /\ \A q \in Pass : q = p
  BY PassesAreActors DEF Exclusive
<1>1. venue' = venue /\ earlier' = earlier
  BY DEF ListNew, tables
<1>2. NewVenues(p) \subseteq Stored /\ NewVenues(p) \cap earlier[p] = {}
  BY DEF NewVenues
<1>3. \A u \in Id : copy'[p][u] = IF u \in NewVenues(p) THEN venue[u] ELSE NoVenue
  BY <1>p DEF ListNew, TypeInv, TypeOK
<1>4. \A q \in Actor \ {p} : copy'[q] = copy[q]
  BY <1>p DEF ListNew, TypeInv, TypeOK
<1>5. NamesUnique' /\ CopiesKeepNames'
  BY <1>1, <1>2, <1>3, <1>4, SameVenuesSameNames, CopiesStay DEF AloneInv
<1>6. Pending(p)' = NewVenues(p)
  BY <1>2, <1>3 DEF Pending, NoVenue, Stored
<1>7. pc'[p] = IF NewVenues(p) = {} THEN "idle" ELSE "lookup"
  BY <1>p DEF ListNew, TypeInv, TypeOK
<1>8. MapComplete(p)'
  BY <1>7 DEF MapComplete
<1>9. HoldsNewVenues(p)'
  BY <1>1, <1>2, <1>6, <1>7 DEF AloneInv, HoldsNewVenues, Stored
<1>. QED
  BY <1>5, <1>8, <1>9, <1>p DEF AloneInv

\* What a pass works on is stored, under the name it knows, and new.
LEMMA WorksOnNew ==
  ASSUME TypeInv, AloneInv, NEW p \in Actor, NEW v \in Id, at[p] = v
  PROVE  /\ v \in Stored /\ copy[p][v].name = venue[v].name
         /\ copy[p][v].status # "absent"
         /\ p \in Pass => v \notin earlier[p]
<1>1. v \in Pending(p)
  BY DEF TypeInv, CopiesNamed
<1>. QED
  BY <1>1 DEF AloneInv, CopiesKeepNames, HoldsNewVenues, Pending

LEMMA LookupAlone ==
  ASSUME TypeInv, AloneInv, NEW p \in Actor, NEW v \in Id, Lookup(p, v)
  PROVE  AloneInv'
<1>1. venue' = venue /\ copy' = copy /\ earlier' = earlier /\ byName' = byName
  BY DEF Lookup, tables, lists
<1>2. NamesUnique' /\ CopiesKeepNames'
  BY <1>1, SameVenuesSameNames, CopiesStay DEF AloneInv
<1>3. \A q \in Actor : pc'[q] = pc[q] \/ pc'[q] = "found"
  BY DEF Lookup, Goto, TypeInv, TypeOK
<1>. QED
  BY <1>1, <1>2, <1>3, PassesAreActors
     DEF AloneInv, MapComplete, HoldsNewVenues, Pending, Stored

LEMMA ReviewAlone ==
  ASSUME TypeInv, AloneInv, Exclusive, NEW p \in Pass, NEW v \in Id, Review(p, v)
  PROVE  AloneInv' /\ \A u \in earlier[p] : venue'[u] = venue[u]
<1>p. p \in Actor /\ earlier[p] \subseteq Id
  BY PassesAreActors DEF TypeInv, TypeOK
<1>1. CASE Lookup(p, v)
  BY <1>1, <1>p, LookupAlone DEF Lookup, tables
<1>2. CASE LookupFails(p, v) \/ NoMatch(p, v) \/ SelectRaises(p, v)
  <2>1. (Finish(p, v) \/ Leave(p)) /\ venue' = venue /\ earlier' = earlier
    BY <1>2 DEF LookupFails, NoMatch, SelectRaises, tables, lists
  <2>. QED
    BY <2>1, SameVenuesSameNames, RoundAlone
<1>3. CASE RecordCandidates(p, v)
  <2>1. /\ venue' = venue /\ copy' = copy /\ earlier' = earlier
        /\ \A q \in Actor : pc'[q] = pc[q] \/ pc'[q] = "decide"
        /\ byName' = byName
    BY <1>3 DEF RecordCandidates, Goto, lists, work, TypeInv, TypeOK
  <2>2. NamesUnique' /\ CopiesKeepNames'
    BY <2>1, SameVenuesSameNames, CopiesStay DEF AloneInv
  <2>. QED
    BY <2>1, <2>2, PassesAreActors
       DEF AloneInv, MapComplete, HoldsNewVenues, Pending, Stored
<1>4. CASE Select(p, v)
  <2>1. PICK m \in Place : CanSelect(v, m) /\ venue' = [venue EXCEPT ![v] = Selected(v, m)]
    BY <1>4 DEF Select
  <2>2. SameNames
    BY <2>1, SelectedType, WriteKeepsNames DEF CanSelect
  <2>3. v \notin earlier[p]
    BY <1>4, <1>p, WorksOnNew DEF Select
  <2>4. AloneInv'
    BY <1>4, <2>2, RoundAlone DEF Select, lists
  <2>. QED
    BY <2>1, <2>3, <2>4, <1>p DEF TypeInv, TypeOK
<1>5. CASE Queue(p, v)
  <2>1. v \in Stored /\ v \notin earlier[p] /\ copy[p][v].name = venue[v].name
    BY <1>5, <1>p, WorksOnNew DEF Queue
  <2>2. SameNames
    BY <1>5, <1>p, <2>1, QueuedType, WriteKeepsNames DEF Queue
  <2>3. AloneInv'
    BY <1>5, <2>2, RoundAlone DEF Queue, lists
  <2>. QED
    BY <1>5, <2>1, <2>3, <1>p DEF Queue, TypeInv, TypeOK
<1>. QED
  BY <1>1, <1>2, <1>3, <1>4, <1>5 DEF Review

\* What an editor may do: keep the names, and hold what is stored.
LEMMA EditorKeeps ==
  ASSUME TypeInv, AloneInv, NEW e \in Editor, UNCHANGED lists, SameNames,
         \A q \in Actor \ {e} : pc'[q] = pc[q] /\ copy'[q] = copy[q],
         \A u \in Id : \/ copy'[e][u] = copy[e][u]
                       \/ copy'[e][u] = NoVenue
                       \/ u \in Stored /\ copy'[e][u].name = venue[u].name
  PROVE  AloneInv'
<1>1. \A p \in Pass : p \in Actor \ {e}
  BY PassesAreActors, ConstantsAssumption
<1>2. NamesUnique' /\ CopiesKeepNames'
  BY CopiesStay DEF AloneInv
<1>3. \A p \in Pass : MapComplete(p)' /\ HoldsNewVenues(p)'
  BY <1>1, PassesStay DEF lists
<1>. QED
  BY <1>2, <1>3 DEF AloneInv

LEMMA EditorAlone ==
  ASSUME TypeInv, AloneInv, Exclusive, NEW e \in Editor, NEW v \in Id, EditorStep(e, v)
  PROVE  AloneInv'
<1>e. e \in Actor
  BY PassesAreActors
<1>1. CASE Lookup(e, v)
  BY <1>1, <1>e, LookupAlone
<1>2. CASE Discover(e, v)
  <2>1. /\ \A q \in Actor \ {e} : pc'[q] = pc[q] /\ copy'[q] = copy[q]
        /\ \A u \in Id : copy'[e][u] = IF u = v THEN venue[v] ELSE copy[e][u]
    BY <1>2, <1>e DEF Discover, Goto, TypeInv, TypeOK
  <2>2. v \in Stored /\ venue' = venue /\ UNCHANGED lists
    BY <1>2 DEF Discover, tables
  <2>. QED
    BY <2>1, <2>2, SameVenuesSameNames, EditorKeeps
<1>3. CASE RefreshSuggestions(e, v)
  <2>1. venue' = venue /\ UNCHANGED lists
    BY <1>3 DEF RefreshSuggestions
  <2>2. CASE Leave(e)
    BY <2>1, <2>2, <1>e, EndForgets, SameVenuesSameNames, EditorKeeps
  <2>3. CASE pc' = [pc EXCEPT ![e] = "requeue"] /\ UNCHANGED work
    <3>1. copy' = copy /\ \A q \in Actor \ {e} : pc'[q] = pc[q]
      BY <2>3 DEF work, TypeInv, TypeOK
    <3>. QED
      BY <2>1, <3>1, SameVenuesSameNames, EditorKeeps
  <2>. QED
    BY <1>3, <2>2, <2>3 DEF RefreshSuggestions
<1>4. CASE Requeue(e, v)
  <2>1. at[e] = v /\ Leave(e) /\ UNCHANGED lists
    BY <1>4 DEF Requeue
  <2>2. v \in Stored /\ copy[e][v].name = venue[v].name
    BY <2>1, <1>e, WorksOnNew
  <2>3. copy[e][v] \in Venue
    BY <1>e DEF TypeInv, TypeOK
  <2>4. venue' = [venue EXCEPT ![v] = [copy[e][v] EXCEPT !.status = "candidate"]]
    BY <1>4 DEF Requeue
  <2>5. /\ [copy[e][v] EXCEPT !.status = "candidate"].name = copy[e][v].name
        /\ [copy[e][v] EXCEPT !.status = "candidate"].status = "candidate"
    BY <2>3 DEF Venue
  <2>6. SameNames
    BY <2>2, <2>4, <2>5, WriteKeepsNames
  <2>. QED
    BY <2>1, <2>6, <1>e, EndForgets, EditorKeeps
<1>5. CASE SelectApproved(e, v)
  <2>1. copy' = copy /\ UNCHANGED lists /\ \A q \in Actor \ {e} : pc'[q] = pc[q]
    BY <1>5 DEF SelectApproved, Goto, work, TypeInv, TypeOK
  <2>2. SameNames
    BY <1>5, SelectedType, WriteKeepsNames DEF SelectApproved, CanSelect
  <2>. QED
    BY <2>1, <2>2, EditorKeeps
<1>6. CASE SaveApproved(e, v)
  <2>1. at[e] = v /\ Leave(e) /\ UNCHANGED lists
    BY <1>6 DEF SaveApproved
  <2>2. v \in Stored /\ copy[e][v].name = venue[v].name /\ copy[e][v].status # "absent"
    BY <2>1, <1>e, WorksOnNew
  <2>3. SameNames
    BY <1>6, <2>2, WriteKeepsNames DEF SaveApproved
  <2>. QED
    BY <2>1, <2>3, <1>e, EndForgets, EditorKeeps
<1>7. ASSUME NEW l \in Label, NEW m, CheckForm(e, v, l, m), UNCHANGED tables,
             UNCHANGED lists, NEW to, Goto(e, "idle", to)
      PROVE  AloneInv'
  <2>1. /\ \A q \in Actor \ {e} : pc'[q] = pc[q] /\ copy'[q] = copy[q]
        /\ \A u \in Id : copy'[e][u] = IF u = v THEN Edited(v, l, m) ELSE copy[e][u]
    BY <1>7, <1>e DEF CheckForm, Goto, TypeInv, TypeOK
  <2>2. v \in Stored /\ l = venue[v].name /\ venue' = venue
    BY <1>7 DEF CheckForm, Exclusive, tables
  <2>3. Edited(v, l, m).name = l
    BY DEF Edited
  <2>. QED
    BY <1>7, <2>1, <2>2, <2>3, SameVenuesSameNames, EditorKeeps
<1>. QED
  BY <1>1, <1>2, <1>3, <1>4, <1>5, <1>6, <1>7
     DEF EditorStep, ApproveAsEdited, ApproveCandidate

LEMMA AbandonAlone ==
  ASSUME TypeInv, AloneInv, Exclusive, NEW p \in Actor, Abandon(p)
  PROVE  AloneInv'
<1>1. Leave(p) /\ venue' = venue /\ earlier' = earlier
  BY DEF Abandon, tables
<1>2. /\ \A q \in Actor \ {p} : pc'[q] = pc[q] /\ copy'[q] = copy[q]
      /\ \A u \in Id : copy'[p][u] = NoVenue
      /\ pc'[p] = "idle"
  BY <1>1 DEF Leave, NoCopies, TypeInv, TypeOK
<1>3. Pending(p)' = {}
  BY <1>2 DEF Pending, NoVenue
<1>4. NamesUnique' /\ CopiesKeepNames'
  BY <1>1, <1>2, SameVenuesSameNames, CopiesStay DEF AloneInv
<1>5. \A q \in Pass : q # p => byName'[q] = byName[q]
  BY DEF Abandon
<1>6. ASSUME NEW q \in Pass PROVE MapComplete(q)' /\ HoldsNewVenues(q)'
  <2>1. q \in Actor /\ earlier'[q] = earlier[q]
    BY <1>1, PassesAreActors
  <2>2. CASE q = p
    BY <1>1, <1>2, <1>3, <2>1, <2>2 DEF MapComplete, HoldsNewVenues, AloneInv, Stored
  <2>3. CASE q # p
    BY <1>1, <1>2, <1>5, <2>1, <2>3
       DEF MapComplete, HoldsNewVenues, AloneInv, Stored, Pending
  <2>. QED
    BY <2>2, <2>3
<1>. QED
  BY <1>4, <1>6 DEF AloneInv

\* Steps that leave passes and copies alone.
LEMMA OthersAlone ==
  ASSUME TypeInv, AloneInv, SameNames, UNCHANGED <<pc, lists, work>>
  PROVE  AloneInv'
<1>1. pc' = pc /\ copy' = copy /\ byName' = byName /\ earlier' = earlier
  BY DEF lists, work
<1>2. NamesUnique' /\ CopiesKeepNames'
  BY <1>1, CopiesStay DEF AloneInv
<1>. QED
  BY <1>1, <1>2, PassesStay DEF AloneInv

LEMMA AcceptAlone ==
  ASSUME TypeInv, AloneInv, NEW v \in Id, NEW m \in Place, Accept(v, m)
  PROVE  AloneInv'
<1>1. SameNames
  BY SelectedType, WriteKeepsNames DEF Accept, CanSelect
<1>. QED
  BY <1>1, OthersAlone DEF Accept

LEMMA InitAlone == Init => AloneInv
  BY PassesAreActors
     DEF Init, AloneInv, NamesUnique, CopiesKeepNames, MapComplete, HoldsNewVenues,
         Stored, Pending, NoCopies, NoVenue

LEMMA NextAlone == TypeInv /\ AloneInv /\ Exclusive /\ [Next]_vars => AloneInv'
<1>. SUFFICES ASSUME TypeInv, AloneInv, Exclusive, [Next]_vars PROVE AloneInv'
  OBVIOUS
<1>1. CASE UNCHANGED vars
  BY <1>1, SameVenuesSameNames, OthersAlone DEF vars, tables
<1>2. ASSUME NEW p \in Pass, PassStep(p) PROVE AloneInv'
  BY <1>2, ListsAlone, ListNewAlone, CatalogueAlone, ReviewAlone DEF PassStep
<1>3. ASSUME NEW e \in Event, NEW l \in Names[e], SyncEvent(e, l) PROVE AloneInv'
  BY <1>3, SameVenuesSameNames, OthersAlone DEF SyncEvent
<1>. QED
  BY <1>1, <1>2, <1>3, EditorAlone, AcceptAlone, AbandonAlone DEF Next

LEMMA AloneAlways == Spec => [](TypeInv /\ (Exclusive => AloneInv))
<1>1. Init => TypeInv /\ (Exclusive => AloneInv)
  BY InitType, InitAlone
<1>2. TypeInv /\ (Exclusive => AloneInv) /\ [Next]_vars
        => (TypeInv /\ (Exclusive => AloneInv))'
  BY NextType, NextAlone DEF Exclusive
<1>. QED
  BY <1>1, <1>2, PTL DEF Spec

\* What a pass does to a row, it does not do to one that was there before.
LEMMA PassKeeps ==
  ASSUME TypeInv, AloneInv, Exclusive, NEW p \in Pass, PassStep(p)
  PROVE  \A v \in earlier[p] : venue'[v] = venue[v]
<1>1. ASSUME StartPass(p) \/ ReadVenues(p) \/ ReadEvents(p) \/ ReadLinks(p) \/ ListNew(p)
      PROVE  venue' = venue
  BY <1>1 DEF StartPass, ReadVenues, ReadEvents, ReadLinks, ListNew, tables
<1>2. ASSUME NEW e \in Event, LinkEvent(p, e) PROVE venue' = venue
  BY <1>2 DEF LinkEvent
<1>3. ASSUME NEW e \in Event, NEW u \in Id, CreateVenue(p, e, u)
      PROVE  \A v \in earlier[p] : venue'[v] = venue[v]
  <2>1. u \notin earlier[p]
    BY <1>3, CreatedIsNew DEF AloneInv, HoldsNewVenues
  <2>. QED
    BY <1>3, <2>1 DEF CreateVenue, TypeInv, TypeOK
<1>. QED
  BY <1>1, <1>2, <1>3, ReviewAlone DEF PassStep, Catalogue

\* A pass that runs alone, while nobody renames venues, changes no venue that
\* was stored when it began, whatever is approved, refreshed or synchronised
\* while it looks up the new ones.
THEOREM PassKeepsEarlierVenues == Spec => EarlierVenuesKept
<1>1. ASSUME TypeInv, Exclusive => AloneInv, [Next]_vars, Exclusive,
             NEW p \in Pass, Moves(p)
      PROVE  \A v \in earlier[p] : venue'[v] = venue[v]
  <2>p. p \in Actor /\ \A q \in Pass : q = p
    BY <1>1, PassesAreActors DEF Exclusive
  <2>1. CASE PassStep(p)
    BY <1>1, <2>1, PassKeeps
  <2>2. ASSUME NEW e \in Editor, NEW v \in Id, EditorStep(e, v) PROVE FALSE
    <3>1. e # p /\ e \in Actor
      BY PassesAreActors, ConstantsAssumption
    <3>2. UNCHANGED lists
      BY <2>2 DEF EditorStep, Discover, Lookup, RefreshSuggestions, Requeue,
                  SelectApproved, SaveApproved, ApproveAsEdited, ApproveCandidate
    <3>3. ASSUME Requeue(e, v) \/ SaveApproved(e, v) \/ RefreshSuggestions(e, v)
          PROVE  pc'[p] = pc[p]
      BY <1>1, <2>p, <3>1, <3>3
         DEF Requeue, SaveApproved, RefreshSuggestions, Leave, TypeInv, TypeOK
    <3>4. pc'[p] = pc[p]
      BY <1>1, <2>2, <2>p, <3>1, <3>3
         DEF EditorStep, Discover, Lookup, SelectApproved, ApproveAsEdited,
             ApproveCandidate, Goto, TypeInv, TypeOK
    <3>. QED
      BY <1>1, <3>2, <3>4 DEF Moves, lists
  <2>3. ASSUME NEW q \in Actor, Abandon(q) PROVE venue' = venue
    BY <2>3 DEF Abandon, tables
  <2>4. CASE UNCHANGED <<pc, lists>>
    BY <1>1, <2>4 DEF Moves, lists
  <2>5. ASSUME NEW e \in Event, NEW l \in Names[e], SyncEvent(e, l)
        PROVE  UNCHANGED <<pc, lists>>
    BY <2>5 DEF SyncEvent
  <2>6. ASSUME NEW v \in Id, NEW m \in Place, Accept(v, m) PROVE UNCHANGED <<pc, lists>>
    BY <2>6 DEF Accept
  <2>7. CASE UNCHANGED vars
    BY <2>4, <2>7 DEF vars
  <2>. QED
    BY <1>1, <2>p, <2>1, <2>2, <2>3, <2>4, <2>5, <2>6, <2>7 DEF Next
<1>2. TypeInv /\ (Exclusive => AloneInv) /\ [Next]_vars =>
        [Exclusive => \A p \in Pass : Moves(p) =>
           \A v \in earlier[p] : venue'[v] = venue[v]]_vars
  BY <1>1
<1>. QED
  BY <1>2, AloneAlways, PTL DEF Spec, EarlierVenuesKept
=============================================================================
