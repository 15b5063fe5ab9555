------------------------ MODULE EventOverlaysProofs ------------------------
(***************************************************************************)
(* What holds of EventOverlays for any events, renditions and processes.   *)
(***************************************************************************)
EXTENDS EventOverlays, TLAPS

\* Rows are told from the absence of a row, and what the passes make of a row
\* is a row.
LEMMA Rows ==
  /\ NoRow \notin Row
  /\ \A v \in Version : AsInSource(v) \in Row
  BY ConstantsAssumption DEF Row, NoRow, AsInSource

LEMMA ExtractedRow ==
  ASSUME NEW r \in Row
  PROVE  [r EXCEPT !.performers = TRUE] \in Row
  BY DEF Row

LEMMA TaggedRow ==
  ASSUME NEW r \in Row
  PROVE  [r EXCEPT !.tags = TRUE] \in Row
  BY DEF Row

LEMMA NoOverlayOfProvider == NoOverlay \notin Provider
  BY DEF NoOverlay, Provider

-----------------------------------------------------------------------------
\* Type correctness, in three parts.

StoreType ==
  /\ source \in [Event -> Version \cup {None}]
  /\ row \in [Event -> Row \cup {NoRow}]
  /\ overlay \in [Table -> [Event -> Provider \cup {NoOverlay}]]

PassType ==
  /\ pc \in [Process -> Pass \cup {"idle"}]
  /\ todo \in [Process -> SUBSET Event]
  /\ copy \in [Process -> [Event -> Row \cup {NoRow}]]
  /\ \A p \in Process : pc[p] \in {"titles", "rules"} =>
       \A e \in todo[p] : copy[p][e] \in Row

WebType ==
  /\ visits \in [Event -> Nat]
  /\ \A e \in Event : visits[e] <= MaxVisits[e]
  /\ status \in [Event -> {"idle", "fetching", "ready", "failed"}]
  /\ thread \in [Event -> ThreadStage]

LEMMA TypeParts == TypeOK <=> StoreType /\ PassType /\ WebType
  BY DEF TypeOK, StoreType, PassType, WebType

LEMMA InitType == Init => TypeOK
<1>. SUFFICES ASSUME Init PROVE TypeOK
  OBVIOUS
<1>1. StoreType
  BY DEF Init, StoreType
<1>2. PassType
  BY DEF Init, PassType
<1>3. WebType
  BY ConstantsAssumption DEF Init, WebType, ThreadStage
<1>. QED
  BY <1>1, <1>2, <1>3, TypeParts

\* A pass that is over, one that has handled an event, one that starts.
LEMMA ForgetType ==
  ASSUME PassType, NEW p \in Process, Forget(p)
  PROVE  PassType'
  BY DEF Forget, Enter, PassType

LEMMA DoneType ==
  ASSUME PassType, NEW p \in Process, NEW e \in Event, Done(p, e)
  PROVE  PassType'
<1>1. /\ pc' \in [Process -> Pass \cup {"idle"}]
      /\ todo' \in [Process -> SUBSET Event]
      /\ copy' \in [Process -> [Event -> Row \cup {NoRow}]]
  BY DEF Done, PassType
<1>2. ASSUME NEW q \in Process, pc'[q] \in {"titles", "rules"}, NEW o \in todo'[q]
      PROVE  copy'[q][o] \in Row
  <2>1. CASE q # p
    BY <1>2, <2>1 DEF Done, PassType
  <2>2. CASE q = p
    <3>1. pc[p] \in {"titles", "rules"} /\ o \in todo[p] /\ o # e /\ o \in Event
      BY <1>2, <2>2 DEF Done, PassType
    <3>2. copy'[p][o] = copy[p][o]
      BY <3>1 DEF Done, PassType
    <3>. QED
      BY <2>2, <3>1, <3>2 DEF PassType
  <2>. QED
    BY <2>1, <2>2
<1>. QED
  BY <1>1, <1>2 DEF PassType

LEMMA EnterType ==
  ASSUME PassType, NEW p \in Process, NEW pass \in Pass \cup {"idle"},
         NEW S \in SUBSET Event, Enter(p, pass, S), UNCHANGED copy,
         pass \notin {"titles", "rules"}
  PROVE  PassType'
  BY DEF Enter, PassType

LEMMA ReadType ==
  ASSUME StoreType, PassType, NEW p \in Process, NEW pass \in Pass \cup {"idle"},
         NEW S \in SUBSET Stored, Enter(p, pass, S), ReadCopies(p, S)
  PROVE  PassType'
<1>. DEFINE read == [e \in Event |-> IF e \in S THEN row[e] ELSE NoRow]
<1>1. read \in [Event -> Row \cup {NoRow}]
  BY DEF StoreType
<1>2. S \in SUBSET Event /\ \A e \in S : read[e] \in Row
  BY DEF Stored, StoreType
<1>3. copy' = [copy EXCEPT ![p] = read]
  BY DEF ReadCopies
<1>. HIDE DEF read
<1>. QED
  BY <1>1, <1>2, <1>3 DEF Enter, PassType

LEMMA FirstOfSubset == ASSUME NEW S PROVE FirstOf(S) \subseteq S
  BY DEF FirstOf

\* What a sync writes.
LEMMA WrittenType ==
  ASSUME StoreType, NEW e \in Event
  PROVE  /\ Written(e) \in Row \cup {NoRow}
         /\ Written(e) = NoRow <=> source[e] = None
         /\ \A t \in Table : Cascaded(t, e) \in Provider \cup {NoOverlay}
<1>1. CASE source[e] = None
  BY <1>1 DEF Written, Cascaded, StoreType
<1>2. CASE source[e] # None
  <2>1. source[e] \in Version
    BY <1>2 DEF StoreType
  <2>. QED
    BY <1>2, <2>1, Rows DEF Written, Cascaded, StoreType
<1>. QED
  BY <1>1, <1>2

LEMMA SyncType ==
  ASSUME TypeOK, NEW p \in Process, Sync(p)
  PROVE  TypeOK'
<1>. USE TypeParts
<1>1. StoreType'
  BY WrittenType DEF Sync, StoreType
<1>2. PassType'
  <2>1. CASE UNCHANGED <<pc, todo>>
    BY <2>1 DEF Sync, PassType
  <2>2. CASE \E S \in SUBSET Event : Enter(p, "created", S)
    BY <2>2, EnterType DEF Sync, Pass
  <2>. QED
    BY <2>1, <2>2 DEF Sync
<1>3. WebType'
  BY DEF Sync, webVars, WebType
<1>. QED
  BY <1>1, <1>2, <1>3 DEF TypeOK, StoreType, PassType, WebType

LEMMA StartType ==
  ASSUME TypeOK, NEW p \in Process,
         \/ StartTitles(p) \/ StartRules(p) \/ \E k \in Provider : StartOverlays(p, k)
  PROVE  TypeOK'
<1>1. StoreType' /\ WebType'
  BY TypeParts DEF StartTitles, StartRules, StartOverlays, webVars, StoreType, WebType
<1>2. CASE StartTitles(p)
  <2>. DEFINE S == FirstOf({e \in Stored : ~ row[e].performers})
  <2>1. S \subseteq Stored
    BY FirstOfSubset
  <2>2. Enter(p, "titles", S) /\ ReadCopies(p, S)
    BY <1>2 DEF StartTitles
  <2>. HIDE DEF S
  <2>. QED
    BY <1>1, <2>1, <2>2, ReadType, TypeParts DEF Pass, TypeOK, StoreType, PassType, WebType
<1>3. CASE StartRules(p)
  <2>. DEFINE S == {e \in Stored : ~ row[e].tags}
  <2>1. S \subseteq Stored
    OBVIOUS
  <2>2. Enter(p, "rules", S) /\ ReadCopies(p, S)
    BY <1>3 DEF StartRules
  <2>. HIDE DEF S
  <2>. QED
    BY <1>1, <2>1, <2>2, ReadType, TypeParts DEF Pass, TypeOK, StoreType, PassType, WebType
<1>4. ASSUME NEW k \in Provider, StartOverlays(p, k)
      PROVE  TypeOK'
  <2>1. PICK S \in SUBSET Event : Enter(p, k, S)
    <3>1. PICK old \in SUBSET Stored : Enter(p, k, FirstOf(Needing(k, old)))
      BY <1>4 DEF StartOverlays
    <3>2. FirstOf(Needing(k, old)) \subseteq Event
      BY FirstOfSubset DEF Needing, Stored
    <3>. QED
      BY <3>1, <3>2
  <2>2. UNCHANGED copy /\ k \in Pass /\ k \notin {"titles", "rules"}
    BY <1>4 DEF StartOverlays, Pass, Provider
  <2>3. PassType'
    BY <2>1, <2>2, EnterType, TypeParts
  <2>. QED
    BY <1>1, <2>3 DEF TypeOK, StoreType, PassType, WebType
<1>. QED
  BY <1>2, <1>3, <1>4

\* An event that is handled: what becomes of the tables.
LEMMA HandleType ==
  ASSUME TypeOK, NEW p \in Process, Handle(p)
  PROVE  TypeOK'
<1>1. StoreType /\ PassType /\ WebType'
  BY TypeParts DEF Handle, ReadCreated, WriteRules, NoPerformers, WritePerformers,
                   Unmatched, SaveOverlay, SaveRaises, webVars, WebType
<1>2. todo[p] \subseteq Event
  BY <1>1 DEF PassType
<1>3. CASE ReadCreated(p)
  <2>. DEFINE S == todo[p] \cap Stored
              pass == IF S = {} THEN "idle" ELSE "titles"
  <2>1. S \subseteq Stored /\ pass \in Pass \cup {"idle"}
    BY DEF Pass
  <2>2. Enter(p, pass, S) /\ ReadCopies(p, S)
    BY <1>3 DEF ReadCreated
  <2>3. StoreType'
    BY <1>1, <1>3 DEF ReadCreated, StoreType
  <2>. HIDE DEF S, pass
  <2>4. PassType'
    BY <1>1, <2>1, <2>2, ReadType
  <2>. QED
    BY <1>1, <2>3, <2>4 DEF TypeOK, StoreType, PassType, WebType
<1>4. CASE WriteRules(p)
  <2>1. \A e \in todo[p] : copy[p][e] \in Row
    BY <1>1, <1>4 DEF WriteRules, PassType
  <2>2. \A e \in todo[p] : [copy[p][e] EXCEPT !.tags = TRUE] \in Row
    BY <2>1, TaggedRow
  <2>3. StoreType'
    BY <1>1, <1>4, <2>2 DEF WriteRules, StoreType
  <2>4. PassType'
    BY <1>1, <1>4, ForgetType DEF WriteRules
  <2>. QED
    BY <1>1, <2>3, <2>4 DEF TypeOK, StoreType, PassType, WebType
<1>5. ASSUME NEW e \in todo[p], WritePerformers(p, e)
      PROVE  TypeOK'
  <2>1. copy[p][e] \in Row
    BY <1>1, <1>5 DEF WritePerformers, PassType
  <2>. DEFINE written == [copy[p][e] EXCEPT !.performers = TRUE]
  <2>2. written \in Row
    BY <2>1, ExtractedRow
  <2>3. row' = [row EXCEPT ![e] = written] /\ UNCHANGED <<source, overlay>>
    BY <1>5 DEF WritePerformers
  <2>. HIDE DEF written
  <2>4. StoreType'
    BY <1>1, <2>2, <2>3 DEF StoreType
  <2>5. PassType'
    BY <1>1, <1>2, <1>5, DoneType DEF WritePerformers
  <2>. QED
    BY <1>1, <2>4, <2>5 DEF TypeOK, StoreType, PassType, WebType
<1>6. ASSUME NEW e \in todo[p], NoPerformers(p, e) \/ Unmatched(p, e)
      PROVE  TypeOK'
  <2>1. StoreType'
    BY <1>1, <1>6 DEF NoPerformers, Unmatched, StoreType
  <2>2. PassType'
    BY <1>1, <1>2, <1>6, DoneType DEF NoPerformers, Unmatched
  <2>. QED
    BY <1>1, <2>1, <2>2 DEF TypeOK, StoreType, PassType, WebType
<1>7. ASSUME NEW e \in todo[p], SaveOverlay(p, e)
      PROVE  TypeOK'
  <2>1. pc[p] \in Provider /\ TableOf(pc[p]) \in Table
    BY <1>7 DEF SaveOverlay, TableOf, Table
  <2>2. StoreType'
    BY <1>1, <1>7, <2>1 DEF SaveOverlay, Overlaid, StoreType
  <2>3. PassType'
    BY <1>1, <1>2, <1>7, DoneType DEF SaveOverlay
  <2>. QED
    BY <1>1, <2>2, <2>3 DEF TypeOK, StoreType, PassType, WebType
<1>8. ASSUME NEW e \in todo[p], SaveRaises(p, e)
      PROVE  TypeOK'
  <2>1. StoreType'
    BY <1>1, <1>8 DEF SaveRaises, StoreType
  <2>2. PassType'
    BY <1>1, <1>8, ForgetType DEF SaveRaises
  <2>. QED
    BY <1>1, <2>1, <2>2 DEF TypeOK, StoreType, PassType, WebType
<1>. QED
  BY <1>3, <1>4, <1>5, <1>6, <1>7, <1>8 DEF Handle

LEMMA FetchType ==
  ASSUME TypeOK, NEW e \in Event, Visit(e) \/ Fetch(e) \/ FetchStep(e)
  PROVE  TypeOK'
<1>1. StoreType /\ PassType'
  BY TypeParts DEF Visit, Fetch, FetchStep, FetchReads, FetchSaves, FetchRaises,
                   FetchEnds, FetchDies, passVars, PassType
<1>2. visits[e] \in Nat /\ MaxVisits[e] \in Nat /\ visits[e] <= MaxVisits[e]
  BY ConstantsAssumption DEF TypeOK
<1>3. CASE Visit(e)
  <2>1. StoreType'
    BY <1>1, <1>3 DEF Visit, StoreType
  <2>2. WebType'
    BY <1>2, <1>3, TypeParts DEF Visit, WebType
  <2>. QED
    BY <1>1, <2>1, <2>2 DEF TypeOK, StoreType, PassType, WebType
<1>4. CASE Fetch(e)
  <2>1. StoreType'
    BY <1>1, <1>4 DEF Fetch, StoreType
  <2>2. visits' \in [Event -> Nat] /\ \A o \in Event : visits'[o] <= MaxVisits[o]
    BY <1>2, <1>4, TypeParts DEF Fetch, WebType
  <2>3. /\ status' \in [Event -> {"idle", "fetching", "ready", "failed"}]
        /\ thread' \in [Event -> ThreadStage]
    BY <1>4, TypeParts DEF Fetch, WebType, ThreadStage
  <2>. QED
    BY <1>1, <2>1, <2>2, <2>3 DEF TypeOK, StoreType, PassType
<1>5. CASE FetchStep(e)
  <2>1. StoreType'
    <3>1. CASE FetchSaves(e)
      <4>1. "links" \in Provider /\ TableOf("links") \in Table
        BY DEF Provider, TableOf, Table
      <4>. QED
        BY <1>1, <3>1, <4>1 DEF FetchSaves, Overlaid, StoreType
    <3>2. CASE FetchReads(e) \/ FetchRaises(e) \/ FetchEnds(e) \/ FetchDies(e)
      BY <1>1, <3>2 DEF FetchReads, FetchRaises, FetchEnds, FetchDies, StoreType
    <3>. QED
      BY <1>5, <3>1, <3>2 DEF FetchStep
  <2>2. /\ thread' \in [Event -> ThreadStage]
        /\ status' \in [Event -> {"idle", "fetching", "ready", "failed"}]
        /\ UNCHANGED visits
    BY <1>5 DEF FetchStep, FetchReads, FetchSaves, FetchRaises, FetchEnds, FetchDies,
                GoTo, TypeOK, ThreadStage
  <2>. QED
    BY <1>1, <2>1, <2>2 DEF TypeOK, StoreType, PassType
<1>. QED
  BY <1>3, <1>4, <1>5

LEMMA NextType == TypeOK /\ [Next]_vars => TypeOK'
<1>. SUFFICES ASSUME TypeOK, [Next]_vars PROVE TypeOK'
  OBVIOUS
<1>1. ASSUME NEW e \in Event, NEW v \in Version \cup {None}, Edit(e, v)
      PROVE  TypeOK'
  BY <1>1 DEF Edit, passVars, webVars, TypeOK
<1>2. ASSUME NEW p \in Process, Kill(p)
      PROVE  TypeOK'
  <2>1. StoreType' /\ WebType'
    BY <1>2, TypeParts DEF Kill, webVars, StoreType, WebType
  <2>2. PassType'
    BY <1>2, TypeParts, ForgetType DEF Kill
  <2>. QED
    BY <2>1, <2>2 DEF TypeOK, StoreType, PassType, WebType
<1>3. CASE Restart
  BY <1>3, ConstantsAssumption DEF Restart, passVars, TypeOK, ThreadStage
<1>4. CASE UNCHANGED vars
  BY <1>4 DEF vars, TypeOK
<1>. QED
  BY <1>1, <1>2, <1>3, <1>4, SyncType, StartType, HandleType, FetchType DEF Next

\* Every reachable state of the additions has its type.
THEOREM OverlaysTypeCorrect == Spec => []TypeOK
  BY InitType, NextType, PTL DEF Spec

-----------------------------------------------------------------------------
\* Overlays and their events.

LEMMA NextStored == TypeOK /\ OverlaysHaveEvents /\ [Next]_vars => OverlaysHaveEvents'
<1>. SUFFICES ASSUME TypeOK, OverlaysHaveEvents, [Next]_vars
              PROVE  OverlaysHaveEvents'
  OBVIOUS
<1>1. CASE UNCHANGED overlay /\ \A e \in Event : row[e] # NoRow => row'[e] # NoRow
  BY <1>1 DEF OverlaysHaveEvents
<1>2. ASSUME NEW e \in Event, NEW k \in Provider, UNCHANGED row, row[e] # NoRow,
             Overlaid(k, e)
      PROVE  OverlaysHaveEvents'
  <2>1. TableOf(k) \in Table
    BY DEF TableOf, Table
  <2>. QED
    BY <1>2, <2>1 DEF Overlaid, OverlaysHaveEvents, TypeOK
<1>3. ASSUME NEW p \in Process, Sync(p)
      PROVE  OverlaysHaveEvents'
  <2>1. ASSUME NEW t \in Table, NEW e \in Event, overlay'[t][e] # NoOverlay
        PROVE  row'[e] # NoRow
    <3>1. overlay'[t][e] = Cascaded(t, e) /\ row'[e] = Written(e)
      BY <1>3 DEF Sync
    <3>2. source[e] # None
      BY <2>1, <3>1 DEF Cascaded
    <3>. QED
      BY <3>1, <3>2, WrittenType, TypeParts
  <2>. QED
    BY <2>1 DEF OverlaysHaveEvents
<1>4. ASSUME NEW p \in Process, WriteRules(p)
      PROVE  OverlaysHaveEvents'
  <2>1. ASSUME NEW e \in Event, row[e] # NoRow
        PROVE  row'[e] # NoRow
    <3>1. CASE e \in todo[p]
      <4>1. copy[p][e] \in Row
        BY <1>4, <3>1 DEF WriteRules, TypeOK
      <4>2. row'[e] = [copy[p][e] EXCEPT !.tags = TRUE]
        BY <1>4, <3>1 DEF WriteRules
      <4>. QED
        BY <4>1, <4>2, TaggedRow, Rows
    <3>2. CASE e \notin todo[p]
      BY <1>4, <2>1, <3>2 DEF WriteRules
    <3>. QED
      BY <3>1, <3>2
  <2>. QED
    BY <1>1, <1>4, <2>1 DEF WriteRules
<1>5. ASSUME NEW p \in Process, NEW e \in todo[p], WritePerformers(p, e)
      PROVE  OverlaysHaveEvents'
  <2>1. e \in Event /\ copy[p][e] \in Row
    BY <1>5 DEF WritePerformers, TypeOK
  <2>. DEFINE written == [copy[p][e] EXCEPT !.performers = TRUE]
  <2>2. written # NoRow
    BY <2>1, ExtractedRow, Rows
  <2>3. row' = [row EXCEPT ![e] = written] /\ UNCHANGED overlay
    BY <1>5 DEF WritePerformers
  <2>. HIDE DEF written
  <2>. QED
    BY <1>1, <2>1, <2>2, <2>3 DEF TypeOK
<1>6. ASSUME NEW p \in Process, NEW e \in todo[p], SaveOverlay(p, e)
      PROVE  OverlaysHaveEvents'
  <2>1. e \in Event
    BY DEF TypeOK
  <2>. QED
    BY <1>2, <1>6, <2>1 DEF SaveOverlay
<1>7. ASSUME NEW e \in Event, FetchSaves(e)
      PROVE  OverlaysHaveEvents'
  <2>1. "links" \in Provider
    BY DEF Provider
  <2>. QED
    BY <1>1, <1>2, <1>7, <2>1 DEF FetchSaves
<1>8. CASE UNCHANGED <<row, overlay>>
  BY <1>1, <1>8
<1>9. ASSUME NEW p \in Process,
             \/ StartTitles(p) \/ StartRules(p) \/ ReadCreated(p) \/ Kill(p)
             \/ \E k \in Provider : StartOverlays(p, k)
             \/ \E e \in todo[p] : NoPerformers(p, e) \/ Unmatched(p, e) \/ SaveRaises(p, e)
      PROVE  OverlaysHaveEvents'
  BY <1>8, <1>9 DEF StartTitles, StartRules, ReadCreated, Kill, StartOverlays,
                    NoPerformers, Unmatched, SaveRaises
<1>10. ASSUME NEW e \in Event,
              \/ Visit(e) \/ Fetch(e) \/ FetchReads(e) \/ FetchRaises(e)
              \/ FetchEnds(e) \/ FetchDies(e)
       PROVE  OverlaysHaveEvents'
  BY <1>8, <1>10 DEF Visit, Fetch, FetchReads, FetchRaises, FetchEnds, FetchDies
<1>11. CASE Restart
  BY <1>8, <1>11 DEF Restart
<1>12. ASSUME NEW e \in Event, NEW v \in Version \cup {None}, Edit(e, v)
       PROVE  OverlaysHaveEvents'
  BY <1>8, <1>12 DEF Edit
<1>13. CASE UNCHANGED vars
  BY <1>8, <1>13 DEF vars
<1>. QED
  BY <1>3, <1>4, <1>5, <1>6, <1>7, <1>9, <1>10, <1>11, <1>12, <1>13
     DEF Next, Handle, FetchStep

\* storage.py: an overlay never outlives its event, and none is saved for an
\* event that was deleted while somebody looked it up.
THEOREM NoOrphanOverlays == Spec => []OverlaysHaveEvents
<1>1. Init => OverlaysHaveEvents
  BY DEF Init, OverlaysHaveEvents
<1>. QED
  BY <1>1, NextStored, OverlaysTypeCorrect, PTL DEF Spec

-----------------------------------------------------------------------------
\* The fetches of a page.

\* A thread that runs is what the status says.
FetchTracked ==
  \A e \in Event : thread[e] \in {"read", "save", "check", "failed"} =>
    status[e] = "fetching"

LEMMA NextTracked == TypeOK /\ FetchTracked /\ [Next]_vars => FetchTracked'
<1>. SUFFICES ASSUME TypeOK, FetchTracked, [Next]_vars PROVE FetchTracked'
  OBVIOUS
<1>1. ASSUME NEW e \in Event, Fetch(e)
      PROVE  FetchTracked'
  BY <1>1 DEF Fetch, FetchTracked, TypeOK
<1>2. ASSUME NEW e \in Event, FetchStep(e)
      PROVE  FetchTracked'
  BY <1>2 DEF FetchStep, FetchReads, FetchSaves, FetchRaises, FetchEnds, FetchDies,
              GoTo, FetchTracked, TypeOK
<1>3. CASE Restart
  BY <1>3 DEF Restart, FetchTracked
<1>4. CASE UNCHANGED <<status, thread>>
  BY <1>4 DEF FetchTracked
<1>5. ASSUME NEW p \in Process,
             \/ Sync(p) \/ StartTitles(p) \/ StartRules(p) \/ Handle(p) \/ Kill(p)
             \/ \E k \in Provider : StartOverlays(p, k)
      PROVE  FetchTracked'
  BY <1>4, <1>5 DEF Sync, StartTitles, StartRules, Kill, StartOverlays, Handle,
    ReadCreated, WriteRules, NoPerformers, WritePerformers, Unmatched, SaveOverlay,
    SaveRaises, webVars
<1>6. ASSUME NEW e \in Event,
             Visit(e) \/ \E v \in Version \cup {None} : Edit(e, v)
      PROVE  FetchTracked'
  BY <1>4, <1>6 DEF Visit, Edit, webVars
<1>7. CASE UNCHANGED vars
  BY <1>4, <1>7 DEF vars
<1>. QED
  BY <1>1, <1>2, <1>3, <1>5, <1>6, <1>7 DEF Next

LEMMA StepStartsOne ==
  ASSUME TypeOK, FetchTracked, [Next]_vars, NEW e \in Event,
         thread[e] \in {"save", "check", "failed"}
  PROVE  thread'[e] # "read"
<1>1. ASSUME NEW o \in Event, Fetch(o)
      PROVE  thread'[e] # "read"
  BY <1>1 DEF Fetch, FetchTracked, TypeOK
<1>2. ASSUME NEW o \in Event, FetchStep(o)
      PROVE  thread'[e] # "read"
  BY <1>2 DEF FetchStep, FetchReads, FetchSaves, FetchRaises, FetchEnds, FetchDies,
              GoTo, TypeOK
<1>3. CASE Restart
  BY <1>3 DEF Restart
<1>4. CASE UNCHANGED thread
  BY <1>4
<1>5. ASSUME NEW p \in Process,
             \/ Sync(p) \/ StartTitles(p) \/ StartRules(p) \/ Handle(p) \/ Kill(p)
             \/ \E k \in Provider : StartOverlays(p, k)
      PROVE  UNCHANGED thread
  BY <1>5 DEF Sync, StartTitles, StartRules, Kill, StartOverlays, Handle,
    ReadCreated, WriteRules, NoPerformers, WritePerformers, Unmatched, SaveOverlay,
    SaveRaises, webVars
<1>6. ASSUME NEW o \in Event,
             Visit(o) \/ \E v \in Version \cup {None} : Edit(o, v)
      PROVE  UNCHANGED thread
  BY <1>6 DEF Visit, Edit, webVars
<1>7. CASE UNCHANGED vars
  BY <1>4, <1>7 DEF vars
<1>. QED
  BY <1>1, <1>2, <1>3, <1>4, <1>5, <1>6, <1>7 DEF Next

\* start_event_augmentation: nobody starts a second thread for an event.
THEOREM NoSecondFetch == Spec => OneFetch
<1>1. Init => FetchTracked
  BY DEF Init, FetchTracked
<1>2. TypeOK /\ FetchTracked /\ [Next]_vars =>
        [\A e \in Event :
           thread[e] \in {"save", "check", "failed"} => thread'[e] # "read"]_vars
  BY StepStartsOne
<1>. QED
  BY <1>1, <1>2, NextTracked, OverlaysTypeCorrect, PTL DEF Spec, OneFetch
=============================================================================
