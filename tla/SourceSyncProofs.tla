-------------------------- MODULE SourceSyncProofs --------------------------
(***************************************************************************)
(* What holds of SourceSync for every number of processes and databases    *)
(* and every content of the feed.                                          *)
(***************************************************************************)
EXTENDS SourceSync, TLAPS

USE DEF Row, Tag, Snapshot, NoSnapshot, Stage

LEMMA NoRowsType == NoRows \in [Event -> Row]
  BY DEF NoRows

LEMMA NoSnapshotType == NoSnapshot \in Snapshot
  OBVIOUS

\* The rows after a transaction are rows.
LEMMA ReconciledType ==
  ASSUME NEW rows \in [Event -> Row], NEW v \in Version, NEW old \in Row
  PROVE  Reconciled(rows, v, old) \in [Event -> Row]
<1>1. Body[v] \in [Event -> Row] /\ FirstRow[v] \in Event
  BY ConstantsAssumption
<1>2. FirstRowAfter(rows[FirstRow[v]], old, Body[v][FirstRow[v]]) \in Row
  BY <1>1 DEF FirstRowAfter
<1>. QED
  BY <1>1, <1>2 DEF Reconciled

-----------------------------------------------------------------------------
\* Type correctness.

LEMMA InitType == Init => TypeOK
  BY NoRowsType DEF Init, TypeOK

\* A runner that leaves sync_source keeps its local variables typed.
LEMMA LeaveType ==
  ASSUME TypeOK, NEW r \in Runner, Leave(r)
  PROVE  /\ pc' \in [Runner -> Stage]
         /\ request' \in [Runner -> Snapshot]
         /\ tag' \in [Runner -> Tag]
         /\ body' \in [Runner -> Tag]
         /\ downloaded' \in [Runner -> BOOLEAN]
         /\ seen' \in [Runner -> Row]
         /\ \A s \in Runner :
              pc'[s] \in {"parse", "write", "cacheSnapshot", "cacheBody"}
                => body'[s] \in Version
  BY DEF TypeOK, Leave

LEMMA StepType ==
  ASSUME TypeOK, NEW r \in Runner, SyncStep(r)
  PROVE  TypeOK'
<1>d. DbOf[r] \in Database
  BY ConstantsAssumption
<1>1. CASE ReadSnapshot(r)
  BY <1>1, <1>d DEF ReadSnapshot, Goto, TypeOK, shared
<1>2. CASE ReadCachedSnapshot(r)
  BY <1>2 DEF ReadCachedSnapshot, Goto, TypeOK, shared
<1>3. CASE RequestFails(r)
  BY <1>3, LeaveType DEF RequestFails, TypeOK, shared
<1>4. CASE NotModified(r)
  BY <1>4 DEF NotModified, Goto, StoredTag, TypeOK, shared
<1>5. CASE Download(r)
  BY <1>5 DEF Download, Goto, StoredTag, TypeOK, shared
<1>6. CASE ReadCachedBody(r)
  <2>1. CASE bodyCache = None
    <3>1. Goto(r, "notModified", "touch") /\ UNCHANGED <<body, request>>
      BY <1>6, <2>1 DEF ReadCachedBody
    <3>. QED
      BY <1>6, <2>1, <3>1 DEF ReadCachedBody, Goto, TypeOK, shared
  <2>2. CASE bodyCache # None
    <3>1. /\ Goto(r, "notModified", "parse")
          /\ body' = [body EXCEPT ![r] = bodyCache]
          /\ request' = [request EXCEPT ![r] = NoSnapshot]
      BY <1>6, <2>2 DEF ReadCachedBody
    <3>2. bodyCache \in Version
      BY <2>2 DEF TypeOK
    <3>. QED
      BY <1>6, <3>1, <3>2 DEF ReadCachedBody, Goto, TypeOK, shared
  <2>. QED
    BY <2>1, <2>2
<1>7. CASE TouchSnapshot(r)
  BY <1>7, LeaveType DEF TouchSnapshot, TypeOK
<1>8. CASE TouchFails(r)
  BY <1>8, LeaveType DEF TouchFails, TypeOK, shared
<1>9. CASE ParseFails(r)
  BY <1>9, LeaveType DEF ParseFails, TypeOK, shared
<1>10. CASE ReadFirstRow(r)
  <2>1. catalog[DbOf[r]][FirstRow[body[r]]] \in Row
    BY <1>10, <1>d, ConstantsAssumption DEF ReadFirstRow, Goto, TypeOK
  <2>. QED
    BY <1>10, <2>1 DEF ReadFirstRow, Goto, TypeOK, shared
<1>11. CASE Commit(r)
  <2>1. Reconciled(catalog[DbOf[r]], body[r], seen[r]) \in [Event -> Row]
    BY <1>11, <1>d, ReconciledType DEF Commit, Goto, TypeOK
  <2>2. catalog' \in [Database -> [Event -> Row]]
    BY <1>11, <2>1 DEF Commit, TypeOK
  <2>3. snapshot' \in [Database -> Snapshot]
    BY <1>11 DEF Commit, TypeOK
  <2>. QED
    BY <1>11, <2>2, <2>3 DEF Commit, Goto, TypeOK
<1>12. CASE Rollback(r)
  BY <1>12, LeaveType DEF Rollback, TypeOK, shared
<1>13. CASE SaveCachedSnapshot(r)
  BY <1>13 DEF SaveCachedSnapshot, Goto, TypeOK, local
<1>14. CASE SaveCachedBody(r)
  BY <1>14, LeaveType DEF SaveCachedBody, TypeOK
<1>. QED
  BY <1>1, <1>2, <1>3, <1>4, <1>5, <1>6, <1>7, <1>8, <1>9, <1>10, <1>11,
     <1>12, <1>13, <1>14 DEF SyncStep

LEMMA NextType == TypeOK /\ [Next]_vars => TypeOK'
<1>. SUFFICES ASSUME TypeOK, [Next]_vars PROVE TypeOK'
  OBVIOUS
<1>1. CASE \E r \in Runner : SyncStep(r)
  BY <1>1, StepType
<1>2. CASE \E r \in Runner : Crash(r)
  BY <1>2, LeaveType DEF Crash, TypeOK, shared
<1>3. CASE \E r \in Runner : ClearSyncCache(r)
  BY <1>3 DEF ClearSyncCache, TypeOK, local
<1>4. CASE \E v \in Version : Publish(v)
  BY <1>4 DEF Publish, TypeOK, shared, local
<1>5. CASE \E d \in Database : ClearDatabase(d)
  BY <1>5, NoRowsType DEF ClearDatabase, TypeOK, local
<1>6. CASE UNCHANGED vars
  BY <1>6 DEF vars, shared, local, TypeOK
<1>. QED
  BY <1>1, <1>2, <1>3, <1>4, <1>5, <1>6 DEF Next

\* Every reachable state of any instance is well typed; in particular a
\* document is at hand whenever one is parsed, stored or cached.
THEOREM TypeCorrect == Spec => []TypeOK
  BY InitType, NextType, PTL DEF Spec

-----------------------------------------------------------------------------
\* The torn row.

LEMMA StoredRows ==
  ASSUME NEW rows, NEW v \in Version, NEW old, Body[v] # NoRows
  PROVE  \A e \in Event \ {FirstRow[v]} :
           Reconciled(rows, v, old)[e] = Body[v][e]
  BY ConstantsAssumption DEF Reconciled

LEMMA TornStep ==
  ASSUME TypeOK, TornOnlyInFirstRow, [Next]_vars
  PROVE  TornOnlyInFirstRow'
<1>1. SUFFICES ASSUME NEW d \in Database, catalog'[d] # NoRows
               PROVE  \E v \in Version : \A e \in Event \ {FirstRow[v]} :
                        catalog'[d][e] = Body[v][e]
  BY DEF TornOnlyInFirstRow
<1>2. CASE catalog'[d] = catalog[d]
  BY <1>1, <1>2 DEF TornOnlyInFirstRow
<1>3. CASE \E r \in Runner : Commit(r)
  <2>1. PICK r \in Runner : Commit(r)
    BY <1>3
  <2>2. CASE DbOf[r] # d
    BY <1>2, <2>1, <2>2 DEF Commit, TypeOK
  <2>3. CASE DbOf[r] = d
    <3>1. /\ catalog'[d] = Reconciled(catalog[d], body[r], seen[r])
          /\ body[r] \in Version
      BY <2>1, <2>3 DEF Commit, Goto, TypeOK
    <3>2. CASE Body[body[r]] = NoRows
      BY <1>2, <3>1, <3>2 DEF Reconciled
    <3>3. CASE Body[body[r]] # NoRows
      BY <3>1, <3>3, StoredRows
    <3>. QED
      BY <3>2, <3>3
  <2>. QED
    BY <2>2, <2>3
<1>4. CASE \E c \in Database : ClearDatabase(c)
  <2>1. PICK c \in Database : ClearDatabase(c)
    BY <1>4
  <2>2. catalog'[d] = catalog[d] \/ catalog'[d] = NoRows
    BY <2>1 DEF ClearDatabase, TypeOK
  <2>. QED
    BY <1>1, <1>2, <2>2
<1>5. \/ UNCHANGED catalog
      \/ \E r \in Runner : Commit(r)
      \/ \E c \in Database : ClearDatabase(c)
  BY DEF Next, SyncStep, vars, shared, ReadSnapshot, ReadCachedSnapshot,
         RequestFails, NotModified, Download, ReadCachedBody, TouchSnapshot,
         TouchFails, ParseFails, ReadFirstRow, Rollback, SaveCachedSnapshot,
         SaveCachedBody, Publish, Crash, ClearSyncCache
<1>. QED
  BY <1>2, <1>3, <1>4, <1>5

\* Overlapping syncs of one database, crashes and clears can damage no row
\* but the first of the document that was stored last.
THEOREM TornRowIsTheOnlyDamage == Spec => []TornOnlyInFirstRow
<1>1. Init => TornOnlyInFirstRow
  BY DEF Init, TornOnlyInFirstRow
<1>. QED
  BY <1>1, TypeCorrect, TornStep, PTL DEF Spec

-----------------------------------------------------------------------------
\* Rows and hash of a database with a single runner.

\* A step of r touches its own variables and its own database only.
LEMMA StepFrame ==
  ASSUME TypeOK, NEW r \in Runner, SyncStep(r)
  PROVE  /\ \A s \in Runner \ {r} :
              /\ pc'[s] = pc[s] /\ request'[s] = request[s]
              /\ body'[s] = body[s] /\ seen'[s] = seen[s]
         /\ \A c \in Database \ {DbOf[r]} :
              catalog'[c] = catalog[c] /\ snapshot'[c] = snapshot[c]
<1>1. CASE ReadSnapshot(r) \/ ReadCachedSnapshot(r) \/ NotModified(r) \/ Download(r)
  BY <1>1 DEF ReadSnapshot, ReadCachedSnapshot, NotModified, Download, Goto,
              TypeOK, shared
<1>2. CASE RequestFails(r) \/ TouchFails(r) \/ ParseFails(r) \/ Rollback(r)
  BY <1>2 DEF RequestFails, TouchFails, ParseFails, Rollback, Leave, TypeOK,
              shared
<1>3. CASE ReadCachedBody(r) \/ ReadFirstRow(r)
  BY <1>3 DEF ReadCachedBody, ReadFirstRow, Goto, TypeOK, shared
<1>4. CASE TouchSnapshot(r)
  BY <1>4 DEF TouchSnapshot, Leave, TypeOK
<1>5. CASE Commit(r)
  BY <1>5 DEF Commit, Goto, TypeOK
<1>6. CASE SaveCachedSnapshot(r) \/ SaveCachedBody(r)
  BY <1>6 DEF SaveCachedSnapshot, SaveCachedBody, Goto, Leave, TypeOK, local
<1>. QED
  BY <1>1, <1>2, <1>3, <1>4, <1>5, <1>6 DEF SyncStep

\* When no one else wrote the first row, a transaction stores its document.
LEMMA ReconciledWhole ==
  ASSUME NEW rows \in [Event -> Row], NEW v \in Version, Body[v] # NoRows
  PROVE  Reconciled(rows, v, rows[FirstRow[v]]) = Body[v]
<1>1. Body[v] \in [Event -> Row] /\ FirstRow[v] \in Event
  BY ConstantsAssumption
<1>2. FirstRowAfter(rows[FirstRow[v]], rows[FirstRow[v]], Body[v][FirstRow[v]])
        = Body[v][FirstRow[v]]
  BY DEF FirstRowAfter
<1>. QED
  BY <1>1, <1>2 DEF Reconciled

\* The part of the invariant about one runner and its database.
Own(r) ==
  LET d == DbOf[r] h == snapshot[d].hash IN
  Exclusive(d) =>
    /\ InFlight(r)
    /\ catalog[d] # NoRows => h # None /\ (Body[h] # NoRows => catalog[d] = Body[h])

LEMMA OwnStep ==
  ASSUME SyncInv, NEW r \in Runner, SyncStep(r)
  PROVE  Own(r)'
<1> DEFINE d == DbOf[r]
<1>d. d \in Database
  BY ConstantsAssumption
<1>o. Own(r)
  BY <1>d DEF SyncInv, CatalogMatchesHash, Own
<1>t. TypeOK
  BY DEF SyncInv
<1>1. CASE ReadSnapshot(r)
  BY <1>1, <1>d, <1>o, <1>t DEF ReadSnapshot, Goto, Own, InFlight, TypeOK, shared
<1>2. CASE ReadCachedSnapshot(r)
  BY <1>2, <1>d, <1>o, <1>t
     DEF ReadCachedSnapshot, Goto, Own, InFlight, TypeOK, shared
<1>3. CASE NotModified(r) \/ Download(r)
  BY <1>3, <1>d, <1>o, <1>t
     DEF NotModified, Download, Goto, Own, InFlight, TypeOK, shared
<1>4. CASE RequestFails(r) \/ TouchFails(r) \/ ParseFails(r) \/ Rollback(r)
  BY <1>4, <1>d, <1>o, <1>t
     DEF RequestFails, TouchFails, ParseFails, Rollback, Leave, Own, InFlight,
         TypeOK, shared
<1>5. CASE ReadCachedBody(r)
  BY <1>5, <1>d, <1>o, <1>t
     DEF ReadCachedBody, Goto, Own, InFlight, TypeOK, shared
<1>6. CASE ReadFirstRow(r)
  BY <1>6, <1>d, <1>o, <1>t
     DEF ReadFirstRow, Goto, Own, InFlight, TypeOK, shared
<1>7. CASE TouchSnapshot(r)
  <2>1. /\ snapshot'[d].hash = request[r].hash
        /\ catalog' = catalog
        /\ pc[r] = "touch" /\ pc'[r] = "idle"
    BY <1>7, <1>d, <1>t DEF TouchSnapshot, Leave, TypeOK
  <2>. QED
    BY <2>1, <1>o DEF Own, InFlight
<1>8. CASE Commit(r)
  <2>1. /\ catalog'[d] = Reconciled(catalog[d], body[r], seen[r])
        /\ snapshot'[d].hash = body[r]
        /\ pc[r] = "write" /\ pc'[r] = "cacheSnapshot"
        /\ body[r] \in Version
        /\ catalog[d] \in [Event -> Row]
    BY <1>8, <1>d, <1>t DEF Commit, Goto, TypeOK
  <2>2. ASSUME Exclusive(d), Body[body[r]] # NoRows
        PROVE  catalog'[d] = Body[body[r]]
    BY <2>1, <2>2, <1>o, ReconciledWhole DEF Own, InFlight
  <2>. QED
    BY <2>1, <2>2, ConstantsAssumption DEF Own, InFlight
<1>9. CASE SaveCachedSnapshot(r) \/ SaveCachedBody(r)
  BY <1>9, <1>d, <1>o, <1>t
     DEF SaveCachedSnapshot, SaveCachedBody, Goto, Leave, Own, InFlight, TypeOK,
         local
<1>. QED
  BY <1>1, <1>2, <1>3, <1>4, <1>5, <1>6, <1>7, <1>8, <1>9 DEF SyncStep

\* A step by another process: the database of s is not its database.
LEMMA OthersStep ==
  ASSUME SyncInv, NEW r \in Runner, SyncStep(r), NEW s \in Runner \ {r}
  PROVE  InFlight(s)'
<1> DEFINE d == DbOf[s]
<1>1. SUFFICES ASSUME Exclusive(d) PROVE InFlight(s)'
  BY DEF InFlight
<1>2. d \in Database \ {DbOf[r]}
  BY <1>1, ConstantsAssumption DEF Exclusive
<1>3. /\ pc'[s] = pc[s] /\ request'[s] = request[s]
      /\ body'[s] = body[s] /\ seen'[s] = seen[s]
      /\ catalog'[d] = catalog[d] /\ snapshot'[d] = snapshot[d]
  BY <1>2, StepFrame DEF SyncInv
<1>. QED
  BY <1>1, <1>3 DEF SyncInv, InFlight

LEMMA SyncInvStep == SyncInv /\ [Next]_vars => SyncInv'
<1>. SUFFICES ASSUME SyncInv, [Next]_vars PROVE SyncInv'
  OBVIOUS
<1>0. TypeOK'
  BY NextType DEF SyncInv
<1>1. CASE \E r \in Runner : SyncStep(r)
  <2>1. PICK r \in Runner : SyncStep(r)
    BY <1>1
  <2>2. \A s \in Runner : InFlight(s)'
    <3>1. InFlight(r)'
      BY <2>1, OwnStep DEF Own, InFlight
    <3>. QED
      BY <2>1, <3>1, OthersStep
  <2>3. CatalogMatchesHash'
    <3>1. ASSUME NEW c \in Database \ {DbOf[r]}
          PROVE  catalog'[c] = catalog[c] /\ snapshot'[c] = snapshot[c]
      BY <2>1, StepFrame DEF SyncInv
    <3>2. Own(r)'
      BY <2>1, OwnStep
    <3>. QED
      BY <3>1, <3>2 DEF SyncInv, CatalogMatchesHash, Own
  <2>. QED
    BY <1>0, <2>2, <2>3 DEF SyncInv
<1>2. CASE \E r \in Runner : Crash(r)
  <2>1. PICK r \in Runner : Crash(r)
    BY <1>2
  <2>2. \A s \in Runner : InFlight(s)'
    BY <2>1 DEF Crash, Leave, SyncInv, InFlight, TypeOK, shared
  <2>3. CatalogMatchesHash'
    BY <2>1 DEF Crash, SyncInv, CatalogMatchesHash, shared
  <2>. QED
    BY <1>0, <2>2, <2>3 DEF SyncInv
<1>3. CASE \E d \in Database : ClearDatabase(d)
  <2>1. PICK d \in Database : ClearDatabase(d)
    BY <1>3
  <2>2. ~ Exclusive(d)
    BY <2>1 DEF ClearDatabase, Exclusive
  <2>3. \A c \in Database \ {d} :
          catalog'[c] = catalog[c] /\ snapshot'[c] = snapshot[c]
    BY <2>1 DEF ClearDatabase, SyncInv, TypeOK
  <2>4. CatalogMatchesHash'
    BY <2>2, <2>3 DEF SyncInv, CatalogMatchesHash
  <2>5. ASSUME NEW s \in Runner PROVE InFlight(s)'
    <3>1. CASE DbOf[s] = d
      BY <2>2, <3>1 DEF InFlight
    <3>2. CASE DbOf[s] # d
      <4>1. DbOf[s] \in Database \ {d}
        BY <3>2, ConstantsAssumption
      <4>. QED
        BY <2>1, <2>3, <4>1 DEF ClearDatabase, SyncInv, InFlight, local
    <3>. QED
      BY <3>1, <3>2
  <2>. QED
    BY <1>0, <2>4, <2>5 DEF SyncInv
<1>4. CASE UNCHANGED <<catalog, snapshot, pc, local>>
  BY <1>0, <1>4 DEF SyncInv, CatalogMatchesHash, InFlight, local
<1>5. \/ \E r \in Runner : SyncStep(r) \/ Crash(r)
      \/ \E d \in Database : ClearDatabase(d)
      \/ UNCHANGED <<catalog, snapshot, pc, local>>
  BY DEF Next, ClearSyncCache, Publish, vars, shared
<1>. QED
  BY <1>1, <1>2, <1>3, <1>4, <1>5

\* Rows and hash are always committed together, in every database that one
\* runner synchronises and no one clears.
THEOREM HashNamesTheStoredRows == Spec => []CatalogMatchesHash
<1>1. Init => SyncInv
  BY InitType DEF Init, SyncInv, CatalogMatchesHash, InFlight
<1>2. SyncInv => CatalogMatchesHash
  BY DEF SyncInv
<1>. QED
  BY <1>1, <1>2, SyncInvStep, PTL DEF Spec

-----------------------------------------------------------------------------
\* Refinement.

LEMMA PublishedStep ==
  ASSUME SyncInv, [Next]_vars
  PROVE  [Published!Next]_([d \in ExclusiveDatabase |-> catalog[d]])
<1> DEFINE view == [d \in ExclusiveDatabase |-> catalog[d]]
<1>1. CASE \A d \in ExclusiveDatabase : catalog'[d] = catalog[d]
  <2>1. view' = view
    BY <1>1
  <2>. QED
    BY <2>1
<1>2. CASE \E r \in Runner : Commit(r)
  <2>1. PICK r \in Runner : Commit(r)
    BY <1>2
  <2> DEFINE d == DbOf[r]
  <2>2. /\ d \in Database
        /\ catalog[d] \in [Event -> Row]
        /\ body[r] \in Version
        /\ catalog' = [catalog EXCEPT ![d] = Reconciled(@, body[r], seen[r])]
    BY <2>1, ConstantsAssumption DEF Commit, Goto, SyncInv, TypeOK
  <2>3. CASE d \notin ExclusiveDatabase
    BY <1>1, <2>2, <2>3 DEF ExclusiveDatabase, SyncInv, TypeOK
  <2>4. CASE Body[body[r]] = NoRows
    BY <1>1, <2>2, <2>4 DEF Reconciled, ExclusiveDatabase, SyncInv, TypeOK
  <2>5. CASE d \in ExclusiveDatabase /\ Body[body[r]] # NoRows
    <3>1. seen[r] = catalog[d][FirstRow[body[r]]]
      BY <2>1, <2>5 DEF Commit, Goto, SyncInv, InFlight, ExclusiveDatabase
    <3>2. Reconciled(catalog[d], body[r], seen[r]) = Body[body[r]]
      BY <2>2, <2>5, <3>1, ReconciledWhole
    <3>3. view' = [view EXCEPT ![d] = Body[body[r]]]
      <4>1. ASSUME NEW c \in ExclusiveDatabase
            PROVE  view'[c] = [view EXCEPT ![d] = Body[body[r]]][c]
        <5>1. c \in Database
          BY DEF ExclusiveDatabase
        <5>2. catalog'[c] = IF c = d THEN Body[body[r]] ELSE catalog[c]
          BY <2>2, <3>2, <5>1 DEF SyncInv, TypeOK
        <5>. QED
          BY <5>2
      <4>. QED
        BY <4>1
    <3>4. PICK c \in ExclusiveDatabase, v \in Version : c = d /\ v = body[r]
      BY <2>2, <2>5
    <3>5. Published!Replace(c, v)
      BY <2>5, <3>3, <3>4 DEF Published!Replace, Published!Nothing, NoRows
    <3>6. Published!Next
      BY <3>5 DEF Published!Next
    <3>. QED
      BY <3>6
  <2>. QED
    BY <2>3, <2>4, <2>5
<1>3. CASE \E d \in Database : ClearDatabase(d)
  BY <1>1, <1>3 DEF ClearDatabase, ExclusiveDatabase, Exclusive, SyncInv, TypeOK
<1>4. \/ UNCHANGED catalog
      \/ \E r \in Runner : Commit(r)
      \/ \E c \in Database : ClearDatabase(c)
  BY DEF Next, SyncStep, vars, shared, ReadSnapshot, ReadCachedSnapshot,
         RequestFails, NotModified, Download, ReadCachedBody, TouchSnapshot,
         TouchFails, ParseFails, ReadFirstRow, Rollback, SaveCachedSnapshot,
         SaveCachedBody, Publish, Crash, ClearSyncCache
<1>. QED
  BY <1>1, <1>2, <1>3, <1>4

\* The detailed synchronisation implements the abstract catalog.
THEOREM SyncImplementsPublishedCatalog == Spec => PublishedSpec
<1>1. Init => Published!Init
  BY DEF Init, Published!Init, Published!Nothing, NoRows, ExclusiveDatabase
<1>2. Init => SyncInv
  BY InitType DEF Init, SyncInv, CatalogMatchesHash, InFlight
<1>. QED
  BY <1>1, <1>2, SyncInvStep, PublishedStep, PTL
     DEF Spec, PublishedSpec, Published!Spec
-----------------------------------------------------------------------------
\* The validator of a database whose runner is alone with the cache.

\* CacheInv about r and its database.
Validated(r) ==
  LET d == DbOf[r] t == snapshot[d].etag IN
  /\ t = snapshot[d].hash
  /\ metaCache.etag = metaCache.hash
  /\ t # None => Body[t] = NoRows \/ catalog[d] = Body[t]
  /\ CacheAgrees(r)

LEMMA ValidatedStep ==
  ASSUME SoleRunner, TypeOK, NEW r \in Runner, Validated(r), SyncStep(r)
  PROVE  Validated(r)'
<1> DEFINE d == DbOf[r]
<1>d. d \in Database
  BY ConstantsAssumption
<1>t. TypeOK /\ Validated(r)
  OBVIOUS
<1> USE DEF TypeOK, Validated, CacheAgrees
<1>1. CASE ReadSnapshot(r)
  BY <1>1, <1>d, <1>t DEF ReadSnapshot, Goto, shared
<1>2. CASE ReadCachedSnapshot(r)
  BY <1>2, <1>d, <1>t DEF ReadCachedSnapshot, Goto, shared
<1>3. CASE RequestFails(r) \/ TouchFails(r) \/ ParseFails(r) \/ Rollback(r)
  BY <1>3, <1>d, <1>t
     DEF RequestFails, TouchFails, ParseFails, Rollback, Leave, shared
<1>4. CASE NotModified(r)
  BY <1>4, <1>d, <1>t, ConstantsAssumption
     DEF NotModified, Goto, Matches, StoredTag, shared
<1>5. CASE Download(r)
  BY <1>5, <1>d, <1>t DEF Download, Goto, SoleRunner, StoredTag, shared
<1>6. CASE ReadCachedBody(r)
  BY <1>6, <1>d, <1>t DEF ReadCachedBody, Goto, shared
<1>7. CASE TouchSnapshot(r)
  BY <1>7, <1>d, <1>t DEF TouchSnapshot, Leave
<1>8. CASE ReadFirstRow(r)
  BY <1>8, <1>d, <1>t DEF ReadFirstRow, Goto, shared
<1>9. CASE Commit(r)
  <2>1. /\ pc[r] = "write" /\ pc'[r] = "cacheSnapshot"
        /\ catalog'[d] = Reconciled(catalog[d], body[r], seen[r])
        /\ snapshot'[d] = [etag |-> tag[r], hash |-> body[r]]
        /\ UNCHANGED <<metaCache, tag, body>>
        /\ body[r] \in Version /\ catalog[d] \in [Event -> Row]
    BY <1>9, <1>d, <1>t DEF Commit, Goto
  <2>2. tag[r] = body[r] /\ seen[r] = catalog[d][FirstRow[body[r]]]
    BY <2>1, <1>t
  <2>3. Body[body[r]] = NoRows \/ catalog'[d] = Body[body[r]]
    <3>1. CASE Body[body[r]] # NoRows
      <4>1. Reconciled(catalog[d], body[r], catalog[d][FirstRow[body[r]]]) = Body[body[r]]
        BY <2>1, <3>1, ReconciledWhole
      <4>. QED
        BY <2>1, <2>2, <4>1
    <3>. QED
      BY <3>1
  <2>. QED
    BY <2>1, <2>2, <2>3, <1>t
<1>10. CASE SaveCachedSnapshot(r)
  BY <1>10, <1>d, <1>t DEF SaveCachedSnapshot, Goto, local
<1>11. CASE SaveCachedBody(r)
  BY <1>11, <1>d, <1>t DEF SaveCachedBody, Leave
<1>. QED
  BY <1>1, <1>2, <1>3, <1>4, <1>5, <1>6, <1>7, <1>8, <1>9, <1>10, <1>11
     DEF SyncStep

\* The invariant speaks of databases that no runner opens, too; they keep
\* what they have until they are cleared.
LEMMA CacheInvStep ==
  ASSUME SoleRunner, CacheInv, [Next]_vars, [UndisturbedStep]_vars
  PROVE  CacheInv'
<1>0. TypeOK /\ TypeOK'
  BY NextType DEF CacheInv
<1>d. \A r \in Runner : DbOf[r] \in Database
  BY ConstantsAssumption
<1>v. \A r \in Runner : Validated(r)
  BY <1>d DEF CacheInv, ValidatorsNameDocuments, ValidatorDescribesCatalog,
              Validated
<1>1. CASE \E r \in Runner : SyncStep(r)
  <2>1. PICK r \in Runner : SyncStep(r)
    BY <1>1
  <2>2. Validated(r)'
    BY <1>0, <1>v, <2>1, ValidatedStep
  <2>3. \A c \in Database \ {DbOf[r]} :
          catalog'[c] = catalog[c] /\ snapshot'[c] = snapshot[c]
    BY <1>0, <2>1, StepFrame
  <2>4. ValidatorsNameDocuments' /\ ValidatorDescribesCatalog'
    BY <2>2, <2>3 DEF CacheInv, ValidatorsNameDocuments,
                      ValidatorDescribesCatalog, Validated
  <2>5. \A s \in Runner : CacheAgrees(s)'
    BY <2>2 DEF SoleRunner, Validated
  <2>. QED
    BY <1>0, <2>4, <2>5 DEF CacheInv
<1>2. CASE UNCHANGED vars
  BY <1>0, <1>2 DEF CacheInv, ValidatorsNameDocuments, CacheAgrees,
                    ValidatorDescribesCatalog, vars, shared, local
<1>3. CASE ~ UNCHANGED vars /\ \E r \in Runner : Crash(r)
  <2>1. PICK r \in Runner : Crash(r)
    BY <1>3
  <2>2. /\ pc' = [pc EXCEPT ![r] = "idle"]
        /\ UNCHANGED shared
        /\ pc[r] # "cacheSnapshot"
        /\ pc[r] = "cacheBody" => bodyCache' = body[r]
    BY <1>0, <1>3, <2>1 DEF Crash, Leave, UndisturbedStep, TypeOK
  <2>3. CacheAgrees(r)'
    <3>0. CacheAgrees(r) /\ UNCHANGED <<snapshot, metaCache, bodyCache>>
      BY <1>v, <2>2 DEF Validated, shared
    <3>1. CASE pc[r] = "cacheBody"
      <4>1. bodyCache = body[r]
        BY <2>2, <3>0, <3>1
      <4>2. metaCache.hash = bodyCache /\ snapshot[DbOf[r]].hash = bodyCache
        BY <3>0, <3>1, <4>1 DEF CacheAgrees
      <4>. QED
        BY <1>0, <2>2, <3>0, <4>2 DEF CacheAgrees, TypeOK
    <3>2. CASE pc[r] # "cacheBody"
      BY <1>0, <2>2, <3>0, <3>2 DEF CacheAgrees, TypeOK
    <3>. QED
      BY <3>1, <3>2
  <2>. QED
    BY <1>0, <2>2, <2>3 DEF CacheInv, ValidatorsNameDocuments, SoleRunner,
                            ValidatorDescribesCatalog, shared
<1>4. CASE \E r \in Runner : ClearSyncCache(r)
  <2>1. PICK r \in Runner : ClearSyncCache(r)
    BY <1>4
  <2>2. CacheAgrees(r)'
    BY <1>0, <2>1 DEF ClearSyncCache, CacheAgrees, TypeOK
  <2>3. ValidatorsNameDocuments' /\ ValidatorDescribesCatalog'
    BY <2>1 DEF ClearSyncCache, CacheInv, ValidatorsNameDocuments,
                ValidatorDescribesCatalog
  <2>. QED
    BY <1>0, <2>2, <2>3 DEF CacheInv, SoleRunner
<1>5. CASE \E v \in Version : Publish(v)
  BY <1>0, <1>5 DEF Publish, CacheInv, ValidatorsNameDocuments, CacheAgrees,
                    ValidatorDescribesCatalog, shared, local
<1>6. CASE ~ UNCHANGED vars /\ \E d \in Database : ClearDatabase(d)
  <2>1. PICK d \in Database : ClearDatabase(d)
    BY <1>6
  <2>2. \A r \in Runner : pc[r] = "idle"
    BY <1>6 DEF UndisturbedStep
  <2>3. ValidatorsNameDocuments' /\ ValidatorDescribesCatalog'
    BY <1>0, <2>1 DEF ClearDatabase, CacheInv, ValidatorsNameDocuments,
                      ValidatorDescribesCatalog, TypeOK
  <2>4. \A r \in Runner : CacheAgrees(r)'
    BY <1>0, <1>d, <1>v, <2>1, <2>2
       DEF ClearDatabase, Validated, CacheAgrees, TypeOK
  <2>. QED
    BY <1>0, <2>3, <2>4 DEF CacheInv
<1>. QED
  BY <1>1, <1>2, <1>3, <1>4, <1>5, <1>6 DEF Next

LEMMA CacheInvInit == Init => CacheInv
<1>. SUFFICES ASSUME Init PROVE CacheInv
  OBVIOUS
<1>1. TypeOK
  BY InitType
<1>2. ValidatorsNameDocuments /\ ValidatorDescribesCatalog
  BY DEF Init, ValidatorsNameDocuments, ValidatorDescribesCatalog
<1>3. \A r \in Runner : CacheAgrees(r)
  BY ConstantsAssumption DEF Init, CacheAgrees
<1>. QED
  BY <1>1, <1>2, <1>3 DEF CacheInv

\* A process that is alone with its cache, whose commits reach the cache and
\* whose database is not cleared during a sync, asks "changed since E?" only
\* where the rows of E are stored.
THEOREM ValidatorOfTheStoredRows ==
  ASSUME SoleRunner
  PROVE  Spec /\ Undisturbed => []ValidatorDescribesCatalog
<1>1. CacheInv /\ [Next]_vars /\ [UndisturbedStep]_vars => CacheInv'
  BY CacheInvStep
<1>2. CacheInv => ValidatorDescribesCatalog
  BY DEF CacheInv
<1>. QED
  BY <1>1, <1>2, CacheInvInit, PTL DEF Spec, Undisturbed

\* Under the same conditions a 304 answer to the validator of the database
\* applies the stored rows again.
LEMMA MatchedStep ==
  ASSUME SoleRunner, CacheInv, [Next]_vars, NEW r \in Runner,
         pc[r] = "write", pc'[r] = "cacheSnapshot", ~ downloaded[r],
         snapshot[DbOf[r]] # NoSnapshot
  PROVE  catalog'[DbOf[r]] = catalog[DbOf[r]]
<1> DEFINE d == DbOf[r]
<1>d. d \in Database
  BY ConstantsAssumption
<1>t. TypeOK /\ CacheAgrees(r) /\ body[r] \in Version /\ catalog[d] \in [Event -> Row]
  BY <1>d DEF CacheInv, TypeOK
<1>1. snapshot[d] = [etag |-> body[r], hash |-> body[r]]
  <2>1. bodyCache \in {None, snapshot[d].hash} /\ body[r] = bodyCache
    BY <1>t DEF CacheAgrees
  <2>2. snapshot[d].hash = body[r] /\ snapshot[d].etag = snapshot[d].hash
    BY <1>d, <1>t, <2>1, ConstantsAssumption DEF CacheInv, ValidatorsNameDocuments
  <2>. QED
    BY <1>d, <1>t, <2>2 DEF TypeOK
<1>2. Body[body[r]] = NoRows \/ catalog[d] = Body[body[r]]
  BY <1>d, <1>t, <1>1, ConstantsAssumption DEF CacheInv, ValidatorDescribesCatalog
<1>3. seen[r] = catalog[d][FirstRow[body[r]]]
  BY <1>t DEF CacheAgrees
<1>4. Reconciled(catalog[d], body[r], seen[r]) = catalog[d]
  BY <1>t, <1>2, <1>3, ReconciledWhole DEF Reconciled
<1>5. UNCHANGED catalog \/ Commit(r) \/ \E c \in Database : ClearDatabase(c)
  BY <1>t DEF Next, SyncStep, vars, shared, ReadSnapshot, ReadCachedSnapshot,
         RequestFails, NotModified, Download, ReadCachedBody, TouchSnapshot,
         TouchFails, ParseFails, ReadFirstRow, Rollback, SaveCachedSnapshot,
         SaveCachedBody, Publish, Crash, ClearSyncCache, Commit, SoleRunner
<1>6. ~ \E c \in Database : ClearDatabase(c)
  BY DEF ClearDatabase
<1>. QED
  BY <1>d, <1>t, <1>4, <1>5, <1>6 DEF Commit, TypeOK

\* A sole, undisturbed process changes no event on a 304 to the validator
\* that its database holds.
THEOREM MatchingEtagIsIdle ==
  ASSUME SoleRunner
  PROVE  Spec /\ Undisturbed => MatchingEtagChangesNothing
<1>1. CacheInv /\ [Next]_vars /\ [UndisturbedStep]_vars => CacheInv'
  BY CacheInvStep
<1>2. CacheInv /\ [Next]_vars =>
        [\A r \in Runner :
           /\ pc[r] = "write" /\ pc'[r] = "cacheSnapshot"
           /\ ~ downloaded[r]
           /\ snapshot[DbOf[r]] # NoSnapshot
           => catalog'[DbOf[r]] = catalog[DbOf[r]]]_vars
  BY MatchedStep
<1>. QED
  BY <1>1, <1>2, CacheInvInit, PTL DEF Spec, Undisturbed, MatchingEtagChangesNothing

\* Where no process is killed and no database may be cleared, every behaviour
\* is undisturbed.
LEMMA UndisturbedNext ==
  ASSUME Crashable = {}, Development = {}, TypeOK, [Next]_vars
  PROVE  [UndisturbedStep]_vars
<1>1. SUFFICES ASSUME Next PROVE UndisturbedStep
  OBVIOUS
<1>2. ~ \E d \in Database : ClearDatabase(d)
  BY DEF ClearDatabase
<1>3. ASSUME NEW r \in Runner
      PROVE  /\ pc[r] = "cacheSnapshot" => pc'[r] # "idle"
             /\ pc[r] = "cacheBody" /\ pc'[r] = "idle" => bodyCache' = body[r]
  <2>1. CASE \E s \in Runner : SyncStep(s)
    <3>1. PICK s \in Runner : SyncStep(s)
      BY <2>1
    <3>2. CASE s # r
      BY <3>1, <3>2, StepFrame
    <3>3. CASE s = r
      BY <3>1, <3>3
         DEF SyncStep, ReadSnapshot, ReadCachedSnapshot, RequestFails,
             NotModified, Download, ReadCachedBody, TouchSnapshot, TouchFails,
             ParseFails, ReadFirstRow, Commit, Rollback, SaveCachedSnapshot,
             SaveCachedBody, Goto, TypeOK
    <3>. QED
      BY <3>2, <3>3
  <2>2. CASE UNCHANGED pc
    BY <2>2
  <2>. QED
    BY <1>1, <1>2, <2>1, <2>2 DEF Next, Crash, ClearSyncCache, Publish
<1>. QED
  BY <1>2, <1>3 DEF UndisturbedStep

\* The production database of SyncExclusive is an instance of the two theorems
\* above.
THEOREM UnattendedIsUndisturbed ==
  ASSUME Crashable = {}, Development = {}
  PROVE  Spec => Undisturbed
  BY UndisturbedNext, TypeCorrect, PTL DEF Spec, Undisturbed
=============================================================================
