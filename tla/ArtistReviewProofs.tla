------------------------- MODULE ArtistReviewProofs -------------------------
(***************************************************************************)
(* What holds of ArtistReview for every number of artists, passes, batches *)
(* and editors and for every answer of MusicBrainz.                        *)
(***************************************************************************)
EXTENDS ArtistReview, TLAPS

LEMMA NoRecordType == NoRecord \in Record
  BY DEF NoRecord, Record, Status

LEMMA VerifiedType ==
  ASSUME NEW m \in Mbid PROVE Verified(m) \in Record
  BY DEF Verified, Record, Status

LEMMA FreshType ==
  ASSUME NEW a PROVE Fresh(a) \in Record /\ Fresh(a).mbid = None /\ ~ Fresh(a).checked
  BY DEF Fresh, Record, Status

LEMMA WorkersAreActors ==
  Worker \subseteq Actor /\ Editor \subseteq Actor /\ Ingesting \subseteq Actor
  BY DEF Actor

\* An actor works on one artist at a time.
LEMMA CurrentIsUnique ==
  ASSUME NEW p, NEW a \in Artist, NEW b \in Artist, Current(p, a), Current(p, b)
  PROVE  a = b
<1>1. Rank[a] <= Rank[b] /\ Rank[b] <= Rank[a]
  BY DEF Current
<1>2. Rank[a] \in Nat /\ Rank[b] \in Nat
  BY ConstantsAssumption
<1>3. Rank[a] = Rank[b]
  BY <1>1, <1>2
<1>. QED
  BY <1>3, ConstantsAssumption

-----------------------------------------------------------------------------
\* Type correctness.

\* The records that a behaviour may begin with.
LEMMA InitRecords ==
  ASSUME Init
  PROVE  /\ record \in [Artist -> Record]
         /\ \A a \in Artist : record[a].mbid = None /\ record[a].status # "verified"
<1>1. PICK old \in SUBSET Placeholder : record = Recorded(old)
  BY DEF Init
<1>2. Unresolved \in Record /\ Unresolved.mbid = None /\ Unresolved.status = "unresolved"
  BY DEF Unresolved, NoRecord, Record, Status
<1>3. NoRecord \in Record /\ NoRecord.mbid = None /\ NoRecord.status = "absent"
  BY NoRecordType DEF NoRecord
<1>. QED
  BY <1>1, <1>2, <1>3 DEF Recorded

LEMMA InitType == Init => TypeOK
  BY InitRecords, NoRecordType DEF Init, TypeOK, NoRecords, Stage

\* What the end of a round, of a request or of a batch does to an actor.
LEMMA LeaveType ==
  ASSUME TypeOK, NEW p \in Actor, Leave(p)
  PROVE  /\ pc' \in [Actor -> Stage]
         /\ copy' \in [Actor -> [Artist -> Record]]
         /\ found' \in [Actor -> SUBSET Mbid]
  BY NoRecordType DEF TypeOK, Leave, Stage, NoRecords

LEMMA FinishType ==
  ASSUME TypeOK, NEW p \in Actor, NEW a \in Artist, Finish(p, a)
  PROVE  /\ pc' \in [Actor -> Stage]
         /\ copy' \in [Actor -> [Artist -> Record]]
         /\ found' \in [Actor -> SUBSET Mbid]
<1>1. pc' \in [Actor -> Stage]
  BY DEF TypeOK, Finish, Stage
<1>2. copy' \in [Actor -> [Artist -> Record]]
  BY NoRecordType DEF TypeOK, Finish
<1>. QED
  BY <1>1, <1>2 DEF TypeOK, Finish

LEMMA LookupType ==
  ASSUME TypeOK, NEW p \in Actor, NEW a \in Artist, Lookup(p, a)
  PROVE  TypeOK'
<1>1. PICK answer \in Answers[a] :
        /\ found' = [found EXCEPT ![p] = answer]
        /\ cache' = [cache EXCEPT ![a] = answer]
  BY DEF Lookup
<1>2. answer \in SUBSET Mbid
  BY ConstantsAssumption
<1>. QED
  BY <1>1, <1>2 DEF Lookup, Goto, TypeOK, Stage

LEMMA PassType ==
  ASSUME TypeOK, NEW p \in Ingesting,
         \/ StartPass(p) \/ EndPass(p)
         \/ \E a \in Artist : PassStep(p, a)
  PROVE  TypeOK'
<1>p. p \in Actor
  BY WorkersAreActors
<1>1. CASE StartPass(p)
  BY <1>1, <1>p DEF StartPass, Goto, TypeOK, Stage
<1>2. CASE EndPass(p)
  BY <1>2, <1>p, LeaveType DEF EndPass, TypeOK
<1>3. ASSUME NEW a \in Artist, NewArtist(p, a) PROVE TypeOK'
  BY <1>3, <1>p, FreshType DEF NewArtist, TypeOK
<1>4. ASSUME NEW a \in Artist, Reclassify(p, a) PROVE TypeOK'
  <2>. DEFINE r == [copy[p][a] EXCEPT !.status = "not_an_artist"]
  <2>1. copy[p][a] \in Record
    BY <1>p DEF TypeOK
  <2>2. r \in Record
    BY <2>1 DEF Record, Status
  <2>. QED
    BY <1>4, <1>p, <2>2 DEF Reclassify, TypeOK
<1>. QED
  BY <1>1, <1>2, <1>3, <1>4 DEF PassStep

LEMMA StartBatchType ==
  ASSUME TypeOK, NEW w \in Worker, StartBatch(w)
  PROVE  TypeOK'
<1>1. [a \in Artist |-> IF a \in Batch(w) THEN record[a] ELSE NoRecord]
        \in [Artist -> Record]
  BY NoRecordType DEF TypeOK
<1>. QED
  BY <1>1, WorkersAreActors DEF StartBatch, Goto, TypeOK, Stage

LEMMA BatchStepType ==
  ASSUME TypeOK, NEW w \in Worker, NEW a \in Artist, BatchStep(w, a)
  PROVE  TypeOK'
<1>w. w \in Actor /\ copy[w][a] \in Record
  BY WorkersAreActors DEF TypeOK
<1>1. CASE Lookup(w, a)
  BY <1>1, <1>w, LookupType
<1>2. CASE LookupFails(w, a)
  BY <1>2, <1>w, FinishType DEF LookupFails, TypeOK
<1>3. CASE NoMatch(w, a)
  <2>1. [copy[w][a] EXCEPT !.checked = TRUE] \in Record
    BY <1>w DEF Record
  <2>. QED
    BY <1>3, <1>w, <2>1, FinishType DEF NoMatch, TypeOK
<1>4. CASE RecordCandidates(w, a)
  BY <1>4, <1>w DEF RecordCandidates, Goto, TypeOK, Stage
<1>5. CASE Select(w, a)
  <2>1. PICK m \in candidates[a] : record' = [record EXCEPT ![a] = Verified(m)]
    BY <1>5 DEF Select
  <2>2. Verified(m) \in Record
    BY VerifiedType DEF TypeOK
  <2>. QED
    BY <1>5, <1>w, <2>1, <2>2, FinishType DEF Select, TypeOK
<1>6. CASE SelectRaises(w, a)
  BY <1>6, <1>w, LeaveType DEF SelectRaises, TypeOK
<1>7. CASE Queue(w, a)
  <2>1. [copy[w][a] EXCEPT !.status = "candidate"] \in Record
    BY <1>w DEF Record, Status
  <2>. QED
    BY <1>7, <1>w, <2>1, FinishType DEF Queue, TypeOK
<1>. QED
  BY <1>1, <1>2, <1>3, <1>4, <1>5, <1>6, <1>7 DEF BatchStep

LEMMA EditorStepType ==
  ASSUME TypeOK, NEW e \in Editor, NEW a \in Artist, EditorStep(e, a)
  PROVE  TypeOK'
<1>e. e \in Actor /\ copy[e][a] \in Record /\ record[a] \in Record
  BY WorkersAreActors DEF TypeOK
<1>1. CASE Discover(e, a)
  BY <1>1, <1>e DEF Discover, Goto, TypeOK, Stage
<1>2. CASE Lookup(e, a)
  BY <1>2, <1>e, LookupType
<1>3. CASE RefreshSuggestions(e, a)
  <2>1. candidates' \in [Artist -> SUBSET Mbid]
    BY <1>3, <1>e DEF RefreshSuggestions, TypeOK
  <2>2. CASE found[e] # {} /\ copy[e][a].status # "verified"
    BY <1>3, <1>e, <2>1, <2>2 DEF RefreshSuggestions, TypeOK, Stage
  <2>3. CASE ~ (found[e] # {} /\ copy[e][a].status # "verified")
    BY <1>3, <1>e, <2>1, <2>3, LeaveType DEF RefreshSuggestions, TypeOK
  <2>. QED
    BY <2>2, <2>3
<1>4. CASE Requeue(e, a)
  <2>1. [copy[e][a] EXCEPT !.status = "candidate"] \in Record
    BY <1>e DEF Record, Status
  <2>. QED
    BY <1>4, <1>e, <2>1, LeaveType DEF Requeue, TypeOK
<1>5. CASE EditVerified(e, a)
  BY <1>5, <1>e DEF EditVerified, Goto, TypeOK, Stage
<1>6. CASE Reread(e, a)
  BY <1>6, <1>e DEF Reread, Goto, TypeOK, Stage
<1>7. CASE SaveEdit(e, a)
  <2>1. [copy[e][a] EXCEPT !.status = "verified"] \in Record
    BY <1>e DEF Record, Status
  <2>. QED
    BY <1>7, <1>e, <2>1, LeaveType DEF SaveEdit, TypeOK
<1>8. ASSUME NEW m \in Mbid, ApproveCandidate(e, a, m) PROVE TypeOK'
  BY <1>8, <1>e, VerifiedType DEF ApproveCandidate, Goto, TypeOK, Stage
<1>. QED
  BY <1>1, <1>2, <1>3, <1>4, <1>5, <1>6, <1>7, <1>8 DEF EditorStep

LEMMA NextType == TypeOK /\ [Next]_vars => TypeOK'
<1>. SUFFICES ASSUME TypeOK, [Next]_vars PROVE TypeOK'
  OBVIOUS
<1>1. CASE \E p \in Actor : Abandon(p)
  BY <1>1, LeaveType DEF Abandon, TypeOK
<1>2. CASE UNCHANGED vars
  BY <1>2 DEF vars, TypeOK
<1>. QED
  BY <1>1, <1>2, PassType, StartBatchType, BatchStepType, EditorStepType DEF Next

\* Every reachable state of any instance is well typed.
THEOREM ReviewTypeCorrect == Spec => []TypeOK
  BY InitType, NextType, PTL DEF Spec

-----------------------------------------------------------------------------
\* Identities.

\* A record may be written when its identity is free and goes with its status.
LEMMA WriteKeepsIdentity ==
  ASSUME TypeOK, IdentityOfVerified, NEW a \in Artist, NEW r \in Record,
         record' = [record EXCEPT ![a] = r],
         r.mbid # None => r.status = "verified",
         Free(r.mbid, a)
  PROVE  IdentityOfVerified'
<1>. SUFFICES ASSUME NEW b \in Artist, record'[b].mbid # None
              PROVE  /\ record'[b].status = "verified"
                     /\ \A c \in Artist \ {b} : record'[c].mbid # record'[b].mbid
  BY DEF IdentityOfVerified, Free
<1>1. CASE b = a
  BY <1>1 DEF TypeOK, Free
<1>2. CASE b # a
  BY <1>2 DEF TypeOK, Free, IdentityOfVerified
<1>. QED
  BY <1>1, <1>2

LEMMA SameRecordsKeepIdentity ==
  ASSUME IdentityOfVerified, record' = record
  PROVE  IdentityOfVerified'
  BY DEF IdentityOfVerified, Free

\* What one actor reads and forgets.
LEMMA LeaveKeepsCopies ==
  ASSUME TypeOK, CopiesConsistent, NEW p \in Actor, Leave(p)
  PROVE  CopiesConsistent'
<1>1. \A q \in Actor, b \in Artist : copy'[q][b] = copy[q][b] \/ copy'[q][b] = NoRecord
  BY DEF Leave, TypeOK, NoRecords
<1>2. \A q \in Actor : pc'[q] = "requeue" => q # p /\ pc[q] = "requeue" /\ copy'[q] = copy[q]
  BY DEF Leave, TypeOK
<1>3. \A q \in Actor : q # p => pc'[q] = pc[q] /\ copy'[q] = copy[q]
  BY DEF Leave, TypeOK
<1>4. \A b \in Artist : copy'[p][b] = NoRecord
  BY DEF Leave, TypeOK, NoRecords
<1>. QED
  BY <1>1, <1>2, <1>3, <1>4, WorkersAreActors DEF CopiesConsistent, NoRecord, Current, Pending

LEMMA FinishKeepsCopies ==
  ASSUME TypeOK, CopiesConsistent, NEW w \in Worker, NEW a \in Artist, Finish(w, a),
         pc[w] # "pass"
  PROVE  CopiesConsistent'
<1>w. w \in Actor /\ w \notin Editor
  BY WorkersAreActors, ConstantsAssumption
<1>1. \A q \in Actor, b \in Artist : copy'[q][b] = copy[q][b] \/ copy'[q][b] = NoRecord
  BY <1>w DEF Finish, TypeOK
<1>2. \A q \in Actor : q # w => pc'[q] = pc[q] /\ copy'[q] = copy[q]
  BY <1>w DEF Finish, TypeOK
<1>. QED
  BY <1>w, <1>1, <1>2, WorkersAreActors DEF CopiesConsistent, NoRecord, Current, Pending

LEMMA SameCopies ==
  ASSUME CopiesConsistent, copy' = copy,
         \A q \in Actor : /\ pc'[q] = "requeue" => pc[q] = "requeue"
                          /\ pc[q] = "pass" => pc'[q] = "pass"
  PROVE  CopiesConsistent'
<1>1. \A p \in Actor, a \in Artist :
        copy'[p][a].mbid # None => copy'[p][a].status = "verified"
  BY DEF CopiesConsistent
<1>2. \A w \in Worker, a \in Artist :
        pc'[w] # "pass" => copy'[w][a].status \in {"absent", "unresolved"}
  <2>. SUFFICES ASSUME NEW w \in Worker, NEW a \in Artist, pc'[w] # "pass"
                PROVE  copy'[w][a].status \in {"absent", "unresolved"}
    OBVIOUS
  <2>1. pc[w] # "pass"
    BY WorkersAreActors
  <2>. QED
    BY <2>1 DEF CopiesConsistent
<1>3. \A e \in Editor, a \in Artist :
        pc'[e] = "requeue" /\ Current(e, a)' => copy'[e][a].status # "verified"
  <2>. SUFFICES ASSUME NEW e \in Editor, NEW a \in Artist, pc'[e] = "requeue", Current(e, a)'
                PROVE  copy'[e][a].status # "verified"
    OBVIOUS
  <2>1. pc[e] = "requeue"
    BY WorkersAreActors
  <2>2. Current(e, a)
    BY DEF Current, Pending
  <2>. QED
    BY <2>1, <2>2 DEF CopiesConsistent
<1>. QED
  BY <1>1, <1>2, <1>3 DEF CopiesConsistent

LEMMA LookupKeepsCopies ==
  ASSUME TypeOK, CopiesConsistent, NEW p \in Actor, NEW a \in Artist, Lookup(p, a)
  PROVE  CopiesConsistent'
<1>1. copy' = copy /\ \A q \in Actor : /\ pc'[q] = "requeue" => pc[q] = "requeue"
                                       /\ pc[q] = "pass" => pc'[q] = "pass"
  BY DEF Lookup, Goto, TypeOK
<1>. QED
  BY <1>1, SameCopies

\* An editor takes one more copy.
LEMMA ReadKeepsCopies ==
  ASSUME TypeOK, CopiesConsistent, NEW e \in Editor, NEW a \in Artist,
         NEW r \in Record, r.mbid # None => r.status = "verified",
         copy' = [copy EXCEPT ![e][a] = r],
         NEW from \in Stage, NEW to \in Stage \ {"requeue"}, Goto(e, from, to)
  PROVE  CopiesConsistent'
<1>e. e \in Actor /\ e \notin Worker
  BY WorkersAreActors, ConstantsAssumption
<1>1. \A q \in Actor, b \in Artist : copy'[q][b] = copy[q][b] \/ copy'[q][b] = r
  BY <1>e DEF TypeOK
<1>2. \A w \in Worker : copy'[w] = copy[w]
  BY <1>e, WorkersAreActors DEF TypeOK
<1>3. \A q \in Actor : pc'[q] = "requeue" => q # e /\ pc[q] = "requeue" /\ copy'[q] = copy[q]
  BY <1>e DEF Goto, TypeOK, Stage
<1>4. \A w \in Worker : pc'[w] = pc[w]
  BY <1>e, WorkersAreActors DEF Goto, TypeOK
<1>. QED
  BY <1>1, <1>2, <1>3, <1>4, WorkersAreActors DEF CopiesConsistent, Current, Pending

\* A pass that writes a record keeps a copy of what it wrote.
LEMMA PassWriteInv ==
  ASSUME ReviewInv, NEW p \in Ingesting, NEW a \in Artist, NEW r \in Record,
         r.mbid = None, pc[p] = "pass", pc' = pc,
         record' = [record EXCEPT ![a] = r],
         copy' = [copy EXCEPT ![p][a] = r]
  PROVE  IdentityOfVerified' /\ CopiesConsistent'
<1>p. p \in Actor /\ p \notin Editor
  BY WorkersAreActors, ConstantsAssumption
<1>1. IdentityOfVerified'
  BY WriteKeepsIdentity DEF ReviewInv, Free
<1>2. \A q \in Actor : q # p => copy'[q] = copy[q]
  BY <1>p DEF ReviewInv, TypeOK
<1>3. \A b \in Artist : copy'[p][b] = copy[p][b] \/ copy'[p][b] = r
  BY <1>p DEF ReviewInv, TypeOK
<1>. QED
  BY <1>p, <1>1, <1>2, <1>3, WorkersAreActors DEF ReviewInv, CopiesConsistent, Current, Pending

LEMMA PassInv ==
  ASSUME ReviewInv, NEW p \in Ingesting,
         \/ StartPass(p) \/ EndPass(p)
         \/ \E a \in Artist : PassStep(p, a)
  PROVE  IdentityOfVerified' /\ CopiesConsistent'
<1>p. p \in Actor /\ p \notin Editor
  BY WorkersAreActors, ConstantsAssumption
<1>1. CASE StartPass(p)
  <2>1. \A q \in Actor : q # p => copy'[q] = copy[q] /\ pc'[q] = pc[q]
    BY <1>1, <1>p DEF StartPass, Goto, ReviewInv, TypeOK
  <2>2. copy'[p] = record /\ pc'[p] = "pass"
    BY <1>1, <1>p DEF StartPass, Goto, ReviewInv, TypeOK
  <2>3. CopiesConsistent'
    BY <1>p, <2>1, <2>2, WorkersAreActors
    DEF ReviewInv, CopiesConsistent, IdentityOfVerified, Current, Pending
  <2>. QED
    BY <1>1, <2>3, SameRecordsKeepIdentity DEF StartPass, ReviewInv
<1>2. CASE EndPass(p)
  BY <1>2, <1>p, LeaveKeepsCopies, SameRecordsKeepIdentity DEF EndPass, ReviewInv
<1>3. ASSUME NEW a \in Artist, NewArtist(p, a)
      PROVE  IdentityOfVerified' /\ CopiesConsistent'
  BY <1>3, FreshType, PassWriteInv DEF NewArtist, Unread
<1>4. ASSUME NEW a \in Artist, Reclassify(p, a)
      PROVE  IdentityOfVerified' /\ CopiesConsistent'
  <2>. DEFINE r == [copy[p][a] EXCEPT !.status = "not_an_artist"]
  <2>1. copy[p][a].status = "unresolved" /\ pc[p] = "pass"
    BY <1>4 DEF Reclassify, Unclassified
  <2>2. copy[p][a] \in Record /\ copy[p][a].mbid = None
    BY <1>p, <2>1 DEF ReviewInv, TypeOK, CopiesConsistent
  <2>3. r \in Record /\ r.mbid = None
    BY <2>2 DEF Record, Status
  <2>. QED
    BY <1>4, <2>1, <2>3, PassWriteInv DEF Reclassify
<1>. QED
  BY <1>1, <1>2, <1>3, <1>4 DEF PassStep

LEMMA StartBatchInv ==
  ASSUME ReviewInv, NEW w \in Worker, StartBatch(w)
  PROVE  IdentityOfVerified' /\ CopiesConsistent'
<1>w. w \in Actor /\ w \notin Editor
  BY WorkersAreActors, ConstantsAssumption
<1>0. \A b \in Batch(w) : record[b].status = "unresolved"
  BY DEF Batch, Eligible
<1>1. \A b \in Artist :
        \/ copy'[w][b] = NoRecord
        \/ copy'[w][b] = record[b] /\ record[b].status = "unresolved"
  BY <1>w, <1>0 DEF StartBatch, ReviewInv, TypeOK
<1>2. \A q \in Actor : q # w => copy'[q] = copy[q] /\ pc'[q] = pc[q]
  BY <1>w DEF StartBatch, Goto, ReviewInv, TypeOK
<1>3. CopiesConsistent'
  <2>1. \A p \in Actor, a \in Artist :
          copy'[p][a].mbid # None => copy'[p][a].status = "verified"
    BY <1>1, <1>2 DEF CopiesConsistent, NoRecord, ReviewInv, IdentityOfVerified
  <2>2. \A v \in Worker, a \in Artist :
          pc'[v] # "pass" => copy'[v][a].status \in {"absent", "unresolved"}
    BY <1>1, <1>2, WorkersAreActors DEF CopiesConsistent, NoRecord, ReviewInv
  <2>3. \A e \in Editor : copy'[e] = copy[e] /\ pc'[e] = pc[e]
    BY <1>w, <1>2, WorkersAreActors
  <2>. QED
    BY <2>1, <2>2, <2>3, WorkersAreActors
    DEF CopiesConsistent, ReviewInv, Current, Pending
<1>. QED
  BY <1>3, SameRecordsKeepIdentity DEF StartBatch, ReviewInv

\* The copies of a batch have no identity to lose or to repeat.
LEMMA BatchStepInv ==
  ASSUME ReviewInv, NEW w \in Worker, NEW a \in Artist, BatchStep(w, a)
  PROVE  IdentityOfVerified' /\ CopiesConsistent'
<1>0. pc[w] # "pass"
  BY DEF BatchStep, Lookup, LookupFails, NoMatch, RecordCandidates, Select, SelectRaises,
         Queue, Goto
<1>w. w \in Actor /\ copy[w][a] \in Record /\ copy[w][a].mbid = None
  BY <1>0, WorkersAreActors DEF ReviewInv, TypeOK, CopiesConsistent
<1>1. CASE Lookup(w, a)
  BY <1>1, <1>w, LookupKeepsCopies, SameRecordsKeepIdentity DEF Lookup, ReviewInv
<1>2. CASE LookupFails(w, a)
  BY <1>0, <1>2, <1>w, FinishKeepsCopies, SameRecordsKeepIdentity DEF LookupFails, ReviewInv
<1>3. CASE NoMatch(w, a)
  <2>. DEFINE r == [copy[w][a] EXCEPT !.checked = TRUE]
  <2>1. r \in Record /\ r.mbid = None
    BY <1>w DEF Record
  <2>. QED
    BY <1>0, <1>3, <1>w, <2>1, FinishKeepsCopies, WriteKeepsIdentity
    DEF NoMatch, ReviewInv, Free
<1>4. CASE RecordCandidates(w, a)
  <2>1. copy' = copy /\ \A q \in Actor : /\ pc'[q] = "requeue" => pc[q] = "requeue"
                                         /\ pc[q] = "pass" => pc'[q] = "pass"
    BY <1>4, <1>w DEF RecordCandidates, Goto, ReviewInv, TypeOK
  <2>2. CopiesConsistent'
    BY <2>1, SameCopies DEF ReviewInv
  <2>. QED
    BY <1>4, <2>2, SameRecordsKeepIdentity DEF RecordCandidates, ReviewInv
<1>5. CASE Select(w, a)
  <2>1. PICK m \in candidates[a] :
          Free(m, a) /\ record' = [record EXCEPT ![a] = Verified(m)]
    BY <1>5 DEF Select
  <2>2. Verified(m) \in Record /\ Verified(m).mbid = m /\ Verified(m).status = "verified"
    BY VerifiedType DEF ReviewInv, TypeOK, Verified
  <2>. QED
    BY <1>0, <1>5, <2>1, <2>2, FinishKeepsCopies, WriteKeepsIdentity DEF Select, ReviewInv
<1>6. CASE SelectRaises(w, a)
  BY <1>6, <1>w, LeaveKeepsCopies, SameRecordsKeepIdentity DEF SelectRaises, ReviewInv
<1>7. CASE Queue(w, a)
  <2>. DEFINE r == [copy[w][a] EXCEPT !.status = "candidate"]
  <2>1. r \in Record /\ r.mbid = None
    BY <1>w DEF Record, Status
  <2>. QED
    BY <1>0, <1>7, <1>w, <2>1, FinishKeepsCopies, WriteKeepsIdentity
    DEF Queue, ReviewInv, Free
<1>. QED
  BY <1>1, <1>2, <1>3, <1>4, <1>5, <1>6, <1>7 DEF BatchStep

LEMMA EditorStepInv ==
  ASSUME ReviewInv, NEW e \in Editor, NEW a \in Artist, EditorStep(e, a)
  PROVE  IdentityOfVerified' /\ CopiesConsistent'
<1>e. /\ e \in Actor
      /\ copy[e][a] \in Record /\ record[a] \in Record
      /\ copy[e][a].mbid # None => copy[e][a].status = "verified"
      /\ record[a].mbid # None => record[a].status = "verified"
  BY WorkersAreActors DEF ReviewInv, TypeOK, CopiesConsistent, IdentityOfVerified
<1>1. CASE Discover(e, a)
  <2>1. Goto(e, "idle", "lookup") /\ copy' = [copy EXCEPT ![e][a] = record[a]]
    BY <1>1 DEF Discover
  <2>2. CopiesConsistent'
    BY <1>e, <2>1, ReadKeepsCopies DEF Stage, ReviewInv
  <2>. QED
    BY <1>1, <2>2, SameRecordsKeepIdentity DEF Discover, ReviewInv
<1>2. CASE Lookup(e, a)
  BY <1>2, <1>e, LookupKeepsCopies, SameRecordsKeepIdentity DEF Lookup, ReviewInv
<1>3. CASE RefreshSuggestions(e, a)
  <2>1. CopiesConsistent'
    <3>1. CASE found[e] # {} /\ copy[e][a].status # "verified"
      <4>1. copy' = copy /\ pc' = [pc EXCEPT ![e] = "requeue"]
        BY <1>3, <3>1 DEF RefreshSuggestions
      <4>2. \A b \in Artist : Current(e, b) => b = a
        BY <1>3, CurrentIsUnique DEF RefreshSuggestions
      <4>3. \A q \in Actor : q # e => pc'[q] = pc[q]
        BY <4>1 DEF ReviewInv, TypeOK
      <4>4. e \notin Worker /\ CopiesConsistent
        BY ConstantsAssumption DEF ReviewInv
      <4>5. \A p \in Actor, b \in Artist :
              copy'[p][b].mbid # None => copy'[p][b].status = "verified"
        BY <4>1, <4>4 DEF CopiesConsistent
      <4>6. \A w \in Worker, b \in Artist :
              pc'[w] # "pass" => copy'[w][b].status \in {"absent", "unresolved"}
        BY <4>1, <4>3, <4>4, WorkersAreActors DEF CopiesConsistent
      <4>7. \A d \in Editor, b \in Artist :
              pc'[d] = "requeue" /\ Current(d, b)' => copy'[d][b].status # "verified"
        BY <3>1, <4>1, <4>2, <4>3, <4>4, WorkersAreActors
        DEF CopiesConsistent, Current, Pending
      <4>. QED
        BY <4>5, <4>6, <4>7 DEF CopiesConsistent
    <3>2. CASE ~ (found[e] # {} /\ copy[e][a].status # "verified")
      BY <1>3, <1>e, <3>2, LeaveKeepsCopies DEF RefreshSuggestions, ReviewInv
    <3>. QED
      BY <3>1, <3>2
  <2>. QED
    BY <1>3, <2>1, SameRecordsKeepIdentity DEF RefreshSuggestions, ReviewInv
<1>4. CASE Requeue(e, a)
  <2>. DEFINE r == [copy[e][a] EXCEPT !.status = "candidate"]
  <2>1. copy[e][a].mbid = None
    BY <1>4, <1>e DEF Requeue, ReviewInv, CopiesConsistent
  <2>2. r \in Record /\ r.mbid = None
    BY <1>e, <2>1 DEF Record, Status
  <2>. QED
    BY <1>4, <1>e, <2>2, LeaveKeepsCopies, WriteKeepsIdentity
    DEF Requeue, ReviewInv, Free
<1>5. CASE EditVerified(e, a)
  <2>1. Goto(e, "idle", "reread") /\ copy' = [copy EXCEPT ![e][a] = record[a]]
    BY <1>5 DEF EditVerified
  <2>2. CopiesConsistent'
    BY <1>e, <2>1, ReadKeepsCopies DEF Stage, ReviewInv
  <2>. QED
    BY <1>5, <2>2, SameRecordsKeepIdentity DEF EditVerified, ReviewInv
<1>6. CASE Reread(e, a)
  <2>1. Goto(e, "reread", "save") /\ copy' = [copy EXCEPT ![e][a] = record[a]]
    BY <1>6 DEF Reread
  <2>2. CopiesConsistent'
    BY <1>e, <2>1, ReadKeepsCopies DEF Stage, ReviewInv
  <2>. QED
    BY <1>6, <2>2, SameRecordsKeepIdentity DEF Reread, ReviewInv
<1>7. CASE SaveEdit(e, a)
  <2>. DEFINE r == [copy[e][a] EXCEPT !.status = "verified"]
  <2>1. r \in Record /\ r.mbid = copy[e][a].mbid /\ r.status = "verified"
    BY <1>e DEF Record, Status
  <2>. QED
    BY <1>7, <1>e, <2>1, LeaveKeepsCopies, WriteKeepsIdentity DEF SaveEdit, ReviewInv
<1>8. ASSUME NEW m \in Mbid, ApproveCandidate(e, a, m)
      PROVE  IdentityOfVerified' /\ CopiesConsistent'
  <2>1. Verified(m) \in Record /\ Verified(m).mbid = m /\ Verified(m).status = "verified"
    BY VerifiedType DEF Verified
  <2>2. /\ Goto(e, "idle", "reread")
        /\ copy' = [copy EXCEPT ![e][a] = Verified(m)]
        /\ record' = [record EXCEPT ![a] = Verified(m)]
        /\ Free(m, a)
    BY <1>8 DEF ApproveCandidate
  <2>3. CopiesConsistent'
    BY <2>1, <2>2, ReadKeepsCopies DEF Stage, ReviewInv
  <2>4. IdentityOfVerified'
    BY <2>1, <2>2, WriteKeepsIdentity DEF ReviewInv
  <2>. QED
    BY <2>3, <2>4
<1>. QED
  BY <1>1, <1>2, <1>3, <1>4, <1>5, <1>6, <1>7, <1>8 DEF EditorStep

LEMMA ReviewInvStep == ReviewInv /\ [Next]_vars => ReviewInv'
<1>. SUFFICES ASSUME ReviewInv, [Next]_vars
              PROVE  IdentityOfVerified' /\ CopiesConsistent'
  BY NextType DEF ReviewInv
<1>2. ASSUME NEW p \in Actor, Abandon(p)
      PROVE  IdentityOfVerified' /\ CopiesConsistent'
  BY <1>2, LeaveKeepsCopies, SameRecordsKeepIdentity DEF Abandon, ReviewInv
<1>3. CASE UNCHANGED vars
  BY <1>3, SameRecordsKeepIdentity
  DEF vars, CopiesConsistent, ReviewInv, Current, Pending
<1>. QED
  BY <1>2, <1>3, PassInv, StartBatchInv, BatchStepInv, EditorStepInv DEF Next

LEMMA ReviewInvInit == Init => ReviewInv
  BY InitType, InitRecords, WorkersAreActors
  DEF Init, ReviewInv, IdentityOfVerified, CopiesConsistent, NoRecords, NoRecord

\* However passes, batches and editors overlap, fail and die: an identity belongs to
\* one artist only, and only to a verified one.
THEOREM IdentityBelongsToOneVerifiedArtist == Spec => []IdentityOfVerified
<1>1. ReviewInv => IdentityOfVerified
  BY DEF ReviewInv
<1>. QED
  BY <1>1, ReviewInvInit, ReviewInvStep, PTL DEF Spec

-----------------------------------------------------------------------------
\* Decisions.

\* No write of a batch or an editor makes a decided artist undecided, and of
\* a pass only one over an artist that it had not found.
LEMMA DecidedStep ==
  ASSUME TypeOK, [Next]_vars
  PROVE  [\A a \in Artist :
            Decided(record[a]) => ~ Undecided(record'[a]) \/ Renewed(a)]_record
<1>. DEFINE Kept == \A b \in Artist :
              Decided(record[b]) => ~ Undecided(record'[b]) \/ Renewed(b)
<1>0. ASSUME NEW a \in Artist, NEW r \in Record, record' = [record EXCEPT ![a] = r],
             ~ Undecided(r)
      PROVE  Kept
  BY <1>0 DEF TypeOK, Decided
<1>1. ASSUME NEW p \in Ingesting, NEW a \in Artist, PassStep(p, a) PROVE Kept
  <2>p. p \in Actor /\ copy[p][a] \in Record
    BY WorkersAreActors DEF TypeOK
  <2>1. CASE NewArtist(p, a)
    <3>1. Renewed(a)
      <4>1. copy'[p][a].status # "absent"
        BY <2>1, <2>p DEF NewArtist, TypeOK, Fresh
      <4>. QED
        BY <2>1, <4>1 DEF NewArtist, Renewed
    <3>2. \A b \in Artist \ {a} : record'[b] = record[b]
      BY <2>1 DEF NewArtist, TypeOK
    <3>. QED
      BY <3>1, <3>2 DEF Decided
  <2>2. CASE Reclassify(p, a)
    <3>. DEFINE r == [copy[p][a] EXCEPT !.status = "not_an_artist"]
    <3>1. r \in Record /\ r.status = "not_an_artist"
      BY <2>p DEF Record, Status
    <3>. QED
      BY <1>0, <2>2, <3>1 DEF Reclassify, Undecided
  <2>. QED
    BY <1>1, <2>1, <2>2 DEF PassStep
<1>2. ASSUME NEW w \in Worker, NEW a \in Artist, BatchStep(w, a), record' # record
      PROVE  Kept
  <2>w. copy[w][a] \in Record
    BY WorkersAreActors DEF TypeOK
  <2>1. CASE NoMatch(w, a)
    <3>. DEFINE r == [copy[w][a] EXCEPT !.checked = TRUE]
    <3>1. r \in Record /\ r.checked
      BY <2>w DEF Record
    <3>. QED
      BY <1>0, <2>1, <3>1 DEF NoMatch, Undecided
  <2>2. CASE Select(w, a)
    <3>1. PICK m \in candidates[a] : record' = [record EXCEPT ![a] = Verified(m)]
      BY <2>2 DEF Select
    <3>2. Verified(m) \in Record /\ Verified(m).status = "verified"
      BY VerifiedType DEF TypeOK, Verified
    <3>. QED
      BY <1>0, <3>1, <3>2 DEF Undecided
  <2>3. CASE Queue(w, a)
    <3>. DEFINE r == [copy[w][a] EXCEPT !.status = "candidate"]
    <3>1. r \in Record /\ r.status = "candidate"
      BY <2>w DEF Record, Status
    <3>. QED
      BY <1>0, <2>3, <3>1 DEF Queue, Undecided
  <2>. QED
    BY <1>2, <2>1, <2>2, <2>3
    DEF BatchStep, Lookup, LookupFails, RecordCandidates, SelectRaises
<1>3. ASSUME NEW e \in Editor, NEW a \in Artist, EditorStep(e, a), record' # record
      PROVE  Kept
  <2>e. copy[e][a] \in Record
    BY WorkersAreActors DEF TypeOK
  <2>1. CASE Requeue(e, a)
    <3>. DEFINE r == [copy[e][a] EXCEPT !.status = "candidate"]
    <3>1. r \in Record /\ r.status = "candidate"
      BY <2>e DEF Record, Status
    <3>. QED
      BY <1>0, <2>1, <3>1 DEF Requeue, Undecided
  <2>2. CASE SaveEdit(e, a)
    <3>. DEFINE r == [copy[e][a] EXCEPT !.status = "verified"]
    <3>1. r \in Record /\ r.status = "verified"
      BY <2>e DEF Record, Status
    <3>. QED
      BY <1>0, <2>2, <3>1 DEF SaveEdit, Undecided
  <2>3. ASSUME NEW m \in Mbid, ApproveCandidate(e, a, m) PROVE Kept
    <3>1. Verified(m) \in Record /\ Verified(m).status = "verified"
      BY VerifiedType DEF Verified
    <3>. QED
      BY <1>0, <2>3, <3>1 DEF ApproveCandidate, Undecided
  <2>. QED
    BY <1>3, <2>1, <2>2, <2>3
    DEF EditorStep, Discover, Lookup, RefreshSuggestions, EditVerified, Reread
<1>4. CASE \E w \in Worker : StartBatch(w)
  BY <1>4 DEF StartBatch
<1>5. CASE (\E p \in Actor : Abandon(p)) \/ \E p \in Ingesting : StartPass(p) \/ EndPass(p)
  BY <1>5 DEF Abandon, StartPass, EndPass
<1>6. CASE UNCHANGED vars
  BY <1>6 DEF vars
<1>. QED
  BY <1>1, <1>2, <1>3, <1>4, <1>5, <1>6 DEF Next

\* A decided artist never enters a normal batch again, whatever stale copies
\* batches and editors write; only a pass overtaken by another one renews it.
THEOREM DecidedArtistsStayDecided == Spec => NeverAskedAgain
<1>1. TypeOK /\ [Next]_vars =>
        [\A a \in Artist :
           Decided(record[a]) => ~ Undecided(record'[a]) \/ Renewed(a)]_record
  BY DecidedStep
<1>. QED
  BY <1>1, ReviewTypeCorrect, PTL DEF Spec, NeverAskedAgain

-----------------------------------------------------------------------------
\* The same with a single process that ingests events.

\* What an actor holds after a step it held before, or it is there.
LEMMA NewCopies ==
  ASSUME TypeOK, [Next]_vars, NEW q \in Actor, NEW b \in Artist,
         copy'[q][b].status # "absent"
  PROVE  \/ copy[q][b].status # "absent"
         \/ record[b].status # "absent"
         \/ record'[b].status # "absent"
<1>1. ASSUME NEW p \in Actor, Leave(p) \/ \E a \in Artist : Finish(p, a)
      PROVE  copy'[q][b] = copy[q][b] \/ copy'[q][b].status = "absent"
  BY <1>1 DEF Leave, Finish, TypeOK, NoRecords, NoRecord
<1>2. ASSUME NEW p \in Ingesting,
             StartPass(p) \/ EndPass(p) \/ \E a \in Artist : PassStep(p, a)
      PROVE  copy'[q][b] = copy[q][b] \/ record[b].status # "absent" \/ record'[b].status # "absent"
  <2>p. p \in Actor
    BY WorkersAreActors
  <2>1. CASE StartPass(p)
    BY <2>p, <2>1 DEF StartPass, TypeOK
  <2>2. CASE EndPass(p)
    BY <1>1, <2>p, <2>2 DEF EndPass
  <2>3. ASSUME NEW a \in Artist, NewArtist(p, a)
        PROVE  copy'[q][b] = copy[q][b] \/ record'[b].status # "absent"
    BY <2>p, <2>3 DEF NewArtist, TypeOK, Fresh
  <2>4. ASSUME NEW a \in Artist, Reclassify(p, a)
        PROVE  copy'[q][b] = copy[q][b] \/ record'[b].status # "absent"
    <3>. DEFINE r == [copy[p][a] EXCEPT !.status = "not_an_artist"]
    <3>1. r.status = "not_an_artist"
      BY <2>p DEF TypeOK, Record
    <3>. QED
      BY <2>p, <2>4, <3>1 DEF Reclassify, TypeOK
  <2>. QED
    BY <1>2, <2>1, <2>2, <2>3, <2>4 DEF PassStep
<1>3. ASSUME NEW w \in Worker, StartBatch(w)
      PROVE  copy'[q][b] = copy[q][b] \/ record[b].status # "absent"
  BY <1>3, WorkersAreActors DEF StartBatch, TypeOK, NoRecord
<1>4. ASSUME NEW w \in Worker, NEW a \in Artist, BatchStep(w, a)
      PROVE  copy'[q][b] = copy[q][b]
  BY <1>1, <1>4, WorkersAreActors
  DEF BatchStep, Lookup, LookupFails, NoMatch, RecordCandidates, Select, SelectRaises, Queue
<1>5. ASSUME NEW e \in Editor, NEW a \in Artist, EditorStep(e, a)
      PROVE  copy'[q][b] = copy[q][b] \/ record[b].status # "absent" \/ record'[b].status # "absent"
  <2>e. e \in Actor
    BY WorkersAreActors
  <2>1. CASE Discover(e, a) \/ EditVerified(e, a) \/ Reread(e, a)
    BY <2>e, <2>1 DEF Discover, EditVerified, Reread, TypeOK
  <2>2. CASE Lookup(e, a) \/ RefreshSuggestions(e, a) \/ Requeue(e, a) \/ SaveEdit(e, a)
    BY <1>1, <2>e, <2>2 DEF Lookup, RefreshSuggestions, Requeue, SaveEdit
  <2>3. ASSUME NEW m \in Mbid, ApproveCandidate(e, a, m)
        PROVE  copy'[q][b] = copy[q][b] \/ record'[b].status # "absent"
    BY <2>e, <2>3 DEF ApproveCandidate, TypeOK, Verified
  <2>. QED
    BY <1>5, <2>1, <2>2, <2>3 DEF EditorStep
<1>6. CASE \E p \in Actor : Abandon(p)
  BY <1>1, <1>6 DEF Abandon
<1>7. CASE UNCHANGED vars
  BY <1>7 DEF vars
<1>. QED
  BY <1>2, <1>3, <1>4, <1>5, <1>6, <1>7 DEF Next

\* Each write leaves a record, for an artist whose copy the writer holds or
\* for one that a pass had not found.
LEMMA WritesOfKnown ==
  ASSUME TypeOK, PassesKnow, [Next]_vars, NEW b \in Artist, record'[b] # record[b]
  PROVE  /\ record'[b].status # "absent"
         /\ \/ record[b].status # "absent"
            \/ \E p \in Ingesting : NewArtist(p, b)
<1>1. ASSUME NEW p \in Actor, NEW a \in Artist, copy[p][a].status # "absent",
             NEW r \in Record, r.status # "absent",
             record' = [record EXCEPT ![a] = r]
      PROVE  record'[b].status # "absent" /\ record[b].status # "absent"
  BY <1>1 DEF TypeOK, PassesKnow
<1>2. ASSUME NEW p \in Ingesting, NEW a \in Artist, PassStep(p, a)
      PROVE  /\ record'[b].status # "absent"
             /\ record[b].status # "absent" \/ NewArtist(p, b)
  <2>p. p \in Actor /\ copy[p][a] \in Record
    BY WorkersAreActors DEF TypeOK
  <2>1. CASE NewArtist(p, a)
    <3>1. a = b
      BY <2>1 DEF NewArtist, TypeOK
    <3>. QED
      BY <2>1, <3>1 DEF NewArtist, TypeOK, Fresh
  <2>2. CASE Reclassify(p, a)
    <3>. DEFINE r == [copy[p][a] EXCEPT !.status = "not_an_artist"]
    <3>1. r \in Record /\ r.status = "not_an_artist"
      BY <2>p DEF Record, Status
    <3>2. copy[p][a].status # "absent"
      BY <2>2 DEF Reclassify, Unclassified
    <3>. QED
      BY <1>1, <2>2, <2>p, <3>1, <3>2 DEF Reclassify
  <2>. QED
    BY <1>2, <2>1, <2>2 DEF PassStep
<1>3. ASSUME NEW w \in Worker, NEW a \in Artist, BatchStep(w, a)
      PROVE  record'[b].status # "absent" /\ record[b].status # "absent"
  <2>w. w \in Actor /\ copy[w][a] \in Record
    BY WorkersAreActors DEF TypeOK
  <2>c. copy[w][a].status # "absent"
    BY <1>3 DEF BatchStep, Lookup, LookupFails, NoMatch, RecordCandidates, Select,
                SelectRaises, Queue, Current, Pending
  <2>1. CASE NoMatch(w, a)
    <3>. DEFINE r == [copy[w][a] EXCEPT !.checked = TRUE]
    <3>1. r \in Record /\ r.status # "absent"
      BY <2>w, <2>c DEF Record
    <3>. QED
      BY <1>1, <2>1, <2>w, <2>c, <3>1 DEF NoMatch
  <2>2. CASE Select(w, a)
    <3>1. PICK m \in candidates[a] : record' = [record EXCEPT ![a] = Verified(m)]
      BY <2>2 DEF Select
    <3>2. Verified(m) \in Record /\ Verified(m).status = "verified"
      BY VerifiedType DEF TypeOK, Verified
    <3>. QED
      BY <1>1, <2>w, <2>c, <3>1, <3>2
  <2>3. CASE Queue(w, a)
    <3>. DEFINE r == [copy[w][a] EXCEPT !.status = "candidate"]
    <3>1. r \in Record /\ r.status = "candidate"
      BY <2>w DEF Record, Status
    <3>. QED
      BY <1>1, <2>3, <2>w, <2>c, <3>1 DEF Queue
  <2>. QED
    BY <1>3, <2>1, <2>2, <2>3
    DEF BatchStep, Lookup, LookupFails, RecordCandidates, SelectRaises
<1>4. ASSUME NEW e \in Editor, NEW a \in Artist, EditorStep(e, a)
      PROVE  record'[b].status # "absent" /\ record[b].status # "absent"
  <2>e. e \in Actor /\ copy[e][a] \in Record
    BY WorkersAreActors DEF TypeOK
  <2>1. CASE Requeue(e, a)
    <3>. DEFINE r == [copy[e][a] EXCEPT !.status = "candidate"]
    <3>1. r \in Record /\ r.status = "candidate"
      BY <2>e DEF Record, Status
    <3>. QED
      BY <1>1, <2>1, <2>e, <3>1 DEF Requeue, Current, Pending
  <2>2. CASE SaveEdit(e, a)
    <3>. DEFINE r == [copy[e][a] EXCEPT !.status = "verified"]
    <3>1. r \in Record /\ r.status = "verified"
      BY <2>e DEF Record, Status
    <3>. QED
      BY <1>1, <2>2, <2>e, <3>1 DEF SaveEdit, Current, Pending
  <2>3. ASSUME NEW m \in Mbid, ApproveCandidate(e, a, m)
        PROVE  record'[b].status # "absent" /\ record[b].status # "absent"
    BY <2>3 DEF ApproveCandidate, TypeOK, Verified
  <2>. QED
    BY <1>4, <2>1, <2>2, <2>3
    DEF EditorStep, Discover, Lookup, RefreshSuggestions, EditVerified, Reread
<1>. QED
  BY <1>2, <1>3, <1>4 DEF Next, StartPass, EndPass, StartBatch, Abandon, vars

\* A pass forgets nothing of what it read before it ends.
LEMMA NewUnread ==
  ASSUME TypeOK, [Next]_vars, NEW p \in Ingesting, NEW b \in Artist, Unread(p, b)'
  PROVE  Unread(p, b) \/ (copy'[p] = record /\ record' = record)
<1>. DEFINE JustRead == copy'[p] = record /\ record' = record
<1>p. p \in Actor /\ p \notin Editor
  BY WorkersAreActors, ConstantsAssumption
<1>1. ASSUME NEW q \in Actor, Leave(q) \/ \E a \in Artist : Finish(q, a)
      PROVE  q # p
  BY <1>1, <1>p DEF Leave, Finish, TypeOK, Unread
<1>2. ASSUME NEW q \in Actor, q # p, Leave(q) \/ \E a \in Artist : Finish(q, a)
      PROVE  Unread(p, b)
  BY <1>2, <1>p DEF Leave, Finish, TypeOK, Unread
<1>3. ASSUME NEW q \in Ingesting,
             StartPass(q) \/ EndPass(q) \/ \E a \in Artist : PassStep(q, a)
      PROVE  Unread(p, b) \/ JustRead
  <2>q. q \in Actor
    BY WorkersAreActors
  <2>1. CASE StartPass(q)
    BY <1>p, <2>q, <2>1 DEF StartPass, Goto, TypeOK, Unread
  <2>2. CASE EndPass(q)
    BY <1>1, <1>2, <2>q, <2>2 DEF EndPass
  <2>3. ASSUME NEW a \in Artist, NewArtist(q, a) PROVE Unread(p, b)
    BY <1>p, <2>q, <2>3 DEF NewArtist, TypeOK, Unread
  <2>4. ASSUME NEW a \in Artist, Reclassify(q, a) PROVE Unread(p, b)
    <3>. DEFINE r == [copy[q][a] EXCEPT !.status = "not_an_artist"]
    <3>1. r.status = "not_an_artist"
      BY <2>q DEF TypeOK, Record
    <3>. QED
      BY <1>p, <2>q, <2>4, <3>1 DEF Reclassify, TypeOK, Unread
  <2>. QED
    BY <1>3, <2>1, <2>2, <2>3, <2>4 DEF PassStep
<1>4. ASSUME NEW w \in Worker, StartBatch(w) PROVE Unread(p, b)
  BY <1>p, <1>4, WorkersAreActors DEF StartBatch, Goto, TypeOK, Unread
<1>5. ASSUME NEW w \in Worker, NEW a \in Artist, BatchStep(w, a) PROVE Unread(p, b)
  <2>w. w \in Actor
    BY WorkersAreActors
  <2>1. CASE Lookup(w, a) \/ RecordCandidates(w, a)
    BY <1>p, <2>w, <2>1 DEF Lookup, RecordCandidates, Goto, TypeOK, Unread
  <2>2. CASE Leave(w) \/ Finish(w, a)
    BY <1>1, <1>2, <2>w, <2>2
  <2>. QED
    BY <1>5, <2>1, <2>2 DEF BatchStep, LookupFails, NoMatch, Select, SelectRaises, Queue
<1>6. ASSUME NEW e \in Editor, NEW a \in Artist, EditorStep(e, a) PROVE Unread(p, b)
  <2>1. e \in Actor /\ e # p
    BY <1>p, WorkersAreActors
  <2>2. pc'[p] = pc[p] /\ copy'[p] = copy[p]
    BY <1>6, <1>p, <2>1
    DEF EditorStep, Discover, Lookup, RefreshSuggestions, Requeue, EditVerified, Reread,
        SaveEdit, ApproveCandidate, Leave, Goto, TypeOK
  <2>. QED
    BY <2>2 DEF Unread
<1>7. CASE \E q \in Actor : Abandon(q)
  BY <1>1, <1>2, <1>7 DEF Abandon
<1>8. CASE UNCHANGED vars
  BY <1>8 DEF vars, Unread
<1>. QED
  BY <1>3, <1>4, <1>5, <1>6, <1>7, <1>8 DEF Next

LEMMA PassesKnowStep ==
  ASSUME TypeOK, OneIngests, PassesKnow, [Next]_vars
  PROVE  PassesKnow'
<1>1. ASSUME NEW q \in Actor, NEW b \in Artist, copy'[q][b].status # "absent"
      PROVE  record'[b].status # "absent"
  <2>1. record[b].status # "absent" \/ record'[b].status # "absent"
    BY <1>1, NewCopies DEF PassesKnow
  <2>. QED
    BY <2>1, WritesOfKnown
<1>2. ASSUME NEW p \in Ingesting, NEW b \in Artist, Unread(p, b)'
      PROVE  record'[b].status = "absent"
  <2>p. p \in Actor
    BY WorkersAreActors
  <2>1. CASE copy'[p] = record /\ record' = record
    BY <1>2, <2>1 DEF Unread
  <2>2. CASE Unread(p, b)
    <3>1. record[b].status = "absent"
      BY <2>2 DEF PassesKnow
    <3>2. ~ NewArtist(p, b)
      BY <1>2, <2>p DEF Unread, NewArtist, TypeOK, Fresh
    <3>3. record'[b] = record[b]
      BY <3>1, <3>2, WritesOfKnown DEF OneIngests
    <3>. QED
      BY <3>1, <3>3
  <2>. QED
    BY <1>2, <2>1, <2>2, NewUnread
<1>. QED
  BY <1>1, <1>2 DEF PassesKnow

\* With one process that ingests events no write at all, stale or not, makes
\* a decided artist new again.
THEOREM DecidedForGoodWithOnePass == OneIngests => (Spec => DecidedForGood)
<1>. SUFFICES ASSUME OneIngests PROVE Spec => DecidedForGood
  OBVIOUS
<1>1. Init => PassesKnow
  BY WorkersAreActors DEF Init, PassesKnow, Unread, NoRecords, NoRecord
<1>2. (TypeOK /\ PassesKnow) /\ [Next]_vars => (TypeOK /\ PassesKnow)'
  BY NextType, PassesKnowStep
<1>3. (TypeOK /\ PassesKnow) /\ [Next]_vars =>
        [\A a \in Artist : Decided(record[a]) => ~ Undecided(record'[a])]_record
  <2>. SUFFICES ASSUME TypeOK, PassesKnow, [Next]_vars, record' # record,
                       NEW a \in Artist, Decided(record[a])
                PROVE  ~ Undecided(record'[a])
    OBVIOUS
  <2>1. ~ Undecided(record'[a]) \/ Renewed(a)
    BY DecidedStep
  <2>2. ASSUME Renewed(a) PROVE FALSE
    BY <2>2 DEF Renewed, PassesKnow, Decided
  <2>. QED
    BY <2>1, <2>2
<1>. QED
  BY <1>1, <1>2, <1>3, InitType, PTL DEF Spec, DecidedForGood

-----------------------------------------------------------------------------
\* Approvals of unattended batches.

\* The steps of passes and batches, when no editor is there to take one.
LEMMA UnattendedNext ==
  ASSUME Unattended, [Next]_vars
  PROVE  \/ \E p \in Ingesting :
              StartPass(p) \/ EndPass(p) \/ \E a \in Artist : PassStep(p, a)
         \/ \E w \in Worker : StartBatch(w)
         \/ \E p \in Actor : Abandon(p)
         \/ \E w \in Worker, a \in Artist : BatchStep(w, a)
         \/ UNCHANGED vars
  BY DEF Unattended, Next, Actor

\* An artist that a batch is deciding has the answer that decided it before.
LEMMA SameDecision ==
  ASSUME TypeOK, Unattended, ApprovalRepeats, NEW w \in Worker, NEW a \in Artist,
         pc[w] \in {"found", "decide"}, Current(w, a), record[a].status = "verified"
  PROVE  \E m \in Mbid : record[a] = Verified(m) /\ AutoApproval(w, a, m)
<1>1. PICK m \in Mbid :
        record[a] = Verified(m) /\ \E answer \in Answers[a] : answer \cap Exact[a] = {m}
  BY DEF ApprovalRepeats
<1>2. found[w] \cap Exact[a] = {m}
  BY <1>1 DEF ApprovalRepeats, Unattended
<1>. QED
  BY <1>1, <1>2 DEF AutoApproval

\* So a batch writes the record of a verified artist over with itself.
LEMMA VerifiedStep ==
  ASSUME TypeOK, Unattended, ApprovalRepeats, [Next]_vars,
         NEW a \in Artist, record[a].status = "verified"
  PROVE  record'[a] = record[a] \/ Renewed(a) \/ Classified(a)
<1>1. ASSUME NEW p \in Ingesting, NEW b \in Artist, PassStep(p, b)
      PROVE  record'[a] = record[a] \/ Renewed(a) \/ Classified(a)
  <2>p. p \in Actor /\ copy[p][b] \in Record
    BY WorkersAreActors DEF TypeOK
  <2>1. CASE b # a
    BY <1>1, <2>1 DEF PassStep, NewArtist, Reclassify, TypeOK
  <2>2. CASE b = a /\ NewArtist(p, b)
    <3>1. copy'[p][b].status # "absent"
      BY <2>p, <2>2 DEF NewArtist, TypeOK, Fresh
    <3>. QED
      BY <2>2, <3>1 DEF NewArtist, Renewed
  <2>3. CASE b = a /\ Reclassify(p, b)
    <3>. DEFINE r == [copy[p][b] EXCEPT !.status = "not_an_artist"]
    <3>1. r.status = "not_an_artist"
      BY <2>p DEF Record
    <3>2. copy'[p][b] = r
      BY <2>p, <2>3 DEF Reclassify, TypeOK
    <3>. QED
      BY <2>3, <3>1, <3>2 DEF Reclassify, Classified
  <2>. QED
    BY <1>1, <2>1, <2>2, <2>3 DEF PassStep
<1>2. ASSUME NEW w \in Worker, NEW b \in Artist, BatchStep(w, b)
      PROVE  record'[a] = record[a]
  <2>1. CASE b # a \/ record' = record
    BY <1>2, <2>1 DEF BatchStep, Lookup, LookupFails, NoMatch, RecordCandidates,
                      Select, SelectRaises, Queue, TypeOK
  <2>2. CASE b = a /\ NoMatch(w, a)
    BY <2>2, SameDecision DEF NoMatch, AutoApproval
  <2>3. CASE b = a /\ Select(w, a)
    <3>1. PICK m \in candidates[a] :
            AutoApproval(w, a, m) /\ record' = [record EXCEPT ![a] = Verified(m)]
      BY <2>3 DEF Select
    <3>2. PICK n \in Mbid : record[a] = Verified(n) /\ AutoApproval(w, a, n)
      BY <2>3, SameDecision DEF Select
    <3>3. m = n
      BY <3>1, <3>2 DEF AutoApproval
    <3>. QED
      BY <3>1, <3>2, <3>3 DEF TypeOK
  <2>4. CASE b = a /\ Queue(w, a)
    BY <2>4, SameDecision DEF Queue
  <2>. QED
    BY <1>2, <2>1, <2>2, <2>3, <2>4
    DEF BatchStep, Lookup, LookupFails, RecordCandidates, SelectRaises
<1>. QED
  BY <1>1, <1>2, UnattendedNext DEF StartPass, EndPass, StartBatch, Abandon, vars

\* At the end of a round an actor has no answer; the others keep theirs.
LEMMA NoAnswerLeft ==
  ASSUME TypeOK, NEW w \in Actor,
         (\E a \in Artist : Finish(w, a)) \/ Leave(w)
  PROVE  \A v \in Worker :
           pc'[v] \in {"found", "decide"} =>
             pc[v] = pc'[v] /\ found'[v] = found[v] /\ copy'[v] = copy[v]
<1>1. \A v \in Actor \ {w} : pc[v] = pc'[v] /\ found'[v] = found[v] /\ copy'[v] = copy[v]
  BY WorkersAreActors DEF TypeOK, Finish, Leave
<1>2. pc'[w] \notin {"found", "decide"}
  BY WorkersAreActors DEF TypeOK, Finish, Leave
<1>. QED
  BY <1>1, <1>2, WorkersAreActors

\* The answer that a batch works with is one that MusicBrainz gives.
AnswersAreKnown ==
  \A w \in Worker, a \in Artist :
    pc[w] \in {"found", "decide"} /\ Current(w, a) => found[w] \in Answers[a]

LEMMA KeptAnswers ==
  ASSUME AnswersAreKnown,
         \A v \in Worker : pc'[v] \in {"found", "decide"} =>
           /\ pc[v] \in {"found", "decide"}
           /\ found'[v] = found[v] /\ copy'[v] = copy[v]
  PROVE  AnswersAreKnown'
  BY DEF AnswersAreKnown, Current, Pending

LEMMA AnswersStep ==
  ASSUME TypeOK, Unattended, AnswersAreKnown, [Next]_vars
  PROVE  AnswersAreKnown'
<1>1. ASSUME NEW p \in Ingesting,
             StartPass(p) \/ EndPass(p) \/ \E a \in Artist : PassStep(p, a)
      PROVE  AnswersAreKnown'
  <2>1. CASE EndPass(p)
    BY <2>1, NoAnswerLeft, KeptAnswers, WorkersAreActors DEF EndPass
  <2>2. CASE StartPass(p) \/ \E a \in Artist : PassStep(p, a)
    <3>1. pc'[p] = "pass" /\ found' = found
      BY <2>2, WorkersAreActors
      DEF StartPass, PassStep, NewArtist, Reclassify, Unread, Unclassified, Goto, TypeOK
    <3>2. \A v \in Worker \ {p} : pc'[v] = pc[v] /\ copy'[v] = copy[v]
      BY <2>2, WorkersAreActors
      DEF StartPass, PassStep, NewArtist, Reclassify, Goto, TypeOK
    <3>3. \A v \in Worker : pc'[v] \in {"found", "decide"} =>
            /\ pc[v] \in {"found", "decide"}
            /\ found'[v] = found[v] /\ copy'[v] = copy[v]
      BY <3>1, <3>2
    <3>. QED
      BY <3>3, KeptAnswers
  <2>. QED
    BY <1>1, <2>1, <2>2
<1>2. ASSUME NEW w \in Worker, StartBatch(w) PROVE AnswersAreKnown'
  <2>1. \A v \in Worker : pc'[v] \in {"found", "decide"} =>
          /\ pc[v] \in {"found", "decide"}
          /\ found'[v] = found[v] /\ copy'[v] = copy[v]
    BY <1>2, WorkersAreActors DEF StartBatch, Goto, TypeOK
  <2>. QED
    BY <2>1, KeptAnswers
<1>3. CASE \E p \in Actor : Abandon(p)
  BY <1>3, NoAnswerLeft, KeptAnswers DEF Abandon
<1>4. ASSUME NEW w \in Worker, NEW a \in Artist, BatchStep(w, a)
      PROVE  AnswersAreKnown'
  <2>1. CASE Lookup(w, a)
    <3>1. PICK answer \in Answers[a] : found' = [found EXCEPT ![w] = answer]
      BY <2>1 DEF Lookup
    <3>2. found'[w] \in Answers[a]
      BY <3>1, WorkersAreActors DEF TypeOK
    <3>3. copy' = copy /\ \A v \in Worker \ {w} : pc'[v] = pc[v] /\ found'[v] = found[v]
      BY <2>1, <3>1, WorkersAreActors DEF Lookup, Goto, TypeOK
    <3>4. \A b \in Artist : Current(w, b) => b = a
      BY <2>1, CurrentIsUnique DEF Lookup
    <3>. QED
      BY <3>2, <3>3, <3>4 DEF AnswersAreKnown, Current, Pending
  <2>2. CASE RecordCandidates(w, a)
    <3>1. \A v \in Worker : pc'[v] \in {"found", "decide"} => pc[v] \in {"found", "decide"}
      BY <2>2, WorkersAreActors DEF RecordCandidates, Goto, TypeOK
    <3>. QED
      BY <2>2, <3>1, KeptAnswers DEF RecordCandidates
  <2>3. CASE Finish(w, a) \/ Leave(w)
    BY <2>3, NoAnswerLeft, KeptAnswers, WorkersAreActors
  <2>. QED
    BY <1>4, <2>1, <2>2, <2>3
    DEF BatchStep, LookupFails, NoMatch, Select, SelectRaises, Queue
<1>5. CASE UNCHANGED vars
  BY <1>5, KeptAnswers DEF vars
<1>. QED
  BY <1>1, <1>2, <1>3, <1>4, <1>5, UnattendedNext

\* A record that becomes verified is one that any batch would approve again.
LEMMA NewApproval ==
  ASSUME ReviewInv, Unattended, AnswersAreKnown, [Next]_vars,
         NEW a \in Artist, record'[a].status = "verified", record'[a] # record[a]
  PROVE  \E m \in Mbid : /\ record'[a] = Verified(m)
                         /\ \E answer \in Answers[a] : answer \cap Exact[a] = {m}
<1>t. TypeOK /\ CopiesConsistent
  BY DEF ReviewInv
<1>1. PICK w \in Worker, b \in Artist : BatchStep(w, b)
  <2>1. ASSUME NEW p \in Ingesting, NEW b \in Artist, PassStep(p, b) PROVE FALSE
    <3>p. copy[p][b] \in Record
      BY <1>t, WorkersAreActors DEF TypeOK
    <3>1. CASE NewArtist(p, b)
      BY <1>t, <3>1 DEF NewArtist, TypeOK, Fresh
    <3>2. CASE Reclassify(p, b)
      <4>. DEFINE r == [copy[p][b] EXCEPT !.status = "not_an_artist"]
      <4>1. r.status # "verified"
        BY <3>p DEF Record
      <4>2. record' = [record EXCEPT ![b] = r]
        BY <3>2 DEF Reclassify
      <4>. QED
        BY <1>t, <4>1, <4>2 DEF TypeOK
    <3>. QED
      BY <2>1, <3>1, <3>2 DEF PassStep
  <2>. QED
    BY <2>1, UnattendedNext DEF StartPass, EndPass, StartBatch, Abandon, vars
<1>0. pc[w] # "pass"
  BY <1>1 DEF BatchStep, Lookup, LookupFails, NoMatch, RecordCandidates, Select, SelectRaises,
              Queue, Goto
<1>w. copy[w][b] \in Record /\ copy[w][b].status # "verified"
  BY <1>t, <1>0, WorkersAreActors DEF TypeOK, CopiesConsistent
<1>2. CASE Select(w, b)
  <2>1. PICK m \in candidates[b] :
          AutoApproval(w, b, m) /\ record' = [record EXCEPT ![b] = Verified(m)]
    BY <1>2 DEF Select
  <2>2. a = b /\ record'[a] = Verified(m) /\ m \in Mbid
    BY <1>t, <2>1 DEF TypeOK
  <2>3. found[w] \in Answers[a]
    BY <1>2, <2>2 DEF Select, AnswersAreKnown
  <2>. QED
    BY <2>1, <2>2, <2>3 DEF AutoApproval
<1>3. CASE NoMatch(w, b)
  <2>. DEFINE r == [copy[w][b] EXCEPT !.checked = TRUE]
  <2>1. r.status # "verified"
    BY <1>w DEF Record
  <2>2. record' = [record EXCEPT ![b] = r]
    BY <1>3 DEF NoMatch
  <2>. QED
    BY <1>t, <2>1, <2>2 DEF TypeOK
<1>4. CASE Queue(w, b)
  <2>. DEFINE r == [copy[w][b] EXCEPT !.status = "candidate"]
  <2>1. r.status # "verified"
    BY <1>w DEF Record
  <2>2. record' = [record EXCEPT ![b] = r]
    BY <1>4 DEF Queue
  <2>. QED
    BY <1>t, <2>1, <2>2 DEF TypeOK
<1>. QED
  BY <1>1, <1>2, <1>3, <1>4 DEF BatchStep, Lookup, LookupFails, RecordCandidates, SelectRaises

LEMMA ApprovalRepeatsStep ==
  ASSUME ReviewInv, Unattended, ApprovalRepeats, [Next]_vars
  PROVE  ApprovalRepeats'
<1>1. AnswersAreKnown
  BY DEF ApprovalRepeats, AnswersAreKnown
<1>2. AnswersAreKnown'
  BY <1>1, AnswersStep DEF ReviewInv
<1>3. \A a \in Artist : record'[a].status = "verified" =>
        \E m \in Mbid : /\ record'[a] = Verified(m)
                        /\ \E answer \in Answers[a] : answer \cap Exact[a] = {m}
  BY <1>1, NewApproval DEF ApprovalRepeats
<1>. QED
  BY <1>2, <1>3 DEF ApprovalRepeats, AnswersAreKnown, Verified

\* Without editors, and with answers that do not change, batches that overlap,
\* fail and die never undo an approval; only a pass with an old map does.
THEOREM UnattendedApprovalsStand == Unattended => (Spec => ApprovalStands)
<1>. SUFFICES ASSUME Unattended PROVE Spec => ApprovalStands
  OBVIOUS
<1>1. Init => ReviewInv /\ ApprovalRepeats
  <2>1. Init => ApprovalRepeats
    BY InitRecords, WorkersAreActors DEF Init, ApprovalRepeats
  <2>. QED
    BY <2>1, ReviewInvInit
<1>2. (ReviewInv /\ ApprovalRepeats) /\ [Next]_vars => (ReviewInv /\ ApprovalRepeats)'
  BY ReviewInvStep, ApprovalRepeatsStep
<1>3. (ReviewInv /\ ApprovalRepeats) /\ [Next]_vars =>
        [\A a \in Artist : record[a].status = "verified" =>
           record'[a] = record[a] \/ Renewed(a) \/ Classified(a)]_record
  BY VerifiedStep DEF ReviewInv
<1>. QED
  BY <1>1, <1>2, <1>3, PTL DEF Spec, ApprovalStands
=============================================================================
