----------------------------- MODULE WebProofs -----------------------------
(***************************************************************************)
(* What holds of the web application (webapp.py) for every number of       *)
(* pages, of events and of rows: of SyncControl, the syncs of the process, *)
(* and of EventListing, the listing of events.  The two share nothing.     *)
(***************************************************************************)
EXTENDS SyncControl, EventListing, FiniteSetTheorems, SequenceTheorems, TLAPS

LEMMA AskerType == Page \subseteq Asker /\ Scheduled \in Asker
  BY DEF Asker

\* A queue after an update was put or taken.
LEMMA QueueAppend ==
  ASSUME NEW q \in Seq(Update), NEW u \in Update
  PROVE  /\ Append(q, u) \in Seq(Update)
         /\ Len(Append(q, u)) = Len(q) + 1 /\ DOMAIN Append(q, u) = 1..(Len(q) + 1)
         /\ DOMAIN q = 1..Len(q) /\ Len(q) \in Nat
         /\ \A i \in 1..Len(q) : Append(q, u)[i] = q[i]
         /\ Append(q, u)[Len(q) + 1] = u
  OBVIOUS

LEMMA QueueTail ==
  ASSUME NEW q \in Seq(Update), q # <<>>
  PROVE  /\ Tail(q) \in Seq(Update) /\ Head(q) \in Update /\ Head(q) = q[1]
         /\ Len(Tail(q)) = Len(q) - 1 /\ DOMAIN Tail(q) = 1..(Len(q) - 1)
         /\ DOMAIN q = 1..Len(q) /\ Len(q) \in Nat \ {0}
         /\ \A i \in 1..(Len(q) - 1) : Tail(q)[i] = q[i + 1]
  OBVIOUS

-----------------------------------------------------------------------------
\* Type correctness.

LEMMA InitType == Init => TypeOK
<1>. SUFFICES ASSUME Init PROVE TypeOK
  OBVIOUS
<1>1. queue \in [Page -> Seq(Update)]
  <2>1. <<>> \in Seq(Update)
    OBVIOUS
  <2>. QED
    BY <2>1 DEF Init
<1>2. web \in {"up", "stopping", "down"} /\ loop \in {"waiting", "syncing", "stopped"}
      /\ locked \in BOOLEAN
  BY DEF Init, FreshLoop
<1>. QED
  BY <1>1, <1>2 DEF Init, TypeOK, ThreadStage, StreamStage, Outcome

LEMMA ThreadType ==
  ASSUME TypeOK, NEW s \in Asker, SyncStep(s)
  PROVE  TypeOK'
<1>1. CASE Acquire(s)
  BY <1>1 DEF Acquire, GoThread, streamVars, TypeOK, ThreadStage
<1>2. CASE InProgress(s)
  BY <1>2 DEF InProgress, GoThread, streamVars, TypeOK, ThreadStage, Outcome, Failure
<1>3. CASE SyncSucceeds(s)
  BY <1>3 DEF SyncSucceeds, GoThread, streamVars, TypeOK, ThreadStage, Outcome
<1>4. CASE SyncFails(s)
  BY <1>4 DEF SyncFails, GoThread, streamVars, TypeOK, ThreadStage, Outcome, Failure
<1>. QED
  BY <1>1, <1>2, <1>3, <1>4 DEF SyncStep

LEMMA PageType ==
  ASSUME TypeOK, NEW p \in Page, PageStep(p)
  PROVE  TypeOK'
<1>1. p \in Asker /\ queue[p] \in Seq(Update)
  BY AskerType DEF TypeOK
<1>2. CASE Progress(p)
  <2>1. Append(queue[p], "progress") \in Seq(Update)
    BY <1>1, QueueAppend DEF Update
  <2>. QED
    BY <1>2, <2>1 DEF Progress, streamVars, TypeOK
<1>3. CASE PutFailure(p)
  <2>1. outcome[p] \in Update
    BY <1>1, <1>3 DEF PutFailure, GoThread, TypeOK, Update
  <2>2. Append(queue[p], outcome[p]) \in Seq(Update)
    BY <1>1, <2>1, QueueAppend
  <2>. QED
    BY <1>1, <1>3, <2>2 DEF PutFailure, GoThread, streamVars, TypeOK, ThreadStage
<1>4. CASE PutFinished(p)
  <2>1. Append(queue[p], "finished") \in Seq(Update)
    BY <1>1, QueueAppend DEF Update
  <2>. QED
    BY <1>1, <1>4, <2>1 DEF PutFinished, GoThread, streamVars, TypeOK, ThreadStage
<1>5. CASE Open(p)
  <2>1. <<>> \in Seq(Update)
    OBVIOUS
  <2>2. thread'[p] # "failed"
    BY <1>5 DEF Open
  <2>. QED
    BY <1>1, <1>5, <2>1, <2>2 DEF Open, TypeOK, StreamStage, Outcome
<1>6. CASE StartThread(p)
  BY <1>1, <1>6 DEF StartThread, GoStream, TypeOK, StreamStage, ThreadStage
<1>7. CASE Read(p)
  <2>1. Tail(queue[p]) \in Seq(Update) /\ queue' = [queue EXCEPT ![p] = Tail(queue[p])]
    BY <1>1, <1>7, QueueTail DEF Read, ReadProgress, ReadFailure, ReadFinished, Take
  <2>. QED
    BY <1>7, <2>1 DEF Read, ReadProgress, ReadFailure, ReadFinished, streamVars, TypeOK,
      StreamStage
<1>8. CASE Report(p)
  <2>1. (CASE failure[p] = "none" -> "synced" [] failure[p] = "broken" -> told[p]
          [] OTHER -> failure[p]) \in {"syncing", "synced", "busy", "failed"}
    BY DEF TypeOK, Failure
  <2>. QED
    BY <1>8, <2>1 DEF Report, GoStream, TypeOK, StreamStage
<1>9. CASE Disconnect(p)
  BY <1>9 DEF Disconnect, TypeOK, StreamStage
<1>. QED
  BY <1>2, <1>3, <1>4, <1>5, <1>6, <1>7, <1>8, <1>9 DEF PageStep, Put

LEMMA ProcessType ==
  ASSUME TypeOK, Tick \/ Logged \/ Shutdown \/ Exit \/ Kill \/ Start
  PROVE  TypeOK'
<1>1. CASE Tick
  BY <1>1, AskerType DEF Tick, GoThread, streamVars, TypeOK, ThreadStage
<1>2. CASE Logged
  BY <1>2, AskerType DEF Logged, streamVars, TypeOK, ThreadStage
<1>3. CASE Shutdown
  BY <1>3 DEF Shutdown, streamVars, TypeOK
<1>4. CASE Exit \/ Kill
  <2>1. \A p \in Page : stream'[p] \in StreamStage
    BY <1>4 DEF Exit, Kill, Die, StreamStage
  <2>2. stream' \in [Page -> StreamStage]
    BY <1>4, <2>1 DEF Exit, Kill, Die
  <2>3. thread' \in [Asker -> ThreadStage] /\ \A s \in Asker : thread'[s] # "failed"
    BY <1>4 DEF Exit, Kill, Die, ThreadStage
  <2>. QED
    BY <1>4, <2>2, <2>3 DEF Exit, Kill, Die, TypeOK
<1>5. CASE Start
  BY <1>5 DEF Start, FreshLoop, streamVars, TypeOK
<1>. QED
  BY <1>1, <1>2, <1>3, <1>4, <1>5

LEMMA NextType == TypeOK /\ [Next]_vars => TypeOK'
<1>. SUFFICES ASSUME TypeOK, [Next]_vars PROVE TypeOK'
  OBVIOUS
<1>1. CASE UNCHANGED vars
  BY <1>1 DEF vars, TypeOK
<1>2. CASE Next
  BY <1>2, ThreadType, PageType, ProcessType DEF Next
<1>. QED
  BY <1>1, <1>2

\* Every reachable state has its type; a thread that failed has a failure.
THEOREM ControlTypeCorrect == Spec => []TypeOK
  BY InitType, NextType, PTL DEF Spec

-----------------------------------------------------------------------------
\* The lock, and the process as one runner.

LEMMA LockKept ==
  ASSUME TypeOK, LockInv, QueueInv, [Next]_vars
  PROVE  /\ LockInv'
         /\ \/ Syncing' = Syncing
            \/ Syncing = {} /\ \E s \in Asker : Syncing' = {s}
            \/ Syncing # {} /\ Syncing' = {}
<1>1. ASSUME locked' = locked, Syncing' = Syncing
      PROVE  LockInv' /\ Syncing' = Syncing
  BY <1>1 DEF LockInv
<1>2. ASSUME NEW s \in Asker, Acquire(s)
      PROVE  LockInv' /\ Syncing = {} /\ Syncing' = {s}
  <2>1. Syncing = {} /\ thread' = [thread EXCEPT ![s] = "syncing"] /\ locked'
    BY <1>2 DEF Acquire, GoThread, LockInv
  <2>2. Syncing' = {s}
    BY <2>1 DEF Syncing, TypeOK
  <2>. QED
    BY <2>1, <2>2 DEF LockInv
<1>3. ASSUME NEW s \in Asker, SyncSucceeds(s) \/ SyncFails(s)
      PROVE  LockInv' /\ Syncing # {} /\ Syncing' = {}
  <2>1. s \in Syncing /\ locked' = FALSE /\ Syncing' \subseteq Syncing \ {s}
    BY <1>3 DEF SyncSucceeds, SyncFails, GoThread, Syncing, TypeOK
  <2>. QED
    BY <2>1 DEF LockInv
<1>4. ASSUME Exit \/ Kill PROVE LockInv' /\ Syncing' = {}
  <2>1. Syncing' = {} /\ locked' = FALSE
    BY <1>4 DEF Exit, Kill, Die, Syncing
  <2>. QED
    BY <2>1 DEF LockInv
<1>5. ASSUME NEW s \in Asker, NEW to, to # "syncing", thread[s] # "syncing",
             thread' = [thread EXCEPT ![s] = to]
      PROVE  Syncing' = Syncing
  BY <1>5 DEF Syncing, TypeOK
<1>6. ASSUME NEW s \in Asker, InProgress(s) PROVE LockInv' /\ Syncing' = Syncing
  BY <1>1, <1>5, <1>6 DEF InProgress, GoThread
<1>7. ASSUME NEW p \in Page, PageStep(p) PROVE LockInv' /\ Syncing' = Syncing
  <2>1. p \in Asker
    BY AskerType
  <2>2. CASE Progress(p) \/ Open(p) \/ Read(p) \/ Report(p) \/ Disconnect(p)
    <3>1. thread' = thread /\ locked' = locked
      BY <2>2 DEF Progress, Open, Read, ReadProgress, ReadFailure, ReadFinished, Report,
        Disconnect
    <3>. QED
      BY <1>1, <3>1 DEF Syncing
  <2>3. CASE Put(p)
    BY <1>1, <1>5, <2>1, <2>3 DEF Put, PutFailure, PutFinished, GoThread
  <2>4. CASE StartThread(p)
    <3>1. thread[p] = "none"
      BY <2>4 DEF StartThread, GoStream, QueueInv, PageInv
    <3>. QED
      BY <1>1, <1>5, <2>1, <2>4, <3>1 DEF StartThread
  <2>. QED
    BY <1>7, <2>2, <2>3, <2>4 DEF PageStep
<1>8. CASE Tick \/ Logged \/ Shutdown \/ Start \/ UNCHANGED vars
  <2>1. CASE Tick \/ Logged
    BY <1>1, <1>5, <2>1, AskerType DEF Tick, Logged, GoThread
  <2>2. CASE Shutdown \/ Start \/ UNCHANGED vars
    BY <1>1, <2>2 DEF Shutdown, Start, vars, Syncing
  <2>. QED
    BY <1>8, <2>1, <2>2
<1>. QED
  BY <1>2, <1>3, <1>4, <1>6, <1>7, <1>8 DEF Next, SyncStep

-----------------------------------------------------------------------------
\* Streams.

LEMMA PageUntouched ==
  ASSUME NEW p \in Page, PageInv(p),
         thread'[p] = thread[p], outcome'[p] = outcome[p], queue'[p] = queue[p],
         stream'[p] = stream[p], failure'[p] = failure[p], told'[p] = told[p]
  PROVE  PageInv(p)'
  BY DEF PageInv, Queued

\* A step of another asker leaves a page alone.
LEMMA OthersKept ==
  ASSUME TypeOK, NEW p \in Page, PageInv(p), NEW s \in Asker, s # p,
         SyncStep(s) \/ (s \in Page /\ PageStep(s))
  PROVE  PageInv(p)' /\ stream'[p] = stream[p]
<1>1. p \in Asker
  BY AskerType
<1>2. /\ thread'[p] = thread[p] /\ outcome'[p] = outcome[p] /\ queue'[p] = queue[p]
      /\ stream'[p] = stream[p] /\ failure'[p] = failure[p] /\ told'[p] = told[p]
  <2>1. CASE SyncStep(s)
    BY <1>1, <2>1 DEF SyncStep, Acquire, InProgress, SyncSucceeds, SyncFails, GoThread,
      streamVars, TypeOK
  <2>2. CASE s \in Page /\ PageStep(s)
    BY <1>1, <2>2 DEF PageStep, Progress, Put, PutFailure, PutFinished, Open, StartThread,
      Read, ReadProgress, ReadFailure, ReadFinished, Take, Report, Disconnect, GoThread,
      GoStream, streamVars, TypeOK
  <2>. QED
    BY <2>1, <2>2
<1>. QED
  BY <1>2, PageUntouched

LEMMA ThreadKept ==
  ASSUME TypeOK, NEW p \in Page, PageInv(p), stream[p] # "gone", SyncStep(p)
  PROVE  PageInv(p)'
<1>1. p \in Asker /\ queue' = queue /\ stream' = stream /\ failure' = failure /\ told' = told
  BY AskerType DEF SyncStep, Acquire, InProgress, SyncSucceeds, SyncFails, streamVars
<1>2. Queued(p)' = Queued(p)
  BY <1>1 DEF Queued
<1>3. outcome[p] = "none" /\ thread[p] \in {"start", "syncing"}
  BY DEF SyncStep, Acquire, InProgress, SyncSucceeds, SyncFails, GoThread, PageInv
<1>4. stream[p] = "reading" /\ thread'[p] \in {"syncing", "failed", "finish"}
  BY <1>1, <1>3 DEF SyncStep, Acquire, InProgress, SyncSucceeds, SyncFails, GoThread,
    PageInv, TypeOK, StreamStage
<1>5. /\ thread'[p] = "syncing" => outcome'[p] = "none"
      /\ thread'[p] = "finish" => outcome'[p] = "synced"
  BY <1>1, <1>3 DEF SyncStep, Acquire, InProgress, SyncSucceeds, SyncFails, GoThread, TypeOK
<1>6. Queued(p) \cap Failure = {} /\ failure[p] = "none"
  BY <1>3 DEF PageInv, Failure
<1>. QED
  BY <1>1, <1>2, <1>3, <1>4, <1>5, <1>6 DEF PageInv, Failure

LEMMA PutKept ==
  ASSUME TypeOK, NEW p \in Page, PageInv(p), stream[p] # "gone", Progress(p) \/ Put(p)
  PROVE  PageInv(p)'
<1>. DEFINE q == queue[p]
<1>1. p \in Asker /\ q \in Seq(Update)
  BY AskerType DEF TypeOK
<1>2. /\ outcome' = outcome /\ stream' = stream /\ failure' = failure /\ told' = told
      /\ thread[p] \in {"syncing", "failed", "finish"} /\ stream[p] = "reading"
  BY DEF Progress, Put, PutFailure, PutFinished, GoThread, streamVars, PageInv, TypeOK,
    StreamStage
<1>. DEFINE Puts(u) ==
      /\ queue' = [queue EXCEPT ![p] = Append(q, u)]
      /\ \/ /\ u = "progress" /\ thread[p] = "syncing" /\ thread'[p] = "syncing"
         \/ /\ u = outcome[p] /\ outcome[p] \in Failure
            /\ thread[p] = "failed" /\ thread'[p] = "finish"
         \/ /\ u = "finished" /\ thread[p] = "finish" /\ thread'[p] = "none"
<1>3. PICK u \in Update : Puts(u)
  <2>1. CASE Progress(p)
    BY <2>1 DEF Progress, Update
  <2>2. CASE PutFailure(p)
    BY <1>1, <2>2 DEF PutFailure, GoThread, Update, TypeOK
  <2>3. CASE PutFinished(p)
    BY <1>1, <2>3 DEF PutFinished, GoThread, Update, TypeOK
  <2>. QED
    BY <2>1, <2>2, <2>3 DEF Put
<1>. HIDE DEF q
<1>4. queue'[p] = Append(q, u)
  BY <1>3 DEF TypeOK
<1>5. /\ DOMAIN queue'[p] = 1..(Len(q) + 1) /\ Len(queue'[p]) = Len(q) + 1
      /\ DOMAIN q = 1..Len(q) /\ Len(q) \in Nat
      /\ \A i \in 1..Len(q) : queue'[p][i] = q[i]
      /\ queue'[p][Len(q) + 1] = u
  BY <1>1, <1>3, <1>4, QueueAppend
<1>6. Queued(p)' = Queued(p) \cup {u}
  BY <1>5 DEF Queued, q
<1>7. \A i \in DOMAIN q : q[i] # "finished"
  BY <1>2 DEF PageInv, q
<1>8. \A i \in DOMAIN queue'[p] : queue'[p][i] = "finished" =>
        i = Len(queue'[p]) /\ thread'[p] = "none"
  BY <1>3, <1>5, <1>7 DEF Failure
<1>9. Queued(p)' \cap Failure \subseteq {outcome[p]}
  BY <1>3, <1>6 DEF PageInv, Failure
<1>10. /\ failure[p] \in {"none", outcome[p]} /\ told[p] = "syncing"
       /\ thread'[p] \in {"start", "syncing"} => outcome[p] = "none"
       /\ thread'[p] \in {"finish", "none"} => outcome[p] # "none"
  BY <1>2, <1>3 DEF PageInv, Failure
<1>11. outcome[p] \in Failure /\ thread'[p] \in {"finish", "none"} =>
         failure[p] = outcome[p] \/ outcome[p] \in Queued(p)'
  BY <1>2, <1>3, <1>6 DEF PageInv
<1>. QED
  BY <1>2, <1>8, <1>9, <1>10, <1>11 DEF PageInv

LEMMA ReadKept ==
  ASSUME TypeOK, NEW p \in Page, PageInv(p), Read(p)
  PROVE  PageInv(p)'
<1>. DEFINE q == queue[p]
<1>1. /\ thread' = thread /\ outcome' = outcome /\ told' = told /\ stream[p] = "reading"
      /\ q \in Seq(Update) /\ q # <<>> /\ queue'[p] = Tail(q)
  BY DEF Read, ReadProgress, ReadFailure, ReadFinished, Take, streamVars, TypeOK
<1>2. /\ DOMAIN queue'[p] = 1..(Len(q) - 1) /\ Len(queue'[p]) = Len(q) - 1
      /\ DOMAIN q = 1..Len(q) /\ Len(q) \in Nat \ {0} /\ Head(q) = q[1]
      /\ \A i \in 1..(Len(q) - 1) : queue'[p][i] = q[i + 1]
  BY <1>1, QueueTail
<1>3. Queued(p)' \subseteq Queued(p) /\ Queued(p) = Queued(p)' \cup {Head(q)}
  <2>1. \A i \in 1..Len(q) : i = 1 \/ (i - 1 \in 1..(Len(q) - 1) /\ queue'[p][i - 1] = q[i])
    BY <1>2
  <2>2. \A i \in 1..(Len(q) - 1) : i + 1 \in 1..Len(q)
    BY <1>2
  <2>3. Queued(p)' = {queue'[p][i] : i \in 1..(Len(q) - 1)}
    BY <1>2 DEF Queued
  <2>4. Queued(p) = {q[i] : i \in 1..Len(q)} /\ Head(q) \in Queued(p)
    BY <1>2 DEF Queued
  <2>5. Queued(p)' \subseteq Queued(p)
    BY <1>2, <2>2, <2>3, <2>4
  <2>6. Queued(p) \subseteq Queued(p)' \cup {Head(q)}
    <3>. SUFFICES ASSUME NEW i \in 1..Len(q)
                  PROVE  q[i] \in Queued(p)' \cup {Head(q)}
      BY <2>4
    <3>. QED
      BY <1>2, <2>1, <2>3
  <2>. QED
    BY <2>4, <2>5, <2>6
<1>4. \A i \in DOMAIN queue'[p] : queue'[p][i] = "finished" =>
        i = Len(queue'[p]) /\ thread'[p] = "none"
  <2>. SUFFICES ASSUME NEW i \in 1..(Len(q) - 1), queue'[p][i] = "finished"
                PROVE  i = Len(q) - 1 /\ thread[p] = "none"
    BY <1>1, <1>2
  <2>1. i + 1 \in DOMAIN q /\ q[i + 1] = "finished"
    BY <1>2
  <2>2. i + 1 = Len(q) /\ thread[p] = "none"
    BY <2>1 DEF PageInv
  <2>. QED
    BY <1>2, <2>2
<1>5. CASE ReadProgress(p)
  <2>1. failure' = failure /\ stream' = stream /\ Head(q) \notin Failure
    BY <1>5 DEF ReadProgress, streamVars, Failure
  <2>2. \A o \in Failure : o \in Queued(p) => o \in Queued(p)'
    BY <1>3, <2>1
  <2>. QED
    BY <1>1, <1>3, <1>4, <2>1, <2>2 DEF PageInv
<1>6. CASE ReadFailure(p)
  <2>1. Head(q) \in Failure /\ Head(q) = outcome[p] /\ failure'[p] = outcome[p]
        /\ stream' = stream
    BY <1>3, <1>6 DEF ReadFailure, PageInv, TypeOK
  <2>. QED
    BY <1>1, <1>3, <1>4, <2>1 DEF PageInv
<1>7. CASE ReadFinished(p)
  <2>1. failure' = failure /\ stream'[p] = "report" /\ Head(q) = "finished"
    BY <1>1, <1>7 DEF ReadFinished, TypeOK
  <2>2. 1 = Len(q) /\ thread[p] = "none" /\ outcome[p] # "none"
    <3>1. 1 \in DOMAIN q /\ q[1] = "finished"
      BY <1>2, <2>1
    <3>. QED
      BY <1>1, <3>1 DEF PageInv
  <2>3. Queued(p)' = {}
    BY <1>2, <2>2 DEF Queued
  <2>4. outcome[p] \in Failure => failure[p] = outcome[p]
    BY <1>1, <1>3, <2>1, <2>2, <2>3 DEF PageInv, Failure
  <2>. QED
    BY <1>1, <1>4, <2>1, <2>2, <2>3, <2>4 DEF PageInv
<1>. QED
  BY <1>5, <1>6, <1>7 DEF Read

StreamInv == TypeOK /\ LockInv /\ QueueInv /\ PageKnows

LEMMA PageKept ==
  ASSUME StreamInv, [Next]_vars, NEW p \in Page, stream'[p] # "gone"
  PROVE  PageInv(p)' /\ (stream'[p] = "closed" =>
           told'[p] = IF outcome'[p] = "broken" THEN "syncing" ELSE outcome'[p])
<1>. USE DEF StreamInv
<1>. DEFINE K == stream'[p] = "closed" =>
              told'[p] = IF outcome'[p] = "broken" THEN "syncing" ELSE outcome'[p]
<1>0. stream[p] # "gone" => PageInv(p) /\ p \in Asker
  BY AskerType DEF QueueInv
<1>1. CASE /\ thread'[p] = thread[p] /\ outcome'[p] = outcome[p] /\ queue'[p] = queue[p]
           /\ stream'[p] = stream[p] /\ failure'[p] = failure[p] /\ told'[p] = told[p]
  BY <1>0, <1>1, PageUntouched DEF PageKnows
<1>2. ASSUME NEW s \in Asker, SyncStep(s) PROVE PageInv(p)' /\ K
  <2>1. /\ stream'[p] = stream[p] /\ told'[p] = told[p]
    BY <1>2 DEF SyncStep, Acquire, InProgress, SyncSucceeds, SyncFails, streamVars
  <2>2. CASE s # p
    <3>1. outcome'[p] = outcome[p]
      BY <1>0, <1>2, <2>2, AskerType DEF SyncStep, Acquire, InProgress, SyncSucceeds, SyncFails, TypeOK
    <3>. QED
      BY <1>0, <1>2, <2>1, <2>2, <3>1, OthersKept DEF PageKnows
  <2>3. CASE s = p
    <3>1. PageInv(p)'
      BY <1>0, <1>2, <2>1, <2>3, ThreadKept
    <3>2. stream[p] # "closed"
      BY <1>0, <1>2, <2>1, <2>3 DEF SyncStep, Acquire, InProgress, SyncSucceeds, SyncFails,
        GoThread, PageInv
    <3>. QED
      BY <2>1, <3>1, <3>2
  <2>. QED
    BY <2>2, <2>3
<1>3. ASSUME NEW s \in Page, s # p, PageStep(s) PROVE PageInv(p)' /\ K
  <2>1. /\ stream'[p] = stream[p] /\ told'[p] = told[p] /\ outcome'[p] = outcome[p]
    BY <1>0, <1>3, AskerType DEF PageStep, Progress, Put, PutFailure, PutFinished, Open, StartThread,
      Read, ReadProgress, ReadFailure, ReadFinished, Take, Report, Disconnect,
      GoStream, streamVars, TypeOK
  <2>. QED
    BY <1>0, <1>3, <2>1, OthersKept, AskerType DEF PageKnows
<1>4. CASE Progress(p) \/ Put(p)
  <2>1. stream' = stream /\ PageInv(p)'
    BY <1>0, <1>4, PutKept DEF Progress, Put, PutFailure, PutFinished, streamVars
  <2>2. stream[p] # "closed"
    BY <1>0, <1>4, <2>1 DEF Progress, Put, PutFailure, PutFinished, GoThread, PageInv
  <2>. QED
    BY <2>1, <2>2
<1>5. CASE Open(p)
  <2>1. /\ stream'[p] = "opening" /\ told'[p] = "syncing" /\ queue'[p] = <<>>
        /\ failure'[p] = "none" /\ outcome'[p] = "none" /\ thread'[p] = "none"
    BY <1>5, AskerType DEF Open, TypeOK
  <2>2. Queued(p)' = {} /\ DOMAIN queue'[p] = {}
    BY <2>1 DEF Queued
  <2>. QED
    BY <2>1, <2>2 DEF PageInv
<1>6. CASE StartThread(p)
  <2>1. /\ stream'[p] = "reading" /\ thread'[p] = "start" /\ stream[p] = "opening"
        /\ outcome' = outcome /\ queue' = queue /\ failure' = failure /\ told' = told
    BY <1>6, AskerType DEF StartThread, GoStream, TypeOK
  <2>2. Queued(p)' = Queued(p) /\ queue[p] = <<>> /\ PageInv(p)
    BY <1>0, <2>1 DEF Queued, PageInv
  <2>. QED
    BY <2>1, <2>2 DEF PageInv
<1>7. CASE Read(p)
  <2>1. stream[p] = "reading" /\ PageInv(p)'
    BY <1>0, <1>7, ReadKept DEF Read, ReadProgress, ReadFailure, ReadFinished, Take
  <2>2. stream'[p] # "closed"
    BY <1>7, <2>1 DEF Read, ReadProgress, ReadFailure, ReadFinished, streamVars, TypeOK
  <2>. QED
    BY <2>1, <2>2
<1>8. CASE Report(p)
  <2>1. /\ stream[p] = "report" /\ stream'[p] = "closed"
        /\ thread' = thread /\ outcome' = outcome /\ queue' = queue /\ failure' = failure
        /\ told'[p] = CASE failure[p] = "none" -> "synced"
                         [] failure[p] = "broken" -> told[p]
                         [] OTHER -> failure[p]
    BY <1>8 DEF Report, GoStream, TypeOK
  <2>2. PageInv(p) /\ Queued(p)' = Queued(p)
    BY <1>0, <2>1 DEF Queued
  <2>3. /\ outcome[p] \in Failure => failure[p] = outcome[p]
        /\ outcome[p] \notin Failure => outcome[p] = "synced" /\ failure[p] = "none"
        /\ told[p] = "syncing"
    BY <1>0, <2>1, <2>2, AskerType DEF PageInv, TypeOK, Outcome, Failure
  <2>4. K
    BY <2>1, <2>3 DEF Failure
  <2>5. PageInv(p)'
    BY <2>1, <2>2 DEF PageInv
  <2>. QED
    BY <2>4, <2>5
<1>9. CASE Disconnect(p)
  BY <1>9 DEF Disconnect, TypeOK
<1>10. CASE Tick \/ Logged \/ Shutdown \/ Start \/ UNCHANGED vars
  BY <1>1, <1>10, ConstantsAssumption DEF Tick, Logged, Shutdown, Start, vars, GoThread, streamVars, TypeOK, Asker
<1>11. CASE Exit \/ Kill
  <2>1. /\ thread'[p] = "none" /\ stream[p] = "closed" /\ stream'[p] = "closed"
        /\ outcome' = outcome /\ queue' = queue /\ failure' = failure /\ told' = told
    BY <1>11, AskerType DEF Exit, Kill, Die
  <2>2. thread[p] = "none"
    BY <1>0, <2>1 DEF PageInv
  <2>. QED
    BY <1>1, <2>1, <2>2
<1>. QED
  BY <1>2, <1>3, <1>4, <1>5, <1>6, <1>7, <1>8, <1>9, <1>10, <1>11 DEF Next, PageStep

LEMMA InitStream == Init => StreamInv
<1>. SUFFICES ASSUME Init PROVE StreamInv
  OBVIOUS
<1>1. Syncing = {} /\ ~ locked
  BY DEF Init, Syncing
<1>2. \A p \in Page : stream[p] = "gone"
  BY DEF Init
<1>. QED
  BY <1>1, <1>2, InitType DEF StreamInv, LockInv, QueueInv, PageKnows

LEMMA NextStream == StreamInv /\ [Next]_vars => StreamInv'
<1>. SUFFICES ASSUME StreamInv, [Next]_vars PROVE StreamInv'
  OBVIOUS
<1>1. TypeOK' /\ LockInv'
  BY NextType, LockKept DEF StreamInv
<1>2. QueueInv' /\ PageKnows'
  BY PageKept DEF QueueInv, PageKnows
<1>. QED
  BY <1>1, <1>2 DEF StreamInv

LEMMA StreamHolds == Spec => []StreamInv
  BY InitStream, NextStream, PTL DEF Spec

\* A stream that ran to its end told the page how its own sync ended.
THEOREM PagesKnow == Spec => []PageKnows
  BY StreamHolds, PTL DEF StreamInv

\* perform_sync: the threads of the process are one runner.
THEOREM ImplementsRunner == Spec => OneRunner
<1>. DEFINE runner == IF Syncing = {} THEN None ELSE CHOOSE s \in Syncing : TRUE
<1>1. Init => Slot!Init
  BY DEF Init, Slot!Init, Syncing
<1>2. StreamInv /\ [Next]_vars => [Slot!Begin \/ Slot!End]_runner
  <2>. SUFFICES ASSUME StreamInv, [Next]_vars
                PROVE  [Slot!Begin \/ Slot!End]_runner
    OBVIOUS
  <2>1. CASE Syncing' = Syncing
    BY <2>1
  <2>2. ASSUME Syncing = {}, NEW s \in Asker, Syncing' = {s}
        PROVE  Slot!Begin
    BY <2>2 DEF Slot!Begin
  <2>3. CASE Syncing # {} /\ Syncing' = {}
    <3>1. runner \in Asker /\ runner' = None
      BY <2>3 DEF Syncing
    <3>2. None \notin Asker
      BY ConstantsAssumption DEF Asker
    <3>. QED
      BY <2>3, <3>1, <3>2 DEF Slot!End
  <2>. QED
    BY <2>1, <2>2, <2>3, LockKept DEF StreamInv
<1>. QED
  BY <1>1, <1>2, StreamHolds, PTL DEF Spec, OneRunner, Slot!Spec

-----------------------------------------------------------------------------
\* The listing of events: stored rows.

LEMMA RowIsStored ==
  ASSUME StoreOK, NEW e \in Event
  PROVE  /\ e \in Stored <=> table[e] \in Row
         /\ e \in Stored => /\ table[e].start \in Nat \cup {Absent}
                            /\ table[e].end \in Nat \cup {Absent}
                            /\ table[e].seen \in Nat \ {0}
<1>1. NoRow \notin Row
  <2>1. \A r \in Row : r.seen # 0
    BY DEF Row
  <2>2. NoRow.seen = 0
    BY DEF NoRow
  <2> QED BY <2>1, <2>2
<1> QED BY <1>1 DEF StoreOK, Stored, Row

LEMMA StoredFinite == IsFiniteSet(Stored) /\ Stored \subseteq Event
<1>1. Stored \in SUBSET Event
  BY DEF Stored
<1> QED BY <1>1, ListingAssumption, FS_Subset

LEMMA MatchingFinite ==
  ASSUME NEW q, NEW day
  PROVE  /\ Matching(q, day) \subseteq Stored
         /\ IsFiniteSet(Matching(q, day))
         /\ Cardinality(Matching(q, day)) \in Nat
<1>1. Matching(q, day) \in SUBSET Stored
  BY DEF Matching
<1> QED BY <1>1, StoredFinite, FS_Subset, FS_CardinalityType

-----------------------------------------------------------------------------
\* The order of a list.

LEMMA TabType == Tab = {"recent", "upcoming"}
  BY ListingAssumption DEF Tab

\* Before orders the events of a list strictly and totally.
LEMMA BeforeOrders ==
  ASSUME StoreOK, NEW q, q.tab \in Tab, NEW day \in Nat,
         NEW c \in Matching(q, day), NEW d \in Matching(q, day),
         NEW e \in Matching(q, day)
  PROVE  /\ ~ Before(q.tab, d, d)
         /\ Before(q.tab, c, d) /\ Before(q.tab, d, e) => Before(q.tab, c, e)
         /\ c # d => Before(q.tab, c, d) \/ Before(q.tab, d, c)
<1>1. \A x \in {c, d, e} :
         /\ x \in Event
         /\ table[x].seen \in Nat
         /\ q.tab = "upcoming" => table[x].start \in Nat
  <2>1. ASSUME NEW x \in {c, d, e}
        PROVE  /\ x \in Event /\ table[x].seen \in Nat
               /\ q.tab = "upcoming" => table[x].start \in Nat
    <3>1. x \in Matching(q, day) /\ x \in Stored /\ x \in Event
      BY <2>1 DEF Matching, Stored
    <3>2. table[x].start \in Nat \cup {Absent} /\ table[x].seen \in Nat
      BY <3>1, RowIsStored
    <3>3. q.tab = "upcoming" => table[x].start # Absent
      BY <3>1 DEF Matching
    <3> QED BY <3>1, <3>2, <3>3
  <2> QED BY <2>1
<1>2. \A x \in {c, d, e} : Rank[q.tab][x] \in Nat
  BY <1>1, TabType, ListingAssumption
<1>3. c # d => Rank[q.tab][c] # Rank[q.tab][d]
  BY <1>1, ListingAssumption DEF Tab
<1>4. CASE q.tab = "recent"
  BY <1>1, <1>2, <1>3, <1>4 DEF Before
<1>5. CASE q.tab = "upcoming"
  BY <1>1, <1>2, <1>3, <1>5 DEF Before
<1> QED BY <1>4, <1>5, TabType

\* Every place from the first to the last belongs to one event.
LEMMA Places ==
  ASSUME StoreOK, NEW q, q.tab \in Tab, NEW day \in Nat
  PROVE  LET n == Cardinality(Matching(q, day)) IN
         /\ \A e \in Matching(q, day) : Place(q, day, e) \in 1..n
         /\ \A d, e \in Matching(q, day) :
              /\ Before(q.tab, d, e) => Place(q, day, d) < Place(q, day, e)
              /\ Place(q, day, d) = Place(q, day, e) => d = e
         /\ \A k \in 1..n : \E e \in Matching(q, day) : Place(q, day, e) = k
<1> DEFINE M == Matching(q, day)
           n == Cardinality(M)
           P(e) == {d \in M : Before(q.tab, d, e)}
<1>m. IsFiniteSet(M) /\ n \in Nat
  BY MatchingFinite
<1>b. \A c, d, e \in M : /\ ~ Before(q.tab, d, d)
                         /\ Before(q.tab, c, d) /\ Before(q.tab, d, e)
                              => Before(q.tab, c, e)
                         /\ c # d => Before(q.tab, c, d) \/ Before(q.tab, d, c)
  BY BeforeOrders
<1>p. \A e \in M : Place(q, day, e) = 1 + Cardinality(P(e))
  BY DEF Place
<1> HIDE DEF M
<1>1. \A e \in M : IsFiniteSet(P(e)) /\ Cardinality(P(e)) \in Nat
  <2>1. \A e \in M : P(e) \in SUBSET M
    OBVIOUS
  <2> QED BY <1>m, <2>1, FS_Subset, FS_CardinalityType
<1>2. ASSUME NEW e \in M PROVE Place(q, day, e) \in 1..n
  <2>1. P(e) \in SUBSET M /\ e \notin P(e)
    BY <1>b
  <2>2. Cardinality(P(e)) <= n /\ (Cardinality(P(e)) = n => P(e) = M)
    BY <1>m, <2>1, FS_Subset
  <2>3. Cardinality(P(e)) # n
    BY <2>1, <2>2
  <2>4. Cardinality(P(e)) \in Nat
    BY <1>1
  <2> HIDE DEF P
  <2> QED BY <1>m, <1>p, <2>2, <2>3, <2>4
<1>3. ASSUME NEW d \in M, NEW e \in M, Before(q.tab, d, e)
      PROVE  Place(q, day, d) < Place(q, day, e)
  <2>1. P(d) \in SUBSET P(e) /\ d \in P(e) /\ d \notin P(d)
    BY <1>b, <1>3
  <2>2. IsFiniteSet(P(e)) /\ Cardinality(P(e)) \in Nat /\ Cardinality(P(d)) \in Nat
    BY <1>1
  <2>3. /\ Cardinality(P(d)) <= Cardinality(P(e))
        /\ Cardinality(P(d)) = Cardinality(P(e)) => P(e) = P(d)
    BY <2>1, <2>2, FS_Subset
  <2>4. Cardinality(P(d)) # Cardinality(P(e))
    BY <2>1, <2>3
  <2> HIDE DEF P
  <2> QED BY <1>p, <2>2, <2>3, <2>4
<1>4. ASSUME NEW d \in M, NEW e \in M, Place(q, day, d) = Place(q, day, e) PROVE d = e
  <2>1. Place(q, day, d) \in Nat /\ Place(q, day, e) \in Nat
    BY <1>m, <1>2
  <2> QED BY <1>b, <1>3, <1>4, <2>1
<1>5. ASSUME NEW k \in 1..n PROVE \E e \in M : Place(q, day, e) = k
  <2> DEFINE f == [e \in M |-> Place(q, day, e)]
  <2>1. f \in Injection(M, 1..n)
    <3>1. f \in [M -> 1..n]
      BY <1>2
    <3>2. \A d, e \in M : f[d] = f[e] => d = e
      BY <1>4
    <3> HIDE DEF f, n
    <3> QED BY <3>1, <3>2 DEF Injection, IsInjective
  <2>2. IsFiniteSet(1..n) /\ Cardinality(1..n) = n
    BY <1>m, FS_Interval
  <2> HIDE DEF f
  <2>3. f \in Surjection(M, 1..n)
    BY <2>1, <2>2, FS_Injection
  <2>4. PICK e \in M : f[e] = k
    BY <2>3 DEF Surjection
  <2> QED BY <2>4 DEF f
<1> QED BY <1>2, <1>3, <1>4, <1>5 DEF M

\* A list is a sequence of all that matches, each once.
LEMMA ListedType ==
  ASSUME StoreOK, NEW q, q.tab \in Tab, NEW day \in Nat
  PROVE  LET n == Cardinality(Matching(q, day)) IN
         /\ n \in Nat
         /\ Listed(q, day) \in Seq(Event)
         /\ Len(Listed(q, day)) = n
         /\ \A k \in 1..n : /\ Listed(q, day)[k] \in Matching(q, day)
                            /\ Place(q, day, Listed(q, day)[k]) = k
<1> DEFINE M == Matching(q, day)
           n == Cardinality(M)
           list == Listed(q, day)
<1>1. n \in Nat /\ M \subseteq Event
  BY MatchingFinite, StoredFinite
<1>2. list = [k \in 1..n |-> CHOOSE e \in M : Place(q, day, e) = k]
  BY DEF Listed
<1>3. ASSUME NEW k \in 1..n PROVE list[k] \in M /\ Place(q, day, list[k]) = k
  <2>1. \E e \in M : Place(q, day, e) = k
    BY Places
  <2>2. list[k] = CHOOSE e \in M : Place(q, day, e) = k
    BY <1>2
  <2> HIDE DEF M, list
  <2> QED BY <2>1, <2>2
<1> HIDE DEF M, n, list
<1>4. list \in [1..n -> Event]
  BY <1>1, <1>2, <1>3
<1>5. list \in Seq(Event) /\ Len(list) = n
  BY <1>1, <1>4
<1> QED BY <1>1, <1>3, <1>5 DEF M, n, list

-----------------------------------------------------------------------------
\* Pages.

LEMMA BoundsType ==
  ASSUME NEW a \in Int, NEW b \in Int
  PROVE  /\ Lower(a, b) \in Int /\ Upper(a, b) \in Int
         /\ Lower(a, b) <= a /\ Lower(a, b) <= b /\ (Lower(a, b) = a \/ Lower(a, b) = b)
         /\ Upper(a, b) >= a /\ Upper(a, b) >= b /\ (Upper(a, b) = a \/ Upper(a, b) = b)
  BY DEF Lower, Upper

LEMMA Smaller ==
  ASSUME NEW a \in Nat, NEW b \in Nat, a <= b, NEW size \in Nat
  PROVE  a * size \in Nat /\ a * size <= b * size
  BY SMT

LEMMA PagesType ==
  ASSUME NEW total \in Nat, NEW size \in Nat \ {0}
  PROVE  PagesOf(total, size) \in Nat \ {0}
<1>1. (total + size - 1) \div size \in Nat
  BY SMT
<1> QED BY <1>1, BoundsType DEF PagesOf

\* A page begins before the end of the list; unless it is the last one, it
\* also ends there.
LEMMA PageBegins ==
  ASSUME NEW total \in Nat, NEW size \in Nat \ {0}, NEW page \in 1..PagesOf(total, size)
  PROVE  /\ (page - 1) * size \in Nat
         /\ page * size = (page - 1) * size + size
         /\ total > 0 => (page - 1) * size < total
         /\ total = 0 => page = 1
<1> DEFINE k == (total + size - 1) \div size
<1>1. k \in Nat /\ k * size <= total + size - 1 /\ total + size - 1 < (k + 1) * size
  BY SMT
<1>2. page \in Nat \ {0}
  BY PagesType
<1>3. page * size = (page - 1) * size + size /\ (page - 1) * size \in Nat
  BY <1>2, SMT
<1>4. page <= 1 \/ page <= k
  <2>1. PagesOf(total, size) = Upper(1, k)
    BY DEF PagesOf
  <2> HIDE DEF k
  <2>2. Upper(1, k) = 1 \/ Upper(1, k) = k
    BY DEF Upper
  <2> QED BY <2>1, <2>2
<1> HIDE DEF k
<1>5. CASE page <= k
  <2>1. page * size \in Nat /\ page * size <= k * size /\ k * size \in Nat
    BY <1>1, <1>2, <1>5, Smaller
  <2>2. (page - 1) * size < total
    BY <1>1, <1>3, <2>1
  <2> QED BY <1>2, <1>3, <2>2, SMT
<1>6. CASE page <= 1
  <2>1. page = 1
    BY <1>2, <1>6
  <2>2. (page - 1) * size = 0
    BY <2>1
  <2> QED BY <1>3, <2>1, <2>2
<1> QED BY <1>4, <1>5, <1>6

\* The rows of a page that begins within the list.
LEMMA RowsOfPage ==
  ASSUME StoreOK, NEW q, q.tab \in Tab, NEW day \in Nat,
         NEW size \in Nat \ {0}, NEW page \in Nat \ {0}
  PROVE  LET list == Listed(q, day)
             rows == PageRows(q, page, size, day)
             from == (page - 1) * size
             to == Lower(page * size, Len(list))
         IN  /\ rows = SubSeq(list, from + 1, to)
             /\ from \in Nat /\ to \in Nat
             /\ rows \in Seq(Event)
             /\ Len(rows) = IF from < to THEN to - from ELSE 0
             /\ Len(rows) <= size
<1> DEFINE list == Listed(q, day)
           from == (page - 1) * size
           to == Lower(page * size, Len(list))
<1>1. list \in Seq(Event) /\ Len(list) \in Nat
  BY ListedType
<1>2. from \in Nat /\ page * size = from + size /\ page * size \in Nat
  BY SMT
<1> HIDE DEF list, from
<1>3. to \in Nat /\ to <= Len(list) /\ to <= from + size
  BY <1>1, <1>2 DEF Lower
<1> HIDE DEF to
<1>4. /\ SubSeq(list, from + 1, to) \in Seq(Event)
      /\ Len(SubSeq(list, from + 1, to)) = IF from + 1 <= to THEN to - (from + 1) + 1 ELSE 0
  <2>1. \A i \in from + 1..to : list[i] \in Event
    BY <1>1, <1>2, <1>3
  <2> QED BY <1>2, <1>3, <2>1, SubSeqProperties
<1>5. PageRows(q, page, size, day) = SubSeq(list, from + 1, to)
  BY DEF PageRows, list, from, to
<1>6. Len(SubSeq(list, from + 1, to)) = IF from < to THEN to - from ELSE 0
  BY <1>2, <1>3, <1>4
<1>7. Len(SubSeq(list, from + 1, to)) <= size
  BY <1>2, <1>3, <1>6
<1> QED BY <1>2, <1>3, <1>4, <1>5, <1>6, <1>7 DEF list, from, to

\* Two parts of a list that fit together.
LEMMA PartsFit ==
  ASSUME NEW S, NEW list \in Seq(S), NEW m \in Nat, NEW n \in Nat,
         m <= n, n <= Len(list)
  PROVE  SubSeq(list, 1, m) \o SubSeq(list, m + 1, n) = SubSeq(list, 1, n)
<1> DEFINE a == SubSeq(list, 1, m)
           b == SubSeq(list, m + 1, n)
           c == SubSeq(list, 1, n)
<1>1. \A i \in 1..Len(list) : list[i] \in S
  OBVIOUS
<1>2. a \in Seq(S) /\ Len(a) = m /\ \A i \in 1..m : a[i] = list[i]
  <2>1. \A i \in 1..m : list[i] \in S
    BY <1>1
  <2>2. /\ a \in Seq(S) /\ Len(a) = (IF 1 <= m THEN m - 1 + 1 ELSE 0)
        /\ \A i \in 1..m - 1 + 1 : a[i] = list[1 + i - 1]
    BY <2>1, SubSeqProperties
  <2> HIDE DEF a
  <2> QED BY <2>2
<1>3. b \in Seq(S) /\ Len(b) = n - m /\ \A i \in 1..n - m : b[i] = list[m + i]
  <2>1. \A i \in m + 1..n : list[i] \in S
    BY <1>1
  <2>2. /\ b \in Seq(S) /\ Len(b) = (IF m + 1 <= n THEN n - (m + 1) + 1 ELSE 0)
        /\ \A i \in 1..n - (m + 1) + 1 : b[i] = list[m + 1 + i - 1]
    BY <2>1, SubSeqProperties
  <2> HIDE DEF b
  <2> QED BY <2>2
<1>4. c \in Seq(S) /\ Len(c) = n /\ \A i \in 1..n : c[i] = list[i]
  <2>1. \A i \in 1..n : list[i] \in S
    BY <1>1
  <2>2. /\ c \in Seq(S) /\ Len(c) = (IF 1 <= n THEN n - 1 + 1 ELSE 0)
        /\ \A i \in 1..n - 1 + 1 : c[i] = list[1 + i - 1]
    BY <2>1, SubSeqProperties
  <2> HIDE DEF c
  <2> QED BY <2>2
<1> HIDE DEF a, b, c
<1> DEFINE ab == a \o b
<1>5. /\ ab \in Seq(S) /\ Len(ab) = m + (n - m)
      /\ \A i \in 1..m + (n - m) : ab[i] = IF i <= m THEN a[i] ELSE b[i - m]
  <2>1. /\ ab \in Seq(S) /\ Len(ab) = Len(a) + Len(b)
        /\ \A i \in 1..Len(a) + Len(b) : ab[i] = IF i <= Len(a) THEN a[i] ELSE b[i - Len(a)]
    BY <1>2, <1>3, ConcatProperties
  <2> HIDE DEF ab
  <2> QED BY <1>2, <1>3, <2>1
<1> HIDE DEF ab
<1>6. \A i \in 1..n : ab[i] = c[i]
  <2>1. ASSUME NEW i \in 1..n PROVE ab[i] = list[i]
    <3>0. i \in 1..m + (n - m)
      OBVIOUS
    <3>1. CASE i <= m
      <4>1. a[i] = list[i]
        BY <1>2, <3>1
      <4> QED BY <1>5, <3>0, <3>1, <4>1
    <3>2. CASE i > m
      <4>1. i - m \in 1..n - m /\ m + (i - m) = i
        BY <3>2
      <4>2. b[i - m] = list[i]
        BY <1>3, <4>1
      <4> QED BY <1>5, <3>0, <3>2, <4>2
    <3> QED BY <3>1, <3>2
  <2> QED BY <1>4, <2>1
<1>7. Len(ab) = n
  BY <1>5
<1>8. ab = c
  BY <1>4, <1>5, <1>6, <1>7, SeqEqual
<1> QED BY <1>8 DEF a, b, c, ab

-----------------------------------------------------------------------------
\* Steps.

\* What a list has depends on what was asked for, on the table and the day.
LEMMA SameList ==
  ASSUME NEW q, NEW r, NEW day, q.tab = r.tab, q.search = r.search, q.days = r.days
  PROVE  Matching(q, day) = Matching(r, day) /\ Listed(q, day) = Listed(r, day)
<1>1. Matching(q, day) = Matching(r, day)
  BY DEF Matching
<1> QED BY <1>1 DEF Listed, Place

LEMMA InvInit == ListingInit => ListingInv
<1> SUFFICES ASSUME ListingInit PROVE ListingInv
  OBVIOUS
<1>1. Stored = {} /\ table \in [Event -> {NoRow}]
  BY DEF ListingInit, Stored
<1>2. request.stage = "none" /\ ~ Shown /\ walk = Broken
  BY DEF ListingInit, NoRequest, Shown
<1>3. ListingTypeOK
  <2>1. today \in Day /\ {site, own} \subseteq 1..MaxPageSize \cup {Absent}
    BY ListingAssumption DEF ListingInit, Day
  <2>2. changed \in BOOLEAN
    BY DEF ListingInit
  <2> QED BY <1>1, <1>2, <2>1, <2>2 DEF ListingTypeOK
<1>4. StoreOK
  BY <1>1 DEF StoreOK
<1> QED BY <1>2, <1>3, <1>4
        DEF ListingInv, RequestOK, ViewOK, NextOK, PageExists, WalkSeesAll

\* Steps that change events or the day spoil the count and the walk.
LEMMA DisturbStep ==
  ASSUME ListingInv, Disturb, UNCHANGED <<site, own, request, view>>,
         ListingTypeOK', StoreOK'
  PROVE  ListingInv'
<1>1. walk' = Broken /\ changed' = TRUE
  BY DEF Disturb
<1> QED BY <1>1 DEF ListingInv, RequestOK, ViewOK, NextOK, PageExists, WalkSeesAll, Shown

LEMMA StoreStep ==
  ASSUME ListingInv, NEW e \in Event,
         Drop(e) \/ \E r \in RenditionsOf[e] : Write(e, r)
  PROVE  ListingInv'
<1> USE DEF ListingInv
<1>1. /\ Disturb
      /\ UNCHANGED <<today, site, own, request, view>>
      /\ table' = [table EXCEPT ![e] = table'[e]]
      /\ \/ table'[e] = NoRow
         \/ \E r \in RenditionsOf[e], seen \in 1..today :
              table'[e] = [start |-> r.start, end |-> r.end, hit |-> r.hit, seen |-> seen]
  <2>1. CASE Drop(e)
    BY <2>1 DEF Drop, StoreOK
  <2>2. ASSUME NEW r \in RenditionsOf[e], Write(e, r)
        PROVE  /\ Disturb
               /\ UNCHANGED <<today, site, own, request, view>>
               /\ table' = [table EXCEPT ![e] = table'[e]]
               /\ \E seen \in 1..today :
                    table'[e] = [start |-> r.start, end |-> r.end, hit |-> r.hit,
                                 seen |-> seen]
    <3> DEFINE seen == IF table[e] = NoRow THEN today ELSE table[e].seen
    <3>1. seen \in 1..today
      <4>1. today \in 1..today
        BY ListingAssumption DEF ListingTypeOK, Day
      <4>2. table[e] # NoRow => table[e].seen \in 1..today
        BY DEF ListingTypeOK, Stored
      <4> QED BY <4>1, <4>2
    <3>2. table' = [table EXCEPT ![e] =
                      [start |-> r.start, end |-> r.end, hit |-> r.hit, seen |-> seen]]
      BY <2>2 DEF Write
    <3> HIDE DEF seen
    <3> QED BY <2>2, <3>1, <3>2 DEF Write, StoreOK
  <2> QED BY <2>1, <2>2
<1>2. today \in Nat
  BY DEF ListingTypeOK, Day
<1>3. StoreOK'
  <2>1. table'[e] \in Row \cup {NoRow}
    <3>1. ASSUME NEW r \in RenditionsOf[e], NEW seen \in 1..today
          PROVE  [start |-> r.start, end |-> r.end, hit |-> r.hit, seen |-> seen] \in Row
      <4>1. r \in [start : Nat \cup {Absent}, end : Nat \cup {Absent}, hit : BOOLEAN]
        BY ListingAssumption
      <4>2. seen \in Nat \ {0}
        BY <1>2
      <4> QED BY <4>1, <4>2 DEF Row
    <3>2. CASE table'[e] = NoRow
      BY <3>2
    <3>3. ASSUME NEW r \in RenditionsOf[e], NEW seen \in 1..today,
                 table'[e] = [start |-> r.start, end |-> r.end, hit |-> r.hit, seen |-> seen]
          PROVE  table'[e] \in Row
      BY <3>1, <3>3
    <3> QED BY <1>1, <3>2, <3>3
  <2> QED BY <1>1, <2>1 DEF StoreOK
<1>4. ASSUME NEW d \in Stored'
      PROVE  /\ [start |-> table'[d].start, end |-> table'[d].end, hit |-> table'[d].hit]
                  \in RenditionsOf[d]
             /\ table'[d].seen \in 1..today'
  <2>1. CASE d = e
    <3>1. PICK r \in RenditionsOf[e], seen \in 1..today :
            table'[e] = [start |-> r.start, end |-> r.end, hit |-> r.hit, seen |-> seen]
      BY <1>1, <2>1 DEF Stored, NoRow
    <3>2. r \in [start : Nat \cup {Absent}, end : Nat \cup {Absent}, hit : BOOLEAN]
      BY ListingAssumption
    <3>3. r = [start |-> r.start, end |-> r.end, hit |-> r.hit]
      BY <3>2
    <3> QED BY <1>1, <2>1, <3>1, <3>3
  <2>2. CASE d # e
    <3>1. d \in Stored /\ table'[d] = table[d]
      BY <1>1, <2>2 DEF Stored, NoRow, StoreOK
    <3> QED BY <1>1, <3>1 DEF ListingTypeOK
  <2> QED BY <2>1, <2>2
<1>5. ListingTypeOK'
  BY <1>1, <1>4 DEF ListingTypeOK, Shown, Disturb
<1> QED BY <1>1, <1>3, <1>5, DisturbStep

LEMMA MidnightStep ==
  ASSUME ListingInv, Midnight
  PROVE  ListingInv'
<1> USE DEF ListingInv
<1>1. today \in Nat /\ today' \in Day /\ today' = today + 1
  BY ListingAssumption DEF Midnight, ListingTypeOK, Day
<1>2. UNCHANGED <<table, site, own, request, view>> /\ Disturb
  BY DEF Midnight
<1>3. StoreOK'
  BY <1>2 DEF StoreOK
<1>4. ASSUME NEW e \in Stored PROVE table[e].seen \in 1..today'
  <2>1. table[e].seen \in 1..today
    BY DEF ListingTypeOK
  <2> QED BY <1>1, <2>1
<1>5. ListingTypeOK'
  BY <1>1, <1>2, <1>4 DEF ListingTypeOK, Stored, Shown, Disturb
<1> QED BY <1>2, <1>3, <1>5, DisturbStep

LEMMA SettingStep ==
  ASSUME ListingInv,
         DropPreference \/ \E n \in Saved : SaveSettings(n) \/ SavePreference(n)
  PROVE  ListingInv'
<1>1. /\ UNCHANGED <<table, today, request, view, walk, changed>>
      /\ {site', own'} \subseteq 1..MaxPageSize \cup {Absent}
  BY ListingAssumption
     DEF ListingInv, ListingTypeOK, DropPreference, SaveSettings, SavePreference
<1>2. ListingTypeOK'
  BY <1>1 DEF ListingInv, ListingTypeOK, Stored, Shown
<1>3. /\ StoreOK' = StoreOK /\ RequestOK' = RequestOK /\ Shown' = Shown
      /\ PageExists' = PageExists
  BY <1>1 DEF StoreOK, RequestOK, Shown, PageExists, Matching, Stored
<1>4. ViewOK'
  BY <1>1 DEF ListingInv, ViewOK, Shown, Matching, Stored
<1>5. \A q : /\ Matching(q, today)' = Matching(q, today)
             /\ Listed(q, today)' = Listed(q, today)
  BY <1>1 DEF Matching, Listed, Place, Before, Stored
<1>6. NextOK' /\ WalkSeesAll'
  BY <1>1, <1>5 DEF ListingInv, NextOK, SeenBefore, WalkSeesAll, Shown
<1> QED BY <1>2, <1>3, <1>4, <1>6 DEF ListingInv

\* A size that reaches a query is in its bounds.
LEMMA SizeType ==
  ASSUME ListingTypeOK, request.size \in Int
  PROVE  /\ SizeOf(request) \in 1..MaxPageSize
         /\ request.size \in 1..MaxPageSize => SizeOf(request) = request.size
<1>1. DefaultSize \in 1..MaxPageSize
  BY ListingAssumption DEF ListingTypeOK, DefaultSize
<1>2. ASSUME NEW n \in Int
      PROVE  /\ NormalSize(n) \in 1..MaxPageSize
             /\ n \in 1..MaxPageSize => NormalSize(n) = n
  BY ListingAssumption DEF NormalSize, Within, Upper, Lower
<1> QED BY <1>1, <1>2, ListingAssumption DEF SizeOf

LEMMA DaysType ==
  ASSUME NEW n \in Int
  PROVE  NormalDays(n) \in 1..365 /\ (n \in 1..365 => NormalDays(n) = n)
  BY DEF NormalDays, Within, Upper, Lower

\* A request for another page than the next.
LEMMA AskStep ==
  ASSUME ListingInv, NEW tab \in Tab, NEW search \in BOOLEAN, NEW page \in Int,
         NEW size \in Int, NEW days \in Int, NEW next \in BOOLEAN,
         Ask(tab, search, page, size, days, next),
         walk # Broken /\ next => NextOK'
  PROVE  ListingInv'
<1>1. /\ request' = [stage |-> "count", tab |-> tab, search |-> search, page |-> page,
                     size |-> size, days |-> NormalDays(days), next |-> next]
      /\ view' = NoView
      /\ UNCHANGED <<table, today, site, own, walk, changed>>
  BY DEF Ask
<1>2. /\ request'.stage = "count" /\ request'.tab = tab /\ request'.search = search
      /\ request'.page = page /\ request'.size = size
      /\ request'.days = NormalDays(days) /\ request'.next = next
  BY <1>1
<1>3. ~ Shown'
  BY <1>1 DEF Shown
<1>4. ListingTypeOK'
  BY <1>1, <1>2, <1>3, DaysType DEF ListingInv, ListingTypeOK, Stored
<1>5. RequestOK' /\ StoreOK'
  BY <1>1, <1>2 DEF ListingInv, RequestOK, StoreOK
<1>6. NextOK'
  BY <1>1, <1>2 DEF NextOK
<1> QED BY <1>3, <1>4, <1>5, <1>6 DEF ListingInv, ViewOK, PageExists, WalkSeesAll

LEMMA FollowStep ==
  ASSUME ListingInv, NEW step \in {-1, 1}, Follow(step)
  PROVE  ListingInv'
<1> DEFINE page == view.page + step
           count == Cardinality(Matching(view, today))
<1> USE DEF ListingInv
<1>1. /\ Shown /\ page \in 1..view.pages
      /\ Ask(view.tab, view.search, page, view.size, view.days, step = 1)
  BY DEF Follow
<1>2. /\ view.tab \in Tab /\ view.search \in BOOLEAN /\ view.days \in 1..365
      /\ view.size \in 1..MaxPageSize /\ view.total \in Nat
      /\ view.pages = PagesOf(view.total, view.size) /\ view.page \in 1..view.pages
      /\ view.pages \in Nat \ {0}
  <2>1. view.size \in Nat \ {0} /\ view.total \in Nat
    BY <1>1, ListingAssumption DEF ViewOK
  <2>2. PagesOf(view.total, view.size) \in Nat \ {0}
    BY <2>1, PagesType
  <2> QED BY <1>1, <2>1, <2>2 DEF ListingTypeOK, ViewOK, PageExists
<1>3. page \in Int /\ view.size \in Int /\ view.days \in Int
  BY <1>2, ListingAssumption
<1>4. ASSUME walk # Broken, step = 1 PROVE NextOK'
  <2>1. /\ request' = [stage |-> "count", tab |-> view.tab, search |-> view.search,
                       page |-> page, size |-> view.size,
                       days |-> NormalDays(view.days), next |-> TRUE]
        /\ UNCHANGED <<table, today, walk>>
    BY <1>1, <1>4 DEF Ask
  <2>2. /\ request'.stage = "count" /\ request'.tab = view.tab
        /\ request'.search = view.search /\ request'.page = page
        /\ request'.size = view.size /\ request'.days = view.days
    BY <1>2, <2>1, DaysType
  <2>3. /\ Matching(request', today) = Matching(view, today)
        /\ Listed(request', today) = Listed(view, today)
    BY <2>2, SameList
  <2>4. /\ Cardinality(Matching(request, today))' = count
        /\ SeenBefore(request)' = SubSeq(Listed(view, today), 1, (page - 1) * view.size)
    <3>1. /\ Matching(request, today)' = Matching(request', today)
          /\ Listed(request, today)' = Listed(request', today)
      BY <2>1 DEF Matching, Listed, Place, Before, Stored
    <3> QED BY <2>2, <2>3, <3>1 DEF SeenBefore
  <2>5. view.total = count
    BY <1>1, <1>4 DEF ViewOK
  <2>6. Lower(view.page * view.size, view.total) = (page - 1) * view.size
    <3>1. /\ view.size \in Nat \ {0} /\ view.page \in Nat \ {0}
          /\ page \in 1..PagesOf(view.total, view.size)
      BY <1>1, <1>2, ListingAssumption
    <3>2. (page - 1) * view.size \in Nat /\ page # 1
          /\ (view.total > 0 => (page - 1) * view.size < view.total)
          /\ view.total # 0
      <4>1. page # 1
        BY <1>2, <1>4
      <4> HIDE DEF page
      <4>2. /\ (page - 1) * view.size \in Nat
            /\ view.total > 0 => (page - 1) * view.size < view.total
            /\ view.total = 0 => page = 1
        BY <1>2, <3>1, PageBegins
      <4> QED BY <4>1, <4>2
    <3>3. page - 1 = view.page
      BY <1>4, <3>1
    <3> QED BY <1>2, <3>2, <3>3 DEF Lower
  <2>7. walk = SubSeq(Listed(view, today), 1, (page - 1) * view.size)
    BY <1>1, <1>4, <2>6 DEF WalkSeesAll
  <2>8. page # 1
    BY <1>2, <1>4
  <2>9. walk' = SeenBefore(request)'
    BY <2>1, <2>4, <2>7
  <2>10. request'.page \in 1..PagesOf(Cardinality(Matching(request, today)), request.size)'
    BY <1>1, <1>2, <2>2, <2>4, <2>5
  <2> HIDE DEF page, count
  <2> QED BY <1>2, <2>2, <2>8, <2>9, <2>10 DEF NextOK
<1> HIDE DEF page
<1> QED BY <1>1, <1>2, <1>3, <1>4, AskStep

LEMMA CountStep ==
  ASSUME ListingInv, Count
  PROVE  ListingInv'
<1> DEFINE size == SizeOf(request)
           total == Cardinality(Matching(request, today))
           pages == PagesOf(total, size)
           page == CurrentPage(request.page, pages)
<1> USE DEF ListingInv
<1>1. /\ request.stage = "count"
      /\ request' = [stage |-> "read", tab |-> request.tab, search |-> request.search,
                     days |-> request.days, next |-> request.next, day |-> today,
                     size |-> size, total |-> total, pages |-> pages, page |-> page]
      /\ changed' = FALSE
      /\ UNCHANGED <<table, today, site, own, view, walk>>
  BY DEF Count
<1>2. /\ request.tab \in Tab /\ request.search \in BOOLEAN /\ request.page \in Int
      /\ request.next \in BOOLEAN /\ request.size \in Int /\ request.days \in 1..365
      /\ today \in Nat
  BY <1>1 DEF ListingTypeOK, RequestOK, Day
<1>3. size \in 1..MaxPageSize /\ (request.size \in 1..MaxPageSize => size = request.size)
  BY <1>2, SizeType
<1>4. total \in Nat /\ pages \in Nat \ {0}
  <2>1. total \in Nat
    BY MatchingFinite
  <2>2. size \in Nat \ {0}
    BY <1>3, ListingAssumption
  <2> HIDE DEF size, total
  <2> QED BY <2>1, <2>2, PagesType
<1>5. page \in 1..pages /\ (request.page \in 1..pages => page = request.page)
  <2> HIDE DEF pages
  <2> QED BY <1>2, <1>4 DEF CurrentPage, Lower, Upper
<1>6. /\ request'.stage = "read" /\ request'.tab = request.tab
      /\ request'.search = request.search /\ request'.days = request.days
      /\ request'.next = request.next /\ request'.day = today /\ request'.size = size
      /\ request'.total = total /\ request'.pages = pages /\ request'.page = page
  <2> HIDE DEF size, total, pages, page
  <2> QED BY <1>1
<1> HIDE DEF size, pages, page
<1>7. \A q : /\ Matching(q, today)' = Matching(q', today)
             /\ Listed(q, today)' = Listed(q', today)
  BY <1>1 DEF Matching, Listed, Place, Before, Stored
<1>8. /\ Matching(request, today)' = Matching(request, today)
      /\ Listed(request, today)' = Listed(request, today)
  <2>1. /\ Matching(request', today) = Matching(request, today)
        /\ Listed(request', today) = Listed(request, today)
    BY <1>6, SameList
  <2>2. /\ Matching(request, today)' = Matching(request', today)
        /\ Listed(request, today)' = Listed(request', today)
    BY <1>1 DEF Matching, Listed, Place, Before, Stored
  <2> QED BY <2>1, <2>2
<1>9. Shown' = Shown
  BY <1>1 DEF Shown
<1>10. ListingTypeOK'
  BY <1>1, <1>2, <1>3, <1>6, <1>9 DEF ListingTypeOK, Stored
<1>11. StoreOK' /\ PageExists' /\ ViewOK'
  BY <1>1, <1>9 DEF StoreOK, PageExists, ViewOK, Matching, Stored
<1>12. RequestOK'
  BY <1>1, <1>2, <1>4, <1>5, <1>6, <1>8 DEF RequestOK, pages
<1>13. WalkSeesAll'
  <2>1. Listed(view, today)' = Listed(view, today)
    BY <1>1 DEF Matching, Listed, Place, Before, Stored
  <2> QED BY <1>1, <1>9, <2>1 DEF WalkSeesAll
<1>14. NextOK'
  <2>1. SUFFICES ASSUME walk # Broken, request.next
                 PROVE  /\ size \in 1..MaxPageSize /\ page # 1 /\ page \in 1..pages
                        /\ walk = SeenBefore(request)'
    BY <1>1, <1>6, <1>8 DEF NextOK, pages
  <2>2. /\ request.size \in 1..MaxPageSize /\ request.page # 1
        /\ request.page \in 1..PagesOf(total, request.size)
        /\ walk = SeenBefore(request)
    BY <1>1, <2>1 DEF NextOK
  <2>3. size = request.size /\ page = request.page
    BY <1>3, <1>5, <2>2 DEF pages
  <2>4. SeenBefore(request)' = SeenBefore(request)
    BY <1>6, <1>8, <2>3 DEF SeenBefore
  <2> QED BY <1>3, <1>5, <2>2, <2>3, <2>4
<1> QED BY <1>10, <1>11, <1>12, <1>13, <1>14

LEMMA ShowStep ==
  ASSUME ListingInv, Show
  PROVE  ListingInv'
<1> DEFINE page == request.page
           size == request.size
           total == request.total
           rows == PageRows(request, page, size, request.day)
           list == Listed(request, request.day)
           from == (page - 1) * size
           to == Lower(page * size, Len(list))
<1> USE DEF ListingInv
<1>1. /\ request.stage = "read"
      /\ view' = [tab |-> request.tab, search |-> request.search, days |-> request.days,
                  size |-> size, total |-> total, page |-> page, pages |-> request.pages,
                  rows |-> rows, torn |-> changed]
      /\ walk' = Walked(rows)
      /\ request' = NoRequest
      /\ UNCHANGED <<table, today, site, own, changed>>
  BY DEF Show
<1>2. /\ request.tab \in Tab /\ request.search \in BOOLEAN /\ request.next \in BOOLEAN
      /\ request.days \in 1..365 /\ size \in 1..MaxPageSize /\ total \in Nat
      /\ request.day \in Nat
      /\ request.pages = PagesOf(total, size) /\ page \in 1..request.pages
      /\ ~ changed => request.day = today /\ total = Cardinality(Matching(request, today))
  BY <1>1 DEF ListingTypeOK, RequestOK
<1>3. /\ size \in Nat \ {0} /\ page \in Nat \ {0} /\ page \in 1..PagesOf(total, size)
      /\ PagesOf(total, size) \in Nat \ {0}
  <2> HIDE DEF page, size, total
  <2>1. size \in Nat \ {0}
    BY <1>2, ListingAssumption
  <2>2. PagesOf(total, size) \in Nat \ {0}
    BY <1>2, <2>1, PagesType
  <2> QED BY <1>2, <2>1, <2>2
<1>4. /\ rows = SubSeq(list, from + 1, to)
      /\ from \in Nat /\ to \in Nat /\ rows \in Seq(Event)
      /\ Len(rows) = IF from < to THEN to - from ELSE 0
      /\ Len(rows) <= size
  <2> HIDE DEF page, size
  <2>1. StoreOK
    OBVIOUS
  <2> HIDE DEF ListingInv
  <2>2. /\ request.tab \in Tab /\ request.day \in Nat
        /\ size \in Nat \ {0} /\ page \in Nat \ {0}
    BY <1>2, <1>3
  <2> QED BY <2>1, <2>2, RowsOfPage
<1>5. /\ from \in Nat /\ page * size = from + size
      /\ total > 0 => from < total
      /\ total = 0 => page = 1
  BY <1>2, <1>3, PageBegins
<1>6. /\ list \in Seq(Event) /\ Len(list) \in Nat
      /\ ~ changed => Len(list) = total
  <2>1. /\ Len(list) = Cardinality(Matching(request, request.day))
        /\ list \in Seq(Event) /\ Len(list) \in Nat
    <3>1. StoreOK /\ request.tab \in Tab /\ request.day \in Nat
      BY <1>2
    <3> HIDE DEF ListingInv
    <3> QED BY <3>1, ListedType
  <2> HIDE DEF list, total
  <2> QED BY <1>2, <2>1
<1>7. /\ view'.tab = request.tab /\ view'.search = request.search
      /\ view'.days = request.days /\ view'.size = size /\ view'.total = total
      /\ view'.page = page /\ view'.pages = request.pages
      /\ view'.rows = rows /\ view'.torn = changed
      /\ request'.stage = "none"
  <2> HIDE DEF page, size, total, rows
  <2> QED BY <1>1 DEF NoRequest
<1>8. walk' # Broken => /\ ~ changed
                        /\ \/ page = 1 /\ walk' = rows
                           \/ request.next /\ walk # Broken /\ walk' = walk \o rows
  BY <1>1 DEF Walked
<1> HIDE DEF page, size, total, rows, list, from, to
<1>9. StoreOK' /\ RequestOK' /\ NextOK'
  BY <1>1, <1>7 DEF StoreOK, RequestOK, NextOK
<1>10. walk' = Broken \/ walk' \in Seq(Event)
  <2>1. walk # Broken => walk \in Seq(Event)
    BY DEF ListingTypeOK
  <2>2. walk # Broken => walk \o rows \in Seq(Event)
    BY <1>4, <2>1, ConcatProperties
  <2> QED BY <1>4, <1>8, <2>2
<1>11. ListingTypeOK'
  BY <1>1, <1>2, <1>4, <1>7, <1>10 DEF ListingTypeOK, Stored
<1>12. ~ changed => /\ Matching(view, today)' = Matching(request, today)
                    /\ Listed(view, today)' = list
  <2>1. /\ Matching(view', today) = Matching(request, today)
        /\ Listed(view', today) = Listed(request, today)
    BY <1>7, SameList
  <2>2. /\ Matching(view, today)' = Matching(view', today)
        /\ Listed(view, today)' = Listed(view', today)
    BY <1>1 DEF Matching, Listed, Place, Before, Stored
  <2> QED BY <1>2, <2>1, <2>2 DEF list
<1>13. ViewOK'
  BY <1>2, <1>7, <1>8, <1>12 DEF ViewOK
<1>14. ~ changed => to = Lower(page * size, total) /\ to <= total
                    /\ (total > 0 => from < to)
  <2>1. page * size \in Nat /\ (from + size) > from
    BY <1>3, <1>5
  <2> QED BY <1>2, <1>3, <1>5, <1>6, <2>1 DEF to, Lower
<1>15. PageExists'
  <2>1. Len(view'.rows) <= view'.size /\ view'.page \in 1..view'.pages
    BY <1>2, <1>4, <1>7
  <2>2. ASSUME ~ changed
        PROVE  /\ rows = <<>> <=> total = 0
               /\ total > 0 => Len(rows) = LastShown(view)' - FirstShown(view)' + 1
    <3>1. Len(rows) = 0 <=> total = 0
      BY <1>2, <1>4, <1>5, <1>14, <2>2
    <3>2. rows = <<>> <=> Len(rows) = 0
      BY <1>4, EmptySeq
    <3>3. ASSUME total > 0 PROVE Len(rows) = LastShown(view)' - FirstShown(view)' + 1
      <4>1. Len(rows) = to - from /\ from + Len(rows) = to
        BY <1>4, <1>14, <2>2, <3>3
      <4>2. LastShown(view)' = Lower(from + Len(rows), total)
        BY <1>7 DEF LastShown, from
      <4>3. LastShown(view)' = to
        BY <1>2, <1>4, <1>14, <2>2, <4>1, <4>2 DEF Lower
      <4>4. FirstShown(view)' = from + 1
        BY <1>2, <1>7, <3>3 DEF FirstShown, from
      <4> QED BY <1>4, <4>1, <4>3, <4>4
    <3> QED BY <3>1, <3>2, <3>3
  <2> QED BY <1>7, <2>1, <2>2 DEF PageExists
<1>16. WalkSeesAll'
  <2>1. SUFFICES ASSUME walk' # Broken PROVE walk' = SubSeq(list, 1, to)
    <3>1. /\ Lower(view.page * view.size, view.total)' = Lower(page * size, total)
      BY <1>7
    <3> QED BY <1>8, <1>12, <1>14, <2>1, <3>1 DEF WalkSeesAll
  <2>2. CASE page = 1 /\ walk' = rows
    <3>1. from = 0
      BY <1>3, <2>2 DEF from
    <3> QED BY <1>4, <2>2, <3>1
  <2>3. CASE request.next /\ walk # Broken /\ walk' = walk \o rows
    <3>1. page # 1 /\ walk = SubSeq(list, 1, from)
      BY <1>1, <1>2, <1>8, <2>1, <2>3 DEF NextOK, SeenBefore, list, from, page, size
    <3>2. total > 0
      BY <1>2, <1>5, <3>1
    <3>3. from <= to /\ to <= Len(list)
      BY <1>2, <1>4, <1>6, <1>8, <1>14, <2>1, <3>2
    <3> QED BY <1>4, <1>6, <2>3, <3>1, <3>3, PartsFit
  <2> QED BY <1>8, <2>1, <2>2, <2>3
<1> QED BY <1>9, <1>11, <1>13, <1>15, <1>16

LEMMA InvStep == ListingInv /\ [ListingNext]_listingVars => ListingInv'
<1> SUFFICES ASSUME ListingInv, [ListingNext]_listingVars PROVE ListingInv'
  OBVIOUS
<1>1. CASE \E e \in Event : Drop(e) \/ \E r \in RenditionsOf[e] : Write(e, r)
  BY <1>1, StoreStep
<1>2. CASE Midnight
  BY <1>2, MidnightStep
<1>3. CASE DropPreference \/ \E n \in Saved : SaveSettings(n) \/ SavePreference(n)
  BY <1>3, SettingStep
<1>4. ASSUME NEW tab \in Tab, NEW search \in BOOLEAN, NEW a \in Asked,
             OpenAddress(tab, search, a)
      PROVE  ListingInv'
  <2>1. a.page \in Int /\ a.size \in Int /\ a.days \in Int
    BY ListingAssumption
  <2>2. Ask(tab, search, a.page, a.size, a.days, FALSE)
    BY <1>4 DEF OpenAddress
  <2> QED BY <2>1, <2>2, AskStep
<1>5. ASSUME NEW search \in BOOLEAN, Search(search) PROVE ListingInv'
  <2>1. Shown /\ Ask(view.tab, search, 1, view.size, view.days, FALSE)
    BY <1>5 DEF Search
  <2>2. view.tab \in Tab /\ view.size \in 1..MaxPageSize /\ view.days \in 1..365
    BY <2>1 DEF ListingInv, ListingTypeOK, ViewOK
  <2>3. view.size \in Int /\ view.days \in Int
    BY <2>2, ListingAssumption
  <2>4. view.tab \in Tab /\ 1 \in Int /\ FALSE \in BOOLEAN
    BY <2>2
  <2> QED BY <2>1, <2>3, <2>4, AskStep
<1>6. CASE \E step \in {-1, 1} : Follow(step)
  BY <1>6, FollowStep
<1>7. CASE Count
  BY <1>7, CountStep
<1>8. CASE Show
  BY <1>8, ShowStep
<1>9. CASE UNCHANGED listingVars
  <2>1. UNCHANGED <<table, today, site, own, request, view, walk, changed>>
    BY <1>9 DEF listingVars
  <2>2. \A q : /\ Matching(q, today)' = Matching(q, today)
               /\ Listed(q, today)' = Listed(q, today)
    BY <2>1 DEF Matching, Listed, Place, Before, Stored
  <2>3. ListingTypeOK' /\ StoreOK' /\ RequestOK' /\ PageExists'
    BY <2>1, <2>2
       DEF ListingInv, ListingTypeOK, StoreOK, RequestOK, PageExists, Stored, Shown
  <2>4. ViewOK' /\ NextOK' /\ WalkSeesAll'
    BY <2>1, <2>2 DEF ListingInv, ViewOK, NextOK, SeenBefore, WalkSeesAll, Shown
  <2> QED BY <2>3, <2>4 DEF ListingInv
<1>10. ASSUME ListingNext
       PROVE  \/ \E e \in Event : Drop(e) \/ \E r \in RenditionsOf[e] : Write(e, r)
              \/ Midnight
              \/ DropPreference \/ \E n \in Saved : SaveSettings(n) \/ SavePreference(n)
              \/ \E tab \in Tab, search \in BOOLEAN, a \in Asked : OpenAddress(tab, search, a)
              \/ \E search \in BOOLEAN : Search(search)
              \/ \E step \in {-1, 1} : Follow(step)
              \/ Count
              \/ Show
  BY <1>10, Zenon DEF ListingNext
<1> QED BY <1>1, <1>2, <1>3, <1>4, <1>5, <1>6, <1>7, <1>8, <1>9, <1>10

LEMMA ListingHolds == ListingSpec => []ListingInv
<1>1. ListingInit => ListingInv
  BY InvInit
<1>2. ListingInv /\ [ListingNext]_listingVars => ListingInv'
  BY InvStep
<1> QED BY <1>1, <1>2, PTL DEF ListingSpec

\* Whatever is typed into an address, the window and the size that reach
\* query_events are within their bounds, for every table of events.
THEOREM ListingTypeCorrect == ListingSpec => []ListingTypeOK
<1>1. ListingInv => ListingTypeOK
  BY DEF ListingInv
<1>2. ListingSpec => []ListingInv
  BY ListingHolds
<1> QED BY <1>1, <1>2, PTL

\* query_events clamps the page to the count, and the read may see another
\* table: the page shown exists, and its footer is true unless the table
\* changed in between.
THEOREM PagesExist == ListingSpec => []PageExists
<1>1. ListingInv => PageExists
  BY DEF ListingInv
<1>2. ListingSpec => []ListingInv
  BY ListingHolds
<1> QED BY <1>1, <1>2, PTL

\* Links carry the page size: whoever follows them from the first page on has
\* seen the list up to the current page, each event once and in order.
THEOREM WalksSeeAll == ListingSpec => []WalkSeesAll
<1>1. ListingInv => WalkSeesAll
  BY DEF ListingInv
<1>2. ListingSpec => []ListingInv
  BY ListingHolds
<1> QED BY <1>1, <1>2, PTL

\* list_events_on_date has what started earlier and goes on: every event that
\* is not over is in the tab of upcoming events or on the page of today.
THEOREM NothingBetweenTheLists == ListingSpec => []StillReachable
<1>1. ListingInv => StillReachable
  <2> DEFINE last(e) == IF table[e].end = Absent THEN table[e].start ELSE table[e].end
             q == [tab |-> "upcoming", search |-> FALSE]
  <2>1. SUFFICES ASSUME ListingInv, NEW e \in Stored,
                        table[e].start # Absent, last(e) >= today
                 PROVE  e \in Matching(q, today) \/ e \in OnDate(today)
    BY DEF StillReachable
  <2>2. today \in Nat
    BY <2>1 DEF ListingInv, ListingTypeOK, Day
  <2>3. table[e].start \in Nat /\ table[e].end \in Nat \cup {Absent}
    BY <2>1, RowIsStored DEF ListingInv, Stored
  <2>4. q.tab = "upcoming" /\ q.search = FALSE
    OBVIOUS
  <2>5. CASE table[e].start >= today
    BY <2>1, <2>4, <2>5 DEF Matching
  <2>6. CASE ~ (table[e].start >= today)
    <3>1. table[e].end # Absent /\ table[e].end >= today
      BY <2>1, <2>6
    <3>2. table[e].end \in Nat /\ table[e].start <= today
      BY <2>2, <2>3, <2>6, <3>1
    <3> QED BY <2>1, <2>2, <2>3, <3>1, <3>2 DEF OnDate
  <2> QED BY <2>5, <2>6
<1>2. ListingSpec => []ListingInv
  BY ListingHolds
<1> QED BY <1>1, <1>2, PTL

\* A list has every event that the view selects, in its order and once.
THEOREM ListIsComplete ==
  ASSUME StoreOK, NEW q, q.tab \in Tab, NEW day \in Nat
  PROVE  LET list == Listed(q, day) IN
         /\ \A e \in Matching(q, day) : \E k \in 1..Len(list) : list[k] = e
         /\ \A k, l \in 1..Len(list) :
              k < l => Before(q.tab, list[k], list[l]) /\ list[k] # list[l]
<1> DEFINE M == Matching(q, day)
           n == Cardinality(M)
           list == Listed(q, day)
<1>1. /\ n \in Nat /\ Len(list) = n
      /\ \A k \in 1..n : list[k] \in M /\ Place(q, day, list[k]) = k
  BY ListedType
<1>2. \A e \in M : Place(q, day, e) \in 1..n
  BY Places
<1>6. \A d, e \in M : Before(q.tab, d, e) => Place(q, day, d) < Place(q, day, e)
  BY Places
<1>7. \A d, e \in M : Place(q, day, d) = Place(q, day, e) => d = e
  BY Places
<1>3. \A d, e \in M : d # e => Before(q.tab, d, e) \/ Before(q.tab, e, d)
  BY BeforeOrders
<1> HIDE DEF M, n, list
<1>4. ASSUME NEW e \in M PROVE \E k \in 1..n : list[k] = e
  <2>1. PICK k \in 1..n : Place(q, day, e) = k
    BY <1>2
  <2>2. PICK d \in M : list[k] = d /\ Place(q, day, d) = k
    BY <1>1
  <2>3. d = e
    BY <1>7, <2>1, <2>2
  <2> QED BY <2>2, <2>3
<1>5. ASSUME NEW k \in 1..n, NEW l \in 1..n, k < l
      PROVE  Before(q.tab, list[k], list[l]) /\ list[k] # list[l]
  <2>1. PICK d \in M : list[k] = d /\ Place(q, day, d) = k
    BY <1>1
  <2>2. PICK e \in M : list[l] = e /\ Place(q, day, e) = l
    BY <1>1
  <2>3. d # e /\ k \in Nat /\ l \in Nat
    BY <1>1, <1>5, <2>1, <2>2
  <2>4. ~ Before(q.tab, e, d)
    <3>1. Before(q.tab, e, d) => Place(q, day, e) < Place(q, day, d)
      BY <1>6
    <3> QED BY <1>5, <2>1, <2>2, <2>3, <3>1
  <2>5. Before(q.tab, d, e)
    BY <1>3, <2>3, <2>4
  <2> QED BY <2>1, <2>2, <2>3, <2>5
<1> QED BY <1>1, <1>4, <1>5 DEF M, n, list

\* The last page ends at or after the end of the list.
LEMMA PagesReachTheEnd ==
  ASSUME NEW total \in Nat, NEW size \in Nat \ {0}
  PROVE  Lower(PagesOf(total, size) * size, total) = total
<1> DEFINE k == (total + size - 1) \div size
<1>1. k \in Nat /\ total + size - 1 < (k + 1) * size /\ (k + 1) * size = k * size + size
  BY SMT
<1>2. PagesOf(total, size) = Upper(1, k)
  BY DEF PagesOf
<1> HIDE DEF k
<1>3. k <= PagesOf(total, size) /\ PagesOf(total, size) \in Nat
  BY <1>1, <1>2, BoundsType
<1>4. k * size \in Nat /\ k * size <= PagesOf(total, size) * size
  BY <1>1, <1>3, Smaller
<1>5. PagesOf(total, size) * size \in Nat
  BY <1>3, SMT
<1>6. total <= k * size
  BY <1>1, <1>4
<1> QED BY <1>4, <1>5, <1>6 DEF Lower

\* Whoever has followed the links from the first page to the last one, while
\* nothing changed, has seen every event that the view selects, and none twice.
SeenToTheEnd ==
  Shown /\ walk # Broken /\ view.page = view.pages =>
    /\ \A e \in Matching(view, today) : \E k \in 1..Len(walk) : walk[k] = e
    /\ \A k, l \in 1..Len(walk) : k < l => walk[k] # walk[l]

\* query_events cuts the list by LIMIT and OFFSET, and the number of pages is
\* rounded up: the last page leaves no event out.
THEOREM WholeListSeen == ListingSpec => []SeenToTheEnd
<1>1. ListingInv => SeenToTheEnd
  <2>1. SUFFICES ASSUME ListingInv, Shown, walk # Broken, view.page = view.pages
                 PROVE  /\ \A e \in Matching(view, today) :
                             \E k \in 1..Len(walk) : walk[k] = e
                        /\ \A k, l \in 1..Len(walk) : k < l => walk[k] # walk[l]
    BY DEF SeenToTheEnd
  <2> DEFINE list == Listed(view, today)
  <2>2. /\ StoreOK /\ view.tab \in Tab /\ today \in Nat
        /\ view.total \in Nat /\ view.size \in Nat \ {0}
    BY <2>1 DEF ListingInv, ListingTypeOK, ViewOK, Day
  <2>3. /\ view.pages = PagesOf(view.total, view.size)
        /\ view.total = Cardinality(Matching(view, today))
        /\ walk = SubSeq(list, 1, Lower(view.page * view.size, view.total))
    BY <2>1 DEF ListingInv, ViewOK, WalkSeesAll
  <2>4. list \in Seq(Event) /\ Len(list) = view.total
    BY <2>2, <2>3, ListedType
  <2>5. Lower(view.page * view.size, view.total) = view.total
    BY <2>1, <2>2, <2>3, PagesReachTheEnd
  <2>6. /\ \A e \in Matching(view, today) : \E k \in 1..Len(list) : list[k] = e
        /\ \A k, l \in 1..Len(list) : k < l => list[k] # list[l]
    BY <2>2, ListIsComplete
  <2> HIDE DEF list
  <2>7. Len(walk) = Len(list) /\ \A k \in 1..Len(list) : walk[k] = list[k]
    BY <2>3, <2>4, <2>5
  <2> QED BY <2>6, <2>7
<1>2. ListingSpec => []ListingInv
  BY ListingHolds
<1> QED BY <1>1, <1>2, PTL
=============================================================================
