---------------------------- MODULE SyncControl ----------------------------
(***************************************************************************)
(* The synchronisations inside one web process (webapp.py): the scheduled  *)
(* loop, the manual syncs whose progress is streamed to a page, and the    *)
(* lock they share.  A manual sync runs in a daemon thread and talks to    *)
(* its stream through a queue; the page may go away while the thread goes  *)
(* on.  What a sync does is SourceSync; here it only ends well or badly.   *)
(***************************************************************************)
EXTENDS Naturals, Sequences

CONSTANTS
  Page,       \* pages that ask for a manual sync, again and again
  Scheduled,  \* the scheduled sync
  Interval,   \* whether there is an interval, that is, a scheduled loop
  MaxQueue,   \* bound: how many progress updates wait in a queue
  None        \* nobody synchronises

ASSUME ConstantsAssumption ==
  /\ Scheduled \notin Page
  /\ None \notin Page \cup {Scheduled}
  /\ Interval \in BOOLEAN
  /\ MaxQueue \in Nat

VARIABLES
  web,      \* the process: "up", "stopping" or "down"
  loop,     \* the scheduled loop: "waiting", "syncing" or "stopped"
  locked,   \* _SYNC_LOCK
  thread,   \* per asker: where the thread of its sync is
  outcome,  \* per asker: how its latest sync ended
  queue,    \* per page: the updates that its stream has not read
  stream,   \* per page: where the generator of its stream is
  failure,  \* per page: the failure that the generator has read
  told      \* per page: the last state that the page was sent

vars == <<web, loop, locked, thread, outcome, queue, stream, failure, told>>

Asker == Page \cup {Scheduled}

\* SyncInProgressError; SyncError or a request error; any other exception.
Failure == {"busy", "failed", "broken"}
Outcome == Failure \cup {"none", "synced"}
Update == Failure \cup {"progress", "finished"}

ThreadStage == {"none", "start", "syncing", "failed", "finish"}
StreamStage == {"gone", "opening", "reading", "report", "closed"}

TypeOK ==
  /\ web \in {"up", "stopping", "down"}
  /\ loop \in {"waiting", "syncing", "stopped"}
  /\ locked \in BOOLEAN
  /\ thread \in [Asker -> ThreadStage]
  /\ outcome \in [Asker -> Outcome]
  /\ \A s \in Asker : thread[s] = "failed" => outcome[s] \in Failure
  /\ queue \in [Page -> Seq(Update)]
  /\ stream \in [Page -> StreamStage]
  /\ failure \in [Page -> Failure \cup {"none"}]
  /\ told \in [Page -> {"syncing", "synced", "busy", "failed"}]

FreshLoop == IF Interval THEN "waiting" ELSE "stopped"

Init ==
  /\ web = "up"
  /\ loop = FreshLoop
  /\ locked = FALSE
  /\ thread = [s \in Asker |-> "none"]
  /\ outcome = [s \in Asker |-> "none"]
  /\ queue = [p \in Page |-> <<>>]
  /\ stream = [p \in Page |-> "gone"]
  /\ failure = [p \in Page |-> "none"]
  /\ told = [p \in Page |-> "synced"]

GoThread(s, from, to) == thread[s] = from /\ thread' = [thread EXCEPT ![s] = to]
GoStream(p, from, to) == stream[p] = from /\ stream' = [stream EXCEPT ![p] = to]

streamVars == <<stream, failure, told>>

-----------------------------------------------------------------------------
\* perform_sync, in the thread of whoever asked for it.

\* A sync without a look at the lock.
AcquireAnyway(s) ==
  /\ GoThread(s, "start", "syncing")
  /\ locked' = TRUE
  /\ UNCHANGED <<web, loop, outcome, queue, streamVars>>

Acquire(s) ==
  /\ GoThread(s, "start", "syncing")
  /\ ~ locked
  /\ locked' = TRUE
  /\ UNCHANGED <<web, loop, outcome, queue, streamVars>>

\* acquire(blocking=False) returns at once.
InProgress(s) ==
  /\ GoThread(s, "start", "failed")
  /\ locked
  /\ outcome' = [outcome EXCEPT ![s] = "busy"]
  /\ UNCHANGED <<web, loop, locked, queue, streamVars>>

Progress(p) ==
  /\ thread[p] = "syncing"
  /\ Len(queue[p]) < MaxQueue
  /\ queue' = [queue EXCEPT ![p] = Append(@, "progress")]
  /\ UNCHANGED <<web, loop, locked, thread, outcome, streamVars>>

\* The lock is released in a `finally'.
SyncSucceeds(s) ==
  /\ GoThread(s, "syncing", "finish")
  /\ locked' = FALSE
  /\ outcome' = [outcome EXCEPT ![s] = "synced"]
  /\ UNCHANGED <<web, loop, queue, streamVars>>

SyncFails(s) ==
  /\ GoThread(s, "syncing", "failed")
  /\ locked' = FALSE
  /\ \E f \in {"failed", "broken"} : outcome' = [outcome EXCEPT ![s] = f]
  /\ UNCHANGED <<web, loop, queue, streamVars>>

\* A handler of the failures that the stream expects only.
PutExpectedFailure(p) ==
  /\ thread[p] = "failed"
  /\ IF outcome[p] = "broken"
       THEN /\ thread' = [thread EXCEPT ![p] = "none"]
            /\ UNCHANGED queue
       ELSE /\ thread' = [thread EXCEPT ![p] = "finish"]
            /\ queue' = [queue EXCEPT ![p] = Append(@, outcome[p])]
  /\ UNCHANGED <<web, loop, locked, outcome, streamVars>>

\* run_sync: the exception, then in a `finally' the end.
PutFailure(p) ==
  /\ GoThread(p, "failed", "finish")
  /\ queue' = [queue EXCEPT ![p] = Append(@, outcome[p])]
  /\ UNCHANGED <<web, loop, locked, outcome, streamVars>>

PutFinished(p) ==
  /\ GoThread(p, "finish", "none")
  /\ queue' = [queue EXCEPT ![p] = Append(@, "finished")]
  /\ UNCHANGED <<web, loop, locked, outcome, streamVars>>

SyncStep(s) == Acquire(s) \/ InProgress(s) \/ SyncSucceeds(s) \/ SyncFails(s)
Put(p) == PutFailure(p) \/ PutFinished(p)

-----------------------------------------------------------------------------
\* _periodic_sync.

Tick ==
  /\ web = "up"
  /\ loop = "waiting"
  /\ loop' = "syncing"
  /\ GoThread(Scheduled, "none", "start")
  /\ UNCHANGED <<web, locked, outcome, queue, streamVars>>

\* A loop that handles SyncInProgressError and SyncError only.
LoggedExpected ==
  /\ thread[Scheduled] \in {"failed", "finish"}
  /\ thread' = [thread EXCEPT ![Scheduled] = "none"]
  /\ loop' = IF loop = "syncing" /\ outcome[Scheduled] # "broken" THEN "waiting"
                                                                  ELSE "stopped"
  /\ UNCHANGED <<web, locked, outcome, queue, streamVars>>

\* Whatever the sync raised is logged, and the loop waits again unless it was
\* cancelled.
Logged ==
  /\ thread[Scheduled] \in {"failed", "finish"}
  /\ thread' = [thread EXCEPT ![Scheduled] = "none"]
  /\ loop' = IF loop = "syncing" THEN "waiting" ELSE loop
  /\ UNCHANGED <<web, locked, outcome, queue, streamVars>>

-----------------------------------------------------------------------------
\* _perform_sync_stream.

Open(p) ==
  /\ web = "up"
  /\ stream[p] \in {"gone", "closed"}
  /\ thread[p] = "none"
  /\ stream' = [stream EXCEPT ![p] = "opening"]
  /\ told' = [told EXCEPT ![p] = "syncing"]
  /\ queue' = [queue EXCEPT ![p] = <<>>]
  /\ failure' = [failure EXCEPT ![p] = "none"]
  /\ outcome' = [outcome EXCEPT ![p] = "none"]
  /\ UNCHANGED <<web, loop, locked, thread>>

StartThread(p) ==
  /\ GoStream(p, "opening", "reading")
  /\ thread' = [thread EXCEPT ![p] = "start"]
  /\ UNCHANGED <<web, loop, locked, outcome, queue, failure, told>>

\* updates.get() of the next progress or failure.
Take(p) ==
  /\ stream[p] = "reading"
  /\ queue[p] # <<>>
  /\ queue' = [queue EXCEPT ![p] = Tail(@)]

ReadProgress(p) ==
  /\ Take(p)
  /\ Head(queue[p]) = "progress"
  /\ UNCHANGED <<web, loop, locked, thread, outcome, streamVars>>

\* A failure that the generator forgets.
ForgetFailure(p) ==
  /\ Take(p)
  /\ Head(queue[p]) \in Failure
  /\ UNCHANGED <<web, loop, locked, thread, outcome, streamVars>>

ReadFailure(p) ==
  /\ Take(p)
  /\ Head(queue[p]) \in Failure
  /\ failure' = [failure EXCEPT ![p] = Head(queue[p])]
  /\ UNCHANGED <<web, loop, locked, thread, outcome, stream, told>>

ReadFinished(p) ==
  /\ Take(p)
  /\ Head(queue[p]) = "finished"
  /\ stream' = [stream EXCEPT ![p] = "report"]
  /\ UNCHANGED <<web, loop, locked, thread, outcome, failure, told>>

\* An unexpected failure is raised, and the page is not told.
Report(p) ==
  /\ GoStream(p, "report", "closed")
  /\ told' = [told EXCEPT ![p] =
       CASE failure[p] = "none" -> "synced"
         [] failure[p] = "broken" -> @
         [] OTHER -> failure[p]]
  /\ UNCHANGED <<web, loop, locked, thread, outcome, queue, failure>>

\* The page goes away; a generator that waits in updates.get() notices later,
\* and the thread goes on.
Disconnect(p) ==
  /\ stream[p] \in {"opening", "reading", "report"}
  /\ stream' = [stream EXCEPT ![p] = "gone"]
  /\ UNCHANGED <<web, loop, locked, thread, outcome, queue, failure, told>>

Read(p) == ReadProgress(p) \/ ReadFailure(p) \/ ReadFinished(p)

-----------------------------------------------------------------------------
\* The process.

\* The server closes its streams first, then the lifespan cancels the loop;
\* the thread of a cancelled sync goes on.
Shutdown ==
  /\ web = "up"
  /\ \A p \in Page : stream[p] \in {"gone", "closed"}
  /\ web' = "stopping"
  /\ loop' = "stopped"
  /\ UNCHANGED <<locked, thread, outcome, queue, streamVars>>

\* Nothing of the memory is left; a page hears nothing.
Die ==
  /\ web' = "down"
  /\ loop' = "stopped"
  /\ locked' = FALSE
  /\ thread' = [s \in Asker |-> "none"]
  /\ stream' = [p \in Page |-> IF stream[p] = "closed" THEN "closed" ELSE "gone"]
  /\ UNCHANGED <<outcome, queue, failure, told>>

\* The interpreter waits for the thread of the loop, not for daemon threads.
Exit == web = "stopping" /\ thread[Scheduled] = "none" /\ Die
Kill == web # "down" /\ Die

Start ==
  /\ web = "down"
  /\ web' = "up"
  /\ loop' = FreshLoop
  /\ UNCHANGED <<locked, thread, outcome, queue, streamVars>>

PageStep(p) ==
  \/ Progress(p) \/ Put(p) \/ Open(p) \/ StartThread(p) \/ Read(p) \/ Report(p)
  \/ Disconnect(p)

Next ==
  \/ \E s \in Asker : SyncStep(s)
  \/ \E p \in Page : PageStep(p)
  \/ Tick \/ Logged \/ Shutdown \/ Exit \/ Kill \/ Start

Spec == Init /\ [][Next]_vars

\* Threads and generators run on and requests of a sync time out; the clock
\* reaches every interval, and systemd starts the process again.  No page has
\* to ask, and nothing has to fail, to stop or to be killed.
Fairness ==
  /\ \A s \in Asker : WF_vars(SyncStep(s))
  /\ \A p \in Page :
       /\ WF_vars(Put(p)) /\ WF_vars(StartThread(p)) /\ WF_vars(Read(p))
       /\ WF_vars(Report(p))
  /\ WF_vars(Tick) /\ WF_vars(Logged) /\ WF_vars(Exit) /\ WF_vars(Start)

FairSpec == Spec /\ Fairness

-----------------------------------------------------------------------------
\* What the process promises.

Syncing == {s \in Asker : thread[s] = "syncing"}

\* The threads of the process share one lock, so that for the database they
\* are one runner: a sync begins only when none is under way.
Slot == INSTANCE RunnerSlot WITH
          runner <- IF Syncing = {} THEN None ELSE CHOOSE s \in Syncing : TRUE
OneRunner == Slot!Spec

\* A stream that ran to its end has told the page how its own sync ended,
\* although failures and the end come through a queue; after a failure of an
\* unexpected kind the page is left with the state "syncing".
PageKnows ==
  \A p \in Page : stream[p] = "closed" =>
    told[p] = IF outcome[p] = "broken" THEN "syncing" ELSE outcome[p]

\* The inductive form of OneRunner.
LockInv ==
  /\ locked <=> Syncing # {}
  /\ \A s, t \in Syncing : s = t

\* What the generator and the queue of a stream know of the outcome.
Queued(p) == {queue[p][i] : i \in DOMAIN queue[p]}
PageInv(p) ==
  /\ Queued(p) \cap Failure \subseteq {outcome[p]}
  /\ \A i \in DOMAIN queue[p] : queue[p][i] = "finished" =>
       i = Len(queue[p]) /\ thread[p] = "none"
  /\ failure[p] \in {"none", outcome[p]}
  /\ thread[p] \in {"start", "syncing"} => outcome[p] = "none"
  /\ thread[p] = "finish" => outcome[p] # "none"
  /\ stream[p] = "opening" =>
       queue[p] = <<>> /\ thread[p] = "none" /\ outcome[p] = "none"
  /\ stream[p] = "reading" =>
       /\ thread[p] = "none" => outcome[p] # "none"
       /\ outcome[p] \in Failure /\ thread[p] \in {"finish", "none"} =>
            failure[p] = outcome[p] \/ outcome[p] \in Queued(p)
  /\ stream[p] \in {"report", "closed"} =>
       /\ thread[p] = "none" /\ outcome[p] # "none"
       /\ outcome[p] \in Failure => failure[p] = outcome[p]
  /\ stream[p] # "closed" => told[p] = "syncing"

QueueInv == \A p \in Page : stream[p] # "gone" => PageInv(p)

\* A stream that reads updates comes to an end, however its sync ends.
StreamEnds == \A p \in Page : stream[p] = "reading" ~> stream[p] # "reading"

\* As long as the process stays up the schedule goes on: again and again a
\* sync runs, and again and again none does.
ScheduleGoesOn ==
  Interval => (<>[](web = "up") => []<>locked /\ []<>~locked)
=============================================================================
