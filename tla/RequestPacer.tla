---------------------------- MODULE RequestPacer ----------------------------
(***************************************************************************)
(* The pacing of requests to MusicBrainz (artist_enrichment.py): every     *)
(* process that looks artists up, the worker, the command line and the     *)
(* web application, reserves its requests in one small SQLite file beside  *)
(* the shared cache, then sleeps until its slot and sends.  A process      *)
(* reads the clock, then waits for the lock of the file, and may be killed *)
(* at any point; intervals differ between processes.  Time is counted in   *)
(* seconds of one clock that all processes of the host share.              *)
(***************************************************************************)
EXTENDS FiniteSets, Integers

CONSTANTS
  Client,       \* processes that send requests
  Interval,     \* per client: its configured seconds between requests
  MinInterval,  \* the least interval a client may be configured with
  MaxInterval,  \* the greatest one
  Delay,        \* what the provider or the backoff may ask to wait
  Horizon,      \* bound: the last instant of a behaviour
  Budget        \* bound: reservations of a behaviour

ASSUME ConstantsAssumption ==
  /\ IsFiniteSet(Client)
  /\ MinInterval \in Nat \ {0}
  /\ MaxInterval \in Nat
  /\ Interval \in [Client -> MinInterval..MaxInterval]
  /\ Delay \subseteq Nat
  /\ Horizon \in Nat
  /\ Budget \in Nat

VARIABLES
  now,      \* the clock
  next,     \* the column next_request_at; no row is like a row of the past
  pc,       \* per client: the next step of its request
  attempt,  \* per client: which of the three attempts this is
  clock,    \* per client: the clock as read before the lock
  wake,     \* per client: the end of its sleep
  slot,     \* per client: the time of the slot it sleeps for
  \* History, for the properties only:
  granted,  \* how many slots were granted
  index,    \* per client: the number of the one it sleeps for
  requests, \* the requests sent, each with its slot and its time
  lost      \* times of the slots whose client was killed

time == <<now, next>>
local == <<pc, attempt, clock, wake, slot>>
history == <<granted, index, requests, lost>>
vars == <<time, local, history>>

Stage == {"idle", "reserve", "sleep", "sent", "backoff"}
Attempt == 0..2

Request == [number : Nat, slot : Nat, at : Nat]

TypeOK ==
  /\ now \in Nat
  /\ next \in Nat
  /\ pc \in [Client -> Stage]
  /\ attempt \in [Client -> Attempt]
  /\ clock \in [Client -> Nat]
  /\ wake \in [Client -> Nat]
  /\ slot \in [Client -> Nat]
  /\ granted \in Nat
  /\ index \in [Client -> Nat]
  /\ requests \in SUBSET Request
  /\ lost \in SUBSET Nat

Init ==
  /\ now = 0
  /\ next = 0
  /\ pc = [c \in Client |-> "idle"]
  /\ attempt = [c \in Client |-> 0]
  /\ clock = [c \in Client |-> 0]
  /\ wake = [c \in Client |-> 0]
  /\ slot = [c \in Client |-> 0]
  /\ granted = 0
  /\ index = [c \in Client |-> 0]
  /\ requests = {}
  /\ lost = {}

Goto(c, from, to) == pc[c] = from /\ pc' = [pc EXCEPT ![c] = to]

\* The slot of a client is of no use any more.
Forget(c) ==
  /\ wake' = [wake EXCEPT ![c] = 0]
  /\ slot' = [slot EXCEPT ![c] = 0]
  /\ index' = [index EXCEPT ![c] = 0]

-----------------------------------------------------------------------------
\* A request begins: the clock is read before the file is locked.
Ask(c) ==
  /\ Goto(c, "idle", "reserve")
  /\ attempt' = [attempt EXCEPT ![c] = 0]
  /\ clock' = [clock EXCEPT ![c] = now]
  /\ UNCHANGED <<time, wake, slot, history>>

\* The same with an interval too many.
TwiceNext(c, s) == s + 2 * Interval[c]
NextAfter(c, s) == s + Interval[c]

\* The same without the reservations of others.
ClockSlot(c) == clock[c]
SlotFor(c) == IF next > clock[c] THEN next ELSE clock[c]

\* _RequestPacer.reserve, one transaction, and the sleep that follows: as
\* long as the slot was away when the clock was read.
Reserve(c) ==
  /\ Goto(c, "reserve", "sleep")
  /\ granted < Budget
  /\ LET s == SlotFor(c) IN
       /\ next' = NextAfter(c, s)
       /\ slot' = [slot EXCEPT ![c] = s]
       /\ wake' = [wake EXCEPT ![c] = now + (s - clock[c])]
  /\ granted' = granted + 1
  /\ index' = [index EXCEPT ![c] = granted']
  /\ clock' = [clock EXCEPT ![c] = 0]
  /\ UNCHANGED <<now, attempt, requests, lost>>

\* The sleep is over, perhaps by more than it should.
Send(c) ==
  /\ Goto(c, "sleep", "sent")
  /\ now >= wake[c]
  /\ requests' = requests \cup
       {[number |-> index[c], slot |-> slot[c], at |-> now]}
  /\ Forget(c)
  /\ UNCHANGED <<time, attempt, clock, granted, lost>>

\* A result, an error that is not tried again, or the third failure.
Done(c) ==
  /\ Goto(c, "sent", "idle")
  /\ attempt' = [attempt EXCEPT ![c] = 0]
  /\ UNCHANGED <<time, clock, wake, slot, history>>

\* The same without the last attempt.
RefusedAgain(c) ==
  /\ Goto(c, "sent", "backoff")
  /\ attempt' = [attempt EXCEPT ![c] = @ + 1]
  /\ \E d \in Delay : wake' = [wake EXCEPT ![c] = now + d]
  /\ UNCHANGED <<time, clock, slot, history>>

\* No answer, 429 or 503: wait as long as Retry-After or the backoff says.
Refused(c) ==
  /\ Goto(c, "sent", "backoff")
  /\ attempt[c] < 2
  /\ attempt' = [attempt EXCEPT ![c] = @ + 1]
  /\ \E d \in Delay : wake' = [wake EXCEPT ![c] = now + d]
  /\ UNCHANGED <<time, clock, slot, history>>

\* The next attempt reserves a slot of its own.
Retry(c) ==
  /\ Goto(c, "backoff", "reserve")
  /\ now >= wake[c]
  /\ clock' = [clock EXCEPT ![c] = now]
  /\ wake' = [wake EXCEPT ![c] = 0]
  /\ UNCHANGED <<time, attempt, slot, history>>

\* The process is killed, or the file stays locked for too long: a slot that
\* was reserved stays reserved.
Abandon(c) ==
  /\ pc[c] # "idle"
  /\ pc' = [pc EXCEPT ![c] = "idle"]
  /\ lost' = IF pc[c] = "sleep" THEN lost \cup {slot[c]} ELSE lost
  /\ attempt' = [attempt EXCEPT ![c] = 0]
  /\ clock' = [clock EXCEPT ![c] = 0]
  /\ Forget(c)
  /\ UNCHANGED <<time, granted, requests>>

\* Time passes, at any moment of any request.
Tick ==
  /\ now < Horizon
  /\ now' = now + 1
  /\ UNCHANGED <<next, local, history>>

Step(c) ==
  Ask(c) \/ Reserve(c) \/ Send(c) \/ Done(c) \/ Refused(c) \/ Retry(c) \/ Abandon(c)

Next == Tick \/ \E c \in Client : Step(c)

Spec == Init /\ [][Next]_vars

-----------------------------------------------------------------------------
\* What the pacer promises.

\* Requests of an interval that were sent no more than `late' after their slot:
\* a client oversleeps, and it sleeps longer than until its slot by the time
\* that it waited for the lock of the file.
SentWithin(from, to, late) ==
  {r \in requests : from <= r.at /\ r.at <= to /\ r.at - r.slot <= late}

\* All processes together send at most one request per MinInterval, in any
\* interval of any length, the retries of _request_with_retry included and
\* whoever is killed.  Only those that are late may come closer, and not
\* closer than their delay explains: it widens the interval once for all of
\* them, not once for each.
RateBound ==
  \A from \in 0..now : \A to \in from..now, late \in 0..now :
    (Cardinality(SentWithin(from, to, late)) - 1) * MinInterval <= (to - from) + late

\* No slot is skipped: the slot of a client lies no further ahead than one
\* greatest interval for each slot before it that is still to come, whether
\* its owner sleeps or was killed, and one more.  This bounds the slot only;
\* what the client oversleeps, and what it waited for the lock, comes on top.
Ahead(c) ==
  {d \in Client \ {c} : pc[d] = "sleep" /\ slot[d] > now}
LostAhead == {s \in lost : s > now}

NoSlotSkipped ==
  \A c \in Client : pc[c] = "sleep" =>
    slot[c] <= now + MaxInterval * (1 + Cardinality(Ahead(c)) + Cardinality(LostAhead))

-----------------------------------------------------------------------------
\* The inductive form of RateBound: the slots granted, whether a request was
\* sent for them or their client still sleeps, lie a least interval apart and
\* before next, each is for one request, and no request is sent before it.
Sleepers == {c \in Client : pc[c] = "sleep"}

Granted ==
  {[number |-> r.number, slot |-> r.slot] : r \in requests}
    \cup {[number |-> index[c], slot |-> slot[c]] : c \in Sleepers}

Apart ==
  /\ \A g \in Granted : g.number <= granted /\ g.slot + MinInterval <= next
  /\ \A g, h \in Granted : g.number # h.number =>
       g.slot + MinInterval <= h.slot \/ h.slot + MinInterval <= g.slot

OneRequestEach ==
  /\ \A r, q \in requests : r.number = q.number => r = q
  /\ \A c \in Sleepers, r \in requests : index[c] # r.number
  /\ \A c, d \in Sleepers : index[c] = index[d] => c = d

Punctual ==
  /\ \A c \in Client : pc[c] = "reserve" => clock[c] <= now
  /\ \A c \in Sleepers : slot[c] <= wake[c]
  /\ \A r \in requests : r.slot <= r.at /\ r.at <= now

PacerInv == TypeOK /\ Apart /\ OneRequestEach /\ Punctual

\* The inductive form of NoSlotSkipped: the slots that nobody has used form a
\* chain towards next, of which no link is longer than the greatest interval
\* for each slot in between.
Unused == {slot[c] : c \in Sleepers} \cup lost
Between(from, to) == {s \in Unused : from < s /\ s < to}

Chain ==
  /\ IsFiniteSet(lost)
  /\ \A s \in Unused : s < next
  /\ \A from \in Unused \cup {now}, to \in Unused \cup {next} :
       now <= from /\ from < to =>
         to <= from + MaxInterval * (1 + Cardinality(Between(from, to)))

WaitInv == PacerInv /\ Chain
=============================================================================
