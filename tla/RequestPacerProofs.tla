------------------------- MODULE RequestPacerProofs -------------------------
(***************************************************************************)
(* Proofs about RequestPacer, for any clients, intervals, delays and       *)
(* bounds: no interval of time holds more requests than least intervals    *)
(* fit into it, but for those that are late, and no slot is skipped.       *)
(***************************************************************************)
EXTENDS RequestPacer, FiniteSetTheorems, TLAPS

USE DEF time, local, history

\* Types.

LEMMA IntervalIsNat ==
  ASSUME NEW c \in Client
  PROVE  Interval[c] \in Nat /\ Interval[c] >= MinInterval
  BY ConstantsAssumption, SMT

LEMMA TypeInit == Init => TypeOK
  BY DEF Init, TypeOK, Stage, Attempt

LEMMA ForgetType ==
  ASSUME TypeOK, NEW c \in Client, Forget(c)
  PROVE  /\ wake' \in [Client -> Nat]
         /\ slot' \in [Client -> Nat]
         /\ index' \in [Client -> Nat]
  BY DEF TypeOK, Forget

LEMMA TypeStep == TypeOK /\ [Next]_vars => TypeOK'
<1> SUFFICES ASSUME TypeOK, [Next]_vars PROVE TypeOK'
  OBVIOUS
<1> USE DEF TypeOK, Stage, Attempt
<1>1. CASE Tick
  BY <1>1 DEF Tick
<1>2. ASSUME NEW c \in Client, Step(c) PROVE TypeOK'
  <2>1. CASE Ask(c)
    BY <2>1 DEF Ask, Goto
  <2>2. CASE Reserve(c)
    <3>1. SlotFor(c) \in Nat /\ SlotFor(c) >= clock[c]
      BY SMT DEF SlotFor
    <3>2. next' \in Nat
      BY <2>2, <3>1, IntervalIsNat DEF Reserve, NextAfter
    <3>3. slot' \in [Client -> Nat]
      BY <2>2, <3>1 DEF Reserve
    <3>4. wake' \in [Client -> Nat]
      <4>1. now + (SlotFor(c) - clock[c]) \in Nat
        BY <3>1, SMT
      <4> QED BY <2>2, <4>1 DEF Reserve
    <3>5. granted' \in Nat /\ index' \in [Client -> Nat]
      BY <2>2 DEF Reserve
    <3> QED BY <2>2, <3>2, <3>3, <3>4, <3>5 DEF Reserve, Goto
  <2>3. CASE Send(c)
    <3>1. [number |-> index[c], slot |-> slot[c], at |-> now] \in Request
      BY DEF Request
    <3>2. requests' = requests \cup {[number |-> index[c], slot |-> slot[c], at |-> now]}
      BY <2>3 DEF Send
    <3>3. requests' \in SUBSET Request
      <4>. HIDE DEF TypeOK
      <4>1. requests \in SUBSET Request
        BY DEF TypeOK
      <4> QED BY <3>1, <3>2, <4>1, Zenon
    <3>4. pc' \in [Client -> Stage]
      BY <2>3 DEF Send, Goto
    <3> QED BY <2>3, <3>3, <3>4, ForgetType DEF Send
  <2>4. CASE Done(c)
    BY <2>4 DEF Done, Goto
  <2>5. CASE Refused(c)
    BY <2>5, ConstantsAssumption DEF Refused, Goto
  <2>6. CASE Retry(c)
    BY <2>6 DEF Retry, Goto
  <2>7. CASE Abandon(c)
    <3>1. lost' \in SUBSET Nat
      BY <2>7 DEF Abandon
    <3> QED BY <2>7, <3>1, ForgetType DEF Abandon
  <2> QED BY <1>2, <2>1, <2>2, <2>3, <2>4, <2>5, <2>6, <2>7 DEF Step
<1>3. CASE UNCHANGED vars
  BY <1>3 DEF vars
<1> QED BY <1>1, <1>2, <1>3 DEF Next

\* RequestPacer only writes natural numbers and known stages.
THEOREM PacerTypeCorrect == Spec => []TypeOK
  BY TypeInit, TypeStep, PTL DEF Spec

-----------------------------------------------------------------------------
\* Arithmetic.

LEMMA Monotone ==
  ASSUME NEW a \in Int, NEW b \in Int, NEW m \in Nat \ {0}, a <= b
  PROVE  a * m <= b * m
  BY SMT

LEMMA Cancel ==
  ASSUME NEW a \in Int, NEW b \in Int, NEW m \in Nat \ {0}, a * m < b * m
  PROVE  a < b
<1> SUFFICES ASSUME b <= a PROVE FALSE
  OBVIOUS
<1>1. b * m <= a * m
  BY Monotone
<1>2. a * m \in Int /\ b * m \in Int
  OBVIOUS
<1> QED BY <1>1, <1>2

LEMMA Quotient ==
  ASSUME NEW x \in Nat, NEW m \in Nat \ {0}
  PROVE  \E q \in Nat : q * m <= x /\ x < (q + 1) * m
<1>1. x \div m \in Nat
  BY SMT
<1>2. (x \div m) * m <= x /\ x < (x \div m + 1) * m
  BY SMT
<1> QED BY <1>1, <1>2

-----------------------------------------------------------------------------
\* The slots and the requests.

LEMMA GrantedType ==
  ASSUME TypeOK
  PROVE  Granted \subseteq [number : Nat, slot : Nat]
<1>1. ASSUME NEW r \in requests
      PROVE  [number |-> r.number, slot |-> r.slot] \in [number : Nat, slot : Nat]
  BY DEF TypeOK, Request
<1>2. ASSUME NEW c \in Sleepers
      PROVE  [number |-> index[c], slot |-> slot[c]] \in [number : Nat, slot : Nat]
  BY DEF TypeOK, Sleepers
<1> QED BY <1>1, <1>2 DEF Granted

LEMMA InvInit == Init => PacerInv
<1> SUFFICES ASSUME Init PROVE PacerInv
  OBVIOUS
<1>1. TypeOK
  BY TypeInit
<1>2. requests = {} /\ Sleepers = {}
  BY DEF Init, Sleepers
<1>3. Granted = {}
  BY <1>2 DEF Granted
<1>4. Punctual
  BY <1>2 DEF Init, Punctual
<1> QED BY <1>1, <1>2, <1>3, <1>4 DEF PacerInv, Apart, OneRequestEach

\* Steps that grant no slot and send nothing.
LEMMA QuietStep ==
  ASSUME PacerInv, TypeOK', now' >= now,
         UNCHANGED <<next, granted, requests>>,
         \A d \in Client : pc'[d] = "sleep" =>
           /\ pc[d] = "sleep"
           /\ index'[d] = index[d] /\ slot'[d] = slot[d] /\ wake'[d] = wake[d],
         \A d \in Client : pc'[d] = "reserve" => clock'[d] <= now'
  PROVE  Apart' /\ OneRequestEach' /\ Punctual'
<1>1. \A d \in Sleepers' : /\ d \in Sleepers
                           /\ index'[d] = index[d] /\ slot'[d] = slot[d] /\ wake'[d] = wake[d]
  BY DEF Sleepers
<1>2. Granted' \subseteq Granted
  BY <1>1 DEF Granted
<1>3. Apart'
  BY <1>2 DEF PacerInv, Apart
<1>4. OneRequestEach'
  BY <1>1 DEF PacerInv, OneRequestEach
<1>5. Punctual'
  <2>1. ASSUME NEW r \in requests PROVE r.slot <= r.at /\ r.at <= now'
    BY DEF PacerInv, Punctual, TypeOK, Request
  <2>2. ASSUME NEW d \in Sleepers' PROVE slot'[d] <= wake'[d]
    BY <1>1 DEF PacerInv, Punctual
  <2> QED BY <2>1, <2>2 DEF Punctual
<1> QED BY <1>3, <1>4, <1>5

\* A new slot lies behind next, and so behind all that were granted before.
LEMMA ReserveStep ==
  ASSUME PacerInv, TypeOK', NEW c \in Client, Reserve(c)
  PROVE  Apart' /\ OneRequestEach' /\ Punctual'
<1> DEFINE s == SlotFor(c)
           g == [number |-> granted + 1, slot |-> s]
<1> USE ConstantsAssumption DEF PacerInv
<1>1. /\ pc[c] = "reserve" /\ pc' = [pc EXCEPT ![c] = "sleep"]
      /\ next' = s + Interval[c]
      /\ slot' = [slot EXCEPT ![c] = s]
      /\ wake' = [wake EXCEPT ![c] = now + (s - clock[c])]
      /\ granted' = granted + 1
      /\ index' = [index EXCEPT ![c] = granted + 1]
      /\ clock' = [clock EXCEPT ![c] = 0]
      /\ UNCHANGED <<now, requests>>
  BY DEF Reserve, Goto, NextAfter
<1>2. s \in Nat /\ s >= clock[c] /\ s >= next /\ clock[c] <= now
  <2>1. clock[c] <= now
    BY <1>1 DEF Punctual
  <2> QED BY <2>1, SMT DEF TypeOK, SlotFor
<1> HIDE DEF s
<1>3. Sleepers' = Sleepers \cup {c} /\ c \notin Sleepers
  BY <1>1 DEF Sleepers, TypeOK
<1>4. \A d \in Sleepers : index'[d] = index[d] /\ slot'[d] = slot[d] /\ wake'[d] = wake[d]
  BY <1>1, <1>3 DEF Sleepers, TypeOK
<1>5. index'[c] = granted + 1 /\ slot'[c] = s /\ wake'[c] = now + (s - clock[c])
  BY <1>1 DEF TypeOK
<1>6. Granted' = Granted \cup {g}
  BY <1>1, <1>3, <1>4, <1>5 DEF Granted
<1>7. \A h \in Granted : h.number \in Nat /\ h.slot \in Nat
  BY GrantedType
<1>8. g.number = granted + 1 /\ g.slot = s
  OBVIOUS
<1> HIDE DEF g
<1>9. \A h \in Granted : h.number <= granted /\ h.slot + MinInterval <= next
  BY DEF Apart
<1>n. granted \in Nat /\ next \in Nat /\ MinInterval \in Nat
  BY DEF TypeOK
<1>10. Apart'
  <2>1. ASSUME NEW h \in Granted'
        PROVE  h.number <= granted' /\ h.slot + MinInterval <= next'
    BY <2>1, <1>1, <1>2, <1>6, <1>7, <1>8, <1>9, <1>n, IntervalIsNat
  <2>2. ASSUME NEW h \in Granted', NEW k \in Granted', h.number # k.number
        PROVE  h.slot + MinInterval <= k.slot \/ k.slot + MinInterval <= h.slot
    <3>1. \A f \in Granted : f.slot + MinInterval <= s
      BY <1>2, <1>7, <1>9, <1>n
    <3>2. CASE h \in Granted /\ k \in Granted
      BY <2>2, <3>2 DEF Apart
    <3>3. CASE h = g \/ k = g
      BY <2>2, <3>1, <3>3, <1>6, <1>8
    <3> QED BY <3>2, <3>3, <1>6
  <2> QED BY <2>1, <2>2 DEF Apart
<1>11. OneRequestEach'
  <2>1. ASSUME NEW r \in requests PROVE r.number <= granted /\ r.number \in Nat
    <3>1. [number |-> r.number, slot |-> r.slot] \in Granted
      BY DEF Granted
    <3> QED BY <3>1, <1>7, <1>9
  <2>2. ASSUME NEW d \in Sleepers PROVE index[d] <= granted /\ index[d] \in Nat
    <3>1. [number |-> index[d], slot |-> slot[d]] \in Granted
      BY DEF Granted
    <3> QED BY <3>1, <1>7, <1>9
  <2>3. ASSUME NEW d \in Sleepers', NEW r \in requests PROVE index'[d] # r.number
    BY <2>1, <1>3, <1>4, <1>5, <1>n DEF OneRequestEach
  <2>4. ASSUME NEW d \in Sleepers', NEW e \in Sleepers', index'[d] = index'[e] PROVE d = e
    BY <2>2, <2>4, <1>3, <1>4, <1>5, <1>n DEF OneRequestEach
  <2> QED BY <2>3, <2>4, <1>1 DEF OneRequestEach
<1>12. Punctual'
  <2>1. ASSUME NEW d \in Client, pc'[d] = "reserve" PROVE clock'[d] <= now'
    BY <2>1, <1>1 DEF TypeOK, Punctual
  <2>2. ASSUME NEW d \in Sleepers' PROVE slot'[d] <= wake'[d]
    BY <1>2, <1>3, <1>4, <1>5 DEF Punctual, TypeOK
  <2> QED BY <2>1, <2>2, <1>1 DEF Punctual
<1> QED BY <1>10, <1>11, <1>12

\* A slot that was slept for becomes the slot of a request.
LEMMA SendStep ==
  ASSUME PacerInv, TypeOK', NEW c \in Client, Send(c)
  PROVE  Apart' /\ OneRequestEach' /\ Punctual'
<1> DEFINE q == [number |-> index[c], slot |-> slot[c], at |-> now]
<1> USE ConstantsAssumption DEF PacerInv
<1>1. /\ pc[c] = "sleep" /\ pc' = [pc EXCEPT ![c] = "sent"]
      /\ now >= wake[c]
      /\ requests' = requests \cup {q}
      /\ wake' = [wake EXCEPT ![c] = 0]
      /\ slot' = [slot EXCEPT ![c] = 0]
      /\ index' = [index EXCEPT ![c] = 0]
      /\ UNCHANGED <<now, next, clock, granted>>
  BY DEF Send, Goto, Forget
<1>2. q.number = index[c] /\ q.slot = slot[c] /\ q.at = now
  OBVIOUS
<1>3. Sleepers' = Sleepers \ {c} /\ c \in Sleepers
  BY <1>1 DEF Sleepers, TypeOK
<1>4. \A d \in Sleepers' : index'[d] = index[d] /\ slot'[d] = slot[d] /\ wake'[d] = wake[d]
  BY <1>1, <1>3 DEF Sleepers, TypeOK
<1> HIDE DEF q
<1>5. Granted' = Granted
  <2>1. [number |-> q.number, slot |-> q.slot] = [number |-> index[c], slot |-> slot[c]]
    BY <1>2
  <2>2. Granted' = {[number |-> r.number, slot |-> r.slot] : r \in requests \cup {q}}
                     \cup {[number |-> index[d], slot |-> slot[d]] : d \in Sleepers \ {c}}
    BY <1>1, <1>3, <1>4 DEF Granted
  <2> QED BY <2>1, <2>2, <1>3 DEF Granted
<1>6. Apart'
  BY <1>1, <1>5 DEF Apart
<1>7. OneRequestEach'
  <2>1. \A r \in requests : index[c] # r.number
    BY <1>3 DEF OneRequestEach
  <2>2. \A r, p \in requests' : r.number = p.number => r = p
    BY <2>1, <1>1, <1>2 DEF OneRequestEach
  <2>3. \A d \in Sleepers', r \in requests' : index'[d] # r.number
    BY <1>1, <1>2, <1>3, <1>4 DEF OneRequestEach
  <2>4. \A d, e \in Sleepers' : index'[d] = index'[e] => d = e
    BY <1>3, <1>4 DEF OneRequestEach
  <2> QED BY <2>2, <2>3, <2>4 DEF OneRequestEach
<1>8. Punctual'
  <2>1. slot[c] <= now
    <3>1. slot[c] <= wake[c]
      BY <1>3 DEF Punctual
    <3> QED BY <3>1, <1>1 DEF TypeOK
  <2>2. \A r \in requests' : r.slot <= r.at /\ r.at <= now'
    BY <2>1, <1>1, <1>2 DEF Punctual, TypeOK
  <2>3. \A d \in Sleepers' : slot'[d] <= wake'[d]
    BY <1>3, <1>4 DEF Punctual
  <2>4. ASSUME NEW d \in Client, pc'[d] = "reserve" PROVE clock'[d] <= now'
    BY <2>4, <1>1 DEF TypeOK, Punctual
  <2> QED BY <2>2, <2>3, <2>4 DEF Punctual
<1> QED BY <1>6, <1>7, <1>8

LEMMA InvStep == PacerInv /\ [Next]_vars => PacerInv'
<1> SUFFICES ASSUME PacerInv, [Next]_vars PROVE PacerInv'
  OBVIOUS
<1>1. TypeOK'
  BY TypeStep DEF PacerInv
<1> SUFFICES Apart' /\ OneRequestEach' /\ Punctual'
  BY <1>1 DEF PacerInv
<1>0. \A d \in Client : pc[d] = "reserve" => clock[d] <= now
  BY DEF PacerInv, Punctual
<1>2. CASE Tick
  <2>1. \A d \in Client : pc[d] = "reserve" => clock[d] <= now + 1
    BY <1>0 DEF PacerInv, TypeOK
  <2> QED BY <1>1, <1>2, <2>1, QuietStep DEF Tick, PacerInv, TypeOK
<1>3. ASSUME NEW c \in Client, Step(c) PROVE Apart' /\ OneRequestEach' /\ Punctual'
  <2> USE DEF PacerInv, TypeOK, Goto
  <2>1. CASE Ask(c)
    BY <1>0, <1>1, <2>1, QuietStep DEF Ask
  <2>2. CASE Reserve(c)
    BY <1>1, <2>2, ReserveStep
  <2>3. CASE Send(c)
    BY <1>1, <2>3, SendStep
  <2>4. CASE Done(c)
    BY <1>0, <1>1, <2>4, QuietStep DEF Done
  <2>5. CASE Refused(c)
    BY <1>0, <1>1, <2>5, QuietStep DEF Refused
  <2>6. CASE Retry(c)
    BY <1>0, <1>1, <2>6, QuietStep DEF Retry
  <2>7. CASE Abandon(c)
    BY <1>0, <1>1, <2>7, QuietStep DEF Abandon, Forget
  <2> QED BY <1>3, <2>1, <2>2, <2>3, <2>4, <2>5, <2>6, <2>7 DEF Step
<1>4. CASE UNCHANGED vars
  BY <1>0, <1>1, <1>4, QuietStep DEF vars, PacerInv, TypeOK
<1> QED BY <1>2, <1>3, <1>4 DEF Next

\* Slots that are a least interval apart fall into different ones of the least
\* intervals that an interval of time is divided into.
LEMMA SlotsInTime ==
  ASSUME NEW S, NEW start \in Int, NEW end \in Int, NEW m \in Nat \ {0}, start <= end,
         NEW f \in [S -> Int],
         \A r \in S : start <= f[r] /\ f[r] <= end,
         \A r, q \in S : r # q => f[r] + m <= f[q] \/ f[q] + m <= f[r]
  PROVE  IsFiniteSet(S) /\ (Cardinality(S) - 1) * m <= end - start
<1>1. PICK n \in Nat : n * m <= end - start /\ end - start < (n + 1) * m
  <2>1. end - start \in Nat
    OBVIOUS
  <2> QED BY <2>1, Quotient
<1> DEFINE T == 1..(n + 1)
           Part(r) == CHOOSE k \in Nat : k * m <= f[r] - start /\ f[r] - start < (k + 1) * m
           part == [r \in S |-> Part(r) + 1]
<1>2. ASSUME NEW r \in S
      PROVE  /\ Part(r) \in Nat
             /\ Part(r) * m <= f[r] - start /\ f[r] - start < (Part(r) + 1) * m
  <2>1. f[r] - start \in Nat
    OBVIOUS
  <2> QED BY <2>1, Quotient
<1> HIDE DEF Part
<1>3. ASSUME NEW r \in S PROVE part[r] \in T
  <2>1. Part(r) * m < (n + 1) * m
    <3>1. f[r] - start <= end - start
      OBVIOUS
    <3>2. Part(r) * m \in Int /\ (n + 1) * m \in Int
      BY <1>2
    <3> QED BY <1>1, <1>2, <3>1, <3>2
  <2>2. Part(r) < n + 1
    BY <1>2, <2>1, Cancel
  <2> QED BY <1>2, <2>2
<1>4. ASSUME NEW r \in S, NEW q \in S, f[r] + m <= f[q] PROVE part[r] # part[q]
  <2>1. Part(r) * m + m < (Part(q) + 1) * m
    <3>1. Part(r) * m \in Int /\ (Part(q) + 1) * m \in Int
      BY <1>2
    <3> QED BY <1>2, <1>4, <3>1
  <2>2. Part(r) * m + m = (Part(r) + 1) * m
    BY <1>2, SMT
  <2>3. Part(r) + 1 < Part(q) + 1
    BY <1>2, <2>1, <2>2, Cancel
  <2> QED BY <1>2, <2>3
<1>5. part \in Injection(S, T)
  <2>1. part \in [S -> T]
    BY <1>3
  <2>2. \A r, q \in S : r # q => part[r] # part[q]
    BY <1>4
  <2> QED BY <2>1, <2>2 DEF Injection, IsInjective
<1>6. IsFiniteSet(T) /\ Cardinality(T) = n + 1
  BY FS_Interval
<1> HIDE DEF part, T
<1>7. IsFiniteSet(S) /\ Cardinality(S) <= n + 1
  BY <1>5, <1>6, FS_Injection
<1>8. Cardinality(S) \in Nat
  BY <1>7, FS_CardinalityType
<1>9. (Cardinality(S) - 1) * m <= n * m
  BY <1>7, <1>8, Monotone
<1>10. n * m \in Int /\ (Cardinality(S) - 1) * m \in Int
  BY <1>8
<1> QED BY <1>1, <1>7, <1>9, <1>10

\* The slots of the requests of an interval lie in that interval, or before it
\* by no more than the requests are late.
LEMMA InvImpliesRateBound == PacerInv => RateBound
<1> SUFFICES ASSUME PacerInv, NEW from \in 0..now, NEW to \in from..now, NEW late \in 0..now
             PROVE  (Cardinality(SentWithin(from, to, late)) - 1) * MinInterval
                      <= (to - from) + late
  BY DEF RateBound
<1> USE ConstantsAssumption DEF PacerInv
<1> DEFINE S == SentWithin(from, to, late)
           f == [r \in S |-> r.slot]
<1>0. now \in Nat /\ from \in Int /\ to \in Int /\ late \in Int /\ from <= to /\ 0 <= late
  BY DEF TypeOK
<1>1. \A r \in S : /\ r \in requests /\ r.number \in Nat /\ r.slot \in Nat /\ r.at \in Nat
                   /\ from <= r.at /\ r.at <= to /\ r.at - r.slot <= late
  BY DEF SentWithin, TypeOK, Request
<1>2. \A r \in S : from - late <= f[r] /\ f[r] <= to
  BY <1>0, <1>1 DEF Punctual
<1>3. ASSUME NEW r \in S, NEW q \in S, r # q
      PROVE  f[r] + MinInterval <= f[q] \/ f[q] + MinInterval <= f[r]
  <2>1. r.number # q.number
    BY <1>1, <1>3 DEF OneRequestEach
  <2>2. /\ [number |-> r.number, slot |-> r.slot] \in Granted
        /\ [number |-> q.number, slot |-> q.slot] \in Granted
    BY <1>1 DEF Granted
  <2> QED BY <2>1, <2>2 DEF Apart
<1>4. f \in [S -> Int]
  BY <1>1
<1> HIDE DEF S, f
<1>5. (Cardinality(S) - 1) * MinInterval <= to - (from - late)
  BY <1>0, <1>2, <1>3, <1>4, SlotsInTime
<1>6. to - (from - late) = (to - from) + late
  BY <1>0
<1> QED BY <1>5, <1>6 DEF S

\* In every interval of time all processes together send at most one request
\* per least interval, whatever intervals they use and whoever is refused or
\* killed; late requests come closer by no more than they are late.
THEOREM RateNeverExceeded == Spec => []RateBound
<1>1. Spec => []PacerInv
  BY InvInit, InvStep, PTL DEF Spec
<1> QED BY <1>1, InvImpliesRateBound, PTL
-----------------------------------------------------------------------------
\* The wait.

LEMMA SlotsOf ==
  ASSUME NEW C \in SUBSET Client
  PROVE  /\ IsFiniteSet(C)
         /\ IsFiniteSet({slot[c] : c \in C})
         /\ Cardinality({slot[c] : c \in C}) <= Cardinality(C)
<1> DEFINE T == {slot[c] : c \in C}
           f == [c \in C |-> slot[c]]
<1>1. IsFiniteSet(C)
  BY ConstantsAssumption, FS_Subset
<1>2. f \in Surjection(C, T)
  BY DEF Surjection
<1> HIDE DEF f, T
<1>3. IsFiniteSet(T) /\ Cardinality(T) <= Cardinality(C)
  BY <1>1, <1>2, FS_Surjection
<1> QED BY <1>1, <1>3 DEF T

LEMMA UnusedType ==
  ASSUME TypeOK, IsFiniteSet(lost)
  PROVE  Unused \subseteq Nat /\ IsFiniteSet(Unused)
<1>1. IsFiniteSet({slot[c] : c \in Sleepers})
  BY SlotsOf DEF Sleepers
<1>2. IsFiniteSet({slot[c] : c \in Sleepers} \cup lost)
  BY <1>1, FS_Union
<1>3. {slot[c] : c \in Sleepers} \subseteq Nat
  BY DEF TypeOK, Sleepers
<1> QED BY <1>2, <1>3 DEF Unused, TypeOK

LEMMA BetweenType ==
  ASSUME TypeOK, IsFiniteSet(lost), NEW from, NEW to
  PROVE  IsFiniteSet(Between(from, to)) /\ Cardinality(Between(from, to)) \in Nat
<1>1. Between(from, to) \in SUBSET Unused
  BY DEF Between
<1> QED BY <1>1, UnusedType, FS_Subset, FS_CardinalityType

\* One more slot makes the chain longer by at most one interval.
LEMMA OneMore ==
  ASSUME NEW m \in Nat, NEW i \in Nat, i <= m, NEW k \in Nat, NEW n \in Nat, k + 1 <= n,
         NEW from \in Nat, NEW to \in Nat, to <= from + m * (1 + k)
  PROVE  to + i <= from + m * (1 + n)
<1>1. PICK j \in Nat : n = k + 1 + j
  BY Zenon, SMT
<1>2. m * (1 + n) = m * (1 + k) + m + m * j
  BY <1>1, SMT
<1>3. m * (1 + k) \in Nat /\ m * j \in Nat
  BY SMT
<1> QED BY <1>2, <1>3

LEMMA Longer ==
  ASSUME NEW m \in Nat, NEW k \in Nat, NEW n \in Nat, k <= n
  PROVE  m * (1 + k) <= m * (1 + n)
<1>1. PICK j \in Nat : n = k + j
  BY Zenon, SMT
<1>2. m * (1 + n) = m * (1 + k) + m * j
  BY <1>1, SMT
<1>3. m * (1 + k) \in Nat /\ m * j \in Nat
  BY SMT
<1> QED BY <1>2, <1>3

LEMMA AtLeastOne ==
  ASSUME NEW m \in Nat, NEW i \in Nat, i <= m, NEW n \in Nat, NEW from \in Nat
  PROVE  from + i <= from + m * (1 + n)
<1>1. m * (1 + n) = m + m * n
  BY SMT
<1>2. m * n \in Nat
  BY SMT
<1> QED BY <1>1, <1>2

\* Steps that neither grant a slot nor give up one that is still to come.
LEMMA ChainKept ==
  ASSUME TypeOK, Chain, UNCHANGED time, IsFiniteSet(lost'),
         Unused' \subseteq Unused,
         \A s \in Unused : now < s => s \in Unused'
  PROVE  Chain'
<1>1. Unused \subseteq Nat
  BY UnusedType DEF Chain
<1>2. ASSUME NEW from \in Unused' \cup {now'}, NEW to \in Unused' \cup {next'},
             now' <= from, from < to
      PROVE  to <= from + MaxInterval * (1 + Cardinality(Between(from, to)'))
  <2>1. from \in Unused \cup {now} /\ to \in Unused \cup {next}
    OBVIOUS
  <2>2. Between(from, to)' = Between(from, to)
    <3>1. from \in Nat /\ to \in Nat /\ now \in Nat
      BY <1>1, <2>1 DEF TypeOK
    <3>2. Between(from, to)' = {s \in Unused' : from < s /\ s < to}
      BY DEF Between
    <3>3. ASSUME NEW s \in Unused, from < s PROVE s \in Unused'
      <4>1. now < s
        BY <1>1, <1>2, <3>1, <3>3
      <4> QED BY <4>1
    <3> QED BY <3>2, <3>3 DEF Between
  <2> QED BY <1>2, <2>1, <2>2 DEF Chain
<1> QED BY <1>2 DEF Chain

LEMMA ChainTick ==
  ASSUME TypeOK, Chain, now' = now + 1, UNCHANGED <<next, lost>>, Unused' = Unused
  PROVE  Chain'
<1>1. Unused \subseteq Nat
  BY UnusedType DEF Chain
<1>2. ASSUME NEW from \in Unused \cup {now + 1}, NEW to \in Unused \cup {next},
             now + 1 <= from, from < to
      PROVE  to <= from + MaxInterval * (1 + Cardinality(Between(from, to)))
  <2>1. from \in Nat /\ to \in Nat /\ now \in Nat
    BY <1>1 DEF TypeOK
  <2>2. CASE from \in Unused
    BY <1>2, <2>1, <2>2 DEF Chain
  <2>3. CASE from = now + 1 /\ from \notin Unused
    <3>1. Between(from, to) = Between(now, to)
      <4>1. ASSUME NEW s \in Unused PROVE from < s <=> now < s
        <5>1. s \in Nat /\ s # now + 1
          BY <1>1, <2>3
        <5> QED BY <5>1, <2>1, <2>3
      <4> QED BY <4>1 DEF Between
    <3>2. to <= now + MaxInterval * (1 + Cardinality(Between(now, to)))
      BY <1>2, <2>1, <2>3 DEF Chain
    <3>3. MaxInterval * (1 + Cardinality(Between(now, to))) \in Nat
      BY BetweenType, ConstantsAssumption DEF Chain
    <3> QED BY <2>1, <2>3, <3>1, <3>2, <3>3
  <2> QED BY <2>2, <2>3
<1>3. \A from, to : Between(from, to)' = Between(from, to)
  BY DEF Between
<1> QED BY <1>2, <1>3 DEF Chain

LEMMA ChainReserve ==
  ASSUME PacerInv, Chain, NEW c \in Client, Reserve(c)
  PROVE  Chain'
<1> DEFINE s == SlotFor(c)
<1> USE ConstantsAssumption
<1>t. TypeOK /\ TypeOK'
  <2>1. [Next]_vars
    BY DEF Next, Step
  <2> QED BY <2>1, TypeStep DEF PacerInv
<1>1. /\ pc[c] = "reserve" /\ pc' = [pc EXCEPT ![c] = "sleep"]
      /\ next' = s + Interval[c]
      /\ slot' = [slot EXCEPT ![c] = s]
      /\ UNCHANGED <<now, lost>>
  BY DEF Reserve, Goto, NextAfter
<1>2. s \in Nat /\ next <= s /\ (s <= now \/ s = next)
  <2>1. clock[c] <= now
    BY <1>1 DEF PacerInv, Punctual
  <2> QED BY <1>t, <2>1, SMT DEF TypeOK, SlotFor
<1> HIDE DEF s
<1>3. Interval[c] \in Nat /\ Interval[c] >= 1 /\ Interval[c] <= MaxInterval
  BY SMT
<1>4. Unused' = Unused \cup {s}
  <2>1. {d \in Client : pc'[d] = "sleep"} = {d \in Client : pc[d] = "sleep"} \cup {c}
    BY <1>t, <1>1 DEF TypeOK
  <2>2. \A d \in Client : slot'[d] = IF d = c THEN s ELSE slot[d]
    BY <1>t, <1>1 DEF TypeOK
  <2>3. c \notin {d \in Client : pc[d] = "sleep"}
    BY <1>1
  <2> QED BY <1>1, <2>1, <2>2, <2>3 DEF Unused, Sleepers
<1>5. Unused \subseteq Nat /\ IsFiniteSet(lost) /\ \A x \in Unused : x < next
  BY <1>t, UnusedType DEF Chain
<1>6. \A x \in Unused' : x < next'
  <2>1. \A x \in Unused : x < s
    BY <1>t, <1>2, <1>5 DEF TypeOK
  <2> QED BY <1>1, <1>2, <1>3, <1>4, <1>5, <2>1
<1>7. ASSUME NEW from \in Unused' \cup {now'}, NEW to \in Unused' \cup {next'},
             now' <= from, from < to
      PROVE  to <= from + MaxInterval * (1 + Cardinality(Between(from, to)'))
  <2>1. /\ from \in Nat /\ to \in Nat /\ now \in Nat /\ next \in Nat
        /\ now <= from /\ now < to
    BY <1>t, <1>1, <1>2, <1>3, <1>4, <1>5, <1>7 DEF TypeOK
  <2>2. Cardinality(Between(from, to)') \in Nat /\ IsFiniteSet(Between(from, to)')
    <3>1. IsFiniteSet(Unused')
      BY <1>t, <1>4, <1>5, UnusedType, FS_AddElement
    <3>2. Between(from, to)' \in SUBSET Unused'
      BY DEF Between
    <3> QED BY <3>1, <3>2, FS_Subset, FS_CardinalityType
  <2>3. Between(from, to)' = {x \in Unused \cup {s} : from < x /\ x < to}
    BY <1>4 DEF Between
  <2>4. CASE to = next' /\ (from = s \/ s <= now)
    \* The slot is now's or the start itself: one interval.
    <3>1. from = s \/ from = now
      BY <1>1, <1>2, <1>4, <1>5, <2>1, <2>4
    <3>2. to <= from + Interval[c]
      BY <1>1, <1>2, <1>3, <2>1, <2>4, <3>1
    <3>3. from + Interval[c] <= from + MaxInterval * (1 + Cardinality(Between(from, to)'))
      BY <1>3, <2>1, <2>2, AtLeastOne
    <3> QED BY <1>3, <2>1, <2>2, <3>2, <3>3
  <2>5. CASE to = next' /\ from # s /\ now < s
    <3>1. s = next /\ from \in Unused \cup {now} /\ from < next
      BY <1>1, <1>2, <1>4, <1>5, <2>1, <2>5
    <3>2. next <= from + MaxInterval * (1 + Cardinality(Between(from, next)))
      BY <2>1, <3>1 DEF Chain
    <3>3. Between(from, to)' = Between(from, next) \cup {s}
      <4>1. from < s /\ s < to
        BY <1>1, <1>2, <1>3, <2>5, <3>1
      <4>2. ASSUME NEW x \in Unused PROVE x < to /\ x < next
        BY <4>1, <1>2, <1>5, <2>1, <3>1
      <4> QED BY <2>3, <4>1, <4>2 DEF Between
    <3>4. s \notin Between(from, next)
      BY <3>1, <2>1 DEF Between
    <3>5. /\ Cardinality(Between(from, next)) \in Nat
          /\ Cardinality(Between(from, to)') = Cardinality(Between(from, next)) + 1
      BY <1>t, <1>5, <3>3, <3>4, BetweenType, FS_AddElement
    <3> QED BY <1>1, <1>3, <2>1, <2>2, <2>5, <3>1, <3>2, <3>5, OneMore
  <2>6. CASE to # next'
    <3>1. to \in Unused \cup {next} /\ to <= s
      BY <1>2, <1>4, <1>5, <1>7, <2>1, <2>6
    <3>2. from \in Unused \cup {now} /\ from # s
      BY <1>1, <1>2, <1>4, <1>7, <2>1, <3>1
    <3>3. Between(from, to)' = Between(from, to)
      BY <1>2, <1>5, <2>1, <2>3, <3>1 DEF Between
    <3> QED BY <1>7, <2>1, <3>1, <3>2, <3>3 DEF Chain
  <2> QED BY <1>2, <2>1, <2>4, <2>5, <2>6
<1> QED BY <1>1, <1>5, <1>6, <1>7 DEF Chain

LEMMA WaitInvStep == WaitInv /\ [Next]_vars => WaitInv'
<1> SUFFICES ASSUME WaitInv, [Next]_vars PROVE WaitInv'
  OBVIOUS
<1>i. PacerInv /\ PacerInv' /\ Chain /\ TypeOK
  BY InvStep DEF WaitInv, PacerInv
<1>f. IsFiniteSet(lost)
  BY <1>i DEF Chain
<1> SUFFICES Chain'
  BY <1>i DEF WaitInv
<1>1. CASE Tick
  BY <1>1, <1>i, ChainTick DEF Tick, Unused, Sleepers
<1>2. CASE UNCHANGED vars
  BY <1>2, <1>i, <1>f, ChainKept DEF vars, Unused, Sleepers
<1>3. ASSUME NEW c \in Client, Step(c) PROVE Chain'
  <2>1. CASE Reserve(c)
    BY <2>1, <1>i, ChainReserve
  <2>2. CASE Ask(c) \/ Done(c) \/ Refused(c) \/ Retry(c)
    <3>1. /\ UNCHANGED <<time, slot, lost>>
          /\ \A d \in Client : pc'[d] = "sleep" <=> pc[d] = "sleep"
      BY <2>2, <1>i DEF Ask, Done, Refused, Retry, Goto, TypeOK
    <3>2. Unused' = Unused
      BY <3>1 DEF Unused, Sleepers
    <3> QED BY <1>i, <1>f, <3>1, <3>2, ChainKept
  <2>3. CASE Send(c)
    <3>1. /\ UNCHANGED <<time, lost>>
          /\ \A d \in Client : pc'[d] = "sleep" <=> pc[d] = "sleep" /\ d # c
          /\ \A d \in Client \ {c} : slot'[d] = slot[d]
      BY <2>3, <1>i DEF Send, Goto, Forget, TypeOK
    <3>2. slot[c] <= now
      <4>1. slot[c] <= wake[c] /\ wake[c] <= now
        BY <2>3, <1>i DEF Send, Goto, PacerInv, Punctual, Sleepers, TypeOK
      <4> QED BY <4>1, <1>i DEF TypeOK
    <3>3. Unused' \subseteq Unused
      BY <3>1 DEF Unused, Sleepers
    <3>4. ASSUME NEW s \in Unused, now < s PROVE s \in Unused'
      <4>1. s # slot[c]
        BY <3>2, <3>4, <1>i DEF TypeOK
      <4> QED BY <3>1, <4>1 DEF Unused, Sleepers
    <3> QED BY <1>i, <1>f, <3>1, <3>3, <3>4, ChainKept
  <2>4. CASE Abandon(c)
    <3>1. /\ UNCHANGED time
          /\ lost' = IF pc[c] = "sleep" THEN lost \cup {slot[c]} ELSE lost
          /\ \A d \in Client : pc'[d] = "sleep" <=> pc[d] = "sleep" /\ d # c
          /\ \A d \in Client \ {c} : slot'[d] = slot[d]
      BY <2>4, <1>i DEF Abandon, Forget, TypeOK
    <3>2. Unused' = Unused
      BY <3>1 DEF Unused, Sleepers
    <3>3. IsFiniteSet(lost')
      BY <3>1, <1>f, FS_AddElement
    <3> QED BY <1>i, <3>1, <3>2, <3>3, ChainKept
  <2> QED BY <1>3, <2>1, <2>2, <2>3, <2>4 DEF Step
<1> QED BY <1>1, <1>2, <1>3 DEF Next

LEMMA WaitInvInit == Init => WaitInv
<1> SUFFICES ASSUME Init PROVE WaitInv
  OBVIOUS
<1>1. PacerInv
  BY InvInit
<1>2. Unused = {}
  BY DEF Init, Unused, Sleepers
<1>3. IsFiniteSet(lost) /\ now = next /\ now \in Nat
  BY FS_EmptySet DEF Init
<1>4. Chain
  BY <1>2, <1>3 DEF Chain
<1> QED BY <1>1, <1>4 DEF WaitInv

\* The slots between the clock and that of c belong to other sleepers or were
\* lost, so that there are no more of them than of those.
LEMMA InvImpliesNoSlotSkipped == WaitInv => NoSlotSkipped
<1> SUFFICES ASSUME WaitInv, NEW c \in Client, pc[c] = "sleep"
             PROVE  slot[c] <= now + MaxInterval *
                      (1 + Cardinality(Ahead(c)) + Cardinality(LostAhead))
  BY DEF NoSlotSkipped
<1>t. TypeOK /\ Chain /\ IsFiniteSet(lost) /\ MaxInterval \in Nat
  BY ConstantsAssumption DEF WaitInv, PacerInv, Chain
<1> DEFINE slots == {slot[d] : d \in Ahead(c)}
<1>1. Ahead(c) \in SUBSET Client
  BY DEF Ahead
<1>2. /\ IsFiniteSet(slots) /\ Cardinality(slots) <= Cardinality(Ahead(c))
      /\ Cardinality(slots) \in Nat /\ Cardinality(Ahead(c)) \in Nat
  <2>1. IsFiniteSet(Ahead(c)) /\ IsFiniteSet(slots) /\ Cardinality(slots) <= Cardinality(Ahead(c))
    BY <1>1, SlotsOf
  <2> QED BY <2>1, FS_CardinalityType
<1>3. IsFiniteSet(LostAhead) /\ Cardinality(LostAhead) \in Nat
  <2>1. LostAhead \in SUBSET lost
    BY DEF LostAhead
  <2> QED BY <1>t, <2>1, FS_Subset, FS_CardinalityType
<1>4. slot[c] \in Nat /\ now \in Nat
  BY <1>t DEF TypeOK
<1> HIDE DEF slots
<1>5. CASE slot[c] <= now
  <2>1. MaxInterval * (1 + Cardinality(Ahead(c)) + Cardinality(LostAhead)) \in Nat
    BY <1>t, <1>2, <1>3
  <2> QED BY <1>4, <1>5, <2>1
<1>6. CASE now < slot[c]
  <2> DEFINE before == Between(now, slot[c])
  <2>1. slot[c] <= now + MaxInterval * (1 + Cardinality(before))
    <3>1. slot[c] \in Unused
      BY DEF Unused, Sleepers
    <3> QED BY <1>t, <1>4, <1>6, <3>1 DEF Chain
  <2>2. before \in SUBSET (slots \cup LostAhead)
    <3>1. ASSUME NEW s \in before PROVE s \in slots \cup LostAhead
      <4>1. s \in Unused /\ now < s /\ s < slot[c]
        BY DEF Between
      <4>2. CASE s \in lost
        BY <1>4, <4>1, <4>2, <1>t DEF LostAhead, TypeOK
      <4>3. ASSUME NEW d \in Client, pc[d] = "sleep", s = slot[d] PROVE s \in slots
        <5>1. d # c
          BY <1>4, <4>1, <4>3
        <5>2. d \in Ahead(c)
          BY <1>t, <1>4, <4>1, <4>3, <5>1 DEF Ahead, TypeOK
        <5> QED BY <4>3, <5>2 DEF slots
      <4> QED BY <4>1, <4>2, <4>3 DEF Unused, Sleepers
    <3> QED BY <3>1
  <2>3. /\ Cardinality(before) \in Nat
        /\ Cardinality(before) <= Cardinality(Ahead(c)) + Cardinality(LostAhead)
    <3> DEFINE all == slots \cup LostAhead
    <3>1. IsFiniteSet(all) /\ Cardinality(all) <= Cardinality(slots) + Cardinality(LostAhead)
      <4>1. IsFiniteSet(all) /\ Cardinality(all) = Cardinality(slots) + Cardinality(LostAhead)
                                  - Cardinality(slots \cap LostAhead)
        BY <1>2, <1>3, FS_Union
      <4>2. Cardinality(slots \cap LostAhead) \in Nat
        <5>1. slots \cap LostAhead \in SUBSET slots
          OBVIOUS
        <5> QED BY <5>1, <1>2, FS_Subset, FS_CardinalityType
      <4> QED BY <1>2, <1>3, <4>1, <4>2
    <3>2. Cardinality(all) \in Nat
      BY <3>1, FS_CardinalityType
    <3>3. IsFiniteSet(before) /\ Cardinality(before) <= Cardinality(all)
      BY <2>2, <3>1, FS_Subset
    <3>4. Cardinality(before) \in Nat
      BY <3>3, FS_CardinalityType
    <3> QED BY <1>2, <1>3, <3>1, <3>2, <3>3, <3>4
  <2> HIDE DEF before
  <2> DEFINE n == Cardinality(before)
             m == Cardinality(Ahead(c)) + Cardinality(LostAhead)
  <2>4. n \in Nat /\ m \in Nat /\ n <= m
    BY <1>2, <1>3, <2>3
  <2>5. slot[c] <= now + MaxInterval * (1 + n)
    BY <2>1
  <2>6. 1 + Cardinality(Ahead(c)) + Cardinality(LostAhead) = 1 + m
    BY <1>2, <1>3
  <2> HIDE DEF n, m
  <2>7. MaxInterval * (1 + n) <= MaxInterval * (1 + m)
    BY <1>t, <2>4, Longer
  <2>8. MaxInterval * (1 + n) \in Nat /\ MaxInterval * (1 + m) \in Nat
    BY <1>t, <2>4
  <2> QED BY <1>4, <2>5, <2>6, <2>7, <2>8
<1> QED BY <1>4, <1>5, <1>6

\* A reserved slot is never further ahead than one greatest interval for each
\* slot before it that is still to come, and one more: no slot is skipped,
\* whoever is killed and whatever intervals the clients use.
THEOREM NoSlotIsSkipped == Spec => []NoSlotSkipped
  BY WaitInvInit, WaitInvStep, InvImpliesNoSlotSkipped, PTL DEF Spec
=============================================================================
