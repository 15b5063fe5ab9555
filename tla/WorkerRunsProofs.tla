-------------------------- MODULE WorkerRunsProofs --------------------------
(***************************************************************************)
(* What holds of WorkerRuns for every number of processes, artists,        *)
(* identities and kills.                                                   *)
(***************************************************************************)
EXTENDS WorkerRuns, TLAPS

-----------------------------------------------------------------------------
\* Type correctness.

LEMMA InitType == Init => TypeOK
<1>. SUFFICES ASSUME Init PROVE TypeOK
  OBVIOUS
<1>1. kills \in 0..MaxKills
  BY ConstantsAssumption DEF Init
<1>2. link \in [Artist -> [Field -> [Mbid -> Payload \cup {None}]]]
  BY DEF Init
<1>3. pc \in [Process -> Stage] /\ \A w \in Process : pc[w] = "idle"
  BY DEF Init, Stage
<1>4. \A w \in Process : pc[w] \notin Phase /\ ~ Storing(w)
  BY <1>3 DEF Phase, Storing
<1>. QED
  BY <1>1, <1>2, <1>3, <1>4 DEF Init, TypeOK, Process

\* What remains of the type when a process takes a step.
LEMMA StepType ==
  ASSUME TypeOK, NEW w \in Process, NEW to \in Stage,
         pc' = [pc EXCEPT ![w] = to], w \in LinkPass => to \notin Phase,
         link' \in [Artist -> [Field -> [Mbid -> Payload \cup {None}]]],
         cache' \in [Mbid -> Payload \cup {None}],
         listed' \in [Process -> SUBSET Entry],
         todo' \in [Process -> SUBSET Entry],
         errors' \in [Process -> SUBSET Artist],
         saving' \in [Process -> Saving \cup {None}],
         to \in {"find", "write"} => saving'[w] \in Saving,
         \A v \in Process \ {w} : saving'[v] = saving[v],
         run' \in [Worker -> Run \cup {NoRun}],
         raced' \subseteq Artist, unrecorded' \subseteq Worker,
         kills' \in 0..MaxKills, UNCHANGED identity
  PROVE  TypeOK'
<1>1. pc' \in [Process -> Stage]
  BY DEF TypeOK
<1>2. ASSUME NEW v \in Process
      PROVE  /\ v \in LinkPass => pc'[v] \notin Phase
             /\ Storing(v)' => saving'[v] \in Saving
  <2>1. CASE v = w
    BY <2>1 DEF TypeOK, Storing
  <2>2. CASE v # w
    BY <2>2 DEF TypeOK, Storing
  <2>. QED
    BY <2>1, <2>2
<1>. QED
  BY <1>1, <1>2 DEF TypeOK, Process

LEMMA LeaveType ==
  ASSUME TypeOK, NEW w \in Process, Leave(w), UNCHANGED artistVars,
         kills' \in 0..MaxKills, run' \in [Worker -> Run \cup {NoRun}],
         unrecorded' \subseteq Worker
  PROVE  TypeOK'
<1>1. /\ listed' \in [Process -> SUBSET Entry]
      /\ todo' \in [Process -> SUBSET Entry]
      /\ errors' \in [Process -> SUBSET Artist]
      /\ saving' \in [Process -> Saving \cup {None}]
      /\ \A v \in Process \ {w} : saving'[v] = saving[v]
  BY DEF TypeOK, Leave
<1>2. "idle" \in Stage /\ "idle" \notin Phase /\ "idle" \notin {"find", "write"}
  BY DEF Stage, Phase
<1>3. pc' = [pc EXCEPT ![w] = "idle"]
  BY DEF Leave
<1>4. /\ link' \in [Artist -> [Field -> [Mbid -> Payload \cup {None}]]]
      /\ cache' \in [Mbid -> Payload \cup {None}]
      /\ raced' \subseteq Artist
      /\ UNCHANGED identity
  BY DEF TypeOK, artistVars
<1>. QED
  BY <1>1, <1>2, <1>3, <1>4, StepType

LEMMA RecordedType ==
  ASSUME TypeOK, NEW w \in Process, NEW s \in {"succeeded", "failed"},
         NEW n \in 0..3, Recorded(w, s, n)
  PROVE  run' \in [Worker -> Run \cup {NoRun}] /\ unrecorded' \subseteq Worker
  BY DEF TypeOK, Recorded, Run

LEMMA AnsweredType ==
  ASSUME TypeOK, NEW w \in Process, NEW e \in todo[w], NEW p \in Payload,
         Answered(w, e, p), cache' \in [Mbid -> Payload \cup {None}]
  PROVE  TypeOK'
<1>1. e.artist \in Artist /\ e.id \in Mbid
  BY DEF TypeOK, Entry
<1>2. [artist |-> e.artist, id |-> e.id, payload |-> p, field |-> 1,
       found |-> FALSE] \in Saving
  BY <1>1 DEF Saving, Field
<1>3. /\ saving' \in [Process -> Saving \cup {None}]
      /\ saving'[w] \in Saving
      /\ \A v \in Process \ {w} : saving'[v] = saving[v]
  BY <1>2 DEF TypeOK, Answered
<1>4. todo' \in [Process -> SUBSET Entry] /\ raced' \subseteq Artist
  BY <1>1 DEF TypeOK, Answered, Rest
<1>5. "find" \in Stage /\ "find" \notin Phase
  BY DEF Stage, Phase
<1>6. /\ pc' = [pc EXCEPT ![w] = "find"]
      /\ UNCHANGED <<identity, link, listed, errors, run, unrecorded, kills>>
  BY DEF Answered
<1>. QED
  BY <1>3, <1>4, <1>5, <1>6, StepType DEF TypeOK

LEMMA Payloads ==
  ASSUME TypeOK, NEW w \in Process, NEW e \in todo[w], CacheHit(w, e)
  PROVE  cache[e.id] \in Payload
<1>. e.id \in Mbid
  BY DEF TypeOK, Entry
<1>. QED
  BY DEF TypeOK, CacheHit

LEMMA WroteType ==
  ASSUME TypeOK, NEW w \in Process, NEW s \in Saving, NEW p \in Payload,
         saving[w] = s, Wrote(w, s, p)
  PROVE  TypeOK'
<1>1. s.artist \in Artist /\ s.field \in Field /\ s.id \in Mbid
  BY DEF Saving
<1>2. link' \in [Artist -> [Field -> [Mbid -> Payload \cup {None}]]]
  <2>1. link[s.artist] \in [Field -> [Mbid -> Payload \cup {None}]]
    BY <1>1 DEF TypeOK
  <2>2. link[s.artist][s.field] \in [Mbid -> Payload \cup {None}]
    BY <1>1, <2>1
  <2>3. [link[s.artist][s.field] EXCEPT ![s.id] = p]
          \in [Mbid -> Payload \cup {None}]
    BY <2>2
  <2>4. [link[s.artist] EXCEPT
           ![s.field] = [link[s.artist][s.field] EXCEPT ![s.id] = p]]
          \in [Field -> [Mbid -> Payload \cup {None}]]
    BY <2>1, <2>3
  <2>5. link' = [link EXCEPT ![s.artist] =
                   [link[s.artist] EXCEPT ![s.field] =
                      [link[s.artist][s.field] EXCEPT ![s.id] = p]]]
    BY DEF Wrote
  <2>. QED
    BY <2>4, <2>5 DEF TypeOK
<1>3. UNCHANGED <<identity, cache, raced, listed, todo, errors, run, unrecorded,
                  kills>>
  BY DEF Wrote
<1>4. CASE s.field = 3
  <2>1. /\ pc' = [pc EXCEPT ![w] = "lookup"]
        /\ saving' = [saving EXCEPT ![w] = None]
    BY <1>4 DEF Wrote, LastField
  <2>2. "lookup" \in Stage /\ "lookup" \notin Phase
    BY DEF Stage, Phase
  <2>. QED
    BY <1>2, <1>3, <2>1, <2>2, StepType DEF TypeOK
<1>5. CASE s.field # 3
  <2>1. /\ pc' = [pc EXCEPT ![w] = "find"]
        /\ saving' = [saving EXCEPT ![w].field = @ + 1]
    BY <1>5 DEF Wrote, LastField
  <2>2. "find" \in Stage /\ "find" \notin Phase
    BY DEF Stage, Phase
  <2>3. s.field + 1 \in Field
    BY <1>1, <1>5 DEF Field
  <2>4. [s EXCEPT !.field = @ + 1] \in Saving
    BY <2>3 DEF Saving
  <2>5. saving' = [saving EXCEPT ![w] = [s EXCEPT !.field = @ + 1]]
    BY <2>1
  <2>6. /\ saving' \in [Process -> Saving \cup {None}]
        /\ saving'[w] \in Saving
        /\ \A v \in Process \ {w} : saving'[v] = saving[v]
    BY <2>4, <2>5 DEF TypeOK
  <2>. QED
    BY <1>2, <1>3, <2>1, <2>2, <2>6, StepType DEF TypeOK
<1>. QED
  BY <1>4, <1>5

LEMMA WriteIsWrote ==
  ASSUME TypeOK, NEW w \in Process, Write(w)
  PROVE  /\ saving[w] \in Saving
         /\ saving[w].payload \in Payload
         /\ Wrote(w, saving[w], saving[w].payload)
<1>1. Storing(w)
  BY DEF Write, Storing
<1>2. saving[w] \in Saving
  BY <1>1 DEF TypeOK
<1>. QED
  BY <1>2 DEF Write, Saving

LEMMA FindType ==
  ASSUME TypeOK, NEW w \in Process, Find(w)
  PROVE  TypeOK'
<1>1. saving[w] \in Saving
  BY DEF TypeOK, Find, GoTo, Storing
<1>2. [saving[w] EXCEPT !.found = (Stored(saving[w]) # None)] \in Saving
  BY <1>1 DEF Saving
<1>3. saving' = [saving EXCEPT ![w] =
                   [saving[w] EXCEPT !.found = (Stored(saving[w]) # None)]]
  BY DEF Find
<1>4. /\ saving' \in [Process -> Saving \cup {None}]
      /\ saving'[w] \in Saving
      /\ \A v \in Process \ {w} : saving'[v] = saving[v]
  BY <1>2, <1>3 DEF TypeOK
<1>5. /\ "write" \in Stage /\ "write" \notin Phase
      /\ pc' = [pc EXCEPT ![w] = "write"]
      /\ UNCHANGED <<artistVars, listed, todo, errors, run, unrecorded, kills>>
  BY DEF Stage, Phase, Find, GoTo
<1>. QED
  BY <1>4, <1>5, StepType DEF TypeOK, artistVars

\* The steps of a pass before it stores anything.
LEMMA EarlyType ==
  ASSUME TypeOK, NEW w \in Process,
         \/ StartRun(w) \/ StartLinkPass(w) \/ PhaseEnds(w) \/ List(w)
         \/ \E e \in todo[w] : CacheMiss(w, e) \/ LookupFails(w, e)
  PROVE  TypeOK'
<1>1. ASSUME NEW to \in Stage, pc' = [pc EXCEPT ![w] = to],
             to \notin {"find", "write"}, w \in LinkPass => to \notin Phase,
             UNCHANGED <<artistVars, saving, kills>>,
             listed' \in [Process -> SUBSET Entry],
             todo' \in [Process -> SUBSET Entry],
             errors' \in [Process -> SUBSET Artist],
             run' \in [Worker -> Run \cup {NoRun}],
             unrecorded' \subseteq Worker
      PROVE  TypeOK'
  BY <1>1, StepType DEF TypeOK, artistVars
<1>s. /\ {"sync", "artists", "list", "lookup", "request"} \subseteq Stage
      /\ {"list", "lookup", "request"} \cap Phase = {}
  BY DEF Stage, Phase
<1>2. CASE StartRun(w)
  <2>1. /\ run' \in [Worker -> Run \cup {NoRun}]
        /\ unrecorded' \subseteq Worker
    <3>. [status |-> "running", phases |-> 0] \in Run
      BY DEF Run
    <3>. QED
      BY <1>2 DEF StartRun, TypeOK
  <2>2. w \notin LinkPass
    BY <1>2, ConstantsAssumption DEF StartRun
  <2>3. /\ listed' \in [Process -> SUBSET Entry]
        /\ errors' \in [Process -> SUBSET Artist]
    BY <1>2 DEF StartRun, TypeOK
  <2>. QED
    BY <1>1, <1>2, <1>s, <2>1, <2>2, <2>3 DEF StartRun, GoTo, TypeOK
<1>3. CASE StartLinkPass(w)
  BY <1>1, <1>3, <1>s DEF StartLinkPass, GoTo, TypeOK, batchVars
<1>4. CASE PhaseEnds(w)
  <2>1. w \notin LinkPass \/ pc[w] \notin Phase
    BY DEF TypeOK
  <2>2. pc[w] = "sync" \/ pc[w] = "artists"
    BY <1>4 DEF PhaseEnds, GoTo
  <2>3. w \notin LinkPass
    BY <2>1, <2>2 DEF Phase
  <2>. QED
    BY <1>1, <1>4, <1>s, <2>3 DEF PhaseEnds, GoTo, TypeOK, batchVars
<1>5. CASE List(w)
  <2>1. ASSUME NEW a \in Batch
        PROVE  [artist |-> a, id |-> identity[a]] \in Entry
    BY ConstantsAssumption DEF TypeOK, Batch, Missing, Entry
  <2>2. {[artist |-> a, id |-> identity[a]] : a \in Batch} \subseteq Entry
    BY <2>1
  <2>3. /\ listed' \in [Process -> SUBSET Entry]
        /\ todo' \in [Process -> SUBSET Entry]
    BY <1>5, <2>2 DEF TypeOK, List
  <2>. QED
    BY <1>1, <1>5, <1>s, <2>3 DEF List, GoTo, TypeOK
<1>6. ASSUME NEW e \in todo[w], CacheMiss(w, e)
      PROVE  TypeOK'
  BY <1>1, <1>6, <1>s DEF CacheMiss, GoTo, TypeOK, batchVars
<1>7. ASSUME NEW e \in todo[w], LookupFails(w, e)
      PROVE  TypeOK'
  <2>1. e.artist \in Artist
    BY DEF TypeOK, Entry
  <2>2. /\ todo' \in [Process -> SUBSET Entry]
        /\ errors' \in [Process -> SUBSET Artist]
    BY <1>7, <2>1 DEF LookupFails, Rest, TypeOK
  <2>. QED
    BY <1>1, <1>7, <1>s, <2>2 DEF LookupFails, GoTo, TypeOK
<1>. QED
  BY <1>2, <1>3, <1>4, <1>5, <1>6, <1>7

LEMMA LateType ==
  ASSUME TypeOK, NEW w \in Process,
         PhaseRaises(w) \/ SaveRaises(w) \/ PassEnds(w) \/ Kill(w)
  PROVE  TypeOK'
<1>1. CASE PhaseRaises(w)
  <2>. run' \in [Worker -> Run \cup {NoRun}] /\ unrecorded' \subseteq Worker
    BY <1>1, RecordedType DEF PhaseRaises
  <2>. QED
    BY <1>1, LeaveType DEF PhaseRaises, TypeOK
<1>2. CASE SaveRaises(w)
  <2>. run' \in [Worker -> Run \cup {NoRun}] /\ unrecorded' \subseteq Worker
    BY <1>2, RecordedType DEF SaveRaises
  <2>. QED
    BY <1>2, LeaveType DEF SaveRaises, TypeOK
<1>3. CASE PassEnds(w)
  <2>1. run' \in [Worker -> Run \cup {NoRun}] /\ unrecorded' \subseteq Worker
    BY <1>3, RecordedType DEF PassEnds
  <2>2. CASE Leave(w)
    BY <1>3, <2>1, <2>2, LeaveType DEF PassEnds, TypeOK
  <2>3. CASE GoTo(w, "lookup", "idle") /\ UNCHANGED batchVars
    <3>1. "idle" \in Stage /\ "idle" \notin Phase
      BY DEF Stage, Phase
    <3>. QED
      BY <1>3, <2>1, <2>3, <3>1, StepType
      DEF PassEnds, GoTo, TypeOK, artistVars, batchVars
  <2>. QED
    BY <1>3, <2>2, <2>3 DEF PassEnds
<1>4. CASE Kill(w)
  <2>. kills' \in 0..MaxKills /\ unrecorded' \subseteq Worker
    BY <1>4, ConstantsAssumption DEF Kill, TypeOK
  <2>. QED
    BY <1>4, LeaveType DEF Kill, TypeOK
<1>. QED
  BY <1>1, <1>2, <1>3, <1>4

LEMMA NextType == TypeOK /\ [Next]_vars => TypeOK'
<1>. SUFFICES ASSUME TypeOK, [Next]_vars PROVE TypeOK'
  OBVIOUS
<1>1. CASE UNCHANGED vars
  BY <1>1 DEF vars, TypeOK, Storing
<1>2. ASSUME NEW a \in Artist, NEW m \in Mbid, Verify(a, m)
      PROVE  TypeOK'
  BY <1>2 DEF Verify, TypeOK, Storing, batchVars
<1>3. ASSUME NEW w \in Process, Step(w)
      PROVE  TypeOK'
  <2>1. CASE \/ StartRun(w) \/ StartLinkPass(w) \/ PhaseEnds(w) \/ List(w)
             \/ \E e \in todo[w] : CacheMiss(w, e) \/ LookupFails(w, e)
    BY <2>1, EarlyType
  <2>2. CASE PhaseRaises(w) \/ SaveRaises(w) \/ PassEnds(w) \/ Kill(w)
    BY <2>2, LateType
  <2>3. ASSUME NEW e \in todo[w], CacheHit(w, e)
        PROVE  TypeOK'
    BY <2>3, Payloads, AnsweredType DEF CacheHit, TypeOK
  <2>4. ASSUME NEW e \in todo[w], NEW p \in Payload, Response(w, e, p)
        PROVE  TypeOK'
    <3>. cache' \in [Mbid -> Payload \cup {None}]
      BY <2>4 DEF Response, TypeOK
    <3>. QED
      BY <2>4, AnsweredType DEF Response
  <2>5. CASE Find(w)
    BY <2>5, FindType
  <2>6. CASE Write(w)
    BY <2>6, WriteIsWrote, WroteType
  <2>. QED
    BY <1>3, <2>1, <2>2, <2>3, <2>4, <2>5, <2>6 DEF Step, Lookup, Answer, Save
<1>. QED
  BY <1>1, <1>2, <1>3 DEF Next

\* Every reachable state has its type.
THEOREM WorkerTypeCorrect == Spec => []TypeOK
  BY InitType, NextType, PTL DEF Spec

-----------------------------------------------------------------------------
\* What a step does to the links.

LEMMA WroteLink ==
  ASSUME TypeOK, NEW w \in Process, NEW s \in Saving, NEW p \in Payload,
         Wrote(w, s, p)
  PROVE  \A a \in Artist, f \in Field, m \in Mbid :
           link'[a][f][m] = IF a = s.artist /\ f = s.field /\ m = s.id
                              THEN p ELSE link[a][f][m]
<1>1. s.artist \in Artist /\ s.field \in Field /\ s.id \in Mbid
  BY DEF Saving
<1>2. link' = [link EXCEPT ![s.artist] =
                 [link[s.artist] EXCEPT ![s.field] =
                    [link[s.artist][s.field] EXCEPT ![s.id] = p]]]
  BY DEF Wrote
<1>3. /\ link[s.artist] \in [Field -> [Mbid -> Payload \cup {None}]]
      /\ link[s.artist][s.field] \in [Mbid -> Payload \cup {None}]
  BY <1>1 DEF TypeOK
<1>. QED
  BY <1>1, <1>2, <1>3 DEF TypeOK

\* Rows stay.
LEMMA LinksStay ==
  ASSUME TypeOK, [Next]_vars
  PROVE  \A a \in Artist, f \in Field, m \in Mbid :
           link[a][f][m] # None => link'[a][f][m] # None
<1>1. CASE UNCHANGED link
  BY <1>1
<1>2. ASSUME NEW w \in Process, Write(w)
      PROVE  \A a \in Artist, f \in Field, m \in Mbid :
               link[a][f][m] # None => link'[a][f][m] # None
  <2>1. \A a \in Artist, f \in Field, m \in Mbid :
          link'[a][f][m] = link[a][f][m] \/ link'[a][f][m] = saving[w].payload
    BY <1>2, WriteIsWrote, WroteLink
  <2>2. saving[w].payload # None
    BY <1>2, WriteIsWrote, ConstantsAssumption
  <2>. QED
    BY <2>1, <2>2
<1>3. UNCHANGED link \/ \E w \in Process : Write(w)
  BY DEF Next, Step, vars, Verify, StartRun, StartLinkPass, PhaseEnds,
         PhaseRaises, List, Lookup, Answer, CacheHit, CacheMiss, Response,
         LookupFails, Answered, Find, Save, SaveRaises, PassEnds, Kill,
         artistVars
<1>. QED
  BY <1>1, <1>2, <1>3

LEMMA CompleteStays ==
  ASSUME TypeOK, [Next]_vars, NEW a \in Artist, Complete(a)
  PROVE  Complete(a)'
<1>. SUFFICES ASSUME NEW f \in Field
              PROVE  \E m \in Mbid : link'[a][f][m] # None
  BY DEF Complete, Checked
<1>1. PICK m \in Mbid : link[a][f][m] # None
  BY DEF Complete, Checked
<1>. QED
  BY <1>1, LinksStay

-----------------------------------------------------------------------------
\* The links of an artist come from one answer.

LinkInv == InOrder /\ SaveInv /\ LinksAgree

LEMMA InitLink == Init => LinkInv
<1>. SUFFICES ASSUME Init PROVE LinkInv
  OBVIOUS
<1>1. \A a \in Artist, f \in Field, m \in Mbid : link[a][f][m] = None
  BY DEF Init
<1>2. 1 \in Field /\ 2 \in Field /\ 3 \in Field
  BY DEF Field
<1>3. \A w \in Process : ~ Storing(w)
  BY DEF Init, Storing
<1>4. InOrder
  BY <1>1, <1>2 DEF InOrder
<1>5. LinksAgree
  BY <1>1, <1>2 DEF LinksAgree
<1>. QED
  BY <1>3, <1>4, <1>5 DEF LinkInv, SaveInv

\* A process stores the same as before, or nothing any more.
Same(v) ==
  Storing(v)' =>
    /\ Storing(v)
    /\ saving'[v].artist = saving[v].artist
    /\ saving'[v].id = saving[v].id
    /\ saving'[v].payload = saving[v].payload
    /\ saving'[v].field = saving[v].field

LEMMA QuietLink ==
  ASSUME LinkInv, UNCHANGED <<link, raced>>, \A v \in Process : Same(v)
  PROVE  LinkInv'
<1>1. InOrder' /\ LinksAgree'
  BY DEF LinkInv, InOrder, LinksAgree
<1>2. ASSUME NEW w \in Process, Storing(w)'
      PROVE  /\ Behind(saving[w])'
             /\ saving'[w].artist \notin raced' =>
                  /\ Own(saving[w])'
                  /\ \A v \in Process \ {w} :
                       ~ (Storing(v)' /\ saving'[v].artist = saving'[w].artist)
  <2>1. /\ Storing(w)
        /\ saving'[w].artist = saving[w].artist
        /\ saving'[w].id = saving[w].id
        /\ saving'[w].payload = saving[w].payload
        /\ saving'[w].field = saving[w].field
    BY <1>2 DEF Same
  <2>2. /\ Behind(saving[w])
        /\ saving[w].artist \notin raced =>
             /\ Own(saving[w])
             /\ \A v \in Process \ {w} :
                  ~ (Storing(v) /\ saving[v].artist = saving[w].artist)
    BY <2>1 DEF LinkInv, SaveInv
  <2>3. Behind(saving[w])'
    BY <2>1, <2>2 DEF Behind
  <2>4. ASSUME saving'[w].artist \notin raced'
        PROVE  Own(saving[w])'
    BY <2>1, <2>2, <2>4 DEF Own
  <2>5. ASSUME saving'[w].artist \notin raced', NEW v \in Process \ {w},
               Storing(v)', saving'[v].artist = saving'[w].artist
        PROVE  FALSE
    BY <2>1, <2>2, <2>5 DEF Same
  <2>. QED
    BY <2>3, <2>4, <2>5
<1>3. SaveInv'
  BY <1>2 DEF SaveInv
<1>. QED
  BY <1>1, <1>3 DEF LinkInv

\* An artist that is not complete has no last field under any identity.
LEMMA LastMissing ==
  ASSUME InOrder, NEW a \in Artist, ~ Complete(a), NEW m \in Mbid
  PROVE  link[a][3][m] = None
<1>1. link[a][3][m] # None => link[a][2][m] # None /\ link[a][1][m] # None
  BY DEF InOrder
<1>2. link[a][3][m] # None => Checked(a, 1) /\ Checked(a, 2) /\ Checked(a, 3)
  BY <1>1 DEF Checked
<1>. QED
  BY <1>2 DEF Complete, Field

LEMMA AnsweredLink ==
  ASSUME TypeOK, LinkInv, NEW w \in Process, NEW e \in todo[w],
         NEW p \in Payload, Answered(w, e, p), pc[w] \in {"lookup", "request"}
  PROVE  LinkInv'
<1>e. e.artist \in Artist /\ e.id \in Mbid
  BY DEF TypeOK, Entry
<1>1. /\ UNCHANGED link
      /\ saving'[w] = [artist |-> e.artist, id |-> e.id, payload |-> p,
                       field |-> 1, found |-> FALSE]
      /\ \A v \in Process \ {w} : saving'[v] = saving[v]
      /\ \A v \in Process \ {w} : Storing(v)' <=> Storing(v)
      /\ raced \subseteq raced'
      /\ ~ Storing(w)
  BY DEF TypeOK, Answered, Storing
<1>2. e.artist \notin raced' =>
        /\ ~ Complete(e.artist)
        /\ \A v \in Process : ~ (Storing(v) /\ saving[v].artist = e.artist)
  BY DEF Answered
<1>3. InOrder' /\ LinksAgree'
  BY <1>1 DEF LinkInv, InOrder, LinksAgree
<1>4. Behind(saving[w])'
  BY <1>1 DEF Behind, Field
<1>5. ASSUME e.artist \notin raced'
      PROVE  Own(saving[w])'
  <2>1. link[e.artist][3][e.id] = None
    BY <1>2, <1>5, <1>e, LastMissing DEF LinkInv
  <2>. QED
    BY <2>1, <1>1 DEF Own, Field
<1>6. ASSUME NEW u \in Process \ {w}, Storing(u)
      PROVE  /\ Behind(saving[u])'
             /\ saving[u].artist \notin raced' =>
                  /\ Own(saving[u])'
                  /\ saving[u].artist # e.artist
                  /\ \A v \in Process \ {u} :
                       ~ (Storing(v) /\ saving[v].artist = saving[u].artist)
  <2>1. /\ Behind(saving[u])
        /\ saving[u].artist \notin raced =>
             /\ Own(saving[u])
             /\ \A v \in Process \ {u} :
                  ~ (Storing(v) /\ saving[v].artist = saving[u].artist)
    BY <1>6 DEF LinkInv, SaveInv
  <2>2. Behind(saving[u])'
    BY <2>1, <1>1 DEF Behind
  <2>3. Own(saving[u]) => Own(saving[u])'
    BY <1>1 DEF Own
  <2>. QED
    BY <2>1, <2>2, <2>3, <1>1, <1>2, <1>6
<1>7. SaveInv'
  BY <1>1, <1>2, <1>4, <1>5, <1>6 DEF SaveInv
<1>. QED
  BY <1>3, <1>7 DEF LinkInv

LEMMA WriteLink ==
  ASSUME TypeOK, LinkInv, NEW w \in Process, Write(w)
  PROVE  LinkInv'
<1>. DEFINE s == saving[w]
<1>s. /\ s \in Saving /\ s.payload \in Payload /\ s.payload # None
      /\ s.artist \in Artist /\ s.id \in Mbid /\ s.field \in Field
      /\ Wrote(w, s, s.payload)
      /\ Storing(w)
  BY WriteIsWrote, ConstantsAssumption DEF Saving, Write, Storing
<1>l. \A a \in Artist, f \in Field, m \in Mbid :
        link'[a][f][m] = IF a = s.artist /\ f = s.field /\ m = s.id
                           THEN s.payload ELSE link[a][f][m]
  BY <1>s, WroteLink
<1>b. /\ \A f \in Field : f < s.field => link[s.artist][f][s.id] # None
      /\ s.artist \notin raced =>
           /\ \A f \in Field : f < s.field => link[s.artist][f][s.id] = s.payload
           /\ link[s.artist][3][s.id] = None
  BY <1>s DEF LinkInv, SaveInv, Behind, Own
<1>f. 1 \in Field /\ 2 \in Field /\ 3 \in Field
  BY DEF Field
<1>r. UNCHANGED raced
  BY <1>s DEF Wrote
<1>1. InOrder'
  <2>. SUFFICES ASSUME NEW a \in Artist, NEW m \in Mbid
                PROVE  /\ link'[a][2][m] # None => link'[a][1][m] # None
                       /\ link'[a][3][m] # None => link'[a][2][m] # None
    BY DEF InOrder
  <2>1. /\ link[a][2][m] # None => link[a][1][m] # None
        /\ link[a][3][m] # None => link[a][2][m] # None
    BY DEF LinkInv, InOrder
  <2>2. CASE a = s.artist /\ m = s.id
    <3>1. /\ s.field > 1 => link[a][1][m] # None
          /\ s.field > 2 => link[a][2][m] # None
      BY <1>b, <1>f, <1>s, <2>2 DEF Field
    <3>2. \A f \in Field :
            link'[a][f][m] = IF f = s.field THEN s.payload ELSE link[a][f][m]
      BY <1>l, <2>2
    <3>. HIDE DEF s
    <3>. QED
      BY <2>1, <3>1, <3>2, <1>s, <1>f DEF Field
  <2>3. CASE ~ (a = s.artist /\ m = s.id)
    BY <1>l, <1>f, <2>1, <2>3
  <2>. QED
    BY <2>2, <2>3
<1>2. LinksAgree'
  <2>. SUFFICES ASSUME NEW a \in Artist \ raced, NEW m \in Mbid,
                       link'[a][3][m] # None, NEW f \in Field
                PROVE  link'[a][f][m] = link'[a][3][m]
    BY <1>r DEF LinksAgree
  <2>1. CASE a = s.artist /\ m = s.id
    <3>1. s.field = 3
      BY <1>b, <1>l, <1>f, <2>1
    <3>2. f < 3 \/ f = 3
      BY DEF Field
    <3>. QED
      BY <1>b, <1>l, <1>f, <2>1, <3>1, <3>2
  <2>2. CASE ~ (a = s.artist /\ m = s.id)
    BY <1>l, <1>f, <2>2 DEF LinkInv, LinksAgree
  <2>. QED
    BY <2>1, <2>2
<1>3. ASSUME NEW u \in Process \ {w}, Storing(u)'
      PROVE  /\ Storing(u) /\ saving'[u] = saving[u]
             /\ Behind(saving[u])'
             /\ saving[u].artist \notin raced => Own(saving[u])'
  <2>1. Storing(u) /\ saving'[u] = saving[u]
    BY <1>s, <1>3 DEF Wrote, Storing, TypeOK
  <2>2. saving[u] \in Saving
    BY <2>1 DEF TypeOK
  <2>3. /\ saving[u].artist \in Artist /\ saving[u].id \in Mbid
        /\ saving[u].field \in Field
    BY <2>2 DEF Saving
  <2>4. Behind(saving[u])
    BY <2>1 DEF LinkInv, SaveInv
  <2>5. Behind(saving[u])'
    BY <2>1, <2>3, <2>4, <1>l, <1>s DEF Behind
  <2>6. ASSUME saving[u].artist \notin raced
        PROVE  Own(saving[u])'
    <3>1. Own(saving[u]) /\ saving[u].artist # s.artist
      BY <2>1, <2>6, <1>s DEF LinkInv, SaveInv
    <3>. QED
      BY <3>1, <2>1, <2>3, <1>l, <1>f DEF Own
  <2>. QED
    BY <2>1, <2>5, <2>6
<1>4. ASSUME Storing(w)'
      PROVE  /\ saving'[w].artist = s.artist
             /\ Behind(saving[w])'
             /\ s.artist \notin raced => Own(saving[w])'
  <2>1. s.field # 3
    BY <1>4, <1>s DEF Wrote, LastField, Storing, TypeOK
  <2>2. saving'[w] = [s EXCEPT !.field = @ + 1]
    BY <2>1, <1>s DEF Wrote, LastField, TypeOK
  <2>3. /\ saving'[w].artist = s.artist /\ saving'[w].id = s.id
        /\ saving'[w].payload = s.payload /\ saving'[w].field = s.field + 1
    BY <2>2, <1>s DEF Saving
  <2>4. \A f \in Field : f < s.field + 1 => f < s.field \/ f = s.field
    BY <1>s DEF Field
  <2>5. Behind(saving[w])'
    BY <2>3, <2>4, <1>b, <1>l, <1>s DEF Behind
  <2>6. ASSUME s.artist \notin raced
        PROVE  Own(saving[w])'
    BY <2>1, <2>3, <2>4, <2>6, <1>b, <1>l, <1>s, <1>f DEF Own
  <2>. QED
    BY <2>3, <2>5, <2>6
<1>5. SaveInv'
  <2>. SUFFICES ASSUME NEW u \in Process, Storing(u)'
                PROVE  /\ Behind(saving[u])'
                       /\ saving'[u].artist \notin raced' =>
                            /\ Own(saving[u])'
                            /\ \A v \in Process \ {u} :
                                 ~ (Storing(v)' /\ saving'[v].artist = saving'[u].artist)
    BY DEF SaveInv
  <2>1. \A v \in Process : Storing(v)' =>
          Storing(v) /\ saving'[v].artist = saving[v].artist
    BY <1>3, <1>4, <1>s
  <2>2. saving[u].artist \notin raced =>
          \A v \in Process \ {u} :
            ~ (Storing(v) /\ saving[v].artist = saving[u].artist)
    BY <2>1 DEF LinkInv, SaveInv
  <2>3. Behind(saving[u])' /\ (saving[u].artist \notin raced => Own(saving[u])')
    BY <1>3, <1>4
  <2>. QED
    BY <2>1, <2>2, <2>3, <1>r
<1>. QED
  BY <1>1, <1>2, <1>5 DEF LinkInv

LEMMA NextLink == TypeOK /\ LinkInv /\ [Next]_vars => LinkInv'
<1>. SUFFICES ASSUME TypeOK, LinkInv, [Next]_vars PROVE LinkInv'
  OBVIOUS
<1>q. ASSUME UNCHANGED <<link, raced>>, \A v \in Process : Same(v)
      PROVE  LinkInv'
  BY <1>q, QuietLink
<1>1. CASE UNCHANGED vars
  BY <1>1, <1>q DEF vars, Same, Storing
<1>2. ASSUME NEW a \in Artist, NEW m \in Mbid, Verify(a, m)
      PROVE  LinkInv'
  BY <1>2, <1>q DEF Verify, Same, Storing, batchVars
<1>3. ASSUME NEW w \in Process, Step(w)
      PROVE  LinkInv'
  <2>1. CASE \/ StartRun(w) \/ StartLinkPass(w) \/ PhaseEnds(w) \/ List(w)
             \/ \E e \in todo[w] : CacheMiss(w, e) \/ LookupFails(w, e)
    <3>1. /\ UNCHANGED <<link, raced, saving>>
          /\ \A v \in Process : Storing(v)' => Storing(v)
      BY <2>1 DEF StartRun, StartLinkPass, PhaseEnds, List, CacheMiss,
           LookupFails, GoTo, Storing, artistVars, batchVars, TypeOK
    <3>. QED
      BY <3>1, <1>q DEF Same
  <2>2. CASE PhaseRaises(w) \/ SaveRaises(w) \/ PassEnds(w) \/ Kill(w)
    <3>1. /\ UNCHANGED <<link, raced>>
          /\ \A v \in Process : Storing(v)' => Storing(v)
          /\ \A v \in Process \ {w} : saving'[v] = saving[v]
          /\ ~ Storing(w)'
      BY <2>2 DEF PhaseRaises, SaveRaises, PassEnds, Kill, Leave, GoTo,
           Storing, artistVars, batchVars, TypeOK
    <3>. QED
      BY <3>1, <1>q DEF Same
  <2>3. ASSUME NEW e \in todo[w], CacheHit(w, e)
        PROVE  LinkInv'
    BY <2>3, Payloads, AnsweredLink DEF CacheHit
  <2>4. ASSUME NEW e \in todo[w], NEW p \in Payload, Response(w, e, p)
        PROVE  LinkInv'
    BY <2>4, AnsweredLink DEF Response
  <2>5. CASE Find(w)
    <3>1. Storing(w) /\ saving[w] \in Saving
      BY <2>5 DEF Find, GoTo, Storing, TypeOK
    <3>2. /\ UNCHANGED <<link, raced>>
          /\ \A v \in Process : Storing(v)' => Storing(v)
          /\ \A v \in Process \ {w} : saving'[v] = saving[v]
          /\ saving'[w] = [saving[w] EXCEPT !.found = (Stored(saving[w]) # None)]
      BY <2>5, <3>1 DEF Find, GoTo, Storing, artistVars, TypeOK
    <3>3. Same(w)
      BY <3>1, <3>2 DEF Same, Saving
    <3>. QED
      BY <3>2, <3>3, <1>q DEF Same
  <2>6. CASE Write(w)
    BY <2>6, WriteLink
  <2>. QED
    BY <1>3, <2>1, <2>2, <2>3, <2>4, <2>5, <2>6 DEF Step, Lookup, Answer, Save
<1>. QED
  BY <1>1, <1>2, <1>3 DEF Next

\* The links of an artist under one identity come from one answer, unless two
\* passes had the artist at once, however often passes are killed or fail.
THEOREM LinksOfOneAnswer == Spec => []LinksAgree
<1>1. Spec => [](TypeOK /\ LinkInv)
  BY InitType, NextType, InitLink, NextLink, PTL DEF Spec
<1>2. LinkInv => LinksAgree
  BY DEF LinkInv
<1>. QED
  BY <1>1, <1>2, PTL

-----------------------------------------------------------------------------
\* The rows of the runs tell what happened.

RunInv == RunsTold /\ BatchInv

LEMMA InitRun == Init => RunInv
  BY DEF Init, RunInv, RunsTold, Told, BatchInv, InBatch, NoRun, Process

\* An entry that is accounted for stays so, as long as the process has not
\* dropped it.
LEMMA AccountedStays ==
  ASSUME TypeOK, [Next]_vars, NEW w \in Process, NEW e \in Entry,
         Accounted(w, e), UNCHANGED <<todo[w], errors[w]>>,
         Storing(w) => Storing(w)' /\ saving'[w].artist = saving[w].artist
  PROVE  Accounted(w, e)'
<1>1. e.artist \in Artist
  BY DEF Entry
<1>2. Complete(e.artist) => Complete(e.artist)'
  BY <1>1, CompleteStays
<1>. QED
  BY <1>2 DEF Accounted

\* What holds of a process that takes no step.
LEMMA Unmoved ==
  ASSUME TypeOK, RunInv, [Next]_vars, NEW v \in Process,
         UNCHANGED <<pc[v], listed[v], todo[v], errors[v], saving[v]>>,
         v \in Worker => UNCHANGED run[v],
         v \in unrecorded' <=> v \in unrecorded
  PROVE  /\ v \in Worker => Told(v)'
         /\ InBatch(v)' => \A e \in listed'[v] : Accounted(v, e)'
<1>1. \A e \in listed[v] : e \in Entry /\ e.artist \in Artist
  BY DEF TypeOK, Entry
<1>2. \A e \in listed[v] : Complete(e.artist) => Complete(e.artist)'
  BY <1>1, CompleteStays
<1>3. ASSUME InBatch(v)', NEW e \in listed'[v]
      PROVE  Accounted(v, e)'
  <2>1. Accounted(v, e)
    BY <1>3 DEF RunInv, BatchInv, InBatch
  <2>2. Storing(v) => Storing(v)'
    BY DEF Storing
  <2>. QED
    BY <1>1, <2>1, <2>2, AccountedStays
<1>4. ASSUME v \in Worker PROVE Told(v)'
  <2>1. Told(v)
    BY <1>4 DEF RunInv, RunsTold
  <2>. QED
    BY <1>2, <1>4, <2>1 DEF Told
<1>. QED
  BY <1>3, <1>4

\* It is enough to look at the process that takes the step.
LEMMA MoverOnly ==
  ASSUME TypeOK, RunInv, [Next]_vars, NEW w \in Process,
         \A v \in Process \ {w} :
           UNCHANGED <<pc[v], listed[v], todo[v], errors[v], saving[v]>>,
         \A v \in Worker \ {w} :
           UNCHANGED run[v] /\ (v \in unrecorded' <=> v \in unrecorded),
         w \in Worker => Told(w)',
         InBatch(w)' => \A e \in listed'[w] : Accounted(w, e)'
  PROVE  RunInv'
<1>1. ASSUME NEW v \in Process \ {w}
      PROVE  /\ v \in Worker => Told(v)'
             /\ InBatch(v)' => \A e \in listed'[v] : Accounted(v, e)'
  <2>1. /\ v \in Worker => UNCHANGED run[v]
        /\ v \in unrecorded' <=> v \in unrecorded
    BY NextType DEF TypeOK
  <2>. QED
    BY <2>1, Unmoved
<1>2. \A v \in Worker : Told(v)'
  BY <1>1 DEF Process
<1>3. \A v \in Process : InBatch(v)' => \A e \in listed'[v] : Accounted(v, e)'
  BY <1>1
<1>. QED
  BY <1>2, <1>3 DEF RunInv, RunsTold, BatchInv

LEMMA EarlyRun ==
  ASSUME TypeOK, RunInv, [Next]_vars, NEW w \in Process,
         \/ StartRun(w) \/ StartLinkPass(w) \/ PhaseEnds(w) \/ List(w)
         \/ PhaseRaises(w) \/ SaveRaises(w) \/ Kill(w)
  PROVE  RunInv'
<1>t. w \in Worker => Told(w)
  BY DEF RunInv, RunsTold
<1>f. /\ \A v \in Process \ {w} :
           UNCHANGED <<pc[v], listed[v], todo[v], errors[v], saving[v]>>
      /\ \A v \in Worker \ {w} :
           UNCHANGED run[v] /\ (v \in unrecorded' <=> v \in unrecorded)
  BY DEF StartRun, StartLinkPass, PhaseEnds, List, PhaseRaises, SaveRaises,
       Kill, Leave, Recorded, GoTo, batchVars, TypeOK
<1>1. CASE StartRun(w)
  <2>1. /\ pc'[w] = "sync" /\ run'[w] = [status |-> "running", phases |-> 0]
        /\ w \notin unrecorded'
    BY <1>1 DEF StartRun, GoTo, TypeOK
  <2>. QED
    BY <1>f, <2>1, MoverOnly DEF Told, InBatch
<1>2. CASE StartLinkPass(w)
  <2>1. pc'[w] = "list" /\ w \notin Worker
    BY <1>2, ConstantsAssumption DEF StartLinkPass, GoTo, TypeOK
  <2>. QED
    BY <1>f, <2>1, MoverOnly DEF InBatch
<1>3. CASE PhaseEnds(w)
  <2>1. /\ pc[w] # "idle" /\ pc'[w] \in {"artists", "list"}
        /\ UNCHANGED <<run, unrecorded, kills>>
    BY <1>3 DEF PhaseEnds, GoTo, TypeOK
  <2>2. w \in Worker => Told(w)'
    BY <1>t, <2>1 DEF Told
  <2>. QED
    BY <1>f, <2>1, <2>2, MoverOnly DEF InBatch
<1>4. CASE List(w)
  <2>1. /\ pc[w] # "idle" /\ pc'[w] = "lookup"
        /\ UNCHANGED <<run, unrecorded, kills>> /\ todo'[w] = listed'[w]
    BY <1>4 DEF List, GoTo, TypeOK
  <2>2. w \in Worker => Told(w)'
    BY <1>t, <2>1 DEF Told
  <2>3. \A e \in listed'[w] : Accounted(w, e)'
    BY <2>1 DEF Accounted
  <2>. QED
    BY <1>f, <2>2, <2>3, MoverOnly
<1>5. CASE PhaseRaises(w) \/ SaveRaises(w)
  <2>1. /\ pc[w] # "idle" /\ pc'[w] = "idle"
        /\ w \in Worker =>
             \/ run'[w].status = "failed" /\ run'[w].phases < 3
             \/ UNCHANGED run[w] /\ w \in unrecorded'
    BY <1>5 DEF PhaseRaises, SaveRaises, Leave, Recorded, Phase, TypeOK
  <2>2. w \in Worker => Told(w)'
    BY <1>t, <2>1 DEF Told
  <2>. QED
    BY <1>f, <2>1, <2>2, MoverOnly DEF InBatch
<1>6. CASE Kill(w)
  <2>1. /\ pc[w] # "idle" /\ pc'[w] = "idle" /\ UNCHANGED run
        /\ w \in Worker => w \in unrecorded'
    BY <1>6 DEF Kill, Leave, TypeOK
  <2>2. w \in Worker => Told(w)'
    BY <1>t, <2>1 DEF Told
  <2>. QED
    BY <1>f, <2>1, <2>2, MoverOnly DEF InBatch
<1>. QED
  BY <1>1, <1>2, <1>3, <1>4, <1>5, <1>6

\* A process that goes on with its batch.
LEMMA BatchRun ==
  ASSUME TypeOK, RunInv, [Next]_vars, NEW w \in Process, InBatch(w),
         \A v \in Process \ {w} :
           UNCHANGED <<pc[v], listed[v], todo[v], errors[v], saving[v]>>,
         UNCHANGED <<listed, run, unrecorded, kills>>, pc'[w] # "idle",
         \A e \in listed[w] : Accounted(w, e) => Accounted(w, e)'
  PROVE  RunInv'
<1>1. w \in Worker => Told(w)
  BY DEF RunInv, RunsTold
<1>2. w \in Worker => Told(w)'
  BY <1>1 DEF Told, InBatch
<1>3. \A e \in listed'[w] : Accounted(w, e)'
  BY DEF RunInv, BatchInv
<1>. QED
  BY <1>2, <1>3, MoverOnly

LEMMA AnsweredRun ==
  ASSUME TypeOK, RunInv, [Next]_vars, NEW w \in Process, NEW d \in todo[w],
         NEW p \in Payload, Answered(w, d, p), pc[w] \in {"lookup", "request"}
  PROVE  RunInv'
<1>1. /\ \A v \in Process \ {w} :
           UNCHANGED <<pc[v], listed[v], todo[v], errors[v], saving[v]>>
      /\ UNCHANGED <<listed, errors, run, unrecorded, kills>>
      /\ pc'[w] = "find" /\ todo'[w] = todo[w] \ {d}
      /\ saving'[w].artist = d.artist
  BY DEF Answered, Rest, TypeOK
<1>2. ASSUME NEW e \in listed[w], Accounted(w, e)
      PROVE  Accounted(w, e)'
  <2>1. e.artist \in Artist
    BY DEF TypeOK, Entry
  <2>2. ~ Storing(w) /\ Storing(w)'
    BY <1>1 DEF Storing
  <2>3. Complete(e.artist) => Complete(e.artist)'
    BY <2>1, CompleteStays
  <2>. QED
    BY <1>1, <1>2, <2>2, <2>3 DEF Accounted
<1>3. InBatch(w)
  BY DEF InBatch
<1>. QED
  BY <1>1, <1>2, <1>3, BatchRun

\* The artist whose last field is written is complete.
LEMMA LastCompletes ==
  ASSUME TypeOK, LinkInv, NEW w \in Process, Write(w), saving[w].field = 3,
         NEW a \in Artist, a = saving[w].artist
  PROVE  Complete(a)'
<1>1. /\ saving[w] \in Saving /\ saving[w].payload \in Payload
      /\ saving[w].payload # None /\ saving[w].id \in Mbid
      /\ Wrote(w, saving[w], saving[w].payload)
      /\ Storing(w)
  BY WriteIsWrote, ConstantsAssumption DEF Saving, Write, Storing
<1>2. \A f \in Field : f < 3 => link[a][f][saving[w].id] # None
  BY <1>1 DEF LinkInv, SaveInv, Behind
<1>3. \A f \in Field : link'[a][f][saving[w].id] # None
  <2>. TAKE f \in Field
  <2>1. f < 3 \/ f = 3
    BY DEF Field
  <2>2. link'[a][f][saving[w].id] = IF f = 3 THEN saving[w].payload
                                             ELSE link[a][f][saving[w].id]
    BY <1>1, WroteLink
  <2>. QED
    BY <1>1, <1>2, <2>1, <2>2
<1>4. \A f \in Field : \E m \in Mbid : link'[a][f][m] # None
  BY <1>1, <1>3
<1>. QED
  BY <1>4 DEF Complete, Checked

LEMMA WriteRun ==
  ASSUME TypeOK, LinkInv, RunInv, [Next]_vars, NEW w \in Process, Write(w)
  PROVE  RunInv'
<1>1. /\ saving[w] \in Saving /\ Wrote(w, saving[w], saving[w].payload)
      /\ Storing(w) /\ InBatch(w)
  BY WriteIsWrote DEF Write, Storing, InBatch
<1>2. /\ \A v \in Process \ {w} :
           UNCHANGED <<pc[v], listed[v], todo[v], errors[v], saving[v]>>
      /\ UNCHANGED <<listed, todo, errors, run, unrecorded, kills>>
      /\ pc'[w] \in {"lookup", "find"}
  BY <1>1 DEF Wrote, TypeOK
<1>3. ASSUME NEW e \in listed[w], Accounted(w, e)
      PROVE  Accounted(w, e)'
  <2>1. e \in Entry /\ e.artist \in Artist
    BY DEF TypeOK, Entry
  <2>2. CASE saving[w].field = 3
    <3>1. Complete(e.artist) => Complete(e.artist)'
      BY <2>1, CompleteStays
    <3>2. e.artist = saving[w].artist => Complete(e.artist)'
      BY <2>1, <2>2, LastCompletes
    <3>. QED
      BY <1>2, <1>3, <3>1, <3>2 DEF Accounted
  <2>3. CASE saving[w].field # 3
    <3>1. pc'[w] = "find" /\ saving'[w] = [saving[w] EXCEPT !.field = @ + 1]
      BY <1>1, <2>3 DEF Wrote, LastField, TypeOK
    <3>2. Storing(w)' /\ saving'[w].artist = saving[w].artist
      BY <1>1, <3>1 DEF Storing, Saving
    <3>. QED
      BY <1>2, <1>3, <2>1, <3>2, AccountedStays
  <2>. QED
    BY <2>2, <2>3
<1>. QED
  BY <1>1, <1>2, <1>3, BatchRun

LEMMA NextRun == TypeOK /\ LinkInv /\ RunInv /\ [Next]_vars => RunInv'
<1>. SUFFICES ASSUME TypeOK, LinkInv, RunInv, [Next]_vars PROVE RunInv'
  OBVIOUS
<1>0. ASSUME UNCHANGED <<pc, listed, todo, errors, saving, run, unrecorded,
                         kills>>
      PROVE  RunInv'
  <2>1. ASSUME NEW v \in Process
        PROVE  /\ v \in Worker => Told(v)'
               /\ InBatch(v)' => \A e \in listed'[v] : Accounted(v, e)'
    BY <1>0, Unmoved
  <2>. QED
    BY <2>1 DEF RunInv, RunsTold, BatchInv, Process
<1>1. CASE UNCHANGED vars
  BY <1>0, <1>1 DEF vars
<1>2. ASSUME NEW a \in Artist, NEW m \in Mbid, Verify(a, m)
      PROVE  RunInv'
  BY <1>0, <1>2 DEF Verify, batchVars
<1>3. ASSUME NEW w \in Process, Step(w)
      PROVE  RunInv'
  <2>1. CASE \/ StartRun(w) \/ StartLinkPass(w) \/ PhaseEnds(w) \/ List(w)
             \/ PhaseRaises(w) \/ SaveRaises(w) \/ Kill(w)
    BY <2>1, EarlyRun
  <2>2. ASSUME NEW d \in todo[w], CacheHit(w, d)
        PROVE  RunInv'
    BY <2>2, Payloads, AnsweredRun DEF CacheHit
  <2>3. ASSUME NEW d \in todo[w], NEW p \in Payload, Response(w, d, p)
        PROVE  RunInv'
    BY <2>3, AnsweredRun DEF Response
  <2>4. ASSUME NEW d \in todo[w], CacheMiss(w, d) \/ LookupFails(w, d)
        PROVE  RunInv'
    <3>1. /\ InBatch(w) /\ pc'[w] # "idle"
          /\ \A v \in Process \ {w} :
               UNCHANGED <<pc[v], listed[v], todo[v], errors[v], saving[v]>>
          /\ UNCHANGED <<listed, run, unrecorded, kills, link, saving>>
          /\ ~ Storing(w)
          /\ \/ todo'[w] = todo[w]
             \/ todo'[w] = todo[w] \ {d} /\ d.artist \in errors'[w]
          /\ errors[w] \subseteq errors'[w]
      <4>1. CASE CacheMiss(w, d)
        BY <4>1 DEF CacheMiss, GoTo, InBatch, Storing, artistVars, batchVars,
             TypeOK
      <4>2. CASE LookupFails(w, d)
        BY <4>2 DEF LookupFails, GoTo, Rest, InBatch, Storing, artistVars, TypeOK
      <4>. QED
        BY <2>4, <4>1, <4>2
    <3>2. ASSUME NEW e \in listed[w], Accounted(w, e)
          PROVE  Accounted(w, e)'
      BY <3>1, <3>2 DEF Accounted, Complete, Checked
    <3>. QED
      BY <3>1, <3>2, BatchRun
  <2>5. CASE Find(w)
    <3>1. Storing(w) /\ saving[w] \in Saving
      BY <2>5 DEF Find, GoTo, Storing, TypeOK
    <3>2. /\ InBatch(w) /\ pc'[w] # "idle" /\ Storing(w)'
          /\ \A v \in Process \ {w} :
               UNCHANGED <<pc[v], listed[v], todo[v], errors[v], saving[v]>>
          /\ UNCHANGED <<listed, todo, errors, run, unrecorded, kills>>
          /\ saving'[w] = [saving[w] EXCEPT !.found = (Stored(saving[w]) # None)]
      BY <2>5 DEF Find, GoTo, Storing, InBatch, artistVars, TypeOK
    <3>3. saving'[w].artist = saving[w].artist
      BY <3>1, <3>2 DEF Saving
    <3>4. ASSUME NEW e \in listed[w], Accounted(w, e)
          PROVE  Accounted(w, e)'
      BY <3>2, <3>3, <3>4, AccountedStays DEF TypeOK
    <3>. QED
      BY <3>2, <3>4, BatchRun
  <2>6. CASE Write(w)
    BY <2>6, WriteRun
  <2>7. CASE PassEnds(w)
    <3>1. /\ \A v \in Process \ {w} :
             UNCHANGED <<pc[v], listed[v], todo[v], errors[v], saving[v]>>
          /\ UNCHANGED link
          /\ pc[w] # "idle" /\ pc'[w] = "idle" /\ ~ InBatch(w)'
          /\ w \in Worker => UNCHANGED <<listed, errors>>
      BY <2>7 DEF PassEnds, GoTo, Leave, InBatch, artistVars, batchVars, TypeOK
    <3>r. /\ \A v \in Worker \ {w} :
               UNCHANGED run[v] /\ (v \in unrecorded' <=> v \in unrecorded)
          /\ w \in Worker =>
               \/ run'[w] = [status |-> "succeeded", phases |-> 3]
               \/ UNCHANGED run[w] /\ w \in unrecorded'
      BY <2>7 DEF PassEnds, Recorded, TypeOK
    <3>2. ASSUME w \in Worker, NEW e \in listed[w]
          PROVE  Complete(e.artist) \/ e.artist \in errors[w]
      <4>1. Accounted(w, e) /\ ~ Storing(w) /\ todo[w] = {}
        BY <2>7 DEF RunInv, BatchInv, InBatch, PassEnds, Storing
      <4>. QED
        BY <4>1 DEF Accounted
    <3>3. ASSUME w \in Worker
          PROVE  Told(w)'
      <4>1. Told(w)
        BY <3>3 DEF RunInv, RunsTold
      <4>. QED
        BY <3>1, <3>r, <3>2, <3>3, <4>1 DEF Told, Complete, Checked
    <3>. QED
      BY <3>1, <3>r, <3>3, MoverOnly
  <2>. QED
    BY <1>3, <2>1, <2>2, <2>3, <2>4, <2>5, <2>6, <2>7
    DEF Step, Lookup, Answer, Save
<1>. QED
  BY <1>1, <1>2, <1>3 DEF Next

\* A run that is recorded as succeeded has accounted for its whole batch, one
\* recorded as failed did not reach its end, and one that is left running was
\* killed or could not write how it ended.
THEOREM RunsTellWhatHappened == Spec => []RunsTold
<1>1. Spec => [](TypeOK /\ LinkInv /\ RunInv)
  BY InitType, NextType, InitLink, NextLink, InitRun, NextRun, PTL DEF Spec
<1>2. RunInv => RunsTold
  BY DEF RunInv
<1>. QED
  BY <1>1, <1>2, PTL
=============================================================================
