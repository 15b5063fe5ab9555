---------------------------- MODULE MCSourceSync ----------------------------
(***************************************************************************)
(* Finite instances of SourceSync.                                         *)
(***************************************************************************)
EXTENDS SourceSync, TLC

CONSTANTS e1, e2, e3, a, b, v1, v2, empty, broken, web, worker, live, dev, prod

MCEvent == {e1, e2, e3}
MCPayload == {a, b}

\* v2 drops e1, changes e2 and adds e3.
MCBody ==
  (v1 :> (e1 :> a @@ e2 :> a @@ e3 :> None)) @@
  (v2 :> (e1 :> None @@ e2 :> b @@ e3 :> a)) @@
  (empty :> [e \in MCEvent |-> None]) @@
  (broken :> [e \in MCEvent |-> None])
MCFirstRow == v1 :> e1 @@ v2 :> e2 @@ empty :> e1 @@ broken :> e1

AllVersions == {v1, v2, empty, broken}

\* The same without the versions that a run does not serve.
TwoVersions == {v1, v2}
TwoBodies == [v \in TwoVersions |-> MCBody[v]]
TwoFirstRows == [v \in TwoVersions |-> MCFirstRow[v]]

OneDb == [r \in {worker} |-> prod]
ThreeDb == web :> dev @@ worker :> dev @@ live :> prod

\* The two runners of the development database are alike.
Alike == Permutations({web, worker})
=============================================================================
