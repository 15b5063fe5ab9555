--------------------------- MODULE MCVenueCatalog ---------------------------
(***************************************************************************)
(* Finite instances of VenueCatalog.                                       *)
(***************************************************************************)
EXTENDS VenueCatalog, TLC

CONSTANTS e1, e2, l1, l2, m1, m2, timer, cli, ed, tba

\* Two names with the same slug: "Club A" and "Club-A".
OneSlug == [l \in {l1, l2} |-> "club-a"]
OneNameEach == e1 :> {l1} @@ e2 :> {l2}
NoAnswers == [l \in {l1, l2} |-> {{}}]
NoExact == [l \in {l1, l2} |-> {}]

\* The second event changes between a venue and none.
ChangingNames == e1 :> {l1} @@ e2 :> {l2, tba}
TwoSlugs == l1 :> "bar" @@ l2 :> "club" @@ tba :> "tba"

\* m1 is the place of l1 and also suggested for l2.
MCAnswers == l1 :> {{}, {m1}} @@ l2 :> {{m1}} @@ tba :> {{}}
MCExact == l1 :> {m1} @@ l2 :> {} @@ tba :> {}
=============================================================================
