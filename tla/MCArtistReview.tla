--------------------------- MODULE MCArtistReview ---------------------------
(***************************************************************************)
(* Finite instances of ArtistReview.                                       *)
(***************************************************************************)
EXTENDS ArtistReview, TLC

CONSTANTS a1, a2, a3, m1, m2, timer, cli, web, ed

\* a3, whose lookups may always fail, is the first by name.
ByName == a3 :> 1 @@ a1 :> 2 @@ a2 :> 3
MCRank == [a \in Artist |-> ByName[a]]

\* m1 is the exact match of a1 and also suggested for a2, which has m2.
AnyAnswer == a1 :> {{}, {m1}, {m1, m2}} @@ a2 :> {{m1}, {m1, m2}}
MCExact == a1 :> {m1} @@ a2 :> {m2}

\* Each lookup of an artist gets the same answer: a1 is approved, a3 queued.
StableAnswer == a1 :> {{m1}} @@ a3 :> {{m1, m2}}
StableExact == a1 :> {m1} @@ a3 :> {}
=============================================================================
