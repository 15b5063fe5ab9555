--------------------------- MODULE MCEventListing ---------------------------
(***************************************************************************)
(* A finite instance of EventListing.                                      *)
(***************************************************************************)
EXTENDS EventListing, TLC

CONSTANTS e1, e2, e3

TwoRanks ==
  [recent |-> e1 :> 1 @@ e2 :> 2 @@ e3 :> 3, upcoming |-> e1 :> 2 @@ e2 :> 3 @@ e3 :> 1]

\* An event of two days, one that is found by the search or has no date, and
\* one of the last day.
ThreeRenditions ==
  e1 :> {[start |-> 1, end |-> 2, hit |-> TRUE]} @@
  e2 :> {[start |-> 2, end |-> Absent, hit |-> TRUE],
         [start |-> Absent, end |-> Absent, hit |-> FALSE]} @@
  e3 :> {[start |-> 2, end |-> Absent, hit |-> FALSE]}

\* Addresses that leave the size open, and that are out of all bounds.
ThreeAddresses ==
  {[page |-> -1, size |-> 0, days |-> 7], [page |-> 9, size |-> 9, days |-> 0],
   [page |-> 1, size |-> -1, days |-> 7]}
=============================================================================
