-------------------------- MODULE MCEventOverlays --------------------------
(***************************************************************************)
(* Finite instances of EventOverlays.                                      *)
(***************************************************************************)
EXTENDS EventOverlays, TLC

CONSTANTS e1, e2, v1, v2, p1, p2

TwoRanks == e1 :> 1 @@ e2 :> 2

\* The first event changes and disappears; the second one stays as it is.
Changing == e1 :> {v1, v2, None} @@ e2 :> {v1}

\* Two requests for the page of the event that changes.
TwoVisits == e1 :> 2 @@ e2 :> 0

\* The web application synchronises, the command line runs passes.
WebAndPasses ==
  p1 :> {"titles", "rules", "ticketmaster"} @@ p2 :> {"sync"}
=============================================================================
