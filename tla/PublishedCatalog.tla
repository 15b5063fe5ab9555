-------------------------- MODULE PublishedCatalog --------------------------
(***************************************************************************)
(* What the listing pages may assume of the stored events: a database      *)
(* holds nothing, or all rows of one version of the feed.                  *)
(***************************************************************************)
CONSTANTS Database, Version, Event, Body, None

VARIABLE catalog

Nothing == [e \in Event |-> None]

Init == catalog = [d \in Database |-> Nothing]

Replace(d, v) ==
  /\ Body[v] # Nothing
  /\ catalog' = [catalog EXCEPT ![d] = Body[v]]

Next == \E d \in Database, v \in Version : Replace(d, v)

Spec == Init /\ [][Next]_catalog
=============================================================================
