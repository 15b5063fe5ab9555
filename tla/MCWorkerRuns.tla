---------------------------- MODULE MCWorkerRuns ----------------------------
(***************************************************************************)
(* Finite instances of WorkerRuns.                                         *)
(***************************************************************************)
EXTENDS WorkerRuns, TLC

CONSTANTS adele, bob, m1, lost, w, c

\* MusicBrainz has no answer for the first artist by name.
TwoRanks == adele :> 1 @@ bob :> 2
SomeIds == adele :> {lost} @@ bob :> {m1}
=============================================================================
