--------------------------- MODULE MCRequestPacer ---------------------------
(***************************************************************************)
(* A finite instance of RequestPacer: the worker and the web application   *)
(* with the least interval, the command line with a greater one.           *)
(***************************************************************************)
EXTENDS RequestPacer, TLC

CONSTANTS worker, webapp, cli

MCInterval == worker :> 2 @@ webapp :> 2 @@ cli :> 3

\* The worker and the web application are alike.
Alike == Permutations({worker, webapp})
=============================================================================
