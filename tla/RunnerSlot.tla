---------------------------- MODULE RunnerSlot ----------------------------
(***************************************************************************)
(* What SourceSync assumes of a process that synchronises: whatever asks   *)
(* for a sync, the process is one runner, busy with one sync or with none. *)
(***************************************************************************)
CONSTANTS Asker, None

VARIABLE runner  \* who the sync under way was started by

Init == runner = None

Begin == runner = None /\ runner' \in Asker
End == runner # None /\ runner' = None

Spec == Init /\ [][Begin \/ End]_runner
=============================================================================
