------------------------------ MODULE MCBackend ------------------------------
(***************************************************************************)
(* The container runner, and the times of the collector: they share no     *)
(* state, so one of them moves.                                            *)
(***************************************************************************)
EXTENDS MCDocker, ReaperClock

VARIABLE moving     \* the one that moves

BackendInit == moving \in {"runner", "collector"} /\ Init /\ ClockInit

BackendNext ==
    /\ \/ moving = "runner" /\ Next /\ UNCHANGED clockVars
       \/ moving = "collector" /\ ClockNext /\ UNCHANGED vars
    /\ UNCHANGED moving

\* Only what moves is fair.
BackendSpec ==
    /\ BackendInit /\ [][BackendNext]_<<vars, clockVars, moving>>
    /\ WF_vars(moving = "runner" /\ Reconcile)
    /\ \A c \in Caller : WF_vars(moving = "runner" /\ CallerStep(c))
=============================================================================
