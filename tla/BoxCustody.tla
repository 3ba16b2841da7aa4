----------------------------- MODULE BoxCustody -----------------------------
(***************************************************************************)
(* The promise behind "no leaked container" (the destruction paths listed  *)
(* at the head of usecase.go), without saying how it is kept: from the     *)
(* moment a container runs until it is gone, exactly one of two parties    *)
(* answers for it, the Start that has it in hand or the list the collector *)
(* reads; a Start does not keep one in hand for ever; and a container that *)
(* is gone never comes back.  A Start that dies with the process leaves    *)
(* its container behind, to nobody but Reconcile, which is then due; it    *)
(* ends every container there is.                                          *)
(***************************************************************************)
CONSTANT Box

VARIABLES
    custody,   \* who answers for a container
    due        \* Reconcile is still to run

cvars == <<custody, due>>

Init ==
    /\ custody = [b \in Box |-> "none"]
    /\ due = FALSE

Move(b, from, to) ==
    /\ custody[b] \in from
    /\ custody' = [custody EXCEPT ![b] = to]
    /\ UNCHANGED due

\* A Start runs the container.
Run(b) == Move(b, {"none"}, "inhand")

\* The Start hands it to the list, or gives up and stops it.
Settle(b) == Move(b, {"inhand"}, "listed") \/ Move(b, {"inhand"}, "gone")

\* A later Start takes it off the list, to replace it, or one that was left.
TakeOver(b) == Move(b, {"listed", "left"}, "inhand")

\* A late write puts one that was left back on the list.
Relist(b) == Move(b, {"left"}, "listed")

\* It is terminated or collected, or it dies.
Stop(b) == Move(b, {"listed", "left"}, "gone")

\* The process ends, and with it every Start.
Crash ==
    /\ custody' = [b \in Box |-> IF custody[b] = "inhand" THEN "left" ELSE custody[b]]
    /\ due' = TRUE

Reconcile ==
    /\ due
    /\ custody' = [b \in Box |-> IF custody[b] = "none" THEN "none" ELSE "gone"]
    /\ due' = FALSE

Next ==
    \/ \E b \in Box : Run(b) \/ Settle(b) \/ TakeOver(b) \/ Relist(b) \/ Stop(b)
    \/ Crash \/ Reconcile

\* What may happen, without what must.
Handover == Init /\ [][Next]_cvars

Spec == Handover /\ WF_cvars(Reconcile) /\ \A b \in Box : WF_cvars(Settle(b))
=============================================================================
