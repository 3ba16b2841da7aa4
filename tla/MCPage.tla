------------------------------- MODULE MCPage -------------------------------
(***************************************************************************)
(* The page of the user, and the bundle with a machine of its own that it  *)
(* shows: they share no state, so one of them moves.                       *)
(***************************************************************************)
EXTENDS SessionPage, LinuxBundle

VARIABLE side     \* the one that moves

MCInit == side \in {"page", "bundle"} /\ PageInit /\ LinuxInit /\ (side = "page" => ~echo)

MCNext ==
    /\ \/ side = "page" /\ PageNext /\ UNCHANGED linuxVars
       \/ side = "bundle" /\ LinuxNext /\ UNCHANGED pageVars
    /\ UNCHANGED side

\* The one that does not move enables nothing the fairness is about.
MCSpec ==
    /\ MCInit /\ [][MCNext]_<<pageVars, linuxVars, side>>
    /\ PageFairness /\ LinuxFairness

(***************************************************************************)
(* The variables of both have their types.                                 *)
(***************************************************************************)
SidesTypeOK == PageTypeOK /\ LinuxTypeOK
=============================================================================
