---------------------------- MODULE AttemptClaims ----------------------------
(***************************************************************************)
(* A sentence of the repository about attempts, as a property.  It is      *)
(* violated by a behaviour of the code, which the README tells.            *)
(***************************************************************************)
EXTENDS AttemptProperties

(***************************************************************************)
(* usecase.go:107: the backend makes sure that one user has only one       *)
(* container per scenario.                                                 *)
(***************************************************************************)
OneBoxPerOwner ==
    \A i, j \in Attempt : Up(i) /\ Up(j) /\ OwnerOf[i] = OwnerOf[j] => i = j
=============================================================================
