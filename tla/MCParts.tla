------------------------------ MODULE MCParts ------------------------------
(***************************************************************************)
(* The parts of the system that share no state, one of them at a time: the *)
(* two runners of the page that keep state, the accounts and the log file. *)
(***************************************************************************)
EXTENDS EditRunner, BundleRunner, LoginAccounts, RotatingLog

VARIABLE part     \* the part that moves

PartsInit ==
    /\ part \in {"editor", "bundle", "accounts", "log"}
    /\ EditInit /\ FrameInit /\ AccountsInit /\ LogInit
    /\ part # "accounts" => users = {}

PartsNext ==
    /\ \/ part = "editor" /\ EditNext /\ UNCHANGED <<frameVars, accountVars, logVars>>
       \/ part = "bundle" /\ FrameNext /\ UNCHANGED <<editVars, accountVars, logVars>>
       \/ part = "accounts" /\ AccountsNext /\ UNCHANGED <<editVars, frameVars, logVars>>
       \/ part = "log" /\ LogNext /\ UNCHANGED <<editVars, frameVars, accountVars>>
    /\ UNCHANGED part

\* A part that does not move enables nothing the fairness is about.
PartsSpec ==
    /\ PartsInit /\ [][PartsNext]_<<editVars, frameVars, accountVars, logVars, part>>
    /\ EditFairness /\ FrameFairness

(***************************************************************************)
(* Every part's variables have their types.                                *)
(***************************************************************************)
PartsTypeOK == EditTypeOK /\ FrameTypeOK /\ AccountsTypeOK /\ LogTypeOK
=============================================================================
