------------------------- MODULE AttemptProperties -------------------------
(***************************************************************************)
(* What the lifecycle of attempts keeps, and below what its comments say   *)
(* it keeps and it does not.                                               *)
(***************************************************************************)
EXTENDS AttemptLifecycle

Up(id) == box[id] = "up"

(***************************************************************************)
(* A Start whose container is not in the store yet, or no longer: it will  *)
(* either register the container or stop it.                               *)
(***************************************************************************)
Responsible(p, id) ==
    /\ cur[p] = id
    /\ pc[p] \in {"create", "undoRun", "put", "undoPut", "recStop"}

InHand(id) == \E p \in Proc : Responsible(p, id)

(***************************************************************************)
(* No container is lost (the destruction paths at the head of usecase.go): *)
(* a live container is one the collector's Snapshot will show, or one that *)
(* a Start in progress has in hand, or the startup Reconcile, which        *)
(* removes every container, is still to run.                               *)
(***************************************************************************)
NoOrphanBox == \A id \in Attempt : Up(id) => Visible(id) \/ InHand(id) \/ booting

(***************************************************************************)
(* A row says terminated only when the container is gone: Terminate, the   *)
(* rollbacks, the replacement of a stale attempt and the two self-healing  *)
(* paths all write the row after the container is stopped or found dead.   *)
(***************************************************************************)
TerminatedIsStopped == \A id \in Attempt : db[id] = "terminated" => ~Up(id)

(***************************************************************************)
(* An attempt that was created and has no record, and of which no call     *)
(* holds a record it has yet to write: neither a Start that has made the   *)
(* row, nor a heartbeat or check that found the key and has not done its   *)
(* Put.                                                                    *)
(***************************************************************************)
Gone(id) ==
    /\ db[id] # "none"
    /\ ~Cached(id)
    /\ \A p \in Proc : cur[p] = id => pc[p] \notin {"put", "touchPut", "checkPut"}

(***************************************************************************)
(* A record that is gone does not come back.  Delete, a TTL or a broken    *)
(* pipeline takes it away in the middle of heartbeats and checks, and      *)
(* UpdateLastActive and UpdateStatus (attempt_store.go:236-265) only write *)
(* what they found: the calls that had read the key before it went may     *)
(* bring it back, over a terminated row too, and none that comes later,    *)
(* whatever fails and however often the process dies.                      *)
(***************************************************************************)
GoneStaysGone == [][\A id \in Attempt : Gone(id) => Gone(id)']_vars

(***************************************************************************)
(* Every port the runner holds belongs to an attempt somebody will still   *)
(* stop: Stop is the only place where a port goes back to the pool         *)
(* (OpslabsAttempt.go:24).                                                 *)
(***************************************************************************)
PortsReturn == \A id \in held : Visible(id) \/ InHand(id)

(***************************************************************************)
(* The life of a container as BoxCustody sees it.  "lost" is the container *)
(* nobody answers for; BoxCustody has no such value.                       *)
(***************************************************************************)
CustodyOf(id) ==
    CASE box[id] = "none"                     -> "none"
      [] box[id] = "gone"                     -> "gone"
      [] Up(id) /\ Visible(id)                -> "listed"
      [] Up(id) /\ ~Visible(id) /\ InHand(id) -> "inhand"
      [] Up(id) /\ ~Visible(id) /\ ~InHand(id) /\ booting -> "left"
      [] OTHER                                -> "lost"

Custody == INSTANCE BoxCustody WITH
    Box <- Attempt,
    custody <- [id \in Attempt |-> CustodyOf(id)],
    due <- booting

\* The lifecycle implements BoxCustody: Start, Terminate, the collector and
\* their rollbacks hand each container over without a gap, and what a process
\* that died had in hand is Reconcile's.
KeepsCustody == Custody!Spec

\* The same without the fairness: whatever fails, no step of a handler or the
\* collector leaves a container to nobody or runs one again, only a crash leaves
\* one to Reconcile, and that ends all there are (usecase.go:8-20).
KeepsHandover == Custody!Handover

-----------------------------------------------------------------------------
Quiet == \A w \in Worker : At(w, "idle")

(***************************************************************************)
(* Once users stop sending requests, the collector frees everything: no    *)
(* container runs and the store is empty (idle cutoff, passed grace).      *)
(***************************************************************************)
Reclaimed ==
    <>[]Quiet => <>[](\A id \in Attempt : ~Up(id) /\ ~Cached(id))

(***************************************************************************)
(* Whatever users do, a record whose container died leaves the store: the  *)
(* collector's Ping, GetWithPing and Start find it, and a heartbeat that   *)
(* writes the record back only delays it.                                  *)
(***************************************************************************)
DeadRecordLeaves ==
    \A id \in Attempt :
        (Cached(id) /\ box[id] = "gone") ~> ~Cached(id)
=============================================================================
