---------------------------- MODULE DockerRunner ----------------------------
(***************************************************************************)
(* DockerRunner: Run with its retries on another port, Stop, and the       *)
(* startup Reconcile, called by any number of goroutines.  A step is one   *)
(* docker command, or one critical section of the pool or of the map of    *)
(* containers; anything may happen in between.                             *)
(***************************************************************************)
EXTENDS PortPool

CONSTANTS
    Box,          \* containers, named by docker run
    Caller,       \* goroutines that call Run and Stop
    NoBox,        \* no container
    RetryLimit,   \* dockerRunPortRetryLimit
    FaultKinds,   \* the faults that may happen
    MaxFaults     \* bound: how many of them in one behaviour

ASSUME RunnerAssumption ==
    /\ NoBox \notin Box
    /\ RetryLimit \in Nat \ {0}
    /\ MaxFaults \in Nat
    /\ FaultKinds \subseteq {"run", "orphan", "rm", "ps", "exit", "bind", "crash"}

VARIABLES
    containers,   \* the map of containers to their ports; NoPort if absent
    box,          \* the container in the daemon
    published,    \* the host port it was published on
    foreign,      \* ports other processes of the host listen on
    known,        \* containers whose Run returned: the attempts keep their name
    pc,           \* the step a caller does next
    port,         \* the port a caller has in hand
    name,         \* the container it has in hand
    tries,        \* the failed tries of its Run
    failed,       \* its docker rm answered with an error
    boot,         \* how far the startup Reconcile has come
    leftover,     \* the containers its docker ps listed
    faults        \* faults so far

callerVars == <<pc, port, name, tries, failed>>
daemonVars == <<box, published, foreign>>
bootVars == <<boot, leftover>>
vars == <<poolVars, containers, daemonVars, known, callerVars, bootVars, faults>>

Label == {"idle", "docker", "retry", "markBad", "giveBack", "record",
          "rm", "unmap", "settle"}

TypeOK ==
    /\ PoolTypeOK
    /\ containers \in [Box -> Port \cup {NoPort}]
    /\ box \in [Box -> {"none", "up", "exited", "gone"}]
    /\ published \in [Box -> Port \cup {NoPort}]
    /\ foreign \subseteq Port
    /\ known \subseteq Box
    /\ pc \in [Caller -> Label]
    /\ port \in [Caller -> Port \cup {NoPort}]
    /\ name \in [Caller -> Box \cup {NoBox}]
    /\ tries \in [Caller -> 0 .. RetryLimit - 1]
    /\ failed \in [Caller -> BOOLEAN]
    /\ boot \in {"list", "rm", "done"}
    /\ leftover \subseteq Box
    /\ faults \in 0 .. MaxFaults

Init ==
    /\ NewPool
    /\ containers = [b \in Box |-> NoPort]
    /\ box = [b \in Box |-> "none"]
    /\ published = [b \in Box |-> NoPort]
    /\ foreign = {}
    /\ known = {}
    /\ pc = [c \in Caller |-> "idle"]
    /\ port = [c \in Caller |-> NoPort]
    /\ name = [c \in Caller |-> NoBox]
    /\ tries = [c \in Caller |-> 0]
    /\ failed = [c \in Caller |-> FALSE]
    /\ boot = "done"
    /\ leftover = {}
    /\ faults = 0

NoFault == UNCHANGED faults

Fault(kind) ==
    /\ kind \in FaultKinds
    /\ faults < MaxFaults
    /\ faults' = faults + 1

Goto(c, label) ==
    /\ pc' = [pc EXCEPT ![c] = label]
    /\ UNCHANGED <<port, name, tries, failed>>

Return(c) ==
    /\ pc' = [pc EXCEPT ![c] = "idle"]
    /\ port' = [port EXCEPT ![c] = NoPort]
    /\ name' = [name EXCEPT ![c] = NoBox]
    /\ tries' = [tries EXCEPT ![c] = 0]
    /\ failed' = [failed EXCEPT ![c] = FALSE]

-----------------------------------------------------------------------------
(* Run.                                                                    *)

\* Bound: a Run begins only while there is a container left for each Run.
Spare == Cardinality({c \in Caller : pc[c] \in {"docker", "retry", "markBad"}})
            < Cardinality({b \in Box : box[b] = "none"})

\* Acquire, at the start of a Run and after a conflict; an empty pool is an
\* error Run does not retry.
Acquire(c) ==
    /\ pc[c] \in {"idle", "retry"}
    /\ \/ /\ \E n \in Port : /\ AcquirePort(n)
                             /\ port' = [port EXCEPT ![c] = n]
          /\ pc' = [pc EXCEPT ![c] = "docker"]
          /\ UNCHANGED <<name, tries, failed>>
       \/ /\ Exhausted
          /\ Return(c)
          /\ UNCHANGED poolVars
    /\ UNCHANGED <<containers, daemonVars, known, bootVars, faults>>

\* A port is bound while a container published on it runs.
Bound(n) == n \in foreign \/ \E b \in Box : box[b] = "up" /\ published[b] = n

\* The daemon creates container b and publishes it on n.
Publish(b, n) ==
    /\ box[b] = "none"
    /\ box' = [box EXCEPT ![b] = "up"]
    /\ published' = [published EXCEPT ![b] = n]
    /\ UNCHANGED foreign

\* docker run.  A bound port is a conflict; any other error may come before
\* or after the container runs (an empty answer is one of these).
DockerRun(c) ==
    /\ pc[c] = "docker"
    /\ \/ /\ ~Bound(port[c])
          /\ NoFault
          /\ \E b \in Box :
                /\ Publish(b, port[c])
                /\ name' = [name EXCEPT ![c] = b]
          /\ pc' = [pc EXCEPT ![c] = "record"]
          /\ UNCHANGED <<port, tries, failed>>
       \/ /\ Bound(port[c])
          /\ NoFault
          /\ Goto(c, "markBad")
          /\ UNCHANGED daemonVars
       \/ /\ Fault("run")
          /\ Goto(c, "giveBack")
          /\ UNCHANGED daemonVars
       \/ /\ ~Bound(port[c])
          /\ Fault("orphan")
          /\ \E b \in Box : Publish(b, port[c])
          /\ Goto(c, "giveBack")
    /\ UNCHANGED <<poolVars, containers, known, bootVars>>

\* Mutant: a conflict is retried without counting it.
MarkBadUncounted(c) ==
    /\ pc[c] = "markBad"
    /\ ReleasePort(port[c])
    /\ pc' = [pc EXCEPT ![c] = "retry"]
    /\ port' = [port EXCEPT ![c] = NoPort]
    /\ UNCHANGED <<containers, daemonVars, known, name, tries, failed, bootVars, faults>>

\* Mutant: one try more than the limit.
MarkBadOnceMore(c) ==
    /\ pc[c] = "markBad"
    /\ MarkBadPort(port[c])
    /\ IF tries[c] + 1 <= RetryLimit
       THEN /\ pc' = [pc EXCEPT ![c] = "retry"]
            /\ port' = [port EXCEPT ![c] = NoPort]
            /\ tries' = [tries EXCEPT ![c] = @ + 1]
            /\ UNCHANGED <<name, failed>>
       ELSE Return(c)
    /\ UNCHANGED <<containers, daemonVars, known, bootVars, faults>>

\* The port is put aside and Run tries another one, RetryLimit times in all.
\* The docker rm of the name that never ran changes nothing.
MarkBad(c) ==
    /\ pc[c] = "markBad"
    /\ MarkBadPort(port[c])
    /\ IF tries[c] + 1 < RetryLimit
       THEN /\ pc' = [pc EXCEPT ![c] = "retry"]
            /\ port' = [port EXCEPT ![c] = NoPort]
            /\ tries' = [tries EXCEPT ![c] = @ + 1]
            /\ UNCHANGED <<name, failed>>
       ELSE Return(c)
    /\ UNCHANGED <<containers, daemonVars, known, bootVars, faults>>

\* Mutant: no Release after an error that is no conflict.
GiveBackForgotten(c) ==
    /\ pc[c] = "giveBack"
    /\ Return(c)
    /\ UNCHANGED <<poolVars, containers, daemonVars, known, bootVars, faults>>

GiveBack(c) ==
    /\ pc[c] = "giveBack"
    /\ ReleasePort(port[c])
    /\ Return(c)
    /\ UNCHANGED <<containers, daemonVars, known, bootVars, faults>>

Record(c) ==
    /\ pc[c] = "record"
    /\ containers' = [containers EXCEPT ![name[c]] = port[c]]
    /\ known' = known \cup {name[c]}
    /\ Return(c)
    /\ UNCHANGED <<poolVars, daemonVars, bootVars, faults>>

-----------------------------------------------------------------------------
(* Stop: docker rm, the mapping, then the port.                            *)

Stop(c, b) ==
    /\ pc[c] = "idle"
    /\ b \in known
    /\ pc' = [pc EXCEPT ![c] = "rm"]
    /\ name' = [name EXCEPT ![c] = b]
    /\ UNCHANGED <<poolVars, containers, daemonVars, known, port, tries, failed,
                   bootVars, faults>>

\* docker rm -f.  "No such container" counts as done; an error says nothing
\* about the container.
RmBox(c) ==
    /\ pc[c] = "rm"
    /\ pc' = [pc EXCEPT ![c] = "unmap"]
    /\ \/ /\ NoFault
          /\ box' = [box EXCEPT ![name[c]] = "gone"]
          /\ UNCHANGED failed
       \/ /\ Fault("rm")
          /\ \/ box' = [box EXCEPT ![name[c]] = "gone"]
             \/ UNCHANGED box
          /\ failed' = [failed EXCEPT ![c] = TRUE]
    /\ UNCHANGED <<poolVars, containers, published, foreign, known, port, name, tries,
                   bootVars>>

\* Mutant: the mapping is read but not deleted.
UnmapKept(c) ==
    /\ pc[c] = "unmap"
    /\ IF containers[name[c]] = NoPort THEN Return(c)
       ELSE /\ pc' = [pc EXCEPT ![c] = "settle"]
            /\ port' = [port EXCEPT ![c] = containers[name[c]]]
            /\ UNCHANGED <<name, tries, failed>>
    /\ UNCHANGED <<poolVars, containers, daemonVars, known, bootVars, faults>>

\* The mapping is read and deleted under one lock.
Unmap(c) ==
    /\ pc[c] = "unmap"
    /\ containers' = [containers EXCEPT ![name[c]] = NoPort]
    /\ IF containers[name[c]] = NoPort THEN Return(c)
       ELSE /\ pc' = [pc EXCEPT ![c] = "settle"]
            /\ port' = [port EXCEPT ![c] = containers[name[c]]]
            /\ UNCHANGED <<name, tries, failed>>
    /\ UNCHANGED <<poolVars, daemonVars, known, bootVars, faults>>

\* Mutant: the port goes back to the pool whatever docker rm answered.
SettleReleases(c) ==
    /\ pc[c] = "settle"
    /\ ReleasePort(port[c])
    /\ Return(c)
    /\ UNCHANGED <<containers, daemonVars, known, bootVars, faults>>

Settle(c) ==
    /\ pc[c] = "settle"
    /\ IF failed[c] THEN MarkBadPort(port[c]) ELSE ReleasePort(port[c])
    /\ Return(c)
    /\ UNCHANGED <<containers, daemonVars, known, bootVars, faults>>

-----------------------------------------------------------------------------
(* The host, and a restart.                                                *)

\* The process in a container ends; the daemon frees its port.
Exit(b) ==
    /\ Fault("exit")
    /\ box[b] = "up"
    /\ box' = [box EXCEPT ![b] = "exited"]
    /\ UNCHANGED <<poolVars, containers, published, foreign, known, callerVars, bootVars>>

\* The attempt of a container that is gone ends; nobody names b any more, so
\* b may stand for a container to come.
Forget(b) ==
    /\ box[b] = "gone"
    /\ containers[b] = NoPort
    /\ \A c \in Caller : name[c] # b
    /\ b \notin leftover
    /\ box' = [box EXCEPT ![b] = "none"]
    /\ published' = [published EXCEPT ![b] = NoPort]
    /\ known' = known \ {b}
    /\ UNCHANGED <<poolVars, containers, foreign, callerVars, bootVars, faults>>

\* Another process of the host takes a port, or leaves it.
Bind(n) ==
    /\ ~Bound(n)
    /\ Fault("bind")
    /\ foreign' = foreign \cup {n}
    /\ UNCHANGED <<poolVars, containers, box, published, known, callerVars, bootVars>>

Unbind(n) ==
    /\ n \in foreign
    /\ foreign' = foreign \ {n}
    /\ UNCHANGED <<poolVars, containers, box, published, known, callerVars, bootVars, faults>>

\* The process ends and starts again with a new pool and an empty map.
Crash ==
    /\ Fault("crash")
    /\ RenewPool
    /\ containers' = [b \in Box |-> NoPort]
    /\ pc' = [c \in Caller |-> "idle"]
    /\ port' = [c \in Caller |-> NoPort]
    /\ name' = [c \in Caller |-> NoBox]
    /\ tries' = [c \in Caller |-> 0]
    /\ failed' = [c \in Caller |-> FALSE]
    /\ boot' = "list"
    /\ leftover' = {}
    /\ UNCHANGED <<daemonVars, known>>

\* Reconcile lists the labelled containers, those that exited too, and then
\* removes the ones it listed, or only some of them; an error of either
\* command ends it.
ListLeftovers ==
    /\ boot = "list"
    /\ \/ /\ NoFault
          /\ boot' = "rm"
          /\ leftover' = {b \in Box : box[b] \in {"up", "exited"}}
       \/ /\ Fault("ps")
          /\ boot' = "done"
          /\ UNCHANGED leftover
    /\ UNCHANGED <<poolVars, containers, daemonVars, known, callerVars>>

RemoveLeftovers ==
    /\ boot = "rm"
    /\ boot' = "done"
    /\ leftover' = {}
    /\ \E removed \in SUBSET leftover :
          /\ box' = [b \in Box |-> IF b \in removed THEN "gone" ELSE box[b]]
          /\ IF removed = leftover THEN NoFault ELSE Fault("rm")
    /\ UNCHANGED <<poolVars, containers, published, foreign, known, callerVars>>

-----------------------------------------------------------------------------
Reconcile == ListLeftovers \/ RemoveLeftovers

\* A Run or a Stop that has begun goes on.
CallerStep(c) ==
    \/ pc[c] = "retry" /\ Acquire(c)
    \/ DockerRun(c) \/ MarkBad(c) \/ GiveBack(c) \/ Record(c)
    \/ RmBox(c) \/ Unmap(c) \/ Settle(c)

Call(c) ==
    \/ pc[c] = "idle" /\ Spare /\ Acquire(c)
    \/ \E b \in Box : Stop(c, b)

Host ==
    \/ \E b \in Box : Exit(b) \/ Forget(b)
    \/ \E n \in Port : Bind(n) \/ Unbind(n)
    \/ Crash

Next ==
    \/ \E c \in Caller : Call(c) \/ CallerStep(c)
    \/ Reconcile
    \/ Host

Spec == Init /\ [][Next]_vars

\* docker commands have time limits or end by themselves.
FairSpec == Spec /\ WF_vars(Reconcile) /\ \A c \in Caller : WF_vars(CallerStep(c))
=============================================================================
