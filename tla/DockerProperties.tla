-------------------------- MODULE DockerProperties --------------------------
(* What the runner keeps between its pool, its map and the daemon.         *)
EXTENDS DockerRunner

\* Ports the runner answers for: a caller has it in hand, or the map has it.
InHands(n) == \E c \in Caller : port[c] = n
Mapped(n) == \E b \in Box : containers[b] = n

(***************************************************************************)
(* No port is lost or handed out twice, whatever calls overlap: every port *)
(* is free once, put aside, or handed out, and a port is handed out        *)
(* exactly while a caller or a mapped container has it.                    *)
(***************************************************************************)
PortsAccounted ==
    /\ \A i, j \in 1 .. Len(free) : free[i] = free[j] => i = j
    /\ \A n \in Port :
          \/ n \in used /\ n \notin bad /\ ~Contains(free, n) /\ (InHands(n) \/ Mapped(n))
          \/ n \in bad /\ n \notin used /\ ~Contains(free, n) /\ ~InHands(n) /\ ~Mapped(n)
          \/ n \notin used \cup bad /\ Contains(free, n) /\ ~InHands(n) /\ ~Mapped(n)

(***************************************************************************)
(* One port, one owner: two containers the runner knows are never on the   *)
(* same port, and a caller never has in hand the port of another.          *)
(***************************************************************************)
OneOwner ==
    /\ \A b, d \in Box : containers[b] # NoPort /\ containers[b] = containers[d] => b = d
    /\ \A c, d \in Caller :
          port[c] # NoPort /\ port[c] = port[d] => c = d
    /\ \A c \in Caller : port[c] # NoPort => ~Mapped(port[c])

(***************************************************************************)
(* Pool, calls and map together implement PortLoans: a port passes from    *)
(* hand to hand one step at a time, is never in two places on the way      *)
(* (Stop deletes the entry before it releases the port), and MarkBad is    *)
(* for good (portpool.go:16).                                              *)
(***************************************************************************)
Loans == INSTANCE PortLoans WITH
    pool <- {n \in Port : Contains(free, n)},
    aside <- bad,
    hand <- port,
    entry <- containers

KeepsLoans == Loans!Spec

(***************************************************************************)
(* docker.go:371-377: Stop gives a port back only when the container is    *)
(* gone, so the pool never hands out a port a container of ours still has. *)
(***************************************************************************)
FreeIsUnbound ==
    \A b \in Box : box[b] = "up" => ~Contains(free, published[b])

(***************************************************************************)
(* What a call has still to do at most: a try of Run is Acquire, docker    *)
(* run and MarkBad, and Run has RetryLimit tries (docker.go:100).           *)
(***************************************************************************)
StepsLeft(c) ==
    LET triesLeft == RetryLimit - tries[c]
    IN  CASE pc[c] = "idle"                            -> 0
          [] pc[c] = "retry"                           -> 3 * triesLeft
          [] pc[c] = "docker"                          -> 3 * triesLeft - 1
          [] pc[c] = "markBad"                         -> 3 * triesLeft - 2
          [] pc[c] \in {"giveBack", "record", "settle"} -> 1
          [] pc[c] = "unmap"                           -> 2
          [] pc[c] = "rm"                              -> 3

(***************************************************************************)
(* No call goes round in circles, whatever other calls and the host do     *)
(* between its steps: each step of a Run, its retries on other ports       *)
(* included, and of a Stop leaves less to do, so a Run ends within         *)
(* 3 * RetryLimit steps.                                                   *)
(***************************************************************************)
CallsAreShort ==
    [][\A c \in Caller : pc[c] # "idle" /\ pc'[c] # pc[c]
          => StepsLeft(c)' \in 0 .. StepsLeft(c) - 1]_vars

(***************************************************************************)
(* Every Run and Stop comes to an end, even when another process of the    *)
(* host takes each port just before docker run does (the retry limit).     *)
(***************************************************************************)
CallsReturn == \A c \in Caller : pc[c] # "idle" ~> pc[c] = "idle"
=============================================================================
