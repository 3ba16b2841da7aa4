------------------------------ MODULE PortPool ------------------------------
(***************************************************************************)
(* The ports of the container runner (PortPool).  Every method holds one   *)
(* mutex, so each is one operator on the three collections.  free is a     *)
(* slice used as a stack: a slice could hold a port twice.                 *)
(***************************************************************************)
EXTENDS Integers, SequencesExt

CONSTANTS
    PortStart, PortEnd,   \* the range of the configuration, both ends included
    NoPort                \* no port

Port == PortStart .. PortEnd

\* NewPortPool makes a slice of that capacity, which must not be negative.
ASSUME PortAssumption ==
    /\ PortStart \in Nat /\ PortEnd \in Nat
    /\ PortStart <= PortEnd + 1
    /\ NoPort \notin Port

VARIABLES
    free,   \* ports to hand out, the last one first
    used,   \* ports handed out
    bad     \* ports put aside until the process restarts

poolVars == <<free, used, bad>>

PoolTypeOK ==
    /\ free \in Seq(Port)
    /\ used \subseteq Port
    /\ bad \subseteq Port

NewPool ==
    /\ free = [i \in 1 .. PortEnd - PortStart + 1 |-> PortStart + i - 1]
    /\ used = {}
    /\ bad = {}

RenewPool ==
    /\ free' = [i \in 1 .. PortEnd - PortStart + 1 |-> PortStart + i - 1]
    /\ used' = {}
    /\ bad' = {}

Exhausted == free = <<>>

\* Mutant: with no port left, one that was put aside is tried again.
AcquireAside(port) ==
    /\ IF Exhausted
       THEN /\ port \in bad
            /\ bad' = bad \ {port}
            /\ UNCHANGED free
       ELSE /\ port = Last(free)
            /\ free' = Front(free)
            /\ UNCHANGED bad
    /\ used' = used \cup {port}

AcquirePort(port) ==
    /\ ~Exhausted
    /\ port = Last(free)
    /\ free' = Front(free)
    /\ used' = used \cup {port}
    /\ UNCHANGED bad

ReleasePort(port) ==
    IF port \in used
    THEN /\ used' = used \ {port}
         /\ free' = IF port \in bad THEN free ELSE Append(free, port)
         /\ UNCHANGED bad
    ELSE UNCHANGED poolVars

MarkBadPort(port) ==
    IF port \in bad THEN UNCHANGED poolVars
    ELSE /\ bad' = bad \cup {port}
         /\ used' = used \ {port}
         /\ free' = RemoveFirst(free, port)
=============================================================================
