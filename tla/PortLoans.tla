------------------------------ MODULE PortLoans ------------------------------
(***************************************************************************)
(* The promise of the port pool, without its collections: a port is lent   *)
(* to one call at a time, which gives it back, puts it aside, or enters it *)
(* for a container; only the call that takes the entry out again has it    *)
(* back in hand; what is aside is lent to nobody until the process         *)
(* restarts.                                                               *)
(***************************************************************************)
CONSTANTS Port, Caller, Box, NoPort

VARIABLES
    pool,    \* ports to lend
    aside,   \* ports put aside
    hand,    \* the port a call has in hand
    entry    \* the port of a container

loans == <<pool, aside, hand, entry>>

Init ==
    /\ pool = Port
    /\ aside = {}
    /\ hand = [c \in Caller |-> NoPort]
    /\ entry = [b \in Box |-> NoPort]

Lend(c, n) ==
    /\ n \in pool /\ hand[c] = NoPort
    /\ pool' = pool \ {n}
    /\ hand' = [hand EXCEPT ![c] = n]
    /\ UNCHANGED <<aside, entry>>

GiveBack(c) ==
    /\ hand[c] # NoPort
    /\ pool' = pool \cup {hand[c]}
    /\ hand' = [hand EXCEPT ![c] = NoPort]
    /\ UNCHANGED <<aside, entry>>

PutAside(c) ==
    /\ hand[c] # NoPort
    /\ aside' = aside \cup {hand[c]}
    /\ hand' = [hand EXCEPT ![c] = NoPort]
    /\ UNCHANGED <<pool, entry>>

Enter(c, b) ==
    /\ hand[c] # NoPort /\ entry[b] = NoPort
    /\ entry' = [entry EXCEPT ![b] = hand[c]]
    /\ hand' = [hand EXCEPT ![c] = NoPort]
    /\ UNCHANGED <<pool, aside>>

TakeOut(c, b) ==
    /\ hand[c] = NoPort /\ entry[b] # NoPort
    /\ hand' = [hand EXCEPT ![c] = entry[b]]
    /\ entry' = [entry EXCEPT ![b] = NoPort]
    /\ UNCHANGED <<pool, aside>>

\* A new process remembers nothing.
Restart ==
    /\ pool' = Port
    /\ aside' = {}
    /\ hand' = [c \in Caller |-> NoPort]
    /\ entry' = [b \in Box |-> NoPort]

Next ==
    \/ \E c \in Caller :
          \/ \E n \in Port : Lend(c, n)
          \/ GiveBack(c) \/ PutAside(c)
          \/ \E b \in Box : Enter(c, b) \/ TakeOut(c, b)
    \/ Restart

Spec == Init /\ [][Next]_loans
=============================================================================
