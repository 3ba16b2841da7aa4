---------------------------- MODULE AttemptCache ----------------------------
(***************************************************************************)
(* The keys AttemptStore keeps in Redis, and what each of its pipelines    *)
(* does to them.                                                           *)
(*                                                                         *)
(*   opslabs:attempt:<id>                      main[id]                    *)
(*   opslabs:attempt:active                    active                      *)
(*   opslabs:attempt:owner:client:<c>:<slug>   owner[key]                  *)
(*                                                                         *)
(* An element of Owner is a pair of a client and a scenario; OwnerOf[id]   *)
(* is the pair an attempt was created for, which no operation changes.     *)
(***************************************************************************)
EXTENDS Naturals

CONSTANTS
    Attempt,     \* attempt identifiers (snowflake numbers)
    NoAttempt,   \* the value of a missing owner index
    Owner,       \* (client, scenario) pairs
    OwnerOf      \* the pair an attempt belongs to

ASSUME NoAttemptAssumption == NoAttempt \notin Attempt
ASSUME OwnerOfAssumption == OwnerOf \in [Attempt -> Owner]

VARIABLES
    main,     \* main[id]: the JSON record under the main key, or NoEntry
    active,   \* members of the active set
    owner     \* owner[o]: the identifier under the owner index, or NoAttempt

cacheVars == <<main, active, owner>>

(***************************************************************************)
(* What the lifecycle reads of an attempt record.  "old" says that the     *)
(* time stamp the collector compares is past its cutoff: LastActiveAt and  *)
(* the idle cutoff for a running attempt, FinishedAt and the passed grace  *)
(* for a passed one.                                                       *)
(***************************************************************************)
Status == {"none", "running", "passed", "terminated"}

Record == [status : Status, old : BOOLEAN]

NoEntry == [status |-> "none", old |-> FALSE]

Running == [status |-> "running", old |-> FALSE]

Cached(id) == main[id].status # "none"

\* A main key the collector sees: Snapshot reads the members of the active set.
Visible(id) == Cached(id) /\ id \in active

CacheTypeOK ==
    /\ main \in [Attempt -> Record]
    /\ active \subseteq Attempt
    /\ owner \in [Owner -> Attempt \cup {NoAttempt}]

CacheInit ==
    /\ main = [id \in Attempt |-> NoEntry]
    /\ active = {}
    /\ owner = [o \in Owner |-> NoAttempt]

-----------------------------------------------------------------------------
\* Put: SET main, SADD active, SET owner index.
PutEntry(id, rec) ==
    /\ main' = [main EXCEPT ![id] = rec]
    /\ active' = active \cup {id}
    /\ owner' = [owner EXCEPT ![OwnerOf[id]] = id]

\* Delete, after its own GET of the record: DEL main, SREM active, and, when
\* the record was there to read, DEL of the owner index whatever it holds now.
EraseEntry(id, found) ==
    /\ main' = [main EXCEPT ![id] = NoEntry]
    /\ active' = active \ {id}
    /\ owner' = IF found THEN [owner EXCEPT ![OwnerOf[id]] = NoAttempt]
                         ELSE owner

(***************************************************************************)
(* The pipelines are no transactions: one that fails may have been carried *)
(* out up to any of its commands.                                          *)
(***************************************************************************)
PutBroken(id, rec) ==
    \/ PutEntry(id, rec)
    \/ /\ main' = [main EXCEPT ![id] = rec]
       /\ active' \in {active, active \cup {id}}
       /\ UNCHANGED owner
    \/ UNCHANGED cacheVars

EraseBroken(id, found) ==
    \/ EraseEntry(id, found)
    \/ /\ main' = [main EXCEPT ![id] = NoEntry]
       /\ active' \in {active, active \ {id}}
       /\ UNCHANGED owner
    \/ UNCHANGED cacheVars

\* UpdateLastActive rewrites the record it read with a new LastActiveAt; the
\* FinishedAt of a passed record is untouched.
Touched(rec) == [rec EXCEPT !.old = @ /\ rec.status # "running"]
=============================================================================
